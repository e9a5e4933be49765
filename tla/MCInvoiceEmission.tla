--------------------------- MODULE MCInvoiceEmission ---------------------------
EXTENDS InvoiceEmission

CONSTANTS t1, t2, p1, v1

=============================================================================
