---------------------------- MODULE MCTenantContext ----------------------------
EXTENDS TenantContext

CONSTANTS th1, th2, o1, o2, ann, root

\* A user of the first organization and a superuser without one.
MCOrgOf == [u \in {ann, root} |-> IF u = ann THEN o1 ELSE NoOrg]

=============================================================================
