---------------------------- MODULE Inventory_proofs ----------------------------
(***************************************************************************)
(* Proofs about Inventory, for any requests, carts, products, warehouses   *)
(* and initial stock.                                                      *)
(*                                                                         *)
(* The Kardex is exact because a signal holds the row lock from its read   *)
(* of the quantity to the commit: Pending says that what an open           *)
(* transaction will write is the committed quantity plus its movements.    *)
(* Every other writer waits for that lock and so cannot come in between,   *)
(* but those that read before they waited are the exceptions the property  *)
(* names. Settled keeps returns and item views away from an order that is  *)
(* still being written; Checked is what the order form knows between its   *)
(* check of the stock and the sale. Ordered, on top of them, is what makes  *)
(* an order whole: the lines before the current one are in the open order, *)
(* and no other view can bring an order into being.                        *)
(***************************************************************************)
EXTENDS Inventory, SumTheorems, SequenceTheorems

Writing(s) == pc[s] \in {"item", "create", "commit"}

(* The line a sale or a receipt is at exists.                               *)
AtLine ==
    \A s \in Sessions : /\ pc[s] = "new" => at[s] = 1
                        /\ pc[s] \in {"item", "create"} => at[s] \in 1..Len(cart[s])

(* Only open transactions hold locks.                                       *)
Holders ==
    /\ \A r \in Rows : rowLock[r] # Nobody => Writing(rowLock[r])
    /\ \A p \in Products : prodLock[p] # Nobody => Writing(prodLock[p])

(* An open transaction owns what it wrote and writes what it moved.         *)
Pending ==
    \A s \in Sessions, r \in Rows :
        /\ r \in tx[s].wrote => rowLock[r] = s /\ tx[s].val[r] = stock[r] + tx[s].mov[r]
        /\ r \notin tx[s].wrote => tx[s].mov[r] = 0

Working(e) == pc[e] \in {"return", "take", "peek", "save", "give", "restore", "restoring"}

(* Item views, returns and cancellations work on orders that were placed.   *)
Settled ==
    /\ \A o \in Sessions : pc[o] # "done" =>
          ord[o].status = "none" /\ \A p \in Products : ord[o].item[p] = 0 /\ returned[o][p] = 0
    /\ \A e \in Sessions : Working(e) => pc[req[e].o] = "done"

(* The returns under way fit into the item together.                        *)
Fits ==
    did \cap {"give", "take", "overlap"} = {} =>
        /\ \A t \in Sessions : pc[t] = "return" =>
              returned[req[t].o][req[t].p] + req[t].n <= ord[req[t].o].item[req[t].p]
        /\ \A t, u \in Sessions : (pc[t] = "return" /\ pc[u] = "return"
                                   /\ req[t].o = req[u].o /\ req[t].p = req[u].p) => t = u

(* r is the only row of its product.                                        *)
Only(r) == \A q \in RowsOf(r[1]) : q = r

(* None of the exceptions that WebNeverOversells names has happened.        *)
Clean == /\ did \cap {"take", "stale"} = {}
         /\ \A s \in Sessions : kind[s] = "api" => ord[s] = NoOrder

(* The order form holds the Product rows of what it sells; a receipt only   *)
(* adds; an item view that gives back does not take.                        *)
Own(s) ==
    /\ pc[s] = "new" => kind[s] = "none"
    /\ Writing(s) => kind[s] # "none"
    /\ kind[s] = "web" =>
          /\ \A r \in Rows : r \in tx[s].wrote => prodLock[r[1]] = s
          /\ pc[s] = "create" => prodLock[Line(s).p] = s /\ RowsOf(Line(s).p) # {}
    /\ kind[s] = "po" => pc[s] # "create" /\ \A r \in Rows : tx[s].mov[r] >= 0
    /\ pc[s] \in {"peek", "give"} => req[s].diff <= 0 /\ req[s].status # "none"

(* What it checked still holds when it sells, if the product has one row.   *)
Covered(s) ==
    kind[s] = "web" =>
        /\ \A r \in Rows : r \in tx[s].wrote /\ Only(r) => tx[s].val[r] >= 0
        /\ pc[s] = "create" => \A r \in RowsOf(Line(s).p) : Only(r) => Seen(s, r) >= Line(s).n

Checked ==
    /\ \A s \in Sessions : Own(s)
    /\ Clean => \A s \in Sessions : Covered(s)

KInv == TypeOK /\ AtLine /\ Holders /\ Pending /\ KardexExact
RInv == KInv /\ Settled /\ Fits /\ SerialReturnsWithinSale
WInv == RInv /\ Checked /\ WebNeverOversells

(***************************************************************************)
(* The types of what the steps are built from.                             *)
(***************************************************************************)
LEMMA RowType == \A r \in Rows : r[1] \in Products /\ r[2] \in Warehouses /\ r = <<r[1], r[2]>>
<1>. QED BY DEF Rows

LEMMA LineType ==
    ASSUME TypeOK, AtLine, NEW s \in Sessions, pc[s] \in {"item", "create"}
    PROVE  /\ Line(s) \in Lines /\ Line(s).p \in Products /\ Line(s).n \in 1..MaxQty
           /\ Line(s).n \in Nat /\ Line(s).n > 0 /\ at[s] \in 1..Len(cart[s])
<1>1. cart[s] \in Seq(Lines) /\ at[s] \in 1..Len(cart[s])
    BY DEF TypeOK, AtLine
<1>2. Line(s) \in Lines
    BY <1>1 DEF Line
<1>. QED BY <1>1, <1>2, InventoryAssumption DEF Lines

LEMMA SeenType == ASSUME TypeOK, NEW s \in Sessions, NEW r \in Rows PROVE Seen(s, r) \in Int
<1>. QED BY DEF TypeOK, Transactions, Seen

LEMMA WriteFields ==
    ASSUME TypeOK, NEW s \in Sessions, NEW r \in Rows, NEW n \in Int
    PROVE  /\ Write(s, r, n) \in Transactions
           /\ Write(s, r, n).wrote = tx[s].wrote \cup {r}
           /\ Write(s, r, n).val = [tx[s].val EXCEPT ![r] = Seen(s, r) + n]
           /\ Write(s, r, n).mov = [tx[s].mov EXCEPT ![r] = @ + n]
           /\ Write(s, r, n).key = tx[s].key /\ Write(s, r, n).item = tx[s].item
<1>1. tx[s] \in Transactions /\ Seen(s, r) \in Int
    BY SeenType DEF TypeOK
<1>2. tx[s].val[r] \in Int /\ tx[s].mov[r] \in Int
    BY <1>1 DEF Transactions
<1> DEFINE v == Seen(s, r) + n
<1>3. v \in Int
    BY <1>1
<1>4. Write(s, r, n) = [tx[s] EXCEPT !.wrote = @ \cup {r}, !.val = [@ EXCEPT ![r] = v],
                                     !.mov = [@ EXCEPT ![r] = tx[s].mov[r] + n]]
    BY DEF Write
<1> HIDE DEF v
<1> DEFINE newVal == [tx[s].val EXCEPT ![r] = v]
           newMov == [tx[s].mov EXCEPT ![r] = tx[s].mov[r] + n]
           w == [tx[s] EXCEPT !.wrote = tx[s].wrote \cup {r}, !.val = newVal, !.mov = newMov]
<1>5. newVal \in [Rows -> Int] /\ newMov \in [Rows -> Int]
    BY <1>1, <1>2, <1>3 DEF Transactions
<1>6. Write(s, r, n) = w /\ newMov = [tx[s].mov EXCEPT ![r] = @ + n]
    BY <1>4
<1> HIDE DEF newVal, newMov
<1>7. /\ w \in Transactions
      /\ w.wrote = tx[s].wrote \cup {r} /\ w.val = newVal /\ w.mov = newMov
      /\ w.key = tx[s].key /\ w.item = tx[s].item
    BY <1>1, <1>5 DEF Transactions
<1>. QED BY <1>6, <1>7 DEF v, w, newVal, newMov

LEMMA NoWritesType == NoWrites \in Transactions
<1>. QED BY DEF NoWrites, Transactions

(***************************************************************************)
(* A sale of a line, field by field.                                       *)
(***************************************************************************)
LEMMA SaleFields ==
    ASSUME TypeOK, AtLine, NEW s \in Sessions, CreateItem(s)
    PROVE  \E r \in Rows :
             /\ r[1] = Line(s).p /\ IsFirst(r, RowsOf(Line(s).p)) /\ RowFree(s, r)
             /\ rowLock' = [rowLock EXCEPT ![r] = s]
             /\ \A u \in Sessions \ {s} : tx'[u] = tx[u]
             /\ tx'[s] \in Transactions /\ tx' \in [Sessions -> Transactions]
             /\ tx'[s].wrote = tx[s].wrote \cup {r}
             /\ tx'[s].val = [tx[s].val EXCEPT ![r] = Seen(s, r) - Line(s).n]
             /\ tx'[s].mov = [tx[s].mov EXCEPT ![r] = @ - Line(s).n]
             /\ tx'[s].key = tx[s].key
             /\ tx'[s].item = [tx[s].item EXCEPT ![Line(s).p] = @ + Line(s).n]
<1>0. pc[s] = "create"
    BY DEF CreateItem
<1>1. Line(s).n \in Nat /\ Line(s).p \in Products
    BY <1>0, LineType
<1>2. PICK r \in RowsOf(Line(s).p) :
          /\ IsFirst(r, RowsOf(Line(s).p)) /\ RowFree(s, r)
          /\ rowLock' = [rowLock EXCEPT ![r] = s]
          /\ tx' = [tx EXCEPT ![s] = [Write(s, r, -Line(s).n) EXCEPT !.item[Line(s).p] = @ + Line(s).n]]
    BY DEF CreateItem
<1>3. r \in Rows /\ r[1] = Line(s).p
    BY <1>2 DEF RowsOf
<1> DEFINE w == Write(s, r, -Line(s).n)
<1>4. /\ w \in Transactions /\ w.wrote = tx[s].wrote \cup {r}
      /\ w.val = [tx[s].val EXCEPT ![r] = Seen(s, r) + (-Line(s).n)]
      /\ w.mov = [tx[s].mov EXCEPT ![r] = @ + (-Line(s).n)]
      /\ w.key = tx[s].key /\ w.item = tx[s].item
    BY <1>1, <1>3, WriteFields
<1>5. tx[s] \in Transactions /\ Seen(s, r) \in Int
    BY <1>3, SeenType DEF TypeOK
<1>6. /\ w.val = [tx[s].val EXCEPT ![r] = Seen(s, r) - Line(s).n]
      /\ w.mov = [tx[s].mov EXCEPT ![r] = @ - Line(s).n]
    BY <1>1, <1>3, <1>4, <1>5 DEF Transactions
<1> HIDE DEF w
<1>7. /\ tx'[s] = [w EXCEPT !.item[Line(s).p] = @ + Line(s).n]
      /\ tx' = [tx EXCEPT ![s] = [w EXCEPT !.item[Line(s).p] = @ + Line(s).n]]
    BY <1>2 DEF TypeOK, w
<1>8. [w EXCEPT !.item[Line(s).p] = @ + Line(s).n] \in Transactions
    BY <1>1, <1>4 DEF Transactions
<1>9. /\ tx'[s].wrote = w.wrote /\ tx'[s].val = w.val /\ tx'[s].mov = w.mov /\ tx'[s].key = w.key
      /\ tx'[s].item = [w.item EXCEPT ![Line(s).p] = @ + Line(s).n]
    BY <1>4, <1>7 DEF Transactions
<1>10. tx' \in [Sessions -> Transactions] /\ \A u \in Sessions \ {s} : tx'[u] = tx[u]
    BY <1>7, <1>8 DEF TypeOK
<1>. QED BY <1>2, <1>3, <1>4, <1>6, <1>7, <1>8, <1>9, <1>10

\* A sale that lost its Stock row writes the item and nothing else.
LEMMA SwallowFields ==
    ASSUME TypeOK, AtLine, NEW s \in Sessions, SwallowDeadlock(s)
    PROVE  /\ \A u \in Sessions \ {s} : tx'[u] = tx[u]
           /\ tx'[s] \in Transactions /\ tx' \in [Sessions -> Transactions]
           /\ tx'[s].wrote = tx[s].wrote /\ tx'[s].val = tx[s].val
           /\ tx'[s].mov = tx[s].mov /\ tx'[s].key = tx[s].key
           /\ tx'[s].item = [tx[s].item EXCEPT ![Line(s).p] = @ + Line(s).n]
<1>1. pc[s] = "create" /\ Line(s).n \in Nat /\ Line(s).p \in Products
    <2>1. pc[s] = "create"
        BY DEF SwallowDeadlock, InSavepoint
    <2>. QED BY <2>1, LineType
<1> DEFINE t == [tx[s] EXCEPT !.item[Line(s).p] = @ + Line(s).n]
<1>2. tx[s] \in Transactions
    BY DEF TypeOK
<1>3. /\ t \in Transactions
      /\ t.wrote = tx[s].wrote /\ t.val = tx[s].val /\ t.mov = tx[s].mov /\ t.key = tx[s].key
      /\ t.item = [tx[s].item EXCEPT ![Line(s).p] = @ + Line(s).n]
    BY <1>1, <1>2 DEF Transactions
<1>4. tx' = [tx EXCEPT ![s] = t]
    BY DEF SwallowDeadlock
<1> HIDE DEF t
<1>5. tx'[s] = t /\ tx' \in [Sessions -> Transactions] /\ \A u \in Sessions \ {s} : tx'[u] = tx[u]
    BY <1>3, <1>4 DEF TypeOK
<1>. QED BY <1>3, <1>5

(***************************************************************************)
(* A receipt of a line, field by field.                                    *)
(***************************************************************************)
LEMMA ReceiptFields ==
    ASSUME TypeOK, AtLine, NEW s \in Sessions, ReceiveItem(s)
    PROVE  LET r == <<Line(s).p, house[s]>>
           IN  /\ r \in Rows /\ r[1] = Line(s).p /\ RowFree(s, r)
               /\ rowLock' = [rowLock EXCEPT ![r] = s]
               /\ \A u \in Sessions \ {s} : tx'[u] = tx[u]
               /\ tx'[s] \in Transactions /\ tx' \in [Sessions -> Transactions]
               /\ tx'[s].wrote = tx[s].wrote \cup {r}
               /\ tx'[s].val = [tx[s].val EXCEPT ![r] = Seen(s, r) + Line(s).n]
               /\ tx'[s].mov = [tx[s].mov EXCEPT ![r] = @ + Line(s).n]
<1>0. pc[s] = "item"
    BY DEF ReceiveItem
<1>1. Line(s).n \in Nat /\ Line(s).p \in Products
    BY <1>0, LineType
<1> DEFINE r == <<Line(s).p, house[s]>>
<1>2. r \in Rows /\ r[1] = Line(s).p
    BY <1>1 DEF TypeOK, Rows
<1> DEFINE w == Write(s, r, Line(s).n)
<1>3. /\ RowFree(s, r) /\ rowLock' = [rowLock EXCEPT ![r] = s]
      /\ tx' = [tx EXCEPT ![s] = [w EXCEPT !.key[r] = nextId]]
    BY DEF ReceiveItem
<1> HIDE DEF r
<1>4. /\ w \in Transactions /\ w.wrote = tx[s].wrote \cup {r}
      /\ w.val = [tx[s].val EXCEPT ![r] = Seen(s, r) + Line(s).n]
      /\ w.mov = [tx[s].mov EXCEPT ![r] = @ + Line(s).n]
    BY <1>1, <1>2, WriteFields
<1> HIDE DEF w
<1>5. [w EXCEPT !.key[r] = nextId] \in Transactions
    BY <1>2, <1>4 DEF Transactions, TypeOK
<1>6. tx'[s] = [w EXCEPT !.key[r] = nextId]
    BY <1>3 DEF TypeOK
<1>7. tx'[s].wrote = w.wrote /\ tx'[s].val = w.val /\ tx'[s].mov = w.mov
    BY <1>4, <1>6 DEF Transactions
<1>8. tx' \in [Sessions -> Transactions] /\ \A u \in Sessions \ {s} : tx'[u] = tx[u]
    BY <1>3, <1>5 DEF TypeOK
<1>9. tx'[s] \in Transactions
    BY <1>5, <1>6
<1>. QED BY <1>2, <1>3, <1>4, <1>7, <1>8, <1>9 DEF r

(***************************************************************************)
(* What a request that reads keeps in memory.                              *)
(***************************************************************************)
LEMMA AskedType ==
    ASSUME TypeOK, NEW s \in Sessions, NEW new \in Asked, req' = [req EXCEPT ![s] = new]
    PROVE  req' \in [Sessions -> Asked] /\ req'[s] = new /\ \A t \in Sessions \ {s} : req'[t] = req[t]
<1>. QED BY DEF TypeOK

LEMMA OrderType ==
    ASSUME TypeOK, NEW o \in Sessions
    PROVE  /\ ord[o].item \in [Products -> Nat] /\ ord[o].status \in Statuses /\ ord[o] \in OrderRows
           /\ \A p \in Products : ord[o].item[p] \in Nat /\ returned[o][p] \in Nat
<1>. QED BY DEF TypeOK, OrderRows

LEMMA ReturnReadFields ==
    ASSUME TypeOK, NEW t \in Sessions, ReturnRead(t)
    PROVE  /\ pc[t] = "new"
           /\ \/ pc' = [pc EXCEPT ![t] = "done"] /\ UNCHANGED <<req, did>>
              \/ /\ pc' = [pc EXCEPT ![t] = "return"]
                 /\ \E new \in Asked :
                       /\ req' = [req EXCEPT ![t] = new]
                       /\ ord[new.o].item[new.p] > 0
                       /\ new.n <= Returnable(new.o, new.p)
                       /\ did' = did \cup (IF Overlaps(new.o, new.p) THEN {"overlap"} ELSE {})
<1>1. PICK o \in Sessions, p \in Products, n \in 1..MaxQty :
          /\ ord[o].item[p] > 0
          /\ IF n <= Returnable(o, p)
             THEN /\ req' = [req EXCEPT ![t] = [@ EXCEPT !.o = o, !.p = p, !.n = n]]
                  /\ did' = did \cup (IF Overlaps(o, p) THEN {"overlap"} ELSE {})
                  /\ GoTo(t, "return")
             ELSE GoTo(t, "done") /\ UNCHANGED <<req, did>>
    BY DEF ReturnRead
<1> DEFINE new == [req[t] EXCEPT !.o = o, !.p = p, !.n = n]
<1>2. req[t] \in Asked /\ n \in Nat
    BY InventoryAssumption DEF TypeOK
<1>3. new \in Asked /\ new.o = o /\ new.p = p /\ new.n = n
    BY <1>2 DEF Asked
<1>4. pc[t] = "new"
    BY DEF ReturnRead
<1>5. CASE n <= Returnable(o, p)
    <2>1. req' = [req EXCEPT ![t] = new]
        BY <1>1, <1>5
    <2> HIDE DEF new
    <2>. QED BY <1>1, <1>3, <1>4, <1>5, <2>1 DEF GoTo
<1>6. CASE ~(n <= Returnable(o, p))
    BY <1>1, <1>4, <1>6 DEF GoTo
<1>. QED BY <1>5, <1>6

LEMMA EditReadFields ==
    ASSUME TypeOK, NEW e \in Sessions, EditRead(e)
    PROVE  \E new \in Asked :
              /\ req' = [req EXCEPT ![e] = new]
              /\ ord[new.o].item[new.p] > 0 /\ ord[new.o].status # "none"
              /\ new.diff = new.n - ord[new.o].item[new.p] /\ new.status # "none"
              /\ pc' = [pc EXCEPT ![e] = IF new.n > ord[new.o].item[new.p] THEN "take"
                                          ELSE IF new.n < ord[new.o].item[new.p] THEN "peek" ELSE "save"]
<1>1. PICK o \in Sessions, p \in Products, n \in 1..MaxQty :
          /\ ord[o].item[p] > 0 /\ ord[o].status \in {"DRAFT", "PENDING"}
          /\ req' = [req EXCEPT ![e] = [@ EXCEPT !.o = o, !.p = p, !.n = n,
                                !.diff = n - ord[o].item[p], !.status = ord[o].status]]
          /\ GoTo(e, IF n > ord[o].item[p] THEN "take"
                     ELSE IF n < ord[o].item[p] THEN "peek" ELSE "save")
    BY DEF EditRead
<1> DEFINE new == [req[e] EXCEPT !.o = o, !.p = p, !.n = n,
                                 !.diff = n - ord[o].item[p], !.status = ord[o].status]
<1>2. /\ req[e] \in Asked /\ n \in Nat /\ ord[o].status \in Statuses /\ n - ord[o].item[p] \in Int
    <2>1. n \in Nat
        BY InventoryAssumption
    <2>. QED BY <2>1, OrderType DEF TypeOK
<1>3. /\ new \in Asked /\ new.o = o /\ new.p = p /\ new.n = n /\ new.diff = n - ord[o].item[p]
      /\ new.status = ord[o].status
    BY <1>2 DEF Asked
<1>4. req' = [req EXCEPT ![e] = new]
    BY <1>1
<1> HIDE DEF new
<1>. QED BY <1>1, <1>3, <1>4 DEF GoTo

LEMMA DeleteReadFields ==
    ASSUME TypeOK, NEW e \in Sessions, DeleteRead(e)
    PROVE  /\ pc' = [pc EXCEPT ![e] = "peek"]
           /\ \E new \in Asked : /\ req' = [req EXCEPT ![e] = new]
                                 /\ ord[new.o].item[new.p] > 0 /\ new.diff <= 0
                                 /\ new.status # "none" /\ ord[new.o].status # "none"
<1>1. PICK o \in Sessions, p \in Products :
          /\ ord[o].item[p] > 0 /\ ord[o].status \in {"DRAFT", "PENDING"}
          /\ req' = [req EXCEPT ![e] = [@ EXCEPT !.o = o, !.p = p, !.diff = -ord[o].item[p],
                                !.status = IF \A q \in Products \ {p} : ord[o].item[q] = 0
                                           THEN "CANCELLED" ELSE ord[o].status]]
    BY DEF DeleteRead
<1> DEFINE status == IF \A q \in Products \ {p} : ord[o].item[q] = 0 THEN "CANCELLED" ELSE ord[o].status
           new == [req[e] EXCEPT !.o = o, !.p = p, !.diff = -ord[o].item[p], !.status = status]
<1>2. /\ req[e] \in Asked /\ status \in Statuses /\ -ord[o].item[p] \in Int /\ -ord[o].item[p] <= 0
      /\ status # "none"
    <2>1. req[e] \in Asked
        BY DEF TypeOK
    <2>2. ord[o].item[p] \in Nat /\ ord[o].status \in Statuses
        BY OrderType
    <2>3. status \in Statuses /\ status # "none"
        BY <1>1, <2>2 DEF Statuses
    <2>. QED BY <2>1, <2>2, <2>3
<1>3. req' = [req EXCEPT ![e] = new]
    BY <1>1
<1> HIDE DEF status
<1>4. /\ new \in Asked /\ new.o = o /\ new.p = p /\ new.diff = -ord[o].item[p]
      /\ new.status = status
    BY <1>2 DEF Asked
<1>5. pc' = [pc EXCEPT ![e] = "peek"]
    BY DEF DeleteRead, GoTo
<1> HIDE DEF new
<1>. QED BY <1>1, <1>2, <1>3, <1>4, <1>5

LEMMA PeekFields ==
    ASSUME TypeOK, NEW e \in Sessions, Peek(e)
    PROVE  /\ pc' = [pc EXCEPT ![e] = "give"]
           /\ \E new \in Asked : /\ req' = [req EXCEPT ![e] = new]
                                 /\ new.o = req[e].o /\ new.diff = req[e].diff /\ new.status = req[e].status
<1>1. PICK r \in RowsOf(req[e].p) : req' = [req EXCEPT ![e] = [@ EXCEPT !.row = r, !.seen = stock[r]]]
    BY DEF Peek
<1> DEFINE new == [req[e] EXCEPT !.row = r, !.seen = stock[r]]
<1>2. req[e] \in Asked /\ r \in Rows /\ stock[r] \in Int
    BY DEF TypeOK, RowsOf
<1>3. new \in Asked /\ new.o = req[e].o /\ new.diff = req[e].diff /\ new.status = req[e].status
    BY <1>2 DEF Asked
<1>4. req' = [req EXCEPT ![e] = new]
    BY <1>1
<1> HIDE DEF new
<1>. QED BY <1>3, <1>4 DEF Peek, GoTo

LEMMA CancelReadFields ==
    ASSUME TypeOK, NEW e \in Sessions, CancelRead(e)
    PROVE  /\ pc' = [pc EXCEPT ![e] = "restore"]
           /\ \E new \in Asked : /\ req' = [req EXCEPT ![e] = new]
                                 /\ ord[new.o].status \in {"DRAFT", "PENDING", "PAID"}
<1>1. PICK o \in Sessions :
          /\ ord[o].status \in {"DRAFT", "PENDING", "PAID"}
          /\ req' = [req EXCEPT ![e] = [@ EXCEPT !.o = o, !.item = ord[o].item,
                                !.todo = {p \in Products : ord[o].item[p] > 0}]]
    BY DEF CancelRead
<1> DEFINE todo == {p \in Products : ord[o].item[p] > 0}
           new  == [req[e] EXCEPT !.o = o, !.item = ord[o].item, !.todo = todo]
<1>2. req[e] \in Asked /\ todo \subseteq Products /\ ord[o].item \in [Products -> Nat]
    BY OrderType DEF TypeOK
<1>3. req' = [req EXCEPT ![e] = new]
    BY <1>1
<1> HIDE DEF todo
<1>4. new \in Asked /\ new.o = o
    BY <1>2 DEF Asked
<1> HIDE DEF new
<1>. QED BY <1>1, <1>3, <1>4 DEF CancelRead, GoTo

LEMMA RestoreReadFields ==
    ASSUME TypeOK, NEW e \in Sessions, RestoreRead(e)
    PROVE  /\ pc' = [pc EXCEPT ![e] = "restoring"]
           /\ \E new \in Asked : req' = [req EXCEPT ![e] = new] /\ new.o = req[e].o
<1>1. PICK p \in req[e].todo : \E r \in RowsOf(p) :
          req' = [req EXCEPT ![e] = [@ EXCEPT !.todo = req[e].todo \ {p}, !.row = r, !.seen = stock[r]]]
    BY DEF RestoreRead
<1>2. PICK r \in RowsOf(p) :
          req' = [req EXCEPT ![e] = [@ EXCEPT !.todo = req[e].todo \ {p}, !.row = r, !.seen = stock[r]]]
    BY <1>1
<1> DEFINE new == [req[e] EXCEPT !.todo = req[e].todo \ {p}, !.row = r, !.seen = stock[r]]
<1>3. req[e] \in Asked /\ r \in Rows /\ stock[r] \in Int
    BY DEF TypeOK, RowsOf
<1>4. new \in Asked /\ new.o = req[e].o
    BY <1>3 DEF Asked
<1>5. req' = [req EXCEPT ![e] = new]
    BY <1>2
<1> HIDE DEF new
<1>. QED BY <1>4, <1>5 DEF RestoreRead, GoTo

(***************************************************************************)
(* What the item views and a commit write has the right type.              *)
(***************************************************************************)
LEMMA SaveStockType ==
    ASSUME TypeOK, NEW e \in Sessions, NEW r \in Rows, NEW seen \in Int, NEW n \in Int,
           SaveStock(e, r, seen, n)
    PROVE  stock' \in [Rows -> Int] /\ moves' \in [Rows -> Int]
<1>1. req[e].n \in Nat
    BY DEF TypeOK, Asked
<1>2. \A q \in Rows : Resold(e, q) \in Nat
    BY <1>1 DEF Resold
<1>3. \A q \in Rows : stock[q] \in Int /\ moves[q] \in Int
    BY DEF TypeOK
<1> DEFINE newStock(q) == (IF q = r THEN seen - n ELSE stock[q]) - Resold(e, q)
           newMoves(q) == moves[q] - (IF q = r THEN n ELSE 0) - Resold(e, q)
<1>4. \A q \in Rows : newStock(q) \in Int /\ newMoves(q) \in Int
    BY <1>2, <1>3
<1>5. stock' = [q \in Rows |-> newStock(q)] /\ moves' = [q \in Rows |-> newMoves(q)]
    BY DEF SaveStock
<1> HIDE DEF newStock, newMoves
<1>. QED BY <1>4, <1>5

LEMMA SaveItemType ==
    ASSUME TypeOK, NEW e \in Sessions, SaveItem(e)
    PROVE  ord' \in [Sessions -> OrderRows]
<1>1. /\ req[e].o \in Sessions /\ req[e].status \in Statuses /\ req[e].p \in Products
      /\ req[e].n \in Nat
    BY DEF TypeOK, Asked
<1>2. ord[req[e].o] \in OrderRows
    BY <1>1 DEF TypeOK
<1>3. [status |-> req[e].status, item |-> [ord[req[e].o].item EXCEPT ![req[e].p] = req[e].n]] \in OrderRows
    BY <1>1, <1>2 DEF OrderRows
<1>. QED BY <1>1, <1>3 DEF SaveItem, TypeOK

LEMMA PublishType ==
    ASSUME TypeOK, NEW s \in Sessions, Publish(s)
    PROVE  stock' \in [Rows -> Int] /\ moves' \in [Rows -> Int] /\ ids' \in [Rows -> Nat]
<1>1. tx[s] \in Transactions
    BY DEF TypeOK
<1>. QED BY <1>1 DEF Publish, TypeOK, Transactions

LEMMA ReleaseType ==
    ASSUME TypeOK, NEW s \in Sessions, Release(s)
    PROVE  /\ rowLock' \in [Rows -> Sessions \cup {Nobody}]
           /\ prodLock' \in [Products -> Sessions \cup {Nobody}]
           /\ tx' \in [Sessions -> Transactions]
           /\ pc' = [pc EXCEPT ![s] = "done"]
<1>. QED BY NoWritesType DEF Release, TypeOK, GoTo

LEMMA CommitType ==
    ASSUME TypeOK, NEW s \in Sessions, CommitOrder(s)
    PROVE  /\ ord' \in [Sessions -> OrderRows] /\ ord'[s].item = tx[s].item
           /\ \A o \in Sessions \ {s} : ord'[o] = ord[o]
<1> DEFINE new == [status |-> IF kind[s] = "web" THEN "DRAFT" ELSE "PENDING", item |-> tx[s].item]
<1>1. tx[s].item \in [Products -> Nat]
    BY DEF TypeOK, Transactions
<1>2. new \in OrderRows /\ new.item = tx[s].item
    BY <1>1 DEF OrderRows, Statuses
<1>3. ord' = [ord EXCEPT ![s] = new]
    BY DEF CommitOrder
<1> HIDE DEF new
<1>. QED BY <1>2, <1>3 DEF TypeOK

LEMMA StatusType ==
    ASSUME TypeOK, NEW o \in Sessions, NEW st \in Statuses, ord' = [ord EXCEPT ![o] = [@ EXCEPT !.status = st]]
    PROVE  ord' \in [Sessions -> OrderRows] /\ \A q \in Sessions : ord'[q].item = ord[q].item
<1>1. ord[o] \in OrderRows
    BY DEF TypeOK
<1> DEFINE new == [ord[o] EXCEPT !.status = st]
<1>2. new \in OrderRows /\ new.item = ord[o].item
    BY <1>1 DEF OrderRows
<1>3. ord' = [ord EXCEPT ![o] = new]
    OBVIOUS
<1>4. ord \in [Sessions -> OrderRows]
    BY DEF TypeOK
<1> HIDE DEF new
<1>5. ord' \in [Sessions -> OrderRows]
    BY <1>2, <1>3, <1>4
<1>6. ASSUME NEW q \in Sessions PROVE ord'[q].item = ord[q].item
    <2>1. CASE q = o
        BY <1>2, <1>3, <1>4, <2>1
    <2>2. CASE q # o
        BY <1>3, <1>4, <2>2
    <2>. QED BY <2>1, <2>2
<1>. QED BY <1>5, <1>6

LEMMA AdvanceType ==
    ASSUME TypeOK, NEW o \in Sessions, Advance(o)
    PROVE  ord' \in [Sessions -> OrderRows] /\ \A q \in Sessions : ord'[q].item = ord[q].item
<1>1. "PENDING" \in Statuses /\ "PAID" \in Statuses
    BY DEF Statuses
<1>2. CASE ord' = [ord EXCEPT ![o] = [@ EXCEPT !.status = "PENDING"]]
    BY <1>1, <1>2, StatusType
<1>3. CASE ord' = [ord EXCEPT ![o] = [@ EXCEPT !.status = "PAID"]]
    BY <1>1, <1>3, StatusType
<1>. QED BY <1>2, <1>3 DEF Advance

LEMMA CancelSaveType ==
    ASSUME TypeOK, NEW e \in Sessions, CancelSave(e)
    PROVE  ord' \in [Sessions -> OrderRows] /\ \A q \in Sessions : ord'[q].item = ord[q].item
<1>1. "CANCELLED" \in Statuses /\ req[e].o \in Sessions
    BY DEF Statuses, TypeOK, Asked
<1>. QED BY <1>1, StatusType DEF CancelSave

LEMMA ReturnSaveFields ==
    ASSUME TypeOK, NEW t \in Sessions, ReturnSave(t)
    PROVE  /\ \E r \in RowsOf(req[t].p) :
                 /\ RowFree(t, r)
                 /\ stock' = [stock EXCEPT ![r] = @ + req[t].n]
                 /\ moves' = [moves EXCEPT ![r] = @ + req[t].n]
           /\ stock' \in [Rows -> Int] /\ moves' \in [Rows -> Int]
           /\ returned' \in [Sessions -> [Products -> Nat]]
           /\ \A o \in Sessions, p \in Products :
                 returned'[o][p] = returned[o][p] + (IF o = req[t].o /\ p = req[t].p THEN req[t].n ELSE 0)
<1>1. req[t].o \in Sessions /\ req[t].p \in Products /\ req[t].n \in Nat
    BY DEF TypeOK, Asked
<1>2. PICK r \in RowsOf(req[t].p) :
          /\ RowFree(t, r)
          /\ stock' = [stock EXCEPT ![r] = @ + req[t].n]
          /\ moves' = [moves EXCEPT ![r] = @ + req[t].n]
    BY DEF ReturnSave
<1>3. stock' \in [Rows -> Int] /\ moves' \in [Rows -> Int]
    BY <1>1, <1>2 DEF RowsOf, TypeOK
<1>4. returned' = [returned EXCEPT ![req[t].o][req[t].p] = @ + req[t].n]
    BY DEF ReturnSave
<1>5. returned \in [Sessions -> [Products -> Nat]]
    BY DEF TypeOK
<1>6. /\ returned' \in [Sessions -> [Products -> Nat]]
      /\ \A o \in Sessions, p \in Products :
            returned'[o][p] = returned[o][p] + (IF o = req[t].o /\ p = req[t].p THEN req[t].n ELSE 0)
    BY <1>1, <1>4, <1>5
<1>. QED BY <1>2, <1>3, <1>6

LEMMA RestoreSaveType ==
    ASSUME TypeOK, NEW e \in Sessions, RestoreSave(e)
    PROVE  /\ stock' \in [Rows -> Int] /\ req[e].row \in Rows /\ RowFree(e, req[e].row)
           /\ stock' = [stock EXCEPT ![req[e].row] = req[e].seen + req[e].item[req[e].row[1]]]
           /\ req[e].seen \in Int /\ req[e].item[req[e].row[1]] \in Nat
           /\ did' = did \cup Gave(e, "restore")
<1>1. /\ req[e].row \in Rows /\ req[e].seen \in Int /\ req[e].item \in [Products -> Nat]
    BY DEF TypeOK, Asked
<1>2. req[e].item[req[e].row[1]] \in Nat
    BY <1>1, RowType
<1>3. /\ stock' = [stock EXCEPT ![req[e].row] = req[e].seen + req[e].item[req[e].row[1]]]
      /\ RowFree(e, req[e].row) /\ did' = did \cup Gave(e, "restore")
    BY DEF RestoreSave
<1>. QED BY <1>1, <1>2, <1>3 DEF TypeOK

LEMMA TakeType ==
    ASSUME TypeOK, NEW e \in Sessions, EditTake(e) \/ EditSame(e)
    PROVE  /\ stock' \in [Rows -> Int] /\ moves' \in [Rows -> Int] /\ ord' \in [Sessions -> OrderRows]
           /\ \/ UNCHANGED <<stock, moves, ord, did>>
              \/ /\ did' = did \cup {"take"} /\ SaveItem(e)
                 /\ \E r \in Rows : \E n \in Int : SaveStock(e, r, stock[r], n)
<1>1. req[e].diff \in Int /\ 0 \in Int /\ \A r \in Rows : stock[r] \in Int
    BY DEF TypeOK, Asked
<1>2. \/ UNCHANGED <<stock, moves, ord, did>>
      \/ /\ did' = did \cup {"take"} /\ SaveItem(e)
         /\ \E r \in Rows : \E n \in Int : SaveStock(e, r, stock[r], n)
    <2>1. CASE EditTake(e)
        <3> DEFINE enough == {r \in RowsOf(req[e].p) : stock[r] >= req[e].diff}
        <3>1. CASE UNCHANGED <<stock, moves, ord, did>>
            BY <3>1
        <3>2. CASE /\ \E r \in enough : IsFirst(r, enough) /\ SaveStock(e, r, stock[r], req[e].diff)
                   /\ SaveItem(e) /\ did' = did \cup {"take"}
            <4>1. PICK r \in enough : SaveStock(e, r, stock[r], req[e].diff)
                BY <3>2
            <4>2. r \in Rows
                BY DEF RowsOf
            <4>. QED BY <1>1, <3>2, <4>1, <4>2
        <3>. QED BY <2>1, <3>1, <3>2 DEF EditTake
    <2>2. CASE EditSame(e)
        <3>1. PICK r \in RowsOf(req[e].p) : SaveStock(e, r, stock[r], 0)
            BY <2>2 DEF EditSame
        <3>2. r \in Rows
            BY DEF RowsOf
        <3>. QED BY <1>1, <2>2, <3>1, <3>2 DEF EditSame
    <2>. QED BY <2>1, <2>2
<1>3. CASE UNCHANGED <<stock, moves, ord, did>>
    <2>1. stock' \in [Rows -> Int] /\ moves' \in [Rows -> Int] /\ ord' \in [Sessions -> OrderRows]
        BY <1>3 DEF TypeOK
    <2>. QED BY <1>2, <2>1
<1>4. CASE SaveItem(e) /\ \E r \in Rows : \E n \in Int : SaveStock(e, r, stock[r], n)
    <2>1. PICK r \in Rows, n \in Int : SaveStock(e, r, stock[r], n)
        BY <1>4
    <2>2. stock' \in [Rows -> Int] /\ moves' \in [Rows -> Int]
        BY <1>1, <2>1, SaveStockType
    <2>3. ord' \in [Sessions -> OrderRows]
        BY <1>4, SaveItemType
    <2>. QED BY <1>2, <2>2, <2>3
<1>. QED BY <1>2, <1>3, <1>4

LEMMA GiveBackType ==
    ASSUME TypeOK, NEW e \in Sessions, GiveBack(e)
    PROVE  /\ stock' \in [Rows -> Int] /\ moves' \in [Rows -> Int] /\ ord' \in [Sessions -> OrderRows]
           /\ req[e].diff \in Int /\ req[e].seen \in Int /\ req[e].row \in Rows
<1>1. req[e].diff \in Int /\ req[e].seen \in Int /\ req[e].row \in Rows
    BY DEF TypeOK, Asked
<1>. QED BY <1>1, SaveStockType, SaveItemType DEF GiveBack

(***************************************************************************)
(* Every step keeps the types.                                             *)
(***************************************************************************)
LEMMA TypeStep == KInv /\ [Next]_vars => TypeOK'
<1>. SUFFICES ASSUME KInv, [Next]_vars PROVE TypeOK'
    OBVIOUS
<1>. USE InventoryAssumption DEF KInv, table, locks, baskets
<1>1. ASSUME NEW s \in Sessions, Begin(s) PROVE TypeOK'
    BY <1>1 DEF Begin, GoTo, TypeOK
<1>2. ASSUME NEW s \in Sessions, SellCheck(s) PROVE TypeOK'
    <2>1. Line(s).p \in Products
        BY <1>2, LineType DEF SellCheck
    <2>. QED BY <1>2, <2>1 DEF SellCheck, GoTo, TypeOK
<1>3. ASSUME NEW s \in Sessions, CallCheck(s) PROVE TypeOK'
    BY <1>3 DEF CallCheck, GoTo, TypeOK
<1>4. ASSUME NEW s \in Sessions, CallRefused(s) PROVE TypeOK'
    BY <1>4, ReleaseType DEF CallRefused, Refused, RollBack, TypeOK
<1>5. ASSUME NEW s \in Sessions, CreateItem(s) PROVE TypeOK'
    <2>1. rowLock' \in [Rows -> Sessions \cup {Nobody}] /\ tx' \in [Sessions -> Transactions]
        <3>1. PICK r \in Rows : rowLock' = [rowLock EXCEPT ![r] = s] /\ tx' \in [Sessions -> Transactions]
            BY <1>5, SaleFields
        <3>. QED BY <3>1 DEF TypeOK
    <2>2. at' \in [Sessions -> Nat \ {0}]
        BY <1>5 DEF CreateItem, TypeOK
    <2>. QED BY <1>5, <2>1, <2>2 DEF CreateItem, GoTo, TypeOK
<1>6. ASSUME NEW s \in Sessions, CommitOrder(s) PROVE TypeOK'
    <2>1. ord' \in [Sessions -> OrderRows]
        BY <1>6, CommitType
    <2>2. stock' \in [Rows -> Int] /\ moves' \in [Rows -> Int] /\ ids' \in [Rows -> Nat]
        BY <1>6, PublishType DEF CommitOrder
    <2>. QED BY <1>6, <2>1, <2>2, ReleaseType DEF CommitOrder, TypeOK
<1>7. ASSUME NEW s \in Sessions, ReceiveBegin(s) PROVE TypeOK'
    <2>1. cart' \in [Sessions -> Seq(Lines)] /\ house' \in [Sessions -> Warehouses]
        BY <1>7 DEF ReceiveBegin, TypeOK
    <2>. QED BY <1>7, <2>1 DEF ReceiveBegin, GoTo, TypeOK
<1>8. ASSUME NEW s \in Sessions, ReceiveItem(s) PROVE TypeOK'
    <2>1. rowLock' \in [Rows -> Sessions \cup {Nobody}] /\ tx' \in [Sessions -> Transactions]
        <3>1. PICK r \in Rows : rowLock' = [rowLock EXCEPT ![r] = s] /\ tx' \in [Sessions -> Transactions]
            BY <1>8, ReceiptFields
        <3>. QED BY <3>1 DEF TypeOK
    <2>2. at' \in [Sessions -> Nat \ {0}] /\ nextId' \in Nat
        BY <1>8 DEF ReceiveItem, TypeOK
    <2>. QED BY <1>8, <2>1, <2>2 DEF ReceiveItem, GoTo, TypeOK
<1>9. ASSUME NEW s \in Sessions, ReceiveCommit(s) PROVE TypeOK'
    BY <1>9, PublishType, ReleaseType DEF ReceiveCommit, TypeOK
<1>10. ASSUME NEW s \in Sessions, ReturnRead(s) PROVE TypeOK'
    <2>1. req' \in [Sessions -> Asked]
        BY <1>10, ReturnReadFields, AskedType DEF TypeOK
    <2>2. pc' = [pc EXCEPT ![s] = "done"] \/ pc' = [pc EXCEPT ![s] = "return"]
        BY <1>10, ReturnReadFields
    <2>3. did' \subseteq did \cup {"overlap"}
        BY <1>10, ReturnReadFields
    <2>. QED BY <1>10, <2>1, <2>2, <2>3 DEF ReturnRead, TypeOK, Events
<1>11. ASSUME NEW s \in Sessions, ReturnSave(s) PROVE TypeOK'
    BY <1>11, ReturnSaveFields DEF ReturnSave, GoTo, TypeOK
<1>12. ASSUME NEW s \in Sessions, EditRead(s) PROVE TypeOK'
    <2>1. req' \in [Sessions -> Asked]
        BY <1>12, EditReadFields, AskedType
    <2>. QED BY <1>12, <2>1 DEF EditRead, GoTo, TypeOK
<1>13. ASSUME NEW s \in Sessions, EditTake(s) PROVE TypeOK'
    <2>1. did' \subseteq did \cup {"take"} /\ pc' = [pc EXCEPT ![s] = "done"]
        BY <1>13 DEF EditTake, GoTo
    <2>. QED BY <1>13, <2>1, TakeType DEF EditTake, TypeOK, Events
<1>14. ASSUME NEW s \in Sessions, EditSame(s) PROVE TypeOK'
    <2>1. did' \subseteq did \cup {"take"} /\ pc' = [pc EXCEPT ![s] = "done"]
        BY <1>14 DEF EditSame, GoTo
    <2>. QED BY <1>14, <2>1, TakeType DEF EditSame, TypeOK, Events
<1>15. ASSUME NEW s \in Sessions, DeleteRead(s) PROVE TypeOK'
    <2>1. req' \in [Sessions -> Asked]
        BY <1>15, DeleteReadFields, AskedType
    <2>. QED BY <1>15, <2>1 DEF DeleteRead, GoTo, TypeOK
<1>16. ASSUME NEW s \in Sessions, Peek(s) PROVE TypeOK'
    <2>1. req' \in [Sessions -> Asked]
        BY <1>16, PeekFields, AskedType
    <2>. QED BY <1>16, <2>1 DEF Peek, GoTo, TypeOK
<1>17. ASSUME NEW s \in Sessions, GiveBack(s) PROVE TypeOK'
    <2>1. did' \subseteq did \cup {"give", "stale", "take"} /\ pc' = [pc EXCEPT ![s] = "done"]
        BY <1>17 DEF GiveBack, GoTo, Gave
    <2>. QED BY <1>17, <2>1, GiveBackType DEF GiveBack, TypeOK, Events
<1>18. ASSUME NEW s \in Sessions, CancelRead(s) PROVE TypeOK'
    <2>1. req' \in [Sessions -> Asked]
        BY <1>18, CancelReadFields, AskedType
    <2>. QED BY <1>18, <2>1 DEF CancelRead, GoTo, TypeOK
<1>19. ASSUME NEW s \in Sessions, RestoreRead(s) PROVE TypeOK'
    <2>1. req' \in [Sessions -> Asked]
        BY <1>19, RestoreReadFields, AskedType
    <2>. QED BY <1>19, <2>1 DEF RestoreRead, GoTo, TypeOK
<1>20. ASSUME NEW s \in Sessions, RestoreSave(s) PROVE TypeOK'
    BY <1>20, RestoreSaveType DEF RestoreSave, GoTo, Gave, TypeOK, Events
<1>21. ASSUME NEW s \in Sessions, CancelSave(s) PROVE TypeOK'
    BY <1>21, CancelSaveType DEF CancelSave, GoTo, TypeOK
<1>22. ASSUME NEW s \in Sessions, BreakDeadlock(s) PROVE TypeOK'
    BY <1>22, ReleaseType DEF BreakDeadlock, RollBack, TypeOK
<1>22a. ASSUME NEW s \in Sessions, SwallowDeadlock(s) PROVE TypeOK'
    <2>1. tx' \in [Sessions -> Transactions]
        BY <1>22a, SwallowFields
    <2>2. at' \in [Sessions -> Nat \ {0}]
        BY <1>22a DEF SwallowDeadlock, TypeOK
    <2>. QED BY <1>22a, <2>1, <2>2 DEF SwallowDeadlock, GoTo, TypeOK
<1>23. ASSUME NEW s \in Sessions, Advance(s) PROVE TypeOK'
    BY <1>23, AdvanceType DEF Advance, TypeOK
<1>24. CASE UNCHANGED vars
    BY <1>24 DEF vars, TypeOK
<1>. QED BY <1>1, <1>2, <1>3, <1>4, <1>5, <1>6, <1>7, <1>8, <1>9, <1>10, <1>11, <1>12,
           <1>13, <1>14, <1>15, <1>16, <1>17, <1>18, <1>19, <1>20, <1>21, <1>22, <1>22a, <1>23, <1>24
       DEF Next, WriterStep, OtherStep, Quiet

(***************************************************************************)
(* A sale or receipt stops at its last line.                               *)
(***************************************************************************)
LEMMA AtLineStep == KInv /\ [Next]_vars => AtLine'
<1>. SUFFICES ASSUME KInv, [Next]_vars PROVE AtLine'
    OBVIOUS
<1>. USE InventoryAssumption DEF KInv, AtLine, TypeOK, table, locks, baskets
<1>1. ASSUME NEW s \in Sessions, Begin(s) PROVE AtLine'
    <2>1. \A c \in Carts : c \in Seq(Lines) /\ Len(c) \in Nat /\ Len(c) > 0
        BY EmptySeq DEF TypeOK
    <2>. QED BY <1>1, <2>1 DEF Begin, GoTo
<1>2. ASSUME NEW s \in Sessions, SellCheck(s) PROVE AtLine'
    BY <1>2 DEF SellCheck, GoTo
<1>3. ASSUME NEW s \in Sessions, CallCheck(s) PROVE AtLine'
    BY <1>3 DEF CallCheck, GoTo
<1>4. ASSUME NEW s \in Sessions, CallRefused(s) PROVE AtLine'
    BY <1>4 DEF CallRefused, GoTo, Refused, RollBack, Release
<1>5. ASSUME NEW s \in Sessions, CreateItem(s) PROVE AtLine'
    <2>1. at[s] \in 1..Len(cart[s]) /\ Len(cart[s]) \in Nat
        BY <1>5 DEF CreateItem
    <2>. QED BY <1>5, <2>1 DEF CreateItem, GoTo
<1>6. ASSUME NEW s \in Sessions, CommitOrder(s) PROVE AtLine'
    BY <1>6 DEF CommitOrder, GoTo, Publish, Release
<1>7. ASSUME NEW s \in Sessions, ReceiveBegin(s) PROVE AtLine'
    <2>1. \A d \in Deliveries : d.items \in Seq(Lines) /\ Len(d.items) \in Nat /\ Len(d.items) > 0
        BY EmptySeq DEF TypeOK
    <2>. QED BY <1>7, <2>1 DEF ReceiveBegin, GoTo
<1>8. ASSUME NEW s \in Sessions, ReceiveItem(s) PROVE AtLine'
    <2>1. at[s] \in 1..Len(cart[s]) /\ Len(cart[s]) \in Nat
        BY <1>8 DEF ReceiveItem
    <2>2. /\ at' = [at EXCEPT ![s] = @ + 1] /\ cart' = cart
          /\ pc' = [pc EXCEPT ![s] = IF at[s] = Len(cart[s]) THEN "commit" ELSE "item"]
        BY <1>8 DEF ReceiveItem, GoTo
    <2>. QED BY <2>1, <2>2
<1>9. ASSUME NEW s \in Sessions, ReceiveCommit(s) PROVE AtLine'
    BY <1>9 DEF ReceiveCommit, GoTo, Publish, Release
<1>10. ASSUME NEW s \in Sessions, ReturnRead(s) PROVE AtLine'
    <2>1. \E l \in {"done", "return"} : pc' = [pc EXCEPT ![s] = l]
        BY <1>10, ReturnReadFields
    <2>2. UNCHANGED <<at, cart>>
        BY <1>10 DEF ReturnRead
    <2>. QED BY <2>1, <2>2
<1>11. ASSUME NEW s \in Sessions, ReturnSave(s) PROVE AtLine'
    BY <1>11 DEF ReturnSave, GoTo
<1>12. ASSUME NEW s \in Sessions, EditRead(s) PROVE AtLine'
    <2>1. \E l \in {"take", "peek", "save"} : pc' = [pc EXCEPT ![s] = l]
        BY <1>12, EditReadFields
    <2>2. UNCHANGED <<at, cart>>
        BY <1>12 DEF EditRead
    <2>. QED BY <2>1, <2>2
<1>13. ASSUME NEW s \in Sessions, EditTake(s) PROVE AtLine'
    BY <1>13 DEF EditTake, GoTo, SaveStock, SaveItem
<1>14. ASSUME NEW s \in Sessions, EditSame(s) PROVE AtLine'
    BY <1>14 DEF EditSame, GoTo, SaveStock, SaveItem
<1>15. ASSUME NEW s \in Sessions, DeleteRead(s) PROVE AtLine'
    BY <1>15 DEF DeleteRead, GoTo
<1>16. ASSUME NEW s \in Sessions, Peek(s) PROVE AtLine'
    BY <1>16 DEF Peek, GoTo
<1>17. ASSUME NEW s \in Sessions, GiveBack(s) PROVE AtLine'
    BY <1>17 DEF GiveBack, GoTo, SaveStock, SaveItem, Gave
<1>18. ASSUME NEW s \in Sessions, CancelRead(s) PROVE AtLine'
    BY <1>18 DEF CancelRead, GoTo
<1>19. ASSUME NEW s \in Sessions, RestoreRead(s) PROVE AtLine'
    BY <1>19 DEF RestoreRead, GoTo
<1>20. ASSUME NEW s \in Sessions, RestoreSave(s) PROVE AtLine'
    BY <1>20 DEF RestoreSave, GoTo, Gave
<1>21. ASSUME NEW s \in Sessions, CancelSave(s) PROVE AtLine'
    BY <1>21 DEF CancelSave, GoTo
<1>22. ASSUME NEW s \in Sessions, BreakDeadlock(s) PROVE AtLine'
    BY <1>22 DEF BreakDeadlock, GoTo, RollBack, Release
<1>22a. ASSUME NEW s \in Sessions, SwallowDeadlock(s) PROVE AtLine'
    BY <1>22a DEF SwallowDeadlock, GoTo
<1>23. ASSUME NEW s \in Sessions, Advance(s) PROVE AtLine'
    BY <1>23 DEF Advance, GoTo
<1>24. CASE UNCHANGED vars
    BY <1>24 DEF vars, KInv
<1>. QED BY <1>1, <1>2, <1>3, <1>4, <1>5, <1>6, <1>7, <1>8, <1>9, <1>10, <1>11, <1>12,
           <1>13, <1>14, <1>15, <1>16, <1>17, <1>18, <1>19, <1>20, <1>21, <1>22, <1>22a, <1>23, <1>24
       DEF Next, WriterStep, OtherStep, Quiet

(***************************************************************************)
(* Locks are taken by open transactions and go when these end.             *)
(***************************************************************************)
LEMMA HoldersStep == KInv /\ [Next]_vars => Holders'
<1>. SUFFICES ASSUME KInv, [Next]_vars PROVE Holders'
    OBVIOUS
<1>. USE InventoryAssumption DEF KInv, Holders, Writing, TypeOK, table, locks, baskets
<1>1. ASSUME NEW s \in Sessions, Begin(s) PROVE Holders'
    BY <1>1 DEF Begin, GoTo
<1>2. ASSUME NEW s \in Sessions, SellCheck(s) PROVE Holders'
    <2>1. Line(s).p \in Products
        BY <1>2, LineType DEF SellCheck
    <2>. QED BY <1>2, <2>1 DEF SellCheck, GoTo
<1>3. ASSUME NEW s \in Sessions, CallCheck(s) PROVE Holders'
    BY <1>3 DEF CallCheck, GoTo
<1>4. ASSUME NEW s \in Sessions, CallRefused(s) PROVE Holders'
    BY <1>4 DEF CallRefused, GoTo, Refused, RollBack, Release
<1>5. ASSUME NEW s \in Sessions, CreateItem(s) PROVE Holders'
    <2>1. PICK r \in Rows : rowLock' = [rowLock EXCEPT ![r] = s]
        BY <1>5, SaleFields
    <2>2. \E l \in {"item", "commit"} : pc' = [pc EXCEPT ![s] = l]
        BY <1>5 DEF CreateItem, GoTo
    <2>3. prodLock' = prodLock
        BY <1>5 DEF CreateItem
    <2>. QED BY <2>1, <2>2, <2>3
<1>6. ASSUME NEW s \in Sessions, CommitOrder(s) PROVE Holders'
    BY <1>6 DEF CommitOrder, GoTo, Publish, Release
<1>7. ASSUME NEW s \in Sessions, ReceiveBegin(s) PROVE Holders'
    BY <1>7 DEF ReceiveBegin, GoTo
<1>8. ASSUME NEW s \in Sessions, ReceiveItem(s) PROVE Holders'
    <2>1. PICK r \in Rows : rowLock' = [rowLock EXCEPT ![r] = s]
        BY <1>8, ReceiptFields
    <2>2. \E l \in {"item", "commit"} : pc' = [pc EXCEPT ![s] = l]
        BY <1>8 DEF ReceiveItem, GoTo
    <2>3. prodLock' = prodLock
        BY <1>8 DEF ReceiveItem
    <2>. QED BY <2>1, <2>2, <2>3
<1>9. ASSUME NEW s \in Sessions, ReceiveCommit(s) PROVE Holders'
    BY <1>9 DEF ReceiveCommit, GoTo, Publish, Release
<1>10. ASSUME NEW s \in Sessions, ReturnRead(s) PROVE Holders'
    <2>1. \E l \in {"done", "return"} : pc' = [pc EXCEPT ![s] = l]
        BY <1>10, ReturnReadFields
    <2>2. pc[s] = "new" /\ UNCHANGED <<rowLock, prodLock>>
        BY <1>10 DEF ReturnRead
    <2>. QED BY <2>1, <2>2
<1>11. ASSUME NEW s \in Sessions, ReturnSave(s) PROVE Holders'
    BY <1>11 DEF ReturnSave, GoTo
<1>12. ASSUME NEW s \in Sessions, EditRead(s) PROVE Holders'
    <2>1. \E l \in {"take", "peek", "save"} : pc' = [pc EXCEPT ![s] = l]
        BY <1>12, EditReadFields
    <2>2. pc[s] = "new" /\ UNCHANGED <<rowLock, prodLock>>
        BY <1>12 DEF EditRead
    <2>. QED BY <2>1, <2>2
<1>13. ASSUME NEW s \in Sessions, EditTake(s) PROVE Holders'
    BY <1>13 DEF EditTake, GoTo, SaveStock, SaveItem
<1>14. ASSUME NEW s \in Sessions, EditSame(s) PROVE Holders'
    BY <1>14 DEF EditSame, GoTo, SaveStock, SaveItem
<1>15. ASSUME NEW s \in Sessions, DeleteRead(s) PROVE Holders'
    BY <1>15 DEF DeleteRead, GoTo
<1>16. ASSUME NEW s \in Sessions, Peek(s) PROVE Holders'
    BY <1>16 DEF Peek, GoTo
<1>17. ASSUME NEW s \in Sessions, GiveBack(s) PROVE Holders'
    BY <1>17 DEF GiveBack, GoTo, SaveStock, SaveItem, Gave
<1>18. ASSUME NEW s \in Sessions, CancelRead(s) PROVE Holders'
    BY <1>18 DEF CancelRead, GoTo
<1>19. ASSUME NEW s \in Sessions, RestoreRead(s) PROVE Holders'
    BY <1>19 DEF RestoreRead, GoTo
<1>20. ASSUME NEW s \in Sessions, RestoreSave(s) PROVE Holders'
    BY <1>20 DEF RestoreSave, GoTo, Gave
<1>21. ASSUME NEW s \in Sessions, CancelSave(s) PROVE Holders'
    BY <1>21 DEF CancelSave, GoTo
<1>22. ASSUME NEW s \in Sessions, BreakDeadlock(s) PROVE Holders'
    BY <1>22 DEF BreakDeadlock, GoTo, RollBack, Release
<1>22a. ASSUME NEW s \in Sessions, SwallowDeadlock(s) PROVE Holders'
    BY <1>22a DEF SwallowDeadlock, GoTo
<1>23. ASSUME NEW s \in Sessions, Advance(s) PROVE Holders'
    BY <1>23 DEF Advance, GoTo
<1>24. CASE UNCHANGED vars
    BY <1>24 DEF vars, KInv
<1>. QED BY <1>1, <1>2, <1>3, <1>4, <1>5, <1>6, <1>7, <1>8, <1>9, <1>10, <1>11, <1>12,
           <1>13, <1>14, <1>15, <1>16, <1>17, <1>18, <1>19, <1>20, <1>21, <1>22, <1>22a, <1>23, <1>24
       DEF Next, WriterStep, OtherStep, Quiet

(***************************************************************************)
(* What the writers outside a sale or a receipt change, and that no open   *)
(* transaction has written the rows they change.                           *)
(***************************************************************************)
LEMMA SaveStockFields ==
    ASSUME TypeOK, NEW e \in Sessions, NEW r \in Rows, NEW seen \in Int, NEW n \in Int,
           SaveStock(e, r, seen, n)
    PROVE  /\ \A q \in Rows : /\ stock'[q] = (IF q = r THEN seen - n ELSE stock[q]) - Resold(e, q)
                              /\ moves'[q] = moves[q] - (IF q = r THEN n ELSE 0) - Resold(e, q)
                              /\ Resold(e, q) \in Nat
                              /\ stock'[q] # stock[q] => RowFree(e, q)
           /\ seen = stock[r] => \A q \in Rows : stock'[q] - moves'[q] = stock[q] - moves[q]
<1>1. \A q \in Rows : Resold(e, q) \in Nat /\ stock[q] \in Int /\ moves[q] \in Int
    BY DEF TypeOK, Asked, Resold
<1>2. \A q \in Rows : /\ stock'[q] = (IF q = r THEN seen - n ELSE stock[q]) - Resold(e, q)
                      /\ moves'[q] = moves[q] - (IF q = r THEN n ELSE 0) - Resold(e, q)
    BY DEF SaveStock
<1>3. ASSUME NEW q \in Rows, stock'[q] # stock[q] PROVE RowFree(e, q)
    <2>1. q = r \/ Resold(e, q) > 0
        BY <1>1, <1>2, <1>3
    <2>. QED BY <2>1 DEF SaveStock
<1>4. ASSUME seen = stock[r], NEW q \in Rows PROVE stock'[q] - moves'[q] = stock[q] - moves[q]
    <2>1. CASE q = r
        BY <1>1, <1>2, <1>4, <2>1
    <2>2. CASE q # r
        BY <1>1, <1>2, <2>2
    <2>. QED BY <2>1, <2>2
<1>. QED BY <1>1, <1>2, <1>3, <1>4

LEMMA Bystander ==
    ASSUME KInv, NEW e \in Sessions, ~Writing(e), tx' = tx, rowLock' = rowLock,
           \A q \in Rows : stock'[q] # stock[q] => RowFree(e, q)
    PROVE  Pending'
<1>1. ASSUME NEW s \in Sessions, NEW q \in Rows, q \in tx[s].wrote PROVE stock'[q] = stock[q]
    <2>1. rowLock[q] = s /\ s # Nobody /\ Writing(s)
        BY <1>1, InventoryAssumption DEF KInv, Pending, Holders
    <2>. QED BY <2>1 DEF RowFree
<1>. QED BY <1>1 DEF KInv, Pending

LEMMA NoWritesFields == NoWrites.wrote = {} /\ \A r \in Rows : NoWrites.mov[r] = 0
<1>. QED BY DEF NoWrites

LEMMA CommitFields ==
    ASSUME KInv, NEW s \in Sessions, Publish(s), Release(s)
    PROVE  /\ Pending'
           /\ \A r \in Rows : stock'[r] = stock[r] + tx[s].mov[r] /\ moves'[r] = moves[r] + tx[s].mov[r]
<1>1. \A r \in Rows : /\ stock'[r] = IF r \in tx[s].wrote THEN tx[s].val[r] ELSE stock[r]
                      /\ moves'[r] = moves[r] + tx[s].mov[r]
    BY DEF Publish
<1>2. \A r \in Rows : stock[r] \in Int /\ tx[s].mov[r] \in Int
    BY DEF KInv, TypeOK, Transactions
<1>3. \A r \in Rows : stock'[r] = stock[r] + tx[s].mov[r]
    BY <1>1, <1>2 DEF KInv, Pending
<1>4. tx'[s] = NoWrites /\ \A t \in Sessions \ {s} : tx'[t] = tx[t]
    BY DEF Release, KInv, TypeOK
<1>5. ASSUME NEW t \in Sessions \ {s}, NEW r \in Rows
      PROVE  /\ r \in tx'[t].wrote => rowLock'[r] = t /\ tx'[t].val[r] = stock'[r] + tx'[t].mov[r]
             /\ r \notin tx'[t].wrote => tx'[t].mov[r] = 0
    <2>1. CASE r \in tx[t].wrote
        <3>1. rowLock[r] = t /\ r \notin tx[s].wrote
            BY <2>1 DEF KInv, Pending
        <3>2. rowLock'[r] = t
            BY <3>1 DEF Release
        <3>. QED BY <1>1, <1>4, <2>1, <3>1, <3>2 DEF KInv, Pending
    <2>2. CASE r \notin tx[t].wrote
        BY <1>4, <2>2 DEF KInv, Pending
    <2>. QED BY <2>1, <2>2
<1>6. ASSUME NEW r \in Rows
      PROVE  r \notin tx'[s].wrote /\ tx'[s].mov[r] = 0
    BY <1>4, NoWritesFields
<1>. QED BY <1>1, <1>3, <1>5, <1>6 DEF Pending

LEMMA RollBackFields ==
    ASSUME KInv, NEW s \in Sessions, RollBack(s)
    PROVE  Pending'
<1>1. tx'[s] = NoWrites /\ \A t \in Sessions \ {s} : tx'[t] = tx[t]
    BY DEF RollBack, Release, KInv, TypeOK
<1>2. \A r \in Rows : rowLock[r] # s => rowLock'[r] = rowLock[r]
    BY DEF RollBack, Release
<1>3. stock' = stock
    BY DEF RollBack, table
<1>4. \A r \in Rows : r \notin tx'[s].wrote /\ tx'[s].mov[r] = 0
    BY <1>1, NoWritesFields
<1>. QED BY <1>1, <1>2, <1>3, <1>4 DEF KInv, Pending

LEMMA PendingAt ==
    ASSUME TypeOK, Pending, NEW s \in Sessions, NEW r \in Rows
    PROVE  /\ stock[r] \in Int /\ tx[s].mov[r] \in Int
           /\ Seen(s, r) = stock[r] + tx[s].mov[r]
           /\ r \in tx[s].wrote => rowLock[r] = s
<1>1. stock[r] \in Int /\ tx[s].mov[r] \in Int
    BY DEF TypeOK, Transactions
<1>2. CASE r \in tx[s].wrote
    BY <1>1, <1>2 DEF Pending, Seen
<1>3. CASE r \notin tx[s].wrote
    <2>1. tx[s].mov[r] = 0
        BY <1>3 DEF Pending
    <2>. QED BY <1>1, <1>3, <2>1 DEF Seen
<1>. QED BY <1>2, <1>3

LEMMA OwnWrite ==
    ASSUME TypeOK, Pending, NEW s \in Sessions, NEW r \in Rows, NEW d \in Int,
           RowFree(s, r), rowLock' = [rowLock EXCEPT ![r] = s], stock' = stock,
           \A u \in Sessions \ {s} : tx'[u] = tx[u],
           tx'[s].wrote = tx[s].wrote \cup {r},
           tx'[s].val = [tx[s].val EXCEPT ![r] = Seen(s, r) + d],
           tx'[s].mov = [tx[s].mov EXCEPT ![r] = @ + d]
    PROVE  Pending'
<1>1. /\ tx[s].val \in [Rows -> Int] /\ tx[s].mov \in [Rows -> Int]
      /\ rowLock \in [Rows -> Sessions \cup {Nobody}]
    BY DEF TypeOK, Transactions
<1>2. ASSUME NEW q \in Rows
      PROVE  /\ q \in tx'[s].wrote => rowLock'[q] = s /\ tx'[s].val[q] = stock'[q] + tx'[s].mov[q]
             /\ q \notin tx'[s].wrote => tx'[s].mov[q] = 0
    <2>1. CASE q = r
        <3>1. tx'[s].val[q] = stock[r] + tx[s].mov[r] + d /\ tx'[s].mov[q] = tx[s].mov[r] + d
            BY <1>1, <2>1, PendingAt
        <3>2. stock[r] \in Int /\ tx[s].mov[r] \in Int
            BY PendingAt
        <3>. QED BY <1>1, <2>1, <3>1, <3>2
    <2>2. CASE q # r
        <3>1. /\ tx'[s].val[q] = tx[s].val[q] /\ tx'[s].mov[q] = tx[s].mov[q]
              /\ rowLock'[q] = rowLock[q] /\ (q \in tx'[s].wrote <=> q \in tx[s].wrote)
            BY <1>1, <2>2
        <3>. QED BY <3>1 DEF Pending
    <2>. QED BY <2>1, <2>2
<1>3. ASSUME NEW u \in Sessions \ {s}, NEW q \in Rows
      PROVE  /\ q \in tx'[u].wrote => rowLock'[q] = u /\ tx'[u].val[q] = stock'[q] + tx'[u].mov[q]
             /\ q \notin tx'[u].wrote => tx'[u].mov[q] = 0
    <2>1. tx'[u] = tx[u]
        OBVIOUS
    <2>2. q \in tx[u].wrote => rowLock[q] = u /\ tx[u].val[q] = stock[q] + tx[u].mov[q]
        BY DEF Pending
    <2>3. q \notin tx[u].wrote => tx[u].mov[q] = 0
        BY DEF Pending
    <2>4. q \in tx[u].wrote => rowLock'[q] = u
        <3>1. CASE q = r
            BY <2>2, <3>1, InventoryAssumption DEF RowFree
        <3>2. CASE q # r
            BY <1>1, <2>2, <3>2
        <3>. QED BY <3>1, <3>2
    <2>. QED BY <2>1, <2>2, <2>3, <2>4
<1>4. ASSUME NEW u \in Sessions, NEW q \in Rows
      PROVE  /\ q \in tx'[u].wrote => rowLock'[q] = u /\ tx'[u].val[q] = stock'[q] + tx'[u].mov[q]
             /\ q \notin tx'[u].wrote => tx'[u].mov[q] = 0
    <2>1. CASE u = s
        BY <1>2, <2>1
    <2>2. CASE u # s
        BY <1>3, <2>2
    <2>. QED BY <2>1, <2>2
<1>. QED BY <1>4 DEF Pending

(***************************************************************************)
(* Who holds the row lock is the only one to change the quantity.          *)
(***************************************************************************)
LEMMA PendingStep == KInv /\ [Next]_vars => Pending'
<1>. SUFFICES ASSUME KInv, [Next]_vars PROVE Pending'
    OBVIOUS
<1>. USE InventoryAssumption DEF KInv, table, locks, baskets
<1>1. ASSUME NEW s \in Sessions, Begin(s) PROVE Pending'
    BY <1>1 DEF Begin, GoTo, Pending
<1>2. ASSUME NEW s \in Sessions, SellCheck(s) PROVE Pending'
    BY <1>2 DEF SellCheck, GoTo, Pending
<1>3. ASSUME NEW s \in Sessions, CallCheck(s) PROVE Pending'
    BY <1>3 DEF CallCheck, GoTo, Pending
<1>4. ASSUME NEW s \in Sessions, CallRefused(s) PROVE Pending'
    BY <1>4, RollBackFields DEF CallRefused, Refused
<1>5. ASSUME NEW s \in Sessions, CreateItem(s) PROVE Pending'
    <2>1. Line(s).n \in Nat /\ -Line(s).n \in Int
        BY <1>5, LineType DEF CreateItem
    <2>2. PICK r \in Rows :
             /\ RowFree(s, r) /\ rowLock' = [rowLock EXCEPT ![r] = s]
             /\ \A u \in Sessions \ {s} : tx'[u] = tx[u]
             /\ tx'[s].wrote = tx[s].wrote \cup {r}
             /\ tx'[s].val = [tx[s].val EXCEPT ![r] = Seen(s, r) - Line(s).n]
             /\ tx'[s].mov = [tx[s].mov EXCEPT ![r] = @ - Line(s).n]
        BY <1>5, SaleFields
    <2>3. stock[r] \in Int /\ tx[s].mov[r] \in Int /\ Seen(s, r) \in Int
        BY PendingAt, SeenType
    <2>4. Seen(s, r) - Line(s).n = Seen(s, r) + (-Line(s).n) /\ tx[s].mov[r] - Line(s).n = tx[s].mov[r] + (-Line(s).n)
        BY <2>1, <2>3
    <2>5. stock' = stock
        BY <1>5 DEF CreateItem
    <2>. QED BY <2>1, <2>2, <2>4, <2>5, OwnWrite
<1>6. ASSUME NEW s \in Sessions, CommitOrder(s) PROVE Pending'
    BY <1>6, CommitFields DEF CommitOrder
<1>7. ASSUME NEW s \in Sessions, ReceiveBegin(s) PROVE Pending'
    BY <1>7 DEF ReceiveBegin, GoTo, Pending
<1>8. ASSUME NEW s \in Sessions, ReceiveItem(s) PROVE Pending'
    <2>1. Line(s).n \in Int
        BY <1>8, LineType DEF ReceiveItem
    <2>2. PICK r \in Rows :
             /\ RowFree(s, r) /\ rowLock' = [rowLock EXCEPT ![r] = s]
             /\ \A u \in Sessions \ {s} : tx'[u] = tx[u]
             /\ tx'[s].wrote = tx[s].wrote \cup {r}
             /\ tx'[s].val = [tx[s].val EXCEPT ![r] = Seen(s, r) + Line(s).n]
             /\ tx'[s].mov = [tx[s].mov EXCEPT ![r] = @ + Line(s).n]
        BY <1>8, ReceiptFields
    <2>3. stock' = stock
        BY <1>8 DEF ReceiveItem
    <2>. QED BY <2>1, <2>2, <2>3, OwnWrite
<1>9. ASSUME NEW s \in Sessions, ReceiveCommit(s) PROVE Pending'
    BY <1>9, CommitFields DEF ReceiveCommit
<1>10. ASSUME NEW s \in Sessions, ReturnRead(s) PROVE Pending'
    BY <1>10 DEF ReturnRead, GoTo, Pending
<1>11. ASSUME NEW s \in Sessions, ReturnSave(s) PROVE Pending'
    <2>1. PICK r \in RowsOf(req[s].p) : RowFree(s, r) /\ stock' = [stock EXCEPT ![r] = @ + req[s].n]
        BY <1>11, ReturnSaveFields
    <2>2. \A q \in Rows : stock'[q] # stock[q] => RowFree(s, q)
        BY <2>1 DEF TypeOK
    <2>. QED BY <1>11, <2>2, Bystander DEF ReturnSave, Writing
<1>12. ASSUME NEW s \in Sessions, EditRead(s) PROVE Pending'
    BY <1>12 DEF EditRead, GoTo, Pending
<1>13. ASSUME NEW s \in Sessions, EditTake(s) PROVE Pending'
    <2>1. \A q \in Rows : stock'[q] # stock[q] => RowFree(s, q)
        <3>1. CASE stock' = stock
            BY <3>1
        <3>2. CASE \E r \in Rows : \E n \in Int : SaveStock(s, r, stock[r], n)
            <4>1. PICK r \in Rows, n \in Int : SaveStock(s, r, stock[r], n)
                BY <3>2
            <4>2. stock[r] \in Int
                BY DEF TypeOK
            <4>. QED BY <4>1, <4>2, SaveStockFields
        <3>. QED BY <1>13, <3>1, <3>2, TakeType
    <2>. QED BY <1>13, <2>1, Bystander DEF EditTake, Writing
<1>14. ASSUME NEW s \in Sessions, EditSame(s) PROVE Pending'
    <2>1. \A q \in Rows : stock'[q] # stock[q] => RowFree(s, q)
        <3>1. CASE stock' = stock
            BY <3>1
        <3>2. CASE \E r \in Rows : \E n \in Int : SaveStock(s, r, stock[r], n)
            <4>1. PICK r \in Rows, n \in Int : SaveStock(s, r, stock[r], n)
                BY <3>2
            <4>2. stock[r] \in Int
                BY DEF TypeOK
            <4>. QED BY <4>1, <4>2, SaveStockFields
        <3>. QED BY <1>14, <3>1, <3>2, TakeType
    <2>. QED BY <1>14, <2>1, Bystander DEF EditSame, Writing
<1>15. ASSUME NEW s \in Sessions, DeleteRead(s) PROVE Pending'
    BY <1>15 DEF DeleteRead, GoTo, Pending
<1>16. ASSUME NEW s \in Sessions, Peek(s) PROVE Pending'
    BY <1>16 DEF Peek, GoTo, Pending
<1>17. ASSUME NEW s \in Sessions, GiveBack(s) PROVE Pending'
    <2>1. \A q \in Rows : stock'[q] # stock[q] => RowFree(s, q)
        BY <1>17, GiveBackType, SaveStockFields DEF GiveBack
    <2>. QED BY <1>17, <2>1, Bystander DEF GiveBack, Writing
<1>18. ASSUME NEW s \in Sessions, CancelRead(s) PROVE Pending'
    BY <1>18 DEF CancelRead, GoTo, Pending
<1>19. ASSUME NEW s \in Sessions, RestoreRead(s) PROVE Pending'
    BY <1>19 DEF RestoreRead, GoTo, Pending
<1>20. ASSUME NEW s \in Sessions, RestoreSave(s) PROVE Pending'
    <2>1. stock' = [stock EXCEPT ![req[s].row] = req[s].seen + req[s].item[req[s].row[1]]]
          /\ RowFree(s, req[s].row)
        BY <1>20, RestoreSaveType
    <2>2. stock \in [Rows -> Int]
        BY DEF TypeOK
    <2>3. \A q \in Rows : stock'[q] # stock[q] => RowFree(s, q)
        BY <2>1, <2>2
    <2>. QED BY <1>20, <2>3, Bystander DEF RestoreSave, Writing
<1>21. ASSUME NEW s \in Sessions, CancelSave(s) PROVE Pending'
    BY <1>21 DEF CancelSave, GoTo, Pending
<1>22. ASSUME NEW s \in Sessions, BreakDeadlock(s) PROVE Pending'
    BY <1>22, RollBackFields DEF BreakDeadlock
<1>22a. ASSUME NEW s \in Sessions, SwallowDeadlock(s) PROVE Pending'
    <2>1. \A u \in Sessions : tx'[u].wrote = tx[u].wrote /\ tx'[u].val = tx[u].val /\ tx'[u].mov = tx[u].mov
        BY <1>22a, SwallowFields
    <2>2. UNCHANGED <<stock, rowLock>>
        BY <1>22a DEF SwallowDeadlock
    <2>. QED BY <2>1, <2>2 DEF Pending
<1>23. ASSUME NEW s \in Sessions, Advance(s) PROVE Pending'
    BY <1>23 DEF Advance, GoTo, Pending
<1>24. CASE UNCHANGED vars
    BY <1>24 DEF vars, Pending
<1>. QED BY <1>1, <1>2, <1>3, <1>4, <1>5, <1>6, <1>7, <1>8, <1>9, <1>10, <1>11, <1>12,
           <1>13, <1>14, <1>15, <1>16, <1>17, <1>18, <1>19, <1>20, <1>21, <1>22, <1>22a, <1>23, <1>24
       DEF Next, WriterStep, OtherStep, Quiet

LEMMA KardexTogether ==
    ASSUME KInv, TypeOK', did \subseteq did',
           \A q \in Rows : stock'[q] - moves'[q] = stock[q] - moves[q]
    PROVE  KardexExact'
<1>1. SUFFICES ASSUME did \cap {"stale", "restore"} = {}, NEW q \in Rows
               PROVE  stock'[q] = Base[q] + moves'[q]
    BY DEF KardexExact
<1>2. stock[q] = Base[q] + moves[q]
    BY <1>1 DEF KInv, KardexExact
<1>3. /\ stock[q] \in Int /\ moves[q] \in Int /\ stock'[q] \in Int /\ moves'[q] \in Int /\ Base[q] \in Int
    BY InventoryAssumption DEF KInv, TypeOK
<1>. QED BY <1>2, <1>3

(***************************************************************************)
(* Quantity and movements change together.                                 *)
(***************************************************************************)
LEMMA KardexStep == KInv /\ [Next]_vars => KardexExact'
<1>. SUFFICES ASSUME KInv, [Next]_vars PROVE KardexExact'
    OBVIOUS
<1>. USE InventoryAssumption DEF KInv, table, locks, baskets
<1>1. ASSUME NEW s \in Sessions, Begin(s) PROVE KardexExact'
    BY <1>1 DEF Begin, GoTo, KardexExact
<1>2. ASSUME NEW s \in Sessions, SellCheck(s) PROVE KardexExact'
    BY <1>2 DEF SellCheck, GoTo, KardexExact
<1>3. ASSUME NEW s \in Sessions, CallCheck(s) PROVE KardexExact'
    BY <1>3 DEF CallCheck, GoTo, KardexExact
<1>4. ASSUME NEW s \in Sessions, CallRefused(s) PROVE KardexExact'
    BY <1>4 DEF CallRefused, GoTo, Refused, RollBack, Release, KardexExact, Refused, RollBack
<1>5. ASSUME NEW s \in Sessions, CreateItem(s) PROVE KardexExact'
    BY <1>5 DEF CreateItem, GoTo, KardexExact
<1>6. ASSUME NEW s \in Sessions, CommitOrder(s) PROVE KardexExact'
    <2>1. \A r \in Rows : stock[r] \in Int /\ moves[r] \in Int /\ tx[s].mov[r] \in Int
        BY DEF TypeOK, Transactions
    <2>2. \A r \in Rows : stock'[r] = stock[r] + tx[s].mov[r] /\ moves'[r] = moves[r] + tx[s].mov[r]
        BY <1>6, CommitFields DEF CommitOrder
    <2>3. ASSUME NEW r \in Rows PROVE stock'[r] - moves'[r] = stock[r] - moves[r]
        <3>1. stock'[r] = stock[r] + tx[s].mov[r] /\ moves'[r] = moves[r] + tx[s].mov[r]
            BY <2>2
        <3>2. stock[r] \in Int /\ moves[r] \in Int /\ tx[s].mov[r] \in Int
            BY <2>1
        <3>. QED BY <3>1, <3>2
    <2>. QED BY <1>6, <2>3, TypeStep, KardexTogether DEF CommitOrder
<1>7. ASSUME NEW s \in Sessions, ReceiveBegin(s) PROVE KardexExact'
    BY <1>7 DEF ReceiveBegin, GoTo, KardexExact
<1>8. ASSUME NEW s \in Sessions, ReceiveItem(s) PROVE KardexExact'
    BY <1>8 DEF ReceiveItem, GoTo, KardexExact
<1>9. ASSUME NEW s \in Sessions, ReceiveCommit(s) PROVE KardexExact'
    <2>1. \A r \in Rows : stock[r] \in Int /\ moves[r] \in Int /\ tx[s].mov[r] \in Int
        BY DEF TypeOK, Transactions
    <2>2. \A r \in Rows : stock'[r] = stock[r] + tx[s].mov[r] /\ moves'[r] = moves[r] + tx[s].mov[r]
        BY <1>9, CommitFields DEF ReceiveCommit
    <2>3. ASSUME NEW r \in Rows PROVE stock'[r] - moves'[r] = stock[r] - moves[r]
        <3>1. stock'[r] = stock[r] + tx[s].mov[r] /\ moves'[r] = moves[r] + tx[s].mov[r]
            BY <2>2
        <3>2. stock[r] \in Int /\ moves[r] \in Int /\ tx[s].mov[r] \in Int
            BY <2>1
        <3>. QED BY <3>1, <3>2
    <2>. QED BY <1>9, <2>3, TypeStep, KardexTogether DEF ReceiveCommit
<1>10. ASSUME NEW s \in Sessions, ReturnRead(s) PROVE KardexExact'
    <2>1. did \subseteq did' /\ UNCHANGED <<stock, moves>>
        BY <1>10, ReturnReadFields DEF ReturnRead
    <2>. QED BY <2>1 DEF KardexExact
<1>11. ASSUME NEW s \in Sessions, ReturnSave(s) PROVE KardexExact'
    <2>1. PICK r \in RowsOf(req[s].p) : /\ stock' = [stock EXCEPT ![r] = @ + req[s].n]
                                       /\ moves' = [moves EXCEPT ![r] = @ + req[s].n]
        BY <1>11, ReturnSaveFields
    <2>2. req[s].n \in Nat /\ stock \in [Rows -> Int] /\ moves \in [Rows -> Int]
        BY DEF TypeOK, Asked
    <2>3. \A q \in Rows : stock'[q] - moves'[q] = stock[q] - moves[q]
        BY <2>1, <2>2
    <2>. QED BY <1>11, <2>3, TypeStep, KardexTogether DEF ReturnSave
<1>12. ASSUME NEW s \in Sessions, EditRead(s) PROVE KardexExact'
    BY <1>12 DEF EditRead, GoTo, KardexExact
<1>13. ASSUME NEW s \in Sessions, EditTake(s) PROVE KardexExact'
    <2>1. CASE UNCHANGED <<stock, moves, ord, did>>
        BY <2>1 DEF KardexExact
    <2>2. CASE did' = did \cup {"take"} /\ \E r \in Rows : \E n \in Int : SaveStock(s, r, stock[r], n)
        <3>1. PICK r \in Rows, n \in Int : SaveStock(s, r, stock[r], n)
            BY <2>2
        <3>2. stock[r] \in Int
            BY DEF TypeOK
        <3>3. \A q \in Rows : stock'[q] - moves'[q] = stock[q] - moves[q]
            BY <3>1, <3>2, SaveStockFields
        <3>. QED BY <2>2, <3>3, TypeStep, KardexTogether
    <2>. QED BY <1>13, <2>1, <2>2, TakeType
<1>14. ASSUME NEW s \in Sessions, EditSame(s) PROVE KardexExact'
    <2>1. CASE UNCHANGED <<stock, moves, ord, did>>
        BY <2>1 DEF KardexExact
    <2>2. CASE did' = did \cup {"take"} /\ \E r \in Rows : \E n \in Int : SaveStock(s, r, stock[r], n)
        <3>1. PICK r \in Rows, n \in Int : SaveStock(s, r, stock[r], n)
            BY <2>2
        <3>2. stock[r] \in Int
            BY DEF TypeOK
        <3>3. \A q \in Rows : stock'[q] - moves'[q] = stock[q] - moves[q]
            BY <3>1, <3>2, SaveStockFields
        <3>. QED BY <2>2, <3>3, TypeStep, KardexTogether
    <2>. QED BY <1>14, <2>1, <2>2, TakeType
<1>15. ASSUME NEW s \in Sessions, DeleteRead(s) PROVE KardexExact'
    BY <1>15 DEF DeleteRead, GoTo, KardexExact
<1>16. ASSUME NEW s \in Sessions, Peek(s) PROVE KardexExact'
    BY <1>16 DEF Peek, GoTo, KardexExact
<1>17. ASSUME NEW s \in Sessions, GiveBack(s) PROVE KardexExact'
    <2>1. did' = did \cup Gave(s, "give") \cup (IF \E r \in Rows : Resold(s, r) > 0 THEN {"take"} ELSE {})
        BY <1>17 DEF GiveBack
    <2>2. CASE stock[req[s].row] # req[s].seen
        BY <2>1, <2>2 DEF Gave, KardexExact
    <2>3. CASE stock[req[s].row] = req[s].seen
        <3>1. SaveStock(s, req[s].row, req[s].seen, req[s].diff)
            BY <1>17 DEF GiveBack
        <3>2. req[s].diff \in Int /\ req[s].seen \in Int /\ req[s].row \in Rows
            BY <1>17, GiveBackType
        <3>3. \A q \in Rows : stock'[q] - moves'[q] = stock[q] - moves[q]
            BY <2>3, <3>1, <3>2, SaveStockFields
        <3>. QED BY <2>1, <3>3, TypeStep, KardexTogether
    <2>. QED BY <2>2, <2>3
<1>18. ASSUME NEW s \in Sessions, CancelRead(s) PROVE KardexExact'
    BY <1>18 DEF CancelRead, GoTo, KardexExact
<1>19. ASSUME NEW s \in Sessions, RestoreRead(s) PROVE KardexExact'
    BY <1>19 DEF RestoreRead, GoTo, KardexExact
<1>20. ASSUME NEW s \in Sessions, RestoreSave(s) PROVE KardexExact'
    BY <1>20 DEF RestoreSave, Gave, KardexExact
<1>21. ASSUME NEW s \in Sessions, CancelSave(s) PROVE KardexExact'
    BY <1>21 DEF CancelSave, GoTo, KardexExact
<1>22. ASSUME NEW s \in Sessions, BreakDeadlock(s) PROVE KardexExact'
    BY <1>22 DEF BreakDeadlock, GoTo, RollBack, Release, KardexExact, Refused, RollBack
<1>22a. ASSUME NEW s \in Sessions, SwallowDeadlock(s) PROVE KardexExact'
    BY <1>22a DEF SwallowDeadlock, KardexExact
<1>23. ASSUME NEW s \in Sessions, Advance(s) PROVE KardexExact'
    BY <1>23 DEF Advance, GoTo, KardexExact
<1>24. CASE UNCHANGED vars
    BY <1>24 DEF vars, KardexExact
<1>. QED BY <1>1, <1>2, <1>3, <1>4, <1>5, <1>6, <1>7, <1>8, <1>9, <1>10, <1>11, <1>12,
           <1>13, <1>14, <1>15, <1>16, <1>17, <1>18, <1>19, <1>20, <1>21, <1>22, <1>22a, <1>23, <1>24
       DEF Next, WriterStep, OtherStep, Quiet

(***************************************************************************)
(* An order is still unwritten as long as its request has not ended, and   *)
(* every request that works on an order found it written.                  *)
(***************************************************************************)
LEMMA KeepsSettled ==
    ASSUME Settled,
           \A o \in Sessions : pc[o] = "done" => pc'[o] = "done",
           \A o \in Sessions : pc'[o] # "done" => ord'[o] = ord[o] /\ returned'[o] = returned[o],
           \A e \in Sessions : Working(e)' =>
               \/ Working(e) /\ req'[e].o = req[e].o /\ req'[e].o \in Sessions
               \/ pc[req'[e].o] = "done" /\ req'[e].o \in Sessions
    PROVE  Settled'
<1>1. ASSUME NEW o \in Sessions, pc'[o] # "done"
      PROVE  ord'[o].status = "none" /\ \A p \in Products : ord'[o].item[p] = 0 /\ returned'[o][p] = 0
    BY <1>1 DEF Settled
<1>2. ASSUME NEW e \in Sessions, Working(e)' PROVE pc'[req'[e].o] = "done"
    BY <1>2 DEF Settled
<1>. QED BY <1>1, <1>2 DEF Settled

LEMMA ReadsDone ==
    ASSUME TypeOK, Settled, NEW s \in Sessions, NEW new \in Asked, NEW l,
           \/ ord[new.o].status # "none" \/ ord[new.o].item[new.p] > 0,
           pc[s] = "new", pc' = [pc EXCEPT ![s] = l], l # "done", req' = [req EXCEPT ![s] = new],
           ord' = ord, returned' = returned
    PROVE  Settled'
<1>1. new.o \in Sessions /\ new.p \in Products
    BY DEF Asked
<1>2. pc[new.o] = "done"
    BY <1>1 DEF Settled
<1>3. /\ req'[s] = new /\ \A e \in Sessions \ {s} : req'[e] = req[e] /\ pc'[e] = pc[e]
      /\ pc'[s] = l
    BY DEF TypeOK
<1>4. \A e \in Sessions : req[e].o \in Sessions
    BY DEF TypeOK, Asked
<1>5. \A o \in Sessions : pc[o] = "done" => pc'[o] = "done"
    BY <1>3
<1>6. ASSUME NEW e \in Sessions, Working(e)'
      PROVE  \/ Working(e) /\ req'[e].o = req[e].o /\ req'[e].o \in Sessions
             \/ pc[req'[e].o] = "done" /\ req'[e].o \in Sessions
    BY <1>1, <1>2, <1>3, <1>4, <1>6 DEF Working
<1>. QED BY <1>5, <1>6, KeepsSettled

LEMMA WorksOn ==
    ASSUME TypeOK, Settled, NEW s \in Sessions, Working(s), NEW l, pc' = [pc EXCEPT ![s] = l],
           \A o \in Sessions \ {req[s].o} : ord'[o] = ord[o] /\ returned'[o] = returned[o],
           \/ l = "done" /\ req' = req
           \/ \E new \in Asked : req' = [req EXCEPT ![s] = new] /\ new.o = req[s].o
    PROVE  Settled'
<1>1. req[s].o \in Sessions /\ pc[req[s].o] = "done" /\ pc[s] # "done"
    BY DEF TypeOK, Asked, Settled, Working
<1>2. pc'[s] = l /\ \A e \in Sessions \ {s} : pc'[e] = pc[e] /\ req'[e] = req[e]
    BY DEF TypeOK
<1>3. \A o \in Sessions : pc[o] = "done" => pc'[o] = "done"
    BY <1>1, <1>2
<1>4. \A e \in Sessions : req[e].o \in Sessions /\ req'[e].o = req[e].o
    BY DEF TypeOK, Asked
<1>5. \A e \in Sessions : Working(e)' => Working(e) /\ req'[e].o = req[e].o /\ req'[e].o \in Sessions
    BY <1>2, <1>4 DEF Working
<1>6. \A o \in Sessions : pc'[o] # "done" => ord'[o] = ord[o] /\ returned'[o] = returned[o]
    BY <1>1, <1>3
<1>. QED BY <1>3, <1>5, <1>6, KeepsSettled

(***************************************************************************)
(* No handler writes an order before the request that creates it commits.  *)
(***************************************************************************)
LEMMA SettledStep == RInv /\ [Next]_vars => Settled'
<1>. SUFFICES ASSUME RInv, [Next]_vars PROVE Settled'
    OBVIOUS
<1>. USE InventoryAssumption DEF RInv, KInv, table, locks, baskets
<1>1. ASSUME NEW s \in Sessions, Begin(s) PROVE Settled'
    <2>1. \E l \in {"item"} : pc' = [pc EXCEPT ![s] = l]
        BY <1>1 DEF Begin, GoTo
    <2>2. pc[s] \in {"new", "item", "create", "commit"} /\ UNCHANGED <<ord, returned, req>>
        BY <1>1 DEF Begin
    <2>3. \A e \in Sessions : req[e].o \in Sessions
        BY DEF TypeOK, Asked
    <2>. QED BY <2>1, <2>2, <2>3, KeepsSettled DEF Working, TypeOK
<1>2. ASSUME NEW s \in Sessions, SellCheck(s) PROVE Settled'
    <2>1. \E l \in {"create", "commit"} : pc' = [pc EXCEPT ![s] = l]
        BY <1>2 DEF SellCheck, GoTo
    <2>2. pc[s] \in {"new", "item", "create", "commit"} /\ UNCHANGED <<ord, returned, req>>
        BY <1>2 DEF SellCheck
    <2>3. \A e \in Sessions : req[e].o \in Sessions
        BY DEF TypeOK, Asked
    <2>. QED BY <2>1, <2>2, <2>3, KeepsSettled DEF Working, TypeOK
<1>3. ASSUME NEW s \in Sessions, CallCheck(s) PROVE Settled'
    <2>1. \E l \in {"create"} : pc' = [pc EXCEPT ![s] = l]
        BY <1>3 DEF CallCheck, GoTo
    <2>2. pc[s] \in {"new", "item", "create", "commit"} /\ UNCHANGED <<ord, returned, req>>
        BY <1>3 DEF CallCheck
    <2>3. \A e \in Sessions : req[e].o \in Sessions
        BY DEF TypeOK, Asked
    <2>. QED BY <2>1, <2>2, <2>3, KeepsSettled DEF Working, TypeOK
<1>4. ASSUME NEW s \in Sessions, CallRefused(s) PROVE Settled'
    <2>1. \E l \in {"done"} : pc' = [pc EXCEPT ![s] = l]
        BY <1>4 DEF CallRefused, GoTo, Refused, RollBack, Release
    <2>2. pc[s] \in {"new", "item", "create", "commit"} /\ UNCHANGED <<ord, returned, req>>
        BY <1>4 DEF CallRefused, Refused, RollBack
    <2>3. \A e \in Sessions : req[e].o \in Sessions
        BY DEF TypeOK, Asked
    <2>. QED BY <2>1, <2>2, <2>3, KeepsSettled DEF Working, TypeOK
<1>5. ASSUME NEW s \in Sessions, CreateItem(s) PROVE Settled'
    <2>1. \E l \in {"commit", "item"} : pc' = [pc EXCEPT ![s] = l]
        BY <1>5 DEF CreateItem, GoTo
    <2>2. pc[s] \in {"new", "item", "create", "commit"} /\ UNCHANGED <<ord, returned, req>>
        BY <1>5 DEF CreateItem
    <2>3. \A e \in Sessions : req[e].o \in Sessions
        BY DEF TypeOK, Asked
    <2>. QED BY <2>1, <2>2, <2>3, KeepsSettled DEF Working, TypeOK
<1>6. ASSUME NEW s \in Sessions, CommitOrder(s) PROVE Settled'
    <2>1. pc' = [pc EXCEPT ![s] = "done"] /\ pc[s] = "commit" /\ UNCHANGED <<returned, req>>
        BY <1>6 DEF CommitOrder, Release, GoTo
    <2>2. \A o \in Sessions \ {s} : ord'[o] = ord[o]
        BY <1>6, CommitType
    <2>3. \A e \in Sessions : req[e].o \in Sessions
        BY DEF TypeOK, Asked
    <2>. QED BY <2>1, <2>2, <2>3, KeepsSettled DEF Working, TypeOK
<1>7. ASSUME NEW s \in Sessions, ReceiveBegin(s) PROVE Settled'
    <2>1. \E l \in {"item"} : pc' = [pc EXCEPT ![s] = l]
        BY <1>7 DEF ReceiveBegin, GoTo
    <2>2. pc[s] \in {"new", "item", "create", "commit"} /\ UNCHANGED <<ord, returned, req>>
        BY <1>7 DEF ReceiveBegin
    <2>3. \A e \in Sessions : req[e].o \in Sessions
        BY DEF TypeOK, Asked
    <2>. QED BY <2>1, <2>2, <2>3, KeepsSettled DEF Working, TypeOK
<1>8. ASSUME NEW s \in Sessions, ReceiveItem(s) PROVE Settled'
    <2>1. \E l \in {"commit", "item"} : pc' = [pc EXCEPT ![s] = l]
        BY <1>8 DEF ReceiveItem, GoTo
    <2>2. pc[s] \in {"new", "item", "create", "commit"} /\ UNCHANGED <<ord, returned, req>>
        BY <1>8 DEF ReceiveItem
    <2>3. \A e \in Sessions : req[e].o \in Sessions
        BY DEF TypeOK, Asked
    <2>. QED BY <2>1, <2>2, <2>3, KeepsSettled DEF Working, TypeOK
<1>9. ASSUME NEW s \in Sessions, ReceiveCommit(s) PROVE Settled'
    <2>1. \E l \in {"done"} : pc' = [pc EXCEPT ![s] = l]
        BY <1>9 DEF ReceiveCommit, GoTo, Release
    <2>2. pc[s] \in {"new", "item", "create", "commit"} /\ UNCHANGED <<ord, returned, req>>
        BY <1>9 DEF ReceiveCommit
    <2>3. \A e \in Sessions : req[e].o \in Sessions
        BY DEF TypeOK, Asked
    <2>. QED BY <2>1, <2>2, <2>3, KeepsSettled DEF Working, TypeOK
<1>10. ASSUME NEW s \in Sessions, ReturnRead(s) PROVE Settled'
    <2>1. pc[s] = "new" /\ UNCHANGED <<ord, returned>>
        BY <1>10 DEF ReturnRead
    <2>2. CASE pc' = [pc EXCEPT ![s] = "done"] /\ req' = req
        <3>1. \A e \in Sessions : req[e].o \in Sessions
            BY DEF TypeOK, Asked
        <3>. QED BY <2>1, <2>2, <3>1, KeepsSettled DEF Working, TypeOK
    <2>3. CASE /\ pc' = [pc EXCEPT ![s] = "return"]
               /\ \E new \in Asked : req' = [req EXCEPT ![s] = new] /\ ord[new.o].item[new.p] > 0
        BY <2>1, <2>3, ReadsDone
    <2>. QED BY <1>10, <2>2, <2>3, ReturnReadFields
<1>11. ASSUME NEW s \in Sessions, ReturnSave(s) PROVE Settled'
    <2>1. Working(s) /\ UNCHANGED <<ord, req>> /\ pc' = [pc EXCEPT ![s] = "done"]
        BY <1>11 DEF ReturnSave, Working, GoTo
    <2>2. \A o \in Sessions \ {req[s].o} : returned'[o] = returned[o]
        BY <1>11 DEF ReturnSave, TypeOK
    <2>. QED BY <2>1, <2>2, WorksOn
<1>12. ASSUME NEW s \in Sessions, EditRead(s) PROVE Settled'
    <2>1. pc[s] = "new" /\ UNCHANGED <<ord, returned>>
        BY <1>12 DEF EditRead
    <2>2. PICK new \in Asked : /\ req' = [req EXCEPT ![s] = new] /\ ord[new.o].item[new.p] > 0
                               /\ \E l \in {"take", "peek", "save"} : pc' = [pc EXCEPT ![s] = l]
        BY <1>12, EditReadFields
    <2>. QED BY <2>1, <2>2, ReadsDone
<1>13. ASSUME NEW s \in Sessions, EditTake(s) PROVE Settled'
    <2>1. Working(s) /\ UNCHANGED <<returned, req>> /\ pc' = [pc EXCEPT ![s] = "done"]
        BY <1>13 DEF EditTake, Working, GoTo
    <2>2. \A o \in Sessions \ {req[s].o} : ord'[o] = ord[o]
        BY <1>13 DEF EditTake, SaveItem, TypeOK
    <2>. QED BY <2>1, <2>2, WorksOn
<1>14. ASSUME NEW s \in Sessions, EditSame(s) PROVE Settled'
    <2>1. Working(s) /\ UNCHANGED <<returned, req>> /\ pc' = [pc EXCEPT ![s] = "done"]
        BY <1>14 DEF EditSame, Working, GoTo
    <2>2. \A o \in Sessions \ {req[s].o} : ord'[o] = ord[o]
        BY <1>14 DEF EditSame, SaveItem, TypeOK
    <2>. QED BY <2>1, <2>2, WorksOn
<1>15. ASSUME NEW s \in Sessions, DeleteRead(s) PROVE Settled'
    <2>1. pc[s] = "new" /\ UNCHANGED <<ord, returned>>
        BY <1>15 DEF DeleteRead
    <2>. QED BY <1>15, <2>1, DeleteReadFields, ReadsDone
<1>16. ASSUME NEW s \in Sessions, Peek(s) PROVE Settled'
    <2>1. Working(s) /\ UNCHANGED <<ord, returned>>
        BY <1>16 DEF Peek, Working
    <2>. QED BY <1>16, <2>1, PeekFields, WorksOn
<1>17. ASSUME NEW s \in Sessions, GiveBack(s) PROVE Settled'
    <2>1. Working(s) /\ UNCHANGED <<returned, req>> /\ pc' = [pc EXCEPT ![s] = "done"]
        BY <1>17 DEF GiveBack, Working, GoTo
    <2>2. \A o \in Sessions \ {req[s].o} : ord'[o] = ord[o]
        BY <1>17 DEF GiveBack, SaveItem, TypeOK
    <2>. QED BY <2>1, <2>2, WorksOn
<1>18. ASSUME NEW s \in Sessions, CancelRead(s) PROVE Settled'
    <2>1. pc[s] = "new" /\ UNCHANGED <<ord, returned>>
        BY <1>18 DEF CancelRead
    <2>. QED BY <1>18, <2>1, CancelReadFields, ReadsDone
<1>19. ASSUME NEW s \in Sessions, RestoreRead(s) PROVE Settled'
    <2>1. Working(s) /\ UNCHANGED <<ord, returned>>
        BY <1>19 DEF RestoreRead, Working
    <2>. QED BY <1>19, <2>1, RestoreReadFields, WorksOn
<1>20. ASSUME NEW s \in Sessions, RestoreSave(s) PROVE Settled'
    <2>1. Working(s) /\ UNCHANGED <<ord, returned, req>> /\ pc' = [pc EXCEPT ![s] = "restore"]
        BY <1>20 DEF RestoreSave, Working, GoTo
    <2>2. req' = [req EXCEPT ![s] = req[s]] /\ req[s] \in Asked
        BY <2>1 DEF TypeOK
    <2>. QED BY <2>1, <2>2, WorksOn
<1>21. ASSUME NEW s \in Sessions, CancelSave(s) PROVE Settled'
    <2>1. Working(s) /\ UNCHANGED <<returned, req>> /\ pc' = [pc EXCEPT ![s] = "done"]
        BY <1>21 DEF CancelSave, Working, GoTo
    <2>2. \A o \in Sessions \ {req[s].o} : ord'[o] = ord[o]
        BY <1>21 DEF CancelSave, TypeOK
    <2>. QED BY <2>1, <2>2, WorksOn
<1>22. ASSUME NEW s \in Sessions, BreakDeadlock(s) PROVE Settled'
    <2>1. \E l \in {"done"} : pc' = [pc EXCEPT ![s] = l]
        BY <1>22 DEF BreakDeadlock, GoTo, RollBack, Release
    <2>2. pc[s] \in {"new", "item", "create", "commit"} /\ UNCHANGED <<ord, returned, req>>
        BY <1>22 DEF BreakDeadlock, RollBack, InRing, Blockers
    <2>3. \A e \in Sessions : req[e].o \in Sessions
        BY DEF TypeOK, Asked
    <2>. QED BY <2>1, <2>2, <2>3, KeepsSettled DEF Working, TypeOK
<1>22a. ASSUME NEW s \in Sessions, SwallowDeadlock(s) PROVE Settled'
    <2>1. \E l \in {"commit"} : pc' = [pc EXCEPT ![s] = l]
        BY <1>22a DEF SwallowDeadlock, GoTo
    <2>2. pc[s] \in {"new", "item", "create", "commit"} /\ UNCHANGED <<ord, returned, req>>
        BY <1>22a DEF SwallowDeadlock, InSavepoint
    <2>3. \A e \in Sessions : req[e].o \in Sessions
        BY DEF TypeOK, Asked
    <2>. QED BY <2>1, <2>2, <2>3, KeepsSettled DEF Working, TypeOK
<1>23. ASSUME NEW s \in Sessions, Advance(s) PROVE Settled'
    <2>1. UNCHANGED <<pc, returned, req>> /\ ord[s].status # "none"
        BY <1>23 DEF Advance
    <2>2. pc[s] = "done"
        BY <2>1 DEF Settled
    <2>3. \A o \in Sessions \ {s} : ord'[o] = ord[o]
        BY <1>23 DEF Advance, TypeOK
    <2>4. \A e \in Sessions : req[e].o \in Sessions
        BY DEF TypeOK, Asked
    <2>. QED BY <2>1, <2>2, <2>3, <2>4, KeepsSettled DEF Working
<1>24. CASE UNCHANGED vars
    BY <1>24 DEF vars, Settled, Working
<1>. QED BY <1>1, <1>2, <1>3, <1>4, <1>5, <1>6, <1>7, <1>8, <1>9, <1>10, <1>11, <1>12,
           <1>13, <1>14, <1>15, <1>16, <1>17, <1>18, <1>19, <1>20, <1>21, <1>22, <1>22a, <1>23, <1>24
       DEF Next, WriterStep, OtherStep, Quiet

(***************************************************************************)
(* Most steps neither change an item or a return nor check one.            *)
(***************************************************************************)
LEMMA KeepsFits ==
    ASSUME Fits, SerialReturnsWithinSale, did \subseteq did', returned' = returned,
           did' \cap {"give", "take", "overlap"} = {} =>
               \A o \in Sessions : ord'[o].item = ord[o].item,
           \A t \in Sessions : pc'[t] = "return" => pc[t] = "return" /\ req'[t] = req[t] /\ req[t].o \in Sessions
    PROVE  Fits' /\ SerialReturnsWithinSale'
<1>1. Fits'
    <2>. SUFFICES ASSUME did' \cap {"give", "take", "overlap"} = {}
                  PROVE /\ \A t \in Sessions : pc'[t] = "return" =>
                            returned'[req'[t].o][req'[t].p] + req'[t].n <= ord'[req'[t].o].item[req'[t].p]
                        /\ \A t, u \in Sessions : (pc'[t] = "return" /\ pc'[u] = "return"
                               /\ req'[t].o = req'[u].o /\ req'[t].p = req'[u].p) => t = u
        BY DEF Fits
    <2>1. did \cap {"give", "take", "overlap"} = {}
        OBVIOUS
    <2>. QED BY <2>1 DEF Fits
<1>2. SerialReturnsWithinSale'
    BY DEF SerialReturnsWithinSale
<1>. QED BY <1>1, <1>2

LEMMA OffersNoReturn ==
    ASSUME TypeOK, Fits, SerialReturnsWithinSale, NEW s \in Sessions, NEW l, l # "return",
           pc' = [pc EXCEPT ![s] = l],
           \A t \in Sessions \ {s} : req'[t] = req[t],
           did \subseteq did', returned' = returned,
           did' \cap {"give", "take", "overlap"} = {} =>
               \A o \in Sessions : ord'[o].item = ord[o].item
    PROVE  Fits' /\ SerialReturnsWithinSale'
<1>1. \A t \in Sessions : pc'[t] = "return" => pc[t] = "return" /\ req'[t] = req[t] /\ req[t].o \in Sessions
    BY DEF TypeOK, Asked
<1>. QED BY <1>1, KeepsFits

LEMMA CommitFits ==
    ASSUME RInv, NEW s \in Sessions, CommitOrder(s)
    PROVE  Fits' /\ SerialReturnsWithinSale'
<1>. USE DEF RInv, KInv
<1>1. /\ pc' = [pc EXCEPT ![s] = "done"] /\ pc[s] = "commit" /\ UNCHANGED <<returned, req, did>>
    BY DEF CommitOrder, Release, GoTo
<1>2. \A o \in Sessions \ {s} : ord'[o] = ord[o]
    BY CommitType
<1>3. \A p \in Products : returned[s][p] = 0
    BY <1>1 DEF Settled
<1>4. ASSUME NEW t \in Sessions, pc'[t] = "return"
      PROVE  pc[t] = "return" /\ req'[t] = req[t] /\ req[t].o \in Sessions /\ req[t].o # s
    BY <1>1, <1>4 DEF TypeOK, Asked, Settled, Working
<1>5. Fits'
    <2>. SUFFICES ASSUME did' \cap {"give", "take", "overlap"} = {}
                  PROVE /\ \A t \in Sessions : pc'[t] = "return" =>
                            returned'[req'[t].o][req'[t].p] + req'[t].n <= ord'[req'[t].o].item[req'[t].p]
                        /\ \A t, u \in Sessions : (pc'[t] = "return" /\ pc'[u] = "return"
                               /\ req'[t].o = req'[u].o /\ req'[t].p = req'[u].p) => t = u
        BY DEF Fits
    <2>. QED BY <1>1, <1>2, <1>4 DEF Fits
<1>6. SerialReturnsWithinSale'
    <2>. SUFFICES ASSUME did' \cap {"give", "take", "overlap"} = {}, NEW o \in Sessions, NEW p \in Products
                  PROVE  returned'[o][p] <= ord'[o].item[p]
        BY DEF SerialReturnsWithinSale
    <2>1. CASE o = s
        <3>1. ord'[s].item[p] \in Nat
            BY CommitType DEF OrderRows
        <3>. QED BY <1>1, <1>3, <2>1, <3>1
    <2>2. CASE o # s
        BY <1>1, <1>2, <2>2 DEF SerialReturnsWithinSale
    <2>. QED BY <2>1, <2>2
<1>. QED BY <1>5, <1>6

LEMMA ReturnReadFits ==
    ASSUME RInv, NEW s \in Sessions, ReturnRead(s)
    PROVE  Fits' /\ SerialReturnsWithinSale'
<1>. USE DEF RInv, KInv
<1>1. UNCHANGED <<ord, returned>> /\ pc[s] = "new"
    BY DEF ReturnRead
<1>2. CASE pc' = [pc EXCEPT ![s] = "done"] /\ UNCHANGED <<req, did>>
    BY <1>1, <1>2, OffersNoReturn
<1>3. CASE /\ pc' = [pc EXCEPT ![s] = "return"]
           /\ \E new \in Asked :
                 /\ req' = [req EXCEPT ![s] = new]
                 /\ new.n <= Returnable(new.o, new.p)
                 /\ did' = did \cup (IF Overlaps(new.o, new.p) THEN {"overlap"} ELSE {})
    <2>1. PICK new \in Asked :
                 /\ req' = [req EXCEPT ![s] = new]
                 /\ new.n <= Returnable(new.o, new.p)
                 /\ did' = did \cup (IF Overlaps(new.o, new.p) THEN {"overlap"} ELSE {})
        BY <1>3
    <2>2. /\ req'[s] = new /\ \A t \in Sessions \ {s} : req'[t] = req[t] /\ pc'[t] = pc[t]
        BY <1>3, <2>1 DEF TypeOK
    <2>3. new.o \in Sessions /\ new.p \in Products /\ new.n \in Nat
        BY DEF Asked
    <2>4. returned[new.o][new.p] \in Nat /\ ord[new.o].item[new.p] \in Nat
        BY <2>3, OrderType
    <2>5. returned[new.o][new.p] + new.n <= ord[new.o].item[new.p]
        BY <2>1, <2>3, <2>4 DEF Returnable
    <2>6. SerialReturnsWithinSale'
        BY <1>1, <2>1 DEF SerialReturnsWithinSale
    <2>7. ASSUME did' \cap {"give", "take", "overlap"} = {}
          PROVE  /\ \A t \in Sessions : pc'[t] = "return" =>
                            returned'[req'[t].o][req'[t].p] + req'[t].n <= ord'[req'[t].o].item[req'[t].p]
                 /\ \A t, u \in Sessions : (pc'[t] = "return" /\ pc'[u] = "return"
                               /\ req'[t].o = req'[u].o /\ req'[t].p = req'[u].p) => t = u
        <3>1. ~Overlaps(new.o, new.p) /\ did \cap {"give", "take", "overlap"} = {}
            BY <2>1, <2>7
        <3>2. \A t \in Sessions \ {s} : ~(pc[t] = "return" /\ req[t].o = new.o /\ req[t].p = new.p)
            BY <3>1 DEF Overlaps
        <3>. QED BY <1>1, <2>2, <2>5, <3>1, <3>2 DEF Fits
    <2>. QED BY <2>6, <2>7 DEF Fits
<1>. QED BY <1>2, <1>3, ReturnReadFields

LEMMA ReturnSaveFits ==
    ASSUME RInv, NEW s \in Sessions, ReturnSave(s)
    PROVE  Fits' /\ SerialReturnsWithinSale'
<1>. USE DEF RInv, KInv
<1>1. UNCHANGED <<ord, req, did>> /\ pc[s] = "return" /\ pc' = [pc EXCEPT ![s] = "done"]
    BY DEF ReturnSave, GoTo
<1>2. \A o \in Sessions, p \in Products :
         /\ returned'[o][p] = returned[o][p] + (IF o = req[s].o /\ p = req[s].p THEN req[s].n ELSE 0)
         /\ returned[o][p] \in Nat
    BY ReturnSaveFields, OrderType
<1>3. \A t \in Sessions : req[t].o \in Sessions /\ req[t].p \in Products /\ req[t].n \in Nat
    BY DEF TypeOK, Asked
<1>4. \A t \in Sessions : pc'[t] = "return" => pc[t] = "return" /\ t # s
    BY <1>1 DEF TypeOK
<1>5. ASSUME did' \cap {"give", "take", "overlap"} = {}
      PROVE  /\ \A t \in Sessions : pc'[t] = "return" =>
                        returned'[req'[t].o][req'[t].p] + req'[t].n <= ord'[req'[t].o].item[req'[t].p]
             /\ \A t, u \in Sessions : (pc'[t] = "return" /\ pc'[u] = "return"
                           /\ req'[t].o = req'[u].o /\ req'[t].p = req'[u].p) => t = u
    <2>1. \A t \in Sessions : pc'[t] = "return" => ~(req[t].o = req[s].o /\ req[t].p = req[s].p)
        BY <1>1, <1>4, <1>5 DEF Fits
    <2>2. \A t \in Sessions : pc'[t] = "return" => returned'[req[t].o][req[t].p] = returned[req[t].o][req[t].p]
        BY <1>2, <1>3, <2>1
    <2>. QED BY <1>1, <1>4, <1>5, <2>2 DEF Fits
<1>6. SerialReturnsWithinSale'
    <2>. SUFFICES ASSUME did' \cap {"give", "take", "overlap"} = {}, NEW o \in Sessions, NEW p \in Products
                  PROVE  returned'[o][p] <= ord'[o].item[p]
        BY DEF SerialReturnsWithinSale
    <2>1. CASE o = req[s].o /\ p = req[s].p
        BY <1>1, <1>2, <2>1 DEF Fits
    <2>2. CASE ~(o = req[s].o /\ p = req[s].p)
        <3>1. returned'[o][p] = returned[o][p]
            BY <1>2, <2>2
        <3>. QED BY <1>1, <3>1 DEF SerialReturnsWithinSale
    <2>. QED BY <2>1, <2>2
<1>. QED BY <1>5, <1>6 DEF Fits

(***************************************************************************)
(* A return that was checked alone still fits when it is saved.            *)
(***************************************************************************)
LEMMA FitsStep == RInv /\ [Next]_vars => (Fits' /\ SerialReturnsWithinSale')
<1>. SUFFICES ASSUME RInv, [Next]_vars PROVE (Fits' /\ SerialReturnsWithinSale')
    OBVIOUS
<1>. USE InventoryAssumption DEF RInv, KInv, table, locks, baskets
<1>1. ASSUME NEW s \in Sessions, Begin(s) PROVE (Fits' /\ SerialReturnsWithinSale')
    <2>1. \E l \in {"item"} : pc' = [pc EXCEPT ![s] = l]
        BY <1>1 DEF Begin, GoTo
    <2>2. UNCHANGED <<ord, returned, did, req>>
        BY <1>1 DEF Begin
    <2>. QED BY <2>1, <2>2, OffersNoReturn
<1>2. ASSUME NEW s \in Sessions, SellCheck(s) PROVE (Fits' /\ SerialReturnsWithinSale')
    <2>1. \E l \in {"create", "commit"} : pc' = [pc EXCEPT ![s] = l]
        BY <1>2 DEF SellCheck, GoTo
    <2>2. UNCHANGED <<ord, returned, did, req>>
        BY <1>2 DEF SellCheck
    <2>. QED BY <2>1, <2>2, OffersNoReturn
<1>3. ASSUME NEW s \in Sessions, CallCheck(s) PROVE (Fits' /\ SerialReturnsWithinSale')
    <2>1. \E l \in {"create"} : pc' = [pc EXCEPT ![s] = l]
        BY <1>3 DEF CallCheck, GoTo
    <2>2. UNCHANGED <<ord, returned, did, req>>
        BY <1>3 DEF CallCheck
    <2>. QED BY <2>1, <2>2, OffersNoReturn
<1>4. ASSUME NEW s \in Sessions, CallRefused(s) PROVE (Fits' /\ SerialReturnsWithinSale')
    <2>1. \E l \in {"done"} : pc' = [pc EXCEPT ![s] = l]
        BY <1>4 DEF CallRefused, GoTo, Refused, RollBack, Release
    <2>2. UNCHANGED <<ord, returned, did, req>>
        BY <1>4 DEF CallRefused, Refused, RollBack, Release
    <2>. QED BY <2>1, <2>2, OffersNoReturn
<1>5. ASSUME NEW s \in Sessions, CreateItem(s) PROVE (Fits' /\ SerialReturnsWithinSale')
    <2>1. \E l \in {"commit", "item"} : pc' = [pc EXCEPT ![s] = l]
        BY <1>5 DEF CreateItem, GoTo
    <2>2. UNCHANGED <<ord, returned, did, req>>
        BY <1>5 DEF CreateItem
    <2>. QED BY <2>1, <2>2, OffersNoReturn
<1>6. ASSUME NEW s \in Sessions, CommitOrder(s) PROVE (Fits' /\ SerialReturnsWithinSale')
    BY <1>6, CommitFits DEF RInv
<1>7. ASSUME NEW s \in Sessions, ReceiveBegin(s) PROVE (Fits' /\ SerialReturnsWithinSale')
    <2>1. \E l \in {"item"} : pc' = [pc EXCEPT ![s] = l]
        BY <1>7 DEF ReceiveBegin, GoTo
    <2>2. UNCHANGED <<ord, returned, did, req>>
        BY <1>7 DEF ReceiveBegin
    <2>. QED BY <2>1, <2>2, OffersNoReturn
<1>8. ASSUME NEW s \in Sessions, ReceiveItem(s) PROVE (Fits' /\ SerialReturnsWithinSale')
    <2>1. \E l \in {"commit", "item"} : pc' = [pc EXCEPT ![s] = l]
        BY <1>8 DEF ReceiveItem, GoTo
    <2>2. UNCHANGED <<ord, returned, did, req>>
        BY <1>8 DEF ReceiveItem
    <2>. QED BY <2>1, <2>2, OffersNoReturn
<1>9. ASSUME NEW s \in Sessions, ReceiveCommit(s) PROVE (Fits' /\ SerialReturnsWithinSale')
    <2>1. \E l \in {"done"} : pc' = [pc EXCEPT ![s] = l]
        BY <1>9 DEF ReceiveCommit, GoTo, Release
    <2>2. UNCHANGED <<ord, returned, did, req>>
        BY <1>9 DEF ReceiveCommit, Release
    <2>. QED BY <2>1, <2>2, OffersNoReturn
<1>10. ASSUME NEW s \in Sessions, ReturnRead(s) PROVE (Fits' /\ SerialReturnsWithinSale')
    BY <1>10, ReturnReadFits DEF RInv
<1>11. ASSUME NEW s \in Sessions, ReturnSave(s) PROVE (Fits' /\ SerialReturnsWithinSale')
    BY <1>11, ReturnSaveFits DEF RInv
<1>12. ASSUME NEW s \in Sessions, EditRead(s) PROVE (Fits' /\ SerialReturnsWithinSale')
    <2>1. \E l \in {"take", "peek", "save"} : pc' = [pc EXCEPT ![s] = l]
        BY <1>12, EditReadFields
    <2>2. PICK new \in Asked : req' = [req EXCEPT ![s] = new]
        BY <1>12, EditReadFields
    <2>3. \A t \in Sessions \ {s} : req'[t] = req[t]
        BY <2>2 DEF TypeOK
    <2>4. UNCHANGED <<ord, returned, did>>
        BY <1>12 DEF EditRead
    <2>. QED BY <2>1, <2>3, <2>4, OffersNoReturn
<1>13. ASSUME NEW s \in Sessions, EditTake(s) PROVE (Fits' /\ SerialReturnsWithinSale')
    <2>1. pc' = [pc EXCEPT ![s] = "done"] /\ UNCHANGED <<returned, req>>
        BY <1>13 DEF EditTake, GoTo
    <2>2. UNCHANGED <<ord, did>> \/ did' = did \cup {"take"}
        BY <1>13, TakeType
    <2>. QED BY <2>1, <2>2, OffersNoReturn
<1>14. ASSUME NEW s \in Sessions, EditSame(s) PROVE (Fits' /\ SerialReturnsWithinSale')
    <2>1. pc' = [pc EXCEPT ![s] = "done"] /\ UNCHANGED <<returned, req>>
        BY <1>14 DEF EditSame, GoTo
    <2>2. UNCHANGED <<ord, did>> \/ did' = did \cup {"take"}
        BY <1>14, TakeType
    <2>. QED BY <2>1, <2>2, OffersNoReturn
<1>15. ASSUME NEW s \in Sessions, DeleteRead(s) PROVE (Fits' /\ SerialReturnsWithinSale')
    <2>1. \E l \in {"peek"} : pc' = [pc EXCEPT ![s] = l]
        BY <1>15, DeleteReadFields
    <2>2. PICK new \in Asked : req' = [req EXCEPT ![s] = new]
        BY <1>15, DeleteReadFields
    <2>3. \A t \in Sessions \ {s} : req'[t] = req[t]
        BY <2>2 DEF TypeOK
    <2>4. UNCHANGED <<ord, returned, did>>
        BY <1>15 DEF DeleteRead
    <2>. QED BY <2>1, <2>3, <2>4, OffersNoReturn
<1>16. ASSUME NEW s \in Sessions, Peek(s) PROVE (Fits' /\ SerialReturnsWithinSale')
    <2>1. \E l \in {"give"} : pc' = [pc EXCEPT ![s] = l]
        BY <1>16, PeekFields
    <2>2. PICK new \in Asked : req' = [req EXCEPT ![s] = new]
        BY <1>16, PeekFields
    <2>3. \A t \in Sessions \ {s} : req'[t] = req[t]
        BY <2>2 DEF TypeOK
    <2>4. UNCHANGED <<ord, returned, did>>
        BY <1>16 DEF Peek
    <2>. QED BY <2>1, <2>3, <2>4, OffersNoReturn
<1>17. ASSUME NEW s \in Sessions, GiveBack(s) PROVE (Fits' /\ SerialReturnsWithinSale')
    <2>1. pc' = [pc EXCEPT ![s] = "done"] /\ UNCHANGED <<returned, req>>
        BY <1>17 DEF GiveBack, GoTo
    <2>2. did \subseteq did' /\ "give" \in did'
        BY <1>17 DEF GiveBack, Gave
    <2>. QED BY <2>1, <2>2, OffersNoReturn
<1>18. ASSUME NEW s \in Sessions, CancelRead(s) PROVE (Fits' /\ SerialReturnsWithinSale')
    <2>1. \E l \in {"restore"} : pc' = [pc EXCEPT ![s] = l]
        BY <1>18, CancelReadFields
    <2>2. PICK new \in Asked : req' = [req EXCEPT ![s] = new]
        BY <1>18, CancelReadFields
    <2>3. \A t \in Sessions \ {s} : req'[t] = req[t]
        BY <2>2 DEF TypeOK
    <2>4. UNCHANGED <<ord, returned, did>>
        BY <1>18 DEF CancelRead
    <2>. QED BY <2>1, <2>3, <2>4, OffersNoReturn
<1>19. ASSUME NEW s \in Sessions, RestoreRead(s) PROVE (Fits' /\ SerialReturnsWithinSale')
    <2>1. \E l \in {"restoring"} : pc' = [pc EXCEPT ![s] = l]
        BY <1>19, RestoreReadFields
    <2>2. PICK new \in Asked : req' = [req EXCEPT ![s] = new]
        BY <1>19, RestoreReadFields
    <2>3. \A t \in Sessions \ {s} : req'[t] = req[t]
        BY <2>2 DEF TypeOK
    <2>4. UNCHANGED <<ord, returned, did>>
        BY <1>19 DEF RestoreRead
    <2>. QED BY <2>1, <2>3, <2>4, OffersNoReturn
<1>20. ASSUME NEW s \in Sessions, RestoreSave(s) PROVE (Fits' /\ SerialReturnsWithinSale')
    <2>1. pc' = [pc EXCEPT ![s] = "restore"] /\ did \subseteq did' /\ UNCHANGED <<ord, returned, req>>
        BY <1>20 DEF RestoreSave, GoTo
    <2>. QED BY <2>1, OffersNoReturn
<1>21. ASSUME NEW s \in Sessions, CancelSave(s) PROVE (Fits' /\ SerialReturnsWithinSale')
    <2>1. pc' = [pc EXCEPT ![s] = "done"] /\ UNCHANGED <<returned, req, did>>
        BY <1>21 DEF CancelSave, GoTo
    <2>2. \A o \in Sessions : ord'[o].item = ord[o].item
        BY <1>21, CancelSaveType
    <2>. QED BY <2>1, <2>2, OffersNoReturn
<1>22. ASSUME NEW s \in Sessions, BreakDeadlock(s) PROVE (Fits' /\ SerialReturnsWithinSale')
    <2>1. \E l \in {"done"} : pc' = [pc EXCEPT ![s] = l]
        BY <1>22 DEF BreakDeadlock, GoTo, RollBack, Release
    <2>2. UNCHANGED <<ord, returned, did, req>>
        BY <1>22 DEF BreakDeadlock, RollBack, Release
    <2>. QED BY <2>1, <2>2, OffersNoReturn
<1>22a. ASSUME NEW s \in Sessions, SwallowDeadlock(s) PROVE (Fits' /\ SerialReturnsWithinSale')
    <2>1. \E l \in {"commit"} : pc' = [pc EXCEPT ![s] = l]
        BY <1>22a DEF SwallowDeadlock, GoTo
    <2>2. UNCHANGED <<ord, returned, did, req>>
        BY <1>22a DEF SwallowDeadlock
    <2>. QED BY <2>1, <2>2, OffersNoReturn
<1>23. ASSUME NEW s \in Sessions, Advance(s) PROVE (Fits' /\ SerialReturnsWithinSale')
    <2>1. UNCHANGED <<pc, returned, req, did>>
        BY <1>23 DEF Advance
    <2>2. \A o \in Sessions : ord'[o].item = ord[o].item
        BY <1>23, AdvanceType
    <2>3. \A t \in Sessions : req[t].o \in Sessions
        BY DEF TypeOK, Asked
    <2>. QED BY <2>1, <2>2, <2>3, KeepsFits
<1>24. CASE UNCHANGED vars
    BY <1>24 DEF vars, Fits, SerialReturnsWithinSale
<1>. QED BY <1>1, <1>2, <1>3, <1>4, <1>5, <1>6, <1>7, <1>8, <1>9, <1>10, <1>11, <1>12,
           <1>13, <1>14, <1>15, <1>16, <1>17, <1>18, <1>19, <1>20, <1>21, <1>22, <1>22a, <1>23, <1>24
       DEF Next, WriterStep, OtherStep, Quiet

(***************************************************************************)
(* A step of one session leaves the others' memory and locks alone.        *)
(***************************************************************************)
Untouched(s) ==
    /\ \A t \in Sessions \ {s} :
          /\ kind'[t] = kind[t] /\ pc'[t] = pc[t] /\ tx'[t] = tx[t] /\ req'[t] = req[t]
          /\ cart'[t] = cart[t] /\ at'[t] = at[t]
          /\ \A p \in Products : prodLock[p] = t => prodLock'[p] = t
    /\ \A r \in Rows : ids[r] > 0 => ids'[r] > 0

(***************************************************************************)
(* Every step of s is one of those.                                        *)
(***************************************************************************)
LEMMA UntouchedStep ==
    ASSUME KInv, NEW s \in Sessions, WriterStep(s) \/ OtherStep(s) \/ BreakDeadlock(s)
    PROVE  Untouched(s)
<1>. USE DEF KInv, TypeOK, Untouched, table, locks, baskets
<1>1. CASE Begin(s)
    BY <1>1 DEF Begin, GoTo
<1>2. CASE SellCheck(s)
    <2>1. prodLock' = [prodLock EXCEPT ![Line(s).p] = s] /\ prodLock[Line(s).p] \in {Nobody, s}
        BY <1>2 DEF SellCheck, ProductFree
    <2>. QED BY <1>2, <2>1, InventoryAssumption DEF SellCheck, GoTo
<1>3. CASE CallCheck(s)
    BY <1>3 DEF CallCheck, GoTo
<1>4. CASE CallRefused(s)
    BY <1>4 DEF CallRefused, Refused, RollBack, Release, GoTo
<1>5. CASE CreateItem(s)
    <2>1. \A t \in Sessions \ {s} : tx'[t] = tx[t]
        BY <1>5, SaleFields
    <2>. QED BY <1>5, <2>1 DEF CreateItem, GoTo
<1>6. CASE CommitOrder(s)
    BY <1>6 DEF CommitOrder, Publish, Release, GoTo
<1>7. CASE ReceiveBegin(s)
    BY <1>7 DEF ReceiveBegin, GoTo
<1>8. CASE ReceiveItem(s)
    <2>1. \A t \in Sessions \ {s} : tx'[t] = tx[t]
        BY <1>8, ReceiptFields
    <2>. QED BY <1>8, <2>1 DEF ReceiveItem, GoTo
<1>9. CASE ReceiveCommit(s)
    BY <1>9 DEF ReceiveCommit, Publish, Release, GoTo
<1>10. CASE ReturnRead(s)
    <2>1. UNCHANGED <<kind, tx, cart, at, prodLock, ids>>
        BY <1>10 DEF ReturnRead
    <2>2. CASE pc' = [pc EXCEPT ![s] = "done"] /\ req' = req
        BY <2>1, <2>2
    <2>3. CASE pc' = [pc EXCEPT ![s] = "return"] /\ \E new \in Asked : req' = [req EXCEPT ![s] = new]
        BY <2>1, <2>3
    <2>. QED BY <1>10, <2>2, <2>3, ReturnReadFields
<1>11. CASE ReturnSave(s)
    BY <1>11 DEF ReturnSave, GoTo
<1>12. CASE EditRead(s)
    <2>1. UNCHANGED <<kind, tx, cart, at, prodLock, ids>>
        BY <1>12 DEF EditRead
    <2>2. \E l : pc' = [pc EXCEPT ![s] = l]
        BY <1>12, EditReadFields
    <2>3. \E new \in Asked : req' = [req EXCEPT ![s] = new]
        BY <1>12, EditReadFields
    <2>. QED BY <2>1, <2>2, <2>3
<1>13. CASE EditTake(s)
    BY <1>13 DEF EditTake, GoTo
<1>14. CASE EditSame(s)
    BY <1>14 DEF EditSame, GoTo
<1>15. CASE DeleteRead(s)
    <2>1. UNCHANGED <<kind, tx, cart, at, prodLock, ids>>
        BY <1>15 DEF DeleteRead
    <2>2. \E l : pc' = [pc EXCEPT ![s] = l]
        BY <1>15, DeleteReadFields
    <2>3. \E new \in Asked : req' = [req EXCEPT ![s] = new]
        BY <1>15, DeleteReadFields
    <2>. QED BY <2>1, <2>2, <2>3
<1>16. CASE Peek(s)
    <2>1. UNCHANGED <<kind, tx, cart, at, prodLock, ids>>
        BY <1>16 DEF Peek
    <2>2. \E l : pc' = [pc EXCEPT ![s] = l]
        BY <1>16, PeekFields
    <2>3. \E new \in Asked : req' = [req EXCEPT ![s] = new]
        BY <1>16, PeekFields
    <2>. QED BY <2>1, <2>2, <2>3
<1>17. CASE GiveBack(s)
    BY <1>17 DEF GiveBack, GoTo
<1>18. CASE CancelRead(s)
    <2>1. UNCHANGED <<kind, tx, cart, at, prodLock, ids>>
        BY <1>18 DEF CancelRead
    <2>2. \E l : pc' = [pc EXCEPT ![s] = l]
        BY <1>18, CancelReadFields
    <2>3. \E new \in Asked : req' = [req EXCEPT ![s] = new]
        BY <1>18, CancelReadFields
    <2>. QED BY <2>1, <2>2, <2>3
<1>19. CASE RestoreRead(s)
    <2>1. UNCHANGED <<kind, tx, cart, at, prodLock, ids>>
        BY <1>19 DEF RestoreRead
    <2>2. \E l : pc' = [pc EXCEPT ![s] = l]
        BY <1>19, RestoreReadFields
    <2>3. \E new \in Asked : req' = [req EXCEPT ![s] = new]
        BY <1>19, RestoreReadFields
    <2>. QED BY <2>1, <2>2, <2>3
<1>20. CASE RestoreSave(s)
    BY <1>20 DEF RestoreSave, GoTo
<1>21. CASE CancelSave(s)
    BY <1>21 DEF CancelSave, GoTo
<1>22. CASE BreakDeadlock(s)
    BY <1>22 DEF BreakDeadlock, RollBack, Release, GoTo
<1>22a. CASE SwallowDeadlock(s)
    <2>1. \A t \in Sessions \ {s} : tx'[t] = tx[t]
        BY <1>22a, SwallowFields
    <2>. QED BY <1>22a, <2>1 DEF SwallowDeadlock, GoTo
<1>. QED BY <1>1, <1>2, <1>3, <1>4, <1>5, <1>6, <1>7, <1>8, <1>9, <1>10, <1>11, <1>12,
           <1>13, <1>14, <1>15, <1>16, <1>17, <1>18, <1>19, <1>20, <1>21, <1>22, <1>22a DEF WriterStep, OtherStep

(***************************************************************************)
(* Rows are added and never removed: what is not the only row stays so.    *)
(***************************************************************************)
LEMMA RowsGrow ==
    ASSUME \A r \in Rows : ids[r] > 0 => ids'[r] > 0
    PROVE  /\ \A p \in Products : RowsOf(p) \subseteq RowsOf(p)'
           /\ \A r \in Rows : Only(r)' => Only(r)
           /\ \A p \in Products : \A r \in RowsOf(p)' :
                 RowsOf(p) # {} /\ Only(r)' => r \in RowsOf(p) /\ Only(r)
<1>1. \A p \in Products : RowsOf(p) \subseteq RowsOf(p)'
    BY DEF RowsOf
<1>2. ASSUME NEW r \in Rows, Only(r)' PROVE Only(r)
    <2>1. r[1] \in Products
        BY RowType
    <2>. QED BY <1>1, <1>2, <2>1 DEF Only
<1>3. ASSUME NEW p \in Products, NEW r \in RowsOf(p)', RowsOf(p) # {}, Only(r)'
      PROVE  r \in RowsOf(p) /\ Only(r)
    <2>1. r \in Rows /\ r[1] = p
        BY DEF RowsOf
    <2>2. PICK q \in RowsOf(p) : TRUE
        BY <1>3
    <2>3. q = r
        BY <1>1, <1>3, <2>1 DEF Only
    <2>. QED BY <1>2, <1>3, <2>1, <2>2, <2>3
<1>. QED BY <1>1, <1>2, <1>3

(* The rows of the line a session is at.                                    *)
LEMMA LineGrows ==
    ASSUME NEW t \in Sessions, cart'[t] = cart[t], at'[t] = at[t], Line(t).p \in Products,
           RowsOf(Line(t).p) # {}, \A r \in Rows : ids[r] > 0 => ids'[r] > 0
    PROVE  /\ RowsOf(Line(t).p)' # {}
           /\ \A r \in RowsOf(Line(t).p)' : Only(r)' => r \in RowsOf(Line(t).p) /\ Only(r)
<1>1. Line(t)' = Line(t)
    BY DEF Line
<1>2. RowsOf(Line(t).p)' = {r \in Rows : r[1] = Line(t).p /\ ids'[r] > 0}
    BY <1>1 DEF RowsOf
<1>3. RowsOf(Line(t).p) = {r \in Rows : r[1] = Line(t).p /\ ids[r] > 0}
    BY DEF RowsOf
<1>4. PICK q \in RowsOf(Line(t).p) : TRUE
    OBVIOUS
<1>5. q \in Rows /\ q[1] = Line(t).p /\ ids'[q] > 0
    BY <1>3, <1>4
<1>6. ASSUME NEW r \in RowsOf(Line(t).p)', Only(r)' PROVE r \in RowsOf(Line(t).p) /\ Only(r)
    <2>1. r \in Rows /\ r[1] = Line(t).p
        BY <1>2
    <2>2. q = r
        BY <1>5, <1>6, <2>1 DEF Only, RowsOf
    <2>3. Only(r)
        BY <1>6, <2>1, RowsGrow
    <2>. QED BY <1>4, <2>2, <2>3
<1>. QED BY <1>2, <1>5, <1>6

(***************************************************************************)
(* A session that is left alone, with the quantities it checked, stays as  *)
(* it was.                                                                 *)
(***************************************************************************)
LEMMA OwnKept ==
    ASSUME KInv, NEW t \in Sessions, Own(t),
           kind'[t] = kind[t], pc'[t] = pc[t], tx'[t] = tx[t], req'[t] = req[t],
           cart'[t] = cart[t], at'[t] = at[t],
           \A p \in Products : prodLock[p] = t => prodLock'[p] = t,
           \A r \in Rows : ids[r] > 0 => ids'[r] > 0
    PROVE  Own(t)'
<1>1. Line(t)' = Line(t)
    BY DEF Line
<1>2. ASSUME kind'[t] = "web"
      PROVE  /\ \A r \in Rows : r \in tx'[t].wrote => prodLock'[r[1]] = t
             /\ pc'[t] = "create" => prodLock'[Line(t).p] = t /\ RowsOf(Line(t).p)' # {}
    <2>1. \A r \in Rows : r \in tx'[t].wrote => prodLock'[r[1]] = t
        BY <1>2, RowType DEF Own
    <2>2. ASSUME pc'[t] = "create" PROVE prodLock'[Line(t).p] = t /\ RowsOf(Line(t).p)' # {}
        <3>1. Line(t).p \in Products
            BY <2>2, LineType DEF KInv
        <3>2. RowsOf(Line(t).p) # {} /\ prodLock[Line(t).p] = t
            BY <1>2, <2>2 DEF Own
        <3>. QED BY <3>1, <3>2, <1>1, LineGrows
    <2>. QED BY <2>1, <2>2
<1>3. kind'[t] = "po" => pc'[t] # "create" /\ \A r \in Rows : tx'[t].mov[r] >= 0
    BY DEF Own
<1>4. pc'[t] \in {"peek", "give"} => req'[t].diff <= 0 /\ req'[t].status # "none"
    BY DEF Own
<1>5. (pc'[t] = "new" => kind'[t] = "none") /\ (Writing(t)' => kind'[t] # "none")
    BY DEF Own, Writing
<1>. QED BY <1>1, <1>2, <1>3, <1>4, <1>5 DEF Own

LEMMA CoveredKept ==
    ASSUME KInv, NEW t \in Sessions, Own(t), Covered(t),
           kind'[t] = kind[t], pc'[t] = pc[t], tx'[t] = tx[t],
           cart'[t] = cart[t], at'[t] = at[t],
           \A r \in Rows : ids[r] > 0 => ids'[r] > 0,
           stock' \in [Rows -> Int],
           \A r \in Rows : prodLock[r[1]] = t => stock'[r] >= stock[r]
    PROVE  Covered(t)'
<1>. SUFFICES ASSUME kind[t] = "web" PROVE Covered(t)'
    BY DEF Covered
<1>1. Line(t)' = Line(t)
    BY DEF Line
<1>2. ASSUME NEW r \in Rows, r \in tx'[t].wrote, Only(r)' PROVE tx'[t].val[r] >= 0
    BY <1>2, RowsGrow DEF Covered
<1>3. ASSUME pc'[t] = "create", NEW r \in RowsOf(Line(t).p)', Only(r)' PROVE Seen(t, r)' >= Line(t).n
    <2>1. /\ Line(t).p \in Products /\ Line(t).n \in Nat /\ RowsOf(Line(t).p) # {}
          /\ prodLock[Line(t).p] = t
        BY <1>3, LineType DEF KInv, Own
    <2>2. r \in RowsOf(Line(t).p) /\ Only(r)
        BY <1>3, <2>1, LineGrows
    <2>3. r \in Rows /\ r[1] = Line(t).p
        BY <2>2 DEF RowsOf
    <2>4. Seen(t, r) >= Line(t).n
        BY <1>3, <2>2 DEF Covered
    <2>5. CASE r \in tx[t].wrote
        BY <2>4, <2>5 DEF Seen
    <2>6. CASE r \notin tx[t].wrote
        <3>1. stock'[r] >= stock[r] /\ stock[r] \in Int /\ stock'[r] \in Int
            BY <2>1, <2>3 DEF KInv, TypeOK
        <3>. QED BY <2>1, <2>4, <2>6, <3>1 DEF Seen
    <2>. QED BY <2>5, <2>6
<1>. QED BY <1>1, <1>2, <1>3 DEF Covered

LEMMA Idle ==
    ASSUME KInv, NEW s \in Sessions, ~Writing(s)
    PROVE  \A r \in Rows : r \notin tx[s].wrote /\ tx[s].mov[r] = 0
<1>. QED BY InventoryAssumption DEF KInv, Pending, Holders

LEMMA IdleOwn ==
    ASSUME KInv, NEW s \in Sessions, ~Writing(s), tx'[s] = tx[s],
           pc'[s] \notin {"new", "create"}, Writing(s)' => kind'[s] # "none",
           pc'[s] \in {"peek", "give"} => req'[s].diff <= 0 /\ req'[s].status # "none"
    PROVE  Own(s)' /\ Covered(s)'
<1>1. \A r \in Rows : r \notin tx'[s].wrote /\ tx'[s].mov[r] = 0
    BY Idle
<1>2. Own(s)'
    BY <1>1 DEF Own
<1>3. Covered(s)'
    BY <1>1 DEF Covered
<1>. QED BY <1>2, <1>3

LEMMA EndedOwn ==
    ASSUME KInv, NEW s \in Sessions, Release(s)
    PROVE  Own(s)' /\ Covered(s)'
<1>1. pc'[s] = "done" /\ tx'[s] = NoWrites
    BY DEF KInv, TypeOK, Release, GoTo
<1>2. \A r \in Rows : r \notin tx'[s].wrote /\ tx'[s].mov[r] = 0
    BY <1>1, NoWritesFields
<1>3. Own(s)'
    BY <1>1, <1>2 DEF Own, Writing
<1>4. Covered(s)'
    BY <1>1, <1>2 DEF Covered
<1>. QED BY <1>3, <1>4

(***************************************************************************)
(* The session that moves keeps its own promises.                          *)
(***************************************************************************)
LEMMA OwnStep ==
    ASSUME WInv, NEW s \in Sessions, WriterStep(s) \/ OtherStep(s) \/ BreakDeadlock(s)
    PROVE  Own(s)' /\ (Clean' => Covered(s)')
<1>. USE DEF WInv, RInv, KInv, Checked, TypeOK, table, locks, baskets
<1>1. CASE Begin(s)
    <2>1. ~Writing(s) /\ tx'[s] = tx[s] /\ pc'[s] = "item" /\ (Writing(s)' => kind'[s] # "none")
        BY <1>1 DEF Begin, Writing, GoTo
    <2>. QED BY <2>1, IdleOwn
<1>2. CASE SellCheck(s)
    <2>1. /\ prodLock' = [prodLock EXCEPT ![Line(s).p] = s] /\ kind[s] = "web" /\ pc[s] = "item"
          /\ UNCHANGED <<kind, cart, at, tx, ids, stock>>
          /\ pc'[s] = IF \E r \in RowsOf(Line(s).p) : Seen(s, r) >= Line(s).n THEN "create" ELSE "commit"
        BY <1>2 DEF SellCheck, GoTo
    <2>2. Line(s).p \in Products /\ prodLock'[Line(s).p] = s
        BY <2>1, LineType
    <2>3. \A r \in Rows : r \in tx[s].wrote => prodLock'[r[1]] = s
        BY <2>1, RowType DEF Own
    <2>4. pc'[s] = "create" => \E r \in RowsOf(Line(s).p) : Seen(s, r) >= Line(s).n
        BY <2>1
    <2>5. /\ Line(s)' = Line(s) /\ \A p : RowsOf(p)' = RowsOf(p)
          /\ \A r : Seen(s, r)' = Seen(s, r) /\ Only(r)' = Only(r)
        BY <2>1 DEF Line, RowsOf, Seen, Only
    <2>6. Own(s)'
        BY <2>1, <2>2, <2>3, <2>4, <2>5 DEF Own, Writing
    <2>7. ASSUME Clean' PROVE Covered(s)'
        <3>1. Clean
            BY <1>2, <2>7 DEF SellCheck, Clean
        <3>2. \A r \in Rows : r \in tx[s].wrote /\ Only(r) => tx[s].val[r] >= 0
            BY <2>1, <3>1 DEF Covered
        <3>3. ASSUME pc'[s] = "create", NEW r \in RowsOf(Line(s).p), Only(r)
              PROVE  Seen(s, r) >= Line(s).n
            <4>1. PICK q \in RowsOf(Line(s).p) : Seen(s, q) >= Line(s).n
                BY <2>4, <3>3
            <4>2. r[1] = Line(s).p
                BY DEF RowsOf
            <4>3. q = r
                BY <3>3, <4>2 DEF Only
            <4>. QED BY <4>1, <4>3
        <3>. QED BY <2>1, <2>5, <3>2, <3>3 DEF Covered
    <2>. QED BY <2>6, <2>7
<1>3. CASE CallCheck(s)
    <2>1. pc'[s] = "create" /\ kind'[s] = "api"
        BY <1>3 DEF CallCheck, GoTo
    <2>. QED BY <2>1 DEF Own, Writing, Covered
<1>4. CASE CallRefused(s)
    BY <1>4, EndedOwn DEF CallRefused, Refused, RollBack
<1>5. CASE CreateItem(s)
    <2>1. PICK r \in Rows :
             /\ r[1] = Line(s).p /\ IsFirst(r, RowsOf(Line(s).p))
             /\ tx'[s].wrote = tx[s].wrote \cup {r}
             /\ tx'[s].val = [tx[s].val EXCEPT ![r] = Seen(s, r) - Line(s).n]
        BY <1>5, SaleFields
    <2>2. /\ pc[s] = "create" /\ pc'[s] \in {"item", "commit"} /\ kind[s] # "po"
          /\ UNCHANGED <<kind, prodLock, ids, ord, did>>
        BY <1>5 DEF CreateItem, GoTo, Own
    <2>3. Line(s).n \in Nat /\ r \in RowsOf(Line(s).p) /\ Seen(s, r) \in Int /\ tx[s].val \in [Rows -> Int]
        BY <2>1, <2>2, LineType, SeenType DEF IsFirst, Transactions
    <2>4. Own(s)'
        BY <2>1, <2>2 DEF Own, Writing
    <2>5. ASSUME Clean' PROVE Covered(s)'
        <3>1. Clean /\ \A q : Only(q)' = Only(q)
            BY <2>2, <2>5 DEF Clean, Only, RowsOf
        <3>2. ASSUME kind[s] = "web", NEW q \in Rows, q \in tx'[s].wrote, Only(q) PROVE tx'[s].val[q] >= 0
            <4>1. CASE q = r
                <5>1. Seen(s, r) >= Line(s).n
                    BY <2>2, <2>3, <3>1, <3>2, <4>1 DEF Covered
                <5>. QED BY <2>1, <2>3, <4>1, <5>1
            <4>2. CASE q # r
                BY <2>1, <2>3, <3>1, <3>2, <4>2 DEF Covered
            <4>. QED BY <4>1, <4>2
        <3>. QED BY <2>2, <3>1, <3>2 DEF Covered
    <2>. QED BY <2>4, <2>5
<1>6. CASE CommitOrder(s)
    BY <1>6, EndedOwn DEF CommitOrder, Refused, RollBack
<1>7. CASE ReceiveBegin(s)
    <2>1. ~Writing(s) /\ tx'[s] = tx[s] /\ pc'[s] = "item" /\ (Writing(s)' => kind'[s] # "none")
        BY <1>7 DEF ReceiveBegin, Writing, GoTo
    <2>. QED BY <2>1, IdleOwn
<1>8. CASE ReceiveItem(s)
    <2>1. PICK r \in Rows : tx'[s].mov = [tx[s].mov EXCEPT ![r] = @ + Line(s).n]
        BY <1>8, ReceiptFields
    <2>2. kind'[s] = "po" /\ kind[s] = "po" /\ pc'[s] \in {"item", "commit"} /\ pc[s] = "item"
        BY <1>8 DEF ReceiveItem, GoTo
    <2>3. Line(s).n \in Nat /\ tx[s].mov \in [Rows -> Int] /\ \A q \in Rows : tx[s].mov[q] >= 0
        BY <2>2, LineType DEF Transactions, Own
    <2>4. \A q \in Rows : tx'[s].mov[q] >= 0
        BY <2>1, <2>3
    <2>. QED BY <2>2, <2>4 DEF Own, Writing, Covered
<1>9. CASE ReceiveCommit(s)
    BY <1>9, EndedOwn DEF ReceiveCommit, Refused, RollBack
<1>10. CASE ReturnRead(s)
    <2>1. ~Writing(s) /\ tx'[s] = tx[s]
        BY <1>10 DEF ReturnRead, Writing
    <2>2. pc'[s] \in {"done", "return"}
        BY <1>10, ReturnReadFields
    <2>. QED BY <2>1, <2>2, IdleOwn DEF Writing
<1>11. CASE ReturnSave(s)
    <2>1. ~Writing(s) /\ tx'[s] = tx[s] /\ pc'[s] = "done" /\ (Writing(s)' => kind'[s] # "none")
        BY <1>11 DEF ReturnSave, Writing, GoTo
    <2>. QED BY <2>1, IdleOwn
<1>12. CASE EditRead(s)
    <2>1. ~Writing(s) /\ tx'[s] = tx[s]
        BY <1>12 DEF EditRead, Writing
    <2>2. PICK new \in Asked :
              /\ req' = [req EXCEPT ![s] = new]
              /\ new.diff = new.n - ord[new.o].item[new.p] /\ new.status # "none"
              /\ pc' = [pc EXCEPT ![s] = IF new.n > ord[new.o].item[new.p] THEN "take"
                                          ELSE IF new.n < ord[new.o].item[new.p] THEN "peek" ELSE "save"]
        BY <1>12, EditReadFields
    <2>3. new.n \in Nat /\ ord[new.o].item[new.p] \in Nat
        BY OrderType DEF Asked
    <2>4. /\ req'[s] = new /\ pc'[s] \in {"take", "peek", "save"}
          /\ pc'[s] = "peek" => new.n < ord[new.o].item[new.p]
        BY <2>2
    <2>5. pc'[s] = "peek" => new.diff <= 0
        BY <2>2, <2>3, <2>4
    <2>. QED BY <2>1, <2>2, <2>4, <2>5, IdleOwn DEF Writing
<1>13. CASE EditTake(s)
    <2>1. ~Writing(s) /\ tx'[s] = tx[s] /\ pc'[s] = "done" /\ (Writing(s)' => kind'[s] # "none")
        BY <1>13 DEF EditTake, Writing, GoTo
    <2>. QED BY <2>1, IdleOwn
<1>14. CASE EditSame(s)
    <2>1. ~Writing(s) /\ tx'[s] = tx[s] /\ pc'[s] = "done" /\ (Writing(s)' => kind'[s] # "none")
        BY <1>14 DEF EditSame, Writing, GoTo
    <2>. QED BY <2>1, IdleOwn
<1>15. CASE DeleteRead(s)
    <2>1. ~Writing(s) /\ tx'[s] = tx[s]
        BY <1>15 DEF DeleteRead, Writing
    <2>2. PICK new \in Asked : req' = [req EXCEPT ![s] = new] /\ new.diff <= 0 /\ new.status # "none"
        BY <1>15, DeleteReadFields
    <2>3. pc'[s] = "peek" /\ req'[s] = new
        BY <1>15, <2>2, DeleteReadFields
    <2>. QED BY <2>1, <2>2, <2>3, IdleOwn DEF Writing
<1>16. CASE Peek(s)
    <2>1. ~Writing(s) /\ tx'[s] = tx[s] /\ pc[s] = "peek"
        BY <1>16 DEF Peek, Writing
    <2>2. PICK new \in Asked : /\ req' = [req EXCEPT ![s] = new]
                               /\ new.diff = req[s].diff /\ new.status = req[s].status
        BY <1>16, PeekFields
    <2>3. pc'[s] = "give" /\ req'[s] = new
        BY <1>16, <2>2, PeekFields
    <2>4. req[s].diff <= 0 /\ req[s].status # "none"
        BY <2>1 DEF Own
    <2>. QED BY <2>1, <2>2, <2>3, <2>4, IdleOwn DEF Writing
<1>17. CASE GiveBack(s)
    <2>1. ~Writing(s) /\ tx'[s] = tx[s] /\ pc'[s] = "done" /\ (Writing(s)' => kind'[s] # "none")
        BY <1>17 DEF GiveBack, Writing, GoTo
    <2>. QED BY <2>1, IdleOwn
<1>18. CASE CancelRead(s)
    <2>1. ~Writing(s) /\ tx'[s] = tx[s]
        BY <1>18 DEF CancelRead, Writing
    <2>2. pc'[s] = "restore"
        BY <1>18, CancelReadFields
    <2>. QED BY <2>1, <2>2, IdleOwn DEF Writing
<1>19. CASE RestoreRead(s)
    <2>1. ~Writing(s) /\ tx'[s] = tx[s]
        BY <1>19 DEF RestoreRead, Writing
    <2>2. pc'[s] = "restoring"
        BY <1>19, RestoreReadFields
    <2>. QED BY <2>1, <2>2, IdleOwn DEF Writing
<1>20. CASE RestoreSave(s)
    <2>1. ~Writing(s) /\ tx'[s] = tx[s] /\ pc'[s] = "restore" /\ (Writing(s)' => kind'[s] # "none")
        BY <1>20 DEF RestoreSave, Writing, GoTo
    <2>. QED BY <2>1, IdleOwn
<1>21. CASE CancelSave(s)
    <2>1. ~Writing(s) /\ tx'[s] = tx[s] /\ pc'[s] = "done" /\ (Writing(s)' => kind'[s] # "none")
        BY <1>21 DEF CancelSave, Writing, GoTo
    <2>. QED BY <2>1, IdleOwn
<1>22. CASE BreakDeadlock(s)
    BY <1>22, EndedOwn DEF BreakDeadlock, Refused, RollBack
<1>22a. CASE SwallowDeadlock(s)
    <2>1. /\ tx'[s].wrote = tx[s].wrote /\ tx'[s].val = tx[s].val /\ pc'[s] = "commit" /\ kind[s] = "web"
          /\ UNCHANGED <<kind, prodLock, ids, ord, did>>
        BY <1>22a, SwallowFields DEF SwallowDeadlock, InSavepoint, GoTo
    <2>2. Own(s)'
        BY <2>1 DEF Own, Writing
    <2>3. ASSUME Clean' PROVE Covered(s)'
        <3>1. Clean /\ \A q : Only(q)' = Only(q)
            BY <2>1, <2>3 DEF Clean, Only, RowsOf
        <3>. QED BY <2>1, <3>1 DEF Covered
    <2>. QED BY <2>2, <2>3
<1>. QED BY <1>1, <1>2, <1>3, <1>4, <1>5, <1>6, <1>7, <1>8, <1>9, <1>10, <1>11, <1>12,
           <1>13, <1>14, <1>15, <1>16, <1>17, <1>18, <1>19, <1>20, <1>21, <1>22, <1>22a DEF WriterStep, OtherStep

(***************************************************************************)
(* Outside the exceptions, only the order form takes units.                *)
(***************************************************************************)
LEMMA CleanStep ==
    ASSUME WInv, NEW s \in Sessions, WriterStep(s) \/ OtherStep(s) \/ BreakDeadlock(s)
    PROVE  Clean' => /\ Clean
                      /\ \/ CommitOrder(s) /\ kind[s] = "web"
                         \/ \A r \in Rows : stock'[r] >= stock[r]
<1>. USE DEF WInv, RInv, KInv, Checked, table, locks, baskets
<1>1. CASE Begin(s)
    <2>1. UNCHANGED <<stock, ord, did>> /\ pc[s] = "new" /\ \A t \in Sessions \ {s} : kind'[t] = kind[t]
        BY <1>1 DEF Begin, TypeOK
    <2>2. kind[s] = "none" /\ \A r \in Rows : stock[r] \in Int
        BY <2>1 DEF TypeOK, Own
    <2>. QED BY <2>1, <2>2 DEF Clean
<1>2. CASE SellCheck(s)
    <2>1. UNCHANGED <<stock, ord, did, kind>>
        BY <1>2 DEF SellCheck
    <2>2. \A r \in Rows : stock[r] \in Int
        BY DEF TypeOK
    <2>. QED BY <2>1, <2>2 DEF Clean
<1>3. CASE CallCheck(s)
    <2>1. UNCHANGED <<stock, ord, did, kind>>
        BY <1>3 DEF CallCheck
    <2>2. \A r \in Rows : stock[r] \in Int
        BY DEF TypeOK
    <2>. QED BY <2>1, <2>2 DEF Clean
<1>4. CASE CallRefused(s)
    <2>1. UNCHANGED <<stock, ord, did, kind>>
        BY <1>4 DEF CallRefused, Refused, RollBack
    <2>2. \A r \in Rows : stock[r] \in Int
        BY DEF TypeOK
    <2>. QED BY <2>1, <2>2 DEF Clean
<1>5. CASE CreateItem(s)
    <2>1. UNCHANGED <<stock, ord, did, kind>>
        BY <1>5 DEF CreateItem
    <2>2. \A r \in Rows : stock[r] \in Int
        BY DEF TypeOK
    <2>. QED BY <2>1, <2>2 DEF Clean
<1>6. CASE CommitOrder(s)
    <2>1. UNCHANGED <<did, kind>>
        BY <1>6 DEF CommitOrder
    <2>2. \A t \in Sessions \ {s} : ord'[t] = ord[t]
        BY <1>6, CommitType
    <2>3. ord'[s].status # "none"
        BY <1>6 DEF CommitOrder, TypeOK
    <2>4. ord'[s] # NoOrder
        BY <2>3 DEF NoOrder
    <2>5. kind[s] # "po" /\ kind[s] \in {"none", "web", "api", "po"}
        BY <1>6 DEF CommitOrder, TypeOK
    <2>6. kind[s] # "none"
        BY <1>6 DEF Own, Writing, CommitOrder
    <2>. QED BY <1>6, <2>1, <2>2, <2>4, <2>5, <2>6 DEF Clean
<1>7. CASE ReceiveBegin(s)
    <2>1. UNCHANGED <<stock, ord, did>> /\ pc[s] = "new" /\ \A t \in Sessions \ {s} : kind'[t] = kind[t]
        BY <1>7 DEF ReceiveBegin, TypeOK
    <2>2. kind[s] = "none" /\ \A r \in Rows : stock[r] \in Int
        BY <2>1 DEF TypeOK, Own
    <2>. QED BY <2>1, <2>2 DEF Clean
<1>8. CASE ReceiveItem(s)
    <2>1. UNCHANGED <<stock, ord, did, kind>>
        BY <1>8 DEF ReceiveItem
    <2>2. \A r \in Rows : stock[r] \in Int
        BY DEF TypeOK
    <2>. QED BY <2>1, <2>2 DEF Clean
<1>9. CASE ReceiveCommit(s)
    <2>1. UNCHANGED <<ord, did, kind>> /\ kind[s] = "po"
        BY <1>9 DEF ReceiveCommit
    <2>2. \A r \in Rows : stock'[r] = stock[r] + tx[s].mov[r]
        BY <1>9, CommitFields DEF ReceiveCommit
    <2>3. \A r \in Rows : stock[r] \in Int /\ tx[s].mov[r] \in Int /\ tx[s].mov[r] >= 0
        BY <2>1 DEF TypeOK, Transactions, Own
    <2>4. \A r \in Rows : stock'[r] >= stock[r]
        BY <2>2, <2>3
    <2>. QED BY <2>1, <2>4 DEF Clean
<1>10. CASE ReturnRead(s)
    <2>1. UNCHANGED <<stock, ord, kind>> /\ did \subseteq did'
        BY <1>10, ReturnReadFields DEF ReturnRead
    <2>2. \A r \in Rows : stock[r] \in Int
        BY DEF TypeOK
    <2>. QED BY <2>1, <2>2 DEF Clean
<1>11. CASE ReturnSave(s)
    <2>1. UNCHANGED <<ord, did, kind>> /\ req[s].n \in Nat /\ stock \in [Rows -> Int]
        BY <1>11 DEF ReturnSave, TypeOK, Asked
    <2>2. PICK r \in RowsOf(req[s].p) : stock' = [stock EXCEPT ![r] = @ + req[s].n]
        BY <1>11, ReturnSaveFields
    <2>3. \A q \in Rows : stock'[q] >= stock[q]
        BY <2>1, <2>2
    <2>. QED BY <2>1, <2>3 DEF Clean
<1>12. CASE EditRead(s)
    <2>1. UNCHANGED <<stock, ord, did, kind>>
        BY <1>12 DEF EditRead
    <2>2. \A r \in Rows : stock[r] \in Int
        BY DEF TypeOK
    <2>. QED BY <2>1, <2>2 DEF Clean
<1>13. CASE EditTake(s)
    <2>1. UNCHANGED kind /\ \A r \in Rows : stock[r] \in Int
        BY <1>13 DEF EditTake, TypeOK
    <2>2. UNCHANGED <<stock, ord, did>> \/ did' = did \cup {"take"}
        BY <1>13, TakeType
    <2>. QED BY <2>1, <2>2 DEF Clean
<1>14. CASE EditSame(s)
    <2>1. UNCHANGED kind /\ \A r \in Rows : stock[r] \in Int
        BY <1>14 DEF EditSame, TypeOK
    <2>2. UNCHANGED <<stock, ord, did>> \/ did' = did \cup {"take"}
        BY <1>14, TakeType
    <2>. QED BY <2>1, <2>2 DEF Clean
<1>15. CASE DeleteRead(s)
    <2>1. UNCHANGED <<stock, ord, did, kind>>
        BY <1>15 DEF DeleteRead
    <2>2. \A r \in Rows : stock[r] \in Int
        BY DEF TypeOK
    <2>. QED BY <2>1, <2>2 DEF Clean
<1>16. CASE Peek(s)
    <2>1. UNCHANGED <<stock, ord, did, kind>>
        BY <1>16 DEF Peek
    <2>2. \A r \in Rows : stock[r] \in Int
        BY DEF TypeOK
    <2>. QED BY <2>1, <2>2 DEF Clean
<1>17. CASE GiveBack(s)
    <2>1. /\ UNCHANGED kind /\ SaveStock(s, req[s].row, req[s].seen, req[s].diff) /\ SaveItem(s)
          /\ did' = did \cup Gave(s, "give") \cup (IF \E r \in Rows : Resold(s, r) > 0 THEN {"take"} ELSE {})
        BY <1>17 DEF GiveBack
    <2>2. /\ req[s].diff \in Int /\ req[s].seen \in Int /\ req[s].row \in Rows
        BY <1>17, GiveBackType
    <2>3. req[s].diff <= 0 /\ req[s].status # "none"
        BY <1>17 DEF GiveBack, Own
    <2>4. \A q \in Rows : /\ stock'[q] = (IF q = req[s].row THEN req[s].seen - req[s].diff ELSE stock[q]) - Resold(s, q)
                          /\ Resold(s, q) \in Nat
        BY <2>1, <2>2, SaveStockFields
    <2>5. req[s].o \in Sessions /\ \A r \in Rows : stock[r] \in Int
        BY DEF TypeOK, Asked
    <2>6. ord'[req[s].o].status = req[s].status /\ \A t \in Sessions \ {req[s].o} : ord'[t] = ord[t]
        BY <2>1, <2>5 DEF TypeOK, SaveItem
    <2>7. ord'[req[s].o] # NoOrder
        BY <2>3, <2>6 DEF NoOrder
    <2>8. Clean' => Clean
        BY <2>1, <2>6, <2>7 DEF Clean
    <2>9. ASSUME Clean', NEW q \in Rows PROVE stock'[q] >= stock[q]
        <3>1. stock[req[s].row] = req[s].seen /\ ~(Resold(s, q) > 0)
            BY <2>1, <2>9 DEF Clean, Gave
        <3>2. Resold(s, q) = 0
            BY <2>4, <3>1
        <3>. QED BY <2>2, <2>3, <2>4, <2>5, <3>1, <3>2
    <2>. QED BY <2>8, <2>9
<1>18. CASE CancelRead(s)
    <2>1. UNCHANGED <<stock, ord, did, kind>>
        BY <1>18 DEF CancelRead
    <2>2. \A r \in Rows : stock[r] \in Int
        BY DEF TypeOK
    <2>. QED BY <2>1, <2>2 DEF Clean
<1>19. CASE RestoreRead(s)
    <2>1. UNCHANGED <<stock, ord, did, kind>>
        BY <1>19 DEF RestoreRead
    <2>2. \A r \in Rows : stock[r] \in Int
        BY DEF TypeOK
    <2>. QED BY <2>1, <2>2 DEF Clean
<1>20. CASE RestoreSave(s)
    <2>1. UNCHANGED <<ord, kind>> /\ stock \in [Rows -> Int] /\ did \subseteq did'
        BY <1>20 DEF RestoreSave, TypeOK
    <2>2. /\ stock' = [stock EXCEPT ![req[s].row] = req[s].seen + req[s].item[req[s].row[1]]]
          /\ req[s].seen \in Int /\ req[s].item[req[s].row[1]] \in Nat /\ req[s].row \in Rows
          /\ did' = did \cup Gave(s, "restore")
        BY <1>20, RestoreSaveType
    <2>3. Clean' => stock[req[s].row] = req[s].seen
        BY <2>2 DEF Clean, Gave
    <2>4. Clean' => \A q \in Rows : stock'[q] >= stock[q]
        BY <2>1, <2>2, <2>3
    <2>. QED BY <2>1, <2>4 DEF Clean
<1>21. CASE CancelSave(s)
    <2>1. UNCHANGED <<stock, did, kind>> /\ ord' = [ord EXCEPT ![req[s].o] = [@ EXCEPT !.status = "CANCELLED"]]
        BY <1>21 DEF CancelSave
    <2>2. /\ req[s].o \in Sessions /\ ord[req[s].o] \in OrderRows
          /\ \A r \in Rows : stock[r] \in Int
        BY DEF TypeOK, Asked
    <2>3. ord'[req[s].o].status = "CANCELLED" /\ \A t \in Sessions \ {req[s].o} : ord'[t] = ord[t]
        BY <2>1, <2>2 DEF TypeOK, OrderRows
    <2>4. ord'[req[s].o] # NoOrder
        BY <2>3 DEF NoOrder
    <2>. QED BY <2>1, <2>2, <2>3, <2>4 DEF Clean
<1>22. CASE BreakDeadlock(s)
    <2>1. UNCHANGED <<stock, ord, did, kind>>
        BY <1>22 DEF BreakDeadlock, RollBack
    <2>2. \A r \in Rows : stock[r] \in Int
        BY DEF TypeOK
    <2>. QED BY <2>1, <2>2 DEF Clean
<1>22a. CASE SwallowDeadlock(s)
    <2>1. UNCHANGED <<stock, ord, did, kind>>
        BY <1>22a DEF SwallowDeadlock
    <2>2. \A r \in Rows : stock[r] \in Int
        BY DEF TypeOK
    <2>. QED BY <2>1, <2>2 DEF Clean
<1>. QED BY <1>1, <1>2, <1>3, <1>4, <1>5, <1>6, <1>7, <1>8, <1>9, <1>10, <1>11, <1>12,
           <1>13, <1>14, <1>15, <1>16, <1>17, <1>18, <1>19, <1>20, <1>21, <1>22, <1>22a DEF WriterStep, OtherStep

(***************************************************************************)
(* The order form never oversells the only row of a product.               *)
(***************************************************************************)
LEMMA SessionChecked ==
    ASSUME WInv, NEW s \in Sessions, WriterStep(s) \/ OtherStep(s) \/ BreakDeadlock(s), TypeOK'
    PROVE  Checked' /\ WebNeverOversells'
<1>1. KInv /\ Untouched(s)
    BY UntouchedStep DEF WInv, RInv
<1>2. \A t \in Sessions : Own(t)
    BY DEF WInv, Checked
<1>3. ASSUME NEW t \in Sessions PROVE Own(t)'
    <2>1. CASE t = s
        BY <2>1, OwnStep
    <2>2. CASE t # s
        BY <1>1, <1>2, <2>2, OwnKept DEF Untouched
    <2>. QED BY <2>1, <2>2
<1>4. ASSUME Clean', NEW r \in Rows, Only(r)', stock'[r] < 0 PROVE FALSE
    <2>1. Clean /\ Only(r)
        BY <1>1, <1>4, CleanStep, RowsGrow DEF Untouched
    <2>2. stock[r] \in Int /\ stock'[r] \in Int
        BY DEF WInv, RInv, KInv, TypeOK
    <2>3. stock[r] >= 0
        BY <2>1, <2>2 DEF WInv, WebNeverOversells, Clean, Only
    <2>4. CASE \A q \in Rows : stock'[q] >= stock[q]
        BY <1>4, <2>2, <2>3, <2>4
    <2>5. CASE CommitOrder(s) /\ kind[s] = "web"
        <3>1. stock'[r] = IF r \in tx[s].wrote THEN tx[s].val[r] ELSE stock[r]
            BY <2>5 DEF CommitOrder, Publish
        <3>2. Covered(s)
            BY <2>1 DEF WInv, Checked
        <3>. QED BY <1>4, <2>1, <2>2, <2>3, <2>5, <3>1, <3>2 DEF Covered
    <2>. QED BY <1>4, <2>4, <2>5, CleanStep
<1>5. ASSUME Clean', NEW t \in Sessions PROVE Covered(t)'
    <2>1. CASE t = s
        BY <1>5, <2>1, OwnStep
    <2>2. CASE t # s
        <3>1. Clean /\ Covered(t) /\ Own(t)
            BY <1>5, CleanStep DEF WInv, Checked
        <3>2. ASSUME NEW r \in Rows, prodLock[r[1]] = t PROVE stock'[r] >= stock[r]
            <4>1. CASE CommitOrder(s) /\ kind[s] = "web"
                <5>1. stock'[r] = IF r \in tx[s].wrote THEN tx[s].val[r] ELSE stock[r]
                    BY <4>1 DEF CommitOrder, Publish
                <5>2. r \notin tx[s].wrote
                    BY <1>2, <2>2, <3>2, <4>1 DEF Own
                <5>3. stock[r] \in Int
                    BY DEF WInv, RInv, KInv, TypeOK
                <5>. QED BY <5>1, <5>2, <5>3
            <4>. QED BY <1>5, <4>1, CleanStep
        <3>3. stock' \in [Rows -> Int]
            BY DEF TypeOK
        <3>. QED BY <1>1, <2>2, <3>1, <3>2, <3>3, CoveredKept DEF Untouched
    <2>. QED BY <2>1, <2>2
<1>6. WebNeverOversells'
    BY <1>4 DEF WebNeverOversells, Clean, Only
<1>. QED BY <1>3, <1>5, <1>6 DEF Checked

(* A session that nothing of concerns keeps what it owns and checked.        *)
LEMMA QuietSession ==
    ASSUME NEW t \in Sessions,
           UNCHANGED <<stock, ids, prodLock, pc, kind, cart, at, tx, req>>
    PROVE  (Own(t) => Own(t)') /\ (Covered(t) => Covered(t)')
<1>1. Line(t)' = Line(t) /\ Writing(t)' = Writing(t)
    BY DEF Line, Writing
<1>2. RowsOf(Line(t).p)' = RowsOf(Line(t).p)
    BY <1>1 DEF RowsOf
<1>3. \A r \in Rows : Only(r)' = Only(r)
    BY DEF Only, RowsOf
<1>4. \A r \in Rows : Seen(t, r)' = Seen(t, r)
    BY DEF Seen
<1>5. RowsOf(Line(t).p) \subseteq Rows
    BY DEF RowsOf
<1>6. Own(t) => Own(t)'
    BY <1>1, <1>2 DEF Own
<1>7. Covered(t) => Covered(t)'
    BY <1>1, <1>2, <1>3, <1>4, <1>5 DEF Covered
<1>. QED BY <1>6, <1>7

LEMMA AdvanceChecked ==
    ASSUME WInv, NEW o \in Sessions, Advance(o)
    PROVE  Checked' /\ WebNeverOversells'
<1>1. /\ UNCHANGED <<stock, ids, prodLock, pc, kind, cart, house, at, tx, req, did>>
      /\ \A t \in Sessions \ {o} : ord'[t] = ord[t]
      /\ ord[o].status # "none"
    BY DEF Advance, table, locks, baskets, WInv, RInv, KInv, TypeOK
<1>2. ord[o] # NoOrder
    BY <1>1 DEF NoOrder
<1>3. ord'[o].status # "none"
    BY DEF Advance, WInv, RInv, KInv, TypeOK, OrderRows
<1>4. ord'[o] # NoOrder
    BY <1>3 DEF NoOrder
<1>5. Clean' => Clean
    BY <1>1, <1>4 DEF Clean
<1>6. \A t \in Sessions : (Own(t) => Own(t)') /\ (Covered(t) => Covered(t)')
    BY <1>1, QuietSession
<1>7. Checked'
    BY <1>5, <1>6 DEF WInv, Checked
<1>8. WebNeverOversells'
    BY <1>1, <1>5 DEF WInv, WebNeverOversells, Clean, RowsOf
<1>. QED BY <1>7, <1>8

LEMMA CheckedStep == WInv /\ [Next]_vars => Checked' /\ WebNeverOversells'
<1>. SUFFICES ASSUME WInv, [Next]_vars PROVE Checked' /\ WebNeverOversells'
    OBVIOUS
<1>1. TypeOK'
    BY TypeStep DEF WInv, RInv
<1>2. ASSUME NEW s \in Sessions, WriterStep(s) \/ OtherStep(s) \/ BreakDeadlock(s)
      PROVE  Checked' /\ WebNeverOversells'
    BY <1>1, <1>2, SessionChecked
<1>3. ASSUME NEW s \in Sessions, Advance(s) PROVE Checked' /\ WebNeverOversells'
    BY <1>3, AdvanceChecked
<1>4. CASE UNCHANGED vars
    <2>1. UNCHANGED <<stock, ids, prodLock, pc, kind, cart, house, at, tx, req, did, ord>>
        BY <1>4 DEF vars, table, locks, baskets
    <2>2. \A t \in Sessions : (Own(t) => Own(t)') /\ (Covered(t) => Covered(t)')
        BY <2>1, QuietSession
    <2>3. Clean' = Clean
        BY <2>1 DEF Clean
    <2>4. WebNeverOversells'
        BY <2>1 DEF WInv, WebNeverOversells, RowsOf
    <2>. QED BY <2>2, <2>3, <2>4 DEF WInv, Checked
<1>. QED BY <1>2, <1>3, <1>4 DEF Next, Quiet

(***************************************************************************)
(* The initial states.                                                     *)
(***************************************************************************)
LEMMA InitType == Init => TypeOK
<1>. SUFFICES ASSUME Init PROVE TypeOK
    OBVIOUS
<1>1. Cardinality(Rows) \in Nat
    BY InventoryAssumption, FS_CardinalityType
<1>2. stock \in [Rows -> Int] /\ ids \in [Rows -> Nat] /\ moves \in [Rows -> Int] /\ nextId \in Nat
    BY <1>1, InventoryAssumption DEF Init
<1>3. ord \in [Sessions -> OrderRows] /\ returned \in [Sessions -> [Products -> Nat]]
    BY DEF Init, OrderRows, NoOrder, Statuses
<1>4. tx \in [Sessions -> Transactions]
    BY NoWritesType DEF Init
<1>5. PICK r \in Rows : TRUE
    BY InventoryAssumption
<1>6. r[1] \in Products /\ r[2] \in Warehouses
    BY RowType
<1>7. /\ (CHOOSE o \in Sessions : TRUE) \in Sessions /\ (CHOOSE p \in Products : TRUE) \in Products
      /\ (CHOOSE q \in Rows : TRUE) \in Rows /\ (CHOOSE w \in Warehouses : TRUE) \in Warehouses
    BY <1>6, InventoryAssumption
<1>8. NothingAsked \in Asked
    BY <1>7 DEF NothingAsked, Asked, Statuses
<1>9. req \in [Sessions -> Asked] /\ house \in [Sessions -> Warehouses]
    BY <1>7, <1>8 DEF Init
<1>10. cart \in [Sessions -> Seq(Lines)] /\ at \in [Sessions -> Nat \ {0}]
    BY DEF Init
<1>. QED BY <1>2, <1>3, <1>4, <1>9, <1>10 DEF Init, TypeOK, Events

LEMMA InitInv == Init => WInv
<1>. SUFFICES ASSUME Init PROVE WInv
    OBVIOUS
<1>1. TypeOK
    BY InitType
<1>2. AtLine /\ Holders
    BY DEF Init, AtLine, Holders, Writing
<1>3. Pending
    BY NoWritesFields DEF Init, Pending
<1>4. \A r \in Rows : Base[r] \in Nat
    BY InventoryAssumption
<1>5. KardexExact
    BY <1>4 DEF Init, KardexExact
<1>6. Settled
    BY DEF Init, Settled, Working, NoOrder
<1>7. Fits /\ SerialReturnsWithinSale
    BY DEF Init, Fits, SerialReturnsWithinSale, NoOrder
<1>8. Checked
    BY NoWritesFields DEF Init, Checked, Own, Writing, Covered
<1>9. WebNeverOversells
    BY <1>4 DEF Init, WebNeverOversells
<1>. QED BY <1>1, <1>2, <1>3, <1>5, <1>6, <1>7, <1>8, <1>9 DEF WInv, RInv, KInv

LEMMA Inductive == WInv /\ [Next]_vars => WInv'
<1>. SUFFICES ASSUME WInv, [Next]_vars PROVE WInv'
    OBVIOUS
<1>1. RInv /\ KInv
    BY DEF WInv, RInv
<1>2. KInv'
    BY <1>1, TypeStep, AtLineStep, HoldersStep, PendingStep, KardexStep DEF KInv
<1>3. RInv'
    BY <1>1, <1>2, SettledStep, FitsStep DEF RInv
<1>. QED BY <1>3, CheckedStep DEF WInv

\* In every reachable state the invariant holds.
THEOREM InventoryInvariant == Spec => []WInv
<1>. QED BY InitInv, Inductive, PTL DEF Spec

\* TypeOK for any requests, carts, warehouses and quantities.
THEOREM TypeCorrect == Spec => []TypeOK
<1>1. WInv => TypeOK
    BY DEF WInv, RInv, KInv
<1>. QED BY <1>1, InventoryInvariant, PTL

\* Until a cancellation or a late write, every Stock row is what it started
\* with plus its movements, whatever requests overlap.
THEOREM KardexIsExact == Spec => []KardexExact
<1>1. WInv => KardexExact
    BY DEF WInv, RInv, KInv
<1>. QED BY <1>1, InventoryInvariant, PTL

\* Returns that do not overlap never exceed the item.
THEOREM ReturnsFit == Spec => []SerialReturnsWithinSale
<1>1. WInv => SerialReturnsWithinSale
    BY DEF WInv, RInv
<1>. QED BY <1>1, InventoryInvariant, PTL

\* The order form alone never oversells a product kept in one warehouse.
THEOREM FormNeverOversells == Spec => []WebNeverOversells
<1>1. WInv => WebNeverOversells
    BY DEF WInv
<1>. QED BY <1>1, InventoryInvariant, PTL

(***************************************************************************)
(* What an order commits. The lines taken so far are those before at, so a *)
(* commit after the last line has them all; and an order appears by its    *)
(* commit alone, because the item views and the cancellation, which save   *)
(* the whole row they read, read one that was there.                       *)
(***************************************************************************)
Amounts(c) == [i \in DOMAIN c |-> c[i].n]

LinesUpTo(c, p, k) == {i \in DOMAIN c : i <= k /\ c[i].p = p}

UpTo(c, k) == [p \in Products |-> SumFunctionOnSet(Amounts(c), LinesUpTo(c, p, k))]

(* An open order has the lines before the one it is at.                     *)
Gathered(s) ==
    /\ pc[s] = "new" => \A p \in Products : tx[s].item[p] = 0
    /\ Writing(s) /\ kind[s] # "po" => \A p \in Products : tx[s].item[p] = UpTo(cart[s], at[s] - 1)[p]
    /\ Writing(s) => at[s] - 1 <= Len(cart[s])
    /\ pc[s] = "commit" /\ kind[s] = "api" => at[s] = Len(cart[s]) + 1

(* Views that save an order have read one.                                  *)
Placed(e) ==
    /\ pc[e] \in {"take", "peek", "save", "give", "restore", "restoring"} => ord[req[e].o].status # "none"
    /\ pc[e] \in {"take", "peek", "save", "give"} => req[e].status # "none"

Ordered == \A s \in Sessions : Gathered(s) /\ Placed(s)

(***************************************************************************)
(* Sums over the lines of a cart.                                          *)
(***************************************************************************)
LEMMA AmountsAdd ==
    ASSUME NEW c \in Seq(Lines), NEW p, NEW k
    PROVE  Integral(Amounts(c), LinesUpTo(c, p, k))
<1>1. DOMAIN c = 1..Len(c) /\ Len(c) \in Nat
    OBVIOUS
<1>2. IsFiniteSet(1..Len(c))
    BY <1>1, FS_Interval
<1>3. LinesUpTo(c, p, k) \subseteq DOMAIN c /\ IsFiniteSet(LinesUpTo(c, p, k))
    BY <1>1, <1>2, FS_Subset DEF LinesUpTo
<1>4. \A i \in DOMAIN c : c[i] \in Lines
    OBVIOUS
<1>5. \A l \in Lines : l.n \in Int
    BY InventoryAssumption DEF Lines
<1>6. \A i \in DOMAIN c : Amounts(c)[i] \in Int
    BY <1>4, <1>5 DEF Amounts
<1>. QED BY <1>3, <1>6 DEF Integral

LEMMA NoLinesYet ==
    ASSUME NEW c \in Seq(Lines), NEW p \in Products PROVE UpTo(c, 0)[p] = 0
<1>1. LinesUpTo(c, p, 0) = {}
    BY DEF LinesUpTo
<1>2. UpTo(c, 0)[p] = SumFunctionOnSet(Amounts(c), {})
    BY <1>1 DEF UpTo
<1>. QED BY <1>2, SumEmpty

LEMMA NextLine ==
    ASSUME NEW c \in Seq(Lines), NEW k \in 1..Len(c), NEW p \in Products
    PROVE  UpTo(c, k)[p] = UpTo(c, k - 1)[p] + (IF p = c[k].p THEN c[k].n ELSE 0)
<1> DEFINE before == LinesUpTo(c, p, k - 1)
<1>1. DOMAIN c = 1..Len(c) /\ k \in Nat /\ Len(c) \in Nat
    OBVIOUS
<1>2. /\ k \notin before /\ Amounts(c)[k] = c[k].n
      /\ LinesUpTo(c, p, k) = IF p = c[k].p THEN before \cup {k} ELSE before
    BY <1>1 DEF LinesUpTo, Amounts
<1>3. /\ UpTo(c, k)[p] = SumFunctionOnSet(Amounts(c), LinesUpTo(c, p, k))
      /\ UpTo(c, k - 1)[p] = SumFunctionOnSet(Amounts(c), before)
    BY DEF UpTo
<1>4. Integral(Amounts(c), before) /\ Integral(Amounts(c), LinesUpTo(c, p, k))
    BY AmountsAdd
<1>5. SumFunctionOnSet(Amounts(c), before) \in Int
    BY <1>4, SumType
<1>6. c[k] \in Lines
    BY <1>1
<1>7. c[k].n \in Int
    BY <1>6, InventoryAssumption DEF Lines
<1>8. CASE p = c[k].p
    <2>1. LinesUpTo(c, p, k) = before \cup {k}
        BY <1>2, <1>8
    <2>2. SumFunctionOnSet(Amounts(c), before \cup {k}) = Amounts(c)[k] + SumFunctionOnSet(Amounts(c), before)
        BY <1>2, <1>4, <2>1, SumAdd
    <2> HIDE DEF before
    <2>. QED BY <1>2, <1>3, <1>5, <1>7, <1>8, <2>1, <2>2
<1>9. CASE p # c[k].p
    <2> HIDE DEF before
    <2>. QED BY <1>2, <1>3, <1>5, <1>9
<1>. QED BY <1>8, <1>9

LEMMA AllLines == ASSUME TypeOK, NEW s \in Sessions PROVE UpTo(cart[s], Len(cart[s])) = Wanted(s)
<1>1. cart[s] \in Seq(Lines)
    BY DEF TypeOK
<1>2. \A p \in Products : LinesUpTo(cart[s], p, Len(cart[s])) = {i \in DOMAIN cart[s] : cart[s][i].p = p}
    BY <1>1 DEF LinesUpTo
<1>. QED BY <1>2 DEF UpTo, Wanted, Amounts

(***************************************************************************)
(* Orders appear by their commit and never disappear.                      *)
(***************************************************************************)
LEMMA SavesPlaced ==
    ASSUME TypeOK, NEW e \in Sessions, SaveItem(e), Placed(e), pc[e] \in {"take", "save", "give"}
    PROVE  \A o \in Sessions : ord[o].status # "none" <=> ord'[o].status # "none"
<1>1. req[e].o \in Sessions /\ ord \in [Sessions -> OrderRows]
    BY DEF TypeOK, Asked
<1>2. ord[req[e].o].status # "none" /\ req[e].status # "none"
    BY DEF Placed
<1> DEFINE new == [status |-> req[e].status, item |-> [ord[req[e].o].item EXCEPT ![req[e].p] = req[e].n]]
<1>3. ord' = [ord EXCEPT ![req[e].o] = new] /\ new.status = req[e].status
    BY DEF SaveItem
<1> HIDE DEF new
<1>. QED BY <1>1, <1>2, <1>3

LEMMA StatusSaved ==
    ASSUME TypeOK, NEW q \in Sessions, NEW st \in Statuses \ {"none"}, ord[q].status # "none",
           ord' = [ord EXCEPT ![q] = [@ EXCEPT !.status = st]]
    PROVE  \A o \in Sessions : ord[o].status # "none" <=> ord'[o].status # "none"
<1>1. ord \in [Sessions -> OrderRows] /\ ord[q] \in OrderRows
    BY DEF TypeOK
<1> DEFINE new == [ord[q] EXCEPT !.status = st]
<1>2. ord' = [ord EXCEPT ![q] = new] /\ new.status = st
    BY <1>1 DEF OrderRows
<1> HIDE DEF new
<1>. QED BY <1>1, <1>2

LEMMA Appears ==
    ASSUME TypeOK, Ordered, [Next]_vars, NEW o \in Sessions
    PROVE  /\ ord[o].status # "none" => ord'[o].status # "none"
           /\ ord[o].status = "none" /\ ord'[o].status # "none" => CommitOrder(o)
<1>1. ASSUME NEW s \in Sessions, CommitOrder(s)
      PROVE  /\ ord[o].status # "none" => ord'[o].status # "none"
             /\ ord[o].status = "none" /\ ord'[o].status # "none" => CommitOrder(o)
    <2>1. \A q \in Sessions \ {s} : ord'[q] = ord[q]
        BY <1>1, CommitType
    <2>2. ord'[s].status # "none"
        BY <1>1 DEF CommitOrder, TypeOK
    <2>. QED BY <1>1, <2>1, <2>2
<1>2. ASSUME NEW e \in Sessions, EditTake(e) \/ EditSame(e) \/ GiveBack(e)
      PROVE  ord[o].status # "none" <=> ord'[o].status # "none"
    <2>1. pc[e] \in {"take", "save", "give"} /\ Placed(e)
        BY <1>2 DEF EditTake, EditSame, GiveBack, Ordered
    <2>2. SaveItem(e) \/ ord' = ord
        BY <1>2 DEF EditTake, EditSame, GiveBack
    <2>. QED BY <2>1, <2>2, SavesPlaced
<1>3. ASSUME NEW e \in Sessions, CancelSave(e)
      PROVE  ord[o].status # "none" <=> ord'[o].status # "none"
    <2>1. /\ ord' = [ord EXCEPT ![req[e].o] = [@ EXCEPT !.status = "CANCELLED"]]
          /\ ord[req[e].o].status # "none" /\ req[e].o \in Sessions
        BY <1>3 DEF CancelSave, Ordered, Placed, TypeOK, Asked
    <2>. QED BY <2>1, StatusSaved DEF Statuses
<1>4. ASSUME NEW q \in Sessions, Advance(q)
      PROVE  ord[o].status # "none" <=> ord'[o].status # "none"
    <2>1. "PENDING" \in Statuses \ {"none"} /\ "PAID" \in Statuses \ {"none"}
        BY DEF Statuses
    <2>2. ord[q].status # "none"
        BY <1>4 DEF Advance
    <2>3. CASE ord' = [ord EXCEPT ![q] = [@ EXCEPT !.status = "PENDING"]]
        BY <2>1, <2>2, <2>3, StatusSaved
    <2>4. CASE ord' = [ord EXCEPT ![q] = [@ EXCEPT !.status = "PAID"]]
        BY <2>1, <2>2, <2>4, StatusSaved
    <2>. QED BY <1>4, <2>3, <2>4 DEF Advance
<1>5. ASSUME NEW s \in Sessions,
             \/ Begin(s) \/ SellCheck(s) \/ CallCheck(s) \/ CallRefused(s) \/ CreateItem(s)
             \/ ReceiveBegin(s) \/ ReceiveItem(s) \/ ReceiveCommit(s) \/ BreakDeadlock(s)
             \/ SwallowDeadlock(s)
      PROVE  ord' = ord
    BY <1>5 DEF Begin, SellCheck, CallCheck, CallRefused, CreateItem, ReceiveBegin, ReceiveItem,
                ReceiveCommit, BreakDeadlock, SwallowDeadlock, Refused, RollBack
<1>6. ASSUME NEW s \in Sessions,
             \/ ReturnRead(s) \/ ReturnSave(s) \/ EditRead(s) \/ DeleteRead(s) \/ Peek(s)
             \/ CancelRead(s) \/ RestoreRead(s) \/ RestoreSave(s)
      PROVE  ord' = ord
    BY <1>6 DEF ReturnRead, ReturnSave, EditRead, DeleteRead, Peek, CancelRead, RestoreRead, RestoreSave
<1>7. CASE UNCHANGED vars
    BY <1>7 DEF vars
<1>8. CASE Quiet
    BY <1>7, <1>8 DEF Quiet
<1>. QED BY <1>1, <1>2, <1>3, <1>4, <1>5, <1>6, <1>7, <1>8 DEF Next, WriterStep, OtherStep

(***************************************************************************)
(* The session that moves has read its order and gathered its lines.       *)
(***************************************************************************)
LEMMA PlacedStep ==
    ASSUME TypeOK, Ordered, [Next]_vars, NEW s \in Sessions,
           WriterStep(s) \/ OtherStep(s) \/ BreakDeadlock(s)
    PROVE  Placed(s)'
<1> DEFINE Reading == {"take", "peek", "save", "give", "restore", "restoring"}
<1>0. \A o \in Sessions : ord[o].status # "none" => ord'[o].status # "none"
    BY Appears
<1>1. CASE pc'[s] \notin Reading
    BY <1>1 DEF Placed
<1>2. ASSUME NEW new \in Asked, req' = [req EXCEPT ![s] = new], ord[new.o].status # "none",
             pc'[s] \in {"restore", "restoring"} \/ new.status # "none"
      PROVE  Placed(s)'
    <2>1. req'[s] = new /\ new.o \in Sessions
        BY <1>2 DEF TypeOK, Asked
    <2>. QED BY <1>0, <1>2, <2>1 DEF Placed
<1>3. CASE EditRead(s)
    BY <1>2, <1>3, EditReadFields
<1>4. CASE DeleteRead(s)
    BY <1>2, <1>4, DeleteReadFields
<1>5. CASE CancelRead(s)
    <2>1. pc'[s] = "restore"
        BY <1>5, CancelReadFields DEF TypeOK
    <2>. QED BY <1>2, <1>5, <2>1, CancelReadFields
<1>6. CASE Peek(s)
    <2>1. pc[s] = "peek"
        BY <1>6 DEF Peek
    <2>2. ord[req[s].o].status # "none" /\ req[s].status # "none"
        BY <2>1 DEF Ordered, Placed
    <2>. QED BY <1>2, <1>6, <2>2, PeekFields
<1>7. CASE RestoreRead(s)
    <2>0. pc[s] = "restore"
        BY <1>7 DEF RestoreRead
    <2>1. pc'[s] = "restoring"
        BY <1>7, RestoreReadFields DEF TypeOK
    <2>2. ord[req[s].o].status # "none"
        BY <2>0 DEF Ordered, Placed
    <2>. QED BY <1>2, <1>7, <2>1, <2>2, RestoreReadFields
<1>8. CASE RestoreSave(s)
    <2>1. pc[s] = "restoring" /\ pc'[s] = "restore" /\ req' = req /\ ord' = ord
        BY <1>8 DEF RestoreSave, GoTo, TypeOK
    <2>. QED BY <2>1 DEF Ordered, Placed
<1>9. ASSUME \/ Begin(s) \/ SellCheck(s) \/ CallCheck(s) \/ CallRefused(s) \/ CreateItem(s)
             \/ CommitOrder(s) \/ ReceiveBegin(s) \/ ReceiveItem(s) \/ ReceiveCommit(s)
             \/ BreakDeadlock(s) \/ SwallowDeadlock(s)
      PROVE  pc'[s] \in {"item", "create", "commit", "done"}
    BY <1>9 DEF Begin, SellCheck, CallCheck, CallRefused, CreateItem, CommitOrder, ReceiveBegin,
                ReceiveItem, ReceiveCommit, BreakDeadlock, SwallowDeadlock, Refused, RollBack,
                Release, GoTo, TypeOK
<1>10. ASSUME ReturnRead(s) \/ ReturnSave(s) \/ EditTake(s) \/ EditSame(s) \/ GiveBack(s) \/ CancelSave(s)
       PROVE  pc'[s] \in {"return", "done"}
    BY <1>10 DEF ReturnRead, ReturnSave, EditTake, EditSame, GiveBack, CancelSave, GoTo, TypeOK
<1>. QED BY <1>1, <1>3, <1>4, <1>5, <1>6, <1>7, <1>8, <1>9, <1>10 DEF WriterStep, OtherStep

LEMMA GatheredKept ==
    ASSUME NEW s \in Sessions, Gathered(s), cart'[s] = cart[s], at'[s] = at[s],
           kind'[s] = kind[s], tx'[s].item = tx[s].item,
           pc'[s] = pc[s] \/ (pc[s] = "item" /\ pc'[s] = "create")
    PROVE  Gathered(s)'
<1>. QED BY DEF Gathered, Writing

LEMMA GatheredEnds ==
    ASSUME NEW s \in Sessions, pc'[s] # "new", ~Writing(s)' PROVE Gathered(s)'
<1>. QED BY DEF Gathered, Writing

LEMMA GatheringBegins ==
    ASSUME TypeOK, AtLine, NEW s \in Sessions, Gathered(s), pc[s] = "new", pc'[s] = "item",
           cart'[s] \in Seq(Lines), at'[s] = at[s], tx'[s].item = tx[s].item
    PROVE  Gathered(s)'
<1>1. at'[s] = 1 /\ at'[s] - 1 = 0 /\ \A p \in Products : tx'[s].item[p] = 0
    BY DEF AtLine, Gathered
<1>2. \A p \in Products : UpTo(cart'[s], at'[s] - 1)[p] = 0
    BY <1>1, NoLinesYet
<1>3. Len(cart'[s]) \in Nat
    OBVIOUS
<1>. QED BY <1>1, <1>2, <1>3 DEF Gathered, Writing

LEMMA GatheredStep ==
    ASSUME KInv, KInv', Ordered, NEW s \in Sessions, WriterStep(s) \/ OtherStep(s) \/ BreakDeadlock(s)
    PROVE  Gathered(s)'
<1>0. /\ TypeOK /\ AtLine /\ Gathered(s) /\ cart[s] \in Seq(Lines) /\ cart'[s] \in Seq(Lines)
      /\ at[s] \in Nat \ {0} /\ tx[s].item \in [Products -> Nat]
    BY DEF KInv, TypeOK, Ordered, Transactions
<1>1. CASE Begin(s) \/ ReceiveBegin(s)
    <2>1. pc[s] = "new" /\ pc'[s] = "item" /\ at' = at /\ tx' = tx
        BY <1>0, <1>1 DEF Begin, ReceiveBegin, GoTo, TypeOK
    <2>. QED BY <1>0, <2>1, GatheringBegins
<1>2. CASE SellCheck(s)
    <2>1. /\ kind[s] = "web" /\ pc[s] = "item" /\ pc'[s] \in {"create", "commit"}
          /\ UNCHANGED <<kind, cart, at, tx>>
        BY <1>0, <1>2 DEF SellCheck, GoTo, TypeOK, baskets
    <2>. QED BY <1>0, <2>1 DEF Gathered, Writing
<1>3. CASE CallCheck(s)
    <2>1. pc[s] = "item" /\ pc'[s] = "create" /\ UNCHANGED <<kind, cart, at, tx>>
        BY <1>0, <1>3 DEF CallCheck, GoTo, TypeOK, baskets
    <2>. QED BY <1>0, <2>1, GatheredKept DEF Writing
<1>4. CASE CreateItem(s)
    <2>1. /\ pc[s] = "create" /\ at' = [at EXCEPT ![s] = @ + 1] /\ UNCHANGED <<kind, cart>>
          /\ pc'[s] = IF at[s] = Len(cart[s]) THEN "commit" ELSE "item"
        BY <1>0, <1>4 DEF CreateItem, GoTo, TypeOK
    <2>2. at[s] \in 1..Len(cart[s]) /\ Line(s) = cart[s][at[s]] /\ Line(s).p \in Products /\ Line(s).n \in Nat
        BY <1>0, <2>1, LineType DEF Line
    <2>3. tx'[s].item = [tx[s].item EXCEPT ![Line(s).p] = @ + Line(s).n]
        BY <1>0, <1>4, SaleFields
    <2>4. at'[s] = at[s] + 1 /\ at'[s] - 1 = at[s] /\ Len(cart[s]) \in Nat
        <3>1. at'[s] = at[s] + 1
            BY <1>0, <2>1 DEF TypeOK
        <3>. QED BY <1>0, <3>1
    <2>5. ASSUME kind[s] # "po", NEW p \in Products PROVE tx'[s].item[p] = UpTo(cart[s], at[s])[p]
        <3>1. tx[s].item[p] = UpTo(cart[s], at[s] - 1)[p]
            BY <1>0, <2>1, <2>5 DEF Gathered, Writing
        <3>2. tx'[s].item[p] = tx[s].item[p] + (IF p = Line(s).p THEN Line(s).n ELSE 0)
            BY <1>0, <2>2, <2>3
        <3>. QED BY <1>0, <2>2, <3>1, <3>2, NextLine
    <2>. QED BY <1>0, <2>1, <2>2, <2>4, <2>5 DEF Gathered, Writing
<1>4a. CASE SwallowDeadlock(s)
    <2>1. /\ pc[s] = "create" /\ at' = [at EXCEPT ![s] = @ + 1] /\ UNCHANGED <<kind, cart>>
          /\ pc'[s] = "commit" /\ kind[s] = "web"
        BY <1>0, <1>4a DEF SwallowDeadlock, InSavepoint, GoTo, TypeOK
    <2>2. at[s] \in 1..Len(cart[s]) /\ Line(s) = cart[s][at[s]] /\ Line(s).p \in Products /\ Line(s).n \in Nat
        BY <1>0, <2>1, LineType DEF Line
    <2>3. tx'[s].item = [tx[s].item EXCEPT ![Line(s).p] = @ + Line(s).n]
        BY <1>0, <1>4a, SwallowFields
    <2>4. at'[s] = at[s] + 1 /\ at'[s] - 1 = at[s] /\ Len(cart[s]) \in Nat
        <3>1. at'[s] = at[s] + 1
            BY <1>0, <2>1 DEF TypeOK
        <3>. QED BY <1>0, <3>1
    <2>5. ASSUME NEW p \in Products PROVE tx'[s].item[p] = UpTo(cart[s], at[s])[p]
        <3>1. tx[s].item[p] = UpTo(cart[s], at[s] - 1)[p]
            BY <1>0, <2>1, <2>5 DEF Gathered, Writing
        <3>2. tx'[s].item[p] = tx[s].item[p] + (IF p = Line(s).p THEN Line(s).n ELSE 0)
            BY <1>0, <2>2, <2>3
        <3>. QED BY <1>0, <2>2, <3>1, <3>2, NextLine
    <2>. QED BY <1>0, <2>1, <2>2, <2>4, <2>5 DEF Gathered, Writing
<1>5. CASE ReceiveItem(s)
    <2>1. /\ pc[s] = "item" /\ at' = [at EXCEPT ![s] = @ + 1] /\ UNCHANGED <<kind, cart>> /\ kind[s] = "po"
          /\ pc'[s] # "new"
        BY <1>0, <1>5 DEF ReceiveItem, GoTo, TypeOK
    <2>2. at[s] \in 1..Len(cart[s])
        BY <1>0, <2>1, LineType
    <2>3. at'[s] = at[s] + 1 /\ at'[s] - 1 = at[s] /\ Len(cart[s]) \in Nat
        <3>1. at'[s] = at[s] + 1
            BY <1>0, <2>1 DEF TypeOK
        <3>. QED BY <1>0, <3>1
    <2>. QED BY <1>0, <2>1, <2>2, <2>3 DEF Gathered, Writing
<1>6. ASSUME CallRefused(s) \/ CommitOrder(s) \/ ReceiveCommit(s) \/ BreakDeadlock(s)
      PROVE  pc'[s] = "done"
    BY <1>0, <1>6 DEF CallRefused, CommitOrder, ReceiveCommit, BreakDeadlock, Refused, RollBack,
                      Release, GoTo, TypeOK
<1>7. ASSUME \/ ReturnSave(s) \/ EditTake(s) \/ EditSame(s) \/ Peek(s) \/ GiveBack(s)
             \/ RestoreSave(s) \/ CancelSave(s)
      PROVE  pc'[s] \notin {"new", "item", "create", "commit"}
    BY <1>0, <1>7 DEF ReturnSave, EditTake, EditSame, Peek, GiveBack, RestoreSave, CancelSave, GoTo, TypeOK
<1>8. ASSUME ReturnRead(s) \/ EditRead(s) \/ DeleteRead(s) \/ CancelRead(s) \/ RestoreRead(s)
      PROVE  pc'[s] \notin {"new", "item", "create", "commit"}
    <2>1. \A l : pc' = [pc EXCEPT ![s] = l] => pc'[s] = l
        BY <1>0 DEF TypeOK
    <2>2. CASE EditRead(s)
        <3>1. \E l \in {"take", "peek", "save"} : pc' = [pc EXCEPT ![s] = l]
            BY <1>0, <2>2, EditReadFields
        <3>. QED BY <2>1, <3>1
    <2>3. CASE ReturnRead(s)
        BY <1>0, <2>1, <2>3, ReturnReadFields
    <2>. QED BY <1>0, <1>8, <2>1, <2>2, <2>3, DeleteReadFields, CancelReadFields, RestoreReadFields
<1>9. CASE pc'[s] \notin {"new", "item", "create", "commit"}
    BY <1>9, GatheredEnds DEF Writing
<1>. QED BY <1>1, <1>2, <1>3, <1>4, <1>4a, <1>5, <1>6, <1>7, <1>8, <1>9 DEF WriterStep, OtherStep

LEMMA OrderedStep == KInv /\ KInv' /\ Ordered /\ [Next]_vars => Ordered'
<1>. SUFFICES ASSUME KInv, KInv', Ordered, [Next]_vars PROVE Ordered'
    OBVIOUS
<1>0. TypeOK
    BY DEF KInv
<1>1. ASSUME NEW s \in Sessions, WriterStep(s) \/ OtherStep(s) \/ BreakDeadlock(s) PROVE Ordered'
    <2>1. Gathered(s)' /\ Placed(s)'
        BY <1>0, <1>1, GatheredStep, PlacedStep
    <2>2. ASSUME NEW t \in Sessions \ {s} PROVE Gathered(t)' /\ Placed(t)'
        <3>1. /\ kind'[t] = kind[t] /\ pc'[t] = pc[t] /\ tx'[t] = tx[t] /\ req'[t] = req[t]
              /\ cart'[t] = cart[t] /\ at'[t] = at[t]
            BY <1>1, UntouchedStep DEF Untouched
        <3>0. Gathered(t) /\ tx'[t].item = tx[t].item
            BY <3>1 DEF Ordered
        <3>2. Gathered(t)'
            BY <3>0, <3>1 DEF Gathered, Writing
        <3>3. \A o \in Sessions : ord[o].status # "none" => ord'[o].status # "none"
            BY <1>0, Appears
        <3>4. req[t].o \in Sessions
            BY <1>0 DEF TypeOK, Asked
        <3>. QED BY <3>1, <3>2, <3>3, <3>4 DEF Ordered, Placed
    <2>. QED BY <2>1, <2>2 DEF Ordered
<1>2. ASSUME NEW q \in Sessions, Advance(q) PROVE Ordered'
    <2>1. UNCHANGED <<kind, pc, tx, req, cart, at>>
        BY <1>2 DEF Advance, baskets
    <2>2. ASSUME NEW s \in Sessions PROVE Gathered(s)'
        <3>1. Gathered(s) /\ tx'[s].item = tx[s].item
            BY <2>1 DEF Ordered
        <3>. QED BY <2>1, <3>1 DEF Gathered, Writing
    <2>3. \A o \in Sessions : ord[o].status # "none" => ord'[o].status # "none"
        BY <1>0, Appears
    <2>4. \A s \in Sessions : req[s].o \in Sessions
        BY <1>0 DEF TypeOK, Asked
    <2>. QED BY <2>1, <2>2, <2>3, <2>4 DEF Ordered, Placed
<1>3. CASE UNCHANGED vars
    BY <1>3 DEF vars, baskets, Ordered, Gathered, Placed, Writing
<1>. QED BY <1>1, <1>2, <1>3 DEF Next, Quiet

LEMMA InitOrdered == Init => Ordered
<1>. QED BY DEF Init, Ordered, Gathered, Placed, Writing, NoWrites

\* An order appears with the lines its request had got through when it
\* committed: all of them for an API order.
LEMMA OrderAppears ==
    ASSUME KInv, Ordered, [Next]_vars, NEW s \in Sessions, ord[s].status = "none", ord'[s].status # "none"
    PROVE  /\ kind[s] # "po" /\ at[s] - 1 \in 0..Len(cart[s]) /\ ord'[s].item = UpTo(cart[s], at[s] - 1)
           /\ kind[s] = "api" => ord'[s].item = Wanted(s)
<1>0. TypeOK /\ at[s] \in Nat \ {0} /\ cart[s] \in Seq(Lines)
    BY DEF KInv, TypeOK
<1>1. CommitOrder(s)
    BY <1>0, Appears
<1>2. pc[s] = "commit" /\ kind[s] # "po" /\ ord'[s].item = tx[s].item
    BY <1>0, <1>1, CommitType DEF CommitOrder
<1>3. tx[s].item \in [Products -> Nat]
    BY <1>0 DEF TypeOK, Transactions
<1>4. \A p \in Products : tx[s].item[p] = UpTo(cart[s], at[s] - 1)[p]
    BY <1>2 DEF Ordered, Gathered, Writing
<1>5. tx[s].item = UpTo(cart[s], at[s] - 1)
    BY <1>3, <1>4 DEF UpTo
<1>6. at[s] - 1 \in 0..Len(cart[s])
    BY <1>0, <1>2 DEF Ordered, Gathered, Writing
<1>7. ASSUME kind[s] = "api" PROVE ord'[s].item = Wanted(s)
    <2>1. at[s] - 1 = Len(cart[s])
        BY <1>0, <1>2, <1>7 DEF Ordered, Gathered
    <2>. QED BY <1>0, <1>2, <1>5, <2>1, AllLines
<1>. QED BY <1>2, <1>5, <1>6, <1>7

\* Whatever line is refused and whichever ring of locks is broken, an order of
\* the API appears with all the lines its request asked for, or not at all.
THEOREM ApiOrdersAreWhole == Spec => ApiOrderIsWhole
<1>1. WInv => KInv
    BY DEF WInv, RInv
<1>2. KInv /\ Ordered /\ [Next]_vars => [WholeOrders("api")]_vars
    BY OrderAppears DEF WholeOrders
<1>3. Spec => []Ordered
    BY <1>1, InitOrdered, OrderedStep, InventoryInvariant, PTL DEF Spec
<1>. QED BY <1>1, <1>2, <1>3, InventoryInvariant, PTL DEF Spec, ApiOrderIsWhole

\* What the form's comment claims is false, but this is true: an order of the
\* form has its first lines, up to the one that was refused or whose stock was
\* lost to a deadlock, and no others.
PrefixOrders ==
    \A s \in Sessions : (kind[s] = "web" /\ ord[s].status = "none" /\ ord'[s].status # "none")
        => \E k \in 0..Len(cart[s]) : ord'[s].item = UpTo(cart[s], k)

\* The form commits its first lines, whichever requests run beside it.
THEOREM WebOrdersArePrefixes == Spec => [][PrefixOrders]_vars
<1>1. WInv => KInv
    BY DEF WInv, RInv
<1>2. KInv /\ Ordered /\ [Next]_vars => [PrefixOrders]_vars
    BY OrderAppears DEF PrefixOrders
<1>3. Spec => []Ordered
    BY <1>1, InitOrdered, OrderedStep, InventoryInvariant, PTL DEF Spec
<1>. QED BY <1>1, <1>2, <1>3, InventoryInvariant, PTL DEF Spec

=============================================================================
