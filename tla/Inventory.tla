------------------------------- MODULE Inventory -------------------------------
(***************************************************************************)
(* Stock and its Kardex, and every request that writes them:               *)
(*   - the web order form and the API's OrderService.create_order, whose   *)
(*     OrderItem rows fire the sale signal (domain/signals.py);            *)
(*   - a purchase order saved as RECEIVED and a customer return, through   *)
(*     their signals;                                                      *)
(*   - the views that edit or delete an item or cancel an order            *)
(*     (interfaces/web/views.py).                                          *)
(* A session is one HTTP request (or one save of a purchase order): it     *)
(* runs one operation and ends. An order carries the name of the request   *)
(* that created it.                                                        *)
(*                                                                         *)
(* PostgreSQL at READ COMMITTED: a plain read takes no lock and sees the   *)
(* last commit and the session's own writes; select_for_update and UPDATE  *)
(* wait for the row lock and keep it to the end of the transaction. A      *)
(* quantity is read, changed in Python and written back as a value, never  *)
(* with F(). The steps of one handler that end in its commit and only wait *)
(* for one lock are one action.                                            *)
(*                                                                         *)
(* Operators named Mut... are plausible bugs of the operator that follows  *)
(* them; no specification uses them.                                       *)
(***************************************************************************)
EXTENDS Integers, Sequences, FiniteSetsExt

CONSTANTS
    Products, Warehouses,
    Sessions,   \* the requests; which one each is, is open until it starts
    Nobody,     \* "not locked"
    Carts,      \* what the customers ask for: sequences of lines
    Deliveries, \* purchase orders: a warehouse and a sequence of lines
    MaxQty,     \* bound: quantities the editors and the returns ask for
    Base,       \* stock when the model starts, 0 where there is no row
    FirstIds    \* primary key of every row then, 0 where there is no row

\* One Stock row per product and warehouse.
Rows == Products \X Warehouses

\* A line of a cart or of a purchase order.
Lines == [p: Products, n: 1..MaxQty]

ASSUME InventoryAssumption ==
    /\ Nobody \notin Sessions
    /\ Sessions # {} /\ Rows # {}
    /\ MaxQty \in Nat \ {0}
    /\ Base \in [Rows -> Nat]
    /\ IsFiniteSet(Rows) /\ FirstIds \in [Rows -> 0..Cardinality(Rows)]
    /\ Carts \subseteq Seq(Lines) \ {<<>>}
    /\ Deliveries \subseteq [house: Warehouses, items: Seq(Lines) \ {<<>>}]

VARIABLES
    stock,     \* committed Stock.quantity of every row
    ids,       \* primary key of every row, 0 while it does not exist
    nextId,    \* the next primary key
    moves,     \* sum of its committed StockMovements, outputs negative
    ord,       \* committed orders
    returned,  \* units returned per order and product
    rowLock,   \* who holds each Stock row
    prodLock,  \* who holds each Product row
    kind,      \* "web", "api" or "po": what writes lines in its own transaction
    pc,        \* where each session is
    cart,      \* the lines such a session works through
    house,     \* the warehouse of the purchase order it receives
    at,        \* the line it is at
    tx,        \* the writes of its open transaction
    req,       \* what the other sessions asked for and have read
    did        \* history: what happened so far that the Kardex does not see

table   == <<stock, ids, moves>>
locks   == <<rowLock, prodLock>>
baskets == <<kind, cart, house, at>>
vars    == <<table, nextId, ord, returned, locks, pc, baskets, tx, req, did>>

-----------------------------------------------------------------------------
(* Types.                                                                   *)

\* The statuses that matter here; "PAID" stands for it and the later ones a
\* cancellation may still leave.
Statuses == {"none", "DRAFT", "PENDING", "PAID", "CANCELLED"}

\* item: quantity of each product, 0 without an OrderItem.
OrderRows == [status: Statuses, item: [Products -> Nat]]
NoOrder   == [status |-> "none", item |-> [p \in Products |-> 0]]

\* The writes of an open transaction: quantities, movements, primary keys of
\* new Stock rows and order items.
Transactions == [wrote: SUBSET Rows, val: [Rows -> Int], mov: [Rows -> Int],
                 key: [Rows -> Nat], item: [Products -> Nat]]
NoWrites == [wrote |-> {}, val |-> [r \in Rows |-> 0], mov |-> [r \in Rows |-> 0],
             key |-> [r \in Rows |-> 0], item |-> [p \in Products |-> 0]]

\* What a request of the other kinds asked for and has read: the order, the
\* product and its new or returned quantity; the change of the item and the
\* status to save; the items left to restore; the Stock row and its quantity.
Asked == [o: Sessions, p: Products, n: Nat, diff: Int, status: Statuses,
          item: [Products -> Nat], todo: SUBSET Products, row: Rows, seen: Int]
NothingAsked ==
    [o |-> CHOOSE o \in Sessions : TRUE, p |-> CHOOSE p \in Products : TRUE,
     n |-> 0, diff |-> 0, status |-> "none", item |-> [p \in Products |-> 0],
     todo |-> {}, row |-> CHOOSE r \in Rows : TRUE, seen |-> 0]

\* take: an item view took units under the lock, or sold a deleted item again;
\* give: an edit or a deletion gave units back from an unlocked read; stale: such a read was out of date when it
\* was used; restore: a cancellation gave units back without a movement;
\* overlap: a return was checked while another of the item was open.
Events == {"take", "give", "stale", "restore", "overlap"}

Init ==
    /\ stock = Base /\ ids = FirstIds /\ nextId = Cardinality(Rows) + 1
    /\ moves = [r \in Rows |-> 0]
    /\ ord = [o \in Sessions |-> NoOrder]
    /\ returned = [o \in Sessions |-> [p \in Products |-> 0]]
    /\ rowLock = [r \in Rows |-> Nobody]
    /\ prodLock = [p \in Products |-> Nobody]
    /\ pc = [s \in Sessions |-> "new"]
    /\ kind = [s \in Sessions |-> "none"]
    /\ cart = [s \in Sessions |-> <<>>]
    /\ house = [s \in Sessions |-> CHOOSE w \in Warehouses : TRUE]
    /\ at = [s \in Sessions |-> 1]
    /\ tx = [s \in Sessions |-> NoWrites]
    /\ req = [s \in Sessions |-> NothingAsked]
    /\ did = {}

-----------------------------------------------------------------------------
(* Reads.                                                                   *)

RowsOf(p)     == {r \in Rows : r[1] = p /\ ids[r] > 0}

\* .first() orders by primary key.
IsFirst(r, S) == r \in S /\ \A q \in S : ids[r] <= ids[q]

Seen(s, r) == IF r \in tx[s].wrote THEN tx[s].val[r] ELSE stock[r]

Line(s) == cart[s][at[s]]

\* A signal writes quantity + n on row r and its StockMovement.
Write(s, r, n) ==
    [tx[s] EXCEPT !.wrote = @ \cup {r}, !.val = [@ EXCEPT ![r] = Seen(s, r) + n],
                  !.mov = [@ EXCEPT ![r] = tx[s].mov[r] + n]]

GoTo(s, l) == pc' = [pc EXCEPT ![s] = l]

MutProductFree(s, p) == TRUE

\* select_for_update of a Product row and of a Stock row.
ProductFree(s, p) == prodLock[p] \in {Nobody, s}

MutRowFree(s, r) == TRUE

RowFree(s, r) == rowLock[r] \in {Nobody, s}

-----------------------------------------------------------------------------
(* Sales: order_create_view and OrderService.create_order.                  *)

Begin(s) ==
    /\ pc[s] = "new"
    /\ \E k \in {"web", "api"} : kind' = [kind EXCEPT ![s] = k]
    /\ \E c \in Carts : cart' = [cart EXCEPT ![s] = c]
    /\ GoTo(s, "item")
    /\ UNCHANGED <<table, nextId, ord, returned, locks, house, at, tx, req, did>>

\* The web form locks the Product row and looks for some Stock row that
\* suffices. A ValueError is caught inside the atomic view, which then commits
\* what it has written so far.
SellCheck(s) ==
    /\ kind[s] = "web" /\ pc[s] = "item"
    /\ ProductFree(s, Line(s).p)
    /\ prodLock' = [prodLock EXCEPT ![Line(s).p] = s]
    /\ GoTo(s, IF \E r \in RowsOf(Line(s).p) : Seen(s, r) >= Line(s).n
               THEN "create" ELSE "commit")
    /\ UNCHANGED <<table, nextId, ord, returned, rowLock, baskets, tx, req, did>>

\* Unlock what the session holds and forget its transaction.
Release(s) ==
    /\ rowLock' = [r \in Rows |-> IF rowLock[r] = s THEN Nobody ELSE rowLock[r]]
    /\ prodLock' = [p \in Products |-> IF prodLock[p] = s THEN Nobody ELSE prodLock[p]]
    /\ tx' = [tx EXCEPT ![s] = NoWrites]
    /\ GoTo(s, "done")

RollBack(s) ==
    /\ Release(s)
    /\ UNCHANGED <<table, nextId, ord, returned, baskets, req, did>>

\* Is the first row of the line's product enough?
FirstRowSuffices(s) ==
    \E r \in RowsOf(Line(s).p) : IsFirst(r, RowsOf(Line(s).p)) /\ Seen(s, r) >= Line(s).n

MutRefused(s) ==
    /\ GoTo(s, "commit")
    /\ UNCHANGED <<table, nextId, ord, returned, locks, baskets, tx, req, did>>

\* (waits for stock instead)
MutRefusedWaits(s) ==
    /\ GoTo(s, "item")
    /\ UNCHANGED <<table, nextId, ord, returned, locks, baskets, tx, req, did>>

\* The API's ValueError leaves create_order and rolls it back.
Refused(s) == RollBack(s)

CallRefused(s) ==
    /\ kind[s] = "api" /\ pc[s] = "item"
    /\ ~FirstRowSuffices(s)
    /\ Refused(s)

\* The API checks the product's first row, without any lock.
CallCheck(s) ==
    /\ kind[s] = "api" /\ pc[s] = "item"
    /\ FirstRowSuffices(s)
    /\ GoTo(s, "create")
    /\ UNCHANGED <<table, nextId, ord, returned, locks, baskets, tx, req, did>>

\* OrderItem.objects.create and adjust_stock_on_sale: the signal locks the
\* product's first row and takes the quantity from it, sufficient or not.
CreateItem(s) ==
    /\ pc[s] = "create"
    /\ \E r \in RowsOf(Line(s).p) :
          /\ IsFirst(r, RowsOf(Line(s).p))
          /\ RowFree(s, r)
          /\ rowLock' = [rowLock EXCEPT ![r] = s]
          /\ tx' = [tx EXCEPT ![s] = [Write(s, r, -Line(s).n) EXCEPT !.item[Line(s).p] = @ + Line(s).n]]
    /\ at' = [at EXCEPT ![s] = @ + 1]
    /\ GoTo(s, IF at[s] = Len(cart[s]) THEN "commit" ELSE "item")
    /\ UNCHANGED <<table, nextId, ord, returned, prodLock, kind, cart, house, req, did>>

\* What a commit makes visible.
Publish(s) ==
    /\ stock' = [r \in Rows |-> IF r \in tx[s].wrote THEN tx[s].val[r] ELSE stock[r]]
    /\ moves' = [r \in Rows |-> moves[r] + tx[s].mov[r]]
    /\ ids' = [r \in Rows |-> IF r \in tx[s].wrote /\ ids[r] = 0 THEN tx[s].key[r] ELSE ids[r]]

\* The order with the items created so far.
CommitOrder(s) ==
    /\ kind[s] # "po" /\ pc[s] = "commit"
    /\ Publish(s)
    /\ ord' = [ord EXCEPT ![s] =
                  [status |-> IF kind[s] = "web" THEN "DRAFT" ELSE "PENDING",
                   item   |-> tx[s].item]]
    /\ Release(s)
    /\ UNCHANGED <<nextId, returned, baskets, req, did>>

-----------------------------------------------------------------------------
(* A purchase order saved with status RECEIVED, as often as it is saved.    *)

ReceiveBegin(s) ==
    /\ pc[s] = "new"
    /\ kind' = [kind EXCEPT ![s] = "po"]
    /\ \E d \in Deliveries :
          /\ cart' = [cart EXCEPT ![s] = d.items]
          /\ house' = [house EXCEPT ![s] = d.house]
    /\ GoTo(s, "item")
    /\ UNCHANGED <<table, nextId, ord, returned, locks, at, tx, req, did>>

\* get_or_create of the row in the order's warehouse, under its lock; a new row
\* takes its primary key when it is inserted.
ReceiveItem(s) ==
    /\ kind[s] = "po" /\ pc[s] = "item"
    /\ LET r == <<Line(s).p, house[s]>>
       IN  /\ RowFree(s, r)
           /\ rowLock' = [rowLock EXCEPT ![r] = s]
           /\ tx' = [tx EXCEPT ![s] = [Write(s, r, Line(s).n) EXCEPT !.key[r] = nextId]]
           /\ nextId' = IF ids[r] = 0 THEN nextId + 1 ELSE nextId
    /\ at' = [at EXCEPT ![s] = @ + 1]
    /\ GoTo(s, IF at[s] = Len(cart[s]) THEN "commit" ELSE "item")
    /\ UNCHANGED <<table, ord, returned, prodLock, kind, cart, house, req, did>>

ReceiveCommit(s) ==
    /\ kind[s] = "po" /\ pc[s] = "commit"
    /\ Publish(s)
    /\ Release(s)
    /\ UNCHANGED <<nextId, ord, returned, baskets, req, did>>

-----------------------------------------------------------------------------
(* OrderService.process_return. It never looks at the order's status.       *)

MutReturnable(o, p) == ord[o].item[p]

\* Units of the item that may still come back, by the returns committed so far.
Returnable(o, p) == ord[o].item[p] - returned[o][p]

\* Is another return of the same item between its check and its commit?
Overlaps(o, p) == \E t \in Sessions : pc[t] = "return" /\ req[t].o = o /\ req[t].p = p

ReturnRead(t) ==
    /\ pc[t] = "new"
    /\ \E o \in Sessions, p \in Products, n \in 1..MaxQty :
          /\ ord[o].item[p] > 0
          /\ IF n <= Returnable(o, p)
             THEN /\ req' = [req EXCEPT ![t] = [@ EXCEPT !.o = o, !.p = p, !.n = n]]
                  /\ did' = did \cup (IF Overlaps(o, p) THEN {"overlap"} ELSE {})
                  /\ GoTo(t, "return")
             ELSE GoTo(t, "done") /\ UNCHANGED <<req, did>>
    /\ UNCHANGED <<table, nextId, ord, returned, locks, baskets, tx>>

\* OrderReturn.objects.create and handle_stock_on_return, then the commit.
\* reentered_to_stock keeps its default: every reason puts the units back.
ReturnSave(t) ==
    /\ pc[t] = "return"
    /\ LET o == req[t].o  p == req[t].p  n == req[t].n
       IN  /\ \E r \in RowsOf(p) :
                 /\ IsFirst(r, RowsOf(p)) /\ RowFree(t, r)
                 /\ stock' = [stock EXCEPT ![r] = @ + n]
                 /\ moves' = [moves EXCEPT ![r] = @ + n]
           /\ returned' = [returned EXCEPT ![o][p] = @ + n]
    /\ GoTo(t, "done")
    /\ UNCHANGED <<ids, nextId, ord, locks, baskets, tx, req, did>>

-----------------------------------------------------------------------------
(* Item edits, item deletion and cancellation. They read the order, its item *)
(* and the stock without a lock and write back what they computed.          *)

\* order_item_edit_view reads the order and the item. diff = new - old.
EditRead(e) ==
    /\ pc[e] = "new"
    /\ \E o \in Sessions, p \in Products, n \in 1..MaxQty :
          /\ ord[o].item[p] > 0 /\ ord[o].status \in {"DRAFT", "PENDING"}
          /\ req' = [req EXCEPT ![e] = [@ EXCEPT !.o = o, !.p = p, !.n = n,
                                !.diff = n - ord[o].item[p], !.status = ord[o].status]]
          /\ GoTo(e, IF n > ord[o].item[p] THEN "take"
                     ELSE IF n < ord[o].item[p] THEN "peek" ELSE "save")
    /\ UNCHANGED <<table, nextId, ord, returned, locks, baskets, tx, did>>

\* (saves the change for the new quantity)
MutSaveItem(e) ==
    ord' = [ord EXCEPT ![req[e].o] = [status |-> req[e].status,
                                      item   |-> [@.item EXCEPT ![req[e].p] = req[e].diff]]]

\* item.save() and _recalculate_order_totals, which saves the whole order row
\* as it was read.
SaveItem(e) ==
    ord' = [ord EXCEPT ![req[e].o] = [status |-> req[e].status,
                                      item   |-> [@.item EXCEPT ![req[e].p] = req[e].n]]]

\* item.save() of an item deleted meanwhile inserts it again, and the sale
\* signal takes its whole quantity from the product's first row.
Resold(e, r) ==
    IF ord[req[e].o].item[req[e].p] = 0 /\ IsFirst(r, RowsOf(req[e].p)) THEN req[e].n ELSE 0

\* The quantities and the movements after the view took n units (or gave back
\* -n) on row r, whose quantity it believes to be seen.
SaveStock(e, r, seen, n) ==
    /\ \A q \in Rows : (q = r \/ Resold(e, q) > 0) => RowFree(e, q)
    /\ stock' = [q \in Rows |-> (IF q = r THEN seen - n ELSE stock[q]) - Resold(e, q)]
    /\ moves' = [q \in Rows |-> moves[q] - (IF q = r THEN n ELSE 0) - Resold(e, q)]

\* More units: the first row that has them, under its lock.
EditTake(e) ==
    /\ pc[e] = "take"
    /\ LET enough == {r \in RowsOf(req[e].p) : stock[r] >= req[e].diff}
       IN  \/ /\ enough = {}
              /\ UNCHANGED <<stock, moves, ord, did>>
           \/ /\ \E r \in enough : IsFirst(r, enough) /\ SaveStock(e, r, stock[r], req[e].diff)
              /\ SaveItem(e)
              /\ did' = did \cup {"take"}
    /\ GoTo(e, "done")
    /\ UNCHANGED <<ids, nextId, returned, locks, baskets, tx, req>>

\* The same quantity again: only the rows are saved.
EditSame(e) ==
    /\ pc[e] = "save"
    /\ \E r \in RowsOf(req[e].p) : IsFirst(r, RowsOf(req[e].p)) /\ SaveStock(e, r, stock[r], 0)
    /\ SaveItem(e)
    /\ did' = did \cup {"take"}
    /\ GoTo(e, "done")
    /\ UNCHANGED <<ids, nextId, returned, locks, baskets, tx, req>>

\* order_item_delete_view: the last item needs a note and cancels the order.
DeleteRead(e) ==
    /\ pc[e] = "new"
    /\ \E o \in Sessions, p \in Products :
          /\ ord[o].item[p] > 0 /\ ord[o].status \in {"DRAFT", "PENDING"}
          /\ req' = [req EXCEPT ![e] = [@ EXCEPT !.o = o, !.p = p, !.diff = -ord[o].item[p],
                                !.status = IF \A q \in Products \ {p} : ord[o].item[q] = 0
                                           THEN "CANCELLED" ELSE ord[o].status]]
    /\ GoTo(e, "peek")
    /\ UNCHANGED <<table, nextId, ord, returned, locks, baskets, tx, did>>

\* Fewer units: read the product's first row ...
Peek(e) ==
    /\ pc[e] = "peek"
    /\ \E r \in RowsOf(req[e].p) :
          /\ IsFirst(r, RowsOf(req[e].p))
          /\ req' = [req EXCEPT ![e] = [@ EXCEPT !.row = r, !.seen = stock[r]]]
    /\ GoTo(e, "give")
    /\ UNCHANGED <<table, nextId, ord, returned, locks, baskets, tx, did>>

\* What a write of "the quantity seen, plus some" leaves in the history.
Gave(e, how) == {how} \cup (IF stock[req[e].row] # req[e].seen THEN {"stale"} ELSE {})

\* ... and write back the quantity seen plus what comes back.
GiveBack(e) ==
    /\ pc[e] = "give"
    /\ SaveStock(e, req[e].row, req[e].seen, req[e].diff)
    /\ SaveItem(e)
    /\ did' = did \cup Gave(e, "give")
                  \cup (IF \E r \in Rows : Resold(e, r) > 0 THEN {"take"} ELSE {})
    /\ GoTo(e, "done")
    /\ UNCHANGED <<ids, nextId, returned, locks, baskets, tx, req>>

\* order_change_status_view to CANCELLED: the items as they are now.
CancelRead(e) ==
    /\ pc[e] = "new"
    /\ \E o \in Sessions :
          /\ ord[o].status \in {"DRAFT", "PENDING", "PAID"}
          /\ req' = [req EXCEPT ![e] = [@ EXCEPT !.o = o, !.item = ord[o].item,
                                !.todo = {p \in Products : ord[o].item[p] > 0}]]
    /\ GoTo(e, "restore")
    /\ UNCHANGED <<table, nextId, ord, returned, locks, baskets, tx, did>>

\* _restore_order_stock reads the first row of the next item ...
RestoreRead(e) ==
    /\ pc[e] = "restore"
    /\ \E p \in req[e].todo : \E r \in RowsOf(p) :
          /\ IsFirst(r, RowsOf(p))
          /\ req' = [req EXCEPT ![e] = [@ EXCEPT !.todo = req[e].todo \ {p}, !.row = r, !.seen = stock[r]]]
    /\ GoTo(e, "restoring")
    /\ UNCHANGED <<table, nextId, ord, returned, locks, baskets, tx, did>>

\* ... and saves it, each row in a transaction of its own, without a movement.
RestoreSave(e) ==
    /\ pc[e] = "restoring"
    /\ LET r == req[e].row
       IN  /\ RowFree(e, r)
           /\ stock' = [stock EXCEPT ![r] = req[e].seen + req[e].item[r[1]]]
    /\ did' = did \cup Gave(e, "restore")
    /\ GoTo(e, "restore")
    /\ UNCHANGED <<moves, ids, nextId, ord, returned, locks, baskets, tx, req>>

CancelSave(e) ==
    /\ pc[e] = "restore" /\ req[e].todo = {}
    /\ ord' = [ord EXCEPT ![req[e].o] = [@ EXCEPT !.status = "CANCELLED"]]
    /\ GoTo(e, "done")
    /\ UNCHANGED <<table, nextId, returned, locks, baskets, tx, req, did>>

\* The order moves on (the pay and status views, see OrderPayment).
Advance(o) ==
    /\ \/ ord[o].status = "DRAFT" /\ ord' = [ord EXCEPT ![o].status = "PENDING"]
       \/ ord[o].status = "PENDING" /\ ord' = [ord EXCEPT ![o].status = "PAID"]
    /\ UNCHANGED <<table, nextId, returned, locks, pc, baskets, tx, req, did>>

-----------------------------------------------------------------------------
(* Row locks.                                                               *)

\* external: the sessions that hold what s waits for.
Blockers(s) ==
    LET p == Line(s).p
    IN  CASE pc[s] = "item" /\ kind[s] = "web" -> {prodLock[p]} \ {Nobody, s}
          [] pc[s] = "item" /\ kind[s] = "po"  -> {rowLock[<<p, house[s]>>]} \ {Nobody, s}
          [] pc[s] = "create" -> {rowLock[r] : r \in {q \in RowsOf(p) : IsFirst(q, RowsOf(p))}}
                                    \ {Nobody, s}
          [] OTHER -> {}

\* external: s is in a ring of transactions that wait for each other, of which
\* PostgreSQL ends one.
InRing(s) ==
    /\ Blockers(s) # {}
    /\ \E ring \in SUBSET Sessions :
          /\ s \in ring
          /\ \A t \in ring : Blockers(t) \cap ring # {}
          /\ \A t \in ring : \E u \in ring : t \in Blockers(u)

\* The sale signal waits for the Stock row in an atomic block of its own, and
\* the order form, unlike create_order, catches what leaves that block.
InSavepoint(s) == kind[s] = "web" /\ pc[s] = "create"

\* The error leaves create_order, the purchase order's signal or, as nothing can
\* be read any more, the order form: everything is rolled back.
BreakDeadlock(s) == InRing(s) /\ ~InSavepoint(s) /\ RollBack(s)

\* The order form goes on after the signal's block was rolled back: it commits
\* the lines before, and the item just inserted, for which no stock was taken.
SwallowDeadlock(s) ==
    /\ InRing(s) /\ InSavepoint(s)
    /\ tx' = [tx EXCEPT ![s] = [tx[s] EXCEPT !.item[Line(s).p] = @ + Line(s).n]]
    /\ at' = [at EXCEPT ![s] = @ + 1]
    /\ GoTo(s, "commit")
    /\ UNCHANGED <<table, nextId, ord, returned, locks, kind, cart, house, req, did>>

-----------------------------------------------------------------------------
WriterStep(s) ==
    \/ Begin(s) \/ SellCheck(s) \/ CallCheck(s) \/ CallRefused(s) \/ CreateItem(s)
    \/ SwallowDeadlock(s) \/ CommitOrder(s)
    \/ ReceiveBegin(s) \/ ReceiveItem(s) \/ ReceiveCommit(s)

OtherStep(s) ==
    \/ ReturnRead(s) \/ ReturnSave(s)
    \/ EditRead(s) \/ EditTake(s) \/ EditSame(s)
    \/ DeleteRead(s) \/ Peek(s) \/ GiveBack(s)
    \/ CancelRead(s) \/ RestoreRead(s) \/ RestoreSave(s) \/ CancelSave(s)

Quiet == (\A s \in Sessions : pc[s] = "done") /\ UNCHANGED vars

Next ==
    \/ \E s \in Sessions : WriterStep(s) \/ OtherStep(s) \/ BreakDeadlock(s) \/ Advance(s)
    \/ Quiet

Spec == Init /\ [][Next]_vars

\* Django runs every request to its end and PostgreSQL breaks every ring.
FairSpec ==
    /\ Spec
    /\ \A s \in Sessions : WF_vars(WriterStep(s) \/ OtherStep(s) \/ BreakDeadlock(s))

-----------------------------------------------------------------------------
(* Properties.                                                              *)

\* Every variable keeps its type.
TypeOK ==
    /\ stock \in [Rows -> Int] /\ ids \in [Rows -> Nat] /\ moves \in [Rows -> Int]
    /\ nextId \in Nat
    /\ ord \in [Sessions -> OrderRows]
    /\ returned \in [Sessions -> [Products -> Nat]]
    /\ rowLock \in [Rows -> Sessions \cup {Nobody}]
    /\ prodLock \in [Products -> Sessions \cup {Nobody}]
    /\ pc \in [Sessions -> {"new", "item", "create", "commit", "return", "take", "peek", "save",
                            "give", "restore", "restoring", "done"}]
    /\ kind \in [Sessions -> {"none", "web", "api", "po"}]
    /\ cart \in [Sessions -> Seq(Lines)]
    /\ house \in [Sessions -> Warehouses]
    /\ at \in [Sessions -> Nat \ {0}]
    /\ tx \in [Sessions -> Transactions]
    /\ req \in [Sessions -> Asked]
    /\ did \subseteq Events

\* Every row's quantity is what it started with plus its movements, as the
\* signals and the item views keep it, until a cancellation gives units back or
\* an item view writes a quantity it read too early.
KardexExact ==
    did \cap {"stale", "restore"} = {} => \A r \in Rows : stock[r] = Base[r] + moves[r]

\* Sold through the web form alone, a product kept in one warehouse is never
\* oversold: the form holds the Product row from its check to its commit. An
\* API order, an item edit or a stale write in between does oversell it.
WebNeverOversells ==
    (did \cap {"take", "stale"} = {} /\ \A s \in Sessions : kind[s] = "api" => ord[s] = NoOrder) =>
        \A r \in Rows : stock[r] < 0 => \E q \in RowsOf(r[1]) : q # r

\* No more comes back than was bought, as process_return checks, if no two
\* returns of one item overlap and no item view saved the quantity it had read.
SerialReturnsWithinSale ==
    did \cap {"give", "take", "overlap"} = {} =>
        \A o \in Sessions, p \in Products : returned[o][p] <= ord[o].item[p]

\* The quantity of each product that a request asked for.
Wanted(s) ==
    [p \in Products |->
        SumFunctionOnSet([i \in DOMAIN cart[s] |-> cart[s][i].n],
                         {i \in DOMAIN cart[s] : cart[s][i].p = p})]

WholeOrders(k) ==
    \A s \in Sessions : (kind[s] = k /\ ord[s].status = "none" /\ ord'[s].status # "none")
                            => ord'[s].item = Wanted(s)

\* An order of the API appears with all its lines or not at all, whatever line
\* was refused or whichever ring of locks was broken.
ApiOrderIsWhole == [][WholeOrders("api")]_vars

\* The same of the web form, whose comment says that a failed line rolls the
\* order back.
WebOrderIsWhole == [][WholeOrders("web")]_vars

\* A request that started to write stock ends, with its transaction committed
\* or rolled back.
SaleEnds == \A s \in Sessions : pc[s] = "item" ~> pc[s] = "done"

=============================================================================
