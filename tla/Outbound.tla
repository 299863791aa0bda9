------------------------------ MODULE Outbound ------------------------------
(***************************************************************************)
(* Order fulfilment over the shared stock tables: the picking, scanning    *)
(* and shipping handlers of app/api/routes/outbound.py, the two ways new   *)
(* stock arrives (app/api/routes/inbound.py and the approval of a restock  *)
(* proposal), and the admission of inspected used copies, all running      *)
(* concurrently as PostgreSQL READ COMMITTED transactions.                 *)
(*                                                                         *)
(* The unit of interleaving is one lock request.  A session takes the row  *)
(* locks its SELECT ... FOR UPDATE statements ask for one at a time, reads *)
(* the committed values at that moment into its own image (the ORM         *)
(* objects), computes on the image, and writes the changed columns back    *)
(* when it commits.  Nothing it writes is visible before.                  *)
(*                                                                         *)
(* Rows and LPNs are numbered in the order the code sorts them by:         *)
(* created_at, id for inventory rows and stocked_at, id for used copies.   *)
(*                                                                         *)
(* Definitions whose name starts with Slip are not part of the model: each *)
(* is the definition after it with one plausible mistake in it, and shows  *)
(* that the property named in its comment is able to notice.               *)
(***************************************************************************)
EXTENDS Integers, Sequences, FiniteSets, Functions

CONSTANTS
  Books,         \* book masters
  Rows,          \* inventory rows: one (book, location) pair each
  Lpns,          \* used copies that inspection will admit
  Orders,        \* B2B orders
  Deliveries,    \* new-stock arrivals: one Idempotency-Key or one proposal each
  Racks,         \* A-zone racks, the unit of the location advisory lock
  Sessions,      \* request handlers running at the same time
  RowBook,       \* Rows -> Books
  RackOf,        \* Books -> Racks, by the category of the book
  InitialStock,  \* Rows -> Nat: stock on hand at the start
  InitialVirtual,\* Books -> Nat: books.virtual_stock at the start
  Unpriced,      \* legacy rows that have no sale price yet
  LpnBook,       \* Lpns -> Books
  LpnGrade,      \* Lpns -> grades
  OrderLines,    \* Orders -> sequences of order items, sorted by book
  DeliveryBook,  \* Deliveries -> Books
  DeliveryQty,   \* Deliveries -> quantities
  AutoPo,        \* the deliveries that are approvals of restock proposals
  NewStock,      \* the absent condition_grade of a new-stock order item
  None           \* no order, no delivery

ASSUME RowsAreFinite == Rows \subseteq Nat /\ IsFiniteSet(Rows)
ASSUME LpnsAreFinite == Lpns \subseteq Nat /\ IsFiniteSet(Lpns)
ASSUME BooksAreFinite == IsFiniteSet(Books)
ASSUME RowConstants ==
  /\ RowBook \in [Rows -> Books]
  /\ RackOf \in [Books -> Racks]
  /\ InitialStock \in [Rows -> Nat]
  /\ InitialVirtual \in [Books -> Nat]
  /\ Unpriced \subseteq Rows
ASSUME LpnConstants ==
  LpnBook \in [Lpns -> Books] /\ \A l \in Lpns : LpnGrade[l] # NewStock
ASSUME OrderConstants ==
  /\ \A o \in Orders : DOMAIN OrderLines[o] = 1..Len(OrderLines[o])
  /\ \A o \in Orders : \A i \in DOMAIN OrderLines[o] :
        LET line == OrderLines[o][i] IN
        /\ line.book \in Books /\ line.quantity \in Nat
        /\ line.grade # NewStock => line.quantity = 1
  /\ \A o \in Orders : Len(OrderLines[o]) \in Nat \ {0}
  /\ None \notin Orders
ASSUME DeliveryConstants ==
  /\ DeliveryBook \in [Deliveries -> Books]
  /\ DeliveryQty \in [Deliveries -> Nat]
  /\ AutoPo \subseteq Deliveries
  /\ None \notin Deliveries

VARIABLES
  status,        \* orders.status; "NONE" before the order exists
  created,       \* inventory rows that exist
  priced,        \* inventory rows with discount_rate and sale_price
  quantity,      \* inventory.quantity
  reserved,      \* inventory.reserved_quantity
  lpn,           \* inventory_used_items.status; "NONE" before admission
  lpnPriced,     \* used copies with discount_rate and sale_price
  alloc,         \* order_item_inventory_allocations.quantity, per order
  picked,        \* ... and their picked_quantity
  lpnAlloc,      \* order_item_lpn_allocations, per order
  lpnPicked,     \* used copies whose allocation has picked_at
  virtualStock,  \* books.virtual_stock
  received,      \* inbound_items that exist, by request id
  tx             \* the running transactions

db == <<status, created, priced, quantity, reserved, lpn, lpnPriced, alloc,
        picked, lpnAlloc, lpnPicked, virtualStock, received>>
vars == <<db, tx>>

-----------------------------------------------------------------------------
(* Locks.  "order", "row" and "lpn" are FOR UPDATE locks on an order, an    *)
(* inventory row and a used copy; "isbn" and "rack" are the advisory locks  *)
(* of the deliveries.  A book is locked in three modes: "book" is FOR       *)
(* UPDATE; "update" is what UPDATE books takes; "key" is the shared lock    *)
(* the foreign key check takes on the book when an order item, an inbound   *)
(* item or a log entry that names it is inserted.                           *)

OrderLock(o) == <<"order", o>>
RowLock(r) == <<"row", r>>
LpnLock(l) == <<"lpn", l>>
IsbnLock(b) == <<"isbn", b>>
RackLock(k) == <<"rack", k>>
BookLock(b) == <<"book", b>>
UpdateLock(b) == <<"update", b>>
KeyLock(b) == <<"key", b>>

Lock == ({"order"} \X Orders) \cup ({"row"} \X Rows) \cup ({"lpn"} \X Lpns)
          \cup ({"rack"} \X Racks) \cup ({"isbn", "book", "update", "key"} \X Books)

(* PostgreSQL's table of row lock conflicts: all locks exclude themselves  *)
(* but "key", and "book" excludes the other two modes.                     *)
Conflict(k, m) ==
  \/ k = m /\ k[1] # "key"
  \/ k[2] = m[2] /\ {k[1], m[1]} \in {{"book", "update"}, {"book", "key"}}

Ops == {"idle", "create", "pick", "pickRows", "scan", "ship", "locate", "receive"}

(* A transaction that has just begun: an empty identity map; and a session *)
(* that has none.                                                          *)
Blank == [r \in Rows |-> 0]
Started(op, order, delivery, locks, plan) ==
  [op |-> op, order |-> order, delivery |-> delivery, item |-> 1,
   held |-> locks, plan |-> plan, quantity |-> Blank, reserved |-> Blank,
   virtual |-> [b \in Books |-> 0], take |-> Blank, lpns |-> {}]
Idle == Started("idle", None, None, {}, <<>>)

Blocks(t, k) == \E m \in tx[t].held : Conflict(k, m)

(* The inventory query without with_for_update (ReservedIsAllocated).      *)
SlipFree(s, k) == k[1] = "row" \/ \A t \in Sessions \ {s} : ~Blocks(t, k)
Free(s, k) == \A t \in Sessions \ {s} : ~Blocks(t, k)
Unlocked(k) == \A t \in Sessions : ~Blocks(t, k)

(* The ways to list a set, and the one that is ascending.                  *)
Listings(S) ==
  {p \in [1..Cardinality(S) -> S] : \A x \in S : \E i \in DOMAIN p : p[i] = x}
Ascending(S) == {p \in Listings(S) : \A i, j \in DOMAIN p : i < j => p[i] < p[j]}

RowLocks(p) == [i \in DOMAIN p |-> RowLock(p[i])]
KeyLocks(p) == [i \in DOMAIN p |-> KeyLock(p[i])]
BookLocks(p) == [i \in DOMAIN p |-> BookLock(p[i])]

RowsOf(b) == {r \in Rows : RowBook[r] = b}
HeldRows(s) == {r \in Rows : RowLock(r) \in tx[s].held}
Larger(a, b) == IF a <= b THEN b ELSE a

-----------------------------------------------------------------------------
TypeOK ==
  /\ status \in [Orders -> {"NONE", "PENDING", "PICKING", "SHIPPED"}]
  /\ created \in SUBSET Rows /\ priced \in SUBSET Rows
  /\ quantity \in [Rows -> Nat] /\ reserved \in [Rows -> Nat]
  /\ lpn \in [Lpns -> {"NONE", "AVAILABLE", "RESERVED", "SHIPPED"}]
  /\ lpnPriced \in SUBSET Lpns
  /\ alloc \in [Orders -> [Rows -> Nat]]
  /\ picked \in [Orders -> [Rows -> Nat]]
  /\ lpnAlloc \in [Orders -> SUBSET Lpns]
  /\ lpnPicked \in SUBSET Lpns
  /\ virtualStock \in [Books -> Nat]
  /\ received \in SUBSET Deliveries
  /\ tx \in [Sessions ->
       [op : Ops, order : Orders \cup {None}, delivery : Deliveries \cup {None},
        item : Nat, held : SUBSET Lock, plan : Seq(Lock),
        quantity : [Rows -> Nat], reserved : [Rows -> Nat],
        virtual : [Books -> Nat], take : [Rows -> Nat],
        lpns : SUBSET Lpns]]
  /\ \A s \in Sessions : tx[s].op = "idle" => tx[s] = Idle

Init ==
  /\ status = [o \in Orders |-> "NONE"]
  /\ created = {r \in Rows : InitialStock[r] > 0}
  /\ priced = created \ Unpriced
  /\ quantity = InitialStock
  /\ reserved = [r \in Rows |-> 0]
  /\ lpn = [l \in Lpns |-> "NONE"]
  /\ lpnPriced = {}
  /\ alloc = [o \in Orders |-> [r \in Rows |-> 0]]
  /\ picked = [o \in Orders |-> [r \in Rows |-> 0]]
  /\ lpnAlloc = [o \in Orders |-> {}]
  /\ lpnPicked = {}
  /\ virtualStock = InitialVirtual
  /\ received = {}
  /\ tx = [s \in Sessions |-> Idle]

-----------------------------------------------------------------------------
(* Taking locks.  A request for a lock another session holds waits.        *)

Wants(s, k) == tx[s].plan # <<>> /\ Head(tx[s].plan) = k

(* SELECT ... FOR UPDATE of one inventory row: the row is read as it is    *)
(* once the lock is granted.  A row the session already holds stays in its *)
(* identity map with the session's own changes.                            *)
LockRow(s, r) ==
  /\ Wants(s, RowLock(r))
  /\ \/ /\ RowLock(r) \notin tx[s].held
        /\ Free(s, RowLock(r))
        /\ tx' = [tx EXCEPT ![s].held = @ \cup {RowLock(r)},
                            ![s].plan = Tail(@),
                            ![s].quantity[r] = quantity[r],
                            ![s].reserved[r] = reserved[r]]
     \/ /\ RowLock(r) \in tx[s].held
        /\ tx' = [tx EXCEPT ![s].plan = Tail(@)]
  /\ UNCHANGED db

LockBook(s, b) ==
  /\ Wants(s, BookLock(b))
  /\ Free(s, BookLock(b))
  /\ tx' = [tx EXCEPT ![s].held = @ \cup {BookLock(b)},
                      ![s].plan = Tail(@),
                      ![s].virtual[b] = virtualStock[b]]
  /\ UNCHANGED db

(* The locks that come without a read.                                     *)
LockOnly(s, k) ==
  /\ k[1] \in {"rack", "key", "update"}
  /\ Wants(s, k)
  /\ Free(s, k)
  /\ tx' = [tx EXCEPT ![s].held = @ \cup {k}, ![s].plan = Tail(@)]
  /\ UNCHANGED db

-----------------------------------------------------------------------------
(* POST /orders.  The insertion of the order items takes key locks on      *)
(* their books, in the order of the request.                               *)

OrderedBooks(o) == {OrderLines[o][i].book : i \in DOMAIN OrderLines[o]}

BeginCreate(s, o) ==
  /\ tx[s].op = "idle"
  /\ Unlocked(OrderLock(o))
  /\ status[o] = "NONE"
  /\ \E p \in Listings(OrderedBooks(o)) :
        tx' = [tx EXCEPT ![s] =
                 Started("create", o, None, {OrderLock(o)}, KeyLocks(p))]
  /\ UNCHANGED db

CommitCreate(s) ==
  /\ tx[s].op = "create" /\ tx[s].plan = <<>>
  /\ status' = [status EXCEPT ![tx[s].order] = "PENDING"]
  /\ tx' = [tx EXCEPT ![s] = Idle]
  /\ UNCHANGED <<created, priced, quantity, reserved, lpn, lpnPriced, alloc,
                 picked, lpnAlloc, lpnPicked, virtualStock, received>>

-----------------------------------------------------------------------------
(* create_picking_instruction.                                             *)

BeginPick(s, o) ==
  /\ tx[s].op = "idle"
  /\ Unlocked(OrderLock(o))
  /\ status[o] = "PENDING"
  /\ tx' = [tx EXCEPT ![s] = Started("pick", o, None, {OrderLock(o)}, <<>>)]
  /\ UNCHANGED db

AtLine(s) ==
  tx[s].op = "pick" /\ tx[s].item <= Len(OrderLines[tx[s].order])
LineOf(s) == OrderLines[tx[s].order][tx[s].item]

(* select_fifo_lpn_candidate: FOR UPDATE SKIP LOCKED, so a copy another    *)
(* session has locked is passed over.                                      *)
(* ... and the LPN query without it (OneOrderPerLpn).                      *)
SlipFifoCandidates(s) ==
  {l \in Lpns : /\ lpn[l] = "AVAILABLE" /\ l \in lpnPriced
                /\ LpnBook[l] = LineOf(s).book /\ LpnGrade[l] = LineOf(s).grade
                /\ l \notin tx[s].lpns}
FifoCandidates(s) ==
  {l \in Lpns : /\ lpn[l] = "AVAILABLE" /\ l \in lpnPriced
                /\ LpnBook[l] = LineOf(s).book /\ LpnGrade[l] = LineOf(s).grade
                /\ l \notin tx[s].lpns
                /\ Unlocked(LpnLock(l))}

TakeLpn(s, l) ==
  /\ AtLine(s) /\ LineOf(s).grade # NewStock
  /\ l \in FifoCandidates(s)
  /\ \A m \in FifoCandidates(s) : l <= m
  /\ tx' = [tx EXCEPT ![s].held = @ \cup {LpnLock(l)},
                      ![s].lpns = @ \cup {l},
                      ![s].item = @ + 1]
  /\ UNCHANGED db

(* The FOR UPDATE query for a new-stock item: the rows that qualify in the *)
(* snapshot of the statement, to be locked in created_at order.            *)
SelectRows(s) ==
  /\ AtLine(s) /\ LineOf(s).grade = NewStock
  /\ \E p \in Ascending({r \in RowsOf(LineOf(s).book) :
                            r \in created /\ quantity[r] > reserved[r]}) :
        tx' = [tx EXCEPT ![s].op = "pickRows", ![s].plan = RowLocks(p)]
  /\ UNCHANGED db

(* The greedy loop over the rows: each gives what it has until the item is *)
(* covered.  A row that is drawn on must have a price.                     *)
ItemRows(s) == HeldRows(s) \cap RowsOf(LineOf(s).book)
SlipAvailable(s, r) == tx[s].quantity[r]  \* StockWithinBounds
Available(s, r) == tx[s].quantity[r] - tx[s].reserved[r]
(* The pick commits what it found when stock runs out (AllOrNothing).      *)
SlipFifoSplits(s) ==
  {take \in [Rows -> 0..LineOf(s).quantity] :
     /\ SumFunction(take) <= LineOf(s).quantity
     /\ \A r \in Rows : take[r] > 0 => /\ r \in ItemRows(s) \cap priced
                                       /\ take[r] <= Available(s, r)}
FifoSplits(s) ==
  {take \in [Rows -> 0..LineOf(s).quantity] :
     /\ SumFunction(take) = LineOf(s).quantity
     /\ \A r \in Rows : take[r] > 0 => /\ r \in ItemRows(s) \cap priced
                                       /\ take[r] <= Available(s, r)
     /\ \A q, r \in ItemRows(s) :
          q < r /\ take[r] > 0 => take[q] = Available(s, q)}

ReserveRows(s) ==
  /\ tx[s].op = "pickRows" /\ tx[s].plan = <<>>
  /\ \E take \in FifoSplits(s) :
        tx' = [tx EXCEPT ![s].op = "pick",
                         ![s].item = @ + 1,
                         ![s].reserved = [r \in Rows |-> @[r] + take[r]],
                         ![s].take = [r \in Rows |-> @[r] + take[r]]]
  /\ UNCHANGED db

CommitPick(s) ==
  /\ tx[s].op = "pick" /\ tx[s].item > Len(OrderLines[tx[s].order])
  /\ LET o == tx[s].order IN
       /\ status' = [status EXCEPT ![o] = "PICKING"]
       /\ alloc' = [alloc EXCEPT ![o] = tx[s].take]
       /\ lpnAlloc' = [lpnAlloc EXCEPT ![o] = tx[s].lpns]
  /\ reserved' = [r \in Rows |-> IF tx[s].take[r] > 0 THEN tx[s].reserved[r]
                                                      ELSE reserved[r]]
  /\ lpn' = [l \in Lpns |-> IF l \in tx[s].lpns THEN "RESERVED" ELSE lpn[l]]
  /\ tx' = [tx EXCEPT ![s] = Idle]
  /\ UNCHANGED <<created, priced, quantity, lpnPriced, picked, lpnPicked,
                 virtualStock, received>>

-----------------------------------------------------------------------------
(* scan_picking_item.  For new stock the FOR UPDATE covers the whole join: *)
(* the allocation, its inventory row, the order item and the book.         *)

BeginScan(s, o, r) ==
  /\ tx[s].op = "idle"
  /\ Unlocked(OrderLock(o))
  /\ status[o] = "PICKING" /\ alloc[o][r] > 0
  /\ tx' = [tx EXCEPT ![s] = Started("scan", o, None, {OrderLock(o)},
                                     <<RowLock(r), BookLock(RowBook[r])>>)]
  /\ UNCHANGED db

CommitScan(s, r) ==
  /\ tx[s].op = "scan" /\ tx[s].plan = <<>>
  /\ r \in HeldRows(s)
  /\ picked[tx[s].order][r] < alloc[tx[s].order][r]
  /\ picked' = [picked EXCEPT ![tx[s].order][r] = @ + 1]
  /\ tx' = [tx EXCEPT ![s] = Idle]
  /\ UNCHANGED <<status, created, priced, quantity, reserved, lpn, lpnPriced,
                 alloc, lpnAlloc, lpnPicked, virtualStock, received>>

(* A used copy: only transactions that hold the order lock ever lock a     *)
(* RESERVED copy, so the order lock is the only one to wait for.  A second *)
(* scan of the same copy changes nothing.                                  *)
ScanLpn(o, l) ==
  /\ Unlocked(OrderLock(o))
  /\ status[o] = "PICKING"
  /\ l \in lpnAlloc[o] /\ lpn[l] = "RESERVED"
  /\ lpnPicked' = lpnPicked \cup {l}
  /\ UNCHANGED <<status, created, priced, quantity, reserved, lpn, lpnPriced,
                 alloc, picked, lpnAlloc, virtualStock, received, tx>>

-----------------------------------------------------------------------------
(* confirm_shipment.  The allocations are ordered by their random id, so   *)
(* the inventory rows are locked in an arbitrary order; then the books.    *)

AllocatedRows(o) == {r \in Rows : alloc[o][r] > 0}
SlipFullyPicked(o) == picked[o] = alloc[o]  \* ShippedWasScanned
FullyPicked(o) == picked[o] = alloc[o] /\ lpnAlloc[o] \subseteq lpnPicked
LpnsOf(o, b) == {l \in lpnAlloc[o] : LpnBook[l] = b}
(* Used copies are not counted (StockConserved).                           *)
SlipShippedQuantity(o, b) == SumFunctionOnSet(alloc[o], RowsOf(b))
ShippedQuantity(o, b) ==
  SumFunctionOnSet(alloc[o], RowsOf(b)) + Cardinality(LpnsOf(o, b))
ShippedBooks(o) == {RowBook[r] : r \in AllocatedRows(o)}
                     \cup {LpnBook[l] : l \in lpnAlloc[o]}

(* Each row in turn is locked and logged, then each used copy is logged    *)
(* (nobody else locks a RESERVED copy), and the log entries take key locks *)
(* on the books; then the books are locked, in the order in which the      *)
(* allocations first named them.                                           *)
ShipRows(p) ==
  [i \in 1..(2 * Len(p)) |-> IF i % 2 = 1 THEN RowLock(p[(i + 1) \div 2])
                                          ELSE KeyLock(RowBook[p[i \div 2]])]
FirstSeenOrder(seen, q) ==
  \A i, j \in DOMAIN q : i < j =>
    \E m \in DOMAIN seen : seen[m] = q[i] /\ \A n \in 1..m : seen[n] # q[j]

BeginShip(s, o) ==
  /\ tx[s].op = "idle"
  /\ Unlocked(OrderLock(o))
  /\ status[o] = "PICKING"
  /\ AllocatedRows(o) # {} \/ lpnAlloc[o] # {}
  /\ FullyPicked(o)
  /\ \E p \in Listings(AllocatedRows(o)), u \in Listings(lpnAlloc[o]),
        q \in Listings(ShippedBooks(o)) :
        LET lpnBooks == [i \in DOMAIN u |-> LpnBook[u[i]]]
        IN  /\ FirstSeenOrder([i \in DOMAIN p |-> RowBook[p[i]]] \o lpnBooks, q)
            /\ tx' = [tx EXCEPT ![s] =
                 Started("ship", o, None, {OrderLock(o)},
                         ShipRows(p) \o KeyLocks(lpnBooks) \o BookLocks(q))]
  /\ UNCHANGED db

(* The guards on the locked rows and copies.                               *)
Shippable(s) ==
  LET o == tx[s].order IN
    /\ \A r \in AllocatedRows(o) : /\ tx[s].quantity[r] >= alloc[o][r]
                                   /\ tx[s].reserved[r] >= alloc[o][r]
    /\ \A l \in lpnAlloc[o] : lpn[l] = "RESERVED"

CommitShip(s) ==
  /\ tx[s].op = "ship" /\ tx[s].plan = <<>>
  /\ Shippable(s)
  /\ LET o == tx[s].order
         Left(image, base) == [r \in Rows |->
           IF alloc[o][r] > 0 THEN image[r] - alloc[o][r] ELSE base[r]]
     IN  /\ status' = [status EXCEPT ![o] = "SHIPPED"]
         /\ quantity' = Left(tx[s].quantity, quantity)
         /\ reserved' = Left(tx[s].reserved, reserved)
         /\ lpn' = [l \in Lpns |-> IF l \in lpnAlloc[o] THEN "SHIPPED" ELSE lpn[l]]
         /\ virtualStock' = [b \in Books |->
              IF b \in ShippedBooks(o)
              THEN Larger(tx[s].virtual[b] - ShippedQuantity(o, b), 0)
              ELSE virtualStock[b]]
  /\ tx' = [tx EXCEPT ![s] = Idle]
  /\ UNCHANGED <<created, priced, lpnPriced, alloc, picked, lpnAlloc,
                 lpnPicked, received>>

-----------------------------------------------------------------------------
(* New stock.  create_new_stock_inbound serialises on the ISBN, names the  *)
(* book in an inbound item, serialises on the rack, locks the rows of the  *)
(* book, adds to one of them or to a new one, and increments virtual_stock *)
(* in place.  The approval of a restock proposal does the same, with the   *)
(* book locked from the start.                                             *)

BeginArrival(s, d, locks) ==
  /\ tx[s].op = "idle"
  /\ d \notin received
  /\ \A k \in locks : Unlocked(k)
  /\ tx' = [tx EXCEPT ![s] =
              Started("locate", None, d, locks,
                      <<RackLock(RackOf[DeliveryBook[d]])>>)]
  /\ UNCHANGED db

BeginReceive(s, d) ==
  /\ d \notin AutoPo
  /\ BeginArrival(s, d, {IsbnLock(DeliveryBook[d]), KeyLock(DeliveryBook[d])})

BeginApprove(s, d) ==
  /\ d \in AutoPo
  /\ BeginArrival(s, d, {BookLock(DeliveryBook[d])})

SelectShelves(s) ==
  LET b == DeliveryBook[tx[s].delivery] IN
  /\ tx[s].op = "locate" /\ tx[s].plan = <<>>
  /\ \E p \in Ascending(RowsOf(b) \cap created) :
        tx' = [tx EXCEPT ![s].op = "receive",
                         ![s].plan = RowLocks(p) \o <<UpdateLock(b)>>]
  /\ UNCHANGED db

(* The row the stock goes to: one that exists, or the next new one; which  *)
(* of them is the business of the location assignment.                     *)
TargetRows(b) ==
  LET new == RowsOf(b) \ created
  IN  (RowsOf(b) \cap created) \cup {r \in new : \A q \in new : r <= q}

CommitReceive(s, r) ==
  LET d == tx[s].delivery
      b == DeliveryBook[d]
  IN
  /\ tx[s].op = "receive" /\ tx[s].plan = <<>>
  /\ r \in TargetRows(b)
  /\ quantity' = [quantity EXCEPT ![r] =
       IF r \in created THEN tx[s].quantity[r] + DeliveryQty[d] ELSE DeliveryQty[d]]
  /\ created' = created \cup {r}
  /\ priced' = priced \cup {r}
  /\ virtualStock' = [virtualStock EXCEPT ![b] = @ + DeliveryQty[d]]
  /\ received' = received \cup {d}
  /\ tx' = [tx EXCEPT ![s] = Idle]
  /\ UNCHANGED <<status, reserved, lpn, lpnPriced, alloc, picked, lpnAlloc,
                 lpnPicked>>

(* apply_inspected_item_result admits a used copy; its price is written by *)
(* a later transaction of the same request.                                *)
AdmitUsed(l) ==
  /\ lpn[l] = "NONE"
  /\ \A m \in Lpns : m < l => lpn[m] # "NONE"
  /\ Unlocked(UpdateLock(LpnBook[l]))
  /\ lpn' = [lpn EXCEPT ![l] = "AVAILABLE"]
  /\ virtualStock' = [virtualStock EXCEPT ![LpnBook[l]] = @ + 1]
  /\ UNCHANGED <<status, created, priced, quantity, reserved, lpnPriced, alloc,
                 picked, lpnAlloc, lpnPicked, received, tx>>

PriceLpn(l) ==
  /\ lpn[l] = "AVAILABLE" /\ l \notin lpnPriced
  /\ lpnPriced' = lpnPriced \cup {l}
  /\ UNCHANGED <<status, created, priced, quantity, reserved, lpn, alloc,
                 picked, lpnAlloc, lpnPicked, virtualStock, received, tx>>

-----------------------------------------------------------------------------
(* Rolling back.  Every handler ends its except branch with                *)
(* session.rollback(): the locks go and the database stays as it was.      *)

(* The locks outlive the transaction (TypeOK, TransactionsEnd).            *)
SlipRollback(s) ==
  /\ tx' = [tx EXCEPT ![s] = [Idle EXCEPT !.held = tx[s].held]]
  /\ UNCHANGED db

Rollback(s) ==
  /\ tx' = [tx EXCEPT ![s] = Idle]
  /\ UNCHANGED db

(* The handler answers 409: no copy to take, too little stock, a row       *)
(* without a price, a scan too many, a mismatch at the shipment.           *)
Refuse(s) ==
  /\ \/ AtLine(s) /\ LineOf(s).grade # NewStock /\ FifoCandidates(s) = {}
     \/ tx[s].op = "pickRows" /\ tx[s].plan = <<>> /\ FifoSplits(s) = {}
     \/ /\ tx[s].op = "scan" /\ tx[s].plan = <<>>
        /\ \A r \in HeldRows(s) :
             picked[tx[s].order][r] >= alloc[tx[s].order][r]
     \/ tx[s].op = "ship" /\ tx[s].plan = <<>> /\ ~Shippable(s)
     \/ tx[s].op = "receive" /\ tx[s].plan = <<>>
  /\ Rollback(s)

(* Sessions waiting for one another in a circle.                           *)
WaitsFor(s, t) == s # t /\ \E k \in Lock : Wants(s, k) /\ Blocks(t, k)
Cycle(S) ==
  S # {} /\ \E c \in Listings(S) :
    \A i \in DOMAIN c : WaitsFor(c[i], c[(i % Len(c)) + 1])
Deadlocked(s) == \E S \in SUBSET Sessions : s \in S /\ Cycle(S)

(* PostgreSQL cancels one of the sessions of a wait cycle.                 *)
DeadlockVictim(s) == Deadlocked(s) /\ Rollback(s)

(* The process dies, the client goes away or a statement times out.        *)
Crash(s) == tx[s].op # "idle" /\ Rollback(s)

-----------------------------------------------------------------------------
Continue(s) ==
  \/ \E r \in Rows : LockRow(s, r)
  \/ \E b \in Books : LockBook(s, b)
  \/ \E k \in Lock : LockOnly(s, k)
  \/ CommitCreate(s)
  \/ \E l \in Lpns : TakeLpn(s, l)
  \/ SelectRows(s) \/ ReserveRows(s) \/ CommitPick(s)
  \/ \E r \in Rows : CommitScan(s, r)
  \/ CommitShip(s)
  \/ SelectShelves(s)
  \/ \E r \in Rows : CommitReceive(s, r)
  \/ Refuse(s) \/ DeadlockVictim(s)

Begin(s) ==
  \/ \E o \in Orders : BeginCreate(s, o) \/ BeginPick(s, o) \/ BeginShip(s, o)
  \/ \E o \in Orders, r \in Rows : BeginScan(s, o, r)
  \/ \E d \in Deliveries : BeginReceive(s, d) \/ BeginApprove(s, d)

Next ==
  \/ \E s \in Sessions : Begin(s) \/ Continue(s) \/ Crash(s)
  \/ \E o \in Orders, l \in Lpns : ScanLpn(o, l)
  \/ \E l \in Lpns : AdmitUsed(l) \/ PriceLpn(l)

Spec == Init /\ [][Next]_vars

(* A request that has begun is run to its end.  Lock queues are first come *)
(* first served, so a session whose lock keeps becoming free gets it.      *)
FairSpec == Spec /\ \A s \in Sessions : SF_vars(Continue(s))

-----------------------------------------------------------------------------
(* What must hold.                                                         *)

(* No row ever has more reserved than it has: concurrent picks cannot      *)
(* promise the same copy twice, and no handler runs into the check         *)
(* constraint ck_inventory_reserved_quantity_not_exceed_quantity.          *)
StockWithinBounds == \A r \in Rows : reserved[r] <= quantity[r]

(* reserved_quantity is exactly what the open allocations of the orders    *)
(* being picked add up to: no update of it is lost and no shipment leaves  *)
(* a reservation behind.                                                   *)
Picking == {o \in Orders : status[o] = "PICKING"}
ReservedIsAllocated ==
  \A r \in Rows :
    reserved[r] = SumFunctionOnSet([o \in Orders |-> alloc[o][r]], Picking)

(* A used copy belongs to one order at most, and its status tells which    *)
(* state that order is in, whatever SKIP LOCKED passed over.               *)
OneOrderPerLpn ==
  /\ \A o, p \in Orders : o # p => lpnAlloc[o] \cap lpnAlloc[p] = {}
  /\ \A o \in Orders : \A l \in lpnAlloc[o] :
       \/ status[o] = "PICKING" /\ lpn[l] = "RESERVED"
       \/ status[o] = "SHIPPED" /\ lpn[l] = "SHIPPED"
  /\ \A l \in Lpns : lpn[l] \in {"RESERVED", "SHIPPED"}
                        => \E o \in Orders : l \in lpnAlloc[o]

(* An order has all of its items reserved or none: a pick that runs out of *)
(* stock at its last item leaves no trace of the first ones.               *)
Requested(o, b, g) ==
  LET lines == {i \in 1..Len(OrderLines[o]) :
                  OrderLines[o][i].book = b /\ OrderLines[o][i].grade = g}
  IN  SumFunctionOnSet([i \in 1..Len(OrderLines[o]) |-> OrderLines[o][i].quantity],
                       lines)
AllOrNothing ==
  \A o \in Orders, b \in Books :
    LET full == status[o] \in {"PICKING", "SHIPPED"} IN
    /\ SumFunctionOnSet(alloc[o], RowsOf(b))
         = IF full THEN Requested(o, b, NewStock) ELSE 0
    /\ \A g \in {LpnGrade[l] : l \in Lpns} :
         Cardinality({l \in LpnsOf(o, b) : LpnGrade[l] = g})
           = IF full THEN Requested(o, b, g) ELSE 0

(* Copies are neither lost nor made: what is on the shelves is what was    *)
(* there plus what arrived, each Idempotency-Key or proposal once, minus   *)
(* what the shipped orders took; and virtual_stock agrees with the shelves *)
(* (so the floor at zero in confirm_shipment never cuts anything off).     *)
(* What is reserved is what the orders being picked are to take.           *)
Shipped == {o \in Orders : status[o] = "SHIPPED"}
Unsold(b) == {l \in Lpns : LpnBook[l] = b /\ lpn[l] \in {"AVAILABLE", "RESERVED"}}
StockConserved ==
  /\ ReservedIsAllocated
  /\ \A b \in Books :
       LET onShelves == SumFunctionOnSet(quantity, RowsOf(b))
           arrived == SumFunctionOnSet(DeliveryQty, {d \in received : DeliveryBook[d] = b})
           left == SumFunctionOnSet([o \in Orders |->
                     SumFunctionOnSet(alloc[o], RowsOf(b))], Shipped)
       IN  /\ onShelves = SumFunctionOnSet(InitialStock, RowsOf(b)) + arrived - left
           /\ virtualStock[b] = onShelves + Cardinality(Unsold(b))

(* Nothing leaves the warehouse that was not scanned out of its shelf.     *)
ShippedWasScanned ==
  \A o \in Orders :
    /\ \A r \in Rows : picked[o][r] <= alloc[o][r]
    /\ status[o] = "SHIPPED" =>
         picked[o] = alloc[o] /\ lpnAlloc[o] \subseteq lpnPicked

(* Orders that are created or picked and stock that is received never wait *)
(* for one another in a circle: they lock rows in one global order and     *)
(* need the books in modes that go together.  A circle always holds a      *)
(* transaction that asks for a whole book while others are inserting what  *)
(* names it: a shipment, a scan of new stock or an approval.               *)
CyclesNeedABookLock ==
  \A S \in SUBSET Sessions :
    Cycle(S) =>
      \E s \in S : tx[s].op \in {"ship", "scan"} \/ tx[s].delivery \in AutoPo

(* Every request that starts comes to an end, deadlocks included, and      *)
(* leaves no lock behind.                                                  *)
TransactionsEnd ==
  \A s \in Sessions : tx[s].op # "idle" ~> tx[s] = Idle
=============================================================================
