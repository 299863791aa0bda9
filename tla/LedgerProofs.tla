---------------------------- MODULE LedgerProofs ----------------------------
(***************************************************************************)
(* StockInvariant is inductive: the ledger of the warehouse balances in    *)
(* every interleaving of the handlers.  The proofs build on                *)
(* HandlerInvariant (OutboundProofs) and on the facts about sums (Sums).   *)
(***************************************************************************)
EXTENDS OutboundProofs, OutboundRefinement, Sums

-----------------------------------------------------------------------------
(* What an order asks for.                                                 *)

(* The rows of a book are finitely many rows.                              *)
LEMMA RowsOfBook ==
  \A b : RowsOf(b) \in SUBSET Rows /\ IsFiniteSet(RowsOf(b))
BY FiniteSubsets DEF RowsOf

(* The lines of an order, numbered.                                        *)
LEMMA LinesAreFinite ==
  ASSUME NEW o \in Orders, NEW S \in SUBSET (1..Len(OrderLines[o]))
  PROVE  Len(OrderLines[o]) \in Nat /\ IsFiniteSet(S)
<1>1. Len(OrderLines[o]) \in Nat
  BY OrderConstants
<1>2. IsFiniteSet(1..Len(OrderLines[o]))
  BY <1>1, FS_Interval
<1> QED
  BY <1>1, <1>2, FS_Subset

(* Before the first line nothing is asked for; before the end, all; and    *)
(* each line adds its quantity to what it names.                           *)
LEMMA RequestedFirst ==
  ASSUME NEW o \in Orders, NEW b, NEW g
  PROVE  RequestedBefore(o, 1, b, g) = 0
<1> DEFINE S == {i \in 1..Len(OrderLines[o]) :
                   i < 1 /\ OrderLines[o][i].book = b /\ OrderLines[o][i].grade = g}
<1>1. S = {}
  BY LinesAreFinite
<1> QED
  BY <1>1, SumEmpty DEF RequestedBefore

(* Before the end, all of an order is asked for.                           *)
LEMMA RequestedAll ==
  ASSUME NEW o \in Orders, NEW b, NEW g
  PROVE  RequestedBefore(o, Len(OrderLines[o]) + 1, b, g) = Requested(o, b, g)
<1>1. Len(OrderLines[o]) \in Nat
  BY OrderConstants
<1>2. {i \in 1..Len(OrderLines[o]) :
         i < Len(OrderLines[o]) + 1 /\ OrderLines[o][i].book = b /\ OrderLines[o][i].grade = g}
      = {i \in 1..Len(OrderLines[o]) :
           OrderLines[o][i].book = b /\ OrderLines[o][i].grade = g}
  BY <1>1
<1> QED
  BY <1>2 DEF RequestedBefore, Requested

(* Each line adds its quantity to what it names.                           *)
LEMMA RequestedNext ==
  ASSUME NEW o \in Orders, NEW n \in 1..Len(OrderLines[o]), NEW b, NEW g
  PROVE  /\ RequestedBefore(o, n, b, g) \in Nat
         /\ RequestedBefore(o, n + 1, b, g) =
              RequestedBefore(o, n, b, g)
                + IF OrderLines[o][n].book = b /\ OrderLines[o][n].grade = g
                  THEN OrderLines[o][n].quantity ELSE 0
<1> DEFINE L == Len(OrderLines[o])
           f == [i \in 1..L |-> OrderLines[o][i].quantity]
           S(m) == {i \in 1..L : i < m /\ OrderLines[o][i].book = b
                                       /\ OrderLines[o][i].grade = g}
           named == OrderLines[o][n].book = b /\ OrderLines[o][n].grade = g
<1>1. L \in Nat /\ IsFiniteSet(S(n)) /\ n \in Nat
  BY LinesAreFinite
<1>2. \A i \in 1..L : f[i] \in Nat
  BY OrderConstants
<1>3. f[n] = OrderLines[o][n].quantity
  OBVIOUS
<1>4. /\ RequestedBefore(o, n, b, g) = SumFunctionOnSet(f, S(n))
      /\ RequestedBefore(o, n + 1, b, g) = SumFunctionOnSet(f, S(n + 1))
  BY DEF RequestedBefore
<1>5. S(n + 1) = IF named THEN S(n) \cup {n} ELSE S(n)
  BY <1>1
<1>6. n \notin S(n) /\ S(n) \subseteq 1..L
  BY <1>1
<1> HIDE DEF f, S, named, L
<1>7. SumFunctionOnSet(f, S(n)) \in Nat
  <2>1. \A i \in S(n) : f[i] \in Nat
    BY <1>2, <1>6
  <2> QED BY <1>1, <2>1, SumNat
<1>8. SumFunctionOnSet(f, S(n) \cup {n}) = f[n] + SumFunctionOnSet(f, S(n))
  <2>1. \A i \in S(n) \cup {n} : f[i] \in Int
    BY <1>2, <1>6 DEF L
  <2> QED BY <1>1, <1>6, <2>1, SumAdd
<1>9. f[n] \in Nat
  BY <1>2 DEF L
<1>10. CASE named
  <2>1. RequestedBefore(o, n + 1, b, g) = f[n] + RequestedBefore(o, n, b, g)
    BY <1>4, <1>5, <1>8, <1>10
  <2> QED
    BY <1>3, <1>4, <1>7, <1>9, <1>10, <2>1 DEF named
<1>11. CASE ~named
  <2>1. RequestedBefore(o, n + 1, b, g) = RequestedBefore(o, n, b, g)
    BY <1>4, <1>5, <1>11
  <2>2. RequestedBefore(o, n, b, g) \in Nat
    BY <1>4, <1>7
  <2> QED
    BY <1>11, <2>1, <2>2 DEF named
<1> QED
  BY <1>10, <1>11

-----------------------------------------------------------------------------
(* Steps that leave the tables alone.                                      *)

(* What the tables add up to depends on these of them.                     *)
LEMMA TablesUnchanged ==
  ASSUME Ledger,
         UNCHANGED <<status, created, quantity, reserved, alloc, lpnAlloc>>,
         UNCHANGED <<virtualStock, received>>, lpnPriced' \in SUBSET Lpns
  PROVE  LedgerType' /\ AllOrNothing' /\ ReservedIsAllocated' /\ ShelvesBalance'
<1>1. LedgerType'
  BY DEF Ledger, LedgerType, Existing
<1>2. AllOrNothing'
  BY DEF Ledger, AllOrNothing, LpnsOf
<1>3. ReservedIsAllocated'
  BY DEF Ledger, ReservedIsAllocated, Picking
<1>4. ShelvesBalance'
  BY DEF Ledger, ShelvesBalance, OnShelves, Arrived, Departed, Shipped
<1> QED
  BY <1>1, <1>2, <1>3, <1>4

(* A transaction that is in order stays so.                                *)
LEMMA TxUnchanged ==
  ASSUME NEW x, TxLedger(x), UNCHANGED <<virtualStock, received, alloc, lpnAlloc>>
  PROVE  TxLedger(x)'
BY DEF TxLedger, PickProgress, ArrivesOnce, ShipsFromImages, ShippedBooks,
       AllocatedRows

(* A session takes a step inside its transaction.                          *)
LEMMA SessionLedger ==
  ASSUME HandlerInvariant, Ledger, UNCHANGED db, NEW s \in Sessions, NEW x,
         tx' = [tx EXCEPT ![s] = x], TxLedger(x)
  PROVE  Ledger'
<1>1. /\ UNCHANGED <<status, created, quantity, reserved, alloc, lpnAlloc>>
      /\ UNCHANGED <<virtualStock, received, lpnPriced>>
  BY DEF db
<1>2. \A t \in Sessions : tx'[t] = IF t = s THEN x ELSE tx[t]
  BY DEF HandlerInvariant, StockType
<1>3. ASSUME NEW t \in Sessions
      PROVE  TxLedger(tx[t])'
  <2>1. TxLedger(tx'[t])
    BY <1>2 DEF Ledger
  <2> QED
    BY <1>1, <2>1 DEF TxLedger, PickProgress, ArrivesOnce, ShipsFromImages,
         ShippedBooks, AllocatedRows, BookOf, Planned
<1>4. lpnPriced' \in SUBSET Lpns
  BY <1>1 DEF Ledger, LedgerType
<1> QED
  BY <1>1, <1>3, <1>4, TablesUnchanged DEF Ledger

-----------------------------------------------------------------------------
(* Taking locks.                                                           *)

(* What is planned is still planned, or it is the lock that is taken.      *)
LEMMA PlannedStep ==
  ASSUME NEW x, NEW y, x.plan \in Seq(Lock), x.plan # <<>>,
         y.plan = Tail(x.plan), NEW k, Planned(x, k)
  PROVE  Planned(y, k) \/ Head(x.plan) = k
<1>1. /\ Len(x.plan) \in Nat \ {0} /\ Len(y.plan) = Len(x.plan) - 1
      /\ Head(x.plan) = x.plan[1]
      /\ \A i \in 1..Len(y.plan) : y.plan[i] = x.plan[i + 1]
  BY HeadTailProperties
<1>2. PICK i \in 1..Len(x.plan) : x.plan[i] = k
  BY DEF Planned
<1>3. CASE i = 1
  BY <1>1, <1>2, <1>3
<1>4. CASE i # 1
  <2>1. i - 1 \in 1..Len(y.plan) /\ (i - 1) + 1 = i
    BY <1>1, <1>4
  <2>2. y.plan[i - 1] = k
    BY <1>1, <1>2, <2>1
  <2> QED
    BY <2>1, <2>2 DEF Planned
<1> QED
  BY <1>3, <1>4

(* A lock is taken off the plan; a book that is locked is read.            *)
TakesLock(t, x, k) ==
  /\ x.op = t.op /\ x.order = t.order /\ x.delivery = t.delivery
  /\ x.item = t.item /\ x.lpns = t.lpns /\ x.take = t.take
  /\ x.held = t.held \cup {k} /\ x.plan = Tail(t.plan)
  /\ x.virtual \in [Books -> Nat]
  /\ \A b \in Books :
       x.virtual[b] = IF k = BookLock(b) THEN virtualStock[b] ELSE t.virtual[b]

(* A lock that is granted changes nothing the ledger speaks of but the     *)
(* image of a book.                                                        *)
LEMMA LockLedger ==
  ASSUME HandlerInvariant, Ledger, NEW s \in Sessions, NEW k \in Lock,
         Wants(s, k), NEW x, TakesLock(tx[s], x, k),
         UNCHANGED db, tx' = [tx EXCEPT ![s] = x]
  PROVE  Ledger'
<1> USE DEF TakesLock
<1>1. /\ TxLedger(tx[s]) /\ tx[s].plan \in Seq(Lock) /\ tx[s].plan # <<>>
      /\ Head(tx[s].plan) = k
  BY DEF Ledger, HandlerInvariant, TxInv, TxType, Wants
<1>2. \A m : Planned(tx[s], m) => m \in x.held \/ Planned(x, m)
  BY <1>1, PlannedStep
<1>3. tx[s].op # "idle"
  BY <1>1 DEF TxLedger, Idle, Started
<1>4. PickProgress(x)
  BY <1>1 DEF TxLedger, PickProgress
<1>5. ArrivesOnce(x)
  BY <1>1, <1>2 DEF TxLedger, ArrivesOnce, BookOf
<1>6. ShipsFromImages(x)
  <2>1. ASSUME NEW b \in Books, BookLock(b) \in x.held, x.op = "ship"
        PROVE  x.virtual[b] = virtualStock[b]
    BY <1>1, <2>1 DEF TxLedger, ShipsFromImages
  <2> QED
    BY <1>1, <1>2, <2>1 DEF TxLedger, ShipsFromImages
<1>7. TxLedger(x)
  BY <1>3, <1>4, <1>5, <1>6 DEF TxLedger
<1> QED
  BY <1>7, SessionLedger

(* The lock of a row.                                                      *)
LEMMA LockRowLedger ==
  ASSUME HandlerInvariant, Ledger, NEW s \in Sessions, NEW r \in Rows, LockRow(s, r)
  PROVE  Ledger'
<1> DEFINE k == RowLock(r)
           x == [tx[s] EXCEPT !.held = @ \cup {k}, !.plan = Tail(@),
                              !.quantity[r] = quantity[r],
                              !.reserved[r] = reserved[r]]
           y == [tx[s] EXCEPT !.plan = Tail(@)]
<1>1. TxType(tx[s]) /\ TxLedger(tx[s])
  BY DEF HandlerInvariant, TxInv, Ledger
<1>2. k \in Lock /\ \A b : k # BookLock(b)
  BY LockTypes, DistinctLocks
<1>3. /\ x.op = tx[s].op /\ x.order = tx[s].order /\ x.delivery = tx[s].delivery
      /\ x.item = tx[s].item /\ x.lpns = tx[s].lpns /\ x.take = tx[s].take
      /\ x.held = tx[s].held \cup {k} /\ x.plan = Tail(tx[s].plan)
      /\ x.virtual = tx[s].virtual
  BY <1>1 DEF TxType
<1>4. /\ y.op = tx[s].op /\ y.order = tx[s].order /\ y.delivery = tx[s].delivery
      /\ y.item = tx[s].item /\ y.lpns = tx[s].lpns /\ y.take = tx[s].take
      /\ y.held = tx[s].held /\ y.plan = Tail(tx[s].plan)
      /\ y.virtual = tx[s].virtual
  BY <1>1 DEF TxType
<1>5. /\ Wants(s, k) /\ UNCHANGED db
      /\ \/ tx' = [tx EXCEPT ![s] = x]
         \/ k \in tx[s].held /\ tx' = [tx EXCEPT ![s] = y]
  BY DEF LockRow
<1>6. tx[s].virtual \in [Books -> Nat]
  BY <1>1 DEF TxLedger
<1>7. /\ \A b \in Books : x.virtual[b] = IF k = BookLock(b) THEN virtualStock[b]
                                          ELSE tx[s].virtual[b]
      /\ \A b \in Books : y.virtual[b] = IF k = BookLock(b) THEN virtualStock[b]
                                          ELSE tx[s].virtual[b]
  BY <1>2, <1>3, <1>4
<1> HIDE DEF x, y, k
<1>9. CASE tx' = [tx EXCEPT ![s] = x]
  <2>1. TakesLock(tx[s], x, k)
    BY <1>3, <1>6, <1>7 DEF TakesLock
  <2> QED
    BY <1>2, <1>5, <1>9, <2>1, LockLedger
<1>8. CASE k \in tx[s].held /\ tx' = [tx EXCEPT ![s] = y]
  <2>1. y.held = tx[s].held \cup {k}
    BY <1>4, <1>8
  <2>2. TakesLock(tx[s], y, k)
    BY <1>4, <1>6, <1>7, <2>1 DEF TakesLock
  <2> QED
    BY <1>2, <1>5, <1>8, <2>2, LockLedger
<1> QED
  BY <1>5, <1>8, <1>9

(* The lock of a book brings its virtual_stock.                            *)
LEMMA LockBookLedger ==
  ASSUME HandlerInvariant, Ledger, NEW s \in Sessions, NEW b \in Books, LockBook(s, b)
  PROVE  Ledger'
<1> DEFINE k == BookLock(b)
           x == [tx[s] EXCEPT !.held = @ \cup {k}, !.plan = Tail(@),
                              !.virtual[b] = virtualStock[b]]
<1>1. TxType(tx[s]) /\ tx[s].virtual \in [Books -> Nat] /\ virtualStock \in [Books -> Nat]
  BY DEF HandlerInvariant, TxInv, Ledger, TxLedger, LedgerType
<1>2. k \in Lock /\ \A c : k = BookLock(c) <=> b = c
  BY LockTypes DEF BookLock
<1>3. /\ x.op = tx[s].op /\ x.order = tx[s].order /\ x.delivery = tx[s].delivery
      /\ x.item = tx[s].item /\ x.lpns = tx[s].lpns /\ x.take = tx[s].take
      /\ x.held = tx[s].held \cup {k} /\ x.plan = Tail(tx[s].plan)
      /\ x.virtual = [tx[s].virtual EXCEPT ![b] = virtualStock[b]]
  BY <1>1 DEF TxType
<1>4. /\ x.virtual \in [Books -> Nat]
      /\ \A c \in Books : x.virtual[c] = IF k = BookLock(c) THEN virtualStock[c]
                                          ELSE tx[s].virtual[c]
  BY <1>1, <1>2, <1>3
<1>5. Wants(s, k) /\ UNCHANGED db /\ tx' = [tx EXCEPT ![s] = x]
  BY DEF LockBook
<1> HIDE DEF x, k
<1>6. TakesLock(tx[s], x, k)
  BY <1>3, <1>4 DEF TakesLock
<1> QED
  BY <1>2, <1>5, <1>6, LockLedger

(* The locks that bring no image.                                          *)
LEMMA LockOnlyLedger ==
  ASSUME HandlerInvariant, Ledger, NEW s \in Sessions, NEW k \in Lock, LockOnly(s, k)
  PROVE  Ledger'
<1> DEFINE x == [tx[s] EXCEPT !.held = @ \cup {k}, !.plan = Tail(@)]
<1>1. TxType(tx[s]) /\ tx[s].virtual \in [Books -> Nat]
  BY DEF HandlerInvariant, TxInv, Ledger, TxLedger
<1>2. \A b : k # BookLock(b)
  BY DEF LockOnly, BookLock
<1>3. /\ x.op = tx[s].op /\ x.order = tx[s].order /\ x.delivery = tx[s].delivery
      /\ x.item = tx[s].item /\ x.lpns = tx[s].lpns /\ x.take = tx[s].take
      /\ x.held = tx[s].held \cup {k} /\ x.plan = Tail(tx[s].plan)
      /\ x.virtual = tx[s].virtual
  BY <1>1 DEF TxType
<1>4. Wants(s, k) /\ UNCHANGED db /\ tx' = [tx EXCEPT ![s] = x]
  BY DEF LockOnly
<1>5. \A b \in Books : x.virtual[b] = IF k = BookLock(b) THEN virtualStock[b]
                                       ELSE tx[s].virtual[b]
  BY <1>2, <1>3
<1> HIDE DEF x
<1>6. TakesLock(tx[s], x, k)
  BY <1>1, <1>3, <1>5 DEF TakesLock
<1> QED
  BY <1>4, <1>6, LockLedger

(* A rollback forgets what the transaction has set aside.                  *)
LEMMA RollbackLedger ==
  ASSUME HandlerInvariant, Ledger, NEW s \in Sessions, Rollback(s)
  PROVE  Ledger'
<1>1. TxLedger(Idle)
  <2>1. Idle.op = "idle" /\ Idle.virtual \in [Books -> Nat]
    BY DEF Idle, Started
  <2> QED
    BY <2>1 DEF TxLedger, PickProgress, ArrivesOnce, ShipsFromImages
<1> QED
  BY <1>1, SessionLedger DEF Rollback

-----------------------------------------------------------------------------
(* Beginning.                                                              *)

(* A session that begins has not read any book yet.                        *)
LEMMA StartedVirtual ==
  ASSUME NEW op, NEW o, NEW d, NEW held, NEW plan
  PROVE  Started(op, o, d, held, plan).virtual \in [Books -> Nat]
BY DEF Started

(* Nothing is in order to begin with but the deliveries and the shipments. *)
LEMMA BeginLedger ==
  ASSUME HandlerInvariant, Ledger, NEW s \in Sessions, NEW op, NEW o, NEW d,
         NEW held, NEW plan, NEW x, x = Started(op, o, d, held, plan),
         op \in {"create", "pick", "scan", "ship", "locate"},
         op = "pick" => o \in Orders,
         ArrivesOnce(x), ShipsFromImages(x),
         UNCHANGED db, tx' = [tx EXCEPT ![s] = x]
  PROVE  Ledger'
<1>1. /\ x.op = op /\ x.order = o /\ x.item = 1 /\ x.lpns = {} /\ x.take = Blank
      /\ \A r \in Rows : Blank[r] = 0
  BY StartedFields
<1>2. PickProgress(x)
  <2> SUFFICES ASSUME op = "pick"
               PROVE  PickProgress(x)
    BY <1>1 DEF PickProgress
  <2>1. o \in Orders /\ 1 \in 1..(Len(OrderLines[o]) + 1)
    BY LinesAreFinite
  <2>2. ASSUME NEW b \in Books
        PROVE  SumFunctionOnSet(x.take, RowsOf(b)) = 0
    <3>1. \A r \in RowsOf(b) : x.take[r] = 0
      BY <1>1 DEF RowsOf
    <3> QED
      BY <3>1, RowsOfBook, SumNat
  <2>3. \A b, g : CopiesOf(x.lpns, b, g) = {}
    BY <1>1 DEF CopiesOf
  <2>4. \A b, g : Cardinality(CopiesOf(x.lpns, b, g)) = 0
    BY <2>3, FS_EmptySet
  <2> QED
    BY <1>1, <2>1, <2>2, <2>4, RequestedFirst DEF PickProgress
<1>3. TxLedger(x)
  BY <1>1, <1>2, StartedVirtual DEF TxLedger
<1> QED
  BY <1>3, SessionLedger

(* A handler of an order begins with nothing set aside.                    *)
LEMMA BeginOrderLedger ==
  ASSUME HandlerInvariant, Ledger, NEW s \in Sessions, NEW o \in Orders,
         \/ BeginCreate(s, o) \/ BeginPick(s, o)
         \/ \E r \in Rows : BeginScan(s, o, r)
  PROVE  Ledger'
<1>0. PICK op \in {"create", "pick", "scan"} :
        \E plan : tx' = [tx EXCEPT ![s] = Started(op, o, None, {OrderLock(o)}, plan)]
  BY DEF BeginCreate, BeginPick, BeginScan
<1>1. PICK plan : tx' = [tx EXCEPT ![s] = Started(op, o, None, {OrderLock(o)}, plan)]
  BY <1>0
<1> DEFINE x == Started(op, o, None, {OrderLock(o)}, plan)
<1>2. x.op = op
  BY StartedFields
<1>3. tx' = [tx EXCEPT ![s] = x] /\ UNCHANGED db
  BY <1>1 DEF BeginCreate, BeginPick, BeginScan
<1>4. x = Started(op, o, None, {OrderLock(o)}, plan)
  OBVIOUS
<1> HIDE DEF x
<1>5. ArrivesOnce(x) /\ ShipsFromImages(x)
  BY <1>2 DEF ArrivesOnce, ShipsFromImages
<1> QED
  BY <1>3, <1>4, <1>5, BeginLedger

(* The last part of a plan is planned.                                     *)
LEMMA PlannedLast ==
  ASSUME NEW a \in Seq(Lock), NEW c \in Seq(Lock), NEW i \in 1..Len(c)
  PROVE  \E j \in 1..Len(a \o c) : (a \o c)[j] = c[i]
<1>1. /\ Len(a \o c) = Len(a) + Len(c)
      /\ \A j \in 1..Len(a \o c) :
           (a \o c)[j] = IF j <= Len(a) THEN a[j] ELSE c[j - Len(a)]
  BY ConcatProperties
<1>2. Len(a) \in Nat /\ Len(c) \in Nat /\ i \in Nat /\ i >= 1 /\ i <= Len(c)
  OBVIOUS
<1>3. /\ Len(a) + i \in 1..Len(a \o c)
      /\ ~(Len(a) + i <= Len(a)) /\ (Len(a) + i) - Len(a) = i
  BY <1>1, <1>2
<1> QED
  BY <1>1, <1>3

(* A shipment plans the lock of every book it takes from.                  *)
LEMMA BeginShipLedger ==
  ASSUME HandlerInvariant, Ledger, NEW s \in Sessions, NEW o \in Orders,
         BeginShip(s, o)
  PROVE  Ledger'
<1> DEFINE books(u) == [i \in DOMAIN u |-> LpnBook[u[i]]]
           plan(p, u, q) == ShipRows(p) \o KeyLocks(books(u)) \o BookLocks(q)
<1>1. PICK p \in Listings(AllocatedRows(o)), u \in Listings(lpnAlloc[o]),
           q \in Listings(ShippedBooks(o)) :
        tx' = [tx EXCEPT ![s] =
                 Started("ship", o, None, {OrderLock(o)}, plan(p, u, q))]
  BY DEF BeginShip
<1> DEFINE x == Started("ship", o, None, {OrderLock(o)}, plan(p, u, q))
<1>2. /\ AllocatedRows(o) \in SUBSET Rows /\ lpnAlloc[o] \in SUBSET Lpns
      /\ ShippedBooks(o) \in SUBSET Books
  BY RowConstants, LpnConstants
     DEF HandlerInvariant, StockType, AllocatedRows, ShippedBooks
<1>3. ShipRows(p) \in Seq(Lock)
  BY <1>2, ShipRowsPlan
<1>4. KeyLocks(books(u)) \in Seq(Lock)
  <2>1. Len(u) \in Nat /\ DOMAIN u = 1..Len(u) /\ \A i \in 1..Len(u) : u[i] \in Lpns
    BY <1>2, ListingIsSeq, FiniteSubsets
  <2>2. books(u) \in [1..Len(u) -> Books]
    BY <2>1, LpnConstants
  <2> HIDE DEF books
  <2> QED
    BY <2>1, <2>2, BookLocksPlan
<1>5. /\ Len(q) \in Nat /\ DOMAIN q = 1..Len(q) /\ q \in [1..Len(q) -> Books]
      /\ \A b \in ShippedBooks(o) : \E i \in 1..Len(q) : q[i] = b
  BY <1>2, ListingIsSeq, FiniteSubsets
<1>6. /\ BookLocks(q) \in Seq(Lock) /\ Len(BookLocks(q)) = Len(q)
      /\ \A i \in 1..Len(q) : BookLocks(q)[i] = BookLock(q[i])
  BY <1>5, BookLocksPlan DEF BookLocks
<1> DEFINE first == ShipRows(p) \o KeyLocks(books(u))
<1>7. first \in Seq(Lock) /\ plan(p, u, q) = first \o BookLocks(q)
  BY <1>3, <1>4
<1> HIDE DEF books, plan, first
<1>8. ASSUME NEW b \in ShippedBooks(o)
      PROVE  \E j \in 1..Len(plan(p, u, q)) : plan(p, u, q)[j] = BookLock(b)
  <2>1. PICK i \in 1..Len(q) : q[i] = b
    BY <1>5
  <2>2. i \in 1..Len(BookLocks(q)) /\ BookLocks(q)[i] = BookLock(b)
    BY <1>6, <2>1
  <2> DEFINE last == BookLocks(q)
  <2>3. last \in Seq(Lock) /\ i \in 1..Len(last)
    BY <1>6, <2>2
  <2>4. \E j \in 1..Len(first \o last) : (first \o last)[j] = last[i]
    <3> HIDE DEF last
    <3> QED BY <1>7, <2>3, PlannedLast
  <2> QED
    BY <1>7, <2>2, <2>4
<1>9. /\ x.op = "ship" /\ x.order = o /\ x.held = {OrderLock(o)}
      /\ x.plan = plan(p, u, q)
  BY StartedFields
<1>10. tx' = [tx EXCEPT ![s] = x] /\ UNCHANGED db
  BY <1>1 DEF BeginShip
<1>11. x = Started("ship", o, None, {OrderLock(o)}, plan(p, u, q))
  OBVIOUS
<1> HIDE DEF x
<1>12. /\ \A b : BookLock(b) \notin x.held
       /\ \A r \in Rows : x.take[r] = 0
  BY <1>9, <1>11, StartedFields DEF BookLock, OrderLock
<1>13. ArrivesOnce(x) /\ ShipsFromImages(x)
  BY <1>8, <1>9, <1>12 DEF ArrivesOnce, ShipsFromImages, Planned
<1> QED
  BY <1>10, <1>11, <1>13, BeginLedger

(* A delivery begins when it was not received before.                      *)
LEMMA BeginArrivalLedger ==
  ASSUME HandlerInvariant, Ledger, NEW s \in Sessions, NEW d \in Deliveries,
         BeginReceive(s, d) \/ BeginApprove(s, d)
  PROVE  Ledger'
<1> DEFINE b == DeliveryBook[d]
           plan == <<RackLock(RackOf[b])>>
           locks == IF d \in AutoPo THEN {BookLock(b)} ELSE {IsbnLock(b), KeyLock(b)}
           x == Started("locate", None, d, locks, plan)
<1>1. BeginArrival(s, d, locks)
  BY DEF BeginReceive, BeginApprove
<1>2. x.op = "locate" /\ x.delivery = d /\ x.held = locks
  BY StartedFields
<1>3. tx' = [tx EXCEPT ![s] = x] /\ UNCHANGED db /\ d \notin received
  BY <1>1 DEF BeginArrival
<1>4. x = Started("locate", None, d, locks, plan)
  OBVIOUS
<1>5. (IF d \in AutoPo THEN BookLock(b) ELSE IsbnLock(b)) \in locks
  OBVIOUS
<1> HIDE DEF x, locks, plan
<1>6. ArrivesOnce(x) /\ ShipsFromImages(x)
  BY <1>2, <1>3, <1>5 DEF ArrivesOnce, ShipsFromImages, BookOf
<1>7. "locate" \in {"create", "pick", "scan", "ship", "locate"} /\ "locate" # "pick"
  OBVIOUS
<1> QED
  BY <1>3, <1>4, <1>6, <1>7, BeginLedger

-----------------------------------------------------------------------------
(* Picking and shelving, before the commit.                                *)

(* A copy is set aside for a line that asks for one of its book and grade. *)
LEMMA TakeLpnLedger ==
  ASSUME HandlerInvariant, Ledger, NEW s \in Sessions, NEW l \in Lpns, TakeLpn(s, l)
  PROVE  Ledger'
<1> DEFINE x == [tx[s] EXCEPT !.held = @ \cup {LpnLock(l)},
                              !.lpns = @ \cup {l}, !.item = @ + 1]
           o == tx[s].order
           n == tx[s].item
<1>1. TxType(tx[s]) /\ TxLedger(tx[s]) /\ tx[s].op = "pick" /\ OrderHeld(tx[s])
  BY DEF HandlerInvariant, TxInv, Ledger, TakeLpn, AtLine
<1>2. /\ x.lpns = tx[s].lpns \cup {l} /\ x.item = n + 1 /\ x.op = "pick"
      /\ x.order = o /\ x.take = tx[s].take /\ x.virtual = tx[s].virtual
  BY <1>1 DEF TxType
<1>3. tx' = [tx EXCEPT ![s] = x] /\ UNCHANGED db
  BY DEF TakeLpn
<1>4. o \in Orders /\ n \in 1..Len(OrderLines[o]) /\ Len(OrderLines[o]) \in Nat
  BY <1>1, LinesAreFinite DEF OrderHeld, TxLedger, PickProgress, TakeLpn, AtLine
<1>5. /\ LpnBook[l] = OrderLines[o][n].book /\ LpnGrade[l] = OrderLines[o][n].grade
      /\ OrderLines[o][n].grade # NewStock /\ l \notin tx[s].lpns
  BY DEF TakeLpn, FifoCandidates, LineOf
<1>6. OrderLines[o][n].quantity = 1
  BY <1>4, <1>5, OrderConstants
<1>7. \A b \in Books :
        /\ SumFunctionOnSet(tx[s].take, RowsOf(b)) = RequestedBefore(o, n, b, NewStock)
        /\ \A g \in GradesOfLpns :
             Cardinality(CopiesOf(tx[s].lpns, b, g)) = RequestedBefore(o, n, b, g)
  BY <1>1 DEF TxLedger, PickProgress
<1>8. tx[s].lpns \in SUBSET Lpns
  BY <1>1 DEF TxType
<1> HIDE DEF x, o, n
<1>9. ASSUME NEW b \in Books
      PROVE  SumFunctionOnSet(x.take, RowsOf(b)) = RequestedBefore(o, n + 1, b, NewStock)
  <2>1. RequestedBefore(o, n + 1, b, NewStock) = RequestedBefore(o, n, b, NewStock) + 0
    BY <1>4, <1>5, RequestedNext
  <2>2. RequestedBefore(o, n, b, NewStock) \in Nat
    BY <1>4, RequestedNext
  <2> QED
    BY <1>2, <1>7, <2>1, <2>2
<1>10. ASSUME NEW b \in Books, NEW g \in GradesOfLpns
       PROVE  Cardinality(CopiesOf(x.lpns, b, g)) = RequestedBefore(o, n + 1, b, g)
  <2> DEFINE C == CopiesOf(tx[s].lpns, b, g)
  <2>1. IsFiniteSet(C) /\ l \notin C
    BY <1>5, <1>8, FiniteSubsets DEF CopiesOf
  <2>2. Cardinality(C) = RequestedBefore(o, n, b, g) /\ RequestedBefore(o, n, b, g) \in Nat
    BY <1>4, <1>7, RequestedNext
  <2>3. CASE LpnBook[l] = b /\ LpnGrade[l] = g
    <3>1. CopiesOf(x.lpns, b, g) = C \cup {l}
      BY <1>2, <2>3 DEF CopiesOf
    <3>2. Cardinality(C \cup {l}) = Cardinality(C) + 1
      BY <2>1, FS_AddElement
    <3>3. RequestedBefore(o, n + 1, b, g) = RequestedBefore(o, n, b, g) + 1
      BY <1>4, <1>5, <1>6, <2>3, RequestedNext
    <3> QED
      BY <2>2, <3>1, <3>2, <3>3
  <2>4. CASE ~(LpnBook[l] = b /\ LpnGrade[l] = g)
    <3>1. CopiesOf(x.lpns, b, g) = C
      BY <1>2, <2>4 DEF CopiesOf
    <3>2. RequestedBefore(o, n + 1, b, g) = RequestedBefore(o, n, b, g) + 0
      BY <1>4, <1>5, <2>4, RequestedNext
    <3> QED
      BY <2>2, <3>1, <3>2
  <2> QED
    BY <2>3, <2>4
<1>11. PickProgress(x)
  <2>1. n + 1 \in 1..(Len(OrderLines[o]) + 1)
    BY <1>4
  <2> QED
    BY <1>2, <1>9, <1>10, <2>1 DEF PickProgress
<1>12. TxLedger(x)
  BY <1>1, <1>2, <1>11 DEF TxLedger, ArrivesOnce, ShipsFromImages
<1> QED
  BY <1>3, <1>12, SessionLedger

(* Choosing the rows for a line sets nothing aside.                        *)
LEMMA SelectRowsLedger ==
  ASSUME HandlerInvariant, Ledger, NEW s \in Sessions, SelectRows(s)
  PROVE  Ledger'
<1>1. PICK p : tx' = [tx EXCEPT ![s].op = "pickRows", ![s].plan = p]
  BY DEF SelectRows
<1> DEFINE x == [tx[s] EXCEPT !.op = "pickRows", !.plan = p]
<1>2. TxType(tx[s]) /\ TxLedger(tx[s]) /\ tx[s].op = "pick"
  BY DEF HandlerInvariant, TxInv, Ledger, SelectRows, AtLine
<1>3. /\ x.lpns = tx[s].lpns /\ x.item = tx[s].item /\ x.op = "pickRows"
      /\ x.order = tx[s].order /\ x.take = tx[s].take /\ x.virtual = tx[s].virtual
  BY <1>2 DEF TxType
<1>4. tx' = [tx EXCEPT ![s] = x] /\ UNCHANGED db
  BY <1>1 DEF SelectRows
<1>5. /\ tx[s].item <= Len(OrderLines[tx[s].order])
      /\ OrderLines[tx[s].order][tx[s].item].grade = NewStock
  BY DEF SelectRows, AtLine, LineOf
<1> HIDE DEF x
<1>6. PickProgress(x)
  BY <1>2, <1>3, <1>5 DEF TxLedger, PickProgress
<1>7. TxLedger(x)
  BY <1>2, <1>3, <1>6 DEF TxLedger, ArrivesOnce, ShipsFromImages
<1> QED
  BY <1>4, <1>7, SessionLedger

(* What the rows give adds up to what the line asks for, and comes from    *)
(* the rows of its book.                                                   *)
LEMMA SplitCoversLine ==
  ASSUME NEW s \in Sessions, LineOf(s).quantity \in Nat, NEW take \in FifoSplits(s),
         NEW b \in Books
  PROVE  /\ take \in PerRow
         /\ SumFunctionOnSet(take, RowsOf(b)) =
              IF LineOf(s).book = b THEN LineOf(s).quantity ELSE 0
<1>1. take \in [Rows -> Nat] /\ DOMAIN take = Rows
  BY DEF FifoSplits
<1>2. SumFunctionOnSet(take, Rows) = LineOf(s).quantity
  BY <1>1 DEF FifoSplits, SumFunction
<1>3. \A r \in Rows : take[r] > 0 => RowBook[r] = LineOf(s).book
  BY DEF FifoSplits, ItemRows, RowsOf
<1>4. CASE LineOf(s).book = b
  <2>1. /\ \A r \in Rows \ RowsOf(b) : take[r] = 0
        /\ \A r \in RowsOf(b) : take[r] \in Int
    BY <1>1, <1>3, <1>4 DEF RowsOf
  <2>2. SumFunctionOnSet(take, Rows) = SumFunctionOnSet(take, RowsOf(b))
    BY <2>1, RowsOfBook, RowsAreFinite, SumSupport
  <2> QED
    BY <1>1, <1>2, <1>4, <2>2 DEF PerRow
<1>5. CASE LineOf(s).book # b
  <2>1. \A r \in RowsOf(b) : take[r] = 0 /\ take[r] \in Nat
    BY <1>1, <1>3, <1>5 DEF RowsOf
  <2>2. SumFunctionOnSet(take, RowsOf(b)) = 0
    BY <2>1, RowsOfBook, SumNat
  <2> QED
    BY <1>1, <1>5, <2>2 DEF PerRow
<1> QED
  BY <1>4, <1>5

(* A line whose rows are locked is set aside in full.                      *)
LEMMA ReserveRowsLedger ==
  ASSUME HandlerInvariant, Ledger, NEW s \in Sessions, ReserveRows(s)
  PROVE  Ledger'
<1>1. PICK take \in FifoSplits(s) :
        tx' = [tx EXCEPT ![s].op = "pick", ![s].item = @ + 1,
                         ![s].reserved = [r \in Rows |-> @[r] + take[r]],
                         ![s].take = [r \in Rows |-> @[r] + take[r]]]
  BY DEF ReserveRows
<1> DEFINE x == [tx[s] EXCEPT !.op = "pick", !.item = @ + 1,
                              !.reserved = [r \in Rows |-> @[r] + take[r]],
                              !.take = [r \in Rows |-> @[r] + take[r]]]
           o == tx[s].order
           n == tx[s].item
<1>2. TxType(tx[s]) /\ TxLedger(tx[s]) /\ tx[s].op = "pickRows" /\ OrderHeld(tx[s])
  BY DEF HandlerInvariant, TxInv, Ledger, ReserveRows
<1>3. /\ x.lpns = tx[s].lpns /\ x.item = n + 1 /\ x.op = "pick" /\ x.order = o
      /\ x.take = [r \in Rows |-> tx[s].take[r] + take[r]]
      /\ x.virtual = tx[s].virtual
  BY <1>2 DEF TxType
<1>4. tx' = [tx EXCEPT ![s] = x] /\ UNCHANGED db
  BY <1>1 DEF ReserveRows
<1>5. /\ o \in Orders /\ n \in 1..Len(OrderLines[o]) /\ Len(OrderLines[o]) \in Nat
      /\ OrderLines[o][n].grade = NewStock
  BY <1>2, LinesAreFinite DEF OrderHeld, TxLedger, PickProgress
<1>6. LineOf(s) = OrderLines[o][n] /\ OrderLines[o][n].quantity \in Nat
  BY <1>5, OrderConstants DEF LineOf
<1>7. \A b \in Books :
        /\ SumFunctionOnSet(tx[s].take, RowsOf(b)) = RequestedBefore(o, n, b, NewStock)
        /\ \A g \in GradesOfLpns :
             Cardinality(CopiesOf(tx[s].lpns, b, g)) = RequestedBefore(o, n, b, g)
  BY <1>2 DEF TxLedger, PickProgress
<1>8. tx[s].take \in [Rows -> Nat]
  BY <1>2 DEF TxType, PerRow
<1> HIDE DEF x, o, n
<1>9. ASSUME NEW b \in Books
      PROVE  SumFunctionOnSet(x.take, RowsOf(b)) = RequestedBefore(o, n + 1, b, NewStock)
  <2>1. /\ take \in [Rows -> Nat]
        /\ SumFunctionOnSet(take, RowsOf(b)) =
             IF OrderLines[o][n].book = b THEN OrderLines[o][n].quantity ELSE 0
    BY <1>6, SplitCoversLine DEF PerRow
  <2>2. \A r \in RowsOf(b) : /\ tx[s].take[r] \in Int /\ take[r] \in Int
                             /\ x.take[r] = tx[s].take[r] + take[r]
    BY <1>3, <1>8, <2>1 DEF RowsOf
  <2>3. SumFunctionOnSet(x.take, RowsOf(b)) =
          SumFunctionOnSet(tx[s].take, RowsOf(b)) + SumFunctionOnSet(take, RowsOf(b))
    BY <2>2, RowsOfBook, SumPlus
  <2>4. RequestedBefore(o, n + 1, b, NewStock) =
          RequestedBefore(o, n, b, NewStock)
            + IF OrderLines[o][n].book = b THEN OrderLines[o][n].quantity ELSE 0
    BY <1>5, RequestedNext
  <2> QED
    BY <1>7, <2>1, <2>3, <2>4
<1>10. ASSUME NEW b \in Books, NEW g \in GradesOfLpns
       PROVE  Cardinality(CopiesOf(x.lpns, b, g)) = RequestedBefore(o, n + 1, b, g)
  <2>1. g # NewStock
    BY LpnConstants DEF GradesOfLpns
  <2>2. RequestedBefore(o, n + 1, b, g) = RequestedBefore(o, n, b, g) + 0
    BY <1>5, <2>1, RequestedNext
  <2>3. RequestedBefore(o, n, b, g) \in Nat
    BY <1>5, RequestedNext
  <2> QED
    BY <1>3, <1>7, <2>2, <2>3
<1>11. PickProgress(x)
  <2>1. n + 1 \in 1..(Len(OrderLines[o]) + 1)
    BY <1>5
  <2> QED
    BY <1>3, <1>9, <1>10, <2>1 DEF PickProgress
<1>12. TxLedger(x)
  BY <1>2, <1>3, <1>11 DEF TxLedger, ArrivesOnce, ShipsFromImages
<1> QED
  BY <1>4, <1>12, SessionLedger

(* The shelves of a delivery are to be locked, and virtual_stock after it. *)
LEMMA SelectShelvesLedger ==
  ASSUME HandlerInvariant, Ledger, NEW s \in Sessions, SelectShelves(s)
  PROVE  Ledger'
<1> DEFINE b == BookOf(tx[s])
<1>1. PICK p \in Ascending(RowsOf(b) \cap created) :
        tx' = [tx EXCEPT ![s].op = "receive", ![s].plan = RowLocks(p) \o <<UpdateLock(b)>>]
  BY DEF SelectShelves, BookOf
<1> DEFINE plan == RowLocks(p) \o <<UpdateLock(b)>>
           x == [tx[s] EXCEPT !.op = "receive", !.plan = plan]
<1>2. TxType(tx[s]) /\ TxLedger(tx[s]) /\ tx[s].op = "locate" /\ DeliveryCovers(tx[s])
  BY DEF HandlerInvariant, TxInv, Ledger, SelectShelves
<1>3. /\ x.op = "receive" /\ x.delivery = tx[s].delivery /\ x.held = tx[s].held
      /\ x.plan = plan /\ x.virtual = tx[s].virtual
  BY <1>2 DEF TxType
<1>4. tx' = [tx EXCEPT ![s] = x] /\ UNCHANGED db
  BY <1>1 DEF SelectShelves
<1>5. b \in Books /\ tx[s].delivery \in Deliveries
  BY <1>2, DeliveryConstants DEF DeliveryCovers, BookOf
<1>6. RowLocks(p) \in Seq(Lock)
  <2>1. p \in Listings(RowsOf(b) \cap created) /\ RowsOf(b) \cap created \in SUBSET Rows
    BY DEF Ascending, RowsOf
  <2> QED
    BY <2>1, RowLocksPlan
<1>7. \E j \in 1..Len(plan) : plan[j] = UpdateLock(b)
  <2>1. <<UpdateLock(b)>> \in Seq(Lock) /\ 1 \in 1..Len(<<UpdateLock(b)>>)
    BY <1>5, LockTypes
  <2>2. <<UpdateLock(b)>>[1] = UpdateLock(b)
    OBVIOUS
  <2> QED
    BY <1>6, <2>1, <2>2, PlannedLast
<1> HIDE DEF x, b, plan
<1>8. ArrivesOnce(x)
  <2>1. BookOf(x) = b /\ BookOf(tx[s]) = b
    BY <1>3 DEF BookOf, b
  <2> QED
    BY <1>2, <1>3, <1>7, <2>1 DEF TxLedger, ArrivesOnce, Planned
<1>9. TxLedger(x)
  BY <1>2, <1>3, <1>8 DEF TxLedger, PickProgress, ShipsFromImages
<1> QED
  BY <1>4, <1>9, SessionLedger

-----------------------------------------------------------------------------
(* Commits.                                                                *)

(* What a commit must leave alone for the transactions of the others: what *)
(* is being delivered, and the order and the books of a shipment.          *)
SparesTx(x) ==
  /\ x.op \in {"locate", "receive"} => x.delivery \notin received'
  /\ x.op = "ship" =>
       /\ alloc'[x.order] = alloc[x.order] /\ lpnAlloc'[x.order] = lpnAlloc[x.order]
       /\ \A b \in Books : BookLock(b) \in x.held => virtualStock'[b] = virtualStock[b]

(* What a commit of another session leaves a transaction.                  *)
LEMMA SparedTx ==
  ASSUME NEW x, TxLedger(x), SparesTx(x)
  PROVE  /\ x.virtual \in [Books -> Nat] /\ PickProgress(x)
         /\ x.op = "idle" => x = Idle
         /\ x.op \in {"locate", "receive"} =>
              /\ x.delivery \notin received'
              /\ (IF x.delivery \in AutoPo THEN BookLock(BookOf(x))
                  ELSE IsbnLock(BookOf(x))) \in x.held
              /\ x.op = "receive" => \/ UpdateLock(BookOf(x)) \in x.held
                                     \/ Planned(x, UpdateLock(BookOf(x)))
         /\ x.op = "ship" =>
              /\ \A r \in Rows : x.take[r] = 0
              /\ \A b \in {RowBook[r] : r \in {r \in Rows : alloc'[x.order][r] > 0}}
                            \cup {LpnBook[l] : l \in lpnAlloc'[x.order]} :
                   BookLock(b) \in x.held \/ Planned(x, BookLock(b))
              /\ \A b \in Books : BookLock(b) \in x.held => x.virtual[b] = virtualStock'[b]
BY DEF TxLedger, SparesTx, ArrivesOnce, ShipsFromImages, ShippedBooks, AllocatedRows

(* A session at rest contributes nothing.                                  *)
LEMMA IdleLedger == TxLedger(Idle)'
<1>1. Idle.op = "idle" /\ Idle.virtual \in [Books -> Nat]
  BY DEF Idle, Started
<1> QED
  BY <1>1 DEF TxLedger, PickProgress, ArrivesOnce, ShipsFromImages

(* Sessions a commit spares keep their part of the ledger.                 *)
LEMMA OthersSpared ==
  ASSUME Ledger, NEW t \in Sessions, tx'[t] = Idle \/ (tx'[t] = tx[t] /\ SparesTx(tx[t]))
  PROVE  TxLedger(tx[t])'
<1>1. CASE tx'[t] = Idle
  BY <1>1, IdleLedger
<1>2. CASE tx'[t] = tx[t] /\ SparesTx(tx[t])
  <2>1. TxLedger(tx[t])
    BY DEF Ledger
  <2> DEFINE x == tx[t]
  <2>2. /\ x.virtual \in [Books -> Nat] /\ PickProgress(x)
        /\ x.op = "idle" => x = Idle
    BY <1>2, <2>1, SparedTx
  <2>3. PickProgress(tx[t])'
    BY <1>2, <2>2 DEF PickProgress
  <2>4. ArrivesOnce(tx[t])'
    BY <1>2, <2>1, SparedTx DEF ArrivesOnce, Planned, BookOf
  <2>5. ShipsFromImages(tx[t])'
    BY <1>2, <2>1, SparedTx DEF ShipsFromImages, ShippedBooks, AllocatedRows, Planned
  <2> QED
    BY <1>2, <2>2, <2>3, <2>4, <2>5 DEF TxLedger
<1> QED
  BY <1>1, <1>2

(* What is there at any time is finite.                                    *)
LEMMA LedgerSetsFinite ==
  ASSUME Ledger
  PROVE  IsFiniteSet(Picking) /\ IsFiniteSet(Shipped)
<1>1. Picking \subseteq Existing /\ Shipped \subseteq Existing
  BY DEF Picking, Shipped, Existing
<1> QED
  BY <1>1, FS_Subset DEF Ledger, LedgerType

(* The types of the allocations, row by row.                               *)
LEMMA StockTypes ==
  ASSUME HandlerInvariant
  PROVE  /\ \A o \in Orders : /\ alloc[o] \in [Rows -> Nat] /\ lpnAlloc[o] \in SUBSET Lpns
                              /\ \A r \in Rows : alloc[o][r] \in Nat
         /\ \A r \in Rows : quantity[r] \in Nat /\ reserved[r] \in Nat
BY DEF HandlerInvariant, StockType, PerRow

(* What left the warehouse did not change.                                 *)
LEMMA DepartedSame ==
  ASSUME Ledger, Shipped' = Shipped, \A o \in Shipped : alloc'[o] = alloc[o], NEW b
  PROVE  Departed(b)' = Departed(b)
<1> DEFINE f == [o \in Orders |-> SumFunctionOnSet(alloc[o], RowsOf(b))]
           g == [o \in Orders |-> SumFunctionOnSet(alloc'[o], RowsOf(b))]
<1>1. \A o \in Shipped : f[o] = g[o]
  BY DEF Shipped
<1>2. SumFunctionOnSet(f, Shipped) = SumFunctionOnSet(g, Shipped)
  <2> HIDE DEF f, g
  <2> QED BY <1>1, LedgerSetsFinite, SumAgree
<1>3. Departed(b) = SumFunctionOnSet(f, Shipped)
  BY DEF Departed
<1>4. Departed(b)' = SumFunctionOnSet(g, Shipped')
  BY DEF Departed, RowsOf
<1> QED
  BY <1>2, <1>3, <1>4

(* A new order asks for nothing yet.                                       *)
LEMMA CommitCreateLedger ==
  ASSUME HandlerInvariant, Ledger, NEW s \in Sessions, CommitCreate(s)
  PROVE  Ledger'
<1> DEFINE o == tx[s].order
<1>1. o \in Orders /\ status[o] = "NONE"
  BY DEF HandlerInvariant, TxInv, OrderHeld, CommitCreate
<1>2. /\ status' = [status EXCEPT ![o] = "PENDING"]
      /\ UNCHANGED <<created, quantity, reserved, alloc, lpnAlloc, lpnPriced>>
      /\ UNCHANGED <<virtualStock, received>>
      /\ tx' = [tx EXCEPT ![s] = Idle]
  BY DEF CommitCreate
<1> HIDE DEF o
<1>3. /\ status'[o] = "PENDING" /\ \A p \in Orders \ {o} : status'[p] = status[p]
  BY <1>1, <1>2 DEF HandlerInvariant, StockType
<1>4. /\ Existing' = Existing \cup {o} /\ Picking' = Picking /\ Shipped' = Shipped
  BY <1>1, <1>3 DEF Existing, Picking, Shipped
<1>5. LedgerType'
  <2>1. IsFiniteSet(Existing')
    BY <1>4, FS_AddElement DEF Ledger, LedgerType
  <2> QED
    BY <1>2, <2>1 DEF Ledger, LedgerType
<1>6. ASSUME NEW t \in Sessions
      PROVE  TxLedger(tx[t])'
  <2>1. tx'[t] = Idle \/ tx'[t] = tx[t]
    BY <1>2, CommitStep
  <2>2. SparesTx(tx[t])
    BY <1>2 DEF Ledger, TxLedger, SparesTx, ArrivesOnce
  <2> QED
    BY <2>1, <2>2, OthersSpared
<1>7. AllOrNothing'
  <2>1. \A p \in Orders : status'[p] \in {"PICKING", "SHIPPED"}
                            <=> status[p] \in {"PICKING", "SHIPPED"}
    BY <1>1, <1>3
  <2> QED
    BY <1>2, <2>1 DEF Ledger, AllOrNothing, LpnsOf
<1>8. ReservedIsAllocated'
  BY <1>2, <1>4 DEF Ledger, ReservedIsAllocated
<1>9. ShelvesBalance'
  <2>1. \A b \in Books : Departed(b)' = Departed(b)
    BY <1>2, <1>4, DepartedSame
  <2> QED
    BY <1>2, <2>1 DEF Ledger, ShelvesBalance, OnShelves, Arrived
<1> QED
  BY <1>5, <1>6, <1>7, <1>8, <1>9 DEF Ledger

(* A scan counts, and a price is a price.                                  *)
LEMMA ScanLedger ==
  ASSUME HandlerInvariant, Ledger,
         \/ \E s \in Sessions, r \in Rows : CommitScan(s, r)
         \/ \E o \in Orders, l \in Lpns : ScanLpn(o, l)
         \/ \E l \in Lpns : PriceLpn(l)
  PROVE  Ledger'
<1>1. /\ UNCHANGED <<status, created, quantity, reserved, alloc, lpnAlloc>>
      /\ UNCHANGED <<virtualStock, received>>
      /\ lpnPriced' \in SUBSET Lpns
  BY DEF CommitScan, ScanLpn, PriceLpn, Ledger, LedgerType
<1>2. \/ UNCHANGED tx
      \/ \E s \in Sessions : tx' = [tx EXCEPT ![s] = Idle]
  BY DEF CommitScan, ScanLpn, PriceLpn
<1>3. ASSUME NEW t \in Sessions
      PROVE  TxLedger(tx[t])'
  <2>1. tx'[t] = Idle \/ tx'[t] = tx[t]
    BY <1>2, CommitStep
  <2>2. SparesTx(tx[t])
    BY <1>1 DEF Ledger, TxLedger, SparesTx, ArrivesOnce
  <2> QED
    BY <2>1, <2>2, OthersSpared
<1> QED
  BY <1>1, <1>3, TablesUnchanged DEF Ledger

(* A pick commits all that its order asks for.                             *)
LEMMA PickedInFull ==
  ASSUME HandlerInvariant, Ledger, NEW s \in Sessions, CommitPick(s), NEW o, o = tx[s].order
  PROVE  /\ o \in Orders /\ status[o] = "PENDING" /\ tx[s].lpns \in SUBSET Lpns
         /\ tx[s].take \in [Rows -> Nat]
         /\ \A b \in Books :
              /\ SumFunctionOnSet(tx[s].take, RowsOf(b)) = Requested(o, b, NewStock)
              /\ \A g \in GradesOfLpns :
                   Cardinality(CopiesOf(tx[s].lpns, b, g)) = Requested(o, b, g)
         /\ \A r \in Rows : IF tx[s].take[r] > 0
                            THEN tx[s].reserved[r] = reserved[r] + tx[s].take[r]
                            ELSE tx[s].take[r] = 0
         /\ \A r \in Rows : tx[s].take[r] <= quantity[r] - reserved[r]
<1> DEFINE x == tx[s]
<1>1. TxInv(x) /\ TxLedger(x) /\ x.op = "pick" /\ x.item > Len(OrderLines[x.order])
  BY DEF HandlerInvariant, Ledger, CommitPick
<1>2. o \in Orders /\ status[o] = "PENDING" /\ Len(OrderLines[o]) \in Nat
  BY <1>1, LinesAreFinite DEF TxInv, OrderHeld
<1>3. x.lpns \in SUBSET Lpns /\ x.take \in [Rows -> Nat]
  BY <1>1 DEF TxInv, TxType, PerRow
<1>4. x.item \in 1..(Len(OrderLines[o]) + 1)
  BY <1>1 DEF TxLedger, PickProgress
<1>5. x.item = Len(OrderLines[o]) + 1
  BY <1>1, <1>2, <1>4
<1>6. \A b \in Books :
        /\ SumFunctionOnSet(x.take, RowsOf(b)) = RequestedBefore(o, x.item, b, NewStock)
        /\ \A g \in GradesOfLpns :
             Cardinality(CopiesOf(x.lpns, b, g)) = RequestedBefore(o, x.item, b, g)
  BY <1>1 DEF TxLedger, PickProgress
<1>7. ASSUME NEW r \in Rows
      PROVE  /\ IF x.take[r] > 0 THEN x.reserved[r] = reserved[r] + x.take[r]
                ELSE x.take[r] = 0
             /\ x.take[r] <= quantity[r] - reserved[r]
  <2>1. /\ x.take[r] \in Nat /\ quantity[r] \in Nat /\ reserved[r] \in Nat
        /\ reserved[r] <= quantity[r]
    BY <1>3, StockTypes DEF HandlerInvariant, StockWithinBounds
  <2>2. CASE r \in RowsHeld(x)
    <3>1. x.quantity[r] = quantity[r] /\ x.reserved[r] = reserved[r] + x.take[r]
          /\ x.reserved[r] <= x.quantity[r]
      BY <1>1, <2>2 DEF TxInv, ImagesAgree
    <3> HIDE DEF x
    <3> QED
      BY <2>1, <3>1
  <2>3. CASE r \notin RowsHeld(x)
    <3>1. x.take[r] = 0
      BY <1>1, <2>3 DEF TxInv, ImagesAgree
    <3> HIDE DEF x
    <3> QED
      BY <2>1, <3>1
  <2> QED
    BY <2>2, <2>3
<1> QED
  BY <1>2, <1>3, <1>5, <1>6, <1>7, RequestedAll

(* What a pick has set aside for all lines becomes the allocation of its   *)
(* order.                                                                  *)
LEMMA CommitPickLedger ==
  ASSUME HandlerInvariant, Ledger, NEW s \in Sessions, CommitPick(s)
  PROVE  Ledger'
<1> DEFINE x == tx[s]
           o == tx[s].order
<1>1. /\ o \in Orders /\ status[o] = "PENDING" /\ x.lpns \in SUBSET Lpns
      /\ x.take \in [Rows -> Nat]
      /\ \A b \in Books :
           /\ SumFunctionOnSet(x.take, RowsOf(b)) = Requested(o, b, NewStock)
           /\ \A g \in GradesOfLpns :
                Cardinality(CopiesOf(x.lpns, b, g)) = Requested(o, b, g)
      /\ \A r \in Rows : IF x.take[r] > 0 THEN x.reserved[r] = reserved[r] + x.take[r]
                         ELSE x.take[r] = 0
  BY PickedInFull
<1>2. /\ status' = [status EXCEPT ![o] = "PICKING"]
      /\ alloc' = [alloc EXCEPT ![o] = x.take]
      /\ lpnAlloc' = [lpnAlloc EXCEPT ![o] = x.lpns]
      /\ reserved' = [r \in Rows |-> IF x.take[r] > 0 THEN x.reserved[r]
                                                      ELSE reserved[r]]
      /\ UNCHANGED <<created, quantity, lpnPriced, virtualStock, received>>
      /\ tx' = [tx EXCEPT ![s] = Idle]
  BY DEF CommitPick
<1> HIDE DEF o, x
<1>3. /\ \A p \in Orders : p # o => /\ status'[p] = status[p]
                                    /\ alloc'[p] = alloc[p]
                                    /\ lpnAlloc'[p] = lpnAlloc[p]
      /\ status'[o] = "PICKING" /\ alloc'[o] = x.take /\ lpnAlloc'[o] = x.lpns
  BY <1>1, <1>2 DEF HandlerInvariant, StockType
<1>4. /\ Existing' = Existing /\ Shipped' = Shipped
      /\ Picking' = Picking \cup {o} /\ o \notin Picking /\ o \notin Shipped
  BY <1>1, <1>3 DEF Existing, Picking, Shipped
<1>5. LedgerType'
  BY <1>2, <1>4 DEF Ledger, LedgerType
<1>6. ASSUME NEW t \in Sessions
      PROVE  TxLedger(tx[t])'
  <2>1. tx'[t] = Idle \/ tx'[t] = tx[t]
    BY <1>2, CommitStep
  <2>2. tx[t].op = "ship" => tx[t].order \in Orders /\ tx[t].order # o
    BY <1>1 DEF HandlerInvariant, TxInv, OrderHeld
  <2>3. SparesTx(tx[t])
    BY <1>2, <1>3, <2>2 DEF Ledger, TxLedger, SparesTx, ArrivesOnce
  <2> QED
    BY <2>1, <2>3, OthersSpared
<1>7. AllOrNothing'
  <2> SUFFICES ASSUME NEW p \in Orders, NEW b \in Books
               PROVE  /\ SumFunctionOnSet(alloc'[p], RowsOf(b))
                           = IF status'[p] \in {"PICKING", "SHIPPED"}
                             THEN Requested(p, b, NewStock) ELSE 0
                      /\ \A g \in {LpnGrade[l] : l \in Lpns} :
                           Cardinality({l \in LpnsOf(p, b)' : LpnGrade[l] = g})
                             = IF status'[p] \in {"PICKING", "SHIPPED"}
                               THEN Requested(p, b, g) ELSE 0
    BY DEF AllOrNothing
  <2>1. CASE p = o
    <3>1. \A g : {l \in LpnsOf(p, b)' : LpnGrade[l] = g} = CopiesOf(x.lpns, b, g)
      BY <1>3, <2>1 DEF LpnsOf, CopiesOf
    <3>2. status'[p] \in {"PICKING", "SHIPPED"} /\ alloc'[p] = x.take
      BY <1>3, <2>1
    <3>3. SumFunctionOnSet(alloc'[p], RowsOf(b)) = Requested(p, b, NewStock)
      BY <1>1, <2>1, <3>2
    <3>4. \A g \in {LpnGrade[l] : l \in Lpns} :
            Cardinality(CopiesOf(x.lpns, b, g)) = Requested(p, b, g)
      BY <1>1, <2>1 DEF GradesOfLpns
    <3> QED
      BY <3>1, <3>2, <3>3, <3>4
  <2>2. CASE p # o
    <3>1. status'[p] = status[p] /\ alloc'[p] = alloc[p] /\ LpnsOf(p, b)' = LpnsOf(p, b)
      BY <1>3, <2>2 DEF LpnsOf
    <3>2. /\ SumFunctionOnSet(alloc[p], RowsOf(b))
               = IF status[p] \in {"PICKING", "SHIPPED"}
                 THEN Requested(p, b, NewStock) ELSE 0
          /\ \A g \in {LpnGrade[l] : l \in Lpns} :
               Cardinality({l \in LpnsOf(p, b) : LpnGrade[l] = g})
                 = IF status[p] \in {"PICKING", "SHIPPED"}
                   THEN Requested(p, b, g) ELSE 0
      BY DEF Ledger, AllOrNothing
    <3> QED
      BY <3>1, <3>2
  <2> QED
    BY <2>1, <2>2
<1>8. ReservedIsAllocated'
  <2> SUFFICES ASSUME NEW r \in Rows
               PROVE  reserved'[r] =
                        SumFunctionOnSet([p \in Orders |-> alloc'[p][r]], Picking')
    BY DEF ReservedIsAllocated
  <2> DEFINE f == [p \in Orders |-> alloc[p][r]]
             g == [p \in Orders |-> alloc'[p][r]]
  <2>1. g[o] = x.take[r] /\ \A p \in Picking : g[p] = f[p]
    BY <1>1, <1>3, <1>4 DEF Picking
  <2>2. \A p \in Picking : f[p] \in Int
    BY StockTypes DEF Picking
  <2>3. x.take[r] \in Nat /\ reserved[r] \in Nat
    BY <1>1, StockTypes
  <2>4. reserved[r] = SumFunctionOnSet(f, Picking)
    BY DEF Ledger, ReservedIsAllocated
  <2>5. reserved'[r] = reserved[r] + x.take[r]
    BY <1>1, <1>2, <2>3
  <2> HIDE DEF f, g
  <2>6. IsFiniteSet(Picking) /\ \A p \in Picking \cup {o} : g[p] \in Int
    BY <2>1, <2>2, <2>3, LedgerSetsFinite
  <2>7. SumFunctionOnSet(g, Picking \cup {o}) = g[o] + SumFunctionOnSet(g, Picking)
    BY <1>4, <2>6, SumAdd
  <2>8. SumFunctionOnSet(g, Picking) = SumFunctionOnSet(f, Picking)
    BY <2>1, <2>6, SumAgree
  <2>9. reserved'[r] = SumFunctionOnSet(g, Picking')
    BY <1>4, <2>1, <2>3, <2>4, <2>5, <2>7, <2>8
  <2> QED
    BY <2>9 DEF g
<1>9. ShelvesBalance'
  <2>1. \A p \in Shipped : alloc'[p] = alloc[p]
    BY <1>3, <1>4 DEF Shipped
  <2>2. \A b \in Books : Departed(b)' = Departed(b)
    BY <1>4, <2>1, DepartedSame
  <2> QED
    BY <1>2, <2>2 DEF Ledger, ShelvesBalance, OnShelves, Arrived
<1> QED
  BY <1>5, <1>6, <1>7, <1>8, <1>9 DEF Ledger

(* The terms of the balance are integers.                                  *)
LEMMA LedgerTerms ==
  ASSUME HandlerInvariant, Ledger, NEW b
  PROVE  /\ SumFunctionOnSet(InitialStock, RowsOf(b)) \in Int
         /\ Arrived(b) \in Int /\ OnShelves(b) \in Int
<1>1. SumFunctionOnSet(InitialStock, RowsOf(b)) \in Int
  <2>1. \A r \in RowsOf(b) : InitialStock[r] \in Int
    BY RowConstants DEF RowsOf
  <2> QED
    BY <2>1, RowsOfBook, SumInt
<1>2. Arrived(b) \in Int
  <2> DEFINE S == {d \in received : DeliveryBook[d] = b}
  <2>1. IsFiniteSet(S) /\ \A d \in S : DeliveryQty[d] \in Int
    <3>1. S \subseteq received /\ received \in SUBSET Deliveries /\ IsFiniteSet(received)
      BY DEF Ledger, LedgerType
    <3> QED
      BY <3>1, FS_Subset, DeliveryConstants
  <2>2. SumFunctionOnSet(DeliveryQty, S) \in Int
    <3> HIDE DEF S
    <3> QED BY <2>1, SumInt
  <2> QED
    BY <2>2 DEF Arrived
<1>3. OnShelves(b) \in Int
  <2>1. \A r \in RowsOf(b) : quantity[r] \in Int
    BY StockTypes DEF RowsOf
  <2> QED
    BY <2>1, RowsOfBook, SumInt DEF OnShelves
<1> QED
  BY <1>1, <1>2, <1>3

(* What is taken from the rows is gone from the shelves.                   *)
LEMMA ShelvesAfterShipment ==
  ASSUME HandlerInvariant, NEW o \in Orders, NEW b,
         \A r \in Rows : quantity'[r] = quantity[r] - alloc[o][r]
  PROVE  OnShelves(b)' = OnShelves(b) - SumFunctionOnSet(alloc[o], RowsOf(b))
<1> DEFINE S == RowsOf(b)
<1>1. \A r \in S : /\ quantity'[r] \in Int /\ alloc[o][r] \in Int
                   /\ quantity[r] = quantity'[r] + alloc[o][r]
  BY StockTypes DEF RowsOf
<1>2. IsFiniteSet(S)
  BY RowsOfBook
<1>3. OnShelves(b) = SumFunctionOnSet(quantity, S) /\ OnShelves(b)' = SumFunctionOnSet(quantity', S)
  BY DEF OnShelves, RowsOf
<1> HIDE DEF S
<1>4. SumFunctionOnSet(quantity, S) = SumFunctionOnSet(quantity', S) + SumFunctionOnSet(alloc[o], S)
  BY <1>1, <1>2, SumPlus
<1>5. SumFunctionOnSet(quantity', S) \in Int /\ SumFunctionOnSet(alloc[o], S) \in Int
  BY <1>1, <1>2, SumInt
<1> QED
  BY <1>3, <1>4, <1>5 DEF S

(* A book that one session has locked is neither locked nor updated by     *)
(* another, and two sessions do not deliver under the same ISBN.           *)
LEMMA BooksExclude ==
  ASSUME HandlerInvariant, NEW s \in Sessions, NEW t \in Sessions, s # t
  PROVE  \A b : /\ ~(BookLock(b) \in tx[s].held /\ BookLock(b) \in tx[t].held)
                /\ ~(UpdateLock(b) \in tx[s].held /\ BookLock(b) \in tx[t].held)
                /\ ~(IsbnLock(b) \in tx[s].held /\ IsbnLock(b) \in tx[t].held)
<1>1. \A k \in tx[s].held, m \in tx[t].held : ~Conflict(k, m)
  BY DEF HandlerInvariant, LocksExclude
<1>2. \A b : /\ Conflict(BookLock(b), BookLock(b)) /\ Conflict(IsbnLock(b), IsbnLock(b))
             /\ Conflict(UpdateLock(b), BookLock(b))
  BY DEF Conflict, BookLock, IsbnLock, UpdateLock
<1> QED
  BY <1>1, <1>2

(* A shipment takes from its rows what is allocated to the order, and its  *)
(* images of the books are up to date.                                     *)
LEMMA ShipsAllocated ==
  ASSUME HandlerInvariant, Ledger, NEW s \in Sessions, CommitShip(s), NEW o, o = tx[s].order
  PROVE  /\ o \in Orders /\ status[o] = "PICKING"
         /\ \A r \in Rows : /\ quantity'[r] = quantity[r] - alloc[o][r]
                            /\ reserved'[r] = reserved[r] - alloc[o][r]
                            /\ alloc[o][r] <= quantity[r]
         /\ \A l \in lpnAlloc[o] : lpn[l] = "RESERVED"
         /\ \A b \in ShippedBooks(o) :
              BookLock(b) \in tx[s].held /\ tx[s].virtual[b] = virtualStock[b]
         /\ ShippedBooks(o) \subseteq Books
<1> DEFINE x == tx[s]
<1>1. TxInv(x) /\ TxLedger(x) /\ x.op = "ship" /\ x.plan = <<>>
  BY DEF HandlerInvariant, Ledger, CommitShip
<1>2. o \in Orders /\ status[o] = "PICKING"
  BY <1>1 DEF TxInv, OrderHeld
<1>3. /\ \A r \in Rows : alloc[o][r] > 0 => /\ x.quantity[r] >= alloc[o][r]
                                            /\ x.reserved[r] >= alloc[o][r]
      /\ \A l \in lpnAlloc[o] : lpn[l] = "RESERVED"
  BY DEF CommitShip, Shippable, AllocatedRows
<1>4. ShippedBooks(o) \subseteq Books
  BY <1>2, StockTypes, RowConstants, LpnConstants DEF ShippedBooks, AllocatedRows
<1>5. \A b : ~Planned(x, b)
  <2>1. Len(x.plan) = 0
    BY <1>1
  <2> HIDE DEF x
  <2> QED
    BY <2>1 DEF Planned
<1>6. \A b \in ShippedBooks(o) : BookLock(b) \in x.held /\ x.virtual[b] = virtualStock[b]
  BY <1>1, <1>4, <1>5 DEF TxLedger, ShipsFromImages
<1>7. ASSUME NEW r \in Rows
      PROVE  /\ quantity'[r] = quantity[r] - alloc[o][r]
             /\ reserved'[r] = reserved[r] - alloc[o][r]
             /\ alloc[o][r] <= quantity[r]
  <2>1. alloc[o][r] \in Nat /\ quantity[r] \in Nat /\ reserved[r] \in Nat
    BY <1>2, StockTypes
  <2>2. /\ quantity'[r] = IF alloc[o][r] > 0 THEN x.quantity[r] - alloc[o][r] ELSE quantity[r]
        /\ reserved'[r] = IF alloc[o][r] > 0 THEN x.reserved[r] - alloc[o][r] ELSE reserved[r]
    BY DEF CommitShip
  <2>3. CASE alloc[o][r] > 0
    <3>1. x.quantity[r] # 0
      BY <1>3, <2>1, <2>3
    <3>2. x.quantity[r] = quantity[r] /\ x.reserved[r] = reserved[r] + x.take[r]
      BY <1>1, <3>1 DEF TxInv, ImagesAgree
    <3>3. x.take[r] = 0
      BY <1>1 DEF TxLedger, ShipsFromImages
    <3>4. x.quantity[r] >= alloc[o][r]
      BY <1>3, <2>3
    <3> HIDE DEF x
    <3> QED
      BY <2>1, <2>2, <2>3, <3>2, <3>3, <3>4
  <2>4. CASE ~(alloc[o][r] > 0)
    <3> HIDE DEF x
    <3> QED
      BY <2>1, <2>2, <2>4
  <2> QED
    BY <2>3, <2>4
<1> QED
  BY <1>2, <1>3, <1>4, <1>6, <1>7

(* What a shipment takes of a book.                                        *)
LEMMA ShippedOfBook ==
  ASSUME HandlerInvariant, NEW o \in Orders, NEW b
  PROVE  /\ SumFunctionOnSet(alloc[o], RowsOf(b)) \in Nat
         /\ IsFiniteSet(LpnsOf(o, b)) /\ Cardinality(LpnsOf(o, b)) \in Nat
         /\ ShippedQuantity(o, b) \in Nat
         /\ b \notin ShippedBooks(o) => /\ SumFunctionOnSet(alloc[o], RowsOf(b)) = 0
                                        /\ LpnsOf(o, b) = {}
<1>1. \A r \in RowsOf(b) : alloc[o][r] \in Nat
  BY StockTypes DEF RowsOf
<1>2. /\ SumFunctionOnSet(alloc[o], RowsOf(b)) \in Nat
      /\ SumFunctionOnSet(alloc[o], RowsOf(b)) = 0 <=> \A r \in RowsOf(b) : alloc[o][r] = 0
  BY <1>1, RowsOfBook, SumNat
<1>3. LpnsOf(o, b) \in SUBSET Lpns
  BY StockTypes DEF LpnsOf
<1>4. IsFiniteSet(LpnsOf(o, b)) /\ Cardinality(LpnsOf(o, b)) \in Nat
  BY <1>3, FiniteSubsets, FS_CardinalityType
<1>5. ASSUME b \notin ShippedBooks(o)
      PROVE  (\A r \in RowsOf(b) : alloc[o][r] = 0) /\ LpnsOf(o, b) = {}
  <2>1. \A r \in RowsOf(b) : ~(alloc[o][r] > 0)
    BY <1>5 DEF ShippedBooks, RowsOf, AllocatedRows
  <2> QED
    BY <1>1, <1>5, <2>1 DEF ShippedBooks, LpnsOf
<1> QED
  BY <1>2, <1>4, <1>5 DEF ShippedQuantity

(* A shipment takes its allocation off the shelves, and no more.           *)
LEMMA CommitShipLedger ==
  ASSUME HandlerInvariant, Ledger, NEW s \in Sessions, CommitShip(s)
  PROVE  Ledger'
<1> DEFINE o == tx[s].order
           x == tx[s]
<1>1. /\ o \in Orders /\ status[o] = "PICKING"
      /\ \A r \in Rows : /\ quantity'[r] = quantity[r] - alloc[o][r]
                         /\ reserved'[r] = reserved[r] - alloc[o][r]
      /\ \A b \in ShippedBooks(o) : BookLock(b) \in x.held
  BY ShipsAllocated
<1>2. /\ status' = [status EXCEPT ![o] = "SHIPPED"]
      /\ virtualStock' = [b \in Books |->
           IF b \in ShippedBooks(o) THEN Larger(x.virtual[b] - ShippedQuantity(o, b), 0)
           ELSE virtualStock[b]]
      /\ UNCHANGED <<created, alloc, lpnAlloc, lpnPriced, received>>
      /\ tx' = [tx EXCEPT ![s] = Idle]
  BY DEF CommitShip
<1>3. x.virtual \in [Books -> Nat] /\ virtualStock \in [Books -> Nat]
  BY DEF Ledger, TxLedger, LedgerType
<1>4. ASSUME NEW t \in Sessions \ {s}, NEW b, BookLock(b) \in tx[t].held
      PROVE  b \notin ShippedBooks(o)
  BY <1>1, <1>4, BooksExclude
<1> HIDE DEF o, x
<1>5. /\ \A p \in Orders : p # o => status'[p] = status[p]
      /\ status'[o] = "SHIPPED"
  BY <1>1, <1>2 DEF HandlerInvariant, StockType
<1>6. /\ Existing' = Existing /\ Shipped' = Shipped \cup {o} /\ o \notin Shipped
      /\ Picking' = Picking \ {o} /\ o \in Picking
  BY <1>1, <1>5 DEF Existing, Picking, Shipped
<1>7. LedgerType'
  <2>1. virtualStock' \in [Books -> Nat]
    <3>1. ASSUME NEW b \in Books
          PROVE  virtualStock'[b] \in Nat
      <4>1. ShippedQuantity(o, b) \in Nat /\ x.virtual[b] \in Nat /\ virtualStock[b] \in Nat
        BY <1>1, <1>3, ShippedOfBook
      <4>2. Larger(x.virtual[b] - ShippedQuantity(o, b), 0) \in Nat
        BY <4>1 DEF Larger
      <4> QED
        BY <1>2, <4>1, <4>2
    <3> QED
      BY <1>2, <3>1
  <2>2. ASSUME NEW r \in Rows \ created'
        PROVE  quantity'[r] = 0
    <3>1. quantity[r] = 0 /\ ~(alloc[o][r] > 0) /\ alloc[o][r] \in Nat
      BY <1>1, <1>2, StockTypes
         DEF HandlerInvariant, AllocatedExist, AllocatedRows, Ledger, LedgerType
    <3> QED
      BY <1>1, <3>1
  <2> QED
    BY <1>2, <1>6, <2>1, <2>2 DEF Ledger, LedgerType
<1>8. ASSUME NEW t \in Sessions
      PROVE  TxLedger(tx[t])'
  <2>1. CASE t = s
    BY <1>2, <2>1, CommitStep, OthersSpared
  <2>2. CASE t # s
    <3>1. tx'[t] = tx[t]
      BY <1>2, <2>2, CommitStep
    <3>2. \A b \in Books : BookLock(b) \in tx[t].held => virtualStock'[b] = virtualStock[b]
      BY <1>2, <1>4, <2>2
    <3>3. SparesTx(tx[t])
      BY <1>2, <3>2 DEF Ledger, TxLedger, SparesTx, ArrivesOnce
    <3> QED
      BY <3>1, <3>3, OthersSpared
  <2> QED
    BY <2>1, <2>2
<1>9. AllOrNothing'
  <2>1. \A p \in Orders : status'[p] \in {"PICKING", "SHIPPED"}
                            <=> status[p] \in {"PICKING", "SHIPPED"}
    BY <1>1, <1>5
  <2> QED
    BY <1>2, <2>1 DEF Ledger, AllOrNothing, LpnsOf
<1>10. ReservedIsAllocated'
  <2> SUFFICES ASSUME NEW r \in Rows
               PROVE  reserved'[r] =
                        SumFunctionOnSet([p \in Orders |-> alloc[p][r]], Picking')
    BY <1>2 DEF ReservedIsAllocated
  <2> DEFINE f == [p \in Orders |-> alloc[p][r]]
  <2>1. f[o] = alloc[o][r] /\ \A p \in Picking : f[p] \in Nat
    BY <1>1, StockTypes DEF Picking
  <2>2. reserved[r] = SumFunctionOnSet(f, Picking)
    BY DEF Ledger, ReservedIsAllocated
  <2>3. reserved'[r] = reserved[r] - alloc[o][r] /\ alloc[o][r] \in Nat
    BY <1>1, StockTypes
  <2> HIDE DEF f
  <2>4. IsFiniteSet(Picking) /\ IsFiniteSet(Picking \ {o}) /\ \A p \in Picking : f[p] \in Int
    BY <2>1, LedgerSetsFinite, FS_RemoveElement
  <2>5. SumFunctionOnSet(f, Picking) = f[o] + SumFunctionOnSet(f, Picking \ {o})
    BY <1>6, <2>4, SumRemove
  <2>6. SumFunctionOnSet(f, Picking \ {o}) \in Int
    BY <2>4, SumInt
  <2>7. reserved'[r] = SumFunctionOnSet(f, Picking')
    BY <1>6, <2>1, <2>2, <2>3, <2>5, <2>6
  <2> QED
    BY <2>7 DEF f
<1>11. ASSUME NEW b \in Books
       PROVE  /\ Departed(b)' = Departed(b) + SumFunctionOnSet(alloc[o], RowsOf(b))
              /\ Departed(b) \in Int
  <2> DEFINE f == [p \in Orders |-> SumFunctionOnSet(alloc[p], RowsOf(b))]
  <2>1. \A p \in Orders : f[p] \in Nat
    BY ShippedOfBook
  <2>2. f[o] = SumFunctionOnSet(alloc[o], RowsOf(b))
    BY <1>1
  <2>3. Departed(b) = SumFunctionOnSet(f, Shipped) /\ Departed(b)' = SumFunctionOnSet(f, Shipped')
    BY <1>2 DEF Departed, RowsOf
  <2> HIDE DEF f
  <2>4. IsFiniteSet(Shipped) /\ \A p \in Shipped \cup {o} : f[p] \in Int
    BY <1>1, <2>1, LedgerSetsFinite DEF Shipped
  <2>5. SumFunctionOnSet(f, Shipped \cup {o}) = f[o] + SumFunctionOnSet(f, Shipped)
    BY <1>6, <2>4, SumAdd
  <2>6. SumFunctionOnSet(f, Shipped) \in Int /\ f[o] \in Int
    BY <2>4, SumInt
  <2> QED
    BY <1>6, <2>2, <2>3, <2>5, <2>6
<1>12. ASSUME NEW b \in Books
       PROVE  OnShelves(b)' = OnShelves(b) - SumFunctionOnSet(alloc[o], RowsOf(b))
  BY <1>1, ShelvesAfterShipment
<1>13. ShelvesBalance'
  <2> SUFFICES ASSUME NEW b \in Books
               PROVE  OnShelves(b)' = SumFunctionOnSet(InitialStock, RowsOf(b))
                                        + Arrived(b)' - Departed(b)'
    BY DEF ShelvesBalance
  <2>1. /\ OnShelves(b) = SumFunctionOnSet(InitialStock, RowsOf(b)) + Arrived(b) - Departed(b)
        /\ Arrived(b)' = Arrived(b)
    BY <1>2 DEF Ledger, ShelvesBalance, Arrived
  <2>2. SumFunctionOnSet(alloc[o], RowsOf(b)) \in Nat
    BY <1>1, ShippedOfBook
  <2>3. SumFunctionOnSet(InitialStock, RowsOf(b)) \in Int /\ Arrived(b) \in Int
    BY LedgerTerms
  <2> QED
    BY <1>11, <1>12, <2>1, <2>2, <2>3
<1> QED
  BY <1>7, <1>8, <1>9, <1>10, <1>13 DEF Ledger

(* What has departed is a number.                                          *)
LEMMA DepartedInt ==
  ASSUME HandlerInvariant, Ledger, NEW b
  PROVE  Departed(b) \in Int
<1> DEFINE f == [p \in Orders |-> SumFunctionOnSet(alloc[p], RowsOf(b))]
<1>1. \A p \in Shipped : f[p] \in Int
  BY ShippedOfBook DEF Shipped
<1>2. SumFunctionOnSet(f, Shipped) \in Int
  <2> HIDE DEF f
  <2> QED BY <1>1, LedgerSetsFinite, SumInt
<1> QED
  BY <1>2 DEF Departed

(* A delivery adds what it brings to one row of its book.                  *)
LEMMA DeliversOnce ==
  ASSUME HandlerInvariant, Ledger, NEW s \in Sessions, NEW r \in Rows, CommitReceive(s, r),
         NEW d, d = tx[s].delivery, NEW b, b = DeliveryBook[d]
  PROVE  /\ d \in Deliveries /\ d \notin received /\ b \in Books /\ r \in RowsOf(b)
         /\ quantity' = [quantity EXCEPT ![r] = quantity[r] + DeliveryQty[d]]
         /\ DeliveryQty[d] \in Nat
         /\ UpdateLock(b) \in tx[s].held
         /\ (IF d \in AutoPo THEN BookLock(b) ELSE IsbnLock(b)) \in tx[s].held
<1> DEFINE x == tx[s]
<1>1. TxInv(x) /\ TxLedger(x) /\ x.op = "receive" /\ x.plan = <<>>
  BY DEF HandlerInvariant, Ledger, CommitReceive
<1>2. d \in Deliveries /\ b \in Books /\ DeliveryQty[d] \in Nat /\ BookOf(x) = b
  BY <1>1, DeliveryConstants DEF TxInv, DeliveryCovers, BookOf
<1>3. d \notin received /\ (IF d \in AutoPo THEN BookLock(b) ELSE IsbnLock(b)) \in x.held
  BY <1>1, <1>2 DEF TxLedger, ArrivesOnce
<1>4. \A k : ~Planned(x, k)
  <2>1. Len(x.plan) = 0
    BY <1>1
  <2> HIDE DEF x
  <2> QED
    BY <2>1 DEF Planned
<1>5. UpdateLock(b) \in x.held
  BY <1>1, <1>2, <1>4 DEF TxLedger, ArrivesOnce
<1>6. r \in RowsOf(b)
  BY DEF CommitReceive, TargetRows
<1>7. r \in created => r \in RowsHeld(x)
  <2>1. RowsPlanned(x) = {}
    BY <1>4 DEF RowsPlanned, Planned
  <2> QED
    BY <1>1, <1>2, <1>6, <2>1 DEF TxInv, DeliveryCovers
<1>8. quantity' = [quantity EXCEPT ![r] = quantity[r] + DeliveryQty[d]]
  <2>1. quantity' = [quantity EXCEPT ![r] = IF r \in created THEN x.quantity[r] + DeliveryQty[d]
                                            ELSE DeliveryQty[d]]
    BY DEF CommitReceive
  <2>2. r \in created => x.quantity[r] = quantity[r]
    BY <1>1, <1>7 DEF TxInv, ImagesAgree
  <2>3. r \notin created => quantity[r] = 0
    BY DEF Ledger, LedgerType
  <2> HIDE DEF x
  <2>4. (IF r \in created THEN x.quantity[r] + DeliveryQty[d] ELSE DeliveryQty[d])
          = quantity[r] + DeliveryQty[d]
    BY <1>2, <2>2, <2>3
  <2> QED
    BY <2>1, <2>4
<1> QED
  BY <1>2, <1>3, <1>5, <1>6, <1>8

(* The shelves of the book have that much more, the others what they had.  *)
LEMMA ShelvesAfterDelivery ==
  ASSUME HandlerInvariant, NEW b, NEW r \in RowsOf(b), NEW n \in Nat,
         quantity' = [quantity EXCEPT ![r] = quantity[r] + n], NEW c
  PROVE  OnShelves(c)' = OnShelves(c) + IF c = b THEN n ELSE 0
<1> DEFINE S == RowsOf(c)
<1>1. /\ \A q \in S : quantity[q] \in Int
      /\ \A q \in S \ {r} : quantity'[q] = quantity[q]
  BY DEF HandlerInvariant, StockType, PerRow, RowsOf
<1>2. quantity'[r] = quantity[r] + n /\ quantity[r] \in Int /\ quantity'[r] \in Int
  BY DEF HandlerInvariant, StockType, PerRow, RowsOf
<1>3. IsFiniteSet(S) /\ (r \in S <=> c = b)
  BY RowsOfBook DEF RowsOf
<1>4. OnShelves(c) = SumFunctionOnSet(quantity, S) /\ OnShelves(c)' = SumFunctionOnSet(quantity', S)
  BY DEF OnShelves, RowsOf
<1> HIDE DEF S
<1>5. SumFunctionOnSet(quantity, S) \in Int
  BY <1>1, <1>3, SumInt
<1>6. CASE r \in S
  <2>1. SumFunctionOnSet(quantity', S) = SumFunctionOnSet(quantity, S) - quantity[r] + quantity'[r]
    <3> DEFINE g == quantity'
    <3>1. g[r] \in Int /\ \A q \in S \ {r} : g[q] = quantity[q]
      BY <1>1, <1>2
    <3> HIDE DEF g
    <3>2. SumFunctionOnSet(g, S) = SumFunctionOnSet(quantity, S) - quantity[r] + g[r]
      BY <1>1, <1>3, <1>6, <3>1, SumChange
    <3> QED
      BY <3>2 DEF g
  <2> QED
    BY <1>2, <1>3, <1>4, <1>5, <1>6, <2>1
<1>7. CASE r \notin S
  <2>1. \A q \in S : quantity'[q] = quantity[q]
    BY <1>1, <1>7
  <2>2. SumFunctionOnSet(quantity', S) = SumFunctionOnSet(quantity, S)
    BY <1>3, <2>1, SumAgree
  <2> QED
    BY <1>3, <1>4, <1>5, <1>7, <2>2
<1> QED
  BY <1>6, <1>7

(* An arrival is on the shelves and among the received deliveries, once.   *)
LEMMA CommitReceiveLedger ==
  ASSUME HandlerInvariant, Ledger, NEW s \in Sessions, NEW r \in Rows, CommitReceive(s, r)
  PROVE  Ledger'
<1> DEFINE d == tx[s].delivery
           b == DeliveryBook[d]
           x == tx[s]
<1>1. /\ d \in Deliveries /\ d \notin received /\ b \in Books /\ r \in RowsOf(b)
      /\ quantity' = [quantity EXCEPT ![r] = quantity[r] + DeliveryQty[d]]
      /\ DeliveryQty[d] \in Nat
      /\ UpdateLock(b) \in x.held
      /\ (IF d \in AutoPo THEN BookLock(b) ELSE IsbnLock(b)) \in x.held
  BY DeliversOnce
<1>2. /\ created' = created \cup {r} /\ received' = received \cup {d}
      /\ virtualStock' = [virtualStock EXCEPT ![b] = @ + DeliveryQty[d]]
      /\ UNCHANGED <<status, reserved, alloc, lpnAlloc, lpnPriced>>
      /\ tx' = [tx EXCEPT ![s] = Idle]
  BY DEF CommitReceive
<1>3. ASSUME NEW t \in Sessions \ {s}
      PROVE  SparesTx(tx[t])
  <2>1. TxLedger(tx[t])
    BY DEF Ledger
  <2>2. ASSUME tx[t].op \in {"locate", "receive"}
        PROVE  tx[t].delivery \notin received'
    <3>1. /\ tx[t].delivery \notin received
          /\ (IF tx[t].delivery \in AutoPo THEN BookLock(BookOf(tx[t]))
              ELSE IsbnLock(BookOf(tx[t]))) \in tx[t].held
      BY <2>1, <2>2 DEF TxLedger, ArrivesOnce
    <3>2. tx[t].delivery # d
      BY <1>1, <3>1, BooksExclude DEF BookOf
    <3> QED
      BY <1>2, <3>1, <3>2
  <2>3. \A c \in Books : BookLock(c) \in tx[t].held => virtualStock'[c] = virtualStock[c]
    <3>1. BookLock(b) \notin tx[t].held
      BY <1>1, BooksExclude
    <3>2. \A c \in Books : c # b => virtualStock'[c] = virtualStock[c]
      BY <1>2 DEF Ledger, LedgerType
    <3> QED
      BY <3>1, <3>2
  <2> QED
    BY <1>2, <2>2, <2>3 DEF SparesTx
<1> HIDE DEF d, b, x
<1>4. LedgerType'
  <2>1. virtualStock' \in [Books -> Nat]
    BY <1>1, <1>2 DEF Ledger, LedgerType
  <2>2. received' \in SUBSET Deliveries /\ IsFiniteSet(received')
    BY <1>1, <1>2, FS_AddElement DEF Ledger, LedgerType
  <2>3. \A q \in Rows \ created' : quantity'[q] = 0
    BY <1>1, <1>2 DEF Ledger, LedgerType, HandlerInvariant, StockType, PerRow
  <2> QED
    BY <1>2, <2>1, <2>2, <2>3 DEF Ledger, LedgerType, Existing
<1>5. ASSUME NEW t \in Sessions
      PROVE  TxLedger(tx[t])'
  BY <1>2, <1>3, CommitStep, OthersSpared
<1>6. AllOrNothing' /\ ReservedIsAllocated'
  BY <1>2 DEF Ledger, AllOrNothing, ReservedIsAllocated, LpnsOf, Picking
<1>7. ASSUME NEW c \in Books
      PROVE  Arrived(c)' = Arrived(c) + IF c = b THEN DeliveryQty[d] ELSE 0
  <2> DEFINE S == {e \in received : DeliveryBook[e] = c}
  <2>1. /\ IsFiniteSet(S) /\ d \notin S
        /\ \A e \in S : DeliveryQty[e] \in Int
    <3>1. S \subseteq received /\ received \in SUBSET Deliveries /\ IsFiniteSet(received)
      BY DEF Ledger, LedgerType
    <3> QED
      BY <1>1, <3>1, FS_Subset, DeliveryConstants
  <2>2. /\ Arrived(c) = SumFunctionOnSet(DeliveryQty, S)
        /\ Arrived(c)' = SumFunctionOnSet(DeliveryQty, IF c = b THEN S \cup {d} ELSE S)
    <3>1. {e \in received' : DeliveryBook[e] = c} = IF c = b THEN S \cup {d} ELSE S
      BY <1>2 DEF b
    <3> QED
      BY <3>1 DEF Arrived
  <2> HIDE DEF S
  <2>3. SumFunctionOnSet(DeliveryQty, S \cup {d}) = DeliveryQty[d] + SumFunctionOnSet(DeliveryQty, S)
    <3>1. \A e \in S \cup {d} : DeliveryQty[e] \in Int
      BY <1>1, <2>1
    <3> QED
      BY <2>1, <3>1, SumAdd
  <2>4. SumFunctionOnSet(DeliveryQty, S) \in Int
    BY <2>1, SumInt
  <2> QED
    BY <1>1, <2>2, <2>3, <2>4
<1>8. ShelvesBalance'
  <2> SUFFICES ASSUME NEW c \in Books
               PROVE  OnShelves(c)' = SumFunctionOnSet(InitialStock, RowsOf(c))
                                        + Arrived(c)' - Departed(c)'
    BY DEF ShelvesBalance
  <2>1. OnShelves(c) = SumFunctionOnSet(InitialStock, RowsOf(c)) + Arrived(c) - Departed(c)
    BY DEF Ledger, ShelvesBalance
  <2>2. OnShelves(c)' = OnShelves(c) + IF c = b THEN DeliveryQty[d] ELSE 0
    BY <1>1, ShelvesAfterDelivery
  <2>3. Departed(c)' = Departed(c)
    <3>1. Shipped' = Shipped
      BY <1>2 DEF Shipped
    <3> QED
      BY <1>2, <3>1, DepartedSame
  <2>4. SumFunctionOnSet(InitialStock, RowsOf(c)) \in Int /\ Arrived(c) \in Int
    BY LedgerTerms
  <2>5. Departed(c) \in Int
    BY DepartedInt
  <2> QED
    BY <1>1, <1>7, <2>1, <2>2, <2>3, <2>4, <2>5
<1> QED
  BY <1>4, <1>5, <1>6, <1>8 DEF Ledger

(* A used copy that is admitted is one more on virtual_stock, unless the   *)
(* book is locked.                                                         *)
LEMMA AdmitUsedLedger ==
  ASSUME HandlerInvariant, Ledger, NEW l \in Lpns, AdmitUsed(l)
  PROVE  Ledger'
<1>1. /\ virtualStock' = [virtualStock EXCEPT ![LpnBook[l]] = @ + 1]
      /\ UNCHANGED <<status, created, quantity, reserved, alloc, lpnAlloc, lpnPriced>>
      /\ UNCHANGED <<received, tx>>
      /\ LpnBook[l] \in Books /\ Unlocked(UpdateLock(LpnBook[l]))
  BY LpnConstants DEF AdmitUsed
<1>2. virtualStock' \in [Books -> Nat]
  BY <1>1 DEF Ledger, LedgerType
<1>3. LedgerType'
  BY <1>1, <1>2 DEF Ledger, LedgerType, Existing
<1>4. ASSUME NEW t \in Sessions
      PROVE  TxLedger(tx[t])'
  <2>1. BookLock(LpnBook[l]) \notin tx[t].held
    <3>1. \A b : Conflict(BookLock(b), UpdateLock(b)) /\ Conflict(UpdateLock(b), BookLock(b))
      BY DEF Conflict, BookLock, UpdateLock
    <3> QED
      BY <1>1, <3>1 DEF Unlocked, Blocks
  <2>2. \A b \in Books : b # LpnBook[l] => virtualStock'[b] = virtualStock[b]
    BY <1>1 DEF Ledger, LedgerType
  <2>3. SparesTx(tx[t])
    BY <1>1, <2>1, <2>2 DEF Ledger, TxLedger, SparesTx, ArrivesOnce
  <2> QED
    BY <1>1, <2>3, OthersSpared
<1>5. AllOrNothing' /\ ReservedIsAllocated'
  BY <1>1 DEF Ledger, AllOrNothing, ReservedIsAllocated, LpnsOf, Picking
<1>6. ShelvesBalance'
  BY <1>1 DEF Ledger, ShelvesBalance, OnShelves, Arrived, Departed, Shipped
<1> QED
  BY <1>3, <1>4, <1>5, <1>6 DEF Ledger

-----------------------------------------------------------------------------
(* The ledger balances at the start and after every step.                  *)

(* Before anything happens the ledger balances.                            *)
LEMMA LedgerHoldsInitially == Init => Ledger
<1> SUFFICES ASSUME Init
             PROVE  Ledger
  OBVIOUS
<1>1. Existing = {} /\ Picking = {} /\ Shipped = {} /\ received = {}
  BY DEF Init, Existing, Picking, Shipped
<1>2. LedgerType
  <2>1. \A r \in Rows \ created : quantity[r] = 0
    BY RowConstants DEF Init
  <2> QED
    BY <1>1, <2>1, RowConstants, FS_EmptySet DEF Init, LedgerType
<1>3. \A s \in Sessions : TxLedger(tx[s])
  <2>1. Idle.op = "idle" /\ Idle.virtual \in [Books -> Nat]
    BY DEF Idle, Started
  <2>2. TxLedger(Idle)
    BY <2>1 DEF TxLedger, PickProgress, ArrivesOnce, ShipsFromImages
  <2> QED
    BY <2>2 DEF Init
<1>4. AllOrNothing
  <2> SUFFICES ASSUME NEW o \in Orders, NEW b \in Books
               PROVE  /\ SumFunctionOnSet(alloc[o], RowsOf(b)) = 0
                      /\ \A g : Cardinality({l \in LpnsOf(o, b) : LpnGrade[l] = g}) = 0
    BY DEF AllOrNothing, Init
  <2>1. \A r \in RowsOf(b) : alloc[o][r] \in Nat /\ alloc[o][r] = 0
    BY DEF Init, RowsOf
  <2>2. \A g : {l \in LpnsOf(o, b) : LpnGrade[l] = g} = {}
    BY DEF Init, LpnsOf
  <2> QED
    BY <2>1, <2>2, RowsOfBook, SumNat, FS_EmptySet
<1>5. ReservedIsAllocated
  BY <1>1, SumEmpty DEF Init, ReservedIsAllocated
<1>6. ShelvesBalance
  <2> SUFFICES ASSUME NEW b \in Books
               PROVE  OnShelves(b) = SumFunctionOnSet(InitialStock, RowsOf(b))
                                       + Arrived(b) - Departed(b)
    BY DEF ShelvesBalance
  <2>1. {d \in received : DeliveryBook[d] = b} = {}
    BY <1>1
  <2>2. Arrived(b) = 0 /\ Departed(b) = 0
    BY <1>1, <2>1, SumEmpty DEF Arrived, Departed
  <2>3. OnShelves(b) = SumFunctionOnSet(InitialStock, RowsOf(b))
    BY DEF Init, OnShelves
  <2>4. SumFunctionOnSet(InitialStock, RowsOf(b)) \in Int
    <3>1. \A r \in RowsOf(b) : InitialStock[r] \in Int
      BY RowConstants DEF RowsOf
    <3> QED
      BY <3>1, RowsOfBook, SumInt
  <2> QED
    BY <2>2, <2>3, <2>4
<1> QED
  BY <1>2, <1>3, <1>4, <1>5, <1>6 DEF Ledger

(* Every step of every handler keeps the ledger.                           *)
LEMMA LedgerIsInductive ==
  HandlerInvariant /\ Ledger /\ [Next]_vars => Ledger'
<1> SUFFICES ASSUME HandlerInvariant, Ledger, [Next]_vars
             PROVE  Ledger'
  OBVIOUS
<1>1. ASSUME NEW s \in Sessions, Begin(s)
      PROVE  Ledger'
  BY <1>1, BeginOrderLedger, BeginShipLedger, BeginArrivalLedger DEF Begin
<1>2. ASSUME NEW s \in Sessions, Continue(s)
      PROVE  Ledger'
  <2>1. CASE \/ \E r \in Rows : LockRow(s, r)
             \/ \E b \in Books : LockBook(s, b)
             \/ \E k \in Lock : LockOnly(s, k)
    BY <2>1, LockRowLedger, LockBookLedger, LockOnlyLedger
  <2>2. CASE \/ \E l \in Lpns : TakeLpn(s, l)
             \/ SelectRows(s) \/ ReserveRows(s) \/ SelectShelves(s)
    BY <2>2, TakeLpnLedger, SelectRowsLedger, ReserveRowsLedger, SelectShelvesLedger
  <2>3. CASE \/ CommitCreate(s) \/ CommitPick(s) \/ CommitShip(s)
             \/ \E r \in Rows : CommitScan(s, r) \/ CommitReceive(s, r)
    BY <2>3, CommitCreateLedger, CommitPickLedger, CommitShipLedger, ScanLedger,
       CommitReceiveLedger
  <2>4. CASE Refuse(s) \/ DeadlockVictim(s)
    BY <2>4, RollbackLedger DEF Refuse, DeadlockVictim
  <2> QED
    BY <1>2, <2>1, <2>2, <2>3, <2>4 DEF Continue
<1>3. ASSUME NEW s \in Sessions, Crash(s)
      PROVE  Ledger'
  BY <1>3, RollbackLedger DEF Crash
<1>4. ASSUME NEW o \in Orders, NEW l \in Lpns, ScanLpn(o, l)
      PROVE  Ledger'
  BY <1>4, ScanLedger
<1>5. ASSUME NEW l \in Lpns, AdmitUsed(l) \/ PriceLpn(l)
      PROVE  Ledger'
  BY <1>5, AdmitUsedLedger, ScanLedger
<1>6. CASE UNCHANGED vars
  <2>1. /\ UNCHANGED <<status, created, quantity, reserved, alloc, lpnAlloc>>
        /\ UNCHANGED <<virtualStock, received, lpnPriced, tx>>
    BY <1>6 DEF vars, db
  <2>2. ASSUME NEW t \in Sessions
        PROVE  TxLedger(tx[t])'
    <3>1. SparesTx(tx[t])
      BY <2>1 DEF Ledger, TxLedger, SparesTx, ArrivesOnce
    <3> QED
      BY <2>1, <3>1, OthersSpared
  <2> QED
    BY <2>1, <2>2, TablesUnchanged DEF Ledger, LedgerType
<1> QED
  BY <1>1, <1>2, <1>3, <1>4, <1>5, <1>6 DEF Next

(* In every reachable state the ledger balances.                           *)
LEMMA LedgerBalances == Spec => [](HandlerInvariant /\ Ledger)
<1> QED
  BY InvariantHoldsInitially, InvariantIsInductive, LedgerHoldsInitially,
     LedgerIsInductive, PTL DEF Spec

-----------------------------------------------------------------------------
(* virtual_stock.                                                          *)

(* The copies admitted and not yet sold are finitely many.                 *)
LEMMA UnsoldFinite ==
  \A b : /\ IsFiniteSet(Unsold(b)) /\ Cardinality(Unsold(b)) \in Nat
         /\ Unsold(b) \in SUBSET Lpns
BY FiniteSubsets, FS_CardinalityType DEF Unsold

(* A step that touches neither shelves nor virtual_stock nor copies.       *)
LEMMA VirtualSame ==
  ASSUME VirtualStockAgrees, UNCHANGED <<quantity, virtualStock>>,
         \A b \in Books : Unsold(b)' = Unsold(b)
  PROVE  VirtualStockAgrees'
BY DEF VirtualStockAgrees, OnShelves

(* Copies that are picked are not sold yet.                                *)
LEMMA CommitPickVirtual ==
  ASSUME HandlerInvariant, VirtualStockAgrees, NEW s \in Sessions, CommitPick(s)
  PROVE  VirtualStockAgrees'
<1>1. \A l \in tx[s].lpns : lpn[l] = "AVAILABLE"
  BY DEF HandlerInvariant, TxInv, ChosenLpns
<1>2. /\ UNCHANGED <<quantity, virtualStock>>
      /\ \A l \in Lpns : lpn'[l] = IF l \in tx[s].lpns THEN "RESERVED" ELSE lpn[l]
  BY DEF CommitPick
<1>3. \A b \in Books : Unsold(b)' = Unsold(b)
  BY <1>1, <1>2 DEF Unsold
<1> QED
  BY <1>2, <1>3, VirtualSame

(* A shipment takes from virtual_stock what it takes from the shelves; the *)
(* floor at zero cuts nothing off.                                         *)
LEMMA CommitShipVirtual ==
  ASSUME HandlerInvariant, Ledger, VirtualStockAgrees, NEW s \in Sessions, CommitShip(s)
  PROVE  VirtualStockAgrees'
<1> DEFINE o == tx[s].order
           x == tx[s]
<1>1. /\ o \in Orders
      /\ \A r \in Rows : /\ quantity'[r] = quantity[r] - alloc[o][r]
                         /\ alloc[o][r] <= quantity[r]
      /\ \A l \in lpnAlloc[o] : lpn[l] = "RESERVED"
      /\ \A b \in ShippedBooks(o) : x.virtual[b] = virtualStock[b]
  BY ShipsAllocated
<1>2. /\ virtualStock' = [b \in Books |->
           IF b \in ShippedBooks(o) THEN Larger(x.virtual[b] - ShippedQuantity(o, b), 0)
           ELSE virtualStock[b]]
      /\ lpn' = [l \in Lpns |-> IF l \in lpnAlloc[o] THEN "SHIPPED" ELSE lpn[l]]
  BY DEF CommitShip
<1> HIDE DEF o, x
<1> SUFFICES ASSUME NEW b \in Books
             PROVE  virtualStock'[b] = OnShelves(b)' + Cardinality(Unsold(b)')
  BY DEF VirtualStockAgrees
<1> DEFINE sold == SumFunctionOnSet(alloc[o], RowsOf(b))
           copies == LpnsOf(o, b)
<1>3. /\ sold \in Nat /\ IsFiniteSet(copies) /\ Cardinality(copies) \in Nat
      /\ ShippedQuantity(o, b) = sold + Cardinality(copies)
      /\ b \notin ShippedBooks(o) => sold = 0 /\ copies = {}
  BY <1>1, ShippedOfBook DEF ShippedQuantity
<1>4. OnShelves(b)' = OnShelves(b) - sold /\ OnShelves(b) \in Int
  BY <1>1, ShelvesAfterShipment, LedgerTerms
<1>5. OnShelves(b)' \in Nat
  <2>1. \A r \in RowsOf(b) : quantity'[r] \in Nat
    BY <1>1, StockTypes DEF RowsOf
  <2>2. OnShelves(b)' = SumFunctionOnSet(quantity', RowsOf(b))
    BY DEF OnShelves, RowsOf
  <2> QED
    BY <2>1, <2>2, RowsOfBook, SumNat
<1>6. copies \subseteq Unsold(b) /\ Unsold(b)' = Unsold(b) \ copies
  BY <1>1, <1>2, StockTypes DEF LpnsOf, Unsold
<1>7. /\ Cardinality(Unsold(b)') = Cardinality(Unsold(b)) - Cardinality(copies)
      /\ Cardinality(Unsold(b)') \in Nat
  <2>1. Unsold(b) \cap copies = copies
    BY <1>6
  <2>2. Cardinality(Unsold(b) \ copies) = Cardinality(Unsold(b)) - Cardinality(copies)
    BY <2>1, UnsoldFinite, FS_Difference
  <2>3. IsFiniteSet(Unsold(b) \ copies) /\ Cardinality(Unsold(b) \ copies) \in Nat
    BY UnsoldFinite, FS_Difference, FS_CardinalityType
  <2> QED
    BY <1>6, <2>2, <2>3
<1>8. virtualStock[b] = OnShelves(b) + Cardinality(Unsold(b)) /\ Cardinality(Unsold(b)) \in Nat
  BY UnsoldFinite DEF VirtualStockAgrees
<1> HIDE DEF sold, copies
<1>9. CASE b \in ShippedBooks(o)
  <2>1. virtualStock'[b] = Larger(virtualStock[b] - ShippedQuantity(o, b), 0)
    BY <1>1, <1>2, <1>9
  <2>2. virtualStock[b] - ShippedQuantity(o, b) = OnShelves(b)' + Cardinality(Unsold(b)')
    BY <1>3, <1>4, <1>7, <1>8
  <2> QED
    BY <1>5, <1>7, <2>1, <2>2 DEF Larger
<1>10. CASE b \notin ShippedBooks(o)
  <2>1. virtualStock'[b] = virtualStock[b]
    BY <1>2, <1>10
  <2>2. Cardinality(copies) = 0
    BY <1>3, <1>10, FS_EmptySet
  <2> QED
    BY <1>3, <1>4, <1>7, <1>8, <1>10, <2>1, <2>2
<1> QED
  BY <1>9, <1>10

(* An arrival is added to shelf and virtual_stock alike.                   *)
LEMMA CommitReceiveVirtual ==
  ASSUME HandlerInvariant, Ledger, VirtualStockAgrees, NEW s \in Sessions,
         NEW r \in Rows, CommitReceive(s, r)
  PROVE  VirtualStockAgrees'
<1> DEFINE d == tx[s].delivery
           b == DeliveryBook[d]
<1>1. /\ b \in Books /\ r \in RowsOf(b) /\ DeliveryQty[d] \in Nat
      /\ quantity' = [quantity EXCEPT ![r] = quantity[r] + DeliveryQty[d]]
  BY DeliversOnce
<1>2. virtualStock' = [virtualStock EXCEPT ![b] = @ + DeliveryQty[d]] /\ lpn' = lpn
  BY DEF CommitReceive
<1> HIDE DEF b, d
<1>3. ASSUME NEW c \in Books
      PROVE  virtualStock'[c] = OnShelves(c)' + Cardinality(Unsold(c)')
  <2>1. OnShelves(c)' = OnShelves(c) + IF c = b THEN DeliveryQty[d] ELSE 0
    BY <1>1, ShelvesAfterDelivery
  <2>2. virtualStock'[c] = virtualStock[c] + IF c = b THEN DeliveryQty[d] ELSE 0
    BY <1>1, <1>2 DEF Ledger, LedgerType
  <2>3. Unsold(c)' = Unsold(c)
    BY <1>2 DEF Unsold
  <2>4. /\ virtualStock[c] = OnShelves(c) + Cardinality(Unsold(c))
        /\ Cardinality(Unsold(c)) \in Nat /\ OnShelves(c) \in Int
    BY UnsoldFinite, LedgerTerms DEF VirtualStockAgrees
  <2> QED
    BY <1>1, <2>1, <2>2, <2>3, <2>4
<1> QED
  BY <1>3 DEF VirtualStockAgrees

(* A used copy that is admitted is one more in virtual_stock.              *)
LEMMA AdmitUsedVirtual ==
  ASSUME HandlerInvariant, Ledger, VirtualStockAgrees, NEW l \in Lpns, AdmitUsed(l)
  PROVE  VirtualStockAgrees'
<1> DEFINE b == LpnBook[l]
<1>1. /\ b \in Books /\ lpn[l] = "NONE" /\ lpn' = [lpn EXCEPT ![l] = "AVAILABLE"]
      /\ virtualStock' = [virtualStock EXCEPT ![b] = @ + 1] /\ quantity' = quantity
  BY LpnConstants DEF AdmitUsed
<1>2. ASSUME NEW c \in Books
      PROVE  virtualStock'[c] = OnShelves(c)' + Cardinality(Unsold(c)')
  <2>1. OnShelves(c)' = OnShelves(c)
    BY <1>1 DEF OnShelves
  <2>2. virtualStock'[c] = virtualStock[c] + IF c = b THEN 1 ELSE 0
    BY <1>1 DEF Ledger, LedgerType
  <2>3. Unsold(c)' = (IF c = b THEN Unsold(c) \cup {l} ELSE Unsold(c)) /\ l \notin Unsold(c)
    BY <1>1 DEF Unsold, HandlerInvariant, StockType
  <2>4. Cardinality(Unsold(c) \cup {l}) = Cardinality(Unsold(c)) + 1
    BY <2>3, UnsoldFinite, FS_AddElement
  <2>5. /\ virtualStock[c] = OnShelves(c) + Cardinality(Unsold(c))
        /\ Cardinality(Unsold(c)) \in Nat /\ OnShelves(c) \in Int
    BY UnsoldFinite, LedgerTerms DEF VirtualStockAgrees
  <2> HIDE DEF b
  <2> QED
    BY <2>1, <2>2, <2>3, <2>4, <2>5
<1> QED
  BY <1>2 DEF VirtualStockAgrees

(* virtual_stock agrees at the start if the tables do.                     *)
LEMMA VirtualStockAgreesInitially ==
  ASSUME VirtualStockStartsRight
  PROVE  Init => VirtualStockAgrees
<1> SUFFICES ASSUME Init, NEW b \in Books
             PROVE  virtualStock[b] = OnShelves(b) + Cardinality(Unsold(b))
  BY DEF VirtualStockAgrees
<1>1. Unsold(b) = {}
  BY DEF Init, Unsold
<1>2. OnShelves(b) = SumFunctionOnSet(InitialStock, RowsOf(b)) /\ virtualStock[b] = InitialVirtual[b]
  BY DEF Init, OnShelves
<1>3. virtualStock[b] = OnShelves(b) /\ virtualStock[b] \in Nat
  BY <1>2, RowConstants DEF VirtualStockStartsRight
<1> QED
  BY <1>1, <1>3, FS_EmptySet

(* Every step keeps virtual_stock in agreement with the shelves.           *)
LEMMA VirtualStockIsInductive ==
  HandlerInvariant /\ Ledger /\ VirtualStockAgrees /\ [Next]_vars => VirtualStockAgrees'
<1> SUFFICES ASSUME HandlerInvariant, Ledger, VirtualStockAgrees, [Next]_vars
             PROVE  VirtualStockAgrees'
  OBVIOUS
<1>1. CASE UNCHANGED <<quantity, virtualStock, lpn>>
  BY <1>1, VirtualSame DEF Unsold
<1>2. UNCHANGED db => UNCHANGED <<quantity, virtualStock, lpn>>
  BY DEF db
<1>3. ASSUME NEW s \in Sessions, Begin(s) \/ Crash(s)
      PROVE  VirtualStockAgrees'
  <2>1. UNCHANGED db
    BY <1>3 DEF Begin, Crash, Rollback, BeginCreate, BeginPick, BeginScan, BeginShip,
         BeginReceive, BeginApprove, BeginArrival
  <2> QED
    BY <1>1, <1>2, <2>1
<1>4. ASSUME NEW s \in Sessions, Continue(s)
      PROVE  VirtualStockAgrees'
  <2>1. CASE UNCHANGED <<quantity, virtualStock, lpn>>
    BY <1>1, <2>1
  <2>2. CASE CommitCreate(s) \/ \E r \in Rows : CommitScan(s, r)
    BY <1>1, <2>2 DEF CommitCreate, CommitScan
  <2>3. CASE CommitPick(s) \/ CommitShip(s) \/ \E r \in Rows : CommitReceive(s, r)
    BY <2>3, CommitPickVirtual, CommitShipVirtual, CommitReceiveVirtual
  <2>4. CASE Refuse(s) \/ DeadlockVictim(s)
    BY <1>2, <2>1, <2>4 DEF Refuse, DeadlockVictim, Rollback
  <2>5. CASE \/ \E r \in Rows : LockRow(s, r)
             \/ \E b \in Books : LockBook(s, b)
             \/ \E k \in Lock : LockOnly(s, k)
             \/ \E l \in Lpns : TakeLpn(s, l)
             \/ SelectRows(s) \/ ReserveRows(s) \/ SelectShelves(s)
    <3>1. UNCHANGED db
      BY <2>5 DEF LockRow, LockBook, LockOnly, TakeLpn, SelectRows, ReserveRows, SelectShelves
    <3> QED
      BY <1>2, <2>1, <3>1
  <2> QED
    BY <1>4, <2>2, <2>3, <2>4, <2>5 DEF Continue
<1>5. ASSUME NEW o \in Orders, NEW l \in Lpns, ScanLpn(o, l)
      PROVE  VirtualStockAgrees'
  BY <1>1, <1>5 DEF ScanLpn
<1>6. ASSUME NEW l \in Lpns, AdmitUsed(l) \/ PriceLpn(l)
      PROVE  VirtualStockAgrees'
  BY <1>1, <1>6, AdmitUsedVirtual DEF PriceLpn
<1>7. CASE UNCHANGED vars
  BY <1>1, <1>2, <1>7 DEF vars
<1> QED
  BY <1>3, <1>4, <1>5, <1>6, <1>7 DEF Next

-----------------------------------------------------------------------------
(* The theorems.                                                           *)

(* In every reachable state an order has all that it asks for set aside,   *)
(* or nothing: no pick that is refused, cancelled or interrupted leaves a  *)
(* part of its order behind, and no other handler touches what is set      *)
(* aside.  For any orders, rows, copies and sessions.                      *)
THEOREM OrdersAreAllOrNothing == Spec => []AllOrNothing
<1>1. Ledger => AllOrNothing
  BY DEF Ledger
<1> QED
  BY <1>1, LedgerBalances, PTL

(* reserved_quantity is the sum of the open allocations of its row, the    *)
(* shelves hold what was there plus what arrived minus what was shipped,   *)
(* and virtual_stock is what is on the shelves plus the used copies that   *)
(* are not sold, if it was to start with.                                  *)
THEOREM StockIsConserved ==
  ASSUME VirtualStockStartsRight
  PROVE  Spec => []StockConserved
<1>1. Init => VirtualStockAgrees
  BY VirtualStockAgreesInitially
<1>2. Spec => []VirtualStockAgrees
  BY <1>1, LedgerBalances, VirtualStockIsInductive, PTL DEF Spec
<1>3. Ledger /\ VirtualStockAgrees => StockConserved
  BY DEF Ledger, VirtualStockAgrees, ShelvesBalance, StockConserved, OnShelves, Arrived,
     Departed
<1> QED
  BY <1>2, <1>3, LedgerBalances, PTL

(* The invariant of the stock as a whole is what the runs check.           *)
THEOREM StockInvariantHolds ==
  ASSUME VirtualStockStartsRight
  PROVE  Spec => []StockInvariant
<1>1. Init => VirtualStockAgrees
  BY VirtualStockAgreesInitially
<1>2. Spec => []VirtualStockAgrees
  BY <1>1, LedgerBalances, VirtualStockIsInductive, PTL DEF Spec
<1>3. HandlerInvariant /\ Ledger /\ VirtualStockAgrees => StockInvariant
  BY DEF StockInvariant
<1> QED
  BY <1>2, <1>3, LedgerBalances, PTL

(* The tables and the transactions keep their types: no stock, image or    *)
(* virtual_stock is ever negative.                                         *)
THEOREM TypesAreKept == Spec => []TypeOK
<1>1. HandlerInvariant /\ Ledger => TypeOK
  <2> SUFFICES ASSUME HandlerInvariant, Ledger
               PROVE  TypeOK
    OBVIOUS
  <2>1. ASSUME NEW s \in Sessions
        PROVE  tx[s] \in
                 [op : Ops, order : Orders \cup {None}, delivery : Deliveries \cup {None},
                  item : Nat, held : SUBSET Lock, plan : Seq(Lock),
                  quantity : [Rows -> Nat], reserved : [Rows -> Nat],
                  virtual : [Books -> Nat], take : [Rows -> Nat],
                  lpns : SUBSET Lpns]
    <3>1. TxType(tx[s]) /\ tx[s].virtual \in [Books -> Nat]
      BY DEF HandlerInvariant, TxInv, Ledger, TxLedger
    <3> QED
      BY <3>1 DEF TxType, PerRow
  <2>2. \A s \in Sessions : tx[s].op = "idle" => tx[s] = Idle
    BY DEF Ledger, TxLedger
  <2>3. tx = [s \in Sessions |-> tx[s]]
    BY DEF HandlerInvariant, StockType
  <2> QED
    BY <2>1, <2>2, <2>3
       DEF TypeOK, HandlerInvariant, StockType, PerRow, Ledger, LedgerType
<1> QED
  BY <1>1, LedgerBalances, PTL

-----------------------------------------------------------------------------
(* The handlers implement Fulfilment (OutboundRefinement): what an order   *)
(* can claim and what is on hand, kind by kind.                            *)

Spare(r) == quantity[r] - reserved[r]
SpareRows == [r \in Rows |-> Spare(r)]

(* The copies of a kind in some states are finitely many.                  *)
LEMMA CopiesFinite ==
  \A k, S : /\ CopiesIn(k, S) \in SUBSET Lpns /\ IsFiniteSet(CopiesIn(k, S))
            /\ Cardinality(CopiesIn(k, S)) \in Nat
BY FiniteSubsets, FS_CardinalityType DEF CopiesIn

(* What a row can spare is a natural number.                               *)
LEMMA SpareNat ==
  ASSUME HandlerInvariant
  PROVE  \A r \in Rows : Spare(r) \in Nat /\ SpareRows[r] = Spare(r)
<1> SUFFICES ASSUME NEW r \in Rows PROVE Spare(r) \in Nat
  BY DEF SpareRows
<1>1. quantity[r] \in Nat /\ reserved[r] \in Nat /\ reserved[r] <= quantity[r]
  BY StockTypes DEF HandlerInvariant, StockWithinBounds
<1> QED
  BY <1>1 DEF Spare

(* What can be claimed of a kind, and what is at hand, are numbers.        *)
LEMMA KindTerms ==
  ASSUME HandlerInvariant, NEW k \in Kinds
  PROVE  Claimable(k) \in Nat /\ OnHand(k) \in Nat
<1>1. \A r \in RowsOf(k[1]) : SpareRows[r] \in Nat /\ quantity[r] \in Nat
  BY SpareNat, StockTypes DEF RowsOf
<1>2. /\ SumFunctionOnSet(SpareRows, RowsOf(k[1])) \in Nat
      /\ SumFunctionOnSet(quantity, RowsOf(k[1])) \in Nat
  BY <1>1, RowsOfBook, SumNat
<1> QED
  BY <1>2, CopiesFinite DEF Claimable, OnHand, SpareRows, Spare

(* A kind is a book and a grade; new stock has none.                       *)
LEMMA KindCases ==
  ASSUME NEW k \in Kinds
  PROVE  /\ k[1] \in Books /\ k = <<k[1], k[2]>>
         /\ k[2] = NewStock \/ (k[2] # NewStock /\ k[2] \in GradesOfLpns)
BY LpnConstants DEF Kinds, Grades, GradesOfLpns

(* What can be claimed of new stock is a sum over rows, of a used grade a  *)
(* number of copies.                                                       *)
LEMMA ClaimableOf ==
  ASSUME NEW k
  PROVE  /\ k[2] = NewStock =>
              /\ Claimable(k) = SumFunctionOnSet(SpareRows, RowsOf(k[1]))
              /\ Claimable(k)' = SumFunctionOnSet(SpareRows', RowsOf(k[1]))
              /\ OnHand(k) = OnShelves(k[1]) /\ OnHand(k)' = OnShelves(k[1])'
         /\ k[2] # NewStock =>
              /\ Claimable(k) = Cardinality(CopiesIn(k, {"AVAILABLE"}))
              /\ Claimable(k)' = Cardinality(CopiesIn(k, {"AVAILABLE"})')
              /\ OnHand(k) = Cardinality(CopiesIn(k, {"AVAILABLE", "RESERVED"}))
              /\ OnHand(k)' = Cardinality(CopiesIn(k, {"AVAILABLE", "RESERVED"})')
BY DEF Claimable, OnHand, OnShelves, SpareRows, Spare, RowsOf

(* A pick claims what its order asks for.                                  *)
LEMMA ClaimsDemand ==
  ASSUME HandlerInvariant, Ledger, NEW s \in Sessions, CommitPick(s),
         NEW o, o = tx[s].order, NEW k \in Kinds
  PROVE  /\ Requested(o, k[1], k[2]) <= Claimable(k)
         /\ Claimable(k)' = Claimable(k) - Requested(o, k[1], k[2])
         /\ OnHand(k)' = OnHand(k)
<1> DEFINE take == tx[s].take
           lpns == tx[s].lpns
           b == k[1]
           g == k[2]
<1>1. /\ lpns \in SUBSET Lpns /\ take \in [Rows -> Nat]
      /\ SumFunctionOnSet(take, RowsOf(b)) = Requested(o, b, NewStock)
      /\ g \in GradesOfLpns => Cardinality(CopiesOf(lpns, b, g)) = Requested(o, b, g)
      /\ \A r \in Rows : IF take[r] > 0 THEN tx[s].reserved[r] = reserved[r] + take[r]
                         ELSE take[r] = 0
      /\ \A r \in Rows : take[r] <= quantity[r] - reserved[r]
  BY KindCases, PickedInFull
<1>2. /\ \A r \in Rows : reserved'[r] = IF take[r] > 0 THEN tx[s].reserved[r]
                                                       ELSE reserved[r]
      /\ \A l \in Lpns : lpn'[l] = IF l \in lpns THEN "RESERVED" ELSE lpn[l]
      /\ quantity' = quantity
  BY DEF CommitPick
<1>3. \A l \in lpns : lpn[l] = "AVAILABLE"
  BY DEF HandlerInvariant, TxInv, ChosenLpns
<1> HIDE DEF take, lpns, b, g
<1>4. CASE g = NewStock
  <2>1. ASSUME NEW r \in Rows
        PROVE  /\ SpareRows'[r] \in Nat /\ take[r] \in Int
               /\ SpareRows[r] = SpareRows'[r] + take[r]
    <3>1. /\ take[r] \in Nat /\ quantity[r] \in Nat /\ reserved[r] \in Nat
          /\ take[r] <= quantity[r] - reserved[r]
          /\ reserved'[r] = reserved[r] + take[r]
      BY <1>1, <1>2, StockTypes
    <3> QED
      BY <1>2, <3>1 DEF SpareRows, Spare
  <2> DEFINE after == SpareRows'
             S == RowsOf(b)
  <2>2. \A r \in S : /\ after[r] \in Nat /\ after[r] \in Int /\ take[r] \in Int
                     /\ SpareRows[r] = after[r] + take[r]
    BY <2>1 DEF RowsOf
  <2>3. IsFiniteSet(S)
    BY RowsOfBook
  <2>4. Claimable(k) = SumFunctionOnSet(SpareRows, S) /\ Claimable(k)' = SumFunctionOnSet(after, S)
    BY <1>4, ClaimableOf DEF b, g
  <2>5. OnHand(k)' = OnHand(k)
    BY <1>2, <1>4, ClaimableOf DEF b, g, OnShelves, RowsOf
  <2>6. SumFunctionOnSet(take, S) = Requested(o, b, g)
    BY <1>1, <1>4
  <2> HIDE DEF after, S
  <2>7. SumFunctionOnSet(SpareRows, S) = SumFunctionOnSet(after, S) + SumFunctionOnSet(take, S)
    BY <2>2, <2>3, SumPlus
  <2>8. SumFunctionOnSet(after, S) \in Nat /\ SumFunctionOnSet(take, S) \in Int
    BY <2>2, <2>3, SumNat, SumInt
  <2> QED
    BY <2>4, <2>5, <2>6, <2>7, <2>8 DEF b, g
<1>5. CASE g # NewStock
  <2> DEFINE A == CopiesIn(k, {"AVAILABLE"})
             C == CopiesOf(lpns, b, g)
  <2>1. C \subseteq A
    BY <1>1, <1>3 DEF CopiesIn, CopiesOf, b, g
  <2>2. A' = A \ C
    BY <1>1, <1>2 DEF CopiesIn, CopiesOf, b, g
  <2>3. CopiesIn(k, {"AVAILABLE", "RESERVED"})' = CopiesIn(k, {"AVAILABLE", "RESERVED"})
    BY <1>1, <1>2, <1>3 DEF CopiesIn
  <2>4. Cardinality(C) = Requested(o, b, g)
    BY <1>1, <1>5, KindCases DEF b, g
  <2>5. IsFiniteSet(A) /\ Cardinality(A) \in Nat
    BY CopiesFinite
  <2>6. IsFiniteSet(C) /\ Cardinality(C) \in Nat /\ A \cap C = C
    BY <2>1, <2>5, FS_Subset, FS_CardinalityType
  <2>7. Cardinality(A \ C) = Cardinality(A) - Cardinality(C) /\ Cardinality(C) <= Cardinality(A)
    <3> HIDE DEF A, C
    <3> QED BY <2>1, <2>5, <2>6, FS_Difference, FS_Subset
  <2>8. /\ Claimable(k) = Cardinality(A) /\ Claimable(k)' = Cardinality(A')
        /\ OnHand(k)' = OnHand(k)
    BY <1>5, <2>3, ClaimableOf DEF g
  <2> HIDE DEF A, C
  <2> QED
    BY <2>2, <2>4, <2>5, <2>6, <2>7, <2>8 DEF b, g
<1> QED
  BY <1>4, <1>5

(* A shipment takes from the shelves what its order asks for; it was not   *)
(* to be claimed any more.                                                 *)
LEMMA ShipsDemand ==
  ASSUME HandlerInvariant, Ledger, NEW s \in Sessions, CommitShip(s),
         NEW o, o = tx[s].order, NEW k \in Kinds
  PROVE  /\ Claimable(k)' = Claimable(k)
         /\ OnHand(k)' = OnHand(k) - Requested(o, k[1], k[2])
<1> DEFINE b == k[1]
           g == k[2]
<1>1. /\ o \in Orders /\ status[o] = "PICKING"
      /\ \A r \in Rows : /\ quantity'[r] = quantity[r] - alloc[o][r]
                         /\ reserved'[r] = reserved[r] - alloc[o][r]
      /\ \A l \in lpnAlloc[o] : lpn[l] = "RESERVED"
  BY ShipsAllocated
<1>2. \A l \in Lpns : lpn'[l] = IF l \in lpnAlloc[o] THEN "SHIPPED" ELSE lpn[l]
  BY DEF CommitShip
<1>3. /\ SumFunctionOnSet(alloc[o], RowsOf(b)) = Requested(o, b, NewStock)
      /\ g \in GradesOfLpns =>
           Cardinality({l \in LpnsOf(o, b) : LpnGrade[l] = g}) = Requested(o, b, g)
  BY <1>1, KindCases DEF Ledger, AllOrNothing, GradesOfLpns
<1>4. lpnAlloc[o] \in SUBSET Lpns
  BY <1>1, StockTypes
<1> HIDE DEF b, g
<1>5. CASE g = NewStock
  <2>1. \A r \in Rows : SpareRows'[r] = SpareRows[r]
    <3> SUFFICES ASSUME NEW r \in Rows PROVE SpareRows'[r] = SpareRows[r]
      OBVIOUS
    <3>1. quantity[r] \in Nat /\ reserved[r] \in Nat /\ alloc[o][r] \in Nat
      BY <1>1, StockTypes
    <3> QED
      BY <1>1, <3>1 DEF SpareRows, Spare
  <2>2. SpareRows' = SpareRows
    BY <2>1 DEF SpareRows, Spare
  <2>3. OnShelves(b)' = OnShelves(b) - SumFunctionOnSet(alloc[o], RowsOf(b))
    BY <1>1, ShelvesAfterShipment
  <2> QED
    BY <1>3, <1>5, <2>2, <2>3, ClaimableOf DEF b, g
<1>6. CASE g # NewStock
  <2> DEFINE A == CopiesIn(k, {"AVAILABLE", "RESERVED"})
             C == {l \in LpnsOf(o, b) : LpnGrade[l] = g}
  <2>1. C \subseteq A
    BY <1>1, <1>4 DEF CopiesIn, LpnsOf, b, g
  <2>2. A' = A \ C
    BY <1>1, <1>2, <1>4 DEF CopiesIn, LpnsOf, b, g
  <2>3. CopiesIn(k, {"AVAILABLE"})' = CopiesIn(k, {"AVAILABLE"})
    BY <1>1, <1>2, <1>4 DEF CopiesIn
  <2>4. Cardinality(C) = Requested(o, b, g)
    BY <1>3, <1>6, KindCases DEF b, g
  <2>5. IsFiniteSet(A) /\ Cardinality(A) \in Nat
    BY CopiesFinite
  <2>6. IsFiniteSet(C) /\ Cardinality(C) \in Nat /\ A \cap C = C
    BY <2>1, <2>5, FS_Subset, FS_CardinalityType
  <2>7. Cardinality(A \ C) = Cardinality(A) - Cardinality(C)
    <3> HIDE DEF A, C
    <3> QED BY <2>5, <2>6, FS_Difference
  <2>8. /\ OnHand(k) = Cardinality(A) /\ OnHand(k)' = Cardinality(A')
        /\ Claimable(k)' = Claimable(k)
    BY <1>6, <2>3, ClaimableOf DEF g
  <2> HIDE DEF A, C
  <2> QED
    BY <2>2, <2>4, <2>7, <2>8 DEF b, g
<1> QED
  BY <1>5, <1>6

(* What a delivery brings can be claimed at once.                          *)
LEMMA DeliversKind ==
  ASSUME HandlerInvariant, Ledger, NEW s \in Sessions, NEW r \in Rows, CommitReceive(s, r),
         NEW d, d = tx[s].delivery, NEW k \in Kinds
  PROVE  LET n == IF k = <<DeliveryBook[d], NewStock>> THEN DeliveryQty[d] ELSE 0
         IN  Claimable(k)' = Claimable(k) + n /\ OnHand(k)' = OnHand(k) + n
<1> DEFINE b == DeliveryBook[d]
           n == IF k[1] = b THEN DeliveryQty[d] ELSE 0
<1>1. /\ b \in Books /\ r \in RowsOf(b) /\ DeliveryQty[d] \in Nat
      /\ quantity' = [quantity EXCEPT ![r] = quantity[r] + DeliveryQty[d]]
  BY DeliversOnce
<1>2. UNCHANGED <<reserved, lpn>>
  BY DEF CommitReceive
<1> HIDE DEF b
<1>3. CASE k[2] # NewStock
  <2>1. /\ CopiesIn(k, {"AVAILABLE"})' = CopiesIn(k, {"AVAILABLE"})
        /\ CopiesIn(k, {"AVAILABLE", "RESERVED"})' = CopiesIn(k, {"AVAILABLE", "RESERVED"})
    BY <1>2 DEF CopiesIn
  <2>2. k # <<b, NewStock>>
    BY <1>3
  <2>3. Claimable(k)' = Claimable(k) /\ OnHand(k)' = OnHand(k)
    BY <1>3, <2>1, ClaimableOf
  <2> QED
    BY <2>2, <2>3, KindTerms DEF b
<1>4. CASE k[2] = NewStock
  <2>1. OnShelves(k[1])' = OnShelves(k[1]) + n
    BY <1>1, ShelvesAfterDelivery
  <2> DEFINE after == SpareRows'
             S == RowsOf(k[1])
  <2>2. \A q \in S : SpareRows[q] \in Int
    BY SpareNat DEF RowsOf
  <2>3. \A q \in S \ {r} : after[q] = SpareRows[q]
    BY <1>1, <1>2 DEF RowsOf, SpareRows, Spare, HandlerInvariant, StockType, PerRow
  <2>4. SpareRows[r] \in Int /\ after[r] = SpareRows[r] + DeliveryQty[d]
    <3>1. quantity[r] \in Nat /\ reserved[r] \in Nat /\ quantity'[r] = quantity[r] + DeliveryQty[d]
      BY <1>1, StockTypes DEF HandlerInvariant, StockType, PerRow
    <3> QED
      BY <1>1, <1>2, <3>1 DEF SpareRows, Spare
  <2>5. IsFiniteSet(S) /\ (r \in S <=> k[1] = b)
    BY <1>1, RowsOfBook DEF RowsOf
  <2>6. SumFunctionOnSet(after, S) = SumFunctionOnSet(SpareRows, S) + n
    <3>1. CASE r \in S
      <4>1. after[r] \in Int
        BY <1>1, <2>4
      <4>2. SumFunctionOnSet(SpareRows, S) \in Int
        <5> HIDE DEF S
        <5> QED BY <2>2, <2>5, SumInt
      <4>3. SumFunctionOnSet(after, S)
              = SumFunctionOnSet(SpareRows, S) - SpareRows[r] + after[r]
        <5> HIDE DEF S, after
        <5> QED BY <2>2, <2>3, <2>5, <3>1, <4>1, SumChange
      <4> HIDE DEF S, after
      <4> QED
        BY <1>1, <2>4, <2>5, <3>1, <4>2, <4>3
    <3>2. CASE r \notin S
      <4>1. SumFunctionOnSet(after, S) = SumFunctionOnSet(SpareRows, S)
        <5> HIDE DEF S, after
        <5> QED BY <2>3, <2>5, <3>2, SumAgree
      <4>2. SumFunctionOnSet(SpareRows, S) \in Int
        <5> HIDE DEF S
        <5> QED BY <2>2, <2>5, SumInt
      <4> HIDE DEF S, after
      <4> QED
        BY <2>5, <3>2, <4>1, <4>2
    <3> QED
      BY <3>1, <3>2
  <2>7. Claimable(k)' = Claimable(k) + n /\ OnHand(k)' = OnHand(k) + n
    BY <1>4, <2>1, <2>6, ClaimableOf
  <2>8. k = <<b, NewStock>> <=> k[1] = b
    BY <1>4, KindCases
  <2> QED
    BY <2>7, <2>8 DEF b
<1> QED
  BY <1>3, <1>4

(* An admitted copy is one more of its kind.                               *)
LEMMA AdmitsKind ==
  ASSUME HandlerInvariant, NEW l \in Lpns, AdmitUsed(l), NEW k \in Kinds
  PROVE  LET n == IF k = <<LpnBook[l], LpnGrade[l]>> THEN 1 ELSE 0
         IN  Claimable(k)' = Claimable(k) + n /\ OnHand(k)' = OnHand(k) + n
<1>1. lpn[l] = "NONE" /\ UNCHANGED <<quantity, reserved>> /\ LpnGrade[l] # NewStock
  BY LpnConstants DEF AdmitUsed
<1>2. \A m \in Lpns : lpn'[m] = IF m = l THEN "AVAILABLE" ELSE lpn[m]
  BY DEF AdmitUsed, HandlerInvariant, StockType
<1>3. CASE k[2] = NewStock
  <2>1. SpareRows' = SpareRows /\ OnShelves(k[1])' = OnShelves(k[1])
    BY <1>1 DEF SpareRows, Spare, OnShelves
  <2>2. k # <<LpnBook[l], LpnGrade[l]>>
    BY <1>1, <1>3
  <2>3. Claimable(k)' = Claimable(k) /\ OnHand(k)' = OnHand(k)
    BY <1>3, <2>1, ClaimableOf
  <2> QED
    BY <2>2, <2>3, KindTerms
<1>4. CASE k[2] # NewStock
  <2> DEFINE A(S) == CopiesIn(k, S)
             this == k = <<LpnBook[l], LpnGrade[l]>>
  <2>1. ASSUME NEW S \in {{"AVAILABLE"}, {"AVAILABLE", "RESERVED"}}
        PROVE  /\ A(S)' = (IF this THEN A(S) \cup {l} ELSE A(S)) /\ l \notin A(S)
               /\ Cardinality(A(S) \cup {l}) = Cardinality(A(S)) + 1
               /\ Cardinality(A(S)) \in Nat
    <3>1. l \notin A(S)
      BY <1>1 DEF CopiesIn
    <3>2. this <=> (LpnBook[l] = k[1] /\ LpnGrade[l] = k[2])
      BY KindCases
    <3>3. A(S)' = IF this THEN A(S) \cup {l} ELSE A(S)
      BY <1>2, <3>2 DEF CopiesIn
    <3>4. IsFiniteSet(A(S)) /\ Cardinality(A(S)) \in Nat
      BY CopiesFinite
    <3> QED
      BY <3>1, <3>3, <3>4, FS_AddElement
  <2>2. /\ Cardinality(A({"AVAILABLE"})')
             = Cardinality(A({"AVAILABLE"})) + IF this THEN 1 ELSE 0
        /\ Cardinality(A({"AVAILABLE", "RESERVED"})')
             = Cardinality(A({"AVAILABLE", "RESERVED"})) + IF this THEN 1 ELSE 0
    <3>1. /\ A({"AVAILABLE"})' = IF this THEN A({"AVAILABLE"}) \cup {l} ELSE A({"AVAILABLE"})
          /\ A({"AVAILABLE", "RESERVED"})' = IF this THEN A({"AVAILABLE", "RESERVED"}) \cup {l}
                                             ELSE A({"AVAILABLE", "RESERVED"})
          /\ Cardinality(A({"AVAILABLE"}) \cup {l}) = Cardinality(A({"AVAILABLE"})) + 1
          /\ Cardinality(A({"AVAILABLE", "RESERVED"}) \cup {l})
               = Cardinality(A({"AVAILABLE", "RESERVED"})) + 1
          /\ Cardinality(A({"AVAILABLE"})) \in Nat
          /\ Cardinality(A({"AVAILABLE", "RESERVED"})) \in Nat
      BY <2>1
    <3> HIDE DEF A, this
    <3> QED
      BY <3>1
  <2> QED
    BY <1>4, <2>2, ClaimableOf
<1> QED
  BY <1>3, <1>4

-----------------------------------------------------------------------------
(* From the kinds to the steps of the promise.                             *)

(* The initial states are initial states of the abstract warehouse.        *)
LEMMA PromiseInit ==
  ASSUME Init
  PROVE  Promise!Init
<1>1. HandlerInvariant
  BY InvariantHoldsInitially
<1>2. ASSUME NEW k \in Kinds
      PROVE  Claimable(k) \in Nat /\ OnHand(k) = Claimable(k)
  <2>1. \A r \in Rows : SpareRows[r] = quantity[r]
    <3>1. \A r \in Rows : quantity[r] \in Nat /\ reserved[r] = 0
      BY <1>1, StockTypes DEF Init
    <3> QED
      BY <3>1 DEF SpareRows, Spare
  <2>2. SumFunctionOnSet(SpareRows, RowsOf(k[1])) = SumFunctionOnSet(quantity, RowsOf(k[1]))
    <3>1. \A r \in RowsOf(k[1]) : SpareRows[r] = quantity[r]
      BY <2>1 DEF RowsOf
    <3> QED
      BY <3>1, RowsOfBook, SumAgree
  <2>3. \A S \in {{"AVAILABLE"}, {"AVAILABLE", "RESERVED"}} : CopiesIn(k, S) = {}
    BY DEF Init, CopiesIn
  <2>4. k[2] = NewStock => OnHand(k) = Claimable(k)
    BY <2>2, ClaimableOf DEF OnShelves
  <2>5. k[2] # NewStock => OnHand(k) = Claimable(k)
    BY <2>3, ClaimableOf
  <2> QED
    BY <1>1, <2>4, <2>5, KindTerms
<1>3. status = [o \in Orders |-> "NONE"]
  BY DEF Init
<1> QED
  BY <1>2, <1>3 DEF Promise!Init

(* A step that leaves the orders and the kinds alone is invisible.         *)
LEMMA PromiseStutter ==
  ASSUME UNCHANGED status,
         \A k \in Kinds : Claimable(k)' = Claimable(k) /\ OnHand(k)' = OnHand(k)
  PROVE  UNCHANGED Promise!vars
BY DEF Promise!vars, Kinds, Grades

(* Steps that change no stock are invisible to it.                         *)
LEMMA PromiseUntouched ==
  ASSUME UNCHANGED <<status, quantity, reserved, lpn>>
  PROVE  UNCHANGED Promise!vars
<1>1. \A k \in Kinds : Claimable(k)' = Claimable(k) /\ OnHand(k)' = OnHand(k)
  BY DEF Claimable, OnHand, CopiesIn, RowsOf
<1> QED
  BY <1>1, PromiseStutter

(* The commit of a new order is Place.                                     *)
LEMMA PromisePlace ==
  ASSUME HandlerInvariant, NEW s \in Sessions, CommitCreate(s)
  PROVE  Promise!Next
<1> DEFINE o == tx[s].order
<1>1. o \in Orders /\ status[o] = "NONE"
  BY DEF HandlerInvariant, TxInv, OrderHeld, CommitCreate
<1>2. status' = [status EXCEPT ![o] = "PENDING"]
  BY DEF CommitCreate
<1>3. \A k \in Kinds : Claimable(k)' = Claimable(k) /\ OnHand(k)' = OnHand(k)
  BY DEF CommitCreate, Claimable, OnHand, CopiesIn, RowsOf
<1>4. Promise!Place(o)
  BY <1>1, <1>2, <1>3 DEF Promise!Place, Promise!Move, Kinds, Grades
<1> QED
  BY <1>1, <1>4 DEF Promise!Next

(* The commit of a pick is Claim: all that the order asks for, at once.    *)
LEMMA PromiseClaim ==
  ASSUME HandlerInvariant, Ledger, NEW s \in Sessions, CommitPick(s)
  PROVE  Promise!Next
<1> DEFINE o == tx[s].order
<1>1. o \in Orders /\ status[o] = "PENDING"
  BY PickedInFull
<1>2. status' = [status EXCEPT ![o] = "PICKING"]
  BY DEF CommitPick
<1>3. \A k \in Kinds : /\ Requested(o, k[1], k[2]) <= Claimable(k)
                       /\ Claimable(k)' = Claimable(k) - Requested(o, k[1], k[2])
                       /\ OnHand(k)' = OnHand(k)
  BY ClaimsDemand
<1> HIDE DEF o
<1>4. Promise!Claim(o)
  BY <1>1, <1>2, <1>3 DEF Promise!Claim, Promise!Move, Kinds, Grades
<1> QED
  BY <1>1, <1>4 DEF Promise!Next

(* The commit of a shipment is Ship.                                       *)
LEMMA PromiseShip ==
  ASSUME HandlerInvariant, Ledger, NEW s \in Sessions, CommitShip(s)
  PROVE  Promise!Next
<1> DEFINE o == tx[s].order
<1>1. o \in Orders /\ status[o] = "PICKING"
  BY ShipsAllocated
<1>2. status' = [status EXCEPT ![o] = "SHIPPED"]
  BY DEF CommitShip
<1>3. \A k \in Kinds : /\ Claimable(k)' = Claimable(k)
                       /\ OnHand(k)' = OnHand(k) - Requested(o, k[1], k[2])
  BY ShipsDemand
<1> HIDE DEF o
<1>4. Promise!Ship(o)
  BY <1>1, <1>2, <1>3 DEF Promise!Ship, Promise!Move, Kinds, Grades
<1> QED
  BY <1>1, <1>4 DEF Promise!Next

(* More of one kind is an arrival of it, or nothing if it is none.         *)
LEMMA PromiseArrive ==
  ASSUME HandlerInvariant, UNCHANGED status, NEW j \in Kinds, NEW n \in Nat,
         \A k \in Kinds : /\ Claimable(k)' = Claimable(k) + IF k = j THEN n ELSE 0
                          /\ OnHand(k)' = OnHand(k) + IF k = j THEN n ELSE 0
  PROVE  [Promise!Next]_(Promise!vars)
<1>1. \A k \in Kinds : Claimable(k) \in Nat /\ OnHand(k) \in Nat
  BY KindTerms
<1>2. CASE n = 0
  <2>1. \A k \in Kinds : Claimable(k)' = Claimable(k) /\ OnHand(k)' = OnHand(k)
    BY <1>1, <1>2
  <2> QED
    BY <2>1, PromiseStutter
<1>3. CASE n # 0
  <2> DEFINE U == [k \in Kinds |-> Claimable(k)]
             H == [k \in Kinds |-> OnHand(k)]
  <2>1. \A k \in Kinds : /\ U[k] \in Nat /\ H[k] \in Nat
                         /\ U'[k] = U[k] + IF k = j THEN n ELSE 0
                         /\ H'[k] = H[k] + IF k = j THEN n ELSE 0
    BY <1>1 DEF Kinds, Grades
  <2>2. /\ U = [k \in Kinds |-> U[k]] /\ U' = [k \in Kinds |-> U'[k]]
        /\ H = [k \in Kinds |-> H[k]] /\ H' = [k \in Kinds |-> H'[k]]
    BY DEF Kinds, Grades
  <2> DEFINE V == U'
             G == H'
  <2>3. /\ \A k \in Kinds : /\ U[k] \in Nat /\ H[k] \in Nat
                            /\ V[k] = U[k] + IF k = j THEN n ELSE 0
                            /\ G[k] = H[k] + IF k = j THEN n ELSE 0
        /\ U = [k \in Kinds |-> U[k]] /\ V = [k \in Kinds |-> V[k]]
        /\ H = [k \in Kinds |-> H[k]] /\ G = [k \in Kinds |-> G[k]]
    BY <2>1, <2>2
  <2>4. /\ V = [U EXCEPT ![j] = V[j]] /\ V[j] > U[j]
        /\ G = [H EXCEPT ![j] = H[j] + V[j] - U[j]]
    <3> HIDE DEF U, V, G, H
    <3>1. \A k \in Kinds : k # j => V[k] = U[k] /\ G[k] = H[k]
      BY <2>3
    <3>2. V[j] > U[j] /\ G[j] = H[j] + V[j] - U[j]
      <4>1. /\ U[j] \in Nat /\ H[j] \in Nat /\ V[j] = U[j] + n /\ G[j] = H[j] + n
        BY <2>3
      <4> QED
        BY <1>3, <4>1
    <3> QED
      BY <2>3, <3>1, <3>2
  <2>5. Promise!Arrive(j)
    BY <2>4 DEF Promise!Arrive
  <2> QED
    BY <2>5 DEF Promise!Next
<1> QED
  BY <1>2, <1>3

(* Every step of the handlers is one of the promise, or invisible.         *)
LEMMA PromiseStep ==
  ASSUME HandlerInvariant, Ledger, [Next]_vars
  PROVE  [Promise!Next]_(Promise!vars)
<1>1. ASSUME UNCHANGED vars PROVE UNCHANGED Promise!vars
  BY <1>1, PromiseUntouched DEF vars, db
<1>2. ASSUME NEW s \in Sessions, Begin(s) PROVE UNCHANGED Promise!vars
  <2>1. UNCHANGED db
    BY <1>2 DEF Begin, BeginCreate, BeginPick, BeginShip, BeginScan, BeginReceive,
       BeginApprove, BeginArrival
  <2> QED
    BY <2>1, PromiseUntouched DEF db
<1>3. ASSUME NEW s \in Sessions, Crash(s) PROVE UNCHANGED Promise!vars
  BY <1>3, PromiseUntouched DEF Crash, Rollback, db
<1>4. ASSUME NEW o \in Orders, NEW l \in Lpns, ScanLpn(o, l) PROVE UNCHANGED Promise!vars
  BY <1>4, PromiseUntouched DEF ScanLpn
<1>5. ASSUME NEW l \in Lpns, PriceLpn(l) PROVE UNCHANGED Promise!vars
  BY <1>5, PromiseUntouched DEF PriceLpn
<1>6. ASSUME NEW l \in Lpns, AdmitUsed(l) PROVE [Promise!Next]_(Promise!vars)
  <2> DEFINE j == <<LpnBook[l], LpnGrade[l]>>
  <2>1. j \in Kinds /\ UNCHANGED status
    BY <1>6, LpnConstants DEF Kinds, Grades, AdmitUsed
  <2>2. \A k \in Kinds : /\ Claimable(k)' = Claimable(k) + IF k = j THEN 1 ELSE 0
                         /\ OnHand(k)' = OnHand(k) + IF k = j THEN 1 ELSE 0
    BY <1>6, AdmitsKind
  <2> HIDE DEF j
  <2> QED
    BY <2>1, <2>2, PromiseArrive
<1>7. ASSUME NEW s \in Sessions, NEW r \in Rows, CommitReceive(s, r)
      PROVE  [Promise!Next]_(Promise!vars)
  <2> DEFINE d == tx[s].delivery
             j == <<DeliveryBook[d], NewStock>>
             n == DeliveryQty[d]
  <2>1. j \in Kinds /\ n \in Nat /\ UNCHANGED status
    BY <1>7, DeliversOnce DEF Kinds, CommitReceive
  <2>2. \A k \in Kinds : /\ Claimable(k)' = Claimable(k) + IF k = j THEN n ELSE 0
                         /\ OnHand(k)' = OnHand(k) + IF k = j THEN n ELSE 0
    BY <1>7, DeliversKind
  <2> HIDE DEF j, n
  <2> QED
    BY <2>1, <2>2, PromiseArrive
<1>8. ASSUME NEW s \in Sessions, Continue(s) PROVE [Promise!Next]_(Promise!vars)
  <2>1. CASE UNCHANGED db
    BY <2>1, PromiseUntouched DEF db
  <2>2. CASE CommitCreate(s)
    BY <2>2, PromisePlace
  <2>3. CASE CommitPick(s)
    BY <2>3, PromiseClaim
  <2>4. CASE \E r \in Rows : CommitScan(s, r)
    BY <2>4, PromiseUntouched DEF CommitScan
  <2>5. CASE CommitShip(s)
    BY <2>5, PromiseShip
  <2>6. CASE \E r \in Rows : CommitReceive(s, r)
    BY <2>6, <1>7
  <2>7. UNCHANGED db \/ CommitCreate(s) \/ CommitPick(s) \/ CommitShip(s)
          \/ (\E r \in Rows : CommitScan(s, r) \/ CommitReceive(s, r))
    BY <1>8 DEF Continue, LockRow, LockBook, LockOnly, TakeLpn, SelectRows, ReserveRows,
       SelectShelves, Refuse, DeadlockVictim, Rollback
  <2> QED
    BY <2>1, <2>2, <2>3, <2>4, <2>5, <2>6, <2>7
<1> QED
  BY <1>1, <1>2, <1>3, <1>4, <1>5, <1>6, <1>8 DEF Next

(* The handlers, with their locks, snapshots, rollbacks and deadlocks,     *)
(* implement the abstract warehouse: every commit is one of its steps, and *)
(* nothing before a commit can be seen.                                    *)
THEOREM HandlersKeepPromise == Spec => KeepsPromise
<1>1. Init => Promise!Init
  BY PromiseInit
<1>2. HandlerInvariant /\ Ledger /\ [Next]_vars => [Promise!Next]_(Promise!vars)
  BY PromiseStep
<1>3. Spec => Promise!Spec
  BY <1>1, <1>2, LedgerBalances, PTL DEF Spec, Promise!Spec
<1> QED
  BY <1>3 DEF KeepsPromise
=============================================================================
