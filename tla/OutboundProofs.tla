--------------------------- MODULE OutboundProofs ---------------------------
(***************************************************************************)
(* HandlerInvariant is inductive, for any number of orders, rows, copies,  *)
(* deliveries and sessions; with it, the stock invariants that do not      *)
(* speak of sums hold in every reachable state.                            *)
(***************************************************************************)
EXTENDS OutboundInvariant, TLAPS, FiniteSetTheorems, SequenceTheorems

-----------------------------------------------------------------------------
(* Locks.                                                                  *)

(* The locks the handlers ask for are locks.                               *)
LEMMA LockTypes ==
  /\ \A o \in Orders : OrderLock(o) \in Lock
  /\ \A r \in Rows : RowLock(r) \in Lock
  /\ \A l \in Lpns : LpnLock(l) \in Lock
  /\ \A k \in Racks : RackLock(k) \in Lock
  /\ \A b \in Books : /\ IsbnLock(b) \in Lock /\ BookLock(b) \in Lock
                      /\ UpdateLock(b) \in Lock /\ KeyLock(b) \in Lock
BY DEF Lock, OrderLock, RowLock, LpnLock, RackLock, IsbnLock, BookLock,
       UpdateLock, KeyLock

(* The locks of orders, rows, copies and racks exclude themselves.         *)
LEMMA ExclusiveLocks ==
  /\ \A o : Conflict(OrderLock(o), OrderLock(o))
  /\ \A r : Conflict(RowLock(r), RowLock(r))
  /\ \A l : Conflict(LpnLock(l), LpnLock(l))
  /\ \A k : Conflict(RackLock(k), RackLock(k))
BY DEF Conflict, OrderLock, RowLock, LpnLock, RackLock

(* Locks of different tables, or of different rows, are different.         *)
LEMMA DistinctLocks ==
  /\ \A r, q : RowLock(r) = RowLock(q) => r = q
  /\ \A l, m : LpnLock(l) = LpnLock(m) => l = m
  /\ \A r, x : /\ RowLock(r) # OrderLock(x) /\ RowLock(r) # LpnLock(x)
               /\ RowLock(r) # RackLock(x) /\ RowLock(r) # IsbnLock(x)
               /\ RowLock(r) # BookLock(x) /\ RowLock(r) # UpdateLock(x)
               /\ RowLock(r) # KeyLock(x)
BY DEF OrderLock, RowLock, LpnLock, RackLock, IsbnLock, BookLock, UpdateLock,
       KeyLock

-----------------------------------------------------------------------------
(* Plans.                                                                  *)

(* A listing of a finite set is a sequence in which every element occurs.  *)
LEMMA ListingIsSeq ==
  ASSUME NEW S, IsFiniteSet(S), NEW p \in Listings(S)
  PROVE  /\ p \in Seq(S)
         /\ Len(p) = Cardinality(S) /\ DOMAIN p = 1..Len(p)
         /\ \A x \in S : \E i \in 1..Len(p) : p[i] = x
<1>1. Cardinality(S) \in Nat
  BY FS_CardinalityType
<1>2. p \in [1..Cardinality(S) -> S]
  BY DEF Listings
<1>3. p \in Seq(S) /\ Len(p) = Cardinality(S) /\ DOMAIN p = 1..Len(p)
  BY <1>1, <1>2
<1> QED
  BY <1>3 DEF Listings

(* Subsets of the rows, the copies and the books are finite.               *)
LEMMA FiniteSubsets ==
  /\ \A S \in SUBSET Rows : IsFiniteSet(S)
  /\ \A S \in SUBSET Lpns : IsFiniteSet(S)
  /\ \A S \in SUBSET Books : IsFiniteSet(S)
BY FS_Subset, RowsAreFinite, LpnsAreFinite, BooksAreFinite

(* Asking for the locks of a list of rows plans exactly these rows.        *)
LEMMA RowLocksPlan ==
  ASSUME NEW S \in SUBSET Rows, NEW p \in Listings(S)
  PROVE  /\ RowLocks(p) \in Seq(Lock) /\ Len(RowLocks(p)) = Len(p)
         /\ \A i \in 1..Len(p) : p[i] \in S /\ RowLocks(p)[i] = RowLock(p[i])
         /\ \A r \in S : \E i \in 1..Len(p) : RowLocks(p)[i] = RowLock(r)
<1>1. /\ p \in Seq(S) /\ DOMAIN p = 1..Len(p)
      /\ \A x \in S : \E i \in 1..Len(p) : p[i] = x
  BY ListingIsSeq, FiniteSubsets
<1>2. Len(p) \in Nat /\ \A i \in 1..Len(p) : p[i] \in S
  BY <1>1
<1>3. RowLocks(p) = [i \in 1..Len(p) |-> RowLock(p[i])]
  BY <1>1 DEF RowLocks
<1>4. \A i \in 1..Len(p) : RowLock(p[i]) \in Lock
  BY <1>2, LockTypes
<1>5. RowLocks(p) \in Seq(Lock) /\ Len(RowLocks(p)) = Len(p)
  BY <1>2, <1>3, <1>4
<1> QED
  BY <1>1, <1>2, <1>3, <1>5

(* Key locks and book locks on a list of books plan no row.                *)
LEMMA BookLocksPlan ==
  ASSUME NEW n \in Nat, NEW p \in [1..n -> Books]
  PROVE  /\ KeyLocks(p) \in Seq(Lock) /\ BookLocks(p) \in Seq(Lock)
         /\ Len(KeyLocks(p)) = n /\ Len(BookLocks(p)) = n
         /\ \A i \in 1..n, r \in Rows :
              KeyLocks(p)[i] # RowLock(r) /\ BookLocks(p)[i] # RowLock(r)
<1>1. /\ KeyLocks(p) = [i \in 1..n |-> KeyLock(p[i])]
      /\ BookLocks(p) = [i \in 1..n |-> BookLock(p[i])]
  BY DEF KeyLocks, BookLocks
<1>2. \A i \in 1..n : KeyLock(p[i]) \in Lock /\ BookLock(p[i]) \in Lock
  BY LockTypes
<1>3. /\ KeyLocks(p) \in Seq(Lock) /\ BookLocks(p) \in Seq(Lock)
      /\ Len(KeyLocks(p)) = n /\ Len(BookLocks(p)) = n
  BY <1>1, <1>2
<1> QED
  BY <1>1, <1>3, DistinctLocks

-----------------------------------------------------------------------------
(* Sessions.                                                               *)

(* An idle session has no locks, no images and no order.                   *)
LEMMA IdleInv == TxInv(Idle) /\ TxInv(Idle)'
<1>1. /\ Idle.op = "idle" /\ Idle.held = {} /\ Idle.plan = <<>>
      /\ Idle.lpns = {}
      /\ \A r \in Rows : Idle.quantity[r] = 0 /\ Idle.take[r] = 0
  BY DEF Idle, Started, Blank
<1>2. TxType(Idle)
  BY DEF TxType, Idle, Started, Blank, Ops, PerRow
<1>3. RowsHeld(Idle) = {} /\ RowsPlanned(Idle) = {}
  BY <1>1 DEF RowsHeld, RowsPlanned
<1>4. /\ LocksWhatExists(Idle) /\ ImagesAgree(Idle) /\ ChosenLpns(Idle)
      /\ LocksWhatExists(Idle)' /\ ImagesAgree(Idle)' /\ ChosenLpns(Idle)'
  BY <1>1, <1>3 DEF LocksWhatExists, ImagesAgree, ChosenLpns
<1>5. /\ DeliveryCovers(Idle) /\ OrderHeld(Idle)
      /\ DeliveryCovers(Idle)' /\ OrderHeld(Idle)'
  BY <1>1 DEF DeliveryCovers, OrderHeld
<1> QED
  BY <1>2, <1>4, <1>5 DEF TxInv, TxType

(* A step of one session that changes nothing in the database preserves    *)
(* the invariant when the session's new state x has its properties and the *)
(* locks it gained were free.                                              *)
LEMMA SessionStep ==
  ASSUME HandlerInvariant, UNCHANGED db, NEW s \in Sessions, NEW x,
         tx' = [tx EXCEPT ![s] = x], TxInv(x),
         \A k \in x.held \ tx[s].held : Free(s, k)
  PROVE  HandlerInvariant'
<1>1. /\ UNCHANGED <<status, created, priced, quantity, reserved, lpn,
                     lpnPriced, alloc>>
      /\ UNCHANGED <<picked, lpnAlloc, lpnPicked, virtualStock, received>>
  BY DEF db
<1>2. /\ tx' = [t \in Sessions |-> tx'[t]]
      /\ \A t \in Sessions : tx'[t] = IF t = s THEN x ELSE tx[t]
  BY DEF HandlerInvariant, StockType
<1>3. StockType'
  BY <1>1, <1>2 DEF HandlerInvariant, StockType
<1>4. LocksExclude'
  <2> SUFFICES ASSUME NEW t \in Sessions, NEW u \in Sessions, t # u,
                      NEW k \in tx'[t].held, NEW m \in tx'[u].held
               PROVE  ~Conflict(k, m)
    BY DEF LocksExclude
  <2>1. Conflict(k, m) <=> Conflict(m, k)
    BY DEF Conflict
  <2>2. CASE t = s
    BY <1>2, <2>1, <2>2 DEF HandlerInvariant, LocksExclude, Free, Blocks
  <2>3. CASE u = s
    BY <1>2, <2>1, <2>3 DEF HandlerInvariant, LocksExclude, Free, Blocks
  <2>4. CASE t # s /\ u # s
    BY <1>2, <2>4 DEF HandlerInvariant, LocksExclude
  <2> QED
    BY <2>2, <2>3, <2>4
<1>5. \A t \in Sessions : TxInv(tx[t])'
  <2> SUFFICES ASSUME NEW t \in Sessions
               PROVE  TxInv(tx[t])'
    OBVIOUS
  <2>1. TxInv(tx'[t])
    BY <1>2 DEF HandlerInvariant
  <2> QED
    BY <1>1, <2>1 DEF TxInv, TxType, LocksWhatExists, ImagesAgree,
         DeliveryCovers, OrderHeld, ChosenLpns
<1>6. AllocatedExist' /\ NothingBefore'
  BY <1>1 DEF HandlerInvariant, AllocatedExist, AllocatedRows, NothingBefore
<1>7. StockWithinBounds' /\ OneOrderPerLpn' /\ ShippedWasScanned'
  BY <1>1 DEF HandlerInvariant, StockWithinBounds, OneOrderPerLpn,
       ShippedWasScanned
<1> QED
  BY <1>3, <1>4, <1>5, <1>6, <1>7 DEF HandlerInvariant

(* A session that rolls back.                                              *)
LEMMA RollbackStep ==
  ASSUME HandlerInvariant, NEW s \in Sessions, Rollback(s)
  PROVE  HandlerInvariant'
<1>1. Idle.held = {}
  BY DEF Idle, Started
<1> QED
  BY <1>1, IdleInv, SessionStep DEF Rollback

-----------------------------------------------------------------------------
(* Taking locks.                                                           *)

(* Taking the first lock off a plan leaves the other rows planned.         *)
LEMMA PlanStep ==
  ASSUME NEW x, NEW y, x.plan \in Seq(Lock), x.plan # <<>>,
         y.plan = Tail(x.plan)
  PROVE  /\ y.plan \in Seq(Lock)
         /\ RowsPlanned(y) \subseteq RowsPlanned(x)
         /\ \A r \in RowsPlanned(x) :
              r \in RowsPlanned(y) \/ Head(x.plan) = RowLock(r)
         /\ \A r \in Rows : Head(x.plan) = RowLock(r) => r \in RowsPlanned(x)
<1>1. /\ y.plan \in Seq(Lock) /\ Len(x.plan) \in Nat \ {0}
      /\ Len(y.plan) = Len(x.plan) - 1 /\ Head(x.plan) = x.plan[1]
      /\ \A i \in 1..Len(y.plan) : y.plan[i] = x.plan[i + 1]
  BY HeadTailProperties
<1>2. \A i \in 1..Len(y.plan) : i + 1 \in 1..Len(x.plan)
  BY <1>1
<1>3. \A i \in 1..Len(x.plan) : i = 1 \/ i - 1 \in 1..Len(y.plan)
  BY <1>1
<1>4. RowsPlanned(y) \subseteq RowsPlanned(x)
  BY <1>1, <1>2 DEF RowsPlanned
<1>5. ASSUME NEW r \in RowsPlanned(x)
      PROVE  r \in RowsPlanned(y) \/ Head(x.plan) = RowLock(r)
  <2>1. PICK i \in 1..Len(x.plan) : x.plan[i] = RowLock(r)
    BY DEF RowsPlanned
  <2>2. CASE i = 1
    BY <1>1, <2>1, <2>2
  <2>3. CASE i # 1
    <3>1. i - 1 \in 1..Len(y.plan) /\ (i - 1) + 1 = i
      BY <1>3, <2>3
    <3>2. y.plan[i - 1] = RowLock(r)
      BY <1>1, <2>1, <3>1
    <3> QED
      BY <3>1, <3>2 DEF RowsPlanned
  <2> QED
    BY <2>2, <2>3
<1>6. 1 \in 1..Len(x.plan)
  BY <1>1
<1> QED
  BY <1>1, <1>4, <1>5, <1>6 DEF RowsPlanned

(* A lock that is not on a row, taken as the next of the plan.             *)
LEMMA TakeOtherLock ==
  ASSUME HandlerInvariant, NEW s \in Sessions, NEW k \in Lock, Wants(s, k),
         Free(s, k), \A r \in Rows : k # RowLock(r), NEW x,
         x = [tx[s] EXCEPT !.held = tx[s].held \cup {k},
                           !.plan = Tail(tx[s].plan), !.virtual = x.virtual],
         UNCHANGED db, tx' = [tx EXCEPT ![s] = x]
  PROVE  HandlerInvariant'
<1>1. TxInv(tx[s])
  BY DEF HandlerInvariant
<1>2. tx[s].plan \in Seq(Lock) /\ tx[s].plan # <<>> /\ Head(tx[s].plan) = k
  BY <1>1 DEF TxInv, TxType, Wants
<1>3. /\ x.held = tx[s].held \cup {k} /\ x.plan = Tail(tx[s].plan)
      /\ x.op = tx[s].op /\ x.order = tx[s].order /\ x.item = tx[s].item
      /\ x.delivery = tx[s].delivery /\ x.lpns = tx[s].lpns
      /\ x.quantity = tx[s].quantity /\ x.reserved = tx[s].reserved
      /\ x.take = tx[s].take
  BY <1>1 DEF TxInv, TxType
<1>4. x.plan \in Seq(Lock) /\ RowsPlanned(x) = RowsPlanned(tx[s])
  <2>1. /\ x.plan \in Seq(Lock) /\ RowsPlanned(x) \subseteq RowsPlanned(tx[s])
        /\ \A r \in RowsPlanned(tx[s]) :
             r \in RowsPlanned(x) \/ Head(tx[s].plan) = RowLock(r)
    BY <1>2, <1>3, PlanStep
  <2>2. RowsPlanned(tx[s]) \subseteq Rows
    BY DEF RowsPlanned
  <2> QED
    BY <1>2, <2>1, <2>2
<1>5. RowsHeld(x) = RowsHeld(tx[s])
  BY <1>3 DEF RowsHeld
<1>6. TxType(x)
  BY <1>1, <1>3, <1>4 DEF TxInv, TxType
<1>7. LocksWhatExists(x) /\ ImagesAgree(x) /\ ChosenLpns(x) /\ OrderHeld(x)
  BY <1>1, <1>3, <1>4, <1>5
     DEF TxInv, LocksWhatExists, ImagesAgree, ChosenLpns, OrderHeld
<1>8. DeliveryCovers(x)
  <2>1. x.plan # <<>> \/ x.plan = <<>>
    OBVIOUS
  <2>2. \A d : tx[s].plan = <<d>> => x.plan = <<>> /\ k = d
    BY <1>2, <1>3
  <2> QED
    BY <1>1, <1>2, <1>3, <1>4, <1>5, <2>2
       DEF TxInv, DeliveryCovers, BookOf
<1> QED
  BY <1>3, <1>6, <1>7, <1>8, SessionStep DEF TxInv

(* The locks of racks and the weaker locks of books.                       *)
LEMMA LockOnlyStep ==
  ASSUME HandlerInvariant, NEW s \in Sessions, NEW k \in Lock, LockOnly(s, k)
  PROVE  HandlerInvariant'
<1> DEFINE x == [tx[s] EXCEPT !.held = @ \cup {k}, !.plan = Tail(@)]
<1>1. tx[s] = [tx[s] EXCEPT !.virtual = tx[s].virtual] /\ TxType(tx[s])
  BY DEF HandlerInvariant, TxInv, TxType
<1>2. x = [tx[s] EXCEPT !.held = tx[s].held \cup {k},
                        !.plan = Tail(tx[s].plan), !.virtual = x.virtual]
  BY <1>1 DEF TxType
<1>3. tx' = [tx EXCEPT ![s] = x] /\ UNCHANGED db
  BY DEF LockOnly
<1>4. \A r \in Rows : k # RowLock(r)
  BY DEF LockOnly, RowLock
<1> HIDE DEF x
<1> QED
  BY <1>2, <1>3, <1>4, TakeOtherLock DEF LockOnly

(* The book that a scan, a shipment or an approval locks for itself.       *)
LEMMA LockBookStep ==
  ASSUME HandlerInvariant, NEW s \in Sessions, NEW b \in Books, LockBook(s, b)
  PROVE  HandlerInvariant'
<1> DEFINE k == BookLock(b)
           x == [tx[s] EXCEPT !.held = @ \cup {k}, !.plan = Tail(@),
                              !.virtual[b] = virtualStock[b]]
<1>1. TxType(tx[s])
  BY DEF HandlerInvariant, TxInv
<1>2. x = [tx[s] EXCEPT !.held = tx[s].held \cup {k},
                        !.plan = Tail(tx[s].plan), !.virtual = x.virtual]
  BY <1>1 DEF TxType
<1>3. tx' = [tx EXCEPT ![s] = x] /\ UNCHANGED db
  BY DEF LockBook
<1>4. \A r \in Rows : k # RowLock(r)
  BY DistinctLocks
<1>5. k \in Lock /\ Wants(s, k) /\ Free(s, k)
  BY LockTypes DEF LockBook
<1> HIDE DEF x, k
<1> QED
  BY <1>2, <1>3, <1>4, <1>5, TakeOtherLock

(* A row that was not held yet: it is read as it is, within its bounds.    *)
LEMMA LockNewRowStep ==
  ASSUME HandlerInvariant, NEW s \in Sessions, NEW r \in Rows,
         Wants(s, RowLock(r)), RowLock(r) \notin tx[s].held,
         Free(s, RowLock(r)), UNCHANGED db,
         tx' = [tx EXCEPT ![s].held = @ \cup {RowLock(r)},
                          ![s].plan = Tail(@),
                          ![s].quantity[r] = quantity[r],
                          ![s].reserved[r] = reserved[r]]
  PROVE  HandlerInvariant'
<1> DEFINE x == [tx[s] EXCEPT !.held = @ \cup {RowLock(r)}, !.plan = Tail(@),
                              !.quantity[r] = quantity[r],
                              !.reserved[r] = reserved[r]]
<1>1. TxInv(tx[s]) /\ quantity \in PerRow /\ reserved \in PerRow
  BY DEF HandlerInvariant, StockType
<1>2. /\ tx[s].plan \in Seq(Lock) /\ tx[s].plan # <<>>
      /\ Head(tx[s].plan) = RowLock(r)
      /\ tx[s].quantity \in PerRow /\ tx[s].reserved \in PerRow
  BY <1>1 DEF TxInv, TxType, Wants
<1>3. /\ x.held = tx[s].held \cup {RowLock(r)} /\ x.plan = Tail(tx[s].plan)
      /\ x.op = tx[s].op /\ x.order = tx[s].order /\ x.item = tx[s].item
      /\ x.delivery = tx[s].delivery /\ x.lpns = tx[s].lpns
      /\ x.take = tx[s].take /\ x.virtual = tx[s].virtual
      /\ x.quantity = [tx[s].quantity EXCEPT ![r] = quantity[r]]
      /\ x.reserved = [tx[s].reserved EXCEPT ![r] = reserved[r]]
  BY <1>1 DEF TxInv, TxType
<1>4. tx' = [tx EXCEPT ![s] = x]
  OBVIOUS
<1>5. TxType(x)
  <2> HIDE DEF x
  <2>1. x.quantity \in PerRow /\ x.reserved \in PerRow
    BY <1>1, <1>2, <1>3 DEF PerRow
  <2>2. x.held \subseteq Lock /\ x.plan \in Seq(Lock)
    BY <1>1, <1>2, <1>3, LockTypes, HeadTailProperties DEF TxInv, TxType
  <2> USE DEF x
  <2> QED
    BY <1>1, <1>3, <2>1, <2>2 DEF TxInv, TxType
<1> HIDE DEF x
<1>6. /\ RowsHeld(x) = RowsHeld(tx[s]) \cup {r}
      /\ RowsPlanned(x) \subseteq RowsPlanned(tx[s])
      /\ \A q \in RowsPlanned(tx[s]) : q \in RowsPlanned(x) \/ q = r
      /\ r \in RowsPlanned(tx[s]) /\ r \notin RowsHeld(tx[s])
  <2>1. RowsHeld(x) = RowsHeld(tx[s]) \cup {r} /\ r \notin RowsHeld(tx[s])
    BY <1>3, DistinctLocks DEF RowsHeld
  <2> QED
    BY <1>2, <1>3, <2>1, PlanStep, DistinctLocks
<1>7. LocksWhatExists(x)
  BY <1>1, <1>6 DEF TxInv, LocksWhatExists
<1>8. ImagesAgree(x)
  <2>1. tx[s].take[r] = 0 /\ reserved[r] \in Nat /\ reserved[r] <= quantity[r]
    BY <1>1, <1>6 DEF HandlerInvariant, StockWithinBounds, TxInv, ImagesAgree,
         PerRow
  <2>2. /\ x.quantity[r] = quantity[r] /\ x.reserved[r] = reserved[r]
        /\ \A q \in Rows \ {r} : /\ x.quantity[q] = tx[s].quantity[q]
                                 /\ x.reserved[q] = tx[s].reserved[q]
    BY <1>2, <1>3 DEF PerRow
  <2> QED
    BY <1>1, <1>3, <1>6, <2>1, <2>2 DEF TxInv, ImagesAgree
<1>9. OrderHeld(x) /\ ChosenLpns(x)
  BY <1>1, <1>3 DEF TxInv, OrderHeld, ChosenLpns
<1>10. DeliveryCovers(x)
  <2>1. tx[s].op # "locate" \/ tx[s].plan = <<>>
    BY <1>1, <1>2, DistinctLocks DEF TxInv, DeliveryCovers
  <2> QED
    BY <1>1, <1>2, <1>3, <1>6, <2>1 DEF TxInv, DeliveryCovers, BookOf
<1> QED
  BY <1>3, <1>4, <1>5, <1>7, <1>8, <1>9, <1>10, SessionStep DEF TxInv

(* A row, held already or not: the next of the plan.                       *)
LEMMA LockRowStep ==
  ASSUME HandlerInvariant, NEW s \in Sessions, NEW r \in Rows, LockRow(s, r)
  PROVE  HandlerInvariant'
<1>1. CASE RowLock(r) \notin tx[s].held
  BY <1>1, LockNewRowStep DEF LockRow
<1>2. CASE RowLock(r) \in tx[s].held
  <2> DEFINE x == [tx[s] EXCEPT !.plan = Tail(@)]
  <2>1. TxInv(tx[s])
    BY DEF HandlerInvariant
  <2>2. /\ tx[s].plan \in Seq(Lock) /\ tx[s].plan # <<>>
        /\ Head(tx[s].plan) = RowLock(r)
    BY <2>1 DEF TxInv, TxType, LockRow, Wants
  <2>3. tx' = [tx EXCEPT ![s] = x] /\ UNCHANGED db
    BY <1>2 DEF LockRow
  <2>4. /\ x.held = tx[s].held /\ x.plan = Tail(tx[s].plan)
        /\ x.op = tx[s].op /\ x.order = tx[s].order /\ x.item = tx[s].item
        /\ x.delivery = tx[s].delivery /\ x.lpns = tx[s].lpns
        /\ x.take = tx[s].take /\ x.quantity = tx[s].quantity
        /\ x.reserved = tx[s].reserved
    BY <2>1 DEF TxInv, TxType
  <2>5. TxType(x)
    BY <2>1, <2>2, HeadTailProperties DEF TxInv, TxType
  <2> HIDE DEF x
  <2>6. /\ RowsHeld(x) = RowsHeld(tx[s]) /\ r \in RowsHeld(x)
        /\ RowsPlanned(x) \subseteq RowsPlanned(tx[s])
        /\ \A q \in RowsPlanned(tx[s]) : q \in RowsPlanned(x) \/ q = r
    <3>1. RowsHeld(x) = RowsHeld(tx[s]) /\ r \in RowsHeld(x)
      BY <1>2, <2>4 DEF RowsHeld
    <3> QED
      BY <2>2, <2>4, <3>1, PlanStep, DistinctLocks
  <2>7. LocksWhatExists(x) /\ ImagesAgree(x) /\ OrderHeld(x) /\ ChosenLpns(x)
    BY <2>1, <2>4, <2>6
       DEF TxInv, LocksWhatExists, ImagesAgree, OrderHeld, ChosenLpns
  <2>8. DeliveryCovers(x)
    <3>1. tx[s].op # "locate" \/ tx[s].plan = <<>>
      BY <2>1, <2>2, DistinctLocks DEF TxInv, DeliveryCovers
    <3> QED
      BY <2>1, <2>2, <2>4, <2>6, <3>1 DEF TxInv, DeliveryCovers, BookOf
  <2> QED
    BY <2>3, <2>4, <2>5, <2>7, <2>8, SessionStep DEF TxInv
<1> QED
  BY <1>1, <1>2

-----------------------------------------------------------------------------
(* Beginning.                                                              *)

(* The record of a session that has just begun, field by field.            *)
LEMMA StartedFields ==
  ASSUME NEW op, NEW o, NEW d, NEW held, NEW plan, NEW x,
         x = Started(op, o, d, held, plan)
  PROVE  /\ x.op = op /\ x.order = o /\ x.delivery = d /\ x.held = held
         /\ x.plan = plan /\ x.item = 1 /\ x.lpns = {}
         /\ x.quantity = Blank /\ x.reserved = Blank /\ x.take = Blank
         /\ Blank \in PerRow /\ \A r \in Rows : Blank[r] = 0
BY DEF Started, Blank, PerRow

(* A session that begins has images of nothing, holds locks that were      *)
(* free, none of them on a row, and plans to lock rows that exist.         *)
LEMMA BeginStep ==
  ASSUME HandlerInvariant, NEW s \in Sessions, NEW op \in Ops,
         NEW o \in Orders \cup {None}, NEW d \in Deliveries \cup {None},
         NEW held \in SUBSET Lock, NEW plan \in Seq(Lock), NEW x,
         x = Started(op, o, d, held, plan),
         RowsHeld(x) = {}, RowsPlanned(x) \subseteq created,
         DeliveryCovers(x), OrderHeld(x), \A k \in held : Unlocked(k),
         UNCHANGED db, tx' = [tx EXCEPT ![s] = x]
  PROVE  HandlerInvariant'
<1>1. /\ x.held = held /\ x.lpns = {} /\ x.quantity = Blank /\ x.take = Blank
      /\ Blank \in PerRow /\ \A r \in Rows : Blank[r] = 0
  BY StartedFields
<1>2. TxType(x)
  BY <1>1 DEF TxType, Started
<1>3. LocksWhatExists(x) /\ ImagesAgree(x) /\ ChosenLpns(x)
  BY <1>1 DEF LocksWhatExists, ImagesAgree, ChosenLpns
<1>4. \A k \in x.held \ tx[s].held : Free(s, k)
  BY <1>1 DEF Unlocked, Free
<1> QED
  BY <1>2, <1>3, <1>4, SessionStep DEF TxInv

(* Holding one lock that is not on a row is holding no row.                *)
LEMMA NoRowsHeld ==
  /\ \A x, o : x.held = {OrderLock(o)} => RowsHeld(x) = {}
  /\ \A x, b : x.held = {BookLock(b)} => RowsHeld(x) = {}
  /\ \A x, b : x.held = {IsbnLock(b), KeyLock(b)} => RowsHeld(x) = {}
BY DistinctLocks DEF RowsHeld

(* An order that is created holds only itself.                             *)
LEMMA BeginCreateStep ==
  ASSUME HandlerInvariant, NEW s \in Sessions, NEW o \in Orders,
         BeginCreate(s, o)
  PROVE  HandlerInvariant'
<1>1. PICK p \in Listings(OrderedBooks(o)) :
        tx' = [tx EXCEPT ![s] =
                 Started("create", o, None, {OrderLock(o)}, KeyLocks(p))]
  BY DEF BeginCreate
<1> DEFINE x == Started("create", o, None, {OrderLock(o)}, KeyLocks(p))
<1>2. /\ x.op = "create" /\ x.order = o /\ x.held = {OrderLock(o)}
      /\ x.plan = KeyLocks(p)
  BY StartedFields
<1>3. tx' = [tx EXCEPT ![s] = x]
  BY <1>1
<1>4. OrderedBooks(o) \in SUBSET Books
  BY OrderConstants DEF OrderedBooks
<1>5. p \in [1..Len(p) -> Books] /\ Len(p) \in Nat
  BY <1>4, ListingIsSeq, FiniteSubsets
<1> HIDE DEF x
<1>6. x.plan \in Seq(Lock) /\ RowsPlanned(x) = {}
  BY <1>2, <1>5, BookLocksPlan DEF RowsPlanned
<1>7. DeliveryCovers(x) /\ OrderHeld(x)
  BY <1>2 DEF DeliveryCovers, OrderHeld, BeginCreate
<1>8. RowsHeld(x) = {} /\ x.held \in SUBSET Lock /\ x.op \in Ops
  BY <1>2, NoRowsHeld, LockTypes DEF Ops
<1>9. UNCHANGED db /\ \A k \in x.held : Unlocked(k)
  BY <1>2 DEF BeginCreate
<1>10. x = Started(x.op, o, None, x.held, x.plan)
  BY <1>2 DEF x
<1> QED
  BY <1>3, <1>6, <1>7, <1>8, <1>9, <1>10, BeginStep

(* A pick holds an order that nobody else is at work on.                   *)
LEMMA BeginPickStep ==
  ASSUME HandlerInvariant, NEW s \in Sessions, NEW o \in Orders,
         BeginPick(s, o)
  PROVE  HandlerInvariant'
<1> DEFINE x == Started("pick", o, None, {OrderLock(o)}, <<>>)
<1>1. /\ x.op = "pick" /\ x.order = o /\ x.held = {OrderLock(o)}
      /\ x.plan = <<>>
  BY StartedFields
<1>2. tx' = [tx EXCEPT ![s] = x] /\ UNCHANGED db
  BY DEF BeginPick
<1>3. x = Started(x.op, o, None, x.held, x.plan)
  BY <1>1
<1> HIDE DEF x
<1>4. x.plan \in Seq(Lock) /\ RowsPlanned(x) = {}
  BY <1>1 DEF RowsPlanned
<1>5. DeliveryCovers(x) /\ OrderHeld(x)
  BY <1>1 DEF DeliveryCovers, OrderHeld, BeginPick
<1>6. RowsHeld(x) = {} /\ x.held \in SUBSET Lock /\ x.op \in Ops
  BY <1>1, NoRowsHeld, LockTypes DEF Ops
<1>7. \A k \in x.held : Unlocked(k)
  BY <1>1 DEF BeginPick
<1> QED
  BY <1>2, <1>3, <1>4, <1>5, <1>6, <1>7, BeginStep

(* The row that a scan asks for exists: it has been allocated.             *)
LEMMA BeginScanStep ==
  ASSUME HandlerInvariant, NEW s \in Sessions, NEW o \in Orders, NEW r \in Rows,
         BeginScan(s, o, r)
  PROVE  HandlerInvariant'
<1> DEFINE plan == <<RowLock(r), BookLock(RowBook[r])>>
           x == Started("scan", o, None, {OrderLock(o)}, plan)
<1>1. /\ x.op = "scan" /\ x.order = o /\ x.held = {OrderLock(o)}
      /\ x.plan = plan
  BY StartedFields
<1>2. tx' = [tx EXCEPT ![s] = x] /\ UNCHANGED db
  BY DEF BeginScan
<1>3. x = Started(x.op, o, None, x.held, x.plan)
  BY <1>1
<1>4. /\ plan \in Seq(Lock) /\ Len(plan) = 2 /\ plan[1] = RowLock(r)
      /\ plan[2] = BookLock(RowBook[r])
  BY LockTypes, RowConstants
<1> HIDE DEF x, plan
<1>5. x.plan \in Seq(Lock) /\ RowsPlanned(x) \subseteq {r}
  BY <1>1, <1>4, DistinctLocks DEF RowsPlanned
<1>6. r \in created
  BY DEF BeginScan, HandlerInvariant, AllocatedExist, AllocatedRows
<1>7. DeliveryCovers(x) /\ OrderHeld(x)
  BY <1>1 DEF DeliveryCovers, OrderHeld, BeginScan
<1>8. RowsHeld(x) = {} /\ x.held \in SUBSET Lock /\ x.op \in Ops
  BY <1>1, NoRowsHeld, LockTypes DEF Ops
<1>9. \A k \in x.held : Unlocked(k)
  BY <1>1 DEF BeginScan
<1> QED
  BY <1>2, <1>3, <1>5, <1>6, <1>7, <1>8, <1>9, BeginStep

(* A plan that locks no rows but those of S.                               *)
OnlyRows(plan, S) ==
  \A i \in 1..Len(plan), r \in Rows : plan[i] = RowLock(r) => r \in S

(* Two plans, one after the other, lock the rows of either.                *)
LEMMA OnlyRowsConcat ==
  ASSUME NEW a \in Seq(Lock), NEW b \in Seq(Lock), NEW S,
         OnlyRows(a, S), OnlyRows(b, S)
  PROVE  a \o b \in Seq(Lock) /\ OnlyRows(a \o b, S)
<1>1. /\ a \o b \in Seq(Lock) /\ Len(a \o b) = Len(a) + Len(b)
      /\ \A i \in 1..Len(a \o b) :
           (a \o b)[i] = IF i <= Len(a) THEN a[i] ELSE b[i - Len(a)]
  BY ConcatProperties
<1>2. Len(a) \in Nat /\ Len(b) \in Nat
  OBVIOUS
<1>3. \A i \in 1..Len(a \o b) :
        \/ i \in 1..Len(a) /\ (a \o b)[i] = a[i]
        \/ i - Len(a) \in 1..Len(b) /\ (a \o b)[i] = b[i - Len(a)]
  BY <1>1, <1>2
<1> QED
  BY <1>1, <1>3 DEF OnlyRows

(* A shipment that lists rows and their books locks these rows only.       *)
LEMMA ShipRowsPlan ==
  ASSUME NEW S \in SUBSET Rows, NEW p \in Listings(S)
  PROVE  ShipRows(p) \in Seq(Lock) /\ OnlyRows(ShipRows(p), S)
<1> DEFINE n == 2 * Len(p)
<1>1. Len(p) \in Nat /\ \A i \in 1..Len(p) : p[i] \in S
  BY ListingIsSeq, FiniteSubsets
<1>2. ASSUME NEW i \in 1..n
      PROVE  IF i % 2 = 1 THEN (i + 1) \div 2 \in 1..Len(p)
                          ELSE i \div 2 \in 1..Len(p)
  BY <1>1
<1>3. ShipRows(p) = [i \in 1..n |-> IF i % 2 = 1 THEN RowLock(p[(i + 1) \div 2])
                                                ELSE KeyLock(RowBook[p[i \div 2]])]
  BY DEF ShipRows
<1>4. n \in Nat
  BY <1>1
<1> HIDE DEF n
<1>5. \A i \in 1..n : ShipRows(p)[i] \in Lock
  BY <1>1, <1>2, <1>3, LockTypes, RowConstants
<1>6. ShipRows(p) \in Seq(Lock) /\ Len(ShipRows(p)) = n
  BY <1>3, <1>4, <1>5
<1>7. ASSUME NEW i \in 1..n, NEW r \in Rows, ShipRows(p)[i] = RowLock(r)
      PROVE  r \in S
  BY <1>1, <1>2, <1>3, <1>7, DistinctLocks
<1> QED
  BY <1>6, <1>7 DEF OnlyRows

(* A shipment begins only when everything allocated was scanned.           *)
LEMMA BeginShipStep ==
  ASSUME HandlerInvariant, NEW s \in Sessions, NEW o \in Orders,
         BeginShip(s, o)
  PROVE  HandlerInvariant'
<1> DEFINE books(u) == [i \in DOMAIN u |-> LpnBook[u[i]]]
           plan(p, u, q) == ShipRows(p) \o KeyLocks(books(u)) \o BookLocks(q)
<1>1. PICK p \in Listings(AllocatedRows(o)), u \in Listings(lpnAlloc[o]),
           q \in Listings(ShippedBooks(o)) :
        tx' = [tx EXCEPT ![s] =
                 Started("ship", o, None, {OrderLock(o)}, plan(p, u, q))]
  BY DEF BeginShip
<1> DEFINE S == AllocatedRows(o)
           x == Started("ship", o, None, {OrderLock(o)}, plan(p, u, q))
<1>2. /\ S \in SUBSET Rows /\ lpnAlloc[o] \in SUBSET Lpns
      /\ ShippedBooks(o) \in SUBSET Books
  BY RowConstants, LpnConstants
     DEF HandlerInvariant, StockType, AllocatedRows, ShippedBooks
<1>3. ShipRows(p) \in Seq(Lock) /\ OnlyRows(ShipRows(p), S)
  BY <1>2, ShipRowsPlan
<1>4. KeyLocks(books(u)) \in Seq(Lock) /\ OnlyRows(KeyLocks(books(u)), S)
  <2>1. Len(u) \in Nat /\ DOMAIN u = 1..Len(u) /\ \A i \in 1..Len(u) : u[i] \in Lpns
    BY <1>2, ListingIsSeq, FiniteSubsets
  <2>2. books(u) \in [1..Len(u) -> Books]
    BY <2>1, LpnConstants
  <2> HIDE DEF books
  <2> QED
    BY <2>1, <2>2, BookLocksPlan DEF OnlyRows
<1>5. BookLocks(q) \in Seq(Lock) /\ OnlyRows(BookLocks(q), S)
  <2>1. Len(q) \in Nat /\ q \in [1..Len(q) -> Books]
    BY <1>2, ListingIsSeq, FiniteSubsets
  <2> QED
    BY <2>1, BookLocksPlan DEF OnlyRows
<1> HIDE DEF books, S
<1>6. plan(p, u, q) \in Seq(Lock) /\ OnlyRows(plan(p, u, q), S)
  BY <1>3, <1>4, <1>5, OnlyRowsConcat
<1> HIDE DEF plan
<1>7. /\ x.op = "ship" /\ x.order = o /\ x.held = {OrderLock(o)}
      /\ x.plan = plan(p, u, q)
  BY StartedFields
<1>8. tx' = [tx EXCEPT ![s] = x] /\ UNCHANGED db
  BY <1>1 DEF BeginShip
<1>9. x = Started(x.op, o, None, x.held, x.plan)
  BY <1>7
<1> HIDE DEF x
<1>10. x.plan \in Seq(Lock) /\ RowsPlanned(x) \subseteq S
  BY <1>6, <1>7 DEF RowsPlanned, OnlyRows
<1>11. S \subseteq created
  BY DEF S, HandlerInvariant, AllocatedExist
<1>12. DeliveryCovers(x) /\ OrderHeld(x)
  BY <1>7 DEF DeliveryCovers, OrderHeld, BeginShip, FullyPicked
<1>13. RowsHeld(x) = {} /\ x.held \in SUBSET Lock /\ x.op \in Ops
  BY <1>7, NoRowsHeld, LockTypes DEF Ops
<1>14. \A k \in x.held : Unlocked(k)
  BY <1>7 DEF BeginShip
<1> QED
  BY <1>8, <1>9, <1>10, <1>11, <1>12, <1>13, <1>14, BeginStep

(* A delivery and an approval begin without a row.                         *)
LEMMA BeginArrivalStep ==
  ASSUME HandlerInvariant, NEW s \in Sessions, NEW d \in Deliveries,
         BeginReceive(s, d) \/ BeginApprove(s, d)
  PROVE  HandlerInvariant'
<1> DEFINE b == DeliveryBook[d]
           plan == <<RackLock(RackOf[b])>>
<1>1. PICK locks \in {{IsbnLock(b), KeyLock(b)}, {BookLock(b)}} :
        BeginArrival(s, d, locks)
  BY DEF BeginReceive, BeginApprove
<1> DEFINE x == Started("locate", None, d, locks, plan)
<1>2. /\ x.op = "locate" /\ x.order = None /\ x.delivery = d
      /\ x.held = locks /\ x.plan = plan
  BY StartedFields
<1>3. tx' = [tx EXCEPT ![s] = x] /\ UNCHANGED db
  BY <1>1 DEF BeginArrival
<1>4. x = Started(x.op, None, d, x.held, x.plan)
  BY <1>2
<1>5. b \in Books /\ RackOf[b] \in Racks
  BY DeliveryConstants, RowConstants
<1>6. plan \in Seq(Lock) /\ Len(plan) = 1 /\ plan[1] = RackLock(RackOf[b])
  BY <1>5, LockTypes
<1> HIDE DEF x
<1>7. DeliveryCovers(x) /\ OrderHeld(x)
  BY <1>2 DEF DeliveryCovers, OrderHeld, BookOf
<1> HIDE DEF plan
<1>8. x.plan \in Seq(Lock) /\ RowsPlanned(x) = {}
  BY <1>2, <1>6, DistinctLocks DEF RowsPlanned
<1>9. RowsHeld(x) = {} /\ x.held \in SUBSET Lock /\ x.op \in Ops
  BY <1>2, <1>5, NoRowsHeld, LockTypes DEF Ops
<1>10. \A k \in x.held : Unlocked(k)
  BY <1>1, <1>2 DEF BeginArrival
<1> QED
  BY <1>3, <1>4, <1>7, <1>8, <1>9, <1>10, BeginStep

-----------------------------------------------------------------------------
(* Picking and shelving, before the commit.                                *)

(* A copy is chosen that nobody else has locked.                           *)
LEMMA TakeLpnStep ==
  ASSUME HandlerInvariant, NEW s \in Sessions, NEW l \in Lpns, TakeLpn(s, l)
  PROVE  HandlerInvariant'
<1> DEFINE x == [tx[s] EXCEPT !.held = @ \cup {LpnLock(l)},
                              !.lpns = @ \cup {l}, !.item = @ + 1]
<1>1. TxInv(tx[s])
  BY DEF HandlerInvariant
<1>2. /\ x.held = tx[s].held \cup {LpnLock(l)} /\ x.lpns = tx[s].lpns \cup {l}
      /\ x.op = tx[s].op /\ x.order = tx[s].order /\ x.plan = tx[s].plan
      /\ x.delivery = tx[s].delivery /\ x.take = tx[s].take
      /\ x.quantity = tx[s].quantity /\ x.reserved = tx[s].reserved
  BY <1>1 DEF TxInv, TxType
<1>3. TxType(x)
  <2>1. /\ tx[s].held \in SUBSET Lock /\ tx[s].lpns \in SUBSET Lpns
        /\ tx[s].item \in Nat
    BY <1>1 DEF TxInv, TxType
  <2>2. /\ tx[s].held \cup {LpnLock(l)} \in SUBSET Lock
        /\ tx[s].lpns \cup {l} \in SUBSET Lpns /\ tx[s].item + 1 \in Nat
    BY <2>1, LockTypes
  <2> QED
    BY <1>1, <2>2 DEF TxInv, TxType
<1>4. tx' = [tx EXCEPT ![s] = x] /\ UNCHANGED db
  BY DEF TakeLpn
<1>5. /\ lpn[l] = "AVAILABLE" /\ Free(s, LpnLock(l))
      /\ tx[s].op = "pick"
  BY DEF TakeLpn, FifoCandidates, Unlocked, Free, AtLine
<1> HIDE DEF x
<1>6. RowsHeld(x) = RowsHeld(tx[s]) /\ RowsPlanned(x) = RowsPlanned(tx[s])
  BY <1>2, DistinctLocks DEF RowsHeld, RowsPlanned
<1>7. LocksWhatExists(x) /\ ImagesAgree(x) /\ OrderHeld(x)
  BY <1>1, <1>2, <1>6 DEF TxInv, LocksWhatExists, ImagesAgree, OrderHeld
<1>8. ChosenLpns(x) /\ DeliveryCovers(x)
  BY <1>1, <1>2, <1>5 DEF TxInv, ChosenLpns, DeliveryCovers
<1> QED
  BY <1>2, <1>3, <1>4, <1>5, <1>7, <1>8, SessionStep DEF TxInv

(* The rows of a book that have something left are about to be locked.     *)
LEMMA SelectRowsStep ==
  ASSUME HandlerInvariant, NEW s \in Sessions, SelectRows(s)
  PROVE  HandlerInvariant'
<1> DEFINE S == {r \in RowsOf(LineOf(s).book) :
                   r \in created /\ quantity[r] > reserved[r]}
<1>1. PICK p \in Ascending(S) :
        tx' = [tx EXCEPT ![s].op = "pickRows", ![s].plan = RowLocks(p)]
  BY DEF SelectRows
<1> DEFINE x == [tx[s] EXCEPT !.op = "pickRows", !.plan = RowLocks(p)]
<1>2. TxInv(tx[s])
  BY DEF HandlerInvariant
<1>3. S \in SUBSET Rows /\ S \subseteq created /\ p \in Listings(S)
  BY DEF RowsOf, Ascending
<1> HIDE DEF S
<1>4. /\ RowLocks(p) \in Seq(Lock) /\ Len(RowLocks(p)) = Len(p)
      /\ \A i \in 1..Len(p) : p[i] \in S /\ RowLocks(p)[i] = RowLock(p[i])
  BY <1>3, RowLocksPlan
<1>5. /\ x.held = tx[s].held /\ x.lpns = tx[s].lpns /\ x.plan = RowLocks(p)
      /\ x.op = "pickRows" /\ x.order = tx[s].order
      /\ x.delivery = tx[s].delivery /\ x.take = tx[s].take
      /\ x.quantity = tx[s].quantity /\ x.reserved = tx[s].reserved
  BY <1>2 DEF TxInv, TxType
<1>6. TxType(x)
  BY <1>2, <1>4 DEF TxInv, TxType, Ops
<1>7. tx' = [tx EXCEPT ![s] = x] /\ UNCHANGED db /\ tx[s].op = "pick"
  BY <1>1 DEF SelectRows, AtLine
<1> HIDE DEF x
<1>8. RowsHeld(x) = RowsHeld(tx[s]) /\ RowsPlanned(x) \subseteq S
  BY <1>4, <1>5, DistinctLocks DEF RowsHeld, RowsPlanned
<1>9. LocksWhatExists(x) /\ ImagesAgree(x) /\ ChosenLpns(x)
  BY <1>2, <1>3, <1>5, <1>8
     DEF TxInv, LocksWhatExists, ImagesAgree, ChosenLpns
<1>10. OrderHeld(x) /\ DeliveryCovers(x)
  BY <1>2, <1>5, <1>7 DEF TxInv, OrderHeld, DeliveryCovers
<1> QED
  BY <1>5, <1>6, <1>7, <1>9, <1>10, SessionStep DEF TxInv

(* What the pick sets aside is on rows it holds and within what they have. *)
LEMMA ReserveRowsStep ==
  ASSUME HandlerInvariant, NEW s \in Sessions, ReserveRows(s)
  PROVE  HandlerInvariant'
<1>1. PICK take \in FifoSplits(s) :
        tx' = [tx EXCEPT ![s].op = "pick",
                         ![s].item = @ + 1,
                         ![s].reserved = [r \in Rows |-> @[r] + take[r]],
                         ![s].take = [r \in Rows |-> @[r] + take[r]]]
  BY DEF ReserveRows
<1> DEFINE x == [tx[s] EXCEPT !.op = "pick",
                              !.item = @ + 1,
                              !.reserved = [r \in Rows |-> @[r] + take[r]],
                              !.take = [r \in Rows |-> @[r] + take[r]]]
<1>2. TxInv(tx[s])
  BY DEF HandlerInvariant
<1>3. /\ take \in PerRow
      /\ \A r \in Rows : take[r] > 0 =>
           /\ r \in RowsHeld(tx[s])
           /\ take[r] <= tx[s].quantity[r] - tx[s].reserved[r]
  BY DEF FifoSplits, PerRow, ItemRows, HeldRows, RowsHeld, Available
<1>4. /\ x.held = tx[s].held /\ x.lpns = tx[s].lpns /\ x.plan = tx[s].plan
      /\ x.op = "pick" /\ x.order = tx[s].order
      /\ x.delivery = tx[s].delivery /\ x.quantity = tx[s].quantity
      /\ x.item = tx[s].item + 1 /\ x.virtual = tx[s].virtual
      /\ x.reserved = [r \in Rows |-> tx[s].reserved[r] + take[r]]
      /\ x.take = [r \in Rows |-> tx[s].take[r] + take[r]]
  BY <1>2 DEF TxInv, TxType
<1>5. tx[s].reserved \in PerRow /\ tx[s].take \in PerRow /\ tx[s].item \in Nat
      /\ tx[s].quantity \in PerRow
  BY <1>2 DEF TxInv, TxType
<1>6. x.reserved \in PerRow /\ x.take \in PerRow /\ x.item \in Nat
  <2> HIDE DEF x
  <2> QED
    BY <1>3, <1>4, <1>5 DEF PerRow
<1>7. TxType(x)
  BY <1>2, <1>6 DEF TxInv, TxType, Ops
<1>8. tx' = [tx EXCEPT ![s] = x] /\ UNCHANGED db /\ tx[s].op = "pickRows"
  BY <1>1 DEF ReserveRows
<1> HIDE DEF x
<1>9. RowsHeld(x) = RowsHeld(tx[s]) /\ RowsPlanned(x) = RowsPlanned(tx[s])
  BY <1>4 DEF RowsHeld, RowsPlanned
<1>10. ImagesAgree(x)
  <2> SUFFICES ASSUME NEW r \in Rows
               PROVE  IF r \in RowsHeld(x)
                      THEN /\ x.quantity[r] = quantity[r]
                           /\ x.reserved[r] = reserved[r] + x.take[r]
                           /\ x.reserved[r] <= x.quantity[r]
                      ELSE x.quantity[r] = 0 /\ x.take[r] = 0
    BY DEF ImagesAgree
  <2>1. /\ take[r] \in Nat /\ tx[s].reserved[r] \in Nat /\ tx[s].take[r] \in Nat
        /\ tx[s].quantity[r] \in Nat /\ reserved[r] \in Nat
    BY <1>3, <1>5 DEF PerRow, HandlerInvariant, StockType
  <2>2. /\ x.reserved[r] = tx[s].reserved[r] + take[r]
        /\ x.take[r] = tx[s].take[r] + take[r] /\ x.quantity[r] = tx[s].quantity[r]
    BY <1>4
  <2>3. CASE r \in RowsHeld(x)
    <3>1. /\ tx[s].quantity[r] = quantity[r]
          /\ tx[s].reserved[r] = reserved[r] + tx[s].take[r]
          /\ tx[s].reserved[r] <= tx[s].quantity[r]
      BY <1>2, <1>9, <2>3 DEF TxInv, ImagesAgree
    <3>2. take[r] = 0 \/ take[r] <= tx[s].quantity[r] - tx[s].reserved[r]
      BY <1>3, <2>1
    <3> QED
      BY <2>1, <2>2, <2>3, <3>1, <3>2
  <2>4. CASE r \notin RowsHeld(x)
    <3>1. take[r] = 0
      BY <1>3, <1>9, <2>1, <2>4
    <3> QED
      BY <1>2, <1>9, <2>2, <2>4, <3>1 DEF TxInv, ImagesAgree
  <2> QED
    BY <2>3, <2>4
<1>11. LocksWhatExists(x) /\ ChosenLpns(x) /\ OrderHeld(x) /\ DeliveryCovers(x)
  BY <1>2, <1>4, <1>8, <1>9
     DEF TxInv, LocksWhatExists, ChosenLpns, OrderHeld, DeliveryCovers
<1> QED
  BY <1>4, <1>7, <1>8, <1>10, <1>11, SessionStep DEF TxInv

(* With the rack held, all rows of the book are about to be locked.        *)
LEMMA SelectShelvesStep ==
  ASSUME HandlerInvariant, NEW s \in Sessions, SelectShelves(s)
  PROVE  HandlerInvariant'
<1> DEFINE b == DeliveryBook[tx[s].delivery]
           S == RowsOf(b) \cap created
<1>1. PICK p \in Ascending(S) :
        tx' = [tx EXCEPT ![s].op = "receive",
                         ![s].plan = RowLocks(p) \o <<UpdateLock(b)>>]
  BY DEF SelectShelves
<1> DEFINE plan == RowLocks(p) \o <<UpdateLock(b)>>
           x == [tx[s] EXCEPT !.op = "receive", !.plan = plan]
<1>2. TxInv(tx[s]) /\ tx[s].op = "locate" /\ tx[s].plan = <<>>
  BY DEF HandlerInvariant, SelectShelves
<1>3. b \in Books /\ tx[s].delivery \in Deliveries
  BY <1>2, DeliveryConstants DEF TxInv, DeliveryCovers
<1>4. S \in SUBSET Rows /\ S \subseteq created /\ p \in Listings(S)
  BY DEF RowsOf, Ascending
<1> HIDE DEF S
<1>5. /\ RowLocks(p) \in Seq(Lock) /\ Len(RowLocks(p)) = Len(p)
      /\ \A i \in 1..Len(p) : p[i] \in S /\ RowLocks(p)[i] = RowLock(p[i])
      /\ \A r \in S : \E i \in 1..Len(p) : RowLocks(p)[i] = RowLock(r)
  BY <1>4, RowLocksPlan
<1>6. /\ <<UpdateLock(b)>> \in Seq(Lock) /\ Len(<<UpdateLock(b)>>) = 1
      /\ <<UpdateLock(b)>>[1] = UpdateLock(b)
  BY <1>3, LockTypes
<1>7. OnlyRows(RowLocks(p), S) /\ OnlyRows(<<UpdateLock(b)>>, S)
  <2>1. OnlyRows(RowLocks(p), S)
    BY <1>5, DistinctLocks DEF OnlyRows
  <2>2. OnlyRows(<<UpdateLock(b)>>, S)
    BY <1>6, DistinctLocks DEF OnlyRows
  <2> QED
    BY <2>1, <2>2
<1>8. plan \in Seq(Lock) /\ OnlyRows(plan, S)
  BY <1>5, <1>6, <1>7, OnlyRowsConcat
<1>9. \A r \in S : \E i \in 1..Len(plan) : plan[i] = RowLock(r)
  <2>1. /\ Len(plan) = Len(RowLocks(p)) + 1 /\ Len(p) \in Nat
        /\ \A i \in 1..Len(plan) : i <= Len(RowLocks(p)) => plan[i] = RowLocks(p)[i]
    BY <1>5, <1>6, ConcatProperties
  <2>2. \A i \in 1..Len(p) : i \in 1..Len(plan) /\ i <= Len(RowLocks(p))
    BY <1>5, <2>1
  <2> HIDE DEF plan
  <2> QED
    BY <1>5, <2>1, <2>2
<1>10. /\ x.held = tx[s].held /\ x.lpns = tx[s].lpns /\ x.plan = plan
       /\ x.op = "receive" /\ x.order = tx[s].order
       /\ x.delivery = tx[s].delivery /\ x.take = tx[s].take
       /\ x.quantity = tx[s].quantity /\ x.reserved = tx[s].reserved
  BY <1>2 DEF TxInv, TxType
<1> HIDE DEF plan
<1>11. TxType(x)
  BY <1>2, <1>8 DEF TxInv, TxType, Ops
<1>12. tx' = [tx EXCEPT ![s] = x] /\ UNCHANGED db
  BY <1>1 DEF SelectShelves, plan
<1> HIDE DEF x
<1>13. RowsHeld(x) = RowsHeld(tx[s]) /\ RowsPlanned(x) = S
  <2>1. RowsPlanned(x) \subseteq S
    BY <1>8, <1>10 DEF RowsPlanned, OnlyRows
  <2>2. S \subseteq RowsPlanned(x)
    BY <1>4, <1>9, <1>10 DEF RowsPlanned
  <2> QED
    BY <1>10, <2>1, <2>2 DEF RowsHeld
<1>14. LocksWhatExists(x) /\ ImagesAgree(x) /\ ChosenLpns(x) /\ OrderHeld(x)
  BY <1>2, <1>4, <1>10, <1>13
     DEF TxInv, LocksWhatExists, ImagesAgree, ChosenLpns, OrderHeld
<1>15. DeliveryCovers(x)
  BY <1>2, <1>3, <1>10, <1>13 DEF TxInv, DeliveryCovers, BookOf, S
<1> QED
  BY <1>10, <1>11, <1>12, <1>14, <1>15, SessionStep DEF TxInv

-----------------------------------------------------------------------------
(* Commits.                                                                *)

(* No two sessions hold the same order, row, copy or rack.                 *)
LEMMA Disjoint ==
  ASSUME HandlerInvariant, NEW s \in Sessions, NEW t \in Sessions, s # t
  PROVE  /\ \A o : ~(OrderLock(o) \in tx[s].held /\ OrderLock(o) \in tx[t].held)
         /\ \A k : ~(RackLock(k) \in tx[s].held /\ RackLock(k) \in tx[t].held)
         /\ \A r \in RowsHeld(tx[s]) : r \notin RowsHeld(tx[t])
         /\ \A l \in tx[s].lpns : l \notin tx[t].lpns
<1>1. \A k \in tx[s].held : k \in tx[t].held => ~Conflict(k, k)
  BY DEF HandlerInvariant, LocksExclude
<1>2. \A u \in {s, t} : \A l \in tx[u].lpns : LpnLock(l) \in tx[u].held
  BY DEF HandlerInvariant, TxInv, ChosenLpns
<1> QED
  BY <1>1, <1>2, ExclusiveLocks DEF RowsHeld

(* A session that commits gives its locks up and leaves the others' alone. *)
LEMMA CommitStep ==
  ASSUME HandlerInvariant, NEW s \in Sessions, tx' = [tx EXCEPT ![s] = Idle]
  PROVE  /\ tx' = [t \in Sessions |-> tx'[t]] /\ tx'[s] = Idle
         /\ \A t \in Sessions \ {s} : tx'[t] = tx[t]
         /\ LocksExclude'
<1>1. /\ tx' = [t \in Sessions |-> tx'[t]] /\ tx'[s] = Idle
      /\ \A t \in Sessions \ {s} : tx'[t] = tx[t]
  BY DEF HandlerInvariant, StockType
<1>2. Idle.held = {}
  BY DEF Idle, Started
<1>3. LocksExclude'
  BY <1>1, <1>2 DEF HandlerInvariant, LocksExclude
<1> QED
  BY <1>1, <1>3

(* A new order has no allocations.                                         *)
LEMMA CommitCreateStep ==
  ASSUME HandlerInvariant, NEW s \in Sessions, CommitCreate(s)
  PROVE  HandlerInvariant'
<1> DEFINE o == tx[s].order
<1>1. o \in Orders /\ status[o] = "NONE" /\ OrderLock(o) \in tx[s].held
  BY DEF HandlerInvariant, TxInv, OrderHeld, CommitCreate
<1>2. /\ status' = [status EXCEPT ![o] = "PENDING"]
      /\ UNCHANGED <<created, priced, quantity, reserved, lpn>>
      /\ UNCHANGED <<alloc, picked, lpnAlloc, lpnPicked>>
      /\ tx' = [tx EXCEPT ![s] = Idle]
  BY DEF CommitCreate
<1> HIDE DEF o
<1>3. /\ tx' = [t \in Sessions |-> tx'[t]] /\ tx'[s] = Idle
      /\ \A t \in Sessions \ {s} : tx'[t] = tx[t]
      /\ LocksExclude'
  BY <1>2, CommitStep
<1>4. /\ status' \in [Orders -> {"NONE", "PENDING", "PICKING", "SHIPPED"}]
      /\ status'[o] = "PENDING" /\ \A p \in Orders \ {o} : status'[p] = status[p]
  BY <1>1, <1>2 DEF HandlerInvariant, StockType
<1>5. StockType'
  BY <1>2, <1>3, <1>4 DEF HandlerInvariant, StockType
<1>6. ASSUME NEW t \in Sessions
      PROVE  TxInv(tx[t])'
  <2>1. CASE t = s
    BY <1>3, <2>1, IdleInv
  <2>2. CASE t # s
    <3>1. TxInv(tx[t]) /\ tx'[t] = tx[t] /\ OrderLock(o) \notin tx[t].held
      BY <1>1, <1>3, <2>2, Disjoint DEF HandlerInvariant
    <3>2. OrderHeld(tx[t])'
      BY <1>2, <1>4, <3>1 DEF TxInv, OrderHeld
    <3> QED
      BY <1>2, <3>1, <3>2 DEF TxInv, TxType, LocksWhatExists, ImagesAgree,
           DeliveryCovers, ChosenLpns
  <2> QED
    BY <2>1, <2>2
<1>7. AllocatedExist' /\ NothingBefore' /\ StockWithinBounds'
  BY <1>1, <1>2, <1>4 DEF HandlerInvariant, AllocatedExist, AllocatedRows,
       NothingBefore, StockWithinBounds
<1>8. OneOrderPerLpn' /\ ShippedWasScanned'
  <2>1. lpnAlloc[o] = {}
    BY <1>1 DEF HandlerInvariant, NothingBefore
  <2>2. OneOrderPerLpn'
    BY <1>2, <1>4, <2>1 DEF HandlerInvariant, OneOrderPerLpn
  <2> QED
    BY <1>2, <1>4, <2>2 DEF HandlerInvariant, ShippedWasScanned
<1> QED
  BY <1>3, <1>5, <1>6, <1>7, <1>8 DEF HandlerInvariant

(* A pick writes the reservations of its images: nobody else could         *)
(* change the rows it holds, and no other order has its copies.            *)
LEMMA CommitPickStep ==
  ASSUME HandlerInvariant, NEW s \in Sessions, CommitPick(s)
  PROVE  HandlerInvariant'
<1> DEFINE o == tx[s].order
           x == tx[s]
<1>1. /\ TxInv(x) /\ o \in Orders /\ status[o] = "PENDING"
      /\ OrderLock(o) \in x.held
  BY DEF HandlerInvariant, TxInv, OrderHeld, CommitPick
<1>2. /\ status' = [status EXCEPT ![o] = "PICKING"]
      /\ alloc' = [alloc EXCEPT ![o] = x.take]
      /\ lpnAlloc' = [lpnAlloc EXCEPT ![o] = x.lpns]
      /\ reserved' = [r \in Rows |-> IF x.take[r] > 0 THEN x.reserved[r]
                                                      ELSE reserved[r]]
      /\ lpn' = [l \in Lpns |-> IF l \in x.lpns THEN "RESERVED" ELSE lpn[l]]
      /\ UNCHANGED <<created, priced, quantity, picked, lpnPicked>>
      /\ tx' = [tx EXCEPT ![s] = Idle]
  BY DEF CommitPick
<1>3. /\ tx' = [t \in Sessions |-> tx'[t]] /\ tx'[s] = Idle
      /\ \A t \in Sessions \ {s} : tx'[t] = tx[t]
      /\ LocksExclude'
  BY <1>2, CommitStep
<1>4. /\ x.take \in PerRow /\ x.reserved \in PerRow /\ x.quantity \in PerRow
      /\ x.lpns \in SUBSET Lpns
  BY <1>1 DEF TxInv, TxType
<1> HIDE DEF o, x
<1>5. \A r \in Rows : x.take[r] > 0 =>
        /\ r \in RowsHeld(x) /\ r \in created
        /\ x.reserved[r] <= quantity[r]
  <2> SUFFICES ASSUME NEW r \in Rows, x.take[r] > 0
               PROVE  /\ r \in RowsHeld(x) /\ r \in created
                      /\ x.reserved[r] <= quantity[r]
    OBVIOUS
  <2>1. r \in RowsHeld(x)
    BY <1>1, <1>4 DEF TxInv, ImagesAgree, PerRow
  <2> QED
    BY <1>1, <2>1 DEF TxInv, ImagesAgree, LocksWhatExists
<1>6. /\ \A p \in Orders : p # o => /\ status'[p] = status[p]
                                    /\ alloc'[p] = alloc[p]
                                    /\ lpnAlloc'[p] = lpnAlloc[p]
      /\ status'[o] = "PICKING" /\ alloc'[o] = x.take /\ lpnAlloc'[o] = x.lpns
  BY <1>1, <1>2 DEF HandlerInvariant, StockType
<1>7. StockType'
  <2>1. /\ status' \in [Orders -> {"NONE", "PENDING", "PICKING", "SHIPPED"}]
        /\ alloc' \in [Orders -> PerRow] /\ lpnAlloc' \in [Orders -> SUBSET Lpns]
    BY <1>1, <1>2, <1>4 DEF HandlerInvariant, StockType
  <2>2. reserved' \in PerRow
    BY <1>2, <1>4 DEF HandlerInvariant, StockType, PerRow
  <2>3. lpn' \in [Lpns -> {"NONE", "AVAILABLE", "RESERVED", "SHIPPED"}]
    BY <1>2 DEF HandlerInvariant, StockType
  <2> QED
    BY <1>2, <1>3, <2>1, <2>2, <2>3 DEF HandlerInvariant, StockType
<1>8. ASSUME NEW t \in Sessions
      PROVE  TxInv(tx[t])'
  <2>1. CASE t = s
    BY <1>3, <2>1, IdleInv
  <2>2. CASE t # s
    <3>1. /\ TxInv(tx[t]) /\ tx'[t] = tx[t] /\ OrderLock(o) \notin tx[t].held
          /\ \A r \in RowsHeld(x) : r \notin RowsHeld(tx[t])
          /\ \A l \in x.lpns : l \notin tx[t].lpns
      BY <1>1, <1>3, <2>2, Disjoint DEF HandlerInvariant, x
    <3>2. OrderHeld(tx[t])'
      BY <1>2, <1>6, <3>1 DEF TxInv, OrderHeld
    <3>3. \A r \in Rows : r \in RowsHeld(tx[t]) => reserved'[r] = reserved[r]
      BY <1>2, <1>5, <3>1
    <3>4. ImagesAgree(tx[t])'
      BY <1>2, <3>1, <3>3 DEF TxInv, ImagesAgree, RowsHeld
    <3>5. ChosenLpns(tx[t])'
      <4>1. tx[t].lpns \in SUBSET Lpns
        BY <3>1 DEF TxInv, TxType
      <4> QED
        BY <1>2, <3>1, <4>1 DEF TxInv, ChosenLpns
    <3> QED
      BY <1>2, <3>1, <3>2, <3>4, <3>5
         DEF TxInv, TxType, LocksWhatExists, DeliveryCovers
  <2> QED
    BY <2>1, <2>2
<1>9. AllocatedExist' /\ NothingBefore'
  <2>1. \A r \in Rows \ created : reserved'[r] = reserved[r]
    BY <1>2, <1>5
  <2>2. AllocatedExist'
    BY <1>2, <1>5, <1>6, <2>1 DEF HandlerInvariant, AllocatedExist, AllocatedRows
  <2> QED
    BY <1>2, <1>6, <2>2 DEF HandlerInvariant, NothingBefore
<1>10. StockWithinBounds'
  BY <1>2, <1>5 DEF HandlerInvariant, StockWithinBounds
<1>11. OneOrderPerLpn'
  <2>1. \A p \in Orders : \A l \in lpnAlloc[p] :
          l \notin x.lpns /\ (p # o => lpn'[l] = lpn[l])
    <3>1. \A l \in x.lpns : lpn[l] = "AVAILABLE"
      BY <1>1 DEF TxInv, ChosenLpns
    <3>2. \A p \in Orders : \A l \in lpnAlloc[p] :
            l \in Lpns /\ lpn[l] \in {"RESERVED", "SHIPPED"}
      BY DEF HandlerInvariant, StockType, OneOrderPerLpn
    <3> QED
      BY <1>2, <3>1, <3>2
  <2>2. \A l \in x.lpns : l \in Lpns /\ lpn'[l] = "RESERVED"
    BY <1>2, <1>4
  <2>3. lpnAlloc[o] = {}
    BY <1>1 DEF HandlerInvariant, NothingBefore
  <2>4. \A p, q \in Orders : p # q => lpnAlloc'[p] \cap lpnAlloc'[q] = {}
    BY <1>6, <2>1 DEF HandlerInvariant, OneOrderPerLpn
  <2>5. \A p \in Orders : \A l \in lpnAlloc'[p] :
          \/ status'[p] = "PICKING" /\ lpn'[l] = "RESERVED"
          \/ status'[p] = "SHIPPED" /\ lpn'[l] = "SHIPPED"
    BY <1>6, <2>1, <2>2 DEF HandlerInvariant, OneOrderPerLpn
  <2>6. \A l \in Lpns : lpn'[l] \in {"RESERVED", "SHIPPED"}
                          => \E p \in Orders : l \in lpnAlloc'[p]
    BY <1>1, <1>2, <1>6, <2>3 DEF HandlerInvariant, OneOrderPerLpn
  <2> QED
    BY <2>4, <2>5, <2>6 DEF OneOrderPerLpn
<1>12. ShippedWasScanned'
  <2>1. \A r \in Rows : picked[o][r] = 0 /\ x.take[r] \in Nat
    BY <1>1, <1>4 DEF HandlerInvariant, NothingBefore, PerRow
  <2> QED
    BY <1>2, <1>6, <2>1 DEF HandlerInvariant, ShippedWasScanned
<1> QED
  BY <1>3, <1>7, <1>8, <1>9, <1>10, <1>11, <1>12 DEF HandlerInvariant

(* A scan counts a copy only below what is allocated.                      *)
LEMMA CommitScanStep ==
  ASSUME HandlerInvariant, NEW s \in Sessions, NEW r \in Rows, CommitScan(s, r)
  PROVE  HandlerInvariant'
<1> DEFINE o == tx[s].order
<1>1. /\ o \in Orders /\ status[o] = "PICKING" /\ OrderLock(o) \in tx[s].held
      /\ picked[o][r] < alloc[o][r]
  BY DEF HandlerInvariant, TxInv, OrderHeld, CommitScan
<1>2. /\ picked' = [picked EXCEPT ![o][r] = @ + 1]
      /\ UNCHANGED <<status, created, priced, quantity, reserved, lpn>>
      /\ UNCHANGED <<alloc, lpnAlloc, lpnPicked>>
      /\ tx' = [tx EXCEPT ![s] = Idle]
  BY DEF CommitScan
<1>3. /\ tx' = [t \in Sessions |-> tx'[t]] /\ tx'[s] = Idle
      /\ \A t \in Sessions \ {s} : tx'[t] = tx[t]
      /\ LocksExclude'
  BY <1>2, CommitStep
<1> HIDE DEF o
<1>4. picked \in [Orders -> PerRow] /\ alloc \in [Orders -> PerRow]
  BY DEF HandlerInvariant, StockType
<1>5. /\ picked[o] \in PerRow /\ picked[o][r] \in Nat /\ alloc[o][r] \in Nat
  BY <1>1, <1>4 DEF PerRow
<1>6. /\ picked'[o] = [picked[o] EXCEPT ![r] = picked[o][r] + 1]
      /\ \A p \in Orders \ {o} : picked'[p] = picked[p]
  BY <1>1, <1>2, <1>4
<1>7. picked'[o] \in PerRow
  BY <1>5, <1>6 DEF PerRow
<1>8. picked' \in [Orders -> PerRow]
  BY <1>1, <1>2, <1>4, <1>5, <1>7
<1>9. StockType'
  BY <1>2, <1>3, <1>8 DEF HandlerInvariant, StockType
<1>10. ASSUME NEW t \in Sessions
       PROVE  TxInv(tx[t])'
  <2>1. CASE t = s
    BY <1>3, <2>1, IdleInv
  <2>2. CASE t # s
    <3>1. TxInv(tx[t]) /\ tx'[t] = tx[t] /\ OrderLock(o) \notin tx[t].held
      BY <1>1, <1>3, <2>2, Disjoint DEF HandlerInvariant
    <3>2. OrderHeld(tx[t])'
      BY <1>2, <1>6, <3>1 DEF TxInv, OrderHeld
    <3> QED
      BY <1>2, <3>1, <3>2 DEF TxInv, TxType, LocksWhatExists, ImagesAgree,
           DeliveryCovers, ChosenLpns
  <2> QED
    BY <2>1, <2>2
<1>11. AllocatedExist' /\ StockWithinBounds' /\ OneOrderPerLpn'
  BY <1>2 DEF HandlerInvariant, AllocatedExist, AllocatedRows,
       StockWithinBounds, OneOrderPerLpn
<1>12. NothingBefore'
  BY <1>1, <1>2, <1>6 DEF HandlerInvariant, NothingBefore
<1>13. ShippedWasScanned'
  <2>1. \A q \in Rows : picked'[o][q] <= alloc[o][q]
    <3>1. picked[o][r] + 1 <= alloc[o][r]
      BY <1>1, <1>5
    <3>2. \A q \in Rows : picked[o][q] <= alloc[o][q]
      BY <1>1 DEF HandlerInvariant, ShippedWasScanned
    <3>3. \A q \in Rows : picked'[o][q] = IF q = r THEN picked[o][r] + 1
                                                  ELSE picked[o][q]
      BY <1>5, <1>6 DEF PerRow
    <3> QED
      BY <3>1, <3>2, <3>3
  <2> QED
    BY <1>1, <1>2, <1>6, <2>1 DEF HandlerInvariant, ShippedWasScanned
<1> QED
  BY <1>3, <1>9, <1>10, <1>11, <1>12, <1>13 DEF HandlerInvariant

(* A step that leaves the sessions, the rows and the orders alone.         *)
LEMMA CopyStep ==
  ASSUME HandlerInvariant,
         UNCHANGED <<status, created, priced, quantity, reserved, tx>>,
         UNCHANGED <<alloc, picked, lpnAlloc>>,
         lpnPicked \subseteq lpnPicked', lpnPicked' \subseteq Lpns,
         lpn' \in [Lpns -> {"NONE", "AVAILABLE", "RESERVED", "SHIPPED"}],
         \A l \in Lpns : \/ lpn'[l] = lpn[l]
                         \/ lpn[l] = "NONE" /\ lpn'[l] = "AVAILABLE"
  PROVE  HandlerInvariant'
<1>1. StockType' /\ LocksExclude' /\ AllocatedExist' /\ NothingBefore'
  BY DEF HandlerInvariant, StockType, LocksExclude, AllocatedExist,
       AllocatedRows, NothingBefore
<1>2. ASSUME NEW t \in Sessions
      PROVE  TxInv(tx[t])'
  <2>1. TxInv(tx[t]) /\ tx[t].lpns \in SUBSET Lpns
    BY DEF HandlerInvariant, TxInv, TxType
  <2>2. ChosenLpns(tx[t])' /\ OrderHeld(tx[t])'
    BY <2>1 DEF TxInv, ChosenLpns, OrderHeld
  <2> QED
    BY <2>1, <2>2 DEF TxInv, TxType, LocksWhatExists, ImagesAgree,
         DeliveryCovers
<1>3. StockWithinBounds' /\ ShippedWasScanned'
  BY DEF HandlerInvariant, StockWithinBounds, ShippedWasScanned
<1>4. OneOrderPerLpn'
  <2>1. \A o \in Orders : lpnAlloc[o] \in SUBSET Lpns
    BY DEF HandlerInvariant, StockType
  <2> QED
    BY <2>1 DEF HandlerInvariant, OneOrderPerLpn
<1> QED
  BY <1>1, <1>2, <1>3, <1>4 DEF HandlerInvariant

(* Scanning a used copy changes neither orders nor rows.                   *)
LEMMA ScanLpnStep ==
  ASSUME HandlerInvariant, NEW o \in Orders, NEW l \in Lpns, ScanLpn(o, l)
  PROVE  HandlerInvariant'
<1>1. /\ lpn \in [Lpns -> {"NONE", "AVAILABLE", "RESERVED", "SHIPPED"}]
      /\ lpnPicked \subseteq Lpns
  BY DEF HandlerInvariant, StockType
<1>2. /\ UNCHANGED <<status, created, priced, quantity, reserved, tx>>
      /\ UNCHANGED <<alloc, picked, lpnAlloc>> /\ UNCHANGED lpn
      /\ lpnPicked' = lpnPicked \cup {l}
  BY DEF ScanLpn
<1> QED
  BY <1>1, <1>2, CopyStep

(* Nor does the price of a used copy.                                      *)
LEMMA PriceLpnStep ==
  ASSUME HandlerInvariant, NEW l \in Lpns, PriceLpn(l)
  PROVE  HandlerInvariant'
<1>1. /\ lpn \in [Lpns -> {"NONE", "AVAILABLE", "RESERVED", "SHIPPED"}]
      /\ lpnPicked \subseteq Lpns
  BY DEF HandlerInvariant, StockType
<1>2. /\ UNCHANGED <<status, created, priced, quantity, reserved, tx>>
      /\ UNCHANGED <<alloc, picked, lpnAlloc>> /\ UNCHANGED <<lpn, lpnPicked>>
  BY DEF PriceLpn
<1> QED
  BY <1>1, <1>2, CopyStep

(* A used copy that is admitted belongs to no order yet.                   *)
LEMMA AdmitUsedStep ==
  ASSUME HandlerInvariant, NEW l \in Lpns, AdmitUsed(l)
  PROVE  HandlerInvariant'
<1>1. /\ lpn \in [Lpns -> {"NONE", "AVAILABLE", "RESERVED", "SHIPPED"}]
      /\ lpnPicked \subseteq Lpns
  BY DEF HandlerInvariant, StockType
<1>2. /\ lpn' \in [Lpns -> {"NONE", "AVAILABLE", "RESERVED", "SHIPPED"}]
      /\ \A m \in Lpns : \/ lpn'[m] = lpn[m]
                         \/ lpn[m] = "NONE" /\ lpn'[m] = "AVAILABLE"
  BY <1>1 DEF AdmitUsed
<1>3. /\ UNCHANGED <<status, created, priced, quantity, reserved, tx>>
      /\ UNCHANGED <<alloc, picked, lpnAlloc>> /\ UNCHANGED lpnPicked
  BY DEF AdmitUsed
<1> QED
  BY <1>1, <1>2, <1>3, CopyStep

(* A shipment takes out what it had reserved: the rest of each row is      *)
(* still within its bounds.                                                *)
LEMMA CommitShipStep ==
  ASSUME HandlerInvariant, NEW s \in Sessions, CommitShip(s)
  PROVE  HandlerInvariant'
<1> DEFINE o == tx[s].order
           x == tx[s]
<1>1. /\ TxInv(x) /\ o \in Orders /\ status[o] = "PICKING"
      /\ OrderLock(o) \in x.held
      /\ picked[o] = alloc[o] /\ lpnAlloc[o] \subseteq lpnPicked
  BY DEF HandlerInvariant, TxInv, OrderHeld, CommitShip
<1>2. /\ status' = [status EXCEPT ![o] = "SHIPPED"]
      /\ quantity' = [r \in Rows |-> IF alloc[o][r] > 0
                        THEN x.quantity[r] - alloc[o][r] ELSE quantity[r]]
      /\ reserved' = [r \in Rows |-> IF alloc[o][r] > 0
                        THEN x.reserved[r] - alloc[o][r] ELSE reserved[r]]
      /\ lpn' = [l \in Lpns |-> IF l \in lpnAlloc[o] THEN "SHIPPED" ELSE lpn[l]]
      /\ UNCHANGED <<created, priced, alloc, picked>>
      /\ UNCHANGED <<lpnAlloc, lpnPicked>>
      /\ tx' = [tx EXCEPT ![s] = Idle]
  BY DEF CommitShip
<1>3. /\ \A r \in Rows : alloc[o][r] > 0 => /\ x.quantity[r] >= alloc[o][r]
                                            /\ x.reserved[r] >= alloc[o][r]
      /\ \A l \in lpnAlloc[o] : lpn[l] = "RESERVED"
  BY DEF CommitShip, Shippable, AllocatedRows
<1>4. /\ tx' = [t \in Sessions |-> tx'[t]] /\ tx'[s] = Idle
      /\ \A t \in Sessions \ {s} : tx'[t] = tx[t]
      /\ LocksExclude'
  BY <1>2, CommitStep
<1>5. /\ x.reserved \in PerRow /\ x.quantity \in PerRow /\ alloc[o] \in PerRow
      /\ quantity \in PerRow /\ reserved \in PerRow
  BY <1>1 DEF HandlerInvariant, StockType, TxInv, TxType
<1> HIDE DEF o, x
<1>6. \A r \in Rows : /\ alloc[o][r] \in Nat /\ quantity[r] \in Nat
                      /\ reserved[r] \in Nat /\ x.quantity[r] \in Nat
                      /\ x.reserved[r] \in Nat
  BY <1>5 DEF PerRow
<1>7. \A r \in Rows : alloc[o][r] > 0 =>
        /\ r \in RowsHeld(x) /\ r \in created
        /\ x.reserved[r] <= x.quantity[r]
  <2> SUFFICES ASSUME NEW r \in Rows, alloc[o][r] > 0
               PROVE  /\ r \in RowsHeld(x) /\ r \in created
                      /\ x.reserved[r] <= x.quantity[r]
    OBVIOUS
  <2>1. x.quantity[r] # 0
    BY <1>3, <1>6
  <2>2. r \in RowsHeld(x)
    BY <1>1, <2>1 DEF TxInv, ImagesAgree
  <2> QED
    BY <1>1, <2>2 DEF TxInv, ImagesAgree, LocksWhatExists
<1>8. /\ \A p \in Orders : p # o => status'[p] = status[p]
      /\ status'[o] = "SHIPPED"
  BY <1>1, <1>2 DEF HandlerInvariant, StockType
<1>9. StockType'
  <2>1. status' \in [Orders -> {"NONE", "PENDING", "PICKING", "SHIPPED"}]
    BY <1>1, <1>2 DEF HandlerInvariant, StockType
  <2>2. \A r \in Rows : quantity'[r] \in Nat /\ reserved'[r] \in Nat
    BY <1>2, <1>3, <1>6
  <2>3. quantity' \in PerRow /\ reserved' \in PerRow
    BY <1>2, <2>2 DEF PerRow
  <2>4. lpn' \in [Lpns -> {"NONE", "AVAILABLE", "RESERVED", "SHIPPED"}]
    BY <1>2 DEF HandlerInvariant, StockType
  <2> QED
    BY <1>2, <1>4, <2>1, <2>3, <2>4 DEF HandlerInvariant, StockType
<1>10. ASSUME NEW t \in Sessions
       PROVE  TxInv(tx[t])'
  <2>1. CASE t = s
    BY <1>4, <2>1, IdleInv
  <2>2. CASE t # s
    <3>1. /\ TxInv(tx[t]) /\ tx'[t] = tx[t] /\ OrderLock(o) \notin tx[t].held
          /\ \A r \in RowsHeld(x) : r \notin RowsHeld(tx[t])
      BY <1>1, <1>4, <2>2, Disjoint DEF HandlerInvariant, x
    <3>2. OrderHeld(tx[t])'
      BY <1>2, <1>8, <3>1 DEF TxInv, OrderHeld
    <3>3. \A r \in Rows : r \in RowsHeld(tx[t]) =>
            reserved'[r] = reserved[r] /\ quantity'[r] = quantity[r]
      BY <1>2, <1>7, <3>1
    <3>4. ImagesAgree(tx[t])'
      BY <3>1, <3>3 DEF TxInv, ImagesAgree, RowsHeld
    <3>5. ChosenLpns(tx[t])'
      <4>1. tx[t].lpns \in SUBSET Lpns
        BY <3>1 DEF TxInv, TxType
      <4> QED
        BY <1>2, <1>3, <3>1, <4>1 DEF TxInv, ChosenLpns
    <3> QED
      BY <1>2, <3>1, <3>2, <3>4, <3>5
         DEF TxInv, TxType, LocksWhatExists, DeliveryCovers
  <2> QED
    BY <2>1, <2>2
<1>11. AllocatedExist' /\ NothingBefore'
  <2>1. \A r \in Rows \ created : reserved'[r] = reserved[r]
    BY <1>2, <1>7
  <2>2. AllocatedExist'
    BY <1>2, <2>1 DEF HandlerInvariant, AllocatedExist, AllocatedRows
  <2> QED
    BY <1>2, <1>8, <2>2 DEF HandlerInvariant, NothingBefore
<1>12. StockWithinBounds'
  <2> SUFFICES ASSUME NEW r \in Rows
               PROVE  reserved'[r] <= quantity'[r]
    BY DEF StockWithinBounds
  <2>1. reserved[r] <= quantity[r]
    BY DEF HandlerInvariant, StockWithinBounds
  <2> QED
    BY <1>2, <1>6, <1>7, <2>1
<1>13. OneOrderPerLpn'
  <2>1. \A p \in Orders : lpnAlloc[p] \in SUBSET Lpns
    BY DEF HandlerInvariant, StockType
  <2>2. \A p, q \in Orders : p # q => lpnAlloc[p] \cap lpnAlloc[q] = {}
    BY DEF HandlerInvariant, OneOrderPerLpn
  <2>3. \A p \in Orders : \A l \in lpnAlloc[p] :
          \/ status'[p] = "PICKING" /\ lpn'[l] = "RESERVED"
          \/ status'[p] = "SHIPPED" /\ lpn'[l] = "SHIPPED"
    BY <1>1, <1>2, <1>8, <2>1, <2>2 DEF HandlerInvariant, OneOrderPerLpn
  <2>4. \A l \in Lpns : lpn'[l] \in {"RESERVED", "SHIPPED"}
                          => \E p \in Orders : l \in lpnAlloc[p]
    BY <1>1, <1>2 DEF HandlerInvariant, OneOrderPerLpn
  <2> QED
    BY <1>2, <2>2, <2>3, <2>4 DEF OneOrderPerLpn
<1>14. ShippedWasScanned'
  BY <1>1, <1>2, <1>8 DEF HandlerInvariant, ShippedWasScanned
<1> QED
  BY <1>4, <1>9, <1>10, <1>11, <1>12, <1>13, <1>14 DEF HandlerInvariant

(* The stock of a delivery goes to a row that nobody else holds, and no    *)
(* other delivery of the book is under way past its rack lock.             *)
LEMMA CommitReceiveStep ==
  ASSUME HandlerInvariant, NEW s \in Sessions, NEW r \in Rows, CommitReceive(s, r)
  PROVE  HandlerInvariant'
<1> DEFINE x == tx[s]
           d == x.delivery
           b == DeliveryBook[d]
<1>1. /\ TxInv(x) /\ x.op = "receive" /\ x.plan = <<>> /\ r \in RowsOf(b)
  BY DEF HandlerInvariant, CommitReceive, TargetRows
<1>2. /\ quantity' = [quantity EXCEPT ![r] =
           IF r \in created THEN x.quantity[r] + DeliveryQty[d] ELSE DeliveryQty[d]]
      /\ created' = created \cup {r} /\ priced' = priced \cup {r}
      /\ UNCHANGED <<status, reserved, lpn, alloc, picked>>
      /\ UNCHANGED <<lpnAlloc, lpnPicked>>
      /\ tx' = [tx EXCEPT ![s] = Idle]
  BY DEF CommitReceive
<1>3. /\ d \in Deliveries /\ DeliveryQty[d] \in Nat
      /\ RackLock(RackOf[b]) \in x.held
      /\ RowsOf(b) \cap created \subseteq RowsHeld(x)
  <2>1. RowsPlanned(x) = {}
    BY <1>1 DEF RowsPlanned
  <2> QED
    BY <1>1, <2>1, DeliveryConstants DEF TxInv, DeliveryCovers, BookOf
<1>4. /\ tx' = [t \in Sessions |-> tx'[t]] /\ tx'[s] = Idle
      /\ \A t \in Sessions \ {s} : tx'[t] = tx[t]
      /\ LocksExclude'
  BY <1>2, CommitStep
<1>5. quantity \in PerRow /\ reserved \in PerRow /\ x.quantity \in PerRow
  BY <1>1 DEF HandlerInvariant, StockType, TxInv, TxType
<1> HIDE DEF x, d, b
<1>6. /\ quantity[r] \in Nat /\ reserved[r] \in Nat
      /\ r \in created => r \in RowsHeld(x) /\ x.quantity[r] = quantity[r]
      /\ r \notin created => reserved[r] = 0
  BY <1>1, <1>3, <1>5
     DEF TxInv, ImagesAgree, PerRow, HandlerInvariant, AllocatedExist
<1>7. /\ quantity'[r] \in Nat /\ reserved[r] <= quantity'[r]
      /\ \A q \in Rows \ {r} : quantity'[q] = quantity[q]
  <2>1. quantity'[r] = IF r \in created THEN quantity[r] + DeliveryQty[d]
                                        ELSE DeliveryQty[d]
    BY <1>2, <1>5, <1>6 DEF PerRow
  <2>2. reserved[r] <= quantity[r]
    BY DEF HandlerInvariant, StockWithinBounds
  <2>3. \A q \in Rows \ {r} : quantity'[q] = quantity[q]
    BY <1>2, <1>5 DEF PerRow
  <2> QED
    BY <1>3, <1>6, <2>1, <2>2, <2>3
<1>8. StockType'
  <2>1. quantity' \in PerRow
    BY <1>2, <1>5, <1>7 DEF PerRow
  <2> QED
    BY <1>2, <1>4, <2>1 DEF HandlerInvariant, StockType
<1>9. ASSUME NEW t \in Sessions
      PROVE  TxInv(tx[t])'
  <2>1. CASE t = s
    BY <1>4, <2>1, IdleInv
  <2>2. CASE t # s
    <3>1. /\ TxInv(tx[t]) /\ tx'[t] = tx[t]
          /\ RackLock(RackOf[b]) \notin tx[t].held
          /\ \A q \in RowsHeld(x) : q \notin RowsHeld(tx[t])
      BY <1>3, <1>4, <2>2, Disjoint DEF HandlerInvariant, x
    <3>2. r \notin RowsHeld(tx[t])
      BY <1>6, <3>1 DEF TxInv, LocksWhatExists
    <3>3. ImagesAgree(tx[t])'
      BY <1>2, <1>7, <3>1, <3>2 DEF TxInv, ImagesAgree, RowsHeld
    <3>4. LocksWhatExists(tx[t])'
      BY <1>2, <3>1 DEF TxInv, LocksWhatExists, RowsHeld, RowsPlanned
    <3>5. DeliveryCovers(tx[t])'
      <4>1. tx[t].op = "receive" => r \notin RowsOf(BookOf(tx[t]))
        BY <1>1, <3>1 DEF TxInv, DeliveryCovers, RowsOf
      <4> QED
        BY <1>2, <3>1, <4>1 DEF TxInv, DeliveryCovers, RowsHeld, RowsPlanned
    <3> QED
      BY <1>2, <3>1, <3>3, <3>4, <3>5
         DEF TxInv, TxType, OrderHeld, ChosenLpns
  <2> QED
    BY <2>1, <2>2
<1>10. AllocatedExist' /\ NothingBefore'
  BY <1>2 DEF HandlerInvariant, AllocatedExist, AllocatedRows, NothingBefore
<1>11. StockWithinBounds' /\ OneOrderPerLpn' /\ ShippedWasScanned'
  BY <1>2, <1>7 DEF HandlerInvariant, StockWithinBounds, OneOrderPerLpn,
       ShippedWasScanned
<1> QED
  BY <1>4, <1>8, <1>9, <1>10, <1>11 DEF HandlerInvariant

-----------------------------------------------------------------------------
(* The theorems.                                                           *)

(* HandlerInvariant holds at the start, when no handler runs: no row has   *)
(* anything reserved and no copy has been admitted.                        *)
THEOREM InvariantHoldsInitially == Init => HandlerInvariant
<1> SUFFICES ASSUME Init
             PROVE  HandlerInvariant
  OBVIOUS
<1>1. StockType
  BY RowConstants DEF Init, StockType, PerRow
<1>2. \A s \in Sessions : tx[s] = Idle
  BY DEF Init
<1>3. LocksExclude /\ \A s \in Sessions : TxInv(tx[s])
  <2>1. Idle.held = {}
    BY DEF Idle, Started
  <2> QED
    BY <1>2, <2>1, IdleInv DEF LocksExclude
<1>4. AllocatedExist /\ NothingBefore /\ OneOrderPerLpn /\ ShippedWasScanned
  BY DEF Init, AllocatedExist, AllocatedRows, NothingBefore, OneOrderPerLpn,
     ShippedWasScanned
<1>5. StockWithinBounds
  BY RowConstants DEF Init, StockWithinBounds
<1> QED
  BY <1>1, <1>3, <1>4, <1>5 DEF HandlerInvariant

(* No step of any handler, no rollback and no crash breaks it: whatever    *)
(* the order in which the sessions get their locks.                        *)
THEOREM InvariantIsInductive ==
  HandlerInvariant /\ [Next]_vars => HandlerInvariant'
<1> SUFFICES ASSUME HandlerInvariant, [Next]_vars
             PROVE  HandlerInvariant'
  OBVIOUS
<1>1. ASSUME NEW s \in Sessions, Begin(s)
      PROVE  HandlerInvariant'
  BY <1>1, BeginCreateStep, BeginPickStep, BeginShipStep, BeginScanStep,
     BeginArrivalStep DEF Begin
<1>2. ASSUME NEW s \in Sessions, Continue(s)
      PROVE  HandlerInvariant'
  <2>1. CASE \/ \E r \in Rows : LockRow(s, r)
             \/ \E b \in Books : LockBook(s, b)
             \/ \E k \in Lock : LockOnly(s, k)
    BY <2>1, LockRowStep, LockBookStep, LockOnlyStep
  <2>2. CASE \/ \E l \in Lpns : TakeLpn(s, l)
             \/ SelectRows(s) \/ ReserveRows(s) \/ SelectShelves(s)
    BY <2>2, TakeLpnStep, SelectRowsStep, ReserveRowsStep, SelectShelvesStep
  <2>3. CASE \/ CommitCreate(s) \/ CommitPick(s) \/ CommitShip(s)
             \/ \E r \in Rows : CommitScan(s, r) \/ CommitReceive(s, r)
    BY <2>3, CommitCreateStep, CommitPickStep, CommitShipStep, CommitScanStep,
       CommitReceiveStep
  <2>4. CASE Refuse(s) \/ DeadlockVictim(s)
    BY <2>4, RollbackStep DEF Refuse, DeadlockVictim
  <2> QED
    BY <1>2, <2>1, <2>2, <2>3, <2>4 DEF Continue
<1>3. ASSUME NEW s \in Sessions, Crash(s)
      PROVE  HandlerInvariant'
  BY <1>3, RollbackStep DEF Crash
<1>4. ASSUME NEW o \in Orders, NEW l \in Lpns, ScanLpn(o, l)
      PROVE  HandlerInvariant'
  BY <1>4, ScanLpnStep
<1>5. ASSUME NEW l \in Lpns, AdmitUsed(l) \/ PriceLpn(l)
      PROVE  HandlerInvariant'
  BY <1>5, AdmitUsedStep, PriceLpnStep
<1>6. CASE UNCHANGED vars
  BY <1>6, CopyStep DEF vars, db, HandlerInvariant, StockType
<1> QED
  BY <1>1, <1>2, <1>3, <1>4, <1>5, <1>6 DEF Next

(* HandlerInvariant holds in every state of every behaviour of the         *)
(* handlers, for any orders, rows, copies, deliveries and sessions.        *)
THEOREM HandlersKeepInvariant == Spec => []HandlerInvariant
<1> QED
  BY InvariantHoldsInitially, InvariantIsInductive, PTL DEF Spec

(* No interleaving of picks, shipments, arrivals, deadlocks and crashes    *)
(* ever reserves more of a row than it holds: the check constraint         *)
(* ck_inventory_reserved_quantity_not_exceed_quantity is never what stops  *)
(* a handler.                                                              *)
THEOREM StockStaysWithinBounds == Spec => []StockWithinBounds
<1>1. HandlerInvariant => StockWithinBounds
  BY DEF HandlerInvariant
<1> QED
  BY <1>1, HandlersKeepInvariant, PTL

(* No used copy is ever allocated to two orders, and the status of a copy  *)
(* always follows the order it belongs to, though picks find their copies  *)
(* with SKIP LOCKED.                                                       *)
THEOREM CopiesGoToOneOrder == Spec => []OneOrderPerLpn
<1>1. HandlerInvariant => OneOrderPerLpn
  BY DEF HandlerInvariant
<1> QED
  BY <1>1, HandlersKeepInvariant, PTL

(* Nothing is shipped that was not scanned, and no row is scanned more     *)
(* often than it was allocated, though scans of one order race with one    *)
(* another and with its shipment.                                          *)
THEOREM OnlyScannedItemsShip == Spec => []ShippedWasScanned
<1>1. HandlerInvariant => ShippedWasScanned
  BY DEF HandlerInvariant
<1> QED
  BY <1>1, HandlersKeepInvariant, PTL
=============================================================================
