------------------------- MODULE OutboundInvariant -------------------------
(***************************************************************************)
(* The inductive invariant of Outbound: what keeps the stock in order is a *)
(* relation between the locks a session holds, its images of the rows it   *)
(* has locked, the rows themselves and the state of its order.             *)
(***************************************************************************)
EXTENDS Outbound

(* The types, leaving virtual_stock aside: that it stays a natural number  *)
(* follows from the ledger below.                                          *)
PerRow == [Rows -> Nat]

StockType ==
  /\ status \in [Orders -> {"NONE", "PENDING", "PICKING", "SHIPPED"}]
  /\ created \in SUBSET Rows /\ priced \in SUBSET Rows
  /\ quantity \in PerRow /\ reserved \in PerRow
  /\ lpn \in [Lpns -> {"NONE", "AVAILABLE", "RESERVED", "SHIPPED"}]
  /\ alloc \in [Orders -> PerRow] /\ picked \in [Orders -> PerRow]
  /\ lpnAlloc \in [Orders -> SUBSET Lpns]
  /\ lpnPicked \in SUBSET Lpns
  /\ tx = [s \in Sessions |-> tx[s]]

-----------------------------------------------------------------------------
(* What holds of the transaction x of one session.                         *)

TxType(x) ==
  x \in [op : Ops, order : Orders \cup {None}, delivery : Deliveries \cup {None},
         item : Nat, held : SUBSET Lock, plan : Seq(Lock),
         quantity : PerRow, reserved : PerRow, virtual : {x.virtual},
         take : PerRow, lpns : SUBSET Lpns]

RowsHeld(x) == {r \in Rows : RowLock(r) \in x.held}
RowsPlanned(x) == {r \in Rows : \E i \in 1..Len(x.plan) : x.plan[i] = RowLock(r)}

(* It locks rows that exist.                                               *)
LocksWhatExists(x) == RowsHeld(x) \cup RowsPlanned(x) \subseteq created

(* It has an up to date image of each row it holds, plus what it has set   *)
(* aside itself, and no image of any other row.                            *)
ImagesAgree(x) ==
  \A r \in Rows :
    IF r \in RowsHeld(x)
    THEN /\ x.quantity[r] = quantity[r]
         /\ x.reserved[r] = reserved[r] + x.take[r]
         /\ x.reserved[r] <= x.quantity[r]
    ELSE x.quantity[r] = 0 /\ x.take[r] = 0

(* A delivery holds the rack, so that no row of its book can appear behind *)
(* its back, and locks every row of the book before it writes.             *)
BookOf(x) == DeliveryBook[x.delivery]
DeliveryCovers(x) ==
  /\ x.op \in {"locate", "receive"} => x.delivery \in Deliveries
  /\ x.op = "locate" /\ x.plan # <<>> => x.plan = <<RackLock(RackOf[BookOf(x)])>>
  /\ x.op = "receive" \/ (x.op = "locate" /\ x.plan = <<>>)
       => RackLock(RackOf[BookOf(x)]) \in x.held
  /\ x.op = "receive"
       => RowsOf(BookOf(x)) \cap created \subseteq RowsHeld(x) \cup RowsPlanned(x)

(* Working on an order, it holds the order, which is as it was found.      *)
OrderHeld(x) ==
  x.op \in {"create", "pick", "pickRows", "scan", "ship"} =>
    LET o == x.order IN
    /\ o \in Orders /\ OrderLock(o) \in x.held
    /\ x.op = "create" => status[o] = "NONE"
    /\ x.op \in {"pick", "pickRows"} => status[o] = "PENDING"
    /\ x.op \in {"scan", "ship"} => status[o] = "PICKING"
    /\ x.op = "ship" => picked[o] = alloc[o] /\ lpnAlloc[o] \subseteq lpnPicked

(* The used copies it has chosen are locked and still available.           *)
ChosenLpns(x) == \A l \in x.lpns : LpnLock(l) \in x.held /\ lpn[l] = "AVAILABLE"

TxInv(x) ==
  /\ TxType(x) /\ LocksWhatExists(x) /\ ImagesAgree(x)
  /\ DeliveryCovers(x) /\ OrderHeld(x) /\ ChosenLpns(x)

-----------------------------------------------------------------------------
(* What holds between the sessions, and of the tables.                     *)

LocksExclude ==
  \A s, t \in Sessions : s # t =>
    \A k \in tx[s].held, m \in tx[t].held : ~Conflict(k, m)

AllocatedExist ==
  /\ \A o \in Orders : AllocatedRows(o) \subseteq created
  /\ \A r \in Rows \ created : reserved[r] = 0

(* An order has nothing before it is picked.                               *)
NothingBefore ==
  \A o \in Orders : status[o] \in {"NONE", "PENDING"} =>
    /\ lpnAlloc[o] = {}
    /\ \A r \in Rows : alloc[o][r] = 0 /\ picked[o][r] = 0

(* The inductive invariant: with it, no interleaving of the handlers       *)
(* reserves more than there is, gives a copy to two orders or ships what   *)
(* was not scanned.                                                        *)
HandlerInvariant ==
  /\ StockType /\ LocksExclude /\ AllocatedExist /\ NothingBefore
  /\ \A s \in Sessions : TxInv(tx[s])
  /\ StockWithinBounds /\ OneOrderPerLpn /\ ShippedWasScanned

-----------------------------------------------------------------------------
(* The ledger: what the tables add up to, and what the open transactions   *)
(* contribute to it when they commit.                                      *)

(* What the lines of an order before the n-th ask for.                     *)
RequestedBefore(o, n, b, g) ==
  SumFunctionOnSet([i \in 1..Len(OrderLines[o]) |-> OrderLines[o][i].quantity],
                   {i \in 1..Len(OrderLines[o]) :
                      i < n /\ OrderLines[o][i].book = b /\ OrderLines[o][i].grade = g})
GradesOfLpns == {LpnGrade[l] : l \in Lpns}
CopiesOf(S, b, g) == {l \in S : LpnBook[l] = b /\ LpnGrade[l] = g}

(* A pick has set aside what the lines it is past ask for, and no more.    *)
PickProgress(x) ==
  x.op \in {"pick", "pickRows"} =>
    LET o == x.order IN
    /\ x.item \in 1..(Len(OrderLines[o]) + 1)
    /\ x.op = "pickRows" => /\ x.item <= Len(OrderLines[o])
                            /\ OrderLines[o][x.item].grade = NewStock
    /\ \A b \in Books :
         /\ SumFunctionOnSet(x.take, RowsOf(b)) = RequestedBefore(o, x.item, b, NewStock)
         /\ \A g \in GradesOfLpns :
              Cardinality(CopiesOf(x.lpns, b, g)) = RequestedBefore(o, x.item, b, g)

(* A delivery that is being received was not received before, and what it  *)
(* serialises on keeps it so; virtual_stock is updated under its lock.     *)
Planned(x, k) == \E i \in 1..Len(x.plan) : x.plan[i] = k
ArrivesOnce(x) ==
  x.op \in {"locate", "receive"} =>
    LET b == BookOf(x) IN
    /\ x.delivery \notin received
    /\ (IF x.delivery \in AutoPo THEN BookLock(b) ELSE IsbnLock(b)) \in x.held
    /\ x.op = "receive" => UpdateLock(b) \in x.held \/ Planned(x, UpdateLock(b))

(* A shipment locks every book it takes from, and its image of virtual_    *)
(* stock is up to date for the books it has locked.  It reserves nothing.  *)
ShipsFromImages(x) ==
  x.op = "ship" =>
    /\ \A r \in Rows : x.take[r] = 0
    /\ \A b \in ShippedBooks(x.order) : BookLock(b) \in x.held \/ Planned(x, BookLock(b))
    /\ \A b \in Books : BookLock(b) \in x.held => x.virtual[b] = virtualStock[b]

TxLedger(x) ==
  /\ x.virtual \in [Books -> Nat]
  /\ x.op = "idle" => x = Idle
  /\ PickProgress(x) /\ ArrivesOnce(x) /\ ShipsFromImages(x)

(* The rest of the types.  At any time finitely many orders exist and      *)
(* finitely many deliveries have arrived, however many there may ever be.  *)
Existing == {o \in Orders : status[o] # "NONE"}
LedgerType ==
  /\ lpnPriced \in SUBSET Lpns
  /\ virtualStock \in [Books -> Nat]
  /\ received \in SUBSET Deliveries /\ IsFiniteSet(received)
  /\ IsFiniteSet(Existing)
  /\ \A r \in Rows \ created : quantity[r] = 0

OnShelves(b) == SumFunctionOnSet(quantity, RowsOf(b))
Arrived(b) == SumFunctionOnSet(DeliveryQty, {d \in received : DeliveryBook[d] = b})
Departed(b) ==
  SumFunctionOnSet([o \in Orders |-> SumFunctionOnSet(alloc[o], RowsOf(b))], Shipped)
ShelvesBalance ==
  \A b \in Books :
    OnShelves(b) = SumFunctionOnSet(InitialStock, RowsOf(b)) + Arrived(b) - Departed(b)

Ledger ==
  /\ LedgerType /\ \A s \in Sessions : TxLedger(tx[s])
  /\ AllOrNothing /\ ReservedIsAllocated /\ ShelvesBalance

(* virtual_stock agrees with the shelves if it did at the start.           *)
VirtualStockStartsRight ==
  \A b \in Books : InitialVirtual[b] = SumFunctionOnSet(InitialStock, RowsOf(b))
VirtualStockAgrees ==
  \A b \in Books : virtualStock[b] = OnShelves(b) + Cardinality(Unsold(b))

(* The inductive invariant of the stock as a whole.                        *)
StockInvariant == HandlerInvariant /\ Ledger /\ VirtualStockAgrees
=============================================================================
