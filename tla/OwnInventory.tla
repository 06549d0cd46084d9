---------------------------- MODULE OwnInventory ----------------------------
(***************************************************************************)
(* One row of own_inventory (the stock a tenant owns): orders reserve,     *)
(* release and ship quantities of it in requests that run at the same      *)
(* time.  src/backend/app/services/inventory_reservation.py under the      *)
(* handlers of src/backend/app/routers/own_inventory.py.                   *)
(*                                                                         *)
(* The row knows two numbers and no order: which order a quantity was      *)
(* reserved for is known to the callers only (variable order).             *)
(***************************************************************************)
EXTENDS Integers, FiniteSets

CONSTANTS
    Orders,     \* the orders that take from the row
    Qty,        \* the quantity of each order
    MaxStock,   \* bound: the largest quantity the row is created with
    Repeats     \* the requests a caller sends again when it saw no answer

OrdersAssumption  == IsFiniteSet(Orders)
QtyAssumption     == Qty \in [Orders -> Nat \ {0}]
StockAssumption   == MaxStock \in Nat
RepeatsAssumption == Repeats \subseteq {"reserve", "release", "ship"}

VARIABLES
    physical,   \* physical_qty
    reserved,   \* reserved_qty
    reading,    \* orders whose request has read the row and not yet written it
    order,      \* what has been committed for each order
    created     \* the quantities the row was created with

vars == <<physical, reserved, reading, order, created>>

TypeOK ==
    /\ physical \in Nat
    /\ reserved \in Nat
    /\ reading \subseteq Orders
    /\ order \in [Orders -> {"new", "held", "released", "shipped"}]
    /\ created \in [physical : Nat, reserved : Nat]

\* POST /own-inventory: reserved_qty must not exceed physical_qty.
Create(p, r) ==
    /\ r <= p
    /\ physical = p
    /\ reserved = r
    /\ created = [physical |-> p, reserved |-> r]

Init ==
    /\ \E p, r \in 0..MaxStock : Create(p, r)
    /\ reading = {}
    /\ order = [o \in Orders |-> "new"]

\* Mutant: The row is read without FOR UPDATE.
LockedNever == {}

\* The rows SELECT ... FOR UPDATE keeps from other transactions.
Locked == reading

\* The CHECKs of the table, on the values an UPDATE would leave.
Allowed(p, r) == r <= p

\* Mutant: The reservation is lowered a second time, without the clamp.
LessTwice(r, q) == r - 2 * q

\* CASE WHEN reserved_qty - :qty < 0 THEN 0 ELSE reserved_qty - :qty END
Less(r, q) == IF r < q THEN 0 ELSE r - q

\* A caller sends a request for an order once, or again when it is of a kind
\* that is repeated.
Asks(o, kind, from, done) ==
    \/ order[o] = from
    \/ kind \in Repeats /\ order[o] = done

-----------------------------------------------------------------------------
\* reserve_qty reads the row and finds enough; a request that does not is
\* answered with 422 and changes nothing.
ReserveReads(o) ==
    /\ Asks(o, "reserve", "new", "held")
    /\ Locked = {}
    /\ o \notin reading
    /\ physical >= reserved + Qty[o]
    /\ reading' = reading \cup {o}
    /\ UNCHANGED <<physical, reserved, order, created>>

\* ... adds to what the row holds now, and the handler commits.
ReserveWrites(o) ==
    /\ o \in reading
    /\ Locked \subseteq {o}
    /\ Allowed(physical, reserved + Qty[o])
    /\ reading' = reading \ {o}
    /\ reserved' = reserved + Qty[o]
    /\ order' = [order EXCEPT ![o] = "held"]
    /\ UNCHANGED <<physical, created>>

\* The transaction ends without a commit: a CHECK, the audit record or the
\* connection fails.
ReserveFails(o) ==
    /\ o \in reading
    /\ reading' = reading \ {o}
    /\ UNCHANGED <<physical, reserved, order, created>>

\* release_reservation, for an order that holds its quantity.
Release(o) ==
    /\ Asks(o, "release", "held", "released")
    /\ Locked = {}
    /\ o \notin reading
    /\ reserved' = Less(reserved, Qty[o])
    /\ order' = [order EXCEPT ![o] = "released"]
    /\ UNCHANGED <<physical, reading, created>>

\* ship_qty: what leaves the shelf is no longer reserved.  A shipment that a
\* CHECK refuses changes nothing.
Ship(o) ==
    /\ Asks(o, "ship", "held", "shipped")
    /\ Locked = {}
    /\ o \notin reading
    /\ Qty[o] <= physical
    /\ Allowed(physical - Qty[o], Less(reserved, Qty[o]))
    /\ physical' = physical - Qty[o]
    /\ reserved' = Less(reserved, Qty[o])
    /\ order' = [order EXCEPT ![o] = "shipped"]
    /\ UNCHANGED <<reading, created>>

Next == \E o \in Orders :
    \/ ReserveReads(o)
    \/ ReserveWrites(o)
    \/ ReserveFails(o)
    \/ Release(o)
    \/ Ship(o)

Spec == Init /\ [][Next]_vars

-----------------------------------------------------------------------------
\* The units of the orders that are in a state.
Units(o) == {o} \X (1..Qty[o])
UnitsOf(state) == UNION {Units(o) : o \in {u \in Orders : order[u] = state}}
Held    == Cardinality(UnitsOf("held"))
Shipped == Cardinality(UnitsOf("shipped"))

\* With no request sent twice, reserved_qty is the quantity the row was created
\* with as reserved and what the orders hold, however reservations, releases
\* and shipments interleave: the comment at the head of the service, about
\* reserve_qty, release_reservation and ship_qty together.
ReservedIsWhatIsHeld == reserved = created.reserved + Held

\* What orders hold is on the shelf: an order that was told its quantity is
\* reserved can be shipped.  A caller that repeats a reservation only reserves
\* too much.
PromisesAreBacked ==
    /\ created.reserved + Held <= reserved
    /\ reserved <= physical

\* physical_qty is what is on the shelf: what was there less what was shipped.
ShelfIsCounted == physical + Shipped = created.physical

\* No constraint of the table refuses what the code has let through: what
\* reserve_qty has checked still holds when it writes (two reservations that
\* both want the last unit are told apart by the row lock, with 422 and not
\* with an error), and what an order holds can be shipped.
NoConstraintError == \A o \in Orders :
    /\ o \in reading => Allowed(physical, reserved + Qty[o])
    /\ order[o] = "held" =>
          /\ Qty[o] <= physical
          /\ Allowed(physical - Qty[o], Less(reserved, Qty[o]))

=============================================================================
