---------------------------- MODULE MCDocuments ----------------------------
(***************************************************************************)
(* The documents of a sale for TLC: quotes and the invoices made from them *)
(* (Quoting), the payment of an invoice by hand and through PayPal         *)
(* (InvoicePayment), the stock an order reserves (OwnInventory), and the   *)
(* addresses the documents are made out to (CustomerRegistration).         *)
(*                                                                         *)
(* The four share no column that one writes and another reads, so a        *)
(* behaviour is one of the part it begins with; the others rest in their   *)
(* initial state.  Their interleavings would multiply the states and show  *)
(* nothing more.                                                           *)
(***************************************************************************)
EXTENDS Quoting, TLC

CONSTANTS
  Invoices, PPInvoices, NoLink, Hooks,   \* of InvoicePayment
  PaidOrders,                            \* orders of the invoices
  MaxLapses, MaxMute, MaxPayEdits,       \* bounds of InvoicePayment
  SalesOrders,                           \* orders that take from the stock
  Quantity,                              \* of an order at the warehouse
  MaxStock, Repeats,                     \* of OwnInventory
  Links, Customers, Editors,             \* of CustomerRegistration
  OneLink, OneEditor, MaxVisitFaults

VARIABLES
  part,
  status, link, paidBy, order, pp, events, payReq, hook, moved, late,
  lapses, mute, payEdits,
  physical, reserved, reading, held, created,
  token, rows, default, visit, visitFaults

payVars == <<status, link, paidBy, order, pp, events, payReq, hook, moved,
             late, lapses, mute, payEdits>>
stockVars == <<physical, reserved, reading, held, created>>
addressVars == <<token, rows, default, visit, visitFaults>>

Pay == INSTANCE InvoicePayment
         WITH Orders <- PaidOrders, MaxEdits <- MaxPayEdits,
              req <- payReq, edits <- payEdits
Stock == INSTANCE OwnInventory
           WITH Orders <- SalesOrders, Qty <- Quantity, order <- held
Address == INSTANCE CustomerRegistration
             WITH Tokens <- Links, None <- NoLink,
                  MaxFaults <- MaxVisitFaults, proc <- visit,
                  faults <- visitFaults

ASSUME PaymentAssumption == Pay!NoLinkAssumption /\ Pay!BoundsAssumption
ASSUME StockAssumption ==
  /\ Stock!OrdersAssumption /\ Stock!QtyAssumption
  /\ Stock!StockAssumption /\ Stock!RepeatsAssumption
ASSUME AddressAssumption ==
  /\ Address!RegistrationAssumption
  /\ OneLink \subseteq Links /\ OneEditor \subseteq Editors

(* Three orders, one of two units.                                         *)
CONSTANTS o1, o2, o3
ThreeOrders == {o1, o2, o3}
Quantities == [o \in ThreeOrders |-> IF o = o3 THEN 2 ELSE 1]

Parts == {"quotes", "payments", "stock", "links", "pages"}

InitOfPart ==
  /\ part \in Parts
  /\ Init /\ Pay!Init /\ Stock!Init /\ Address!Init
  /\ part # "stock" => created = [physical |-> 0, reserved |-> 0]

Addressing == Address!Next /\ UNCHANGED <<vars, payVars, stockVars>>

(* Two links and one page of the staff, or one link and two pages.         *)
OnePageRests == \A p \in Editors \ OneEditor : UNCHANGED visit[p]
OneLinkRests == \A k \in Links \ OneLink : UNCHANGED token[k]

NextOfPart ==
  /\ UNCHANGED part
  /\ \/ part = "quotes" /\ Next /\ UNCHANGED <<payVars, stockVars, addressVars>>
     \/ part = "payments" /\ Pay!Next /\ UNCHANGED <<vars, stockVars, addressVars>>
     \/ part = "stock" /\ Stock!Next /\ UNCHANGED <<vars, payVars, addressVars>>
     \/ part = "links" /\ Addressing /\ OnePageRests
     \/ part = "pages" /\ Addressing /\ OneLinkRests

Documents ==
  InitOfPart /\ [][NextOfPart]_<<part, vars, payVars, stockVars, addressVars>>

Symmetry == Permutations(Users) \cup Permutations(Hooks) \cup
            Permutations(PPInvoices)

-----------------------------------------------------------------------------
(* Every variable of the part that runs has its type.                      *)
TypesOK ==
  /\ part \in Parts
  /\ part = "quotes" => TypeOK
  /\ part = "payments" => Pay!TypeOK
  /\ part = "stock" => Stock!TypeOK
  /\ part \in {"links", "pages"} => Address!TypeOK

(* The first payment of an invoice counts, and a voided invoice is never   *)
(* paid after, however payments by hand, confirmations and repeated events *)
(* of PayPal race.  A payment takes along all the orders that wait for it, *)
(* no order goes on to sourcing without money behind it, and what PayPal   *)
(* is said to have paid was paid at PayPal (InvoicePayment, ADR-104).      *)
(* Nor does a decided quote ever get the other decision (Quoting).         *)
MoneySettlesOnce ==
  /\ Pay!SettledOnce /\ DecidedOnce
  /\ [](/\ Pay!MovedOrdersStandOnMoney /\ Pay!NoOrderLeftBehind
       /\ Pay!PayPalWasPaid)

(* However reservations, releases and shipments interleave, reserved_qty   *)
(* is what the orders hold, physical_qty what is on the shelf, and what an *)
(* order holds can be shipped (OwnInventory).                              *)
ReservationsHold ==
  /\ Stock!ReservedIsWhatIsHeld /\ Stock!ShelfIsCounted
  /\ Stock!PromisesAreBacked /\ Stock!NoConstraintError

(* The default addresses of a company, while customers change them through *)
(* links and the staff saves pages: a change that was answered with        *)
(* success holds, one that was not leaves its link as it was, and the      *)
(* company does not lose its address for the bills (CustomerRegistration). *)
AddressesHold ==
  []Address!DefaultsAreRows /\ Address!ChangesHold /\ Address!DefaultStays

=============================================================================
