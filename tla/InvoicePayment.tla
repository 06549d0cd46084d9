--------------------------- MODULE InvoicePayment ---------------------------
(***************************************************************************)
(* The payment of invoices (src/backend/app/routers/invoices.py), by hand  *)
(* or through PayPal (services/paypal_payments.py and the webhook in       *)
(* routers/integrations.py), and the orders that wait for it               *)
(* (routers/orders.py).                                                    *)
(*                                                                         *)
(* issue and pay are single conditional UPDATEs.  void reads the row and   *)
(* writes it later by its id.  The PayPal handlers read the row, call      *)
(* PayPal, and repeat the status in their UPDATE.  PayPal sends the event  *)
(* INVOICING.INVOICE.PAID until it is answered with 200.                   *)
(*                                                                         *)
(* "issued" stands for issued and overdue, which every statement treats    *)
(* alike (nothing writes overdue).  Amounts, fees, dates, the copy in PDF  *)
(* and the retired Orders API (paypal_return) are left out.                *)
(***************************************************************************)
EXTENDS Naturals, FiniteSets

CONSTANTS
  Invoices, Orders,
  PPInvoices,      \* ids PayPal may give to its invoices
  NoLink,          \* paypal_order_id IS NULL
  Users,           \* requests of users
  Hooks,           \* requests of the webhook
  MaxLapses,       \* bound: requests that fail and are answered as an error
  MaxMute,         \* bound: events get_invoice_status fails for in the webhook
  MaxEdits         \* bound: orders edited by hand

NoLinkAssumption == NoLink \notin PPInvoices
BoundsAssumption ==
  MaxLapses \in Nat /\ MaxMute \in Nat /\ MaxEdits \in Nat

VARIABLES
  status, link,    \* columns status and paypal_order_id of invoices
  paidBy,          \* what wrote paid_at of an invoice first
  order,           \* rows of orders
  pp,              \* the invoices at PayPal
  events,          \* events PayPal has yet to see answered with 200
  req,             \* requests of users
  hook,            \* requests of the webhook
  moved,           \* orders a payment has moved to sourcing
  late,            \* orders written by hand after the payment
  lapses, edits,
  mute             \* events answered with 200 though PayPal could not be asked

invVars == <<status, link, paidBy>>
orderVars == <<order, moved, late, edits>>
ppVars == <<pp, events>>
faultVars == <<lapses, mute>>
vars == <<invVars, orderVars, ppVars, req, hook, faultVars>>

OrderStatus == {"absent", "awaiting_payment", "sourcing", "other"}

(* The way of a request: what it has read, and the PayPal invoice it       *)
(* concerns.                                                               *)
Idle == [step |-> "idle", inv |-> NoLink, pp |-> NoLink]
Request(steps) ==
  [step : steps \cup {"idle"}, inv : Invoices \cup {NoLink},
   pp : PPInvoices \cup {NoLink}]

TypeOK ==
  /\ status \in [Invoices -> {"draft", "issued", "paid", "voided"}]
  /\ link \in [Invoices -> PPInvoices \cup {NoLink}]
  /\ paidBy \in [Invoices -> {"none", "hand", "paypal"}]
  /\ order \in [Orders -> [status : OrderStatus, inv : Invoices \cup {NoLink}]]
  /\ pp \in [PPInvoices -> [state : {"unused", "sent", "paid"},
                            inv : Invoices \cup {NoLink}]]
  /\ events \subseteq PPInvoices
  /\ req \in [Users -> Request({"voiding", "linking", "storing",
                                "confirming", "applying"})]
  /\ hook \in [Hooks -> Request({"asking", "applying"})]
  /\ moved \subseteq Orders /\ late \subseteq Orders
  /\ lapses \in 0..MaxLapses /\ edits \in 0..MaxEdits
  /\ mute \subseteq PPInvoices \cup {NoLink}

Init ==
  /\ status = [i \in Invoices |-> "draft"]
  /\ link = [i \in Invoices |-> NoLink]
  /\ paidBy = [i \in Invoices |-> "none"]
  /\ order = [o \in Orders |-> [status |-> "absent", inv |-> NoLink]]
  /\ pp = [p \in PPInvoices |-> [state |-> "unused", inv |-> NoLink]]
  /\ events = {}
  /\ req = [u \in Users |-> Idle]
  /\ hook = [h \in Hooks |-> Idle]
  /\ moved = {} /\ late = {}
  /\ lapses = 0 /\ mute = {} /\ edits = 0

-----------------------------------------------------------------------------
(* Helpers                                                                 *)

GoOn(u, step, i, p) ==
  req' = [req EXCEPT ![u] = [step |-> step, inv |-> i, pp |-> p]]
End(u) == req' = [req EXCEPT ![u] = Idle]
HookEnds(h) == hook' = [hook EXCEPT ![h] = Idle]

(* Mutant of Payable: WHERE id = :id only.                                 *)
PayableAlways(i) == status[i] # "draft"

(* WHERE status IN ('issued', 'overdue')                                   *)
Payable(i) == status[i] = "issued"

WaitingFor(i) ==
  {o \in Orders : order[o].inv = i /\ order[o].status = "awaiting_payment"}

(* Mutant of MoveOrders: the orders are left to somebody else.             *)
MoveNoOrders(i) == UNCHANGED <<order, moved>>

(* UPDATE orders SET status = 'sourcing' ... WHERE 'awaiting_payment'.     *)
MoveOrders(i) ==
  /\ order' = [o \in Orders |->
                 IF o \in WaitingFor(i)
                 THEN [order[o] EXCEPT !.status = "sourcing"] ELSE order[o]]
  /\ moved' = moved \cup WaitingFor(i)

(* UPDATE invoices SET status = 'paid' ... WHERE status IN (...)           *)
MarkPaid(i, way) ==
  /\ IF Payable(i)
     THEN /\ status' = [status EXCEPT ![i] = "paid"]
          /\ paidBy' = [paidBy EXCEPT ![i] = way]
     ELSE UNCHANGED <<status, paidBy>>
  /\ UNCHANGED link

-----------------------------------------------------------------------------
(* Invoices by hand                                                        *)

Issue(i) ==
  /\ status[i] = "draft"
  /\ status' = [status EXCEPT ![i] = "issued"]
  /\ UNCHANGED <<link, paidBy, orderVars, ppVars, req, hook, faultVars>>

(* pay_invoice: no row found is answered with 400, before the orders.      *)
Pay(i) ==
  /\ Payable(i)
  /\ MarkPaid(i, "hand")
  /\ MoveOrders(i)
  /\ UNCHANGED <<late, edits, ppVars, req, hook, faultVars>>

ReadForVoid(u, i) ==
  /\ req[u].step = "idle"
  /\ status[i] \notin {"voided", "paid"}
  /\ GoOn(u, "voiding", i, NoLink)
  /\ UNCHANGED <<invVars, orderVars, ppVars, hook, faultVars>>

(* UPDATE invoices SET status = 'voided' WHERE id = :id                    *)
Void(u) ==
  /\ req[u].step = "voiding"
  /\ status' = [status EXCEPT ![req[u].inv] = "voided"]
  /\ End(u)
  /\ UNCHANGED <<link, paidBy, orderVars, ppVars, hook, faultVars>>

-----------------------------------------------------------------------------
(* Orders                                                                  *)

Late(o, i) == IF paidBy[i] # "none" THEN late \cup {o} ELSE late

CreateOrder(o, i) ==
  /\ order[o].status = "absent"
  /\ \E s \in OrderStatus \ {"absent"} :
       order' = [order EXCEPT ![o] = [status |-> s, inv |-> i]]
  /\ late' = Late(o, i)
  /\ UNCHANGED <<moved, edits, invVars, ppVars, req, hook, faultVars>>

(* update_order writes any status the request names.                       *)
EditOrder(o) ==
  /\ order[o].status # "absent" /\ edits < MaxEdits
  /\ edits' = edits + 1
  /\ \E s \in OrderStatus \ {"absent"} :
       order' = [order EXCEPT ![o].status = s]
  /\ late' = Late(o, order[o].inv)
  /\ moved' = moved \ {o}
  /\ UNCHANGED <<invVars, ppVars, req, hook, faultVars>>

-----------------------------------------------------------------------------
(* issue_paypal_link                                                       *)

ReadForLink(u, i) ==
  /\ req[u].step = "idle"
  /\ Payable(i)
  /\ GoOn(u, "linking", i, NoLink)
  /\ UNCHANGED <<invVars, orderVars, ppVars, hook, faultVars>>

(* create_and_send_invoice.  Its answer may be lost.                       *)
CreateAtPayPal(u) ==
  /\ req[u].step = "linking"
  /\ \E p \in PPInvoices :
       /\ pp[p].state = "unused"
       /\ pp' = [pp EXCEPT ![p] = [state |-> "sent", inv |-> req[u].inv]]
       /\ \/ GoOn(u, "storing", req[u].inv, p) /\ UNCHANGED lapses
          \/ lapses < MaxLapses /\ lapses' = lapses + 1 /\ End(u)
  /\ UNCHANGED <<invVars, orderVars, events, hook, mute>>

(* PayPal refuses, or the contact has no address: 502 or 400.              *)
LinkIsRefused(u) ==
  /\ req[u].step = "linking"
  /\ End(u)
  /\ UNCHANGED <<invVars, orderVars, ppVars, hook, faultVars>>

(* The guarded UPDATE, the copy, the commit.                               *)
StoreLink(u) ==
  /\ req[u].step = "storing"
  /\ link' = IF Payable(req[u].inv)
             THEN [link EXCEPT ![req[u].inv] = req[u].pp] ELSE link
  /\ End(u)
  /\ UNCHANGED <<status, paidBy, orderVars, ppVars, hook, faultVars>>

(* A request of a user is refused, fails, or its process dies.             *)
Fail(u) ==
  /\ req[u].step # "idle"
  /\ lapses < MaxLapses /\ lapses' = lapses + 1
  /\ End(u)
  /\ UNCHANGED <<invVars, orderVars, ppVars, hook, mute>>

-----------------------------------------------------------------------------
(* PayPal                                                                  *)

(* The customer pays on the page PayPal has mailed.                        *)
CustomerPays(p) ==
  /\ pp[p].state = "sent"
  /\ pp' = [pp EXCEPT ![p].state = "paid"]
  /\ events' = events \cup {p}
  /\ UNCHANGED <<invVars, orderVars, req, hook, faultVars>>

(* get_invoice_status: status = 'PAID'                                     *)
PaidAtPayPal(p) == pp[p].state = "paid"

-----------------------------------------------------------------------------
(* confirm_paypal_payment                                                  *)

ReadForConfirm(u, i) ==
  /\ req[u].step = "idle"
  /\ link[i] # NoLink
  /\ Payable(i)
  /\ GoOn(u, "confirming", i, link[i])
  /\ UNCHANGED <<invVars, orderVars, ppVars, hook, faultVars>>

(* Not paid yet is answered with 409.                                      *)
AskStatus(u) ==
  /\ req[u].step = "confirming"
  /\ IF PaidAtPayPal(req[u].pp)
     THEN GoOn(u, "applying", req[u].inv, req[u].pp) ELSE End(u)
  /\ UNCHANGED <<invVars, orderVars, ppVars, hook, faultVars>>

ApplyConfirm(u) ==
  LET i == req[u].inv IN
  /\ req[u].step = "applying"
  /\ MarkPaid(i, "paypal")
  /\ IF Payable(i) THEN MoveOrders(i) ELSE UNCHANGED <<order, moved>>
  /\ End(u)
  /\ UNCHANGED <<late, edits, ppVars, hook, faultVars>>

-----------------------------------------------------------------------------
(* _handle_invoice_paid                                                    *)

Answer200(p) == events' = events \ {p}

(* The event is verified and the row is read.  An event of another PayPal  *)
(* invoice than the linked one, or of an invoice that is not open, is      *)
(* answered with 200 and nothing else.                                     *)
Receive(h, p) ==
  LET i == pp[p].inv IN
  /\ hook[h].step = "idle"
  /\ p \in events
  /\ IF link[i] = p /\ Payable(i)
     THEN /\ hook' = [hook EXCEPT ![h] =
                        [step |-> "asking", inv |-> i, pp |-> p]]
          /\ UNCHANGED events
     ELSE /\ Answer200(p)
          /\ UNCHANGED hook
  /\ UNCHANGED <<invVars, orderVars, pp, req, faultVars>>

HookAsks(h) ==
  /\ hook[h].step = "asking"
  /\ IF PaidAtPayPal(hook[h].pp)
     THEN hook' = [hook EXCEPT ![h].step = "applying"] /\ UNCHANGED events
     ELSE Answer200(hook[h].pp) /\ HookEnds(h)
  /\ UNCHANGED <<invVars, orderVars, pp, req, faultVars>>

(* get_invoice_status could not ask (a timeout, no token, another status): *)
(* it returns paid = False, the event is answered with 200 all the same,   *)
(* and PayPal does not send it again.                                      *)
HookAsksInVain(h) ==
  /\ hook[h].step = "asking"
  /\ Cardinality(mute) < MaxMute /\ mute' = mute \cup {hook[h].pp}
  /\ Answer200(hook[h].pp)
  /\ HookEnds(h)
  /\ UNCHANGED <<invVars, orderVars, pp, req, lapses>>

(* Both UPDATEs and the commit; the orders are moved whether or not the    *)
(* invoice was still open.                                                 *)
HookApplies(h) ==
  LET i == hook[h].inv IN
  /\ hook[h].step = "applying"
  /\ MarkPaid(i, "paypal")
  /\ MoveOrders(i)
  /\ Answer200(hook[h].pp)
  /\ HookEnds(h)
  /\ UNCHANGED <<late, edits, pp, req, faultVars>>

(* Mutant of HookFails: an exception is answered with 200.                 *)
HookFailsSilently(h) ==
  /\ hook[h].step # "idle"
  /\ lapses < MaxLapses /\ lapses' = lapses + 1
  /\ Answer200(hook[h].pp)
  /\ HookEnds(h)
  /\ UNCHANGED <<invVars, orderVars, pp, req, mute>>

(* An exception is answered with 500, or the process dies: PayPal sends    *)
(* the event again.                                                        *)
HookFails(h) ==
  /\ hook[h].step # "idle"
  /\ lapses < MaxLapses /\ lapses' = lapses + 1
  /\ HookEnds(h)
  /\ UNCHANGED <<invVars, orderVars, ppVars, req, mute>>

-----------------------------------------------------------------------------
HookSteps(h) == HookAsks(h) \/ HookApplies(h)
UserSteps(u) ==
  \/ Void(u) \/ CreateAtPayPal(u) \/ LinkIsRefused(u) \/ StoreLink(u)
  \/ AskStatus(u) \/ ApplyConfirm(u)

Next ==
  \/ \E i \in Invoices :
       \/ Issue(i) \/ Pay(i)
       \/ \E u \in Users :
            ReadForVoid(u, i) \/ ReadForLink(u, i) \/ ReadForConfirm(u, i)
       \/ \E o \in Orders : CreateOrder(o, i)
  \/ \E o \in Orders : EditOrder(o)
  \/ \E u \in Users : UserSteps(u) \/ Fail(u)
  \/ \E p \in PPInvoices : CustomerPays(p)
  \/ \E h \in Hooks :
       \/ \E p \in PPInvoices : Receive(h, p)
       \/ HookSteps(h) \/ HookAsksInVain(h) \/ HookFails(h)

Spec == Init /\ [][Next]_vars

(* PayPal sends an event until it is answered, and a request that has      *)
(* begun goes on (the calls have timeouts).  Users and customers are free. *)
Fairness ==
  /\ \A p \in PPInvoices : SF_vars(\E h \in Hooks : Receive(h, p))
  /\ \A h \in Hooks : WF_vars(HookSteps(h))
  /\ \A u \in Users : WF_vars(UserSteps(u))

FairSpec == Spec /\ Fairness

-----------------------------------------------------------------------------
(* Properties                                                              *)

(* The first payment counts: however payments by hand, confirmations and   *)
(* repeated events of PayPal race, what was written stays, and an invoice  *)
(* that was voided is never paid after.                                    *)
SettledOnce ==
  [][\A i \in Invoices :
       /\ paidBy[i] # "none" => paidBy'[i] = paidBy[i]
       /\ status[i] = "voided" => /\ status'[i] = "voided"
                                  /\ paidBy'[i] = paidBy[i]]_vars

(* What PayPal is said to have paid, PayPal was paid.                      *)
PayPalWasPaid ==
  \A i \in Invoices : paidBy[i] = "paypal" =>
    \E p \in PPInvoices : pp[p].inv = i /\ pp[p].state = "paid"

(* An order goes on to sourcing only on money: its invoice was paid by     *)
(* hand, or PayPal was paid for it.                                        *)
MovedOrdersStandOnMoney ==
  \A o \in moved :
    \/ paidBy[order[o].inv] # "none"
    \/ \E p \in PPInvoices : pp[p].inv = order[o].inv /\ pp[p].state = "paid"

(* A payment takes along every order that waits for it (ADR-104), and      *)
(* leaves none behind but those that were written after it.                *)
NoOrderLeftBehind ==
  \A o \in Orders :
    order[o].status = "awaiting_payment" /\ paidBy[order[o].inv] # "none" =>
      o \in late

(* The event of the linked PayPal invoice is not lost, whatever requests   *)
(* fail and however it is repeated: the invoice is paid in the end, unless *)
(* it is voided, gets another link, or PayPal, asked back by the webhook,  *)
(* did not say how the invoice stands.                                     *)
EventsSettle ==
  \A i \in Invoices, p \in PPInvoices :
    p \in events /\ link[i] = p /\ status[i] = "issued"
      ~> status[i] # "issued" \/ link[i] # p \/ p \in mute

(* Whatever the customer pays at PayPal for an invoice arrives (ADR-101:   *)
(* the webhook turns it to paid).                                          *)
PaymentsArrive ==
  \A i \in Invoices, p \in PPInvoices :
    pp[p] = [state |-> "paid", inv |-> i] /\ status[i] = "issued"
      ~> status[i] # "issued"

(* An invoice that was paid is not voided (void_invoice refuses it).       *)
PaidIsNotVoided ==
  [][\A i \in Invoices : status[i] = "paid" => status'[i] # "voided"]_vars

=============================================================================
