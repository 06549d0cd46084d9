--------------------------- MODULE PayPalDisputes ---------------------------
(***************************************************************************)
(* The events CUSTOMER.DISPUTE.* of PayPal (_handle_dispute in             *)
(* src/backend/app/routers/integrations.py).                               *)
(*                                                                         *)
(* An event does not say which tenant it belongs to: the handler verifies  *)
(* its signature with the webhook of one tenant after the other, and       *)
(* stores the dispute where it is valid.  PayPal sends an event again      *)
(* until it is answered with 200, and may send one twice.                  *)
(*                                                                         *)
(* A dispute is the number of its latest event: 1 created, then updated,   *)
(* then resolved.  Amounts, reasons and the match of the invoice by its    *)
(* number are left out.                                                    *)
(***************************************************************************)
EXTENDS Naturals, FiniteSets

CONSTANTS
  Tenants,        \* ids of the tenants with a webhook
  Disputes,
  Owner,          \* the tenant whose webhook signed the events of a dispute
  Hooks,          \* requests being handled
  MaxEvent,       \* bound: events of one dispute
  MaxErrors,      \* bound: verifications or writes that fail
  MaxRepeats      \* bound: events sent again although they were answered

ASSUME TenantsAssumption == Tenants \subseteq Nat
ASSUME OwnerAssumption == Owner \in [Disputes -> Tenants]
ASSUME DisputesAssumption == {MaxEvent, MaxErrors, MaxRepeats} \subseteq Nat

VARIABLES
  latest,     \* number of the latest event of a dispute at PayPal
  unanswered, \* events PayPal has yet to see answered with 200
  row,        \* paypal_disputes.pp_status of every tenant; 0: no row
  stored,     \* events that were stored at least once
  hook,       \* a request: its event, the tenants left, saw_error
  errors, repeats

vars == <<latest, unanswered, row, stored, hook, errors, repeats>>

Event == [dispute : Disputes, n : 1..MaxEvent]
NoEvent == [dispute |-> "none", n |-> 0]
Free == [event |-> NoEvent, left |-> {}, sawError |-> FALSE]
Handling == [event : Event, left : SUBSET Tenants, sawError : BOOLEAN]

TypeOK ==
  /\ latest \in [Disputes -> 0..MaxEvent]
  /\ unanswered \subseteq Event /\ stored \subseteq Event
  /\ row \in [Tenants -> [Disputes -> 0..MaxEvent]]
  /\ hook \in [Hooks -> Handling \cup {Free}]
  /\ errors \in 0..MaxErrors /\ repeats \in 0..MaxRepeats

Init ==
  /\ latest = [d \in Disputes |-> 0]
  /\ unanswered = {}
  /\ row = [t \in Tenants |-> [d \in Disputes |-> 0]]
  /\ stored = {}
  /\ hook = [h \in Hooks |-> Free]
  /\ errors = 0 /\ repeats = 0

-----------------------------------------------------------------------------
(* PayPal                                                                  *)

Happens(d) ==
  /\ latest[d] < MaxEvent
  /\ latest' = [latest EXCEPT ![d] = @ + 1]
  /\ unanswered' = unanswered \cup {[dispute |-> d, n |-> latest'[d]]}
  /\ UNCHANGED <<row, stored, hook, errors, repeats>>

(* The answer 200 is lost on its way.                                      *)
SendAgain(e) ==
  /\ e \in stored \ unanswered
  /\ repeats < MaxRepeats /\ repeats' = repeats + 1
  /\ unanswered' = unanswered \cup {e}
  /\ UNCHANGED <<latest, row, stored, hook, errors>>

-----------------------------------------------------------------------------
(* The handler                                                             *)

Receive(h, e) ==
  /\ hook[h] = Free
  /\ e \in unanswered
  /\ hook' = [hook EXCEPT ![h] =
                [event |-> e, left |-> Tenants, sawError |-> FALSE]]
  /\ UNCHANGED <<latest, unanswered, row, stored, errors, repeats>>

First(s) == CHOOSE t \in s : \A u \in s : t <= u
Trying(h) == hook[h].left # {}

(* ORDER BY tenant_id: the signature does not fit this tenant.             *)
VerifyOther(h) ==
  /\ Trying(h)
  /\ First(hook[h].left) # Owner[hook[h].event.dispute]
  /\ hook' = [hook EXCEPT ![h].left = @ \ {First(@)}]
  /\ UNCHANGED <<latest, unanswered, row, stored, errors, repeats>>

(* Mutant of Noted: the outcome of the last tenant alone counts.           *)
NotedLast(h) == First(hook[h].left) > 1

Noted(h) == TRUE

(* The verification cannot be done (network, token of the tenant).         *)
VerifyError(h) ==
  /\ Trying(h)
  /\ errors < MaxErrors /\ errors' = errors + 1
  /\ hook' = [hook EXCEPT ![h].left = @ \ {First(@)},
                          ![h].sawError = @ \/ Noted(h)]
  /\ UNCHANGED <<latest, unanswered, row, stored, repeats>>

Matched(h) == First(hook[h].left)

(* Mutant of Written: what is there is added to.                           *)
WrittenOnTop(old, new) == old + new

(* pp_status = EXCLUDED.pp_status                                          *)
Written(old, new) == new

(* The signature fits: INSERT ... ON CONFLICT (dispute_id) DO UPDATE,      *)
(* whatever the row says, and 200.                                         *)
VerifyAndStore(h) ==
  LET e == hook[h].event IN
  /\ Trying(h)
  /\ First(hook[h].left) = Owner[e.dispute]
  /\ row' = [row EXCEPT ![Matched(h)][e.dispute] = Written(@, e.n)]
  /\ stored' = stored \cup {e}
  /\ unanswered' = unanswered \ {e}
  /\ hook' = [hook EXCEPT ![h] = Free]
  /\ UNCHANGED <<latest, errors, repeats>>

(* The write fails, is rolled back and answered with 500.                  *)
StoreFails(h) ==
  /\ Trying(h)
  /\ First(hook[h].left) = Owner[hook[h].event.dispute]
  /\ errors < MaxErrors /\ errors' = errors + 1
  /\ hook' = [hook EXCEPT ![h] = Free]
  /\ UNCHANGED <<latest, unanswered, row, stored, repeats>>

(* No tenant fits: 500 keeps the event, 400 gives it up.                   *)
NobodysEvent(h) ==
  /\ hook[h] # Free
  /\ hook[h].left = {}
  /\ unanswered' = IF hook[h].sawError THEN unanswered
                   ELSE unanswered \ {hook[h].event}
  /\ hook' = [hook EXCEPT ![h] = Free]
  /\ UNCHANGED <<latest, row, stored, errors, repeats>>

-----------------------------------------------------------------------------
Handle(h) == VerifyOther(h) \/ VerifyAndStore(h) \/ NobodysEvent(h)

Next ==
  \/ \E d \in Disputes : Happens(d)
  \/ \E e \in Event : SendAgain(e)
  \/ \E h \in Hooks :
       \/ \E e \in Event : Receive(h, e)
       \/ Handle(h) \/ VerifyError(h) \/ StoreFails(h)

Spec == Init /\ [][Next]_vars

(* PayPal sends an event until it is answered; a request goes on.          *)
Fairness ==
  /\ \A e \in Event : SF_vars(\E h \in Hooks : Receive(h, e))
  /\ \A h \in Hooks : WF_vars(Handle(h))

FairSpec == Spec /\ Fairness

-----------------------------------------------------------------------------
(* Properties                                                              *)

(* A dispute shows up at the tenant it belongs to and nowhere else.        *)
ShownToItsTenant ==
  \A t \in Tenants, d \in Disputes : row[t][d] # 0 => t = Owner[d]

(* Every event is stored in the end, although a verification with the      *)
(* webhook of any tenant may fail a few times: the handler keeps 400 for   *)
(* events that surely belong to nobody.                                    *)
EveryEventIsStored ==
  \A e \in Event : e \in unanswered ~> e \in stored

(* The events of PayPal are never answered as done before they are stored. *)
AnsweredAfterStored ==
  \A d \in Disputes : \A n \in 1..latest[d] :
    LET e == [dispute |-> d, n |-> n] IN e \in unanswered \cup stored

=============================================================================
