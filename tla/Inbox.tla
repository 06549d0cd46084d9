------------------------------- MODULE Inbox -------------------------------
(***************************************************************************)
(* The inbox of Messenger and Instagram: deliveries of Meta's webhook,     *)
(* which are answered first and worked on afterwards in the background     *)
(* (routers/webhook.py), the log of conversations (conv_log_writer.py),    *)
(* and what staff do meanwhile: send, merge and delete leads               *)
(* (routers/leads.py).                                                     *)
(*                                                                         *)
(* All of it runs in one process, a task for every delivery and request.   *)
(* One action is one transaction, or one call of Meta.  FOR UPDATE on both *)
(* leads makes a merge wait for rows that are being written, and the other *)
(* way round.  A statement may fail, a commit that raises has had no       *)
(* effect.  Leads are in the status "lead".  Names, pictures, notices,     *)
(* translations and the windows of 24 hours and 7 days are left out.       *)
(***************************************************************************)
EXTENDS Integers, Sequences

CONSTANTS
  Senders,          \* customers, by their page-scoped id
  Instagram,        \* those who write on Instagram, the others on Messenger
  Inbound,          \* messages of customers
  Outbound,         \* messages of the page: echoes report them
  SenderOf,         \* the customer a message comes from or goes to
  Batches,          \* the messages of an entry that Meta may deliver
  Deliveries, Operators,
  MaxLeads, MaxRemovals, MaxFailures

Messages == Inbound \cup Outbound

InboxAssumption ==
  /\ Instagram \subseteq Senders
  /\ Inbound \cap Outbound = {}
  /\ SenderOf \in [Messages -> Senders]
  /\ Batches \subseteq Seq(Messages) \ {<< >>}
  /\ MaxLeads \in Nat /\ MaxRemovals \in Nat /\ MaxFailures \in Nat

VARIABLES
  serial,           \* leads made so far
  leads,
  owner,            \* lead_channels: the lead of a customer on a platform
  meta, conv,       \* lead_id of the message's row of the two tables
  accepted,         \* messages of the page that Meta took
  task,             \* the background task of a delivery
  send,             \* send_lead_message
  hurt,             \* deliveries that failed, or lost their process or lead
  known,            \* messages filed by a channel that was there
  removals,
  failures          \* of statements, and ends of the process

rows == <<serial, leads, owner, meta, conv>>
vars == <<rows, accepted, task, send, hurt, known, removals, failures>>

Leads == 1..MaxLeads
Platforms == {"messenger", "instagram"}
Null == 0           \* no lead (ON DELETE SET NULL), no channel
Absent == -1        \* no row

NoTask == [at |-> "idle", batch |-> << >>, n |-> 0, lead |-> Null,
           found |-> FALSE, aborted |-> FALSE]
NoSend == [at |-> "idle", lead |-> Null, to |-> Null, message |-> Null]

Init ==
  /\ serial = 0 /\ leads = {}
  /\ owner = [c \in Platforms \X Senders |-> Null]
  /\ meta = [m \in Messages |-> Absent]
  /\ conv = [m \in Messages |-> Absent]
  /\ accepted = {}
  /\ task = [d \in Deliveries |-> NoTask]
  /\ send = [o \in Operators |-> NoSend]
  /\ hurt = {} /\ known = {}
  /\ removals = 0 /\ failures = 0

-----------------------------------------------------------------------------
Message(d) == task[d].batch[task[d].n]
Customer(d) == SenderOf[Message(d)]

(* The key of a customer in lead_channels, as entries of the webhook come. *)
Channel(s) == <<IF s \in Instagram THEN "instagram" ELSE "messenger", s>>

(* The key that is written for the lead of a new customer: for an echo     *)
(* always one of Messenger.                                                *)
Registered(m) ==
  IF m \in Inbound THEN Channel(SenderOf[m]) ELSE <<"messenger", SenderOf[m]>>

At(d, step) == task[d].at = step
Go(d, step) == task' = [task EXCEPT ![d].at = step]

(* The next message of the entry, or the end of the task; an open          *)
(* transaction that failed stays with the session.                         *)
Next1(t, aborted) ==
  [t EXCEPT !.at = IF t.n = Len(t.batch) THEN "done" ELSE "find",
            !.n = IF t.n = Len(t.batch) THEN t.n ELSE t.n + 1,
            !.lead = Null, !.found = FALSE, !.aborted = aborted]

(* Mutant of Advance: return instead of continue.                          *)
AdvanceByReturn(d, aborted) == task' = [task EXCEPT ![d].at = "done", ![d].lead = Null]

Advance(d, aborted) == task' = [task EXCEPT ![d] = Next1(@, aborted)]

(* The exception reaches the outer handler: the rest of the entry is lost. *)
Fails(d) == task' = [task EXCEPT ![d].at = "done", ![d].lead = Null, ![d].found = FALSE]

(* receive_messenger_webhook: 200 is answered, the task is queued.  Meta   *)
(* may deliver an entry again, and entries in any order.                   *)
Receive(d, b) ==
  /\ At(d, "idle")
  /\ \A k \in DOMAIN b : b[k] \in Outbound => b[k] \in accepted
  /\ task' = [task EXCEPT ![d] = [NoTask EXCEPT !.at = "find", !.batch = b, !.n = 1]]
  /\ UNCHANGED <<rows, accepted, send, hurt, known, removals, failures>>

(* The lead of the customer's channel is read.  In a transaction that      *)
(* failed nothing can be read: an echo is skipped, an inbound message ends *)
(* the task.                                                               *)
Find(d) ==
  /\ At(d, "find")
  /\ LET l == owner[Channel(Customer(d))]
     IN  \/ /\ task[d].aborted /\ Message(d) \in Outbound
            /\ Advance(d, TRUE)
         \/ task[d].aborted /\ Message(d) \in Inbound /\ Fails(d)
         \/ ~task[d].aborted /\ l = Null /\ Go(d, "create")
         \/ /\ ~task[d].aborted /\ l # Null
            /\ task' = [task EXCEPT ![d].lead = l, ![d].found = TRUE,
                 ![d].at = IF Message(d) \in Inbound THEN "store" ELSE "log"]
  /\ UNCHANGED <<rows, accepted, send, hurt, known, removals, failures>>

(* A new lead, and its channel unless somebody was faster.  A customer of  *)
(* Instagram whom an echo makes known has no channel of Instagram by it.   *)
Create(d) ==
  /\ At(d, "create") /\ serial < MaxLeads
  /\ serial' = serial + 1
  /\ leads' = leads \cup {serial'}
  /\ owner' = [owner EXCEPT ![Registered(Message(d))] =
                  IF @ = Null THEN serial' ELSE @]
  /\ task' = [task EXCEPT ![d].lead = serial',
                          ![d].at = IF Message(d) \in Inbound THEN "name" ELSE "log"]
  /\ UNCHANGED <<meta, conv, accepted, send, hurt, known, removals, failures>>

(* Meta tells the name of a new customer, or not.  If it does, the channel *)
(* is written again unless it is there: for a lead that is gone it fails.  *)
Name(d, told) ==
  /\ At(d, "name")
  /\ LET c == Channel(Customer(d))
         missing == told /\ owner[c] = Null
         l == task[d].lead
     IN  /\ IF missing /\ l \notin leads THEN Fails(d) ELSE Go(d, "store")
         /\ owner' = IF missing /\ l \in leads
                     THEN [owner EXCEPT ![c] = l] ELSE owner
  /\ UNCHANGED <<serial, leads, meta, conv, accepted, send, hurt, known,
                 removals, failures>>

(* The row of meta_messages: a message that is there is skipped, and a     *)
(* lead that is gone breaks the foreign key.                               *)
Store(d) ==
  /\ At(d, "store")
  /\ LET m == Message(d)
         l == task[d].lead
     IN  \/ meta[m] # Absent /\ Advance(d, FALSE) /\ UNCHANGED <<meta, known>>
         \/ /\ meta[m] = Absent /\ l \notin leads
            /\ Fails(d) /\ UNCHANGED <<meta, known>>
         \/ /\ meta[m] = Absent /\ l \in leads
            /\ meta' = [meta EXCEPT ![m] = l]
            /\ known' = IF task[d].found THEN known \cup {m} ELSE known
            /\ Go(d, "log")
  /\ UNCHANGED <<serial, leads, owner, conv, accepted, send, hurt, removals,
                 failures>>

(* write_conversation_log.  A failure is only logged; after an inbound     *)
(* message send_customer_reply_notice rolls the session back, after an     *)
(* echo nobody does.                                                       *)
Log(d) ==
  /\ At(d, "log")
  /\ LET m == Message(d)
         l == task[d].lead
     IN  \/ conv[m] # Absent /\ Advance(d, FALSE) /\ UNCHANGED <<conv, known>>
         \/ /\ conv[m] = Absent /\ l \notin leads
            /\ Advance(d, m \in Outbound) /\ UNCHANGED <<conv, known>>
         \/ /\ conv[m] = Absent /\ l \in leads
            /\ conv' = [conv EXCEPT ![m] = l]
            /\ known' = IF task[d].found THEN known \cup {m} ELSE known
            /\ Advance(d, FALSE)
  /\ UNCHANGED <<serial, leads, owner, meta, accepted, send, hurt, removals,
                 failures>>

-----------------------------------------------------------------------------
(* send_lead_message: the lead and its last inbound message are read.      *)
(* Which of several customers of a lead wrote last is left open.           *)
Begin(o, l) ==
  /\ send[o].at = "idle" /\ l \in leads
  /\ \E m \in Inbound :
       /\ meta[m] = l
       /\ send' = [send EXCEPT ![o] = [NoSend EXCEPT !.at = "call", !.lead = l,
                                                     !.to = SenderOf[m]]]
  /\ UNCHANGED <<rows, accepted, task, hurt, known, removals, failures>>

(* Meta refuses, or sends the message; the answer may come too late.       *)
Answer(o, m, heard) ==
  /\ send[o].at = "call"
  /\ m \in Outbound \ accepted /\ SenderOf[m] = send[o].to
  /\ accepted' = accepted \cup {m}
  /\ send' = [send EXCEPT ![o] = IF heard
                THEN [@ EXCEPT !.at = "record", !.message = m] ELSE NoSend]
  /\ UNCHANGED <<rows, task, hurt, known, removals, failures>>
Refuse(o) ==
  /\ send[o].at = "call"
  /\ send' = [send EXCEPT ![o] = NoSend]
  /\ UNCHANGED <<rows, accepted, task, hurt, known, removals, failures>>

(* The outbound row; the lead may be gone, and the request fails.          *)
Record(o) ==
  /\ send[o].at = "record"
  /\ meta' = IF send[o].lead \in leads
             THEN [meta EXCEPT ![send[o].message] = send[o].lead] ELSE meta
  /\ send' = [send EXCEPT ![o] = NoSend]
  /\ UNCHANGED <<serial, leads, owner, conv, accepted, task, hurt, known,
                 removals, failures>>

(* The page writes to a customer outside the application.                  *)
WriteElsewhere(m) ==
  /\ m \in Outbound \ accepted
  /\ accepted' = accepted \cup {m}
  /\ UNCHANGED <<rows, task, send, hurt, known, removals, failures>>

-----------------------------------------------------------------------------
Using(l) ==
  {d \in Deliveries : task[d].lead = l /\ task[d].at \in {"name", "store", "log"}}
Moved(f, l, k) == [x \in DOMAIN f |-> IF f[x] = l THEN k ELSE f[x]]

(* Mutant of ChannelsMoved: the table is missing in LEAD_MERGE_TABLES, and *)
(* the foreign key deletes the rows of the loser.                          *)
ChannelsDropped(loser, master) == Moved(owner, loser, Null)

ChannelsMoved(loser, master) == Moved(owner, loser, master)

(* merge_leads: the rows of the loser go to the master in one transaction. *)
Merge(master, loser) ==
  /\ removals < MaxRemovals
  /\ master \in leads /\ loser \in leads /\ master # loser
  /\ owner' = ChannelsMoved(loser, master)
  /\ meta' = Moved(meta, loser, master)
  /\ conv' = Moved(conv, loser, master)
  /\ leads' = leads \ {loser}
  /\ hurt' = hurt \cup Using(loser)
  /\ removals' = removals + 1
  /\ UNCHANGED <<serial, accepted, task, send, known, failures>>

(* delete_lead: refused when a conversation is logged (RESTRICT).          *)
Delete(l) ==
  /\ removals < MaxRemovals
  /\ l \in leads /\ \A m \in Messages : conv[m] # l
  /\ leads' = leads \ {l}
  /\ owner' = Moved(owner, l, Null)
  /\ meta' = Moved(meta, l, Null)
  /\ hurt' = hurt \cup Using(l)
  /\ removals' = removals + 1
  /\ UNCHANGED <<serial, conv, accepted, task, send, known, failures>>

(* A statement fails, or its commit.  An exception of an echo is logged,   *)
(* and the transaction stays as it is; so is one of the log of an inbound  *)
(* message; any other ends the task.                                       *)
StatementFails(d) ==
  /\ failures < MaxFailures
  /\ task[d].at \notin {"idle", "done"}
  /\ \/ Message(d) \in Outbound /\ Advance(d, TRUE)
     \/ Message(d) \in Inbound /\ At(d, "log") /\ Advance(d, FALSE)
     \/ Message(d) \in Inbound /\ ~At(d, "log") /\ Fails(d)
  /\ hurt' = hurt \cup {d}
  /\ failures' = failures + 1
  /\ UNCHANGED <<rows, accepted, send, known, removals>>

(* The process ends, with all that it works on.                            *)
Crash ==
  /\ failures < MaxFailures
  /\ failures' = failures + 1
  /\ LET cut == {d \in Deliveries : task[d].at \notin {"idle", "done"}}
     IN  /\ task' = [d \in Deliveries |-> IF d \in cut
                       THEN [task[d] EXCEPT !.at = "done", !.lead = Null] ELSE task[d]]
         /\ hurt' = hurt \cup cut
  /\ send' = [o \in Operators |-> NoSend]
  /\ UNCHANGED <<rows, accepted, known, removals>>

DeliveryStep(d) ==
  \/ Find(d) \/ Create(d) \/ Store(d) \/ Log(d)
  \/ \E told \in BOOLEAN : Name(d, told)

Next ==
  \/ \E d \in Deliveries :
       DeliveryStep(d) \/ StatementFails(d) \/ \E b \in Batches : Receive(d, b)
  \/ \E o \in Operators :
       \/ \E l \in leads : Begin(o, l)
       \/ \E m \in Outbound, heard \in BOOLEAN : Answer(o, m, heard)
       \/ Refuse(o) \/ Record(o)
  \/ \E m \in Outbound : WriteElsewhere(m)
  \/ \E l, k \in leads : Merge(l, k)
  \/ \E l \in leads : Delete(l)
  \/ Crash

Spec == Init /\ [][Next]_vars

(* A task that is not cut off, by the end of the process or by a failure,  *)
(* runs to its end.                                                        *)
Fairness == \A d \in Deliveries : WF_vars(DeliveryStep(d))

FairSpec == Spec /\ Fairness

-----------------------------------------------------------------------------
(* Every variable has its type.                                            *)
TypeOK ==
  /\ serial \in 0..MaxLeads /\ leads \subseteq 1..serial
  /\ owner \in [Platforms \X Senders -> leads \cup {Null}]
  /\ meta \in [Messages -> leads \cup {Null, Absent}]
  /\ conv \in [Messages -> leads \cup {Absent}]
  /\ accepted \subseteq Outbound
  /\ hurt \subseteq Deliveries /\ known \subseteq Messages
  /\ \A d \in Deliveries :
       /\ task[d].at \in {"idle", "find", "create", "name", "store", "log", "done"}
       /\ task[d].batch \in Batches \cup {<< >>}
       /\ task[d].n \in 0..Len(task[d].batch)
       /\ task[d].lead \in 0..serial
  /\ \A o \in Operators : send[o].at \in {"idle", "call", "record"}
  /\ removals \in 0..MaxRemovals /\ failures \in 0..MaxFailures

(* A message whose sender had a channel when it came is found where the    *)
(* sender's next message will go, whatever was merged or deleted since: a  *)
(* conversation is split only as long as its customer has no channel, by   *)
(* first messages that come at once, and on Instagram by any number of     *)
(* echoes, which leave the customer without one.                           *)
FiledWithOwner ==
  \A m \in known :
    LET l == owner[Channel(SenderOf[m])]
    IN  /\ meta[m] \in Leads /\ m \in Inbound => meta[m] = l
        /\ conv[m] \in Leads => conv[m] = l

(* Both tables file a message of a customer under the same lead, although  *)
(* they are written in two transactions with merges in between.            *)
TablesAgree ==
  \A m \in Inbound : conv[m] # Absent => meta[m] = conv[m]

(* An answer stands beside a message of the customer it went to, although  *)
(* leads are merged and deleted while Meta sends it.                       *)
AnswersStandByCustomers ==
  \A m \in Outbound : meta[m] \in Leads =>
    meta[m] \in leads /\ \E n \in Inbound : SenderOf[n] = SenderOf[m] /\ meta[n] = meta[m]

(* Every message that was answered gets into both tables, an echo into the *)
(* log, unless one of its deliveries lost its process, or a statement of   *)
(* it failed, or the lead it had just read was merged away or deleted.     *)
Delivered(m) == {d \in Deliveries : \E k \in DOMAIN task[d].batch : task[d].batch[k] = m}
Kept(m) == conv[m] # Absent /\ (m \in Inbound => meta[m] # Absent)
AnsweredIsKept ==
  \A m \in Messages :
    Delivered(m) # {} ~> Kept(m) \/ Delivered(m) \cap hurt # {}

-----------------------------------------------------------------------------
(* A customer whose lead nobody removed has one lead: _persist_meta_message*)
(* says that ON CONFLICT DO NOTHING prevents more (violated by two first   *)
(* messages at once).                                                      *)
OneLeadPerCustomer ==
  \A m, n \in Inbound :
    SenderOf[m] = SenderOf[n] /\ meta[m] \in Leads /\ meta[n] \in Leads
      => meta[m] = meta[n]

(* "Webhook processing continues": a conversation log that fails does not  *)
(* keep another message of the entry from being stored.                    *)
FailuresStayAlone ==
  \A d \in Deliveries :
    task[d].at = "done" /\ failures = 0 =>
      \A k \in DOMAIN task[d].batch :
        LET m == task[d].batch[k]
        IN  m \in Inbound /\ meta[m] = Absent => k = task[d].n /\ ~task[d].aborted

(* A message that Meta confirmed is recorded (violated: its lead may be    *)
(* merged away during the call).                                           *)
SentIsRecorded ==
  [][\A o \in Operators :
       send[o].at = "record" /\ send'[o].at = "idle" /\ failures' = failures =>
         meta'[send[o].message] # Absent]_vars

=============================================================================
