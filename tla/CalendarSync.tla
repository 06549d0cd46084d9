---------------------------- MODULE CalendarSync ----------------------------
(***************************************************************************)
(* The events of a tenant's calendar and of the one Google calendar it is  *)
(* connected to: requests that create, edit and delete rows and tell       *)
(* Google of it afterwards (calendar_service.py), the workers that read    *)
(* Google's changes since a sync token (google_webhook.py,                 *)
(* google_calendar_sync.py), and the channel by which Google announces     *)
(* changes.  All requests are of the person who connected Google.  Texts,  *)
(* times and Meet links are left out: a title stands for them, and the     *)
(* number of the edit stands for the title.  Of the times it matters only  *)
(* which end more than 30 days ago.  An event of Google is never restored, *)
(* and a channel does not expire.                                          *)
(***************************************************************************)
EXTENDS Naturals

CONSTANTS
  Gids,         \* ids that Google gives to events
  Own,          \* rows made in the app; the row of an event read from Google
                \* is named by the event's id
  Reqs,         \* requests that edit or delete
  Workers,      \* processes that read from Google
  Admins,       \* requests that choose the mode of the synchronisation
  None,
  MaxEdition,   \* edits, in the app and at Google
  MaxModes,     \* changes of the mode, and of the connection
  MaxRegisters, \* channels opened
  MaxFaults     \* failed calls of Google, expired tokens, dead processes

Modes == {"bidirectional", "read_only", "write_only", "none"}

CalendarAssumption ==
  /\ None \notin Gids \cup Own \cup Workers
  /\ Gids \cap Own = {}
  /\ MaxEdition \in Nat /\ MaxModes \in Nat /\ MaxRegisters \in Nat
  /\ MaxFaults \in Nat

VARIABLES
  google,       \* Google's events, with the number of their last change
  row,          \* calendar_events
  making,       \* the requests that create a row
  req,
  worker,
  holder,       \* who holds the advisory lock of the tenant
  mode,         \* sync_mode, "off" while Google is not connected
  sub,          \* google_webhook_subscriptions
  live, opened, \* the channels that are open at Google, and the last one
  reg,          \* registrations and stops of a channel that are under way
  edition, modes, faults,
  old,          \* titles with an end more than 30 days ago
  apart         \* events that differ from their row, or have none, though no
                \* reading is to find it

vars == <<google, row, making, req, worker, holder, mode, sub, live, opened,
          reg, edition, modes, faults, old, apart>>
appVars == <<row, making, req>>
syncVars == <<worker, holder>>
channelVars == <<sub, live, opened, reg>>
boundVars == <<edition, modes, faults>>
staleVars == <<old, apart>>

Rows == Gids \cup Own
Registrars == Workers \cup Admins

NoRow == [there |-> FALSE, gid |-> None, title |-> 0, status |-> "none",
          type |-> "none"]
NoSub == [channel |-> 0, token |-> 0]
NoReq == [at |-> "idle", x |-> None, gid |-> None, title |-> 0, ok |-> FALSE]
NoReg == [at |-> "idle", channel |-> 0, old |-> 0]
Resting == [at |-> "idle", full |-> FALSE, token |-> 0, got |-> <<>>,
            past |-> {}, todo |-> {}, item |-> None, staged |-> {}]

Importing == mode \in {"bidirectional", "read_only"}
Sending == mode \in {"bidirectional", "write_only"}

LastMark == CHOOSE m \in {google[g].mark : g \in Gids} \cup {0} :
              \A g \in Gids : google[g].mark <= m

Init ==
  /\ google = [g \in Gids |-> [st |-> "none", title |-> 0, mark |-> 0]]
  /\ row = [x \in Rows |-> NoRow]
  /\ making = [a \in Own |-> [at |-> "new", gid |-> None, title |-> 0]]
  /\ req = [r \in Reqs |-> NoReq]
  /\ worker = [w \in Workers |-> Resting]
  /\ holder = None
  /\ mode = "bidirectional"
  /\ opened \in 0..1 \cap 0..MaxRegisters
  /\ live = 1..opened /\ sub = [channel |-> opened, token |-> 0]
  /\ reg = [p \in Registrars |-> NoReg]
  /\ edition = 0 /\ modes = 0 /\ faults = 0
  /\ old = {} /\ apart = {}

(* The row of g as an event made in the app: _is_app_origin.               *)
AppOrigin(g) == \E a \in Own : row[a].there /\ row[a].gid = g

(* The transaction of a synchronisation holds the row, or the index entry. *)
Locked(x) == \E w \in Workers : x \in worker[w].staged

Fault == faults < MaxFaults /\ faults' = faults + 1
NoFault == UNCHANGED faults

-----------------------------------------------------------------------------
(* Google's side: external.                                                *)

Changed(g, st, title) ==
  /\ google' = [google EXCEPT ![g] =
                  [st |-> st, title |-> title, mark |-> LastMark + 1]]
  /\ apart' = apart \ {g}
Unchanged == UNCHANGED <<google, apart>>

Edited == edition < MaxEdition /\ edition' = edition + 1

GoogleAddsOrEdits(g) ==
  /\ google[g].st \in {"none", "confirmed"}
  /\ Edited
  /\ Changed(g, "confirmed", edition')
  /\ UNCHANGED <<appVars, syncVars, mode, channelVars, modes, faults, old>>

GoogleDeletes(g) ==
  /\ google[g].st = "confirmed"
  /\ Changed(g, "cancelled", google[g].title)
  /\ UNCHANGED <<appVars, syncVars, mode, channelVars, boundVars, old>>

(* Times go by; an edit may also be to a time long past.                   *)
Ages(n) ==
  /\ n \notin old /\ old' = old \cup {n}
  /\ UNCHANGED <<google, appVars, syncVars, mode, channelVars, boundVars,
                 apart>>

-----------------------------------------------------------------------------
(* create_event: the row is committed before Google is called, and the id  *)
(* Google gave is recorded after it.                                       *)
Create(a) ==
  /\ making[a].at = "new"
  /\ Edited
  /\ row' = [row EXCEPT ![a] = [there |-> TRUE, gid |-> None,
               title |-> edition', status |-> "pending", type |-> "shared"]]
  /\ making' = [making EXCEPT ![a].at = "sending", ![a].title = edition']
  /\ UNCHANGED <<google, req, syncVars, mode, channelVars, modes,
                 faults, staleVars>>

(* A call that fails may have taken effect.                                *)
CreateSends(a) ==
  /\ making[a].at = "sending"
  /\ \/ /\ ~ Sending
        /\ making' = [making EXCEPT ![a].at = "done"]
        /\ NoFault /\ Unchanged
     \/ /\ Sending
        /\ \E g \in Gids :
             /\ google[g].st = "none"
             /\ Changed(g, "confirmed", making[a].title)
             /\ \E at \in {"recording", "failing"} :
                  /\ IF at = "failing" THEN Fault ELSE NoFault
                  /\ making' = [making EXCEPT ![a].at = at, ![a].gid = g]
     \/ /\ Sending /\ Fault
        /\ making' = [making EXCEPT ![a].at = "failing"]
        /\ Unchanged
  /\ UNCHANGED <<row, req, syncVars, mode, channelVars, edition, modes, old>>

(* The UPDATE that records the id.  When a synchronisation has read the    *)
(* event meanwhile, uq_calendar_events_google_event_id refuses it, and the *)
(* UPDATE of the except clause fails in the aborted transaction.           *)
CreateRecords(a) ==
  LET g == making[a].gid IN
  /\ making[a].at = "recording" /\ ~ Locked(g)
  /\ row' = IF row[a].there /\ ~ row[g].there
            THEN [row EXCEPT ![a].gid = g, ![a].status = "synced"] ELSE row
  /\ making' = [making EXCEPT ![a].at = "done"]
  /\ UNCHANGED <<google, req, syncVars, mode, channelVars, boundVars,
                 staleVars>>

CreateFails(a) ==
  /\ making[a].at = "failing"
  /\ row' = IF row[a].there THEN [row EXCEPT ![a].status = "failed"] ELSE row
  /\ making' = [making EXCEPT ![a].at = "done"]
  /\ UNCHANGED <<google, req, syncVars, mode, channelVars, boundVars,
                 staleVars>>

-----------------------------------------------------------------------------
(* update_event of the title, or of who sees the row (type), which then is *)
(* all that is sent: the body has no title and no times, and Google        *)
(* refuses it.  Title 0 stands for that body.                              *)
StartsReq(r, x, at, title) ==
  req' = [req EXCEPT ![r] =
            [at |-> at, x |-> x, gid |-> row[x].gid, title |-> title,
             ok |-> FALSE]]

Edit(r, x) ==
  /\ req[r].at = "idle" /\ row[x].there /\ ~ Locked(x)
  /\ Edited
  /\ row' = [row EXCEPT ![x].title = edition', ![x].status = "pending"]
  /\ StartsReq(r, x, "sending", edition')
  /\ UNCHANGED <<google, making, syncVars, mode, channelVars, modes,
                 faults, staleVars>>

Show(r, x, type) ==
  /\ req[r].at = "idle" /\ row[x].there /\ ~ Locked(x)
  /\ row[x].type # type
  /\ row' = [row EXCEPT ![x].type = type, ![x].status = "pending"]
  /\ StartsReq(r, x, "sending", 0)
  /\ UNCHANGED <<google, making, syncVars, mode, channelVars, boundVars,
                 staleVars>>

(* The id and the mode are read after the commit of the edit.              *)
EditSends(r) ==
  LET g == row[req[r].x].gid
      Takes == google[g].st = "confirmed" /\ req[r].title # 0
      Ends(ok) == req' = [req EXCEPT ![r].at = "recording", ![r].ok = ok] IN
  /\ req[r].at = "sending"
  /\ \/ /\ g = None \/ ~ Sending
        /\ req' = [req EXCEPT ![r] = NoReq]
        /\ NoFault /\ Unchanged
     \/ /\ g # None /\ Sending /\ Takes
        /\ Changed(g, "confirmed", req[r].title)
        /\ \/ NoFault /\ Ends(TRUE)
           \/ Fault /\ Ends(FALSE)
     \/ /\ g # None /\ Sending
        /\ IF Takes THEN Fault ELSE NoFault
        /\ Ends(FALSE)
        /\ Unchanged
  /\ UNCHANGED <<row, making, syncVars, mode, channelVars, edition, modes, old>>

(* The UPDATE does not look at what the row says by now: it may be another *)
(* title, of a later edit.                                                 *)
EditRecords(r) ==
  LET x == req[r].x
      Overtaken == {g \in {row[x].gid} \ {None} :
                      row[x].title \notin {req[r].title, google[g].title}} IN
  /\ req[r].at = "recording" /\ ~ Locked(x)
  /\ row' = IF row[x].there
            THEN [row EXCEPT ![x].status =
                    IF req[r].ok THEN "synced" ELSE "failed"]
            ELSE row
  /\ req' = [req EXCEPT ![r] = NoReq]
  /\ apart' = IF req[r].ok THEN apart \cup Overtaken ELSE apart
  /\ UNCHANGED <<google, making, syncVars, mode, channelVars, boundVars, old>>

(* delete_event: the row goes first, and a failure at Google is logged.    *)
Delete(r, x) ==
  /\ req[r].at = "idle" /\ row[x].there /\ ~ Locked(x)
  /\ row' = [row EXCEPT ![x] = NoRow]
  /\ StartsReq(r, x, "deleting", 0)
  /\ UNCHANGED <<google, making, syncVars, mode, channelVars, boundVars,
                 staleVars>>

DeleteSends(r) ==
  LET g == req[r].gid
      There == g # None /\ google[g].st = "confirmed" IN
  /\ req[r].at = "deleting"
  /\ \/ /\ There /\ Sending
        /\ Changed(g, "cancelled", google[g].title)
        /\ NoFault
     \/ /\ IF There /\ Sending THEN Fault ELSE NoFault
        /\ apart' = IF There THEN apart \cup {g} ELSE apart
        /\ UNCHANGED google
  /\ req' = [req EXCEPT ![r] = NoReq]
  /\ UNCHANGED <<row, making, syncVars, mode, channelVars, edition, modes, old>>

(* The process dies between its commit and the rest of a request.          *)
RequestDies ==
  /\ Fault
  /\ \/ \E r \in Reqs :
          /\ req[r].at # "idle"
          /\ req' = [req EXCEPT ![r] = NoReq]
          /\ apart' = IF req[r].at = "deleting"
                       THEN apart \cup ({req[r].gid} \ {None}) ELSE apart
          /\ UNCHANGED making
     \/ \E a \in Own :
          /\ making[a].at \in {"sending", "recording", "failing"}
          /\ making' = [making EXCEPT ![a].at = "done"]
          /\ UNCHANGED <<req, apart>>
  /\ UNCHANGED <<google, row, syncVars, mode, channelVars, edition, modes, old>>

-----------------------------------------------------------------------------
(* The channel.  register_webhook opens one at Google, records it and      *)
(* closes the one that was recorded before; the sync token stays.          *)
At(p, at) == reg' = [reg EXCEPT ![p].at = at]
Ends(p) == reg' = [reg EXCEPT ![p] = NoReg]

Open(p) ==
  /\ reg[p].at = "opening"
  /\ \/ /\ mode # "off" /\ opened < MaxRegisters
        /\ opened' = opened + 1 /\ live' = live \cup {opened'}
        /\ reg' = [reg EXCEPT ![p] =
             [at |-> "recording", channel |-> opened', old |-> sub.channel]]
        /\ NoFault
     \/ /\ IF mode # "off" /\ opened < MaxRegisters THEN Fault ELSE NoFault
        /\ Ends(p) /\ UNCHANGED <<live, opened>>
  /\ UNCHANGED <<google, appVars, syncVars, mode, sub, edition, modes, staleVars>>

Record(p) ==
  /\ reg[p].at = "recording"
  /\ sub' = [sub EXCEPT !.channel = reg[p].channel]
  /\ IF reg[p].old = 0 THEN Ends(p) ELSE At(p, "replacing")
  /\ UNCHANGED <<google, appVars, syncVars, mode, live, opened, boundVars, staleVars>>

CloseOld(p) ==
  /\ reg[p].at = "replacing"
  /\ \/ NoFault /\ live' = live \ {reg[p].old}
     \/ Fault /\ UNCHANGED live
  /\ Ends(p)
  /\ UNCHANGED <<google, appVars, syncVars, mode, sub, opened, edition, modes,
                 staleVars>>

(* stop_webhook: the channel that is recorded is closed, and then whatever *)
(* is recorded is deleted.                                                 *)
CloseRecorded(p) ==
  /\ reg[p].at = "stopping"
  /\ \/ NoFault /\ live' = live \ {sub.channel}
     \/ Fault /\ UNCHANGED live
  /\ IF sub = NoSub THEN Ends(p) ELSE At(p, "forgetting")
  /\ UNCHANGED <<google, appVars, syncVars, mode, sub, opened, edition, modes,
                 staleVars>>

Forget(p) ==
  /\ reg[p].at = "forgetting"
  /\ sub' = NoSub
  /\ Ends(p)
  /\ UNCHANGED <<google, appVars, syncVars, mode, live, opened, boundVars, staleVars>>

(* update_sync_mode commits the mode before it looks after the channel.    *)
ChooseMode(p, m) ==
  /\ reg[p].at = "idle" /\ mode # "off" /\ mode # m
  /\ modes < MaxModes /\ modes' = modes + 1
  /\ mode' = m
  /\ At(p, IF m \in {"bidirectional", "read_only"} THEN "opening" ELSE "stopping")
  /\ UNCHANGED <<google, appVars, syncVars, sub, live, opened, edition,
                 faults, staleVars>>

(* disconnect deletes the configuration and leaves the channel; the        *)
(* callback of a new connection inserts one with the default mode.         *)
Reconnect ==
  /\ modes < MaxModes /\ modes' = modes + 1
  /\ mode' = IF mode = "off" THEN "bidirectional" ELSE "off"
  /\ UNCHANGED <<google, appVars, syncVars, channelVars, edition, faults,
                 staleVars>>

-----------------------------------------------------------------------------
(* The workers.  Every 15 minutes one registers a channel when none is     *)
(* recorded, and reads; a task, which an announced change or a new mode    *)
(* queues, reads, or is lost: it does what the next reading would do.      *)
(* Once a day a channel that is about to expire is replaced.               *)
Free(w) == worker[w] = Resting /\ reg[w].at = "idle"

Poll(w) ==
  /\ Free(w) /\ Importing
  /\ worker' = [worker EXCEPT ![w].at = "ready"]
  /\ IF sub = NoSub THEN At(w, "opening") ELSE UNCHANGED reg
  /\ UNCHANGED <<google, appVars, holder, mode, sub, live, opened,
                 boundVars, staleVars>>

Renew(w) ==
  /\ Free(w) /\ sub # NoSub /\ opened < MaxRegisters
  /\ At(w, "opening")
  /\ UNCHANGED <<google, appVars, syncVars, mode, sub, live, opened,
                 boundVars, staleVars>>

(* sync_tenant_from_google: pg_try_advisory_lock, or nothing.              *)
TryLock(w) ==
  /\ worker[w].at = "ready" /\ reg[w].at = "idle"
  /\ IF holder = None
     THEN holder' = w /\ worker' = [worker EXCEPT ![w].at = "locked"]
     ELSE worker' = [worker EXCEPT ![w] = Resting] /\ UNCHANGED holder
  /\ UNCHANGED <<google, appVars, mode, channelVars, boundVars, staleVars>>

(* Mutant of Rests: the advisory lock is not given back.                   *)
RestsWithTheLock(w) == worker' = [worker EXCEPT ![w] = Resting] /\ UNCHANGED holder

Rests(w) == holder' = None /\ worker' = [worker EXCEPT ![w] = Resting]

Present(g) == google[g].st = "confirmed" /\ google[g].title \notin old

(* Mutant of Got: the change at the token itself is not read.              *)
GotAfter(full) ==
  {g \in Gids : IF full THEN Present(g) ELSE google[g].mark > sub.token}

(* Without a token, or when Google answers 410, all events are read that   *)
(* are there and end after 30 days ago, else what has changed.  Any other  *)
(* error ends the task.                                                    *)
Got(full) ==
  {g \in Gids : IF full THEN Present(g) ELSE google[g].mark >= sub.token}

Fetch(w) ==
  /\ worker[w].at = "locked"
  /\ \/ (IF Importing THEN Fault ELSE NoFault) /\ Rests(w)
     \/ /\ Importing
        /\ \E full \in BOOLEAN :
             /\ IF full # (sub.token = 0) THEN full /\ Fault ELSE NoFault
             /\ worker' = [worker EXCEPT ![w] =
                  [Resting EXCEPT !.at = "applying", !.full = full,
                     !.token = LastMark + 1, !.past = old, !.todo = Got(full),
                     !.got = [g \in Got(full) |->
                               [st |-> google[g].st, title |-> google[g].title]]]]
        /\ UNCHANGED holder
  /\ UNCHANGED <<google, appVars, mode, channelVars, edition, modes, staleVars>>

(* upsert_from_google: an event made in the app is skipped ...             *)
Check(w, g) ==
  /\ worker[w].at = "applying" /\ g \in worker[w].todo
  /\ worker' = [worker EXCEPT
       ![w].todo = @ \ {g},
       ![w].at = IF AppOrigin(g) THEN "applying" ELSE "writing",
       ![w].item = IF AppOrigin(g) THEN None ELSE g]
  /\ UNCHANGED <<google, appVars, holder, mode, channelVars, boundVars,
                 staleVars>>

(* ... and written otherwise, unless the app has recorded it meanwhile.    *)
Write(w) ==
  LET g == worker[w].item
      Does == IF worker[w].got[g].st = "confirmed" THEN ~ AppOrigin(g)
              ELSE row[g].there IN
  /\ worker[w].at = "writing" /\ ~ Locked(g)
  /\ worker' = [worker EXCEPT
       ![w].at = "applying", ![w].item = None,
       ![w].staged = IF Does THEN @ \cup {g} ELSE @]
  /\ UNCHANGED <<google, appVars, holder, mode, channelVars, boundVars,
                 staleVars>>

(* Who sees a row that is there is not overwritten.                        *)
Upserted(r, g, title) ==
  IF r.there THEN [r EXCEPT !.title = title, !.status = "synced"]
  ELSE [there |-> TRUE, gid |-> g, title |-> title, status |-> "synced",
        type |-> "personal"]

(* A full reading deletes the rows it did not find, but for those with an  *)
(* end more than 30 days before it: these stay, and an event that Google   *)
(* has, with such an end, has no row.                                      *)
Commit(w) ==
  LET W == worker[w]
      Missed == IF W.full THEN Gids \ DOMAIN W.got ELSE {}
      Gone(g) == \/ g \in W.staged /\ W.got[g].st = "cancelled"
                 \/ g \in Missed /\ row[g].title \notin W.past
      LongOver == {g \in Missed : /\ google[g].mark < W.token
                                  /\ \/ google[g].title \in W.past
                                     \/ row[g].title \in W.past} IN
  /\ W.at = "applying" /\ W.todo = {}
  /\ row' = [x \in Rows |->
       IF x \in Gids /\ Gone(x) THEN NoRow
       ELSE IF x \in W.staged THEN Upserted(row[x], x, W.got[x].title)
       ELSE row[x]]
  /\ apart' = (apart \ W.staged) \cup LongOver
  /\ sub' = IF sub = NoSub THEN sub ELSE [sub EXCEPT !.token = W.token]
  /\ Rests(w)
  /\ UNCHANGED <<google, making, req, mode, live, reg, opened, boundVars, old>>

(* A dead process: its transaction, its lock and what it had not yet done  *)
(* are gone.                                                               *)
WorkerDies(p) ==
  /\ Fault
  /\ \/ reg[p].at # "idle"
     \/ p \in Workers /\ worker[p] # Resting
  /\ reg' = [reg EXCEPT ![p] = NoReg]
  /\ worker' = [w \in Workers |-> IF w = p THEN Resting ELSE worker[w]]
  /\ holder' = IF holder = p THEN None ELSE holder
  /\ UNCHANGED <<google, appVars, mode, sub, live, opened, edition, modes,
                 staleVars>>

-----------------------------------------------------------------------------
ChannelStep(p) ==
  Open(p) \/ Record(p) \/ CloseOld(p) \/ CloseRecorded(p) \/ Forget(p)
WorkerStep(w) ==
  TryLock(w) \/ Fetch(w) \/ (\E g \in Gids : Check(w, g)) \/ Write(w) \/ Commit(w)
CreateStep(a) == CreateSends(a) \/ CreateRecords(a) \/ CreateFails(a)
RequestStep(r) == EditSends(r) \/ EditRecords(r) \/ DeleteSends(r)

UserStep ==
  \/ \E a \in Own : Create(a)
  \/ \E r \in Reqs, x \in Rows :
       Edit(r, x) \/ Delete(r, x) \/ \E t \in {"shared", "personal"} : Show(r, x, t)
  \/ \E p \in Admins, m \in Modes : ChooseMode(p, m)
  \/ Reconnect

Next ==
  \/ \E g \in Gids : GoogleAddsOrEdits(g) \/ GoogleDeletes(g)
  \/ \E n \in 1..MaxEdition : Ages(n)
  \/ UserStep \/ RequestDies
  \/ \E a \in Own : CreateStep(a)
  \/ \E r \in Reqs : RequestStep(r)
  \/ \E p \in Registrars : ChannelStep(p) \/ WorkerDies(p)
  \/ \E w \in Workers : Poll(w) \/ Renew(w) \/ WorkerStep(w)

Spec == Init /\ [][Next]_vars

(* Requests and tasks go on while their process lives, and every 15        *)
(* minutes a worker reads.                                                 *)
Fairness ==
  /\ \A a \in Own : WF_vars(CreateStep(a))
  /\ \A r \in Reqs : WF_vars(RequestStep(r))
  /\ \A p \in Registrars : WF_vars(ChannelStep(p))
  /\ \A w \in Workers : WF_vars(WorkerStep(w))
  /\ WF_vars(\E w \in Workers : Poll(w))

FairSpec == Spec /\ Fairness

-----------------------------------------------------------------------------
(* Every variable has its type, and who holds the lock synchronises.       *)
Titles == 0..MaxEdition
TypeOK ==
  /\ google \in [Gids -> [st : {"none", "confirmed", "cancelled"},
                          title : Titles, mark : Nat]]
  /\ row \in [Rows -> [there : BOOLEAN, gid : Gids \cup {None}, title : Titles,
                       status : {"none", "pending", "synced", "failed"},
                       type : {"none", "shared", "personal"}]]
  /\ making \in [Own -> [at : {"new", "sending", "recording", "failing", "done"},
                         gid : Gids \cup {None}, title : Titles]]
  /\ req \in [Reqs -> [at : {"idle", "sending", "recording", "deleting"},
                       x : Rows \cup {None}, gid : Gids \cup {None},
                       title : Titles, ok : BOOLEAN]]
  /\ \A w \in Workers :
       /\ worker[w].at \in {"idle", "ready", "locked", "applying", "writing"}
       /\ worker[w].todo \cup worker[w].staged \subseteq DOMAIN worker[w].got
  /\ holder \in Workers \cup {None}
  /\ holder # None => worker[holder].at \in {"locked", "applying", "writing"}
  /\ mode \in Modes \cup {"off"}
  /\ sub \in [channel : 0..MaxRegisters, token : Nat]
  /\ live \subseteq 1..MaxRegisters
  /\ reg \in [Registrars -> [at : {"idle", "opening", "recording", "replacing",
                                   "stopping", "forgetting"},
                             channel : 0..MaxRegisters, old : 0..MaxRegisters]]
  /\ old \subseteq Titles /\ apart \subseteq Gids

(* What Google has is what the app shows: an event that was not made in    *)
(* the app has a row, which says so when it differs, and a deleted one has *)
(* none.  Left aside are an event that was deleted in the app alone, one   *)
(* whose overtaken edit said synced, and one that was long over when all   *)
(* were read, until it changes again at Google.                            *)
Mirrored(g) ==
  \/ g \in apart
  \/ CASE google[g].st = "none"      -> TRUE
       [] google[g].st = "cancelled" -> ~ row[g].there
       [] google[g].st = "confirmed" ->
            \/ AppOrigin(g)
            \/ /\ row[g].there
               /\ row[g].title = google[g].title \/ row[g].status # "synced"

(* Although announcements are lost, calls fail, tokens expire, processes   *)
(* die and users edit and delete meanwhile, the app catches up with Google *)
(* while it is to import: acceptance K1, K4, K5 and K8 of                  *)
(* docs/handoff/schedule-gcal-import/design.md.                            *)
RowsCatchUp == <>[](Importing => \A g \in Gids : Mirrored(g))

(* Who sees the row of an event that Google has is a choice of the user:   *)
(* no synchronisation changes it, nor takes the row away, which would lose *)
(* the choice: acceptance K4 of the same document.  An event that was      *)
(* moved at Google to a time long past may lose its row, and so may one    *)
(* that changes after a full reading that did not find it.                 *)
DeletedInApp(g) ==
  \E r \in Reqs : req[r].at = "idle" /\ req'[r].at = "deleting" /\ req'[r].x = g
ShownInApp(g) ==
  \E r \in Reqs : req[r].at = "idle" /\ req'[r].at = "sending" /\ req'[r].x = g
ChangedSinceMissed(g) ==
  \E w \in Workers :
    /\ worker[w].full /\ g \notin DOMAIN worker[w].got
    /\ google[g].mark >= worker[w].token
VisibilityIsKept ==
  [][\A g \in Gids :
       /\ row[g].there /\ Present(g)
       /\ ~ ChangedSinceMissed(g) /\ ~ DeletedInApp(g)
       => /\ row'[g].there
          /\ row'[g].type = row[g].type \/ ShownInApp(g)]_vars

(* The recorded channel is open, unless it is being closed or could not be *)
(* recorded as closed.                                                     *)
RecordedChannelIsOpen ==
  \/ sub.channel \in live \cup {0}
  \/ faults > 0
  \/ \E p \in Registrars : reg[p].at = "forgetting"

(* K6: an event made in the app is not shown twice.                        *)
ShownOnce ==
  \A a \in Own : making[a].gid # None =>
    ~ (row[a].there /\ row[making[a].gid].there)

=============================================================================
