------------------------------ MODULE MCUpkeep ------------------------------
(***************************************************************************)
(* What the workers have to bring about in the end, for TLC: requests of   *)
(* distributions (Distribution) and the calendar that follows Google       *)
(* (CalendarSync).                                                         *)
(*                                                                         *)
(* A behaviour is one of the part it begins with, and the other rests in   *)
(* its initial state.    In it no action that is to be fair is possible,   *)
(* except that a worker could read Google: its fairness names its part.    *)
(***************************************************************************)
EXTENDS Distribution, TLC

CONSTANTS
  Gids, Own, Reqs, Workers, Admins, None,
  MaxEdition, MaxModes, MaxRegisters, MaxFailures,    \* of CalendarSync
  FirstWorker, FirstRequest

VARIABLES
  part,
  google, row, making, req, worker, holder, mode, sub, live, opened, reg,
  edition, modes, failures, old, apart

calendarVars == <<google, row, making, req, worker, holder, mode, sub, live,
                  opened, reg, edition, modes, failures, old, apart>>

Calendar == INSTANCE CalendarSync
              WITH MaxFaults <- MaxFailures, faults <- failures

ASSUME UpkeepAssumption ==
  /\ Calendar!CalendarAssumption
  /\ FirstWorker \subseteq Workers
  /\ FirstRequest \subseteq Reqs

CalendarParts == {"events", "edits", "ends", "modes"}
Parts == {"distribution"} \cup CalendarParts

InitOfPart ==
  /\ part \in Parts
  /\ Init /\ Calendar!Init
  /\ part # "modes" => opened = 1

Distributing == Next /\ UNCHANGED calendarVars
Reading == Calendar!Next /\ UNCHANGED vars

(* One worker reads, with a channel that stays.  One user asks, and a row  *)
(* is made, one after the other; or two edit; or one edits or shows,       *)
(* while the ends of events become long past and Google may not know the   *)
(* token any more.  Calls of Google and processes fail.                    *)
OneReads ==
  /\ \A w \in Workers \ FirstWorker : UNCHANGED <<worker[w], reg[w]>>
  /\ UNCHANGED <<modes, opened>>
WorkerIsWell == failures' = failures \/ UNCHANGED worker
TwoEditions == edition' < MaxEdition
OneAsks ==
  /\ WorkerIsWell /\ TwoEditions /\ UNCHANGED old
  /\ \A r \in Reqs \ FirstRequest : UNCHANGED req[r]
  /\ (\E e \in Own : making[e].at \notin {"new", "done"}) => UNCHANGED req
TwoEdit ==
  /\ WorkerIsWell /\ UNCHANGED <<making, old>>
  /\ \A r \in Reqs : req'[r].at = "idle" \/ req'[r].title # 0
TheirEnds ==
  /\ TwoEditions /\ UNCHANGED making
  /\ \A r \in Reqs \ FirstRequest : UNCHANGED req[r]
  /\ \A r \in Reqs : req'[r].at # "deleting"
  /\ old' \ old \subseteq 1..edition + 1

(* Or the mode changes, and all the workers read and may fail.             *)
NobodyAsks == UNCHANGED <<making, req, old>> /\ edition' <= 1

NextOfPart ==
  /\ UNCHANGED part
  /\ \/ part = "distribution" /\ Distributing
     \/ part = "events" /\ Reading /\ OneReads /\ OneAsks
     \/ part = "edits" /\ Reading /\ OneReads /\ TwoEdit
     \/ part = "ends" /\ Reading /\ OneReads /\ TheirEnds
     \/ part = "modes" /\ Reading /\ NobodyAsks

(* Every 15 minutes a worker reads, and it goes on while it lives.         *)
CalendarIsFair ==
  /\ \A a \in Own : WF_calendarVars(Calendar!CreateStep(a))
  /\ \A r \in Reqs : WF_calendarVars(Calendar!RequestStep(r))
  /\ \A p \in Workers \cup Admins : WF_calendarVars(Calendar!ChannelStep(p))
  /\ \A w \in Workers : WF_calendarVars(Calendar!WorkerStep(w))
  /\ WF_calendarVars(part \in CalendarParts /\ \E w \in Workers : Calendar!Poll(w))

Upkeep ==
  /\ InitOfPart
  /\ [][NextOfPart]_<<part, vars, calendarVars>>
  /\ Fairness /\ CalendarIsFair

-----------------------------------------------------------------------------
(* Every variable of the part that runs has its type.                      *)
TypesOK ==
  /\ part \in Parts
  /\ part = "distribution" => TypeOK
  /\ part \in CalendarParts => Calendar!TypeOK

(* Although announcements are lost, calls fail, tokens expire, workers die *)
(* and users edit and delete meanwhile, the calendar catches up with       *)
(* Google, no synchronisation changes who sees an event or takes away one  *)
(* that Google has, and the channel that is recorded is open               *)
(* (CalendarSync).                                                         *)
CalendarFollows ==
  /\ part \in CalendarParts => Calendar!RowsCatchUp
  /\ Calendar!VisibilityIsKept
  /\ []Calendar!RecordedChannelIsOpen

=============================================================================
