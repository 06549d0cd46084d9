---------------------------- MODULE Distribution ----------------------------
(***************************************************************************)
(* The distribution of the current prices to a spreadsheet: its requests   *)
(* (src/backend/app/tasks/tcg_extraction.py, routers/item_corrections.py)  *)
(* and its runs (services/tcg_distribution_svc.py).                        *)
(*                                                                         *)
(* A corrected item or a repeated analysis reserves one distribution: a    *)
(* key in Redis merges the requests of a minute into one delayed message.  *)
(* An analysis that ends the extraction of a posting sends a message of    *)
(* its own.  A run holds back while postings are open or an analysis run   *)
(* is unfinished; else it reads the rows and replaces those of the tab by  *)
(* two calls of the Sheets API, clear and append.  Nothing keeps two runs  *)
(* from overlapping: the Celery worker has two processes, and a user can   *)
(* start a run through the API.                                            *)
(*                                                                         *)
(* An action is one transaction, one call to Redis, to the broker or to    *)
(* Sheets.  The rows are a version number: how many of the changes that    *)
(* ask for a distribution they contain.                                    *)
(***************************************************************************)
EXTENDS Naturals, Sequences

CONSTANTS
  Posts,         \* postings the extraction may work on
  Reruns,        \* single analyses repeated through the API (analysis_runs)
  Askers,        \* processes that may call schedule_distribution
  Runners,       \* processes that may execute run_distribution
  RetryMax,      \* _RETRY_MAX: tries of one write of the tab
  MaxData,       \* bound: changes of the rows
  MaxQueue,      \* bound: messages of one kind in the broker
  MaxHands,      \* bound: runs started by hand
  MaxFaults,     \* bound: messages not sent, calls of Sheets that fail
  MaxCrashes     \* bound: processes that die, tasks that fail, Redis failing

ASSUME RetryMaxAssumption == RetryMax \in Nat \ {0}
ASSUME BoundsAssumption ==
  /\ MaxData \in Nat
  /\ MaxQueue \in Nat
  /\ MaxHands \in Nat
  /\ MaxFaults \in Nat
  /\ MaxCrashes \in Nat

VARIABLES
  data,      \* version of the rows fetch_output_rows would return
  post,      \* how far the extraction of a posting is
  rerun,     \* the row of analysis_runs: none, open, completed
  key,       \* DISTRIBUTION_SCHEDULE_KEY in Redis
  delayed,   \* messages tcg.scheduled_distribution
  autos,     \* messages tcg.auto_distribute_after_analysis
  asker,     \* step of schedule_distribution
  pc, by,    \* step of a run, and what started it
  got,       \* rows the run has read
  tries,     \* failed tries of the write
  ok,        \* outcome of the write
  sheet,     \* blocks of rows in the tab
  result,    \* tcg_distribution_targets.last_result
  seen,      \* newest rows any run has read
  heldAt,    \* rows at the last run that was held back
  hands, faults, crashes

askVars == <<key, delayed, autos, asker>>
runVars == <<pc, by, got, tries, ok>>
sheetVars == <<sheet, result>>
workVars == <<data, post, rerun>>
readVars == <<seen, heldAt>>
budgetVars == <<hands, faults, crashes>>
vars == <<askVars, runVars, sheetVars, workVars, readVars, budgetVars>>

PostState == {"new", "open", "saved", "analysed", "closed"}
RunStep == {"idle", "releasing", "runs", "jobs", "rows", "clearing",
            "appending", "recording"}

(* Versions of the rows.                                                   *)
Rows == 0..MaxData

WorkTypes ==
  /\ data \in Rows
  /\ post \in [Posts -> PostState]
  /\ rerun \in [Reruns -> {"none", "open", "completed"}]

AskTypes ==
  /\ key \in {"absent", "set"}
  /\ delayed \in 0..MaxQueue
  /\ autos \in 0..MaxQueue
  /\ asker \in [Askers -> {"idle", "asking", "sending"}]

RunTypes ==
  /\ pc \in [Runners -> RunStep]
  /\ by \in [Runners -> {"none", "auto", "delayed", "hand"}]
  /\ got \in [Runners -> Rows]
  /\ tries \in [Runners -> 0..(RetryMax - 1)]
  /\ ok \in [Runners -> BOOLEAN]

SheetTypes == sheet \in Seq(Rows) /\ result \in {"none", "ok", "error"}

ReadTypes == seen \in Rows /\ heldAt \in Rows

BudgetTypes ==
  /\ hands \in 0..MaxHands
  /\ faults \in 0..MaxFaults
  /\ crashes \in 0..MaxCrashes

TypeOK ==
  /\ WorkTypes /\ AskTypes /\ RunTypes
  /\ SheetTypes /\ ReadTypes /\ BudgetTypes

Init ==
  /\ data = 0
  /\ post = [p \in Posts |-> "new"]
  /\ rerun = [u \in Reruns |-> "none"]
  /\ key = "absent"
  /\ delayed = 0
  /\ autos = 0
  /\ asker = [a \in Askers |-> "idle"]
  /\ pc = [r \in Runners |-> "idle"]
  /\ by = [r \in Runners |-> "none"]
  /\ got = [r \in Runners |-> 0]
  /\ tries = [r \in Runners |-> 0]
  /\ ok = [r \in Runners |-> FALSE]
  /\ sheet = <<>>
  /\ result = "none"
  /\ seen = 0
  /\ heldAt = 0
  /\ hands = 0
  /\ faults = 0
  /\ crashes = 0

-----------------------------------------------------------------------------
(* Helpers                                                                 *)

Fault ==
  faults < MaxFaults /\ faults' = faults + 1 /\ UNCHANGED <<hands, crashes>>
Lapse ==
  crashes < MaxCrashes /\ crashes' = crashes + 1 /\ UNCHANGED <<hands, faults>>

(* A call that works, or fails as one of the allowed failures.             *)
Try(works, Failure) == IF works THEN UNCHANGED budgetVars ELSE Failure

SendAuto(sent) ==
  autos < MaxQueue /\ autos' = IF sent THEN autos + 1 ELSE autos
SendDelayed(sent) ==
  delayed < MaxQueue /\ delayed' = IF sent THEN delayed + 1 ELSE delayed

GoTo(r, step) == pc' = [pc EXCEPT ![r] = step]

(* The run ends and its process forgets it.                                *)
Free(r) ==
  /\ GoTo(r, "idle")
  /\ by' = [by EXCEPT ![r] = "none"]
  /\ got' = [got EXCEPT ![r] = 0]
  /\ tries' = [tries EXCEPT ![r] = 0]
  /\ ok' = [ok EXCEPT ![r] = FALSE]

-----------------------------------------------------------------------------
(* What the extraction does with a posting, as far as it matters here      *)

(* Its job becomes pending or running.                                     *)
OpenPost(p) ==
  /\ post[p] = "new"
  /\ post' = [post EXCEPT ![p] = "open"]
  /\ UNCHANGED <<data, rerun, askVars, runVars, sheetVars, readVars,
                 budgetVars>>

(* run_v102_extraction commits the job as done or empty.                   *)
SavePost(p) ==
  /\ post[p] = "open"
  /\ post' = [post EXCEPT ![p] = "saved"]
  /\ UNCHANGED <<data, rerun, askVars, runVars, sheetVars, readVars,
                 budgetVars>>

(* The system stage commits its results.                                   *)
AnalysePost(p) ==
  /\ post[p] = "saved"
  /\ data < MaxData
  /\ data' = data + 1
  /\ post' = [post EXCEPT ![p] = "analysed"]
  /\ UNCHANGED <<rerun, askVars, runVars, sheetVars, readVars, budgetVars>>

(* _enqueue_auto_distribute; a broker that does not answer is ignored.     *)
AskAuto(p) ==
  /\ post[p] = "analysed"
  /\ post' = [post EXCEPT ![p] = "closed"]
  /\ \E sent \in BOOLEAN : SendAuto(sent) /\ Try(sent, Fault)
  /\ UNCHANGED <<data, rerun, key, delayed, asker, runVars, sheetVars,
                 readVars>>

(* The job ends as error, filtered or blank, or its analysis fails: no     *)
(* distribution is asked for.                                              *)
ClosePost(p) ==
  /\ post[p] \in {"open", "saved"}
  /\ post' = [post EXCEPT ![p] = "closed"]
  /\ UNCHANGED <<data, rerun, askVars, runVars, sheetVars, readVars,
                 budgetVars>>

(* _run_reanalyze_sync inserts an open row, and completes it in a later    *)
(* transaction - or never, when the analysis in between fails.  It asks    *)
(* for no distribution, so that data does not count what it changes.       *)
BeginRerun(u) ==
  /\ rerun[u] = "none"
  /\ rerun' = [rerun EXCEPT ![u] = "open"]
  /\ UNCHANGED <<data, post, askVars, runVars, sheetVars, readVars,
                 budgetVars>>

CompleteRerun(u) ==
  /\ rerun[u] = "open"
  /\ rerun' = [rerun EXCEPT ![u] = "completed"]
  /\ UNCHANGED <<data, post, askVars, runVars, sheetVars, readVars,
                 budgetVars>>

-----------------------------------------------------------------------------
(* schedule_distribution                                                   *)

(* A correction is saved, or reanalyze_v102_job commits its results; both  *)
(* call schedule_distribution next.                                        *)
Correct(a) ==
  /\ asker[a] = "idle"
  /\ data < MaxData
  /\ data' = data + 1
  /\ asker' = [asker EXCEPT ![a] = "asking"]
  /\ UNCHANGED <<post, rerun, key, delayed, autos, runVars, sheetVars,
                 readVars, budgetVars>>

(* Mutant of Reserve: SET without NX.                                      *)
ReserveAlways(a) ==
  /\ asker[a] = "asking"
  /\ key' = "set"
  /\ asker' = [asker EXCEPT ![a] = "sending"]
  /\ UNCHANGED <<delayed, autos, workVars, runVars, sheetVars, readVars,
                 budgetVars>>

(* SET NX: whoever gets the key sends the message, the others rely on it.  *)
Reserve(a) ==
  /\ asker[a] = "asking"
  /\ key' = "set"
  /\ asker' = [asker EXCEPT ![a] = IF key = "set" THEN "idle" ELSE "sending"]
  /\ UNCHANGED <<delayed, autos, workVars, runVars, sheetVars, readVars,
                 budgetVars>>

(* Mutant of SendReserved: the key stays although nothing was sent.        *)
SendOrKeep(a) ==
  /\ asker[a] = "sending"
  /\ \E sent \in BOOLEAN : SendDelayed(sent) /\ Try(sent, Fault)
  /\ asker' = [asker EXCEPT ![a] = "idle"]
  /\ UNCHANGED <<key, autos, workVars, runVars, sheetVars, readVars>>

(* apply_async(countdown=60); a failure gives the key back.                *)
SendReserved(a) ==
  /\ asker[a] = "sending"
  /\ \E sent \in BOOLEAN :
       /\ SendDelayed(sent) /\ Try(sent, Fault)
       /\ key' = IF sent THEN key ELSE "absent"
  /\ asker' = [asker EXCEPT ![a] = "idle"]
  /\ UNCHANGED <<autos, workVars, runVars, sheetVars, readVars>>

(* Redis does not answer, or the process dies before it has sent.          *)
AskLost(a) ==
  /\ asker[a] # "idle"
  /\ Lapse
  /\ asker' = [asker EXCEPT ![a] = "idle"]
  /\ UNCHANGED <<key, delayed, autos, workVars, runVars, sheetVars, readVars>>

(* The message the key stands for: being sent, waiting, or just taken.     *)
Backed ==
  \/ delayed > 0
  \/ \E a \in Askers : asker[a] = "sending"
  \/ \E r \in Runners : pc[r] = "releasing"

(* DISTRIBUTION_SCHEDULE_KEY_TTL_SECONDS pass.  A message that waits for   *)
(* ten minutes instead of one counts as a failure.                         *)
KeyExpires ==
  /\ key = "set"
  /\ key' = "absent"
  /\ Try(~ Backed, Lapse)
  /\ UNCHANGED <<delayed, autos, asker, workVars, runVars, sheetVars,
                 readVars>>

-----------------------------------------------------------------------------
(* A run                                                                   *)

(* auto_distribute_after_analysis_task                                     *)
StartAuto(r) ==
  /\ pc[r] = "idle" /\ autos > 0
  /\ autos' = autos - 1
  /\ GoTo(r, "runs")
  /\ by' = [by EXCEPT ![r] = "auto"]
  /\ UNCHANGED <<key, delayed, asker, got, tries, ok, workVars, sheetVars,
                 readVars, budgetVars>>

(* scheduled_distribution_task                                             *)
StartDelayed(r) ==
  /\ pc[r] = "idle" /\ delayed > 0
  /\ delayed' = delayed - 1
  /\ GoTo(r, "releasing")
  /\ by' = [by EXCEPT ![r] = "delayed"]
  /\ UNCHANGED <<key, autos, asker, got, tries, ok, workVars, sheetVars,
                 readVars, budgetVars>>

(* A user asks the API for a run.                                          *)
StartByHand(r) ==
  /\ pc[r] = "idle" /\ hands < MaxHands
  /\ hands' = hands + 1
  /\ GoTo(r, "runs")
  /\ by' = [by EXCEPT ![r] = "hand"]
  /\ UNCHANGED <<askVars, got, tries, ok, workVars, sheetVars, readVars,
                 faults, crashes>>

(* Mutant of Release: the key is left to its time to live.                 *)
ReleaseNothing(r) ==
  /\ pc[r] = "releasing"
  /\ GoTo(r, "runs")
  /\ UNCHANGED <<askVars, by, got, tries, ok, workVars, sheetVars, readVars,
                 budgetVars>>

(* _release_distribution_schedule before the run; a failure is ignored.    *)
Release(r) ==
  /\ pc[r] = "releasing"
  /\ \E works \in BOOLEAN :
       /\ key' = IF works THEN "absent" ELSE key
       /\ Try(works, Lapse)
  /\ GoTo(r, "runs")
  /\ UNCHANGED <<delayed, autos, asker, by, got, tries, ok, workVars,
                 sheetVars, readVars>>

(* The run is held back: the task ends without an error.                   *)
HoldBack(r) ==
  /\ heldAt' = data
  /\ Free(r)
  /\ UNCHANGED seen

PassOn(r, step) ==
  /\ GoTo(r, step)
  /\ UNCHANGED <<by, got, tries, ok, readVars>>

(* Safety device 8: is an analysis run unfinished?                         *)
CheckRuns(r) ==
  /\ pc[r] = "runs"
  /\ IF \E u \in Reruns : rerun[u] = "open" THEN HoldBack(r)
                                            ELSE PassOn(r, "jobs")
  /\ UNCHANGED <<askVars, workVars, sheetVars, budgetVars>>

(* Safety device 8b: is a job pending or running?                          *)
CheckJobs(r) ==
  /\ pc[r] = "jobs"
  /\ IF \E p \in Posts : post[p] = "open" THEN HoldBack(r)
                                          ELSE PassOn(r, "rows")
  /\ UNCHANGED <<askVars, workVars, sheetVars, budgetVars>>

(* fetch_output_rows; the rows stay in memory for all tries of the write.  *)
ReadRows(r) ==
  /\ pc[r] = "rows"
  /\ got' = [got EXCEPT ![r] = data]
  /\ seen' = data
  /\ GoTo(r, "clearing")
  /\ UNCHANGED <<askVars, by, tries, ok, workVars, sheetVars, heldAt,
                 budgetVars>>

(* Mutant of WriteFailed: one try more.                                    *)
WriteFailedLate(r) ==
  IF tries[r] < RetryMax
    THEN /\ tries' = [tries EXCEPT ![r] = @ + 1]
         /\ GoTo(r, "clearing")
    ELSE GoTo(r, "recording") /\ UNCHANGED tries

(* Mutant of WriteFailed: the next try does not clear the tab.             *)
WriteFailedAppend(r) ==
  IF tries[r] + 1 < RetryMax
    THEN /\ tries' = [tries EXCEPT ![r] = @ + 1]
         /\ GoTo(r, "appending")
    ELSE GoTo(r, "recording") /\ UNCHANGED tries

(* The next of _RETRY_MAX tries starts from the beginning.                 *)
WriteFailed(r) ==
  IF tries[r] + 1 < RetryMax
    THEN /\ tries' = [tries EXCEPT ![r] = @ + 1]
         /\ GoTo(r, "clearing")
    ELSE GoTo(r, "recording") /\ UNCHANGED tries

(* worksheet.clear(); a call that fails may have had its effect.           *)
Clear(r) ==
  /\ pc[r] = "clearing"
  /\ \/ /\ sheet' = <<>>
        /\ GoTo(r, "appending")
        /\ UNCHANGED <<tries, budgetVars>>
     \/ /\ sheet' \in {sheet, <<>>}
        /\ WriteFailed(r) /\ Fault
  /\ UNCHANGED <<askVars, by, got, ok, workVars, result, readVars>>

(* worksheet.append_rows()                                                 *)
AppendRows(r) ==
  /\ pc[r] = "appending"
  /\ \/ /\ sheet' = Append(sheet, got[r])
        /\ ok' = [ok EXCEPT ![r] = TRUE]
        /\ GoTo(r, "recording")
        /\ UNCHANGED <<tries, budgetVars>>
     \/ /\ sheet' \in {sheet, Append(sheet, got[r])}
        /\ WriteFailed(r) /\ Fault
        /\ UNCHANGED ok
  /\ UNCHANGED <<askVars, by, got, workVars, result, readVars>>

(* _record_distribution_result                                             *)
Record(r) ==
  /\ pc[r] = "recording"
  /\ result' = IF ok[r] THEN "ok" ELSE "error"
  /\ Free(r)
  /\ UNCHANGED <<askVars, workVars, sheet, readVars, budgetVars>>

(* The process dies or the task fails; the broker delivers its message     *)
(* again, or Celery retries it, or it was the last try.                    *)
Break(r) ==
  /\ pc[r] # "idle"
  /\ Lapse
  /\ \E again \in BOOLEAN :
       \/ by[r] = "auto" /\ SendAuto(again) /\ UNCHANGED delayed
       \/ by[r] = "delayed" /\ SendDelayed(again) /\ UNCHANGED autos
       \/ by[r] = "hand" /\ UNCHANGED <<autos, delayed>>
  /\ Free(r)
  /\ UNCHANGED <<key, asker, workVars, sheetVars, readVars>>

-----------------------------------------------------------------------------
Extract(p) == OpenPost(p) \/ SavePost(p) \/ AnalysePost(p) \/ ClosePost(p)

Ask(a) == Reserve(a) \/ SendReserved(a)

Start(r) == StartAuto(r) \/ StartDelayed(r)

Run(r) ==
  \/ Release(r)
  \/ CheckRuns(r)
  \/ CheckJobs(r)
  \/ ReadRows(r)
  \/ Clear(r)
  \/ AppendRows(r)
  \/ Record(r)

Next ==
  \/ \E p \in Posts : Extract(p) \/ AskAuto(p)
  \/ \E u \in Reruns : BeginRerun(u) \/ CompleteRerun(u)
  \/ \E a \in Askers : Correct(a) \/ Ask(a) \/ AskLost(a)
  \/ KeyExpires
  \/ \E r \in Runners : Start(r) \/ StartByHand(r) \/ Run(r) \/ Break(r)

Spec == Init /\ [][Next]_vars

(* Fairness: a process finishes what it began (the calls have timeouts,    *)
(* the tasks time limits), a worker is free for each message in the end,   *)
(* and Redis drops an expired key.  Nothing is assumed of the extraction,  *)
(* of the users or of a repeated analysis.                                 *)
Fairness ==
  /\ \A p \in Posts : WF_vars(AskAuto(p))
  /\ \A a \in Askers : WF_vars(Ask(a))
  /\ \A r \in Runners : WF_vars(Run(r))
  /\ SF_vars(\E r \in Runners : StartAuto(r))
  /\ SF_vars(\E r \in Runners : StartDelayed(r))
  /\ WF_vars(KeyExpires)

FairSpec == Spec /\ Fairness

-----------------------------------------------------------------------------
(* Properties                                                              *)

(* The key never stands for a message that does not exist, unless a        *)
(* process died or Redis failed: the comment in schedule_distribution says *)
(* that a key left alone would keep the next correction from asking.       *)
KeyIsBacked == key = "set" => Backed \/ crashes > 0

(* However many corrections ask at once, one delayed distribution is under *)
(* way (D-K6 of docs/handoff/v102-prod-switch/design.md).                  *)
RequestsAreMerged ==
  \/ faults + crashes > 0
  \/ /\ delayed <= 1
     /\ delayed = 1 => \A a \in Askers : asker[a] # "sending"
     /\ \A a, b \in Askers :
          asker[a] = "sending" /\ asker[b] = "sending" => a = b

(* Somebody still has to read the rows.                                    *)
BeforeRead == {"releasing", "runs", "jobs", "rows"}
Waiting ==
  \/ delayed > 0
  \/ autos > 0
  \/ \E a \in Askers : asker[a] # "idle"
  \/ \E p \in Posts : post[p] = "analysed"
  \/ \E r \in Runners : pc[r] \in BeforeRead

Spared == faults = 0 /\ crashes = 0

(* A change is read by a run that starts after it, or that run was held    *)
(* back, or it is still to come: the release of the key before the run     *)
(* loses no correction that was merged into another one's request.         *)
NoChangeIsMissed ==
  Spared /\ ~ Waiting => data = seen \/ data = heldAt

(* What is recorded as written is what stands in the tab: _write_tab_sync  *)
(* replaces the whole of it.                                               *)
WrittenIsWhatWasRead ==
  \A r \in Runners : pc[r] = "recording" /\ ok[r] => sheet = <<got[r]>>

Quiet == Spared /\ ~ Waiting /\ \A r \in Runners : pc[r] = "idle"

(* Once things are quiet the newest rows that a run has read are in the    *)
(* tab: the docstring of scheduled_distribution_task says that corrections *)
(* made after a run began to read are not lost.                            *)
TabShowsNewestRead ==
  Quiet /\ seen > 0 => \E i \in 1..Len(sheet) : sheet[i] = seen

(* A run that was held back is made up for once the extractions that held  *)
(* it have ended: the docstring of auto_distribute_after_analysis_task     *)
(* says that the end of the next extraction triggers it again.             *)
HeldIsMadeUpFor ==
  (/\ Quiet
   /\ \A p \in Posts : post[p] = "closed"
   /\ \A u \in Reruns : rerun[u] = "none") => seen = data

(* Without a failure of Sheets or of a process, every change is read, or a *)
(* run that would have read it was held back.                              *)
ChangesAreRead ==
  \A v \in 1..MaxData :
    data = v ~> seen >= v \/ heldAt >= v \/ ~ Spared

(* No process that dies and no failure of Redis blocks the requests for    *)
(* ever: the key goes.                                                     *)
KeyGoes == key = "set" ~> key = "absent"

(* Without a failure of Sheets every change is read, and whatever fails the *)
(* key goes again.                                                          *)
RequestsAreServed == ChangesAreRead /\ KeyGoes

=============================================================================
