------------------------- MODULE ExtractionPipeline -------------------------
(***************************************************************************)
(* The extraction of supplier postings (src/backend/app/tasks/             *)
(* tcg_extraction.py, tcg_extraction_recovery.py, services/                *)
(* tcg_extraction_record_svc.py, line_analysis_v102_svc.py and             *)
(* tcg_diagnostics_svc.py).                                                *)
(*                                                                         *)
(* Every posting has one row in extraction_jobs.  Celery workers take      *)
(* messages naming a posting, claim its pending job by inserting an        *)
(* extraction attempt, call Gemini outside any transaction, store the      *)
(* items under the row lock of the job and run the system stage (the       *)
(* analysis).  A periodic task recovers what stopped on the way, and an    *)
(* operator may retry a job by hand.  Messages may be lost or delivered    *)
(* twice, processes may die between any two transactions, and a process    *)
(* that was frozen may come back after its job was given to another.       *)
(*                                                                         *)
(* An action is one database transaction (or one statement where           *)
(* READ COMMITTED lets another transaction in between), one broker call    *)
(* or one answer of Gemini.                                                *)
(***************************************************************************)
EXTENDS Naturals, FiniteSets

CONSTANTS
  Jobs,          \* postings; extraction_jobs holds one row for each
  Workers,       \* processes of the Celery worker
  Operators,     \* requests to retry jobs by hand
  EmptyText,     \* postings whose text is blank
  NoJob,         \* "no posting", in the registers of the processes
  ApiRetryMax,   \* API_ERROR_RETRY_MAX_ATTEMPTS
  MaxAttempts,   \* bound: attempts per job
  MaxQueue,      \* bound: copies of one message in the broker
  MaxFaults,     \* bound: crashes, lost writes, lost messages, late processes
  MaxManual,     \* bound: retries by hand
  MaxRules       \* bound: changes of the exclusion rules

ASSUME EmptyTextAssumption == EmptyText \subseteq Jobs
ASSUME NoJobAssumption == NoJob \notin Jobs
ASSUME MaxAttemptsAssumption == MaxAttempts \in Nat
ASSUME BoundsAssumption ==
  /\ ApiRetryMax \in Nat \ {0}
  /\ MaxQueue \in Nat
  /\ MaxFaults \in Nat
  /\ MaxManual \in Nat
  /\ MaxRules \in Nat

VARIABLES
  status,    \* extraction_jobs.status; "none" before the import
  errmsg,    \* extraction_jobs.error_message, "null" for NULL
  last,      \* number of extraction_attempts rows of the job
  phase,     \* extraction_attempts.phase by number; see Phase
  items,     \* attempt whose extraction_items are stored, 0 for no items
  analysed,  \* the system stage left its results (or its reason) on the job
  active,    \* source_messages.is_active and not superseded
  stale,     \* 15 minutes passed since the job and its last attempt began
  days,      \* whole days since the job was created, of which 2 are told apart
  notified,  \* the administrators were told that the job was given up
  ruled,     \* an exclusion rule matches the text of the posting
  queue,     \* messages tcg.extract_source_message, by posting
  requeue,   \* messages tcg.v102_reanalyze_after_correction, by posting
  pc, job, att, code,   \* the workers: step, posting, attempt, failure code
  rpc, found, todo,     \* tcg.recover_stale_extraction_jobs
  seen,      \* operator: the job it read as failed
  faults, manual, rules \* what is spent of the bounds

jobVars == <<status, errmsg, last, phase, items, analysed>>
postVars == <<active, days, notified, ruled>>
brokerVars == <<queue, requeue>>
workerVars == <<pc, job, att, code>>
recoveryVars == <<rpc, found, todo>>
budgetVars == <<faults, manual, rules>>
vars == <<jobVars, postVars, stale, brokerVars, workerVars, recoveryVars,
          seen, budgetVars>>

Status == {"none", "pending", "running", "done", "empty", "filtered", "error"}

(* The codes of error_message the code tells apart; every other one        *)
(* (SOFT_TIME_LIMIT, RESPONSE_TOO_LARGE, RECORD_WRITE_FAILED ...) is OTHER. *)
ErrorMessage == {"null", "API_ERROR", "OTHER",
                 "ANALYSIS_FAILED", "ANALYSIS_FAILED_RETRIED"}

(* "rejected" is phase 'failed' with a transient category (HTTP 429 or     *)
(* 5xx, timeout) in validation_result, "failed" any other failure.         *)
Phase == {"none", "started", "received", "completed", "failed", "rejected"}
Live == {"started", "received"}

Code == {"null", "transient", "permanent", "other"}

WorkerStep == {"idle", "chosen", "calling", "replied", "failing", "saved",
               "reanalysing"}
RecoveryStep == {"idle", "running", "pending", "analysis", "mark", "reset",
                 "enqueue"}

TypeOK ==
  /\ status \in [Jobs -> Status]
  /\ errmsg \in [Jobs -> ErrorMessage]
  /\ last \in [Jobs -> 0..MaxAttempts]
  /\ phase \in [Jobs -> [1..MaxAttempts -> Phase]]
  /\ items \in [Jobs -> 0..MaxAttempts]
  /\ analysed \in [Jobs -> BOOLEAN]
  /\ active \in [Jobs -> BOOLEAN]
  /\ stale \in [Jobs -> BOOLEAN]
  /\ days \in [Jobs -> 0..2]
  /\ notified \in [Jobs -> BOOLEAN]
  /\ ruled \in [Jobs -> BOOLEAN]
  /\ queue \in [Jobs -> 0..MaxQueue]
  /\ requeue \in [Jobs -> 0..MaxQueue]
  /\ pc \in [Workers -> WorkerStep]
  /\ job \in [Workers -> Jobs \cup {NoJob}]
  /\ att \in [Workers -> 0..MaxAttempts]
  /\ code \in [Workers -> Code]
  /\ rpc \in RecoveryStep
  /\ found \in SUBSET Jobs
  /\ todo \in SUBSET Jobs
  /\ seen \in [Operators -> Jobs \cup {NoJob}]
  /\ faults \in 0..MaxFaults
  /\ manual \in 0..MaxManual
  /\ rules \in 0..MaxRules

Init ==
  /\ status = [j \in Jobs |-> "none"]
  /\ errmsg = [j \in Jobs |-> "null"]
  /\ last = [j \in Jobs |-> 0]
  /\ phase = [j \in Jobs |-> [k \in 1..MaxAttempts |-> "none"]]
  /\ items = [j \in Jobs |-> 0]
  /\ analysed = [j \in Jobs |-> FALSE]
  /\ active = [j \in Jobs |-> TRUE]
  /\ stale = [j \in Jobs |-> FALSE]
  /\ days = [j \in Jobs |-> 0]
  /\ notified = [j \in Jobs |-> FALSE]
  /\ ruled \in [Jobs -> BOOLEAN]
  /\ queue = [j \in Jobs |-> 0]
  /\ requeue = [j \in Jobs |-> 0]
  /\ pc = [w \in Workers |-> "idle"]
  /\ job = [w \in Workers |-> NoJob]
  /\ att = [w \in Workers |-> 0]
  /\ code = [w \in Workers |-> "null"]
  /\ rpc = "idle"
  /\ found = {}
  /\ todo = {}
  /\ seen = [o \in Operators |-> NoJob]
  /\ faults = 0
  /\ manual = 0
  /\ rules = 0

-----------------------------------------------------------------------------
(* Helpers                                                                 *)

(* The latest attempt of a job is in one of these phases.                  *)
LatestIn(j, phases) == last[j] > 0 /\ phase[j][last[j]] \in phases

(* Mutant of Owned: a newer attempt does not fence this one.               *)
OwnedWithoutFence(w) ==
  /\ job[w] \in Jobs
  /\ status[job[w]] = "running"
  /\ att[w] > 0 /\ phase[job[w]][att[w]] \in Live

(* AttemptRecorder._owned: the job is running, the attempt of the worker   *)
(* has not ended, and no child attempt has been inserted after it.         *)
Owned(w) ==
  /\ job[w] \in Jobs
  /\ status[job[w]] = "running"
  /\ att[w] = last[job[w]]
  /\ LatestIn(job[w], Live)

(* A worker is still inside the latest attempt of the job.                 *)
InAttempt(w, j) == job[w] = j /\ att[w] = last[j]
                   /\ pc[w] \in {"calling", "replied", "failing"}

(* The pre-Gemini exits of _run_extraction: no text, or an excluded text.  *)
Skippable(j) == j \in EmptyText \/ ruled[j]

(* A worker drops its posting and waits for the next message.              *)
Free(w) ==
  /\ pc' = [pc EXCEPT ![w] = "idle"]
  /\ job' = [job EXCEPT ![w] = NoJob]
  /\ att' = [att EXCEPT ![w] = 0]
  /\ code' = [code EXCEPT ![w] = "null"]

(* A worker goes on to another step with its posting and its attempt.      *)
GoTo(w, step, c) ==
  /\ pc' = [pc EXCEPT ![w] = step]
  /\ code' = [code EXCEPT ![w] = c]
  /\ UNCHANGED <<job, att>>

(* A call to the broker; what was not sent (ok = FALSE) is lost.           *)
Send(j, ok) ==
  /\ queue[j] < MaxQueue
  /\ queue' = [queue EXCEPT ![j] = IF ok THEN @ + 1 ELSE @]
  /\ UNCHANGED requeue

(* One of the failures the bound allows.                                   *)
Fault ==
  /\ faults < MaxFaults
  /\ faults' = faults + 1
  /\ UNCHANGED <<manual, rules>>

(* A call that succeeds, or fails as one of the allowed failures.          *)
Try(ok) == IF ok THEN UNCHANGED budgetVars ELSE Fault

-----------------------------------------------------------------------------
(* The import and the world around the pipeline                            *)

(* tcg_line_import_svc: the posting and its job are committed, then the    *)
(* message is sent; a broker that does not answer is ignored.              *)
Import(j) ==
  /\ status[j] = "none"
  /\ status' = [status EXCEPT ![j] = "pending"]
  /\ \E ok \in BOOLEAN : Send(j, ok) /\ Try(ok)
  /\ UNCHANGED <<errmsg, last, phase, items, analysed, postVars, stale,
                 workerVars, recoveryVars, seen>>

(* A newer posting of the same channel takes the place of this one.        *)
Supersede(j) ==
  /\ status[j] # "none" /\ active[j]
  /\ active' = [active EXCEPT ![j] = FALSE]
  /\ UNCHANGED <<jobVars, days, notified, ruled, stale, brokerVars,
                 workerVars, recoveryVars, seen, budgetVars>>

(* A rule of the kind message_exclude is added, changed or removed.        *)
ChangeRules(j) ==
  /\ rules < MaxRules
  /\ rules' = rules + 1
  /\ ruled' = [ruled EXCEPT ![j] = ~@]
  /\ UNCHANGED <<jobVars, active, days, notified, stale, brokerVars,
                 workerVars, recoveryVars, seen, faults, manual>>

(* 15 minutes pass.  The hard time limit of 330 seconds ends every attempt *)
(* long before; a process that outlives it anyway (the host was suspended) *)
(* is one of the allowed faults.                                           *)
QuarterPasses(j) ==
  /\ status[j] \in {"pending", "running"} /\ ~stale[j]
  /\ stale' = [stale EXCEPT ![j] = TRUE]
  /\ Try(~ \E w \in Workers : InAttempt(w, j) /\ status[j] = "running")
  /\ UNCHANGED <<jobVars, postVars, brokerVars, workerVars, recoveryVars,
                 seen>>

(* 24 hours (API_ERROR_RETRY_LOOKBACK_HOURS) pass, then 48 hours           *)
(* (API_ERROR_GIVEN_UP_WINDOW_HOURS) since the creation of the job.        *)
DayPasses(j) ==
  /\ status[j] # "none" /\ days[j] < 2
  /\ days' = [days EXCEPT ![j] = @ + 1]
  /\ UNCHANGED <<jobVars, active, notified, ruled, stale, brokerVars,
                 workerVars, recoveryVars, seen, budgetVars>>

-----------------------------------------------------------------------------
(* A worker handles tcg.extract_source_message                             *)

(* _run_extraction reads the pending job of the posting; with none the     *)
(* message is done with.                                                   *)
Receive(w, j) ==
  /\ pc[w] = "idle" /\ queue[j] > 0
  /\ queue' = [queue EXCEPT ![j] = @ - 1]
  /\ IF status[j] = "pending"
       THEN /\ pc' = [pc EXCEPT ![w] = "chosen"]
            /\ job' = [job EXCEPT ![w] = j]
       ELSE UNCHANGED <<pc, job>>
  /\ UNCHANGED <<jobVars, postVars, stale, requeue, att, code, recoveryVars,
                 seen, budgetVars>>

(* Blank or excluded text: the job is closed without Gemini.  The UPDATE   *)
(* names the job only, not the status it was read with.                    *)
Skip(w) ==
  /\ pc[w] = "chosen" /\ Skippable(job[w])
  /\ status' = [status EXCEPT ![job[w]] =
                  IF job[w] \in EmptyText THEN "empty" ELSE "filtered"]
  /\ errmsg' = [errmsg EXCEPT ![job[w]] = "null"]
  /\ Free(w)
  /\ UNCHANGED <<last, phase, items, analysed, postVars, stale, brokerVars,
                 recoveryVars, seen, budgetVars>>

(* Mutant of Claimable: the UPDATE of the claim forgets the status.        *)
ClaimableAlways(j) == TRUE

Claimable(j) == status[j] = "pending"

(* AttemptRecorder.before_send: the job leaves pending and the attempt is  *)
(* inserted after its parent, in one transaction.  An input over the limit *)
(* fails after that commit, before the call.                               *)
Claim(w) ==
  LET j == job[w]
      k == last[j] + 1
  IN /\ pc[w] = "chosen" /\ ~ Skippable(j)
     /\ Claimable(j)
     /\ last[j] < MaxAttempts
     /\ status' = [status EXCEPT ![j] = "running"]
     /\ last' = [last EXCEPT ![j] = k]
     /\ phase' = [phase EXCEPT ![j][k] = "started"]
     /\ stale' = [stale EXCEPT ![j] = FALSE]
     /\ att' = [att EXCEPT ![w] = k]
     /\ \/ pc' = [pc EXCEPT ![w] = "calling"] /\ UNCHANGED code
        \/ pc' = [pc EXCEPT ![w] = "failing"]
           /\ code' = [code EXCEPT ![w] = "other"]
     /\ UNCHANGED <<errmsg, items, analysed, postVars, brokerVars, job,
                    recoveryVars, seen, budgetVars>>

(* CLAIM_CONFLICT: another worker took the job since it was read.          *)
ClaimConflict(w) ==
  /\ pc[w] = "chosen" /\ ~ Skippable(job[w])
  /\ ~ Claimable(job[w])
  /\ GoTo(w, "failing", "other")
  /\ UNCHANGED <<jobVars, postVars, stale, brokerVars, recoveryVars, seen,
                 budgetVars>>

(* The schema is not ready, or an error outside the recorder was swallowed *)
(* by extract_and_analyze_source_message: the message is acknowledged and  *)
(* the job stays as it is.                                                 *)
GiveUpBeforeClaim(w) ==
  /\ pc[w] = "chosen"
  /\ Fault
  /\ Free(w)
  /\ UNCHANGED <<jobVars, postVars, stale, brokerVars, recoveryVars, seen>>

(* AttemptRecorder.on_response: the answer is stored if the attempt still  *)
(* owns the job; an answer over the limit fails after that commit.         *)
Respond(w) ==
  /\ pc[w] = "calling"
  /\ IF Owned(w) /\ phase[job[w]][att[w]] = "started"
       THEN /\ phase' = [phase EXCEPT ![job[w]][att[w]] = "received"]
            /\ \/ GoTo(w, "replied", "null")
               \/ GoTo(w, "failing", "other")
       ELSE /\ UNCHANGED phase
            /\ GoTo(w, "failing", "other")
  /\ UNCHANGED <<status, errmsg, last, items, analysed, postVars, stale,
                 brokerVars, recoveryVars, seen, budgetVars>>

(* Gemini refuses for good or for now, the soft time limit is reached, or  *)
(* the answer is refused while it is parsed.                               *)
Refuse(w, c) ==
  /\ \/ pc[w] = "calling" /\ c \in {"transient", "permanent", "other"}
     \/ pc[w] = "replied" /\ c = "other"
  /\ GoTo(w, "failing", c)
  /\ UNCHANGED <<jobVars, postVars, stale, brokerVars, recoveryVars, seen,
                 budgetVars>>

SavedStatus(n) == IF n = 0 THEN "empty" ELSE "done"

(* run_v102_extraction after prepare_items has locked the job: the items   *)
(* replace what was stored, the attempt and the job end, in one            *)
(* transaction.  An answer without items ends as "empty".                  *)
Save(w) ==
  LET j == job[w] IN
  /\ pc[w] = "replied" /\ Owned(w)
  /\ \E n \in {0, att[w]} :
       /\ items' = [items EXCEPT ![j] = n]
       /\ status' = [status EXCEPT ![j] = SavedStatus(n)]
  /\ analysed' = [analysed EXCEPT ![j] = FALSE]
  /\ errmsg' = [errmsg EXCEPT ![j] = "null"]
  /\ phase' = [phase EXCEPT ![j][att[w]] = "completed"]
  /\ GoTo(w, "saved", "null")
  /\ UNCHANGED <<last, postVars, stale, brokerVars, recoveryVars, seen,
                 budgetVars>>

(* ATTEMPT_CONFLICT: the attempt was fenced while Gemini answered.         *)
SaveConflict(w) ==
  /\ pc[w] = "replied" /\ ~ Owned(w)
  /\ GoTo(w, "failing", "other")
  /\ UNCHANGED <<jobVars, postVars, stale, brokerVars, recoveryVars, seen,
                 budgetVars>>

(* Mutant of FailureMessage: the category is written for the code.         *)
FailureCategory(c) == c

FailureMessage(c) == IF c = "other" THEN "OTHER" ELSE "API_ERROR"

(* AttemptRecorder.fail: the attempt and its job end together if the       *)
(* attempt still owns the job; a foreign or ended one stays as it is.      *)
Fail(w) ==
  LET j == job[w] IN
  /\ pc[w] = "failing"
  /\ IF Owned(w)
       THEN /\ phase' = [phase EXCEPT ![j][att[w]] =
                           IF code[w] = "transient" THEN "rejected" ELSE "failed"]
            /\ status' = [status EXCEPT ![j] = "error"]
            /\ errmsg' = [errmsg EXCEPT ![j] = FailureMessage(code[w])]
       ELSE UNCHANGED <<phase, status, errmsg>>
  /\ Free(w)
  /\ UNCHANGED <<last, items, analysed, postVars, stale, brokerVars,
                 recoveryVars, seen, budgetVars>>

(* The one write of fail is lost: the job stays running.                   *)
FailLost(w) ==
  /\ pc[w] = "failing"
  /\ Fault
  /\ Free(w)
  /\ UNCHANGED <<jobVars, postVars, stale, brokerVars, recoveryVars, seen>>

(* The system stage after the save.  It fails by an error of the           *)
(* configuration, and _record_analysis_failed marks a job that is done.    *)
Analyse(w) ==
  LET j == job[w] IN
  /\ pc[w] = "saved"
  /\ \/ /\ analysed' = [analysed EXCEPT ![j] = TRUE]
        /\ UNCHANGED errmsg
     \/ /\ errmsg' = [errmsg EXCEPT ![j] =
                        IF status[j] = "done" THEN "ANALYSIS_FAILED" ELSE @]
        /\ UNCHANGED analysed
  /\ Free(w)
  /\ UNCHANGED <<status, last, phase, items, postVars, stale, brokerVars,
                 recoveryVars, seen, budgetVars>>

(* The process dies.  A late acknowledgement makes the broker deliver the  *)
(* message again, unless the broker had already given it up.               *)
Crash(w) ==
  /\ pc[w] # "idle"
  /\ Fault
  /\ \E again \in BOOLEAN :
       IF pc[w] = "reanalysing"
         THEN /\ requeue[job[w]] < MaxQueue
              /\ requeue' = [requeue EXCEPT ![job[w]] =
                               IF again THEN @ + 1 ELSE @]
              /\ UNCHANGED queue
         ELSE Send(job[w], again)
  /\ Free(w)
  /\ UNCHANGED <<jobVars, postVars, stale, recoveryVars, seen>>

-----------------------------------------------------------------------------
(* A worker handles tcg.v102_reanalyze_after_correction                    *)

ReceiveReanalysis(w, j) ==
  /\ pc[w] = "idle" /\ requeue[j] > 0
  /\ requeue' = [requeue EXCEPT ![j] = @ - 1]
  /\ pc' = [pc EXCEPT ![w] = "reanalysing"]
  /\ job' = [job EXCEPT ![w] = j]
  /\ UNCHANGED <<jobVars, postVars, stale, queue, att, code, recoveryVars,
                 seen, budgetVars>>

(* Mutant of Reanalyse: a repeated failure asks for one more analysis.     *)
ReanalyseForEver(w) ==
  LET j == job[w] IN
  /\ pc[w] = "reanalysing"
  /\ errmsg' = [errmsg EXCEPT ![j] =
        IF @ = "ANALYSIS_FAILED_RETRIED" THEN "ANALYSIS_FAILED" ELSE @]
  /\ Free(w)
  /\ UNCHANGED <<status, last, phase, items, analysed, postVars, stale,
                 brokerVars, recoveryVars, seen, budgetVars>>

(* reanalyze_v102_job: the results are written and the mark of the failed  *)
(* analysis is cleared; when the task fails (its Celery retries included)  *)
(* nothing changes.                                                        *)
Reanalyse(w) ==
  LET j == job[w] IN
  /\ pc[w] = "reanalysing"
  /\ \/ /\ analysed' = [analysed EXCEPT ![j] = TRUE]
        /\ errmsg' = [errmsg EXCEPT ![j] =
              IF @ \in {"ANALYSIS_FAILED", "ANALYSIS_FAILED_RETRIED"}
                THEN "null" ELSE @]
     \/ UNCHANGED <<analysed, errmsg>>
  /\ Free(w)
  /\ UNCHANGED <<status, last, phase, items, postVars, stale, brokerVars,
                 recoveryVars, seen, budgetVars>>

-----------------------------------------------------------------------------
(* An operator retries by hand (tcg_diagnostics_svc.retry_extraction)      *)

(* The rows are read; those not in error are skipped.                      *)
ReadForRetry(o, j) ==
  /\ seen[o] = NoJob /\ status[j] = "error"
  /\ manual < MaxManual
  /\ manual' = manual + 1
  /\ seen' = [seen EXCEPT ![o] = j]
  /\ UNCHANGED <<jobVars, postVars, stale, brokerVars, workerVars,
                 recoveryVars, faults, rules>>

(* Mutant of RetryByHand: the UPDATE trusts the status that was read.      *)
RetryWhatWasRead(o) ==
  LET j == seen[o] IN
  /\ j \in Jobs
  /\ items' = [items EXCEPT ![j] = 0]
  /\ analysed' = [analysed EXCEPT ![j] = FALSE]
  /\ status' = [status EXCEPT ![j] = "pending"]
  /\ Send(j, TRUE)
  /\ seen' = [seen EXCEPT ![o] = NoJob]
  /\ UNCHANGED <<errmsg, last, phase, postVars, stale, workerVars,
                 recoveryVars, budgetVars>>

(* The items go (their results cascade), the job becomes pending if it is  *)
(* still in error, and the message is sent in either case.  The DELETE and *)
(* the UPDATE are one step: whatever another transaction does in between,  *)
(* the outcome is the one of running both at the DELETE or at the UPDATE.  *)
RetryByHand(o) ==
  LET j == seen[o] IN
  /\ j \in Jobs
  /\ items' = [items EXCEPT ![j] = 0]
  /\ analysed' = [analysed EXCEPT ![j] = FALSE]
  /\ status' = [status EXCEPT ![j] = IF @ = "error" THEN "pending" ELSE @]
  /\ \E ok \in BOOLEAN : Send(j, ok) /\ Try(ok)
  /\ seen' = [seen EXCEPT ![o] = NoJob]
  /\ UNCHANGED <<errmsg, last, phase, postVars, stale, workerVars,
                 recoveryVars>>

(* scope="pending": every pending job is sent again as it is.              *)
ResendPending(o, j) ==
  /\ seen[o] = NoJob /\ status[j] = "pending"
  /\ manual < MaxManual
  /\ manual' = manual + 1
  /\ Send(j, TRUE)
  /\ UNCHANGED <<jobVars, postVars, stale, workerVars, recoveryVars, seen,
                 faults, rules>>

-----------------------------------------------------------------------------
(* The periodic task tcg.recover_stale_extraction_jobs (_run_recovery).    *)
(* Each pass reads its rows first and writes them later; the limits of 20  *)
(* and 50 rows per pass are left out.                                      *)

StaleRunning(j) == status[j] = "running" /\ stale[j]

(* recover_stale_running_jobs, the SELECT.                                 *)
FindStaleRunning ==
  /\ rpc = "idle"
  /\ found' = {j \in Jobs : StaleRunning(j)}
  /\ rpc' = "running"
  /\ UNCHANGED <<jobVars, postVars, stale, brokerVars, workerVars, todo,
                 seen, budgetVars>>

StillRunning(j) == j \in found /\ status[j] = "running"

(* recover_stale_running_jobs, the UPDATE.                                 *)
ResetStaleRunning ==
  /\ rpc = "running"
  /\ status' = [j \in Jobs |->
                  IF StillRunning(j) THEN "pending" ELSE status[j]]
  /\ rpc' = "pending"
  /\ found' = {}
  /\ UNCHANGED <<errmsg, last, phase, items, analysed, postVars, stale,
                 brokerVars, workerVars, todo, seen, budgetVars>>

(* Mutant of StalePending: a job that was tried once is not sent again.    *)
NeverTriedPending(j) == status[j] = "pending" /\ stale[j] /\ last[j] = 0

StalePending(j) == status[j] = "pending" /\ stale[j]

(* find_stale_pending_job_ids.                                             *)
FindStalePending ==
  /\ rpc = "pending"
  /\ todo' = {j \in Jobs : StalePending(j)}
  /\ rpc' = "analysis"
  /\ UNCHANGED <<jobVars, postVars, stale, brokerVars, workerVars, found,
                 seen, budgetVars>>

(* Mutant of NeedsAnalysis: replaced postings are left out.                *)
NeedsAnalysisIfActive(j) ==
  status[j] = "done" /\ errmsg[j] = "ANALYSIS_FAILED" /\ active[j]

NeedsAnalysis(j) == status[j] = "done" /\ errmsg[j] = "ANALYSIS_FAILED"

(* retry_analysis_failed_jobs, the SELECT.                                 *)
FindAnalysisFailed ==
  /\ rpc = "analysis"
  /\ found' = {j \in Jobs : NeedsAnalysis(j)}
  /\ rpc' = "mark"
  /\ UNCHANGED <<jobVars, postVars, stale, brokerVars, workerVars, todo,
                 seen, budgetVars>>

(* retry_analysis_failed_jobs, one row: the mark is committed before the   *)
(* message is sent, and a message that is lost is not sent again.          *)
MarkRetried(j) ==
  /\ rpc = "mark" /\ j \in found
  /\ found' = found \ {j}
  /\ IF errmsg[j] = "ANALYSIS_FAILED"
       THEN /\ errmsg' = [errmsg EXCEPT ![j] = "ANALYSIS_FAILED_RETRIED"]
            /\ requeue[j] < MaxQueue
            /\ \E ok \in BOOLEAN :
                 /\ requeue' = [requeue EXCEPT ![j] = IF ok THEN @ + 1 ELSE @]
                 /\ Try(ok)
       ELSE UNCHANGED <<errmsg, requeue, budgetVars>>
  /\ UNCHANGED <<status, last, phase, items, analysed, postVars, stale, queue,
                 workerVars, rpc, todo, seen>>

(* The job ended by a refusal that may pass: error, API_ERROR, and the     *)
(* latest attempt failed for a transient reason.                           *)
Rejected(j) ==
  status[j] = "error" /\ errmsg[j] = "API_ERROR" /\ LatestIn(j, {"rejected"})

(* Mutant of Retriable: the attempts are not counted.                      *)
RetriableForEver(j) == Rejected(j) /\ active[j] /\ days[j] = 0

(* What retry_transient_api_error_jobs selects; the age of five minutes is *)
(* left out, as any time may pass before the SELECT.                       *)
Retriable(j) ==
  Rejected(j) /\ active[j] /\ days[j] = 0 /\ last[j] < ApiRetryMax

(* retry_transient_api_error_jobs, the SELECT.                             *)
FindRejected ==
  /\ rpc = "mark" /\ found = {}
  /\ found' = {j \in Jobs : Retriable(j)}
  /\ rpc' = "reset"
  /\ UNCHANGED <<jobVars, postVars, stale, brokerVars, workerVars, todo,
                 seen, budgetVars>>

(* retry_transient_api_error_jobs, one row: the items go and the job       *)
(* becomes pending, or the transaction is rolled back.                     *)
ResetRejected(j) ==
  /\ rpc = "reset" /\ j \in found
  /\ found' = found \ {j}
  /\ IF status[j] = "error" /\ errmsg[j] = "API_ERROR"
       THEN /\ status' = [status EXCEPT ![j] = "pending"]
            /\ items' = [items EXCEPT ![j] = 0]
            /\ analysed' = [analysed EXCEPT ![j] = FALSE]
            /\ todo' = todo \cup {j}
       ELSE UNCHANGED <<status, items, analysed, todo>>
  /\ UNCHANGED <<errmsg, last, phase, postVars, stale, brokerVars, workerVars,
                 rpc, seen, budgetVars>>

(* Mutant of GivenUp: one attempt too late.                                *)
GivenUpLate(j) ==
  /\ Rejected(j) /\ active[j] /\ days[j] < 2
  /\ last[j] > ApiRetryMax \/ days[j] = 1

(* find_given_up_api_error_jobs: no automatic retry is left, and the job   *)
(* is not older than 48 hours.                                             *)
GivenUp(j) ==
  /\ Rejected(j) /\ active[j] /\ days[j] < 2
  /\ last[j] >= ApiRetryMax \/ days[j] = 1

(* notify_given_up_api_error_jobs: one notice for the jobs not yet told.   *)
NotifyGivenUp ==
  /\ rpc = "reset" /\ found = {}
  /\ \E ok \in BOOLEAN :
       /\ notified' = [j \in Jobs |-> notified[j] \/ (ok /\ GivenUp(j))]
       /\ Try(ok)
  /\ rpc' = "enqueue"
  /\ UNCHANGED <<jobVars, active, days, ruled, stale, brokerVars, workerVars,
                 found, todo, seen>>

(* _reenqueue_stale_pending_jobs: a job that is no longer pending is not   *)
(* sent again.                                                             *)
Reenqueue(j) ==
  /\ rpc = "enqueue" /\ j \in todo
  /\ todo' = todo \ {j}
  /\ IF status[j] = "pending" THEN Send(j, TRUE) ELSE UNCHANGED brokerVars
  /\ UNCHANGED <<jobVars, postVars, stale, workerVars, rpc, found, seen,
                 budgetVars>>

FinishRecovery ==
  /\ rpc = "enqueue" /\ todo = {}
  /\ rpc' = "idle"
  /\ UNCHANGED <<jobVars, postVars, stale, brokerVars, workerVars, found,
                 todo, seen, budgetVars>>

(* The process of the periodic task dies, or the broker refuses a message. *)
RecoveryCrash ==
  /\ rpc # "idle"
  /\ Fault
  /\ rpc' = "idle" /\ found' = {} /\ todo' = {}
  /\ UNCHANGED <<jobVars, postVars, stale, brokerVars, workerVars, seen>>

-----------------------------------------------------------------------------
Environment(j) ==
  \/ Import(j)
  \/ Supersede(j)
  \/ ChangeRules(j)
  \/ QuarterPasses(j)
  \/ DayPasses(j)

Handle(w) ==
  \/ Skip(w)
  \/ Claim(w)
  \/ ClaimConflict(w)
  \/ Respond(w)
  \/ \E c \in Code : Refuse(w, c)
  \/ Save(w)
  \/ SaveConflict(w)
  \/ Fail(w)
  \/ Analyse(w)
  \/ Reanalyse(w)

Take(w, j) == Receive(w, j) \/ ReceiveReanalysis(w, j)

Break(w) == GiveUpBeforeClaim(w) \/ FailLost(w) \/ Crash(w)

Operate(o) ==
  \/ \E j \in Jobs : ReadForRetry(o, j) \/ ResendPending(o, j)
  \/ RetryByHand(o)

Recover ==
  \/ FindStaleRunning
  \/ ResetStaleRunning
  \/ FindStalePending
  \/ FindAnalysisFailed
  \/ \E j \in Jobs : MarkRetried(j)
  \/ FindRejected
  \/ \E j \in Jobs : ResetRejected(j)
  \/ NotifyGivenUp
  \/ \E j \in Jobs : Reenqueue(j)
  \/ FinishRecovery

Next ==
  \/ \E j \in Jobs : Environment(j)
  \/ \E w \in Workers : Handle(w) \/ Break(w) \/ \E j \in Jobs : Take(w, j)
  \/ \E o \in Operators : Operate(o)
  \/ Recover
  \/ RecoveryCrash

Spec == Init /\ [][Next]_vars

(* Fairness: a worker finishes what it began and takes every message that  *)
(* waits (Celery schedules them; time limits end a handler), beat starts   *)
(* the recovery for ever, time passes.  Nothing is assumed of the import,  *)
(* of the operators, of the rules, or of the choice among the outcomes of  *)
(* a call.                                                                 *)
FairSpec ==
  /\ Spec
  /\ \A w \in Workers : WF_vars(Handle(w))
  /\ \A j \in Jobs : SF_vars(\E w \in Workers : Receive(w, j))
  /\ \A j \in Jobs : SF_vars(\E w \in Workers : ReceiveReanalysis(w, j))
  /\ \A j \in Jobs : WF_vars(QuarterPasses(j))
  /\ WF_vars(Recover)

-----------------------------------------------------------------------------
(* Properties                                                              *)

(* The row of the job and the row of its latest attempt tell one story:    *)
(* a running job has a live attempt, a job with a result or a failure has  *)
(* the attempt that gave it, and a job that waits has no result yet.  The  *)
(* two tables are written by three different tasks.                        *)
JobMatchesLatestAttempt ==
  \A j \in Jobs :
    /\ status[j] = "none" => last[j] = 0
    /\ status[j] = "pending" => ~ LatestIn(j, {"completed"})
    /\ status[j] = "running" => LatestIn(j, Live)
    /\ status[j] = "error" => LatestIn(j, {"failed", "rejected"})
    /\ status[j] = "done" => LatestIn(j, {"completed"})

(* Whatever is delivered twice, retried or recovered, Gemini's answer is   *)
(* accepted at most once per posting, from its last attempt, and the job   *)
(* is never open again after that.                                         *)
ExtractedOnce ==
  \A j \in Jobs : \A k \in 1..MaxAttempts :
    phase[j][k] = "completed" =>
      k = last[j] /\ status[j] \in {"done", "empty", "filtered"}

(* A job that is done still has the items of the attempt that made it so.  *)
DoneHasItems ==
  \A j \in Jobs : status[j] = "done" => last[j] > 0 /\ items[j] = last[j]

(* Two requests that start together lead to one call of Gemini: a second   *)
(* call for the same posting at the same time takes a failure, such as a   *)
(* process that outlives its time limit.                                   *)
InCall(w, j) == job[w] = j /\ pc[w] \in {"calling", "replied"}
OneCallAtATime ==
  \A j \in Jobs :
    Cardinality({w \in Workers : InCall(w, j)}) <= 1 + faults

(* The automatic retries stop: more than API_ERROR_RETRY_MAX_ATTEMPTS      *)
(* attempts of a posting take failures or retries by hand.                 *)
AttemptsAreLimited ==
  \A j \in Jobs : last[j] <= ApiRetryMax + faults + manual

(* Failures and retries by hand aside, a posting gets no more attempts     *)
(* than API_ERROR_RETRY_MAX_ATTEMPTS and one call of Gemini at a time; a   *)
(* job that is done has the items of the attempt that made it so.          *)
CallsAreLimited == AttemptsAreLimited /\ OneCallAtATime /\ DoneHasItems

(* An attempt that ended, or that a newer one has fenced, is never written *)
(* again, however late its process comes back.                             *)
Ended(j, k) ==
  k < last[j] \/ phase[j][k] \in {"completed", "failed", "rejected"}
EndedStay ==
  \A j \in Jobs : \A k \in 1..MaxAttempts :
    Ended(j, k) => phase'[j][k] = phase[j][k]
EndedAttemptsStay == [][EndedStay]_vars

(* A finished job is never claimed, failed or closed again.                *)
FinishedStays ==
  [][\A j \in Jobs :
       status[j] \in {"done", "empty", "filtered"} =>
         status'[j] = status[j] /\ last'[j] = last[j]]_vars

(* Without an operator, a failed job is opened again only if its latest    *)
(* attempt was refused for a transient reason and attempts are left, as    *)
(* read when the retry began.                                              *)
OnlyTransientErrorsReopen ==
  [][\A j \in Jobs :
       status[j] = "error" /\ status'[j] = "pending" =>
         Rejected(j) /\ last[j] < ApiRetryMax]_vars

(* The automatic second analysis happens once: the mark of it never turns  *)
(* back into the mark that asks for it.                                    *)
AnalysisRetriedOnce ==
  [][\A j \in Jobs :
       errmsg[j] = "ANALYSIS_FAILED_RETRIED" =>
         errmsg'[j] \in {"ANALYSIS_FAILED_RETRIED", "null"}]_vars

(* A finished job is never claimed, failed or closed again; a failed one   *)
(* is opened again, without an operator, only after a transient error with *)
(* attempts left; and its analysis is repeated once.                       *)
StatusesStay == FinishedStays /\ OnlyTransientErrorsReopen /\ AnalysisRetriedOnce

(* A retry by hand takes the items of failed jobs only: the docstring of   *)
(* retry_extraction says that the others are skipped.                      *)
OnlyFailedJobsLoseItems ==
  [][\A j \in Jobs :
       items[j] # 0 /\ items'[j] = 0 => status[j] = "error"]_vars

(* A job is skipped only while it waits: the docstring of _run_extraction  *)
(* says that it works on the pending job.                                  *)
OnlyPendingIsSkipped ==
  [][\A j \in Jobs :
       status'[j] = "filtered" /\ status[j] # "filtered" =>
         status[j] = "pending"]_vars

(* Whatever message is lost and whatever process dies, a posting that was  *)
(* imported does not stay pending or running.                              *)
OpenJobsSettle ==
  \A j \in Jobs :
    status[j] \in {"pending", "running"} ~>
      status[j] \notin {"pending", "running"}

(* A posting refused for a transient reason is in the end extracted, or    *)
(* failed for another reason, or told to the administrators, or replaced,  *)
(* or 48 hours old.  The last case loses postings in silence: no pass of   *)
(* the recovery looks at a refused job that old, told or not.              *)
RefusedPostingsAreNotForgotten ==
  \A j \in Jobs :
    Rejected(j) ~>
      \/ status[j] \in {"done", "empty", "filtered"}
      \/ status[j] = "error" /\ ~ Rejected(j)
      \/ notified[j]
      \/ ~ active[j]
      \/ days[j] = 2

(* A failed analysis is either repeated with success or left marked as     *)
(* repeated.                                                               *)
FailedAnalysisIsRetried ==
  \A j \in Jobs :
    errmsg[j] = "ANALYSIS_FAILED" ~>
      \/ analysed[j] /\ errmsg[j] = "null"
      \/ errmsg[j] = "ANALYSIS_FAILED_RETRIED"

-----------------------------------------------------------------------------
(* The promise of ExtractionJob, kept by the pipeline: the stage is the    *)
(* status, the attempts are the rows of extraction_attempts, the result is *)
(* the attempt that completed.                                             *)
Accepted(j) == IF LatestIn(j, {"completed"}) THEN last[j] ELSE 0

Abstract == INSTANCE ExtractionJob WITH
  stage <- status,
  attempts <- last,
  result <- [j \in Jobs |-> Accepted(j)]

(* Every behaviour of the pipeline is one ExtractionJob allows, as long as *)
(* no exclusion rule changes under a worker.                               *)
KeepsPromise == Abstract!Spec

=============================================================================
