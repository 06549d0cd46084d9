---------------------- MODULE ExtractionPipelineProofs ----------------------
(***************************************************************************)
(* Proofs about ExtractionPipeline for every set of postings, workers and  *)
(* operators and for every value of the bounds: types, the story a job and *)
(* its attempts tell, attempts that stay as they ended, the promise of     *)
(* ExtractionJob, and what is final or limited.                            *)
(***************************************************************************)
EXTENDS ExtractionPipeline, FiniteSetTheorems, TLAPS

(* What a worker holds in its registers: a posting while it works, and an  *)
(* attempt that was inserted.                                              *)
Registers ==
  \A w \in Workers :
    /\ pc[w] # "idle" => job[w] \in Jobs
    /\ pc[w] = "idle" => att[w] = 0
    /\ job[w] \in Jobs => att[w] <= last[job[w]]

(* Rows are inserted in order: the numbers above the last are unused.      *)
Unused ==
  \A j \in Jobs : \A k \in 1..MaxAttempts : k > last[j] => phase[j][k] = "none"

(* The inductive part of the safety of the tables.  ExtractedOnce is not   *)
(* inductive alone: that a claim never follows a completed attempt takes   *)
(* the status of the job and the phase of its latest attempt to agree.     *)
Story ==
  /\ JobMatchesLatestAttempt
  /\ ExtractedOnce
  /\ Unused

IInv == TypeOK /\ Registers /\ Story

USE EmptyTextAssumption, NoJobAssumption, MaxAttemptsAssumption,
    BoundsAssumption

-----------------------------------------------------------------------------
(* The type invariant and the registers                                    *)

THEOREM TypeInit == Init => TypeOK /\ Registers
BY DEF Init, TypeOK, Registers, Status, ErrorMessage, Phase, Code,
       WorkerStep, RecoveryStep

TypeInv == TypeOK /\ Registers

LEMMA TypeEnvironment ==
  ASSUME TypeInv, NEW j \in Jobs, Environment(j)
  PROVE  TypeInv'
<1> USE DEF TypeInv, TypeOK, jobVars, postVars, brokerVars, workerVars,
            recoveryVars, budgetVars
<1>1. CASE Import(j)
  <2>1. status' \in [Jobs -> Status]
    BY <1>1 DEF Import, Send, Try, Fault, Status
  <2>2. queue' \in [Jobs -> 0..MaxQueue]
    BY <1>1 DEF Import, Send, Try, Fault
  <2>3. faults' \in 0..MaxFaults /\ manual' \in 0..MaxManual
       /\ rules' \in 0..MaxRules
    BY <1>1 DEF Import, Send, Try, Fault
  <2>4. TypeOK'
    BY <1>1, <2>1, <2>2, <2>3
       DEF Import, Send, Try, Fault
  <2>5. Registers'
    BY <1>1 DEF Import, Send, Try, Fault, Registers
  <2> QED
    BY <2>4, <2>5
<1>2. CASE Supersede(j)
  BY <1>2 DEF Supersede, Registers
<1>3. CASE ChangeRules(j)
  BY <1>3 DEF ChangeRules, Registers
<1>4. CASE QuarterPasses(j)
  <2>1. stale' \in [Jobs -> BOOLEAN]
    BY <1>4 DEF QuarterPasses, Try, Fault
  <2>2. faults' \in 0..MaxFaults /\ manual' \in 0..MaxManual
       /\ rules' \in 0..MaxRules
    BY <1>4 DEF QuarterPasses, Try, Fault
  <2>3. TypeOK'
    BY <1>4, <2>1, <2>2
       DEF QuarterPasses, Try, Fault
  <2>4. Registers'
    BY <1>4 DEF QuarterPasses, Try, Fault, Registers
  <2> QED
    BY <2>3, <2>4
<1>5. CASE DayPasses(j)
  <2>1. days' \in [Jobs -> 0..2]
    <3>1. days[j] \in 0..2 /\ days[j] < 2
      BY <1>5 DEF DayPasses
    <3>2. days[j] + 1 \in 0..2
      BY <3>1
    <3> QED
      BY <1>5, <3>2 DEF DayPasses
  <2> QED
    BY <1>5, <2>1 DEF DayPasses, Registers
<1> QED
  BY <1>1, <1>2, <1>3, <1>4, <1>5 DEF Environment

LEMMA TypeHandle ==
  ASSUME TypeInv, NEW w \in Workers, Handle(w)
  PROVE  TypeInv'
<1> USE DEF TypeInv, TypeOK, jobVars, postVars, brokerVars, workerVars,
            recoveryVars, budgetVars
<1>1. CASE Skip(w)
  <2>1. status' \in [Jobs -> Status]
    BY <1>1 DEF Skip, Free, Status
  <2>2. errmsg' \in [Jobs -> ErrorMessage]
    BY <1>1 DEF Skip, Free, ErrorMessage
  <2>3. pc' \in [Workers -> WorkerStep]
    BY <1>1 DEF Skip, Free, WorkerStep
  <2>4. job' \in [Workers -> Jobs \cup {NoJob}]
    BY <1>1 DEF Skip, Free
  <2>5. att' \in [Workers -> 0..MaxAttempts]
    BY <1>1 DEF Skip, Free
  <2>6. code' \in [Workers -> Code]
    BY <1>1 DEF Skip, Free, Code
  <2>7. TypeOK'
    BY <1>1, <2>1, <2>2, <2>3, <2>4, <2>5, <2>6
       DEF Skip, Free
  <2>8. Registers'
    BY <1>1 DEF Skip, Free, Registers
  <2> QED
    BY <2>7, <2>8
<1>2. CASE Claim(w)
  <2>1. status' \in [Jobs -> Status]
    BY <1>2 DEF Claim, Claimable, Status
  <2>2. last' \in [Jobs -> 0..MaxAttempts]
    <3>1. job[w] \in Jobs /\ last[job[w]] + 1 \in 0..MaxAttempts
      BY <1>2 DEF Claim, Registers
    <3> QED
      BY <1>2, <3>1 DEF Claim
  <2>3. phase' \in [Jobs -> [1..MaxAttempts -> Phase]]
    BY <1>2 DEF Claim, Claimable, Phase
  <2>4. stale' \in [Jobs -> BOOLEAN]
    BY <1>2 DEF Claim, Claimable
  <2>5. att' \in [Workers -> 0..MaxAttempts]
    <3>1. job[w] \in Jobs /\ last[job[w]] + 1 \in 0..MaxAttempts
      BY <1>2 DEF Claim, Registers
    <3> QED
      BY <1>2, <3>1 DEF Claim
  <2>6. pc' \in [Workers -> WorkerStep]
    BY <1>2 DEF Claim, Claimable, WorkerStep
  <2>7. code' \in [Workers -> Code]
    BY <1>2 DEF Claim, Claimable, Code
  <2>8. TypeOK'
    BY <1>2, <2>1, <2>2, <2>3, <2>4, <2>5, <2>6, <2>7
       DEF Claim, Claimable
  <2>9. Registers'
    BY <1>2 DEF Claim, Claimable, Registers
  <2> QED
    BY <2>8, <2>9
<1>3. CASE ClaimConflict(w)
  BY <1>3 DEF ClaimConflict, GoTo, Registers, WorkerStep, Code
<1>4. CASE Respond(w)
  <2>1. phase' \in [Jobs -> [1..MaxAttempts -> Phase]]
    <3>1. CASE phase' = phase
      BY <3>1
    <3>2. CASE phase' = [phase EXCEPT ![job[w]][att[w]] = "received"]
      BY <3>2 DEF Phase
    <3> QED
      BY <1>4, <3>1, <3>2 DEF Respond
  <2>2. pc' \in [Workers -> WorkerStep]
    <3>1. pc' = [pc EXCEPT ![w] = "replied"] \/
            pc' = [pc EXCEPT ![w] = "failing"]
      BY <1>4 DEF Respond, GoTo
    <3> QED
      BY <3>1 DEF WorkerStep
  <2>3. code' \in [Workers -> Code]
    BY <1>4 DEF Respond, GoTo, Code
  <2>4. TypeOK'
    BY <1>4, <2>1, <2>2, <2>3
       DEF Respond, GoTo
  <2>5. Registers'
    BY <1>4 DEF Respond, GoTo, Registers
  <2> QED
    BY <2>4, <2>5
<1>5. CASE \E c \in Code : Refuse(w, c)
  BY <1>5 DEF Refuse, GoTo, Registers, WorkerStep, Code
<1>6. CASE Save(w)
  <2>0. PICK n \in {0, att[w]} :
          /\ items' = [items EXCEPT ![job[w]] = n]
          /\ status' = [status EXCEPT ![job[w]] = SavedStatus(n)]
    BY <1>6 DEF Save
  <2>1. SavedStatus(n) \in Status
    BY DEF SavedStatus, Status
  <2>2. /\ items' \in [Jobs -> 0..MaxAttempts]
        /\ status' \in [Jobs -> Status]
    <3>1. n \in 0..MaxAttempts
      BY <2>0
    <3> HIDE DEF SavedStatus
    <3> QED
      BY <2>0, <2>1, <3>1
  <2>3. errmsg' \in [Jobs -> ErrorMessage]
    BY <1>6 DEF Save, ErrorMessage
  <2>4. phase' \in [Jobs -> [1..MaxAttempts -> Phase]]
    BY <1>6 DEF Save, Phase
  <2>5. pc' \in [Workers -> WorkerStep] /\ code' \in [Workers -> Code]
    BY <1>6 DEF Save, GoTo, WorkerStep, Code
  <2>6. TypeOK'
    BY <1>6, <2>2, <2>3, <2>4, <2>5 DEF Save, GoTo
  <2>7. Registers'
    BY <1>6 DEF Save, GoTo, Registers
  <2> QED
    BY <2>6, <2>7
<1>7. CASE SaveConflict(w)
  BY <1>7 DEF SaveConflict, GoTo, Registers, WorkerStep, Code
<1>8. CASE Fail(w)
  <2>1. phase' \in [Jobs -> [1..MaxAttempts -> Phase]]
    <3>1. CASE Owned(w)
      <4>1. PICK p \in {"rejected", "failed"} :
              phase' = [phase EXCEPT ![job[w]][att[w]] = p]
        BY <1>8, <3>1 DEF Fail
      <4>2. p \in Phase
        BY DEF Phase
      <4> QED
        BY <4>1, <4>2
    <3>2. CASE ~ Owned(w)
      BY <1>8, <3>2 DEF Fail
    <3> QED
      BY <3>1, <3>2
  <2>2. status' \in [Jobs -> Status]
    BY <1>8 DEF Fail, Status
  <2>3. errmsg' \in [Jobs -> ErrorMessage]
    BY <1>8 DEF Fail, FailureMessage, ErrorMessage
  <2>4. pc' \in [Workers -> WorkerStep]
    BY <1>8 DEF Fail, FailureMessage, Free, WorkerStep
  <2>5. job' \in [Workers -> Jobs \cup {NoJob}]
    BY <1>8 DEF Fail, FailureMessage, Free
  <2>6. att' \in [Workers -> 0..MaxAttempts]
    BY <1>8 DEF Fail, FailureMessage, Free
  <2>7. code' \in [Workers -> Code]
    BY <1>8 DEF Fail, FailureMessage, Free, Code
  <2>8. TypeOK'
    BY <1>8, <2>1, <2>2, <2>3, <2>4, <2>5, <2>6, <2>7
       DEF Fail, FailureMessage, Free
  <2>9. Registers'
    BY <1>8 DEF Fail, FailureMessage, Free, Registers
  <2> QED
    BY <2>8, <2>9
<1>9. CASE Analyse(w)
  <2>1. errmsg' \in [Jobs -> ErrorMessage]
    BY <1>9 DEF Analyse, ErrorMessage
  <2>2. analysed' \in [Jobs -> BOOLEAN]
    BY <1>9 DEF Analyse
  <2>3. pc' \in [Workers -> WorkerStep]
    BY <1>9 DEF Analyse, Free, WorkerStep
  <2>4. job' \in [Workers -> Jobs \cup {NoJob}]
    BY <1>9 DEF Analyse, Free
  <2>5. att' \in [Workers -> 0..MaxAttempts]
    BY <1>9 DEF Analyse, Free
  <2>6. code' \in [Workers -> Code]
    BY <1>9 DEF Analyse, Free, Code
  <2>7. TypeOK'
    BY <1>9, <2>1, <2>2, <2>3, <2>4, <2>5, <2>6
       DEF Analyse, Free
  <2>8. Registers'
    BY <1>9 DEF Analyse, Free, Registers
  <2> QED
    BY <2>7, <2>8
<1>10. CASE Reanalyse(w)
  <2>1. errmsg' \in [Jobs -> ErrorMessage]
    BY <1>10 DEF Reanalyse, ErrorMessage
  <2>2. analysed' \in [Jobs -> BOOLEAN]
    BY <1>10 DEF Reanalyse
  <2>3. pc' \in [Workers -> WorkerStep]
    BY <1>10 DEF Reanalyse, Free, WorkerStep
  <2>4. job' \in [Workers -> Jobs \cup {NoJob}]
    BY <1>10 DEF Reanalyse, Free
  <2>5. att' \in [Workers -> 0..MaxAttempts]
    BY <1>10 DEF Reanalyse, Free
  <2>6. code' \in [Workers -> Code]
    BY <1>10 DEF Reanalyse, Free, Code
  <2>7. TypeOK'
    BY <1>10, <2>1, <2>2, <2>3, <2>4, <2>5, <2>6
       DEF Reanalyse, Free
  <2>8. Registers'
    BY <1>10 DEF Reanalyse, Free, Registers
  <2> QED
    BY <2>7, <2>8
<1> QED
  BY <1>1, <1>2, <1>3, <1>4, <1>5, <1>6, <1>7, <1>8, <1>9, <1>10 DEF Handle

LEMMA TypeTakeBreak ==
  ASSUME TypeInv, NEW w \in Workers,
         Break(w) \/ \E j \in Jobs : Take(w, j)
  PROVE  TypeInv'
<1> USE DEF TypeInv, TypeOK, jobVars, postVars, brokerVars, workerVars,
            recoveryVars, budgetVars
<1>1. CASE GiveUpBeforeClaim(w)
  BY <1>1 DEF GiveUpBeforeClaim, Free, Fault, Registers, WorkerStep, Code
<1>2. CASE FailLost(w)
  BY <1>2 DEF FailLost, Free, Fault, Registers, WorkerStep, Code
<1>3. CASE Crash(w)
  <2>1. queue' \in [Jobs -> 0..MaxQueue]
    <3>1. CASE queue' = queue
      BY <3>1
    <3>2. CASE queue' # queue
      <4>1. job[w] \in Jobs /\ queue[job[w]] + 1 \in 0..MaxQueue
        BY <1>3, <3>2 DEF Crash, Send, Registers
      <4>2. queue' = [queue EXCEPT ![job[w]] = queue[job[w]] + 1]
        BY <1>3, <3>2, <4>1 DEF Crash, Send
      <4> QED
        BY <4>1, <4>2
    <3> QED
      BY <3>1, <3>2
  <2>2. requeue' \in [Jobs -> 0..MaxQueue]
    <3>1. CASE requeue' = requeue
      BY <3>1
    <3>2. CASE requeue' # requeue
      <4>1. job[w] \in Jobs /\ requeue[job[w]] + 1 \in 0..MaxQueue
        BY <1>3, <3>2 DEF Crash, Send, Registers
      <4>2. requeue' = [requeue EXCEPT ![job[w]] = requeue[job[w]] + 1]
        BY <1>3, <3>2, <4>1 DEF Crash, Send
      <4> QED
        BY <4>1, <4>2
    <3> QED
      BY <3>1, <3>2
  <2>3. pc' \in [Workers -> WorkerStep]
    BY <1>3 DEF Crash, Free, Fault, Send, WorkerStep
  <2>4. job' \in [Workers -> Jobs \cup {NoJob}]
    BY <1>3 DEF Crash, Free, Fault, Send
  <2>5. att' \in [Workers -> 0..MaxAttempts]
    BY <1>3 DEF Crash, Free, Fault, Send
  <2>6. code' \in [Workers -> Code]
    BY <1>3 DEF Crash, Free, Fault, Send, Code
  <2>7. faults' \in 0..MaxFaults /\ manual' \in 0..MaxManual
       /\ rules' \in 0..MaxRules
    BY <1>3 DEF Crash, Free, Fault, Send
  <2>8. TypeOK'
    BY <1>3, <2>1, <2>2, <2>3, <2>4, <2>5, <2>6, <2>7
       DEF Crash, Free, Fault, Send
  <2>9. Registers'
    BY <1>3 DEF Crash, Free, Fault, Send, Registers
  <2> QED
    BY <2>8, <2>9
<1>4. ASSUME NEW j \in Jobs, Receive(w, j) PROVE TypeInv'
  <2>1. queue' \in [Jobs -> 0..MaxQueue]
    BY <1>4 DEF Receive
  <2>2. pc' \in [Workers -> WorkerStep]
    <3>1. pc' = pc \/ pc' = [pc EXCEPT ![w] = "chosen"]
      BY <1>4 DEF Receive
    <3> QED
      BY <3>1 DEF WorkerStep
  <2>3. job' \in [Workers -> Jobs \cup {NoJob}]
    BY <1>4 DEF Receive
  <2>4. TypeOK'
    BY <1>4, <2>1, <2>2, <2>3
       DEF Receive
  <2>5. Registers'
    <3>1. CASE status[j] = "pending"
      <4>1. /\ pc' = [pc EXCEPT ![w] = "chosen"]
            /\ job' = [job EXCEPT ![w] = j]
            /\ att' = att /\ last' = last /\ att[w] = 0
        BY <1>4, <3>1 DEF Receive, Registers
      <4> QED
        BY <4>1 DEF Registers
    <3>2. CASE status[j] # "pending"
      BY <1>4, <3>2 DEF Receive, Registers
    <3> QED
      BY <3>1, <3>2
  <2> QED
    BY <2>4, <2>5
<1>5. ASSUME NEW j \in Jobs, ReceiveReanalysis(w, j) PROVE TypeInv'
  <2>1. requeue' \in [Jobs -> 0..MaxQueue]
    BY <1>5 DEF ReceiveReanalysis
  <2>2. pc' \in [Workers -> WorkerStep]
    BY <1>5 DEF ReceiveReanalysis, WorkerStep
  <2>3. job' \in [Workers -> Jobs \cup {NoJob}]
    BY <1>5 DEF ReceiveReanalysis
  <2>4. TypeOK'
    BY <1>5, <2>1, <2>2, <2>3
       DEF ReceiveReanalysis
  <2>5. Registers'
    BY <1>5 DEF ReceiveReanalysis, Registers
  <2> QED
    BY <2>4, <2>5
<1> QED
  BY <1>1, <1>2, <1>3, <1>4, <1>5 DEF Break, Take

LEMMA TypeOperate ==
  ASSUME TypeInv, NEW o \in Operators, Operate(o)
  PROVE  TypeInv'
<1> USE DEF TypeInv, TypeOK, jobVars, postVars, brokerVars, workerVars,
            recoveryVars, budgetVars
<1>1. ASSUME NEW j \in Jobs, ReadForRetry(o, j) PROVE TypeInv'
  BY <1>1 DEF ReadForRetry, Registers
<1>2. ASSUME NEW j \in Jobs, ResendPending(o, j) PROVE TypeInv'
  <2>1. queue' \in [Jobs -> 0..MaxQueue]
    BY <1>2 DEF ResendPending, Send
  <2>2. faults' \in 0..MaxFaults /\ manual' \in 0..MaxManual
       /\ rules' \in 0..MaxRules
    BY <1>2 DEF ResendPending, Send
  <2>3. TypeOK'
    BY <1>2, <2>1, <2>2
       DEF ResendPending, Send
  <2>4. Registers'
    BY <1>2 DEF ResendPending, Send, Registers
  <2> QED
    BY <2>3, <2>4
<1>3. CASE RetryByHand(o)
  <2>1. items' \in [Jobs -> 0..MaxAttempts]
    BY <1>3 DEF RetryByHand
  <2>2. analysed' \in [Jobs -> BOOLEAN]
    BY <1>3 DEF RetryByHand
  <2>3. status' \in [Jobs -> Status]
    BY <1>3 DEF RetryByHand, Status
  <2>4. queue' \in [Jobs -> 0..MaxQueue]
    BY <1>3 DEF RetryByHand, Send
  <2>5. seen' \in [Operators -> Jobs \cup {NoJob}]
    BY <1>3 DEF RetryByHand
  <2>6. faults' \in 0..MaxFaults /\ manual' \in 0..MaxManual
       /\ rules' \in 0..MaxRules
    BY <1>3 DEF RetryByHand, Send, Try, Fault
  <2>7. TypeOK'
    BY <1>3, <2>1, <2>2, <2>3, <2>4, <2>5, <2>6
       DEF RetryByHand, Send, Try, Fault
  <2>8. Registers'
    BY <1>3 DEF RetryByHand, Send, Try, Fault, Registers
  <2> QED
    BY <2>7, <2>8
<1> QED
  BY <1>1, <1>2, <1>3 DEF Operate

LEMMA TypeRecover ==
  ASSUME TypeInv, Recover \/ RecoveryCrash
  PROVE  TypeInv'
<1> USE DEF TypeInv, TypeOK, jobVars, postVars, brokerVars, workerVars,
            recoveryVars, budgetVars
<1>1. CASE FindStaleRunning
  BY <1>1 DEF FindStaleRunning, Registers, RecoveryStep
<1>2. CASE ResetStaleRunning
  BY <1>2 DEF ResetStaleRunning, Registers, RecoveryStep, Status
<1>3. CASE FindStalePending
  BY <1>3 DEF FindStalePending, Registers, RecoveryStep
<1>4. CASE FindAnalysisFailed
  BY <1>4 DEF FindAnalysisFailed, Registers, RecoveryStep
<1>5. ASSUME NEW j \in Jobs, MarkRetried(j) PROVE TypeInv'
  <2>1. found' \in SUBSET Jobs
    BY <1>5 DEF MarkRetried
  <2>2. errmsg' \in [Jobs -> ErrorMessage]
    <3>1. CASE errmsg' = errmsg
      BY <3>1
    <3>2. CASE errmsg' = [errmsg EXCEPT ![j] = "ANALYSIS_FAILED_RETRIED"]
      BY <3>2 DEF ErrorMessage
    <3> QED
      BY <1>5, <3>1, <3>2 DEF MarkRetried
  <2>3. requeue' \in [Jobs -> 0..MaxQueue]
    <3>1. CASE requeue' = requeue
      BY <3>1
    <3>2. ASSUME NEW ok \in BOOLEAN, requeue[j] < MaxQueue,
                 requeue' = [requeue EXCEPT ![j] = IF ok THEN @ + 1 ELSE @]
          PROVE  requeue' \in [Jobs -> 0..MaxQueue]
      <4>1. requeue[j] + 1 \in 0..MaxQueue
        BY <3>2
      <4> QED
        BY <3>2, <4>1
    <3> QED
      BY <1>5, <3>1, <3>2 DEF MarkRetried
  <2>4. faults' \in 0..MaxFaults /\ manual' \in 0..MaxManual
       /\ rules' \in 0..MaxRules
    BY <1>5 DEF MarkRetried, Try, Fault
  <2>5. TypeOK'
    BY <1>5, <2>1, <2>2, <2>3, <2>4
       DEF MarkRetried, Try, Fault
  <2>6. Registers'
    BY <1>5 DEF MarkRetried, Try, Fault, Registers
  <2> QED
    BY <2>5, <2>6
<1>6. CASE FindRejected
  BY <1>6 DEF FindRejected, Registers, RecoveryStep
<1>7. ASSUME NEW j \in Jobs, ResetRejected(j) PROVE TypeInv'
  <2>1. found' \in SUBSET Jobs
    BY <1>7 DEF ResetRejected
  <2>2. status' \in [Jobs -> Status]
    <3>1. CASE status' = status
      BY <3>1
    <3>2. CASE status' = [status EXCEPT ![j] = "pending"]
      BY <3>2 DEF Status
    <3> QED
      BY <1>7, <3>1, <3>2 DEF ResetRejected
  <2>3. items' \in [Jobs -> 0..MaxAttempts]
    <3>1. CASE items' = items
      BY <3>1
    <3>2. CASE items' = [items EXCEPT ![j] = 0]
      BY <3>2
    <3> QED
      BY <1>7, <3>1, <3>2 DEF ResetRejected
  <2>4. analysed' \in [Jobs -> BOOLEAN]
    BY <1>7 DEF ResetRejected
  <2>5. todo' \in SUBSET Jobs
    BY <1>7 DEF ResetRejected
  <2>6. TypeOK'
    BY <1>7, <2>1, <2>2, <2>3, <2>4, <2>5
       DEF ResetRejected
  <2>7. Registers'
    BY <1>7 DEF ResetRejected, Registers
  <2> QED
    BY <2>6, <2>7
<1>8. CASE NotifyGivenUp
  <2>1. notified' \in [Jobs -> BOOLEAN]
    BY <1>8 DEF NotifyGivenUp, Try, Fault
  <2>2. faults' \in 0..MaxFaults /\ manual' \in 0..MaxManual
       /\ rules' \in 0..MaxRules
    BY <1>8 DEF NotifyGivenUp, Try, Fault
  <2>3. rpc' \in RecoveryStep
    BY <1>8 DEF NotifyGivenUp, Try, Fault, RecoveryStep
  <2>4. TypeOK'
    BY <1>8, <2>1, <2>2, <2>3
       DEF NotifyGivenUp, Try, Fault
  <2>5. Registers'
    BY <1>8 DEF NotifyGivenUp, Try, Fault, Registers
  <2> QED
    BY <2>4, <2>5
<1>9. ASSUME NEW j \in Jobs, Reenqueue(j) PROVE TypeInv'
  <2>1. queue' \in [Jobs -> 0..MaxQueue]
    <3>1. CASE status[j] = "pending"
      <4>1. queue[j] + 1 \in 0..MaxQueue
        BY <1>9, <3>1 DEF Reenqueue, Send
      <4> QED
        BY <1>9, <3>1, <4>1 DEF Reenqueue, Send
    <3>2. CASE status[j] # "pending"
      BY <1>9, <3>2 DEF Reenqueue
    <3> QED
      BY <3>1, <3>2
  <2>2. requeue' \in [Jobs -> 0..MaxQueue]
    BY <1>9 DEF Reenqueue, Send
  <2>3. todo' \in SUBSET Jobs
    BY <1>9 DEF Reenqueue, Send
  <2>4. TypeOK'
    BY <1>9, <2>1, <2>2, <2>3
       DEF Reenqueue, Send
  <2>5. Registers'
    BY <1>9 DEF Reenqueue, Send, Registers
  <2> QED
    BY <2>4, <2>5
<1>10. CASE FinishRecovery
  BY <1>10 DEF FinishRecovery, Registers, RecoveryStep
<1>11. CASE RecoveryCrash
  BY <1>11 DEF RecoveryCrash, Fault, Registers, RecoveryStep
<1> QED
  BY <1>1, <1>2, <1>3, <1>4, <1>5, <1>6, <1>7, <1>8, <1>9, <1>10, <1>11
     DEF Recover

LEMMA TypeStutter ==
  ASSUME TypeInv, UNCHANGED vars
  PROVE  TypeInv'
BY DEF TypeInv, TypeOK, Registers, vars, jobVars, postVars, brokerVars,
       workerVars, recoveryVars, budgetVars

LEMMA TypeStep == TypeInv /\ [Next]_vars => TypeInv'
BY TypeEnvironment, TypeHandle, TypeTakeBreak, TypeOperate, TypeRecover,
   TypeStutter DEF Next

(* Every variable keeps its type and every worker its posting and attempt. *)
THEOREM TypeCorrect == Spec => [](TypeOK /\ Registers)
BY TypeInit, TypeStep, PTL DEF Spec, TypeInv

-----------------------------------------------------------------------------
(* One job, one story: the status and the latest attempt agree, and an     *)
(* answer is accepted once                                                 *)

LEMMA StoryInit == Init => Story
BY DEF Init, Story, JobMatchesLatestAttempt, ExtractedOnce, Unused, LatestIn

(* A worker that owns its job holds the latest attempt, which is live.     *)
LEMMA OwnedFacts ==
  ASSUME TypeOK, NEW w \in Workers, Owned(w)
  PROVE  /\ job[w] \in Jobs
         /\ status[job[w]] = "running"
         /\ att[w] \in 1..MaxAttempts /\ att[w] = last[job[w]]
         /\ phase[job[w]][att[w]] \in {"started", "received"}
BY DEF TypeOK, Owned, LatestIn, Live

LEMMA StoryFrame ==
  ASSUME Story, UNCHANGED <<status, last, phase>>
  PROVE  Story'
BY DEF Story, JobMatchesLatestAttempt, ExtractedOnce, Unused, LatestIn

(* Steps that only open or close jobs keep the story if each job moves     *)
(* along one of these edges.                                               *)
LEMMA StoryStatus ==
  ASSUME TypeOK, Story, UNCHANGED <<last, phase>>,
         \A j \in Jobs :
           \/ status'[j] = status[j]
           \/ status[j] = "none" /\ status'[j] = "pending"
           \/ status[j] \in {"running", "error"} /\ status'[j] = "pending"
           \/ status'[j] \in {"empty", "filtered"}
  PROVE  Story'
<1>1. ASSUME NEW j \in Jobs
      PROVE  /\ status'[j] = "none" => last[j] = 0
             /\ status'[j] = "pending" => ~ LatestIn(j, {"completed"})
             /\ status'[j] = "running" => LatestIn(j, Live)
             /\ status'[j] = "error" => LatestIn(j, {"failed", "rejected"})
             /\ status'[j] = "done" => LatestIn(j, {"completed"})
  <2>1. CASE status'[j] = status[j]
    BY <2>1 DEF Story, JobMatchesLatestAttempt
  <2>2. CASE status[j] = "none" /\ status'[j] = "pending"
    BY <2>2 DEF Story, JobMatchesLatestAttempt, LatestIn
  <2>3. CASE status[j] \in {"running", "error"} /\ status'[j] = "pending"
    BY <2>3 DEF Story, JobMatchesLatestAttempt, LatestIn, Live
  <2>4. CASE status'[j] \in {"empty", "filtered"}
    BY <2>4
  <2> QED
    BY <2>1, <2>2, <2>3, <2>4
<1>2. JobMatchesLatestAttempt'
  BY <1>1 DEF JobMatchesLatestAttempt, LatestIn
<1>3. ExtractedOnce'
  <2>1. ASSUME NEW j \in Jobs, NEW k \in 1..MaxAttempts,
               phase[j][k] = "completed"
        PROVE  k = last[j] /\ status'[j] \in {"done", "empty", "filtered"}
    BY <2>1 DEF Story, ExtractedOnce
  <2> QED
    BY <2>1 DEF ExtractedOnce
<1>4. Unused'
  BY DEF Story, Unused
<1> QED
  BY <1>2, <1>3, <1>4 DEF Story

LEMMA StoryHandle ==
  ASSUME TypeInv, Story, NEW w \in Workers, Handle(w)
  PROVE  Story'
<1> USE DEF TypeInv
<1>1. CASE Skip(w)
  <2>1. /\ job[w] \in Jobs
        /\ \/ status' = [status EXCEPT ![job[w]] = "empty"]
           \/ status' = [status EXCEPT ![job[w]] = "filtered"]
        /\ UNCHANGED <<last, phase>>
    BY <1>1 DEF Skip, Registers
  <2>2. status \in [Jobs -> Status]
    BY DEF TypeOK
  <2> QED
    BY <2>1, <2>2, StoryStatus
<1>2. CASE Claim(w)
  <2> DEFINE j == job[w]
             k == last[j] + 1
  <2>1. /\ j \in Jobs /\ k \in 1..MaxAttempts /\ k - 1 = last[j]
        /\ status[j] = "pending"
        /\ status' = [status EXCEPT ![j] = "running"]
        /\ last' = [last EXCEPT ![j] = k]
        /\ phase' = [phase EXCEPT ![j][k] = "started"]
    BY <1>2 DEF Claim, Claimable, Registers, TypeOK
  <2>2. /\ status \in [Jobs -> Status]
        /\ last \in [Jobs -> 0..MaxAttempts]
        /\ phase \in [Jobs -> [1..MaxAttempts -> Phase]]
    BY DEF TypeOK
  <2>3. \A i \in Jobs : /\ status'[i] = IF i = j THEN "running" ELSE status[i]
                        /\ last'[i] = IF i = j THEN k ELSE last[i]
    BY <2>1, <2>2
  <2>4. \A i \in Jobs : \A m \in 1..MaxAttempts :
          phase'[i][m] = IF i = j /\ m = k THEN "started" ELSE phase[i][m]
    BY <2>1, <2>2
  <2> HIDE DEF j, k
  <2>5. JobMatchesLatestAttempt'
    BY <2>1, <2>2, <2>3, <2>4
       DEF Story, JobMatchesLatestAttempt, LatestIn, Live
  <2>6. ExtractedOnce'
    <3>1. \A m \in 1..MaxAttempts : phase[j][m] # "completed"
      BY <2>1, <2>2 DEF Story, JobMatchesLatestAttempt, ExtractedOnce, LatestIn
    <3> QED
      BY <2>1, <2>3, <2>4, <3>1 DEF Story, ExtractedOnce
  <2>7. Unused'
    BY <2>1, <2>2, <2>3, <2>4 DEF Story, Unused
  <2> QED
    BY <2>5, <2>6, <2>7 DEF Story
<1>3. CASE Respond(w) /\ phase' # phase
  <2>1. /\ Owned(w)
        /\ phase' = [phase EXCEPT ![job[w]][att[w]] = "received"]
        /\ UNCHANGED <<status, last>>
    BY <1>3 DEF Respond
  <2>3. /\ last \in [Jobs -> 0..MaxAttempts]
        /\ phase \in [Jobs -> [1..MaxAttempts -> Phase]]
    BY DEF TypeOK
  <2>2. \A i \in Jobs : \A m \in 1..MaxAttempts :
          phase'[i][m] = IF i = job[w] /\ m = att[w] THEN "received"
                                                    ELSE phase[i][m]
    BY <2>1, <2>3
  <2>4. JobMatchesLatestAttempt'
    BY <2>1, <2>2, <2>3, OwnedFacts
       DEF Story, JobMatchesLatestAttempt, LatestIn, Live
  <2>5. ExtractedOnce' /\ Unused'
    BY <2>1, <2>2, <2>3, OwnedFacts DEF Story, ExtractedOnce, Unused
  <2> QED
    BY <2>4, <2>5 DEF Story
<1>4. CASE Save(w)
  <2>1. PICK s \in {"empty", "done"} :
          /\ Owned(w)
          /\ status' = [status EXCEPT ![job[w]] = s]
          /\ phase' = [phase EXCEPT ![job[w]][att[w]] = "completed"]
          /\ last' = last
    BY <1>4 DEF Save, SavedStatus
  <2>3. /\ last \in [Jobs -> 0..MaxAttempts]
        /\ status \in [Jobs -> Status]
        /\ phase \in [Jobs -> [1..MaxAttempts -> Phase]]
    BY DEF TypeOK
  <2>2. \A i \in Jobs : \A m \in 1..MaxAttempts :
          phase'[i][m] = IF i = job[w] /\ m = att[w] THEN "completed"
                                                    ELSE phase[i][m]
    BY <2>1, <2>3
  <2>4. \A i \in Jobs : status'[i] = IF i = job[w] THEN s ELSE status[i]
    BY <2>1, <2>3
  <2>5. JobMatchesLatestAttempt'
    BY <2>1, <2>2, <2>3, <2>4, OwnedFacts
       DEF Story, JobMatchesLatestAttempt, LatestIn, Live
  <2>6. ExtractedOnce'
    BY <2>1, <2>2, <2>3, <2>4, OwnedFacts DEF Story, ExtractedOnce
  <2>7. Unused'
    BY <2>1, <2>2, <2>3, OwnedFacts DEF Story, Unused
  <2> QED
    BY <2>5, <2>6, <2>7 DEF Story
<1>5. CASE Fail(w) /\ Owned(w)
  <2>1. PICK p \in {"rejected", "failed"} :
          /\ status' = [status EXCEPT ![job[w]] = "error"]
          /\ phase' = [phase EXCEPT ![job[w]][att[w]] = p]
          /\ last' = last
    BY <1>5 DEF Fail
  <2>3. /\ last \in [Jobs -> 0..MaxAttempts]
        /\ status \in [Jobs -> Status]
        /\ phase \in [Jobs -> [1..MaxAttempts -> Phase]]
    BY DEF TypeOK
  <2>2. \A i \in Jobs : \A m \in 1..MaxAttempts :
          phase'[i][m] = IF i = job[w] /\ m = att[w] THEN p ELSE phase[i][m]
    BY <2>1, <2>3
  <2>4. \A i \in Jobs : status'[i] = IF i = job[w] THEN "error" ELSE status[i]
    BY <2>1, <2>3
  <2>5. JobMatchesLatestAttempt'
    BY <1>5, <2>1, <2>2, <2>3, <2>4, OwnedFacts
       DEF Story, JobMatchesLatestAttempt, LatestIn, Live
  <2>6. ExtractedOnce'
    BY <1>5, <2>1, <2>2, <2>3, <2>4, OwnedFacts DEF Story, ExtractedOnce
  <2>7. Unused'
    BY <1>5, <2>1, <2>2, <2>3, OwnedFacts DEF Story, Unused
  <2> QED
    BY <2>5, <2>6, <2>7 DEF Story
<1>6. CASE UNCHANGED <<status, last, phase>>
  BY <1>6, StoryFrame
<1>7. \/ Skip(w) \/ Claim(w) \/ Save(w)
      \/ Respond(w) /\ phase' # phase
      \/ Fail(w) /\ Owned(w)
      \/ UNCHANGED <<status, last, phase>>
  BY DEF Handle, ClaimConflict, Respond, Refuse, SaveConflict, Fail, Analyse,
         Reanalyse, jobVars
<1> QED
  BY <1>1, <1>2, <1>3, <1>4, <1>5, <1>6, <1>7

LEMMA StoryOthers ==
  ASSUME TypeInv, Story,
         \/ \E j \in Jobs : Environment(j)
         \/ \E w \in Workers : Break(w) \/ \E j \in Jobs : Take(w, j)
         \/ \E o \in Operators : Operate(o)
         \/ Recover
         \/ RecoveryCrash
         \/ UNCHANGED vars
  PROVE  Story'
<1> USE DEF TypeInv, jobVars
<1>0. status \in [Jobs -> Status]
  BY DEF TypeOK
<1>1. ASSUME NEW j \in Jobs, Import(j) PROVE Story'
  BY <1>0, <1>1, StoryStatus DEF Import
<1>2. ASSUME NEW o \in Operators, RetryByHand(o) PROVE Story'
  BY <1>0, <1>2, StoryStatus DEF RetryByHand
<1>3. CASE ResetStaleRunning
  BY <1>0, <1>3, StoryStatus DEF ResetStaleRunning, StillRunning
<1>4. ASSUME NEW j \in Jobs, ResetRejected(j) PROVE Story'
  BY <1>0, <1>4, StoryStatus DEF ResetRejected
<1>5. CASE UNCHANGED <<status, last, phase>>
  BY <1>5, StoryFrame
<1>6. ASSUME NEW j \in Jobs, Environment(j), ~ Import(j)
      PROVE  UNCHANGED <<status, last, phase>>
  BY <1>6 DEF Environment, Supersede, ChangeRules, QuarterPasses, DayPasses
<1>7. ASSUME NEW w \in Workers, Break(w) \/ \E j \in Jobs : Take(w, j)
      PROVE  UNCHANGED <<status, last, phase>>
  BY <1>7 DEF Break, GiveUpBeforeClaim, FailLost, Crash, Take, Receive,
              ReceiveReanalysis
<1>8. ASSUME NEW o \in Operators, Operate(o), ~ RetryByHand(o)
      PROVE  UNCHANGED <<status, last, phase>>
  BY <1>8 DEF Operate, ReadForRetry, ResendPending
<1>9. ASSUME Recover \/ RecoveryCrash, ~ ResetStaleRunning,
             ~ \E j \in Jobs : ResetRejected(j)
      PROVE  UNCHANGED <<status, last, phase>>
  BY <1>9 DEF Recover, RecoveryCrash, FindStaleRunning, FindStalePending,
              FindAnalysisFailed, MarkRetried, FindRejected, NotifyGivenUp,
              Reenqueue, FinishRecovery
<1>10. UNCHANGED vars => UNCHANGED <<status, last, phase>>
  BY DEF vars
<1> QED
  BY <1>1, <1>2, <1>3, <1>4, <1>5, <1>6, <1>7, <1>8, <1>9, <1>10

LEMMA StoryStep == TypeInv /\ Story /\ [Next]_vars => Story'
BY StoryHandle, StoryOthers DEF Next

LEMMA IInvAlways == Spec => []IInv
<1>1. Init => TypeInv /\ Story
  BY TypeInit, StoryInit DEF TypeInv
<1>2. TypeInv /\ Story /\ [Next]_vars => TypeInv' /\ Story'
  BY TypeStep, StoryStep
<1>3. TypeInv /\ Story => IInv
  BY DEF TypeInv, IInv
<1> QED
  BY <1>1, <1>2, <1>3, PTL DEF Spec

(* The row of a job and the row of its latest attempt tell one story.      *)
THEOREM JobAndAttemptAgree == Spec => []JobMatchesLatestAttempt
<1>1. IInv => JobMatchesLatestAttempt
  BY DEF IInv, Story
<1> QED
  BY <1>1, IInvAlways, PTL

(* An answer of Gemini is accepted at most once per posting.               *)
THEOREM AcceptedOnce == Spec => []ExtractedOnce
<1>1. IInv => ExtractedOnce
  BY DEF IInv, Story
<1> QED
  BY <1>1, IInvAlways, PTL

-----------------------------------------------------------------------------
(* Attempts that ended are not written again                               *)

LEMMA EndedHandle ==
  ASSUME TypeInv, Story, NEW w \in Workers, Handle(w)
  PROVE  EndedStay
<1>0. /\ last \in [Jobs -> 0..MaxAttempts]
      /\ phase \in [Jobs -> [1..MaxAttempts -> Phase]]
  BY DEF TypeInv, TypeOK
<1>1. CASE Claim(w)
  <2> DEFINE j == job[w]
             k == last[j] + 1
  <2>1. /\ j \in Jobs /\ k \in 1..MaxAttempts /\ ~ (k < last[j])
        /\ phase[j][k] = "none"
        /\ phase' = [phase EXCEPT ![j][k] = "started"]
    <3>1. j \in Jobs /\ k \in 1..MaxAttempts /\ k > last[j]
      BY <1>0, <1>1 DEF Claim, TypeInv, Registers
    <3>2. phase[j][k] = "none"
      BY <3>1 DEF Story, Unused
    <3> QED
      BY <1>0, <1>1, <3>1, <3>2 DEF Claim
  <2> HIDE DEF j, k
  <2> QED
    BY <1>0, <2>1 DEF EndedStay, Ended
<1>2. CASE Owned(w) /\ (Respond(w) \/ Save(w) \/ Fail(w)) /\ phase' # phase
  <2>1. PICK p \in Phase : phase' = [phase EXCEPT ![job[w]][att[w]] = p]
    BY <1>2 DEF Respond, Save, Fail, Phase
  <2>2. /\ job[w] \in Jobs
        /\ att[w] \in 1..MaxAttempts /\ att[w] = last[job[w]]
        /\ phase[job[w]][att[w]] \in {"started", "received"}
    BY <1>2, OwnedFacts DEF TypeInv
  <2> QED
    BY <1>0, <2>1, <2>2 DEF EndedStay, Ended
<1>3. CASE phase' = phase
  BY <1>3 DEF EndedStay
<1>4. \/ Claim(w)
      \/ Owned(w) /\ (Respond(w) \/ Save(w) \/ Fail(w)) /\ phase' # phase
      \/ phase' = phase
  BY DEF Handle, Skip, ClaimConflict, Respond, Refuse, Save, SaveConflict,
         Fail, Analyse, Reanalyse, jobVars
<1> QED
  BY <1>1, <1>2, <1>3, <1>4

LEMMA EndedOthers ==
  ASSUME \/ \E j \in Jobs : Environment(j)
         \/ \E w \in Workers : Break(w) \/ \E j \in Jobs : Take(w, j)
         \/ \E o \in Operators : Operate(o)
         \/ Recover
         \/ RecoveryCrash
  PROVE  EndedStay
<1> USE DEF jobVars
<1>1. ASSUME NEW j \in Jobs, Environment(j) PROVE phase' = phase
  BY <1>1 DEF Environment, Import, Supersede, ChangeRules, QuarterPasses,
              DayPasses
<1>2. ASSUME NEW w \in Workers, Break(w) \/ \E j \in Jobs : Take(w, j)
      PROVE  phase' = phase
  BY <1>2 DEF Break, GiveUpBeforeClaim, FailLost, Crash, Take, Receive,
              ReceiveReanalysis
<1>3. ASSUME NEW o \in Operators, Operate(o) PROVE phase' = phase
  BY <1>3 DEF Operate, ReadForRetry, RetryByHand, ResendPending
<1>4. ASSUME Recover \/ RecoveryCrash PROVE phase' = phase
  BY <1>4 DEF Recover, RecoveryCrash, FindStaleRunning, ResetStaleRunning,
              FindStalePending, FindAnalysisFailed, MarkRetried, FindRejected,
              ResetRejected, NotifyGivenUp, Reenqueue, FinishRecovery
<1>5. phase' = phase
  BY <1>1, <1>2, <1>3, <1>4
<1> QED
  BY <1>5 DEF EndedStay

(* An attempt that ended or was fenced is never written again.             *)
THEOREM EndedAttemptsNeverChange == Spec => EndedAttemptsStay
<1>1. TypeInv /\ Story /\ Next => EndedStay
  BY EndedHandle, EndedOthers DEF Next
<1>2. IInv => TypeInv /\ Story
  BY DEF IInv, TypeInv
<1>3. IInv /\ [Next]_vars => [EndedStay]_vars
  BY <1>1, <1>2
<1> QED
  BY <1>3, IInvAlways, PTL DEF Spec, EndedAttemptsStay

-----------------------------------------------------------------------------
(* The promise of ExtractionJob is kept as long as no exclusion rule       *)
(* changes (MaxRules = 0).  With a rule that changes under a worker it is  *)
(* broken: see OnlyPendingIsSkipped.                                       *)

(* How a posting that needs no extraction ends.                            *)
SkipStatus(j) == IF j \in EmptyText THEN "empty" ELSE "filtered"

(* What the refinement needs besides IInv: a posting that is skipped is    *)
(* never tried, so the unguarded UPDATE of Skip writes what is there.      *)
Skipped ==
  /\ \A j \in Jobs : Skippable(j) =>
       last[j] = 0 /\ status[j] \in {"none", "pending", SkipStatus(j)}
  /\ \A w \in Workers : pc[w] = "chosen" => status[job[w]] # "none"

LEMMA SkippedInit == Init => Skipped
BY DEF Init, Skipped

LEMMA SkippedFrame ==
  ASSUME Skipped, UNCHANGED <<status, last, ruled, pc, job>>
  PROVE  Skipped'
BY DEF Skipped, Skippable, SkipStatus

(* A worker keeps Skipped: it claims only what is not skipped.             *)
LEMMA SkippedHandle ==
  ASSUME TypeInv, Story, Skipped, NEW w \in Workers, Handle(w)
  PROVE  Skipped'
<1>0. /\ status \in [Jobs -> Status]
      /\ last \in [Jobs -> 0..MaxAttempts]
      /\ pc \in [Workers -> WorkerStep]
      /\ job \in [Workers -> Jobs \cup {NoJob}]
      /\ \A v \in Workers : pc[v] # "idle" => job[v] \in Jobs
  BY DEF TypeInv, TypeOK, Registers
<1>1. ruled' = ruled
  BY DEF Handle, Skip, Claim, ClaimConflict, Respond, Refuse, Save,
         SaveConflict, Fail, Analyse, Reanalyse, postVars
<1>2. \A v \in Workers : pc'[v] = "chosen" =>
        pc[v] = "chosen" /\ job'[v] = job[v]
  BY <1>0 DEF Handle, Skip, Claim, ClaimConflict, Respond, Refuse, Save,
              SaveConflict, Fail, Analyse, Reanalyse, GoTo, Free, WorkerStep
<1>3. \A j \in Jobs : Skippable(j) =>
        \/ last'[j] = last[j] /\ status'[j] = status[j]
        \/ last'[j] = last[j] /\ status'[j] = SkipStatus(j)
  <2>1. CASE Skip(w)
    <3>1. /\ job[w] \in Jobs /\ last' = last
          /\ status' = [status EXCEPT ![job[w]] = SkipStatus(job[w])]
      BY <1>0, <2>1 DEF Skip, SkipStatus
    <3> QED
      BY <1>0, <3>1
  <2>2. CASE Claim(w)
    <3>1. /\ job[w] \in Jobs /\ ~ Skippable(job[w])
          /\ status' = [status EXCEPT ![job[w]] = "running"]
          /\ last' = [last EXCEPT ![job[w]] = last[job[w]] + 1]
      BY <1>0, <2>2 DEF Claim
    <3> QED
      BY <1>0, <3>1
  <2>3. CASE (Save(w) \/ Fail(w)) /\ Owned(w)
    <3>1. last[job[w]] # 0 /\ job[w] \in Jobs
      BY <1>0, <2>3, OwnedFacts DEF TypeInv
    <3>2. ~ Skippable(job[w])
      BY <3>1 DEF Skipped
    <3>3. /\ last' = last
          /\ \E s \in {"empty", "done", "error"} :
               status' = [status EXCEPT ![job[w]] = s]
      BY <2>3 DEF Save, Fail, SavedStatus
    <3> QED
      BY <1>0, <3>2, <3>3
  <2>4. CASE UNCHANGED <<status, last>>
    BY <2>4
  <2> QED
    BY <2>1, <2>2, <2>3, <2>4
       DEF Handle, ClaimConflict, Respond, Refuse, Save, SaveConflict, Fail,
           Analyse, Reanalyse, jobVars
<1>4. \A j \in Jobs : status[j] # "none" => status'[j] # "none"
  <2>1. \/ status' = status
        \/ \E s \in Status \ {"none"} : status' = [status EXCEPT ![job[w]] = s]
    BY DEF Handle, Skip, Claim, ClaimConflict, Respond, Refuse, Save,
           SaveConflict, Fail, Analyse, Reanalyse, jobVars, Status, SavedStatus
  <2> QED
    BY <1>0, <2>1
<1>5. \A j \in Jobs : Skippable(j)' = Skippable(j)
  BY <1>1 DEF Skippable
<1>6. \A j \in Jobs : Skippable(j) =>
        last'[j] = 0 /\ status'[j] \in {"none", "pending", SkipStatus(j)}
  BY <1>3 DEF Skipped
<1>7. \A v \in Workers : pc'[v] = "chosen" => status'[job'[v]] # "none"
  BY <1>0, <1>2, <1>4 DEF Skipped
<1> QED
  BY <1>5, <1>6, <1>7 DEF Skipped, SkipStatus

(* Everyone else keeps it too: jobs are opened again only after a try, and *)
(* a worker chooses a posting only while its job is pending.               *)
LEMMA SkippedOthers ==
  ASSUME MaxRules = 0, TypeInv, Story, Skipped,
         \/ \E j \in Jobs : Environment(j)
         \/ \E w \in Workers : Break(w) \/ \E j \in Jobs : Take(w, j)
         \/ \E o \in Operators : Operate(o)
         \/ Recover
         \/ RecoveryCrash
         \/ UNCHANGED vars
  PROVE  Skipped'
<1> USE DEF jobVars, postVars, workerVars
<1>0. /\ status \in [Jobs -> Status]
      /\ last \in [Jobs -> 0..MaxAttempts]
      /\ pc \in [Workers -> WorkerStep]
      /\ job \in [Workers -> Jobs \cup {NoJob}]
      /\ \A v \in Workers : pc[v] # "idle" => job[v] \in Jobs
      /\ rules = 0
  BY DEF TypeInv, TypeOK, Registers
<1>1. ASSUME NEW j \in Jobs,
             status[j] = "none" \/ last[j] > 0,
             status' = [status EXCEPT ![j] = "pending"],
             UNCHANGED <<last, ruled, pc, job>>
      PROVE  Skipped'
  <2>1. \A i \in Jobs : Skippable(i)' = Skippable(i)
    BY <1>1 DEF Skippable
  <2>2. \A i \in Jobs : Skippable(i) =>
          last[i] = 0 /\ status'[i] \in {"none", "pending", SkipStatus(i)}
    BY <1>0, <1>1 DEF Skipped
  <2>3. \A v \in Workers : pc[v] = "chosen" => status'[job[v]] # "none"
    BY <1>0, <1>1 DEF Skipped
  <2> QED
    BY <1>1, <2>1, <2>2, <2>3 DEF Skipped, SkipStatus
<1>2. \A j \in Jobs : status[j] \in {"error", "running"} => last[j] > 0
  BY DEF Story, JobMatchesLatestAttempt, LatestIn
<1>3. ASSUME NEW j \in Jobs, Import(j) PROVE Skipped'
  BY <1>1, <1>3 DEF Import
<1>4. ASSUME NEW o \in Operators, RetryByHand(o) PROVE Skipped'
  <2>1. seen[o] \in Jobs /\ UNCHANGED <<last, ruled, pc, job>>
    BY <1>4 DEF RetryByHand
  <2>2. CASE status[seen[o]] = "error"
    BY <1>1, <1>2, <1>4, <2>1, <2>2 DEF RetryByHand
  <2>3. CASE status[seen[o]] # "error"
    <3>1. \A i \in Jobs : status'[i] = status[i]
      BY <1>0, <1>4, <2>1, <2>3 DEF RetryByHand
    <3> QED
      BY <1>0, <2>1, <3>1 DEF Skipped, Skippable, SkipStatus
  <2> QED
    BY <2>2, <2>3
<1>5. CASE ResetStaleRunning
  <2>1. \A j \in Jobs :
          \/ status'[j] = status[j]
          \/ status[j] = "running" /\ status'[j] = "pending"
    BY <1>5 DEF ResetStaleRunning, StillRunning
  <2>2. UNCHANGED <<last, ruled, pc, job>>
    BY <1>5 DEF ResetStaleRunning
  <2>3. \A i \in Jobs : Skippable(i)' = Skippable(i)
    BY <2>2 DEF Skippable
  <2>4. \A i \in Jobs : Skippable(i) =>
          last[i] = 0 /\ status'[i] \in {"none", "pending", SkipStatus(i)}
    BY <2>1, <1>2 DEF Skipped
  <2>5. \A v \in Workers : pc[v] = "chosen" => status'[job[v]] # "none"
    BY <1>0, <2>1 DEF Skipped
  <2> QED
    BY <2>2, <2>3, <2>4, <2>5 DEF Skipped, SkipStatus
<1>6. ASSUME NEW j \in Jobs, ResetRejected(j) PROVE Skipped'
  <2>1. CASE status' = status
    BY <1>6, <2>1, SkippedFrame DEF ResetRejected
  <2>2. CASE status[j] = "error" /\ status' # status
    BY <1>1, <1>2, <1>6, <2>2 DEF ResetRejected
  <2> QED
    BY <1>6, <2>1, <2>2 DEF ResetRejected
<1>7. ASSUME NEW w \in Workers, NEW j \in Jobs, Take(w, j) PROVE Skipped'
  <2>1. UNCHANGED <<status, last, ruled>>
    BY <1>7 DEF Take, Receive, ReceiveReanalysis
  <2>2. \A v \in Workers : pc'[v] = "chosen" => status[job'[v]] # "none"
    <3>1. CASE pc' = [pc EXCEPT ![w] = "chosen"]
      <4>1. status[j] = "pending" /\ job' = [job EXCEPT ![w] = j]
        BY <1>0, <1>7, <3>1 DEF Take, Receive, ReceiveReanalysis
      <4> QED
        BY <1>0, <3>1, <4>1 DEF Skipped
    <3>2. CASE pc' = [pc EXCEPT ![w] = "reanalysing"]
               /\ job' = [job EXCEPT ![w] = j]
      BY <1>0, <3>2 DEF Skipped
    <3>3. CASE UNCHANGED <<pc, job>>
      BY <3>3 DEF Skipped
    <3> QED
      BY <1>7, <3>1, <3>2, <3>3 DEF Take, Receive, ReceiveReanalysis
  <2> QED
    BY <2>1, <2>2 DEF Skipped, Skippable, SkipStatus
<1>8. ASSUME NEW w \in Workers, Break(w) PROVE Skipped'
  <2>1. UNCHANGED <<status, last, ruled>> /\ Free(w)
    BY <1>8 DEF Break, GiveUpBeforeClaim, FailLost, Crash
  <2>2. \A v \in Workers : pc'[v] = "chosen" => status[job'[v]] # "none"
    BY <1>0, <2>1 DEF Skipped, Free
  <2> QED
    BY <2>1, <2>2 DEF Skipped, Skippable, SkipStatus
<1>9. CASE UNCHANGED <<status, last, ruled, pc, job>>
  BY <1>9, SkippedFrame
<1>10. ASSUME NEW j \in Jobs, Environment(j), ~ Import(j)
       PROVE  UNCHANGED <<status, last, ruled, pc, job>>
  BY <1>0, <1>10 DEF Environment, Supersede, ChangeRules, QuarterPasses,
                     DayPasses
<1>11. ASSUME NEW o \in Operators, Operate(o), ~ RetryByHand(o)
       PROVE  UNCHANGED <<status, last, ruled, pc, job>>
  BY <1>11 DEF Operate, ReadForRetry, ResendPending
<1>12. ASSUME Recover \/ RecoveryCrash, ~ ResetStaleRunning,
              ~ \E j \in Jobs : ResetRejected(j)
       PROVE  UNCHANGED <<status, last, ruled, pc, job>>
  BY <1>12 DEF Recover, RecoveryCrash, FindStaleRunning, FindStalePending,
               FindAnalysisFailed, MarkRetried, FindRejected, NotifyGivenUp,
               Reenqueue, FinishRecovery
<1>13. UNCHANGED vars => UNCHANGED <<status, last, ruled, pc, job>>
  BY DEF vars
<1> QED
  BY <1>3, <1>4, <1>5, <1>6, <1>7, <1>8, <1>9, <1>10, <1>11, <1>12, <1>13

LEMMA SkippedStep ==
  ASSUME MaxRules = 0
  PROVE  TypeInv /\ Story /\ Skipped /\ [Next]_vars => Skipped'
BY SkippedHandle, SkippedOthers DEF Next

-----------------------------------------------------------------------------
(* Every step of the pipeline is a step of the promise, or nothing of it   *)

LEMMA PromiseInit == Init => Abstract!Init
BY DEF Init, Abstract!Init, Accepted, LatestIn

LEMMA PromiseFrame ==
  ASSUME UNCHANGED <<status, last, phase>>
  PROVE  UNCHANGED Abstract!vars
BY DEF Abstract!vars, Accepted, LatestIn

(* A job that waits or runs has no result yet.                             *)
LEMMA NoResultYet ==
  ASSUME Story, NEW j \in Jobs, status[j] \in {"pending", "running"}
  PROVE  Accepted(j) = 0
BY DEF Story, JobMatchesLatestAttempt, Accepted, LatestIn, Live

LEMMA PromiseHandle ==
  ASSUME TypeInv, Story, Skipped, NEW w \in Workers, Handle(w)
  PROVE  [Abstract!Next]_(Abstract!vars)
<1>0. /\ status \in [Jobs -> Status]
      /\ last \in [Jobs -> 0..MaxAttempts]
      /\ phase \in [Jobs -> [1..MaxAttempts -> Phase]]
      /\ \A v \in Workers : pc[v] # "idle" => job[v] \in Jobs
  BY DEF TypeInv, TypeOK, Registers
<1>1. CASE Skip(w)
  <2>1. /\ job[w] \in Jobs /\ UNCHANGED <<last, phase>>
        /\ status' = [status EXCEPT ![job[w]] = SkipStatus(job[w])]
        /\ status[job[w]] \in {"pending", SkipStatus(job[w])}
        /\ last[job[w]] = 0
    BY <1>0, <1>1 DEF Skip, SkipStatus, Skipped
  <2>2. \A i \in Jobs : Accepted(i)' = Accepted(i)
    BY <2>1 DEF Accepted, LatestIn
  <2>3. CASE status[job[w]] = "pending"
    <3>1. Accepted(job[w]) = 0
      BY <2>1 DEF Accepted, LatestIn
    <3>2. Abstract!Skip(job[w])
      BY <2>1, <2>2, <2>3, <3>1 DEF Abstract!Skip, Abstract!Become, SkipStatus
    <3> QED
      BY <2>1, <3>2 DEF Abstract!Next
  <2>4. CASE status[job[w]] = SkipStatus(job[w])
    <3>1. status' = status
      BY <1>0, <2>1, <2>4
    <3> QED
      BY <2>1, <3>1, PromiseFrame
  <2> QED
    BY <2>1, <2>3, <2>4
<1>2. CASE Claim(w)
  <2>1. PICK j \in Jobs :
          /\ j = job[w]
          /\ last[j] + 1 \in 1..MaxAttempts
          /\ status[j] = "pending"
          /\ status' = [status EXCEPT ![j] = "running"]
          /\ last' = [last EXCEPT ![j] = last[j] + 1]
          /\ phase' = [phase EXCEPT ![j][last[j] + 1] = "started"]
    <3>1. pc[w] = "chosen" /\ last[job[w]] < MaxAttempts
      BY <1>2 DEF Claim
    <3>2. job[w] \in Jobs
      BY <1>0, <3>1
    <3>3. last[job[w]] \in 0..MaxAttempts
      BY <1>0, <3>2
    <3>4. last[job[w]] + 1 \in 1..MaxAttempts
      BY <3>1, <3>3
    <3> QED
      BY <1>2, <3>2, <3>4 DEF Claim, Claimable
  <2>2. Accepted(j) = 0
    BY <2>1, NoResultYet
  <2>3. Accepted(j)' = 0
    <3>1. last'[j] = last[j] + 1 /\ phase'[j][last[j] + 1] = "started"
      BY <1>0, <2>1
    <3> QED
      BY <3>1 DEF Accepted, LatestIn
  <2>4. \A i \in Jobs : Accepted(i)' = Accepted(i)
    <3>1. \A i \in Jobs : i # j => last'[i] = last[i] /\ phase'[i] = phase[i]
      BY <1>0, <2>1
    <3> QED
      BY <2>2, <2>3, <3>1 DEF Accepted, LatestIn
  <2>5. Abstract!Begin(j)
    BY <2>1, <2>2, <2>4 DEF Abstract!Begin, Abstract!Become
  <2> QED
    BY <2>1, <2>5 DEF Abstract!Next
<1>3. CASE Respond(w) /\ phase' # phase
  <2>1. /\ Owned(w)
        /\ phase' = [phase EXCEPT ![job[w]][att[w]] = "received"]
        /\ UNCHANGED <<status, last>>
    BY <1>3 DEF Respond
  <2>2. /\ job[w] \in Jobs /\ att[w] \in 1..MaxAttempts
        /\ att[w] = last[job[w]] /\ status[job[w]] = "running"
    BY <2>1, OwnedFacts DEF TypeInv
  <2>3. Accepted(job[w]) = 0
    BY <2>2, NoResultYet
  <2>4. phase'[job[w]][last'[job[w]]] = "received"
    BY <1>0, <2>1, <2>2
  <2>5. \A i \in Jobs : i # job[w] => phase'[i] = phase[i]
    BY <1>0, <2>1
  <2>6. \A i \in Jobs : Accepted(i)' = Accepted(i)
    BY <2>1, <2>3, <2>4, <2>5 DEF Accepted, LatestIn
  <2> QED
    BY <2>1, <2>6 DEF Abstract!vars
<1>4. CASE Save(w)
  <2>1. PICK j \in Jobs : j = job[w]
    BY <1>0, <1>4 DEF Save
  <2>2. PICK s \in {"empty", "done"} :
          /\ Owned(w)
          /\ status' = [status EXCEPT ![j] = s]
          /\ phase' = [phase EXCEPT ![j][att[w]] = "completed"]
          /\ last' = last
    BY <1>4, <2>1 DEF Save, SavedStatus
  <2>3. att[w] \in 1..MaxAttempts /\ att[w] = last[j] /\ status[j] = "running"
    BY <2>1, <2>2, OwnedFacts DEF TypeInv
  <2>4. Accepted(j) = 0
    BY <2>3, NoResultYet
  <2>5. Accepted(j)' = last[j]
    <3>1. phase[j] \in [1..MaxAttempts -> Phase]
      BY <1>0
    <3>2. phase'[j] = [phase[j] EXCEPT ![att[w]] = "completed"]
      BY <1>0, <2>2
    <3>3. phase'[j][att[w]] = "completed"
      BY <2>3, <3>1, <3>2
    <3>4. last[j] > 0
      BY <2>3
    <3> QED
      BY <2>2, <2>3, <3>3, <3>4 DEF Accepted, LatestIn
  <2>6. \A i \in Jobs : i # j => Accepted(i)' = Accepted(i)
    <3>1. \A i \in Jobs : i # j => phase'[i] = phase[i]
      BY <1>0, <2>2
    <3> QED
      BY <2>2, <3>1 DEF Accepted, LatestIn
  <2>7. [i \in Jobs |-> Accepted(i)'] =
          [[i \in Jobs |-> Accepted(i)] EXCEPT ![j] = last[j]]
    BY <2>5, <2>6
  <2>8. Abstract!Accept(j)
    BY <2>2, <2>3, <2>4, <2>7 DEF Abstract!Accept, Abstract!Become
  <2> QED
    BY <2>1, <2>8 DEF Abstract!Next
<1>5. CASE Fail(w) /\ Owned(w)
  <2>1. PICK p \in {"rejected", "failed"} :
          /\ status' = [status EXCEPT ![job[w]] = "error"]
          /\ phase' = [phase EXCEPT ![job[w]][att[w]] = p]
          /\ last' = last
    BY <1>5 DEF Fail
  <2>2. /\ job[w] \in Jobs /\ att[w] \in 1..MaxAttempts
        /\ att[w] = last[job[w]] /\ status[job[w]] = "running"
    BY <1>5, OwnedFacts DEF TypeInv
  <2>3. Accepted(job[w]) = 0
    BY <2>2, NoResultYet
  <2>4. phase'[job[w]][last'[job[w]]] \in {"rejected", "failed"}
    BY <1>0, <2>1, <2>2
  <2>5. \A i \in Jobs : i # job[w] => phase'[i] = phase[i]
    BY <1>0, <2>1
  <2>6. \A i \in Jobs : Accepted(i)' = Accepted(i)
    BY <2>1, <2>3, <2>4, <2>5 DEF Accepted, LatestIn
  <2>7. Abstract!Reject(job[w])
    BY <2>1, <2>2, <2>6 DEF Abstract!Reject, Abstract!Become
  <2> QED
    BY <2>2, <2>7 DEF Abstract!Next
<1>6. CASE UNCHANGED <<status, last, phase>>
  BY <1>6, PromiseFrame
<1>7. \/ Skip(w) \/ Claim(w) \/ Save(w)
      \/ Respond(w) /\ phase' # phase
      \/ Fail(w) /\ Owned(w)
      \/ UNCHANGED <<status, last, phase>>
  BY DEF Handle, ClaimConflict, Respond, Refuse, SaveConflict, Fail, Analyse,
         Reanalyse, jobVars
<1> QED
  BY <1>1, <1>2, <1>3, <1>4, <1>5, <1>6, <1>7

(* The operators, the recovery and the import: jobs are submitted, given   *)
(* back and opened again, and nothing else.                                *)
LEMMA PromiseOthers ==
  ASSUME TypeInv, Story,
         \/ \E j \in Jobs : Environment(j)
         \/ \E w \in Workers : Break(w) \/ \E j \in Jobs : Take(w, j)
         \/ \E o \in Operators : Operate(o)
         \/ Recover
         \/ RecoveryCrash
         \/ UNCHANGED vars
  PROVE  [Abstract!Next]_(Abstract!vars)
<1> USE DEF jobVars
<1>0. status \in [Jobs -> Status]
  BY DEF TypeInv, TypeOK
<1>1. ASSUME UNCHANGED <<last, phase>>
      PROVE  \A i \in Jobs : Accepted(i)' = Accepted(i)
  BY <1>1 DEF Accepted, LatestIn
<1>2. ASSUME NEW j \in Jobs, status[j] = "error", UNCHANGED <<last, phase>>,
             status' = [status EXCEPT ![j] = "pending"]
      PROVE  Abstract!Next
  BY <1>1, <1>2 DEF Abstract!Next, Abstract!Retry, Abstract!Become
<1>3. ASSUME NEW j \in Jobs, Import(j) PROVE Abstract!Next
  <2>1. Abstract!Submit(j)
    BY <1>1, <1>3 DEF Import, Abstract!Submit, Abstract!Become
  <2> QED
    BY <2>1 DEF Abstract!Next
<1>4. ASSUME NEW o \in Operators, RetryByHand(o)
      PROVE  [Abstract!Next]_(Abstract!vars)
  <2>1. seen[o] \in Jobs /\ UNCHANGED <<last, phase>>
    BY <1>4 DEF RetryByHand
  <2>2. CASE status[seen[o]] = "error"
    BY <1>2, <1>4, <2>1, <2>2 DEF RetryByHand
  <2>3. CASE status[seen[o]] # "error"
    <3>1. status' = [status EXCEPT ![seen[o]] = status[seen[o]]]
      BY <1>4, <2>3 DEF RetryByHand
    <3>2. status' = status
      BY <1>0, <2>1, <3>1
    <3> QED
      BY <2>1, <3>2, PromiseFrame
  <2> QED
    BY <2>2, <2>3
<1>5. CASE ResetStaleRunning
  <2> DEFINE S == {j \in Jobs : StillRunning(j)}
  <2>1. /\ \A j \in S : status[j] = "running"
        /\ status' = [j \in Jobs |-> IF j \in S THEN "pending" ELSE status[j]]
        /\ UNCHANGED <<last, phase>>
    BY <1>5 DEF ResetStaleRunning, StillRunning
  <2> HIDE DEF S
  <2>2. Abstract!Release(S)
    BY <1>1, <2>1 DEF Abstract!Release
  <2>3. S \in SUBSET Jobs
    BY DEF S
  <2> QED
    BY <2>2, <2>3 DEF Abstract!Next
<1>6. ASSUME NEW j \in Jobs, ResetRejected(j)
      PROVE  [Abstract!Next]_(Abstract!vars)
  <2>1. CASE status' = status
    BY <1>6, <2>1, PromiseFrame DEF ResetRejected
  <2>2. CASE status[j] = "error" /\ status' # status
    BY <1>2, <1>6, <2>2 DEF ResetRejected
  <2> QED
    BY <1>6, <2>1, <2>2 DEF ResetRejected
<1>7. CASE UNCHANGED <<status, last, phase>>
  BY <1>7, PromiseFrame
<1>8. ASSUME NEW j \in Jobs, Environment(j), ~ Import(j)
      PROVE  UNCHANGED <<status, last, phase>>
  BY <1>8 DEF Environment, Supersede, ChangeRules, QuarterPasses, DayPasses
<1>9. ASSUME NEW w \in Workers, Break(w) \/ \E j \in Jobs : Take(w, j)
      PROVE  UNCHANGED <<status, last, phase>>
  BY <1>9 DEF Break, GiveUpBeforeClaim, FailLost, Crash, Take, Receive,
              ReceiveReanalysis
<1>10. ASSUME NEW o \in Operators, Operate(o), ~ RetryByHand(o)
       PROVE  UNCHANGED <<status, last, phase>>
  BY <1>10 DEF Operate, ReadForRetry, ResendPending
<1>11. ASSUME Recover \/ RecoveryCrash, ~ ResetStaleRunning,
              ~ \E j \in Jobs : ResetRejected(j)
       PROVE  UNCHANGED <<status, last, phase>>
  BY <1>11 DEF Recover, RecoveryCrash, FindStaleRunning, FindStalePending,
               FindAnalysisFailed, MarkRetried, FindRejected, NotifyGivenUp,
               Reenqueue, FinishRecovery
<1>12. UNCHANGED vars => UNCHANGED <<status, last, phase>>
  BY DEF vars
<1> QED
  BY <1>3, <1>4, <1>5, <1>6, <1>7, <1>8, <1>9, <1>10, <1>11, <1>12

(* Every behaviour of the pipeline, with its messages, crashes, late       *)
(* processes and recovery, is one that ExtractionJob allows, as long as no *)
(* exclusion rule changes.                                                 *)
THEOREM PipelineKeepsPromise ==
  ASSUME MaxRules = 0
  PROVE  Spec => KeepsPromise
<1>1. Init => TypeInv /\ Story /\ Skipped /\ Abstract!Init
  BY TypeInit, StoryInit, SkippedInit, PromiseInit DEF TypeInv
<1>2. TypeInv /\ Story /\ Skipped /\ [Next]_vars
        => TypeInv' /\ Story' /\ Skipped'
  BY TypeStep, StoryStep, SkippedStep
<1>3. TypeInv /\ Story /\ Skipped /\ [Next]_vars
        => [Abstract!Next]_(Abstract!vars)
  BY PromiseHandle, PromiseOthers DEF Next
<1> QED
  BY <1>1, <1>2, <1>3, PTL DEF Spec, KeepsPromise, Abstract!Spec

-----------------------------------------------------------------------------
(* Stages that are final                                                   *)

Finished(j) == status[j] \in {"done", "empty", "filtered"}

(* That a finished job stays so is part of the promise, in which no step   *)
(* leaves these stages.                                                    *)
LEMMA FinishedStep ==
  ASSUME MaxRules = 0, TypeInv, Story, Skipped, [Next]_vars,
         NEW j \in Jobs, Finished(j)
  PROVE  status'[j] = status[j] /\ last'[j] = last[j]
<1>1. [Abstract!Next]_(Abstract!vars)
  BY PromiseHandle, PromiseOthers DEF Next
<1>2. status \in [Jobs -> Status] /\ last \in [Jobs -> 0..MaxAttempts]
  BY DEF TypeInv, TypeOK
<1>3. CASE UNCHANGED Abstract!vars
  BY <1>3 DEF Abstract!vars
<1>4. ASSUME NEW i \in Jobs,
             \/ Abstract!Submit(i) \/ Abstract!Skip(i) \/ Abstract!Accept(i)
             \/ Abstract!Reject(i) \/ Abstract!Retry(i)
      PROVE  status'[j] = status[j] /\ last'[j] = last[j]
  <2>1. i # j /\ last' = last
    BY <1>4 DEF Finished, Abstract!Submit, Abstract!Skip, Abstract!Accept,
      Abstract!Reject, Abstract!Retry
  <2>2. \E s : status' = [status EXCEPT ![i] = s]
    BY <1>4 DEF Abstract!Submit, Abstract!Skip, Abstract!Accept,
      Abstract!Reject, Abstract!Retry, Abstract!Become
  <2> QED
    BY <1>2, <2>1, <2>2
<1>5. ASSUME NEW i \in Jobs, Abstract!Begin(i)
      PROVE  status'[j] = status[j] /\ last'[j] = last[j]
  BY <1>2, <1>5 DEF Finished, Abstract!Begin, Abstract!Become
<1>6. ASSUME NEW S \in SUBSET Jobs, Abstract!Release(S)
      PROVE  status'[j] = status[j] /\ last'[j] = last[j]
  BY <1>6 DEF Finished, Abstract!Release
<1> QED
  BY <1>1, <1>3, <1>4, <1>5, <1>6 DEF Abstract!Next

-----------------------------------------------------------------------------
(* The analysis after a save                                               *)

(* Who has saved a result, and nobody else, will mark its analysis.        *)
SavedOnce ==
  \A w \in Workers : pc[w] = "saved" =>
    /\ status[job[w]] \in {"done", "empty"} /\ errmsg[job[w]] = "null"
    /\ \A v \in Workers : pc[v] = "saved" /\ job[v] = job[w] => v = w

(* Only a job that is done carries a mark of a failed analysis.            *)
Marks == {"ANALYSIS_FAILED", "ANALYSIS_FAILED_RETRIED"}
MarkedAreDone == \A j \in Jobs : errmsg[j] \in Marks => status[j] = "done"

(* What a step may write into error_message of a job, and when.            *)
LEMMA MessageStep ==
  ASSUME TypeInv, [Next]_vars, NEW j \in Jobs
  PROVE  \/ errmsg'[j] = errmsg[j]
         \/ /\ errmsg'[j] = "null"
            /\ status[j] = "running" \/ Skippable(j) \/ errmsg[j] \in Marks
         \/ status[j] = "running" /\ errmsg'[j] \notin Marks
         \/ /\ errmsg'[j] = "ANALYSIS_FAILED" /\ status[j] = "done"
            /\ \E w \in Workers :
                 /\ pc[w] = "saved" /\ job[w] = j
                 /\ pc' = [pc EXCEPT ![w] = "idle"]
         \/ errmsg[j] = "ANALYSIS_FAILED" /\
              errmsg'[j] = "ANALYSIS_FAILED_RETRIED"
<1> USE DEF jobVars, Marks
<1>0. errmsg \in [Jobs -> ErrorMessage]
  BY DEF TypeInv, TypeOK
<1>1. ASSUME NEW w \in Workers, Skip(w) \/ Save(w)
      PROVE  \/ errmsg'[j] = errmsg[j]
             \/ errmsg'[j] = "null" /\ (status[j] = "running" \/ Skippable(j))
  BY <1>0, <1>1 DEF Skip, Save, Owned
<1>2. ASSUME NEW w \in Workers, Fail(w)
      PROVE  \/ errmsg'[j] = errmsg[j]
             \/ status[j] = "running" /\ errmsg'[j] \notin Marks
  <2>1. CASE Owned(w)
    <3>1. /\ status[job[w]] = "running"
          /\ errmsg' = [errmsg EXCEPT ![job[w]] = FailureMessage(code[w])]
      BY <1>2, <2>1 DEF Fail, Owned
    <3>2. FailureMessage(code[w]) \notin Marks
      BY DEF FailureMessage
    <3> QED
      BY <1>0, <3>1, <3>2
  <2>2. CASE ~ Owned(w)
    BY <1>2, <2>2 DEF Fail
  <2> QED
    BY <2>1, <2>2
<1>3. ASSUME NEW w \in Workers, Analyse(w)
      PROVE  \/ errmsg'[j] = errmsg[j]
             \/ /\ errmsg'[j] = "ANALYSIS_FAILED" /\ status[j] = "done"
                /\ pc[w] = "saved" /\ job[w] = j
                /\ pc' = [pc EXCEPT ![w] = "idle"]
  BY <1>0, <1>3 DEF Analyse, Free
<1>4. ASSUME NEW w \in Workers, Reanalyse(w)
      PROVE  \/ errmsg'[j] = errmsg[j]
             \/ errmsg'[j] = "null" /\ errmsg[j] \in Marks
  BY <1>0, <1>4 DEF Reanalyse
<1>5. ASSUME NEW i \in Jobs, MarkRetried(i)
      PROVE  \/ errmsg'[j] = errmsg[j]
             \/ errmsg[j] = "ANALYSIS_FAILED" /\
                  errmsg'[j] = "ANALYSIS_FAILED_RETRIED"
  BY <1>0, <1>5 DEF MarkRetried
<1>6. ASSUME NEW w \in Workers,
             \/ Claim(w) \/ ClaimConflict(w) \/ Respond(w) \/ SaveConflict(w)
             \/ \E c \in Code : Refuse(w, c)
             \/ Break(w) \/ \E i \in Jobs : Take(w, i)
      PROVE  errmsg' = errmsg
  BY <1>6 DEF Claim, ClaimConflict, Respond, SaveConflict, Refuse, Break,
    GiveUpBeforeClaim, FailLost, Crash, Take, Receive, ReceiveReanalysis
<1>7. ASSUME NEW i \in Jobs, Environment(i) PROVE errmsg' = errmsg
  BY <1>7
    DEF Environment, Import, Supersede, ChangeRules, QuarterPasses, DayPasses
<1>8. ASSUME NEW o \in Operators, Operate(o) PROVE errmsg' = errmsg
  BY <1>8 DEF Operate, ReadForRetry, ResendPending, RetryByHand
<1>9. ASSUME Recover \/ RecoveryCrash, ~ \E i \in Jobs : MarkRetried(i)
      PROVE  errmsg' = errmsg
  BY <1>9 DEF Recover, RecoveryCrash, FindStaleRunning, ResetStaleRunning,
    FindStalePending, FindAnalysisFailed, FindRejected, ResetRejected,
    NotifyGivenUp, Reenqueue, FinishRecovery
<1>10. UNCHANGED vars => errmsg' = errmsg
  BY DEF vars
<1>11. ASSUME NEW w \in Workers, Handle(w)
       PROVE  \/ Skip(w) \/ Save(w) \/ Fail(w) \/ Analyse(w) \/ Reanalyse(w)
              \/ errmsg' = errmsg
  BY <1>6, <1>11 DEF Handle
<1> QED
  BY <1>1, <1>2, <1>3, <1>4, <1>5, <1>6, <1>7, <1>8, <1>9, <1>10,
    <1>11 DEF Next

(* A worker comes to "saved" by a save, and leaves it for good.            *)
LEMMA SavedStep ==
  ASSUME TypeInv, [Next]_vars, NEW w \in Workers, pc'[w] = "saved"
  PROVE  \/ pc[w] = "saved" /\ job'[w] = job[w]
         \/ Save(w)
<1>0. /\ pc \in [Workers -> WorkerStep]
      /\ job \in [Workers -> Jobs \cup {NoJob}]
  BY DEF TypeInv, TypeOK
<1>1. ASSUME NEW v \in Workers, Handle(v), ~ Save(v)
      PROVE  pc[w] = "saved" /\ job'[w] = job[w]
  BY <1>0, <1>1 DEF Handle, Skip, Claim, ClaimConflict, Respond, Refuse,
    SaveConflict, Fail, Analyse, Reanalyse, GoTo, Free
<1>2. ASSUME NEW v \in Workers, Save(v)
      PROVE  (pc[w] = "saved" /\ job'[w] = job[w]) \/ Save(w)
  BY <1>0, <1>2 DEF Save, GoTo
<1>3. ASSUME NEW v \in Workers, Break(v) \/ \E j \in Jobs : Take(v, j)
      PROVE  pc[w] = "saved" /\ job'[w] = job[w]
  BY <1>0, <1>3 DEF Break, GiveUpBeforeClaim, FailLost, Crash, Take, Receive,
    ReceiveReanalysis, Free
<1>4. ASSUME \/ \E j \in Jobs : Environment(j)
             \/ \E o \in Operators : Operate(o)
             \/ Recover \/ RecoveryCrash \/ UNCHANGED vars
      PROVE  UNCHANGED <<pc, job>>
  BY <1>4 DEF Environment, Import, Supersede, ChangeRules, QuarterPasses,
    DayPasses, Operate, ReadForRetry, ResendPending, RetryByHand, Recover,
    RecoveryCrash, FindStaleRunning, ResetStaleRunning, FindStalePending,
    FindAnalysisFailed, MarkRetried, FindRejected, ResetRejected,
    NotifyGivenUp, Reenqueue, FinishRecovery, vars, workerVars
<1> QED
  BY <1>1, <1>2, <1>3, <1>4 DEF Next

AnalysesAgree == SavedOnce /\ MarkedAreDone

LEMMA AnalysesAgreeInit == Init => AnalysesAgree
BY DEF Init, AnalysesAgree, SavedOnce, MarkedAreDone, Marks

LEMMA AnalysesAgreeStep ==
  ASSUME MaxRules = 0, TypeInv, Story, Skipped, AnalysesAgree, [Next]_vars
  PROVE  AnalysesAgree'
<1>0. /\ pc \in [Workers -> WorkerStep] /\ status \in [Jobs -> Status]
      /\ errmsg \in [Jobs -> ErrorMessage]
      /\ \A w \in Workers : pc[w] = "saved" => job[w] \in Jobs
  BY DEF TypeInv, TypeOK, Registers
<1>1. MarkedAreDone'
  <2> SUFFICES ASSUME NEW j \in Jobs, errmsg'[j] \in Marks
               PROVE  status'[j] = "done"
    BY DEF MarkedAreDone
  <2>1. status[j] = "done"
    BY MessageStep DEF AnalysesAgree, MarkedAreDone, Marks
  <2> QED
    BY <2>1, FinishedStep DEF Finished
<1>2. ASSUME NEW w \in Workers, Save(w)
      PROVE  /\ job[w] \in Jobs /\ status[job[w]] = "running"
             /\ pc' = [pc EXCEPT ![w] = "saved"] /\ job' = job
             /\ status'[job[w]] \in {"done", "empty"}
             /\ errmsg'[job[w]] = "null"
  BY <1>0, <1>2 DEF Save, GoTo, Owned, SavedStatus
<1>3. ASSUME NEW w \in Workers, pc[w] = "saved", job'[w] = job[w],
             pc'[w] = "saved"
      PROVE  status'[job[w]] \in {"done", "empty"} /\ errmsg'[job[w]] = "null"
  <2>1. /\ job[w] \in Jobs /\ status[job[w]] \in {"done", "empty"}
        /\ errmsg[job[w]] = "null"
    BY <1>0, <1>3 DEF AnalysesAgree, SavedOnce
  <2>2. status'[job[w]] = status[job[w]]
    BY <2>1, FinishedStep DEF Finished
  <2>3. errmsg'[job[w]] = "null"
    <3>1. ASSUME NEW v \in Workers, pc[v] = "saved", job[v] = job[w],
                 pc' = [pc EXCEPT ![v] = "idle"]
          PROVE  FALSE
      BY <1>0, <1>3, <3>1 DEF AnalysesAgree, SavedOnce
    <3> QED
      BY <2>1, <3>1, MessageStep DEF Marks
  <2> QED
    BY <2>1, <2>2, <2>3
<1>4. SavedOnce'
  <2> SUFFICES ASSUME NEW w \in Workers, pc'[w] = "saved"
               PROVE  /\ status'[job'[w]] \in {"done", "empty"}
                      /\ errmsg'[job'[w]] = "null"
                      /\ \A v \in Workers :
                           pc'[v] = "saved" /\ job'[v] = job'[w] => v = w
    BY DEF SavedOnce
  <2>1. status'[job'[w]] \in {"done", "empty"} /\ errmsg'[job'[w]] = "null"
    BY <1>2, <1>3, SavedStep
  <2>2. ASSUME NEW v \in Workers, pc'[v] = "saved", job'[v] = job'[w]
        PROVE  v = w
    <3>1. CASE Save(v) /\ ~ Save(w)
      BY <1>2, <2>2, <3>1, SavedStep DEF AnalysesAgree, SavedOnce
    <3>2. CASE Save(w) /\ ~ Save(v)
      BY <1>2, <2>2, <3>2, SavedStep DEF AnalysesAgree, SavedOnce
    <3>3. CASE Save(v) /\ Save(w)
      BY <1>0, <3>3 DEF Save, GoTo
    <3>4. CASE ~ Save(v) /\ ~ Save(w)
      BY <2>2, <3>4, SavedStep DEF AnalysesAgree, SavedOnce
    <3> QED
      BY <3>1, <3>2, <3>3, <3>4
  <2> QED
    BY <2>1, <2>2
<1> QED
  BY <1>1, <1>4 DEF AnalysesAgree

-----------------------------------------------------------------------------
(* Failed jobs that are opened again                                       *)

(* Without operators, what the SELECT of the retry has found is as it was. *)
FoundAreRejected ==
  rpc = "reset" => \A j \in found : Rejected(j) /\ last[j] < ApiRetryMax

LEMMA EndedStep == TypeInv /\ Story /\ [Next]_vars => EndedStay
<1> SUFFICES ASSUME TypeInv, Story, [Next]_vars PROVE EndedStay
  OBVIOUS
<1>1. CASE UNCHANGED vars
  BY <1>1 DEF vars, jobVars, EndedStay
<1>2. CASE Next
  BY <1>2, EndedHandle, EndedOthers DEF Next
<1> QED
  BY <1>1, <1>2

(* Without operators only the retry of the recovery opens a failed job.    *)
LEMMA FailedStep ==
  ASSUME Operators = {}, TypeInv, Story, Skipped, [Next]_vars,
         NEW j \in Jobs, status[j] = "error"
  PROVE  \/ status'[j] = "error" /\ last'[j] = last[j]
         \/ ResetRejected(j)
<1> USE DEF jobVars
<1>0. /\ status \in [Jobs -> Status] /\ last \in [Jobs -> 0..MaxAttempts]
      /\ \A w \in Workers : pc[w] # "idle" => job[w] \in Jobs
  BY DEF TypeInv, TypeOK, Registers
<1>1. last[j] > 0
  BY DEF Story, JobMatchesLatestAttempt, LatestIn
<1>2. ASSUME NEW w \in Workers, Handle(w)
      PROVE  status'[j] = "error" /\ last'[j] = last[j]
  <2>1. CASE Skip(w)
    <3>1. j # job[w]
      BY <1>0, <1>1, <2>1 DEF Skip, Skipped
    <3> QED
      BY <1>0, <2>1, <3>1 DEF Skip
  <2>2. CASE Claim(w)
    BY <1>0, <2>2 DEF Claim, Claimable
  <2>3. CASE Save(w)
    BY <1>0, <2>3 DEF Save, Owned
  <2>4. CASE Fail(w)
    BY <1>0, <2>4 DEF Fail, Owned
  <2> QED
    BY <1>2, <2>1, <2>2, <2>3, <2>4 DEF Handle, ClaimConflict, Respond,
      Refuse, SaveConflict, Analyse, Reanalyse
<1>3. ASSUME NEW w \in Workers, Break(w) \/ \E i \in Jobs : Take(w, i)
      PROVE  UNCHANGED <<status, last>>
  BY <1>3 DEF Break, GiveUpBeforeClaim, FailLost, Crash, Take, Receive,
    ReceiveReanalysis
<1>4. ASSUME NEW i \in Jobs, Environment(i)
      PROVE  status'[j] = "error" /\ last'[j] = last[j]
  BY <1>0, <1>4 DEF Environment, Import, Supersede, ChangeRules,
    QuarterPasses, DayPasses
<1>5. ASSUME NEW i \in Jobs, ResetRejected(i), i # j
      PROVE  status'[j] = "error" /\ last'[j] = last[j]
  BY <1>0, <1>5 DEF ResetRejected
<1>6. CASE ResetStaleRunning
  BY <1>6 DEF ResetStaleRunning, StillRunning
<1>7. ASSUME Recover \/ RecoveryCrash, ~ ResetStaleRunning,
             ~ \E i \in Jobs : ResetRejected(i)
      PROVE  UNCHANGED <<status, last>>
  BY <1>7 DEF Recover, RecoveryCrash, FindStaleRunning, FindStalePending,
    FindAnalysisFailed, MarkRetried, FindRejected, NotifyGivenUp, Reenqueue,
    FinishRecovery
<1>8. UNCHANGED vars => UNCHANGED <<status, last>>
  BY DEF vars
<1> QED
  BY <1>2, <1>3, <1>4, <1>5, <1>6, <1>7, <1>8 DEF Next

(* A posting that was refused for a transient reason stays so until then.  *)
LEMMA RejectedStep ==
  ASSUME Operators = {}, TypeInv, Story, Skipped, [Next]_vars,
         NEW j \in Jobs, Rejected(j), ~ ResetRejected(j)
  PROVE  Rejected(j)' /\ last'[j] = last[j]
<1>1. /\ status[j] = "error" /\ errmsg[j] = "API_ERROR"
      /\ LatestIn(j, {"rejected"})
  BY DEF Rejected
<1>2. status'[j] = "error" /\ last'[j] = last[j]
  BY <1>1, FailedStep
<1>3. last[j] \in 1..MaxAttempts /\ phase'[j][last[j]] = phase[j][last[j]]
  BY <1>1, EndedStep DEF TypeInv, TypeOK, LatestIn, EndedStay, Ended
<1>4. errmsg'[j] = "API_ERROR"
  <2>1. ~ Skippable(j)
    BY <1>1 DEF Skipped, LatestIn
  <2> QED
    BY <1>1, <1>2, <2>1, MessageStep DEF Marks
<1> QED
  BY <1>2, <1>3, <1>4, <1>1 DEF Rejected, LatestIn

LEMMA FoundStep ==
  ASSUME Operators = {}, TypeInv, Story, Skipped, FoundAreRejected, [Next]_vars
  PROVE  FoundAreRejected'
<1> SUFFICES ASSUME rpc' = "reset", NEW j \in found'
             PROVE  (Rejected(j) /\ last[j] < ApiRetryMax)'
  BY DEF FoundAreRejected
<1>1. CASE FindRejected
  BY <1>1 DEF FindRejected, Retriable, Rejected, LatestIn, jobVars
<1>2. CASE ~ FindRejected
  <2>1. rpc = "reset" /\ j \in found /\ ~ ResetRejected(j)
    <3>1. CASE Recover \/ RecoveryCrash
      BY <1>2, <3>1 DEF Recover, RecoveryCrash, FindStaleRunning,
        ResetStaleRunning, FindStalePending, FindAnalysisFailed, MarkRetried,
        ResetRejected, NotifyGivenUp, Reenqueue, FinishRecovery
    <3>2. CASE UNCHANGED recoveryVars
      BY <3>2 DEF recoveryVars, ResetRejected
    <3>3. ASSUME NEW w \in Workers, Handle(w) PROVE UNCHANGED recoveryVars
      BY <3>3 DEF Handle, Skip, Claim, ClaimConflict, Respond, Refuse, Save,
        SaveConflict, Fail, Analyse, Reanalyse
    <3>4. ASSUME NEW w \in Workers, Break(w) \/ \E i \in Jobs : Take(w, i)
          PROVE  UNCHANGED recoveryVars
      BY <3>4 DEF Break, GiveUpBeforeClaim, FailLost, Crash, Take, Receive,
        ReceiveReanalysis
    <3>5. ASSUME NEW i \in Jobs, Environment(i) PROVE UNCHANGED recoveryVars
      BY <3>5 DEF Environment, Import, Supersede, ChangeRules, QuarterPasses,
        DayPasses
    <3>6. UNCHANGED vars => UNCHANGED recoveryVars
      BY DEF vars
    <3> QED
      BY <3>1, <3>2, <3>3, <3>4, <3>5, <3>6 DEF Next
  <2>2. j \in Jobs
    BY <2>1 DEF TypeInv, TypeOK
  <2> QED
    BY <2>1, <2>2, RejectedStep DEF FoundAreRejected
<1> QED
  BY <1>1, <1>2

-----------------------------------------------------------------------------
(* What follows for the stages                                             *)

LEMMA StagesAlways ==
  ASSUME MaxRules = 0
  PROVE  Spec => [](TypeInv /\ Story /\ Skipped /\ AnalysesAgree)
<1>1. Init => TypeInv /\ Story /\ Skipped /\ AnalysesAgree
  BY TypeInit, StoryInit, SkippedInit, AnalysesAgreeInit DEF TypeInv
<1>2. TypeInv /\ Story /\ Skipped /\ AnalysesAgree /\ [Next]_vars
        => TypeInv' /\ Story' /\ Skipped' /\ AnalysesAgree'
  BY TypeStep, StoryStep, SkippedStep, AnalysesAgreeStep
<1> QED
  BY <1>1, <1>2, PTL DEF Spec

(* No worker, message, operator or recovery takes up a finished job again. *)
THEOREM FinishedJobsStay ==
  ASSUME MaxRules = 0
  PROVE  Spec => FinishedStays
<1>1. TypeInv /\ Story /\ Skipped /\ [Next]_vars =>
        [\A j \in Jobs :
           status[j] \in {"done", "empty", "filtered"} =>
             status'[j] = status[j] /\ last'[j] = last[j]]_vars
  BY FinishedStep DEF Finished
<1> QED
  BY <1>1, StagesAlways, PTL DEF Spec, FinishedStays

(* The second analysis of a job asks for no third.                         *)
THEOREM AnalysisIsRetriedOnce ==
  ASSUME MaxRules = 0
  PROVE  Spec => AnalysisRetriedOnce
<1>1. TypeInv /\ AnalysesAgree /\ [Next]_vars =>
        [\A j \in Jobs :
           errmsg[j] = "ANALYSIS_FAILED_RETRIED" =>
             errmsg'[j] \in {"ANALYSIS_FAILED_RETRIED", "null"}]_vars
  <2> SUFFICES ASSUME TypeInv, AnalysesAgree, [Next]_vars, NEW j \in Jobs,
                      errmsg[j] = "ANALYSIS_FAILED_RETRIED"
               PROVE  errmsg'[j] \in {"ANALYSIS_FAILED_RETRIED", "null"}
    OBVIOUS
  <2> QED
    BY MessageStep DEF AnalysesAgree, SavedOnce, MarkedAreDone, Marks
<1> QED
  BY <1>1, StagesAlways, PTL DEF Spec, AnalysisRetriedOnce

(* While no rule changes and no operator retries by hand, the stages of    *)
(* all jobs go as the recovery means them to: besides the above, a failed  *)
(* job is opened again only after a transient error with attempts left.    *)
THEOREM StagesStay ==
  ASSUME MaxRules = 0, Operators = {}
  PROVE  Spec => StatusesStay
<1>1. Init => FoundAreRejected
  BY DEF Init, FoundAreRejected
<1>2. TypeInv /\ Story /\ Skipped /\ FoundAreRejected /\ [Next]_vars
        => FoundAreRejected'
  BY FoundStep
<1>3. TypeInv /\ Story /\ Skipped /\ FoundAreRejected /\ [Next]_vars =>
        [\A j \in Jobs :
           status[j] = "error" /\ status'[j] = "pending" =>
             Rejected(j) /\ last[j] < ApiRetryMax]_vars
  <2> SUFFICES ASSUME TypeInv, Story, Skipped, FoundAreRejected, [Next]_vars,
                      NEW j \in Jobs, status[j] = "error",
                      status'[j] = "pending"
               PROVE  Rejected(j) /\ last[j] < ApiRetryMax
    OBVIOUS
  <2>1. ResetRejected(j)
    BY FailedStep
  <2> QED
    BY <2>1 DEF ResetRejected, FoundAreRejected
<1>4. Spec => OnlyTransientErrorsReopen
  BY <1>1, <1>2, <1>3, StagesAlways, PTL DEF Spec, OnlyTransientErrorsReopen
<1> QED
  BY <1>4, FinishedJobsStay, AnalysisIsRetriedOnce, PTL DEF StatusesStay

-----------------------------------------------------------------------------
(* Calls of Gemini at the same time                                        *)

(* A number of an attempt is given to one worker, and who calls has one.   *)
HoldersDiffer ==
  /\ \A w \in Workers : pc[w] \in {"calling", "replied"} => att[w] > 0
  /\ \A v, w \in Workers :
       v # w /\ job[v] = job[w] /\ att[v] = att[w] => att[v] = 0

(* The job is about to be taken from its worker, or has lost it.           *)
Owed(j) ==
  \/ rpc = "running" /\ j \in found
  \/ status[j] = "running" /\
       (stale[j] \/ ~ \E w \in Workers : InAttempt(w, j))

One(b) == IF b THEN 1 ELSE 0

(* Who calls Gemini although the job is not, or no longer, its own.        *)
LateCallers(j) ==
  {w \in Workers :
     InCall(w, j) /\ ~ (att[w] = last[j]
                        /\ status[j] \in
                             {"running", "done", "empty", "filtered"})}

(* Each of them takes a failure of its own, and so does a job that is owed *)
(* to the recovery.                                                        *)
CallsAreOwed ==
  \A j \in Jobs : /\ IsFiniteSet(LateCallers(j))
                  /\ Cardinality(LateCallers(j)) + One(Owed(j)) <= faults

LEMMA BudgetsGrow ==
  ASSUME TypeInv, [Next]_vars
  PROVE  faults' \in {faults, faults + 1} /\ manual' \in {manual, manual + 1}
<1> USE DEF budgetVars, Fault, Try
<1>1. ASSUME NEW w \in Workers, Handle(w)
      PROVE  UNCHANGED budgetVars
  BY <1>1 DEF Handle, Skip, Claim, ClaimConflict, Respond, Refuse, Save,
    SaveConflict, Fail, Analyse, Reanalyse
<1>2. ASSUME NEW w \in Workers, Break(w) \/ \E i \in Jobs : Take(w, i)
      PROVE  faults' \in {faults, faults + 1} /\ manual' = manual
  BY <1>2 DEF Break, GiveUpBeforeClaim, FailLost, Crash, Take, Receive,
    ReceiveReanalysis
<1>3. ASSUME NEW i \in Jobs, Environment(i)
      PROVE  faults' \in {faults, faults + 1} /\ manual' = manual
  BY <1>3 DEF Environment, Import, Supersede, ChangeRules, QuarterPasses,
    DayPasses
<1>4. ASSUME NEW o \in Operators, Operate(o)
      PROVE  faults' \in {faults, faults + 1} /\ manual' \in
                                                   {manual, manual + 1}
  BY <1>4 DEF Operate, ReadForRetry, ResendPending, RetryByHand
<1>5. ASSUME Recover \/ RecoveryCrash
      PROVE  faults' \in {faults, faults + 1} /\ manual' = manual
  BY <1>5 DEF Recover, RecoveryCrash, FindStaleRunning, ResetStaleRunning,
    FindStalePending, FindAnalysisFailed, MarkRetried, FindRejected,
    ResetRejected, NotifyGivenUp, Reenqueue, FinishRecovery
<1> QED
  BY <1>1, <1>2, <1>3, <1>4, <1>5 DEF Next, vars

(* Where the posting and the attempt of a worker come from.                *)
LEMMA RegisterStep ==
  ASSUME TypeInv, [Next]_vars, NEW w \in Workers
  PROVE  \/ att'[w] = 0 /\ pc'[w] \notin {"calling", "replied"}
         \/ /\ job'[w] = job[w] /\ att'[w] = att[w]
            /\ pc'[w] \in {"calling", "replied"} =>
                 pc[w] \in {"calling", "replied"}
         \/ Claim(w) /\ job' = job /\
              att' = [att EXCEPT ![w] = last[job[w]] + 1]
<1>0. /\ pc \in [Workers -> WorkerStep] /\ att \in [Workers -> 0..MaxAttempts]
      /\ job \in [Workers -> Jobs \cup {NoJob}]
      /\ pc[w] = "idle" => att[w] = 0
  BY DEF TypeInv, TypeOK, Registers
<1>1. ASSUME NEW v \in Workers, Handle(v), ~ Claim(v)
      PROVE  \/ att'[w] = 0 /\ pc'[w] \notin {"calling", "replied"}
             \/ /\ job'[w] = job[w] /\ att'[w] = att[w]
                /\ pc'[w] \in {"calling", "replied"}
                     => pc[w] \in {"calling", "replied"}
  BY <1>0, <1>1 DEF Handle, Skip, ClaimConflict, Respond, Refuse, Save,
    SaveConflict, Fail, Analyse, Reanalyse, GoTo, Free
<1>2. ASSUME NEW v \in Workers, Claim(v)
      PROVE  \/ v = w /\ job' = job /\
                  att' = [att EXCEPT ![w] = last[job[w]] + 1]
             \/ job'[w] = job[w] /\ att'[w] = att[w] /\ pc'[w] = pc[w]
  BY <1>0, <1>2 DEF Claim
<1>3. ASSUME NEW v \in Workers, Break(v) \/ \E i \in Jobs : Take(v, i)
      PROVE  \/ att'[w] = 0 /\ pc'[w] \notin {"calling", "replied"}
             \/ job'[w] = job[w] /\ att'[w] = att[w] /\ pc'[w] = pc[w]
  BY <1>0, <1>3 DEF Break, GiveUpBeforeClaim, FailLost, Crash, Take, Receive,
    ReceiveReanalysis, Free
<1>4. ASSUME \/ \E i \in Jobs : Environment(i)
             \/ \E o \in Operators : Operate(o)
             \/ Recover \/ RecoveryCrash \/ UNCHANGED vars
      PROVE  UNCHANGED <<pc, job, att>>
  BY <1>4 DEF Environment, Import, Supersede, ChangeRules, QuarterPasses,
    DayPasses, Operate, ReadForRetry, ResendPending, RetryByHand, Recover,
    RecoveryCrash, FindStaleRunning, ResetStaleRunning, FindStalePending,
    FindAnalysisFailed, MarkRetried, FindRejected, ResetRejected,
    NotifyGivenUp, Reenqueue, FinishRecovery, vars, workerVars
<1> QED
  BY <1>1, <1>2, <1>3, <1>4 DEF Next

LEMMA HoldersStep == TypeInv /\ HoldersDiffer /\ [Next]_vars => HoldersDiffer'
<1> SUFFICES ASSUME TypeInv, HoldersDiffer, [Next]_vars PROVE HoldersDiffer'
  OBVIOUS
<1>0. /\ att \in [Workers -> 0..MaxAttempts]
      /\ last \in [Jobs -> 0..MaxAttempts]
      /\ \A w \in Workers : pc[w] # "idle" => job[w] \in Jobs
      /\ \A w \in Workers : job[w] \in Jobs => att[w] <= last[job[w]]
  BY DEF TypeInv, TypeOK, Registers
<1>1. ASSUME NEW w \in Workers, Claim(w)
      PROVE  job[w] \in Jobs /\ last[job[w]] \in Nat
  BY <1>0, <1>1 DEF Claim
<1>2. ASSUME NEW w \in Workers, pc'[w] \in {"calling", "replied"}
      PROVE  att'[w] > 0
  BY <1>0, <1>1, <1>2, RegisterStep DEF HoldersDiffer
<1>3. ASSUME NEW v \in Workers, NEW w \in Workers, v # w, job'[v] = job'[w],
             att'[v] = att'[w], att'[v] # 0
      PROVE  FALSE
  <2>1. CASE Claim(w) /\ job' = job /\
               att' = [att EXCEPT ![w] = last[job[w]] + 1]
    <3>1. att'[w] = last[job[w]] + 1 /\ att'[v] = att[v] /\ job[v] = job[w]
      BY <1>0, <1>3, <2>1
    <3> QED
      BY <1>0, <1>1, <1>3, <2>1, <3>1
  <2>2. CASE Claim(v) /\ job' = job /\
               att' = [att EXCEPT ![v] = last[job[v]] + 1]
    <3>1. att'[v] = last[job[v]] + 1 /\ att'[w] = att[w] /\ job[v] = job[w]
      BY <1>0, <1>3, <2>2
    <3> QED
      BY <1>0, <1>1, <1>3, <2>2, <3>1
  <2>3. CASE job'[v] = job[v] /\ att'[v] = att[v] /\ job'[w] = job[w] /\
               att'[w] = att[w]
    BY <1>3, <2>3 DEF HoldersDiffer
  <2> QED
    BY <1>3, <2>1, <2>2, <2>3, RegisterStep
<1> QED
  BY <1>2, <1>3 DEF HoldersDiffer

(* A job that a worker has, or that is finished, stays so, unless its      *)
(* worker fails or the recovery takes it.                                  *)
LEMMA HeldStep ==
  ASSUME TypeInv, Story, [Next]_vars, ~ ResetStaleRunning, NEW j \in Jobs,
         status[j] \in {"running", "done", "empty", "filtered"}
  PROVE  /\ last'[j] = last[j]
         /\ \/ status'[j] \in {"running", "done", "empty", "filtered"}
            \/ \E v \in Workers :
                 /\ Owned(v) /\ job[v] = j
                 /\ pc[v] = "failing" /\ pc'[v] = "idle"
<1> USE DEF jobVars
<1>0. /\ status \in [Jobs -> Status] /\ last \in [Jobs -> 0..MaxAttempts]
      /\ pc \in [Workers -> WorkerStep]
  BY DEF TypeInv, TypeOK
<1>1. ASSUME NEW w \in Workers, Fail(w)
      PROVE  /\ last'[j] = last[j]
             /\ \/ status'[j] = status[j]
                \/ Owned(w) /\ job[w] = j /\ pc[w] = "failing" /\
                     pc'[w] = "idle"
  BY <1>0, <1>1 DEF Fail, Free, Owned
<1>2. ASSUME NEW w \in Workers, Handle(w), ~ Fail(w)
      PROVE  /\ last'[j] = last[j]
             /\ status'[j] \in {"running", "done", "empty", "filtered"}
  BY <1>0, <1>2 DEF Handle, Skip, Claim, Claimable, ClaimConflict, Respond,
    Refuse, Save, SavedStatus, SaveConflict, Analyse, Reanalyse
<1>3. ASSUME NEW w \in Workers, Break(w) \/ \E i \in Jobs : Take(w, i)
      PROVE  UNCHANGED <<status, last>>
  BY <1>3 DEF Break, GiveUpBeforeClaim, FailLost, Crash, Take, Receive,
    ReceiveReanalysis
<1>4. ASSUME NEW i \in Jobs, Environment(i)
      PROVE  status'[j] = status[j] /\ last' = last
  BY <1>0, <1>4 DEF Environment, Import, Supersede, ChangeRules,
    QuarterPasses, DayPasses
<1>5. ASSUME NEW o \in Operators, Operate(o)
      PROVE  status'[j] = status[j] /\ last' = last
  BY <1>0, <1>5 DEF Operate, ReadForRetry, ResendPending, RetryByHand
<1>6. ASSUME Recover \/ RecoveryCrash
      PROVE  status'[j] = status[j] /\ last' = last
  BY <1>0, <1>6 DEF Recover, RecoveryCrash, FindStaleRunning, FindStalePending,
    FindAnalysisFailed, MarkRetried, FindRejected, ResetRejected,
      NotifyGivenUp,
    Reenqueue, FinishRecovery
<1>7. UNCHANGED vars => UNCHANGED <<status, last>>
  BY DEF vars
<1> QED
  BY <1>1, <1>2, <1>3, <1>4, <1>5, <1>6, <1>7 DEF Next

LEMMA LateStep ==
  ASSUME TypeInv, Story, HoldersDiffer, [Next]_vars, ~ ResetStaleRunning,
         NEW j \in Jobs
  PROVE  LateCallers(j)' \subseteq LateCallers(j)
<1> SUFFICES ASSUME NEW w \in Workers, w \in LateCallers(j)',
                    w \notin LateCallers(j)
             PROVE  FALSE
  BY DEF LateCallers
<1>0. /\ status \in [Jobs -> Status] /\ last \in [Jobs -> 0..MaxAttempts]
      /\ att \in [Workers -> 0..MaxAttempts]
  BY DEF TypeInv, TypeOK
<1>1. /\ job'[w] = j /\ pc'[w] \in {"calling", "replied"}
      /\ ~ (att'[w] = last'[j]
            /\ status'[j] \in {"running", "done", "empty", "filtered"})
  BY DEF LateCallers, InCall
<1>2. CASE Claim(w)
  BY <1>0, <1>1, <1>2 DEF Claim
<1>3. CASE ~ Claim(w)
  <2>1. /\ job[w] = j /\ att'[w] = att[w] /\ pc[w] \in {"calling", "replied"}
        /\ att[w] > 0
    BY <1>1, <1>3, RegisterStep DEF HoldersDiffer
  <2>2. /\ att[w] = last[j]
        /\ status[j] \in {"running", "done", "empty", "filtered"}
    BY <2>1 DEF LateCallers, InCall
  <2>3. PICK v \in Workers :
          Owned(v) /\ job[v] = j /\ pc[v] = "failing" /\ pc'[v] = "idle"
    BY <1>1, <2>1, <2>2, HeldStep
  <2> QED
    BY <2>1, <2>2, <2>3 DEF Owned, HoldersDiffer
<1> QED
  BY <1>2, <1>3

(* A step that leaves the attempt of a job to its worker owes nothing new. *)
LEMMA OwedFrame ==
  ASSUME NEW j \in Jobs,
         rpc' = "running" /\ j \in found' => rpc = "running" /\ j \in found,
         status'[j] = "running" => status[j] = "running",
         stale'[j] => stale[j],
         status[j] = "running" =>
           \A w \in Workers : InAttempt(w, j) => InAttempt(w, j)'
  PROVE  Owed(j)' => Owed(j)
BY DEF Owed

(* Only a failure makes a running job one that is owed to the recovery.    *)
LEMMA OwedStep ==
  ASSUME TypeInv, Story, [Next]_vars, NEW j \in Jobs, Owed(j)',
         faults' # faults + 1
  PROVE  Owed(j)
<1> USE DEF jobVars, recoveryVars
<1>0. /\ status \in [Jobs -> Status] /\ last \in [Jobs -> 0..MaxAttempts]
      /\ pc \in [Workers -> WorkerStep] /\ att \in [Workers -> 0..MaxAttempts]
      /\ job \in [Workers -> Jobs \cup {NoJob}] /\ stale \in [Jobs -> BOOLEAN]
      /\ faults \in Nat
      /\ \A w \in Workers : pc[w] # "idle" => job[w] \in Jobs
  BY DEF TypeInv, TypeOK, Registers
<1>1. ASSUME NEW w \in Workers, Claim(w) PROVE Owed(j)
  <2>1. CASE job[w] = j
    BY <1>0, <1>1, <2>1 DEF Claim, Owed, InAttempt
  <2>2. CASE job[w] # j
    BY <1>0, <1>1, <2>2, OwedFrame DEF Claim, InAttempt
  <2> QED
    BY <2>1, <2>2
<1>2. ASSUME NEW w \in Workers, Fail(w) PROVE Owed(j)
  <2>1. status'[j] = "running" => job[w] # j \/ ~ InAttempt(w, j)
    BY <1>0, <1>2
      DEF Fail, Owned, InAttempt, Story, JobMatchesLatestAttempt, Status
  <2>2. status'[j] = "running" => status[j] = "running"
    BY <1>0, <1>2 DEF Fail, Owned
  <2>3. ASSUME NEW v \in Workers, v # w, InAttempt(v, j) PROVE InAttempt(v, j)'
    BY <1>0, <1>2, <2>3 DEF Fail, Free, InAttempt
  <2>4. CASE status'[j] = "running"
    <3>1. \A v \in Workers : InAttempt(v, j) => InAttempt(v, j)'
      BY <2>1, <2>3, <2>4 DEF InAttempt
    <3> QED
      BY <1>2, <2>2, <3>1, OwedFrame DEF Fail
  <2>5. CASE status'[j] # "running"
    BY <1>2, <2>5 DEF Fail, Owed
  <2> QED
    BY <2>4, <2>5
<1>3. ASSUME NEW w \in Workers, Skip(w) \/ Analyse(w) \/ Reanalyse(w)
      PROVE  Owed(j)
  <2>1. \A v \in Workers : InAttempt(v, j) => InAttempt(v, j)'
    BY <1>0, <1>3 DEF Skip, Analyse, Reanalyse, Free, InAttempt
  <2>2. status'[j] = "running" => status[j] = "running"
    BY <1>0, <1>3 DEF Skip, Analyse, Reanalyse
  <2> QED
    BY <1>3, <2>1, <2>2, OwedFrame DEF Skip, Analyse, Reanalyse
<1>4. ASSUME NEW w \in Workers, Save(w) PROVE Owed(j)
  <2>1. CASE job[w] = j
    BY <1>0, <1>4, <2>1 DEF Save, SavedStatus, Owned, Owed
  <2>2. CASE job[w] # j
    BY <1>0, <1>4, <2>2, OwedFrame DEF Save, SavedStatus, Owned, GoTo,
      InAttempt
  <2> QED
    BY <2>1, <2>2
<1>5. ASSUME NEW w \in Workers,
             \/ ClaimConflict(w) \/ Respond(w) \/ \E c \in Code : Refuse(w, c)
             \/ SaveConflict(w)
      PROVE  Owed(j)
  <2>1. \A v \in Workers : InAttempt(v, j) => InAttempt(v, j)'
    BY <1>0, <1>5
      DEF ClaimConflict, Respond, Refuse, SaveConflict, GoTo, InAttempt
  <2> QED
    BY <1>5, <2>1, OwedFrame DEF ClaimConflict, Respond, Refuse, SaveConflict
<1>6. ASSUME NEW w \in Workers, Break(w) PROVE FALSE
  BY <1>6 DEF Break, GiveUpBeforeClaim, FailLost, Crash, Fault
<1>7. ASSUME NEW w \in Workers, NEW i \in Jobs, Take(w, i) PROVE Owed(j)
  <2>1. \A v \in Workers : InAttempt(v, j) => InAttempt(v, j)'
    BY <1>0, <1>7 DEF Take, Receive, ReceiveReanalysis, InAttempt
  <2> QED
    BY <1>7, <2>1, OwedFrame DEF Take, Receive, ReceiveReanalysis
<1>8. ASSUME NEW i \in Jobs, QuarterPasses(i) PROVE Owed(j)
  <2>1. ~ (\E w \in Workers : InAttempt(w, i) /\ status[i] = "running")
    BY <1>8 DEF QuarterPasses, Try, Fault
  <2>2. \A v \in Workers : InAttempt(v, j) <=> InAttempt(v, j)'
    BY <1>8 DEF QuarterPasses, InAttempt, workerVars
  <2>3. rpc' = rpc /\ found' = found /\ status' = status
        /\ (i # j => stale'[j] = stale[j])
    BY <1>0, <1>8 DEF QuarterPasses
  <2> QED
    BY <2>1, <2>2, <2>3 DEF Owed
<1>9. ASSUME NEW i \in Jobs, Environment(i), ~ QuarterPasses(i) PROVE Owed(j)
  <2>1. \A v \in Workers : InAttempt(v, j) => InAttempt(v, j)'
    BY <1>9 DEF Environment, Import, Supersede, ChangeRules, DayPasses,
      InAttempt, workerVars
  <2>2. status'[j] = "running" => status[j] = "running"
    BY <1>0, <1>9 DEF Environment, Import, Supersede, ChangeRules, DayPasses
  <2> QED
    BY <1>9, <2>1, <2>2, OwedFrame DEF Environment, Import, Supersede,
      ChangeRules, DayPasses
<1>10. ASSUME NEW o \in Operators, Operate(o) PROVE Owed(j)
  <2>1. \A v \in Workers : InAttempt(v, j) => InAttempt(v, j)'
    BY <1>10 DEF Operate, ReadForRetry, ResendPending, RetryByHand, InAttempt,
      workerVars
  <2>2. status'[j] = "running" => status[j] = "running"
    BY <1>0, <1>10 DEF Operate, ReadForRetry, ResendPending, RetryByHand
  <2> QED
    BY <1>10, <2>1, <2>2, OwedFrame DEF Operate, ReadForRetry, ResendPending,
      RetryByHand
<1>11. ASSUME Recover \/ RecoveryCrash PROVE Owed(j)
  <2>1. CASE FindStaleRunning
    BY <2>1 DEF FindStaleRunning, StaleRunning, Owed, InAttempt, workerVars
  <2>2. CASE ~ FindStaleRunning
    <3>1. /\ ~ (rpc' = "running" /\ j \in found')
          /\ status'[j] = "running" => status[j] = "running"
          /\ UNCHANGED <<stale, last, workerVars>>
      BY <1>0, <1>11, <2>2 DEF Recover, RecoveryCrash, ResetStaleRunning,
        FindStalePending, FindAnalysisFailed, MarkRetried, FindRejected,
        ResetRejected, NotifyGivenUp, Reenqueue, FinishRecovery
    <3>2. \A v \in Workers : InAttempt(v, j) => InAttempt(v, j)'
      BY <3>1 DEF workerVars, InAttempt
    <3> QED
      BY <3>1, <3>2, OwedFrame
  <2> QED
    BY <2>1, <2>2
<1>12. UNCHANGED vars => Owed(j)
  BY DEF vars, workerVars, Owed, InAttempt
<1> QED
  BY <1>1, <1>2, <1>3, <1>4, <1>5, <1>6, <1>7, <1>8, <1>9, <1>10, <1>11, <1>12
     DEF Next, Handle

LEMMA CallsAreOwedStep ==
  ASSUME TypeInv, Story, HoldersDiffer, CallsAreOwed, [Next]_vars
  PROVE  CallsAreOwed'
<1> SUFFICES ASSUME NEW j \in Jobs
             PROVE  /\ IsFiniteSet(LateCallers(j)')
                    /\ Cardinality(LateCallers(j)') + One(Owed(j)') <= faults'
  BY DEF CallsAreOwed
<1>0. /\ IsFiniteSet(LateCallers(j)) /\ Cardinality(LateCallers(j)) \in Nat
      /\ Cardinality(LateCallers(j)) + One(Owed(j)) <= faults
      /\ faults \in Nat /\ faults' \in {faults, faults + 1}
  BY BudgetsGrow, FS_CardinalityType DEF CallsAreOwed, TypeInv, TypeOK
<1>1. Owed(j)' => Owed(j) \/ faults' = faults + 1
  BY OwedStep
<1>2. CASE LateCallers(j)' \subseteq LateCallers(j)
  <2>1. /\ IsFiniteSet(LateCallers(j)') /\ Cardinality(LateCallers(j)') \in Nat
        /\ Cardinality(LateCallers(j)') <= Cardinality(LateCallers(j))
    BY <1>0, <1>2, FS_Subset, FS_CardinalityType
  <2> QED
    BY <1>0, <1>1, <2>1 DEF One
<1>3. ASSUME NEW w \in LateCallers(j)', w \notin LateCallers(j)
      PROVE  /\ IsFiniteSet(LateCallers(j)')
             /\ Cardinality(LateCallers(j)') + One(Owed(j)') <= faults'
  <2>1. ResetStaleRunning
    BY <1>3, LateStep
  <2>2. /\ rpc = "running" /\ rpc' = "pending"
        /\ status' = [i \in Jobs |-> IF StillRunning(i) THEN "pending" ELSE status[i]]
        /\ UNCHANGED <<last, workerVars, faults>>
    BY <2>1 DEF ResetStaleRunning, jobVars, budgetVars
  <2>3. w \in Workers /\ InCall(w, j) /\ att[w] = last[j]
        /\ j \in found /\ status'[j] = "pending"
    BY <1>3, <2>2 DEF LateCallers, InCall, StillRunning, workerVars
  <2>4. Owed(j) /\ ~ Owed(j)'
    BY <2>2, <2>3 DEF Owed
  <2>5. LateCallers(j)' \subseteq LateCallers(j) \cup {w}
    <3> SUFFICES ASSUME NEW v \in LateCallers(j)', v # w
                 PROVE v \in LateCallers(j)
      OBVIOUS
    <3>1. v \in Workers /\ InCall(v, j)
      BY <2>2 DEF LateCallers, InCall, workerVars
    <3>2. att[v] # last[j]
      BY <2>3, <3>1 DEF HoldersDiffer, InCall, TypeInv, TypeOK
    <3> QED
      BY <3>1, <3>2 DEF LateCallers
  <2>6. /\ IsFiniteSet(LateCallers(j) \cup {w})
        /\ Cardinality(LateCallers(j) \cup {w}) =
             Cardinality(LateCallers(j)) + 1
    BY <1>0, <1>3, FS_AddElement
  <2>7. /\ IsFiniteSet(LateCallers(j)') /\ Cardinality(LateCallers(j)') \in Nat
        /\ Cardinality(LateCallers(j)') <= Cardinality(LateCallers(j)) + 1
    BY <2>5, <2>6, FS_Subset, FS_CardinalityType
  <2> QED
    BY <1>0, <2>2, <2>4, <2>7 DEF One
<1> QED
  BY <1>2, <1>3

-----------------------------------------------------------------------------
(* The number of attempts                                                  *)

Waits(j) == status[j] \in {"none", "pending"}
Due(j) == rpc = "reset" /\ j \in found
Readers(j) == {o \in Operators : seen[o] = j}
AllReaders == {o \in Operators : seen[o] # NoJob}

(* The attempts of a job, with the ones that are sure to come or may be    *)
(* asked for: by the message of a job that waits, by the recovery that     *)
(* found it, by every operator that has read it as failed.                 *)
Claims(j) ==
  last[j] + One(Waits(j)) + One(Owed(j)) + One(Due(j)) + Cardinality(Readers(j))

AttemptsAreOwed ==
  /\ IsFiniteSet(AllReaders) /\ Cardinality(AllReaders) <= manual
  /\ \A j \in Jobs : Claims(j) <= ApiRetryMax + faults + manual

LEMMA ReadersAreFinite ==
  ASSUME NEW j \in Jobs, IsFiniteSet(AllReaders)
  PROVE  /\ IsFiniteSet(Readers(j)) /\ Cardinality(Readers(j)) \in Nat
         /\ Cardinality(AllReaders) \in Nat
         /\ Cardinality(Readers(j)) <= Cardinality(AllReaders)
<1>1. Readers(j) \subseteq AllReaders
  BY DEF Readers, AllReaders
<1> QED
  BY <1>1, FS_Subset, FS_CardinalityType

(* Everything the sum is made of is a number.                              *)
LEMMA ClaimsAreNumbers ==
  ASSUME TypeInv, AttemptsAreOwed, NEW j \in Jobs
  PROVE  /\ last[j] \in Nat /\ faults \in Nat /\ manual \in Nat
         /\ Cardinality(Readers(j)) \in Nat
         /\ Cardinality(Readers(j)) <= manual
         /\ One(Waits(j)) \in 0..1 /\ One(Owed(j)) \in 0..1
         /\ One(Due(j)) \in 0..1
         /\ last[j] + One(Waits(j)) + One(Owed(j)) + One(Due(j))
              + Cardinality(Readers(j)) <= ApiRetryMax + faults + manual
<1>1. last[j] \in Nat /\ faults \in Nat /\ manual \in Nat
  BY DEF TypeInv, TypeOK
<1>2. /\ Cardinality(Readers(j)) \in Nat /\ Cardinality(AllReaders) \in Nat
      /\ Cardinality(Readers(j)) <= Cardinality(AllReaders)
  BY ReadersAreFinite DEF AttemptsAreOwed
<1> QED
  BY <1>1, <1>2 DEF AttemptsAreOwed, Claims, One

(* The readers: one more is one more retry by hand.                        *)
LEMMA ReadersStep ==
  ASSUME TypeInv, AttemptsAreOwed, [Next]_vars
  PROVE  IsFiniteSet(AllReaders') /\ Cardinality(AllReaders') <= manual'
<1> USE DEF AllReaders
<1>0. /\ IsFiniteSet(AllReaders) /\ Cardinality(AllReaders) \in Nat
      /\ Cardinality(AllReaders) <= manual /\ manual \in Nat
      /\ manual' \in {manual, manual + 1}
      /\ seen \in [Operators -> Jobs \cup {NoJob}]
  BY BudgetsGrow, FS_CardinalityType DEF AttemptsAreOwed, TypeInv, TypeOK
<1>1. CASE \E o \in Operators, j \in Jobs : ReadForRetry(o, j)
  <2> PICK o \in Operators, j \in Jobs : ReadForRetry(o, j)
    BY <1>1
  <2>1. AllReaders' \subseteq AllReaders \cup {o} /\ manual' = manual + 1
    BY <1>0 DEF ReadForRetry
  <2>2. /\ IsFiniteSet(AllReaders \cup {o})
        /\ Cardinality(AllReaders \cup {o}) \in
             {Cardinality(AllReaders), Cardinality(AllReaders) + 1}
    <3> HIDE DEF AllReaders
    <3> QED
      BY <1>0, FS_AddElement
  <2>3. /\ IsFiniteSet(AllReaders')
        /\ Cardinality(AllReaders') <= Cardinality(AllReaders \cup {o})
    BY <2>1, <2>2, FS_Subset
  <2>4. Cardinality(AllReaders') \in Nat
    BY <2>3, FS_CardinalityType
  <2> QED
    BY <1>0, <2>1, <2>2, <2>3, <2>4
<1>2. CASE ~ \E o \in Operators, j \in Jobs : ReadForRetry(o, j)
  <2>1. \A o \in Operators : seen'[o] \in {seen[o], NoJob}
    <3>1. ASSUME NEW o \in Operators, Operate(o)
          PROVE  \A p \in Operators : seen'[p] \in {seen[p], NoJob}
      BY <1>0, <1>2, <3>1 DEF Operate, RetryByHand, ResendPending
    <3>2. ASSUME NEW w \in Workers, Handle(w) PROVE seen' = seen
      BY <3>2 DEF Handle, Skip, Claim, ClaimConflict, Respond, Refuse, Save,
        SaveConflict, Fail, Analyse, Reanalyse
    <3>3. ASSUME NEW w \in Workers, Break(w) \/ \E i \in Jobs : Take(w, i)
          PROVE  seen' = seen
      BY <3>3 DEF Break, GiveUpBeforeClaim, FailLost, Crash, Take, Receive,
        ReceiveReanalysis
    <3>4. ASSUME NEW i \in Jobs, Environment(i) PROVE seen' = seen
      BY <3>4 DEF Environment, Import, Supersede, ChangeRules, QuarterPasses,
        DayPasses
    <3>5. ASSUME Recover \/ RecoveryCrash PROVE seen' = seen
      BY <3>5 DEF Recover, RecoveryCrash, FindStaleRunning, ResetStaleRunning,
        FindStalePending, FindAnalysisFailed, MarkRetried, FindRejected,
        ResetRejected, NotifyGivenUp, Reenqueue, FinishRecovery
    <3> QED
      BY <3>1, <3>2, <3>3, <3>4, <3>5 DEF Next, vars
  <2>2. AllReaders' \subseteq AllReaders
    BY <2>1
  <2>3. /\ IsFiniteSet(AllReaders')
        /\ Cardinality(AllReaders') <= Cardinality(AllReaders)
    BY <1>0, <2>2, FS_Subset
  <2>4. Cardinality(AllReaders') \in Nat
    BY <2>3, FS_CardinalityType
  <2> QED
    BY <1>0, <2>3, <2>4
<1> QED
  BY <1>1, <1>2

(* A step that asks for no attempt of a job adds nothing to the sum.       *)
LEMMA ClaimsFrame ==
  ASSUME TypeInv, Story, AttemptsAreOwed, [Next]_vars, NEW j \in Jobs,
         last'[j] = last[j], seen' = seen,
         status'[j] \in {"none", "pending"} =>
           status[j] \in {"none", "pending"},
         rpc' = "reset" /\ j \in found' => rpc = "reset" /\ j \in found
  PROVE  Claims(j)' <= ApiRetryMax + faults' + manual'
<1>1. Readers(j)' = Readers(j)
  BY DEF Readers
<1>2. Owed(j)' => Owed(j) \/ faults' = faults + 1
  BY OwedStep
<1>3. (Waits(j)' => Waits(j)) /\ (Due(j)' => Due(j))
  BY DEF Waits, Due
<1>4. One(Waits(j)') <= One(Waits(j)) /\ One(Due(j)') <= One(Due(j))
      /\ One(Waits(j)') \in 0..1 /\ One(Due(j)') \in 0..1
      /\ One(Owed(j)') \in 0..1
  BY <1>3 DEF One
<1>5. /\ faults' \in {faults, faults + 1} /\ manual' \in {manual, manual + 1}
      /\ One(Owed(j)') <= One(Owed(j)) \/ faults' = faults + 1
  BY <1>2, BudgetsGrow DEF One
<1>6. Claims(j)' = last[j] + One(Waits(j)') + One(Owed(j)') + One(Due(j)')
                     + Cardinality(Readers(j))
  BY <1>1 DEF Claims
<1> HIDE DEF One
<1> QED
  BY <1>4, <1>5, <1>6, ClaimsAreNumbers

(* A step adds to the sum of a job only by a failure or a retry by hand.   *)
LEMMA ClaimsStep ==
  ASSUME TypeInv, Story, AttemptsAreOwed, [Next]_vars, NEW j \in Jobs
  PROVE  Claims(j)' <= ApiRetryMax + faults' + manual'
<1> USE DEF jobVars
<1> DEFINE Goal == Claims(j)' <= ApiRetryMax + faults' + manual'
<1> SUFFICES Goal
  OBVIOUS
<1>0. /\ status \in [Jobs -> Status] /\ last \in [Jobs -> 0..MaxAttempts]
      /\ seen \in [Operators -> Jobs \cup {NoJob}] /\ faults \in Nat
      /\ manual \in Nat /\ found \in SUBSET Jobs
      /\ \A w \in Workers : pc[w] # "idle" => job[w] \in Jobs
  BY DEF TypeInv, TypeOK, Registers
<1>a. Claims(j)' = last'[j] + One(Waits(j)') + One(Owed(j)') + One(Due(j)')
                     + Cardinality(Readers(j)')
  BY DEF Claims
<1>b. Owed(j)' => Owed(j) \/ faults' = faults + 1
  BY OwedStep
<1>1. ASSUME NEW w \in Workers, Claim(w) PROVE Goal
  <2>1. CASE job[w] = j
    <3>1. /\ last'[j] = last[j] + 1 /\ Waits(j) /\ ~ Waits(j)'
          /\ UNCHANGED <<rpc, found, seen, faults, manual>>
      BY <1>0, <1>1, <2>1 DEF Claim, Claimable, Waits, recoveryVars, budgetVars
    <3>2. (Due(j)' <=> Due(j)) /\ (Owed(j)' => Owed(j)) /\
            Readers(j)' = Readers(j)
      BY <1>0, <1>b, <3>1 DEF Due, Readers
    <3> QED
      BY <1>0, <1>a, <3>1, <3>2, ClaimsAreNumbers DEF One
  <2>2. CASE job[w] # j
    BY <1>0, <1>1, <2>2, ClaimsFrame DEF Claim, recoveryVars
  <2> QED
    BY <2>1, <2>2
<1>2. ASSUME NEW w \in Workers, Handle(w), ~ Claim(w) PROVE Goal
  <2>1. /\ last' = last /\ seen' = seen /\ UNCHANGED <<rpc, found>>
        /\ status'[j] \in {"none", "pending"} => status'[j] = status[j]
    BY <1>0, <1>2 DEF Handle, Skip, ClaimConflict, Respond, Refuse, Save,
      SavedStatus, SaveConflict, Fail, Analyse, Reanalyse, recoveryVars
  <2> QED
    BY <2>1, ClaimsFrame
<1>3. ASSUME NEW w \in Workers, Break(w) \/ \E i \in Jobs : Take(w, i)
      PROVE  Goal
  <2>1. UNCHANGED <<last, seen, rpc, found, status>>
    BY <1>3 DEF Break, GiveUpBeforeClaim, FailLost, Crash, Take, Receive,
      ReceiveReanalysis, recoveryVars
  <2> QED
    BY <2>1, ClaimsFrame
<1>4. ASSUME NEW i \in Jobs, Environment(i) PROVE Goal
  <2>1. /\ UNCHANGED <<last, seen, rpc, found>>
        /\ status'[j] \in {"none", "pending"} =>
             status[j] \in {"none", "pending"}
    BY <1>0, <1>4 DEF Environment, Import, Supersede, ChangeRules,
      QuarterPasses, DayPasses, recoveryVars
  <2> QED
    BY <2>1, ClaimsFrame
<1>5. ASSUME NEW o \in Operators, NEW i \in Jobs, ReadForRetry(o, i) PROVE Goal
  <2>1. /\ UNCHANGED <<last, rpc, found, status, faults>>
        /\ manual' = manual + 1
        /\ seen' = [seen EXCEPT ![o] = i]
    BY <1>5 DEF ReadForRetry, recoveryVars
  <2>2. Readers(j)' \subseteq Readers(j) \cup {o}
    BY <1>0, <2>1 DEF Readers
  <2>3. Cardinality(Readers(j)') \in Nat
        /\ Cardinality(Readers(j)') <= Cardinality(Readers(j)) + 1
    <3> HIDE DEF Readers
    <3>1. IsFiniteSet(Readers(j)) /\ Cardinality(Readers(j)) \in Nat
      BY ReadersAreFinite DEF AttemptsAreOwed
    <3>2. /\ IsFiniteSet(Readers(j) \cup {o})
          /\ Cardinality(Readers(j) \cup {o}) \in
               {Cardinality(Readers(j)), Cardinality(Readers(j)) + 1}
      BY <3>1, FS_AddElement
    <3>3. /\ IsFiniteSet(Readers(j)')
          /\ Cardinality(Readers(j)') <= Cardinality(Readers(j) \cup {o})
      BY <2>2, <3>2, FS_Subset
    <3>4. Cardinality(Readers(j)') \in Nat
      BY <3>3, FS_CardinalityType
    <3> QED
      BY <3>1, <3>2, <3>3, <3>4
  <2>4. (Due(j)' <=> Due(j)) /\ (Waits(j)' <=> Waits(j)) /\
          (Owed(j)' => Owed(j))
    BY <1>0, <1>b, <2>1 DEF Due, Waits
  <2> QED
    BY <1>a, <2>1, <2>3, <2>4, ClaimsAreNumbers DEF One
<1>6. ASSUME NEW o \in Operators, NEW i \in Jobs,
             ResendPending(o, i) PROVE Goal
  BY <1>6, ClaimsFrame DEF ResendPending, recoveryVars
<1>7. ASSUME NEW o \in Operators, RetryByHand(o) PROVE Goal
  <2>1. /\ UNCHANGED <<last, rpc, found>> /\ seen[o] \in Jobs
        /\ seen' = [seen EXCEPT ![o] = NoJob]
        /\ status' = [status EXCEPT ![seen[o]] =
                        IF status[seen[o]] = "error" THEN "pending" ELSE @]
    BY <1>7 DEF RetryByHand, recoveryVars
  <2>2. CASE seen[o] = j
    <3>1. Readers(j)' = Readers(j) \ {o} /\ o \in Readers(j)
      BY <1>0, <2>1, <2>2 DEF Readers
    <3>2. Cardinality(Readers(j)') = Cardinality(Readers(j)) - 1
      <4> HIDE DEF Readers
      <4>1. IsFiniteSet(Readers(j))
        BY ReadersAreFinite DEF AttemptsAreOwed
      <4> QED
        BY <3>1, <4>1, FS_RemoveElement
    <3>3. (Due(j)' <=> Due(j)) /\ manual' \in {manual, manual + 1}
          /\ faults' \in {faults, faults + 1}
      BY <2>1, BudgetsGrow DEF Due
    <3> QED
      BY <1>a, <1>b, <2>1, <3>2, <3>3, ClaimsAreNumbers DEF One
  <2>3. CASE seen[o] # j
    <3>1. Readers(j)' = Readers(j)
      BY <1>0, <2>1, <2>3 DEF Readers
    <3>2. (Due(j)' <=> Due(j)) /\ (Waits(j)' <=> Waits(j))
          /\ manual' \in {manual, manual + 1}
          /\ faults' \in {faults, faults + 1}
      BY <1>0, <2>1, <2>3, BudgetsGrow DEF Due, Waits
    <3> QED
      BY <1>a, <1>b, <2>1, <3>1, <3>2, ClaimsAreNumbers DEF One
  <2> QED
    BY <2>2, <2>3
<1>8. CASE ResetStaleRunning
  <2>1. UNCHANGED <<last, seen, faults, manual>>
        /\ rpc = "running" /\ rpc' = "pending"
        /\ status'[j] = IF StillRunning(j) THEN "pending" ELSE status[j]
    BY <1>8 DEF ResetStaleRunning, budgetVars
  <2>2. Readers(j)' = Readers(j) /\ ~ Due(j)'
    BY <2>1 DEF Readers, Due
  <2>3. CASE StillRunning(j)
    <3>1. Owed(j) /\ ~ Owed(j)'
      BY <2>1, <2>3 DEF StillRunning, Owed
    <3> QED
      BY <1>a, <2>1, <2>2, <3>1, ClaimsAreNumbers DEF One
  <2>4. CASE ~ StillRunning(j)
    <3>1. Waits(j)' <=> Waits(j)
      BY <2>1, <2>4 DEF Waits
    <3> QED
      BY <1>0, <1>a, <1>b, <2>1, <2>2, <3>1, ClaimsAreNumbers DEF One
  <2> QED
    BY <2>3, <2>4
<1>9. CASE FindRejected
  <2>1. UNCHANGED <<last, seen, faults, manual, status>>
        /\ rpc = "mark" /\ found = {} /\ (j \in found' => Retriable(j))
    BY <1>9 DEF FindRejected, budgetVars
  <2>2. Readers(j)' = Readers(j) /\ (Waits(j)' <=> Waits(j)) /\
          (Owed(j)' => Owed(j))
    BY <1>0, <1>b, <2>1 DEF Readers, Waits
  <2>3. CASE j \in found'
    <3>1. status[j] = "error" /\ last[j] < ApiRetryMax
      BY <2>1, <2>3 DEF Retriable, Rejected
    <3>2. ~ Waits(j)' /\ ~ Owed(j)'
      BY <2>1, <2>2, <3>1 DEF Waits, Owed
    <3> QED
      BY <1>a, <2>1, <2>2, <3>1, <3>2, ClaimsAreNumbers DEF One
  <2>4. CASE j \notin found'
    BY <2>1, <2>2, <2>4, ClaimsFrame
  <2> QED
    BY <2>3, <2>4
<1>10. ASSUME NEW i \in Jobs, ResetRejected(i) PROVE Goal
  <2>1. /\ UNCHANGED <<last, seen, faults, manual>> /\ rpc = "reset"
        /\ rpc' = "reset" /\ i \in found /\ found' = found \ {i}
        /\ status' = [status EXCEPT ![i] =
                        IF status[i] = "error" /\ errmsg[i] = "API_ERROR"
                          THEN "pending" ELSE @]
    BY <1>0, <1>10 DEF ResetRejected, budgetVars
  <2>2. CASE i = j
    <3>1. Due(j) /\ ~ Due(j)' /\ Readers(j)' = Readers(j) /\
            (Owed(j)' => Owed(j))
      BY <1>0, <1>b, <2>1, <2>2 DEF Due, Readers
    <3>2. Waits(j) => Waits(j)'
      BY <1>0, <2>1, <2>2 DEF Waits
    <3> QED
      BY <1>a, <2>1, <3>1, ClaimsAreNumbers DEF One
  <2>3. CASE i # j
    BY <1>0, <2>1, <2>3, ClaimsFrame
  <2> QED
    BY <2>2, <2>3
<1>11. ASSUME Recover \/ RecoveryCrash, ~ ResetStaleRunning, ~ FindRejected,
              ~ \E i \in Jobs : ResetRejected(i)
       PROVE  Goal
  <2>1. UNCHANGED <<last, seen, status>>
        /\ (rpc' = "reset" /\ j \in found' => rpc = "reset" /\ j \in found)
    BY <1>11 DEF Recover, RecoveryCrash, FindStaleRunning, FindStalePending,
      FindAnalysisFailed, MarkRetried, NotifyGivenUp, Reenqueue, FinishRecovery
  <2> QED
    BY <2>1, ClaimsFrame
<1>12. CASE UNCHANGED vars
  BY <1>12, ClaimsFrame DEF vars, recoveryVars
<1> HIDE DEF Goal
<1> QED
  BY <1>1, <1>2, <1>3, <1>4, <1>5, <1>6, <1>7, <1>8, <1>9, <1>10, <1>11, <1>12
     DEF Next, Operate, Recover

-----------------------------------------------------------------------------
(* What follows for the attempts and the calls                             *)

LEMMA LimitsInit == Init => HoldersDiffer /\ CallsAreOwed /\ AttemptsAreOwed
<1> SUFFICES ASSUME Init PROVE HoldersDiffer /\ CallsAreOwed /\ AttemptsAreOwed
  OBVIOUS
<1>1. HoldersDiffer
  BY DEF Init, HoldersDiffer
<1>2. ASSUME NEW j \in Jobs
      PROVE  /\ LateCallers(j) = {} /\ Readers(j) = {}
             /\ ~ Owed(j) /\ ~ Due(j) /\ Waits(j) /\ last[j] = 0
  BY <1>2 DEF Init, LateCallers, InCall, Readers, Owed, Due, Waits
<1>3. AllReaders = {}
  BY DEF Init, AllReaders
<1>4. faults = 0 /\ manual = 0
  BY DEF Init
<1>5. CallsAreOwed
  BY <1>2, <1>4, FS_EmptySet DEF CallsAreOwed, One
<1>6. AttemptsAreOwed
  BY <1>2, <1>3, <1>4, FS_EmptySet DEF AttemptsAreOwed, Claims, One
<1> QED
  BY <1>1, <1>5, <1>6

LEMMA LimitsAlways ==
  Spec => [](/\ TypeInv /\ Story /\ HoldersDiffer
             /\ CallsAreOwed /\ AttemptsAreOwed)
<1>1. Init => TypeInv /\ Story /\ HoldersDiffer /\ CallsAreOwed /\
        AttemptsAreOwed
  BY TypeInit, StoryInit, LimitsInit DEF TypeInv
<1>2. TypeInv /\ Story /\ AttemptsAreOwed /\ [Next]_vars => AttemptsAreOwed'
  BY ReadersStep, ClaimsStep DEF AttemptsAreOwed
<1>3. TypeInv /\ Story /\ HoldersDiffer /\ CallsAreOwed /\ [Next]_vars =>
        CallsAreOwed'
  BY CallsAreOwedStep
<1> QED
  BY <1>1, <1>2, <1>3, TypeStep, StoryStep, HoldersStep, PTL DEF Spec

(* Whatever is lost, late, delivered twice or retried by hand, the         *)
(* attempts of a posting are counted.                                      *)
THEOREM AttemptsLimited == Spec => []AttemptsAreLimited
<1>1. TypeInv /\ AttemptsAreOwed => AttemptsAreLimited
  <2> SUFFICES ASSUME TypeInv, AttemptsAreOwed, NEW j \in Jobs
               PROVE  last[j] <= ApiRetryMax + faults + manual
    BY DEF AttemptsAreLimited
  <2> HIDE DEF One
  <2> QED
    BY ClaimsAreNumbers
<1> QED
  BY <1>1, LimitsAlways, PTL

(* One worker at a time calls Gemini for a posting, failures aside.        *)
THEOREM OneCall == Spec => []OneCallAtATime
<1>1. TypeInv /\ HoldersDiffer /\ CallsAreOwed => OneCallAtATime
  <2> SUFFICES ASSUME TypeInv, HoldersDiffer, CallsAreOwed, NEW j \in Jobs
               PROVE  Cardinality({w \in Workers : InCall(w, j)}) <= 1 + faults
    BY DEF OneCallAtATime
  <2> DEFINE Callers == {w \in Workers : InCall(w, j)}
  <2>1. /\ IsFiniteSet(LateCallers(j)) /\ Cardinality(LateCallers(j)) \in Nat
        /\ Cardinality(LateCallers(j)) <= faults /\ faults \in Nat
    <3>1. /\ IsFiniteSet(LateCallers(j)) /\ faults \in Nat
          /\ Cardinality(LateCallers(j)) + One(Owed(j)) <= faults
      BY DEF CallsAreOwed, TypeInv, TypeOK
    <3>2. Cardinality(LateCallers(j)) \in Nat
      BY <3>1, FS_CardinalityType
    <3> QED
      BY <3>1, <3>2 DEF One
  <2>2. CASE Callers \subseteq LateCallers(j)
    <3>1. /\ IsFiniteSet(Callers)
          /\ Cardinality(Callers) <= Cardinality(LateCallers(j))
      BY <2>1, <2>2, FS_Subset
    <3>2. Cardinality(Callers) \in Nat
      BY <3>1, FS_CardinalityType
    <3> QED
      BY <2>1, <3>1, <3>2
  <2>3. ASSUME NEW w \in Callers, w \notin LateCallers(j)
        PROVE  Cardinality(Callers) <= 1 + faults
    <3>1. Callers \subseteq LateCallers(j) \cup {w}
      <4>1. ASSUME NEW v \in Callers, v \notin LateCallers(j) PROVE v = w
        <5>1. /\ job[v] = job[w] /\ att[v] = att[w]
              /\ pc[v] \in {"calling", "replied"}
              /\ v \in Workers /\ w \in Workers
          BY <2>3, <4>1 DEF LateCallers, InCall
        <5> QED
          BY <5>1 DEF HoldersDiffer, TypeInv, TypeOK
      <4> QED
        BY <4>1
    <3> HIDE DEF Callers
    <3>2. /\ IsFiniteSet(LateCallers(j) \cup {w})
          /\ Cardinality(LateCallers(j) \cup {w}) =
               Cardinality(LateCallers(j)) + 1
      BY <2>1, <2>3, FS_AddElement
    <3>3. IsFiniteSet(Callers)
          /\ Cardinality(Callers) <= Cardinality(LateCallers(j) \cup {w})
      BY <3>1, <3>2, FS_Subset
    <3>4. Cardinality(Callers) \in Nat
      BY <3>3, FS_CardinalityType
    <3> QED
      BY <2>1, <3>2, <3>3, <3>4
  <2> QED
    BY <2>2, <2>3
<1> QED
  BY <1>1, LimitsAlways, PTL

LEMMA DoneStep ==
  ASSUME Operators = {}, TypeInv, Story, DoneHasItems, [Next]_vars
  PROVE  DoneHasItems'
<1> SUFFICES ASSUME NEW j \in Jobs, status'[j] = "done"
             PROVE  last'[j] > 0 /\ items'[j] = last'[j]
  BY DEF DoneHasItems
<1> USE DEF jobVars
<1>0. /\ status \in [Jobs -> Status] /\ last \in [Jobs -> 0..MaxAttempts]
      /\ items \in [Jobs -> 0..MaxAttempts]
      /\ \A w \in Workers : pc[w] # "idle" => job[w] \in Jobs
  BY DEF TypeInv, TypeOK, Registers
<1>1. ASSUME status[j] = "done", last'[j] = last[j], items'[j] = items[j]
      PROVE  last'[j] > 0 /\ items'[j] = last'[j]
  BY <1>1 DEF DoneHasItems
<1>2. ASSUME NEW w \in Workers, Save(w), job[w] = j
      PROVE  last'[j] > 0 /\ items'[j] = last'[j]
  BY <1>0, <1>2 DEF Save, SavedStatus, Owned, LatestIn
<1>3. ASSUME NEW w \in Workers, Save(w), job[w] # j
      PROVE  status[j] = "done" /\ last'[j] = last[j] /\ items'[j] = items[j]
  BY <1>0, <1>3 DEF Save
<1>4. ASSUME NEW w \in Workers, Handle(w), ~ Save(w)
      PROVE  status[j] = "done" /\ last'[j] = last[j] /\ items'[j] = items[j]
  BY <1>0, <1>4 DEF Handle, Skip, Claim, ClaimConflict, Respond, Refuse,
    SaveConflict, Fail, Analyse, Reanalyse
<1>5. ASSUME NEW w \in Workers, Break(w) \/ \E i \in Jobs : Take(w, i)
      PROVE  UNCHANGED <<status, last, items>>
  BY <1>5 DEF Break, GiveUpBeforeClaim, FailLost, Crash, Take, Receive,
    ReceiveReanalysis
<1>6. ASSUME NEW i \in Jobs, Environment(i)
      PROVE  status[j] = "done" /\ last'[j] = last[j] /\ items'[j] = items[j]
  BY <1>0, <1>6 DEF Environment, Import, Supersede, ChangeRules,
    QuarterPasses, DayPasses
<1>7. ASSUME Recover \/ RecoveryCrash
      PROVE  status[j] = "done" /\ last'[j] = last[j] /\ items'[j] = items[j]
  BY <1>0, <1>7 DEF Recover, RecoveryCrash, FindStaleRunning,
    ResetStaleRunning, FindStalePending, FindAnalysisFailed, MarkRetried,
    FindRejected, ResetRejected, NotifyGivenUp, Reenqueue, FinishRecovery
<1>8. UNCHANGED vars => UNCHANGED <<status, last, items>>
  BY DEF vars
<1> QED
  BY <1>1, <1>2, <1>3, <1>4, <1>5, <1>6, <1>7, <1>8 DEF Next

(* Without retries by hand, a job that is done also keeps the items of its *)
(* attempt; a retry by hand that read the job as failed takes them away.   *)
THEOREM CallsLimited ==
  ASSUME Operators = {}
  PROVE  Spec => []CallsAreLimited
<1>1. Init => DoneHasItems
  BY DEF Init, DoneHasItems
<1>2. TypeInv /\ Story /\ DoneHasItems /\ [Next]_vars => DoneHasItems'
  BY DoneStep
<1>3. Spec => []DoneHasItems
  BY <1>1, <1>2, LimitsAlways, PTL DEF Spec
<1> QED
  BY <1>3, AttemptsLimited, OneCall, PTL DEF CallsAreLimited

=============================================================================
