------------------------- MODULE DistributionProofs -------------------------
(***************************************************************************)
(* Theorems about what the workers do: Distribution, for any number of     *)
(* postings, processes, changes, failures and tries, and CalendarSync, for *)
(* any number of events, requests, workers, channels and failures.         *)
(***************************************************************************)
EXTENDS DistributionInTurn, MCUpkeep, TLAPS

USE RetryMaxAssumption, BoundsAssumption

-----------------------------------------------------------------------------
(* The type invariant                                                      *)

LEMMA TypeInit == Init => TypeOK
<1>1. 0 \in Rows
  BY DEF Rows
<1> QED
  BY <1>1 DEF Init, TypeOK, PostState, RunStep, WorkTypes, AskTypes, RunTypes,
              SheetTypes, ReadTypes, BudgetTypes

LEMMA TypeExtract ==
  ASSUME TypeOK, NEW p \in Posts, Extract(p)
  PROVE  TypeOK'
<1> USE DEF TypeOK, askVars, runVars, workVars, sheetVars, readVars,
            budgetVars
<1>1. WorkTypes'
  BY DEF WorkTypes, Extract, OpenPost, SavePost, AnalysePost,
         ClosePost, PostState, Rows
<1>2. (AskTypes /\ RunTypes /\ SheetTypes /\ ReadTypes /\ BudgetTypes)'
  BY DEF AskTypes, RunTypes, SheetTypes, ReadTypes, BudgetTypes,
         Extract, OpenPost, SavePost, AnalysePost, ClosePost
<1> QED  BY <1>1, <1>2

LEMMA TypeAskAuto ==
  ASSUME TypeOK, NEW p \in Posts, AskAuto(p)
  PROVE  TypeOK'
<1> USE DEF TypeOK, askVars, runVars, workVars, sheetVars, readVars,
            budgetVars
<1>1. WorkTypes'
  BY DEF WorkTypes, AskAuto, SendAuto, Try, Fault, PostState
<1>2. AskTypes'
  BY DEF AskTypes, AskAuto, SendAuto, Try, Fault
<1>3. BudgetTypes'
  BY DEF BudgetTypes, AskAuto, SendAuto, Try, Fault
<1>4. (RunTypes /\ SheetTypes /\ ReadTypes)'
  BY DEF RunTypes, SheetTypes, ReadTypes, AskAuto, SendAuto, Try,
         Fault
<1> QED  BY <1>1, <1>2, <1>3, <1>4

LEMMA TypeRerun ==
  ASSUME TypeOK, NEW u \in Reruns, BeginRerun(u) \/ CompleteRerun(u)
  PROVE  TypeOK'
<1> USE DEF TypeOK, askVars, runVars, workVars, sheetVars, readVars,
            budgetVars
<1>1. WorkTypes'
  BY DEF WorkTypes, BeginRerun, CompleteRerun
<1>2. (AskTypes /\ RunTypes /\ SheetTypes /\ ReadTypes /\ BudgetTypes)'
  BY DEF AskTypes, RunTypes, SheetTypes, ReadTypes, BudgetTypes,
         BeginRerun, CompleteRerun
<1> QED  BY <1>1, <1>2

LEMMA TypeAsk ==
  ASSUME TypeOK, NEW a \in Askers, Correct(a) \/ Ask(a) \/ AskLost(a)
  PROVE  TypeOK'
<1> USE DEF TypeOK, askVars, runVars, workVars, sheetVars, readVars,
            budgetVars
<1>1. CASE Correct(a)
  <2>1. WorkTypes'
    BY <1>1 DEF WorkTypes, Correct, Rows
  <2>2. AskTypes'
    BY <1>1 DEF AskTypes, Correct
  <2>3. (RunTypes /\ SheetTypes /\ ReadTypes /\ BudgetTypes)'
    BY <1>1 DEF RunTypes, SheetTypes, ReadTypes, BudgetTypes, Correct
  <2> QED  BY <2>1, <2>2, <2>3
<1>2. CASE Reserve(a)
  <2>1. AskTypes'
    BY <1>2 DEF AskTypes, Reserve
  <2>2. (WorkTypes /\ RunTypes /\ SheetTypes /\ ReadTypes /\ BudgetTypes)'
    BY <1>2 DEF WorkTypes, RunTypes, SheetTypes, ReadTypes,
           BudgetTypes, Reserve
  <2> QED  BY <2>1, <2>2
<1>3. CASE SendReserved(a)
  <2>1. AskTypes'
    BY <1>3 DEF AskTypes, SendReserved, SendDelayed, Try, Fault
  <2>2. BudgetTypes'
    BY <1>3 DEF BudgetTypes, SendReserved, SendDelayed, Try, Fault
  <2>3. (WorkTypes /\ RunTypes /\ SheetTypes /\ ReadTypes)'
    BY <1>3 DEF WorkTypes, RunTypes, SheetTypes, ReadTypes,
           SendReserved, SendDelayed, Try, Fault
  <2> QED  BY <2>1, <2>2, <2>3
<1>4. CASE AskLost(a)
  <2>1. AskTypes'
    BY <1>4 DEF AskTypes, AskLost, Lapse
  <2>2. BudgetTypes'
    BY <1>4 DEF BudgetTypes, AskLost, Lapse
  <2>3. (WorkTypes /\ RunTypes /\ SheetTypes /\ ReadTypes)'
    BY <1>4 DEF WorkTypes, RunTypes, SheetTypes, ReadTypes, AskLost,
           Lapse
  <2> QED  BY <2>1, <2>2, <2>3
<1> QED  BY <1>1, <1>2, <1>3, <1>4 DEF Ask

LEMMA TypeExpire ==
  ASSUME TypeOK, KeyExpires
  PROVE  TypeOK'
<1> USE DEF TypeOK, askVars, runVars, workVars, sheetVars, readVars,
            budgetVars
<1>1. AskTypes'
  BY DEF AskTypes, KeyExpires, Try, Lapse
<1>2. BudgetTypes'
  BY DEF BudgetTypes, KeyExpires, Try, Lapse
<1>3. (WorkTypes /\ RunTypes /\ SheetTypes /\ ReadTypes)'
  BY DEF WorkTypes, RunTypes, SheetTypes, ReadTypes, KeyExpires, Try,
         Lapse
<1> QED  BY <1>1, <1>2, <1>3

LEMMA TypeStart ==
  ASSUME TypeOK, NEW r \in Runners, Start(r) \/ StartByHand(r)
  PROVE  TypeOK'
<1> USE DEF TypeOK, askVars, runVars, workVars, sheetVars, readVars,
            budgetVars
<1>1. AskTypes'
  BY DEF AskTypes, Start, StartAuto, StartDelayed, StartByHand, GoTo
<1>2. RunTypes'
  BY DEF RunTypes, Start, StartAuto, StartDelayed, StartByHand, GoTo,
         RunStep
<1>3. BudgetTypes'
  BY DEF BudgetTypes, Start, StartAuto, StartDelayed, StartByHand,
         GoTo
<1>4. (WorkTypes /\ SheetTypes /\ ReadTypes)'
  BY DEF WorkTypes, SheetTypes, ReadTypes, Start, StartAuto,
         StartDelayed, StartByHand, GoTo
<1> QED  BY <1>1, <1>2, <1>3, <1>4

LEMMA FreeTypes ==
  ASSUME RunTypes, NEW r \in Runners, Free(r)
  PROVE  RunTypes'
BY DEF RunTypes, Free, GoTo, RunStep, Rows

LEMMA WriteFailedTypes ==
  ASSUME RunTypes, NEW r \in Runners, WriteFailed(r)
  PROVE  /\ pc' \in [Runners -> RunStep]
         /\ tries' \in [Runners -> 0..(RetryMax - 1)]
<1>1. pc' \in [Runners -> RunStep]
  BY DEF RunTypes, WriteFailed, GoTo, RunStep
<1>2. CASE tries[r] + 1 < RetryMax
  <2>1. tries[r] + 1 \in 0..(RetryMax - 1)
    BY <1>2 DEF RunTypes
  <2> QED  BY <1>1, <1>2, <2>1 DEF RunTypes, WriteFailed
<1>3. CASE ~ (tries[r] + 1 < RetryMax)
  BY <1>1, <1>3 DEF RunTypes, WriteFailed
<1> QED  BY <1>2, <1>3

LEMMA NoRows == <<>> \in Seq(Rows)
OBVIOUS

LEMMA MoreRows ==
  ASSUME NEW s \in Seq(Rows), NEW v \in Rows
  PROVE  Append(s, v) \in Seq(Rows)
OBVIOUS

LEMMA TypeRun ==
  ASSUME TypeOK, NEW r \in Runners, Run(r)
  PROVE  TypeOK'
<1> USE DEF TypeOK, askVars, runVars, workVars, sheetVars, readVars,
            budgetVars
<1>1. CASE Release(r)
  <2>1. AskTypes'
    BY <1>1 DEF AskTypes, Release, GoTo, Try, Lapse
  <2>2. RunTypes'
    BY <1>1 DEF RunTypes, Release, GoTo, Try, Lapse, RunStep
  <2>3. BudgetTypes'
    BY <1>1 DEF BudgetTypes, Release, GoTo, Try, Lapse
  <2>4. (WorkTypes /\ SheetTypes /\ ReadTypes)'
    BY <1>1 DEF WorkTypes, SheetTypes, ReadTypes, Release, GoTo, Try,
           Lapse
  <2> QED  BY <2>1, <2>2, <2>3, <2>4
<1>2. CASE CheckRuns(r) \/ CheckJobs(r)
  <2>1. RunTypes'
    <3>1. CASE HoldBack(r)
      BY <3>1, FreeTypes DEF HoldBack
    <3>2. CASE PassOn(r, "jobs") \/ PassOn(r, "rows")
      BY <3>2 DEF RunTypes, PassOn, GoTo, RunStep
    <3> QED  BY <1>2, <3>1, <3>2 DEF CheckRuns, CheckJobs
  <2>2. ReadTypes'
    BY <1>2 DEF ReadTypes, CheckRuns, CheckJobs, HoldBack, PassOn,
           Free, GoTo, WorkTypes
  <2>3. (WorkTypes /\ AskTypes /\ SheetTypes /\ BudgetTypes)'
    BY <1>2 DEF WorkTypes, AskTypes, SheetTypes, BudgetTypes,
           CheckRuns, CheckJobs, HoldBack, PassOn, Free, GoTo
  <2> QED  BY <2>1, <2>2, <2>3
<1>3. CASE ReadRows(r)
  <2>1. RunTypes'
    BY <1>3 DEF RunTypes, ReadRows, GoTo, RunStep, WorkTypes
  <2>2. ReadTypes'
    BY <1>3 DEF ReadTypes, ReadRows, GoTo, WorkTypes
  <2>3. (WorkTypes /\ AskTypes /\ SheetTypes /\ BudgetTypes)'
    BY <1>3 DEF WorkTypes, AskTypes, SheetTypes, BudgetTypes,
           ReadRows, GoTo
  <2> QED  BY <2>1, <2>2, <2>3
<1>4. CASE Clear(r)
  <2>1. RunTypes'
    <3>1. CASE WriteFailed(r)
      BY <1>4, <3>1, WriteFailedTypes DEF RunTypes, Clear
    <3>2. CASE GoTo(r, "appending") /\ UNCHANGED tries
      BY <1>4, <3>2 DEF RunTypes, RunStep, Clear, GoTo
    <3> QED  BY <1>4, <3>1, <3>2 DEF Clear
  <2>2. SheetTypes'
    <3>1. sheet' \in {sheet, <<>>}
      BY <1>4 DEF Clear
    <3> QED  BY <1>4, <3>1, NoRows DEF Clear, SheetTypes
  <2>3. BudgetTypes'
    BY <1>4 DEF BudgetTypes, Clear, WriteFailed, Fault, GoTo
  <2>4. (WorkTypes /\ AskTypes /\ ReadTypes)'
    BY <1>4 DEF WorkTypes, AskTypes, ReadTypes, Clear, WriteFailed,
           Fault, GoTo
  <2> QED  BY <2>1, <2>2, <2>3, <2>4
<1>5. CASE AppendRows(r)
  <2>1. RunTypes'
    <3>1. CASE WriteFailed(r) /\ UNCHANGED ok
      BY <1>5, <3>1, WriteFailedTypes DEF RunTypes, AppendRows
    <3>2. CASE /\ ok' = [ok EXCEPT ![r] = TRUE]
               /\ GoTo(r, "recording") /\ UNCHANGED tries
      BY <1>5, <3>2 DEF RunTypes, RunStep, AppendRows, GoTo
    <3> QED  BY <1>5, <3>1, <3>2 DEF AppendRows
  <2>2. SheetTypes'
    <3>1. sheet' \in {sheet, Append(sheet, got[r])}
      BY <1>5 DEF AppendRows
    <3>2. got[r] \in Rows
      BY DEF RunTypes
    <3> QED  BY <1>5, <3>1, <3>2, MoreRows DEF AppendRows, SheetTypes
  <2>3. BudgetTypes'
    BY <1>5 DEF BudgetTypes, AppendRows, WriteFailed, Fault, GoTo
  <2>4. (WorkTypes /\ AskTypes /\ ReadTypes)'
    BY <1>5 DEF WorkTypes, AskTypes, ReadTypes, AppendRows,
           WriteFailed, Fault, GoTo
  <2> QED  BY <2>1, <2>2, <2>3, <2>4
<1>6. CASE Record(r)
  <2>1. RunTypes'
    BY <1>6 DEF RunTypes, Record, Free, GoTo, RunStep, Rows
  <2>2. SheetTypes'
    BY <1>6 DEF SheetTypes, Record, Free, GoTo
  <2>3. (WorkTypes /\ AskTypes /\ ReadTypes /\ BudgetTypes)'
    BY <1>6 DEF WorkTypes, AskTypes, ReadTypes, BudgetTypes, Record,
           Free, GoTo
  <2> QED  BY <2>1, <2>2, <2>3
<1> QED  BY <1>1, <1>2, <1>3, <1>4, <1>5, <1>6 DEF Run

LEMMA TypeBreak ==
  ASSUME TypeOK, NEW r \in Runners, Break(r)
  PROVE  TypeOK'
<1> USE DEF TypeOK, askVars, runVars, workVars, sheetVars, readVars,
            budgetVars
<1>1. AskTypes'
  BY DEF AskTypes, Break, Lapse, SendAuto, SendDelayed, Free, GoTo
<1>2. RunTypes'
  BY DEF RunTypes, Break, Lapse, SendAuto, SendDelayed, Free, GoTo,
         RunStep, Rows
<1>3. BudgetTypes'
  BY DEF BudgetTypes, Break, Lapse, SendAuto, SendDelayed, Free, GoTo
<1>4. (WorkTypes /\ SheetTypes /\ ReadTypes)'
  BY DEF WorkTypes, SheetTypes, ReadTypes, Break, Lapse, SendAuto,
         SendDelayed, Free, GoTo
<1> QED  BY <1>1, <1>2, <1>3, <1>4

LEMMA TypeStep == TypeOK /\ [Next]_vars => TypeOK'
<1> SUFFICES ASSUME TypeOK, [Next]_vars PROVE TypeOK'
  OBVIOUS
<1>1. CASE UNCHANGED vars
  BY <1>1 DEF TypeOK, WorkTypes, AskTypes, RunTypes, SheetTypes, ReadTypes,
              BudgetTypes, vars, askVars, runVars, workVars, sheetVars,
              readVars, budgetVars
<1>2. CASE Next
  BY <1>2, TypeExtract, TypeAskAuto, TypeRerun, TypeAsk, TypeExpire,
     TypeStart, TypeRun, TypeBreak DEF Next
<1> QED  BY <1>1, <1>2

(* Every variable keeps its type; in particular a write of the tab is      *)
(* never tried more than _RETRY_MAX times.                                 *)
THEOREM TypeCorrect == Spec => []TypeOK
BY TypeInit, TypeStep, PTL DEF Spec

-----------------------------------------------------------------------------
(* The key                                                                 *)

LEMMA BackedStep ==
  ASSUME TypeOK, KeyIsBacked, [Next]_vars
  PROVE  KeyIsBacked'
<1> USE DEF TypeOK, AskTypes, RunTypes, BudgetTypes, KeyIsBacked, Backed
<1>1. CASE UNCHANGED vars
  BY <1>1 DEF vars, askVars, runVars, budgetVars
<1>2. ASSUME NEW p \in Posts, Extract(p) \/ AskAuto(p) PROVE KeyIsBacked'
  BY <1>2 DEF Extract, OpenPost, SavePost, AnalysePost, ClosePost, AskAuto,
              Try, Fault, askVars, runVars, budgetVars
<1>3. ASSUME NEW u \in Reruns, BeginRerun(u) \/ CompleteRerun(u)
      PROVE  KeyIsBacked'
  BY <1>3 DEF BeginRerun, CompleteRerun, askVars, runVars, budgetVars
<1>4. ASSUME NEW a \in Askers, Correct(a) PROVE KeyIsBacked'
  BY <1>4 DEF Correct, runVars, budgetVars
<1>5. ASSUME NEW a \in Askers, Reserve(a) PROVE KeyIsBacked'
  BY <1>5 DEF Reserve, runVars, budgetVars
<1>6. ASSUME NEW a \in Askers, SendReserved(a) PROVE KeyIsBacked'
  BY <1>6 DEF SendReserved, SendDelayed, Try, Fault, runVars, budgetVars
<1>7. ASSUME NEW a \in Askers, AskLost(a) PROVE KeyIsBacked'
  BY <1>7 DEF AskLost, Lapse, runVars
<1>8. CASE KeyExpires
  BY <1>8 DEF KeyExpires
<1>9. ASSUME NEW r \in Runners, Start(r) \/ StartByHand(r) PROVE KeyIsBacked'
  BY <1>9 DEF Start, StartAuto, StartDelayed, StartByHand, GoTo, askVars,
              budgetVars
<1>10. ASSUME NEW r \in Runners, Release(r) PROVE KeyIsBacked'
  BY <1>10 DEF Release, Try, Lapse
<1>11. ASSUME NEW r \in Runners,
              CheckRuns(r) \/ CheckJobs(r) \/ ReadRows(r) \/ Record(r)
       PROVE  KeyIsBacked'
  BY <1>11 DEF CheckRuns, CheckJobs, ReadRows, Record, HoldBack, PassOn, Free,
               GoTo, askVars, budgetVars
<1>12. ASSUME NEW r \in Runners, Clear(r) \/ AppendRows(r)
       PROVE  KeyIsBacked'
  BY <1>12 DEF Clear, AppendRows, WriteFailed, GoTo, Fault, askVars,
               budgetVars
<1>13. ASSUME NEW r \in Runners, Break(r) PROVE KeyIsBacked'
  BY <1>13 DEF Break, Lapse
<1> QED
  BY <1>1, <1>2, <1>3, <1>4, <1>5, <1>6, <1>7, <1>8, <1>9, <1>10, <1>11,
     <1>12, <1>13 DEF Next, Ask, Run

(* The key stands for a message that is being sent, waits or was just      *)
(* taken, as long as no process dies and Redis answers.                    *)
THEOREM KeyStandsForMessage == Spec => []KeyIsBacked
<1>1. Init => KeyIsBacked
  BY DEF Init, KeyIsBacked
<1> QED  BY <1>1, TypeCorrect, BackedStep, PTL DEF Spec

-----------------------------------------------------------------------------
(* No change is missed.  The case that needs KeyIsBacked is the one of a   *)
(* correction that finds the key taken and relies on another's message.    *)

LEMMA MissedStep ==
  ASSUME TypeOK, KeyIsBacked, NoChangeIsMissed, [Next]_vars
  PROVE  NoChangeIsMissed'
<1> USE DEF TypeOK, WorkTypes, AskTypes, RunTypes, ReadTypes, BudgetTypes,
            NoChangeIsMissed, Waiting, Spared, BeforeRead
<1>1. CASE UNCHANGED vars
  BY <1>1 DEF vars, askVars, runVars, workVars, readVars, budgetVars
<1>2. ASSUME NEW p \in Posts, Extract(p) PROVE NoChangeIsMissed'
  BY <1>2 DEF Extract, OpenPost, SavePost, AnalysePost, ClosePost, askVars,
              runVars, readVars, budgetVars
<1>3. ASSUME NEW p \in Posts, AskAuto(p) PROVE NoChangeIsMissed'
  BY <1>3 DEF AskAuto, SendAuto, Try, Fault, runVars, readVars, budgetVars
<1>4. ASSUME NEW u \in Reruns, BeginRerun(u) \/ CompleteRerun(u)
      PROVE  NoChangeIsMissed'
  BY <1>4 DEF BeginRerun, CompleteRerun, askVars, runVars, readVars,
              budgetVars
<1>5. ASSUME NEW a \in Askers, Correct(a) PROVE NoChangeIsMissed'
  BY <1>5 DEF Correct, runVars, readVars, budgetVars
<1>6. ASSUME NEW a \in Askers, Reserve(a) PROVE NoChangeIsMissed'
  <2>1. CASE key = "absent"
    BY <1>6, <2>1 DEF Reserve, runVars, workVars, readVars, budgetVars
  <2>2. CASE key = "set"
    <3>1. Spared => Backed
      BY <2>2 DEF KeyIsBacked
    <3>2. Backed => Backed'
      BY <1>6 DEF Backed, Reserve, runVars
    <3>3. Backed' => Waiting'
      BY DEF Backed
    <3> QED  BY <1>6, <3>1, <3>2, <3>3 DEF Reserve, budgetVars
  <2> QED  BY <2>1, <2>2
<1>7. ASSUME NEW a \in Askers, SendReserved(a) PROVE NoChangeIsMissed'
  BY <1>7 DEF SendReserved, SendDelayed, Try, Fault, runVars, workVars,
              readVars, budgetVars
<1>8. ASSUME NEW a \in Askers, AskLost(a) PROVE NoChangeIsMissed'
  BY <1>8 DEF AskLost, Lapse
<1>9. CASE KeyExpires
  BY <1>9 DEF KeyExpires, Try, Lapse, runVars, workVars, readVars, budgetVars
<1>10. ASSUME NEW r \in Runners, Start(r) \/ StartByHand(r)
       PROVE  NoChangeIsMissed'
  BY <1>10 DEF Start, StartAuto, StartDelayed, StartByHand, GoTo, workVars,
               readVars, askVars, budgetVars
<1>11. ASSUME NEW r \in Runners, Release(r) PROVE NoChangeIsMissed'
  BY <1>11 DEF Release, GoTo, Try, Lapse, workVars, readVars, budgetVars
<1>12. ASSUME NEW r \in Runners, CheckRuns(r) \/ CheckJobs(r)
       PROVE  NoChangeIsMissed'
  BY <1>12 DEF CheckRuns, CheckJobs, HoldBack, PassOn, Free, GoTo, askVars,
               workVars, readVars, budgetVars
<1>13. ASSUME NEW r \in Runners, ReadRows(r) PROVE NoChangeIsMissed'
  BY <1>13 DEF ReadRows, workVars
<1>14. ASSUME NEW r \in Runners, Clear(r) \/ AppendRows(r) \/ Record(r)
       PROVE  NoChangeIsMissed'
  <2>1. Waiting => Waiting'
    BY <1>14 DEF Clear, AppendRows, Record, WriteFailed, Free, GoTo, askVars,
                 workVars
  <2> QED
    BY <1>14, <2>1 DEF Clear, AppendRows, Record, Fault, workVars, readVars,
                       budgetVars
<1>15. ASSUME NEW r \in Runners, Break(r) PROVE NoChangeIsMissed'
  BY <1>15 DEF Break, Lapse
<1> QED
  BY <1>1, <1>2, <1>3, <1>4, <1>5, <1>6, <1>7, <1>8, <1>9, <1>10, <1>11,
     <1>12, <1>13, <1>14, <1>15 DEF Next, Ask, Run

(* A change of the rows is read by a run, or held back, or still to come,  *)
(* whichever of the requests was merged into which.                        *)
THEOREM EveryChangeIsRead == Spec => []NoChangeIsMissed
<1>1. Init => NoChangeIsMissed
  BY DEF Init, NoChangeIsMissed
<1> QED  BY <1>1, TypeCorrect, KeyStandsForMessage, MissedStep, PTL DEF Spec

-----------------------------------------------------------------------------
(* The requests are merged.  Without a failure the key is set as long as   *)
(* its message exists, and there is one such message: being sent, waiting, *)
(* or taken by a run that has not released the key yet.                    *)

Sending == {a \in Askers : asker[a] = "sending"}
Releasing == {r \in Runners : pc[r] = "releasing"}

OneRequest ==
  Spared =>
    /\ Backed => key = "set"
    /\ delayed <= 1
    /\ delayed = 1 => Sending = {} /\ Releasing = {}
    /\ Sending # {} => Releasing = {}
    /\ \A a, b \in Sending : a = b
    /\ \A r, q \in Releasing : r = q

LEMMA OneRequestStep ==
  ASSUME TypeOK, OneRequest, [Next]_vars
  PROVE  OneRequest'
<1> USE DEF TypeOK, AskTypes, RunTypes, BudgetTypes, OneRequest, Spared,
            Backed, Sending, Releasing
<1>1. CASE UNCHANGED vars
  BY <1>1 DEF vars, askVars, runVars, budgetVars
<1>2. ASSUME NEW p \in Posts, Extract(p) PROVE OneRequest'
  BY <1>2 DEF Extract, OpenPost, SavePost, AnalysePost, ClosePost, askVars,
              runVars, budgetVars
<1>3. ASSUME NEW p \in Posts, AskAuto(p) PROVE OneRequest'
  BY <1>3 DEF AskAuto, Try, Fault, runVars, budgetVars
<1>4. ASSUME NEW u \in Reruns, BeginRerun(u) \/ CompleteRerun(u)
      PROVE  OneRequest'
  BY <1>4 DEF BeginRerun, CompleteRerun, askVars, runVars, budgetVars
<1>5. ASSUME NEW a \in Askers, Correct(a) PROVE OneRequest'
  BY <1>5 DEF Correct, runVars, budgetVars
<1>6. ASSUME NEW a \in Askers, Reserve(a) PROVE OneRequest'
  <2>1. CASE key = "absent"
    BY <1>6, <2>1 DEF Reserve, runVars, budgetVars
  <2>2. CASE key = "set"
    BY <1>6, <2>2 DEF Reserve, runVars, budgetVars
  <2> QED  BY <2>1, <2>2
<1>7. ASSUME NEW a \in Askers, SendReserved(a) PROVE OneRequest'
  BY <1>7 DEF SendReserved, SendDelayed, Try, Fault, runVars, budgetVars
<1>8. ASSUME NEW a \in Askers, AskLost(a) PROVE OneRequest'
  BY <1>8 DEF AskLost, Lapse
<1>9. CASE KeyExpires
  BY <1>9 DEF KeyExpires, Try, Lapse, runVars, budgetVars
<1>10. ASSUME NEW r \in Runners, StartAuto(r) \/ StartByHand(r)
       PROVE  OneRequest'
  BY <1>10 DEF StartAuto, StartByHand, GoTo, askVars, budgetVars
<1>11. ASSUME NEW r \in Runners, StartDelayed(r) PROVE OneRequest'
  BY <1>11 DEF StartDelayed, GoTo, budgetVars
<1>12. ASSUME NEW r \in Runners, Release(r) PROVE OneRequest'
  BY <1>12 DEF Release, GoTo, Try, Lapse, budgetVars
<1>13. ASSUME NEW r \in Runners,
              CheckRuns(r) \/ CheckJobs(r) \/ ReadRows(r) \/ Record(r)
       PROVE  OneRequest'
  BY <1>13 DEF CheckRuns, CheckJobs, ReadRows, Record, HoldBack, PassOn, Free,
               GoTo, askVars, budgetVars
<1>14. ASSUME NEW r \in Runners, Clear(r) \/ AppendRows(r)
       PROVE  OneRequest'
  BY <1>14 DEF Clear, AppendRows, WriteFailed, GoTo, Fault, askVars,
               budgetVars
<1>15. ASSUME NEW r \in Runners, Break(r) PROVE OneRequest'
  BY <1>15 DEF Break, Lapse
<1> QED
  BY <1>1, <1>2, <1>3, <1>4, <1>5, <1>6, <1>7, <1>8, <1>9, <1>10, <1>11,
     <1>12, <1>13, <1>14, <1>15 DEF Next, Ask, Start, Run

(* However many corrections ask at once, one delayed distribution is under *)
(* way, as long as nothing fails.                                          *)
THEOREM OneDistributionAtATime == Spec => []RequestsAreMerged
<1>1. Init => OneRequest
  BY DEF Init, OneRequest, Backed, Sending, Releasing
<1>2. TypeOK /\ OneRequest => RequestsAreMerged
  BY DEF TypeOK, AskTypes, BudgetTypes, OneRequest, Spared, Sending,
         RequestsAreMerged
<1> QED  BY <1>1, <1>2, TypeCorrect, OneRequestStep, PTL DEF Spec

-----------------------------------------------------------------------------
(* The tab.  While runs follow each other one run at most is under way;    *)
(* what it has cleared stays empty until it appends, and the newest rows   *)
(* read are in the tab or on their way to it.                              *)

TabIsEmptied == \A r \in Runners : pc[r] = "appending" => sheet = <<>>
OnlyRecordersAreOk == \A r \in Runners : ok[r] => pc[r] = "recording"

NewestIsUnderWay ==
  /\ \A r \in Runners : pc[r] \in {"clearing", "appending"} => got[r] = seen
  /\ Spared /\ seen > 0 =>
       \/ sheet = <<seen>>
       \/ \E r \in Runners : pc[r] \in {"clearing", "appending"}

TabInv ==
  /\ overlapped \in BOOLEAN
  /\ ~ overlapped =>
       /\ ~ Overlap
       /\ TabIsEmptied /\ OnlyRecordersAreOk
       /\ WrittenIsWhatWasRead /\ NewestIsUnderWay

(* What is not a step of a run on the tab changes no part of this.         *)
LEMMA TabRests ==
  ASSUME TypeOK, TabIsEmptied, OnlyRecordersAreOk, WrittenIsWhatWasRead,
         NewestIsUnderWay,
         UNCHANGED <<sheet, seen>>,
         Spared' => Spared,
         \A r \in Runners :
           \/ pc'[r] = pc[r] /\ got'[r] = got[r] /\ ok'[r] = ok[r]
           \/ ~ ok'[r] /\ pc'[r] \notin {"clearing", "appending"}
                /\ (pc[r] \notin {"clearing", "appending"} \/ ~ Spared')
  PROVE  TabIsEmptied' /\ OnlyRecordersAreOk' /\ WrittenIsWhatWasRead'
           /\ NewestIsUnderWay'
<1> USE DEF TypeOK, RunTypes
<1>1. TabIsEmptied'
  BY DEF TabIsEmptied
<1>2. OnlyRecordersAreOk'
  BY DEF OnlyRecordersAreOk
<1>3. WrittenIsWhatWasRead'
  BY DEF WrittenIsWhatWasRead
<1>4. NewestIsUnderWay'
  BY DEF NewestIsUnderWay
<1> QED
  BY <1>1, <1>2, <1>3, <1>4

LEMMA TabStep ==
  ASSUME TypeOK, [Next]_vars, ~ Overlap, ~ Overlap', TabIsEmptied,
         OnlyRecordersAreOk, WrittenIsWhatWasRead, NewestIsUnderWay
  PROVE  TabIsEmptied' /\ OnlyRecordersAreOk' /\ WrittenIsWhatWasRead'
           /\ NewestIsUnderWay'
<1> USE DEF TypeOK, RunTypes, BudgetTypes, Spared
<1> DEFINE Goal ==
             TabIsEmptied' /\ OnlyRecordersAreOk' /\ WrittenIsWhatWasRead'
               /\ NewestIsUnderWay'
<1>1. CASE UNCHANGED vars
  BY <1>1, TabRests DEF vars, runVars, sheetVars, readVars, budgetVars
<1>2. ASSUME NEW p \in Posts, Extract(p) PROVE Goal
  BY <1>2, TabRests
  DEF Extract, OpenPost, SavePost, AnalysePost, ClosePost, runVars, sheetVars,
      readVars, budgetVars
<1>3. ASSUME NEW p \in Posts, AskAuto(p) PROVE Goal
  BY <1>3, TabRests
  DEF AskAuto, Try, Fault, runVars, sheetVars, readVars, budgetVars
<1>4. ASSUME NEW u \in Reruns, BeginRerun(u) \/ CompleteRerun(u) PROVE Goal
  BY <1>4, TabRests
  DEF BeginRerun, CompleteRerun, runVars, sheetVars, readVars, budgetVars
<1>5. ASSUME NEW a \in Askers, Correct(a) \/ Reserve(a) PROVE Goal
  BY <1>5, TabRests DEF Correct, Reserve, runVars, sheetVars, readVars,
    budgetVars
<1>6. ASSUME NEW a \in Askers, SendReserved(a) \/ AskLost(a) PROVE Goal
  BY <1>6, TabRests
  DEF SendReserved, SendDelayed, Try, Fault, AskLost, Lapse, runVars,
    sheetVars,
      readVars, budgetVars
<1>7. CASE KeyExpires
  BY <1>7, TabRests
  DEF KeyExpires, Try, Lapse, runVars, sheetVars, readVars, budgetVars
<1>8. ASSUME NEW r \in Runners, Start(r) \/ StartByHand(r) PROVE Goal
  BY <1>8, TabRests
  DEF Start, StartAuto, StartDelayed, StartByHand, GoTo, OnlyRecordersAreOk,
      sheetVars, readVars, budgetVars
<1>9. ASSUME NEW r \in Runners, Release(r) PROVE Goal
  BY <1>9, TabRests
  DEF Release, GoTo, Try, Lapse, OnlyRecordersAreOk, sheetVars, readVars,
      budgetVars
<1>10. ASSUME NEW r \in Runners, CheckRuns(r) \/ CheckJobs(r) PROVE Goal
  BY <1>10, TabRests
  DEF CheckRuns, CheckJobs, HoldBack, PassOn, Free, GoTo, OnlyRecordersAreOk,
      sheetVars, readVars, budgetVars
<1>11. ASSUME NEW r \in Runners, Break(r) PROVE Goal
  <2>1. ~ Spared'
    BY <1>11 DEF Break, Lapse
  <2>2. /\ UNCHANGED <<sheet, seen>>
        /\ pc' = [pc EXCEPT ![r] = "idle"] /\ ok' = [ok EXCEPT ![r] = FALSE]
        /\ got' = [got EXCEPT ![r] = 0]
    BY <1>11 DEF Break, Free, GoTo, sheetVars, readVars
  <2> QED
    BY <2>1, <2>2, TabRests
<1>12. ASSUME NEW r \in Runners, Record(r) PROVE Goal
  BY <1>12, TabRests DEF Record, Free, GoTo, readVars, budgetVars
<1>13. ASSUME NEW r \in Runners, ReadRows(r) PROVE Goal
  <2> USE <1>13 DEF ReadRows, GoTo, sheetVars, budgetVars
  <2>1. TabIsEmptied' /\ OnlyRecordersAreOk' /\ WrittenIsWhatWasRead'
    BY DEF TabIsEmptied, OnlyRecordersAreOk, WrittenIsWhatWasRead
  <2>2. \A q \in Runners \ {r} : pc[q] = "idle" /\ pc'[q] = "idle"
    BY DEF Overlap
  <2>3. NewestIsUnderWay'
    BY <2>2 DEF NewestIsUnderWay
  <2> QED
    BY <2>1, <2>3
<1>14. ASSUME NEW r \in Runners, Clear(r) PROVE Goal
  <2> USE <1>14 DEF Clear, GoTo, WriteFailed, Fault, readVars, budgetVars
  <2>1. \A q \in Runners \ {r} : pc[q] = "idle" /\ pc'[q] = "idle"
    BY DEF Overlap
  <2>2. TabIsEmptied' /\ OnlyRecordersAreOk' /\ WrittenIsWhatWasRead'
    BY <2>1 DEF TabIsEmptied, OnlyRecordersAreOk, WrittenIsWhatWasRead
  <2>3. NewestIsUnderWay'
    BY <2>1 DEF NewestIsUnderWay
  <2> QED
    BY <2>2, <2>3
<1>15. ASSUME NEW r \in Runners, AppendRows(r) PROVE Goal
  <2> USE <1>15 DEF AppendRows, GoTo, WriteFailed, Fault, readVars, budgetVars
  <2>1. \A q \in Runners \ {r} : pc[q] = "idle" /\ pc'[q] = "idle"
    BY DEF Overlap
  <2>2. sheet = <<>>
    BY DEF TabIsEmptied
  <2>3. Append(sheet, got[r]) = <<got[r]>>
    BY ONLY <2>2
  <2>4. TabIsEmptied'
    BY <2>1 DEF TabIsEmptied
  <2>7. OnlyRecordersAreOk'
    BY <2>1 DEF OnlyRecordersAreOk
  <2>5. WrittenIsWhatWasRead'
    BY <2>1, <2>2, <2>3 DEF WrittenIsWhatWasRead, OnlyRecordersAreOk
  <2>6. NewestIsUnderWay'
    BY <2>1, <2>2, <2>3 DEF NewestIsUnderWay
  <2> QED
    BY <2>4, <2>5, <2>6, <2>7
<1> QED
  BY <1>1, <1>2, <1>3, <1>4, <1>5, <1>6, <1>7, <1>8, <1>9, <1>10, <1>11,
     <1>12, <1>13, <1>14, <1>15 DEF Next, Ask, Run

(* While runs follow each other, what is recorded as written is in the     *)
(* tab, and the newest rows that a run has read are there in the end.      *)
THEOREM TabStaysTrue == Runs => []TabIsTrue
<1>1. InitOfRuns => TypeOK /\ TabInv
  <2> SUFFICES ASSUME InitOfRuns PROVE TypeOK /\ TabInv
    OBVIOUS
  <2> USE DEF InitOfRuns, Init
  <2>1. TypeOK
    BY TypeInit
  <2>2. ~ Overlap /\ TabIsEmptied /\ OnlyRecordersAreOk /\ WrittenIsWhatWasRead
    BY DEF Overlap, TabIsEmptied, OnlyRecordersAreOk, WrittenIsWhatWasRead
  <2>3. NewestIsUnderWay
    BY DEF NewestIsUnderWay
  <2> QED
    BY <2>1, <2>2, <2>3 DEF TabInv
<1>2. TypeOK /\ TabInv /\ [NextOfRuns]_runsVars => TypeOK' /\ TabInv'
  <2> SUFFICES ASSUME TypeOK, TabInv,
                      [NextOfRuns]_runsVars PROVE TypeOK' /\ TabInv'
    OBVIOUS
  <2>1. [Next]_vars
    BY DEF NextOfRuns, runsVars
  <2>2. TypeOK'
    BY <2>1, TypeStep
  <2>3. CASE UNCHANGED runsVars
    <3>1. UNCHANGED vars /\ UNCHANGED overlapped
      BY <2>3 DEF runsVars
    <3>2. Overlap' <=> Overlap
      BY <3>1 DEF Overlap, vars, runVars
    <3>3. CASE overlapped
      BY <2>2, <3>1, <3>3 DEF TabInv
    <3>4. CASE ~ overlapped
      BY <2>1, <2>2, <3>1, <3>2, <3>4, TabStep DEF TabInv
    <3> QED
      BY <3>3, <3>4
  <2>4. CASE NextOfRuns
    <3>1. overlapped' = (overlapped \/ Overlap')
      BY <2>4 DEF NextOfRuns
    <3>2. CASE overlapped \/ Overlap'
      <4>1. overlapped' = TRUE
        BY <3>1, <3>2
      <4> QED
        BY <4>1, <2>2 DEF TabInv
    <3>3. CASE ~ overlapped /\ ~ Overlap'
      <4>1. overlapped' = FALSE
        BY <3>1, <3>3
      <4> QED
        BY <4>1, <2>1, <2>2, <3>3, TabStep DEF TabInv
    <3> QED
      BY <3>2, <3>3
  <2> QED
    BY <2>3, <2>4
<1>3. TypeOK /\ TabInv => TabIsTrue
  <2> SUFFICES ASSUME TypeOK, WrittenIsWhatWasRead, NewestIsUnderWay
               PROVE  TabShowsNewestRead
    BY DEF TabInv, TabIsTrue
  <2> SUFFICES ASSUME Quiet, seen > 0
               PROVE  \E i \in 1..Len(sheet) : sheet[i] = seen
    BY DEF TabShowsNewestRead
  <2>1. sheet = <<seen>>
    BY DEF Quiet, NewestIsUnderWay
  <2> QED
    BY <2>1
<1> QED
  BY <1>1, <1>2, <1>3, PTL DEF Runs

-----------------------------------------------------------------------------
(* The calendar that follows Google                                        *)

LEMMA CA == Calendar!CalendarAssumption
BY UpkeepAssumption

-----------------------------------------------------------------------------
(* Types                                                                   *)

EventRow == [st : {"none", "confirmed", "cancelled"}, title : Calendar!Titles,
  mark : Nat]
CalendarRow == [there : BOOLEAN, gid : Gids \cup {None},
  title : Calendar!Titles,
                status : {"none", "pending", "synced", "failed"},
                type : {"none", "shared", "personal"}]
MakingRow == [at : {"new", "sending", "recording", "failing", "done"},
              gid : Gids \cup {None}, title : Calendar!Titles]
RequestRow == [at : {"idle", "sending", "recording", "deleting"},
               x : Calendar!Rows \cup {None}, gid : Gids \cup {None},
               title : Calendar!Titles, ok : BOOLEAN]
ReadRow == [st : {"none", "confirmed", "cancelled"}, title : Calendar!Titles]
Readings == UNION {[S -> ReadRow] : S \in SUBSET Gids}
WorkerRow == [at : {"idle", "ready", "locked", "applying", "writing"},
              full : BOOLEAN, token : Nat, past : SUBSET Calendar!Titles,
              got : Readings,
              todo : SUBSET Gids, item : Gids \cup {None}, staged :
                SUBSET Gids]
RegRow == [at : {"idle", "opening", "recording", "replacing", "stopping",
  "forgetting"},
           channel : 0..MaxRegisters, old : 0..MaxRegisters]

(* The last change has a number.                                           *)
HasLastMark ==
  \E m \in {google[g].mark : g \in Gids} \cup {0} :
    \A g \in Gids : google[g].mark <= m

GoogleTyped == google \in [Gids -> EventRow] /\ HasLastMark
RowsTyped == row \in [Calendar!Rows -> CalendarRow]
RequestsTyped ==
  /\ making \in [Own -> MakingRow] /\ req \in [Reqs -> RequestRow]
  /\ \A a \in Own : making[a].at = "recording" => making[a].gid \in Gids
  /\ \A r \in Reqs : req[r].at # "idle" => req[r].x \in Calendar!Rows
WorkersTyped ==
  /\ worker \in [Workers -> WorkerRow]
  /\ holder \in Workers \cup {None}
ChannelsTyped ==
  /\ sub \in [channel : 0..MaxRegisters, token : Nat]
  /\ live \subseteq 1..MaxRegisters
  /\ opened \in 0..MaxRegisters
  /\ reg \in [Calendar!Registrars -> RegRow]
BoundsTyped ==
  /\ mode \in Calendar!Modes \cup {"off"}
  /\ edition \in Calendar!Titles /\ modes \in Nat /\ failures \in Nat
  /\ old \subseteq Calendar!Titles /\ apart \subseteq Gids

Typed ==
  /\ GoogleTyped /\ RowsTyped /\ RequestsTyped /\ WorkersTyped
  /\ ChannelsTyped /\ BoundsTyped

LEMMA EmptyReading == << >> \in Readings /\ DOMAIN << >> = {}
<1>1. << >> \in [{} -> ReadRow]
  OBVIOUS
<1>2. {} \in SUBSET Gids
  OBVIOUS
<1>3. << >> \in Readings
  BY <1>1, <1>2 DEF Readings
<1> QED
  BY <1>1, <1>3

LEMMA RestingIsTyped ==
  /\ Calendar!Resting \in WorkerRow /\ Calendar!Resting.at = "idle"
  /\ Calendar!Resting.todo = {} /\ Calendar!Resting.staged = {}
  /\ ~ Calendar!Resting.full
BY EmptyReading DEF Calendar!Resting, WorkerRow

LEMMA LastMarkIs ==
  ASSUME GoogleTyped
  PROVE  /\ Calendar!LastMark \in Nat
         /\ \A g \in Gids : google[g].mark <= Calendar!LastMark
<1>1. Calendar!LastMark \in {google[g].mark : g \in Gids} \cup {0} /\
        \A g \in Gids : google[g].mark <= Calendar!LastMark
  BY DEF Calendar!LastMark, GoogleTyped, HasLastMark
<1> QED
  BY <1>1 DEF GoogleTyped, EventRow

LEMMA ChangedIs ==
  ASSUME GoogleTyped, NEW g \in Gids, NEW st \in {"confirmed", "cancelled"},
         NEW title \in Calendar!Titles,
         Calendar!Changed(g, st, title)
  PROVE  /\ GoogleTyped'
         /\ google'[g].st = st /\ google'[g].mark = Calendar!LastMark + 1
         /\ \A h \in Gids : h # g => google'[h] = google[h]
<1>1. /\ Calendar!LastMark \in Nat
      /\ \A h \in Gids : google[h].mark <= Calendar!LastMark
  BY LastMarkIs
<1> DEFINE e == [st |-> st, title |-> title, mark |-> Calendar!LastMark + 1]
<1>2. e \in EventRow /\ e.st = st /\ e.mark = Calendar!LastMark + 1
  BY <1>1 DEF EventRow
<1>3. google' = [google EXCEPT ![g] = e]
  BY DEF Calendar!Changed
<1> HIDE DEF e
<1>4. /\ google' \in [Gids -> EventRow] /\ google'[g] = e
      /\ \A h \in Gids : h # g => google'[h] = google[h]
  BY <1>2, <1>3 DEF GoogleTyped
<1>5. /\ google'[g].mark = Calendar!LastMark + 1
      /\ \A h \in Gids : google'[h].mark \in Nat /\
           google'[h].mark <= Calendar!LastMark + 1
  <2>1. \A h \in Gids : google[h].mark \in Nat
    BY DEF GoogleTyped, EventRow
  <2> QED
    BY <1>1, <1>2, <1>4, <2>1
<1>6. HasLastMark'
  BY <1>5 DEF HasLastMark
<1> QED
  BY <1>2, <1>4, <1>6 DEF GoogleTyped

-----------------------------------------------------------------------------
(* What the steps do to Google and to the rows                             *)

(* An event of Google is never restored, and none goes back to nothing;    *)
(* what changes gets the next number.                                      *)
GoogleGoesOn ==
  \A g \in Gids :
    /\ google'[g].st = "none" => google'[g] = google[g]
    /\ google[g].st = "cancelled" => google'[g].st = "cancelled"
    /\ google'[g] = google[g] \/ google'[g].mark = Calendar!LastMark + 1

LEMMA ChangedGoesOn ==
  ASSUME GoogleTyped, NEW g \in Gids, NEW st \in {"confirmed", "cancelled"},
         NEW title \in Calendar!Titles,
         Calendar!Changed(g, st, title), google[g].st # "cancelled"
  PROVE  GoogleTyped' /\ GoogleGoesOn
BY ChangedIs DEF GoogleGoesOn

(* Google moves by its own users, or by a request of the app.              *)
LEMMA GoogleMoves ==
  ASSUME Typed, Calendar!Next
  PROVE  GoogleTyped' /\ GoogleGoesOn
<1>1. CASE UNCHANGED google
  BY <1>1 DEF Typed, GoogleTyped, HasLastMark, GoogleGoesOn
<1>2. ASSUME NEW g \in Gids,
             Calendar!GoogleAddsOrEdits(g) PROVE GoogleTyped' /\ GoogleGoesOn
  <2>1. edition' \in Calendar!Titles
    BY <1>2, CA DEF Calendar!GoogleAddsOrEdits, Calendar!Edited, Typed,
      BoundsTyped, Calendar!Titles, Calendar!CalendarAssumption
  <2> QED
    BY <1>2, <2>1, ChangedGoesOn DEF Calendar!GoogleAddsOrEdits, Typed
<1>3. ASSUME NEW g \in Gids,
             Calendar!GoogleDeletes(g) PROVE GoogleTyped' /\ GoogleGoesOn
  <2>1. google[g].title \in Calendar!Titles
    BY DEF Typed, GoogleTyped, EventRow
  <2> QED
    BY <1>3, <2>1, ChangedGoesOn DEF Calendar!GoogleDeletes, Typed
<1>4. ASSUME NEW a \in Own,
             Calendar!CreateSends(a) PROVE GoogleTyped' /\ GoogleGoesOn
  <2>1. making[a].title \in Calendar!Titles
    BY DEF Typed, RequestsTyped, MakingRow
  <2>2. UNCHANGED google \/ \E g \in Gids :
          /\ google[g].st = "none"
          /\ Calendar!Changed(g, "confirmed", making[a].title)
    BY <1>4 DEF Calendar!CreateSends, Calendar!Unchanged
  <2> QED
    BY <1>1, <2>1, <2>2, ChangedGoesOn DEF Typed
<1>5. ASSUME NEW r \in Reqs,
             Calendar!EditSends(r) PROVE GoogleTyped' /\ GoogleGoesOn
  <2>1. req[r].title \in Calendar!Titles /\ req[r].x \in Calendar!Rows
    BY <1>5 DEF Typed, RequestsTyped, RequestRow, Calendar!EditSends
  <2>2. row[req[r].x].gid \in Gids \cup {None}
    BY <2>1 DEF Typed, RowsTyped, CalendarRow
  <2>3. \/ UNCHANGED google
        \/ \E g \in Gids : google[g].st = "confirmed" /\
             Calendar!Changed(g, "confirmed", req[r].title)
    BY <1>5, <2>2 DEF Calendar!EditSends, Calendar!Unchanged
  <2> QED
    BY <1>1, <2>1, <2>3, ChangedGoesOn DEF Typed
<1>6. ASSUME NEW r \in Reqs,
             Calendar!DeleteSends(r) PROVE GoogleTyped' /\ GoogleGoesOn
  <2>1. req[r].gid \in Gids \cup {None}
    BY DEF Typed, RequestsTyped, RequestRow
  <2>2. \/ UNCHANGED google
        \/ \E g \in Gids : google[g].st = "confirmed" /\
             Calendar!Changed(g, "cancelled", google[g].title)
    BY <1>6, <2>1 DEF Calendar!DeleteSends, Calendar!Unchanged
  <2>3. \A g \in Gids : google[g].title \in Calendar!Titles
    BY DEF Typed, GoogleTyped, EventRow
  <2> QED
    BY <1>1, <2>2, <2>3, ChangedGoesOn DEF Typed
<1>7. CASE Calendar!UserStep
  BY <1>1, <1>7 DEF Calendar!UserStep, Calendar!Create, Calendar!Edit,
    Calendar!Delete, Calendar!Show, Calendar!ChooseMode, Calendar!Reconnect
<1>8. ASSUME NEW p \in Calendar!Registrars,
             Calendar!ChannelStep(p) \/
               Calendar!WorkerDies(p) PROVE UNCHANGED google
  BY <1>8 DEF Calendar!ChannelStep, Calendar!Open, Calendar!Record,
    Calendar!CloseOld, Calendar!CloseRecorded, Calendar!Forget,
    Calendar!WorkerDies
<1>9. ASSUME NEW w \in Workers, Calendar!Poll(w) \/ Calendar!Renew(w) \/
             Calendar!WorkerStep(w) PROVE UNCHANGED google
  BY <1>9 DEF Calendar!Poll, Calendar!Renew, Calendar!WorkerStep,
    Calendar!TryLock, Calendar!Fetch, Calendar!Check, Calendar!Write,
    Calendar!Commit
<1>10. ASSUME NEW a \in Own,
              Calendar!CreateStep(a) PROVE GoogleTyped' /\ GoogleGoesOn
  BY <1>1, <1>4, <1>10 DEF Calendar!CreateStep, Calendar!CreateRecords,
    Calendar!CreateFails
<1>11. ASSUME NEW r \in Reqs,
              Calendar!RequestStep(r) PROVE GoogleTyped' /\ GoogleGoesOn
  BY <1>1, <1>5, <1>6, <1>11 DEF Calendar!RequestStep, Calendar!EditRecords
<1>12. CASE Calendar!RequestDies
  BY <1>1, <1>12 DEF Calendar!RequestDies
<1>13. ASSUME NEW n \in 1..MaxEdition, Calendar!Ages(n) PROVE UNCHANGED google
  BY <1>13 DEF Calendar!Ages
<1> QED
  BY <1>1, <1>2, <1>3, <1>7, <1>8, <1>9, <1>10, <1>11, <1>12, <1>13
    DEF Calendar!Next

-----------------------------------------------------------------------------
(* The rows and the requests keep their types                              *)

LEMMA NoRowIsTyped == Calendar!NoRow \in CalendarRow /\ ~ Calendar!NoRow.there
BY CA DEF Calendar!NoRow, CalendarRow, Calendar!Titles,
  Calendar!CalendarAssumption

(* What the steps but Commit do to the rows: a row of Google's event is    *)
(* not made, goes only when a request deletes it, and is shown to others   *)
(* only when a request says so.                                            *)
RowsGoOn ==
  \A g \in Gids :
    /\ row'[g].there => row[g].there
    /\ row[g].there => row'[g].there \/ Calendar!DeletedInApp(g)
    /\ row[g].there /\ row'[g].there =>
         row'[g].type = row[g].type \/ Calendar!ShownInApp(g)

LEMMA CreateRows ==
  ASSUME Typed, NEW a \in Own,
         Calendar!Create(a) \/ Calendar!CreateRecords(a) \/
           Calendar!CreateFails(a)
  PROVE  RowsTyped' /\ RowsGoOn
<1>1. /\ row \in [Calendar!Rows -> CalendarRow] /\ a \in Calendar!Rows
      /\ a \notin Gids
      /\ making[a] \in MakingRow /\ row[a] \in CalendarRow
  BY CA DEF Typed, RowsTyped, RequestsTyped, Calendar!Rows,
    Calendar!CalendarAssumption
<1>2. \A x \in Calendar!Rows : x # a => row'[x] = row[x]
  BY <1>1 DEF Calendar!Create, Calendar!CreateRecords, Calendar!CreateFails
<1>3. RowsGoOn
  BY <1>1, <1>2 DEF RowsGoOn, Calendar!Rows
<1>4. CASE Calendar!Create(a)
  <2>1. edition' \in Calendar!Titles
    BY <1>4, CA DEF Calendar!Create, Calendar!Edited, Typed, BoundsTyped,
      Calendar!Titles, Calendar!CalendarAssumption
  <2>2. [there |-> TRUE, gid |-> None, title |-> edition',
          status |-> "pending", type |-> "shared"] \in CalendarRow
    BY <2>1 DEF CalendarRow
  <2> QED
    BY <1>1, <1>3, <1>4, <2>2 DEF Calendar!Create, RowsTyped
<1>5. CASE Calendar!CreateRecords(a)
  <2>1. making[a].gid \in Gids
    BY <1>5 DEF Calendar!CreateRecords, Typed, RequestsTyped
  <2>2. row' \in [Calendar!Rows -> CalendarRow]
    BY <1>1, <1>5, <2>1 DEF Calendar!CreateRecords, CalendarRow
  <2> QED
    BY <1>3, <2>2 DEF RowsTyped
<1>6. CASE Calendar!CreateFails(a)
  <2>1. row' \in [Calendar!Rows -> CalendarRow]
    BY <1>1, <1>6 DEF Calendar!CreateFails, CalendarRow
  <2> QED
    BY <1>3, <2>1 DEF RowsTyped
<1> QED
  BY <1>4, <1>5, <1>6

LEMMA RequestRows ==
  ASSUME Typed, NEW r \in Reqs, NEW x \in Calendar!Rows,
         NEW t \in {"shared", "personal"},
         Calendar!Edit(r, x) \/ Calendar!Delete(r, x) \/ Calendar!Show(r, x, t)
  PROVE  RowsTyped' /\ RowsGoOn
<1>1. /\ row \in [Calendar!Rows -> CalendarRow] /\ row[x] \in CalendarRow
      /\ req \in [Reqs -> RequestRow]
  BY DEF Typed, RowsTyped, RequestsTyped
<1>2. \A y \in Calendar!Rows : y # x => row'[y] = row[y]
  BY <1>1 DEF Calendar!Edit, Calendar!Delete, Calendar!Show
<1>3. CASE Calendar!Edit(r, x)
  <2>1. edition' \in Calendar!Titles
    BY <1>3, CA DEF Calendar!Edit, Calendar!Edited, Typed, BoundsTyped,
      Calendar!Titles, Calendar!CalendarAssumption
  <2>2. /\ row' \in [Calendar!Rows -> CalendarRow]
        /\ row'[x].there = row[x].there /\ row'[x].type = row[x].type
    BY <1>1, <1>3, <2>1 DEF Calendar!Edit, CalendarRow
  <2> QED
    BY <1>2, <2>2 DEF RowsTyped, RowsGoOn, Calendar!Rows
<1>4. CASE Calendar!Delete(r, x)
  <2>1. row' \in [Calendar!Rows -> CalendarRow] /\ ~ row'[x].there
    BY <1>1, <1>4, NoRowIsTyped DEF Calendar!Delete
  <2>2. req[r].at = "idle" /\ req'[r].at = "deleting" /\ req'[r].x = x
    BY <1>1, <1>4 DEF Calendar!Delete, Calendar!StartsReq
  <2> QED
    BY <1>2, <2>1, <2>2 DEF RowsTyped, RowsGoOn, Calendar!Rows,
      Calendar!DeletedInApp
<1>5. CASE Calendar!Show(r, x, t)
  <2>1. row' \in [Calendar!Rows -> CalendarRow] /\ row'[x].there = row[x].there
    BY <1>1, <1>5 DEF Calendar!Show, CalendarRow
  <2>2. req[r].at = "idle" /\ req'[r].at = "sending" /\ req'[r].x = x
    BY <1>1, <1>5 DEF Calendar!Show, Calendar!StartsReq
  <2> QED
    BY <1>2, <2>1, <2>2 DEF RowsTyped, RowsGoOn, Calendar!Rows,
      Calendar!ShownInApp
<1> QED
  BY <1>3, <1>4, <1>5

LEMMA EditRows ==
  ASSUME Typed, NEW r \in Reqs, Calendar!EditRecords(r)
  PROVE  RowsTyped' /\ RowsGoOn
<1>1. /\ row \in [Calendar!Rows -> CalendarRow] /\ req[r].x \in Calendar!Rows
  BY DEF Typed, RowsTyped, RequestsTyped, Calendar!EditRecords
<1>2. PICK x \in Calendar!Rows : x = req[r].x
  BY <1>1
<1>3. \A y \in Calendar!Rows : y # x => row'[y] = row[y]
  BY <1>1, <1>2 DEF Calendar!EditRecords
<1>4. /\ row' \in [Calendar!Rows -> CalendarRow]
      /\ row'[x].there = row[x].there /\ row'[x].type = row[x].type
  <2>1. PICK status \in {"synced", "failed"} :
          row' = row \/ row' = [row EXCEPT ![x].status = status]
    BY <1>2 DEF Calendar!EditRecords
  <2> QED
    BY <1>1, <2>1 DEF CalendarRow
<1> QED
  BY <1>3, <1>4 DEF RowsTyped, RowsGoOn, Calendar!Rows

LEMMA RowsStay ==
  ASSUME Typed, row' = row
  PROVE  RowsTyped' /\ RowsGoOn
BY DEF Typed, RowsTyped, RowsGoOn

LEMMA RowsMove ==
  ASSUME Typed, Calendar!Next
  PROVE  (RowsTyped' /\ RowsGoOn) \/ \E w \in Workers : Calendar!Commit(w)
<1>1. ASSUME row' = row PROVE RowsTyped' /\ RowsGoOn
  BY <1>1, RowsStay
<1>2. CASE Calendar!UserStep
  <2>1. ASSUME NEW r \in Reqs, NEW x \in Calendar!Rows,
               Calendar!Edit(r, x) \/ Calendar!Delete(r, x)
        PROVE  RowsTyped' /\ RowsGoOn
    <3>1. "shared" \in {"shared", "personal"}
      OBVIOUS
    <3> QED
      BY <2>1, <3>1, RequestRows
  <2>2. ASSUME NEW r \in Reqs, NEW x \in Calendar!Rows,
               NEW t \in {"shared", "personal"}, Calendar!Show(r, x, t)
        PROVE  RowsTyped' /\ RowsGoOn
    BY <2>2, RequestRows
  <2>3. ASSUME NEW p \in Admins, NEW m \in Calendar!Modes,
               Calendar!ChooseMode(p, m) PROVE UNCHANGED row
    BY <2>3 DEF Calendar!ChooseMode, Calendar!appVars
  <2>4. CASE Calendar!Reconnect
    BY <1>1, <2>4 DEF Calendar!Reconnect, Calendar!appVars
  <2> QED
    BY <1>1, <1>2, <2>1, <2>2, <2>3, <2>4, CreateRows DEF Calendar!UserStep
<1>3. ASSUME NEW a \in Own, Calendar!CreateStep(a) PROVE RowsTyped' /\ RowsGoOn
  <2>1. CASE Calendar!CreateSends(a)
    <3>1. row' = row
      BY <2>1, Zenon DEF Calendar!CreateSends
    <3> QED
      BY <1>1, <3>1
  <2> QED
    BY <1>3, <2>1, CreateRows DEF Calendar!CreateStep
<1>4. ASSUME NEW r \in Reqs,
             Calendar!RequestStep(r) PROVE RowsTyped' /\ RowsGoOn
  <2>1. CASE Calendar!EditSends(r)
    <3>1. row' = row
      BY <2>1, Zenon DEF Calendar!EditSends
    <3> QED
      BY <1>1, <3>1
  <2>2. CASE Calendar!DeleteSends(r)
    <3>1. row' = row
      BY <2>2, Zenon DEF Calendar!DeleteSends
    <3> QED
      BY <1>1, <3>1
  <2> QED
    BY <1>4, <2>1, <2>2, EditRows DEF Calendar!RequestStep
<1>5. ASSUME NEW p \in Calendar!Registrars,
             Calendar!ChannelStep(p) \/
               Calendar!WorkerDies(p) PROVE UNCHANGED row
  BY <1>5 DEF Calendar!ChannelStep, Calendar!Open, Calendar!Record,
    Calendar!CloseOld, Calendar!CloseRecorded, Calendar!Forget,
    Calendar!WorkerDies, Calendar!appVars
<1>6. ASSUME NEW w \in Workers, Calendar!Poll(w) \/ Calendar!Renew(w) \/
             Calendar!WorkerStep(w) PROVE UNCHANGED row \/ Calendar!Commit(w)
  BY <1>6 DEF Calendar!Poll, Calendar!Renew, Calendar!WorkerStep,
    Calendar!TryLock, Calendar!Fetch, Calendar!Check, Calendar!Write,
    Calendar!appVars
<1>7. ASSUME NEW g \in Gids, Calendar!GoogleAddsOrEdits(g) \/
             Calendar!GoogleDeletes(g) PROVE UNCHANGED row
  BY <1>7 DEF Calendar!GoogleAddsOrEdits, Calendar!GoogleDeletes,
    Calendar!appVars
<1>8. CASE Calendar!RequestDies
  BY <1>1, <1>8 DEF Calendar!RequestDies
<1>9. ASSUME NEW n \in 1..MaxEdition, Calendar!Ages(n) PROVE UNCHANGED row
  BY <1>9 DEF Calendar!Ages, Calendar!appVars
<1> QED
  BY <1>1, <1>2, <1>3, <1>4, <1>5, <1>6, <1>7, <1>8, <1>9 DEF Calendar!Next

-----------------------------------------------------------------------------
(* The requests and the bounds keep their types                            *)

LEMMA NoReqIsTyped ==
  /\ Calendar!NoReq \in RequestRow
  /\ Calendar!NoReq.at = "idle"
BY CA DEF Calendar!NoReq, RequestRow, Calendar!Titles,
  Calendar!CalendarAssumption

LEMMA StartsReqTypes ==
  ASSUME Typed, NEW r \in Reqs, NEW x \in Calendar!Rows,
         NEW at \in {"sending", "deleting"},
         NEW title \in Calendar!Titles,
         Calendar!StartsReq(r, x, at, title), making' = making
  PROVE  RequestsTyped'
<1>1. row[x].gid \in Gids \cup {None}
  BY DEF Typed, RowsTyped, CalendarRow
<1> DEFINE q == [at |-> at, x |-> x, gid |-> row[x].gid, title |-> title,
      ok |-> FALSE]
<1>2. q \in RequestRow /\ q.x \in Calendar!Rows
  BY <1>1 DEF RequestRow
<1>3. req' = [req EXCEPT ![r] = q]
  BY DEF Calendar!StartsReq
<1> HIDE DEF q
<1> QED
  BY <1>2, <1>3 DEF Typed, RequestsTyped

LEMMA MakingGoesOn ==
  ASSUME Typed, NEW a \in Own, Calendar!CreateStep(a) \/ Calendar!Create(a)
  PROVE  RequestsTyped'
<1>1. /\ making \in [Own -> MakingRow] /\ making[a] \in MakingRow
      /\ req' = req
  BY DEF Typed, RequestsTyped, Calendar!CreateStep, Calendar!CreateSends,
    Calendar!CreateRecords, Calendar!CreateFails, Calendar!Create
<1>2. \/ \E at \in {"done", "failing"} : making' = [making EXCEPT ![a].at = at]
      \/ \E g \in Gids, at \in {"recording", "failing"} :
            making' = [making EXCEPT ![a].at = at, ![a].gid = g]
      \/ edition' \in Calendar!Titles /\
           making' = [making EXCEPT ![a].at = "sending", ![a].title = edition']
  <2>1. CASE Calendar!Create(a)
    BY <2>1, CA DEF Calendar!Create, Calendar!Edited, Typed, BoundsTyped,
      Calendar!Titles, Calendar!CalendarAssumption
  <2>2. CASE Calendar!CreateSends(a)
    BY <2>2 DEF Calendar!CreateSends
  <2>3. CASE Calendar!CreateRecords(a) \/ Calendar!CreateFails(a)
    BY <2>3 DEF Calendar!CreateRecords, Calendar!CreateFails
  <2> QED
    BY <2>1, <2>2, <2>3 DEF Calendar!CreateStep
<1>3. /\ making' \in [Own -> MakingRow]
      /\ making'[a].at = "recording" => making'[a].gid \in Gids
      /\ \A b \in Own : b # a => making'[b] = making[b]
  <2>1. CASE \E at \in {"done", "failing"} :
               making' = [making EXCEPT ![a].at = at]
    BY <1>1, <2>1 DEF MakingRow
  <2>2. ASSUME NEW g \in Gids, NEW at \in {"recording", "failing"},
               making' = [making EXCEPT ![a].at = at, ![a].gid = g]
        PROVE  /\ making' \in [Own -> MakingRow] /\ making'[a].gid = g
               /\ \A b \in Own : b # a => making'[b] = making[b]
    <3> DEFINE m == [making[a] EXCEPT !.at = at, !.gid = g]
    <3>1. m \in MakingRow /\ m.gid = g
      BY <1>1 DEF MakingRow
    <3>2. making' = [making EXCEPT ![a] = m]
      BY <2>2
    <3> HIDE DEF m
    <3> QED
      BY <1>1, <3>1, <3>2
  <2>3. CASE edition' \in Calendar!Titles /\
               making' = [making EXCEPT ![a].at = "sending",
                 ![a].title = edition']
    BY <1>1, <2>3 DEF MakingRow
  <2> QED
    BY <1>2, <2>1, <2>2, <2>3
<1> QED
  BY <1>1, <1>3 DEF Typed, RequestsTyped

LEMMA RequestGoesOn ==
  ASSUME Typed, NEW r \in Reqs, Calendar!RequestStep(r)
  PROVE  RequestsTyped'
<1>1. /\ req \in [Reqs -> RequestRow] /\ req[r] \in RequestRow
      /\ making' = making /\ req[r].at # "idle"
  BY DEF Typed, RequestsTyped, Calendar!RequestStep, Calendar!EditSends,
    Calendar!EditRecords, Calendar!DeleteSends
<1>2. \/ req' = [req EXCEPT ![r] = Calendar!NoReq]
      \/ \E took \in BOOLEAN :
           req' = [req EXCEPT ![r].at = "recording", ![r].ok = took]
  <2>1. CASE Calendar!EditSends(r)
    BY <2>1 DEF Calendar!EditSends
  <2>2. CASE Calendar!EditRecords(r) \/ Calendar!DeleteSends(r)
    BY <2>2 DEF Calendar!EditRecords, Calendar!DeleteSends
  <2> QED
    BY <2>1, <2>2 DEF Calendar!RequestStep
<1>3. CASE req' = [req EXCEPT ![r] = Calendar!NoReq]
  BY <1>1, <1>3, NoReqIsTyped DEF Typed, RequestsTyped
<1>4. ASSUME NEW took \in BOOLEAN, req' = [req EXCEPT ![r].at = "recording",
             ![r].ok = took]
      PROVE  RequestsTyped'
  <2>1. req' \in [Reqs -> RequestRow] /\ req'[r].x = req[r].x
    BY <1>1, <1>4 DEF RequestRow
  <2> QED
    BY <1>1, <1>4, <2>1 DEF Typed, RequestsTyped
<1> QED
  BY <1>2, <1>3, <1>4

LEMMA RequestDiesTypes ==
  ASSUME Typed, Calendar!RequestDies
  PROVE  RequestsTyped'
<1>1. ASSUME NEW r \in Reqs, req' = [req EXCEPT ![r] = Calendar!NoReq],
             making' = making
      PROVE  RequestsTyped'
  BY <1>1, NoReqIsTyped DEF Typed, RequestsTyped
<1>2. ASSUME NEW a \in Own, making' = [making EXCEPT ![a].at = "done"],
             req' = req
      PROVE  RequestsTyped'
  <2>1. making[a] \in MakingRow
    BY DEF Typed, RequestsTyped
  <2> QED
    BY <1>2, <2>1 DEF Typed, RequestsTyped, MakingRow
<1> QED
  BY <1>1, <1>2 DEF Calendar!RequestDies

LEMMA RequestsMove ==
  ASSUME Typed, Calendar!Next
  PROVE  RequestsTyped'
<1>1. ASSUME making' = making, req' = req PROVE RequestsTyped'
  BY <1>1 DEF Typed, RequestsTyped
<1>2. CASE Calendar!UserStep
  <2>1. ASSUME NEW r \in Reqs, NEW x \in Calendar!Rows, Calendar!Edit(r, x)
        PROVE  RequestsTyped'
    <3>1. edition' \in Calendar!Titles
      BY <2>1, CA DEF Calendar!Edit, Calendar!Edited, Typed, BoundsTyped,
        Calendar!Titles, Calendar!CalendarAssumption
    <3>2. Calendar!StartsReq(r, x, "sending", edition') /\ making' = making
      BY <2>1 DEF Calendar!Edit
    <3> QED
      BY <3>1, <3>2, StartsReqTypes
  <2>2. ASSUME NEW r \in Reqs, NEW x \in Calendar!Rows, NEW t \in {"shared",
               "personal"}, Calendar!Delete(r, x) \/ Calendar!Show(r, x, t)
        PROVE  RequestsTyped'
    <3>1. 0 \in Calendar!Titles
      BY CA DEF Calendar!Titles, Calendar!CalendarAssumption
    <3>2. (Calendar!StartsReq(r, x, "deleting", 0) \/ Calendar!StartsReq(r, x,
            "sending", 0)) /\ making' = making
      BY <2>2 DEF Calendar!Delete, Calendar!Show
    <3> QED
      BY <3>1, <3>2, StartsReqTypes
  <2>3. ASSUME NEW r \in Reqs, NEW x \in Calendar!Rows,
               Calendar!Delete(r, x) PROVE RequestsTyped'
    <3>1. "shared" \in {"shared", "personal"}
      OBVIOUS
    <3> QED
      BY <2>2, <2>3, <3>1
  <2>4. ASSUME NEW p \in Admins, NEW m \in Calendar!Modes,
               Calendar!ChooseMode(p, m) PROVE RequestsTyped'
    <3>1. making' = making /\ req' = req
      BY <2>4 DEF Calendar!ChooseMode, Calendar!appVars
    <3> QED
      BY <1>1, <3>1
  <2>5. CASE Calendar!Reconnect
    BY <1>1, <2>5 DEF Calendar!Reconnect, Calendar!appVars
  <2>6. ASSUME NEW a \in Own, Calendar!Create(a) PROVE RequestsTyped'
    BY <2>6, MakingGoesOn
  <2> QED
    BY <1>2, <2>1, <2>2, <2>3, <2>4, <2>5, <2>6 DEF Calendar!UserStep
<1>5. ASSUME NEW p \in Calendar!Registrars, Calendar!ChannelStep(p) \/
             Calendar!WorkerDies(p) PROVE making' = making /\ req' = req
  BY <1>5 DEF Calendar!ChannelStep, Calendar!Open, Calendar!Record,
    Calendar!CloseOld, Calendar!CloseRecorded, Calendar!Forget,
    Calendar!WorkerDies, Calendar!appVars
<1>6. ASSUME NEW w \in Workers, Calendar!Poll(w) \/ Calendar!Renew(w) \/
             Calendar!WorkerStep(w) PROVE making' = making /\ req' = req
  BY <1>6 DEF Calendar!Poll, Calendar!Renew, Calendar!WorkerStep,
    Calendar!TryLock, Calendar!Fetch, Calendar!Check, Calendar!Write,
    Calendar!Commit, Calendar!appVars
<1>7. ASSUME NEW g \in Gids,
             Calendar!GoogleAddsOrEdits(g) \/ Calendar!GoogleDeletes(g)
      PROVE  making' = making /\ req' = req
  BY <1>7 DEF Calendar!GoogleAddsOrEdits, Calendar!GoogleDeletes,
    Calendar!appVars
<1>8. ASSUME NEW n \in 1..MaxEdition, Calendar!Ages(n)
      PROVE  making' = making /\ req' = req
  BY <1>8 DEF Calendar!Ages, Calendar!appVars
<1> QED
  BY <1>1, <1>2, <1>5, <1>6, <1>7, <1>8, MakingGoesOn, RequestGoesOn,
    RequestDiesTypes DEF Calendar!Next

(* What was once long past is so for ever.                                 *)
LEMMA OldGoesOn ==
  ASSUME Typed, Calendar!Next
  PROVE  old \subseteq old' /\ old' \subseteq Calendar!Titles
<1>1. UNCHANGED old \/ \E n \in 1..MaxEdition : Calendar!Ages(n)
  BY DEF Calendar!Next, Calendar!UserStep, Calendar!Create, Calendar!Edit,
    Calendar!Show, Calendar!Delete, Calendar!ChooseMode, Calendar!Reconnect,
    Calendar!GoogleAddsOrEdits, Calendar!GoogleDeletes, Calendar!CreateStep,
    Calendar!CreateSends, Calendar!CreateRecords, Calendar!CreateFails,
    Calendar!RequestStep, Calendar!EditSends, Calendar!EditRecords,
    Calendar!DeleteSends, Calendar!RequestDies, Calendar!ChannelStep,
    Calendar!Open, Calendar!Record, Calendar!CloseOld, Calendar!CloseRecorded,
    Calendar!Forget, Calendar!WorkerDies, Calendar!Poll, Calendar!Renew,
    Calendar!WorkerStep, Calendar!TryLock, Calendar!Fetch, Calendar!Check,
    Calendar!Write, Calendar!Commit, Calendar!staleVars
<1>2. 1..MaxEdition \subseteq Calendar!Titles
  BY CA DEF Calendar!Titles, Calendar!CalendarAssumption
<1> QED
  BY <1>1, <1>2 DEF Calendar!Ages, Typed, BoundsTyped

LEMMA ApartMoves ==
  ASSUME Typed, Calendar!Next
  PROVE  apart' \subseteq Gids
<1>1. ASSUME apart' = apart PROVE apart' \subseteq Gids
  BY <1>1 DEF Typed, BoundsTyped
<1>2. ASSUME NEW g, NEW st, NEW title, Calendar!Changed(g, st, title)
      PROVE  apart' \subseteq Gids
  BY <1>2 DEF Calendar!Changed, Typed, BoundsTyped
<1>3. ASSUME NEW r \in Reqs,
             Calendar!RequestStep(r) PROVE apart' \subseteq Gids
  <2>1. req[r].gid \in Gids \cup {None} /\ apart \subseteq Gids
    BY DEF Typed, RequestsTyped, RequestRow, BoundsTyped
  <2>2. CASE Calendar!EditSends(r)
    BY <1>1, <1>2, <2>2 DEF Calendar!EditSends, Calendar!Unchanged
  <2>3. CASE Calendar!DeleteSends(r)
    BY <1>2, <2>1, <2>3 DEF Calendar!DeleteSends
  <2>4. CASE Calendar!EditRecords(r)
    <3>1. req[r].x \in Calendar!Rows
      BY <2>4 DEF Calendar!EditRecords, Typed, RequestsTyped
    <3>2. row[req[r].x].gid \in Gids \cup {None}
      BY <3>1 DEF Typed, RowsTyped, CalendarRow
    <3> QED
      BY <2>1, <2>4, <3>2 DEF Calendar!EditRecords
  <2> QED
    BY <1>3, <2>2, <2>3, <2>4 DEF Calendar!RequestStep
<1>4. CASE Calendar!RequestDies
  <2>1. \A r \in Reqs : req[r].gid \in Gids \cup {None}
    BY DEF Typed, RequestsTyped, RequestRow
  <2>2. apart \subseteq Gids
    BY DEF Typed, BoundsTyped
  <2> QED
    BY <1>4, <2>1, <2>2 DEF Calendar!RequestDies
<1>5. CASE Calendar!UserStep
  BY <1>1, <1>5 DEF Calendar!UserStep, Calendar!Create, Calendar!Edit,
    Calendar!Show, Calendar!Delete, Calendar!ChooseMode, Calendar!Reconnect,
    Calendar!staleVars
<1>6. ASSUME NEW p \in Calendar!Registrars,
             Calendar!ChannelStep(p) \/ Calendar!WorkerDies(p)
      PROVE  apart' = apart
  BY <1>6 DEF Calendar!ChannelStep, Calendar!Open, Calendar!Record,
    Calendar!CloseOld, Calendar!CloseRecorded, Calendar!Forget,
    Calendar!WorkerDies, Calendar!staleVars
<1>7. ASSUME NEW w \in Workers, Calendar!Poll(w) \/ Calendar!Renew(w) \/
             Calendar!WorkerStep(w) PROVE apart' \subseteq Gids
  <2>1. CASE Calendar!Commit(w)
    BY <2>1 DEF Calendar!Commit, Typed, BoundsTyped
  <2>2. apart' = apart \/ Calendar!Commit(w)
    BY <1>7 DEF Calendar!Poll, Calendar!Renew, Calendar!WorkerStep,
      Calendar!TryLock, Calendar!Fetch, Calendar!Check, Calendar!Write,
      Calendar!staleVars
  <2> QED
    BY <1>1, <2>1, <2>2
<1>8. ASSUME NEW g \in Gids,
             Calendar!GoogleAddsOrEdits(g) \/ Calendar!GoogleDeletes(g)
      PROVE  apart' \subseteq Gids
  BY <1>2, <1>8 DEF Calendar!GoogleAddsOrEdits, Calendar!GoogleDeletes
<1>9. ASSUME NEW a \in Own, Calendar!CreateStep(a) PROVE apart' \subseteq Gids
  BY <1>1, <1>2, <1>9 DEF Calendar!CreateStep, Calendar!CreateSends,
    Calendar!CreateRecords, Calendar!CreateFails, Calendar!Unchanged,
    Calendar!staleVars
<1>10. ASSUME NEW n \in 1..MaxEdition, Calendar!Ages(n) PROVE apart' = apart
  BY <1>10 DEF Calendar!Ages
<1> QED
  BY <1>1, <1>3, <1>4, <1>5, <1>6, <1>7, <1>8, <1>9, <1>10 DEF Calendar!Next

LEMMA CountersMove ==
  ASSUME Typed, Calendar!Next
  PROVE  edition' \in Calendar!Titles /\ modes' \in Nat /\ failures' \in Nat /\
           failures' >= failures /\ mode' \in Calendar!Modes \cup {"off"}
<1> USE DEF Typed, BoundsTyped
<1>1. UNCHANGED edition \/ Calendar!Edited
  BY DEF Calendar!Next, Calendar!UserStep, Calendar!Create, Calendar!Edit,
    Calendar!Show, Calendar!Delete, Calendar!ChooseMode, Calendar!Reconnect,
    Calendar!GoogleAddsOrEdits, Calendar!GoogleDeletes,
     Calendar!CreateStep, Calendar!CreateSends, Calendar!CreateRecords,
     Calendar!CreateFails, Calendar!RequestStep, Calendar!EditSends,
     Calendar!EditRecords, Calendar!DeleteSends,
     Calendar!RequestDies, Calendar!ChannelStep, Calendar!Open,
     Calendar!Record, Calendar!CloseOld, Calendar!CloseRecorded,
     Calendar!Forget, Calendar!WorkerDies, Calendar!Poll, Calendar!Renew,
     Calendar!WorkerStep, Calendar!TryLock, Calendar!Fetch, Calendar!Check,
     Calendar!Write, Calendar!Commit, Calendar!Ages, Calendar!boundVars
<1>2. edition' \in Calendar!Titles
  BY <1>1, CA DEF Calendar!Edited, Calendar!Titles, Calendar!CalendarAssumption
<1>3. UNCHANGED failures \/ Calendar!Fault
  BY DEF Calendar!Next, Calendar!UserStep, Calendar!Create, Calendar!Edit,
    Calendar!Show, Calendar!Delete, Calendar!ChooseMode, Calendar!Reconnect,
    Calendar!GoogleAddsOrEdits, Calendar!GoogleDeletes,
     Calendar!CreateStep, Calendar!CreateSends, Calendar!CreateRecords,
     Calendar!CreateFails, Calendar!RequestStep, Calendar!EditSends,
     Calendar!EditRecords, Calendar!DeleteSends,
     Calendar!RequestDies, Calendar!ChannelStep, Calendar!Open,
     Calendar!Record, Calendar!CloseOld, Calendar!CloseRecorded,
     Calendar!Forget, Calendar!WorkerDies, Calendar!Poll, Calendar!Renew,
     Calendar!WorkerStep, Calendar!TryLock, Calendar!Fetch, Calendar!Check,
     Calendar!Write, Calendar!Commit, Calendar!Ages, Calendar!boundVars,
     Calendar!NoFault
<1>4. failures' \in Nat /\ failures' >= failures
  BY <1>3 DEF Calendar!Fault
<1>5. UNCHANGED modes \/ modes' = modes + 1
  BY DEF Calendar!Next, Calendar!UserStep, Calendar!Create, Calendar!Edit,
    Calendar!Show, Calendar!Delete, Calendar!ChooseMode, Calendar!Reconnect,
    Calendar!GoogleAddsOrEdits, Calendar!GoogleDeletes,
     Calendar!CreateStep, Calendar!CreateSends, Calendar!CreateRecords,
     Calendar!CreateFails, Calendar!RequestStep, Calendar!EditSends,
     Calendar!EditRecords, Calendar!DeleteSends,
     Calendar!RequestDies, Calendar!ChannelStep, Calendar!Open,
     Calendar!Record, Calendar!CloseOld, Calendar!CloseRecorded,
     Calendar!Forget, Calendar!WorkerDies, Calendar!Poll, Calendar!Renew,
     Calendar!WorkerStep, Calendar!TryLock, Calendar!Fetch, Calendar!Check,
     Calendar!Write, Calendar!Commit, Calendar!Ages, Calendar!boundVars
<1>6. UNCHANGED mode \/ Calendar!Reconnect \/
        \E p \in Admins, m \in Calendar!Modes : Calendar!ChooseMode(p, m)
  BY DEF Calendar!Next, Calendar!UserStep, Calendar!Create, Calendar!Edit,
    Calendar!Show, Calendar!Delete, Calendar!GoogleAddsOrEdits,
    Calendar!GoogleDeletes,
     Calendar!CreateStep, Calendar!CreateSends, Calendar!CreateRecords,
     Calendar!CreateFails, Calendar!RequestStep, Calendar!EditSends,
     Calendar!EditRecords, Calendar!DeleteSends,
     Calendar!RequestDies, Calendar!ChannelStep, Calendar!Open,
     Calendar!Record, Calendar!CloseOld, Calendar!CloseRecorded,
     Calendar!Forget, Calendar!WorkerDies, Calendar!Poll, Calendar!Renew,
     Calendar!WorkerStep, Calendar!TryLock, Calendar!Fetch, Calendar!Check,
     Calendar!Write, Calendar!Commit, Calendar!Ages
<1>7. mode' \in Calendar!Modes \cup {"off"}
  BY <1>6 DEF Calendar!Reconnect, Calendar!ChooseMode, Calendar!Modes
<1> QED
  BY <1>2, <1>4, <1>5, <1>7

-----------------------------------------------------------------------------
(* The channel                                                             *)

(* A channel that waits to be recorded is open and was never recorded; one *)
(* that is to be closed as the old one is not recorded any more.           *)
ChannelsHold ==
  /\ live \subseteq 1..opened /\ sub.channel \in 0..opened
  /\ \A p \in Calendar!Registrars :
       /\ reg[p].at \in {"recording", "replacing"} => reg[p].old \in 0..opened
       /\ reg[p].at = "recording" =>
            /\ reg[p].channel \in live /\ reg[p].channel # sub.channel
            /\ \A q \in Calendar!Registrars :
                 reg[q].at \in {"recording", "replacing"} =>
                   /\ reg[q].old # reg[p].channel
                   /\ (q # p /\ reg[q].at = "recording"
                         => reg[q].channel # reg[p].channel)
       /\ reg[p].at = "replacing" => reg[p].old \notin {0, sub.channel}
  /\ Calendar!RecordedChannelIsOpen

LEMMA NoRegIsTyped == Calendar!NoReg \in RegRow /\ Calendar!NoReg.at = "idle"
BY CA DEF Calendar!NoReg, RegRow, Calendar!CalendarAssumption

LEMMA EndsIs ==
  ASSUME ChannelsTyped, NEW p \in Calendar!Registrars, Calendar!Ends(p)
  PROVE  /\ reg' \in [Calendar!Registrars -> RegRow] /\ reg'[p].at = "idle"
         /\ \A q \in Calendar!Registrars : q # p => reg'[q] = reg[q]
BY NoRegIsTyped DEF ChannelsTyped, Calendar!Ends

LEMMA AtIs ==
  ASSUME ChannelsTyped, NEW p \in Calendar!Registrars,
         NEW at \in {"idle", "opening", "recording", "replacing", "stopping",
         "forgetting"}, Calendar!At(p, at)
  PROVE  /\ reg' \in [Calendar!Registrars -> RegRow] /\ reg'[p].at = at
         /\ reg'[p].channel = reg[p].channel /\ reg'[p].old = reg[p].old
         /\ \A q \in Calendar!Registrars : q # p => reg'[q] = reg[q]
BY DEF ChannelsTyped, Calendar!At, RegRow

Channelled == ChannelsTyped /\ ChannelsHold /\ failures \in Nat

(* What no step of a registration is.                                      *)
LEMMA ChannelRests ==
  ASSUME Channelled, live' = live, opened' = opened, reg' = reg,
         sub'.channel = sub.channel,
         sub' \in [channel : 0..MaxRegisters, token : Nat], failures' \in
           Nat, failures' >= failures
  PROVE  (ChannelsTyped /\ ChannelsHold)'
BY DEF Channelled, ChannelsTyped, ChannelsHold, Calendar!RecordedChannelIsOpen

(* A registrar that begins something, or gives up.                         *)
LEMMA ChannelBegins ==
  ASSUME Channelled, NEW p \in Calendar!Registrars,
         UNCHANGED <<live, opened, sub>>, failures' \in Nat,
         \/ reg[p].at = "idle" /\ (Calendar!At(p, "opening") \/ Calendar!At(p,
              "stopping")) /\ failures' = failures
         \/ reg[p].at = "opening" /\ Calendar!Ends(p) /\ failures' >= failures
         \/ Calendar!Ends(p) /\ failures' > failures
  PROVE  (ChannelsTyped /\ ChannelsHold)'
<1>1. /\ reg' \in [Calendar!Registrars -> RegRow]
      /\ reg'[p].at \in {"idle", "opening", "stopping"}
      /\ \A q \in Calendar!Registrars : q # p => reg'[q] = reg[q]
  BY EndsIs, AtIs DEF Channelled
<1>2. Calendar!RecordedChannelIsOpen'
  <2>1. (\E q \in Calendar!Registrars : reg[q].at = "forgetting") /\
          ~ (failures' > failures)
           => \E q \in Calendar!Registrars : reg'[q].at = "forgetting"
    BY <1>1
  <2> QED
    BY <2>1 DEF Channelled, ChannelsHold, Calendar!RecordedChannelIsOpen
<1> QED
  BY <1>1, <1>2 DEF Channelled, ChannelsTyped, ChannelsHold

LEMMA OpenHolds ==
  ASSUME Channelled, NEW p \in Calendar!Registrars,
         Calendar!Open(p), failures' \in Nat
  PROVE  (ChannelsTyped /\ ChannelsHold)'
<1>1. CASE Calendar!Ends(p) /\ UNCHANGED <<live, opened>>
  <2>1. /\ failures' >= failures /\ UNCHANGED <<live, opened, sub>>
        /\ reg[p].at = "opening"
    BY <1>1 DEF Calendar!Open, Calendar!Fault, Calendar!NoFault, Channelled
  <2> QED
    BY <1>1, <2>1, ChannelBegins
<1>2. CASE ~ (Calendar!Ends(p) /\ UNCHANGED <<live, opened>>)
  <2> DEFINE c == opened + 1
             e == [at |-> "recording", channel |-> c, old |-> sub.channel]
  <2>1. /\ opened' = c /\ live' = live \cup {c} /\ sub' = sub
        /\ failures' = failures
        /\ reg' = [reg EXCEPT ![p] = e] /\ opened < MaxRegisters
    BY <1>2 DEF Calendar!Open, Calendar!NoFault
  <2>2. c \in 1..MaxRegisters /\ MaxRegisters \in Nat /\ opened \in Nat
    BY <2>1, CA DEF Channelled, ChannelsTyped, Calendar!CalendarAssumption
  <2>3. /\ e \in RegRow /\ e.at = "recording" /\ e.channel = c
        /\ e.old = sub.channel
    BY <2>2 DEF RegRow, Channelled, ChannelsTyped
  <2>4. /\ reg' \in [Calendar!Registrars -> RegRow] /\ reg'[p] = e
        /\ \A q \in Calendar!Registrars : q # p => reg'[q] = reg[q]
    <3> HIDE DEF e
    <3> QED
      BY <2>1, <2>3 DEF Channelled, ChannelsTyped
  <2>5. ChannelsTyped'
    BY <2>1, <2>2, <2>4 DEF Channelled, ChannelsTyped
  <2> HIDE DEF e
  <2>6. Calendar!RecordedChannelIsOpen'
    <3>1. (\E q \in Calendar!Registrars : reg[q].at = "forgetting") =>
            \E q \in Calendar!Registrars : reg'[q].at = "forgetting"
      BY <2>4 DEF Calendar!Open
    <3> QED
      BY <2>1, <3>1 DEF Channelled, ChannelsHold,
        Calendar!RecordedChannelIsOpen
  <2>7. live' \subseteq 1..opened' /\ sub'.channel \in 0..opened'
    BY <2>1, <2>2 DEF Channelled, ChannelsHold
  <2>8. /\ c \notin live /\ c # sub.channel
        /\ \A q \in Calendar!Registrars :
             reg[q].at \in {"recording", "replacing"} => reg[q].old # c
        /\ \A q \in Calendar!Registrars : reg[q].at = "recording" =>
             reg[q].channel # c /\ reg[q].channel # sub.channel
    BY <2>2 DEF Channelled, ChannelsHold
  <2>9. ASSUME NEW q \in Calendar!Registrars
        PROVE  /\ reg'[q].at \in {"recording", "replacing"} =>
                    reg'[q].old \in 0..opened'
               /\ reg'[q].at = "recording" =>
                    /\ reg'[q].channel \in live'
                    /\ reg'[q].channel # sub'.channel
                    /\ \A r \in Calendar!Registrars :
                         reg'[r].at \in {"recording", "replacing"} =>
                           /\ reg'[r].old # reg'[q].channel
                           /\ (r # q /\ reg'[r].at = "recording"
                                 => reg'[r].channel # reg'[q].channel)
               /\ reg'[q].at = "replacing" =>
                    reg'[q].old \notin {0, sub'.channel}
    <3>1. CASE q = p
      BY <2>1, <2>2, <2>3, <2>4, <2>8, <3>1 DEF Channelled, ChannelsHold
    <3>2. CASE q # p
      <4>1. reg'[q] = reg[q]
        BY <2>4, <3>2
      <4>2. reg[q].at \in {"recording", "replacing"} =>
              reg[q].old \in 0..opened'
        BY <2>1, <2>2 DEF Channelled, ChannelsHold
      <4>3. reg[q].at = "recording" =>
              reg[q].channel \in live' /\ reg[q].channel # sub'.channel
        BY <2>1 DEF Channelled, ChannelsHold
      <4>4. reg[q].at = "replacing" => reg[q].old \notin {0, sub'.channel}
        BY <2>1 DEF Channelled, ChannelsHold
      <4>5. ASSUME reg[q].at = "recording", NEW r \in Calendar!Registrars,
                   reg'[r].at \in {"recording", "replacing"}
            PROVE  /\ reg'[r].old # reg[q].channel
                   /\ (r # q /\ reg'[r].at = "recording"
                         => reg'[r].channel # reg[q].channel)
        <5>1. CASE r = p
          BY <2>3, <2>4, <2>8, <4>5, <5>1
        <5>2. CASE r # p
          BY <2>4, <4>5, <5>2 DEF Channelled, ChannelsHold
        <5> QED
          BY <5>1, <5>2
      <4> QED
        BY <4>1, <4>2, <4>3, <4>4, <4>5
    <3> QED
      BY <3>1, <3>2
  <2> QED
    BY <2>5, <2>6, <2>7, <2>9 DEF ChannelsHold
<1> QED
  BY <1>1, <1>2

LEMMA RecordHolds ==
  ASSUME Channelled, NEW p \in Calendar!Registrars,
         Calendar!Record(p), failures' = failures
  PROVE  (ChannelsTyped /\ ChannelsHold)'
<1>1. /\ sub' = [sub EXCEPT !.channel = reg[p].channel] /\ live' = live
      /\ opened' = opened
      /\ reg[p].at = "recording" /\ reg[p] \in RegRow
  BY DEF Calendar!Record, Channelled, ChannelsTyped
<1>2. sub' \in [channel : 0..MaxRegisters, token : Nat] /\ sub'.channel =
                                                             reg[p].channel
  BY <1>1 DEF Channelled, ChannelsTyped, RegRow
<1>3. /\ reg' \in [Calendar!Registrars -> RegRow]
      /\ reg'[p].at = "idle" \/
           (reg'[p].at = "replacing" /\ reg'[p].old = reg[p].old
              /\ reg[p].old # 0)
      /\ \A q \in Calendar!Registrars : q # p => reg'[q] = reg[q]
  BY EndsIs, AtIs DEF Calendar!Record, Channelled
<1>4. /\ reg[p].channel \in live /\ reg[p].old # reg[p].channel
      /\ reg[p].channel \in 0..opened
      /\ reg[p].old \in 0..opened
      /\ \A q \in Calendar!Registrars :
           reg[q].at \in {"recording", "replacing"} =>
             reg[q].old # reg[p].channel
      /\ \A q \in Calendar!Registrars \ {p} : reg[q].at = "recording" =>
           reg[q].channel # reg[p].channel
  BY <1>1, CA DEF Channelled, ChannelsHold, ChannelsTyped,
    Calendar!CalendarAssumption
<1>5. Calendar!RecordedChannelIsOpen'
  BY <1>1, <1>2, <1>4 DEF Calendar!RecordedChannelIsOpen
<1>6. ChannelsTyped'
  BY <1>1, <1>2, <1>3 DEF Channelled, ChannelsTyped
<1>7. ASSUME NEW q \in Calendar!Registrars
      PROVE  /\ reg'[q].at \in {"recording", "replacing"} =>
                  reg'[q].old \in 0..opened'
             /\ reg'[q].at = "recording" =>
                  /\ reg'[q].channel \in live'
                  /\ reg'[q].channel # sub'.channel
                  /\ \A r \in Calendar!Registrars :
                       reg'[r].at \in {"recording", "replacing"} =>
                         /\ reg'[r].old # reg'[q].channel
                         /\ (r # q /\ reg'[r].at = "recording"
                               => reg'[r].channel # reg'[q].channel)
             /\ reg'[q].at = "replacing" =>
                  reg'[q].old \notin {0, sub'.channel}
  <2>1. CASE q = p
    BY <1>1, <1>2, <1>3, <1>4, <2>1
  <2>2. CASE q # p
    <3>1. reg'[q] = reg[q]
      BY <1>3, <2>2
    <3>2. reg[q].at \in {"recording", "replacing"} => reg[q].old \in 0..opened'
      BY <1>1 DEF Channelled, ChannelsHold
    <3>3. reg[q].at = "recording" =>
            reg[q].channel \in live' /\ reg[q].channel # sub'.channel
      BY <1>1, <1>2, <1>4, <2>2 DEF Channelled, ChannelsHold
    <3>4. reg[q].at = "replacing" => reg[q].old \notin {0, sub'.channel}
      BY <1>2, <1>4 DEF Channelled, ChannelsHold
    <3>5. ASSUME reg[q].at = "recording", NEW r \in Calendar!Registrars,
                 reg'[r].at \in {"recording", "replacing"}
          PROVE  /\ reg'[r].old # reg[q].channel
                 /\ (r # q /\ reg'[r].at = "recording"
                       => reg'[r].channel # reg[q].channel)
      <4>1. /\ reg[r].at \in {"recording", "replacing"}
            /\ reg'[r].old = reg[r].old
        BY <1>1, <1>3, <3>5
      <4>2. reg'[r].at = "recording" => reg'[r] = reg[r]
        BY <1>3
      <4> QED
        BY <3>5, <4>1, <4>2 DEF Channelled, ChannelsHold
    <3> QED
      BY <3>1, <3>2, <3>3, <3>4, <3>5
  <2> QED
    BY <2>1, <2>2
<1> QED
  BY <1>1, <1>2, <1>4, <1>5, <1>6, <1>7, Zenon DEF ChannelsHold, Channelled

LEMMA CloseOldHolds ==
  ASSUME Channelled, NEW p \in Calendar!Registrars,
         Calendar!CloseOld(p), failures' \in Nat
  PROVE  (ChannelsTyped /\ ChannelsHold)'
<1>1. /\ sub' = sub /\ opened' = opened /\ reg[p].at = "replacing"
      /\ live' = live \ {reg[p].old} \/ live' = live
  BY DEF Calendar!CloseOld
<1>2. /\ reg' \in [Calendar!Registrars -> RegRow] /\ reg'[p].at = "idle"
      /\ \A q \in Calendar!Registrars : q # p => reg'[q] = reg[q]
  BY EndsIs DEF Calendar!CloseOld, Channelled
<1>3. /\ reg[p].old \notin {0, sub.channel}
      /\ \A q \in Calendar!Registrars : reg[q].at = "recording" =>
           reg[q].channel # reg[p].old
  BY <1>1 DEF Channelled, ChannelsHold
<1>4. failures' = failures \/ failures' > failures
  BY DEF Calendar!CloseOld, Calendar!Fault, Calendar!NoFault, Channelled
<1>5. Calendar!RecordedChannelIsOpen'
  <2>1. (\E q \in Calendar!Registrars : reg[q].at = "forgetting") =>
          \E q \in Calendar!Registrars : reg'[q].at = "forgetting"
    BY <1>1, <1>2
  <2> QED
    BY <1>1, <1>3, <1>4, <2>1 DEF Channelled, ChannelsHold,
      Calendar!RecordedChannelIsOpen
<1>6. ChannelsTyped'
  BY <1>1, <1>2 DEF Channelled, ChannelsTyped
<1>7. \A q \in Calendar!Registrars :
        reg'[q].at \in {"recording", "replacing"} => reg'[q] = reg[q]
  BY <1>2
<1>8. \A q \in Calendar!Registrars : reg'[q].at = "recording" =>
        reg'[q].channel \in live'
  BY <1>1, <1>3, <1>7 DEF Channelled, ChannelsHold
<1> QED
  BY <1>1, <1>5, <1>6, <1>7, <1>8 DEF Channelled, ChannelsHold

LEMMA CloseRecordedHolds ==
  ASSUME Channelled, NEW p \in Calendar!Registrars,
         Calendar!CloseRecorded(p), failures' \in Nat
  PROVE  (ChannelsTyped /\ ChannelsHold)'
<1>1. /\ sub' = sub /\ opened' = opened /\ reg[p].at = "stopping"
      /\ live' = live \ {sub.channel} \/ live' = live
  BY DEF Calendar!CloseRecorded
<1>2. /\ reg' \in [Calendar!Registrars -> RegRow]
      /\ reg'[p].at = "forgetting" \/
           (reg'[p].at = "idle" /\ sub = Calendar!NoSub)
      /\ \A q \in Calendar!Registrars : q # p => reg'[q] = reg[q]
  BY EndsIs, AtIs DEF Calendar!CloseRecorded, Channelled
<1>3. \A q \in Calendar!Registrars : reg[q].at = "recording" =>
        reg[q].channel # sub.channel
  BY DEF Channelled, ChannelsHold
<1>4. failures' = failures \/ failures' > failures
  BY DEF Calendar!CloseRecorded, Calendar!Fault, Calendar!NoFault, Channelled
<1>5. Calendar!RecordedChannelIsOpen'
  BY <1>1, <1>2 DEF Calendar!RecordedChannelIsOpen, Calendar!NoSub
<1>6. ChannelsTyped'
  BY <1>1, <1>2 DEF Channelled, ChannelsTyped
<1>7. \A q \in Calendar!Registrars :
        reg'[q].at \in {"recording", "replacing"} => reg'[q] = reg[q]
  BY <1>2
<1>8. \A q \in Calendar!Registrars : reg'[q].at = "recording" =>
        reg'[q].channel \in live'
  BY <1>1, <1>3, <1>7 DEF Channelled, ChannelsHold
<1> QED
  BY <1>1, <1>5, <1>6, <1>7, <1>8 DEF Channelled, ChannelsHold

LEMMA ForgetHolds ==
  ASSUME Channelled, NEW p \in Calendar!Registrars,
         Calendar!Forget(p), failures' = failures
  PROVE  (ChannelsTyped /\ ChannelsHold)'
<1>1. live' = live /\ opened' = opened /\ sub' = Calendar!NoSub
  BY DEF Calendar!Forget
<1>2. /\ reg' \in [Calendar!Registrars -> RegRow] /\ reg'[p].at = "idle"
      /\ \A q \in Calendar!Registrars : q # p => reg'[q] = reg[q]
  BY EndsIs DEF Calendar!Forget, Channelled
<1>3. sub' \in [channel : 0..MaxRegisters, token : Nat] /\ sub'.channel = 0
  BY <1>1, CA DEF Calendar!NoSub, Calendar!CalendarAssumption
<1>4. ChannelsTyped' /\ opened \in Nat
  BY <1>1, <1>2, <1>3, CA DEF Channelled, ChannelsTyped,
    Calendar!CalendarAssumption
<1>5. \A q \in Calendar!Registrars :
        reg'[q].at \in {"recording", "replacing"} => reg'[q] = reg[q]
  BY <1>2
<1>6. \A q \in Calendar!Registrars : reg[q].at = "recording" =>
        reg[q].channel # 0
  BY <1>4 DEF Channelled, ChannelsHold
<1>7. \A q \in Calendar!Registrars : reg[q].at = "replacing" => reg[q].old # 0
  BY DEF Channelled, ChannelsHold
<1>8. Calendar!RecordedChannelIsOpen'
  BY <1>3 DEF Calendar!RecordedChannelIsOpen
<1> QED
  BY <1>1, <1>3, <1>4, <1>5, <1>6, <1>7, <1>8 DEF Channelled, ChannelsHold

LEMMA WorkerDiesChannels ==
  ASSUME Channelled, NEW p \in Calendar!Registrars,
         Calendar!WorkerDies(p), failures' \in Nat
  PROVE  (ChannelsTyped /\ ChannelsHold)'
<1>1. /\ UNCHANGED <<live, opened, sub>> /\ failures' > failures
      /\ Calendar!Ends(p)
  BY DEF Calendar!WorkerDies, Calendar!Fault, Channelled, Calendar!Ends
<1> QED
  BY <1>1, ChannelBegins

LEMMA ChannelMoves ==
  ASSUME Typed, ChannelsHold, Calendar!Next
  PROVE  (ChannelsTyped /\ ChannelsHold)'
<1>1. Channelled /\ failures' \in Nat
  BY CountersMove DEF Typed, BoundsTyped, Channelled
<1>2. ASSUME UNCHANGED <<sub, live, opened, reg>>, failures' >= failures
      PROVE  (ChannelsTyped /\ ChannelsHold)'
  BY <1>1, <1>2, ChannelRests DEF Typed, ChannelsTyped
<1>3. failures' >= failures
  BY CountersMove
<1>4. ASSUME NEW p \in Calendar!Registrars,
             Calendar!ChannelStep(p) \/ Calendar!WorkerDies(p)
      PROVE  (ChannelsTyped /\ ChannelsHold)'
  <2>1. CASE Calendar!Record(p) \/ Calendar!Forget(p)
    <3>1. failures' = failures
      BY <2>1 DEF Calendar!Record, Calendar!Forget, Calendar!boundVars
    <3> QED
      BY <1>1, <2>1, <3>1, RecordHolds, ForgetHolds
  <2> QED
    BY <1>1, <1>4, <2>1, OpenHolds, CloseOldHolds, CloseRecordedHolds,
      WorkerDiesChannels DEF Calendar!ChannelStep
<1>5. ASSUME NEW p \in Admins, NEW m \in Calendar!Modes,
             Calendar!ChooseMode(p, m)
      PROVE  (ChannelsTyped /\ ChannelsHold)'
  <2>1. /\ UNCHANGED <<live, opened, sub>> /\ failures' = failures
        /\ p \in Calendar!Registrars
        /\ reg[p].at = "idle" /\
             (Calendar!At(p, "opening") \/ Calendar!At(p, "stopping"))
    BY <1>5 DEF Calendar!ChooseMode, Calendar!Registrars
  <2> QED
    BY <1>1, <2>1, ChannelBegins
<1>6. ASSUME NEW w \in Workers, Calendar!Poll(w) \/ Calendar!Renew(w)
      PROVE  (ChannelsTyped /\ ChannelsHold)'
  <2>1. /\ UNCHANGED <<live, opened, sub>> /\ failures' = failures
        /\ w \in Calendar!Registrars
        /\ reg[w].at = "idle" /\ (Calendar!At(w, "opening") \/ UNCHANGED reg)
    BY <1>6 DEF Calendar!Poll, Calendar!Renew, Calendar!Free,
      Calendar!Registrars, Calendar!boundVars
  <2> QED
    BY <1>1, <1>2, <1>3, <2>1, ChannelBegins
<1>7. ASSUME NEW w \in Workers, Calendar!Commit(w)
      PROVE  (ChannelsTyped /\ ChannelsHold)'
  <2>1. UNCHANGED <<live, opened, reg>> /\
          (sub' = sub \/ sub' = [sub EXCEPT !.token = worker[w].token])
    BY <1>7 DEF Calendar!Commit
  <2>2. worker[w].token \in Nat
    BY DEF Typed, WorkersTyped, WorkerRow
  <2>3. sub' \in [channel : 0..MaxRegisters, token : Nat] /\
          sub'.channel = sub.channel
    BY <2>1, <2>2 DEF Typed, ChannelsTyped
  <2> QED
    BY <1>1, <1>3, <2>1, <2>3, ChannelRests
<1>8. ASSUME NEW w \in Workers, Calendar!WorkerStep(w)
      PROVE  UNCHANGED <<sub, live, opened, reg>> \/ Calendar!Commit(w)
  BY <1>8 DEF Calendar!WorkerStep, Calendar!TryLock, Calendar!Fetch,
    Calendar!Check, Calendar!Write, Calendar!channelVars
<1>9. CASE Calendar!Reconnect \/ Calendar!RequestDies
  BY <1>2, <1>3, <1>9 DEF Calendar!Reconnect, Calendar!RequestDies,
    Calendar!channelVars
<1>10. ASSUME NEW r \in Reqs, NEW x \in Calendar!Rows,
              \/ Calendar!Edit(r, x)
              \/ Calendar!Delete(r, x)
              \/ \E t \in {"shared", "personal"} : Calendar!Show(r, x, t)
       PROVE  UNCHANGED <<sub, live, opened, reg>>
  BY <1>10 DEF Calendar!Edit, Calendar!Delete, Calendar!Show,
    Calendar!channelVars
<1>11. ASSUME NEW a \in Own, Calendar!Create(a) \/
              Calendar!CreateStep(a) PROVE UNCHANGED <<sub, live, opened, reg>>
  BY <1>11 DEF Calendar!Create, Calendar!CreateStep, Calendar!CreateSends,
    Calendar!CreateRecords, Calendar!CreateFails, Calendar!channelVars
<1>12. ASSUME NEW r \in Reqs,
              Calendar!RequestStep(r) PROVE UNCHANGED <<sub, live, opened,
                reg>>
  BY <1>12 DEF Calendar!RequestStep, Calendar!EditSends, Calendar!EditRecords,
    Calendar!DeleteSends, Calendar!channelVars
<1>13. ASSUME NEW g \in Gids, Calendar!GoogleAddsOrEdits(g) \/
              Calendar!GoogleDeletes(g) PROVE UNCHANGED <<sub, live, opened,
                reg>>
  BY <1>13 DEF Calendar!GoogleAddsOrEdits, Calendar!GoogleDeletes,
    Calendar!channelVars
<1>14. CASE Calendar!UserStep
  BY <1>2, <1>3, <1>5, <1>9, <1>10, <1>11, <1>14 DEF Calendar!UserStep
<1>15. ASSUME NEW n \in 1..MaxEdition, Calendar!Ages(n)
       PROVE  UNCHANGED <<sub, live, opened, reg>>
  BY <1>15 DEF Calendar!Ages, Calendar!channelVars
<1> QED
  BY <1>2, <1>3, <1>4, <1>6, <1>7, <1>8, <1>9, <1>11, <1>12, <1>13, <1>14,
    <1>15 DEF Calendar!Next

-----------------------------------------------------------------------------
(* The workers                                                             *)

(* Who holds the lock synchronises, and nobody else does.                  *)
Exclusive ==
  \A w \in Workers : holder = w <=>
    worker[w].at \in {"locked", "applying", "writing"}

(* An event that nobody made has not changed, and rows are of events.      *)
EventsHold ==
  \A g \in Gids :
    /\ google[g].st = "none" => google[g].mark = 0
    /\ row[g].there => google[g].st # "none"

(* What a reading of everything left out was deleted, or ended long ago,   *)
(* or has changed since.                                                   *)
Missed(W) ==
  /\ W.past \subseteq old
  /\ \A m \in Nat : (\A g \in Gids : google[g].mark <= m) => W.token <= m + 1
  /\ \A g \in Gids \ DOMAIN W.got :
       \/ google[g].st # "confirmed" \/ google[g].mark >= W.token
       \/ google[g].title \in W.past

(* What was read was there, and what was read as deleted is.               *)
Reads(W) ==
  /\ W.todo \cup W.staged \subseteq DOMAIN W.got
  /\ W.at = "writing" => W.item \in DOMAIN W.got
  /\ \A g \in DOMAIN W.got :
       google[g].st # "none" /\
         (W.got[g].st = "cancelled" => google[g].st = "cancelled")
  /\ W.full => Missed(W) /\ W.at \in {"applying", "writing"}

ReadsHold == \A w \in Workers : Reads(worker[w])

LEMMA ReadingIsOfEvents ==
  ASSUME NEW W \in WorkerRow
  PROVE  DOMAIN W.got \in SUBSET Gids /\ W.got \in [DOMAIN W.got -> ReadRow]
BY DEF WorkerRow, Readings

LEMMA RestingReads == Reads(Calendar!Resting)
BY EmptyReading, RestingIsTyped DEF Reads, Calendar!Resting

(* A worker that does nothing, while events change.                        *)
LEMMA MissedStays ==
  ASSUME Typed, NEW W \in WorkerRow, Missed(W), GoogleGoesOn,
         old \subseteq old'
  PROVE  Missed(W)'
<1>1. /\ Calendar!LastMark \in Nat
      /\ \A g \in Gids : google[g].mark <= Calendar!LastMark
  BY LastMarkIs DEF Typed
<1>2. W.token \in Nat /\ W.token <= Calendar!LastMark + 1
  BY <1>1 DEF Missed, WorkerRow
<1>3. \A g \in Gids : google[g].mark \in Nat
  BY DEF Typed, GoogleTyped, EventRow
<1>4. \A g \in Gids : google'[g] = google[g] \/
        (google'[g].mark = Calendar!LastMark + 1 /\ google'[g].mark >= W.token)
  BY <1>1, <1>2 DEF GoogleGoesOn
<1>5. ASSUME NEW m \in Nat, \A g \in Gids : google'[g].mark <= m
      PROVE  W.token <= m + 1
  <2>1. \A g \in Gids : google[g].mark <= m
    BY <1>1, <1>3, <1>4, <1>5
  <2> QED
    BY <2>1 DEF Missed
<1>6. ASSUME NEW g \in Gids, g \notin DOMAIN W.got
      PROVE  \/ google'[g].st # "confirmed" \/ google'[g].mark >= W.token
             \/ google'[g].title \in W.past
  BY <1>4, <1>6 DEF Missed
<1>7. W.past \subseteq old'
  BY DEF Missed
<1> QED
  BY <1>5, <1>6, <1>7 DEF Missed

LEMMA ReadingStays ==
  ASSUME Typed, NEW w \in Workers, Reads(worker[w]), worker'[w] = worker[w],
         GoogleGoesOn, old \subseteq old'
  PROVE  Reads(worker[w])'
<1>1. DOMAIN worker[w].got \in SUBSET Gids /\ worker[w] \in WorkerRow
  BY ReadingIsOfEvents DEF Typed, WorkersTyped
<1>2. PICK W \in WorkerRow : W = worker[w]
  BY <1>1
<1>3. Missed(W) => Missed(W)'
  BY MissedStays
<1>4. Reads(W)'
  BY <1>1, <1>2, <1>3 DEF Reads, GoogleGoesOn
<1> QED
  BY <1>2, <1>4

(* What a step of a worker other than Commit keeps of the others.          *)
LEMMA OthersStay ==
  ASSUME Typed, ReadsHold, NEW w \in Workers, NEW W \in WorkerRow,
         worker' = [worker EXCEPT ![w] = W], google' = google, old' = old,
         Reads(W)
  PROVE  ReadsHold' /\ worker' \in [Workers -> WorkerRow] /\ worker'[w] = W
<1>1. worker' \in [Workers -> WorkerRow] /\ worker'[w] = W
  BY DEF Typed, WorkersTyped
<1>2. Reads(W)'
  BY DEF Reads, Missed
<1>3. ASSUME NEW v \in Workers PROVE Reads(worker[v])'
  <2>1. CASE v = w
    BY <1>1, <1>2, <2>1
  <2>2. CASE v # w
    <3>1. worker'[v] = worker[v] /\ Reads(worker[v])
      BY <2>2 DEF Typed, WorkersTyped, ReadsHold
    <3>2. Reads(worker[v])'
      BY <3>1 DEF Reads, Missed
    <3> QED
      BY <3>2
  <2> QED
    BY <2>1, <2>2
<1> QED
  BY <1>1, <1>3 DEF ReadsHold

Working == Typed /\ Exclusive /\ EventsHold /\ ReadsHold
WorkersHold == WorkersTyped /\ Exclusive /\ ReadsHold

LEMMA PollHolds ==
  ASSUME Working, NEW w \in Workers, Calendar!Poll(w)
  PROVE  WorkersHold'
<1> DEFINE W == [worker[w] EXCEPT !.at = "ready"]
<1>1. worker[w] = Calendar!Resting /\ worker[w] \in WorkerRow
  BY DEF Calendar!Poll, Calendar!Free, Working, Typed, WorkersTyped
<1>2. W \in WorkerRow /\ W.at = "ready" /\ Reads(W)
  <2>1. W \in WorkerRow /\ W.at = "ready"
    BY <1>1 DEF WorkerRow
  <2>2. W.todo = {} /\ W.staged = {} /\ W.got = << >> /\ ~ W.full
    BY <1>1 DEF Calendar!Resting
  <2> HIDE DEF W
  <2> QED
    BY <2>1, <2>2, EmptyReading DEF Reads
<1>3. /\ worker' = [worker EXCEPT ![w] = W] /\ holder' = holder
      /\ google' = google /\ old' = old
  BY DEF Calendar!Poll, Calendar!staleVars
<1> HIDE DEF W
<1>4. /\ ReadsHold' /\ worker' \in [Workers -> WorkerRow] /\ worker'[w] = W
      /\ \A v \in Workers : v # w => worker'[v] = worker[v]
  BY <1>2, <1>3, OthersStay DEF Working, Typed, WorkersTyped
<1>5. Exclusive'
  BY <1>1, <1>2, <1>3, <1>4, RestingIsTyped DEF Working, Exclusive
<1> QED
  BY <1>3, <1>4, <1>5 DEF WorkersHold, Working, Typed, WorkersTyped

LEMMA RestsHolds ==
  ASSUME Working, NEW w \in Workers,
         Calendar!Rests(w), holder = w, google' = google, old' = old
  PROVE  WorkersHold'
<1>1. /\ ReadsHold' /\ worker' \in [Workers -> WorkerRow]
      /\ worker'[w] = Calendar!Resting
      /\ \A v \in Workers : v # w => worker'[v] = worker[v]
  BY RestingIsTyped, RestingReads, OthersStay DEF Calendar!Rests, Working,
    Typed, WorkersTyped
<1>2. Exclusive'
  <2>1. None \notin Workers /\ holder' = None
    BY CA DEF Calendar!CalendarAssumption, Calendar!Rests
  <2> QED
    BY <1>1, <2>1, RestingIsTyped DEF Working, Exclusive
<1> QED
  BY <1>1, <1>2 DEF WorkersHold, WorkersTyped, Calendar!Rests

LEMMA TryLockHolds ==
  ASSUME Working, NEW w \in Workers, Calendar!TryLock(w)
  PROVE  WorkersHold'
<1> DEFINE W == IF holder =
      None THEN [worker[w] EXCEPT !.at = "locked"] ELSE Calendar!Resting
<1>1. worker[w].at = "ready" /\ worker[w] \in WorkerRow /\ Reads(worker[w])
  BY DEF Calendar!TryLock, Working, Typed, WorkersTyped, ReadsHold
<1>2. W \in WorkerRow /\ Reads(W) /\
        W.at = (IF holder = None THEN "locked" ELSE "idle")
  <2>1. CASE holder = None
    <3>1. /\ W \in WorkerRow /\ W.at = "locked" /\ W.todo = worker[w].todo
          /\ W.staged = worker[w].staged /\ W.got = worker[w].got
          /\ ~ W.full
      BY <1>1, <2>1 DEF WorkerRow, Reads
    <3> HIDE DEF W
    <3> QED
      BY <1>1, <2>1, <3>1 DEF Reads
  <2>2. CASE holder # None
    BY <2>2, RestingIsTyped, RestingReads
  <2> QED
    BY <2>1, <2>2
<1>3. /\ worker' = [worker EXCEPT ![w] = W] /\ google' = google /\ old' = old
      /\ holder' = IF holder = None THEN w ELSE holder
  BY DEF Calendar!TryLock, Calendar!staleVars
<1> HIDE DEF W
<1>4. /\ ReadsHold' /\ worker' \in [Workers -> WorkerRow] /\ worker'[w] = W
      /\ \A v \in Workers : v # w => worker'[v] = worker[v]
  BY <1>2, <1>3, OthersStay DEF Working, Typed, WorkersTyped
<1>5. Exclusive'
  <2>1. None \notin Workers
    BY CA DEF Calendar!CalendarAssumption
  <2> QED
    BY <1>1, <1>2, <1>3, <1>4, <2>1 DEF Working, Exclusive
<1> QED
  BY <1>3, <1>4, <1>5 DEF WorkersHold, Working, Typed, WorkersTyped

LEMMA GotIs ==
  ASSUME Working, NEW full \in BOOLEAN, full \/ sub.token # 0
  PROVE  /\ Calendar!Got(full) \subseteq Gids
         /\ \A g \in Calendar!Got(full) : google[g].st # "none"
         /\ full => \A g \in Gids \ Calendar!Got(full) :
              google[g].st # "confirmed" \/ google[g].title \in old
<1>1. ~ full => sub.token \in Nat \ {0}
  BY DEF Working, Typed, ChannelsTyped
<1>2. ASSUME ~ full, NEW g \in Calendar!Got(full) PROVE google[g].st # "none"
  BY <1>1, <1>2 DEF Calendar!Got, Working, EventsHold
<1> QED
  BY <1>2 DEF Calendar!Got, Calendar!Present

LEMMA FetchHolds ==
  ASSUME Working, NEW w \in Workers, Calendar!Fetch(w)
  PROVE  WorkersHold'
<1>1. worker[w].at = "locked" /\ holder = w /\ google' = google /\ old' = old
  BY DEF Calendar!Fetch, Working, Exclusive, Calendar!staleVars
<1>2. CASE Calendar!Rests(w)
  BY <1>1, <1>2, RestsHolds
<1>3. CASE ~ Calendar!Rests(w)
  <2>1. PICK full \in BOOLEAN :
          /\ full \/ sub.token # 0
          /\ holder' = holder
          /\ worker' = [worker EXCEPT ![w] =
                  [Calendar!Resting EXCEPT !.at = "applying", !.full = full,
                     !.token = Calendar!LastMark + 1, !.past = old,
                     !.todo = Calendar!Got(full),
                     !.got = [g \in Calendar!Got(full) |->
                               [st |-> google[g].st,
                                 title |-> google[g].title]]]]
    <3>1. PICK full \in BOOLEAN :
          /\ IF full # (sub.token = 0) THEN full /\
               Calendar!Fault ELSE Calendar!NoFault
          /\ holder' = holder
          /\ worker' = [worker EXCEPT ![w] =
                  [Calendar!Resting EXCEPT !.at = "applying", !.full = full,
                     !.token = Calendar!LastMark + 1, !.past = old,
                     !.todo = Calendar!Got(full),
                     !.got = [g \in Calendar!Got(full) |->
                               [st |-> google[g].st,
                                 title |-> google[g].title]]]]
      BY <1>3 DEF Calendar!Fetch
    <3>2. full \/ sub.token # 0
      <4>1. full = FALSE => sub.token # 0
        BY <3>1
      <4> QED
        BY <4>1
    <3> QED
      BY <3>1, <3>2
  <2> DEFINE read == [g \in Calendar!Got(full) |-> [st |-> google[g].st,
        title |-> google[g].title]]
             W == [Calendar!Resting EXCEPT !.at = "applying", !.full = full,
               !.token = Calendar!LastMark + 1, !.past = old,
                     !.todo = Calendar!Got(full), !.got = read]
  <2>2. /\ Calendar!Got(full) \subseteq Gids
        /\ \A g \in Calendar!Got(full) : google[g].st # "none"
        /\ full => \A g \in Gids \ Calendar!Got(full) :
             google[g].st # "confirmed" \/ google[g].title \in old
    BY <2>1, GotIs
  <2>3. /\ read \in Readings /\ DOMAIN read = Calendar!Got(full)
        /\ \A g \in Calendar!Got(full) : read[g].st = google[g].st
    <3>1. \A g \in Calendar!Got(full) :
            [st |-> google[g].st, title |-> google[g].title] \in ReadRow
      BY <2>2 DEF Working, Typed, GoogleTyped, EventRow, ReadRow
    <3> QED
      BY <2>2, <3>1 DEF Readings
  <2> HIDE DEF read
  <2>4. Calendar!LastMark + 1 \in Nat
    BY LastMarkIs DEF Working, Typed
  <2>5. /\ W \in WorkerRow /\ W.at = "applying" /\ W.full = full
        /\ W.todo = Calendar!Got(full)
        /\ W.got = read /\ W.staged = {}
        /\ W.past = old /\ W.token = Calendar!LastMark + 1
    BY <2>2, <2>3, <2>4, RestingIsTyped DEF WorkerRow, Calendar!Resting,
      Working, Typed, BoundsTyped
  <2>6. worker' = [worker EXCEPT ![w] = W] /\ holder' = holder
    BY <2>1 DEF read
  <2> HIDE DEF W
  <2>7. Reads(W)
    <3>1. /\ Calendar!LastMark \in Nat
          /\ Calendar!LastMark \in {google[g].mark : g \in Gids} \cup {0}
      BY LastMarkIs DEF Working, Typed, Calendar!LastMark, GoogleTyped,
        HasLastMark
    <3>2. ASSUME NEW m \in Nat, \A g \in Gids : google[g].mark <= m
          PROVE  W.token <= m + 1
      BY <2>5, <3>1, <3>2
    <3>3. full => Missed(W)
      BY <2>2, <2>3, <2>5, <3>2 DEF Missed
    <3> QED
      BY <2>2, <2>3, <2>5, <3>3 DEF Reads
  <2>8. /\ ReadsHold' /\ worker' \in [Workers -> WorkerRow] /\ worker'[w] = W
        /\ \A v \in Workers : v # w => worker'[v] = worker[v]
    BY <1>1, <2>5, <2>6, <2>7, OthersStay DEF Working, Typed, WorkersTyped
  <2>9. Exclusive'
    BY <1>1, <2>5, <2>6, <2>8 DEF Working, Exclusive
  <2> QED
    BY <2>6, <2>8, <2>9 DEF WorkersHold, Working, Typed, WorkersTyped
<1> QED
  BY <1>2, <1>3

LEMMA CheckHolds ==
  ASSUME Working, NEW w \in Workers, NEW g \in Gids, Calendar!Check(w, g)
  PROVE  WorkersHold'
<1>1. /\ worker[w].at = "applying" /\ g \in worker[w].todo
      /\ worker[w] \in WorkerRow
      /\ Reads(worker[w]) /\ google' = google /\ old' = old /\ holder' = holder
  BY DEF Calendar!Check, Working, Typed, WorkersTyped, ReadsHold,
    Calendar!staleVars
<1> DEFINE at == IF Calendar!AppOrigin(g) THEN "applying" ELSE "writing"
           item == IF Calendar!AppOrigin(g) THEN None ELSE g
           W == [worker[w] EXCEPT !.todo = @ \ {g}, !.at = at, !.item = item]
<1>2. at \in {"applying", "writing"} /\ item \in Gids \cup {None} /\
        (at = "writing" => item = g)
  OBVIOUS
<1>3. worker' = [worker EXCEPT ![w] = W]
  BY DEF Calendar!Check
<1> HIDE DEF at, item
<1>4. /\ W \in WorkerRow /\ W.at = at /\ W.item = item
      /\ W.todo \subseteq worker[w].todo
      /\ W.got = worker[w].got /\ W.staged = worker[w].staged
      /\ W.full = worker[w].full /\ W.past = worker[w].past
      /\ W.token = worker[w].token
  BY <1>1, <1>2 DEF WorkerRow
<1> HIDE DEF W
<1>5. Reads(W)
  BY <1>1, <1>2, <1>4 DEF Reads, Missed
<1>6. /\ ReadsHold' /\ worker' \in [Workers -> WorkerRow] /\ worker'[w] = W
      /\ \A v \in Workers : v # w => worker'[v] = worker[v]
  BY <1>1, <1>3, <1>4, <1>5, OthersStay DEF Working, Typed, WorkersTyped
<1>7. Exclusive'
  BY <1>1, <1>2, <1>4, <1>6 DEF Working, Exclusive
<1> QED
  BY <1>1, <1>6, <1>7 DEF WorkersHold, Working, Typed, WorkersTyped

LEMMA WriteHolds ==
  ASSUME Working, NEW w \in Workers, Calendar!Write(w)
  PROVE  WorkersHold'
<1>1. /\ worker[w].at = "writing" /\ worker[w] \in WorkerRow
      /\ Reads(worker[w]) /\ google' = google /\ old' = old /\ holder' = holder
  BY DEF Calendar!Write, Working, Typed, WorkersTyped, ReadsHold,
    Calendar!staleVars
<1>2. /\ worker[w].item \in DOMAIN worker[w].got
      /\ DOMAIN worker[w].got \in SUBSET Gids
  BY <1>1, ReadingIsOfEvents DEF Reads
<1> DEFINE g == worker[w].item
           Does == IF worker[w].got[g].st =
             "confirmed" THEN ~ Calendar!AppOrigin(g) ELSE row[g].there
           staged == IF Does THEN worker[w].staged \cup
             {g} ELSE worker[w].staged
           W == [worker[w] EXCEPT !.at = "applying", !.item = None,
             !.staged = staged]
<1>3. staged \subseteq worker[w].staged \cup {worker[w].item}
  OBVIOUS
<1>4. worker' = [worker EXCEPT ![w] = W]
  BY DEF Calendar!Write
<1> HIDE DEF staged
<1>5. /\ W \in WorkerRow /\ W.at = "applying" /\ W.todo = worker[w].todo
      /\ W.got = worker[w].got /\ W.staged = staged /\ W.full = worker[w].full
      /\ W.past = worker[w].past /\ W.token = worker[w].token
  BY <1>1, <1>2, <1>3 DEF WorkerRow
<1> HIDE DEF W
<1>6. Reads(W)
  BY <1>1, <1>2, <1>3, <1>5 DEF Reads, Missed
<1>7. /\ ReadsHold' /\ worker' \in [Workers -> WorkerRow] /\ worker'[w] = W
      /\ \A v \in Workers : v # w => worker'[v] = worker[v]
  BY <1>1, <1>4, <1>5, <1>6, OthersStay DEF Working, Typed, WorkersTyped
<1>8. Exclusive'
  BY <1>1, <1>5, <1>7 DEF Working, Exclusive
<1> QED
  BY <1>1, <1>7, <1>8 DEF WorkersHold, Working, Typed, WorkersTyped

LEMMA WorkerDiesHolds ==
  ASSUME Working, NEW p \in Calendar!Registrars, Calendar!WorkerDies(p)
  PROVE  WorkersHold'
<1>1. /\ worker' = [w \in Workers |->
                IF w = p THEN Calendar!Resting ELSE worker[w]]
      /\ holder' = (IF holder = p THEN None ELSE holder) /\ google' = google /\
           old' = old
  BY DEF Calendar!WorkerDies, Calendar!staleVars
<1>2. worker' \in [Workers -> WorkerRow] /\ holder' \in Workers \cup {None}
  BY <1>1, RestingIsTyped DEF Working, Typed, WorkersTyped
<1>3. ASSUME NEW w \in Workers PROVE Reads(worker[w])'
  <2>1. Reads(worker'[w])
    BY <1>1, RestingReads DEF Working, ReadsHold
  <2> QED
    BY <1>1, <2>1 DEF Reads, Missed
<1>4. Exclusive'
  <2>1. None \notin Workers
    BY CA DEF Calendar!CalendarAssumption
  <2> QED
    BY <1>1, <2>1, RestingIsTyped DEF Working, Exclusive
<1> QED
  BY <1>2, <1>3, <1>4 DEF WorkersHold, WorkersTyped, ReadsHold

(* The transaction of a synchronisation.                                   *)
LEMMA CommitRows ==
  ASSUME Working, NEW w \in Workers, Calendar!Commit(w), NEW g \in Gids
  PROVE  /\ row'[g] \in CalendarRow
         /\ row'[g].there => google[g].st # "none"
         /\ row[g].there /\ Calendar!Present(g)
            /\ ~ Calendar!ChangedSinceMissed(g) =>
              row'[g].there /\ row'[g].type = row[g].type
<1> DEFINE W == worker[w]
           Gone == \/ g \in W.staged /\ W.got[g].st = "cancelled"
                   \/ /\ g \in IF W.full THEN Gids \ DOMAIN W.got ELSE {}
                      /\ row[g].title \notin W.past
<1>1. /\ row[g] \in CalendarRow /\ g \in Calendar!Rows /\ W \in WorkerRow
      /\ W.at = "applying" /\ Reads(W)
      /\ row[g].there => google[g].st # "none"
  BY DEF Calendar!Commit, Working, Typed, RowsTyped, WorkersTyped,
    Calendar!Rows, ReadsHold, EventsHold
<1>2. row'[g] = IF Gone THEN Calendar!NoRow
                ELSE IF g \in
                  W.staged THEN Calendar!Upserted(row[g], g, W.got[g].title)
                ELSE row[g]
  BY <1>1 DEF Calendar!Commit
<1>3. Gone => ~ Calendar!Present(g) \/ Calendar!ChangedSinceMissed(g)
  BY <1>1 DEF Reads, Missed, Calendar!Present, Calendar!ChangedSinceMissed
<1>4. ASSUME g \in W.staged
      PROVE  google[g].st # "none" /\ W.got[g].title \in Calendar!Titles
  <2>1. g \in DOMAIN W.got /\ google[g].st # "none"
    BY <1>1, <1>4 DEF Reads
  <2>2. W.got[g] \in ReadRow
    BY <1>1, <2>1, ReadingIsOfEvents
  <2> QED
    BY <2>1, <2>2 DEF ReadRow
<1>5. ASSUME NEW title \in Calendar!Titles
      PROVE  /\ Calendar!Upserted(row[g], g, title) \in CalendarRow
             /\ row[g].there => Calendar!Upserted(row[g], g, title).there /\
                  Calendar!Upserted(row[g], g, title).type = row[g].type
  BY <1>1 DEF Calendar!Upserted, CalendarRow
<1> HIDE DEF W, Gone
<1> QED
  BY <1>1, <1>2, <1>3, <1>4, <1>5, NoRowIsTyped

LEMMA CommitHolds ==
  ASSUME Working, NEW w \in Workers, Calendar!Commit(w)
  PROVE  /\ RowsTyped' /\ WorkersHold'
         /\ \A g \in Gids : row'[g].there => google'[g].st # "none"
<1>1. /\ google' = google /\ worker[w].at = "applying" /\ holder = w
      /\ old' = old
      /\ row' = [x \in Calendar!Rows |-> row'[x]]
      /\ \A x \in Calendar!Rows \ Gids : x \notin worker[w].staged =>
           row'[x] = row[x]
  BY DEF Calendar!Commit, Working, Exclusive
<1>2. worker[w].staged \subseteq Gids
  BY DEF Working, Typed, WorkersTyped, WorkerRow
<1>3. RowsTyped'
  <2>1. \A x \in Calendar!Rows \ Gids : row'[x] \in CalendarRow
    BY <1>1, <1>2 DEF Working, Typed, RowsTyped
  <2>2. \A x \in Calendar!Rows : row'[x] \in CalendarRow
    BY <2>1, CommitRows
  <2> QED
    BY <1>1, <2>2 DEF RowsTyped
<1>4. /\ holder' = None /\ worker' \in [Workers -> WorkerRow]
      /\ worker'[w] = Calendar!Resting
      /\ \A v \in Workers : v # w => worker'[v] = worker[v]
  BY RestingIsTyped DEF Calendar!Commit, Calendar!Rests, Working, Typed,
    WorkersTyped
<1>5. ASSUME NEW v \in Workers PROVE Reads(worker[v])'
  <2>1. CASE v = w
    <3>1. Reads(Calendar!Resting)'
      BY RestingReads, EmptyReading, RestingIsTyped DEF Reads, Calendar!Resting
    <3> QED
      BY <1>4, <2>1, <3>1
  <2>2. CASE v # w
    <3>1. Reads(worker[v])
      BY DEF Working, ReadsHold
    <3>2. Reads(worker[v])'
      BY <1>1, <1>4, <2>2, <3>1 DEF Reads, Missed
    <3> QED
      BY <3>2
  <2> QED
    BY <2>1, <2>2
<1>6. Exclusive'
  <2>1. None \notin Workers
    BY CA DEF Calendar!CalendarAssumption
  <2> QED
    BY <1>1, <1>4, <2>1, RestingIsTyped DEF Working, Exclusive
<1> QED
  BY <1>1, <1>3, <1>4, <1>5, <1>6, CommitRows DEF WorkersHold, WorkersTyped,
    ReadsHold

-----------------------------------------------------------------------------
(* The invariant                                                           *)

LEMMA EventsKept ==
  ASSUME Working, GoogleTyped', GoogleGoesOn, RowsGoOn
  PROVE  EventsHold'
BY DEF Working, EventsHold, GoogleGoesOn, RowsGoOn

LEMMA WorkersRest ==
  ASSUME Working, worker' = worker, holder' = holder, GoogleGoesOn,
         old \subseteq old'
  PROVE  WorkersHold'
<1>1. ReadsHold'
  BY ReadingStays DEF Working, ReadsHold
<1> QED
  BY <1>1 DEF WorkersHold, Working, Typed, WorkersTyped, Exclusive

LEMMA WorkersMove ==
  ASSUME Working, Calendar!Next
  PROVE  /\ RowsTyped' /\ WorkersHold' /\ EventsHold'
<1>1. GoogleTyped' /\ GoogleGoesOn /\ old \subseteq old'
  BY GoogleMoves, OldGoesOn DEF Working
<1>2. ASSUME NEW w \in Workers, Calendar!Commit(w)
      PROVE  RowsTyped' /\ WorkersHold' /\ EventsHold'
  <2>1. google' = google
    BY <1>2 DEF Calendar!Commit
  <2> QED
    BY <1>2, <2>1, CommitHolds DEF Working, EventsHold
<1>3. CASE ~ \E w \in Workers : Calendar!Commit(w)
  <2>1. RowsTyped' /\ RowsGoOn
    BY <1>3, RowsMove DEF Working
  <2>2. EventsHold'
    BY <1>1, <2>1, EventsKept
  <2>3. ASSUME worker' = worker, holder' = holder PROVE WorkersHold'
    BY <1>1, <2>3, WorkersRest
  <2>4. ASSUME NEW w \in Workers, Calendar!Poll(w) \/ Calendar!Renew(w) \/
               Calendar!WorkerStep(w) PROVE WorkersHold'
    <3>1. Calendar!Renew(w) => worker' = worker /\ holder' = holder
      BY DEF Calendar!Renew, Calendar!syncVars
    <3> QED
      BY <1>3, <2>3, <2>4, <3>1, PollHolds, TryLockHolds, FetchHolds,
        CheckHolds, WriteHolds DEF Calendar!WorkerStep
  <2>5. ASSUME NEW p \in Calendar!Registrars,
               Calendar!ChannelStep(p) PROVE worker' = worker /\
                 holder' = holder
    BY <2>5 DEF Calendar!ChannelStep, Calendar!Open, Calendar!Record,
      Calendar!CloseOld, Calendar!CloseRecorded, Calendar!Forget,
      Calendar!syncVars
  <2>6. ASSUME Calendar!UserStep \/ Calendar!RequestDies PROVE WorkersHold'
    <3>1. worker' = worker /\ holder' = holder
      BY <2>6 DEF Calendar!UserStep, Calendar!Create, Calendar!Edit,
        Calendar!Delete, Calendar!Show, Calendar!ChooseMode,
        Calendar!Reconnect, Calendar!RequestDies, Calendar!syncVars
    <3> QED
      BY <2>3, <3>1
  <2>7. ASSUME NEW a \in Own,
               Calendar!CreateStep(a) PROVE worker' = worker /\
                 holder' = holder
    BY <2>7 DEF Calendar!CreateStep, Calendar!CreateSends,
      Calendar!CreateRecords, Calendar!CreateFails, Calendar!syncVars
  <2>8. ASSUME NEW r \in Reqs,
               Calendar!RequestStep(r) PROVE worker' = worker /\
                 holder' = holder
    BY <2>8 DEF Calendar!RequestStep, Calendar!EditSends,
      Calendar!EditRecords, Calendar!DeleteSends, Calendar!syncVars
  <2>9. ASSUME NEW g \in Gids, Calendar!GoogleAddsOrEdits(g) \/
               Calendar!GoogleDeletes(g) PROVE worker' = worker /\
                 holder' = holder
    BY <2>9 DEF Calendar!GoogleAddsOrEdits, Calendar!GoogleDeletes,
      Calendar!syncVars
  <2>10. ASSUME NEW n \in 1..MaxEdition, Calendar!Ages(n)
         PROVE  worker' = worker /\ holder' = holder
    BY <2>10 DEF Calendar!Ages, Calendar!syncVars
  <2>11. WorkersHold'
    BY <2>3, <2>4, <2>5, <2>6, <2>7, <2>8, <2>9, <2>10, WorkerDiesHolds
      DEF Calendar!Next
  <2> QED
    BY <2>1, <2>2, <2>11
<1> QED
  BY <1>2, <1>3

CalendarInv == Working /\ ChannelsHold

LEMMA CalendarStep == CalendarInv /\ [Calendar!Next]_(Calendar!vars) =>
  CalendarInv'
<1> SUFFICES ASSUME CalendarInv,
                    [Calendar!Next]_(Calendar!vars) PROVE CalendarInv'
  OBVIOUS
<1>1. CASE Calendar!Next
  <2>1. Working /\ Typed /\ ChannelsHold
    BY DEF CalendarInv, Working
  <2>2. GoogleTyped'
    BY <1>1, <2>1, GoogleMoves
  <2>3. RowsTyped' /\ WorkersHold' /\ EventsHold'
    BY <1>1, <2>1, WorkersMove
  <2>4. RequestsTyped'
    BY <1>1, <2>1, RequestsMove
  <2>5. (ChannelsTyped /\ ChannelsHold)'
    BY <1>1, <2>1, ChannelMoves
  <2>6. BoundsTyped'
    BY <1>1, <2>1, CountersMove, OldGoesOn, ApartMoves
      DEF BoundsTyped
  <2> QED
    BY <2>2, <2>3, <2>4, <2>5, <2>6 DEF CalendarInv, Working, Typed,
      WorkersHold
<1>2. CASE UNCHANGED Calendar!vars
  <2>1. ReadsHold'
    BY <1>2 DEF Calendar!vars, CalendarInv, Working, ReadsHold, Reads, Missed
  <2> QED
    BY <1>2, <2>1, Zenon DEF Calendar!vars, Calendar!appVars,
      Calendar!syncVars,
      Calendar!channelVars, Calendar!boundVars, CalendarInv, Working, Typed,
      GoogleTyped,
      HasLastMark, RowsTyped, RequestsTyped, WorkersTyped, ChannelsTyped,
      BoundsTyped, Exclusive, EventsHold,
      ChannelsHold, Calendar!RecordedChannelIsOpen
<1> QED
  BY <1>1, <1>2

LEMMA CalendarInit == Calendar!Init => CalendarInv
<1> SUFFICES ASSUME Calendar!Init PROVE CalendarInv
  OBVIOUS
<1> USE DEF Calendar!Init
<1>1. 0 \in Calendar!Titles /\ MaxRegisters \in Nat /\ None \notin Workers
  BY CA DEF Calendar!Titles, Calendar!CalendarAssumption
<1>2. GoogleTyped
  <2>1. google \in [Gids -> EventRow]
    BY <1>1 DEF EventRow
  <2>2. \A g \in Gids : google[g].mark = 0
    OBVIOUS
  <2>3. HasLastMark
    BY <2>2 DEF HasLastMark
  <2> QED
    BY <2>1, <2>3 DEF GoogleTyped
<1>3. RowsTyped
  BY NoRowIsTyped DEF RowsTyped
<1>4. RequestsTyped
  <2>1. making \in [Own -> MakingRow] /\ \A a \in Own : making[a].at = "new"
    BY <1>1 DEF MakingRow
  <2>2. req \in [Reqs -> RequestRow] /\ \A r \in Reqs : req[r].at = "idle"
    BY NoReqIsTyped
  <2> QED
    BY <2>1, <2>2 DEF RequestsTyped
<1>5. WorkersTyped /\ Exclusive /\ ReadsHold
  BY <1>1, RestingIsTyped, RestingReads DEF WorkersTyped, Exclusive, ReadsHold
<1>6. ChannelsTyped
  <2>1. opened \in 0..MaxRegisters /\
          sub \in [channel : 0..MaxRegisters, token : Nat]
    BY <1>1
  <2>2. live \subseteq 1..MaxRegisters
    BY <1>1
  <2> QED
    BY <2>1, <2>2, NoRegIsTyped DEF ChannelsTyped
<1>7. BoundsTyped
  BY <1>1 DEF BoundsTyped, Calendar!Modes
<1>8. EventsHold
  BY NoRowIsTyped DEF EventsHold, Calendar!Rows
<1>9. ChannelsHold
  <2>1. \A p \in Calendar!Registrars : reg[p].at = "idle"
    BY NoRegIsTyped
  <2>2. opened \in 0..1 /\ sub.channel = opened /\ live = 1..opened
    BY <1>1
  <2> QED
    BY <2>1, <2>2 DEF ChannelsHold, Calendar!RecordedChannelIsOpen
<1> HIDE DEF Calendar!Init
<1> QED
  BY <1>2, <1>3, <1>4, <1>5, <1>6, <1>7, <1>8, <1>9 DEF CalendarInv, Working,
    Typed

LEMMA CalendarTyped == CalendarInv => Calendar!TypeOK
<1> SUFFICES ASSUME CalendarInv PROVE Calendar!TypeOK
  OBVIOUS
<1>1. \A w \in Workers : /\ worker[w].at \in
                              {"idle", "ready", "locked", "applying",
                                "writing"}
                         /\ worker[w].todo \cup
                              worker[w].staged \subseteq DOMAIN worker[w].got
  BY DEF CalendarInv, Working, Typed, WorkersTyped, WorkerRow, ReadsHold, Reads
<1>2. holder # None => worker[holder].at \in {"locked", "applying", "writing"}
  BY DEF CalendarInv, Working, Typed, WorkersTyped, Exclusive
<1> QED
  BY <1>1, <1>2 DEF Calendar!TypeOK, CalendarInv, Working, Typed, GoogleTyped,
    EventRow, RowsTyped, CalendarRow,
     RequestsTyped, MakingRow, RequestRow, WorkersTyped, ChannelsTyped,
     RegRow, BoundsTyped

LEMMA VisibilityStep ==
  ASSUME CalendarInv, [Calendar!Next]_(Calendar!vars), NEW g \in Gids,
         row[g].there, Calendar!Present(g),
         ~ Calendar!ChangedSinceMissed(g), ~ Calendar!DeletedInApp(g)
  PROVE  /\ row'[g].there
         /\ (row'[g].type = row[g].type \/ Calendar!ShownInApp(g))
<1>1. CASE UNCHANGED Calendar!vars
  BY <1>1 DEF Calendar!vars, Calendar!appVars
<1>2. ASSUME NEW w \in Workers,
             Calendar!Commit(w) PROVE row'[g].there /\
               row'[g].type = row[g].type
  BY <1>2, CommitRows DEF CalendarInv
<1>3. CASE RowsGoOn
  BY <1>3 DEF RowsGoOn
<1> QED
  BY <1>1, <1>2, <1>3, RowsMove DEF CalendarInv, Working

-----------------------------------------------------------------------------
(* What holds of the calendar                                              *)

LEMMA CalendarInvAlways == Calendar!Spec => []CalendarInv
BY CalendarInit, CalendarStep, PTL DEF Calendar!Spec

(* Every variable has its type, a worker writes only what it has read, and *)
(* who holds the advisory lock synchronises.                               *)
THEOREM CalendarTypes == Calendar!Spec => []Calendar!TypeOK
BY CalendarInvAlways, CalendarTyped, PTL

(* However requests, Google's changes, readings of all events and of the   *)
(* changed ones, expired tokens and dead workers follow each other, no     *)
(* synchronisation takes away the row of an event that Google has, or      *)
(* changes who sees it, but for an event that Google moved to a time long  *)
(* past, and one that changed after a reading of all that did not find it  *)
(* (sync_tenant_from_google, upsert_from_google).                          *)
THEOREM VisibilityStays == Calendar!Spec => Calendar!VisibilityIsKept
<1>1. CalendarInv /\ [Calendar!Next]_(Calendar!vars) =>
        [\A g \in Gids :
           /\ row[g].there /\ Calendar!Present(g)
           /\ ~ Calendar!ChangedSinceMissed(g) /\ ~ Calendar!DeletedInApp(g)
           => /\ row'[g].there
              /\ row'[g].type = row[g].type
                   \/ Calendar!ShownInApp(g)]_(Calendar!vars)
  BY VisibilityStep
<1> QED
  BY <1>1, CalendarInvAlways, PTL DEF Calendar!Spec, Calendar!VisibilityIsKept

(* However registrations, replacements and stops of channels overlap, the  *)
(* recorded channel is open, unless it is being closed or a call or a      *)
(* process has failed (register_webhook, stop_webhook).                    *)
THEOREM RecordedChannelStaysOpen ==
  Calendar!Spec => []Calendar!RecordedChannelIsOpen
<1>1. CalendarInv => Calendar!RecordedChannelIsOpen
  BY DEF CalendarInv, ChannelsHold
<1> QED
  BY <1>1, CalendarInvAlways, PTL

-----------------------------------------------------------------------------
(* What the workers bring about                                            *)

(* The parts leave each other alone.                                       *)
LEMMA UpkeepRuns == Upkeep => Spec /\ Calendar!Spec /\ [](part \in Parts)
<1>1. InitOfPart => Init /\ Calendar!Init /\ part \in Parts
  BY DEF InitOfPart
<1>2. [NextOfPart]_<<part, vars, calendarVars>> =>
        [Next]_vars /\ [Calendar!Next]_(Calendar!vars) /\ part' = part
  <2> SUFFICES ASSUME [NextOfPart]_<<part, vars, calendarVars>>
               PROVE  [Next]_vars /\ [Calendar!Next]_(Calendar!vars) /\
                        part' = part
    OBVIOUS
  <2>1. UNCHANGED calendarVars => UNCHANGED Calendar!vars
    BY DEF calendarVars, Calendar!vars, Calendar!appVars, Calendar!syncVars,
           Calendar!channelVars, Calendar!boundVars
  <2> QED
    BY <2>1 DEF NextOfPart, Distributing, Reading
<1>3. part \in Parts /\ part' = part => (part \in Parts)'
  BY DEF Parts
<1> QED
  BY <1>1, <1>2, <1>3, PTL DEF Upkeep, Spec, Calendar!Spec

(* Every variable of the part that runs has its type.                      *)
THEOREM UpkeepTypes == Upkeep => []TypesOK
<1>1. part \in Parts /\ TypeOK /\ Calendar!TypeOK => TypesOK
  BY DEF TypesOK
<1> QED
  BY <1>1, UpkeepRuns, TypeCorrect, CalendarTypes, PTL

=============================================================================
