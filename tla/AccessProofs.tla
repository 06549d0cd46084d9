---------------------------- MODULE AccessProofs ----------------------------
(***************************************************************************)
(* Theorems about what users may do, for any number of requests, codes,    *)
(* tokens, handlers and failures: logins from a machine that has to be     *)
(* approved (LoginApproval), sessions (RefreshTokens), the entries that    *)
(* both give, the budget (LlmBudget), invitations of staff (StaffJoin),    *)
(* and answers to customers (Inbox).                                       *)
(***************************************************************************)
EXTENDS MCAccess, Sequences, FiniteSetTheorems, TLAPS

(* The theorems about LlmBudget, for the parts "budget" and "months".      *)
BudgetProofs == INSTANCE LlmBudgetProofs
                  WITH Messages <- Translated, HardStops <- {"yes"},
                       Limits <- {100, 200}, Costs <- CostsOfCalls,
                       MaxMonth <- 0, proc <- translation
MonthsProofs == INSTANCE LlmBudgetProofs
                  WITH Messages <- Translated, HardStops <- {"yes", "no"},
                       Limits <- {0, 100, 200}, Costs <- CostsOfCalls,
                       MaxMonth <- 2, Procs <- OneProc, proc <- translation

-----------------------------------------------------------------------------
(* The inductive invariant                                                 *)

(* Whoever works on a request has one.                                     *)
HasRequest ==
  \A p \in Procs : proc[p].step \in {"poll", "code", "opened", "decide"} =>
    proc[p].id \in Requests

(* A machine was let in once when its request is completed, and never      *)
(* before.                                                                 *)
InWhenCompleted ==
  \A r \in Requests :
    /\ entered[r] \in {0, 1}
    /\ entered[r] = 1 => status[r] = "completed"
    /\ machine[r] = "in" => entered[r] = 1
    /\ status[r] \in {"approved", "completed"} => via[r] # "none"

(* A code that is being used is valid and in one transaction; one that was *)
(* used and the request it opened name each other.                         *)
CodesAreHeld ==
  /\ \A p \in Procs : Approval!At(p, "opened") =>
       /\ proc[p].entry \in Codes /\ code[proc[p].entry] = "valid"
       /\ \A q \in Procs :
            Approval!At(q, "opened") /\ proc[q].entry = proc[p].entry => q = p
  /\ \A c \in Codes : IF code[c] = "used" THEN usedFor[c] \in Requests
                                          ELSE usedFor[c] = None
  /\ \A c \in Codes : usedFor[c] \in Requests =>
       status[usedFor[c]] = "completed" /\ via[usedFor[c]] = "recovery_code"
  /\ \A c, d \in Codes : usedFor[c] = usedFor[d] /\ usedFor[c] \in Requests =>
       c = d
  /\ \A r \in Requests : via[r] = "recovery_code" =>
       status[r] = "completed" /\ \E c \in Codes : usedFor[c] = r

(* A request with too many wrong codes is closed, and others may count on. *)
WrongAreCounted ==
  \A r \in Requests : wrong[r] >= MaxWrong => status[r] = "rejected"

LoginInv ==
  /\ Approval!TypeOK /\ HasRequest /\ InWhenCompleted /\ CodesAreHeld
  /\ WrongAreCounted

-----------------------------------------------------------------------------
(* Types                                                                   *)

LEMMA LoginTypesHold ==
  ASSUME Approval!TypeOK, HasRequest, WrongAreCounted,
         [Approval!Next]_Approval!vars
  PROVE  Approval!TypeOK'
<1> USE ApprovalAssumption
    DEF Approval!CodesAssumption, Approval!LimitsAssumption, Approval!TypeOK,
        Approval!rows,
            Approval!Status, Approval!End, Approval!At
<1>1. CASE UNCHANGED Approval!vars
  BY <1>1 DEF Approval!vars
<1>2. Approval!Idle \in Approval!Process
  BY DEF Approval!Idle, Approval!Process, Approval!Decisions
<1>3. ASSUME NEW r \in Requests, NEW step \in {"poll", "code", "decide"}
      PROVE  \A p : Approval!Read(p, r, step) \in Approval!Process
  BY <1>3 DEF Approval!Read, Approval!Idle, Approval!Process,
    Approval!Decisions
<1>4. ASSUME NEW p \in Procs, Approval!CountRequests(p) PROVE Approval!TypeOK'
  BY <1>4 DEF Approval!CountRequests, Approval!Process, Approval!Idle,
    Approval!Decisions
<1>5. ASSUME NEW p \in Procs, Approval!InsertRequest(p) PROVE Approval!TypeOK'
  BY <1>2, <1>5 DEF Approval!InsertRequest
<1>6. ASSUME NEW p \in Procs, NEW r \in Requests, Approval!PollRead(p, r)
      PROVE  Approval!TypeOK'
  BY <1>3, <1>6 DEF Approval!PollRead
<1>7. ASSUME NEW p \in Procs, NEW r \in Requests, Approval!EnterCode(p, r)
      PROVE  Approval!TypeOK'
  <2>1. PICK c \in Codes \cup {None} :
          proc' = [proc EXCEPT ![p] = [Approval!Read(p, r,
            "code") EXCEPT !.entry = c]]
    BY <1>7 DEF Approval!EnterCode
  <2>2. [Approval!Read(p, r, "code") EXCEPT !.entry = c] \in Approval!Process
    BY <1>3 DEF Approval!Process
  <2> QED
    BY <1>7, <2>1, <2>2 DEF Approval!EnterCode
<1>8. ASSUME NEW p \in Procs, NEW r \in Requests, Approval!BeginDecision(p, r)
      PROVE  Approval!TypeOK'
  <2>1. PICK d \in Approval!Decisions :
          proc' = [proc EXCEPT ![p] = [Approval!Read(p, r,
            "decide") EXCEPT !.decision = d]]
    BY <1>8 DEF Approval!BeginDecision
  <2>2. [Approval!Read(p, r, "decide") EXCEPT !.decision = d] \in
          Approval!Process
    BY <1>3 DEF Approval!Process
  <2> QED
    BY <1>8, <2>1, <2>2 DEF Approval!BeginDecision
<1>9. ASSUME NEW p \in Procs,
             \/ Approval!PollExpires(p) \/ Approval!PollWaits(p)
             \/ Approval!PollClosed(p) \/ Approval!PollTooLate(p)
      PROVE  Approval!TypeOK'
  BY <1>2, <1>9 DEF Approval!PollExpires, Approval!PollWaits,
    Approval!PollClosed, Approval!PollTooLate, Approval!SendAway
<1>10. ASSUME NEW r \in Requests, Approval!LetIn(r)
       PROVE  /\ entered' \in [Requests -> Nat] /\
                   faults' \in 0..MaxLoginFaults
              /\ machine' \in [Requests -> {"none", "waiting", "in", "out"}]
  <2>1. entered' \in [Requests -> Nat]
    BY <1>10 DEF Approval!LetIn
  <2>2. faults' \in 0..MaxLoginFaults
    BY <1>10 DEF Approval!LetIn
  <2>3. machine' \in [Requests -> {"none", "waiting", "in", "out"}]
    BY <1>10 DEF Approval!LetIn
  <2> QED
    BY <2>1, <2>2, <2>3
<1>11. ASSUME NEW p \in Procs, Approval!PollEnters(p) PROVE Approval!TypeOK'
  <2>1. /\ entered' \in [Requests -> Nat] /\ faults' \in 0..MaxLoginFaults
        /\ machine' \in [Requests -> {"none", "waiting", "in", "out"}]
    BY <1>10, <1>11 DEF Approval!PollEnters, Approval!SendAway, HasRequest
  <2> QED
    BY <1>2, <1>11, <2>1 DEF Approval!PollEnters
<1>12. ASSUME NEW p \in Procs, Approval!VerifyCode(p) PROVE Approval!TypeOK'
  <2>1. [proc[p] EXCEPT !.step = "opened"] \in Approval!Process
    BY DEF Approval!Process
  <2> QED
    BY <1>12, <2>1 DEF Approval!VerifyCode
<1>13. ASSUME NEW p \in Procs, Approval!WrongCode(p) PROVE Approval!TypeOK'
  <2>1. /\ wrong' \in [Requests -> 0..MaxWrong]
        /\ status' \in [Requests -> Approval!Status]
    <3>1. proc[p].id \in Requests
      BY <1>13 DEF Approval!WrongCode, HasRequest
    <3>2. status[proc[p].id] = "pending" =>
            wrong[proc[p].id] + 1 \in 0..MaxWrong
      BY <3>1 DEF WrongAreCounted
    <3> QED
      BY <1>13, <3>1, <3>2 DEF Approval!WrongCode, Approval!CountWrong
  <2> QED
    BY <1>2, <1>13, <2>1 DEF Approval!WrongCode
<1>14. ASSUME NEW p \in Procs, Approval!OpenByCode(p) PROVE Approval!TypeOK'
  <2>1. proc[p].id \in Requests
    BY <1>14 DEF Approval!OpenByCode, HasRequest
  <2> QED
    BY <1>2, <1>10, <1>14, <2>1 DEF Approval!OpenByCode
<1>15. ASSUME NEW p \in Procs,
              Approval!OpenTooLate(p) \/ Approval!DecideNothing(p)
       PROVE  Approval!TypeOK'
  BY <1>2, <1>15 DEF Approval!OpenTooLate, Approval!GiveBack,
    Approval!DecideNothing
<1>16. ASSUME NEW p \in Procs, Approval!Decide(p) PROVE Approval!TypeOK'
  BY <1>2, <1>16 DEF Approval!Decide
<1>17. ASSUME NEW p \in Procs, Approval!Fail(p) PROVE Approval!TypeOK'
  BY <1>2, <1>17 DEF Approval!Fail
<1>18. ASSUME NEW r \in Requests,
              Approval!AskAdmin(r) \/ Approval!TimePasses(r)
       PROVE  Approval!TypeOK'
  BY <1>18 DEF Approval!AskAdmin, Approval!TimePasses
<1>19. CASE Approval!NewCodes \/ Approval!ExpireLoginRequests \/
              Approval!Deactivate
  BY <1>19 DEF Approval!NewCodes, Approval!ExpireLoginRequests,
    Approval!Deactivate
<1>20. ASSUME NEW p \in Procs, Approval!Step(p) PROVE Approval!TypeOK'
  BY <1>5, <1>9, <1>11, <1>12, <1>13, <1>14, <1>15, <1>16, <1>20
    DEF Approval!Step
<1> HIDE DEF Approval!TypeOK
<1> QED
  BY <1>1, <1>4, <1>6, <1>7, <1>8, <1>17, <1>18, <1>19, <1>20 DEF Approval!Next

(* What the process of a handler becomes, and those of others stay.        *)
LEMMA Processes ==
  ASSUME Approval!TypeOK, [Approval!Next]_Approval!vars, NEW p \in Procs
  PROVE  \/ proc'[p] = proc[p]
         \/ proc'[p] = Approval!Idle
         \/ proc'[p].step = "insert"
         \/ proc'[p].id \in Requests /\
              proc'[p].step \in {"poll", "code", "decide"}
         \/ Approval!VerifyCode(p)
<1> USE DEF Approval!TypeOK, Approval!Process,
      Approval!At, Approval!End
<1>1. CASE proc' = proc
  BY <1>1
<1>2. ASSUME NEW q \in Procs, Approval!End(q)
      PROVE  proc'[p] = proc[p] \/ proc'[p] = Approval!Idle
  BY <1>2
<1>3. ASSUME NEW q \in Procs, Approval!CountRequests(q)
      PROVE  proc'[p] = proc[p] \/ proc'[p].step = "insert"
  BY <1>3 DEF Approval!CountRequests, Approval!Idle
<1>4. ASSUME NEW q \in Procs, NEW r \in Requests, NEW x,
             x.id = r, x.step \in {"poll", "code", "decide"},
             proc' = [proc EXCEPT ![q] = x]
      PROVE  \/ proc'[p] = proc[p]
             \/ proc'[p].id \in Requests /\
                  proc'[p].step \in {"poll", "code", "decide"}
  BY <1>4
<1>5. ASSUME NEW q \in Procs, NEW r \in Requests,
             Approval!PollRead(q, r) \/ Approval!EnterCode(q, r) \/
               Approval!BeginDecision(q, r)
      PROVE  \E x : /\ x.id = r /\ x.step \in {"poll", "code", "decide"}
                    /\ proc' = [proc EXCEPT ![q] = x]
  BY <1>5 DEF Approval!PollRead, Approval!EnterCode, Approval!BeginDecision,
    Approval!Read, Approval!Idle
<1>6. ASSUME NEW q \in Procs, Approval!VerifyCode(q)
      PROVE  proc'[p] = proc[p] \/ Approval!VerifyCode(p)
  BY <1>6 DEF Approval!VerifyCode
<1>7. ASSUME NEW q \in Procs, Approval!Step(q) \/ Approval!Fail(q)
      PROVE  Approval!VerifyCode(q) \/ Approval!End(q)
  BY <1>7 DEF Approval!Step, Approval!Fail, Approval!InsertRequest,
    Approval!PollExpires, Approval!PollWaits, Approval!PollClosed,
    Approval!PollEnters, Approval!PollTooLate, Approval!WrongCode,
    Approval!OpenByCode, Approval!OpenTooLate, Approval!Decide,
    Approval!DecideNothing
<1> QED
  BY <1>1, <1>2, <1>3, <1>4, <1>5, <1>6, <1>7
  DEF Approval!Next, Approval!vars, Approval!AskAdmin, Approval!TimePasses,
    Approval!NewCodes, Approval!ExpireLoginRequests, Approval!Deactivate

LEMMA RequestsStayNamed ==
  ASSUME Approval!TypeOK, HasRequest, [Approval!Next]_Approval!vars
  PROVE  HasRequest'
<1> SUFFICES ASSUME NEW p \in Procs,
                    proc'[p].step \in {"poll", "code", "opened", "decide"}
             PROVE  proc'[p].id \in Requests
  BY DEF HasRequest
<1>1. CASE Approval!VerifyCode(p)
  BY <1>1 DEF Approval!VerifyCode, Approval!At, HasRequest, Approval!TypeOK,
    Approval!Process
<1> QED
  BY <1>1, Processes DEF HasRequest, Approval!Idle

-----------------------------------------------------------------------------
(* What a step does to the requests                                        *)

(* The steps that write a request, its machine or a code.                  *)
LEMMA Effects ==
  ASSUME [Approval!Next]_Approval!vars
  PROVE  \/ \E p \in Procs :
              \/ Approval!InsertRequest(p) \/ Approval!PollExpires(p) \/
                   Approval!PollClosed(p)
              \/ Approval!PollEnters(p) \/ Approval!PollTooLate(p) \/
                                             Approval!WrongCode(p)
              \/ Approval!OpenByCode(p) \/ Approval!Decide(p)
         \/ Approval!NewCodes \/ Approval!ExpireLoginRequests
         \/ UNCHANGED <<status, via, wrong, entered, machine, code, usedFor>>
<1> DEFINE Rests == UNCHANGED <<status, via, wrong, entered, machine, code,
      usedFor>>
<1>1. ASSUME NEW p \in Procs,
             \/ Approval!CountRequests(p) \/ Approval!Fail(p)
             \/ \E r \in Requests : \/ Approval!PollRead(p, r)
                                   \/ Approval!EnterCode(p, r)
                                   \/ Approval!BeginDecision(p, r)
      PROVE  Rests
  BY <1>1 DEF Approval!CountRequests, Approval!PollRead, Approval!EnterCode,
    Approval!BeginDecision, Approval!Fail, Approval!rows
<1>2. ASSUME NEW p \in Procs,
             \/ Approval!PollWaits(p) \/ Approval!VerifyCode(p)
             \/ Approval!OpenTooLate(p) \/ Approval!DecideNothing(p)
      PROVE  Rests \/ Approval!WrongCode(p) \/ Approval!OpenByCode(p)
  BY <1>2 DEF Approval!PollWaits, Approval!VerifyCode, Approval!OpenTooLate,
    Approval!DecideNothing, Approval!GiveBack, Approval!rows
<1>3. ASSUME Approval!Deactivate \/ \E r \in Requests : \/ Approval!AskAdmin(r)
                                                     \/ Approval!TimePasses(r)
      PROVE  Rests
  BY <1>3 DEF Approval!Deactivate, Approval!AskAdmin, Approval!TimePasses,
    Approval!rows
<1>4. CASE UNCHANGED Approval!vars
  BY <1>4 DEF Approval!vars
<1> HIDE DEF Rests
<1>5. ASSUME NEW p \in Procs, Approval!Step(p)
      PROVE  \/ Rests
             \/ Approval!InsertRequest(p) \/ Approval!PollExpires(p) \/
                  Approval!PollClosed(p)
             \/ Approval!PollEnters(p) \/ Approval!PollTooLate(p) \/
                                            Approval!WrongCode(p)
             \/ Approval!OpenByCode(p) \/ Approval!Decide(p)
  BY <1>2, <1>5 DEF Approval!Step
<1> QED
  BY <1>1, <1>3, <1>4, <1>5 DEF Approval!Next, Rests

(* What was decided stays decided.                                         *)
LEMMA DecisionsStay ==
  ASSUME Approval!TypeOK, HasRequest, [Approval!Next]_Approval!vars,
         NEW r \in Requests,
         status'[r] # status[r]
  PROVE  \/ status[r] \in {"unused", "pending"}
         \/ status[r] = "approved" /\ status'[r] = "completed"
<1> USE DEF Approval!TypeOK, Approval!At, Approval!StillApproved,
      Approval!StillPending, Approval!Decidable
<1>1. ASSUME NEW p \in Procs,
             Approval!InsertRequest(p) \/ Approval!PollExpires(p) \/
                                            Approval!PollEnters(p)
               \/ Approval!OpenByCode(p) \/ Approval!Decide(p)
      PROVE  \/ status[r] \in {"unused", "pending"}
             \/ status[r] = "approved" /\ status'[r] = "completed"
  BY <1>1 DEF Approval!InsertRequest, Approval!PollExpires,
    Approval!PollEnters, Approval!OpenByCode, Approval!Decide
<1>2. ASSUME NEW p \in Procs, Approval!WrongCode(p) PROVE status[r] = "pending"
  BY <1>2 DEF Approval!WrongCode, Approval!CountWrong
<1>3. ASSUME Approval!ExpireLoginRequests PROVE status[r] = "pending"
  BY <1>3 DEF Approval!ExpireLoginRequests
<1> QED
  BY <1>1, <1>2, <1>3, Effects DEF Approval!PollClosed, Approval!PollTooLate,
    Approval!NewCodes, Approval!rows

LEMMA MachinesStayEarned ==
  ASSUME Approval!TypeOK, HasRequest, InWhenCompleted,
         [Approval!Next]_Approval!vars
  PROVE  InWhenCompleted'
<1> USE DEF Approval!TypeOK, InWhenCompleted, Approval!At, Approval!rows,
      Approval!StillApproved, Approval!StillPending
<1>1. ASSUME NEW p \in Procs, Approval!InsertRequest(p) PROVE InWhenCompleted'
  BY <1>1 DEF Approval!InsertRequest
<1>2. ASSUME NEW p \in Procs, Approval!PollExpires(p) PROVE InWhenCompleted'
  BY <1>2 DEF Approval!PollExpires, Approval!SendAway
<1>3. ASSUME NEW p \in Procs, Approval!PollClosed(p) \/ Approval!PollTooLate(p)
      PROVE  InWhenCompleted'
  BY <1>3 DEF Approval!PollClosed, Approval!PollTooLate, Approval!SendAway
<1>4. ASSUME NEW p \in Procs, Approval!PollEnters(p) PROVE InWhenCompleted'
  <2> DEFINE r == proc[p].id
  <2>1. /\ r \in Requests /\ entered[r] = 0 /\ via[r] # "none"
        /\ status' = [status EXCEPT ![r] = "completed"] /\ via' = via
    BY <1>4 DEF Approval!PollEnters, HasRequest
  <2>2. CASE Approval!LetIn(r)
    BY <2>1, <2>2 DEF Approval!LetIn
  <2>3. CASE Approval!SendAway(r) /\ entered' = entered
    BY <2>1, <2>3 DEF Approval!SendAway
  <2> QED
    BY <1>4, <2>2, <2>3 DEF Approval!PollEnters
<1>5. ASSUME NEW p \in Procs, Approval!WrongCode(p) PROVE InWhenCompleted'
  BY <1>5 DEF Approval!WrongCode, Approval!CountWrong
<1>6. ASSUME NEW p \in Procs, Approval!OpenByCode(p) PROVE InWhenCompleted'
  <2> DEFINE r == proc[p].id
  <2>1. /\ r \in Requests /\ entered[r] = 0
        /\ status' = [status EXCEPT ![r] = "completed"]
        /\ via' = [via EXCEPT ![r] = "recovery_code"] /\ Approval!LetIn(r)
    BY <1>6 DEF Approval!OpenByCode, HasRequest
  <2> QED
    BY <2>1 DEF Approval!LetIn
<1>7. ASSUME NEW p \in Procs, Approval!Decide(p) PROVE InWhenCompleted'
  BY <1>7 DEF Approval!Decide, Approval!Decidable
<1>8. CASE Approval!ExpireLoginRequests
  BY <1>8 DEF Approval!ExpireLoginRequests
<1>9. CASE UNCHANGED <<status, via, entered, machine>>
  BY <1>9
<1> QED
  BY <1>1, <1>2, <1>3, <1>4, <1>5, <1>6, <1>7, <1>8, <1>9, Effects
    DEF Approval!NewCodes

LEMMA WrongStayCounted ==
  ASSUME Approval!TypeOK, HasRequest, WrongAreCounted,
         [Approval!Next]_Approval!vars
  PROVE  WrongAreCounted'
<1> USE DEF Approval!TypeOK, WrongAreCounted
<1>1. ASSUME NEW p \in Procs, Approval!WrongCode(p) PROVE WrongAreCounted'
  <2>1. proc[p].id \in Requests
    BY <1>1 DEF Approval!WrongCode, Approval!At, HasRequest
  <2> QED
    BY <1>1, <2>1 DEF Approval!WrongCode, Approval!CountWrong
<1>2. CASE wrong' = wrong
  <2> SUFFICES ASSUME NEW r \in Requests, wrong[r] >= MaxWrong
               PROVE  status'[r] = "rejected"
    BY <1>2
  <2>1. status[r] = "rejected"
    OBVIOUS
  <2> QED
    BY <2>1, DecisionsStay
<1> QED
  BY <1>1, <1>2, Effects
  DEF Approval!InsertRequest, Approval!PollExpires, Approval!PollClosed,
    Approval!PollEnters, Approval!PollTooLate,
    Approval!OpenByCode, Approval!Decide, Approval!NewCodes,
    Approval!ExpireLoginRequests, Approval!rows

-----------------------------------------------------------------------------
(* The recovery codes                                                      *)

OpenedAreValid ==
  \A p \in Procs : Approval!At(p, "opened") =>
    /\ proc[p].entry \in Codes /\ code[proc[p].entry] = "valid"
    /\ \A q \in Procs :
         Approval!At(q, "opened") /\ proc[q].entry = proc[p].entry => q = p

LEMMA CodesStayHeld ==
  ASSUME Approval!TypeOK, HasRequest, CodesAreHeld,
         [Approval!Next]_Approval!vars
  PROVE  OpenedAreValid'
<1> USE DEF Approval!TypeOK,
      Approval!At, OpenedAreValid
<1>1. OpenedAreValid
  BY DEF CodesAreHeld
<1>2. ASSUME NEW p \in Procs, Approval!VerifyCode(p) PROVE OpenedAreValid'
  <2>1. /\ proc[p].entry \in Codes /\ code[proc[p].entry] = "valid"
        /\ \A q \in Procs : Approval!At(q, "opened") =>
             proc[q].entry # proc[p].entry
    BY <1>2 DEF Approval!VerifyCode, Approval!Holder, Approval!Process
  <2>2. /\ code' = code
        /\ \A q \in Procs : /\ proc'[q].entry = proc[q].entry
                            /\ q # p => proc'[q] = proc[q]
    BY <1>2 DEF Approval!VerifyCode, Approval!Process
  <2> QED
    BY <1>1, <2>1, <2>2
<1>3. ASSUME ~ \E p \in Procs : Approval!VerifyCode(p), NEW q \in Procs,
             Approval!At(q, "opened")'
      PROVE  proc'[q] = proc[q]
  BY <1>3, Processes DEF Approval!Idle
<1>4. CASE (~ \E p \in Procs : Approval!VerifyCode(p)) /\ code' = code
  BY <1>1, <1>3, <1>4
<1>5. ASSUME NEW p \in Procs, Approval!OpenByCode(p) PROVE OpenedAreValid'
  <2>1. /\ proc'[p] = Approval!Idle
        /\ code' = [code EXCEPT ![proc[p].entry] = "used"]
    BY <1>5 DEF Approval!OpenByCode, Approval!End
  <2>2. \A q \in Procs : Approval!At(q, "opened")' =>
          q # p /\ proc'[q] = proc[q]
    BY <1>5, <2>1 DEF Approval!OpenByCode, Approval!End, Approval!Idle
  <2>3. \A q \in Procs : q # p /\ Approval!At(q, "opened") =>
          proc[q].entry # proc[p].entry
    BY <1>1, <1>5 DEF Approval!OpenByCode
  <2> QED
    BY <1>1, <2>1, <2>2, <2>3
<1>6. CASE Approval!NewCodes
  <2>1. \A c \in Codes : code[c] = "valid" => Approval!Holder(c) = {}
    BY <1>6 DEF Approval!NewCodes
  <2>2. \A q \in Procs : ~ Approval!At(q, "opened")
    BY <1>1, <2>1 DEF Approval!Holder
  <2> QED
    BY <1>6, <2>2 DEF Approval!NewCodes
<1> QED
  BY <1>2, <1>4, <1>5, <1>6, Effects
  DEF Approval!InsertRequest, Approval!PollExpires, Approval!PollClosed,
    Approval!PollEnters, Approval!PollTooLate,
    Approval!WrongCode, Approval!Decide, Approval!ExpireLoginRequests,
    Approval!rows

LEMMA CodesStayUsed ==
  ASSUME Approval!TypeOK, HasRequest, CodesAreHeld,
         [Approval!Next]_Approval!vars
  PROVE  CodesAreHeld'
<1> USE ApprovalAssumption DEF Approval!TypeOK, Approval!CodesAssumption
<1>1. OpenedAreValid'
  BY CodesStayHeld
<1>2. ASSUME UNCHANGED <<code, usedFor>>,
             \A r \in Requests : via'[r] # via[r] =>
               status[r] = "pending" /\ via'[r] # "recovery_code"
      PROVE  CodesAreHeld'
  <2>1. \A r \in Requests : status[r] = "completed" => status'[r] = "completed"
    BY DecisionsStay
  <2>2. \A r \in Requests :
          via'[r] = "recovery_code" <=> via[r] = "recovery_code"
    BY <1>2 DEF CodesAreHeld
  <2> QED
    BY <1>1, <1>2, <2>1, <2>2 DEF CodesAreHeld, OpenedAreValid
<1>3. ASSUME NEW p \in Procs, Approval!OpenByCode(p) PROVE CodesAreHeld'
  <2> DEFINE r == proc[p].id
             c == proc[p].entry
  <2>1. /\ r \in Requests /\ c \in Codes /\ status[r] = "pending"
        /\ code[c] = "valid"
    BY <1>3 DEF Approval!OpenByCode, CodesAreHeld, HasRequest, Approval!At,
      Approval!StillPending
  <2>2. /\ status' = [status EXCEPT ![r] = "completed"]
        /\ via' = [via EXCEPT ![r] = "recovery_code"]
        /\ code' = [code EXCEPT ![c] = "used"]
        /\ usedFor' = [usedFor EXCEPT ![c] = r]
    BY <1>3 DEF Approval!OpenByCode
  <2>3. \A d \in Codes : usedFor[d] # r
    BY <2>1 DEF CodesAreHeld
  <2> HIDE DEF r, c
  <2> QED
    BY <1>1, <2>1, <2>2, <2>3 DEF CodesAreHeld, OpenedAreValid
<1>4. CASE Approval!NewCodes
  BY <1>1, <1>4 DEF Approval!NewCodes, CodesAreHeld, OpenedAreValid,
    Approval!rows
<1>5. ASSUME NEW p \in Procs, Approval!Decide(p)
      PROVE  /\ UNCHANGED <<code, usedFor>>
             /\ \A r \in Requests : via'[r] # via[r] =>
                  status[r] = "pending" /\ via'[r] # "recovery_code"
  BY <1>5 DEF Approval!Decide, Approval!Decidable
<1> QED
  BY <1>2, <1>3, <1>4, <1>5, Effects
  DEF Approval!InsertRequest, Approval!PollExpires, Approval!PollClosed,
    Approval!PollEnters, Approval!PollTooLate,
    Approval!WrongCode, Approval!ExpireLoginRequests, Approval!rows

-----------------------------------------------------------------------------
(* The sessions                                                            *)

USE NoneAssumption, BoundsAssumption

-----------------------------------------------------------------------------
(* The inductive invariant                                                 *)

(* A row has a family as soon as it is used, and begins with the family.   *)
RowsHaveFamilies ==
  \A t \in Tokens : tok[t].state = "unused" <=> tok[t].family = None

(* The row a refresh has locked is live, and nobody else's.                *)
LocksAreHeld ==
  \A r \in Reqs :
    /\ req[r].locked # None =>
         /\ Live(req[r].locked)
         /\ req[r].step \in {"user", "device", "commit", "revoking"}
    /\ req[r].step \in {"user", "device", "commit"} => req[r].locked # None
    /\ \A s \in Reqs : req[r].locked = req[s].locked =>
         r = s \/ req[r].locked = None

(* The row it has inserted and not committed continues the family.         *)
NewRowsContinue ==
  \A r \in Reqs :
    /\ req[r].new # None =>
         /\ tok[req[r].new].state = "unused"
         /\ req[r].locked # None
         /\ req[r].step \in {"device", "commit", "revoking"}
         /\ req[r].row.state = "live"
         /\ req[r].row.family = tok[req[r].locked].family
         /\ req[r].row.start = tok[req[r].locked].start
    /\ req[r].step \in {"device", "commit"} => req[r].new # None
    /\ \A s \in Reqs : req[r].new = req[s].new => r = s \/ req[r].new = None

(* A refresh was given, and a revocation has seen, rows that were used.    *)
OnlyUsedRowsAreSeen ==
  \A r \in Reqs :
    /\ req[r].step = "rotating" =>
         req[r].given \in Tokens /\ tok[req[r].given].state # "unused"
    /\ req[r].seen # {} => req[r].step = "revoking"
    /\ \A t \in req[r].seen : tok[t].state # "unused"

OneLiveRow ==
  \A t, u \in Tokens :
    Live(t) /\ Live(u) /\ tok[t].family = tok[u].family => t = u

(* Why a revocation ends a family nobody was rotating: the row it has seen *)
(* is still live and not locked, or somebody else has ended the family.    *)
SeenRowsWait ==
  \A r \in Reqs : \A t \in req[r].seen :
    tok[t].family \notin raced =>
      (Live(t) /\ ~ Locked(t)) \/ LiveOf(tok[t].family) = {}

EndedWereBorn == \A f \in ended : ~ Unborn(f)

IInv ==
  /\ TypeOK
  /\ RowsHaveFamilies /\ LocksAreHeld /\ NewRowsContinue
  /\ OnlyUsedRowsAreSeen /\ OneLiveRow /\ NoFamilyOutlivesItsLimit
  /\ SeenRowsWait /\ EndedWereBorn /\ RevocationHolds

-----------------------------------------------------------------------------
(* The type invariant                                                      *)

LEMMA TypeInit == Init => TypeOK
BY DEF Init, TypeOK, Time, Row, Unused, Request, Idle

LEMMA IdleType == Idle \in Request
BY DEF Idle, Request, Row, Unused, Time

LEMMA BegunType ==
  ASSUME TypeOK, NEW f \in Families, NEW start \in Time,
         NEW d \in Devices \cup {None}
  PROVE  Begun(f, start, d) \in Row
BY DEF Begun, Row, TypeOK

LEMMA RevokedType ==
  ASSUME TypeOK, NEW ts
  PROVE  Revoked(ts) \in [Tokens -> Row]
BY DEF Revoked, Row, TypeOK

LEMMA RevokedFields ==
  ASSUME TypeOK, NEW ts, NEW t \in Tokens
  PROVE  /\ Revoked(ts)[t].family = tok[t].family
         /\ Revoked(ts)[t].start = tok[t].start
         /\ Revoked(ts)[t].state = IF t \in ts THEN "revoked" ELSE tok[t].state
BY DEF Revoked, TypeOK, Row

-----------------------------------------------------------------------------
(* Steps that write no row and lock none.  What such a step of r does to   *)
(* the request:                                                            *)
OthersRest(r) ==
  /\ req' = [req EXCEPT ![r] = req'[r]]
  /\ req'[r] \in Request

LEMMA OthersKeep ==
  ASSUME TypeOK, NEW r \in Reqs, OthersRest(r)
  PROVE  /\ req' \in [Reqs -> Request]
         /\ \A s \in Reqs : s # r => req'[s] = req[s]
BY DEF OthersRest, TypeOK

(* It keeps the lock or gives it up, and so the row it has inserted ...    *)
LocksNoMore(r) ==
  /\ req'[r].locked \in {req[r].locked, None}
  /\ req'[r].locked # None =>
       req'[r].step \in {"user", "device", "commit", "revoking"}
  /\ req'[r].step \in {"user", "device", "commit"} => req'[r].locked # None
  /\ req'[r].new \in {req[r].new, None}
  /\ req'[r].new # None =>
       /\ req'[r].locked = req[r].locked /\ req'[r].row = req[r].row
       /\ req'[r].step \in {"device", "commit", "revoking"}
  /\ req'[r].step \in {"device", "commit"} => req'[r].new # None

(* ... and what it was given and sees are rows that are used, the ones it  *)
(* sees live and, if their family is not being rotated, not locked.        *)
SeesLiveRows(r) ==
  /\ req'[r].step = "rotating" =>
       req'[r].given \in Tokens /\ tok[req'[r].given].state # "unused"
  /\ req'[r].seen # {} => req'[r].step = "revoking"
  /\ \A t \in req'[r].seen :
       /\ tok[t].state # "unused"
       /\ tok[t].family \notin raced' => Live(t) /\ ~ Locked(t)

LEMMA Frame ==
  ASSUME IInv, TypeOK', NEW r \in Reqs,
         tok' = tok, ended' = ended, raced \subseteq raced',
         OthersRest(r), LocksNoMore(r), SeesLiveRows(r)
  PROVE  IInv'
<1>0. /\ req' \in [Reqs -> Request] /\ req \in [Reqs -> Request]
      /\ \A s \in Reqs : s # r => req'[s] = req[s]
  BY OthersKeep DEF IInv, TypeOK
<1>1. /\ RowsHaveFamilies' /\ OneLiveRow' /\ NoFamilyOutlivesItsLimit'
      /\ EndedWereBorn' /\ RevocationHolds'
  BY DEF IInv, RowsHaveFamilies, OneLiveRow, NoFamilyOutlivesItsLimit,
         EndedWereBorn, RevocationHolds, Unborn, LiveOf, Live
<1>2. LocksAreHeld'
  BY <1>0 DEF IInv, LocksAreHeld, LocksNoMore, Live
<1>3. NewRowsContinue'
  BY <1>0 DEF IInv, LocksAreHeld, NewRowsContinue, LocksNoMore
<1>4. OnlyUsedRowsAreSeen'
  BY <1>0 DEF IInv, OnlyUsedRowsAreSeen, SeesLiveRows
<1>5. \A t \in Tokens : Locked(t)' => Locked(t)
  BY <1>0 DEF Locked, LocksNoMore, IInv, TypeOK
<1>6. \A s \in Reqs : req[s].seen \subseteq Tokens /\
        req'[s].seen \subseteq Tokens
  BY <1>0 DEF Request
<1>7. SeenRowsWait'
  BY <1>0, <1>5, <1>6 DEF IInv, SeenRowsWait, SeesLiveRows, Live, LiveOf
<1> QED
  BY <1>1, <1>2, <1>3, <1>4, <1>7 DEF IInv

LEMMA UsedFamily ==
  ASSUME TypeOK, RowsHaveFamilies, NEW t \in Tokens, tok[t].state # "unused"
  PROVE  tok[t].family \in Families
BY DEF TypeOK, RowsHaveFamilies, Row

(* Families of rows that are used are families.                            *)
LEMMA UsedFamilies ==
  ASSUME TypeOK, RowsHaveFamilies, NEW ts \in SUBSET Tokens,
         \A t \in ts : tok[t].state # "unused"
  PROVE  FamiliesOf(ts) \subseteq Families
BY UsedFamily DEF FamiliesOf

LEMMA TickKeeps == ASSUME IInv, Tick PROVE IInv'
<1>1. TypeOK'
  BY DEF IInv, TypeOK, Tick, Time
<1>2. QED
  BY <1>1 DEF Tick, IInv, RowsHaveFamilies, LocksAreHeld, NewRowsContinue,
     OnlyUsedRowsAreSeen, OneLiveRow, NoFamilyOutlivesItsLimit, SeenRowsWait,
     EndedWereBorn, RevocationHolds, Live, LiveOf, Locked, Unborn

LEMMA BeginRefreshKeeps ==
  ASSUME IInv, NEW r \in Reqs, NEW t \in Tokens, BeginRefresh(r, t)
  PROVE  IInv'
<1> DEFINE x == [Idle EXCEPT !.step = "rotating", !.kind = "refresh",
                             !.given = t, !.now = clock]
<1>1. x \in Request
  BY IdleType DEF x, Request, IInv, TypeOK
<1>2. /\ req' = [req EXCEPT ![r] = x] /\ req'[r] = x /\ tok[t].state # "unused"
      /\ UNCHANGED <<tok, revokedDev, changedAt, clock, passwords, aborts,
           ended, raced>>
  BY DEF IInv, TypeOK, BeginRefresh, x
<1>3. /\ x.step = "rotating" /\ x.given = t /\ x.locked = None /\ x.new = None
      /\ x.seen = {}
  BY DEF x, Idle
<1> HIDE DEF x
<1>4. TypeOK'
  BY <1>1, <1>2 DEF IInv, TypeOK
<1>5. OthersRest(r) /\ LocksNoMore(r) /\ SeesLiveRows(r)
  BY <1>1, <1>2, <1>3 DEF OthersRest, LocksNoMore, SeesLiveRows
<1> QED
  BY <1>2, <1>4, <1>5, Frame

(* A request that ends without a trace, or is rolled back.                 *)
LEMMA EndKeeps ==
  ASSUME IInv, NEW r \in Reqs, End(r), aborts' \in 0..MaxAborts,
         UNCHANGED <<tok, revokedDev, changedAt, clock, passwords, ended,
         raced>>
  PROVE  IInv'
<1>1. req' = [req EXCEPT ![r] = Idle] /\ req'[r] = Idle
  BY DEF IInv, TypeOK, End
<1>2. /\ Idle.step = "idle" /\ Idle.locked = None /\ Idle.new = None
      /\ Idle.seen = {}
  BY DEF Idle
<1>3. TypeOK'
  BY <1>1, IdleType DEF IInv, TypeOK
<1>4. OthersRest(r) /\ LocksNoMore(r) /\ SeesLiveRows(r)
  BY <1>1, <1>2, IdleType DEF OthersRest, LocksNoMore, SeesLiveRows
<1> QED
  BY <1>3, <1>4, Frame

LEMMA AbortKeeps ==
  ASSUME IInv, NEW r \in Reqs, Abort(r)
  PROVE  IInv'
<1>1. aborts' \in 0..MaxAborts
  BY DEF Abort, IInv, TypeOK
<1> QED
  BY <1>1, EndKeeps DEF Abort

LEMMA DeviceIsActiveKeeps ==
  ASSUME IInv, NEW r \in Reqs, DeviceIsActive(r)
  PROVE  IInv'
<1> DEFINE x == [req[r] EXCEPT !.step = "commit"]
<1>1. req[r] \in Request /\ req[r].step = "device"
  BY DEF IInv, TypeOK, DeviceIsActive, At
<1>2. /\ x \in Request /\ x.step = "commit" /\ x.locked = req[r].locked
      /\ x.new = req[r].new /\ x.row = req[r].row /\ x.seen = req[r].seen
  BY <1>1 DEF Request
<1>3. /\ req' = [req EXCEPT ![r] = x] /\ req'[r] = x
      /\ UNCHANGED <<tok, revokedDev, changedAt, clock, passwords, aborts,
           ended, raced>>
  BY DEF IInv, TypeOK, DeviceIsActive
<1> HIDE DEF x
<1>4. TypeOK'
  BY <1>2, <1>3 DEF IInv, TypeOK
<1>5. req[r].locked # None /\ req[r].new # None /\ req[r].seen = {}
  BY <1>1 DEF IInv, LocksAreHeld, NewRowsContinue, OnlyUsedRowsAreSeen
<1>6. OthersRest(r) /\ LocksNoMore(r) /\ SeesLiveRows(r)
  BY <1>2, <1>3, <1>5 DEF OthersRest, LocksNoMore, SeesLiveRows
<1> QED
  BY <1>3, <1>4, <1>6, Frame

(* An UPDATE that begins sees live rows.                                   *)
LEMMA SeeKeeps ==
  ASSUME IInv, NEW r \in Reqs,
         NEW kind \in {"refresh", "reset", "change", "reuse", "evict",
         "other"},
         NEW now \in Time, NEW ts \in SUBSET {t \in Tokens : Live(t)},
         See(r, kind, now, ts), revokedDev' \subseteq Devices,
         UNCHANGED <<tok, changedAt, clock, passwords, aborts, ended>>
  PROVE  IInv'
<1> DEFINE x == [Idle EXCEPT !.step = "revoking", !.kind = kind, !.now = now,
                             !.seen = ts]
<1>1. x \in Request
  BY IdleType DEF x, Request, IInv, TypeOK
<1>2. req' = [req EXCEPT ![r] = x] /\ req'[r] = x
  BY DEF IInv, TypeOK, See, x
<1>3. x.step = "revoking" /\ x.locked = None /\ x.new = None /\ x.seen = ts
  BY DEF x, Idle
<1> HIDE DEF x
<1>4. FamiliesOf({t \in ts : Locked(t)}) \subseteq Families
  BY UsedFamilies DEF IInv, Live
<1>5. TypeOK' /\ raced \subseteq raced'
  BY <1>1, <1>2, <1>4 DEF IInv, TypeOK, See
<1>6. \A t \in ts : Locked(t) => tok[t].family \in raced'
  BY DEF See, FamiliesOf
<1>7. OthersRest(r) /\ LocksNoMore(r)
  BY <1>1, <1>2, <1>3 DEF OthersRest, LocksNoMore
<1>8. SeesLiveRows(r)
  BY <1>2, <1>3, <1>6 DEF SeesLiveRows, Live
<1> QED
  BY <1>5, <1>7, <1>8, Frame

LEMMA RevocationBeginKeeps ==
  ASSUME IInv, NEW r \in Reqs,
         \/ \E t \in Tokens : Logout(r, t)
         \/ \E f \in Families : LogoutOthers(r, f)
         \/ \E d \in Devices : RevokeDevice(r, d)
         \/ RevokeAll(r)
  PROVE  IInv'
<1>0. clock \in Time /\ revokedDev \subseteq Devices /\ req[r] \in Request
  BY DEF IInv, TypeOK
<1>1. CASE \E t \in Tokens : Logout(r, t)
  BY <1>0, <1>1, SeeKeeps DEF Logout
<1>2. CASE \E f \in Families : LogoutOthers(r, f)
  BY <1>0, <1>2, SeeKeeps DEF LogoutOthers
<1>3. CASE \E d \in Devices : RevokeDevice(r, d)
  BY <1>0, <1>3, SeeKeeps DEF RevokeDevice, LiveAt
<1>4. CASE RevokeAll(r)
  BY <1>0, <1>4, SeeKeeps DEF RevokeAll, Request, At
<1> QED
  BY <1>1, <1>2, <1>3, <1>4

LEMMA BeginPasswordKeeps ==
  ASSUME IInv, NEW r \in Reqs, BeginPassword(r)
  PROVE  IInv'
<1>1. PICK kind \in {"reset", "change"} :
        req' = [req EXCEPT ![r] = [Idle EXCEPT !.step = "hashing",
                                               !.kind = kind, !.now = clock]]
  BY DEF BeginPassword
<1> DEFINE x == [Idle EXCEPT !.step = "hashing", !.kind = kind, !.now = clock]
<1>2. x \in Request
  BY IdleType DEF x, Request, IInv, TypeOK
<1>3. req' = [req EXCEPT ![r] = x] /\ req'[r] = x
  BY <1>1 DEF IInv, TypeOK, x
<1>4. x.step = "hashing" /\ x.locked = None /\ x.new = None /\ x.seen = {}
  BY DEF x, Idle
<1> HIDE DEF x
<1>5. TypeOK'
  BY <1>2, <1>3 DEF IInv, TypeOK, BeginPassword
<1>6. OthersRest(r) /\ LocksNoMore(r) /\ SeesLiveRows(r)
  BY <1>2, <1>3, <1>4 DEF OthersRest, LocksNoMore, SeesLiveRows
<1> QED
  BY <1>5, <1>6, Frame DEF BeginPassword

(* A token used twice ends its family; one that has expired is refused.    *)
LEMMA RotateNothingKeeps ==
  ASSUME IInv, NEW r \in Reqs, RotateNothing(r)
  PROVE  IInv'
<1> DEFINE t == req[r].given
           f == tok[t].family
           x == [req[r] EXCEPT !.step = "revoking", !.kind = "reuse",
                               !.seen = LiveOf(f)]
<1>1. CASE End(r) /\ UNCHANGED raced
  BY <1>1, EndKeeps DEF RotateNothing, IInv, TypeOK
<1>2. CASE /\ req' = [req EXCEPT ![r].step = "revoking", ![r].kind = "reuse",
                                 ![r].seen = LiveOf(f)]
           /\ raced' = IF \E u \in LiveOf(f) : Locked(u)
                       THEN raced \cup {f} ELSE raced
  <2>1. /\ req[r] \in Request /\ req[r].step = "rotating" /\ t \in Tokens
        /\ tok[t].state # "unused" /\ req[r].locked = None /\ req[r].new = None
    BY DEF RotateNothing, At, IInv, TypeOK, OnlyUsedRowsAreSeen, LocksAreHeld,
           NewRowsContinue
  <2>2. f \in Families
    BY <2>1, UsedFamily DEF IInv
  <2>3. /\ x \in Request /\ x.step = "revoking" /\ x.seen = LiveOf(f)
        /\ x.locked = None /\ x.new = None
    BY <2>1 DEF Request, LiveOf
  <2>4. req' = [req EXCEPT ![r] = x] /\ req'[r] = x
    BY <1>2 DEF IInv, TypeOK
  <2> HIDE DEF x
  <2>5. TypeOK' /\ raced \subseteq raced'
    BY <1>2, <2>2, <2>3, <2>4 DEF IInv, TypeOK, RotateNothing
  <2>6. OthersRest(r) /\ LocksNoMore(r)
    BY <2>3, <2>4 DEF OthersRest, LocksNoMore
  <2>7. SeesLiveRows(r)
    BY <1>2, <2>3, <2>4 DEF SeesLiveRows, LiveOf, Live
  <2> QED
    BY <2>5, <2>6, <2>7, Frame DEF RotateNothing
<1> QED
  BY <1>1, <1>2 DEF RotateNothing

(* The device was revoked: the other sessions at it are seen.              *)
LEMMA DeviceIsRevokedKeeps ==
  ASSUME IInv, NEW r \in Reqs, DeviceIsRevoked(r)
  PROVE  IInv'
<1> DEFINE others == LiveAt(req[r].row.device) \ {req[r].locked}
           x == [req[r] EXCEPT !.step = "revoking", !.kind = "evict",
                               !.seen = others]
<1>1. req[r] \in Request /\ req[r].step = "device" /\ others \subseteq Tokens
  BY DEF DeviceIsRevoked, At, IInv, TypeOK, LiveAt
<1>2. /\ x \in Request /\ x.step = "revoking" /\ x.seen = others
      /\ x.locked = req[r].locked /\ x.new = req[r].new /\ x.row = req[r].row
  BY <1>1 DEF Request
<1>3. req' = [req EXCEPT ![r] = x] /\ req'[r] = x
  BY DEF IInv, TypeOK, DeviceIsRevoked
<1>4. /\ raced' = raced \cup FamiliesOf({t \in others : Locked(t)})
      /\ UNCHANGED <<tok, revokedDev, changedAt, clock, passwords, aborts,
           ended>>
  BY DEF DeviceIsRevoked
<1>5. \A t \in others : Live(t)
  BY DEF LiveAt
<1> HIDE DEF x, others
<1>6. FamiliesOf({t \in others : Locked(t)}) \subseteq Families
  BY <1>1, <1>5, UsedFamilies DEF IInv, Live
<1>7. TypeOK' /\ raced \subseteq raced'
  BY <1>2, <1>3, <1>4, <1>6 DEF IInv, TypeOK
<1>8. OthersRest(r) /\ LocksNoMore(r)
  BY <1>2, <1>3 DEF OthersRest, LocksNoMore
<1>9. \A t \in others : Locked(t) => tok[t].family \in raced'
  BY <1>4 DEF FamiliesOf
<1>10. SeesLiveRows(r)
  BY <1>2, <1>3, <1>5, <1>9 DEF SeesLiveRows, Live
<1> QED
  BY <1>4, <1>7, <1>8, <1>10, Frame

-----------------------------------------------------------------------------
(* A refresh                                                               *)

LEMMA RotateKeeps ==
  ASSUME IInv, NEW r \in Reqs, Rotate(r)
  PROVE  IInv'
<1> DEFINE t == req[r].given
           x == [req[r] EXCEPT !.step = "user", !.locked = t]
<1>1. /\ req[r] \in Request /\ req[r].step = "rotating" /\ t \in Tokens
      /\ req[r].new = None /\ req[r].seen = {} /\ req[r].locked = None
      /\ Live(t) /\ ~ Locked(t)
  BY DEF Rotate, Rotatable, At, IInv, TypeOK, OnlyUsedRowsAreSeen,
    LocksAreHeld,
         NewRowsContinue
<1>2. /\ x \in Request /\ x.step = "user" /\ x.locked = t /\ x.new = None
      /\ x.seen = {}
  BY <1>1 DEF Request
<1>3. /\ req' = [req EXCEPT ![r] = x]
      /\ raced' = IF t \in
           SeenByRevocation THEN raced \cup {tok[t].family} ELSE raced
      /\ UNCHANGED <<tok, revokedDev, changedAt, clock, passwords, aborts,
           ended>>
  BY DEF IInv, TypeOK, Rotate
<1> HIDE DEF x
<1>4. req'[r] = x /\ \A s \in Reqs : s # r => req'[s] = req[s]
  BY <1>3 DEF IInv, TypeOK
<1>5. TypeOK' /\ raced \subseteq raced'
  BY <1>1, <1>2, <1>3, UsedFamily DEF IInv, TypeOK, Live
<1>6. /\ RowsHaveFamilies' /\ OneLiveRow' /\ NoFamilyOutlivesItsLimit'
      /\ EndedWereBorn' /\ RevocationHolds'
  BY <1>3, <1>5
    DEF IInv, RowsHaveFamilies, OneLiveRow, NoFamilyOutlivesItsLimit,
         EndedWereBorn, RevocationHolds, Unborn, LiveOf, Live
<1>7. LocksAreHeld'
  BY <1>1, <1>2, <1>3, <1>4 DEF IInv, LocksAreHeld, Locked, Live
<1>8. NewRowsContinue'
  BY <1>2, <1>3, <1>4 DEF IInv, NewRowsContinue
<1>9. OnlyUsedRowsAreSeen'
  BY <1>2, <1>3, <1>4 DEF IInv, OnlyUsedRowsAreSeen
<1>10. SeenRowsWait'
  <2> SUFFICES ASSUME NEW s \in Reqs, NEW u \in req[s].seen, s # r,
                      tok[u].family \notin raced'
               PROVE  (Live(u) /\ ~ Locked(u)') \/ LiveOf(tok[u].family) = {}
    BY <1>2, <1>3, <1>4 DEF SeenRowsWait, Live, LiveOf
  <2>1. u \in Tokens /\ tok[u].family \notin raced /\ u # t
    BY <1>3 DEF IInv, TypeOK, Request, SeenByRevocation
  <2>2. Locked(u)' => Locked(u)
    BY <1>2, <1>4, <2>1 DEF Locked
  <2> QED
    BY <2>1, <2>2 DEF IInv, SeenRowsWait
<1> QED
  BY <1>5, <1>6, <1>7, <1>8, <1>9, <1>10 DEF IInv

LEMMA IssueNextKeeps ==
  ASSUME IInv, NEW r \in Reqs, IssueNext(r)
  PROVE  IInv'
<1> DEFINE t == req[r].locked
           row == Begun(tok[t].family, NewStart(t), tok[t].device)
<1>1. PICK n \in Tokens :
        /\ Fresh(n)
        /\ req' = [req EXCEPT ![r].step = "device", ![r].new = n,
             ![r].row = row]
  BY DEF IssueNext
<1> DEFINE x == [req[r] EXCEPT !.step = "device", !.new = n, !.row = row]
<1>2. /\ req[r] \in Request /\ req[r].step = "user" /\ t \in Tokens
      /\ t # None /\ Live(t) /\ req[r].seen = {}
  BY DEF IssueNext, At, IInv, TypeOK, Request, OnlyUsedRowsAreSeen,
    LocksAreHeld
<1>3. tok[t].family \in Families /\ tok[t] \in Row
  BY <1>2, UsedFamily DEF IInv, TypeOK, Live
<1>4. /\ row \in Row /\ row.state = "live" /\ row.family = tok[t].family
      /\ row.start = tok[t].start
  BY <1>3, BegunType DEF IInv, NewStart, Row, Begun
<1> HIDE DEF row
<1>5. /\ x \in Request /\ x.step = "device" /\ x.locked = t /\ x.new = n
      /\ x.seen = {} /\ x.row = row
  BY <1>2, <1>4 DEF Request
<1>6. /\ req' = [req EXCEPT ![r] = x]
      /\ UNCHANGED <<tok, revokedDev, changedAt, clock, passwords, aborts,
           ended, raced>>
  BY <1>1 DEF IInv, TypeOK, IssueNext
<1> HIDE DEF x
<1>7. req'[r] = x /\ \A s \in Reqs : s # r => req'[s] = req[s]
  BY <1>6 DEF IInv, TypeOK
<1>8. TypeOK'
  BY <1>5, <1>6 DEF IInv, TypeOK
<1>9. /\ RowsHaveFamilies' /\ OneLiveRow' /\ NoFamilyOutlivesItsLimit'
      /\ EndedWereBorn' /\ RevocationHolds'
  BY <1>6 DEF IInv, RowsHaveFamilies, OneLiveRow, NoFamilyOutlivesItsLimit,
         EndedWereBorn, RevocationHolds, Unborn, LiveOf, Live
<1>10. LocksAreHeld'
  BY <1>2, <1>5, <1>6, <1>7 DEF IInv, LocksAreHeld, Live
<1>11. NewRowsContinue'
  <2>1. \A s \in Reqs : req[s].new # n
    BY <1>1 DEF Fresh
  <2>2. tok[n].state = "unused"
    BY <1>1 DEF Fresh
  <2> QED
    BY <2>1, <2>2, <1>2, <1>4, <1>5, <1>6, <1>7 DEF IInv, NewRowsContinue
<1>12. OnlyUsedRowsAreSeen'
  BY <1>5, <1>6, <1>7 DEF IInv, OnlyUsedRowsAreSeen
<1>13. SeenRowsWait'
  <2>1. \A u \in Tokens : Locked(u)' <=> Locked(u)
    BY <1>5, <1>7 DEF Locked
  <2>2. \A s \in Reqs : req'[s].seen = req[s].seen /\
          req[s].seen \subseteq Tokens
    BY <1>2, <1>5, <1>7 DEF IInv, TypeOK, Request
  <2> QED
    BY <1>6, <2>1, <2>2 DEF IInv, SeenRowsWait, Live, LiveOf
<1> QED
  BY <1>8, <1>9, <1>10, <1>11, <1>12, <1>13 DEF IInv

-----------------------------------------------------------------------------
(* Steps that write rows.  Rows that are gone were live; a row that is     *)
(* born begins a family, or continues the family of a row that was locked  *)
(* and is gone.                                                            *)
Dies(gone, born) ==
  /\ \A t \in gone : Live(t)
  /\ \A t \in Tokens \ {born} :
       /\ tok'[t].family = tok[t].family /\ tok'[t].start = tok[t].start
       /\ tok'[t].state = IF t \in gone THEN "revoked" ELSE tok[t].state

Arises(gone, born) ==
  born # None =>
    /\ tok[born].state = "unused" /\ tok'[born].state = "live"
    /\ tok'[born].family \in Families
    /\ \/ Unborn(tok'[born].family)
       \/ \E t \in gone : /\ Locked(t) /\ tok[t].family = tok'[born].family
                          /\ tok[t].start = tok'[born].start

(* The request that wrote them is done, and the others need none of them.  *)
OthersNeedNone(gone, born) ==
  \A s \in Reqs :
    \/ req'[s] = Idle
    \/ /\ req'[s] = req[s] /\ req[s].locked \notin gone
       /\ req[s].new # born \/ born = None

(* Families that end leave no live row, unless somebody was rotating.      *)
Ends(gone, born) ==
  /\ ended \subseteq ended'
  /\ \A f \in ended' \ ended :
       /\ ~ Unborn(f)
       /\ f \in raced \/ LiveOf(f) \subseteq gone
       /\ born # None => tok'[born].family # f

Writes(gone, born) ==
  /\ Dies(gone, born) /\ Arises(gone, born) /\ OthersNeedNone(gone, born)
  /\ Ends(gone, born) /\ raced' = raced

LEMMA WriteKeeps ==
  ASSUME IInv, TypeOK',
         NEW gone \in SUBSET Tokens, NEW born \in Tokens \cup {None},
         Writes(gone, born)
  PROVE  IInv'
<1> USE DEF Writes
<1>0. /\ tok \in [Tokens -> Row] /\ tok' \in [Tokens -> Row]
      /\ req \in [Reqs -> Request] /\ req' \in [Reqs -> Request]
      /\ Idle.step = "idle" /\ Idle.locked = None /\ Idle.new = None
      /\ Idle.seen = {} /\ None \notin Tokens
  BY DEF IInv, TypeOK, Idle
<1>1. \A t \in Tokens : tok[t].state # "unused" =>
        t # born /\ tok'[t].state # "unused" /\ tok'[t].family = tok[t].family
        /\ tok'[t].start = tok[t].start
  BY DEF Dies, Arises
<1>2. \A t \in Tokens : t # born /\ Live(t)' => Live(t) /\ t \notin gone
  BY DEF Dies, Live
<1>3. RowsHaveFamilies'
  BY <1>0, <1>1 DEF IInv, RowsHaveFamilies, Dies, Arises, Live
<1>4. LocksAreHeld'
  <2>1. \A t \in Tokens \ gone : Live(t) => Live(t)'
    BY <1>1 DEF Dies, Live
  <2>2. \A s \in Reqs : req[s].locked # None => req[s].locked \in Tokens
    BY <1>0 DEF Request
  <2> QED
    BY <1>0, <2>1, <2>2 DEF IInv, LocksAreHeld, OthersNeedNone
<1>5. NewRowsContinue'
  <2> SUFFICES ASSUME NEW s \in Reqs, req'[s] = req[s], req[s].new # None,
                      req[s].new # born \/ born = None
               PROVE  /\ tok'[req[s].new].state = "unused"
                      /\ req[s].row.family = tok'[req[s].locked].family
                      /\ req[s].row.start = tok'[req[s].locked].start
    BY <1>0 DEF IInv, NewRowsContinue, OthersNeedNone
  <2>1. /\ req[s].new \in Tokens /\ req[s].locked \in Tokens
        /\ tok[req[s].new].state = "unused" /\ Live(req[s].locked)
    BY <1>0 DEF IInv, NewRowsContinue, LocksAreHeld, Request
  <2>2. tok'[req[s].new].state = "unused"
    BY <1>0, <2>1 DEF Dies, Live
  <2> QED
    BY <1>1, <2>1, <2>2 DEF IInv, NewRowsContinue, Live
<1>6. OnlyUsedRowsAreSeen'
  <2>1. \A s \in Reqs : req[s].seen \subseteq Tokens
    BY <1>0 DEF Request
  <2> QED
    BY <1>0, <1>1, <2>1 DEF IInv, OnlyUsedRowsAreSeen, OthersNeedNone
<1>7. OneLiveRow'
  BY <1>2 DEF IInv, OneLiveRow, Dies, Arises, Unborn, Live
<1>8. NoFamilyOutlivesItsLimit'
  BY <1>0, <1>1 DEF IInv, NoFamilyOutlivesItsLimit, RowsHaveFamilies, Dies,
    Arises, Unborn, Live
<1>9. EndedWereBorn'
  <2>1. \A f \in Families : ~ Unborn(f) => ~ Unborn(f)'
    BY <1>0, <1>1 DEF IInv, RowsHaveFamilies, Unborn
  <2> QED
    BY <2>1 DEF IInv, TypeOK, EndedWereBorn, Ends
(* A family that is not born again and has lost its live row has none.     *)
<1>10. \A f \in Families : ~ Unborn(f) /\ LiveOf(f) = {} => LiveOf(f)' = {}
  BY <1>2 DEF Dies, Arises, LiveOf, Live
<1>11. RevocationHolds'
  <2>1. \A f \in ended' \ ended : f \notin raced => LiveOf(f)' = {}
    BY <1>2 DEF Ends, Dies, LiveOf
  <2> QED
    BY <1>10, <2>1 DEF IInv, TypeOK, RevocationHolds, EndedWereBorn
<1>12. SeenRowsWait'
  <2> SUFFICES ASSUME NEW s \in Reqs, req'[s] = req[s], NEW t \in req[s].seen,
                      tok'[t].family \notin raced
               PROVE  \/ Live(t)' /\ ~ Locked(t)'
                      \/ (LiveOf(tok[t].family) = {})'
    BY <1>0 DEF SeenRowsWait, OthersNeedNone
  <2> DEFINE f == tok[t].family
  <2>1. /\ t \in Tokens /\ tok[t].state # "unused" /\ tok'[t].family = f
        /\ f \in Families
    BY <1>0, <1>1, UsedFamily DEF IInv, OnlyUsedRowsAreSeen, Request
  <2>2. ~ Unborn(f)
    BY <2>1 DEF Unborn
  <2>3. CASE LiveOf(f) = {}
    BY <1>10, <2>1, <2>2, <2>3 DEF LiveOf, Live
  <2>4. CASE Live(t) /\ ~ Locked(t) /\ t \notin gone
    BY <1>0, <1>1, <2>1, <2>4 DEF Live, Locked, Dies, OthersNeedNone
  <2>5. CASE Live(t) /\ ~ Locked(t) /\ t \in gone
    <3>1. \A u \in Tokens : Live(u) /\ tok[u].family = f => u = t
      BY <2>1, <2>5 DEF IInv, OneLiveRow
    <3>2. ASSUME NEW u \in Tokens, Live(u)', tok'[u].family = f
          PROVE  FALSE
      <4>1. CASE u # born
        BY <1>2, <2>5, <3>1, <3>2, <4>1 DEF Dies
      <4>2. CASE u = born
        BY <1>0, <2>2, <2>5, <3>1, <3>2, <4>2 DEF Arises, Dies
      <4> QED  BY <4>1, <4>2
    <3> QED
      BY <2>1, <3>2 DEF LiveOf
  <2> QED
    BY <2>1, <2>3, <2>4, <2>5 DEF IInv, SeenRowsWait
<1> QED
  BY <1>3, <1>4, <1>5, <1>6, <1>7, <1>8, <1>9, <1>11, <1>12 DEF IInv

LEMMA IdleUpdate ==
  ASSUME TypeOK, NEW r \in Reqs, End(r)
  PROVE  /\ req' \in [Reqs -> Request] /\ req'[r] = Idle
         /\ \A s \in Reqs : s # r => req'[s] = req[s]
BY IdleType DEF TypeOK, End

(* Rows r has locked or inserted are of no use to anybody else.            *)
LEMMA OthersNeedNothing ==
  ASSUME IInv, NEW r \in Reqs, End(r), NEW gone \in SUBSET Tokens,
         \A t \in gone : \A s \in Reqs : s # r => req[s].locked # t,
         NEW born \in Tokens \cup {None},
         born # None => \A s \in Reqs : s # r => req[s].new # born
  PROVE  OthersNeedNone(gone, born)
BY IdleUpdate DEF OthersNeedNone, IInv

LEMMA LoginWrites ==
  ASSUME IInv, NEW f \in Families, Login(f)
  PROVE  /\ TypeOK'
         /\ \E gone \in SUBSET Tokens, born \in Tokens \cup {None} :
              Writes(gone, born)
<1>1. PICK t \in Tokens, d \in Devices \ revokedDev :
        Fresh(t) /\ tok' = [tok EXCEPT ![t] = Begun(f, clock, d)]
  BY DEF Login
<1> DEFINE row == Begun(f, clock, d)
<1>2. row \in Row /\ row.state = "live" /\ row.family = f
  BY BegunType DEF IInv, TypeOK, Begun
<1> HIDE DEF row
<1>3. tok' = [tok EXCEPT ![t] = row]
  BY <1>1 DEF row
<1>4. TypeOK'
  BY <1>2, <1>3 DEF IInv, TypeOK, Login
<1>5. Dies({}, t) /\ Arises({}, t) /\ OthersNeedNone({}, t) /\ Ends({}, t)
  BY <1>1, <1>2, <1>3
     DEF Dies, Arises, OthersNeedNone, Ends, Fresh, Login, IInv, TypeOK, Row
<1> QED
  BY <1>4, <1>5 DEF Writes, Login

LEMMA RefuseOutdatedWrites ==
  ASSUME IInv, NEW r \in Reqs, RefuseOutdated(r)
  PROVE  /\ TypeOK'
         /\ \E gone \in SUBSET Tokens, born \in Tokens \cup {None} :
              Writes(gone, born)
<1> DEFINE t == req[r].locked
<1>1. /\ t \in Tokens /\ Live(t)
      /\ \A s \in Reqs : s # r => req[s].locked # t
  BY DEF RefuseOutdated, At, IInv, TypeOK, Request, LocksAreHeld
<1>2. /\ tok' = Revoked({t}) /\ End(r)
      /\ UNCHANGED <<revokedDev, changedAt, clock, passwords, aborts, ended,
           raced>>
  BY DEF RefuseOutdated
<1>3. TypeOK'
  BY <1>2, RevokedType, IdleUpdate DEF IInv, TypeOK
<1>4. Dies({t}, None)
  BY <1>1, <1>2, RevokedFields DEF Dies, IInv
<1>5. Arises({t}, None) /\ Ends({t}, None)
  BY <1>2 DEF Arises, Ends
<1>6. OthersNeedNone({t}, None)
  BY <1>1, <1>2, OthersNeedNothing
<1> QED
  BY <1>1, <1>2, <1>3, <1>4, <1>5, <1>6 DEF Writes

LEMMA CommitRefreshWrites ==
  ASSUME IInv, NEW r \in Reqs, CommitRefresh(r)
  PROVE  /\ TypeOK'
         /\ \E gone \in SUBSET Tokens, born \in Tokens \cup {None} :
              Writes(gone, born)
<1> DEFINE t == req[r].locked
           n == req[r].new
<1>0. req[r] \in Request /\ req[r].step = "commit" /\ None \notin Tokens
  BY DEF CommitRefresh, At, IInv, TypeOK
<1>1. /\ t \in Tokens /\ Live(t) /\ Locked(t)
      /\ \A s \in Reqs : s # r => req[s].locked # t
  BY <1>0 DEF IInv, LocksAreHeld, Request, Locked
<1>2. /\ n \in Tokens /\ n # t /\ tok[n].state = "unused"
      /\ \A s \in Reqs : s # r => req[s].new # n
      /\ req[r].row \in Row /\ req[r].row.state = "live"
      /\ req[r].row.family = tok[t].family /\ req[r].row.start = tok[t].start
  BY <1>0, <1>1 DEF IInv, NewRowsContinue, Request, Live
<1>3. /\ tok' = [Revoked({t}) EXCEPT ![n] = req[r].row] /\ End(r)
      /\ UNCHANGED <<revokedDev, changedAt, clock, passwords, aborts, ended,
           raced>>
  BY DEF CommitRefresh
<1>4. Revoked({t}) \in [Tokens -> Row]
  BY RevokedType DEF IInv
<1>5. TypeOK'
  BY <1>2, <1>3, <1>4, IdleUpdate DEF IInv, TypeOK
<1>6. /\ tok'[n] = req[r].row
      /\ \A u \in Tokens \ {n} : tok'[u] = Revoked({t})[u]
  BY <1>2, <1>3, <1>4
<1>7. Dies({t}, n)
  BY <1>1, <1>2, <1>6, RevokedFields DEF Dies, IInv
<1>8. tok[t].family \in Families
  BY <1>1, UsedFamily DEF IInv, Live
<1>9. Arises({t}, n)
  BY <1>1, <1>2, <1>6, <1>8 DEF Arises
<1>10. Ends({t}, n)
  BY <1>3 DEF Ends
<1>11. OthersNeedNone({t}, n)
  BY <1>1, <1>2, <1>3, OthersNeedNothing
<1> QED
  BY <1>1, <1>2, <1>3, <1>5, <1>7, <1>9, <1>10, <1>11 DEF Writes

(* What a revocation leaves revoked when it is done.                       *)
GoneOf(r) ==
  {t \in req[r].seen : Live(t)}
     \cup (IF req[r].locked = None THEN {} ELSE {req[r].locked})

LEMMA FinishWrites ==
  ASSUME IInv, NEW r \in Reqs, Finish(r)
  PROVE  /\ TypeOK'
         /\ \E gone \in SUBSET Tokens, born \in Tokens \cup {None} :
              Writes(gone, born)
<1> DEFINE gone == GoneOf(r)
<1>0. /\ req[r] \in Request /\ req[r].step = "revoking" /\ None \notin Tokens
      /\ Reachable(r) /\ End(r) /\ raced' = raced
  BY DEF Finish, At, IInv, TypeOK
<1>1. gone \in SUBSET Tokens /\ \A t \in gone : Live(t)
  BY <1>0 DEF GoneOf, IInv, LocksAreHeld, Request
<1>2. \A t \in gone : \A s \in Reqs : s # r => req[s].locked # t
  BY <1>0, <1>1 DEF GoneOf, IInv, LocksAreHeld, Reachable
<1>3. /\ FamiliesOf(gone) \subseteq Families
      /\ FamiliesOf(req[r].seen) \subseteq Families
  BY <1>0, <1>1, UsedFamilies DEF IInv, OnlyUsedRowsAreSeen, Live, Request
<1>4. ended' = ended \cup FamiliesOf(gone) \cup FamiliesOf(req[r].seen)
  BY DEF Finish, GoneOf
<1>5. Revoked(gone) \in [Tokens -> Row]
  BY RevokedType DEF IInv
<1>6. \A t \in Tokens :
        /\ Revoked(gone)[t].family = tok[t].family
        /\ Revoked(gone)[t].start = tok[t].start
        /\ Revoked(gone)[t].state =
             IF t \in gone THEN "revoked" ELSE tok[t].state
  BY RevokedFields DEF IInv
<1>7. /\ changedAt' \in Time
      /\ UNCHANGED <<revokedDev, clock, passwords, aborts>>
  BY <1>0 DEF Finish, SetPasswordTime, IInv, TypeOK, Request
<1> HIDE DEF gone
<1>8. \A f \in ended' \ ended :
        ~ Unborn(f) /\ (f \in raced \/ LiveOf(f) \subseteq gone)
  <2> SUFFICES ASSUME NEW t \in Tokens, t \in gone \cup req[r].seen
               PROVE  /\ ~ Unborn(tok[t].family)
                      /\ tok[t].family \in raced \/
                           LiveOf(tok[t].family) \subseteq gone
    BY <1>0, <1>1, <1>4 DEF FamiliesOf, Request
  <2>1. ~ Unborn(tok[t].family)
    BY DEF Unborn
  <2>2. CASE t \in gone
    <3>1. \A u \in Tokens : Live(u) /\ tok[u].family = tok[t].family => u = t
      BY <1>1, <2>2 DEF IInv, OneLiveRow
    <3> QED
      BY <2>1, <2>2, <3>1 DEF LiveOf
  <2>3. CASE t \in req[r].seen /\ ~ Live(t)
    <3>1. tok[t].family \notin raced => LiveOf(tok[t].family) = {}
      BY <2>3 DEF IInv, SeenRowsWait
    <3> QED
      BY <2>1, <3>1
  <2>4. CASE t \in req[r].seen /\ Live(t)
    BY <2>2, <2>4 DEF gone, GoneOf
  <2> QED
    BY <2>1, <2>2, <2>3, <2>4
<1>9. CASE tok' = Revoked(gone)
  <2>1. TypeOK'
    BY <1>0, <1>3, <1>4, <1>5, <1>7, <1>9, IdleUpdate DEF IInv, TypeOK
  <2>2. Dies(gone, None) /\ Arises(gone, None) /\ Ends(gone, None)
    BY <1>1, <1>4, <1>6, <1>8, <1>9 DEF Dies, Arises, Ends
  <2>3. OthersNeedNone(gone, None)
    BY <1>0, <1>1, <1>2, OthersNeedNothing
  <2> QED
    BY <1>0, <1>1, <2>1, <2>2, <2>3 DEF Writes
<1>10. CASE \E n \in Tokens, f \in Families, d \in Devices :
              /\ Fresh(n) /\ Unborn(f)
              /\ tok' = [Revoked(gone) EXCEPT ![n] = Begun(f, clock, d)]
  <2>1. PICK n \in Tokens, f \in Families, d \in Devices :
              /\ Fresh(n) /\ Unborn(f)
              /\ tok' = [Revoked(gone) EXCEPT ![n] = Begun(f, clock, d)]
    BY <1>10
  <2> DEFINE row == Begun(f, clock, d)
  <2>2. row \in Row /\ row.state = "live" /\ row.family = f
    BY BegunType DEF IInv, TypeOK, Begun
  <2>3. tok' = [Revoked(gone) EXCEPT ![n] = row]
    BY <2>1
  <2> HIDE DEF row
  <2>4. tok'[n] = row /\ \A t \in Tokens \ {n} : tok'[t] = Revoked(gone)[t]
    BY <1>5, <2>3
  <2>5. TypeOK'
    BY <1>0, <1>3, <1>4, <1>5, <1>7, <2>2, <2>3, IdleUpdate DEF IInv, TypeOK
  <2>6. Dies(gone, n)
    BY <1>1, <1>6, <2>4 DEF Dies
  <2>7. Arises(gone, n)
    BY <2>1, <2>2, <2>4 DEF Arises, Fresh
  <2>8. Ends(gone, n)
    BY <1>4, <1>8, <2>1, <2>2, <2>4 DEF Ends
  <2>9. OthersNeedNone(gone, n)
    BY <1>0, <1>1, <1>2, <2>1, OthersNeedNothing DEF Fresh
  <2> QED
    BY <1>0, <1>1, <2>5, <2>6, <2>7, <2>8, <2>9 DEF Writes
<1> QED
  BY <1>9, <1>10 DEF Finish, GoneOf, gone

-----------------------------------------------------------------------------
LEMMA IInvInit == Init => IInv
<1> SUFFICES ASSUME Init PROVE IInv
  OBVIOUS
<1>1. /\ \A t \in Tokens : tok[t] = Unused
      /\ \A r \in Reqs : req[r] = Idle
      /\ ended = {}
  BY DEF Init
<1>2. /\ Unused.state = "unused" /\ Unused.family = None
      /\ Idle.step = "idle" /\ Idle.locked = None /\ Idle.new = None
      /\ Idle.seen = {}
  BY DEF Unused, Idle
<1> QED
  BY <1>1, <1>2, TypeInit
     DEF IInv, RowsHaveFamilies, LocksAreHeld, NewRowsContinue,
         OnlyUsedRowsAreSeen, OneLiveRow, NoFamilyOutlivesItsLimit,
         SeenRowsWait, EndedWereBorn, RevocationHolds, Live

LEMMA IInvStep == IInv /\ [Next]_vars => IInv'
<1> SUFFICES ASSUME IInv, [Next]_vars PROVE IInv'
  OBVIOUS
<1>1. CASE UNCHANGED vars
  BY <1>1
    DEF vars, IInv, TypeOK, RowsHaveFamilies, LocksAreHeld, NewRowsContinue,
     OnlyUsedRowsAreSeen, OneLiveRow, NoFamilyOutlivesItsLimit, SeenRowsWait,
     EndedWereBorn, RevocationHolds, Live, LiveOf, Locked, Unborn
<1>2. CASE Next
  <2>1. CASE \E f \in Families : Login(f)
    BY <2>1, LoginWrites, WriteKeeps
  <2>2. CASE \E r \in Reqs : RefuseOutdated(r) \/ CommitRefresh(r) \/ Finish(r)
    BY <2>2, RefuseOutdatedWrites, CommitRefreshWrites, FinishWrites,
      WriteKeeps
  <2> QED
    BY <1>2, <2>1, <2>2, TickKeeps, BeginRefreshKeeps, RotateKeeps,
       RotateNothingKeeps, IssueNextKeeps, DeviceIsActiveKeeps,
       DeviceIsRevokedKeeps, RevocationBeginKeeps, BeginPasswordKeeps,
       AbortKeeps DEF Next
<1> QED
  BY <1>1, <1>2

LEMMA IInvAlways == Spec => []IInv
BY IInvInit, IInvStep, PTL DEF Spec

-----------------------------------------------------------------------------
(* What holds of the sessions                                              *)

(* Every variable has its type.                                            *)
THEOREM TypeCorrect == Spec => []TypeOK
BY IInvAlways, PTL DEF IInv

(* However refreshes, revocations and new passwords overlap, a family has  *)
(* one token that can be used (rotate_refresh_token).                      *)
THEOREM AtMostOneLiveToken == Spec => []OneLiveToken
<1>1. IInv => OneLiveToken
  <2> SUFFICES ASSUME IInv, NEW f \in Families
               PROVE  Cardinality(LiveOf(f)) <= 1
    BY DEF OneLiveToken
  <2>1. CASE LiveOf(f) = {}
    BY <2>1, FS_EmptySet
  <2>2. CASE LiveOf(f) # {}
    <3>1. PICK t \in LiveOf(f) : TRUE
      BY <2>2
    <3>2. LiveOf(f) = {t}
      BY <3>1 DEF LiveOf, IInv, OneLiveRow
    <3> QED
      BY <3>2, FS_Singleton
  <2> QED
    BY <2>1, <2>2
<1> QED
  BY <1>1, IInvAlways, PTL

(* A revocation ends every family it was meant for, unless it was being    *)
(* rotated, and every token of a family counts its limit from one start    *)
(* (revoke_user_sessions, family_created_at).                              *)
THEOREM FamiliesDoEnd == Spec => []FamiliesEnd
BY IInvAlways, PTL DEF IInv, FamiliesEnd

(* A token older than the password is not exchanged by a refresh that      *)
(* reads the user after the password was committed (self_refresh).         *)
THEOREM OutdatedIsRefused == Spec => NoExchangeOfOutdatedTokens
<1> DEFINE Refused(r) ==
      At(r, "user") /\ changedAt > tok[req[r].locked].created =>
        req'[r].new = None
<1>1. ASSUME IInv, [Next]_vars, NEW r \in Reqs PROVE Refused(r)
  <2> SUFFICES ASSUME req[r].step = "user", Outdated(req[r].locked)
               PROVE  req'[r].new = None
    BY DEF At, Outdated
  <2>1. req \in [Reqs -> Request] /\ req[r].new = None /\ Idle.new = None
    BY <1>1 DEF IInv, TypeOK, NewRowsContinue, Idle
  <2>2. CASE \/ UNCHANGED vars \/ Tick \/ \E f \in Families : Login(f)
    BY <2>1, <2>2 DEF vars, Tick, Login
  <2>3. CASE \E s \in Reqs, t \in Tokens : BeginRefresh(s, t) \/ Logout(s, t)
    BY <2>1, <2>3 DEF BeginRefresh, Logout, See, At
  <2>4. CASE \E s \in Reqs : Rotate(s) \/ RotateNothing(s)
    BY <2>1, <2>4 DEF Rotate, RotateNothing, At, End
  <2>5. CASE \E s \in Reqs : IssueNext(s)
    BY <2>1, <2>5 DEF IssueNext
  <2>6. CASE \E s \in Reqs : DeviceIsActive(s) \/ DeviceIsRevoked(s)
    BY <2>1, <2>6 DEF DeviceIsActive, DeviceIsRevoked, At
  <2>7. CASE \E s \in Reqs : RefuseOutdated(s) \/ CommitRefresh(s) \/
                                                    Finish(s) \/ Abort(s)
    BY <2>1, <2>7 DEF RefuseOutdated, CommitRefresh, Finish, Abort, End
  <2>8. CASE \E s \in Reqs : \/ \E f \in Families : LogoutOthers(s, f)
                             \/ \E d \in Devices : RevokeDevice(s, d)
                             \/ BeginPassword(s) \/ RevokeAll(s)
    BY <2>1, <2>8
      DEF LogoutOthers, RevokeDevice, BeginPassword, RevokeAll, See, At
  <2> QED
    BY <1>1, <2>2, <2>3, <2>4, <2>5, <2>6, <2>7, <2>8 DEF Next
<1>2. IInv /\ [Next]_vars => [\A r \in Reqs : Refused(r)]_vars
  BY <1>1
<1> QED
  BY <1>2, IInvAlways, PTL DEF Spec, NoExchangeOfOutdatedTokens

-----------------------------------------------------------------------------
(* The tokens implement SessionFamilies                                    *)

LEMMA LifeInit == Init => Promise!Init
<1> SUFFICES ASSUME Init PROVE Promise!Init
  OBVIOUS
<1>1. \A f \in Families : Unborn(f)
  BY DEF Init, Unborn, Unused
<1> QED
  BY <1>1 DEF Promise!Init, Life

(* Rows that are written end families and begin one: a step of the         *)
(* promise.                                                                *)
LEMMA WriteIsPromised ==
  ASSUME IInv, NEW gone \in SUBSET Tokens, NEW born \in Tokens \cup {None},
         Writes(gone, born)
  PROVE  Promise!Next
<1> DEFINE stays == IF born = None THEN {} ELSE {tok'[born].family}
           over == FamiliesOf(gone) \ stays
<1>0. None \notin Tokens /\ over \in SUBSET Families
  BY UsedFamilies DEF IInv, Writes, Dies, Live
<1>1. \A t \in Tokens : tok[t].state # "unused" =>
        t # born /\ tok'[t].family = tok[t].family
  BY DEF Writes, Dies, Arises
<1>2. \A f \in over : Life(f) = "alive"
  BY <1>0 DEF Writes, Dies, FamiliesOf, Life, Unborn, LiveOf, Live
<1>3. \A f \in over : Life(f)' = "dead"
  <2> SUFFICES ASSUME NEW f \in over PROVE ~ Unborn(f)' /\ LiveOf(f)' = {}
    BY DEF Life
  <2>1. PICK t \in gone : tok[t].family = f /\ f \notin stays
    BY DEF FamiliesOf
  <2>2. Live(t) /\ tok'[t].family = f
    BY <1>1, <2>1 DEF Writes, Dies, Live
  <2>3. \A u \in Tokens : Live(u) /\ tok[u].family = f => u = t
    BY <2>1, <2>2 DEF IInv, OneLiveRow
  <2> QED
    BY <1>0, <2>1, <2>2, <2>3 DEF Unborn, LiveOf, Live, Writes, Dies
<1>4. \A f \in Families \ (FamiliesOf(gone) \cup stays) : Life(f)' = Life(f)
  <2> SUFFICES ASSUME NEW f \in Families, f \notin FamiliesOf(gone),
                      f \notin stays
               PROVE  Life(f)' = Life(f)
    OBVIOUS
  <2>1. Unborn(f)' <=> Unborn(f)
    BY <1>0, <1>1 DEF Unborn, Writes, Dies, Arises, IInv, RowsHaveFamilies
  <2>2. LiveOf(f)' = LiveOf(f)
    BY <1>0, <1>1 DEF LiveOf, Live, Writes, Dies, FamiliesOf, Arises
  <2> QED
    BY <2>1, <2>2 DEF Life
<1>5. CASE born = None
  <2>1. \A f \in Families : Life(f)' = IF f \in over THEN "dead" ELSE Life(f)
    BY <1>3, <1>4, <1>5
  <2>2. Promise!End(over)
    BY <1>0, <1>2, <2>1 DEF Promise!End
  <2> QED
    BY <1>0, <2>2 DEF Promise!Next
<1>6. CASE born # None /\ Unborn(tok'[born].family)
  <2>0. PICK b \in Families : b = tok'[born].family
    BY <1>6 DEF Writes, Arises
  <2>1. stays = {b} /\ Life(b) = "unborn" /\ b \notin FamiliesOf(gone)
    BY <1>0, <1>6, <2>0 DEF Life, Unborn, FamiliesOf
  <2>2. Life(b)' = "alive"
    <3>1. born \in LiveOf(b)' /\ ~ Unborn(b)'
      BY <1>6, <2>0 DEF Writes, Arises, Unborn, LiveOf, Live
    <3> QED
      BY <3>1 DEF Life
  <2>3. \A f \in Families :
          Life(f)' = IF f \in over THEN "dead" ELSE IF f =
            b THEN "alive" ELSE Life(f)
    BY <1>3, <1>4, <2>1, <2>2
  <2>4. Promise!Replace(over, b)
    BY <1>0, <1>2, <2>1, <2>3 DEF Promise!Replace
  <2> QED
    BY <1>0, <2>1, <2>4 DEF Promise!Next
<1>7. CASE born # None /\ ~ Unborn(tok'[born].family)
  <2>0. PICK b \in Families : b = tok'[born].family
    BY <1>7 DEF Writes, Arises
  <2>1. stays = {b} /\ Life(b) = "alive"
    BY <1>0, <1>7, <2>0 DEF Writes, Arises, Dies, Life, LiveOf
  <2>2. Life(b)' = "alive"
    <3>1. born \in LiveOf(b)' /\ ~ Unborn(b)'
      BY <1>7, <2>0 DEF Writes, Arises, Unborn, LiveOf, Live
    <3> QED
      BY <3>1 DEF Life
  <2>3. \A f \in Families : Life(f)' = IF f \in over THEN "dead" ELSE Life(f)
    BY <1>3, <1>4, <2>1, <2>2
  <2>4. Promise!End(over)
    BY <1>0, <1>2, <2>3 DEF Promise!End
  <2> QED
    BY <1>0, <2>4 DEF Promise!Next
<1> QED
  BY <1>5, <1>6, <1>7

LEMMA StepIsPromised ==
  IInv /\ [Next]_vars => [Promise!Next]_[f \in Families |-> Life(f)]
<1> SUFFICES ASSUME IInv, [Next]_vars
             PROVE  Promise!Next \/ UNCHANGED [f \in Families |-> Life(f)]
  OBVIOUS
<1>1. CASE tok' = tok
  BY <1>1 DEF Life, Unborn, LiveOf, Live
<1>2. CASE \E f \in Families : Login(f)
  BY <1>2, LoginWrites, WriteIsPromised
<1>3. CASE \E r \in Reqs : RefuseOutdated(r) \/ CommitRefresh(r) \/ Finish(r)
  BY <1>3, RefuseOutdatedWrites, CommitRefreshWrites, FinishWrites,
    WriteIsPromised
<1> QED
  BY <1>1, <1>2, <1>3
     DEF Next, vars, Tick, BeginRefresh, Logout, Rotate, RotateNothing,
     IssueNext,
         DeviceIsActive, DeviceIsRevoked, LogoutOthers, RevokeDevice,
         BeginPassword, RevokeAll, Abort

(* A login begins once, may end, and never comes back, whatever refreshes  *)
(* and revocations do at the same time.                                    *)
THEOREM PromiseIsKept == Spec => KeepsPromise
BY LifeInit, StepIsPromised, IInvAlways, PTL
  DEF Spec, KeepsPromise, Promise!Spec


-----------------------------------------------------------------------------
(* The theorems                                                            *)

AccessVars == <<part, vars, approvalVars, budgetVars, joinVars, inboxVars>>

LEMMA ApprovalsRun == Access =>
  Approval!Init /\ [][Approval!Next]_Approval!vars
<1>1. InitOfPart => Approval!Init
  BY DEF InitOfPart
<1>2. [NextOfPart]_AccessVars => [Approval!Next]_Approval!vars
  BY DEF NextOfPart, AccessVars, Sessions, Approvals, OfBudget, Joins, Answers,
    approvalVars, Approval!vars
<1> QED
  BY <1>1, <1>2, PTL DEF Access, AccessVars

LEMMA SessionsRun == Access => Spec
<1>1. InitOfPart => Init
  BY DEF InitOfPart
<1>2. [NextOfPart]_AccessVars => [Next]_vars
  BY DEF NextOfPart, AccessVars, Sessions, Approvals, OfBudget, Joins, Answers
<1> QED
  BY <1>1, <1>2, PTL DEF Access, AccessVars, Spec

LEMMA LoginInvAlways == Access => []LoginInv
<1>1. Approval!Init => LoginInv
  BY ApprovalAssumption
  DEF Approval!CodesAssumption, Approval!LimitsAssumption, Approval!Init,
    Approval!TypeOK, Approval!Status, Approval!Process, Approval!Idle,
    Approval!Decisions, Approval!At, LoginInv, HasRequest, InWhenCompleted,
    CodesAreHeld, WrongAreCounted
<1>2. LoginInv /\ [Approval!Next]_Approval!vars => LoginInv'
  BY LoginTypesHold, RequestsStayNamed, MachinesStayEarned, CodesStayUsed,
     WrongStayCounted DEF LoginInv
<1> QED
  BY <1>1, <1>2, ApprovalsRun, PTL

(* However polls, codes and decisions overlap, a request lets its machine  *)
(* in once at most and only when it was approved or a code was right, a    *)
(* recovery code is used up by the entry it gave and by no other, too many *)
(* wrong codes close a request for good, to codes that were entered before *)
(* as well, and what was decided stays decided; nor does a refresh that    *)
(* reads the user after a new password exchange an older token.            *)
THEOREM EntriesDoBelong == Access => EntriesAreEarned
<1>1. LoginInv => Approval!EnteredOnce /\ Approval!WrongCodesClose
  BY DEF LoginInv, InWhenCompleted, WrongAreCounted, Approval!EnteredOnce,
    Approval!WrongCodesClose
<1>2. LoginInv => Approval!CodesAreUsedByEntries
  <2> SUFFICES ASSUME LoginInv PROVE Approval!CodesAreUsedByEntries
    OBVIOUS
  <2>1. ASSUME NEW r \in Requests, via[r] = "recovery_code"
        PROVE  Cardinality({c \in Codes : usedFor[c] = r}) = 1
    <3>1. PICK c \in Codes : usedFor[c] = r
      BY <2>1 DEF LoginInv, CodesAreHeld
    <3>2. {d \in Codes : usedFor[d] = r} = {c}
      BY <3>1 DEF LoginInv, CodesAreHeld
    <3> QED
      BY <3>2, FS_Singleton
  <2>2. \A S : Approval!Cardinality(S) = Cardinality(S)
    BY DEF Approval!Cardinality, Cardinality
  <2> QED
    BY <2>1, <2>2, ApprovalAssumption DEF Approval!CodesAssumption, LoginInv,
      CodesAreHeld, Approval!CodesAreUsedByEntries
<1>3. LoginInv /\ [Approval!Next]_Approval!vars =>
        [\A r \in Requests :
           status'[r] # status[r] =>
             \/ status[r] \in {"unused", "pending"}
             \/ status[r] = "approved" /\
                  status'[r] = "completed"]_Approval!vars
  BY DecisionsStay DEF LoginInv
<1>4. Access => Approval!DecisionsStand
  BY <1>3, LoginInvAlways, ApprovalsRun, PTL DEF Approval!DecisionsStand
<1> QED
  BY <1>1, <1>2, <1>4, LoginInvAlways, SessionsRun, OutdatedIsRefused, PTL
  DEF EntriesAreEarned

-----------------------------------------------------------------------------
(* The budget                                                              *)

LEMMA SameBudget ==
  /\ BudgetProofs!ConstantsAssumption
  /\ Budget!Init => BudgetProofs!Init
  /\ [Budget!Next]_Budget!vars => [BudgetProofs!Next]_BudgetProofs!vars
<1>1. BudgetProofs!ConstantsAssumption
  BY BudgetAssumption
  DEF Budget!ConstantsAssumption, BudgetProofs!ConstantsAssumption,
    Budget!IsFiniteSet, BudgetProofs!IsFiniteSet
<1>2. Budget!Init => BudgetProofs!Init
  BY DEF Budget!Init, BudgetProofs!Init, Budget!Months, BudgetProofs!Months,
    Budget!Idle, BudgetProofs!Idle, Budget!Blank, BudgetProofs!Blank,
    Budget!Nothing, BudgetProofs!Nothing
<1>3. ASSUME NEW p \in Procs, NEW m \in Translated,
             Budget!BeginInbound(p, m)
      PROVE  BudgetProofs!BeginInbound(p, m)
  BY <1>3 DEF Budget!BeginInbound, Budget!Idle, Budget!Blank, Budget!Nothing,
    Budget!At, BudgetProofs!BeginInbound, BudgetProofs!Idle,
    BudgetProofs!Blank, BudgetProofs!Nothing, BudgetProofs!At
<1>4. ASSUME NEW p \in Procs, Budget!BeginOutbound(p)
      PROVE  BudgetProofs!BeginOutbound(p)
  BY <1>4 DEF Budget!BeginOutbound, Budget!Idle, Budget!Blank, Budget!Nothing,
    Budget!At, BudgetProofs!BeginOutbound, BudgetProofs!Idle,
    BudgetProofs!Blank, BudgetProofs!Nothing, BudgetProofs!At
<1>5. ASSUME NEW p \in Procs, Budget!LoadForReset(p)
      PROVE  BudgetProofs!LoadForReset(p)
  BY <1>5 DEF Budget!LoadForReset, Budget!At, Budget!Go,
    BudgetProofs!LoadForReset, BudgetProofs!At, BudgetProofs!Go
<1>6. ASSUME NEW p \in Procs, Budget!Reset(p)
      PROVE  BudgetProofs!Reset(p)
  BY <1>6 DEF Budget!Reset, Budget!At, Budget!Free, BudgetProofs!Reset,
    BudgetProofs!At, BudgetProofs!Free
<1>7. ASSUME NEW p \in Procs, Budget!CheckPasses(p)
      PROVE  BudgetProofs!CheckPasses(p)
  BY <1>7 DEF Budget!CheckPasses, Budget!At, Budget!Seen, Budget!Over,
    Budget!MayCall, Budget!Go, BudgetProofs!CheckPasses, BudgetProofs!At,
    BudgetProofs!Seen, BudgetProofs!Over, BudgetProofs!MayCall, BudgetProofs!Go
<1>8. ASSUME NEW p \in Procs, Budget!CheckStops(p)
      PROVE  BudgetProofs!CheckStops(p)
  BY <1>8 DEF Budget!CheckStops, Budget!At, Budget!Seen, Budget!Over,
    Budget!MayCall, Budget!Go, Budget!Rollback, Budget!Idle, Budget!Blank,
    Budget!Nothing, BudgetProofs!CheckStops, BudgetProofs!At,
    BudgetProofs!Seen, BudgetProofs!Over, BudgetProofs!MayCall,
    BudgetProofs!Go, BudgetProofs!Rollback, BudgetProofs!Idle,
    BudgetProofs!Blank, BudgetProofs!Nothing
<1>9. ASSUME NEW p \in Procs, Budget!Call(p)
      PROVE  BudgetProofs!Call(p)
  BY <1>9 DEF Budget!Call, Budget!At, BudgetProofs!Call, BudgetProofs!At
<1>10. ASSUME NEW p \in Procs, Budget!CallFails(p)
      PROVE  BudgetProofs!CallFails(p)
  BY <1>10 DEF Budget!CallFails, Budget!At, Budget!Rollback, Budget!Idle,
    Budget!Blank, Budget!Nothing, BudgetProofs!CallFails, BudgetProofs!At,
    BudgetProofs!Rollback, BudgetProofs!Idle, BudgetProofs!Blank,
    BudgetProofs!Nothing
<1>11. ASSUME NEW p \in Procs, Budget!Charge(p)
      PROVE  BudgetProofs!Charge(p)
  BY <1>11 DEF Budget!Charge, Budget!At, Budget!Free, Budget!Charged,
    Budget!Seen, Budget!Entry, Budget!Plus, Budget!InBudget, Budget!InLedger,
    BudgetProofs!Charge, BudgetProofs!At, BudgetProofs!Free,
    BudgetProofs!Charged, BudgetProofs!Seen, BudgetProofs!Entry,
    BudgetProofs!Plus, BudgetProofs!InBudget, BudgetProofs!InLedger
<1>12. ASSUME NEW p \in Procs, Budget!Parse(p)
      PROVE  BudgetProofs!Parse(p)
  BY <1>12 DEF Budget!Parse, Budget!At, Budget!Go, BudgetProofs!Parse,
    BudgetProofs!At, BudgetProofs!Go
<1>13. ASSUME NEW p \in Procs, Budget!ParseFails(p)
      PROVE  BudgetProofs!ParseFails(p)
  BY <1>13 DEF Budget!ParseFails, Budget!At, Budget!Rollback, Budget!Idle,
    Budget!Blank, Budget!Nothing, BudgetProofs!ParseFails, BudgetProofs!At,
    BudgetProofs!Rollback, BudgetProofs!Idle, BudgetProofs!Blank,
    BudgetProofs!Nothing
<1>14. ASSUME NEW p \in Procs, Budget!Save(p)
      PROVE  BudgetProofs!Save(p)
  BY <1>14 DEF Budget!Save, Budget!At, Budget!Plus, Budget!Rollback,
    Budget!Idle, Budget!Blank, Budget!Nothing, BudgetProofs!Save,
    BudgetProofs!At, BudgetProofs!Plus, BudgetProofs!Rollback,
    BudgetProofs!Idle, BudgetProofs!Blank, BudgetProofs!Nothing
<1>15. ASSUME Budget!UpsertBudget
      PROVE  BudgetProofs!UpsertBudget
  BY <1>15 DEF Budget!UpsertBudget, BudgetProofs!UpsertBudget
<1>16. ASSUME Budget!NextMonth
      PROVE  BudgetProofs!NextMonth
  BY <1>16 DEF Budget!NextMonth, Budget!At, BudgetProofs!NextMonth,
    BudgetProofs!At
<1>17. [Budget!Next]_Budget!vars => [BudgetProofs!Next]_BudgetProofs!vars
  BY <1>3, <1>4, <1>5, <1>6, <1>7, <1>8, <1>9, <1>10, <1>11, <1>12, <1>13,
     <1>14, <1>15, <1>16
  DEF Budget!Next, Budget!vars, BudgetProofs!Next, BudgetProofs!vars
<1> QED
  BY <1>1, <1>2, <1>17

LEMMA SameMonths ==
  /\ MonthsProofs!ConstantsAssumption
  /\ Months!Init => MonthsProofs!Init
  /\ [Months!Next]_Months!vars => [MonthsProofs!Next]_MonthsProofs!vars
<1>1. MonthsProofs!ConstantsAssumption
  BY BudgetAssumption
  DEF Months!ConstantsAssumption, MonthsProofs!ConstantsAssumption,
    Months!IsFiniteSet, MonthsProofs!IsFiniteSet
<1>2. Months!Init => MonthsProofs!Init
  BY DEF Months!Init, MonthsProofs!Init, Months!Months, MonthsProofs!Months,
    Months!Idle, MonthsProofs!Idle, Months!Blank, MonthsProofs!Blank,
    Months!Nothing, MonthsProofs!Nothing
<1>3. ASSUME NEW p \in OneProc, NEW m \in Translated,
             Months!BeginInbound(p, m)
      PROVE  MonthsProofs!BeginInbound(p, m)
  BY <1>3 DEF Months!BeginInbound, Months!Idle, Months!Blank, Months!Nothing,
    Months!At, MonthsProofs!BeginInbound, MonthsProofs!Idle,
    MonthsProofs!Blank, MonthsProofs!Nothing, MonthsProofs!At
<1>4. ASSUME NEW p \in OneProc, Months!BeginOutbound(p)
      PROVE  MonthsProofs!BeginOutbound(p)
  BY <1>4 DEF Months!BeginOutbound, Months!Idle, Months!Blank, Months!Nothing,
    Months!At, MonthsProofs!BeginOutbound, MonthsProofs!Idle,
    MonthsProofs!Blank, MonthsProofs!Nothing, MonthsProofs!At
<1>5. ASSUME NEW p \in OneProc, Months!LoadForReset(p)
      PROVE  MonthsProofs!LoadForReset(p)
  BY <1>5 DEF Months!LoadForReset, Months!At, Months!Go,
    MonthsProofs!LoadForReset, MonthsProofs!At, MonthsProofs!Go
<1>6. ASSUME NEW p \in OneProc, Months!Reset(p)
      PROVE  MonthsProofs!Reset(p)
  BY <1>6 DEF Months!Reset, Months!At, Months!Free, MonthsProofs!Reset,
    MonthsProofs!At, MonthsProofs!Free
<1>7. ASSUME NEW p \in OneProc, Months!CheckPasses(p)
      PROVE  MonthsProofs!CheckPasses(p)
  BY <1>7 DEF Months!CheckPasses, Months!At, Months!Seen, Months!Over,
    Months!MayCall, Months!Go, MonthsProofs!CheckPasses, MonthsProofs!At,
    MonthsProofs!Seen, MonthsProofs!Over, MonthsProofs!MayCall, MonthsProofs!Go
<1>8. ASSUME NEW p \in OneProc, Months!CheckStops(p)
      PROVE  MonthsProofs!CheckStops(p)
  BY <1>8 DEF Months!CheckStops, Months!At, Months!Seen, Months!Over,
    Months!MayCall, Months!Go, Months!Rollback, Months!Idle, Months!Blank,
    Months!Nothing, MonthsProofs!CheckStops, MonthsProofs!At,
    MonthsProofs!Seen, MonthsProofs!Over, MonthsProofs!MayCall,
    MonthsProofs!Go, MonthsProofs!Rollback, MonthsProofs!Idle,
    MonthsProofs!Blank, MonthsProofs!Nothing
<1>9. ASSUME NEW p \in OneProc, Months!Call(p)
      PROVE  MonthsProofs!Call(p)
  BY <1>9 DEF Months!Call, Months!At, MonthsProofs!Call, MonthsProofs!At
<1>10. ASSUME NEW p \in OneProc, Months!CallFails(p)
      PROVE  MonthsProofs!CallFails(p)
  BY <1>10 DEF Months!CallFails, Months!At, Months!Rollback, Months!Idle,
    Months!Blank, Months!Nothing, MonthsProofs!CallFails, MonthsProofs!At,
    MonthsProofs!Rollback, MonthsProofs!Idle, MonthsProofs!Blank,
    MonthsProofs!Nothing
<1>11. ASSUME NEW p \in OneProc, Months!Charge(p)
      PROVE  MonthsProofs!Charge(p)
  BY <1>11 DEF Months!Charge, Months!At, Months!Free, Months!Charged,
    Months!Seen, Months!Entry, Months!Plus, Months!InBudget, Months!InLedger,
    MonthsProofs!Charge, MonthsProofs!At, MonthsProofs!Free,
    MonthsProofs!Charged, MonthsProofs!Seen, MonthsProofs!Entry,
    MonthsProofs!Plus, MonthsProofs!InBudget, MonthsProofs!InLedger
<1>12. ASSUME NEW p \in OneProc, Months!Parse(p)
      PROVE  MonthsProofs!Parse(p)
  BY <1>12 DEF Months!Parse, Months!At, Months!Go, MonthsProofs!Parse,
    MonthsProofs!At, MonthsProofs!Go
<1>13. ASSUME NEW p \in OneProc, Months!ParseFails(p)
      PROVE  MonthsProofs!ParseFails(p)
  BY <1>13 DEF Months!ParseFails, Months!At, Months!Rollback, Months!Idle,
    Months!Blank, Months!Nothing, MonthsProofs!ParseFails, MonthsProofs!At,
    MonthsProofs!Rollback, MonthsProofs!Idle, MonthsProofs!Blank,
    MonthsProofs!Nothing
<1>14. ASSUME NEW p \in OneProc, Months!Save(p)
      PROVE  MonthsProofs!Save(p)
  BY <1>14 DEF Months!Save, Months!At, Months!Plus, Months!Rollback,
    Months!Idle, Months!Blank, Months!Nothing, MonthsProofs!Save,
    MonthsProofs!At, MonthsProofs!Plus, MonthsProofs!Rollback,
    MonthsProofs!Idle, MonthsProofs!Blank, MonthsProofs!Nothing
<1>15. ASSUME Months!UpsertBudget
      PROVE  MonthsProofs!UpsertBudget
  BY <1>15 DEF Months!UpsertBudget, MonthsProofs!UpsertBudget
<1>16. ASSUME Months!NextMonth
      PROVE  MonthsProofs!NextMonth
  BY <1>16 DEF Months!NextMonth, Months!At, MonthsProofs!NextMonth,
    MonthsProofs!At
<1>17. [Months!Next]_Months!vars => [MonthsProofs!Next]_MonthsProofs!vars
  BY <1>3, <1>4, <1>5, <1>6, <1>7, <1>8, <1>9, <1>10, <1>11, <1>12, <1>13,
     <1>14, <1>15, <1>16
  DEF Months!Next, Months!vars, MonthsProofs!Next, MonthsProofs!vars
<1> QED
  BY <1>1, <1>2, <1>17

InMonths == part = "months"

LEMMA BudgetRuns ==
  Access => \/ []InMonths /\ MonthsProofs!Spec
            \/ [](~ InMonths) /\ BudgetProofs!Spec
<1>1. /\ InitOfPart /\ InMonths => MonthsProofs!Init
      /\ InitOfPart /\ ~ InMonths => BudgetProofs!Init
  BY SameBudget, SameMonths DEF InitOfPart, InMonths
<1>2. InMonths /\ [NextOfPart]_AccessVars =>
        InMonths' /\ [MonthsProofs!Next]_MonthsProofs!vars
  <2>1. InMonths /\ [NextOfPart]_AccessVars =>
          InMonths' /\ [Months!Next]_Months!vars
    BY DEF NextOfPart, AccessVars, Sessions, Approvals, OfBudget, Joins,
      Answers,
      budgetVars, Months!vars, InMonths
  <2> QED
    BY <2>1, SameMonths
<1>3. ~ InMonths /\ [NextOfPart]_AccessVars =>
        ~ InMonths' /\ [BudgetProofs!Next]_BudgetProofs!vars
  <2>1. ~ InMonths /\ [NextOfPart]_AccessVars =>
          ~ InMonths' /\ [Budget!Next]_Budget!vars
    BY DEF NextOfPart, AccessVars, Sessions, Approvals, OfBudget, Joins,
      Answers,
      budgetVars, Budget!vars, InMonths
  <2> QED
    BY <2>1, SameBudget
<1> QED
  BY <1>1, <1>2, <1>3, PTL
  DEF Access, AccessVars, MonthsProofs!Spec, BudgetProofs!Spec

(* The budget of the month is charged what the ledger says of it, and a    *)
(* hard stop is passed only by translations that had been checked before.  *)
THEOREM BudgetDoesHold == Access => []BudgetHolds
<1>1. BudgetProofs!Spec => []BudgetProofs!MonthIsCounted
  <2>1. BudgetProofs!Alone
    BY DEF BudgetProofs!Alone
  <2> QED
    BY <2>1, SameBudget, BudgetProofs!MonthDoesCount
<1>2. MonthsProofs!Spec => []MonthsProofs!MonthIsCounted
  <2>1. MonthsProofs!Alone
    BY BudgetAssumption DEF MonthsProofs!Alone
  <2> QED
    BY <2>1, SameMonths, MonthsProofs!MonthDoesCount
<1>3. BudgetProofs!Spec => []BudgetProofs!OverspendIsBounded
  BY SameBudget, BudgetProofs!OverspendingIsBounded
<1>4. /\ Budget!MonthIsCounted <=> BudgetProofs!MonthIsCounted
      /\ Budget!MonthIsCounted <=> MonthsProofs!MonthIsCounted
  BY DEF Budget!MonthIsCounted, Budget!Agree, BudgetProofs!MonthIsCounted,
    BudgetProofs!Agree, MonthsProofs!MonthIsCounted, MonthsProofs!Agree
<1>5. \A c : Budget!InBudget(c) = BudgetProofs!InBudget(c)
  BY DEF Budget!InBudget, BudgetProofs!InBudget
<1>6. Budget!Cardinality(Procs) = BudgetProofs!Cardinality(Procs)
  BY DEF Budget!Cardinality, BudgetProofs!Cardinality
<1>7. BudgetProofs!OverspendIsBounded => Budget!OverspendIsBounded
  BY <1>5, <1>6
  DEF Budget!OverspendIsBounded, BudgetProofs!OverspendIsBounded
<1>8. /\ InMonths /\ MonthsProofs!MonthIsCounted => BudgetHolds
      /\ ~ InMonths /\ BudgetProofs!MonthIsCounted
           /\ BudgetProofs!OverspendIsBounded => BudgetHolds
  BY <1>4, <1>7 DEF BudgetHolds, InMonths
<1> QED
  BY <1>1, <1>2, <1>3, <1>8, BudgetRuns, PTL

-----------------------------------------------------------------------------
(* Invitations of staff                                                    *)

(* The inductive invariant                                                 *)

Entering(p) == entry[p].at \in {"locked", "room"}
HasRoom(p) == entry[p].at \in {"room", "discarding"}

(* Whoever enters a code holds its row, whose person has not joined yet.   *)
EntriesHoldTheRow ==
  \A p \in Procs :
    /\ entry[p].at # "idle" =>
         entry[p].invite \in Invites /\ entry[p].member \in Members
    /\ Entering(p) =>
         /\ lock[entry[p].invite] = p
         /\ invite[entry[p].invite].status = "submitted"
         /\ invite[entry[p].invite].room = None

(* A room that was made for somebody who is entering a code is new, and    *)
(* nobody else's.                                                          *)
NewRoomsAreTheirs ==
  /\ \A p \in Procs : HasRoom(p) =>
       /\ entry[p].room \in Rooms
       /\ room[entry[p].room].age = "new"
       /\ room[entry[p].room].invite = entry[p].invite
       /\ \A i \in Invites : invite[i].room # entry[p].room
  /\ \A p \in Procs : ~ HasRoom(p) => entry[p].room = None
  /\ \A p, q \in Procs :
       p # q /\ entry[p].room = entry[q].room => entry[p].room = None

(* The room that an invitation names stands, and was made for it.          *)
NamedRoomsStand ==
  \A i \in Invites : invite[i].room # None =>
    /\ room[invite[i].room].age \in {"new", "old"}
    /\ room[invite[i].room].invite = i

(* A room is an invitation's as long as it stands.                         *)
RoomsAreOfInvites ==
  \A r \in Rooms : room[r].age \in {"new", "old"} => room[r].invite \in Invites

(* What a sweep has listed is not new, and what it is about to delete is   *)
(* nobody's.                                                               *)
SweptAreNobodys ==
  \A s \in Sweepers :
    /\ \A r \in sweep[s].listed \cup sweep[s].orphans :
         room[r].age \in {"old", "gone"}
    /\ \A r \in sweep[s].orphans : \A i \in Invites : invite[i].room # r

(* An invitation has made its person when it was submitted, and has its    *)
(* member and its room when it is linked.                                  *)
PeopleAreCounted ==
  \A i \in Invites :
    /\ people[i] = IF invite[i].status \in
         {"submitted", "linked"} THEN 1 ELSE 0
    /\ (invite[i].status = "linked") = (discord[i] # None)
    /\ (invite[i].status = "linked") = (invite[i].room # None)

MembersAreOne ==
  \A i, j \in Invites : discord[i] = discord[j] /\ i # j => discord[i] = None

JoinInv ==
  /\ Join!TypeOK /\ EntriesHoldTheRow /\ NewRoomsAreTheirs /\ NamedRoomsStand
  /\ RoomsAreOfInvites /\ SweptAreNobodys /\ PeopleAreCounted /\ MembersAreOne

InviteRow == [status : {"none", "open", "submitted", "linked", "revoked"},
              key : 0..1, alive : BOOLEAN, code : BOOLEAN,
              room : Rooms \cup {None}]
RoomRow == [invite : Invites \cup {None}, age : {"none", "new", "old", "gone"}]
LinkRow == [at : {"idle", "checked", "locked", "room", "discarding"},
            invite : Invites \cup {None}, member : Members \cup {None},
            room : Rooms \cup {None}]
SweepRow == [at : {"idle", "reading", "deleting"},
             listed : SUBSET Rooms, orphans : SUBSET Rooms]

LEMMA JoinTypesHold ==
  ASSUME JoinInv, [Join!Next]_Join!vars
  PROVE  Join!TypeOK'
<1> USE DEF Join!TypeOK, Join!NoFault
<1>1. /\ users' \subseteq Emails
      /\ people' \in [Invites -> Nat]
      /\ joinFaults' \in 0..1
  <2>0. /\ users \subseteq Emails
        /\ people \in [Invites -> Nat]
        /\ joinFaults \in 0..1
    BY DEF JoinInv
  <2>1. users' = users \/ \E e \in Emails : users' = users \cup {e}
    BY DEF Join!Next, Join!vars, Join!CreateInvite, Join!Reissue, Join!Revoke,
      Join!Expire, Join!Submit, Join!Precheck, Join!LinkStep, Join!TakeCode,
      Join!MakeRoom, Join!CommitLink, Join!Discard, Join!BotDies,
      Join!SweepStep, Join!ListRooms, Join!ReadInvites, Join!DeleteRoom,
      Join!SweepEnds, Join!Ages
  <2>2. people' = people \/ \E i \in Invites :
          people' = [people EXCEPT ![i] = @ + 1]
    BY DEF Join!Next, Join!vars, Join!CreateInvite, Join!Reissue, Join!Revoke,
      Join!Expire, Join!Submit, Join!Precheck, Join!LinkStep, Join!TakeCode,
      Join!MakeRoom, Join!CommitLink, Join!Discard, Join!BotDies,
      Join!SweepStep, Join!ListRooms, Join!ReadInvites, Join!DeleteRoom,
      Join!SweepEnds, Join!Ages
  <2>3. joinFaults' = joinFaults \/ Join!Fault
    <3>1. CASE \E p \in Procs : Join!LinkStep(p)
      BY <3>1 DEF Join!LinkStep, Join!TakeCode, Join!MakeRoom,
        Join!CommitLink, Join!Discard
    <3>2. CASE \E s \in Sweepers : Join!SweepStep(s)
      BY <3>2 DEF Join!SweepStep, Join!ListRooms, Join!ReadInvites,
        Join!DeleteRoom, Join!SweepEnds
    <3> QED
      BY <3>1, <3>2 DEF Join!Next, Join!vars, Join!CreateInvite, Join!Reissue,
        Join!Revoke, Join!Expire, Join!Submit, Join!Precheck, Join!BotDies,
        Join!Ages
  <2>4. joinFaults' \in 0..1
    BY <2>0, <2>3, JoinAssumption DEF Join!Fault, Join!StaffJoinAssumption
  <2> QED  BY <2>0, <2>1, <2>2, <2>4
<1>2. invite' \in [Invites -> InviteRow]
  <2> USE DEF InviteRow
  <2>0. invite \in [Invites -> InviteRow]
    BY DEF JoinInv
  <2> HIDE DEF Join!TypeOK
  <2>1. ASSUME NEW i \in Invites, Join!CreateInvite(i) \/ Join!Reissue(i) \/
               Join!Revoke(i) \/ Join!Expire(i)
        PROVE  invite' \in [Invites -> InviteRow]
    <3>1. CASE Join!CreateInvite(i)
      <4>1. 1 \in 0..1
        BY JoinAssumption DEF Join!StaffJoinAssumption
      <4> QED
        BY <2>0, <3>1, <4>1 DEF Join!CreateInvite, Join!NoInvite
    <3>2. CASE Join!Reissue(i)
      <4>1. invite[i].key + 1 \in 0..1
        BY <2>0, <3>2, JoinAssumption DEF Join!StaffJoinAssumption,
          Join!Reissue
      <4> QED
        BY <2>0, <3>2, <4>1 DEF Join!Reissue
    <3>3. CASE Join!Revoke(i)
      BY <2>0, <3>3 DEF Join!Revoke
    <3>4. CASE Join!Expire(i)
      BY <2>0, <3>4 DEF Join!Expire
    <3> QED
      BY <2>1, <3>1, <3>2, <3>3, <3>4
  <2>2. ASSUME NEW i \in Invites, NEW k \in 1..1, NEW e \in Emails,
               Join!Submit(i, k, e)
        PROVE  invite' \in [Invites -> InviteRow]
    <3>1. DOMAIN invite = Invites /\ invite[i] \in InviteRow
      BY <2>0
    <3>2. [invite[i] EXCEPT !.status = "submitted", !.alive = TRUE,
            !.code = TRUE] \in InviteRow
      BY <3>1
    <3>3. invite' = [invite EXCEPT ![i] =
                       [invite[i] EXCEPT !.status = "submitted", !.alive = TRUE,
                                         !.code = TRUE]]
      BY <2>0, <2>2 DEF Join!Submit
    <3> HIDE DEF InviteRow
    <3> QED
      BY <2>0, <3>2, <3>3
  <2>3. ASSUME NEW p \in Procs, Join!CommitLink(p)
        PROVE  invite' \in [Invites -> InviteRow]
    <3>1. entry[p].room \in Rooms \cup {None}
      BY DEF JoinInv, Join!TypeOK
    <3> QED
      BY <2>0, <2>3, <3>1 DEF Join!CommitLink
  <2> QED
    BY <2>0, <2>1, <2>2, <2>3 DEF Join!Next, Join!vars, Join!Precheck,
      Join!LinkStep, Join!TakeCode, Join!MakeRoom, Join!Discard, Join!BotDies,
      Join!SweepStep, Join!ListRooms, Join!ReadInvites, Join!DeleteRoom,
      Join!SweepEnds, Join!Ages
<1>3. room' \in [Rooms -> RoomRow]
  <2> USE DEF RoomRow
  <2>0. room \in [Rooms -> RoomRow]
    BY DEF JoinInv
  <2>1. ASSUME NEW p \in Procs, Join!MakeRoom(p)
        PROVE  room' \in [Rooms -> RoomRow]
    BY <2>0, <2>1 DEF Join!MakeRoom, JoinInv
  <2>2. ASSUME NEW p \in Procs, Join!Discard(p)
        PROVE  room' \in [Rooms -> RoomRow]
    BY <2>0, <2>2 DEF Join!Discard, Join!Deleted
  <2>3. ASSUME NEW s \in Sweepers, NEW r \in Rooms, Join!DeleteRoom(s, r)
        PROVE  room' \in [Rooms -> RoomRow]
    BY <2>0, <2>3 DEF Join!DeleteRoom, Join!Deleted
  <2>4. ASSUME NEW r \in Rooms, Join!Ages(r)
        PROVE  room' \in [Rooms -> RoomRow]
    BY <2>0, <2>4 DEF Join!Ages
  <2> QED
    BY <2>0, <2>1, <2>2, <2>3, <2>4 DEF Join!Next, Join!vars,
      Join!CreateInvite, Join!Reissue, Join!Revoke, Join!Expire, Join!Submit,
      Join!Precheck, Join!LinkStep, Join!TakeCode, Join!CommitLink,
      Join!BotDies, Join!SweepStep, Join!ListRooms, Join!ReadInvites,
      Join!SweepEnds
<1>4. entry' \in [Procs -> LinkRow]
  <2> USE DEF LinkRow, Join!NoLink
  <2>0. entry \in [Procs -> LinkRow]
    BY DEF JoinInv
  <2>1. ASSUME NEW p \in Procs, NEW i \in Invites, NEW m \in Members,
               Join!Precheck(p, i, m)
        PROVE  entry' \in [Procs -> LinkRow]
    BY <2>0, <2>1 DEF Join!Precheck
  <2>2. ASSUME NEW p \in Procs, Join!TakeCode(p)
        PROVE  entry' \in [Procs -> LinkRow]
    BY <2>0, <2>2 DEF Join!TakeCode
  <2>3. ASSUME NEW p \in Procs, Join!MakeRoom(p)
        PROVE  entry' \in [Procs -> LinkRow]
    BY <2>0, <2>3 DEF Join!MakeRoom
  <2>4. ASSUME NEW p \in Procs, Join!CommitLink(p) \/ Join!Discard(p)
        PROVE  entry' \in [Procs -> LinkRow]
    BY <2>0, <2>4 DEF Join!CommitLink, Join!Discard
  <2>5. ASSUME Join!BotDies
        PROVE  entry' \in [Procs -> LinkRow]
    BY <2>5 DEF Join!BotDies
  <2> QED
    BY <2>0, <2>1, <2>2, <2>3, <2>4, <2>5 DEF Join!Next, Join!vars,
      Join!CreateInvite, Join!Reissue, Join!Revoke, Join!Expire, Join!Submit,
      Join!LinkStep, Join!SweepStep, Join!ListRooms, Join!ReadInvites,
      Join!DeleteRoom, Join!SweepEnds, Join!Ages
<1>5. sweep' \in [Sweepers -> SweepRow]
  <2> USE DEF SweepRow, Join!NoSweep
  <2>0. sweep \in [Sweepers -> SweepRow]
    BY DEF JoinInv
  <2>1. ASSUME NEW s \in Sweepers, Join!ListRooms(s) \/ Join!SweepEnds(s)
        PROVE  sweep' \in [Sweepers -> SweepRow]
    BY <2>0, <2>1 DEF Join!ListRooms, Join!SweepEnds, Join!OldEnough
  <2>2. ASSUME NEW s \in Sweepers, Join!ReadInvites(s)
        PROVE  sweep' \in [Sweepers -> SweepRow]
    <3>1. Join!Orphans(sweep[s].listed) \subseteq Rooms
      BY <2>0 DEF Join!Orphans
    <3> QED
      BY <2>0, <2>2, <3>1 DEF Join!ReadInvites
  <2>3. ASSUME NEW s \in Sweepers, NEW r \in Rooms, Join!DeleteRoom(s, r)
        PROVE  sweep' \in [Sweepers -> SweepRow]
    BY <2>0, <2>3 DEF Join!DeleteRoom
  <2>4. ASSUME Join!BotDies
        PROVE  sweep' \in [Sweepers -> SweepRow]
    BY <2>4 DEF Join!BotDies
  <2> QED
    BY <2>0, <2>1, <2>2, <2>3, <2>4 DEF Join!Next, Join!vars,
      Join!CreateInvite, Join!Reissue, Join!Revoke, Join!Expire, Join!Submit,
      Join!Precheck, Join!LinkStep, Join!TakeCode, Join!MakeRoom,
      Join!CommitLink, Join!Discard, Join!SweepStep, Join!Ages
<1>6. discord' \in [Invites -> Members \cup {None}]
  <2>0. /\ discord \in [Invites -> Members \cup {None}]
        /\ entry \in [Procs -> LinkRow]
    BY DEF JoinInv, LinkRow
  <2>1. ASSUME NEW p \in Procs, Join!CommitLink(p)
        PROVE  discord' \in [Invites -> Members \cup {None}]
    BY <2>0, <2>1 DEF Join!CommitLink, LinkRow
  <2> QED
    BY <2>0, <2>1 DEF Join!Next, Join!vars, Join!CreateInvite, Join!Reissue,
      Join!Revoke, Join!Expire, Join!Submit, Join!Precheck, Join!LinkStep,
      Join!TakeCode, Join!MakeRoom, Join!Discard, Join!BotDies,
      Join!SweepStep, Join!ListRooms, Join!ReadInvites, Join!DeleteRoom,
      Join!SweepEnds, Join!Ages
<1>7. lock' \in [Invites -> Procs \cup {None}]
  <2>0. lock \in [Invites -> Procs \cup {None}] /\ entry \in [Procs -> LinkRow]
    BY DEF JoinInv, LinkRow
  <2> QED
    BY <2>0 DEF Join!Next, Join!vars, Join!CreateInvite, Join!Reissue,
      Join!Revoke, Join!Expire, Join!Submit, Join!Precheck, Join!LinkStep,
      Join!TakeCode, Join!MakeRoom, Join!CommitLink, Join!Discard,
      Join!BotDies, Join!SweepStep, Join!ListRooms, Join!ReadInvites,
      Join!DeleteRoom, Join!SweepEnds, Join!Ages, Join!Unlocked
<1>8. \A i \in Invites, p \in Procs :
        lock'[i] = p => entry'[p].at \in {"locked", "room"} /\
          entry'[p].invite = i
  <2>0. /\ lock \in [Invites -> Procs \cup {None}]
        /\ entry \in [Procs -> LinkRow]
        /\ \A i \in Invites, p \in Procs :
             lock[i] = p =>
               entry[p].at \in {"locked", "room"} /\ entry[p].invite = i
    BY DEF JoinInv, LinkRow
  <2>1. ASSUME NEW p \in Procs, Join!TakeCode(p) \/ Join!MakeRoom(p) \/
               Join!CommitLink(p) \/ Join!Discard(p)
        PROVE  \A q \in Procs \ {p} : entry'[q] = entry[q]
    BY <2>0, <2>1 DEF Join!TakeCode, Join!MakeRoom, Join!CommitLink,
      Join!Discard
  <2> SUFFICES ASSUME NEW i \in Invites, NEW q \in Procs, lock'[i] = q
               PROVE  entry'[q].at \in {"locked", "room"} /\
                        entry'[q].invite = i
    OBVIOUS
  <2>2. CASE \E p \in Procs : Join!TakeCode(p)
    BY <2>0, <2>1, <2>2 DEF Join!TakeCode, LinkRow, Join!NoLink
  <2>3. CASE \E p \in Procs : Join!MakeRoom(p)
    BY <2>0, <2>1, <2>3, JoinAssumption DEF Join!StaffJoinAssumption,
      Join!MakeRoom, Join!Unlocked, LinkRow
  <2>4. CASE \E p \in Procs : Join!CommitLink(p) \/ Join!Discard(p)
    <3>1. PICK p \in Procs : Join!CommitLink(p) \/ Join!Discard(p)
      BY <2>4
    <3>2. q # p
      BY <2>0, <3>1, JoinAssumption DEF Join!StaffJoinAssumption,
        Join!CommitLink, Join!Discard, Join!Unlocked
    <3>3. lock[i] = q
      BY <2>0, <3>1, JoinAssumption DEF Join!StaffJoinAssumption,
        Join!CommitLink, Join!Discard, Join!Unlocked
    <3> QED
      BY <2>0, <2>1, <3>1, <3>2, <3>3
  <2>5. CASE Join!BotDies
    BY <2>5, JoinAssumption DEF Join!StaffJoinAssumption, Join!BotDies
  <2>6. CASE \E p \in Procs, j \in Invites, m \in Members :
               Join!Precheck(p, j, m)
    BY <2>0, <2>6 DEF Join!Precheck
  <2> QED
    BY <2>0, <2>2, <2>3, <2>4, <2>5, <2>6 DEF Join!Next, Join!vars,
      Join!CreateInvite, Join!Reissue, Join!Revoke, Join!Expire, Join!Submit,
      Join!LinkStep, Join!SweepStep, Join!ListRooms, Join!ReadInvites,
      Join!DeleteRoom, Join!SweepEnds, Join!Ages
<1> QED
  BY <1>1, <1>2, <1>3, <1>4, <1>5, <1>6, <1>7, <1>8 DEF InviteRow, RoomRow,
    LinkRow, SweepRow

LEMMA JoinFunctions ==
  ASSUME JoinInv
  PROVE  /\ invite \in [Invites -> InviteRow] /\ room \in [Rooms -> RoomRow]
         /\ entry \in [Procs -> LinkRow] /\ sweep \in [Sweepers -> SweepRow]
         /\ discord \in [Invites -> Members \cup {None}]
         /\ people \in [Invites -> Nat]
         /\ lock \in [Invites -> Procs \cup {None}]
BY DEF JoinInv, Join!TypeOK, InviteRow, RoomRow, LinkRow, SweepRow

(* The administrator, the applicant and time change neither rooms nor who  *)
(* enters a code.                                                          *)
LEMMA OfficeKeeps ==
  ASSUME JoinInv, NEW i \in Invites,
         \/ Join!CreateInvite(i) \/ Join!Reissue(i) \/ Join!Revoke(i) \/
              Join!Expire(i)
         \/ \E k \in 1..1, e \in Emails : Join!Submit(i, k, e)
  PROVE  /\ EntriesHoldTheRow' /\ NewRoomsAreTheirs' /\ NamedRoomsStand'
         /\ RoomsAreOfInvites' /\ SweptAreNobodys' /\ PeopleAreCounted'
         /\ MembersAreOne'
<1>1. /\ UNCHANGED <<discord, room, entry, lock, sweep>>
      /\ \A j \in Invites : j # i =>
           invite'[j] = invite[j] /\ people'[j] = people[j]
      /\ invite'[i].room = invite[i].room
      /\ \/ invite[i].status \in {"none", "open"} /\
              invite'[i].status \in {"open", "revoked"} /\ people' = people
         \/ invite'[i].status = invite[i].status /\ people' = people
         \/ invite[i].status = "open" /\ invite'[i].status = "submitted" /\
              people'[i] = people[i] + 1
  <2> USE JoinFunctions
  <2>1. CASE Join!CreateInvite(i)
    BY <2>1 DEF JoinInv, PeopleAreCounted, Join!CreateInvite, Join!NoInvite
  <2>2. CASE Join!Reissue(i) \/ Join!Revoke(i) \/ Join!Expire(i)
    BY <2>2 DEF Join!Reissue, Join!Revoke, Join!Expire, Join!OpenInvite,
      InviteRow
  <2>3. CASE \E k \in 1..1, e \in Emails : Join!Submit(i, k, e)
    BY <2>3 DEF Join!Submit, Join!OpenInvite, Join!Usable, InviteRow
  <2> QED
    BY <2>1, <2>2, <2>3
<1> HIDE DEF Join!CreateInvite
<1>2. EntriesHoldTheRow'
  BY <1>1 DEF JoinInv, EntriesHoldTheRow, Entering
<1>3. /\ NewRoomsAreTheirs' /\ NamedRoomsStand' /\ RoomsAreOfInvites'
      /\ SweptAreNobodys' /\ MembersAreOne'
  <2>1. \A j \in Invites : invite'[j].room = invite[j].room
    BY <1>1
  <2> QED
    BY <1>1, <2>1 DEF JoinInv, NewRoomsAreTheirs, HasRoom, NamedRoomsStand,
      RoomsAreOfInvites, SweptAreNobodys, MembersAreOne
<1>4. PeopleAreCounted'
  BY <1>1 DEF JoinInv, PeopleAreCounted
<1> QED
  BY <1>2, <1>3, <1>4

(* One entry goes on, or ends, and nothing else changes.                   *)
LEMMA EntryKeeps ==
  ASSUME JoinInv, NEW p \in Procs,
         \/ \E i \in Invites, m \in Members : Join!Precheck(p, i, m)
         \/ Join!TakeCode(p)
         \/ Join!MakeRoom(p) /\ UNCHANGED room
  PROVE  /\ EntriesHoldTheRow' /\ NewRoomsAreTheirs' /\ NamedRoomsStand'
         /\ RoomsAreOfInvites' /\ SweptAreNobodys' /\ PeopleAreCounted'
         /\ MembersAreOne'
<1>1. /\ UNCHANGED <<invite, users, discord, room, sweep, people>>
      /\ \A q \in Procs : q # p => entry'[q] = entry[q]
      /\ entry[p].room = None /\ ~ HasRoom(p)
      /\ entry'[p].room = None /\ ~ HasRoom(p)'
  <2>1. CASE \E i \in Invites, m \in Members : Join!Precheck(p, i, m)
    BY <2>1, JoinFunctions DEF Join!Precheck, JoinInv, NewRoomsAreTheirs,
      HasRoom, LinkRow
  <2>2. CASE Join!TakeCode(p)
    BY <2>2, JoinFunctions DEF Join!TakeCode, Join!NoLink, LinkRow, JoinInv,
      NewRoomsAreTheirs, HasRoom
  <2>3. CASE Join!MakeRoom(p) /\ UNCHANGED room
    <3>1. entry' = [entry EXCEPT ![p] = Join!NoLink] /\ entry[p].at = "locked"
      <4>1. \A s \in Rooms : room[s].age = "none" =>
              [room EXCEPT ![s] = [invite |-> entry[p].invite,
                age |-> "new"]] # room
        BY JoinFunctions
      <4> QED
        BY <2>3, <4>1 DEF Join!MakeRoom
    <3> QED
      BY <2>3, <3>1, JoinFunctions DEF Join!MakeRoom, Join!NoLink, JoinInv,
        NewRoomsAreTheirs, HasRoom
  <2> QED
    BY <2>1, <2>2, <2>3
<1>2. EntriesHoldTheRow'
  <2> USE JoinAssumption DEF Join!StaffJoinAssumption, JoinInv, Join!TypeOK,
        EntriesHoldTheRow, Entering
  <2>1. CASE \E i \in Invites, m \in Members : Join!Precheck(p, i, m)
    BY <2>1 DEF Join!Precheck
  <2>2. CASE Join!TakeCode(p)
    <3> DEFINE i == entry[p].invite
    <3>1. CASE Join!Linkable(i, entry[p].member)
      <4>1. /\ lock' = [lock EXCEPT ![i] = p]
            /\ entry' = [entry EXCEPT ![p].at = "locked"]
        BY <2>2, <3>1 DEF Join!TakeCode
      <4>2. /\ i \in Invites /\ entry[p].member \in Members /\ lock[i] = None
            /\ entry'[p].invite = i /\ entry'[p].member = entry[p].member
            /\ lock'[i] = p
            /\ invite[i].status = "submitted" /\ invite[i].room = None
        BY <2>2, <3>1, <4>1, JoinFunctions DEF Join!TakeCode, Join!Linkable,
          PeopleAreCounted, LinkRow
      <4> HIDE DEF i, Join!TypeOK
      <4> QED
        BY <1>1, <4>1, <4>2, JoinFunctions
    <3>2. CASE ~ Join!Linkable(i, entry[p].member)
      <4>1. entry' = [entry EXCEPT ![p] = Join!NoLink] /\ UNCHANGED lock
        BY <2>2, <3>2 DEF Join!TakeCode
      <4> QED
        BY <1>1, <4>1, JoinFunctions DEF Join!NoLink
    <3> QED
      BY <3>1, <3>2
  <2>3. CASE Join!MakeRoom(p) /\ UNCHANGED room
    <3>1. /\ entry' = [entry EXCEPT ![p] = Join!NoLink]
          /\ lock' = Join!Unlocked(p)
      BY <2>3 DEF Join!MakeRoom
    <3>2. \A q \in Procs : q # p /\ Entering(q) => lock'[entry[q].invite] = q
      BY <3>1 DEF Join!Unlocked
    <3> QED
      BY <1>1, <3>1, <3>2 DEF Join!NoLink
  <2> QED
    BY <2>1, <2>2, <2>3
<1>3. NewRoomsAreTheirs'
  BY <1>1, JoinAssumption DEF Join!StaffJoinAssumption, JoinInv,
    NewRoomsAreTheirs, HasRoom
<1>4. /\ NamedRoomsStand' /\ RoomsAreOfInvites' /\ SweptAreNobodys'
      /\ PeopleAreCounted' /\ MembersAreOne'
  BY <1>1 DEF JoinInv, NamedRoomsStand, RoomsAreOfInvites, SweptAreNobodys,
    PeopleAreCounted, MembersAreOne
<1> QED
  BY <1>2, <1>3, <1>4

LEMMA RoomKeeps ==
  ASSUME JoinInv, NEW p \in Procs, Join!MakeRoom(p), room' # room
  PROVE  /\ EntriesHoldTheRow' /\ NewRoomsAreTheirs' /\ NamedRoomsStand'
         /\ RoomsAreOfInvites' /\ SweptAreNobodys' /\ PeopleAreCounted'
         /\ MembersAreOne'
<1>1. PICK r \in Rooms :
        /\ room[r].age = "none"
        /\ room' = [room EXCEPT ![r] = [invite |-> entry[p].invite,
             age |-> "new"]]
        /\ entry' = [entry EXCEPT ![p].at = "room", ![p].room = r]
        /\ UNCHANGED <<invite, discord, lock, sweep, people>>
  BY DEF Join!MakeRoom
<1>2. /\ entry[p].at = "locked" /\ entry[p].invite \in Invites
      /\ entry'[p].at = "room" /\ entry'[p].invite = entry[p].invite
      /\ entry'[p].member = entry[p].member /\ entry'[p].room = r
      /\ \A q \in Procs : q # p => entry'[q] = entry[q]
      /\ room'[r].age = "new" /\ room'[r].invite = entry[p].invite
      /\ \A s \in Rooms : s # r => room'[s] = room[s]
  BY <1>1, JoinFunctions DEF Join!MakeRoom, JoinInv, EntriesHoldTheRow, LinkRow
<1>r. UNCHANGED <<invite, discord, lock, sweep, people>>
  BY <1>1
<1>3. EntriesHoldTheRow'
  <2>1. ASSUME NEW q \in Procs, q # p
        PROVE  entry'[q] = entry[q]
    BY <1>2, <2>1
  <2>2. /\ entry[p].member \in Members /\ lock[entry[p].invite] = p
        /\ invite[entry[p].invite].status = "submitted"
        /\ invite[entry[p].invite].room = None
    BY <1>2 DEF JoinInv, EntriesHoldTheRow, Entering
  <2>3. ASSUME NEW q \in Procs
        PROVE  /\ entry'[q].at # "idle" =>
                    /\ entry'[q].invite \in Invites
                    /\ entry'[q].member \in Members
               /\ Entering(q)' =>
                    /\ lock[entry'[q].invite] = q
                    /\ invite[entry'[q].invite].status = "submitted"
                    /\ invite[entry'[q].invite].room = None
    <3>1. CASE q = p
      BY <1>2, <2>2, <3>1
    <3>2. CASE q # p
      BY <2>1, <3>2 DEF JoinInv, EntriesHoldTheRow, Entering
    <3> QED
      BY <3>1, <3>2
  <2> QED
    BY <1>r, <2>3 DEF EntriesHoldTheRow, Entering
<1>4. /\ \A i \in Invites : invite[i].room # r
      /\ \A q \in Procs : entry[q].room # r
      /\ \A s \in Sweepers : r \notin sweep[s].listed \cup sweep[s].orphans
  <2>1. \A i \in Invites : invite[i].room # r
    BY <1>1, JoinAssumption DEF Join!StaffJoinAssumption, JoinInv,
      NamedRoomsStand
  <2>2. \A q \in Procs : entry[q].room # r
    BY <1>1, JoinAssumption DEF Join!StaffJoinAssumption, JoinInv,
      NewRoomsAreTheirs
  <2>3. \A s \in Sweepers : r \notin sweep[s].listed \cup sweep[s].orphans
    BY <1>1 DEF JoinInv, SweptAreNobodys
  <2> QED
    BY <2>1, <2>2, <2>3
<1>5. NewRoomsAreTheirs'
  <2>1. \A q \in Procs : HasRoom(q)' =>
          q = p \/ (HasRoom(q) /\ entry[q].room # r)
    BY <1>2, <1>4 DEF HasRoom
  <2> QED
    <3>1. \A q \in Procs : HasRoom(q)' =>
            /\ entry'[q].room \in Rooms
            /\ room'[entry'[q].room].age = "new"
            /\ room'[entry'[q].room].invite = entry'[q].invite
            /\ \A i \in Invites : invite'[i].room # entry'[q].room
      <4>1. ASSUME NEW q \in Procs, q # p, HasRoom(q)'
            PROVE  entry[q].room \in Rooms \ {r} /\ entry'[q] = entry[q] /\
                     HasRoom(q)
        BY <1>2, <2>1, <4>1 DEF JoinInv, NewRoomsAreTheirs
      <4>2. \A q \in Procs : q # p /\ HasRoom(q)' =>
              room'[entry[q].room] = room[entry[q].room]
        BY <1>2, <4>1
      <4> QED
        <5> SUFFICES ASSUME NEW q \in Procs, HasRoom(q)'
                     PROVE  /\ entry'[q].room \in Rooms
                            /\ room'[entry'[q].room].age = "new"
                            /\ room'[entry'[q].room].invite = entry'[q].invite
                            /\ \A i \in Invites :
                                 invite'[i].room # entry'[q].room
          OBVIOUS
        <5>1. CASE q = p
          BY <1>r, <1>2, <1>4, <5>1
        <5>2. CASE q # p
          BY <1>r, <4>1, <4>2, <5>2 DEF JoinInv, NewRoomsAreTheirs
        <5> QED
          BY <5>1, <5>2
    <3>2. \A q \in Procs : ~ HasRoom(q)' => entry'[q].room = None
      BY <1>2 DEF JoinInv, NewRoomsAreTheirs, HasRoom
    <3>3. \A q, s \in Procs : q # s /\ entry'[q].room = entry'[s].room =>
            entry'[q].room = None
      BY <1>2, <1>4 DEF JoinInv, NewRoomsAreTheirs
    <3> QED
      BY <3>1, <3>2, <3>3 DEF NewRoomsAreTheirs
<1>6. NamedRoomsStand' /\ RoomsAreOfInvites'
  BY <1>r, <1>2, <1>4 DEF JoinInv, Join!TypeOK, NamedRoomsStand,
    RoomsAreOfInvites
<1>7. SweptAreNobodys'
  BY <1>r, <1>2, <1>4 DEF JoinInv, Join!TypeOK, SweptAreNobodys
<1>8. PeopleAreCounted' /\ MembersAreOne'
  BY <1>r DEF JoinInv, PeopleAreCounted, MembersAreOne
<1> QED
  BY <1>3, <1>5, <1>6, <1>7, <1>8

LEMMA CommitKeeps ==
  ASSUME JoinInv, NEW p \in Procs, Join!CommitLink(p)
  PROVE  /\ EntriesHoldTheRow' /\ NewRoomsAreTheirs' /\ NamedRoomsStand'
         /\ RoomsAreOfInvites' /\ SweptAreNobodys' /\ PeopleAreCounted'
         /\ MembersAreOne'
<1> DEFINE i == entry[p].invite
           m == entry[p].member
           r == entry[p].room
<1>1. /\ i \in Invites /\ m \in Members /\ r \in Rooms /\ entry[p].at = "room"
      /\ lock[i] = p /\ invite[i].status = "submitted" /\ invite[i].room = None
      /\ room[r].invite = i /\ room[r].age = "new"
      /\ \A j \in Invites : invite[j].room # r
      /\ \A q \in Procs : q # p => entry[q].room # r
      /\ m # None /\ r # None /\ discord[i] = None /\ people[i] = 1
  BY JoinAssumption DEF Join!StaffJoinAssumption, Join!CommitLink, JoinInv,
    EntriesHoldTheRow, Entering, NewRoomsAreTheirs, HasRoom, PeopleAreCounted
<1>2. /\ \A q \in Procs : q # p => entry'[q] = entry[q]
      /\ \A q \in Procs : q # p /\ Entering(q) =>
           lock'[entry[q].invite] = q /\ entry[q].invite # i
      /\ UNCHANGED <<users, room, sweep, people>>
  <2>1. \A q \in Procs : q # p => entry'[q] = entry[q]
    BY DEF Join!CommitLink, JoinInv, Join!TypeOK
  <2>2. \A q \in Procs : q # p /\ Entering(q) =>
          lock'[entry[q].invite] = q /\ entry[q].invite # i
    BY <1>1, JoinFunctions DEF Join!CommitLink, Join!Unlocked, JoinInv,
      EntriesHoldTheRow, Entering
  <2> QED
    BY <2>1, <2>2 DEF Join!CommitLink
<1>3. CASE discord' # discord
  <2>1. /\ ~ Join!Registered(m)
        /\ discord' = [discord EXCEPT ![i] = m]
        /\ invite' = [invite EXCEPT ![i].status = "linked", ![i].code = FALSE,
             ![i].room = r]
        /\ entry' = [entry EXCEPT ![p] = Join!NoLink]
    BY <1>3 DEF Join!CommitLink
  <2>2. /\ discord'[i] = m /\ invite'[i].status = "linked"
        /\ invite'[i].room = r
        /\ \A j \in Invites : j # i =>
             invite'[j] = invite[j] /\ discord'[j] = discord[j]
        /\ entry'[p] = Join!NoLink
    BY <1>1, <2>1 DEF JoinInv, Join!TypeOK
  <2>3. EntriesHoldTheRow'
    BY <1>2, <2>2 DEF JoinInv, EntriesHoldTheRow, Entering, Join!NoLink
  <2>4. NewRoomsAreTheirs'
    BY <1>1, <1>2, <2>2, JoinAssumption DEF Join!StaffJoinAssumption, JoinInv,
      NewRoomsAreTheirs, HasRoom, Join!NoLink
  <2>5. NamedRoomsStand' /\ RoomsAreOfInvites'
    BY <1>1, <1>2, <2>2 DEF JoinInv, NamedRoomsStand, RoomsAreOfInvites
  <2>6. SweptAreNobodys'
    BY <1>1, <1>2, <2>2 DEF JoinInv, SweptAreNobodys
  <2>7. PeopleAreCounted'
    BY <1>1, <1>2, <2>2 DEF JoinInv, PeopleAreCounted
  <2>8. MembersAreOne'
    BY <1>1, <2>1, <2>2 DEF JoinInv, MembersAreOne, Join!Registered
  <2> QED
    BY <2>3, <2>4, <2>5, <2>6, <2>7, <2>8
<1>4. CASE discord' = discord
  <2>1. /\ entry' = [entry EXCEPT ![p].at = "discarding"] /\ UNCHANGED invite
    <3>1. [discord EXCEPT ![i] = m] # discord
      BY <1>1 DEF JoinInv, Join!TypeOK
    <3> QED
      BY <1>4, <3>1 DEF Join!CommitLink
  <2>2. /\ entry'[p].at = "discarding" /\ entry'[p].invite = i
        /\ entry'[p].member = m /\ entry'[p].room = r
    BY <2>1 DEF JoinInv, Join!TypeOK
  <2>3. EntriesHoldTheRow'
    BY <1>1, <1>2, <2>1, <2>2 DEF JoinInv, EntriesHoldTheRow, Entering
  <2>4. NewRoomsAreTheirs'
    BY <1>1, <1>2, <2>1, <2>2, JoinAssumption DEF Join!StaffJoinAssumption,
      JoinInv, NewRoomsAreTheirs, HasRoom
  <2>5. /\ NamedRoomsStand' /\ RoomsAreOfInvites' /\ SweptAreNobodys'
        /\ PeopleAreCounted' /\ MembersAreOne'
    BY <1>2, <1>4, <2>1 DEF JoinInv, NamedRoomsStand, RoomsAreOfInvites,
      SweptAreNobodys, PeopleAreCounted, MembersAreOne
  <2> QED
    BY <2>3, <2>4, <2>5
<1> QED
  BY <1>3, <1>4

(* A room that is deleted, or that gets old, is the room of no invitation, *)
(* and nobody is entering a code for it any more.                          *)
LEMMA RoomGoes ==
  ASSUME JoinInv, NEW r \in Rooms,
         UNCHANGED <<invite, discord, people>>,
         EntriesHoldTheRow',
         \A q \in Procs :
           \/ entry'[q] = entry[q] /\ entry[q].room # r
           \/ entry'[q] = Join!NoLink,
         \A s \in Rooms : s # r => room'[s] = room[s],
         \/ room'[r] = Join!Deleted /\ \A i \in Invites : invite[i].room # r
         \/ room'[r].age = "old" /\ room'[r].invite = room[r].invite /\
              room[r].age = "new",
         \A s \in Sweepers :
           /\ sweep'[s].listed \subseteq sweep[s].listed
           /\ sweep'[s].orphans \subseteq sweep[s].orphans
  PROVE  /\ NewRoomsAreTheirs' /\ NamedRoomsStand'
         /\ RoomsAreOfInvites' /\ SweptAreNobodys' /\ PeopleAreCounted'
         /\ MembersAreOne'
<1>1. NewRoomsAreTheirs'
  BY JoinAssumption DEF Join!StaffJoinAssumption, JoinInv, NewRoomsAreTheirs,
    HasRoom, Join!NoLink
<1>0. /\ \A i \in Invites : invite[i].room \in Rooms \cup {None}
      /\ room'[r].age \in {"old", "gone"}
      /\ room'[r].age = "old" =>
           room'[r].invite = room[r].invite /\ room[r].age = "new"
      /\ room'[r].age = "gone" => \A i \in Invites : invite[i].room # r
  BY JoinFunctions DEF Join!Deleted, InviteRow
<1>2. NamedRoomsStand'
  BY <1>0, JoinAssumption DEF Join!StaffJoinAssumption, JoinInv,
    NamedRoomsStand
<1>5. RoomsAreOfInvites'
  BY <1>0 DEF JoinInv, RoomsAreOfInvites
<1>3. SweptAreNobodys'
  BY DEF JoinInv, Join!TypeOK, SweptAreNobodys, Join!Deleted
<1>4. PeopleAreCounted' /\ MembersAreOne'
  BY DEF JoinInv, PeopleAreCounted, MembersAreOne
<1> QED
  BY <1>1, <1>2, <1>3, <1>4, <1>5

LEMMA DiscardKeeps ==
  ASSUME JoinInv, NEW p \in Procs, Join!Discard(p)
  PROVE  /\ EntriesHoldTheRow' /\ NewRoomsAreTheirs' /\ NamedRoomsStand'
         /\ RoomsAreOfInvites' /\ SweptAreNobodys' /\ PeopleAreCounted'
         /\ MembersAreOne'
<1>1. /\ UNCHANGED <<invite, discord, lock, sweep, people>>
      /\ entry'[p] = Join!NoLink
      /\ \A q \in Procs : q # p => entry'[q] = entry[q]
      /\ entry[p].at = "discarding"
  BY JoinFunctions DEF Join!Discard
<1>2. EntriesHoldTheRow'
  BY <1>1 DEF JoinInv, EntriesHoldTheRow, Entering, Join!NoLink
<1>3. /\ entry[p].room \in Rooms
      /\ \A i \in Invites : invite[i].room # entry[p].room
      /\ \A q \in Procs : q # p => entry[q].room # entry[p].room
  BY <1>1, JoinAssumption DEF Join!StaffJoinAssumption, JoinInv,
    NewRoomsAreTheirs, HasRoom
<1>4. CASE room' = [room EXCEPT ![entry[p].room] = Join!Deleted]
  <2>1. /\ room'[entry[p].room] = Join!Deleted
        /\ \A s \in Rooms : s # entry[p].room => room'[s] = room[s]
    BY <1>3, <1>4, JoinFunctions
  <2> QED
    BY <1>1, <1>2, <1>3, <2>1, RoomGoes
<1>5. CASE room' = room
  <2>1. NewRoomsAreTheirs'
    BY <1>1, <1>5, JoinAssumption DEF Join!StaffJoinAssumption, JoinInv,
      NewRoomsAreTheirs, HasRoom, Join!NoLink
  <2>2. /\ NamedRoomsStand' /\ RoomsAreOfInvites' /\ SweptAreNobodys'
        /\ PeopleAreCounted' /\ MembersAreOne'
    BY <1>1, <1>5 DEF JoinInv, NamedRoomsStand, RoomsAreOfInvites,
      SweptAreNobodys, PeopleAreCounted, MembersAreOne
  <2> QED
    BY <1>2, <2>1, <2>2
<1> QED
  BY <1>4, <1>5 DEF Join!Discard

LEMMA DeathKeeps ==
  ASSUME JoinInv, Join!BotDies
  PROVE  /\ EntriesHoldTheRow' /\ NewRoomsAreTheirs' /\ NamedRoomsStand'
         /\ RoomsAreOfInvites' /\ SweptAreNobodys' /\ PeopleAreCounted'
         /\ MembersAreOne'
<1>1. UNCHANGED <<invite, discord, room, people>>
  BY DEF Join!BotDies
<1>2. EntriesHoldTheRow' /\ NewRoomsAreTheirs'
  BY DEF Join!BotDies, EntriesHoldTheRow, NewRoomsAreTheirs, Entering,
    HasRoom, Join!NoLink
<1>3. SweptAreNobodys'
  BY DEF Join!BotDies, SweptAreNobodys, Join!NoSweep
<1>4. /\ NamedRoomsStand' /\ RoomsAreOfInvites' /\ PeopleAreCounted'
      /\ MembersAreOne'
  BY <1>1 DEF JoinInv, NamedRoomsStand, RoomsAreOfInvites, PeopleAreCounted,
    MembersAreOne
<1> QED
  BY <1>2, <1>3, <1>4

LEMMA SweepKeeps ==
  ASSUME JoinInv, NEW s \in Sweepers, Join!SweepStep(s)
  PROVE  /\ EntriesHoldTheRow' /\ NewRoomsAreTheirs' /\ NamedRoomsStand'
         /\ RoomsAreOfInvites' /\ SweptAreNobodys' /\ PeopleAreCounted'
         /\ MembersAreOne'
<1>1. UNCHANGED <<invite, discord, entry, lock, people>>
  BY DEF Join!SweepStep, Join!ListRooms, Join!ReadInvites, Join!DeleteRoom,
    Join!SweepEnds
<1>2. EntriesHoldTheRow'
  BY <1>1 DEF JoinInv, EntriesHoldTheRow, Entering
<1>3. CASE \E r \in Rooms : Join!DeleteRoom(s, r) /\ room' # room
  <2>1. PICK r \in Rooms :
          Join!DeleteRoom(s, r) /\ room' = [room EXCEPT ![r] = Join!Deleted]
    BY <1>3 DEF Join!DeleteRoom
  <2>2. /\ r \in sweep[s].orphans /\ room[r].age \in {"old", "gone"}
        /\ \A i \in Invites : invite[i].room # r
        /\ room'[r] = Join!Deleted
        /\ \A t \in Rooms : t # r => room'[t] = room[t]
    BY <2>1, JoinFunctions DEF Join!DeleteRoom, JoinInv, SweptAreNobodys
  <2>3. \A q \in Procs : entry[q].room # r
    BY <2>2, JoinAssumption DEF Join!StaffJoinAssumption, JoinInv,
      NewRoomsAreTheirs
  <2>4. \A t \in Sweepers : /\ sweep'[t].listed \subseteq sweep[t].listed
                           /\ sweep'[t].orphans \subseteq sweep[t].orphans
    BY <2>1, JoinFunctions DEF Join!DeleteRoom, SweepRow
  <2> QED
    BY <1>1, <1>2, <2>2, <2>3, <2>4, RoomGoes
<1>4. CASE room' = room
  <2>1. SweptAreNobodys'
    <3>1. ASSUME NEW t \in Sweepers, t # s
          PROVE  sweep'[t] = sweep[t]
      BY <3>1, JoinFunctions DEF Join!SweepStep, Join!ListRooms,
        Join!ReadInvites, Join!DeleteRoom, Join!SweepEnds
    <3>2. /\ \A r \in sweep'[s].listed \cup sweep'[s].orphans :
               room[r].age \in {"old", "gone"}
          /\ \A r \in sweep'[s].orphans : \A i \in Invites : invite[i].room # r
      <4>0. /\ \A r \in sweep[s].listed \cup sweep[s].orphans :
                 room[r].age \in {"old", "gone"}
            /\ \A r \in sweep[s].orphans : \A i \in Invites :
                 invite[i].room # r
        BY DEF JoinInv, SweptAreNobodys
      <4>1. CASE Join!ListRooms(s)
        BY <4>0, <4>1, JoinFunctions DEF Join!ListRooms, Join!OldEnough,
          SweepRow
      <4>2. CASE Join!ReadInvites(s)
        <5>1. \A r \in Join!Orphans(sweep[s].listed) : \A i \in Invites :
                invite[i].room # r
          <6> SUFFICES ASSUME NEW r \in Join!Orphans(sweep[s].listed),
                              NEW i \in Invites, invite[i].room = r
                       PROVE  FALSE
            OBVIOUS
          <6>1. r \in Rooms /\ r # None /\ i # None
            BY JoinAssumption, JoinFunctions DEF Join!Orphans,
              Join!StaffJoinAssumption, SweepRow
          <6>2. room[r].invite = i
            BY <6>1 DEF JoinInv, NamedRoomsStand
          <6> QED
            BY <6>1, <6>2 DEF Join!Orphans
        <5> QED
          BY <4>0, <4>2, <5>1, JoinFunctions DEF Join!ReadInvites,
            Join!Orphans, SweepRow, Join!NoSweep
      <4>3. CASE \E r \in Rooms : Join!DeleteRoom(s, r)
        BY <4>0, <4>3, JoinFunctions DEF Join!DeleteRoom, SweepRow
      <4>4. CASE Join!SweepEnds(s)
        BY <4>0, <4>4, JoinFunctions DEF Join!SweepEnds, Join!NoSweep
      <4> QED
        BY <4>1, <4>2, <4>3, <4>4 DEF Join!SweepStep
    <3> QED
      BY <1>1, <1>4, <3>1, <3>2 DEF JoinInv, SweptAreNobodys
  <2>2. /\ NewRoomsAreTheirs' /\ NamedRoomsStand' /\ RoomsAreOfInvites'
        /\ PeopleAreCounted' /\ MembersAreOne'
    BY <1>1, <1>4 DEF JoinInv, NewRoomsAreTheirs, HasRoom, NamedRoomsStand,
      RoomsAreOfInvites, PeopleAreCounted, MembersAreOne
  <2> QED
    BY <1>2, <2>1, <2>2
<1> QED
  BY <1>3, <1>4 DEF Join!SweepStep, Join!ListRooms, Join!ReadInvites,
    Join!DeleteRoom, Join!SweepEnds

LEMMA AgeKeeps ==
  ASSUME JoinInv, NEW r \in Rooms, Join!Ages(r)
  PROVE  /\ EntriesHoldTheRow' /\ NewRoomsAreTheirs' /\ NamedRoomsStand'
         /\ RoomsAreOfInvites' /\ SweptAreNobodys' /\ PeopleAreCounted'
         /\ MembersAreOne'
<1>1. /\ UNCHANGED <<invite, discord, entry, lock, sweep, people>>
      /\ \A q \in Procs : entry[q].room # r
      /\ room'[r].age = "old" /\ room'[r].invite = room[r].invite
      /\ room[r].age = "new"
      /\ \A t \in Rooms : t # r => room'[t] = room[t]
  BY JoinAssumption, JoinFunctions DEF Join!Ages, RoomRow
<1>2. EntriesHoldTheRow'
  BY <1>1 DEF JoinInv, EntriesHoldTheRow, Entering
<1> QED
  BY <1>1, <1>2, RoomGoes

LEMMA JoinStep == JoinInv /\ [Join!Next]_Join!vars => JoinInv'
<1> SUFFICES ASSUME JoinInv, [Join!Next]_Join!vars PROVE JoinInv'
  OBVIOUS
<1>1. EntriesHoldTheRow' /\ NewRoomsAreTheirs' /\ NamedRoomsStand'
         /\ RoomsAreOfInvites' /\ SweptAreNobodys' /\ PeopleAreCounted'
         /\ MembersAreOne'
  <2>1. CASE UNCHANGED Join!vars
    BY <2>1 DEF Join!vars, JoinInv, EntriesHoldTheRow, Entering,
      NewRoomsAreTheirs, HasRoom, NamedRoomsStand, RoomsAreOfInvites,
      SweptAreNobodys, PeopleAreCounted, MembersAreOne
  <2>2. CASE Join!Next
    <3>1. ASSUME NEW p \in Procs, Join!MakeRoom(p)
          PROVE  /\ EntriesHoldTheRow' /\ NewRoomsAreTheirs' /\ NamedRoomsStand'
                 /\ RoomsAreOfInvites' /\ SweptAreNobodys' /\ PeopleAreCounted'
                 /\ MembersAreOne'
      BY <3>1, EntryKeeps, RoomKeeps
    <3> QED
    BY <2>2, <3>1, OfficeKeeps, EntryKeeps, CommitKeeps, DiscardKeeps,
      DeathKeeps, SweepKeeps, AgeKeeps DEF Join!Next, Join!LinkStep
  <2> QED
    BY <2>1, <2>2
<1> QED
  BY <1>1, JoinTypesHold DEF JoinInv

LEMMA JoinBegins == Join!Init => JoinInv
BY JoinAssumption DEF Join!StaffJoinAssumption, Join!Init, JoinInv,
  Join!TypeOK, Join!NoInvite, Join!NoRoom, Join!NoLink, Join!NoSweep,
  EntriesHoldTheRow, Entering, NewRoomsAreTheirs, HasRoom, NamedRoomsStand,
  RoomsAreOfInvites, SweptAreNobodys, PeopleAreCounted, MembersAreOne

LEMMA JoinsAreRight == JoinInv =>
  Join!OwnersKeepTheirRoom /\ Join!NobodyJoinsTwice
BY JoinAssumption DEF Join!StaffJoinAssumption, JoinInv, NamedRoomsStand,
  PeopleAreCounted, MembersAreOne, Join!OwnersKeepTheirRoom,
  Join!NobodyJoinsTwice

LEMMA JoinsRun == Access => Join!Init /\ [][Join!Next]_Join!vars
<1>1. InitOfPart => Join!Init
  BY DEF InitOfPart
<1>2. [NextOfPart]_AccessVars => [Join!Next]_Join!vars
  BY DEF NextOfPart, AccessVars, Sessions, Approvals, OfBudget, Joins, Answers,
    joinVars, Join!vars
<1> QED
  BY <1>1, <1>2, PTL DEF Access, AccessVars

LEMMA JoinInvAlways == Access => []JoinInv
<1>1. Join!Init => JoinInv
  BY JoinBegins
<1>2. JoinInv /\ [Join!Next]_Join!vars => JoinInv'
  BY JoinStep
<1> QED
  BY <1>1, <1>2, JoinsRun, PTL

(* However codes are entered, rooms are swept and the bot dies, the room   *)
(* of a person who has joined stands and is the room of no one else, an    *)
(* invitation makes one person, and a member of the server is one person   *)
(* (discord_staff_link.py), as long as no submission of a code takes       *)
(* longer than the age at which a room may be swept.                       *)
THEOREM JoinsDoHold == Access => []JoinsHold
<1>1. JoinInv => JoinsHold
  BY JoinsAreRight DEF JoinsHold
<1> QED
  BY <1>1, JoinInvAlways, PTL

-----------------------------------------------------------------------------
(* Answers to customers                                                    *)

(* The inductive invariant                                                 *)

Keys == Mail!Platforms \X Customers

(* The tables, and what was counted.                                       *)
RowsHaveTypes ==
  /\ serial \in 0..4 /\ leads \subseteq 1..serial
  /\ owner \in [Keys -> leads \cup {Mail!Null}]
  /\ meta \in [Mail!Messages -> leads \cup {Mail!Null, Mail!Absent}]
  /\ conv \in [Mail!Messages -> leads \cup {Mail!Absent}]
  /\ accepted \subseteq FromPage
  /\ hurt \subseteq Deliveries /\ known \subseteq Mail!Messages
  /\ removals \in 0..2 /\ failures \in 0..1

(* What a task and an answer consist of.                                   *)
TaskRow == [at : {"idle", "find", "create", "name", "store", "log", "done"},
            batch : Entries \cup {<< >>}, n : Nat, lead : Nat,
            found : BOOLEAN, aborted : BOOLEAN]
SendRow == [at : {"idle", "call", "record"}, lead : Nat,
            to : Customers \cup {Mail!Null}, message :
              FromPage \cup {Mail!Null}]

(* Every task works on a message of its entry, and only an inbound one is  *)
(* stored in meta_messages.                                                *)
TaskIsSane(d) ==
  /\ task[d].at # "idle" =>
       task[d].batch \in Entries /\ task[d].n \in 1..Len(task[d].batch)
  /\ task[d].at = "idle" => task[d].batch = << >> /\ task[d].n = 0
  /\ task[d].at \in {"name", "store"} => Mail!Message(d) \in FromCustomers
  /\ task[d].at \in {"idle", "find", "create", "name"} => ~ task[d].found
  /\ task[d].lead <= serial
TasksAreSane ==
  task \in [Deliveries -> TaskRow] /\ \A d \in Deliveries : TaskIsSane(d)

(* An answer goes to a customer and is a message to that customer.         *)
SendIsSane(o) ==
  /\ send[o].at # "idle" =>
       send[o].lead \in 1..serial /\ send[o].to \in Customers
  /\ send[o].at = "record" =>
       send[o].message \in FromPage /\ Of[send[o].message] = send[o].to
SendsAreSane ==
  send \in [Staff -> SendRow] /\ \A o \in Staff : SendIsSane(o)

(* The lead a task has found is the customer's as long as it exists.       *)
Finds(d) == task[d].found /\ task[d].lead \in leads =>
              owner[Mail!Channel(Mail!Customer(d))] = task[d].lead
FoundIsOwner == \A d \in Deliveries : Finds(d)

(* What is about to be logged is stored under the same lead.               *)
Stores(d) ==
  task[d].at = "log" /\ Mail!Message(d) \in FromCustomers /\
    task[d].lead \in leads =>
    meta[Mail!Message(d)] = task[d].lead
StoredIsFiled == \A d \in Deliveries : Stores(d)

(* An answer that is under way goes to a customer of its lead.             *)
AnswersConcernLeads ==
  \A o \in Staff : send[o].at # "idle" /\ send[o].lead \in leads =>
    \E m \in FromCustomers : Of[m] = send[o].to /\ meta[m] = send[o].lead

(* What was filed by a channel that was there is in a table.               *)
KnownAreStored ==
  \A m \in known : /\ m \in FromCustomers => meta[m] # Mail!Absent
                   /\ m \in FromPage => conv[m] # Mail!Absent

Filed ==
  /\ KnownAreStored /\ Mail!FiledWithOwner /\ Mail!TablesAgree
  /\ Mail!AnswersStandByCustomers

MailInv ==
  /\ RowsHaveTypes /\ TasksAreSane /\ SendsAreSane /\ FoundIsOwner
  /\ StoredIsFiled /\ AnswersConcernLeads /\ Filed

-----------------------------------------------------------------------------
(* The steps of a delivery                                                 *)

LEMMA MessagesAreMessages ==
  ASSUME TasksAreSane, NEW d \in Deliveries, task[d].at # "idle"
  PROVE  Mail!Message(d) \in Mail!Messages /\ Mail!Customer(d) \in Customers
<1>1. /\ task[d].batch \in Seq(Mail!Messages)
      /\ task[d].n \in 1..Len(task[d].batch)
  BY InboxAssumption DEF Mail!InboxAssumption, TasksAreSane, TaskIsSane
<1>2. Mail!Message(d) \in Mail!Messages
  BY <1>1 DEF Mail!Message
<1> QED
  BY <1>2, InboxAssumption DEF Mail!Customer, Mail!InboxAssumption

(* A customer's key, and the one that is registered for a new lead.        *)
LEMMA KeysAreKeys ==
  /\ \A s \in Customers : Mail!Channel(s) \in Keys
  /\ \A m \in Mail!Messages : Mail!Registered(m) \in Keys
<1>1. \A s \in Customers : Mail!Channel(s) \in Keys
  BY DEF Mail!Channel, Keys, Mail!Platforms
<1>2. \A m \in Mail!Messages : Of[m] \in Customers
  BY InboxAssumption DEF Mail!InboxAssumption
<1> QED
  BY <1>1, <1>2 DEF Mail!Registered, Keys, Mail!Platforms

(* What a step does to the task of a delivery.                             *)
Goes(d) ==
  /\ task' \in [Deliveries -> TaskRow]
  /\ \A e \in Deliveries : e # d => task'[e] = task[e]
  /\ TaskIsSane(d)'

LEMMA TasksStaySane ==
  ASSUME TasksAreSane, NEW d \in Deliveries,
         Goes(d), serial \in Nat, serial' \in Nat, serial <= serial'
  PROVE  TasksAreSane'
<1> SUFFICES ASSUME NEW e \in Deliveries, e # d PROVE TaskIsSane(e)'
  BY DEF TasksAreSane, Goes
<1>1. task'[e] = task[e]
  BY DEF Goes
<1>2. task[e].lead \in Nat
  BY DEF TasksAreSane, TaskRow
<1> QED
  BY <1>1, <1>2 DEF TasksAreSane, TaskIsSane, Mail!Message

(* A step that touches nothing but the task.                               *)
LEMMA TaskStep ==
  ASSUME MailInv, NEW d \in Deliveries, Goes(d), Finds(d)', Stores(d)',
         UNCHANGED <<Mail!rows, accepted, send, hurt, known, removals,
           failures>>
  PROVE  MailInv'
<1>1. TasksAreSane'
  BY TasksStaySane DEF MailInv, RowsHaveTypes, Mail!rows
<1>2. FoundIsOwner' /\ StoredIsFiled'
  <2> SUFFICES ASSUME NEW e \in Deliveries, e # d PROVE Finds(e)' /\ Stores(e)'
    BY DEF FoundIsOwner, StoredIsFiled
  <2>1. task'[e] = task[e]
    BY DEF Goes
  <2> QED
    BY <2>1 DEF MailInv, FoundIsOwner, StoredIsFiled, Finds, Stores,
      Mail!Customer, Mail!Message, Mail!rows
<1>3. RowsHaveTypes' /\ SendsAreSane' /\ AnswersConcernLeads' /\ Filed'
  BY DEF MailInv, Mail!rows, RowsHaveTypes, SendsAreSane, SendIsSane,
    AnswersConcernLeads, Filed, KnownAreStored, Mail!FiledWithOwner,
    Mail!TablesAgree, Mail!AnswersStandByCustomers
<1> QED
  BY <1>1, <1>2, <1>3 DEF MailInv

(* A task that advances remains one, field by field.                       *)
LEMMA RowGoes ==
  ASSUME NEW r \in TaskRow, NEW at \in {"find", "done"}, NEW n \in Nat,
         NEW a \in BOOLEAN
  PROVE  [r EXCEPT !.at = at, !.n = n, !.lead = 0, !.found = FALSE,
           !.aborted = a] \in TaskRow
<1>1. \A q \in TaskRow : [q EXCEPT !.at = at] \in TaskRow /\
        [q EXCEPT !.n = n] \in TaskRow
  BY DEF TaskRow
<1>2. \A q \in TaskRow : [q EXCEPT !.lead = 0] \in TaskRow /\
        [q EXCEPT !.found = FALSE] \in TaskRow
  BY DEF TaskRow
<1>3. \A q \in TaskRow : [q EXCEPT !.aborted = a] \in TaskRow
  BY DEF TaskRow
<1> QED
  BY <1>1, <1>2, <1>3

LEMMA Advances ==
  ASSUME MailInv, NEW d \in Deliveries, task[d].at # "idle", NEW a \in BOOLEAN,
         Mail!Advance(d, a), serial' \in Nat
  PROVE  Goes(d) /\ ~ task'[d].found /\ task'[d].at \in {"find", "done"}
<1>1. /\ task \in [Deliveries -> TaskRow] /\ task[d] \in TaskRow
      /\ task[d].batch \in Entries /\ task[d].n \in 1..Len(task[d].batch)
      /\ Len(task[d].batch) \in Nat
  BY InboxAssumption DEF MailInv, TasksAreSane, TaskIsSane,
    Mail!InboxAssumption
<1>2. /\ task' = [task EXCEPT ![d] = Mail!Next1(task[d], a)]
  BY DEF Mail!Advance
<1>3. /\ Mail!Next1(task[d], a) \in TaskRow
      /\ Mail!Next1(task[d], a).batch = task[d].batch
      /\ Mail!Next1(task[d], a).n \in 1..Len(task[d].batch)
      /\ Mail!Next1(task[d], a).at \in {"find", "done"}
      /\ Mail!Next1(task[d], a).lead = 0
      /\ Mail!Next1(task[d], a).found = FALSE
  <2> DEFINE len == Len(task[d].batch)
             n == task[d].n
             next == IF n = len THEN n ELSE n + 1
             at == IF n = len THEN "done" ELSE "find"
  <2>1. next \in Nat /\ next \in 1..len /\ at \in {"find", "done"}
    BY <1>1
  <2>2. Mail!Next1(task[d], a) =
          [task[d] EXCEPT !.at = at, !.n = next, !.lead = 0,
                                            !.found = FALSE, !.aborted = a]
    BY DEF Mail!Next1, Mail!Null
  <2> HIDE DEF next, at
  <2>3. /\ Mail!Next1(task[d], a).batch = task[d].batch
        /\ Mail!Next1(task[d], a).n = next /\ Mail!Next1(task[d], a).at = at
        /\ Mail!Next1(task[d], a).lead = 0
        /\ Mail!Next1(task[d], a).found = FALSE
    BY <1>1, <2>2 DEF TaskRow
  <2>4. Mail!Next1(task[d], a) \in TaskRow
    <3>1. [task[d] EXCEPT !.at = at, !.n = next, !.lead = 0,
                          !.found = FALSE, !.aborted = a] \in TaskRow
      BY <1>1, <2>1, RowGoes, Zenon
    <3> QED
      BY <2>2, <3>1, Zenon
  <2> QED
    BY <2>1, <2>3, <2>4
<1>4. /\ task' \in [Deliveries -> TaskRow] /\ task'[d] = Mail!Next1(task[d], a)
      /\ \A e \in Deliveries : e # d => task'[e] = task[e]
  BY <1>1, <1>2, <1>3
<1> QED
  BY <1>1, <1>3, <1>4 DEF Goes, TaskIsSane

LEMMA FailsGoes ==
  ASSUME MailInv, NEW d \in Deliveries, task[d].at # "idle",
         Mail!Fails(d), serial' \in Nat
  PROVE  Goes(d) /\ ~ task'[d].found /\ task'[d].at = "done"
<1>1. /\ task \in [Deliveries -> TaskRow] /\ task[d] \in TaskRow
      /\ task[d].batch \in Entries /\ task[d].n \in 1..Len(task[d].batch)
  BY InboxAssumption DEF MailInv, TasksAreSane, TaskIsSane,
    Mail!InboxAssumption
<1>2. /\ task' = [task EXCEPT ![d] = [task[d] EXCEPT !.at = "done",
           !.lead = Mail!Null, !.found = FALSE]]
  BY <1>1 DEF Mail!Fails
<1>3. [task[d] EXCEPT !.at = "done", !.lead = Mail!Null, !.found = FALSE] \in
        TaskRow
  BY <1>1 DEF TaskRow, Mail!Null
<1>4. /\ task' \in [Deliveries -> TaskRow]
      /\ \A e \in Deliveries : e # d => task'[e] = task[e]
      /\ task'[d].at = "done" /\ task'[d].lead = 0 /\ task'[d].found = FALSE
      /\ task'[d].batch = task[d].batch /\ task'[d].n = task[d].n
  BY <1>1, <1>2, <1>3 DEF TaskRow, Mail!Null
<1> QED
  BY <1>1, <1>4 DEF Goes, TaskIsSane

(* The steps that read.                                                    *)
LEMMA ReceiveKeeps ==
  ASSUME MailInv, NEW d \in Deliveries, NEW b \in Entries, Mail!Receive(d, b)
  PROVE  MailInv'
<1>1. /\ task \in [Deliveries -> TaskRow] /\ b \in Seq(Mail!Messages)
      /\ b # << >> /\ serial \in Nat
  BY InboxAssumption DEF MailInv, TasksAreSane, Mail!InboxAssumption,
    RowsHaveTypes
<1>2. 1 \in 1..Len(b)
  BY <1>1
<1>3. [Mail!NoTask EXCEPT !.at = "find", !.batch = b, !.n = 1] \in TaskRow
  BY DEF Mail!NoTask, TaskRow, Mail!Null
<1>4. /\ task' \in [Deliveries -> TaskRow]
      /\ \A e \in Deliveries : e # d => task'[e] = task[e]
      /\ task'[d].at = "find" /\ task'[d].lead = 0 /\ task'[d].found = FALSE
      /\ task'[d].batch = b /\ task'[d].n = 1
  BY <1>1, <1>3 DEF Mail!Receive, Mail!NoTask, Mail!Null
<1>5. Goes(d)
  BY <1>1, <1>2, <1>4 DEF Goes, TaskIsSane, Mail!Receive, Mail!rows
<1> QED
  BY <1>4, <1>5, TaskStep DEF Mail!Receive, Finds, Stores

LEMMA FindKeeps ==
  ASSUME MailInv, NEW d \in Deliveries, Mail!Find(d)
  PROVE  MailInv'
<1>0. /\ UNCHANGED <<Mail!rows, accepted, send, hurt, known, removals,
           failures>>
      /\ task[d].at = "find" /\ serial \in Nat /\ serial' \in Nat
  BY DEF Mail!Find, Mail!At, MailInv, RowsHaveTypes, Mail!rows
<1>1. CASE Mail!Advance(d, TRUE) \/ Mail!Fails(d)
  BY <1>0, <1>1, Advances, FailsGoes, TaskStep DEF Finds, Stores
<1>2. /\ task \in [Deliveries -> TaskRow] /\ task[d] \in TaskRow
      /\ task[d].batch \in Entries /\ task[d].n \in 1..Len(task[d].batch)
      /\ task[d].found = FALSE /\ task[d].lead <= serial
  BY <1>0 DEF MailInv, TasksAreSane, TaskIsSane, TaskRow
<1>3. CASE Mail!Go(d, "create")
  <2>1. /\ task' \in [Deliveries -> TaskRow]
        /\ \A e \in Deliveries : e # d => task'[e] = task[e]
        /\ task'[d].at = "create" /\ task'[d].lead = task[d].lead
        /\ task'[d].found = FALSE
        /\ task'[d].batch = task[d].batch /\ task'[d].n = task[d].n
    BY <1>2, <1>3 DEF Mail!Go, TaskRow
  <2>2. Goes(d)
    BY <1>0, <1>2, <2>1 DEF Goes, TaskIsSane, Mail!rows
  <2> QED
    BY <1>0, <2>1, <2>2, TaskStep DEF Finds, Stores
<1> DEFINE l == owner[Mail!Channel(Mail!Customer(d))]
<1>4. CASE /\ l # Mail!Null
           /\ task' = [task EXCEPT ![d].lead = l,
                                   ![d].found = TRUE,
                                   ![d].at = IF Mail!Message(d) \in
                                     FromCustomers THEN "store" ELSE "log"]
  <2>1. /\ l \in leads /\ l \in Nat /\ l <= serial
    BY <1>0, <1>4, MessagesAreMessages, KeysAreKeys DEF MailInv, RowsHaveTypes
  <2>2. /\ task' \in [Deliveries -> TaskRow]
        /\ \A e \in Deliveries : e # d => task'[e] = task[e]
        /\ task'[d].at = IF Mail!Message(d) \in
             FromCustomers THEN "store" ELSE "log"
        /\ task'[d].lead = l
        /\ task'[d].batch = task[d].batch /\ task'[d].n = task[d].n
    BY <1>2, <1>4, <2>1 DEF TaskRow
  <2>3. /\ Mail!Message(d)' = Mail!Message(d)
        /\ Mail!Customer(d)' = Mail!Customer(d)
    BY <2>2 DEF Mail!Message, Mail!Customer
  <2>4. Goes(d)
    BY <1>0, <1>2, <2>1, <2>2, <2>3 DEF Goes, TaskIsSane, Mail!rows
  <2> QED
    BY <1>0, <2>2, <2>3, <2>4, TaskStep DEF Finds, Stores, Mail!rows
<1> QED
  BY <1>1, <1>3, <1>4 DEF Mail!Find

-----------------------------------------------------------------------------
(* The steps that write                                                    *)

(* What Filed says of one message.                                         *)
FilesWell(m) ==
  m \in known =>
    /\ m \in FromCustomers => meta[m] # Mail!Absent
    /\ m \in FromPage => conv[m] # Mail!Absent
    /\ meta[m] \in Mail!Leads /\ m \in FromCustomers =>
         meta[m] = owner[Mail!Channel(Of[m])]
    /\ conv[m] \in Mail!Leads => conv[m] = owner[Mail!Channel(Of[m])]
AgreesAt(m) == m \in FromCustomers /\ conv[m] # Mail!Absent =>
  meta[m] = conv[m]

(* A step that adds a lead, a channel or a row, and takes nothing back.    *)
LEMMA RowStep ==
  ASSUME MailInv, NEW d \in Deliveries, Goes(d), Finds(d)', Stores(d)',
         UNCHANGED <<accepted, send, hurt, removals, failures>>,
         RowsHaveTypes', serial <= serial', leads \subseteq leads',
         \A l \in leads' : l \in leads \/ l > serial,
         \A c \in Keys : owner[c] # Mail!Null => owner'[c] = owner[c],
         NEW k \in Mail!Messages, known' \subseteq known \cup {k}, 
         \A m \in Mail!Messages : m # k =>
           meta'[m] = meta[m] /\ conv'[m] = conv[m],
         meta[k] # Mail!Absent \/ k \in FromPage => meta'[k] = meta[k], 
         FilesWell(k)', AgreesAt(k)'
  PROVE  MailInv'
<1>0. /\ RowsHaveTypes /\ Mail!Null = 0 /\ Mail!Absent = -1 /\ Filed
      /\ TasksAreSane
  BY DEF MailInv, Mail!Null, Mail!Absent
<1>1. TasksAreSane'
  BY <1>0, TasksStaySane DEF RowsHaveTypes
<1>2. SendsAreSane'
  BY <1>0 DEF MailInv, SendsAreSane, SendIsSane, RowsHaveTypes
<1>3. ASSUME NEW m \in Mail!Messages, meta[m] # Mail!Absent
      PROVE meta'[m] = meta[m]
  BY <1>3
<1>4. FoundIsOwner' /\ StoredIsFiled'
  <2> SUFFICES ASSUME NEW e \in Deliveries, e # d PROVE Finds(e)' /\ Stores(e)'
    BY DEF FoundIsOwner, StoredIsFiled
  <2>1. /\ task'[e] = task[e] /\ Mail!Message(e)' = Mail!Message(e)
        /\ Mail!Customer(e)' = Mail!Customer(e)
    BY DEF Goes, Mail!Message, Mail!Customer
  <2>2. task[e].lead \in leads' => task[e].lead \in leads
    <3>1. task[e].lead \in Nat /\ task[e].lead <= serial /\ serial \in Nat
      BY <1>0 DEF TasksAreSane, TaskIsSane, TaskRow, RowsHaveTypes
    <3> QED
      BY <3>1
  <2>3. Finds(e) /\ Stores(e)
    BY DEF MailInv, FoundIsOwner, StoredIsFiled
  <2>4. task[e].lead \in leads => task[e].lead # 0 /\ task[e].lead # -1
    BY <1>0 DEF RowsHaveTypes
  <2>5. ASSUME task[e].found, task[e].lead \in leads'
        PROVE owner'[Mail!Channel(Mail!Customer(e))] = task[e].lead
    <3>1. task[e].at # "idle"
      BY <1>0, <2>5 DEF TasksAreSane, TaskIsSane
    <3>2. Mail!Customer(e) \in Customers
      BY <1>0, <3>1, MessagesAreMessages
    <3> QED
      BY <1>0, <2>2, <2>3, <2>4, <2>5, <3>2, KeysAreKeys DEF Finds
  <2>6. ASSUME task[e].at = "log",
               Mail!Message(e) \in FromCustomers, task[e].lead \in leads'
        PROVE  meta'[Mail!Message(e)] = task[e].lead
    <3>1. Mail!Message(e) \in Mail!Messages
      BY <2>6 DEF Mail!Messages
    <3> QED
      BY <1>0, <1>3, <2>2, <2>3, <2>4, <2>6, <3>1 DEF Stores
  <2> QED
    BY <2>1, <2>5, <2>6 DEF Finds, Stores
<1>5. AnswersConcernLeads'
  <2> SUFFICES ASSUME NEW o \in Staff, send[o].at # "idle",
                      send[o].lead \in leads'
               PROVE  \E m \in FromCustomers :
                        Of[m] = send[o].to /\ meta'[m] = send[o].lead
    BY DEF AnswersConcernLeads
  <2>1. send[o].lead \in leads /\ send[o].lead # Mail!Absent
    BY <1>0 DEF MailInv, SendsAreSane, SendIsSane, RowsHaveTypes
  <2>2. PICK m \in FromCustomers : Of[m] = send[o].to /\ meta[m] = send[o].lead
    BY <2>1 DEF MailInv, AnswersConcernLeads
  <2> QED
    BY <1>3, <2>1, <2>2 DEF Mail!Messages
<1>6. Mail!AnswersStandByCustomers'
  <2> SUFFICES ASSUME NEW m \in FromPage, meta'[m] \in Mail!Leads
               PROVE  /\ meta'[m] \in leads'
                      /\ \E n \in FromCustomers :
                           Of[n] = Of[m] /\ meta'[n] = meta'[m]
    BY DEF Mail!AnswersStandByCustomers
  <2>1. meta'[m] = meta[m]
    BY DEF Mail!Messages
  <2>2. PICK n \in FromCustomers : Of[n] = Of[m] /\ meta[n] = meta[m]
    BY <1>0, <2>1 DEF Filed, Mail!AnswersStandByCustomers
  <2>3. meta[m] \in leads
    BY <1>0, <2>1 DEF Filed, Mail!AnswersStandByCustomers
  <2>4. meta[n] # Mail!Absent
    BY <1>0, <2>2, <2>3 DEF RowsHaveTypes
  <2> QED
    BY <1>3, <2>1, <2>2, <2>3, <2>4 DEF Mail!Messages
<1>7. KnownAreStored' /\ Mail!FiledWithOwner' /\ Mail!TablesAgree'
  <2>1. ASSUME NEW m \in Mail!Messages PROVE FilesWell(m)' /\ AgreesAt(m)'
    <3> SUFFICES ASSUME m # k PROVE FilesWell(m)' /\ AgreesAt(m)'
      OBVIOUS
    <3>1. FilesWell(m) /\ AgreesAt(m)
      BY <1>0 DEF Filed, KnownAreStored, Mail!FiledWithOwner,
        Mail!TablesAgree, FilesWell, AgreesAt
    <3>2. meta'[m] = meta[m] /\ conv'[m] = conv[m] /\ Of[m] \in Customers
      BY InboxAssumption DEF Mail!InboxAssumption
    <3>3. Mail!Null \notin Mail!Leads
      BY DEF Mail!Null, Mail!Leads
    <3> QED
      BY <3>1, <3>2, <3>3, KeysAreKeys DEF FilesWell, AgreesAt
  <2>2. known' \subseteq Mail!Messages
    BY DEF RowsHaveTypes
  <2> QED
    BY <2>1, <2>2 DEF FilesWell, AgreesAt, KnownAreStored,
      Mail!FiledWithOwner, Mail!TablesAgree, Mail!Messages
<1> QED
  BY <1>1, <1>2, <1>4, <1>5, <1>6, <1>7 DEF MailInv, Filed

LEMMA CreateKeeps ==
  ASSUME MailInv, NEW d \in Deliveries, Mail!Create(d)
  PROVE  MailInv'
<1>0. /\ RowsHaveTypes /\ serial \in Nat /\ serial' = serial + 1 /\ serial < 4
      /\ leads' = leads \cup {serial'} /\ 4 \in Nat
      /\ UNCHANGED <<meta, conv, accepted, send, hurt, known, removals,
           failures>>
      /\ task[d].at = "create"
      /\ owner' = [owner EXCEPT ![Mail!Registered(Mail!Message(d))] =
                     IF @ = Mail!Null THEN serial' ELSE @]
  BY InboxAssumption DEF Mail!Create, Mail!At, MailInv, RowsHaveTypes,
    Mail!InboxAssumption
<1>1. Mail!Message(d) \in Mail!Messages /\ Mail!Customer(d) \in Customers
  BY <1>0, MessagesAreMessages DEF MailInv
<1>2. /\ task \in [Deliveries -> TaskRow] /\ task[d] \in TaskRow
      /\ task[d].batch \in Entries /\ task[d].n \in 1..Len(task[d].batch)
      /\ task[d].found = FALSE /\ task[d].lead <= serial
  BY <1>0 DEF MailInv, TasksAreSane, TaskIsSane, TaskRow
<1>3. /\ task' \in [Deliveries -> TaskRow]
      /\ \A e \in Deliveries : e # d => task'[e] = task[e]
      /\ task'[d].at = IF Mail!Message(d) \in
           FromCustomers THEN "name" ELSE "log"
      /\ task'[d].lead = serial' /\ task'[d].found = FALSE
      /\ task'[d].batch = task[d].batch /\ task'[d].n = task[d].n
  <2>1. serial' \in Nat
    BY <1>0
  <2>2. task' = [task EXCEPT ![d].lead = serial',
                     ![d].at =
                       IF Mail!Message(d) \in
                         FromCustomers THEN "name" ELSE "log"]
    BY DEF Mail!Create
  <2> HIDE DEF Mail!Create
  <2> QED
    BY <1>2, <2>1, <2>2 DEF TaskRow
<1>4. Mail!Message(d)' = Mail!Message(d)
  BY <1>3 DEF Mail!Message
<1>5. Goes(d)
  BY <1>0, <1>2, <1>3, <1>4 DEF Goes, TaskIsSane
<1>6. Finds(d)' /\ Stores(d)'
  BY <1>3, <1>4 DEF Finds, Stores
<1>7. RowsHaveTypes'
  BY <1>0, <1>1, KeysAreKeys DEF RowsHaveTypes, Mail!Null
<1>8. \A c \in Keys : owner[c] # Mail!Null => owner'[c] = owner[c]
  BY <1>0 DEF RowsHaveTypes
<1>9. FilesWell(Mail!Message(d))' /\ AgreesAt(Mail!Message(d))'
  <2>1. FilesWell(Mail!Message(d)) /\ AgreesAt(Mail!Message(d))
    BY <1>1 DEF MailInv, Filed, KnownAreStored, Mail!FiledWithOwner,
      Mail!TablesAgree, FilesWell, AgreesAt
  <2>2. Of[Mail!Message(d)] \in Customers /\ Mail!Null \notin Mail!Leads
    BY <1>1 DEF Mail!Customer, Mail!Null, Mail!Leads
  <2> QED
    BY <1>0, <1>4, <1>8, <2>1, <2>2 DEF FilesWell, AgreesAt
<1>10. FilesWell(Mail!Message(d))' /\ AgreesAt(Mail!Message(d))' =>
         \E k \in Mail!Messages :
           k = Mail!Message(d) /\ FilesWell(k)' /\ AgreesAt(k)'
  BY <1>1, <1>4 DEF FilesWell, AgreesAt
<1>11. PICK k \in Mail!Messages : FilesWell(k)' /\ AgreesAt(k)'
  BY <1>9, <1>10
<1> QED
  BY <1>0, <1>5, <1>6, <1>7, <1>8, <1>11, RowStep

LEMMA RowsWell ==
  ASSUME MailInv, NEW m \in Mail!Messages
  PROVE  FilesWell(m) /\ AgreesAt(m) /\ Of[m] \in Customers /\
           Mail!Null \notin Mail!Leads
BY InboxAssumption DEF MailInv, Filed, KnownAreStored, Mail!FiledWithOwner,
  Mail!TablesAgree, FilesWell, AgreesAt, Mail!InboxAssumption, Mail!Leads,
  Mail!Null

(* What a step that only moves the task on to the next action leaves       *)
LEMMA GoGoes ==
  ASSUME MailInv, NEW d \in Deliveries,
         NEW at \in {"store", "log"}, task[d].at \in {"name", "store"},
         Mail!Go(d, at), serial' \in Nat, serial <= serial'
  PROVE  /\ Goes(d) /\ task'[d].at = at /\ task'[d].lead = task[d].lead
         /\ task'[d].found = task[d].found
         /\ Mail!Message(d)' = Mail!Message(d)
         /\ Mail!Customer(d)' = Mail!Customer(d)
<1>1. /\ task \in [Deliveries -> TaskRow] /\ task[d] \in TaskRow
      /\ task[d].batch \in Entries /\ task[d].n \in 1..Len(task[d].batch)
      /\ task[d].lead <= serial /\ task[d].lead \in Nat /\ serial \in Nat
      /\ Mail!Message(d) \in FromCustomers
  BY DEF MailInv, TasksAreSane, TaskIsSane, TaskRow, RowsHaveTypes
<1>2. /\ task' \in [Deliveries -> TaskRow]
      /\ \A e \in Deliveries : e # d => task'[e] = task[e]
      /\ task'[d].at = at /\ task'[d].lead = task[d].lead
      /\ task'[d].found = task[d].found
      /\ task'[d].batch = task[d].batch /\ task'[d].n = task[d].n
  BY <1>1 DEF Mail!Go, TaskRow
<1>3. /\ Mail!Message(d)' = Mail!Message(d)
      /\ Mail!Customer(d)' = Mail!Customer(d)
  BY <1>2 DEF Mail!Message, Mail!Customer
<1> QED
  BY <1>1, <1>2, <1>3 DEF Goes, TaskIsSane

LEMMA NameKeeps ==
  ASSUME MailInv, NEW d \in Deliveries, NEW told \in BOOLEAN,
         Mail!Name(d, told)
  PROVE  MailInv'
<1>0. /\ RowsHaveTypes /\ serial \in Nat /\ serial' = serial
      /\ task[d].at = "name"
      /\ UNCHANGED <<serial, leads, meta, conv, accepted, send, hurt, known,
           removals, failures>>
  BY DEF Mail!Name, Mail!At, MailInv, RowsHaveTypes
<1>1. Mail!Message(d) \in Mail!Messages /\ Mail!Customer(d) \in Customers
  BY <1>0, MessagesAreMessages DEF MailInv
<1>2. CASE Mail!Fails(d) /\ owner' = owner
  BY <1>0, <1>2, FailsGoes, TaskStep DEF Finds, Stores, Mail!rows
<1>3. CASE /\ Mail!Go(d, "store")
           /\ \/ owner' = owner
              \/ /\ owner[Mail!Channel(Mail!Customer(d))] = Mail!Null
                 /\ task[d].lead \in leads
                 /\ owner' = [owner EXCEPT ![Mail!Channel(Mail!Customer(d))] =
                                task[d].lead]
  <2>1. /\ Goes(d) /\ task'[d].at = "store" /\ task'[d].found = task[d].found
        /\ Mail!Message(d)' = Mail!Message(d)
    BY <1>0, <1>3, GoGoes
  <2>2. task'[d].found = FALSE
    BY <1>0, <2>1 DEF MailInv, TasksAreSane, TaskIsSane, TaskRow
  <2>3. Finds(d)' /\ Stores(d)'
    BY <2>1, <2>2 DEF Finds, Stores
  <2>4. RowsHaveTypes'
    BY <1>0, <1>1, <1>3 DEF RowsHaveTypes
  <2>5. \A c \in Keys : owner[c] # Mail!Null => owner'[c] = owner[c]
    BY <1>0, <1>3 DEF RowsHaveTypes
  <2>6. PICK k \in Mail!Messages : k = Mail!Message(d)
    BY <1>1
  <2>7. FilesWell(k)' /\ AgreesAt(k)'
    BY <1>0, <2>5, RowsWell, KeysAreKeys DEF FilesWell, AgreesAt
  <2> QED
    BY <1>0, <2>1, <2>3, <2>4, <2>5, <2>7, RowStep
<1> QED
  BY <1>2, <1>3 DEF Mail!Name

(* A message that is stored now was in no table before, since what is in   *)
(* conv is in meta under the same lead.                                    *)
LEMMA StoreKeeps ==
  ASSUME MailInv, NEW d \in Deliveries, Mail!Store(d)
  PROVE  MailInv'
<1>0. /\ RowsHaveTypes /\ serial \in Nat /\ serial' = serial
      /\ task[d].at = "store"
      /\ UNCHANGED <<serial, leads, owner, conv, accepted, send, hurt,
           removals, failures>>
  BY DEF Mail!Store, Mail!At, MailInv, RowsHaveTypes
<1>1. /\ Mail!Message(d) \in FromCustomers /\ Mail!Message(d) \in Mail!Messages
      /\ Mail!Customer(d) \in Customers
  BY <1>0, MessagesAreMessages DEF MailInv, TasksAreSane, TaskIsSane
<1>2. CASE (Mail!Advance(d, FALSE) \/ Mail!Fails(d)) /\
             UNCHANGED <<meta, known>>
  BY <1>0, <1>2, Advances, FailsGoes, TaskStep DEF Finds, Stores, Mail!rows
<1>3. CASE /\ meta[Mail!Message(d)] = Mail!Absent /\ task[d].lead \in leads
           /\ meta' = [meta EXCEPT ![Mail!Message(d)] = task[d].lead]
           /\ known' = IF task[d].found THEN known \cup
                {Mail!Message(d)} ELSE known
           /\ Mail!Go(d, "log")
  <2>1. /\ Goes(d) /\ task'[d].at = "log" /\ task'[d].found = task[d].found
        /\ task'[d].lead = task[d].lead
        /\ Mail!Message(d)' = Mail!Message(d)
        /\ Mail!Customer(d)' = Mail!Customer(d)
    BY <1>0, <1>3, GoGoes
  <2>2. PICK k \in Mail!Messages : k = Mail!Message(d)
    BY <1>1
  <2>3. /\ meta'[k] = task[d].lead /\ known' \subseteq known \cup {k}
        /\ k \in FromCustomers
        /\ \A m \in Mail!Messages : m # k => meta'[m] = meta[m]
        /\ meta[k] = Mail!Absent /\ k \notin FromPage
    BY <1>0, <1>1, <1>3, <2>2, InboxAssumption DEF RowsHaveTypes,
      Mail!InboxAssumption
  <2>4. Finds(d) /\ (k \in known' => k \in known \/ task[d].found) /\
          Mail!Customer(d) = Of[k]
    BY <1>3, <2>2 DEF MailInv, FoundIsOwner, Mail!Customer
  <2>5. Finds(d)' /\ Stores(d)'
    BY <1>0, <2>1, <2>2, <2>3, <2>4 DEF Finds, Stores
  <2>6. RowsHaveTypes'
    BY <1>0, <1>1, <1>3 DEF RowsHaveTypes
  <2>7. task[d].lead # Mail!Absent
    BY <1>0, <1>3 DEF RowsHaveTypes, Mail!Absent
  <2>8. FilesWell(k) /\ AgreesAt(k)
    BY RowsWell
  <2>9. conv'[k] = Mail!Absent /\ Mail!Absent \notin Mail!Leads
    BY <1>0, <2>3, <2>8 DEF AgreesAt, Mail!Leads, Mail!Absent
  <2>10. FilesWell(k)' /\ AgreesAt(k)'
    BY <1>0, <1>3, <2>3, <2>4, <2>7, <2>8, <2>9 DEF FilesWell, AgreesAt, Finds
  <2> QED
    BY <1>0, <2>1, <2>3, <2>5, <2>6, <2>10, RowStep
<1> QED
  BY <1>2, <1>3 DEF Mail!Store

(* What is logged was stored under the lead the task has found, and a merge *)
(* that came between them has taken the lead away.                         *)
LEMMA LogKeeps ==
  ASSUME MailInv, NEW d \in Deliveries, Mail!Log(d)
  PROVE  MailInv'
<1>0. /\ RowsHaveTypes /\ serial \in Nat /\ serial' = serial
      /\ task[d].at = "log"
      /\ UNCHANGED <<serial, leads, owner, meta, accepted, send, hurt,
           removals, failures>>
  BY DEF Mail!Log, Mail!At, MailInv, RowsHaveTypes
<1>1. Mail!Message(d) \in Mail!Messages /\ Mail!Customer(d) \in Customers
  BY <1>0, MessagesAreMessages DEF MailInv, TasksAreSane, TaskIsSane
<1>2. CASE (\E a \in BOOLEAN : Mail!Advance(d, a)) /\ UNCHANGED <<conv, known>>
  BY <1>0, <1>2, Advances, TaskStep DEF Finds, Stores, Mail!rows
<1>3. CASE /\ conv[Mail!Message(d)] = Mail!Absent /\ task[d].lead \in leads
           /\ conv' = [conv EXCEPT ![Mail!Message(d)] = task[d].lead]
           /\ known' = IF task[d].found THEN known \cup
                {Mail!Message(d)} ELSE known
           /\ Mail!Advance(d, FALSE)
  <2>1. /\ Goes(d) /\ ~ task'[d].found /\ task'[d].at \in {"find", "done"}
    BY <1>0, <1>3, Advances
  <2>2. PICK k \in Mail!Messages : k = Mail!Message(d)
    BY <1>1
  <2>3. /\ conv'[k] = task[d].lead /\ known' \subseteq known \cup {k}
        /\ \A m \in Mail!Messages : m # k => conv'[m] = conv[m]
        /\ conv[k] = Mail!Absent
    BY <1>0, <1>1, <1>3, <2>2 DEF RowsHaveTypes
  <2>4. /\ Finds(d) /\ Stores(d)
        /\ (k \in known' => k \in known \/ task[d].found) /\
             Mail!Customer(d) = Of[k]
    BY <1>3, <2>2 DEF MailInv, FoundIsOwner, StoredIsFiled, Mail!Customer
  <2>5. Finds(d)' /\ Stores(d)'
    BY <2>1 DEF Finds, Stores
  <2>6. RowsHaveTypes'
    BY <1>0, <1>1, <1>3 DEF RowsHaveTypes
  <2>7. task[d].lead # Mail!Absent /\ task[d].lead \in Mail!Leads
    <3>1. 4 \in Nat /\ serial \in 0..4 /\ leads \subseteq 1..serial
      BY <1>0, InboxAssumption DEF RowsHaveTypes, Mail!InboxAssumption
    <3>2. \A x \in leads : x # Mail!Absent /\ x \in Mail!Leads
      BY <3>1 DEF Mail!Absent, Mail!Leads
    <3> QED
      BY <1>3, <3>2
  <2>8. FilesWell(k) /\ AgreesAt(k)
    BY RowsWell
  <2>9. k \in FromCustomers => meta'[k] = task[d].lead
    BY <1>0, <1>3, <2>2, <2>4 DEF Stores
  <2>10. AgreesAt(k)'
    BY <2>3, <2>9 DEF AgreesAt
  <2>11. FilesWell(k)'
    <3>1. CASE k \in FromCustomers /\ k \in known
      BY <1>0, <2>3, <2>7, <2>8, <2>9, <3>1, InboxAssumption DEF FilesWell,
        Mail!InboxAssumption
    <3>2. CASE k \in FromPage /\ k \in known
      BY <2>3, <2>8, <3>2 DEF FilesWell
    <3>3. CASE task[d].found
      <4>1. owner'[Mail!Channel(Of[k])] = task[d].lead
        BY <1>0, <1>3, <2>4, <3>3 DEF Finds
      <4> QED
        BY <2>3, <2>7, <2>9, <4>1, InboxAssumption DEF FilesWell,
          Mail!InboxAssumption
    <3>4. CASE k \notin known'
      BY <3>4 DEF FilesWell
    <3> QED
      BY <2>4, <3>1, <3>2, <3>3, <3>4 DEF Mail!Messages
  <2> QED
    BY <1>0, <2>1, <2>3, <2>5, <2>6, <2>10, <2>11, RowStep
<1>4. CASE Mail!Advance(d, FALSE) /\ UNCHANGED <<conv, known>>
  BY <1>2, <1>4
<1>5. CASE Mail!Advance(d, Mail!Message(d) \in FromPage) /\
             UNCHANGED <<conv, known>>
  <2>1. (Mail!Message(d) \in FromPage) \in BOOLEAN
    OBVIOUS
  <2> HIDE DEF Mail!Advance
  <2> QED
    BY <1>2, <1>5, <2>1
<1> QED
  BY <1>3, <1>4, <1>5 DEF Mail!Log

-----------------------------------------------------------------------------
(* The steps of the staff, and of the page                                 *)

(* An answer that is under way, or its row.                                *)
LEMMA AnswersKeep ==
  ASSUME MailInv, NEW o \in Staff,
         UNCHANGED <<serial, leads, owner, conv, task, hurt, known, removals,
           failures>>,
         send' \in [Staff -> SendRow], SendIsSane(o)',
         \A p \in Staff : p # o => send'[p] = send[p],
         RowsHaveTypes', \A n \in FromCustomers :
           meta'[n] = meta[n], Mail!AnswersStandByCustomers',
         send'[o].at # "idle" /\ send'[o].lead \in leads =>
           \E m \in FromCustomers :
             Of[m] = send'[o].to /\ meta[m] = send'[o].lead
  PROVE  MailInv'
<1>1. TasksAreSane' /\ FoundIsOwner' /\ StoredIsFiled'
  BY DEF MailInv, TasksAreSane, TaskIsSane, FoundIsOwner, Finds,
    StoredIsFiled, Stores, Mail!Message, Mail!Customer
<1>2. KnownAreStored' /\ Mail!FiledWithOwner' /\ Mail!TablesAgree'
  BY DEF MailInv, Filed, KnownAreStored, Mail!FiledWithOwner, Mail!TablesAgree
<1>3. SendsAreSane'
  <2> SUFFICES ASSUME NEW p \in Staff, p # o PROVE SendIsSane(p)'
    BY DEF SendsAreSane
  <2>1. SendIsSane(p) /\ send'[p] = send[p]
    BY DEF MailInv, SendsAreSane
  <2> QED
    BY <2>1 DEF SendIsSane
<1>4. AnswersConcernLeads'
  <2> SUFFICES ASSUME NEW p \in Staff, send'[p].at # "idle",
                      send'[p].lead \in leads
               PROVE  \E m \in FromCustomers :
                        Of[m] = send'[p].to /\ meta'[m] = send'[p].lead
    BY DEF AnswersConcernLeads
  <2>1. CASE p = o
    BY <2>1
  <2>2. CASE p # o
    BY <2>2 DEF MailInv, AnswersConcernLeads
  <2> QED
    BY <2>1, <2>2
<1> QED
  BY <1>1, <1>2, <1>3, <1>4 DEF MailInv, Filed

LEMMA SendStep ==
  ASSUME MailInv, NEW o \in Staff, NEW r \in SendRow,
         send' = [send EXCEPT ![o] = r], SendIsSane(o)',
         UNCHANGED <<Mail!rows, task, hurt, known, removals, failures>>,
         accepted' \subseteq FromPage,
         r.at # "idle" /\ r.lead \in leads =>
           \E m \in FromCustomers : Of[m] = r.to /\ meta[m] = r.lead
  PROVE  MailInv'
<1>1. /\ send' \in [Staff -> SendRow] /\ send'[o] = r
      /\ \A p \in Staff : p # o => send'[p] = send[p]
  BY DEF MailInv, SendsAreSane
<1>2. /\ UNCHANGED <<serial, leads, owner, meta, conv, task, hurt, known,
           removals, failures>>
  BY DEF Mail!rows
<1>3. RowsHaveTypes' /\ Mail!AnswersStandByCustomers'
  BY <1>2 DEF MailInv, RowsHaveTypes, Filed, Mail!AnswersStandByCustomers
<1> QED
  BY <1>1, <1>2, <1>3, AnswersKeep

LEMMA NoSendIsSane == Mail!NoSend \in SendRow /\ Mail!NoSend.at = "idle"
BY DEF Mail!NoSend, SendRow, Mail!Null

LEMMA BeginKeeps ==
  ASSUME MailInv, NEW o \in Staff, NEW l \in leads, Mail!Begin(o, l)
  PROVE  MailInv'
<1>1. PICK m \in FromCustomers :
        /\ meta[m] = l
        /\ send' = [send EXCEPT ![o] =
                     [Mail!NoSend EXCEPT !.at = "call", !.lead = l,
                       !.to = Of[m]]]
  BY Zenon DEF Mail!Begin
<1>2. /\ l \in 1..serial /\ serial \in Nat /\ Of[m] \in Customers
  <2>1. l \in 1..serial /\ serial \in Nat
    <3>1. serial \in 0..4 /\ leads \subseteq 1..serial
      BY Zenon DEF MailInv, RowsHaveTypes
    <3> QED
      BY <3>1
  <2>2. m \in Mail!Messages
    BY DEF Mail!Messages
  <2>3. Of[m] \in Customers
    BY <2>2, InboxAssumption DEF Mail!InboxAssumption
  <2> QED
    BY <2>1, <2>3
<1> DEFINE r == [Mail!NoSend EXCEPT !.at = "call", !.lead = l, !.to = Of[m]]
<1>3. r \in SendRow /\ r.at = "call" /\ r.lead = l /\ r.to = Of[m]
  <2>1. l \in Nat
    BY <1>2
  <2>2. \A q \in SendRow : [q EXCEPT !.at = "call"] \in SendRow
    BY DEF SendRow
  <2>3. \A q \in SendRow : [q EXCEPT !.lead = l] \in SendRow
    BY <2>1 DEF SendRow
  <2>4. \A q \in SendRow : [q EXCEPT !.to = Of[m]] \in SendRow
    BY <1>2 DEF SendRow
  <2>5. r \in SendRow
    BY <2>2, <2>3, <2>4, NoSendIsSane
  <2> QED
    BY <2>5 DEF Mail!NoSend
<1>4. send'[o] = r
  BY <1>1 DEF MailInv, SendsAreSane
<1> HIDE DEF r
<1>5. SendIsSane(o)'
  BY <1>2, <1>3, <1>4 DEF SendIsSane, Mail!Begin, Mail!rows
<1>6. accepted' \subseteq FromPage
  BY DEF MailInv, RowsHaveTypes, Mail!Begin
<1>7. /\ send' = [send EXCEPT ![o] = r]
      /\ UNCHANGED <<Mail!rows, task, hurt, known, removals, failures>>
  BY <1>1 DEF Mail!Begin, r
<1> QED
  BY <1>1, <1>3, <1>5, <1>6, <1>7, SendStep

LEMMA RefuseKeeps ==
  ASSUME MailInv, NEW o \in Staff, send' = [send EXCEPT ![o] = Mail!NoSend],
         UNCHANGED <<Mail!rows, task, hurt, known, removals, failures>>,
           accepted' \subseteq FromPage
  PROVE  MailInv'
<1>1. send'[o] = Mail!NoSend
  BY DEF MailInv, SendsAreSane
<1>2. SendIsSane(o)'
  BY <1>1, NoSendIsSane DEF SendIsSane
<1> QED
  BY <1>2, NoSendIsSane, SendStep

LEMMA AnswerKeeps ==
  ASSUME MailInv, NEW o \in Staff, NEW m \in FromPage, NEW heard \in BOOLEAN,
         Mail!Answer(o, m, heard)
  PROVE  MailInv'
<1>1. /\ accepted' \subseteq FromPage
      /\ UNCHANGED <<Mail!rows, task, hurt, known, removals, failures>>
      /\ send[o].at = "call" /\ Of[m] = send[o].to
  BY DEF Mail!Answer, MailInv, RowsHaveTypes
<1>2. CASE send' = [send EXCEPT ![o] = Mail!NoSend]
  BY <1>1, <1>2, RefuseKeeps
<1>3. CASE send' = [send EXCEPT ![o] = [send[o] EXCEPT !.at = "record",
             !.message = m]]
  <2> DEFINE r == [send[o] EXCEPT !.at = "record", !.message = m]
  <2>1. send \in [Staff -> SendRow] /\ send[o] \in SendRow /\ SendIsSane(o)
    BY DEF MailInv, SendsAreSane
  <2>2. /\ r \in SendRow /\ r.at = "record" /\ r.message = m
        /\ r.lead = send[o].lead /\ r.to = send[o].to
    BY <2>1 DEF SendRow
  <2>3. send'[o] = r
    BY <1>3, <2>1
  <2> HIDE DEF r
  <2>4. SendIsSane(o)'
    BY <1>1, <2>1, <2>2, <2>3 DEF SendIsSane, Mail!rows
  <2>5. r.lead \in leads =>
          \E n \in FromCustomers : Of[n] = r.to /\ meta[n] = r.lead
    BY <1>1, <2>2 DEF MailInv, AnswersConcernLeads
  <2>6. send' = [send EXCEPT ![o] = r]
    BY <1>3 DEF r
  <2> QED
    BY <1>1, <2>2, <2>4, <2>5, <2>6, SendStep
<1>4. /\ \/ send' = [send EXCEPT ![o] = Mail!NoSend]
         \/ send' = [send EXCEPT ![o] = [send[o] EXCEPT !.at = "record",
              !.message = m]]
  <2>1. send \in [Staff -> SendRow]
    BY DEF MailInv, SendsAreSane
  <2> QED
    BY <2>1 DEF Mail!Answer
<1> QED
  BY <1>2, <1>3, <1>4

LEMMA RecordKeeps ==
  ASSUME MailInv, NEW o \in Staff, Mail!Record(o)
  PROVE  MailInv'
<1>1. /\ send' = [send EXCEPT ![o] = Mail!NoSend] /\ send[o].at = "record"
      /\ UNCHANGED <<serial, leads, owner, conv, accepted, task, hurt, known,
           removals, failures>>
  BY DEF Mail!Record
<1>2. CASE meta' = meta
  <2>1. accepted' \subseteq FromPage /\ UNCHANGED Mail!rows
    BY <1>1, <1>2 DEF MailInv, RowsHaveTypes, Mail!rows
  <2> QED
    BY <1>1, <2>1, RefuseKeeps
<1>3. CASE send[o].lead \in leads /\
             meta' = [meta EXCEPT ![send[o].message] = send[o].lead]
  <2>1. /\ send \in [Staff -> SendRow] /\ SendIsSane(o) /\ RowsHaveTypes
    BY DEF MailInv, SendsAreSane
  <2>2. PICK m \in FromPage : m = send[o].message /\ Of[m] = send[o].to
    BY <1>1, <2>1 DEF SendIsSane
  <2>3. PICK l \in leads : l = send[o].lead
    BY <1>3
  <2>4. PICK n \in FromCustomers : Of[n] = Of[m] /\ meta[n] = l
    BY <1>1, <2>2, <2>3 DEF MailInv, AnswersConcernLeads
  <2>5. /\ meta' = [meta EXCEPT ![m] = l] /\ m \in Mail!Messages
        /\ meta \in [Mail!Messages -> leads \cup {Mail!Null, Mail!Absent}]
    BY <1>3, <2>1, <2>2, <2>3 DEF Mail!Messages, RowsHaveTypes
  <2>6. /\ meta'[m] = l /\ \A k \in Mail!Messages : k # m => meta'[k] = meta[k]
        /\ \A k \in FromCustomers : meta'[k] = meta[k]
    BY <2>5, InboxAssumption DEF Mail!InboxAssumption, Mail!Messages
  <2>7. RowsHaveTypes'
    BY <1>1, <2>1, <2>5 DEF RowsHaveTypes
  <2>8. Mail!AnswersStandByCustomers'
    <3> SUFFICES ASSUME NEW k \in FromPage, meta'[k] \in Mail!Leads
                 PROVE  /\ meta'[k] \in leads
                        /\ \E i \in FromCustomers :
                             Of[i] = Of[k] /\ meta'[i] = meta'[k]
      BY <1>1 DEF Mail!AnswersStandByCustomers
    <3>1. CASE k = m
      BY <2>4, <2>6, <3>1
    <3>2. CASE k # m
      BY <2>6, <3>2 DEF MailInv, Filed, Mail!AnswersStandByCustomers,
        Mail!Messages
    <3> QED
      BY <3>1, <3>2
  <2>9. /\ send' \in [Staff -> SendRow] /\ send'[o] = Mail!NoSend
        /\ \A p \in Staff : p # o => send'[p] = send[p]
    BY <1>1, <2>1, NoSendIsSane
  <2>10. SendIsSane(o)'
    BY <2>9, NoSendIsSane DEF SendIsSane
  <2> QED
    BY <1>1, <2>6, <2>7, <2>8, <2>9, <2>10, NoSendIsSane, AnswersKeep
<1> QED
  BY <1>2, <1>3 DEF Mail!Record

LEMMA EchoKeeps ==
  ASSUME MailInv, NEW m \in FromPage, Mail!WriteElsewhere(m)
  PROVE  MailInv'
<1>1. /\ accepted' \subseteq FromPage
      /\ UNCHANGED <<serial, leads, owner, meta, conv, task, send, hurt,
                     known, removals, failures>>
  BY DEF Mail!WriteElsewhere, MailInv, RowsHaveTypes, Mail!rows
<1>2. RowsHaveTypes' /\ TasksAreSane' /\ SendsAreSane' /\ FoundIsOwner'
  BY <1>1 DEF MailInv, RowsHaveTypes, TasksAreSane, TaskIsSane, SendsAreSane,
    SendIsSane, FoundIsOwner, Finds, Mail!Message, Mail!Customer
<1>3. StoredIsFiled' /\ AnswersConcernLeads' /\ Filed'
  BY <1>1 DEF MailInv, StoredIsFiled, Stores, AnswersConcernLeads, Filed,
    KnownAreStored, Mail!FiledWithOwner, Mail!TablesAgree,
    Mail!AnswersStandByCustomers, Mail!Message
<1> QED
  BY <1>2, <1>3 DEF MailInv

-----------------------------------------------------------------------------
(* Merges, deletions and the end of the process                            *)

(* A lead goes; its rows go to another one, or to none.                    *)
LEMMA LeadGoes ==
  ASSUME MailInv, NEW l \in leads, NEW to \in (leads \ {l}) \cup {Mail!Null},
         leads' = leads \ {l}, owner' = Mail!Moved(owner, l, to), meta' =
           Mail!Moved(meta, l, to),
         \/ conv' = Mail!Moved(conv, l, to) /\ to # Mail!Null
         \/ conv' = conv /\ \A m \in Mail!Messages : conv[m] # l,
         hurt' = hurt \cup Mail!Using(l), removals < 2, removals' =
           removals + 1,
         UNCHANGED <<serial, accepted, task, send, known, failures>>
  PROVE  MailInv'
<1>0. /\ RowsHaveTypes /\ Filed /\ l # Mail!Null /\ l # Mail!Absent
      /\ to # Mail!Absent /\ Mail!Null # Mail!Absent
      /\ Mail!Null \notin leads /\ Mail!Absent \notin leads
      /\ Mail!Null \notin Mail!Leads /\ Mail!Absent \notin Mail!Leads
  BY DEF MailInv, RowsHaveTypes, Mail!Null, Mail!Absent, Mail!Leads
<1>1. /\ \A c \in Keys : owner'[c] = IF owner[c] = l THEN to ELSE owner[c]
      /\ \A m \in Mail!Messages :
           meta'[m] = IF meta[m] = l THEN to ELSE meta[m]
      /\ \A m \in Mail!Messages :
           conv'[m] = IF conv[m] = l THEN to ELSE conv[m]
  BY <1>0 DEF RowsHaveTypes, Mail!Moved
<1>2. RowsHaveTypes'
  <2>1. /\ owner' \in [Keys -> leads' \cup {Mail!Null}]
        /\ meta' \in [Mail!Messages -> leads' \cup {Mail!Null, Mail!Absent}]
        /\ conv' \in [Mail!Messages -> leads' \cup {Mail!Absent}]
    BY <1>0 DEF RowsHaveTypes, Mail!Moved
  <2>2. hurt' \subseteq Deliveries /\ removals' \in 0..2
    BY <1>0, InboxAssumption DEF RowsHaveTypes, Mail!Using,
      Mail!InboxAssumption
  <2> QED
    BY <1>0, <2>1, <2>2 DEF RowsHaveTypes
<1>3. TasksAreSane' /\ SendsAreSane'
  BY DEF MailInv, TasksAreSane, TaskIsSane, SendsAreSane, SendIsSane,
    Mail!Message
<1>4. FoundIsOwner'
  <2> SUFFICES ASSUME NEW d \in Deliveries, task[d].found,
                      task[d].lead \in leads'
               PROVE  owner'[Mail!Channel(Mail!Customer(d))] = task[d].lead
    BY DEF FoundIsOwner, Finds, Mail!Customer, Mail!Message
  <2>1. owner[Mail!Channel(Mail!Customer(d))] = task[d].lead /\ task[d].at # "idle"
    BY DEF MailInv, FoundIsOwner, Finds, TasksAreSane, TaskIsSane
  <2>2. Mail!Customer(d) \in Customers
    BY <2>1, MessagesAreMessages DEF MailInv
  <2> QED
    BY <1>1, <2>1, <2>2, KeysAreKeys
<1>5. StoredIsFiled'
  <2> SUFFICES ASSUME NEW d \in Deliveries, task[d].at = "log",
                      Mail!Message(d) \in FromCustomers, task[d].lead \in
                        leads'
               PROVE  meta'[Mail!Message(d)] = task[d].lead
    BY DEF StoredIsFiled, Stores, Mail!Message
  <2>1. /\ meta[Mail!Message(d)] = task[d].lead
        /\ Mail!Message(d) \in Mail!Messages
    BY DEF MailInv, StoredIsFiled, Stores, Mail!Messages
  <2> QED
    BY <1>1, <2>1
<1>6. AnswersConcernLeads'
  <2> SUFFICES ASSUME NEW o \in Staff, send[o].at # "idle",
                      send[o].lead \in leads'
               PROVE  \E m \in FromCustomers :
                        Of[m] = send[o].to /\ meta'[m] = send[o].lead
    BY DEF AnswersConcernLeads
  <2>1. PICK m \in FromCustomers : Of[m] = send[o].to /\ meta[m] = send[o].lead
    BY DEF MailInv, AnswersConcernLeads
  <2> QED
    BY <1>1, <2>1 DEF Mail!Messages
<1>7. Mail!AnswersStandByCustomers'
  <2> SUFFICES ASSUME NEW m \in FromPage, meta'[m] \in Mail!Leads
               PROVE  /\ meta'[m] \in leads'
                      /\ \E n \in FromCustomers :
                           Of[n] = Of[m] /\ meta'[n] = meta'[m]
    BY DEF Mail!AnswersStandByCustomers
  <2>1. meta[m] \in Mail!Leads
    BY <1>0, <1>1, InboxAssumption DEF Mail!Messages, Mail!Leads,
      RowsHaveTypes, Mail!InboxAssumption
  <2>2. PICK n \in FromCustomers : Of[n] = Of[m] /\ meta[n] = meta[m]
    BY <1>0, <2>1 DEF Filed, Mail!AnswersStandByCustomers
  <2>3. meta'[m] \in leads'
    BY <1>0, <1>2 DEF RowsHaveTypes, Mail!Messages
  <2> QED
    BY <1>1, <2>2, <2>3 DEF Mail!Messages
<1>8. KnownAreStored' /\ Mail!FiledWithOwner' /\ Mail!TablesAgree'
  <2>1. ASSUME NEW m \in Mail!Messages PROVE FilesWell(m)' /\ AgreesAt(m)'
    <3>1. /\ FilesWell(m) /\ AgreesAt(m) /\ Of[m] \in Customers
      BY RowsWell
    <3>2. /\ owner'[Mail!Channel(Of[m])] =
               IF owner[Mail!Channel(Of[m])] = l
               THEN to ELSE owner[Mail!Channel(Of[m])]
          /\ meta'[m] = IF meta[m] = l THEN to ELSE meta[m]
          /\ conv'[m] = IF conv[m] = l THEN to ELSE conv[m]
      BY <1>1, <3>1, KeysAreKeys
    <3>3. l \in Mail!Leads
      <4>1. 4 \in Nat
        BY InboxAssumption DEF Mail!InboxAssumption
      <4> QED
        BY <1>0, <4>1 DEF RowsHaveTypes, Mail!Leads
    <3>4. (meta[m] = l /\ m \in FromCustomers) \/ conv[m] = l =>
            (m \in known => owner[Mail!Channel(Of[m])] = l)
      BY <3>1, <3>3 DEF FilesWell
    <3>5. conv[m] = l => to # Mail!Null
      OBVIOUS
    <3>6. FilesWell(m)'
      BY <1>0, <3>1, <3>2, <3>3, <3>4 DEF FilesWell
    <3>7. AgreesAt(m)'
      BY <1>0, <3>1, <3>2 DEF AgreesAt
    <3> QED
      BY <3>6, <3>7
  <2>2. known \subseteq Mail!Messages
    BY <1>0 DEF RowsHaveTypes
  <2> QED
    BY <2>1, <2>2 DEF FilesWell, AgreesAt, KnownAreStored,
      Mail!FiledWithOwner, Mail!TablesAgree, Mail!Messages
<1> QED
  BY <1>2, <1>3, <1>4, <1>5, <1>6, <1>7, <1>8 DEF MailInv, Filed

(* A failed statement moves the task on, or ends it.                       *)
LEMMA FailureKeeps ==
  ASSUME MailInv, NEW d \in Deliveries, Mail!StatementFails(d)
  PROVE  MailInv'
<1>1. /\ task[d].at # "idle" /\ failures < 1 /\ failures' = failures + 1
      /\ hurt' = hurt \cup {d}
      /\ UNCHANGED <<serial, leads, owner, meta, conv, accepted, send, known,
                     removals>>
  BY Zenon DEF Mail!StatementFails, Mail!rows
<1>2. serial' \in Nat /\ RowsHaveTypes /\ RowsHaveTypes'
  BY <1>1 DEF MailInv, RowsHaveTypes
<1>3. \/ \E a \in BOOLEAN : Mail!Advance(d, a)
      \/ Mail!Fails(d)
  BY Zenon DEF Mail!StatementFails
<1>4. Goes(d) /\ ~ task'[d].found /\ task'[d].at \in {"find", "done"}
  BY <1>1, <1>2, <1>3, Advances, FailsGoes
<1>5. TasksAreSane'
  BY <1>1, <1>2, <1>4, TasksStaySane DEF MailInv, RowsHaveTypes
<1>6. FoundIsOwner' /\ StoredIsFiled'
  <2> SUFFICES ASSUME NEW e \in Deliveries, e # d PROVE Finds(e)' /\ Stores(e)'
    BY <1>4 DEF FoundIsOwner, StoredIsFiled, Finds, Stores
  <2>1. task'[e] = task[e] /\ Finds(e) /\ Stores(e)
    BY <1>4 DEF Goes, MailInv, FoundIsOwner, StoredIsFiled
  <2> QED
    BY <1>1, <2>1 DEF Finds, Stores, Mail!Customer, Mail!Message
<1>7. SendsAreSane' /\ AnswersConcernLeads' /\ Filed'
  BY <1>1 DEF MailInv, SendsAreSane, SendIsSane, AnswersConcernLeads, Filed,
    KnownAreStored, Mail!FiledWithOwner, Mail!TablesAgree,
    Mail!AnswersStandByCustomers
<1> QED
  BY <1>2, <1>5, <1>6, <1>7 DEF MailInv

LEMMA CrashKeeps ==
  ASSUME MailInv, Mail!Crash
  PROVE  MailInv'
<1>0. /\ RowsHaveTypes
      /\ UNCHANGED <<serial, leads, owner, meta, conv, accepted, known,
                     removals>>
      /\ task \in [Deliveries -> TaskRow]
  BY Zenon DEF MailInv, Mail!Crash, Mail!rows, TasksAreSane
<1>1. RowsHaveTypes'
  <2>1. failures' = failures + 1 /\ failures < 1 /\ hurt' \subseteq Deliveries
    BY <1>0, Zenon DEF RowsHaveTypes, Mail!Crash
  <2>2. failures' \in 0..1
    BY <1>0, <2>1, InboxAssumption DEF RowsHaveTypes, Mail!InboxAssumption
  <2> QED
    BY <1>0, <2>1, <2>2 DEF RowsHaveTypes
<1>2. /\ \A d \in Deliveries :
           task'[d] \in {task[d], [task[d] EXCEPT !.at = "done",
             !.lead = Mail!Null]}
      /\ task' = [d \in Deliveries |-> task'[d]]
      /\ \A d \in Deliveries : task'[d] # task[d] => task[d].at # "idle"
  BY Zenon DEF Mail!Crash
<1>3. ASSUME NEW d \in Deliveries
      PROVE  /\ task'[d] \in TaskRow
             /\ task'[d].batch = task[d].batch /\ task'[d].n = task[d].n
             /\ task'[d].found = task[d].found
             /\ \/ task'[d] = task[d]
                \/ task[d].at # "idle" /\ task'[d].at = "done" /\
                     task'[d].lead = Mail!Null
  <2>1. [task[d] EXCEPT !.at = "done", !.lead = Mail!Null] \in TaskRow
    BY <1>0 DEF TaskRow, Mail!Null
  <2> QED
    <3>1. CASE task'[d] = task[d]
      <4>1. task[d] \in TaskRow
        BY <1>0
      <4> QED
        BY <3>1, <4>1, Zenon
    <3>2. CASE task'[d] # task[d]
      <4>1. /\ task'[d] = [task[d] EXCEPT !.at = "done", !.lead = Mail!Null]
            /\ task[d].at # "idle"
        BY <1>2, <3>2, Zenon
      <4>2. task[d] \in TaskRow
        BY <1>0
      <4> QED
        BY <2>1, <4>1, <4>2 DEF TaskRow
    <3> QED
      BY <3>1, <3>2
<1>4. TasksAreSane'
  <2>1. task' \in [Deliveries -> TaskRow]
    BY <1>2, <1>3, Zenon
  <2>2. ASSUME NEW d \in Deliveries PROVE TaskIsSane(d)'
    <3>1. TaskIsSane(d) /\ Mail!Message(d)' = Mail!Message(d) /\ serial \in Nat
      BY <1>0, <1>3 DEF MailInv, TasksAreSane, Mail!Message, RowsHaveTypes
    <3> QED
      BY <1>0, <1>3, <3>1 DEF TaskIsSane, Mail!Null
  <2> QED
    BY <2>1, <2>2 DEF TasksAreSane
<1>5. Mail!Null \notin leads
  BY <1>0 DEF RowsHaveTypes, Mail!Null
<1>6. FoundIsOwner' /\ StoredIsFiled'
  <2> SUFFICES ASSUME NEW d \in Deliveries PROVE Finds(d)' /\ Stores(d)'
    BY DEF FoundIsOwner, StoredIsFiled
  <2>1. /\ Finds(d) /\ Stores(d) /\ Mail!Message(d)' = Mail!Message(d)
        /\ Mail!Customer(d)' = Mail!Customer(d)
    BY <1>3 DEF MailInv, FoundIsOwner, StoredIsFiled, Mail!Message,
      Mail!Customer
  <2> QED
    BY <1>0, <1>3, <1>5, <2>1 DEF Finds, Stores
<1>7. \A o \in Staff : send'[o] = Mail!NoSend
  BY Zenon DEF Mail!Crash
<1>8. SendsAreSane' /\ AnswersConcernLeads'
  <2>1. send' \in [Staff -> SendRow]
    BY Zenon, NoSendIsSane DEF Mail!Crash
  <2> QED
    BY <1>7, <2>1, NoSendIsSane DEF SendsAreSane, SendIsSane,
      AnswersConcernLeads
<1>9. Filed'
  BY <1>0 DEF MailInv, Filed, KnownAreStored, Mail!FiledWithOwner,
    Mail!TablesAgree, Mail!AnswersStandByCustomers
<1> QED
  BY <1>1, <1>4, <1>6, <1>8, <1>9 DEF MailInv

-----------------------------------------------------------------------------
LEMMA MailBegins == Mail!Init => MailInv
<1> SUFFICES ASSUME Mail!Init PROVE MailInv
  OBVIOUS
<1>1. RowsHaveTypes
  BY InboxAssumption DEF Mail!Init, RowsHaveTypes, Keys, Mail!InboxAssumption
<1>2. TasksAreSane
  BY DEF Mail!Init, TasksAreSane, TaskIsSane, Mail!NoTask, TaskRow, Mail!Null
<1>3. SendsAreSane
  BY NoSendIsSane DEF Mail!Init, SendsAreSane, SendIsSane
<1>4. FoundIsOwner /\ StoredIsFiled
  BY DEF Mail!Init, FoundIsOwner, StoredIsFiled, Finds, Stores, Mail!NoTask
<1>5. AnswersConcernLeads
  BY NoSendIsSane DEF Mail!Init, AnswersConcernLeads
<1>6. Mail!Absent \notin Mail!Leads
  BY DEF Mail!Absent, Mail!Leads
<1>7. Filed
  BY <1>6, InboxAssumption DEF Mail!Init, Filed, KnownAreStored,
    Mail!FiledWithOwner, Mail!TablesAgree, Mail!AnswersStandByCustomers,
    Mail!InboxAssumption, Mail!Messages
<1> QED
  BY <1>1, <1>2, <1>3, <1>4, <1>5, <1>7 DEF MailInv

LEMMA MailStep == MailInv /\ [Mail!Next]_Mail!vars => MailInv'
<1> SUFFICES ASSUME MailInv, [Mail!Next]_Mail!vars PROVE MailInv'
  OBVIOUS
<1>1. ASSUME NEW d \in Deliveries, Mail!DeliveryStep(d) PROVE MailInv'
  BY <1>1, FindKeeps, CreateKeeps, StoreKeeps, LogKeeps, NameKeeps
    DEF Mail!DeliveryStep
<1>2. ASSUME NEW o \in Staff, NEW m \in FromPage, NEW heard \in BOOLEAN,
             Mail!Answer(o, m, heard) PROVE MailInv'
  BY <1>2, AnswerKeeps
<1>3. ASSUME NEW o \in Staff, Mail!Refuse(o) PROVE MailInv'
  BY <1>3, RefuseKeeps DEF Mail!Refuse, MailInv, RowsHaveTypes
<1>4. ASSUME NEW l \in leads, NEW k \in leads, Mail!Merge(l, k) PROVE MailInv'
  <2>1. l # Mail!Null
    BY DEF MailInv, RowsHaveTypes, Mail!Null
  <2> QED
    BY <1>4, <2>1, LeadGoes DEF Mail!Merge, Mail!ChannelsMoved
<1>5. ASSUME NEW l \in leads, Mail!Delete(l) PROVE MailInv'
  BY <1>5, LeadGoes DEF Mail!Delete
<1>6. CASE UNCHANGED Mail!vars
  <2>1. UNCHANGED <<serial, leads, owner, meta, conv, accepted, task, send,
          hurt, known, removals, failures>>
    BY <1>6 DEF Mail!vars, Mail!rows
  <2>2. RowsHaveTypes' /\ TasksAreSane' /\ SendsAreSane' /\ FoundIsOwner'
    BY <2>1 DEF MailInv, RowsHaveTypes, TasksAreSane, TaskIsSane,
      SendsAreSane, SendIsSane, FoundIsOwner, Finds, Mail!Message,
      Mail!Customer
  <2>3. StoredIsFiled' /\ AnswersConcernLeads' /\ Filed'
    BY <2>1 DEF MailInv, StoredIsFiled, Stores, AnswersConcernLeads, Filed,
      KnownAreStored, Mail!FiledWithOwner, Mail!TablesAgree,
      Mail!AnswersStandByCustomers, Mail!Message
  <2> QED
    BY <2>2, <2>3 DEF MailInv
<1> QED
  BY <1>1, <1>2, <1>3, <1>4, <1>5, <1>6, ReceiveKeeps, BeginKeeps,
    RecordKeeps, EchoKeeps, FailureKeeps, CrashKeeps DEF Mail!Next

LEMMA MailIsRight ==
  MailInv => Mail!TypeOK /\ Mail!AnswersStandByCustomers /\
    Mail!FiledWithOwner /\ Mail!TablesAgree
<1> SUFFICES ASSUME MailInv PROVE Mail!TypeOK
  BY DEF MailInv, Filed
<1>1. ASSUME NEW d \in Deliveries
      PROVE /\ task[d].at \in
                 {"idle", "find", "create", "name", "store", "log", "done"}
            /\ task[d].batch \in Entries \cup {<< >>}
            /\ task[d].n \in 0..Len(task[d].batch)
            /\ task[d].lead \in 0..serial
  <2>1. task[d] \in TaskRow /\ TaskIsSane(d) /\ serial \in Nat
    BY DEF MailInv, TasksAreSane, RowsHaveTypes
  <2>2. task[d].batch \in Entries => task[d].batch \in Seq(Mail!Messages)
    BY InboxAssumption DEF Mail!InboxAssumption
  <2>3. Len(<< >>) = 0
    OBVIOUS
  <2> QED
    BY <2>1, <2>2, <2>3 DEF TaskRow, TaskIsSane
<1>2. \A o \in Staff : send[o].at \in {"idle", "call", "record"}
  BY DEF MailInv, SendsAreSane, SendRow
<1> QED
  BY <1>1, <1>2 DEF MailInv, RowsHaveTypes, Keys, Mail!TypeOK

LEMMA AnswersRun == Access => Mail!Init /\ [][Mail!Next]_Mail!vars
<1>1. InitOfPart => Mail!Init
  BY DEF InitOfPart
<1>2. [NextOfPart]_AccessVars => [Mail!Next]_Mail!vars
  BY DEF NextOfPart, AccessVars, Sessions, Approvals, OfBudget, Joins, Answers,
    inboxVars, Mail!vars, Mail!rows
<1> QED
  BY <1>1, <1>2, PTL DEF Access, AccessVars

LEMMA MailInvAlways == Access => []MailInv
<1>1. Mail!Init => MailInv
  BY MailBegins
<1>2. MailInv /\ [Mail!Next]_Mail!vars => MailInv'
  BY MailStep
<1> QED
  BY <1>1, <1>2, AnswersRun, PTL

(* Whatever is delivered again, merged or deleted meanwhile, and whoever   *)
(* writes on Instagram, an answer of the staff stands beside a message of  *)
(* the customer it went to, a message of a customer who had a channel of   *)
(* the platform is filed with the lead the next one goes to, and both      *)
(* tables agree (webhook.py, conv_log_writer.py, leads.py).  An echo gives *)
(* a customer of Instagram no such channel.                                *)
THEOREM AnswersDoReach == Access => []AnswersReachTheirCustomer
<1>1. MailInv => AnswersReachTheirCustomer
  BY MailIsRight DEF AnswersReachTheirCustomer
<1> QED
  BY <1>1, MailInvAlways, PTL

-----------------------------------------------------------------------------
(* The types of all parts                                                  *)

LEMMA BudgetTypes ==
  Access => [](part # "months" => Budget!TypeOK)
            /\ [](part = "months" => Months!TypeOK)
<1>1. BudgetProofs!Spec => []BudgetProofs!TypeOK
  BY SameBudget, BudgetProofs!TypeCorrect
<1>2. MonthsProofs!Spec => []MonthsProofs!TypeOK
  BY SameMonths, MonthsProofs!TypeCorrect
<1>3. BudgetProofs!TypeOK => Budget!TypeOK
  BY DEF BudgetProofs!TypeOK, Budget!TypeOK, BudgetProofs!Row, Budget!Row,
    BudgetProofs!Ledger, Budget!Ledger,
    BudgetProofs!Months, Budget!Months, BudgetProofs!Process, Budget!Process
<1>4. MonthsProofs!TypeOK => Months!TypeOK
  BY DEF MonthsProofs!TypeOK, Months!TypeOK, MonthsProofs!Row, Months!Row,
    MonthsProofs!Ledger, Months!Ledger,
    MonthsProofs!Months, Months!Months, MonthsProofs!Process, Months!Process
<1>5. /\ InMonths /\ Months!TypeOK =>
           /\ part # "months" => Budget!TypeOK
           /\ part = "months" => Months!TypeOK
      /\ ~ InMonths /\ Budget!TypeOK =>
           /\ part # "months" => Budget!TypeOK
           /\ part = "months" => Months!TypeOK
  BY DEF InMonths
<1> QED
  BY <1>1, <1>2, <1>3, <1>4, <1>5, BudgetRuns, PTL

(* Every variable keeps its type, in every part.                           *)
THEOREM AccessTypes == Access => []TypesOK
<1>1. InitOfPart => part \in Parts
  BY DEF InitOfPart
<1>2. part \in Parts /\ [NextOfPart]_AccessVars => (part \in Parts)'
  BY DEF NextOfPart, AccessVars
<1>3. Access => [](part \in Parts)
  BY <1>1, <1>2, PTL DEF Access, AccessVars
<1>4. /\ part \in Parts /\ TypeOK /\ LoginInv /\ JoinInv /\ MailInv
      /\ part # "months" => Budget!TypeOK
      /\ part = "months" => Months!TypeOK
      => TypesOK
  BY MailIsRight DEF TypesOK, LoginInv, JoinInv
<1> QED
  BY <1>3, <1>4, SessionsRun, TypeCorrect, LoginInvAlways, JoinInvAlways,
     MailInvAlways, BudgetTypes, PTL

=============================================================================
