--------------------------- MODULE LoginApproval ---------------------------
(***************************************************************************)
(* The approval of logins at machines a user has not used before           *)
(* (src/backend/app/routers/auth.py, auth/devices.py,                      *)
(* auth/recovery_codes.py, tasks/maintenance.py): a login with the right   *)
(* password makes a request; the machine polls until a trusted device, an  *)
(* owner of the company or a super admin decides, or enters a recovery     *)
(* code.                                                                   *)
(*                                                                         *)
(* A handler takes its time, reads the request, and writes it by an UPDATE *)
(* under the status it expects; its transaction ends with that UPDATE.     *)
(* What it has read is in its process.  The sessions that a rejection      *)
(* ends are in RefreshTokens.  A locked account makes every code a wrong   *)
(* one; the lock itself is left out.                                       *)
(***************************************************************************)
EXTENDS Naturals, FiniteSets

CONSTANTS
  Requests,
  Codes,        \* recovery codes, with those that are yet to be made
  FirstCodes,   \* of these, the ones the user has at the beginning
  Procs,        \* requests to the API that are under way
  None,
  HourlyLimit,  \* REQUEST_HOURLY_LIMIT; all happens within one hour
  MaxWrong,     \* RECOVERY_MAX_FAILED_ATTEMPTS
  MaxFaults     \* bound: failed handlers and lost answers

CodesAssumption ==
  FirstCodes \subseteq Codes /\ None \notin Codes /\ None \notin Requests
LimitsAssumption ==
  HourlyLimit \in Nat /\ MaxWrong \in Nat \ {0} /\ MaxFaults \in Nat

VARIABLES
  status,   \* status of the rows of auth_login_requests, or "unused"
  via,      \* decided_via
  wrong,    \* failed_code_attempts
  asked,    \* requests with admin_requested_at
  late,     \* requests whose expires_at has passed
  code,     \* recovery codes
  usedFor,  \* used_request_id
  active,   \* users.is_active
  machine,  \* the machine that waits for each request
  entered,  \* how often a request has let its machine in
  proc, faults

rows == <<status, via, wrong, asked>>
vars == <<status, via, wrong, asked, late, code, usedFor, active, machine,
          entered, proc, faults>>

Status == {"unused", "pending", "approved", "rejected", "expired", "completed"}
Decisions == {"right", "wrong", "reject", "owner", "super"}
Process == [step : {"idle", "insert", "poll", "code", "opened", "decide"},
            id : Requests \cup {None}, seen : Status,
            late : {"no", "yes"}, entry : Codes \cup {None},
            decision : Decisions \cup {"none"}]
Idle == [step |-> "idle", id |-> None, seen |-> "unused", late |-> "no",
         entry |-> None, decision |-> "none"]

TypeOK ==
  /\ status \in [Requests -> Status]
  /\ via \in [Requests -> {"none", "device", "admin", "recovery_code"}]
  /\ wrong \in [Requests -> 0..MaxWrong]
  /\ asked \subseteq Requests /\ late \subseteq Requests
  /\ code \in [Codes -> {"spare", "valid", "used", "revoked"}]
  /\ usedFor \in [Codes -> Requests \cup {None}]
  /\ active \in {"no", "yes"}
  /\ machine \in [Requests -> {"none", "waiting", "in", "out"}]
  /\ entered \in [Requests -> Nat]
  /\ proc \in [Procs -> Process]
  /\ faults \in 0..MaxFaults

Init ==
  /\ status = [r \in Requests |-> "unused"]
  /\ via = [r \in Requests |-> "none"]
  /\ wrong = [r \in Requests |-> 0]
  /\ asked = {} /\ late = {}
  /\ code = [c \in Codes |-> IF c \in FirstCodes THEN "valid" ELSE "spare"]
  /\ usedFor = [c \in Codes |-> None]
  /\ active = "yes"
  /\ machine = [r \in Requests |-> "none"]
  /\ entered = [r \in Requests |-> 0]
  /\ proc = [p \in Procs |-> Idle]
  /\ faults = 0

-----------------------------------------------------------------------------
(* Helpers                                                                 *)

At(p, step) == proc[p].step = step
End(p) == proc' = [proc EXCEPT ![p] = Idle]

(* A handler reads request r and takes the time.                           *)
Read(p, r, step) ==
  [Idle EXCEPT !.step = step, !.id = r, !.seen = status[r],
               !.late = IF r \in late THEN "yes" ELSE "no"]

Holder(c) == {p \in Procs : At(p, "opened") /\ proc[p].entry = c}

(* The answer reaches the machine, which is let in, or is lost.            *)
LetIn(r) ==
  /\ entered' = [entered EXCEPT ![r] = @ + 1]
  /\ \/ machine' = [machine EXCEPT ![r] = "in"] /\ UNCHANGED faults
     \/ faults < MaxFaults /\ faults' = faults + 1 /\ UNCHANGED machine

(* Mutant of SendAway: the machine keeps its cookie.                       *)
KeepWaiting(r) == UNCHANGED machine

(* _pending_closed: the machine gives up its cookie.                       *)
SendAway(r) ==
  machine' = [machine EXCEPT ![r] = IF @ = "waiting" THEN "out" ELSE @]

-----------------------------------------------------------------------------
(* self_login at an unknown machine: create_login_request                  *)

CountRequests(p) ==
  /\ At(p, "idle")
  /\ active = "yes"
  /\ Cardinality({r \in Requests : status[r] # "unused"}) < HourlyLimit
  /\ proc' = [proc EXCEPT ![p] = [Idle EXCEPT !.step = "insert"]]
  /\ UNCHANGED <<rows, late, code, usedFor, active, machine, entered, faults>>

InsertRequest(p) ==
  /\ At(p, "insert")
  /\ \E r \in Requests :
       /\ status[r] = "unused"
       /\ status' = [status EXCEPT ![r] = "pending"]
       /\ machine' = [machine EXCEPT ![r] = "waiting"]
  /\ End(p)
  /\ UNCHANGED <<via, wrong, asked, late, code, usedFor, active, entered,
                 faults>>

-----------------------------------------------------------------------------
(* login_request_poll                                                      *)

PollRead(p, r) ==
  /\ At(p, "idle")
  /\ machine[r] = "waiting"
  /\ proc' = [proc EXCEPT ![p] = Read(p, r, "poll")]
  /\ UNCHANGED <<rows, late, code, usedFor, active, machine, entered, faults>>

(* The request was late: it expires unless it was decided meanwhile; the   *)
(* answer is the same.                                                     *)
PollExpires(p) ==
  LET r == proc[p].id IN
  /\ At(p, "poll")
  /\ proc[p].seen = "pending" /\ proc[p].late = "yes"
  /\ status' = [status EXCEPT ![r] = IF @ = "pending" THEN "expired" ELSE @]
  /\ SendAway(r)
  /\ End(p)
  /\ UNCHANGED <<via, wrong, asked, late, code, usedFor, active, entered,
                 faults>>

PollWaits(p) ==
  /\ At(p, "poll")
  /\ proc[p].seen = "pending" /\ proc[p].late = "no"
  /\ End(p)
  /\ UNCHANGED <<rows, late, code, usedFor, active, machine, entered, faults>>

PollClosed(p) ==
  /\ At(p, "poll")
  /\ proc[p].seen \in {"rejected", "expired", "completed"}
  /\ SendAway(proc[p].id)
  /\ End(p)
  /\ UNCHANGED <<rows, late, code, usedFor, active, entered, faults>>

(* Mutant of StillApproved: the status that was read is trusted.           *)
StillApprovedWhenRead(r) == TRUE

(* UPDATE ... WHERE status = 'approved'                                    *)
StillApproved(r) == status[r] = "approved"

PollEnters(p) ==
  LET r == proc[p].id IN
  /\ At(p, "poll")
  /\ proc[p].seen = "approved"
  /\ StillApproved(r)
  /\ status' = [status EXCEPT ![r] = "completed"]
  /\ \/ active = "yes" /\ LetIn(r)
     \/ active = "no" /\ SendAway(r) /\ UNCHANGED <<entered, faults>>
  /\ End(p)
  /\ UNCHANGED <<via, wrong, asked, late, code, usedFor, active>>

PollTooLate(p) ==
  LET r == proc[p].id IN
  /\ At(p, "poll")
  /\ proc[p].seen = "approved"
  /\ ~ StillApproved(r)
  /\ SendAway(r)
  /\ End(p)
  /\ UNCHANGED <<rows, late, code, usedFor, active, entered, faults>>

-----------------------------------------------------------------------------
(* login_request_ask_admin                                                 *)
AskAdmin(r) ==
  /\ machine[r] = "waiting"
  /\ status[r] = "pending" /\ r \notin late /\ r \notin asked
  /\ asked' = asked \cup {r}
  /\ UNCHANGED <<status, via, wrong, late, code, usedFor, active, machine,
                 entered, proc, faults>>

-----------------------------------------------------------------------------
(* login_request_recovery and recovery_codes                               *)

(* The user enters one of the codes, or none that ever was.                *)
EnterCode(p, r) ==
  /\ At(p, "idle")
  /\ machine[r] = "waiting"
  /\ status[r] = "pending" /\ r \notin late /\ active = "yes"
  /\ \E c \in {k \in Codes : code[k] # "spare"} \cup {None} :
       proc' = [proc EXCEPT ![p] = [Read(p, r, "code") EXCEPT !.entry = c]]
  /\ UNCHANGED <<rows, late, code, usedFor, active, machine, entered, faults>>

(* verify: the code is used, in a transaction that goes on.                *)
VerifyCode(p) ==
  LET c == proc[p].entry IN
  /\ At(p, "code")
  /\ c # None /\ code[c] = "valid" /\ Holder(c) = {}
  /\ proc' = [proc EXCEPT ![p].step = "opened"]
  /\ UNCHANGED <<rows, late, code, usedFor, active, machine, entered, faults>>

(* Failed attempts are counted while the request is pending, and the last  *)
(* one closes it.                                                          *)
CountWrong(r) ==
  IF status[r] = "pending"
  THEN /\ wrong' = [wrong EXCEPT ![r] = @ + 1]
       /\ status' = IF wrong[r] + 1 >= MaxWrong
                    THEN [status EXCEPT ![r] = "rejected"] ELSE status
  ELSE UNCHANGED <<wrong, status>>

WrongCode(p) ==
  LET c == proc[p].entry IN
  /\ At(p, "code")
  /\ c = None \/ (c # None /\ code[c] # "valid" /\ Holder(c) = {})
  /\ CountWrong(proc[p].id)
  /\ End(p)
  /\ UNCHANGED <<via, asked, late, code, usedFor, active, machine, entered,
                 faults>>

(* UPDATE ... WHERE status = 'pending' AND expires_at > :now               *)
StillPending(r) == status[r] = "pending"

OpenByCode(p) ==
  LET r == proc[p].id
      c == proc[p].entry
  IN
  /\ At(p, "opened")
  /\ StillPending(r)
  /\ status' = [status EXCEPT ![r] = "completed"]
  /\ via' = [via EXCEPT ![r] = "recovery_code"]
  /\ code' = [code EXCEPT ![c] = "used"]
  /\ usedFor' = [usedFor EXCEPT ![c] = r]
  /\ LetIn(r)
  /\ End(p)
  /\ UNCHANGED <<wrong, asked, late, active>>

(* The transaction is rolled back, and the code was not used.              *)
GiveBack(p) == UNCHANGED <<code, usedFor>>

OpenTooLate(p) ==
  /\ At(p, "opened")
  /\ ~ StillPending(proc[p].id)
  /\ GiveBack(p)
  /\ End(p)
  /\ UNCHANGED <<rows, late, active, machine, entered, faults>>

(* generate: the codes that are not used are revoked, new ones are made.   *)
NewCodes ==
  /\ \A c \in Codes : code[c] = "valid" => Holder(c) = {}
  /\ \E c \in Codes : code[c] = "spare"
  /\ code' = [c \in Codes |-> CASE code[c] = "valid" -> "revoked"
                                [] code[c] = "spare" -> "valid"
                                [] OTHER -> code[c]]
  /\ UNCHANGED <<rows, late, usedFor, active, machine, entered, proc, faults>>

-----------------------------------------------------------------------------
(* login_request_approve, login_request_reject, approve_request_as_admin   *)

BeginDecision(p, r) ==
  /\ At(p, "idle")
  /\ status[r] # "unused"
  /\ \E d \in Decisions :
       /\ d = "owner" => r \in asked
       /\ proc' = [proc EXCEPT ![p] =
                     [Read(p, r, "decide") EXCEPT !.decision = d]]
  /\ UNCHANGED <<rows, late, code, usedFor, active, machine, entered, faults>>

ByAdmin(p) == proc[p].decision \in {"owner", "super"}

(* A device compares the expiry with the time its request began; an        *)
(* administrator with the time of the UPDATE.                              *)
InTime(p) ==
  IF ByAdmin(p) THEN proc[p].id \notin late ELSE proc[p].late = "no"

(* Mutant of Decidable: the status that was read is trusted.               *)
DecidableWhenRead(p) == proc[p].seen = "pending" /\ InTime(p)

(* UPDATE ... WHERE status = 'pending' AND expires_at > :now               *)
Decidable(p) == status[proc[p].id] = "pending" /\ InTime(p)

Decide(p) ==
  LET r == proc[p].id IN
  /\ At(p, "decide")
  /\ Decidable(p)
  /\ status' = [status EXCEPT ![r] =
                  IF proc[p].decision \in {"wrong", "reject"} THEN "rejected"
                  ELSE "approved"]
  /\ via' = [via EXCEPT ![r] = IF ByAdmin(p) THEN "admin" ELSE "device"]
  /\ End(p)
  /\ UNCHANGED <<wrong, asked, late, code, usedFor, active, machine, entered,
                 faults>>

DecideNothing(p) ==
  /\ At(p, "decide")
  /\ ~ Decidable(p)
  /\ End(p)
  /\ UNCHANGED <<rows, late, code, usedFor, active, machine, entered, faults>>

-----------------------------------------------------------------------------
(* Time, the periodic task, and faults                                     *)

TimePasses(r) ==
  /\ status[r] # "unused" /\ r \notin late
  /\ late' = late \cup {r}
  /\ UNCHANGED <<rows, code, usedFor, active, machine, entered, proc, faults>>

(* expire_login_requests, every five minutes                               *)
ExpireLoginRequests ==
  /\ \E r \in late : status[r] = "pending"
  /\ status' = [r \in Requests |->
                  IF r \in late /\ status[r] = "pending" THEN "expired"
                  ELSE status[r]]
  /\ UNCHANGED <<via, wrong, asked, late, code, usedFor, active, machine,
                 entered, proc, faults>>

Deactivate ==
  /\ active = "yes" /\ active' = "no"
  /\ UNCHANGED <<rows, late, code, usedFor, machine, entered, proc, faults>>

(* A handler fails and its transaction is rolled back.                     *)
Fail(p) ==
  /\ ~ At(p, "idle")
  /\ faults < MaxFaults /\ faults' = faults + 1
  /\ End(p)
  /\ UNCHANGED <<rows, late, code, usedFor, active, machine, entered>>

-----------------------------------------------------------------------------
Step(p) ==
  \/ InsertRequest(p)
  \/ PollExpires(p) \/ PollWaits(p) \/ PollClosed(p) \/ PollEnters(p)
  \/ PollTooLate(p)
  \/ VerifyCode(p) \/ WrongCode(p) \/ OpenByCode(p) \/ OpenTooLate(p)
  \/ Decide(p) \/ DecideNothing(p)

Next ==
  \/ \E p \in Procs :
       \/ CountRequests(p)
       \/ \E r \in Requests :
            PollRead(p, r) \/ EnterCode(p, r) \/ BeginDecision(p, r)
       \/ Step(p) \/ Fail(p)
  \/ \E r \in Requests : AskAdmin(r) \/ TimePasses(r)
  \/ NewCodes \/ ExpireLoginRequests \/ Deactivate

Spec == Init /\ [][Next]_vars

(* Handlers go on, machines poll every 15 seconds, time passes, and the    *)
(* periodic task runs.                                                     *)
Fairness ==
  /\ \A p \in Procs : WF_vars(Step(p))
  /\ \A r \in Requests :
       /\ SF_vars(\E p \in Procs : PollRead(p, r))
       /\ WF_vars(TimePasses(r))
  /\ WF_vars(ExpireLoginRequests)

FairSpec == Spec /\ Fairness

-----------------------------------------------------------------------------
(* Properties                                                              *)

(* However polls, codes and decisions overlap, a request lets its machine  *)
(* in once at most, and only when it was approved or a code was right.     *)
EnteredOnce ==
  \A r \in Requests :
    /\ entered[r] <= 1
    /\ entered[r] = 1 => status[r] = "completed" /\ via[r] # "none"
    /\ machine[r] = "in" => entered[r] = 1

(* What was decided stays decided: a rejected or expired request is never  *)
(* approved, and only an approved or pending one is completed.             *)
DecisionsStand ==
  [][\A r \in Requests :
       status'[r] # status[r] =>
         \/ status[r] \in {"unused", "pending"}
         \/ status[r] = "approved" /\ status'[r] = "completed"]_vars

(* A code is used up exactly by the entry it gave: a code is never lost to *)
(* a request that was closed meanwhile, nor used for two.                  *)
CodesAreUsedByEntries ==
  /\ \A c \in Codes : code[c] = "used" =>
       /\ usedFor[c] # None
       /\ status[usedFor[c]] = "completed"
       /\ via[usedFor[c]] = "recovery_code"
  /\ \A r \in Requests : via[r] = "recovery_code" =>
       Cardinality({c \in Codes : usedFor[c] = r}) = 1

(* After MaxWrong wrong codes a request is closed: nobody decides it, and  *)
(* no code opens it, even one that was entered before.                     *)
WrongCodesClose ==
  \A r \in Requests : wrong[r] >= MaxWrong =>
    status[r] = "rejected" /\ entered[r] = 0

(* No request stays open, and no machine waits for ever.                   *)
RequestsEnd ==
  \A r \in Requests :
    /\ (status[r] = "pending") ~> (status[r] # "pending")
    /\ (machine[r] = "waiting") ~> (machine[r] # "waiting")

(* The docstring of create_login_request: five requests in an hour.        *)
HourlyLimitHolds ==
  Cardinality({r \in Requests : status[r] # "unused"}) <= HourlyLimit

(* The docstring of login_request_poll: an approved request gives its      *)
(* machine a token, while the user is active.                              *)
ApprovedGetsIn ==
  \A r \in Requests :
    (status[r] = "approved") ~> (machine[r] = "in" \/ active = "no")

=============================================================================
