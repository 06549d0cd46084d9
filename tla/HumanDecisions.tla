--------------------------- MODULE HumanDecisions ---------------------------
(***************************************************************************)
(* What people decide about one extracted item (item_corrections) and the  *)
(* result that reflects it (analysis_results): save_review_ack, its        *)
(* revocation and save_value_override (v102_human_decisions_svc.py), the   *)
(* edit of the transcription (v102_transcription_svc.py) and the analysis  *)
(* that is started again after each of them (reanalyze_v102_job).          *)
(*                                                                         *)
(* Every decision is a row that is added.  Its corrected_at is now(), the  *)
(* time its transaction STARTED; a decision is valid when that is later    *)
(* than the last edit's, and the latest valid row of a field counts.       *)
(* Requests queue for two locks: the row of the result (FOR UPDATE) and    *)
(* the advisory lock of the post.                                          *)
(*                                                                         *)
(* An analysis may fail.  What its own try block raises is rolled back,    *)
(* leaves a review reason on the post and counts as done; any other error  *)
(* is retried, and after the last retry it leaves nothing.                 *)
(***************************************************************************)
EXTENDS Naturals, FiniteSets

CONSTANTS Codes,      \* reasons a person may accept
          Values,     \* values a person may enter
          Excluding,  \* those that take the item out of the offer
          ExcludedCode,  \* the reason that then needs no review
          NoValue,    \* nobody entered a value
          Requests,   \* HTTP requests, each of one user action
          Workers,    \* Celery processes
          Together,   \* requests that may be open at the same time
          MaxRetries, \* retries of an analysis (2)
          MaxFailures,   \* bound: analyses that fail or die
          MaxLost     \* bound: analyses that cannot be sent (Redis)

Open == "free"

DecisionsAssumption ==
    /\ NoValue \notin Values
    /\ Excluding \subseteq Values /\ ExcludedCode \in Codes
    /\ IsFiniteSet(Requests)
    /\ Requests \cap Workers = {} /\ Open \notin Requests \cup Workers
    /\ Together \in Nat \ {0}
    /\ MaxRetries \in Nat /\ MaxFailures \in Nat /\ MaxLost \in Nat

Kinds == {"ack", "revoke", "value", "edit"}

VARIABLES clock,    \* the next transaction's time
          log,      \* the committed rows of item_corrections
          at,       \* at[r]: where request r is
          does,     \* does[r]: [kind, codes, value] the user asked for
          start,    \* start[r]: the time its transaction started
          rowLock, jobLock,
          draft,    \* draft[r]: the codes of the row it has inserted
          tasks,    \* tasks[k]: analyses in the queue of Celery, at their kth retry
          worker,   \* worker[w]: "idle", "computing" or "failed" (rolled back)
          tries,    \* tries[w]: the retry its analysis is
          read,     \* read[w]: the decisions it has read
          result,   \* the decisions analysis_results reflects
          marked,   \* the post has the review reason of a failed analysis
          gaveUp,   \* an analysis gave up and none has written since
          failures, \* analyses that failed or died
          lost      \* requests whose analysis could not be sent

requestVars == <<clock, log, at, does, start, draft>>
analysisVars == <<worker, tries, read, marked, gaveUp, failures>>
vars == <<requestVars, rowLock, jobLock, tasks, analysisVars, result, lost>>

Tries == 0..MaxRetries

Asked == [kind : Kinds, codes : SUBSET Codes, value : Values \cup {NoValue}]
Decided == [codes : SUBSET Codes, value : Values \cup {NoValue}]

----------------------------------------------------------------------------
\* A row: its kind, its time, what it says, and its place in the order of
\* the commits, which the table does not know.
Latest(S) == CHOOSE r \in S : \A s \in S : s.time <= r.time

EditsIn(rows) == {r \in rows : r.kind = "edit"}

\* The rows after the last edit.
ValidRows(rows) ==
    {r \in rows \ EditsIn(rows) : \A e \in EditsIn(rows) : r.time > e.time}

AckRows(rows) == {r \in ValidRows(rows) : r.kind \in {"ack", "revoke"}}
ValueRows(rows) == {r \in ValidRows(rows) : r.kind = "value"}

\* load_v102_decisions.
Effective(rows) ==
    [codes |-> IF AckRows(rows) = {} THEN {} ELSE Latest(AckRows(rows)).codes,
     value |-> IF ValueRows(rows) = {} THEN NoValue ELSE Latest(ValueRows(rows)).value]

Row(r) ==
    [kind |-> does[r].kind, time |-> start[r],
     codes |-> IF does[r].kind = "ack" THEN draft[r] ELSE {}, asked |-> does[r].codes,
     value |-> does[r].value, order |-> Cardinality(log) + 1, by |-> r]

\* A value that excludes the item accepts the reason of the exclusion in a
\* second row of the same transaction.
Excludes(r) == does[r].kind = "value" /\ does[r].value \in Excluding

ExclusionRow(r) ==
    [kind |-> "ack", time |-> start[r], codes |-> draft[r], asked |-> {ExcludedCode},
     value |-> NoValue, order |-> Cardinality(log) + 1, by |-> r]

RowsOf(r) == {Row(r)} \cup (IF Excludes(r) THEN {ExclusionRow(r)} ELSE {})

OpenRequests == {r \in Requests : at[r] \in {"started", "written", "saved"}}

----------------------------------------------------------------------------
Init ==
    /\ clock = 1
    /\ log = {}
    /\ at = [r \in Requests |-> "idle"]
    /\ does \in [Requests ->
                    {[kind |-> "ack", codes |-> {c}, value |-> NoValue] : c \in Codes}
                    \cup {[kind |-> "revoke", codes |-> {}, value |-> NoValue]}
                    \cup {[kind |-> "value", codes |-> {}, value |-> v] : v \in Values}
                    \cup {[kind |-> "edit", codes |-> {}, value |-> NoValue]}]
    /\ start = [r \in Requests |-> 0]
    /\ rowLock = Open
    /\ jobLock = Open
    /\ draft = [r \in Requests |-> {}]
    /\ tasks = [k \in Tries |-> 0]
    /\ worker = [w \in Workers |-> "idle"]
    /\ tries = [w \in Workers |-> 0]
    /\ read = [w \in Workers |-> [codes |-> {}, value |-> NoValue]]
    /\ result = [codes |-> {}, value |-> NoValue]
    /\ marked = FALSE /\ gaveUp = FALSE
    /\ failures = 0
    /\ lost = {}

\* The first query of the request, the login check, starts its transaction.
Begin(r) ==
    /\ at[r] = "idle"
    /\ Cardinality(OpenRequests) < Together
    /\ at' = [at EXCEPT ![r] = "started"]
    /\ start' = [start EXCEPT ![r] = clock]
    /\ clock' = clock + 1
    /\ UNCHANGED <<log, does, rowLock, jobLock, draft, tasks, analysisVars, result, lost>>

\* The codes of the row: the union with those that are valid, or none.
AckCodes(r) ==
    IF does[r].kind = "ack" THEN Effective(log).codes \cup does[r].codes
    ELSE IF Excludes(r) THEN Effective(log).codes \cup {ExcludedCode}
    ELSE {}

\* The lock of the result's row (FOR UPDATE), the read of what is valid and
\* the insert.
WriteAck(r) ==
    /\ at[r] = "started"
    /\ does[r].kind \in {"ack", "revoke"}
    /\ does[r].kind = "revoke" => Effective(log).codes # {}
    /\ rowLock = Open
    /\ rowLock' = r
    /\ draft' = [draft EXCEPT ![r] = AckCodes(r)]
    /\ at' = [at EXCEPT ![r] = "written"]
    /\ UNCHANGED <<clock, log, does, start, jobLock, tasks, analysisVars, result, lost>>

\* Nothing to revoke: the request is rolled back.
NothingToRevoke(r) ==
    /\ at[r] = "started"
    /\ does[r].kind = "revoke"
    /\ Effective(log).codes = {}
    /\ rowLock = Open
    /\ at' = [at EXCEPT ![r] = "done"]
    /\ UNCHANGED <<clock, log, does, start, rowLock, jobLock, draft, tasks,
                   analysisVars, result, lost>>

\* The advisory lock of the post and the insert; a value is written into the
\* result at once, so it takes the row too, under which the codes of an
\* exclusion are read.
WriteUnderJobLock(r) ==
    /\ at[r] = "started"
    /\ does[r].kind \in {"value", "edit"}
    /\ jobLock = Open
    /\ does[r].kind = "value" => rowLock = Open
    /\ jobLock' = r
    /\ rowLock' = IF does[r].kind = "value" THEN r ELSE rowLock
    /\ draft' = [draft EXCEPT ![r] = AckCodes(r)]
    /\ at' = [at EXCEPT ![r] = "written"]
    /\ UNCHANGED <<clock, log, does, start, tasks, analysisVars, result, lost>>

\* The commit.  save_value_override has updated the columns of the result
\* from the decisions it then finds valid.
Commit(r) ==
    /\ at[r] = "written"
    /\ log' = log \cup RowsOf(r)
    /\ rowLock' = IF rowLock = r THEN Open ELSE rowLock
    /\ jobLock' = IF jobLock = r THEN Open ELSE jobLock
    /\ result' = IF does[r].kind = "value"
                   THEN LET v == Effective(log').value
                        IN [result EXCEPT !.value = IF v = NoValue THEN @ ELSE v]
                   ELSE result
    /\ at' = [at EXCEPT ![r] = "saved"]
    /\ UNCHANGED <<clock, does, start, draft, tasks, analysisVars, lost>>

\* enqueue_v102_reanalyze after the commit.
Send(r) ==
    /\ at[r] = "saved"
    /\ tasks' = [tasks EXCEPT ![0] = @ + 1]
    /\ at' = [at EXCEPT ![r] = "done"]
    /\ UNCHANGED <<clock, log, does, start, rowLock, jobLock, draft, analysisVars,
                   result, lost>>

\* Redis cannot be reached: only a warning is logged.
SendFails(r) ==
    /\ at[r] = "saved"
    /\ Cardinality(lost) < MaxLost
    /\ lost' = lost \cup {r}
    /\ at' = [at EXCEPT ![r] = "done"]
    /\ UNCHANGED <<clock, log, does, start, rowLock, jobLock, draft, tasks,
                   analysisVars, result>>

\* What a worker takes is one of the analyses in the queue.
FromQueue(w) ==
    \E k \in Tries :
        /\ tasks[k] > 0
        /\ tasks' = [tasks EXCEPT ![k] = @ - 1]
        /\ tries' = [tries EXCEPT ![w] = k]

\* Mutant of Take: the decisions are read before the lock of the post.
TakeUnlocked(w) ==
    /\ worker[w] = "idle"
    /\ FromQueue(w)
    /\ worker' = [worker EXCEPT ![w] = "computing"]
    /\ read' = [read EXCEPT ![w] = Effective(log)]
    /\ UNCHANGED <<requestVars, rowLock, jobLock, result, marked, gaveUp, failures, lost>>

\* A worker takes an analysis, gets the lock of the post and reads the
\* decisions.
Take(w) ==
    /\ worker[w] = "idle"
    /\ jobLock = Open
    /\ FromQueue(w)
    /\ jobLock' = w
    /\ worker' = [worker EXCEPT ![w] = "computing"]
    /\ read' = [read EXCEPT ![w] = Effective(log)]
    /\ UNCHANGED <<requestVars, rowLock, result, marked, gaveUp, failures, lost>>

\* The end of its transaction, or of its connection.
Unlocked(w) == IF jobLock = w THEN Open ELSE jobLock

\* It writes the result and the review reasons of the post, and commits.
Finish(w) ==
    /\ worker[w] = "computing"
    /\ rowLock = Open
    /\ result' = read[w]
    /\ marked' = FALSE /\ gaveUp' = FALSE
    /\ jobLock' = Unlocked(w)
    /\ worker' = [worker EXCEPT ![w] = "idle"]
    /\ UNCHANGED <<requestVars, rowLock, tasks, tries, read, failures, lost>>

\* Its try block catches an exception and rolls back, which releases the lock.
Fails(w) ==
    /\ worker[w] = "computing"
    /\ failures < MaxFailures
    /\ failures' = failures + 1
    /\ jobLock' = Unlocked(w)
    /\ worker' = [worker EXCEPT ![w] = "failed"]
    /\ UNCHANGED <<requestVars, rowLock, tasks, tries, read, result, marked, gaveUp, lost>>

\* It commits the review reason and returns as if it had succeeded.
Mark(w) ==
    /\ worker[w] = "failed"
    /\ marked' = TRUE
    /\ worker' = [worker EXCEPT ![w] = "idle"]
    /\ UNCHANGED <<requestVars, rowLock, jobLock, tasks, tries, read, result, gaveUp,
                   failures, lost>>

\* It is broken off outside of the try block: before the result is written,
\* after it was (the merge of the supplier, the UPDATE of the error), or when
\* it leaves the review reason.
BrokenOff(w, wrote) ==
    /\ worker[w] # "idle"
    /\ wrote => worker[w] = "computing" /\ rowLock = Open
    /\ failures < MaxFailures
    /\ failures' = failures + 1
    /\ result' = IF wrote THEN read[w] ELSE result
    /\ marked' = (marked /\ ~wrote)
    /\ jobLock' = Unlocked(w)
    /\ worker' = [worker EXCEPT ![w] = "idle"]
    /\ UNCHANGED <<requestVars, rowLock, tries, read, lost>>

\* By an exception: self.retry sends the task again.
Retries(w, wrote) ==
    /\ BrokenOff(w, wrote)
    /\ tries[w] < MaxRetries
    /\ tasks' = [tasks EXCEPT ![tries[w] + 1] = @ + 1]
    /\ gaveUp' = (gaveUp /\ ~wrote)

\* By an exception of the last retry: nothing is left of it.
GivesUp(w, wrote) ==
    /\ BrokenOff(w, wrote)
    /\ tries[w] = MaxRetries
    /\ gaveUp' = ~wrote
    /\ UNCHANGED tasks

\* The process dies, and the broker delivers the task again (acks_late).
Dies(w, wrote) ==
    /\ BrokenOff(w, wrote)
    /\ tasks' = [tasks EXCEPT ![tries[w]] = @ + 1]
    /\ gaveUp' = (gaveUp /\ ~wrote)

Handle(r) == \/ Begin(r) \/ WriteAck(r) \/ NothingToRevoke(r)
             \/ WriteUnderJobLock(r) \/ Commit(r) \/ Send(r)

Next == \/ \E r \in Requests : Handle(r) \/ SendFails(r)
        \/ \E w \in Workers : Take(w) \/ Finish(w) \/ Fails(w) \/ Mark(w)
        \/ \E w \in Workers, wrote \in BOOLEAN :
              Retries(w, wrote) \/ GivesUp(w, wrote) \/ Dies(w, wrote)

Spec == Init /\ [][Next]_vars

----------------------------------------------------------------------------
\* The variables have their types; whoever holds a lock is inside its
\* transaction.
TypeOK ==
    /\ clock \in 1..(Cardinality(Requests) + 1)
    /\ \A x \in log : /\ x.kind \in Kinds
                      /\ x.time < clock
                      /\ x.codes \subseteq Codes
                      /\ x.order \in 1..Cardinality(log)
    /\ at \in [Requests -> {"idle", "started", "written", "saved", "done"}]
    /\ does \in [Requests -> Asked]
    /\ start \in [Requests -> 0..Cardinality(Requests)]
    /\ draft \in [Requests -> SUBSET Codes]
    /\ tasks \in [Tries -> Nat]
    /\ worker \in [Workers -> {"idle", "computing", "failed"}]
    /\ tries \in [Workers -> Tries]
    /\ marked \in BOOLEAN /\ gaveUp \in BOOLEAN
    /\ failures \in 0..MaxFailures
    /\ read \in [Workers -> Decided]
    /\ result \in Decided
    /\ lost \in SUBSET Requests /\ Cardinality(lost) <= MaxLost
    /\ rowLock \in Requests => at[rowLock] = "written"
    /\ jobLock \in Requests => at[jobLock] = "written"
    /\ jobLock \in Workers => worker[jobLock] = "computing"

\* Nothing of what was decided is still on its way.
AtRest == /\ OpenRequests = {}
          /\ \A k \in Tries : tasks[k] = 0
          /\ \A w \in Workers : worker[w] = "idle"

\* The analysis of the last decision was sent.
LastWasSent == \A x \in log : (\A y \in log : y.order <= x.order) => x.by \notin lost

\* When no analysis is waiting or running and the one of the last decision
\* was sent, the result reflects all that people decided, whatever order
\* requests, analyses, retries and deaths came in: it makes up for an
\* analysis that was lost, failed or gave up before it as well.  Else the post
\* says that an analysis failed (extract_exception), or one gave up after its
\* last retry and none has written since.
ResultFollowsDecisions ==
    (AtRest /\ LastWasSent) => result = Effective(log) \/ marked \/ gaveUp

\* Reasons can be accepted one by one: what was accepted stays accepted until
\* it is revoked or the transcription is edited (save_review_ack).
AcceptedStaysAccepted ==
    \A x \in log :
        /\ x.kind = "ack"
        /\ \A y \in log : y.kind \in {"revoke", "edit"} => y.order < x.order
        => x.asked \subseteq Effective(log).codes

\* A decision that was saved before the transcription was edited has to be
\* made again (module docstring).
EditsAskAgain ==
    \A e \in EditsIn(log), x \in ValidRows(log) : e.order < x.order

=============================================================================
