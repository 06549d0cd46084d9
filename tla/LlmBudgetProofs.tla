-------------------------- MODULE LlmBudgetProofs --------------------------
(***************************************************************************)
(* Theorems about LlmBudget, for any number of translations, messages,     *)
(* calls, limits and months.                                               *)
(***************************************************************************)
EXTENDS LlmBudget, FiniteSetTheorems, TLAPS

-----------------------------------------------------------------------------
(* The inductive invariants                                                *)

(* Who has written the row holds it, what is saved was charged, and what   *)
(* is charged is the cost of a call.                                       *)
Holding ==
  \A p \in Procs :
    /\ proc[p].step \in {"idle", "load", "reset"} =>
         holder # p /\ proc[p].written = Nothing
    /\ proc[p].written.entries > 0 => holder = p
    /\ proc[p].written.entries = 0 => proc[p].written = Nothing
    /\ proc[p].step \in {"parse", "save"} => proc[p].written.entries > 0
    /\ proc[p].step = "charge" => proc[p].cost \in Costs

(* No month is over, or translations follow each other.                    *)
Alone == MaxMonth = 0 \/ \A p, q \in Procs : p = q

(* The ledger of a month is empty until the budget was reset for it, and   *)
(* what the holder has written agrees with the ledger and its own rows.    *)
Counted ==
  /\ budget.last <= month
  /\ \A m \in Months : m > budget.last => ledger[m] = Nothing
  /\ MonthIsCounted
  /\ \A p \in Procs :
       /\ proc[p].step = "reset" => budget.last < month
       /\ proc[p].step \in {"check", "call", "charge", "parse", "save"} =>
            Seen(p).last = month
       /\ holder = p =>
            Agree(proc[p].row.current, Plus(ledger[month], proc[p].written))

-----------------------------------------------------------------------------
(* Rounding                                                                *)

(* A call that is charged and entered keeps the budget and the ledger      *)
(* within half a unit of each for every row.                               *)
LEMMA Rounds ==
  ASSUME NEW c \in Nat
  PROVE  /\ InBudget(c) \in Nat /\ InLedger(c) \in Nat
         /\ 200 * InBudget(c) <= 2 * InLedger(c) + 101
         /\ 2 * InLedger(c) <= 200 * InBudget(c) + 101
<1>1. PICK w \in Nat : w = c \div 100000
  BY SMT
<1>2. PICK x \in Nat : x = c % 100000
  BY SMT
<1>3. x <= 99999 /\ c = 100000 * w + x
  BY <1>1, <1>2, SMT
<1>4. /\ InBudget(c) = w \/ InBudget(c) = w + 1
      /\ InBudget(c) = w => x <= 50000
      /\ InBudget(c) = w + 1 => x >= 50000
  BY <1>1, <1>2, SMT DEF InBudget
<1>5. /\ InBudget(c) \in Nat
      /\ 100000 * InBudget(c) <= c + 50000 /\ c <= 100000 * InBudget(c) + 50000
  BY <1>3, <1>4, SMT
<1>6. /\ InLedger(c) \in Nat
      /\ 1000 * InLedger(c) <= c + 500 /\ c <= 1000 * InLedger(c) + 500
  BY SMT DEF InLedger
<1> QED
  BY <1>5, <1>6, SMT

LEMMA AgreeOn ==
  ASSUME NEW x \in Nat, NEW rows \in Ledger, NEW more \in Ledger,
         NEW c \in Nat, more = [entries |-> 1, amount |-> InLedger(c)],
         Agree(x, rows)
  PROVE  Agree(x + InBudget(c), Plus(rows, more))
<1>1. /\ rows.entries \in Nat /\ rows.amount \in Nat
      /\ more.entries = 1 /\ more.amount = InLedger(c)
  BY DEF Ledger
<1> QED
  BY <1>1, Rounds, SMT DEF Agree, Plus

LEMMA Added ==
  /\ Nothing \in Ledger /\ Agree(0, Nothing)
  /\ \A a, b \in Ledger : Plus(a, b) \in Ledger /\ Plus(a, Nothing) = a
BY DEF Nothing, Ledger, Agree, Plus

LEMMA PlusAdds ==
  ASSUME NEW a \in Ledger, NEW b \in Ledger
  PROVE  Plus(a, b).entries = a.entries + b.entries
BY DEF Plus

LEMMA PlusAssociates ==
  ASSUME NEW a \in Ledger, NEW b \in Ledger, NEW c \in Ledger
  PROVE  Plus(Plus(a, b), c) = Plus(a, Plus(b, c))
BY DEF Plus, Ledger

-----------------------------------------------------------------------------
(* Types                                                                   *)

Steps == {"idle", "load", "reset", "check", "call", "charge", "parse", "save"}

(* A process that goes on keeps all but its step.                          *)
LEMMA GoesOn ==
  ASSUME proc \in [Procs -> Process], NEW p \in Procs, NEW s \in Steps,
         Go(p, s)
  PROVE  /\ proc' \in [Procs -> Process]
         /\ proc'[p].step = s /\ proc'[p].row = proc[p].row
         /\ proc'[p].written = proc[p].written
         /\ \A q \in Procs : q # p => proc'[q] = proc[q]
<1>1. [proc[p] EXCEPT !.step = s] \in Process
  BY DEF Process, Steps
<1>2. proc' = [proc EXCEPT ![p] = [proc[p] EXCEPT !.step = s]]
  BY DEF Go
<1> QED
  BY <1>1, <1>2 DEF Process

(* One that has written the row holds it.                                  *)
LEMMA ResetWrites ==
  ASSUME TypeOK, NEW p \in Procs, Reset(p)
  PROVE  /\ proc' \in [Procs -> Process] /\ holder' = p
         /\ proc'[p].step = "check" /\ proc'[p].written = proc[p].written
         /\ proc'[p].row = [budget EXCEPT !.current = 0, !.last = month]
         /\ \A q \in Procs : q # p => proc'[q] = proc[q]
<1> DEFINE row == [budget EXCEPT !.current = 0, !.last = month]
<1>1. row \in Row
  BY DEF TypeOK, Row
<1>2. [proc[p] EXCEPT !.step = "check", !.row = row] \in Process
  BY <1>1 DEF TypeOK, Process
<1>3. proc' = [proc EXCEPT ![p] =
                 [proc[p] EXCEPT !.step = "check", !.row = row]]
  BY DEF Reset
<1> QED
  BY <1>2, <1>3 DEF TypeOK, Process, Reset

LEMMA SeenIsRow ==
  ASSUME TypeOK, NEW p \in Procs
  PROVE  Seen(p) \in Row
BY DEF Seen, TypeOK, Process

LEMMA ChargeWrites ==
  ASSUME TypeOK, NEW p \in Procs, Charge(p)
  PROVE  /\ proc' \in [Procs -> Process] /\ holder' = p
         /\ proc'[p].step = "parse"
         /\ proc'[p].written = Plus(proc[p].written, Entry(p))
         /\ proc'[p].row = Charged(p)
         /\ \A q \in Procs : q # p => proc'[q] = proc[q]
<1>1. proc[p].cost \in Nat /\ proc[p].written \in Ledger
  BY DEF TypeOK, Process
<1>2. Charged(p) \in Row
  <2>1. Seen(p).current + InBudget(proc[p].cost) \in Nat
    BY <1>1, SeenIsRow, Rounds DEF Row
  <2> QED
    BY <2>1, SeenIsRow DEF Charged, Row
<1>3. Plus(proc[p].written, Entry(p)) \in Ledger
  <2>1. Entry(p) \in Ledger
    BY <1>1, Rounds DEF Entry, Ledger
  <2> QED
    BY <1>1, <2>1, Added
<1>4. [proc[p] EXCEPT !.step = "parse", !.cost = 0, !.row = Charged(p),
                      !.written = Plus(@, Entry(p))] \in Process
  BY <1>2, <1>3 DEF TypeOK, Process
<1>5. proc' = [proc EXCEPT ![p] =
        [proc[p] EXCEPT !.step = "parse", !.cost = 0, !.row = Charged(p),
                        !.written = Plus(@, Entry(p))]]
  BY DEF Charge
<1> QED
  BY <1>4, <1>5 DEF TypeOK, Process, Charge

LEMMA CallAnswers ==
  ASSUME ConstantsAssumption, TypeOK, NEW p \in Procs, Call(p)
  PROVE  /\ proc' \in [Procs -> Process]
         /\ proc'[p].step = "charge" /\ proc'[p].cost \in Costs
         /\ proc'[p].row = proc[p].row /\ proc'[p].written = proc[p].written
         /\ \A q \in Procs : q # p => proc'[q] = proc[q]
<1>1. PICK c \in Costs :
        proc' = [proc EXCEPT ![p].step = "charge", ![p].cost = c]
  BY DEF Call
<1>2. [proc[p] EXCEPT !.step = "charge", !.cost = c] \in Process
  BY <1>1 DEF TypeOK, Process, ConstantsAssumption
<1>3. proc' = [proc EXCEPT ![p] =
                 [proc[p] EXCEPT !.step = "charge", !.cost = c]]
  BY <1>1
<1> QED
  BY <1>2, <1>3 DEF TypeOK, Process

LEMMA TypesHold ==
  ASSUME ConstantsAssumption, TypeOK, [Next]_vars
  PROVE  TypeOK'
<1> USE DEF TypeOK
<1>1. CASE UNCHANGED vars
  BY <1>1 DEF vars
<1>2. Idle \in Process
  <2>1. Blank \in Row
    BY DEF ConstantsAssumption, Blank, Row, Months
  <2> QED
    BY <2>1, Added DEF Idle, Process
<1>3. ASSUME NEW p \in Procs, NEW m \in Messages,
             BeginInbound(p, m) PROVE TypeOK'
  <2>1. [Idle EXCEPT !.step = "load", !.message = m] \in Process
    BY <1>2 DEF Process
  <2> QED
    BY <1>3, <2>1 DEF BeginInbound
<1>4. ASSUME NEW p \in Procs, BeginOutbound(p) PROVE TypeOK'
  <2>1. [Idle EXCEPT !.step = "load", !.model = "send"] \in Process
    BY <1>2 DEF Process
  <2> QED
    BY <1>4, <2>1 DEF BeginOutbound
<1>5. ASSUME NEW p \in Procs, LoadForReset(p) \/ CheckPasses(p) PROVE TypeOK'
  BY <1>5, GoesOn DEF LoadForReset, CheckPasses, Steps
<1>6. ASSUME NEW p \in Procs, Reset(p) \/ Charge(p) PROVE TypeOK'
  BY <1>6, ResetWrites, ChargeWrites DEF Reset, Charge
<1>7. ASSUME NEW p \in Procs, Rollback(p)
      PROVE  proc' \in [Procs -> Process] /\ holder' \in Procs \cup {None}
  BY <1>2, <1>7 DEF Rollback
<1>8. ASSUME NEW p \in Procs, CheckStops(p) PROVE TypeOK'
  BY <1>7, <1>8, GoesOn DEF CheckStops, Steps
<1>9. ASSUME NEW p \in Procs, CallFails(p) \/ ParseFails(p) PROVE TypeOK'
  BY <1>7, <1>9 DEF CallFails, ParseFails
<1>10. ASSUME NEW p \in Procs, Call(p) PROVE TypeOK'
  <2>1. calls' \in 0..MaxCalls
    BY <1>10 DEF Call, ConstantsAssumption
  <2>2. UNCHANGED <<budget, holder, month, ledger, cached>>
    BY <1>10 DEF Call
  <2>3. proc' \in [Procs -> Process]
    BY <1>10, CallAnswers
  <2> QED
    BY <2>1, <2>2, <2>3
<1>11. ASSUME NEW p \in Procs, Parse(p) PROVE TypeOK'
  <2>1. [proc[p] EXCEPT !.step = "check", !.model = "send"] \in Process
    BY DEF Process
  <2> QED
    BY <1>11, <2>1, GoesOn DEF Parse, Steps
<1>12. ASSUME NEW p \in Procs, Save(p) PROVE TypeOK'
  <2>1. /\ proc[p].written \in Ledger /\ proc[p].row \in Row
        /\ proc[p].message \in Messages \cup {None}
    BY DEF Process
  <2>2. /\ budget' \in Row /\ ledger' \in [Months -> Ledger]
        /\ cached' \subseteq Messages
    BY <1>12, <2>1, Added DEF Save
  <2> QED
    BY <1>7, <1>12, <2>2 DEF Save
<1>13. CASE UpsertBudget
  <2>1. budget' \in Row
    BY <1>13 DEF UpsertBudget, Row, ConstantsAssumption
  <2> QED
    BY <1>13, <2>1 DEF UpsertBudget
<1>14. CASE NextMonth
  BY <1>14 DEF NextMonth, Months, ConstantsAssumption
<1> HIDE DEF TypeOK
<1> QED
  BY <1>1, <1>3, <1>4, <1>5, <1>6, <1>8, <1>9, <1>10, <1>11, <1>12, <1>13,
     <1>14 DEF Next

-----------------------------------------------------------------------------
(* What a step does to one translation and the row                         *)

Begins(p) ==
  /\ proc[p].step = "idle" /\ proc'[p].step = "load"
  /\ proc'[p].written = Nothing
  /\ holder' = holder

Passes(p) ==
  /\ proc'[p].row = proc[p].row /\ proc'[p].written = proc[p].written
  /\ holder' = holder
  /\ \/ /\ proc[p].step = "load"
        /\ proc'[p].step = IF budget.last < month THEN "reset" ELSE "check"
     \/ proc[p].step = "check" /\ proc'[p].step = "call" /\ MayCall(p)
     \/ /\ proc[p].step = "check" /\ proc'[p].step = "save"
        /\ proc[p].written.entries > 0
     \/ /\ proc[p].step = "call" /\ proc'[p].step = "charge"
        /\ proc'[p].cost \in Costs
     \/ proc[p].step = "parse" /\ proc'[p].step \in {"save", "check"}

Takes(p) ==
  /\ Free(p) /\ holder' = p
  /\ \/ /\ proc[p].step = "reset" /\ proc'[p].step = "check"
        /\ proc'[p].row = [budget EXCEPT !.current = 0, !.last = month]
        /\ proc'[p].written = proc[p].written
     \/ /\ proc[p].step = "charge" /\ proc'[p].step = "parse"
        /\ proc'[p].row = Charged(p)
        /\ proc'[p].written = Plus(proc[p].written, Entry(p))

Ends(p) == proc'[p] = Idle /\ holder' = IF holder = p THEN None ELSE holder

Saves(p) ==
  /\ proc[p].step = "save" /\ Ends(p)
  /\ budget' = proc[p].row
  /\ ledger' = [ledger EXCEPT ![month] = Plus(@, proc[p].written)]

LEMMA Moves ==
  ASSUME ConstantsAssumption, TypeOK, [Next]_vars
  PROVE  \/ UNCHANGED <<proc, holder, budget, month, ledger>>
         \/ UpsertBudget
         \/ NextMonth
         \/ \E p \in Procs :
              /\ \A q \in Procs : q # p => proc'[q] = proc[q]
              /\ month' = month
              /\ \/ Saves(p)
                 \/ /\ UNCHANGED <<budget, ledger>>
                    /\ Begins(p) \/ Passes(p) \/ Takes(p) \/ Ends(p)
<1> DEFINE Quiet == UNCHANGED <<month, budget, ledger>>
           Others(p) == \A q \in Procs : q # p => proc'[q] = proc[q]
<1> USE DEF At
<1>0. proc \in [Procs -> Process]
  BY DEF TypeOK
<1>1. ASSUME NEW p \in Procs,
             BeginOutbound(p) \/ \E m \in Messages : BeginInbound(p, m)
      PROVE  Others(p) /\ Quiet /\ Begins(p)
  <2>1. \E new : /\ new.step = "load" /\ new.written = Nothing
                 /\ proc' = [proc EXCEPT ![p] = new]
    <3>1. CASE BeginOutbound(p)
      BY <3>1 DEF BeginOutbound, Idle
    <3>2. ASSUME NEW m \in Messages, BeginInbound(p, m)
          PROVE  \E new : /\ new.step = "load" /\ new.written = Nothing
                          /\ proc' = [proc EXCEPT ![p] = new]
      BY <3>2 DEF BeginInbound, Idle
    <3> QED
      BY <1>1, <3>1, <3>2
  <2>2. Quiet /\ holder' = holder /\ proc[p].step = "idle"
    <3>1. CASE BeginOutbound(p)
      BY <3>1 DEF BeginOutbound
    <3>2. ASSUME NEW m \in Messages, BeginInbound(p, m)
          PROVE  Quiet /\ holder' = holder /\ proc[p].step = "idle"
      BY <3>2 DEF BeginInbound
    <3> QED
      BY <1>1, <3>1, <3>2
  <2> QED
    BY <1>0, <2>1, <2>2 DEF Begins
<1>2. ASSUME NEW p \in Procs, LoadForReset(p) \/ CheckPasses(p) \/ Call(p)
      PROVE  Others(p) /\ Quiet /\ Passes(p)
  <2>1. CASE LoadForReset(p) \/ CheckPasses(p)
    BY <1>0, <2>1, GoesOn DEF LoadForReset, CheckPasses, Passes, Steps
  <2>2. CASE Call(p)
    <3>1. Quiet /\ holder' = holder /\ proc[p].step = "call"
      BY <2>2 DEF Call
    <3>2. /\ proc'[p].step = "charge" /\ proc'[p].cost \in Costs
          /\ proc'[p].row = proc[p].row /\ proc'[p].written = proc[p].written
          /\ Others(p)
      BY <2>2, CallAnswers
    <3> QED
      BY <3>1, <3>2 DEF Passes
  <2> QED
    BY <1>2, <2>1, <2>2
<1>3. ASSUME NEW p \in Procs, Parse(p) PROVE Others(p) /\ Quiet /\ Passes(p)
  <2>1. CASE Go(p, "save")
    BY <1>0, <1>3, <2>1, GoesOn DEF Parse, Passes, Steps
  <2>2. CASE proc' = [proc EXCEPT ![p].step = "check", ![p].model = "send"]
    BY <1>0, <1>3, <2>2 DEF Parse, Passes, Process
  <2> QED
    BY <1>3, <2>1, <2>2 DEF Parse
<1>4. ASSUME NEW p \in Procs, Reset(p) \/ Charge(p)
      PROVE  Others(p) /\ Quiet /\ Takes(p)
  <2>1. CASE Reset(p)
    BY <2>1, ResetWrites DEF Reset, Takes
  <2>2. CASE Charge(p)
    <3>1. Quiet /\ Free(p) /\ proc[p].step = "charge"
      BY <2>2 DEF Charge
    <3>2. /\ holder' = p /\ proc'[p].step = "parse"
          /\ proc'[p].written = Plus(proc[p].written, Entry(p))
          /\ proc'[p].row = Charged(p) /\ Others(p)
      BY <2>2, ChargeWrites
    <3> QED
      BY <3>1, <3>2 DEF Takes
  <2> QED
    BY <1>4, <2>1, <2>2
<1>5. ASSUME NEW p \in Procs, Rollback(p) PROVE Others(p) /\ Ends(p)
  BY <1>0, <1>5 DEF Rollback, Ends
<1>6. ASSUME NEW p \in Procs, CheckStops(p)
      PROVE  Others(p) /\ Quiet /\ (Passes(p) \/ Ends(p))
  <2>1. CASE proc[p].written.entries > 0
    BY <1>0, <1>6, <2>1, GoesOn DEF CheckStops, Passes, Steps
  <2>2. CASE ~ (proc[p].written.entries > 0)
    BY <1>5, <1>6, <2>2 DEF CheckStops
  <2> QED
    BY <2>1, <2>2
<1>7. ASSUME NEW p \in Procs, CallFails(p) \/ ParseFails(p)
      PROVE  Others(p) /\ Quiet /\ Ends(p)
  BY <1>5, <1>7 DEF CallFails, ParseFails
<1>8. ASSUME NEW p \in Procs,
             Save(p) PROVE Others(p) /\ month' = month /\ Saves(p)
  BY <1>5, <1>8 DEF Save, Saves
<1>9. CASE UNCHANGED vars
  BY <1>9 DEF vars
<1> QED
  BY <1>1, <1>2, <1>3, <1>4, <1>6, <1>7, <1>8, <1>9 DEF Next

LEMMA HoldingStays ==
  ASSUME ConstantsAssumption, TypeOK, Holding, [Next]_vars
  PROVE  Holding'
<1> SUFFICES ASSUME NEW p \in Procs,
                    /\ \A q \in Procs : q # p => proc'[q] = proc[q]
                    /\ Begins(p) \/ Passes(p) \/ Takes(p) \/ Ends(p)
             PROVE  Holding'
  <2>1. ASSUME UNCHANGED <<proc, holder>> PROVE Holding'
    BY <2>1 DEF Holding
  <2>2. /\ UpsertBudget => UNCHANGED <<proc, holder>>
        /\ NextMonth => UNCHANGED <<proc, holder>>
    <3>1. UpsertBudget => UNCHANGED <<proc, holder>>
      BY Zenon DEF UpsertBudget
    <3>2. NextMonth => UNCHANGED <<proc, holder>>
      BY Zenon DEF NextMonth
    <3> QED
      BY <3>1, <3>2
  <2>3. \A p \in Procs : Saves(p) => Ends(p)
    BY DEF Saves
  <2> QED
    BY <2>1, <2>2, <2>3, Moves
<1> USE DEF ConstantsAssumption, TypeOK, Process, Holding
<1>1. CASE Begins(p)
  BY <1>1 DEF Begins
<1>2. CASE Passes(p)
  BY <1>2 DEF Passes
<1>3. CASE Takes(p)
  <2>1. CASE proc[p].step = "reset"
    BY <1>3, <2>1 DEF Takes, Free
  <2>2. CASE proc[p].step = "charge"
    <3>1. /\ proc[p].written \in Ledger /\ Entry(p) \in Ledger
          /\ Entry(p).entries = 1
      BY Rounds DEF Entry, Ledger
    <3>2. Plus(proc[p].written, Entry(p)).entries = proc[p].written.entries + 1
      BY <3>1, PlusAdds
    <3>3. proc'[p].written.entries > 0
      BY <1>3, <2>2, <3>1, <3>2 DEF Takes, Ledger
    <3> QED
      BY <1>3, <2>2, <3>3 DEF Takes, Free
  <2> QED
    BY <1>3, <2>1, <2>2 DEF Takes
<1>4. CASE Ends(p)
  BY <1>4 DEF Ends, Idle, Nothing
<1> QED
  BY <1>1, <1>2, <1>3, <1>4

-----------------------------------------------------------------------------
(* The month                                                               *)

CountOf(p) ==
  /\ proc[p].step = "reset" => budget.last < month
  /\ proc[p].step \in {"check", "call", "charge", "parse", "save"} =>
       Seen(p).last = month
  /\ holder = p =>
       Agree(proc[p].row.current, Plus(ledger[month], proc[p].written))

LEMMA CountStays ==
  ASSUME ConstantsAssumption, Alone, TypeOK, Holding, Counted, [Next]_vars
  PROVE  Counted'
<1>0. /\ budget.last \in 0..MaxMonth /\ month \in 0..MaxMonth
      /\ MaxMonth \in Nat
      /\ budget.current \in Nat
      /\ ledger \in [0..MaxMonth -> Ledger] /\ None \notin Procs
      /\ \A p \in Procs : proc[p].written \in Ledger /\
           proc[p].row.current \in Nat /\ proc[p].cost \in Nat
  BY DEF ConstantsAssumption, TypeOK, Process, Row, Months
<1>1. CASE UNCHANGED <<proc, holder, budget, month, ledger>>
  BY <1>1 DEF Counted, MonthIsCounted, Seen
<1>2. CASE UpsertBudget
  <2>1. budget'.last = budget.last /\ budget'.current = budget.current
    BY <1>2 DEF UpsertBudget, TypeOK, Row
  <2> QED
    BY <1>0, <1>2, <2>1 DEF UpsertBudget, Counted, MonthIsCounted, Seen
<1>3. CASE NextMonth
  BY <1>0, <1>3 DEF NextMonth, Counted, MonthIsCounted, Months, At, Holding
<1>4. ASSUME NEW p \in Procs, NEW q \in Procs,
             \A r \in Procs : r # p => proc'[r] = proc[r],
             UNCHANGED <<month, budget, ledger>>,
             Begins(p) \/ Passes(p) \/ Takes(p) \/ Ends(p)
      PROVE  CountOf(q)'
  <2>0. CountOf(q) /\ CountOf(p) /\ MonthIsCounted
    BY DEF Counted, CountOf
  <2>1. CASE q # p
    <3>1. proc'[q] = proc[q]
      BY <1>4, <2>1
    <3>2. holder' = q => holder = q
      BY <1>0, <1>4, <2>1 DEF Begins, Passes, Takes, Ends, Idle
    <3>3. holder = q => holder' = q
      BY <1>0, <1>4, <2>1 DEF Begins, Passes, Takes, Ends, Free
    <3> QED
      BY <1>4, <2>0, <3>1, <3>2, <3>3 DEF CountOf, Seen
  <2>2. CASE q = p /\ Begins(p)
    BY <1>0, <1>4, <2>0, <2>2 DEF Begins, Holding, CountOf
  <2>3. CASE q = p /\ Passes(p)
    <3>1. budget.last <= month
      BY DEF Counted
    <3>2. Seen(p)' = Seen(p)
      BY <1>4, <2>3 DEF Passes, Seen
    <3>3. proc[p].step = "load" => Seen(p) = budget
      BY DEF Holding, Seen
    <3> QED
      BY <1>0, <1>4, <2>0, <2>3, <3>1, <3>2, <3>3 DEF Passes, CountOf
  <2>4. CASE q = p /\ Takes(p)
    <3>1. holder' = p /\ Seen(p)' = proc'[p].row
      BY <1>4, <2>4 DEF Takes, Seen
    <3>2. CASE proc[p].step = "reset"
      <4>1. /\ proc'[p].row.current = 0 /\ proc'[p].row.last = month
            /\ proc'[p].step = "check" /\ proc'[p].written = Nothing
        BY <1>4, <2>4, <3>2 DEF Takes, TypeOK, Row, Holding
      <4>2. ledger[month] = Nothing
        BY <1>0, <2>0, <3>2 DEF CountOf, Counted, Months
      <4>3. Agree(proc'[p].row.current, Plus(ledger[month], proc'[p].written))
        BY <4>1, <4>2, Added
      <4> QED
        BY <1>4, <2>4, <3>1, <4>1, <4>3 DEF CountOf
    <3>3. CASE proc[p].step = "charge"
      <4>1. Seen(p) \in Row /\ Seen(p).last = month
        BY <2>0, <3>3, SeenIsRow DEF CountOf
      <4>2. /\ proc'[p].row.current = Seen(p).current + InBudget(proc[p].cost)
            /\ proc'[p].row.last = month
            /\ proc'[p].step = "parse"
            /\ proc'[p].written = Plus(proc[p].written, Entry(p))
        BY <1>4, <2>4, <3>3, <4>1 DEF Takes, Charged, Row
      <4>3. Agree(Seen(p).current, Plus(ledger[month], proc[p].written))
        <5>1. CASE holder = p
          BY <2>0, <5>1 DEF CountOf, Seen
        <5>2. CASE holder # p
          <6>1. proc[p].written = Nothing
            BY <1>0, <5>2 DEF Holding, Ledger
          <6> QED
            BY <1>0, <2>0, <4>1, <5>2, <6>1, Added DEF Seen, MonthIsCounted
        <5> QED
          BY <5>1, <5>2
      <4>4. Entry(p) \in Ledger /\ ledger[month] \in Ledger
        BY <1>0, Rounds DEF Entry, Ledger
      <4>5. Agree(Seen(p).current + InBudget(proc[p].cost),
                  Plus(Plus(ledger[month], proc[p].written), Entry(p)))
        <5>1. /\ Plus(ledger[month], proc[p].written) \in Ledger
              /\ Seen(p).current \in Nat
          BY <1>0, <4>1, <4>4, Added DEF Row
        <5> QED
          BY <1>0, <4>3, <4>4, <5>1, AgreeOn DEF Entry
      <4>6. Plus(Plus(ledger[month], proc[p].written), Entry(p))
              = Plus(ledger[month], Plus(proc[p].written, Entry(p)))
        BY <1>0, <4>4, PlusAssociates
      <4>7. Agree(proc'[p].row.current, Plus(ledger[month], proc'[p].written))
        BY <4>2, <4>5, <4>6
      <4> QED
        BY <1>4, <2>4, <3>1, <4>2, <4>7 DEF CountOf
    <3> QED
      BY <2>4, <3>2, <3>3 DEF Takes
  <2>5. CASE q = p /\ Ends(p)
    BY <1>0, <1>4, <2>0, <2>5 DEF Ends, CountOf, Idle
  <2> QED
    BY <1>4, <2>1, <2>2, <2>3, <2>4, <2>5
<1>5. ASSUME NEW p \in Procs, Saves(p), month' = month,
             \A q \in Procs : q # p => proc'[q] = proc[q]
      PROVE  Counted'
  <2>1. holder = p /\ CountOf(p) /\ proc[p].step = "save"
    BY <1>5 DEF Saves, Holding, Counted, CountOf
  <2>2. /\ budget'.last = month
        /\ Agree(budget'.current, Plus(ledger[month], proc[p].written))
        /\ holder' = None /\ proc'[p].step = "idle"
        /\ ledger' = [ledger EXCEPT ![month] = Plus(@, proc[p].written)]
    BY <1>5, <2>1 DEF Saves, Ends, Idle, CountOf, Seen
  <2>3. /\ MonthIsCounted'
        /\ \A m \in Months : m > budget'.last => ledger'[m] = Nothing
    BY <1>0, <1>5, <2>1, <2>2 DEF MonthIsCounted, Counted, CountOf, Months,
      Seen
  <2>4. ASSUME NEW q \in Procs PROVE CountOf(q)'
    <3>1. holder' # q /\ Seen(q)' = budget'
      BY <1>0, <2>2 DEF Seen
    <3>2. proc'[q].step # "reset"
      BY <1>0, <1>5, <2>2 DEF Alone, Counted
    <3> QED
      BY <1>5, <2>2, <3>1, <3>2 DEF CountOf
  <2> QED
    BY <1>0, <1>5, <2>2, <2>3, <2>4 DEF Counted, CountOf
<1>6. ASSUME NEW p \in Procs, UNCHANGED <<month, budget, ledger>>,
             \A q \in Procs : CountOf(q)'
      PROVE  Counted'
  BY <1>6 DEF Counted, CountOf, MonthIsCounted
<1> QED
  BY <1>1, <1>2, <1>3, <1>4, <1>5, <1>6, Moves

-----------------------------------------------------------------------------
(* The overspending                                                        *)

(* Translations whose check has passed and whose call is not charged.      *)
Checked == {p \in Procs : proc[p].step \in {"call", "charge"}}

(* What the next one to charge adds to.                                    *)
Ahead == IF holder = None THEN budget.current ELSE proc[holder].row.current

(* Every limit that was set is a hard one and at most l.                   *)
HardUpTo(l) ==
  LET Kept(row) == row.hard = "yes" /\ row.limit \in 1..l
  IN Kept(budget) /\ \A p \in Procs : holder = p => Kept(proc[p].row)

Times(m, n) == m * n

(* Each translation that was checked may still add m units, the most a     *)
(* call is charged; but the holder has seen what it has written itself.    *)
BoundedBy(l, m) ==
  LET all == Times(m, Cardinality(Procs))
  IN /\ budget.current + Times(m, Cardinality(Checked \ {holder})) <= l - 1 + all
     /\ Ahead + Times(m, Cardinality(Checked)) <= l - 1 + all
     /\ holder # None =>
          IF holder \in Checked THEN Ahead <= l - 1
          ELSE Ahead <= l - 1 + m \/ Ahead <= budget.current + m

LEMMA Products ==
  ASSUME NEW m \in Nat
  PROVE  /\ \A n \in Nat : /\ Times(m, n) \in Nat
                          /\ Times(m, n + 1) = Times(m, n) + m
         /\ \A n \in Nat : \A k \in 0..n : Times(m, k) <= Times(m, n)
<1>1. \A n \in Nat : /\ Times(m, n) \in Nat
                     /\ Times(m, n + 1) = Times(m, n) + m
  BY SMT DEF Times
<1>2. ASSUME NEW n \in Nat, NEW k \in 0..n PROVE Times(m, k) <= Times(m, n)
  <2>1. PICK d \in Nat : n = k + d
    <3>1. n - k \in Nat /\ n = k + (n - k)
      OBVIOUS
    <3> QED
      BY <3>1
  <2>2. m * n = m * k + m * d /\ m * d \in Nat /\ m * k \in Nat
    BY <2>1, SMT
  <2> QED
    BY <2>2 DEF Times
<1> QED
  BY <1>1, <1>2

LEMMA Counts ==
  ASSUME ConstantsAssumption, NEW S \in SUBSET Procs
  PROVE  /\ Cardinality(Procs) \in Nat /\
              Cardinality(S) \in 0..Cardinality(Procs)
         /\ \A T \in SUBSET S : Cardinality(T) \in 0..Cardinality(S)
         /\ \A p \in S : Cardinality(S \ {p}) = Cardinality(S) - 1
         /\ \A p \in Procs \ S : Cardinality(S) \in 0..(Cardinality(Procs) - 1)
<1>1. IsFiniteSet(Procs) /\ IsFiniteSet(S)
  BY FS_Subset DEF ConstantsAssumption
<1>2. \A T \in SUBSET S : IsFiniteSet(T) /\ Cardinality(T) <= Cardinality(S)
  BY <1>1, FS_Subset
<1>3. Cardinality(S) <= Cardinality(Procs)
  BY <1>1, FS_Subset
<1>4. \A p \in S : Cardinality(S \ {p}) = Cardinality(S) - 1
  BY <1>1, FS_RemoveElement
<1>5. ASSUME NEW p \in Procs \ S PROVE Cardinality(S) <= Cardinality(Procs) - 1
  <2>1. /\ IsFiniteSet(Procs \ {p})
        /\ Cardinality(Procs \ {p}) = Cardinality(Procs) - 1
    BY <1>1, FS_RemoveElement
  <2>2. S \subseteq Procs \ {p}
    OBVIOUS
  <2> QED
    BY <2>1, <2>2, FS_Subset
<1>6. /\ Cardinality(Procs) \in Nat /\ Cardinality(S) \in Nat
      /\ \A T \in SUBSET S : Cardinality(T) \in Nat
  BY <1>1, <1>2, FS_CardinalityType
<1> QED
  BY <1>2, <1>3, <1>4, <1>5, <1>6

LEMMA LimitsStay ==
  ASSUME ConstantsAssumption, HardStops = {"yes"}, NEW l \in Nat,
         \A k \in Limits : k \in 1..l,
         TypeOK, Holding, HardUpTo(l), [Next]_vars
  PROVE  HardUpTo(l)'
<1> DEFINE Kept(row) == row.hard = "yes" /\ row.limit \in 1..l
<1>0. /\ budget \in Row
      /\ \A p \in Procs : proc[p].row \in Row /\ proc[p].cost \in Nat
      /\ None \notin Procs
  BY DEF TypeOK, Process, ConstantsAssumption
<1>1. Kept(budget) /\ \A p \in Procs : holder = p => Kept(proc[p].row)
  BY DEF HardUpTo
<1>2. SUFFICES /\ Kept(budget)'
               /\ \A p \in Procs : holder' = p => Kept(proc'[p].row)
  BY DEF HardUpTo
<1>3. CASE UpsertBudget
  BY <1>0, <1>1, <1>3 DEF UpsertBudget, Row
<1>4. CASE UNCHANGED <<proc, holder, budget>>
  BY <1>1, <1>4
<1>5. ASSUME NEW p \in Procs, \A q \in Procs : q # p => proc'[q] = proc[q],
             Saves(p) \/ (budget' = budget /\ (Begins(p) \/ Passes(p) \/ Ends(p)))
      PROVE  /\ Kept(budget)'
             /\ \A q \in Procs : holder' = q => Kept(proc'[q].row)
  <2>1. CASE Saves(p)
    <3>1. holder = p /\ holder' = None /\ budget' = proc[p].row
      BY <2>1, <1>0 DEF Saves, Ends, Holding
    <3> QED
      BY <1>0, <1>1, <3>1
  <2>2. CASE budget' = budget /\ Ends(p)
    <3>1. \A q \in Procs : holder' = q => q # p /\ holder = q
      BY <1>0, <2>2 DEF Ends
    <3> QED
      BY <1>1, <1>5, <2>2, <3>1
  <2>3. CASE budget' = budget /\ Passes(p)
    BY <1>1, <1>5, <2>3 DEF Passes
  <2>4. CASE budget' = budget /\ Begins(p)
    BY <1>1, <1>5, <2>4 DEF Begins, Holding
  <2> QED
    BY <1>5, <2>1, <2>2, <2>3, <2>4
<1>6. ASSUME NEW p \in Procs, budget' = budget, Takes(p)
      PROVE  /\ Kept(budget)'
             /\ \A q \in Procs : holder' = q => Kept(proc'[q].row)
  <2>1. Kept(Seen(p)) /\ Seen(p) \in Row
    BY <1>0, <1>1 DEF Seen
  <2>2. Kept(proc'[p].row)
    BY <1>0, <1>1, <1>6, <2>1 DEF Takes, Charged, Row
  <2> QED
    BY <1>1, <1>6, <2>2 DEF Takes
<1> QED
  BY <1>3, <1>4, <1>5, <1>6, Moves DEF NextMonth

LEMMA BoundStays ==
  ASSUME ConstantsAssumption, NEW l \in Nat \ {0}, NEW m \in Nat,
         \A c \in Costs : InBudget(c) <= m, TypeOK, Holding,
         HardUpTo(l), BoundedBy(l, m), [Next]_vars
  PROVE  BoundedBy(l, m)'
<1> DEFINE N == Cardinality(Procs)
           C == Cardinality(Checked)
           O == Cardinality(Checked \ {holder})
           NT == Times(m, N)
           CT == Times(m, C)
           OT == Times(m, O)
<1>0. /\ budget.current \in Nat /\ None \notin Procs
      /\ holder \in Procs \cup {None}
      /\ \A p \in Procs : proc[p].row.current \in Nat /\ Seen(p) \in Row
      /\ Ahead \in Nat /\ \A p \in Procs : Free(p) => Ahead = Seen(p).current
  BY DEF TypeOK, Process, Row, ConstantsAssumption, Ahead, Seen, Free
<1>1. /\ Checked \subseteq Procs /\ Checked' \subseteq Procs
      /\ N \in Nat /\ C \in 0..N /\ O \in 0..C
      /\ C' \in 0..N /\ O' \in 0..C'
      /\ NT \in Nat /\ CT \in 0..NT /\ OT \in 0..CT
      /\ CT' \in 0..NT /\ OT' \in 0..CT'
  <2>1. Checked \subseteq Procs /\ Checked' \subseteq Procs
    BY DEF Checked
  <2>2. /\ N \in Nat /\ C \in 0..N /\ O \in 0..C
        /\ C' \in 0..N /\ O' \in 0..C'
    BY <2>1, Counts
  <2>3. NT \in Nat /\ CT \in Nat /\ OT \in Nat /\ CT <= NT /\ OT <= CT
    BY <2>2, Products
  <2>4. /\ Times(m, C') \in Nat /\ Times(m, O') \in Nat
        /\ Times(m, C') <= NT /\ Times(m, O') <= Times(m, C')
    BY <2>2, Products
  <2>5. CT' = Times(m, C') /\ OT' = Times(m, O')
    OBVIOUS
  <2> HIDE DEF N, C, O, NT, CT, OT
  <2>6. CT \in 0..NT /\ OT \in 0..CT /\ CT' \in 0..NT /\ OT' \in 0..CT'
    BY <2>3, <2>4, <2>5
  <2> QED
    BY <2>1, <2>2, <2>3, <2>6
<1>2. CASE UNCHANGED <<proc, holder, budget>>
  BY <1>2 DEF BoundedBy, Ahead, Checked
<1>3. CASE UpsertBudget
  <2>1. budget'.current = budget.current
    BY <1>3 DEF UpsertBudget, TypeOK, Row
  <2> QED
    BY <1>3, <2>1 DEF UpsertBudget, BoundedBy, Ahead, Checked
<1>4. ASSUME NEW p \in Procs, \A q \in Procs : q # p => proc'[q] = proc[q]
      PROVE  Checked' \in {Checked, Checked \cup {p}, Checked \ {p}}
  BY <1>4 DEF Checked
<1>5. ASSUME NEW p \in Procs, \A q \in Procs : q # p => proc'[q] = proc[q],
             budget' = budget, Passes(p), proc[p].step = "check",
             proc'[p].step = "call", MayCall(p)
      PROVE  BoundedBy(l, m)'
  <2>1. Ahead' = Ahead /\ holder' = holder
    BY <1>0, <1>5 DEF Passes, Ahead
  <2>2. Checked' = Checked \cup {p} /\ p \notin Checked
    BY <1>5 DEF Checked
  <2>3. Seen(p).current <= l - 1
    BY <1>0, <1>5 DEF MayCall, Over, HardUpTo, Seen, TypeOK, Process, Row
  <2>4. CASE holder = p
    <3>1. Ahead <= l - 1 /\ Checked' \ {holder} = Checked \ {holder}
      BY <1>0, <2>2, <2>3, <2>4 DEF Free
    <3>2. O' = O
      BY <2>1, <3>1
    <3> QED
      BY <1>0, <1>1, <1>5, <2>1, <2>4, <3>1, <3>2 DEF BoundedBy
  <2>5. CASE holder = None
    BY <1>0, <1>1, <1>5, <2>1, <2>3, <2>5 DEF BoundedBy, Ahead, Seen
  <2>6. CASE holder # p /\ holder # None
    <3>1. budget.current <= l - 1
      BY <2>3, <2>6 DEF Seen
    <3>2. holder \in Checked' <=> holder \in Checked
      BY <2>2, <2>6
    <3>3. CASE holder \in Checked
      BY <1>0, <1>1, <1>5, <2>1, <2>6, <3>1, <3>2, <3>3 DEF BoundedBy
    <3>4. CASE holder \notin Checked
      <4>1. CT' + m <= NT
        <5>1. C' \in Nat /\ C' + 1 \in 0..N
          BY <1>0, <1>1, <2>6, <3>2, <3>4, Counts
        <5>2. CT' = Times(m, C')
          OBVIOUS
        <5> QED
          BY <1>1, <5>1, <5>2, Products
      <4>2. Ahead <= l - 1 + m
        BY <1>0, <2>6, <3>1, <3>4 DEF BoundedBy
      <4> QED
        BY <1>0, <1>1, <1>5, <2>1, <2>6, <3>1, <3>2, <3>4, <4>1, <4>2
          DEF BoundedBy
    <3> QED
      BY <3>3, <3>4
  <2> QED
    BY <2>4, <2>5, <2>6
<1>6. ASSUME NEW p \in Procs, \A q \in Procs : q # p => proc'[q] = proc[q],
             budget' = budget, Begins(p) \/ Passes(p),
             Checked' = Checked
      PROVE  BoundedBy(l, m)'
  <2>1. holder' = holder /\ Ahead' = Ahead
    BY <1>0, <1>6 DEF Begins, Passes, Ahead, Holding
  <2> QED
    BY <1>6, <2>1 DEF BoundedBy
<1>7. ASSUME NEW p \in Procs, \A q \in Procs : q # p => proc'[q] = proc[q],
             budget' = budget, Takes(p)
      PROVE  BoundedBy(l, m)'
  <2>1. /\ holder' = p /\ Ahead' = proc'[p].row.current /\ p \notin Checked'
        /\ Ahead = Seen(p).current
    BY <1>0, <1>7 DEF Takes, Ahead, Checked
  <2>2. CASE proc[p].step = "reset"
    <3>1. Checked' = Checked /\ holder = None
      BY <1>0, <1>7, <2>2 DEF Takes, Checked, Holding, Free
    <3>2. Ahead' = 0
      BY <1>7, <2>1, <2>2 DEF Takes, TypeOK, Row
    <3>3. Ahead = budget.current
      BY <3>1 DEF Ahead
    <3> QED
      BY <1>0, <1>1, <1>7, <2>1, <3>1, <3>2, <3>3 DEF BoundedBy
  <2>3. CASE proc[p].step = "charge"
    <3>1. p \in Checked /\ Checked' = Checked \ {p}
      BY <1>7, <2>3 DEF Takes, Checked
    <3>2. /\ Ahead' = Ahead + InBudget(proc[p].cost)
          /\ InBudget(proc[p].cost) \in 0..m
      <4>1. proc[p].cost \in Costs /\ InBudget(proc[p].cost) \in Nat
        BY <1>0, <2>3, Rounds DEF Holding, ConstantsAssumption
      <4> QED
        BY <1>0, <1>7, <2>1, <2>3, <4>1 DEF Takes, Charged, Row
    <3>3. C' = C - 1 /\ O' = C - 1 /\ CT = CT' + m /\ OT' = CT'
      <4>1. Checked' \ {holder}' = Checked'
        BY <2>1
      <4>2. C' = C - 1 /\ O' = C - 1
        BY <1>1, <3>1, <4>1, Counts
      <4>3. CT' = Times(m, C') /\ OT' = Times(m, O') /\ CT = Times(m, C)
        OBVIOUS
      <4> HIDE DEF N, C, O, NT, CT, OT
      <4>4. C' \in Nat /\ C = C' + 1 /\ O' = C'
        BY <1>1, <4>2
      <4>5. Times(m, C' + 1) = Times(m, C') + m
        BY <4>4, Products
      <4> QED
        BY <4>2, <4>3, <4>4, <4>5
    <3>4. CASE holder = p
      <4>1. OT = CT'
        <5>1. O = C - 1
          BY <1>1, <3>1, <3>4, Counts
        <5> QED
          BY <3>3, <5>1
      <4> QED
        BY <1>0, <1>1, <1>7, <2>1, <3>1, <3>2, <3>3, <3>4, <4>1 DEF BoundedBy
    <3>5. CASE holder = None
      BY <1>0, <1>1, <1>7, <2>1, <3>2, <3>3, <3>5 DEF BoundedBy, Ahead
    <3> QED
      BY <1>7, <3>4, <3>5 DEF Takes, Free
  <2> QED
    BY <1>7, <2>2, <2>3 DEF Takes
<1>8. ASSUME NEW p \in Procs, \A q \in Procs : q # p => proc'[q] = proc[q],
             Ends(p), budget' = budget
      PROVE  BoundedBy(l, m)'
  <2>1. Checked' = Checked \ {p}
    BY <1>8 DEF Ends, Idle, Checked
  <2>2. CASE holder = p
    <3>1. holder' = None /\ Ahead' = budget.current
      BY <1>8, <2>2 DEF Ends, Ahead
    <3>2. C' = O /\ O' = O
      <4>1. Checked' \ {holder}' = Checked \ {p}
        BY <1>0, <2>1, <3>1 DEF Checked
      <4> QED
        BY <2>1, <2>2, <4>1
    <3> QED
      BY <1>0, <1>1, <1>8, <3>1, <3>2 DEF BoundedBy
  <2>3. CASE holder # p
    <3>1. holder' = holder /\ Ahead' = Ahead
      BY <1>0, <1>8, <2>3 DEF Ends, Ahead
    <3>2. CT' <= CT /\ OT' <= OT
      <4>1. Checked' \ {holder}' \subseteq Checked \ {holder}
        BY <2>1, <3>1
      <4>2. C' \in 0..C /\ O' \in 0..O
        BY <1>1, <2>1, <4>1, Counts
      <4>3. CT' = Times(m, C') /\ OT' = Times(m, O')
        OBVIOUS
      <4> QED
        BY <1>1, <4>2, <4>3, Products
    <3>3. holder \in Checked' <=> holder \in Checked
      BY <2>1, <2>3
    <3> QED
      BY <1>0, <1>1, <1>8, <3>1, <3>2, <3>3 DEF BoundedBy
  <2> QED
    BY <2>2, <2>3
<1>9. ASSUME NEW p \in Procs, \A q \in Procs : q # p => proc'[q] = proc[q],
             Saves(p)
      PROVE  BoundedBy(l, m)'
  <2>1. /\ holder = p /\ holder' = None /\ budget'.current = Ahead
        /\ Ahead' = Ahead
        /\ p \notin Checked /\ Checked' = Checked
    BY <1>0, <1>9 DEF Saves, Ends, Idle, Holding, Ahead, Checked
  <2> QED
    BY <1>0, <1>1, <2>1 DEF BoundedBy
<1>10. ASSUME NEW p \in Procs, Begins(p) \/ Passes(p),
              \A q \in Procs : q # p => proc'[q] = proc[q]
       PROVE  \/ Checked' = Checked
              \/ /\ Passes(p) /\ proc[p].step = "check"
                 /\ proc'[p].step = "call" /\ MayCall(p)
  BY <1>10 DEF Begins, Passes, Checked
<1> QED
  BY <1>2, <1>3, <1>5, <1>6, <1>7, <1>8, <1>9, <1>10, Moves DEF NextMonth

-----------------------------------------------------------------------------
(* The theorems                                                            *)

LEMMA HoldingAlways ==
  ASSUME ConstantsAssumption
  PROVE  Spec => [](TypeOK /\ Holding)
<1>1. Init => TypeOK /\ Holding
  <2> SUFFICES ASSUME Init PROVE TypeOK /\ Holding
    OBVIOUS
  <2>1. 0 \in Months /\ Blank \in Row /\ budget \in Row
    BY DEF ConstantsAssumption, Init, Months, Blank, Row
  <2>2. Idle \in Process
    BY <2>1, Added DEF Idle, Process
  <2>3. TypeOK
    BY <2>1, <2>2, Added DEF Init, TypeOK, ConstantsAssumption
  <2>4. Holding
    BY DEF Init, Holding, Idle, Nothing, ConstantsAssumption
  <2> QED
    BY <2>3, <2>4
<1>2. TypeOK /\ Holding /\ [Next]_vars => (TypeOK /\ Holding)'
  BY TypesHold, HoldingStays
<1> QED
  BY <1>1, <1>2, PTL DEF Spec

(* Every variable keeps its type.                                          *)
THEOREM TypeCorrect ==
  ASSUME ConstantsAssumption
  PROVE  Spec => []TypeOK
BY HoldingAlways, PTL

(* The budget of a month is charged what the ledger says of it, but for    *)
(* the rounding of each call (50.5 * 10^-6 USD at most), while             *)
(* translations overlap in one month, and while they follow each other     *)
(* over any number of them (reset_monthly_if_needed, record_cost).         *)
THEOREM MonthDoesCount ==
  ASSUME ConstantsAssumption, Alone
  PROVE  Spec => []MonthIsCounted
<1>1. Init => Counted
  BY Added DEF ConstantsAssumption, Init, Counted, MonthIsCounted, Months,
    Idle
<1>2. TypeOK /\ Holding /\ Counted /\ [Next]_vars => Counted'
  BY CountStays
<1>3. Counted => MonthIsCounted
  BY DEF Counted
<1> QED
  BY <1>1, <1>2, <1>3, HoldingAlways, PTL DEF Spec

(* A hard stop is passed only by the translations that had been checked    *)
(* before, each by the charge of one call (check_budget, record_cost).     *)
THEOREM OverspendingIsBounded ==
  ASSUME ConstantsAssumption
  PROVE  Spec => []OverspendIsBounded
<1> DEFINE Largest(l) == \A k \in Limits : k <= l
           Charges == {InBudget(c) : c \in Costs}
           Most(m) == \A c \in Costs : InBudget(c) <= m
           Bounded == /\ HardStops = {"yes"} /\ 0 \notin Limits
                      /\ \E l \in Limits, m \in Charges : Largest(l) /\ Most(m)
<1>1. CASE Bounded
  <2>1. PICK l \in Limits, m \in Charges : Largest(l) /\ Most(m)
    BY <1>1
  <2>2. /\ l \in Nat \ {0} /\ \A k \in Limits : k \in 1..l
        /\ m \in Nat /\ \A c \in Costs : InBudget(c) <= m
    BY <1>1, <2>1, Rounds DEF ConstantsAssumption
  <2>3. Init => HardUpTo(l) /\ BoundedBy(l, m)
    <3>1. Cardinality(Procs) \in Nat /\ Cardinality({}) = 0
      BY FS_CardinalityType, FS_EmptySet DEF ConstantsAssumption
    <3>2. Init => Checked = {} /\ Checked \ {holder} = {}
      BY DEF Init, Checked, Idle
    <3>3. Init => HardUpTo(l)
      BY <1>1, <2>2 DEF Init, HardUpTo, ConstantsAssumption
    <3>4. Init => budget.current = 0 /\ holder = None /\ Ahead = 0
      BY DEF Init, Ahead
    <3>5. Times(m, 0) = 0 /\ Times(m, Cardinality(Procs)) \in Nat
      BY <2>2, <3>1, Products DEF Times
    <3>6. Init => /\ Times(m, Cardinality(Checked)) = 0
                  /\ Times(m, Cardinality(Checked \ {holder})) = 0
      BY <3>1, <3>2, <3>5
    <3>7. Init => BoundedBy(l, m)
      BY <2>2, <3>4, <3>5, <3>6 DEF BoundedBy
    <3> QED
      BY <3>3, <3>7
  <2>4. TypeOK /\ Holding /\ HardUpTo(l) /\ BoundedBy(l, m) /\ [Next]_vars =>
          HardUpTo(l)' /\ BoundedBy(l, m)'
    BY <1>1, <2>2, LimitsStay, BoundStays
  <2>5. TypeOK /\ BoundedBy(l, m) => OverspendIsBounded
    <3> SUFFICES ASSUME TypeOK, BoundedBy(l, m), NEW k \in Limits, Largest(k),
                        NEW n \in Charges, Most(n)
                 PROVE  budget.current <= k - 1 + n * Cardinality(Procs)
      BY DEF OverspendIsBounded
    <3>1. k = l /\ n = m
      BY <2>1, <2>2, Rounds DEF ConstantsAssumption
    <3>2. Times(m, Cardinality(Checked \ {holder})) \in Nat
      <4>1. Checked \ {holder} \subseteq Procs
        BY DEF Checked
      <4>2. Cardinality(Checked \ {holder}) \in Nat
        BY <4>1, Counts
      <4> QED
        BY <2>2, <4>2, Products
    <3>3. /\ Cardinality(Procs) \in Nat
          /\ Times(m, Cardinality(Procs)) = n * Cardinality(Procs)
          /\ Times(m, Cardinality(Procs)) \in Nat
      <4>1. Cardinality(Procs) \in Nat
        BY FS_CardinalityType DEF ConstantsAssumption
      <4> QED
        BY <2>2, <3>1, <4>1, Products DEF Times
    <3>4. budget.current <= l - 1 + Times(m, Cardinality(Procs))
      BY <2>2, <3>2, <3>3 DEF BoundedBy, TypeOK, Row
    <3> QED
      BY <3>1, <3>3, <3>4
  <2> QED
    BY <2>3, <2>4, <2>5, HoldingAlways, PTL DEF Spec
<1>2. CASE ~ Bounded
  <2>1. OverspendIsBounded
    BY <1>2 DEF OverspendIsBounded
  <2> QED
    BY <2>1, PTL
<1> QED
  BY <1>1, <1>2

=============================================================================
