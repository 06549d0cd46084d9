----------------------------- MODULE LlmBudget -----------------------------
(***************************************************************************)
(* The monthly budget of one tenant for calls of Gemini                    *)
(* (src/backend/app/services/llm_budget.py) as the translations use it     *)
(* (services/message_translator.py).                                       *)
(*                                                                         *)
(* A translation is one transaction: it resets the month if that is due,   *)
(* checks the budget, calls Gemini, charges the call and enters it in the  *)
(* ledger, perhaps calls the better model too, and commits with the        *)
(* translation.  From its first UPDATE to its end it holds the row of the  *)
(* budget; before that it reads what others have committed.                *)
(*                                                                         *)
(* Money is kept at three precisions: a cost is exact, here in units of    *)
(* 10^-9 USD; the ledger keeps 6 decimals (NUMERIC(12, 6)), the budget     *)
(* 4 (NUMERIC(10, 4)), and a cost is rounded for each of them by itself.   *)
(***************************************************************************)
EXTENDS Naturals, FiniteSets, Functions

CONSTANTS
  Messages,    \* inbound messages to be translated
  Procs,       \* translations under way
  None,
  HardStops,   \* values of hard_stop an administrator may set
  Limits,      \* monthly_budget_usd an administrator may set, in 10^-4 USD
  Costs,       \* of a call, by its tokens and its model, in 10^-9 USD
  MaxMonth,    \* bound: months
  MaxCalls     \* bound: calls of Gemini

ConstantsAssumption ==
  /\ None \notin Procs /\ IsFiniteSet(Procs)
  /\ HardStops \subseteq {"yes", "no"} /\ HardStops # {}
  /\ Limits \subseteq Nat /\ Limits # {}
  /\ Costs \subseteq Nat
  /\ MaxMonth \in Nat /\ MaxCalls \in Nat

VARIABLES
  budget,   \* the committed row of tenant_llm_budgets
  holder,   \* the process whose transaction has written the row
  month,    \* of the clock
  ledger,   \* committed rows of llm_usage_events, per month
  cached,   \* messages whose translation is stored
  proc,
  calls     \* calls of Gemini so far

vars == <<budget, holder, month, ledger, cached, proc, calls>>

Months == 0..MaxMonth
Row == [limit : Nat, current : Nat, last : Months, hard : {"yes", "no"}]

(* The rows of the ledger, and the sum of what they cost, in 10^-6 USD.    *)
Ledger == [entries : Nat, amount : Nat]

(* model: the first call or that of the better model; cost: of the call    *)
(* that is to be charged; row: the budget as this transaction has written  *)
(* it; written: its rows of the ledger.                                    *)
Process ==
  [step : {"idle", "load", "reset", "check", "call", "charge", "parse", "save"},
   message : Messages \cup {None}, model : {"receive", "send"},
   cost : Nat, row : Row, written : Ledger]

Blank == [limit |-> 0, current |-> 0, last |-> 0, hard |-> "yes"]
Nothing == [entries |-> 0, amount |-> 0]
Idle == [step |-> "idle", message |-> None, model |-> "receive",
         cost |-> 0, row |-> Blank, written |-> Nothing]

TypeOK ==
  /\ budget \in Row
  /\ holder \in Procs \cup {None}
  /\ month \in Months
  /\ ledger \in [Months -> Ledger]
  /\ cached \subseteq Messages
  /\ proc \in [Procs -> Process]
  /\ calls \in 0..MaxCalls

Init ==
  /\ budget \in {[limit |-> l, current |-> 0, last |-> 0, hard |-> h] :
                   l \in Limits, h \in HardStops}
  /\ holder = None
  /\ month = 0
  /\ ledger = [m \in Months |-> Nothing]
  /\ cached = {}
  /\ proc = [p \in Procs |-> Idle]
  /\ calls = 0

-----------------------------------------------------------------------------
(* Helpers                                                                 *)

At(p, step) == proc[p].step = step

(* Mutant of Free: statements do not wait for the row.                     *)
NeverWaits(p) == TRUE

Free(p) == holder \in {p, None}

(* What a statement of p sees of the row.                                  *)
Seen(p) == IF holder = p THEN proc[p].row ELSE budget

(* A cost as the budget is charged it: cost.quantize(Decimal("0.0001")),   *)
(* which rounds a half to the even neighbour.                              *)
InBudget(cost) ==
  LET whole == cost \div 100000
      rest == cost % 100000
  IN IF rest > 50000 \/ (rest = 50000 /\ whole % 2 = 1) THEN whole + 1
     ELSE whole

(* A cost as the ledger keeps it; the database rounds a half up.           *)
InLedger(cost) == (cost + 500) \div 1000

(* Rows of the ledger added to others.                                     *)
Plus(a, b) ==
  [entries |-> a.entries + b.entries, amount |-> a.amount + b.amount]

(* A limit of 0 is none.                                                   *)
Over(row) == row.limit > 0 /\ row.current >= row.limit

(* p goes on; what it writes is in its process until it commits.           *)
Go(p, step) == proc' = [proc EXCEPT ![p].step = step]

Write(p, row) == holder' = p /\ proc' = [proc EXCEPT ![p].row = row]

Rollback(p) ==
  /\ proc' = [proc EXCEPT ![p] = Idle]
  /\ holder' = IF holder = p THEN None ELSE holder

-----------------------------------------------------------------------------
(* translate_inbound: a stored translation is returned without a call.     *)
BeginInbound(p, m) ==
  /\ At(p, "idle")
  /\ m \notin cached
  /\ proc' = [proc EXCEPT ![p] = [Idle EXCEPT !.step = "load", !.message = m]]
  /\ UNCHANGED <<budget, holder, month, ledger, cached, calls>>

(* generate_outbound_draft: always the better model, nothing is cached.    *)
BeginOutbound(p) ==
  /\ At(p, "idle")
  /\ proc' = [proc EXCEPT ![p] = [Idle EXCEPT !.step = "load",
                                              !.model = "send"]]
  /\ UNCHANGED <<budget, holder, month, ledger, cached, calls>>

-----------------------------------------------------------------------------
(* reset_monthly_if_needed: reads the row, then updates it by tenant.      *)

LoadForReset(p) ==
  /\ At(p, "load")
  /\ Go(p, IF budget.last < month THEN "reset" ELSE "check")
  /\ UNCHANGED <<budget, holder, month, ledger, cached, calls>>

(* The UPDATE waits for the row; it asks for no last_reset_at.             *)
Reset(p) ==
  /\ At(p, "reset")
  /\ Free(p)
  /\ holder' = p
  /\ proc' = [proc EXCEPT ![p].step = "check",
                ![p].row = [budget EXCEPT !.current = 0, !.last = month]]
  /\ UNCHANGED <<budget, month, ledger, cached, calls>>

-----------------------------------------------------------------------------
(* check_budget: a budget that is over stops the call, if it is a hard     *)
(* one.                                                                    *)
MayCall(p) == Over(Seen(p)) => Seen(p).hard = "no"

CheckPasses(p) ==
  /\ At(p, "check")
  /\ MayCall(p)
  /\ Go(p, "call")
  /\ UNCHANGED <<budget, holder, month, ledger, cached, calls>>

(* Refused: an exception, or no second opinion.                            *)
CheckStops(p) ==
  /\ At(p, "check")
  /\ ~ MayCall(p)
  /\ IF proc[p].written.entries > 0 THEN Go(p, "save") /\ UNCHANGED holder
     ELSE Rollback(p)
  /\ UNCHANGED <<budget, month, ledger, cached, calls>>

(* _call_gemini answers; what it costs follows from the tokens.            *)
Call(p) ==
  /\ At(p, "call")
  /\ calls < MaxCalls /\ calls' = calls + 1
  /\ \E cost \in Costs :
       proc' = [proc EXCEPT ![p].step = "charge", ![p].cost = cost]
  /\ UNCHANGED <<budget, holder, month, ledger, cached>>

(* It fails or answers nothing: the transaction is rolled back.            *)
CallFails(p) ==
  /\ At(p, "call")
  /\ Rollback(p)
  /\ UNCHANGED <<budget, month, ledger, cached, calls>>

(* Mutant of Charged: what is left is counted.                             *)
ChargedDown(p) == [Seen(p) EXCEPT !.current = @ - InBudget(proc[p].cost)]

(* current_month_usd = current_month_usd + :cost                           *)
Charged(p) == [Seen(p) EXCEPT !.current = @ + InBudget(proc[p].cost)]

(* _usage_event_columns: the row of the ledger for the call.               *)
Entry(p) == [entries |-> 1, amount |-> InLedger(proc[p].cost)]

(* record_cost and record_usage_event                                      *)
Charge(p) ==
  /\ At(p, "charge")
  /\ Free(p)
  /\ holder' = p
  /\ proc' = [proc EXCEPT ![p].step = "parse", ![p].cost = 0,
                          ![p].row = Charged(p),
                          ![p].written = Plus(@, Entry(p))]
  /\ UNCHANGED <<budget, month, ledger, cached, calls>>

(* A text that is short and sure is saved; of the rest of the inbound ones *)
(* the better model is asked too, if the budget allows.                    *)
Parse(p) ==
  /\ At(p, "parse")
  /\ \/ Go(p, "save")
     \/ /\ proc[p].model = "receive"
        /\ proc' = [proc EXCEPT ![p].step = "check", ![p].model = "send"]
  /\ UNCHANGED <<budget, holder, month, ledger, cached, calls>>

(* LLMParseError: the charge and the entry are rolled back too.            *)
ParseFails(p) ==
  /\ At(p, "parse")
  /\ Rollback(p)
  /\ UNCHANGED <<budget, month, ledger, cached, calls>>

Save(p) ==
  /\ At(p, "save")
  /\ budget' = proc[p].row
  /\ ledger' = [ledger EXCEPT ![month] = Plus(@, proc[p].written)]
  /\ cached' = cached \cup ({proc[p].message} \ {None})
  /\ Rollback(p)
  /\ UNCHANGED <<month, calls>>

-----------------------------------------------------------------------------
(* upsert_budget: an administrator changes the limit and the hard stop.    *)
UpsertBudget ==
  /\ holder = None
  /\ \E l \in Limits, h \in HardStops :
       budget' = [budget EXCEPT !.limit = l, !.hard = h]
  /\ UNCHANGED <<holder, month, ledger, cached, proc, calls>>

(* A month ends; translations that take part in two months are left out.   *)
NextMonth ==
  /\ month < MaxMonth
  /\ \A p \in Procs : At(p, "idle")
  /\ month' = month + 1
  /\ UNCHANGED <<budget, holder, ledger, cached, proc, calls>>

Next ==
  \/ \E p \in Procs :
       \/ \E m \in Messages : BeginInbound(p, m)
       \/ BeginOutbound(p)
       \/ LoadForReset(p) \/ Reset(p) \/ CheckPasses(p) \/ CheckStops(p)
       \/ Call(p) \/ CallFails(p) \/ Charge(p) \/ Parse(p) \/ ParseFails(p)
       \/ Save(p)
  \/ UpsertBudget \/ NextMonth

Spec == Init /\ [][Next]_vars

-----------------------------------------------------------------------------
(* Properties                                                              *)

(* Charges and rows of the ledger that were rounded each for itself: they  *)
(* differ by half a unit of the budget and half a unit of the ledger for   *)
(* every call, 50.5 * 10^-6 USD, at most.                                  *)
Agree(current, rows) ==
  /\ 200 * current <= 2 * rows.amount + 101 * rows.entries
  /\ 2 * rows.amount <= 200 * current + 101 * rows.entries

(* The budget of a month is charged what the ledger says of it, but for    *)
(* the rounding of each call: when translations overlap in one month, and  *)
(* when they come one after the other over several.                        *)
MonthIsCounted ==
  budget.last = month => Agree(budget.current, ledger[month])

(* A hard stop is passed only by the translations that had been checked    *)
(* before, each by one call: the overspending is bounded.                  *)
OverspendIsBounded ==
  HardStops = {"yes"} /\ 0 \notin Limits =>
    \A l \in Limits, most \in {InBudget(c) : c \in Costs} :
      (\A k \in Limits : k <= l) /\ (\A c \in Costs : InBudget(c) <= most) =>
        budget.current <= l - 1 + most * Cardinality(Procs)

(* The head of llm_budget.py: beyond a hard budget the API is not called.  *)
NoCallBeyondTheBudget ==
  [][calls' # calls => ~ (Over(budget) /\ budget.hard = "yes")]_vars

(* The comment on the ledger: one row for every call of Gemini.            *)
EveryCallIsEntered ==
  (\A p \in Procs : At(p, "idle")) =>
    FoldFunction(LAMBDA rows, n : rows.entries + n, 0, ledger) = calls

(* The head of llm_budget.py: the amount of a month is set to zero when    *)
(* the last reset was in an earlier month, and only then.                  *)
ResetOncePerMonth ==
  [][budget'.current < budget.current => budget.last < month]_vars

=============================================================================
