--------------------------- MODULE CurrentResults ---------------------------
(***************************************************************************)
(* Which analysis results of one supplier are current (is_current), as     *)
(* run_v102_analysis (line_analysis_v102_svc.py), apply_transcription_edit *)
(* (v102_transcription_svc.py) and _merge_supplier_products                *)
(* (tcg_analyzer_svc.py) keep them.                                        *)
(*                                                                         *)
(* Posts are 1..N in the order they were received.  Each has at most one   *)
(* item, whose result is a pair (product, condition), Unresolved, or NoRow *)
(* when nothing was analysed or the item was deleted.  The second targets  *)
(* of sold-out lines are left out.                                         *)
(*                                                                         *)
(* An analysis holds the advisory lock of its post until it commits the    *)
(* rows; the merge is a second transaction without the lock, one UPDATE    *)
(* that reads a snapshot (Rank) and then writes what it decided (Apply).   *)
(***************************************************************************)
EXTENDS Naturals, FiniteSets

CONSTANTS N,            \* posts of the supplier
          Pairs,        \* (product, condition) pairs
          ProductOf,    \* the product of each pair
          Unresolved,   \* the result of an item whose product is not known
          NoRow,        \* no result
          Outcomes,     \* results an analysis may give
          Processes,    \* Celery workers and web requests
          Free,         \* a lock nobody holds
          MaxRuns,      \* bound: analyses and edits
          MaxFaults     \* bound: analyses and merges that are broken off

Posts == 1..N

ASSUME ResultsAssumption ==
    /\ N \in Nat \ {0}
    /\ MaxRuns \in Nat
    /\ MaxFaults \in Nat
    /\ Unresolved \notin Pairs
    /\ NoRow \notin Pairs \cup {Unresolved}
    /\ Outcomes \subseteq Pairs \cup {Unresolved}
    /\ Free \notin Processes

VARIABLES row,      \* row[p]: the result of the item of post p
          current,  \* the posts whose row has is_current = TRUE
          lock,     \* lock[p]: the process with the advisory lock of p
          at,       \* at[w]: where process w is
          post,     \* post[w]: the post it works on
          extra,    \* extra[w]: the pairs the post had before (extra_pairs)
          prior,    \* prior[w]: those that were current (prior_current_pairs)
          mode,     \* mode[w]: is there such a note, is the guard on
          plan,     \* plan[w]: what the merge of w decided to write
          settled,  \* history: <<post, pair>> shown after the last merge
          inTurn,   \* history: has all of it happened in order (InOrder)
          runs, faults

vars == <<row, current, lock, at, post, extra, prior, mode, plan, settled,
          inTurn, runs, faults>>

Steps == {"idle", "reading", "committed", "ranked", "editing"}

\* "noted": a note of the current pairs is given.  "unnoted": None, the row's
\* own is_current counts.  "unguarded": revival_guard=False.
Modes == {"noted", "unnoted", "unguarded"}

NoPlan == [shown |-> {}, hidden |-> {}]

----------------------------------------------------------------------------
PairsIn(rows, p) == {rows[p]} \cap Pairs

Shown(rows, cur) ==
    {s \in Posts \X Pairs : s[1] \in cur /\ rows[s[1]] = s[2]}

NewerSameProduct(rows, p) ==
    \E q \in Posts : /\ q > p
                     /\ rows[q] \in Pairs
                     /\ ProductOf[rows[q]] = ProductOf[rows[p]]

TopOfItsPair(rows, p) == \A q \in Posts : q > p => rows[q] # rows[p]

\* Mutant of ShouldBeCurrent: the revival guard is missing.
ShouldBeCurrentNoGuard(w, m, rows, p) == TopOfItsPair(rows, p)

\* Mutant of ShouldBeCurrent: the oldest post of the pair is taken.
ShouldBeCurrentOldest(w, m, rows, p) ==
    \A q \in Posts : q < p => rows[q] # rows[p]

\* should_be_current of the merge: the newest post of the pair, and either
\* already current or not behind a newer post with the same product.
ShouldBeCurrent(w, m, rows, p) ==
    /\ TopOfItsPair(rows, p)
    /\ \/ m = "unguarded"
       \/ IF p = post[w] /\ m = "noted" THEN rows[p] \in prior[w]
                                        ELSE p \in current
       \/ ~NewerSameProduct(rows, p)

Touched(w, rows) == extra[w] \cup PairsIn(rows, post[w])

\* The rows the UPDATE changes: those whose value in the snapshot differs.
\* The last conjunct of each is IS DISTINCT FROM.
Decide(w, m, rows, touched) ==
    LET candidates == {p \in Posts : rows[p] \in touched}
        right == {p \in candidates : ShouldBeCurrent(w, m, rows, p)}
    IN [shown |-> right \ current, hidden |-> (candidates \ right) \cap current]

AfterPlan(w) == (current \cup plan[w].shown) \ plan[w].hidden

\* The rows the transaction of w writes or has written.
Written(w) == plan[w].shown \cup plan[w].hidden
                \cup IF at[w] = "editing" THEN {post[w]} ELSE {}

----------------------------------------------------------------------------
Init ==
    /\ row = [p \in Posts |-> NoRow]
    /\ current = {}
    /\ lock = [p \in Posts |-> Free]
    /\ at = [w \in Processes |-> "idle"]
    /\ post = [w \in Processes |-> 1]
    /\ extra = [w \in Processes |-> {}]
    /\ prior = [w \in Processes |-> {}]
    /\ mode = [w \in Processes |-> "unnoted"]
    /\ plan = [w \in Processes |-> NoPlan]
    /\ settled = {}
    /\ inTurn = TRUE
    /\ runs = 0
    /\ faults = 0

\* run_v102_analysis takes the lock and reads, before it writes, the pairs
\* of the post and those of them that are current.  The note is None when
\* no row of the post is resolved.
Begin(w, p) ==
    /\ at[w] = "idle"
    /\ lock[p] = Free
    /\ runs < MaxRuns
    /\ runs' = runs + 1
    /\ lock' = [lock EXCEPT ![p] = w]
    /\ at' = [at EXCEPT ![w] = "reading"]
    /\ post' = [post EXCEPT ![w] = p]
    /\ extra' = [extra EXCEPT ![w] = PairsIn(row, p)]
    /\ prior' = [prior EXCEPT ![w] = {x \in PairsIn(row, p) : p \in current}]
    /\ mode' = [mode EXCEPT ![w] = IF row[p] \in Pairs THEN "noted" ELSE "unnoted"]
    /\ settled' = IF row[p] = NoRow THEN settled \cup ({p} \X Pairs) ELSE settled
    /\ UNCHANGED <<row, current, plan, faults>>

\* _write_results and its commit, which releases the lock.  The upsert leaves
\* is_current alone and a new row starts with the default TRUE.
Write(w, x) ==
    /\ at[w] = "reading"
    /\ row' = [row EXCEPT ![post[w]] = x]
    /\ current' = IF row[post[w]] = NoRow THEN current \cup {post[w]} ELSE current
    /\ lock' = [lock EXCEPT ![post[w]] = Free]
    /\ at' = [at EXCEPT ![w] = "committed"]
    /\ UNCHANGED <<post, extra, prior, mode, plan, settled, runs, faults>>

\* _merge_supplier_products with nothing to merge.
NothingTouched(w) ==
    /\ at[w] = "committed"
    /\ Touched(w, row) = {}
    /\ at' = [at EXCEPT ![w] = "idle"]
    /\ UNCHANGED <<row, current, lock, post, extra, prior, mode, plan, settled,
                   runs, faults>>

\* The UPDATE of the merge reads its snapshot.
Rank(w) ==
    /\ at[w] = "committed"
    /\ Touched(w, row) # {}
    /\ plan' = [plan EXCEPT ![w] = Decide(w, mode[w], row, Touched(w, row))]
    /\ at' = [at EXCEPT ![w] = "ranked"]
    /\ UNCHANGED <<row, current, lock, post, extra, prior, mode, settled, runs, faults>>

\* The UPDATE writes and commits.  It waits for the row locks of an edit.
Apply(w) ==
    /\ at[w] = "ranked"
    /\ \A v \in Processes : at[v] = "editing" => Written(v) \cap Written(w) = {}
    /\ current' = AfterPlan(w)
    /\ settled' = Shown(row, current')
    /\ plan' = [plan EXCEPT ![w] = NoPlan]
    /\ at' = [at EXCEPT ![w] = "idle"]
    /\ UNCHANGED <<row, lock, post, extra, prior, mode, runs, faults>>

\* apply_transcription_edit deletes the item of p: under the lock it reads
\* the pairs, deletes and merges with the guard off, all in one transaction.
Edit(w, p) ==
    /\ at[w] = "idle"
    /\ lock[p] = Free
    /\ row[p] # NoRow
    /\ runs < MaxRuns
    /\ runs' = runs + 1
    /\ lock' = [lock EXCEPT ![p] = w]
    /\ at' = [at EXCEPT ![w] = "editing"]
    /\ post' = [post EXCEPT ![w] = p]
    /\ mode' = [mode EXCEPT ![w] = "unguarded"]
    /\ plan' = [plan EXCEPT ![w] = Decide(w, "unguarded", [row EXCEPT ![p] = NoRow],
                                          PairsIn(row, p))]
    /\ UNCHANGED <<row, current, extra, prior, settled, faults>>

\* The plan of another process names the deleted row by its id and no longer
\* reaches a row that is inserted in its place.
ForgetRow(pl, p) == [shown |-> pl.shown \ {p}, hidden |-> pl.hidden \ {p}]

\* The edit commits.
CommitEdit(w) ==
    /\ at[w] = "editing"
    /\ row' = [row EXCEPT ![post[w]] = NoRow]
    /\ current' = AfterPlan(w) \ {post[w]}
    /\ settled' = Shown(row', current')
    /\ lock' = [lock EXCEPT ![post[w]] = Free]
    /\ plan' = [v \in Processes |-> IF v = w THEN NoPlan ELSE ForgetRow(plan[v], post[w])]
    /\ at' = [at EXCEPT ![w] = "idle"]
    /\ UNCHANGED <<post, extra, prior, mode, runs, faults>>

\* An exception before the commit rolls the transaction back.  After it, the
\* rows stay and the merge is missing: Celery starts the analysis again, or a
\* later correction does.
BreakOff(w) ==
    /\ at[w] # "idle"
    /\ faults < MaxFaults
    /\ faults' = faults + 1
    /\ at' = [at EXCEPT ![w] = "idle"]
    /\ lock' = [p \in Posts |-> IF lock[p] = w THEN Free ELSE lock[p]]
    /\ plan' = [plan EXCEPT ![w] = NoPlan]
    /\ UNCHANGED <<row, current, post, extra, prior, mode, settled, runs>>

Step(w) ==
    \/ \E p \in Posts : Begin(w, p) \/ Edit(w, p)
    \/ \E x \in Outcomes : Write(w, x)
    \/ NothingTouched(w) \/ Rank(w) \/ Apply(w)
    \/ CommitEdit(w)
    \/ BreakOff(w)

\* One analysis or edit at a time, none broken off, every product known.
InOrder ==
    /\ \A v, w \in Processes : at[v] # "idle" /\ at[w] # "idle" => v = w
    /\ faults = 0
    /\ \A p \in Posts : row[p] # Unresolved

Next ==
    /\ \E w \in Processes : Step(w)
    /\ inTurn' = (inTurn /\ InOrder')

Spec == Init /\ [][Next]_vars

----------------------------------------------------------------------------
\* The variables have their types, and a lock is held exactly by the process
\* that is inside its transaction.
TypeOK ==
    /\ row \in [Posts -> Pairs \cup {Unresolved, NoRow}]
    /\ current \in SUBSET Posts
    /\ lock \in [Posts -> Processes \cup {Free}]
    /\ at \in [Processes -> Steps]
    /\ post \in [Processes -> Posts]
    /\ extra \in [Processes -> SUBSET Pairs]
    /\ prior \in [Processes -> SUBSET Pairs]
    /\ mode \in [Processes -> Modes]
    /\ plan \in [Processes -> [shown : SUBSET Posts, hidden : SUBSET Posts]]
    /\ settled \in SUBSET (Posts \X Pairs)
    /\ inTurn \in BOOLEAN
    /\ runs \in 0..MaxRuns
    /\ faults \in 0..MaxFaults
    /\ \A p \in Posts, w \in Processes :
          lock[p] = w <=> at[w] \in {"reading", "editing"} /\ post[w] = p

NewestPostIsShown == row[N] \in Pairs => N \in current

OldPostsAreHidden ==
    (\A w \in Processes : at[w] = "idle") =>
        \A p \in Posts :
            p \in current /\ row[p] \in Pairs => TopOfItsPair(row, p)

NothingRevived ==
    \A w \in Processes : at[w] = "ranked" /\ at'[w] = "idle" =>
        \A p \in current' :
            row[p] \in Pairs /\ <<p, row[p]>> \notin settled =>
                ~NewerSameProduct(row, p)

\* However analyses, merges and edits overlap, and wherever one of them is
\* broken off, the price of the newest post is shown once it is resolved:
\* no merge of another post, with an old snapshot, hides it.  While they
\* follow each other, and every product is known, a post does not stay
\* current for a pair that a newer post of the supplier has too (ADR-158,
\* _merge_supplier_products), and a merge shows a row that was not shown
\* before only if no newer post has the same product (ADR-1032).
NewerPostsWin ==
    /\ []NewestPostIsShown
    /\ [](inTurn => OldPostsAreHidden)
    /\ [][inTurn' => NothingRevived]_vars

=============================================================================
