----------------------------- MODULE LineImport -----------------------------
(***************************************************************************)
(* The import of LINE exports (import_line_export, _write_source_messages, *)
(* tcg_line_import_svc.py) by several uploads at once.  An upload is one   *)
(* transaction: what it writes is its own until it commits, and it waits   *)
(* for the locks of the others.                                            *)
(*                                                                         *)
(* A file is the sequence of its postings [name, time] after parsing and   *)
(* the window; the body of a posting stands for its time.  Names are       *)
(* numbered in the order of their supplier codes, channels in the order of *)
(* their ids.  The file lock, its check and the read of the suppliers are  *)
(* one step, and so are the statements under the lock of a channel.        *)
(* Sending the extraction after the commit is in ExtractionPipeline.       *)
(***************************************************************************)
EXTENDS Naturals, Sequences

CONSTANTS Files,       \* files that may be uploaded
          Postings,    \* Postings[f]: the sequence of its postings
          Uploads,     \* requests
          Known,       \* suppliers registered before
          Channelless, \* those of them that have lost their channel
          ChannelIds,  \* ids a channel may get
          MaxAborts    \* bound: requests that fail before their commit

PostingsIn(f) == {Postings[f][i] : i \in DOMAIN Postings[f]}
Posted == UNION {PostingsIn(f) : f \in Files}
Names == Known \cup {p.name : p \in Posted}
Times == {p.time : p \in Posted}

ImportAssumption ==
    /\ \A f \in Files : Postings[f] \in Seq([name : Nat, time : Nat])
    /\ Known \subseteq Nat
    /\ Channelless \subseteq Known
    /\ ChannelIds \subseteq Nat \ {0}
    /\ MaxAborts \in Nat

VARIABLES suppliers,  \* names of the registered suppliers
          channels,   \* {[id, name]}: their LINE channels
          stored,     \* {<<channel id, time>>}: source_messages
          active,     \* those of them with is_active = TRUE
          imports,    \* imports[f]: rows of import_jobs with the digest of f
          at, file,   \* at[u], file[u]: where upload u is, and its file
          todo,       \* todo[u]: the unknown names it still has to register
          entries,    \* entries[u]: names whose posting it still has to write
          target,     \* target[u]: the channel it has picked, or 0
          tx,         \* tx[u]: what its transaction has locked and written
          aborts

vars == <<suppliers, channels, stored, active, imports, at, file, todo,
          entries, target, tx, aborts>>

Channel == [id : ChannelIds, name : Names]
Message == ChannelIds \X Times

\* named: suppliers inserted or locked; held: channels locked; made, wrote,
\* closed: channels inserted, messages inserted, messages superseded.
EmptyTx == [named |-> {}, held |-> {}, made |-> {}, wrote |-> {}, closed |-> {}]

----------------------------------------------------------------------------
NamesIn(f) == {p.name : p \in PostingsIn(f)}

\* resolve_suppliers: the names without an active supplier.
UnknownOf(f) == NamesIn(f) \ suppliers

\* Of the names S, the one whose first posting in the file is the earliest.
FirstInFile(f, S) ==
    LET first == CHOOSE i \in DOMAIN Postings[f] :
                    /\ Postings[f][i].name \in S
                    /\ \A j \in 1..(i - 1) : Postings[f][j].name \notin S
    IN Postings[f][first].name

\* build_provider_entries: only the newest posting of each supplier.
NewestIn(f, n) ==
    CHOOSE t \in Times : /\ [name |-> n, time |-> t] \in PostingsIn(f)
                         /\ \A p \in PostingsIn(f) : p.name = n => p.time <= t

Smallest(S) == CHOOSE x \in S : \A y \in S : x <= y

\* Mutant of NextEntry: the suppliers are taken in the order of the file.
NextEntryOfFile(u) == FirstInFile(file[u], entries[u])

\* The entries are written in the order of their supplier codes.
NextEntry(u) == Smallest(entries[u])

\* What upload u sees: what is committed and what it has written.
ChannelsOf(u, n) == {c.id : c \in {d \in channels \cup tx[u].made : d.name = n}}
StoredSeenBy(u) == stored \cup tx[u].wrote
ActiveSeenBy(u) == (active \cup tx[u].wrote) \ tx[u].closed

UsedIds == {c.id : c \in channels \cup UNION {tx[v].made : v \in Uploads}}

\* Mutant of WaitsFor: the channel is read without FOR UPDATE.
WaitsForNames(u, v) ==
    /\ u # v
    /\ at[u] = "registering"
    /\ FirstInFile(file[u], todo[u]) \in tx[v].named

\* Whether u has to wait for v: for the unique index on line_name, or for the
\* row of a channel (FOR UPDATE).
WaitsFor(u, v) ==
    /\ u # v
    /\ \/ at[u] = "registering" /\ FirstInFile(file[u], todo[u]) \in tx[v].named
       \/ at[u] = "locking" /\ target[u] \in tx[v].held

\* Mutant of InCircle: PostgreSQL does not look for deadlocks.
InCircleNever(u) == FALSE

InCircle(u) ==
    \E S \in SUBSET Uploads :
        /\ u \in S
        /\ \A v \in S : \E w \in S : WaitsFor(v, w)

----------------------------------------------------------------------------
Init ==
    /\ suppliers = Known
    /\ \E id \in [Known \ Channelless -> ChannelIds] :
          /\ \A m, n \in Known \ Channelless : m < n => id[m] < id[n]
          /\ channels = {[id |-> id[n], name |-> n] : n \in Known \ Channelless}
    /\ stored = {}
    /\ active = {}
    /\ imports = [f \in Files |-> 0]
    /\ at = [u \in Uploads |-> "idle"]
    /\ file \in [Uploads -> Files]
    /\ todo = [u \in Uploads |-> {}]
    /\ entries = [u \in Uploads |-> {}]
    /\ target = [u \in Uploads |-> 0]
    /\ tx = [u \in Uploads |-> EmptyTx]
    /\ aborts = 0

\* The advisory lock of the digest, the check for an earlier import and the
\* read of the suppliers.
Start(u) ==
    /\ at[u] = "idle"
    /\ \A v \in Uploads : file[v] = file[u] => at[v] \in {"idle", "done"}
    /\ imports[file[u]] = 0
    /\ todo' = [todo EXCEPT ![u] = UnknownOf(file[u])]
    /\ entries' = [entries EXCEPT ![u] = NamesIn(file[u])]
    /\ at' = [at EXCEPT ![u] = IF UnknownOf(file[u]) # {} THEN "registering" ELSE "writing"]
    /\ UNCHANGED <<suppliers, channels, stored, active, imports, file, target, tx, aborts>>

\* The file was imported before: already_imported.
StartAgain(u) ==
    /\ at[u] = "idle"
    /\ imports[file[u]] > 0
    /\ at' = [at EXCEPT ![u] = "done"]
    /\ UNCHANGED <<suppliers, channels, stored, active, imports, file, todo,
                   entries, target, tx, aborts>>

\* An unknown name is inserted, or found inserted by now (ON CONFLICT), and a
\* channel is created for it in either case.
Register(u, id) ==
    /\ at[u] = "registering"
    /\ \A v \in Uploads : ~WaitsFor(u, v)
    /\ id \notin UsedIds
    /\ LET n == FirstInFile(file[u], todo[u])
       IN /\ tx' = [tx EXCEPT ![u].named = @ \cup {n},
                              ![u].made = @ \cup {[id |-> id, name |-> n]}]
          /\ todo' = [todo EXCEPT ![u] = @ \ {n}]
          /\ at' = [at EXCEPT ![u] = IF todo[u] = {n} THEN "writing" ELSE "registering"]
    /\ UNCHANGED <<suppliers, channels, stored, active, imports, file, entries,
                   target, aborts>>

\* The next supplier in the order of the codes, and its channel with the lowest
\* id in the snapshot of the statement.
Pick(u) ==
    /\ at[u] = "writing"
    /\ entries[u] # {}
    /\ ChannelsOf(u, NextEntry(u)) # {}
    /\ target' = [target EXCEPT ![u] = Smallest(ChannelsOf(u, NextEntry(u)))]
    /\ at' = [at EXCEPT ![u] = "locking"]
    /\ UNCHANGED <<suppliers, channels, stored, active, imports, file, todo,
                   entries, tx, aborts>>

\* It has no channel that u sees: one is created.
CreateChannel(u, id) ==
    /\ at[u] = "writing"
    /\ entries[u] # {}
    /\ ChannelsOf(u, NextEntry(u)) = {}
    /\ id \notin UsedIds
    /\ tx' = [tx EXCEPT ![u].made = @ \cup {[id |-> id, name |-> NextEntry(u)]}]
    /\ target' = [target EXCEPT ![u] = id]
    /\ at' = [at EXCEPT ![u] = "locking"]
    /\ UNCHANGED <<suppliers, channels, stored, active, imports, file, todo,
                   entries, aborts>>

\* A posting that is stored already is reused as it is; a new one supersedes
\* every active one of the channel.
Written(u, m) ==
    IF m \in StoredSeenBy(u)
      THEN [tx[u] EXCEPT !.held = @ \cup {target[u]}]
      ELSE [tx[u] EXCEPT !.held = @ \cup {target[u]},
                         !.wrote = @ \cup {m},
                         !.closed = @ \cup {o \in ActiveSeenBy(u) : o[1] = m[1]}]

\* The lock of the channel and the statements under it.
Store(u) ==
    /\ at[u] = "locking"
    /\ \A v \in Uploads : ~WaitsFor(u, v)
    /\ LET n == NextEntry(u)
       IN /\ tx' = [tx EXCEPT ![u] = Written(u, <<target[u], NewestIn(file[u], n)>>)]
          /\ entries' = [entries EXCEPT ![u] = @ \ {n}]
    /\ target' = [target EXCEPT ![u] = 0]
    /\ at' = [at EXCEPT ![u] = "writing"]
    /\ UNCHANGED <<suppliers, channels, stored, active, imports, file, todo, aborts>>

\* The commit: what the transaction wrote is seen by all, its locks are free.
Commit(u) ==
    /\ at[u] = "writing"
    /\ entries[u] = {}
    /\ suppliers' = suppliers \cup tx[u].named
    /\ channels' = channels \cup tx[u].made
    /\ stored' = StoredSeenBy(u)
    /\ active' = ActiveSeenBy(u)
    /\ imports' = [imports EXCEPT ![file[u]] = @ + 1]
    /\ tx' = [tx EXCEPT ![u] = EmptyTx]
    /\ at' = [at EXCEPT ![u] = "done"]
    /\ UNCHANGED <<file, todo, entries, target, aborts>>

\* The transaction is rolled back and the request fails.
RollBack(u) ==
    /\ tx' = [tx EXCEPT ![u] = EmptyTx]
    /\ todo' = [todo EXCEPT ![u] = {}]
    /\ entries' = [entries EXCEPT ![u] = {}]
    /\ target' = [target EXCEPT ![u] = 0]
    /\ UNCHANGED <<suppliers, channels, stored, active, imports, file>>

\* PostgreSQL ends one of the transactions that wait in a circle.
Victim(u) ==
    /\ InCircle(u)
    /\ at' = [at EXCEPT ![u] = "done"]
    /\ RollBack(u)
    /\ UNCHANGED aborts

\* A request fails for another reason; the file is uploaded again.
Abort(u) ==
    /\ at[u] \in {"registering", "locking", "writing"}
    /\ aborts < MaxAborts
    /\ aborts' = aborts + 1
    /\ at' = [at EXCEPT ![u] = "idle"]
    /\ RollBack(u)

Step(u) ==
    \/ Start(u)
    \/ StartAgain(u)
    \/ \E id \in ChannelIds : Register(u, id)
    \/ Pick(u)
    \/ \E id \in ChannelIds : CreateChannel(u, id)
    \/ Store(u)
    \/ Commit(u)

Next == \E u \in Uploads : Step(u) \/ Victim(u) \/ Abort(u)

Spec == Init /\ [][Next]_vars

----------------------------------------------------------------------------
\* The variables have their types; nobody holds a channel another one holds,
\* and no two open transactions have inserted or locked the same supplier.
TypeOK ==
    /\ suppliers \subseteq Names
    /\ channels \subseteq Channel
    /\ stored \subseteq Message
    /\ active \subseteq stored
    /\ imports \in [Files -> Nat]
    /\ at \in [Uploads -> {"idle", "registering", "writing", "locking", "done"}]
    /\ file \in [Uploads -> Files]
    /\ todo \in [Uploads -> SUBSET Names]
    /\ entries \in [Uploads -> SUBSET Names]
    /\ target \in [Uploads -> ChannelIds \cup {0}]
    /\ tx \in [Uploads -> [named : SUBSET Names, held : SUBSET ChannelIds,
                           made : SUBSET Channel, wrote : SUBSET Message,
                           closed : SUBSET Message]]
    /\ aborts \in 0..MaxAborts
    /\ \A u, v \in Uploads : u # v =>
          /\ tx[u].held \cap tx[v].held = {}
          /\ tx[u].named \cap tx[v].named = {}

NameOf(m) == (CHOOSE c \in channels : c.id = m[1]).name

\* A file is imported once, however often it is uploaded at the same time.
FileImportedOnce == \A f \in Files : imports[f] <= 1

\* Files that overlap, imported at once: a channel has one active message, the
\* one whose import locked the channel last.
OneActiveMessage ==
    /\ \A m, o \in active : m[1] = o[1] => m = o
    /\ \A m \in stored : \E o \in active : o[1] = m[1]

\* A posting is stored once, though several files contain it.
PostingStoredOnce ==
    \A m, o \in stored : m # o => <<NameOf(m), m[2]>> # <<NameOf(o), o[2]>>

\* A message that was superseded does not become active again ("Do not
\* reactivate historical messages or re-enqueue failed jobs").
HistoryStaysClosed == [][\A m \in stored \ active : m \notin active']_vars

\* Uploads do not wait for each other in a circle.
NobodyWaitsInACircle == \A u \in Uploads : ~InCircle(u)

=============================================================================
