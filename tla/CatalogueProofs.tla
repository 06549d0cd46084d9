--------------------------- MODULE CatalogueProofs ---------------------------
(***************************************************************************)
(* Theorems about the catalogue: the import of the postings (LineImport),  *)
(* for known suppliers; what people decide about an item (HumanDecisions); *)
(* and the current results (CurrentResults), for any number of files,      *)
(* uploads, requests, workers, posts, pairs, runs and failures.            *)
(***************************************************************************)
EXTENDS MCCatalogue, FiniteSetTheorems, WellFoundedInduction, TLAPS

-----------------------------------------------------------------------------
(* Numbers                                                                 *)

LEMMA MaximumExists ==
  ASSUME NEW n \in Nat, NEW S \in SUBSET (1..n), S # {}
  PROVE  \E m \in S : \A k \in S : k <= m
<1> DEFINE below == {n - k : k \in S}
           less == OpToRel(<, Nat)
<1>1. below \subseteq Nat /\ below # {}
  <2>1. \A k \in S : k \in 1..n /\ n - k \in Nat
    OBVIOUS
  <2> QED  BY <2>1
<1>2. PICK x \in below : \A y \in below : ~ (<<y, x>> \in less)
  <2> HIDE DEF below, less
  <2>1. IsWellFoundedOn(less, Nat)
    BY NatLessThanWellFounded DEF less
  <2> QED  BY <1>1, <2>1, WFMin
<1>3. ASSUME NEW y \in below  PROVE x <= y
  <2>1. x \in Nat /\ y \in Nat
    BY <1>1
  <2>2. ~ (<<y, x>> \in {ss \in Nat \X Nat : ss[1] < ss[2]})
    BY <1>2 DEF OpToRel
  <2> HIDE DEF below, less
  <2>3. ~ (y < x)
    BY <2>1, <2>2
  <2> QED  BY <2>1, <2>3
<1>4. PICK m \in S : x = n - m
  OBVIOUS
<1>5. ASSUME NEW k \in S  PROVE k <= m
  <2>1. n - m <= n - k
    BY <1>3, <1>4
  <2>2. k \in 1..n /\ m \in 1..n
    OBVIOUS
  <2> QED  BY <2>1, <2>2
<1> QED  BY <1>5

-----------------------------------------------------------------------------
(* The import of the postings                                              *)

LEMMA MinimumExists ==
  ASSUME NEW S \in SUBSET Nat, S # {}
  PROVE  Import!Smallest(S) \in S /\ \A k \in S : Import!Smallest(S) <= k
<1> DEFINE less == OpToRel(<, Nat)
<1>1. PICK x \in S : \A y \in S : ~ (<<y, x>> \in less)
  <2> HIDE DEF less
  <2>1. IsWellFoundedOn(less, Nat)
    BY NatLessThanWellFounded DEF less
  <2> QED
    BY <2>1, WFMin
<1>2. \A y \in S : x <= y
  <2> TAKE y \in S
  <2>1. ~ (<<y, x>> \in {ss \in Nat \X Nat : ss[1] < ss[2]})
    BY <1>1 DEF OpToRel
  <2>2. ~ (y < x)
    BY <2>1
  <2> QED
    BY <2>2
<1> QED
  BY <1>2 DEF Import!Smallest

(* A finite sequence of numbers has a bound.                               *)
LEMMA BoundExists ==
  ASSUME NEW n \in Nat, NEW s, \A i \in 1..n : s[i] \in Nat
  PROVE  \E b \in Nat : \A i \in 1..n : s[i] <= b
<1> DEFINE Bounded(k) == \E b \in Nat : \A i \in 1..k : s[i] <= b
           bad == {k \in 0..n : ~ Bounded(k)}
<1>1. n \notin bad => Bounded(n)
  OBVIOUS
<1>2. SUFFICES ASSUME bad # {} PROVE FALSE
  BY <1>1
<1>3. bad \in SUBSET Nat
  OBVIOUS
<1>4. PICK k \in bad : \A j \in bad : k <= j
  <2> HIDE DEF bad
  <2> QED
    BY <1>2, <1>3, MinimumExists
<1>5. k \in 0..n /\ ~ Bounded(k)
  BY <1>4
<1>6. CASE k = 0
  BY <1>5, <1>6
<1>7. CASE k # 0
  <2>1. k - 1 \in 0..n /\ ~ (k <= k - 1)
    BY <1>5, <1>7
  <2>2. Bounded(k - 1)
    BY <1>4, <2>1
  <2>3. PICK b \in Nat : \A i \in 1..(k - 1) : s[i] <= b
    BY <2>2
  <2>4. k \in 1..n /\ s[k] \in Nat
    BY <1>5, <1>7
  <2>5. \A i \in 1..k : s[i] <= b + s[k]
    <3> TAKE i \in 1..k
    <3>1. CASE i = k
      BY <2>4, <3>1
    <3>2. CASE i # k
      <4>1. i \in 1..(k - 1) /\ i \in 1..n
        BY <1>5, <2>4, <3>2
      <4>2. s[i] <= b /\ s[i] \in Nat
        BY <2>3, <4>1
      <4> QED
        BY <2>4, <4>2
    <3> QED
      BY <3>1, <3>2
  <2>6. b + s[k] \in Nat
    BY <2>4
  <2> QED
    BY <1>5, <2>5, <2>6
<1> QED
  BY <1>6, <1>7

LEMMA IdsAreBounded ==
  ASSUME Import!ImportAssumption, IsFiniteSet(ChannelIds)
  PROVE  \E m \in Nat : ChannelIds \subseteq 1..m
<1>1. /\ Cardinality(ChannelIds) \in Nat
      /\ ExistsBijection(1..Cardinality(ChannelIds), ChannelIds)
  BY FS_CardinalityType
<1>2. PICK s \in Bijection(1..Cardinality(ChannelIds), ChannelIds) : TRUE
  BY <1>1 DEF ExistsBijection
<1>3. /\ \A i \in 1..Cardinality(ChannelIds) : s[i] \in ChannelIds
      /\ \A c \in ChannelIds : \E i \in 1..Cardinality(ChannelIds) : s[i] = c
  BY <1>2 DEF Bijection, Injection, Surjection
<1>4. ChannelIds \subseteq Nat \ {0}
  BY DEF Import!ImportAssumption
<1>5. PICK m \in Nat : \A i \in 1..Cardinality(ChannelIds) : s[i] <= m
  BY <1>1, <1>3, <1>4, BoundExists
<1>6. \A c \in ChannelIds : c \in 1..m
  BY <1>3, <1>4, <1>5
<1> QED
  BY <1>6

(* The newest posting of a supplier is in the file.                        *)
LEMMA NewestExists ==
  ASSUME Import!ImportAssumption, NEW f \in DOMAIN Postings,
         NEW n \in Import!NamesIn(f)
  PROVE  Import!NewestIn(f, n) \in Import!Times
<1> DEFINE s == Postings[f]
           posting == [name : Nat, time : Nat]
           of == {p.time + 1 : p \in {q \in Import!PostingsIn(f) : q.name = n}}
<1>1. s \in Seq(posting)
  BY DEF Import!ImportAssumption
<1>2. /\ Len(s) \in Nat /\ DOMAIN s = 1..Len(s)
      /\ \A i \in 1..Len(s) : s[i] \in posting /\ s[i].time \in Nat
  <2> HIDE DEF s, posting
  <2>1. Len(s) \in Nat /\ DOMAIN s = 1..Len(s)
    BY <1>1
  <2>2. \A i \in 1..Len(s) : s[i] \in posting
    BY <1>1
  <2>3. \A r \in posting : r.time \in Nat
    BY DEF posting
  <2> QED
    BY <2>1, <2>2, <2>3
<1>3. PICK b \in Nat : \A i \in 1..Len(s) : s[i].time <= b
  <2> DEFINE t == [i \in 1..Len(s) |-> s[i].time]
  <2>1. \A i \in 1..Len(s) : t[i] \in Nat /\ t[i] = s[i].time
    BY <1>2
  <2> HIDE DEF t, s
  <2>2. \E b \in Nat : \A i \in 1..Len(s) : t[i] <= b
    BY <1>2, <2>1, BoundExists
  <2> QED
    BY <2>1, <2>2
<1>4. \A p \in Import!PostingsIn(f) : p.time \in Nat /\ p.time <= b
  BY <1>2, <1>3 DEF Import!PostingsIn
<1>5. of \in SUBSET (1..(b + 1)) /\ of # {}
  BY <1>4 DEF Import!NamesIn
<1>6. PICK m \in of : \A k \in of : k <= m
  <2> HIDE DEF of
  <2>1. b + 1 \in Nat
    OBVIOUS
  <2> QED
    BY <1>5, <2>1, MaximumExists
<1>7. PICK p \in Import!PostingsIn(f) : p.name = n /\ m = p.time + 1
  BY <1>6
<1>8. ASSUME NEW q \in Import!PostingsIn(f), q.name = n PROVE q.time <= p.time
  <2>1. q.time + 1 \in of
    BY <1>8
  <2>2. q.time + 1 <= p.time + 1
    BY <1>6, <1>7, <2>1
  <2> QED
    BY <1>4, <2>2
<1>9. p.time \in Import!Times
  BY DEF Import!Times, Import!Posted
<1>10. [name |-> n, time |-> p.time] \in Import!PostingsIn(f)
  <2>1. p \in [name : Nat, time : Nat]
    BY <1>1, <1>2 DEF Import!PostingsIn
  <2>2. p = [name |-> n, time |-> p.time]
    BY <1>7, <2>1
  <2> QED
    BY <2>2
<1> QED
  BY <1>8, <1>9, <1>10 DEF Import!NewestIn

-----------------------------------------------------------------------------
(* The inductive invariant, when every supplier is known                   *)

KnownOnly == \A f \in DOMAIN Postings : Import!NamesIn(f) \subseteq Known

(* The channels stay as they are, and their ids are in the order of the    *)
(* names.                                                                  *)
ChannelsAreFixed ==
  /\ suppliers = Known
  /\ channels \subseteq [id : ChannelIds, name : Known]
  /\ \A n \in Known : \E c \in channels : c.name = n
  /\ \A c, d \in channels : c.name = d.name => c = d
  /\ \A c, d \in channels : c.name < d.name => c.id < d.id
  /\ \A m \in stored : \E c \in channels : c.id = m[1]

Transaction == [named : {{}}, held : SUBSET ChannelIds, made : {{}},
                wrote : SUBSET Import!Message, closed : SUBSET Import!Message]

ImportTypes ==
  /\ imports \in [DOMAIN Postings -> Nat]
  /\ uploadAt \in [Uploads -> {"idle", "writing", "locking", "done"}]
  /\ file \in [Uploads -> DOMAIN Postings]
  /\ todo = [u \in Uploads |-> {}]
  /\ entries \in [Uploads -> SUBSET Known]
  /\ target \in [Uploads -> ChannelIds \cup {0}]
  /\ tx \in [Uploads -> Transaction]
  /\ aborts \in 0..MaxAborts
  /\ stored \subseteq Import!Message /\ active \subseteq stored

Working(u) == uploadAt[u] \in {"writing", "locking"}

(* What an upload still has to write comes after all that it has locked.   *)
EntriesAreInOrder ==
  \A u \in Uploads :
    /\ entries[u] \subseteq Import!NamesIn(file[u])
    /\ ~ Working(u) => tx[u] = Import!EmptyTx
    /\ uploadAt[u] = "locking" =>
         /\ entries[u] # {}
         /\ \E c \in channels :
              c.id = target[u] /\ c.name = Import!NextEntry(u)
    /\ \A i \in tx[u].held :
         \E c \in channels : c.id = i /\ \A n \in entries[u] : c.name < n

HeldApart == \A u, v \in Uploads : u # v => tx[u].held \cap tx[v].held = {}

(* What a transaction has written is new and of a channel it holds, one    *)
(* message each, and it supersedes what is active there.                   *)
WritesAreOwn ==
  \A u \in Uploads :
    /\ \A m \in tx[u].wrote : m \notin stored /\ m[1] \in tx[u].held
    /\ \A m, o \in tx[u].wrote : m[1] = o[1] => m = o
    /\ tx[u].closed \subseteq active
    /\ \A o \in tx[u].closed :
         o[1] \in tx[u].held /\ \E m \in tx[u].wrote : m[1] = o[1]
    /\ \A m \in tx[u].wrote, o \in active : o[1] = m[1] => o \in tx[u].closed

FilesAreLocked ==
  /\ \A u, v \in Uploads : Working(u) /\ Working(v) /\ file[u] = file[v] =>
       u = v
  /\ \A u \in Uploads : Working(u) => imports[file[u]] = 0
  /\ Import!FileImportedOnce

ImportInv ==
  /\ ChannelsAreFixed /\ ImportTypes /\ EntriesAreInOrder /\ HeldApart
  /\ WritesAreOwn /\ FilesAreLocked /\ Import!OneActiveMessage

-----------------------------------------------------------------------------
(* What an upload sees                                                     *)

LEMMA NamesAreNumbers ==
  ASSUME Import!ImportAssumption, KnownOnly
  PROVE  /\ Known \subseteq Nat /\ ChannelIds \subseteq Nat \ {0}
         /\ Import!Names = Known
         /\ \A f \in DOMAIN Postings : Import!NamesIn(f) \subseteq Known
<1>1. \A p \in Import!Posted : p.name \in Known
  BY DEF Import!Posted, KnownOnly, Import!NamesIn
<1> QED
  BY <1>1 DEF Import!ImportAssumption, KnownOnly, Import!Names

LEMMA OneChannel ==
  ASSUME Import!ImportAssumption, KnownOnly, ImportInv, NEW c \in channels,
         NEW d \in channels
  PROVE  /\ c.id \in ChannelIds /\ c.id \in Nat
         /\ c.name \in Known /\ c.name \in Nat
         /\ c.name = d.name <=> c.id = d.id
         /\ c.name < d.name <=> c.id < d.id
<1>1. /\ c.id \in Nat /\ d.id \in Nat /\ c.name \in Nat /\ d.name \in Nat
      /\ c.id \in ChannelIds /\ c.name \in Known
      /\ c \in [id : ChannelIds, name : Known] /\
           d \in [id : ChannelIds, name : Known]
  BY NamesAreNumbers DEF ImportInv, ChannelsAreFixed
<1>2. c.name < d.name => c.id < d.id
  BY DEF ImportInv, ChannelsAreFixed
<1>3. d.name < c.name => d.id < c.id
  BY DEF ImportInv, ChannelsAreFixed
<1>4. c.name = d.name => c.id = d.id
  <2>1. SUFFICES ASSUME c.name = d.name PROVE c.id = d.id
    OBVIOUS
  <2> QED
    BY <2>1 DEF ImportInv, ChannelsAreFixed
<1> QED
  BY <1>1, <1>2, <1>3, <1>4

LEMMA NextIsLeast ==
  ASSUME Import!ImportAssumption, KnownOnly, ImportInv,
         NEW u \in Uploads, entries[u] # {}
  PROVE  /\ Import!NextEntry(u) \in entries[u] /\ Import!NextEntry(u) \in Known
         /\ Import!NextEntry(u) \in Import!NamesIn(file[u])
         /\ \A n \in entries[u] : n # Import!NextEntry(u) =>
              Import!NextEntry(u) < n
<1>1. /\ entries[u] \subseteq Known
      /\ entries[u] \subseteq Import!NamesIn(file[u]) /\ Known \subseteq Nat
  BY NamesAreNumbers DEF ImportInv, ImportTypes, EntriesAreInOrder
<1>2. /\ Import!NextEntry(u) \in entries[u]
      /\ \A n \in entries[u] : Import!NextEntry(u) <= n
  BY <1>1, MinimumExists DEF Import!NextEntry
<1>3. ASSUME NEW n \in entries[u], n # Import!NextEntry(u)
      PROVE Import!NextEntry(u) < n
  <2>1. n \in Nat /\ Import!NextEntry(u) \in Nat /\ Import!NextEntry(u) <= n
    BY <1>1, <1>2
  <2> QED
    BY <1>3, <2>1
<1> QED
  BY <1>1, <1>2, <1>3

(* The one channel of the next supplier.                                   *)
LEMMA PickedChannel ==
  ASSUME Import!ImportAssumption, KnownOnly, ImportInv,
         NEW u \in Uploads, entries[u] # {}
  PROVE  \E c \in channels : /\ c.name = Import!NextEntry(u)
                             /\ Import!ChannelsOf(u, Import!NextEntry(u)) =
                                  {c.id}
                             /\ Import!Smallest(Import!ChannelsOf(u,
                                  Import!NextEntry(u))) = c.id
<1>1. PICK c \in channels : c.name = Import!NextEntry(u)
  BY NextIsLeast DEF ImportInv, ChannelsAreFixed
<1>2. tx[u].made = {}
  BY DEF ImportInv, ImportTypes, Transaction
<1>3. \A d \in channels : d.name = Import!NextEntry(u) => d = c
  BY <1>1 DEF ImportInv, ChannelsAreFixed
<1>4. Import!ChannelsOf(u, Import!NextEntry(u)) = {c.id}
  BY <1>1, <1>2, <1>3 DEF Import!ChannelsOf
<1>5. c.id \in Nat
  BY OneChannel
<1>6. Import!Smallest({c.id}) = c.id
  BY <1>5, MinimumExists
<1> QED
  BY <1>1, <1>4, <1>6

(* No supplier is unknown and none is without a channel.                   *)
LEMMA NothingIsRegistered ==
  ASSUME Import!ImportAssumption, KnownOnly, ImportInv, NEW u \in Uploads
  PROVE  /\ Import!UnknownOf(file[u]) = {}
         /\ \A id \in ChannelIds :
              ~ Import!Register(u, id) /\ ~ Import!CreateChannel(u, id)
<1>1. Import!UnknownOf(file[u]) = {}
  BY NamesAreNumbers DEF ImportInv, ImportTypes, ChannelsAreFixed,
    Import!UnknownOf
<1>2. uploadAt[u] # "registering"
  BY DEF ImportInv, ImportTypes
<1>3. entries[u] # {} => Import!ChannelsOf(u, Import!NextEntry(u)) # {}
  BY PickedChannel
<1> QED
  BY <1>1, <1>2, <1>3 DEF Import!Register, Import!CreateChannel

(* The locked channel is the target, and the upload did not hold it.       *)
LEMMA TargetIsNew ==
  ASSUME Import!ImportAssumption, KnownOnly, ImportInv,
         NEW u \in Uploads, uploadAt[u] = "locking"
  PROVE  target[u] \notin tx[u].held
<1>1. entries[u] # {}
  BY DEF ImportInv, EntriesAreInOrder
<1>2. PICK c \in channels : c.id = target[u] /\ c.name = Import!NextEntry(u)
  BY DEF ImportInv, EntriesAreInOrder
<1>3. SUFFICES ASSUME target[u] \in tx[u].held PROVE FALSE
  OBVIOUS
<1>4. PICK d \in channels : d.id = target[u] /\ d.name < Import!NextEntry(u)
  BY <1>1, <1>3, NextIsLeast DEF ImportInv, EntriesAreInOrder
<1>5. c.name = d.name /\ c.name \in Nat
  BY <1>2, <1>4, OneChannel
<1> QED
  BY <1>2, <1>4, <1>5

-----------------------------------------------------------------------------
(* The steps                                                               *)

LEMMA StartKeeps ==
  ASSUME Import!ImportAssumption, KnownOnly, ImportInv, NEW u \in Uploads,
         Import!Start(u) \/ Import!StartAgain(u)
  PROVE  ImportInv'
<1>1. CASE Import!Start(u)
  <2>1. /\ Import!UnknownOf(file[u]) = {}
        /\ Import!NamesIn(file[u]) \subseteq Known
    BY NothingIsRegistered, NamesAreNumbers DEF ImportInv, ImportTypes
  <2>2. /\ uploadAt' = [uploadAt EXCEPT ![u] = "writing"]
        /\ todo' = todo
        /\ entries' = [entries EXCEPT ![u] = Import!NamesIn(file[u])]
        /\ uploadAt[u] = "idle" /\ imports[file[u]] = 0
        /\ \A v \in Uploads : file[v] = file[u] =>
             uploadAt[v] \in {"idle", "done"}
        /\ UNCHANGED <<suppliers, channels, stored, active, imports, file,
             target, tx, aborts>>
    BY <1>1, <2>1 DEF Import!Start, ImportInv, ImportTypes
  <2>3. tx[u] = Import!EmptyTx
    BY <2>2 DEF ImportInv, EntriesAreInOrder, Working
  <2>4. /\ ChannelsAreFixed' /\ HeldApart' /\ Import!OneActiveMessage'
        /\ WritesAreOwn'
    BY <2>2 DEF ImportInv, ChannelsAreFixed, HeldApart,
      Import!OneActiveMessage, WritesAreOwn
  <2>5. ImportTypes'
    BY <2>1, <2>2 DEF ImportInv, ImportTypes
  <2>6. EntriesAreInOrder'
    <3> SUFFICES ASSUME NEW v \in Uploads
                 PROVE  (/\ entries[v] \subseteq Import!NamesIn(file[v])
                         /\ ~ Working(v) => tx[v] = Import!EmptyTx
                         /\ uploadAt[v] = "locking" =>
                              /\ entries[v] # {}
                              /\ \E c \in channels :
                                   /\ c.id = target[v]
                                   /\ c.name = Import!NextEntry(v)
                         /\ \A i \in tx[v].held :
                              \E c \in channels :
                                c.id = i /\ \A n \in entries[v] : c.name < n)'
      BY DEF EntriesAreInOrder
    <3>1. CASE v = u
      BY <2>2, <2>3, <3>1 DEF ImportInv, ImportTypes, EntriesAreInOrder,
        Working, Import!EmptyTx
    <3>2. CASE v # u
      <4>1. /\ uploadAt'[v] = uploadAt[v] /\ entries'[v] = entries[v]
            /\ UNCHANGED <<tx, file, target, channels>>
        BY <2>2, <3>2 DEF ImportInv, ImportTypes
      <4> QED
        BY <4>1 DEF ImportInv, EntriesAreInOrder, Working, Import!NextEntry
    <3> QED
      BY <3>1, <3>2
  <2>7. FilesAreLocked'
    BY <2>2 DEF ImportInv, ImportTypes, FilesAreLocked, Working,
      Import!FileImportedOnce
  <2> QED
    BY <2>4, <2>5, <2>6, <2>7 DEF ImportInv
<1>2. CASE Import!StartAgain(u)
  <2>1. /\ uploadAt' = [uploadAt EXCEPT ![u] = "done"]
        /\ uploadAt[u] = "idle"
        /\ UNCHANGED <<suppliers, channels, stored, active, imports, file,
             todo, entries, target, tx, aborts>>
    BY <1>2 DEF Import!StartAgain
  <2>2. /\ ChannelsAreFixed' /\ HeldApart' /\ Import!OneActiveMessage'
        /\ WritesAreOwn'
    BY <2>1 DEF ImportInv, ChannelsAreFixed, HeldApart,
      Import!OneActiveMessage, WritesAreOwn
  <2>3. ImportTypes'
    BY <2>1 DEF ImportInv, ImportTypes
  <2>4. EntriesAreInOrder' /\ FilesAreLocked'
    BY <2>1 DEF ImportInv, ImportTypes, EntriesAreInOrder, Working,
      Import!NextEntry, FilesAreLocked, Import!FileImportedOnce
  <2> QED
    BY <2>2, <2>3, <2>4 DEF ImportInv
<1> QED
  BY <1>1, <1>2

LEMMA PickKeeps ==
  ASSUME Import!ImportAssumption, KnownOnly, ImportInv, NEW u \in Uploads,
         Import!Pick(u)
  PROVE  ImportInv'
<1>1. PICK c \in channels : /\ c.name = Import!NextEntry(u)
                            /\ Import!Smallest(Import!ChannelsOf(u,
                                 Import!NextEntry(u))) = c.id
  BY PickedChannel DEF Import!Pick
<1>2. c.id \in ChannelIds
  BY OneChannel
<1>3. /\ uploadAt[u] = "writing" /\ entries[u] # {}
      /\ target' = [target EXCEPT ![u] = c.id]
      /\ uploadAt' = [uploadAt EXCEPT ![u] = "locking"]
      /\ UNCHANGED <<suppliers, channels, stored, active, imports, file, todo,
           entries, tx, aborts>>
  BY <1>1 DEF Import!Pick
<1>4. /\ ChannelsAreFixed' /\ HeldApart' /\ Import!OneActiveMessage'
      /\ WritesAreOwn'
  BY <1>3 DEF ImportInv, ChannelsAreFixed, HeldApart, Import!OneActiveMessage,
    WritesAreOwn
<1>5. ImportTypes'
  BY <1>2, <1>3 DEF ImportInv, ImportTypes
<1>6. EntriesAreInOrder'
  BY <1>1, <1>3 DEF ImportInv, ImportTypes, EntriesAreInOrder, Working,
    Import!NextEntry
<1>7. FilesAreLocked'
  BY <1>3 DEF ImportInv, ImportTypes, FilesAreLocked, Working,
    Import!FileImportedOnce
<1> QED
  BY <1>4, <1>5, <1>6, <1>7 DEF ImportInv

LEMMA StoreKeeps ==
  ASSUME Import!ImportAssumption, KnownOnly, ImportInv, NEW u \in Uploads,
         Import!Store(u)
  PROVE  ImportInv'
<1> DEFINE m == <<target[u], Import!NewestIn(file[u], Import!NextEntry(u))>>
           n == Import!NextEntry(u)
<1>1. /\ uploadAt[u] = "locking" /\ entries[u] # {}
      /\ \A v \in Uploads : v # u => target[u] \notin tx[v].held
      /\ tx' = [tx EXCEPT ![u] = Import!Written(u, m)]
      /\ entries' = [entries EXCEPT ![u] = @ \ {n}]
      /\ target' = [target EXCEPT ![u] = 0]
      /\ uploadAt' = [uploadAt EXCEPT ![u] = "writing"]
      /\ UNCHANGED <<suppliers, channels, stored, active, imports, file, todo,
           aborts>>
  BY DEF Import!Store, Import!WaitsFor, ImportInv, EntriesAreInOrder
<1>2. target[u] \notin tx[u].held
  BY <1>1, TargetIsNew
<1>3. /\ n \in entries[u] /\ n \in Known /\ n \in Import!NamesIn(file[u])
      /\ \A k \in entries[u] : k # n => n < k
  BY <1>1, NextIsLeast
<1>4. PICK c \in channels : c.id = target[u] /\ c.name = n
  BY <1>1 DEF ImportInv, EntriesAreInOrder
<1>5. target[u] \in ChannelIds
  BY <1>4, OneChannel
<1>6. m \in Import!Message /\ m[1] = target[u]
  BY <1>3, <1>5, NewestExists DEF Import!Message, ImportInv, ImportTypes
<1>7. tx[u] \in Transaction /\ active \subseteq Import!Message
  BY DEF ImportInv, ImportTypes
<1> DEFINE w == Import!Written(u, m)
<1>8. /\ w \in Transaction
      /\ w.held = tx[u].held \cup {target[u]}
      /\ \/ m \in Import!StoredSeenBy(u) /\ w.wrote = tx[u].wrote /\
              w.closed = tx[u].closed
         \/ /\ m \notin Import!StoredSeenBy(u)
            /\ w.wrote = tx[u].wrote \cup {m}
            /\ w.closed = tx[u].closed \cup
                 {o \in Import!ActiveSeenBy(u) : o[1] = target[u]}
  <2>1. Import!ActiveSeenBy(u) \subseteq Import!Message
    BY <1>7 DEF Import!ActiveSeenBy, Transaction
  <2>2. CASE m \in Import!StoredSeenBy(u)
    <3>1. w = [tx[u] EXCEPT !.held = @ \cup {target[u]}]
      BY <2>2 DEF Import!Written
    <3> HIDE DEF m, w
    <3> QED
      BY <1>5, <1>7, <2>2, <3>1 DEF Transaction
  <2>3. CASE m \notin Import!StoredSeenBy(u)
    <3>1. w = [tx[u] EXCEPT !.held = @ \cup {target[u]},
                         !.wrote = @ \cup {m},
                         !.closed = @ \cup {o \in Import!ActiveSeenBy(u) :
                                               o[1] = target[u]}]
      BY <1>6, <2>3 DEF Import!Written
    <3> HIDE DEF m, w
    <3> QED
      BY <1>5, <1>6, <1>7, <2>1, <2>3, <3>1 DEF Transaction
  <2> QED
    BY <2>2, <2>3
<1> HIDE DEF m, w, n
<1>9. /\ tx' \in [Uploads -> Transaction]
      /\ tx'[u] = w /\ uploadAt'[u] = "writing"
      /\ entries'[u] = entries[u] \ {n}
      /\ \A v \in Uploads : v # u => /\ tx'[v] = tx[v] /\
                                          uploadAt'[v] = uploadAt[v]
                                     /\ entries'[v] = entries[v]
                                     /\ target'[v] = target[v]
  BY <1>1, <1>8 DEF w, ImportInv, ImportTypes
<1>10. ChannelsAreFixed' /\ Import!OneActiveMessage'
  BY <1>1 DEF ImportInv, ChannelsAreFixed, Import!OneActiveMessage
<1>11. ImportTypes'
  BY <1>1, <1>9 DEF ImportInv, ImportTypes
<1>12. HeldApart'
  <2> SUFFICES ASSUME NEW v1 \in Uploads, NEW v2 \in Uploads, v1 # v2
               PROVE  tx'[v1].held \cap tx'[v2].held = {}
    BY DEF HeldApart
  <2>1. tx[v1].held \cap tx[v2].held = {}
    BY DEF ImportInv, HeldApart
  <2>2. CASE v1 = u
    BY <1>1, <1>8, <1>9, <2>1, <2>2
  <2>3. CASE v2 = u
    BY <1>1, <1>8, <1>9, <2>1, <2>3
  <2>4. CASE v1 # u /\ v2 # u
    BY <1>9, <2>1, <2>4
  <2> QED
    BY <2>2, <2>3, <2>4
<1>13. EntriesAreInOrder'
  <2> SUFFICES ASSUME NEW v \in Uploads
               PROVE  (/\ entries[v] \subseteq Import!NamesIn(file[v])
                       /\ ~ Working(v) => tx[v] = Import!EmptyTx
                       /\ uploadAt[v] = "locking" =>
                            /\ entries[v] # {}
                            /\ \E d \in channels :
                                 /\ d.id = target[v]
                                 /\ d.name = Import!NextEntry(v)
                       /\ \A i \in tx[v].held :
                            \E d \in channels :
                              d.id = i /\ \A k \in entries[v] : d.name < k)'
    BY DEF EntriesAreInOrder
  <2>1. CASE v # u
    BY <1>1, <1>9, <2>1 DEF ImportInv, EntriesAreInOrder, Working,
      Import!NextEntry
  <2>2. CASE v = u
    <3>1. /\ entries'[u] \subseteq Import!NamesIn(file'[u]) /\ Working(u)'
          /\ uploadAt'[u] # "locking"
      BY <1>1, <1>9 DEF ImportInv, EntriesAreInOrder, Working
    <3>2. ASSUME NEW i \in tx'[u].held
          PROVE  \E d \in channels : d.id = i /\ \A k \in entries'[u] :
                   d.name < k
      <4>1. CASE i = target[u]
        BY <1>3, <1>4, <1>9, <4>1
      <4>2. CASE i \in tx[u].held
        BY <1>9, <4>2 DEF ImportInv, EntriesAreInOrder
      <4> QED
        BY <1>8, <1>9, <3>2, <4>1, <4>2
    <3> QED
      BY <1>1, <2>2, <3>1, <3>2
  <2> QED
    BY <2>1, <2>2
<1>14. FilesAreLocked'
  BY <1>1, <1>9 DEF ImportInv, FilesAreLocked, Working, Import!FileImportedOnce
<1>15. WritesAreOwn'
  <2> SUFFICES ASSUME NEW v \in Uploads
               PROVE  (/\ \A p \in tx[v].wrote :
                         p \notin stored /\ p[1] \in tx[v].held
                       /\ \A p, o \in tx[v].wrote : p[1] = o[1] => p = o
                       /\ tx[v].closed \subseteq active
                       /\ \A o \in tx[v].closed : /\ o[1] \in tx[v].held
                                                  /\ \E p \in tx[v].wrote :
                                                       p[1] = o[1]
                       /\ \A p \in tx[v].wrote, o \in active : o[1] = p[1] =>
                            o \in tx[v].closed)'
    BY DEF WritesAreOwn
  <2>1. CASE v # u
    BY <1>1, <1>9, <2>1 DEF ImportInv, WritesAreOwn
  <2>2. CASE v = u /\ m \in Import!StoredSeenBy(u) /\ w.wrote = tx[u].wrote /\
               w.closed = tx[u].closed
    BY <1>1, <1>8, <1>9, <2>2 DEF ImportInv, WritesAreOwn
  <2>3. CASE /\ v = u /\ m \notin Import!StoredSeenBy(u)
             /\ w.wrote = tx[u].wrote \cup {m}
             /\ w.closed =
                  tx[u].closed \cup
                    {o \in Import!ActiveSeenBy(u) : o[1] = target[u]}
    <3>1. \A p \in tx[u].wrote : p[1] # target[u]
      BY <1>2 DEF ImportInv, WritesAreOwn
    <3>2. \A o \in tx[u].closed : o[1] # target[u]
      BY <1>2 DEF ImportInv, WritesAreOwn
    <3>3. \A o : o \in Import!ActiveSeenBy(u) /\ o[1] = target[u] <=>
            o \in active /\ o[1] = target[u]
      BY <3>1, <3>2 DEF Import!ActiveSeenBy
    <3>4. m \notin stored
      BY <2>3 DEF Import!StoredSeenBy
    <3>5. \A p \in w.wrote : p \notin stored /\ p[1] \in w.held
      BY <1>6, <1>8, <2>3, <3>4 DEF ImportInv, WritesAreOwn
    <3>6. \A p, o \in w.wrote : p[1] = o[1] => p = o
      BY <1>6, <2>3, <3>1 DEF ImportInv, WritesAreOwn
    <3>7. w.closed \subseteq active
      BY <2>3, <3>3 DEF ImportInv, WritesAreOwn
    <3>8. \A o \in w.closed : o[1] \in w.held /\ \E p \in w.wrote : p[1] = o[1]
      BY <1>6, <1>8, <2>3 DEF ImportInv, WritesAreOwn
    <3>9. \A p \in w.wrote, o \in active : o[1] = p[1] => o \in w.closed
      BY <1>6, <2>3, <3>3 DEF ImportInv, WritesAreOwn
    <3> QED
      BY <1>1, <1>9, <2>3, <3>5, <3>6, <3>7, <3>8, <3>9
  <2> QED
    BY <1>8, <2>1, <2>2, <2>3
<1> QED
  BY <1>10, <1>11, <1>12, <1>13, <1>14, <1>15 DEF ImportInv


LEMMA CommitKeeps ==
  ASSUME Import!ImportAssumption, KnownOnly, ImportInv, NEW u \in Uploads,
         Import!Commit(u)
  PROVE  ImportInv' /\ \A m \in stored \ active : m \notin active'
<1> DEFINE wrote == tx[u].wrote
           closed == tx[u].closed
<1>1. /\ uploadAt[u] = "writing" /\ entries[u] = {}
      /\ suppliers' = suppliers /\ channels' = channels
      /\ stored' = stored \cup wrote
      /\ active' = (active \cup wrote) \ closed
      /\ imports' = [imports EXCEPT ![file[u]] = 1]
      /\ tx' = [tx EXCEPT ![u] = Import!EmptyTx]
      /\ uploadAt' = [uploadAt EXCEPT ![u] = "done"]
      /\ UNCHANGED <<file, todo, entries, target, aborts>>
  <2>1. tx[u].named = {} /\ tx[u].made = {}
    BY DEF ImportInv, ImportTypes, Transaction
  <2>2. file[u] \in DOMAIN Postings /\ imports[file[u]] = 0
    BY DEF Import!Commit, ImportInv, ImportTypes, FilesAreLocked, Working
  <2> QED
    BY <2>1, <2>2 DEF Import!Commit, Import!StoredSeenBy, Import!ActiveSeenBy
<1>2. /\ wrote \subseteq Import!Message /\ closed \subseteq Import!Message
      /\ \A m \in wrote : m \notin stored /\ m[1] \in tx[u].held
      /\ \A m, o \in wrote : m[1] = o[1] => m = o
      /\ closed \subseteq active /\ active \subseteq stored
      /\ \A o \in closed : o[1] \in tx[u].held /\ \E m \in wrote : m[1] = o[1]
      /\ \A m \in wrote, o \in active : o[1] = m[1] => o \in closed
  BY DEF ImportInv, ImportTypes, Transaction, WritesAreOwn
<1>3. /\ \A m, o \in active : m[1] = o[1] => m = o
      /\ \A m \in stored : \E o \in active : o[1] = m[1]
  BY DEF ImportInv, Import!OneActiveMessage
<1>4. \A i \in tx[u].held : \E c \in channels : c.id = i
  BY DEF ImportInv, EntriesAreInOrder
<1>5. /\ tx'[u] = Import!EmptyTx /\ uploadAt'[u] = "done"
      /\ \A v \in Uploads : v # u =>
           tx'[v] = tx[v] /\ uploadAt'[v] = uploadAt[v]
  BY <1>1 DEF ImportInv, ImportTypes
<1> HIDE DEF wrote, closed
<1>6. ChannelsAreFixed'
  BY <1>1, <1>2, <1>4 DEF ImportInv, ChannelsAreFixed
<1>7. ImportTypes'
  <2>1. Import!EmptyTx \in Transaction
    BY DEF Import!EmptyTx, Transaction
  <2>2. stored' \subseteq Import!Message /\ active' \subseteq stored'
    BY <1>1, <1>2 DEF ImportInv, ImportTypes
  <2> QED
    BY <1>1, <2>1, <2>2 DEF ImportInv, ImportTypes
<1>8. EntriesAreInOrder'
  <2>1. Import!EmptyTx.held = {}
    BY DEF Import!EmptyTx
  <2> QED
    BY <1>1, <1>5, <2>1 DEF ImportInv, EntriesAreInOrder, Working,
      Import!NextEntry
<1>9. HeldApart'
  <2>1. Import!EmptyTx.held = {}
    BY DEF Import!EmptyTx
  <2> SUFFICES ASSUME NEW v1 \in Uploads, NEW v2 \in Uploads, v1 # v2
               PROVE  tx'[v1].held \cap tx'[v2].held = {}
    BY DEF HeldApart
  <2>2. tx[v1].held \cap tx[v2].held = {}
    BY DEF ImportInv, HeldApart
  <2> QED
    BY <1>5, <2>1, <2>2
<1>10. WritesAreOwn'
  <2> SUFFICES ASSUME NEW v \in Uploads
               PROVE  (/\ \A p \in tx[v].wrote :
                         p \notin stored /\ p[1] \in tx[v].held
                       /\ \A p, o \in tx[v].wrote : p[1] = o[1] => p = o
                       /\ tx[v].closed \subseteq active
                       /\ \A o \in tx[v].closed : /\ o[1] \in tx[v].held
                                                  /\ \E p \in tx[v].wrote :
                                                       p[1] = o[1]
                       /\ \A p \in tx[v].wrote, o \in active : o[1] = p[1] =>
                            o \in tx[v].closed)'
    BY DEF WritesAreOwn
  <2>1. CASE v = u
    BY <1>5, <2>1 DEF Import!EmptyTx
  <2>2. CASE v # u
    <3>1. tx[v].held \cap tx[u].held = {} /\ tx'[v] = tx[v]
      BY <1>5, <2>2 DEF ImportInv, HeldApart
    <3>2. /\ \A p \in tx[v].wrote : p \notin stored /\ p[1] \in tx[v].held
          /\ \A p, o \in tx[v].wrote : p[1] = o[1] => p = o
          /\ tx[v].closed \subseteq active
          /\ \A o \in tx[v].closed : /\ o[1] \in tx[v].held
                                     /\ \E p \in tx[v].wrote : p[1] = o[1]
          /\ \A p \in tx[v].wrote, o \in active : o[1] = p[1] =>
               o \in tx[v].closed
      BY DEF ImportInv, WritesAreOwn
    <3>3. \A p \in tx[v].wrote : p \notin stored'
      BY <1>1, <1>2, <3>1, <3>2
    <3>4. tx[v].closed \subseteq active'
      BY <1>1, <1>2, <3>1, <3>2
    <3>5. \A p \in tx[v].wrote, o \in active' : o[1] = p[1] =>
            o \in tx[v].closed
      BY <1>1, <1>2, <3>1, <3>2
    <3> QED
      BY <3>1, <3>2, <3>3, <3>4, <3>5
  <2> QED
    BY <2>1, <2>2
<1>11. FilesAreLocked'
  <2>1. \A v \in Uploads : v # u /\ Working(v) => file[v] # file[u]
    BY <1>1 DEF ImportInv, FilesAreLocked, Working
  <2> QED
    BY <1>1, <1>5, <2>1 DEF ImportInv, ImportTypes, FilesAreLocked, Working,
      Import!FileImportedOnce
<1>12. Import!OneActiveMessage'
  <2>1. ASSUME NEW m \in active', NEW o \in active', m[1] = o[1]
        PROVE  m = o
    <3>1. CASE m \in active /\ o \in active
      BY <1>3, <2>1, <3>1
    <3>2. CASE m \in wrote /\ o \in wrote
      BY <1>2, <2>1, <3>2
    <3>3. CASE m \in wrote /\ o \in active
      BY <1>1, <1>2, <2>1, <3>3
    <3>4. CASE m \in active /\ o \in wrote
      BY <1>1, <1>2, <2>1, <3>4
    <3> QED
      BY <1>1, <2>1, <3>1, <3>2, <3>3, <3>4
  <2>2. wrote \subseteq active'
    BY <1>1, <1>2
  <2>3. ASSUME NEW m \in stored'
        PROVE  \E o \in active' : o[1] = m[1]
    <3>1. CASE m \in wrote
      BY <2>2, <3>1
    <3>2. CASE m \in stored
      <4>1. PICK o \in active : o[1] = m[1]
        BY <1>3, <3>2
      <4>2. CASE o \in closed
        BY <1>2, <2>2, <4>1, <4>2
      <4>3. CASE o \notin closed
        BY <1>1, <4>1, <4>3
      <4> QED
        BY <4>2, <4>3
    <3> QED
      BY <1>1, <2>3, <3>1, <3>2
  <2> QED
    BY <2>1, <2>3 DEF Import!OneActiveMessage
<1>13. \A m \in stored \ active : m \notin active'
  BY <1>1, <1>2
<1> QED
  BY <1>6, <1>7, <1>8, <1>9, <1>10, <1>11, <1>12, <1>13 DEF ImportInv

LEMMA RollBackKeeps ==
  ASSUME Import!ImportAssumption, KnownOnly, ImportInv, NEW u \in Uploads,
         Import!Victim(u) \/ Import!Abort(u)
  PROVE  ImportInv'
<1>1. PICK to \in {"idle", "done"} : uploadAt' = [uploadAt EXCEPT ![u] = to]
  BY DEF Import!Victim, Import!Abort
<1>2. /\ tx' = [tx EXCEPT ![u] = Import!EmptyTx]
      /\ todo' = [todo EXCEPT ![u] = {}]
      /\ entries' = [entries EXCEPT ![u] = {}]
      /\ target' = [target EXCEPT ![u] = 0]
      /\ UNCHANGED <<suppliers, channels, stored, active, imports, file>>
  BY DEF Import!Victim, Import!Abort, Import!RollBack
<1>3. aborts' \in 0..MaxAborts
  BY DEF Import!Victim, Import!Abort, ImportInv, ImportTypes,
    Import!ImportAssumption
<1>4. /\ tx'[u] = Import!EmptyTx /\ uploadAt'[u] = to /\ entries'[u] = {}
      /\ \A v \in Uploads : v # u => /\ tx'[v] = tx[v] /\
                                          uploadAt'[v] = uploadAt[v]
                                     /\ entries'[v] = entries[v]
                                     /\ target'[v] = target[v]
  BY <1>1, <1>2 DEF ImportInv, ImportTypes
<1>5. /\ Import!EmptyTx \in Transaction /\ Import!EmptyTx.held = {}
      /\ Import!EmptyTx.wrote = {} /\ Import!EmptyTx.closed = {}
  BY DEF Import!EmptyTx, Transaction
<1>6. ChannelsAreFixed' /\ Import!OneActiveMessage'
  BY <1>2 DEF ImportInv, ChannelsAreFixed, Import!OneActiveMessage
<1>7. ImportTypes'
  BY <1>1, <1>2, <1>3, <1>5 DEF ImportInv, ImportTypes
<1>8. EntriesAreInOrder'
  BY <1>2, <1>4, <1>5 DEF ImportInv, EntriesAreInOrder, Working,
    Import!NextEntry
<1>9. HeldApart'
  <2> SUFFICES ASSUME NEW v1 \in Uploads, NEW v2 \in Uploads, v1 # v2
               PROVE  tx'[v1].held \cap tx'[v2].held = {}
    BY DEF HeldApart
  <2>1. tx[v1].held \cap tx[v2].held = {}
    BY DEF ImportInv, HeldApart
  <2> QED
    BY <1>4, <1>5, <2>1
<1>10. WritesAreOwn'
  <2> SUFFICES ASSUME NEW v \in Uploads
               PROVE  (/\ \A p \in tx[v].wrote :
                         p \notin stored /\ p[1] \in tx[v].held
                       /\ \A p, o \in tx[v].wrote : p[1] = o[1] => p = o
                       /\ tx[v].closed \subseteq active
                       /\ \A o \in tx[v].closed : /\ o[1] \in tx[v].held
                                                  /\ \E p \in tx[v].wrote :
                                                       p[1] = o[1]
                       /\ \A p \in tx[v].wrote, o \in active : o[1] = p[1] =>
                            o \in tx[v].closed)'
    BY DEF WritesAreOwn
  <2>1. CASE v = u
    BY <1>4, <1>5, <2>1
  <2>2. CASE v # u
    BY <1>2, <1>4, <2>2 DEF ImportInv, WritesAreOwn
  <2> QED
    BY <2>1, <2>2
<1>11. FilesAreLocked'
  BY <1>1, <1>2, <1>4 DEF ImportInv, FilesAreLocked, Working,
    Import!FileImportedOnce
<1> QED
  BY <1>6, <1>7, <1>8, <1>9, <1>10, <1>11 DEF ImportInv

(* Every step keeps the invariant, and what is superseded stays so.        *)
LEMMA ImportStays ==
  ASSUME Import!ImportAssumption, KnownOnly, ImportInv,
         [Import!Next]_Import!vars
  PROVE  ImportInv' /\ \A m \in stored \ active : m \notin active'
<1>1. CASE UNCHANGED Import!vars
  BY <1>1 DEF Import!vars, ImportInv, ChannelsAreFixed, ImportTypes,
    EntriesAreInOrder,
     HeldApart, WritesAreOwn, FilesAreLocked, Import!FileImportedOnce,
     Import!OneActiveMessage, Working, Import!NextEntry
<1>2. ASSUME NEW u \in Uploads,
             Import!Step(u) \/ Import!Victim(u) \/ Import!Abort(u)
      PROVE  ImportInv' /\ \A m \in stored \ active : m \notin active'
  <2>1. CASE Import!Start(u) \/ Import!StartAgain(u)
    BY <2>1, StartKeeps DEF Import!Start, Import!StartAgain
  <2>2. CASE Import!Pick(u)
    BY <2>2, PickKeeps DEF Import!Pick
  <2>3. CASE Import!Store(u)
    BY <2>3, StoreKeeps DEF Import!Store
  <2>4. CASE Import!Commit(u)
    BY <2>4, CommitKeeps
  <2>5. CASE Import!Victim(u) \/ Import!Abort(u)
    BY <2>5, RollBackKeeps DEF Import!Victim, Import!Abort, Import!RollBack
  <2>6. CASE \E id \in ChannelIds :
               Import!Register(u, id) \/ Import!CreateChannel(u, id)
    BY <2>6, NothingIsRegistered
  <2> QED
    BY <1>2, <2>1, <2>2, <2>3, <2>4, <2>5, <2>6 DEF Import!Step
<1> QED
  BY <1>1, <1>2 DEF Import!Next

LEMMA ImportBegins ==
  ASSUME Import!ImportAssumption, KnownOnly, Import!Init
  PROVE  ImportInv
<1>1. Import!Names = Known /\ Known \subseteq Nat /\ Known \ {} = Known
  BY NamesAreNumbers DEF KnownOnly
<1>2. PICK id \in [Known -> ChannelIds] :
         /\ \A m, n \in Known : m < n => id[m] < id[n]
         /\ channels = {[id |-> id[n], name |-> n] : n \in Known}
  BY <1>1 DEF Import!Init
<1>3. /\ suppliers = Known /\ stored = {} /\ active = {}
      /\ imports = [f \in DOMAIN Postings |-> 0]
      /\ uploadAt = [u \in Uploads |-> "idle"]
      /\ file \in [Uploads -> DOMAIN Postings]
      /\ todo = [u \in Uploads |-> {}]
      /\ entries = [u \in Uploads |-> {}]
      /\ target = [u \in Uploads |-> 0]
      /\ tx = [u \in Uploads |-> Import!EmptyTx]
      /\ aborts = 0
  BY DEF Import!Init
<1>4. /\ Import!EmptyTx \in Transaction /\ Import!EmptyTx.held = {}
      /\ Import!EmptyTx.wrote = {} /\ Import!EmptyTx.closed = {}
  BY DEF Import!EmptyTx, Transaction
<1>5. ChannelsAreFixed
  <2>1. \A c \in channels : /\ c.name \in Known /\ c.id = id[c.name]
                            /\ c = [id |-> id[c.name], name |-> c.name]
    BY <1>2
  <2>2. \A n \in Known : [id |-> id[n], name |-> n] \in channels
    BY <1>2
  <2>3. channels \subseteq [id : ChannelIds, name : Known]
    BY <2>1
  <2>4. \A n \in Known : \E c \in channels : c.name = n
    BY <2>2
  <2>5. \A c, d \in channels : c.name = d.name => c = d
    BY <2>1
  <2>6. \A c, d \in channels : c.name < d.name => c.id < d.id
    BY <1>2, <2>1
  <2> QED
    BY <1>3, <2>3, <2>4, <2>5, <2>6 DEF ChannelsAreFixed
<1>6. ImportTypes
  BY <1>3, <1>4 DEF ImportTypes, Import!ImportAssumption
<1>7. EntriesAreInOrder
  BY <1>3, <1>4 DEF EntriesAreInOrder, Working
<1>8. HeldApart /\ WritesAreOwn
  BY <1>3, <1>4 DEF HeldApart, WritesAreOwn
<1>9. FilesAreLocked /\ Import!OneActiveMessage
  BY <1>3 DEF FilesAreLocked, Working, Import!FileImportedOnce,
    Import!OneActiveMessage
<1> QED
  BY <1>5, <1>6, <1>7, <1>8, <1>9 DEF ImportInv

-----------------------------------------------------------------------------
(* What the invariant is for                                               *)

(* Who waits waits for a channel with a higher id than those it has        *)
(* locked: there is no circle, as one of its targets would be the highest. *)
LEMMA WaitingIsUphill ==
  ASSUME Import!ImportAssumption, KnownOnly, ImportInv,
         NEW u \in Uploads, NEW v \in Uploads,
         Import!WaitsFor(u, v), uploadAt[v] = "locking"
  PROVE  /\ target[u] \in ChannelIds /\ target[v] \in ChannelIds
         /\ target[u] < target[v]
<1>1. target[u] \in tx[v].held /\ entries[v] # {}
  BY DEF Import!WaitsFor, ImportInv, ImportTypes, EntriesAreInOrder
<1>2. PICK c \in channels : c.id = target[u] /\ c.name < Import!NextEntry(v)
  BY <1>1, NextIsLeast DEF ImportInv, EntriesAreInOrder
<1>3. PICK d \in channels : d.id = target[v] /\ d.name = Import!NextEntry(v)
  BY DEF ImportInv, EntriesAreInOrder
<1> QED
  BY <1>2, <1>3, OneChannel

LEMMA NoCircle ==
  ASSUME Import!ImportAssumption, KnownOnly, IsFiniteSet(ChannelIds), ImportInv
  PROVE  Import!NobodyWaitsInACircle
<1>1. SUFFICES ASSUME NEW u \in Uploads, NEW S \in SUBSET Uploads, u \in S,
                      \A v \in S : \E w \in S : Import!WaitsFor(v, w)
               PROVE  FALSE
  BY DEF Import!NobodyWaitsInACircle, Import!InCircle
<1>2. \A v \in S : uploadAt[v] = "locking"
  BY <1>1 DEF Import!WaitsFor, ImportInv, ImportTypes
<1> DEFINE T == {target[v] : v \in S}
<1>3. PICK b \in Nat : ChannelIds \subseteq 1..b
  BY IdsAreBounded
<1>4. T \in SUBSET (1..b) /\ T # {}
  BY <1>1, <1>2, <1>3, WaitingIsUphill
<1>5. PICK m \in T : \A k \in T : k <= m
  <2> HIDE DEF T
  <2> QED
    BY <1>4, MaximumExists
<1>6. PICK v \in S : target[v] = m
  BY <1>5
<1>7. PICK w \in S : Import!WaitsFor(v, w)
  BY <1>1
<1>8. target[w] <= m /\ m < target[w] /\ m \in Nat /\ target[w] \in Nat
  <2>1. target[w] <= m /\ m \in 1..b /\ target[w] \in 1..b
    BY <1>4, <1>5
  <2>2. m < target[w]
    BY <1>2, <1>6, <1>7, WaitingIsUphill
  <2> QED
    BY <2>1, <2>2
<1> QED
  BY <1>8

LEMMA ImportHolds ==
  ASSUME Import!ImportAssumption, KnownOnly, ImportInv
  PROVE  Import!TypeOK /\ Import!FileImportedOnce /\
           Import!PostingStoredOnce /\ Import!OneActiveMessage
<1>1. Import!FileImportedOnce /\ Import!OneActiveMessage
  BY DEF ImportInv, FilesAreLocked
<1>2. Import!PostingStoredOnce
  <2> SUFFICES ASSUME NEW m \in stored, NEW o \in stored, m # o, m[2] = o[2],
                      Import!NameOf(m) = Import!NameOf(o)
               PROVE  FALSE
    BY DEF Import!PostingStoredOnce
  <2>1. \A x \in stored :
          \E c \in channels : c.id = x[1] /\ c.name = Import!NameOf(x)
    BY DEF ImportInv, ChannelsAreFixed, Import!NameOf
  <2>2. PICK c \in channels : c.id = m[1] /\ c.name = Import!NameOf(m)
    BY <2>1
  <2>3. PICK d \in channels : d.id = o[1] /\ d.name = Import!NameOf(o)
    BY <2>1
  <2>4. m[1] = o[1]
    BY <2>2, <2>3, OneChannel
  <2>5. m \in Import!Message /\ o \in Import!Message
    BY DEF ImportInv, ImportTypes
  <2> QED
    BY <2>4, <2>5 DEF Import!Message
<1>3. Import!TypeOK
  <2>1. Import!Names = Known
    BY NamesAreNumbers
  <2>2. channels \subseteq Import!Channel /\ suppliers \subseteq Import!Names
    BY <2>1 DEF ImportInv, ChannelsAreFixed, Import!Channel
  <2>3. \A r \in Transaction :
          /\ r \in [named : SUBSET Import!Names, held : SUBSET ChannelIds,
                    made : SUBSET Import!Channel,
                    wrote : SUBSET Import!Message,
                    closed : SUBSET Import!Message]
          /\ r.named = {}
    BY DEF Transaction
  <2>4. tx \in [Uploads -> [named : SUBSET Import!Names,
                            held : SUBSET ChannelIds,
                            made : SUBSET Import!Channel,
                            wrote : SUBSET Import!Message,
                            closed : SUBSET Import!Message]]
    BY <2>3 DEF ImportInv, ImportTypes
  <2>5. \A u, v \in Uploads : u # v =>
          /\ tx[u].held \cap tx[v].held = {}
          /\ tx[u].named \cap tx[v].named = {}
    BY <2>3 DEF ImportInv, ImportTypes, HeldApart
  <2>6. /\ todo \in [Uploads -> SUBSET Import!Names]
        /\ entries \in [Uploads -> SUBSET Import!Names]
    BY <2>1 DEF ImportInv, ImportTypes
  <2> QED
    BY <2>2, <2>4, <2>5, <2>6 DEF Import!TypeOK, ImportInv, ImportTypes
<1> QED
  BY <1>1, <1>2, <1>3

LEMMA SuppliersAreKnown ==
  /\ Import!ImportAssumption /\ KnownOnly /\ IsFiniteSet(ChannelIds)
BY CatalogueAssumption DEF CatalogueAssumption, KnownOnly

-----------------------------------------------------------------------------
(* What people decide                                                      *)

(* FiniteSets is the same here as in the part of the decisions.            *)
LEMMA SameSizes ==
  /\ \A S : Decisions!Cardinality(S) = Cardinality(S)
  /\ \A S : Decisions!IsFiniteSet(S) <=> IsFiniteSet(S)
BY DEF Decisions!Cardinality, Cardinality, Decisions!IsFiniteSet, IsFiniteSet


(* The inductive invariant                                                 *)

LogRow == [kind : Decisions!Kinds, time : Nat, codes : SUBSET Codes,
           asked : SUBSET Codes, value : Values \cup {NoValue}, order : Nat,
           by : Requests]

LogIsNumbered ==
  /\ IsFiniteSet(log) /\ log \subseteq LogRow
  /\ \A x \in log : x.time < clock /\ x.order \in 1..Cardinality(log)

Begun == {r \in Requests : requestAt[r] # "idle"}

(* A transaction's time is its place among those that have begun.          *)
TimesAreCounted ==
  /\ clock = Cardinality(Begun) + 1
  /\ \A r \in Begun : start[r] < clock

DecisionsHaveTypes ==
  /\ requestAt \in [Requests -> {"idle", "started", "written", "saved",
       "done"}]
  /\ does \in [Requests -> Decisions!Asked]
  /\ start \in [Requests -> 0..Cardinality(Requests)]
  /\ draft \in [Requests -> SUBSET Codes]
  /\ tasks \in [Decisions!Tries -> Nat]
  /\ worker \in [Workers -> {"idle", "computing", "failed"}]
  /\ tries \in [Workers -> Decisions!Tries]
  /\ read \in [Workers -> Decisions!Decided]
  /\ result \in Decisions!Decided
  /\ marked \in BOOLEAN /\ gaveUp \in BOOLEAN
  /\ failures \in 0..MaxFailures
  /\ lost \in SUBSET Requests /\ Cardinality(lost) <= MaxLost

(* Whoever holds a lock is inside its transaction; an analysis holds the   *)
(* lock of the post.                                                       *)
LocksAreHeld ==
  /\ rowLock \in Requests => requestAt[rowLock] = "written"
  /\ jobLock \in Requests => requestAt[jobLock] = "written"
  /\ jobLock \in Workers => worker[jobLock] = "computing"
  /\ \A w \in Workers : worker[w] = "computing" => jobLock = w

(* No row was committed after x.                                           *)
IsLast(x) == \A y \in log : y.order <= x.order

(* The analysis of the last row is still to be sent, or lost, or waits.    *)
Pending ==
  \/ \E k \in Decisions!Tries : tasks[k] > 0
  \/ \E x \in log : /\ IsLast(x)
                    /\ requestAt[x.by] = "saved" \/ x.by \in lost

(* Once nothing is pending, every analysis that runs has read all that was *)
(* decided, and when none runs the result reflects it, or the last that    *)
(* ended has failed.                                                       *)
AnalysesCatchUp ==
  \/ Pending
  \/ /\ \A w \in Workers : worker[w] = "computing" =>
          read[w] = Decisions!Effective(log)
     /\ \/ \E w \in Workers : worker[w] # "idle"
        \/ result = Decisions!Effective(log) \/ marked \/ gaveUp

DecisionsInv ==
  /\ LogIsNumbered /\ TimesAreCounted /\ DecisionsHaveTypes /\ LocksAreHeld
  /\ AnalysesCatchUp

-----------------------------------------------------------------------------
(* What is effective                                                       *)

LEMMA LatestExists ==
  ASSUME NEW rows \in SUBSET LogRow, NEW n \in Nat, \A x \in rows : x.time < n,
         NEW S \in SUBSET rows, S # {}
  PROVE  /\ Decisions!Latest(S) \in S
         /\ \A x \in S : x.time <= Decisions!Latest(S).time
<1> DEFINE times == {x.time + 1 : x \in S}
<1>1. \A x \in S : x.time \in Nat /\ x.time < n
  BY DEF LogRow
<1>2. times \in SUBSET (1..n) /\ times # {}
  BY <1>1
<1>3. PICK m \in times : \A k \in times : k <= m
  <2> HIDE DEF times
  <2> QED
    BY <1>2, MaximumExists
<1>4. PICK y \in S : m = y.time + 1
  BY <1>3
<1>5. \A x \in S : x.time <= y.time
  BY <1>1, <1>3, <1>4
<1> QED
  BY <1>5 DEF Decisions!Latest

LEMMA EffectiveIsDecided ==
  ASSUME NEW rows \in SUBSET LogRow, NEW n \in Nat, \A x \in rows : x.time < n
  PROVE  Decisions!Effective(rows) \in Decisions!Decided
<1>1. /\ Decisions!AckRows(rows) \subseteq rows
      /\ Decisions!ValueRows(rows) \subseteq rows
  BY DEF Decisions!AckRows, Decisions!ValueRows, Decisions!ValidRows
<1>2. Decisions!AckRows(rows) # {} =>
        Decisions!Latest(Decisions!AckRows(rows)).codes \subseteq Codes
  BY <1>1, LatestExists DEF LogRow
<1>3. Decisions!ValueRows(rows) # {} =>
        Decisions!Latest(Decisions!ValueRows(rows)).value \in
          Values \cup {NoValue}
  BY <1>1, LatestExists DEF LogRow
<1> QED
  BY <1>2, <1>3 DEF Decisions!Effective, Decisions!Decided

-----------------------------------------------------------------------------
(* The steps                                                               *)

(* A step of a worker.                                                     *)
AnalysisStep(w, wrote) ==
  \/ Decisions!Take(w) \/ Decisions!Finish(w)
  \/ Decisions!Fails(w) \/ Decisions!Mark(w)
  \/ Decisions!Retries(w, wrote) \/ Decisions!GivesUp(w, wrote)
  \/ Decisions!Dies(w, wrote)

LEMMA DecisionSteps ==
  ASSUME Decisions!Next
  PROVE  \/ \E r \in Requests :
              \/ Decisions!Begin(r) \/ Decisions!WriteAck(r)
              \/ Decisions!NothingToRevoke(r) \/ Decisions!WriteUnderJobLock(r)
              \/ Decisions!Commit(r) \/ Decisions!Send(r)
              \/ Decisions!SendFails(r)
         \/ \E w \in Workers, wrote \in BOOLEAN : AnalysisStep(w, wrote)
BY Zenon DEF Decisions!Next, Decisions!Handle, AnalysisStep

(* All but a commit leave the rows; nobody else touches the analyses.      *)
LEMMA BeginKeeps ==
  ASSUME Decisions!DecisionsAssumption, DecisionsInv, NEW r \in Requests,
         Decisions!Begin(r)
  PROVE  DecisionsInv'
<1> USE DEF DecisionsInv, Decisions!analysisVars
<1>1. /\ r \notin Begun /\ Begun' = Begun \cup {r}
      /\ Begun \subseteq Requests /\ Begun' \subseteq Requests
  BY DEF Decisions!Begin, Begun, DecisionsHaveTypes
<1>2. /\ Cardinality(Begun) \in Nat
      /\ Cardinality(Begun') = Cardinality(Begun) + 1
      /\ Cardinality(Requests) \in Nat
      /\ Cardinality(Begun') <= Cardinality(Requests)
  BY SameSizes, <1>1, FS_Subset, FS_AddElement, FS_CardinalityType
    DEF Decisions!DecisionsAssumption
<1>3. TimesAreCounted'
  BY <1>1, <1>2 DEF TimesAreCounted, Decisions!Begin, DecisionsHaveTypes
<1>4. LogIsNumbered'
  BY <1>2 DEF LogIsNumbered, Decisions!Begin, TimesAreCounted, LogRow
<1>5. DecisionsHaveTypes'
  BY <1>2 DEF DecisionsHaveTypes, Decisions!Begin, TimesAreCounted
<1>6. LocksAreHeld'
  BY DEF LocksAreHeld, Decisions!Begin, DecisionsHaveTypes
<1>7. \A q \in Requests : requestAt[q] = "saved" => requestAt'[q] = "saved"
  BY DEF Decisions!Begin, DecisionsHaveTypes
<1>8. Pending => Pending'
  BY <1>7 DEF Pending, IsLast, Decisions!Begin, LogIsNumbered, LogRow
<1> QED
  BY <1>3, <1>4, <1>5, <1>6, <1>8 DEF AnalysesCatchUp, Decisions!Begin

(* Steps of a request that neither commit nor end it with an analysis.     *)
LEMMA OthersKeep ==
  ASSUME Decisions!DecisionsAssumption, DecisionsInv, NEW r \in Requests,
         Decisions!WriteAck(r) \/ Decisions!NothingToRevoke(r) \/
           Decisions!WriteUnderJobLock(r)
  PROVE  DecisionsInv'
<1> USE DEF DecisionsInv, Decisions!analysisVars
<1>1. /\ UNCHANGED <<clock, log, does, start, tasks, worker, tries, read,
           result, marked, gaveUp, failures, lost>>
      /\ \E a \in {"written", "done"} :
           requestAt' = [requestAt EXCEPT ![r] = a]
      /\ requestAt[r] = "started"
  BY DEF Decisions!WriteAck, Decisions!NothingToRevoke,
    Decisions!WriteUnderJobLock
<1>2. /\ Begun' = Begun /\ Begun \subseteq Requests
      /\ \A q \in Requests : requestAt'[q] = "saved" <=> requestAt[q] = "saved"
  BY <1>1 DEF Begun, DecisionsHaveTypes
<1>3. TimesAreCounted'
  BY <1>1, <1>2 DEF TimesAreCounted
<1>4. LogIsNumbered'
  BY <1>1 DEF LogIsNumbered
<1>5. draft' \in [Requests -> SUBSET Codes]
  <2>1. clock \in Nat
    <3>1. Cardinality(Begun) \in Nat
      BY SameSizes, <1>2, FS_Subset, FS_CardinalityType
        DEF Decisions!DecisionsAssumption
    <3> QED
      BY <3>1 DEF TimesAreCounted
  <2>2. Decisions!Effective(log).codes \subseteq Codes
    BY <2>1, EffectiveIsDecided DEF Decisions!Decided, LogIsNumbered
  <2>3. does[r].codes \subseteq Codes
    BY DEF DecisionsHaveTypes, Decisions!Asked
  <2>4. Decisions!AckCodes(r) \subseteq Codes
    BY <2>2, <2>3 DEF Decisions!AckCodes, Decisions!DecisionsAssumption
  <2>5. draft' = draft \/ draft' = [draft EXCEPT ![r] = Decisions!AckCodes(r)]
    BY DEF Decisions!WriteAck, Decisions!NothingToRevoke,
      Decisions!WriteUnderJobLock
  <2> QED
    BY <2>4, <2>5 DEF DecisionsHaveTypes
<1>6. DecisionsHaveTypes'
  BY <1>1, <1>5 DEF DecisionsHaveTypes
<1>7. LocksAreHeld'
  <2>1. CASE Decisions!WriteAck(r)
    BY <1>1, <2>1 DEF Decisions!WriteAck, LocksAreHeld, DecisionsHaveTypes
  <2>2. CASE Decisions!NothingToRevoke(r)
    BY <1>1, <2>2 DEF Decisions!NothingToRevoke, LocksAreHeld,
      DecisionsHaveTypes
  <2>3. CASE Decisions!WriteUnderJobLock(r)
    BY SameSizes, <1>1, <2>3 DEF Decisions!WriteUnderJobLock, LocksAreHeld,
      DecisionsHaveTypes, Decisions!DecisionsAssumption
  <2> QED
    BY <2>1, <2>2, <2>3
<1>8. AnalysesCatchUp'
  <2>1. \A x \in log : x.by \in Requests
    BY DEF LogIsNumbered, LogRow
  <2>2. Pending' <=> Pending
    BY <1>1, <1>2, <2>1 DEF Pending, IsLast
  <2> QED
    BY <1>1, <2>2 DEF AnalysesCatchUp
<1> QED
  BY <1>3, <1>4, <1>6, <1>7, <1>8

(* The rows that are added come after all others.                          *)
LEMMA RowsAreNew ==
  ASSUME Decisions!DecisionsAssumption, DecisionsInv, NEW r \in Requests,
         Decisions!Commit(r)
  PROVE  /\ Decisions!RowsOf(r) \subseteq LogRow
         /\ Decisions!Row(r) \in Decisions!RowsOf(r)
         /\ \A x \in Decisions!RowsOf(r) :
              /\ x.order = Cardinality(log) + 1 /\ x.by = r
              /\ x.time = start[r]
         /\ Cardinality(log) \in Nat /\ Cardinality(log') \in Nat
         /\ Cardinality(log') > Cardinality(log)
         /\ IsFiniteSet(log')
         /\ log' = log \cup Decisions!RowsOf(r)
<1> DEFINE x == Decisions!Row(r)
           a == Decisions!ExclusionRow(r)
           new == Decisions!RowsOf(r)
<1>1. /\ x.order = Cardinality(log) + 1 /\ x.by = r /\ x.time = start[r]
  BY SameSizes DEF Decisions!Row
<1>2. IsFiniteSet(log) /\ Cardinality(log) \in Nat
  BY FS_CardinalityType DEF DecisionsInv, LogIsNumbered
<1>3. Cardinality(Requests) \in Nat
  BY SameSizes, FS_CardinalityType DEF Decisions!DecisionsAssumption
<1>4. x \in LogRow
  BY SameSizes, <1>2, <1>3 DEF Decisions!Row, LogRow, DecisionsInv,
    DecisionsHaveTypes, Decisions!Asked, Decisions!Kinds
<1>5. a \in LogRow /\ a.order = x.order /\ a.by = x.by /\ a.time = x.time
  <2>1. a = [kind |-> "ack", time |-> start[r], codes |-> draft[r],
             asked |-> {ExcludedCode}, value |-> NoValue,
             order |-> Cardinality(log) + 1, by |-> r]
    BY SameSizes DEF Decisions!Row, Decisions!ExclusionRow
  <2>2. /\ start[r] \in Nat /\ draft[r] \subseteq Codes
        /\ {ExcludedCode} \subseteq Codes /\ "ack" \in Decisions!Kinds
    BY <1>3 DEF DecisionsInv, DecisionsHaveTypes, Decisions!Kinds,
      Decisions!DecisionsAssumption
  <2> HIDE DEF a, x
  <2> QED
    BY <1>1, <1>2, <2>1, <2>2 DEF LogRow
<1>6. log' = log \cup new
  BY DEF Decisions!Commit
<1>7. x \in new /\ new \subseteq {x, a} /\ (new = {x} \/ new = {x, a})
  BY DEF Decisions!RowsOf
<1> HIDE DEF x, a, new
<1>8. x \notin log
  BY <1>1, <1>2 DEF DecisionsInv, LogIsNumbered
<1>9. /\ IsFiniteSet(log \cup {x})
      /\ Cardinality(log \cup {x}) = Cardinality(log) + 1
  BY <1>2, <1>8, FS_AddElement
<1>10. /\ IsFiniteSet((log \cup {x}) \cup {a})
       /\ Cardinality((log \cup {x}) \cup {a}) \in Nat
       /\ Cardinality((log \cup {x}) \cup {a}) >= Cardinality(log) + 1
  <2>1. /\ IsFiniteSet((log \cup {x}) \cup {a})
        /\ Cardinality((log \cup {x}) \cup {a}) =
             IF a \in log \cup {x} THEN Cardinality(log \cup {x})
             ELSE Cardinality(log \cup {x}) + 1
    BY <1>9, FS_AddElement
  <2> QED
    BY <1>2, <1>9, <2>1
<1>11. log' = log \cup {x} \/ log' = (log \cup {x}) \cup {a}
  BY <1>6, <1>7
<1>12. /\ IsFiniteSet(log') /\ Cardinality(log') \in Nat
       /\ Cardinality(log') > Cardinality(log)
  <2>1. CASE log' = log \cup {x}
    BY <1>2, <1>9, <2>1
  <2>2. CASE log' = (log \cup {x}) \cup {a}
    <3>1. Cardinality(log') \in Nat /\ Cardinality(log') >= Cardinality(log) + 1
      BY <1>10, <2>2
    <3> QED
      BY <1>2, <1>10, <2>2, <3>1
  <2> QED
    BY <1>11, <2>1, <2>2
<1>13. \A y \in new : /\ y.order = Cardinality(log) + 1 /\ y.by = r
                      /\ y.time = start[r]
  BY <1>1, <1>5, <1>7
<1>14. new \subseteq LogRow
  BY <1>4, <1>5, <1>7
<1> QED
  BY <1>2, <1>6, <1>7, <1>12, <1>13, <1>14 DEF x, new

LEMMA SaveKeeps ==
  ASSUME Decisions!DecisionsAssumption, DecisionsInv, NEW r \in Requests,
         Decisions!Commit(r)
  PROVE  DecisionsInv'
<1> USE DEF DecisionsInv, Decisions!analysisVars
<1>1. /\ UNCHANGED <<clock, does, start, draft, tasks, worker, tries, read,
           marked, gaveUp, failures, lost>>
      /\ requestAt' = [requestAt EXCEPT ![r] = "saved"]
      /\ requestAt[r] = "written"
  BY DEF Decisions!Commit
<1>2. /\ Begun' = Begun /\ Begun \subseteq Requests /\ r \in Begun
  BY <1>1 DEF Begun, DecisionsHaveTypes
<1>3. clock \in Nat
  <2>1. Cardinality(Begun) \in Nat
    BY SameSizes, <1>2, FS_Subset, FS_CardinalityType
      DEF Decisions!DecisionsAssumption
  <2> QED
    BY <2>1 DEF TimesAreCounted
<1>4. TimesAreCounted'
  BY <1>1, <1>2 DEF TimesAreCounted
<1>5. LogIsNumbered'
  <2>1. \A y \in Decisions!RowsOf(r) :
          y.time < clock /\ y.order \in 1..Cardinality(log')
    BY SameSizes, <1>2, RowsAreNew DEF TimesAreCounted
  <2>2. \A y \in log : y.time < clock /\ y.order \in 1..Cardinality(log')
    BY SameSizes, RowsAreNew DEF LogIsNumbered
  <2> QED
    BY SameSizes, <1>1, <2>1, <2>2, RowsAreNew DEF LogIsNumbered
<1>6. Decisions!Effective(log') \in Decisions!Decided
  BY <1>1, <1>3, <1>5, EffectiveIsDecided DEF LogIsNumbered
<1>7. result' \in Decisions!Decided
  BY <1>6 DEF Decisions!Commit, Decisions!Decided, DecisionsHaveTypes
<1>8. DecisionsHaveTypes'
  BY <1>1, <1>7 DEF DecisionsHaveTypes
<1>9. LocksAreHeld'
  BY SameSizes, <1>1 DEF Decisions!Commit, LocksAreHeld, DecisionsHaveTypes,
    Decisions!DecisionsAssumption
<1>10. Pending'
  <2>1. PICK x \in Decisions!RowsOf(r) : TRUE
    BY RowsAreNew
  <2>2. x \in log' /\ x.by = r /\ requestAt'[r] = "saved"
    BY SameSizes, <1>1, RowsAreNew DEF DecisionsHaveTypes
  <2>3. \A y \in log' : y.order <= x.order
    BY SameSizes, RowsAreNew DEF LogIsNumbered
  <2> QED
    BY <2>2, <2>3 DEF Pending, IsLast
<1> QED
  BY <1>4, <1>5, <1>8, <1>9, <1>10 DEF AnalysesCatchUp

LEMMA SendKeeps ==
  ASSUME Decisions!DecisionsAssumption, DecisionsInv, NEW r \in Requests,
         Decisions!Send(r) \/ Decisions!SendFails(r)
  PROVE  DecisionsInv'
<1> USE DEF DecisionsInv, Decisions!analysisVars
<1>1. /\ UNCHANGED <<clock, log, does, start, rowLock, jobLock, draft, worker,
           tries, read, result, marked, gaveUp, failures>>
      /\ requestAt' = [requestAt EXCEPT ![r] = "done"]
      /\ requestAt[r] = "saved"
  BY SameSizes DEF Decisions!Send, Decisions!SendFails
<1>2. Begun' = Begun
  BY <1>1 DEF Begun, DecisionsHaveTypes
<1>3. TimesAreCounted'
  BY <1>1, <1>2 DEF TimesAreCounted
<1>4. tasks' \in [Decisions!Tries -> Nat]
  BY DEF Decisions!Send, Decisions!SendFails, DecisionsHaveTypes
<1>5. lost' \in SUBSET Requests /\ Cardinality(lost') <= MaxLost
  <2>1. CASE Decisions!Send(r)
    BY <2>1 DEF Decisions!Send, DecisionsHaveTypes
  <2>2. CASE Decisions!SendFails(r)
    <3>1. IsFiniteSet(lost) /\ Cardinality(lost) \in Nat
      BY SameSizes, FS_Subset, FS_CardinalityType
        DEF Decisions!DecisionsAssumption, DecisionsHaveTypes
    <3>2. lost' = lost \cup {r} /\ Cardinality(lost) < MaxLost
      BY SameSizes, <2>2 DEF Decisions!SendFails
    <3>3. Cardinality(lost') <= Cardinality(lost) + 1
      <4>1. Cardinality(lost \cup {r}) =
              IF r \in lost THEN Cardinality(lost) ELSE Cardinality(lost) + 1
        BY <3>1, FS_AddElement
      <4> QED
        BY <3>1, <3>2, <4>1
    <3>4. Cardinality(lost') \in Nat
      BY <3>1, <3>2, FS_AddElement, FS_CardinalityType
    <3> QED
      BY SameSizes, <3>1, <3>2, <3>3, <3>4 DEF DecisionsHaveTypes,
        Decisions!DecisionsAssumption
  <2> QED
    BY <2>1, <2>2
<1>6. DecisionsHaveTypes'
  BY <1>1, <1>4, <1>5 DEF DecisionsHaveTypes
<1>7. LogIsNumbered' /\ LocksAreHeld'
  BY <1>1 DEF LogIsNumbered, LocksAreHeld, DecisionsHaveTypes
<1>8. Pending => Pending'
  <2>1. CASE Decisions!Send(r)
    <3>1. 0 \in Decisions!Tries
      BY DEF Decisions!Tries, Decisions!DecisionsAssumption
    <3> QED
      BY <2>1, <3>1 DEF Decisions!Send, Pending, DecisionsHaveTypes
  <2>2. CASE Decisions!SendFails(r)
    <3>1. \A q \in Requests : requestAt[q] = "saved" \/ q \in lost =>
            requestAt'[q] = "saved" \/ q \in lost'
      BY SameSizes, <1>1, <2>2 DEF Decisions!SendFails, DecisionsHaveTypes
    <3>2. \A x \in log : x.by \in Requests
      BY DEF LogIsNumbered, LogRow
    <3> QED
      BY SameSizes, <2>2, <3>1, <3>2 DEF Pending, IsLast, Decisions!SendFails
  <2> QED
    BY <2>1, <2>2
<1> QED
  BY <1>1, <1>3, <1>6, <1>7, <1>8 DEF AnalysesCatchUp

LEMMA TakeKeeps ==
  ASSUME Decisions!DecisionsAssumption, DecisionsInv, NEW w \in Workers,
         Decisions!Take(w)
  PROVE  DecisionsInv'
<1> USE DEF DecisionsInv, Decisions!requestVars
<1>1. /\ UNCHANGED <<clock, log, requestAt, does, start, rowLock, draft,
           result, marked, gaveUp, failures, lost>>
      /\ worker' = [worker EXCEPT ![w] = "computing"]
      /\ read' = [read EXCEPT ![w] = Decisions!Effective(log)]
      /\ jobLock' = w /\ jobLock = Decisions!Open
  BY DEF Decisions!Take
<1>2. Begun' = Begun /\ Begun \subseteq Requests
  BY <1>1 DEF Begun
<1>3. clock \in Nat
  <2>1. Cardinality(Begun) \in Nat
    BY SameSizes, <1>2, FS_Subset, FS_CardinalityType
      DEF Decisions!DecisionsAssumption
  <2> QED
    BY <2>1 DEF TimesAreCounted
<1>4. TimesAreCounted'
  BY <1>1, <1>2 DEF TimesAreCounted
<1>5. LogIsNumbered'
  BY <1>1 DEF LogIsNumbered
<1>6. /\ tasks' \in [Decisions!Tries -> Nat]
      /\ tries' \in [Workers -> Decisions!Tries]
  <2>1. PICK k \in Decisions!Tries :
          /\ tasks[k] > 0 /\ tasks' = [tasks EXCEPT ![k] = @ - 1]
          /\ tries' = [tries EXCEPT ![w] = k]
    BY DEF Decisions!Take, Decisions!FromQueue
  <2>2. tasks[k] - 1 \in Nat
    BY <2>1 DEF DecisionsHaveTypes
  <2> QED
    BY <2>1, <2>2 DEF DecisionsHaveTypes
<1>7. DecisionsHaveTypes'
  BY <1>1, <1>3, <1>6, EffectiveIsDecided DEF DecisionsHaveTypes, LogIsNumbered
<1>8. LocksAreHeld'
  BY SameSizes, <1>1 DEF LocksAreHeld, Decisions!DecisionsAssumption,
    DecisionsHaveTypes
<1>9. AnalysesCatchUp'
  <2>1. \A v \in Workers : worker[v] # "computing"
    BY SameSizes, <1>1 DEF LocksAreHeld, Decisions!DecisionsAssumption
  <2>2. \A v \in Workers : worker'[v] = "computing" =>
          read'[v] = Decisions!Effective(log)
    BY <1>1, <2>1 DEF DecisionsHaveTypes
  <2>3. worker'[w] = "computing"
    BY <1>1 DEF DecisionsHaveTypes
  <2> QED
    BY <1>1, <2>2, <2>3 DEF AnalysesCatchUp
<1> QED
  BY <1>4, <1>5, <1>7, <1>8, <1>9

(* A worker that stops has left the result, the review reason, nothing, or *)
(* the task in the queue.                                                  *)
LEMMA StopKeeps ==
  ASSUME Decisions!DecisionsAssumption, DecisionsInv, NEW w \in Workers,
         NEW wrote \in BOOLEAN, AnalysisStep(w, wrote), ~ Decisions!Take(w)
  PROVE  DecisionsInv'
<1> USE DEF DecisionsInv, Decisions!requestVars, Decisions!Unlocked
<1>1. /\ UNCHANGED <<clock, log, requestAt, does, start, rowLock, draft, tries,
           read, lost>>
      /\ worker[w] # "idle"
      /\ \E a \in {"idle", "failed"} : worker' = [worker EXCEPT ![w] = a]
  BY DEF AnalysisStep, Decisions!Finish, Decisions!Fails, Decisions!Mark,
    Decisions!Retries, Decisions!GivesUp, Decisions!Dies, Decisions!BrokenOff
<1>2. jobLock' = jobLock \/ jobLock' = Decisions!Unlocked(w)
  BY DEF AnalysisStep, Decisions!Finish, Decisions!Fails, Decisions!Mark,
    Decisions!Retries, Decisions!GivesUp, Decisions!Dies, Decisions!BrokenOff
<1>3. worker[w] = "computing" => jobLock' = Decisions!Unlocked(w)
  BY DEF AnalysisStep, Decisions!Finish, Decisions!Fails, Decisions!Mark,
    Decisions!Retries, Decisions!GivesUp, Decisions!Dies, Decisions!BrokenOff
<1>4. /\ \/ UNCHANGED tasks
         \/ \E k \in Decisions!Tries : tasks' = [tasks EXCEPT ![k] = @ + 1]
  <2>1. tries[w] \in Decisions!Tries
    BY DEF DecisionsHaveTypes
  <2>2. tries[w] < MaxRetries => tries[w] + 1 \in Decisions!Tries
    BY <2>1 DEF Decisions!Tries, Decisions!DecisionsAssumption
  <2> QED
    BY <2>1, <2>2 DEF AnalysisStep, Decisions!Finish, Decisions!Fails,
      Decisions!Mark, Decisions!Retries, Decisions!GivesUp, Decisions!Dies
<1>5. /\ result' \in {result, read[w]} /\ marked' \in BOOLEAN
      /\ gaveUp' \in BOOLEAN
  BY DEF AnalysisStep, Decisions!Finish, Decisions!Fails, Decisions!Mark,
    Decisions!Retries, Decisions!GivesUp, Decisions!Dies, Decisions!BrokenOff,
    DecisionsHaveTypes
<1>6. failures' \in 0..MaxFailures
  BY DEF AnalysisStep, Decisions!Finish, Decisions!Fails, Decisions!Mark,
    Decisions!Retries, Decisions!GivesUp, Decisions!Dies, Decisions!BrokenOff,
    DecisionsHaveTypes, Decisions!DecisionsAssumption
<1>7. TimesAreCounted' /\ LogIsNumbered'
  BY <1>1 DEF TimesAreCounted, LogIsNumbered, Begun
<1>8. DecisionsHaveTypes'
  BY <1>1, <1>4, <1>5, <1>6 DEF DecisionsHaveTypes
<1>9. LocksAreHeld'
  BY SameSizes, <1>1, <1>2, <1>3 DEF LocksAreHeld,
    Decisions!DecisionsAssumption, DecisionsHaveTypes
<1>10. Pending => Pending'
  BY <1>1, <1>4 DEF Pending, IsLast, DecisionsHaveTypes
<1>11. CASE Decisions!Retries(w, wrote) \/ Decisions!Dies(w, wrote)
  <2>1. PICK k \in Decisions!Tries : tasks' = [tasks EXCEPT ![k] = @ + 1]
    <3>1. tries[w] \in Decisions!Tries
      BY DEF DecisionsHaveTypes
    <3>2. tries[w] < MaxRetries => tries[w] + 1 \in Decisions!Tries
      BY <3>1 DEF Decisions!Tries, Decisions!DecisionsAssumption
    <3> QED
      BY <1>11, <3>1, <3>2 DEF Decisions!Retries, Decisions!Dies
  <2>2. tasks'[k] > 0
    BY <2>1 DEF DecisionsHaveTypes
  <2> QED
    BY <1>7, <1>8, <1>9, <2>2 DEF AnalysesCatchUp, Pending
<1>12. CASE ~ Pending /\ (Decisions!Finish(w) \/ Decisions!Fails(w) \/
              Decisions!Mark(w) \/ Decisions!GivesUp(w, wrote))
  <2>1. /\ \A v \in Workers : worker[v] = "computing" =>
             read[v] = Decisions!Effective(log)
    BY <1>12 DEF AnalysesCatchUp
  <2>2. \A v \in Workers : worker'[v] = "computing" =>
          read'[v] = Decisions!Effective(log')
    BY <1>1, <2>1 DEF DecisionsHaveTypes
  <2>3. \/ \E v \in Workers : worker'[v] # "idle"
        \/ result' = Decisions!Effective(log') \/ marked' \/ gaveUp'
    <3>1. CASE Decisions!Finish(w)
      BY <2>1, <3>1 DEF Decisions!Finish
    <3>2. CASE Decisions!Fails(w)
      BY <3>2 DEF Decisions!Fails, DecisionsHaveTypes
    <3>3. CASE Decisions!Mark(w)
      BY <3>3 DEF Decisions!Mark
    <3>4. CASE Decisions!GivesUp(w, wrote) /\ wrote
      BY <2>1, <3>4 DEF Decisions!GivesUp, Decisions!BrokenOff
    <3>5. CASE Decisions!GivesUp(w, wrote) /\ ~ wrote
      BY <3>5 DEF Decisions!GivesUp
    <3> QED
      BY <1>12, <3>1, <3>2, <3>3, <3>4, <3>5
  <2> QED
    BY <1>7, <1>8, <1>9, <2>2, <2>3 DEF AnalysesCatchUp
<1> QED
  BY <1>7, <1>8, <1>9, <1>10, <1>11, <1>12 DEF AnalysesCatchUp, AnalysisStep

LEMMA DecisionsStay ==
  ASSUME Decisions!DecisionsAssumption, DecisionsInv,
         [Decisions!Next]_Decisions!vars
  PROVE  DecisionsInv'
<1>1. CASE UNCHANGED Decisions!vars
  BY <1>1 DEF Decisions!vars, Decisions!requestVars, Decisions!analysisVars,
    DecisionsInv, LogIsNumbered, TimesAreCounted, Begun, DecisionsHaveTypes,
    LocksAreHeld, AnalysesCatchUp, Pending, IsLast
<1> QED
  BY <1>1, BeginKeeps, OthersKeep, SaveKeeps, SendKeeps, TakeKeeps, StopKeeps,
    DecisionSteps

LEMMA DecisionsBegin ==
  ASSUME Decisions!DecisionsAssumption, Decisions!Init
  PROVE  DecisionsInv
<1>1. Begun = {}
  BY DEF Decisions!Init, Begun
<1>2. Cardinality({}) = 0 /\ IsFiniteSet({})
  BY FS_EmptySet
<1>3. TimesAreCounted
  BY <1>1, <1>2 DEF Decisions!Init, TimesAreCounted
<1>4. LogIsNumbered
  BY <1>2 DEF Decisions!Init, LogIsNumbered
<1>5. DecisionsHaveTypes
  <2>1. Cardinality(Requests) \in Nat
    BY SameSizes, FS_CardinalityType DEF Decisions!DecisionsAssumption
  <2>2. does \in [Requests -> Decisions!Asked]
    BY DEF Decisions!Init, Decisions!Asked, Decisions!Kinds
  <2>3. 0 \in Decisions!Tries
    BY DEF Decisions!Tries, Decisions!DecisionsAssumption
  <2>4. /\ tasks \in [Decisions!Tries -> Nat]
        /\ tries \in [Workers -> Decisions!Tries]
        /\ worker \in [Workers -> {"idle", "computing", "failed"}]
    BY <2>3 DEF Decisions!Init
  <2>5. /\ read \in [Workers -> Decisions!Decided]
        /\ result \in Decisions!Decided
        /\ marked \in BOOLEAN /\ gaveUp \in BOOLEAN
    BY DEF Decisions!Init, Decisions!Decided
  <2>6. /\ failures \in 0..MaxFailures
        /\ lost \in SUBSET Requests /\ Cardinality(lost) <= MaxLost
    BY SameSizes, <1>2 DEF Decisions!Init, Decisions!DecisionsAssumption
  <2>7. /\ requestAt \in [Requests -> {"idle", "started", "written", "saved",
             "done"}]
        /\ start \in [Requests -> 0..Cardinality(Requests)]
        /\ draft \in [Requests -> SUBSET Codes]
    BY <2>1 DEF Decisions!Init
  <2> QED
    BY <2>2, <2>4, <2>5, <2>6, <2>7 DEF DecisionsHaveTypes
<1>6. LocksAreHeld
  BY SameSizes DEF Decisions!Init, LocksAreHeld, Decisions!DecisionsAssumption
<1>7. AnalysesCatchUp
  <2>1. Decisions!AckRows({}) = {} /\ Decisions!ValueRows({}) = {}
    BY DEF Decisions!AckRows, Decisions!ValueRows, Decisions!ValidRows
  <2> QED
    BY <2>1 DEF Decisions!Init, AnalysesCatchUp, Decisions!Effective
<1> QED
  BY <1>3, <1>4, <1>5, <1>6, <1>7 DEF DecisionsInv

-----------------------------------------------------------------------------
(* One request after the other                                             *)

(* Rows are numbered in the order of their times, an open request is the   *)
(* only one and the last, and nothing was saved since it began.            *)
InTurn ==
  /\ \A r, q \in Decisions!OpenRequests : r = q
  /\ \A x, y \in log : x.time < y.time => x.order < y.order
  /\ \A x \in log, r \in Requests : requestAt[r] \in {"started", "written"} =>
       x.time < start[r]
  /\ \A r \in Requests :
       requestAt[r] = "written" => draft[r] = Decisions!AckCodes(r)
  /\ Decisions!AcceptedStaysAccepted

LEMMA LatestIsNew ==
  ASSUME NEW S, NEW x, \A y \in S : y.time \in Nat /\ y.time < x.time,
         x.time \in Nat
  PROVE  Decisions!Latest(S \cup {x}) = x
<1>1. x \in S \cup {x} /\ \A y \in S \cup {x} : y.time <= x.time
  OBVIOUS
<1>2. \A z \in S \cup {x} : (\A y \in S \cup {x} : y.time <= z.time) => z = x
  OBVIOUS
<1> QED
  BY <1>1, <1>2 DEF Decisions!Latest

(* What new rows do to the decisions that are valid.                       *)
LEMMA CommitInTurn ==
  ASSUME Decisions!DecisionsAssumption, DecisionsInv, InTurn,
         NEW r \in Requests, Decisions!Commit(r)
  PROVE  Decisions!AcceptedStaysAccepted'
<1> DEFINE x == Decisions!Row(r)
           a == Decisions!ExclusionRow(r)
           new == Decisions!RowsOf(r)
<1>1. /\ x.kind = does[r].kind /\ x.asked = does[r].codes
      /\ x.kind = "ack" => x.codes = draft[r]
      /\ a.kind = "ack" /\ a.asked = {ExcludedCode} /\ a.codes = draft[r]
  BY DEF Decisions!Row, Decisions!ExclusionRow
<1>2. /\ Decisions!Excludes(r) => x.kind = "value" /\ new = {x, a}
      /\ ~ Decisions!Excludes(r) => new = {x}
  BY <1>1 DEF Decisions!RowsOf, Decisions!Excludes
<1>3. draft[r] = Decisions!AckCodes(r)
  BY DEF InTurn, Decisions!Commit
<1>4. /\ log' = log \cup new
      /\ \A z \in new : /\ z.time = start[r] /\ z.time \in Nat
                        /\ z.order = Cardinality(log) + 1
      /\ Cardinality(log) \in Nat
  BY SameSizes, RowsAreNew DEF LogRow
<1>5. \A y \in log : /\ y.time \in Nat /\ y.time < start[r]
                     /\ y.order \in 1..Cardinality(log)
  BY DEF DecisionsInv, LogIsNumbered, LogRow, InTurn, Decisions!Commit
<1>6. x \in new /\ x.kind \in Decisions!Kinds
  BY <1>1, <1>2 DEF DecisionsInv, DecisionsHaveTypes, Decisions!Asked
<1> HIDE DEF x, a, new
<1>7. \A y \in log, z \in new : /\ y.time < z.time
                                /\ y.order < z.order /\ ~ (z.order < y.order)
  BY <1>4, <1>5
<1>8. SUFFICES ASSUME NEW y \in log', y.kind = "ack",
                      \A z \in log' : z.kind \in {"revoke", "edit"} =>
                        z.order < y.order
               PROVE  y.asked \subseteq Decisions!Effective(log').codes
  BY DEF Decisions!AcceptedStaysAccepted
<1>9. x.kind \in {"ack", "value"}
  <2>1. \A z \in new : ~ (x.order < z.order)
    BY <1>4, <1>6
  <2> QED
    BY <1>4, <1>6, <1>7, <1>8, <2>1 DEF Decisions!Kinds
<1>10. \A z \in new : z.kind \in {"ack", "value"}
  BY <1>1, <1>2, <1>9
<1>11. /\ Decisions!EditsIn(log') = Decisions!EditsIn(log)
       /\ Decisions!ValidRows(log') = Decisions!ValidRows(log) \cup new
  <2>1. Decisions!EditsIn(log') = Decisions!EditsIn(log)
    BY <1>4, <1>10 DEF Decisions!EditsIn
  <2>2. \A e \in Decisions!EditsIn(log), z \in new : z.time > e.time
    BY <1>4, <1>5, <1>7 DEF Decisions!EditsIn
  <2> QED
    BY <1>4, <1>10, <2>1, <2>2 DEF Decisions!ValidRows, Decisions!EditsIn
<1>12. y \in log => y.asked \subseteq Decisions!Effective(log).codes
  BY <1>4, <1>8 DEF InTurn, Decisions!AcceptedStaysAccepted
<1>13. ASSUME NEW n \in new, n.kind = "ack", n.codes = draft[r],
              Decisions!AckRows(log') = Decisions!AckRows(log) \cup {n},
              draft[r] = Decisions!Effective(log).codes \cup n.asked,
              y \in new => y = n
       PROVE  y.asked \subseteq Decisions!Effective(log').codes
  <2>1. \A z \in Decisions!AckRows(log) : z.time \in Nat /\ z.time < n.time
    BY <1>5, <1>7 DEF Decisions!AckRows, Decisions!ValidRows
  <2>2. Decisions!Latest(Decisions!AckRows(log')) = n
    BY <1>4, <1>13, <2>1, LatestIsNew
  <2>3. Decisions!Effective(log').codes = draft[r]
    BY <1>13, <2>2 DEF Decisions!Effective
  <2> QED
    BY <1>4, <1>12, <1>13, <2>3
<1>14. CASE x.kind = "ack"
  <2>1. new = {x}
    BY <1>2, <1>14
  <2>2. Decisions!AckRows(log') = Decisions!AckRows(log) \cup {x}
    BY <1>11, <1>14, <2>1 DEF Decisions!AckRows
  <2>3. draft[r] = Decisions!Effective(log).codes \cup x.asked
    BY <1>1, <1>3, <1>14 DEF Decisions!AckCodes
  <2> QED
    BY <1>1, <1>6, <1>13, <1>14, <2>1, <2>2, <2>3
<1>15. CASE x.kind = "value" /\ Decisions!Excludes(r)
  <2>1. Decisions!AckRows(log') = Decisions!AckRows(log) \cup {a}
    BY <1>1, <1>2, <1>11, <1>15 DEF Decisions!AckRows
  <2>2. draft[r] = Decisions!Effective(log).codes \cup a.asked
    BY <1>1, <1>3, <1>15 DEF Decisions!AckCodes
  <2>3. a \in new /\ (y \in new => y = a)
    BY <1>2, <1>8, <1>15
  <2> QED
    BY <1>1, <1>13, <2>1, <2>2, <2>3
<1>16. CASE x.kind = "value" /\ ~ Decisions!Excludes(r)
  <2>1. Decisions!AckRows(log') = Decisions!AckRows(log)
    BY <1>2, <1>11, <1>16 DEF Decisions!AckRows
  <2>2. y \in log
    BY <1>2, <1>4, <1>8, <1>16
  <2> QED
    BY <1>12, <2>1, <2>2 DEF Decisions!Effective
<1> QED
  BY <1>9, <1>14, <1>15, <1>16

LEMMA InTurnStays ==
  ASSUME Decisions!DecisionsAssumption, DecisionsInv, InTurn,
         [Decisions!Next]_Decisions!vars,
         \A r \in Requests : Decisions!Begin(r) => Decisions!OpenRequests = {}
  PROVE  InTurn'
<1>1. CASE UNCHANGED <<log, requestAt, does, start, draft>>
  BY <1>1 DEF InTurn, Decisions!OpenRequests, Decisions!AcceptedStaysAccepted,
    Decisions!AckCodes, Decisions!Excludes
<1>2. ASSUME NEW r \in Requests, Decisions!Begin(r) PROVE InTurn'
  <2>1. Decisions!OpenRequests' = {r}
    BY <1>2 DEF Decisions!OpenRequests, Decisions!Begin, DecisionsInv,
      DecisionsHaveTypes
  <2>2. \A x \in log : x.time < start'[r]
    BY <1>2 DEF Decisions!Begin, DecisionsInv, LogIsNumbered,
      DecisionsHaveTypes
  <2>3. \A q \in Requests : requestAt'[q] \in {"started", "written"} => q = r
    BY <2>1 DEF Decisions!OpenRequests
  <2>4. requestAt'[r] # "written"
    BY <1>2 DEF Decisions!Begin, DecisionsInv, DecisionsHaveTypes
  <2> QED
    BY <1>2, <2>1, <2>2, <2>3, <2>4 DEF InTurn, Decisions!Begin,
      Decisions!AcceptedStaysAccepted
<1>3. ASSUME NEW r \in Requests, Decisions!WriteAck(r) \/
             Decisions!NothingToRevoke(r) \/ Decisions!WriteUnderJobLock(r)
      PROVE  InTurn'
  <2>1. /\ UNCHANGED <<log, does, start>> /\ requestAt[r] = "started"
        /\ \E a \in {"written", "done"} :
             requestAt' = [requestAt EXCEPT ![r] = a]
    BY <1>3 DEF Decisions!WriteAck, Decisions!NothingToRevoke,
      Decisions!WriteUnderJobLock
  <2>2. Decisions!OpenRequests' \subseteq Decisions!OpenRequests
        /\ \A q \in Requests : requestAt'[q] \in {"started", "written"} =>
             requestAt[q] \in {"started", "written"}
    BY <2>1 DEF Decisions!OpenRequests, DecisionsInv, DecisionsHaveTypes
  <2>3. ASSUME NEW q \in Requests, requestAt'[q] = "written"
        PROVE  draft'[q] = Decisions!AckCodes(q)
    <3>1. CASE q # r
      BY <1>3, <2>1, <2>3, <3>1 DEF InTurn, Decisions!WriteAck,
        Decisions!NothingToRevoke, Decisions!WriteUnderJobLock, DecisionsInv,
        DecisionsHaveTypes
    <3>2. CASE q = r
      BY <1>3, <2>1, <2>3, <3>2 DEF Decisions!WriteAck,
        Decisions!NothingToRevoke, Decisions!WriteUnderJobLock, DecisionsInv,
        DecisionsHaveTypes
    <3> QED
      BY <3>1, <3>2
  <2>4. /\ Decisions!AckCodes(r)' = Decisions!AckCodes(r)
        /\ \A q \in Requests : Decisions!AckCodes(q)' = Decisions!AckCodes(q)
    BY <2>1 DEF Decisions!AckCodes, Decisions!Excludes
  <2> QED
    BY <2>1, <2>2, <2>3, <2>4 DEF InTurn, Decisions!AcceptedStaysAccepted
<1>4. ASSUME NEW r \in Requests, Decisions!Commit(r) PROVE InTurn'
  <2>1. /\ UNCHANGED <<does, start, draft>> /\ requestAt[r] = "written"
        /\ requestAt' = [requestAt EXCEPT ![r] = "saved"]
    BY <1>4 DEF Decisions!Commit
  <2>2. /\ Decisions!OpenRequests' = Decisions!OpenRequests
        /\ r \in Decisions!OpenRequests
    BY <2>1 DEF Decisions!OpenRequests, DecisionsInv, DecisionsHaveTypes
  <2>3. \A q \in Requests : requestAt'[q] \notin {"started", "written"}
    BY <2>1, <2>2 DEF InTurn, Decisions!OpenRequests, DecisionsInv,
      DecisionsHaveTypes
  <2>4. /\ log' = log \cup Decisions!RowsOf(r) /\ Cardinality(log) \in Nat
        /\ \A x \in Decisions!RowsOf(r) : /\ x.time = start[r] /\ x.time \in Nat
                                         /\ x.order = Cardinality(log) + 1
        /\ \A y \in log : y.time < start[r] /\ y.time \in Nat /\
             y.order \in 1..Cardinality(log)
    BY SameSizes, <1>4, <2>1, RowsAreNew DEF InTurn, DecisionsInv,
      LogIsNumbered, LogRow
  <2>5. \A x, y \in log' : x.time < y.time => x.order < y.order
    BY <2>4 DEF InTurn
  <2> QED
    BY <1>4, <2>2, <2>3, <2>5, CommitInTurn DEF InTurn
<1>5. ASSUME NEW r \in Requests,
             Decisions!Send(r) \/ Decisions!SendFails(r)
      PROVE  InTurn'
  <2>1. /\ UNCHANGED <<log, does, start, draft>>
        /\ requestAt' = [requestAt EXCEPT ![r] = "done"]
    BY SameSizes, <1>5 DEF Decisions!Send, Decisions!SendFails
  <2>2. Decisions!OpenRequests' \subseteq Decisions!OpenRequests
        /\ \A q \in Requests : requestAt'[q] \in {"started", "written"} =>
             requestAt'[q] = requestAt[q]
    BY <2>1 DEF Decisions!OpenRequests, DecisionsInv, DecisionsHaveTypes
  <2>3. \A q \in Requests : Decisions!AckCodes(q)' = Decisions!AckCodes(q)
    BY <2>1 DEF Decisions!AckCodes, Decisions!Excludes
  <2> QED
    BY <2>1, <2>2, <2>3 DEF InTurn, Decisions!AcceptedStaysAccepted
<1>6. ASSUME NEW w \in Workers, NEW wrote \in BOOLEAN, AnalysisStep(w, wrote)
      PROVE  InTurn'
  BY <1>1, <1>6 DEF AnalysisStep, Decisions!Take, Decisions!Finish,
    Decisions!Fails, Decisions!Mark, Decisions!Retries, Decisions!GivesUp,
    Decisions!Dies, Decisions!BrokenOff, Decisions!requestVars
<1>7. CASE UNCHANGED Decisions!vars
  BY <1>1, <1>7 DEF Decisions!vars, Decisions!requestVars
<1> QED
  BY <1>2, <1>3, <1>4, <1>5, <1>6, <1>7, DecisionSteps

LEMMA InTurnBegins == Decisions!Init => InTurn
BY DEF Decisions!Init, InTurn, Decisions!OpenRequests,
  Decisions!AcceptedStaysAccepted

(* A valid row is later than an edit, so it was saved after it.            *)
LEMMA EditsDoAskAgain ==
  DecisionsInv /\ InTurn =>
    Decisions!AcceptedStaysAccepted /\ Decisions!EditsAskAgain
<1>1. SUFFICES ASSUME DecisionsInv, InTurn, NEW e \in Decisions!EditsIn(log),
                      NEW x \in Decisions!ValidRows(log)
               PROVE  e.order < x.order
  BY SameSizes DEF InTurn, Decisions!EditsAskAgain
<1>2. e \in log /\ x \in log /\ x.time > e.time
  BY DEF Decisions!EditsIn, Decisions!ValidRows
<1>3. x.time \in Nat /\ e.time \in Nat
  BY <1>1, <1>2 DEF DecisionsInv, LogIsNumbered, LogRow
<1> QED
  BY <1>1, <1>2, <1>3 DEF InTurn

LEMMA ResultsFollow ==
  ASSUME Decisions!DecisionsAssumption, DecisionsInv
  PROVE  Decisions!TypeOK /\ Decisions!ResultFollowsDecisions
<1>1. Decisions!ResultFollowsDecisions
  <2>1. SUFFICES ASSUME Decisions!AtRest, Decisions!LastWasSent
                 PROVE  result = Decisions!Effective(log) \/ marked \/ gaveUp
    BY DEF Decisions!ResultFollowsDecisions
  <2>2. \A x \in log : requestAt[x.by] # "saved"
    BY <2>1 DEF Decisions!AtRest, Decisions!OpenRequests, DecisionsInv,
      LogIsNumbered, LogRow
  <2>3. ~ Pending
    BY <2>1, <2>2 DEF Decisions!AtRest, Decisions!LastWasSent, Pending, IsLast
  <2> QED
    BY <2>1, <2>3 DEF Decisions!AtRest, DecisionsInv, AnalysesCatchUp
<1>2. Begun \subseteq Requests
  BY DEF Begun
<1>3. /\ Cardinality(Requests) \in Nat
      /\ Cardinality(Begun) \in Nat
      /\ Cardinality(Begun) <= Cardinality(Requests)
  BY SameSizes, <1>2, FS_Subset, FS_CardinalityType
    DEF Decisions!DecisionsAssumption
<1>4. clock \in 1..(Cardinality(Requests) + 1)
  BY <1>3 DEF DecisionsInv, TimesAreCounted
<1>5. \A x \in log : /\ x.kind \in Decisions!Kinds /\ x.time < clock /\
                          x.codes \subseteq Codes
                     /\ x.order \in 1..Cardinality(log)
  BY DEF DecisionsInv, LogIsNumbered, LogRow
<1> QED
  BY SameSizes, <1>1, <1>4, <1>5 DEF DecisionsInv, Decisions!TypeOK,
    DecisionsHaveTypes, LocksAreHeld

-----------------------------------------------------------------------------
(* The current results                                                     *)

USE ResultsAssumption

(* The inductive invariant                                                 *)

(* The row of the newest post starts as current, and nobody has decided to *)
(* hide it.                                                                *)
NewestIsSafe ==
  /\ row[N] # NoRow => N \in current
  /\ \A w \in Processes : N \notin plan[w].hidden

(* Posts that are current for a pair not in S are the newest that have it. *)
OnlyTops(S) ==
  \A p \in current : row[p] \in Pairs \ S => TopOfItsPair(row, p)

(* What is shown was shown after the last merge.                           *)
IsSettled(p) == row[p] \in Pairs => <<p, row[p]>> \in settled

(* What the merge of w takes for current of its own post was shown.        *)
NoteIsSettled(w) ==
  /\ mode[w] # "unguarded"
  /\ mode[w] = "noted" => \A x \in prior[w] : <<post[w], x>> \in settled
  /\ mode[w] = "unnoted" => \A x \in Pairs : <<post[w], x>> \in settled

AtRest(w) == at[w] \in {"idle", "reading", "editing"}
Merging(w) == at[w] \in {"committed", "ranked"}

(* In turn: between two merges every pair is in order, and during one only *)
(* those that it is about to put in order are not.                         *)
TurnsAreTidy ==
  inTurn =>
    /\ InOrder
    /\ (\A w \in Processes : AtRest(w)) =>
         OnlyTops({}) /\ \A p \in current : IsSettled(p)
    /\ \A w \in Processes :
         /\ at[w] = "reading" =>
              extra[w] = PairsIn(row, post[w]) /\ NoteIsSettled(w)
         /\ Merging(w) =>
              /\ OnlyTops(Touched(w, row)) /\ NoteIsSettled(w)
              /\ \A p \in current \ {post[w]} : IsSettled(p)
         /\ at[w] = "ranked" =>
              plan[w] = Decide(w, mode[w], row, Touched(w, row))
         /\ at[w] = "editing" =>
              plan[w] = Decide(w, "unguarded", [row EXCEPT ![post[w]] = NoRow],
                               PairsIn(row, post[w]))

IInv == TypeOK /\ NewestIsSafe /\ TurnsAreTidy

-----------------------------------------------------------------------------
(* Lemmas about the merge                                                  *)

(* A merge never decides to hide the newest post.                          *)
LEMMA NewestIsRight ==
  ASSUME NEW w \in Processes, NEW m, NEW rows, NEW touched
  PROVE  /\ Decide(w, m, rows, touched).shown \subseteq Posts
         /\ Decide(w, m, rows, touched).hidden \subseteq Posts
         /\ N \notin Decide(w, m, rows, touched).hidden
<1>1. \A q \in Posts : ~ (q > N)
  BY DEF Posts
<1>2. ShouldBeCurrent(w, m, rows, N)
  BY <1>1 DEF ShouldBeCurrent, TopOfItsPair, NewerSameProduct
<1> QED
  BY <1>2 DEF Decide

(* What is current after a merge.                                          *)
LEMMA AfterDecide ==
  ASSUME NEW w \in Processes, NEW m, NEW rows, NEW touched, NEW p \in Posts,
         plan[w] = Decide(w, m, rows, touched), p \in AfterPlan(w)
  PROVE  /\ rows[p] \in touched => ShouldBeCurrent(w, m, rows, p)
         /\ rows[p] \notin touched => p \in current
BY DEF Decide, AfterPlan

-----------------------------------------------------------------------------
(* Types, and the newest post                                              *)

LEMMA TypesHold ==
  ASSUME TypeOK, [Next]_vars
  PROVE  TypeOK'
<1> USE DEF TypeOK, Steps, Modes
<1>1. CASE UNCHANGED vars
  BY <1>1 DEF vars
<1>2. inTurn' \in BOOLEAN
  BY DEF Next, vars
<1>3. ASSUME NEW w \in Processes, NEW p \in Posts, Begin(w, p) PROVE TypeOK'
  BY <1>2, <1>3 DEF Begin, PairsIn
<1>4. ASSUME NEW w \in Processes, NEW p \in Posts, Edit(w, p) PROVE TypeOK'
  <2>1. Decide(w, "unguarded", [row EXCEPT ![p] = NoRow], PairsIn(row, p))
          \in [shown : SUBSET Posts, hidden : SUBSET Posts]
    BY DEF Decide
  <2>2. plan' \in [Processes -> [shown : SUBSET Posts, hidden : SUBSET Posts]]
    BY <1>4, <2>1 DEF Edit
  <2>3. \A q \in Posts, v \in Processes :
          lock'[q] = v <=> at'[v] \in {"reading", "editing"} /\ post'[v] = q
    BY <1>4 DEF Edit
  <2>4. /\ lock' \in [Posts -> Processes \cup {Free}]
        /\ at' \in [Processes -> Steps]
        /\ post' \in [Processes -> Posts]
        /\ mode' \in [Processes -> Modes]
        /\ runs' \in 0..MaxRuns
    BY <1>4 DEF Edit
  <2>5. UNCHANGED <<row, current, extra, prior, settled, faults>>
    BY <1>4 DEF Edit
  <2> QED
    BY <1>2, <2>2, <2>3, <2>4, <2>5
<1>5. ASSUME NEW w \in Processes, NEW x \in Outcomes, Write(w, x) PROVE TypeOK'
  BY <1>2, <1>5 DEF Write
<1>6. ASSUME NEW w \in Processes, NothingTouched(w) PROVE TypeOK'
  BY <1>2, <1>6 DEF NothingTouched
<1>7. ASSUME NEW w \in Processes, Rank(w) PROVE TypeOK'
  <2>1. Decide(w, mode[w], row, Touched(w, row))
          \in [shown : SUBSET Posts, hidden : SUBSET Posts]
    BY DEF Decide
  <2> QED
    BY <1>2, <1>7, <2>1 DEF Rank
<1>8. ASSUME NEW w \in Processes, Apply(w) PROVE TypeOK'
  BY <1>2, <1>8 DEF Apply, AfterPlan, NoPlan, Shown
<1>9. ASSUME NEW w \in Processes, CommitEdit(w) PROVE TypeOK'
  BY <1>2, <1>9 DEF CommitEdit, AfterPlan, NoPlan, ForgetRow, Shown
<1>10. ASSUME NEW w \in Processes, BreakOff(w) PROVE TypeOK'
  BY <1>2, <1>10 DEF BreakOff, NoPlan
<1> QED
  BY <1>1, <1>3, <1>4, <1>5, <1>6, <1>7, <1>8, <1>9, <1>10 DEF Next, Step

LEMMA NewestStaysSafe ==
  ASSUME TypeOK, NewestIsSafe, [Next]_vars
  PROVE  NewestIsSafe'
<1> USE DEF TypeOK, NewestIsSafe
<1>1. N \in Posts
  BY DEF Posts
<1>2. CASE UNCHANGED vars
  BY <1>2 DEF vars
<1>3. ASSUME NEW w \in Processes, NEW p \in Posts,
             Begin(w, p)
      PROVE  NewestIsSafe'
  BY <1>3 DEF Begin
<1>4. ASSUME NEW w \in Processes, NEW p \in Posts,
             Edit(w, p)
      PROVE  NewestIsSafe'
  BY <1>4, NewestIsRight DEF Edit
<1>5. ASSUME NEW w \in Processes, NEW x \in Outcomes,
             Write(w, x)
      PROVE  NewestIsSafe'
  BY <1>1, <1>5 DEF Write
<1>6. ASSUME NEW w \in Processes, NothingTouched(w) PROVE NewestIsSafe'
  BY <1>6 DEF NothingTouched
<1>7. ASSUME NEW w \in Processes, Rank(w) PROVE NewestIsSafe'
  BY <1>7, NewestIsRight DEF Rank
<1>8. ASSUME NEW w \in Processes, Apply(w) PROVE NewestIsSafe'
  BY <1>8 DEF Apply, AfterPlan, NoPlan
<1>9. ASSUME NEW w \in Processes, CommitEdit(w) PROVE NewestIsSafe'
  BY <1>1, <1>9 DEF CommitEdit, AfterPlan, NoPlan, ForgetRow
<1>10. ASSUME NEW w \in Processes, BreakOff(w) PROVE NewestIsSafe'
  BY <1>10 DEF BreakOff, NoPlan
<1> QED
  BY <1>2, <1>3, <1>4, <1>5, <1>6, <1>7, <1>8, <1>9, <1>10 DEF Next, Step

-----------------------------------------------------------------------------
(* Runs that follow each other                                             *)

(* While inTurn goes on, nobody but the process that steps is at work.     *)
LEMMA OthersRest ==
  ASSUME TypeOK, InOrder', NEW w \in Processes, at'[w] # "idle"
  PROVE  \A v \in Processes : v # w => at'[v] = "idle"
BY DEF InOrder

LEMMA TidyBegin ==
  ASSUME TypeOK, TurnsAreTidy, inTurn, InOrder', inTurn' = TRUE,
         NEW w \in Processes, NEW p \in Posts, Begin(w, p)
  PROVE  TurnsAreTidy'
<1> USE DEF TypeOK, Begin
<1>1. at'[w] = "reading" /\ \A v \in Processes : v # w => at'[v] = "idle"
  BY OthersRest
<1>2. \A v \in Processes : at[v] = "idle"
  BY <1>1
<1>3. OnlyTops({}) /\ \A q \in current : IsSettled(q)
  BY <1>2 DEF TurnsAreTidy, AtRest
<1>4. OnlyTops({})'
  BY <1>3 DEF OnlyTops, TopOfItsPair
<1>5. settled \subseteq settled'
  OBVIOUS
<1>6. \A q \in current' : IsSettled(q)'
  BY <1>3, <1>5 DEF IsSettled
<1>7. extra'[w] = PairsIn(row', post'[w])
  BY DEF PairsIn
<1>8. NoteIsSettled(w)'
  <2>1. CASE row[p] \in Pairs
    <3>1. mode'[w] = "noted" /\ post'[w] = p
      BY <2>1
    <3>2. prior'[w] = {x \in PairsIn(row, p) : p \in current}
      OBVIOUS
    <3>3. \A x \in prior'[w] : p \in current /\ x = row[p]
      BY <3>2 DEF PairsIn
    <3> QED
      BY <1>3, <1>5, <2>1, <3>1, <3>3 DEF NoteIsSettled, IsSettled
  <2>2. CASE row[p] \notin Pairs
    <3>1. row[p] = NoRow
      BY <2>2 DEF TurnsAreTidy, InOrder
    <3> QED
      BY <2>2, <3>1 DEF NoteIsSettled
  <2> QED
    BY <2>1, <2>2
<1> QED
  BY <1>1, <1>4, <1>6, <1>7, <1>8 DEF TurnsAreTidy, Merging

LEMMA TidyWrite ==
  ASSUME TypeOK, TurnsAreTidy, inTurn, InOrder', inTurn' = TRUE,
         NEW w \in Processes, NEW x \in Outcomes, Write(w, x)
  PROVE  TurnsAreTidy'
<1> USE DEF TypeOK, Write
<1>1. at'[w] = "committed" /\ \A v \in Processes : v # w => at'[v] = "idle"
  BY OthersRest
<1>2. \A v \in Processes : AtRest(v)
  BY <1>1 DEF AtRest
<1>3. /\ OnlyTops({}) /\ \A q \in current : IsSettled(q)
      /\ extra[w] = PairsIn(row, post[w]) /\ NoteIsSettled(w)
  BY <1>2 DEF TurnsAreTidy
<1>4. \A q \in Posts : q # post[w] =>
        row'[q] = row[q] /\ (q \in current' => q \in current)
  OBVIOUS
<1>5. row'[post[w]] = x
  OBVIOUS
<1>6. OnlyTops(Touched(w, row))'
  <2> SUFFICES ASSUME NEW q \in current', row'[q] \in Pairs \ Touched(w, row)',
                      NEW r \in Posts, r > q
               PROVE  row'[r] # row'[q]
    BY DEF OnlyTops, TopOfItsPair
  <2>1. row'[q] # row[post[w]] /\ row'[q] # x
    BY <1>3, <1>5 DEF Touched, PairsIn
  <2>2. q # post[w] /\ q \in current /\ row'[q] = row[q]
    BY <1>4, <1>5, <2>1
  <2>3. row[r] # row[q]
    BY <1>3, <2>2 DEF OnlyTops, TopOfItsPair
  <2> QED
    BY <1>4, <1>5, <2>1, <2>2, <2>3
<1>7. NoteIsSettled(w)'
  BY <1>3 DEF NoteIsSettled
<1>8. \A q \in current' \ {post'[w]} : IsSettled(q)'
  BY <1>3, <1>4 DEF IsSettled
<1> QED
  BY <1>1, <1>6, <1>7, <1>8 DEF TurnsAreTidy, Merging, AtRest

LEMMA TidyNothing ==
  ASSUME TypeOK, TurnsAreTidy, inTurn, InOrder', inTurn' = TRUE,
         NEW w \in Processes, NothingTouched(w)
  PROVE  TurnsAreTidy'
<1> USE DEF TypeOK, NothingTouched
<1>1. at'[w] = "idle" /\ \A v \in Processes : v # w => at[v] = "idle"
  BY DEF TurnsAreTidy, InOrder
<1>2. OnlyTops({}) /\ \A q \in current \ {post[w]} : IsSettled(q)
  <2>1. /\ OnlyTops(Touched(w, row))
        /\ \A q \in current \ {post[w]} : IsSettled(q)
    BY DEF TurnsAreTidy, Merging
  <2> QED
    BY <2>1 DEF OnlyTops
<1>3. row[post[w]] \notin Pairs
  BY DEF Touched, PairsIn
<1>4. OnlyTops({})' /\ \A q \in current' : IsSettled(q)'
  BY <1>2, <1>3 DEF OnlyTops, IsSettled, TopOfItsPair
<1>5. \A v \in Processes : at'[v] = "idle"
  BY <1>1
<1> QED
  BY <1>4, <1>5 DEF TurnsAreTidy, Merging

LEMMA TidyRank ==
  ASSUME TypeOK, TurnsAreTidy, inTurn, InOrder', inTurn' = TRUE,
         NEW w \in Processes, Rank(w)
  PROVE  TurnsAreTidy'
<1> USE DEF TypeOK, Rank
<1>1. at'[w] = "ranked" /\ \A v \in Processes : v # w => at'[v] = "idle"
  BY OthersRest
<1>2. /\ OnlyTops(Touched(w, row)) /\ NoteIsSettled(w)
      /\ \A q \in current \ {post[w]} : IsSettled(q)
  BY DEF TurnsAreTidy, Merging
<1>3. /\ OnlyTops(Touched(w, row))' /\ NoteIsSettled(w)'
      /\ \A q \in current' \ {post'[w]} : IsSettled(q)'
  BY <1>2 DEF OnlyTops, NoteIsSettled, IsSettled, Touched, TopOfItsPair,
    PairsIn
<1>4. plan'[w] = Decide(w, mode[w], row, Touched(w, row))
  OBVIOUS
<1>5. Decide(w, mode[w], row, Touched(w, row))' =
        Decide(w, mode[w], row, Touched(w, row))
  BY DEF Decide, ShouldBeCurrent, Touched, TopOfItsPair, NewerSameProduct,
    PairsIn
<1> QED
  BY <1>1, <1>3, <1>4, <1>5 DEF TurnsAreTidy, Merging, AtRest

(* What Apply shows is in order, and was shown before or is the newest of  *)
(* its product.                                                            *)
LEMMA ApplyInTurn ==
  ASSUME TypeOK, TurnsAreTidy, inTurn, NEW w \in Processes, Apply(w)
  PROVE  /\ \A p \in current' : row[p] \in Pairs => TopOfItsPair(row, p)
         /\ \A p \in current' :
              row[p] \in Pairs /\ <<p, row[p]>> \notin settled =>
                ~ NewerSameProduct(row, p)
<1> USE DEF TypeOK, Apply
<1>1. /\ OnlyTops(Touched(w, row)) /\ NoteIsSettled(w)
      /\ \A q \in current \ {post[w]} : IsSettled(q)
      /\ plan[w] = Decide(w, mode[w], row, Touched(w, row))
  BY DEF TurnsAreTidy, Merging
<1> SUFFICES ASSUME NEW p \in current', row[p] \in Pairs
             PROVE  /\ TopOfItsPair(row, p)
                    /\ <<p, row[p]>> \notin settled =>
                         ~ NewerSameProduct(row, p)
  OBVIOUS
<1>2. p \in Posts /\ p \in AfterPlan(w)
  BY DEF AfterPlan
<1>3. CASE row[p] \in Touched(w, row)
  <2>1. ShouldBeCurrent(w, mode[w], row, p)
    BY <1>1, <1>2, <1>3, AfterDecide
  <2>2. \/ p = post[w] /\ mode[w] = "noted" /\ row[p] \in prior[w]
        \/ ~ (p = post[w] /\ mode[w] = "noted") /\ p \in current
        \/ ~ NewerSameProduct(row, p)
    BY <1>1, <2>1 DEF ShouldBeCurrent, NoteIsSettled
  <2>3. CASE p = post[w]
    BY <1>1, <2>1, <2>2, <2>3 DEF NoteIsSettled, Modes, ShouldBeCurrent
  <2>4. CASE p # post[w]
    BY <1>1, <2>1, <2>2, <2>4 DEF IsSettled, ShouldBeCurrent
  <2> QED
    BY <2>3, <2>4
<1>4. CASE row[p] \notin Touched(w, row)
  <2>1. p \in current
    BY <1>1, <1>2, <1>4 DEF Decide, AfterPlan
  <2>2. p # post[w]
    BY <1>4 DEF Touched, PairsIn
  <2> QED
    BY <1>1, <1>4, <2>1, <2>2 DEF OnlyTops, IsSettled
<1> QED
  BY <1>3, <1>4

LEMMA TidyApply ==
  ASSUME TypeOK, TurnsAreTidy, inTurn, InOrder', inTurn' = TRUE,
         NEW w \in Processes, Apply(w)
  PROVE  TurnsAreTidy'
<1> USE DEF TypeOK, Apply
<1>1. \A v \in Processes : at'[v] = "idle"
  BY DEF TurnsAreTidy, InOrder
<1>2. OnlyTops({})'
  BY ApplyInTurn DEF OnlyTops, TopOfItsPair
<1>3. current' \subseteq Posts
  BY DEF AfterPlan
<1>4. \A q \in current' : IsSettled(q)'
  BY <1>3 DEF IsSettled, Shown
<1> QED
  BY <1>1, <1>2, <1>4 DEF TurnsAreTidy, Merging

LEMMA TidyEdit ==
  ASSUME TypeOK, TurnsAreTidy, inTurn, InOrder', inTurn' = TRUE,
         NEW w \in Processes, NEW p \in Posts, Edit(w, p)
  PROVE  TurnsAreTidy'
<1> USE DEF TypeOK, Edit
<1>1. at'[w] = "editing" /\ \A v \in Processes : v # w => at'[v] = "idle"
  BY OthersRest
<1>2. \A v \in Processes : at[v] = "idle"
  BY <1>1
<1>3. OnlyTops({}) /\ \A q \in current : IsSettled(q)
  BY <1>2 DEF TurnsAreTidy, AtRest
<1>4. OnlyTops({})' /\ \A q \in current' : IsSettled(q)'
  BY <1>3 DEF OnlyTops, IsSettled, TopOfItsPair
<1>5. plan'[w] = Decide(w, "unguarded", [row EXCEPT ![p] = NoRow],
                      PairsIn(row, p))
  OBVIOUS
<1>6. Decide(w, "unguarded", [row EXCEPT ![p] = NoRow], PairsIn(row, p))
        = Decide(w, "unguarded", [row EXCEPT ![post[w]] = NoRow],
                 PairsIn(row, post[w]))'
  BY DEF Decide, ShouldBeCurrent, TopOfItsPair, NewerSameProduct, PairsIn
<1> QED
  BY <1>1, <1>4, <1>5, <1>6 DEF TurnsAreTidy, Merging

LEMMA TidyCommitEdit ==
  ASSUME TypeOK, TurnsAreTidy, inTurn, InOrder', inTurn' = TRUE,
         NEW w \in Processes, CommitEdit(w)
  PROVE  TurnsAreTidy'
<1> USE DEF TypeOK, CommitEdit
<1>1. \A v \in Processes : at'[v] = "idle" /\ AtRest(v)
  BY DEF TurnsAreTidy, InOrder, AtRest
<1>2. /\ OnlyTops({})
      /\ plan[w] = Decide(w, "unguarded", [row EXCEPT ![post[w]] = NoRow],
                          PairsIn(row, post[w]))
  BY <1>1 DEF TurnsAreTidy
<1>3. OnlyTops({})'
  <2> SUFFICES ASSUME NEW p \in current', row'[p] \in Pairs
               PROVE TopOfItsPair(row', p)
    BY DEF OnlyTops
  <2>1. p \in Posts /\ p \in AfterPlan(w) /\ p # post[w] /\ row'[p] = row[p]
    BY DEF AfterPlan
  <2>2. CASE row'[p] \in PairsIn(row, post[w])
    BY <1>2, <2>1, <2>2 DEF ShouldBeCurrent, Decide, AfterPlan
  <2>3. CASE row'[p] \notin PairsIn(row, post[w])
    <3>1. p \in current /\ TopOfItsPair(row, p)
      BY <1>2, <2>1, <2>3 DEF OnlyTops, Decide, AfterPlan
    <3> QED
      BY <2>1, <3>1 DEF TopOfItsPair
  <2> QED
    BY <2>2, <2>3
<1>4. current' \subseteq Posts
  BY DEF AfterPlan
<1>5. \A q \in current' : IsSettled(q)'
  BY <1>4 DEF IsSettled, Shown
<1> QED
  BY <1>1, <1>3, <1>5 DEF TurnsAreTidy, Merging

LEMMA TidyStep ==
  ASSUME TypeOK, TurnsAreTidy, [Next]_vars
  PROVE  TurnsAreTidy'
<1>1. CASE UNCHANGED vars
  BY <1>1
  DEF vars, TurnsAreTidy, InOrder, AtRest, Merging, OnlyTops, IsSettled,
      NoteIsSettled, TopOfItsPair, Touched, PairsIn, Decide, ShouldBeCurrent,
      NewerSameProduct
<1>2. CASE Next
  <2>1. CASE ~ inTurn'
    BY <2>1 DEF TurnsAreTidy
  <2>2. CASE inTurn'
    <3>1. inTurn /\ InOrder' /\ inTurn' = TRUE
      BY <1>2, <2>2 DEF Next, TypeOK
    <3>2. ASSUME NEW w \in Processes PROVE ~ BreakOff(w)
      BY <3>1 DEF BreakOff, InOrder, TypeOK
    <3> QED
      BY <1>2, <2>2, <3>1, <3>2, TidyBegin, TidyWrite, TidyNothing, TidyRank,
         TidyApply, TidyEdit, TidyCommitEdit
      DEF Next, Step
  <2> QED
    BY <2>1, <2>2
<1> QED
  BY <1>1, <1>2

-----------------------------------------------------------------------------
(* The theorems                                                            *)

LEMMA Inductive == Spec => []IInv
<1>1. Init => IInv
  BY DEF Init, IInv, TypeOK, NewestIsSafe, TurnsAreTidy, InOrder, OnlyTops,
         IsSettled, AtRest, Merging, Posts, Steps, Modes, NoPlan
<1>2. IInv /\ [Next]_vars => IInv'
  BY TypesHold, NewestStaysSafe, TidyStep DEF IInv
<1> QED
  BY <1>1, <1>2, PTL DEF Spec

(* Every variable keeps its type, and a lock is held exactly by the        *)
(* process that is inside its transaction.                                 *)
THEOREM TypeCorrect == Spec => []TypeOK
<1>1. IInv => TypeOK
  BY DEF IInv
<1> QED
  BY <1>1, Inductive, PTL

(* The newest post of a supplier is shown whatever overlaps or is broken   *)
(* off; while runs follow each other no older post of the same pair stays, *)
(* and no merge brings back one that a newer post of the product replaced. *)
THEOREM NewerPostsDoWin == Spec => NewerPostsWin
<1>1. IInv => NewestPostIsShown
  BY DEF IInv, TypeOK, NewestIsSafe, NewestPostIsShown
<1>2. IInv => (inTurn => OldPostsAreHidden)
  BY DEF IInv, TurnsAreTidy, AtRest, OnlyTops, OldPostsAreHidden
<1>3. IInv /\ [Next]_vars => [inTurn' => NothingRevived]_vars
  <2> SUFFICES ASSUME IInv, Next, inTurn', NEW w \in Processes,
                      at[w] = "ranked", at'[w] = "idle"
               PROVE  \A p \in current' :
                        row[p] \in Pairs /\ <<p, row[p]>> \notin settled =>
                          ~ NewerSameProduct(row, p)
    BY DEF NothingRevived
  <2>1. inTurn /\ InOrder /\ InOrder'
    BY DEF Next, IInv, TurnsAreTidy, TypeOK
  <2>2. PICK v \in Processes : Step(v)
    BY DEF Next
  <2> USE DEF IInv, TypeOK
  <2>3. faults' = 0
    BY <2>1 DEF InOrder
  <2>4. \A x \in Posts : ~ Begin(v, x) /\ ~ Edit(v, x)
    BY DEF Begin, Edit
  <2>5. \A x \in Outcomes : ~ Write(v, x)
    BY DEF Write
  <2>6. ~ NothingTouched(v) /\ ~ Rank(v) /\ ~ CommitEdit(v) /\ ~ BreakOff(v)
    BY <2>3 DEF NothingTouched, Rank, CommitEdit, BreakOff
  <2>7. Apply(v)
    BY <2>2, <2>4, <2>5, <2>6 DEF Step
  <2>8. v = w
    BY <2>7 DEF Apply
  <2> QED
    BY <2>1, <2>7, <2>8, ApplyInTurn
<1> QED
  BY <1>1, <1>2, <1>3, Inductive, PTL DEF NewerPostsWin, Spec
-----------------------------------------------------------------------------
(* All of the catalogue                                                    *)

CatalogueVars == <<part, vars, importVars, decisionVars>>

(* A step of one part keeps the variables of the others.                   *)
LEMMA PartsRun ==
  Catalogue => /\ Spec
               /\ Import!Init /\ [][Import!Next]_Import!vars
               /\ Decisions!Init /\ [][Decisions!Next]_Decisions!vars
<1>1. InitOfPart => Init /\ Import!Init /\ Decisions!Init
  BY DEF InitOfPart
<1>2. [NextOfPart]_CatalogueVars => [Next]_vars
  BY DEF NextOfPart, CatalogueVars, vars
<1>3. [NextOfPart]_CatalogueVars => [Import!Next]_Import!vars
  BY DEF NextOfPart, CatalogueVars, importVars, Import!vars
<1>4. [NextOfPart]_CatalogueVars => [Decisions!Next]_Decisions!vars
  BY DEF NextOfPart, CatalogueVars, decisionVars, Decisions!vars,
    Decisions!requestVars, Decisions!analysisVars
<1> QED
  BY <1>1, <1>2, <1>3, <1>4, PTL DEF Catalogue, CatalogueVars, Spec

LEMMA ImportInvAlways == Catalogue => []ImportInv
<1>1. Import!Init => ImportInv
  BY SuppliersAreKnown, ImportBegins
<1>2. ImportInv /\ [Import!Next]_Import!vars => ImportInv'
  BY SuppliersAreKnown, ImportStays
<1> QED
  BY <1>1, <1>2, PartsRun, PTL

LEMMA DecisionsInvAlways == Catalogue => []DecisionsInv
<1>1. Decisions!Init => DecisionsInv
  BY CatalogueAssumption, DecisionsBegin DEF CatalogueAssumption
<1>2. DecisionsInv /\ [Decisions!Next]_Decisions!vars => DecisionsInv'
  BY CatalogueAssumption, DecisionsStay DEF CatalogueAssumption
<1> QED
  BY <1>1, <1>2, PartsRun, PTL

LEMMA InTurnAlways ==
  Catalogue => [](part \in Parts /\ (part = "decisions in turn" => InTurn))
<1>1. InitOfPart => part \in Parts /\ InTurn
  BY InTurnBegins DEF InitOfPart
<1>2. part \in Parts /\ [NextOfPart]_CatalogueVars => (part \in Parts)'
  BY DEF NextOfPart, CatalogueVars
<1>3. DecisionsInv /\ (part = "decisions in turn" => InTurn)
        /\ [NextOfPart]_CatalogueVars
        => (part = "decisions in turn" => InTurn)'
  <2> SUFFICES ASSUME DecisionsInv, part = "decisions in turn" => InTurn,
                      [NextOfPart]_CatalogueVars, part' = "decisions in turn"
               PROVE  InTurn'
    OBVIOUS
  <2>1. part = "decisions in turn" /\ InTurn
    BY DEF NextOfPart, CatalogueVars
  <2>2. [Decisions!Next /\ DecisionsOfPart]_Decisions!vars
    BY <2>1 DEF NextOfPart, CatalogueVars, decisionVars, Decisions!vars,
      Decisions!requestVars, Decisions!analysisVars
  <2>3. \A r \in Requests : Decisions!Begin(r) => Decisions!OpenRequests = {}
    <3> SUFFICES ASSUME NEW r \in Requests, Decisions!Begin(r),
                        NEW s \in Decisions!OpenRequests
                 PROVE  FALSE
      OBVIOUS
    <3>1. /\ requestAt' = [requestAt EXCEPT ![r] = "started"]
          /\ requestAt[r] = "idle"
          /\ clock' = clock + 1
      BY DEF Decisions!Begin
    <3>2. /\ r # s /\ r \in Decisions!OpenRequests'
          /\ s \in Decisions!OpenRequests'
      BY <3>1 DEF Decisions!OpenRequests, DecisionsInv, DecisionsHaveTypes
    <3>3. Decisions!vars' # Decisions!vars
      BY <3>1, <3>2 DEF Decisions!vars, Decisions!requestVars, DecisionsInv,
        DecisionsHaveTypes
    <3> QED
      BY <2>1, <2>2, <3>2, <3>3 DEF DecisionsOfPart
  <2> QED
    BY <2>1, <2>2, <2>3, InTurnStays, CatalogueAssumption
      DEF CatalogueAssumption
<1> QED
  BY <1>1, <1>2, <1>3, DecisionsInvAlways, PTL DEF Catalogue, CatalogueVars

(* Imports of files of known suppliers never wait for each other in a      *)
(* circle, whatever the order of the files; each file is imported once and *)
(* each posting stored once, with one active message a channel; what was   *)
(* superseded does not become active again.                                *)
THEOREM ImportsDoKeepOrder == Catalogue => ImportsAreInOrder
<1>1. ImportInv => /\ Import!NobodyWaitsInACircle
                   /\ Import!FileImportedOnce /\ Import!PostingStoredOnce
                   /\ Import!OneActiveMessage
  BY SuppliersAreKnown, NoCircle, ImportHolds
<1>2. ImportInv /\ [Import!Next]_Import!vars =>
        [\A m \in stored \ active : m \notin active']_Import!vars
  BY SuppliersAreKnown, ImportStays
<1> QED
  BY <1>1, <1>2, PartsRun, ImportInvAlways, PTL
  DEF ImportsAreInOrder, Import!HistoryStaysClosed

(* When nothing is waiting or running and the analysis of the last         *)
(* decision was sent, the result reflects all decisions, whatever failed   *)
(* before, or the post says that an analysis failed, or one gave up after  *)
(* its last retry; in turn, what was accepted stays so until it is revoked *)
(* or the transcription edited, and an edit asks for every decision again. *)
THEOREM DecisionsDoStay == Catalogue => []DecisionsAreKept
<1>1. DecisionsInv => Decisions!ResultFollowsDecisions
  BY CatalogueAssumption, ResultsFollow DEF CatalogueAssumption
<1>2. DecisionsInv /\ InTurn =>
        Decisions!AcceptedStaysAccepted /\ Decisions!EditsAskAgain
  BY EditsDoAskAgain
<1>3. /\ Decisions!ResultFollowsDecisions
      /\ part = "decisions in turn" =>
           Decisions!AcceptedStaysAccepted /\ Decisions!EditsAskAgain
      => DecisionsAreKept
  BY DEF DecisionsAreKept
<1> QED
  BY <1>1, <1>2, <1>3, DecisionsInvAlways, InTurnAlways, PTL

(* Every variable of the catalogue keeps its type, in every part.          *)
THEOREM CatalogueTypes == Catalogue => []TypesOK
<1>1. ImportInv => Import!TypeOK
  BY SuppliersAreKnown, ImportHolds
<1>2. DecisionsInv => Decisions!TypeOK
  BY CatalogueAssumption, ResultsFollow DEF CatalogueAssumption
<1>3. part \in Parts /\ TypeOK /\ Import!TypeOK /\ Decisions!TypeOK => TypesOK
  BY DEF TypesOK
<1> QED
  BY <1>1, <1>2, <1>3, PartsRun, ImportInvAlways, DecisionsInvAlways,
     InTurnAlways, TypeCorrect, PTL

=============================================================================
