------------------------ MODULE ViewerAccountsProofs ------------------------
(***************************************************************************)
(* Theorems about ViewerAccounts, for any number of accounts, members,     *)
(* codes, rooms, interactions, requests and failures.                      *)
(***************************************************************************)
EXTENDS ViewerAccounts, TLAPS

USE ViewersAssumption DEF ViewerAccountsAssumption

-----------------------------------------------------------------------------
(* The inductive invariant                                                 *)

(* What a handler knows of the interaction it works on.                    *)
HandlersKnow ==
  \A h \in Handlers :
    /\ bot[h].at # "idle" =>
         bot[h].of \in Accounts /\ bot[h].member \in Members
    /\ bot[h].room # None <=> bot[h].at \in {"commit", "save", "discard"}

RequestsKnow == \A w \in Requests : web[w].at # "idle" =>
  web[w].of \in Accounts
LiveCodesHaveOwners == \A c \in Codes : code[c].state = "live" =>
  code[c].of \in Accounts

(* Who makes a room for a new viewer, and no other handler, holds the row  *)
(* of an account that nobody has joined.                                   *)
MakersHoldTheRow ==
  /\ \A h \in Handlers :
       bot[h].at \in {"make", "commit"} =>
         rowBy[bot[h].of] = h /\ Startable(bot[h].of)
  /\ \A h \in Handlers, a \in Accounts :
       rowBy[a] = h => bot[h].at \in {"make", "commit"} /\ bot[h].of = a

(* Who makes one again does it for a viewer, or for one who was purged.    *)
OpenersAreMembers ==
  \A h \in Handlers :
    bot[h].at \in {"remake", "save"} =>
      viewer[bot[h].of].member # None \/ viewer[bot[h].of].status = "gone"

PurgeHoldsTheOld ==
  /\ \A a \in purging : rowBy[a] = Purge /\ viewer[a].old
  /\ \A a \in Accounts :
       viewer[a].old => viewer[a].status \in {"pending", "trial", "suspended"}

(* A room a handler has made is nobody else's.                             *)
NewRoomsArePrivate ==
  \A h \in Handlers : bot[h].room # None =>
    /\ channel[bot[h].room].of = bot[h].of
    /\ \/ channel[bot[h].room].state \in {"here", "removed"}
       \/ viewer[bot[h].of].status = "gone" /\
            channel[bot[h].room].state = "cleared"
    /\ \A a \in Accounts : viewer[a].room # bot[h].room
    /\ \A g \in Handlers : bot[g].room = bot[h].room => g = h

(* Rooms are made for accounts, and the sweep has read those of accounts   *)
(* that were purged.                                                       *)
StraysHaveNobody ==
  /\ \A r \in Channels : channel[r].state # "none" =>
       channel[r].of \in Accounts
  /\ \A r \in strays :
       channel[r].state # "none" /\ viewer[channel[r].of].status = "gone"

OnlyMembersHaveRooms ==
  \A a \in Accounts : viewer[a].member = None => viewer[a].room = None

IInv ==
  /\ TypeOK
  /\ HandlersKnow /\ RequestsKnow /\ LiveCodesHaveOwners
  /\ MakersHoldTheRow /\ OpenersAreMembers /\ PurgeHoldsTheOld
  /\ NewRoomsArePrivate /\ StraysHaveNobody /\ OnlyMembersHaveRooms
  /\ ViewersHaveTheirRoom

-----------------------------------------------------------------------------
(* What stays true when some of the variables rest                         *)

LEMMA RoomsRest ==
  ASSUME IInv, UNCHANGED <<viewer, channel, strays>>
  PROVE  StraysHaveNobody' /\ OnlyMembersHaveRooms' /\ ViewersHaveTheirRoom'
BY DEF IInv, StraysHaveNobody, OnlyMembersHaveRooms, ViewersHaveTheirRoom

(* Rooms nobody has touched stay for the sweep if nobody comes back.       *)
LEMMA StraysRest ==
  ASSUME IInv, UNCHANGED <<channel, strays>>,
         \A a \in Accounts : viewer[a].status = "gone" =>
           viewer'[a].status = "gone"
  PROVE  StraysHaveNobody'
<1>1. \A r \in Channels : channel[r].state # "none" =>
        channel[r].of \in Accounts
  BY DEF IInv, StraysHaveNobody
<1>2. \A r \in strays : r \in Channels /\ channel[r].state # "none"
                        /\ viewer[channel[r].of].status = "gone"
  BY DEF IInv, TypeOK, StraysHaveNobody
<1>3. \A r \in strays : viewer'[channel[r].of].status = "gone"
  BY <1>1, <1>2
<1> QED  BY <1>1, <1>2, <1>3 DEF StraysHaveNobody

LEMMA PurgeRests ==
  ASSUME IInv, UNCHANGED <<viewer, purging>>,
         \A a \in Accounts : rowBy[a] = Purge => rowBy'[a] = Purge
  PROVE  PurgeHoldsTheOld'
BY DEF IInv, TypeOK, PurgeHoldsTheOld

LEMMA RequestsRest ==
  ASSUME IInv, UNCHANGED <<code, web>>
  PROVE  RequestsKnow' /\ LiveCodesHaveOwners'
BY DEF IInv, RequestsKnow, LiveCodesHaveOwners

(* A step in which h alone goes on, to b, and drops its room or keeps it.  *)
HandlerMoves(h, b) ==
  /\ bot' = [bot EXCEPT ![h] = b]
  /\ UNCHANGED <<viewer, channel>>
  /\ \A g \in Handlers, a \in Accounts : g # h =>
       (rowBy'[a] = g <=> rowBy[a] = g)
  /\ b \in Interaction
  /\ b.at # "idle" => b.of \in Accounts /\ b.member \in Members
  /\ b.room # None <=> b.at \in {"commit", "save", "discard"}
  /\ b.room # None => b.room = bot[h].room /\ b.of = bot[h].of
  /\ b.at \in {"make", "commit"} => rowBy'[b.of] = h /\ Startable(b.of)
  /\ \A a \in Accounts :
       rowBy'[a] = h => b.at \in {"make", "commit"} /\ b.of = a
  /\ b.at \in {"remake", "save"} =>
       viewer[b.of].member # None \/ viewer[b.of].status = "gone"

LEMMA HandlerStepKeeps ==
  ASSUME IInv, NEW h \in Handlers, NEW b, HandlerMoves(h, b)
  PROVE  /\ bot' \in [Handlers -> Interaction]
         /\ HandlersKnow' /\ MakersHoldTheRow' /\ OpenersAreMembers'
         /\ NewRoomsArePrivate'
<1> USE DEF IInv, HandlerMoves
<1>1. bot' \in [Handlers -> Interaction] /\ bot'[h] = b
  BY DEF TypeOK
<1>2. \A g \in Handlers : g # h => bot'[g] = bot[g]
  BY DEF TypeOK
<1>3. HandlersKnow'
  BY <1>1, <1>2 DEF HandlersKnow
<1>4. MakersHoldTheRow'
  BY <1>1, <1>2 DEF MakersHoldTheRow, HandlersKnow, Startable
<1>5. OpenersAreMembers'
  BY <1>1, <1>2 DEF OpenersAreMembers
<1>6. NewRoomsArePrivate'
  <2>1. \A g \in Handlers :
          bot'[g].room # None =>
            bot'[g].room = bot[g].room /\ bot'[g].of = bot[g].of
    BY <1>1, <1>2
  <2> QED  BY <2>1 DEF NewRoomsArePrivate
<1> QED  BY <1>1, <1>3, <1>4, <1>5, <1>6

LEMMA HandlersRest ==
  ASSUME IInv, UNCHANGED <<viewer, channel, bot>>,
         \A h \in Handlers, a \in Accounts : rowBy'[a] = h <=> rowBy[a] = h
  PROVE  /\ HandlersKnow' /\ MakersHoldTheRow' /\ OpenersAreMembers'
         /\ NewRoomsArePrivate'
BY DEF IInv, HandlersKnow, MakersHoldTheRow, OpenersAreMembers,
  NewRoomsArePrivate, Startable

(* The end of a transaction frees no row but its own.                      *)
LEMMA EndsKeeps ==
  ASSUME TypeOK, NEW x, x # None, Ends(x)
  PROVE  /\ rowBy' \in [Accounts -> Handlers \cup Requests \cup {Purge, None}]
         /\ codeBy' \in [Codes -> Handlers \cup Requests \cup {None}]
         /\ \A a \in Accounts :
              rowBy'[a] = IF rowBy[a] = x THEN None ELSE rowBy[a]
BY DEF TypeOK, Ends, RowsWithout, CodesWithout

-----------------------------------------------------------------------------
(* Sign-ups and changes of status: a step that gives the row v to account  *)
(* a and leaves its member and its room alone.                             *)
AccountChanges(a, v) ==
  /\ viewer' = [viewer EXCEPT ![a] = v]
  /\ UNCHANGED <<rowBy, codeBy, channel, bot, web, purging, strays, mishaps>>
  /\ v \in Viewer
  /\ v.member = viewer[a].member /\ v.room = viewer[a].room
  /\ v.old => v.status \in {"pending", "trial", "suspended"}
  /\ a \in purging => v.old
  /\ rowBy[a] \in Handlers => v.status = viewer[a].status
  /\ v.status = "gone" <=> viewer[a].status = "gone"
  /\ v.member # None =>
       \/ v.status \in {"trial", "active"}
       \/ v.status = "suspended" /\ v.before \in {"trial", "active"}
  /\ code' \in [Codes -> Code] /\ LiveCodesHaveOwners'

LEMMA AccountStepKeeps ==
  ASSUME IInv, NEW a \in Accounts, NEW v, AccountChanges(a, v)
  PROVE  IInv'
<1> USE DEF IInv, AccountChanges
<1>1. viewer' \in [Accounts -> Viewer] /\ viewer'[a] = v
  BY DEF TypeOK
<1>2. \A b \in Accounts : b # a => viewer'[b] = viewer[b]
  BY DEF TypeOK
<1>3. \A b \in Accounts :
        /\ viewer'[b].member = viewer[b].member
        /\ viewer'[b].room = viewer[b].room
        /\ viewer'[b].status = "gone" <=> viewer[b].status = "gone"
        /\ rowBy[b] \in Handlers => viewer'[b].status = viewer[b].status
  BY <1>1, <1>2
<1>4. TypeOK'
  BY <1>1 DEF TypeOK
<1>5. HandlersKnow' /\ RequestsKnow'
  BY DEF HandlersKnow, RequestsKnow
<1>6. MakersHoldTheRow'
  BY <1>3 DEF MakersHoldTheRow, HandlersKnow, Startable
<1>7. OpenersAreMembers'
  BY <1>3 DEF OpenersAreMembers, HandlersKnow
<1>8. PurgeHoldsTheOld'
  BY <1>1, <1>2 DEF PurgeHoldsTheOld, TypeOK
<1>9. NewRoomsArePrivate'
  BY <1>3 DEF NewRoomsArePrivate, HandlersKnow
<1>10. StraysHaveNobody' /\ OnlyMembersHaveRooms'
  BY <1>3 DEF StraysHaveNobody, OnlyMembersHaveRooms
<1>11. ViewersHaveTheirRoom'
  <2>1. \A b \in Accounts : viewer'[b].member # None =>
          \/ viewer'[b].status \in {"trial", "active"}
          \/ viewer'[b].status = "suspended" /\
               viewer'[b].before \in {"trial", "active"}
    BY <1>1, <1>2 DEF ViewersHaveTheirRoom
  <2> QED  BY <1>3, <2>1 DEF ViewersHaveTheirRoom
<1> QED  BY <1>4, <1>5, <1>6, <1>7, <1>8, <1>9, <1>10, <1>11

LEMMA NobodyHolds ==
  ASSUME IInv, NEW a \in Accounts,
         rowBy[a] = None \/ viewer[a].status = "none"
  PROVE  rowBy[a] \notin Handlers /\ a \notin purging
BY DEF IInv, MakersHoldTheRow, Startable, PurgeHoldsTheOld

LEMMA CodesRest ==
  ASSUME IInv, UNCHANGED code
  PROVE  code' \in [Codes -> Code] /\ LiveCodesHaveOwners'
BY DEF IInv, TypeOK, LiveCodesHaveOwners

LEMMA KeepsApply ==
  ASSUME IInv, NEW a \in Accounts, NEW c \in Codes, Apply(a, c)
  PROVE  IInv'
<1> DEFINE v == [viewer[a] EXCEPT !.status = "pending"]
<1>1. /\ viewer' = [viewer EXCEPT ![a] = v]
      /\ code' = [code EXCEPT ![c] = [state |-> "live", of |-> a]]
      /\ viewer[a].status = "none"
      /\ UNCHANGED <<rowBy, codeBy, channel, bot, web, purging, strays,
           mishaps>>
  BY DEF Apply, IInv, TypeOK, locks
<1>2. /\ v \in Viewer /\ v.status = "pending" /\ v.before = viewer[a].before
      /\ v.member = viewer[a].member /\ v.room = viewer[a].room
      /\ v.old = viewer[a].old
  <2>1. viewer[a] \in Viewer
    BY DEF IInv, TypeOK
  <2> QED  BY <2>1 DEF Viewer
<1> HIDE DEF v
<1>3. ~ viewer[a].old /\ viewer[a].member = None
  BY <1>1 DEF IInv, PurgeHoldsTheOld, ViewersHaveTheirRoom
<1>4. rowBy[a] \notin Handlers /\ a \notin purging
  BY <1>1, NobodyHolds
<1>5. code' \in [Codes -> Code] /\ LiveCodesHaveOwners'
  BY <1>1 DEF IInv, TypeOK, Code, LiveCodesHaveOwners
<1>6. AccountChanges(a, v)
  BY <1>1, <1>2, <1>3, <1>4, <1>5 DEF AccountChanges
<1> QED  BY <1>6, AccountStepKeeps

LEMMA KeepsRegister ==
  ASSUME IInv, NEW a \in Accounts, NEW s \in {"trial", "active"},
          Register(a, s)
  PROVE  IInv'
<1> DEFINE v == [viewer[a] EXCEPT !.status = s]
<1>1. /\ viewer' = [viewer EXCEPT ![a] = v] /\ viewer[a].status = "none"
      /\ UNCHANGED <<code, rowBy, codeBy, channel, bot, web, purging, strays,
                     mishaps>>
  BY DEF Register, IInv, TypeOK, locks, tables
<1>2. /\ v \in Viewer /\ v.status = s /\ v.old = viewer[a].old
      /\ v.member = viewer[a].member /\ v.room = viewer[a].room
  <2>1. viewer[a] \in Viewer
    BY DEF IInv, TypeOK
  <2> QED  BY <1>1, <2>1 DEF Viewer
<1> HIDE DEF v
<1>3. ~ viewer[a].old /\ viewer[a].member = None
  BY <1>1, <1>2 DEF IInv, PurgeHoldsTheOld, ViewersHaveTheirRoom
<1>4. rowBy[a] \notin Handlers /\ a \notin purging
  BY <1>1, NobodyHolds
<1>5. AccountChanges(a, v)
  BY <1>1, <1>2, <1>3, <1>4, CodesRest DEF AccountChanges
<1> QED  BY <1>5, AccountStepKeeps

LEMMA KeepsSuspend ==
  ASSUME IInv, NEW a \in Accounts, Suspend(a)
  PROVE  IInv'
<1> DEFINE v == [viewer[a] EXCEPT !.status = "suspended",
      !.before = viewer[a].status,
                               !.old = FALSE]
<1>1. /\ viewer' = [viewer EXCEPT ![a] = v] /\ rowBy[a] = None
      /\ viewer[a].status \in {"pending", "trial", "active"}
      /\ UNCHANGED <<code, rowBy, codeBy, channel, bot, web, purging, strays,
                     mishaps>>
  BY DEF Suspend, IInv, TypeOK, locks, tables
<1>2. /\ v \in Viewer /\ v.status = "suspended" /\ ~ v.old
      /\ v.before = viewer[a].status
      /\ v.member = viewer[a].member /\ v.room = viewer[a].room
  <2>1. viewer[a] \in Viewer
    BY DEF IInv, TypeOK
  <2> QED  BY <1>1, <2>1 DEF Viewer
<1> HIDE DEF v
<1>3. viewer[a].member # None => viewer[a].status \in {"trial", "active"}
  BY <1>1, <1>2 DEF IInv, ViewersHaveTheirRoom
<1>4. rowBy[a] \notin Handlers /\ a \notin purging
  BY <1>1, NobodyHolds
<1>5. AccountChanges(a, v)
  BY <1>1, <1>2, <1>3, <1>4, CodesRest DEF AccountChanges
<1> QED  BY <1>5, AccountStepKeeps

LEMMA KeepsUnsuspend ==
  ASSUME IInv, NEW a \in Accounts, Unsuspend(a)
  PROVE  IInv'
<1> DEFINE v == [viewer[a] EXCEPT !.status = viewer[a].before, !.old = FALSE]
<1>1. /\ viewer' = [viewer EXCEPT ![a] = v] /\ rowBy[a] = None
      /\ viewer[a].status = "suspended"
      /\ UNCHANGED <<code, rowBy, codeBy, channel, bot, web, purging, strays,
                     mishaps>>
  BY DEF Unsuspend, IInv, TypeOK, locks, tables
<1>2. /\ v \in Viewer /\ v.status = viewer[a].before /\ ~ v.old
      /\ v.status # "gone"
      /\ v.member = viewer[a].member /\ v.room = viewer[a].room
  <2>1. viewer[a] \in Viewer
    BY DEF IInv, TypeOK
  <2> QED  BY <1>1, <2>1 DEF Viewer
<1> HIDE DEF v
<1>3. viewer[a].member # None => viewer[a].before \in {"trial", "active"}
  BY <1>1, <1>2 DEF IInv, ViewersHaveTheirRoom
<1>4. rowBy[a] \notin Handlers /\ a \notin purging
  BY <1>1, NobodyHolds
<1>5. AccountChanges(a, v)
  BY <1>1, <1>2, <1>3, <1>4, CodesRest DEF AccountChanges
<1> QED  BY <1>5, AccountStepKeeps

LEMMA KeepsActivate ==
  ASSUME IInv, NEW a \in Accounts, Activate(a)
  PROVE  IInv'
<1> DEFINE v == [viewer[a] EXCEPT !.status = "active", !.old = FALSE]
<1>1. /\ viewer' = [viewer EXCEPT ![a] = v] /\ rowBy[a] = None
      /\ viewer[a].status = "trial"
      /\ UNCHANGED <<code, rowBy, codeBy, channel, bot, web, purging, strays,
                     mishaps>>
  BY DEF Activate, IInv, TypeOK, locks, tables
<1>2. /\ v \in Viewer /\ v.status = "active" /\ ~ v.old
      /\ v.member = viewer[a].member /\ v.room = viewer[a].room
  <2>1. viewer[a] \in Viewer
    BY DEF IInv, TypeOK
  <2> QED  BY <1>1, <2>1 DEF Viewer
<1> HIDE DEF v
<1>3. v.status # "gone" /\ viewer[a].status # "gone"
  BY <1>1, <1>2 DEF IInv, ViewersHaveTheirRoom
<1>4. rowBy[a] \notin Handlers /\ a \notin purging
  BY <1>1, NobodyHolds
<1>5. AccountChanges(a, v)
  BY <1>1, <1>2, <1>3, <1>4, CodesRest DEF AccountChanges
<1> QED  BY <1>5, AccountStepKeeps

LEMMA KeepsExtend ==
  ASSUME IInv, NEW a \in Accounts, Extend(a)
  PROVE  IInv'
<1> DEFINE v == [viewer[a] EXCEPT !.old = FALSE]
<1>1. /\ viewer' = [viewer EXCEPT ![a] = v] /\ rowBy[a] = None
      /\ viewer[a].status = "trial"
      /\ UNCHANGED <<code, rowBy, codeBy, channel, bot, web, purging, strays,
                     mishaps>>
  BY DEF Extend, IInv, TypeOK, locks, tables
<1>2. /\ v \in Viewer /\ v.status = "trial" /\ ~ v.old
      /\ v.member = viewer[a].member /\ v.room = viewer[a].room
  <2>1. viewer[a] \in Viewer
    BY DEF IInv, TypeOK
  <2> QED  BY <1>1, <2>1 DEF Viewer
<1> HIDE DEF v
<1>3. v.status # "gone" /\ viewer[a].status # "gone"
  BY <1>1, <1>2 DEF IInv, ViewersHaveTheirRoom
<1>4. rowBy[a] \notin Handlers /\ a \notin purging
  BY <1>1, NobodyHolds
<1>5. AccountChanges(a, v)
  BY <1>1, <1>2, <1>3, <1>4, CodesRest DEF AccountChanges
<1> QED  BY <1>5, AccountStepKeeps

(* Time passes for accounts whose row somebody holds, too.                 *)
LEMMA KeepsGetsOld ==
  ASSUME IInv, NEW a \in Accounts, GetsOld(a)
  PROVE  IInv'
<1> DEFINE v == [viewer[a] EXCEPT !.old = TRUE]
<1>1. /\ viewer' = [viewer EXCEPT ![a] = v]
      /\ viewer[a].status \in {"pending", "trial", "suspended"}
      /\ UNCHANGED <<code, rowBy, codeBy, channel, bot, web, purging, strays,
                     mishaps>>
  BY DEF GetsOld, IInv, TypeOK, locks
<1>2. /\ v \in Viewer /\ v.status = viewer[a].status /\ v.old
      /\ v.before = viewer[a].before
      /\ v.member = viewer[a].member /\ v.room = viewer[a].room
  <2>1. viewer[a] \in Viewer
    BY DEF IInv, TypeOK
  <2> QED  BY <1>1, <2>1 DEF Viewer
<1> HIDE DEF v
<1>3. v.member # None =>
        \/ v.status \in {"trial", "active"}
        \/ v.status = "suspended" /\ v.before \in {"trial", "active"}
  BY <1>2 DEF IInv, ViewersHaveTheirRoom
<1>4. AccountChanges(a, v)
  BY <1>1, <1>2, <1>3, CodesRest DEF AccountChanges
<1> QED  BY <1>4, AccountStepKeeps

-----------------------------------------------------------------------------
(* Requests for codes                                                      *)

(* A step of a request that frees or takes rows of its own only.           *)
RequestMoves(w, b) ==
  /\ web' = [web EXCEPT ![w] = b]
  /\ UNCHANGED <<viewer, channel, bot, purging, strays>>
  /\ rowBy' \in [Accounts -> Handlers \cup Requests \cup {Purge, None}]
  /\ codeBy' \in [Codes -> Handlers \cup Requests \cup {None}]
  /\ \A a \in Accounts, x \in Handlers \cup {Purge} : rowBy'[a] = x <=>
       rowBy[a] = x
  /\ b \in Request
  /\ b.at # "idle" => b.of \in Accounts
  /\ code' \in [Codes -> Code] /\ LiveCodesHaveOwners'
  /\ mishaps' \in 0..MaxFaults

LEMMA RequestStepKeeps ==
  ASSUME IInv, NEW w \in Requests, NEW b, RequestMoves(w, b)
  PROVE  IInv'
<1> USE DEF RequestMoves
<1>1. TypeOK'
  BY DEF IInv, TypeOK
<1>2. RequestsKnow'
  BY DEF IInv, TypeOK, RequestsKnow
<1>3. /\ HandlersKnow' /\ MakersHoldTheRow' /\ OpenersAreMembers'
      /\ NewRoomsArePrivate'
  BY HandlersRest
<1>4. PurgeHoldsTheOld'
  BY PurgeRests
<1>5. StraysHaveNobody' /\ OnlyMembersHaveRooms' /\ ViewersHaveTheirRoom'
  BY RoomsRest
<1> QED  BY <1>1, <1>2, <1>3, <1>4, <1>5 DEF IInv

LEMMA BeginKeeps ==
  ASSUME IInv, NEW w \in Requests, NEW a \in Accounts, NEW c \in Codes,
         Begin(w, a, c), UNCHANGED <<viewer, channel, bot, purging, strays>>,
         codeBy' = codeBy, mishaps' = mishaps,
         rowBy' \in [Accounts -> Handlers \cup Requests \cup {Purge, None}],
         \A d \in Accounts, x \in Handlers \cup {Purge} :
           rowBy'[d] = x <=> rowBy[d] = x
  PROVE  IInv'
<1> DEFINE b == [Quiet EXCEPT !.at = "replace", !.of = a, !.code = c]
<1>1. b \in Request /\ b.of = a
  BY DEF Quiet, Request
<1>2. web' = [web EXCEPT ![w] = b]
  BY DEF Begin
<1>3. code' \in [Codes -> Code] /\ LiveCodesHaveOwners'
  <2>1. code' = [code EXCEPT ![c] = [code[c] EXCEPT !.state = "drawn"]]
    BY DEF Begin, IInv, TypeOK
  <2>2. code[c] \in Code
    BY DEF IInv, TypeOK
  <2>3. /\ [code[c] EXCEPT !.state = "drawn"] \in Code
        /\ [code[c] EXCEPT !.state = "drawn"].state = "drawn"
    BY <2>2 DEF Code
  <2> QED  BY <2>1, <2>3 DEF IInv, TypeOK, LiveCodesHaveOwners
<1> HIDE DEF b
<1>4. RequestMoves(w, b)
  BY <1>1, <1>2, <1>3 DEF RequestMoves, IInv, TypeOK
<1> QED  BY <1>4, RequestStepKeeps

LEMMA KeepsApplyAgain ==
  ASSUME IInv, NEW w \in Requests, NEW a \in Accounts, NEW c \in Codes,
         ApplyAgain(w, a, c)
  PROVE  IInv'
BY BeginKeeps DEF ApplyAgain, locks, IInv, TypeOK

LEMMA KeepsReissue ==
  ASSUME IInv, NEW w \in Requests, NEW a \in Accounts, NEW c \in Codes,
         Reissue(w, a, c)
  PROVE  IInv'
<1>1. /\ rowBy' \in [Accounts -> Handlers \cup Requests \cup {Purge, None}]
      /\ \A d \in Accounts, x \in Handlers \cup {Purge} :
           rowBy'[d] = x <=> rowBy[d] = x
  BY DEF Reissue, IInv, TypeOK
<1> QED  BY <1>1, BeginKeeps DEF Reissue

LEMMA KeepsDeleteCodes ==
  ASSUME IInv, NEW w \in Requests, DeleteCodes(w)
  PROVE  IInv'
<1> DEFINE b == [web[w] EXCEPT !.at = "insert", !.seen = LiveCodes(web[w].of)]
<1>1. /\ web' = [web EXCEPT ![w] = b]
      /\ b \in Request /\ b.of = web[w].of /\ web[w].at # "idle"
  BY DEF DeleteCodes, IInv, TypeOK, Request, LiveCodes
<1> HIDE DEF b
<1>2. b.of \in Accounts
  BY <1>1 DEF IInv, RequestsKnow
<1>3. RequestMoves(w, b)
  BY <1>1, <1>2, CodesRest DEF DeleteCodes, RequestMoves, IInv, TypeOK, tables
<1> QED  BY <1>3, RequestStepKeeps

LEMMA QuietKeeps ==
  ASSUME IInv, NEW w \in Requests, Ends(w), web' = [web EXCEPT ![w] = Quiet],
         UNCHANGED <<viewer, channel, bot, purging, strays>>,
         code' \in [Codes -> Code], LiveCodesHaveOwners', mishaps' \in
           0..MaxFaults
  PROVE  IInv'
<1>1. w # None /\ w # Purge /\ w \notin Handlers
  OBVIOUS
<1>2. RequestMoves(w, Quiet)
  BY <1>1, EndsKeeps DEF RequestMoves, IInv, Quiet, Request
<1> QED  BY <1>2, RequestStepKeeps

LEMMA KeepsInsertCode ==
  ASSUME IInv, NEW w \in Requests, InsertCode(w)
  PROVE  IInv'
<1>1. code' \in [Codes -> Code] /\ LiveCodesHaveOwners'
  BY DEF InsertCode, IInv, TypeOK, Code, LiveCodesHaveOwners, RequestsKnow
<1> QED  BY <1>1, QuietKeeps DEF InsertCode, IInv, TypeOK

LEMMA KeepsRequestFails ==
  ASSUME IInv, NEW w \in Requests, RequestFails(w)
  PROVE  IInv'
<1>1. mishaps' \in 0..MaxFaults
  BY DEF RequestFails, Mishap, IInv, TypeOK
<1> QED  BY <1>1, QuietKeeps, CodesRest DEF RequestFails, tables

-----------------------------------------------------------------------------
(* Interactions of the bot                                                 *)

(* The rest of the state when one interaction goes on.                     *)
OthersRest ==
  /\ UNCHANGED <<code, web, purging, strays>>
  /\ rowBy' \in [Accounts -> Handlers \cup Requests \cup {Purge, None}]
  /\ codeBy' \in [Codes -> Handlers \cup Requests \cup {None}]
  /\ \A a \in Accounts : rowBy[a] = Purge => rowBy'[a] = Purge
  /\ mishaps' \in 0..MaxFaults

LEMMA InteractionKeeps ==
  ASSUME IInv, NEW h \in Handlers, NEW b, HandlerMoves(h, b), OthersRest
  PROVE  IInv'
<1>1. /\ bot' \in [Handlers -> Interaction]
      /\ HandlersKnow' /\ MakersHoldTheRow' /\ OpenersAreMembers'
      /\ NewRoomsArePrivate'
  BY HandlerStepKeeps
<1>2. TypeOK'
  BY <1>1 DEF HandlerMoves, OthersRest, IInv, TypeOK
<1>3. RequestsKnow' /\ LiveCodesHaveOwners'
  BY RequestsRest DEF OthersRest
<1>4. PurgeHoldsTheOld'
  BY PurgeRests DEF HandlerMoves, OthersRest
<1>5. StraysHaveNobody' /\ OnlyMembersHaveRooms' /\ ViewersHaveTheirRoom'
  BY RoomsRest DEF HandlerMoves, OthersRest
<1> QED  BY <1>1, <1>2, <1>3, <1>4, <1>5 DEF IInv

LEMMA KeepsEnterCode ==
  ASSUME IInv, NEW h \in Handlers, NEW m \in Members, NEW c \in Codes,
         EnterCode(h, m, c)
  PROVE  IInv'
<1> DEFINE b == [at |-> "row", of |-> code[c].of, code |-> c, member |-> m,
                 room |-> None]
<1>1. b \in Interaction /\ b.of \in Accounts
  BY DEF EnterCode, IInv, TypeOK, Interaction, LiveCodesHaveOwners
<1>2. HandlerMoves(h, b)
  BY <1>1 DEF HandlerMoves, EnterCode, IInv, TypeOK, tables, HandlersKnow,
    MakersHoldTheRow
<1>3. OthersRest
  BY DEF OthersRest, EnterCode, IInv, TypeOK, tables
<1> QED  BY <1>2, <1>3, InteractionKeeps

LEMMA KeepsOpenRoom ==
  ASSUME IInv, NEW h \in Handlers, NEW m \in Members, NEW a \in Accounts,
         OpenRoom(h, m, a)
  PROVE  IInv'
<1> DEFINE b == [Idle EXCEPT !.at = "remake", !.of = a, !.member = m]
<1>1. b \in Interaction /\ m # None
  BY DEF Interaction, Idle
<1>2. HandlerMoves(h, b)
  BY <1>1 DEF HandlerMoves, OpenRoom, IInv, TypeOK, tables, locks,
    MakersHoldTheRow, Idle
<1>3. OthersRest
  BY DEF OthersRest, OpenRoom, IInv, TypeOK, tables, locks
<1> QED  BY <1>2, <1>3, InteractionKeeps

(* An interaction that ends, with or without a commit, gives up its row.   *)
LEMMA IdleKeeps ==
  ASSUME IInv, NEW h \in Handlers, Ends(h), bot' = [bot EXCEPT ![h] = Idle],
         UNCHANGED <<viewer, code, channel, web, purging, strays>>,
         mishaps' \in 0..MaxFaults
  PROVE  IInv'
<1>1. /\ rowBy' \in [Accounts -> Handlers \cup Requests \cup {Purge, None}]
      /\ codeBy' \in [Codes -> Handlers \cup Requests \cup {None}]
      /\ \A a \in Accounts :
           rowBy'[a] = IF rowBy[a] = h THEN None ELSE rowBy[a]
  BY EndsKeeps DEF IInv
<1>2. HandlerMoves(h, Idle)
  BY <1>1 DEF HandlerMoves, Idle, Interaction, IInv, TypeOK
<1>3. OthersRest
  BY <1>1 DEF OthersRest
<1> QED  BY <1>2, <1>3, InteractionKeeps

LEMMA KeepsTakeRow ==
  ASSUME IInv, NEW h \in Handlers, TakeRow(h)
  PROVE  IInv'
<1> DEFINE a == bot[h].of
           b == [bot[h] EXCEPT !.at = "make"]
<1>1. /\ bot[h].at = "row" /\ bot[h].room = None /\ a \in Accounts
      /\ rowBy[a] = None
  BY DEF TakeRow, IInv, HandlersKnow
<1>2. CASE ~ Startable(a)
  BY <1>2, IdleKeeps DEF TakeRow, tables, IInv, TypeOK
<1>3. CASE Startable(a)
  <2>1. /\ rowBy' = [rowBy EXCEPT ![a] = h] /\ bot' = [bot EXCEPT ![h] = b]
        /\ UNCHANGED <<viewer, code, codeBy, channel, web, purging, strays,
             mishaps>>
    BY <1>3 DEF TakeRow, tables, IInv, TypeOK
  <2>2. /\ b \in Interaction /\ b.at = "make" /\ b.of = a /\ b.room = None
        /\ b.member \in Members
    <3>1. bot[h] \in Interaction /\ bot[h].member \in Members
      BY <1>1 DEF IInv, TypeOK, HandlersKnow
    <3> QED  BY <1>1, <3>1 DEF Interaction
  <2>3. \A d \in Accounts : rowBy'[d] = IF d = a THEN h ELSE rowBy[d]
    BY <1>1, <2>1 DEF IInv, TypeOK
  <2>4. \A d \in Accounts : rowBy[d] # h
    BY <1>1 DEF IInv, MakersHoldTheRow
  <2> HIDE DEF b
  <2>5. HandlerMoves(h, b)
    BY <1>1, <1>3, <2>1, <2>2, <2>3, <2>4 DEF HandlerMoves
  <2>6. OthersRest
    BY <1>1, <2>1, <2>3 DEF OthersRest, IInv, TypeOK
  <2> QED  BY <2>5, <2>6, InteractionKeeps
<1> QED  BY <1>2, <1>3

(* A new room is nobody's yet.                                             *)
LEMMA KeepsMakeRoom ==
  ASSUME IInv, NEW h \in Handlers, MakeRoom(h)
  PROVE  IInv'
<1>1. CASE Ends(h) /\ bot' = [bot EXCEPT ![h] = Idle] /\ UNCHANGED channel
           /\ mishaps' \in 0..MaxFaults
  BY <1>1, IdleKeeps DEF MakeRoom, tables
<1>2. ASSUME NEW r \in Channels, channel[r].state = "none",
             channel' = [channel EXCEPT ![r] = [state |-> "here",
               of |-> bot[h].of]],
             bot' = [bot EXCEPT ![h].room = r,
               ![h].at = IF bot[h].at = "make" THEN "commit" ELSE "save"],
             UNCHANGED <<mishaps, locks>>
      PROVE  IInv'
  <2> DEFINE at == IF bot[h].at = "make" THEN "commit" ELSE "save"
             b == [bot[h] EXCEPT !.room = r, !.at = at]
  <2>1. /\ bot[h].at \in {"make", "remake"} /\ bot[h].of \in Accounts
        /\ bot[h].member \in Members /\ bot[h] \in Interaction
        /\ UNCHANGED <<viewer, code, web, purging, strays, rowBy, codeBy,
             mishaps>>
    BY <1>2 DEF MakeRoom, IInv, TypeOK, HandlersKnow, tables, locks
  <2>2. /\ b \in Interaction /\ b.at = at /\ b.room = r /\ b.of = bot[h].of
        /\ b.member = bot[h].member
    BY <2>1 DEF Interaction
  <2>3. bot'[h] = b /\ \A g \in Handlers : g # h => bot'[g] = bot[g]
    BY <1>2 DEF IInv, TypeOK
  <2>4. /\ bot' \in [Handlers -> Interaction]
        /\ channel' \in [Channels -> Channel]
    BY <1>2, <2>1, <2>2, <2>3 DEF IInv, TypeOK, Channel
  <2>5. /\ channel'[r] = [state |-> "here", of |-> bot[h].of]
        /\ \A q \in Channels : q # r => channel'[q] = channel[q]
    BY <1>2 DEF IInv, TypeOK
  <2> HIDE DEF b
  <2>6. TypeOK'
    BY <2>1, <2>4 DEF IInv, TypeOK
  <2>7. HandlersKnow'
    BY <2>1, <2>2, <2>3 DEF IInv, HandlersKnow
  <2>8. RequestsKnow' /\ LiveCodesHaveOwners'
    BY <2>1, RequestsRest
  <2>9. MakersHoldTheRow' /\ OpenersAreMembers'
    BY <2>1, <2>2, <2>3 DEF IInv, MakersHoldTheRow, OpenersAreMembers,
      Startable
  <2>10. PurgeHoldsTheOld'
    BY <2>1, PurgeRests
  <2>11. r # None /\ (\A a \in Accounts : viewer[a].room # r)
         /\ (\A g \in Handlers : bot[g].room # r) /\ r \notin strays
    BY <1>2 DEF IInv, ViewersHaveTheirRoom, OnlyMembersHaveRooms,
      NewRoomsArePrivate, StraysHaveNobody
  <2>12. NewRoomsArePrivate'
    BY <2>1, <2>2, <2>3, <2>4, <2>5, <2>11
      DEF IInv, TypeOK, Interaction, NewRoomsArePrivate
  <2>13. StraysHaveNobody' /\ OnlyMembersHaveRooms' /\ ViewersHaveTheirRoom'
    BY <2>1, <2>5, <2>11
      DEF IInv, TypeOK, Viewer, StraysHaveNobody, OnlyMembersHaveRooms,
      ViewersHaveTheirRoom
  <2> QED  BY <2>6, <2>7, <2>8, <2>9, <2>10, <2>12, <2>13 DEF IInv
<1>3. mishaps' \in 0..MaxFaults
  <2>1. Mishap \/ NoMishap
    BY DEF MakeRoom
  <2> QED  BY <2>1 DEF Mishap, NoMishap, IInv, TypeOK
<1> QED  BY <1>1, <1>2, <1>3 DEF MakeRoom, NoMishap

(* The row of an account that a handler has held since it looked changes   *)
(* hands with the room.                                                    *)
LEMMA KeepsCommitTrial ==
  ASSUME IInv, NEW h \in Handlers, CommitTrial(h)
  PROVE  IInv'
<1> DEFINE a == bot[h].of
           room == bot[h].room
<1>1. /\ bot[h].at = "commit" /\ a \in Accounts /\ bot[h].member \in Members
      /\ room \in Channels /\ rowBy[a] = h /\ Startable(a) /\ Ends(h)
      /\ UNCHANGED <<channel, web, purging, strays>>
  BY DEF CommitTrial, IInv, TypeOK, Interaction, HandlersKnow, MakersHoldTheRow
<1>2. /\ rowBy' \in [Accounts -> Handlers \cup Requests \cup {Purge, None}]
      /\ codeBy' \in [Codes -> Handlers \cup Requests \cup {None}]
      /\ \A d \in Accounts :
           rowBy'[d] = IF rowBy[d] = h THEN None ELSE rowBy[d]
      /\ \A d \in Accounts :
           rowBy'[d] # h /\ (rowBy[d] = Purge => rowBy'[d] = Purge)
      /\ \A g \in Handlers \ {h}, d \in Accounts : rowBy'[d] = g <=>
           rowBy[d] = g
  BY <1>1, EndsKeeps DEF IInv
<1>3. CASE /\ bot' = [bot EXCEPT ![h].at = "discard"] /\ UNCHANGED tables
           /\ mishaps' \in 0..MaxFaults
  <2> DEFINE b == [bot[h] EXCEPT !.at = "discard"]
  <2>1. bot' = [bot EXCEPT ![h] = b]
    BY <1>3 DEF IInv, TypeOK
  <2>2. bot[h] \in Interaction
    BY DEF IInv, TypeOK
  <2>3. /\ b \in Interaction /\ b.at = "discard" /\ b.of = a /\ b.room = room
        /\ b.member = bot[h].member
    BY <2>2 DEF Interaction
  <2> HIDE DEF b
  <2>4. HandlerMoves(h, b)
    <3>1. UNCHANGED <<viewer, channel>>
      BY <1>1, <1>3 DEF tables
    <3>2. room # None
      BY <1>1
    <3>3. b.at \notin {"idle", "make", "commit", "remake", "save"}
      BY <2>3
    <3> QED  BY <1>1, <1>2, <2>1, <2>3, <3>1, <3>2, <3>3 DEF HandlerMoves
  <2>5. OthersRest
    BY <1>1, <1>2, <1>3 DEF OthersRest, tables
  <2> QED  BY <2>4, <2>5, InteractionKeeps
<1>4. ASSUME ~ Linked(bot[h].member), NoMishap,
             viewer' = [viewer EXCEPT ![a].member = bot[h].member,
               ![a].room = room,
               ![a].status = IF @ = "pending" THEN "trial" ELSE @,
               ![a].old = @ /\ viewer[a].status # "pending"],
             code' = [code EXCEPT ![bot[h].code].state = "gone"],
             bot' = [bot EXCEPT ![h] = Idle]
      PROVE  IInv'
  <2> DEFINE v == [viewer[a] EXCEPT !.member = bot[h].member, !.room = room,
               !.status = IF @ = "pending" THEN "trial" ELSE @,
               !.old = @ /\ viewer[a].status # "pending"]
  <2>1. viewer' = [viewer EXCEPT ![a] = v]
    BY <1>1, <1>4 DEF IInv, TypeOK
  <2>2. /\ v \in Viewer /\ v.member = bot[h].member /\ v.room = room
        /\ v.status \in {"trial", "active"}
        /\ v.old => viewer[a].old /\ v.status = viewer[a].status
    <3>1. viewer[a] \in Viewer
      BY <1>1 DEF IInv, TypeOK
    <3> QED  BY <1>1, <3>1 DEF Viewer, Startable
  <2>3. viewer' \in [Accounts -> Viewer] /\ viewer'[a] = v
        /\ \A d \in Accounts : d # a => viewer'[d] = viewer[d]
    BY <1>1, <2>1, <2>2 DEF IInv, TypeOK
  <2> HIDE DEF v
  <2>4. code' \in [Codes -> Code] /\ LiveCodesHaveOwners'
    <3>1. \A c \in Codes :
            code'[c] = IF c =
              bot[h].code THEN [code[c] EXCEPT !.state = "gone"]
                       ELSE code[c]
      BY <1>4 DEF IInv, TypeOK
    <3>2. \A c \in Codes : code[c] \in Code
      BY DEF IInv, TypeOK
    <3>3. ASSUME NEW c \in Codes
          PROVE  /\ code'[c] \in Code
                 /\ code'[c].state = "live" => code'[c] = code[c]
      <4>1. CASE c = bot[h].code
        <5>1. code'[c] = [code[c] EXCEPT !.state = "gone"] /\ code[c] \in Code
          BY <3>1, <3>2, <4>1
        <5> QED  BY <5>1 DEF Code
      <4>2. CASE c # bot[h].code
        BY <3>1, <3>2, <4>2
      <4> QED  BY <4>1, <4>2
    <3>4. code' = [c \in Codes |-> code'[c]]
      BY <1>4 DEF IInv, TypeOK
    <3> QED  BY <3>3, <3>4 DEF IInv, LiveCodesHaveOwners
  <2>5. /\ bot' \in [Handlers -> Interaction] /\ bot'[h] = Idle
        /\ \A g \in Handlers : g # h => bot'[g] = bot[g]
    BY <1>4 DEF IInv, TypeOK, Interaction, Idle
  <2>6. TypeOK'
    BY <1>1, <1>2, <1>4, <2>3, <2>4, <2>5 DEF IInv, TypeOK, NoMishap
  <2>7. HandlersKnow' /\ RequestsKnow'
    BY <1>1, <2>5 DEF IInv, HandlersKnow, RequestsKnow, Idle
  <2>8. MakersHoldTheRow'
    <3>1. \A g \in Handlers \ {h} :
            bot[g].at \in {"make", "commit"} => bot[g].of # a
      BY <1>1 DEF IInv, MakersHoldTheRow
    <3>2. \A g \in Handlers \ {h} : bot[g].at \in {"make", "commit"} =>
            bot[g].of \in Accounts /\ viewer'[bot[g].of] = viewer[bot[g].of]
      BY <2>3, <3>1 DEF IInv, HandlersKnow
    <3>3. \A g \in Handlers : bot'[g].at \in {"make", "commit"} =>
            g # h /\ bot'[g] = bot[g]
      BY <2>5 DEF Idle
    <3> QED  BY <1>2, <2>5, <3>2, <3>3
      DEF IInv, HandlersKnow, MakersHoldTheRow, Startable
  <2>9. OpenersAreMembers'
    <3>1. \A d \in Accounts :
            /\ viewer[d].member # None => viewer'[d].member # None
            /\ viewer[d].status = "gone" => viewer'[d].status = "gone"
      BY <1>1, <2>2, <2>3 DEF Startable
    <3> QED  BY <2>5, <3>1 DEF IInv, OpenersAreMembers, HandlersKnow, Idle
  <2>10. PurgeHoldsTheOld'
    <3>1. a \notin purging
      BY <1>1 DEF IInv, PurgeHoldsTheOld
    <3>2. purging' = purging /\ purging \subseteq Accounts
      BY <1>1 DEF IInv, TypeOK
    <3>3. \A d \in purging : rowBy'[d] = Purge /\ viewer'[d].old
      BY <1>2, <2>3, <3>1, <3>2 DEF IInv, PurgeHoldsTheOld
    <3>4. v.old => v.status \in {"pending", "trial", "suspended"}
      BY <1>1, <2>2 DEF IInv, PurgeHoldsTheOld
    <3> QED  BY <2>3, <3>2, <3>3, <3>4 DEF IInv, PurgeHoldsTheOld
  <2>11. /\ channel[room].of = a /\ channel[room].state \in {"here", "removed"}
         /\ \A g \in Handlers : g # h => bot[g].room # room
    BY <1>1 DEF IInv, NewRoomsArePrivate, Startable
  <2>12. NewRoomsArePrivate'
    <3>1. \A g \in Handlers : bot'[g].room # None => g # h /\ bot'[g] = bot[g]
      BY <2>5 DEF Idle
    <3>2. \A g \in Handlers \ {h}, d \in Accounts :
            bot[g].room # None => viewer'[d].room # bot[g].room
      BY <2>2, <2>3, <2>11 DEF IInv, NewRoomsArePrivate
    <3>3. \A d \in Accounts : viewer[d].status = "gone" =>
            viewer'[d].status = "gone"
      BY <1>1, <2>3 DEF Startable
    <3> QED
      BY <1>1, <3>1, <3>2, <3>3 DEF IInv, HandlersKnow, NewRoomsArePrivate
  <2>13. StraysHaveNobody'
    BY <1>1, <2>3, StraysRest DEF Startable
  <2>14. OnlyMembersHaveRooms' /\ ViewersHaveTheirRoom'
    BY <1>1, <2>2, <2>3, <2>11
      DEF IInv, OnlyMembersHaveRooms, ViewersHaveTheirRoom
  <2> QED  BY <2>4, <2>6, <2>7, <2>8, <2>9, <2>10, <2>12, <2>13, <2>14 DEF IInv
<1>5. mishaps' \in 0..MaxFaults
  <2>1. Mishap \/ NoMishap
    BY DEF CommitTrial
  <2> QED  BY <2>1 DEF Mishap, NoMishap, IInv, TypeOK
<1> QED  BY <1>3, <1>4, <1>5 DEF CommitTrial

-----------------------------------------------------------------------------
(* Rooms in Discord                                                        *)

(* A step that clears a room, or sees it removed by hand, is right if the  *)
(* room is no viewer's and no handler goes on with it.                     *)
RoomGoes(r, s) ==
  /\ channel' = [channel EXCEPT ![r].state = s]
  /\ channel[r].state # "none" /\ s \in {"removed", "cleared"}
  /\ s = "cleared" =>
       /\ \A a \in Accounts : viewer[a].member # None => viewer[a].room # r
       /\ \A h \in Handlers : bot'[h].room = r =>
            viewer[bot[h].of].status = "gone"
  /\ UNCHANGED <<viewer, code, rowBy, codeBy, web, purging>>
  /\ mishaps' \in 0..MaxFaults
  /\ strays' \subseteq strays
  /\ \A h \in Handlers :
       \/ bot'[h] = bot[h] /\ (s = "removed" => channel[r].state = "here")
       \/ bot'[h] = Idle /\ bot[h].at \notin {"make", "commit"}
  /\ s = "removed" => channel[r].state = "here"
  /\ bot' \in [Handlers -> Interaction]

LEMMA RoomGoesKeeps ==
  ASSUME IInv, NEW r \in Channels, NEW s, RoomGoes(r, s)
  PROVE  IInv'
<1> USE DEF RoomGoes
<1>1. /\ \A q \in Channels : channel'[q].of = channel[q].of
      /\ \A q \in Channels : q # r => channel'[q] = channel[q]
      /\ channel'[r].state = s /\ channel' \in [Channels -> Channel]
  BY DEF IInv, TypeOK, Channel
<1>2. TypeOK'
  BY <1>1 DEF IInv, TypeOK
<1>3. HandlersKnow' /\ RequestsKnow' /\ LiveCodesHaveOwners'
  BY DEF IInv, HandlersKnow, RequestsKnow, LiveCodesHaveOwners, Idle
<1>4. MakersHoldTheRow' /\ OpenersAreMembers'
  BY DEF IInv, MakersHoldTheRow, OpenersAreMembers, Idle, Startable
<1>5. PurgeHoldsTheOld'
  BY PurgeRests
<1>6. NewRoomsArePrivate'
  BY <1>1 DEF IInv, TypeOK, Interaction, NewRoomsArePrivate, Idle
<1>7. StraysHaveNobody'
  BY <1>1 DEF IInv, TypeOK, StraysHaveNobody
<1>8. OnlyMembersHaveRooms' /\ ViewersHaveTheirRoom'
  BY <1>1 DEF IInv, TypeOK, Viewer, OnlyMembersHaveRooms, ViewersHaveTheirRoom
<1> QED  BY <1>2, <1>3, <1>4, <1>5, <1>6, <1>7, <1>8 DEF IInv

LEMMA MishapsKeep ==
  ASSUME IInv, Mishap \/ NoMishap
  PROVE  mishaps' \in 0..MaxFaults
BY DEF IInv, TypeOK, Mishap, NoMishap

LEMMA KeepsDeleteRoom ==
  ASSUME IInv, NEW r \in Channels, DeleteRoom(r)
  PROVE  IInv'
<1>1. /\ channel[r].state # "none" /\ channel[r].of \in Accounts
      /\ viewer[channel[r].of].status = "gone"
  BY DEF DeleteRoom, IInv, StraysHaveNobody
<1>2. CASE channel' = [channel EXCEPT ![r].state = "cleared"] /\ NoMishap
  <2>1. \A a \in Accounts : viewer[a].member # None => viewer[a].room # r
    BY <1>1 DEF IInv, ViewersHaveTheirRoom
  <2>2. \A h \in Handlers : bot[h].room = r =>
          viewer[bot[h].of].status = "gone"
    BY <1>1 DEF IInv, NewRoomsArePrivate
  <2>3. RoomGoes(r, "cleared")
    BY <1>1, <1>2, <2>1, <2>2, MishapsKeep
      DEF RoomGoes, DeleteRoom, tables, locks,
      IInv, TypeOK
  <2> QED  BY <2>3, RoomGoesKeeps
<1>3. CASE Mishap /\ UNCHANGED channel
  <2>1. /\ strays' \subseteq strays
        /\ UNCHANGED <<viewer, code, rowBy, codeBy, channel,
                                                bot, web, purging>>
    BY <1>3 DEF DeleteRoom, tables, locks
  <2>2. TypeOK' /\ StraysHaveNobody'
    BY <1>3, <2>1, MishapsKeep DEF IInv, TypeOK, StraysHaveNobody
  <2>3. OnlyMembersHaveRooms' /\ ViewersHaveTheirRoom'
    BY <2>1 DEF IInv, OnlyMembersHaveRooms, ViewersHaveTheirRoom
  <2> QED  BY <2>1, <2>2, <2>3, HandlersRest, PurgeRests, RequestsRest DEF IInv
<1> QED  BY <1>2, <1>3 DEF DeleteRoom

LEMMA KeepsRemoveByHand ==
  ASSUME IInv, NEW r \in Channels, RemoveByHand(r)
  PROVE  IInv'
<1>1. RoomGoes(r, "removed")
  BY MishapsKeep DEF RoomGoes, RemoveByHand, tables, locks, IInv, TypeOK
<1> QED  BY <1>1, RoomGoesKeeps

LEMMA KeepsDiscard ==
  ASSUME IInv, NEW h \in Handlers, Discard(h)
  PROVE  IInv'
<1> DEFINE r == bot[h].room
<1>1. /\ bot[h].at = "discard" /\ bot' = [bot EXCEPT ![h] = Idle]
      /\ UNCHANGED <<viewer, code, rowBy, codeBy, web, purging, strays>>
      /\ mishaps' \in 0..MaxFaults
  BY MishapsKeep DEF Discard, tables, locks
<1>2. /\ r \in Channels /\ channel[r].state # "none"
      /\ \A a \in Accounts : viewer[a].room # r
      /\ \A g \in Handlers : bot[g].room = r => g = h
  BY <1>1 DEF IInv, TypeOK, Interaction, HandlersKnow, NewRoomsArePrivate
<1>3. bot' \in [Handlers -> Interaction] /\ bot'[h] = Idle
      /\ \A g \in Handlers : g # h => bot'[g] = bot[g]
  BY <1>1 DEF IInv, TypeOK, Interaction, Idle
<1>4. CASE channel' = [channel EXCEPT ![r].state = "cleared"]
  <2>1. RoomGoes(r, "cleared")
    BY <1>1, <1>2, <1>3, <1>4 DEF RoomGoes, Idle
  <2> QED  BY <1>2, <2>1, RoomGoesKeeps
<1>5. CASE UNCHANGED channel
  <2>1. HandlerMoves(h, Idle)
    BY <1>1, <1>5 DEF HandlerMoves, Idle, Interaction, IInv, MakersHoldTheRow
  <2>2. OthersRest
    BY <1>1 DEF OthersRest, IInv, TypeOK
  <2> QED  BY <2>1, <2>2, InteractionKeeps
<1> QED  BY <1>4, <1>5 DEF Discard

(* A viewer gets the room made for her, unless she was purged meanwhile.   *)
LEMMA KeepsSaveRoom ==
  ASSUME IInv, NEW h \in Handlers, SaveRoom(h)
  PROVE  IInv'
<1> DEFINE a == bot[h].of
           room == bot[h].room
<1>1. /\ bot[h].at = "save" /\ a \in Accounts /\ bot[h].member \in Members
      /\ room \in Channels
      /\ UNCHANGED <<code, rowBy, codeBy, channel, web, purging, strays>>
  BY DEF SaveRoom, locks, IInv, TypeOK, Interaction, HandlersKnow
<1>2. mishaps' \in 0..MaxFaults
  BY MishapsKeep DEF SaveRoom
<1>3. /\ channel[room].of = a
      /\ viewer[a].status # "gone" =>
           channel[room].state \in {"here", "removed"}
      /\ \A g \in Handlers : g # h => bot[g].room # room
  BY <1>1 DEF IInv, NewRoomsArePrivate
<1>4. CASE bot' = [bot EXCEPT ![h].at = "discard"] /\ UNCHANGED viewer
  <2> DEFINE b == [bot[h] EXCEPT !.at = "discard"]
  <2>1. bot' = [bot EXCEPT ![h] = b]
    BY <1>4 DEF IInv, TypeOK
  <2>2. bot[h] \in Interaction
    BY DEF IInv, TypeOK
  <2>3. /\ b \in Interaction /\ b.at = "discard" /\ b.of = a /\ b.room = room
        /\ b.member = bot[h].member
    BY <2>2 DEF Interaction
  <2>4. \A d \in Accounts : rowBy[d] # h
    BY <1>1 DEF IInv, MakersHoldTheRow
  <2>5. room # None
    BY <1>1
  <2> HIDE DEF b
  <2>6. HandlerMoves(h, b)
    BY <1>1, <1>4, <2>1, <2>3, <2>4, <2>5 DEF HandlerMoves
  <2>7. OthersRest
    BY <1>1, <1>2 DEF OthersRest, IInv, TypeOK
  <2> QED  BY <2>6, <2>7, InteractionKeeps
<1>5. CASE viewer[a].status = "gone" /\ UNCHANGED viewer /\
             bot' = [bot EXCEPT ![h] = Idle]
  <2>1. HandlerMoves(h, Idle)
    BY <1>1, <1>5 DEF HandlerMoves, Idle, Interaction, IInv, MakersHoldTheRow
  <2>2. OthersRest
    BY <1>1, <1>2 DEF OthersRest, IInv, TypeOK
  <2> QED  BY <2>1, <2>2, InteractionKeeps
<1>6. ASSUME viewer[a].status # "gone", rowBy[a] = None,
             viewer' = [viewer EXCEPT ![a].room = room],
             bot' = [bot EXCEPT ![h] = Idle]
      PROVE  IInv'
  <2> DEFINE v == [viewer[a] EXCEPT !.room = room]
  <2>1. viewer' = [viewer EXCEPT ![a] = v]
    BY <1>1, <1>6 DEF IInv, TypeOK
  <2>2. viewer[a] \in Viewer /\ viewer[a].member # None
    BY <1>1, <1>6 DEF IInv, TypeOK, OpenersAreMembers
  <2>3. /\ v \in Viewer /\ v.member = viewer[a].member /\ v.room = room
        /\ v.status = viewer[a].status /\ v.before = viewer[a].before
        /\ v.old = viewer[a].old
    BY <1>1, <2>2 DEF Viewer
  <2>4. viewer' \in [Accounts -> Viewer] /\ viewer'[a] = v
        /\ \A d \in Accounts : d # a => viewer'[d] = viewer[d]
    BY <1>1, <2>1, <2>3 DEF IInv, TypeOK
  <2>5. /\ bot' \in [Handlers -> Interaction] /\ bot'[h] = Idle
        /\ \A g \in Handlers : g # h => bot'[g] = bot[g]
    BY <1>6 DEF IInv, TypeOK, Interaction, Idle
  <2> HIDE DEF v
  <2>6. \A d \in Accounts :
          /\ viewer'[d].status = viewer[d].status
          /\ viewer'[d].old = viewer[d].old
          /\ viewer'[d].member = viewer[d].member
          /\ viewer'[d].before = viewer[d].before
          /\ d # a => viewer'[d].room = viewer[d].room
    BY <2>3, <2>4
  <2>7. \A g \in Handlers : bot'[g].at # "idle" => g # h /\ bot'[g] = bot[g]
    BY <2>5 DEF Idle
  <2>8. \A g \in Handlers : bot'[g].room # None => g # h /\ bot'[g] = bot[g]
    BY <2>5 DEF Idle
  <2>9. TypeOK'
    BY <1>1, <1>2, <2>4, <2>5 DEF IInv, TypeOK
  <2>10. HandlersKnow' /\ RequestsKnow' /\ LiveCodesHaveOwners'
    BY <1>1, <2>5, <2>7
      DEF IInv, HandlersKnow, RequestsKnow, LiveCodesHaveOwners, Idle
  <2>11. MakersHoldTheRow'
    <3>1. \A d \in Accounts : rowBy[d] # h
      BY <1>1 DEF IInv, MakersHoldTheRow
    <3> QED
      BY <1>1, <2>5, <2>6, <2>7, <3>1
        DEF IInv, HandlersKnow, MakersHoldTheRow, Startable
  <2>12. OpenersAreMembers' /\ PurgeHoldsTheOld'
    BY <1>1, <2>6, <2>7
      DEF IInv, TypeOK, HandlersKnow, OpenersAreMembers, PurgeHoldsTheOld
  <2>13. NewRoomsArePrivate'
    BY <1>1, <1>3, <2>3, <2>4, <2>6, <2>8
      DEF IInv, HandlersKnow, NewRoomsArePrivate
  <2>14. StraysHaveNobody' /\ OnlyMembersHaveRooms'
    <3>1. OnlyMembersHaveRooms'
      BY <2>2, <2>6 DEF IInv, OnlyMembersHaveRooms
    <3> QED  BY <1>1, <2>6, <3>1, StraysRest
  <2>15. ViewersHaveTheirRoom'
    <3>1. \A d \in Accounts : d # a => viewer'[d] = viewer[d]
      BY <2>4
    <3>2. viewer'[a].room = room /\ room # None
      BY <1>1, <2>3, <2>4
    <3> QED  BY <1>1, <1>3, <1>6, <2>6, <3>1, <3>2
      DEF IInv, ViewersHaveTheirRoom
  <2> QED  BY <2>9, <2>10, <2>11, <2>12, <2>13, <2>14, <2>15 DEF IInv
<1>7. viewer[a].status = "gone" =>
        [viewer EXCEPT ![a].room = viewer[a].room] = viewer
  BY <1>1 DEF IInv, TypeOK, Viewer
<1> QED  BY <1>4, <1>5, <1>6, <1>7 DEF SaveRoom

-----------------------------------------------------------------------------
(* The purge, the sweep and the end of processes                           *)

LEMMA KeepsPurgeRow ==
  ASSUME IInv, NEW a \in Accounts, PurgeRow(a)
  PROVE  IInv'
<1>1. /\ rowBy[a] = None /\ viewer[a].old
      /\ rowBy' = [rowBy EXCEPT ![a] = Purge]
      /\ purging' = purging \cup {a}
      /\ UNCHANGED <<viewer, code, codeBy, channel, bot, web, strays, mishaps>>
  BY DEF PurgeRow, tables
<1>2. /\ rowBy' \in [Accounts -> Handlers \cup Requests \cup {Purge, None}]
      /\ \A h \in Handlers, d \in Accounts : rowBy'[d] = h <=> rowBy[d] = h
      /\ \A d \in Accounts : rowBy'[d] = IF d = a THEN Purge ELSE rowBy[d]
  BY <1>1 DEF IInv, TypeOK
<1>3. TypeOK'
  BY <1>1, <1>2 DEF IInv, TypeOK
<1>4. PurgeHoldsTheOld'
  BY <1>1, <1>2 DEF IInv, TypeOK, PurgeHoldsTheOld
<1> QED  BY <1>1, <1>2, <1>3, <1>4, HandlersRest, RoomsRest, RequestsRest
  DEF IInv

(* No handler works on an account that is purged, save one that makes its  *)
(* room again; no member of it is left, and its rooms are for the sweep.   *)
LEMMA KeepsPurgeEnds ==
  ASSUME IInv, PurgeEnds
  PROVE  IInv'
<1>1. /\ viewer' = [a \in Accounts |->
           IF a \in purging THEN [NoViewer EXCEPT !.status = "gone"] ELSE viewer[a]]
      /\ code' = [c \in Codes |->
           IF c \in Doomed THEN [code[c] EXCEPT !.state = "gone"] ELSE code[c]]
      /\ Ends(Purge) /\ purging' = {}
      /\ UNCHANGED <<channel, bot, web, strays, mishaps>>
  BY DEF PurgeEnds
<1>2. /\ rowBy' \in [Accounts -> Handlers \cup Requests \cup {Purge, None}]
      /\ codeBy' \in [Codes -> Handlers \cup Requests \cup {None}]
      /\ \A a \in Accounts :
           rowBy'[a] = IF rowBy[a] = Purge THEN None ELSE rowBy[a]
      /\ \A h \in Handlers, a \in Accounts : rowBy'[a] = h <=> rowBy[a] = h
  BY <1>1, EndsKeeps DEF IInv
<1>3. \A a \in Accounts :
        \/ viewer'[a] = viewer[a] /\ a \notin purging
        \/ /\ a \in purging /\ rowBy[a] = Purge
           /\ viewer'[a].status = "gone" /\ viewer'[a].member = None
           /\ viewer'[a].room = None /\ viewer'[a].old = FALSE
  BY <1>1 DEF NoViewer, IInv, PurgeHoldsTheOld
<1>4. viewer' \in [Accounts -> Viewer]
  BY <1>1 DEF IInv, TypeOK, Viewer, NoViewer
<1>5. code' \in [Codes -> Code] /\ LiveCodesHaveOwners'
  <2>1. ASSUME NEW c \in Codes
        PROVE  code'[c] \in Code /\
                 (code'[c].state = "live" => code'[c] = code[c])
    <3>1. code[c] \in Code
      BY DEF IInv, TypeOK
    <3> QED  BY <1>1, <3>1 DEF Code
  <2>2. code' = [c \in Codes |-> code'[c]]
    BY <1>1
  <2> QED  BY <2>1, <2>2 DEF IInv, LiveCodesHaveOwners
<1>6. TypeOK'
  BY <1>1, <1>2, <1>4, <1>5 DEF IInv, TypeOK
<1>7. HandlersKnow' /\ RequestsKnow'
  BY <1>1 DEF IInv, HandlersKnow, RequestsKnow
<1>8. MakersHoldTheRow'
  <2>1. \A h \in Handlers : bot[h].at \in {"make", "commit"} =>
          viewer'[bot[h].of] = viewer[bot[h].of]
    BY <1>3 DEF IInv, HandlersKnow, MakersHoldTheRow
  <2>2. \A h \in Handlers : bot[h].at \in {"make", "commit"} =>
          rowBy'[bot[h].of] = h
    BY <1>1, <1>2, <2>1 DEF IInv, HandlersKnow, MakersHoldTheRow
  <2>3. \A h \in Handlers : bot[h].at \in {"make", "commit"} =>
          Startable(bot[h].of)
    BY DEF IInv, MakersHoldTheRow
  <2>4. \A h \in Handlers : bot'[h].at \in {"make", "commit"} =>
          Startable(bot[h].of)'
    BY <1>1, <2>1, <2>3 DEF Startable
  <2> QED  BY <1>1, <1>2, <2>2, <2>4 DEF IInv, MakersHoldTheRow
<1>9. OpenersAreMembers'
  BY <1>1, <1>3 DEF IInv, HandlersKnow, OpenersAreMembers
<1>10. PurgeHoldsTheOld'
  BY <1>1, <1>3 DEF IInv, PurgeHoldsTheOld
<1>11. NewRoomsArePrivate'
  BY <1>1, <1>3 DEF IInv, HandlersKnow, NewRoomsArePrivate
<1>12. StraysHaveNobody'
  BY <1>1, <1>3, StraysRest
<1>13. OnlyMembersHaveRooms' /\ ViewersHaveTheirRoom'
  BY <1>1, <1>3 DEF IInv, OnlyMembersHaveRooms, ViewersHaveTheirRoom
<1> QED  BY <1>5, <1>6, <1>7, <1>8, <1>9, <1>10, <1>11, <1>12, <1>13 DEF IInv

(* PostgreSQL ends one transaction of a circle.                            *)
LEMMA KeepsAbort ==
  ASSUME IInv, NEW x \in Handlers \cup Requests \cup {Purge}, Abort(x)
  PROVE  IInv'
<1>1. Ends(x) /\ UNCHANGED <<viewer, code, channel, strays, mishaps>>
  BY DEF Abort, tables
<1>2. CASE x \in Handlers
  <2>1. /\ bot' = [h \in Handlers |-> IF h = x THEN Idle ELSE bot[h]]
        /\ web' = [w \in Requests |-> web[w]] /\ purging' = purging
    BY <1>2 DEF Abort
  <2>2. bot' = [bot EXCEPT ![x] = Idle] /\ web' = web
    BY <2>1 DEF IInv, TypeOK
  <2> QED  BY <1>1, <1>2, <2>1, <2>2, IdleKeeps DEF IInv, TypeOK
<1>3. CASE x \in Requests
  <2>1. /\ web' = [w \in Requests |-> IF w = x THEN Quiet ELSE web[w]]
        /\ bot' = [h \in Handlers |-> bot[h]] /\ purging' = purging
    BY <1>3 DEF Abort
  <2>2. web' = [web EXCEPT ![x] = Quiet] /\ bot' = bot
    BY <2>1 DEF IInv, TypeOK
  <2> QED  BY <1>1, <1>3, <2>1, <2>2, QuietKeeps, CodesRest DEF IInv, TypeOK
<1>4. CASE x = Purge
  <2>1. UNCHANGED <<bot, web>> /\ purging' = {}
    BY <1>4 DEF Abort, IInv, TypeOK
  <2>2. /\ rowBy' \in [Accounts -> Handlers \cup Requests \cup {Purge, None}]
        /\ codeBy' \in [Codes -> Handlers \cup Requests \cup {None}]
        /\ \A h \in Handlers, a \in Accounts : rowBy'[a] = h <=> rowBy[a] = h
    BY <1>1, <1>4, EndsKeeps DEF IInv
  <2>3. TypeOK' /\ PurgeHoldsTheOld'
    BY <1>1, <2>1, <2>2 DEF IInv, TypeOK, PurgeHoldsTheOld
  <2> QED  BY <1>1, <2>1, <2>2, <2>3, HandlersRest, RoomsRest, RequestsRest
    DEF IInv
<1> QED  BY <1>2, <1>3, <1>4

LEMMA KeepsReadRooms ==
  ASSUME IInv, ReadRooms
  PROVE  IInv'
<1>1. UNCHANGED <<viewer, code, rowBy, codeBy, channel, bot, web, purging,
        mishaps>>
      /\ strays' = Orphans
  BY DEF ReadRooms, tables, locks
<1>2. TypeOK' /\ OnlyMembersHaveRooms' /\ ViewersHaveTheirRoom'
  BY <1>1 DEF IInv, TypeOK, Orphans, OnlyMembersHaveRooms, ViewersHaveTheirRoom
<1>3. StraysHaveNobody'
  BY <1>1 DEF IInv, StraysHaveNobody, Orphans
<1> QED  BY <1>1, <1>2, <1>3, HandlersRest, PurgeRests, RequestsRest DEF IInv

LEMMA KeepsBotDies ==
  ASSUME IInv, BotDies
  PROVE  IInv'
<1>1. /\ rowBy' = [a \in Accounts |-> IF rowBy[a] \in Handlers THEN None ELSE rowBy[a]]
      /\ codeBy' = [c \in Codes |-> IF codeBy[c] \in Handlers THEN None ELSE codeBy[c]]
      /\ bot' = [h \in Handlers |-> Idle] /\ strays' = {}
      /\ UNCHANGED <<viewer, code, channel, web, purging>>
      /\ mishaps' \in 0..MaxFaults
  BY MishapsKeep DEF BotDies, tables
<1>2. TypeOK'
  BY <1>1 DEF IInv, TypeOK, Interaction, Idle
<1>3. /\ HandlersKnow' /\ RequestsKnow' /\ LiveCodesHaveOwners'
      /\ MakersHoldTheRow'
      /\ OpenersAreMembers' /\ NewRoomsArePrivate' /\ StraysHaveNobody'
  BY <1>1 DEF IInv, HandlersKnow, RequestsKnow, LiveCodesHaveOwners,
    MakersHoldTheRow,
    OpenersAreMembers, NewRoomsArePrivate, StraysHaveNobody, Idle
<1>4. PurgeHoldsTheOld' /\ OnlyMembersHaveRooms' /\ ViewersHaveTheirRoom'
  BY <1>1 DEF IInv, TypeOK, PurgeHoldsTheOld, OnlyMembersHaveRooms,
    ViewersHaveTheirRoom
<1> QED  BY <1>2, <1>3, <1>4 DEF IInv

-----------------------------------------------------------------------------
LEMMA InvInit == Init => IInv
<1> USE DEF Init, NoViewer, NoCode, NoChannel, Idle, Quiet
<1> SUFFICES ASSUME Init PROVE IInv
  OBVIOUS
<1>1. TypeOK
  BY DEF TypeOK, Viewer, Code, Channel, Interaction, Request
<1>2. HandlersKnow /\ RequestsKnow /\ LiveCodesHaveOwners
  BY DEF HandlersKnow, RequestsKnow, LiveCodesHaveOwners
<1>3. MakersHoldTheRow /\ OpenersAreMembers /\ PurgeHoldsTheOld
  BY DEF MakersHoldTheRow, OpenersAreMembers, PurgeHoldsTheOld
<1>4. NewRoomsArePrivate /\ StraysHaveNobody /\ OnlyMembersHaveRooms
  BY DEF NewRoomsArePrivate, StraysHaveNobody, OnlyMembersHaveRooms
<1>5. ViewersHaveTheirRoom
  BY DEF ViewersHaveTheirRoom
<1> QED  BY <1>1, <1>2, <1>3, <1>4, <1>5 DEF IInv

LEMMA InvStutters == IInv /\ UNCHANGED vars => IInv'
<1> SUFFICES ASSUME IInv, UNCHANGED vars PROVE IInv'
  OBVIOUS
<1>1. TypeOK'
  BY DEF vars, IInv, TypeOK
<1> QED  BY <1>1, HandlersRest, PurgeRests, RequestsRest, RoomsRest
  DEF vars, IInv

LEMMA InvNext == IInv /\ [Next]_vars => IInv'
<1> SUFFICES ASSUME IInv, [Next]_vars PROVE IInv'
  OBVIOUS
<1>1. ASSUME NEW a \in Accounts, NEW c \in Codes, Apply(a, c) PROVE IInv'
  BY <1>1, KeepsApply
<1>2. ASSUME NEW a \in Accounts, NEW s \in {"trial", "active"}, Register(a, s)
      PROVE  IInv'
  BY <1>2, KeepsRegister
<1>3. ASSUME NEW a \in Accounts, NEW w \in Requests, NEW c \in Codes,
             ApplyAgain(w, a, c) \/ Reissue(w, a, c)
      PROVE  IInv'
  BY <1>3, KeepsApplyAgain, KeepsReissue
<1>4. ASSUME NEW a \in Accounts,
             Suspend(a) \/ Unsuspend(a) \/ Activate(a) \/ Extend(a)
      PROVE  IInv'
  BY <1>4, KeepsSuspend, KeepsUnsuspend, KeepsActivate, KeepsExtend
<1>5. ASSUME NEW a \in Accounts, GetsOld(a) \/ PurgeRow(a) PROVE IInv'
  BY <1>5, KeepsGetsOld, KeepsPurgeRow
<1>6. ASSUME NEW a \in Accounts, NEW h \in Handlers, NEW m \in Members,
             OpenRoom(h, m, a)
      PROVE  IInv'
  BY <1>6, KeepsOpenRoom
<1>7. ASSUME NEW w \in Requests, RequestStep(w) \/ RequestFails(w) PROVE IInv'
  BY <1>7, KeepsDeleteCodes, KeepsInsertCode, KeepsAbort, KeepsRequestFails
    DEF RequestStep
<1>8. ASSUME NEW h \in Handlers, NEW m \in Members, NEW c \in Codes,
             EnterCode(h, m, c)
      PROVE  IInv'
  BY <1>8, KeepsEnterCode
<1>9. ASSUME NEW h \in Handlers, HandlerStep(h) PROVE IInv'
  BY <1>9, KeepsTakeRow, KeepsMakeRoom, KeepsCommitTrial, KeepsDiscard,
    KeepsSaveRoom, KeepsAbort DEF HandlerStep
<1>10. CASE PurgeEnds \/ Abort(Purge) \/ ReadRooms \/ BotDies
  BY <1>10, KeepsPurgeEnds, KeepsAbort, KeepsReadRooms, KeepsBotDies
<1>11. ASSUME NEW r \in Channels, DeleteRoom(r) \/ RemoveByHand(r) PROVE IInv'
  BY <1>11, KeepsDeleteRoom, KeepsRemoveByHand
<1>12. CASE UNCHANGED vars
  BY <1>12, InvStutters
<1> QED  BY <1>1, <1>2, <1>3, <1>4, <1>5, <1>6, <1>7, <1>8, <1>9, <1>10, <1>11,
  <1>12
  DEF Next

LEMMA Invariant == Spec => []IInv
BY InvInit, InvNext, PTL DEF Spec

-----------------------------------------------------------------------------
(* What the rows of the accounts go through                                *)

(* Only the end of a trial's transaction gives an account a member; only   *)
(* the purge takes one away, and only it deletes.                          *)
RowMayBecome(a) ==
  /\ viewer[a].member \notin {None, viewer'[a].member} =>
       viewer'[a].status = "gone"
  /\ viewer[a].status = "suspended" =>
       viewer'[a].status \in {"suspended", viewer[a].before, "gone"}
  /\ viewer'[a].status = "gone" /\ viewer[a].status # "gone" =>
       viewer[a].old /\ viewer[a].status # "active"

LEMMA RowsChangeRightly ==
  ASSUME IInv, [Next]_vars, NEW a \in Accounts
  PROVE  RowMayBecome(a)
<1>1. viewer \in [Accounts -> Viewer]
  BY DEF IInv, TypeOK
<1>2. CASE UNCHANGED viewer
  BY <1>2 DEF RowMayBecome
<1>3. ASSUME NEW b \in Accounts, NEW c \in Codes,
             Apply(b, c) PROVE RowMayBecome(a)
  BY <1>1, <1>3 DEF Apply, RowMayBecome, Viewer
<1>4. ASSUME NEW b \in Accounts, NEW s \in {"trial", "active"}, Register(b, s)
      PROVE  RowMayBecome(a)
  BY <1>1, <1>4 DEF Register, RowMayBecome, Viewer
<1>5. ASSUME NEW b \in Accounts,
             Suspend(b) \/ Activate(b) \/ Extend(b) \/ GetsOld(b)
      PROVE  RowMayBecome(a)
  BY <1>1, <1>5 DEF Suspend, Activate, Extend, GetsOld, RowMayBecome, Viewer
<1>6. ASSUME NEW b \in Accounts, Unsuspend(b) PROVE RowMayBecome(a)
  BY <1>1, <1>6 DEF Unsuspend, RowMayBecome, Viewer
<1>7. ASSUME NEW h \in Handlers, CommitTrial(h) PROVE RowMayBecome(a)
  <2>1. bot[h].of \in Accounts /\ Startable(bot[h].of)
    BY <1>7 DEF CommitTrial, IInv, HandlersKnow, MakersHoldTheRow
  <2>2. viewer'[a].status = "gone" => viewer[a].status = "gone"
    <3>1. CASE UNCHANGED viewer
      BY <3>1
    <3>2. CASE viewer' = [viewer EXCEPT ![bot[h].of].member = bot[h].member,
                 ![bot[h].of].room = bot[h].room,
                 ![bot[h].of].status = IF @ = "pending" THEN "trial" ELSE @,
                 ![bot[h].of].old = @ /\ viewer[bot[h].of].status # "pending"]
      <4>1. viewer[bot[h].of] \in Viewer /\ viewer[bot[h].of].status # "gone"
        BY <1>1, <2>1 DEF Startable
      <4>2. CASE a = bot[h].of
        BY <1>1, <3>2, <4>1, <4>2 DEF Viewer
      <4>3. CASE a # bot[h].of
        BY <1>1, <2>1, <3>2, <4>3
      <4> QED  BY <4>2, <4>3
    <3> QED  BY <1>7, <3>1, <3>2 DEF CommitTrial, tables
  <2>3. a # bot[h].of => viewer'[a] = viewer[a]
    BY <1>1, <1>7 DEF CommitTrial, tables
  <2> QED  BY <2>1, <2>2, <2>3 DEF RowMayBecome, Startable
<1>8. ASSUME NEW h \in Handlers, SaveRoom(h) PROVE RowMayBecome(a)
  <2>1. /\ viewer'[a].status = viewer[a].status
        /\ viewer'[a].member = viewer[a].member
    BY <1>1, <1>8 DEF SaveRoom, Viewer
  <2> QED  BY <2>1 DEF RowMayBecome
<1>9. CASE PurgeEnds
  <2>1. a \notin purging => viewer'[a] = viewer[a]
    BY <1>9 DEF PurgeEnds
  <2>2. a \in purging => viewer'[a].status = "gone" /\ viewer[a].old
    BY <1>9 DEF PurgeEnds, NoViewer, IInv, PurgeHoldsTheOld
  <2> QED  BY <2>1, <2>2 DEF RowMayBecome, IInv, PurgeHoldsTheOld
<1>10. ASSUME NEW b \in Accounts, NEW w \in Requests, NEW c \in Codes,
              ApplyAgain(w, b, c) \/ Reissue(w, b, c)
       PROVE  UNCHANGED viewer
  BY <1>10 DEF ApplyAgain, Reissue
<1>11. ASSUME NEW b \in Accounts, PurgeRow(b) PROVE UNCHANGED viewer
  BY <1>11 DEF PurgeRow, tables
<1>12. ASSUME NEW b \in Accounts, NEW h \in Handlers, NEW m \in Members,
              OpenRoom(h, m, b)
       PROVE  UNCHANGED viewer
  BY <1>12 DEF OpenRoom, tables
<1>13. ASSUME NEW w \in Requests, RequestStep(w) \/ RequestFails(w)
       PROVE  UNCHANGED viewer
  BY <1>13 DEF RequestStep, DeleteCodes, InsertCode, Abort, RequestFails,
    tables
<1>14. ASSUME NEW h \in Handlers, NEW m \in Members, NEW c \in Codes,
              EnterCode(h, m, c)
       PROVE  UNCHANGED viewer
  BY <1>14 DEF EnterCode, tables
<1>15. ASSUME NEW h \in Handlers, HandlerStep(h) PROVE RowMayBecome(a)
  <2>1. TakeRow(h) \/ MakeRoom(h) \/ Discard(h) \/ Abort(h) => UNCHANGED viewer
    BY DEF TakeRow, MakeRoom, Discard, Abort, tables
  <2> QED  BY <1>2, <1>7, <1>8, <1>15, <2>1 DEF HandlerStep
<1>16. Abort(Purge) \/ ReadRooms \/ BotDies => UNCHANGED viewer
  BY DEF Abort, ReadRooms, BotDies, tables
<1>17. ASSUME NEW r \in Channels, DeleteRoom(r) \/ RemoveByHand(r)
       PROVE  UNCHANGED viewer
  BY <1>17 DEF DeleteRoom, RemoveByHand, tables
<1>18. UNCHANGED vars => UNCHANGED viewer
  BY DEF vars
<1> QED
  BY <1>2, <1>3, <1>4, <1>5, <1>6, <1>9, <1>10, <1>11, <1>12, <1>13, <1>14,
    <1>15,
    <1>16, <1>17, <1>18 DEF Next

-----------------------------------------------------------------------------
(* What follows                                                            *)

(* Every variable keeps its type.                                          *)
THEOREM TypeCorrect == Spec => []TypeOK
<1>1. IInv => TypeOK
  BY DEF IInv
<1> QED  BY <1>1, Invariant, PTL

(* However codes are entered, rooms made again, discarded and swept by any *)
(* number of interactions that die at any point: the room an account names *)
(* was made for it and the bot has not deleted it.                         *)
THEOREM RoomsStand == Spec => []ViewersHaveTheirRoom
<1>1. IInv => ViewersHaveTheirRoom
  BY DEF IInv
<1> QED  BY <1>1, Invariant, PTL

(* All that the code promises of viewers: their rooms, that an account is  *)
(* joined once although two of its codes may be live, that a suspension    *)
(* stands against trials that start meanwhile, and that only those are     *)
(* purged who are too old and not under contract when the purge ends.      *)
THEOREM ViewersDoHold == Spec => ViewersHold
<1>1. IInv => TypeOK /\ ViewersHaveTheirRoom
  BY DEF IInv
<1>2. IInv /\ [Next]_vars =>
        [\A a \in Accounts : viewer[a].member \notin {None,
          viewer'[a].member} =>
           viewer'[a].status = "gone"]_vars
  BY RowsChangeRightly DEF RowMayBecome
<1>3. IInv /\ [Next]_vars =>
        [\A a \in Accounts : viewer[a].status = "suspended" =>
           viewer'[a].status \in {"suspended", viewer[a].before, "gone"}]_vars
  BY RowsChangeRightly DEF RowMayBecome
<1>4. IInv /\ [Next]_vars =>
        [\A a \in Accounts : viewer'[a].status = "gone" /\ viewer[a].status # "gone" =>
           viewer[a].old /\ viewer[a].status # "active"]_vars
  BY RowsChangeRightly DEF RowMayBecome
<1>5. Spec => [](TypeOK /\ ViewersHaveTheirRoom)
  BY <1>1, Invariant, PTL
<1>6. Spec => JoinedOnce
  BY <1>2, Invariant, PTL DEF Spec, JoinedOnce
<1>7. Spec => SuspensionStands
  BY <1>3, Invariant, PTL DEF Spec, SuspensionStands
<1>8. Spec => PurgedWereOld
  BY <1>4, Invariant, PTL DEF Spec, PurgedWereOld
<1> QED  BY <1>5, <1>6, <1>7, <1>8, PTL DEF ViewersHold

=============================================================================
