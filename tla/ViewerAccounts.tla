--------------------------- MODULE ViewerAccounts ---------------------------
(***************************************************************************)
(* People outside who may look at the stock: they apply and get a code     *)
(* (routers/viewer.py, services/viewer_signup.py), a member of the Discord *)
(* server enters the code and gets a private room and a trial              *)
(* (discord_gateway/viewer_trial.py), the staff activate, suspend or       *)
(* extend them (services/viewer_admin.py), and old accounts are purged     *)
(* every day (tasks/maintenance.py).  Row locks of PostgreSQL are held     *)
(* over calls of Discord, and its deadlock detection ends circles.  Counts *)
(* of attempts, passwords, texts and the names of rooms are left out.      *)
(***************************************************************************)
EXTENDS Naturals

CONSTANTS
  Accounts,     \* rows of viewer_accounts, each for one address
  Members,      \* of the Discord server
  Codes,        \* that may be generated
  Channels,     \* rooms Discord may make
  Handlers,     \* interactions the bot works on
  Requests,     \* of the web application
  Purge,        \* the daily task
  None,
  MaxFaults

ViewerAccountsAssumption ==
  /\ None \notin Accounts \cup Members \cup Channels \cup Handlers \cup Requests
  /\ Purge \notin Handlers \cup Requests \cup {None}
  /\ Handlers \cap Requests = {}
  /\ MaxFaults \in Nat

ASSUME ViewersAssumption == ViewerAccountsAssumption

VARIABLES
  viewer,       \* viewer_accounts
  code,         \* viewer_login_tokens with purpose signup_code
  rowBy,        \* who holds the row of an account
  codeBy,       \* who holds the row of a code
  channel,      \* what stands in Discord
  bot,          \* on_code_submit and on_open
  web,          \* sign-ups and codes that are issued again
  purging,      \* accounts the task has deleted and not committed
  strays,       \* rooms the sweep is about to delete
  mishaps

vars == <<viewer, code, rowBy, codeBy, channel, bot, web, purging, strays, mishaps>>
tables == <<viewer, code>>
locks == <<rowBy, codeBy>>

NoViewer == [status |-> "none", before |-> "none", member |-> None,
             room |-> None, old |-> FALSE]
NoCode == [state |-> "fresh", of |-> None]
NoChannel == [state |-> "none", of |-> None]
Idle == [at |-> "idle", of |-> None, code |-> None, member |-> None, room |-> None]
Quiet == [at |-> "idle", of |-> None, code |-> None, seen |-> {}]

Init ==
  /\ viewer = [a \in Accounts |-> NoViewer]
  /\ code = [c \in Codes |-> NoCode]
  /\ rowBy = [a \in Accounts |-> None]
  /\ codeBy = [c \in Codes |-> None]
  /\ channel = [r \in Channels |-> NoChannel]
  /\ bot = [h \in Handlers |-> Idle]
  /\ web = [w \in Requests |-> Quiet]
  /\ purging = {} /\ strays = {} /\ mishaps = 0

Mishap == mishaps < MaxFaults /\ mishaps' = mishaps + 1
NoMishap == UNCHANGED mishaps

Live(c, a) == code[c] = [state |-> "live", of |-> a]
LiveCodes(a) == {c \in Codes : Live(c, a)}
RowsWithout(x) == [a \in Accounts |-> IF rowBy[a] = x THEN None ELSE rowBy[a]]
CodesWithout(x) == [c \in Codes |-> IF codeBy[c] = x THEN None ELSE codeBy[c]]
(* A transaction of x ends, with or without a commit.                      *)
Ends(x) == rowBy' = RowsWithout(x) /\ codeBy' = CodesWithout(x)

(* Nobody tells a new code, or a new room, from another one.               *)
NewCode(c) ==
  code[c].state = "fresh" /\ c = CHOOSE d \in Codes : code[d].state = "fresh"
NewChannel(r) ==
  channel[r].state = "none" /\ r = CHOOSE q \in Channels : channel[q].state = "none"

-----------------------------------------------------------------------------
(* Sign-ups and codes issued again.  A new applicant gets the account and  *)
(* the code at once.                                                       *)
Apply(a, c) ==
  /\ viewer[a].status = "none" /\ NewCode(c)
  /\ viewer' = [viewer EXCEPT ![a].status = "pending"]
  /\ code' = [code EXCEPT ![c] = [state |-> "live", of |-> a]]
  /\ UNCHANGED <<locks, channel, bot, web, purging, strays, mishaps>>

(* register_initial: a viewer from before, without a code and a room.      *)
Register(a, s) ==
  /\ viewer[a].status = "none" /\ s \in {"trial", "active"}
  /\ viewer' = [viewer EXCEPT ![a].status = s]
  /\ UNCHANGED <<code, locks, channel, bot, web, purging, strays, mishaps>>

Begin(w, a, c) ==
  /\ web[w].at = "idle" /\ NewCode(c)
  /\ web' = [web EXCEPT ![w] = [Quiet EXCEPT !.at = "replace", !.of = a, !.code = c]]
  /\ code' = [code EXCEPT ![c].state = "drawn"]

(* viewer_signup reads that the applicant is still pending ...             *)
ApplyAgain(w, a, c) ==
  /\ viewer[a].status = "pending"
  /\ Begin(w, a, c)
  /\ UNCHANGED <<viewer, locks, channel, bot, purging, strays, mishaps>>

(* ... and reissue_signup_code takes the account FOR UPDATE.               *)
MayGetCode(a) ==
  viewer[a].status \in {"pending", "trial", "active"} /\ viewer[a].member = None

Reissue(w, a, c) ==
  /\ rowBy[a] = None /\ MayGetCode(a)
  /\ Begin(w, a, c)
  /\ rowBy' = [rowBy EXCEPT ![a] = w]
  /\ UNCHANGED <<viewer, codeBy, channel, bot, purging, strays, mishaps>>

(* replace_signup_code.  The DELETE sees the codes there are when it       *)
(* starts, and waits for those that somebody else holds.                   *)
DeleteCodes(w) ==
  LET seen == LiveCodes(web[w].of) IN
  /\ web[w].at = "replace"
  /\ web' = [web EXCEPT ![w].at = "insert", ![w].seen = seen]
  /\ codeBy' = [c \in Codes |-> IF c \in seen /\ codeBy[c] = None THEN w ELSE codeBy[c]]
  /\ UNCHANGED <<tables, rowBy, channel, bot, purging, strays, mishaps>>

(* Those who hold what w, in its DELETE or its INSERT, waits for.  The     *)
(* foreign key of the new code needs the row of the account.               *)
Holders(w) ==
  LET deleting == {codeBy[c] : c \in {d \in web[w].seen : Live(d, web[w].of)}}
                    \ {None, w}
  IN  IF web[w].at # "insert" THEN {}
      ELSE IF deleting # {} THEN deleting
      ELSE {rowBy[web[w].of]} \ {None, w}

InsertCode(w) ==
  LET a == web[w].of IN
  /\ web[w].at = "insert" /\ Holders(w) = {}
  /\ code' = [c \in Codes |->
       IF c \in web[w].seen THEN [state |-> "gone", of |-> a]
       ELSE IF c = web[w].code /\ viewer[a].status # "gone"
            THEN [state |-> "live", of |-> a] ELSE code[c]]
  /\ Ends(w) /\ web' = [web EXCEPT ![w] = Quiet]
  /\ UNCHANGED <<viewer, channel, bot, purging, strays, mishaps>>

(* A request that fails before its commit.                                 *)
RequestFails(w) ==
  /\ web[w].at # "idle" /\ Mishap
  /\ Ends(w) /\ web' = [web EXCEPT ![w] = Quiet]
  /\ UNCHANGED <<tables, channel, bot, purging, strays>>

-----------------------------------------------------------------------------
(* change_status: the row is taken FOR UPDATE and soon released.           *)
Suspend(a) ==
  /\ rowBy[a] = None /\ viewer[a].status \in {"pending", "trial", "active"}
  /\ viewer' = [viewer EXCEPT ![a].status = "suspended",
       ![a].before = viewer[a].status, ![a].old = FALSE]
  /\ UNCHANGED <<code, locks, channel, bot, web, purging, strays, mishaps>>

Unsuspend(a) ==
  /\ rowBy[a] = None /\ viewer[a].status = "suspended"
  /\ viewer' = [viewer EXCEPT ![a].status = viewer[a].before, ![a].old = FALSE]
  /\ UNCHANGED <<code, locks, channel, bot, web, purging, strays, mishaps>>

Activate(a) ==
  /\ rowBy[a] = None /\ viewer[a].status = "trial"
  /\ viewer' = [viewer EXCEPT ![a].status = "active", ![a].old = FALSE]
  /\ UNCHANGED <<code, locks, channel, bot, web, purging, strays, mishaps>>

Extend(a) ==
  /\ rowBy[a] = None /\ viewer[a].status = "trial" /\ viewer[a].old
  /\ viewer' = [viewer EXCEPT ![a].old = FALSE]
  /\ UNCHANGED <<code, locks, channel, bot, web, purging, strays, mishaps>>

-----------------------------------------------------------------------------
(* The codes of the accounts that are being purged.                        *)
Doomed == UNION {LiveCodes(a) : a \in purging}

(* on_code_submit.  The DELETE of the code holds it while the transaction  *)
(* is open; who comes second waits and finds no code, and who waits        *)
(* already goes first.  No code is entered when the rooms are used up,     *)
(* which bounds the model.                                                 *)
Awaited(c) == c \in Doomed \/ \E w \in Requests : c \in web[w].seen

EnterCode(h, m, c) ==
  /\ bot[h].at = "idle" /\ code[c].state = "live" /\ codeBy[c] = None
  /\ ~ Awaited(c) /\ \E r \in Channels : NewChannel(r)
  /\ codeBy' = [codeBy EXCEPT ![c] = h]
  /\ bot' = [bot EXCEPT ![h] =
       [at |-> "row", of |-> code[c].of, code |-> c, member |-> m, room |-> None]]
  /\ UNCHANGED <<tables, rowBy, channel, web, purging, strays, mishaps>>

(* Mutant of Startable: whether somebody has joined is not looked at.      *)
StartableAgain(a) == viewer[a].status \in {"pending", "trial", "active"}

Startable(a) ==
  viewer[a].status \in {"pending", "trial", "active"} /\ viewer[a].member = None

TakeRow(h) ==
  LET a == bot[h].of IN
  /\ bot[h].at = "row" /\ rowBy[a] = None
  /\ IF Startable(a)
     THEN /\ rowBy' = [rowBy EXCEPT ![a] = h] /\ UNCHANGED codeBy
          /\ bot' = [bot EXCEPT ![h].at = "make"]
     ELSE Ends(h) /\ bot' = [bot EXCEPT ![h] = Idle]
  /\ UNCHANGED <<tables, channel, web, purging, strays, mishaps>>

(* _create_room, for a new viewer and for one whose room is gone.          *)
MakeRoom(h) ==
  /\ bot[h].at \in {"make", "remake"}
  /\ \/ \E r \in Channels :
          /\ channel[r].state = "none"
          /\ channel' = [channel EXCEPT ![r] = [state |-> "here", of |-> bot[h].of]]
          /\ bot' = [bot EXCEPT ![h].room = r,
               ![h].at = IF bot[h].at = "make" THEN "commit" ELSE "save"]
          /\ NoMishap /\ UNCHANGED locks
     \/ /\ IF \E r \in Channels : NewChannel(r) THEN Mishap ELSE NoMishap
        /\ Ends(h) /\ bot' = [bot EXCEPT ![h] = Idle] /\ UNCHANGED channel
  /\ UNCHANGED <<tables, web, purging, strays>>

(* The viewer is linked, the trial starts and the code is gone, at once.   *)
(* A member who has another account by then (uq_viewer_accounts_discord_   *)
(* user_id), or any other error, rolls back.                               *)
Linked(m) == \E a \in Accounts : viewer[a].member = m

CommitTrial(h) ==
  LET a == bot[h].of  m == bot[h].member IN
  /\ bot[h].at = "commit" /\ Ends(h)
  /\ \/ /\ ~ Linked(m) /\ NoMishap
        /\ viewer' = [viewer EXCEPT ![a].member = m, ![a].room = bot[h].room,
             ![a].status = IF @ = "pending" THEN "trial" ELSE @,
             ![a].old = @ /\ viewer[a].status # "pending"]
        /\ code' = [code EXCEPT ![bot[h].code].state = "gone"]
        /\ bot' = [bot EXCEPT ![h] = Idle]
     \/ /\ IF Linked(m) THEN NoMishap ELSE Mishap
        /\ bot' = [bot EXCEPT ![h].at = "discard"] /\ UNCHANGED tables
  /\ UNCHANGED <<channel, web, purging, strays>>

Discard(h) ==
  /\ bot[h].at = "discard"
  /\ \/ channel' = [channel EXCEPT ![bot[h].room].state = "cleared"] /\ NoMishap
     \/ Mishap /\ UNCHANGED channel
  /\ bot' = [bot EXCEPT ![h] = Idle]
  /\ UNCHANGED <<tables, locks, web, purging, strays>>

(* on_open: a viewer whose room was removed gets another one.              *)
OpenRoom(h, m, a) ==
  /\ bot[h].at = "idle" /\ viewer[a].member = m
  /\ channel[viewer[a].room].state # "here"
  /\ bot' = [bot EXCEPT ![h] = [Idle EXCEPT !.at = "remake", !.of = a, !.member = m]]
  /\ UNCHANGED <<tables, locks, channel, web, purging, strays, mishaps>>

SaveRoom(h) ==
  LET a == bot[h].of IN
  /\ bot[h].at = "save"
  /\ \/ /\ rowBy[a] = None /\ NoMishap
        /\ viewer' = [viewer EXCEPT ![a].room =
             IF viewer[a].status = "gone" THEN @ ELSE bot[h].room]
        /\ bot' = [bot EXCEPT ![h] = Idle]
     \/ Mishap /\ bot' = [bot EXCEPT ![h].at = "discard"] /\ UNCHANGED viewer
  /\ UNCHANGED <<code, locks, channel, web, purging, strays>>

-----------------------------------------------------------------------------
(* Time passes: 7 days for an applicant, 3 years for a trial that ran out  *)
(* and for somebody suspended.                                             *)
GetsOld(a) ==
  /\ viewer[a].status \in {"pending", "trial", "suspended"}
  /\ viewer' = [viewer EXCEPT ![a].old = TRUE] /\ ~ viewer[a].old
  /\ UNCHANGED <<code, locks, channel, bot, web, purging, strays, mishaps>>

(* purge_viewer_accounts takes the rows one by one, and looks again at a   *)
(* row it had to wait for.                                                 *)
PurgeRow(a) ==
  /\ rowBy[a] = None /\ viewer[a].old
  /\ rowBy' = [rowBy EXCEPT ![a] = Purge] /\ purging' = purging \cup {a}
  /\ UNCHANGED <<tables, codeBy, channel, bot, web, strays, mishaps>>

(* The codes go with their accounts (ON DELETE CASCADE).                   *)
PurgeEnds ==
  /\ purging # {} /\ \A c \in Doomed : codeBy[c] = None
  /\ viewer' = [a \in Accounts |->
       IF a \in purging THEN [NoViewer EXCEPT !.status = "gone"] ELSE viewer[a]]
  /\ code' = [c \in Codes |->
       IF c \in Doomed THEN [code[c] EXCEPT !.state = "gone"] ELSE code[c]]
  /\ Ends(Purge) /\ purging' = {}
  /\ UNCHANGED <<channel, bot, web, strays, mishaps>>

(* Whom x waits for, and PostgreSQL's end of one transaction in a circle.  *)
WaitsFor(x) ==
  CASE x \in Requests -> Holders(x)
    [] x \in Handlers ->
         IF bot[x].at \in {"row", "save"} THEN {rowBy[bot[x].of]} \ {None} ELSE {}
    [] x = Purge -> {codeBy[c] : c \in Doomed} \ {None}

InCircle(x) ==
  \E S \in SUBSET (Handlers \cup Requests \cup {Purge}) :
    x \in S /\ \A y \in S : WaitsFor(y) \cap S # {}

Abort(x) ==
  /\ InCircle(x) /\ Ends(x)
  /\ bot' = [h \in Handlers |-> IF h = x THEN Idle ELSE bot[h]]
  /\ web' = [w \in Requests |-> IF w = x THEN Quiet ELSE web[w]]
  /\ purging' = IF x = Purge THEN {} ELSE purging
  /\ UNCHANGED <<tables, channel, strays, mishaps>>

-----------------------------------------------------------------------------
(* sweep_orphan_rooms.                                                     *)
(* Mutant of Orphans: rooms that no account names.                         *)
OrphansUnnamed ==
  {r \in Channels : channel[r].state = "here" /\ viewer[channel[r].of].room # r}

Orphans ==
  {r \in Channels : channel[r].state = "here" /\ viewer[channel[r].of].status = "gone"}

ReadRooms ==
  /\ strays = {} /\ Orphans # {} /\ strays' = Orphans
  /\ UNCHANGED <<tables, locks, channel, bot, web, purging, mishaps>>

DeleteRoom(r) ==
  /\ r \in strays /\ strays' = strays \ {r}
  /\ \/ channel' = [channel EXCEPT ![r].state = "cleared"] /\ NoMishap
     \/ Mishap /\ UNCHANGED channel
  /\ UNCHANGED <<tables, locks, bot, web, purging>>

(* Somebody removes a room in Discord.                                     *)
RemoveByHand(r) ==
  /\ channel[r].state = "here" /\ Mishap
  /\ channel' = [channel EXCEPT ![r].state = "removed"]
  /\ UNCHANGED <<tables, locks, bot, web, purging, strays>>

(* The bot is one process: all it was about to do is gone.                 *)
BotDies ==
  /\ Mishap
  /\ \E h \in Handlers : bot[h].at # "idle"
  /\ rowBy' = [a \in Accounts |-> IF rowBy[a] \in Handlers THEN None ELSE rowBy[a]]
  /\ codeBy' = [c \in Codes |-> IF codeBy[c] \in Handlers THEN None ELSE codeBy[c]]
  /\ bot' = [h \in Handlers |-> Idle] /\ strays' = {}
  /\ UNCHANGED <<tables, channel, web, purging>>

-----------------------------------------------------------------------------
HandlerStep(h) ==
  TakeRow(h) \/ MakeRoom(h) \/ CommitTrial(h) \/ Discard(h) \/ SaveRoom(h) \/ Abort(h)
RequestStep(w) == DeleteCodes(w) \/ InsertCode(w) \/ Abort(w)

Next ==
  \/ \E a \in Accounts :
       \/ \E c \in Codes : Apply(a, c)
       \/ \E s \in {"trial", "active"} : Register(a, s)
       \/ \E w \in Requests, c \in Codes : ApplyAgain(w, a, c) \/ Reissue(w, a, c)
       \/ Suspend(a) \/ Unsuspend(a) \/ Activate(a) \/ Extend(a)
       \/ GetsOld(a) \/ PurgeRow(a)
       \/ \E h \in Handlers, m \in Members : OpenRoom(h, m, a)
  \/ \E w \in Requests : RequestStep(w) \/ RequestFails(w)
  \/ \E h \in Handlers :
       \/ \E m \in Members, c \in Codes : EnterCode(h, m, c)
       \/ HandlerStep(h)
  \/ PurgeEnds \/ Abort(Purge) \/ ReadRooms \/ BotDies
  \/ \E r \in Channels : DeleteRoom(r) \/ RemoveByHand(r)

Spec == Init /\ [][Next]_vars

(* Transactions go on while their process lives, the purge and the sweep   *)
(* come every day.                                                         *)
TransactionsGoOn ==
  /\ \A h \in Handlers : WF_vars(HandlerStep(h))
  /\ \A w \in Requests : WF_vars(RequestStep(w))
  /\ WF_vars(PurgeEnds \/ Abort(Purge))
SweepGoesOn == WF_vars(ReadRooms \/ \E r \in Channels : DeleteRoom(r))
Fairness == TransactionsGoOn /\ SweepGoesOn

FairSpec == Spec /\ Fairness

-----------------------------------------------------------------------------
(* Every variable has its type.                                            *)
Viewer ==
  [status : {"none", "pending", "trial", "active", "suspended", "gone"},
   before : {"none", "pending", "trial", "active"},
   member : Members \cup {None}, room : Channels \cup {None}, old : BOOLEAN]
Code == [state : {"fresh", "drawn", "live", "gone"}, of : Accounts \cup {None}]
Channel ==
  [state : {"none", "here", "removed", "cleared"}, of : Accounts \cup {None}]
Interaction ==
  [at : {"idle", "row", "make", "commit", "remake", "save", "discard"},
   of : Accounts \cup {None}, code : Codes \cup {None},
   member : Members \cup {None}, room : Channels \cup {None}]
Request ==
  [at : {"idle", "replace", "insert"}, of : Accounts \cup {None},
   code : Codes \cup {None}, seen : SUBSET Codes]

TypeOK ==
  /\ viewer \in [Accounts -> Viewer] /\ code \in [Codes -> Code]
  /\ rowBy \in [Accounts -> Handlers \cup Requests \cup {Purge, None}]
  /\ codeBy \in [Codes -> Handlers \cup Requests \cup {None}]
  /\ channel \in [Channels -> Channel]
  /\ bot \in [Handlers -> Interaction] /\ web \in [Requests -> Request]
  /\ purging \subseteq Accounts /\ strays \subseteq Channels
  /\ mishaps \in 0..MaxFaults

(* However codes are entered, rooms are made again and swept: the room an  *)
(* account names was made for it and never deleted by the bot, and nobody  *)
(* has a room before the trial or the contract began.                      *)
ViewersHaveTheirRoom ==
  \A a \in Accounts : viewer[a].member # None =>
    /\ viewer[a].room # None /\ channel[viewer[a].room].of = a
    /\ channel[viewer[a].room].state \in {"here", "removed"}
    /\ \/ viewer[a].status \in {"trial", "active"}
       \/ viewer[a].status = "suspended" /\ viewer[a].before \in {"trial", "active"}

(* Two codes of one account are live when two sign-ups replaced the first  *)
(* one at once.  Even so an account is joined by one member, once.         *)
JoinedOnce ==
  [][\A a \in Accounts :
       viewer[a].member \notin {None, viewer'[a].member} => viewer'[a].status = "gone"]_vars

(* A suspension stands until it is lifted, and what was before it comes    *)
(* back: no trial that starts meanwhile undoes it.                         *)
SuspensionStands ==
  [][\A a \in Accounts :
       viewer[a].status = "suspended" =>
         viewer'[a].status \in {"suspended", viewer[a].before, "gone"}]_vars

(* Who comes back in time is not purged: an account that is deleted was    *)
(* too old and not under contract at the end of the purge.                 *)
PurgedWereOld ==
  [][\A a \in Accounts :
       viewer'[a].status = "gone" /\ viewer[a].status # "gone" =>
         viewer[a].old /\ viewer[a].status # "active"]_vars

(* However codes are asked for and entered, viewers are suspended and      *)
(* purged, and rooms are removed and made again: a viewer's room stands,   *)
(* an account is joined once, a suspension stands, and nobody who is not   *)
(* too old is purged.                                                      *)
ViewersHold ==
  /\ [](TypeOK /\ ViewersHaveTheirRoom)
  /\ JoinedOnce /\ SuspensionStands /\ PurgedWereOld

(* Whoever waits for whom: entering a code, asking for one and the purge   *)
(* end.                                                                    *)
TransactionsEnd ==
  /\ \A h \in Handlers : []<>(bot[h].at = "idle")
  /\ \A w \in Requests : []<>(web[w].at = "idle")
  /\ []<>(purging = {})

(* The rooms of purged viewers do not stay.                                *)
OwnerlessRoomsGo == []<>(Orphans = {})

(* What replace_signup_code says: the old code is gone.  Two sign-ups at   *)
(* once leave two.                                                         *)
OneCode == \A a \in Accounts, c, d \in Codes : Live(c, a) /\ Live(d, a) => c = d

=============================================================================
