----------------------------- MODULE StaffJoin -----------------------------
(***************************************************************************)
(* How somebody becomes a member of the staff without an account: an       *)
(* invitation whose link an administrator hands over, the application that *)
(* uses the link up and gets a registration code (routers/staff_join.py),  *)
(* and the code that a member of the Discord server enters, who gets a     *)
(* private room with a password (discord_gateway/staff_join.py).  The room *)
(* is made while the transaction is open, and rooms that nobody came to    *)
(* own are swept.  One application makes one person, who is named by its   *)
(* invitation.  Counted failures and texts are left out.                   *)
(***************************************************************************)
EXTENDS Naturals

CONSTANTS
  Invites,
  Emails,       \* that applicants give
  Members,      \* of the Discord server
  Rooms,        \* that Discord may make
  Procs,        \* submissions of a code
  Sweepers,     \* tasks that sweep
  None,
  SlowLinks,    \* a submission may take longer than _SWEEP_MIN_AGE
  MaxKeys,      \* links made for one invitation
  MaxFaults

StaffJoinAssumption ==
  /\ None \notin Invites \cup Emails \cup Members \cup Rooms \cup Procs
  /\ SlowLinks \in BOOLEAN
  /\ MaxKeys \in Nat \ {0} /\ MaxFaults \in Nat

VARIABLES
  invite,       \* staff_join_invites
  users,        \* the addresses of public.users
  discord,      \* staff.discord_user_id of the person of an invitation
  room,         \* what stands in Discord
  link,         \* the submissions of a code
  lock,         \* who holds the row of an invitation
  sweep,
  people,       \* how many persons an invitation has made
  faults

vars == <<invite, users, discord, room, link, lock, sweep, people, faults>>

NoInvite == [status |-> "none", key |-> 0, alive |-> FALSE, code |-> FALSE,
             room |-> None]
NoRoom == [invite |-> None, age |-> "none"]
Deleted == [invite |-> None, age |-> "gone"]
NoLink == [at |-> "idle", invite |-> None, member |-> None, room |-> None]
NoSweep == [at |-> "idle", listed |-> {}, orphans |-> {}]

Init ==
  /\ invite = [i \in Invites |-> NoInvite]
  /\ users = {}
  /\ discord = [i \in Invites |-> None]
  /\ room = [r \in Rooms |-> NoRoom]
  /\ link = [p \in Procs |-> NoLink]
  /\ lock = [i \in Invites |-> None]
  /\ sweep = [s \in Sweepers |-> NoSweep]
  /\ people = [i \in Invites |-> 0]
  /\ faults = 0

Fault == faults < MaxFaults /\ faults' = faults + 1
NoFault == UNCHANGED faults

-----------------------------------------------------------------------------
(* The administrator's operations and the application take the row FOR     *)
(* UPDATE and are one transaction each.                                    *)
CreateInvite(i) ==
  /\ invite[i].status = "none"
  /\ invite' = [invite EXCEPT ![i] =
       [NoInvite EXCEPT !.status = "open", !.key = 1, !.alive = TRUE]]
  /\ UNCHANGED <<users, discord, room, link, lock, sweep, people, faults>>

OpenInvite(i) == lock[i] = None /\ invite[i].status = "open"

(* A new key and 72 hours more; the old link opens nothing.                *)
Reissue(i) ==
  /\ OpenInvite(i) /\ invite[i].key < MaxKeys
  /\ invite' = [invite EXCEPT ![i].key = @ + 1, ![i].alive = TRUE]
  /\ UNCHANGED <<users, discord, room, link, lock, sweep, people, faults>>

Revoke(i) ==
  /\ OpenInvite(i)
  /\ invite' = [invite EXCEPT ![i].status = "revoked"]
  /\ UNCHANGED <<users, discord, room, link, lock, sweep, people, faults>>

(* The link, or the registration code, runs out.                           *)
Expire(i) ==
  /\ invite[i].status \in {"open", "submitted"} /\ invite[i].alive
  /\ invite' = [invite EXCEPT ![i].alive = FALSE]
  /\ UNCHANGED <<users, discord, room, link, lock, sweep, people, faults>>

(* submit_join with the key that is valid now and an address nobody has.   *)
Usable(i, k) == OpenInvite(i) /\ invite[i].key = k /\ invite[i].alive

Submit(i, k, e) ==
  /\ Usable(i, k)
  /\ e \notin users /\ users' = users \cup {e}
  /\ people' = [people EXCEPT ![i] = @ + 1]
  /\ invite' = [invite EXCEPT ![i].status = "submitted", ![i].alive = TRUE,
                              ![i].code = TRUE]
  /\ UNCHANGED <<discord, room, link, lock, sweep, faults>>

-----------------------------------------------------------------------------
(* on_code_submit.  Whether the member is registered already is looked up  *)
(* before the transaction ...                                              *)
Registered(m) == \E i \in Invites : discord[i] = m

Precheck(p, i, m) ==
  /\ link[p].at = "idle" /\ invite[i].status = "submitted"
  /\ ~ Registered(m)
  /\ link' = [link EXCEPT ![p] =
       [at |-> "checked", invite |-> i, member |-> m, room |-> None]]
  /\ UNCHANGED <<invite, users, discord, room, lock, sweep, people, faults>>

(* ... and in it again, with the row of the code held.                     *)
Linkable(i, m) ==
  /\ invite[i].status = "submitted" /\ invite[i].code /\ invite[i].alive
  /\ discord[i] = None /\ ~ Registered(m)

TakeCode(p) ==
  LET i == link[p].invite IN
  /\ link[p].at = "checked" /\ lock[i] = None
  /\ IF Linkable(i, link[p].member)
     THEN /\ lock' = [lock EXCEPT ![i] = p]
          /\ link' = [link EXCEPT ![p].at = "locked"]
     ELSE link' = [link EXCEPT ![p] = NoLink] /\ UNCHANGED lock
  /\ UNCHANGED <<invite, users, discord, room, sweep, people, faults>>

(* Mutant of Unlocked: the transaction is left open.                       *)
StillLocked(p) == lock

Unlocked(p) == [i \in Invites |-> IF lock[i] = p THEN None ELSE lock[i]]

MakeRoom(p) ==
  /\ link[p].at = "locked"
  /\ \/ \E r \in Rooms :
          /\ room[r].age = "none"
          /\ room' = [room EXCEPT ![r] =
                        [invite |-> link[p].invite, age |-> "new"]]
          /\ link' = [link EXCEPT ![p].at = "room", ![p].room = r]
          /\ NoFault /\ UNCHANGED lock
     \/ /\ IF \E r \in Rooms : room[r].age = "none" THEN Fault ELSE NoFault
        /\ link' = [link EXCEPT ![p] = NoLink]
        /\ lock' = Unlocked(p) /\ UNCHANGED room
  /\ UNCHANGED <<invite, users, discord, sweep, people>>

(* The password, the member and the room are stored at once.  Another      *)
(* person who has the member by now (UNIQUE (tenant_id, discord_user_id)), *)
(* or any other error, rolls back, and the room is discarded.              *)
CommitLink(p) ==
  LET i == link[p].invite  m == link[p].member IN
  /\ link[p].at = "room"
  /\ lock' = Unlocked(p)
  /\ \/ /\ ~ Registered(m)
        /\ discord' = [discord EXCEPT ![i] = m]
        /\ invite' = [invite EXCEPT ![i].status = "linked", ![i].code = FALSE,
                                    ![i].room = link[p].room]
        /\ link' = [link EXCEPT ![p] = NoLink]
        /\ NoFault
     \/ /\ IF Registered(m) THEN NoFault ELSE Fault
        /\ link' = [link EXCEPT ![p].at = "discarding"]
        /\ UNCHANGED <<discord, invite>>
  /\ UNCHANGED <<users, room, sweep, people>>

(* A room that cannot be deleted stays for the sweep.                      *)
Discard(p) ==
  /\ link[p].at = "discarding"
  /\ \/ NoFault /\ room' = [room EXCEPT ![link[p].room] = Deleted]
     \/ Fault /\ UNCHANGED room
  /\ link' = [link EXCEPT ![p] = NoLink]
  /\ UNCHANGED <<invite, users, discord, lock, sweep, people>>

(* The bot is one process: all it was about to do is gone.                 *)
BotDies ==
  /\ Fault
  /\ link' = [p \in Procs |-> NoLink]
  /\ lock' = [i \in Invites |-> None]
  /\ sweep' = [s \in Sweepers |-> NoSweep]
  /\ UNCHANGED <<invite, users, discord, room, people>>

-----------------------------------------------------------------------------
(* A room is 10 minutes old.                                               *)
Ages(r) ==
  /\ room[r].age = "new"
  /\ SlowLinks \/ \A p \in Procs : link[p].room # r
  /\ room' = [room EXCEPT ![r].age = "old"]
  /\ UNCHANGED <<invite, users, discord, link, lock, sweep, people, faults>>

(* sweep_orphan_rooms: the old rooms are listed, those which their         *)
(* invitation does not name are orphans, and each of them is deleted.      *)
(* Mutant of OldEnough: rooms that are being linked are swept as well.     *)
OldOrNew == {r \in Rooms : room[r].age \in {"new", "old"}}

OldEnough == {r \in Rooms : room[r].age = "old"}

ListRooms(s) ==
  /\ sweep[s].at = "idle"
  /\ OldEnough # {}
  /\ sweep' = [sweep EXCEPT ![s].at = "reading", ![s].listed = OldEnough]
  /\ UNCHANGED <<invite, users, discord, room, link, lock, people, faults>>

(* Mutant of Orphans: a room whose invitation is known is left.            *)
OrphansOfNobody(listed) == {r \in listed : room[r].invite = None}

Orphans(listed) ==
  {r \in listed : room[r].invite = None \/ invite[room[r].invite].room # r}

ReadInvites(s) ==
  /\ sweep[s].at = "reading"
  /\ \/ /\ sweep' = [sweep EXCEPT ![s].at = "deleting", ![s].listed = {},
             ![s].orphans = Orphans(sweep[s].listed)]
        /\ NoFault
     \/ Fault /\ sweep' = [sweep EXCEPT ![s] = NoSweep]
  /\ UNCHANGED <<invite, users, discord, room, link, lock, people>>

DeleteRoom(s, r) ==
  /\ sweep[s].at = "deleting" /\ r \in sweep[s].orphans
  /\ \/ NoFault /\ room' = [room EXCEPT ![r] = Deleted]
     \/ Fault /\ UNCHANGED room
  /\ sweep' = [sweep EXCEPT ![s].orphans = @ \ {r}]
  /\ UNCHANGED <<invite, users, discord, link, lock, people>>

SweepEnds(s) ==
  /\ sweep[s].at = "deleting" /\ sweep[s].orphans = {}
  /\ sweep' = [sweep EXCEPT ![s] = NoSweep]
  /\ UNCHANGED <<invite, users, discord, room, link, lock, people, faults>>

-----------------------------------------------------------------------------
LinkStep(p) == TakeCode(p) \/ MakeRoom(p) \/ CommitLink(p) \/ Discard(p)
SweepStep(s) ==
  ListRooms(s) \/ ReadInvites(s) \/ (\E r \in Rooms : DeleteRoom(s, r)) \/ SweepEnds(s)

Next ==
  \/ \E i \in Invites : CreateInvite(i) \/ Reissue(i) \/ Revoke(i) \/ Expire(i)
  \/ \E i \in Invites, k \in 1..MaxKeys, e \in Emails : Submit(i, k, e)
  \/ \E p \in Procs :
       \/ \E i \in Invites, m \in Members : Precheck(p, i, m)
       \/ LinkStep(p)
  \/ BotDies
  \/ \E s \in Sweepers : SweepStep(s)
  \/ \E r \in Rooms : Ages(r)

Spec == Init /\ [][Next]_vars

(* The bot goes on while it lives, rooms get older, and it sweeps again    *)
(* and again.                                                              *)
Fairness ==
  /\ \A p \in Procs : WF_vars(LinkStep(p))
  /\ \A s \in Sweepers : WF_vars(SweepStep(s))
  /\ \A r \in Rooms : WF_vars(Ages(r))

FairSpec == Spec /\ Fairness

-----------------------------------------------------------------------------
(* Every variable has its type, and a row is held by the submission whose  *)
(* transaction is open.                                                    *)
TypeOK ==
  /\ invite \in [Invites ->
       [status : {"none", "open", "submitted", "linked", "revoked"},
        key : 0..MaxKeys, alive : BOOLEAN, code : BOOLEAN, room : Rooms \cup {None}]]
  /\ users \subseteq Emails
  /\ discord \in [Invites -> Members \cup {None}]
  /\ room \in [Rooms -> [invite : Invites \cup {None}, age : {"none", "new", "old", "gone"}]]
  /\ link \in [Procs -> [at : {"idle", "checked", "locked", "room", "discarding"},
                         invite : Invites \cup {None}, member : Members \cup {None},
                         room : Rooms \cup {None}]]
  /\ lock \in [Invites -> Procs \cup {None}]
  /\ \A i \in Invites, p \in Procs :
       lock[i] = p => link[p].at \in {"locked", "room"} /\ link[p].invite = i
  /\ sweep \in [Sweepers -> [at : {"idle", "reading", "deleting"},
                             listed : SUBSET Rooms, orphans : SUBSET Rooms]]
  /\ people \in [Invites -> Nat]
  /\ faults \in 0..MaxFaults

(* However codes are entered and rooms are swept: the room of a person who *)
(* has joined stands, and is the room of no one else.                      *)
OwnersKeepTheirRoom ==
  \A i \in Invites : invite[i].status = "linked" =>
    /\ invite[i].room # None /\ room[invite[i].room].invite = i
    /\ \A j \in Invites \ {i} : invite[j].room # invite[i].room

(* Nobody joins twice: an invitation makes one person, whom one member of  *)
(* the server is, and a code that was used is gone.                        *)
NobodyJoinsTwice ==
  /\ \A i \in Invites : people[i] <= 1 /\ (discord[i] # None => people[i] = 1)
  /\ \A i, j \in Invites : discord[i] = discord[j] /\ i # j => discord[i] = None
  /\ \A i \in Invites : (invite[i].status = "linked") = (discord[i] # None)

(* A room that nobody came to own does not stay: bots that die, failed     *)
(* commits and failed deletions leave none behind.                         *)
Owned(r) == room[r].age \in {"none", "gone"} \/ invite[room[r].invite].room = r
OrphansGo == \A r \in Rooms : []<>Owned(r)

=============================================================================
