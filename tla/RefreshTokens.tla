--------------------------- MODULE RefreshTokens ---------------------------
(***************************************************************************)
(* The refresh tokens of one user (src/backend/app/auth/self_tokens.py,    *)
(* auth/devices.py and routers/auth.py): login, refresh, logout, password  *)
(* reset and change, revoked devices.                                      *)
(*                                                                         *)
(* A refresh is one transaction: it revokes the presented token and locks  *)
(* its row, checks the password and the device, and inserts the next token *)
(* of the family.  A revocation is one UPDATE over the live rows it sees:  *)
(* under READ COMMITTED it sees what was committed when it began, waits    *)
(* for rows that are locked, and skips those that are no longer live.      *)
(*                                                                         *)
(* What a transaction has written is in its request until it commits.      *)
(* Access tokens, the marks of families in Redis, and the registration of  *)
(* devices are left out.                                                   *)
(***************************************************************************)
EXTENDS Naturals, FiniteSets

CONSTANTS
  Tokens, Families, Devices,
  Reqs,            \* requests that may be under way at once
  None,
  TTL,             \* REFRESH_ABSOLUTE_TTL
  MaxTime,         \* bound: ticks of the clock
  MaxPasswords,    \* bound: resets and changes of the password
  MaxAborts        \* bound: transactions that are rolled back

ASSUME NoneAssumption == None \notin Tokens \cup Families \cup Devices
ASSUME BoundsAssumption ==
  {TTL, MaxTime, MaxPasswords, MaxAborts} \subseteq Nat

VARIABLES
  tok,         \* rows of auth_refresh_tokens
  revokedDev,  \* devices with revoked_at
  changedAt,   \* users.password_changed_at
  clock,
  req,         \* requests under way
  passwords, aborts,
  ended,       \* families a committed revocation was meant for
  raced        \* of these, families that were being rotated meanwhile

vars == <<tok, revokedDev, changedAt, clock, req, passwords, aborts,
          ended, raced>>

Time == 0..MaxTime
Row == [state : {"unused", "live", "revoked"}, family : Families \cup {None},
        created : Time, start : Time, device : Devices \cup {None}]
Unused == [state |-> "unused", family |-> None, created |-> 0, start |-> 0,
           device |-> None]

(* A request: the token it was given and whose row it has locked, the one  *)
(* it has inserted, its time, the rows its revocation has seen.            *)
Request ==
  [step : {"idle", "rotating", "user", "device", "commit", "hashing",
           "revoking"},
   kind : {"refresh", "reset", "change", "reuse", "evict", "other"},
   given : Tokens \cup {None}, locked : Tokens \cup {None},
   new : Tokens \cup {None}, row : Row, now : Time, seen : SUBSET Tokens]
Idle == [step |-> "idle", kind |-> "other", given |-> None, locked |-> None,
         new |-> None, row |-> Unused, now |-> 0, seen |-> {}]

TypeOK ==
  /\ tok \in [Tokens -> Row]
  /\ revokedDev \subseteq Devices
  /\ changedAt \in Time /\ clock \in Time
  /\ req \in [Reqs -> Request]
  /\ passwords \in 0..MaxPasswords /\ aborts \in 0..MaxAborts
  /\ ended \subseteq Families /\ raced \subseteq Families

Init ==
  /\ tok = [t \in Tokens |-> Unused]
  /\ revokedDev = {}
  /\ changedAt = 0
  /\ clock = 0
  /\ req = [r \in Reqs |-> Idle]
  /\ passwords = 0 /\ aborts = 0
  /\ ended = {} /\ raced = {}

-----------------------------------------------------------------------------
(* Helpers                                                                 *)

At(r, step) == req[r].step = step
Live(t) == tok[t].state = "live"
LiveOf(f) == {t \in Tokens : Live(t) /\ tok[t].family = f}
FamiliesOf(ts) == {tok[t].family : t \in ts}

Locked(t) == \E r \in Reqs : req[r].locked = t
Fresh(t) == tok[t].state = "unused" /\ \A r \in Reqs : req[r].new # t
Unborn(f) == \A t \in Tokens : tok[t].family # f

Begun(family, start, device) ==
  [state |-> "live", family |-> family, created |-> clock, start |-> start,
   device |-> device]

Revoked(ts) ==
  [t \in Tokens |-> IF t \in ts THEN [tok[t] EXCEPT !.state = "revoked"]
                    ELSE tok[t]]

(* expires_at of a token is the start of its family plus the limit.        *)
Expired(t, now) == now >= tok[t].start + TTL

End(r) == req' = [req EXCEPT ![r] = Idle]

-----------------------------------------------------------------------------
Tick ==
  /\ clock < MaxTime
  /\ clock' = clock + 1
  /\ UNCHANGED <<tok, revokedDev, changedAt, req, passwords, aborts, ended,
                 raced>>

(* The row of the user is locked by the UPDATE of the password.            *)
UserLocked ==
  \E r \in Reqs : At(r, "revoking") /\ req[r].kind \in {"reset", "change"}

(* self_login: a new family, at a trusted device; it updates the user too. *)
Login(f) ==
  /\ Unborn(f)
  /\ ~ UserLocked
  /\ \E t \in Tokens, d \in Devices \ revokedDev :
       Fresh(t) /\ tok' = [tok EXCEPT ![t] = Begun(f, clock, d)]
  /\ UNCHANGED <<revokedDev, changedAt, clock, req, passwords, aborts, ended,
                 raced>>

-----------------------------------------------------------------------------
(* rotate_refresh_token and self_refresh                                   *)

BeginRefresh(r, t) ==
  /\ At(r, "idle")
  /\ tok[t].state # "unused"
  /\ req' = [req EXCEPT ![r] =
               [Idle EXCEPT !.step = "rotating", !.kind = "refresh",
                            !.given = t, !.now = clock]]
  /\ UNCHANGED <<tok, revokedDev, changedAt, clock, passwords, aborts, ended,
                 raced>>

(* Rows a revocation has seen and not yet reached.                         *)
SeenByRevocation == UNION {req[r].seen : r \in Reqs}

(* Mutant of Rotatable: SELECT and UPDATE apart, the row is not locked.    *)
RotatableUnlocked(t, now) == Live(t) /\ ~ Expired(t, now)

(* Mutant of Rotatable: without revoked_at IS NULL.                        *)
RotatableRevoked(t, now) == ~ Expired(t, now) /\ ~ Locked(t)

(* UPDATE ... WHERE revoked_at IS NULL AND expires_at > :now               *)
Rotatable(t, now) == Live(t) /\ ~ Expired(t, now) /\ ~ Locked(t)

Rotate(r) ==
  LET t == req[r].given IN
  /\ At(r, "rotating")
  /\ Rotatable(t, req[r].now)
  /\ req' = [req EXCEPT ![r].step = "user", ![r].locked = t]
  /\ raced' = IF t \in SeenByRevocation THEN raced \cup {tok[t].family}
              ELSE raced
  /\ UNCHANGED <<tok, revokedDev, changedAt, clock, passwords, aborts, ended>>

(* No row: a token that is revoked was used twice, and its family is       *)
(* revoked; one that has expired is refused.                               *)
RotateNothing(r) ==
  LET t == req[r].given
      f == tok[t].family
  IN
  /\ At(r, "rotating")
  /\ ~ Locked(t)
  /\ \/ /\ Live(t) /\ Expired(t, req[r].now)
        /\ End(r)
        /\ UNCHANGED raced
     \/ /\ ~ Live(t)
        /\ req' = [req EXCEPT ![r].step = "revoking", ![r].kind = "reuse",
                              ![r].seen = LiveOf(f)]
        /\ raced' = IF \E u \in LiveOf(f) : Locked(u)
                    THEN raced \cup {f} ELSE raced
  /\ UNCHANGED <<tok, revokedDev, changedAt, clock, passwords, aborts, ended>>

(* password_changed_at > created_at                                        *)
Outdated(t) == changedAt > tok[t].created

(* The token is older than the password: it stays revoked (the caller      *)
(* commits), and there is no new one.                                      *)
RefuseOutdated(r) ==
  LET t == req[r].locked IN
  /\ At(r, "user")
  /\ Outdated(t)
  /\ tok' = Revoked({t})
  /\ End(r)
  /\ UNCHANGED <<revokedDev, changedAt, clock, passwords, aborts, ended, raced>>

(* Mutant of NewStart: the limit counts from the rotation.                 *)
StartNow(t) == clock

(* family_created_at is passed on.                                         *)
NewStart(t) == tok[t].start

IssueNext(r) ==
  LET t == req[r].locked IN
  /\ At(r, "user")
  /\ ~ Outdated(t)
  /\ \E n \in Tokens :
       /\ Fresh(n)
       /\ req' = [req EXCEPT ![r].step = "device", ![r].new = n,
                    ![r].row = Begun(tok[t].family, NewStart(t), tok[t].device)]
  /\ UNCHANGED <<tok, revokedDev, changedAt, clock, passwords, aborts, ended,
                 raced>>

DeviceIsActive(r) ==
  /\ At(r, "device")
  /\ req[r].row.device \notin revokedDev
  /\ req' = [req EXCEPT ![r].step = "commit"]
  /\ UNCHANGED <<tok, revokedDev, changedAt, clock, passwords, aborts, ended,
                 raced>>

LiveAt(d) == {t \in Tokens : Live(t) /\ tok[t].device = d}

(* The device was revoked: its sessions and this family are revoked, the   *)
(* row just inserted included.                                             *)
DeviceIsRevoked(r) ==
  LET d == req[r].row.device
      others == LiveAt(d) \ {req[r].locked}
  IN
  /\ At(r, "device")
  /\ d \in revokedDev
  /\ req' = [req EXCEPT ![r].step = "revoking", ![r].kind = "evict",
                        ![r].seen = others]
  /\ raced' = raced \cup FamiliesOf({t \in others : Locked(t)})
  /\ UNCHANGED <<tok, revokedDev, changedAt, clock, passwords, aborts, ended>>

CommitRefresh(r) ==
  /\ At(r, "commit")
  /\ tok' = [Revoked({req[r].locked}) EXCEPT ![req[r].new] = req[r].row]
  /\ End(r)
  /\ UNCHANGED <<revokedDev, changedAt, clock, passwords, aborts, ended, raced>>

-----------------------------------------------------------------------------
(* Revocations                                                             *)

(* The UPDATE begins: it will touch the live rows it sees.                 *)
See(r, kind, now, ts) ==
  /\ req' = [req EXCEPT ![r] =
               [Idle EXCEPT !.step = "revoking", !.kind = kind, !.now = now,
                            !.seen = ts]]
  /\ raced' = raced \cup FamiliesOf({t \in ts : Locked(t)})

(* revoke_refresh_token (logout).                                          *)
Logout(r, t) ==
  /\ At(r, "idle")
  /\ Live(t)
  /\ See(r, "other", clock, {t})
  /\ UNCHANGED <<tok, revokedDev, changedAt, clock, passwords, aborts, ended>>

(* revoke_user_sessions(except_family_id): log out everywhere else.        *)
LogoutOthers(r, f) ==
  /\ At(r, "idle")
  /\ See(r, "other", clock, {t \in Tokens : Live(t) /\ tok[t].family # f})
  /\ UNCHANGED <<tok, revokedDev, changedAt, clock, passwords, aborts, ended>>

(* revoke_device, committed with the revocation of its sessions; only what *)
(* the sessions see of it matters, so the device is revoked first.         *)
RevokeDevice(r, d) ==
  /\ At(r, "idle")
  /\ d \notin revokedDev
  /\ revokedDev' = revokedDev \cup {d}
  /\ See(r, "other", clock, LiveAt(d))
  /\ UNCHANGED <<tok, changedAt, clock, passwords, aborts, ended>>

(* password_reset_confirm and password_change take the time before they    *)
(* compute the hash.                                                       *)
BeginPassword(r) ==
  /\ At(r, "idle")
  /\ passwords < MaxPasswords /\ passwords' = passwords + 1
  /\ \E kind \in {"reset", "change"} :
       req' = [req EXCEPT ![r] = [Idle EXCEPT !.step = "hashing",
                                              !.kind = kind, !.now = clock]]
  /\ UNCHANGED <<tok, revokedDev, changedAt, clock, aborts, ended, raced>>

RevokeAll(r) ==
  /\ At(r, "hashing")
  /\ ~ UserLocked
  /\ See(r, req[r].kind, req[r].now, {t \in Tokens : Live(t)})
  /\ UNCHANGED <<tok, revokedDev, changedAt, clock, passwords, aborts, ended>>

(* The UPDATE waits for the rows that are locked.                          *)
Reachable(r) ==
  \A t \in req[r].seen : \A s \in Reqs \ {r} : req[s].locked # t

SetPasswordTime(r) == changedAt' = req[r].now

(* The rows are revoked and the transaction commits.  The change of a      *)
(* password also begins a family for the session it came from.             *)
Finish(r) ==
  LET gone == {t \in req[r].seen : Live(t)}
                 \cup (IF req[r].locked = None THEN {} ELSE {req[r].locked})
  IN
  /\ At(r, "revoking")
  /\ Reachable(r)
  /\ \/ /\ req[r].kind # "change"
        /\ tok' = Revoked(gone)
     \/ /\ req[r].kind = "change"
        /\ \E n \in Tokens, f \in Families, d \in Devices :
             /\ Fresh(n) /\ Unborn(f)
             /\ tok' = [Revoked(gone) EXCEPT ![n] = Begun(f, clock, d)]
  /\ IF req[r].kind \in {"reset", "change"} THEN SetPasswordTime(r)
     ELSE UNCHANGED changedAt
  /\ ended' = ended \cup FamiliesOf(gone)
                \cup FamiliesOf(req[r].seen)
  /\ End(r)
  /\ UNCHANGED <<revokedDev, clock, passwords, aborts, raced>>

(* A transaction is rolled back: nothing it has written stays.             *)
Abort(r) ==
  /\ ~ At(r, "idle")
  /\ aborts < MaxAborts /\ aborts' = aborts + 1
  /\ End(r)
  /\ UNCHANGED <<tok, revokedDev, changedAt, clock, passwords, ended, raced>>

-----------------------------------------------------------------------------
Next ==
  \/ Tick
  \/ \E f \in Families : Login(f)
  \/ \E r \in Reqs :
       \/ \E t \in Tokens : BeginRefresh(r, t) \/ Logout(r, t)
       \/ Rotate(r) \/ RotateNothing(r) \/ RefuseOutdated(r) \/ IssueNext(r)
       \/ DeviceIsActive(r) \/ DeviceIsRevoked(r) \/ CommitRefresh(r)
       \/ \E f \in Families : LogoutOthers(r, f)
       \/ \E d \in Devices : RevokeDevice(r, d)
       \/ BeginPassword(r) \/ RevokeAll(r) \/ Finish(r)
       \/ Abort(r)

Spec == Init /\ [][Next]_vars

-----------------------------------------------------------------------------
(* Properties                                                              *)

(* However requests overlap, a family has one token that can be used.      *)
OneLiveToken == \A f \in Families : Cardinality(LiveOf(f)) <= 1

(* A family that has ended never comes back, and begins once: the tokens   *)
(* implement SessionFamilies.                                              *)
Life(f) ==
  IF Unborn(f) THEN "unborn" ELSE IF LiveOf(f) # {} THEN "alive" ELSE "dead"
Promise == INSTANCE SessionFamilies WITH life <- [f \in Families |-> Life(f)]
KeepsPromise == Promise!Spec

(* A revocation ends every family it was meant for, unless a token of the  *)
(* family was being rotated at the same time.                              *)
RevocationHolds == \A f \in ended \ raced : LiveOf(f) = {}

(* No chain of refreshes outlives the absolute limit: a token is never     *)
(* issued for a family that was too old when the refresh began.            *)
NoFamilyOutlivesItsLimit ==
  \A t \in Tokens : tok[t].state # "unused" =>
    \A u \in Tokens : tok[u].family = tok[t].family =>
      tok[t].start = tok[u].start

(* The two together: who ends a login ends it, and none lasts for ever.    *)
FamiliesEnd == RevocationHolds /\ NoFamilyOutlivesItsLimit

(* A token older than the password is not exchanged for a new one by a     *)
(* refresh that reads the user after the password was committed.           *)
NoExchangeOfOutdatedTokens ==
  [][\A r \in Reqs :
       At(r, "user") /\ changedAt > tok[req[r].locked].created =>
         req'[r].new = None]_vars

(* A new password ends every session there was: the docstring of           *)
(* password_change says that all refresh tokens are revoked.  What is left *)
(* is a token that a later refresh accepts.                                *)
PasswordEndsSessions ==
  [][\A r \in Reqs :
       (/\ At(r, "revoking") /\ req[r].kind \in {"reset", "change"}
        /\ req'[r].step = "idle" /\ aborts' = aborts) =>
         \A t \in Tokens : tok'[t].state = "live" =>
           \/ tok[t].state = "unused"
           \/ changedAt' >= tok[t].created]_vars

=============================================================================
