---------------------------- MODULE ProgressProofs ----------------------------
(***************************************************************************)
(* Theorems about what must not get lost on its way, for any number of     *)
(* tenants, disputes, requests, tabs, signals and failures: the events of  *)
(* disputes (PayPalDisputes) and the signals that make screens load again  *)
(* (RealtimeSignals); and the types of all that MCProgress puts together.  *)
(***************************************************************************)
EXTENDS MCProgress, SequenceTheorems, TLAPS

-----------------------------------------------------------------------------
(* Disputes: the inductive invariant                                       *)

(* A request has an event, and the tenant it belongs to is still to be     *)
(* tried, unless a verification has failed.                                *)
OwnersAreTried ==
  \A h \in Hooks : hook[h] # Free =>
    /\ hook[h].event \in Event
    /\ Owner[hook[h].event.dispute] \in hook[h].left \/ hook[h].sawError

DisputeInv ==
  TypeOK /\ OwnersAreTried /\ ShownToItsTenant /\ AnsweredAfterStored

LEMMA DisputesBegin == Init => DisputeInv
BY DisputesAssumption
  DEF Init, DisputeInv, TypeOK, OwnersAreTried, ShownToItsTenant,
      AnsweredAfterStored

(* Only a request that has an event tries tenants.                         *)
LEMMA TryingHasEvent ==
  ASSUME DisputeInv, NEW h \in Hooks, Trying(h)
  PROVE  /\ hook[h] # Free /\ hook[h] \in Handling
         /\ hook[h].event \in Event
         /\ Owner[hook[h].event.dispute] \in Tenants
BY OwnerAssumption
  DEF DisputeInv, TypeOK, OwnersAreTried, Trying, Free, Event

(* What the requests become, when one of them changes.                     *)
LEMMA HooksKeep ==
  ASSUME DisputeInv, NEW h \in Hooks, NEW new \in Handling \cup {Free},
         hook' = [hook EXCEPT ![h] = new],
         new # Free =>
           /\ new.event \in Event
           /\ Owner[new.event.dispute] \in new.left \/ new.sawError
  PROVE  hook' \in [Hooks -> Handling \cup {Free}] /\ OwnersAreTried'
BY DEF DisputeInv, TypeOK, OwnersAreTried

LEMMA DisputeHappens ==
  ASSUME DisputeInv, NEW d \in Disputes, Happens(d)
  PROVE  DisputeInv'
<1> USE DEF DisputeInv
<1>1. latest[d] + 1 \in 1..MaxEvent
  BY DisputesAssumption DEF TypeOK, Happens
<1>2. TypeOK'
  BY <1>1 DEF TypeOK, Happens, Event
<1>3. AnsweredAfterStored'
  <2> SUFFICES ASSUME NEW e \in Disputes, NEW n \in 1..latest'[e]
               PROVE  [dispute |-> e, n |-> n] \in unanswered' \cup stored'
    BY DEF AnsweredAfterStored
  <2>1. CASE e = d /\ n = latest[d] + 1
    BY <2>1 DEF Happens, TypeOK
  <2>2. CASE ~(e = d /\ n = latest[d] + 1)
    <3>1. n \in 1..latest[e]
      BY <2>2, <1>1 DEF Happens, TypeOK
    <3> QED
      BY <3>1 DEF Happens, AnsweredAfterStored
  <2> QED
    BY <2>1, <2>2
<1> QED
  BY <1>2, <1>3 DEF Happens, OwnersAreTried, ShownToItsTenant

LEMMA DisputeIsSentAgain ==
  ASSUME DisputeInv, NEW e \in Event, SendAgain(e)
  PROVE  DisputeInv'
BY DisputesAssumption
  DEF DisputeInv, TypeOK, SendAgain, OwnersAreTried, ShownToItsTenant,
      AnsweredAfterStored

LEMMA DisputeIsReceived ==
  ASSUME DisputeInv, NEW h \in Hooks, NEW e \in Event, Receive(h, e)
  PROVE  DisputeInv'
<1> DEFINE new == [event |-> e, left |-> Tenants, sawError |-> FALSE]
<1>1. new \in Handling /\ Owner[e.dispute] \in Tenants
  BY OwnerAssumption DEF Handling, Event
<1>2. hook' \in [Hooks -> Handling \cup {Free}] /\ OwnersAreTried'
  BY <1>1, HooksKeep DEF Receive
<1> QED
  BY <1>2 DEF DisputeInv, TypeOK, Receive, ShownToItsTenant,
    AnsweredAfterStored

(* The tenant that was tried is left out of those to try.                  *)
LEMMA TenantIsTried ==
  ASSUME DisputeInv, NEW h \in Hooks, Trying(h), NEW saw \in BOOLEAN,
         hook' = [hook EXCEPT ![h] =
                    [event |-> hook[h].event,
                     left |-> hook[h].left \ {First(hook[h].left)},
                     sawError |-> saw]],
         saw \/ (/\ First(hook[h].left) # Owner[hook[h].event.dispute]
                /\ saw = hook[h].sawError),
         errors' \in 0..MaxErrors,
         UNCHANGED <<latest, unanswered, row, stored, repeats>>
  PROVE  DisputeInv'
<1> DEFINE new == [event |-> hook[h].event,
                   left |-> hook[h].left \ {First(hook[h].left)},
                   sawError |-> saw]
<1>1. hook[h] # Free /\ hook[h] \in Handling
  BY TryingHasEvent
<1>2. new \in Handling /\ new.event \in Event
  BY <1>1, TryingHasEvent DEF Handling
<1>3. Owner[new.event.dispute] \in new.left \/ new.sawError
  BY <1>1 DEF DisputeInv, OwnersAreTried
<1>4. hook' = [hook EXCEPT ![h] = new]
  OBVIOUS
<1> HIDE DEF new
<1>5. hook' \in [Hooks -> Handling \cup {Free}] /\ OwnersAreTried'
  BY <1>2, <1>3, <1>4, HooksKeep
<1> QED
  BY <1>5 DEF DisputeInv, TypeOK, ShownToItsTenant, AnsweredAfterStored

LEMMA Untried ==
  ASSUME NEW r \in Handling, NEW left, NEW saw
  PROVE  /\ [r EXCEPT !.left = left] =
              [event |-> r.event, left |-> left, sawError |-> r.sawError]
         /\ [r EXCEPT !.left = left, !.sawError = saw] =
              [event |-> r.event, left |-> left, sawError |-> saw]
<1>1. DOMAIN r = {"event", "left", "sawError"}
  BY DEF Handling
<1>2. [r EXCEPT !.left = left] =
        [event |-> r.event, left |-> left, sawError |-> r.sawError]
  BY <1>1
<1>3. [r EXCEPT !.left = left, !.sawError = saw] =
        [event |-> r.event, left |-> left, sawError |-> saw]
  <2>1. PICK q : q = [event |-> r.event, left |-> left,
                      sawError |-> r.sawError]
    OBVIOUS
  <2>2. [q EXCEPT !.sawError = saw] =
          [event |-> r.event, left |-> left, sawError |-> saw]
    BY <2>1
  <2>3. [r EXCEPT !.left = left, !.sawError = saw] =
          [q EXCEPT !.sawError = saw]
    BY <1>2, <2>1
  <2> QED
    BY <2>2, <2>3
<1> QED
  BY <1>2, <1>3

LEMMA TenantDoesNotFit ==
  ASSUME DisputeInv, NEW h \in Hooks, VerifyOther(h)
  PROVE  DisputeInv'
<1>1. Trying(h) /\ hook[h] \in Handling
  BY TryingHasEvent DEF VerifyOther
<1>2. hook' = [hook EXCEPT ![h] =
                 [event |-> hook[h].event,
                  left |-> hook[h].left \ {First(hook[h].left)},
                  sawError |-> hook[h].sawError]]
  BY <1>1, Untried DEF VerifyOther
<1>3. hook[h].sawError \in BOOLEAN
  BY <1>1 DEF Handling
<1> QED
  BY <1>1, <1>2, <1>3, TenantIsTried DEF VerifyOther, DisputeInv, TypeOK

LEMMA VerificationFails ==
  ASSUME DisputeInv, NEW h \in Hooks, VerifyError(h)
  PROVE  DisputeInv'
<1>1. Trying(h) /\ hook[h] \in Handling
  BY TryingHasEvent DEF VerifyError
<1>2. (hook[h].sawError \/ Noted(h)) = TRUE
  BY <1>1 DEF Noted, Handling
<1>3. hook' = [hook EXCEPT ![h].left = @ \ {First(@)},
                           ![h].sawError = TRUE]
  BY <1>1, <1>2 DEF VerifyError, DisputeInv, TypeOK
<1>4. hook' = [hook EXCEPT ![h] =
                 [event |-> hook[h].event,
                  left |-> hook[h].left \ {First(hook[h].left)},
                  sawError |-> TRUE]]
  <2>1. hook' = [hook EXCEPT ![h] =
                   [hook[h] EXCEPT !.left = @ \ {First(@)}, !.sawError = TRUE]]
    BY <1>1, <1>3 DEF DisputeInv, TypeOK
  <2>2. [hook[h] EXCEPT !.left = @ \ {First(@)}, !.sawError = TRUE] =
          [event |-> hook[h].event,
           left |-> hook[h].left \ {First(hook[h].left)}, sawError |-> TRUE]
    BY <1>1, Untried
  <2> QED
    BY <2>1, <2>2
<1>5. errors' \in 0..MaxErrors
  BY DisputesAssumption DEF VerifyError, DisputeInv, TypeOK
<1> QED
  BY <1>1, <1>4, <1>5, TenantIsTried DEF VerifyError

LEMMA HookIsFreed ==
  ASSUME DisputeInv, NEW h \in Hooks, hook' = [hook EXCEPT ![h] = Free]
  PROVE  hook' \in [Hooks -> Handling \cup {Free}] /\ OwnersAreTried'
BY HooksKeep

LEMMA DisputeIsStored ==
  ASSUME DisputeInv, NEW h \in Hooks, VerifyAndStore(h)
  PROVE  DisputeInv'
<1> DEFINE e == hook[h].event
<1>1. e \in Event /\ Owner[e.dispute] \in Tenants
  BY TryingHasEvent DEF VerifyAndStore
<1>2. e.dispute \in Disputes /\ e.n \in 0..MaxEvent
  BY <1>1 DEF Event
<1>3. hook' \in [Hooks -> Handling \cup {Free}] /\ OwnersAreTried'
  BY HookIsFreed DEF VerifyAndStore
<1>4. row' = [row EXCEPT ![Owner[e.dispute]][e.dispute] = e.n]
  BY DEF VerifyAndStore, Written, Matched
<1>5. stored' = stored \cup {e} /\ unanswered' = unanswered \ {e}
      /\ UNCHANGED <<latest, errors, repeats>>
  BY DEF VerifyAndStore
<1> HIDE DEF e
<1>6. TypeOK'
  BY <1>1, <1>2, <1>3, <1>4, <1>5 DEF DisputeInv, TypeOK
<1>7. ShownToItsTenant'
  BY <1>1, <1>2, <1>4 DEF DisputeInv, TypeOK, ShownToItsTenant
<1>8. AnsweredAfterStored'
  BY <1>5 DEF DisputeInv, AnsweredAfterStored
<1> QED
  BY <1>3, <1>6, <1>7, <1>8 DEF DisputeInv

LEMMA DisputeIsPutOff ==
  ASSUME DisputeInv, NEW h \in Hooks, StoreFails(h)
  PROVE  DisputeInv'
<1>1. hook' \in [Hooks -> Handling \cup {Free}] /\ OwnersAreTried'
  BY HookIsFreed DEF StoreFails
<1> QED
  BY <1>1, DisputesAssumption DEF DisputeInv, TypeOK, StoreFails,
    ShownToItsTenant, AnsweredAfterStored

(* Every event belongs to somebody, so none is given up.                   *)
LEMMA DisputeIsNobodys ==
  ASSUME DisputeInv, NEW h \in Hooks, NobodysEvent(h)
  PROVE  DisputeInv'
<1>1. hook' \in [Hooks -> Handling \cup {Free}] /\ OwnersAreTried'
  BY HookIsFreed DEF NobodysEvent
<1>2. unanswered' = unanswered
  BY DEF NobodysEvent, DisputeInv, OwnersAreTried
<1> QED
  BY <1>1, <1>2 DEF DisputeInv, TypeOK, NobodysEvent, ShownToItsTenant,
    AnsweredAfterStored

LEMMA DisputesGoOn == DisputeInv /\ [Next]_vars => DisputeInv'
<1> SUFFICES ASSUME DisputeInv, [Next]_vars PROVE DisputeInv'
  OBVIOUS
<1>1. CASE UNCHANGED vars
  BY <1>1 DEF vars, DisputeInv, TypeOK, OwnersAreTried, ShownToItsTenant,
    AnsweredAfterStored
<1>2. CASE Next
  BY <1>2, DisputeHappens, DisputeIsSentAgain, DisputeIsReceived,
     TenantDoesNotFit, VerificationFails, DisputeIsStored, DisputeIsPutOff,
     DisputeIsNobodys
    DEF Next, Handle
<1> QED
  BY <1>1, <1>2

LEMMA DisputesAlways == Spec => []DisputeInv
BY DisputesBegin, DisputesGoOn, PTL DEF Spec

(* A dispute shows up at the tenant whose webhook signed its events and at *)
(* no other one, whichever verifications fail (_handle_dispute).           *)
THEOREM DisputesStayApart == Spec => []ShownToItsTenant
BY DisputesAlways, PTL DEF DisputeInv

(* PayPal goes on sending an event of a dispute until it is stored: the    *)
(* handler gives none up, since a verification that failed is remembered.  *)
THEOREM NoDisputeIsLost == Spec => []AnsweredAfterStored
BY DisputesAlways, PTL DEF DisputeInv

-----------------------------------------------------------------------------
(* Screens: the inductive invariant                                        *)

(* What a tab holds is not newer than the data, v; and a load that is yet  *)
(* to be shown is not older than the screen, if loads are numbered.        *)
IsSound(r, v) ==
  /\ r \in Screen!Tab
  /\ Len(r.queue) <= QueueMax /\ Len(r.loads) <= MaxInFlight
  /\ r.screen <= v
  /\ \A i \in DOMAIN r.loads :
       /\ r.loads[i] <= v \/ r.loads[i] = Screen!NotRead
       /\ Guarded => r.screen <= r.loads[i]

ScreenInv ==
  /\ Screen!TypeOK /\ ghosts <= used.drops
  /\ \A o \in Screen!Origins : unsent[o] <= version
  /\ \A t \in Tabs : IsSound(tab[t], version)

(* What the screen will show when the loads on their way are answered.     *)
Ends(r) == IF r.loads = <<>> THEN r.screen ELSE r.loads[Len(r.loads)]

(* Something on its way to tab t that makes it load, when o are the writes *)
(* whose signal is not sent.                                               *)
WillLoad(r, t, o) ==
  \/ \E w \in Screen!Origins \ {t} : o[w] > 0
  \/ \E i \in DOMAIN r.queue : r.queue[i] # t
  \/ r.timer \/ r.pending
  \/ r.link = "down" /\ r.ever

(* The signals a tab has of itself since the last of another one, and      *)
(* those to come of itself and of another one, are of different writes.    *)
OwnAreCounted(r, t, o, v) ==
  \A w \in Screen!Origins \ {t}, k \in 0..Len(r.queue) :
    (\A i \in (k + 1)..Len(r.queue) : r.queue[i] = t) =>
      (Len(r.queue) - k) + o[t] + o[w] <= v

(* Tabs that do not write have no signals of themselves.                   *)
OwnAreNone(r, t, o) ==
  ~OwnWrites => o[t] = 0 /\ \A i \in DOMAIN r.queue : r.queue[i] # t

Follows(r, t, o, v) ==
  /\ r.ever
  /\ Ends(r) < v => WillLoad(r, t, o)
  /\ OwnAreCounted(r, t, o, v) /\ OwnAreNone(r, t, o)

FollowInv ==
  subscribed /\ \A t \in Tabs : Follows(tab[t], t, unsent, version)

-----------------------------------------------------------------------------
(* The records of the tabs                                                 *)

LEMMA Bounds ==
  /\ QueueMax \in Nat \ {0} /\ MaxConn \in Nat \ {0}
  /\ MaxInFlight \in Nat \ {0}
  /\ MaxWrites \in Nat /\ MaxHides \in Nat /\ MaxDrops \in Nat
  /\ MaxOutages \in Nat /\ MaxLost \in Nat
  /\ OwnWrites \in BOOLEAN /\ Connected \in BOOLEAN /\ Guarded \in BOOLEAN
  /\ Others \notin Tabs
BY ProgressAssumption DEF Screen!BoundsAssumption

LEMMA TabFields ==
  ASSUME NEW r \in Screen!Tab
  PROVE  /\ r.link \in {"up", "down"} /\ r.ever \in BOOLEAN
         /\ r.queue \in Seq(Screen!Origins) /\ r.timer \in BOOLEAN
         /\ r.hidden \in BOOLEAN /\ r.pending \in BOOLEAN
         /\ r.loads \in Seq(0..Screen!NotRead) /\ r.screen \in 0..MaxWrites
BY DEF Screen!Tab

Same(q, r) ==
  /\ q.link = r.link /\ q.ever = r.ever /\ q.queue = r.queue
  /\ q.timer = r.timer /\ q.hidden = r.hidden /\ q.pending = r.pending

(* A load is sent: it will show whatever has been written.                 *)
LEMMA LoadIsSent ==
  ASSUME NEW r \in Screen!Tab, NEW v \in 0..MaxWrites, IsSound(r, v),
         Len(r.loads) < MaxInFlight
  PROVE  LET q == Screen!Loading(r) IN
         /\ IsSound(q, v) /\ Same(q, r) /\ q.screen = r.screen
         /\ Ends(q) = Screen!NotRead
<1> DEFINE q == Screen!Loading(r)
           new == Append(r.loads, Screen!NotRead)
<1> USE Bounds
<1>1. q = [r EXCEPT !.loads = new]
  BY DEF Screen!Loading
<1>2. /\ r.loads \in Seq(0..Screen!NotRead) /\ Screen!NotRead \in Nat
      /\ Screen!NotRead > v /\ Len(r.loads) \in Nat
  BY TabFields DEF Screen!NotRead
<1>3. /\ new \in Seq(0..Screen!NotRead) /\ Len(new) = Len(r.loads) + 1
      /\ new[Len(new)] = Screen!NotRead /\ new # <<>>
  BY <1>2, AppendProperties
<1>4. \A i \in DOMAIN new : \/ i \in DOMAIN r.loads /\ new[i] = r.loads[i]
                         \/ new[i] = Screen!NotRead
  BY <1>2, AppendProperties
<1> HIDE DEF new
<1>5. q \in Screen!Tab /\ Same(q, r) /\ q.screen = r.screen /\ q.loads = new
  BY <1>1, <1>3 DEF Screen!Tab, Same
<1> HIDE DEF q
<1>6. r.screen \in 0..MaxWrites /\ r.screen <= Screen!NotRead
  BY TabFields DEF Screen!NotRead
<1>7. \A i \in DOMAIN q.loads :
        /\ q.loads[i] <= v \/ q.loads[i] = Screen!NotRead
        /\ Guarded => q.screen <= q.loads[i]
  BY <1>4, <1>5, <1>6 DEF IsSound
<1>8. IsSound(q, v)
  BY <1>2, <1>3, <1>5, <1>7 DEF IsSound, Same
<1>9. Ends(q) = Screen!NotRead
  BY <1>3, <1>5 DEF Ends
<1> QED
  BY <1>5, <1>8, <1>9 DEF q

(* What remains when one element of a sequence is taken out.               *)
LEMMA Removing ==
  ASSUME NEW S, NEW s \in Seq(S), NEW i \in 1..Len(s)
  PROVE  /\ Screen!RemoveAt(s, i) \in Seq(S)
         /\ Len(Screen!RemoveAt(s, i)) = Len(s) - 1
         /\ \A j \in 1..(Len(s) - 1) :
              Screen!RemoveAt(s, i)[j] = IF j < i THEN s[j] ELSE s[j + 1]
<1> DEFINE a == SubSeq(s, 1, i - 1)
           b == SubSeq(s, i + 1, Len(s))
           z == Screen!RemoveAt(s, i)
<1>1. z = a \o b
  BY DEF Screen!RemoveAt
<1>2. /\ a \in Seq(S) /\ Len(a) = i - 1
      /\ \A j \in 1..Len(a) : a[j] = s[j]
  OBVIOUS
<1>3. /\ b \in Seq(S) /\ Len(b) = Len(s) - i
      /\ \A j \in 1..Len(b) : b[j] = s[i + j]
  OBVIOUS
<1> HIDE DEF a, b, z
<1>4. z \in Seq(S) /\ Len(z) = Len(s) - 1
  <2>1. a \o b \in Seq(S) /\ Len(a \o b) = Len(a) + Len(b)
    BY <1>2, <1>3, ConcatProperties
  <2>2. Len(s) \in Nat
    OBVIOUS
  <2> QED
    BY <1>1, <1>2, <1>3, <2>1, <2>2
<1>5. ASSUME NEW j \in 1..Len(z)
      PROVE  z[j] = IF j < i THEN s[j] ELSE s[j + 1]
  <2>1. CASE j < i
    BY <1>1, <1>2, <1>3, <1>4, <2>1
  <2>2. CASE ~(j < i)
    <3>1. z[j] = b[j - Len(a)] /\ j - Len(a) \in 1..Len(b)
      BY <1>1, <1>2, <1>3, <1>4, <2>2, ConcatProperties
    <3> QED
      BY <1>2, <1>3, <3>1, <2>2
  <2> QED
    BY <2>1, <2>2
<1> QED
  BY <1>4, <1>5 DEF z

Ended(r, i, screen) ==
  [r EXCEPT !.loads = Screen!Rest(r.loads, i), !.screen = screen]

(* An answer is shown, or its load failed: no other load is lost sight of. *)
LEMMA LoadEnds ==
  ASSUME NEW r \in Screen!Tab, NEW v \in 0..MaxWrites, IsSound(r, v),
         NEW i \in DOMAIN r.loads, NEW screen \in {r.screen, r.loads[i]},
         r.loads[i] <= v \/ screen = r.screen,
         Guarded => screen = r.screen \/ i = Len(r.loads)
  PROVE  /\ IsSound(Ended(r, i, screen), v) /\ Same(Ended(r, i, screen), r)
         /\ Ended(r, i, screen).screen = screen
         /\ Len(Ended(r, i, screen).loads) < Len(r.loads)
         /\ Guarded /\ (i = Len(r.loads) => screen = r.loads[i]) =>
              Ends(Ended(r, i, screen)) = Ends(r)
<1> DEFINE left == Screen!Rest(r.loads, i)
           q == Ended(r, i, screen)
<1> USE Bounds
<1>1. /\ r.loads \in Seq(0..Screen!NotRead) /\ Len(r.loads) \in Nat
      /\ i \in 1..Len(r.loads)
  BY TabFields
<1> DEFINE z == Screen!RemoveAt(r.loads, i)
<1>0. /\ z \in Seq(0..Screen!NotRead) /\ Len(z) = Len(r.loads) - 1
      /\ \A j \in 1..(Len(r.loads) - 1) :
           z[j] = IF j < i THEN r.loads[j] ELSE r.loads[j + 1]
  BY <1>1, Removing
<1> HIDE DEF z
<1>2. left \in Seq(0..Screen!NotRead) /\ Len(left) < Len(r.loads)
  <2>1. left = <<>> \/ left = z
    BY DEF Screen!Rest, z
  <2>2. <<>> \in Seq(0..Screen!NotRead) /\ Len(<<>>) = 0
    OBVIOUS
  <2> HIDE DEF left
  <2>3. CASE left = <<>>
    BY <1>1, <2>2, <2>3
  <2>4. CASE left = z
    BY <1>0, <1>1, <2>4
  <2> QED
    BY <2>1, <2>3, <2>4
<1>3. \A j \in DOMAIN left :
        \E m \in DOMAIN r.loads : left[j] = r.loads[m]
  <2> SUFFICES ASSUME NEW j \in DOMAIN left
               PROVE  \E m \in DOMAIN r.loads : left[j] = r.loads[m]
    OBVIOUS
  <2>1. left # <<>>
    BY <1>2
  <2>2. left = z
    BY <2>1 DEF Screen!Rest, z
  <2>5. j \in 1..Len(left)
    BY <1>2
  <2>3. /\ Len(left) = Len(r.loads) - 1 /\ j \in 1..Len(left)
        /\ left[j] = IF j < i THEN r.loads[j] ELSE r.loads[j + 1]
    <3> HIDE DEF left
    <3> QED
      BY <1>0, <2>5, <2>2
  <2>4. j \in DOMAIN r.loads /\ j + 1 \in DOMAIN r.loads
    BY <1>1, <2>3
  <2> QED
    BY <2>3, <2>4
<1>4. screen \in 0..MaxWrites /\ screen <= v
  BY <1>1, TabFields DEF IsSound, Screen!NotRead
<1>5. Guarded => (left # <<>> => screen = r.screen /\ i # Len(r.loads))
  BY DEF Screen!Rest
<1>6. Guarded /\ i # Len(r.loads) =>
        left # <<>> /\ left[Len(left)] = r.loads[Len(r.loads)]
  <2> SUFFICES ASSUME Guarded, i # Len(r.loads)
               PROVE  left # <<>> /\ left[Len(left)] = r.loads[Len(r.loads)]
    OBVIOUS
  <2>1. left = z
    BY DEF Screen!Rest, z
  <2>2. /\ Len(left) = Len(r.loads) - 1
        /\ \A j \in 1..Len(left) :
             left[j] = IF j < i THEN r.loads[j] ELSE r.loads[j + 1]
    BY <1>0, <2>1
  <2>3. Len(left) \in 1..Len(left) /\ ~(Len(left) < i)
    BY <1>1, <2>2
  <2> QED
    BY <2>2, <2>3
<1>7. Guarded /\ i = Len(r.loads) => left = <<>>
  BY DEF Screen!Rest
<1> HIDE DEF left
<1>8. /\ q \in Screen!Tab /\ Same(q, r) /\ q.screen = screen
      /\ q.loads = left
  <2> HIDE DEF q
  <2>1. q = [r EXCEPT !.loads = left, !.screen = screen]
    BY DEF q, left, Ended
  <2> QED
    BY <1>2, <1>4, <2>1 DEF Screen!Tab, Same
<1> HIDE DEF q
<1>9. IsSound(q, v)
  BY <1>1, <1>2, <1>3, <1>4, <1>5, <1>8 DEF IsSound, Same
<1>10. Guarded /\ (i = Len(r.loads) => screen = r.loads[i]) =>
         Ends(q) = Ends(r)
  BY <1>1, <1>5, <1>6, <1>7, <1>8 DEF Ends
<1> QED
  BY <1>2, <1>8, <1>9, <1>10 DEF left, q

-----------------------------------------------------------------------------
(* Screens: the steps                                                      *)

(* What a step may never do to a tab.                                      *)
MayBecome(r, q) ==
  /\ Guarded => q.screen >= r.screen
  /\ r.hidden /\ q.hidden => Len(q.loads) <= Len(r.loads)

(* When no signal is lost and no load fails: signals are published and the *)
(* hub listens, and a tab's own signals do not fill its queue.             *)
NothingIsLost ==
  /\ Guarded /\ MaxOutages = 0 /\ MaxLost = 0
  /\ OwnWrites => MaxWrites <= QueueMax

Keeps ==
  /\ ScreenInv' /\ \A t \in Tabs : MayBecome(tab[t], tab'[t])
  /\ NothingIsLost /\ FollowInv => FollowInv'

Used == [hides : 0..MaxHides, drops : 0..MaxDrops,
         outages : 0..MaxOutages, errors : 0..MaxLost]

(* One tab changes, and it follows the data if it did so before.           *)
LEMMA OneTabChanges ==
  ASSUME ScreenInv, NEW t \in Tabs, NEW q, tab' = [tab EXCEPT ![t] = q],
         IsSound(q, version), MayBecome(tab[t], q),
         NothingIsLost /\ Follows(tab[t], t, unsent, version) =>
           Follows(q, t, unsent, version),
         UNCHANGED <<version, unsent, subscribed>>,
         ghosts' \in 0..MaxDrops, ghosts' <= used'.drops,
         used' \in Used
  PROVE  Keeps
<1>1. tab \in [Tabs -> Screen!Tab] /\ q \in Screen!Tab
  BY DEF ScreenInv, Screen!TypeOK, IsSound
<1>2. ASSUME NEW u \in Tabs, u # t PROVE tab'[u] = tab[u]
  BY <1>1, <1>2
<1>3. tab'[t] = q /\ tab' \in [Tabs -> Screen!Tab]
  BY <1>1
<1>4. \A u \in Tabs : IsSound(tab'[u], version')
  BY <1>2, <1>3 DEF ScreenInv
<1>5. \A u \in Tabs : tab[u].screen \in 0..MaxWrites
                    /\ Len(tab[u].loads) \in Nat
  BY <1>1, TabFields
<1>6. \A u \in Tabs : MayBecome(tab[u], tab'[u])
  BY <1>2, <1>3, <1>5 DEF MayBecome
<1>7. ScreenInv'
  BY <1>3, <1>4 DEF Used, ScreenInv, Screen!TypeOK, IsSound
<1>8. ASSUME NothingIsLost, FollowInv PROVE FollowInv'
  BY <1>2, <1>3, <1>8 DEF FollowInv
<1> QED
  BY <1>6, <1>7, <1>8 DEF Keeps

(* A tab follows the data still when it holds on to what makes it load.    *)
LEMMA HoldsOn ==
  ASSUME NEW r, NEW q, NEW t, NEW o, NEW v, Follows(r, t, o, v),
         q.queue = r.queue, q.ever,
         Ends(q) < v =>
           /\ Ends(r) < v
           /\ r.timer \/ r.pending \/ r.link = "down" =>
                q.timer \/ q.pending \/ q.link = "down"
  PROVE  Follows(q, t, o, v)
BY DEF Follows, WillLoad, OwnAreCounted, OwnAreNone

LEMMA SpendingDrops ==
  ASSUME NEW u \in Used, u.drops < MaxDrops
  PROVE  /\ [u EXCEPT !["drops"] = @ + 1] \in Used
         /\ [u EXCEPT !["drops"] = @ + 1].drops = u.drops + 1
BY Bounds DEF Used

LEMMA SpendingHides ==
  ASSUME NEW u \in Used, u.hides < MaxHides
  PROVE  /\ [u EXCEPT !["hides"] = @ + 1] \in Used
         /\ [u EXCEPT !["hides"] = @ + 1].drops = u.drops
BY Bounds DEF Used

LEMMA SpendingOutages ==
  ASSUME NEW u \in Used, u.outages < MaxOutages
  PROVE  /\ [u EXCEPT !["outages"] = @ + 1] \in Used
         /\ [u EXCEPT !["outages"] = @ + 1].drops = u.drops
BY Bounds DEF Used

LEMMA SpendingErrors ==
  ASSUME NEW u \in Used, u.errors < MaxLost
  PROVE  /\ [u EXCEPT !["errors"] = @ + 1] \in Used
         /\ [u EXCEPT !["errors"] = @ + 1].drops = u.drops
BY Bounds DEF Used

LEMMA Opened ==
  ASSUME ScreenInv, NEW t \in Tabs, Screen!Connect(t)
  PROVE  Keeps
<1> DEFINE r == tab[t]
           timer == Screen!Reconnected(r)
           q == [r EXCEPT !.link = "up", !.ever = TRUE, !.timer = timer]
<1>1. r \in Screen!Tab /\ IsSound(r, version)
  BY DEF ScreenInv, Screen!TypeOK
<1>2. timer \in BOOLEAN /\ (timer <=> r.timer \/ r.ever)
  BY <1>1, TabFields DEF Screen!Reconnected
<1>3. tab' = [tab EXCEPT ![t] = q]
  BY DEF Screen!Connect
<1> HIDE DEF timer
<1>4. /\ q \in Screen!Tab /\ q.link = "up" /\ q.ever = TRUE
      /\ q.timer = timer /\ q.queue = r.queue /\ q.hidden = r.hidden
      /\ q.pending = r.pending /\ q.loads = r.loads /\ q.screen = r.screen
  BY <1>1, <1>2 DEF Screen!Tab
<1> HIDE DEF q, r
<1>5. IsSound(q, version)
  BY <1>1, <1>4 DEF IsSound
<1>6. MayBecome(r, q)
  BY <1>1, <1>4, TabFields DEF MayBecome
<1>7. Follows(r, t, unsent, version) => Follows(q, t, unsent, version)
  BY <1>2, <1>4, HoldsOn DEF Follows, Ends
<1> QED
  BY <1>3, <1>5, <1>6, <1>7, OneTabChanges
    DEF Used, r, Screen!Connect, ScreenInv, Screen!TypeOK

LEMMA Broken ==
  ASSUME ScreenInv, NEW t \in Tabs, Screen!Drop(t)
  PROVE  Keeps
<1> DEFINE r == tab[t]
           q == [r EXCEPT !.link = "down", !.queue = <<>>]
<1> USE Bounds
<1>1. r \in Screen!Tab /\ IsSound(r, version)
  BY DEF ScreenInv, Screen!TypeOK
<1>2. tab' = [tab EXCEPT ![t] = q]
  BY DEF Screen!Drop
<1>3. /\ q \in Screen!Tab /\ q.link = "down" /\ q.ever = r.ever
      /\ q.timer = r.timer /\ q.queue = <<>> /\ q.hidden = r.hidden
      /\ q.pending = r.pending /\ q.loads = r.loads /\ q.screen = r.screen
  <2>1. <<>> \in Seq(Screen!Origins)
    OBVIOUS
  <2> QED
    BY <1>1, <2>1 DEF Screen!Tab
<1> HIDE DEF q, r
<1>4. IsSound(q, version)
  BY <1>1, <1>3 DEF IsSound
<1>5. MayBecome(r, q)
  BY <1>1, <1>3, TabFields DEF MayBecome
<1>6. ASSUME Follows(r, t, unsent, version)
      PROVE  Follows(q, t, unsent, version)
  <2>1. Len(r.queue) \in Nat
    BY <1>1, TabFields
  <2>2. ASSUME NEW w \in Screen!Origins \ {t}
        PROVE  unsent[t] + unsent[w] <= version
    <3>1. (Len(r.queue) - Len(r.queue)) + unsent[t] + unsent[w] <= version
      BY <1>6, <2>1 DEF Follows, OwnAreCounted
    <3> QED
      BY <3>1, <2>1 DEF ScreenInv, Screen!TypeOK, Screen!Origins
  <2>3. OwnAreCounted(q, t, unsent, version)
    BY <1>3, <2>2 DEF OwnAreCounted, ScreenInv, Screen!TypeOK, Screen!Origins
  <2> QED
    BY <1>3, <1>6, <2>3 DEF Follows, WillLoad, OwnAreNone
<1>7. /\ used' \in Used
      /\ ghosts' \in 0..MaxDrops /\ ghosts' <= used'.drops
  <2>1. used.drops < MaxDrops /\ ghosts' = ghosts + 1
    BY DEF Screen!Drop
  <2>2. /\ used' \in Used
        /\ used'.drops = used.drops + 1
    BY <2>1, SpendingDrops DEF Used, Screen!Spend, Screen!Drop, ScreenInv,
      Screen!TypeOK
  <2>3. ghosts \in Nat /\ ghosts <= used.drops /\ used.drops \in 0..MaxDrops
    BY DEF ScreenInv, Screen!TypeOK
  <2> QED
    BY <2>1, <2>2, <2>3
<1> QED
  BY <1>2, <1>4, <1>5, <1>6, <1>7, OneTabChanges DEF r, Screen!Drop

(* A signal is taken from the queue; one of another tab sets the timer.    *)
LEMMA Signalled ==
  ASSUME ScreenInv, NEW t \in Tabs, Screen!Receive(t)
  PROVE  Keeps
<1> DEFINE r == tab[t]
           queue == Tail(r.queue)
           timer == r.timer \/ Head(r.queue) # t
           q == [r EXCEPT !.queue = queue, !.timer = timer]
<1> USE Bounds
<1>1. r \in Screen!Tab /\ IsSound(r, version)
  BY DEF ScreenInv, Screen!TypeOK
<1>2. tab' = [tab EXCEPT ![t] = q]
  BY DEF Screen!Receive
<1>3. r.queue \in Seq(Screen!Origins) /\ r.queue # <<>> /\ r.timer \in BOOLEAN
  BY <1>1, TabFields DEF Screen!Receive
<1>4. /\ queue \in Seq(Screen!Origins) /\ Len(queue) = Len(r.queue) - 1
      /\ Len(r.queue) \in Nat \ {0}
      /\ \A i \in 1..Len(queue) : queue[i] = r.queue[i + 1]
  BY <1>3, HeadTailProperties
<1>5. Head(r.queue) = r.queue[1] /\ timer \in BOOLEAN
  BY <1>3
<1>6. timer <=> r.timer \/ r.queue[1] # t
  BY <1>5
<1> HIDE DEF queue, timer
<1>7. /\ q \in Screen!Tab /\ q.link = r.link /\ q.ever = r.ever
      /\ q.timer = timer /\ q.queue = queue /\ q.hidden = r.hidden
      /\ q.pending = r.pending /\ q.loads = r.loads /\ q.screen = r.screen
  BY <1>1, <1>4, <1>5 DEF Screen!Tab
<1> HIDE DEF q, r
<1>8. IsSound(q, version)
  BY <1>1, <1>4, <1>7 DEF IsSound
<1>9. MayBecome(r, q)
  BY <1>1, <1>7, TabFields DEF MayBecome
<1>10. ASSUME Follows(r, t, unsent, version)
       PROVE  Follows(q, t, unsent, version)
  <2>1. ASSUME Ends(q) < version PROVE WillLoad(q, t, unsent)
    <3>1. WillLoad(r, t, unsent)
      BY <1>7, <1>10, <2>1 DEF Follows, Ends
    <3>2. ASSUME NEW i \in DOMAIN r.queue, r.queue[i] # t
          PROVE  q.timer \/ \E j \in DOMAIN q.queue : q.queue[j] # t
      <4>1. CASE i = 1
        BY <1>6, <1>7, <3>2, <4>1
      <4>2. CASE i # 1
        <5>1. i \in 1..Len(r.queue)
          BY <1>1, TabFields
        <5>2. i - 1 \in 1..Len(queue) /\ queue[i - 1] = r.queue[i]
          BY <1>4, <4>2, <5>1
        <5> QED
          BY <1>4, <1>7, <3>2, <5>2
      <4> QED
        BY <4>1, <4>2
    <3> QED
      BY <1>6, <1>7, <3>1, <3>2 DEF WillLoad
  <2>2. OwnAreCounted(q, t, unsent, version)
    <3> SUFFICES ASSUME NEW w \in Screen!Origins \ {t},
                        NEW k \in 0..Len(queue),
                        \A i \in (k + 1)..Len(queue) : queue[i] = t
                 PROVE  (Len(queue) - k) + unsent[t] + unsent[w] <= version
      BY <1>7 DEF OwnAreCounted
    <3>1. ASSUME NEW i \in ((k + 1) + 1)..Len(r.queue) PROVE r.queue[i] = t
      <4>1. i - 1 \in (k + 1)..Len(queue) /\ i - 1 \in 1..Len(queue)
        BY <1>4
      <4> QED
        BY <1>4, <4>1
    <3>2. k + 1 \in 0..Len(r.queue)
      BY <1>4
    <3>3. (Len(r.queue) - (k + 1)) + unsent[t] + unsent[w] <= version
      BY <1>10, <3>1, <3>2 DEF Follows, OwnAreCounted
    <3> QED
      BY <1>4, <3>3
  <2>3. OwnAreNone(q, t, unsent)
    <3> SUFFICES ASSUME ~OwnWrites
                 PROVE  unsent[t] = 0 /\ \A i \in 1..Len(queue) : queue[i] # t
      BY <1>4, <1>7 DEF OwnAreNone
    <3>1. \A i \in 1..Len(r.queue) : r.queue[i] # t
      BY <1>1, <1>10, TabFields DEF Follows, OwnAreNone
    <3>2. \A i \in 1..Len(queue) : i + 1 \in 1..Len(r.queue)
      BY <1>4
    <3> QED
      BY <1>4, <1>10, <3>1, <3>2 DEF Follows, OwnAreNone
  <2> QED
    BY <1>7, <1>10, <2>1, <2>2, <2>3 DEF Follows
<1> QED
  BY <1>2, <1>8, <1>9, <1>10, OneTabChanges
    DEF Used, r, Screen!Receive, ScreenInv, Screen!TypeOK

(* The timer fires: the page loads, or remembers to.                       *)
LEMMA TimerFires ==
  ASSUME ScreenInv, NEW t \in Tabs, Screen!Fire(t)
  PROVE  Keeps
<1> DEFINE r == tab[t]
           p == Screen!Loading(r)
           q == Screen!Fired(r)
<1> USE Bounds
<1>1. r \in Screen!Tab /\ IsSound(r, version)
  BY DEF ScreenInv, Screen!TypeOK
<1>2. tab' = [tab EXCEPT ![t] = q]
  BY DEF Screen!Fire
<1>3. Len(r.loads) < MaxInFlight /\ version \in 0..MaxWrites
  BY DEF Screen!Fire, Screen!MayLoad, ScreenInv, Screen!TypeOK
<1>4. /\ IsSound(p, version) /\ Same(p, r) /\ p.screen = r.screen
      /\ Ends(p) = Screen!NotRead
  BY <1>1, <1>3, LoadIsSent
<1>5. q = IF r.hidden THEN [r EXCEPT !.timer = FALSE, !.pending = TRUE]
          ELSE [p EXCEPT !.timer = FALSE, !.pending = FALSE]
  BY DEF Screen!Fired
<1> HIDE DEF q, r, p
<1>6. CASE r.hidden
  <2>1. /\ q \in Screen!Tab /\ q.link = r.link /\ q.ever = r.ever
        /\ q.timer = FALSE /\ q.queue = r.queue /\ q.hidden = r.hidden
        /\ q.pending = TRUE /\ q.loads = r.loads /\ q.screen = r.screen
    BY <1>1, <1>5, <1>6 DEF Screen!Tab
  <2>2. IsSound(q, version) /\ MayBecome(r, q)
    BY <1>1, <2>1, TabFields DEF IsSound, MayBecome
  <2>3. Follows(r, t, unsent, version) => Follows(q, t, unsent, version)
    BY <2>1, HoldsOn DEF Follows, Ends
  <2> QED
    BY <1>2, <2>2, <2>3, OneTabChanges
      DEF Used, r, Screen!Fire, ScreenInv, Screen!TypeOK
<1>7. CASE ~r.hidden
  <2>1. p \in Screen!Tab
    BY <1>4 DEF IsSound
  <2>2. /\ q \in Screen!Tab /\ q.link = p.link /\ q.ever = p.ever
        /\ q.timer = FALSE /\ q.queue = p.queue /\ q.hidden = p.hidden
        /\ q.pending = FALSE /\ q.loads = p.loads /\ q.screen = p.screen
    BY <1>5, <1>7, <2>1 DEF Screen!Tab
  <2>3. IsSound(q, version)
    BY <1>4, <2>2 DEF IsSound
  <2>4. MayBecome(r, q)
    BY <1>1, <1>4, <1>7, <2>2, TabFields DEF MayBecome, Same
  <2>5. Ends(q) = Screen!NotRead /\ ~(Ends(q) < version)
    BY <1>3, <1>4, <2>2 DEF Ends, Screen!NotRead
  <2>6. Follows(r, t, unsent, version) => Follows(q, t, unsent, version)
    BY <1>4, <2>2, <2>5, HoldsOn DEF Follows, Same
  <2> QED
    BY <1>2, <2>3, <2>4, <2>6, OneTabChanges
      DEF Used, r, Screen!Fire, ScreenInv, Screen!TypeOK
<1> QED
  BY <1>6, <1>7

LEMMA Hidden ==
  ASSUME ScreenInv, NEW t \in Tabs, Screen!Hide(t)
  PROVE  Keeps
<1> DEFINE r == tab[t]
           q == [r EXCEPT !.hidden = TRUE]
<1> USE Bounds
<1>1. r \in Screen!Tab /\ IsSound(r, version)
  BY DEF ScreenInv, Screen!TypeOK
<1>2. tab' = [tab EXCEPT ![t] = q]
  BY DEF Screen!Hide, ScreenInv, Screen!TypeOK
<1>3. /\ q \in Screen!Tab /\ q.link = r.link /\ q.ever = r.ever
      /\ q.timer = r.timer /\ q.queue = r.queue /\ q.hidden = TRUE
      /\ q.pending = r.pending /\ q.loads = r.loads /\ q.screen = r.screen
  BY <1>1 DEF Screen!Tab
<1> HIDE DEF q, r
<1>4. IsSound(q, version) /\ MayBecome(r, q)
  BY <1>1, <1>3, TabFields DEF IsSound, MayBecome
<1>5. Follows(r, t, unsent, version) => Follows(q, t, unsent, version)
  BY <1>3, HoldsOn DEF Follows, Ends
<1>6. used' \in Used /\ used'.drops = used.drops
  BY SpendingHides DEF Used, Screen!Spend, Screen!Hide, ScreenInv,
    Screen!TypeOK
<1> QED
  BY <1>2, <1>4, <1>5, <1>6, OneTabChanges
    DEF Used, r, Screen!Hide, ScreenInv, Screen!TypeOK

(* The tab is looked at again, and loads when it has remembered to.        *)
LEMMA Shown ==
  ASSUME ScreenInv, NEW t \in Tabs, Screen!Show(t)
  PROVE  Keeps
<1> DEFINE r == tab[t]
           p == [r EXCEPT !.hidden = FALSE, !.pending = FALSE]
           q == IF r.pending THEN Screen!Loading(p) ELSE p
<1> USE Bounds
<1>1. r \in Screen!Tab /\ IsSound(r, version)
  BY DEF ScreenInv, Screen!TypeOK
<1>2. tab' = [tab EXCEPT ![t] = q]
  BY DEF Screen!Show
<1>3. Len(r.loads) < MaxInFlight /\ version \in 0..MaxWrites
  BY DEF Screen!Show, Screen!MayLoad, ScreenInv, Screen!TypeOK
<1>4. /\ p \in Screen!Tab /\ p.link = r.link /\ p.ever = r.ever
      /\ p.timer = r.timer /\ p.queue = r.queue /\ p.hidden = FALSE
      /\ p.pending = FALSE /\ p.loads = r.loads /\ p.screen = r.screen
  BY <1>1 DEF Screen!Tab
<1> HIDE DEF r, p
<1>5. IsSound(p, version)
  BY <1>1, <1>4 DEF IsSound
<1>6. /\ IsSound(q, version) /\ q.hidden = FALSE /\ q.screen = r.screen
      /\ q.queue = r.queue /\ q.ever = r.ever /\ q.link = r.link
      /\ q.timer = r.timer
      /\ IF r.pending THEN Ends(q) = Screen!NotRead
         ELSE Ends(q) = Ends(r) /\ q.pending = r.pending
  <2>1. CASE r.pending
    BY <1>3, <1>4, <1>5, <2>1, LoadIsSent DEF Same
  <2>2. CASE ~r.pending
    <3>1. r.pending = FALSE
      BY <1>1, <2>2, TabFields
    <3> QED
      BY <1>4, <1>5, <3>1 DEF Ends
  <2> QED
    BY <2>1, <2>2
<1> HIDE DEF q
<1>7. MayBecome(r, q)
  BY <1>1, <1>6, TabFields DEF MayBecome
<1>8. Ends(q) < version => Ends(r) < version /\ q.pending = r.pending
  BY <1>3, <1>6 DEF Screen!NotRead
<1>9. Follows(r, t, unsent, version) => Follows(q, t, unsent, version)
  BY <1>6, <1>8, HoldsOn DEF Follows
<1> QED
  BY <1>2, <1>6, <1>7, <1>9, OneTabChanges
    DEF Used, r, Screen!Show, ScreenInv, Screen!TypeOK

LEMMA LoadIsRead ==
  ASSUME ScreenInv, NEW t \in Tabs, NEW i \in DOMAIN tab[t].loads,
         Screen!LoadReads(t, i)
  PROVE  Keeps
<1> DEFINE r == tab[t]
           loads == [r.loads EXCEPT ![i] = version]
           q == [r EXCEPT !.loads = loads]
<1> USE Bounds
<1>1. r \in Screen!Tab /\ IsSound(r, version) /\ version \in 0..MaxWrites
  BY DEF ScreenInv, Screen!TypeOK
<1>2. tab' = [tab EXCEPT ![t] = q]
  BY <1>1 DEF Screen!LoadReads, ScreenInv, Screen!TypeOK
<1>3. /\ r.loads \in Seq(0..Screen!NotRead) /\ i \in 1..Len(r.loads)
      /\ version \in 0..Screen!NotRead /\ version # Screen!NotRead
  <2>1. r.loads \in Seq(0..Screen!NotRead)
    BY <1>1, TabFields
  <2>2. DOMAIN r.loads = 1..Len(r.loads)
    BY <2>1
  <2> QED
    BY <1>1, <2>1, <2>2 DEF Screen!NotRead
<1>4. /\ loads \in Seq(0..Screen!NotRead) /\ Len(loads) = Len(r.loads)
      /\ \A j \in 1..Len(loads) :
           loads[j] = IF j = i THEN version ELSE r.loads[j]
      /\ loads # <<>> /\ r.loads # <<>> /\ DOMAIN loads = 1..Len(r.loads)
  BY <1>3, ExceptSeq
<1> HIDE DEF loads
<1>5. /\ q \in Screen!Tab /\ Same(q, r) /\ q.loads = loads
      /\ q.screen = r.screen
  BY <1>1, <1>4 DEF Screen!Tab, Same
<1> HIDE DEF q, r
<1>6. IsSound(q, version)
  BY <1>1, <1>3, <1>4, <1>5 DEF IsSound, Same
<1>7. MayBecome(r, q)
  BY <1>1, <1>4, <1>5, TabFields DEF MayBecome
<1>8. Ends(q) < version => Ends(q) = Ends(r)
  BY <1>1, <1>3, <1>4, <1>5 DEF Ends
<1>9. Follows(r, t, unsent, version) => Follows(q, t, unsent, version)
  BY <1>5, <1>8, HoldsOn DEF Follows, Same
<1> QED
  BY <1>2, <1>6, <1>7, <1>9, OneTabChanges
    DEF Used, r, Screen!LoadReads, ScreenInv, Screen!TypeOK

LEMMA LoadIsAnswered ==
  ASSUME ScreenInv, NEW t \in Tabs, NEW i \in DOMAIN tab[t].loads,
         Screen!LoadAnswers(t, i)
  PROVE  Keeps
<1> DEFINE r == tab[t]
           screen == IF Screen!Kept(r, i) THEN r.loads[i] ELSE r.screen
           q == Ended(r, i, screen)
<1> USE Bounds
<1>1. r \in Screen!Tab /\ IsSound(r, version) /\ version \in 0..MaxWrites
  BY DEF ScreenInv, Screen!TypeOK
<1>2. tab' = [tab EXCEPT ![t] = q]
  BY DEF Screen!LoadAnswers, Ended
<1>3. /\ i \in DOMAIN r.loads /\ screen \in {r.screen, r.loads[i]}
      /\ r.loads[i] <= version
      /\ Guarded => screen = r.screen \/ i = Len(r.loads)
      /\ Guarded /\ i = Len(r.loads) => screen = r.loads[i]
  BY <1>1 DEF Screen!LoadAnswers, Screen!Kept, IsSound
<1> HIDE DEF screen
<1>4. /\ IsSound(q, version) /\ Same(q, r) /\ q.screen = screen
      /\ Len(q.loads) < Len(r.loads)
      /\ Guarded => Ends(q) = Ends(r)
  BY <1>1, <1>3, LoadEnds
<1>5. q.loads \in Seq(0..Screen!NotRead) /\ r.loads \in Seq(0..Screen!NotRead)
      /\ r.screen \in 0..MaxWrites
  BY <1>1, <1>4, TabFields DEF IsSound
<1> HIDE DEF q, r
<1>6. MayBecome(r, q)
  BY <1>1, <1>3, <1>4, <1>5 DEF MayBecome, IsSound
<1>7. NothingIsLost /\ Follows(r, t, unsent, version) =>
        Follows(q, t, unsent, version)
  BY <1>4, HoldsOn DEF Follows, Same, NothingIsLost
<1> QED
  BY <1>2, <1>4, <1>6, <1>7, OneTabChanges
    DEF Used, r, Screen!LoadAnswers, ScreenInv, Screen!TypeOK

LEMMA LoadIsLost ==
  ASSUME ScreenInv, NEW t \in Tabs, NEW i \in DOMAIN tab[t].loads,
         Screen!LoadFails(t, i)
  PROVE  Keeps
<1> DEFINE r == tab[t]
           loads == Screen!Rest(r.loads, i)
           q == [r EXCEPT !.loads = loads]
           p == Ended(r, i, r.screen)
<1> USE Bounds
<1>1. r \in Screen!Tab /\ IsSound(r, version) /\ version \in 0..MaxWrites
  BY DEF ScreenInv, Screen!TypeOK
<1>2. tab' = [tab EXCEPT ![t] = q]
  BY DEF Screen!LoadFails, ScreenInv, Screen!TypeOK
<1>3. i \in DOMAIN r.loads
  OBVIOUS
<1>4. /\ IsSound(p, version) /\ Same(p, r) /\ p.screen = r.screen
      /\ Len(p.loads) < Len(r.loads)
  BY <1>1, <1>3, LoadEnds
<1>5. q = p
  <2>1. p = [r EXCEPT !.loads = loads, !.screen = r.screen]
    BY DEF Ended
  <2> HIDE DEF loads, p
  <2> QED
    BY <1>1, <2>1 DEF Screen!Tab
<1>6. p.loads \in Seq(0..Screen!NotRead) /\ r.loads \in Seq(0..Screen!NotRead)
      /\ r.screen \in 0..MaxWrites
  BY <1>1, <1>4, TabFields DEF IsSound
<1> HIDE DEF q, p, r
<1>7. MayBecome(r, q)
  BY <1>1, <1>4, <1>5, <1>6 DEF MayBecome
<1>8. used.errors < MaxLost /\ used.errors \in Nat /\ ~NothingIsLost
  BY DEF Screen!LoadFails, ScreenInv, Screen!TypeOK, NothingIsLost
<1>9. used' \in Used /\ used'.drops = used.drops
  BY <1>8, SpendingErrors
    DEF Used, Screen!Spend, Screen!LoadFails, ScreenInv, Screen!TypeOK
<1> QED
  BY <1>2, <1>4, <1>5, <1>7, <1>8, <1>9, OneTabChanges
    DEF Used, r, Screen!LoadFails, ScreenInv, Screen!TypeOK

(* A write gives its signal to a task, and every tab but the one that      *)
(* wrote is to hear of it.                                                 *)
LEMMA DataIsWritten ==
  ASSUME ScreenInv, NEW o \in Screen!Origins, Screen!Write(o)
  PROVE  Keeps
<1> USE Bounds
<1>1. /\ version \in 0..MaxWrites /\ version < MaxWrites
      /\ version' = version + 1 /\ version' \in 0..MaxWrites
      /\ unsent \in [Screen!Origins -> 0..MaxWrites]
      /\ tab \in [Tabs -> Screen!Tab]
  BY DEF Screen!Write, ScreenInv, Screen!TypeOK
<1>2. \A w \in Screen!Origins : unsent[w] \in Nat /\ unsent[w] <= version
  BY <1>1 DEF ScreenInv
<1>3. /\ \A w \in Screen!Origins :
           unsent'[w] = IF w = o THEN unsent[w] + 1 ELSE unsent[w]
      /\ unsent' \in [Screen!Origins -> 0..MaxWrites]
      /\ \A w \in Screen!Origins : unsent'[w] <= version'
  BY <1>1, <1>2 DEF Screen!Write
<1>4. ASSUME NEW t \in Tabs
      PROVE  /\ tab[t] \in Screen!Tab /\ IsSound(tab[t], version)
             /\ IsSound(tab[t], version') /\ MayBecome(tab[t], tab[t])
  <2>1. tab[t] \in Screen!Tab /\ IsSound(tab[t], version)
    BY <1>1 DEF ScreenInv
  <2>2. tab[t].screen \in 0..MaxWrites /\ Len(tab[t].loads) \in Nat
        /\ \A i \in DOMAIN tab[t].loads : tab[t].loads[i] \in 0..Screen!NotRead
    <3>1. tab[t].loads \in Seq(0..Screen!NotRead)
      BY <2>1, TabFields
    <3>2. \A i \in DOMAIN tab[t].loads : tab[t].loads[i] \in 0..Screen!NotRead
      BY <3>1, ElementOfSeq, LenProperties
    <3>3. tab[t].screen \in 0..MaxWrites
      BY <2>1, TabFields
    <3> QED
      BY <3>1, <3>2, <3>3
  <2> QED
    BY <1>1, <2>1, <2>2 DEF IsSound, MayBecome, Screen!NotRead
<1>5. ASSUME NEW t \in Tabs, tab'[t] # tab[t] \/ t = o
      PROVE  /\ t = o /\ OwnWrites /\ ~tab[t].hidden
             /\ Len(tab[t].loads) < MaxInFlight
             /\ tab'[t] = Screen!Loading(tab[t])
  BY <1>1, <1>5 DEF Screen!Write, Screen!MayLoad
<1>6. ASSUME NEW t \in Tabs, t = o
      PROVE  /\ IsSound(tab'[t], version') /\ Same(tab'[t], tab[t])
             /\ tab'[t].screen = tab[t].screen
             /\ Ends(tab'[t]) = Screen!NotRead
             /\ MayBecome(tab[t], tab'[t])
  <2>1. /\ IsSound(tab'[t], version') /\ Same(tab'[t], tab[t])
        /\ tab'[t].screen = tab[t].screen /\ Ends(tab'[t]) = Screen!NotRead
    BY <1>1, <1>4, <1>5, <1>6, LoadIsSent
  <2>2. tab[t].screen \in 0..MaxWrites
    BY <1>4, TabFields
  <2> QED
    BY <1>5, <1>6, <2>1, <2>2 DEF MayBecome, Same
<1>7. \A t \in Tabs : IsSound(tab'[t], version') /\ MayBecome(tab[t], tab'[t])
  BY <1>4, <1>5, <1>6
<1>8. tab' \in [Tabs -> Screen!Tab]
  <2>1. \A t \in Tabs : tab'[t] \in Screen!Tab
    BY <1>7 DEF IsSound
  <2>2. tab' = [t \in Tabs |-> tab'[t]]
    BY <1>1 DEF Screen!Write
  <2> QED
    BY <2>1, <2>2
<1>9. ScreenInv'
  BY <1>1, <1>3, <1>7, <1>8
    DEF ScreenInv, Screen!TypeOK, IsSound, Screen!Write
<1>10. ASSUME NEW t \in Tabs, Follows(tab[t], t, unsent, version)
       PROVE  Follows(tab'[t], t, unsent', version')
  <2> DEFINE r == tab[t]
             q == tab'[t]
  <2>0. t \in Screen!Origins /\ Others \in Screen!Origins
    BY DEF Screen!Origins
  <2>1. /\ r.queue \in Seq(Screen!Origins) /\ Len(r.queue) \in Nat
        /\ q.queue = r.queue /\ q.ever = r.ever
    BY <1>4, <1>5, <1>6, TabFields DEF Same
  <2>2. OwnAreCounted(q, t, unsent', version')
    <3> SUFFICES ASSUME NEW w \in Screen!Origins \ {t},
                        NEW k \in 0..Len(r.queue),
                        \A i \in (k + 1)..Len(r.queue) : r.queue[i] = t
                 PROVE  (Len(r.queue) - k) + unsent'[t] + unsent'[w]
                          <= version'
      BY <2>1 DEF OwnAreCounted
    <3>1. (Len(r.queue) - k) + unsent[t] + unsent[w] <= version
      BY <1>10 DEF Follows, OwnAreCounted
    <3>2. /\ t # w /\ unsent[t] \in Nat /\ unsent[w] \in Nat
          /\ unsent'[t] = IF t = o THEN unsent[t] + 1 ELSE unsent[t]
          /\ unsent'[w] = IF w = o THEN unsent[w] + 1 ELSE unsent[w]
      BY <1>2, <1>3, <2>0
    <3>3. PICK len \in Nat : len = Len(r.queue)
      BY <2>1
    <3>4. k \in 0..len
      BY <3>3
    <3>5. PICK n \in Int : n = Len(r.queue) - k
      BY <3>3, <3>4
    <3>6. n + unsent[t] + unsent[w] <= version
      BY <3>1, <3>5
    <3>7. /\ unsent'[t] \in Nat /\ unsent'[w] \in Nat
          /\ unsent'[t] + unsent'[w] <= unsent[t] + unsent[w] + 1
      BY <3>2
    <3>8. \A a, b, c, d, m \in Nat :
            n + a + b <= m /\ c + d <= a + b + 1 => n + c + d <= m + 1
      BY <3>5, SMTT(20)
    <3>9. /\ version \in Nat /\ unsent[t] \in Nat /\ unsent[w] \in Nat
          /\ version' = version + 1
      BY <1>1, <3>2
    <3>10. n + unsent'[t] + unsent'[w] <= version + 1
      <4> HIDE DEF r
      <4> QED
        BY <3>6, <3>7, <3>8, <3>9
    <3> QED
      BY <3>5, <3>9, <3>10
  <2>3. OwnAreNone(q, t, unsent')
    BY <1>3, <1>5, <1>10, <2>0, <2>1 DEF Follows, OwnAreNone
  <2>4. CASE t = o
    <3>1. ~(Ends(q) < version')
      BY <1>1, <1>6, <2>4 DEF Screen!NotRead
    <3> QED
      BY <1>10, <2>1, <2>2, <2>3, <3>1 DEF Follows
  <2>5. CASE t # o
    <3>1. unsent'[o] > 0 /\ o \in Screen!Origins \ {t}
      BY <1>2, <1>3, <2>5
    <3>2. WillLoad(q, t, unsent')
      BY <3>1 DEF WillLoad
    <3> QED
      BY <1>10, <2>1, <2>2, <2>3, <3>2 DEF Follows
  <2> QED
    BY <2>4, <2>5
<1>11. FollowInv => FollowInv'
  BY <1>10 DEF FollowInv, Screen!Write
<1> QED
  BY <1>7, <1>9, <1>11 DEF Keeps

LEMMA Sums ==
  ASSUME NEW n \in Nat, NEW k \in 0..n, NEW a \in Nat, NEW b \in Nat,
         NEW c \in Nat, NEW d \in Nat, NEW v \in Nat, c <= a, d <= b,
         (n - k) + a + b <= v
  PROVE  (n - k) + c + d <= v
OBVIOUS

LEMMA SumsMove ==
  ASSUME NEW n \in Nat, NEW k \in 0..n, NEW a \in Nat, NEW b \in Nat,
         NEW d \in Nat, NEW v \in Nat, d <= b, (n - k) + a + b <= v
  PROVE  ((n + 1) - k) + (a - 1) + d <= v
OBVIOUS

(* The hub hands a signal to the connections that are up.                  *)
LEMMA SignalIsPublished ==
  ASSUME ScreenInv, NEW o \in Screen!Origins, Screen!Publish(o)
  PROVE  Keeps
<1> USE Bounds
<1>1. /\ version \in 0..MaxWrites /\ version' = version
      /\ unsent \in [Screen!Origins -> 0..MaxWrites]
      /\ tab \in [Tabs -> Screen!Tab] /\ unsent[o] > 0
  BY DEF Screen!Publish, ScreenInv, Screen!TypeOK
<1>2. \A w \in Screen!Origins : unsent[w] \in Nat /\ unsent[w] <= version
  BY <1>1 DEF ScreenInv
<1>3. /\ \A w \in Screen!Origins :
           unsent'[w] = IF w = o THEN unsent[w] - 1 ELSE unsent[w]
      /\ unsent' \in [Screen!Origins -> 0..MaxWrites]
      /\ \A w \in Screen!Origins : unsent'[w] <= version'
  BY <1>1, <1>2 DEF Screen!Publish
<1> DEFINE Heard(t) == subscribed /\ tab[t].link = "up"
                         /\ Len(tab[t].queue) < QueueMax
<1>4. ASSUME NEW t \in Tabs
      PROVE  IF Heard(t)
             THEN tab'[t] = [tab[t] EXCEPT !.queue = Append(tab[t].queue, o)]
             ELSE tab'[t] = tab[t]
  <2>1. tab[t] \in Screen!Tab
    BY <1>1
  <2>2. [tab[t] EXCEPT !.queue = tab[t].queue] = tab[t]
    BY <2>1 DEF Screen!Tab
  <2>3. tab'[t] = IF subscribed /\ tab[t].link = "up"
                  THEN [tab[t] EXCEPT !.queue = Screen!Put(tab[t].queue, o)]
                  ELSE tab[t]
    BY DEF Screen!Publish
  <2> QED
    BY <2>2, <2>3 DEF Screen!Put
<1>5. ASSUME NEW t \in Tabs
      PROVE  LET r == tab[t]  q == tab'[t] IN
             /\ r \in Screen!Tab /\ q \in Screen!Tab
             /\ q.link = r.link /\ q.ever = r.ever /\ q.timer = r.timer
             /\ q.hidden = r.hidden /\ q.pending = r.pending
             /\ q.loads = r.loads /\ q.screen = r.screen
             /\ r.queue \in Seq(Screen!Origins) /\ Len(r.queue) \in Nat
             /\ q.queue = IF Heard(t) THEN Append(r.queue, o) ELSE r.queue
  <2>1. tab[t] \in Screen!Tab /\ tab[t].queue \in Seq(Screen!Origins)
    BY <1>1, TabFields
  <2>2. Append(tab[t].queue, o) \in Seq(Screen!Origins)
    BY <2>1, AppendProperties
  <2>3. CASE Heard(t)
    <3>1. tab'[t] = [tab[t] EXCEPT !.queue = Append(tab[t].queue, o)]
      BY <1>4, <2>3
    <3>2. PICK queue \in Seq(Screen!Origins) : queue = Append(tab[t].queue, o)
      BY <2>2
    <3>3. tab'[t] = [tab[t] EXCEPT !.queue = queue]
      BY <3>1, <3>2
    <3>4. LET r == tab[t]  q == tab'[t] IN
             /\ q \in Screen!Tab
             /\ q.link = r.link /\ q.ever = r.ever /\ q.timer = r.timer
             /\ q.hidden = r.hidden /\ q.pending = r.pending
             /\ q.loads = r.loads /\ q.screen = r.screen
             /\ q.queue = queue
      BY <2>1, <3>3 DEF Screen!Tab
    <3> QED
      BY <2>1, <2>3, <3>2, <3>4
  <2>4. CASE ~Heard(t)
    <3>1. tab'[t] = tab[t]
      BY <1>4, <2>4
    <3> QED
      BY <2>1, <2>4, <3>1
  <2> QED
    BY <2>3, <2>4
<1>6. ASSUME NEW t \in Tabs
      PROVE  IsSound(tab'[t], version') /\ MayBecome(tab[t], tab'[t])
  <2>1. IsSound(tab[t], version)
    BY DEF ScreenInv
  <2>2. Len(tab'[t].queue) <= QueueMax
    <3>1. CASE Heard(t)
      <4>1. tab'[t].queue = Append(tab[t].queue, o)
            /\ tab[t].queue \in Seq(Screen!Origins)
        BY <1>5, <3>1
      <4>2. Len(tab'[t].queue) = Len(tab[t].queue) + 1
        BY <4>1, AppendProperties
      <4> QED
        BY <1>5, <3>1, <4>2
    <3>2. CASE ~Heard(t)
      BY <1>5, <2>1, <3>2 DEF IsSound
    <3> QED
      BY <3>1, <3>2
  <2>3. tab[t].screen \in 0..MaxWrites /\ Len(tab[t].loads) \in Nat
    BY <1>5, TabFields
  <2> QED
    BY <1>1, <1>5, <2>1, <2>2, <2>3 DEF IsSound, MayBecome
<1>7. ScreenInv'
  <2>1. tab' \in [Tabs -> Screen!Tab]
    <3>1. tab' = [t \in Tabs |-> tab'[t]]
      BY DEF Screen!Publish
    <3> QED
      BY <1>5, <3>1
  <2> QED
    BY <1>1, <1>3, <1>6, <2>1
      DEF ScreenInv, Screen!TypeOK, IsSound, Screen!Publish
<1>8. ASSUME NothingIsLost, subscribed, NEW t \in Tabs,
             Follows(tab[t], t, unsent, version)
      PROVE  Follows(tab'[t], t, unsent', version')
  <2> DEFINE r == tab[t]
             q == tab'[t]
  <2>0. t \in Screen!Origins
    BY DEF Screen!Origins
  <2>1. /\ q.link = r.link /\ q.ever = r.ever /\ q.timer = r.timer
        /\ q.pending = r.pending /\ Ends(q) = Ends(r)
        /\ r.queue \in Seq(Screen!Origins) /\ Len(r.queue) \in Nat
        /\ q.queue = IF Heard(t) THEN Append(r.queue, o) ELSE r.queue
    BY <1>5 DEF Ends
  <2>2. Heard(t) => /\ Len(q.queue) = Len(r.queue) + 1
                    /\ q.queue[Len(r.queue) + 1] = o
                    /\ \A i \in 1..Len(r.queue) : q.queue[i] = r.queue[i]
                    /\ DOMAIN q.queue = 1..(Len(r.queue) + 1)
    BY <2>1, AppendProperties
  <2>3. DOMAIN r.queue = 1..Len(r.queue)
    BY <2>1
  <2> HIDE DEF r, q
  <2>4. \A w \in Screen!Origins \ {t}, k \in 0..Len(r.queue) :
          (\A i \in (k + 1)..Len(r.queue) : r.queue[i] = t) =>
            (Len(r.queue) - k) + unsent[t] + unsent[w] <= version
    BY <1>8 DEF Follows, OwnAreCounted, r
  <2>5. \A w \in Screen!Origins \ {t} : unsent[t] + unsent[w] <= version
    <3> SUFFICES ASSUME NEW w \in Screen!Origins \ {t}
                 PROVE  unsent[t] + unsent[w] <= version
      OBVIOUS
    <3>1. (Len(r.queue) - Len(r.queue)) + unsent[t] + unsent[w] <= version
      BY <2>1, <2>4
    <3> QED
      BY <1>2, <2>0, <2>1, <3>1
  <2>6. /\ unsent'[t] = IF t = o THEN unsent[t] - 1 ELSE unsent[t]
        /\ unsent[t] \in Nat /\ unsent'[t] \in Nat
        /\ \A w \in Screen!Origins \ {t} :
             /\ unsent[w] \in Nat /\ unsent'[w] \in Nat
             /\ unsent'[w] = IF w = o THEN unsent[w] - 1 ELSE unsent[w]
    BY <1>2, <1>3, <2>0
  <2>7. OwnAreCounted(q, t, unsent', version')
    <3> SUFFICES ASSUME NEW w \in Screen!Origins \ {t},
                        NEW k \in 0..Len(q.queue),
                        \A i \in (k + 1)..Len(q.queue) : q.queue[i] = t
                 PROVE  (Len(q.queue) - k) + unsent'[t] + unsent'[w] <= version
      BY <1>1 DEF OwnAreCounted
    <3>1. /\ unsent[t] \in Nat /\ unsent'[t] \in Nat /\ unsent[w] \in Nat
          /\ unsent'[w] \in Nat /\ unsent'[t] <= unsent[t]
          /\ unsent'[w] <= unsent[w] /\ version \in Nat
      BY <1>1, <2>6
    <3>2. CASE ~Heard(t)
      <4>1. q.queue = r.queue
        BY <2>1, <3>2
      <4>2. (Len(r.queue) - k) + unsent[t] + unsent[w] <= version
        BY <2>4, <4>1
      <4>3. k \in 0..Len(r.queue)
        BY <4>1
      <4> QED
        BY <2>1, <3>1, <4>1, <4>2, <4>3, Sums
    <3>3. CASE Heard(t) /\ k = Len(q.queue)
      <4>1. /\ Len(q.queue) \in Nat /\ Len(q.queue) \in 0..Len(q.queue)
            /\ (Len(q.queue) - Len(q.queue)) + unsent[t] + unsent[w] <= version
        BY <2>1, <2>2, <2>5, <3>1, <3>3
      <4> QED
        BY <3>1, <3>3, <4>1, Sums
    <3>4. CASE Heard(t) /\ k # Len(q.queue)
      <4>1. k \in 0..Len(r.queue) /\ Len(q.queue) = Len(r.queue) + 1
        BY <2>1, <2>2, <3>4
      <4>2. o = t
        BY <2>1, <2>2, <3>4, <4>1
      <4>3. \A i \in (k + 1)..Len(r.queue) : r.queue[i] = t
        BY <2>1, <2>2, <3>4, <4>1
      <4>4. (Len(r.queue) - k) + unsent[t] + unsent[w] <= version
        BY <2>4, <4>1, <4>3
      <4>5. unsent'[t] = unsent[t] - 1
        BY <2>6, <4>2
      <4>6. ((Len(r.queue) + 1) - k) + unsent'[t] + unsent'[w] <= version
        <5>1. ((Len(r.queue) + 1) - k) + (unsent[t] - 1) + unsent'[w]
                <= version
          BY <2>1, <3>1, <4>1, <4>4, SumsMove
        <5> QED
          BY <4>5, <5>1
      <4> QED
        BY <4>1, <4>6
    <3> QED
      BY <3>2, <3>3, <3>4
  <2>8. OwnAreNone(q, t, unsent')
    <3> SUFFICES ASSUME ~OwnWrites
                 PROVE  /\ unsent'[t] = 0
                        /\ \A i \in DOMAIN q.queue : q.queue[i] # t
      BY DEF OwnAreNone
    <3>1. unsent[t] = 0 /\ \A i \in 1..Len(r.queue) : r.queue[i] # t
      BY <1>8, <2>3 DEF Follows, OwnAreNone, r
    <3>2. o # t
      BY <1>1, <3>1
    <3> QED
      BY <2>1, <2>2, <2>3, <2>6, <3>1, <3>2
  <2>9. ASSUME Ends(q) < version' PROVE WillLoad(q, t, unsent')
    <3>1. WillLoad(r, t, unsent) /\ r.ever
      BY <1>1, <1>8, <2>1, <2>9 DEF Follows, r
    <3>2. CASE o = t
      <4>1. \A w \in Screen!Origins \ {t} : unsent'[w] = unsent[w]
        BY <2>6, <3>2
      <4>2. \A i \in DOMAIN r.queue :
              i \in DOMAIN q.queue /\ q.queue[i] = r.queue[i]
        BY <2>1, <2>2, <2>3
      <4> QED
        BY <2>1, <3>1, <4>1, <4>2 DEF WillLoad
    <3>3. CASE o # t /\ Heard(t)
      BY <2>1, <2>2, <3>3 DEF WillLoad
    <3>4. CASE o # t /\ ~Heard(t)
      <4>1. q.queue = r.queue
        BY <2>1, <3>4
      <4>2. CASE r.link = "down"
        BY <2>1, <3>1, <4>2 DEF WillLoad
      <4>3. CASE r.link = "up"
        <5>1. Len(r.queue) >= QueueMax
          BY <1>8, <2>1, <3>4, <4>3 DEF r
        <5>2. CASE \A i \in 1..Len(r.queue) : r.queue[i] = t
          <6>1. OwnWrites
            <7>1. 1 \in DOMAIN r.queue
              BY <2>1, <2>3, <5>1
            <7> QED
              BY <1>8, <2>3, <5>2, <7>1 DEF Follows, OwnAreNone, r
          <6>2. (Len(r.queue) - 0) + unsent[t] + unsent[o] <= version
            BY <2>1, <2>4, <3>4, <5>2
          <6>3. MaxWrites <= QueueMax
            BY <1>8, <6>1 DEF NothingIsLost
          <6> QED
            BY <1>1, <2>1, <2>6, <3>4, <5>1, <6>2, <6>3
        <5>3. CASE ~\A i \in 1..Len(r.queue) : r.queue[i] = t
          BY <2>3, <4>1, <5>3 DEF WillLoad
        <5> QED
          BY <5>2, <5>3
      <4> QED
        BY <1>5, <4>2, <4>3, TabFields DEF r
    <3> QED
      BY <3>2, <3>3, <3>4
  <2> QED
    BY <1>8, <2>1, <2>7, <2>8, <2>9 DEF Follows, q, r
<1>9. NothingIsLost /\ FollowInv => FollowInv'
  BY <1>8 DEF FollowInv, Screen!Publish
<1> QED
  BY <1>6, <1>7, <1>9 DEF Keeps

LEMMA SignalIsLost ==
  ASSUME ScreenInv, NEW o \in Screen!Origins, Screen!PublishFails(o)
  PROVE  Keeps
<1> USE Bounds
<1>1. /\ used.outages < MaxOutages /\ used.outages \in Nat /\ used \in Used
      /\ unsent \in [Screen!Origins -> 0..MaxWrites] /\ unsent[o] > 0
      /\ tab \in [Tabs -> Screen!Tab] /\ version \in 0..MaxWrites
  BY DEF Screen!PublishFails, ScreenInv, Screen!TypeOK, Used
<1>2. ~NothingIsLost
  BY <1>1 DEF NothingIsLost
<1>3. used' \in Used /\ used'.drops = used.drops
  BY <1>1, SpendingOutages DEF Screen!Spend, Screen!PublishFails
<1>4. /\ unsent' \in [Screen!Origins -> 0..MaxWrites]
      /\ \A w \in Screen!Origins : unsent'[w] <= version
  <2>1. \A w \in Screen!Origins : unsent[w] \in Nat /\ unsent[w] <= version
    BY <1>1 DEF ScreenInv
  <2>2. unsent' = [unsent EXCEPT ![o] = @ - 1]
    BY DEF Screen!PublishFails
  <2> QED
    BY <1>1, <2>1, <2>2
<1>5. \A t \in Tabs : tab[t].screen \in 0..MaxWrites /\
        Len(tab[t].loads) \in Nat
  BY <1>1, TabFields
<1>6. ScreenInv'
  BY <1>3, <1>4 DEF Used, ScreenInv, Screen!TypeOK, IsSound,
    Screen!PublishFails
<1> QED
  BY <1>2, <1>5, <1>6 DEF Keeps, MayBecome, Screen!PublishFails

(* The tabs do not see what the hub and the server do for themselves.      *)
LEMMA TabsStay ==
  ASSUME ScreenInv, UNCHANGED <<version, unsent, tab>>,
         subscribed' \in BOOLEAN, NothingIsLost /\ subscribed => subscribed',
         ghosts' \in 0..MaxDrops, ghosts' <= used'.drops, used' \in Used
  PROVE  Keeps
<1> USE Bounds
<1>1. \A t \in Tabs : tab[t].screen \in 0..MaxWrites /\
        Len(tab[t].loads) \in Nat
  BY TabFields DEF ScreenInv, Screen!TypeOK
<1>2. ScreenInv'
  BY DEF Used, ScreenInv, Screen!TypeOK, IsSound
<1>3. NothingIsLost /\ FollowInv => FollowInv'
  BY DEF FollowInv
<1> QED
  BY <1>1, <1>2, <1>3 DEF Keeps, MayBecome

LEMMA HubChanges ==
  ASSUME ScreenInv,
         \/ Screen!HubLoses \/ Screen!HubSubscribes \/ Screen!ServerNotices
         \/ UNCHANGED Screen!vars
  PROVE  Keeps
<1> USE Bounds
<1>1. /\ used \in Used /\ used.drops \in 0..MaxDrops /\ used.outages \in Nat
      /\ ghosts \in 0..MaxDrops /\ ghosts <= used.drops
      /\ subscribed \in BOOLEAN
  BY DEF Used, ScreenInv, Screen!TypeOK
<1>2. CASE Screen!HubLoses
  <2>1. used' \in Used /\ used'.drops = used.drops
    BY <1>1, <1>2, SpendingOutages DEF Screen!Spend, Screen!HubLoses
  <2>2. ~NothingIsLost
    BY <1>1, <1>2 DEF Screen!HubLoses, NothingIsLost
  <2> QED
    BY <1>1, <1>2, <2>1, <2>2, TabsStay DEF Screen!HubLoses
<1>3. CASE Screen!HubSubscribes
  BY <1>1, <1>3, TabsStay DEF Screen!HubSubscribes
<1>4. CASE Screen!ServerNotices
  <2>1. ghosts' = ghosts - 1 /\ ghosts > 0
    BY <1>4 DEF Screen!ServerNotices, Screen!Freed
  <2> QED
    BY <1>1, <1>4, <2>1, TabsStay DEF Screen!ServerNotices
<1>5. CASE UNCHANGED Screen!vars
  BY <1>1, <1>5, TabsStay DEF Screen!vars
<1> QED
  BY <1>2, <1>3, <1>4, <1>5

LEMMA ScreensGoOn == ScreenInv /\ [Screen!Next]_(Screen!vars) => Keeps
<1> SUFFICES ASSUME ScreenInv, [Screen!Next]_(Screen!vars) PROVE Keeps
  OBVIOUS
<1>1. CASE UNCHANGED Screen!vars
  BY <1>1, HubChanges
<1>2. CASE Screen!Server \/ Screen!HubLoses
  BY <1>2, HubChanges, SignalIsPublished DEF Screen!Server
<1>3. ASSUME NEW o \in Screen!Origins,
             Screen!Write(o) \/ Screen!PublishFails(o)
      PROVE  Keeps
  BY <1>3, DataIsWritten, SignalIsLost
<1>4. ASSUME NEW t \in Tabs, Screen!Client(t) PROVE Keeps
  BY <1>4, Opened, Signalled, TimerFires, LoadIsRead, LoadIsAnswered
    DEF Screen!Client
<1>5. ASSUME NEW t \in Tabs,
             \/ Screen!Drop(t) \/ Screen!Hide(t) \/ Screen!Show(t)
             \/ \E i \in DOMAIN tab[t].loads : Screen!LoadFails(t, i)
      PROVE  Keeps
  BY <1>5, Broken, Hidden, Shown, LoadIsLost
<1> QED
  BY <1>1, <1>2, <1>3, <1>4, <1>5 DEF Screen!Next

LEMMA ScreensBegin ==
  Screen!Init => ScreenInv /\ (Connected => FollowInv)
<1> SUFFICES ASSUME Screen!Init PROVE ScreenInv /\ (Connected => FollowInv)
  OBVIOUS
<1> USE Bounds
<1>1. ASSUME NEW t \in Tabs
      PROVE  /\ tab[t] \in Screen!Tab /\ tab[t].ever = Connected
             /\ tab[t].queue = <<>> /\ tab[t].loads = <<>> /\ tab[t].screen = 0
  <2>1. <<>> \in Seq(Screen!Origins) /\ <<>> \in Seq(0..Screen!NotRead)
    OBVIOUS
  <2> QED
    BY <2>1 DEF Screen!Init, Screen!Tab
<1>2. tab \in [Tabs -> Screen!Tab]
  <2>1. tab = [t \in Tabs |-> tab[t]]
    BY DEF Screen!Init
  <2> QED
    BY <1>1, <2>1
<1>3. \A t \in Tabs : IsSound(tab[t], 0)
  BY <1>1 DEF IsSound
<1>4. ScreenInv
  <2>1. Screen!TypeOK
    <3>1. /\ version \in 0..MaxWrites
          /\ unsent \in [Screen!Origins -> 0..MaxWrites]
          /\ subscribed \in BOOLEAN /\ ghosts \in 0..MaxDrops
      BY DEF Screen!Init
    <3>2. used \in Used
      BY DEF Screen!Init, Used
    <3>3. \A t \in Tabs : /\ Len(tab[t].queue) <= QueueMax
                         /\ Len(tab[t].loads) <= MaxInFlight
      BY <1>1
    <3> QED
      BY <1>2, <3>1, <3>2, <3>3 DEF Screen!TypeOK, Used
  <2> QED
    <3>1. version = 0 /\ ghosts = 0 /\ used.drops = 0
          /\ \A o \in Screen!Origins : unsent[o] = 0
      BY DEF Screen!Init
    <3> QED
      BY <1>3, <2>1, <3>1 DEF ScreenInv
<1>5. ASSUME Connected PROVE FollowInv
  <2>1. \A t \in Tabs : Follows(tab[t], t, unsent, version)
    <3> SUFFICES ASSUME NEW t \in Tabs
                 PROVE  Follows(tab[t], t, unsent, version)
      OBVIOUS
    <3>1. version = 0 /\ \A o \in Screen!Origins : unsent[o] = 0
      BY DEF Screen!Init
    <3>2. t \in Screen!Origins
      BY DEF Screen!Origins
    <3>3. tab[t].ever /\ ~(Ends(tab[t]) < version)
      <4>1. tab[t].ever
        BY <1>1, <1>5
      <4>2. Ends(tab[t]) = 0
        BY <1>1 DEF Ends
      <4> QED
        BY <3>1, <4>1, <4>2
    <3>4. OwnAreCounted(tab[t], t, unsent, version)
      BY <1>1, <3>1, <3>2 DEF OwnAreCounted
    <3>5. OwnAreNone(tab[t], t, unsent)
      BY <1>1, <3>1, <3>2 DEF OwnAreNone
    <3> QED
      BY <3>3, <3>4, <3>5 DEF Follows
  <2> QED
    BY <2>1 DEF FollowInv, Screen!Init
<1> QED
  BY <1>4, <1>5

LEMMA ScreensAlways == Screen!Spec => []ScreenInv
<1>1. ScreenInv /\ [Screen!Next]_(Screen!vars) => ScreenInv'
  BY ScreensGoOn DEF Keeps
<1> QED
  BY <1>1, ScreensBegin, PTL DEF Screen!Spec

(* A page that numbers its loads never goes back to older data, however    *)
(* its loads overtake each other (loadSeqRef of InventoryPage).            *)
THEOREM ScreensNeverGoBack ==
  ASSUME Guarded
  PROVE  Screen!Spec => Screen!ScreenNeverGoesBack
<1>1. ScreenInv /\ [Screen!Next]_(Screen!vars) =>
        [\A t \in Tabs : tab'[t].screen >= tab[t].screen]_(Screen!vars)
  BY ScreensGoOn DEF Keeps, MayBecome
<1> QED
  BY <1>1, ScreensAlways, PTL DEF Screen!Spec, Screen!ScreenNeverGoesBack

(* No tab in the background starts a load, also when the signal came       *)
(* before it was hidden (fire of useRealtimeRefresh).                      *)
THEOREM HiddenTabsAreQuiet == Screen!Spec => Screen!HiddenTabsDoNotLoad
<1>1. ScreenInv /\ [Screen!Next]_(Screen!vars) =>
        [\A t \in Tabs :
           tab[t].hidden /\ tab'[t].hidden =>
             Len(tab'[t].loads) <= Len(tab[t].loads)]_(Screen!vars)
  BY ScreensGoOn DEF Keeps, MayBecome
<1> QED
  BY <1>1, ScreensAlways, PTL DEF Screen!Spec, Screen!HiddenTabsDoNotLoad

(* A screen that numbers its loads is behind only while something is on    *)
(* its way that makes it load, however many signals were taken together    *)
(* and however often its stream broke, when the hub keeps its subscription *)
(* and no load fails; and a tab's own writes do not fill its queue.        *)
THEOREM BehindIsSeen ==
  ASSUME Connected, NothingIsLost
  PROVE  Screen!Spec => []Screen!BehindIsNoticed
<1>1. Screen!Init => ScreenInv /\ FollowInv
  BY ScreensBegin
<1>2. (ScreenInv /\ FollowInv) /\ [Screen!Next]_(Screen!vars) =>
        (ScreenInv /\ FollowInv)'
  BY ScreensGoOn DEF Keeps
<1>3. ScreenInv /\ FollowInv => Screen!BehindIsNoticed
  BY DEF FollowInv, Follows, WillLoad, Ends, Screen!BehindIsNoticed
<1> QED
  BY <1>1, <1>2, <1>3, PTL DEF Screen!Spec

-----------------------------------------------------------------------------
(* Payments and logins: their types                                        *)

LEMMA PayTypesHold ==
  ASSUME Pay!TypeOK, [Pay!Next]_Pay!vars
  PROVE  Pay!TypeOK'
<1> USE ProgressAssumption DEF Pay!BoundsAssumption, Pay!TypeOK, Pay!Request,
      Pay!Idle,
            Pay!invVars, Pay!orderVars, Pay!ppVars, Pay!faultVars
<1>1. CASE UNCHANGED Pay!vars
  BY <1>1 DEF Pay!vars
<1>2. ASSUME NEW i, NEW way \in {"hand", "paypal"}, Pay!MarkPaid(i, way)
      PROVE  /\ status' \in [Invoices -> {"draft", "issued", "paid", "voided"}]
             /\ paidBy' \in [Invoices -> {"none", "hand", "paypal"}]
             /\ link' = link
  BY <1>2 DEF Pay!MarkPaid
<1>3. ASSUME NEW i, Pay!MoveOrders(i)
      PROVE  /\ order' \in [{} -> [status : Pay!OrderStatus,
                          inv : Invoices \cup {NoLink}]]
             /\ moved' \subseteq {}
  BY <1>3 DEF Pay!MoveOrders, Pay!WaitingFor, Pay!OrderStatus
<1>4. ASSUME NEW i \in Invoices, Pay!Issue(i) PROVE Pay!TypeOK'
  BY <1>4 DEF Pay!Issue
<1>5. ASSUME NEW i \in Invoices, Pay!Pay(i) PROVE Pay!TypeOK'
  BY <1>2, <1>3, <1>5 DEF Pay!Pay
<1>7. ASSUME NEW u \in Users,
             NEW step \in {"voiding", "linking", "storing", "confirming",
                            "applying"},
             NEW i \in Invoices \cup {NoLink},
             NEW p \in PPInvoices \cup {NoLink}, Pay!GoOn(u, step, i, p)
      PROVE  req' \in [Users -> Pay!Request({"voiding", "linking", "storing",
                                              "confirming", "applying"})]
  BY <1>7 DEF Pay!GoOn
<1>8. ASSUME NEW u \in Users, Pay!End(u)
      PROVE  req' \in [Users -> Pay!Request({"voiding", "linking", "storing",
                                              "confirming", "applying"})]
  BY <1>8 DEF Pay!End
<1>6. ASSUME NEW i \in Invoices, NEW u \in Users,
             Pay!ReadForVoid(u, i) \/ Pay!ReadForLink(u, i) \/
               Pay!ReadForConfirm(u, i)
      PROVE  Pay!TypeOK'
  <2>1. PICK step \in {"voiding", "linking", "confirming"},
             p \in PPInvoices \cup {NoLink} : Pay!GoOn(u, step, i, p)
    BY <1>6 DEF Pay!ReadForVoid, Pay!ReadForLink, Pay!ReadForConfirm
  <2>2. req' \in [Users -> Pay!Request({"voiding", "linking", "storing",
                                         "confirming", "applying"})]
    BY <2>1, <1>7
  <2> QED
    BY <1>6, <2>2 DEF Pay!ReadForVoid, Pay!ReadForLink, Pay!ReadForConfirm
<1>9. ASSUME NEW u \in Users,
             Pay!Void(u) \/ Pay!LinkIsRefused(u) \/ Pay!StoreLink(u) \/
               Pay!AskStatus(u)
      PROVE  Pay!TypeOK'
  <2>1. req' \in [Users -> Pay!Request({"voiding", "linking", "storing",
                                    "confirming", "applying"})]
    BY <1>9 DEF Pay!Void, Pay!LinkIsRefused, Pay!StoreLink, Pay!AskStatus,
      Pay!GoOn, Pay!End
  <2>2. /\ status' \in [Invoices -> {"draft", "issued", "paid", "voided"}]
        /\ link' \in [Invoices -> PPInvoices \cup {NoLink}]
    BY <1>9 DEF Pay!Void, Pay!LinkIsRefused, Pay!StoreLink, Pay!AskStatus
  <2>3. UNCHANGED <<paidBy, Pay!orderVars, Pay!ppVars, payHook, Pay!faultVars>>
    BY <1>9 DEF Pay!Void, Pay!LinkIsRefused, Pay!StoreLink, Pay!AskStatus
  <2> QED
    BY <2>1, <2>2, <2>3
<1>10. ASSUME NEW u \in Users, Pay!CreateAtPayPal(u) PROVE Pay!TypeOK'
  <2>1. lapses' \in 0..2
    BY <1>10 DEF Pay!CreateAtPayPal
  <2>2. req[u].inv \in Invoices \cup {NoLink}
    OBVIOUS
  <2>3. PICK p \in PPInvoices :
          /\ pp' = [pp EXCEPT ![p] = [state |-> "sent", inv |-> req[u].inv]]
          /\ Pay!GoOn(u, "storing", req[u].inv, p) \/ Pay!End(u)
    BY <1>10 DEF Pay!CreateAtPayPal
  <2>4. req' \in [Users -> Pay!Request({"voiding", "linking", "storing",
                                         "confirming", "applying"})]
    BY <1>7, <1>8, <2>2, <2>3
  <2>5. pp' \in [PPInvoices -> [state : {"unused", "sent", "paid"},
                               inv : Invoices \cup {NoLink}]]
    BY <2>2, <2>3
  <2> QED
    BY <1>10, <2>1, <2>4, <2>5 DEF Pay!CreateAtPayPal
<1>11. ASSUME NEW u \in Users, Pay!ApplyConfirm(u) PROVE Pay!TypeOK'
  BY <1>2, <1>3, <1>11 DEF Pay!ApplyConfirm, Pay!End
<1>12. ASSUME NEW u \in Users, Pay!Fail(u) PROVE Pay!TypeOK'
  BY <1>12 DEF Pay!Fail, Pay!End
<1>13. ASSUME NEW p \in PPInvoices, Pay!CustomerPays(p) PROVE Pay!TypeOK'
  BY <1>13 DEF Pay!CustomerPays
<1>14. ASSUME NEW h \in Hooks, NEW p \in PPInvoices,
              Pay!Receive(h, p) PROVE Pay!TypeOK'
  <2>1. payHook' \in [Hooks -> Pay!Request({"asking", "applying"})]
    BY <1>14 DEF Pay!Receive
  <2>2. events' \subseteq PPInvoices
    BY <1>14 DEF Pay!Receive, Pay!Answer200
  <2> QED
    BY <1>14, <2>1, <2>2 DEF Pay!Receive
<1>15. ASSUME NEW h \in Hooks, Pay!HookApplies(h) PROVE Pay!TypeOK'
  BY <1>2, <1>3, <1>15 DEF Pay!HookApplies, Pay!HookEnds, Pay!Answer200
<1>16. ASSUME NEW h \in Hooks,
              Pay!HookAsks(h) \/ Pay!HookAsksInVain(h) \/ Pay!HookFails(h)
       PROVE  Pay!TypeOK'
  <2>1. CASE Pay!HookAsks(h)
    <3>1. \/ /\ payHook' = [payHook EXCEPT ![h].step = "applying"]
             /\ events' = events
          \/ Pay!Answer200(payHook[h].pp) /\ Pay!HookEnds(h)
      BY <2>1 DEF Pay!HookAsks
    <3>3. /\ payHook' \in [Hooks -> Pay!Request({"asking", "applying"})]
          /\ events' \subseteq PPInvoices
      <4>1. CASE payHook' = [payHook EXCEPT ![h].step = "applying"] /\
                   events' = events
        BY <4>1
      <4>2. CASE Pay!Answer200(payHook[h].pp) /\ Pay!HookEnds(h)
        BY <4>2 DEF Pay!HookEnds, Pay!Answer200
      <4> QED
        BY <3>1, <4>1, <4>2
    <3> QED
      BY <2>1, <3>3 DEF Pay!HookAsks
  <2>2. CASE Pay!HookAsksInVain(h)
    BY <2>2 DEF Pay!HookAsksInVain, Pay!HookEnds, Pay!Answer200
  <2>3. CASE Pay!HookFails(h)
    BY <2>3 DEF Pay!HookFails, Pay!HookEnds
  <2> QED
    BY <1>16, <2>1, <2>2, <2>3
<1>17. ASSUME NEW u \in Users, Pay!UserSteps(u) PROVE Pay!TypeOK'
  BY <1>9, <1>10, <1>11, <1>17 DEF Pay!UserSteps
<1>18. ASSUME NEW h \in Hooks, Pay!HookSteps(h) PROVE Pay!TypeOK'
  BY <1>15, <1>16, <1>18 DEF Pay!HookSteps
<1> HIDE DEF Pay!TypeOK
<1> QED
  BY <1>1, <1>4, <1>5, <1>6, <1>12, <1>13, <1>14, <1>16, <1>17,
     <1>18 DEF Pay!Next

(* Whoever works on a request has one.                                     *)
HasRequest ==
  \A p \in Procs : proc[p].step \in {"poll", "code", "opened", "decide"} =>
    proc[p].id \in Requests

(* A request with too many wrong codes is closed, and others may count on. *)
WrongAreCounted ==
  \A r \in Requests : wrong[r] >= 1 => login[r] = "rejected"

LEMMA LoginTypesHold ==
  ASSUME Login!TypeOK, HasRequest, WrongAreCounted,
         [Login!Next]_Login!vars
  PROVE  Login!TypeOK'
<1> USE ProgressAssumption
    DEF Login!CodesAssumption, Login!LimitsAssumption, Login!TypeOK,
        Login!rows,
            Login!Status, Login!End, Login!At
<1>1. CASE UNCHANGED Login!vars
  BY <1>1 DEF Login!vars
<1>2. Login!Idle \in Login!Process
  BY DEF Login!Idle, Login!Process, Login!Decisions
<1>3. ASSUME NEW r \in Requests, NEW step \in {"poll", "code", "decide"}
      PROVE  \A p : Login!Read(p, r, step) \in Login!Process
  BY <1>3 DEF Login!Read, Login!Idle, Login!Process,
    Login!Decisions
<1>4. ASSUME NEW p \in Procs, Login!CountRequests(p) PROVE Login!TypeOK'
  BY <1>4 DEF Login!CountRequests, Login!Process, Login!Idle,
    Login!Decisions
<1>5. ASSUME NEW p \in Procs, Login!InsertRequest(p) PROVE Login!TypeOK'
  BY <1>2, <1>5 DEF Login!InsertRequest
<1>6. ASSUME NEW p \in Procs, NEW r \in Requests, Login!PollRead(p, r)
      PROVE  Login!TypeOK'
  BY <1>3, <1>6 DEF Login!PollRead
<1>7. ASSUME NEW p \in Procs, NEW r \in Requests, Login!EnterCode(p, r)
      PROVE  Login!TypeOK'
  <2>1. PICK c \in Codes \cup {None} :
          proc' = [proc EXCEPT ![p] = [Login!Read(p, r,
            "code") EXCEPT !.entry = c]]
    BY <1>7 DEF Login!EnterCode
  <2>2. PICK x \in Login!Process : x = Login!Read(p, r, "code")
    BY <1>3
  <2>3. [x EXCEPT !.entry = c] \in Login!Process
    BY DEF Login!Process
  <2> QED
    BY <1>7, <2>1, <2>2, <2>3 DEF Login!EnterCode
<1>8. ASSUME NEW p \in Procs, NEW r \in Requests, Login!BeginDecision(p, r)
      PROVE  Login!TypeOK'
  <2>1. PICK d \in Login!Decisions :
          proc' = [proc EXCEPT ![p] = [Login!Read(p, r,
            "decide") EXCEPT !.decision = d]]
    BY <1>8 DEF Login!BeginDecision
  <2>2. PICK x \in Login!Process : x = Login!Read(p, r, "decide")
    BY <1>3
  <2>3. [x EXCEPT !.decision = d] \in Login!Process
    BY DEF Login!Process
  <2> QED
    BY <1>8, <2>1, <2>2, <2>3 DEF Login!BeginDecision
<1>9. ASSUME NEW p \in Procs,
             \/ Login!PollExpires(p) \/ Login!PollWaits(p)
             \/ Login!PollClosed(p) \/ Login!PollTooLate(p)
      PROVE  Login!TypeOK'
  BY <1>2, <1>9 DEF Login!PollExpires, Login!PollWaits,
    Login!PollClosed, Login!PollTooLate, Login!SendAway
<1>10. ASSUME NEW r \in Requests, Login!LetIn(r)
       PROVE  /\ entered' \in [Requests -> Nat] /\
                   faults' \in 0..1
              /\ machine' \in [Requests -> {"none", "waiting", "in", "out"}]
  <2>1. entered' \in [Requests -> Nat]
    BY <1>10 DEF Login!LetIn
  <2>2. faults' \in 0..1
    BY <1>10 DEF Login!LetIn
  <2>3. machine' \in [Requests -> {"none", "waiting", "in", "out"}]
    BY <1>10 DEF Login!LetIn
  <2> QED
    BY <2>1, <2>2, <2>3
<1>11. ASSUME NEW p \in Procs, Login!PollEnters(p) PROVE Login!TypeOK'
  <2>1. /\ entered' \in [Requests -> Nat] /\ faults' \in 0..1
        /\ machine' \in [Requests -> {"none", "waiting", "in", "out"}]
    BY <1>10, <1>11 DEF Login!PollEnters, Login!SendAway, HasRequest
  <2> QED
    BY <1>2, <1>11, <2>1 DEF Login!PollEnters
<1>12. ASSUME NEW p \in Procs, Login!VerifyCode(p) PROVE Login!TypeOK'
  <2>1. [proc[p] EXCEPT !.step = "opened"] \in Login!Process
    BY DEF Login!Process
  <2> QED
    BY <1>12, <2>1 DEF Login!VerifyCode
<1>13. ASSUME NEW p \in Procs, Login!WrongCode(p) PROVE Login!TypeOK'
  <2>1. /\ wrong' \in [Requests -> 0..1]
        /\ login' \in [Requests -> Login!Status]
    <3>1. proc[p].id \in Requests
      BY <1>13 DEF Login!WrongCode, HasRequest
    <3>2. login[proc[p].id] = "pending" =>
            wrong[proc[p].id] + 1 \in 0..1
      BY <3>1 DEF WrongAreCounted
    <3> QED
      BY <1>13, <3>1, <3>2 DEF Login!WrongCode, Login!CountWrong
  <2> QED
    BY <1>2, <1>13, <2>1 DEF Login!WrongCode
<1>14. ASSUME NEW p \in Procs, Login!OpenByCode(p) PROVE Login!TypeOK'
  <2>1. proc[p].id \in Requests
    BY <1>14 DEF Login!OpenByCode, HasRequest
  <2> QED
    BY <1>2, <1>10, <1>14, <2>1 DEF Login!OpenByCode
<1>15. ASSUME NEW p \in Procs,
              Login!OpenTooLate(p) \/ Login!DecideNothing(p)
       PROVE  Login!TypeOK'
  BY <1>2, <1>15 DEF Login!OpenTooLate, Login!GiveBack,
    Login!DecideNothing
<1>16. ASSUME NEW p \in Procs, Login!Decide(p) PROVE Login!TypeOK'
  BY <1>2, <1>16 DEF Login!Decide
<1>17. ASSUME NEW p \in Procs, Login!Fail(p) PROVE Login!TypeOK'
  BY <1>2, <1>17 DEF Login!Fail
<1>18. ASSUME NEW r \in Requests,
              Login!AskAdmin(r) \/ Login!TimePasses(r)
       PROVE  Login!TypeOK'
  BY <1>18 DEF Login!AskAdmin, Login!TimePasses
<1>19. CASE Login!NewCodes \/ Login!ExpireLoginRequests \/
              Login!Deactivate
  BY <1>19 DEF Login!NewCodes, Login!ExpireLoginRequests,
    Login!Deactivate
<1>20. ASSUME NEW p \in Procs, Login!Step(p) PROVE Login!TypeOK'
  BY <1>5, <1>9, <1>11, <1>12, <1>13, <1>14, <1>15, <1>16, <1>20
    DEF Login!Step
<1> HIDE DEF Login!TypeOK
<1> QED
  BY <1>1, <1>4, <1>6, <1>7, <1>8, <1>17, <1>18, <1>19, <1>20 DEF Login!Next

(* What the process of a handler becomes, and those of others stay.        *)
LEMMA Processes ==
  ASSUME Login!TypeOK, [Login!Next]_Login!vars, NEW p \in Procs
  PROVE  \/ proc'[p] = proc[p]
         \/ proc'[p] = Login!Idle
         \/ proc'[p].step = "insert"
         \/ proc'[p].id \in Requests /\
              proc'[p].step \in {"poll", "code", "decide"}
         \/ Login!VerifyCode(p)
<1> USE DEF Login!TypeOK, Login!Process,
      Login!At, Login!End
<1>1. CASE proc' = proc
  BY <1>1
<1>2. ASSUME NEW q \in Procs, Login!End(q)
      PROVE  proc'[p] = proc[p] \/ proc'[p] = Login!Idle
  BY <1>2
<1>3. ASSUME NEW q \in Procs, Login!CountRequests(q)
      PROVE  proc'[p] = proc[p] \/ proc'[p].step = "insert"
  BY <1>3 DEF Login!CountRequests, Login!Idle
<1>4. ASSUME NEW q \in Procs, NEW r \in Requests, NEW x,
             x.id = r, x.step \in {"poll", "code", "decide"},
             proc' = [proc EXCEPT ![q] = x]
      PROVE  \/ proc'[p] = proc[p]
             \/ proc'[p].id \in Requests /\
                  proc'[p].step \in {"poll", "code", "decide"}
  BY <1>4
<1>5. ASSUME NEW q \in Procs, NEW r \in Requests,
             Login!PollRead(q, r) \/ Login!EnterCode(q, r) \/
               Login!BeginDecision(q, r)
      PROVE  \E x : /\ x.id = r /\ x.step \in {"poll", "code", "decide"}
                    /\ proc' = [proc EXCEPT ![q] = x]
  BY <1>5 DEF Login!PollRead, Login!EnterCode, Login!BeginDecision,
    Login!Read, Login!Idle
<1>6. ASSUME NEW q \in Procs, Login!VerifyCode(q)
      PROVE  proc'[p] = proc[p] \/ Login!VerifyCode(p)
  BY <1>6 DEF Login!VerifyCode
<1>7. ASSUME NEW q \in Procs, Login!Step(q) \/ Login!Fail(q)
      PROVE  Login!VerifyCode(q) \/ Login!End(q)
  BY <1>7 DEF Login!Step, Login!Fail, Login!InsertRequest,
    Login!PollExpires, Login!PollWaits, Login!PollClosed,
    Login!PollEnters, Login!PollTooLate, Login!WrongCode,
    Login!OpenByCode, Login!OpenTooLate, Login!Decide,
    Login!DecideNothing
<1> QED
  BY <1>1, <1>2, <1>3, <1>4, <1>5, <1>6, <1>7
  DEF Login!Next, Login!vars, Login!AskAdmin, Login!TimePasses,
    Login!NewCodes, Login!ExpireLoginRequests, Login!Deactivate

LEMMA RequestsStayNamed ==
  ASSUME Login!TypeOK, HasRequest, [Login!Next]_Login!vars
  PROVE  HasRequest'
<1> SUFFICES ASSUME NEW p \in Procs,
                    proc'[p].step \in {"poll", "code", "opened", "decide"}
             PROVE  proc'[p].id \in Requests
  BY DEF HasRequest
<1>1. CASE Login!VerifyCode(p)
  BY <1>1 DEF Login!VerifyCode, Login!At, HasRequest, Login!TypeOK,
    Login!Process
<1> QED
  BY <1>1, Processes DEF HasRequest, Login!Idle

LEMMA WrongStayCounted ==
  ASSUME Login!TypeOK, HasRequest, WrongAreCounted, [Login!Next]_Login!vars
  PROVE  WrongAreCounted'
<1> USE DEF Login!TypeOK, WrongAreCounted, Login!rows
<1>1. ASSUME NEW p \in Procs, Login!WrongCode(p) PROVE WrongAreCounted'
  <2>1. proc[p].id \in Requests
    BY <1>1 DEF Login!WrongCode, Login!At, HasRequest
  <2> QED
    BY <1>1, <2>1 DEF Login!WrongCode, Login!CountWrong
<1>2. ASSUME NEW p \in Procs, Login!InsertRequest(p) PROVE WrongAreCounted'
  BY <1>2 DEF Login!InsertRequest
<1>3. ASSUME NEW p \in Procs,
             Login!PollExpires(p) \/ Login!PollEnters(p)
      PROVE  WrongAreCounted'
  BY <1>3 DEF Login!PollExpires, Login!PollEnters, Login!StillApproved
<1>4. ASSUME NEW p \in Procs, Login!OpenByCode(p) \/ Login!Decide(p)
      PROVE  WrongAreCounted'
  BY <1>4 DEF Login!OpenByCode, Login!StillPending, Login!Decide,
    Login!Decidable
<1>5. CASE Login!ExpireLoginRequests
  BY <1>5 DEF Login!ExpireLoginRequests
<1>6. CASE wrong' = wrong /\ login' = login
  BY <1>6
<1> QED
  BY <1>1, <1>2, <1>3, <1>4, <1>5, <1>6
  DEF Login!Next, Login!vars, Login!Step, Login!CountRequests,
    Login!PollRead, Login!EnterCode, Login!BeginDecision, Login!Fail,
    Login!AskAdmin, Login!TimePasses, Login!NewCodes, Login!Deactivate,
    Login!PollWaits, Login!PollClosed, Login!PollTooLate, Login!VerifyCode,
    Login!OpenTooLate, Login!DecideNothing

-----------------------------------------------------------------------------
(* Uploads of new suppliers: their types                                   *)

(* The two files, and the names and times in them.                         *)
LEMMA Files ==
  /\ DOMAIN NewNames = {"f1", "f2"}
  /\ Import!PostingsIn("f1") = {Post(1, 1), Post(2, 1), Post(3, 1)}
  /\ Import!PostingsIn("f2") = {Post(2, 1), Post(1, 1), Post(1, 2)}
  /\ Import!NamesIn("f1") = {1, 2, 3} /\ Import!NamesIn("f2") = {1, 2}
  /\ Import!Times = {1, 2} /\ Import!Names = {1, 2, 3}
<1>1. DOMAIN NewNames = {"f1", "f2"}
  BY DEF NewNames
<1>2. /\ NewNames["f1"] = <<Post(1, 1), Post(2, 1), Post(3, 1)>>
      /\ NewNames["f2"] = <<Post(2, 1), Post(1, 1), Post(1, 2)>>
  BY DEF NewNames
<1>3. \A x, y, z : {<<x, y, z>>[i] : i \in DOMAIN <<x, y, z>>} = {x, y, z}
  <2> TAKE x, y, z
  <2>1. DOMAIN <<x, y, z>> = {1, 2, 3}
    OBVIOUS
  <2> QED
    BY <2>1
<1>4. /\ Import!PostingsIn("f1") = {Post(1, 1), Post(2, 1), Post(3, 1)}
      /\ Import!PostingsIn("f2") = {Post(2, 1), Post(1, 1), Post(1, 2)}
  BY <1>2, <1>3 DEF Import!PostingsIn
<1>5. \A n, t : Post(n, t).name = n /\ Post(n, t).time = t
  BY DEF Post
<1>6. Import!NamesIn("f1") = {1, 2, 3} /\ Import!NamesIn("f2") = {1, 2}
  BY <1>4, <1>5 DEF Import!NamesIn
<1>7. Import!Posted = Import!PostingsIn("f1") \cup Import!PostingsIn("f2")
  BY <1>1 DEF Import!Posted
<1>8. Import!Times = {1, 2} /\ Import!Names = {1, 2, 3}
  BY <1>4, <1>5, <1>7 DEF Import!Times, Import!Names
<1> QED
  BY <1>1, <1>4, <1>6, <1>8

(* A name that is still to be registered is one of the file's.             *)
LEMMA FirstIsToDo ==
  ASSUME NEW f \in DOMAIN NewNames, NEW S \in SUBSET Import!NamesIn(f), S # {}
  PROVE  Import!FirstInFile(f, S) \in S
<1> DEFINE P == NewNames[f]
           IsFirst(i) == /\ P[i].name \in S
                         /\ \A j \in 1..(i - 1) : P[j].name \notin S
<1>1. /\ DOMAIN P = 1..3
      /\ \A n \in Import!NamesIn(f) : \E i \in 1..3 : P[i].name = n
  BY Files DEF NewNames, Post
<1>2. \E i \in 1..3 : IsFirst(i)
  <2> HIDE DEF P
  <2>1. PICK k \in 1..3 : P[k].name \in S
    BY <1>1
  <2>2. 1..0 = {} /\ 1..1 = {1} /\ 1..2 = {1, 2} /\ 1..3 = {1, 2, 3}
    OBVIOUS
  <2>3. CASE P[1].name \in S
    BY <2>2, <2>3
  <2>4. CASE P[1].name \notin S /\ P[2].name \in S
    BY <2>2, <2>4
  <2>5. CASE P[1].name \notin S /\ P[2].name \notin S
    BY <2>1, <2>2, <2>5
  <2> QED
    BY <2>3, <2>4, <2>5
<1> DEFINE first == CHOOSE i \in 1..3 : IsFirst(i)
<1>3. IsFirst(first)
  <2> HIDE DEF IsFirst
  <2> QED
    BY <1>2
<1>4. Import!FirstInFile(f, S) = P[first].name
  BY <1>1 DEF Import!FirstInFile
<1> QED
  BY <1>3, <1>4

(* The newest posting of a name is in the file.                            *)
LEMMA NewestIsPosted ==
  ASSUME NEW f \in DOMAIN NewNames, NEW n \in Import!NamesIn(f)
  PROVE  Import!NewestIn(f, n) \in Import!Times
<1> DEFINE Newest(t) == /\ [name |-> n, time |-> t] \in Import!PostingsIn(f)
                        /\ \A p \in Import!PostingsIn(f) :
                             p.name = n => p.time <= t
<1>1. \E t \in Import!Times : Newest(t)
  <2>1. CASE f = "f2" /\ n = 1
    <3>1. Newest(2)
      BY <2>1, Files DEF Post
    <3> QED
      BY <3>1, Files
  <2>2. CASE ~ (f = "f2" /\ n = 1)
    <3>1. Newest(1)
      BY <2>2, Files DEF Post
    <3> QED
      BY <3>1, Files
  <2> QED
    BY <2>1, <2>2
<1> HIDE DEF Newest
<1>2. (CHOOSE t \in Import!Times : Newest(t)) \in Import!Times
  BY <1>1
<1> QED
  BY <1>2 DEF Newest, Import!NewestIn

LEMMA LeastIsIn ==
  ASSUME NEW S \in SUBSET (1..5), S # {}
  PROVE  Import!Smallest(S) \in S
<1> DEFINE Least(x) == \A y \in S : x <= y
<1>1. \E x \in S : Least(x)
  <2>1. ASSUME NEW x \in S, \A y \in 1..5 : y < x => y \notin S
        PROVE  Least(x)
    <3> TAKE y \in S
    <3>1. ~ (y < x)
      BY <2>1
    <3> QED
      BY <3>1
  <2>2. S \subseteq {1, 2, 3, 4, 5}
    <3>1. \A x \in 1..5 : x \in {1, 2, 3, 4, 5}
      OBVIOUS
    <3> QED
      BY <3>1
  <2>3. CASE 1 \in S
    BY <2>1, <2>3
  <2>4. CASE 1 \notin S /\ 2 \in S
    BY <2>1, <2>4
  <2>5. CASE 1 \notin S /\ 2 \notin S /\ 3 \in S
    BY <2>1, <2>5
  <2>6. CASE 1 \notin S /\ 2 \notin S /\ 3 \notin S /\ 4 \in S
    BY <2>1, <2>6
  <2>7. CASE S = {5}
    BY <2>1, <2>7
  <2> QED
    BY <2>2, <2>3, <2>4, <2>5, <2>6, <2>7
<1> HIDE DEF Least
<1>2. (CHOOSE x \in S : Least(x)) \in S
  BY <1>1
<1> QED
  BY <1>2 DEF Least, Import!Smallest

(* An upload registers and writes names of its file, has one to register   *)
(* while it registers, and a channel while it waits for its lock.          *)
UploadsAreSane ==
  \A u \in Uploads :
    /\ todo[u] \subseteq Import!NamesIn(file[u])
    /\ entries[u] \subseteq Import!NamesIn(file[u])
    /\ at[u] = "registering" => todo[u] # {}
    /\ at[u] = "locking" => entries[u] # {} /\ target[u] # 0

UploadsInv == Import!TypeOK /\ UploadsAreSane

Tx ==
  [named : SUBSET Import!Names, held : SUBSET (1..5),
   made : SUBSET Import!Channel, wrote : SUBSET Import!Message,
   closed : SUBSET Import!Message]

TxsAreApart ==
  \A u, v \in Uploads : u # v =>
    tx[u].held \cap tx[v].held = {} /\ tx[u].named \cap tx[v].named = {}

LEMMA NamesOfFiles ==
  ASSUME Import!TypeOK, NEW u \in Uploads
  PROVE  /\ file[u] \in DOMAIN NewNames
         /\ Import!NamesIn(file[u]) \subseteq Import!Names
         /\ Import!Names \subseteq 1..5
BY Files DEF Import!TypeOK

(* The transaction of one upload changes, and locks nothing that another   *)
(* one has locked.                                                         *)
LEMMA TxChanges ==
  ASSUME Import!TypeOK, NEW u \in Uploads, NEW new \in Tx,
         tx' = [tx EXCEPT ![u] = new],
         \A v \in Uploads : v # u =>
           /\ (new.held \ tx[u].held) \cap tx[v].held = {}
           /\ (new.named \ tx[u].named) \cap tx[v].named = {}
  PROVE  tx' \in [Uploads -> Tx] /\ TxsAreApart'
<1>1. tx \in [Uploads -> Tx] /\ TxsAreApart
  BY DEF Import!TypeOK, Tx, TxsAreApart
<1>2. tx' \in [Uploads -> Tx]
  BY <1>1
<1>3. ASSUME NEW v \in Uploads, v # u
      PROVE  new.held \cap tx[v].held = {} /\ new.named \cap tx[v].named = {}
  BY <1>1, <1>3 DEF TxsAreApart
<1> QED
  BY <1>1, <1>2, <1>3 DEF TxsAreApart

LEMMA EmptyIsTx == Import!EmptyTx \in Tx
BY DEF Import!EmptyTx, Tx

LEMMA UploadStarts ==
  ASSUME UploadsInv, NEW u \in Uploads, Import!Start(u) \/ Import!StartAgain(u)
  PROVE  UploadsInv'
<1> USE DEF UploadsInv, UploadsAreSane, Import!TypeOK
<1>1. CASE Import!Start(u)
  <2>1. /\ Import!UnknownOf(file[u]) \subseteq Import!NamesIn(file[u])
        /\ Import!NamesIn(file[u]) \subseteq Import!Names
    BY NamesOfFiles DEF Import!UnknownOf
  <2>2. Import!TypeOK'
    BY <1>1, <2>1 DEF Import!Start
  <2>3. UploadsAreSane'
    BY <1>1, <2>1 DEF Import!Start
  <2> QED
    BY <2>2, <2>3
<1>2. CASE Import!StartAgain(u)
  BY <1>2 DEF Import!StartAgain
<1> QED
  BY <1>1, <1>2

LEMMA UploadRegisters ==
  ASSUME UploadsInv, NEW u \in Uploads, NEW id \in 1..5,
         Import!Register(u, id)
  PROVE  UploadsInv'
<1> DEFINE n == Import!FirstInFile(file[u], todo[u])
           new == [tx[u] EXCEPT !.named = tx[u].named \cup {n},
                     !.made = tx[u].made \cup {[id |-> id, name |-> n]}]
<1>1. n \in todo[u] /\ n \in Import!Names
  BY FirstIsToDo, NamesOfFiles
  DEF UploadsInv, UploadsAreSane, Import!Register, Import!TypeOK
<1>2. new \in Tx /\ new.held = tx[u].held /\ new.named = tx[u].named \cup {n}
  <2> HIDE DEF n
  <2>1. tx[u] \in Tx /\ [id |-> id, name |-> n] \in Import!Channel
    BY <1>1 DEF UploadsInv, Import!TypeOK, Tx, Import!Channel
  <2> QED
    BY <1>1, <2>1 DEF Tx
<1>3. tx' = [tx EXCEPT ![u] = new]
  BY DEF UploadsInv, Import!TypeOK, Import!Register
<1>4. \A v \in Uploads : v # u => n \notin tx[v].named
  BY DEF Import!Register, Import!WaitsFor
<1> HIDE DEF new
<1>5. tx' \in [Uploads -> Tx] /\ TxsAreApart'
  <2> HIDE DEF n
  <2>1. ASSUME NEW v \in Uploads, v # u
        PROVE  /\ (new.held \ tx[u].held) \cap tx[v].held = {}
               /\ (new.named \ tx[u].named) \cap tx[v].named = {}
    BY <1>2, <1>4, <2>1
  <2> QED
    BY <1>2, <1>3, <2>1, TxChanges DEF UploadsInv
<1>6. /\ todo' = [todo EXCEPT ![u] = todo[u] \ {n}]
      /\ at' = [at EXCEPT ![u] = IF todo[u] = {n} THEN "writing"
                                 ELSE "registering"]
      /\ UNCHANGED <<suppliers, channels, messages, shown, imports, file,
                     entries, target, aborts>>
  BY DEF Import!Register, UploadsInv, Import!TypeOK
<1> HIDE DEF n
<1>7. Import!TypeOK'
  BY <1>5, <1>6 DEF UploadsInv, Import!TypeOK, Tx, TxsAreApart
<1>8. UploadsAreSane'
  BY <1>1, <1>6
  DEF UploadsInv, UploadsAreSane, Import!TypeOK
<1> QED
  BY <1>7, <1>8 DEF UploadsInv

LEMMA UploadPicks ==
  ASSUME UploadsInv, NEW u \in Uploads, Import!Pick(u)
  PROVE  UploadsInv'
<1> DEFINE S == Import!ChannelsOf(u, Import!NextEntry(u))
<1>1. S \in SUBSET (1..5) /\ S # {}
  BY DEF UploadsInv, Import!TypeOK, Import!Pick, Import!ChannelsOf,
    Import!Channel
<1>2. Import!Smallest(S) \in 1..5
  <2> HIDE DEF S
  <2> QED
    BY <1>1, LeastIsIn
<1>3. /\ target' = [target EXCEPT ![u] = Import!Smallest(S)]
      /\ at' = [at EXCEPT ![u] = "locking"] /\ entries[u] # {}
      /\ UNCHANGED <<suppliers, channels, messages, shown, imports, file, todo,
                     entries, tx, aborts>>
  BY DEF Import!Pick
<1> HIDE DEF S
<1>4. Import!TypeOK'
  BY <1>2, <1>3 DEF UploadsInv, Import!TypeOK
<1>5. UploadsAreSane'
  BY <1>2, <1>3
  DEF UploadsInv, UploadsAreSane, Import!TypeOK
<1> QED
  BY <1>4, <1>5 DEF UploadsInv

LEMMA NextIsEntry ==
  ASSUME UploadsInv, NEW u \in Uploads, entries[u] # {}
  PROVE  /\ Import!NextEntry(u) \in entries[u]
         /\ Import!NextEntry(u) \in Import!NamesIn(file[u])
         /\ Import!NextEntry(u) \in Import!Names
<1>1. entries[u] \in SUBSET (1..5)
  BY NamesOfFiles DEF UploadsInv, UploadsAreSane
<1>2. Import!NextEntry(u) \in entries[u]
  BY <1>1, LeastIsIn DEF Import!NextEntry
<1> QED
  BY <1>2, NamesOfFiles DEF UploadsInv, UploadsAreSane

LEMMA ChannelIsCreated ==
  ASSUME UploadsInv, NEW u \in Uploads, NEW id \in 1..5,
         Import!CreateChannel(u, id)
  PROVE  UploadsInv'
<1> DEFINE c == [id |-> id, name |-> Import!NextEntry(u)]
           new == [tx[u] EXCEPT !.made = tx[u].made \cup {c}]
<1>1. c \in Import!Channel /\ entries[u] # {}
  BY NextIsEntry DEF Import!CreateChannel, Import!Channel
<1>2. /\ new \in Tx
      /\ new.held = tx[u].held /\ new.named = tx[u].named
  <2> HIDE DEF c
  <2>1. tx[u] \in Tx
    BY DEF UploadsInv, Import!TypeOK, Tx
  <2> QED
    BY <1>1, <2>1 DEF Tx
<1>3. /\ tx' = [tx EXCEPT ![u] = new]
      /\ target' = [target EXCEPT ![u] = id]
      /\ at' = [at EXCEPT ![u] = "locking"]
      /\ UNCHANGED <<suppliers, channels, messages, shown, imports, file, todo,
                     entries, aborts>>
  BY DEF UploadsInv, Import!TypeOK, Import!CreateChannel
<1> HIDE DEF new, c
<1>4. tx' \in [Uploads -> Tx] /\ TxsAreApart'
  BY <1>2, <1>3, TxChanges DEF UploadsInv
<1>5. Import!TypeOK'
  BY <1>3, <1>4 DEF UploadsInv, Import!TypeOK, Tx, TxsAreApart
<1>6. UploadsAreSane'
  BY <1>1, <1>3
  DEF UploadsInv, UploadsAreSane, Import!TypeOK
<1> QED
  BY <1>5, <1>6 DEF UploadsInv

LEMMA MessageIsWritten ==
  ASSUME UploadsInv, NEW u \in Uploads, target[u] # 0,
         NEW m \in Import!Message
  PROVE  /\ Import!Written(u, m) \in Tx
         /\ Import!Written(u, m).held = tx[u].held \cup {target[u]}
         /\ Import!Written(u, m).named = tx[u].named
<1> DEFINE over == {o \in Import!ActiveSeenBy(u) : o[1] = m[1]}
<1>1. /\ tx[u] \in Tx /\ target[u] \in 1..5
  BY DEF UploadsInv, Import!TypeOK, Tx
<1>2. over \subseteq Import!Message
  BY <1>1 DEF UploadsInv, Import!TypeOK, Import!ActiveSeenBy, Tx
<1> HIDE DEF over
<1>3. PICK x \in Tx : x = tx[u]
  BY <1>1
<1>4. [x EXCEPT !.held = @ \cup {target[u]}] \in Tx
  BY <1>1 DEF Tx
<1>5. [x EXCEPT !.held = @ \cup {target[u]}, !.wrote = @ \cup {m},
                !.closed = @ \cup over] \in Tx
  BY <1>1, <1>2 DEF Tx
<1>6. \/ Import!Written(u, m) = [x EXCEPT !.held = @ \cup {target[u]}]
      \/ Import!Written(u, m) =
           [x EXCEPT !.held = @ \cup {target[u]}, !.wrote = @ \cup {m},
                     !.closed = @ \cup over]
  BY <1>3 DEF Import!Written, over
<1> QED
  BY <1>3, <1>4, <1>5, <1>6 DEF Tx

LEMMA UploadStores ==
  ASSUME UploadsInv, NEW u \in Uploads, Import!Store(u)
  PROVE  UploadsInv'
<1> DEFINE n == Import!NextEntry(u)
           m == <<target[u], Import!NewestIn(file[u], n)>>
           new == Import!Written(u, m)
<1>1. entries[u] # {} /\ target[u] # 0 /\ target[u] \in 1..5
  BY DEF UploadsInv, UploadsAreSane, Import!TypeOK, Import!Store
<1>2. m \in Import!Message
  <2>1. Import!NewestIn(file[u], n) \in Import!Times
    BY <1>1, NextIsEntry, NamesOfFiles, NewestIsPosted DEF UploadsInv
  <2> QED
    BY <1>1, <2>1 DEF Import!Message
<1>3. /\ tx' = [tx EXCEPT ![u] = new]
      /\ entries' = [entries EXCEPT ![u] = entries[u] \ {n}]
      /\ target' = [target EXCEPT ![u] = 0]
      /\ at' = [at EXCEPT ![u] = "writing"]
      /\ UNCHANGED <<suppliers, channels, messages, shown, imports, file, todo,
                     aborts>>
  BY DEF UploadsInv, Import!TypeOK, Import!Store
<1>4. \A v \in Uploads : v # u => target[u] \notin tx[v].held
  BY DEF Import!Store, Import!WaitsFor
<1> HIDE DEF m, n
<1>5. new \in Tx /\ new.held = tx[u].held \cup {target[u]}
                 /\ new.named = tx[u].named
  BY <1>1, <1>2, MessageIsWritten
<1> HIDE DEF new
<1>6. tx' \in [Uploads -> Tx] /\ TxsAreApart'
  <2>1. ASSUME NEW v \in Uploads, v # u
        PROVE  /\ (new.held \ tx[u].held) \cap tx[v].held = {}
               /\ (new.named \ tx[u].named) \cap tx[v].named = {}
    BY <1>4, <1>5, <2>1
  <2> QED
    BY <1>3, <1>5, <2>1, TxChanges DEF UploadsInv
<1>7. Import!TypeOK'
  BY <1>3, <1>6 DEF UploadsInv, Import!TypeOK, Tx, TxsAreApart
<1>8. UploadsAreSane'
  BY <1>3
  DEF UploadsInv, UploadsAreSane, Import!TypeOK
<1> QED
  BY <1>7, <1>8 DEF UploadsInv

LEMMA UploadCommits ==
  ASSUME UploadsInv, NEW u \in Uploads, Import!Commit(u)
  PROVE  UploadsInv'
<1>1. tx[u] \in Tx
  BY DEF UploadsInv, Import!TypeOK, Tx
<1>2. /\ suppliers' \subseteq Import!Names
      /\ channels' \subseteq Import!Channel
      /\ messages' \subseteq Import!Message /\ shown' \subseteq messages'
  BY <1>1 DEF UploadsInv, Import!TypeOK, Import!Commit, Import!StoredSeenBy,
    Import!ActiveSeenBy, Tx
<1>3. tx' = [tx EXCEPT ![u] = Import!EmptyTx]
  BY DEF Import!Commit
<1>4. tx' \in [Uploads -> Tx] /\ TxsAreApart'
  <2>1. Import!EmptyTx.held = {} /\ Import!EmptyTx.named = {}
    BY DEF Import!EmptyTx
  <2> QED
    BY <1>3, <2>1, EmptyIsTx, TxChanges DEF UploadsInv
<1>5. /\ imports' \in [DOMAIN NewNames -> Nat]
      /\ at' = [at EXCEPT ![u] = "done"]
      /\ UNCHANGED <<file, todo, entries, target, aborts>>
  BY DEF UploadsInv, Import!TypeOK, Import!Commit
<1>6. Import!TypeOK'
  BY <1>2, <1>4, <1>5 DEF UploadsInv, Import!TypeOK, Tx, TxsAreApart
<1>7. UploadsAreSane'
  BY <1>5
  DEF UploadsInv, UploadsAreSane, Import!TypeOK
<1> QED
  BY <1>6, <1>7 DEF UploadsInv

LEMMA UploadIsVictim ==
  ASSUME UploadsInv, NEW u \in Uploads, Import!Victim(u) \/ Import!Abort(u)
  PROVE  UploadsInv'
<1>1. ~ Import!Abort(u)
  BY DEF UploadsInv, Import!TypeOK, Import!Abort
<1>2. /\ tx' = [tx EXCEPT ![u] = Import!EmptyTx]
      /\ todo' = [todo EXCEPT ![u] = {}]
      /\ entries' = [entries EXCEPT ![u] = {}]
      /\ target' = [target EXCEPT ![u] = 0]
      /\ at' = [at EXCEPT ![u] = "done"]
      /\ UNCHANGED <<suppliers, channels, messages, shown, imports, file,
                     aborts>>
  BY <1>1 DEF Import!Victim, Import!RollBack
<1>3. tx' \in [Uploads -> Tx] /\ TxsAreApart'
  <2>1. Import!EmptyTx.held = {} /\ Import!EmptyTx.named = {}
    BY DEF Import!EmptyTx
  <2> QED
    BY <1>2, <2>1, EmptyIsTx, TxChanges DEF UploadsInv
<1>4. Import!TypeOK'
  BY <1>2, <1>3 DEF UploadsInv, Import!TypeOK, Tx, TxsAreApart
<1>5. UploadsAreSane'
  BY <1>2
  DEF UploadsInv, UploadsAreSane, Import!TypeOK
<1> QED
  BY <1>4, <1>5 DEF UploadsInv

LEMMA UploadsGoOn == UploadsInv /\ [Import!Next]_Import!vars => UploadsInv'
<1> SUFFICES ASSUME UploadsInv, [Import!Next]_Import!vars
             PROVE  UploadsInv'
  OBVIOUS
<1>1. CASE UNCHANGED Import!vars
  BY <1>1
  DEF UploadsInv, UploadsAreSane, Import!TypeOK, Import!vars
<1> QED
  BY <1>1, UploadStarts, UploadRegisters, UploadPicks, ChannelIsCreated,
    UploadStores, UploadCommits, UploadIsVictim
  DEF Import!Next, Import!Step

LEMMA UploadsBegin == Import!Init => UploadsInv
<1> SUFFICES ASSUME Import!Init PROVE UploadsInv
  OBVIOUS
<1>1. channels = {}
  BY DEF Import!Init
<1>2. tx \in [Uploads -> Tx] /\ TxsAreApart
  BY EmptyIsTx DEF Import!Init, TxsAreApart, Import!EmptyTx
<1>3. Import!TypeOK
  BY <1>1, <1>2, Files DEF Import!Init, Import!TypeOK, Tx, TxsAreApart
<1> QED
  BY <1>3 DEF Import!Init, UploadsInv, UploadsAreSane

-----------------------------------------------------------------------------
(* Viewers: the theorems of ViewerAccounts hold here, too                  *)

Viewers == INSTANCE ViewerAccountsProofs
             WITH Accounts <- {Dora}, Members <- {Lea}, Codes <- ViewerCodes,
                  Channels <- Rooms, Handlers <- {Bot}, Requests <- {Signup},
                  MaxFaults <- 0, code <- viewerCode

LEMMA SameViewers ==
  /\ Viewers!ViewerAccountsAssumption
  /\ Watch!Init => Viewers!Init
  /\ [Watch!Next]_Watch!vars => [Viewers!Next]_Viewers!vars
  /\ Viewers!TypeOK => Watch!TypeOK
<1>1. Viewers!ViewerAccountsAssumption
  BY ProgressAssumption
  DEF Watch!ViewerAccountsAssumption, Viewers!ViewerAccountsAssumption
<1>2. Watch!Init => Viewers!Init
  BY DEF Watch!Init, Viewers!Init, Watch!NoViewer, Viewers!NoViewer,
    Watch!NoCode, Viewers!NoCode, Watch!NoChannel, Viewers!NoChannel,
    Watch!Idle, Viewers!Idle, Watch!Quiet, Viewers!Quiet
<1>3. Viewers!TypeOK => Watch!TypeOK
  BY DEF Watch!TypeOK, Viewers!TypeOK, Watch!Viewer, Viewers!Viewer,
    Watch!Code, Viewers!Code, Watch!Channel, Viewers!Channel,
    Watch!Interaction, Viewers!Interaction, Watch!Request, Viewers!Request
<1>4. \A a :
        /\ \A c : Watch!Apply(a, c) => Viewers!Apply(a, c)
        /\ \A s : Watch!Register(a, s) => Viewers!Register(a, s)
        /\ \A w, c :
             /\ Watch!ApplyAgain(w, a, c) => Viewers!ApplyAgain(w, a, c)
             /\ Watch!Reissue(w, a, c) => Viewers!Reissue(w, a, c)
  <2>1. \A a, c : Watch!Apply(a, c) => Viewers!Apply(a, c)
    BY DEF Watch!Apply, Viewers!Apply, Watch!NewCode, Viewers!NewCode,
      Watch!locks, Viewers!locks
  <2>2. \A a, s : Watch!Register(a, s) => Viewers!Register(a, s)
    BY DEF Watch!Register, Viewers!Register, Watch!locks, Viewers!locks
  <2>3. \A w, a, c : Watch!ApplyAgain(w, a, c) => Viewers!ApplyAgain(w, a, c)
    BY DEF Watch!ApplyAgain, Viewers!ApplyAgain, Watch!NewCode,
      Viewers!NewCode, Watch!Begin, Viewers!Begin, Watch!Quiet, Viewers!Quiet,
      Watch!locks, Viewers!locks
  <2>4. \A w, a, c : Watch!Reissue(w, a, c) => Viewers!Reissue(w, a, c)
    BY DEF Watch!Reissue, Viewers!Reissue, Watch!NewCode, Viewers!NewCode,
      Watch!Begin, Viewers!Begin, Watch!Quiet, Viewers!Quiet,
      Watch!MayGetCode, Viewers!MayGetCode
  <2> QED
    BY <2>1, <2>2, <2>3, <2>4
<1>5. \A a :
        /\ Watch!Suspend(a) => Viewers!Suspend(a)
        /\ Watch!Unsuspend(a) => Viewers!Unsuspend(a)
        /\ Watch!Activate(a) => Viewers!Activate(a)
        /\ Watch!Extend(a) => Viewers!Extend(a)
        /\ Watch!GetsOld(a) => Viewers!GetsOld(a)
        /\ Watch!PurgeRow(a) => Viewers!PurgeRow(a)
        /\ \A h, m : Watch!OpenRoom(h, m, a) => Viewers!OpenRoom(h, m, a)
  <2>1. \A a : Watch!Suspend(a) => Viewers!Suspend(a)
    BY DEF Watch!Suspend, Viewers!Suspend, Watch!locks, Viewers!locks
  <2>2. \A a : Watch!Unsuspend(a) => Viewers!Unsuspend(a)
    BY DEF Watch!Unsuspend, Viewers!Unsuspend, Watch!locks, Viewers!locks
  <2>3. \A a : Watch!Activate(a) => Viewers!Activate(a)
    BY DEF Watch!Activate, Viewers!Activate, Watch!locks, Viewers!locks
  <2>4. \A a : Watch!Extend(a) => Viewers!Extend(a)
    BY DEF Watch!Extend, Viewers!Extend, Watch!locks, Viewers!locks
  <2>5. \A a : Watch!GetsOld(a) => Viewers!GetsOld(a)
    BY DEF Watch!GetsOld, Viewers!GetsOld, Watch!locks, Viewers!locks
  <2>6. \A a : Watch!PurgeRow(a) => Viewers!PurgeRow(a)
    BY DEF Watch!PurgeRow, Viewers!PurgeRow, Watch!tables, Viewers!tables
  <2>7. \A h, m, a : Watch!OpenRoom(h, m, a) => Viewers!OpenRoom(h, m, a)
    BY DEF Watch!OpenRoom, Viewers!OpenRoom, Watch!Idle, Viewers!Idle,
      Watch!tables, Viewers!tables, Watch!locks, Viewers!locks
  <2> QED
    BY <2>1, <2>2, <2>3, <2>4, <2>5, <2>6, <2>7
<1>6. /\ \A x : Watch!Ends(x) <=> Viewers!Ends(x)
      /\ Watch!Mishap <=> Viewers!Mishap
      /\ Watch!NoMishap <=> Viewers!NoMishap
      /\ \A a : Watch!LiveCodes(a) = Viewers!LiveCodes(a)
      /\ Watch!Doomed = Viewers!Doomed
      /\ \A w : Watch!Holders(w) = Viewers!Holders(w)
      /\ \A r : Watch!NewChannel(r) <=> Viewers!NewChannel(r)
      /\ Watch!Orphans = Viewers!Orphans
      /\ Watch!Idle = Viewers!Idle /\ Watch!Quiet = Viewers!Quiet
  BY DEF Watch!Ends, Viewers!Ends, Watch!RowsWithout, Viewers!RowsWithout,
    Watch!CodesWithout, Viewers!CodesWithout, Watch!Mishap, Viewers!Mishap,
    Watch!NoMishap, Viewers!NoMishap, Watch!LiveCodes, Viewers!LiveCodes,
    Watch!Live, Viewers!Live, Watch!Doomed, Viewers!Doomed,
    Watch!Holders, Viewers!Holders, Watch!NewChannel, Viewers!NewChannel,
    Watch!Orphans, Viewers!Orphans, Watch!Idle, Viewers!Idle, Watch!Quiet,
    Viewers!Quiet
<1>7. \A x : Watch!InCircle(x) <=> Viewers!InCircle(x)
  BY DEF Watch!InCircle, Viewers!InCircle, Watch!WaitsFor, Viewers!WaitsFor,
    Watch!Doomed, Viewers!Doomed, Watch!Holders, Viewers!Holders,
    Watch!LiveCodes, Viewers!LiveCodes, Watch!Live, Viewers!Live
<1>8. \A x : Watch!Abort(x) => Viewers!Abort(x)
  BY <1>6, <1>7 DEF Watch!Abort, Viewers!Abort, Watch!tables, Viewers!tables
<1>9. \A w :
        /\ Watch!DeleteCodes(w) => Viewers!DeleteCodes(w)
        /\ Watch!InsertCode(w) => Viewers!InsertCode(w)
        /\ Watch!RequestFails(w) => Viewers!RequestFails(w)
  BY <1>6 DEF Watch!DeleteCodes, Viewers!DeleteCodes, Watch!InsertCode,
    Viewers!InsertCode, Watch!RequestFails, Viewers!RequestFails,
    Watch!tables, Viewers!tables
<1>10. \A h :
         /\ \A m, c : Watch!EnterCode(h, m, c) => Viewers!EnterCode(h, m, c)
         /\ Watch!TakeRow(h) => Viewers!TakeRow(h)
         /\ Watch!MakeRoom(h) => Viewers!MakeRoom(h)
         /\ Watch!CommitTrial(h) => Viewers!CommitTrial(h)
         /\ Watch!Discard(h) => Viewers!Discard(h)
         /\ Watch!SaveRoom(h) => Viewers!SaveRoom(h)
  <2>1. \A h, m, c : Watch!EnterCode(h, m, c) => Viewers!EnterCode(h, m, c)
    BY <1>6 DEF Watch!EnterCode, Viewers!EnterCode, Watch!Awaited,
      Viewers!Awaited, Watch!tables, Viewers!tables
  <2>2. \A h : Watch!TakeRow(h) => Viewers!TakeRow(h)
    BY <1>6 DEF Watch!TakeRow, Viewers!TakeRow, Watch!Startable,
      Viewers!Startable, Watch!tables, Viewers!tables
  <2>3. \A h : Watch!MakeRoom(h) => Viewers!MakeRoom(h)
    BY <1>6 DEF Watch!MakeRoom, Viewers!MakeRoom, Watch!tables,
      Viewers!tables, Watch!locks, Viewers!locks
  <2>4. \A h : Watch!CommitTrial(h) => Viewers!CommitTrial(h)
    BY <1>6 DEF Watch!CommitTrial, Viewers!CommitTrial, Watch!Linked,
      Viewers!Linked, Watch!tables, Viewers!tables
  <2>5. \A h : Watch!Discard(h) => Viewers!Discard(h)
    BY <1>6 DEF Watch!Discard, Viewers!Discard, Watch!tables, Viewers!tables,
      Watch!locks, Viewers!locks
  <2>6. \A h : Watch!SaveRoom(h) => Viewers!SaveRoom(h)
    BY <1>6 DEF Watch!SaveRoom, Viewers!SaveRoom, Watch!locks, Viewers!locks
  <2> QED
    BY <2>1, <2>2, <2>3, <2>4, <2>5, <2>6
<1>11. /\ Watch!PurgeEnds => Viewers!PurgeEnds
       /\ Watch!ReadRooms => Viewers!ReadRooms
       /\ Watch!BotDies => Viewers!BotDies
       /\ \A r : /\ Watch!DeleteRoom(r) => Viewers!DeleteRoom(r)
                 /\ Watch!RemoveByHand(r) => Viewers!RemoveByHand(r)
  BY <1>6 DEF Watch!PurgeEnds, Viewers!PurgeEnds, Watch!ReadRooms,
    Viewers!ReadRooms, Watch!BotDies, Viewers!BotDies, Watch!DeleteRoom,
    Viewers!DeleteRoom, Watch!RemoveByHand, Viewers!RemoveByHand,
    Watch!NoViewer, Viewers!NoViewer,
    Watch!locks, Viewers!locks, Watch!tables, Viewers!tables
<1>12. Watch!Next => Viewers!Next
  BY <1>4, <1>5, <1>8, <1>9, <1>10, <1>11
  DEF Watch!Next, Viewers!Next, Watch!HandlerStep, Viewers!HandlerStep,
    Watch!RequestStep, Viewers!RequestStep
<1> QED
  BY <1>1, <1>2, <1>3, <1>12 DEF Watch!vars, Viewers!vars

-----------------------------------------------------------------------------
(* The types of all parts                                                  *)

ProgressVars == <<part, vars, payVars, loginVars, screenVars, importVars,
                  viewerVars>>

(* Whichever part runs, each part takes its own steps only.                *)
LEMMA ProgressRuns ==
  Progress => /\ Init /\ [][Next]_vars
              /\ Pay!Init /\ [][Pay!Next]_(Pay!vars)
              /\ Login!Init /\ [][Login!Next]_(Login!vars)
              /\ Screen!Init /\ [][Screen!Next]_(Screen!vars)
              /\ Import!Init /\ [][Import!Next]_(Import!vars)
              /\ Viewers!Init /\ [][Viewers!Next]_(Viewers!vars)
<1>1. InitOfPart => /\ Init /\ Pay!Init /\ Login!Init /\ Screen!Init
                    /\ Import!Init /\ Viewers!Init
  BY SameViewers DEF InitOfPart
<1>2. [NextOfPart]_ProgressVars => [Next]_vars
  BY DEF NextOfPart, ProgressVars, Disputing, Paying, LoggingIn, Watching,
    Importing, Joining, vars
<1>3. [NextOfPart]_ProgressVars => [Pay!Next]_(Pay!vars)
  BY DEF NextOfPart, ProgressVars, Disputing, Paying, LoggingIn, Watching,
    Importing, Joining, payVars, Pay!vars, Pay!invVars, Pay!orderVars,
    Pay!ppVars, Pay!faultVars
<1>4. [NextOfPart]_ProgressVars => [Login!Next]_(Login!vars)
  BY DEF NextOfPart, ProgressVars, Disputing, Paying, LoggingIn, Watching,
    Importing, Joining, loginVars, Login!vars
<1>5. [NextOfPart]_ProgressVars => [Screen!Next]_(Screen!vars)
  BY DEF NextOfPart, ProgressVars, Disputing, Paying, LoggingIn, Watching,
    Importing, Joining, screenVars, Screen!vars
<1>6. [NextOfPart]_ProgressVars => [Import!Next]_(Import!vars)
  BY DEF NextOfPart, ProgressVars, Disputing, Paying, LoggingIn, Watching,
    Importing, Joining, importVars, Import!vars
<1>7. [NextOfPart]_ProgressVars => [Viewers!Next]_(Viewers!vars)
  <2>1. [NextOfPart]_ProgressVars => [Watch!Next]_(Watch!vars)
    BY DEF NextOfPart, ProgressVars, Disputing, Paying, LoggingIn, Watching,
      Importing, Joining, viewerVars, Watch!vars
  <2> QED
    BY <2>1, SameViewers
<1> QED
  BY <1>1, <1>2, <1>3, <1>4, <1>5, <1>6, <1>7, PTL DEF Progress, ProgressVars

LoginInv == Login!TypeOK /\ HasRequest /\ WrongAreCounted

LEMMA LoginsBegin == Login!Init => LoginInv
BY ProgressAssumption
DEF Login!Init, LoginInv, Login!TypeOK, HasRequest, WrongAreCounted,
  Login!Idle, Login!Process, Login!Status, Login!Decisions

LEMMA LoginsGoOn == LoginInv /\ [Login!Next]_(Login!vars) => LoginInv'
BY LoginTypesHold, RequestsStayNamed, WrongStayCounted DEF LoginInv

LEMMA PaymentsBegin == Pay!Init => Pay!TypeOK
BY ProgressAssumption
DEF Pay!Init, Pay!TypeOK, Pay!Request, Pay!Idle, Pay!BoundsAssumption,
  Pay!OrderStatus

(* Every variable keeps its type, in every part: the uploads of new        *)
(* suppliers hold no name and no channel together, no request takes more   *)
(* than its wrong codes, and no queue of a tab is longer than it may be.   *)
THEOREM ProgressTypes == Progress => []TypesOK
<1>1. /\ InitOfPart => part \in Parts
      /\ part \in Parts /\ [NextOfPart]_ProgressVars => (part \in Parts)'
  BY DEF InitOfPart, NextOfPart, ProgressVars
<1>2. DisputeInv /\ [Next]_vars => DisputeInv'
  BY DisputesGoOn
<1>3. Pay!TypeOK /\ [Pay!Next]_(Pay!vars) => Pay!TypeOK'
  BY PayTypesHold
<1>4. LoginInv /\ [Login!Next]_(Login!vars) => LoginInv'
  BY LoginsGoOn
<1>5. ScreenInv /\ [Screen!Next]_(Screen!vars) => ScreenInv'
  BY ScreensGoOn DEF Keeps
<1>6. UploadsInv /\ [Import!Next]_(Import!vars) => UploadsInv'
  BY UploadsGoOn
<1>7. Viewers!Spec => []Viewers!TypeOK
  BY SameViewers, Viewers!TypeCorrect
<1>8. Screen!Init => ScreenInv
  BY ScreensBegin
<1>9. /\ part \in Parts /\ DisputeInv /\ Pay!TypeOK /\ LoginInv /\ ScreenInv
      /\ UploadsInv /\ Viewers!TypeOK
      => TypesOK
  BY SameViewers DEF TypesOK, DisputeInv, LoginInv, ScreenInv, UploadsInv
<1>10. Progress => [](part \in Parts)
  BY <1>1, PTL DEF Progress, ProgressVars
<1> QED
  BY <1>2, <1>3, <1>4, <1>5, <1>6, <1>7, <1>8, <1>9, <1>10, ProgressRuns,
    DisputesBegin, PaymentsBegin, LoginsBegin, UploadsBegin, PTL
  DEF Viewers!Spec

=============================================================================
