--------------------------- MODULE RealtimeSignals ---------------------------
(***************************************************************************)
(* Signals that data has changed, and the screens that load it again       *)
(* (ADR-1016): a write commits, a task publishes a signal to Redis, the    *)
(* hub of the process puts it into the queue of every connection, the tab  *)
(* reads it from its stream, waits a moment and loads.                     *)
(*   src/backend/app/middleware/realtime.py, realtime/publisher.py,        *)
(*   realtime/hub.py, routers/realtime_events.py;                          *)
(*   src/frontend/src/lib/realtime/RealtimeProvider.tsx,                   *)
(*   src/frontend/src/hooks/useRealtimeRefresh.ts and the pages.           *)
(*                                                                         *)
(* One topic, and the tabs of one user, all of them addressed by it.  A    *)
(* signal carries no data, only the tab it came from, so the data is the   *)
(* number of writes committed and a screen shows one such number.          *)
(***************************************************************************)
EXTENDS Naturals, Sequences, SequencesExt, FiniteSets

CONSTANTS
    Tabs,
    Others,      \* the origin of writes by other users and by background tasks
    OwnWrites,   \* whether the tabs write, too
    Connected,   \* whether the tabs start with their first stream open
    Guarded,     \* whether the page numbers its loads (InventoryPage) or not
                 \* (NoticeBell)
    QueueMax,    \* _QUEUE_MAX
    MaxConn,     \* MAX_CONN_PER_USER
    MaxWrites,   \* bound: writes
    MaxInFlight, \* bound: loads of one tab that are not answered
    MaxHides,    \* bound: times a tab goes to the background
    MaxDrops,    \* bound: streams that break
    MaxOutages,  \* bound: times the hub loses Redis, or a signal is not sent
    MaxErrors    \* bound: loads that fail

BoundsAssumption ==
    /\ {QueueMax, MaxConn, MaxInFlight} \subseteq Nat \ {0}
    /\ {MaxWrites, MaxHides, MaxDrops, MaxOutages, MaxErrors} \subseteq Nat
    /\ {OwnWrites, Connected, Guarded} \subseteq BOOLEAN
    /\ Others \notin Tabs

VARIABLES
    version,     \* writes committed
    unsent,      \* origins of the writes whose signal has not been published:
                 \* how many of each
    subscribed,  \* the hub listens to Redis
    ghosts,      \* streams that broke and whose slot the server still counts
    tab,         \* what each tab and its connection hold
    used         \* how much of the bounds is used up

vars == <<version, unsent, subscribed, ghosts, tab, used>>

Origins == Tabs \cup {Others}
NotRead == MaxWrites + 1

Tab == [link    : {"up", "down"},
        ever    : BOOLEAN,                \* everConnected
        queue   : Seq(Origins),           \* Connection.queue
        timer   : BOOLEAN,                \* the debounce timer is set
        hidden  : BOOLEAN,                \* document.hidden
        pending : BOOLEAN,
        loads   : Seq(0..NotRead),        \* in the order they were sent; what
                                          \* the server has read for each
        screen  : 0..MaxWrites]

TypeOK ==
    /\ version \in 0..MaxWrites
    /\ unsent \in [Origins -> 0..MaxWrites]
    /\ subscribed \in BOOLEAN
    /\ ghosts \in 0..MaxDrops
    /\ tab \in [Tabs -> Tab]
    /\ \A t \in Tabs :
          /\ Len(tab[t].queue) <= QueueMax
          /\ Len(tab[t].loads) <= MaxInFlight
    /\ used \in [hides : 0..MaxHides, drops : 0..MaxDrops,
                 outages : 0..MaxOutages, errors : 0..MaxErrors]

\* The pages have loaded once.
Init ==
    /\ version = 0
    /\ unsent = [o \in Origins |-> 0]
    /\ subscribed = TRUE
    /\ ghosts = 0
    /\ tab = [t \in Tabs |->
                 [link |-> IF Connected THEN "up" ELSE "down", ever |-> Connected,
                  queue |-> <<>>, timer |-> FALSE, hidden |-> FALSE,
                  pending |-> FALSE, loads |-> <<>>, screen |-> 0]]
    /\ used = [hides |-> 0, drops |-> 0, outages |-> 0, errors |-> 0]

Spend(what) == used' = [used EXCEPT ![what] = @ + 1]

-----------------------------------------------------------------------------
(* The server.                                                             *)

\* The page sends a load; only so many are on their way.
Loading(r) == [r EXCEPT !.loads = Append(@, NotRead)]
MayLoad(t) == Len(tab[t].loads) < MaxInFlight

\* A write is committed and answered with 2xx; the middleware leaves its signal
\* to a task.  The page that wrote loads by itself.
Write(o) ==
    /\ version < MaxWrites
    /\ o # Others => OwnWrites /\ MayLoad(o) /\ ~tab[o].hidden
    /\ version' = version + 1
    /\ unsent' = [unsent EXCEPT ![o] = @ + 1]
    /\ tab' = IF o = Others THEN tab ELSE [tab EXCEPT ![o] = Loading(@)]
    /\ UNCHANGED <<subscribed, ghosts, used>>

\* put_nowait; the signal is dropped when the queue is full.
Put(q, o) == IF Len(q) < QueueMax THEN Append(q, o) ELSE q

\* The task publishes, and the hub, if it listens, hands the signal to every
\* connection.  Redis keeps nothing for one that does not listen.
Publish(o) ==
    /\ unsent[o] > 0
    /\ unsent' = [unsent EXCEPT ![o] = @ - 1]
    /\ tab' = [t \in Tabs |-> IF subscribed /\ tab[t].link = "up"
                              THEN [tab[t] EXCEPT !.queue = Put(@, o)]
                              ELSE tab[t]]
    /\ UNCHANGED <<version, subscribed, ghosts, used>>

\* Redis does not take the signal: it is logged and lost.
PublishFails(o) ==
    /\ unsent[o] > 0
    /\ used.outages < MaxOutages
    /\ unsent' = [unsent EXCEPT ![o] = @ - 1]
    /\ Spend("outages")
    /\ UNCHANGED <<version, subscribed, ghosts, tab>>

\* The subscription of the hub breaks, and is made again some seconds later.
HubLoses ==
    /\ subscribed
    /\ used.outages < MaxOutages
    /\ subscribed' = FALSE
    /\ Spend("outages")
    /\ UNCHANGED <<version, unsent, ghosts, tab>>

HubSubscribes ==
    /\ ~subscribed
    /\ subscribed' = TRUE
    /\ UNCHANGED <<version, unsent, ghosts, tab, used>>

\* Mutant of Freed: _release is not reached when the stream has broken.
FreedNever(n) == n

\* A stream that broke gives back its slot.
Freed(n) == n - 1

\* The stream is found broken at the next signal or ping.
ServerNotices ==
    /\ ghosts > 0
    /\ ghosts' = Freed(ghosts)
    /\ UNCHANGED <<version, unsent, subscribed, tab, used>>

-----------------------------------------------------------------------------
(* The stream as the tab sees it.                                          *)

Slots == ghosts + Cardinality({t \in Tabs : tab[t].link = "up"})

\* A stream that is opened again may have missed signals.
Reconnected(r) == r.timer \/ r.ever

\* The stream is opened; a refused one (503) is tried again later.
Connect(t) ==
    /\ tab[t].link = "down"
    /\ Slots < MaxConn
    /\ tab' = [tab EXCEPT ![t] = [@ EXCEPT !.link = "up", !.ever = TRUE,
                                           !.timer = Reconnected(tab[t])]]
    /\ UNCHANGED <<version, unsent, subscribed, ghosts, used>>

\* The stream breaks, with what was queued for it.
Drop(t) ==
    /\ tab[t].link = "up"
    /\ used.drops < MaxDrops
    /\ tab' = [tab EXCEPT ![t] = [@ EXCEPT !.link = "down", !.queue = <<>>]]
    /\ ghosts' = ghosts + 1
    /\ Spend("drops")
    /\ UNCHANGED <<version, unsent, subscribed>>

\* A signal arrives; the tab ignores its own and waits before it loads, so that
\* signals of the same moment are taken together.
Receive(t) ==
    /\ tab[t].link = "up"
    /\ tab[t].queue # <<>>
    /\ LET r == tab[t]
       IN  tab' = [tab EXCEPT ![t] =
                      [r EXCEPT !.queue = Tail(r.queue),
                                !.timer = r.timer \/ Head(r.queue) # t]]
    /\ UNCHANGED <<version, unsent, subscribed, ghosts, used>>

\* fire: the page loads, in the background it remembers to.
Fired(r) ==
    IF r.hidden THEN [r EXCEPT !.timer = FALSE, !.pending = TRUE]
    ELSE [Loading(r) EXCEPT !.timer = FALSE, !.pending = FALSE]

Fire(t) ==
    /\ tab[t].timer
    /\ MayLoad(t)
    /\ tab' = [tab EXCEPT ![t] = Fired(@)]
    /\ UNCHANGED <<version, unsent, subscribed, ghosts, used>>

\* The user puts the tab into the background, and back.
Hide(t) ==
    /\ ~tab[t].hidden
    /\ used.hides < MaxHides
    /\ tab' = [tab EXCEPT ![t].hidden = TRUE]
    /\ Spend("hides")
    /\ UNCHANGED <<version, unsent, subscribed, ghosts>>

Show(t) ==
    /\ tab[t].hidden
    /\ MayLoad(t)
    /\ LET r == [tab[t] EXCEPT !.hidden = FALSE, !.pending = FALSE]
       IN  tab' = [tab EXCEPT ![t] = IF @.pending THEN Loading(r) ELSE r]
    /\ UNCHANGED <<version, unsent, subscribed, ghosts, used>>

-----------------------------------------------------------------------------
(* The loads: requests of their own, read and answered in any order.       *)

LoadReads(t, i) ==
    /\ tab[t].loads[i] = NotRead
    /\ tab' = [tab EXCEPT ![t].loads[i] = version]
    /\ UNCHANGED <<version, unsent, subscribed, ghosts, used>>

\* Whether an answer is shown: with numbered loads only that of the last one
\* sent.
Kept(r, i) == Guarded => i = Len(r.loads)

\* What remains to wait for: nothing that is older than an answer shown.
Rest(loads, i) == IF Guarded /\ i = Len(loads) THEN <<>> ELSE RemoveAt(loads, i)

LoadAnswers(t, i) ==
    /\ tab[t].loads[i] # NotRead
    /\ LET r == tab[t]
       IN  tab' = [tab EXCEPT ![t] =
                      [r EXCEPT !.loads = Rest(r.loads, i),
                                !.screen = IF Kept(r, i) THEN r.loads[i]
                                           ELSE r.screen]]
    /\ UNCHANGED <<version, unsent, subscribed, ghosts, used>>

\* The screen stays as it is.
LoadFails(t, i) ==
    /\ used.errors < MaxErrors
    /\ tab' = [tab EXCEPT ![t].loads = Rest(@, i)]
    /\ Spend("errors")
    /\ UNCHANGED <<version, unsent, subscribed, ghosts>>

Server == \/ \E o \in Origins : Publish(o)
          \/ HubSubscribes
          \/ ServerNotices

Client(t) == \/ Connect(t)
             \/ Receive(t)
             \/ Fire(t)
             \/ \E i \in DOMAIN tab[t].loads : LoadReads(t, i) \/ LoadAnswers(t, i)

Next ==
    \/ Server
    \/ HubLoses
    \/ \E o \in Origins : Write(o) \/ PublishFails(o)
    \/ \E t \in Tabs :
          \/ Client(t)
          \/ Drop(t)
          \/ Hide(t)
          \/ Show(t)
          \/ \E i \in DOMAIN tab[t].loads : LoadFails(t, i)

Spec == Init /\ [][Next]_vars

\* Tasks of the server run, the hub subscribes again, a ping finds a broken
\* stream, and a tab retries its stream, reads it, fires its timer and gets the
\* answers of its loads.  Nobody needs to write, to break anything or to look
\* at a tab.
Fairness ==
    /\ \A o \in Origins : WF_vars(Publish(o))
    /\ WF_vars(HubSubscribes)
    /\ WF_vars(ServerNotices)
    /\ \A t \in Tabs :
          /\ WF_vars(Connect(t))
          /\ WF_vars(Receive(t))
          /\ WF_vars(Fire(t))
          /\ \A i \in 1..MaxInFlight :
                WF_vars(i \in DOMAIN tab[t].loads
                        /\ (LoadReads(t, i) \/ LoadAnswers(t, i)))

LiveSpec == Spec /\ Fairness

-----------------------------------------------------------------------------
\* When the writes are over, a tab the user looks at shows the last of them:
\* ADR-1016, "the screen loads again when a write has succeeded", with signals
\* taken together, tabs in the background and streams that break.
ScreenCatchesUp ==
    \A t \in Tabs : <>[](tab[t].hidden \/ tab[t].screen = version)

\* A screen never goes back to older data: answers of loads that overtake each
\* other (loadSeqRef of InventoryPage).
ScreenNeverGoesBack ==
    [][\A t \in Tabs : tab'[t].screen >= tab[t].screen]_vars

\* No tab in the background starts a load, also when the signal came before it
\* was hidden (ADR-1016, decision 7).
HiddenTabsDoNotLoad ==
    [][\A t \in Tabs : tab[t].hidden /\ tab'[t].hidden =>
                          Len(tab'[t].loads) <= Len(tab[t].loads)]_vars

\* A screen is behind only while something is on its way to it that makes it
\* load: a signal, a timer, a load, or the stream that is opened again.
BehindIsNoticed ==
    \A t \in Tabs : tab[t].screen < version =>
        \/ \E o \in Origins \ {t} : unsent[o] > 0
        \/ \E i \in DOMAIN tab[t].queue : tab[t].queue[i] # t
        \/ tab[t].timer \/ tab[t].pending
        \/ tab[t].loads # <<>>
        \/ tab[t].link = "down" /\ tab[t].ever
=============================================================================
