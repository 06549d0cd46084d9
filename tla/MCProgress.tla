----------------------------- MODULE MCProgress -----------------------------
(***************************************************************************)
(* What must happen in the end, for TLC: PayPal's events of disputes       *)
(* (PayPalDisputes) and of payments (InvoicePayment), logins that wait for *)
(* approval (LoginApproval), screens that follow the data (RealtimeSignals)*)
(* uploads that may wait for each other (LineImport), and the purge of     *)
(* viewers, their codes and their joining, which may too (ViewerAccounts). *)
(*                                                                         *)
(* A behaviour is one of the part it begins with, and the others rest in   *)
(* their initial state.  In it no action that is to be fair is possible,   *)
(* except that an upload could start: its fairness names its part.         *)
(***************************************************************************)
EXTENDS PayPalDisputes, Sequences, TLC

CONSTANTS
  Invoices, PPInvoices, NoLink, Users,       \* of InvoicePayment
  Requests, Codes, Procs, None,              \* of LoginApproval
  Tabs, Others, OwnWrites, Connected, Guarded, QueueMax, MaxConn, MaxWrites,
  MaxInFlight, MaxHides, MaxDrops, MaxOutages, MaxLost,  \* of RealtimeSignals
  Uploads,                                   \* of LineImport
  Dora, Lea, ViewerCodes, Rooms, Bot, Signup, Purge   \* of ViewerAccounts

VARIABLES
  part,
  status, link, paidBy, order, pp, events, req, payHook, moved, late, lapses,
  mute, edits,
  login, via, wrong, asked, expired, code, usedFor, active, machine, entered,
  proc, faults,
  version, unsent, subscribed, ghosts, tab, used,
  suppliers, channels, messages, shown, imports, at, file, todo, entries,
  target, tx, aborts,
  viewer, viewerCode, rowBy, codeBy, channel, bot, web, purging, strays, mishaps

payVars == <<status, link, paidBy, order, pp, events, req, payHook, moved,
             late, lapses, mute, edits>>
loginVars == <<login, via, wrong, asked, expired, code, usedFor, active,
               machine, entered, proc, faults>>
screenVars == <<version, unsent, subscribed, ghosts, tab, used>>
importVars == <<suppliers, channels, messages, shown, imports, at, file, todo,
                entries, target, tx, aborts>>
viewerVars == <<viewer, viewerCode, rowBy, codeBy, channel, bot, web, purging,
                strays, mishaps>>

(* Two disputes of two tenants out of three.                               *)
CONSTANTS d1, d2
TwoOwners == d1 :> 1 @@ d2 :> 3

(* Two new names in two files, in different orders; the third supplier was *)
(* registered, but its channel is gone.                                    *)
Post(n, t) == [name |-> n, time |-> t]
NewNames ==
  [f1 |-> <<Post(1, 1), Post(2, 1), Post(3, 1)>>,
   f2 |-> <<Post(2, 1), Post(1, 1), Post(1, 2)>>]

Pay == INSTANCE InvoicePayment
         WITH Orders <- {}, MaxLapses <- 2, MaxMute <- 1, MaxEdits <- 0,
              hook <- payHook
Login == INSTANCE LoginApproval
           WITH FirstCodes <- Codes, HourlyLimit <- 1, MaxWrong <- 1,
                MaxFaults <- 1, status <- login, late <- expired
Screen == INSTANCE RealtimeSignals
            WITH MaxErrors <- MaxLost
Import == INSTANCE LineImport
            WITH Files <- DOMAIN NewNames, Postings <- NewNames,
                 Known <- {3}, Channelless <- {3}, ChannelIds <- 1..5,
                 MaxAborts <- 0, stored <- messages, active <- shown
Watch == INSTANCE ViewerAccounts
           WITH Accounts <- {Dora}, Members <- {Lea}, Codes <- ViewerCodes,
                Channels <- Rooms, Handlers <- {Bot}, Requests <- {Signup},
                MaxFaults <- 0, code <- viewerCode

ASSUME ProgressAssumption ==
  /\ Pay!NoLinkAssumption /\ Pay!BoundsAssumption
  /\ Login!CodesAssumption /\ Login!LimitsAssumption
  /\ Screen!BoundsAssumption /\ Import!ImportAssumption
  /\ Watch!ViewerAccountsAssumption

Parts == {"disputes", "payments", "logins", "screens", "imports", "viewers"}

InitOfPart ==
  /\ part \in Parts
  /\ Init /\ Pay!Init /\ Login!Init /\ Screen!Init /\ Import!Init
  /\ Watch!Init
  /\ part # "imports" => \A u \in Uploads : file[u] = "f1"

Disputing ==
  Next /\ UNCHANGED <<payVars, loginVars, screenVars, importVars, viewerVars>>
Paying ==
  Pay!Next /\ UNCHANGED <<vars, loginVars, screenVars, importVars, viewerVars>>
LoggingIn ==
  Login!Next /\ UNCHANGED <<vars, payVars, screenVars, importVars, viewerVars>>
Watching ==
  Screen!Next /\ UNCHANGED <<vars, payVars, loginVars, importVars, viewerVars>>
Importing ==
  Import!Next /\ UNCHANGED <<vars, payVars, loginVars, screenVars, viewerVars>>
Joining ==
  Watch!Next /\ UNCHANGED <<vars, payVars, loginVars, screenVars, importVars>>

NextOfPart ==
  /\ UNCHANGED part
  /\ \/ part = "disputes" /\ Disputing
     \/ part = "payments" /\ Paying
     \/ part = "logins" /\ LoggingIn
     \/ part = "screens" /\ Watching
     \/ part = "imports" /\ Importing
     \/ part = "viewers" /\ Joining

(* Uploads run to their end, and PostgreSQL looks for deadlocks.           *)
ImportsAreFair ==
  /\ \A u \in Uploads : WF_importVars(part = "imports" /\ Import!Step(u))
  /\ WF_importVars(\E u \in Uploads : Import!Victim(u))

Progress ==
  /\ InitOfPart
  /\ [][NextOfPart]_<<part, vars, payVars, loginVars, screenVars, importVars,
                      viewerVars>>
  /\ Fairness /\ Pay!Fairness /\ Login!Fairness /\ Screen!Fairness
  /\ ImportsAreFair /\ Watch!TransactionsGoOn

-----------------------------------------------------------------------------
(* Every variable of the part that runs has its type.                      *)
TypesOK ==
  /\ part \in Parts
  /\ part = "disputes" => TypeOK
  /\ part = "payments" => Pay!TypeOK
  /\ part = "logins" => Login!TypeOK
  /\ part = "screens" => Screen!TypeOK
  /\ part = "imports" => Import!TypeOK
  /\ part = "viewers" => Watch!TypeOK

(* PayPal sends its events until they are answered: every event of a       *)
(* dispute is stored, before it is answered, at its own tenant only, and   *)
(* the event of the linked PayPal invoice is not lost, although requests   *)
(* fail a few times; but it is answered, and lost, where the webhook asks  *)
(* PayPal back and gets no answer (PayPalDisputes, InvoicePayment).        *)
EventsAreHeard ==
  /\ EveryEventIsStored
  /\ [](AnsweredAfterStored /\ ShownToItsTenant)
  /\ Pay!EventsSettle

(* When the writes are over, a tab the user looks at shows the last of     *)
(* them; a screen never goes back to older data, and a tab in the          *)
(* background does not load: with signals taken together, loads that       *)
(* overtake each other and streams that break (RealtimeSignals, ADR-1016). *)
ScreensFollow ==
  /\ Screen!ScreenCatchesUp
  /\ Screen!ScreenNeverGoesBack
  /\ Screen!HiddenTabsDoNotLoad
  /\ []Screen!BehindIsNoticed

(* No login that waits for approval stays open and no machine waits for    *)
(* ever (LoginApproval), and every upload ends, also those that wait for   *)
(* each other in a circle (LineImport).  Nor do the purge of viewers, the  *)
(* replacing of their codes and their joining wait for each other for ever *)
(* (ViewerAccounts).                                                       *)
WaitsEnd ==
  /\ Login!RequestsEnd
  /\ \A u \in Uploads : <>[](part = "imports" => at[u] = "done")
  /\ Watch!TransactionsEnd

=============================================================================
