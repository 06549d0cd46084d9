----------------------------- MODULE MCContacts -----------------------------
(***************************************************************************)
(* People outside, for TLC: messages that customers write to the page on   *)
(* Messenger or Instagram (Inbox), rooms in Discord that nobody came to    *)
(* own (StaffJoin), and viewers of the stock (ViewerAccounts).             *)
(*                                                                         *)
(* A behaviour is one of the part it begins with, and the others rest in   *)
(* their initial state, where no action that is to be fair is possible.    *)
(***************************************************************************)
EXTENDS ViewerAccounts, Sequences, TLC

CONSTANTS
  Ann, Bob, Deliveries,                                   \* of Inbox
  Hello, Again, Order,              \* Ann writes two messages, Bob one
  Reply, Note,                      \* the page writes to Ann, and to Bob
  Invites, Emails, Guests, Procs, Sweepers,               \* of StaffJoin
  Dora, Emil, Mia, Bot, Bot2, Signup2  \* some of ViewerAccounts' own

VARIABLES
  part,
  serial, leads, owner, meta, conv, accepted, task, send, hurt, known,
  removals, failures,
  invite, users, discord, room, link, lock, sweep, people, faults

inboxVars == <<serial, leads, owner, meta, conv, accepted, task, send, hurt,
               known, removals, failures>>
roomVars == <<invite, users, discord, room, link, lock, sweep, people, faults>>

(* An entry with an echo before a message for each of the two customers,   *)
(* and a first message of its own.                                         *)
Of == Hello :> Ann @@ Again :> Ann @@ Reply :> Ann @@ Order :> Bob @@ Note :> Bob
Entries == {<<Hello>>, <<Reply, Again>>, <<Note, Order>>}

Mail == INSTANCE Inbox
          WITH Senders <- {Ann, Bob}, Instagram <- {Bob},
               Inbound <- {Hello, Again, Order}, Outbound <- {Reply, Note},
               SenderOf <- Of, Batches <- Entries, Operators <- {},
               MaxLeads <- 4, MaxRemovals <- 2, MaxFailures <- 1
Room == INSTANCE StaffJoin
          WITH Members <- Guests, Rooms <- Channels, SlowLinks <- FALSE,
               MaxKeys <- 2, MaxFaults <- 1

ASSUME ContactsAssumption ==
  /\ Mail!InboxAssumption /\ Room!StaffJoinAssumption
  /\ {Dora, Emil} \subseteq Accounts /\ Mia \in Members
  /\ {Bot, Bot2} \subseteq Handlers /\ Signup2 \in Requests

(* One account, with two sign-ups and two codes entered at once; one       *)
(* account, with one of each and a failure; two accounts and one member.   *)
OnlyDora == viewer'[Emil].status = "none"
OnlyLea == \A h \in Handlers : bot'[h].member # Mia
ViewersOfPart ==
  \/ part = "signups" /\ OnlyDora /\ UNCHANGED mishaps
  \/ /\ part = "failures" /\ OnlyDora /\ OnlyLea
     /\ web'[Signup2].at = "idle" /\ bot'[Bot2].at = "idle"
  \/ /\ part = "accounts" /\ OnlyLea /\ UNCHANGED <<web, mishaps>>
     /\ \A a \in Accounts :
          ~ viewer'[a].old /\ viewer'[a].status # "suspended"

Contacts ==
  /\ part \in {"inbox", "rooms", "signups", "failures", "accounts"}
  /\ Mail!Init /\ Room!Init /\ Init
  /\ [][/\ UNCHANGED part
        /\ \/ part = "inbox" /\ Mail!Next /\ UNCHANGED <<roomVars, vars>>
           \/ part = "rooms" /\ Room!Next /\ UNCHANGED <<inboxVars, vars>>
           \/ Next /\ ViewersOfPart /\ UNCHANGED <<inboxVars, roomVars>>
       ]_<<part, inboxVars, roomVars, vars>>
  /\ Mail!Fairness /\ Room!Fairness /\ SweepGoesOn

-----------------------------------------------------------------------------
(* Whatever is delivered twice, late or at once, and whatever leads are    *)
(* merged and deleted meanwhile: a message of a customer who had a channel *)
(* of the platform is found with that customer, in both tables, and one    *)
(* that was answered is stored, unless its task lost its process or its    *)
(* lead, or a statement of it failed (Inbox).                              *)
ConversationsAreKept ==
  [](Mail!FiledWithOwner /\ Mail!TablesAgree) /\ Mail!AnsweredIsKept

(* A room that nobody came to own does not stay, and neither does that of  *)
(* a viewer who was purged (StaffJoin, ViewerAccounts).                    *)
RoomsAreSwept == Room!OrphansGo /\ OwnerlessRoomsGo

=============================================================================
