------------------------------ MODULE MCAccess ------------------------------
(***************************************************************************)
(* What users and staff may do, for TLC: sessions by refresh tokens        *)
(* (RefreshTokens), logins from a machine that has to be approved          *)
(* (LoginApproval), the monthly budget for calls of Gemini (LlmBudget),    *)
(* invitations of staff (StaffJoin), and answers of staff to customers on  *)
(* Messenger or Instagram (Inbox).                                         *)
(*                                                                         *)
(* A behaviour is one of the part it begins with, and the others rest in   *)
(* their initial state: in the models they share no variable.              *)
(***************************************************************************)
EXTENDS RefreshTokens, TLC

CONSTANTS
  Requests, Codes, FirstCodes, HourlyLimit, MaxWrong,
  MaxLoginFaults,                                       \* of LoginApproval
  Translated, MaxCalls,                                 \* of LlmBudget
  Procs,                                                \* of both, of StaffJoin
  OneProc,                                              \* of LlmBudget alone
  Invites, Emails, Members, Rooms, Sweepers,            \* of StaffJoin
  Ann, Bob, OnInstagram, Deliveries, Staff,             \* of Inbox
  Hello, Again, Reply, Order, Note   \* messages of and to Ann, and Bob

VARIABLES
  part,
  status, via, wrong, asked, late, code, usedFor, active, machine, entered,
  proc, faults,
  budget, holder, month, ledger, cached, translation, calls,
  invite, users, discord, room, entry, lock, sweep, people, joinFaults,
  serial, leads, owner, meta, conv, accepted, task, send, hurt, known,
  removals, failures

approvalVars == <<status, via, wrong, asked, late, code, usedFor, active,
                  machine, entered, proc, faults>>
budgetVars == <<budget, holder, month, ledger, cached, translation, calls>>
joinVars == <<invite, users, discord, room, entry, lock, sweep, people, joinFaults>>
inboxVars == <<serial, leads, owner, meta, conv, accepted, task, send, hurt,
               known, removals, failures>>

Approval == INSTANCE LoginApproval WITH MaxFaults <- MaxLoginFaults

(* Translations that overlap, within one month and with a hard stop; and   *)
(* one after the other, over three months, with and without.  A call costs *)
(* 0.01005 USD, which is charged as 0.0100, or 0.0000494, which is charged *)
(* as nothing; the limits are 0.01 and 0.02 USD.                           *)
CostsOfCalls == {10050000, 49400}
Budget == INSTANCE LlmBudget
            WITH Messages <- Translated, HardStops <- {"yes"},
                 Limits <- {100, 200}, Costs <- CostsOfCalls, MaxMonth <- 0,
                 proc <- translation
Months == INSTANCE LlmBudget
            WITH Messages <- Translated, HardStops <- {"yes", "no"},
                 Limits <- {0, 100, 200}, Costs <- CostsOfCalls, MaxMonth <- 2,
                 Procs <- OneProc, proc <- translation

Join == INSTANCE StaffJoin
          WITH SlowLinks <- FALSE, MaxKeys <- 1, MaxFaults <- 1,
               link <- entry, faults <- joinFaults

Of == Hello :> Ann @@ Again :> Ann @@ Reply :> Ann @@ Order :> Bob @@ Note :> Bob
Entries == {<<Hello>>, <<Reply, Again>>, <<Note, Order>>}
Customers == {Ann, Bob}
FromCustomers == {Hello, Again, Order}
FromPage == {Reply, Note}
Mail == INSTANCE Inbox
          WITH Senders <- Customers, Instagram <- OnInstagram,
               Inbound <- FromCustomers, Outbound <- FromPage,
               SenderOf <- Of, Batches <- Entries, Operators <- Staff,
               MaxLeads <- 4, MaxRemovals <- 2, MaxFailures <- 1

ASSUME ApprovalAssumption ==
  Approval!CodesAssumption /\ Approval!LimitsAssumption
ASSUME BudgetAssumption ==
  /\ Budget!ConstantsAssumption /\ Months!ConstantsAssumption
  /\ \A p, q \in OneProc : p = q
ASSUME JoinAssumption == Join!StaffJoinAssumption
ASSUME InboxAssumption == Mail!InboxAssumption

Parts == {"sessions", "approvals", "budget", "months", "joins", "inbox"}

InitOfPart ==
  /\ part \in Parts
  /\ Init /\ Approval!Init /\ Join!Init /\ Mail!Init
  /\ IF part = "months" THEN Months!Init ELSE Budget!Init
  /\ part \notin {"budget", "months"} => budget.limit = 100

Sessions == Next /\ UNCHANGED <<approvalVars, budgetVars, joinVars, inboxVars>>
Approvals == Approval!Next /\ UNCHANGED <<vars, budgetVars, joinVars, inboxVars>>
OfBudget == UNCHANGED <<vars, approvalVars, joinVars, inboxVars>>
Joins == Join!Next /\ UNCHANGED <<vars, approvalVars, budgetVars, inboxVars>>
Answers == Mail!Next /\ UNCHANGED <<vars, approvalVars, budgetVars, joinVars>>

NextOfPart ==
  /\ UNCHANGED part
  /\ \/ part = "sessions" /\ Sessions
     \/ part = "approvals" /\ Approvals
     \/ part = "budget" /\ Budget!Next /\ OfBudget
     \/ part = "months" /\ Months!Next /\ OfBudget
     \/ part = "joins" /\ Joins
     \/ part = "inbox" /\ Answers

Access ==
  /\ InitOfPart
  /\ [][NextOfPart]_<<part, vars, approvalVars, budgetVars, joinVars, inboxVars>>

Symmetry == Permutations(Tokens)

-----------------------------------------------------------------------------
(* Every variable of the part that runs has its type.                      *)
TypesOK ==
  /\ part \in Parts
  /\ part = "sessions" => TypeOK
  /\ part = "approvals" => Approval!TypeOK
  /\ part = "budget" => Budget!TypeOK
  /\ part = "months" => Months!TypeOK
  /\ part = "joins" => Join!TypeOK
  /\ part = "inbox" => Mail!TypeOK

(* However polls, codes and decisions overlap, a request lets its machine  *)
(* in once at most and only when it was approved or a code was right; a    *)
(* recovery code is used up by exactly the entry it gave; and too many     *)
(* wrong codes close the request for good.  A rejected or expired request  *)
(* is never approved, and only a pending or an approved one is completed   *)
(* (LoginApproval).  A new password stands too: a refresh that reads the   *)
(* user after it was committed exchanges no token that is older            *)
(* (RefreshTokens).                                                        *)
EntriesAreEarned ==
  /\ [](/\ Approval!EnteredOnce
       /\ Approval!CodesAreUsedByEntries
       /\ Approval!WrongCodesClose)
  /\ Approval!DecisionsStand
  /\ NoExchangeOfOutdatedTokens

(* The budget of the month is charged what the ledger says of it, but for  *)
(* the rounding of each call, and a hard stop is passed only by            *)
(* translations that had been checked before, each by one call (LlmBudget). *)
BudgetHolds ==
  /\ Budget!MonthIsCounted
  /\ part = "budget" => Budget!OverspendIsBounded

(* However codes are entered and rooms are swept, the room of a person who *)
(* has joined stands and is the room of no one else, an invitation makes   *)
(* one person, and a member of the server is one person (StaffJoin).       *)
JoinsHold == Join!OwnersKeepTheirRoom /\ Join!NobodyJoinsTwice

(* While leads are merged and deleted, an answer of the staff stands       *)
(* beside a message of the customer it went to, and the messages of a      *)
(* customer who had a channel of the platform stay with that customer; on  *)
(* Instagram only the customer's own messages make one (Inbox).            *)
AnswersReachTheirCustomer ==
  Mail!AnswersStandByCustomers /\ Mail!FiledWithOwner /\ Mail!TablesAgree

=============================================================================
