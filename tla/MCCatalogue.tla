---------------------------- MODULE MCCatalogue ----------------------------
(***************************************************************************)
(* What becomes of the postings, for TLC: their import (LineImport), the   *)
(* current results of a supplier (CurrentResults), and what people decide  *)
(* about an item (HumanDecisions).  How they are extracted in between is   *)
(* ExtractionPipeline.                                                     *)
(*                                                                         *)
(* A behaviour is one of the part it begins with, and the others rest in   *)
(* their initial state: in the models they share no variable.              *)
(***************************************************************************)
EXTENDS CurrentResults, Sequences, TLC

CONSTANTS
  Alone,                                        \* one of the Processes
  Postings, Uploads, Known, ChannelIds, MaxAborts,           \* of LineImport
  Codes, Values, Excluding, ExcludedCode, NoValue, Requests, Workers, Together,
  MaxRetries, MaxFailures, MaxLost              \* of HumanDecisions

VARIABLES
  part,
  suppliers, channels, stored, active, imports, uploadAt, file, todo, entries,
  target, tx, aborts,
  clock, log, requestAt, does, start, rowLock, jobLock, draft, tasks, worker,
  tries, read, result, marked, gaveUp, failures, lost

importVars == <<suppliers, channels, stored, active, imports, uploadAt, file,
                todo, entries, target, tx, aborts>>
decisionVars == <<clock, log, requestAt, does, start, rowLock, jobLock, draft,
                  tasks, worker, tries, read, result, marked, gaveUp, failures,
                  lost>>

(* Two conditions of product A and one of product B.                       *)
CONSTANTS A1, A2, B1
PairsOfAB == {A1, A2, B1}
ProductAB == [x \in PairsOfAB |-> IF x = B1 THEN "B" ELSE "A"]
ResolvedOrNot == PairsOfAB \cup {Unresolved}

(* Overlapping files of two known suppliers, not in the order of the codes.*)
Post(n, t) == [name |-> n, time |-> t]
KnownFiles ==
  [f1 |-> <<Post(2, 1), Post(1, 1), Post(1, 2)>>,
   f2 |-> <<Post(1, 2), Post(2, 3)>>,
   f3 |-> <<Post(1, 3), Post(2, 1)>>]

AnyFile == CHOOSE f \in DOMAIN Postings : TRUE

Import == INSTANCE LineImport
            WITH Files <- DOMAIN Postings, Channelless <- {}, at <- uploadAt
Decisions == INSTANCE HumanDecisions WITH at <- requestAt

(* The suppliers of all postings are known.                                *)
ASSUME CatalogueAssumption ==
  /\ Import!ImportAssumption /\ Decisions!DecisionsAssumption
  /\ \A f \in DOMAIN Postings : Import!NamesIn(f) \subseteq Known
  /\ IsFiniteSet(ChannelIds)
  /\ Alone \subseteq Processes

Parts == {"results", "results in turn", "import", "decisions",
          "decisions in turn"}

(* Fewer runs that may overlap, are broken off and leave a product         *)
(* unresolved, or more that follow each other.                             *)
ResultsOfPart ==
  \/ part = "results" /\ runs' < MaxRuns
  \/ /\ part = "results in turn" /\ inTurn'
     /\ \A w \in Processes \ Alone : at'[w] = "idle"

(* Requests overlap, an analysis fails and another cannot be sent; or one  *)
(* request follows the other and analyses fail or cannot be sent.  The     *)
(* values of those leave the item in the offer, of these take it out.      *)
DecisionsOfPart ==
  \/ part = "decisions" /\ failures' < MaxFailures
  \/ /\ part = "decisions in turn"
     /\ failures' = 0 \/ lost' = {}
     /\ \A r, s \in Decisions!OpenRequests' : r = s
ExclusionsOnly ==
  \A r \in Requests : does[r].kind = "value" => does[r].value \in Excluding
NoExclusions ==
  \A r \in Requests : /\ does[r].value \notin Excluding
                      /\ ExcludedCode \notin does[r].codes

InitOfPart ==
  /\ part \in Parts
  /\ Import!Init /\ Decisions!Init /\ Init
  /\ part # "import" => \A u \in Uploads : file[u] = AnyFile
  /\ part \notin {"decisions", "decisions in turn"} =>
       \A r \in Requests : does[r].kind = "revoke"
  /\ part = "decisions" => NoExclusions
  /\ part = "decisions in turn" => ExclusionsOnly

NextOfPart ==
  /\ UNCHANGED part
  /\ \/ Next /\ ResultsOfPart /\ UNCHANGED <<importVars, decisionVars>>
     \/ part = "import" /\ Import!Next /\ UNCHANGED <<vars, decisionVars>>
     \/ Decisions!Next /\ DecisionsOfPart /\ UNCHANGED <<vars, importVars>>

Catalogue == InitOfPart /\ [][NextOfPart]_<<part, vars, importVars, decisionVars>>

Symmetry == Permutations(Requests) \cup Permutations(Workers)

-----------------------------------------------------------------------------
(* Every variable of the part that runs has its type.                      *)
TypesOK ==
  /\ part \in Parts
  /\ part \in {"results", "results in turn"} => TypeOK
  /\ part = "import" => Import!TypeOK
  /\ part \in {"decisions", "decisions in turn"} => Decisions!TypeOK

(* Imports lock the channels of known suppliers in one order: they never   *)
(* wait for each other in a circle, whatever the order of their files; and *)
(* each file is imported once and a posting of several files is stored     *)
(* once, with one active message a channel.  One that was superseded does  *)
(* not become active again (LineImport).                                   *)
ImportsAreInOrder ==
  /\ [](/\ Import!NobodyWaitsInACircle
        /\ Import!FileImportedOnce /\ Import!PostingStoredOnce
        /\ Import!OneActiveMessage)
  /\ Import!HistoryStaysClosed

(* When nothing is waiting or running and the analysis of the last         *)
(* decision was sent, the result reflects all that people decided, in      *)
(* whatever order requests and analyses ran, failed and were retried; or   *)
(* the post says that an analysis failed; or one gave up after its last    *)
(* retry.  When requests follow each other, a reason that was accepted     *)
(* stays so until it is revoked or the transcription edited, and an edit   *)
(* asks for every decision again (HumanDecisions).                         *)
DecisionsAreKept ==
  /\ Decisions!ResultFollowsDecisions
  /\ part = "decisions in turn" =>
       Decisions!AcceptedStaysAccepted /\ Decisions!EditsAskAgain

=============================================================================
