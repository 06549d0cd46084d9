------------------------- MODULE DistributionInTurn -------------------------
(***************************************************************************)
(* Distribution with a note of whether two runs have been under way at the *)
(* same time.  Nothing in the code keeps them apart, so that what holds of *)
(* the tab while runs follow each other is said of such histories.  No     *)
(* guard reads the note.                                                   *)
(***************************************************************************)
EXTENDS Distribution

VARIABLE overlapped

runsVars == <<vars, overlapped>>

Overlap ==
  \E r, s \in Runners : r # s /\ pc[r] # "idle" /\ pc[s] # "idle"

InitOfRuns == Init /\ overlapped = FALSE

NextOfRuns ==
  /\ Next
  /\ overlapped' = (overlapped \/ Overlap')

Runs == InitOfRuns /\ [][NextOfRuns]_runsVars

-----------------------------------------------------------------------------
(* While runs follow each other, what is recorded as written is in the     *)
(* tab, and the newest rows read are there in the end, although every try  *)
(* of a write may fail.                                                    *)
TabIsTrue == overlapped \/ (WrittenIsWhatWasRead /\ TabShowsNewestRead)

=============================================================================
