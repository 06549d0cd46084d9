--------------------------- MODULE MCDistribution ---------------------------
(***************************************************************************)
(* Distribution for TLC, with the note of overlapping runs.                *)
(***************************************************************************)
EXTENDS DistributionInTurn, TLC

Symmetry == Permutations(Askers) \cup Permutations(Runners) \cup
            Permutations(Posts)

=============================================================================
