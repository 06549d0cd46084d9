---------------------------- MODULE MCExtraction ----------------------------
EXTENDS ExtractionPipeline, TLC
Symmetry == Permutations(Workers) \cup Permutations(Operators)

(* Whatever is lost, refused, late or dead: a posting is worked on to an   *)
(* end, one that Gemini refused is extracted, reported or replaced unless  *)
(* 48 hours pass first, and an analysis that failed is repeated.           *)
NothingIsForgotten ==
  OpenJobsSettle /\ RefusedPostingsAreNotForgotten /\ FailedAnalysisIsRetried
=============================================================================
