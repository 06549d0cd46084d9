---------------------------- MODULE ExtractionJob ----------------------------
(***************************************************************************)
(* What the extraction promises of a posting, seen from the rest of the    *)
(* system: its stage, how often it was tried, and the attempt whose answer *)
(* became its result.  An answer is accepted only from the attempt that    *)
(* holds the posting, a stage with a result is final, and a skipped        *)
(* posting never has a result.  Messages, processes, failures and the      *)
(* recovery do not appear.                                                 *)
(***************************************************************************)
EXTENDS Naturals

CONSTANTS Jobs

VARIABLES
  stage,     \* "none", "pending", "running" or how the posting ended
  attempts,  \* attempts begun
  result     \* attempt whose answer was accepted, 0 for none

vars == <<stage, attempts, result>>

Init ==
  /\ stage = [j \in Jobs |-> "none"]
  /\ attempts = [j \in Jobs |-> 0]
  /\ result = [j \in Jobs |-> 0]

Become(j, s) == stage' = [stage EXCEPT ![j] = s]

Submit(j) ==
  stage[j] = "none" /\ Become(j, "pending") /\ UNCHANGED <<attempts, result>>

(* The posting needs no extraction.                                        *)
Skip(j) ==
  /\ stage[j] = "pending" /\ result[j] = 0
  /\ Become(j, "empty") \/ Become(j, "filtered")
  /\ UNCHANGED <<attempts, result>>

Begin(j) ==
  /\ stage[j] = "pending" /\ result[j] = 0
  /\ Become(j, "running")
  /\ attempts' = [attempts EXCEPT ![j] = @ + 1]
  /\ UNCHANGED result

(* The answer of the attempt that holds the posting is accepted.           *)
Accept(j) ==
  /\ stage[j] = "running" /\ result[j] = 0
  /\ Become(j, "done") \/ Become(j, "empty")
  /\ result' = [result EXCEPT ![j] = attempts[j]]
  /\ UNCHANGED attempts

Reject(j) ==
  stage[j] = "running" /\ Become(j, "error") /\ UNCHANGED <<attempts, result>>

(* Attempts that were lost give their postings back, several at once.      *)
Release(S) ==
  /\ \A j \in S : stage[j] = "running"
  /\ stage' = [j \in Jobs |-> IF j \in S THEN "pending" ELSE stage[j]]
  /\ UNCHANGED <<attempts, result>>

Retry(j) ==
  stage[j] = "error" /\ Become(j, "pending") /\ UNCHANGED <<attempts, result>>

Next ==
  \/ \E j \in Jobs :
       Submit(j) \/ Skip(j) \/ Begin(j) \/ Accept(j) \/ Reject(j) \/ Retry(j)
  \/ \E S \in SUBSET Jobs : Release(S)

Spec == Init /\ [][Next]_vars

=============================================================================
