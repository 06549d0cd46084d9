-------------------------- MODULE SessionFamilies --------------------------
(***************************************************************************)
(* What the refresh tokens promise of a login (a family of tokens): it     *)
(* begins once, may end, and never comes back.                             *)
(***************************************************************************)
CONSTANT Families

VARIABLE life

Init == life = [f \in Families |-> "unborn"]

Begin(f) == life[f] = "unborn" /\ life' = [life EXCEPT ![f] = "alive"]

(* One revocation may end several families.                                *)
End(fs) ==
  /\ \A f \in fs : life[f] = "alive"
  /\ life' = [f \in Families |-> IF f \in fs THEN "dead" ELSE life[f]]

(* A password change ends the others and begins one.                       *)
Replace(fs, new) ==
  /\ \A f \in fs : life[f] = "alive"
  /\ life[new] = "unborn"
  /\ life' = [f \in Families |->
                IF f \in fs THEN "dead"
                ELSE IF f = new THEN "alive" ELSE life[f]]

Next ==
  \/ \E f \in Families : Begin(f)
  \/ \E fs \in SUBSET Families : End(fs)
  \/ \E fs \in SUBSET Families, new \in Families : Replace(fs, new)

Spec == Init /\ [][Next]_life

=============================================================================
