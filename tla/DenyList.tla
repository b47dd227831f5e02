------------------------------ MODULE DenyList ------------------------------
(***************************************************************************)
(* What token revocation promises: a token works from the moment it is     *)
(* issued until it dies (by logout or by expiry), and a dead token never   *)
(* works again.                                                            *)
(***************************************************************************)
CONSTANT Token

VARIABLES issued, dead

Init == issued = {} /\ dead = {}

Issue(t) ==
  /\ t \notin issued
  /\ issued' = issued \cup {t}
  /\ dead' = dead

Die ==
  /\ dead \subseteq dead'
  /\ dead' \subseteq issued
  /\ issued' = issued

Next == Die \/ \E t \in Token : Issue(t)

Spec == Init /\ [][Next]_<<issued, dead>>
=============================================================================
