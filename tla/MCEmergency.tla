---------------------------- MODULE MCEmergency ----------------------------
(* Instances of Emergency for TLC. *)
EXTENDS Emergency, TLC

CONSTANTS c1, e1, e2, l1, l2, w1, w2

OneClient == {c1}
OneEmergency == {e1}
TwoEmergencies == {e1, e2}
NoSharing == {}
OneSharing == {l1}
TwoSharings == {l1, l2}
TwoWorkers == {w1, w2}

Symmetric == Permutations(Workers) \cup Permutations(EmergencyIds) \cup Permutations(SharingIds)
=============================================================================
