----------------------------- MODULE MCGuardian -----------------------------
(* Instances of Guardian for TLC. *)
EXTENDS Guardian, TLC

CONSTANTS c1, c2, s1, s2, w1, w2

OneClient == {c1}
TwoClients == {c1, c2}
OneSession == {s1}
TwoSessions == {s1, s2}
OneWorker == {w1}
TwoWorkers == {w1, w2}

NoArrival == {NoTime}
SomeArrival == {NoTime, 2}

Symmetric == Permutations(SessionIds) \cup Permutations(Workers) \cup Permutations(Clients)
=============================================================================
