----------------------------- MODULE MCEvidence -----------------------------
(* Instances of Evidence for TLC. *)
EXTENDS Evidence, TLC

CONSTANTS o1, o2, r1, r2, r3, g1, g2, w1, w2

OneObservation == {o1}
TwoObservations == {o1, o2}
OneReport == {r1}
TwoReports == {r1, r2}
ThreeReports == {r1, r2, r3}
OneSegment == {g1}
TwoSegments == {g1, g2}
OneWorker == {w1}
TwoWorkers == {w1, w2}

\* Evidence stays fresh for one unit of time.
Short == [t \in Types |-> 1]

Symmetric == Permutations(Observations) \cup Permutations(Reports) \cup Permutations(Segments)
               \cup Permutations(Workers)
=============================================================================
