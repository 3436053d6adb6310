------------------------- MODULE EscalationContract -------------------------
(***************************************************************************)
(* What the header of safety/guardian.py promises about journeys, with no  *)
(* rows, stages or watermarks in sight: a client has one open journey, a   *)
(* closed journey stays closed, and the log of a journey holds each stage  *)
(* of each missed deadline at most once, missed before escalated, and one  *)
(* last word after it is closed.                                           *)
(***************************************************************************)
EXTENDS Integers, Sequences

CONSTANTS Journeys, Nobody

VARIABLES owner, phase, log

contractVars == <<owner, phase, log>>

LastWord == {"journey_completed", "guardian_ended"}
Logged(j, n) == \E i \in 1..Len(log[j]) : log[j][i] = n

Init ==
    /\ owner = [j \in Journeys |-> Nobody]
    /\ phase = [j \in Journeys |-> "none"]
    /\ log = [j \in Journeys |-> <<>>]

Open(j) ==
    /\ phase[j] = "none"
    /\ phase' = [phase EXCEPT ![j] = "open"]
    /\ owner' = [owner EXCEPT ![j] = owner'[j]]
    /\ \A k \in Journeys \ {j} : owner[k] = owner'[j] => phase[k] # "open"
    /\ UNCHANGED log

Close(j) ==
    /\ phase[j] = "open"
    /\ phase' = [phase EXCEPT ![j] = "closed"]
    /\ UNCHANGED <<owner, log>>

\* The log of j gains one entry, and it satisfies Allowed.
Logs(j, Allowed(_)) ==
    /\ Len(log'[j]) = Len(log[j]) + 1
    /\ LET n == log'[j][Len(log'[j])]
       IN  Allowed(n) /\ log' = [log EXCEPT ![j] = Append(@, n)]
    /\ UNCHANGED <<owner, phase>>

\* While a journey is open each notice is new, and a deadline that was escalated
\* is not called missed afterwards.
Notify(j) ==
    /\ phase[j] = "open"
    /\ Logs(j, LAMBDA n :
                 /\ n.type \notin LastWord
                 /\ ~Logged(j, n)
                 /\ n.type = "checkin_missed" => ~Logged(j, [n EXCEPT !.type = "checkin_escalated"]))

Conclude(j) ==
    /\ phase[j] = "closed"
    /\ \A i \in 1..Len(log[j]) : log[j][i].type \notin LastWord
    /\ Logs(j, LAMBDA n : n.type \in LastWord)

Next == \E j \in Journeys : Open(j) \/ Close(j) \/ Notify(j) \/ Conclude(j)

Spec == Init /\ [][Next]_contractVars
=============================================================================
