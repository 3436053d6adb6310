--------------------------- MODULE EvidenceEngine ---------------------------
(***************************************************************************)
(* compute_states of evidence/engine.py: one pass of the verification      *)
(* state machine over the evidence of the road segments.  A table is a     *)
(* function from the ids of safety_observations and safety_reports to rows *)
(* ("FREE": the id is not handed out yet).                                 *)
(***************************************************************************)
EXTENDS Integers, FiniteSets

CONSTANTS
    Observations,   \* ids of safety_observations
    Reports,        \* ids of safety_reports
    Segments,       \* road segments
    Types,          \* observation types
    ConflictTypes,  \* the types CONFLICT_KEYS names
    Sources,        \* source types
    UserReport,     \* the source type of every report
    Lifetime        \* by type: how long evidence of it stays fresh

Items == Observations \cup Reports

ASSUME ItemsAssumption == Observations \cap Reports = {}
ASSUME TypesAssumption ==
    ConflictTypes \subseteq Types /\ UserReport \in Sources /\ Lifetime \in [Types -> Nat]

NoOne == "none"

Final == {"VERIFIED", "REJECTED"}
States == {"VERIFIED", "REPORTED", "CORROBORATED", "CONFLICTING", "EXPIRED", "REJECTED"}

\* What a row says under the key its type can disagree about ("silent": no such
\* key, as in every report).
Values == {"silent", "yes", "no"}

\* claim: the state the row was inserted with (its first history row).
Evidence == [segment: Segments, type: Types, source: Sources, value: Values,
             observed: Nat, claim: States, state: States]
FreeRow == [segment |-> NoOne, type |-> NoOne, source |-> NoOne, value |-> "silent",
            observed |-> 0, claim |-> NoOne, state |-> "FREE"]
Row == Evidence \cup {FreeRow}

\* Faulty variants (FaultyX, each before the X it replaces): slips one could make
\* in the code, kept to show that a property notices them.
\* Only what nobody has derived yet counts.
FaultyActive(row) == row.state \in {"REPORTED", "VERIFIED"}

Active(row) == row.state \notin {"FREE", "EXPIRED", "REJECTED"}

Conflicts(a, b) ==
    /\ a.type \in ConflictTypes
    /\ a.value # "silent" /\ b.value # "silent" /\ a.value # b.value

\* No table writes expires_at, so the lifetime of the type decides.
Expiry(row) == row.observed + Lifetime[row.type]

\* A lifetime too short by its last instant.
FaultyPast(row, t) == t >= Expiry(row)

Past(row, t) == t > Expiry(row)

Peers(rows, i) ==
    {j \in Items \ {i} : /\ rows[j].state # "FREE"
                         /\ rows[j].segment = rows[i].segment
                         /\ rows[j].type = rows[i].type}

\* The siblings are told apart by the state stored for them, not the one this
\* pass gives them.
Siblings(rows, i) == {j \in Peers(rows, i) : Active(rows[j])}

Conflicting(rows, i, among) == \E j \in among : Conflicts(rows[i], rows[j])

\* Another source, or three items in all.
Corroborated(rows, i, among) ==
    \/ \E j \in among : rows[j].source # rows[i].source
    \/ \E j, k \in among : j # k

\* Only what is still REPORTED can expire.
FaultyStateOf(rows, i, t) ==
    LET row == rows[i]
        among == Siblings(rows, i)
    IN  IF row.state \in Final \cup {"FREE"} THEN row.state
        ELSE IF row.state = "REPORTED" /\ Past(row, t) THEN "EXPIRED"
        ELSE IF Conflicting(rows, i, among) THEN "CONFLICTING"
        ELSE IF Corroborated(rows, i, among) THEN "CORROBORATED"
        ELSE "REPORTED"

StateOf(rows, i, t) ==
    LET row == rows[i]
        among == Siblings(rows, i)
    IN  IF row.state \in Final \cup {"FREE"} THEN row.state
        ELSE IF Past(row, t) THEN "EXPIRED"
        ELSE IF Conflicting(rows, i, among) THEN "CONFLICTING"
        ELSE IF Corroborated(rows, i, among) THEN "CORROBORATED"
        ELSE "REPORTED"

Pass(rows, t) == [i \in Items |-> [rows[i] EXCEPT !.state = StateOf(rows, i, t)]]

Settled(rows, t) == Pass(rows, t) = rows
=============================================================================
