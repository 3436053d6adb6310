---------------------------- MODULE StoreBuilds ----------------------------
(***************************************************************************)
(* Every store of the API has two builds: Memory...Store, which all the    *)
(* tests run on, and Postgres...Store, which production runs on.  What the *)
(* tests show carries over only where the two answer alike.  The modules   *)
(* that extend this one give each call to both builds of one store; what a *)
(* build would answer to a call is an operator of the state, so that the   *)
(* answers need no variable.                                               *)
(*                                                                         *)
(* A row's id is its place in the order of creation: dictionaries keep     *)
(* that order, and started_at and created_at follow it (no two rows are    *)
(* created in the same microsecond).  Calls are given one at a time:       *)
(* interleaved requests are the subject of Guardian and Emergency.         *)
(***************************************************************************)
EXTENDS Integers, FiniteSets

CONSTANTS
    Clients,   \* client ids
    Devices,   \* the ones that start journeys and keep settings: fewer, to bound the states
    MaxRows,   \* bound on the rows a store comes to hold
    MaxClock   \* bound on the clock

ASSUME DevicesAssumption == Devices \subseteq Clients
ASSUME BoundsAssumption == MaxRows \in Nat \ {0} /\ MaxClock \in Nat

VARIABLES
    service, \* the store the calls go to
    memory,  \* the rows of the memory build
    table,   \* the rows of the Postgres build
    used,    \* how many ids have been given out
    notes,   \* the notifications recorded over each build: <<row, kind>>
    clock

buildVars == <<service, memory, table, used, notes, clock>>

-----------------------------------------------------------------------------
Ids == 1..MaxRows
Known == 1..used
Malformed == 0       \* a path parameter that is not a UUID
NoTime == -1
NoOne == "nobody"
ASSUME NoOneAssumption == NoOne \notin Clients

\* What a call does to one build: the rows it leaves, how it answers, with which
\* rows, and which notifications the handler then records.  "none" is a null body,
\* "unknown" a 404, "conflict" a 409, "failed" an exception (500, rolled back).
Outcome(rows, code, ids, kinds) ==
    [rows |-> rows, code |-> code, ids |-> ids, notes |-> ids \X kinds]
Kept(rows, ids) == Outcome(rows, "ok", ids, {})
Refused(rows, code) == Outcome(rows, code, {}, {})

Oldest(S) == CHOOSE i \in S : \A j \in S : i <= j
Newest(S) == CHOOSE i \in S : \A j \in S : i >= j

\* SELECT ... LIMIT 1, or the first hit of a loop over a dictionary.
Picked(rows, S, Pick(_)) == IF S = {} THEN Refused(rows, "none") ELSE Kept(rows, {Pick(S)})

\* The client is told the same by both builds.
SameAnswer(m, t) == m.code = t.code /\ m.ids = t.ids

BuildsInit(name, rows) ==
    /\ service = name
    /\ memory = rows
    /\ table = rows
    /\ used = 0
    /\ notes = [memory |-> {}, table |-> {}]
    /\ clock = 0

\* notifications.record, after the call: the history only grows.
Recorded(history, o) == history \cup o.notes

\* One call, given to both builds.
Both(m, t) ==
    /\ memory' = m.rows
    /\ table' = t.rows
    /\ notes' = [memory |-> Recorded(notes.memory, m), table |-> Recorded(notes.table, t)]
    /\ UNCHANGED <<service, clock>>

NewId == used + 1
Creating == used < MaxRows /\ used' = NewId
Calling == UNCHANGED used

BuildsTick ==
    /\ clock < MaxClock
    /\ clock' = clock + 1
    /\ UNCHANGED <<service, memory, table, used, notes>>

\* Nothing is announced that is not there: a notification recorded over a build names
\* a row that build holds, whichever call failed or was refused on the way
\* (notifications.record comes after the store's call in every handler).
NoticesHaveRows ==
    service \in {"checkins", "alerts", "guardian", "sos"} =>
        /\ \A n \in notes.memory : memory[n[1]].client # NoOne
        /\ \A n \in notes.table : table[n[1]].client # NoOne
=============================================================================
