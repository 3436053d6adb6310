----------------------------- MODULE FakeCalls -----------------------------
(***************************************************************************)
(* Scheduled fake calls: both builds of safety/fake_call.py under          *)
(* api/fake_call.py.  A call rings only when it is asked for by its id:    *)
(* the latest, which the screen asks for, is shown as it is.               *)
(***************************************************************************)
EXTENDS StoreBuilds

CallFree == [client |-> NoOne, status |-> "FREE", at |-> NoTime, zoned |-> TRUE, rang |-> NoTime]
CallsOf(rows, c) == {i \in Ids : rows[i].client = c}
IsDue(row) == row.status = "SCHEDULED" /\ clock >= row.at
Ringing(rows, i) == [rows EXCEPT ![i].status = "TRIGGERED", ![i].rang = clock]

Scheduled(c, at, zoned) ==
    [client |-> c, status |-> "SCHEDULED", at |-> at, zoned |-> zoned, rang |-> NoTime]
ScheduleInMemory(c, at, zoned) == Kept([memory EXCEPT ![NewId] = Scheduled(c, at, zoned)], {NewId})
\* TIMESTAMPTZ: the column gives every time a zone, the connection's (taken to be UTC).
ScheduleInTable(c, at) == Kept([table EXCEPT ![NewId] = Scheduled(c, at, TRUE)], {NewId})

\* A time without a zone cannot be compared with now(UTC): TypeError.
GetInMemory(c, i) ==
    IF i \in CallsOf(memory, c)
    THEN IF memory[i].status = "SCHEDULED" /\ ~memory[i].zoned
         THEN Refused(memory, "failed")
         ELSE Kept(IF IsDue(memory[i]) THEN Ringing(memory, i) ELSE memory, {i})
    ELSE Refused(memory, "unknown")

\* Rings again whenever the call is asked for.
FaultyGetInTable(c, i) ==
    IF i \in CallsOf(table, c)
    THEN Kept(IF clock >= table[i].at THEN Ringing(table, i) ELSE table, {i})
    ELSE Refused(table, "unknown")

GetInTable(c, i) ==
    CASE i = Malformed -> Refused(table, "failed")
      [] i \in CallsOf(table, c) ->
            Kept(IF IsDue(table[i]) THEN Ringing(table, i) ELSE table, {i})
      [] OTHER -> Refused(table, "unknown")

\* The calls of c scheduled last, of which one is shown.
LatestCalls(rows, c) ==
    {i \in CallsOf(rows, c) : \A j \in CallsOf(rows, c) : rows[j].at <= rows[i].at}

\* max over the times of a client's calls cannot compare one that has a zone with one
\* that has none: TypeError.
Mixed(c) == {memory[i].zoned : i \in CallsOf(memory, c)} = BOOLEAN
LatestInMemory(c) ==
    IF Mixed(c) THEN Refused(memory, "failed") ELSE Picked(memory, LatestCalls(memory, c), Oldest)

-----------------------------------------------------------------------------
CreateFakeCall ==
    \E c \in Clients, at \in 0..MaxClock, zoned \in BOOLEAN :
        Creating /\ Both(ScheduleInMemory(c, at, zoned), ScheduleInTable(c, at))
GetFakeCall ==
    \E c \in Clients, i \in 0..used : Calling /\ Both(GetInMemory(c, i), GetInTable(c, i))

FakeCallInit == BuildsInit("fakecall", [i \in Ids |-> CallFree])
FakeCallNext == CreateFakeCall \/ GetFakeCall \/ BuildsTick
FakeCallSpec == FakeCallInit /\ [][FakeCallNext]_buildVars

-----------------------------------------------------------------------------
\* A call rings in both builds or in neither, never before its time, and is shown alike
\* by its id; unless it was scheduled by a time without a zone, at which the memory
\* build fails.  The latest call the memory build shows is one the table may show, and
\* both show none together; unless the client has scheduled calls by times with and
\* without a zone, between which the memory build cannot choose (safety/fake_call.py).
FakeCallsAgree ==
    service = "fakecall" =>
        /\ \A i \in Known : memory[i].zoned => memory[i] = table[i]
        /\ \A i \in Known : table[i].rang # NoTime => table[i].rang >= table[i].at
        /\ \A c \in Clients :
             /\ \/ Mixed(c)
                \/ /\ LatestInMemory(c).ids \subseteq LatestCalls(table, c)
                   /\ LatestInMemory(c).code = IF CallsOf(table, c) = {} THEN "none" ELSE "ok"
             /\ \A i \in Known : memory[i].zoned => SameAnswer(GetInMemory(c, i), GetInTable(c, i))
=============================================================================
