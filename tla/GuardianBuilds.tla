--------------------------- MODULE GuardianBuilds ---------------------------
(***************************************************************************)
(* Guardian journeys in both builds of safety/guardian.py, one request of  *)
(* api/guardian.py at a time, with the automatic SOS off (its default).    *)
(* Guardian has the Postgres build under interleaved requests.             *)
(***************************************************************************)
EXTENDS StoreBuilds

CONSTANTS
    CheckinGrace,     \* checkin_grace_s
    EscalationDelay   \* settings.guardian_escalation_delay_s

ASSUME DelaysAssumption == CheckinGrace \in Nat \ {0} /\ EscalationDelay \in Nat \ {0}

-----------------------------------------------------------------------------
NoJourney == [client |-> NoOne, status |-> "FREE", started |-> NoTime, arrival |-> NoTime,
              checked |-> NoTime, ended |-> NoTime, known |-> NoTime, deviated |-> FALSE,
              first |-> NoTime, stage |-> 0]
Journey(c, arrival) ==
    [NoJourney EXCEPT !.client = c, !.status = "ACTIVE", !.started = clock, !.arrival = arrival]

JourneysOf(rows, c) == {i \in Ids : rows[i].client = c}
OnTheWay(row) == row.status \in {"ACTIVE", "ESCALATED"}
LiveJourneys(rows, c) == {i \in JourneysOf(rows, c) : OnTheWay(rows[i])}

\* checkin_deadline: "a or b or c" takes the first that is there.
JourneyDeadline(row) ==
    CheckinGrace + (CASE row.arrival # NoTime -> row.arrival
                      [] row.arrival = NoTime /\ row.checked # NoTime -> row.checked
                      [] OTHER -> row.started)
JourneyStage(row) ==
    CASE clock >= JourneyDeadline(row) + EscalationDelay -> 2
      [] clock >= JourneyDeadline(row) /\ clock < JourneyDeadline(row) + EscalationDelay -> 1
      [] OTHER -> 0

\* _evaluate, which both builds share.  escalation_stage and notified_stage are always
\* written together, so one field stands for both.
Evaluated(row) ==
    IF OnTheWay(row)
    THEN [row EXCEPT !.stage = JourneyStage(row),
                     !.status = IF JourneyStage(row) = row.stage THEN @
                                ELSE IF JourneyStage(row) = 2 THEN "ESCALATED" ELSE "ACTIVE"]
    ELSE row
Overdue(row) ==
    {kind \in {"checkin_missed", "checkin_escalated"} :
        LET s == IF kind = "checkin_missed" THEN 1 ELSE 2
        IN  OnTheWay(row) /\ row.stage < s /\ s <= JourneyStage(row)}
ReadJourney(rows, i) ==
    Outcome([rows EXCEPT ![i] = Evaluated(@)], "ok", {i}, Overdue(rows[i]))

GetJourneyInMemory(c, i) ==
    IF i \in JourneysOf(memory, c) THEN ReadJourney(memory, i) ELSE Refused(memory, "unknown")
GetJourneyInTable(c, i) ==
    CASE i = Malformed -> Refused(table, "failed")
      [] i \in JourneysOf(table, c) -> ReadJourney(table, i)
      [] OTHER -> Refused(table, "unknown")

ActiveJourney(rows, c, Pick(_)) ==
    LET live == LiveJourneys(rows, c)
    IN  IF live = {} THEN Refused(rows, "none") ELSE ReadJourney(rows, Pick(live))
ActiveJourneyInMemory(c) == ActiveJourney(memory, c, Oldest)
ActiveJourneyInTable(c) == ActiveJourney(table, c, Newest)

\* The handler looks for a live journey first, and drops the events that this evaluates.
OpenJourney(rows, seen, c, arrival) ==
    IF seen.code = "ok"
    THEN Refused(seen.rows, "conflict")
    ELSE Outcome([rows EXCEPT ![NewId] = Journey(c, arrival)], "ok", {NewId}, {"guardian_started"})
StartJourneyInMemory(c, arrival) == OpenJourney(memory, ActiveJourneyInMemory(c), c, arrival)
StartJourneyInTable(c, arrival) == OpenJourney(table, ActiveJourneyInTable(c), c, arrival)

Detour(row, far) == IF far /\ ~row.deviated THEN {"route_changed"} ELSE {}
FixInMemory(c, i, far) ==
    LET row == memory[i]
    IN  IF i \in LiveJourneys(memory, c)
        THEN Outcome([memory EXCEPT ![i].known = clock, ![i].deviated = @ \/ far,
                        ![i].first = IF far /\ ~row.deviated THEN clock ELSE @],
                     "ok", {i}, Detour(row, far))
        ELSE Refused(memory, "unknown")
\* get_guardian evaluates and persists first, and its events are dropped; COALESCE then
\* dates the first deviation at the first fix, deviation or not.
FixInTable(c, i, far) ==
    LET read == GetJourneyInTable(c, i)
        row == read.rows[i]
    IN  CASE read.code # "ok" -> Refused(table, read.code)
          [] read.code = "ok" /\ ~OnTheWay(row) -> Refused(read.rows, "unknown")
          [] OTHER -> Outcome([read.rows EXCEPT ![i].known = clock, ![i].deviated = @ \/ far,
                                 ![i].first = IF @ = NoTime THEN clock ELSE @],
                              "ok", {i}, Detour(row, far))

CheckedIn(row) ==
    [row EXCEPT !.status = "ACTIVE", !.arrival = NoTime, !.checked = clock, !.stage = 0]
CheckJourneyInMemory(c, i) ==
    IF i \in LiveJourneys(memory, c)
    THEN Kept([memory EXCEPT ![i] = CheckedIn(@)], {i})
    ELSE Refused(memory, "unknown")

\* The UPDATE leaves the expected arrival, so that the deadline does not move.
FaultyCheckJourneyInTable(c, i) ==
    IF i \in LiveJourneys(table, c)
    THEN Kept([table EXCEPT ![i] = [CheckedIn(@) EXCEPT !.arrival = table[i].arrival]], {i})
    ELSE Refused(table, "unknown")

CheckJourneyInTable(c, i) ==
    CASE i = Malformed -> Refused(table, "failed")
      [] i \in LiveJourneys(table, c) -> Kept([table EXCEPT ![i] = CheckedIn(@)], {i})
      [] OTHER -> Refused(table, "unknown")

Farewell(reason) == IF reason = "arrived" THEN {"journey_completed"} ELSE {"guardian_ended"}
Over(row, reason) ==
    [row EXCEPT !.status = IF reason = "arrived" THEN "COMPLETED" ELSE "CANCELLED", !.ended = clock]
EndJourneyInMemory(c, i, reason) ==
    IF i \in LiveJourneys(memory, c)
    THEN Outcome([memory EXCEPT ![i] = Over(@, reason)], "ok", {i}, Farewell(reason))
    ELSE Refused(memory, "unknown")
EndJourneyInTable(c, i, reason) ==
    CASE i = Malformed -> Refused(table, "failed")
      [] i \in LiveJourneys(table, c) ->
            Outcome([table EXCEPT ![i] = Over(@, reason)], "ok", {i}, Farewell(reason))
      [] OTHER -> Refused(table, "unknown")

-----------------------------------------------------------------------------
\* By the clients that have journeys: any other is refused, and the invariant compares
\* what it is answered.
StartJourney ==
    \E c \in Devices, arrival \in {NoTime, clock + 1} :
        /\ used < MaxRows
        /\ used' = IF StartJourneyInTable(c, arrival).code = "ok" THEN NewId ELSE used
        /\ Both(StartJourneyInMemory(c, arrival), StartJourneyInTable(c, arrival))
GetJourney ==
    \E c \in Devices, i \in 0..used :
        Calling /\ Both(GetJourneyInMemory(c, i), GetJourneyInTable(c, i))
GetActiveJourney ==
    \E c \in Devices : Calling /\ Both(ActiveJourneyInMemory(c), ActiveJourneyInTable(c))
FixJourney ==
    \E c \in Devices, i \in 0..used, far \in BOOLEAN :
        Calling /\ Both(FixInMemory(c, i, far), FixInTable(c, i, far))
CheckJourney ==
    \E c \in Devices, i \in 0..used :
        Calling /\ Both(CheckJourneyInMemory(c, i), CheckJourneyInTable(c, i))
EndJourney ==
    \E c \in Devices, i \in 0..used, reason \in {"arrived", "cancelled"} :
        Calling /\ Both(EndJourneyInMemory(c, i, reason), EndJourneyInTable(c, i, reason))

JourneyInit == BuildsInit("guardian", [i \in Ids |-> NoJourney])
JourneyNext ==
    StartJourney \/ GetJourney \/ GetActiveJourney \/ FixJourney \/ CheckJourney \/ EndJourney
        \/ BuildsTick
JourneySpec == JourneyInit /\ [][JourneyNext]_buildVars

-----------------------------------------------------------------------------
SameJourneyRow(m, t) ==
    /\ \A f \in {"client", "started", "arrival", "checked", "ended", "known", "deviated"} :
           m[f] = t[f]
    /\ OnTheWay(m) <=> OnTheWay(t)
    /\ ~OnTheWay(m) /\ m.client # NoOne => m.status = t.status
    /\ m.stage <= t.stage

\* The builds keep the same journeys and accept and refuse the same calls.  They differ
\* in what the table does on a location update, where it evaluates the journey and
\* drops the notices: the table's stage is never behind, it never announces what the
\* memory build does not, and what it leaves out is a missed check-in or an escalation,
\* never a journey's start, detour or end.  The time of the first deviation is only
\* comparable where there was one: the table then never dates it later
\* (safety/guardian.py).
GuardianBuildsAgree ==
    service = "guardian" =>
        /\ \A i \in Ids :
             /\ SameJourneyRow(memory[i], table[i])
             /\ memory[i].first # NoTime => table[i].first <= memory[i].first
        /\ notes.table \subseteq notes.memory
        /\ \A n \in notes.memory \ notes.table : n[2] \in {"checkin_missed", "checkin_escalated"}
        /\ \A c \in Clients :
             /\ used < MaxRows => SameAnswer(StartJourneyInMemory(c, NoTime), StartJourneyInTable(c, NoTime))
             /\ \A i \in Known :
                    /\ SameAnswer(FixInMemory(c, i, TRUE), FixInTable(c, i, TRUE))
                    /\ SameAnswer(CheckJourneyInMemory(c, i), CheckJourneyInTable(c, i))
                    /\ SameAnswer(EndJourneyInMemory(c, i, "arrived"),
                                  EndJourneyInTable(c, i, "arrived"))
=============================================================================
