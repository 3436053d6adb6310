-------------------------- MODULE JourneyCheckins --------------------------
(***************************************************************************)
(* Journey check-ins: both builds of the store (safety/journey_checkin.py) *)
(* under the handlers at the end of api/guardian.py.  The head of the      *)
(* store's file speaks of one active journey per client (:4) and of an     *)
(* escalation (:7-9): no code refuses a second journey, and none escalates.*)
(***************************************************************************)
EXTENDS StoreBuilds

CONSTANT CheckinInterval   \* checkin_interval_s

ASSUME IntervalAssumption == CheckinInterval \in Nat \ {0}

-----------------------------------------------------------------------------
CheckinFree == [client |-> NoOne, status |-> "FREE", arrival |-> NoTime, checked |-> NoTime,
                due |-> NoTime, ended |-> NoTime, reason |-> "none"]
LiveStatus == {"ACTIVE", "ESCALATED"}
LiveCheckins(rows, c) == {i \in Ids : rows[i].client = c /\ rows[i].status \in LiveStatus}

Opened(c, arrival, due) ==
    [CheckinFree EXCEPT !.client = c, !.status = "ACTIVE", !.arrival = arrival, !.due = due]
Ending(reason) == IF reason = "arrived" THEN "COMPLETED" ELSE "CANCELLED"
Told(reason) == IF reason = "arrived" THEN {"journey_completed"} ELSE {}

CreateInMemory(c, arrival) ==
    Outcome([memory EXCEPT ![NewId] = Opened(c, arrival, clock + CheckinInterval)],
            "ok", {NewId}, {"checkin_reminder"})
\* The INSERT names no next_checkin_at: it stays NULL.
CreateInTable(c, arrival) ==
    Outcome([table EXCEPT ![NewId] = Opened(c, arrival, NoTime)],
            "ok", {NewId}, {"checkin_reminder"})

ActiveInMemory(c) == Picked(memory, LiveCheckins(memory, c), Oldest)
ActiveInTable(c) == Picked(table, LiveCheckins(table, c), Newest)

\* "Superseded by the fresh check-in": only this build clears the expected arrival.
CheckinInMemory(c, i) ==
    IF i \in LiveCheckins(memory, c)
    THEN Kept([memory EXCEPT ![i].status = "ACTIVE", ![i].arrival = NoTime,
                             ![i].checked = clock, ![i].due = clock + CheckinInterval], {i})
    ELSE Refused(memory, "unknown")

\* Faulty variants (FaultyX, before the X it replaces): slips a property notices.
\* The UPDATE moves the last check-in and not the deadline.
FaultyCheckinInTable(c, i) ==
    IF i \in LiveCheckins(table, c)
    THEN Kept([table EXCEPT ![i].checked = clock], {i})
    ELSE Refused(table, "unknown")

CheckinInTable(c, i) ==
    CASE i = Malformed -> Refused(table, "failed")
      [] i \in LiveCheckins(table, c) ->
            Kept([table EXCEPT ![i].checked = clock, ![i].due = clock + CheckinInterval], {i})
      [] OTHER -> Refused(table, "unknown")

EndInMemory(c, i, reason) ==
    IF i \in LiveCheckins(memory, c)
    THEN Outcome([memory EXCEPT ![i].status = Ending(reason), ![i].ended = clock,
                                ![i].reason = reason, ![i].due = NoTime],
                 "ok", {i}, Told(reason))
    ELSE Refused(memory, "unknown")

\* The UPDATE has no condition on the status.
FaultyEndInTable(c, i, reason) ==
    IF i \in Known /\ table[i].client = c
    THEN Outcome([table EXCEPT ![i].status = Ending(reason), ![i].ended = clock,
                               ![i].reason = reason], "ok", {i}, Told(reason))
    ELSE Refused(table, "unknown")

EndInTable(c, i, reason) ==
    CASE i = Malformed -> Refused(table, "failed")
      [] i \in LiveCheckins(table, c) ->
            Outcome([table EXCEPT ![i].status = Ending(reason), ![i].ended = clock,
                                  ![i].reason = reason],
                    "ok", {i}, Told(reason))
      [] OTHER -> Refused(table, "unknown")

-----------------------------------------------------------------------------
\* No check of a live journey of the same client: unlike the guardian's create, a
\* second one is opened beside the first.
CreateCheckin ==
    \E c \in Clients, arrival \in {NoTime, clock + 1} :
        Creating /\ Both(CreateInMemory(c, arrival), CreateInTable(c, arrival))
Checkin ==
    \E c \in Clients, i \in 0..used :
        Calling /\ Both(CheckinInMemory(c, i), CheckinInTable(c, i))
EndCheckin ==
    \E c \in Clients, i \in 0..used, reason \in {"arrived", "cancelled"} :
        Calling /\ Both(EndInMemory(c, i, reason), EndInTable(c, i, reason))

CheckinInit == BuildsInit("checkins", [i \in Ids |-> CheckinFree])
CheckinNext == CreateCheckin \/ Checkin \/ EndCheckin \/ BuildsTick
CheckinSpec == CheckinInit /\ [][CheckinNext]_buildVars

-----------------------------------------------------------------------------
\* The rows of one id, but for what the table keeps differently: its deadline is NULL
\* until the first check-in, a check-in leaves the expected arrival that memory clears,
\* and an ending leaves the deadline that memory clears.
SameJourney(m, t) ==
    /\ m.client = t.client /\ m.status = t.status /\ m.checked = t.checked
    /\ m.ended = t.ended /\ m.reason = t.reason
    /\ m.arrival = IF t.checked = NoTime THEN t.arrival ELSE NoTime
    /\ t.due = NoTime <=> t.checked = NoTime
    /\ m.due = NoTime <=> m.status \notin LiveStatus
    /\ m.status \in LiveStatus /\ m.checked # NoTime => m.due = t.due

\* Both builds keep the same journeys (owner, status, last check-in, ending, and the
\* deadline while the journey is live and checked in), and what they keep differently is
\* exactly what SameJourney names: the expected arrival after a check-in, the deadline
\* before the first and after the end.  The owner of at most one live journey is shown
\* the same one, calls on well-formed ids succeed or are refused alike, and the contacts
\* are told of the same completions (safety/journey_checkin.py).
CheckinBuildsAgree ==
    service = "checkins" =>
        /\ \A i \in Ids : SameJourney(memory[i], table[i])
        /\ notes.memory = notes.table
        /\ \A c \in Clients :
             /\ Cardinality(LiveCheckins(memory, c)) < 2 =>
                    SameAnswer(ActiveInMemory(c), ActiveInTable(c))
             /\ \A i \in Known :
                    /\ SameAnswer(CheckinInMemory(c, i), CheckinInTable(c, i))
                    /\ SameAnswer(EndInMemory(c, i, "arrived"), EndInTable(c, i, "arrived"))

\* A journey that ended stays as it ended, in both builds: no check-in, end or create
\* writes its row again.
EndedCheckinsStay ==
    [][service = "checkins" => \A i \in Known :
           /\ memory[i].ended # NoTime => memory'[i] = memory[i]
           /\ table[i].ended # NoTime => table'[i] = table[i]]_buildVars
=============================================================================
