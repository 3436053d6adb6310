------------------------------ MODULE Guardian ------------------------------
(***************************************************************************)
(* Guardian journeys as production runs them: PostgresGuardianStore        *)
(* (safety/guardian.py) under the handlers of api/guardian.py.  A handler  *)
(* is a synchronous function in the server's thread pool and every store   *)
(* call is a transaction of its own, so a request is a sequence of steps   *)
(* (SELECT, evaluate in Python, UPDATE, one INSERT per notification) and   *)
(* the steps of two requests interleave.                                   *)
(*                                                                         *)
(* A worker is a thread of the pool; req[w] is the request it is serving.  *)
(* A refused request (429, 404, 422) changes nothing and is a stutter.     *)
(***************************************************************************)
EXTENDS Integers, Sequences, FiniteSets

CONSTANTS
    Clients,          \* client ids that require_client_id lets through
    SessionIds,       \* ids the database can hand out
    Workers,          \* threads of the server's pool
    Graces,           \* checkin_grace_s values clients send
    Arrivals,         \* expected_arrival_at values clients send; NoTime: none
    Geometries,       \* do clients send a planned_geometry?
    EscalationDelay,  \* settings.guardian_escalation_delay_s
    AutoSos,          \* settings.guardian_auto_sos
    Ops,              \* the request kinds this instance explores
    MayCrash,         \* may the server process die and restart?
    MaxTime,          \* bound on the clock
    MaxNotices,       \* bound: no new request on a journey with that many notices
    MaxSos            \* bound on the emergency sessions an owner has open

NoTime == -1

ASSUME TimesAssumption ==
    /\ Graces \subseteq Nat /\ EscalationDelay \in Nat /\ MaxTime \in Nat
    /\ Arrivals \subseteq Nat \cup {NoTime}
ASSUME FlagsAssumption == AutoSos \in BOOLEAN /\ MayCrash \in BOOLEAN /\ Geometries \subseteq BOOLEAN
ASSUME BoundsAssumption == MaxNotices \in Nat /\ MaxSos \in Nat

VARIABLES
    now,          \* the clock (_now() in Python, now() in SQL)
    sessions,     \* the guardian_sessions table
    notices,      \* notification_events, by the session_id of their payload
    emergencies,  \* what the auto-SOS path sees of emergency_sessions
    req           \* the request each worker is serving

vars == <<now, sessions, notices, emergencies, req>>

-----------------------------------------------------------------------------
Live == {"ACTIVE", "ESCALATED"}
Statuses == {"FREE", "ACTIVE", "ESCALATED", "COMPLETED", "CANCELLED"}
Times == Nat \cup {NoTime}
NoOne == "none"

\* A row of guardian_sessions ("FREE": the id is not handed out yet).
Row == [client: Clients \cup {NoOne}, status: Statuses, started: Nat,
        expected: Times, checkin: Times, grace: Nat, planned: BOOLEAN,
        deviated: BOOLEAN, stage: 0..2, notified: 0..2]

BlankRow == [client |-> NoOne, status |-> "FREE", started |-> 0,
             expected |-> NoTime, checkin |-> NoTime, grace |-> 0, planned |-> FALSE,
             deviated |-> FALSE, stage |-> 0, notified |-> 0]

\* A client's emergency_sessions rows: the ACTIVE ones, those _maybe_auto_sos
\* inserted, and the sos_started notifications it recorded.
EmergencyCount == [active: Nat, auto: Nat, noted: Nat]

NoticeTypes == {"guardian_started", "guardian_ended", "journey_completed",
                "checkin_missed", "checkin_escalated", "route_changed"}
Notice == [type: NoticeTypes, deadline: Times]
Note(type, deadline) == [type |-> type, deadline |-> deadline]

Deadline(row) ==
    row.grace + (IF row.expected # NoTime THEN row.expected
                 ELSE IF row.checkin # NoTime THEN row.checkin
                 ELSE row.started)

\* Faulty variants (FaultyX, each before the X it replaces): slips one could make
\* in the code, kept to show that a property notices them.
\* Escalates as soon as the deadline is missed.
FaultyStageAtNoDelay(row, t) == IF t >= Deadline(row) THEN 2 ELSE 0

StageAt(row, t) ==
    IF t >= Deadline(row) + EscalationDelay THEN 2
    ELSE IF t >= Deadline(row) THEN 1
    ELSE 0

\* Ignores the watermark: every stage up to the present one, again.
FaultyStageEvents(row, stage) ==
    SubSeq(<<Note("checkin_missed", Deadline(row)), Note("checkin_escalated", Deadline(row))>>,
           1, stage)

\* The notifications of stages notified_stage+1 .. stage, in that order.
StageEvents(row, stage) ==
    SubSeq(<<Note("checkin_missed", Deadline(row)), Note("checkin_escalated", Deadline(row))>>,
           row.notified + 1, stage)

\* The watermark of a first missed check-in already covers stage 2.
FaultyStaged(row, stage) ==
    [row EXCEPT !.status = IF stage >= 2 THEN "ESCALATED" ELSE "ACTIVE",
                !.stage = stage, !.notified = IF stage >= 1 THEN 2 ELSE 0]

Staged(row, stage) ==
    [row EXCEPT !.status = IF stage >= 2 THEN "ESCALATED" ELSE "ACTIVE",
                !.stage = stage, !.notified = stage]

-----------------------------------------------------------------------------
Steps == {"idle", "evaluate", "persist", "insert", "write", "emit",
          "checksos", "startsos", "recordsos"}
ReqOps == {"none", "create", "active", "get", "location", "dashboard", "end"}

\* pc: the next step; sid, row: the row read, as it was when read; events: the
\* notifications the handler still has to record.
Request == [pc: Steps, op: ReqOps, sid: SessionIds \cup {NoOne}, row: Row,
            events: Seq(Notice)]
Idle == [pc |-> "idle", op |-> "none", sid |-> NoOne, row |-> BlankRow, events |-> <<>>]

\* The duplicate check forgets that an ESCALATED journey is still open.
FaultyLiveOf(c) == {s \in SessionIds : sessions[s].client = c /\ sessions[s].status = "ACTIVE"}

LiveOf(c) == {s \in SessionIds : sessions[s].client = c /\ sessions[s].status \in Live}
Newest(c) == {s \in LiveOf(c) : \A t \in LiveOf(c) : sessions[t].started <= sessions[s].started}
Free == {s \in SessionIds : sessions[s].status = "FREE"}
RoomToCreate == Cardinality(Free) > Cardinality({w \in Workers : req[w].op = "create"})
RoomToLog(s) == Len(notices[s]) < MaxNotices

Init ==
    /\ now = 0
    /\ sessions = [s \in SessionIds |-> BlankRow]
    /\ notices = [s \in SessionIds |-> <<>>]
    /\ emergencies = [c \in Clients |-> [active |-> 0, auto |-> 0, noted |-> 0]]
    /\ req = [w \in Workers |-> Idle]

Tick ==
    /\ now < MaxTime
    /\ now' = now + 1
    /\ UNCHANGED <<sessions, notices, emergencies, req>>

-----------------------------------------------------------------------------
(* The SELECT of a request.  POST /guardian/sessions, GET .../active and   *)
(* the privacy dashboard read the client's newest live row; GET .../{id}   *)
(* and POST .../{id}/location read the row they name.                      *)

Reading(w, op, s) ==
    req' = [req EXCEPT ![w] = [pc |-> "evaluate", op |-> op, sid |-> s,
                               row |-> sessions[s], events |-> <<>>]]

SelectNewest(w, c, op) ==
    /\ op \in Ops \cap {"create", "active", "dashboard"}
    /\ req[w] = Idle
    /\ op = "create" => RoomToCreate
    /\ \E s \in Newest(c) : RoomToLog(s) /\ Reading(w, op, s)
    /\ UNCHANGED <<now, sessions, notices, emergencies>>

\* No live row: only create goes on, to its INSERT.
SelectNone(w, c) ==
    /\ "create" \in Ops
    /\ req[w] = Idle
    /\ LiveOf(c) = {}
    /\ RoomToCreate
    /\ req' = [req EXCEPT ![w] = [pc |-> "insert", op |-> "create", sid |-> NoOne,
                               row |-> [BlankRow EXCEPT !.client = c], events |-> <<>>]]
    /\ UNCHANGED <<now, sessions, notices, emergencies>>

SelectById(w, s, op) ==
    /\ op \in Ops \cap {"get", "location"}
    /\ req[w] = Idle
    /\ sessions[s].status # "FREE"
    /\ RoomToLog(s)
    /\ Reading(w, op, s)
    /\ UNCHANGED <<now, sessions, notices, emergencies>>

-----------------------------------------------------------------------------
\* GET .../{id} shows the journey and forgets to record the events.
FaultyAnswered(r) ==
    CASE r.op = "active" /\ r.events # <<>> -> [r EXCEPT !.pc = "emit"]
      [] r.op = "location" /\ r.row.status \in Live -> [r EXCEPT !.pc = "write", !.events = <<>>]
      [] OTHER -> Idle

\* What the handler does with the store's answer (session, events): the two
\* GETs record the events; create answers 409 and the dashboard its view, both
\* dropping them; location drops them and goes on to its UPDATE.
Answered(r) ==
    CASE r.op \in {"active", "get"} /\ r.events # <<>> -> [r EXCEPT !.pc = "emit"]
      [] r.op = "location" /\ r.row.status \in Live -> [r EXCEPT !.pc = "write", !.events = <<>>]
      [] OTHER -> Idle

\* _evaluate on the row as read, at the present time.
Evaluate(w) ==
    /\ req[w].pc = "evaluate"
    /\ LET row == req[w].row
           stage == StageAt(row, now)
       IN  req' = [req EXCEPT ![w] =
                     IF row.status \notin Live \/ stage = row.stage
                     THEN Answered(req[w])
                     ELSE [@ EXCEPT !.pc = "persist", !.row = Staged(row, stage),
                                    !.events = StageEvents(row, stage)]]
    /\ UNCHANGED <<now, sessions, notices, emergencies>>

\* _persist_guardian: UPDATE ... WHERE id = :id, whatever the row is by now.
Persist(w) ==
    /\ req[w].pc = "persist"
    /\ LET row == req[w].row
       IN  sessions' = [sessions EXCEPT ![req[w].sid] =
                          [@ EXCEPT !.status = row.status, !.stage = row.stage,
                                    !.notified = row.notified]]
    /\ req' = [req EXCEPT ![w] = Answered(req[w])]
    /\ UNCHANGED <<now, notices, emergencies>>

Insert(w) ==
    /\ req[w].pc = "insert"
    /\ \E s \in Free, g \in Graces, e \in Arrivals, p \in Geometries :
          LET row == [BlankRow EXCEPT !.client = req[w].row.client, !.status = "ACTIVE",
                                      !.started = now, !.grace = g, !.expected = e, !.planned = p]
          IN  /\ sessions' = [sessions EXCEPT ![s] = row]
              /\ req' = [req EXCEPT ![w] =
                           [@ EXCEPT !.pc = "emit", !.sid = s, !.row = row,
                                     !.events = <<Note("guardian_started", Deadline(row))>>]]
    /\ UNCHANGED <<now, notices, emergencies>>

\* The UPDATE of update_guardian_location.  The fix is off the route or not; only
\* a journey with a planned geometry can deviate; :det comes from the row as read.
WriteLocation(w) ==
    /\ req[w].pc = "write"
    /\ \E off \in BOOLEAN :
          LET r == req[w]
              s == r.sid
              detected == r.row.deviated \/ (off /\ r.row.planned)
          IN  IF sessions[s].status \notin Live
              THEN /\ req' = [req EXCEPT ![w] = Idle]
                   /\ UNCHANGED sessions
              ELSE /\ sessions' = [sessions EXCEPT ![s].deviated = detected]
                   /\ req' = [req EXCEPT ![w] =
                                IF detected /\ ~r.row.deviated
                                THEN [r EXCEPT !.pc = "emit",
                                               !.events = <<Note("route_changed", NoTime)>>]
                                ELSE Idle]
    /\ UNCHANGED <<now, notices, emergencies>>

\* Any missed check-in sets off the SOS.
FaultyEmit(w) ==
    /\ req[w].pc = "emit"
    /\ LET r == req[w]
           event == Head(r.events)
       IN  /\ notices' = [notices EXCEPT ![r.sid] = Append(@, event)]
           /\ req' = [req EXCEPT ![w] =
                        IF Tail(r.events) # <<>> THEN [r EXCEPT !.events = Tail(@)]
                        ELSE IF AutoSos /\ event.type = "checkin_missed"
                             THEN [r EXCEPT !.pc = "checksos", !.events = <<>>]
                             ELSE Idle]
    /\ UNCHANGED <<now, sessions, emergencies>>

\* _emit and the handlers' own notifications.record: one transaction per event.
\* checkin_escalated can only come last, and is what _maybe_auto_sos looks for.
Emit(w) ==
    /\ req[w].pc = "emit"
    /\ LET r == req[w]
           event == Head(r.events)
       IN  /\ notices' = [notices EXCEPT ![r.sid] = Append(@, event)]
           /\ req' = [req EXCEPT ![w] =
                        IF Tail(r.events) # <<>> THEN [r EXCEPT !.events = Tail(@)]
                        ELSE IF AutoSos /\ event.type = "checkin_escalated"
                             THEN [r EXCEPT !.pc = "checksos", !.events = <<>>]
                             ELSE Idle]
    /\ UNCHANGED <<now, sessions, emergencies>>

-----------------------------------------------------------------------------
(* _maybe_auto_sos: look for an active emergency, start one, record it.    *)

CheckSos(w) ==
    /\ req[w].pc = "checksos"
    /\ req' = [req EXCEPT ![w] = IF emergencies[@.row.client].active > 0 THEN Idle
                                 ELSE [@ EXCEPT !.pc = "startsos"]]
    /\ UNCHANGED <<now, sessions, notices, emergencies>>

StartSos(w) ==
    /\ req[w].pc = "startsos"
    /\ LET c == req[w].row.client
       IN  emergencies' = [emergencies EXCEPT ![c] =
                             [emergencies[c] EXCEPT !.active = @ + 1, !.auto = @ + 1]]
    /\ req' = [req EXCEPT ![w].pc = "recordsos"]
    /\ UNCHANGED <<now, sessions, notices>>

RecordSos(w) ==
    /\ req[w].pc = "recordsos"
    /\ emergencies' = [emergencies EXCEPT ![req[w].row.client].noted = @ + 1]
    /\ req' = [req EXCEPT ![w] = Idle]
    /\ UNCHANGED <<now, sessions, notices>>

-----------------------------------------------------------------------------
(* Check-in and end are one guarded UPDATE each.                           *)

\* A check-in that takes back one stage.
FaultyCheckinOneStageBack(w, s) ==
    /\ "checkin" \in Ops
    /\ req[w] = Idle
    /\ sessions[s].status \in Live
    /\ sessions' = [sessions EXCEPT ![s] =
                      [@ EXCEPT !.checkin = now, !.expected = NoTime, !.status = "ACTIVE",
                                !.stage = @ - 1, !.notified = @ - 1]]
    /\ UNCHANGED <<now, notices, emergencies, req>>

\* A check-in that moves the deadline and leaves the stage.
FaultyCheckinKeepsStage(w, s) ==
    /\ "checkin" \in Ops
    /\ req[w] = Idle
    /\ sessions[s].status \in Live
    /\ sessions' = [sessions EXCEPT ![s] = [@ EXCEPT !.checkin = now, !.expected = NoTime]]
    /\ UNCHANGED <<now, notices, emergencies, req>>

\* A check-in that resets the stages and leaves the status.
FaultyCheckinKeepsStatus(w, s) ==
    /\ "checkin" \in Ops
    /\ req[w] = Idle
    /\ sessions[s].status \in Live
    /\ sessions' = [sessions EXCEPT ![s] =
                      [@ EXCEPT !.checkin = now, !.expected = NoTime, !.stage = 0, !.notified = 0]]
    /\ UNCHANGED <<now, notices, emergencies, req>>

Checkin(w, s) ==
    /\ "checkin" \in Ops
    /\ req[w] = Idle
    /\ sessions[s].status \in Live
    /\ sessions' = [sessions EXCEPT ![s] =
                      [@ EXCEPT !.checkin = now, !.expected = NoTime, !.status = "ACTIVE",
                                !.stage = 0, !.notified = 0]]
    /\ UNCHANGED <<now, notices, emergencies, req>>

End(w, s, reason) ==
    /\ "end" \in Ops
    /\ req[w] = Idle
    /\ sessions[s].status \in Live
    /\ RoomToLog(s)
    /\ sessions' = [sessions EXCEPT ![s].status = IF reason = "arrived" THEN "COMPLETED"
                                                   ELSE "CANCELLED"]
    /\ req' = [req EXCEPT ![w] =
                 [pc |-> "emit", op |-> "end", sid |-> s, row |-> sessions'[s],
                  events |-> <<Note(IF reason = "arrived" THEN "journey_completed"
                                    ELSE "guardian_ended", NoTime)>>]]
    /\ UNCHANGED <<now, notices, emergencies>>

\* The owner's own SOS, through api/emergency.py.
OwnerStartsSos(c) ==
    /\ "sos" \in Ops
    /\ emergencies[c].active < MaxSos
    /\ emergencies' = [emergencies EXCEPT ![c].active = @ + 1]
    /\ UNCHANGED <<now, sessions, notices, req>>

OwnerEndsSos(c) ==
    /\ "sos" \in Ops
    /\ emergencies[c].active > 0
    /\ emergencies' = [emergencies EXCEPT ![c].active = @ - 1]
    /\ UNCHANGED <<now, sessions, notices, req>>

\* The process dies: the tables stay, every request in flight is lost.
Crash ==
    /\ MayCrash
    /\ \E w \in Workers : req[w] # Idle
    /\ req' = [w \in Workers |-> Idle]
    /\ UNCHANGED <<now, sessions, notices, emergencies>>

-----------------------------------------------------------------------------
\* A step the server owes a request it has accepted.
Step(w) ==
    \/ Evaluate(w) \/ Persist(w) \/ Insert(w) \/ WriteLocation(w) \/ Emit(w)
    \/ CheckSos(w) \/ StartSos(w) \/ RecordSos(w)

\* A request arrives.
Arrive(w) ==
    \/ \E c \in Clients, op \in {"create", "active", "dashboard"} : SelectNewest(w, c, op)
    \/ \E c \in Clients : SelectNone(w, c)
    \/ \E s \in SessionIds, op \in {"get", "location"} : SelectById(w, s, op)
    \/ \E s \in SessionIds : Checkin(w, s)
    \/ \E s \in SessionIds, reason \in {"arrived", "cancelled"} : End(w, s, reason)

Next ==
    \/ Tick
    \/ \E w \in Workers : Step(w) \/ Arrive(w)
    \/ \E c \in Clients : OwnerStartsSos(c) \/ OwnerEndsSos(c)
    \/ Crash

Spec == Init /\ [][Next]_vars

\* Time passes and the thread pool finishes what it started; clients owe nothing.
ServerSpec == Spec /\ WF_vars(Tick) /\ \A w \in Workers : WF_vars(Step(w))

\* Besides, the owner's screen is open: GuardianPanel.tsx:13 reads
\* /guardian/sessions/active again every 10 seconds, and some thread serves it.
Polled == \A c \in Clients : SF_vars(\E w \in Workers : SelectNewest(w, c, "active"))
PolledSpec == ServerSpec /\ Polled

\* A check-in came between the read and the UPDATE of an evaluation.
Overtaken(w) == req[w].pc = "persist" /\ Deadline(sessions[req[w].sid]) # Deadline(req[w].row)

\* Of the behaviours of PolledSpec, those in which no evaluation writes over a check-in:
\* _persist_guardian would (WHERE id only), as soon as two requests are served at once.
UndisturbedSpec ==
    /\ Init /\ [][Next /\ \A w \in Workers : Overtaken(w) => ~Persist(w)]_vars
    /\ WF_vars(Tick) /\ \A w \in Workers : WF_vars(Step(w))
    /\ Polled

-----------------------------------------------------------------------------
TypeOK ==
    /\ now \in Nat
    /\ sessions \in [SessionIds -> Row]
    /\ notices \in [SessionIds -> Seq(Notice)]
    /\ emergencies \in [Clients -> EmergencyCount]
    /\ req \in [Workers -> Request]

IsStage(n) == n.type \in {"checkin_missed", "checkin_escalated"}

\* When a stage's notification is due, given the deadline it is about.
DueAt(n) == IF n.type = "checkin_escalated" THEN n.deadline + EscalationDelay ELSE n.deadline

\* However requests interleave, no missed or escalated notification is recorded
\* before its time: the deadline _evaluate read, plus the escalation delay.
NoticesAreDue ==
    \A s \in SessionIds : \A i \in 1..Len(notices[s]) :
        IsStage(notices[s][i]) => DueAt(notices[s][i]) <= now

\* However the UPDATEs of check-ins, ends, fixes and stale evaluations interleave,
\* a live row shows ESCALATED exactly when its stage is 2, and the watermark
\* notified_stage never parts from escalation_stage.
StageMatchesStatus ==
    \A s \in SessionIds :
        /\ sessions[s].notified = sessions[s].stage
        /\ sessions[s].status \in Live => (sessions[s].status = "ESCALATED" <=> sessions[s].stage = 2)

\* guardian.py:8-9: a stage of a missed check-in is notified at most once.
AtMostOncePerStage ==
    \A s \in SessionIds : \A i, j \in 1..Len(notices[s]) :
        (IsStage(notices[s][i]) /\ notices[s][i] = notices[s][j]) => i = j

Pending(s) ==
    UNION {{req[w].events[i] : i \in 1..Len(req[w].events)} :
             w \in {v \in Workers : req[v].sid = s /\ req[v].op \in {"active", "get"}}}
Recorded(s) == {notices[s][i] : i \in 1..Len(notices[s])}

StageOf(n) == IF n.type = "checkin_escalated" THEN 2 ELSE 1

\* The stages that the watermark of a row says were notified.
Announced(row) ==
    {n \in {Note("checkin_missed", Deadline(row)), Note("checkin_escalated", Deadline(row))} :
        StageOf(n) <= row.notified}

\* Of those, the ones that are neither recorded nor about to be: no later read
\* will find them, since the watermark covers them.
Forgotten(s) == Announced(sessions[s]) \ (Recorded(s) \cup Pending(s))

\* The row changed between the read of the request and its UPDATE: the deadline or
\* the watermark is no longer what the evaluation started from.
Outdated(r) ==
    \/ Deadline(sessions[r.sid]) # Deadline(r.row)
    \/ sessions[r.sid].notified + Len(r.events) # r.row.notified

\* For any number of requests at once: a stage is forgotten only by the UPDATE of a
\* handler that drops the events (a refused create, the dashboard, a location fix),
\* by the UPDATE of an evaluation whose row another request has changed since, or
\* by a crash.  No other order of steps loses a notification.
OnlyDropsForget ==
    [][\A s \in SessionIds :
          \/ Forgotten(s)' \subseteq Forgotten(s)
          \/ Crash
          \/ \E w \in Workers :
                /\ Persist(w) /\ req[w].sid = s
                /\ req[w].op \notin {"active", "get"} \/ Outdated(req[w])]_vars

\* With one request at a time a journey never shows a stage that the clock has not
\* reached: whatever check-ins, fixes and reads came before, stage and deadline move
\* together.  (With two, an evaluation in flight may write over a check-in.)
StageIsDue ==
    \A s \in SessionIds :
        sessions[s].stage >= 1 => now >= Deadline(sessions[s]) + (sessions[s].stage - 1) * EscalationDelay

\* docs/current-status.md:101: a guardian session lasts until it is ended.
EndedStaysEnded ==
    [][\A s \in SessionIds : sessions[s].status \in {"COMPLETED", "CANCELLED"}
                              => sessions'[s].status = sessions[s].status]_vars

\* guardian.py:4, api/guardian.py:5: one live guardian journey per client.
OneLivePerClient ==
    \A s, t \in SessionIds :
        (/\ sessions[s].status \in Live /\ sessions[t].status \in Live
         /\ sessions[s].client = sessions[t].client) => s = t

EscalationsOf(c) ==
    UNION {{s} \X {i \in 1..Len(notices[s]) : notices[s][i].type = "checkin_escalated"} :
             s \in {t \in SessionIds : sessions[t].client = c}}

\* An SOS nobody pressed: the auto-SOS path starts no more emergencies for a
\* client than it recorded escalations, and records no more than it started.
AutoSosIsJustified ==
    \A c \in Clients :
        /\ emergencies[c].auto <= Cardinality(EscalationsOf(c))
        /\ emergencies[c].noted <= emergencies[c].auto

\* guardian.py:7-8: a journey left past its deadline and the escalation delay is
\* escalated and notified, unless the owner checks in or ends it first.  It takes a
\* panel that polls, calls that keep their events, and evaluations that write over no
\* check-in (UndisturbedSpec), however many requests are served at once otherwise.
MissedCheckinEscalates ==
    \A s \in SessionIds : \A d \in 0..MaxTime :
        (sessions[s].status \in Live /\ Deadline(sessions[s]) = d /\ now >= d + EscalationDelay)
          ~> \/ Note("checkin_escalated", d) \in Recorded(s)
             \/ sessions[s].status \notin Live
             \/ Deadline(sessions[s]) # d

-----------------------------------------------------------------------------
PhaseOf(row) == IF row.status = "FREE" THEN "none"
                ELSE IF row.status \in Live THEN "open" ELSE "closed"

Contract == INSTANCE EscalationContract WITH
    Journeys <- SessionIds,
    Nobody <- NoOne,
    owner <- [s \in SessionIds |-> sessions[s].client],
    phase <- [s \in SessionIds |-> PhaseOf(sessions[s])],
    log <- notices

\* One request at a time, with crashes, keeps every promise of the contract.
KeepsContract == Contract!Spec
=============================================================================
