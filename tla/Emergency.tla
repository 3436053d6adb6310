----------------------------- MODULE Emergency -----------------------------
(***************************************************************************)
(* SOS sessions and live location sharing: PostgresEmergencyStore          *)
(* (safety/sessions.py) under the handlers of api/emergency.py, with the   *)
(* delivery and recording of their notifications (safety/notifications.py, *)
(* notify/telegram.py).  As in Guardian, a request is a thread's sequence  *)
(* of transactions; here the ones that write are each a guarded UPDATE.    *)
(* A refused request (429, 404, 409) changes nothing and is a stutter.     *)
(***************************************************************************)
EXTENDS Integers, FiniteSets

CONSTANTS
    Clients,       \* client ids
    EmergencyIds,  \* ids of emergency_sessions
    SharingIds,    \* ids of location_sharing_sessions
    Workers,       \* threads of the server's pool
    TTLs,          \* ttl_s values clients ask for
    MaxTTL,        \* settings.location_sharing_max_ttl_s
    Provider,      \* settings.notify_channel, "telegram" being configured or not
    MayCrash,      \* may the server process die and restart?
    MaxTime        \* bound on the clock

Sessions == EmergencyIds \cup SharingIds

ASSUME IdsAssumption == EmergencyIds \cap SharingIds = {}
ASSUME TTLAssumption == TTLs \subseteq Nat \ {0} /\ MaxTTL \in Nat \ {0} /\ MaxTime \in Nat
ASSUME SettingsAssumption ==
    Provider \in {"none", "sms", "telegram", "unconfigured"} /\ MayCrash \in BOOLEAN

VARIABLES
    now,          \* the clock
    emergencies,  \* the emergency_sessions table
    sharings,     \* the location_sharing_sessions table
    rows,         \* notification_events: how many rows each notice has
    sent,         \* ... how many of them say 'sent'
    delivered,    \* how many times Telegram put a notice in the chat
    req           \* the request each worker is serving

vars == <<now, emergencies, sharings, rows, sent, delivered, req>>

-----------------------------------------------------------------------------
NoTime == -1
NoOne == "none"
Times == Nat \cup {NoTime}

\* known / fix: last_known_at, last_updated_at (the time of the position kept).
EmergencyRow == [client: Clients \cup {NoOne}, status: {"FREE", "ACTIVE", "ENDED"},
                 ended: Times, known: Times]
SharingRow == [client: Clients \cup {NoOne}, status: {"FREE", "ACTIVE", "STOPPED", "EXPIRED"},
               owner: EmergencyIds \cup {NoOne}, started: Nat, expires: Nat,
               stopped: Times, fix: Times]

FreeEmergency == [client |-> NoOne, status |-> "FREE", ended |-> NoTime, known |-> NoTime]
FreeSharing == [client |-> NoOne, status |-> "FREE", owner |-> NoOne, started |-> 0,
                expires |-> 0, stopped |-> NoTime, fix |-> NoTime]

\* sos_started and location_sharing_started "open" a session, sos_ended and
\* location_sharing_stopped "close" it.
Notices == Sessions \X {"opened", "closed"}

\* pc: the next step; client: who asks for an SOS; sid, expires: the session, and
\* the expiry read; notice: what is to be recorded; ok: what _delivery answered.
Steps == {"idle", "insert", "evaluate", "mark", "deliver", "record"}
Request == [pc: Steps, client: Clients \cup {NoOne}, sid: Sessions \cup {NoOne},
            expires: Nat, notice: {"opened", "closed"}, ok: BOOLEAN]
Idle == [pc |-> "idle", client |-> NoOne, sid |-> NoOne, expires |-> 0,
         notice |-> "opened", ok |-> FALSE]

ActiveEmergencies(c) ==
    {e \in EmergencyIds : emergencies[e].client = c /\ emergencies[e].status = "ACTIVE"}
RoomToCreate == Cardinality({e \in EmergencyIds : emergencies[e].status = "FREE"})
                  > Cardinality({w \in Workers : req[w].pc = "insert"})

\* The handler goes on to notifications.record.
Recording(w, sid, notice) ==
    req' = [req EXCEPT ![w] = [pc |-> "deliver", client |-> NoOne, sid |-> sid, expires |-> 0,
                               notice |-> notice, ok |-> FALSE]]

Init ==
    /\ now = 0
    /\ emergencies = [e \in EmergencyIds |-> FreeEmergency]
    /\ sharings = [s \in SharingIds |-> FreeSharing]
    /\ rows = [n \in Notices |-> 0]
    /\ sent = [n \in Notices |-> 0]
    /\ delivered = [n \in Notices |-> 0]
    /\ req = [w \in Workers |-> Idle]

Tick ==
    /\ now < MaxTime
    /\ now' = now + 1
    /\ UNCHANGED <<emergencies, sharings, rows, sent, delivered, req>>

-----------------------------------------------------------------------------
(* POST /emergency/sessions: look for an active one, then INSERT.          *)

CheckActive(w, c) ==
    /\ req[w] = Idle
    /\ ActiveEmergencies(c) = {}
    /\ RoomToCreate
    /\ req' = [req EXCEPT ![w] = [pc |-> "insert", client |-> c, sid |-> NoOne, expires |-> 0,
                               notice |-> "opened", ok |-> FALSE]]
    /\ UNCHANGED <<now, emergencies, sharings, rows, sent, delivered>>

InsertEmergency(w) ==
    /\ req[w].pc = "insert"
    /\ \E e \in EmergencyIds, located \in BOOLEAN :
          /\ emergencies[e].status = "FREE"
          /\ emergencies' = [emergencies EXCEPT ![e] =
                               [client |-> req[w].client, status |-> "ACTIVE", ended |-> NoTime,
                                known |-> IF located THEN now ELSE NoTime]]
          /\ Recording(w, e, "opened")
    /\ UNCHANGED <<now, sharings, rows, sent, delivered>>

\* POST /emergency/sessions/{id}/location: one UPDATE of an ACTIVE row.
UpdateEmergencyLocation(w, e) ==
    /\ req[w] = Idle
    /\ emergencies[e].status = "ACTIVE"
    /\ emergencies' = [emergencies EXCEPT ![e].known = now]
    /\ UNCHANGED <<now, sharings, rows, sent, delivered, req>>

\* Ends the session twice.
FaultyEndEmergency(w, e) ==
    /\ req[w] = Idle
    /\ emergencies[e].status # "FREE"
    /\ emergencies' = [emergencies EXCEPT ![e] =
                         [emergencies[e] EXCEPT !.status = "ENDED", !.ended = now]]
    /\ Recording(w, e, "closed")
    /\ UNCHANGED <<now, sharings, rows, sent, delivered>>

\* POST /emergency/sessions/{id}/end.
EndEmergency(w, e) ==
    /\ req[w] = Idle
    /\ emergencies[e].status = "ACTIVE"
    /\ emergencies' = [emergencies EXCEPT ![e] =
                         [emergencies[e] EXCEPT !.status = "ENDED", !.ended = now]]
    /\ Recording(w, e, "closed")
    /\ UNCHANGED <<now, sharings, rows, sent, delivered>>

-----------------------------------------------------------------------------
(* POST /location-sharing.  The owner session is only looked up, never     *)
(* asked to be active, and rows are never deleted, so the lookup and the   *)
(* INSERT are one step.                                                    *)

StartSharing(w, c, s, owner, ttl) ==
    /\ req[w] = Idle
    /\ sharings[s].status = "FREE"
    /\ owner # NoOne => emergencies[owner].client = c
    /\ sharings' = [sharings EXCEPT ![s] =
                      [client |-> c, status |-> "ACTIVE", owner |-> owner, started |-> now,
                       expires |-> now + (IF ttl < MaxTTL THEN ttl ELSE MaxTTL),
                       stopped |-> NoTime, fix |-> NoTime]]
    /\ Recording(w, s, "opened")
    /\ UNCHANGED <<now, emergencies, rows, sent, delivered>>

\* The SELECT of GET /location-sharing/active and of the privacy dashboard
\* (newest ACTIVE row), and of GET /location-sharing/{id}.
ReadSharing(w, s) ==
    /\ req[w] = Idle
    /\ sharings[s].status = "ACTIVE"
    /\ req' = [req EXCEPT ![w] = [pc |-> "evaluate", client |-> NoOne, sid |-> s,
                               expires |-> sharings[s].expires, notice |-> "opened", ok |-> FALSE]]
    /\ UNCHANGED <<now, emergencies, sharings, rows, sent, delivered>>

\* _expire_lazily on the row as read; _expire_lazily leaves a row alone that is
\* not ACTIVE or not yet past its expiry.
ExpireLazily(w) ==
    /\ req[w].pc = "evaluate"
    /\ req' = [req EXCEPT ![w] = IF req[w].expires < now THEN [@ EXCEPT !.pc = "mark"] ELSE Idle]
    /\ UNCHANGED <<now, emergencies, sharings, rows, sent, delivered>>

\* Trusts the row as it was read.
FaultyMarkExpired(w) ==
    /\ req[w].pc = "mark"
    /\ sharings' = [sharings EXCEPT ![req[w].sid].status = "EXPIRED"]
    /\ req' = [req EXCEPT ![w] = Idle]
    /\ UNCHANGED <<now, emergencies, rows, sent, delivered>>

\* _mark_expired re-checks status and expiry in its WHERE clause.
MarkExpired(w) ==
    /\ req[w].pc = "mark"
    /\ LET s == req[w].sid
       IN  sharings' = IF sharings[s].status = "ACTIVE" /\ sharings[s].expires <= now
                       THEN [sharings EXCEPT ![s].status = "EXPIRED"]
                       ELSE sharings
    /\ req' = [req EXCEPT ![w] = Idle]
    /\ UNCHANGED <<now, emergencies, rows, sent, delivered>>

\* Leaves the expiry to the next read.
FaultyUpdateSharingLocation(w, s) ==
    /\ req[w] = Idle
    /\ sharings[s].status = "ACTIVE"
    /\ sharings' = [sharings EXCEPT ![s].fix = now]
    /\ UNCHANGED <<now, emergencies, rows, sent, delivered, req>>

\* POST /location-sharing/{id}/location.
UpdateSharingLocation(w, s) ==
    /\ req[w] = Idle
    /\ sharings[s].status = "ACTIVE"
    /\ sharings[s].expires > now
    /\ sharings' = [sharings EXCEPT ![s].fix = now]
    /\ UNCHANGED <<now, emergencies, rows, sent, delivered, req>>

\* Writes the word the other table uses.
FaultyStopSharing(w, s) ==
    /\ req[w] = Idle
    /\ sharings[s].status = "ACTIVE"
    /\ sharings' = [sharings EXCEPT ![s] = [@ EXCEPT !.status = "ENDED", !.stopped = now]]
    /\ Recording(w, s, "closed")
    /\ UNCHANGED <<now, emergencies, rows, sent, delivered>>

\* POST /location-sharing/{id}/stop.
StopSharing(w, s) ==
    /\ req[w] = Idle
    /\ sharings[s].status = "ACTIVE"
    /\ sharings' = [sharings EXCEPT ![s] =
                      [sharings[s] EXCEPT !.status = "STOPPED", !.stopped = now]]
    /\ Recording(w, s, "closed")
    /\ UNCHANGED <<now, emergencies, rows, sent, delivered>>

-----------------------------------------------------------------------------
(* notifications.record: _delivery, then the INSERT of the event.          *)

\* Takes an unanswered send for a delivered one.
FaultyDeliver(w) ==
    /\ req[w].pc = "deliver"
    /\ \E arrives \in BOOLEAN :
          /\ delivered' = [delivered EXCEPT ![<<req[w].sid, req[w].notice>>] =
                             IF arrives THEN @ + 1 ELSE @]
          /\ req' = [req EXCEPT ![w] = [@ EXCEPT !.pc = "record", !.ok = Provider = "telegram"]]
    /\ UNCHANGED <<now, emergencies, sharings, rows, sent>>

\* send_telegram answers TRUE on HTTP 200 only; a message may be in the chat and
\* its answer lost.  Without a provider nothing is sent.
Deliver(w) ==
    /\ req[w].pc = "deliver"
    /\ \E arrives \in (IF Provider = "telegram" THEN BOOLEAN ELSE {FALSE}), answered \in BOOLEAN :
          /\ delivered' = [delivered EXCEPT ![<<req[w].sid, req[w].notice>>] =
                             IF arrives THEN @ + 1 ELSE @]
          /\ req' = [req EXCEPT ![w] = [@ EXCEPT !.pc = "record", !.ok = arrives /\ answered]]
    /\ UNCHANGED <<now, emergencies, sharings, rows, sent>>

RecordEvent(w) ==
    /\ req[w].pc = "record"
    /\ LET n == <<req[w].sid, req[w].notice>>
       IN  /\ rows' = [rows EXCEPT ![n] = @ + 1]
           /\ sent' = [sent EXCEPT ![n] = IF req[w].ok THEN @ + 1 ELSE @]
    /\ req' = [req EXCEPT ![w] = Idle]
    /\ UNCHANGED <<now, emergencies, sharings, delivered>>

\* The process dies: tables and chat stay, every request in flight is lost.
Crash ==
    /\ MayCrash
    /\ \E w \in Workers : req[w] # Idle
    /\ req' = [w \in Workers |-> Idle]
    /\ UNCHANGED <<now, emergencies, sharings, rows, sent, delivered>>

-----------------------------------------------------------------------------
Serve(w) ==
    \/ InsertEmergency(w) \/ ExpireLazily(w) \/ MarkExpired(w) \/ Deliver(w) \/ RecordEvent(w)

Arrive(w) ==
    \/ \E c \in Clients : CheckActive(w, c)
    \/ \E e \in EmergencyIds : UpdateEmergencyLocation(w, e) \/ EndEmergency(w, e)
    \/ \E c \in Clients, s \in SharingIds, owner \in EmergencyIds \cup {NoOne}, ttl \in TTLs :
          StartSharing(w, c, s, owner, ttl)
    \/ \E s \in SharingIds : ReadSharing(w, s) \/ UpdateSharingLocation(w, s) \/ StopSharing(w, s)

Next == Tick \/ (\E w \in Workers : Serve(w) \/ Arrive(w)) \/ Crash

Spec == Init /\ [][Next]_vars

-----------------------------------------------------------------------------
TypeOK ==
    /\ now \in Nat
    /\ emergencies \in [EmergencyIds -> EmergencyRow]
    /\ sharings \in [SharingIds -> SharingRow]
    /\ rows \in [Notices -> Nat]
    /\ sent \in [Notices -> Nat]
    /\ delivered \in [Notices -> Nat]
    /\ req \in [Workers -> Request]

\* api/emergency.py:7, sessions.py:7-8: a position is kept only while its owner
\* consents: before the expiry, which the cap bounds, and never after a stop or
\* an end, whatever update is in flight when they happen.
FixWithinConsent ==
    /\ \A s \in SharingIds :
          LET row == sharings[s]
          IN  row.fix # NoTime =>
                /\ row.fix < row.expires /\ row.fix < row.started + MaxTTL
                /\ row.status = "STOPPED" => row.fix <= row.stopped
    /\ \A e \in EmergencyIds :
          emergencies[e].status = "ENDED" => emergencies[e].known <= emergencies[e].ended

StatusOf(x) == IF x \in EmergencyIds THEN emergencies[x].status ELSE sharings[x].status

\* schema.sql:249: every notification has a real source event.  A recorded or
\* delivered notice is about a session that exists and, when it says the session
\* is over, is over; it is recorded and delivered at most once.
NoticesHaveSource ==
    \A x \in Sessions :
        /\ StatusOf(x) = "FREE" => rows[<<x, "opened">>] = 0 /\ delivered[<<x, "opened">>] = 0
        /\ StatusOf(x) \notin {"ENDED", "STOPPED"}
             => rows[<<x, "closed">>] = 0 /\ delivered[<<x, "closed">>] = 0
        /\ \A k \in {"opened", "closed"} : rows[<<x, k>>] <= 1 /\ delivered[<<x, k>>] <= 1

\* notifications.py:3-8: no fake delivery.  A notice is never reported as sent
\* more often than it reached the chat.
SentIsDelivered == \A n \in Notices : sent[n] <= delivered[n]

\* An ended SOS and a stopped or expired sharing stay so, whatever stale read of
\* the row is still in flight; EXPIRED is only written once the expiry has come.
OverIsOver ==
    [][/\ \A e \in EmergencyIds : emergencies[e].status = "ENDED" => emergencies'[e] = emergencies[e]
       /\ \A s \in SharingIds :
             /\ sharings[s].status \in {"STOPPED", "EXPIRED"} => sharings'[s] = sharings[s]
             /\ sharings'[s].status = "EXPIRED" => sharings'[s].expires <= now]_vars

\* sessions.py:6, api/emergency.py:6: one active emergency session per client.
OneActiveEmergency == \A c \in Clients : Cardinality(ActiveEmergencies(c)) <= 1
=============================================================================
