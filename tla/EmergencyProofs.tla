-------------------------- MODULE EmergencyProofs --------------------------
(***************************************************************************)
(* For every number of clients, sessions and workers, every TTL, every     *)
(* interleaving of requests, lost answers and crashes: the types of        *)
(* Emergency's state, FixWithinConsent, NoticesHaveSource, SentIsDelivered *)
(* and OverIsOver; and that OneActiveEmergency fails only by a race of two  *)
(* creates of the same client.                                             *)
(***************************************************************************)
EXTENDS Emergency, FiniteSetTheorems, TLAPS

TablesTyped ==
    /\ now \in Nat
    /\ emergencies \in [EmergencyIds -> EmergencyRow]
    /\ sharings \in [SharingIds -> SharingRow]
    /\ rows \in [Notices -> Nat]
    /\ sent \in [Notices -> Nat]
    /\ delivered \in [Notices -> Nat]

\* A request at a step that needs a client or a session has one.
Aimed(r) ==
    /\ r \in Request
    /\ r.pc = "insert" => r.client \in Clients
    /\ r.pc \in {"evaluate", "mark"} => r.sid \in SharingIds
    /\ r.pc \in {"deliver", "record"} => r.sid \in Sessions

\* What a row owes to consent, at time t.
KeptEmergency(row, t) ==
    /\ row.known <= t
    /\ row.status = "ENDED" => row.known <= row.ended
KeptSharing(row, t) ==
    /\ row.expires <= row.started + MaxTTL
    /\ row.fix <= t
    /\ row.fix # NoTime => row.fix < row.expires
    /\ row.status = "STOPPED" => row.fix <= row.stopped
    /\ row.status = "EXPIRED" => row.expires <= t

\* The half of the inductive invariant that is about rows.
RowsInv ==
    /\ TablesTyped
    /\ req \in [Workers -> Request]
    /\ \A w \in Workers : Aimed(req[w])
    /\ \A e \in EmergencyIds : KeptEmergency(emergencies[e], now)
    /\ \A s \in SharingIds : KeptSharing(sharings[s], now)

Kinds == {"opened", "closed"}

\* A notice of that kind may exist about a session of that status.
Told(status, kind) == status # "FREE" /\ (kind = "closed" => status \in {"ENDED", "STOPPED"})

\* A request that still has the notice <<x, kind>> to deliver or to record.
Carries(r, x, kind) == r.pc \in {"deliver", "record"} /\ r.sid = x /\ r.notice = kind

\* At most one request carries a notice, and while it does the notice is not
\* recorded, and is delivered only if that request delivered it.
Carried(w, x, kind) ==
    /\ rows[<<x, kind>>] = 0 /\ sent[<<x, kind>>] = 0
    /\ req[w].pc = "deliver" => delivered[<<x, kind>>] = 0
    /\ req[w].pc = "record" /\ req[w].ok => delivered[<<x, kind>>] = 1
    /\ \A v \in Workers : Carries(req[v], x, kind) => v = w

\* The half that is about notices.
NoticesInv ==
    \A x \in Sessions, k \in Kinds :
        /\ sent[<<x, k>>] <= delivered[<<x, k>>]
        /\ delivered[<<x, k>>] <= 1 /\ rows[<<x, k>>] <= 1
        /\ \A w \in Workers : Carries(req[w], x, k) => Carried(w, x, k)
        /\ (\/ rows[<<x, k>>] # 0
            \/ delivered[<<x, k>>] # 0
            \/ \E w \in Workers : Carries(req[w], x, k)) => Told(StatusOf(x), k)

Inv == RowsInv /\ NoticesInv

-----------------------------------------------------------------------------
LEMMA IdleIsAimed == Idle \in Request /\ Aimed(Idle)
BY DEF Idle, Request, Steps, Aimed

LEMMA InitInv == Init => Inv
<1> SUFFICES ASSUME Init PROVE Inv
  OBVIOUS
<1>1. FreeEmergency \in EmergencyRow /\ KeptEmergency(FreeEmergency, 0)
  BY DEF FreeEmergency, EmergencyRow, Times, NoTime, KeptEmergency
<1>2. FreeSharing \in SharingRow /\ KeptSharing(FreeSharing, 0)
  BY TTLAssumption DEF FreeSharing, SharingRow, Times, NoTime, KeptSharing
<1>3. TablesTyped
  BY <1>1, <1>2 DEF Init, TablesTyped
<1>4. RowsInv
  BY <1>1, <1>2, <1>3, IdleIsAimed DEF Init, RowsInv
<1>5. ASSUME NEW x \in Sessions, NEW k \in Kinds
      PROVE  rows[<<x, k>>] = 0 /\ sent[<<x, k>>] = 0 /\ delivered[<<x, k>>] = 0
  BY DEF Init, Notices, Kinds
<1>6. ASSUME NEW w \in Workers, NEW x \in Sessions, NEW k \in Kinds
      PROVE  ~Carries(req[w], x, k)
  BY DEF Init, Idle, Carries
<1>7. NoticesInv
  <2> SUFFICES ASSUME NEW x \in Sessions, NEW k \in Kinds
               PROVE  /\ sent[<<x, k>>] <= delivered[<<x, k>>]
                      /\ delivered[<<x, k>>] <= 1 /\ rows[<<x, k>>] <= 1
                      /\ \A w \in Workers : Carries(req[w], x, k) => Carried(w, x, k)
                      /\ (\/ rows[<<x, k>>] # 0
                          \/ delivered[<<x, k>>] # 0
                          \/ \E w \in Workers : Carries(req[w], x, k)) => Told(StatusOf(x), k)
    BY DEF NoticesInv
  <2>1. sent[<<x, k>>] <= delivered[<<x, k>>] /\ delivered[<<x, k>>] <= 1 /\ rows[<<x, k>>] <= 1
    BY <1>5
  <2> QED
    BY <1>5, <1>6, <2>1
<1> QED
  BY <1>4, <1>7 DEF Inv

\* A step that writes at most one row of each table and one request, each within
\* its rules, keeps the first half.
LEMMA RowsStep ==
    ASSUME RowsInv, now' = now,
           \/ emergencies' = emergencies
           \/ \E e \in EmergencyIds, row \in EmergencyRow :
                 KeptEmergency(row, now) /\ emergencies' = [emergencies EXCEPT ![e] = row],
           \/ sharings' = sharings
           \/ \E s \in SharingIds, row \in SharingRow :
                 KeptSharing(row, now) /\ sharings' = [sharings EXCEPT ![s] = row],
           \/ req' = req
           \/ \E w \in Workers, q \in Request : Aimed(q) /\ req' = [req EXCEPT ![w] = q],
           rows' \in [Notices -> Nat], sent' \in [Notices -> Nat], delivered' \in [Notices -> Nat]
    PROVE  RowsInv'
<1>1. /\ emergencies' \in [EmergencyIds -> EmergencyRow]
      /\ \A e \in EmergencyIds : KeptEmergency(emergencies'[e], now')
  BY DEF RowsInv, TablesTyped
<1>2. /\ sharings' \in [SharingIds -> SharingRow]
      /\ \A s \in SharingIds : KeptSharing(sharings'[s], now')
  BY DEF RowsInv, TablesTyped
<1>3. req' \in [Workers -> Request] /\ \A w \in Workers : Aimed(req'[w])
  BY DEF RowsInv
<1>4. TablesTyped'
  BY <1>1, <1>2 DEF RowsInv, TablesTyped
<1> QED
  BY <1>1, <1>2, <1>3, <1>4 DEF RowsInv

\* A step that touches no notice and takes none up keeps the second half, as long
\* as no session loses a status some notice is about.
LEMMA QuietStep ==
    ASSUME NoticesInv, UNCHANGED <<rows, sent, delivered>>,
           \A w \in Workers, x \in Sessions, k \in Kinds :
               Carries(req'[w], x, k) => req'[w] = req[w],
           \A x \in Sessions, k \in Kinds : Told(StatusOf(x), k) => Told(StatusOf(x)', k)
    PROVE  NoticesInv'
<1> SUFFICES ASSUME NEW x \in Sessions, NEW k \in Kinds
             PROVE  /\ \A w \in Workers : Carries(req'[w], x, k) => Carried(w, x, k)'
                    /\ (\/ rows[<<x, k>>] # 0
                        \/ delivered[<<x, k>>] # 0
                        \/ \E w \in Workers : Carries(req'[w], x, k)) => Told(StatusOf(x)', k)
  BY DEF NoticesInv, Carries, Told
<1>1. \A w \in Workers : Carries(req'[w], x, k) => Carries(req[w], x, k) /\ Carried(w, x, k)
  BY DEF NoticesInv
<1>2. \A w \in Workers : Carries(req'[w], x, k) => Carried(w, x, k)'
  BY <1>1 DEF Carried
<1> QED
  BY <1>1, <1>2 DEF NoticesInv

\* A session that opens or closes hands its notice to one request, the first to
\* carry it.
LEMMA RecordingStep ==
    ASSUME NoticesInv, UNCHANGED <<rows, sent, delivered>>, req \in [Workers -> Request],
           NEW w \in Workers, NEW y \in Sessions, NEW j \in Kinds, Recording(w, y, j),
           TablesTyped,
           ~Told(StatusOf(y), j), Told(StatusOf(y)', j),
           \A x \in Sessions, k \in Kinds : Told(StatusOf(x), k) => Told(StatusOf(x)', k)
    PROVE  NoticesInv'
<1>1. \A v \in Workers : ~Carries(req[v], y, j)
  BY DEF NoticesInv
<1>2. rows[<<y, j>>] = 0 /\ delivered[<<y, j>>] = 0 /\ sent[<<y, j>>] = 0
  <2>1. sent[<<y, j>>] \in Nat
    BY DEF TablesTyped, Notices, Kinds
  <2> QED
    BY <2>1 DEF NoticesInv
<1>3. /\ req'[w].pc = "deliver" /\ req'[w].sid = y /\ req'[w].notice = j
      /\ \A v \in Workers : v # w => req'[v] = req[v]
  BY DEF Recording
<1> SUFFICES ASSUME NEW x \in Sessions, NEW k \in Kinds
             PROVE  /\ \A v \in Workers : Carries(req'[v], x, k) => Carried(v, x, k)'
                    /\ (\/ rows[<<x, k>>] # 0
                        \/ delivered[<<x, k>>] # 0
                        \/ \E v \in Workers : Carries(req'[v], x, k)) => Told(StatusOf(x)', k)
  BY DEF NoticesInv, Carries, Told
<1>4. CASE x = y /\ k = j
  <2>1. \A v \in Workers : Carries(req'[v], x, k) => v = w
    BY <1>1, <1>3, <1>4
  <2> QED
    BY <1>2, <1>3, <1>4, <2>1 DEF Carried
<1>5. CASE ~(x = y /\ k = j)
  <2>1. ~Carries(req'[w], x, k)
    BY <1>3, <1>5 DEF Carries
  <2>2. \A v \in Workers : Carries(req'[v], x, k) => Carries(req[v], x, k) /\ v # w
    BY <1>3, <2>1
  <2>3. \A v \in Workers : Carries(req'[v], x, k) => Carried(v, x, k)
    BY <2>2 DEF NoticesInv
  <2>4. \A v \in Workers : Carries(req'[v], x, k) => Carried(v, x, k)'
    BY <1>3, <2>2, <2>3 DEF Carried
  <2> QED
    BY <2>2, <2>4 DEF NoticesInv
<1> QED
  BY <1>4, <1>5

\* What a write to one table does to the status of every session.
LEMMA EmergencyWrite ==
    ASSUME TablesTyped, NEW e \in EmergencyIds, NEW row,
           emergencies' = [emergencies EXCEPT ![e] = row], sharings' = sharings
    PROVE  \A x \in Sessions : StatusOf(x)' = IF x = e THEN row.status ELSE StatusOf(x)
BY DEF TablesTyped, StatusOf, Sessions

LEMMA SharingWrite ==
    ASSUME TablesTyped, NEW s \in SharingIds, NEW row,
           sharings' = [sharings EXCEPT ![s] = row], emergencies' = emergencies
    PROVE  \A x \in Sessions : StatusOf(x)' = IF x = s THEN row.status ELSE StatusOf(x)
BY IdsAssumption DEF TablesTyped, StatusOf, Sessions

LEMMA SharingStatus ==
    ASSUME NEW s \in SharingIds
    PROVE  StatusOf(s) = sharings[s].status
BY IdsAssumption DEF StatusOf

-----------------------------------------------------------------------------
LEMMA TickInv == Inv /\ Tick => Inv'
<1> SUFFICES ASSUME Inv, Tick PROVE Inv'
  OBVIOUS
<1>1. now \in Nat /\ now' = now + 1
  BY DEF Inv, RowsInv, TablesTyped, Tick
<1>2. TablesTyped' /\ req' \in [Workers -> Request] /\ \A w \in Workers : Aimed(req'[w])
  BY <1>1 DEF Inv, RowsInv, TablesTyped, Tick
<1>3. \A e \in EmergencyIds : KeptEmergency(emergencies'[e], now')
  <2> SUFFICES ASSUME NEW e \in EmergencyIds PROVE KeptEmergency(emergencies[e], now')
    BY DEF Tick
  <2>1. KeptEmergency(emergencies[e], now) /\ emergencies[e] \in EmergencyRow
    BY DEF Inv, RowsInv, TablesTyped
  <2> QED
    BY <1>1, <2>1 DEF KeptEmergency, EmergencyRow, Times, NoTime
<1>4. \A s \in SharingIds : KeptSharing(sharings'[s], now')
  <2> SUFFICES ASSUME NEW s \in SharingIds PROVE KeptSharing(sharings[s], now')
    BY DEF Tick
  <2>1. KeptSharing(sharings[s], now) /\ sharings[s] \in SharingRow
    BY DEF Inv, RowsInv, TablesTyped
  <2> QED
    BY <1>1, <2>1 DEF KeptSharing, SharingRow, Times, NoTime
<1>5. RowsInv'
  BY <1>2, <1>3, <1>4 DEF RowsInv
<1>6. \A x : StatusOf(x)' = StatusOf(x)
  BY DEF Tick, StatusOf
<1>7. NoticesInv'
  BY <1>6, QuietStep DEF Inv, Tick
<1> QED
  BY <1>5, <1>7 DEF Inv

LEMMA CrashInv == Inv /\ Crash => Inv'
<1> SUFFICES ASSUME Inv, Crash PROVE Inv'
  OBVIOUS
<1>1. RowsInv'
  BY IdleIsAimed DEF Inv, RowsInv, TablesTyped, Crash
<1>2. \A x : StatusOf(x)' = StatusOf(x)
  BY DEF Crash, StatusOf
<1>3. \A w \in Workers, x \in Sessions, k \in Kinds : ~Carries(req'[w], x, k)
  BY DEF Crash, Idle, Carries
<1>4. NoticesInv'
  BY <1>2, <1>3, QuietStep DEF Inv, Crash
<1> QED
  BY <1>1, <1>4 DEF Inv

\* A step that only moves one worker to a step with nothing to deliver or record.
LEMMA MoveInv ==
    ASSUME Inv, NEW w \in Workers, NEW q \in Request, Aimed(q), q.pc \notin {"deliver", "record"},
           req' = [req EXCEPT ![w] = q],
           UNCHANGED <<now, emergencies, sharings, rows, sent, delivered>>
    PROVE  Inv'
<1>1. RowsInv'
  BY RowsStep DEF Inv, RowsInv, TablesTyped
<1>2. \A x : StatusOf(x)' = StatusOf(x)
  BY DEF StatusOf
<1>3. \A v \in Workers, x \in Sessions, k \in Kinds : Carries(req'[v], x, k) => req'[v] = req[v]
  BY DEF Inv, RowsInv, Carries
<1>4. NoticesInv'
  BY <1>2, <1>3, QuietStep DEF Inv
<1> QED
  BY <1>1, <1>4 DEF Inv

LEMMA CheckActiveInv ==
    ASSUME Inv, NEW w \in Workers, NEW c \in Clients, CheckActive(w, c)
    PROVE  Inv'
<1> DEFINE q == [pc |-> "insert", client |-> c, sid |-> NoOne, expires |-> 0,
                 notice |-> "opened", ok |-> FALSE]
<1>1. q \in Request /\ Aimed(q) /\ q.pc \notin {"deliver", "record"}
  BY DEF Request, Steps, Aimed
<1> QED
  BY <1>1, MoveInv DEF CheckActive

LEMMA ReadSharingInv ==
    ASSUME Inv, NEW w \in Workers, NEW s \in SharingIds, ReadSharing(w, s)
    PROVE  Inv'
<1> DEFINE q == [pc |-> "evaluate", client |-> NoOne, sid |-> s,
                 expires |-> sharings[s].expires, notice |-> "opened", ok |-> FALSE]
<1>1. sharings[s].expires \in Nat
  BY DEF Inv, RowsInv, TablesTyped, SharingRow
<1>2. q \in Request /\ Aimed(q) /\ q.pc \notin {"deliver", "record"}
  BY <1>1 DEF Request, Steps, Sessions, Aimed
<1> QED
  BY <1>2, MoveInv DEF ReadSharing

LEMMA ExpireLazilyInv ==
    ASSUME Inv, NEW w \in Workers, ExpireLazily(w)
    PROVE  Inv'
<1>1. req[w] \in Request /\ Aimed(req[w]) /\ req[w].pc = "evaluate"
  BY DEF Inv, RowsInv, ExpireLazily
<1> DEFINE q == IF req[w].expires < now THEN [req[w] EXCEPT !.pc = "mark"] ELSE Idle
<1>2. q \in Request /\ Aimed(q) /\ q.pc \notin {"deliver", "record"}
  <2>1. CASE req[w].expires < now
    BY <1>1, <2>1 DEF Request, Steps, Aimed
  <2>2. CASE ~(req[w].expires < now)
    BY <2>2, IdleIsAimed DEF Idle
  <2> QED
    BY <2>1, <2>2
<1>3. req' = [req EXCEPT ![w] = q]
  BY DEF ExpireLazily, Inv, RowsInv
<1> HIDE DEF q
<1> QED
  BY <1>2, <1>3, MoveInv DEF ExpireLazily

-----------------------------------------------------------------------------
LEMMA InsertEmergencyInv ==
    ASSUME Inv, NEW w \in Workers, InsertEmergency(w)
    PROVE  Inv'
<1>1. PICK e \in EmergencyIds, located \in BOOLEAN :
          /\ emergencies[e].status = "FREE"
          /\ emergencies' = [emergencies EXCEPT ![e] =
                               [client |-> req[w].client, status |-> "ACTIVE", ended |-> NoTime,
                                known |-> IF located THEN now ELSE NoTime]]
          /\ Recording(w, e, "opened")
  BY DEF InsertEmergency
<1> DEFINE row == [client |-> req[w].client, status |-> "ACTIVE", ended |-> NoTime,
                   known |-> IF located THEN now ELSE NoTime]
           q == [pc |-> "deliver", client |-> NoOne, sid |-> e, expires |-> 0,
                 notice |-> "opened", ok |-> FALSE]
<1>2. TablesTyped /\ now \in Nat /\ req \in [Workers -> Request] /\ req[w].client \in Clients
  BY DEF Inv, RowsInv, TablesTyped, InsertEmergency, Aimed
<1>3. row \in EmergencyRow /\ KeptEmergency(row, now) /\ row.status = "ACTIVE"
  BY <1>2 DEF EmergencyRow, Times, NoTime, KeptEmergency
<1>4. q \in Request /\ Aimed(q) /\ req' = [req EXCEPT ![w] = q]
  BY <1>1 DEF Request, Steps, Sessions, Aimed, Recording
<1>5. emergencies' = [emergencies EXCEPT ![e] = row] /\ UNCHANGED <<now, sharings, rows, sent, delivered>>
  BY <1>1 DEF InsertEmergency
<1> HIDE DEF row, q
<1>6. RowsInv'
  BY <1>2, <1>3, <1>4, <1>5, RowsStep DEF Inv, TablesTyped
<1>7. StatusOf(e) = "FREE" /\ e \in Sessions
  BY <1>1 DEF StatusOf, Sessions
<1>8. \A x \in Sessions : StatusOf(x)' = IF x = e THEN "ACTIVE" ELSE StatusOf(x)
  BY <1>2, <1>3, <1>5, EmergencyWrite
<1>9. NoticesInv'
  <2>1. ~Told(StatusOf(e), "opened") /\ Told(StatusOf(e)', "opened")
    BY <1>7, <1>8 DEF Told
  <2>2. \A x \in Sessions, k \in Kinds : Told(StatusOf(x), k) => Told(StatusOf(x)', k)
    BY <1>7, <1>8 DEF Told
  <2>3. "opened" \in Kinds
    BY DEF Kinds
  <2> QED
    BY <1>1, <1>2, <1>5, <1>7, <2>1, <2>2, <2>3, RecordingStep DEF Inv
<1> QED
  BY <1>6, <1>9 DEF Inv

LEMMA UpdateEmergencyLocationInv ==
    ASSUME Inv, NEW w \in Workers, NEW e \in EmergencyIds, UpdateEmergencyLocation(w, e)
    PROVE  Inv'
<1> DEFINE row == [emergencies[e] EXCEPT !.known = now]
<1>1. /\ TablesTyped /\ now \in Nat /\ emergencies[e] \in EmergencyRow
      /\ emergencies[e].status = "ACTIVE" /\ KeptEmergency(emergencies[e], now)
  BY DEF Inv, RowsInv, TablesTyped, UpdateEmergencyLocation
<1>2. row \in EmergencyRow /\ row.status = "ACTIVE" /\ KeptEmergency(row, now)
  BY <1>1 DEF EmergencyRow, Times, KeptEmergency
<1>3. emergencies' = [emergencies EXCEPT ![e] = row]
  BY <1>1 DEF UpdateEmergencyLocation, TablesTyped
<1>4. UNCHANGED <<now, sharings, rows, sent, delivered, req>>
  BY DEF UpdateEmergencyLocation
<1> HIDE DEF row
<1>5. RowsInv'
  BY <1>1, <1>2, <1>3, <1>4, RowsStep DEF Inv, TablesTyped
<1>6. StatusOf(e) = "ACTIVE"
  BY <1>1 DEF StatusOf
<1>7. \A x \in Sessions : StatusOf(x)' = StatusOf(x)
  BY <1>1, <1>2, <1>3, <1>4, <1>6, EmergencyWrite
<1>8. NoticesInv'
  BY <1>4, <1>7, QuietStep DEF Inv
<1> QED
  BY <1>5, <1>8 DEF Inv

LEMMA EndEmergencyInv ==
    ASSUME Inv, NEW w \in Workers, NEW e \in EmergencyIds, EndEmergency(w, e)
    PROVE  Inv'
<1> DEFINE row == [emergencies[e] EXCEPT !.status = "ENDED", !.ended = now]
           q == [pc |-> "deliver", client |-> NoOne, sid |-> e, expires |-> 0,
                 notice |-> "closed", ok |-> FALSE]
<1>1. /\ TablesTyped /\ now \in Nat /\ emergencies[e] \in EmergencyRow /\ req \in [Workers -> Request]
      /\ emergencies[e].status = "ACTIVE" /\ KeptEmergency(emergencies[e], now)
  BY DEF Inv, RowsInv, TablesTyped, EndEmergency
<1>2. row \in EmergencyRow /\ row.status = "ENDED" /\ KeptEmergency(row, now)
  BY <1>1 DEF EmergencyRow, Times, KeptEmergency
<1>3. q \in Request /\ Aimed(q) /\ req' = [req EXCEPT ![w] = q]
  BY DEF Request, Steps, Sessions, Aimed, EndEmergency, Recording
<1>4. emergencies' = [emergencies EXCEPT ![e] = row] /\ UNCHANGED <<now, sharings, rows, sent, delivered>>
  BY DEF EndEmergency
<1> HIDE DEF row, q
<1>5. RowsInv'
  BY <1>1, <1>2, <1>3, <1>4, RowsStep DEF Inv, TablesTyped
<1>6. StatusOf(e) = "ACTIVE" /\ e \in Sessions
  BY <1>1 DEF StatusOf, Sessions
<1>7. \A x \in Sessions : StatusOf(x)' = IF x = e THEN "ENDED" ELSE StatusOf(x)
  BY <1>1, <1>2, <1>4, EmergencyWrite
<1>8. NoticesInv'
  <2>1. ~Told(StatusOf(e), "closed") /\ Told(StatusOf(e)', "closed")
    BY <1>6, <1>7 DEF Told
  <2>2. \A x \in Sessions, k \in Kinds : Told(StatusOf(x), k) => Told(StatusOf(x)', k)
    BY <1>6, <1>7 DEF Told
  <2>3. "closed" \in Kinds /\ Recording(w, e, "closed")
    BY DEF Kinds, EndEmergency
  <2> QED
    BY <1>1, <1>4, <1>6, <2>1, <2>2, <2>3, RecordingStep DEF Inv
<1> QED
  BY <1>5, <1>8 DEF Inv

-----------------------------------------------------------------------------
LEMMA StartSharingInv ==
    ASSUME Inv, NEW w \in Workers, NEW c \in Clients, NEW s \in SharingIds,
           NEW owner \in EmergencyIds \cup {NoOne}, NEW ttl \in TTLs, StartSharing(w, c, s, owner, ttl)
    PROVE  Inv'
<1> DEFINE row == [client |-> c, status |-> "ACTIVE", owner |-> owner, started |-> now,
                   expires |-> now + (IF ttl < MaxTTL THEN ttl ELSE MaxTTL),
                   stopped |-> NoTime, fix |-> NoTime]
           q == [pc |-> "deliver", client |-> NoOne, sid |-> s, expires |-> 0,
                 notice |-> "opened", ok |-> FALSE]
<1>1. /\ TablesTyped /\ now \in Nat /\ req \in [Workers -> Request]
      /\ sharings[s].status = "FREE"
  BY DEF Inv, RowsInv, TablesTyped, StartSharing
<1>2. row \in SharingRow /\ row.status = "ACTIVE" /\ KeptSharing(row, now)
  BY <1>1, TTLAssumption DEF SharingRow, Times, NoTime, KeptSharing
<1>3. q \in Request /\ Aimed(q) /\ req' = [req EXCEPT ![w] = q]
  BY DEF Request, Steps, Sessions, Aimed, StartSharing, Recording
<1>4. sharings' = [sharings EXCEPT ![s] = row] /\ UNCHANGED <<now, emergencies, rows, sent, delivered>>
  BY DEF StartSharing
<1> HIDE DEF row, q
<1>5. RowsInv'
  BY <1>1, <1>2, <1>3, <1>4, RowsStep DEF Inv, TablesTyped
<1>6. StatusOf(s) = "FREE" /\ s \in Sessions
  BY <1>1, SharingStatus DEF Sessions
<1>7. \A x \in Sessions : StatusOf(x)' = IF x = s THEN "ACTIVE" ELSE StatusOf(x)
  BY <1>1, <1>2, <1>4, SharingWrite
<1>8. NoticesInv'
  <2>1. ~Told(StatusOf(s), "opened") /\ Told(StatusOf(s)', "opened")
    BY <1>6, <1>7 DEF Told
  <2>2. \A x \in Sessions, k \in Kinds : Told(StatusOf(x), k) => Told(StatusOf(x)', k)
    BY <1>6, <1>7 DEF Told
  <2>3. "opened" \in Kinds /\ Recording(w, s, "opened")
    BY DEF Kinds, StartSharing
  <2> QED
    BY <1>1, <1>4, <1>6, <2>1, <2>2, <2>3, RecordingStep DEF Inv
<1> QED
  BY <1>5, <1>8 DEF Inv

LEMMA MarkExpiredInv ==
    ASSUME Inv, NEW w \in Workers, MarkExpired(w)
    PROVE  Inv'
<1> DEFINE s == req[w].sid
           row == [sharings[s] EXCEPT !.status = "EXPIRED"]
<1>1. /\ TablesTyped /\ now \in Nat /\ req \in [Workers -> Request] /\ s \in SharingIds
      /\ sharings[s] \in SharingRow /\ KeptSharing(sharings[s], now)
  BY DEF Inv, RowsInv, TablesTyped, MarkExpired, Aimed
<1>2. CASE sharings[s].status = "ACTIVE" /\ sharings[s].expires <= now
  <2>1. row \in SharingRow /\ row.status = "EXPIRED" /\ KeptSharing(row, now)
    BY <1>1, <1>2 DEF SharingRow, KeptSharing
  <2>2. sharings' = [sharings EXCEPT ![s] = row]
    BY <1>1, <1>2 DEF MarkExpired, TablesTyped
  <2>3. req' = [req EXCEPT ![w] = Idle] /\ UNCHANGED <<now, emergencies, rows, sent, delivered>>
    BY DEF MarkExpired
  <2>4. StatusOf(s) = "ACTIVE"
    BY <1>1, <1>2, SharingStatus
  <2> HIDE DEF row, s
  <2>5. RowsInv'
    BY <1>1, <2>1, <2>2, <2>3, IdleIsAimed, RowsStep DEF Inv, TablesTyped
  <2>6. \A x \in Sessions : StatusOf(x)' = IF x = s THEN "EXPIRED" ELSE StatusOf(x)
    BY <1>1, <2>1, <2>2, <2>3, SharingWrite
  <2>7. \A x \in Sessions, k \in Kinds : Told(StatusOf(x), k) => Told(StatusOf(x)', k)
    BY <2>4, <2>6 DEF Told
  <2>8. \A v \in Workers, x \in Sessions, k \in Kinds : Carries(req'[v], x, k) => req'[v] = req[v]
    BY <1>1, <2>3 DEF Carries, Idle
  <2>9. NoticesInv'
    BY <2>3, <2>7, <2>8, QuietStep DEF Inv
  <2> QED
    BY <2>5, <2>9 DEF Inv
<1>3. CASE ~(sharings[s].status = "ACTIVE" /\ sharings[s].expires <= now)
  <2>1. sharings' = sharings
    BY <1>3 DEF MarkExpired
  <2>2. Idle.pc \notin {"deliver", "record"}
    BY DEF Idle
  <2> QED
    BY <2>1, <2>2, IdleIsAimed, MoveInv DEF MarkExpired
<1> QED
  BY <1>2, <1>3

LEMMA UpdateSharingLocationInv ==
    ASSUME Inv, NEW w \in Workers, NEW s \in SharingIds, UpdateSharingLocation(w, s)
    PROVE  Inv'
<1> DEFINE row == [sharings[s] EXCEPT !.fix = now]
<1>1. /\ TablesTyped /\ now \in Nat /\ sharings[s] \in SharingRow
      /\ sharings[s].status = "ACTIVE" /\ sharings[s].expires > now /\ KeptSharing(sharings[s], now)
  BY DEF Inv, RowsInv, TablesTyped, UpdateSharingLocation
<1>2. row \in SharingRow /\ row.status = "ACTIVE" /\ KeptSharing(row, now)
  BY <1>1, TTLAssumption DEF SharingRow, Times, KeptSharing
<1>3. sharings' = [sharings EXCEPT ![s] = row]
  BY <1>1 DEF UpdateSharingLocation, TablesTyped
<1>4. UNCHANGED <<now, emergencies, rows, sent, delivered, req>>
  BY DEF UpdateSharingLocation
<1> HIDE DEF row
<1>5. RowsInv'
  BY <1>1, <1>2, <1>3, <1>4, RowsStep DEF Inv, TablesTyped
<1>6. StatusOf(s) = "ACTIVE"
  BY <1>1, SharingStatus
<1>7. \A x \in Sessions : StatusOf(x)' = StatusOf(x)
  BY <1>1, <1>2, <1>3, <1>4, <1>6, SharingWrite
<1>8. NoticesInv'
  BY <1>4, <1>7, QuietStep DEF Inv
<1> QED
  BY <1>5, <1>8 DEF Inv

LEMMA StopSharingInv ==
    ASSUME Inv, NEW w \in Workers, NEW s \in SharingIds, StopSharing(w, s)
    PROVE  Inv'
<1> DEFINE row == [sharings[s] EXCEPT !.status = "STOPPED", !.stopped = now]
           q == [pc |-> "deliver", client |-> NoOne, sid |-> s, expires |-> 0,
                 notice |-> "closed", ok |-> FALSE]
<1>1. /\ TablesTyped /\ now \in Nat /\ sharings[s] \in SharingRow /\ req \in [Workers -> Request]
      /\ sharings[s].status = "ACTIVE" /\ KeptSharing(sharings[s], now)
  BY DEF Inv, RowsInv, TablesTyped, StopSharing
<1>2. row \in SharingRow /\ row.status = "STOPPED" /\ KeptSharing(row, now)
  BY <1>1, TTLAssumption DEF SharingRow, Times, KeptSharing
<1>3. q \in Request /\ Aimed(q) /\ req' = [req EXCEPT ![w] = q]
  BY DEF Request, Steps, Sessions, Aimed, StopSharing, Recording
<1>4. sharings' = [sharings EXCEPT ![s] = row] /\ UNCHANGED <<now, emergencies, rows, sent, delivered>>
  BY DEF StopSharing
<1> HIDE DEF row, q
<1>5. RowsInv'
  BY <1>1, <1>2, <1>3, <1>4, RowsStep DEF Inv, TablesTyped
<1>6. StatusOf(s) = "ACTIVE" /\ s \in Sessions
  BY <1>1, SharingStatus DEF Sessions
<1>7. \A x \in Sessions : StatusOf(x)' = IF x = s THEN "STOPPED" ELSE StatusOf(x)
  BY <1>1, <1>2, <1>4, SharingWrite
<1>8. NoticesInv'
  <2>1. ~Told(StatusOf(s), "closed") /\ Told(StatusOf(s)', "closed")
    BY <1>6, <1>7 DEF Told
  <2>2. \A x \in Sessions, k \in Kinds : Told(StatusOf(x), k) => Told(StatusOf(x)', k)
    BY <1>6, <1>7 DEF Told
  <2>3. "closed" \in Kinds /\ Recording(w, s, "closed")
    BY DEF Kinds, StopSharing
  <2> QED
    BY <1>1, <1>4, <1>6, <2>1, <2>2, <2>3, RecordingStep DEF Inv
<1> QED
  BY <1>5, <1>8 DEF Inv

-----------------------------------------------------------------------------
Counted(x, kind) ==
    /\ sent[<<x, kind>>] <= delivered[<<x, kind>>]
    /\ delivered[<<x, kind>>] <= 1 /\ rows[<<x, kind>>] <= 1
CarriesOnly(r, y, j) == \A x \in Sessions, k \in Kinds : Carries(r, x, k) => x = y /\ k = j
OthersKept(y, j) ==
    \A x \in Sessions, k \in Kinds : ~(x = y /\ k = j) =>
        /\ rows'[<<x, k>>] = rows[<<x, k>>] /\ sent'[<<x, k>>] = sent[<<x, k>>]
        /\ delivered'[<<x, k>>] = delivered[<<x, k>>]

\* A request that moves on with the notice it carries: only that notice's counters
\* may change.
LEMMA CarrierStep ==
    ASSUME Inv, NEW w \in Workers, NEW q, req' = [req EXCEPT ![w] = q],
           NEW y \in Sessions, NEW j \in Kinds, Carries(req[w], y, j),
           CarriesOnly(q, y, j), OthersKept(y, j), Counted(y, j)',
           Carries(q, y, j) => Carried(w, y, j)',
           UNCHANGED <<emergencies, sharings>>
    PROVE  NoticesInv'
<1>1. Carries(req[w], y, j) /\ req \in [Workers -> Request]
  BY DEF Inv, RowsInv
<1>2. Carried(w, y, j) /\ Told(StatusOf(y), j)
  BY <1>1 DEF Inv, NoticesInv
<1>3. \A x : StatusOf(x)' = StatusOf(x)
  BY DEF StatusOf
<1>4. req'[w] = q /\ \A v \in Workers : v # w => req'[v] = req[v]
  BY <1>1
<1> SUFFICES ASSUME NEW x \in Sessions, NEW k \in Kinds
             PROVE  /\ sent'[<<x, k>>] <= delivered'[<<x, k>>]
                    /\ delivered'[<<x, k>>] <= 1 /\ rows'[<<x, k>>] <= 1
                    /\ \A v \in Workers : Carries(req'[v], x, k) => Carried(v, x, k)'
                    /\ (\/ rows'[<<x, k>>] # 0
                        \/ delivered'[<<x, k>>] # 0
                        \/ \E v \in Workers : Carries(req'[v], x, k)) => Told(StatusOf(x)', k)
  BY DEF NoticesInv, Carries, Told
<1>5. CASE x = y /\ k = j
  <2>1. \A v \in Workers : v # w => ~Carries(req'[v], x, k)
    BY <1>2, <1>4, <1>5 DEF Carried
  <2>2. \A v \in Workers : Carries(req'[v], x, k) => Carried(v, x, k)'
    BY <1>4, <1>5, <2>1
  <2>3. Told(StatusOf(x)', k)
    BY <1>2, <1>3, <1>5
  <2> QED
    BY <1>5, <2>2, <2>3 DEF Counted
<1>6. CASE ~(x = y /\ k = j)
  <2>1. ~Carries(req'[w], x, k) /\ ~Carries(req[w], x, k)
    BY <1>1, <1>4, <1>6 DEF Carries, CarriesOnly
  <2>2. \A v \in Workers : Carries(req'[v], x, k) => v # w /\ Carries(req[v], x, k) /\ Carried(v, x, k)
    BY <1>4, <2>1 DEF Inv, NoticesInv
  <2>3. \A v \in Workers : Carries(req'[v], x, k) => Carried(v, x, k)'
    BY <1>4, <1>6, <2>1, <2>2 DEF Carried, OthersKept
  <2> QED
    BY <1>3, <1>6, <2>2, <2>3 DEF Inv, NoticesInv, OthersKept
<1> QED
  BY <1>5, <1>6

LEMMA DeliverInv ==
    ASSUME Inv, NEW w \in Workers, Deliver(w)
    PROVE  Inv'
<1>0. PICK y \in Sessions, j \in Kinds : y = req[w].sid /\ j = req[w].notice
  BY DEF Inv, RowsInv, Deliver, Aimed, Request, Kinds
<1>1. PICK arrives \in BOOLEAN, answered \in BOOLEAN :
          /\ delivered' = [delivered EXCEPT ![<<y, j>>] = IF arrives THEN @ + 1 ELSE @]
          /\ req' = [req EXCEPT ![w] = [@ EXCEPT !.pc = "record", !.ok = arrives /\ answered]]
  BY <1>0 DEF Deliver
<1> DEFINE q == [req[w] EXCEPT !.pc = "record", !.ok = arrives /\ answered]
<1>2. /\ TablesTyped /\ req \in [Workers -> Request] /\ req[w] \in Request /\ Aimed(req[w])
      /\ req[w].pc = "deliver" /\ y = req[w].sid /\ j = req[w].notice
      /\ UNCHANGED <<now, emergencies, sharings, rows, sent>>
  BY <1>0 DEF Inv, RowsInv, Deliver
<1>3. req' = [req EXCEPT ![w] = q]
  BY <1>1, <1>2
<1>4. q \in Request /\ q.pc = "record" /\ q.sid = y /\ q.notice = j /\ q.ok = (arrives /\ answered)
  <2>1. (arrives /\ answered) \in BOOLEAN
    OBVIOUS
  <2> QED
    BY <1>2, <2>1 DEF Request, Steps
<1>5. Aimed(q)
  BY <1>2, <1>4 DEF Aimed
<1> HIDE DEF q
<1>6. <<y, j>> \in Notices /\ \A x \in Sessions, k \in Kinds : <<x, k>> \in Notices
  BY <1>2 DEF Notices, Kinds
<1>7. delivered' \in [Notices -> Nat]
  BY <1>1, <1>6, <1>2 DEF TablesTyped
<1>8. RowsInv'
  BY <1>2, <1>3, <1>4, <1>5, <1>7, RowsStep DEF Inv, TablesTyped
<1>9. /\ rows[<<y, j>>] = 0 /\ sent[<<y, j>>] = 0 /\ delivered[<<y, j>>] = 0
      /\ \A v \in Workers : Carries(req[v], y, j) => v = w
  <2>1. Carries(req[w], y, j)
    BY <1>2 DEF Carries
  <2> QED
    BY <1>2, <2>1 DEF Inv, NoticesInv, Carried
<1>10. delivered'[<<y, j>>] = IF arrives THEN 1 ELSE 0
  BY <1>1, <1>2, <1>6, <1>9 DEF TablesTyped
<1>11. \A x \in Sessions, k \in Kinds : ~(x = y /\ k = j) => delivered'[<<x, k>>] = delivered[<<x, k>>]
  BY <1>1, <1>2, <1>6 DEF TablesTyped
<1>12. Carried(w, y, j)'
  <2>1. req'[w] = q /\ \A v \in Workers : v # w => req'[v] = req[v]
    BY <1>2, <1>3
  <2>2. \A v \in Workers : Carries(req'[v], y, j) => v = w
    BY <1>9, <2>1
  <2>3. q.ok => arrives
    BY <1>4
  <2>4. rows'[<<y, j>>] = 0 /\ sent'[<<y, j>>] = 0
    BY <1>2, <1>9
  <2>5. req'[w].pc # "deliver"
    BY <1>4, <2>1
  <2>6. req'[w].ok => delivered'[<<y, j>>] = 1
    BY <1>10, <2>1, <2>3
  <2> QED
    BY <2>2, <2>4, <2>5, <2>6 DEF Carried
<1>13. NoticesInv'
  <2>1. CarriesOnly(q, y, j)
    BY <1>4 DEF Carries, CarriesOnly
  <2>2. Counted(y, j)'
    BY <1>2, <1>9, <1>10 DEF Counted
  <2>3. OthersKept(y, j)
    BY <1>2, <1>11 DEF OthersKept
  <2>4. Carries(req[w], y, j)
    BY <1>2 DEF Carries
  <2>5. UNCHANGED <<emergencies, sharings>>
    BY <1>2
  <2> QED
    BY <1>3, <1>12, <2>1, <2>2, <2>3, <2>4, <2>5, CarrierStep
<1> QED
  BY <1>8, <1>13 DEF Inv

LEMMA RecordEventInv ==
    ASSUME Inv, NEW w \in Workers, RecordEvent(w)
    PROVE  Inv'
<1>0. PICK y \in Sessions, j \in Kinds : y = req[w].sid /\ j = req[w].notice
  BY DEF Inv, RowsInv, RecordEvent, Aimed, Request, Kinds
<1>1. /\ TablesTyped /\ req \in [Workers -> Request] /\ req[w] \in Request
      /\ req[w].pc = "record" /\ y = req[w].sid /\ j = req[w].notice /\ req[w].ok \in BOOLEAN
      /\ req' = [req EXCEPT ![w] = Idle]
      /\ UNCHANGED <<now, emergencies, sharings, delivered>>
  BY <1>0 DEF Inv, RowsInv, RecordEvent, Request
<1>2. /\ rows' = [rows EXCEPT ![<<y, j>>] = @ + 1]
      /\ sent' = [sent EXCEPT ![<<y, j>>] = IF req[w].ok THEN @ + 1 ELSE @]
  BY <1>0 DEF RecordEvent
<1>3. <<y, j>> \in Notices /\ \A x \in Sessions, k \in Kinds : <<x, k>> \in Notices
  BY <1>1 DEF Notices, Kinds
<1>4. rows' \in [Notices -> Nat] /\ sent' \in [Notices -> Nat]
  BY <1>1, <1>2, <1>3 DEF TablesTyped
<1>5. RowsInv'
  BY <1>1, <1>4, IdleIsAimed, RowsStep DEF Inv, TablesTyped
<1>6. /\ rows[<<y, j>>] = 0 /\ sent[<<y, j>>] = 0
      /\ req[w].ok => delivered[<<y, j>>] = 1
      /\ delivered[<<y, j>>] <= 1
  <2>1. Carries(req[w], y, j)
    BY <1>1 DEF Carries
  <2> QED
    BY <1>1, <2>1 DEF Inv, NoticesInv, Carried
<1>7. rows'[<<y, j>>] = 1 /\ sent'[<<y, j>>] = IF req[w].ok THEN 1 ELSE 0
  BY <1>1, <1>2, <1>3, <1>6 DEF TablesTyped
<1>8. delivered[<<y, j>>] \in Nat
  BY <1>1, <1>3 DEF TablesTyped
<1>9. NoticesInv'
  <2>1. CarriesOnly(Idle, y, j) /\ ~Carries(Idle, y, j)
    BY DEF Carries, CarriesOnly, Idle
  <2>2. Counted(y, j)'
    BY <1>1, <1>6, <1>7, <1>8 DEF Counted
  <2>3. OthersKept(y, j)
    BY <1>1, <1>2, <1>3 DEF OthersKept, TablesTyped
  <2>4. Carries(req[w], y, j)
    BY <1>1 DEF Carries
  <2>5. UNCHANGED <<emergencies, sharings>>
    BY <1>1
  <2> QED
    BY <1>1, <2>1, <2>2, <2>3, <2>4, <2>5, CarrierStep
<1> QED
  BY <1>5, <1>9 DEF Inv

-----------------------------------------------------------------------------
LEMMA NextInv == Inv /\ [Next]_vars => Inv'
<1> SUFFICES ASSUME Inv, [Next]_vars PROVE Inv'
  OBVIOUS
<1>1. CASE Tick
  BY <1>1, TickInv
<1>2. ASSUME NEW w \in Workers, Serve(w) PROVE Inv'
  BY <1>2, InsertEmergencyInv, ExpireLazilyInv, MarkExpiredInv, DeliverInv, RecordEventInv DEF Serve
<1>3. ASSUME NEW w \in Workers, Arrive(w) PROVE Inv'
  BY <1>3, CheckActiveInv, UpdateEmergencyLocationInv, EndEmergencyInv, StartSharingInv,
     ReadSharingInv, UpdateSharingLocationInv, StopSharingInv DEF Arrive
<1>4. CASE Crash
  BY <1>4, CrashInv
<1>5. CASE UNCHANGED vars
  <2>1. RowsInv'
    BY <1>5 DEF Inv, RowsInv, TablesTyped, vars
  <2>2. \A x : StatusOf(x)' = StatusOf(x)
    BY <1>5 DEF StatusOf, vars
  <2>3. NoticesInv'
    BY <1>5, <2>2, QuietStep DEF Inv, vars
  <2> QED
    BY <2>1, <2>3 DEF Inv
<1> QED
  BY <1>1, <1>2, <1>3, <1>4, <1>5 DEF Next

LEMMA AlwaysInv == Spec => []Inv
<1> QED
  BY InitInv, NextInv, PTL DEF Spec

\* The types of the tables, the counters and the requests in flight.
THEOREM TypesHold == Spec => []TypeOK
<1>1. Inv => TypeOK
  BY DEF Inv, RowsInv, TablesTyped, TypeOK
<1> QED
  BY <1>1, AlwaysInv, PTL

\* api/emergency.py:7: no position outlives the consent it was given under.
THEOREM ConsentBoundsFixes == Spec => []FixWithinConsent
<1>1. Inv => FixWithinConsent
  <2> SUFFICES ASSUME Inv PROVE FixWithinConsent
    OBVIOUS
  <2>1. ASSUME NEW s \in SharingIds
        PROVE  sharings[s].fix # NoTime =>
                 /\ sharings[s].fix < sharings[s].expires
                 /\ sharings[s].fix < sharings[s].started + MaxTTL
                 /\ sharings[s].status = "STOPPED" => sharings[s].fix <= sharings[s].stopped
    <3>1. KeptSharing(sharings[s], now) /\ sharings[s] \in SharingRow
      BY DEF Inv, RowsInv, TablesTyped
    <3> QED
      BY <3>1, TTLAssumption DEF KeptSharing, SharingRow, Times, NoTime
  <2>2. \A e \in EmergencyIds :
          emergencies[e].status = "ENDED" => emergencies[e].known <= emergencies[e].ended
    BY DEF Inv, RowsInv, KeptEmergency
  <2> QED
    BY <2>1, <2>2 DEF FixWithinConsent
<1> QED
  BY <1>1, AlwaysInv, PTL

\* schema.sql:249: no notification without the event it tells of, and none twice.
THEOREM NoticesAreReal == Spec => []NoticesHaveSource
<1>1. Inv => NoticesHaveSource
  <2> SUFFICES ASSUME Inv, NEW x \in Sessions
               PROVE  /\ StatusOf(x) = "FREE"
                           => rows[<<x, "opened">>] = 0 /\ delivered[<<x, "opened">>] = 0
                      /\ StatusOf(x) \notin {"ENDED", "STOPPED"}
                           => rows[<<x, "closed">>] = 0 /\ delivered[<<x, "closed">>] = 0
                      /\ \A k \in {"opened", "closed"} :
                            rows[<<x, k>>] <= 1 /\ delivered[<<x, k>>] <= 1
    BY DEF NoticesHaveSource
  <2>1. \A k \in Kinds : /\ rows[<<x, k>>] # 0 \/ delivered[<<x, k>>] # 0 => Told(StatusOf(x), k)
                         /\ rows[<<x, k>>] <= 1 /\ delivered[<<x, k>>] <= 1
    BY DEF Inv, NoticesInv
  <2> QED
    BY <2>1 DEF Kinds, Told
<1> QED
  BY <1>1, AlwaysInv, PTL

\* notifications.py:3-8: 'sent' is never claimed of a message that did not arrive.
THEOREM DeliveryIsHonest == Spec => []SentIsDelivered
<1>1. Inv => SentIsDelivered
  <2> SUFFICES ASSUME Inv, NEW n \in Notices PROVE sent[n] <= delivered[n]
    BY DEF SentIsDelivered
  <2>1. PICK x \in Sessions, k \in Kinds : n = <<x, k>>
    BY DEF Notices, Kinds
  <2> QED
    BY <2>1 DEF Inv, NoticesInv
<1> QED
  BY <1>1, AlwaysInv, PTL

\* sessions.py:7-8: no request in flight revives an ended SOS or a sharing that was
\* stopped or expired, and none expires a sharing before its time.
THEOREM OverStaysOver == Spec => OverIsOver
<1> DEFINE Kept == /\ \A e \in EmergencyIds :
                         emergencies[e].status = "ENDED" => emergencies'[e] = emergencies[e]
                   /\ \A s \in SharingIds :
                         /\ sharings[s].status \in {"STOPPED", "EXPIRED"} => sharings'[s] = sharings[s]
                         /\ sharings'[s].status = "EXPIRED" => sharings'[s].expires <= now
<1>1. ASSUME Inv, [Next]_vars PROVE Kept
  <2>1. /\ emergencies \in [EmergencyIds -> EmergencyRow] /\ sharings \in [SharingIds -> SharingRow]
        /\ \A s \in SharingIds : sharings[s].status = "EXPIRED" => sharings[s].expires <= now
    BY <1>1 DEF Inv, RowsInv, TablesTyped, KeptSharing
  <2>2. CASE UNCHANGED <<emergencies, sharings>>
    BY <2>1, <2>2
  <2>3. ASSUME NEW w \in Workers, InsertEmergency(w) PROVE Kept
    BY <2>1, <2>3 DEF InsertEmergency
  <2>4. ASSUME NEW w \in Workers, NEW e \in EmergencyIds,
               UpdateEmergencyLocation(w, e) \/ EndEmergency(w, e)
        PROVE  Kept
    BY <2>1, <2>4 DEF UpdateEmergencyLocation, EndEmergency
  <2>5. ASSUME NEW w \in Workers, NEW c \in Clients, NEW s \in SharingIds,
               NEW owner \in EmergencyIds \cup {NoOne}, NEW ttl \in TTLs,
               StartSharing(w, c, s, owner, ttl)
        PROVE  Kept
    BY <2>1, <2>5 DEF StartSharing
  <2>6. ASSUME NEW w \in Workers, MarkExpired(w) PROVE Kept
    <3>1. CASE sharings' = sharings
      BY <2>1, <2>6, <3>1 DEF MarkExpired
    <3>2. CASE /\ sharings[req[w].sid].status = "ACTIVE" /\ sharings[req[w].sid].expires <= now
               /\ sharings' = [sharings EXCEPT ![req[w].sid].status = "EXPIRED"]
      <4>1. ASSUME NEW s \in SharingIds, s = req[w].sid
            PROVE  sharings'[s].expires = sharings[s].expires
        BY <2>1, <3>2, <4>1 DEF SharingRow
      <4> QED
        BY <2>1, <2>6, <3>2, <4>1 DEF MarkExpired
    <3> QED
      BY <2>6, <3>1, <3>2 DEF MarkExpired
  <2>7. ASSUME NEW w \in Workers, NEW s \in SharingIds, UpdateSharingLocation(w, s) \/ StopSharing(w, s)
        PROVE  Kept
    <3>1. sharings[s].status = "ACTIVE" /\ emergencies' = emergencies
      BY <2>7 DEF UpdateSharingLocation, StopSharing
    <3>2. sharings'[s].status # "EXPIRED"
      BY <2>1, <2>7, <3>1 DEF UpdateSharingLocation, StopSharing, SharingRow
    <3>3. \A t \in SharingIds : t # s => sharings'[t] = sharings[t]
      BY <2>1, <2>7 DEF UpdateSharingLocation, StopSharing
    <3> QED
      BY <2>1, <3>1, <3>2, <3>3
  <2>8. CASE Tick \/ Crash
    BY <2>2, <2>8 DEF Tick, Crash
  <2>9. ASSUME NEW w \in Workers, Serve(w) PROVE Kept
    <3>1. CASE ExpireLazily(w) \/ Deliver(w) \/ RecordEvent(w)
      BY <2>2, <3>1 DEF ExpireLazily, Deliver, RecordEvent
    <3> QED
      BY <2>3, <2>6, <2>9, <3>1 DEF Serve
  <2>10. ASSUME NEW w \in Workers, Arrive(w) PROVE Kept
    <3>1. CASE \/ \E c \in Clients : CheckActive(w, c)
               \/ \E s \in SharingIds : ReadSharing(w, s)
      BY <2>2, <3>1 DEF CheckActive, ReadSharing
    <3> QED
      BY <2>4, <2>5, <2>7, <2>10, <3>1 DEF Arrive
  <2>11. CASE UNCHANGED vars
    BY <2>2, <2>11 DEF vars
  <2> QED
    BY <1>1, <2>8, <2>9, <2>10, <2>11 DEF Next
<1>2. Inv /\ [Next]_vars => [Kept]_vars
  BY <1>1
<1> QED
  BY <1>2, AlwaysInv, PTL DEF Spec, OverIsOver
-----------------------------------------------------------------------------
(* One active session per client: the SELECT and the INSERT of a create    *)
(* are two transactions, and only another create between them breaks it.   *)

\* A create looks for an active session while another one of the same client is
\* between its look and its INSERT.
Racing ==
    \E v, w \in Workers, c \in Clients :
        CheckActive(w, c) /\ req[v].pc = "insert" /\ req[v].client = c

AtMostOne(S) == \A x, y \in S : x = y

\* The inductive invariant.
SingleInv ==
    /\ Inv
    /\ \A c \in Clients : AtMostOne(ActiveEmergencies(c))
    /\ \A w \in Workers, c \in Clients :
          (req[w].pc = "insert" /\ req[w].client = c) => ActiveEmergencies(c) = {}
    /\ \A v, w \in Workers :
          (req[v].pc = "insert" /\ req[w].pc = "insert" /\ req[v].client = req[w].client) => v = w

\* No session becomes active and no create takes off.
LEMMA SinglesStay ==
    ASSUME SingleInv, Inv', \A c : ActiveEmergencies(c)' \subseteq ActiveEmergencies(c),
           \A w \in Workers : req'[w].pc = "insert" => req'[w] = req[w]
    PROVE  SingleInv'
<1>1. ASSUME NEW c \in Clients PROVE AtMostOne(ActiveEmergencies(c)')
  BY DEF SingleInv, AtMostOne
<1>2. ASSUME NEW w \in Workers, NEW c \in Clients, req'[w].pc = "insert", req'[w].client = c
      PROVE  ActiveEmergencies(c)' = {}
  <2>1. req[w].pc = "insert" /\ req[w].client = c
    BY <1>2
  <2>2. ActiveEmergencies(c) = {}
    BY <2>1 DEF SingleInv
  <2> QED
    BY <2>2
<1>3. \A v, w \in Workers :
        (req'[v].pc = "insert" /\ req'[w].pc = "insert" /\ req'[v].client = req'[w].client) => v = w
  BY DEF SingleInv
<1> QED
  BY <1>1, <1>2, <1>3 DEF SingleInv, AtMostOne

LEMMA CheckActiveSingle ==
    ASSUME SingleInv, Inv', ~Racing, NEW w \in Workers, NEW c \in Clients, CheckActive(w, c)
    PROVE  SingleInv'
<1>1. PICK q : q = [pc |-> "insert", client |-> c, sid |-> NoOne, expires |-> 0,
                    notice |-> "opened", ok |-> FALSE]
  OBVIOUS
<1>2. /\ req' = [req EXCEPT ![w] = q] /\ q.pc = "insert" /\ q.client = c
      /\ emergencies' = emergencies /\ ActiveEmergencies(c) = {} /\ req \in [Workers -> Request]
  BY <1>1 DEF CheckActive, SingleInv, Inv, RowsInv
<1>3. \A v \in Workers : req[v].pc = "insert" => req[v].client # c
  BY DEF Racing
<1>4. \A v, u \in Workers :
        (req'[v].pc = "insert" /\ req'[u].pc = "insert" /\ req'[v].client = req'[u].client) => v = u
  BY <1>2, <1>3 DEF SingleInv
<1>5. \A d : ActiveEmergencies(d)' = ActiveEmergencies(d)
  BY <1>2 DEF ActiveEmergencies
<1>6. ASSUME NEW v \in Workers, NEW d \in Clients, req'[v].pc = "insert", req'[v].client = d
      PROVE  ActiveEmergencies(d) = {}
  BY <1>2, <1>6 DEF SingleInv
<1>7. \A d \in Clients : AtMostOne(ActiveEmergencies(d))
  BY DEF SingleInv
<1> QED
  BY <1>4, <1>5, <1>6, <1>7 DEF SingleInv, AtMostOne

LEMMA InsertSingle ==
    ASSUME SingleInv, Inv', NEW w \in Workers, InsertEmergency(w)
    PROVE  SingleInv'
<1>1. PICK e, row, q :
        /\ e \in EmergencyIds
        /\ emergencies' = [emergencies EXCEPT ![e] = row] /\ row.client = req[w].client
        /\ req' = [req EXCEPT ![w] = q] /\ q.pc = "deliver"
  <2>1. PICK e \in EmergencyIds, located \in BOOLEAN :
          /\ emergencies' = [emergencies EXCEPT ![e] =
                               [client |-> req[w].client, status |-> "ACTIVE", ended |-> NoTime,
                                known |-> IF located THEN now ELSE NoTime]]
          /\ Recording(w, e, "opened")
    BY DEF InsertEmergency
  <2>2. PICK row : row = [client |-> req[w].client, status |-> "ACTIVE", ended |-> NoTime,
                          known |-> IF located THEN now ELSE NoTime]
    OBVIOUS
  <2>3. PICK q : q = [pc |-> "deliver", client |-> NoOne, sid |-> e, expires |-> 0,
                      notice |-> "opened", ok |-> FALSE]
    OBVIOUS
  <2>4. req' = [req EXCEPT ![w] = q] /\ q.pc = "deliver"
    BY <2>1, <2>3 DEF Recording
  <2>5. emergencies' = [emergencies EXCEPT ![e] = row] /\ row.client = req[w].client
    BY <2>1, <2>2
  <2> QED
    BY <2>4, <2>5
<1>2. /\ emergencies \in [EmergencyIds -> EmergencyRow] /\ req \in [Workers -> Request]
      /\ req[w].pc = "insert" /\ ActiveEmergencies(req[w].client) = {}
  BY DEF InsertEmergency, SingleInv, Inv, RowsInv, TablesTyped, Aimed
<1>3. \A c : ActiveEmergencies(c)' \subseteq ActiveEmergencies(c) \cup {e}
  BY <1>1, <1>2 DEF ActiveEmergencies
<1>4. \A c : c # req[w].client => ActiveEmergencies(c)' \subseteq ActiveEmergencies(c)
  BY <1>1, <1>2 DEF ActiveEmergencies
<1>5. ASSUME NEW c \in Clients PROVE AtMostOne(ActiveEmergencies(c)')
  <2>1. CASE c = req[w].client
    <3>1. ActiveEmergencies(c) = {}
      BY <1>2, <2>1 DEF SingleInv
    <3>2. ActiveEmergencies(c)' \subseteq {e}
      BY <1>3, <3>1
    <3> QED
      BY <3>2 DEF AtMostOne
  <2>2. CASE c # req[w].client
    BY <1>4, <2>2 DEF SingleInv, AtMostOne
  <2> QED
    BY <2>1, <2>2
<1>6. ASSUME NEW v \in Workers, NEW c \in Clients, req'[v].pc = "insert", req'[v].client = c
      PROVE  ActiveEmergencies(c)' = {}
  <2>1. v # w /\ req'[v] = req[v]
    BY <1>1, <1>2, <1>6
  <2>2. c # req[w].client /\ ActiveEmergencies(c) = {}
    BY <1>2, <1>6, <2>1 DEF SingleInv
  <2> QED
    BY <1>4, <2>2
<1>7. \A v, u \in Workers :
        (req'[v].pc = "insert" /\ req'[u].pc = "insert" /\ req'[v].client = req'[u].client) => v = u
  BY <1>1, <1>2 DEF SingleInv
<1> QED
  BY <1>5, <1>6, <1>7 DEF SingleInv, AtMostOne

\* Every other step.
LEMMA RestSingle ==
    ASSUME SingleInv, Inv', NEW w \in Workers,
           \/ ExpireLazily(w) \/ MarkExpired(w) \/ Deliver(w) \/ RecordEvent(w)
           \/ \E e \in EmergencyIds : UpdateEmergencyLocation(w, e) \/ EndEmergency(w, e)
           \/ \E c \in Clients, s \in SharingIds, owner \in EmergencyIds \cup {NoOne}, ttl \in TTLs :
                 StartSharing(w, c, s, owner, ttl)
           \/ \E s \in SharingIds :
                 ReadSharing(w, s) \/ UpdateSharingLocation(w, s) \/ StopSharing(w, s)
    PROVE  SingleInv'
<1>1. emergencies \in [EmergencyIds -> EmergencyRow] /\ req \in [Workers -> Request]
  BY DEF SingleInv, Inv, RowsInv, TablesTyped
<1>2. \A c : ActiveEmergencies(c)' \subseteq ActiveEmergencies(c)
  <2>1. CASE emergencies' = emergencies
    BY <2>1 DEF ActiveEmergencies
  <2>2. ASSUME NEW e \in EmergencyIds, UpdateEmergencyLocation(w, e) \/ EndEmergency(w, e)
        PROVE  \A c : ActiveEmergencies(c)' \subseteq ActiveEmergencies(c)
    <3>1. PICK row : /\ emergencies' = [emergencies EXCEPT ![e] = row]
                     /\ row.status = "ACTIVE" => /\ emergencies[e].status = "ACTIVE"
                                                 /\ row.client = emergencies[e].client
      <4>1. PICK a, b : /\ a = [emergencies[e] EXCEPT !.known = now]
                        /\ b = [emergencies[e] EXCEPT !.status = "ENDED", !.ended = now]
        OBVIOUS
      <4>2. a.client = emergencies[e].client /\ b.status = "ENDED"
        BY <1>1, <4>1 DEF EmergencyRow
      <4>3. \/ emergencies' = [emergencies EXCEPT ![e] = a] /\ emergencies[e].status = "ACTIVE"
            \/ emergencies' = [emergencies EXCEPT ![e] = b]
        BY <2>2, <4>1 DEF UpdateEmergencyLocation, EndEmergency
      <4> QED
        BY <4>2, <4>3
    <3> QED
      BY <1>1, <3>1 DEF ActiveEmergencies
  <2> QED
    BY <2>1, <2>2 DEF ExpireLazily, MarkExpired, Deliver, RecordEvent, StartSharing, ReadSharing,
       UpdateSharingLocation, StopSharing
<1>3. \A v \in Workers : req'[v].pc = "insert" => req'[v] = req[v]
  <2>1. CASE req' = req
    BY <2>1
  <2>2. ASSUME NEW q, req' = [req EXCEPT ![w] = q], q.pc # "insert"
        PROVE  \A v \in Workers : req'[v].pc = "insert" => req'[v] = req[v]
    BY <1>1, <2>2
  <2>3. CASE req' = [req EXCEPT ![w] = Idle]
    BY <2>2, <2>3 DEF Idle
  <2>4. ASSUME NEW sid, NEW notice, Recording(w, sid, notice)
        PROVE  \A v \in Workers : req'[v].pc = "insert" => req'[v] = req[v]
    <3>1. PICK q : q = [pc |-> "deliver", client |-> NoOne, sid |-> sid, expires |-> 0,
                        notice |-> notice, ok |-> FALSE]
      OBVIOUS
    <3> QED
      BY <2>2, <2>4, <3>1 DEF Recording
  <2>5. CASE ExpireLazily(w)
    <3>1. PICK q : q = IF req[w].expires < now THEN [req[w] EXCEPT !.pc = "mark"] ELSE Idle
      OBVIOUS
    <3>2. req' = [req EXCEPT ![w] = q] /\ q.pc # "insert"
      BY <1>1, <2>5, <3>1 DEF ExpireLazily, Idle, Request
    <3> QED
      BY <2>2, <3>2
  <2>6. CASE Deliver(w)
    <3>1. PICK ok : req' = [req EXCEPT ![w] = [@ EXCEPT !.pc = "record", !.ok = ok]]
      BY <2>6 DEF Deliver
    <3>2. PICK q : q = [req[w] EXCEPT !.pc = "record", !.ok = ok]
      OBVIOUS
    <3>3. req' = [req EXCEPT ![w] = q] /\ q.pc = "record"
      BY <1>1, <3>1, <3>2 DEF Request
    <3> QED
      BY <2>2, <3>3
  <2>7. ASSUME NEW s \in SharingIds, ReadSharing(w, s)
        PROVE  \A v \in Workers : req'[v].pc = "insert" => req'[v] = req[v]
    <3>1. PICK q : q = [pc |-> "evaluate", client |-> NoOne, sid |-> s,
                        expires |-> sharings[s].expires, notice |-> "opened", ok |-> FALSE]
      OBVIOUS
    <3> QED
      BY <2>2, <2>7, <3>1 DEF ReadSharing
  <2>8. CASE MarkExpired(w) \/ RecordEvent(w)
    BY <2>3, <2>8 DEF MarkExpired, RecordEvent
  <2>9. ASSUME NEW e \in EmergencyIds, UpdateEmergencyLocation(w, e) \/ EndEmergency(w, e)
        PROVE  \A v \in Workers : req'[v].pc = "insert" => req'[v] = req[v]
    BY <2>1, <2>4, <2>9 DEF UpdateEmergencyLocation, EndEmergency
  <2>10. ASSUME NEW c \in Clients, NEW s \in SharingIds, NEW owner \in EmergencyIds \cup {NoOne},
                NEW ttl \in TTLs, StartSharing(w, c, s, owner, ttl)
         PROVE  \A v \in Workers : req'[v].pc = "insert" => req'[v] = req[v]
    BY <2>4, <2>10 DEF StartSharing
  <2>11. ASSUME NEW s \in SharingIds, UpdateSharingLocation(w, s) \/ StopSharing(w, s)
         PROVE  \A v \in Workers : req'[v].pc = "insert" => req'[v] = req[v]
    BY <2>1, <2>4, <2>11 DEF UpdateSharingLocation, StopSharing
  <2> QED
    BY <2>5, <2>6, <2>7, <2>8, <2>9, <2>10, <2>11
<1> QED
  BY <1>2, <1>3, SinglesStay

\* sessions.py:6: whatever else threads, clients and crashes do, a client has two
\* active sessions only if two of its creates raced between SELECT and INSERT.
THEOREM OnlyRacesDouble == Init /\ [][Next /\ ~Racing]_vars => []OneActiveEmergency
<1>1. Init => SingleInv
  <2> SUFFICES ASSUME Init PROVE SingleInv
    OBVIOUS
  <2>1. Inv
    BY InitInv
  <2>2. \A c : ActiveEmergencies(c) = {}
    BY DEF Init, ActiveEmergencies, FreeEmergency
  <2>3. \A w \in Workers : req[w].pc = "idle"
    BY DEF Init, Idle
  <2> QED
    BY <2>1, <2>2, <2>3 DEF SingleInv, AtMostOne
<1>2. SingleInv /\ [Next /\ ~Racing]_vars => SingleInv'
  <2> SUFFICES ASSUME SingleInv, [Next /\ ~Racing]_vars PROVE SingleInv'
    OBVIOUS
  <2>1. Inv'
    BY NextInv DEF SingleInv
  <2>2. CASE Tick \/ UNCHANGED vars
    <3>1. emergencies' = emergencies /\ req' = req
      BY <2>2 DEF Tick, vars
    <3>2. \A c : ActiveEmergencies(c)' \subseteq ActiveEmergencies(c)
      BY <3>1 DEF ActiveEmergencies
    <3> QED
      BY <2>1, <3>1, <3>2, SinglesStay
  <2>3. CASE Crash
    <3>1. emergencies' = emergencies /\ \A w \in Workers : req'[w].pc = "idle"
      BY <2>3 DEF Crash, Idle
    <3>2. \A c : ActiveEmergencies(c)' \subseteq ActiveEmergencies(c)
      BY <3>1 DEF ActiveEmergencies
    <3> QED
      BY <2>1, <3>1, <3>2, SinglesStay
  <2>4. ASSUME NEW w \in Workers, Serve(w) PROVE SingleInv'
    BY <2>1, <2>4, InsertSingle, RestSingle DEF Serve
  <2>5. ASSUME NEW w \in Workers, Arrive(w), ~Racing PROVE SingleInv'
    BY <2>1, <2>5, CheckActiveSingle, RestSingle DEF Arrive
  <2> QED
    BY <2>2, <2>3, <2>4, <2>5 DEF Next
<1>3. SingleInv => OneActiveEmergency
  <2> SUFFICES ASSUME SingleInv, NEW c \in Clients PROVE Cardinality(ActiveEmergencies(c)) <= 1
    BY DEF OneActiveEmergency
  <2>1. CASE ActiveEmergencies(c) = {}
    BY <2>1, FS_EmptySet
  <2>2. ASSUME NEW e \in ActiveEmergencies(c) PROVE Cardinality(ActiveEmergencies(c)) <= 1
    <3>1. ActiveEmergencies(c) = {e}
      BY DEF SingleInv, AtMostOne
    <3>2. Cardinality({e}) = 1
      BY FS_Singleton
    <3> QED
      BY <3>1, <3>2
  <2> QED
    BY <2>1, <2>2
<1> QED
  BY <1>1, <1>2, <1>3, PTL
=============================================================================
