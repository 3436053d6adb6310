--------------------------- MODULE GuardianProofs ---------------------------
(***************************************************************************)
(* For every number of clients, sessions, workers, every grace period and  *)
(* every interleaving of requests and crashes: the types of Guardian's     *)
(* state, NoticesAreDue, StageMatchesStatus and AutoSosIsJustified; and    *)
(* what holds besides when requests are served one at a time.              *)
(***************************************************************************)
EXTENDS Guardian, SequenceTheorems, FiniteSetTheorems, TLAPS

\* The row's stage, watermark and status tell the same story.
Coherent(row) ==
    /\ row.notified = row.stage
    /\ row.status \in Live => (row.status = "ESCALATED" <=> row.stage = 2)

\* Every stage notification in a sequence is due at time t.
AllDue(events, t) == \A i \in 1..Len(events) : IsStage(events[i]) => DueAt(events[i]) <= t

\* What a request carries between two of its steps: the row it read is coherent,
\* what it still has to record is due, and it only emits when it has something to.
Sound(r, t) ==
    /\ r \in Request
    /\ Coherent(r.row)
    /\ AllDue(r.events, t)
    /\ r.pc = "emit" => r.events # <<>>

TablesTyped ==
    /\ now \in Nat
    /\ sessions \in [SessionIds -> Row]
    /\ notices \in [SessionIds -> Seq(Notice)]
    /\ emergencies \in [Clients -> EmergencyCount]

\* The inductive invariant.
Inv ==
    /\ TablesTyped
    /\ req \in [Workers -> Request]
    /\ \A w \in Workers : Sound(req[w], now)
    /\ \A s \in SessionIds : Coherent(sessions[s]) /\ AllDue(notices[s], now)

-----------------------------------------------------------------------------
LEMMA DeadlineIsNat ==
    ASSUME NEW row \in Row
    PROVE  Deadline(row) \in Nat
BY DEF Row, Times, NoTime, Deadline

LEMMA StageAtIsStage ==
    ASSUME NEW row \in Row, NEW t \in Nat
    PROVE  StageAt(row, t) \in 0..2
BY DEF StageAt

\* The events _evaluate hands out are notices, and each is due when it does.
LEMMA StageEventsAreDue ==
    ASSUME NEW row \in Row, NEW t \in Nat
    PROVE  /\ StageEvents(row, StageAt(row, t)) \in Seq(Notice)
           /\ AllDue(StageEvents(row, StageAt(row, t)), t)
<1> DEFINE d == Deadline(row)
           st == StageAt(row, t)
           both == <<Note("checkin_missed", d), Note("checkin_escalated", d)>>
           m == row.notified + 1
<1>1. d \in Nat /\ st \in 0..2 /\ m \in 1..3
  BY DeadlineIsNat, StageAtIsStage DEF Row
<1>2. Note("checkin_missed", d) \in Notice /\ Note("checkin_escalated", d) \in Notice
  BY <1>1 DEF Note, Notice, NoticeTypes, Times
<1>3. /\ both \in Seq(Notice) /\ Len(both) = 2
      /\ both[1] = Note("checkin_missed", d) /\ both[2] = Note("checkin_escalated", d)
  BY <1>2
<1>a. /\ st >= 1 => t >= d
      /\ st = 2 => t >= d + EscalationDelay
  BY <1>1, TimesAssumption DEF StageAt
<1>b. StageEvents(row, st) = SubSeq(both, m, st)
  BY DEF StageEvents
<1>c. SUFFICES SubSeq(both, m, st) \in Seq(Notice) /\ AllDue(SubSeq(both, m, st), t)
  <2> HIDE DEF both, st, m
  <2> QED
    BY <1>b DEF st
<1> HIDE DEF d, st, both, m
<1>4. /\ SubSeq(both, m, st) \in Seq(Notice)
      /\ Len(SubSeq(both, m, st)) = IF m <= st THEN st - m + 1 ELSE 0
      /\ \A i \in 1..(st - m + 1) : SubSeq(both, m, st)[i] = both[m + i - 1]
  <2>1. \A i \in m..st : both[i] \in Notice
    BY <1>1, <1>2, <1>3
  <2> QED
    BY <1>1, <2>1, SubSeqProperties
<1>5. ASSUME NEW i \in 1..Len(SubSeq(both, m, st))
      PROVE  DueAt(SubSeq(both, m, st)[i]) <= t
  <2>1. i \in 1..(st - m + 1) /\ m + i - 1 \in 1..st
    BY <1>1, <1>4, <1>5
  <2>2. SubSeq(both, m, st)[i] = both[m + i - 1]
    BY <1>4, <2>1
  <2>3. CASE m + i - 1 = 1
    BY <1>1, <1>3, <1>a, <2>1, <2>2, <2>3 DEF DueAt, Note
  <2>4. CASE m + i - 1 = 2
    BY <1>1, <1>3, <1>a, <2>1, <2>2, <2>4 DEF DueAt, Note
  <2> QED
    BY <1>1, <2>1, <2>3, <2>4
<1>6. AllDue(SubSeq(both, m, st), t)
  BY <1>5 DEF AllDue
<1> QED
  BY <1>4, <1>6

LEMMA StagedIsCoherent ==
    ASSUME NEW row \in Row, NEW stage \in 0..2
    PROVE  Staged(row, stage) \in Row /\ Coherent(Staged(row, stage))
<1>1. Staged(row, stage) \in Row
  BY DEF Staged, Row, Statuses
<1>2. /\ Staged(row, stage).stage = stage /\ Staged(row, stage).notified = stage
      /\ Staged(row, stage).status = IF stage >= 2 THEN "ESCALATED" ELSE "ACTIVE"
  BY DEF Staged, Row
<1> QED
  BY <1>1, <1>2 DEF Coherent, Live

LEMMA IdleIsSound ==
    ASSUME NEW t \in Nat
    PROVE  Sound(Idle, t)
BY EmptySeq DEF Sound, Idle, Request, Steps, ReqOps, Row, BlankRow, Statuses, Times, NoTime, Coherent,
                Live, AllDue

\* However the handler goes on with the store's answer, the request stays sound.
LEMMA AnsweredIsSound ==
    ASSUME NEW r, NEW t \in Nat, Sound([r EXCEPT !.pc = "persist"], t), r \in Request
    PROVE  Sound(Answered(r), t)
<1>1. CASE r.op \in {"active", "get"} /\ r.events # <<>>
  BY <1>1 DEF Answered, Sound, Request, Steps
<1>2. CASE ~(r.op \in {"active", "get"} /\ r.events # <<>>) /\ r.op = "location" /\ r.row.status \in Live
  <2>1. Answered(r) = [r EXCEPT !.pc = "write", !.events = <<>>]
    BY <1>2 DEF Answered
  <2>2. AllDue(<<>>, t) /\ <<>> \in Seq(Notice)
    BY DEF AllDue
  <2>3. Answered(r) \in Request
    BY <2>1, <2>2 DEF Request, Steps
  <2> QED
    BY <2>1, <2>2, <2>3 DEF Sound, Request
<1>3. CASE ~(r.op \in {"active", "get"} /\ r.events # <<>>) /\ ~(r.op = "location" /\ r.row.status \in Live)
  BY <1>3, IdleIsSound DEF Answered
<1> QED
  BY <1>1, <1>2, <1>3

-----------------------------------------------------------------------------
LEMMA DueLater ==
    ASSUME NEW events \in Seq(Notice), NEW t \in Nat, NEW u \in Nat, t <= u, AllDue(events, t)
    PROVE  AllDue(events, u)
<1> SUFFICES ASSUME NEW i \in 1..Len(events), IsStage(events[i])
             PROVE  DueAt(events[i]) <= u
  BY DEF AllDue
<1>1. DueAt(events[i]) <= t
  BY DEF AllDue
<1>2. DueAt(events[i]) \in Int
  <2>1. events[i] \in Notice
    BY ElementOfSeq
  <2> QED
    BY <2>1, TimesAssumption DEF DueAt, Notice, Times, NoTime
<1> QED
  BY <1>1, <1>2

\* A step that replaces one worker's request by a sound one and leaves the tables.
LEMMA RequestStep ==
    ASSUME Inv, NEW w \in Workers, NEW q, Sound(q, now),
           req' = [req EXCEPT ![w] = q],
           UNCHANGED <<now, sessions, notices, emergencies>>
    PROVE  Inv'
<1>1. req' \in [Workers -> Request]
  BY DEF Inv, Sound
<1>2. \A v \in Workers : Sound(req'[v], now')
  BY DEF Inv
<1>3. TablesTyped'
  BY DEF Inv, TablesTyped
<1> QED
  BY <1>1, <1>2, <1>3 DEF Inv, AllDue

\* The same when the step also writes a coherent row.
LEMMA RowStep ==
    ASSUME Inv, NEW w \in Workers, NEW q, Sound(q, now),
           req' = [req EXCEPT ![w] = q],
           NEW s \in SessionIds, NEW row \in Row, Coherent(row),
           sessions' = [sessions EXCEPT ![s] = row],
           UNCHANGED <<now, notices, emergencies>>
    PROVE  Inv'
<1>1. req' \in [Workers -> Request] /\ \A v \in Workers : Sound(req'[v], now')
  BY DEF Inv, Sound
<1>2. TablesTyped' /\ \A t \in SessionIds : Coherent(sessions'[t])
  BY DEF Inv, TablesTyped
<1> QED
  BY <1>1, <1>2 DEF Inv, AllDue

LEMMA BlankIsCoherent == BlankRow \in Row /\ Coherent(BlankRow)
BY DEF BlankRow, Row, Statuses, Times, NoTime, Coherent, Live

\* A handler's own notification, which no deadline governs.
LEMMA OneEventIsSound ==
    ASSUME NEW event \in Notice, ~IsStage(event), NEW t
    PROVE  <<event>> \in Seq(Notice) /\ <<event>> # <<>> /\ AllDue(<<event>>, t)
<1>1. <<event>> \in Seq(Notice) /\ Len(<<event>>) = 1 /\ <<event>>[1] = event
  OBVIOUS
<1>2. <<event>> # <<>>
  OBVIOUS
<1> QED
  BY <1>1, <1>2 DEF AllDue

LEMMA InitInv == Init => Inv
<1> SUFFICES ASSUME Init PROVE Inv
  OBVIOUS
<1>1. BlankRow \in Row /\ Coherent(BlankRow)
  BY BlankIsCoherent
<1>2. Sound(Idle, 0) /\ Idle \in Request
  BY IdleIsSound DEF Sound
<1>3. TablesTyped
  <2>1. [active |-> 0, auto |-> 0, noted |-> 0] \in EmergencyCount
    BY DEF EmergencyCount
  <2> QED
    BY <1>1, <2>1 DEF Init, TablesTyped
<1>4. \A s \in SessionIds : AllDue(notices[s], now)
  BY DEF Init, AllDue
<1> QED
  BY <1>1, <1>2, <1>3, <1>4 DEF Init, Inv

LEMMA TickInv == Inv /\ Tick => Inv'
<1> SUFFICES ASSUME Inv, Tick PROVE Inv'
  OBVIOUS
<1>1. now \in Nat /\ now' \in Nat /\ now <= now'
  BY DEF Inv, TablesTyped, Tick
<1>2. TablesTyped' /\ req' \in [Workers -> Request]
  BY <1>1 DEF Inv, TablesTyped, Tick
<1>3. ASSUME NEW w \in Workers PROVE Sound(req'[w], now')
  <2>1. req[w] \in Request /\ Sound(req[w], now) /\ req'[w] = req[w]
    BY DEF Inv, Tick
  <2>2. AllDue(req[w].events, now')
    BY <1>1, <2>1, DueLater DEF Sound, Request
  <2> QED
    BY <2>1, <2>2 DEF Sound
<1>4. ASSUME NEW s \in SessionIds PROVE Coherent(sessions'[s]) /\ AllDue(notices'[s], now')
  <2>1. notices[s] \in Seq(Notice) /\ AllDue(notices[s], now) /\ Coherent(sessions[s])
    BY DEF Inv, TablesTyped
  <2> QED
    BY <1>1, <2>1, DueLater DEF Tick
<1> QED
  BY <1>2, <1>3, <1>4 DEF Inv

-----------------------------------------------------------------------------
\* Reading a row hands the request a coherent snapshot and nothing to record.
LEMMA ReadingInv ==
    ASSUME Inv, NEW w \in Workers, NEW s \in SessionIds, NEW op \in ReqOps, Reading(w, op, s),
           UNCHANGED <<now, sessions, notices, emergencies>>
    PROVE  Inv'
<1> DEFINE q == [pc |-> "evaluate", op |-> op, sid |-> s, row |-> sessions[s], events |-> <<>>]
<1>1. sessions[s] \in Row /\ Coherent(sessions[s])
  BY DEF Inv, TablesTyped
<1>2. Sound(q, now)
  BY <1>1 DEF Sound, Request, Steps, AllDue
<1> QED
  BY <1>2, RequestStep DEF Reading

LEMMA SelectNoneInv ==
    ASSUME Inv, NEW w \in Workers, NEW c \in Clients, SelectNone(w, c)
    PROVE  Inv'
<1> DEFINE row == [BlankRow EXCEPT !.client = c]
           q == [pc |-> "insert", op |-> "create", sid |-> NoOne, row |-> row, events |-> <<>>]
<1>1. row \in Row /\ Coherent(row)
  BY BlankIsCoherent DEF Row, Coherent
<1> HIDE DEF row
<1>2. Sound(q, now)
  BY <1>1 DEF Sound, Request, Steps, ReqOps, AllDue
<1> USE DEF row
<1> QED
  BY <1>2, RequestStep DEF SelectNone

LEMMA EvaluateInv ==
    ASSUME Inv, NEW w \in Workers, Evaluate(w)
    PROVE  Inv'
<1> DEFINE r == req[w]
           stage == StageAt(r.row, now)
           q == [r EXCEPT !.pc = "persist", !.row = Staged(r.row, stage),
                          !.events = StageEvents(r.row, stage)]
<1>1. r \in Request /\ Sound(r, now) /\ now \in Nat /\ r.row \in Row
  BY DEF Inv, TablesTyped, Request
<1>2. CASE r.row.status \notin Live \/ stage = r.row.stage
  <2>1. Sound([r EXCEPT !.pc = "persist"], now)
    BY <1>1 DEF Sound, Request, Steps
  <2>2. Sound(Answered(r), now)
    BY <1>1, <2>1, AnsweredIsSound
  <2>3. req' = [req EXCEPT ![w] = Answered(r)]
    BY <1>2 DEF Evaluate
  <2> QED
    BY <2>2, <2>3, RequestStep DEF Evaluate
<1>3. CASE ~(r.row.status \notin Live \/ stage = r.row.stage)
  <2>1. stage \in 0..2
    BY <1>1, StageAtIsStage
  <2>2. Staged(r.row, stage) \in Row /\ Coherent(Staged(r.row, stage))
    BY <1>1, <2>1, StagedIsCoherent
  <2>3. StageEvents(r.row, stage) \in Seq(Notice) /\ AllDue(StageEvents(r.row, stage), now)
    BY <1>1, StageEventsAreDue
  <2> HIDE DEF stage
  <2>4. Sound(q, now)
    BY <1>1, <2>2, <2>3 DEF Sound, Request, Steps
  <2>5. req' = [req EXCEPT ![w] = q]
    BY <1>3 DEF Evaluate, stage
  <2> QED
    BY <2>4, <2>5, RequestStep DEF Evaluate
<1> QED
  BY <1>2, <1>3

\* The stale write puts status, stage and watermark of one evaluation together.
LEMMA PersistInv ==
    ASSUME Inv, NEW w \in Workers, Persist(w)
    PROVE  Inv'
<1> DEFINE r == req[w]
<1>1. r \in Request /\ Sound(r, now) /\ now \in Nat /\ r.row \in Row /\ r.pc = "persist"
  BY DEF Inv, TablesTyped, Request, Persist
<1>2. Sound(Answered(r), now)
  <2>1. Sound([r EXCEPT !.pc = "persist"], now)
    BY <1>1 DEF Sound, Request, Steps
  <2> QED
    BY <1>1, <2>1, AnsweredIsSound
<1>3. CASE r.sid \in SessionIds
  <2> DEFINE row == [sessions[r.sid] EXCEPT !.status = r.row.status, !.stage = r.row.stage,
                                            !.notified = r.row.notified]
  <2>1. sessions[r.sid] \in Row
    BY <1>3 DEF Inv, TablesTyped
  <2>2. row \in Row
    BY <1>1, <2>1 DEF Row
  <2>3. row.status = r.row.status /\ row.stage = r.row.stage /\ row.notified = r.row.notified
    BY <2>1 DEF Row
  <2>4. Coherent(row)
    BY <1>1, <2>3 DEF Sound, Coherent
  <2>5. sessions' = [sessions EXCEPT ![r.sid] = row] /\ req' = [req EXCEPT ![w] = Answered(r)]
    BY <1>3 DEF Persist, Inv, TablesTyped
  <2> QED
    BY <1>2, <1>3, <2>2, <2>4, <2>5, RowStep DEF Persist
<1>4. CASE r.sid \notin SessionIds
  <2>1. sessions' = sessions /\ req' = [req EXCEPT ![w] = Answered(r)]
    BY <1>4 DEF Persist, Inv, TablesTyped
  <2> QED
    BY <1>2, <2>1, RequestStep DEF Persist
<1> QED
  BY <1>3, <1>4

LEMMA InsertInv ==
    ASSUME Inv, NEW w \in Workers, Insert(w)
    PROVE  Inv'
<1>1. PICK s \in Free, g \in Graces, e \in Arrivals, p \in Geometries :
        LET row == [BlankRow EXCEPT !.client = req[w].row.client, !.status = "ACTIVE",
                                    !.started = now, !.grace = g, !.expected = e, !.planned = p]
        IN  /\ sessions' = [sessions EXCEPT ![s] = row]
            /\ req' = [req EXCEPT ![w] =
                         [@ EXCEPT !.pc = "emit", !.sid = s, !.row = row,
                                   !.events = <<Note("guardian_started", Deadline(row))>>]]
  BY DEF Insert
<1> DEFINE r == req[w]
           row == [BlankRow EXCEPT !.client = r.row.client, !.status = "ACTIVE",
                                   !.started = now, !.grace = g, !.expected = e, !.planned = p]
           event == Note("guardian_started", Deadline(row))
           q == [r EXCEPT !.pc = "emit", !.sid = s, !.row = row, !.events = <<event>>]
<1>2. r \in Request /\ r.row \in Row /\ now \in Nat /\ s \in SessionIds
  BY DEF Inv, TablesTyped, Request, Free
<1>3. row \in Row /\ Coherent(row)
  <2>1. /\ r.row.client \in Clients \cup {NoOne} /\ g \in Nat /\ e \in Times /\ p \in BOOLEAN
    BY <1>2, TimesAssumption, FlagsAssumption DEF Row, Times
  <2>2. row \in Row
    BY <1>2, <2>1, BlankIsCoherent DEF Row, Statuses
  <2>3. row.stage = 0 /\ row.notified = 0 /\ row.status = "ACTIVE"
    BY DEF BlankRow
  <2> QED
    BY <2>2, <2>3 DEF Coherent
<1>4. event \in Notice /\ ~IsStage(event)
  BY <1>3, DeadlineIsNat DEF Note, Notice, NoticeTypes, Times, IsStage
<1>5. sessions' = [sessions EXCEPT ![s] = row] /\ req' = [req EXCEPT ![w] = q]
  BY <1>1
<1> HIDE DEF row, event
<1>6. Sound(q, now)
  BY <1>2, <1>3, <1>4, OneEventIsSound DEF Sound, Request, Steps
<1> QED
  BY <1>2, <1>3, <1>5, <1>6, RowStep DEF Insert

LEMMA WriteLocationInv ==
    ASSUME Inv, NEW w \in Workers, WriteLocation(w)
    PROVE  Inv'
<1> DEFINE r == req[w]
           event == Note("route_changed", NoTime)
           q == [r EXCEPT !.pc = "emit", !.events = <<event>>]
<1>1. r \in Request /\ Sound(r, now) /\ now \in Nat /\ r.row \in Row
  BY DEF Inv, TablesTyped, Request
<1>2. PICK off \in BOOLEAN :
        LET detected == r.row.deviated \/ (off /\ r.row.planned)
        IN  IF sessions[r.sid].status \notin Live
            THEN /\ req' = [req EXCEPT ![w] = Idle]
                 /\ UNCHANGED sessions
            ELSE /\ sessions' = [sessions EXCEPT ![r.sid].deviated = detected]
                 /\ req' = [req EXCEPT ![w] = IF detected /\ ~r.row.deviated THEN q ELSE Idle]
  BY DEF WriteLocation
<1> DEFINE detected == r.row.deviated \/ (off /\ r.row.planned)
<1>3. Sound(Idle, now)
  BY <1>1, IdleIsSound
<1>4. Sound(q, now)
  <2>1. event \in Notice /\ ~IsStage(event)
    BY DEF Note, Notice, NoticeTypes, Times, IsStage
  <2> HIDE DEF event
  <2> QED
    BY <1>1, <2>1, OneEventIsSound DEF Sound, Request, Steps
<1>5. CASE sessions[r.sid].status \notin Live
  BY <1>2, <1>3, <1>5, RequestStep DEF WriteLocation
<1>6. CASE sessions[r.sid].status \in Live
  <2> DEFINE p == IF detected /\ ~r.row.deviated THEN q ELSE Idle
             row == [sessions[r.sid] EXCEPT !.deviated = detected]
  <2>1. Sound(p, now) /\ req' = [req EXCEPT ![w] = p]
    BY <1>2, <1>3, <1>4, <1>6
  <2>2. detected \in BOOLEAN
    BY <1>1 DEF Row
  <2>3. CASE r.sid \in SessionIds
    <3>1. sessions[r.sid] \in Row /\ Coherent(sessions[r.sid])
      BY <2>3 DEF Inv, TablesTyped
    <3> HIDE DEF detected
    <3>2. row \in Row
      BY <2>2, <3>1 DEF Row
    <3>3. Coherent(row)
      BY <3>1 DEF Row, Coherent
    <3>4. sessions' = [sessions EXCEPT ![r.sid] = row]
      BY <1>2, <1>6, <2>3 DEF Inv, TablesTyped, detected
    <3> HIDE DEF row, p
    <3> QED
      BY <2>1, <2>3, <3>2, <3>3, <3>4, RowStep DEF WriteLocation
  <2>4. CASE r.sid \notin SessionIds
    <3>1. sessions' = sessions
      BY <1>2, <1>6, <2>4 DEF Inv, TablesTyped
    <3> HIDE DEF p
    <3> QED
      BY <2>1, <3>1, RequestStep DEF WriteLocation
  <2> QED
    BY <2>3, <2>4
<1> QED
  BY <1>5, <1>6

\* Recording an event appends a notice that is due.
LEMMA EmitInv ==
    ASSUME Inv, NEW w \in Workers, Emit(w)
    PROVE  Inv'
<1> DEFINE r == req[w]
           event == Head(r.events)
           q == IF Tail(r.events) # <<>> THEN [r EXCEPT !.events = Tail(@)]
                ELSE IF AutoSos /\ event.type = "checkin_escalated"
                     THEN [r EXCEPT !.pc = "checksos", !.events = <<>>]
                     ELSE Idle
<1>1. /\ r \in Request /\ Sound(r, now) /\ now \in Nat /\ r.pc = "emit"
      /\ r.events \in Seq(Notice) /\ r.events # <<>> /\ AllDue(r.events, now)
  BY DEF Inv, TablesTyped, Request, Emit, Sound
<1>2. /\ event \in Notice
      /\ IsStage(event) => DueAt(event) <= now
      /\ Tail(r.events) \in Seq(Notice)
      /\ AllDue(Tail(r.events), now)
  <2>1. Len(r.events) \in Nat /\ Len(r.events) > 0 /\ event = r.events[1]
    BY <1>1, EmptySeq
  <2>2. /\ Tail(r.events) \in Seq(Notice)
        /\ Len(Tail(r.events)) = Len(r.events) - 1
        /\ \A i \in 1..Len(Tail(r.events)) : Tail(r.events)[i] = r.events[i + 1]
    BY <1>1, HeadTailProperties
  <2>3. event \in Notice
    BY <1>1, <2>1, ElementOfSeq
  <2> QED
    BY <1>1, <2>1, <2>2, <2>3 DEF AllDue
<1>3. Sound(q, now)
  <2>1. CASE Tail(r.events) # <<>>
    BY <1>1, <1>2, <2>1 DEF Sound, Request
  <2>2. AllDue(<<>>, now) /\ <<>> \in Seq(Notice) /\ Sound(Idle, now)
    BY <1>1, IdleIsSound DEF AllDue
  <2>3. CASE Tail(r.events) = <<>> /\ AutoSos /\ event.type = "checkin_escalated"
    BY <1>1, <2>2, <2>3 DEF Sound, Request, Steps
  <2> QED
    BY <2>1, <2>2, <2>3
<1>4. /\ req' = [req EXCEPT ![w] = q]
      /\ notices' = [notices EXCEPT ![r.sid] = Append(@, event)]
      /\ UNCHANGED <<now, sessions, emergencies>>
  BY DEF Emit
<1> HIDE DEF q, event
<1>5. req' \in [Workers -> Request] /\ \A v \in Workers : Sound(req'[v], now')
  BY <1>3, <1>4 DEF Inv, Sound
<1>6. ASSUME NEW s \in SessionIds PROVE notices'[s] \in Seq(Notice) /\ AllDue(notices'[s], now')
  <2>1. notices[s] \in Seq(Notice) /\ AllDue(notices[s], now)
    BY DEF Inv, TablesTyped
  <2>2. CASE s # r.sid
    BY <1>4, <2>1, <2>2 DEF Inv, TablesTyped
  <2>3. CASE s = r.sid
    <3>1. notices'[s] = Append(notices[s], event)
      BY <1>4, <2>3 DEF Inv, TablesTyped
    <3>2. /\ Append(notices[s], event) \in Seq(Notice)
          /\ Len(Append(notices[s], event)) = Len(notices[s]) + 1
          /\ \A i \in 1..Len(notices[s]) : Append(notices[s], event)[i] = notices[s][i]
          /\ Append(notices[s], event)[Len(notices[s]) + 1] = event
      BY <1>2, <2>1, AppendProperties
    <3>3. Len(notices[s]) \in Nat
      BY <2>1, LenProperties
    <3>4. ASSUME NEW i \in 1..(Len(notices[s]) + 1), IsStage(notices'[s][i])
          PROVE  DueAt(notices'[s][i]) <= now
      <4>1. CASE i \in 1..Len(notices[s])
        BY <2>1, <3>1, <3>2, <3>4, <4>1 DEF AllDue
      <4>2. CASE i = Len(notices[s]) + 1
        BY <1>2, <3>1, <3>2, <3>4, <4>2
      <4> QED
        BY <3>3, <4>1, <4>2
    <3> QED
      BY <1>4, <3>1, <3>2, <3>4 DEF AllDue
  <2> QED
    BY <2>2, <2>3
<1>7. TablesTyped' /\ \A s \in SessionIds : Coherent(sessions'[s])
  BY <1>4, <1>6 DEF Inv, TablesTyped
<1> QED
  BY <1>5, <1>6, <1>7 DEF Inv

\* Counting up or down keeps a client's emergency counts typed.
LEMMA Counting ==
    ASSUME NEW e \in EmergencyCount
    PROVE  /\ [e EXCEPT !.active = @ + 1] \in EmergencyCount
           /\ [e EXCEPT !.noted = @ + 1] \in EmergencyCount
           /\ [e EXCEPT !.active = @ + 1, !.auto = @ + 1] \in EmergencyCount
           /\ e.active > 0 => [e EXCEPT !.active = @ - 1] \in EmergencyCount
<1>1. e.active + 1 \in Nat /\ e.auto + 1 \in Nat /\ (e.active > 0 => e.active - 1 \in Nat)
  BY DEF EmergencyCount
<1>2. [e EXCEPT !.active = @ + 1] \in EmergencyCount
  BY DEF EmergencyCount
<1>3. [e EXCEPT !.noted = @ + 1] \in EmergencyCount
  BY DEF EmergencyCount
<1>4. [e EXCEPT !.active = @ + 1, !.auto = @ + 1] \in EmergencyCount
  BY <1>1 DEF EmergencyCount
<1>5. e.active > 0 => [e EXCEPT !.active = @ - 1] \in EmergencyCount
  BY <1>1 DEF EmergencyCount
<1> QED
  BY <1>2, <1>3, <1>4, <1>5

LEMMA CountStep ==
    ASSUME Inv, NEW c \in Clients, NEW v \in EmergencyCount,
           emergencies' = [emergencies EXCEPT ![c] = v],
           UNCHANGED <<now, sessions, notices>>
    PROVE  TablesTyped'
BY DEF Inv, TablesTyped

\* The auto-SOS steps touch the counts of emergencies only.
LEMMA SosInv ==
    ASSUME Inv, NEW w \in Workers, CheckSos(w) \/ StartSos(w) \/ RecordSos(w)
    PROVE  Inv'
<1>1. /\ req[w] \in Request /\ Sound(req[w], now) /\ now \in Nat
      /\ Sound(Idle, now)
  BY IdleIsSound DEF Inv, TablesTyped
<1>2. CASE CheckSos(w)
  <2> DEFINE p == IF emergencies[req[w].row.client].active > 0 THEN Idle
                  ELSE [req[w] EXCEPT !.pc = "startsos"]
  <2>1. Sound(p, now)
    BY <1>1 DEF Sound, Request, Steps
  <2>2. req' = [req EXCEPT ![w] = p]
    BY <1>2 DEF CheckSos, Inv
  <2> HIDE DEF p
  <2> QED
    BY <1>2, <2>1, <2>2, RequestStep DEF CheckSos
<1>3. CASE StartSos(w)
  <2>1. Sound([req[w] EXCEPT !.pc = "recordsos"], now)
    BY <1>1 DEF Sound, Request, Steps
  <2>2. req' = [req EXCEPT ![w] = [req[w] EXCEPT !.pc = "recordsos"]]
    BY <1>3 DEF StartSos, Inv
  <2>3. req' \in [Workers -> Request] /\ \A v \in Workers : Sound(req'[v], now)
    BY <2>1, <2>2 DEF Inv, Sound
  <2>4. TablesTyped'
    <3> DEFINE c == req[w].row.client
    <3>1. CASE c \in Clients
      <4>1. emergencies[c] \in EmergencyCount
        BY <3>1 DEF Inv, TablesTyped
      <4>2. emergencies' = [emergencies EXCEPT ![c] =
                              [emergencies[c] EXCEPT !.active = @ + 1, !.auto = @ + 1]]
        BY <1>3 DEF StartSos
      <4> QED
        BY <1>3, <3>1, <4>1, <4>2, Counting, CountStep DEF StartSos
    <3>2. CASE c \notin Clients
      BY <1>3, <3>2 DEF StartSos, Inv, TablesTyped
    <3> QED
      BY <3>1, <3>2
  <2> QED
    BY <1>3, <2>3, <2>4 DEF StartSos, Inv
<1>4. CASE RecordSos(w)
  <2>1. req' \in [Workers -> Request] /\ \A v \in Workers : Sound(req'[v], now)
    BY <1>1, <1>4 DEF RecordSos, Inv, Sound
  <2>2. TablesTyped'
    <3> DEFINE c == req[w].row.client
    <3>1. CASE c \in Clients
      <4>1. emergencies[c] \in EmergencyCount
        BY <3>1 DEF Inv, TablesTyped
      <4>2. emergencies' = [emergencies EXCEPT ![c] = [emergencies[c] EXCEPT !.noted = @ + 1]]
        BY <1>4 DEF RecordSos
      <4> QED
        BY <1>4, <3>1, <4>1, <4>2, Counting, CountStep DEF RecordSos
    <3>2. CASE c \notin Clients
      BY <1>4, <3>2 DEF RecordSos, Inv, TablesTyped
    <3> QED
      BY <3>1, <3>2
  <2> QED
    BY <1>4, <2>1, <2>2 DEF RecordSos, Inv
<1> QED
  BY <1>2, <1>3, <1>4

LEMMA CheckinInv ==
    ASSUME Inv, NEW w \in Workers, NEW s \in SessionIds, Checkin(w, s)
    PROVE  Inv'
<1> DEFINE row == [sessions[s] EXCEPT !.checkin = now, !.expected = NoTime, !.status = "ACTIVE",
                                      !.stage = 0, !.notified = 0]
<1>1. sessions[s] \in Row /\ now \in Nat /\ now \in Times
  BY DEF Inv, TablesTyped, Times
<1>2. row \in Row
  <2>1. NoTime \in Times /\ "ACTIVE" \in Statuses /\ 0 \in 0..2
    BY DEF Times, Statuses
  <2> QED
    BY <1>1, <2>1 DEF Row
<1>3. Coherent(row)
  BY <1>1 DEF Row, Coherent
<1>4. sessions' = [sessions EXCEPT ![s] = row] /\ UNCHANGED <<now, notices, emergencies, req>>
  BY DEF Checkin
<1> HIDE DEF row
<1>5. TablesTyped' /\ \A t \in SessionIds : Coherent(sessions'[t])
  BY <1>2, <1>3, <1>4 DEF Inv, TablesTyped
<1> QED
  BY <1>4, <1>5 DEF Inv

LEMMA EndInv ==
    ASSUME Inv, NEW w \in Workers, NEW s \in SessionIds, NEW reason, End(w, s, reason)
    PROVE  Inv'
<1> DEFINE done == IF reason = "arrived" THEN "COMPLETED" ELSE "CANCELLED"
           event == Note(IF reason = "arrived" THEN "journey_completed" ELSE "guardian_ended", NoTime)
           row == [sessions[s] EXCEPT !.status = done]
           q == [pc |-> "emit", op |-> "end", sid |-> s, row |-> row, events |-> <<event>>]
<1>1. sessions[s] \in Row /\ Coherent(sessions[s])
  BY DEF Inv, TablesTyped
<1>2. row \in Row /\ Coherent(row)
  BY <1>1 DEF Row, Statuses, Coherent, Live
<1>3. event \in Notice /\ ~IsStage(event)
  BY DEF Note, Notice, NoticeTypes, Times, IsStage
<1>4. sessions' = [sessions EXCEPT ![s] = row] /\ sessions'[s] = row
  BY DEF End, Inv, TablesTyped
<1>5. req' = [req EXCEPT ![w] = q]
  BY <1>4 DEF End
<1> HIDE DEF row, event
<1>6. Sound(q, now)
  BY <1>2, <1>3, OneEventIsSound DEF Sound, Request, Steps, ReqOps
<1> QED
  BY <1>2, <1>4, <1>5, <1>6, RowStep DEF End

LEMMA OwnerSosInv ==
    ASSUME Inv, NEW c \in Clients, OwnerStartsSos(c) \/ OwnerEndsSos(c)
    PROVE  Inv'
<1>1. emergencies[c] \in EmergencyCount
  BY DEF Inv, TablesTyped
<1>2. CASE OwnerStartsSos(c)
  <2>1. emergencies' = [emergencies EXCEPT ![c] = [emergencies[c] EXCEPT !.active = @ + 1]]
    BY <1>2 DEF OwnerStartsSos
  <2> QED
    BY <1>1, <1>2, <2>1, Counting, CountStep DEF OwnerStartsSos, Inv
<1>3. CASE OwnerEndsSos(c)
  <2>1. emergencies' = [emergencies EXCEPT ![c] = [emergencies[c] EXCEPT !.active = @ - 1]]
    BY <1>3 DEF OwnerEndsSos
  <2> QED
    BY <1>1, <1>3, <2>1, Counting, CountStep DEF OwnerEndsSos, Inv
<1> QED
  BY <1>2, <1>3

\* A crash drops requests and leaves the tables.
LEMMA CrashInv == Inv /\ Crash => Inv'
<1> SUFFICES ASSUME Inv, Crash PROVE Inv'
  OBVIOUS
<1>1. Sound(Idle, now) /\ Idle \in Request
  BY IdleIsSound DEF Inv, TablesTyped, Sound
<1> QED
  BY <1>1 DEF Crash, Inv, TablesTyped

-----------------------------------------------------------------------------
LEMMA NextInv == Inv /\ [Next]_vars => Inv'
<1> SUFFICES ASSUME Inv, [Next]_vars PROVE Inv'
  OBVIOUS
<1>1. CASE Tick
  BY <1>1, TickInv
<1>2. ASSUME NEW w \in Workers, Step(w) PROVE Inv'
  BY <1>2, EvaluateInv, PersistInv, InsertInv, WriteLocationInv, EmitInv, SosInv DEF Step
<1>3. ASSUME NEW w \in Workers, Arrive(w) PROVE Inv'
  <2>1. ASSUME NEW c \in Clients, NEW op \in {"create", "active", "dashboard"}, SelectNewest(w, c, op)
        PROVE  Inv'
    BY <2>1, ReadingInv DEF SelectNewest, Newest, LiveOf, ReqOps
  <2>2. ASSUME NEW s \in SessionIds, NEW op \in {"get", "location"}, SelectById(w, s, op)
        PROVE  Inv'
    BY <2>2, ReadingInv DEF SelectById, ReqOps
  <2> QED
    BY <1>3, <2>1, <2>2, SelectNoneInv, CheckinInv, EndInv DEF Arrive
<1>4. ASSUME NEW c \in Clients, OwnerStartsSos(c) \/ OwnerEndsSos(c) PROVE Inv'
  BY <1>4, OwnerSosInv
<1>5. CASE Crash
  BY <1>5, CrashInv
<1>6. CASE UNCHANGED vars
  BY <1>6 DEF vars, Inv, TablesTyped
<1> QED
  BY <1>1, <1>2, <1>3, <1>4, <1>5, <1>6 DEF Next

LEMMA InvAlways == Spec => []Inv
BY InitInv, NextInv, PTL DEF Spec

\* The state of Guardian keeps its types.
THEOREM TypesHold == Spec => []TypeOK
<1>1. Inv => TypeOK
  BY DEF Inv, TablesTyped, TypeOK
<1> QED
  BY <1>1, InvAlways, PTL

\* No stage of a missed check-in is notified before its time.
THEOREM NoNoticeTooEarly == Spec => []NoticesAreDue
<1>1. Inv => NoticesAreDue
  BY DEF Inv, AllDue, NoticesAreDue
<1> QED
  BY <1>1, InvAlways, PTL

\* Whatever stale evaluation is written last, status, stage and watermark agree.
THEOREM StagesMatch == Spec => []StageMatchesStatus
<1>1. Inv => StageMatchesStatus
  BY DEF Inv, Coherent, StageMatchesStatus
<1> QED
  BY <1>1, InvAlways, PTL

-----------------------------------------------------------------------------
(* The auto-SOS is counted: an emergency it starts has an escalation behind *)
(* it, whichever threads recorded, checked and started what, and whichever  *)
(* of them a crash cut short.                                               *)

\* The requests on client c's journeys that are at one of the steps in P.
At(c, P) == {w \in Workers : req[w].pc \in P /\ req[w].row.client = c}
SosSteps == {"checksos", "startsos", "recordsos"}

\* Each start has an escalation of its own, and each record a start.
Counted(c) ==
    /\ IsFiniteSet(EscalationsOf(c))
    /\ emergencies[c].auto + Cardinality(At(c, {"checksos", "startsos"}))
         <= Cardinality(EscalationsOf(c))
    /\ emergencies[c].noted + Cardinality(At(c, {"recordsos"})) <= emergencies[c].auto

\* A request past its SELECT works on a journey of the client it has read.
Owned(r, rows) ==
    /\ r.pc \notin {"idle", "insert"} =>
           /\ r.sid \in SessionIds /\ rows[r.sid].status # "FREE" /\ r.row.status # "FREE"
           /\ r.row.client = rows[r.sid].client
    /\ r.pc = "insert" => r.row.client \in Clients

RowOwned(row, log) ==
    /\ row.status = "FREE" => log = <<>>
    /\ row.status # "FREE" => row.client \in Clients

\* The inductive invariant.
CountInv ==
    /\ Inv
    /\ \A s \in SessionIds : RowOwned(sessions[s], notices[s])
    /\ \A w \in Workers : Owned(req[w], sessions)
    /\ \A c \in Clients : Counted(c)

\* What a step must do to keep the parts of CountInv that Inv does not hold.
CountKept ==
    /\ \A s \in SessionIds : RowOwned(sessions'[s], notices'[s])
    /\ \A w \in Workers : Owned(req'[w], sessions')
    /\ \A c \in Clients : Counted(c)'

\* A journey that is given out is never taken back and never changes hands.
RowsStay ==
    \A s \in SessionIds : sessions[s].status # "FREE" =>
        sessions'[s].status # "FREE" /\ sessions'[s].client = sessions[s].client

\* One request moves on: the others still work on their clients' journeys.
LEMMA OwnedStep ==
    ASSUME CountInv, NEW w \in Workers, NEW q, req' = [req EXCEPT ![w] = q],
           Owned(q, sessions'), RowsStay
    PROVE  \A v \in Workers : Owned(req'[v], sessions')
<1> SUFFICES ASSUME NEW v \in Workers PROVE Owned(req'[v], sessions')
  OBVIOUS
<1>1. CASE v = w
  BY <1>1 DEF CountInv, Inv
<1>2. CASE v # w
  <2>1. req'[v] = req[v] /\ Owned(req[v], sessions)
    BY <1>2 DEF CountInv, Inv
  <2> QED
    BY <2>1 DEF Owned, RowsStay
<1> QED
  BY <1>1, <1>2

\* An escalation stays its client's.
LEMMA EscalationsStay ==
    ASSUME CountInv, RowsStay, notices' = notices, NEW c \in Clients
    PROVE  EscalationsOf(c)' = EscalationsOf(c)
<1>1. ASSUME NEW s \in SessionIds
      PROVE  \/ sessions'[s].client = sessions[s].client
             \/ notices[s] = <<>>
  BY DEF CountInv, RowOwned, RowsStay
<1>2. \A s \in SessionIds : notices[s] = <<>> =>
          {s} \X {i \in 1..Len(notices[s]) : notices[s][i].type = "checkin_escalated"} = {}
  OBVIOUS
<1> QED
  BY <1>1, <1>2 DEF EscalationsOf

\* A request that is not at those steps and does not come to them.
LEMMA AtKept ==
    ASSUME CountInv, NEW w \in Workers, NEW q, req' = [req EXCEPT ![w] = q], NEW c, NEW P,
           req[w].pc \notin P, q.pc \notin P
    PROVE  At(c, P)' = At(c, P)
<1>1. \A v \in Workers : req'[v] = IF v = w THEN q ELSE req[v]
  BY DEF CountInv, Inv
<1> QED
  BY <1>1 DEF At

\* A step that is not of the auto-SOS and records nothing.
LEMMA UncountedStep ==
    ASSUME CountInv, NEW w \in Workers, NEW q, req' = [req EXCEPT ![w] = q],
           req[w].pc \notin SosSteps, q.pc \notin SosSteps, Owned(q, sessions'), RowsStay,
           notices' = notices, emergencies' = emergencies,
           \A s \in SessionIds : sessions'[s] # sessions[s] => RowOwned(sessions'[s], notices[s])
    PROVE  CountKept
<1>1. ASSUME NEW c \in Clients PROVE Counted(c)'
  <2>1. /\ At(c, {"checksos", "startsos"})' = At(c, {"checksos", "startsos"})
        /\ At(c, {"recordsos"})' = At(c, {"recordsos"})
    <3>1. ASSUME NEW P \in SUBSET SosSteps PROVE At(c, P)' = At(c, P)
      BY AtKept
    <3> QED
      BY <3>1 DEF SosSteps
  <2>2. EscalationsOf(c)' = EscalationsOf(c)
    BY EscalationsStay
  <2> QED
    BY <2>1, <2>2 DEF CountInv, Counted
<1>2. \A s \in SessionIds : RowOwned(sessions'[s], notices'[s])
  BY DEF CountInv
<1> QED
  BY <1>1, <1>2, OwnedStep DEF CountKept

LEMMA IdleIsOwned == \A rows : Owned(Idle, rows) /\ Idle.pc = "idle"
BY DEF Owned, Idle

\* Whatever the handler goes on with is on the same journey.
LEMMA AnsweredIsOwned ==
    ASSUME NEW r \in Request, NEW rows, r.sid \in SessionIds, rows[r.sid].status # "FREE",
           r.row.status # "FREE", r.row.client = rows[r.sid].client
    PROVE  Owned(Answered(r), rows) /\ Answered(r).pc \in {"idle", "emit", "write"}
<1>1. PICK a, b : a = [r EXCEPT !.pc = "emit"] /\ b = [r EXCEPT !.pc = "write", !.events = <<>>]
  OBVIOUS
<1>2. /\ a.pc = "emit" /\ a.sid = r.sid /\ a.row = r.row
      /\ b.pc = "write" /\ b.sid = r.sid /\ b.row = r.row
  BY <1>1 DEF Request
<1>3. Answered(r) = a \/ Answered(r) = b \/ Answered(r) = Idle
  BY <1>1 DEF Answered
<1> QED
  BY <1>2, <1>3, IdleIsOwned DEF Owned

LEMMA EvaluateCounts ==
    ASSUME CountInv, NEW w \in Workers, Evaluate(w)
    PROVE  CountKept
<1> DEFINE r == req[w]
           stage == StageAt(r.row, now)
<1>1. /\ r \in Request /\ r.row \in Row /\ Owned(r, sessions) /\ r.pc = "evaluate"
      /\ sessions' = sessions /\ notices' = notices /\ emergencies' = emergencies
  BY DEF Evaluate, CountInv, Inv, Request
<1>2. PICK a, b : /\ a = Answered(r)
                  /\ b = [r EXCEPT !.pc = "persist", !.row = Staged(r.row, stage),
                                   !.events = StageEvents(r.row, stage)]
  OBVIOUS
<1>3. Owned(a, sessions) /\ a.pc \notin SosSteps
  BY <1>1, <1>2, AnsweredIsOwned DEF Owned, SosSteps
<1>4. Owned(b, sessions) /\ b.pc \notin SosSteps
  <2>1. b.pc = "persist" /\ b.sid = r.sid /\ b.row = Staged(r.row, stage)
    BY <1>1, <1>2 DEF Request
  <2>2. b.row.status # "FREE" /\ b.row.client = r.row.client
    BY <1>1, <2>1 DEF Staged, Row
  <2> QED
    BY <1>1, <2>1, <2>2 DEF Owned, SosSteps
<1>5. req' = [req EXCEPT ![w] = a] \/ req' = [req EXCEPT ![w] = b]
  BY <1>2 DEF Evaluate
<1>6. RowsStay
  BY <1>1 DEF RowsStay
<1> QED
  BY <1>1, <1>3, <1>4, <1>5, <1>6, UncountedStep DEF SosSteps

LEMMA PersistCounts ==
    ASSUME CountInv, NEW w \in Workers, Persist(w)
    PROVE  CountKept
<1> DEFINE r == req[w]
           s == r.sid
           new == [sessions[s] EXCEPT !.status = r.row.status, !.stage = r.row.stage,
                                      !.notified = r.row.notified]
<1>1. /\ r \in Request /\ r.row \in Row /\ Owned(r, sessions) /\ r.pc = "persist"
      /\ s \in SessionIds /\ sessions \in [SessionIds -> Row] /\ sessions[s] \in Row
      /\ notices' = notices /\ emergencies' = emergencies /\ sessions' = [sessions EXCEPT ![s] = new]
      /\ RowOwned(sessions[s], notices[s])
  BY DEF Persist, CountInv, Inv, TablesTyped, Request, Owned
<1>2. new.status # "FREE" /\ new.client = sessions[s].client
  BY <1>1 DEF Owned, Row
<1> HIDE DEF new
<1>3. RowsStay
  BY <1>1, <1>2 DEF RowsStay
<1>4. RowOwned(new, notices[s])
  BY <1>1, <1>2 DEF RowOwned, Owned
<1>5. PICK q : q = Answered(r)
  OBVIOUS
<1>6. Owned(q, sessions') /\ q.pc \notin SosSteps
  BY <1>1, <1>2, <1>5, AnsweredIsOwned DEF Owned, SosSteps
<1>7. req' = [req EXCEPT ![w] = q]
  BY <1>5 DEF Persist
<1> QED
  BY <1>1, <1>3, <1>4, <1>6, <1>7, UncountedStep DEF SosSteps

LEMMA InsertCounts ==
    ASSUME CountInv, NEW w \in Workers, Insert(w)
    PROVE  CountKept
<1> PICK s \in Free, g \in Graces, e \in Arrivals, p \in Geometries :
      LET row == [BlankRow EXCEPT !.client = req[w].row.client, !.status = "ACTIVE",
                                  !.started = now, !.grace = g, !.expected = e, !.planned = p]
      IN  /\ sessions' = [sessions EXCEPT ![s] = row]
          /\ req' = [req EXCEPT ![w] =
                       [@ EXCEPT !.pc = "emit", !.sid = s, !.row = row,
                                 !.events = <<Note("guardian_started", Deadline(row))>>]]
  BY DEF Insert
<1> DEFINE row == [BlankRow EXCEPT !.client = req[w].row.client, !.status = "ACTIVE",
                                   !.started = now, !.grace = g, !.expected = e, !.planned = p]
           q == [req[w] EXCEPT !.pc = "emit", !.sid = s, !.row = row,
                               !.events = <<Note("guardian_started", Deadline(row))>>]
<1>1. /\ s \in SessionIds /\ sessions[s].status = "FREE" /\ sessions \in [SessionIds -> Row]
      /\ notices' = notices /\ emergencies' = emergencies /\ req[w] \in Request
      /\ req[w].pc = "insert" /\ req[w].row.client \in Clients
  BY DEF Insert, Free, CountInv, Inv, TablesTyped, Owned
<1>2. sessions' = [sessions EXCEPT ![s] = row] /\ req' = [req EXCEPT ![w] = q]
  OBVIOUS
<1>3. row.status = "ACTIVE" /\ row.client = req[w].row.client
  BY DEF BlankRow
<1>4. q.pc = "emit" /\ q.sid = s /\ q.row = row
  BY <1>1 DEF Request
<1> HIDE DEF row, q
<1>5. RowsStay
  BY <1>1, <1>2 DEF RowsStay
<1>6. RowOwned(row, notices[s]) /\ Owned(q, sessions') /\ q.pc \notin SosSteps
  BY <1>1, <1>2, <1>3, <1>4 DEF RowOwned, Owned, SosSteps
<1> QED
  BY <1>1, <1>2, <1>5, <1>6, UncountedStep DEF SosSteps

LEMMA WriteLocationCounts ==
    ASSUME CountInv, NEW w \in Workers, WriteLocation(w)
    PROVE  CountKept
<1> DEFINE r == req[w]
           s == r.sid
<1>1. /\ r \in Request /\ r.row \in Row /\ Owned(r, sessions) /\ r.pc = "write"
      /\ s \in SessionIds /\ sessions \in [SessionIds -> Row] /\ sessions[s] \in Row
      /\ notices' = notices /\ emergencies' = emergencies /\ RowOwned(sessions[s], notices[s])
  BY DEF WriteLocation, CountInv, Inv, TablesTyped, Request, Owned
<1>2. PICK b : b = [r EXCEPT !.pc = "emit", !.events = <<Note("route_changed", NoTime)>>]
  OBVIOUS
<1>3. b.pc = "emit" /\ b.sid = s /\ b.row = r.row
  BY <1>1, <1>2 DEF Request
<1>4. req' = [req EXCEPT ![w] = b] \/ req' = [req EXCEPT ![w] = Idle]
  BY <1>2 DEF WriteLocation
<1>5. PICK d : sessions' = [sessions EXCEPT ![s] = d] /\ d.status = sessions[s].status
                /\ d.client = sessions[s].client
  <2>1. CASE sessions' = sessions
    BY <1>1, <2>1
  <2>2. CASE sessions' # sessions
    <3>1. PICK x : sessions' = [sessions EXCEPT ![s] = [sessions[s] EXCEPT !.deviated = x]]
      BY <2>2 DEF WriteLocation
    <3>2. PICK d : d = [sessions[s] EXCEPT !.deviated = x]
      OBVIOUS
    <3>3. d.status = sessions[s].status /\ d.client = sessions[s].client
      BY <1>1, <3>2 DEF Row
    <3> QED
      BY <3>1, <3>2, <3>3
  <2> QED
    BY <2>1, <2>2
<1>6. RowsStay /\ RowOwned(d, notices[s])
  BY <1>1, <1>5 DEF RowsStay, RowOwned
<1>7. Owned(b, sessions') /\ b.pc \notin SosSteps /\ Owned(Idle, sessions') /\ Idle.pc \notin SosSteps
  BY <1>1, <1>3, <1>5, IdleIsOwned DEF Owned, SosSteps
<1> QED
  BY <1>1, <1>4, <1>5, <1>6, <1>7, UncountedStep DEF SosSteps

\* An escalation that is recorded pays for the emergency it may start.
LEMMA EmitCounts ==
    ASSUME CountInv, IsFiniteSet(Workers), NEW w \in Workers, Emit(w)
    PROVE  CountKept
<1> DEFINE r == req[w]
           s == r.sid
           n == Head(r.events)
           pair == <<s, Len(notices[s]) + 1>>
<1>1. /\ r \in Request /\ Owned(r, sessions) /\ r.pc = "emit" /\ s \in SessionIds
      /\ notices \in [SessionIds -> Seq(Notice)] /\ notices[s] \in Seq(Notice)
      /\ n \in Notice /\ sessions' = sessions /\ emergencies' = emergencies
      /\ req \in [Workers -> Request] /\ sessions[s].status # "FREE"
  <2>1. /\ r \in Request /\ Owned(r, sessions) /\ r.pc = "emit" /\ s \in SessionIds
        /\ notices \in [SessionIds -> Seq(Notice)] /\ r.events # <<>>
        /\ sessions' = sessions /\ emergencies' = emergencies /\ req \in [Workers -> Request]
    BY DEF Emit, CountInv, Inv, TablesTyped, Sound, Owned
  <2>2. r.events \in Seq(Notice)
    BY <2>1 DEF Request
  <2>3. n \in Notice
    BY <2>1, <2>2
  <2> QED
    BY <2>1, <2>3 DEF Owned
<1>2. notices' = [notices EXCEPT ![s] = Append(@, n)]
  BY DEF Emit
<1> HIDE DEF n
<1>3. /\ Len(notices[s]) \in Nat /\ Len(notices'[s]) = Len(notices[s]) + 1
      /\ notices'[s][Len(notices[s]) + 1] = n
      /\ \A i \in 1..Len(notices[s]) : notices'[s][i] = notices[s][i]
      /\ \A t \in SessionIds \ {s} : notices'[t] = notices[t]
  BY <1>1, <1>2, LenProperties, AppendProperties
<1>4. PICK a, b : /\ a = [r EXCEPT !.events = Tail(@)]
                  /\ b = [r EXCEPT !.pc = "checksos", !.events = <<>>]
  OBVIOUS
<1>5. /\ a.pc = "emit" /\ a.sid = s /\ a.row = r.row
      /\ b.pc = "checksos" /\ b.sid = s /\ b.row = r.row
  BY <1>1, <1>4 DEF Request
<1>6. PICK q : /\ req' = [req EXCEPT ![w] = q]
               /\ q = a \/ q = Idle \/ (q = b /\ n.type = "checkin_escalated")
  <2>1. PICK q : q = IF Tail(r.events) # <<>> THEN a
                     ELSE IF AutoSos /\ n.type = "checkin_escalated" THEN b ELSE Idle
    OBVIOUS
  <2>2. req' = [req EXCEPT ![w] = q]
    BY <1>4, <2>1 DEF Emit, n
  <2> QED
    BY <2>1, <2>2
<1>7. Owned(q, sessions')
  BY <1>1, <1>5, <1>6, IdleIsOwned DEF Owned
<1>8. ASSUME NEW c \in Clients PROVE Counted(c)'
  <2> DEFINE e == EscalationsOf(c)
             asking == At(c, {"checksos", "startsos"})
             noting == At(c, {"recordsos"})
  <2>1. /\ IsFiniteSet(e) /\ IsFiniteSet(asking) /\ Cardinality(e) \in Nat
        /\ Cardinality(asking) \in Nat
    BY FS_Subset, FS_CardinalityType DEF CountInv, Counted, At
  <2>0. ASSUME NEW P, req[w].pc \notin P, q.pc \notin P PROVE At(c, P)' = At(c, P)
    <3>1. \A v \in Workers : req'[v] = IF v = w THEN q ELSE req[v]
      BY <1>1, <1>6
    <3> QED
      BY <2>0, <3>1 DEF At
  <2>2. noting' = noting
    <3>1. req[w].pc \notin {"recordsos"} /\ q.pc \notin {"recordsos"}
      BY <1>1, <1>5, <1>6, IdleIsOwned
    <3> QED
      BY <2>0, <3>1
  <2>3. CASE n.type = "checkin_escalated" /\ sessions[s].client = c
    <3>1. e' = e \cup {pair}
      BY <1>1, <1>3, <2>3 DEF EscalationsOf
    <3>2. pair \notin e
      BY <1>1, <1>3 DEF EscalationsOf
    <3>3. asking' \subseteq asking \cup {w}
      BY <1>1, <1>6 DEF At
    <3> HIDE DEF e, asking, pair
    <3>4. IsFiniteSet(e') /\ Cardinality(e') = Cardinality(e) + 1
      BY <2>1, <3>1, <3>2, FS_AddElement
    <3>5. Cardinality(asking') <= Cardinality(asking) + 1 /\ Cardinality(asking') \in Nat
      <4>1. /\ IsFiniteSet(asking \cup {w})
            /\ \/ Cardinality(asking \cup {w}) = Cardinality(asking)
               \/ Cardinality(asking \cup {w}) = Cardinality(asking) + 1
        BY <2>1, FS_AddElement
      <4> QED
        BY <2>1, <3>3, <4>1, FS_Subset, FS_CardinalityType
    <3>6. /\ emergencies[c].auto + Cardinality(asking) <= Cardinality(e)
          /\ emergencies[c].auto \in Nat
          /\ emergencies[c].noted + Cardinality(noting) <= emergencies[c].auto
      BY DEF CountInv, Counted, e, asking, Inv, TablesTyped, EmergencyCount
    <3>7. emergencies[c].auto + Cardinality(asking') <= Cardinality(e')
      BY <2>1, <3>4, <3>5, <3>6
    <3> QED
      BY <1>1, <2>2, <3>4, <3>6, <3>7 DEF Counted, e, asking
  <2>4. CASE ~(n.type = "checkin_escalated" /\ sessions[s].client = c)
    <3>1. e' = e
      <4> DEFINE Esc(t) == {i \in 1..Len(notices[t]) : notices[t][i].type = "checkin_escalated"}
      <4>1. ASSUME NEW t \in SessionIds, sessions[t].client = c PROVE Esc(t)' = Esc(t)
        <5>1. CASE t # s
          <6>1. notices'[t] = notices[t]
            BY <1>3, <5>1
          <6> QED
            BY <6>1
        <5>2. CASE t = s
          <6>1. n.type # "checkin_escalated"
            BY <2>4, <4>1, <5>2
          <6>2. /\ 1..Len(notices'[t]) = 1..Len(notices[t]) \cup {Len(notices[t]) + 1}
                /\ notices'[t][Len(notices[t]) + 1].type # "checkin_escalated"
                /\ \A i \in 1..Len(notices[t]) : notices'[t][i] = notices[t][i]
            BY <1>3, <5>2, <6>1
          <6> QED
            BY <6>2
        <5> QED
          BY <5>1, <5>2
      <4>2. e = UNION {{t} \X Esc(t) : t \in {u \in SessionIds : sessions[u].client = c}}
        BY DEF EscalationsOf
      <4>3. e' = UNION {{t} \X Esc(t)' : t \in {u \in SessionIds : sessions[u].client = c}}
        BY <1>1 DEF EscalationsOf
      <4> HIDE DEF Esc
      <4> QED
        BY <4>1, <4>2, <4>3
    <3>2. asking' = asking
      <4>1. CASE q = b
        <5>1. q.row.client # c /\ r.row.client # c
          BY <1>1, <1>5, <1>6, <2>4, <4>1, IdleIsOwned DEF Owned
        <5> QED
          BY <1>1, <1>6, <5>1 DEF At
      <4>2. CASE q # b
        <5>1. req[w].pc \notin {"checksos", "startsos"} /\ q.pc \notin {"checksos", "startsos"}
          BY <1>1, <1>5, <1>6, <4>2, IdleIsOwned
        <5> QED
          BY <2>0, <5>1
      <4> QED
        BY <4>1, <4>2
    <3> QED
      BY <1>1, <2>2, <3>1, <3>2 DEF Counted, CountInv
  <2> QED
    BY <2>3, <2>4
<1>9. \A t \in SessionIds : RowOwned(sessions'[t], notices'[t])
  BY <1>1, <1>3 DEF CountInv, RowOwned
<1>10. RowsStay
  BY <1>1 DEF RowsStay
<1> QED
  BY <1>6, <1>7, <1>8, <1>9, <1>10, OwnedStep DEF CountKept

\* A step that records no notice and writes no row: what is left to show is that
\* the counts of each client still fit.
LEMMA SosStep ==
    ASSUME CountInv, NEW w \in Workers, NEW q, req' = [req EXCEPT ![w] = q],
           Owned(q, sessions), sessions' = sessions, notices' = notices,
           \A c \in Clients :
               /\ emergencies'[c].auto + Cardinality(At(c, {"checksos", "startsos"})')
                    <= Cardinality(EscalationsOf(c))
               /\ emergencies'[c].noted + Cardinality(At(c, {"recordsos"})') <= emergencies'[c].auto
    PROVE  CountKept
<1>1. RowsStay
  BY DEF RowsStay
<1>2. ASSUME NEW c \in Clients PROVE Counted(c)'
  <2>1. EscalationsOf(c)' = EscalationsOf(c)
    BY <1>1, EscalationsStay
  <2> QED
    BY <2>1 DEF CountInv, Counted
<1> QED
  BY <1>1, <1>2, OwnedStep DEF CountKept, CountInv

\* What a request moving from one step to another does to a set of requests.
LEMMA AtMoves ==
    ASSUME IsFiniteSet(Workers), NEW w \in Workers, NEW c, NEW P
    PROVE  /\ Cardinality(At(c, P)) \in Nat /\ Cardinality(At(c, P)') \in Nat
           /\ At(c, P)' = At(c, P) \ {w} /\ w \in At(c, P) =>
                  Cardinality(At(c, P)') = Cardinality(At(c, P)) - 1
           /\ At(c, P)' = At(c, P) \cup {w} /\ w \notin At(c, P) =>
                  Cardinality(At(c, P)') = Cardinality(At(c, P)) + 1
<1>1. At(c, P) \in SUBSET Workers /\ At(c, P)' \in SUBSET Workers
  BY DEF At
<1>2. /\ IsFiniteSet(At(c, P)) /\ Cardinality(At(c, P)) \in Nat
      /\ IsFiniteSet(At(c, P)') /\ Cardinality(At(c, P)') \in Nat
  BY <1>1, FS_Subset, FS_CardinalityType
<1> QED
  BY <1>2, FS_AddElement, FS_RemoveElement

\* Going idle only leaves sets of requests.
LEMMA AtShrinks ==
    ASSUME CountInv, IsFiniteSet(Workers), NEW w \in Workers, req' = [req EXCEPT ![w] = Idle],
           NEW c, NEW P, "idle" \notin P
    PROVE  /\ Cardinality(At(c, P)') <= Cardinality(At(c, P))
           /\ Cardinality(At(c, P)) \in Nat /\ Cardinality(At(c, P)') \in Nat
           /\ req[w].pc \in P /\ req[w].row.client = c =>
                  Cardinality(At(c, P)') = Cardinality(At(c, P)) - 1
<1>1. \A v \in Workers : req'[v] = IF v = w THEN Idle ELSE req[v]
  BY DEF CountInv, Inv
<1>2. At(c, P) \in SUBSET Workers /\ At(c, P)' = At(c, P) \ {w}
  BY <1>1, IdleIsOwned DEF At
<1>3. IsFiniteSet(At(c, P)) /\ Cardinality(At(c, P)) \in Nat
  BY <1>2, FS_Subset, FS_CardinalityType
<1>4. req[w].pc \in P /\ req[w].row.client = c => w \in At(c, P)
  BY DEF At
<1>5. IsFiniteSet(At(c, P) \ {w}) /\ Cardinality(At(c, P) \ {w}) \in Nat
  BY <1>3, FS_RemoveElement, FS_CardinalityType
<1> QED
  BY <1>2, <1>3, <1>4, <1>5, FS_RemoveElement

\* Check, start and record hand one escalation on: asked for, started, noted.
LEMMA SosCounts ==
    ASSUME CountInv, IsFiniteSet(Workers), NEW w \in Workers,
           CheckSos(w) \/ StartSos(w) \/ RecordSos(w)
    PROVE  CountKept
<1>1. /\ req[w] \in Request /\ Owned(req[w], sessions) /\ sessions' = sessions /\ notices' = notices
      /\ req \in [Workers -> Request] /\ emergencies \in [Clients -> EmergencyCount]
      /\ \A c \in Clients : Counted(c)
  BY DEF CheckSos, StartSos, RecordSos, CountInv, Inv, TablesTyped
<1>2. ASSUME NEW c \in Clients
      PROVE  /\ emergencies[c].auto \in Nat /\ emergencies[c].noted \in Nat
             /\ Cardinality(EscalationsOf(c)) \in Nat
             /\ emergencies[c].auto + Cardinality(At(c, {"checksos", "startsos"}))
                  <= Cardinality(EscalationsOf(c))
             /\ emergencies[c].noted + Cardinality(At(c, {"recordsos"})) <= emergencies[c].auto
  BY <1>1, FS_CardinalityType DEF EmergencyCount, Counted
<1>3. PICK a, b : /\ a = [req[w] EXCEPT !.pc = "startsos"]
                  /\ b = [req[w] EXCEPT !.pc = "recordsos"]
  OBVIOUS
<1>4. /\ a.pc = "startsos" /\ a.sid = req[w].sid /\ a.row = req[w].row
      /\ b.pc = "recordsos" /\ b.sid = req[w].sid /\ b.row = req[w].row
  BY <1>1, <1>3 DEF Request
<1>5. CASE CheckSos(w) /\ req' = [req EXCEPT ![w] = Idle]
  <2>1. emergencies' = emergencies /\ Owned(Idle, sessions)
    BY <1>5, IdleIsOwned DEF CheckSos
  <2>2. ASSUME NEW c \in Clients
        PROVE  /\ emergencies'[c].auto + Cardinality(At(c, {"checksos", "startsos"})')
                    <= Cardinality(EscalationsOf(c))
               /\ emergencies'[c].noted + Cardinality(At(c, {"recordsos"})') <= emergencies'[c].auto
    <3>1. ASSUME NEW P, "idle" \notin P
          PROVE  /\ Cardinality(At(c, P)') <= Cardinality(At(c, P))
                 /\ Cardinality(At(c, P)) \in Nat /\ Cardinality(At(c, P)') \in Nat
      BY <1>5, <3>1, AtShrinks
    <3> QED
      BY <1>2, <2>1, <3>1
  <2> QED
    BY <1>1, <1>5, <2>1, <2>2, SosStep
<1>6. CASE CheckSos(w) /\ req' = [req EXCEPT ![w] = a]
  <2>1. emergencies' = emergencies /\ Owned(a, sessions) /\ req[w].pc = "checksos"
    BY <1>1, <1>4, <1>6 DEF CheckSos, Owned
  <2>2. ASSUME NEW c \in Clients
        PROVE  /\ emergencies'[c].auto + Cardinality(At(c, {"checksos", "startsos"})')
                    <= Cardinality(EscalationsOf(c))
               /\ emergencies'[c].noted + Cardinality(At(c, {"recordsos"})') <= emergencies'[c].auto
    <3>1. At(c, {"checksos", "startsos"})' = At(c, {"checksos", "startsos"})
      BY <1>1, <1>4, <1>6, <2>1 DEF At
    <3>2. At(c, {"recordsos"})' = At(c, {"recordsos"})
      BY <1>1, <1>4, <1>6, <2>1 DEF At
    <3> QED
      BY <1>2, <2>1, <3>1, <3>2
  <2> QED
    BY <1>1, <1>6, <2>1, <2>2, SosStep
<1>7. CASE StartSos(w)
  <2>1. /\ req' = [req EXCEPT ![w] = b] /\ Owned(b, sessions) /\ req[w].pc = "startsos"
        /\ req[w].row.client \in Clients
    BY <1>1, <1>3, <1>4, <1>7 DEF StartSos, Owned, CountInv, RowOwned
  <2>2. ASSUME NEW c \in Clients, c # req[w].row.client PROVE emergencies'[c] = emergencies[c]
    BY <1>1, <1>7, <2>2 DEF StartSos
  <2>3. ASSUME NEW c \in Clients, c = req[w].row.client
        PROVE  /\ emergencies'[c].auto = emergencies[c].auto + 1
               /\ emergencies'[c].noted = emergencies[c].noted
    <3>1. emergencies'[c] = [emergencies[c] EXCEPT !.active = @ + 1, !.auto = @ + 1]
      BY <1>1, <1>7, <2>3 DEF StartSos
    <3> QED
      BY <1>1, <3>1 DEF EmergencyCount
  <2>4. ASSUME NEW c \in Clients
        PROVE  /\ emergencies'[c].auto + Cardinality(At(c, {"checksos", "startsos"})')
                    <= Cardinality(EscalationsOf(c))
               /\ emergencies'[c].noted + Cardinality(At(c, {"recordsos"})') <= emergencies'[c].auto
    <3>1. \A v \in Workers : req'[v] = IF v = w THEN b ELSE req[v]
      BY <1>1, <2>1
    <3>2. CASE c = req[w].row.client
      <4>1. /\ At(c, {"checksos", "startsos"})' = At(c, {"checksos", "startsos"}) \ {w}
            /\ w \in At(c, {"checksos", "startsos"})
        BY <1>4, <2>1, <3>1, <3>2 DEF At
      <4>2. /\ At(c, {"recordsos"})' = At(c, {"recordsos"}) \cup {w}
            /\ w \notin At(c, {"recordsos"})
        BY <1>4, <2>1, <3>1, <3>2 DEF At
      <4>3. /\ Cardinality(At(c, {"checksos", "startsos"})')
                 = Cardinality(At(c, {"checksos", "startsos"})) - 1
            /\ Cardinality(At(c, {"checksos", "startsos"})) \in Nat
        BY <4>1, AtMoves
      <4>4. /\ Cardinality(At(c, {"recordsos"})') = Cardinality(At(c, {"recordsos"})) + 1
            /\ Cardinality(At(c, {"recordsos"})) \in Nat
        BY <4>2, AtMoves
      <4> QED
        BY <1>2, <2>3, <3>2, <4>3, <4>4
    <3>3. CASE c # req[w].row.client
      <4>1. At(c, {"checksos", "startsos"})' = At(c, {"checksos", "startsos"})
        BY <1>4, <3>1, <3>3 DEF At
      <4>2. At(c, {"recordsos"})' = At(c, {"recordsos"})
        BY <1>4, <3>1, <3>3 DEF At
      <4> QED
        BY <1>2, <2>2, <3>3, <4>1, <4>2
    <3> QED
      BY <3>2, <3>3
  <2> QED
    BY <1>1, <2>1, <2>4, SosStep
<1>8. CASE RecordSos(w)
  <2>1. /\ req' = [req EXCEPT ![w] = Idle] /\ Owned(Idle, sessions) /\ req[w].pc = "recordsos"
    BY <1>8, IdleIsOwned DEF RecordSos
  <2>2. ASSUME NEW c \in Clients, c # req[w].row.client PROVE emergencies'[c] = emergencies[c]
    BY <1>1, <1>8, <2>2 DEF RecordSos
  <2>3. ASSUME NEW c \in Clients, c = req[w].row.client
        PROVE  /\ emergencies'[c].auto = emergencies[c].auto
               /\ emergencies'[c].noted = emergencies[c].noted + 1
    <3>1. emergencies'[c] = [emergencies[c] EXCEPT !.noted = @ + 1]
      BY <1>1, <1>8, <2>3 DEF RecordSos
    <3> QED
      BY <1>1, <3>1 DEF EmergencyCount
  <2>4. ASSUME NEW c \in Clients
        PROVE  /\ emergencies'[c].auto + Cardinality(At(c, {"checksos", "startsos"})')
                    <= Cardinality(EscalationsOf(c))
               /\ emergencies'[c].noted + Cardinality(At(c, {"recordsos"})') <= emergencies'[c].auto
    <3>1. ASSUME NEW P, "idle" \notin P
          PROVE  /\ Cardinality(At(c, P)') <= Cardinality(At(c, P))
                 /\ Cardinality(At(c, P)) \in Nat /\ Cardinality(At(c, P)') \in Nat
                 /\ req[w].pc \in P /\ req[w].row.client = c =>
                        Cardinality(At(c, P)') = Cardinality(At(c, P)) - 1
      BY <2>1, <3>1, AtShrinks
    <3>2. CASE c = req[w].row.client
      BY <1>2, <2>1, <2>3, <3>1, <3>2
    <3>3. CASE c # req[w].row.client
      BY <1>2, <2>2, <3>1, <3>3
    <3> QED
      BY <3>2, <3>3
  <2> QED
    BY <1>1, <2>1, <2>4, SosStep
<1> QED
  BY <1>1, <1>3, <1>5, <1>6, <1>7, <1>8 DEF CheckSos

\* A SELECT takes up a journey that has an owner.
LEMMA ReadingCounts ==
    ASSUME CountInv, NEW w \in Workers, NEW s \in SessionIds, NEW op, Reading(w, op, s),
           req[w] = Idle, sessions[s].status # "FREE",
           UNCHANGED <<sessions, notices, emergencies>>
    PROVE  CountKept
<1> DEFINE q == [pc |-> "evaluate", op |-> op, sid |-> s, row |-> sessions[s], events |-> <<>>]
<1>1. req' = [req EXCEPT ![w] = q] /\ RowsStay
  BY DEF Reading, RowsStay
<1>2. Owned(q, sessions') /\ q.pc \notin SosSteps
  BY DEF Owned, SosSteps
<1>3. req[w].pc \notin SosSteps
  BY DEF Idle, SosSteps
<1> HIDE DEF q
<1> QED
  BY <1>1, <1>2, <1>3, UncountedStep

LEMMA ArriveCounts ==
    ASSUME CountInv, NEW w \in Workers, Arrive(w)
    PROVE  CountKept
<1>1. sessions \in [SessionIds -> Row] /\ "idle" \notin SosSteps /\ Idle.pc = "idle"
  BY DEF CountInv, Inv, TablesTyped, SosSteps, Idle
<1>2. ASSUME NEW c \in Clients, NEW op \in {"create", "active", "dashboard"}, SelectNewest(w, c, op)
      PROVE  CountKept
  BY <1>2, ReadingCounts DEF SelectNewest, Newest, LiveOf, Live
<1>3. ASSUME NEW s \in SessionIds, NEW op \in {"get", "location"}, SelectById(w, s, op)
      PROVE  CountKept
  BY <1>3, ReadingCounts DEF SelectById
<1>4. ASSUME NEW c \in Clients, SelectNone(w, c) PROVE CountKept
  <2> DEFINE q == [pc |-> "insert", op |-> "create", sid |-> NoOne,
                   row |-> [BlankRow EXCEPT !.client = c], events |-> <<>>]
  <2>1. /\ req' = [req EXCEPT ![w] = q] /\ req[w] = Idle
        /\ sessions' = sessions /\ notices' = notices /\ emergencies' = emergencies
    BY <1>4 DEF SelectNone
  <2>2. q.row.client = c
    BY DEF BlankRow
  <2>3. Owned(q, sessions') /\ q.pc \notin SosSteps
    BY <2>2 DEF Owned, SosSteps
  <2>4. RowsStay
    BY <2>1 DEF RowsStay
  <2> HIDE DEF q
  <2> QED
    BY <1>1, <2>1, <2>3, <2>4, UncountedStep
<1>5. ASSUME NEW s \in SessionIds, NEW row, NEW q, sessions' = [sessions EXCEPT ![s] = row],
             sessions[s].status \in Live, row.status # "FREE", row.client = sessions[s].client,
             req' = [req EXCEPT ![w] = q], req[w] = Idle, Owned(q, sessions'), q.pc \notin SosSteps,
             notices' = notices, emergencies' = emergencies
      PROVE  CountKept
  <2>1. RowsStay
    BY <1>1, <1>5 DEF RowsStay
  <2>2. RowOwned(row, notices[s])
    BY <1>5 DEF CountInv, RowOwned, Live
  <2>3. \A t \in SessionIds : sessions'[t] # sessions[t] => RowOwned(sessions'[t], notices[t])
    BY <1>1, <1>5, <2>2
  <2> QED
    BY <1>1, <1>5, <2>1, <2>3, UncountedStep
<1>6. ASSUME NEW s \in SessionIds, Checkin(w, s) PROVE CountKept
  <2> DEFINE row == [sessions[s] EXCEPT !.checkin = now, !.expected = NoTime, !.status = "ACTIVE",
                                        !.stage = 0, !.notified = 0]
  <2>1. /\ sessions' = [sessions EXCEPT ![s] = row] /\ req' = req /\ req[w] = Idle
        /\ sessions[s].status \in Live /\ notices' = notices /\ emergencies' = emergencies
        /\ req = [v \in Workers |-> req[v]]
    BY <1>6 DEF Checkin, CountInv, Inv
  <2>2. row.status # "FREE" /\ row.client = sessions[s].client
    BY <1>1 DEF Row
  <2>3. req' = [req EXCEPT ![w] = Idle]
    BY <2>1
  <2> HIDE DEF row
  <2> QED
    BY <1>1, <1>5, <2>1, <2>2, <2>3, IdleIsOwned
<1>7. ASSUME NEW s \in SessionIds, NEW reason \in {"arrived", "cancelled"}, End(w, s, reason)
      PROVE  CountKept
  <2> DEFINE row == [sessions[s] EXCEPT !.status = IF reason = "arrived" THEN "COMPLETED"
                                                   ELSE "CANCELLED"]
             q == [pc |-> "emit", op |-> "end", sid |-> s, row |-> row,
                   events |-> <<Note(IF reason = "arrived" THEN "journey_completed"
                                     ELSE "guardian_ended", NoTime)>>]
  <2>1. /\ sessions' = [sessions EXCEPT ![s] = row] /\ sessions'[s] = row /\ req[w] = Idle
        /\ sessions[s].status \in Live /\ notices' = notices /\ emergencies' = emergencies
    BY <1>1, <1>7 DEF End
  <2>2. req' = [req EXCEPT ![w] = q]
    BY <1>7, <2>1 DEF End
  <2>3. row.status # "FREE" /\ row.client = sessions[s].client
    BY <1>1 DEF Row
  <2>4. q.pc = "emit" /\ q.sid = s /\ q.row = row
    OBVIOUS
  <2> HIDE DEF row, q
  <2>5. Owned(q, sessions') /\ q.pc \notin SosSteps
    BY <2>1, <2>3, <2>4 DEF Owned, SosSteps
  <2> QED
    BY <1>5, <2>1, <2>2, <2>3, <2>5
<1> QED
  BY <1>2, <1>3, <1>4, <1>6, <1>7 DEF Arrive

\* Steps of no request: the tables stay, and requests stay or are lost.
LEMMA OtherCounts ==
    ASSUME CountInv, IsFiniteSet(Workers), sessions' = sessions, notices' = notices,
           \A w \in Workers : req'[w] = req[w] \/ req'[w] = Idle,
           \A c \in Clients : /\ emergencies'[c].auto = emergencies[c].auto
                              /\ emergencies'[c].noted = emergencies[c].noted
    PROVE  CountKept
<1>1. ASSUME NEW c \in Clients PROVE Counted(c)'
  <2>1. EscalationsOf(c)' = EscalationsOf(c)
    BY DEF EscalationsOf
  <2>2. ASSUME NEW P, "idle" \notin P
        PROVE  /\ Cardinality(At(c, P)') <= Cardinality(At(c, P))
               /\ Cardinality(At(c, P)) \in Nat /\ Cardinality(At(c, P)') \in Nat
    <3>1. At(c, P) \in SUBSET Workers /\ At(c, P)' \in SUBSET At(c, P)
      BY <2>2, IdleIsOwned DEF At
    <3>2. IsFiniteSet(At(c, P)) /\ IsFiniteSet(At(c, P)')
      BY <3>1, FS_Subset
    <3> QED
      BY <3>1, <3>2, FS_Subset, FS_CardinalityType
  <2>3. /\ IsFiniteSet(EscalationsOf(c)) /\ Cardinality(EscalationsOf(c)) \in Nat
        /\ emergencies[c].auto \in Nat /\ emergencies[c].noted \in Nat
        /\ emergencies[c].auto + Cardinality(At(c, {"checksos", "startsos"}))
             <= Cardinality(EscalationsOf(c))
        /\ emergencies[c].noted + Cardinality(At(c, {"recordsos"})) <= emergencies[c].auto
    BY FS_CardinalityType DEF CountInv, Counted, Inv, TablesTyped, EmergencyCount
  <2>4. /\ emergencies'[c].auto + Cardinality(At(c, {"checksos", "startsos"})')
             <= Cardinality(EscalationsOf(c))
        /\ emergencies'[c].noted + Cardinality(At(c, {"recordsos"})') <= emergencies'[c].auto
    BY <2>2, <2>3
  <2> QED
    BY <2>1, <2>3, <2>4 DEF Counted
<1>2. \A w \in Workers : Owned(req'[w], sessions')
  BY IdleIsOwned DEF CountInv
<1> QED
  BY <1>1, <1>2 DEF CountKept, CountInv

\* CountInv is inductive.
LEMMA CountStepHolds ==
    ASSUME CountInv, IsFiniteSet(Workers), [Next]_vars
    PROVE  CountInv'
<1>1. CountKept
  <2>1. ASSUME NEW w \in Workers, Step(w) PROVE CountKept
    BY <2>1, EvaluateCounts, PersistCounts, InsertCounts, WriteLocationCounts, EmitCounts, SosCounts
       DEF Step
  <2>2. CASE Tick \/ UNCHANGED vars
    BY <2>2, OtherCounts DEF Tick, vars
  <2>3. ASSUME NEW c \in Clients, OwnerStartsSos(c) \/ OwnerEndsSos(c) PROVE CountKept
    <3>1. PICK e : emergencies' = [emergencies EXCEPT ![c] = e] /\ e.auto = emergencies[c].auto
                    /\ e.noted = emergencies[c].noted
      <4>1. PICK e, f : /\ e = [emergencies[c] EXCEPT !.active = @ + 1]
                        /\ f = [emergencies[c] EXCEPT !.active = @ - 1]
        OBVIOUS
      <4>2. emergencies[c] \in EmergencyCount
        BY DEF CountInv, Inv, TablesTyped
      <4>3. /\ e.auto = emergencies[c].auto /\ e.noted = emergencies[c].noted
            /\ f.auto = emergencies[c].auto /\ f.noted = emergencies[c].noted
        BY <4>1, <4>2 DEF EmergencyCount
      <4> QED
        BY <2>3, <4>1, <4>3 DEF OwnerStartsSos, OwnerEndsSos
    <3>2. sessions' = sessions /\ notices' = notices /\ req' = req
      BY <2>3 DEF OwnerStartsSos, OwnerEndsSos
    <3>3. \A d \in Clients : /\ emergencies'[d].auto = emergencies[d].auto
                             /\ emergencies'[d].noted = emergencies[d].noted
      BY <3>1 DEF CountInv, Inv, TablesTyped
    <3> QED
      BY <3>2, <3>3, OtherCounts
  <2>4. CASE Crash
    BY <2>4, OtherCounts DEF Crash
  <2> QED
    BY <2>1, <2>2, <2>3, <2>4, ArriveCounts DEF Next
<1>2. Inv'
  BY NextInv DEF CountInv
<1> QED
  BY <1>1, <1>2 DEF CountKept, CountInv

\* With finitely many threads the auto-SOS starts no emergency for a client that
\* an escalation of its own does not justify, however the threads interleave.
THEOREM NoSosUncalledFor == ASSUME IsFiniteSet(Workers) PROVE Spec => []AutoSosIsJustified
<1>1. Init => CountInv
  <2> SUFFICES ASSUME Init PROVE CountInv
    OBVIOUS
  <2>1. Inv /\ \A w \in Workers : req[w] = Idle
    BY InitInv DEF Init
  <2>2. ASSUME NEW c \in Clients PROVE Counted(c)
    <3>1. EscalationsOf(c) = {}
      <4>1. \A s \in SessionIds : {i \in 1..Len(notices[s]) : notices[s][i].type = "checkin_escalated"} = {}
        BY DEF Init
      <4> QED
        BY <4>1 DEF EscalationsOf
    <3>2. At(c, {"checksos", "startsos"}) = {} /\ At(c, {"recordsos"}) = {}
      BY <2>1, IdleIsOwned DEF At
    <3>3. emergencies[c].auto = 0 /\ emergencies[c].noted = 0
      BY DEF Init
    <3> QED
      BY <3>1, <3>2, <3>3, FS_EmptySet DEF Counted
  <2>3. \A s \in SessionIds : RowOwned(sessions[s], notices[s])
    BY DEF Init, RowOwned, BlankRow
  <2> QED
    BY <2>1, <2>2, <2>3, IdleIsOwned DEF CountInv
<1>2. CountInv /\ [Next]_vars => CountInv'
  BY CountStepHolds
<1>3. CountInv => AutoSosIsJustified
  <2> SUFFICES ASSUME CountInv, NEW c \in Clients
               PROVE  /\ emergencies[c].auto <= Cardinality(EscalationsOf(c))
                      /\ emergencies[c].noted <= emergencies[c].auto
    BY DEF AutoSosIsJustified
  <2>1. /\ IsFiniteSet(EscalationsOf(c)) /\ emergencies[c] \in EmergencyCount
        /\ emergencies[c].auto + Cardinality(At(c, {"checksos", "startsos"}))
             <= Cardinality(EscalationsOf(c))
        /\ emergencies[c].noted + Cardinality(At(c, {"recordsos"})) <= emergencies[c].auto
    BY DEF CountInv, Counted, Inv, TablesTyped
  <2>2. Cardinality(At(c, {"checksos", "startsos"})) \in Nat /\ Cardinality(At(c, {"recordsos"})) \in Nat
    BY FS_Subset, FS_CardinalityType DEF At
  <2>3. /\ Cardinality(EscalationsOf(c)) \in Nat
        /\ emergencies[c].auto \in Nat /\ emergencies[c].noted \in Nat
    BY <2>1, FS_CardinalityType DEF EmergencyCount
  <2> QED
    BY <2>1, <2>2, <2>3
<1> QED
  BY <1>1, <1>2, <1>3, PTL DEF Spec

-----------------------------------------------------------------------------
(* One request at a time: OneLivePerClient and StageIsDue.  With two        *)
(* threads each fails: between a SELECT and its INSERT or UPDATE another    *)
(* request may come.                                                        *)

OneThread == \A v, w \in Workers : v = w

\* The stage a row shows has been reached at time t.
Reached(row, t) ==
    /\ row.stage = 1 => t >= Deadline(row)
    /\ row.stage = 2 => t >= Deadline(row) + EscalationDelay

\* What a request read still holds of the rows when it writes, at time t.
Fresh(r, rows, t) ==
    /\ r.pc = "evaluate" => r.sid \in SessionIds /\ r.row = rows[r.sid]
    /\ r.pc = "persist" => /\ r.sid \in SessionIds
                           /\ rows[r.sid].status \in Live
                           /\ Deadline(r.row) = Deadline(rows[r.sid])
                           /\ Reached(r.row, t)
    /\ r.pc = "insert" => \A s \in SessionIds :
                              ~(rows[s].client = r.row.client /\ rows[s].status \in Live)

\* The inductive invariant.
SerialInv ==
    /\ Inv
    /\ \A w \in Workers : Fresh(req[w], sessions, now)
    /\ \A s \in SessionIds : Reached(sessions[s], now)
    /\ OneLivePerClient

-----------------------------------------------------------------------------
\* No row is written: what the tables promise goes on.
LEMMA RowsKept ==
    ASSUME SerialInv, sessions' = sessions, now' = now
    PROVE  /\ \A s \in SessionIds : Reached(sessions[s], now)'
           /\ OneLivePerClient'
BY DEF SerialInv, Reached, Deadline, OneLivePerClient

\* One thread: its request is every request.
LEMMA OnlyRequest ==
    ASSUME OneThread, SerialInv, NEW w \in Workers, NEW q, req' = [req EXCEPT ![w] = q],
           Fresh(q, sessions', now')
    PROVE  \A v \in Workers : Fresh(req'[v], sessions', now')
<1> SUFFICES ASSUME NEW v \in Workers PROVE Fresh(req'[v], sessions', now')
  OBVIOUS
<1>1. v = w
  BY DEF OneThread
<1>2. req'[v] = q
  BY <1>1 DEF SerialInv, Inv
<1> QED
  BY <1>2 DEF Fresh

LEMMA AnsweredIsFresh ==
    ASSUME NEW r \in Request, NEW q, q = Answered(r)
    PROVE  q.pc \in {"idle", "emit", "write"}
BY DEF Answered, Idle, Request

LEMMA EvaluateSerial ==
    ASSUME OneThread, SerialInv, NEW w \in Workers, Evaluate(w)
    PROVE  \A v \in Workers : Fresh(req'[v], sessions', now')
<1> DEFINE r == req[w]
           row == r.row
           stage == StageAt(row, now)
           staged == [r EXCEPT !.pc = "persist", !.row = Staged(row, stage),
                               !.events = StageEvents(row, stage)]
           q == IF row.status \notin Live \/ stage = row.stage THEN Answered(r) ELSE staged
<1>1. /\ r \in Request /\ row \in Row /\ r.sid \in SessionIds /\ row = sessions[r.sid]
      /\ now \in Nat /\ now' = now /\ sessions' = sessions
  BY DEF Evaluate, SerialInv, Inv, TablesTyped, Fresh, Request
<1>2. req' = [req EXCEPT ![w] = q]
  BY DEF Evaluate
<1>3. CASE row.status \notin Live \/ stage = row.stage
  <2>1. q.pc \in {"idle", "emit", "write"}
    BY <1>1, <1>3, AnsweredIsFresh
  <2>2. Fresh(q, sessions', now')
    BY <2>1 DEF Fresh
  <2> HIDE DEF q
  <2> QED
    BY <1>2, <2>2, OnlyRequest
<1>4. CASE row.status \in Live /\ stage # row.stage
  <2>1. q = staged
    BY <1>4
  <2>2. staged.pc = "persist" /\ staged.sid = r.sid /\ staged.row = Staged(row, stage)
    BY <1>1 DEF Request
  <2>3. Deadline(Staged(row, stage)) = Deadline(row) /\ Staged(row, stage).stage = stage
    BY <1>1 DEF Staged, Deadline, Row
  <2>4. Reached(Staged(row, stage), now)
    BY <1>1, <2>3, DeadlineIsNat, TimesAssumption DEF Reached, StageAt
  <2>5. Fresh(staged, sessions', now')
    BY <1>1, <1>4, <2>2, <2>3, <2>4 DEF Fresh, Reached, Deadline
  <2> HIDE DEF staged, q
  <2> QED
    BY <1>2, <2>1, <2>5, OnlyRequest
<1> QED
  BY <1>3, <1>4

\* A live row stays its client's, or becomes over: no second one appears.
LEMMA NoSecondLive ==
    ASSUME OneLivePerClient, NEW s \in SessionIds, NEW row,
           sessions' = [sessions EXCEPT ![s] = row], sessions \in [SessionIds -> Row],
           row.status \in Live => sessions[s].status \in Live /\ row.client = sessions[s].client
    PROVE  OneLivePerClient'
BY DEF OneLivePerClient

LEMMA PersistSerial ==
    ASSUME OneThread, SerialInv, NEW w \in Workers, Persist(w)
    PROVE  /\ \A v \in Workers : Fresh(req'[v], sessions', now')
           /\ \A s \in SessionIds : Reached(sessions[s], now)'
           /\ OneLivePerClient'
<1> DEFINE r == req[w]
           s == r.sid
           new == [sessions[s] EXCEPT !.status = r.row.status, !.stage = r.row.stage,
                                      !.notified = r.row.notified]
<1>1. /\ r \in Request /\ r.row \in Row /\ s \in SessionIds /\ sessions[s] \in Row
      /\ sessions[s].status \in Live /\ Deadline(r.row) = Deadline(sessions[s])
      /\ Reached(r.row, now) /\ now' = now /\ sessions \in [SessionIds -> Row]
  BY DEF Persist, SerialInv, Inv, TablesTyped, Fresh, Request
<1>2. sessions' = [sessions EXCEPT ![s] = new] /\ req' = [req EXCEPT ![w] = Answered(r)]
  BY DEF Persist
<1>3. /\ new.stage = r.row.stage /\ new.client = sessions[s].client
      /\ Deadline(new) = Deadline(r.row)
  BY <1>1 DEF Row, Deadline
<1>4. Reached(new, now)
  BY <1>1, <1>3 DEF Reached
<1> HIDE DEF new
<1>5. \A t \in SessionIds : Reached(sessions[t], now)'
  BY <1>1, <1>2, <1>4 DEF SerialInv, Reached, Deadline
<1>6. OneLivePerClient'
  BY <1>1, <1>2, <1>3, NoSecondLive DEF SerialInv
<1>7. PICK q : q = Answered(r)
  OBVIOUS
<1>8. Fresh(q, sessions', now')
  BY <1>1, <1>7, AnsweredIsFresh DEF Fresh
<1> QED
  BY <1>2, <1>5, <1>6, <1>7, <1>8, OnlyRequest

LEMMA InsertSerial ==
    ASSUME OneThread, SerialInv, NEW w \in Workers, Insert(w)
    PROVE  /\ \A v \in Workers : Fresh(req'[v], sessions', now')
           /\ \A s \in SessionIds : Reached(sessions[s], now)'
           /\ OneLivePerClient'
<1> PICK s \in Free, g \in Graces, e \in Arrivals, p \in Geometries :
      LET row == [BlankRow EXCEPT !.client = req[w].row.client, !.status = "ACTIVE",
                                  !.started = now, !.grace = g, !.expected = e, !.planned = p]
      IN  /\ sessions' = [sessions EXCEPT ![s] = row]
          /\ req' = [req EXCEPT ![w] =
                       [@ EXCEPT !.pc = "emit", !.sid = s, !.row = row,
                                 !.events = <<Note("guardian_started", Deadline(row))>>]]
  BY DEF Insert
<1> DEFINE row == [BlankRow EXCEPT !.client = req[w].row.client, !.status = "ACTIVE",
                                   !.started = now, !.grace = g, !.expected = e, !.planned = p]
           q == [req[w] EXCEPT !.pc = "emit", !.sid = s, !.row = row,
                               !.events = <<Note("guardian_started", Deadline(row))>>]
<1>1. /\ s \in SessionIds /\ sessions \in [SessionIds -> Row] /\ now' = now
      /\ req[w] \in Request /\ \A t \in SessionIds :
             ~(sessions[t].client = req[w].row.client /\ sessions[t].status \in Live)
  BY DEF Insert, Free, SerialInv, Inv, TablesTyped, Fresh
<1>2. row.stage = 0 /\ row.client = req[w].row.client
  BY DEF BlankRow
<1>3. sessions' = [sessions EXCEPT ![s] = row] /\ req' = [req EXCEPT ![w] = q]
  OBVIOUS
<1>4. q.pc = "emit"
  BY <1>1 DEF Request
<1> HIDE DEF row, q
<1>5. Fresh(q, sessions', now')
  BY <1>4 DEF Fresh
<1>6. \A t \in SessionIds : Reached(sessions[t], now)'
  <2> SUFFICES ASSUME NEW t \in SessionIds PROVE Reached(sessions[t], now)'
    OBVIOUS
  <2>1. sessions'[t].stage = 0 \/ sessions'[t] = sessions[t]
    BY <1>1, <1>2, <1>3
  <2>2. Reached(sessions[t], now)
    BY DEF SerialInv
  <2>3. CASE sessions'[t].stage = 0
    BY <2>3 DEF Reached
  <2>4. CASE sessions'[t] = sessions[t]
    <3>1. now' = now
      BY <1>1
    <3> QED
      BY <2>2, <2>4, <3>1 DEF Reached, Deadline
  <2> QED
    BY <2>1, <2>3, <2>4
<1>7. OneLivePerClient'
  BY <1>1, <1>2, <1>3 DEF SerialInv, OneLivePerClient, LiveOf
<1> QED
  BY <1>3, <1>5, <1>6, <1>7, OnlyRequest

LEMMA WriteSerial ==
    ASSUME OneThread, SerialInv, NEW w \in Workers, WriteLocation(w)
    PROVE  /\ \A v \in Workers : Fresh(req'[v], sessions', now')
           /\ \A s \in SessionIds : Reached(sessions[s], now)'
           /\ OneLivePerClient'
<1>1. req[w] \in Request /\ now' = now /\ sessions \in [SessionIds -> Row]
  BY DEF WriteLocation, SerialInv, Inv, TablesTyped
<1>2. PICK q : req' = [req EXCEPT ![w] = q] /\ q.pc \in {"idle", "emit"}
  <2>1. PICK off \in BOOLEAN :
          \/ req' = [req EXCEPT ![w] = Idle]
          \/ req' = [req EXCEPT ![w] = [req[w] EXCEPT !.pc = "emit",
                                                      !.events = <<Note("route_changed", NoTime)>>]]
    BY DEF WriteLocation
  <2>2. Idle.pc = "idle"
    BY DEF Idle
  <2>3. PICK q : q = [req[w] EXCEPT !.pc = "emit", !.events = <<Note("route_changed", NoTime)>>]
    OBVIOUS
  <2>4. q.pc = "emit"
    BY <1>1, <2>3 DEF Request
  <2> QED
    BY <2>1, <2>2, <2>3, <2>4
<1>3. Fresh(q, sessions', now')
  BY <1>2 DEF Fresh
<1>4. CASE sessions' = sessions
  BY <1>1, <1>2, <1>3, <1>4, RowsKept, OnlyRequest
<1>5. CASE sessions' # sessions
  <2>1. PICK s \in SessionIds, d \in BOOLEAN :
          sessions' = [sessions EXCEPT ![s] = [sessions[s] EXCEPT !.deviated = d]]
    <3>1. PICK d : /\ sessions' = [sessions EXCEPT ![req[w].sid].deviated = d]
                   /\ d \in BOOLEAN
      BY <1>1, <1>5 DEF WriteLocation, SerialInv, Inv, Request, Row
    <3>2. req[w].sid \in SessionIds
      BY <1>1, <1>5, <3>1
    <3> QED
      BY <1>1, <3>1, <3>2
  <2> DEFINE row == [sessions[s] EXCEPT !.deviated = d]
  <2>2. /\ row.stage = sessions[s].stage /\ row.status = sessions[s].status
        /\ row.client = sessions[s].client /\ Deadline(row) = Deadline(sessions[s])
    BY <1>1 DEF Row, Deadline
  <2>3. sessions' = [sessions EXCEPT ![s] = row]
    BY <2>1
  <2> HIDE DEF row
  <2>4. \A t \in SessionIds : Reached(sessions[t], now)'
    BY <1>1, <2>2, <2>3 DEF SerialInv, Reached, Deadline
  <2>5. OneLivePerClient'
    BY <1>1, <2>2, <2>3, NoSecondLive DEF SerialInv
  <2> QED
    BY <1>2, <1>3, <2>4, <2>5, OnlyRequest
<1> QED
  BY <1>4, <1>5

\* Notifications and the auto-SOS touch no journey.
LEMMA RestOfStepSerial ==
    ASSUME OneThread, SerialInv, NEW w \in Workers,
           Emit(w) \/ CheckSos(w) \/ StartSos(w) \/ RecordSos(w)
    PROVE  /\ \A v \in Workers : Fresh(req'[v], sessions', now')
           /\ \A s \in SessionIds : Reached(sessions[s], now)'
           /\ OneLivePerClient'
<1>1. req[w] \in Request /\ now' = now /\ sessions' = sessions
  BY DEF Emit, CheckSos, StartSos, RecordSos, SerialInv, Inv
<1>2. PICK q : /\ req' = [req EXCEPT ![w] = q]
               /\ q.pc \in {"idle", "emit", "checksos", "startsos", "recordsos"}
  <2>0. req = [v \in Workers |-> req[v]]
    BY DEF SerialInv, Inv
  <2>1. CASE Emit(w)
    <3>1. PICK q : q = IF Tail(req[w].events) # <<>> THEN [req[w] EXCEPT !.events = Tail(@)]
                       ELSE IF AutoSos /\ Head(req[w].events).type = "checkin_escalated"
                            THEN [req[w] EXCEPT !.pc = "checksos", !.events = <<>>]
                            ELSE Idle
      OBVIOUS
    <3>2. req' = [req EXCEPT ![w] = q] /\ req[w].pc = "emit"
      BY <2>1, <3>1 DEF Emit
    <3>3. q.pc \in {"idle", "emit", "checksos"}
      BY <1>1, <3>1, <3>2 DEF Idle, Request
    <3> QED
      BY <3>2, <3>3
  <2>2. CASE CheckSos(w)
    <3>1. PICK q : q = IF emergencies[req[w].row.client].active > 0 THEN Idle
                       ELSE [req[w] EXCEPT !.pc = "startsos"]
      OBVIOUS
    <3>2. req' = [req EXCEPT ![w] = q]
      BY <2>0, <2>2, <3>1 DEF CheckSos
    <3>3. q.pc \in {"idle", "startsos"}
      BY <1>1, <3>1 DEF Idle, Request
    <3> QED
      BY <3>2, <3>3
  <2>3. CASE StartSos(w)
    <3>1. PICK q : q = [req[w] EXCEPT !.pc = "recordsos"]
      OBVIOUS
    <3>2. req' = [req EXCEPT ![w] = q] /\ q.pc = "recordsos"
      BY <1>1, <2>0, <2>3, <3>1 DEF StartSos, Request
    <3> QED
      BY <3>2
  <2>4. CASE RecordSos(w)
    <3>1. req' = [req EXCEPT ![w] = Idle] /\ Idle.pc = "idle"
      BY <2>4 DEF RecordSos, Idle
    <3> QED
      BY <3>1
  <2> QED
    BY <2>1, <2>2, <2>3, <2>4
<1>3. Fresh(q, sessions', now')
  BY <1>2 DEF Fresh
<1> QED
  BY <1>1, <1>2, <1>3, RowsKept, OnlyRequest

LEMMA ArriveSerial ==
    ASSUME OneThread, SerialInv, NEW w \in Workers, Arrive(w)
    PROVE  /\ \A v \in Workers : Fresh(req'[v], sessions', now')
           /\ \A s \in SessionIds : Reached(sessions[s], now)'
           /\ OneLivePerClient'
<1>1. sessions \in [SessionIds -> Row] /\ req \in [Workers -> Request] /\ now \in Nat
  BY DEF SerialInv, Inv, TablesTyped
<1>2. ASSUME NEW s \in SessionIds, NEW op, Reading(w, op, s), UNCHANGED <<now, sessions>>
      PROVE  /\ \A v \in Workers : Fresh(req'[v], sessions', now')
             /\ \A t \in SessionIds : Reached(sessions[t], now)'
             /\ OneLivePerClient'
  <2> DEFINE q == [pc |-> "evaluate", op |-> op, sid |-> s, row |-> sessions[s], events |-> <<>>]
  <2>1. req' = [req EXCEPT ![w] = q]
    BY <1>2 DEF Reading
  <2>2. Fresh(q, sessions', now')
    BY <1>2 DEF Fresh
  <2> HIDE DEF q
  <2> QED
    BY <1>2, <2>1, <2>2, RowsKept, OnlyRequest
<1>3. CASE \E c \in Clients, op \in {"create", "active", "dashboard"} : SelectNewest(w, c, op)
  BY <1>2, <1>3 DEF SelectNewest, Newest, LiveOf
<1>4. CASE \E s \in SessionIds, op \in {"get", "location"} : SelectById(w, s, op)
  BY <1>2, <1>4 DEF SelectById
<1>5. ASSUME NEW c \in Clients, SelectNone(w, c)
      PROVE  /\ \A v \in Workers : Fresh(req'[v], sessions', now')
             /\ \A t \in SessionIds : Reached(sessions[t], now)'
             /\ OneLivePerClient'
  <2> DEFINE q == [pc |-> "insert", op |-> "create", sid |-> NoOne,
                   row |-> [BlankRow EXCEPT !.client = c], events |-> <<>>]
  <2>1. req' = [req EXCEPT ![w] = q] /\ now' = now /\ sessions' = sessions /\ LiveOf(c) = {}
    BY <1>5 DEF SelectNone
  <2>2. q.row.client = c
    BY DEF BlankRow
  <2>3. Fresh(q, sessions', now')
    BY <2>1, <2>2 DEF Fresh, LiveOf
  <2> HIDE DEF q
  <2> QED
    BY <2>1, <2>3, RowsKept, OnlyRequest
<1>6. ASSUME NEW s \in SessionIds, Checkin(w, s)
      PROVE  /\ \A v \in Workers : Fresh(req'[v], sessions', now')
             /\ \A t \in SessionIds : Reached(sessions[t], now)'
             /\ OneLivePerClient'
  <2> DEFINE row == [sessions[s] EXCEPT !.checkin = now, !.expected = NoTime, !.status = "ACTIVE",
                                        !.stage = 0, !.notified = 0]
  <2>1. /\ sessions' = [sessions EXCEPT ![s] = row] /\ now' = now /\ req' = req /\ req[w] = Idle
        /\ sessions[s].status \in Live
    BY <1>6 DEF Checkin
  <2>2. row.stage = 0 /\ row.client = sessions[s].client
    BY <1>1 DEF Row
  <2> HIDE DEF row
  <2>3. \A t \in SessionIds : Reached(sessions[t], now)'
    BY <1>1, <2>1, <2>2 DEF SerialInv, Reached, Deadline
  <2>4. OneLivePerClient'
    BY <1>1, <2>1, <2>2, NoSecondLive DEF SerialInv
  <2>5. \A v \in Workers : Fresh(req'[v], sessions', now')
    BY <2>1 DEF OneThread, Fresh, Idle
  <2> QED
    BY <2>3, <2>4, <2>5
<1>7. ASSUME NEW s \in SessionIds, NEW reason \in {"arrived", "cancelled"}, End(w, s, reason)
      PROVE  /\ \A v \in Workers : Fresh(req'[v], sessions', now')
             /\ \A t \in SessionIds : Reached(sessions[t], now)'
             /\ OneLivePerClient'
  <2> DEFINE done == IF reason = "arrived" THEN "COMPLETED" ELSE "CANCELLED"
             row == [sessions[s] EXCEPT !.status = done]
  <2>1. PICK q : req' = [req EXCEPT ![w] = q] /\ q.pc = "emit"
    <3>1. PICK q : q = [pc |-> "emit", op |-> "end", sid |-> s, row |-> sessions'[s],
                        events |-> <<Note(IF reason = "arrived" THEN "journey_completed"
                                          ELSE "guardian_ended", NoTime)>>]
      OBVIOUS
    <3>2. req' = [req EXCEPT ![w] = q] /\ q.pc = "emit"
      BY <1>7, <3>1 DEF End
    <3> QED
      BY <3>2
  <2>2. sessions' = [sessions EXCEPT ![s] = row] /\ now' = now
    BY <1>7 DEF End
  <2>3. row.stage = sessions[s].stage /\ row.status \notin Live /\ Deadline(row) = Deadline(sessions[s])
    BY <1>1 DEF Row, Deadline, Live
  <2> HIDE DEF row
  <2>4. \A t \in SessionIds : Reached(sessions[t], now)'
    BY <1>1, <2>2, <2>3 DEF SerialInv, Reached, Deadline
  <2>5. OneLivePerClient'
    BY <1>1, <2>2, <2>3, NoSecondLive DEF SerialInv
  <2>6. Fresh(q, sessions', now')
    BY <2>1 DEF Fresh
  <2> QED
    BY <2>1, <2>4, <2>5, <2>6, OnlyRequest
<1> QED
  BY <1>3, <1>4, <1>5, <1>6, <1>7 DEF Arrive

LEMMA SerialStep ==
    ASSUME OneThread, SerialInv, [Next]_vars
    PROVE  SerialInv'
<1>1. Inv'
  BY NextInv DEF SerialInv
<1>2. SUFFICES /\ \A v \in Workers : Fresh(req'[v], sessions', now')
               /\ \A s \in SessionIds : Reached(sessions[s], now)'
               /\ OneLivePerClient'
  BY <1>1 DEF SerialInv
<1>3. CASE Tick
  <2>1. /\ now \in Nat /\ now' = now + 1 /\ sessions' = sessions /\ req' = req
        /\ sessions \in [SessionIds -> Row] /\ req \in [Workers -> Request]
    BY <1>3 DEF Tick, SerialInv, Inv, TablesTyped
  <2>2. ASSUME NEW row \in Row, Reached(row, now) PROVE Reached(row, now')
    BY <2>1, <2>2, DeadlineIsNat, TimesAssumption DEF Reached
  <2>3. \A s \in SessionIds : Reached(sessions[s], now)'
    BY <2>1, <2>2 DEF SerialInv, Reached, Deadline
  <2>4. ASSUME NEW v \in Workers PROVE Fresh(req'[v], sessions', now')
    <3>1. req[v] \in Request /\ req[v].row \in Row /\ Fresh(req[v], sessions, now)
      BY <2>1 DEF SerialInv, Request
    <3>2. Reached(req[v].row, now) => Reached(req[v].row, now')
      BY <2>2, <3>1
    <3> QED
      BY <2>1, <3>1, <3>2 DEF Fresh, LiveOf, Reached, Deadline
  <2> QED
    BY <2>1, <2>3, <2>4 DEF SerialInv, OneLivePerClient
<1>4. ASSUME NEW w \in Workers, Step(w)
      PROVE  /\ \A v \in Workers : Fresh(req'[v], sessions', now')
             /\ \A s \in SessionIds : Reached(sessions[s], now)'
             /\ OneLivePerClient'
  <2>1. CASE Evaluate(w)
    BY <2>1, EvaluateSerial, RowsKept DEF Evaluate
  <2> QED
    BY <1>4, <2>1, PersistSerial, InsertSerial, WriteSerial, RestOfStepSerial DEF Step
<1>5. CASE \E c \in Clients : OwnerStartsSos(c) \/ OwnerEndsSos(c)
  <2>1. sessions' = sessions /\ now' = now /\ req' = req
    BY <1>5 DEF OwnerStartsSos, OwnerEndsSos
  <2>2. \A v \in Workers : Fresh(req'[v], sessions', now')
    BY <2>1 DEF SerialInv, Fresh, LiveOf, Reached, Deadline
  <2> QED
    BY <2>1, <2>2, RowsKept
<1>6. CASE Crash
  <2>1. sessions' = sessions /\ now' = now /\ \A v \in Workers : req'[v] = Idle
    BY <1>6 DEF Crash
  <2>2. \A v \in Workers : Fresh(req'[v], sessions', now')
    BY <2>1 DEF Fresh, Idle
  <2> QED
    BY <2>1, <2>2, RowsKept
<1>7. CASE UNCHANGED vars
  <2>1. sessions' = sessions /\ now' = now /\ req' = req
    BY <1>7 DEF vars
  <2>2. \A v \in Workers : Fresh(req'[v], sessions', now')
    BY <2>1 DEF SerialInv, Fresh, LiveOf, Reached, Deadline
  <2> QED
    BY <2>1, <2>2, RowsKept
<1> QED
  BY <1>3, <1>4, <1>5, <1>6, <1>7, ArriveSerial DEF Next

LEMMA SerialAlways == ASSUME OneThread PROVE Spec => []SerialInv
<1>1. Init => SerialInv
  <2> SUFFICES ASSUME Init PROVE SerialInv
    OBVIOUS
  <2>1. Inv
    BY InitInv
  <2> QED
    BY <2>1 DEF Init, SerialInv, Fresh, Idle, Reached, BlankRow, OneLivePerClient, Live
<1>2. SerialInv /\ [Next]_vars => SerialInv'
  BY SerialStep
<1> QED
  BY <1>1, <1>2, PTL DEF Spec

\* One request at a time: a client never has two live journeys (guardian.py:4).
THEOREM OneJourneyEach == ASSUME OneThread PROVE Spec => []OneLivePerClient
<1>1. SerialInv => OneLivePerClient
  BY DEF SerialInv
<1> QED
  BY <1>1, SerialAlways, PTL

\* One request at a time: no journey shows a stage its deadline has not reached.
THEOREM StagesAreReached == ASSUME OneThread PROVE Spec => []StageIsDue
<1>1. SerialInv => StageIsDue
  <2> SUFFICES ASSUME SerialInv, NEW s \in SessionIds, sessions[s].stage >= 1
               PROVE  now >= Deadline(sessions[s]) + (sessions[s].stage - 1) * EscalationDelay
    BY DEF StageIsDue
  <2>1. /\ sessions[s].stage \in {1, 2} /\ Reached(sessions[s], now)
        /\ Deadline(sessions[s]) \in Nat /\ EscalationDelay \in Nat /\ now \in Nat
    BY DeadlineIsNat, TimesAssumption DEF SerialInv, Inv, TablesTyped, Row
  <2>2. CASE sessions[s].stage = 1
    BY <2>1, <2>2 DEF Reached
  <2>3. CASE sessions[s].stage = 2
    BY <2>1, <2>3 DEF Reached
  <2> QED
    BY <2>1, <2>2, <2>3
<1> QED
  BY <1>1, SerialAlways, PTL
=============================================================================
