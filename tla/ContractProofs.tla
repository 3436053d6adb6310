--------------------------- MODULE ContractProofs ---------------------------
(***************************************************************************)
(* Guardian journeys implement EscalationContract when requests are served *)
(* one at a time, for any number of clients, journeys, check-ins, crashes  *)
(* and lost notifications, provided that every grace period is positive:   *)
(* the schema asks for sixty seconds.  With no grace, a check-in at the    *)
(* very deadline would leave it where it is and call it missed again.      *)
(* Then two properties of that one thread, an ended journey stays ended and *)
(* no stage is recorded twice; and, for any number of threads, the only    *)
(* ways to forget a stage.                                                 *)
(***************************************************************************)
EXTENDS GuardianProofs

\* checkin_grace_s: Field(ge=60), schemas.py:405.
PositiveGraces == \A g \in Graces : g > 0

Missed(d) == Note("checkin_missed", d)
Escalated(d) == Note("checkin_escalated", d)
Deviated == Note("route_changed", NoTime)
LastWords == {"journey_completed", "guardian_ended"}
Over == {"COMPLETED", "CANCELLED"}

Holds(log, n) == \E i \in 1..Len(log) : log[i] = n
Closed(log) == \E i \in 1..Len(log) : log[i].type \in LastWords

\* The row answers for everything in the journey's log.
Told(row, log) ==
    /\ row.status = "FREE" => log = <<>>
    /\ row.status # "FREE" => row.grace > 0
    /\ row.status \in Live => /\ ~Closed(log)
                              /\ Holds(log, Missed(Deadline(row))) => row.notified >= 1
                              /\ Holds(log, Escalated(Deadline(row))) => row.notified = 2
    /\ Holds(log, Deviated) => row.deviated

\* Stages of deadline d that the watermark covers and the log does not hold.
Unsent(events, d, notified, log) ==
    \/ events = <<>>
    \/ /\ events = <<Missed(d)>> /\ notified >= 1
       /\ ~Holds(log, Missed(d)) /\ ~Holds(log, Escalated(d))
    \/ /\ events = <<Escalated(d)>> /\ notified = 2
       /\ ~Holds(log, Escalated(d))
    \/ /\ events = <<Missed(d), Escalated(d)>> /\ notified = 2
       /\ ~Holds(log, Missed(d)) /\ ~Holds(log, Escalated(d))

\* The events a handler is recording are ones the contract allows.
Sendable(events, row, log) ==
    \/ row.status \in Live /\ Unsent(events, Deadline(row), row.notified, log)
    \/ /\ row.status \in Live /\ log = <<>>
       /\ \E d \in Nat : events = <<Note("guardian_started", d)>>
    \/ /\ row.status \in Live /\ row.deviated
       /\ events = <<Deviated>> /\ ~Holds(log, Deviated)
    \/ /\ row.status \in Over /\ ~Closed(log)
       /\ \E n \in Notice : events = <<n>> /\ n.type \in LastWords

\* What a request carries, against the rows and the logs.
Carries(r, rows, logs) ==
    /\ r.pc = "evaluate" => r.events = <<>>
    /\ r.pc = "persist" => /\ r.row.status \in Live
                           /\ r.row.deviated = rows[r.sid].deviated
                           /\ rows[r.sid].notified <= r.row.notified
                           /\ Unsent(r.events, Deadline(r.row), r.row.notified, logs[r.sid])
    /\ r.pc = "write" => r.sid \in SessionIds /\ r.row.deviated = rows[r.sid].deviated
    /\ r.pc = "emit" => r.sid \in SessionIds /\ Sendable(r.events, rows[r.sid], logs[r.sid])

\* The inductive invariant.
ContractInv ==
    /\ SerialInv
    /\ \A s \in SessionIds : Told(sessions[s], notices[s])
    /\ \A w \in Workers : Carries(req[w], sessions, notices)

\* A step keeps the parts of ContractInv that are new and is one of the contract's.
Faithful ==
    /\ \A s \in SessionIds : Told(sessions'[s], notices'[s])
    /\ \A w \in Workers : Carries(req'[w], sessions', notices')
    /\ [Contract!Next]_(Contract!contractVars)

-----------------------------------------------------------------------------
(* How a step of the code looks to the contract.                           *)

\* A step that keeps who owns each journey and whether it is open, and records
\* nothing, is a stutter of the contract.
LEMMA Unseen ==
    ASSUME Inv, notices' = notices, sessions' \in [SessionIds -> Row],
           \A s \in SessionIds : /\ sessions'[s].client = sessions[s].client
                                 /\ PhaseOf(sessions'[s]) = PhaseOf(sessions[s])
    PROVE  UNCHANGED Contract!contractVars
BY DEF Contract!contractVars, PhaseOf

\* A free id given to a client without an open journey.
LEMMA Opens ==
    ASSUME Inv, NEW s \in SessionIds, sessions[s].status = "FREE", NEW row \in Row,
           row.status = "ACTIVE", sessions' = [sessions EXCEPT ![s] = row], notices' = notices,
           \A t \in SessionIds : ~(sessions[t].client = row.client /\ sessions[t].status \in Live)
    PROVE  Contract!Next
<1>1. sessions \in [SessionIds -> Row]
  BY DEF Inv, TablesTyped
<1>2. Contract!Open(s)
  BY <1>1 DEF Contract!Open, PhaseOf, Live
<1> QED
  BY <1>2 DEF Contract!Next

\* A live row that becomes COMPLETED or CANCELLED.
LEMMA Closes ==
    ASSUME Inv, NEW s \in SessionIds, sessions[s].status \in Live, NEW row \in Row,
           row.status \in Over, row.client = sessions[s].client,
           sessions' = [sessions EXCEPT ![s] = row], notices' = notices
    PROVE  Contract!Next
<1>1. sessions \in [SessionIds -> Row]
  BY DEF Inv, TablesTyped
<1>2. Contract!Close(s)
  BY <1>1 DEF Contract!Close, PhaseOf, Live, Over
<1> QED
  BY <1>2 DEF Contract!Next

\* A new notice about an open journey, missed before escalated.
LEMMA Notifies ==
    ASSUME Inv, NEW s \in SessionIds, sessions[s].status \in Live, NEW n \in Notice,
           notices' = [notices EXCEPT ![s] = Append(@, n)], sessions' = sessions,
           n.type \notin LastWords, ~Holds(notices[s], n),
           n.type = "checkin_missed" => ~Holds(notices[s], Escalated(n.deadline))
    PROVE  Contract!Next
<1>1. /\ sessions \in [SessionIds -> Row] /\ notices \in [SessionIds -> Seq(Notice)]
      /\ notices[s] \in Seq(Notice)
  BY DEF Inv, TablesTyped
<1>2. /\ Len(notices'[s]) = Len(notices[s]) + 1
      /\ notices'[s][Len(notices'[s])] = n
  BY <1>1, AppendProperties
<1>3. [n EXCEPT !.type = "checkin_escalated"] = Escalated(n.deadline)
  BY DEF Notice, Escalated, Note
<1>4. Contract!Notify(s)
  BY <1>1, <1>2, <1>3 DEF Contract!Notify, Contract!Logs, Contract!Logged, Contract!LastWord,
     PhaseOf, Live, LastWords, Holds
<1> QED
  BY <1>4 DEF Contract!Next

\* The last word about a closed journey.
LEMMA Concludes ==
    ASSUME Inv, NEW s \in SessionIds, sessions[s].status \in Over, NEW n \in Notice,
           notices' = [notices EXCEPT ![s] = Append(@, n)], sessions' = sessions,
           n.type \in LastWords, ~Closed(notices[s])
    PROVE  Contract!Next
<1>1. /\ sessions \in [SessionIds -> Row] /\ notices \in [SessionIds -> Seq(Notice)]
      /\ notices[s] \in Seq(Notice)
  BY DEF Inv, TablesTyped
<1>2. /\ Len(notices'[s]) = Len(notices[s]) + 1
      /\ notices'[s][Len(notices'[s])] = n
  BY <1>1, AppendProperties
<1>4. Contract!Conclude(s)
  BY <1>1, <1>2 DEF Contract!Conclude, Contract!Logs, Contract!LastWord, PhaseOf,
         Live, Over, LastWords, Closed
<1> QED
  BY <1>4 DEF Contract!Next

-----------------------------------------------------------------------------
\* One thread: what its request carries is all that is carried.
LEMMA OnlyCarrier ==
    ASSUME OneThread, Inv, NEW w \in Workers, NEW q, req' = [req EXCEPT ![w] = q],
           Carries(q, sessions', notices')
    PROVE  \A v \in Workers : Carries(req'[v], sessions', notices')
<1>1. \A v \in Workers : req'[v] = q
  BY DEF OneThread, Inv
<1> QED
  BY <1>1

\* A step that writes no table.
LEMMA QuietStep ==
    ASSUME OneThread, ContractInv, NEW w \in Workers, NEW q, req' = [req EXCEPT ![w] = q],
           Carries(q, sessions, notices), sessions' = sessions, notices' = notices
    PROVE  Faithful
<1>1. Inv /\ sessions \in [SessionIds -> Row]
  BY DEF ContractInv, SerialInv, Inv, TablesTyped
<1>2. UNCHANGED Contract!contractVars
  BY <1>1, Unseen
<1>3. \A v \in Workers : Carries(req'[v], sessions', notices')
  BY <1>1, OnlyCarrier
<1> QED
  BY <1>2, <1>3 DEF Faithful, ContractInv

\* A step that writes one row.
LEMMA WriteStep ==
    ASSUME OneThread, ContractInv, NEW w \in Workers, NEW q, req' = [req EXCEPT ![w] = q],
           NEW s \in SessionIds, NEW row, sessions' = [sessions EXCEPT ![s] = row],
           Told(row, notices[s]), Carries(q, sessions', notices), notices' = notices,
           [Contract!Next]_(Contract!contractVars)
    PROVE  Faithful
<1>1. Inv /\ sessions \in [SessionIds -> Row]
  BY DEF ContractInv, SerialInv, Inv, TablesTyped
<1>2. \A v \in Workers : Carries(req'[v], sessions', notices')
  BY <1>1, OnlyCarrier
<1>3. \A t \in SessionIds : Told(sessions'[t], notices'[t])
  BY <1>1 DEF ContractInv
<1> QED
  BY <1>2, <1>3 DEF Faithful

LEMMA IdleCarries == \A rows, logs : Carries(Idle, rows, logs)
BY DEF Carries, Idle

\* The next step of a handler that has an answer from the store.
LEMMA AnsweredCarries ==
    ASSUME NEW r \in Request, NEW rows, NEW logs, r.sid \in SessionIds,
           r.row.deviated = rows[r.sid].deviated,
           r.events # <<>> => Sendable(r.events, rows[r.sid], logs[r.sid])
    PROVE  Carries(Answered(r), rows, logs)
<1>1. CASE r.op \in {"active", "get"} /\ r.events # <<>>
  <2>1. PICK q : q = [r EXCEPT !.pc = "emit"]
    OBVIOUS
  <2>2. q.pc = "emit" /\ q.sid = r.sid /\ q.events = r.events /\ Answered(r) = q
    BY <1>1, <2>1 DEF Request, Answered
  <2> QED
    BY <1>1, <2>2 DEF Carries
<1>2. CASE /\ ~(r.op \in {"active", "get"} /\ r.events # <<>>)
           /\ r.op = "location" /\ r.row.status \in Live
  <2>1. PICK q : q = [r EXCEPT !.pc = "write", !.events = <<>>]
    OBVIOUS
  <2>2. q.pc = "write" /\ q.sid = r.sid /\ q.row = r.row /\ Answered(r) = q
    BY <1>2, <2>1 DEF Request, Answered
  <2> QED
    BY <2>2 DEF Carries
<1>3. CASE /\ ~(r.op \in {"active", "get"} /\ r.events # <<>>)
           /\ ~(r.op = "location" /\ r.row.status \in Live)
  BY <1>3, IdleCarries DEF Answered
<1> QED
  BY <1>1, <1>2, <1>3

-----------------------------------------------------------------------------
\* What a pair's stretches are.
LEMMA SubSeqOfPair ==
    ASSUME NEW a \in Notice, NEW b \in Notice, NEW m \in 1..3, NEW n \in 0..2
    PROVE  /\ m > n => SubSeq(<<a, b>>, m, n) = <<>>
           /\ m = 1 /\ n = 1 => SubSeq(<<a, b>>, m, n) = <<a>>
           /\ m = 1 /\ n = 2 => SubSeq(<<a, b>>, m, n) = <<a, b>>
           /\ m = 2 /\ n = 2 => SubSeq(<<a, b>>, m, n) = <<b>>
<1> DEFINE both == <<a, b>>
           sub == SubSeq(both, m, n)
<1>1. both \in Seq(Notice) /\ Len(both) = 2 /\ both[1] = a /\ both[2] = b
  OBVIOUS
<1>2. \A i \in m..n : both[i] \in Notice
  BY <1>1
<1> HIDE DEF both
<1>3. /\ sub \in Seq(Notice)
      /\ Len(sub) = IF m <= n THEN n - m + 1 ELSE 0
      /\ \A i \in 1..(n - m + 1) : sub[i] = both[m + i - 1]
  BY <1>2, SubSeqProperties
<1> HIDE DEF sub
<1>4. m > n => sub = <<>>
  BY <1>3, EmptySeq
<1>5. m = 1 /\ n = 1 => sub = <<a>>
  BY <1>1, <1>3
<1>6. m = 2 /\ n = 2 => sub = <<b>>
  BY <1>1, <1>3
<1>7. m = 1 /\ n = 2 => sub = <<a, b>>
  BY <1>1, <1>3
<1> QED
  BY <1>4, <1>5, <1>6, <1>7 DEF sub, both

\* An evaluation hands out only stages the log does not hold yet.
LEMMA StagesUnsent ==
    ASSUME NEW row \in Row, NEW t \in Nat, NEW log, row.status \in Live,
           row.notified = row.stage, Reached(row, t), Told(row, log)
    PROVE  /\ row.notified <= StageAt(row, t)
           /\ Unsent(StageEvents(row, StageAt(row, t)), Deadline(row), StageAt(row, t), log)
<1> DEFINE d == Deadline(row)
           st == StageAt(row, t)
           sub == SubSeq(<<Missed(d), Escalated(d)>>, row.notified + 1, st)
<1>1. d \in Nat /\ st \in 0..2 /\ row.notified \in 0..2
  BY DeadlineIsNat, StageAtIsStage DEF Row
<1>2. row.notified <= st
  BY <1>1, TimesAssumption DEF Reached, StageAt
<1>3. /\ row.notified = 0 => ~Holds(log, Missed(d))
      /\ row.notified < 2 => ~Holds(log, Escalated(d))
  BY <1>1 DEF Told
<1>4. Missed(d) \in Notice /\ Escalated(d) \in Notice
  BY <1>1 DEF Missed, Escalated, Note, Notice, NoticeTypes, Times
<1>5. StageEvents(row, st) = sub
  BY DEF StageEvents, Missed, Escalated
<1> HIDE DEF d, st
<1>6. /\ row.notified + 1 > st => sub = <<>>
      /\ row.notified = 0 /\ st = 1 => sub = <<Missed(d)>>
      /\ row.notified = 0 /\ st = 2 => sub = <<Missed(d), Escalated(d)>>
      /\ row.notified = 1 /\ st = 2 => sub = <<Escalated(d)>>
  BY <1>1, <1>4, SubSeqOfPair
<1> HIDE DEF sub
<1>7. Unsent(sub, d, st, log)
  <2>1. CASE row.notified + 1 > st
    BY <1>6, <2>1 DEF Unsent
  <2>2. CASE row.notified = 0 /\ st = 1
    BY <1>3, <1>6, <2>2 DEF Unsent
  <2>3. CASE row.notified = 0 /\ st = 2
    BY <1>3, <1>6, <2>3 DEF Unsent
  <2>4. CASE row.notified = 1 /\ st = 2
    BY <1>3, <1>6, <2>4 DEF Unsent
  <2> QED
    BY <1>1, <2>1, <2>2, <2>3, <2>4
<1> QED
  BY <1>2, <1>5, <1>7 DEF d, st

-----------------------------------------------------------------------------
\* The SELECT was of the present row: what _evaluate hands out is unsent.
LEMMA EvaluateFaithful ==
    ASSUME OneThread, ContractInv, NEW w \in Workers, Evaluate(w)
    PROVE  Faithful
<1> DEFINE r == req[w]
           row == r.row
           stage == StageAt(row, now)
           staged == [r EXCEPT !.pc = "persist", !.row = Staged(row, stage),
                               !.events = StageEvents(row, stage)]
<1>1. /\ r \in Request /\ row \in Row /\ r.sid \in SessionIds /\ row = sessions[r.sid]
      /\ now \in Nat /\ sessions' = sessions /\ notices' = notices /\ r.events = <<>>
      /\ Coherent(row) /\ Reached(row, now) /\ Told(row, notices[r.sid])
  BY DEF Evaluate, ContractInv, SerialInv, Inv, TablesTyped, Fresh, Request, Carries
<1>2. CASE row.status \notin Live \/ stage = row.stage
  <2>1. PICK q : q = Answered(r)
    OBVIOUS
  <2>2. req' = [req EXCEPT ![w] = q]
    BY <1>2, <2>1 DEF Evaluate
  <2>3. Carries(q, sessions, notices)
    BY <1>1, <2>1, AnsweredCarries
  <2> QED
    BY <1>1, <2>2, <2>3, QuietStep
<1>3. CASE row.status \in Live /\ stage # row.stage
  <2>1. /\ row.notified <= stage /\ row.notified = row.stage
        /\ Unsent(StageEvents(row, stage), Deadline(row), stage, notices[r.sid])
    BY <1>1, <1>3, StagesUnsent DEF Coherent
  <2>2. PICK q : q = staged
    OBVIOUS
  <2>3. /\ q.pc = "persist" /\ q.sid = r.sid /\ q.row = Staged(row, stage)
        /\ q.events = StageEvents(row, stage)
    BY <1>1, <2>2 DEF Request
  <2>4. /\ q.row.status \in Live /\ q.row.deviated = row.deviated
        /\ q.row.notified = stage /\ Deadline(q.row) = Deadline(row)
    BY <1>1, <2>3 DEF Staged, Row, Live, Deadline
  <2>5. req' = [req EXCEPT ![w] = q]
    BY <1>3, <2>2 DEF Evaluate
  <2> HIDE DEF stage
  <2>6. Carries(q, sessions, notices)
    BY <1>1, <2>1, <2>3, <2>4 DEF Carries
  <2> QED
    BY <1>1, <2>5, <2>6, QuietStep
<1> QED
  BY <1>2, <1>3

\* The UPDATE moves the watermark over the events before they are recorded.
LEMMA PersistFaithful ==
    ASSUME OneThread, ContractInv, NEW w \in Workers, Persist(w)
    PROVE  Faithful
<1> DEFINE r == req[w]
           s == r.sid
           old == sessions[s]
           new == [old EXCEPT !.status = r.row.status, !.stage = r.row.stage,
                              !.notified = r.row.notified]
<1>1. /\ r \in Request /\ r.row \in Row /\ s \in SessionIds /\ old \in Row
      /\ old.status \in Live /\ r.row.status \in Live /\ Deadline(r.row) = Deadline(old)
      /\ notices' = notices /\ sessions \in [SessionIds -> Row] /\ Told(old, notices[s])
      /\ r.row.deviated = old.deviated /\ old.notified <= r.row.notified
      /\ Unsent(r.events, Deadline(r.row), r.row.notified, notices[s])
  BY DEF Persist, ContractInv, SerialInv, Inv, TablesTyped, Fresh, Request, Carries
<1>2. sessions' = [sessions EXCEPT ![s] = new] /\ req' = [req EXCEPT ![w] = Answered(r)]
  BY DEF Persist
<1>3. /\ new.notified = r.row.notified /\ new.status = r.row.status /\ new.client = old.client
      /\ new.deviated = old.deviated /\ new.grace = old.grace /\ Deadline(new) = Deadline(old)
      /\ new \in Row
  BY <1>1 DEF Row, Deadline
<1> HIDE DEF new
<1>4. Told(new, notices[s])
  BY <1>1, <1>3 DEF Told, Live, Row
<1>5. UNCHANGED Contract!contractVars
  <2>1. \A t \in SessionIds : /\ sessions'[t].client = sessions[t].client
                              /\ PhaseOf(sessions'[t]) = PhaseOf(sessions[t])
    BY <1>1, <1>2, <1>3 DEF PhaseOf, Live
  <2> QED
    BY <1>1, <1>2, <1>3, <2>1, Unseen DEF ContractInv, SerialInv
<1>6. PICK q : q = Answered(r)
  OBVIOUS
<1>7. Carries(q, sessions', notices)
  <2>1. sessions'[s] = new
    BY <1>1, <1>2
  <2>2. Sendable(r.events, new, notices[s])
    BY <1>1, <1>3 DEF Sendable
  <2> QED
    BY <1>1, <1>3, <1>6, <2>1, <2>2, AnsweredCarries
<1> QED
  BY <1>1, <1>2, <1>4, <1>5, <1>6, <1>7, WriteStep

\* A new journey is the only open one of its client, and its log is empty.
LEMMA InsertFaithful ==
    ASSUME OneThread, PositiveGraces, ContractInv, NEW w \in Workers, Insert(w)
    PROVE  Faithful
<1> PICK s \in Free, g \in Graces, e \in Arrivals, p \in Geometries :
      LET row == [BlankRow EXCEPT !.client = req[w].row.client, !.status = "ACTIVE",
                                  !.started = now, !.grace = g, !.expected = e, !.planned = p]
      IN  /\ sessions' = [sessions EXCEPT ![s] = row]
          /\ req' = [req EXCEPT ![w] =
                       [@ EXCEPT !.pc = "emit", !.sid = s, !.row = row,
                                 !.events = <<Note("guardian_started", Deadline(row))>>]]
  BY DEF Insert
<1> DEFINE row == [BlankRow EXCEPT !.client = req[w].row.client, !.status = "ACTIVE",
                                   !.started = now, !.grace = g, !.expected = e, !.planned = p]
           q == [req[w] EXCEPT !.pc = "emit", !.sid = s, !.row = row,
                               !.events = <<Note("guardian_started", Deadline(row))>>]
<1>1. /\ s \in SessionIds /\ sessions[s].status = "FREE" /\ sessions \in [SessionIds -> Row]
      /\ notices' = notices /\ req[w] \in Request /\ Inv /\ notices[s] = <<>>
      /\ \A t \in SessionIds :
             ~(sessions[t].client = req[w].row.client /\ sessions[t].status \in Live)
  BY DEF Insert, Free, ContractInv, SerialInv, Inv, TablesTyped, Fresh, Told
<1>2. sessions' = [sessions EXCEPT ![s] = row] /\ req' = [req EXCEPT ![w] = q]
  OBVIOUS
<1>3. row.status = "ACTIVE" /\ row.client = req[w].row.client /\ row.grace = g /\ g > 0
  BY DEF BlankRow, PositiveGraces
<1>4. row \in Row
  <2>1. Inv'
    <3>1. Next
      BY DEF Next, Step
    <3> QED
      BY <1>1, <3>1, NextInv
  <2> QED
    BY <1>1, <1>2, <2>1 DEF Inv, TablesTyped
<1>5. q.pc = "emit" /\ q.sid = s /\ q.events = <<Note("guardian_started", Deadline(row))>>
  BY <1>1 DEF Request
<1> HIDE DEF row, q
<1>6. Contract!Next
  <2>1. \A t \in SessionIds : ~(sessions[t].client = row.client /\ sessions[t].status \in Live)
    BY <1>1, <1>3
  <2> QED
    BY <1>1, <1>2, <1>3, <1>4, <2>1, Opens
<1>7. Told(row, notices[s])
  BY <1>1, <1>3 DEF Told, Closed, Holds
<1>8. Carries(q, sessions', notices)
  BY <1>1, <1>2, <1>3, <1>4, <1>5, DeadlineIsNat DEF Carries, Sendable, Live
<1> QED
  BY <1>1, <1>2, <1>6, <1>7, <1>8, WriteStep

\* The first deviation of a journey is announced, and only the first.
LEMMA WriteLocationFaithful ==
    ASSUME OneThread, ContractInv, NEW w \in Workers, WriteLocation(w)
    PROVE  Faithful
<1> DEFINE r == req[w]
           s == r.sid
           old == sessions[s]
           sent == [r EXCEPT !.pc = "emit", !.events = <<Deviated>>]
<1>1. /\ r \in Request /\ r.row \in Row /\ s \in SessionIds /\ old \in Row
      /\ notices' = notices /\ sessions \in [SessionIds -> Row] /\ Told(old, notices[s])
      /\ r.row.deviated = old.deviated /\ old.deviated \in BOOLEAN
  BY DEF WriteLocation, ContractInv, SerialInv, Inv, TablesTyped, Request, Carries, Row
<1>2. PICK off \in BOOLEAN :
        LET detected == r.row.deviated \/ (off /\ r.row.planned)
        IN  IF old.status \notin Live
            THEN /\ req' = [req EXCEPT ![w] = Idle]
                 /\ UNCHANGED sessions
            ELSE /\ sessions' = [sessions EXCEPT ![s].deviated = detected]
                 /\ req' = [req EXCEPT ![w] = IF detected /\ ~r.row.deviated THEN sent ELSE Idle]
  BY DEF WriteLocation, Deviated
<1>3. CASE old.status \notin Live
  BY <1>1, <1>2, <1>3, IdleCarries, QuietStep
<1>4. CASE old.status \in Live
  <2> DEFINE detected == r.row.deviated \/ (off /\ r.row.planned)
             new == [old EXCEPT !.deviated = detected]
  <2>1. PICK q : q = IF detected /\ ~r.row.deviated THEN sent ELSE Idle
    OBVIOUS
  <2>2. sessions' = [sessions EXCEPT ![s] = new] /\ req' = [req EXCEPT ![w] = q]
    BY <1>1, <1>2, <1>4, <2>1
  <2>3. detected \in BOOLEAN /\ (old.deviated => detected)
    BY <1>1 DEF Row
  <2>4. /\ new \in Row /\ new.deviated = detected /\ new.status = old.status
        /\ new.notified = old.notified /\ new.client = old.client /\ new.grace = old.grace
        /\ Deadline(new) = Deadline(old)
    <3> HIDE DEF detected
    <3> QED
      BY <1>1, <2>3 DEF Row, Deadline
  <2>5. Told(new, notices[s])
    <3> HIDE DEF detected, new
    <3> QED
      BY <1>1, <2>3, <2>4 DEF Told
  <2>6. UNCHANGED Contract!contractVars
    <3> HIDE DEF detected, new
    <3>1. \A t \in SessionIds : /\ sessions'[t].client = sessions[t].client
                                /\ PhaseOf(sessions'[t]) = PhaseOf(sessions[t])
      BY <1>1, <2>2, <2>4 DEF PhaseOf
    <3> QED
      BY <1>1, <2>2, <2>4, <3>1, Unseen DEF ContractInv, SerialInv
  <2>7. Carries(q, sessions', notices)
    <3>1. sessions'[s] = new
      BY <1>1, <2>2
    <3>2. CASE detected /\ ~r.row.deviated
      <4>1. q.pc = "emit" /\ q.sid = s /\ q.events = <<Deviated>>
        BY <1>1, <2>1, <3>2 DEF Request
      <4>2. ~Holds(notices[s], Deviated)
        BY <1>1, <3>2 DEF Told
      <4> HIDE DEF detected, new
      <4> QED
        BY <1>1, <1>4, <2>4, <3>1, <3>2, <4>1, <4>2 DEF Carries, Sendable
    <3>3. CASE ~(detected /\ ~r.row.deviated)
      BY <2>1, <3>3, IdleCarries
    <3> QED
      BY <3>2, <3>3
  <2> HIDE DEF new
  <2> QED
    BY <1>1, <2>2, <2>5, <2>6, <2>7, WriteStep
<1> QED
  BY <1>3, <1>4

-----------------------------------------------------------------------------
\* What a log holds with one notice more.
LEMMA AppendHolds ==
    ASSUME NEW log \in Seq(Notice), NEW n \in Notice
    PROVE  /\ \A x : Holds(Append(log, n), x) <=> Holds(log, x) \/ x = n
           /\ Closed(Append(log, n)) <=> Closed(log) \/ n.type \in LastWords
<1>1. /\ Len(log) \in Nat /\ Len(Append(log, n)) = Len(log) + 1
      /\ Append(log, n)[Len(log) + 1] = n
      /\ \A i \in 1..Len(log) : Append(log, n)[i] = log[i]
  BY LenProperties, AppendProperties
<1>2. ASSUME NEW x PROVE Holds(Append(log, n), x) <=> Holds(log, x) \/ x = n
  BY <1>1 DEF Holds
<1>3. Closed(Append(log, n)) <=> Closed(log) \/ n.type \in LastWords
  BY <1>1 DEF Closed
<1> QED
  BY <1>2, <1>3

\* A notice that the row answers for may be recorded.
LEMMA ToldMore ==
    ASSUME NEW row, NEW log \in Seq(Notice), NEW n \in Notice, Told(row, log),
           row.status # "FREE",
           row.status \in Live => /\ n.type \notin LastWords
                                  /\ n = Missed(Deadline(row)) => row.notified >= 1
                                  /\ n = Escalated(Deadline(row)) => row.notified = 2,
           n = Deviated => row.deviated
    PROVE  Told(row, Append(log, n))
<1> DEFINE more == Append(log, n)
<1>1. /\ \A x : Holds(more, x) <=> Holds(log, x) \/ x = n
      /\ Closed(more) <=> Closed(log) \/ n.type \in LastWords
  BY AppendHolds
<1> HIDE DEF more
<1>2. row.status \in Live => /\ ~Closed(more)
                             /\ Holds(more, Missed(Deadline(row))) => row.notified >= 1
                             /\ Holds(more, Escalated(Deadline(row))) => row.notified = 2
  <2>1. /\ Holds(more, Missed(Deadline(row))) <=>
             Holds(log, Missed(Deadline(row))) \/ Missed(Deadline(row)) = n
        /\ Holds(more, Escalated(Deadline(row))) <=>
             Holds(log, Escalated(Deadline(row))) \/ Escalated(Deadline(row)) = n
    BY <1>1
  <2> QED
    BY <1>1, <2>1 DEF Told
<1>3. Holds(more, Deviated) => row.deviated
  BY <1>1 DEF Told
<1>4. row.grace > 0
  BY DEF Told
<1>5. Told(row, more)
  BY <1>2, <1>3, <1>4 DEF Told
<1> QED
  BY <1>5 DEF more

\* Recording the event n and going on with q is a step of the contract.
LEMMA EmitStep ==
    ASSUME OneThread, ContractInv, NEW w \in Workers, NEW q, req' = [req EXCEPT ![w] = q],
           NEW s \in SessionIds, NEW n \in Notice, sessions' = sessions,
           notices' = [notices EXCEPT ![s] = Append(@, n)],
           Told(sessions[s], notices'[s]), Carries(q, sessions, notices'),
           Contract!Next
    PROVE  Faithful
<1>1. Inv /\ notices \in [SessionIds -> Seq(Notice)]
  BY DEF ContractInv, SerialInv, Inv, TablesTyped
<1>2. \A v \in Workers : Carries(req'[v], sessions', notices')
  BY <1>1, OnlyCarrier
<1>3. \A t \in SessionIds : Told(sessions'[t], notices'[t])
  BY <1>1 DEF ContractInv
<1> QED
  BY <1>2, <1>3 DEF Faithful

\* Whatever a handler records next, the contract lets it.
LEMMA EmitFaithful ==
    ASSUME OneThread, ContractInv, NEW w \in Workers, Emit(w)
    PROVE  Faithful
<1> DEFINE r == req[w]
           s == r.sid
           row == sessions[s]
           log == notices[s]
           n == Head(r.events)
           d == Deadline(row)
<1>1. /\ r \in Request /\ r.pc = "emit" /\ s \in SessionIds /\ row \in Row /\ Inv
      /\ log \in Seq(Notice) /\ notices \in [SessionIds -> Seq(Notice)] /\ Told(row, log)
      /\ r.events # <<>> /\ Sendable(r.events, row, log) /\ sessions' = sessions
  BY DEF Emit, ContractInv, SerialInv, Inv, TablesTyped, Sound, Carries
<1>2. PICK q : q = IF Tail(r.events) # <<>> THEN [r EXCEPT !.events = Tail(@)]
                   ELSE IF AutoSos /\ n.type = "checkin_escalated"
                        THEN [r EXCEPT !.pc = "checksos", !.events = <<>>]
                        ELSE Idle
  OBVIOUS
<1>3. /\ req' = [req EXCEPT ![w] = q]
      /\ notices' = [notices EXCEPT ![s] = Append(@, n)] /\ notices'[s] = Append(log, n)
  BY <1>1, <1>2 DEF Emit
\* The last event of a handler: what it does next records nothing.
<1>4. ASSUME Tail(r.events) = <<>> PROVE Carries(q, sessions, notices')
  <2>1. q.pc \in {"checksos", "idle"}
    BY <1>1, <1>2, <1>4 DEF Request, Idle
  <2> QED
    BY <2>1 DEF Carries
<1>5. d \in Nat /\ Missed(d) \in Notice /\ Escalated(d) \in Notice /\ Missed(d) # Escalated(d)
  <2>1. d \in Nat
    BY <1>1, DeadlineIsNat
  <2> HIDE DEF d
  <2> QED
    BY <2>1 DEF Missed, Escalated, Note, Notice, NoticeTypes, Times
<1>6. /\ Deviated \in Notice /\ Deviated # Missed(d) /\ Deviated # Escalated(d)
      /\ Missed(d).type \notin LastWords /\ Escalated(d).type \notin LastWords
      /\ Deviated.type \notin LastWords /\ Deviated.type = "route_changed"
      /\ Missed(d).deadline = d /\ Missed(d).type = "checkin_missed"
      /\ Escalated(d).type = "checkin_escalated"
  BY DEF Deviated, Missed, Escalated, Note, Notice, NoticeTypes, Times, NoTime, LastWords
<1>7. "FREE" \notin Live /\ "FREE" \notin Over /\ Live \cap Over = {}
  BY DEF Live, Over
<1> HIDE DEF d
<1>8. CASE row.status \in Live /\ Unsent(r.events, d, row.notified, log)
  <2>1. CASE r.events = <<Missed(d)>>
    <3>1. /\ n = Missed(d) /\ Tail(r.events) = <<>>
          /\ row.notified >= 1 /\ ~Holds(log, Missed(d)) /\ ~Holds(log, Escalated(d))
      BY <1>5, <1>8, <2>1 DEF Unsent
    <3> HIDE DEF n
    <3>2. Contract!Next
      BY <1>1, <1>3, <1>5, <1>6, <1>8, <3>1, Notifies
    <3>3. Told(row, notices'[s])
      BY <1>1, <1>3, <1>5, <1>6, <1>7, <1>8, <3>1, ToldMore DEF d
    <3> QED
      BY <1>1, <1>3, <1>4, <1>5, <3>1, <3>2, <3>3, EmitStep
  <2>2. CASE r.events = <<Escalated(d)>>
    <3>1. /\ n = Escalated(d) /\ Tail(r.events) = <<>>
          /\ row.notified = 2 /\ ~Holds(log, Escalated(d))
      BY <1>5, <1>8, <2>2 DEF Unsent
    <3> HIDE DEF n
    <3>2. Contract!Next
      BY <1>1, <1>3, <1>5, <1>6, <1>8, <3>1, Notifies
    <3>3. Told(row, notices'[s])
      BY <1>1, <1>3, <1>5, <1>6, <1>7, <1>8, <3>1, ToldMore DEF d
    <3> QED
      BY <1>1, <1>3, <1>4, <1>5, <3>1, <3>2, <3>3, EmitStep
  <2>3. CASE r.events = <<Missed(d), Escalated(d)>>
    <3>1. /\ n = Missed(d) /\ Tail(r.events) = <<Escalated(d)>>
          /\ row.notified = 2 /\ ~Holds(log, Missed(d)) /\ ~Holds(log, Escalated(d))
      BY <1>5, <1>8, <2>3 DEF Unsent
    <3> HIDE DEF n
    <3>2. Contract!Next
      BY <1>1, <1>3, <1>5, <1>6, <1>8, <3>1, Notifies
    <3>3. Told(row, notices'[s])
      BY SMTT(30), <1>1, <1>3, <1>5, <1>6, <1>7, <1>8, <3>1, ToldMore DEF d
    <3>4. q.pc = "emit" /\ q.sid = s /\ q.events = <<Escalated(d)>>
      <4>1. PICK rest : rest = <<Escalated(d)>>
        OBVIOUS
      <4>2. rest # <<>> /\ Tail(r.events) = rest
        BY <3>1, <4>1
      <4>3. q = [r EXCEPT !.events = rest]
        BY <1>2, <4>2
      <4> QED
        BY <1>1, <4>1, <4>3 DEF Request
    <3>5. ~Holds(notices'[s], Escalated(d))
      BY <1>1, <1>3, <1>5, <3>1, AppendHolds
    <3>6. Carries(q, sessions, notices')
      BY <1>1, <1>8, <3>1, <3>4, <3>5 DEF Carries, Sendable, Unsent, d
    <3> QED
      BY <1>1, <1>3, <1>5, <3>1, <3>2, <3>3, <3>6, EmitStep
  <2> QED
    BY <1>1, <1>8, <2>1, <2>2, <2>3 DEF Unsent
<1>9. CASE /\ row.status \in Live /\ log = <<>>
           /\ \E e \in Nat : r.events = <<Note("guardian_started", e)>>
  <2>1. PICK e \in Nat : r.events = <<Note("guardian_started", e)>>
    BY <1>9
  <2>2. /\ n = Note("guardian_started", e) /\ Tail(r.events) = <<>> /\ n \in Notice
        /\ n.type = "guardian_started"
    BY <2>1 DEF Note, Notice, NoticeTypes, Times
  <2> HIDE DEF n
  <2>3. n.type \notin LastWords /\ n # Missed(d) /\ n # Escalated(d) /\ n # Deviated
    BY <1>6, <2>2 DEF LastWords
  <2>4. Contract!Next
    <3>1. ~Holds(log, n) /\ n.type # "checkin_missed"
      BY <1>9, <2>2 DEF Holds
    <3> QED
      BY <1>1, <1>3, <1>9, <2>2, <2>3, <3>1, Notifies
  <2>5. Told(row, notices'[s])
    BY <1>1, <1>3, <1>7, <1>9, <2>2, <2>3, ToldMore DEF d
  <2> QED
    BY <1>1, <1>3, <1>4, <2>2, <2>4, <2>5, EmitStep
<1>10. CASE row.status \in Live /\ row.deviated /\ r.events = <<Deviated>> /\ ~Holds(log, Deviated)
  <2>1. n = Deviated /\ Tail(r.events) = <<>>
    BY <1>6, <1>10
  <2> HIDE DEF n
  <2>2. Contract!Next
    BY <1>1, <1>3, <1>6, <1>10, <2>1, Notifies
  <2>3. Told(row, notices'[s])
    BY <1>1, <1>3, <1>6, <1>7, <1>10, <2>1, ToldMore DEF d
  <2> QED
    BY <1>1, <1>3, <1>4, <1>6, <2>1, <2>2, <2>3, EmitStep
<1>11. CASE /\ row.status \in Over /\ ~Closed(log)
            /\ \E m \in Notice : r.events = <<m>> /\ m.type \in LastWords
  <2>1. n \in Notice /\ n.type \in LastWords /\ Tail(r.events) = <<>>
    BY <1>11
  <2> HIDE DEF n
  <2>2. Contract!Next
    BY <1>1, <1>3, <1>11, <2>1, Concludes
  <2>3. Told(row, notices'[s])
    BY <1>1, <1>3, <1>6, <1>7, <1>11, <2>1, ToldMore
  <2> QED
    BY <1>1, <1>3, <1>4, <2>1, <2>2, <2>3, EmitStep
<1> QED
  BY <1>1, <1>8, <1>9, <1>10, <1>11 DEF Sendable, d

\* The auto-SOS steps touch no journey.
LEMMA SosFaithful ==
    ASSUME OneThread, ContractInv, NEW w \in Workers, CheckSos(w) \/ StartSos(w) \/ RecordSos(w)
    PROVE  Faithful
<1>1. /\ req[w] \in Request /\ sessions' = sessions /\ notices' = notices
      /\ req = [v \in Workers |-> req[v]]
  BY DEF CheckSos, StartSos, RecordSos, ContractInv, SerialInv, Inv
<1>2. PICK q : req' = [req EXCEPT ![w] = q] /\ q.pc \in {"idle", "startsos", "recordsos"}
  <2>1. PICK a, b : a = [req[w] EXCEPT !.pc = "startsos"] /\ b = [req[w] EXCEPT !.pc = "recordsos"]
    OBVIOUS
  <2>2. a.pc = "startsos" /\ b.pc = "recordsos" /\ Idle.pc = "idle"
    BY <1>1, <2>1 DEF Request, Idle
  <2>3. \/ req' = [req EXCEPT ![w] = a] \/ req' = [req EXCEPT ![w] = b]
        \/ req' = [req EXCEPT ![w] = Idle]
    BY <1>1, <2>1 DEF CheckSos, StartSos, RecordSos
  <2> QED
    BY <2>2, <2>3
<1>3. Carries(q, sessions, notices)
  BY <1>2 DEF Carries
<1> QED
  BY <1>1, <1>2, <1>3, QuietStep

-----------------------------------------------------------------------------
LEMMA ReadingFaithful ==
    ASSUME OneThread, ContractInv, NEW w \in Workers, NEW s \in SessionIds, NEW op,
           Reading(w, op, s), UNCHANGED <<sessions, notices>>
    PROVE  Faithful
<1> DEFINE q == [pc |-> "evaluate", op |-> op, sid |-> s, row |-> sessions[s], events |-> <<>>]
<1>1. req' = [req EXCEPT ![w] = q]
  BY DEF Reading
<1>2. Carries(q, sessions, notices)
  BY DEF Carries
<1> HIDE DEF q
<1> QED
  BY <1>1, <1>2, QuietStep

LEMMA SelectNoneFaithful ==
    ASSUME OneThread, ContractInv, NEW w \in Workers, NEW c \in Clients, SelectNone(w, c)
    PROVE  Faithful
<1> DEFINE q == [pc |-> "insert", op |-> "create", sid |-> NoOne,
                 row |-> [BlankRow EXCEPT !.client = c], events |-> <<>>]
<1>1. req' = [req EXCEPT ![w] = q] /\ sessions' = sessions /\ notices' = notices
  BY DEF SelectNone
<1>2. Carries(q, sessions, notices)
  BY DEF Carries
<1> HIDE DEF q
<1> QED
  BY <1>1, <1>2, QuietStep

\* The check-in moves the deadline past everything the log holds.
LEMMA CheckinFaithful ==
    ASSUME OneThread, ContractInv, NEW w \in Workers, NEW s \in SessionIds, Checkin(w, s)
    PROVE  Faithful
<1> DEFINE old == sessions[s]
           log == notices[s]
           new == [old EXCEPT !.checkin = now, !.expected = NoTime, !.status = "ACTIVE",
                              !.stage = 0, !.notified = 0]
<1>1. /\ old \in Row /\ sessions \in [SessionIds -> Row] /\ now \in Nat /\ old.status \in Live
      /\ log \in Seq(Notice) /\ AllDue(log, now) /\ Told(old, log) /\ notices' = notices
      /\ req' = req /\ req[w] = Idle /\ req \in [Workers -> Request]
      /\ sessions' = [sessions EXCEPT ![s] = new]
  BY DEF Checkin, ContractInv, SerialInv, Inv, TablesTyped
<1>2. /\ new.status = "ACTIVE" /\ new.notified = 0 /\ new.client = old.client
      /\ new.deviated = old.deviated /\ new.grace = old.grace /\ new.expected = NoTime
      /\ new.checkin = now /\ new \in Row
  <2>1. now \in Times /\ NoTime \in Times /\ "ACTIVE" \in Statuses /\ 0 \in 0..2
    BY <1>1 DEF Times, Statuses
  <2> QED
    BY <1>1, <2>1 DEF Row
<1> HIDE DEF new
<1>3. Deadline(new) = old.grace + now /\ Deadline(new) \in Nat /\ Deadline(new) > now
  <2>1. old.grace \in Nat /\ old.grace > 0
    BY <1>1 DEF Row, Told, Live
  <2> QED
    BY <1>1, <1>2, <2>1 DEF Deadline, NoTime
<1>4. ASSUME NEW n, Holds(log, n), IsStage(n) PROVE n.deadline <= now
  <2>1. PICK i \in 1..Len(log) : log[i] = n
    BY <1>4 DEF Holds
  <2>2. DueAt(n) <= now /\ n \in Notice
    BY <1>1, <1>4, <2>1, ElementOfSeq DEF AllDue
  <2>3. n.deadline \in Int
    BY <2>2 DEF Notice, Times, NoTime
  <2> QED
    BY <1>1, <2>2, <2>3, TimesAssumption DEF DueAt
<1>5. ~Holds(log, Missed(Deadline(new))) /\ ~Holds(log, Escalated(Deadline(new)))
  <2> DEFINE d == Deadline(new)
  <2>1. /\ Missed(d).deadline = d /\ IsStage(Missed(d))
        /\ Escalated(d).deadline = d /\ IsStage(Escalated(d))
    BY DEF Missed, Escalated, Note, IsStage
  <2>2. d > now /\ d \in Nat
    BY <1>3
  <2> HIDE DEF d
  <2>3. ~Holds(log, Missed(d)) /\ ~Holds(log, Escalated(d))
    BY <1>1, <1>4, <2>1, <2>2
  <2> QED
    BY <2>3 DEF d
<1>6. Told(new, log)
  BY <1>1, <1>2, <1>5 DEF Told, Live
<1>7. UNCHANGED Contract!contractVars
  <2>1. \A t \in SessionIds : /\ sessions'[t].client = sessions[t].client
                              /\ PhaseOf(sessions'[t]) = PhaseOf(sessions[t])
    BY <1>1, <1>2 DEF PhaseOf, Live
  <2> QED
    BY <1>1, <1>2, <2>1, Unseen DEF ContractInv, SerialInv
<1>8. req' = [req EXCEPT ![w] = Idle]
  BY <1>1
<1> QED
  BY <1>1, <1>6, <1>7, <1>8, IdleCarries, WriteStep

\* The end closes the journey and carries its last word.
LEMMA EndFaithful ==
    ASSUME OneThread, ContractInv, NEW w \in Workers, NEW s \in SessionIds,
           NEW reason \in {"arrived", "cancelled"}, End(w, s, reason)
    PROVE  Faithful
<1> DEFINE old == sessions[s]
           n == Note(IF reason = "arrived" THEN "journey_completed" ELSE "guardian_ended", NoTime)
           new == [old EXCEPT !.status = IF reason = "arrived" THEN "COMPLETED" ELSE "CANCELLED"]
           q == [pc |-> "emit", op |-> "end", sid |-> s, row |-> new, events |-> <<n>>]
<1>1. /\ old \in Row /\ sessions \in [SessionIds -> Row] /\ old.status \in Live /\ Inv
      /\ Told(old, notices[s]) /\ notices' = notices
  BY DEF End, ContractInv, SerialInv, Inv, TablesTyped
<1>2. sessions' = [sessions EXCEPT ![s] = new] /\ sessions'[s] = new
  BY <1>1 DEF End
<1>3. req' = [req EXCEPT ![w] = q]
  BY <1>2 DEF End
<1>4. /\ new.status \in Over /\ new.client = old.client /\ new.grace = old.grace
      /\ new.deviated = old.deviated /\ new \in Row
  BY <1>1 DEF Row, Statuses, Over
<1>5. n \in Notice /\ n.type \in LastWords
  BY DEF Note, Notice, NoticeTypes, Times, LastWords
<1> HIDE DEF new, n
<1>6. q.pc = "emit" /\ q.sid = s /\ q.events = <<n>>
  OBVIOUS
<1> HIDE DEF q
<1>7. Contract!Next
  BY <1>1, <1>2, <1>4, Closes
<1>8. Told(new, notices[s])
  BY <1>1, <1>4 DEF Told, Live, Over
<1>9. Carries(q, sessions', notices)
  <2>1. ~Closed(notices[s])
    BY <1>1 DEF Told
  <2> QED
    BY <1>2, <1>4, <1>5, <1>6, <2>1 DEF Carries, Sendable
<1> QED
  BY <1>1, <1>2, <1>3, <1>7, <1>8, <1>9, WriteStep

LEMMA ArriveFaithful ==
    ASSUME OneThread, ContractInv, NEW w \in Workers, Arrive(w)
    PROVE  Faithful
<1>1. ASSUME NEW c \in Clients, NEW op \in {"create", "active", "dashboard"}, SelectNewest(w, c, op)
      PROVE  Faithful
  BY <1>1, ReadingFaithful DEF SelectNewest, Newest, LiveOf
<1>2. ASSUME NEW s \in SessionIds, NEW op \in {"get", "location"}, SelectById(w, s, op)
      PROVE  Faithful
  BY <1>2, ReadingFaithful DEF SelectById
<1> QED
  BY <1>1, <1>2, SelectNoneFaithful, CheckinFaithful, EndFaithful DEF Arrive

\* Time, the owner's own SOS and a crash write no journey and no notice.
LEMMA RestFaithful ==
    ASSUME ContractInv, sessions' = sessions, notices' = notices,
           \A w \in Workers : req'[w] = req[w] \/ req'[w] = Idle
    PROVE  Faithful
<1>1. Inv /\ sessions \in [SessionIds -> Row]
  BY DEF ContractInv, SerialInv, Inv, TablesTyped
<1>2. UNCHANGED Contract!contractVars
  BY <1>1, Unseen
<1> QED
  BY <1>2, IdleCarries DEF Faithful, ContractInv

LEMMA FaithfulStep ==
    ASSUME OneThread, PositiveGraces, ContractInv, [Next]_vars
    PROVE  ContractInv' /\ [Contract!Next]_(Contract!contractVars)
<1>1. Faithful
  <2>1. ASSUME NEW w \in Workers, Step(w) PROVE Faithful
    BY <2>1, EvaluateFaithful, PersistFaithful, InsertFaithful, WriteLocationFaithful, EmitFaithful,
       SosFaithful DEF Step
  <2>2. CASE Tick \/ (\E c \in Clients : OwnerStartsSos(c) \/ OwnerEndsSos(c)) \/ UNCHANGED vars
    <3>1. sessions' = sessions /\ notices' = notices /\ req' = req
      BY <2>2 DEF Tick, OwnerStartsSos, OwnerEndsSos, vars
    <3> QED
      BY <3>1, RestFaithful
  <2>3. CASE Crash
    BY <2>3, RestFaithful DEF Crash
  <2> QED
    BY <2>1, <2>2, <2>3, ArriveFaithful DEF Next
<1>2. SerialInv'
  BY SerialStep DEF ContractInv
<1> QED
  BY <1>1, <1>2 DEF Faithful, ContractInv

LEMMA ContractStarts == Init => ContractInv /\ Contract!Init
<1> SUFFICES ASSUME Init PROVE ContractInv /\ Contract!Init
  OBVIOUS
<1>1. SerialInv
  BY InitInv DEF Init, SerialInv, Fresh, Idle, Reached, BlankRow, OneLivePerClient, Live
<1>2. \A s \in SessionIds : Told(sessions[s], notices[s])
  BY DEF Init, Told, BlankRow, Live, Holds
<1>3. \A w \in Workers : Carries(req[w], sessions, notices)
  BY IdleCarries DEF Init
<1>4. Contract!Init
  BY DEF Init, Contract!Init, PhaseOf, BlankRow
<1> QED
  BY <1>1, <1>2, <1>3, <1>4 DEF ContractInv

\* One request at a time, and a positive grace: journeys and their notices, with
\* every crash, check-in and late evaluation, behave as the contract says.
THEOREM ContractKept == ASSUME OneThread, PositiveGraces PROVE Spec => KeepsContract
<1>1. Init => ContractInv /\ Contract!Init
  BY ContractStarts
<1>2. ContractInv /\ [Next]_vars => ContractInv' /\ [Contract!Next]_(Contract!contractVars)
  BY FaithfulStep
<1> QED
  BY <1>1, <1>2, PTL DEF Spec, KeepsContract, Contract!Spec

-----------------------------------------------------------------------------
(* What the contract's steps say of a journey's rows and of its notices.   *)

\* No step of the code, one request at a time, changes the status of a row that
\* is COMPLETED or CANCELLED: the write that would is always of a live row.
LEMMA OverStays ==
    ASSUME OneThread, SerialInv, [Next]_vars, NEW s \in SessionIds, sessions[s].status \in Over
    PROVE  sessions'[s].status = sessions[s].status
<1>1. /\ sessions \in [SessionIds -> Row] /\ sessions[s].status \notin Live
      /\ sessions[s].status # "FREE" /\ sessions[s] \in Row
  BY DEF SerialInv, Inv, TablesTyped, Over, Live
<1>2. CASE sessions' = sessions
  BY <1>2
<1>3. ASSUME NEW t \in SessionIds, NEW row, sessions' = [sessions EXCEPT ![t] = row],
             sessions[t].status = "FREE" \/ sessions[t].status \in Live
      PROVE  sessions'[s].status = sessions[s].status
  BY <1>1, <1>3
<1>4. ASSUME NEW w \in Workers, Persist(w)
      PROVE  sessions'[s].status = sessions[s].status
  <2>1. req[w].sid \in SessionIds /\ sessions[req[w].sid].status \in Live
    BY <1>4 DEF Persist, SerialInv, Fresh
  <2>2. PICK row : sessions' = [sessions EXCEPT ![req[w].sid] = row]
    BY <1>4 DEF Persist
  <2> QED
    BY <1>3, <2>1, <2>2
<1>5. ASSUME NEW w \in Workers, Insert(w)
      PROVE  sessions'[s].status = sessions[s].status
  <2>1. PICK t \in Free : \E row : sessions' = [sessions EXCEPT ![t] = row]
    BY <1>5 DEF Insert
  <2> QED
    BY <1>3, <2>1 DEF Free
<1>6. ASSUME NEW w \in Workers, WriteLocation(w)
      PROVE  sessions'[s].status = sessions[s].status
  <2>1. \/ sessions' = sessions
        \/ \E d : sessions' = [sessions EXCEPT ![req[w].sid].deviated = d]
    BY <1>6 DEF WriteLocation
  <2>2. ASSUME NEW d, sessions' = [sessions EXCEPT ![req[w].sid].deviated = d]
        PROVE  sessions'[s].status = sessions[s].status
    BY <1>1, <2>2 DEF Row
  <2> QED
    BY <1>2, <2>1, <2>2
<1>7. ASSUME NEW w \in Workers, NEW t \in SessionIds, Checkin(w, t)
      PROVE  sessions'[s].status = sessions[s].status
  <2>1. PICK row : sessions' = [sessions EXCEPT ![t] = row]
    BY <1>7 DEF Checkin
  <2> QED
    BY <1>3, <1>7, <2>1 DEF Checkin
<1>8. ASSUME NEW w \in Workers, NEW t \in SessionIds, NEW reason, End(w, t, reason)
      PROVE  sessions'[s].status = sessions[s].status
  <2>1. PICK row : sessions' = [sessions EXCEPT ![t] = row]
    BY <1>8 DEF End
  <2> QED
    BY <1>3, <1>8, <2>1 DEF End
<1>9. ASSUME NEW w \in Workers, Step(w) PROVE sessions'[s].status = sessions[s].status
  <2>1. CASE Evaluate(w) \/ Emit(w) \/ CheckSos(w) \/ StartSos(w) \/ RecordSos(w)
    BY <1>2, <2>1 DEF Evaluate, Emit, CheckSos, StartSos, RecordSos
  <2> QED
    BY <1>4, <1>5, <1>6, <1>9, <2>1 DEF Step
<1>10. ASSUME NEW w \in Workers, Arrive(w) PROVE sessions'[s].status = sessions[s].status
  <2>1. CASE \/ \E c \in Clients, op \in {"create", "active", "dashboard"} : SelectNewest(w, c, op)
             \/ \E c \in Clients : SelectNone(w, c)
             \/ \E t \in SessionIds, op \in {"get", "location"} : SelectById(w, t, op)
    BY <1>2, <2>1 DEF SelectNewest, SelectNone, SelectById
  <2> QED
    BY <1>7, <1>8, <1>10, <2>1 DEF Arrive
<1>11. CASE \/ Tick \/ \E c \in Clients : OwnerStartsSos(c) \/ OwnerEndsSos(c)
            \/ Crash \/ UNCHANGED vars
  BY <1>2, <1>11 DEF Tick, OwnerStartsSos, OwnerEndsSos, Crash, vars
<1> QED
  BY <1>9, <1>10, <1>11 DEF Next

\* One request at a time: a journey that was ended stays as it was ended
\* (docs/current-status.md:101), whatever evaluations and fixes follow.
THEOREM EndingIsFinal == ASSUME OneThread PROVE Spec => EndedStaysEnded
<1>1. SerialInv /\ [Next]_vars
        => [\A s \in SessionIds : sessions[s].status \in {"COMPLETED", "CANCELLED"}
                                    => sessions'[s].status = sessions[s].status]_vars
  BY OverStays DEF Over
<1> QED
  BY <1>1, SerialAlways, PTL DEF Spec, EndedStaysEnded

\* One request at a time, a positive grace: the log of a journey never holds a
\* stage notice twice (guardian.py:8-9).
THEOREM StagesOnlyOnce == ASSUME OneThread, PositiveGraces PROVE Spec => []AtMostOncePerStage
<1>1. Init => AtMostOncePerStage
  BY DEF Init, AtMostOncePerStage
<1>2. ASSUME AtMostOncePerStage, Inv, [Contract!Next]_(Contract!contractVars)
      PROVE  AtMostOncePerStage'
  <2>1. notices \in [SessionIds -> Seq(Notice)]
    BY <1>2 DEF Inv, TablesTyped
  <2>2. CASE notices' = notices
    BY <1>2, <2>2 DEF AtMostOncePerStage
  <2>3. ASSUME NEW j \in SessionIds, NEW n, notices' = [notices EXCEPT ![j] = Append(@, n)],
               ~IsStage(n) \/ ~Contract!Logged(j, n)
        PROVE  AtMostOncePerStage'
    <3> SUFFICES ASSUME NEW s \in SessionIds, NEW a \in 1..Len(notices'[s]), NEW b \in 1..Len(notices'[s]),
                        IsStage(notices'[s][a]), notices'[s][a] = notices'[s][b]
                 PROVE  a = b
      BY DEF AtMostOncePerStage
    <3>1. CASE s # j
      <4>1. notices'[s] = notices[s]
        BY <2>1, <2>3, <3>1
      <4> QED
        BY <1>2, <4>1 DEF AtMostOncePerStage
    <3>2. CASE s = j
      <4>1. PICK log : log = notices[s]
        OBVIOUS
      <4>2. log \in Seq(Notice) /\ notices'[s] = Append(log, n)
        BY <2>1, <2>3, <3>2, <4>1
      <4>3. /\ Len(notices'[s]) = Len(log) + 1 /\ Len(log) \in Nat
            /\ notices'[s][Len(log) + 1] = n
            /\ \A i \in 1..Len(log) : notices'[s][i] = log[i]
        BY <4>2
      <4>4. \A i, k \in 1..Len(log) : (IsStage(log[i]) /\ log[i] = log[k]) => i = k
        BY <1>2, <4>1 DEF AtMostOncePerStage
      <4>5. ~IsStage(n) \/ \A i \in 1..Len(log) : log[i] # n
        BY <2>3, <3>2, <4>1 DEF Contract!Logged
      <4> QED
        BY <4>3, <4>4, <4>5
    <3> QED
      BY <3>1, <3>2
  <2>4. ASSUME NEW j \in SessionIds, Contract!Notify(j) PROVE AtMostOncePerStage'
    BY <2>3, <2>4 DEF Contract!Notify, Contract!Logs
  <2>5. ASSUME NEW j \in SessionIds, Contract!Conclude(j) PROVE AtMostOncePerStage'
    <3>1. \E n : n.type \in Contract!LastWord /\ notices' = [notices EXCEPT ![j] = Append(@, n)]
      BY <2>5 DEF Contract!Conclude, Contract!Logs
    <3> QED
      BY <2>3, <3>1 DEF Contract!LastWord, IsStage
  <2>6. ASSUME NEW j \in SessionIds, Contract!Open(j) \/ Contract!Close(j) PROVE notices' = notices
    BY <2>6 DEF Contract!Open, Contract!Close
  <2> QED
    BY <1>2, <2>2, <2>4, <2>5, <2>6 DEF Contract!Next, Contract!contractVars
<1>3. Init => ContractInv
  BY ContractStarts
<1>4. ContractInv => Inv
  BY DEF ContractInv, SerialInv
<1>5. ContractInv /\ [Next]_vars => ContractInv' /\ [Contract!Next]_(Contract!contractVars)
  BY FaithfulStep
<1> QED
  BY <1>1, <1>2, <1>3, <1>4, <1>5, PTL DEF Spec
-----------------------------------------------------------------------------
(* What the watermark covers and nobody has recorded: OnlyDropsForget, for *)
(* any number of requests at once.                                         *)

Entries(log) == {log[i] : i \in 1..Len(log)}

\* What a request holds: events only to record them, and with the watermark it will
\* write the notifications of the last stages below it.
InHand(r) ==
    /\ r.pc \notin {"persist", "emit"} => r.events = <<>>
    /\ r.pc = "persist" =>
          \A n \in Announced(r.row) : n \in Entries(r.events) \/ StageOf(n) + Len(r.events) <= r.row.notified

\* The inductive invariant.
HandInv == Inv /\ \A w \in Workers : InHand(req[w])

\* No stage is forgotten but in one of the three ways.
Excused ==
    \A s \in SessionIds :
        \/ Forgotten(s)' \subseteq Forgotten(s)
        \/ Crash
        \/ \E w \in Workers :
              /\ Persist(w) /\ req[w].sid = s
              /\ req[w].op \notin {"active", "get"} \/ Outdated(req[w])

\* A step keeps what is new in HandInv, and is excused.
Kept == (\A w \in Workers : InHand(req'[w])) /\ Excused

LEMMA EntriesOfAppend ==
    ASSUME NEW log \in Seq(Notice), NEW n \in Notice
    PROVE  Entries(Append(log, n)) = Entries(log) \cup {n}
<1>1. /\ Len(log) \in Nat /\ Len(Append(log, n)) = Len(log) + 1
      /\ Append(log, n)[Len(log) + 1] = n
      /\ \A i \in 1..Len(log) : Append(log, n)[i] = log[i]
  BY LenProperties, AppendProperties
<1> QED
  BY <1>1 DEF Entries

LEMMA EntriesOfTail ==
    ASSUME NEW events \in Seq(Notice), events # <<>>
    PROVE  Entries(events) = {Head(events)} \cup Entries(Tail(events))
<1>1. /\ Len(events) \in Nat /\ Len(events) >= 1 /\ Head(events) = events[1]
      /\ Len(Tail(events)) = Len(events) - 1
      /\ \A i \in 1..(Len(events) - 1) : Tail(events)[i] = events[i + 1]
  BY EmptySeq, LenProperties, HeadTailProperties
<1>2. ASSUME NEW i \in 1..Len(events), i # 1 PROVE events[i] \in Entries(Tail(events))
  <2>1. i - 1 \in 1..Len(Tail(events)) /\ Tail(events)[i - 1] = events[i]
    BY <1>1, <1>2
  <2> QED
    BY <2>1 DEF Entries
<1> QED
  BY <1>1, <1>2 DEF Entries

LEMMA RecordedEntries ==
    ASSUME NEW s
    PROVE  Recorded(s) = Entries(notices[s]) /\ Recorded(s)' = Entries(notices'[s])
BY DEF Recorded, Entries

LEMMA PendingEntries ==
    ASSUME NEW s, NEW n
    PROVE  /\ n \in Pending(s) <=>
                \E w \in Workers : req[w].sid = s /\ req[w].op \in {"active", "get"} /\ n \in Entries(req[w].events)
           /\ n \in Pending(s)' <=>
                \E w \in Workers : req'[w].sid = s /\ req'[w].op \in {"active", "get"} /\ n \in Entries(req'[w].events)
BY DEF Pending, Entries

\* Only the watermark and the deadline count.
LEMMA AnnouncedSame ==
    ASSUME NEW row, NEW old, row.notified = old.notified, Deadline(row) = Deadline(old)
    PROVE  Announced(row) = Announced(old)
BY DEF Announced

LEMMA NothingAnnounced ==
    ASSUME NEW row, row.notified = 0
    PROVE  Announced(row) = {}
BY DEF Announced, StageOf

\* What a request holds it still holds or has recorded: all that was known is known.
LEMMA KnownStays ==
    ASSUME req \in [Workers -> Request], NEW w \in Workers, NEW q, req' = [req EXCEPT ![w] = q],
           \A s \in SessionIds : Entries(notices[s]) \subseteq Entries(notices'[s]),
           req[w].op \in {"active", "get"} =>
              \A n \in Entries(req[w].events) :
                  \/ q.sid = req[w].sid /\ q.op = req[w].op /\ n \in Entries(q.events)
                  \/ n \in Entries(notices'[req[w].sid]),
           NEW s \in SessionIds
    PROVE  Recorded(s) \cup Pending(s) \subseteq (Recorded(s) \cup Pending(s))'
<1>1. Recorded(s) \subseteq Recorded(s)'
  BY RecordedEntries
<1>2. ASSUME NEW n \in Pending(s) PROVE n \in Recorded(s)' \cup Pending(s)'
  <2>1. PICK v \in Workers : req[v].sid = s /\ req[v].op \in {"active", "get"} /\ n \in Entries(req[v].events)
    BY <1>2, PendingEntries
  <2>2. CASE v # w
    <3>1. req'[v] = req[v]
      BY <2>2
    <3> QED
      BY <2>1, <3>1, PendingEntries
  <2>3. CASE v = w /\ q.sid = s /\ q.op \in {"active", "get"} /\ n \in Entries(q.events)
    <3>1. req'[w] = q
      OBVIOUS
    <3> QED
      BY <2>3, <3>1, PendingEntries
  <2>4. CASE v = w /\ n \in Entries(notices'[s])
    BY <2>4, RecordedEntries
  <2> QED
    BY <2>1, <2>2, <2>3, <2>4
<1> QED
  BY <1>1, <1>2

\* A step of one request that raises no watermark.
LEMMA SilentStep ==
    ASSUME HandInv, NEW w \in Workers, NEW q, req' = [req EXCEPT ![w] = q], InHand(q),
           \A s \in SessionIds : Entries(notices[s]) \subseteq Entries(notices'[s]),
           req[w].op \in {"active", "get"} =>
              \A n \in Entries(req[w].events) :
                  \/ q.sid = req[w].sid /\ q.op = req[w].op /\ n \in Entries(q.events)
                  \/ n \in Entries(notices'[req[w].sid]),
           \A s \in SessionIds : Announced(sessions'[s]) \subseteq Announced(sessions[s])
    PROVE  Kept
<1>1. req \in [Workers -> Request]
  BY DEF HandInv, Inv
<1>2. ASSUME NEW v \in Workers PROVE InHand(req'[v])
  BY <1>1 DEF HandInv
<1>3. ASSUME NEW s \in SessionIds PROVE Forgotten(s)' \subseteq Forgotten(s)
  <2>1. Recorded(s) \cup Pending(s) \subseteq (Recorded(s) \cup Pending(s))'
    BY <1>1, KnownStays
  <2> QED
    BY <2>1 DEF Forgotten
<1> QED
  BY <1>2, <1>3 DEF Kept, Excused

\* The next step of a request that read the row without changing it, and of one
\* that has moved the watermark.
LEMMA AnsweredHolds ==
    ASSUME NEW r \in Request
    PROVE  /\ InHand(Answered(r))
           /\ (r.op \in {"active", "get"} /\ r.events # <<>>) =>
                 /\ Answered(r).sid = r.sid /\ Answered(r).op = r.op
                 /\ Answered(r).events = r.events
<1>1. PICK q : q = Answered(r)
  OBVIOUS
<1>2. CASE r.op \in {"active", "get"} /\ r.events # <<>>
  <2>1. q = [r EXCEPT !.pc = "emit"]
    BY <1>1, <1>2 DEF Answered
  <2>2. q.pc = "emit" /\ q.op = r.op /\ q.sid = r.sid /\ q.events = r.events
    BY <2>1 DEF Request
  <2> QED
    BY <1>1, <2>2 DEF InHand
<1>3. CASE ~(r.op \in {"active", "get"} /\ r.events # <<>>)
  <2>1. PICK next : next = [r EXCEPT !.pc = "write", !.events = <<>>]
    OBVIOUS
  <2>a. q = Idle \/ q = next
    BY <1>1, <1>3, <2>1 DEF Answered
  <2>b. next.pc = "write" /\ next.events = <<>>
    BY <2>1 DEF Request
  <2>c. Idle.pc = "idle" /\ Idle.events = <<>>
    BY DEF Idle
  <2>2. q.pc \in {"idle", "write"} /\ q.events = <<>>
    BY <2>a, <2>b, <2>c
  <2> QED
    BY <1>1, <1>3, <2>2 DEF InHand
<1> QED
  BY <1>2, <1>3

\* The events an evaluation hands out are the last stages of its watermark.
LEMMA StagesInHand ==
    ASSUME NEW row \in Row, NEW st \in 0..2, NEW n \in Announced(Staged(row, st))
    PROVE  n \in Entries(StageEvents(row, st)) \/ StageOf(n) + Len(StageEvents(row, st)) <= st
<1> DEFINE d == Deadline(row)
           sub == SubSeq(<<Missed(d), Escalated(d)>>, row.notified + 1, st)
<1>1. d \in Nat /\ row.notified \in 0..2
  BY DeadlineIsNat DEF Row
<1>2. Missed(d) \in Notice /\ Escalated(d) \in Notice
  BY <1>1 DEF Missed, Escalated, Note, Notice, NoticeTypes, Times
<1>3. StageEvents(row, st) = sub
  BY DEF StageEvents, Missed, Escalated
<1>4. PICK new : new = Staged(row, st)
  OBVIOUS
<1>5. new.notified = st /\ Deadline(new) = d
  BY <1>4 DEF Staged, Row, Deadline
<1>6. \/ n = Missed(d) /\ StageOf(n) = 1 /\ st >= 1
      \/ n = Escalated(d) /\ StageOf(n) = 2 /\ st = 2
  BY <1>4, <1>5 DEF Announced, StageOf, Missed, Escalated, Note
<1> HIDE DEF d
<1>7. /\ row.notified + 1 > st => sub = <<>>
      /\ row.notified = 0 /\ st = 1 => sub = <<Missed(d)>>
      /\ row.notified = 0 /\ st = 2 => sub = <<Missed(d), Escalated(d)>>
      /\ row.notified = 1 /\ st = 2 => sub = <<Escalated(d)>>
  BY <1>1, <1>2, SubSeqOfPair
<1> HIDE DEF sub
<1>8. CASE sub = <<>>
  <2>1. Len(sub) = 0
    BY <1>8
  <2> QED
    BY <1>3, <1>6, <2>1
<1>9. CASE row.notified = 0 /\ st >= 1
  <2>1. Entries(<<Missed(d)>>) = {Missed(d)}
    BY DEF Entries
  <2>2. /\ Missed(d) \in Entries(<<Missed(d), Escalated(d)>>)
        /\ Escalated(d) \in Entries(<<Missed(d), Escalated(d)>>)
    BY DEF Entries
  <2>3. n \in Entries(sub)
    BY <1>6, <1>7, <1>9, <2>1, <2>2
  <2> QED
    BY <1>3, <2>3
<1>10. CASE row.notified = 1 /\ st = 2
  <2>1. Entries(<<Escalated(d)>>) = {Escalated(d)} /\ Len(<<Escalated(d)>>) = 1
    BY DEF Entries
  <2>a. sub = <<Escalated(d)>>
    BY <1>7, <1>10
  <2>2. CASE n = Escalated(d)
    BY <1>3, <2>1, <2>2, <2>a
  <2>3. CASE StageOf(n) = 1
    <3>1. StageOf(n) + Len(sub) <= st
      BY <1>10, <2>1, <2>3, <2>a
    <3> QED
      BY <1>3, <3>1
  <2> QED
    BY <1>6, <2>2, <2>3
<1> QED
  BY <1>1, <1>3, <1>7, <1>8, <1>9, <1>10

LEMMA EvaluateKeeps ==
    ASSUME HandInv, NEW w \in Workers, Evaluate(w)
    PROVE  Kept
<1> DEFINE r == req[w]
           row == r.row
           stage == StageAt(row, now)
           staged == [r EXCEPT !.pc = "persist", !.row = Staged(row, stage),
                               !.events = StageEvents(row, stage)]
<1>1. /\ r \in Request /\ row \in Row /\ now \in Nat
      /\ sessions' = sessions /\ notices' = notices /\ r.pc = "evaluate"
  BY DEF Evaluate, HandInv, Inv, TablesTyped, Request
<1>2. r.events = <<>> /\ Entries(r.events) = {}
  BY <1>1 DEF HandInv, InHand, Entries
<1>3. CASE row.status \notin Live \/ stage = row.stage
  <2>1. req' = [req EXCEPT ![w] = Answered(r)]
    BY <1>3 DEF Evaluate
  <2>2. InHand(Answered(r))
    BY <1>1, AnsweredHolds
  <2> QED
    BY <1>1, <1>2, <2>1, <2>2, SilentStep
<1>4. CASE row.status \in Live /\ stage # row.stage
  <2>1. PICK q : q = staged
    OBVIOUS
  <2>2. /\ q.pc = "persist" /\ q.row = Staged(row, stage) /\ q.events = StageEvents(row, stage)
    BY <1>1, <2>1 DEF Request
  <2>3. req' = [req EXCEPT ![w] = q]
    BY <1>4, <2>1 DEF Evaluate
  <2>4. stage \in 0..2
    BY <1>1, StageAtIsStage
  <2>5. q.row.notified = stage
    <3>1. PICK new : new = Staged(row, stage)
      OBVIOUS
    <3>2. new.notified = stage
      BY <1>1, <3>1 DEF Staged, Row
    <3> QED
      BY <2>2, <3>1, <3>2
  <2> HIDE DEF stage
  <2>6. InHand(q)
    BY <1>1, <2>2, <2>4, <2>5, StagesInHand DEF InHand
  <2> QED
    BY <1>1, <1>2, <2>3, <2>6, SilentStep
<1> QED
  BY <1>3, <1>4

\* The UPDATE raises the watermark over what the handler will now record, or it is
\* one of the excused.
LEMMA PersistKeeps ==
    ASSUME HandInv, NEW w \in Workers, Persist(w)
    PROVE  Kept
<1>0. PICK r, s : r = req[w] /\ s = r.sid
  OBVIOUS
<1> DEFINE new == [sessions[s] EXCEPT !.status = r.row.status, !.stage = r.row.stage,
                                      !.notified = r.row.notified]
<1>1. /\ r \in Request /\ r.row \in Row /\ sessions \in [SessionIds -> Row]
      /\ notices' = notices /\ r.pc = "persist" /\ req \in [Workers -> Request]
  BY <1>0 DEF Persist, HandInv, Inv, TablesTyped, Request
<1>2. sessions' = [sessions EXCEPT ![s] = new] /\ req' = [req EXCEPT ![w] = Answered(r)]
  BY <1>0 DEF Persist
<1>3. PICK q : q = Answered(r)
  OBVIOUS
<1>4. /\ InHand(q)
      /\ (r.op \in {"active", "get"} /\ r.events # <<>>) =>
            q.sid = r.sid /\ q.op = r.op /\ q.events = r.events
  BY <1>1, <1>3, AnsweredHolds
<1>5. ASSUME NEW v \in Workers PROVE InHand(req'[v])
  BY <1>1, <1>2, <1>3, <1>4 DEF HandInv
<1> HIDE DEF new
<1>6. ASSUME NEW t \in SessionIds
      PROVE  Recorded(t) \cup Pending(t) \subseteq (Recorded(t) \cup Pending(t))'
  <2>1. Entries(<<>>) = {}
    BY DEF Entries
  <2> QED
    BY <1>0, <1>1, <1>2, <1>3, <1>4, <2>1, KnownStays
<1>7. ASSUME NEW t \in SessionIds, t # s PROVE Forgotten(t)' \subseteq Forgotten(t)
  <2>1. sessions'[t] = sessions[t]
    BY <1>1, <1>2, <1>7
  <2> QED
    BY <1>6, <2>1 DEF Forgotten
<1>8. ASSUME s \in SessionIds, r.op \in {"active", "get"}, ~Outdated(r)
      PROVE  Forgotten(s)' \subseteq Forgotten(s)
  <2>1. Deadline(sessions[s]) = Deadline(r.row) /\ sessions[s].notified + Len(r.events) = r.row.notified
    BY <1>0, <1>8 DEF Outdated
  <2>2. sessions[s] \in Row /\ sessions'[s] = new
    BY <1>1, <1>2, <1>8
  <2>3. new.notified = r.row.notified /\ Deadline(new) = Deadline(r.row)
    <3>1. /\ new.notified = r.row.notified /\ new.grace = sessions[s].grace
          /\ new.expected = sessions[s].expected /\ new.checkin = sessions[s].checkin
          /\ new.started = sessions[s].started
      BY <2>2 DEF new, Row
    <3> QED
      BY <2>1, <3>1 DEF Deadline
  <2>4. Announced(sessions'[s]) = Announced(r.row)
    BY <2>2, <2>3, AnnouncedSame
  <2>5. ASSUME NEW n \in Announced(r.row)
        PROVE  n \in Announced(sessions[s]) \/ n \in Pending(s)'
    <3>1. n \in Entries(r.events) \/ StageOf(n) + Len(r.events) <= r.row.notified
      BY <1>0, <1>1, <2>5 DEF HandInv, InHand
    <3>2. CASE n \in Entries(r.events)
      <4>1. r.events # <<>>
        BY <3>2 DEF Entries
      <4>2. req'[w] = q
        BY <1>1, <1>2, <1>3
      <4> QED
        BY <1>0, <1>4, <1>8, <3>2, <4>1, <4>2, PendingEntries
    <3>3. CASE StageOf(n) + Len(r.events) <= r.row.notified
      <4>1. StageOf(n) \in Nat /\ Len(r.events) \in Nat /\ sessions[s].notified \in Nat
        BY <1>1, <2>2, LenProperties DEF StageOf, Request, Row
      <4>2. StageOf(n) <= sessions[s].notified
        BY <2>1, <3>3, <4>1
      <4> QED
        BY <2>1, <2>5, <4>2 DEF Announced
    <3> QED
      BY <3>1, <3>2, <3>3
  <2>6. Recorded(s) \cup Pending(s) \subseteq Recorded(s)' \cup Pending(s)'
    BY <1>6, <1>8
  <2>7. Forgotten(s)' = Announced(sessions'[s]) \ (Recorded(s)' \cup Pending(s)')
    BY DEF Forgotten
  <2>8. Forgotten(s) = Announced(sessions[s]) \ (Recorded(s) \cup Pending(s))
    BY DEF Forgotten
  <2> QED
    BY <2>4, <2>5, <2>6, <2>7, <2>8
<1>9. Excused
  <2> SUFFICES ASSUME NEW t \in SessionIds,
                      ~(\E v \in Workers :
                          /\ Persist(v) /\ req[v].sid = t
                          /\ req[v].op \notin {"active", "get"} \/ Outdated(req[v]))
               PROVE  Forgotten(t)' \subseteq Forgotten(t)
    BY DEF Excused
  <2>1. CASE t # s
    BY <1>7, <2>1
  <2>2. CASE t = s
    <3>1. ~(r.op \notin {"active", "get"} \/ Outdated(r))
      BY <1>0, <2>2
    <3>2. r.op \in {"active", "get"} /\ ~Outdated(r) /\ s \in SessionIds
      BY <2>2, <3>1
    <3>3. Forgotten(s)' \subseteq Forgotten(s)
      BY <1>8, <3>2
    <3> QED
      BY <2>2, <3>3
  <2> QED
    BY <2>1, <2>2
<1> QED
  BY <1>5, <1>9 DEF Kept

\* A notice moves from the request to the log.
LEMMA EmitKeeps ==
    ASSUME HandInv, NEW w \in Workers, Emit(w)
    PROVE  Kept
<1> DEFINE r == req[w]
           n == Head(r.events)
<1>1. /\ r \in Request /\ r.pc = "emit" /\ r.events # <<>> /\ r.events \in Seq(Notice)
      /\ notices \in [SessionIds -> Seq(Notice)] /\ sessions' = sessions
  BY DEF Emit, HandInv, Inv, TablesTyped, Sound, Request
<1>2. n \in Notice /\ Tail(r.events) \in Seq(Notice)
  BY <1>1, EmptySeq, HeadTailProperties
<1>3. PICK q : q = IF Tail(r.events) # <<>> THEN [r EXCEPT !.events = Tail(@)]
                   ELSE IF AutoSos /\ n.type = "checkin_escalated"
                        THEN [r EXCEPT !.pc = "checksos", !.events = <<>>]
                        ELSE Idle
  OBVIOUS
<1>4. /\ req' = [req EXCEPT ![w] = q]
      /\ notices' = [notices EXCEPT ![r.sid] = Append(@, n)]
  BY <1>3 DEF Emit
<1>5. /\ InHand(q)
      /\ Tail(r.events) # <<>> => q.sid = r.sid /\ q.op = r.op /\ q.events = Tail(r.events)
  <2>1. CASE Tail(r.events) # <<>>
    <3>1. q.pc = "emit" /\ q.op = r.op /\ q.sid = r.sid /\ q.events = Tail(r.events)
      BY <1>1, <1>3, <2>1 DEF Request
    <3> QED
      BY <3>1 DEF InHand
  <2>2. CASE Tail(r.events) = <<>>
    <3>1. q.pc \in {"checksos", "idle"} /\ q.events = <<>>
      BY <1>1, <1>3, <2>2 DEF Request, Idle
    <3> QED
      BY <2>2, <3>1 DEF InHand
  <2> QED
    BY <2>1, <2>2
<1> HIDE DEF n
<1>6. ASSUME NEW s \in SessionIds
      PROVE  Entries(notices'[s]) = Entries(notices[s]) \cup (IF s = r.sid THEN {n} ELSE {})
  <2>1. CASE s = r.sid
    <3>1. notices'[s] = Append(notices[s], n) /\ notices[s] \in Seq(Notice)
      BY <1>1, <1>4, <2>1
    <3>2. Entries(Append(notices[s], n)) = Entries(notices[s]) \cup {n}
      BY <1>2, <3>1, EntriesOfAppend
    <3> QED
      BY <2>1, <3>1, <3>2
  <2>2. CASE s # r.sid
    BY <1>1, <1>4, <2>2
  <2> QED
    BY <2>1, <2>2
<1>7. ASSUME NEW s \in SessionIds PROVE Recorded(s) \cup Pending(s) \subseteq (Recorded(s) \cup Pending(s))'
  <2>1. Recorded(s) \subseteq Recorded(s)'
    BY <1>6, RecordedEntries
  <2>2. ASSUME NEW m \in Pending(s) PROVE m \in (Recorded(s) \cup Pending(s))'
    <3>1. PICK v \in Workers : req[v].sid = s /\ req[v].op \in {"active", "get"} /\ m \in Entries(req[v].events)
      BY <2>2, PendingEntries
    <3>2. CASE v # w
      <4>1. req'[v] = req[v]
        BY <1>4, <3>2
      <4> QED
        BY <3>1, <4>1, PendingEntries
    <3>3. CASE v = w /\ m = n
      BY <1>6, <3>1, <3>3, RecordedEntries
    <3>4. CASE v = w /\ m \in Entries(Tail(r.events))
      <4>1. Tail(r.events) # <<>>
        BY <3>4 DEF Entries
      <4>2. req'[w] = q
        BY <1>4 DEF HandInv, Inv
      <4> QED
        BY <1>5, <3>1, <3>4, <4>1, <4>2, PendingEntries
    <3>5. Entries(r.events) = {n} \cup Entries(Tail(r.events))
      BY <1>1, EntriesOfTail DEF n
    <3> QED
      BY <3>1, <3>2, <3>3, <3>4, <3>5
  <2> QED
    BY <2>1, <2>2
<1>8. Excused
  BY <1>1, <1>7 DEF Excused, Forgotten
<1>9. ASSUME NEW v \in Workers PROVE InHand(req'[v])
  BY <1>4, <1>5 DEF HandInv, Inv
<1> QED
  BY <1>8, <1>9 DEF Kept

\* A new journey has a watermark of zero, and its handler goes on to record.
LEMMA InsertWrites ==
    ASSUME NEW w \in Workers, Insert(w), req[w] \in Request
    PROVE  \E s, row, q :
              /\ s \in SessionIds
              /\ sessions' = [sessions EXCEPT ![s] = row] /\ row.notified = 0
              /\ req' = [req EXCEPT ![w] = q] /\ q.pc = "emit"
<1> PICK s \in Free, g \in Graces, e \in Arrivals, p \in Geometries :
      LET row == [BlankRow EXCEPT !.client = req[w].row.client, !.status = "ACTIVE",
                                  !.started = now, !.grace = g, !.expected = e, !.planned = p]
      IN  /\ sessions' = [sessions EXCEPT ![s] = row]
          /\ req' = [req EXCEPT ![w] =
                       [@ EXCEPT !.pc = "emit", !.sid = s, !.row = row,
                                 !.events = <<Note("guardian_started", Deadline(row))>>]]
  BY DEF Insert
<1> DEFINE row == [BlankRow EXCEPT !.client = req[w].row.client, !.status = "ACTIVE",
                                   !.started = now, !.grace = g, !.expected = e, !.planned = p]
           q == [req[w] EXCEPT !.pc = "emit", !.sid = s, !.row = row,
                               !.events = <<Note("guardian_started", Deadline(row))>>]
<1>1. sessions' = [sessions EXCEPT ![s] = row] /\ req' = [req EXCEPT ![w] = q]
  OBVIOUS
<1>2. row.notified = 0
  BY DEF BlankRow
<1>3. q.pc = "emit"
  BY DEF Request
<1>4. s \in SessionIds
  BY DEF Free
<1> HIDE DEF row, q
<1>5. \E r, next :
        /\ s \in SessionIds
        /\ sessions' = [sessions EXCEPT ![s] = r] /\ r.notified = 0
        /\ req' = [req EXCEPT ![w] = next] /\ next.pc = "emit"
  BY <1>1, <1>2, <1>3, <1>4
<1> QED
  BY <1>5

\* The other steps of a request hold no events before.
LEMMA RestOfStepKeeps ==
    ASSUME HandInv, NEW w \in Workers,
           Insert(w) \/ WriteLocation(w) \/ CheckSos(w) \/ StartSos(w) \/ RecordSos(w)
    PROVE  Kept
<1>1. /\ req[w] \in Request /\ req = [v \in Workers |-> req[v]] /\ notices' = notices
      /\ sessions \in [SessionIds -> Row]
  BY DEF Insert, WriteLocation, CheckSos, StartSos, RecordSos, HandInv, Inv, TablesTyped
<1>a. req[w].pc \notin {"persist", "emit"}
  BY DEF Insert, WriteLocation, CheckSos, StartSos, RecordSos
<1>b. req[w].events = <<>>
  BY <1>a DEF HandInv, InHand
<1>2. req[w].events = <<>> /\ Entries(req[w].events) = {}
  BY <1>b DEF Entries
<1>3. PICK q : req' = [req EXCEPT ![w] = q] /\ (q.pc = "emit" \/ (q.pc # "persist" /\ q.events = <<>>))
  <2>1. PICK a, b : a = [req[w] EXCEPT !.pc = "startsos"] /\ b = [req[w] EXCEPT !.pc = "recordsos"]
    OBVIOUS
  <2>2. /\ a.pc = "startsos" /\ b.pc = "recordsos" /\ Idle.pc = "idle"
        /\ a.events = <<>> /\ b.events = <<>> /\ Idle.events = <<>>
    BY <1>1, <1>2, <2>1 DEF Request, Idle
  <2>3. CASE CheckSos(w) \/ StartSos(w) \/ RecordSos(w)
    <3>1. \/ req' = [req EXCEPT ![w] = a] \/ req' = [req EXCEPT ![w] = b]
          \/ req' = [req EXCEPT ![w] = Idle]
      BY <1>1, <2>1, <2>3 DEF CheckSos, StartSos, RecordSos
    <3> QED
      BY <2>2, <3>1
  <2>4. CASE Insert(w)
    BY <1>1, <2>4, InsertWrites
  <2>5. CASE WriteLocation(w)
    <3>1. PICK q : q = [req[w] EXCEPT !.pc = "emit", !.events = <<Note("route_changed", NoTime)>>]
      OBVIOUS
    <3>2. q.pc = "emit"
      BY <1>1, <3>1 DEF Request
    <3>3. req' = [req EXCEPT ![w] = Idle] \/ req' = [req EXCEPT ![w] = q]
      BY <2>5, <3>1 DEF WriteLocation
    <3> QED
      BY <2>2, <3>2, <3>3
  <2> QED
    BY <2>3, <2>4, <2>5
<1>4. ASSUME NEW t \in SessionIds PROVE Announced(sessions'[t]) \subseteq Announced(sessions[t])
  <2>1. CASE sessions' = sessions
    BY <2>1
  <2>2. CASE Insert(w)
    <3>1. PICK s, row : s \in SessionIds /\ sessions' = [sessions EXCEPT ![s] = row] /\ row.notified = 0
      BY <1>1, <2>2, InsertWrites
    <3> QED
      BY <1>1, <3>1, NothingAnnounced
  <2>3. CASE WriteLocation(w) /\ sessions' # sessions
    <3>1. PICK d : sessions' = [sessions EXCEPT ![req[w].sid].deviated = d]
      BY <2>3 DEF WriteLocation
    <3>2. sessions[t] \in Row
      BY <1>1
    <3>3. /\ sessions'[t].notified = sessions[t].notified /\ sessions'[t].grace = sessions[t].grace
          /\ sessions'[t].expected = sessions[t].expected
          /\ sessions'[t].checkin = sessions[t].checkin /\ sessions'[t].started = sessions[t].started
      BY <1>1, <3>1, <3>2 DEF Row
    <3>4. Deadline(sessions'[t]) = Deadline(sessions[t])
      BY <3>3 DEF Deadline
    <3> QED
      BY <3>3, <3>4, AnnouncedSame
  <2>4. Insert(w) \/ WriteLocation(w) \/ sessions' = sessions
    BY DEF CheckSos, StartSos, RecordSos
  <2> QED
    BY <2>1, <2>2, <2>3, <2>4
<1>5. InHand(q)
  BY <1>3 DEF InHand
<1> QED
  BY <1>1, <1>2, <1>3, <1>4, <1>5, SilentStep

LEMMA ArriveKeeps ==
    ASSUME HandInv, NEW w \in Workers, Arrive(w)
    PROVE  Kept
<1>1. /\ sessions \in [SessionIds -> Row] /\ req \in [Workers -> Request]
      /\ notices' = notices /\ req[w] = Idle
  BY DEF HandInv, Inv, TablesTyped, Arrive, SelectNewest, SelectNone, SelectById, Checkin, End
<1>2. Entries(req[w].events) = {}
  BY <1>1 DEF Idle, Entries
<1>3. ASSUME NEW s \in SessionIds, NEW op, Reading(w, op, s), sessions' = sessions
      PROVE  Kept
  <2> DEFINE q == [pc |-> "evaluate", op |-> op, sid |-> s, row |-> sessions[s], events |-> <<>>]
  <2>1. req' = [req EXCEPT ![w] = q]
    BY <1>3 DEF Reading
  <2>2. InHand(q)
    BY DEF InHand
  <2> HIDE DEF q
  <2> QED
    BY <1>1, <1>2, <1>3, <2>1, <2>2, SilentStep
<1>4. ASSUME NEW c \in Clients, NEW op \in {"create", "active", "dashboard"}, SelectNewest(w, c, op)
      PROVE  Kept
  BY <1>3, <1>4 DEF SelectNewest, Newest, LiveOf
<1>5. ASSUME NEW s \in SessionIds, NEW op \in {"get", "location"}, SelectById(w, s, op)
      PROVE  Kept
  BY <1>3, <1>5 DEF SelectById
<1>6. ASSUME NEW c \in Clients, SelectNone(w, c) PROVE Kept
  <2> DEFINE q == [pc |-> "insert", op |-> "create", sid |-> NoOne,
                   row |-> [BlankRow EXCEPT !.client = c], events |-> <<>>]
  <2>1. req' = [req EXCEPT ![w] = q] /\ sessions' = sessions
    BY <1>6 DEF SelectNone
  <2>2. InHand(q)
    BY DEF InHand
  <2> HIDE DEF q
  <2> QED
    BY <1>1, <1>2, <2>1, <2>2, SilentStep
<1>7. ASSUME NEW s \in SessionIds, Checkin(w, s) PROVE Kept
  <2>1. PICK row : row = [sessions[s] EXCEPT !.checkin = now, !.expected = NoTime,
                                             !.status = "ACTIVE", !.stage = 0, !.notified = 0]
    OBVIOUS
  <2>2. /\ sessions' = [sessions EXCEPT ![s] = row] /\ row.notified = 0
        /\ req' = [req EXCEPT ![w] = Idle]
    BY <1>1, <1>7, <2>1 DEF Checkin, Row
  <2>3. InHand(Idle)
    BY DEF InHand, Idle
  <2>4. \A t \in SessionIds : Announced(sessions'[t]) \subseteq Announced(sessions[t])
    BY <1>1, <2>2, NothingAnnounced
  <2> QED
    BY <1>1, <1>2, <2>2, <2>3, <2>4, SilentStep
<1>8. ASSUME NEW s \in SessionIds, NEW reason, End(w, s, reason) PROVE Kept
  <2>1. PICK row : row = [sessions[s] EXCEPT !.status = IF reason = "arrived" THEN "COMPLETED"
                                                        ELSE "CANCELLED"]
    OBVIOUS
  <2>2. /\ sessions' = [sessions EXCEPT ![s] = row] /\ row.notified = sessions[s].notified
        /\ Deadline(row) = Deadline(sessions[s])
    BY <1>1, <1>8, <2>1 DEF End, Row, Deadline
  <2>3. PICK q : q = [pc |-> "emit", op |-> "end", sid |-> s, row |-> sessions'[s],
                      events |-> <<Note(IF reason = "arrived" THEN "journey_completed"
                                        ELSE "guardian_ended", NoTime)>>]
    OBVIOUS
  <2>4. req' = [req EXCEPT ![w] = q] /\ q.pc = "emit"
    BY <1>8, <2>3 DEF End
  <2>5. InHand(q)
    BY <2>4 DEF InHand
  <2>6. \A t \in SessionIds : Announced(sessions'[t]) \subseteq Announced(sessions[t])
    BY <1>1, <2>2, AnnouncedSame
  <2> QED
    BY <1>1, <1>2, <2>4, <2>5, <2>6, SilentStep
<1> QED
  BY <1>4, <1>5, <1>6, <1>7, <1>8 DEF Arrive

LEMMA HandStep ==
    ASSUME HandInv, [Next]_vars
    PROVE  HandInv' /\ Excused
<1>1. Inv'
  BY NextInv DEF HandInv
<1>2. Kept
  <2>1. CASE Tick \/ (\E c \in Clients : OwnerStartsSos(c) \/ OwnerEndsSos(c)) \/ UNCHANGED vars
    <3>1. sessions' = sessions /\ notices' = notices /\ req' = req
      BY <2>1 DEF Tick, OwnerStartsSos, OwnerEndsSos, vars
    <3>2. \A s : Forgotten(s)' = Forgotten(s)
      BY <3>1 DEF Forgotten, Recorded, Pending
    <3> QED
      BY <3>1, <3>2 DEF Kept, Excused, HandInv
  <2>2. ASSUME NEW w \in Workers, Step(w) PROVE Kept
    BY <2>2, EvaluateKeeps, PersistKeeps, EmitKeeps, RestOfStepKeeps DEF Step
  <2>3. CASE Crash
    <3>1. \A w \in Workers : req'[w] = Idle
      BY <2>3 DEF Crash
    <3> QED
      BY <2>3, <3>1 DEF Kept, Excused, InHand, Idle
  <2> QED
    BY <2>1, <2>2, <2>3, ArriveKeeps DEF Next
<1> QED
  BY <1>1, <1>2 DEF Kept, HandInv

\* For any number of clients, journeys and requests at once, crashes included: the
\* watermark gets ahead of the records only by the UPDATE of a handler that drops the
\* events (create, location, the privacy dashboard), by that of an evaluation whose
\* row has changed since it was read, and by a crash.
THEOREM OnlyDropsLose == Spec => OnlyDropsForget
<1>1. Init => HandInv
  BY InitInv DEF Init, HandInv, InHand, Idle
<1>2. HandInv /\ [Next]_vars => HandInv' /\ [Excused]_vars
  BY HandStep
<1> QED
  BY <1>1, <1>2, PTL DEF Spec, OnlyDropsForget, Excused
=============================================================================
