-------------------------- MODULE SafetyBuildProofs --------------------------
(***************************************************************************)
(* For every number of clients, rows and ticks and for all delays: the     *)
(* guardian journeys, the SOS sessions and the location sharings are the   *)
(* same service in both builds, but for what GuardianBuildsAgree and       *)
(* SosBuildsAgree leave apart.  Each part has its inductive invariant, a   *)
(* relation of the two rows of an id, and one lemma per call.  From it, at *)
(* the end: neither build announces what it does not hold.                 *)
(***************************************************************************)
EXTENDS GuardianBuilds, SosBuilds, WellFoundedInduction, TLAPS

-----------------------------------------------------------------------------
(* Guardian journeys.                                                      *)

JourneyRow ==
    [client : Clients \cup {NoOne},
     status : {"FREE", "ACTIVE", "ESCALATED", "COMPLETED", "CANCELLED"},
     started : Int, arrival : Int, checked : Int, ended : Int, known : Int,
     deviated : BOOLEAN, first : Int, stage : 0..2]

\* How a row of the memory build and the table's row of the same journey may differ.
Twins(m, t) ==
    /\ m \in JourneyRow /\ t \in JourneyRow
    /\ SameJourneyRow(m, t)
    /\ m.first # NoTime => t.first # NoTime /\ t.first <= m.first
    /\ t.first <= clock
    /\ OnTheWay(m) => m.stage <= JourneyStage(m)

JourneyRows ==
    /\ service = "guardian"
    /\ used \in 0..MaxRows
    /\ clock \in Nat
    /\ DOMAIN memory = Ids /\ memory = [i \in Ids |-> memory[i]]
    /\ DOMAIN table = Ids /\ table = [i \in Ids |-> table[i]]
    /\ \A i \in Ids : Twins(memory[i], table[i])
    /\ \A i, j \in Ids : (OnTheWay(memory[i]) /\ OnTheWay(memory[j])
                            /\ memory[i].client = memory[j].client) => i = j

\* What the table may leave out.
Droppable == {"checkin_missed", "checkin_escalated"}

JourneyNotes ==
    /\ notes.table \subseteq notes.memory
    /\ \A n \in notes.memory \ notes.table : n[2] \in Droppable

JourneyInv == JourneyRows /\ JourneyNotes

LEMMA StageOfRow ==
    ASSUME NEW row \in JourneyRow, clock \in Nat
    PROVE  JourneyDeadline(row) \in Int /\ JourneyStage(row) \in 0..2
<1>1. JourneyDeadline(row) \in Int
  BY DelaysAssumption DEF JourneyDeadline, JourneyRow
<1> QED BY <1>1, DelaysAssumption DEF JourneyStage

\* What evaluating a row does to it.
LEMMA EvaluatedRow ==
    ASSUME NEW row \in JourneyRow, clock \in Nat
    PROVE  /\ Evaluated(row) \in JourneyRow
           /\ \A f \in {"client", "started", "arrival", "checked", "ended", "known", "deviated", "first"} :
                 Evaluated(row)[f] = row[f]
           /\ OnTheWay(Evaluated(row)) <=> OnTheWay(row)
           /\ OnTheWay(row) => Evaluated(row).stage = JourneyStage(row)
           /\ ~OnTheWay(row) => Evaluated(row) = row
<1>1. CASE ~OnTheWay(row)
  BY <1>1 DEF Evaluated
<1>2. CASE OnTheWay(row)
  <2> DEFINE status == IF JourneyStage(row) = row.stage THEN row.status
                       ELSE IF JourneyStage(row) = 2 THEN "ESCALATED" ELSE "ACTIVE"
  <2>1. Evaluated(row) = [row EXCEPT !.stage = JourneyStage(row), !.status = status]
    BY <1>2 DEF Evaluated
  <2>2. JourneyStage(row) \in 0..2 /\ status \in {"ACTIVE", "ESCALATED"}
    BY <1>2, StageOfRow DEF OnTheWay
  <2> HIDE DEF status
  <2>3. Evaluated(row) \in JourneyRow
    BY <2>1, <2>2 DEF JourneyRow
  <2>4. /\ \A f \in {"client", "started", "arrival", "checked", "ended", "known", "deviated", "first"} :
               Evaluated(row)[f] = row[f]
        /\ Evaluated(row).status = status /\ Evaluated(row).stage = JourneyStage(row)
    BY <2>1 DEF JourneyRow
  <2> QED BY <1>2, <2>2, <2>3, <2>4 DEF OnTheWay
<1> QED BY <1>1, <1>2

LEMMA SameStage ==
    ASSUME NEW m, NEW t, SameJourneyRow(m, t)
    PROVE  JourneyDeadline(m) = JourneyDeadline(t) /\ JourneyStage(m) = JourneyStage(t)
<1>1. m.arrival = t.arrival /\ m.checked = t.checked /\ m.started = t.started
  BY DEF SameJourneyRow
<1>2. JourneyDeadline(m) = JourneyDeadline(t)
  BY <1>1 DEF JourneyDeadline
<1> QED BY <1>2 DEF JourneyStage

\* A row's deadline depends on three of its fields, so its stage does, at any time.
LEMMA SameStageOfFields ==
    ASSUME NEW a, NEW b, a.arrival = b.arrival, a.checked = b.checked, a.started = b.started
    PROVE  JourneyStage(a) = JourneyStage(b)
<1>1. JourneyDeadline(a) = JourneyDeadline(b)
  BY DEF JourneyDeadline
<1> QED BY <1>1 DEF JourneyStage

LEMMA TwinsEvaluated ==
    ASSUME NEW m, NEW t, Twins(m, t), clock \in Nat
    PROVE  Twins(Evaluated(m), Evaluated(t)) /\ Overdue(t) \subseteq Overdue(m)
<1>1. JourneyStage(m) = JourneyStage(t) /\ JourneyStage(m) \in 0..2
  BY SameStage, StageOfRow DEF Twins
<1>2. m \in JourneyRow /\ t \in JourneyRow /\ m.stage <= t.stage /\ (OnTheWay(m) <=> OnTheWay(t))
      /\ m.stage \in 0..2 /\ t.stage \in 0..2
  BY DEF Twins, SameJourneyRow, JourneyRow
<1>3. Overdue(t) \subseteq Overdue(m)
  BY <1>1, <1>2 DEF Overdue
<1>4. CASE ~OnTheWay(m)
  <2>1. Evaluated(m) = m /\ Evaluated(t) = t
    BY <1>2, <1>4, EvaluatedRow
  <2> QED BY <1>3, <2>1
<1>5. CASE OnTheWay(m)
  <2> DEFINE q == Evaluated(m)
             r == Evaluated(t)
  <2>1. /\ q \in JourneyRow /\ r \in JourneyRow
        /\ \A f \in {"client", "started", "arrival", "checked", "ended", "known", "deviated", "first"} :
              q[f] = m[f] /\ r[f] = t[f]
        /\ OnTheWay(q) /\ OnTheWay(r)
        /\ q.stage = JourneyStage(m) /\ r.stage = JourneyStage(m)
    BY <1>1, <1>2, <1>5, EvaluatedRow
  <2> HIDE DEF q, r
  <2>2. JourneyStage(q) = JourneyStage(m)
    BY <2>1, SameStageOfFields
  <2>3. SameJourneyRow(q, r)
    BY <1>1, <2>1 DEF Twins, SameJourneyRow
  <2>4. Twins(q, r)
    BY <1>1, <2>1, <2>2, <2>3 DEF Twins
  <2> QED BY <1>3, <2>4 DEF q, r
<1> QED BY <1>4, <1>5

\* What writing a row does to its fields.
Moved(row, known, deviated, first) ==
    [row EXCEPT !.known = known, !.deviated = deviated, !.first = first]
Closed(row, status) == [row EXCEPT !.status = status, !.ended = clock]

LEMMA MovedRow ==
    ASSUME NEW row \in JourneyRow, NEW known \in Int, NEW deviated \in BOOLEAN, NEW first \in Int
    PROVE  /\ Moved(row, known, deviated, first) \in JourneyRow
           /\ Moved(row, known, deviated, first).known = known
           /\ Moved(row, known, deviated, first).deviated = deviated
           /\ Moved(row, known, deviated, first).first = first
           /\ \A f \in {"client", "started", "arrival", "checked", "ended", "stage", "status"} :
                 Moved(row, known, deviated, first)[f] = row[f]
BY DEF JourneyRow, Moved

LEMMA CheckedRow ==
    ASSUME NEW row \in JourneyRow, clock \in Nat
    PROVE  /\ CheckedIn(row) \in JourneyRow
           /\ CheckedIn(row).status = "ACTIVE" /\ CheckedIn(row).arrival = NoTime
           /\ CheckedIn(row).checked = clock /\ CheckedIn(row).stage = 0
           /\ \A f \in {"client", "started", "ended", "known", "deviated", "first"} :
                 CheckedIn(row)[f] = row[f]
<1> DEFINE q == CheckedIn(row)
<1>1. NoTime \in Int /\ clock \in Int
  BY DEF NoTime
<1>2. q = [row EXCEPT !.status = "ACTIVE", !.arrival = NoTime, !.checked = clock, !.stage = 0]
  BY DEF CheckedIn
<1> HIDE DEF q
<1>3. q \in JourneyRow
  <2>1. 0 \in 0..2 /\ "ACTIVE" \in {"FREE", "ACTIVE", "ESCALATED", "COMPLETED", "CANCELLED"}
    OBVIOUS
  <2>2. PICK none, active, zero : none = NoTime /\ active = "ACTIVE" /\ zero = 0
    OBVIOUS
  <2>3. q = [row EXCEPT !.status = active, !.arrival = none, !.checked = clock, !.stage = zero]
    BY <1>2, <2>2
  <2> QED BY <1>1, <2>1, <2>2, <2>3 DEF JourneyRow
<1>4. q.status = "ACTIVE" /\ q.arrival = NoTime /\ q.checked = clock /\ q.stage = 0
  BY <1>2 DEF JourneyRow
<1>5. \A f \in {"client", "started", "ended", "known", "deviated", "first"} : q[f] = row[f]
  BY <1>2 DEF JourneyRow
<1> QED BY <1>3, <1>4, <1>5 DEF q

LEMMA ClosedRow ==
    ASSUME NEW row \in JourneyRow, NEW status \in {"COMPLETED", "CANCELLED"}, clock \in Nat
    PROVE  /\ Closed(row, status) \in JourneyRow
           /\ Closed(row, status).status = status /\ Closed(row, status).ended = clock
           /\ \A f \in {"client", "started", "arrival", "checked", "known", "deviated", "first", "stage"} :
                 Closed(row, status)[f] = row[f]
<1>1. clock \in Int
  OBVIOUS
<1>2. Closed(row, status) \in JourneyRow
  BY <1>1 DEF JourneyRow, Closed
<1>3. Closed(row, status).status = status /\ Closed(row, status).ended = clock
  BY DEF JourneyRow, Closed
<1>4. \A f \in {"client", "started", "arrival", "checked", "known", "deviated", "first", "stage"} :
          Closed(row, status)[f] = row[f]
  BY DEF JourneyRow, Closed
<1> QED BY <1>2, <1>3, <1>4

LEMMA TwinsFixed ==
    ASSUME NEW m, NEW t, Twins(m, t), clock \in Nat, OnTheWay(m), NEW far \in BOOLEAN
    PROVE  LET q == [m EXCEPT !.known = clock, !.deviated = @ \/ far,
                              !.first = IF far /\ ~m.deviated THEN clock ELSE @]
               e == Evaluated(t)
               r == [e EXCEPT !.known = clock, !.deviated = @ \/ far,
                              !.first = IF @ = NoTime THEN clock ELSE @]
           IN  /\ Twins(q, r) /\ OnTheWay(q) /\ q.client = m.client
               /\ OnTheWay(e) /\ Detour(e, far) = Detour(m, far)
<1> DEFINE e == Evaluated(t)
           qd == m.deviated \/ far
           rd == e.deviated \/ far
           qf == IF far /\ ~m.deviated THEN clock ELSE m.first
           rf == IF e.first = NoTime THEN clock ELSE e.first
           q == [m EXCEPT !.known = clock, !.deviated = qd, !.first = qf]
           r == [e EXCEPT !.known = clock, !.deviated = rd, !.first = rf]
<1>1. Twins(Evaluated(m), e) /\ m \in JourneyRow /\ t \in JourneyRow /\ e \in JourneyRow
  BY TwinsEvaluated DEF Twins
<1>2. /\ \A f \in {"client", "started", "arrival", "checked", "ended", "known", "deviated", "first"} :
            e[f] = t[f]
      /\ OnTheWay(e) <=> OnTheWay(t)
      /\ OnTheWay(t) => e.stage = JourneyStage(t)
  BY <1>1, EvaluatedRow
<1>3. OnTheWay(t) /\ m.deviated = t.deviated /\ JourneyStage(m) = JourneyStage(t)
  BY SameStage DEF Twins, SameJourneyRow
<1>4. /\ qd \in BOOLEAN /\ rd = qd /\ qf \in Int /\ rf \in Int
      /\ rf # NoTime /\ rf <= clock /\ (qf # NoTime => rf <= qf)
  BY <1>1, <1>2, <1>3 DEF Twins, JourneyRow, NoTime
<1> HIDE DEF e, qd, rd, qf, rf
<1>q. q = Moved(m, clock, qd, qf) /\ r = Moved(e, clock, rd, rf)
  BY DEF Moved
<1> HIDE DEF q, r
<1>5. /\ q \in JourneyRow /\ r \in JourneyRow
      /\ q.known = clock /\ r.known = clock /\ q.deviated = qd /\ r.deviated = rd
      /\ q.first = qf /\ r.first = rf
      /\ \A f \in {"client", "started", "arrival", "checked", "ended", "stage", "status"} :
            q[f] = m[f] /\ r[f] = e[f]
  <2>0. clock \in Int
    OBVIOUS
  <2>1. /\ Moved(m, clock, qd, qf) \in JourneyRow
        /\ Moved(m, clock, qd, qf).known = clock
        /\ Moved(m, clock, qd, qf).deviated = qd
        /\ Moved(m, clock, qd, qf).first = qf
        /\ \A f \in {"client", "started", "arrival", "checked", "ended", "stage", "status"} :
              Moved(m, clock, qd, qf)[f] = m[f]
    <3>1. m \in JourneyRow /\ qd \in BOOLEAN /\ qf \in Int
      BY <1>1, <1>4, Zenon
    <3> HIDE DEF JourneyRow
    <3> QED BY <2>0, <3>1, MovedRow, SMT
  <2>2. /\ Moved(e, clock, rd, rf) \in JourneyRow
        /\ Moved(e, clock, rd, rf).known = clock
        /\ Moved(e, clock, rd, rf).deviated = rd
        /\ Moved(e, clock, rd, rf).first = rf
        /\ \A f \in {"client", "started", "arrival", "checked", "ended", "stage", "status"} :
              Moved(e, clock, rd, rf)[f] = e[f]
    <3>1. rd \in BOOLEAN /\ rf \in Int
      BY <1>4, Zenon
    <3>2. e \in JourneyRow
      BY <1>1, Zenon
    <3> QED BY <2>0, <3>1, <3>2, MovedRow, SMT
  <2> QED BY <1>q, <2>1, <2>2, Zenon
<1>6. JourneyStage(q) = JourneyStage(m)
  BY <1>5, SameStageOfFields
<1>7. OnTheWay(q) /\ OnTheWay(r) /\ OnTheWay(e)
  BY <1>2, <1>3, <1>5 DEF OnTheWay
<1>8. SameJourneyRow(q, r)
  BY <1>2, <1>3, <1>4, <1>5, <1>7 DEF Twins, SameJourneyRow
<1>9. Twins(q, r)
  BY <1>4, <1>5, <1>6, <1>8 DEF Twins
<1>10. Detour(e, far) = Detour(m, far)
  BY <1>2, <1>3 DEF Detour
<1> QED BY <1>5, <1>7, <1>9, <1>10 DEF q, r, qd, rd, qf, rf, e

LEMMA TwinsChecked ==
    ASSUME NEW m, NEW t, Twins(m, t), clock \in Nat
    PROVE  Twins(CheckedIn(m), CheckedIn(t)) /\ CheckedIn(m).client = m.client
<1> DEFINE q == CheckedIn(m)
           r == CheckedIn(t)
<1>1. m \in JourneyRow /\ t \in JourneyRow
  BY DEF Twins
<1>2. /\ q \in JourneyRow /\ r \in JourneyRow
      /\ q.arrival = NoTime /\ q.checked = clock /\ q.stage = 0 /\ q.status = "ACTIVE"
      /\ r.arrival = NoTime /\ r.checked = clock /\ r.stage = 0 /\ r.status = "ACTIVE"
      /\ \A f \in {"client", "started", "ended", "known", "deviated", "first"} :
            q[f] = m[f] /\ r[f] = t[f]
  BY <1>1, CheckedRow
<1> HIDE DEF q, r
<1>3. SameJourneyRow(q, r)
  BY <1>2 DEF Twins, SameJourneyRow, OnTheWay
<1>4. JourneyStage(q) \in 0..2
  BY <1>2, StageOfRow
<1>5. Twins(q, r)
  BY <1>2, <1>3, <1>4 DEF Twins
<1> QED BY <1>2, <1>5 DEF q, r

LEMMA TwinsOver ==
    ASSUME NEW m, NEW t, Twins(m, t), clock \in Nat, NEW reason
    PROVE  Twins(Over(m, reason), Over(t, reason)) /\ ~OnTheWay(Over(m, reason))
<1> DEFINE status == IF reason = "arrived" THEN "COMPLETED" ELSE "CANCELLED"
           q == Over(m, reason)
           r == Over(t, reason)
<1>1. m \in JourneyRow /\ t \in JourneyRow /\ status \in {"COMPLETED", "CANCELLED"}
  BY DEF Twins
<1>2. q = Closed(m, status) /\ r = Closed(t, status)
  BY DEF Over, Closed
<1> HIDE DEF status, q, r
<1>3. /\ q \in JourneyRow /\ r \in JourneyRow
      /\ q.status = status /\ q.ended = clock /\ r.status = status /\ r.ended = clock
      /\ \A f \in {"client", "started", "arrival", "checked", "known", "deviated", "first", "stage"} :
            q[f] = m[f] /\ r[f] = t[f]
  <2>1. /\ q \in JourneyRow /\ q.status = status /\ q.ended = clock
        /\ \A f \in {"client", "started", "arrival", "checked", "known", "deviated", "first", "stage"} :
              q[f] = m[f]
    BY <1>1, <1>2, ClosedRow
  <2>2. /\ r \in JourneyRow /\ r.status = status /\ r.ended = clock
        /\ \A f \in {"client", "started", "arrival", "checked", "known", "deviated", "first", "stage"} :
              r[f] = t[f]
    BY <1>1, <1>2, ClosedRow
  <2> QED BY <2>1, <2>2
<1>4. ~OnTheWay(q) /\ ~OnTheWay(r)
  BY <1>1, <1>3 DEF OnTheWay
<1>5. Twins(q, r)
  BY <1>3, <1>4 DEF Twins, SameJourneyRow
<1> QED BY <1>4, <1>5 DEF q, r

LEMMA TwinsNew ==
    ASSUME NEW c \in Clients, clock \in Nat, NEW arrival \in Int
    PROVE  Twins(Journey(c, arrival), Journey(c, arrival)) /\ Journey(c, arrival).client = c
<1> DEFINE q == Journey(c, arrival)
<1>1. q = [client |-> c, status |-> "ACTIVE", started |-> clock, arrival |-> arrival,
           checked |-> NoTime, ended |-> NoTime, known |-> NoTime, deviated |-> FALSE,
           first |-> NoTime, stage |-> 0]
  <2>1. /\ DOMAIN q = {"client", "status", "started", "arrival", "checked", "ended", "known",
                       "deviated", "first", "stage"}
        /\ q.client = c /\ q.status = "ACTIVE" /\ q.started = clock /\ q.arrival = arrival
        /\ q.checked = NoTime /\ q.ended = NoTime /\ q.known = NoTime /\ q.deviated = FALSE
        /\ q.first = NoTime /\ q.stage = 0
    BY DEF Journey, NoJourney
  <2>2. q = [f \in DOMAIN q |-> q[f]]
    BY DEF Journey
  <2> HIDE DEF q
  <2> QED BY <2>1, <2>2
<1>2. q \in JourneyRow /\ q.client = c /\ q.first = NoTime /\ q.stage = 0 /\ OnTheWay(q)
  BY <1>1 DEF JourneyRow, NoTime, OnTheWay
<1> HIDE DEF q
<1>3. JourneyStage(q) \in 0..2
  BY <1>2, StageOfRow
<1>4. Twins(q, q)
  BY <1>2, <1>3 DEF Twins, SameJourneyRow, NoTime, JourneyRow
<1> QED BY <1>2, <1>4 DEF q

\* A row of both builds is written.
LEMMA RowsWritten ==
    ASSUME JourneyRows, NEW i \in Ids, NEW m, NEW t, Twins(m, t),
           OnTheWay(m) => \A j \in Ids \ {i} : OnTheWay(memory[j]) => memory[j].client # m.client,
           memory' = [memory EXCEPT ![i] = m], table' = [table EXCEPT ![i] = t],
           used' \in 0..MaxRows, service' = service, clock' = clock
    PROVE  JourneyRows'
<1>1. /\ DOMAIN memory' = Ids /\ memory' = [j \in Ids |-> memory'[j]]
      /\ DOMAIN table' = Ids /\ table' = [j \in Ids |-> table'[j]]
      /\ memory'[i] = m /\ table'[i] = t
      /\ \A j \in Ids \ {i} : memory'[j] = memory[j] /\ table'[j] = table[j]
  BY DEF JourneyRows
<1>2. ASSUME NEW j \in Ids PROVE Twins(memory[j], table[j])'
  <2>1. PICK a, b : a = memory'[j] /\ b = table'[j]
    OBVIOUS
  <2>2. Twins(a, b)
    BY <1>1, <2>1 DEF JourneyRows
  <2> QED BY <2>1, <2>2 DEF Twins, JourneyStage
<1>4. \A j, k \in Ids : (OnTheWay(memory'[j]) /\ OnTheWay(memory'[k])
                           /\ memory'[j].client = memory'[k].client) => j = k
  BY <1>1 DEF JourneyRows
<1> QED BY <1>1, <1>2, <1>4 DEF JourneyRows, Ids

\* The journey's own row: it stays the client's, and is not brought to life.
LEMMA OwnRowWritten ==
    ASSUME JourneyRows, NEW i \in Ids, NEW m, NEW t, Twins(m, t),
           OnTheWay(m) => OnTheWay(memory[i]) /\ m.client = memory[i].client,
           memory' = [memory EXCEPT ![i] = m], table' = [table EXCEPT ![i] = t],
           used' = used, service' = service, clock' = clock
    PROVE  JourneyRows'
<1>1. OnTheWay(m) => \A j \in Ids \ {i} : OnTheWay(memory[j]) => memory[j].client # m.client
  BY DEF JourneyRows
<1> QED BY <1>1, RowsWritten DEF JourneyRows

LEMMA NotesKept ==
    ASSUME JourneyNotes, NEW m, NEW t, Both(m, t), t.notes \subseteq m.notes,
           \A n \in m.notes \ t.notes : n[2] \in Droppable
    PROVE  JourneyNotes'
<1>1. /\ notes'.memory = notes.memory \cup m.notes
      /\ notes'.table = notes.table \cup t.notes
  BY DEF Both, Recorded
<1> QED BY <1>1 DEF JourneyNotes

\* Nothing is written, and nothing is recorded.
LEMMA NothingWritten ==
    ASSUME JourneyInv, NEW a, NEW b, Both(Refused(memory, a), Refused(table, b)), used' = used
    PROVE  JourneyInv'
<1>1. /\ memory' = memory /\ table' = table /\ service' = service /\ clock' = clock
      /\ notes'.memory = notes.memory /\ notes'.table = notes.table
  BY DEF Both, Refused, Outcome, Recorded
<1>2. JourneyNotes'
  BY <1>1 DEF JourneyInv, JourneyNotes
<1>3. JourneyRows'
  BY <1>1 DEF JourneyInv, JourneyRows, Twins, JourneyStage, Ids
<1> QED BY <1>2, <1>3 DEF JourneyInv

LEMMA KindsOfOne ==
    ASSUME NEW i, NEW M, NEW T, T \subseteq M, M \ T \subseteq Droppable
    PROVE  /\ ({i} \X T) \subseteq ({i} \X M)
           /\ \A n \in ({i} \X M) \ ({i} \X T) : n[2] \in Droppable
<1> HIDE DEF Droppable
<1> QED OBVIOUS

\* Both builds hold the same journeys of a client, the same of them live, one at most.
LEMMA LiveAlike ==
    ASSUME JourneyRows, NEW c \in Clients
    PROVE  /\ JourneysOf(memory, c) = JourneysOf(table, c)
           /\ LiveJourneys(memory, c) = LiveJourneys(table, c)
           /\ LiveJourneys(memory, c) \subseteq JourneysOf(memory, c)
           /\ \A i \in LiveJourneys(memory, c) : LiveJourneys(memory, c) = {i}
<1>1. \A i \in Ids : /\ memory[i].client = table[i].client
                     /\ OnTheWay(memory[i]) <=> OnTheWay(table[i])
  BY DEF JourneyRows, Twins, SameJourneyRow
<1>2. JourneysOf(memory, c) = JourneysOf(table, c)
  BY <1>1 DEF JourneysOf
<1>3. LiveJourneys(memory, c) = LiveJourneys(table, c)
  BY <1>1, <1>2 DEF LiveJourneys, JourneysOf
<1>4. \A i, j \in LiveJourneys(memory, c) : i = j
  BY DEF JourneyRows, LiveJourneys, JourneysOf
<1> QED BY <1>2, <1>3, <1>4 DEF LiveJourneys

LEMMA ActiveAlike ==
    ASSUME JourneyRows, NEW c \in Clients
    PROVE  \/ /\ LiveJourneys(memory, c) = {}
              /\ ActiveJourneyInMemory(c) = Refused(memory, "none")
              /\ ActiveJourneyInTable(c) = Refused(table, "none")
           \/ \E i \in LiveJourneys(memory, c) :
                 /\ ActiveJourneyInMemory(c) = ReadJourney(memory, i)
                 /\ ActiveJourneyInTable(c) = ReadJourney(table, i)
<1>1. LiveJourneys(memory, c) = LiveJourneys(table, c)
  BY LiveAlike
<1>2. CASE LiveJourneys(memory, c) = {}
  <2>1. ActiveJourneyInMemory(c) = Refused(memory, "none")
    BY <1>2 DEF ActiveJourneyInMemory, ActiveJourney
  <2>2. ActiveJourneyInTable(c) = Refused(table, "none")
    BY <1>1, <1>2 DEF ActiveJourneyInTable, ActiveJourney
  <2> QED BY <1>2, <2>1, <2>2
<1>3. CASE LiveJourneys(memory, c) # {}
  <2>1. PICK i \in LiveJourneys(memory, c) : LiveJourneys(memory, c) = {i}
    BY <1>3, LiveAlike
  <2>2. i \in Nat
    BY BoundsAssumption DEF LiveJourneys, JourneysOf, Ids
  <2>3. Oldest({i}) = i /\ Newest({i}) = i
    BY <2>2 DEF Oldest, Newest
  <2>4. ActiveJourneyInMemory(c) = ReadJourney(memory, i)
    BY <2>1, <2>3 DEF ActiveJourneyInMemory, ActiveJourney
  <2>5. ActiveJourneyInTable(c) = ReadJourney(table, i)
    BY <1>1, <2>1, <2>3 DEF ActiveJourneyInTable, ActiveJourney
  <2> QED BY <2>4, <2>5
<1> QED BY <1>2, <1>3

\* A journey is read, and evaluated, in both builds.
LEMMA JourneyRead ==
    ASSUME JourneyInv, NEW i \in Ids,
           memory' = ReadJourney(memory, i).rows, table' = ReadJourney(table, i).rows,
           used' = used, service' = service, clock' = clock
    PROVE  JourneyRows'
<1>1. clock \in Nat /\ Twins(memory[i], table[i]) /\ JourneyRows /\ memory[i] \in JourneyRow
  BY DEF JourneyInv, JourneyRows, Twins
<1>2. Twins(Evaluated(memory[i]), Evaluated(table[i]))
  BY <1>1, TwinsEvaluated
<1>3. /\ memory' = [memory EXCEPT ![i] = Evaluated(memory[i])]
      /\ table' = [table EXCEPT ![i] = Evaluated(table[i])]
  BY DEF ReadJourney, Outcome
<1>4. /\ OnTheWay(Evaluated(memory[i])) <=> OnTheWay(memory[i])
      /\ Evaluated(memory[i]).client = memory[i].client
  BY <1>1, EvaluatedRow
<1>5. PICK m, t : m = Evaluated(memory[i]) /\ t = Evaluated(table[i])
  OBVIOUS
<1>6. /\ Twins(m, t) /\ memory' = [memory EXCEPT ![i] = m] /\ table' = [table EXCEPT ![i] = t]
      /\ OnTheWay(m) => OnTheWay(memory[i]) /\ m.client = memory[i].client
  BY <1>2, <1>3, <1>4, <1>5
<1> QED BY <1>1, <1>6, OwnRowWritten

LEMMA ReadingKeeps ==
    ASSUME JourneyInv, NEW i \in Ids,
           Both(ReadJourney(memory, i), ReadJourney(table, i)), used' = used
    PROVE  JourneyInv'
<1>1. clock \in Nat /\ Twins(memory[i], table[i])
  BY DEF JourneyInv, JourneyRows
<1>2. JourneyRows'
  BY JourneyRead DEF Both
<1>3. Overdue(table[i]) \subseteq Overdue(memory[i])
  BY <1>1, TwinsEvaluated
<1>4. Overdue(memory[i]) \subseteq Droppable
  BY DEF Overdue, Droppable
<1>5. /\ ReadJourney(memory, i).notes = {i} \X Overdue(memory[i])
      /\ ReadJourney(table, i).notes = {i} \X Overdue(table[i])
  BY DEF ReadJourney, Outcome
<1>6. /\ ReadJourney(table, i).notes \subseteq ReadJourney(memory, i).notes
      /\ \A n \in ReadJourney(memory, i).notes \ ReadJourney(table, i).notes : n[2] \in Droppable
  BY <1>3, <1>4, <1>5, KindsOfOne
<1>7. JourneyNotes'
  BY <1>6, NotesKept DEF JourneyInv
<1> QED BY <1>2, <1>7 DEF JourneyInv

\* A handler records the same kinds over both builds.
LEMMA SameKinds ==
    ASSUME JourneyInv, JourneyRows', NEW i, NEW a, NEW b, NEW kinds,
           Both(Outcome(a, "ok", {i}, kinds), Outcome(b, "ok", {i}, kinds))
    PROVE  JourneyInv'
<1>1. /\ Outcome(a, "ok", {i}, kinds).notes = Outcome(b, "ok", {i}, kinds).notes
  BY DEF Outcome
<1>2. JourneyNotes'
  BY <1>1, NotesKept DEF JourneyInv
<1> QED BY <1>2 DEF JourneyInv

LEMMA StartKeeps ==
    ASSUME JourneyInv, StartJourney
    PROVE  JourneyInv'
<1> PICK c \in Devices, arrival \in {NoTime, clock + 1} :
        /\ used < MaxRows
        /\ used' = IF StartJourneyInTable(c, arrival).code = "ok" THEN NewId ELSE used
        /\ Both(StartJourneyInMemory(c, arrival), StartJourneyInTable(c, arrival))
  BY DEF StartJourney
<1>1. c \in Clients /\ JourneyRows /\ clock \in Nat /\ arrival \in Int
  BY DevicesAssumption DEF JourneyInv, JourneyRows, NoTime
<1>2. CASE LiveJourneys(memory, c) = {}
  <2> DEFINE row == Journey(c, arrival)
             kinds == {"guardian_started"}
             a == [memory EXCEPT ![NewId] = row]
             b == [table EXCEPT ![NewId] = row]
  <2>1. /\ ActiveJourneyInMemory(c) = Refused(memory, "none")
        /\ ActiveJourneyInTable(c) = Refused(table, "none")
    BY <1>1, <1>2, ActiveAlike
  <2>2. /\ Refused(memory, "none").code # "ok" /\ Refused(memory, "none").rows = memory
        /\ Refused(table, "none").code # "ok" /\ Refused(table, "none").rows = table
    BY DEF Refused, Outcome
  <2>3. /\ StartJourneyInMemory(c, arrival) = Outcome(a, "ok", {NewId}, kinds)
        /\ StartJourneyInTable(c, arrival) = Outcome(b, "ok", {NewId}, kinds)
    BY <2>1, <2>2 DEF StartJourneyInMemory, StartJourneyInTable, OpenJourney
  <2>4. used' = NewId /\ memory' = a /\ table' = b /\ service' = service /\ clock' = clock
    BY <2>3 DEF Outcome, Both
  <2>5. NewId \in Ids /\ NewId \in 0..MaxRows
    BY <1>1, BoundsAssumption DEF JourneyRows, NewId, Ids
  <2>6. Twins(row, row) /\ row.client = c
    BY <1>1, TwinsNew
  <2>7. \A j \in Ids \ {NewId} : OnTheWay(memory[j]) => memory[j].client # row.client
    BY <1>2, <2>6 DEF LiveJourneys, JourneysOf
  <2>8. JourneyRows'
    <3> HIDE DEF row
    <3> QED BY <1>1, <2>4, <2>5, <2>6, <2>7, RowsWritten
  <2> HIDE DEF a, b, kinds
  <2> QED BY <2>3, <2>8, SameKinds
<1>3. CASE LiveJourneys(memory, c) # {}
  <2>1. PICK i \in LiveJourneys(memory, c) :
           /\ ActiveJourneyInMemory(c) = ReadJourney(memory, i)
           /\ ActiveJourneyInTable(c) = ReadJourney(table, i)
    BY <1>1, <1>3, ActiveAlike
  <2>2. ReadJourney(memory, i).code = "ok" /\ ReadJourney(table, i).code = "ok"
    BY DEF ReadJourney, Outcome
  <2>3. /\ StartJourneyInMemory(c, arrival) = Refused(ReadJourney(memory, i).rows, "conflict")
        /\ StartJourneyInTable(c, arrival) = Refused(ReadJourney(table, i).rows, "conflict")
    BY <2>1, <2>2 DEF StartJourneyInMemory, StartJourneyInTable, OpenJourney
  <2>4. /\ memory' = ReadJourney(memory, i).rows /\ table' = ReadJourney(table, i).rows
        /\ used' = used /\ service' = service /\ clock' = clock
        /\ notes'.memory = notes.memory /\ notes'.table = notes.table
    BY <2>3 DEF Refused, Outcome, Both, Recorded
  <2>5. i \in Ids
    BY DEF LiveJourneys, JourneysOf
  <2>6. JourneyRows'
    BY <2>4, <2>5, JourneyRead
  <2>7. JourneyNotes'
    BY <2>4 DEF JourneyInv, JourneyNotes
  <2> QED BY <2>6, <2>7 DEF JourneyInv
<1> QED BY <1>2, <1>3

LEMMA GetKeeps ==
    ASSUME JourneyInv, GetJourney \/ GetActiveJourney
    PROVE  JourneyInv'
<1>0. JourneyRows
  BY DEF JourneyInv
<1>1. CASE GetJourney
  <2> PICK c \in Devices, i \in 0..used :
          Calling /\ Both(GetJourneyInMemory(c, i), GetJourneyInTable(c, i))
    BY <1>1 DEF GetJourney
  <2>1. c \in Clients /\ JourneysOf(memory, c) = JourneysOf(table, c) /\ used' = used
    BY <1>0, DevicesAssumption, LiveAlike DEF Calling
  <2>2. CASE i \in JourneysOf(memory, c)
    <3>1. i \in Ids /\ i # Malformed
      BY <2>2, BoundsAssumption DEF JourneysOf, Ids, Malformed
    <3>2. /\ GetJourneyInMemory(c, i) = ReadJourney(memory, i)
          /\ GetJourneyInTable(c, i) = ReadJourney(table, i)
      BY <2>1, <2>2, <3>1 DEF GetJourneyInMemory, GetJourneyInTable
    <3> QED BY <2>1, <3>1, <3>2, ReadingKeeps
  <2>3. CASE i \notin JourneysOf(memory, c)
    <3>1. GetJourneyInMemory(c, i) = Refused(memory, "unknown")
      BY <2>3 DEF GetJourneyInMemory
    <3>2. \E b : GetJourneyInTable(c, i) = Refused(table, b)
      BY <2>1, <2>3 DEF GetJourneyInTable
    <3> QED BY <2>1, <3>1, <3>2, NothingWritten
  <2> QED BY <2>2, <2>3
<1>2. CASE GetActiveJourney
  <2> PICK c \in Devices : Calling /\ Both(ActiveJourneyInMemory(c), ActiveJourneyInTable(c))
    BY <1>2 DEF GetActiveJourney
  <2>1. c \in Clients /\ used' = used /\ LiveJourneys(memory, c) \subseteq Ids
    BY DevicesAssumption DEF Calling, LiveJourneys, JourneysOf
  <2> QED BY <1>0, <2>1, ActiveAlike, ReadingKeeps, NothingWritten
<1> QED BY <1>1, <1>2

LEMMA FixKeeps ==
    ASSUME JourneyInv, FixJourney
    PROVE  JourneyInv'
<1> PICK c \in Devices, i \in 0..used, far \in BOOLEAN :
        Calling /\ Both(FixInMemory(c, i, far), FixInTable(c, i, far))
  BY DEF FixJourney
<1>1. /\ JourneyRows /\ clock \in Nat /\ c \in Clients /\ used' = used
      /\ JourneysOf(memory, c) = JourneysOf(table, c)
      /\ LiveJourneys(memory, c) = LiveJourneys(table, c)
  BY DevicesAssumption, LiveAlike DEF JourneyInv, JourneyRows, Calling
<1>2. CASE i \in LiveJourneys(memory, c)
  <2>1. /\ i \in Ids /\ i # Malformed /\ i \in JourneysOf(table, c) /\ OnTheWay(memory[i])
        /\ Twins(memory[i], table[i])
    <3>1. i \in JourneysOf(memory, c) /\ OnTheWay(memory[i])
      BY <1>2 DEF LiveJourneys
    <3>2. i \in Ids /\ i # Malformed
      BY <3>1, BoundsAssumption DEF JourneysOf, Ids, Malformed
    <3> QED BY <1>1, <3>1, <3>2 DEF JourneyRows
  <2> DEFINE m == memory[i]
             e == Evaluated(table[i])
             q == [m EXCEPT !.known = clock, !.deviated = @ \/ far,
                            !.first = IF far /\ ~m.deviated THEN clock ELSE @]
             r == [e EXCEPT !.known = clock, !.deviated = @ \/ far,
                            !.first = IF @ = NoTime THEN clock ELSE @]
             a == [memory EXCEPT ![i] = q]
             b == [table EXCEPT ![i] = r]
  <2>2. /\ Twins(q, r) /\ OnTheWay(q) /\ q.client = m.client
        /\ OnTheWay(e) /\ Detour(e, far) = Detour(m, far)
    BY <1>1, <2>1, TwinsFixed
  <2>3. FixInMemory(c, i, far) = Outcome(a, "ok", {i}, Detour(m, far))
    BY <1>2 DEF FixInMemory
  <2>4. FixInTable(c, i, far) = Outcome(b, "ok", {i}, Detour(m, far))
    <3> DEFINE read == GetJourneyInTable(c, i)
    <3>1. read = ReadJourney(table, i)
      BY <2>1 DEF GetJourneyInTable
    <3>2. read.code = "ok" /\ read.rows = [table EXCEPT ![i] = e]
      BY <3>1 DEF ReadJourney, Outcome
    <3>3. read.rows[i] = e
      BY <1>1, <2>1, <3>2 DEF JourneyRows
    <3> HIDE DEF read, e
    <3>4. [read.rows EXCEPT ![i].known = clock, ![i].deviated = @ \/ far,
                            ![i].first = IF @ = NoTime THEN clock ELSE @] = b
      BY <1>1, <2>1, <3>2, <3>3 DEF JourneyRows
    <3>5. FixInTable(c, i, far)
            = Outcome([read.rows EXCEPT ![i].known = clock, ![i].deviated = @ \/ far,
                                        ![i].first = IF @ = NoTime THEN clock ELSE @],
                      "ok", {i}, Detour(e, far))
      BY <2>2, <3>2, <3>3 DEF FixInTable, read
    <3> QED BY <2>2, <3>4, <3>5
  <2>5. memory' = a /\ table' = b /\ service' = service /\ clock' = clock
    BY <2>3, <2>4 DEF Both, Outcome
  <2>6. JourneyRows'
    <3> HIDE DEF q, r
    <3> QED BY <1>1, <2>1, <2>2, <2>5, OwnRowWritten
  <2> HIDE DEF a, b, m
  <2> QED BY <2>3, <2>4, <2>6, SameKinds
<1>3. CASE i \notin LiveJourneys(memory, c)
  <2>1. FixInMemory(c, i, far) = Refused(memory, "unknown")
    BY <1>3 DEF FixInMemory
  <2>2. \E b : FixInTable(c, i, far) = Refused(table, b)
    <3> DEFINE read == GetJourneyInTable(c, i)
    <3>1. CASE read.code # "ok"
      BY <3>1 DEF FixInTable
    <3>2. CASE read.code = "ok"
      <4>1. read = ReadJourney(table, i) /\ i \in JourneysOf(table, c)
        BY <3>2 DEF GetJourneyInTable, Refused, Outcome
      <4>2. i \in Ids /\ ~OnTheWay(table[i]) /\ table[i] \in JourneyRow
        BY <1>1, <1>3, <4>1 DEF LiveJourneys, JourneysOf, JourneyRows, Twins
      <4>3. Evaluated(table[i]) = table[i]
        BY <1>1, <4>2, EvaluatedRow
      <4>4. read.rows = [table EXCEPT ![i] = table[i]]
        BY <4>1, <4>3 DEF ReadJourney, Outcome
      <4>5. read.rows = table
        BY <1>1, <4>2, <4>4 DEF JourneyRows
      <4> HIDE DEF read
      <4>6. FixInTable(c, i, far) = Refused(read.rows, "unknown")
        BY <3>2, <4>2, <4>5 DEF FixInTable, read
      <4> QED BY <4>5, <4>6
    <3> QED BY <3>1, <3>2
  <2> QED BY <1>1, <2>1, <2>2, NothingWritten
<1> QED BY <1>2, <1>3

LEMMA CheckKeeps ==
    ASSUME JourneyInv, CheckJourney
    PROVE  JourneyInv'
<1> PICK c \in Devices, i \in 0..used :
        Calling /\ Both(CheckJourneyInMemory(c, i), CheckJourneyInTable(c, i))
  BY DEF CheckJourney
<1>1. /\ JourneyRows /\ clock \in Nat /\ c \in Clients /\ used' = used
      /\ LiveJourneys(memory, c) = LiveJourneys(table, c)
  BY DevicesAssumption, LiveAlike DEF JourneyInv, JourneyRows, Calling
<1>2. CASE i \in LiveJourneys(memory, c)
  <2>1. i \in JourneysOf(memory, c) /\ OnTheWay(memory[i])
    BY <1>2 DEF LiveJourneys
  <2>2. i \in Ids /\ i # Malformed
    BY <2>1, BoundsAssumption DEF JourneysOf, Ids, Malformed
  <2> DEFINE q == CheckedIn(memory[i])
             r == CheckedIn(table[i])
             a == [memory EXCEPT ![i] = q]
             b == [table EXCEPT ![i] = r]
  <2>3. Twins(q, r) /\ q.client = memory[i].client
    BY <1>1, <2>2, TwinsChecked DEF JourneyRows
  <2>4. /\ CheckJourneyInMemory(c, i) = Outcome(a, "ok", {i}, {})
        /\ CheckJourneyInTable(c, i) = Outcome(b, "ok", {i}, {})
    BY <1>1, <1>2, <2>2 DEF CheckJourneyInMemory, CheckJourneyInTable, Kept
  <2>5. memory' = a /\ table' = b /\ service' = service /\ clock' = clock
    BY <2>4 DEF Both, Outcome
  <2>6. JourneyRows'
    <3> HIDE DEF q, r
    <3> QED BY <1>1, <2>1, <2>2, <2>3, <2>5, OwnRowWritten
  <2> HIDE DEF a, b
  <2> QED BY <2>4, <2>6, SameKinds
<1>3. CASE i \notin LiveJourneys(memory, c)
  <2>1. CheckJourneyInMemory(c, i) = Refused(memory, "unknown")
    BY <1>3 DEF CheckJourneyInMemory
  <2>2. \E b : CheckJourneyInTable(c, i) = Refused(table, b)
    BY <1>1, <1>3 DEF CheckJourneyInTable
  <2> QED BY <1>1, <2>1, <2>2, NothingWritten
<1> QED BY <1>2, <1>3

LEMMA EndKeeps ==
    ASSUME JourneyInv, EndJourney
    PROVE  JourneyInv'
<1> PICK c \in Devices, i \in 0..used, reason \in {"arrived", "cancelled"} :
        Calling /\ Both(EndJourneyInMemory(c, i, reason), EndJourneyInTable(c, i, reason))
  BY DEF EndJourney
<1>1. /\ JourneyRows /\ clock \in Nat /\ c \in Clients /\ used' = used
      /\ LiveJourneys(memory, c) = LiveJourneys(table, c)
  BY DevicesAssumption, LiveAlike DEF JourneyInv, JourneyRows, Calling
<1>2. CASE i \in LiveJourneys(memory, c)
  <2>1. i \in JourneysOf(memory, c) /\ OnTheWay(memory[i])
    BY <1>2 DEF LiveJourneys
  <2>2. i \in Ids /\ i # Malformed
    BY <2>1, BoundsAssumption DEF JourneysOf, Ids, Malformed
  <2> DEFINE q == Over(memory[i], reason)
             r == Over(table[i], reason)
             a == [memory EXCEPT ![i] = q]
             b == [table EXCEPT ![i] = r]
  <2>3. Twins(q, r) /\ ~OnTheWay(q)
    BY <1>1, <2>2, TwinsOver DEF JourneyRows
  <2>4. /\ EndJourneyInMemory(c, i, reason) = Outcome(a, "ok", {i}, Farewell(reason))
        /\ EndJourneyInTable(c, i, reason) = Outcome(b, "ok", {i}, Farewell(reason))
    BY <1>1, <1>2, <2>2 DEF EndJourneyInMemory, EndJourneyInTable
  <2>5. memory' = a /\ table' = b /\ service' = service /\ clock' = clock
    BY <2>4 DEF Both, Outcome
  <2>6. JourneyRows'
    <3> HIDE DEF q, r
    <3> QED BY <1>1, <2>1, <2>2, <2>3, <2>5, OwnRowWritten
  <2> HIDE DEF a, b
  <2> QED BY <2>4, <2>6, SameKinds
<1>3. CASE i \notin LiveJourneys(memory, c)
  <2>1. EndJourneyInMemory(c, i, reason) = Refused(memory, "unknown")
    BY <1>3 DEF EndJourneyInMemory
  <2>2. \E b : EndJourneyInTable(c, i, reason) = Refused(table, b)
    BY <1>1, <1>3 DEF EndJourneyInTable
  <2> QED BY <1>1, <2>1, <2>2, NothingWritten
<1> QED BY <1>2, <1>3

\* Time only brings stages nearer.
LEMMA TickKeeps ==
    ASSUME JourneyInv, BuildsTick
    PROVE  JourneyInv'
<1>1. /\ memory' = memory /\ table' = table /\ used' = used /\ notes' = notes
      /\ service' = service /\ clock' = clock + 1 /\ clock \in Nat /\ clock' \in Nat
  BY DEF BuildsTick, JourneyInv, JourneyRows
<1>2. ASSUME NEW i \in Ids PROVE Twins(memory[i], table[i])'
  <2>1. PICK a, b : a = memory[i] /\ b = table[i]
    OBVIOUS
  <2>2. Twins(a, b) /\ a \in JourneyRow /\ b.first \in Int
    BY <2>1 DEF JourneyInv, JourneyRows, Twins, JourneyRow
  <2>3. JourneyDeadline(a) \in Int
    BY <1>1, <2>2, StageOfRow
  <2>4. JourneyStage(a) <= JourneyStage(a)'
    BY <1>1, <2>3, DelaysAssumption DEF JourneyStage
  <2>5. JourneyStage(a) \in 0..2 /\ JourneyStage(a)' \in 0..2 /\ a.stage \in 0..2
    BY <1>1, <2>2, <2>3, StageOfRow, DelaysAssumption DEF JourneyStage, JourneyRow
  <2>6. OnTheWay(a) => a.stage <= JourneyStage(a)'
    BY <2>2, <2>4, <2>5 DEF Twins
  <2>7. b.first <= clock'
    BY <1>1, <2>2 DEF Twins
  <2>8. Twins(a, b)'
    BY <2>2, <2>6, <2>7 DEF Twins
  <2> QED BY <1>1, <2>1, <2>8 DEF Twins
<1>3. JourneyRows'
  BY <1>1, <1>2 DEF JourneyInv, JourneyRows, Ids
<1>4. JourneyNotes'
  BY <1>1 DEF JourneyInv, JourneyNotes
<1> QED BY <1>3, <1>4 DEF JourneyInv

\* What both builds answer, in any state the invariant allows.
LEMMA JourneyAnswers ==
    ASSUME JourneyInv, NEW c \in Clients
    PROVE  /\ SameAnswer(StartJourneyInMemory(c, NoTime), StartJourneyInTable(c, NoTime))
           /\ \A i \in Known :
                  /\ SameAnswer(FixInMemory(c, i, TRUE), FixInTable(c, i, TRUE))
                  /\ SameAnswer(CheckJourneyInMemory(c, i), CheckJourneyInTable(c, i))
                  /\ SameAnswer(EndJourneyInMemory(c, i, "arrived"),
                                EndJourneyInTable(c, i, "arrived"))
<1>1. /\ JourneyRows /\ clock \in Nat
      /\ JourneysOf(memory, c) = JourneysOf(table, c)
      /\ LiveJourneys(memory, c) = LiveJourneys(table, c)
      /\ LiveJourneys(memory, c) \subseteq JourneysOf(memory, c)
  BY LiveAlike DEF JourneyInv, JourneyRows
<1>2. SameAnswer(StartJourneyInMemory(c, NoTime), StartJourneyInTable(c, NoTime))
  BY <1>1, ActiveAlike DEF StartJourneyInMemory, StartJourneyInTable, OpenJourney, ReadJourney,
                           Refused, Outcome, SameAnswer
<1>3. ASSUME NEW i \in Known
      PROVE  /\ SameAnswer(FixInMemory(c, i, TRUE), FixInTable(c, i, TRUE))
             /\ SameAnswer(CheckJourneyInMemory(c, i), CheckJourneyInTable(c, i))
             /\ SameAnswer(EndJourneyInMemory(c, i, "arrived"), EndJourneyInTable(c, i, "arrived"))
  <2>1. i # Malformed /\ i \in Ids
    BY <1>1, BoundsAssumption DEF Known, Malformed, JourneyRows, Ids
  <2>2. SameAnswer(CheckJourneyInMemory(c, i), CheckJourneyInTable(c, i))
    BY <1>1, <2>1 DEF CheckJourneyInMemory, CheckJourneyInTable, Kept, Refused, Outcome, SameAnswer
  <2>3. SameAnswer(EndJourneyInMemory(c, i, "arrived"), EndJourneyInTable(c, i, "arrived"))
    BY <1>1, <2>1 DEF EndJourneyInMemory, EndJourneyInTable, Refused, Outcome, SameAnswer
  <2>4. SameAnswer(FixInMemory(c, i, TRUE), FixInTable(c, i, TRUE))
    <3> DEFINE read == GetJourneyInTable(c, i)
    <3>1. CASE i \notin JourneysOf(table, c)
      <4>1. FixInMemory(c, i, TRUE).code = "unknown" /\ FixInMemory(c, i, TRUE).ids = {}
        BY <1>1, <3>1 DEF FixInMemory, Refused, Outcome
      <4>2. read = Refused(table, "unknown")
        BY <2>1, <3>1 DEF GetJourneyInTable
      <4>3. FixInTable(c, i, TRUE) = Refused(table, "unknown")
        BY <4>2 DEF FixInTable, Refused, Outcome
      <4>4. FixInTable(c, i, TRUE).code = "unknown" /\ FixInTable(c, i, TRUE).ids = {}
        <5>1. Refused(table, "unknown").code = "unknown" /\ Refused(table, "unknown").ids = {}
          BY DEF Refused, Outcome
        <5> QED BY <4>3, <5>1, Zenon
      <4> HIDE DEF read
      <4> QED BY <4>1, <4>4, Zenon DEF SameAnswer
    <3>2. CASE i \in JourneysOf(table, c)
      <4>1. read = ReadJourney(table, i)
        BY <2>1, <3>2 DEF GetJourneyInTable
      <4>2. read.code = "ok" /\ read.rows = [table EXCEPT ![i] = Evaluated(table[i])]
        BY <4>1 DEF ReadJourney, Outcome
      <4>3. table[i] \in JourneyRow /\ read.rows[i] = Evaluated(table[i])
        BY <1>1, <2>1, <4>2 DEF JourneyRows, Twins
      <4>4. OnTheWay(read.rows[i]) <=> i \in LiveJourneys(memory, c)
        BY <1>1, <3>2, <4>3, EvaluatedRow DEF LiveJourneys
      <4> HIDE DEF read
      <4>5. CASE i \in LiveJourneys(memory, c)
        <5>1. FixInMemory(c, i, TRUE).code = "ok" /\ FixInMemory(c, i, TRUE).ids = {i}
          BY <4>5 DEF FixInMemory, Outcome
        <5>2. FixInTable(c, i, TRUE).code = "ok" /\ FixInTable(c, i, TRUE).ids = {i}
          BY <4>2, <4>4, <4>5 DEF FixInTable, Outcome, read
        <5> QED BY <5>1, <5>2 DEF SameAnswer
      <4>6. CASE i \notin LiveJourneys(memory, c)
        <5>1. FixInMemory(c, i, TRUE).code = "unknown" /\ FixInMemory(c, i, TRUE).ids = {}
          BY <4>6 DEF FixInMemory, Refused, Outcome
        <5>2. FixInTable(c, i, TRUE).code = "unknown" /\ FixInTable(c, i, TRUE).ids = {}
          BY <4>2, <4>4, <4>6 DEF FixInTable, Refused, Outcome, read
        <5> QED BY <5>1, <5>2 DEF SameAnswer
      <4> QED BY <4>5, <4>6
    <3> QED BY <3>1, <3>2
  <2> QED BY <2>2, <2>3, <2>4
<1> QED BY <1>2, <1>3

LEMMA JourneyStart == JourneyInit => JourneyInv
<1> SUFFICES ASSUME JourneyInit PROVE JourneyInv
  OBVIOUS
<1>1. /\ service = "guardian" /\ used = 0 /\ clock = 0 /\ notes.memory = {} /\ notes.table = {}
      /\ memory = [i \in Ids |-> NoJourney] /\ table = [i \in Ids |-> NoJourney]
  BY DEF JourneyInit, BuildsInit
<1>2. NoJourney \in JourneyRow /\ ~OnTheWay(NoJourney) /\ NoJourney.first = NoTime
      /\ NoJourney.stage = 0
  BY DEF NoJourney, JourneyRow, OnTheWay, NoTime
<1>3. Twins(NoJourney, NoJourney)
  <2> PICK row : row = NoJourney
    OBVIOUS
  <2>1. row \in JourneyRow /\ ~OnTheWay(row) /\ row.first = NoTime /\ row.stage = 0 /\ NoTime <= clock
    BY <1>1, <1>2 DEF NoTime
  <2>2. Twins(row, row)
    BY <2>1 DEF Twins, SameJourneyRow
  <2> QED BY <2>2
<1> HIDE DEF NoJourney
<1>4. JourneyRows
  BY <1>1, <1>2, <1>3, BoundsAssumption DEF JourneyRows
<1>5. JourneyNotes
  BY <1>1 DEF JourneyNotes
<1> QED BY <1>4, <1>5 DEF JourneyInv

LEMMA JourneyStep == JourneyInv /\ [JourneyNext]_buildVars => JourneyInv'
<1> SUFFICES ASSUME JourneyInv, [JourneyNext]_buildVars PROVE JourneyInv'
  OBVIOUS
<1>1. CASE UNCHANGED buildVars
  BY <1>1 DEF buildVars, JourneyInv, JourneyRows, JourneyNotes, Twins, JourneyStage, Ids
<1> QED
  BY <1>1, StartKeeps, GetKeeps, FixKeeps, CheckKeeps, EndKeeps, TickKeeps DEF JourneyNext

\* For every grace and delay: both builds hold the same journeys and answer alike, the
\* table is never a stage behind, and all it leaves out is what a location update drops
\* (safety/guardian.py).
THEOREM JourneysAgree == JourneySpec => []GuardianBuildsAgree
<1>1. JourneyInv => GuardianBuildsAgree
  <2> SUFFICES ASSUME JourneyInv PROVE GuardianBuildsAgree
    OBVIOUS
  <2>1. \A i \in Ids : /\ SameJourneyRow(memory[i], table[i])
                       /\ memory[i].first # NoTime => table[i].first <= memory[i].first
    BY DEF JourneyInv, JourneyRows, Twins
  <2> QED
    BY <2>1, JourneyAnswers DEF GuardianBuildsAgree, JourneyInv, JourneyNotes, Droppable
<1> QED BY <1>1, JourneyStart, JourneyStep, PTL DEF JourneySpec

-----------------------------------------------------------------------------
(* SOS sessions and location sharing.                                      *)

SessionRow ==
    [client : Clients \cup {NoOne}, kind : {"none", "sos", "sharing"},
     status : {"FREE", "ACTIVE", "ENDED", "EXPIRED", "STOPPED"},
     expires : Int, ended : Int, fix : Int]

\* How the rows of the two builds may differ: until a sharing has expired, not at all in
\* their status.
SessionTwins(m, t) ==
    /\ m \in SessionRow /\ t \in SessionRow
    /\ SameSession(m, t)
    /\ m.kind = "sharing" /\ clock <= m.expires => m.status = t.status

IsActiveSos(row) == row.kind = "sos" /\ row.status = "ACTIVE"
OneSosEach(rows) ==
    \A i, j \in Ids :
        (IsActiveSos(rows[i]) /\ IsActiveSos(rows[j]) /\ rows[i].client = rows[j].client) => i = j

SosRows ==
    /\ service = "sos"
    /\ used \in 0..MaxRows
    /\ clock \in Nat
    /\ memory \in [Ids -> SessionRow]
    /\ table \in [Ids -> SessionRow]
    /\ \A i \in Ids : SessionTwins(memory[i], table[i])
    /\ OneSosEach(memory)

SosInv == SosRows /\ notes.memory \subseteq notes.table

\* What the calls do to a row.
Lapse(row) == IF Lapsed(row) THEN [row EXCEPT !.status = "EXPIRED"] ELSE row
Placed(row) == [row EXCEPT !.fix = clock]
Finished(row, status) == [row EXCEPT !.status = status, !.ended = clock]

LEMMA LapsedRow ==
    ASSUME NEW row \in SessionRow
    PROVE  /\ Lapse(row) \in SessionRow
           /\ Lapse(row).status = IF Lapsed(row) THEN "EXPIRED" ELSE row.status
           /\ \A f \in {"client", "kind", "expires", "ended", "fix"} : Lapse(row)[f] = row[f]
<1> DEFINE q == [row EXCEPT !.status = "EXPIRED"]
<1>1. /\ q \in SessionRow /\ q.status = "EXPIRED"
      /\ \A f \in {"client", "kind", "expires", "ended", "fix"} : q[f] = row[f]
  BY DEF SessionRow
<1>2. Lapse(row) = IF Lapsed(row) THEN q ELSE row
  BY DEF Lapse
<1> HIDE DEF q
<1> QED BY <1>1, <1>2

LEMMA PlacedRow ==
    ASSUME NEW row \in SessionRow, clock \in Nat
    PROVE  /\ Placed(row) \in SessionRow /\ Placed(row).fix = clock
           /\ \A f \in {"client", "kind", "status", "expires", "ended"} : Placed(row)[f] = row[f]
BY DEF Placed, SessionRow

LEMMA FinishedRow ==
    ASSUME NEW row \in SessionRow, clock \in Nat, NEW status \in {"ENDED", "STOPPED"}
    PROVE  /\ Finished(row, status) \in SessionRow /\ Finished(row, status).status = status
           /\ \A f \in {"client", "kind", "expires", "fix"} : Finished(row, status)[f] = row[f]
<1>1. clock \in Int /\ status \in {"FREE", "ACTIVE", "ENDED", "EXPIRED", "STOPPED"}
  OBVIOUS
<1>2. Finished(row, status) \in SessionRow
  BY <1>1 DEF Finished, SessionRow
<1>3. Finished(row, status).status = status
  BY DEF Finished, SessionRow
<1>4. \A f \in {"client", "kind", "expires", "fix"} : Finished(row, status)[f] = row[f]
  BY DEF Finished, SessionRow
<1> QED BY <1>2, <1>3, <1>4

\* A sharing that has expired may be closed in either build alone.
LEMMA TwinsLapse ==
    ASSUME NEW m, NEW t, SessionTwins(m, t), clock \in Nat, m.kind = "sharing"
    PROVE  SessionTwins(Lapse(m), t) /\ SessionTwins(m, Lapse(t)) /\ SessionTwins(Lapse(m), Lapse(t))
<1>1. m \in SessionRow /\ t \in SessionRow /\ t.kind = "sharing" /\ m.expires = t.expires
      /\ m.expires \in Int
  BY DEF SessionTwins, SameSession, SessionRow
<1>2. PICK q, r : q = Lapse(m) /\ r = Lapse(t)
  OBVIOUS
<1>3. /\ q \in SessionRow /\ r \in SessionRow
      /\ q.status = IF Lapsed(m) THEN "EXPIRED" ELSE m.status
      /\ r.status = IF Lapsed(t) THEN "EXPIRED" ELSE t.status
      /\ \A f \in {"client", "kind", "expires", "ended", "fix"} : q[f] = m[f] /\ r[f] = t[f]
  BY <1>1, <1>2, LapsedRow
<1>4. clock <= m.expires => q.status = m.status /\ r.status = t.status
  BY <1>1, <1>3 DEF Lapsed
<1>5. (Open(q) <=> Open(m)) /\ (Open(r) <=> Open(t))
  BY <1>1, <1>3, <1>4 DEF Open, Lapsed
<1>6. SessionTwins(q, t) /\ SessionTwins(m, r) /\ SessionTwins(q, r)
  BY <1>1, <1>3, <1>4, <1>5 DEF SessionTwins, SameSession
<1> QED BY <1>2, <1>6

\* A position: the table takes it while the sharing is open, memory for an instant more.
LEMMA TwinsPlaced ==
    ASSUME NEW m, NEW t, SessionTwins(m, t), clock \in Nat, m.kind = "sharing"
    PROVE  LET e == Lapse(m)
               q == IF e.status = "ACTIVE" THEN Placed(e) ELSE e
               r == IF t.status = "ACTIVE" /\ t.expires > clock THEN Placed(t) ELSE t
           IN  SessionTwins(q, r)
<1>1. m \in SessionRow /\ t \in SessionRow /\ t.kind = "sharing" /\ m.expires = t.expires
      /\ m.expires \in Int
  BY DEF SessionTwins, SameSession, SessionRow
<1>2. PICK e : e = Lapse(m)
  OBVIOUS
<1>3. /\ SessionTwins(e, t) /\ e.kind = "sharing" /\ e.expires = m.expires /\ e \in SessionRow
      /\ e.status = "ACTIVE" => m.status = "ACTIVE" /\ clock <= m.expires
  BY <1>1, <1>2, TwinsLapse, LapsedRow DEF Lapsed
<1>4. PICK q, r : q = Placed(e) /\ r = Placed(t)
  OBVIOUS
<1>5. /\ q \in SessionRow /\ r \in SessionRow /\ q.fix = clock /\ r.fix = clock
      /\ \A f \in {"client", "kind", "status", "expires", "ended"} : q[f] = e[f] /\ r[f] = t[f]
  BY <1>1, <1>3, <1>4, PlacedRow
<1>6. (Open(q) <=> Open(e)) /\ (Open(r) <=> Open(t))
  BY <1>5 DEF Open
<1>7. CASE e.status = "ACTIVE" /\ clock < m.expires
  <2>1. t.status = "ACTIVE" /\ t.expires > clock
    BY <1>1, <1>3, <1>7 DEF SessionTwins
  <2>2. SessionTwins(q, r)
    BY <1>1, <1>3, <1>5, <1>6 DEF SessionTwins, SameSession
  <2> QED BY <1>2, <1>4, <1>7, <2>1, <2>2
<1>8. CASE e.status = "ACTIVE" /\ ~(clock < m.expires)
  <2>1. ~(t.expires > clock) /\ clock = m.expires
    BY <1>1, <1>3, <1>8
  <2>2. SessionTwins(q, t)
    BY <1>1, <1>3, <1>5, <1>6, <2>1 DEF SessionTwins, SameSession
  <2> QED BY <1>2, <1>4, <1>8, <2>1, <2>2
<1>9. CASE e.status # "ACTIVE"
  <2>1. ~(t.status = "ACTIVE" /\ t.expires > clock)
    BY <1>1, <1>3, <1>9 DEF SessionTwins
  <2> QED BY <1>2, <1>3, <1>9, <2>1
<1> QED BY <1>7, <1>8, <1>9

\* A stop: what memory still takes for active is active in the table.
LEMMA TwinsStopped ==
    ASSUME NEW m, NEW t, SessionTwins(m, t), clock \in Nat, m.kind = "sharing"
    PROVE  LET e == Lapse(m)
               q == IF e.status = "ACTIVE" THEN Finished(e, "STOPPED") ELSE e
               r == IF t.status = "ACTIVE" THEN Finished(t, "STOPPED") ELSE t
           IN  SessionTwins(q, r) /\ (e.status = "ACTIVE" => t.status = "ACTIVE")
<1>1. m \in SessionRow /\ t \in SessionRow /\ t.kind = "sharing" /\ m.expires = t.expires
      /\ m.expires \in Int
  BY DEF SessionTwins, SameSession, SessionRow
<1>2. PICK e : e = Lapse(m)
  OBVIOUS
<1>3. /\ SessionTwins(e, t) /\ e.kind = "sharing" /\ e.expires = m.expires /\ e \in SessionRow
      /\ e.status = "ACTIVE" => m.status = "ACTIVE" /\ clock <= m.expires
  BY <1>1, <1>2, TwinsLapse, LapsedRow DEF Lapsed
<1>4. PICK q, r : q = Finished(e, "STOPPED") /\ r = Finished(t, "STOPPED")
  OBVIOUS
<1>5. /\ q \in SessionRow /\ r \in SessionRow /\ q.status = "STOPPED" /\ r.status = "STOPPED"
      /\ \A f \in {"client", "kind", "expires", "fix"} : q[f] = e[f] /\ r[f] = t[f]
  BY <1>1, <1>3, <1>4, FinishedRow
<1>6. ~Open(q) /\ ~Open(r)
  BY <1>5 DEF Open
<1>7. e.status = "ACTIVE" => t.status = "ACTIVE"
  BY <1>1, <1>3 DEF SessionTwins
<1>8. CASE e.status = "ACTIVE"
  <2>1. SessionTwins(q, r)
    BY <1>1, <1>3, <1>5, <1>6 DEF SessionTwins, SameSession
  <2> QED BY <1>2, <1>4, <1>7, <1>8, <2>1
<1>9. CASE e.status # "ACTIVE" /\ t.status = "ACTIVE"
  <2>1. ~(clock <= e.expires) /\ ~Open(e)
    BY <1>1, <1>3, <1>9 DEF SessionTwins, Open
  <2>2. SessionTwins(e, r)
    BY <1>1, <1>3, <1>5, <1>6, <2>1 DEF SessionTwins, SameSession
  <2> QED BY <1>2, <1>4, <1>9, <2>2
<1>10. CASE e.status # "ACTIVE" /\ t.status # "ACTIVE"
  BY <1>2, <1>3, <1>10
<1> QED BY <1>8, <1>9, <1>10

\* Both builds hold the same sessions of a client; the SOS sessions are equal, and one of
\* them is active at most.
LEMMA SessionsAlike ==
    ASSUME SosRows, NEW c \in Clients
    PROVE  /\ OfKind(memory, c, "sos") = OfKind(table, c, "sos")
           /\ OfKind(memory, c, "sharing") = OfKind(table, c, "sharing")
           /\ \A i \in OfKind(memory, c, "sos") : i \in Ids /\ memory[i] = table[i]
           /\ \A i \in OfKind(memory, c, "sharing") : i \in Ids /\ memory[i].kind = "sharing"
           /\ ActiveOf(memory, c, "sos") = ActiveOf(table, c, "sos")
           /\ ActiveOf(memory, c, "sos") \subseteq OfKind(memory, c, "sos")
           /\ \A i \in ActiveOf(memory, c, "sos") : ActiveOf(memory, c, "sos") = {i}
<1>1. \A i \in Ids : /\ memory[i].client = table[i].client
                     /\ memory[i].kind = table[i].kind
                     /\ memory[i].kind = "sos" => memory[i] = table[i]
  BY DEF SosRows, SessionTwins, SameSession
<1>2. /\ OfKind(memory, c, "sos") = OfKind(table, c, "sos")
      /\ OfKind(memory, c, "sharing") = OfKind(table, c, "sharing")
      /\ \A i \in OfKind(memory, c, "sos") : i \in Ids /\ memory[i] = table[i]
      /\ \A i \in OfKind(memory, c, "sharing") : i \in Ids /\ memory[i].kind = "sharing"
  BY <1>1 DEF OfKind
<1>3. ActiveOf(memory, c, "sos") = ActiveOf(table, c, "sos")
  BY <1>2 DEF ActiveOf
<1>4. \A i, j \in ActiveOf(memory, c, "sos") : i = j
  BY DEF SosRows, OneSosEach, IsActiveSos, ActiveOf, OfKind
<1> QED BY <1>2, <1>3, <1>4 DEF ActiveOf

\* What a call has to show of the rows it leaves.
LEMMA RowsTwinned ==
    ASSUME SosRows, NEW a \in [Ids -> SessionRow], NEW b \in [Ids -> SessionRow],
           \A i \in Ids : SessionTwins(a[i], b[i]), OneSosEach(a),
           memory' = a, table' = b, used' \in 0..MaxRows, service' = service, clock' = clock
    PROVE  SosRows'
<1>1. ASSUME NEW i \in Ids PROVE SessionTwins(memory[i], table[i])'
  <2>1. PICK m, t : m = a[i] /\ t = b[i]
    OBVIOUS
  <2>2. SessionTwins(m, t)
    BY <2>1
  <2> QED BY <2>1, <2>2 DEF SessionTwins, SameSession, Open
<1>2. OneSosEach(memory)'
  BY DEF OneSosEach, Ids
<1> QED BY <1>1, <1>2 DEF SosRows, Ids, SessionRow

\* A row of both builds is written, and no SOS session becomes active.
LEMMA TwinsWritten ==
    ASSUME SosRows, NEW i \in Ids, NEW m, NEW t, SessionTwins(m, t),
           IsActiveSos(m) => IsActiveSos(memory[i]) /\ m.client = memory[i].client,
           memory' = [memory EXCEPT ![i] = m], table' = [table EXCEPT ![i] = t],
           used' = used, service' = service, clock' = clock
    PROVE  SosRows'
<1>0. m \in SessionRow /\ t \in SessionRow
  BY DEF SessionTwins
<1>1. PICK a, b : a = memory' /\ b = table'
  OBVIOUS
<1>2. /\ a \in [Ids -> SessionRow] /\ b \in [Ids -> SessionRow]
      /\ a[i] = m /\ b[i] = t
      /\ \A j \in Ids : j # i => a[j] = memory[j] /\ b[j] = table[j]
  BY <1>0, <1>1 DEF SosRows
<1>3. \A j \in Ids : SessionTwins(a[j], b[j])
  BY <1>2 DEF SosRows
<1>4. \A j \in Ids : IsActiveSos(a[j]) => IsActiveSos(memory[j]) /\ a[j].client = memory[j].client
  BY <1>2
<1>5. OneSosEach(a)
  BY <1>4 DEF OneSosEach, SosRows
<1> QED BY <1>1, <1>2, <1>3, <1>5, RowsTwinned DEF SosRows

\* Either build closes a sharing that has expired, or leaves its rows.
MayLapse(rows, rowsNext) ==
    \/ rowsNext = rows
    \/ \E i \in Ids : rows[i].kind = "sharing" /\ rowsNext = [rows EXCEPT ![i] = Lapse(rows[i])]

LEMMA LapsesKeep ==
    ASSUME SosRows, MayLapse(memory, memory'), MayLapse(table, table'),
           used' = used, service' = service, clock' = clock
    PROVE  SosRows'
<1>0. clock \in Nat
  BY DEF SosRows
<1>1. PICK a, b : a = memory' /\ b = table'
  OBVIOUS
<1>2. ASSUME NEW i \in Ids
      PROVE  /\ a[i] = memory[i] \/ (memory[i].kind = "sharing" /\ a[i] = Lapse(memory[i]))
             /\ b[i] = table[i] \/ (table[i].kind = "sharing" /\ b[i] = Lapse(table[i]))
  BY <1>1 DEF MayLapse, SosRows
<1>3. ASSUME NEW i \in Ids
      PROVE  SessionTwins(a[i], b[i]) /\ (IsActiveSos(a[i]) => a[i] = memory[i])
  <2>1. SessionTwins(memory[i], table[i]) /\ memory[i].kind = table[i].kind
        /\ memory[i] \in SessionRow
    BY DEF SosRows, SessionTwins, SameSession
  <2>2. SessionTwins(a[i], b[i])
    BY <1>0, <1>2, <2>1, TwinsLapse
  <2>3. IsActiveSos(a[i]) => a[i] = memory[i]
    BY <1>2, <2>1, LapsedRow DEF IsActiveSos
  <2> QED BY <2>2, <2>3
<1>4. a \in [Ids -> SessionRow] /\ b \in [Ids -> SessionRow]
  <2>1. \A i \in Ids : a[i] \in SessionRow /\ b[i] \in SessionRow
    BY <1>3 DEF SessionTwins
  <2>2. a = [i \in Ids |-> a[i]] /\ b = [i \in Ids |-> b[i]]
    BY <1>1 DEF MayLapse, SosRows
  <2> QED BY <2>1, <2>2
<1>5. OneSosEach(a)
  BY <1>3 DEF OneSosEach, SosRows
<1> QED BY <1>1, <1>3, <1>4, <1>5, RowsTwinned DEF SosRows

\* Reading a sharing.
LEMMA ReadingLapses ==
    ASSUME NEW rows, NEW c, NEW i
    PROVE  /\ i \in OfKind(rows, c, "sharing") =>
                  /\ i \in Ids /\ rows[i].kind = "sharing"
                  /\ ReadSharing(rows, c, i).code = "ok" /\ ReadSharing(rows, c, i).ids = {i}
                  /\ ReadSharing(rows, c, i).rows = Expired(rows, i)
           /\ i \notin OfKind(rows, c, "sharing") => ReadSharing(rows, c, i) = Refused(rows, "unknown")
           /\ ReadSharing(rows, c, i).notes = {}
<1>1. CASE i \in OfKind(rows, c, "sharing")
  <2>1. ReadSharing(rows, c, i) = Kept(Expired(rows, i), {i})
    BY <1>1 DEF ReadSharing
  <2>2. i \in Ids /\ rows[i].kind = "sharing"
    BY <1>1 DEF OfKind
  <2> QED BY <1>1, <2>1, <2>2 DEF Kept, Outcome
<1>2. CASE i \notin OfKind(rows, c, "sharing")
  <2>1. ReadSharing(rows, c, i) = Refused(rows, "unknown")
    BY <1>2 DEF ReadSharing
  <2> QED BY <1>2, <2>1 DEF Refused, Outcome
<1> QED BY <1>1, <1>2

LEMMA ExpiredIsLapse ==
    ASSUME NEW rows \in [Ids -> SessionRow], NEW i \in Ids
    PROVE  Expired(rows, i) = [rows EXCEPT ![i] = Lapse(rows[i])]
<1>1. CASE Lapsed(rows[i])
  BY <1>1 DEF Lapse, Expired
<1>2. CASE ~Lapsed(rows[i])
  <2>1. Lapse(rows[i]) = rows[i] /\ Expired(rows, i) = rows
    BY <1>2 DEF Lapse, Expired
  <2> QED BY <2>1
<1> QED BY <1>1, <1>2

LEMMA ReadingMayLapse ==
    ASSUME NEW rows \in [Ids -> SessionRow], NEW c, NEW i
    PROVE  MayLapse(rows, ReadSharing(rows, c, i).rows)
<1>1. CASE i \in OfKind(rows, c, "sharing")
  <2>1. /\ i \in Ids /\ rows[i].kind = "sharing"
        /\ ReadSharing(rows, c, i).rows = Expired(rows, i)
    BY <1>1, ReadingLapses
  <2>2. Expired(rows, i) = [rows EXCEPT ![i] = Lapse(rows[i])]
    BY <2>1, ExpiredIsLapse
  <2> QED BY <2>1, <2>2 DEF MayLapse
<1>2. CASE i \notin OfKind(rows, c, "sharing")
  <2>1. ReadSharing(rows, c, i) = Refused(rows, "unknown")
    BY <1>2, ReadingLapses
  <2>2. Refused(rows, "unknown").rows = rows
    BY DEF Refused, Outcome
  <2> QED BY <2>1, <2>2 DEF MayLapse
<1> QED BY <1>1, <1>2

\* Nothing is recorded, or the same over both builds.
LEMMA HistoryKept ==
    ASSUME notes.memory \subseteq notes.table, NEW m, NEW t, Both(m, t), m.notes \subseteq t.notes
    PROVE  notes'.memory \subseteq notes'.table
BY DEF Both, Recorded

LEMMA NoSessionWritten ==
    ASSUME SosInv, NEW a, NEW b, Both(Refused(memory, a), Refused(table, b)),
           used' \in 0..MaxRows
    PROVE  SosInv'
<1>1. /\ memory' = memory /\ table' = table /\ service' = service /\ clock' = clock
      /\ notes'.memory = notes.memory /\ notes'.table = notes.table
  BY DEF Both, Refused, Outcome, Recorded
<1>2. SosRows'
  BY <1>1, RowsTwinned DEF SosInv, SosRows
<1> QED BY <1>1, <1>2 DEF SosInv

\* A new session, of either kind.
LEMMA SessionCreated ==
    ASSUME SosInv, used < MaxRows, used' = NewId, NEW row, SessionTwins(row, row),
           IsActiveSos(row) => \A i \in Ids : IsActiveSos(memory[i]) => memory[i].client # row.client,
           NEW kinds,
           Both(Outcome([memory EXCEPT ![NewId] = row], "ok", {NewId}, kinds),
                Outcome([table EXCEPT ![NewId] = row], "ok", {NewId}, kinds))
    PROVE  SosInv'
<1>1. /\ row \in SessionRow /\ SosRows /\ NewId \in Ids /\ NewId \in 0..MaxRows
  BY BoundsAssumption DEF SosInv, SosRows, SessionTwins, NewId, Ids
<1>2. PICK a, b : a = [memory EXCEPT ![NewId] = row] /\ b = [table EXCEPT ![NewId] = row]
  OBVIOUS
<1>3. /\ a \in [Ids -> SessionRow] /\ b \in [Ids -> SessionRow]
      /\ a[NewId] = row /\ b[NewId] = row
      /\ \A j \in Ids : j # NewId => a[j] = memory[j] /\ b[j] = table[j]
  BY <1>1, <1>2 DEF SosRows
<1>4. \A j \in Ids : SessionTwins(a[j], b[j])
  BY <1>1, <1>3 DEF SosRows
<1>5. OneSosEach(a)
  BY <1>1, <1>3 DEF SosRows, OneSosEach
<1>6. memory' = a /\ table' = b /\ service' = service /\ clock' = clock
  BY <1>2 DEF Both, Outcome
<1>7. SosRows'
  BY <1>1, <1>3, <1>4, <1>5, <1>6, RowsTwinned
<1>8. Both(Outcome(a, "ok", {NewId}, kinds), Outcome(b, "ok", {NewId}, kinds))
  BY <1>2
<1>9. Outcome(a, "ok", {NewId}, kinds).notes = Outcome(b, "ok", {NewId}, kinds).notes
  BY DEF Outcome
<1>10. (notes.memory \subseteq notes.table)'
  BY <1>8, <1>9, HistoryKept DEF SosInv
<1> QED BY <1>7, <1>10 DEF SosInv

LEMMA CreateSosKeeps ==
    ASSUME SosInv, CreateSos
    PROVE  SosInv'
<1> PICK c \in Clients : Creating /\ Both(SosInMemory(c), SosInTable(c))
  BY DEF CreateSos
<1>1. /\ SosRows /\ used < MaxRows /\ used' = NewId /\ NewId \in 0..MaxRows
      /\ ActiveOf(memory, c, "sos") = ActiveOf(table, c, "sos")
  BY SessionsAlike, BoundsAssumption DEF SosInv, SosRows, Creating, NewId
<1>2. CASE ActiveOf(memory, c, "sos") # {}
  <2>1. SosInMemory(c) = Refused(memory, "conflict") /\ SosInTable(c) = Refused(table, "conflict")
    BY <1>1, <1>2 DEF SosInMemory, SosInTable
  <2> QED BY <1>1, <2>1, NoSessionWritten
<1>3. CASE ActiveOf(memory, c, "sos") = {}
  <2>1. PICK row : row = SosRow(c)
    OBVIOUS
  <2>2. row \in SessionRow /\ row.kind = "sos" /\ row.client = c
    BY <2>1 DEF SosRow, SessionRow, SosInv, SosRows, NoTime
  <2>3. SessionTwins(row, row)
    BY <2>2 DEF SessionTwins, SameSession
  <2>4. \A i \in Ids : IsActiveSos(memory[i]) => memory[i].client # row.client
    BY <1>3, <2>2 DEF IsActiveSos, ActiveOf, OfKind
  <2>5. Both(Outcome([memory EXCEPT ![NewId] = row], "ok", {NewId}, {"sos_started"}),
             Outcome([table EXCEPT ![NewId] = row], "ok", {NewId}, {"sos_started"}))
    BY <1>1, <1>3, <2>1 DEF SosInMemory, SosInTable
  <2> QED BY <1>1, <2>3, <2>4, <2>5, SessionCreated
<1> QED BY <1>2, <1>3

LEMMA StartSharingKeeps ==
    ASSUME SosInv, StartSharing
    PROVE  SosInv'
<1> PICK c \in Clients, owner \in NoOwner..used :
        Creating /\ Both(ShareInMemory(c, owner), ShareInTable(c, owner))
  BY DEF StartSharing
<1>1. /\ SosRows /\ used < MaxRows /\ used' = NewId /\ NewId \in 0..MaxRows
      /\ OfKind(memory, c, "sos") = OfKind(table, c, "sos")
  BY SessionsAlike, BoundsAssumption DEF SosInv, SosRows, Creating, NewId
<1>2. Owned(memory, c, owner) <=> Owned(table, c, owner)
  BY <1>1 DEF Owned
<1>3. owner = Malformed => ~Owned(memory, c, owner)
  BY BoundsAssumption DEF Malformed, Owned, OfKind, Ids, NoOwner
<1>4. CASE ~Owned(memory, c, owner)
  <2>1. ShareInMemory(c, owner) = Refused(memory, "unknown")
    BY <1>4 DEF ShareInMemory
  <2>2. \E b : ShareInTable(c, owner) = Refused(table, b)
    BY <1>2, <1>4 DEF ShareInTable
  <2> QED BY <1>1, <2>1, <2>2, NoSessionWritten
<1>5. CASE Owned(memory, c, owner)
  <2>1. PICK row : row = SharingRow(c)
    OBVIOUS
  <2>2. row \in SessionRow /\ row.kind = "sharing"
    BY <2>1, ShareTTLAssumption DEF SharingRow, SessionRow, SosInv, SosRows, NoTime
  <2>3. SessionTwins(row, row) /\ ~IsActiveSos(row)
    BY <2>2 DEF SessionTwins, SameSession, IsActiveSos
  <2>4. ShareInMemory(c, owner)
          = Outcome([memory EXCEPT ![NewId] = row], "ok", {NewId}, {"location_sharing_started"})
    BY <1>5, <2>1 DEF ShareInMemory
  <2>5. ShareInTable(c, owner)
          = Outcome([table EXCEPT ![NewId] = row], "ok", {NewId}, {"location_sharing_started"})
    BY <1>2, <1>3, <1>5, <2>1 DEF ShareInTable
  <2>6. Both(Outcome([memory EXCEPT ![NewId] = row], "ok", {NewId}, {"location_sharing_started"}),
             Outcome([table EXCEPT ![NewId] = row], "ok", {NewId}, {"location_sharing_started"}))
    BY <2>4, <2>5
  <2> QED BY <1>1, <2>3, <2>6, SessionCreated
<1> QED BY <1>4, <1>5

\* A call that writes one row of both builds.
LEMMA SessionWritten ==
    ASSUME SosInv, NEW i \in Ids, NEW m, NEW t, SessionTwins(m, t),
           IsActiveSos(m) => IsActiveSos(memory[i]) /\ m.client = memory[i].client,
           NEW p, NEW q, Both(p, q), p.rows = [memory EXCEPT ![i] = m],
           q.rows = [table EXCEPT ![i] = t], p.notes \subseteq q.notes, used' = used
    PROVE  SosInv'
<1>1. /\ memory' = [memory EXCEPT ![i] = m] /\ table' = [table EXCEPT ![i] = t]
      /\ service' = service /\ clock' = clock
  BY DEF Both
<1>2. SosRows'
  BY <1>1, TwinsWritten DEF SosInv
<1>3. (notes.memory \subseteq notes.table)'
  BY HistoryKept DEF SosInv
<1> QED BY <1>2, <1>3 DEF SosInv

LEMMA SosFixKeeps ==
    ASSUME SosInv, SosFix
    PROVE  SosInv'
<1> PICK c \in Clients, i \in 0..used : Calling /\ Both(SosFixInMemory(c, i), SosFixInTable(c, i))
  BY DEF SosFix
<1>1. /\ SosRows /\ used' = used /\ used \in 0..MaxRows
      /\ ActiveOf(memory, c, "sos") = ActiveOf(table, c, "sos")
  BY SessionsAlike DEF SosInv, SosRows, Calling
<1>2. CASE i \in ActiveOf(memory, c, "sos")
  <2>1. /\ i \in Ids /\ memory[i] = table[i] /\ IsActiveSos(memory[i])
        /\ memory[i] \in SessionRow /\ clock \in Nat
    BY <1>1, <1>2, SessionsAlike DEF ActiveOf, OfKind, IsActiveSos, SosRows
  <2>2. i # Malformed
    BY <2>1, BoundsAssumption DEF Ids, Malformed
  <2>3. PICK m : m = Placed(memory[i])
    OBVIOUS
  <2>4. SessionTwins(m, m) /\ m.client = memory[i].client
    BY <2>1, <2>3, PlacedRow DEF SessionTwins, SameSession
  <2>5. SosFixInMemory(c, i) = Kept([memory EXCEPT ![i] = m], {i})
    BY <1>2, <2>3 DEF SosFixInMemory, Placed
  <2>6. SosFixInTable(c, i) = Kept([table EXCEPT ![i] = m], {i})
    BY <1>1, <1>2, <2>1, <2>2, <2>3 DEF SosFixInTable, Placed
  <2>7. PICK p, q : p = SosFixInMemory(c, i) /\ q = SosFixInTable(c, i)
    OBVIOUS
  <2>8. /\ p.rows = [memory EXCEPT ![i] = m] /\ q.rows = [table EXCEPT ![i] = m]
        /\ p.notes = q.notes /\ Both(p, q)
    BY <2>5, <2>6, <2>7 DEF Kept, Outcome
  <2> QED BY <1>1, <2>1, <2>4, <2>8, SessionWritten
<1>3. CASE i \notin ActiveOf(memory, c, "sos")
  <2>1. SosFixInMemory(c, i) = Refused(memory, "unknown")
    BY <1>3 DEF SosFixInMemory
  <2>2. \E b : SosFixInTable(c, i) = Refused(table, b)
    BY <1>1, <1>3 DEF SosFixInTable
  <2> QED BY <1>1, <2>1, <2>2, NoSessionWritten
<1> QED BY <1>2, <1>3

LEMMA EndSosKeeps ==
    ASSUME SosInv, EndSos
    PROVE  SosInv'
<1> PICK c \in Clients, i \in 0..used : Calling /\ Both(EndSosInMemory(c, i), EndSosInTable(c, i))
  BY DEF EndSos
<1>1. /\ SosRows /\ used' = used /\ used \in 0..MaxRows
      /\ ActiveOf(memory, c, "sos") = ActiveOf(table, c, "sos")
  BY SessionsAlike DEF SosInv, SosRows, Calling
<1>2. CASE i \in ActiveOf(memory, c, "sos")
  <2>1. /\ i \in Ids /\ memory[i] = table[i]
        /\ memory[i] \in SessionRow /\ clock \in Nat
    BY <1>1, <1>2, SessionsAlike DEF ActiveOf, OfKind, SosRows
  <2>2. i # Malformed
    BY <2>1, BoundsAssumption DEF Ids, Malformed
  <2>3. PICK m : m = Finished(memory[i], "ENDED")
    OBVIOUS
  <2>4. m \in SessionRow /\ m.status = "ENDED" /\ m.kind = memory[i].kind
    BY <2>1, <2>3, FinishedRow
  <2>5. SessionTwins(m, m) /\ ~IsActiveSos(m)
    BY <2>4 DEF SessionTwins, SameSession, IsActiveSos
  <2>6. EndSosInMemory(c, i) = Outcome([memory EXCEPT ![i] = m], "ok", {i}, {"sos_ended"})
    BY <1>1, <1>2, <2>1, <2>3 DEF EndSosInMemory, Finished, SosRows
  <2>7. EndSosInTable(c, i) = Outcome([table EXCEPT ![i] = m], "ok", {i}, {"sos_ended"})
    BY <1>1, <1>2, <2>1, <2>2, <2>3 DEF EndSosInTable, Finished, SosRows
  <2>8. PICK p, q : p = EndSosInMemory(c, i) /\ q = EndSosInTable(c, i)
    OBVIOUS
  <2>9. /\ p.rows = [memory EXCEPT ![i] = m] /\ q.rows = [table EXCEPT ![i] = m]
        /\ p.notes = q.notes /\ Both(p, q)
    BY <2>6, <2>7, <2>8 DEF Outcome
  <2> QED BY <1>1, <2>1, <2>5, <2>9, SessionWritten
<1>3. CASE i \notin ActiveOf(memory, c, "sos")
  <2>1. EndSosInMemory(c, i) = Refused(memory, "unknown")
    BY <1>3 DEF EndSosInMemory
  <2>2. \E b : EndSosInTable(c, i) = Refused(table, b)
    BY <1>1, <1>3 DEF EndSosInTable
  <2> QED BY <1>1, <2>1, <2>2, NoSessionWritten
<1> QED BY <1>2, <1>3

\* Calls that only read sharings, one by its id or the one a client looks for.
LEMMA ReadSharingKeeps ==
    ASSUME SosInv, GetSharing \/ GetActiveSharing
    PROVE  SosInv'
<1>0. /\ SosRows /\ memory \in [Ids -> SessionRow] /\ table \in [Ids -> SessionRow]
  BY DEF SosInv, SosRows
<1>1. PICK p, q : /\ Both(p, q) /\ used' = used /\ p.notes = {}
                  /\ MayLapse(memory, p.rows) /\ MayLapse(table, q.rows)
  <2>1. CASE GetSharing
    <3>1. PICK c \in Clients, i \in 0..used :
              Calling /\ Both(ReadSharing(memory, c, i), GetSharingInTable(c, i))
      BY <2>1 DEF GetSharing
    <3>2. MayLapse(memory, ReadSharing(memory, c, i).rows) /\ ReadSharing(memory, c, i).notes = {}
      BY <1>0, ReadingMayLapse, ReadingLapses
    <3>3. MayLapse(table, GetSharingInTable(c, i).rows)
      BY <1>0, ReadingMayLapse DEF GetSharingInTable, Refused, Outcome, MayLapse
    <3> QED BY <3>1, <3>2, <3>3 DEF Calling
  <2>2. CASE GetActiveSharing
    <3>1. PICK c \in Clients : Calling /\ Both(ActiveSharingInMemory(c), ActiveSharingInTable(c))
      BY <2>2 DEF GetActiveSharing
    <3>2. /\ \/ ActiveSharingInMemory(c) = Refused(memory, "none")
             \/ \E i : ActiveSharingInMemory(c) = ReadSharing(memory, c, i)
          /\ \/ ActiveSharingInTable(c) = Refused(table, "none")
             \/ \E i : ActiveSharingInTable(c) = ReadSharing(table, c, i)
      BY DEF ActiveSharingInMemory, ActiveSharingInTable, ActiveSharing
    <3>3. \A a : Refused(memory, a).notes = {} /\ Refused(memory, a).rows = memory
                 /\ Refused(table, a).rows = table
      BY DEF Refused, Outcome
    <3>4. MayLapse(memory, memory) /\ MayLapse(table, table)
      BY DEF MayLapse
    <3>5. /\ MayLapse(memory, ActiveSharingInMemory(c).rows) /\ ActiveSharingInMemory(c).notes = {}
          /\ MayLapse(table, ActiveSharingInTable(c).rows)
      BY <1>0, <3>2, <3>3, <3>4, ReadingMayLapse, ReadingLapses
    <3> QED BY <3>1, <3>5 DEF Calling
  <2> QED BY <2>1, <2>2
<1>2. /\ MayLapse(memory, memory') /\ MayLapse(table, table')
      /\ service' = service /\ clock' = clock
  BY <1>1 DEF Both
<1>3. SosRows'
  BY <1>0, <1>1, <1>2, LapsesKeep
<1>4. (notes.memory \subseteq notes.table)'
  BY <1>1, HistoryKept DEF SosInv
<1> QED BY <1>3, <1>4 DEF SosInv

\* What a position and a stop do to the row of a sharing that is there.
LEMMA SharingRead ==
    ASSUME SosRows, NEW c \in Clients, NEW i \in OfKind(memory, c, "sharing")
    PROVE  /\ i \in Ids /\ i # Malformed /\ SessionTwins(memory[i], table[i])
           /\ memory[i].kind = "sharing" /\ i \in OfKind(table, c, "sharing")
           /\ ReadSharing(memory, c, i).code = "ok"
           /\ ReadSharing(memory, c, i).rows = [memory EXCEPT ![i] = Lapse(memory[i])]
           /\ ReadSharing(memory, c, i).rows[i] = Lapse(memory[i])
<1>1. i \in Ids /\ memory[i].kind = "sharing" /\ i \in OfKind(table, c, "sharing")
  BY SessionsAlike
<1>2. i # Malformed
  BY <1>1, BoundsAssumption DEF Ids, Malformed
<1>3. SessionTwins(memory[i], table[i]) /\ memory \in [Ids -> SessionRow]
  BY <1>1 DEF SosRows
<1>4. ReadSharing(memory, c, i).code = "ok" /\ ReadSharing(memory, c, i).rows = Expired(memory, i)
  BY ReadingLapses
<1>5. Expired(memory, i) = [memory EXCEPT ![i] = Lapse(memory[i])]
  BY <1>1, <1>3, ExpiredIsLapse
<1>6. ReadSharing(memory, c, i).rows[i] = Lapse(memory[i])
  BY <1>1, <1>3, <1>4, <1>5
<1> QED BY <1>1, <1>2, <1>3, <1>4, <1>5, <1>6

LEMMA ShareFixRows ==
    ASSUME SosRows, NEW c \in Clients, NEW i \in OfKind(memory, c, "sharing")
    PROVE  LET e == Lapse(memory[i])
               t == table[i]
               m == IF e.status = "ACTIVE" THEN Placed(e) ELSE e
               n == IF t.status = "ACTIVE" /\ t.expires > clock THEN Placed(t) ELSE t
           IN  /\ ShareFixInMemory(c, i).rows = [memory EXCEPT ![i] = m]
               /\ ShareFixInTable(c, i).rows = [table EXCEPT ![i] = n]
               /\ ShareFixInMemory(c, i).notes = {} /\ ShareFixInTable(c, i).notes = {}
<1> DEFINE read == ReadSharing(memory, c, i)
<1>1. /\ i \in Ids /\ i # Malformed /\ i \in OfKind(table, c, "sharing")
      /\ read.code = "ok" /\ read.rows = [memory EXCEPT ![i] = Lapse(memory[i])]
      /\ read.rows[i] = Lapse(memory[i])
      /\ memory \in [Ids -> SessionRow] /\ table \in [Ids -> SessionRow]
  BY SharingRead DEF SosRows
<1>2. PICK e : e = Lapse(memory[i])
  OBVIOUS
<1>3. /\ ShareFixInMemory(c, i).rows
           = [memory EXCEPT ![i] = IF e.status = "ACTIVE" THEN Placed(e) ELSE e]
      /\ ShareFixInMemory(c, i).notes = {}
  <2>1. CASE e.status = "ACTIVE"
    <3>1. ShareFixInMemory(c, i) = Kept([memory EXCEPT ![i] = Placed(e)], {i})
      <4>1. ShareFixInMemory(c, i) = Kept([read.rows EXCEPT ![i].fix = clock], {i})
        <5> HIDE DEF read
        <5> QED BY <1>1, <1>2, <2>1 DEF ShareFixInMemory, read
      <4>2. [read.rows EXCEPT ![i].fix = clock] = [memory EXCEPT ![i] = Placed(e)]
        <5> HIDE DEF read
        <5> QED BY <1>1, <1>2 DEF Placed
      <4> QED BY <4>1, <4>2
    <3> QED BY <2>1, <3>1 DEF Kept, Outcome
  <2>2. CASE e.status # "ACTIVE"
    <3>1. ShareFixInMemory(c, i) = Refused(read.rows, "unknown")
      <4> HIDE DEF read
      <4> QED BY <1>1, <1>2, <2>2 DEF ShareFixInMemory, read
    <3> QED BY <1>1, <1>2, <2>2, <3>1 DEF Refused, Outcome
  <2> QED BY <2>1, <2>2
<1>4. /\ ShareFixInTable(c, i).rows
           = [table EXCEPT ![i] = IF table[i].status = "ACTIVE" /\ table[i].expires > clock
                                  THEN Placed(table[i]) ELSE table[i]]
      /\ ShareFixInTable(c, i).notes = {}
  <2>1. CASE table[i].status = "ACTIVE" /\ table[i].expires > clock
    <3>1. ShareFixInTable(c, i) = Kept([table EXCEPT ![i] = Placed(table[i])], {i})
      BY <1>1, <2>1 DEF ShareFixInTable, ActiveOf, Placed
    <3>2. PICK row : row = Placed(table[i])
      OBVIOUS
    <3>3. PICK rows : rows = [table EXCEPT ![i] = row]
      OBVIOUS
    <3>4. ShareFixInTable(c, i) = Kept(rows, {i})
      BY <3>1, <3>2, <3>3
    <3>5. ShareFixInTable(c, i).rows = rows /\ ShareFixInTable(c, i).notes = {}
      BY <3>4 DEF Kept, Outcome
    <3> QED BY <2>1, <3>2, <3>3, <3>5
  <2>2. CASE ~(table[i].status = "ACTIVE" /\ table[i].expires > clock)
    <3>1. ShareFixInTable(c, i) = Refused(table, "unknown")
      BY <1>1, <2>2 DEF ShareFixInTable, ActiveOf
    <3>2. [table EXCEPT ![i] = table[i]] = table
      BY <1>1
    <3> QED BY <2>2, <3>1, <3>2 DEF Refused, Outcome
  <2> QED BY <2>1, <2>2
<1> QED BY <1>2, <1>3, <1>4

LEMMA StopShareRows ==
    ASSUME SosRows, NEW c \in Clients, NEW i \in OfKind(memory, c, "sharing")
    PROVE  LET e == Lapse(memory[i])
               t == table[i]
               m == IF e.status = "ACTIVE" THEN Finished(e, "STOPPED") ELSE e
               n == IF t.status = "ACTIVE" THEN Finished(t, "STOPPED") ELSE t
               said == {i} \X {"location_sharing_stopped"}
           IN  /\ StopShareInMemory(c, i).rows = [memory EXCEPT ![i] = m]
               /\ StopShareInTable(c, i).rows = [table EXCEPT ![i] = n]
               /\ StopShareInMemory(c, i).notes \subseteq IF e.status = "ACTIVE" THEN said ELSE {}
               /\ t.status = "ACTIVE" => StopShareInTable(c, i).notes = said
<1> DEFINE read == ReadSharing(memory, c, i)
           said == {i} \X {"location_sharing_stopped"}
<1>1. /\ i \in Ids /\ i # Malformed /\ i \in OfKind(table, c, "sharing")
      /\ read.code = "ok" /\ read.rows = [memory EXCEPT ![i] = Lapse(memory[i])]
      /\ read.rows[i] = Lapse(memory[i])
      /\ memory \in [Ids -> SessionRow] /\ table \in [Ids -> SessionRow]
  BY SharingRead DEF SosRows
<1>2. PICK e : e = Lapse(memory[i])
  OBVIOUS
<1>3. /\ StopShareInMemory(c, i).rows
           = [memory EXCEPT ![i] = IF e.status = "ACTIVE" THEN Finished(e, "STOPPED") ELSE e]
      /\ StopShareInMemory(c, i).notes \subseteq IF e.status = "ACTIVE" THEN said ELSE {}
  <2>1. CASE e.status = "ACTIVE"
    <3>1. StopShareInMemory(c, i)
            = Outcome([memory EXCEPT ![i] = Finished(e, "STOPPED")], "ok", {i},
                      {"location_sharing_stopped"})
      <4>1. StopShareInMemory(c, i)
              = Outcome([read.rows EXCEPT ![i].status = "STOPPED", ![i].ended = clock], "ok", {i},
                        {"location_sharing_stopped"})
        <5> HIDE DEF read
        <5> QED BY <1>1, <1>2, <2>1 DEF StopShareInMemory, read
      <4>2. [read.rows EXCEPT ![i].status = "STOPPED", ![i].ended = clock]
              = [memory EXCEPT ![i] = Finished(e, "STOPPED")]
        <5> HIDE DEF read
        <5> QED BY <1>1, <1>2 DEF Finished
      <4> QED BY <4>1, <4>2
    <3> QED BY <2>1, <3>1 DEF Outcome
  <2>2. CASE e.status # "ACTIVE"
    <3>1. StopShareInMemory(c, i) = Refused(read.rows, "unknown")
      <4> HIDE DEF read
      <4> QED BY <1>1, <1>2, <2>2 DEF StopShareInMemory, read
    <3> QED BY <1>1, <1>2, <2>2, <3>1 DEF Refused, Outcome
  <2> QED BY <2>1, <2>2
<1>4. /\ StopShareInTable(c, i).rows
           = [table EXCEPT ![i] = IF table[i].status = "ACTIVE"
                                  THEN Finished(table[i], "STOPPED") ELSE table[i]]
      /\ table[i].status = "ACTIVE" => StopShareInTable(c, i).notes = said
  <2>1. CASE table[i].status = "ACTIVE"
    <3>1. StopShareInTable(c, i)
            = Outcome([table EXCEPT ![i].status = "STOPPED", ![i].ended = clock], "ok", {i},
                      {"location_sharing_stopped"})
      BY <1>1, <2>1 DEF StopShareInTable, ActiveOf
    <3>2. [table EXCEPT ![i].status = "STOPPED", ![i].ended = clock]
            = [table EXCEPT ![i] = Finished(table[i], "STOPPED")]
      BY <1>1 DEF Finished
    <3> QED BY <2>1, <3>1, <3>2 DEF Outcome
  <2>2. CASE table[i].status # "ACTIVE"
    <3>1. StopShareInTable(c, i) = Refused(table, "unknown")
      BY <1>1, <2>2 DEF StopShareInTable, ActiveOf
    <3>2. [table EXCEPT ![i] = table[i]] = table
      BY <1>1
    <3> QED BY <2>2, <3>1, <3>2 DEF Refused, Outcome
  <2> QED BY <2>1, <2>2
<1> QED BY <1>2, <1>3, <1>4

\* A call for a sharing the client does not have is refused by both builds.
LEMMA SharingUnknown ==
    ASSUME SosRows, NEW c \in Clients, NEW i, i \notin OfKind(memory, c, "sharing")
    PROVE  /\ ShareFixInMemory(c, i) = Refused(memory, "unknown")
           /\ StopShareInMemory(c, i) = Refused(memory, "unknown")
           /\ ReadSharing(memory, c, i) = Refused(memory, "unknown")
           /\ \E b : ShareFixInTable(c, i) = Refused(table, b)
           /\ \E b : StopShareInTable(c, i) = Refused(table, b)
           /\ i # Malformed => /\ ShareFixInTable(c, i) = Refused(table, "unknown")
                               /\ StopShareInTable(c, i) = Refused(table, "unknown")
                               /\ GetSharingInTable(c, i) = Refused(table, "unknown")
<1>1. ReadSharing(memory, c, i) = Refused(memory, "unknown")
  BY ReadingLapses
<1>2. i \notin OfKind(table, c, "sharing") /\ i \notin ActiveOf(table, c, "sharing")
  BY SessionsAlike DEF ActiveOf
<1>3. ReadSharing(table, c, i) = Refused(table, "unknown")
  BY <1>2, ReadingLapses
<1>4. Refused(memory, "unknown").code # "ok" /\ Refused(memory, "unknown").rows = memory
  BY DEF Refused, Outcome
<1>5. /\ ShareFixInMemory(c, i) = Refused(memory, "unknown")
      /\ StopShareInMemory(c, i) = Refused(memory, "unknown")
  BY <1>1, <1>4 DEF ShareFixInMemory, StopShareInMemory
<1>6. /\ \E b : ShareFixInTable(c, i) = Refused(table, b)
      /\ \E b : StopShareInTable(c, i) = Refused(table, b)
  BY <1>2 DEF ShareFixInTable, StopShareInTable
<1>7. i # Malformed => /\ ShareFixInTable(c, i) = Refused(table, "unknown")
                       /\ StopShareInTable(c, i) = Refused(table, "unknown")
                       /\ GetSharingInTable(c, i) = Refused(table, "unknown")
  BY <1>2, <1>3 DEF ShareFixInTable, StopShareInTable, GetSharingInTable
<1> QED BY <1>1, <1>5, <1>6, <1>7

LEMMA ShareFixKeeps ==
    ASSUME SosInv, ShareFix
    PROVE  SosInv'
<1> PICK c \in Clients, i \in 0..used :
        Calling /\ Both(ShareFixInMemory(c, i), ShareFixInTable(c, i))
  BY DEF ShareFix
<1>1. SosRows /\ used' = used /\ used \in 0..MaxRows /\ clock \in Nat
  BY DEF SosInv, SosRows, Calling
<1>2. CASE i \in OfKind(memory, c, "sharing")
  <2>1. i \in Ids /\ SessionTwins(memory[i], table[i]) /\ memory[i].kind = "sharing"
    BY <1>1, <1>2, SharingRead
  <2>2. PICK e : e = Lapse(memory[i])
    OBVIOUS
  <2>3. PICK m, n, p, q :
            /\ m = (IF e.status = "ACTIVE" THEN Placed(e) ELSE e)
            /\ n = (IF table[i].status = "ACTIVE" /\ table[i].expires > clock
                    THEN Placed(table[i]) ELSE table[i])
            /\ p = ShareFixInMemory(c, i) /\ q = ShareFixInTable(c, i)
    OBVIOUS
  <2>4. SessionTwins(m, n)
    BY <1>1, <2>1, <2>2, <2>3, TwinsPlaced
  <2>5. /\ p.rows = [memory EXCEPT ![i] = m] /\ q.rows = [table EXCEPT ![i] = n]
        /\ p.notes = {} /\ Both(p, q)
    BY <1>1, <1>2, <2>2, <2>3, ShareFixRows
  <2>6. ~IsActiveSos(m)
    BY <2>1, <2>2, <2>3, <1>1, LapsedRow, PlacedRow DEF IsActiveSos, SessionTwins
  <2> QED BY <1>1, <2>1, <2>4, <2>5, <2>6, SessionWritten
<1>3. CASE i \notin OfKind(memory, c, "sharing")
  BY <1>1, <1>3, SharingUnknown, NoSessionWritten
<1> QED BY <1>2, <1>3

LEMMA StopSharingKeeps ==
    ASSUME SosInv, StopSharing
    PROVE  SosInv'
<1> PICK c \in Clients, i \in 0..used :
        Calling /\ Both(StopShareInMemory(c, i), StopShareInTable(c, i))
  BY DEF StopSharing
<1>1. SosRows /\ used' = used /\ used \in 0..MaxRows /\ clock \in Nat
  BY DEF SosInv, SosRows, Calling
<1>2. CASE i \in OfKind(memory, c, "sharing")
  <2>1. i \in Ids /\ SessionTwins(memory[i], table[i]) /\ memory[i].kind = "sharing"
    BY <1>1, <1>2, SharingRead
  <2>2. PICK e : e = Lapse(memory[i])
    OBVIOUS
  <2>3. PICK m, n, p, q :
            /\ m = (IF e.status = "ACTIVE" THEN Finished(e, "STOPPED") ELSE e)
            /\ n = (IF table[i].status = "ACTIVE" THEN Finished(table[i], "STOPPED") ELSE table[i])
            /\ p = StopShareInMemory(c, i) /\ q = StopShareInTable(c, i)
    OBVIOUS
  <2>4. SessionTwins(m, n) /\ (e.status = "ACTIVE" => table[i].status = "ACTIVE")
    BY <1>1, <2>1, <2>2, <2>3, TwinsStopped
  <2>5. /\ p.rows = [memory EXCEPT ![i] = m] /\ q.rows = [table EXCEPT ![i] = n]
        /\ p.notes \subseteq q.notes /\ Both(p, q)
    BY <1>1, <1>2, <2>2, <2>3, <2>4, StopShareRows
  <2>6. ~IsActiveSos(m)
    <3>1. e.kind = "sharing" /\ e \in SessionRow
      BY <2>1, <2>2, LapsedRow DEF SessionTwins
    <3> QED BY <1>1, <2>3, <3>1, FinishedRow DEF IsActiveSos
  <2> QED BY <1>1, <2>1, <2>4, <2>5, <2>6, SessionWritten
<1>3. CASE i \notin OfKind(memory, c, "sharing")
  BY <1>1, <1>3, SharingUnknown, NoSessionWritten
<1> QED BY <1>2, <1>3

LEMMA SosTickKeeps ==
    ASSUME SosInv, BuildsTick
    PROVE  SosInv'
<1>1. /\ memory' = memory /\ table' = table /\ used' = used /\ notes' = notes
      /\ service' = service /\ clock' = clock + 1 /\ clock \in Nat /\ clock' \in Nat /\ SosRows
  BY DEF BuildsTick, SosInv, SosRows
<1>2. ASSUME NEW i \in Ids PROVE SessionTwins(memory[i], table[i])'
  <2>1. PICK a, b : a = memory[i] /\ b = table[i]
    OBVIOUS
  <2>2. SessionTwins(a, b) /\ a.expires \in Int /\ a.kind \in {"none", "sos", "sharing"}
    BY <1>1, <2>1 DEF SosRows, SessionTwins, SessionRow
  <2>3. a.kind = "sharing" /\ clock' <= a.expires => a.status = b.status
    BY <1>1, <2>2 DEF SessionTwins
  <2>4. Open(a)' <=> Open(b)'
    BY <1>1, <2>2, <2>3 DEF Open, SessionTwins, SameSession
  <2>5. SessionTwins(a, b)'
    BY <2>2, <2>3, <2>4 DEF SessionTwins, SameSession
  <2> QED BY <1>1, <2>1, <2>5 DEF SessionTwins, SameSession, Open
<1>3. OneSosEach(memory)'
  BY <1>1 DEF SosRows, OneSosEach, Ids
<1>4. SosRows'
  BY <1>1, <1>2, <1>3 DEF SosRows, Ids
<1> QED BY <1>1, <1>4 DEF SosInv

\* Whichever sharing a build picks is one it has.
LEMMA SmallestExists ==
    ASSUME NEW S \in SUBSET Nat, S # {}
    PROVE  \E n \in S : \A j \in S : n <= j
<1> DEFINE Below == OpToRel(<, Nat)
<1>1. IsWellFoundedOn(Below, Nat)
  BY NatLessThanWellFounded
<1>2. \A i, j \in Nat : <<i, j>> \in Below <=> i < j
  BY DEF OpToRel
<1> HIDE DEF Below
<1>3. PICK n \in S : \A j \in S : ~(<<j, n>> \in Below)
  BY <1>1, WFMin, Zenon
<1>4. ASSUME NEW j \in S PROVE n <= j
  <2>1. j \in Nat /\ n \in Nat /\ ~(j < n)
    BY <1>2, <1>3
  <2> QED BY <2>1
<1> QED BY <1>3, <1>4

LEMMA PickIsMember ==
    ASSUME NEW S \in SUBSET Ids, S # {}
    PROVE  Oldest(S) \in S /\ Newest(S) \in S
<1>1. MaxRows \in Nat /\ S \in SUBSET Nat /\ \A i \in S : i <= MaxRows
  BY BoundsAssumption DEF Ids
<1>2. Oldest(S) \in S
  BY <1>1, SmallestExists DEF Oldest
<1> PICK after : after = [i \in S |-> MaxRows - i]
  OBVIOUS
<1>3. \A i \in S : after[i] \in Nat /\ after[i] = MaxRows - i
  BY <1>1
<1> PICK D : D = {after[i] : i \in S}
  OBVIOUS
<1>4. PICK d \in D : \A e \in D : d <= e
  BY <1>3, SmallestExists
<1>5. PICK i \in S : d = after[i]
  BY <1>4
<1>6. \A j \in S : i >= j
  <2> SUFFICES ASSUME NEW j \in S PROVE i >= j
    OBVIOUS
  <2>1. MaxRows - i <= MaxRows - j /\ i \in Nat /\ j \in Nat
    BY <1>1, <1>3, <1>4, <1>5
  <2> QED BY <1>1, <2>1
<1> QED BY <1>2, <1>6 DEF Newest

\* While a client's sharing is open, neither build answers that nothing is shared.
LEMMA OpenIsShown ==
    ASSUME SosRows, NEW c \in Clients, NEW i \in Sharings(c), Open(table[i])
    PROVE  /\ ActiveSharingInMemory(c).code = "ok" /\ ActiveSharingInTable(c).code = "ok"
           /\ AtMostOne(Sharings(c)) => SameAnswer(ActiveSharingInMemory(c), ActiveSharingInTable(c))
<1> PICK M, T : M = ActiveOf(memory, c, "sharing") /\ T = ActiveOf(table, c, "sharing")
  OBVIOUS
<1>1. /\ M \in SUBSET Ids /\ T \in SUBSET Ids /\ Sharings(c) = M \cup T /\ i \in Ids
      /\ M \subseteq OfKind(memory, c, "sharing") /\ T \subseteq OfKind(table, c, "sharing")
  BY DEF ActiveOf, OfKind, Sharings
<1>2. SessionTwins(memory[i], table[i])
  BY <1>1 DEF SosRows
<1>3. i \in OfKind(memory, c, "sharing") /\ i \in OfKind(table, c, "sharing")
  BY <1>1, SessionsAlike
<1>4. i \in M /\ i \in T
  BY <1>2, <1>3 DEF SessionTwins, SameSession, Open, ActiveOf
<1> PICK m, t : m = Oldest(M) /\ t = Newest(T)
  OBVIOUS
<1>5. m \in M /\ t \in T
  BY <1>1, <1>4, PickIsMember
<1>6. /\ ActiveSharingInMemory(c) = ReadSharing(memory, c, m)
      /\ ActiveSharingInTable(c) = ReadSharing(table, c, t)
  BY <1>4 DEF ActiveSharingInMemory, ActiveSharingInTable, ActiveSharing
<1>7. /\ ReadSharing(memory, c, m).code = "ok" /\ ReadSharing(memory, c, m).ids = {m}
      /\ ReadSharing(table, c, t).code = "ok" /\ ReadSharing(table, c, t).ids = {t}
  BY <1>1, <1>5, ReadingLapses
<1>8. AtMostOne(Sharings(c)) => m = t
  BY <1>1, <1>5 DEF AtMostOne
<1> QED BY <1>6, <1>7, <1>8 DEF SameAnswer

\* What both builds answer, in any state the invariant allows.
LEMMA SosAnswers ==
    ASSUME SosInv, NEW c \in Clients
    PROVE  /\ SameAnswer(ActiveSosInMemory(c), ActiveSosInTable(c))
           /\ SameAnswer(SosInMemory(c), SosInTable(c))
           /\ \A i \in Known :
                  /\ SameAnswer(EndSosInMemory(c, i), EndSosInTable(c, i))
                  /\ SameAnswer(ReadSharing(memory, c, i), GetSharingInTable(c, i))
                  /\ Open(memory[i]) =>
                        /\ SameAnswer(ShareFixInMemory(c, i), ShareFixInTable(c, i))
                        /\ SameAnswer(StopShareInMemory(c, i), StopShareInTable(c, i))
<1>1. SosRows /\ ActiveOf(memory, c, "sos") = ActiveOf(table, c, "sos")
  BY SessionsAlike DEF SosInv
<1>2. SameAnswer(ActiveSosInMemory(c), ActiveSosInTable(c))
  <2>1. CASE ActiveOf(memory, c, "sos") = {}
    BY <1>1, <2>1 DEF ActiveSosInMemory, ActiveSosInTable, Picked, Refused, Outcome, SameAnswer
  <2>2. CASE ActiveOf(memory, c, "sos") # {}
    <3>1. PICK i \in Nat : ActiveOf(memory, c, "sos") = {i}
      BY <1>1, <2>2, SessionsAlike, BoundsAssumption DEF Ids
    <3>2. Oldest({i}) = i /\ Newest({i}) = i
      BY DEF Oldest, Newest
    <3> QED BY <1>1, <3>1, <3>2 DEF ActiveSosInMemory, ActiveSosInTable, Picked, Kept, Outcome, SameAnswer
  <2> QED BY <2>1, <2>2
<1>3. SameAnswer(SosInMemory(c), SosInTable(c))
  BY <1>1 DEF SosInMemory, SosInTable, Refused, Outcome, SameAnswer
<1>4. ASSUME NEW i \in Known
      PROVE  /\ SameAnswer(EndSosInMemory(c, i), EndSosInTable(c, i))
             /\ SameAnswer(ReadSharing(memory, c, i), GetSharingInTable(c, i))
             /\ Open(memory[i]) =>
                   /\ SameAnswer(ShareFixInMemory(c, i), ShareFixInTable(c, i))
                   /\ SameAnswer(StopShareInMemory(c, i), StopShareInTable(c, i))
  <2>1. i # Malformed
    BY <1>1, BoundsAssumption DEF Known, Malformed, SosRows
  <2>2. SameAnswer(EndSosInMemory(c, i), EndSosInTable(c, i))
    BY <1>1, <2>1 DEF EndSosInMemory, EndSosInTable, Refused, Outcome, SameAnswer
  <2>3. CASE i \notin OfKind(memory, c, "sharing")
    <3>1. Refused(memory, "unknown").code = Refused(table, "unknown").code
          /\ Refused(memory, "unknown").ids = Refused(table, "unknown").ids
      BY DEF Refused, Outcome
    <3> QED BY <1>1, <2>1, <2>2, <2>3, <3>1, SharingUnknown DEF SameAnswer
  <2>4. CASE i \in OfKind(memory, c, "sharing")
    <3> DEFINE read == ReadSharing(memory, c, i)
    <3>1. /\ i \in Ids /\ SessionTwins(memory[i], table[i]) /\ memory[i].kind = "sharing"
          /\ i \in OfKind(table, c, "sharing") /\ read.code = "ok" /\ read.ids = {i}
          /\ read.rows[i] = Lapse(memory[i]) /\ memory[i] \in SessionRow /\ clock \in Nat
      <4>1. /\ i \in Ids /\ i \in OfKind(table, c, "sharing") /\ read.code = "ok"
            /\ read.rows[i] = Lapse(memory[i])
        BY <1>1, <2>4, SharingRead
      <4>2. read.ids = {i} /\ memory[i].kind = "sharing"
        BY <2>4, ReadingLapses
      <4>3. SessionTwins(memory[i], table[i]) /\ memory[i] \in SessionRow /\ clock \in Nat
        BY <1>1, <4>1 DEF SosRows
      <4> QED BY <4>1, <4>2, <4>3
    <3>2. GetSharingInTable(c, i).code = "ok" /\ GetSharingInTable(c, i).ids = {i}
      BY <2>1, <3>1, ReadingLapses DEF GetSharingInTable
    <3>3. SameAnswer(read, GetSharingInTable(c, i))
      BY <3>1, <3>2 DEF SameAnswer
    <3>4. ASSUME Open(memory[i])
          PROVE  /\ SameAnswer(ShareFixInMemory(c, i), ShareFixInTable(c, i))
                 /\ SameAnswer(StopShareInMemory(c, i), StopShareInTable(c, i))
      <4>1. table[i].status = "ACTIVE" /\ table[i].expires > clock /\ i \in ActiveOf(table, c, "sharing")
        BY <3>1, <3>4 DEF SessionTwins, SameSession, Open, ActiveOf
      <4>2. Lapse(memory[i]).status = "ACTIVE"
        BY <3>1, <3>4, LapsedRow DEF Open, Lapsed, SessionRow
      <4> HIDE DEF read
      <4>3. /\ ShareFixInMemory(c, i).code = "ok" /\ ShareFixInMemory(c, i).ids = {i}
            /\ StopShareInMemory(c, i).code = "ok" /\ StopShareInMemory(c, i).ids = {i}
        BY <3>1, <4>2 DEF ShareFixInMemory, StopShareInMemory, Kept, Outcome, read
      <4>4. /\ ShareFixInTable(c, i).code = "ok" /\ ShareFixInTable(c, i).ids = {i}
            /\ StopShareInTable(c, i).code = "ok" /\ StopShareInTable(c, i).ids = {i}
        BY <2>1, <4>1 DEF ShareFixInTable, StopShareInTable, Kept, Outcome
      <4> QED BY <4>3, <4>4 DEF SameAnswer
    <3> QED BY <2>2, <3>3, <3>4
  <2> QED BY <2>3, <2>4
<1> QED BY <1>2, <1>3, <1>4

LEMMA SosStart == SosInit => SosInv
<1> SUFFICES ASSUME SosInit PROVE SosInv
  OBVIOUS
<1>1. /\ service = "sos" /\ used = 0 /\ clock = 0 /\ notes.memory = {} /\ notes.table = {}
      /\ memory = [i \in Ids |-> NoSession] /\ table = [i \in Ids |-> NoSession]
  BY DEF SosInit, BuildsInit
<1>2. PICK row : row = NoSession
  OBVIOUS
<1>3. row \in SessionRow /\ row.kind = "none"
  BY <1>2 DEF NoSession, SessionRow, NoTime
<1>4. SessionTwins(row, row) /\ ~IsActiveSos(row)
  BY <1>3 DEF SessionTwins, SameSession, IsActiveSos
<1>5. SosRows
  BY <1>1, <1>2, <1>3, <1>4, BoundsAssumption DEF SosRows, OneSosEach
<1> QED BY <1>1, <1>5 DEF SosInv

LEMMA SosStep == SosInv /\ [SosNext]_buildVars => SosInv'
<1> SUFFICES ASSUME SosInv, [SosNext]_buildVars PROVE SosInv'
  OBVIOUS
<1>1. CASE UNCHANGED buildVars
  <2>1. /\ memory' = memory /\ table' = table /\ used' = used /\ notes' = notes
        /\ service' = service /\ clock' = clock
    BY <1>1 DEF buildVars
  <2>2. SosRows'
    BY <2>1, RowsTwinned DEF SosInv, SosRows
  <2> QED BY <2>1, <2>2 DEF SosInv
<1> QED
  BY <1>1, CreateSosKeeps, StartSharingKeeps, SosFixKeeps, EndSosKeeps, ReadSharingKeeps,
     ShareFixKeeps, StopSharingKeeps, SosTickKeeps DEF SosNext

\* For every TTL: the SOS sessions of both builds are equal and answered alike, the same
\* sharings are open, with the same positions, and a client with an open one is shown
\* a sharing by both, the same if it has no other (safety/sessions.py).
THEOREM SessionsAgree == SosSpec => []SosBuildsAgree
<1>1. SosInv => SosBuildsAgree
  BY SosAnswers, OpenIsShown DEF SosBuildsAgree, SosInv, SosRows, SessionTwins
<1> QED BY <1>1, SosStart, SosStep, PTL DEF SosSpec

-----------------------------------------------------------------------------
(* Notifications of both.                                                  *)

\* Every notification of a history names a row that somebody owns.
Anchored(rows, history) == \A n \in history : n[1] \in Ids /\ rows[n[1]].client # NoOne

\* A call takes no row's owner away, and its notifications name rows with one.
Truthful(rows, o) ==
    /\ \A i \in Ids : rows[i].client # NoOne => o.rows[i].client # NoOne
    /\ \A n \in o.notes : n[1] \in Ids /\ o.rows[n[1]].client # NoOne

LEMMA StaysAnchored ==
    ASSUME NEW rows, NEW history, Anchored(rows, history), NEW o, Truthful(rows, o)
    PROVE  Anchored(o.rows, Recorded(history, o))
BY DEF Anchored, Truthful, Recorded

LEMMA WriteIsTruthful ==
    ASSUME NEW rows, DOMAIN rows = Ids, NEW i \in Ids, NEW row, row.client # NoOne,
           NEW ids \in SUBSET {i}, NEW code, NEW kinds
    PROVE  Truthful(rows, Outcome([rows EXCEPT ![i] = row], code, ids, kinds))
<1>1. PICK new : new = [rows EXCEPT ![i] = row]
  OBVIOUS
<1>2. \A j \in Ids : rows[j].client # NoOne => new[j].client # NoOne
  BY <1>1
<1>3. ASSUME NEW n \in ids \X kinds PROVE n[1] \in Ids /\ new[n[1]].client # NoOne
  <2>1. n[1] = i
    OBVIOUS
  <2> QED BY <1>1, <2>1
<1>4. PICK o : o = Outcome(new, code, ids, kinds)
  OBVIOUS
<1>5. o.rows = new /\ o.notes = ids \X kinds
  BY <1>4 DEF Outcome
<1>6. Truthful(rows, o)
  BY <1>2, <1>3, <1>5 DEF Truthful
<1> QED BY <1>1, <1>4, <1>6

LEMMA RefusalIsTruthful ==
    ASSUME NEW rows, NEW code
    PROVE  Truthful(rows, Refused(rows, code))
BY DEF Truthful, Refused, Outcome

\* Reading a journey says only what it finds.
LEMMA ReadingIsTruthful ==
    ASSUME JourneyRows, NEW i \in Ids, memory[i].client # NoOne
    PROVE  /\ Truthful(memory, ReadJourney(memory, i))
           /\ Truthful(memory, Refused(ReadJourney(memory, i).rows, "conflict"))
<1>1. memory[i] \in JourneyRow /\ clock \in Nat /\ DOMAIN memory = Ids
  BY DEF JourneyRows, Twins
<1>2. PICK row, kinds : row = Evaluated(memory[i]) /\ kinds = Overdue(memory[i])
  OBVIOUS
<1>3. row.client # NoOne
  BY <1>1, <1>2, EvaluatedRow
<1>4. PICK new : new = [memory EXCEPT ![i] = row]
  OBVIOUS
<1>5. ReadJourney(memory, i) = Outcome(new, "ok", {i}, kinds)
  BY <1>2, <1>4 DEF ReadJourney
<1>6. ReadJourney(memory, i).rows = new
  BY <1>5 DEF Outcome
<1>7. Refused(ReadJourney(memory, i).rows, "conflict") = Outcome(new, "conflict", {}, {})
  BY <1>6 DEF Refused
<1>8. \A code : \A ids \in SUBSET {i} : \A k : Truthful(memory, Outcome(new, code, ids, k))
  BY <1>1, <1>3, <1>4, WriteIsTruthful
<1>9. {i} \in SUBSET {i} /\ {} \in SUBSET {i}
  OBVIOUS
<1> QED BY <1>5, <1>7, <1>8, <1>9

\* What a call does to the memory build's journeys.
LEMMA JourneyCallsAreTruthful ==
    ASSUME JourneyInv, JourneyNext, ~BuildsTick
    PROVE  \E m, t : Both(m, t) /\ Truthful(memory, m)
<1>1. /\ JourneyRows /\ clock \in Nat /\ DOMAIN memory = Ids /\ NoOne \notin Clients
      /\ Devices \subseteq Clients
  BY NoOneAssumption, DevicesAssumption DEF JourneyInv, JourneyRows
<1>2. ASSUME NEW c \in Devices, NEW i \in JourneysOf(memory, c)
      PROVE  i \in Ids /\ memory[i].client # NoOne /\ memory[i] \in JourneyRow
  BY <1>1 DEF JourneysOf, JourneyRows, Twins
<1>3. \A c \in Devices : LiveJourneys(memory, c) \subseteq JourneysOf(memory, c)
  BY DEF LiveJourneys
<1>4. ASSUME NEW c \in Devices, NEW i \in JourneysOf(memory, c), NEW row,
             row.client = memory[i].client, NEW kinds
      PROVE  Truthful(memory, Outcome([memory EXCEPT ![i] = row], "ok", {i}, kinds))
  <2>1. i \in Ids /\ row.client # NoOne /\ {i} \in SUBSET {i}
    BY <1>2, <1>4
  <2> QED BY <1>1, <2>1, WriteIsTruthful
<1>5. CASE StartJourney
  <2> PICK c \in Devices, arrival \in {NoTime, clock + 1} :
          /\ used < MaxRows
          /\ Both(StartJourneyInMemory(c, arrival), StartJourneyInTable(c, arrival))
    BY <1>5 DEF StartJourney
  <2>1. c \in Clients /\ arrival \in Int
    BY <1>1 DEF NoTime
  <2>2. CASE ActiveJourneyInMemory(c) = Refused(memory, "none")
    <3>1. PICK row : row = Journey(c, arrival)
      OBVIOUS
    <3>2. row.client # NoOne
      BY <1>1, <2>1, <3>1, TwinsNew
    <3>3. NewId \in Ids /\ {NewId} \in SUBSET {NewId}
      BY <1>1, BoundsAssumption DEF JourneyRows, NewId, Ids
    <3>4. Refused(memory, "none").code # "ok"
      BY DEF Refused, Outcome
    <3>5. StartJourneyInMemory(c, arrival)
            = Outcome([memory EXCEPT ![NewId] = row], "ok", {NewId}, {"guardian_started"})
      BY <2>2, <3>1, <3>4 DEF StartJourneyInMemory, OpenJourney
    <3>6. PICK n : n = NewId
      OBVIOUS
    <3>7. Truthful(memory, Outcome([memory EXCEPT ![n] = row], "ok", {n}, {"guardian_started"}))
      BY <1>1, <3>2, <3>3, <3>6, WriteIsTruthful
    <3>8. Truthful(memory, StartJourneyInMemory(c, arrival))
      BY <3>5, <3>6, <3>7
    <3> QED BY <3>8
  <2>3. CASE \E i \in LiveJourneys(memory, c) : ActiveJourneyInMemory(c) = ReadJourney(memory, i)
    <3>1. PICK i \in LiveJourneys(memory, c) : ActiveJourneyInMemory(c) = ReadJourney(memory, i)
      BY <2>3
    <3>2. ReadJourney(memory, i).code = "ok"
      BY DEF ReadJourney, Outcome
    <3>3. StartJourneyInMemory(c, arrival) = Refused(ReadJourney(memory, i).rows, "conflict")
      BY <3>1, <3>2 DEF StartJourneyInMemory, OpenJourney
    <3>4. Truthful(memory, StartJourneyInMemory(c, arrival))
      BY <1>1, <1>2, <1>3, <3>3, ReadingIsTruthful
    <3> QED BY <3>4
  <2> QED BY <1>1, <2>1, <2>2, <2>3, ActiveAlike
<1>6. CASE GetJourney
  <2> PICK c \in Devices, i \in 0..used : Both(GetJourneyInMemory(c, i), GetJourneyInTable(c, i))
    BY <1>6 DEF GetJourney
  <2>1. Truthful(memory, GetJourneyInMemory(c, i))
    BY <1>1, <1>2, ReadingIsTruthful, RefusalIsTruthful DEF GetJourneyInMemory
  <2> QED BY <2>1
<1>7. CASE GetActiveJourney
  <2> PICK c \in Devices : Both(ActiveJourneyInMemory(c), ActiveJourneyInTable(c))
    BY <1>7 DEF GetActiveJourney
  <2>1. \/ ActiveJourneyInMemory(c) = Refused(memory, "none")
        \/ \E i \in LiveJourneys(memory, c) : ActiveJourneyInMemory(c) = ReadJourney(memory, i)
    BY <1>1, ActiveAlike
  <2>2. Truthful(memory, ActiveJourneyInMemory(c))
    BY <1>1, <1>2, <1>3, <2>1, ReadingIsTruthful, RefusalIsTruthful
  <2> QED BY <2>2
<1>8. CASE FixJourney
  <2> PICK c \in Devices, i \in 0..used, far \in BOOLEAN :
          Both(FixInMemory(c, i, far), FixInTable(c, i, far))
    BY <1>8 DEF FixJourney
  <2>1. CASE i \in LiveJourneys(memory, c)
    <3> DEFINE m == memory[i]
               row == [m EXCEPT !.known = clock, !.deviated = @ \/ far,
                                !.first = IF far /\ ~m.deviated THEN clock ELSE @]
    <3>1. FixInMemory(c, i, far)
            = Outcome([memory EXCEPT ![i] = row], "ok", {i}, Detour(m, far))
      BY <2>1 DEF FixInMemory
    <3>2. i \in JourneysOf(memory, c) /\ m \in JourneyRow
      BY <1>2, <1>3, <2>1
    <3>3. row.client = m.client
      BY <3>2 DEF JourneyRow
    <3> HIDE DEF row
    <3>4. Truthful(memory, FixInMemory(c, i, far))
      BY <1>4, <3>1, <3>2, <3>3
    <3> QED BY <3>4
  <2>2. CASE i \notin LiveJourneys(memory, c)
    BY <2>2, RefusalIsTruthful DEF FixInMemory
  <2> QED BY <2>1, <2>2
<1>9. CASE CheckJourney
  <2> PICK c \in Devices, i \in 0..used :
          Both(CheckJourneyInMemory(c, i), CheckJourneyInTable(c, i))
    BY <1>9 DEF CheckJourney
  <2>1. CASE i \in LiveJourneys(memory, c)
    <3>1. PICK row : row = CheckedIn(memory[i])
      OBVIOUS
    <3>2. CheckJourneyInMemory(c, i) = Outcome([memory EXCEPT ![i] = row], "ok", {i}, {})
      BY <2>1, <3>1 DEF CheckJourneyInMemory, Kept
    <3>3. i \in JourneysOf(memory, c) /\ row.client = memory[i].client
      BY <1>1, <1>2, <1>3, <2>1, <3>1, CheckedRow
    <3>4. Truthful(memory, CheckJourneyInMemory(c, i))
      BY <1>4, <3>2, <3>3
    <3> QED BY <3>4
  <2>2. CASE i \notin LiveJourneys(memory, c)
    BY <2>2, RefusalIsTruthful DEF CheckJourneyInMemory
  <2> QED BY <2>1, <2>2
<1>10. CASE EndJourney
  <2> PICK c \in Devices, i \in 0..used, reason \in {"arrived", "cancelled"} :
          Both(EndJourneyInMemory(c, i, reason), EndJourneyInTable(c, i, reason))
    BY <1>10 DEF EndJourney
  <2>1. CASE i \in LiveJourneys(memory, c)
    <3>1. PICK row, kinds : row = Over(memory[i], reason) /\ kinds = Farewell(reason)
      OBVIOUS
    <3>2. EndJourneyInMemory(c, i, reason) = Outcome([memory EXCEPT ![i] = row], "ok", {i}, kinds)
      BY <2>1, <3>1 DEF EndJourneyInMemory
    <3>3. i \in JourneysOf(memory, c) /\ memory[i] \in JourneyRow
      BY <1>2, <1>3, <2>1
    <3>4. row.client = memory[i].client
      BY <3>1, <3>3 DEF Over, JourneyRow
    <3>5. Truthful(memory, EndJourneyInMemory(c, i, reason))
      BY <1>4, <3>2, <3>3, <3>4
    <3> QED BY <3>5
  <2>2. CASE i \notin LiveJourneys(memory, c)
    BY <2>2, RefusalIsTruthful DEF EndJourneyInMemory
  <2> QED BY <2>1, <2>2
<1> QED BY <1>5, <1>6, <1>7, <1>8, <1>9, <1>10 DEF JourneyNext

\* Whatever is read, refused or evaluated on the way, both builds announce journeys they
\* hold: the table's history is part of the memory build's, and the rows have the same
\* owners (safety/guardian.py, api/guardian.py).
THEOREM JourneysTellOfRows == JourneySpec => []NoticesHaveRows
<1>1. JourneyInit => Anchored(memory, notes.memory)
  BY DEF JourneyInit, BuildsInit, Anchored
<1>2. ASSUME JourneyInv, Anchored(memory, notes.memory), [JourneyNext]_buildVars
      PROVE  Anchored(memory, notes.memory)'
  <2>1. CASE JourneyNext /\ ~BuildsTick
    <3>1. PICK m, t : Both(m, t) /\ Truthful(memory, m)
      BY <1>2, <2>1, JourneyCallsAreTruthful
    <3>2. Anchored(m.rows, Recorded(notes.memory, m))
      BY <1>2, <3>1, StaysAnchored
    <3> QED BY <3>1, <3>2 DEF Both, Anchored
  <2>2. CASE BuildsTick \/ UNCHANGED buildVars
    BY <1>2, <2>2 DEF BuildsTick, buildVars, Anchored
  <2> QED BY <1>2, <2>1, <2>2
<1>3. ASSUME JourneyInv, Anchored(memory, notes.memory) PROVE NoticesHaveRows
  <2>1. \A i \in Ids : memory[i].client = table[i].client
    BY <1>3 DEF JourneyInv, JourneyRows, Twins, SameJourneyRow
  <2>2. notes.table \subseteq notes.memory
    BY <1>3 DEF JourneyInv, JourneyNotes
  <2> QED BY <1>3, <2>1, <2>2 DEF NoticesHaveRows, Anchored
<1> QED BY <1>1, <1>2, <1>3, JourneyStart, JourneyStep, PTL DEF JourneySpec

\* What a call does to the table's sessions.
LEMMA SosCallsAreTruthful ==
    ASSUME SosInv, SosNext, ~BuildsTick
    PROVE  \E m, t : Both(m, t) /\ Truthful(table, t)
<1>1. /\ SosRows /\ clock \in Nat /\ DOMAIN table = Ids /\ NoOne \notin Clients
      /\ table \in [Ids -> SessionRow]
  BY NoOneAssumption DEF SosInv, SosRows
<1>2. ASSUME NEW c \in Clients, NEW i \in Ids, table[i].client = c, NEW row,
             row.client = table[i].client, NEW kinds
      PROVE  Truthful(table, Outcome([table EXCEPT ![i] = row], "ok", {i}, kinds))
  <2>1. row.client # NoOne /\ {i} \in SUBSET {i}
    BY <1>1, <1>2
  <2> QED BY <1>1, <2>1, WriteIsTruthful
<1>3. ASSUME NEW c \in Clients, NEW kind, NEW i \in ActiveOf(table, c, kind)
      PROVE  i \in Ids /\ table[i].client = c /\ table[i] \in SessionRow
  BY <1>1 DEF ActiveOf, OfKind
<1>4. ASSUME NEW row, row.client \in Clients, Creating, NEW kinds
      PROVE  Truthful(table, Outcome([table EXCEPT ![NewId] = row], "ok", {NewId}, kinds))
  <2>1. NewId \in Ids /\ {NewId} \in SUBSET {NewId} /\ row.client # NoOne
    BY <1>1, <1>4, BoundsAssumption DEF SosRows, Creating, NewId, Ids
  <2> QED BY <1>1, <2>1, WriteIsTruthful
<1>5. ASSUME NEW c \in Clients, NEW i
      PROVE  Truthful(table, ReadSharing(table, c, i))
  <2>1. CASE i \in OfKind(table, c, "sharing")
    <3>1. i \in Ids /\ table[i].client = c /\ table[i] \in SessionRow
      BY <1>1, <2>1 DEF OfKind
    <3>2. PICK row : row = Lapse(table[i])
      OBVIOUS
    <3>3. row.client = table[i].client
      BY <3>1, <3>2, LapsedRow
    <3>4. Expired(table, i) = [table EXCEPT ![i] = row]
      BY <1>1, <3>1, <3>2, ExpiredIsLapse
    <3>5. ReadSharing(table, c, i) = Outcome([table EXCEPT ![i] = row], "ok", {i}, {})
      BY <2>1, <3>4 DEF ReadSharing, Kept
    <3> QED BY <1>2, <3>1, <3>3, <3>5
  <2>2. CASE i \notin OfKind(table, c, "sharing")
    BY <2>2, RefusalIsTruthful DEF ReadSharing
  <2> QED BY <2>1, <2>2
<1>6. CASE CreateSos
  <2> PICK c \in Clients : Creating /\ Both(SosInMemory(c), SosInTable(c))
    BY <1>6 DEF CreateSos
  <2>1. PICK row : row = SosRow(c)
    OBVIOUS
  <2>2. row.client \in Clients
    BY <2>1 DEF SosRow
  <2>3. \/ SosInTable(c) = Refused(table, "conflict")
        \/ SosInTable(c) = Outcome([table EXCEPT ![NewId] = row], "ok", {NewId}, {"sos_started"})
    BY <2>1 DEF SosInTable
  <2>4. Truthful(table, SosInTable(c))
    BY <1>4, <2>2, <2>3, RefusalIsTruthful
  <2> QED BY <2>4
<1>7. CASE StartSharing
  <2> PICK c \in Clients, owner \in NoOwner..used :
          Creating /\ Both(ShareInMemory(c, owner), ShareInTable(c, owner))
    BY <1>7 DEF StartSharing
  <2>1. PICK row : row = SharingRow(c)
    OBVIOUS
  <2>2. row.client \in Clients
    BY <2>1 DEF SharingRow
  <2>3. \/ \E code : ShareInTable(c, owner) = Refused(table, code)
        \/ ShareInTable(c, owner) = Outcome([table EXCEPT ![NewId] = row], "ok", {NewId},
                                            {"location_sharing_started"})
    BY <2>1 DEF ShareInTable
  <2>4. Truthful(table, ShareInTable(c, owner))
    BY <1>4, <2>2, <2>3, RefusalIsTruthful
  <2> QED BY <2>4
<1>8. CASE SosFix
  <2> PICK c \in Clients, i \in 0..used : Both(SosFixInMemory(c, i), SosFixInTable(c, i))
    BY <1>8 DEF SosFix
  <2>1. PICK row : row = Placed(table[i])
    OBVIOUS
  <2>2. \/ \E code : SosFixInTable(c, i) = Refused(table, code)
        \/ /\ i \in ActiveOf(table, c, "sos")
           /\ SosFixInTable(c, i) = Outcome([table EXCEPT ![i] = row], "ok", {i}, {})
    BY <2>1 DEF SosFixInTable, Placed, Kept
  <2>3. i \in ActiveOf(table, c, "sos") => row.client = table[i].client
    BY <1>1, <1>3, <2>1, PlacedRow
  <2>4. Truthful(table, SosFixInTable(c, i))
    <3>1. CASE \E code : SosFixInTable(c, i) = Refused(table, code)
      BY <3>1, RefusalIsTruthful
    <3>2. CASE ~(\E code : SosFixInTable(c, i) = Refused(table, code))
      <4>1. i \in Ids /\ table[i].client = c /\ row.client = table[i].client
        BY <1>3, <2>2, <2>3, <3>2
      <4> QED BY <1>2, <2>2, <3>2, <4>1
    <3> QED BY <3>1, <3>2
  <2> QED BY <2>4
<1>9. CASE EndSos
  <2> PICK c \in Clients, i \in 0..used : Both(EndSosInMemory(c, i), EndSosInTable(c, i))
    BY <1>9 DEF EndSos
  <2>1. PICK row : row = Finished(table[i], "ENDED")
    OBVIOUS
  <2>2. \/ \E code : EndSosInTable(c, i) = Refused(table, code)
        \/ /\ i \in ActiveOf(table, c, "sos")
           /\ EndSosInTable(c, i) = Outcome([table EXCEPT ![i] = row], "ok", {i}, {"sos_ended"})
    <3>1. [table EXCEPT ![i].status = "ENDED", ![i].ended = clock] = [table EXCEPT ![i] = row]
      BY <1>1, <2>1 DEF Finished
    <3>2. \/ \E code : EndSosInTable(c, i) = Refused(table, code)
          \/ /\ i \in ActiveOf(table, c, "sos")
             /\ EndSosInTable(c, i) = Outcome([table EXCEPT ![i].status = "ENDED", ![i].ended = clock],
                          "ok", {i}, {"sos_ended"})
      BY DEF EndSosInTable
    <3> QED BY <3>1, <3>2
  <2>3. i \in ActiveOf(table, c, "sos") => row.client = table[i].client
    BY <1>1, <1>3, <2>1, FinishedRow
  <2>4. Truthful(table, EndSosInTable(c, i))
    <3>1. CASE \E code : EndSosInTable(c, i) = Refused(table, code)
      BY <3>1, RefusalIsTruthful
    <3>2. CASE ~(\E code : EndSosInTable(c, i) = Refused(table, code))
      <4>1. i \in Ids /\ table[i].client = c /\ row.client = table[i].client
        BY <1>3, <2>2, <2>3, <3>2
      <4> QED BY <1>2, <2>2, <3>2, <4>1
    <3> QED BY <3>1, <3>2
  <2> QED BY <2>4
<1>10. CASE GetSharing
  <2> PICK c \in Clients, i \in 0..used : Both(ReadSharing(memory, c, i), GetSharingInTable(c, i))
    BY <1>10 DEF GetSharing
  <2>1. Truthful(table, GetSharingInTable(c, i))
    BY <1>5, RefusalIsTruthful DEF GetSharingInTable
  <2> QED BY <2>1
<1>11. CASE GetActiveSharing
  <2> PICK c \in Clients : Both(ActiveSharingInMemory(c), ActiveSharingInTable(c))
    BY <1>11 DEF GetActiveSharing
  <2>1. Truthful(table, ActiveSharingInTable(c))
    BY <1>5, RefusalIsTruthful DEF ActiveSharingInTable, ActiveSharing
  <2> QED BY <2>1
<1>12. CASE ShareFix
  <2> PICK c \in Clients, i \in 0..used : Both(ShareFixInMemory(c, i), ShareFixInTable(c, i))
    BY <1>12 DEF ShareFix
  <2>1. PICK row : row = Placed(table[i])
    OBVIOUS
  <2>2. \/ \E code : ShareFixInTable(c, i) = Refused(table, code)
        \/ /\ i \in ActiveOf(table, c, "sharing")
           /\ ShareFixInTable(c, i) = Outcome([table EXCEPT ![i] = row], "ok", {i}, {})
    BY <2>1 DEF ShareFixInTable, Placed, Kept
  <2>3. i \in ActiveOf(table, c, "sharing") => row.client = table[i].client
    BY <1>1, <1>3, <2>1, PlacedRow
  <2>4. Truthful(table, ShareFixInTable(c, i))
    <3>1. CASE \E code : ShareFixInTable(c, i) = Refused(table, code)
      BY <3>1, RefusalIsTruthful
    <3>2. CASE ~(\E code : ShareFixInTable(c, i) = Refused(table, code))
      <4>1. i \in Ids /\ table[i].client = c /\ row.client = table[i].client
        BY <1>3, <2>2, <2>3, <3>2
      <4> QED BY <1>2, <2>2, <3>2, <4>1
    <3> QED BY <3>1, <3>2
  <2> QED BY <2>4
<1>13. CASE StopSharing
  <2> PICK c \in Clients, i \in 0..used : Both(StopShareInMemory(c, i), StopShareInTable(c, i))
    BY <1>13 DEF StopSharing
  <2>1. PICK row : row = Finished(table[i], "STOPPED")
    OBVIOUS
  <2>2. \/ \E code : StopShareInTable(c, i) = Refused(table, code)
        \/ /\ i \in ActiveOf(table, c, "sharing")
           /\ StopShareInTable(c, i) = Outcome([table EXCEPT ![i] = row], "ok", {i}, {"location_sharing_stopped"})
    <3>1. [table EXCEPT ![i].status = "STOPPED", ![i].ended = clock] = [table EXCEPT ![i] = row]
      BY <1>1, <2>1 DEF Finished
    <3>2. \/ \E code : StopShareInTable(c, i) = Refused(table, code)
          \/ /\ i \in ActiveOf(table, c, "sharing")
             /\ StopShareInTable(c, i) = Outcome([table EXCEPT ![i].status = "STOPPED", ![i].ended = clock],
                          "ok", {i}, {"location_sharing_stopped"})
      BY DEF StopShareInTable
    <3> QED BY <3>1, <3>2
  <2>3. i \in ActiveOf(table, c, "sharing") => row.client = table[i].client
    BY <1>1, <1>3, <2>1, FinishedRow
  <2>4. Truthful(table, StopShareInTable(c, i))
    <3>1. CASE \E code : StopShareInTable(c, i) = Refused(table, code)
      BY <3>1, RefusalIsTruthful
    <3>2. CASE ~(\E code : StopShareInTable(c, i) = Refused(table, code))
      <4>1. i \in Ids /\ table[i].client = c /\ row.client = table[i].client
        BY <1>3, <2>2, <2>3, <3>2
      <4> QED BY <1>2, <2>2, <3>2, <4>1
    <3> QED BY <3>1, <3>2
  <2> QED BY <2>4
<1> QED BY <1>6, <1>7, <1>8, <1>9, <1>10, <1>11, <1>12, <1>13 DEF SosNext

\* Whatever expires, is refused or stopped twice on the way, both builds announce
\* sessions they hold: the memory build's history is part of the table's
\* (safety/sessions.py, api/emergency.py).
THEOREM SessionsTellOfRows == SosSpec => []NoticesHaveRows
<1>1. SosInit => Anchored(table, notes.table)
  BY DEF SosInit, BuildsInit, Anchored
<1>2. ASSUME SosInv, Anchored(table, notes.table), [SosNext]_buildVars
      PROVE  Anchored(table, notes.table)'
  <2>1. CASE SosNext /\ ~BuildsTick
    <3>1. PICK m, t : Both(m, t) /\ Truthful(table, t)
      BY <1>2, <2>1, SosCallsAreTruthful
    <3>2. Anchored(t.rows, Recorded(notes.table, t))
      BY <1>2, <3>1, StaysAnchored
    <3> QED BY <3>1, <3>2 DEF Both, Anchored
  <2>2. CASE BuildsTick \/ UNCHANGED buildVars
    BY <1>2, <2>2 DEF BuildsTick, buildVars, Anchored
  <2> QED BY <1>2, <2>1, <2>2
<1>3. ASSUME SosInv, Anchored(table, notes.table) PROVE NoticesHaveRows
  <2>1. \A i \in Ids : memory[i].client = table[i].client
    BY <1>3 DEF SosInv, SosRows, SessionTwins, SameSession
  <2>2. notes.memory \subseteq notes.table
    BY <1>3 DEF SosInv
  <2> QED BY <1>3, <2>1, <2>2 DEF NoticesHaveRows, Anchored
<1> QED BY <1>1, <1>2, <1>3, SosStart, SosStep, PTL DEF SosSpec
=============================================================================
