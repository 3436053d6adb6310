--------------------------- MODULE EvidenceProofs ---------------------------
(***************************************************************************)
(* What holds of Evidence for every table, every number of admin threads   *)
(* and every bound.                                                        *)
(***************************************************************************)
EXTENDS Evidence, TLAPS

Tables == [Items -> Row]

-----------------------------------------------------------------------------
(* The engine: a pass changes states only, and settles who is active.      *)

\* The rows a pass leaves active, whatever state it gives them.
Stands(row, t) ==
    \/ row.state = "VERIFIED"
    \/ row.state \in States \ Final /\ ~Past(row, t)

\* A row's data, and whether an admin has decided it or it is not there at all.
SameRow(a, b) ==
    /\ a.segment = b.segment /\ a.type = b.type /\ a.source = b.source
    /\ a.value = b.value /\ a.observed = b.observed /\ a.claim = b.claim
    /\ (a.state = "FREE") <=> (b.state = "FREE")
    /\ \A s \in Final : (a.state = s) <=> (b.state = s)

\* What a pass gives a row.
LEMMA StateOfRange ==
    ASSUME NEW rows \in Tables, NEW t, NEW i \in Items
    PROVE  /\ StateOf(rows, i, t) \in States \cup {"FREE"}
           /\ (StateOf(rows, i, t) = "FREE") <=> (rows[i].state = "FREE")
           /\ \A s \in Final : (StateOf(rows, i, t) = s) <=> (rows[i].state = s)
           /\ rows[i].state \in States \cup {"FREE"}
<1>1. rows[i] \in Row
  BY DEF Tables
<1>2. rows[i].state \in States \cup {"FREE"}
  BY <1>1 DEF Row, Evidence, FreeRow
<1> QED
  BY <1>2 DEF StateOf, States, Final

\* A pass keeps a table a table, and every row's data.
LEMMA PassKeeps ==
    ASSUME NEW rows \in Tables, NEW t
    PROVE  /\ Pass(rows, t) \in Tables
           /\ \A i \in Items : /\ SameRow(Pass(rows, t)[i], rows[i])
                               /\ Pass(rows, t)[i].state = StateOf(rows, i, t)
<1> SUFFICES ASSUME NEW i \in Items
             PROVE  /\ Pass(rows, t)[i] \in Row
                    /\ SameRow(Pass(rows, t)[i], rows[i])
                    /\ Pass(rows, t)[i].state = StateOf(rows, i, t)
  BY DEF Pass, Tables
<1> DEFINE s == StateOf(rows, i, t)
<1>1. Pass(rows, t)[i] = [rows[i] EXCEPT !.state = s]
  BY DEF Pass
<1>2. /\ s \in States \cup {"FREE"}
      /\ (s = "FREE") <=> (rows[i].state = "FREE")
      /\ \A x \in Final : (s = x) <=> (rows[i].state = x)
  BY StateOfRange
<1>3. rows[i] \in Row
  BY DEF Tables
<1> HIDE DEF s
<1>4. CASE rows[i] = FreeRow
  <2>1. s = "FREE"
    BY <1>2, <1>4 DEF FreeRow
  <2>2. [FreeRow EXCEPT !.state = "FREE"] = FreeRow
    BY DEF FreeRow
  <2>3. Pass(rows, t)[i] = rows[i]
    BY <1>1, <1>4, <2>1, <2>2
  <2>4. SameRow(rows[i], rows[i])
    BY DEF SameRow
  <2> QED
    BY <1>3, <1>4, <2>1, <2>3, <2>4 DEF FreeRow, s
<1>5. CASE rows[i] \in Evidence
  <2>1. s \in States
    BY <1>2, <1>5 DEF Evidence, States
  <2>2. Pass(rows, t)[i] \in Evidence
    BY <1>1, <1>5, <2>1 DEF Evidence
  <2>3. /\ Pass(rows, t)[i].state = s
        /\ \A f \in {"segment", "type", "source", "value", "observed", "claim"} :
              Pass(rows, t)[i][f] = rows[i][f]
    BY <1>1, <1>5 DEF Evidence
  <2>4. SameRow(Pass(rows, t)[i], rows[i])
    BY <1>2, <2>3 DEF SameRow
  <2> QED
    BY <2>2, <2>3, <2>4 DEF Row, s
<1> QED
  BY <1>3, <1>4, <1>5 DEF Row, s

\* After a pass a row is active exactly when it stood before it.
LEMMA PassActive ==
    ASSUME NEW rows \in Tables, NEW t, NEW i \in Items
    PROVE  Active(Pass(rows, t)[i]) <=> Stands(rows[i], t)
<1>1. Pass(rows, t)[i].state = StateOf(rows, i, t)
  BY PassKeeps
<1>2. rows[i].state \in States \cup {"FREE"}
  BY StateOfRange
<1> QED
  BY <1>1, <1>2 DEF Active, Stands, StateOf, States, Final

\* Standing depends on nothing a pass changes.
LEMMA StandsKept ==
    ASSUME NEW rows \in Tables, NEW t, NEW i \in Items
    PROVE  Stands(Pass(rows, t)[i], t) <=> Stands(rows[i], t)
<1>1. SameRow(Pass(rows, t)[i], rows[i])
  BY PassKeeps
<1>2. rows[i].state \in States \cup {"FREE"} /\ Pass(rows, t)[i].state \in States \cup {"FREE"}
  BY StateOfRange, PassKeeps
<1>3. Past(Pass(rows, t)[i], t) <=> Past(rows[i], t)
  BY <1>1 DEF SameRow, Past, Expiry
<1> QED
  BY <1>1, <1>2, <1>3 DEF SameRow, Stands, States, Final

\* Two tables with the same rows and the same active ones get the same states.
LEMMA SameStates ==
    ASSUME NEW a \in Tables, NEW b \in Tables, NEW t, NEW i \in Items,
           \A j \in Items : SameRow(a[j], b[j]) /\ (Active(a[j]) <=> Active(b[j]))
    PROVE  StateOf(a, i, t) = StateOf(b, i, t)
<1>1. Siblings(a, i) = Siblings(b, i)
  BY DEF Siblings, Peers, SameRow
<1>2. Siblings(a, i) \subseteq Items
  BY DEF Siblings, Peers
<1>3. Past(a[i], t) <=> Past(b[i], t)
  BY DEF SameRow, Past, Expiry
<1>4. Conflicting(a, i, Siblings(a, i)) <=> Conflicting(b, i, Siblings(b, i))
  BY <1>1, <1>2 DEF Conflicting, Conflicts, SameRow
<1>5. Corroborated(a, i, Siblings(a, i)) <=> Corroborated(b, i, Siblings(b, i))
  BY <1>1, <1>2 DEF Corroborated, SameRow
<1>6. /\ (a[i].state \in Final \cup {"FREE"}) <=> (b[i].state \in Final \cup {"FREE"})
      /\ a[i].state \in Final \cup {"FREE"} => a[i].state = b[i].state
  BY DEF SameRow
<1> QED
  BY <1>3, <1>4, <1>5, <1>6 DEF StateOf

\* With no new evidence and no time passed, a third recompute changes nothing:
\* the second one may, because the first told siblings apart by stored states.
THEOREM RecomputeSettles ==
    ASSUME NEW rows \in Tables, NEW t
    PROVE  Settled(Pass(Pass(rows, t), t), t)
<1> DEFINE once == Pass(rows, t)
           twice == Pass(once, t)
<1>1. once \in Tables /\ twice \in Tables
  BY PassKeeps
<1>2. ASSUME NEW j \in Items
      PROVE  SameRow(twice[j], once[j]) /\ (Active(twice[j]) <=> Active(once[j]))
  BY <1>1, PassKeeps, PassActive, StandsKept
<1> HIDE DEF once
<1>3. ASSUME NEW i \in Items PROVE StateOf(twice, i, t) = twice[i].state
  BY <1>1, <1>2, SameStates, PassKeeps
<1>4. ASSUME NEW i \in Items PROVE [twice[i] EXCEPT !.state = StateOf(twice, i, t)] = twice[i]
  <2>1. twice[i] \in Row
    BY <1>1 DEF Tables
  <2> QED
    BY <1>3, <2>1 DEF Row, Evidence, FreeRow
<1>5. Pass(twice, t) = [i \in Items |-> twice[i]]
  BY <1>4 DEF Pass
<1>6. twice = [i \in Items |-> twice[i]]
  BY <1>1 DEF Tables
<1> QED
  BY <1>5, <1>6 DEF Settled, once

-----------------------------------------------------------------------------
(* What a recompute reads, and what it then plans.                         *)

Data(a, b) == /\ a.segment = b.segment /\ a.type = b.type /\ a.source = b.source
              /\ a.value = b.value /\ a.observed = b.observed

SeenReal(seen) == \A i \in Items : seen[i] # "FREE" => items[i].state # "FREE"
PlanReal(plan) ==
    \A i \in Items : plan[i] # "FREE" => items[i].state # "FREE" /\ Witnessed(i, plan[i])

\* The rows as read are the rows of the table, in the states read.
LEMMA ReadRows ==
    ASSUME items \in Tables, NEW seen \in Marks, SeenReal(seen), NEW i \in Items
    PROVE  /\ AsRead(seen)[i] \in Row
           /\ AsRead(seen)[i].state = seen[i]
           /\ seen[i] # "FREE" => Data(AsRead(seen)[i], items[i])
<1>1. items[i] \in Row /\ seen[i] \in States \cup {"FREE"}
  BY DEF Tables, Marks
<1>2. CASE seen[i] = "FREE"
  <2>1. AsRead(seen)[i] = FreeRow
    BY <1>2 DEF AsRead
  <2> QED
    BY <1>2, <2>1 DEF Row, FreeRow
<1>3. CASE seen[i] # "FREE"
  <2>1. AsRead(seen)[i] = [items[i] EXCEPT !.state = seen[i]]
    BY <1>3 DEF AsRead
  <2>2. items[i] \in Evidence
    BY <1>1, <1>3 DEF SeenReal, Row, FreeRow
  <2>3. AsRead(seen)[i] \in Evidence /\ AsRead(seen)[i].state = seen[i]
    BY <1>1, <1>3, <2>1, <2>2 DEF Evidence
  <2>4. Data(AsRead(seen)[i], items[i])
    BY <2>1, <2>2 DEF Evidence, Data
  <2> QED
    BY <2>3, <2>4 DEF Row
<1> QED
  BY <1>2, <1>3

LEMMA ReadTable ==
    ASSUME items \in Tables, NEW seen \in Marks, SeenReal(seen)
    PROVE  AsRead(seen) \in Tables
<1>1. ASSUME NEW i \in Items PROVE AsRead(seen)[i] \in Row
  BY <1>1, ReadRows
<1>2. AsRead(seen) = [i \in Items |-> AsRead(seen)[i]]
  BY DEF AsRead
<1> HIDE DEF Row, Tables
<1> QED
  BY <1>1, <1>2 DEF Tables

\* Every UPDATE a recompute plans is of a row that is there, and has a witness.
LEMMA PlanIsReal ==
    ASSUME items \in Tables, NEW seen \in Marks, SeenReal(seen)
    PROVE  Plan(seen, now) \in Marks /\ PlanReal(Plan(seen, now))
<1> DEFINE R == AsRead(seen)
<1>1. R \in Tables
  BY ReadTable
<1>2. ASSUME NEW i \in Items
      PROVE  /\ R[i].state = seen[i]
             /\ seen[i] # "FREE" => Data(R[i], items[i])
  BY ReadRows
<1> HIDE DEF R
<1>3. ASSUME NEW i \in Items PROVE StateOf(R, i, now) \in States \cup {"FREE"}
  BY <1>1, StateOfRange
<1>4. Plan(seen, now) \in Marks
  BY <1>3 DEF Plan, Marks, R
<1>5. ASSUME NEW i \in Items, Plan(seen, now)[i] # "FREE"
      PROVE  items[i].state # "FREE" /\ Witnessed(i, Plan(seen, now)[i])
  <2> DEFINE s == StateOf(R, i, now)
  <2>1. s # seen[i] /\ Plan(seen, now)[i] = s
    BY <1>5 DEF Plan, R
  <2>2. /\ s \in States \cup {"FREE"}
        /\ (s = "FREE") <=> (R[i].state = "FREE")
        /\ \A x \in Final : (s = x) <=> (R[i].state = x)
    BY <1>1, StateOfRange
  <2>3. s \notin Final /\ seen[i] \notin Final /\ seen[i] # "FREE" /\ s # "FREE"
    BY <1>2, <2>1, <2>2
  <2>4. items[i].state # "FREE" /\ Data(R[i], items[i])
    BY <1>2, <2>3 DEF SeenReal
  <2>5. ASSUME NEW j \in Siblings(R, i)
        PROVE  j \in Peers(items, i) /\ Data(R[j], items[j])
    <3>1. j \in Items \ {i} /\ R[j].state # "FREE"
          /\ R[j].segment = R[i].segment /\ R[j].type = R[i].type
      BY DEF Siblings, Peers
    <3>2. items[j].state # "FREE" /\ Data(R[j], items[j])
      BY <1>2, <3>1 DEF SeenReal
    <3> QED
      BY <2>4, <3>1, <3>2 DEF Peers, Data
  <2>6. CASE s = "EXPIRED"
    <3>1. Past(R[i], now)
      BY <1>2, <2>3, <2>6 DEF StateOf, Final
    <3> QED
      BY <2>1, <2>4, <2>6, <3>1 DEF Past, Expiry, Data, Witnessed
  <2>7. CASE s = "CONFLICTING"
    <3>1. Conflicting(R, i, Siblings(R, i))
      BY <1>2, <2>3, <2>7 DEF StateOf, Final
    <3>2. Conflicting(items, i, Peers(items, i))
      BY <2>4, <2>5, <3>1 DEF Conflicting, Conflicts, Data
    <3> QED
      BY <2>1, <2>4, <2>7, <3>2 DEF Witnessed
  <2>8. CASE s = "CORROBORATED"
    <3>1. Corroborated(R, i, Siblings(R, i))
      BY <1>2, <2>3, <2>8 DEF StateOf, Final
    <3>2. Corroborated(items, i, Peers(items, i))
      BY <2>4, <2>5, <3>1 DEF Corroborated, Data
    <3> QED
      BY <2>1, <2>4, <2>8, <3>2 DEF Witnessed
  <2>9. CASE s = "REPORTED"
    BY <2>1, <2>4, <2>9 DEF Witnessed
  <2> QED
    BY <2>2, <2>3, <2>6, <2>7, <2>8, <2>9 DEF States, Final
<1> QED
  BY <1>4, <1>5 DEF PlanReal

-----------------------------------------------------------------------------
(* The inductive invariant, whatever the number of admin threads.          *)

\* Whoever is to be audited has decided something.
Owed(r) == r.report # NoOne => r.verdict \in Final

ReqReal(r) == r \in Request /\ SeenReal(r.seen) /\ PlanReal(r.plan) /\ Owed(r)

IInv == TypeOK /\ StatesAreWitnessed /\ \A w \in Workers : ReqReal(req[w])

\* Rows are added and their states change; nothing else happens to them.
Grows ==
    /\ items' \in Tables
    /\ now' \in Nat /\ now' >= now
    /\ \A j \in Items : items[j].state # "FREE" =>
          /\ items'[j].state # "FREE" /\ Data(items'[j], items[j])
          /\ items'[j].claim = items[j].claim

\* Every new state is what a row came with, what it had, or has its reason.
Reasons ==
    \A i \in Items :
        \/ items'[i].state \in {"FREE", items'[i].claim}
        \/ items[i].state # "FREE" /\ Witnessed(i, items'[i].state)

NewReqs == \A w \in Workers : ReqReal(req'[w])

LEMMA IdleTyped == Idle \in Request /\ Blank \in Marks
  BY DEF Idle, Blank, Request, Marks, Steps, States

LEMMA IdleReal == ReqReal(Idle)
<1>1. Idle.seen = Blank /\ Idle.plan = Blank /\ Owed(Idle)
  BY DEF Idle, Owed
<1>2. SeenReal(Blank) /\ PlanReal(Blank)
  BY DEF SeenReal, PlanReal, Blank
<1> QED
  BY <1>1, <1>2, IdleTyped DEF ReqReal

\* A reason stays a reason.
LEMMA WitnessKept ==
    ASSUME TypeOK, Grows, NEW i \in Items, items[i].state # "FREE", NEW s, Witnessed(i, s)
    PROVE  Witnessed(i, s)'
<1>1. Data(items'[i], items[i])
  BY DEF Grows
<1>2. items[i] \in Evidence
  BY DEF TypeOK, Row, FreeRow
<1>3. ASSUME NEW j \in Peers(items, i)
      PROVE  j \in Peers(items', i) /\ Data(items'[j], items[j])
  BY <1>1, <1>3 DEF Peers, Grows, Data
<1>4. CASE s = "EXPIRED" /\ now > Expiry(items[i])
  <2>1. Expiry(items[i]) \in Int /\ Expiry(items'[i]) = Expiry(items[i])
    BY <1>1, <1>2, TypesAssumption DEF Evidence, Expiry, Data
  <2>2. now \in Nat /\ now' \in Nat /\ now' >= now
    BY DEF TypeOK, Grows
  <2>3. now' > Expiry(items'[i])
    BY <1>4, <2>1, <2>2
  <2> QED
    BY <1>4, <2>3 DEF Witnessed
<1>5. CASE s = "CONFLICTING" /\ Conflicting(items, i, Peers(items, i))
  <2>1. Conflicting(items', i, Peers(items', i))
    BY <1>1, <1>3, <1>5 DEF Conflicting, Conflicts, Data
  <2> QED
    BY <1>5, <2>1 DEF Witnessed
<1>6. CASE s = "CORROBORATED" /\ Corroborated(items, i, Peers(items, i))
  <2>1. Corroborated(items', i, Peers(items', i))
    BY <1>1, <1>3, <1>6 DEF Corroborated, Data
  <2> QED
    BY <1>6, <2>1 DEF Witnessed
<1> QED
  BY <1>4, <1>5, <1>6 DEF Witnessed

LEMMA ReqKept ==
    ASSUME TypeOK, Grows, NEW r, ReqReal(r)
    PROVE  ReqReal(r)'
<1>1. \A i \in Items : r.seen[i] # "FREE" => items'[i].state # "FREE"
  BY DEF ReqReal, SeenReal, Grows
<1>2. ASSUME NEW i \in Items, r.plan[i] # "FREE"
      PROVE  items'[i].state # "FREE" /\ Witnessed(i, r.plan[i])'
  <2>1. items[i].state # "FREE" /\ Witnessed(i, r.plan[i])
    BY <1>2 DEF ReqReal, PlanReal
  <2> QED
    BY <2>1, WitnessKept DEF Grows
<1> QED
  BY <1>1, <1>2 DEF ReqReal, SeenReal, PlanReal

\* What each action has to show.
LEMMA StepKeeps ==
    ASSUME IInv, Grows, Reasons, NewReqs, audits' \in [Reports -> SUBSET Final],
           req' \in [Workers -> Request]
    PROVE  IInv'
<1>1. TypeOK'
  BY DEF IInv, TypeOK, Grows, Tables
<1>2. ASSUME NEW i \in Items
      PROVE  (items[i].state = items[i].claim \/ Witnessed(i, items[i].state))'
  <2>1. PICK s : s = items'[i].state
    OBVIOUS
  <2>2. s \in {"FREE", items'[i].claim} \/ (items[i].state # "FREE" /\ Witnessed(i, s))
    BY <2>1 DEF Reasons
  <2>3. s = items'[i].claim \/ Witnessed(i, s)'
    BY <2>2, WitnessKept DEF IInv, Witnessed
  <2> QED
    BY <2>1, <2>3 DEF Witnessed
<1>3. ASSUME NEW w \in Workers PROVE ReqReal(req[w])'
  <2>1. PICK r : r = req'[w]
    OBVIOUS
  <2>2. ReqReal(r)
    BY <2>1 DEF NewReqs
  <2>3. ReqReal(r)'
    BY <2>2, ReqKept DEF IInv
  <2> QED
    BY <2>1, <2>3 DEF ReqReal, SeenReal, PlanReal
<1> QED
  BY <1>1, <1>2, <1>3 DEF IInv, StatesAreWitnessed

\* A step that leaves the tables alone, or writes one row.
LEMMA SameItems ==
    ASSUME IInv, items' = items, now' \in Nat, now' >= now
    PROVE  Grows /\ Reasons
<1>1. items \in Tables
  BY DEF IInv, TypeOK, Tables
<1>2. ASSUME NEW j \in Items PROVE Data(items'[j], items[j]) /\ items'[j].claim = items[j].claim
  BY DEF Data
<1> QED
  BY <1>1, <1>2 DEF Grows, Reasons, IInv, StatesAreWitnessed

LEMMA NewItem ==
    ASSUME IInv, NEW i \in Items, items[i].state = "FREE", NEW row \in Evidence,
           row.state = row.claim, items' = [items EXCEPT ![i] = row], now' = now
    PROVE  Grows /\ Reasons
<1>1. items \in Tables /\ items' \in Tables /\ now \in Nat
  BY DEF IInv, TypeOK, Tables, Row
<1>2. ASSUME NEW j \in Items
      PROVE  j # i => items'[j] = items[j]
  BY DEF IInv, TypeOK
<1>3. items'[i] = row
  BY DEF IInv, TypeOK
<1>4. ASSUME NEW j \in Items, items[j].state # "FREE"
      PROVE  /\ items'[j].state # "FREE" /\ Data(items'[j], items[j])
             /\ items'[j].claim = items[j].claim
  BY <1>2, <1>4 DEF Data
<1> QED
  BY <1>1, <1>2, <1>3, <1>4 DEF Grows, Reasons, IInv, StatesAreWitnessed

LEMMA NewState ==
    ASSUME IInv, NEW i \in Items, items[i].state # "FREE", NEW s \in States,
           Witnessed(i, s), items' = [items EXCEPT ![i].state = s], now' = now
    PROVE  Grows /\ Reasons
<1>1. items \in Tables /\ now \in Nat
  BY DEF IInv, TypeOK, Tables
<1>2. items[i] \in Evidence
  BY <1>1 DEF Tables, Row, FreeRow
<1>3. /\ items'[i] = [items[i] EXCEPT !.state = s]
      /\ \A j \in Items : j # i => items'[j] = items[j]
  BY <1>1 DEF Tables
<1>4. items'[i] \in Evidence /\ items'[i].state = s /\ items'[i].claim = items[i].claim
      /\ Data(items'[i], items[i])
  BY <1>2, <1>3 DEF Evidence, Data
<1>5. items' \in Tables
  BY <1>1, <1>3, <1>4 DEF Tables, Row
<1>6. "FREE" \notin States
  BY DEF States
<1>7. ASSUME NEW j \in Items, items[j].state # "FREE"
      PROVE  /\ items'[j].state # "FREE" /\ Data(items'[j], items[j])
             /\ items'[j].claim = items[j].claim
  BY <1>3, <1>4, <1>6, <1>7 DEF Data
<1>8. Grows
  BY <1>1, <1>5, <1>7 DEF Grows
<1> QED
  BY <1>3, <1>4, <1>8 DEF Reasons, IInv, StatesAreWitnessed

\* A worker's request changes, or none does.
LEMMA OneReq ==
    ASSUME IInv, NEW w \in Workers, NEW r, ReqReal(r), req' = [req EXCEPT ![w] = r]
    PROVE  NewReqs /\ req' \in [Workers -> Request]
<1>1. ASSUME NEW v \in Workers PROVE req'[v] \in {r, req[v]}
  BY DEF IInv, TypeOK
<1>2. ASSUME NEW v \in Workers PROVE ReqReal(req'[v])
  BY <1>1 DEF IInv
<1>3. req' \in [Workers -> Request]
  BY DEF IInv, TypeOK, ReqReal
<1> QED
  BY <1>2, <1>3 DEF NewReqs

LEMMA DoneReal ==
    ASSUME NEW r, ReqReal(r)
    PROVE  ReqReal(Done(r))
<1> DEFINE more == [r EXCEPT !.pc = "observations", !.todo = r.todo \ {r.seg}, !.seg = NoOne,
                             !.seen = Blank, !.plan = Blank]
           audit == [Idle EXCEPT !.pc = "audit", !.report = r.report, !.verdict = r.verdict]
<1>1. r \in Request /\ ReqReal(Idle)
  BY IdleReal DEF ReqReal
<1>2. more \in Request /\ more.seen = Blank /\ more.plan = Blank /\ Owed(more)
  <2>0. r.todo \in SUBSET Segments
    BY <1>1 DEF Request
  <2>1. r.todo \ {r.seg} \in SUBSET Segments /\ Blank \in Marks
    BY <2>0, IdleTyped
  <2> HIDE DEF Blank, Marks
  <2> QED
    BY <1>1, <2>1 DEF Request, Steps, ReqReal, Owed
<1>3. audit \in Request /\ audit.seen = Blank /\ audit.plan = Blank /\ Owed(audit)
  BY <1>1, IdleTyped DEF Request, Steps, Idle, ReqReal, Owed
<1>4. Done(r) \in {more, audit}
  BY DEF Done
<1>5. SeenReal(Blank) /\ PlanReal(Blank)
  BY DEF SeenReal, PlanReal, Blank
<1> HIDE DEF more, audit
<1> QED
  BY <1>1, <1>2, <1>3, <1>4, <1>5 DEF ReqReal

\* A request that has just begun, with a decision to audit in the end.
LEMMA FreshReal ==
    ASSUME NEW segs \in SUBSET Segments, NEW r \in Reports \cup {NoOne},
           NEW v \in Final \cup {NoOne}, r # NoOne => v \in Final
    PROVE  ReqReal([Idle EXCEPT !.pc = "observations", !.todo = segs, !.report = r, !.verdict = v])
<1> DEFINE q == [Idle EXCEPT !.pc = "observations", !.todo = segs, !.report = r, !.verdict = v]
<1>1. q \in Request /\ q.seen = Blank /\ q.plan = Blank /\ Owed(q)
  BY IdleTyped DEF Request, Steps, Idle, Owed
<1> HIDE DEF q
<1>2. SeenReal(Blank) /\ PlanReal(Blank)
  BY DEF SeenReal, PlanReal, Blank
<1> QED
  BY <1>1, <1>2 DEF ReqReal, q

LEMMA RecomputeKeeps ==
    ASSUME IInv, NEW w \in Workers, NEW segs \in SUBSET Segments, Recompute(w, segs)
    PROVE  IInv'
<1> DEFINE q == [Idle EXCEPT !.pc = "observations", !.todo = segs]
<1>1. req' = [req EXCEPT ![w] = q]
  BY DEF Recompute
<1>2. ReqReal(q)
  <2>1. q \in Request /\ q.seen = Blank /\ q.plan = Blank /\ Owed(q)
    BY IdleTyped DEF Request, Steps, Idle, Owed
  <2> HIDE DEF q
  <2>2. SeenReal(Blank) /\ PlanReal(Blank)
    BY DEF SeenReal, PlanReal, Blank
  <2> QED
    BY <2>1, <2>2 DEF ReqReal
<1> HIDE DEF q
<1>3. NewReqs /\ req' \in [Workers -> Request]
  BY <1>1, <1>2, OneReq
<1>4. Grows /\ Reasons /\ audits' \in [Reports -> SUBSET Final]
  BY SameItems DEF Recompute, IInv, TypeOK
<1> QED
  BY <1>3, <1>4, StepKeeps

LEMMA DecideKeeps ==
    ASSUME IInv, NEW w \in Workers, NEW r \in Reports, NEW verdict \in Final,
           Decide(w, r, verdict)
    PROVE  IInv'
<1> DEFINE q == [Idle EXCEPT !.pc = "observations", !.todo = {items[r].segment},
                             !.report = r, !.verdict = verdict]
<1>1. r \in Items /\ verdict \in States /\ Witnessed(r, verdict)
  BY DEF Items, Final, States, Witnessed
<1>2. {items[r].segment} \in SUBSET Segments
  <2>1. items[r] \in Row /\ items[r].state # "FREE"
    BY <1>1 DEF Decide, IInv, TypeOK
  <2> QED
    BY <2>1 DEF Row, Evidence, FreeRow
<1>3. req' = [req EXCEPT ![w] = q]
  BY DEF Decide
<1>4. ReqReal(q)
  BY <1>2, FreshReal
<1> HIDE DEF q
<1>5. NewReqs /\ req' \in [Workers -> Request]
  BY <1>3, <1>4, OneReq
<1>6. Grows /\ Reasons /\ audits' \in [Reports -> SUBSET Final]
  BY <1>1, NewState DEF Decide, IInv, TypeOK
<1> QED
  BY <1>5, <1>6, StepKeeps

LEMMA ReadKeeps ==
    ASSUME IInv, NEW w \in Workers, ReadObservations(w) \/ ReadReports(w)
    PROVE  IInv'
<1>1. PICK q : q = req'[w]
  OBVIOUS
<1>2. /\ req' = [req EXCEPT ![w] = q]
      /\ q \in Request /\ SeenReal(q.seen) /\ q.plan = req[w].plan /\ Owed(q)
  <2>0. req[w] \in Request /\ ReqReal(req[w]) /\ items \in Tables
    BY DEF IInv, TypeOK, Tables
  <2>1. ASSUME NEW i \in Items PROVE items[i].state \in States \cup {"FREE"}
    BY <2>0 DEF Tables, Row, Evidence, FreeRow
  <2>2. CASE ReadObservations(w)
    <3>1. PICK seg \in req[w].todo :
             req' = [req EXCEPT ![w] =
                    [@ EXCEPT !.pc = "reports", !.seg = seg,
                              !.seen = [i \in Items |-> IF i \in Observations \cap Used(seg)
                                                        THEN items[i].state ELSE "FREE"]]]
      BY <2>2 DEF ReadObservations
    <3> DEFINE seen == [i \in Items |-> IF i \in Observations \cap Used(seg)
                                        THEN items[i].state ELSE "FREE"]
    <3>2. seen \in Marks /\ SeenReal(seen)
      BY <2>1 DEF Marks, SeenReal
    <3> HIDE DEF seen
    <3>3. q = [req[w] EXCEPT !.pc = "reports", !.seg = seg, !.seen = seen]
      BY <1>1, <3>1 DEF seen, IInv, TypeOK
    <3>4. seg \in Segments
      BY <2>0, <3>1 DEF Request
    <3>5. q \in Request /\ q.seen = seen /\ q.plan = req[w].plan /\ Owed(q)
      BY <2>0, <3>2, <3>3, <3>4 DEF Request, Steps, ReqReal, Owed
    <3> QED
      BY <3>1, <3>2, <3>3, <3>5 DEF seen
  <2>3. CASE ReadReports(w)
    <3> DEFINE seen == [i \in Items |-> IF i \in Reports \cap Used(req[w].seg)
                                        THEN items[i].state ELSE req[w].seen[i]]
    <3>1. req[w].seen \in Marks /\ SeenReal(req[w].seen)
      BY <2>0 DEF ReqReal, Request
    <3>2. seen \in Marks /\ SeenReal(seen)
      BY <2>1, <3>1 DEF Marks, SeenReal
    <3>3. req' = [req EXCEPT ![w] = [@ EXCEPT !.pc = "compute", !.seen = seen]]
      BY <2>3 DEF ReadReports
    <3> HIDE DEF seen
    <3>4. q = [req[w] EXCEPT !.pc = "compute", !.seen = seen]
      BY <1>1, <3>3 DEF IInv, TypeOK
    <3>5. q \in Request /\ q.seen = seen /\ q.plan = req[w].plan /\ Owed(q)
      BY <2>0, <3>2, <3>4 DEF Request, Steps, ReqReal, Owed
    <3> QED
      BY <3>2, <3>3, <3>4, <3>5
  <2> QED
    BY <2>2, <2>3
<1>3. ReqReal(q)
  BY <1>2 DEF ReqReal, IInv
<1>4. NewReqs /\ req' \in [Workers -> Request]
  BY <1>2, <1>3, OneReq
<1>5. Grows /\ Reasons /\ audits' \in [Reports -> SUBSET Final]
  <2>1. items' = items /\ now' = now /\ audits' = audits
    BY DEF ReadObservations, ReadReports
  <2>2. now \in Nat /\ audits \in [Reports -> SUBSET Final]
    BY DEF IInv, TypeOK
  <2> QED
    BY <2>1, <2>2, SameItems
<1> QED
  BY <1>4, <1>5, StepKeeps

LEMMA ComputeKeeps ==
    ASSUME IInv, NEW w \in Workers, Compute(w)
    PROVE  IInv'
<1>1. PICK seen : seen = req[w].seen
  OBVIOUS
<1>2. req[w] \in Request /\ ReqReal(req[w]) /\ items \in Tables /\ seen \in Marks /\ SeenReal(seen)
  BY <1>1 DEF IInv, TypeOK, Tables, Request, ReqReal
<1>3. PICK plan : plan = Plan(seen, now)
  OBVIOUS
<1>4. plan \in Marks /\ PlanReal(plan)
  BY <1>2, <1>3, PlanIsReal
<1> DEFINE q == IF plan = Blank THEN Done(req[w])
                ELSE [req[w] EXCEPT !.pc = "update", !.seen = Blank, !.plan = plan]
<1>5. req' = [req EXCEPT ![w] = q]
  BY <1>1, <1>3 DEF Compute
<1>6. ReqReal(q)
  <2>1. CASE plan = Blank
    BY <1>2, <2>1, DoneReal
  <2>2. CASE plan # Blank
    <3>1. Blank \in Marks /\ SeenReal(Blank)
      BY IdleTyped DEF SeenReal, Blank
    <3>2. q \in Request /\ q.seen = Blank /\ q.plan = plan /\ Owed(q)
      BY <1>2, <1>4, <2>2, <3>1 DEF Request, Steps, ReqReal, Owed
    <3> HIDE DEF q
    <3> QED
      BY <1>4, <3>1, <3>2 DEF ReqReal
  <2> QED
    BY <2>1, <2>2
<1> HIDE DEF q
<1>7. NewReqs /\ req' \in [Workers -> Request]
  BY <1>5, <1>6, OneReq
<1>8. Grows /\ Reasons /\ audits' \in [Reports -> SUBSET Final]
  BY SameItems DEF Compute, IInv, TypeOK
<1> QED
  BY <1>7, <1>8, StepKeeps

LEMMA UpdateKeeps ==
    ASSUME IInv, NEW w \in Workers, Update(w)
    PROVE  IInv'
<1>1. req[w] \in Request /\ ReqReal(req[w])
  BY DEF IInv, TypeOK
<1>2. PICK i \in Items :
         /\ req[w].plan[i] # "FREE"
         /\ items' = [items EXCEPT ![i].state = req[w].plan[i]]
         /\ \/ req' = [req EXCEPT ![w] = Done(@)]
            \/ req' = [req EXCEPT ![w] = [@ EXCEPT !.plan[i] = "FREE"]]
  BY DEF Update
<1>3. PICK s : s = req[w].plan[i]
  OBVIOUS
<1>4. s \in States /\ items[i].state # "FREE" /\ Witnessed(i, s)
  BY <1>1, <1>2, <1>3 DEF ReqReal, PlanReal, Request, Marks
<1>5. Grows /\ Reasons /\ audits' \in [Reports -> SUBSET Final]
  BY <1>2, <1>3, <1>4, NewState DEF Update, IInv, TypeOK
<1>6. ReqReal(Done(req[w]))
  BY <1>1, DoneReal
<1>7. ReqReal([req[w] EXCEPT !.plan[i] = "FREE"])
  <2> DEFINE plan == [req[w].plan EXCEPT ![i] = "FREE"]
             q == [req[w] EXCEPT !.plan = plan]
  <2>1. plan \in Marks /\ PlanReal(plan)
    BY <1>1 DEF ReqReal, PlanReal, Request, Marks
  <2> HIDE DEF plan
  <2>2. q \in Request /\ q.seen = req[w].seen /\ q.plan = plan /\ Owed(q)
    BY <1>1, <2>1 DEF Request, ReqReal, Owed
  <2> HIDE DEF q
  <2>3. ReqReal(q)
    BY <1>1, <2>1, <2>2 DEF ReqReal
  <2> QED
    BY <2>3 DEF q, plan
<1>8. NewReqs /\ req' \in [Workers -> Request]
  BY <1>2, <1>6, <1>7, OneReq
<1> QED
  BY <1>5, <1>8, StepKeeps

\* Init => IInv, and every step keeps it.
LEMMA Inductive == Init /\ [][Next]_vars => []IInv
<1>1. ASSUME Init PROVE IInv
  <2>1. items \in Tables /\ \A i \in Items : items[i] = FreeRow
    BY <1>1 DEF Init, Tables, Row
  <2>2. TypeOK
    BY <1>1, <2>1, IdleTyped DEF Init, TypeOK, Tables
  <2>3. StatesAreWitnessed
    BY <2>1 DEF StatesAreWitnessed, Witnessed, FreeRow
  <2>4. \A w \in Workers : ReqReal(req[w])
    BY <1>1, IdleReal DEF Init
  <2> QED
    BY <2>2, <2>3, <2>4 DEF IInv
<1>2. ASSUME IInv, [Next]_vars PROVE IInv'
  <2>0. /\ items \in Tables /\ now \in Nat /\ audits \in [Reports -> SUBSET Final]
        /\ req \in [Workers -> Request] /\ \A w \in Workers : ReqReal(req[w])
    BY <1>2 DEF IInv, TypeOK, Tables
  <2>1. CASE UNCHANGED vars
    BY <1>2, <2>0, <2>1, SameItems, StepKeeps DEF vars, NewReqs
  <2>2. CASE Tick
    BY <1>2, <2>0, <2>2, SameItems, StepKeeps DEF Tick, NewReqs
  <2>3. ASSUME NEW r \in Reports, NEW seg \in Segments, NEW type \in Types, Report(r, seg, type)
        PROVE  IInv'
    <3> DEFINE row == [segment |-> seg, type |-> type, source |-> UserReport, value |-> "silent",
                       observed |-> now, claim |-> "REPORTED", state |-> "REPORTED"]
    <3>1. row \in Evidence /\ row.state = row.claim /\ r \in Items
      BY <2>0, TypesAssumption DEF Evidence, Values, States, Items
    <3>2. items[r].state = "FREE" /\ items' = [items EXCEPT ![r] = row]
          /\ now' = now /\ audits' = audits /\ req' = req
      BY <2>3 DEF Report
    <3> HIDE DEF row
    <3>3. Grows /\ Reasons
      BY <1>2, <3>1, <3>2, NewItem
    <3> QED
      BY <1>2, <2>0, <3>2, <3>3, StepKeeps DEF NewReqs
  <2>4. CASE Feed
    <3>1. PICK seg \in Segments, type \in Types, source \in Sources, value \in Values,
               state \in FeedStates, o \in Observations, t \in 0..now :
             Ingest(o, [segment |-> seg, type |-> type, source |-> source, value |-> value,
                        observed |-> t, claim |-> state, state |-> state])
      BY <2>4 DEF Feed
    <3> DEFINE row == [segment |-> seg, type |-> type, source |-> source, value |-> value,
                       observed |-> t, claim |-> state, state |-> state]
    <3>2. row \in Evidence /\ row.state = row.claim /\ o \in Items
      BY <2>0, FeedsAssumption DEF Evidence, Items
    <3>3. items[o].state = "FREE" /\ items' = [items EXCEPT ![o] = row]
          /\ now' = now /\ audits' = audits /\ req' = req
      BY <3>1 DEF Ingest
    <3> HIDE DEF row
    <3>4. Grows /\ Reasons
      BY <1>2, <3>2, <3>3, NewItem
    <3> QED
      BY <1>2, <2>0, <3>3, <3>4, StepKeeps DEF NewReqs
  <2>5. ASSUME NEW w \in Workers, Step(w) PROVE IInv'
    <3>1. CASE ReadObservations(w) \/ ReadReports(w)
      BY <1>2, <3>1, ReadKeeps
    <3>2. CASE Compute(w)
      BY <1>2, <3>2, ComputeKeeps
    <3>3. CASE Update(w)
      BY <1>2, <3>3, UpdateKeeps
    <3>4. CASE Audit(w)
      <4>1. Grows /\ Reasons
        BY <1>2, <2>0, <3>4, SameItems DEF Audit
      <4>2. NewReqs /\ req' \in [Workers -> Request]
        BY <1>2, <3>4, OneReq, IdleReal DEF Audit
      <4>3. req[w].report # NoOne => req[w].verdict \in Final
        BY <2>0 DEF ReqReal, Owed
      <4>4. audits' \in [Reports -> SUBSET Final]
        BY <2>0, <3>4, <4>3 DEF Audit
      <4> QED
        BY <1>2, <4>1, <4>2, <4>4, StepKeeps
    <3> QED
      BY <2>5, <3>1, <3>2, <3>3, <3>4 DEF Step
  <2>6. ASSUME NEW w \in Workers, Arrive(w) PROVE IInv'
    BY <1>2, <2>6, RecomputeKeeps, DecideKeeps DEF Arrive
  <2>7. CASE Crash
    <3>1. Grows /\ Reasons
      BY <1>2, <2>0, <2>7, SameItems DEF Crash
    <3>2. NewReqs /\ req' \in [Workers -> Request]
      BY <2>7, IdleReal, IdleTyped DEF Crash, NewReqs
    <3> QED
      BY <1>2, <2>0, <2>7, <3>1, <3>2, StepKeeps DEF Crash
  <2> QED
    BY <1>2, <2>1, <2>2, <2>3, <2>4, <2>5, <2>6, <2>7 DEF Next
<1> QED
  BY <1>1, <1>2, PTL

\* However requests interleave: the tables and requests stay well-formed.
THEOREM TypesHold == Spec => []TypeOK
<1>1. IInv => TypeOK
  BY DEF IInv
<1> QED
  BY <1>1, Inductive, PTL DEF Spec

\* However recomputes, decisions, reports and feeds interleave, every state the
\* engine gave a row has its reason in the tables.
THEOREM StatesHaveReasons == Spec => []StatesAreWitnessed
<1>1. IInv => StatesAreWitnessed
  BY DEF IInv
<1> QED
  BY <1>1, Inductive, PTL DEF Spec

\* At any moment two recomputes settle the tables: a third changes nothing.
THEOREM TwoPassesSettle == Spec => []SettlesInTwo
<1>1. TypeOK => SettlesInTwo
  BY RecomputeSettles DEF TypeOK, Tables, SettlesInTwo
<1> QED
  BY <1>1, TypesHold, PTL

-----------------------------------------------------------------------------
(* One admin request at a time: decisions are sticky.                      *)

OneAdmin == \A v, w \in Workers : v = w

\* What a recompute has read, and what it plans, know of every decision.
Informed(r) ==
    /\ \A i \in Items : items[i].state \in Final => r.seen[i] \in Final \cup {"FREE"}
    /\ \A i \in Items : items[i].state \in Final => r.plan[i] = "FREE"
    /\ \A i \in Items : r.plan[i] \notin Final

SInv == IInv /\ \A w \in Workers : Informed(req[w])

LEMMA IdleInformed == Informed(Idle)
  BY DEF Idle, Blank, Informed, Final

LEMMA DoneInformed ==
    ASSUME NEW r, r \in Request, Informed(r)
    PROVE  Informed(Done(r))
<1> DEFINE more == [r EXCEPT !.pc = "observations", !.todo = r.todo \ {r.seg}, !.seg = NoOne,
                             !.seen = Blank, !.plan = Blank]
           audit == [Idle EXCEPT !.pc = "audit", !.report = r.report, !.verdict = r.verdict]
<1>1. more.seen = Blank /\ more.plan = Blank /\ audit.seen = Blank /\ audit.plan = Blank
  BY DEF Request, Idle
<1>2. Done(r) \in {more, audit}
  BY DEF Done
<1>3. \A i \in Items : Blank[i] = "FREE" /\ "FREE" \notin Final
  BY DEF Blank, Final
<1> HIDE DEF more, audit
<1> QED
  BY <1>1, <1>2, <1>3, IdleInformed DEF Informed

\* Nothing is planned for what has been decided, and no plan decides.
LEMMA PlanInformed ==
    ASSUME TypeOK, NEW r, ReqReal(r), Informed(r), NEW i \in Items
    PROVE  /\ items[i].state \in Final => Plan(r.seen, now)[i] = "FREE"
           /\ Plan(r.seen, now)[i] \notin Final
<1> DEFINE R == AsRead(r.seen)
<1>1. items \in Tables /\ r.seen \in Marks /\ SeenReal(r.seen)
  BY DEF TypeOK, Tables, ReqReal, Request
<1>2. R \in Tables /\ R[i].state = r.seen[i]
  BY <1>1, ReadTable, ReadRows
<1> HIDE DEF R
<1>3. /\ (StateOf(R, i, now) = "FREE") <=> (R[i].state = "FREE")
      /\ \A s \in Final : (StateOf(R, i, now) = s) <=> (R[i].state = s)
  BY <1>2, StateOfRange
<1>4. Plan(r.seen, now)[i] = IF StateOf(R, i, now) = r.seen[i] THEN "FREE" ELSE StateOf(R, i, now)
  BY DEF Plan, R
<1>5. "FREE" \notin Final
  BY DEF Final
<1>6. items[i].state \in Final => r.seen[i] \in Final \cup {"FREE"}
  BY DEF Informed
<1> QED
  BY <1>2, <1>3, <1>4, <1>5, <1>6

\* With one admin thread the request at work is the only one.
LEMMA AdminStep ==
    ASSUME OneAdmin, SInv, NEW w \in Workers, Step(w) \/ Arrive(w)
    PROVE  Informed(req[w])' /\ \A i \in Items : items[i].state \in Final => items'[i].state \in Final
<1>0. /\ TypeOK /\ items \in Tables /\ req \in [Workers -> Request] /\ req[w] \in Request
      /\ ReqReal(req[w]) /\ Informed(req[w])
      /\ \A i \in Items : items[i].state \in States \cup {"FREE"}
  BY DEF SInv, IInv, TypeOK, Tables, States, Row, Evidence, FreeRow
<1>1. PICK q : q = req'[w]
  OBVIOUS
<1>2. CASE \E segs : Recompute(w, segs)
  <2>1. q.seen = Blank /\ q.plan = Blank /\ items' = items
    BY <1>0, <1>1, <1>2 DEF Recompute, Idle
  <2> QED
    BY <1>1, <2>1 DEF Informed, Blank, Final
<1>3. CASE \E r \in Reports, verdict \in Final : Decide(w, r, verdict)
  <2>1. PICK r \in Reports, verdict \in Final : Decide(w, r, verdict)
    BY <1>3
  <2>2. q.seen = Blank /\ q.plan = Blank
    BY <1>0, <1>1, <2>1 DEF Decide, Idle
  <2>3. \A i \in Items : items'[i].state \in {items[i].state, verdict}
    <3>1. items[r] \in Evidence /\ r \in Items
      BY <1>0, <2>1 DEF Decide, Tables, Row, FreeRow, Items
    <3> QED
      BY <1>0, <2>1, <3>1 DEF Decide, Tables, Evidence
  <2> QED
    BY <1>1, <2>1, <2>2, <2>3 DEF Informed, Blank, Final
<1>4. CASE ReadObservations(w) \/ ReadReports(w)
  <2>1. PICK seen : /\ items' = items /\ q.plan = req[w].plan /\ q.seen = seen
                    /\ \A i \in Items : seen[i] \in {items[i].state, req[w].seen[i], "FREE"}
    <3>1. CASE ReadObservations(w)
      <4>1. PICK seg \in req[w].todo :
               req' = [req EXCEPT ![w] =
                         [@ EXCEPT !.pc = "reports", !.seg = seg,
                                   !.seen = [i \in Items |-> IF i \in Observations \cap Used(seg)
                                                             THEN items[i].state ELSE "FREE"]]]
        BY <3>1 DEF ReadObservations
      <4>2. PICK seen : seen = [i \in Items |-> IF i \in Observations \cap Used(seg)
                                                THEN items[i].state ELSE "FREE"]
        OBVIOUS
      <4>3. q = [req[w] EXCEPT !.pc = "reports", !.seg = seg, !.seen = seen]
        BY <1>0, <1>1, <4>1, <4>2
      <4>4. q.plan = req[w].plan /\ q.seen = seen
        BY <1>0, <4>3 DEF Request
      <4> QED
        BY <3>1, <4>2, <4>4 DEF ReadObservations
    <3>2. CASE ReadReports(w)
      <4>1. PICK seen : seen = [i \in Items |-> IF i \in Reports \cap Used(req[w].seg)
                                                THEN items[i].state ELSE req[w].seen[i]]
        OBVIOUS
      <4>2. q = [req[w] EXCEPT !.pc = "compute", !.seen = seen]
        BY <1>0, <1>1, <3>2, <4>1 DEF ReadReports
      <4>3. q.plan = req[w].plan /\ q.seen = seen
        BY <1>0, <4>2 DEF Request
      <4> QED
        BY <3>2, <4>1, <4>3 DEF ReadReports
    <3> QED
      BY <1>4, <3>1, <3>2
  <2>2. \A i \in Items : items[i].state \in Final => q.seen[i] \in Final \cup {"FREE"}
    BY <1>0, <2>1 DEF Informed
  <2> QED
    BY <1>0, <1>1, <2>1, <2>2 DEF Informed
<1>5. CASE Compute(w)
  <2>1. PICK plan : plan = Plan(req[w].seen, now)
    OBVIOUS
  <2>2. \A i \in Items : /\ items[i].state \in Final => plan[i] = "FREE"
                         /\ plan[i] \notin Final
    BY <1>0, <2>1, PlanInformed
  <2>3. items' = items /\ (q = Done(req[w]) \/ (q.seen = Blank /\ q.plan = plan))
    BY <1>0, <1>1, <1>5, <2>1 DEF Compute, Request
  <2>4. Informed(q)
    BY <1>0, <2>2, <2>3, DoneInformed DEF Informed, Blank
  <2> QED
    BY <1>1, <2>3, <2>4 DEF Informed
<1>6. CASE Update(w)
  <2>1. PICK i \in Items :
           /\ req[w].plan[i] # "FREE"
           /\ items' = [items EXCEPT ![i].state = req[w].plan[i]]
           /\ \/ req' = [req EXCEPT ![w] = Done(@)]
              \/ req' = [req EXCEPT ![w] = [@ EXCEPT !.plan[i] = "FREE"]]
    BY <1>6 DEF Update
  <2>2. \A j \in Items : j # i => items'[j] = items[j]
    BY <1>0, <2>1 DEF Tables
  <2>3. items[i] \in Evidence
    BY <1>0, <2>1 DEF ReqReal, PlanReal, Tables, Row, FreeRow
  <2>4. items[i].state \notin Final /\ items'[i].state \notin Final
    BY <1>0, <2>1, <2>3 DEF Informed, Tables, Evidence
  <2>5. Informed([req[w] EXCEPT !.plan[i] = "FREE"])
    BY <1>0 DEF Informed, Request, Marks, Final
  <2>6. Informed(q)
    BY <1>0, <1>1, <2>1, <2>5, DoneInformed
  <2> QED
    BY <1>1, <2>2, <2>4, <2>6 DEF Informed
<1>7. CASE Audit(w)
  <2>1. q = Idle /\ items' = items
    BY <1>0, <1>1, <1>7 DEF Audit
  <2> QED
    BY <1>1, <2>1 DEF Informed, Idle, Blank, Final
<1> QED
  BY <1>2, <1>3, <1>4, <1>5, <1>6, <1>7 DEF Step, Arrive

\* A row that is not there has been neither read nor planned for.
LEMMA NewRowInformed ==
    ASSUME NEW r, SeenReal(r.seen), PlanReal(r.plan), Informed(r), NEW o \in Items,
           items[o].state = "FREE", \A i \in Items : i # o => items'[i] = items[i]
    PROVE  /\ \A i \in Items : items'[i].state \in Final => r.seen[i] \in Final \cup {"FREE"}
           /\ \A i \in Items : items'[i].state \in Final => r.plan[i] = "FREE"
           /\ \A i \in Items : r.plan[i] \notin Final
<1>1. r.seen[o] = "FREE" /\ r.plan[o] = "FREE"
  BY DEF SeenReal, PlanReal
<1> QED
  BY <1>1 DEF Informed

\* With one admin thread no step leaves the admin uninformed or overrules a decision.
LEMMA StickyStep ==
    ASSUME OneAdmin, SInv, [Next]_vars
    PROVE  /\ \A w \in Workers : Informed(req[w])'
           /\ \A i \in Items : items[i].state \in Final => items'[i].state \in Final
<1>0. /\ items \in Tables
      /\ \A w \in Workers : /\ Informed(req[w]) /\ SeenReal(req[w].seen)
                            /\ PlanReal(req[w].plan)
  BY DEF SInv, IInv, TypeOK, Tables, ReqReal
<1>1. CASE UNCHANGED vars \/ Tick
  <2>1. items' = items /\ req' = req
    BY <1>1 DEF vars, Tick
  <2> QED
    BY <1>0, <2>1 DEF Informed
<1>2. CASE (\E r \in Reports, seg \in Segments, type \in Types : Report(r, seg, type)) \/ Feed
  <2>1. PICK o \in Items : /\ items[o].state = "FREE" /\ req' = req
                           /\ \A i \in Items : i # o => items'[i] = items[i]
    <3>1. CASE Feed
      BY <1>0, <3>1 DEF Feed, Ingest, Tables, Items
    <3>2. CASE \E r \in Reports, seg \in Segments, type \in Types : Report(r, seg, type)
      BY <1>0, <3>2 DEF Report, Tables, Items
    <3> QED
      BY <1>2, <3>1, <3>2
  <2>2. ASSUME NEW w \in Workers PROVE Informed(req[w])'
    BY <1>0, <2>1, NewRowInformed DEF Informed
  <2>3. \A i \in Items : items[i].state \in Final => items'[i].state \in Final
    BY <2>1 DEF Final
  <2> QED
    BY <2>2, <2>3
<1>3. CASE \E w \in Workers : Step(w) \/ Arrive(w)
  BY <1>3, AdminStep DEF OneAdmin
<1>4. CASE Crash
  <2>1. items' = items /\ \A w \in Workers : req'[w] = Idle
    BY <1>4 DEF Crash
  <2> QED
    BY <2>1 DEF Informed, Idle, Blank, Final
<1> QED
  BY <1>1, <1>2, <1>3, <1>4 DEF Next

LEMMA InformedAlways == ASSUME OneAdmin PROVE Spec => []SInv
<1>1. Init => \A w \in Workers : Informed(req[w])
  BY IdleInformed DEF Init
<1>2. Init /\ [][Next]_vars => []IInv
  BY Inductive
<1>3. SInv /\ [Next]_vars => (\A w \in Workers : Informed(req[w]))'
  BY StickyStep
<1>4. SInv <=> (IInv /\ \A w \in Workers : Informed(req[w]))
  BY DEF SInv
<1> QED
  BY <1>1, <1>2, <1>3, <1>4, PTL DEF Spec

\* With one admin thread no recompute overrules a decision.  With more, one may:
\* a recompute that read the tables before the decision (run evidence_sticky).
THEOREM DecisionsAreSticky == ASSUME OneAdmin PROVE Spec => StickyStates
<1>1. SInv /\ [Next]_vars
        => [\A i \in Items : items[i].state \in Final => items'[i].state \in Final]_vars
  BY StickyStep
<1> QED
  BY <1>1, InformedAlways, PTL DEF Spec, StickyStates

-----------------------------------------------------------------------------
\* A decision still to be audited stands as well.
Decided ==
    /\ AuditedIsDecided
    /\ \A w \in Workers : req[w].report # NoOne => items[req[w].report].state \in Final

LEMMA DecidedStep ==
    ASSUME OneAdmin, SInv, Decided, [Next]_vars
    PROVE  Decided'
<1>0. /\ \A i \in Items : items[i].state \in Final => items'[i].state \in Final
      /\ Reports \subseteq Items
      /\ items \in [Items -> Row] /\ req \in [Workers -> Request]
      /\ audits \in [Reports -> SUBSET Final]
      /\ \A w \in Workers : req[w].report \in Reports \cup {NoOne}
  BY StickyStep DEF SInv, IInv, TypeOK, Items, Request
\* What a request is about is what it was about, nothing, or a decision just taken.
<1>1. \A w \in Workers :
         \/ req'[w].report \in {req[w].report, NoOne}
         \/ items'[req'[w].report].state \in Final
  <2> SUFFICES ASSUME NEW w \in Workers
               PROVE  \/ req'[w].report \in {req[w].report, NoOne}
                      \/ items'[req'[w].report].state \in Final
    OBVIOUS
  <2>1. CASE req' = req
    BY <2>1
  <2>2. CASE Crash
    BY <2>2 DEF Crash, Idle
  <2>3. ASSUME NEW v \in Workers, Step(v) \/ Arrive(v)
        PROVE  \/ req'[w].report \in {req[w].report, NoOne}
               \/ items'[req'[w].report].state \in Final
    <3>1. v = w
      BY DEF OneAdmin
    <3>2. Done(req[w]).report = req[w].report
      BY <1>0 DEF Done, Idle, Request
    <3>3. CASE Step(w)
      <4>0. req[w] \in Request
        BY <1>0
      <4>1. CASE ReadObservations(w)
        BY <1>0, <4>0, <4>1 DEF ReadObservations, Request
      <4>2. CASE ReadReports(w)
        BY <1>0, <4>0, <4>2 DEF ReadReports, Request
      <4>3. CASE Compute(w)
        BY <1>0, <3>2, <4>0, <4>3 DEF Compute, Request
      <4>4. CASE Update(w)
        <5>1. PICK i \in Items : \/ req' = [req EXCEPT ![w] = Done(@)]
                               \/ req' = [req EXCEPT ![w] = [@ EXCEPT !.plan[i] = "FREE"]]
          BY <4>4 DEF Update
        <5> QED
          BY <1>0, <3>2, <4>0, <5>1 DEF Request
      <4>5. CASE Audit(w)
        BY <1>0, <4>5 DEF Audit, Idle
      <4> QED
        BY <3>3, <4>1, <4>2, <4>3, <4>4, <4>5 DEF Step
    <3>4. CASE \E segs : Recompute(w, segs)
      BY <1>0, <3>4 DEF Recompute, Idle
    <3>5. CASE \E r \in Reports, verdict \in Final : Decide(w, r, verdict)
      BY <1>0, <3>5 DEF Decide, Idle
    <3> QED
      BY <2>3, <3>1, <3>3, <3>4, <3>5 DEF Arrive
  <2> QED
    BY <2>1, <2>2, <2>3 DEF Next, vars, Tick, Report, Feed, Ingest
<1>2. \A w \in Workers : req'[w].report # NoOne => items'[req'[w].report].state \in Final
  BY <1>0, <1>1 DEF Decided
\* An audit is written of what its request is about.
<1>3. \A r \in Reports : audits'[r] # {} =>
          audits[r] # {} \/ \E w \in Workers : req[w].report = r /\ r # NoOne
  <2>1. CASE audits' = audits
    BY <2>1
  <2>2. ASSUME NEW w \in Workers, Audit(w)
        PROVE  \A r \in Reports : audits'[r] # {} => audits[r] # {} \/ (req[w].report = r /\ r # NoOne)
    <3>1. CASE req[w].report = NoOne
      BY <2>2, <3>1 DEF Audit
    <3>2. CASE req[w].report # NoOne
      <4>1. audits' = [audits EXCEPT ![req[w].report] = @ \cup {req[w].verdict}]
        BY <2>2, <3>2 DEF Audit
      <4> QED
        BY <1>0, <3>2, <4>1
    <3> QED
      BY <3>1, <3>2
  <2>3. audits' = audits \/ \E w \in Workers : Audit(w)
    <3>1. ASSUME NEW w \in Workers, Step(w) PROVE audits' = audits \/ Audit(w)
      BY <3>1 DEF Step, ReadObservations, ReadReports, Compute, Update
    <3>2. ASSUME NEW w \in Workers, Arrive(w) PROVE audits' = audits
      BY <3>2 DEF Arrive, Recompute, Decide
    <3> QED
      BY <3>1, <3>2 DEF Next, vars, Tick, Report, Feed, Ingest, Crash
  <2> QED
    BY <2>1, <2>2, <2>3
<1>4. AuditedIsDecided'
  BY <1>0, <1>3 DEF Decided, AuditedIsDecided
<1> QED
  BY <1>2, <1>4 DEF Decided

\* With one admin thread a report whose decision is in the audit log stands decided,
\* whatever was recomputed, fed or lost in a crash since (api/reports.py).
THEOREM AuditsAreTrue == ASSUME OneAdmin PROVE Spec => []AuditedIsDecided
<1>1. Init => Decided
  BY DEF Init, Decided, AuditedIsDecided, Idle
<1>2. SInv /\ Decided /\ [Next]_vars => Decided'
  BY DecidedStep
<1>3. Decided => AuditedIsDecided
  BY DEF Decided
<1> QED
  BY <1>1, <1>2, <1>3, InformedAlways, PTL DEF Spec

-----------------------------------------------------------------------------
(* One admin request at a time: what has expired is not revived.           *)

\* The engine has expired row i.
Spent(i) == items[i].state = "EXPIRED" /\ items[i].claim # "EXPIRED"

\* What a recompute has read, and what it plans, know of every expiry; while it
\* writes, what it has read is forgotten.
Current(r) ==
    /\ \A i \in Items : Spent(i) => r.seen[i] \in {"FREE", "EXPIRED"}
    /\ \A i \in Items : Spent(i) => r.plan[i] \in {"FREE", "EXPIRED"}
    /\ r.pc = "update" => r.seen = Blank

CInv == \A w \in Workers : Current(req[w])

Lasting == \A i \in Items : Spent(i) => items'[i].state \in Final \cup {"EXPIRED"}

LEMMA DoneBlank ==
    ASSUME NEW r, r \in Request
    PROVE  Done(r).seen = Blank /\ Done(r).plan = Blank /\ Done(r).pc # "update"
<1> DEFINE more == [r EXCEPT !.pc = "observations", !.todo = r.todo \ {r.seg}, !.seg = NoOne,
                             !.seen = Blank, !.plan = Blank]
           audit == [Idle EXCEPT !.pc = "audit", !.report = r.report, !.verdict = r.verdict]
<1>1. /\ more.seen = Blank /\ more.plan = Blank /\ audit.seen = Blank /\ audit.plan = Blank
      /\ more.pc = "observations" /\ audit.pc = "audit"
  BY DEF Request, Idle
<1>2. Done(r) \in {more, audit}
  BY DEF Done
<1> HIDE DEF more, audit
<1> QED
  BY <1>1, <1>2

\* Nothing else is planned for what has expired: its lifetime is over for good.
LEMMA PlanCurrent ==
    ASSUME IInv, NEW r, ReqReal(r), Current(r), NEW i \in Items, Spent(i)
    PROVE  Plan(r.seen, now)[i] \in {"FREE", "EXPIRED"}
<1> DEFINE R == AsRead(r.seen)
<1>1. items \in Tables /\ r.seen \in Marks /\ SeenReal(r.seen)
  BY DEF IInv, TypeOK, Tables, ReqReal, Request
<1>2. /\ R \in Tables /\ R[i].state = r.seen[i]
      /\ r.seen[i] # "FREE" => Data(R[i], items[i])
  BY <1>1, ReadTable, ReadRows
<1> HIDE DEF R
<1>3. Plan(r.seen, now)[i] = IF StateOf(R, i, now) = r.seen[i] THEN "FREE" ELSE StateOf(R, i, now)
  BY DEF Plan, R
<1>4. r.seen[i] \in {"FREE", "EXPIRED"}
  BY DEF Current
<1>5. CASE r.seen[i] = "FREE"
  BY <1>2, <1>3, <1>5, StateOfRange
<1>6. CASE r.seen[i] = "EXPIRED"
  <2>1. now > Expiry(items[i])
    BY DEF IInv, StatesAreWitnessed, Spent, Witnessed, Final
  <2>2. Past(R[i], now)
    BY <1>2, <1>6, <2>1 DEF Data, Past, Expiry
  <2> QED
    BY <1>2, <1>3, <1>6, <2>2 DEF StateOf, Final
<1> QED
  BY <1>4, <1>5, <1>6

\* A request that has read nothing and plans nothing is current.
LEMMA BlankCurrent ==
    ASSUME NEW r, r.seen = Blank, r.plan = Blank
    PROVE  Current(r)'
  BY DEF Current, Blank

\* With one admin thread the request at work is the only one.
LEMMA CurrentStep ==
    ASSUME OneAdmin, IInv, CInv, NEW w \in Workers, Step(w) \/ Arrive(w)
    PROVE  Current(req[w])' /\ Lasting
<1>0. /\ items \in Tables /\ req \in [Workers -> Request] /\ req[w] \in Request
      /\ ReqReal(req[w]) /\ Current(req[w])
      /\ \A i \in Items : items[i] \in Row
  BY DEF IInv, CInv, TypeOK, Tables
<1>1. PICK q : q = req'[w]
  OBVIOUS
<1>q. SUFFICES Current(q)' /\ Lasting
  BY <1>1 DEF Current, Spent
<1>2. CASE \E segs : Recompute(w, segs)
  <2>1. q.seen = Blank /\ q.plan = Blank /\ items' = items
    BY <1>0, <1>1, <1>2 DEF Recompute, Idle
  <2> QED
    BY <2>1, BlankCurrent DEF Lasting, Spent
<1>3. CASE \E r \in Reports, verdict \in Final : Decide(w, r, verdict)
  <2>1. PICK r \in Reports, verdict \in Final : Decide(w, r, verdict)
    BY <1>3
  <2>2. q.seen = Blank /\ q.plan = Blank
    BY <1>0, <1>1, <2>1 DEF Decide, Idle
  <2>3. \A i \in Items : items'[i].state \in {items[i].state, verdict}
    <3>1. items[r] \in Evidence /\ r \in Items
      BY <1>0, <2>1 DEF Decide, Tables, Row, FreeRow, Items
    <3> QED
      BY <1>0, <2>1, <3>1 DEF Decide, Tables, Evidence
  <2> QED
    BY <2>1, <2>2, <2>3, BlankCurrent DEF Lasting, Spent
<1>4. CASE ReadObservations(w) \/ ReadReports(w)
  <2>1. PICK seen : /\ items' = items /\ q.plan = req[w].plan /\ q.seen = seen
                    /\ q.pc # "update"
                    /\ \A i \in Items : seen[i] \in {items[i].state, req[w].seen[i], "FREE"}
    <3>1. CASE ReadObservations(w)
      <4>1. PICK seg \in req[w].todo :
               req' = [req EXCEPT ![w] =
                         [@ EXCEPT !.pc = "reports", !.seg = seg,
                                   !.seen = [i \in Items |-> IF i \in Observations \cap Used(seg)
                                                             THEN items[i].state ELSE "FREE"]]]
        BY <3>1 DEF ReadObservations
      <4>2. PICK seen : seen = [i \in Items |-> IF i \in Observations \cap Used(seg)
                                                THEN items[i].state ELSE "FREE"]
        OBVIOUS
      <4>3. q = [req[w] EXCEPT !.pc = "reports", !.seg = seg, !.seen = seen]
        BY <1>0, <1>1, <4>1, <4>2
      <4>4. q.plan = req[w].plan /\ q.seen = seen /\ q.pc = "reports"
        BY <1>0, <4>3 DEF Request
      <4> QED
        BY <3>1, <4>2, <4>4 DEF ReadObservations
    <3>2. CASE ReadReports(w)
      <4>1. PICK seen : seen = [i \in Items |-> IF i \in Reports \cap Used(req[w].seg)
                                                THEN items[i].state ELSE req[w].seen[i]]
        OBVIOUS
      <4>2. q = [req[w] EXCEPT !.pc = "compute", !.seen = seen]
        BY <1>0, <1>1, <3>2, <4>1 DEF ReadReports
      <4>3. q.plan = req[w].plan /\ q.seen = seen /\ q.pc = "compute"
        BY <1>0, <4>2 DEF Request
      <4> QED
        BY <3>2, <4>1, <4>3 DEF ReadReports
    <3> QED
      BY <1>4, <3>1, <3>2
  <2>2. \A i \in Items : Spent(i) => /\ q.seen[i] \in {"FREE", "EXPIRED"}
                                    /\ q.plan[i] \in {"FREE", "EXPIRED"}
    BY <1>0, <2>1 DEF Current, Spent
  <2> QED
    BY <2>1, <2>2 DEF Current, Lasting, Spent
<1>5. CASE Compute(w)
  <2>1. PICK plan : plan = Plan(req[w].seen, now)
    OBVIOUS
  <2>2. \A i \in Items : Spent(i) => plan[i] \in {"FREE", "EXPIRED"}
    BY <1>0, <2>1, PlanCurrent
  <2>3. items' = items /\ (q = Done(req[w]) \/ (q.seen = Blank /\ q.plan = plan))
    BY <1>0, <1>1, <1>5, <2>1 DEF Compute, Request
  <2>4. CASE q = Done(req[w])
    BY <1>0, <2>3, <2>4, DoneBlank, BlankCurrent DEF Lasting, Spent
  <2>5. CASE q.seen = Blank /\ q.plan = plan
    BY <2>2, <2>3, <2>5 DEF Current, Lasting, Spent, Blank
  <2> QED
    BY <2>3, <2>4, <2>5
<1>6. CASE Update(w)
  <2>0. req[w].pc = "update" /\ req[w].seen = Blank
    BY <1>0, <1>6 DEF Update, Current
  <2>1. PICK i \in Items :
           /\ req[w].plan[i] # "FREE"
           /\ items' = [items EXCEPT ![i].state = req[w].plan[i]]
           /\ \/ req' = [req EXCEPT ![w] = Done(@)]
              \/ req' = [req EXCEPT ![w] = [@ EXCEPT !.plan[i] = "FREE"]]
    BY <1>6 DEF Update
  <2>2. \A j \in Items : j # i => items'[j] = items[j]
    BY <1>0, <2>1 DEF Tables
  <2>3. items[i] \in Evidence
    BY <1>0, <2>1 DEF ReqReal, PlanReal, Row, FreeRow
  <2>4. items'[i].state = req[w].plan[i]
    BY <1>0, <2>1, <2>3 DEF Tables, Evidence
  <2>5. Lasting
    BY <1>0, <2>1, <2>2, <2>4 DEF Lasting, Current, Spent
  <2>6. CASE q = Done(req[w])
    BY <1>0, <2>5, <2>6, DoneBlank, BlankCurrent
  <2>7. CASE q = [req[w] EXCEPT !.plan[i] = "FREE"]
    <3>1. /\ q.seen = Blank /\ q.plan[i] = "FREE"
          /\ \A j \in Items : j # i => q.plan[j] = req[w].plan[j]
      BY <1>0, <2>0, <2>7 DEF Request, Marks
    <3>2. \A j \in Items : Spent(j)' => q.plan[j] \in {"FREE", "EXPIRED"}
      BY <1>0, <2>2, <3>1 DEF Current, Spent
    <3> QED
      BY <2>5, <3>1, <3>2 DEF Current, Blank
  <2> QED
    BY <1>0, <1>1, <2>1, <2>6, <2>7
<1>7. CASE Audit(w)
  <2>1. q = Idle /\ items' = items
    BY <1>0, <1>1, <1>7 DEF Audit
  <2> QED
    BY <2>1, BlankCurrent DEF Idle, Lasting, Spent
<1> QED
  BY <1>2, <1>3, <1>4, <1>5, <1>6, <1>7 DEF Step, Arrive

\* With one admin thread no step leaves the admin out of date or revives a row.
LEMMA LastingStep ==
    ASSUME OneAdmin, IInv, CInv, [Next]_vars
    PROVE  CInv' /\ Lasting
<1>0. items \in Tables
  BY DEF IInv, TypeOK, Tables
<1>1. CASE UNCHANGED vars \/ Tick
  <2>1. items' = items /\ req' = req
    BY <1>1 DEF vars, Tick
  <2> QED
    BY <2>1 DEF CInv, Current, Lasting, Spent
<1>2. CASE (\E r \in Reports, seg \in Segments, type \in Types : Report(r, seg, type)) \/ Feed
  <2>1. PICK o \in Items : /\ items[o].state = "FREE" /\ req' = req
                           /\ items'[o].state = items'[o].claim
                           /\ \A i \in Items : i # o => items'[i] = items[i]
    <3>1. CASE Feed
      BY <1>0, <3>1 DEF Feed, Ingest, Tables, Items
    <3>2. CASE \E r \in Reports, seg \in Segments, type \in Types : Report(r, seg, type)
      BY <1>0, <3>2 DEF Report, Tables, Items
    <3> QED
      BY <1>2, <3>1, <3>2
  <2>2. \A i \in Items : Spent(i)' => Spent(i)
    BY <2>1 DEF Spent
  <2> QED
    BY <2>1, <2>2 DEF CInv, Current, Lasting, Spent
<1>3. CASE \E w \in Workers : Step(w) \/ Arrive(w)
  BY <1>3, CurrentStep DEF OneAdmin, CInv
<1>4. CASE Crash
  <2>1. items' = items /\ \A w \in Workers : req'[w] = Idle
    BY <1>4 DEF Crash
  <2> QED
    BY <2>1 DEF CInv, Current, Lasting, Spent, Idle, Blank
<1> QED
  BY <1>1, <1>2, <1>3, <1>4 DEF Next

\* With one admin thread, evidence the engine has expired stays expired whatever is
\* recomputed, reported or fed since: only an admin's decision changes it
\* (evidence/engine.py).
THEOREM ExpiryIsFinal == ASSUME OneAdmin PROVE Spec => NoRevival
<1>1. Init => CInv
  BY DEF Init, CInv, Current, Idle, Blank
<1>2. IInv /\ CInv /\ [Next]_vars => CInv'
  BY LastingStep
<1>3. IInv /\ CInv /\ [Next]_vars
        => [\A i \in Items : (items[i].state = "EXPIRED" /\ items[i].claim # "EXPIRED")
                               => items'[i].state \in Final \cup {"EXPIRED"}]_vars
  BY LastingStep DEF Lasting, Spent
<1> QED
  BY <1>1, <1>2, <1>3, Inductive, PTL DEF Spec, NoRevival
=============================================================================
