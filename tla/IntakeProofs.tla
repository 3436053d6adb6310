---------------------------- MODULE IntakeProofs ----------------------------
(***************************************************************************)
(* For any number of clients, reports, evictions and ticks, whatever the   *)
(* limits, the backends and the order in which the steps of the handlers   *)
(* come: RepeatsOverlap, from what the detector keeps of every mark, and   *)
(* LimitHolds, from what either limiter keeps of what it let through.      *)
(***************************************************************************)
EXTENDS ReportIntake, SequenceTheorems, FiniteSetTheorems, TLAPS

KeptSteps == {"admitted", "inserted", "stored", "refused", "unmarked"}
Steps == {"checked", "entered", "counting", "limited"} \cup KeptSteps

Request == [sent : Submission, own : BOOLEAN, limiter : Nat, step : Steps, checked : Nat,
            at : Int, marked : Int, passed : Nat, alone : BOOLEAN]

IntakeTypes ==
    /\ intakeNow \in 0..IntakeClock
    /\ requests \in Seq(Request)
    /\ seen \in [Keys -> Int]

-----------------------------------------------------------------------------
(* What a step does to the requests.                                       *)

\* One report, one key; and the same report has the same key in either form.
LEMMA KeysAreAlike ==
    ASSUME NEW s \in Submission
    PROVE  /\ s.client \in Reporters /\ KeyOf(s) \in Keys
           /\ \A t \in Submission : SameReport(s, t) => KeyOf(s) = KeyOf(t)
<1>1. \A t \in Submission :
          /\ t.client \in Reporters /\ t.form \in {"full", "quick"}
          /\ t.text \in {"plain", "personal"}
  BY IntakeAssumption
<1>2. KeyOf(s) \in Keys
  BY <1>1 DEF KeyOf, Keys, Redacted
<1>3. ASSUME NEW t \in Submission, SameReport(s, t) PROVE KeyOf(s) = KeyOf(t)
  BY <1>1, <1>3 DEF SameReport, KeyOf, Redacted
<1> QED BY <1>1, <1>2, <1>3

LEMMA RequestsAre ==
    ASSUME NEW r
    PROVE  r \in Request <=>
               /\ r = [sent |-> r.sent, own |-> r.own, limiter |-> r.limiter, step |-> r.step,
                       checked |-> r.checked, at |-> r.at, marked |-> r.marked,
                       passed |-> r.passed, alone |-> r.alone]
               /\ r.sent \in Submission /\ r.own \in BOOLEAN /\ r.limiter \in Nat
               /\ r.step \in Steps /\ r.checked \in Nat /\ r.at \in Int /\ r.marked \in Int
               /\ r.passed \in Nat /\ r.alone \in BOOLEAN
BY DEF Request

\* A request as it passes the detector, behind the others.
LEMMA CheckedRow ==
    ASSUME IntakeTypes, NEW own \in BOOLEAN, NEW l \in Nat, NEW s \in Submission,
           requests' = Append(requests, Checked(s, own, l))
    PROVE  /\ requests' \in Seq(Request) /\ Len(requests) \in Nat
           /\ DOMAIN requests = 1..Len(requests) /\ DOMAIN requests' = 1..(Len(requests) + 1)
           /\ \A i \in DOMAIN requests : requests'[i] = requests[i]
           /\ requests'[Len(requests) + 1] = Checked(s, own, l)
<1>1. PICK r : r = Checked(s, own, l)
  OBVIOUS
<1>2. r \in Request
  BY <1>1 DEF Checked, Request, Steps, Never, IntakeTypes
<1>3. requests \in Seq(Request) /\ requests' = Append(requests, r)
  BY <1>1 DEF IntakeTypes
<1> QED BY <1>1, <1>2, <1>3, AppendProperties

\* One request replaced.
LEMMA ReplacedRow ==
    ASSUME IntakeTypes, NEW i \in DOMAIN requests, NEW r \in Request,
           requests' = [requests EXCEPT ![i] = r]
    PROVE  /\ requests' \in Seq(Request) /\ DOMAIN requests' = DOMAIN requests
           /\ requests'[i] = r
           /\ \A j \in DOMAIN requests : j # i => requests'[j] = requests[j]
BY ExceptSeq DEF IntakeTypes

LEMMA MovedRow ==
    ASSUME IntakeTypes, NEW i \in DOMAIN requests, NEW step \in Steps, Moved(i, step)
    PROVE  /\ requests' \in Seq(Request) /\ DOMAIN requests' = DOMAIN requests
           /\ \A j \in DOMAIN requests : j # i => requests'[j] = requests[j]
           /\ \E r \in Request :
                /\ requests'[i] = r /\ r.step = step
                /\ r.sent = requests[i].sent /\ r.own = requests[i].own
                /\ r.limiter = requests[i].limiter /\ r.checked = requests[i].checked
                /\ r.at = requests[i].at /\ r.marked = requests[i].marked
                /\ r.passed = requests[i].passed /\ r.alone = requests[i].alone
<1>1. PICK q : q = requests[i]
  OBVIOUS
<1>2. requests \in Seq(Request) /\ q \in Request
  BY <1>1 DEF IntakeTypes
<1>3. PICK r : r = [q EXCEPT !.step = step]
  OBVIOUS
<1>4. /\ r.step = step /\ r.sent = q.sent /\ r.own = q.own /\ r.limiter = q.limiter
      /\ r.checked = q.checked /\ r.at = q.at /\ r.marked = q.marked
      /\ r.passed = q.passed /\ r.alone = q.alone
  BY <1>2, <1>3 DEF Request
<1>5. r = [sent |-> q.sent, own |-> q.own, limiter |-> q.limiter, step |-> step,
           checked |-> q.checked, at |-> q.at, marked |-> q.marked,
           passed |-> q.passed, alone |-> q.alone]
  BY <1>2, <1>3 DEF Request
<1>6. r \in Request
  BY <1>2, <1>5, RequestsAre DEF Request
<1>7. requests' = [requests EXCEPT ![i] = r]
  BY <1>1, <1>2, <1>3 DEF Moved
<1> QED BY <1>1, <1>4, <1>6, <1>7, ReplacedRow

LEMMA MarkedRow ==
    ASSUME IntakeTypes, NEW i \in DOMAIN requests, Mark(i)
    PROVE  /\ requests' \in Seq(Request) /\ DOMAIN requests' = DOMAIN requests
           /\ \A j \in DOMAIN requests : j # i => requests'[j] = requests[j]
           /\ \E r \in Request :
                /\ requests'[i] = r /\ r.step = "stored" /\ r.marked = intakeNow
                /\ r.passed = Len(requests)
                /\ r.sent = requests[i].sent /\ r.own = requests[i].own
                /\ r.limiter = requests[i].limiter /\ r.checked = requests[i].checked
                /\ r.at = requests[i].at /\ r.alone = requests[i].alone
<1>1. PICK q : q = requests[i]
  OBVIOUS
<1>2. PICK n : n = Len(requests)
  OBVIOUS
<1>3. requests \in Seq(Request) /\ q \in Request /\ n \in Nat /\ intakeNow \in Int
  BY <1>1, <1>2 DEF IntakeTypes
<1>4. PICK r : r = [q EXCEPT !.step = "stored", !.marked = intakeNow, !.passed = n]
  OBVIOUS
<1>5. /\ r.step = "stored" /\ r.sent = q.sent /\ r.own = q.own /\ r.limiter = q.limiter
      /\ r.checked = q.checked /\ r.at = q.at /\ r.marked = intakeNow
      /\ r.passed = n /\ r.alone = q.alone
  BY <1>3, <1>4 DEF Request
<1>6. r = [sent |-> q.sent, own |-> q.own, limiter |-> q.limiter, step |-> "stored",
           checked |-> q.checked, at |-> q.at, marked |-> intakeNow,
           passed |-> n, alone |-> q.alone]
  BY <1>3, <1>4 DEF Request
<1>7. r \in Request
  BY <1>3, <1>6, RequestsAre DEF Request, Steps, KeptSteps
<1>8. requests' = [requests EXCEPT ![i].step = "stored", ![i].marked = intakeNow,
                                   ![i].passed = n]
  BY <1>2 DEF Mark, Marking
<1>9. requests' = [requests EXCEPT ![i] = r]
  BY <1>1, <1>3, <1>4, <1>8
<1> QED BY <1>1, <1>2, <1>5, <1>7, <1>9, ReplacedRow

LEMMA EnteredRows ==
    ASSUME IntakeTypes, NEW i \in DOMAIN requests, Enter(i)
    PROVE  /\ requests' \in Seq(Request) /\ DOMAIN requests' = DOMAIN requests
           /\ requests'[i].step = "entered" /\ requests'[i].at = intakeNow
           /\ requests'[i].alone = \A k \in DOMAIN requests : ~Rivals(i, k)
           /\ \A j \in DOMAIN requests :
                /\ requests'[j].sent = requests[j].sent
                /\ requests'[j].own = requests[j].own
                /\ requests'[j].limiter = requests[j].limiter
                /\ requests'[j].checked = requests[j].checked
                /\ requests'[j].marked = requests[j].marked
                /\ requests'[j].passed = requests[j].passed
                /\ j # i => /\ requests'[j].step = requests[j].step
                            /\ requests'[j].at = requests[j].at
                            /\ requests'[j].alone = (requests[j].alone /\ ~Rivals(i, j))
<1>1. /\ requests \in Seq(Request) /\ DOMAIN requests = 1..Len(requests) /\ Len(requests) \in Nat
      /\ intakeNow \in Int
  BY DEF IntakeTypes
<1>2. PICK first : first = \A k \in DOMAIN requests : ~Rivals(i, k)
  OBVIOUS
<1>3. first \in BOOLEAN
  BY <1>2
<1>4. ~Rivals(i, i)
  BY DEF Rivals
<1>5. /\ DOMAIN requests' = DOMAIN requests
      /\ requests' = [j \in DOMAIN requests |-> requests'[j]]
      /\ requests'[i] = [requests[i] EXCEPT !.step = "entered", !.at = intakeNow, !.alone = first]
      /\ \A j \in DOMAIN requests : j # i =>
            requests'[j] = IF Rivals(i, j) THEN [requests[j] EXCEPT !.alone = FALSE] ELSE requests[j]
  BY <1>2 DEF Enter
<1>6. ASSUME NEW j \in DOMAIN requests, j # i
      PROVE  /\ requests'[j] \in Request
             /\ requests'[j].sent = requests[j].sent /\ requests'[j].own = requests[j].own
             /\ requests'[j].limiter = requests[j].limiter
             /\ requests'[j].checked = requests[j].checked
             /\ requests'[j].marked = requests[j].marked
             /\ requests'[j].passed = requests[j].passed
             /\ requests'[j].step = requests[j].step /\ requests'[j].at = requests[j].at
             /\ requests'[j].alone = (requests[j].alone /\ ~Rivals(i, j))
  <2>1. PICK q : q = requests[j]
    OBVIOUS
  <2>2. q \in Request
    BY <1>1, <2>1
  <2>3. CASE ~Rivals(i, j)
    <3>1. requests'[j] = q
      BY <1>5, <1>6, <2>1, <2>3
    <3>2. q.alone \in BOOLEAN
      BY <2>2 DEF Request
    <3>3. q.alone = (q.alone /\ ~Rivals(i, j))
      BY <2>3, <3>2, Zenon
    <3> QED BY <2>1, <2>2, <3>1, <3>3
  <2>4. CASE Rivals(i, j)
    <3>1. PICK r : r = [q EXCEPT !.alone = FALSE]
      OBVIOUS
    <3>2. /\ r.step = q.step /\ r.sent = q.sent /\ r.own = q.own /\ r.limiter = q.limiter
          /\ r.checked = q.checked /\ r.at = q.at /\ r.marked = q.marked
          /\ r.passed = q.passed /\ r.alone = FALSE
      BY <2>2, <3>1 DEF Request
    <3>3. r = [sent |-> q.sent, own |-> q.own, limiter |-> q.limiter, step |-> q.step,
               checked |-> q.checked, at |-> q.at, marked |-> q.marked,
               passed |-> q.passed, alone |-> FALSE]
      BY <2>2, <3>1 DEF Request
    <3>4. r \in Request
      BY <2>2, <3>3, RequestsAre DEF Request
    <3>5. requests'[j] = r
      BY <1>5, <1>6, <2>1, <2>4, <3>1
    <3>6. r.alone = (q.alone /\ ~Rivals(i, j))
      BY <2>4, <3>2
    <3> QED BY <2>1, <3>2, <3>4, <3>5, <3>6
  <2> QED BY <2>3, <2>4
<1>7. /\ requests'[i] \in Request
      /\ requests'[i].sent = requests[i].sent /\ requests'[i].own = requests[i].own
      /\ requests'[i].limiter = requests[i].limiter
      /\ requests'[i].checked = requests[i].checked
      /\ requests'[i].marked = requests[i].marked /\ requests'[i].passed = requests[i].passed
      /\ requests'[i].step = "entered" /\ requests'[i].at = intakeNow
      /\ requests'[i].alone = first
  <2>1. PICK q : q = requests[i]
    OBVIOUS
  <2>2. q \in Request
    BY <1>1, <2>1
  <2>3. PICK r : r = [q EXCEPT !.step = "entered", !.at = intakeNow, !.alone = first]
    OBVIOUS
  <2>4. /\ r.step = "entered" /\ r.sent = q.sent /\ r.own = q.own /\ r.limiter = q.limiter
        /\ r.checked = q.checked /\ r.at = intakeNow /\ r.marked = q.marked
        /\ r.passed = q.passed /\ r.alone = first
    BY <2>2, <2>3 DEF Request
  <2>5. r = [sent |-> q.sent, own |-> q.own, limiter |-> q.limiter, step |-> "entered",
             checked |-> q.checked, at |-> intakeNow, marked |-> q.marked,
             passed |-> q.passed, alone |-> first]
    BY <2>2, <2>3 DEF Request
  <2>6. r \in Request
    BY <1>1, <1>3, <2>2, <2>5, RequestsAre DEF Request, Steps
  <2> QED BY <1>5, <2>1, <2>3, <2>4, <2>6
<1>8. requests' \in Seq(Request)
  <2>1. \A j \in 1..Len(requests) : requests'[j] \in Request
    BY <1>1, <1>6, <1>7
  <2>2. requests' \in [1..Len(requests) -> Request]
    BY <1>1, <1>5, <2>1
  <2> QED BY <1>1, <2>2
<1> QED BY <1>2, <1>5, <1>6, <1>7, <1>8

-----------------------------------------------------------------------------
(* Repeats.                                                                *)

\* The detector remembers a mark until a later one: a stored report's key was last
\* marked at that report's mark or after.
MarkIsKept(r) ==
    (r.step = "stored" /\ ~r.own) => r.marked \in 0..intakeNow /\ seen[KeyOf(r.sent)] >= r.marked

\* What a later request, at position j, found of an earlier one.
Ordered(i, j) ==
    (/\ requests[i].step = "stored" /\ requests[i].passed < j
     /\ ~requests[i].own /\ ~requests[j].own
     /\ SameReport(requests[i].sent, requests[j].sent))
        => requests[j].checked - requests[i].marked >= DupWindow

\* The inductive invariant.  RepeatsOverlap alone is not inductive: that the detector
\* still knows of a mark is what refuses the next copy.
IntakeInv ==
    /\ IntakeTypes
    /\ \A i \in DOMAIN requests : MarkIsKept(requests[i])
    /\ \A i, j \in DOMAIN requests : i < j => Ordered(i, j)

LEMMA CheckInv ==
    ASSUME IntakeInv, NEW s \in Submission, Check(s), limiters \in Seq(Backends)
    PROVE  IntakeInv'
<1>1. PICK own \in {FALSE, MayOwn}, l \in DOMAIN limiters :
          /\ own \/ ~IsDuplicate(KeyOf(s))
          /\ requests' = Append(requests, Checked(s, own, l))
  BY DEF Check
<1>2. own \in BOOLEAN /\ l \in Nat /\ IntakeTypes /\ seen' = seen /\ intakeNow' = intakeNow
  <2>1. own \in BOOLEAN
    BY IntakeAssumption
  <2>2. l \in Nat
    OBVIOUS
  <2>3. IntakeTypes /\ seen' = seen /\ intakeNow' = intakeNow
    BY DEF IntakeInv, Check
  <2> QED BY <2>1, <2>2, <2>3
<1>3. PICK n : n = Len(requests)
  OBVIOUS
<1>4. /\ requests' \in Seq(Request) /\ n \in Nat
      /\ DOMAIN requests = 1..n /\ DOMAIN requests' = 1..(n + 1)
      /\ \A i \in 1..n : requests'[i] = requests[i] /\ requests[i] \in Request
      /\ requests'[n + 1] = Checked(s, own, l)
  <2>1. requests \in Seq(Request)
    BY <1>2 DEF IntakeTypes
  <2> QED BY <1>1, <1>2, <1>3, <2>1, CheckedRow
<1>5. PICK r : r = Checked(s, own, l)
  OBVIOUS
<1>6. r.sent = s /\ r.own = own /\ r.step = "checked" /\ r.checked = intakeNow
  BY <1>5 DEF Checked
<1>7. IntakeTypes'
  BY <1>2, <1>4 DEF IntakeTypes
<1>8. ASSUME NEW i \in DOMAIN requests' PROVE MarkIsKept(requests[i])'
  <2>1. CASE i \in 1..n
    BY <1>2, <1>4, <2>1 DEF IntakeInv, MarkIsKept
  <2>2. CASE i = n + 1
    BY <1>4, <1>5, <1>6, <2>2 DEF MarkIsKept
  <2> QED BY <1>4, <2>1, <2>2
<1>9. ASSUME NEW i \in DOMAIN requests', NEW j \in DOMAIN requests', i < j
      PROVE  Ordered(i, j)'
  <2>1. i \in 1..n /\ requests'[i] = requests[i] /\ requests[i] \in Request
    BY <1>4, <1>9
  <2>2. CASE j \in 1..n
    <3>1. Ordered(i, j) /\ requests'[j] = requests[j]
      BY <1>4, <1>9, <2>1, <2>2 DEF IntakeInv
    <3> QED BY <2>1, <3>1 DEF Ordered
  <2>3. CASE j = n + 1
    <3>1. requests'[j] = r
      BY <1>4, <1>5, <2>3
    <3>2. SUFFICES ASSUME requests[i].step = "stored", ~requests[i].own, ~own,
                          SameReport(requests[i].sent, s)
                   PROVE  intakeNow - requests[i].marked >= DupWindow
      BY <1>6, <2>1, <3>1 DEF Ordered
    <3>3. PICK key, m : key = KeyOf(s) /\ m = requests[i].marked
      OBVIOUS
    <3>4. KeyOf(requests[i].sent) = key /\ key \in Keys
      BY <2>1, <3>2, <3>3, KeysAreAlike DEF Request
    <3>5. m >= 0 /\ seen[key] >= m
      BY <1>4, <2>1, <3>2, <3>3, <3>4 DEF IntakeInv, MarkIsKept
    <3>6. seen[key] \in Int /\ intakeNow \in Int /\ m \in Int
      BY <1>2, <2>1, <3>3, <3>4 DEF IntakeTypes, Request
    <3>7. ~IsDuplicate(key)
      BY <1>1, <3>2, <3>3
    <3>8. intakeNow - seen[key] >= DupWindow
      BY <3>5, <3>6, <3>7, WindowsAssumption DEF IsDuplicate, Never
    <3> QED BY <3>3, <3>5, <3>6, <3>8, WindowsAssumption
  <2> QED BY <1>4, <1>9, <2>2, <2>3
<1> QED BY <1>7, <1>8, <1>9 DEF IntakeInv

\* Requests that went on, and were not marked.
LEMMA UnmarkedInv ==
    ASSUME IntakeInv, IntakeTypes', DOMAIN requests' = DOMAIN requests,
           \A j \in DOMAIN requests :
               /\ requests'[j].sent = requests[j].sent /\ requests'[j].own = requests[j].own
               /\ requests'[j].checked = requests[j].checked
               /\ requests'[j].marked = requests[j].marked
               /\ requests'[j].passed = requests[j].passed
               /\ requests'[j].step = "stored" => requests[j].step = "stored",
           seen' = seen, intakeNow' \in Int, intakeNow <= intakeNow'
    PROVE  IntakeInv'
<1>1. ASSUME NEW j \in DOMAIN requests PROVE MarkIsKept(requests[j])'
  <2>1. intakeNow \in Int /\ requests[j].marked \in Int
    <3>1. intakeNow \in Int /\ requests \in Seq(Request)
      BY DEF IntakeInv, IntakeTypes
    <3>2. requests[j] \in Request
      BY <3>1
    <3> QED BY <3>1, <3>2 DEF Request
  <2>2. MarkIsKept(requests[j])
    BY DEF IntakeInv
  <2> QED BY <2>1, <2>2 DEF MarkIsKept
<1>2. ASSUME NEW i \in DOMAIN requests, NEW j \in DOMAIN requests, i < j PROVE Ordered(i, j)'
  <2>1. Ordered(i, j)
    BY <1>2 DEF IntakeInv
  <2> QED BY <2>1 DEF Ordered
<1> QED BY <1>1, <1>2 DEF IntakeInv

LEMMA MarkInv ==
    ASSUME IntakeInv, NEW i \in DOMAIN requests, Mark(i)
    PROVE  IntakeInv'
<1>1. IntakeTypes /\ intakeNow' = intakeNow
  BY DEF IntakeInv, Mark, Marking
<1>2. PICK r \in Request :
          /\ requests'[i] = r /\ r.step = "stored" /\ r.marked = intakeNow
          /\ r.passed = Len(requests)
          /\ r.sent = requests[i].sent /\ r.own = requests[i].own
          /\ r.checked = requests[i].checked
  BY <1>1, MarkedRow
<1>3. /\ requests' \in Seq(Request) /\ DOMAIN requests' = DOMAIN requests
      /\ \A j \in DOMAIN requests : j # i => requests'[j] = requests[j]
  BY <1>1, MarkedRow
<1>4. /\ DOMAIN requests = 1..Len(requests) /\ Len(requests) \in Nat
      /\ \A j \in DOMAIN requests : requests[j] \in Request
      /\ intakeNow \in Nat /\ seen \in [Keys -> Int]
  BY <1>1 DEF IntakeTypes
<1>5. PICK key : key = KeyOf(requests[i].sent)
  OBVIOUS
<1>6. key \in Keys
  BY <1>4, <1>5, KeysAreAlike DEF Request
<1>7. seen' \in {seen, [seen EXCEPT ![key] = intakeNow]} /\ (~r.own => seen'[key] = intakeNow)
  BY <1>2, <1>4, <1>5, <1>6 DEF Mark, Marking
<1>8. IntakeTypes'
  BY <1>1, <1>3, <1>4, <1>7 DEF IntakeTypes
<1>9. ASSUME NEW j \in DOMAIN requests PROVE MarkIsKept(requests[j])'
  <2>1. CASE j = i
    BY <1>1, <1>2, <1>4, <1>5, <1>7, <2>1 DEF MarkIsKept
  <2>2. CASE j # i
    <3>1. PICK q, k : q = requests[j] /\ k = KeyOf(q.sent)
      OBVIOUS
    <3>2. q \in Request /\ k \in Keys /\ requests'[j] = q
      BY <1>3, <1>4, <2>2, <3>1, KeysAreAlike DEF Request
    <3>3. MarkIsKept(q)
      BY <3>1 DEF IntakeInv
    <3>4. seen'[k] \in {seen[k], intakeNow} /\ seen[k] \in Int
      BY <1>4, <1>6, <1>7, <3>2
    <3>5. q.marked \in Int
      BY <3>2 DEF Request
    <3>6. (q.step = "stored" /\ ~q.own) => q.marked \in 0..intakeNow /\ seen'[k] >= q.marked
      BY <1>4, <3>1, <3>3, <3>4, <3>5 DEF MarkIsKept
    <3> QED BY <1>1, <3>1, <3>2, <3>6 DEF MarkIsKept
  <2> QED BY <2>1, <2>2
<1>10. ASSUME NEW j \in DOMAIN requests, NEW k \in DOMAIN requests, j < k
       PROVE  Ordered(j, k)'
  <2>1. CASE j = i
    <3>1. ~(requests'[j].passed < k)
      BY <1>2, <1>4, <2>1
    <3> QED BY <3>1 DEF Ordered
  <2>2. CASE j # i
    <3>1. /\ requests'[k].own = requests[k].own /\ requests'[k].sent = requests[k].sent
          /\ requests'[k].checked = requests[k].checked
      BY <1>2, <1>3
    <3>2. Ordered(j, k) /\ requests'[j] = requests[j]
      BY <1>3, <1>10, <2>2 DEF IntakeInv
    <3> QED BY <3>1, <3>2 DEF Ordered
  <2> QED BY <2>1, <2>2
<1> QED BY <1>3, <1>8, <1>9, <1>10 DEF IntakeInv

\* A step of one request that neither passes the detector nor marks.
LEMMA StepInv ==
    ASSUME IntakeInv, NEW i \in DOMAIN requests,
           \/ Enter(i) \/ DropHit(i) \/ CountHits(i) \/ AppendHit(i) \/ Incr(i) \/ IncrFails(i)
           \/ Insert(i) \/ MarkFails(i)
    PROVE  IntakeInv'
<1>1. /\ IntakeTypes /\ seen' = seen /\ intakeNow' = intakeNow /\ intakeNow \in Int
  <2>1. IntakeTypes /\ intakeNow \in Int
    BY DEF IntakeInv, IntakeTypes
  <2>2. UNCHANGED <<seen, intakeNow>>
    BY DEF Enter, DropHit, CountHits, AppendHit, Incr, IncrFails, Insert, MarkFails
  <2> QED BY <2>1, <2>2
<1>2. CASE Enter(i)
  <2>1. /\ requests' \in Seq(Request) /\ DOMAIN requests' = DOMAIN requests
        /\ \A j \in DOMAIN requests :
             /\ requests'[j].sent = requests[j].sent /\ requests'[j].own = requests[j].own
             /\ requests'[j].checked = requests[j].checked
             /\ requests'[j].marked = requests[j].marked
             /\ requests'[j].passed = requests[j].passed
             /\ requests'[j].step = "stored" => requests[j].step = "stored"
    BY <1>1, <1>2, EnteredRows
  <2>2. IntakeTypes'
    BY <1>1, <2>1 DEF IntakeTypes
  <2> QED BY <1>1, <2>1, <2>2, UnmarkedInv
<1>3. CASE DropHit(i)
  BY <1>1, <1>3, UnmarkedInv DEF DropHit, IntakeTypes
<1>4. ASSUME NEW step \in Steps \ {"stored"}, Moved(i, step) PROVE IntakeInv'
  <2>1. /\ requests' \in Seq(Request) /\ DOMAIN requests' = DOMAIN requests
        /\ \A j \in DOMAIN requests :
             /\ requests'[j].sent = requests[j].sent /\ requests'[j].own = requests[j].own
             /\ requests'[j].checked = requests[j].checked
             /\ requests'[j].marked = requests[j].marked
             /\ requests'[j].passed = requests[j].passed
             /\ requests'[j].step = "stored" => requests[j].step = "stored"
    BY <1>1, <1>4, MovedRow
  <2>2. IntakeTypes'
    BY <1>1, <2>1 DEF IntakeTypes
  <2> QED BY <1>1, <2>1, <2>2, UnmarkedInv
<1>5. CASE CountHits(i) \/ AppendHit(i) \/ Incr(i) \/ IncrFails(i) \/ Insert(i) \/ MarkFails(i)
  <2>1. \E step \in Steps \ {"stored"} : Moved(i, step)
    BY <1>5 DEF CountHits, AppendHit, Incr, IncrFails, Insert, MarkFails, Steps, KeptSteps
  <2> QED BY <1>4, <2>1
<1> QED BY <1>2, <1>3, <1>5

LEMMA LimitersAreMade ==
    /\ IntakeInit => limiters \in Seq(Backends)
    /\ limiters \in Seq(Backends) /\ [IntakeNext]_intakeVars => (limiters \in Seq(Backends))'
<1>1. ASSUME IntakeInit PROVE limiters \in Seq(Backends)
  BY <1>1 DEF IntakeInit
<1>2. ASSUME limiters \in Seq(Backends), [IntakeNext]_intakeVars PROVE limiters' \in Seq(Backends)
  <2>1. CASE Evict
    BY <1>2, <2>1, AppendProperties DEF Evict
  <2>2. CASE ~Evict
    BY <1>2, <2>2 DEF IntakeNext, intakeVars, Check, Enter, DropHit, CountHits, AppendHit, Incr,
                      IncrFails, Insert, Mark, Marking, MarkFails, IntakeTick
  <2> QED BY <2>1, <2>2
<1> QED BY <1>1, <1>2

LEMMA IntakeInductive ==
    /\ IntakeInit => IntakeInv
    /\ IntakeInv /\ limiters \in Seq(Backends) /\ [IntakeNext]_intakeVars => IntakeInv'
<1>1. ASSUME IntakeInit PROVE IntakeInv
  <2>1. requests \in Seq(Request) /\ DOMAIN requests = {}
    BY <1>1 DEF IntakeInit
  <2>2. 0 \in 0..IntakeClock
    BY IntakeAssumption
  <2> QED BY <1>1, <2>1, <2>2 DEF IntakeInit, IntakeInv, IntakeTypes, Never
<1>2. ASSUME IntakeInv, limiters \in Seq(Backends), [IntakeNext]_intakeVars PROVE IntakeInv'
  <2>1. IntakeTypes /\ intakeNow \in Int /\ intakeNow <= intakeNow
    BY <1>2 DEF IntakeInv, IntakeTypes
  <2>2. ASSUME UNCHANGED <<requests, seen>>, intakeNow' \in 0..IntakeClock, intakeNow <= intakeNow'
        PROVE  IntakeInv'
    <3>1. IntakeTypes'
      BY <2>1, <2>2 DEF IntakeTypes
    <3>2. intakeNow' \in Int
      BY <2>2
    <3> QED BY <1>2, <2>2, <3>1, <3>2, UnmarkedInv
  <2>3. CASE Evict
    BY <2>1, <2>2, <2>3 DEF Evict, IntakeTypes
  <2>4. CASE IntakeTick
    BY <2>1, <2>2, <2>4, IntakeAssumption DEF IntakeTick, IntakeTypes
  <2>5. CASE UNCHANGED intakeVars
    BY <2>1, <2>2, <2>5 DEF intakeVars, IntakeTypes
  <2>6. ASSUME NEW s \in Submission, Check(s) PROVE IntakeInv'
    BY <1>2, <2>6, CheckInv
  <2>7. ASSUME NEW i \in DOMAIN requests,
               \/ Enter(i) \/ DropHit(i) \/ CountHits(i) \/ AppendHit(i) \/ Incr(i)
               \/ IncrFails(i) \/ Insert(i) \/ Mark(i) \/ MarkFails(i)
        PROVE  IntakeInv'
    BY <1>2, <2>7, StepInv, MarkInv
  <2> QED BY <1>2, <2>3, <2>4, <2>5, <2>6, <2>7 DEF IntakeNext
<1> QED BY <1>1, <1>2

\* However the steps of the handlers interleave, in either form and over either backend, a
\* report passes the detector twice within the window only when the first copy was not
\* marked before the check of the second or one of the two had a detector of its own
\* (create_report, create_quick_report, reports/spam.py).
THEOREM RepeatsAlwaysOverlap == IntakeSpec => []RepeatsOverlap
<1>1. ASSUME IntakeInv PROVE RepeatsOverlap
  <2> SUFFICES ASSUME NEW i \in DOMAIN requests, NEW j \in DOMAIN requests, i < j,
                      SameReport(requests[i].sent, requests[j].sent)
               PROVE  \/ requests[i].step # "stored"
                      \/ requests[i].passed >= j
                      \/ requests[i].own \/ requests[j].own
                      \/ requests[j].checked - requests[i].marked >= DupWindow
    BY DEF RepeatsOverlap
  <2>1. Ordered(i, j)
    BY <1>1 DEF IntakeInv
  <2>2. requests[i].passed \in Nat /\ j \in Nat
    <3>1. requests \in Seq(Request)
      BY <1>1 DEF IntakeInv, IntakeTypes
    <3>2. requests[i] \in Request /\ j \in Nat
      BY <3>1
    <3> QED BY <3>2 DEF Request
  <2> QED BY <2>1, <2>2 DEF Ordered
<1> QED BY <1>1, LimitersAreMade, IntakeInductive, PTL DEF IntakeSpec

-----------------------------------------------------------------------------
(* The limiters.                                                           *)

\* Every request of a set has a hit of its own.
Remembers(S, times, past) ==
    \E place \in [S -> DOMAIN past] :
        /\ \A i \in S : past[place[i]] = times[i]
        /\ \A i, j \in S : place[i] = place[j] => i = j

LEMMA RememberedAreFew ==
    ASSUME NEW past \in Seq(Int), NEW S, NEW times, Remembers(S, times, past)
    PROVE  IsFiniteSet(S) /\ Cardinality(S) <= Len(past) /\ Cardinality(S) \in Nat
<1>1. PICK place \in [S -> DOMAIN past] : \A i, j \in S : place[i] = place[j] => i = j
  BY DEF Remembers
<1>2. place \in Injection(S, 1..Len(past))
  BY <1>1 DEF Injection, IsInjective
<1>3. IsFiniteSet(1..Len(past)) /\ Cardinality(1..Len(past)) = Len(past)
  BY FS_Interval
<1>4. IsFiniteSet(S) /\ Cardinality(S) <= Len(past)
  BY <1>2, <1>3, FS_Injection
<1> QED BY <1>4, FS_CardinalityType

LEMMA AppendRemembers ==
    ASSUME NEW past \in Seq(Int), NEW S, NEW times, Remembers(S, times, past),
           NEW x, x \notin S, NEW h \in Int, NEW later, \A i \in S : later[i] = times[i],
           later[x] = h
    PROVE  Remembers(S \cup {x}, later, Append(past, h))
<1>1. PICK place \in [S -> DOMAIN past] :
          /\ \A i \in S : past[place[i]] = times[i]
          /\ \A i, j \in S : place[i] = place[j] => i = j
  BY DEF Remembers
<1> DEFINE n == Len(past) + 1
           longer == Append(past, h)
           new == [i \in S \cup {x} |-> IF i = x THEN n ELSE place[i]]
<1>2. /\ DOMAIN longer = 1..n /\ longer[n] = h /\ DOMAIN past = 1..Len(past) /\ Len(past) \in Nat
      /\ \A k \in 1..Len(past) : longer[k] = past[k]
  BY AppendProperties
<1> HIDE DEF longer
<1>3. \A i \in S : new[i] = place[i] /\ place[i] \in 1..Len(past) /\ place[i] # n
  BY <1>1, <1>2
<1>4. new[x] = n
  OBVIOUS
<1>5. new \in [S \cup {x} -> DOMAIN longer]
  BY <1>2, <1>3
<1> HIDE DEF new
<1>6. \A i \in S \cup {x} : longer[new[i]] = later[i]
  BY <1>1, <1>2, <1>3, <1>4
<1>7. \A i, j \in S \cup {x} : new[i] = new[j] => i = j
  BY <1>1, <1>3, <1>4
<1> QED BY <1>5, <1>6, <1>7 DEF Remembers, longer

LEMMA FewerRemembered ==
    ASSUME NEW past, NEW S, NEW T \in SUBSET S, NEW times, Remembers(S, times, past), NEW later,
           \A i \in T : later[i] = times[i]
    PROVE  Remembers(T, later, past)
<1>1. PICK place \in [S -> DOMAIN past] :
          /\ \A i \in S : past[place[i]] = times[i]
          /\ \A i, j \in S : place[i] = place[j] => i = j
  BY DEF Remembers
<1> DEFINE rest == [i \in T |-> place[i]]
<1>2. /\ rest \in [T -> DOMAIN past] /\ \A i \in T : past[rest[i]] = later[i]
      /\ \A i, j \in T : rest[i] = rest[j] => i = j
  BY <1>1
<1> QED BY <1>2 DEF Remembers

\* What popleft drops is nobody's, when it is nobody's time.
LEMMA TailRemembers ==
    ASSUME NEW past \in Seq(Int), past # <<>>, NEW S, NEW times, Remembers(S, times, past),
           \A i \in S : times[i] # Head(past)
    PROVE  Tail(past) \in Seq(Int) /\ Remembers(S, times, Tail(past))
<1>1. PICK place \in [S -> DOMAIN past] :
          /\ \A i \in S : past[place[i]] = times[i]
          /\ \A i, j \in S : place[i] = place[j] => i = j
  BY DEF Remembers
<1>2. PICK rest : rest = Tail(past)
  OBVIOUS
<1>3. /\ rest \in Seq(Int) /\ Len(past) \in Nat \ {0} /\ Head(past) = past[1]
      /\ DOMAIN rest = 1..(Len(past) - 1) /\ DOMAIN past = 1..Len(past)
      /\ \A k \in 1..(Len(past) - 1) : rest[k] = past[k + 1]
  BY <1>2, HeadTailProperties, EmptySeq
<1>4. ASSUME NEW i \in S
      PROVE  /\ place[i] \in Int /\ place[i] - 1 \in DOMAIN rest
             /\ rest[place[i] - 1] = times[i]
  <2>1. place[i] \in 1..Len(past) /\ place[i] # 1
    BY <1>1, <1>3
  <2>2. place[i] - 1 \in 1..(Len(past) - 1) /\ (place[i] - 1) + 1 = place[i]
    BY <1>3, <2>1
  <2> QED BY <1>1, <1>3, <2>1, <2>2
<1> DEFINE moved == [i \in S |-> place[i] - 1]
<1>5. /\ moved \in [S -> DOMAIN rest]
      /\ \A i \in S : rest[moved[i]] = times[i]
      /\ \A i, j \in S : moved[i] = moved[j] => i = j
  BY <1>1, <1>4
<1> QED BY <1>2, <1>3, <1>5 DEF Remembers

-----------------------------------------------------------------------------
Ats == [i \in DOMAIN requests |-> requests[i].at]

\* Those let through alone that have a hit, of one limiter and client, not before t.
Since(l, c, t) ==
    {i \in DOMAIN requests :
        /\ requests[i].limiter = l /\ requests[i].sent.client = c
        /\ requests[i].step \in KeptSteps /\ requests[i].alone
        /\ requests[i].at >= t}

\* Whoever is alone in allow is so until the end of it.
Paired(l) ==
    \A i, j \in DOMAIN requests :
        (/\ requests[i].limiter = l /\ Inside(requests[i]) /\ Rivals(i, j))
            => ~requests[i].alone

\* The deque has the hits that whoever comes now has to count, ...
Fresh(l) == \A c \in Reporters : Remembers(Since(l, c, intakeNow - Window), Ats, hits[l][c])

\* ... and the ones that a request on its way, alone, still has to count.
Entered(l) ==
    \A i \in DOMAIN requests :
        (/\ requests[i].limiter = l /\ requests[i].step = "entered" /\ requests[i].alone) =>
            Remembers(Since(l, requests[i].sent.client, requests[i].at - Window), Ats,
                      hits[l][requests[i].sent.client])

Bounded(l) == \A c \in Reporters, t \in Int : Cardinality(ThroughMemory(l, c, t)) <= Limit

\* LimitHolds alone is not inductive: that a memory limiter is right to admit the next
\* request follows from what its deque has.
MemoryInv(l) == Paired(l) /\ Fresh(l) /\ Entered(l) /\ Bounded(l)

\* A counter of Redis counts at least what it let through.
RedisInv(c, b) ==
    /\ Cardinality(ThroughRedis(c, b)) <= counts[c][b]
    /\ Cardinality(ThroughRedis(c, b)) <= Limit

LimitTypes ==
    /\ limiters \in Seq(Backends)
    /\ hits \in Seq([Reporters -> Seq(Int)]) /\ DOMAIN hits = DOMAIN limiters
    /\ counts \in [Reporters -> [Buckets -> Nat]]
    /\ \A i \in DOMAIN requests :
          /\ requests[i].limiter \in DOMAIN limiters
          /\ requests[i].at <= intakeNow
          /\ requests[i].step # "checked" => requests[i].at >= 0

LimitInv ==
    /\ IntakeTypes /\ LimitTypes
    /\ \A l \in DOMAIN limiters : limiters[l] = "memory" => MemoryInv(l)
    /\ \A c \in Reporters, b \in Buckets : RedisInv(c, b)

\* Of the requests there are finitely many.
LEMMA RequestsAreFew ==
    ASSUME IntakeTypes, NEW S \in SUBSET DOMAIN requests
    PROVE  IsFiniteSet(S) /\ Cardinality(S) \in Nat
<1>1. DOMAIN requests = 1..Len(requests) /\ Len(requests) \in Nat
  BY DEF IntakeTypes
<1>2. IsFiniteSet(DOMAIN requests)
  BY <1>1, FS_Interval
<1> QED BY <1>2, FS_Subset, FS_CardinalityType

LEMMA RowsAre ==
    ASSUME IntakeTypes, NEW i \in DOMAIN requests
    PROVE  /\ requests[i].at \in Int /\ requests[i].step \in Steps
           /\ requests[i].alone \in BOOLEAN /\ requests[i].limiter \in Nat
           /\ requests[i].sent \in Submission /\ requests[i].sent.client \in Reporters
<1>1. requests \in Seq(Request)
  BY DEF IntakeTypes
<1>2. requests[i] \in Request
  BY <1>1
<1> QED BY <1>2, KeysAreAlike DEF Request

-----------------------------------------------------------------------------
\* Steps that neither begin a call of allow on this limiter nor let one through.
Quiet(l) ==
    /\ DOMAIN requests \subseteq DOMAIN requests'
    /\ \A j \in DOMAIN requests' \ DOMAIN requests : requests'[j].step = "checked"
    /\ \A j \in DOMAIN requests :
          /\ requests'[j].limiter = requests[j].limiter
          /\ requests[j].limiter = l =>
                /\ requests'[j].sent = requests[j].sent /\ requests'[j].at = requests[j].at
                /\ requests'[j].alone = requests[j].alone
                /\ requests'[j].step \in KeptSteps <=> requests[j].step \in KeptSteps
                /\ requests'[j].step = "counting" <=> requests[j].step = "counting"
                /\ requests'[j].step = "entered" => requests[j].step = "entered"

LEMMA QuietKeeps ==
    ASSUME IntakeTypes, NEW l, MemoryInv(l), Quiet(l), hits'[l] = hits[l],
           intakeNow' \in Int, intakeNow <= intakeNow'
    PROVE  MemoryInv(l)'
<1>1. /\ \A i \in DOMAIN requests' : requests'[i].step # "checked" => i \in DOMAIN requests
      /\ \A i \in DOMAIN requests : i \in DOMAIN requests'
  BY DEF Quiet
<1>2. intakeNow \in Int /\ Window \in Int
  BY WindowsAssumption DEF IntakeTypes
<1>3. ASSUME NEW i \in DOMAIN requests', NEW j \in DOMAIN requests',
             requests'[i].limiter = l, Inside(requests'[i]), Rivals(i, j)'
      PROVE  ~requests'[i].alone
  <2>1. /\ i # j /\ Inside(requests'[j]) /\ requests'[j].limiter = l
        /\ requests'[j].sent.client = requests'[i].sent.client
    BY <1>3 DEF Rivals
  <2>2. i \in DOMAIN requests /\ j \in DOMAIN requests
    BY <1>1, <1>3, <2>1 DEF Inside
  <2>3. /\ requests[i].limiter = l /\ requests[j].limiter = l
        /\ Inside(requests[i]) /\ Inside(requests[j])
        /\ requests[j].sent.client = requests[i].sent.client
        /\ requests'[i].alone = requests[i].alone
    BY <1>3, <2>1, <2>2 DEF Quiet, Inside
  <2> QED BY <2>1, <2>2, <2>3 DEF MemoryInv, Paired, Rivals
<1>4. ASSUME NEW c, NEW t PROVE Since(l, c, t)' = Since(l, c, t)
  <2>1. ASSUME NEW i PROVE i \in Since(l, c, t)' <=> i \in Since(l, c, t)
    <3>1. CASE i \in DOMAIN requests
      <4>1. requests'[i].limiter = requests[i].limiter /\ i \in DOMAIN requests'
        BY <1>1, <3>1 DEF Quiet
      <4>2. CASE requests[i].limiter = l
        BY <3>1, <4>1, <4>2 DEF Quiet, Since
      <4>3. CASE requests[i].limiter # l
        BY <3>1, <4>1, <4>3 DEF Since
      <4> QED BY <4>2, <4>3
    <3>2. CASE i \notin DOMAIN requests
      BY <1>1, <3>2 DEF Since, KeptSteps
    <3> QED BY <3>1, <3>2
  <2> QED BY <2>1
<1>5. ASSUME NEW c, NEW t \in Int PROVE ThroughMemory(l, c, t)' = ThroughMemory(l, c, t)
  <2>1. ASSUME NEW i PROVE i \in ThroughMemory(l, c, t)' <=> i \in ThroughMemory(l, c, t)
    <3>1. CASE i \in DOMAIN requests
      <4>1. requests'[i].limiter = requests[i].limiter /\ i \in DOMAIN requests'
        BY <1>1, <3>1 DEF Quiet
      <4>2. CASE requests[i].limiter = l
        <5>1. LetThrough(requests'[i]) <=> LetThrough(requests[i])
          BY <3>1, <4>2 DEF Quiet, LetThrough, KeptSteps
        <5> QED BY <3>1, <4>1, <4>2, <5>1 DEF Quiet, ThroughMemory
      <4>3. CASE requests[i].limiter # l
        BY <3>1, <4>1, <4>3 DEF ThroughMemory
      <4> QED BY <4>2, <4>3
    <3>2. CASE i \notin DOMAIN requests
      BY <1>1, <3>2 DEF ThroughMemory, LetThrough
    <3> QED BY <3>1, <3>2
  <2> QED BY <2>1
<1>6. \A c, t : \A i \in Since(l, c, t) : Ats'[i] = Ats[i]
  BY <1>1 DEF Since, Quiet, Ats
<1>7. ASSUME NEW c \in Reporters
      PROVE  Remembers(Since(l, c, intakeNow - Window), Ats, hits[l][c])'
  <2>1. PICK n : n = intakeNow'
    OBVIOUS
  <2>2. PICK S, T : S = Since(l, c, intakeNow - Window) /\ T = Since(l, c, n - Window)
    OBVIOUS
  <2>3. T \subseteq S
    <3>1. \A i \in T : requests[i].at \in Int
      BY <2>2, RowsAre DEF Since
    <3> QED BY <1>2, <2>1, <2>2, <3>1 DEF Since
  <2>4. Remembers(S, Ats, hits[l][c])
    BY <2>2 DEF MemoryInv, Fresh
  <2>5. Remembers(T, Ats', hits[l][c])
    BY <1>6, <2>2, <2>3, <2>4, FewerRemembered
  <2>6. Since(l, c, intakeNow - Window)' = T
    <3>1. Since(l, c, n - Window)' = Since(l, c, n - Window)
      BY <1>4
    <3> QED BY <2>1, <2>2, <3>1 DEF Since
  <2> QED BY <2>5, <2>6 DEF Remembers
<1>8. ASSUME NEW i \in DOMAIN requests', requests'[i].limiter = l,
             requests'[i].step = "entered", requests'[i].alone
      PROVE  Remembers(Since(l, requests[i].sent.client, requests[i].at - Window), Ats,
                       hits[l][requests[i].sent.client])'
  <2>1. i \in DOMAIN requests
    BY <1>1, <1>8
  <2>2. /\ requests[i].limiter = l /\ requests[i].step = "entered" /\ requests[i].alone
        /\ requests'[i].sent = requests[i].sent /\ requests'[i].at = requests[i].at
    BY <1>8, <2>1 DEF Quiet
  <2>3. PICK c, t : c = requests[i].sent.client /\ t = requests[i].at - Window
    OBVIOUS
  <2>4. Remembers(Since(l, c, t), Ats, hits[l][c])
    BY <2>1, <2>2, <2>3 DEF MemoryInv, Entered
  <2>5. Remembers(Since(l, c, t), Ats', hits[l][c])
    BY <1>6, <2>4, FewerRemembered
  <2>6. Remembers(Since(l, c, t), Ats, hits[l][c])'
    BY <1>4, <2>5 DEF Remembers
  <2> QED BY <2>2, <2>3, <2>6
<1> QED BY <1>3, <1>5, <1>7, <1>8 DEF MemoryInv, Paired, Fresh, Entered, Bounded

\* A row that moves is where it was, of whom it was.
LEMMA MovedStays ==
    ASSUME IntakeTypes, NEW i \in DOMAIN requests, NEW step \in Steps, Moved(i, step)
    PROVE  /\ requests' \in Seq(Request) /\ DOMAIN requests' = DOMAIN requests
           /\ requests'[i].step = step
           /\ \A j \in DOMAIN requests :
                /\ requests'[j].sent = requests[j].sent
                /\ requests'[j].limiter = requests[j].limiter
                /\ requests'[j].at = requests[j].at /\ requests'[j].alone = requests[j].alone
                /\ j # i => requests'[j].step = requests[j].step
BY MovedRow

\* One round of the loop: the head that goes is too old for whoever has to count.
LEMMA DropKeeps ==
    ASSUME IntakeTypes, LimitTypes, NEW l \in DOMAIN limiters, MemoryInv(l),
           NEW i \in DOMAIN requests, DropHit(i)
    PROVE  MemoryInv(l)' /\ hits' \in Seq([Reporters -> Seq(Int)]) /\ DOMAIN hits' = DOMAIN hits
<1>1. PICK m, d, past, at : /\ m = requests[i].limiter /\ d = requests[i].sent.client
                            /\ past = hits[m][d] /\ at = requests[i].at
  OBVIOUS
<1>2. /\ m \in DOMAIN hits /\ d \in Reporters /\ at \in Int /\ at <= intakeNow
      /\ intakeNow \in Int /\ Window \in Int
  BY <1>1, RowsAre, WindowsAssumption DEF LimitTypes, IntakeTypes
<1>3. /\ requests[i].step = "entered" /\ past # <<>> /\ at - Head(past) > Window
      /\ hits' = [hits EXCEPT ![m][d] = Tail(past)]
      /\ requests' = requests /\ intakeNow' = intakeNow
  BY <1>1 DEF DropHit, HitsOf, Outlived
<1>4. past \in Seq(Int) /\ Tail(past) \in Seq(Int) /\ Head(past) \in Int
  <2>1. hits[m] \in [Reporters -> Seq(Int)]
    BY <1>2 DEF LimitTypes
  <2>2. past \in Seq(Int)
    BY <1>1, <1>2, <2>1
  <2> QED BY <1>3, <2>2, HeadTailProperties
<1>5. PICK row : row = [hits[m] EXCEPT ![d] = Tail(past)]
  OBVIOUS
<1>6. row \in [Reporters -> Seq(Int)] /\ hits' = [hits EXCEPT ![m] = row]
  <2>1. hits[m] \in [Reporters -> Seq(Int)]
    BY <1>2 DEF LimitTypes
  <2> QED BY <1>2, <1>3, <1>4, <1>5, <2>1
<1>7. hits' \in Seq([Reporters -> Seq(Int)]) /\ DOMAIN hits' = DOMAIN hits
  BY <1>2, <1>6, ExceptSeq DEF LimitTypes
<1>8. CASE l # m
  <2>1. hits'[l] = hits[l]
    BY <1>2, <1>6, <1>8, ExceptSeq DEF LimitTypes
  <2>2. Quiet(l)
    BY <1>3 DEF Quiet
  <2>3. intakeNow' \in Int /\ intakeNow <= intakeNow'
    BY <1>2, <1>3
  <2>4. MemoryInv(l)'
    BY <2>1, <2>2, <2>3, QuietKeeps
  <2> QED BY <1>7, <2>4
<1>9. CASE l = m
  <2>1. /\ hits'[l][d] = Tail(past)
        /\ \A c \in Reporters : c # d => hits'[l][c] = hits[l][c]
    <3>1. hits'[l] = row
      BY <1>2, <1>6, <1>9 DEF LimitTypes
    <3>2. hits[m] \in [Reporters -> Seq(Int)]
      BY <1>2 DEF LimitTypes
    <3> QED BY <1>2, <1>5, <1>9, <3>1, <3>2
  <2>2. ASSUME NEW t \in Int, t >= at - Window, Remembers(Since(l, d, t), Ats, past)
        PROVE  Remembers(Since(l, d, t), Ats, Tail(past))
    <3>1. ASSUME NEW j \in Since(l, d, t) PROVE Ats[j] # Head(past)
      <4>1. Ats[j] \in Int /\ Ats[j] >= t
        BY RowsAre DEF Since, Ats
      <4>2. Head(past) < at - Window
        BY <1>2, <1>3, <1>4
      <4> QED BY <1>2, <1>4, <2>2, <4>1, <4>2
    <3>2. PICK S, times : S = Since(l, d, t) /\ times = Ats
      OBVIOUS
    <3>3. Remembers(S, times, Tail(past))
      BY <1>3, <1>4, <2>2, <3>1, <3>2, TailRemembers
    <3> QED BY <3>2, <3>3
  <2>3. Paired(l)'
    BY <1>3 DEF MemoryInv, Paired, Rivals
  <2>4. Bounded(l)'
    BY <1>3 DEF MemoryInv, Bounded, ThroughMemory
  <2>5. ASSUME NEW c, NEW t PROVE Since(l, c, t)' = Since(l, c, t) /\ Ats' = Ats
    BY <1>3 DEF Since, Ats
  <2>6. ASSUME NEW c \in Reporters
        PROVE  Remembers(Since(l, c, intakeNow - Window), Ats, hits'[l][c])
    <3>1. Remembers(Since(l, c, intakeNow - Window), Ats, hits[l][c])
      BY DEF MemoryInv, Fresh
    <3>2. intakeNow - Window \in Int /\ intakeNow - Window >= at - Window
      BY <1>2
    <3> QED BY <1>1, <1>9, <2>1, <2>2, <3>1, <3>2
  <2>7. Fresh(l)'
    <3>1. PICK start : start = intakeNow - Window
      OBVIOUS
    <3>2. \A c \in Reporters : Remembers(Since(l, c, start), Ats, hits'[l][c])
      BY <2>6, <3>1
    <3>3. \A c \in Reporters : Remembers(Since(l, c, start), Ats, hits[l][c])'
      BY <2>5, <3>2 DEF Remembers
    <3> QED BY <1>3, <3>1, <3>3 DEF Fresh
  <2>8. ASSUME NEW j \in DOMAIN requests, requests[j].limiter = l,
               requests[j].step = "entered", requests[j].alone
        PROVE  Remembers(Since(l, requests[j].sent.client, requests[j].at - Window), Ats,
                         hits'[l][requests[j].sent.client])
    <3>1. PICK c, t : c = requests[j].sent.client /\ t = requests[j].at - Window
      OBVIOUS
    <3>2. Remembers(Since(l, c, t), Ats, hits[l][c]) /\ c \in Reporters
      BY <2>8, <3>1, RowsAre DEF MemoryInv, Entered
    <3>3. CASE c # d
      BY <2>1, <3>1, <3>2, <3>3
    <3>4. CASE c = d
      <4>1. j = i
        BY <1>1, <1>3, <1>9, <2>8, <3>1, <3>4 DEF MemoryInv, Paired, Rivals, Inside
      <4>2. t \in Int /\ t >= at - Window
        BY <1>1, <1>2, <3>1, <4>1
      <4> QED BY <1>1, <1>9, <2>1, <2>2, <3>1, <3>2, <3>4, <4>2
    <3> QED BY <3>3, <3>4
  <2>9. Entered(l)'
    <3> SUFFICES ASSUME NEW j \in DOMAIN requests, requests[j].limiter = l,
                        requests[j].step = "entered", requests[j].alone
                 PROVE  Remembers(Since(l, requests[j].sent.client, requests[j].at - Window), Ats,
                                  hits[l][requests[j].sent.client])'
      BY <1>3 DEF Entered
    <3>1. PICK c, t : c = requests[j].sent.client /\ t = requests[j].at - Window
      OBVIOUS
    <3>2. Remembers(Since(l, c, t), Ats, hits'[l][c])
      BY <2>8, <3>1
    <3>3. Remembers(Since(l, c, t), Ats, hits[l][c])'
      BY <2>5, <3>2 DEF Remembers
    <3> QED BY <1>3, <3>1, <3>3
  <2> QED BY <1>7, <2>3, <2>4, <2>7, <2>9 DEF MemoryInv
<1> QED BY <1>8, <1>9

\* Room found: if nobody else is in allow, what the deque has is all there is to count.
LEMMA CountKeeps ==
    ASSUME IntakeTypes, LimitTypes, NEW l \in DOMAIN limiters, MemoryInv(l),
           NEW i \in DOMAIN requests, CountHits(i), Moved(i, "counting"),
           Len(HitsOf(requests[i])) < Limit
    PROVE  MemoryInv(l)'
<1>1. /\ DOMAIN requests' = DOMAIN requests /\ requests'[i].step = "counting"
      /\ \A j \in DOMAIN requests :
           /\ requests'[j].sent = requests[j].sent /\ requests'[j].limiter = requests[j].limiter
           /\ requests'[j].at = requests[j].at /\ requests'[j].alone = requests[j].alone
           /\ j # i => requests'[j].step = requests[j].step
  BY MovedStays DEF Steps
<1>2. /\ requests[i].step = "entered" /\ hits' = hits /\ intakeNow' = intakeNow
      /\ intakeNow \in Int /\ Limit \in Nat \ {0} /\ Window \in Nat
  BY WindowsAssumption DEF CountHits, IntakeTypes
<1>3. \A j \in DOMAIN requests : Inside(requests'[j]) <=> Inside(requests[j])
  BY <1>1, <1>2 DEF Inside
<1>4. ASSUME NEW c, NEW t PROVE Since(l, c, t)' = Since(l, c, t)
  <2>1. \A j \in DOMAIN requests : requests'[j].step \in KeptSteps <=> requests[j].step \in KeptSteps
    BY <1>1, <1>2 DEF KeptSteps
  <2> QED BY <1>1, <2>1 DEF Since
<1>5. Ats' = Ats
  BY <1>1 DEF Ats
<1>6. Paired(l)'
  <2> SUFFICES ASSUME NEW j \in DOMAIN requests, NEW k \in DOMAIN requests,
                      requests'[j].limiter = l, Inside(requests'[j]), Rivals(j, k)'
               PROVE  ~requests'[j].alone
    BY <1>1 DEF Paired
  <2>1. /\ requests[j].limiter = l /\ Inside(requests[j]) /\ Rivals(j, k)
        /\ requests'[j].alone = requests[j].alone
    BY <1>1, <1>3 DEF Rivals
  <2> QED BY <2>1 DEF MemoryInv, Paired
<1>7. Fresh(l)'
  <2>1. PICK start : start = intakeNow - Window
    OBVIOUS
  <2>2. \A c \in Reporters : Remembers(Since(l, c, start), Ats, hits[l][c])
    BY <2>1 DEF MemoryInv, Fresh
  <2>3. \A c \in Reporters : Remembers(Since(l, c, start), Ats, hits[l][c])'
    BY <1>2, <1>4, <1>5, <2>2 DEF Remembers
  <2> QED BY <1>2, <2>1, <2>3 DEF Fresh
<1>8. Entered(l)'
  <2> SUFFICES ASSUME NEW j \in DOMAIN requests, requests'[j].limiter = l,
                      requests'[j].step = "entered", requests'[j].alone
               PROVE  Remembers(Since(l, requests[j].sent.client, requests[j].at - Window), Ats,
                                hits[l][requests[j].sent.client])'
    BY <1>1 DEF Entered
  <2>1. PICK c, t : c = requests[j].sent.client /\ t = requests[j].at - Window
    OBVIOUS
  <2>2. requests[j].limiter = l /\ requests[j].step = "entered" /\ requests[j].alone
    BY <1>1
  <2>3. Remembers(Since(l, c, t), Ats, hits[l][c])
    BY <2>1, <2>2 DEF MemoryInv, Entered
  <2>4. Remembers(Since(l, c, t), Ats, hits[l][c])'
    BY <1>2, <1>4, <1>5, <2>3 DEF Remembers
  <2> QED BY <1>1, <2>1, <2>4
<1>9. ASSUME NEW c \in Reporters, NEW t \in Int
      PROVE  Cardinality(ThroughMemory(l, c, t)') <= Limit
  <2>1. PICK S : S = ThroughMemory(l, c, t)
    OBVIOUS
  <2>2. IsFiniteSet(S) /\ Cardinality(S) \in Nat /\ Cardinality(S) <= Limit
    <3>1. S \in SUBSET DOMAIN requests
      BY <2>1 DEF ThroughMemory
    <3>2. Cardinality(S) <= Limit
      BY <2>1 DEF MemoryInv, Bounded
    <3> QED BY <3>1, <3>2, RequestsAreFew
  <2>3. \A j \in DOMAIN requests : j # i => (LetThrough(requests'[j]) <=> LetThrough(requests[j]))
    BY <1>1 DEF LetThrough
  <2>4. ~LetThrough(requests[i]) /\ i \notin S
    BY <1>2, <2>1 DEF LetThrough, ThroughMemory
  <2>5. ThroughMemory(l, c, t)' \subseteq S \cup {i} /\ S \subseteq ThroughMemory(l, c, t)'
    <3>1. ASSUME NEW j \in DOMAIN requests, j # i
          PROVE  j \in ThroughMemory(l, c, t)' <=> j \in S
      BY <1>1, <2>1, <2>3, <3>1 DEF ThroughMemory
    <3>2. ThroughMemory(l, c, t)' \subseteq DOMAIN requests /\ S \subseteq DOMAIN requests
      BY <1>1, <2>1 DEF ThroughMemory
    <3> QED BY <2>4, <3>1, <3>2
  <2>6. CASE i \notin ThroughMemory(l, c, t)'
    <3>1. ThroughMemory(l, c, t)' = S
      BY <2>5, <2>6
    <3> QED BY <2>2, <3>1
  <2>7. CASE i \in ThroughMemory(l, c, t)'
    <3>1. /\ requests[i].limiter = l /\ requests[i].sent.client = c /\ requests[i].alone
          /\ requests[i].at \in (t - Window)..t
      BY <1>1, <2>7 DEF ThroughMemory
    <3>2. PICK past : past = hits[l][c]
      OBVIOUS
    <3>3. past \in Seq(Int) /\ Len(past) < Limit /\ Len(past) \in Nat
      <4>1. l \in DOMAIN hits /\ hits \in Seq([Reporters -> Seq(Int)])
        BY DEF LimitTypes
      <4>2. hits[l] \in [Reporters -> Seq(Int)]
        BY <4>1
      <4>3. past \in Seq(Int)
        BY <3>2, <4>2
      <4> QED BY <3>1, <3>2, <4>3 DEF HitsOf
    <3>4. PICK T : T = Since(l, c, requests[i].at - Window)
      OBVIOUS
    <3>5. Remembers(T, Ats, past)
      BY <1>2, <3>1, <3>2, <3>4 DEF MemoryInv, Entered
    <3>6. S \subseteq T
      <4> SUFFICES ASSUME NEW j \in S PROVE j \in T
        OBVIOUS
      <4>1. /\ j \in DOMAIN requests /\ requests[j].limiter = l /\ requests[j].sent.client = c
            /\ LetThrough(requests[j]) /\ requests[j].alone /\ requests[j].at \in (t - Window)..t
            /\ j # i
        BY <2>1, <2>4 DEF ThroughMemory
      <4>2. requests[j].step # "counting"
        <5>1. Rivals(i, j) \/ requests[j].step # "counting"
          BY <3>1, <4>1 DEF Rivals, Inside
        <5>2. ~Rivals(i, j)
          BY <1>2, <3>1, <4>1 DEF MemoryInv, Paired, Inside
        <5> QED BY <5>1, <5>2
      <4>3. requests[j].step \in KeptSteps
        BY <4>1, <4>2 DEF LetThrough, KeptSteps
      <4>4. requests[j].at >= requests[i].at - Window
        BY <1>2, <3>1, <4>1
      <4> QED BY <3>4, <4>1, <4>3, <4>4 DEF Since
    <3>7. IsFiniteSet(T) /\ Cardinality(T) <= Len(past) /\ Cardinality(T) \in Nat
      BY <3>3, <3>5, RememberedAreFew
    <3>8. Cardinality(S) <= Cardinality(T)
      BY <3>6, <3>7, FS_Subset
    <3>9. Cardinality(S \cup {i}) = Cardinality(S) + 1
      BY <2>2, <2>4, FS_AddElement
    <3>10. ThroughMemory(l, c, t)' = S \cup {i}
      BY <2>5, <2>7
    <3>11. Cardinality(S) + 1 <= Limit
      BY <1>2, <2>2, <3>3, <3>7, <3>8
    <3> QED BY <3>9, <3>10, <3>11
  <2> QED BY <2>6, <2>7
<1>10. Bounded(l)'
  BY <1>9 DEF Bounded
<1> QED BY <1>6, <1>7, <1>8, <1>10 DEF MemoryInv

LEMMA AppendedHits ==
    ASSUME IntakeTypes, LimitTypes, NEW i \in DOMAIN requests, AppendHit(i)
    PROVE  hits' \in Seq([Reporters -> Seq(Int)]) /\ DOMAIN hits' = DOMAIN hits
<1>1. PICK m, d, past, at : /\ m = requests[i].limiter /\ d = requests[i].sent.client
                            /\ past = hits[m][d] /\ at = requests[i].at
  OBVIOUS
<1>2. m \in DOMAIN hits /\ d \in Reporters /\ at \in Int
  BY <1>1, RowsAre DEF LimitTypes
<1>3. hits' = [hits EXCEPT ![m][d] = Append(past, at)]
  BY <1>1 DEF AppendHit
<1>4. hits[m] \in [Reporters -> Seq(Int)]
  BY <1>2 DEF LimitTypes
<1>5. past \in Seq(Int)
  BY <1>1, <1>2, <1>4
<1>6. Append(past, at) \in Seq(Int)
  BY <1>2, <1>5, AppendProperties
<1>7. PICK row : row = [hits[m] EXCEPT ![d] = Append(past, at)]
  OBVIOUS
<1>8. row \in [Reporters -> Seq(Int)] /\ hits' = [hits EXCEPT ![m] = row]
  BY <1>2, <1>3, <1>4, <1>6, <1>7
<1> QED BY <1>2, <1>8, ExceptSeq DEF LimitTypes

\* The hit of a request let through.
LEMMA AppendKeeps ==
    ASSUME IntakeTypes, LimitTypes, NEW l \in DOMAIN limiters, MemoryInv(l),
           NEW i \in DOMAIN requests, AppendHit(i)
    PROVE  MemoryInv(l)' /\ hits' \in Seq([Reporters -> Seq(Int)]) /\ DOMAIN hits' = DOMAIN hits
<1>1. PICK m, d, past, at : /\ m = requests[i].limiter /\ d = requests[i].sent.client
                            /\ past = hits[m][d] /\ at = requests[i].at
  OBVIOUS
<1>2. /\ m \in DOMAIN hits /\ d \in Reporters /\ at \in Int /\ intakeNow \in Int
      /\ requests[i].alone \in BOOLEAN
  BY <1>1, RowsAre DEF LimitTypes, IntakeTypes
<1>3. /\ requests[i].step = "counting" /\ Moved(i, "admitted")
      /\ hits' = [hits EXCEPT ![m][d] = Append(past, at)]
      /\ intakeNow' = intakeNow
  BY <1>1 DEF AppendHit
<1>4. /\ DOMAIN requests' = DOMAIN requests /\ requests'[i].step = "admitted"
      /\ \A j \in DOMAIN requests :
           /\ requests'[j].sent = requests[j].sent /\ requests'[j].limiter = requests[j].limiter
           /\ requests'[j].at = requests[j].at /\ requests'[j].alone = requests[j].alone
           /\ j # i => requests'[j].step = requests[j].step
  BY <1>3, MovedStays DEF Steps, KeptSteps
<1>5. hits[m] \in [Reporters -> Seq(Int)] /\ past \in Seq(Int) /\ Append(past, at) \in Seq(Int)
  <2>1. hits[m] \in [Reporters -> Seq(Int)]
    BY <1>2 DEF LimitTypes
  <2>2. past \in Seq(Int)
    BY <1>1, <1>2, <2>1
  <2> QED BY <1>2, <2>1, <2>2, AppendProperties
<1>6. PICK row : row = [hits[m] EXCEPT ![d] = Append(past, at)]
  OBVIOUS
<1>7. row \in [Reporters -> Seq(Int)] /\ hits' = [hits EXCEPT ![m] = row]
  BY <1>2, <1>3, <1>5, <1>6
<1>8. /\ hits' \in Seq([Reporters -> Seq(Int)]) /\ DOMAIN hits' = DOMAIN hits
      /\ \A n \in DOMAIN hits : n # m => hits'[n] = hits[n]
      /\ hits'[m] = row
  BY <1>2, <1>7, ExceptSeq DEF LimitTypes
<1>9. CASE l # m
  <2>1. hits'[l] = hits[l]
    BY <1>8, <1>9 DEF LimitTypes
  <2>2. Quiet(l)
    BY <1>1, <1>4, <1>9 DEF Quiet
  <2>3. intakeNow' \in Int /\ intakeNow <= intakeNow'
    BY <1>2, <1>3
  <2>4. MemoryInv(l)'
    BY <2>1, <2>2, <2>3, QuietKeeps
  <2> QED BY <1>8, <2>4
<1>10. CASE l = m
  <2>1. /\ hits'[l][d] = Append(past, at)
        /\ \A c \in Reporters : c # d => hits'[l][c] = hits[l][c]
    BY <1>2, <1>5, <1>6, <1>8, <1>10
  <2>2. \A j \in DOMAIN requests : Inside(requests'[j]) => Inside(requests[j])
    BY <1>4 DEF Inside
  <2>3. Paired(l)'
    <3> SUFFICES ASSUME NEW j \in DOMAIN requests, NEW k \in DOMAIN requests,
                        requests'[j].limiter = l, Inside(requests'[j]), Rivals(j, k)'
                 PROVE  ~requests'[j].alone
      BY <1>4 DEF Paired
    <3>1. /\ requests[j].limiter = l /\ Inside(requests[j]) /\ Rivals(j, k)
          /\ requests'[j].alone = requests[j].alone
      BY <1>4, <2>2 DEF Rivals
    <3> QED BY <3>1 DEF MemoryInv, Paired
  <2>4. ASSUME NEW c \in Reporters, NEW t \in Int
        PROVE  Cardinality(ThroughMemory(l, c, t)') <= Limit
    <3>1. \A j \in DOMAIN requests : LetThrough(requests'[j]) <=> LetThrough(requests[j])
      BY <1>3, <1>4 DEF LetThrough
    <3>2. ThroughMemory(l, c, t)' = ThroughMemory(l, c, t)
      BY <1>4, <3>1 DEF ThroughMemory
    <3> QED BY <3>2 DEF MemoryInv, Bounded
  <2>5. Bounded(l)'
    BY <2>4 DEF Bounded
  <2>6. Ats' = Ats
    BY <1>4 DEF Ats
  <2>7. ASSUME NEW c, c # d, NEW t PROVE Since(l, c, t)' = Since(l, c, t)
    BY <1>1, <1>4, <2>7 DEF Since
  <2>8. ASSUME NEW t, Remembers(Since(l, d, t), Ats, past)
        PROVE  Remembers(Since(l, d, t), Ats, hits[l][d])'
    <3>1. PICK S, times : S = Since(l, d, t) /\ times = Ats
      OBVIOUS
    <3>2. i \notin S /\ times[i] = at
      BY <1>1, <1>3, <3>1 DEF Since, KeptSteps, Ats
    <3>3. Remembers(S \cup {i}, times, Append(past, at))
      BY <1>2, <1>5, <2>8, <3>1, <3>2, AppendRemembers
    <3>4. PICK T : T = Since(l, d, t)'
      OBVIOUS
    <3>5. T \in SUBSET (S \cup {i})
      <4>1. \A j \in T : j # i => j \in S
        BY <1>4, <3>1, <3>4 DEF Since
      <4> QED BY <4>1
    <3>6. Remembers(T, times, Append(past, at))
      BY <3>3, <3>5, FewerRemembered
    <3> QED BY <2>1, <2>6, <3>1, <3>4, <3>6 DEF Remembers
  <2>9. Fresh(l)'
    <3>1. PICK start : start = intakeNow - Window
      OBVIOUS
    <3>2. \A c \in Reporters : Remembers(Since(l, c, start), Ats, hits[l][c])
      BY <3>1 DEF MemoryInv, Fresh
    <3>3. ASSUME NEW c \in Reporters PROVE Remembers(Since(l, c, start), Ats, hits[l][c])'
      <4>1. CASE c = d
        BY <1>1, <1>10, <2>8, <3>2, <4>1
      <4>2. CASE c # d
        BY <2>1, <2>6, <2>7, <3>2, <4>2 DEF Remembers
      <4> QED BY <4>1, <4>2
    <3> QED BY <1>3, <3>1, <3>3 DEF Fresh
  <2>10. Entered(l)'
    <3> SUFFICES ASSUME NEW j \in DOMAIN requests, requests'[j].limiter = l,
                        requests'[j].step = "entered", requests'[j].alone
                 PROVE  Remembers(Since(l, requests[j].sent.client, requests[j].at - Window), Ats,
                                  hits[l][requests[j].sent.client])'
      BY <1>4 DEF Entered
    <3>1. PICK c, t : c = requests[j].sent.client /\ t = requests[j].at - Window
      OBVIOUS
    <3>2. /\ requests[j].limiter = l /\ requests[j].step = "entered" /\ requests[j].alone
          /\ c \in Reporters
      BY <1>4, <3>1, RowsAre
    <3>3. c # d
      BY <1>1, <1>3, <1>10, <3>1, <3>2 DEF MemoryInv, Paired, Rivals, Inside
    <3>4. Remembers(Since(l, c, t), Ats, hits[l][c])
      BY <3>1, <3>2 DEF MemoryInv, Entered
    <3>5. Remembers(Since(l, c, t), Ats, hits[l][c])'
      BY <2>1, <2>6, <2>7, <3>2, <3>3, <3>4 DEF Remembers
    <3> QED BY <1>4, <3>1, <3>5
  <2> QED BY <1>8, <2>3, <2>5, <2>9, <2>10 DEF MemoryInv
<1> QED BY <1>9, <1>10

\* A call of allow begins: from now on it is alone, or it is not and nobody beside it is.
LEMMA EnterKeeps ==
    ASSUME IntakeTypes, LimitTypes, NEW l \in DOMAIN limiters, MemoryInv(l),
           NEW i \in DOMAIN requests, Enter(i)
    PROVE  MemoryInv(l)'
<1>1. /\ DOMAIN requests' = DOMAIN requests
      /\ requests'[i].step = "entered" /\ requests'[i].at = intakeNow
      /\ requests'[i].alone = \A k \in DOMAIN requests : ~Rivals(i, k)
      /\ \A j \in DOMAIN requests :
           /\ requests'[j].sent = requests[j].sent /\ requests'[j].limiter = requests[j].limiter
           /\ j # i => /\ requests'[j].step = requests[j].step
                       /\ requests'[j].at = requests[j].at
                       /\ requests'[j].alone = (requests[j].alone /\ ~Rivals(i, j))
  BY EnteredRows
<1>2. /\ requests[i].step = "checked" /\ hits' = hits /\ intakeNow' = intakeNow
      /\ intakeNow \in Int
  <2>1. intakeNow \in Int
    BY DEF IntakeTypes
  <2> QED BY <2>1 DEF Enter
<1>3. Paired(l)'
  <2> SUFFICES ASSUME NEW j \in DOMAIN requests, NEW k \in DOMAIN requests,
                      requests'[j].limiter = l, Inside(requests'[j]), Rivals(j, k)',
                      requests'[j].alone
               PROVE  FALSE
    BY <1>1 DEF Paired
  <2>1. /\ j # k /\ Inside(requests'[k]) /\ requests[k].limiter = requests[j].limiter
        /\ requests[k].sent.client = requests[j].sent.client /\ requests[j].limiter = l
    BY <1>1 DEF Rivals
  <2>2. CASE j = i
    <3>1. Inside(requests[k])
      BY <1>1, <2>1, <2>2 DEF Inside
    <3>2. Rivals(i, k)
      BY <2>1, <2>2, <3>1 DEF Rivals
    <3> QED BY <1>1, <2>2, <3>2
  <2>3. CASE k = i
    <3>1. Inside(requests[j])
      BY <1>1, <2>1, <2>3 DEF Inside
    <3>2. Rivals(i, j)
      BY <2>1, <2>3, <3>1 DEF Rivals
    <3> QED BY <1>1, <2>1, <2>3, <3>2
  <2>4. CASE j # i /\ k # i
    <3>1. Inside(requests[j]) /\ Inside(requests[k]) /\ requests[j].alone
      BY <1>1, <2>1, <2>4 DEF Inside
    <3> QED BY <2>1, <3>1 DEF MemoryInv, Paired, Rivals
  <2> QED BY <2>2, <2>3, <2>4
<1>4. ASSUME NEW c, NEW t
      PROVE  Since(l, c, t)' = Since(l, c, t) /\ \A j \in Since(l, c, t) : Ats'[j] = Ats[j]
  <2>1. ASSUME NEW j \in DOMAIN requests, j # i, requests[j].step \in KeptSteps
        PROVE  requests'[j].alone = requests[j].alone
    <3>1. ~Rivals(i, j)
      BY <2>1 DEF Rivals, Inside, KeptSteps
    <3>2. requests[j].alone \in BOOLEAN
      BY RowsAre
    <3> QED BY <1>1, <2>1, <3>1, <3>2
  <2>2. ASSUME NEW j \in DOMAIN requests PROVE j \in Since(l, c, t)' <=> j \in Since(l, c, t)
    <3>1. CASE j = i
      BY <1>1, <1>2, <3>1 DEF Since, KeptSteps
    <3>2. CASE j # i
      BY <1>1, <2>1, <3>2 DEF Since
    <3> QED BY <3>1, <3>2
  <2>3. \A j \in Since(l, c, t) : j \in DOMAIN requests /\ j # i
    BY <1>2 DEF Since, KeptSteps
  <2>4. Since(l, c, t)' = Since(l, c, t)
    <3>1. Since(l, c, t)' \subseteq DOMAIN requests /\ Since(l, c, t) \subseteq DOMAIN requests
      BY <1>1 DEF Since
    <3> QED BY <2>2, <3>1
  <2> QED BY <1>1, <2>3, <2>4 DEF Ats
<1>5. ASSUME NEW c, NEW t, Remembers(Since(l, c, t), Ats, hits[l][c])
      PROVE  Remembers(Since(l, c, t), Ats, hits[l][c])'
  <2>1. PICK S, times, past : S = Since(l, c, t) /\ times = Ats /\ past = hits[l][c]
    OBVIOUS
  <2>2. PICK later : later = Ats'
    OBVIOUS
  <2>3. Remembers(S, later, past)
    BY <1>4, <1>5, <2>1, <2>2, FewerRemembered
  <2> QED BY <1>2, <1>4, <2>1, <2>2, <2>3 DEF Remembers
<1>6. Fresh(l)'
  <2>1. PICK start : start = intakeNow - Window
    OBVIOUS
  <2>2. \A c \in Reporters : Remembers(Since(l, c, start), Ats, hits[l][c])
    BY <2>1 DEF MemoryInv, Fresh
  <2>3. \A c \in Reporters : Remembers(Since(l, c, start), Ats, hits[l][c])'
    BY <1>5, <2>2
  <2> QED BY <1>2, <2>1, <2>3 DEF Fresh
<1>7. Entered(l)'
  <2> SUFFICES ASSUME NEW j \in DOMAIN requests, requests'[j].limiter = l,
                      requests'[j].step = "entered", requests'[j].alone
               PROVE  Remembers(Since(l, requests[j].sent.client, requests[j].at - Window), Ats,
                                hits[l][requests[j].sent.client])'
    BY <1>1 DEF Entered
  <2>1. PICK c, t : c = requests'[j].sent.client /\ t = requests'[j].at - Window
    OBVIOUS
  <2>2. c = requests[j].sent.client /\ c \in Reporters /\ requests[j].limiter = l
    BY <1>1, <2>1, RowsAre
  <2>3. Remembers(Since(l, c, t), Ats, hits[l][c])
    <3>1. CASE j = i
      BY <1>1, <2>1, <2>2, <3>1 DEF MemoryInv, Fresh
    <3>2. CASE j # i
      BY <1>1, <2>1, <2>2, <3>2 DEF MemoryInv, Entered
    <3> QED BY <3>1, <3>2
  <2>4. Remembers(Since(l, c, t), Ats, hits[l][c])'
    BY <1>5, <2>3
  <2> QED BY <2>1, <2>4
<1>8. ASSUME NEW c \in Reporters, NEW t \in Int
      PROVE  Cardinality(ThroughMemory(l, c, t)') <= Limit
  <2>1. PICK S, T : S = ThroughMemory(l, c, t) /\ T = ThroughMemory(l, c, t)'
    OBVIOUS
  <2>2. T \in SUBSET S /\ S \in SUBSET DOMAIN requests
    <3>1. ASSUME NEW j \in DOMAIN requests, j \in T PROVE j \in S
      <4>1. j # i
        BY <1>1, <2>1, <3>1 DEF ThroughMemory, LetThrough
      <4>2. /\ requests[j].limiter = l /\ requests[j].sent.client = c /\ requests[j].alone
            /\ requests[j].at \in (t - Window)..t /\ requests'[j].step = requests[j].step
        BY <1>1, <2>1, <3>1, <4>1 DEF ThroughMemory
      <4>3. LetThrough(requests[j])
        BY <2>1, <3>1, <4>2 DEF ThroughMemory, LetThrough
      <4> QED BY <2>1, <4>2, <4>3 DEF ThroughMemory
    <3>2. T \subseteq DOMAIN requests /\ S \subseteq DOMAIN requests
      BY <1>1, <2>1 DEF ThroughMemory
    <3> QED BY <3>1, <3>2
  <2>3. IsFiniteSet(S) /\ Cardinality(S) \in Nat
    BY <2>2, RequestsAreFew
  <2>4. IsFiniteSet(T) /\ Cardinality(T) <= Cardinality(S) /\ Cardinality(T) \in Nat
    BY <2>2, <2>3, FS_Subset, FS_CardinalityType
  <2>5. Cardinality(S) <= Limit
    BY <2>1 DEF MemoryInv, Bounded
  <2> QED BY <2>1, <2>3, <2>4, <2>5, WindowsAssumption
<1>9. Bounded(l)'
  BY <1>8 DEF Bounded
<1> QED BY <1>3, <1>6, <1>7, <1>9 DEF MemoryInv

\* A limiter nobody is on has let nobody through: the first one, ...
LEMMA NothingIsRemembered == ASSUME NEW times, NEW past PROVE Remembers({}, times, past)
<1>1. PICK place : place = [j \in {} |-> 0]
  OBVIOUS
<1>2. place \in [{} -> DOMAIN past]
  BY <1>1
<1> QED BY <1>2 DEF Remembers

LEMMA FirstIsMade ==
    ASSUME DOMAIN requests = {}, NEW l
    PROVE  MemoryInv(l)
<1>1. \A c, t : Since(l, c, t) = {} /\ ThroughMemory(l, c, t) = {}
  BY DEF Since, ThroughMemory
<1>2. Cardinality({}) = 0 /\ 0 <= Limit
  BY FS_EmptySet, WindowsAssumption
<1>3. Paired(l) /\ Entered(l)
  BY DEF Paired, Entered
<1>4. Fresh(l)
  BY <1>1, NothingIsRemembered DEF Fresh
<1>5. Bounded(l)
  BY <1>1, <1>2 DEF Bounded
<1> QED BY <1>3, <1>4, <1>5 DEF MemoryInv

\* ... and the next one.
LEMMA NextIsMade ==
    ASSUME NEW l, \A i \in DOMAIN requests : requests[i].limiter # l, requests' = requests
    PROVE  MemoryInv(l)'
<1>1. \A c, t : Since(l, c, t)' = {} /\ ThroughMemory(l, c, t)' = {}
  BY DEF Since, ThroughMemory
<1>2. Cardinality({}) = 0 /\ 0 <= Limit
  BY FS_EmptySet, WindowsAssumption
<1>3. Paired(l)' /\ Entered(l)'
  BY DEF Paired, Entered
<1>4. Fresh(l)'
  <2> SUFFICES ASSUME NEW c \in Reporters
               PROVE  Remembers(Since(l, c, intakeNow - Window), Ats, hits[l][c])'
    BY DEF Fresh
  <2>1. PICK times, past : times = Ats' /\ past = hits'[l][c]
    OBVIOUS
  <2>2. Remembers({}, times, past)
    BY NothingIsRemembered
  <2>3. Since(l, c, intakeNow - Window)' = {}
    BY DEF Since
  <2> QED BY <2>1, <2>2, <2>3 DEF Remembers
<1>5. Bounded(l)'
  BY <1>1, <1>2 DEF Bounded
<1> QED BY <1>3, <1>4, <1>5 DEF MemoryInv

-----------------------------------------------------------------------------
\* Steps that let nobody through a limiter in Redis.
RedisQuiet ==
    /\ DOMAIN requests \subseteq DOMAIN requests'
    /\ \A j \in DOMAIN requests' \ DOMAIN requests : requests'[j].step = "checked"
    /\ \A l \in DOMAIN limiters : limiters'[l] = limiters[l]
    /\ \A j \in DOMAIN requests :
          /\ requests'[j].sent = requests[j].sent /\ requests'[j].limiter = requests[j].limiter
          /\ LetThrough(requests[j]) => requests'[j].at = requests[j].at
          /\ HasKind(requests[j], "redis") =>
                (LetThrough(requests'[j]) <=> LetThrough(requests[j]))

LEMMA RedisQuietKeeps ==
    ASSUME IntakeTypes, LimitTypes, NEW c \in Reporters, NEW b \in Buckets, RedisInv(c, b),
           RedisQuiet, counts'[c][b] \in Nat, counts[c][b] <= counts'[c][b]
    PROVE  RedisInv(c, b)'
<1>1. \A j \in DOMAIN requests : requests[j].limiter \in DOMAIN limiters
  BY DEF LimitTypes
<1>2. ASSUME NEW j PROVE j \in ThroughRedis(c, b)' <=> j \in ThroughRedis(c, b)
  <2>1. CASE j \in DOMAIN requests
    <3>1. /\ j \in DOMAIN requests' /\ requests'[j].sent = requests[j].sent
          /\ LetThrough(requests[j]) => requests'[j].at = requests[j].at
          /\ HasKind(requests[j], "redis")' <=> HasKind(requests[j], "redis")
          /\ HasKind(requests[j], "redis") =>
                (LetThrough(requests'[j]) <=> LetThrough(requests[j]))
      BY <1>1, <2>1 DEF RedisQuiet, HasKind
    <3> QED BY <2>1, <3>1 DEF ThroughRedis
  <2>2. CASE j \notin DOMAIN requests
    BY <2>2 DEF RedisQuiet, ThroughRedis, LetThrough
  <2> QED BY <2>1, <2>2
<1>3. ThroughRedis(c, b)' = ThroughRedis(c, b)
  BY <1>2
<1>4. PICK S, n, m : S = ThroughRedis(c, b) /\ n = counts[c][b] /\ m = counts'[c][b]
  OBVIOUS
<1>5. Cardinality(S) \in Nat /\ n \in Nat /\ m \in Nat /\ n <= m
  <2>1. S \in SUBSET DOMAIN requests
    BY <1>4 DEF ThroughRedis
  <2>2. n \in Nat
    BY <1>4 DEF LimitTypes
  <2> QED BY <1>4, <2>1, <2>2, RequestsAreFew
<1>6. Cardinality(S) <= m /\ Cardinality(S) <= Limit
  BY <1>4, <1>5 DEF RedisInv
<1> QED BY <1>3, <1>4, <1>6 DEF RedisInv

LEMMA BucketsAre ==
    ASSUME IntakeTypes, NEW t \in 0..intakeNow
    PROVE  Bucket(t) \in Buckets
<1>1. intakeNow \in 0..IntakeClock /\ IntakeClock \in Nat /\ Window \in Nat \ {0}
  BY IntakeAssumption, WindowsAssumption DEF IntakeTypes
<1> QED BY <1>1 DEF Bucket, Buckets

\* INCR, whoever answers first.
LEMMA IncrKeeps ==
    ASSUME IntakeTypes, LimitTypes, NEW i \in DOMAIN requests, Incr(i)
    PROVE  /\ counts' \in [Reporters -> [Buckets -> Nat]]
           /\ \A c \in Reporters, b \in Buckets : RedisInv(c, b) => RedisInv(c, b)'
<1>1. PICK d, e : d = requests[i].sent.client /\ e = Bucket(requests[i].at)
  OBVIOUS
<1>2. d \in Reporters /\ e \in Buckets
  <2>1. requests[i].at \in Int /\ requests[i].at <= intakeNow /\ requests[i].at >= 0
    BY RowsAre DEF LimitTypes, Incr
  <2>2. requests[i].at \in 0..intakeNow
    BY <2>1 DEF IntakeTypes
  <2> QED BY <1>1, <2>2, RowsAre, BucketsAre
<1>3. /\ requests[i].step = "entered" /\ HasKind(requests[i], "redis")
      /\ counts' = [counts EXCEPT ![d][e] = @ + 1] /\ limiters' = limiters
  BY <1>1 DEF Incr
<1>4. PICK step \in {"admitted", "limited"} :
          /\ step = "admitted" => counts[d][e] < Limit
          /\ Moved(i, step)
  BY <1>1 DEF Incr
<1>5. /\ DOMAIN requests' = DOMAIN requests /\ requests'[i].step = step
      /\ \A j \in DOMAIN requests :
           /\ requests'[j].sent = requests[j].sent /\ requests'[j].limiter = requests[j].limiter
           /\ requests'[j].at = requests[j].at
           /\ j # i => requests'[j].step = requests[j].step
  BY <1>4, MovedStays DEF Steps, KeptSteps
<1>6. /\ counts \in [Reporters -> [Buckets -> Nat]] /\ counts[d] \in [Buckets -> Nat]
      /\ counts[d][e] \in Nat
  BY <1>2 DEF LimitTypes
<1>7. PICK row : row = [counts[d] EXCEPT ![e] = counts[d][e] + 1]
  OBVIOUS
<1>8. row \in [Buckets -> Nat] /\ counts' = [counts EXCEPT ![d] = row]
  <2>1. counts[d][e] + 1 \in Nat
    BY <1>6
  <2>2. row \in [Buckets -> Nat]
    BY <1>6, <1>7, <2>1
  <2>3. counts' = [counts EXCEPT ![d] = row]
    BY <1>3, <1>7
  <2> QED BY <2>2, <2>3
<1>9. counts' \in [Reporters -> [Buckets -> Nat]]
  BY <1>6, <1>8
<1>10. /\ counts'[d][e] = counts[d][e] + 1
       /\ \A c \in Reporters, b \in Buckets :
             c # d \/ b # e => counts'[c][b] = counts[c][b]
  <2>1. counts'[d] = row /\ \A c \in Reporters : c # d => counts'[c] = counts[c]
    BY <1>2, <1>6, <1>8
  <2>2. row[e] = counts[d][e] + 1 /\ \A b \in Buckets : b # e => row[b] = counts[d][b]
    BY <1>2, <1>6, <1>7
  <2> QED BY <2>1, <2>2
<1>11. ASSUME NEW c \in Reporters, NEW b \in Buckets, RedisInv(c, b)
       PROVE  RedisInv(c, b)'
  <2>1. PICK S, n : S = ThroughRedis(c, b) /\ n = counts[c][b]
    OBVIOUS
  <2>2. /\ n \in Nat /\ IsFiniteSet(S) /\ Cardinality(S) \in Nat
        /\ Cardinality(S) <= n /\ Cardinality(S) <= Limit
    <3>1. S \in SUBSET DOMAIN requests
      BY <2>1 DEF ThroughRedis
    <3>2. Cardinality(S) <= n /\ Cardinality(S) <= Limit
      BY <1>11, <2>1 DEF RedisInv
    <3>3. n \in Nat
      BY <1>6, <2>1
    <3> QED BY <3>1, <3>2, <3>3, RequestsAreFew
  <2>3. ~LetThrough(requests[i]) /\ i \notin S
    BY <1>3, <2>1 DEF LetThrough, ThroughRedis
  <2>4. \A j \in DOMAIN requests : j # i => (j \in ThroughRedis(c, b)' <=> j \in S)
    BY <1>3, <1>5, <2>1 DEF ThroughRedis, LetThrough, HasKind
  <2>5. ThroughRedis(c, b)' \subseteq DOMAIN requests /\ S \subseteq DOMAIN requests
    BY <1>5, <2>1 DEF ThroughRedis
  <2>6. counts'[c][b] \in {n, n + 1}
    BY <1>10, <2>1
  <2>7. CASE i \notin ThroughRedis(c, b)'
    <3>1. ThroughRedis(c, b)' = S
      BY <2>3, <2>4, <2>5, <2>7
    <3>2. Cardinality(S) <= counts'[c][b]
      BY <2>2, <2>6
    <3> QED BY <2>2, <3>1, <3>2 DEF RedisInv
  <2>8. CASE i \in ThroughRedis(c, b)'
    <3>1. ThroughRedis(c, b)' = S \cup {i}
      BY <2>3, <2>4, <2>5, <2>8
    <3>2. c = d /\ b = e
      BY <1>1, <1>5, <2>8 DEF ThroughRedis
    <3>3. step = "admitted"
      BY <1>5, <2>8 DEF ThroughRedis, LetThrough
    <3>4. Cardinality(S \cup {i}) = Cardinality(S) + 1
      BY <2>2, <2>3, FS_AddElement
    <3>5. n < Limit /\ counts'[c][b] = n + 1
      BY <1>4, <1>10, <2>1, <3>2, <3>3
    <3>6. Cardinality(S) + 1 <= n + 1 /\ Cardinality(S) + 1 <= Limit
      BY <2>2, <3>5, WindowsAssumption
    <3> QED BY <3>1, <3>4, <3>5, <3>6 DEF RedisInv
  <2> QED BY <2>7, <2>8
<1> QED BY <1>9, <1>11

-----------------------------------------------------------------------------
\* Of the limiters, what every step keeps; the rest is the two invariants'.
LEMMA LimitTypesStay ==
    ASSUME IntakeTypes, LimitTypes, limiters' = limiters, intakeNow' \in Int, intakeNow <= intakeNow',
           hits' \in Seq([Reporters -> Seq(Int)]), DOMAIN hits' = DOMAIN hits,
           counts' \in [Reporters -> [Buckets -> Nat]],
           DOMAIN requests' = DOMAIN requests,
           \A j \in DOMAIN requests :
               /\ requests'[j].limiter = requests[j].limiter
               /\ \/ requests'[j].at = intakeNow
                  \/ /\ requests'[j].at = requests[j].at
                     /\ requests'[j].step # "checked" => requests[j].step # "checked"
    PROVE  LimitTypes'
<1>1. intakeNow \in Nat /\ \A j \in DOMAIN requests : requests[j].at \in Int
  BY RowsAre, IntakeAssumption DEF IntakeTypes
<1>2. ASSUME NEW j \in DOMAIN requests
      PROVE  /\ requests'[j].limiter \in DOMAIN limiters /\ requests'[j].at <= intakeNow'
             /\ requests'[j].step # "checked" => requests'[j].at >= 0
  <2>1. /\ requests[j].limiter \in DOMAIN limiters /\ requests[j].at <= intakeNow
        /\ requests[j].step # "checked" => requests[j].at >= 0
    BY DEF LimitTypes
  <2>2. requests[j].at \in Int /\ requests'[j].at \in {intakeNow, requests[j].at}
    BY <1>1
  <2>3. requests'[j].at <= intakeNow'
    BY <1>1, <2>1, <2>2
  <2>4. ASSUME requests'[j].step # "checked" PROVE requests'[j].at >= 0
    BY <1>1, <2>1, <2>4
  <2> QED BY <2>1, <2>3, <2>4
<1> QED BY <1>2 DEF LimitTypes

LEMMA CheckLimits ==
    ASSUME LimitInv, NEW s \in Submission, Check(s)
    PROVE  LimitTypes' /\ RedisQuiet /\ \A l \in DOMAIN limiters : Quiet(l)
<1>1. PICK own \in {FALSE, MayOwn}, l \in DOMAIN limiters :
          requests' = Append(requests, Checked(s, own, l))
  BY DEF Check
<1>2. /\ IntakeTypes /\ LimitTypes
      /\ UNCHANGED <<limiters, hits, counts, intakeNow>>
  BY DEF LimitInv, Check
<1>3. own \in BOOLEAN /\ l \in Nat /\ intakeNow \in Nat
  <2>1. limiters \in Seq(Backends)
    BY <1>2 DEF LimitTypes
  <2>2. intakeNow \in Nat
    BY <1>2, IntakeAssumption DEF IntakeTypes
  <2>3. own \in BOOLEAN
    BY IntakeAssumption
  <2>4. l \in Nat
    BY <2>1
  <2> QED BY <2>2, <2>3, <2>4
<1>4. PICK n, r : n = Len(requests) /\ r = Checked(s, own, l)
  OBVIOUS
<1>5. /\ n \in Nat /\ DOMAIN requests = 1..n /\ DOMAIN requests' = 1..(n + 1)
      /\ \A i \in 1..n : requests'[i] = requests[i]
      /\ requests'[n + 1] = r
  BY <1>1, <1>2, <1>3, <1>4, CheckedRow
<1>6. r.step = "checked" /\ r.limiter = l /\ r.at = -1
  BY <1>4 DEF Checked, Never
<1>7. LimitTypes'
  <2>1. ASSUME NEW i \in DOMAIN requests'
        PROVE  /\ requests'[i].limiter \in DOMAIN limiters /\ requests'[i].at <= intakeNow
               /\ requests'[i].step # "checked" => requests'[i].at >= 0
    <3>1. CASE i \in 1..n
      BY <1>2, <1>5, <3>1 DEF LimitTypes
    <3>2. CASE i = n + 1
      BY <1>3, <1>5, <1>6, <3>2
    <3> QED BY <1>5, <3>1, <3>2
  <2> QED BY <1>2, <2>1 DEF LimitTypes
<1>8. /\ DOMAIN requests \subseteq DOMAIN requests'
      /\ \A j \in DOMAIN requests' \ DOMAIN requests : requests'[j].step = "checked"
      /\ \A j \in DOMAIN requests : requests'[j] = requests[j]
  BY <1>5, <1>6
<1>9. RedisQuiet
  BY <1>2, <1>8 DEF RedisQuiet
<1>10. \A m \in DOMAIN limiters : Quiet(m)
  BY <1>8 DEF Quiet
<1> QED BY <1>7, <1>9, <1>10

\* A move that no limiter takes note of.
LEMMA QuietMoves ==
    ASSUME LimitInv, NEW i \in DOMAIN requests, NEW step \in Steps, Moved(i, step),
           \/ requests[i].step \in KeptSteps /\ step \in KeptSteps
           \/ requests[i].step = "entered" /\ step = "limited",
           UNCHANGED <<limiters, hits, counts, intakeNow>>
    PROVE  LimitTypes' /\ RedisQuiet /\ \A l \in DOMAIN limiters : Quiet(l)
<1>1. /\ DOMAIN requests' = DOMAIN requests /\ requests'[i].step = step
      /\ \A j \in DOMAIN requests :
           /\ requests'[j].sent = requests[j].sent /\ requests'[j].limiter = requests[j].limiter
           /\ requests'[j].at = requests[j].at /\ requests'[j].alone = requests[j].alone
           /\ j # i => requests'[j].step = requests[j].step
  BY MovedStays DEF LimitInv
<1>2. \A j \in DOMAIN requests :
         /\ requests'[j].step \in KeptSteps <=> requests[j].step \in KeptSteps
         /\ requests'[j].step = "counting" <=> requests[j].step = "counting"
         /\ requests'[j].step = "entered" => requests[j].step = "entered"
         /\ requests'[j].step # "checked" => requests[j].step # "checked"
  BY <1>1 DEF KeptSteps
<1>3. \A j \in DOMAIN requests : LetThrough(requests'[j]) <=> LetThrough(requests[j])
  BY <1>2 DEF LetThrough, KeptSteps
<1>4. RedisQuiet
  BY <1>1, <1>3 DEF RedisQuiet
<1>5. \A l \in DOMAIN limiters : Quiet(l)
  BY <1>1, <1>2 DEF Quiet
<1>6. LimitTypes'
  <2>1. /\ IntakeTypes /\ LimitTypes /\ intakeNow' \in Int /\ intakeNow <= intakeNow'
        /\ limiters' = limiters /\ hits' = hits /\ counts' = counts
    BY DEF LimitInv, IntakeTypes
  <2>2. hits' \in Seq([Reporters -> Seq(Int)]) /\ counts' \in [Reporters -> [Buckets -> Nat]]
    BY <2>1 DEF LimitTypes
  <2> QED BY <1>1, <1>2, <2>1, <2>2, LimitTypesStay
<1> QED BY <1>4, <1>5, <1>6

LEMMA MarkLimits ==
    ASSUME LimitInv, NEW i \in DOMAIN requests, Mark(i)
    PROVE  LimitTypes' /\ RedisQuiet /\ \A l \in DOMAIN limiters : Quiet(l)
<1>1. /\ IntakeTypes /\ LimitTypes /\ requests[i].step = "inserted"
      /\ UNCHANGED <<limiters, hits, counts, intakeNow>>
  BY DEF LimitInv, Mark, Marking
<1>2. /\ DOMAIN requests' = DOMAIN requests /\ requests'[i].step = "stored"
      /\ \A j \in DOMAIN requests :
           /\ requests'[j].sent = requests[j].sent /\ requests'[j].limiter = requests[j].limiter
           /\ requests'[j].at = requests[j].at /\ requests'[j].alone = requests[j].alone
           /\ j # i => requests'[j].step = requests[j].step
  BY <1>1, MarkedRow
<1>3. \A j \in DOMAIN requests :
         /\ requests'[j].step \in KeptSteps <=> requests[j].step \in KeptSteps
         /\ requests'[j].step = "counting" <=> requests[j].step = "counting"
         /\ requests'[j].step = "entered" => requests[j].step = "entered"
         /\ requests'[j].step # "checked" => requests[j].step # "checked"
         /\ LetThrough(requests'[j]) <=> LetThrough(requests[j])
  BY <1>1, <1>2 DEF KeptSteps, LetThrough
<1>4. RedisQuiet
  BY <1>1, <1>2, <1>3 DEF RedisQuiet
<1>5. \A l \in DOMAIN limiters : Quiet(l)
  BY <1>2, <1>3 DEF Quiet
<1>6. LimitTypes'
  <2>1. intakeNow' \in Int /\ intakeNow <= intakeNow' /\ limiters' = limiters
    BY <1>1 DEF IntakeTypes
  <2>2. /\ hits' \in Seq([Reporters -> Seq(Int)]) /\ DOMAIN hits' = DOMAIN hits
        /\ counts' \in [Reporters -> [Buckets -> Nat]]
    BY <1>1 DEF LimitTypes
  <2> QED BY <1>1, <1>2, <1>3, <2>1, <2>2, LimitTypesStay
<1> QED BY <1>4, <1>5, <1>6

\* What is quiet keeps the invariant.
LEMMA QuietInv ==
    ASSUME LimitInv, IntakeTypes', LimitTypes', RedisQuiet, \A l \in DOMAIN limiters : Quiet(l),
           UNCHANGED <<limiters, hits, counts>>, intakeNow <= intakeNow'
    PROVE  LimitInv'
<1>1. IntakeTypes /\ LimitTypes /\ intakeNow' \in Int
  BY DEF LimitInv, IntakeTypes
<1>2. ASSUME NEW l \in DOMAIN limiters, limiters[l] = "memory" PROVE MemoryInv(l)'
  <2>1. MemoryInv(l) /\ Quiet(l)
    BY <1>2 DEF LimitInv
  <2> QED BY <1>1, <2>1, QuietKeeps
<1>3. ASSUME NEW c \in Reporters, NEW b \in Buckets PROVE RedisInv(c, b)'
  <2>1. RedisInv(c, b) /\ counts[c][b] \in Nat
    BY <1>1 DEF LimitInv, LimitTypes
  <2>2. counts'[c][b] \in Nat /\ counts[c][b] <= counts'[c][b]
    BY <2>1
  <2> QED BY <1>1, <2>1, <2>2, RedisQuietKeeps
<1> QED BY <1>2, <1>3 DEF LimitInv

\* The steps of allow, each with what it does to either kind of limiter.
LEMMA AllowInv ==
    ASSUME LimitInv, IntakeTypes', NEW i \in DOMAIN requests,
           Enter(i) \/ DropHit(i) \/ CountHits(i) \/ AppendHit(i) \/ Incr(i) \/ IncrFails(i)
    PROVE  LimitInv'
<1>1. /\ IntakeTypes /\ LimitTypes /\ intakeNow \in Int /\ intakeNow' = intakeNow
      /\ limiters' = limiters
  <2>1. IntakeTypes /\ LimitTypes /\ intakeNow \in Int
    BY DEF LimitInv, IntakeTypes
  <2> QED BY <2>1 DEF Enter, DropHit, CountHits, AppendHit, Incr, IncrFails
<1>2. intakeNow' \in Int /\ intakeNow <= intakeNow'
  BY <1>1
<1>3. hits \in Seq([Reporters -> Seq(Int)]) /\ counts \in [Reporters -> [Buckets -> Nat]]
  BY <1>1 DEF LimitTypes
<1>4. \A l \in DOMAIN limiters : limiters[l] = "memory" => MemoryInv(l)
  BY DEF LimitInv
<1>5. ASSUME counts' = counts, RedisQuiet, NEW c \in Reporters, NEW b \in Buckets
      PROVE  RedisInv(c, b)'
  <2>1. RedisInv(c, b) /\ counts[c][b] \in Nat
    BY <1>3 DEF LimitInv
  <2>2. counts'[c][b] \in Nat /\ counts[c][b] <= counts'[c][b]
    BY <1>5, <2>1
  <2> QED BY <1>1, <1>5, <2>1, <2>2, RedisQuietKeeps
<1>6. CASE Enter(i)
  <2>1. /\ requests[i].step = "checked" /\ hits' = hits /\ counts' = counts
    BY <1>6 DEF Enter
  <2>2. /\ DOMAIN requests' = DOMAIN requests
        /\ requests'[i].step = "entered" /\ requests'[i].at = intakeNow
        /\ \A j \in DOMAIN requests :
             /\ requests'[j].sent = requests[j].sent /\ requests'[j].limiter = requests[j].limiter
             /\ j # i => /\ requests'[j].step = requests[j].step
                         /\ requests'[j].at = requests[j].at
    BY <1>1, <1>6, EnteredRows
  <2>3. LimitTypes'
    BY <1>1, <1>2, <1>3, <2>1, <2>2, LimitTypesStay
  <2>4. RedisQuiet
    BY <1>1, <2>1, <2>2 DEF RedisQuiet, LetThrough
  <2>5. \A l \in DOMAIN limiters : limiters[l] = "memory" => MemoryInv(l)'
    BY <1>1, <1>4, <1>6, EnterKeeps
  <2> QED BY <1>1, <1>5, <2>1, <2>3, <2>4, <2>5 DEF LimitInv
<1>7. CASE DropHit(i)
  <2>1. requests' = requests /\ counts' = counts
    BY <1>7 DEF DropHit
  <2>2. i \in DOMAIN requests /\ requests[i].limiter \in DOMAIN limiters
        /\ limiters[requests[i].limiter] = "memory"
    BY <1>1, <1>7 DEF LimitTypes, DropHit, HasKind
  <2>3. \A l \in DOMAIN limiters : limiters[l] = "memory" => MemoryInv(l)'
    BY <1>1, <1>4, <1>7, DropKeeps
  <2>4. hits' \in Seq([Reporters -> Seq(Int)]) /\ DOMAIN hits' = DOMAIN hits
    BY <1>1, <1>4, <1>7, <2>2, DropKeeps
  <2>5. LimitTypes'
    BY <1>1, <1>2, <1>3, <2>1, <2>4, LimitTypesStay
  <2>6. RedisQuiet
    BY <1>1, <2>1 DEF RedisQuiet
  <2> QED BY <1>1, <1>5, <2>1, <2>3, <2>5, <2>6 DEF LimitInv
<1>8. CASE CountHits(i)
  <2>1. /\ requests[i].step = "entered" /\ hits' = hits /\ counts' = counts
        /\ HasKind(requests[i], "memory")
        /\ \/ Moved(i, "counting") /\ Len(HitsOf(requests[i])) < Limit
           \/ Moved(i, "limited")
    BY <1>8 DEF CountHits
  <2>2. CASE Moved(i, "limited")
    <3>1. LimitTypes' /\ RedisQuiet /\ \A l \in DOMAIN limiters : Quiet(l)
      BY <1>1, <2>1, <2>2, QuietMoves DEF Steps
    <3> QED BY <1>1, <1>2, <2>1, <3>1, QuietInv
  <2>3. CASE Moved(i, "counting") /\ Len(HitsOf(requests[i])) < Limit
    <3>1. /\ DOMAIN requests' = DOMAIN requests /\ requests'[i].step = "counting"
          /\ \A j \in DOMAIN requests :
               /\ requests'[j].sent = requests[j].sent
               /\ requests'[j].limiter = requests[j].limiter
               /\ requests'[j].at = requests[j].at
               /\ j # i => requests'[j].step = requests[j].step
      BY <1>1, <2>3, MovedStays DEF Steps
    <3>2. LimitTypes'
      BY <1>1, <1>2, <1>3, <2>1, <3>1, LimitTypesStay
    <3>3. ~HasKind(requests[i], "redis")
      BY <2>1 DEF HasKind
    <3>4. RedisQuiet
      BY <1>1, <3>1, <3>3 DEF RedisQuiet, LetThrough
    <3>5. \A l \in DOMAIN limiters : limiters[l] = "memory" => MemoryInv(l)'
      BY <1>1, <1>4, <1>8, <2>3, CountKeeps
    <3> QED BY <1>1, <1>5, <2>1, <3>2, <3>4, <3>5 DEF LimitInv
  <2> QED BY <2>1, <2>2, <2>3
<1>9. CASE AppendHit(i)
  <2>1. requests[i].step = "counting" /\ Moved(i, "admitted") /\ counts' = counts
    BY <1>9 DEF AppendHit
  <2>2. /\ DOMAIN requests' = DOMAIN requests /\ requests'[i].step = "admitted"
        /\ \A j \in DOMAIN requests :
             /\ requests'[j].sent = requests[j].sent /\ requests'[j].limiter = requests[j].limiter
             /\ requests'[j].at = requests[j].at
             /\ j # i => requests'[j].step = requests[j].step
    BY <1>1, <2>1, MovedStays DEF Steps, KeptSteps
  <2>3. RedisQuiet
    BY <1>1, <2>1, <2>2 DEF RedisQuiet, LetThrough
  <2>4. \A l \in DOMAIN limiters : limiters[l] = "memory" => MemoryInv(l)'
    BY <1>1, <1>4, <1>9, AppendKeeps
  <2>7. hits' \in Seq([Reporters -> Seq(Int)]) /\ DOMAIN hits' = DOMAIN hits
    BY <1>1, <1>9, AppendedHits
  <2>6. LimitTypes'
    BY <1>1, <1>2, <1>3, <2>1, <2>2, <2>7, LimitTypesStay
  <2> QED BY <1>1, <1>5, <2>1, <2>3, <2>4, <2>6 DEF LimitInv
<1>10. CASE Incr(i)
  <2>1. /\ requests[i].step = "entered" /\ HasKind(requests[i], "redis") /\ hits' = hits
        /\ \E step \in {"admitted", "limited"} : Moved(i, step)
    BY <1>10 DEF Incr
  <2>2. PICK step \in {"admitted", "limited"} : Moved(i, step)
    BY <2>1
  <2>3. /\ DOMAIN requests' = DOMAIN requests /\ requests'[i].step = step
        /\ \A j \in DOMAIN requests :
             /\ requests'[j].sent = requests[j].sent /\ requests'[j].limiter = requests[j].limiter
             /\ requests'[j].at = requests[j].at /\ requests'[j].alone = requests[j].alone
             /\ j # i => requests'[j].step = requests[j].step
    BY <1>1, <2>2, MovedStays DEF Steps, KeptSteps
  <2>4. /\ counts' \in [Reporters -> [Buckets -> Nat]]
        /\ \A c \in Reporters, b \in Buckets : RedisInv(c, b) => RedisInv(c, b)'
    BY <1>1, <1>10, IncrKeeps
  <2>5. LimitTypes'
    BY <1>1, <1>2, <1>3, <2>1, <2>3, <2>4, LimitTypesStay
  <2>6. ASSUME NEW l \in DOMAIN limiters, limiters[l] = "memory" PROVE MemoryInv(l)'
    <3>1. requests[i].limiter # l
      BY <2>1, <2>6 DEF HasKind
    <3>2. Quiet(l)
      BY <2>3, <3>1 DEF Quiet
    <3> QED BY <1>1, <1>2, <1>4, <2>1, <2>6, <3>2, QuietKeeps
  <2>7. \A c \in Reporters, b \in Buckets : RedisInv(c, b)
    BY DEF LimitInv
  <2> QED BY <1>1, <2>4, <2>5, <2>6, <2>7 DEF LimitInv
<1>11. CASE IncrFails(i)
  <2>1. /\ requests[i].step = "entered" /\ Moved(i, "limited")
        /\ UNCHANGED <<limiters, hits, counts, intakeNow>>
    BY <1>11 DEF IncrFails
  <2>2. LimitTypes' /\ RedisQuiet /\ \A l \in DOMAIN limiters : Quiet(l)
    BY <2>1, QuietMoves DEF Steps
  <2> QED BY <1>2, <2>1, <2>2, QuietInv
<1> QED BY <1>6, <1>7, <1>8, <1>9, <1>10, <1>11

LEMMA EvictInv ==
    ASSUME LimitInv, IntakeTypes', Evict
    PROVE  LimitInv'
<1>1. PICK kind \in Backends : limiters' = Append(limiters, kind)
  BY DEF Evict
<1>2. PICK n, none : n = Len(limiters) /\ none = [c \in Reporters |-> <<>>]
  OBVIOUS
<1>3. /\ IntakeTypes /\ LimitTypes /\ hits' = Append(hits, none)
      /\ UNCHANGED <<requests, counts, intakeNow>> /\ intakeNow \in Int
  <2>1. IntakeTypes /\ LimitTypes /\ intakeNow \in Int
    BY DEF LimitInv, IntakeTypes
  <2> QED BY <1>2, <2>1 DEF Evict
<1>4. none \in [Reporters -> Seq(Int)]
  BY <1>2
<1>5. /\ n \in Nat /\ DOMAIN limiters = 1..n /\ DOMAIN limiters' = 1..(n + 1)
      /\ limiters' \in Seq(Backends) /\ \A l \in 1..n : limiters'[l] = limiters[l]
  BY <1>1, <1>2, <1>3, AppendProperties DEF LimitTypes
<1>6. /\ DOMAIN hits = 1..n /\ DOMAIN hits' = 1..(n + 1)
      /\ hits' \in Seq([Reporters -> Seq(Int)]) /\ \A l \in 1..n : hits'[l] = hits[l]
  <2>1. hits \in Seq([Reporters -> Seq(Int)]) /\ DOMAIN hits = 1..n
    BY <1>3, <1>5 DEF LimitTypes
  <2>2. Len(hits) = n
    BY <1>5, <2>1, LenProperties
  <2> QED BY <1>3, <1>4, <2>1, <2>2, AppendProperties
<1>7. LimitTypes'
  <2>1. \A i \in DOMAIN requests : requests[i].limiter \in 1..(n + 1)
    BY <1>3, <1>5 DEF LimitTypes
  <2> QED BY <1>3, <1>5, <1>6, <2>1 DEF LimitTypes
<1>8. ASSUME NEW l \in 1..(n + 1), limiters'[l] = "memory" PROVE MemoryInv(l)'
  <2>1. CASE l \in 1..n
    <3>1. MemoryInv(l) /\ hits'[l] = hits[l]
      BY <1>5, <1>6, <1>8, <2>1 DEF LimitInv
    <3>2. Quiet(l)
      BY <1>3 DEF Quiet
    <3>3. intakeNow' \in Int /\ intakeNow <= intakeNow'
      BY <1>3
    <3> QED BY <1>3, <3>1, <3>2, <3>3, QuietKeeps
  <2>2. CASE l = n + 1
    <3>1. \A i \in DOMAIN requests : requests[i].limiter \in 1..n
      BY <1>3, <1>5 DEF LimitTypes
    <3>2. \A i \in DOMAIN requests : requests[i].limiter # l
      BY <1>5, <2>2, <3>1
    <3> QED BY <1>3, <3>2, NextIsMade
  <2> QED BY <1>5, <2>1, <2>2
<1>9. RedisQuiet
  BY <1>3, <1>5 DEF RedisQuiet
<1>10. ASSUME NEW c \in Reporters, NEW b \in Buckets PROVE RedisInv(c, b)'
  <2>1. RedisInv(c, b) /\ counts[c][b] \in Nat
    BY <1>3 DEF LimitInv, LimitTypes
  <2>2. counts'[c][b] \in Nat /\ counts[c][b] <= counts'[c][b]
    BY <1>3, <2>1
  <2> QED BY <1>3, <1>9, <2>1, <2>2, RedisQuietKeeps
<1> QED BY <1>5, <1>7, <1>8, <1>10 DEF LimitInv

LEMMA LimitInductive ==
    /\ IntakeInit => LimitInv
    /\ LimitInv /\ IntakeTypes' /\ [IntakeNext]_intakeVars => LimitInv'
<1>1. ASSUME IntakeInit PROVE LimitInv
  <2>1. /\ requests \in Seq(Request) /\ DOMAIN requests = {} /\ 0 \in 0..IntakeClock
    BY <1>1, IntakeAssumption DEF IntakeInit
  <2>2. IntakeTypes
    BY <1>1, <2>1 DEF IntakeInit, IntakeTypes, Never
  <2>3. LimitTypes
    <3>1. limiters \in Seq(Backends) /\ DOMAIN limiters = {1}
      BY <1>1 DEF IntakeInit
    <3>2. PICK none : none = [c \in Reporters |-> <<>>]
      OBVIOUS
    <3>3. none \in [Reporters -> Seq(Int)] /\ hits = <<none>>
      BY <1>1, <3>2 DEF IntakeInit
    <3>4. hits \in Seq([Reporters -> Seq(Int)]) /\ DOMAIN hits = {1}
      BY <3>3
    <3>5. counts \in [Reporters -> [Buckets -> Nat]]
      BY <1>1 DEF IntakeInit
    <3> QED BY <2>1, <3>1, <3>4, <3>5 DEF LimitTypes
  <2>4. \A l : MemoryInv(l)
    BY <2>1, FirstIsMade
  <2>5. ASSUME NEW c \in Reporters, NEW b \in Buckets PROVE RedisInv(c, b)
    <3>1. ThroughRedis(c, b) = {}
      BY <2>1 DEF ThroughRedis
    <3>2. counts[c][b] = 0 /\ Cardinality({}) = 0 /\ 0 <= Limit
      BY <1>1, FS_EmptySet, WindowsAssumption DEF IntakeInit
    <3> QED BY <3>1, <3>2 DEF RedisInv
  <2> QED BY <2>2, <2>3, <2>4, <2>5 DEF LimitInv
<1>2. ASSUME LimitInv, IntakeTypes', [IntakeNext]_intakeVars PROVE LimitInv'
  <2>1. IntakeTypes /\ LimitTypes /\ intakeNow \in Int
    BY <1>2 DEF LimitInv, IntakeTypes
  <2>2. ASSUME UNCHANGED <<limiters, requests, hits, counts>>, intakeNow <= intakeNow',
               intakeNow' \in Int
        PROVE  LimitInv'
    <3>1. RedisQuiet /\ \A l \in DOMAIN limiters : Quiet(l)
      BY <2>2 DEF RedisQuiet, Quiet
    <3>2. hits' \in Seq([Reporters -> Seq(Int)]) /\ counts' \in [Reporters -> [Buckets -> Nat]]
      BY <2>1, <2>2 DEF LimitTypes
    <3>3. LimitTypes'
      BY <2>1, <2>2, <3>2, LimitTypesStay
    <3> QED BY <1>2, <2>2, <3>1, <3>3, QuietInv
  <2>3. CASE IntakeTick
    BY <2>1, <2>2, <2>3 DEF IntakeTick
  <2>4. CASE UNCHANGED intakeVars
    BY <2>1, <2>2, <2>4 DEF intakeVars
  <2>5. ASSUME NEW s \in Submission, Check(s) PROVE LimitInv'
    <3>1. LimitTypes' /\ RedisQuiet /\ \A l \in DOMAIN limiters : Quiet(l)
      BY <1>2, <2>5, CheckLimits
    <3>2. UNCHANGED <<limiters, hits, counts, intakeNow>> /\ intakeNow <= intakeNow'
      BY <2>1, <2>5 DEF Check
    <3> QED BY <1>2, <3>1, <3>2, QuietInv
  <2>6. ASSUME NEW i \in DOMAIN requests, Insert(i) \/ MarkFails(i) PROVE LimitInv'
    <3>1. /\ UNCHANGED <<limiters, hits, counts, intakeNow>>
          /\ requests[i].step \in KeptSteps /\ \E step \in KeptSteps : Moved(i, step)
      BY <2>6 DEF Insert, MarkFails, KeptSteps
    <3>2. LimitTypes' /\ RedisQuiet /\ \A l \in DOMAIN limiters : Quiet(l)
      BY <1>2, <3>1, QuietMoves DEF Steps
    <3>3. intakeNow <= intakeNow'
      BY <2>1, <3>1
    <3> QED BY <1>2, <3>1, <3>2, <3>3, QuietInv
  <2>7. ASSUME NEW i \in DOMAIN requests, Mark(i) PROVE LimitInv'
    <3>1. LimitTypes' /\ RedisQuiet /\ \A l \in DOMAIN limiters : Quiet(l)
      BY <1>2, <2>7, MarkLimits
    <3>2. UNCHANGED <<limiters, hits, counts, intakeNow>> /\ intakeNow <= intakeNow'
      BY <2>1, <2>7 DEF Mark, Marking
    <3> QED BY <1>2, <3>1, <3>2, QuietInv
  <2>8. ASSUME NEW i \in DOMAIN requests,
               Enter(i) \/ DropHit(i) \/ CountHits(i) \/ AppendHit(i) \/ Incr(i) \/ IncrFails(i)
        PROVE  LimitInv'
    BY <1>2, <2>8, AllowInv
  <2>9. CASE Evict
    BY <1>2, <2>9, EvictInv
  <2> QED BY <1>2, <2>3, <2>4, <2>5, <2>6, <2>7, <2>8, <2>9 DEF IntakeNext
<1> QED BY <1>1, <1>2

\* However the steps of the handlers interleave, in the middle of allow too, whatever is
\* refused and however often the cache drops the limiter and finds another backend: calls
\* alone on a memory limiter never let more through than the limit in any window, and all
\* the Redis limiters together never do in an aligned window (reports/limiter.py).
THEOREM LimitAlwaysHolds == IntakeSpec => []LimitHolds
<1>1. ASSUME LimitInv PROVE LimitHolds
  <2>1. \A l \in DOMAIN limiters, c \in Reporters, t \in 0..intakeNow :
            limiters[l] = "memory" => Cardinality(ThroughMemory(l, c, t)) <= Limit
    BY <1>1 DEF LimitInv, MemoryInv, Bounded
  <2>2. \A c \in Reporters, b \in Buckets : Cardinality(ThroughRedis(c, b)) <= Limit
    BY <1>1 DEF LimitInv, RedisInv
  <2> QED BY <2>1, <2>2 DEF LimitHolds
<1>2. IntakeInv => IntakeTypes
  BY DEF IntakeInv
<1> QED BY <1>1, <1>2, LimitersAreMade, IntakeInductive, LimitInductive, PTL DEF IntakeSpec
=============================================================================
