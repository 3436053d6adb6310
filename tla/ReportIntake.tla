---------------------------- MODULE ReportIntake ----------------------------
(***************************************************************************)
(* Receiving reports: create_report and create_quick_report of             *)
(* api/reports.py over the duplicate detector (reports/spam.py) and the    *)
(* rate limiter (reports/limiter.py), each in memory or in Redis.  The     *)
(* handlers run on pool threads and nothing is locked: a request asks the  *)
(* detector, then the limiter, then inserts and then marks, and others run *)
(* in between, in the middle of MemoryRateLimiter.allow too.               *)
(***************************************************************************)
EXTENDS Integers, Sequences, FiniteSets

CONSTANTS
    Reporters,   \* client hashes
    Submission,  \* the reports that clients send
    MayOwn,      \* whether requests come while the first detector is being made
    Limit,       \* reports allowed per window
    Window,      \* the limiter's window
    DupWindow,   \* report_duplicate_window_s
    MaxReports,  \* bound on the requests that the detector lets pass
    MaxEvicted,  \* bound on how often the limiter falls out of its cache
    IntakeClock  \* bound on the clock

ASSUME WindowsAssumption == {Limit, Window, DupWindow} \subseteq Nat \ {0}
ASSUME IntakeAssumption ==
    /\ Submission \subseteq [client : Reporters, form : {"full", "quick"}, text : {"plain", "personal"}]
    /\ MayOwn \in BOOLEAN
    /\ {MaxReports, MaxEvicted, IntakeClock} \subseteq Nat

VARIABLES
    detector,   \* "memory" or "redis": what the process found when it made the detector
    limiters,   \* the kinds of the limiters made so far; the last one is in the cache
    requests,   \* the requests that the detector let pass, in that order
    seen,       \* by key: when it was last marked
    hits,       \* by limiter and client: the times a memory limiter remembers
    counts,     \* by client and aligned window: Redis's counter, one for all limiters
    intakeNow

intakeVars == <<detector, limiters, requests, seen, hits, counts, intakeNow>>

-----------------------------------------------------------------------------
Backends == {"memory", "redis"}

\* What a report says (segment, category and words): redact_description removes
\* something of a "personal" one, and nothing of a "plain" one.
Redacted(text) == IF text = "personal" THEN "masked" ELSE text

\* The full form keys the redacted text, the quick form the text as it came.
KeyOf(s) == <<s.client, IF s.form = "full" THEN Redacted(s.text) ELSE s.text>>
Keys == Reporters \X {"plain", "personal", "masked"}
Never == -1

\* The memory detector still knows a key when the window ends; SET ... EX has dropped it.
IsDuplicate(key) ==
    /\ seen[key] # Never
    /\ IF detector = "memory"
       THEN intakeNow - seen[key] <= DupWindow
       ELSE intakeNow - seen[key] < DupWindow

Bucket(t) == t \div Window
Buckets == 0..Bucket(IntakeClock)

\* checked, at, marked: when the detector, the limiter and the mark read the clock;
\* passed: how many requests had passed the detector at the mark; alone: no other call
\* of allow of the same client on the same limiter has overlapped this one.
Checked(s, own, l) ==
    [sent |-> s, own |-> own, limiter |-> l, step |-> "checked", checked |-> intakeNow,
     at |-> Never, marked |-> Never, passed |-> 0, alone |-> TRUE]

-----------------------------------------------------------------------------
\* Up to the detector, whose two readings, of the mark and of the clock, fall in one
\* instant (a stall between them moves the window by its length).  A duplicate is
\* refused and counts nowhere (409).  Depends has resolved detector and limiter some
\* time before: the limiter may be one that the cache has dropped since, and whoever
\* came while the first detector was being made has one of its own, in memory, that
\* knows of nobody (lru_cache locks no call).
Check(s) ==
    /\ Len(requests) < MaxReports
    /\ \E own \in {FALSE, MayOwn}, l \in DOMAIN limiters :
        /\ own \/ ~IsDuplicate(KeyOf(s))
        /\ requests' = Append(requests, Checked(s, own, l))
    /\ UNCHANGED <<detector, limiters, seen, hits, counts, intakeNow>>

Moved(i, step) == requests' = [requests EXCEPT ![i].step = step]

Inside(r) == r.step \in {"entered", "counting"}
Rivals(i, j) ==
    /\ i # j /\ Inside(requests[j])
    /\ requests[j].limiter = requests[i].limiter
    /\ requests[j].sent.client = requests[i].sent.client

\* limiter.allow begins: the clock is read.
Enter(i) ==
    /\ requests[i].step = "checked"
    /\ requests' = [j \in DOMAIN requests |->
          IF j = i THEN [requests[i] EXCEPT !.step = "entered", !.at = intakeNow,
                                            !.alone = \A k \in DOMAIN requests : ~Rivals(i, k)]
          ELSE IF Rivals(i, j) THEN [requests[j] EXCEPT !.alone = FALSE]
          ELSE requests[j]]
    /\ UNCHANGED <<detector, limiters, seen, hits, counts, intakeNow>>

HitsOf(r) == hits[r.limiter][r.sent.client]
HasKind(r, kind) == limiters[r.limiter] = kind

\* Hits leave the sliding window one instant early.
FaultyOutlived(past, at) == past # <<>> /\ at - Head(past) >= Window

Outlived(past, at) == past # <<>> /\ at - Head(past) > Window

\* One round of MemoryRateLimiter.allow's loop.  Threads change at calls, so the test
\* and the popleft belong together, and so do the last test and the len that follows.
DropHit(i) ==
    /\ requests[i].step = "entered" /\ HasKind(requests[i], "memory")
    /\ Outlived(HitsOf(requests[i]), requests[i].at)
    /\ hits' = [hits EXCEPT ![requests[i].limiter][requests[i].sent.client] = Tail(@)]
    /\ UNCHANGED <<detector, limiters, requests, seen, counts, intakeNow>>

CountHits(i) ==
    /\ requests[i].step = "entered" /\ HasKind(requests[i], "memory")
    /\ ~Outlived(HitsOf(requests[i]), requests[i].at)
    /\ Moved(i, IF Len(HitsOf(requests[i])) < Limit THEN "counting" ELSE "limited")
    /\ UNCHANGED <<detector, limiters, seen, hits, counts, intakeNow>>

AppendHit(i) ==
    /\ requests[i].step = "counting"
    /\ Moved(i, "admitted")
    /\ hits' = [hits EXCEPT ![requests[i].limiter][requests[i].sent.client] =
                  Append(@, requests[i].at)]
    /\ UNCHANGED <<detector, limiters, seen, counts, intakeNow>>

\* RedisRateLimiter.allow: INCR on the counter of the window the clock was in; it
\* counts what it refuses too.  (EXPIRE keeps a counter for another whole window.)
Incr(i) ==
    /\ requests[i].step = "entered" /\ HasKind(requests[i], "redis")
    /\ LET c == requests[i].sent.client
           b == Bucket(requests[i].at)
       IN  /\ counts' = [counts EXCEPT ![c][b] = @ + 1]
           /\ \E step \in {"admitted", "limited"} :
                /\ step = "admitted" => counts[c][b] < Limit
                /\ Moved(i, step)   \* limited within the limit: the answer was lost (500)
    /\ UNCHANGED <<detector, limiters, seen, hits, intakeNow>>

\* Redis could not be asked: the client is told of a failure and nothing is counted.
IncrFails(i) ==
    /\ requests[i].step = "entered" /\ HasKind(requests[i], "redis")
    /\ Moved(i, "limited")
    /\ UNCHANGED <<detector, limiters, seen, hits, counts, intakeNow>>

\* The image is looked at after the limiter has counted (422), and the database may
\* refuse the report (500): then nothing is marked.
Insert(i) ==
    /\ requests[i].step = "admitted"
    /\ \E step \in {"inserted", "refused"} : Moved(i, step)
    /\ UNCHANGED <<detector, limiters, seen, hits, counts, intakeNow>>

\* A detector of its own keeps the mark to itself.  The clock is read in the instant of
\* the mark (a stall between the two moves the window by its length).
Marking(i, key) ==
    /\ requests[i].step = "inserted"
    /\ requests' = [requests EXCEPT ![i].step = "stored", ![i].marked = intakeNow,
                                    ![i].passed = Len(requests)]
    /\ seen' = IF requests[i].own THEN seen ELSE [seen EXCEPT ![key] = intakeNow]
    /\ UNCHANGED <<detector, limiters, hits, counts, intakeNow>>

\* Marks the key of the words before their redaction.
FaultyMark(i) ==
    LET s == requests[i].sent
    IN  Marking(i, <<s.client, s.text>>)

Mark(i) == Marking(i, KeyOf(requests[i].sent))

\* Redis is lost between the INSERT and the mark: the client is told of a failure and
\* the report is stored.
MarkFails(i) ==
    /\ detector = "redis" /\ ~requests[i].own
    /\ requests[i].step = "inserted"
    /\ Moved(i, "unmarked")
    /\ UNCHANGED <<detector, limiters, seen, hits, counts, intakeNow>>

\* Sixteen endpoints ask for limiters of their own from a cache of eight: using the
\* others drops this one, and the next is what the probe of Redis finds then.
Evict ==
    /\ Len(limiters) <= MaxEvicted
    /\ \E kind \in Backends : limiters' = Append(limiters, kind)
    /\ hits' = Append(hits, [c \in Reporters |-> <<>>])
    /\ UNCHANGED <<detector, requests, seen, counts, intakeNow>>

IntakeTick ==
    /\ intakeNow < IntakeClock
    /\ intakeNow' = intakeNow + 1
    /\ UNCHANGED <<detector, limiters, requests, seen, hits, counts>>

IntakeInit ==
    /\ detector \in Backends
    /\ \E kind \in Backends : limiters = <<kind>>
    /\ requests = <<>>
    /\ seen = [k \in Keys |-> Never]
    /\ hits = <<[c \in Reporters |-> <<>>]>>
    /\ counts = [c \in Reporters |-> [b \in Buckets |-> 0]]
    /\ intakeNow = 0

IntakeNext ==
    \/ \E s \in Submission : Check(s)
    \/ \E i \in DOMAIN requests :
          \/ Enter(i) \/ DropHit(i) \/ CountHits(i) \/ AppendHit(i) \/ Incr(i) \/ IncrFails(i)
          \/ Insert(i) \/ Mark(i) \/ MarkFails(i)
    \/ Evict
    \/ IntakeTick

IntakeSpec == IntakeInit /\ [][IntakeNext]_intakeVars

-----------------------------------------------------------------------------
\* The same words from the same client; across the two forms only words that need no
\* redaction are known again.
SameReport(s, t) ==
    /\ s.client = t.client /\ s.text = t.text
    /\ s.form = t.form \/ s.text = "plain"

\* A report passes the detector twice within the duplicate window only when the first
\* copy was not marked before the check of the second (it was still underway, wherever
\* between its own check and its mark it stood, or had been refused, or its mark was lost
\* to Redis), or when one of the two came while the first detector was being made
\* (create_report, create_quick_report, reports/spam.py).
RepeatsOverlap ==
    \A i, j \in DOMAIN requests :
        (i < j /\ SameReport(requests[i].sent, requests[j].sent)) =>
            \/ requests[i].step # "stored"
            \/ requests[i].passed >= j
            \/ requests[i].own \/ requests[j].own
            \/ requests[j].checked - requests[i].marked >= DupWindow

LetThrough(r) == r.step \in {"counting", "admitted", "inserted", "stored", "refused", "unmarked"}

\* What a memory limiter let through in the window that ends at t, calls that
\* overlapped left out, and what the Redis limiters did in the aligned window of t.
ThroughMemory(l, c, t) ==
    {i \in DOMAIN requests :
        /\ requests[i].limiter = l /\ requests[i].sent.client = c
        /\ LetThrough(requests[i]) /\ requests[i].alone
        /\ requests[i].at \in (t - Window)..t}
ThroughRedis(c, b) ==
    {i \in DOMAIN requests :
        /\ HasKind(requests[i], "redis") /\ requests[i].sent.client = c
        /\ LetThrough(requests[i]) /\ Bucket(requests[i].at) = b}

\* However many duplicates, refusals and failures come between: in any window, of the
\* reports that one memory limiter lets through for a client, those whose call of allow
\* overlapped no other are at most Limit, beside overlapping calls and calls on limiters
\* that the cache has dropped; and all the Redis limiters together let through at most
\* Limit in an aligned window, whatever overlaps, so that twice as many fit across a
\* boundary (reports/limiter.py).
LimitHolds ==
    /\ \A l \in DOMAIN limiters, c \in Reporters, t \in 0..intakeNow :
          limiters[l] = "memory" => Cardinality(ThroughMemory(l, c, t)) <= Limit
    /\ \A c \in Reporters, b \in Buckets : Cardinality(ThroughRedis(c, b)) <= Limit
=============================================================================
