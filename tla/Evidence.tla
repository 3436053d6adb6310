------------------------------ MODULE Evidence ------------------------------
(***************************************************************************)
(* Reports, feeds and the admin's recompute, verify and reject: what       *)
(* PostgresReportStore (reports/store.py) does to the evidence tables      *)
(* under api/reports.py, beside the feeds of ingest_feed.py.  A recompute  *)
(* SELECTs the observations, SELECTs the reports, runs compute_states and  *)
(* then UPDATEs the changed rows, one transaction each, with no regard to  *)
(* what has happened to them since.                                        *)
(***************************************************************************)
EXTENDS EvidenceEngine

CONSTANTS
    Workers,     \* threads that serve the admin's requests
    FeedStates,  \* verification_state values of the feeds
    MayCrash,    \* may the server process die and restart?
    MaxTime      \* bound on the clock

ASSUME FeedsAssumption == FeedStates \subseteq States /\ MayCrash \in BOOLEAN /\ MaxTime \in Nat

VARIABLES
    now,     \* the clock
    items,   \* safety_observations and safety_reports
    audits,  \* admin_audit_log: the decisions recorded on each report
    req      \* the admin request each worker is serving

vars == <<now, items, audits, req>>

-----------------------------------------------------------------------------
\* pc: the next step; todo: the segments to recompute, seg the one at hand; seen:
\* the states read; plan: the UPDATEs still to do ("FREE": none or no row); report
\* and verdict: the decision to audit in the end.
Marks == [Items -> States \cup {"FREE"}]
Blank == [i \in Items |-> "FREE"]
Steps == {"idle", "observations", "reports", "compute", "update", "audit"}
Request == [pc: Steps, todo: SUBSET Segments, seg: Segments \cup {NoOne},
            seen: Marks, plan: Marks, report: Reports \cup {NoOne}, verdict: Final \cup {NoOne}]
Idle == [pc |-> "idle", todo |-> {}, seg |-> NoOne, seen |-> Blank, plan |-> Blank,
         report |-> NoOne, verdict |-> NoOne]

Used(seg) == {i \in Items : items[i].state # "FREE" /\ items[i].segment = seg}

Init ==
    /\ now = 0
    /\ items = [i \in Items |-> FreeRow]
    /\ audits = [r \in Reports |-> {}]
    /\ req = [w \in Workers |-> Idle]

Tick ==
    /\ now < MaxTime
    /\ now' = now + 1
    /\ UNCHANGED <<items, audits, req>>

\* A quick report without a segment is stored under segment 0.
FaultyReport(r, seg, type) ==
    /\ items[r].state = "FREE"
    /\ items' = [items EXCEPT ![r] =
                   [segment |-> 0, type |-> type, source |-> UserReport, value |-> "silent",
                    observed |-> now, claim |-> "REPORTED", state |-> "REPORTED"]]
    /\ UNCHANGED <<now, audits, req>>

\* POST /reports and /reports/quick: the INSERT of insert_report.
Report(r, seg, type) ==
    /\ items[r].state = "FREE"
    /\ items' = [items EXCEPT ![r] =
                   [segment |-> seg, type |-> type, source |-> UserReport, value |-> "silent",
                    observed |-> now, claim |-> "REPORTED", state |-> "REPORTED"]]
    /\ UNCHANGED <<now, audits, req>>

\* A feed's INSERT ... ON CONFLICT (evidence_hash) DO NOTHING.
Ingest(o, row) ==
    /\ items[o].state = "FREE"
    /\ \A p \in Observations :
          \/ items[p].state = "FREE"
          \/ \E f \in {"segment", "type", "source", "value", "observed"} : items[p][f] # row[f]
    /\ items' = [items EXCEPT ![o] = row]
    /\ UNCHANGED <<now, audits, req>>

-----------------------------------------------------------------------------
\* POST /admin/recompute, of one segment or of all that have evidence (with none,
\* only the audit is left to do).
Recompute(w, segs) ==
    /\ req[w] = Idle
    /\ segs # {}
    /\ req' = [req EXCEPT ![w] = [Idle EXCEPT !.pc = "observations", !.todo = segs]]
    /\ UNCHANGED <<now, items, audits>>

\* Has no say over evidence that has expired.
FaultyDecide(w, r, verdict) ==
    /\ req[w] = Idle
    /\ items[r].state # "FREE"
    /\ items' = IF items[r].state = "EXPIRED" THEN items
                ELSE [items EXCEPT ![r].state = verdict]
    /\ req' = [req EXCEPT ![w] = [Idle EXCEPT !.pc = "observations", !.todo = {items[r].segment},
                                           !.report = r, !.verdict = verdict]]
    /\ UNCHANGED <<now, audits>>

\* POST /admin/reports/{id}/verify and /reject: set_verification, whatever the
\* state; the segment is recomputed next.
Decide(w, r, verdict) ==
    /\ req[w] = Idle
    /\ items[r].state # "FREE"
    /\ items' = [items EXCEPT ![r].state = verdict]
    /\ req' = [req EXCEPT ![w] = [Idle EXCEPT !.pc = "observations", !.todo = {items[r].segment},
                                           !.report = r, !.verdict = verdict]]
    /\ UNCHANGED <<now, audits>>

\* The two SELECTs of observations_for_segment.
ReadObservations(w) ==
    /\ req[w].pc = "observations"
    /\ \E seg \in req[w].todo :
          req' = [req EXCEPT ![w] =
                    [@ EXCEPT !.pc = "reports", !.seg = seg,
                              !.seen = [i \in Items |-> IF i \in Observations \cap Used(seg)
                                                        THEN items[i].state ELSE "FREE"]]]
    /\ UNCHANGED <<now, items, audits>>

ReadReports(w) ==
    /\ req[w].pc = "reports"
    /\ req' = [req EXCEPT ![w] =
                 [@ EXCEPT !.pc = "compute",
                           !.seen = [i \in Items |-> IF i \in Reports \cap Used(req[w].seg)
                                                     THEN items[i].state ELSE req[w].seen[i]]]]
    /\ UNCHANGED <<now, items, audits>>

\* The request after the segment at hand is done.
Done(r) ==
    LET left == r.todo \ {r.seg}
    IN  IF left # {} THEN [r EXCEPT !.pc = "observations", !.todo = left, !.seg = NoOne,
                                    !.seen = Blank, !.plan = Blank]
        ELSE [Idle EXCEPT !.pc = "audit", !.report = r.report, !.verdict = r.verdict]

\* The rows of the segment as read: their data never changes, their states may
\* have since.
AsRead(seen) == [i \in Items |-> IF seen[i] = "FREE" THEN FreeRow ELSE [items[i] EXCEPT !.state = seen[i]]]

\* Recomputes what an admin has decided.
FaultyPlan(seen, t) ==
    [i \in Items |->
       LET s == StateOf([AsRead(seen) EXCEPT ![i].state = IF @ = "FREE" THEN @ ELSE "REPORTED"], i, t)
       IN  IF s = seen[i] THEN "FREE" ELSE s]

\* The UPDATEs compute_states calls for.
Plan(seen, t) ==
    [i \in Items |-> LET s == StateOf(AsRead(seen), i, t) IN IF s = seen[i] THEN "FREE" ELSE s]

Compute(w) ==
    /\ req[w].pc = "compute"
    /\ LET plan == Plan(req[w].seen, now)
       IN  req' = [req EXCEPT ![w] = IF plan = Blank THEN Done(@)
                                     ELSE [@ EXCEPT !.pc = "update", !.seen = Blank, !.plan = plan]]
    /\ UNCHANGED <<now, items, audits>>

\* _update_state, unconditional; the observations come before the reports.
Update(w) ==
    /\ req[w].pc = "update"
    /\ LET plan == req[w].plan
           planned == {i \in Items : plan[i] # "FREE"}
       IN  \E i \in (IF planned \cap Observations # {} THEN planned \cap Observations ELSE planned) :
              /\ items' = [items EXCEPT ![i].state = plan[i]]
              /\ req' = [req EXCEPT ![w] = IF planned = {i} THEN Done(@)
                                           ELSE [@ EXCEPT !.plan[i] = "FREE"]]
    /\ UNCHANGED <<now, audits>>

\* Every request ends with an INSERT into admin_audit_log; what is kept of a
\* plain recompute's is nothing.
Audit(w) ==
    /\ req[w].pc = "audit"
    /\ audits' = IF req[w].report = NoOne THEN audits
                 ELSE [audits EXCEPT ![req[w].report] = @ \cup {req[w].verdict}]
    /\ req' = [req EXCEPT ![w] = Idle]
    /\ UNCHANGED <<now, items>>

\* The process dies: the tables stay, every request in flight is lost.
Crash ==
    /\ MayCrash
    /\ \E w \in Workers : req[w] # Idle
    /\ req' = [w \in Workers |-> Idle]
    /\ UNCHANGED <<now, items, audits>>

-----------------------------------------------------------------------------
Step(w) == ReadObservations(w) \/ ReadReports(w) \/ Compute(w) \/ Update(w) \/ Audit(w)

Arrive(w) ==
    \/ \E seg \in Segments : Recompute(w, {seg})
    \/ Recompute(w, {seg \in Segments : Used(seg) # {}})
    \/ \E r \in Reports, verdict \in Final : Decide(w, r, verdict)

Feed ==
    \E seg \in Segments, type \in Types, source \in Sources, value \in Values, state \in FeedStates,
       o \in Observations, t \in 0..now :
          Ingest(o, [segment |-> seg, type |-> type, source |-> source, value |-> value,
                     observed |-> t, claim |-> state, state |-> state])

Next ==
    \/ Tick
    \/ \E r \in Reports, seg \in Segments, type \in Types : Report(r, seg, type)
    \/ Feed
    \/ \E w \in Workers : Step(w) \/ Arrive(w)
    \/ Crash

Spec == Init /\ [][Next]_vars

-----------------------------------------------------------------------------
TypeOK ==
    /\ now \in Nat
    /\ items \in [Items -> Row]
    /\ audits \in [Reports -> SUBSET Final]
    /\ req \in [Workers -> Request]

\* Why row i may be in state s: its lifetime is over, a peer disagrees with it, or
\* another source or two more items say the same.
Witnessed(i, s) ==
    \/ s \in Final \cup {"FREE", "REPORTED"}
    \/ s = "EXPIRED" /\ now > Expiry(items[i])
    \/ s = "CONFLICTING" /\ Conflicting(items, i, Peers(items, i))
    \/ s = "CORROBORATED" /\ Corroborated(items, i, Peers(items, i))

\* engine.py:89-95: however recomputes interleave, a state that the engine gave a
\* row has its reason in the tables.
StatesAreWitnessed ==
    \A i \in Items : items[i].state = items[i].claim \/ Witnessed(i, items[i].state)

\* docs/current-status.md:98, api/reports.py:264: VERIFIED and REJECTED are
\* immutable for the engine: only an admin's decision changes them.
StickyStates == [][\A i \in Items : items[i].state \in Final => items'[i].state \in Final]_vars

\* Evidence that a recompute has expired is not revived by another: only an admin
\* can say more about it.
NoRevival ==
    [][\A i \in Items : (items[i].state = "EXPIRED" /\ items[i].claim # "EXPIRED")
                          => items'[i].state \in Final \cup {"EXPIRED"}]_vars

\* api/reports.py:247-248: a report whose decision was audited stands decided.
AuditedIsDecided == \A r \in Reports : audits[r] # {} => items[r].state \in Final

\* api/reports.py:163, weakened to what holds: with no new evidence, a third
\* recompute changes nothing.
SettlesInTwo ==
    \A once \in {Pass(items, now)} : \A twice \in {Pass(once, now)} : Settled(twice, now)

\* api/reports.py:163: calling recompute twice with no new evidence changes
\* nothing the second time.
SettlesInOne == \A once \in {Pass(items, now)} : Settled(once, now)
=============================================================================
