-------------------------- MODULE CommunityAlerts --------------------------
(***************************************************************************)
(* Community posts (community.py under api/community.py) and safety alerts *)
(* (safety/alerts.py under api/alerts.py), each in both builds.            *)
(***************************************************************************)
EXTENDS StoreBuilds

CONSTANT AlertLife   \* how long an alert lives: 30 days

ASSUME LifeAssumption == AlertLife \in Nat \ {0}

-----------------------------------------------------------------------------
(* Community posts.                                                        *)

PostStatus == {"PENDING", "VERIFIED", "REJECTED"}
NoPost == [client |-> NoOne, status |-> "FREE", moderated |-> NoTime]
Post(c) == [client |-> c, status |-> "PENDING", moderated |-> NoTime]
Posts(rows, statuses) == {i \in Ids : rows[i].status \in statuses}

PostInMemory(c) == Kept([memory EXCEPT ![NewId] = Post(c)], {NewId})
PostInTable(c) == Kept([table EXCEPT ![NewId] = Post(c)], {NewId})

\* A decision is taken on a post in any status: the last one counts.
Moderated(rows, i, status) ==
    [rows EXCEPT ![i].status = status, ![i].moderated = clock]
ModerateInMemory(i, status) ==
    IF i \in Posts(memory, PostStatus)
    THEN Kept(Moderated(memory, i, status), {i})
    ELSE Refused(memory, "unknown")

\* A post can be decided on once.
FaultyModerateInTable(i, status) ==
    IF i \in Posts(table, {"PENDING"})
    THEN Kept(Moderated(table, i, status), {i})
    ELSE Refused(table, "unknown")

ModerateInTable(i, status) ==
    CASE i = Malformed -> Refused(table, "failed")
      [] i \in Posts(table, PostStatus) -> Kept(Moderated(table, i, status), {i})
      [] OTHER -> Refused(table, "unknown")

\* The newest posts that are not rejected, at most n of them: sorted and cut in one
\* build, ORDER BY and LIMIT in the other.
Feed(rows, n) ==
    LET visible == Posts(rows, {"PENDING", "VERIFIED"})
    IN  {i \in visible : Cardinality({j \in visible : j > i}) < n}
CountByStatus(rows) == [s \in PostStatus |-> Cardinality(Posts(rows, {s}))]

CreatePost == \E c \in Clients : Creating /\ Both(PostInMemory(c), PostInTable(c))
Moderate ==
    \E i \in 0..used, status \in {"VERIFIED", "REJECTED"} :
        Calling /\ Both(ModerateInMemory(i, status), ModerateInTable(i, status))

CommunityInit == BuildsInit("community", [i \in Ids |-> NoPost])
CommunityNext == CreatePost \/ Moderate \/ BuildsTick
CommunitySpec == CommunityInit /\ [][CommunityNext]_buildVars

\* Both builds keep the same posts after any decisions, so that they show the same feed
\* and counts; the feed never shows a post whose last decision was to reject it, and a
\* rejected post never takes a visible one's place under the limit; every post that was
\* written is counted under one status (community.py).
CommunityBuildsAgree ==
    service = "community" =>
        /\ memory = table
        /\ \A n \in 1..MaxRows :
             /\ \A i \in Feed(table, n) : table[i].status # "REJECTED"
             /\ Cardinality(Feed(table, n)) < n => Feed(table, n) = Feed(table, MaxRows)
        /\ LET count == CountByStatus(table)
           IN  count["PENDING"] + count["VERIFIED"] + count["REJECTED"] = used
        /\ \A i \in Known, status \in PostStatus :
             SameAnswer(ModerateInMemory(i, status), ModerateInTable(i, status))

-----------------------------------------------------------------------------
(* Safety alerts.                                                          *)

NoAlert == [client |-> NoOne, expires |-> NoTime]

\* The columns of safety_alerts that the statements could name, and the ones each
\* statement does: a name the table does not have fails the statement.  "now" is not
\* followed by parentheses there, so it is read as a column.
AlertColumns == {"category", "severity", "source", "observed_at", "expires_at"}
InsertNames == {"client_id", "category", "severity", "source", "observed_at"}
SelectNames == {"client_id", "category", "severity", "source", "observed_at", "expires_at"}
ActiveNames == SelectNames \cup {"now"}
Accepted(names) == names \subseteq AlertColumns

AlertInMemory(c) ==
    Outcome([memory EXCEPT ![NewId] = [client |-> c, expires |-> clock + AlertLife]],
            "ok", {NewId}, {"safety_alert"})

\* The notification is recorded before the INSERT has failed.
FaultyAlertInTable(c) == Outcome(table, "failed", {NewId}, {"safety_alert"})

AlertInTable(c) ==
    IF Accepted(InsertNames)
    THEN Outcome([table EXCEPT ![NewId] = [client |-> c, expires |-> NoTime]],
                 "ok", {NewId}, {"safety_alert"})
    ELSE Refused(table, "failed")

AlertsOf(rows, c) == {i \in Ids : rows[i].client = c}
ListInMemory(c, n) ==
    Kept(memory, {i \in AlertsOf(memory, c) :
                     Cardinality({j \in AlertsOf(memory, c) : j > i}) < n})
ListInTable(c, n) ==
    IF Accepted(SelectNames)
    THEN Kept(table, {i \in AlertsOf(table, c) :
                         Cardinality({j \in AlertsOf(table, c) : j > i}) < n})
    ELSE Refused(table, "failed")

\* Forgets the expiry.
FaultyActiveAlertsInMemory(c) == Kept(memory, AlertsOf(memory, c))

ActiveAlertsInMemory(c) == Kept(memory, {i \in AlertsOf(memory, c) : memory[i].expires > clock})
ActiveAlertsInTable(c) ==
    IF Accepted(ActiveNames)
    THEN Kept(table, {i \in AlertsOf(table, c) : table[i].expires > clock})
    ELSE Refused(table, "failed")

CreateAlert == \E c \in Clients : Creating /\ Both(AlertInMemory(c), AlertInTable(c))

AlertInit == BuildsInit("alerts", [i \in Ids |-> NoAlert])
AlertNext == CreateAlert \/ BuildsTick
AlertSpec == AlertInit /\ [][AlertNext]_buildVars

\* An alert is shown as active only to the client that created it and only while it
\* lives, in both builds; every active alert is also in the client's full list.  The
\* table never answers at all: what it never does is show a wrong one
\* (safety/alerts.py, db/schema.sql).
AlertsShownWhileAlive ==
    service = "alerts" =>
        \A c \in Clients :
            /\ \A i \in ActiveAlertsInMemory(c).ids :
                   memory[i].client = c /\ clock < memory[i].expires
            /\ ActiveAlertsInMemory(c).ids \subseteq ListInMemory(c, MaxRows).ids
            /\ ActiveAlertsInTable(c).ids \subseteq ActiveAlertsInMemory(c).ids
            /\ ListInTable(c, MaxRows).ids \subseteq ListInMemory(c, MaxRows).ids
=============================================================================
