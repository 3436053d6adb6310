----------------------------- MODULE SosBuilds -----------------------------
(***************************************************************************)
(* SOS sessions and location sharing in both builds of safety/sessions.py, *)
(* one request of api/emergency.py at a time.  Emergency has the Postgres  *)
(* build under interleaved requests.  One table of rows holds the sessions *)
(* of both kinds: an id is of one kind, and a call for the other kind does *)
(* not find it.                                                            *)
(***************************************************************************)
EXTENDS StoreBuilds

CONSTANT ShareTTL   \* min(ttl_s, location_sharing_max_ttl_s)

ASSUME ShareTTLAssumption == ShareTTL \in Nat \ {0}

-----------------------------------------------------------------------------
\* fix is when the last position was stored (last_known_at, last_updated_at).
NoSession == [client |-> NoOne, kind |-> "none", status |-> "FREE", expires |-> NoTime,
              ended |-> NoTime, fix |-> NoTime]
SosRow(c) == [client |-> c, kind |-> "sos", status |-> "ACTIVE", expires |-> NoTime,
              ended |-> NoTime, fix |-> clock]
SharingRow(c) == [client |-> c, kind |-> "sharing", status |-> "ACTIVE",
                  expires |-> clock + ShareTTL, ended |-> NoTime, fix |-> NoTime]

OfKind(rows, c, kind) == {i \in Ids : rows[i].client = c /\ rows[i].kind = kind}
ActiveOf(rows, c, kind) == {i \in OfKind(rows, c, kind) : rows[i].status = "ACTIVE"}

\* POST /emergency/sessions answers 409 while one is active.
SosInMemory(c) ==
    IF ActiveOf(memory, c, "sos") # {}
    THEN Refused(memory, "conflict")
    ELSE Outcome([memory EXCEPT ![NewId] = SosRow(c)], "ok", {NewId}, {"sos_started"})
SosInTable(c) ==
    IF ActiveOf(table, c, "sos") # {}
    THEN Refused(table, "conflict")
    ELSE Outcome([table EXCEPT ![NewId] = SosRow(c)], "ok", {NewId}, {"sos_started"})

ActiveSosInMemory(c) == Picked(memory, ActiveOf(memory, c, "sos"), Oldest)
ActiveSosInTable(c) == Picked(table, ActiveOf(table, c, "sos"), Newest)

SosFixInMemory(c, i) ==
    IF i \in ActiveOf(memory, c, "sos")
    THEN Kept([memory EXCEPT ![i].fix = clock], {i})
    ELSE Refused(memory, "unknown")
SosFixInTable(c, i) ==
    CASE i = Malformed -> Refused(table, "failed")
      [] i \in ActiveOf(table, c, "sos") -> Kept([table EXCEPT ![i].fix = clock], {i})
      [] OTHER -> Refused(table, "unknown")

EndSosInMemory(c, i) ==
    IF i \in ActiveOf(memory, c, "sos")
    THEN Outcome([memory EXCEPT ![i].status = "ENDED", ![i].ended = clock],
                 "ok", {i}, {"sos_ended"})
    ELSE Refused(memory, "unknown")

\* The UPDATE has no condition on the status.
FaultyEndSosInTable(c, i) ==
    IF i \in OfKind(table, c, "sos")
    THEN Outcome([table EXCEPT ![i].status = "ENDED", ![i].ended = clock], "ok", {i}, {"sos_ended"})
    ELSE Refused(table, "unknown")

EndSosInTable(c, i) ==
    CASE i = Malformed -> Refused(table, "failed")
      [] i \in ActiveOf(table, c, "sos") ->
            Outcome([table EXCEPT ![i].status = "ENDED", ![i].ended = clock],
                    "ok", {i}, {"sos_ended"})
      [] OTHER -> Refused(table, "unknown")

\* POST /location-sharing looks the emergency up that it is to belong to, if it names one.
NoOwner == -1
Owned(rows, c, owner) == owner \in {NoOwner} \cup OfKind(rows, c, "sos")
ShareInMemory(c, owner) ==
    IF Owned(memory, c, owner)
    THEN Outcome([memory EXCEPT ![NewId] = SharingRow(c)], "ok", {NewId},
                 {"location_sharing_started"})
    ELSE Refused(memory, "unknown")
ShareInTable(c, owner) ==
    CASE owner = Malformed -> Refused(table, "failed")
      [] Owned(table, c, owner) ->
            Outcome([table EXCEPT ![NewId] = SharingRow(c)], "ok", {NewId},
                    {"location_sharing_started"})
      [] OTHER -> Refused(table, "unknown")

\* Lazy expiry asks expires_at < now; _mark_expired and the location UPDATE of the
\* table ask expires_at <= now() and expires_at > now(): at the very instant of its
\* expiry a sharing is open in memory and closed to fixes in the table.
Lapsed(row) == row.status = "ACTIVE" /\ row.expires < clock
Expired(rows, i) == IF Lapsed(rows[i]) THEN [rows EXCEPT ![i].status = "EXPIRED"] ELSE rows

ReadSharing(rows, c, i) ==
    IF i \in OfKind(rows, c, "sharing") THEN Kept(Expired(rows, i), {i}) ELSE Refused(rows, "unknown")
GetSharingInTable(c, i) ==
    IF i = Malformed THEN Refused(table, "failed") ELSE ReadSharing(table, c, i)
ActiveSharing(rows, c, Pick(_)) ==
    LET open == ActiveOf(rows, c, "sharing")
    IN  IF open = {} THEN Refused(rows, "none") ELSE ReadSharing(rows, c, Pick(open))
ActiveSharingInMemory(c) == ActiveSharing(memory, c, Oldest)
ActiveSharingInTable(c) == ActiveSharing(table, c, Newest)

\* The memory build reads the sharing first, which expires it.
ShareFixInMemory(c, i) ==
    LET read == ReadSharing(memory, c, i)
    IN  IF read.code = "ok" /\ read.rows[i].status = "ACTIVE"
        THEN Kept([read.rows EXCEPT ![i].fix = clock], {i})
        ELSE Refused(read.rows, "unknown")
ShareFixInTable(c, i) ==
    CASE i = Malformed -> Refused(table, "failed")
      [] i \in ActiveOf(table, c, "sharing") /\ table[i].expires > clock ->
            Kept([table EXCEPT ![i].fix = clock], {i})
      [] OTHER -> Refused(table, "unknown")

StopShareInMemory(c, i) ==
    LET read == ReadSharing(memory, c, i)
    IN  IF read.code = "ok" /\ read.rows[i].status = "ACTIVE"
        THEN Outcome([read.rows EXCEPT ![i].status = "STOPPED", ![i].ended = clock],
                     "ok", {i}, {"location_sharing_stopped"})
        ELSE Refused(read.rows, "unknown")
\* The UPDATE does not ask for the expiry.
StopShareInTable(c, i) ==
    CASE i = Malformed -> Refused(table, "failed")
      [] i \in ActiveOf(table, c, "sharing") ->
            Outcome([table EXCEPT ![i].status = "STOPPED", ![i].ended = clock],
                    "ok", {i}, {"location_sharing_stopped"})
      [] OTHER -> Refused(table, "unknown")

-----------------------------------------------------------------------------
CreateSos == \E c \in Clients : Creating /\ Both(SosInMemory(c), SosInTable(c))
StartSharing ==
    \E c \in Clients, owner \in NoOwner..used :
        Creating /\ Both(ShareInMemory(c, owner), ShareInTable(c, owner))
SosFix ==
    \E c \in Clients, i \in 0..used : Calling /\ Both(SosFixInMemory(c, i), SosFixInTable(c, i))
EndSos ==
    \E c \in Clients, i \in 0..used : Calling /\ Both(EndSosInMemory(c, i), EndSosInTable(c, i))
GetSharing ==
    \E c \in Clients, i \in 0..used :
        Calling /\ Both(ReadSharing(memory, c, i), GetSharingInTable(c, i))
GetActiveSharing ==
    \E c \in Clients : Calling /\ Both(ActiveSharingInMemory(c), ActiveSharingInTable(c))
ShareFix ==
    \E c \in Clients, i \in 0..used :
        Calling /\ Both(ShareFixInMemory(c, i), ShareFixInTable(c, i))
StopSharing ==
    \E c \in Clients, i \in 0..used :
        Calling /\ Both(StopShareInMemory(c, i), StopShareInTable(c, i))

SosInit == BuildsInit("sos", [i \in Ids |-> NoSession])
SosNext ==
    CreateSos \/ StartSharing \/ SosFix \/ EndSos \/ GetSharing \/ GetActiveSharing \/ ShareFix
        \/ StopSharing \/ BuildsTick
SosSpec == SosInit /\ [][SosNext]_buildVars

-----------------------------------------------------------------------------
\* Positions still go to the recipients.
Open(row) == row.kind = "sharing" /\ row.status = "ACTIVE" /\ row.expires > clock

SameSession(m, t) ==
    /\ m.client = t.client /\ m.kind = t.kind /\ m.expires = t.expires
    /\ m.kind = "sos" => m = t
    /\ Open(m) <=> Open(t)
    /\ m.fix # t.fix => m.fix = m.expires

AtMostOne(S) == \A i, j \in S : i = j
Sharings(c) == ActiveOf(memory, c, "sharing") \cup ActiveOf(table, c, "sharing")

\* The SOS sessions of both builds are equal, row by row and answer by answer.  Of the
\* sharings, the same are open, with the same positions, and a call on an open one is
\* answered alike: the builds differ only in how they close one that has expired (an
\* expired sharing can still be stopped in the table) and at the very instant of the
\* expiry, where memory takes one more position.  A client with one sharing that is
\* still open and none left unclosed is shown it by both.  With several, of which
\* nothing forbids opening a second, memory shows the oldest and the table the newest,
\* expired or not; but a client whose position still goes out is never told by either
\* build that nothing is shared (safety/sessions.py).
SosBuildsAgree ==
    service = "sos" =>
        /\ \A i \in Ids : SameSession(memory[i], table[i])
        /\ notes.memory \subseteq notes.table
        /\ \A c \in Clients :
             /\ SameAnswer(ActiveSosInMemory(c), ActiveSosInTable(c))
             /\ used < MaxRows => SameAnswer(SosInMemory(c), SosInTable(c))
             /\ \A i \in Sharings(c) : Open(table[i]) =>
                    /\ ActiveSharingInMemory(c).code = "ok" /\ ActiveSharingInTable(c).code = "ok"
                    /\ AtMostOne(Sharings(c)) =>
                           SameAnswer(ActiveSharingInMemory(c), ActiveSharingInTable(c))
             /\ \A i \in Known :
                    /\ SameAnswer(EndSosInMemory(c, i), EndSosInTable(c, i))
                    /\ SameAnswer(ReadSharing(memory, c, i), GetSharingInTable(c, i))
                    /\ Open(memory[i]) =>
                          /\ SameAnswer(ShareFixInMemory(c, i), ShareFixInTable(c, i))
                          /\ SameAnswer(StopShareInMemory(c, i), StopShareInTable(c, i))
=============================================================================
