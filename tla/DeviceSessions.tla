--------------------------- MODULE DeviceSessions ---------------------------
(***************************************************************************)
(* Device session tokens: both builds of auth.py under api/auth.py, and    *)
(* the dependency require_client_id that every private endpoint goes       *)
(* through.  A token is the id of its row (the hash is one to one).  A     *)
(* request refused by the limiter changes nothing here.                    *)
(***************************************************************************)
EXTENDS StoreBuilds

CONSTANTS
    SessionTTL,   \* device_session_ttl_days
    LegacyAllowed \* allow_legacy_client_id

ASSUME SessionAssumption == SessionTTL \in Nat /\ LegacyAllowed \in BOOLEAN

TokenFree == [client |-> NoOne, expires |-> NoTime]
TokenRow(c) == [client |-> c, expires |-> clock + SessionTTL]
TokenExpired(row) == clock > row.expires

IssueInMemory(c) == Kept([memory EXCEPT ![NewId] = TokenRow(c)], {NewId})
IssueInTable(c) == Kept([table EXCEPT ![NewId] = TokenRow(c)], {NewId})

\* The client a token stands for.  The memory build forgets a session it finds expired;
\* the table keeps it and finds it expired again.
ClientOf(rows, i) ==
    IF rows[i].client = NoOne \/ TokenExpired(rows[i]) THEN NoOne ELSE rows[i].client
ResolveInMemory(i) ==
    IF ClientOf(memory, i) = NoOne
    THEN Refused([memory EXCEPT ![i] = TokenFree], "unauthorized")
    ELSE Kept(memory, {memory[i].client})
ResolveInTable(i) ==
    IF ClientOf(table, i) = NoOne
    THEN Refused(table, "unauthorized")
    ELSE Kept(table, {table[i].client})

\* Revoking an unknown or an expired token is answered as a success too.
RevokeInMemory(i) == Kept([memory EXCEPT ![i] = TokenFree], {})

\* Expires the session instead of deleting it: it still counts at this instant.
FaultyRevokeInTable(i) == Kept([table EXCEPT ![i].expires = clock], {})

RevokeInTable(i) == Kept([table EXCEPT ![i] = TokenFree], {})

\* What a private endpoint makes of its headers: a bearer token decides alone, an
\* empty one is refused, and without any the raw client id counts only where the
\* deployment still allows it.
NoToken == -1
EmptyToken == 0
Identified(resolved, token, header) ==
    CASE token = NoToken /\ LegacyAllowed -> header
      [] token = EmptyToken \/ (token = NoToken /\ ~LegacyAllowed) -> NoOne
      [] OTHER -> resolved

-----------------------------------------------------------------------------
IssueToken == \E c \in Clients : Creating /\ Both(IssueInMemory(c), IssueInTable(c))
UseToken == \E i \in Known : Calling /\ Both(ResolveInMemory(i), ResolveInTable(i))
RevokeToken == \E i \in Known : Calling /\ Both(RevokeInMemory(i), RevokeInTable(i))

SessionInit == BuildsInit("sessions", [i \in Ids |-> TokenFree])
SessionNext == IssueToken \/ UseToken \/ RevokeToken \/ BuildsTick
SessionSpec == SessionInit /\ [][SessionNext]_buildVars

-----------------------------------------------------------------------------
\* A token stands for the same client in both builds, although one of them forgets
\* expired sessions and the other does not; and once a token was issued and stands for
\* no one, revoked or expired, no call and no passage of time gives it a client again
\* (auth.py).  A bearer token that is refused is never made up for by the header that
\* came with it.
DeadTokensStayDead ==
    [][service = "sessions" =>
          \A i \in Known :
              /\ ClientOf(memory, i) = ClientOf(table, i)
              /\ ClientOf(table, i)' \in {ClientOf(table, i), NoOne}
              /\ ClientOf(memory, i)' \in {ClientOf(memory, i), NoOne}
              /\ \A c \in Clients :
                     Identified(ClientOf(table, i), i, c) = ClientOf(table, i)]_buildVars
=============================================================================
