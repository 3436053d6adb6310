---------------------------- MODULE StoreProofs ----------------------------
(***************************************************************************)
(* For every number of clients, rows and ticks: what the two builds of the *)
(* contacts, the device sessions, the voice guidance, the fake calls, the  *)
(* journey check-ins, the settings and the community posts have in common; *)
(* what the safety alerts show; and that no notification is of a row that  *)
(* is not there.                                                           *)
(***************************************************************************)
EXTENDS TrustedContacts, DeviceSessions, VoiceGuidance, FakeCalls, JourneyCheckins,
        ClientSettings, CommunityAlerts, FiniteSetTheorems, WellFoundedInduction, TLAPS

-----------------------------------------------------------------------------
(* Trusted contacts.                                                       *)

ContactRow ==
    [client : Clients \cup {NoOne}, card : Cards \cup {"none"}, role : Roles \cup {"none"},
     enabled : {"none", "on", "off"}]

\* The inductive invariant.
ContactInv ==
    /\ service = "contacts"
    /\ used \in 0..MaxRows
    /\ memory \in [Ids -> ContactRow]
    /\ memory = table

\* What is kept of a field that is not given is what the SET list leaves out.
LEMMA EditedIsSet ==
    ASSUME NEW row \in ContactRow, NEW u \in Updates
    PROVE  /\ Edited(row, u) = [f \in DOMAIN row |-> IF f \in SetList(u) THEN u[f] ELSE row[f]]
           /\ Edited(row, u) \in ContactRow
           /\ SetList(u) = {} => Edited(row, u) = row
<1>1. /\ DOMAIN row = {"client", "card", "role", "enabled"}
      /\ DOMAIN u = {"card", "role", "enabled"}
      /\ row = [client |-> row.client, card |-> row.card, role |-> row.role,
                enabled |-> row.enabled]
  BY DEF ContactRow, Updates
<1>2. Edited(row, u) = [client |-> row.client, card |-> Given(u.card, row.card),
                        role |-> Given(u.role, row.role),
                        enabled |-> Given(u.enabled, row.enabled)]
  <2>1. DOMAIN Edited(row, u) = {"client", "card", "role", "enabled"}
    BY <1>1 DEF Edited
  <2>2. /\ Edited(row, u).client = row.client
        /\ Edited(row, u).card = Given(u.card, row.card)
        /\ Edited(row, u).role = Given(u.role, row.role)
        /\ Edited(row, u).enabled = Given(u.enabled, row.enabled)
    BY <1>1 DEF Edited
  <2>3. Edited(row, u) = [f \in DOMAIN Edited(row, u) |-> Edited(row, u)[f]]
    BY DEF Edited
  <2> QED BY <2>1, <2>2, <2>3
<1>3. \A f \in {"card", "role", "enabled"} : f \in SetList(u) <=> u[f] # "none"
  BY <1>1 DEF SetList
<1>4. "client" \notin SetList(u)
  BY <1>1 DEF SetList
<1>5. Edited(row, u) \in ContactRow
  BY <1>2 DEF ContactRow, Updates, Given, Cards, Roles
<1>6. Edited(row, u) = [f \in DOMAIN row |-> IF f \in SetList(u) THEN u[f] ELSE row[f]]
  BY <1>1, <1>2, <1>3, <1>4 DEF Given
<1>7. ASSUME SetList(u) = {} PROVE Edited(row, u) = row
  BY <1>7, <1>1, <1>2, <1>3 DEF Given
<1> QED BY <1>5, <1>6, <1>7

LEMMA UpdatesAlike ==
    ASSUME ContactInv, NEW c \in Clients, NEW i \in Known, NEW u \in Updates
    PROVE  /\ UpdateInMemory(c, i, u) = UpdateInTable(c, i, u)
           /\ UpdateInTable(c, i, u).rows \in [Ids -> ContactRow]
           /\ memory[i].client # c => UpdateInTable(c, i, u).rows = table
<1>1. i \in Ids /\ memory[i] \in ContactRow /\ table = memory
  BY BoundsAssumption DEF ContactInv, Known, Ids
<1>2. ContactsOf(table, c) = ContactsOf(memory, c)
  BY <1>1 DEF ContactsOf
<1>3. CASE i \notin ContactsOf(memory, c)
  <2>1. UpdateInTable(c, i, u) = Refused(table, "unknown")
    BY <1>2, <1>3, Zenon DEF UpdateInTable
  <2>2. UpdateInMemory(c, i, u) = Refused(memory, "unknown")
    BY <1>3 DEF UpdateInMemory
  <2> QED BY <1>1, <2>1, <2>2 DEF Refused, Outcome, ContactInv
<1>4. CASE i \in ContactsOf(memory, c)
  <2>1. memory[i].client = c
    BY <1>4 DEF ContactsOf
  <2>2. UpdateInMemory(c, i, u) = Kept([memory EXCEPT ![i] = Edited(memory[i], u)], {i})
    BY <1>4 DEF UpdateInMemory
  <2>3. [memory EXCEPT ![i] = Edited(memory[i], u)] \in [Ids -> ContactRow]
    BY <1>1, EditedIsSet DEF ContactInv
  <2>4. UpdateInTable(c, i, u) = Kept([memory EXCEPT ![i] = Edited(memory[i], u)], {i})
    <3>1. CASE SetList(u) = {}
      <4>1. Edited(memory[i], u) = memory[i]
        BY <1>1, <3>1, EditedIsSet
      <4>2. [memory EXCEPT ![i] = Edited(memory[i], u)] = memory
        BY <1>1, <4>1 DEF ContactInv
      <4> QED BY <1>1, <1>2, <1>4, <3>1, <4>2 DEF UpdateInTable
    <3>2. CASE SetList(u) # {}
      <4>1. Edited(memory[i], u)
              = [f \in DOMAIN memory[i] |-> IF f \in SetList(u) THEN u[f] ELSE memory[i][f]]
        BY <1>1, EditedIsSet
      <4> QED BY <1>1, <1>2, <1>4, <3>2, <4>1 DEF UpdateInTable
    <3> QED BY <3>1, <3>2
  <2> QED BY <2>1, <2>2, <2>3, <2>4 DEF Kept, Outcome
<1> QED BY <1>3, <1>4

LEMMA DeletesAlike ==
    ASSUME ContactInv, NEW c \in Clients, NEW i \in Known
    PROVE  /\ DeleteInMemory(c, i) = DeleteInTable(c, i)
           /\ DeleteInTable(c, i).rows \in [Ids -> ContactRow]
           /\ memory[i].client # c => DeleteInTable(c, i).rows = table
<1>1. i \in Ids /\ memory[i] \in ContactRow /\ table = memory
  BY BoundsAssumption DEF ContactInv, Known, Ids
<1>2. ContactsOf(table, c) = ContactsOf(memory, c)
  BY <1>1 DEF ContactsOf
<1>3. NoContact \in ContactRow
  BY DEF NoContact, ContactRow
<1>4. CASE i \notin ContactsOf(memory, c)
  <2>1. ContactsOf(table, c) \cap {i} = {}
    BY <1>2, <1>4
  <2> QED
    BY <1>1, <1>4, <2>1 DEF DeleteInMemory, DeleteInTable, Refused, Outcome, ContactInv
<1>5. CASE i \in ContactsOf(memory, c)
  <2>1. ContactsOf(table, c) \cap {i} = {i} /\ memory[i].client = c
    BY <1>2, <1>5 DEF ContactsOf
  <2>2. [j \in Ids |-> IF j \in {i} THEN NoContact ELSE table[j]] = [memory EXCEPT ![i] = NoContact]
    BY <1>1 DEF ContactInv
  <2>3. [memory EXCEPT ![i] = NoContact] \in [Ids -> ContactRow]
    BY <1>3 DEF ContactInv
  <2> QED BY <1>5, <2>1, <2>2, <2>3 DEF DeleteInMemory, DeleteInTable, Kept, Outcome
<1> QED BY <1>4, <1>5

\* After any calls both builds hold the same contacts and answer alike, and none is
\* changed for a client that does not own it (safety/contacts.py).
THEOREM ContactsAgree == ContactSpec => []ContactBuildsAgree
<1>1. ContactInit => ContactInv
  BY BoundsAssumption DEF ContactInit, BuildsInit, ContactInv, NoContact, ContactRow
<1>2. ContactInv /\ [ContactNext]_buildVars => ContactInv'
  <2> SUFFICES ASSUME ContactInv, [ContactNext]_buildVars PROVE ContactInv'
    OBVIOUS
  <2>1. CASE CreateContact
    <3> PICK c \in Clients, role \in Roles :
            Creating /\ Both(CreateContactInMemory(c, role), CreateContactInTable(c, role))
      BY <2>1 DEF CreateContact
    <3>1. Contact(c, role) \in ContactRow
      BY DEF Contact, ContactRow, Cards, Roles
    <3>2. memory' = [memory EXCEPT ![NewId] = Contact(c, role)] /\ table' = memory'
      BY DEF Both, CreateContactInMemory, CreateContactInTable, Kept, Outcome, ContactInv
    <3>3. used' \in 0..MaxRows /\ service' = service
      BY BoundsAssumption DEF Creating, NewId, ContactInv, Both
    <3> QED BY <3>1, <3>2, <3>3 DEF ContactInv, NewId, Ids
  <2>2. CASE UpdateContact
    <3> PICK c \in Clients, i \in Known, u \in Updates :
            Calling /\ Both(UpdateInMemory(c, i, u), UpdateInTable(c, i, u))
      BY <2>2 DEF UpdateContact
    <3>1. memory' = UpdateInTable(c, i, u).rows /\ table' = memory'
      BY UpdatesAlike DEF Both
    <3> QED BY <3>1, UpdatesAlike DEF ContactInv, Ids, Both, Calling
  <2>3. CASE DeleteContact
    <3> PICK c \in Clients, i \in Known : Calling /\ Both(DeleteInMemory(c, i), DeleteInTable(c, i))
      BY <2>3 DEF DeleteContact
    <3>1. memory' = DeleteInTable(c, i).rows /\ table' = memory'
      BY DeletesAlike DEF Both
    <3> QED BY <3>1, DeletesAlike DEF ContactInv, Ids, Both, Calling
  <2>4. CASE UNCHANGED buildVars
    BY <2>4 DEF buildVars, ContactInv, Ids
  <2> QED BY <2>1, <2>2, <2>3, <2>4 DEF ContactNext
<1>3. ContactInv => ContactBuildsAgree
  <2> SUFFICES ASSUME ContactInv PROVE ContactBuildsAgree
    OBVIOUS
  <2>1. memory = table
    BY DEF ContactInv
  <2> QED BY <2>1, UpdatesAlike, DeletesAlike DEF ContactBuildsAgree, SameAnswer
<1> QED BY <1>1, <1>2, <1>3, PTL DEF ContactSpec

-----------------------------------------------------------------------------
(* Device sessions.                                                        *)

TokenRows == [client : Clients \cup {NoOne}, expires : Int]

\* Where the memory build has forgotten a token, the table's row stands for no one.
SessionInv ==
    /\ service = "sessions"
    /\ used \in 0..MaxRows
    /\ clock \in Nat
    /\ memory \in [Ids -> TokenRows]
    /\ table \in [Ids -> TokenRows]
    /\ \A i \in Ids : memory[i] = table[i] \/ (memory[i] = TokenFree /\ ClientOf(table, i) = NoOne)

\* How a step changes the row of a token that was issued before it.
Fading ==
    /\ clock' >= clock
    /\ \A i \in Known : /\ table'[i] \in {table[i], TokenFree}
                        /\ memory'[i] \in {memory[i], TokenFree}

LEMMA FreeStandsForNoOne ==
    ASSUME NEW rows, NEW i, rows[i] = TokenFree
    PROVE  ClientOf(rows, i) = NoOne
BY DEF ClientOf, TokenFree

LEMMA SessionStep ==
    ASSUME SessionInv, [SessionNext]_buildVars
    PROVE  SessionInv' /\ Fading
<1> USE DEF SessionInv
<1>1. TokenFree \in TokenRows
  BY DEF TokenFree, TokenRows, NoTime
<1>2. Known \subseteq Ids /\ NewId \notin Known
  BY BoundsAssumption DEF Known, Ids, NewId
<1>3. CASE IssueToken
  <2> PICK c \in Clients : Creating /\ Both(IssueInMemory(c), IssueInTable(c))
    BY <1>3 DEF IssueToken
  <2>1. /\ memory' = [memory EXCEPT ![NewId] = TokenRow(c)]
        /\ table' = [table EXCEPT ![NewId] = TokenRow(c)]
        /\ clock' = clock /\ service' = service
    BY DEF Both, IssueInMemory, IssueInTable, Kept, Outcome
  <2>2. TokenRow(c) \in TokenRows
    BY SessionAssumption DEF TokenRow, TokenRows
  <2>3. used' \in 0..MaxRows /\ NewId \in Ids
    BY BoundsAssumption DEF Creating, NewId, Ids
  <2>4. memory' \in [Ids -> TokenRows] /\ table' \in [Ids -> TokenRows]
    BY <2>1, <2>2
  <2>5. \A i \in Ids : \/ memory'[i] = table'[i]
                       \/ memory'[i] = TokenFree /\ ClientOf(table, i)' = NoOne
    BY <2>1 DEF ClientOf, TokenExpired
  <2>6. Fading
    BY <2>1, <1>2 DEF Fading
  <2> QED BY <2>1, <2>3, <2>4, <2>5, <2>6 DEF Ids
<1>4. CASE UseToken
  <2> PICK i \in Known : Calling /\ Both(ResolveInMemory(i), ResolveInTable(i))
    BY <1>4 DEF UseToken
  <2>1. /\ table' = table /\ clock' = clock /\ service' = service /\ used' = used
        /\ memory' = IF ClientOf(memory, i) = NoOne THEN [memory EXCEPT ![i] = TokenFree] ELSE memory
    BY DEF Both, Calling, ResolveInMemory, ResolveInTable, Kept, Refused, Outcome
  <2>2. memory' \in [Ids -> TokenRows]
    BY <2>1, <1>1
  <2>3. \A j \in Ids : ClientOf(table, j)' = ClientOf(table, j)
    BY <2>1 DEF ClientOf, TokenExpired
  <2>4. ASSUME NEW j \in Ids
        PROVE  \/ memory'[j] = table'[j]
               \/ memory'[j] = TokenFree /\ ClientOf(table, j)' = NoOne
    <3>1. CASE memory'[j] = memory[j]
      BY <2>1, <2>3, <3>1
    <3>2. CASE memory'[j] # memory[j]
      <4>1. j = i /\ ClientOf(memory, i) = NoOne /\ memory'[j] = TokenFree
        BY <2>1, <3>2
      <4>2. ClientOf(table, j) = NoOne
        BY <4>1 DEF ClientOf
      <4> QED BY <2>3, <4>1, <4>2
    <3> QED BY <3>1, <3>2
  <2>5. Fading
    BY <2>1, <1>2 DEF Fading
  <2> QED BY <2>1, <2>2, <2>4, <2>5 DEF Ids
<1>5. CASE RevokeToken
  <2> PICK i \in Known : Calling /\ Both(RevokeInMemory(i), RevokeInTable(i))
    BY <1>5 DEF RevokeToken
  <2>1. /\ memory' = [memory EXCEPT ![i] = TokenFree]
        /\ table' = [table EXCEPT ![i] = TokenFree]
        /\ clock' = clock /\ service' = service /\ used' = used
    BY DEF Both, Calling, RevokeInMemory, RevokeInTable, Kept, Outcome
  <2>2. memory' \in [Ids -> TokenRows] /\ table' \in [Ids -> TokenRows]
    BY <2>1, <1>1
  <2>3. \A j \in Ids : \/ memory'[j] = table'[j]
                       \/ memory'[j] = TokenFree /\ ClientOf(table, j)' = NoOne
    BY <2>1 DEF ClientOf, TokenExpired
  <2>4. Fading
    BY <2>1, <1>2 DEF Fading
  <2> QED BY <2>1, <2>2, <2>3, <2>4 DEF Ids
<1>6. CASE BuildsTick
  <2>1. /\ memory' = memory /\ table' = table /\ clock' = clock + 1
        /\ service' = service /\ used' = used
    BY <1>6 DEF BuildsTick
  <2>2. \A j \in Ids : ClientOf(table, j) = NoOne => ClientOf(table, j)' = NoOne
    BY <2>1 DEF ClientOf, TokenExpired, TokenRows
  <2> QED BY <2>1, <2>2 DEF Fading, Ids
<1>7. CASE UNCHANGED buildVars
  BY <1>7 DEF buildVars, Fading, ClientOf, TokenExpired, Ids
<1> QED BY <1>3, <1>4, <1>5, <1>6, <1>7 DEF SessionNext

\* For any lifetime of the tokens: both builds know a token as the same client's, and one
\* that has stood for no one never stands for anyone again (auth.py).
THEOREM TokensStayDead == SessionSpec => DeadTokensStayDead
<1> DEFINE Kills == \A i \in Known :
              /\ ClientOf(memory, i) = ClientOf(table, i)
              /\ ClientOf(table, i)' \in {ClientOf(table, i), NoOne}
              /\ ClientOf(memory, i)' \in {ClientOf(memory, i), NoOne}
              /\ \A c \in Clients :
                     Identified(ClientOf(table, i), i, c) = ClientOf(table, i)
<1>1. SessionInit => SessionInv
  BY BoundsAssumption DEF SessionInit, BuildsInit, SessionInv, TokenFree, TokenRows, NoTime
<1>2. SessionInv /\ [SessionNext]_buildVars => SessionInv'
  BY SessionStep
<1>3. SessionInv /\ [SessionNext]_buildVars => Kills
  <2> SUFFICES ASSUME SessionInv, [SessionNext]_buildVars, NEW i \in Known
               PROVE  /\ ClientOf(memory, i) = ClientOf(table, i)
                      /\ ClientOf(table, i)' \in {ClientOf(table, i), NoOne}
                      /\ ClientOf(memory, i)' \in {ClientOf(memory, i), NoOne}
                      /\ \A c \in Clients :
                             Identified(ClientOf(table, i), i, c) = ClientOf(table, i)
    OBVIOUS
  <2>1. /\ i \in Ids /\ i >= 1 /\ i \in Int /\ clock \in Nat /\ clock' \in Nat
        /\ memory[i] \in TokenRows /\ table[i] \in TokenRows
    BY SessionStep, BoundsAssumption DEF SessionInv, Known, Ids
  <2>2. Fading
    BY SessionStep
  <2>3. ClientOf(memory, i) = ClientOf(table, i)
    BY <2>1, FreeStandsForNoOne DEF SessionInv, ClientOf
  <2>4. ASSUME NEW rows, NEW rowsNext, rows[i] \in TokenRows, rowsNext[i] \in {rows[i], TokenFree}
        PROVE  (IF rowsNext[i].client = NoOne \/ clock' > rowsNext[i].expires
                THEN NoOne ELSE rowsNext[i].client) \in {ClientOf(rows, i), NoOne}
    BY <2>1, <2>2, <2>4 DEF ClientOf, TokenExpired, TokenRows, TokenFree, Fading
  <2>5. ClientOf(table, i)' \in {ClientOf(table, i), NoOne}
    BY <2>1, <2>2, <2>4 DEF ClientOf, TokenExpired, Fading
  <2>6. ClientOf(memory, i)' \in {ClientOf(memory, i), NoOne}
    BY <2>1, <2>2, <2>4 DEF ClientOf, TokenExpired, Fading
  <2>7. \A c \in Clients : Identified(ClientOf(table, i), i, c) = ClientOf(table, i)
    BY <2>1 DEF Identified, NoToken, EmptyToken
  <2> QED BY <2>3, <2>5, <2>6, <2>7
<1>4. Kills => (service = "sessions" => Kills)
  OBVIOUS
<1> QED BY <1>1, <1>2, <1>3, PTL DEF SessionSpec, DeadTokensStayDead

-----------------------------------------------------------------------------
(* Voice guidance.                                                         *)

VoiceRow ==
    [client : Clients \cup {NoOne}, route : Routes, active : BOOLEAN, ended : Int]

\* A client that has started at most one session, and on no ill-formed route.
Single(c) ==
    /\ \A i, j \in VoiceOf(memory, c) : i = j
    /\ \A i \in VoiceOf(memory, c) : memory[i].route # "word"

VoiceTypes ==
    /\ service = "voice"
    /\ used \in 0..MaxRows
    /\ clock \in Int
    /\ memory \in [Ids -> VoiceRow]
    /\ table \in [Ids -> VoiceRow]

\* The table holds the same client's row as memory or, for an ill-formed route, none.
VoiceInv ==
    /\ VoiceTypes
    /\ \A i \in Ids : i > used => memory[i].client = NoOne
    /\ \A i \in Ids : table[i].client \in {memory[i].client, NoOne}
    /\ \A c \in Clients : Single(c) =>
           \A i \in VoiceOf(memory, c) : memory[i] = table[i]

\* A stop changes no more than one speaking session of the client that asks.
Stopped(rows, rowsNext, c) ==
    \A i \in Ids :
        \/ rowsNext[i] = rows[i]
        \/ /\ rows[i].client = c
           /\ rowsNext[i] = [rows[i] EXCEPT !.active = FALSE, !.ended = clock]

LEMMA LeastExists ==
    ASSUME NEW S \in SUBSET Nat, S # {}
    PROVE  \E n \in S : \A j \in S : n <= j
<1> DEFINE Below == OpToRel(<, Nat)
<1>1. IsWellFoundedOn(Below, Nat)
  BY NatLessThanWellFounded
<1>2. \A i, j \in Nat : <<i, j>> \in Below <=> i < j
  BY DEF OpToRel
<1> HIDE DEF Below
<1>3. PICK n \in S : \A j \in S : ~(<<j, n>> \in Below)
  BY <1>1, WFMin, Zenon
<1>4. ASSUME NEW j \in S PROVE n <= j
  <2>1. j \in Nat /\ n \in Nat
    OBVIOUS
  <2>2. ~(j < n)
    BY <1>2, <1>3, <2>1
  <2> QED BY <2>1, <2>2
<1> QED BY <1>3, <1>4

LEMMA OldestIsMember ==
    ASSUME NEW S \in SUBSET Nat, S # {}
    PROVE  Oldest(S) \in S
BY LeastExists DEF Oldest

\* Sessions of one client are finitely many, and fewer than two are at most one.
LEMMA FewAreOne ==
    ASSUME NEW S \in SUBSET Ids
    PROVE  /\ Cardinality(S) \in Nat
           /\ Cardinality(S) < 2 <=> \A i, j \in S : i = j
           /\ S # {} => Oldest(S) \in S
<1>1. IsFiniteSet(Ids)
  BY FS_Interval, BoundsAssumption DEF Ids
<1>2. IsFiniteSet(S)
  BY <1>1, FS_Subset
<1>3. Cardinality(S) \in Nat
  BY <1>2, FS_CardinalityType
<1>4. ASSUME Cardinality(S) < 2, NEW i \in S, NEW j \in S, i # j PROVE FALSE
  <2> DEFINE T == S \ {i}
  <2>1. Cardinality(T) = Cardinality(S) - 1 /\ IsFiniteSet(T)
    BY <1>2, <1>4, FS_RemoveElement
  <2>2. IsFiniteSet(T \ {j}) /\ Cardinality(T \ {j}) = Cardinality(T) - 1
    <3>1. j \in T
      BY <1>4
    <3> HIDE DEF T
    <3> QED BY <2>1, <3>1, FS_RemoveElement
  <2>3. Cardinality(T \ {j}) \in Nat
    BY <2>2, FS_CardinalityType
  <2> QED BY <1>3, <1>4, <2>1, <2>2, <2>3
<1>5. ASSUME \A i, j \in S : i = j PROVE Cardinality(S) < 2
  <2>1. CASE S = {}
    BY <2>1, FS_EmptySet
  <2>2. CASE S # {}
    <3>1. \E i : S = {i}
      BY <1>5, <2>2
    <3> QED BY <3>1, FS_Singleton
  <2> QED BY <2>1, <2>2
<1>6. S # {} => Oldest(S) \in S
  BY OldestIsMember, BoundsAssumption DEF Ids
<1> QED BY <1>3, <1>4, <1>5, <1>6

\* A stop of the memory build silences the client's oldest speaking session.
LEMMA MemoryStops ==
    ASSUME NEW c \in Clients
    PROVE  LET i == Oldest(Speaking(memory, c))
           IN  IF Speaking(memory, c) = {}
               THEN StopInMemory(c) = Refused(memory, "unknown")
               ELSE /\ i \in Speaking(memory, c)
                    /\ StopInMemory(c) = Kept(Silenced(memory, i), {i})
<1>1. Speaking(memory, c) \in SUBSET Ids
  BY DEF Speaking, VoiceOf
<1> QED BY <1>1, FewAreOne DEF StopInMemory

\* One of the table silences the only speaking session, or changes nothing.
LEMMA TableStops ==
    ASSUME NEW c \in Clients
    PROVE  \/ /\ StopInTable(c) = Refused(table, "unknown")
              /\ Speaking(table, c) = {}
           \/ /\ StopInTable(c) = Refused(table, "failed")
              /\ ~(\A i, j \in Speaking(table, c) : i = j)
           \/ \E i \in Ids : /\ Speaking(table, c) = {i}
                             /\ i = Oldest(Speaking(table, c))
                             /\ StopInTable(c) = Kept(Silenced(table, i), {i})
<1> DEFINE S == Speaking(table, c)
<1>1. S \in SUBSET Ids
  BY DEF Speaking, VoiceOf
<1>2. /\ Cardinality(S) \in Nat
      /\ Cardinality(S) < 2 <=> \A i, j \in S : i = j
      /\ S # {} => Oldest(S) \in S
  BY <1>1, FewAreOne
<1>3. CASE S = {}
  <2>1. Cardinality(S) = 0
    BY <1>3, FS_EmptySet
  <2> QED BY <1>3, <2>1 DEF StopInTable
<1>4. CASE S # {} /\ Cardinality(S) > 1
  BY <1>2, <1>4 DEF StopInTable
<1>5. CASE S # {} /\ ~(Cardinality(S) > 1)
  <2>1. S = {Oldest(S)}
    BY <1>2, <1>5
  <2>2. StopInTable(c) = Kept(Silenced(table, Oldest(S)), {Oldest(S)})
    BY <1>5 DEF StopInTable
  <2> QED BY <1>1, <1>2, <1>5, <2>1, <2>2
<1> QED BY <1>3, <1>4, <1>5

LEMMA SilencedIsStopped ==
    ASSUME NEW rows \in [Ids -> VoiceRow], NEW c, NEW i \in Ids, rows[i].client = c, clock \in Int
    PROVE  /\ Silenced(rows, i) \in [Ids -> VoiceRow]
           /\ Stopped(rows, Silenced(rows, i), c)
<1>1. Silenced(rows, i) = [rows EXCEPT ![i] = [rows[i] EXCEPT !.active = FALSE, !.ended = clock]]
  BY DEF Silenced
<1>2. [rows[i] EXCEPT !.active = FALSE, !.ended = clock] \in VoiceRow
  BY DEF VoiceRow
<1> QED BY <1>1, <1>2 DEF Stopped

LEMMA StopsAreStopped ==
    ASSUME VoiceTypes, NEW c \in Clients
    PROVE  /\ StopInMemory(c).rows \in [Ids -> VoiceRow]
           /\ StopInTable(c).rows \in [Ids -> VoiceRow]
           /\ Stopped(memory, StopInMemory(c).rows, c)
           /\ Stopped(table, StopInTable(c).rows, c)
<1>1. Stopped(memory, memory, c) /\ Stopped(table, table, c)
  BY DEF Stopped
<1>2. /\ StopInMemory(c).rows \in [Ids -> VoiceRow]
      /\ Stopped(memory, StopInMemory(c).rows, c)
  <2> DEFINE i == Oldest(Speaking(memory, c))
  <2>1. CASE Speaking(memory, c) = {}
    <3>1. StopInMemory(c).rows = memory
      <4>1. StopInMemory(c) = Refused(memory, "unknown")
        BY <2>1 DEF StopInMemory
      <4> QED BY <4>1 DEF Refused, Outcome
    <3> QED BY <1>1, <3>1 DEF VoiceTypes
  <2>2. CASE Speaking(memory, c) # {}
    <3>1. i \in Speaking(memory, c) /\ StopInMemory(c).rows = Silenced(memory, i)
      BY <2>2, MemoryStops DEF Kept, Outcome
    <3>2. i \in Ids /\ memory[i].client = c
      BY <3>1 DEF Speaking, VoiceOf
    <3> QED BY <3>1, <3>2, SilencedIsStopped DEF VoiceTypes
  <2> QED BY <2>1, <2>2
<1>3. /\ StopInTable(c).rows \in [Ids -> VoiceRow]
      /\ Stopped(table, StopInTable(c).rows, c)
  <2>1. CASE StopInTable(c).rows = table
    BY <1>1, <2>1 DEF VoiceTypes
  <2>2. CASE StopInTable(c).rows # table
    <3>1. PICK i \in Speaking(table, c) : StopInTable(c).rows = Silenced(table, i)
      BY <2>2, TableStops DEF Refused, Kept, Outcome
    <3>2. i \in Ids /\ table[i].client = c
      BY DEF Speaking, VoiceOf
    <3> QED BY <3>1, <3>2, SilencedIsStopped DEF VoiceTypes
  <2> QED BY <2>1, <2>2
<1> QED BY <1>2, <1>3

\* What the two builds hold and answer for a client of one well-formed session.
LEMMA SinglesAgree ==
    ASSUME VoiceInv, NEW c \in Clients, Single(c)
    PROVE  /\ VoiceOf(memory, c) = VoiceOf(table, c)
           /\ \A i \in VoiceOf(memory, c) :
                  /\ memory[i] = table[i]
                  /\ StopInMemory(c).rows[i] = StopInTable(c).rows[i]
           /\ SameAnswer(VoiceStatusInMemory(c), VoiceStatusInTable(c))
           /\ SameAnswer(StopInMemory(c), StopInTable(c))
<1>1. VoiceOf(memory, c) = VoiceOf(table, c)
  BY NoOneAssumption DEF VoiceInv, VoiceOf
<1>2. \A i \in VoiceOf(memory, c) : memory[i] = table[i]
  BY DEF VoiceInv
<1>3. Speaking(memory, c) = Speaking(table, c) /\ Speaking(table, c) \subseteq VoiceOf(memory, c)
  BY <1>1, <1>2 DEF Speaking
<1>4. SameAnswer(VoiceStatusInMemory(c), VoiceStatusInTable(c))
  <2> DEFINE S == VoiceOf(memory, c)
  <2>1. CASE S = {}
    BY <1>1, <2>1 DEF VoiceStatusInMemory, VoiceStatusInTable, Picked, Refused, Outcome, SameAnswer
  <2>2. CASE S # {}
    <3>1. PICK i \in Nat : S = {i}
      BY <2>2, BoundsAssumption DEF Single, VoiceOf, Ids
    <3>2. Oldest({i}) = i /\ Newest({i}) = i
      BY DEF Oldest, Newest
    <3> QED
      BY <1>1, <3>1, <3>2 DEF VoiceStatusInMemory, VoiceStatusInTable, Picked, Kept, Outcome, SameAnswer
  <2> QED BY <2>1, <2>2
<1>5. CASE Speaking(table, c) = {}
  <2>1. StopInMemory(c) = Refused(memory, "unknown") /\ StopInTable(c) = Refused(table, "unknown")
    BY <1>3, <1>5, MemoryStops, TableStops
  <2> QED BY <1>1, <1>2, <1>4, <2>1 DEF Refused, Outcome, SameAnswer
<1>6. CASE Speaking(table, c) # {}
  <2>1. \A i, j \in Speaking(table, c) : i = j
    BY <1>3 DEF Single
  <2>2. PICK i \in Ids : /\ Speaking(table, c) = {i}
                         /\ i = Oldest(Speaking(table, c))
                         /\ StopInTable(c) = Kept(Silenced(table, i), {i})
    BY <1>6, <2>1, TableStops
  <2>3. StopInMemory(c) = Kept(Silenced(memory, i), {i})
    BY <1>3, <1>6, <2>2, MemoryStops
  <2>4. VoiceOf(memory, c) = {i} /\ memory[i] = table[i]
    BY <1>2, <1>3, <2>2 DEF Single
  <2>5. Silenced(memory, i)[i] = Silenced(table, i)[i]
    BY <2>4 DEF Silenced, VoiceInv, VoiceTypes
  <2> QED BY <1>1, <1>2, <1>4, <2>2, <2>3, <2>4, <2>5 DEF Kept, Outcome, SameAnswer
<1> QED BY <1>5, <1>6

LEMMA VoiceStarts ==
    ASSUME VoiceInv, StartVoice
    PROVE  VoiceInv'
<1> PICK c \in Clients, route \in Routes :
        Creating /\ Both(StartInMemory(c, route), StartInTable(c, route))
  BY DEF StartVoice
<1> DEFINE row == [client |-> c, route |-> route, active |-> TRUE, ended |-> NoTime]
<1>1. /\ memory' = [memory EXCEPT ![NewId] = row]
      /\ table' = IF route = "word" THEN table ELSE [table EXCEPT ![NewId] = row]
      /\ clock' = clock /\ service' = service /\ used' = NewId
  BY DEF Both, Creating, StartInMemory, StartInTable, Kept, Refused, Outcome
<1>2. /\ used \in Nat /\ NewId \in Ids /\ NewId \in 0..MaxRows /\ NewId > used
      /\ \A i \in Ids : i > NewId => i > used
  BY BoundsAssumption DEF Creating, NewId, Ids, VoiceInv, VoiceTypes
<1>3. row \in VoiceRow
  BY DEF VoiceRow, NoTime
<1> HIDE DEF row
<1>4. VoiceTypes'
  BY <1>1, <1>2, <1>3 DEF VoiceInv, VoiceTypes, Ids
<1>5. memory[NewId].client = NoOne /\ table[NewId].client = NoOne
  BY <1>2 DEF VoiceInv
<1>6. row.client = c /\ row.route = route /\ c # NoOne
  BY NoOneAssumption DEF row
<1>7. \A i \in Ids : i # NewId => memory'[i] = memory[i] /\ table'[i] = table[i]
  BY <1>1 DEF VoiceInv, VoiceTypes
<1>8. /\ memory'[NewId] = row
      /\ table'[NewId] = IF route = "word" THEN table[NewId] ELSE row
  BY <1>1, <1>2 DEF VoiceInv, VoiceTypes
<1>9. \A i \in Ids : i > used' => memory'[i].client = NoOne
  BY <1>1, <1>2, <1>7 DEF VoiceInv, Ids
<1>10. \A i \in Ids : table'[i].client \in {memory'[i].client, NoOne}
  BY <1>5, <1>6, <1>7, <1>8 DEF VoiceInv
<1>11. ASSUME NEW d \in Clients, Single(d)', NEW i \in VoiceOf(memory', d)
       PROVE  memory'[i] = table'[i]
  <2>1. i \in Ids /\ memory'[i].client = d /\ d # NoOne
    BY <1>11, NoOneAssumption DEF VoiceOf, Ids
  <2>2. CASE i = NewId
    <3>1. route # "word"
      BY <1>6, <1>8, <1>11, <2>2 DEF Single, VoiceOf
    <3> QED BY <1>8, <2>2, <3>1
  <2>3. CASE i # NewId
    <3>1. VoiceOf(memory, d) \subseteq VoiceOf(memory', d) /\ i \in VoiceOf(memory, d)
      BY <1>5, <1>7, <2>1, <2>3 DEF VoiceOf, Ids
    <3>2. NewId \notin VoiceOf(memory, d)
      BY <1>5, <2>1 DEF VoiceOf
    <3>3. Single(d)
      BY <1>7, <1>11, <3>1, <3>2 DEF Single, VoiceOf, Ids
    <3> QED BY <1>7, <2>1, <2>3, <3>1, <3>3 DEF VoiceInv
  <2> QED BY <2>2, <2>3
<1> QED BY <1>4, <1>9, <1>10, <1>11 DEF VoiceInv, VoiceOf, Ids

LEMMA VoiceStops ==
    ASSUME VoiceInv, StopVoice
    PROVE  VoiceInv'
<1> PICK c \in Clients : Calling /\ Both(StopInMemory(c), StopInTable(c))
  BY DEF StopVoice
<1>1. /\ memory' = StopInMemory(c).rows /\ table' = StopInTable(c).rows
      /\ clock' = clock /\ service' = service /\ used' = used
  BY DEF Both, Calling
<1>2. /\ memory' \in [Ids -> VoiceRow] /\ table' \in [Ids -> VoiceRow]
      /\ Stopped(memory, memory', c) /\ Stopped(table, table', c)
  BY <1>1, StopsAreStopped DEF VoiceInv
<1>3. \A i \in Ids : /\ memory'[i].client = memory[i].client
                     /\ memory'[i].route = memory[i].route
                     /\ table'[i].client = table[i].client
  <2>1. SUFFICES ASSUME NEW rows \in [Ids -> VoiceRow], NEW rowsNext, Stopped(rows, rowsNext, c),
                        NEW i \in Ids
                 PROVE  rowsNext[i].client = rows[i].client /\ rowsNext[i].route = rows[i].route
    BY <1>2 DEF VoiceInv, VoiceTypes
  <2>2. rows[i] \in VoiceRow
    OBVIOUS
  <2>3. LET row == [rows[i] EXCEPT !.active = FALSE, !.ended = clock]
        IN  row.client = rows[i].client /\ row.route = rows[i].route
    BY <2>2 DEF VoiceRow
  <2> QED BY <2>1, <2>3 DEF Stopped
<1>4. VoiceTypes'
  BY <1>1, <1>2 DEF VoiceInv, VoiceTypes, Ids
<1>5. ASSUME NEW d \in Clients, Single(d)', NEW i \in VoiceOf(memory', d)
      PROVE  memory'[i] = table'[i]
  <2>1. VoiceOf(memory', d) = VoiceOf(memory, d) /\ i \in Ids
    BY <1>3, <1>5 DEF VoiceOf, Ids
  <2>2. Single(d)
    BY <1>3, <1>5, <2>1 DEF Single, VoiceOf, Ids
  <2>3. CASE d = c
    BY <1>1, <1>5, <2>1, <2>2, <2>3, SinglesAgree
  <2>4. CASE d # c
    <3>1. memory[i].client = d /\ memory[i] = table[i]
      BY <1>5, <2>1, <2>2 DEF VoiceInv, VoiceOf
    <3> QED BY <1>2, <2>1, <2>4, <3>1 DEF Stopped
  <2> QED BY <2>3, <2>4
<1> QED BY <1>1, <1>3, <1>4, <1>5 DEF VoiceInv, VoiceOf, Ids

LEMMA VoiceInductive ==
    /\ VoiceInit => VoiceInv
    /\ VoiceInv /\ [VoiceNext]_buildVars => VoiceInv'
<1>1. VoiceInit => VoiceInv
  BY BoundsAssumption, NoOneAssumption
  DEF VoiceInit, BuildsInit, VoiceInv, VoiceTypes, VoiceFree, VoiceRow, Routes, NoTime, VoiceOf
<1>2. ASSUME VoiceInv, [VoiceNext]_buildVars PROVE VoiceInv'
  <2>1. CASE BuildsTick
    BY <1>2, <2>1 DEF BuildsTick, VoiceInv, VoiceTypes, Single, VoiceOf, Ids
  <2>2. CASE UNCHANGED buildVars
    BY <1>2, <2>2 DEF buildVars, VoiceInv, VoiceTypes, Single, VoiceOf, Ids
  <2> QED BY <1>2, <2>1, <2>2, VoiceStarts, VoiceStops DEF VoiceNext
<1> QED BY <1>1, <1>2

\* For any number of sessions and clients: one that started at most one well-formed
\* session meets the same service in both builds (safety/voice_guidance.py).
THEOREM SinglesMeetOneService == VoiceSpec => []VoiceBuildsAgree
<1>1. VoiceInv => VoiceBuildsAgree
  <2> SUFFICES ASSUME VoiceInv, NEW c \in Clients,
                      Cardinality(VoiceOf(memory, c)) < 2,
                      \A i \in VoiceOf(memory, c) : memory[i].route # "word"
               PROVE  /\ VoiceOf(memory, c) = VoiceOf(table, c)
                      /\ \A i \in VoiceOf(memory, c) : memory[i] = table[i]
                      /\ SameAnswer(VoiceStatusInMemory(c), VoiceStatusInTable(c))
                      /\ SameAnswer(StopInMemory(c), StopInTable(c))
    BY DEF VoiceBuildsAgree
  <2>1. VoiceOf(memory, c) \in SUBSET Ids
    BY DEF VoiceOf
  <2>2. Single(c)
    BY <2>1, FewAreOne DEF Single
  <2> QED BY <2>2, SinglesAgree
<1> QED BY <1>1, VoiceInductive, PTL DEF VoiceSpec

\* A stop of the table is complete or leaves no trace, however many sessions speak.
THEOREM StopsAreComplete == VoiceSpec => []StopIsComplete
<1>1. VoiceInv => StopIsComplete
  <2> SUFFICES ASSUME VoiceInv, NEW c \in Clients
               PROVE  IF StopInTable(c).code = "ok"
                      THEN Speaking(StopInTable(c).rows, c) = {}
                      ELSE StopInTable(c).rows = table
    BY DEF StopIsComplete
  <2>1. CASE StopInTable(c) \in {Refused(table, "unknown"), Refused(table, "failed")}
    BY <2>1 DEF Refused, Outcome
  <2>2. CASE \E i \in Ids : /\ Speaking(table, c) = {i}
                            /\ StopInTable(c) = Kept(Silenced(table, i), {i})
    <3> PICK i \in Ids : /\ Speaking(table, c) = {i}
                         /\ StopInTable(c) = Kept(Silenced(table, i), {i})
      BY <2>2
    <3>1. table \in [Ids -> VoiceRow] /\ table[i].client = c /\ clock \in Int
      BY DEF VoiceInv, VoiceTypes, Speaking, VoiceOf
    <3>2. Stopped(table, Silenced(table, i), c)
      BY <3>1, SilencedIsStopped
    <3>3. Silenced(table, i)[i].active = FALSE
      BY <3>1 DEF Silenced, VoiceRow
    <3>4. Speaking(Silenced(table, i), c) \subseteq Speaking(table, c) \ {i}
      BY <3>1, <3>2, <3>3 DEF Speaking, VoiceOf, Stopped, VoiceRow
    <3> QED BY <3>4 DEF Kept, Outcome
  <2> QED BY <2>1, <2>2, TableStops
<1> QED BY <1>1, VoiceInductive, PTL DEF VoiceSpec

-----------------------------------------------------------------------------
(* Fake calls.                                                             *)

CallRow ==
    [client : Clients \cup {NoOne}, status : {"FREE", "SCHEDULED", "TRIGGERED"},
     at : NoTime..MaxClock, zoned : BOOLEAN, rang : Int]

\* A call without a zone may have rung in the table, and cannot in memory.
CallInv ==
    /\ service = "fakecall"
    /\ used \in 0..MaxRows
    /\ clock \in Nat
    /\ memory \in [Ids -> CallRow]
    /\ table \in [Ids -> CallRow]
    /\ \A i \in Ids :
         /\ memory[i].client = table[i].client /\ memory[i].at = table[i].at
         /\ memory[i].zoned => memory[i] = table[i]
         /\ table[i].rang # NoTime => table[i].rang >= table[i].at

\* The times are bounded, so that some call of a client that has calls is its latest.
LEMMA LatestOfSome ==
    ASSUME NEW rows \in [Ids -> CallRow], NEW c
    PROVE  LatestCalls(rows, c) = {} <=> CallsOf(rows, c) = {}
<1> SUFFICES ASSUME CallsOf(rows, c) # {} PROVE LatestCalls(rows, c) # {}
  BY DEF LatestCalls
<1> PICK left : left = [i \in Ids |-> MaxClock - rows[i].at]
  OBVIOUS
<1>1. CallsOf(rows, c) \in SUBSET Ids /\ \A i \in Ids : rows[i].at \in NoTime..MaxClock
  BY DEF CallsOf, CallRow
<1>2. \A i \in Ids : left[i] \in Nat /\ left[i] = MaxClock - rows[i].at
  BY <1>1, BoundsAssumption DEF NoTime
<1> PICK S : S = {left[i] : i \in CallsOf(rows, c)}
  OBVIOUS
<1>3. S \in SUBSET Nat /\ S # {}
  BY <1>1, <1>2
<1>4. PICK least \in S : \A n \in S : least <= n
  BY <1>3, LeastExists
<1>5. PICK i \in CallsOf(rows, c) : least = left[i]
  BY <1>4
<1>6. ASSUME NEW j \in CallsOf(rows, c) PROVE rows[j].at <= rows[i].at
  <2>1. left[i] <= left[j]
    BY <1>4, <1>5
  <2>2. rows[i].at \in Int /\ rows[j].at \in Int /\ MaxClock \in Int
    BY <1>1, BoundsAssumption DEF NoTime
  <2> QED BY <1>1, <1>2, <2>1, <2>2
<1> QED BY <1>6 DEF LatestCalls

LEMMA RungIsCall ==
    ASSUME NEW row \in CallRow, NEW t \in Nat
    PROVE  LET rung == [row EXCEPT !.status = "TRIGGERED", !.rang = t]
           IN  /\ rung \in CallRow /\ rung.client = row.client /\ rung.at = row.at
               /\ rung.zoned = row.zoned /\ rung.rang = t
<1> DEFINE rung == [row EXCEPT !.status = "TRIGGERED", !.rang = t]
<1>1. /\ row.client \in Clients \cup {NoOne} /\ row.at \in Int /\ row.zoned \in BOOLEAN
      /\ t \in Int /\ DOMAIN row = {"client", "status", "at", "zoned", "rang"}
  BY DEF CallRow
<1>2. /\ rung.status = "TRIGGERED" /\ rung.rang = t
      /\ rung.client = row.client /\ rung.at = row.at
  BY <1>1
<1>3. rung.zoned = row.zoned
  BY <1>1, Zenon
<1>4. rung = [client |-> row.client, status |-> "TRIGGERED", at |-> row.at,
              zoned |-> row.zoned, rang |-> t]
  <2>1. /\ rung = [f \in DOMAIN rung |-> rung[f]]
        /\ DOMAIN rung = {"client", "status", "at", "zoned", "rang"}
    BY <1>1
  <2> HIDE DEF rung
  <2> QED BY <1>2, <1>3, <2>1
<1> QED BY <1>1, <1>2, <1>3, <1>4 DEF CallRow

\* What a call asked for by its id is in either build.
LEMMA GetsAreRings ==
    ASSUME CallInv, NEW c \in Clients, NEW i \in 0..used
    PROVE  /\ GetInMemory(c, i).rows \in {memory, Ringing(memory, i)}
           /\ GetInTable(c, i).rows \in {table, Ringing(table, i)}
           /\ GetInMemory(c, i).rows # memory =>
                  i \in Ids /\ IsDue(memory[i]) /\ memory[i].zoned /\ memory[i].client = c
           /\ GetInTable(c, i).rows # table => i \in Ids /\ IsDue(table[i]) /\ table[i].client = c
           /\ i \in Ids /\ memory[i].zoned => SameAnswer(GetInMemory(c, i), GetInTable(c, i))
           /\ i \in Ids /\ memory[i].zoned /\ IsDue(memory[i]) /\ memory[i].client = c =>
                  /\ GetInMemory(c, i).rows = Ringing(memory, i)
                  /\ GetInTable(c, i).rows = Ringing(table, i)
<1>1. i = Malformed <=> i \notin Ids
  BY BoundsAssumption DEF CallInv, Ids, Malformed
<1>2. CallsOf(memory, c) = CallsOf(table, c) /\ (i \in CallsOf(table, c) => i \in Ids)
  BY DEF CallInv, CallsOf
<1>3. i \in CallsOf(table, c) => i \in Ids /\ memory[i].client = c /\ table[i].client = c
  BY <1>2 DEF CallsOf
<1>4. CASE i \notin CallsOf(table, c)
  <2>1. GetInMemory(c, i) = Refused(memory, "unknown")
    BY <1>2, <1>4 DEF GetInMemory
  <2>2. /\ GetInTable(c, i).rows = table
        /\ i \in Ids => GetInTable(c, i) = Refused(table, "unknown")
    BY <1>1, <1>4 DEF GetInTable, Refused, Outcome
  <2>3. i \in Ids => memory[i].client # c
    BY <1>2, <1>4 DEF CallsOf
  <2> QED BY <2>1, <2>2, <2>3 DEF Refused, Outcome, SameAnswer
<1>5. CASE i \in CallsOf(table, c)
  <2>1. GetInTable(c, i) = Kept(IF IsDue(table[i]) THEN Ringing(table, i) ELSE table, {i})
    BY <1>1, <1>3, <1>5 DEF GetInTable
  <2>2. CASE memory[i].zoned
    <3>1. GetInMemory(c, i) = Kept(IF IsDue(memory[i]) THEN Ringing(memory, i) ELSE memory, {i})
      BY <1>2, <1>5, <2>2 DEF GetInMemory
    <3>2. memory[i] = table[i]
      BY <1>3, <1>5, <2>2 DEF CallInv
    <3> QED BY <1>3, <1>5, <2>1, <2>2, <3>1, <3>2 DEF Kept, Outcome, SameAnswer
  <2>3. CASE ~memory[i].zoned
    <3>1. \/ GetInMemory(c, i) = Refused(memory, "failed")
          \/ GetInMemory(c, i) = Kept(memory, {i})
      BY <1>2, <1>5, <2>3 DEF GetInMemory, IsDue
    <3> QED BY <1>3, <1>5, <2>1, <2>3, <3>1 DEF Kept, Refused, Outcome
  <2> QED BY <2>2, <2>3
<1> QED BY <1>4, <1>5

LEMMA CallStep ==
    ASSUME CallInv, GetFakeCall
    PROVE  CallInv'
<1> PICK c \in Clients, i \in 0..used : Calling /\ Both(GetInMemory(c, i), GetInTable(c, i))
  BY DEF GetFakeCall
<1>1. /\ memory' = GetInMemory(c, i).rows /\ table' = GetInTable(c, i).rows
      /\ used' = used /\ clock' = clock /\ service' = service
  BY DEF Calling, Both
<1>2. CASE memory' = memory /\ table' = table
  BY <1>1, <1>2 DEF CallInv, Ids
<1>3. CASE ~(memory' = memory /\ table' = table)
  <2>1. i \in Ids /\ IsDue(table[i]) /\ memory[i] \in CallRow /\ table[i] \in CallRow
    BY <1>1, <1>3, GetsAreRings DEF CallInv
  <2> DEFINE rung(row) == [row EXCEPT !.status = "TRIGGERED", !.rang = clock]
  <2>2. /\ Ringing(memory, i) = [memory EXCEPT ![i] = rung(memory[i])]
        /\ Ringing(table, i) = [table EXCEPT ![i] = rung(table[i])]
    BY <2>1 DEF Ringing, CallInv
  <2>3. /\ rung(memory[i]) \in CallRow /\ rung(table[i]) \in CallRow
        /\ rung(memory[i]).client = memory[i].client /\ rung(memory[i]).at = memory[i].at
        /\ rung(table[i]).client = table[i].client /\ rung(table[i]).at = table[i].at
        /\ rung(memory[i]).zoned = memory[i].zoned
        /\ rung(table[i]).rang = clock
    BY <2>1, RungIsCall DEF CallInv
  <2>4. table[i].at <= clock
    BY <2>1 DEF IsDue
  <2>5. memory[i].zoned => memory' = Ringing(memory, i) /\ table' = Ringing(table, i)
    <3>1. memory[i].zoned => memory[i] = table[i]
      BY <2>1 DEF CallInv
    <3> QED BY <1>1, <1>3, <2>1, <3>1, GetsAreRings
  <2>6. memory' \in {memory, Ringing(memory, i)} /\ table' \in {table, Ringing(table, i)}
    BY <1>1, GetsAreRings
  <2> HIDE DEF rung
  <2>7. memory' \in [Ids -> CallRow] /\ table' \in [Ids -> CallRow]
    BY <2>2, <2>3, <2>6 DEF CallInv
  <2>8. ASSUME NEW j \in Ids
        PROVE  /\ memory'[j].client = table'[j].client /\ memory'[j].at = table'[j].at
               /\ memory'[j].zoned => memory'[j] = table'[j]
               /\ table'[j].rang # NoTime => table'[j].rang >= table'[j].at
    <3>1. CASE j # i
      <4>1. memory'[j] = memory[j] /\ table'[j] = table[j]
        BY <2>2, <2>6, <3>1 DEF CallInv
      <4> QED BY <4>1 DEF CallInv
    <3>2. CASE j = i
      <4>1. memory'[i] \in {memory[i], rung(memory[i])} /\ table'[i] \in {table[i], rung(table[i])}
        BY <2>1, <2>2, <2>6 DEF CallInv
      <4>2. memory[i].zoned => memory[i] = table[i] /\ memory'[i] = rung(memory[i]) /\ table'[i] = rung(table[i])
        BY <2>1, <2>2, <2>5 DEF CallInv
      <4>3. memory[i].client = table[i].client /\ memory[i].at = table[i].at
            /\ (table[i].rang # NoTime => table[i].rang >= table[i].at)
        BY <2>1 DEF CallInv
      <4>4. table[i].at \in Int /\ clock \in Nat /\ clock >= table[i].at
        BY <2>1, <2>4 DEF CallInv, CallRow
      <4> QED BY <2>3, <3>2, <4>1, <4>2, <4>3, <4>4
    <3> QED BY <3>1, <3>2
  <2> QED BY <1>1, <2>7, <2>8 DEF CallInv, Ids
<1> QED BY <1>2, <1>3

\* For any calls, any times and any number of clients: a fake call rings in both builds
\* or in neither, and never early, unless it was scheduled without a zone
\* (safety/fake_call.py).
THEOREM CallsRingAlike == FakeCallSpec => []FakeCallsAgree
<1>1. FakeCallInit => CallInv
  BY BoundsAssumption DEF FakeCallInit, BuildsInit, CallInv, CallFree, CallRow, NoTime
<1>2. ASSUME CallInv, [FakeCallNext]_buildVars PROVE CallInv'
  <2>1. CASE CreateFakeCall
    <3> PICK c \in Clients, at \in 0..MaxClock, zoned \in BOOLEAN :
            Creating /\ Both(ScheduleInMemory(c, at, zoned), ScheduleInTable(c, at))
      BY <2>1 DEF CreateFakeCall
    <3>1. /\ memory' = [memory EXCEPT ![NewId] = Scheduled(c, at, zoned)]
          /\ table' = [table EXCEPT ![NewId] = Scheduled(c, at, TRUE)]
          /\ clock' = clock /\ service' = service
      BY DEF Both, ScheduleInMemory, ScheduleInTable, Kept, Outcome
    <3>2. used' \in 0..MaxRows /\ NewId \in Ids
      BY <1>2, BoundsAssumption DEF Creating, NewId, Ids, CallInv
    <3>3. at \in Int
      BY <1>2, BoundsAssumption DEF CallInv
    <3>4. /\ Scheduled(c, at, zoned) \in CallRow /\ Scheduled(c, at, TRUE) \in CallRow
          /\ Scheduled(c, at, zoned).client = Scheduled(c, at, TRUE).client
          /\ Scheduled(c, at, zoned).at = Scheduled(c, at, TRUE).at
          /\ Scheduled(c, at, zoned).zoned => Scheduled(c, at, zoned) = Scheduled(c, at, TRUE)
          /\ Scheduled(c, at, TRUE).rang = NoTime
      <4>1. /\ Scheduled(c, at, zoned) \in CallRow /\ Scheduled(c, at, TRUE) \in CallRow
            /\ Scheduled(c, at, zoned).client = c /\ Scheduled(c, at, TRUE).client = c
            /\ Scheduled(c, at, zoned).at = at /\ Scheduled(c, at, TRUE).at = at
            /\ Scheduled(c, at, TRUE).rang = NoTime
        BY <3>3 DEF Scheduled, CallRow, NoTime
      <4>2. Scheduled(c, at, zoned).zoned => zoned = TRUE
        BY Zenon DEF Scheduled
      <4> QED BY <4>1, <4>2
    <3> QED BY <1>2, <3>1, <3>2, <3>4 DEF CallInv, Ids
  <2>2. CASE BuildsTick
    BY <1>2, <2>2 DEF BuildsTick, CallInv, Ids
  <2>3. CASE UNCHANGED buildVars
    BY <1>2, <2>3 DEF buildVars, CallInv, Ids
  <2> QED BY <1>2, <2>1, <2>2, <2>3, CallStep DEF FakeCallNext
<1>3. ASSUME CallInv PROVE FakeCallsAgree
  <2>1. \A i \in Known : i \in Ids /\ i \in 0..used
    BY <1>3, BoundsAssumption DEF CallInv, Known, Ids
  <2>2. ASSUME NEW c \in Clients, ~Mixed(c)
        PROVE  /\ LatestInMemory(c).ids \subseteq LatestCalls(table, c)
               /\ LatestInMemory(c).code = IF CallsOf(table, c) = {} THEN "none" ELSE "ok"
    <3>1. PICK S : S = LatestCalls(memory, c)
      OBVIOUS
    <3>2. S = LatestCalls(table, c) /\ S \in SUBSET Ids
      BY <1>3, <3>1 DEF CallInv, LatestCalls, CallsOf
    <3>3. S # {} => Oldest(S) \in S
      BY <3>2, FewAreOne
    <3>4. LatestInMemory(c) = Picked(memory, S, Oldest)
      BY <2>2, <3>1 DEF LatestInMemory
    <3>5. LatestInMemory(c).ids \subseteq S
          /\ LatestInMemory(c).code = IF S = {} THEN "none" ELSE "ok"
      BY <3>3, <3>4 DEF Picked, Kept, Refused, Outcome
    <3>6. S = {} <=> CallsOf(table, c) = {}
      <4>1. table \in [Ids -> CallRow]
        BY <1>3 DEF CallInv
      <4>2. LatestCalls(table, c) = {} <=> CallsOf(table, c) = {}
        BY <4>1, LatestOfSome
      <4> QED BY <3>2, <4>2
    <3> QED BY <3>2, <3>5, <3>6
  <2> QED BY <1>3, <2>1, <2>2, GetsAreRings DEF FakeCallsAgree, CallInv
<1> QED BY <1>1, <1>2, <1>3, PTL DEF FakeCallSpec

-----------------------------------------------------------------------------
(* Journey check-ins.                                                      *)

\* No call of either build ever escalates a journey.
CheckinRow ==
    [client : Clients \cup {NoOne},
     status : {"FREE", "ACTIVE", "COMPLETED", "CANCELLED"},
     arrival : Int, checked : Int, due : Int, ended : Int,
     reason : {"none", "arrived", "cancelled"}]

\* The rows of one id: alike, and no longer live once they have an end.
CheckinTwins(m, t) ==
    /\ m \in CheckinRow /\ t \in CheckinRow
    /\ SameJourney(m, t)
    /\ m.ended # NoTime => m.status \notin LiveStatus

CheckinInv ==
    /\ service = "checkins"
    /\ used \in 0..MaxRows
    /\ clock \in Nat
    /\ memory \in [Ids -> CheckinRow]
    /\ table \in [Ids -> CheckinRow]
    /\ \A i \in Ids : CheckinTwins(memory[i], table[i])
    /\ notes.memory = notes.table

\* What a call does to the row it finds.
MemoryChecked(row) == [row EXCEPT !.status = "ACTIVE", !.arrival = NoTime, !.checked = clock,
                                  !.due = clock + CheckinInterval]
TableChecked(row) == [row EXCEPT !.checked = clock, !.due = clock + CheckinInterval]
MemoryEnded(row, reason) == [row EXCEPT !.status = Ending(reason), !.ended = clock,
                                        !.reason = reason, !.due = NoTime]
TableEnded(row, reason) == [row EXCEPT !.status = Ending(reason), !.ended = clock,
                                       !.reason = reason]

LEMMA OpenedTwins ==
    ASSUME NEW c \in Clients, NEW arrival \in {NoTime, clock + 1}, clock \in Nat
    PROVE  CheckinTwins(Opened(c, arrival, clock + CheckinInterval), Opened(c, arrival, NoTime))
<1>1. /\ clock + CheckinInterval \in Int /\ arrival \in Int /\ NoTime \in Int
      /\ clock + CheckinInterval # NoTime
  BY IntervalAssumption DEF NoTime
<1>2. PICK free : free = CheckinFree
  OBVIOUS
<1>3. ASSUME NEW due \in Int
      PROVE  /\ Opened(c, arrival, due) \in CheckinRow
             /\ Opened(c, arrival, due).client = c /\ Opened(c, arrival, due).status = "ACTIVE"
             /\ Opened(c, arrival, due).checked = NoTime /\ Opened(c, arrival, due).ended = NoTime
             /\ Opened(c, arrival, due).reason = "none"
             /\ Opened(c, arrival, due).arrival = arrival /\ Opened(c, arrival, due).due = due
  <2>1. /\ free \in CheckinRow /\ free.checked = NoTime /\ free.ended = NoTime
        /\ free.reason = "none"
    BY <1>1, <1>2 DEF CheckinFree, CheckinRow
  <2>2. PICK row : row = [free EXCEPT !.client = c, !.status = "ACTIVE", !.arrival = arrival,
                                      !.due = due]
    OBVIOUS
  <2>3. Opened(c, arrival, due) = row
    BY <1>2, <2>2 DEF Opened
  <2>4. /\ row \in CheckinRow /\ row.client = c /\ row.status = "ACTIVE"
        /\ row.checked = free.checked /\ row.ended = free.ended /\ row.reason = free.reason
        /\ row.arrival = arrival /\ row.due = due
    BY <1>1, <2>1, <2>2 DEF CheckinRow
  <2> QED BY <2>1, <2>3, <2>4
<1>4. PICK m, t : m = Opened(c, arrival, clock + CheckinInterval) /\ t = Opened(c, arrival, NoTime)
  OBVIOUS
<1>5. CheckinTwins(m, t)
  BY <1>1, <1>3, <1>4 DEF CheckinTwins, SameJourney, LiveStatus
<1> QED BY <1>4, <1>5

LEMMA CheckedTwins ==
    ASSUME NEW m, NEW t, CheckinTwins(m, t), clock \in Nat, m.status = "ACTIVE"
    PROVE  CheckinTwins(MemoryChecked(m), TableChecked(t))
<1>1. /\ clock + CheckinInterval \in Int /\ clock \in Int /\ NoTime \in Int /\ clock # NoTime
      /\ clock + CheckinInterval # NoTime
      /\ m \in CheckinRow /\ t \in CheckinRow
  BY IntervalAssumption DEF NoTime, CheckinTwins
<1>2. PICK q, r : q = MemoryChecked(m) /\ r = TableChecked(t)
  OBVIOUS
<1>3. /\ q \in CheckinRow /\ q.status = "ACTIVE" /\ q.checked = clock
      /\ q.due = clock + CheckinInterval /\ q.arrival = NoTime
      /\ q.client = m.client /\ q.ended = m.ended /\ q.reason = m.reason
  BY <1>1, <1>2 DEF MemoryChecked, CheckinRow
<1>4. /\ r \in CheckinRow /\ r.checked = clock /\ r.due = clock + CheckinInterval
      /\ \A f \in {"client", "status", "ended", "reason"} : r[f] = t[f]
  BY <1>1, <1>2 DEF TableChecked, CheckinRow
<1>5. CheckinTwins(q, r)
  BY <1>1, <1>3, <1>4 DEF CheckinTwins, SameJourney, LiveStatus
<1> QED BY <1>2, <1>5

LEMMA EndedTwins ==
    ASSUME NEW m, NEW t, CheckinTwins(m, t), clock \in Nat, NEW reason \in {"arrived", "cancelled"}
    PROVE  CheckinTwins(MemoryEnded(m, reason), TableEnded(t, reason))
<1>1. /\ clock \in Int /\ NoTime \in Int /\ m \in CheckinRow /\ t \in CheckinRow
      /\ Ending(reason) \in {"COMPLETED", "CANCELLED"}
  BY DEF NoTime, CheckinTwins, Ending
<1>2. PICK q, r : q = MemoryEnded(m, reason) /\ r = TableEnded(t, reason)
  OBVIOUS
<1>3. /\ q \in CheckinRow /\ q.status = Ending(reason) /\ q.ended = clock /\ q.reason = reason
      /\ q.client = m.client /\ q.checked = m.checked
      /\ q.arrival = m.arrival /\ q.due = NoTime
  BY <1>1, <1>2 DEF MemoryEnded, CheckinRow
<1>4. /\ r \in CheckinRow /\ r.status = Ending(reason) /\ r.ended = clock /\ r.reason = reason
      /\ r.client = t.client /\ r.checked = t.checked
      /\ r.arrival = t.arrival /\ r.due = t.due
  BY <1>1, <1>2 DEF TableEnded, CheckinRow
<1>5. CheckinTwins(q, r)
  BY <1>1, <1>3, <1>4 DEF CheckinTwins, SameJourney, LiveStatus
<1> QED BY <1>2, <1>5

\* What a write of one row of both builds leaves of the invariant.
LEMMA CheckinWritten ==
    ASSUME CheckinInv, NEW i \in Ids, NEW m, NEW t, CheckinTwins(m, t),
           memory' = [memory EXCEPT ![i] = m], table' = [table EXCEPT ![i] = t],
           used' \in 0..MaxRows, notes'.memory = notes'.table, service' = service, clock' = clock
    PROVE  CheckinInv'
<1>1. m \in CheckinRow /\ t \in CheckinRow
  BY DEF CheckinTwins
<1>2. memory' \in [Ids -> CheckinRow] /\ table' \in [Ids -> CheckinRow]
  BY <1>1 DEF CheckinInv
<1>3. \A j \in Ids : CheckinTwins(memory'[j], table'[j])
  BY DEF CheckinInv
<1> QED BY <1>2, <1>3 DEF CheckinInv, CheckinTwins, Ids, CheckinRow, SameJourney

\* The same journeys of a client are live in both builds.
LEMMA LiveCheckinsAlike ==
    ASSUME CheckinInv, NEW c \in Clients
    PROVE  /\ LiveCheckins(memory, c) = LiveCheckins(table, c)
           /\ LiveCheckins(memory, c) \subseteq Ids /\ Malformed \notin LiveCheckins(memory, c)
           /\ \A i \in LiveCheckins(memory, c) : memory[i].status = "ACTIVE"
<1>1. \A i \in Ids : /\ memory[i].client = table[i].client
                     /\ memory[i].status = table[i].status
                     /\ memory[i].status # "ESCALATED"
  BY DEF CheckinInv, CheckinTwins, SameJourney, CheckinRow
<1>2. LiveCheckins(memory, c) = LiveCheckins(table, c)
  BY <1>1 DEF LiveCheckins
<1>3. Malformed \notin LiveCheckins(memory, c)
  BY BoundsAssumption DEF LiveCheckins, Ids, Malformed
<1>4. /\ LiveCheckins(memory, c) \subseteq Ids
      /\ \A i \in LiveCheckins(memory, c) : memory[i].status = "ACTIVE"
  BY <1>1 DEF LiveCheckins, LiveStatus
<1> QED BY <1>2, <1>3, <1>4

\* A check-in and an end: one row is written in both builds, or both refuse.
LEMMA CheckinCall ==
    ASSUME CheckinInv, NEW c \in Clients, NEW i, i \in LiveCheckins(memory, c)
    PROVE  /\ CheckinInMemory(c, i) = Kept([memory EXCEPT ![i] = MemoryChecked(memory[i])], {i})
           /\ CheckinInTable(c, i) = Kept([table EXCEPT ![i] = TableChecked(table[i])], {i})
<1>1. i \in Ids /\ i # Malformed /\ i \in LiveCheckins(table, c)
  BY LiveCheckinsAlike
<1>2. CheckinInMemory(c, i) = Kept([memory EXCEPT ![i] = MemoryChecked(memory[i])], {i})
  BY <1>1 DEF CheckinInMemory, MemoryChecked, CheckinInv
<1>3. CheckinInTable(c, i) = Kept([table EXCEPT ![i] = TableChecked(table[i])], {i})
  BY <1>1 DEF CheckinInTable, TableChecked, CheckinInv
<1> QED BY <1>2, <1>3

LEMMA CheckinRefused ==
    ASSUME CheckinInv, NEW c \in Clients, NEW i, i \notin LiveCheckins(memory, c)
    PROVE  /\ CheckinInMemory(c, i) = Refused(memory, "unknown")
           /\ i = Malformed => CheckinInTable(c, i) = Refused(table, "failed")
           /\ i # Malformed => CheckinInTable(c, i) = Refused(table, "unknown")
<1>1. i \notin LiveCheckins(table, c)
  BY LiveCheckinsAlike
<1> QED BY <1>1 DEF CheckinInMemory, CheckinInTable

LEMMA EndCall ==
    ASSUME CheckinInv, NEW c \in Clients, NEW i, NEW reason \in {"arrived", "cancelled"},
           i \in LiveCheckins(memory, c)
    PROVE  /\ EndInMemory(c, i, reason) = Outcome([memory EXCEPT ![i] = MemoryEnded(memory[i], reason)],
                                                  "ok", {i}, Told(reason))
           /\ EndInTable(c, i, reason) = Outcome([table EXCEPT ![i] = TableEnded(table[i], reason)],
                                                 "ok", {i}, Told(reason))
<1>1. i \in Ids /\ i # Malformed /\ i \in LiveCheckins(table, c)
  BY LiveCheckinsAlike
<1>2. EndInMemory(c, i, reason) = Outcome([memory EXCEPT ![i] = MemoryEnded(memory[i], reason)],
                                          "ok", {i}, Told(reason))
  BY <1>1 DEF EndInMemory, MemoryEnded, CheckinInv
<1>3. EndInTable(c, i, reason) = Outcome([table EXCEPT ![i] = TableEnded(table[i], reason)],
                                         "ok", {i}, Told(reason))
  BY <1>1 DEF EndInTable, TableEnded, CheckinInv
<1> QED BY <1>2, <1>3

LEMMA EndRefused ==
    ASSUME CheckinInv, NEW c \in Clients, NEW i, NEW reason \in {"arrived", "cancelled"},
           i \notin LiveCheckins(memory, c)
    PROVE  /\ EndInMemory(c, i, reason) = Refused(memory, "unknown")
           /\ i = Malformed => EndInTable(c, i, reason) = Refused(table, "failed")
           /\ i # Malformed => EndInTable(c, i, reason) = Refused(table, "unknown")
<1>1. i \notin LiveCheckins(table, c)
  BY LiveCheckinsAlike
<1> QED BY <1>1 DEF EndInMemory, EndInTable

\* Rows change only where they were live or are new.
EndedKept == \A i \in Known : /\ memory[i].ended # NoTime => memory'[i] = memory[i]
                              /\ table[i].ended # NoTime => table'[i] = table[i]

LEMMA LiveRowWritten ==
    ASSUME CheckinInv, NEW c \in Clients, NEW i \in LiveCheckins(memory, c), NEW m, NEW t,
           NEW kinds, CheckinTwins(m, t), Calling,
           Both(Outcome([memory EXCEPT ![i] = m], "ok", {i}, kinds),
                Outcome([table EXCEPT ![i] = t], "ok", {i}, kinds))
    PROVE  CheckinInv' /\ EndedKept
<1>1. /\ memory' = [memory EXCEPT ![i] = m] /\ table' = [table EXCEPT ![i] = t]
      /\ service' = service /\ clock' = clock /\ used' = used /\ notes'.memory = notes'.table
  BY DEF Both, Calling, Outcome, Recorded, CheckinInv
<1>2. i \in Ids /\ memory[i].status \in LiveStatus /\ memory[i].ended = NoTime
      /\ table[i].ended = NoTime
  BY DEF LiveCheckins, CheckinInv, CheckinTwins, SameJourney
<1>3. CheckinInv'
  BY <1>1, <1>2, CheckinWritten DEF CheckinInv
<1>4. EndedKept
  BY <1>1, <1>2 DEF EndedKept, CheckinInv
<1> QED BY <1>3, <1>4

LEMMA RefusedByBoth ==
    ASSUME CheckinInv, NEW code, Calling, Both(Refused(memory, "unknown"), Refused(table, code))
    PROVE  CheckinInv' /\ EndedKept
<1>1. /\ memory' = memory /\ table' = table /\ service' = service /\ clock' = clock
      /\ used' = used /\ notes'.memory = notes'.table
  BY DEF Both, Calling, Refused, Outcome, Recorded, CheckinInv
<1> QED BY <1>1 DEF CheckinInv, CheckinTwins, Ids, CheckinRow, SameJourney, EndedKept

LEMMA CheckinStep ==
    ASSUME CheckinInv, [CheckinNext]_buildVars
    PROVE  CheckinInv' /\ EndedKept
<1>1. CASE CreateCheckin
  <2>1. PICK c \in Clients, arrival \in {NoTime, clock + 1} :
            Creating /\ Both(CreateInMemory(c, arrival), CreateInTable(c, arrival))
    BY <1>1 DEF CreateCheckin
  <2>2. PICK m, t : m = Opened(c, arrival, clock + CheckinInterval) /\ t = Opened(c, arrival, NoTime)
    OBVIOUS
  <2>3. CheckinTwins(m, t)
    BY <2>2, OpenedTwins DEF CheckinInv
  <2>4. /\ memory' = [memory EXCEPT ![NewId] = m] /\ table' = [table EXCEPT ![NewId] = t]
        /\ service' = service /\ clock' = clock /\ used' = NewId /\ notes'.memory = notes'.table
    BY <2>1, <2>2 DEF Both, Creating, CreateInMemory, CreateInTable, Outcome, Recorded, CheckinInv
  <2>5. NewId \in Ids /\ NewId \in 0..MaxRows /\ NewId \notin Known
    BY <2>1, BoundsAssumption DEF Creating, NewId, Ids, Known, CheckinInv
  <2>6. CheckinInv'
    BY <2>3, <2>4, <2>5, CheckinWritten
  <2>7. EndedKept
    BY <2>4, <2>5, BoundsAssumption DEF EndedKept, CheckinInv, Known, Ids
  <2> QED BY <2>6, <2>7
<1>2. CASE Checkin
  <2>1. PICK c \in Clients, i \in 0..used :
            Calling /\ Both(CheckinInMemory(c, i), CheckinInTable(c, i))
    BY <1>2 DEF Checkin
  <2>2. CASE i \in LiveCheckins(memory, c)
    <3>1. PICK m, t : m = MemoryChecked(memory[i]) /\ t = TableChecked(table[i])
      OBVIOUS
    <3>2. CheckinTwins(m, t)
      BY <2>2, <3>1, LiveCheckinsAlike, CheckedTwins DEF CheckinInv
    <3>3. /\ CheckinInMemory(c, i) = Outcome([memory EXCEPT ![i] = m], "ok", {i}, {})
          /\ CheckinInTable(c, i) = Outcome([table EXCEPT ![i] = t], "ok", {i}, {})
      BY <2>2, <3>1, CheckinCall DEF Kept
    <3> QED BY <2>1, <2>2, <3>2, <3>3, LiveRowWritten
  <2>3. CASE i \notin LiveCheckins(memory, c)
    <3>1. CheckinInMemory(c, i) = Refused(memory, "unknown")
      BY <2>3, CheckinRefused
    <3>2. PICK code : CheckinInTable(c, i) = Refused(table, code)
      BY <2>3, CheckinRefused
    <3> QED BY <2>1, <3>1, <3>2, RefusedByBoth
  <2> QED BY <2>2, <2>3
<1>3. CASE EndCheckin
  <2>1. PICK c \in Clients, i \in 0..used, reason \in {"arrived", "cancelled"} :
            Calling /\ Both(EndInMemory(c, i, reason), EndInTable(c, i, reason))
    BY <1>3 DEF EndCheckin
  <2>2. CASE i \in LiveCheckins(memory, c)
    <3>1. PICK m, t : m = MemoryEnded(memory[i], reason) /\ t = TableEnded(table[i], reason)
      OBVIOUS
    <3>2. CheckinTwins(m, t)
      BY <2>2, <3>1, LiveCheckinsAlike, EndedTwins DEF CheckinInv
    <3>3. /\ EndInMemory(c, i, reason) = Outcome([memory EXCEPT ![i] = m], "ok", {i}, Told(reason))
          /\ EndInTable(c, i, reason) = Outcome([table EXCEPT ![i] = t], "ok", {i}, Told(reason))
      BY <2>2, <3>1, EndCall
    <3> QED BY <2>1, <2>2, <3>2, <3>3, LiveRowWritten
  <2>3. CASE i \notin LiveCheckins(memory, c)
    <3>1. EndInMemory(c, i, reason) = Refused(memory, "unknown")
      BY <2>3, EndRefused
    <3>2. PICK code : EndInTable(c, i, reason) = Refused(table, code)
      BY <2>3, EndRefused
    <3> QED BY <2>1, <3>1, <3>2, RefusedByBoth
  <2> QED BY <2>2, <2>3
<1>4. CASE BuildsTick \/ UNCHANGED buildVars
  <2>1. /\ memory' = memory /\ table' = table /\ service' = service /\ used' = used
        /\ notes' = notes
    BY <1>4 DEF BuildsTick, buildVars
  <2>2. clock' \in Nat
    BY <1>4 DEF BuildsTick, buildVars, CheckinInv
  <2>3. \A i \in Ids : CheckinTwins(memory[i], table[i])'
    BY <2>1 DEF CheckinInv, CheckinTwins, CheckinRow, SameJourney
  <2> QED BY <2>1, <2>2, <2>3 DEF CheckinInv, CheckinRow, Ids, EndedKept
<1> QED BY <1>1, <1>2, <1>3, <1>4 DEF CheckinNext

LEMMA CheckinStart == CheckinInit => CheckinInv
<1> SUFFICES ASSUME CheckinInit PROVE CheckinInv
  OBVIOUS
<1>1. PICK row : row = CheckinFree
  OBVIOUS
<1>2. CheckinTwins(row, row)
  BY <1>1 DEF CheckinFree, CheckinTwins, CheckinRow, SameJourney, LiveStatus, NoTime
<1>3. row \in CheckinRow
  BY <1>2 DEF CheckinTwins
<1>4. /\ service = "checkins" /\ used = 0 /\ clock = 0 /\ notes.memory = notes.table
      /\ memory = [i \in Ids |-> row] /\ table = [i \in Ids |-> row]
  BY <1>1 DEF CheckinInit, BuildsInit
<1> QED BY <1>2, <1>3, <1>4, BoundsAssumption DEF CheckinInv

\* For any interval, rows and calls: the two builds keep the same journeys, but for the
\* arrival after a check-in and the deadline before the first and after the end, and
\* accept or refuse each call alike; only a client with several live journeys may be
\* shown another (safety/journey_checkin.py).
THEOREM CheckinsAgree == CheckinSpec => []CheckinBuildsAgree
<1>1. CheckinInv => CheckinBuildsAgree
  <2> SUFFICES ASSUME CheckinInv PROVE CheckinBuildsAgree
    OBVIOUS
  <2>1. ASSUME NEW c \in Clients, Cardinality(LiveCheckins(memory, c)) < 2
        PROVE  SameAnswer(ActiveInMemory(c), ActiveInTable(c))
    <3> DEFINE S == LiveCheckins(memory, c)
    <3>1. S \in SUBSET Ids /\ S = LiveCheckins(table, c)
      BY LiveCheckinsAlike
    <3>2. \A i, j \in S : i = j
      BY <2>1, <3>1, FewAreOne
    <3>3. CASE S = {}
      BY <3>1, <3>3 DEF ActiveInMemory, ActiveInTable, Picked, Refused, Outcome, SameAnswer
    <3>4. CASE S # {}
      <4>1. PICK i \in Nat : S = {i}
        BY <3>1, <3>2, <3>4, BoundsAssumption DEF Ids
      <4>2. Oldest({i}) = i /\ Newest({i}) = i
        BY DEF Oldest, Newest
      <4> QED
        BY <3>1, <4>1, <4>2 DEF ActiveInMemory, ActiveInTable, Picked, Kept, Outcome, SameAnswer
    <3> QED BY <3>3, <3>4
  <2>2. ASSUME NEW c \in Clients, NEW i \in Known
        PROVE  /\ SameAnswer(CheckinInMemory(c, i), CheckinInTable(c, i))
               /\ SameAnswer(EndInMemory(c, i, "arrived"), EndInTable(c, i, "arrived"))
    <3>1. i # Malformed
      BY BoundsAssumption DEF Known, Malformed, CheckinInv
    <3>2. CASE i \in LiveCheckins(memory, c)
      <4>1. SameAnswer(CheckinInMemory(c, i), CheckinInTable(c, i))
        <5>1. PICK a, b : CheckinInMemory(c, i) = Kept(a, {i}) /\ CheckinInTable(c, i) = Kept(b, {i})
          BY <3>2, CheckinCall
        <5> QED BY <5>1 DEF Kept, Outcome, SameAnswer
      <4>2. SameAnswer(EndInMemory(c, i, "arrived"), EndInTable(c, i, "arrived"))
        <5> DEFINE kinds == Told("arrived")
                   a == [memory EXCEPT ![i] = MemoryEnded(memory[i], "arrived")]
                   b == [table EXCEPT ![i] = TableEnded(table[i], "arrived")]
        <5>1. /\ EndInMemory(c, i, "arrived") = Outcome(a, "ok", {i}, kinds)
              /\ EndInTable(c, i, "arrived") = Outcome(b, "ok", {i}, kinds)
          BY <3>2, EndCall
        <5> HIDE DEF kinds, a, b
        <5> QED BY <5>1 DEF Outcome, SameAnswer
      <4> QED BY <4>1, <4>2
    <3>3. CASE i \notin LiveCheckins(memory, c)
      <4>1. SameAnswer(CheckinInMemory(c, i), CheckinInTable(c, i))
        <5>1. /\ CheckinInMemory(c, i) = Refused(memory, "unknown")
              /\ CheckinInTable(c, i) = Refused(table, "unknown")
          BY <3>1, <3>3, CheckinRefused
        <5> QED BY <5>1 DEF Refused, Outcome, SameAnswer
      <4>2. SameAnswer(EndInMemory(c, i, "arrived"), EndInTable(c, i, "arrived"))
        <5>1. /\ EndInMemory(c, i, "arrived") = Refused(memory, "unknown")
              /\ EndInTable(c, i, "arrived") = Refused(table, "unknown")
          BY <3>1, <3>3, EndRefused
        <5> QED BY <5>1 DEF Refused, Outcome, SameAnswer
      <4> QED BY <4>1, <4>2
    <3> QED BY <3>2, <3>3
  <2> QED BY <2>1, <2>2 DEF CheckinBuildsAgree, CheckinInv, CheckinTwins
<1> QED BY <1>1, CheckinStart, CheckinStep, PTL DEF CheckinSpec

\* Whatever is called afterwards, a journey that ended stays as it ended, in both builds.
THEOREM EndedStay == CheckinSpec => EndedCheckinsStay
<1>1. CheckinInv /\ [CheckinNext]_buildVars
        => (service = "checkins" => \A i \in Known :
               /\ memory[i].ended # NoTime => memory'[i] = memory[i]
               /\ table[i].ended # NoTime => table'[i] = table[i])
  BY CheckinStep DEF EndedKept
<1> QED BY <1>1, CheckinStart, CheckinStep, PTL DEF CheckinSpec, EndedCheckinsStay

-----------------------------------------------------------------------------
(* Settings.                                                               *)

PutNext == {"none", "update", "replace", "read", "switch", "answered"}
PutRow ==
    [next : PutNext, flags : Flags, prefs : PrefRow \cup {NoPrefs},
     discreet : Switch \cup {NoDiscreet}, alone : BOOLEAN]

\* A client's rows: one of each kind, or none, and its privacy change.
SettingsRows ==
    [prefs : [Devices -> PrefRow \cup {NoPrefs}],
     discreet : [Devices -> Switch \cup {NoDiscreet}],
     put : [Devices -> PutRow]]

\* How far a privacy change has come: past its two updates the preferences, if there are
\* any, hold the flag, and once it is answered the discreet mode's own row does too.
Underway(p, d, q) ==
    /\ q.next = "update" => q.prefs # NoPrefs
    /\ q.next = "answered" => q.alone
    /\ q.flags.discreet # NotGiven =>
          /\ q.next \in {"read", "switch", "answered"} /\ q.alone /\ p # NoPrefs
               => p.discreet = q.flags.discreet
          /\ q.next = "answered" => d = q.flags.discreet

SettingsKept(rows) ==
    /\ rows \in SettingsRows
    /\ \A c \in Devices : Underway(rows.prefs[c], rows.discreet[c], rows.put[c])

\* The inductive invariant.
SettingsInv == service = "settings" /\ SettingsKept(memory) /\ SettingsKept(table)

LEMMA OneClientWritten ==
    ASSUME NEW rows, SettingsKept(rows), NEW c \in Devices,
           NEW p \in PrefRow \cup {NoPrefs}, NEW d \in Switch \cup {NoDiscreet}, NEW q \in PutRow,
           Underway(p, d, q), NEW after, after = Overwritten(rows, c, p, d, q)
    PROVE  SettingsKept(after)
<1>1. /\ after.prefs = [rows.prefs EXCEPT ![c] = p]
      /\ after.discreet = [rows.discreet EXCEPT ![c] = d]
      /\ after.put = [rows.put EXCEPT ![c] = q]
  BY DEF Overwritten
<1>2. after \in SettingsRows
  BY DEF Overwritten, SettingsKept, SettingsRows
<1>3. ASSUME NEW e \in Devices
      PROVE  Underway(after.prefs[e], after.discreet[e], after.put[e])
  <2>1. CASE e = c
    BY <1>1, <2>1 DEF SettingsKept, SettingsRows
  <2>2. CASE e # c
    <3>1. /\ after.prefs[e] = rows.prefs[e] /\ after.discreet[e] = rows.discreet[e]
          /\ after.put[e] = rows.put[e]
      BY <1>1, <2>2 DEF SettingsKept, SettingsRows
    <3> QED BY <3>1 DEF SettingsKept
  <2> QED BY <2>1, <2>2
<1> QED BY <1>2, <1>3 DEF SettingsKept

LEMMA NoPutUnderway == NoPut \in PutRow /\ \A p, d : Underway(p, d, NoPut)
<1>1. PICK idle : idle = NoPut
  OBVIOUS
<1>2. NoPrefs \in PrefRow \cup {NoPrefs} /\ NoDiscreet \in Switch \cup {NoDiscreet}
  OBVIOUS
<1>3. idle \in PutRow /\ idle.next = "none"
  BY <1>1, <1>2 DEF NoPut, PutRow, PutNext, Flags
<1> QED BY <1>1, <1>3 DEF Underway

LEMMA DisturbedUnderway ==
    ASSUME NEW p, NEW d, NEW q \in PutRow, Underway(p, d, q)
    PROVE  Disturbed(q) \in PutRow /\ \A p2, d2 : Underway(p2, d2, Disturbed(q))
<1>1. CASE ~InFlight(q)
  BY <1>1, NoPutUnderway DEF Disturbed
<1>2. CASE InFlight(q)
  <2>1. PICK r : r = [q EXCEPT !.alone = FALSE]
    OBVIOUS
  <2>2. /\ r \in PutRow /\ r.next = q.next /\ r.prefs = q.prefs /\ r.flags = q.flags
        /\ r.alone = FALSE
    BY <2>1 DEF PutRow
  <2>3. Disturbed(q) = r
    BY <1>2, <2>1 DEF Disturbed
  <2>4. r.next # "answered" /\ (r.next = "update" => r.prefs # NoPrefs) /\ ~r.alone
    BY <1>2, <2>2 DEF InFlight, Underway
  <2> QED BY <2>2, <2>3, <2>4 DEF Underway
<1> QED BY <1>1, <1>2

LEMMA FirstUnderway ==
    ASSUME NEW p \in PrefRow \cup {NoPrefs}, NEW d, NEW flags \in Flags
    PROVE  FirstPut(p, flags) \in PutRow /\ Underway(p, d, FirstPut(p, flags))
<1>1. PICK idle : idle = NoPut /\ idle \in PutRow
  BY NoPutUnderway
<1>2. PICK n : n = IF p = NoPrefs THEN "read" ELSE "update"
  OBVIOUS
<1>3. PICK r : r = [idle EXCEPT !.next = n, !.flags = flags, !.prefs = p]
  OBVIOUS
<1>4. r \in PutRow /\ r.next = n /\ r.prefs = p
  BY <1>1, <1>2, <1>3 DEF PutRow, PutNext
<1>5. FirstPut(p, flags) = r
  BY <1>1, <1>2, <1>3 DEF FirstPut
<1> QED BY <1>2, <1>4, <1>5 DEF Underway

\* Preferences that hold the flag are written by both updates.
LEMMA PrivacyRows ==
    ASSUME NEW q \in PutRow, Underway(NoPrefs, NoDiscreet, q)
    PROVE  /\ q.next = "update" => PrivacyUpdate(q) \in PrefRow
           /\ PrivacyReplace(q) \in PrefRow
           /\ q.flags.discreet # NotGiven => PrivacyReplace(q).discreet = q.flags.discreet
<1>1. /\ q.flags.discreet \in Switch \cup {NotGiven} /\ q.flags.voice \in Switch \cup {NotGiven}
  BY DEF PutRow, Flags
<1>2. ASSUME NEW row \in PrefRow, NEW a \in Switch, NEW b \in Switch,
             NEW new, new = [row EXCEPT !.discreet = a, !.voice = b]
      PROVE  new \in PrefRow /\ new.discreet = a
  BY <1>2 DEF PrefRow
<1>3. ASSUME NEW flag \in Switch \cup {NotGiven}, NEW old \in Switch
      PROVE  NewFlag(flag, old) \in Switch /\ (flag # NotGiven => NewFlag(flag, old) = flag)
  BY DEF NewFlag
<1>4. /\ PrivacyReplace(q) \in PrefRow
      /\ q.flags.discreet # NotGiven => PrivacyReplace(q).discreet = q.flags.discreet
  <2>1. PICK row : row = DefaultPrefs
    OBVIOUS
  <2>2. row \in PrefRow
    BY <2>1 DEF DefaultPrefs, PrefRow, Profiles, Switch
  <2>3. PICK a, b : a = NewFlag(q.flags.discreet, "off") /\ b = NewFlag(q.flags.voice, "off")
    OBVIOUS
  <2>4. a \in Switch /\ b \in Switch
    BY <1>1, <1>3, <2>3 DEF Switch
  <2>5. PICK new : new = [row EXCEPT !.discreet = a, !.voice = b]
    OBVIOUS
  <2>6. PrivacyReplace(q) = new
    BY <2>1, <2>3, <2>5 DEF PrivacyReplace
  <2>7. /\ new \in PrefRow
        /\ new.discreet = a
    BY <2>2, <2>4, <2>5 DEF PrefRow
  <2>8. q.flags.discreet # NotGiven => a = q.flags.discreet
    BY <1>1, <1>3, <2>3 DEF Switch
  <2> QED BY <2>6, <2>7, <2>8
<1>5. ASSUME q.next = "update" PROVE PrivacyUpdate(q) \in PrefRow
  <2>1. PICK row : row = q.prefs
    OBVIOUS
  <2>2. row \in PrefRow
    BY <1>5, <2>1 DEF Underway, PutRow
  <2>3. PICK a, b : a = NewFlag(q.flags.discreet, row.discreet) /\ b = NewFlag(q.flags.voice, row.voice)
    OBVIOUS
  <2>4. a \in Switch /\ b \in Switch
    BY <1>1, <1>3, <2>2, <2>3 DEF PrefRow
  <2>5. PICK new : new = [row EXCEPT !.discreet = a, !.voice = b]
    OBVIOUS
  <2>6. PrivacyUpdate(q) = new
    BY <2>1, <2>2, <2>3, <2>5 DEF PrivacyUpdate, PrefRow
  <2>7. new \in PrefRow
    BY <1>2, <2>2, <2>4, <2>5
  <2> QED BY <2>6, <2>7
<1> QED BY <1>4, <1>5

LEMMA NextUnderway ==
    ASSUME NEW p \in PrefRow \cup {NoPrefs}, NEW d \in Switch \cup {NoDiscreet},
           NEW q \in PutRow, Underway(p, d, q)
    PROVE  /\ NextPrefs(p, q) \in PrefRow \cup {NoPrefs}
           /\ NextDiscreet(d, q) \in Switch \cup {NoDiscreet}
           /\ NextPut(d, q) \in PutRow
           /\ Underway(NextPrefs(p, q), NextDiscreet(d, q), NextPut(d, q))
<1>1. /\ q.next = "update" => PrivacyUpdate(q) \in PrefRow
      /\ PrivacyReplace(q) \in PrefRow
      /\ q.flags.discreet # NotGiven => PrivacyReplace(q).discreet = q.flags.discreet
  <2>1. Underway(NoPrefs, NoDiscreet, q) \/ q.next = "answered"
    BY DEF Underway
  <2>2. CASE q.next # "answered"
    BY <2>1, <2>2, PrivacyRows
  <2>3. CASE q.next = "answered"
    <3>1. PICK r : r = [q EXCEPT !.next = "none"]
      OBVIOUS
    <3>2. r \in PutRow /\ r.flags = q.flags /\ r.next = "none"
      BY <3>1 DEF PutRow, PutNext
    <3>3. Underway(NoPrefs, NoDiscreet, r)
      BY <3>2 DEF Underway
    <3>4. PrivacyReplace(r) = PrivacyReplace(q)
      BY <3>2 DEF PrivacyReplace
    <3> QED BY <2>3, <3>2, <3>3, <3>4, PrivacyRows
  <2> QED BY <2>2, <2>3
<1>2. CASE q.next = "update"
  <2>1. PICK r : r = [q EXCEPT !.next = "replace", !.prefs = NoPrefs]
    OBVIOUS
  <2>2. r \in PutRow /\ r.next = "replace"
    BY <2>1 DEF PutRow, PutNext
  <2>3. NextPrefs(p, q) = PrivacyUpdate(q) /\ NextDiscreet(d, q) = d /\ NextPut(d, q) = r
    BY <1>2, <2>1 DEF NextPrefs, NextDiscreet, NextPut
  <2> QED BY <1>1, <1>2, <2>2, <2>3 DEF Underway
<1>3. CASE q.next = "replace"
  <2>1. PICK r : r = [q EXCEPT !.next = "read"]
    OBVIOUS
  <2>2. r \in PutRow /\ r.next = "read" /\ r.flags = q.flags
    BY <2>1 DEF PutRow, PutNext
  <2>3. NextPrefs(p, q) = PrivacyReplace(q) /\ NextDiscreet(d, q) = d /\ NextPut(d, q) = r
    BY <1>3, <2>1 DEF NextPrefs, NextDiscreet, NextPut
  <2> QED BY <1>1, <2>2, <2>3 DEF Underway
<1>4. CASE q.next = "read"
  <2>1. PICK r : r = [q EXCEPT !.discreet = d, !.next = "switch"]
    OBVIOUS
  <2>2. r \in PutRow /\ r.next = "switch" /\ r.flags = q.flags
    BY <2>1 DEF PutRow, PutNext
  <2>3. r.alone = q.alone
    BY <2>1, Zenon DEF PutRow
  <2>4. NextPrefs(p, q) = p /\ NextDiscreet(d, q) = d /\ NextPut(d, q) = r
    BY <1>4, <2>1 DEF NextPrefs, NextDiscreet, NextPut
  <2>5. Underway(p, d, r)
    <3>1. q.flags.discreet # NotGiven /\ q.alone /\ p # NoPrefs => p.discreet = q.flags.discreet
      BY <1>4 DEF Underway
    <3> QED BY <2>2, <2>3, <3>1 DEF Underway
  <2> QED BY <2>2, <2>4, <2>5
<1>5. CASE q.next = "switch"
  <2>1. NextPrefs(p, q) = p /\ NextPut(d, q) = PutAnswered(q)
        /\ NextDiscreet(d, q) = IF Switched(q) = NoDiscreet THEN d ELSE Switched(q)
    BY <1>5 DEF NextPrefs, NextDiscreet, NextPut
  <2>2. /\ q.flags \in Flags /\ q.discreet \in Switch \cup {NoDiscreet}
        /\ q.flags.discreet \in Switch \cup {NotGiven}
    BY DEF PutRow, Flags
  <2>3. /\ NextDiscreet(d, q) \in Switch \cup {NoDiscreet}
        /\ q.flags.discreet # NotGiven => NextDiscreet(d, q) = q.flags.discreet
    BY <2>1, <2>2 DEF Switched, NewFlag, Switch, NoDiscreet, NotGiven
  <2>4. CASE ~q.alone
    BY <2>1, <2>3, <2>4, NoPutUnderway DEF PutAnswered
  <2>5. CASE q.alone
    <3>1. PICK idle : idle = NoPut /\ idle \in PutRow
      BY NoPutUnderway
    <3>2. PICK r : r = [idle EXCEPT !.next = "answered", !.flags = q.flags]
      OBVIOUS
    <3>3. r \in PutRow /\ r.next = "answered" /\ r.flags = q.flags
      BY <2>2, <3>1, <3>2 DEF PutRow, PutNext
    <3>4. r.alone
      BY <3>1, <3>2, Zenon DEF NoPut, PutRow
    <3>5. PutAnswered(q) = r
      BY <2>5, <3>1, <3>2 DEF PutAnswered
    <3>6. q.flags.discreet # NotGiven /\ p # NoPrefs => p.discreet = q.flags.discreet
      BY <1>5, <2>5 DEF Underway
    <3>7. Underway(p, NextDiscreet(d, q), r)
      BY <2>3, <3>3, <3>4, <3>6 DEF Underway
    <3> QED BY <2>1, <2>3, <3>3, <3>5, <3>7
  <2> QED BY <2>4, <2>5
<1>6. CASE q.next \notin {"update", "replace", "read", "switch"}
  BY <1>6 DEF NextPrefs, NextDiscreet, NextPut
<1> QED BY <1>2, <1>3, <1>4, <1>5, <1>6

\* How a step may make the settings of a client differ.
DivergesByFailure ==
    \A c \in Devices : SameSettings(c) =>
        \/ SameSettings(c)'
        \/ /\ table'.prefs[c] = table.prefs[c] /\ table'.discreet[c] = table.discreet[c]
           /\ \/ memory'.prefs[c].profile \notin AllowedProfiles
              \/ InFlight(table.put[c]) /\ table'.put[c] = NoPut

\* Both builds write the same of one client, if they held the same of it.
LEMMA SameWritten ==
    ASSUME memory \in SettingsRows, table \in SettingsRows, NEW c \in Devices,
           NEW p, NEW d, NEW q, NEW p2, NEW d2, NEW q2,
           memory' = Overwritten(memory, c, p, d, q), table' = Overwritten(table, c, p2, d2, q2),
           SameSettings(c) => p = p2 /\ d = d2 /\ q = q2
    PROVE  DivergesByFailure
<1>1. /\ memory'.prefs = [memory.prefs EXCEPT ![c] = p]
      /\ memory'.discreet = [memory.discreet EXCEPT ![c] = d]
      /\ memory'.put = [memory.put EXCEPT ![c] = q]
      /\ table'.prefs = [table.prefs EXCEPT ![c] = p2]
      /\ table'.discreet = [table.discreet EXCEPT ![c] = d2]
      /\ table'.put = [table.put EXCEPT ![c] = q2]
  BY DEF Overwritten
<1>2. \A e \in Devices : SameSettings(e) => SameSettings(e)'
  BY <1>1 DEF SettingsRows, SameSettings
<1> QED BY <1>2 DEF DivergesByFailure

LEMMA SettingsStep ==
    ASSUME SettingsInv, [SettingsNext]_buildVars
    PROVE  SettingsInv' /\ DivergesByFailure
<1>1. memory \in SettingsRows /\ table \in SettingsRows
  BY DEF SettingsInv, SettingsKept
<1>2. \A c \in Devices : \A rows \in {memory, table} :
          /\ rows.prefs[c] \in PrefRow \cup {NoPrefs}
          /\ rows.discreet[c] \in Switch \cup {NoDiscreet}
          /\ rows.put[c] \in PutRow
          /\ Underway(rows.prefs[c], rows.discreet[c], rows.put[c])
  BY <1>1 DEF SettingsInv, SettingsKept, SettingsRows
<1>3. CASE UpdatePreferences
  <2>1. PICK c \in Devices, new \in PrefRow :
            Calling /\ Both(Kept(WithPrefs(memory, c, new), {}), PutPrefsInTable(c, new))
    BY <1>3, AskedAssumption DEF UpdatePreferences
  <2>2. PICK q, q2 : q = Disturbed(memory.put[c]) /\ q2 = Disturbed(table.put[c])
    OBVIOUS
  <2>3. /\ service' = service
        /\ memory' = Overwritten(memory, c, new, memory.discreet[c], q)
    BY <2>1, <2>2 DEF Both, Kept, Outcome, WithPrefs
  <2>4. SettingsKept(memory')
    BY <1>2, <2>2, <2>3, DisturbedUnderway, OneClientWritten DEF SettingsInv
  <2>5. CASE new.profile \in AllowedProfiles
    <3>1. table' = Overwritten(table, c, new, table.discreet[c], q2)
      BY <2>1, <2>2, <2>5 DEF Both, PutPrefsInTable, Kept, Outcome, WithPrefs
    <3>2. SettingsKept(table')
      BY <1>2, <2>2, <3>1, DisturbedUnderway, OneClientWritten DEF SettingsInv
    <3>3. DivergesByFailure
      BY <1>1, <2>2, <2>3, <3>1, SameWritten DEF SameSettings
    <3> QED BY <2>3, <2>4, <3>2, <3>3 DEF SettingsInv
  <2>6. CASE new.profile \notin AllowedProfiles
    <3>1. table' = table
      BY <2>1, <2>6 DEF Both, PutPrefsInTable, Refused, Outcome
    <3>2. /\ memory'.prefs = [memory.prefs EXCEPT ![c] = new]
          /\ memory'.discreet = [memory.discreet EXCEPT ![c] = memory.discreet[c]]
          /\ memory'.put = [memory.put EXCEPT ![c] = q]
      BY <2>3 DEF Overwritten
    <3>3. memory'.prefs[c].profile \notin AllowedProfiles
      BY <1>1, <2>6, <3>2 DEF SettingsRows
    <3>4. \A e \in Devices \ {c} : SameSettings(e) => SameSettings(e)'
      BY <1>1, <3>1, <3>2 DEF SettingsRows, SameSettings
    <3>5. DivergesByFailure
      BY <3>1, <3>3, <3>4 DEF DivergesByFailure
    <3>6. SettingsKept(table')
      BY <3>1 DEF SettingsInv
    <3> QED BY <2>3, <2>4, <3>5, <3>6 DEF SettingsInv
  <2> QED BY <2>5, <2>6
<1>4. CASE UpdateDiscreetMode
  <2>1. PICK c \in Devices, new \in Switch :
            Calling /\ Both(Kept(WithDiscreet(memory, c, new), {}), Kept(WithDiscreet(table, c, new), {}))
    BY <1>4 DEF UpdateDiscreetMode
  <2>2. PICK q, q2 : q = Disturbed(memory.put[c]) /\ q2 = Disturbed(table.put[c])
    OBVIOUS
  <2>3. /\ service' = service
        /\ memory' = Overwritten(memory, c, memory.prefs[c], new, q)
        /\ table' = Overwritten(table, c, table.prefs[c], new, q2)
    BY <2>1, <2>2 DEF Both, Kept, Outcome, WithDiscreet
  <2>4. SettingsKept(memory')
    BY <1>2, <2>2, <2>3, DisturbedUnderway, OneClientWritten DEF SettingsInv
  <2>5. SettingsKept(table')
    BY <1>2, <2>2, <2>3, DisturbedUnderway, OneClientWritten DEF SettingsInv
  <2>6. DivergesByFailure
    BY <1>1, <2>2, <2>3, SameWritten DEF SameSettings
  <2> QED BY <2>3, <2>4, <2>5, <2>6 DEF SettingsInv
<1>5. CASE BeginPrivacy
  <2>1. PICK c \in Devices, flags \in Flags :
            Calling /\ Both(Kept(WithPut(memory, c, FirstPut(memory.prefs[c], flags)), {}),
                            Kept(WithPut(table, c, FirstPut(table.prefs[c], flags)), {}))
    BY <1>5 DEF BeginPrivacy
  <2>2. PICK q, q2 : q = FirstPut(memory.prefs[c], flags) /\ q2 = FirstPut(table.prefs[c], flags)
    OBVIOUS
  <2>3. /\ service' = service
        /\ memory' = Overwritten(memory, c, memory.prefs[c], memory.discreet[c], q)
        /\ table' = Overwritten(table, c, table.prefs[c], table.discreet[c], q2)
    BY <2>1, <2>2 DEF Both, Kept, Outcome, WithPut
  <2>4. SettingsKept(memory')
    BY <1>2, <2>2, <2>3, FirstUnderway, OneClientWritten DEF SettingsInv
  <2>5. SettingsKept(table')
    BY <1>2, <2>2, <2>3, FirstUnderway, OneClientWritten DEF SettingsInv
  <2>6. DivergesByFailure
    BY <1>1, <2>2, <2>3, SameWritten DEF SameSettings
  <2> QED BY <2>3, <2>4, <2>5, <2>6 DEF SettingsInv
<1>6. CASE ContinuePrivacy
  <2>1. PICK c \in Devices :
            Calling /\ Both(Kept(Continued(memory, c), {}), Kept(Continued(table, c), {}))
    BY <1>6 DEF ContinuePrivacy
  <2>2. PICK p, d, q : /\ p = NextPrefs(memory.prefs[c], memory.put[c])
                       /\ d = NextDiscreet(memory.discreet[c], memory.put[c])
                       /\ q = NextPut(memory.discreet[c], memory.put[c])
    OBVIOUS
  <2>3. PICK p2, d2, q2 : /\ p2 = NextPrefs(table.prefs[c], table.put[c])
                          /\ d2 = NextDiscreet(table.discreet[c], table.put[c])
                          /\ q2 = NextPut(table.discreet[c], table.put[c])
    OBVIOUS
  <2>4. /\ service' = service
        /\ memory' = Overwritten(memory, c, p, d, q) /\ table' = Overwritten(table, c, p2, d2, q2)
    BY <2>1, <2>2, <2>3 DEF Both, Kept, Outcome, Continued
  <2>5. SettingsKept(memory')
    BY <1>2, <2>2, <2>4, NextUnderway, OneClientWritten DEF SettingsInv
  <2>6. SettingsKept(table')
    BY <1>2, <2>3, <2>4, NextUnderway, OneClientWritten DEF SettingsInv
  <2>7. SameSettings(c) => p = p2 /\ d = d2 /\ q = q2
    BY <2>2, <2>3 DEF SameSettings
  <2>8. DivergesByFailure
    BY <1>1, <2>4, <2>7, SameWritten
  <2> QED BY <2>4, <2>5, <2>6, <2>8 DEF SettingsInv
<1>7. CASE FailPrivacy
  <2>1. PICK c \in Devices :
            /\ InFlight(table.put[c])
            /\ Calling /\ Both(Kept(memory, {}), Refused(WithPut(table, c, NoPut), "failed"))
    BY <1>7 DEF FailPrivacy
  <2>2. /\ service' = service /\ memory' = memory
        /\ table' = Overwritten(table, c, table.prefs[c], table.discreet[c], NoPut)
    BY <2>1 DEF Both, Kept, Refused, Outcome, WithPut
  <2>3. SettingsKept(memory')
    BY <2>2 DEF SettingsInv
  <2>4. SettingsKept(table')
    BY <1>2, <2>2, NoPutUnderway, OneClientWritten DEF SettingsInv
  <2>5. /\ table'.prefs = table.prefs /\ table'.discreet = table.discreet
        /\ table'.put = [table.put EXCEPT ![c] = NoPut]
    BY <1>1, <2>2 DEF Overwritten, SettingsRows
  <2>6. table'.put[c] = NoPut
    BY <1>1, <2>5 DEF SettingsRows
  <2>7. \A e \in Devices \ {c} : SameSettings(e) => SameSettings(e)'
    BY <1>1, <2>2, <2>5 DEF SettingsRows, SameSettings
  <2>8. DivergesByFailure
    BY <2>1, <2>5, <2>6, <2>7 DEF DivergesByFailure
  <2> QED BY <2>2, <2>3, <2>4, <2>8 DEF SettingsInv
<1>8. CASE UNCHANGED buildVars
  <2>1. service' = service /\ memory' = memory /\ table' = table
    BY <1>8 DEF buildVars
  <2> QED BY <2>1 DEF SettingsInv, DivergesByFailure, SameSettings
<1> QED BY <1>3, <1>4, <1>5, <1>6, <1>7, <1>8 DEF SettingsNext

LEMMA SettingsStart == SettingsInit => SettingsInv
<1> SUFFICES ASSUME SettingsInit PROVE SettingsInv
  OBVIOUS
<1>1. PICK idle : idle = NoPut /\ idle \in PutRow /\ \A p, d : Underway(p, d, idle)
  BY NoPutUnderway
<1>2. PICK rows : rows = [prefs |-> [c \in Devices |-> NoPrefs],
                          discreet |-> [c \in Devices |-> NoDiscreet],
                          put |-> [c \in Devices |-> idle]]
  OBVIOUS
<1>3. service = "settings" /\ memory = rows /\ table = rows
  BY <1>1, <1>2 DEF SettingsInit, BuildsInit
<1>4. SettingsKept(rows)
  BY <1>1, <1>2 DEF SettingsKept, SettingsRows
<1> QED BY <1>3, <1>4 DEF SettingsInv

\* For any number of clients, with a privacy change of each in flight: only a call that
\* failed in the table makes the settings of the two builds differ
\* (safety/preferences.py, api/privacy.py).
THEOREM OnlyFailuresDiverge == SettingsSpec => SettingsDivergeOnlyByFailure
<1>1. SettingsInv /\ [SettingsNext]_buildVars => (service = "settings" => DivergesByFailure)
  BY SettingsStep
<1> QED BY <1>1, SettingsStart, SettingsStep, PTL
        DEF SettingsSpec, SettingsDivergeOnlyByFailure, DivergesByFailure

\* Whatever was chosen before, whichever calls come between and wherever others were cut
\* off: a discreet mode switched in the privacy centre, by a change that had the settings
\* to itself, is switched everywhere it shows (api/privacy.py).
THEOREM ChoiceSticks == SettingsSpec => []DiscreetChoiceSticks
<1>1. SettingsInv => DiscreetChoiceSticks
  <2> SUFFICES ASSUME SettingsInv, NEW c \in Devices, NEW rows \in {memory, table},
                      rows.put[c].next = "answered", rows.put[c].flags.discreet # NotGiven
               PROVE  /\ PrivacyShown(rows, c).discreet = rows.put[c].flags.discreet
                      /\ DiscreetShown(rows, c) = rows.put[c].flags.discreet
                      /\ rows.prefs[c] # NoPrefs =>
                             DashboardDiscreet(rows, c) = (rows.put[c].flags.discreet = "on")
    BY DEF DiscreetChoiceSticks
  <2>1. rows \in SettingsRows /\ Underway(rows.prefs[c], rows.discreet[c], rows.put[c])
    BY DEF SettingsInv, SettingsKept
  <2>2. /\ rows.prefs[c] # NoPrefs => rows.prefs[c].discreet = rows.put[c].flags.discreet
        /\ rows.discreet[c] = rows.put[c].flags.discreet
    BY <2>1 DEF Underway
  <2>3. rows.put[c].flags.discreet \in Switch
    BY <2>1 DEF SettingsRows, PutRow, Flags
  <2>4. DiscreetShown(rows, c) = rows.put[c].flags.discreet
    BY <2>2, <2>3 DEF DiscreetShown, NoDiscreet, Switch
  <2>5. PrivacyShown(rows, c).discreet = rows.put[c].flags.discreet
    BY <2>2, <2>4 DEF PrivacyShown
  <2>6. rows.prefs[c] # NoPrefs => DashboardDiscreet(rows, c) = (rows.put[c].flags.discreet = "on")
    BY <2>2 DEF DashboardDiscreet
  <2> QED BY <2>4, <2>5, <2>6
<1> QED BY <1>1, SettingsStart, SettingsStep, PTL DEF SettingsSpec

-----------------------------------------------------------------------------
(* Community posts.                                                        *)

PostRow == [client : Clients \cup {NoOne}, status : PostStatus \cup {"FREE"}, moderated : Int]

CommunityInv ==
    /\ service = "community"
    /\ used \in 0..MaxRows
    /\ clock \in Nat
    /\ memory \in [Ids -> PostRow]
    /\ memory = table
    /\ \A i \in Ids : memory[i].status = "FREE" <=> i > used

\* Of posts there are finitely many: how many, and that one of them is the newest.
LEMMA PostsAreFew ==
    ASSUME NEW S \in SUBSET Ids
    PROVE  IsFiniteSet(S) /\ Cardinality(S) \in 0..MaxRows
<1>1. IsFiniteSet(Ids) /\ Cardinality(Ids) = MaxRows
  BY FS_Interval, BoundsAssumption DEF Ids
<1> QED BY <1>1, FS_Subset, FS_CardinalityType, BoundsAssumption

LEMMA NewestExists ==
    ASSUME NEW S \in SUBSET Ids, S # {}
    PROVE  \E i \in S : \A j \in S : i >= j
<1> DEFINE T == {MaxRows - i : i \in S}
<1>1. T \in SUBSET Nat /\ T # {}
  <2>1. \A i \in S : MaxRows - i \in Nat
    BY BoundsAssumption DEF Ids
  <2>2. \A n \in T : n \in Nat
    BY <2>1
  <2>3. PICK i : i \in S
    OBVIOUS
  <2>4. MaxRows - i \in T
    BY <2>3
  <2> QED BY <2>2, <2>4
<1>2. PICK n \in T : \A k \in T : n <= k
  <2> DEFINE Below == OpToRel(<, Nat)
  <2>1. IsWellFoundedOn(Below, Nat)
    BY NatLessThanWellFounded
  <2>2. \A i, j \in Nat : <<i, j>> \in Below <=> i < j
    BY DEF OpToRel
  <2> HIDE DEF Below, T
  <2>3. PICK n \in T : \A k \in T : ~(<<k, n>> \in Below)
    BY <1>1, <2>1, WFMin, Zenon
  <2>4. ASSUME NEW k \in T PROVE n <= k
    <3>1. k \in Nat /\ n \in Nat
      BY <1>1
    <3>2. ~(k < n)
      BY <2>2, <2>3, <3>1
    <3> QED BY <3>1, <3>2
  <2> QED BY <2>4
<1>3. PICK i \in S : n = MaxRows - i
  OBVIOUS
<1>4. ASSUME NEW j \in S PROVE i >= j
  <2>1. n <= MaxRows - j
    BY <1>2
  <2>2. i \in Nat /\ j \in Nat
    BY DEF Ids
  <2> QED BY <1>3, <2>1, <2>2, BoundsAssumption
<1> QED BY <1>4

\* A feed that is not full leaves no visible post out: below a post that is left out,
\* the newest of them, there are already n.
LEMMA ShortFeedIsWhole ==
    ASSUME CommunityInv, NEW n \in 1..MaxRows, Cardinality(Feed(table, n)) < n
    PROVE  Feed(table, n) = Feed(table, MaxRows)
<1> DEFINE visible == Posts(table, {"PENDING", "VERIFIED"})
           Above(i) == {j \in visible : j > i}
           missing == {i \in visible : ~(Cardinality(Above(i)) < n)}
<1>1. visible \in SUBSET Ids /\ Feed(table, n) \in SUBSET Ids /\ missing \in SUBSET Ids
  BY DEF Posts, Feed
<1>2. \A i \in Ids : Cardinality(Above(i)) \in Nat
  <2> TAKE i \in Ids
  <2>1. Above(i) \in SUBSET Ids
    BY <1>1
  <2> QED BY <2>1, PostsAreFew
<1>3. missing = {}
  <2> SUFFICES ASSUME missing # {} PROVE FALSE
    OBVIOUS
  <2>1. PICK i \in missing : \A j \in missing : i >= j
    BY <1>1, NewestExists
  <2>2. Above(i) \subseteq Feed(table, n)
    <3> SUFFICES ASSUME NEW j \in Above(i) PROVE j \in Feed(table, n)
      OBVIOUS
    <3>1. j \in visible /\ j \in Nat /\ i \in Nat /\ j > i
      BY <1>1, <2>1 DEF Ids
    <3>2. j \notin missing
      BY <2>1, <3>1
    <3> QED BY <3>1, <3>2 DEF Feed
  <2>3. Cardinality(Above(i)) <= Cardinality(Feed(table, n))
    BY <1>1, <2>2, PostsAreFew, FS_Subset
  <2>4. Cardinality(Above(i)) \in Nat /\ ~(Cardinality(Above(i)) < n)
    BY <1>1, <1>2, <2>1
  <2>5. Cardinality(Feed(table, n)) \in Nat /\ n \in Nat
    BY <1>1, PostsAreFew, BoundsAssumption
  <2> HIDE DEF Above
  <2> QED BY <2>3, <2>4, <2>5
<1>4. ASSUME NEW i \in visible PROVE Cardinality(Above(i)) < MaxRows
  <2>1. i \in Ids /\ Above(i) \in SUBSET (Ids \ {i})
    BY <1>1 DEF Ids
  <2>2. /\ IsFiniteSet(Ids) /\ Cardinality(Ids) = MaxRows
        /\ IsFiniteSet(Ids \ {i}) /\ Cardinality(Ids \ {i}) = MaxRows - 1
    <3>1. IsFiniteSet(Ids) /\ Cardinality(Ids) = MaxRows
      BY FS_Interval, BoundsAssumption DEF Ids
    <3> QED BY <2>1, <3>1, FS_RemoveElement
  <2>3. Cardinality(Above(i)) <= Cardinality(Ids \ {i})
    BY <2>1, <2>2, FS_Subset
  <2>4. Cardinality(Above(i)) \in Nat
    BY <1>2, <2>1
  <2> HIDE DEF Above
  <2> QED BY <2>2, <2>3, <2>4, BoundsAssumption
<1>5. Feed(table, n) = visible /\ Feed(table, MaxRows) = visible
  BY <1>3, <1>4 DEF Feed
<1> QED BY <1>5

\* Every post has one status.
LEMMA CountsAddUp ==
    ASSUME CommunityInv
    PROVE  LET count == CountByStatus(table)
           IN  count["PENDING"] + count["VERIFIED"] + count["REJECTED"] = used
<1> DEFINE P == Posts(table, {"PENDING"})
           V == Posts(table, {"VERIFIED"})
           R == Posts(table, {"REJECTED"})
<1>1. P \in SUBSET Ids /\ V \in SUBSET Ids /\ R \in SUBSET Ids
  BY DEF Posts
<1>2. P \cap V = {} /\ (P \cup V) \cap R = {}
  BY DEF Posts
<1>3. P \cup V \cup R = 1..used
  <2>1. \A i \in Ids : /\ table[i].status \in {"PENDING", "VERIFIED", "REJECTED", "FREE"}
                       /\ table[i].status = "FREE" <=> i > used
    BY DEF CommunityInv, PostRow, PostStatus
  <2>2. 1..used = {i \in Ids : ~(i > used)}
    BY BoundsAssumption DEF CommunityInv, Ids
  <2> QED BY <2>1, <2>2 DEF Posts
<1>4. Cardinality(1..used) = used
  BY FS_Interval, BoundsAssumption DEF CommunityInv
<1>5. /\ IsFiniteSet(P) /\ IsFiniteSet(V) /\ IsFiniteSet(R) /\ IsFiniteSet(P \cup V)
      /\ Cardinality(P) \in Nat /\ Cardinality(V) \in Nat /\ Cardinality(R) \in Nat
  BY <1>1, PostsAreFew
<1> HIDE DEF P, V, R
<1>6. Cardinality(P \cup V) = Cardinality(P) + Cardinality(V)
  <2>1. Cardinality(P \cup V) = Cardinality(P) + Cardinality(V) - Cardinality(P \cap V)
    BY <1>5, FS_Union
  <2>2. Cardinality(P \cap V) = 0
    BY <1>2, FS_EmptySet
  <2> QED BY <1>5, <2>1, <2>2
<1>7. Cardinality(P \cup V \cup R) = Cardinality(P \cup V) + Cardinality(R)
  <2>1. Cardinality((P \cup V) \cup R)
          = Cardinality(P \cup V) + Cardinality(R) - Cardinality((P \cup V) \cap R)
    BY <1>5, FS_Union
  <2>2. Cardinality((P \cup V) \cap R) = 0
    BY <1>2, FS_EmptySet
  <2> QED BY <1>5, <1>6, <2>1, <2>2
<1>8. Cardinality(P) + Cardinality(V) + Cardinality(R) = used
  BY <1>3, <1>4, <1>6, <1>7
<1>9. /\ CountByStatus(table)["PENDING"] = Cardinality(P)
      /\ CountByStatus(table)["VERIFIED"] = Cardinality(V)
      /\ CountByStatus(table)["REJECTED"] = Cardinality(R)
  BY DEF CountByStatus, PostStatus, P, V, R
<1> QED BY <1>8, <1>9

LEMMA CommunityStep ==
    ASSUME CommunityInv, [CommunityNext]_buildVars
    PROVE  CommunityInv'
<1>1. CASE CreatePost
  <2>1. PICK c \in Clients : Creating /\ Both(PostInMemory(c), PostInTable(c))
    BY <1>1 DEF CreatePost
  <2>2. PICK row : row = Post(c)
    OBVIOUS
  <2>3. row \in PostRow /\ row.status = "PENDING"
    BY <2>2 DEF Post, PostRow, PostStatus, NoTime
  <2>4. /\ memory' = [memory EXCEPT ![NewId] = row] /\ table' = [table EXCEPT ![NewId] = row]
        /\ service' = service /\ clock' = clock /\ used' = NewId
    BY <2>1, <2>2 DEF Both, Creating, PostInMemory, PostInTable, Kept, Outcome
  <2>5. NewId \in Ids /\ NewId \in 0..MaxRows /\ used \in Nat /\ NewId = used + 1
    BY <2>1, BoundsAssumption DEF Creating, NewId, Ids, CommunityInv
  <2>6. \A i \in Ids : memory'[i].status = "FREE" <=> i > used'
    <3> TAKE i \in Ids
    <3>1. i \in Nat
      BY DEF Ids
    <3>2. CASE i = NewId
      BY <2>3, <2>4, <2>5, <3>2 DEF CommunityInv
    <3>3. CASE i # NewId
      BY <2>4, <2>5, <3>1, <3>3 DEF CommunityInv
    <3> QED BY <3>2, <3>3
  <2> QED BY <2>3, <2>4, <2>5, <2>6 DEF CommunityInv, Ids, PostRow
<1>2. CASE Moderate
  <2>1. PICK i \in 0..used, status \in {"VERIFIED", "REJECTED"} :
            Calling /\ Both(ModerateInMemory(i, status), ModerateInTable(i, status))
    BY <1>2 DEF Moderate
  <2>2. service' = service /\ clock' = clock /\ used' = used
    BY <2>1 DEF Both, Calling
  <2>3. CASE i \in Posts(memory, PostStatus)
    <3>1. i \in Ids /\ i # Malformed /\ i \in Posts(table, PostStatus)
          /\ memory[i].status # "FREE"
      BY <2>3, BoundsAssumption DEF Posts, Ids, Malformed, PostStatus, CommunityInv
    <3>2. PICK row : row = [memory[i] EXCEPT !.status = status, !.moderated = clock]
      OBVIOUS
    <3>3. row \in PostRow /\ row.status # "FREE"
      <4>1. memory[i] \in PostRow /\ clock \in Int /\ status \in PostStatus \cup {"FREE"}
            /\ status # "FREE"
        BY <3>1 DEF CommunityInv, PostStatus
      <4> QED BY <3>2, <4>1 DEF PostRow
    <3>4. Moderated(memory, i, status) = [memory EXCEPT ![i] = row]
      BY <3>1, <3>2 DEF Moderated, CommunityInv
    <3>5. memory' = [memory EXCEPT ![i] = row] /\ table' = memory'
      BY <2>1, <2>3, <3>1, <3>4 DEF Both, ModerateInMemory, ModerateInTable, Kept, Outcome, CommunityInv
    <3> QED BY <2>2, <3>1, <3>3, <3>5 DEF CommunityInv, Ids, PostRow
  <2>4. CASE i \notin Posts(memory, PostStatus)
    <3>1. memory' = memory /\ table' = table
      BY <2>1, <2>4 DEF Both, ModerateInMemory, ModerateInTable, Refused, Outcome, CommunityInv
    <3> QED BY <2>2, <3>1 DEF CommunityInv, Ids, PostRow
  <2> QED BY <2>3, <2>4
<1>3. CASE BuildsTick \/ UNCHANGED buildVars
  <2>1. memory' = memory /\ table' = table /\ service' = service /\ used' = used
    BY <1>3 DEF BuildsTick, buildVars
  <2>2. clock' \in Nat
    BY <1>3 DEF BuildsTick, buildVars, CommunityInv
  <2> QED BY <2>1, <2>2 DEF CommunityInv, Ids, PostRow
<1> QED BY <1>1, <1>2, <1>3 DEF CommunityNext

\* For any number of posts and decisions: both builds show the same feed and counts, a
\* rejected post neither shows nor takes a place, and every post is counted once
\* (community.py).
THEOREM CommunityAgrees == CommunitySpec => []CommunityBuildsAgree
<1>1. CommunityInit => CommunityInv
  <2> SUFFICES ASSUME CommunityInit PROVE CommunityInv
    OBVIOUS
  <2>1. PICK row : row = NoPost
    OBVIOUS
  <2>2. row \in PostRow /\ row.status = "FREE"
    BY <2>1 DEF NoPost, PostRow, NoTime
  <2>3. /\ service = "community" /\ used = 0 /\ clock = 0
        /\ memory = [i \in Ids |-> row] /\ table = [i \in Ids |-> row]
    BY <2>1 DEF CommunityInit, BuildsInit
  <2> QED BY <2>2, <2>3, BoundsAssumption DEF CommunityInv, Ids
<1>2. CommunityInv => CommunityBuildsAgree
  <2> SUFFICES ASSUME CommunityInv PROVE CommunityBuildsAgree
    OBVIOUS
  <2>1. \A n \in 1..MaxRows : \A i \in Feed(table, n) : table[i].status # "REJECTED"
    BY DEF Feed, Posts
  <2>2. ASSUME NEW i \in Known, NEW status \in PostStatus
        PROVE  SameAnswer(ModerateInMemory(i, status), ModerateInTable(i, status))
    <3>1. i # Malformed /\ memory = table
      BY BoundsAssumption DEF Known, Malformed, CommunityInv
    <3> QED BY <3>1 DEF ModerateInMemory, ModerateInTable, SameAnswer
  <2> QED BY <2>1, <2>2, ShortFeedIsWhole, CountsAddUp DEF CommunityBuildsAgree, CommunityInv
<1> QED BY <1>1, <1>2, CommunityStep, PTL DEF CommunitySpec

-----------------------------------------------------------------------------
(* Notifications of check-ins.                                             *)

\* Every notification of a history names a row that somebody owns.
Anchored(rows, history) == \A n \in history : n[1] \in Ids /\ rows[n[1]].client # NoOne

\* A call keeps that if it takes no row's owner away and its own notifications name
\* rows it leaves with one.
LEMMA StaysAnchored ==
    ASSUME NEW rows, NEW history, Anchored(rows, history), NEW rowsNext, NEW ids, NEW kinds,
           \A i \in Ids : rows[i].client # NoOne => rowsNext[i].client # NoOne,
           \A i \in ids : i \in Ids /\ rowsNext[i].client # NoOne
    PROVE  Anchored(rowsNext, history \cup (ids \X kinds))
<1> SUFFICES ASSUME NEW n \in history \cup (ids \X kinds)
             PROVE  n[1] \in Ids /\ rowsNext[n[1]].client # NoOne
  BY DEF Anchored
<1>1. CASE n \in history
  BY <1>1 DEF Anchored
<1>2. CASE n \in ids \X kinds
  <2>1. n[1] \in ids
    BY <1>2
  <2> QED BY <2>1
<1> QED BY <1>1, <1>2

LEMMA CheckinNotices ==
    ASSUME CheckinInv, Anchored(memory, notes.memory), [CheckinNext]_buildVars
    PROVE  Anchored(memory, notes.memory)'
<1>1. CASE CreateCheckin
  <2>1. PICK c \in Clients, arrival \in {NoTime, clock + 1} :
            Creating /\ Both(CreateInMemory(c, arrival), CreateInTable(c, arrival))
    BY <1>1 DEF CreateCheckin
  <2>2. PICK m : m = Opened(c, arrival, clock + CheckinInterval)
    OBVIOUS
  <2>3. m.client = c /\ c # NoOne
    BY <2>2, NoOneAssumption DEF Opened, CheckinFree
  <2>4. /\ memory' = [memory EXCEPT ![NewId] = m]
        /\ notes'.memory = notes.memory \cup ({NewId} \X {"checkin_reminder"})
    BY <2>1, <2>2 DEF Both, CreateInMemory, Outcome, Recorded
  <2>5. NewId \in Ids
    BY <2>1, BoundsAssumption DEF Creating, NewId, Ids, CheckinInv
  <2>6. PICK rows : rows = [memory EXCEPT ![NewId] = m]
    OBVIOUS
  <2>7. /\ \A i \in Ids : memory[i].client # NoOne => rows[i].client # NoOne
        /\ \A i \in {NewId} : i \in Ids /\ rows[i].client # NoOne
    BY <2>3, <2>5, <2>6 DEF CheckinInv
  <2>8. Anchored(rows, notes.memory \cup ({NewId} \X {"checkin_reminder"}))
    BY <2>7, StaysAnchored
  <2> QED BY <2>4, <2>6, <2>8 DEF Anchored
<1>2. ASSUME NEW c \in Clients, NEW i \in LiveCheckins(memory, c), NEW m, NEW t, NEW kinds,
             m.client = memory[i].client,
             Both(Outcome([memory EXCEPT ![i] = m], "ok", {i}, kinds), t)
      PROVE  Anchored(memory, notes.memory)'
  <2>1. PICK rows : rows = [memory EXCEPT ![i] = m]
    OBVIOUS
  <2>2. memory' = rows /\ notes'.memory = notes.memory \cup ({i} \X kinds)
    BY <1>2, <2>1 DEF Both, Outcome, Recorded
  <2>3. i \in Ids /\ memory[i].client # NoOne
    BY NoOneAssumption DEF LiveCheckins
  <2>4. /\ \A j \in Ids : memory[j].client # NoOne => rows[j].client # NoOne
        /\ \A j \in {i} : j \in Ids /\ rows[j].client # NoOne
    BY <1>2, <2>1, <2>3 DEF CheckinInv
  <2>5. Anchored(rows, notes.memory \cup ({i} \X kinds))
    BY <2>4, StaysAnchored
  <2> QED BY <2>2, <2>5 DEF Anchored
<1>3. ASSUME NEW code, NEW t, Both(Refused(memory, code), t)
      PROVE  Anchored(memory, notes.memory)'
  <2>1. memory' = memory /\ notes'.memory = notes.memory \cup ({} \X {})
    BY <1>3 DEF Both, Refused, Outcome, Recorded
  <2> QED BY <2>1 DEF Anchored
<1>4. CASE Checkin
  <2>1. PICK c \in Clients, i \in 0..used :
            Calling /\ Both(CheckinInMemory(c, i), CheckinInTable(c, i))
    BY <1>4 DEF Checkin
  <2>2. CASE i \in LiveCheckins(memory, c)
    <3>1. PICK m : m = MemoryChecked(memory[i])
      OBVIOUS
    <3>2. m.client = memory[i].client
      BY <2>2, <3>1, LiveCheckinsAlike DEF MemoryChecked, CheckinInv, CheckinRow
    <3>3. CheckinInMemory(c, i) = Outcome([memory EXCEPT ![i] = m], "ok", {i}, {})
      BY <2>2, <3>1, CheckinCall DEF Kept
    <3> QED BY <1>2, <2>1, <2>2, <3>2, <3>3
  <2>3. CASE i \notin LiveCheckins(memory, c)
    BY <1>3, <2>1, <2>3, CheckinRefused
  <2> QED BY <2>2, <2>3
<1>5. CASE EndCheckin
  <2>1. PICK c \in Clients, i \in 0..used, reason \in {"arrived", "cancelled"} :
            Calling /\ Both(EndInMemory(c, i, reason), EndInTable(c, i, reason))
    BY <1>5 DEF EndCheckin
  <2>2. CASE i \in LiveCheckins(memory, c)
    <3>1. PICK m : m = MemoryEnded(memory[i], reason)
      OBVIOUS
    <3>2. m.client = memory[i].client
      BY <2>2, <3>1, LiveCheckinsAlike DEF MemoryEnded, CheckinInv, CheckinRow
    <3>3. EndInMemory(c, i, reason) = Outcome([memory EXCEPT ![i] = m], "ok", {i}, Told(reason))
      BY <2>2, <3>1, EndCall
    <3> QED BY <1>2, <2>1, <2>2, <3>2, <3>3
  <2>3. CASE i \notin LiveCheckins(memory, c)
    BY <1>3, <2>1, <2>3, EndRefused
  <2> QED BY <2>2, <2>3
<1>6. CASE BuildsTick \/ UNCHANGED buildVars
  BY <1>6 DEF BuildsTick, buildVars, Anchored
<1> QED BY <1>1, <1>4, <1>5, <1>6 DEF CheckinNext

\* Whatever is called, in whatever order, no contact is reminded of, or told the end
\* of, a journey that the build does not hold (api/guardian.py:365-403).
THEOREM CheckinsTellOfRows == CheckinSpec => []NoticesHaveRows
<1> DEFINE Inv == CheckinInv /\ Anchored(memory, notes.memory)
<1>1. CheckinInit => Anchored(memory, notes.memory)
  BY DEF CheckinInit, BuildsInit, Anchored
<1>2. CheckinInv /\ Anchored(memory, notes.memory) => NoticesHaveRows
  <2> SUFFICES ASSUME CheckinInv, Anchored(memory, notes.memory) PROVE NoticesHaveRows
    OBVIOUS
  <2>1. \A i \in Ids : memory[i].client = table[i].client
    BY DEF CheckinInv, CheckinTwins, SameJourney
  <2>2. notes.memory = notes.table
    BY DEF CheckinInv
  <2> QED BY <2>1, <2>2 DEF NoticesHaveRows, Anchored
<1> QED BY <1>1, <1>2, CheckinStart, CheckinStep, CheckinNotices, PTL DEF CheckinSpec

-----------------------------------------------------------------------------
(* Safety alerts.                                                          *)

AlertRow == [client : Clients \cup {NoOne}, expires : Int]

\* The table stays empty: no INSERT is ever accepted.
AlertInv ==
    /\ service = "alerts"
    /\ used \in 0..MaxRows
    /\ clock \in Nat
    /\ memory \in [Ids -> AlertRow]
    /\ \A i \in Ids : table[i].client = NoOne
    /\ Anchored(memory, notes.memory)
    /\ notes.table = {}

\* Each statement names a column the table does not have.
LEMMA NothingAccepted == ~Accepted(InsertNames) /\ ~Accepted(SelectNames) /\ ~Accepted(ActiveNames)
BY DEF Accepted, InsertNames, SelectNames, ActiveNames, AlertColumns

LEMMA AlertStart == AlertInit => AlertInv
<1> SUFFICES ASSUME AlertInit PROVE AlertInv
  OBVIOUS
<1>1. PICK row : row = NoAlert
  OBVIOUS
<1>2. row \in AlertRow /\ row.client = NoOne
  BY <1>1 DEF NoAlert, AlertRow, NoTime
<1>3. /\ service = "alerts" /\ used = 0 /\ clock = 0
      /\ notes.memory = {} /\ notes.table = {}
      /\ memory = [i \in Ids |-> row] /\ table = [i \in Ids |-> row]
  BY <1>1 DEF AlertInit, BuildsInit
<1> QED BY <1>2, <1>3, BoundsAssumption DEF AlertInv, Anchored

LEMMA AlertStep ==
    ASSUME AlertInv, [AlertNext]_buildVars
    PROVE  AlertInv'
<1>1. CASE CreateAlert
  <2>1. PICK c \in Clients : Creating /\ Both(AlertInMemory(c), AlertInTable(c))
    BY <1>1 DEF CreateAlert
  <2>2. PICK row : row = [client |-> c, expires |-> clock + AlertLife]
    OBVIOUS
  <2>3. row \in AlertRow /\ row.client # NoOne
    <3>1. clock + AlertLife \in Int
      BY LifeAssumption DEF AlertInv
    <3> QED BY <2>2, <3>1, NoOneAssumption DEF AlertRow
  <2>4. PICK rows : rows = [memory EXCEPT ![NewId] = row]
    OBVIOUS
  <2>5. /\ memory' = rows /\ notes'.memory = notes.memory \cup ({NewId} \X {"safety_alert"})
        /\ service' = service /\ clock' = clock /\ used' = NewId
    BY <2>1, <2>2, <2>4 DEF Both, Creating, AlertInMemory, Outcome, Recorded
  <2>6. table' = table /\ notes'.table = notes.table \cup ({} \X {})
    BY <2>1, NothingAccepted DEF Both, AlertInTable, Refused, Outcome, Recorded
  <2>7. NewId \in Ids /\ NewId \in 0..MaxRows
    BY <2>1, BoundsAssumption DEF Creating, NewId, Ids, AlertInv
  <2>8. rows \in [Ids -> AlertRow]
    BY <2>3, <2>4, <2>7 DEF AlertInv
  <2>9. Anchored(rows, notes.memory \cup ({NewId} \X {"safety_alert"}))
    <3>1. /\ \A i \in Ids : memory[i].client # NoOne => rows[i].client # NoOne
          /\ \A i \in {NewId} : i \in Ids /\ rows[i].client # NoOne
      BY <2>3, <2>4, <2>7 DEF AlertInv
    <3> QED BY <3>1, StaysAnchored DEF AlertInv
  <2> QED BY <2>5, <2>6, <2>7, <2>8, <2>9 DEF AlertInv, Anchored, Ids, AlertRow
<1>2. CASE BuildsTick \/ UNCHANGED buildVars
  <2>1. /\ memory' = memory /\ table' = table /\ service' = service /\ used' = used
        /\ notes' = notes
    BY <1>2 DEF BuildsTick, buildVars
  <2>2. clock' \in Nat
    BY <1>2 DEF BuildsTick, buildVars, AlertInv
  <2> QED BY <2>1, <2>2 DEF AlertInv, Anchored, Ids, AlertRow
<1> QED BY <1>1, <1>2 DEF AlertNext

\* A list as long as the store leaves none of the client's alerts out.
LEMMA LongListIsWhole ==
    ASSUME NEW c
    PROVE  ListInMemory(c, MaxRows).ids = AlertsOf(memory, c)
<1> DEFINE mine == AlertsOf(memory, c)
           Above(i) == {j \in mine : j > i}
<1>1. mine \in SUBSET Ids
  BY DEF AlertsOf
<1>2. ASSUME NEW i \in mine PROVE Cardinality(Above(i)) < MaxRows
  <2>1. i \in Ids /\ Above(i) \in SUBSET (Ids \ {i})
    BY <1>1 DEF Ids
  <2>2. /\ IsFiniteSet(Ids \ {i}) /\ Cardinality(Ids \ {i}) = MaxRows - 1
    <3>1. IsFiniteSet(Ids) /\ Cardinality(Ids) = MaxRows
      BY FS_Interval, BoundsAssumption DEF Ids
    <3> QED BY <2>1, <3>1, FS_RemoveElement
  <2>3. Cardinality(Above(i)) <= Cardinality(Ids \ {i})
    BY <2>1, <2>2, FS_Subset
  <2>4. Cardinality(Above(i)) \in Nat
    BY <2>1, PostsAreFew
  <2> HIDE DEF Above
  <2> QED BY <2>2, <2>3, <2>4, BoundsAssumption
<1>3. ListInMemory(c, MaxRows).ids = {i \in mine : Cardinality(Above(i)) < MaxRows}
  BY DEF ListInMemory, Kept, Outcome
<1> HIDE DEF mine, Above
<1>4. ListInMemory(c, MaxRows).ids = mine
  BY <1>2, <1>3
<1> QED BY <1>4 DEF mine

\* For any number of alerts and any life of them: an active alert is its creator's, is
\* alive and is in the creator's list; the table shows none at all (safety/alerts.py).
THEOREM OnlyLiveAlerts == AlertSpec => []AlertsShownWhileAlive
<1>1. AlertInv => AlertsShownWhileAlive
  <2> SUFFICES ASSUME AlertInv, NEW c \in Clients
               PROVE  /\ \A i \in ActiveAlertsInMemory(c).ids :
                             memory[i].client = c /\ clock < memory[i].expires
                      /\ ActiveAlertsInMemory(c).ids \subseteq ListInMemory(c, MaxRows).ids
                      /\ ActiveAlertsInTable(c).ids \subseteq ActiveAlertsInMemory(c).ids
                      /\ ListInTable(c, MaxRows).ids \subseteq ListInMemory(c, MaxRows).ids
    BY DEF AlertsShownWhileAlive
  <2>1. ActiveAlertsInMemory(c).ids = {i \in AlertsOf(memory, c) : memory[i].expires > clock}
    BY DEF ActiveAlertsInMemory, Kept, Outcome
  <2>2. ActiveAlertsInTable(c).ids = {} /\ ListInTable(c, MaxRows).ids = {}
    BY NothingAccepted DEF ActiveAlertsInTable, ListInTable, Refused, Outcome
  <2>3. ASSUME NEW i \in AlertsOf(memory, c), memory[i].expires > clock
        PROVE  memory[i].client = c /\ clock < memory[i].expires
    <3>1. i \in Ids /\ memory[i].client = c /\ memory[i].expires \in Int
      BY DEF AlertsOf, AlertInv, AlertRow
    <3> QED BY <2>3, <3>1 DEF AlertInv
  <2> QED BY <2>1, <2>2, <2>3, LongListIsWhole
<1> QED BY <1>1, AlertStart, AlertStep, PTL DEF AlertSpec

\* The alert whose INSERT failed is announced to nobody, and the others are there
\* (api/alerts.py:23-38).
THEOREM AlertsTellOfRows == AlertSpec => []NoticesHaveRows
<1>1. AlertInv => NoticesHaveRows
  BY DEF AlertInv, Anchored, NoticesHaveRows
<1> QED BY <1>1, AlertStart, AlertStep, PTL DEF AlertSpec
=============================================================================
