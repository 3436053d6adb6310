-------------------------- MODULE TrustedContacts --------------------------
(***************************************************************************)
(* Trusted contacts: both builds of safety/contacts.py under               *)
(* api/contacts.py.  Name, relationship and phone are one card: they are   *)
(* written and read together, and the cipher of the phone undoes itself.   *)
(***************************************************************************)
EXTENDS StoreBuilds

Cards == {"first", "edited"}
Roles == {"primary", "secondary"}
NoContact == [client |-> NoOne, card |-> "none", role |-> "none", enabled |-> "off"]

\* A field an update does not name is None.
Updates == [card : Cards \cup {"none"}, role : Roles \cup {"none"}, enabled : {"none", "on", "off"}]

ContactsOf(rows, c) == {i \in Ids : rows[i].client = c}
Contact(c, role) == [client |-> c, card |-> "first", role |-> role, enabled |-> "on"]
Given(value, old) == IF value = "none" THEN old ELSE value
Edited(row, u) ==
    [row EXCEPT !.card = Given(u.card, @), !.role = Given(u.role, @),
                !.enabled = Given(u.enabled, @)]

CreateContactInMemory(c, role) == Kept([memory EXCEPT ![NewId] = Contact(c, role)], {NewId})
CreateContactInTable(c, role) == Kept([table EXCEPT ![NewId] = Contact(c, role)], {NewId})

UpdateInMemory(c, i, u) ==
    IF i \in ContactsOf(memory, c)
    THEN Kept([memory EXCEPT ![i] = Edited(@, u)], {i})
    ELSE Refused(memory, "unknown")
\* The SET list names the fields given; with none of them the row is only read.
SetList(u) == {f \in DOMAIN u : u[f] # "none"}
UpdateInTable(c, i, u) ==
    IF i \in ContactsOf(table, c)
    THEN IF SetList(u) = {}
         THEN Kept(table, {i})
         ELSE Kept([table EXCEPT ![i] = [f \in DOMAIN @ |->
                       IF f \in SetList(u) THEN u[f] ELSE @[f]]], {i})
    ELSE Refused(table, "unknown")

DeleteInMemory(c, i) ==
    IF i \in ContactsOf(memory, c)
    THEN Kept([memory EXCEPT ![i] = NoContact], {})
    ELSE Refused(memory, "unknown")

\* The DELETE asks for the id only.
FaultyDeleteInTable(c, i) == Kept([table EXCEPT ![i] = NoContact], {})

DeleteInTable(c, i) ==
    LET hit == ContactsOf(table, c) \cap {i}
    IN  IF hit = {}
        THEN Refused(table, "unknown")
        ELSE Kept([j \in Ids |-> IF j \in hit THEN NoContact ELSE table[j]], {})

-----------------------------------------------------------------------------
CreateContact ==
    \E c \in Clients, role \in Roles :
        Creating /\ Both(CreateContactInMemory(c, role), CreateContactInTable(c, role))
UpdateContact ==
    \E c \in Clients, i \in Known, u \in Updates :
        Calling /\ Both(UpdateInMemory(c, i, u), UpdateInTable(c, i, u))
DeleteContact ==
    \E c \in Clients, i \in Known : Calling /\ Both(DeleteInMemory(c, i), DeleteInTable(c, i))

ContactInit == BuildsInit("contacts", [i \in Ids |-> NoContact])
ContactNext == CreateContact \/ UpdateContact \/ DeleteContact
ContactSpec == ContactInit /\ [][ContactNext]_buildVars

-----------------------------------------------------------------------------
\* Both builds hold the same contacts after any calls, and tell every client the same
\* of any of them.  The table's dynamic SET list writes exactly what the memory build's
\* "or existing" keeps, and neither edits or deletes a contact for a client that does
\* not own it (safety/contacts.py).  The order of a list is not compared: the table
\* puts the secondary contacts first.
ContactBuildsAgree ==
    service = "contacts" =>
        /\ memory = table
        /\ \A c \in Clients, i \in Known :
             /\ \A u \in Updates :
                    /\ SameAnswer(UpdateInMemory(c, i, u), UpdateInTable(c, i, u))
                    /\ memory[i].client # c => UpdateInTable(c, i, u).rows = table
             /\ SameAnswer(DeleteInMemory(c, i), DeleteInTable(c, i))
             /\ memory[i].client # c => DeleteInTable(c, i).rows = table
=============================================================================
