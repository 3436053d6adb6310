--------------------------- MODULE VoiceGuidance ---------------------------
(***************************************************************************)
(* Voice guidance sessions: both builds of safety/voice_guidance.py under  *)
(* api/voice_guidance.py.                                                  *)
(***************************************************************************)
EXTENDS StoreBuilds

\* What a client names as its route session: nothing, the id of one, or a word
\* (the web client sends "current"), which the column, a UUID, does not take.
Routes == {"none", "uuid", "word"}
VoiceFree == [client |-> NoOne, route |-> "none", active |-> FALSE, ended |-> NoTime]

VoiceOf(rows, c) == {i \in Ids : rows[i].client = c}
Speaking(rows, c) == {i \in VoiceOf(rows, c) : rows[i].active}
Silenced(rows, i) == [rows EXCEPT ![i].active = FALSE, ![i].ended = clock]

StartInMemory(c, route) ==
    Kept([memory EXCEPT ![NewId] =
             [client |-> c, route |-> route, active |-> TRUE, ended |-> NoTime]], {NewId})
StartInTable(c, route) ==
    IF route = "word"
    THEN Refused(table, "failed")
    ELSE Kept([table EXCEPT ![NewId] =
                  [client |-> c, route |-> route, active |-> TRUE, ended |-> NoTime]], {NewId})

\* Ends the client's first session, speaking or not.
FaultyStopInMemory(c) ==
    LET i == Oldest(VoiceOf(memory, c))
    IN  IF VoiceOf(memory, c) = {}
        THEN Refused(memory, "unknown")
        ELSE Kept(Silenced(memory, i), {i})

\* The loop ends the first active session it meets and returns.
StopInMemory(c) ==
    LET i == Oldest(Speaking(memory, c))
    IN  IF Speaking(memory, c) = {}
        THEN Refused(memory, "unknown")
        ELSE Kept(Silenced(memory, i), {i})

\* Takes the first row and leaves the others speaking.
FaultyStopInTable(c) ==
    LET i == Oldest(Speaking(table, c))
    IN  IF Speaking(table, c) = {}
        THEN Refused(table, "unknown")
        ELSE Kept(Silenced(table, i), {i})

\* The UPDATE ends every active session, but one_or_none() raises on a second row and
\* the transaction is rolled back.
StopInTable(c) ==
    CASE Speaking(table, c) = {} -> Refused(table, "unknown")
      [] Cardinality(Speaking(table, c)) > 1 -> Refused(table, "failed")
      [] OTHER -> LET i == Oldest(Speaking(table, c)) IN Kept(Silenced(table, i), {i})

\* No session at all is answered with an empty one.
VoiceStatusInMemory(c) == Picked(memory, VoiceOf(memory, c), Oldest)
VoiceStatusInTable(c) == Picked(table, VoiceOf(table, c), Newest)

-----------------------------------------------------------------------------
StartVoice ==
    \E c \in Clients, route \in Routes :
        Creating /\ Both(StartInMemory(c, route), StartInTable(c, route))
StopVoice == \E c \in Clients : Calling /\ Both(StopInMemory(c), StopInTable(c))

VoiceInit == BuildsInit("voice", [i \in Ids |-> VoiceFree])
VoiceNext == StartVoice \/ StopVoice \/ BuildsTick
VoiceSpec == VoiceInit /\ [][VoiceNext]_buildVars

-----------------------------------------------------------------------------
\* A client that has started at most one session, on no route or on a well-formed
\* one, meets the same service in both builds: the same row, the same status and the
\* same answer to a stop, whatever the other clients do (safety/voice_guidance.py).
VoiceBuildsAgree ==
    service = "voice" =>
        \A c \in Clients :
            /\ Cardinality(VoiceOf(memory, c)) < 2
            /\ \A i \in VoiceOf(memory, c) : memory[i].route # "word"
            => /\ VoiceOf(memory, c) = VoiceOf(table, c)
               /\ \A i \in VoiceOf(memory, c) : memory[i] = table[i]
               /\ SameAnswer(VoiceStatusInMemory(c), VoiceStatusInTable(c))
               /\ SameAnswer(StopInMemory(c), StopInTable(c))

\* In the table a stop is all or nothing: answered with success, no session of that
\* client goes on speaking; answered with an error, every session is as it was.
StopIsComplete ==
    service = "voice" =>
        \A c \in Clients :
            LET stop == StopInTable(c)
            IN  IF stop.code = "ok" THEN Speaking(stop.rows, c) = {} ELSE stop.rows = table
=============================================================================
