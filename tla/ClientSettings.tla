--------------------------- MODULE ClientSettings ---------------------------
(***************************************************************************)
(* A client's settings: the preferences (safety/preferences.py), the       *)
(* settings of the discreet mode (safety/discreet_mode.py) and the privacy *)
(* settings that write both (api/privacy.py), in both builds.  Each build  *)
(* keeps at most one row of each kind for a client.                        *)
(*                                                                         *)
(* PUT /preferences and PUT /discreet-mode are one store call each.  PUT   *)
(* /privacy/settings is up to five, each a transaction of its own, between *)
(* which the others may come and at which the table may fail.  A second    *)
(* PUT /privacy/settings of the same client is not given meanwhile: what   *)
(* it would write, the other two calls write too.                          *)
(***************************************************************************)
EXTENDS StoreBuilds

CONSTANT AskedPrefs   \* what clients ask for with PUT /preferences

\* What a client may choose for its routes: nothing, something, or something together
\* with a profile that the request takes (any text) and the CHECK of the table refuses.
Profiles == {"balanced", "chosen", "typo"}
AllowedProfiles == {"balanced", "chosen"}
Switch == {"on", "off"}
NotGiven == "none"

PrefRow == [profile : Profiles, discreet : Switch, voice : Switch]
ASSUME AskedAssumption == AskedPrefs \subseteq PrefRow
DefaultPrefs == [profile |-> "balanced", discreet |-> "off", voice |-> "on"]
NoPrefs == [DefaultPrefs EXCEPT !.profile = "absent"]
NoDiscreet == "absent"     \* of the discreet mode's row, whether it is enabled
Flags == [discreet : Switch \cup {NotGiven}, voice : Switch \cup {NotGiven}]

\* A PUT /privacy/settings: the store call it makes next, the flags it was given, what
\* it has read for its next call, and whether no other call has written the client's
\* settings since it began.  An "answered" one stays until another call writes them.
NoPut == [next |-> "none", flags |-> [discreet |-> NotGiven, voice |-> NotGiven],
          prefs |-> NoPrefs, discreet |-> NoDiscreet, alone |-> TRUE]
InFlight(put) == put.next \notin {"none", "answered"}
Disturbed(put) == IF InFlight(put) THEN [put EXCEPT !.alone = FALSE] ELSE NoPut

\* What GET answers when no row is there.
DiscreetShown(rows, c) == IF rows.discreet[c] = NoDiscreet THEN "off" ELSE rows.discreet[c]
\* GET /privacy/settings prefers the preferences' flag to the discreet mode's own.
PrivacyShown(rows, c) ==
    IF rows.prefs[c] # NoPrefs
    THEN [discreet |-> rows.prefs[c].discreet, voice |-> rows.prefs[c].voice]
    ELSE [discreet |-> DiscreetShown(rows, c), voice |-> "on"]
DashboardDiscreet(rows, c) == rows.prefs[c] # NoPrefs /\ rows.prefs[c].discreet = "on"

\* Every call writes what one client has.
Overwritten(rows, c, p, d, q) ==
    [prefs |-> [rows.prefs EXCEPT ![c] = p], discreet |-> [rows.discreet EXCEPT ![c] = d],
     put |-> [rows.put EXCEPT ![c] = q]]
WithPrefs(rows, c, p) == Overwritten(rows, c, p, rows.discreet[c], Disturbed(rows.put[c]))
WithDiscreet(rows, c, d) == Overwritten(rows, c, rows.prefs[c], d, Disturbed(rows.put[c]))
WithPut(rows, c, q) == Overwritten(rows, c, rows.prefs[c], rows.discreet[c], q)

\* ON CONFLICT DO NOTHING: the first choice stays.
FaultyPutPrefsInTable(c, p) ==
    IF p.profile \in AllowedProfiles
    THEN Kept(IF table.prefs[c] = NoPrefs THEN WithPrefs(table, c, p) ELSE table, {})
    ELSE Refused(table, "failed")

PutPrefsInTable(c, p) ==
    IF p.profile \in AllowedProfiles
    THEN Kept(WithPrefs(table, c, p), {})
    ELSE Refused(table, "failed")

\* A first update writes the flags given over the row as it was read; a second one,
\* right behind it, replaces the whole row by the defaults and reads a flag that was
\* not given as off.
NewFlag(flag, old) == IF flag = NotGiven THEN old ELSE flag
PrivacyUpdate(put) ==
    [put.prefs EXCEPT !.discreet = NewFlag(put.flags.discreet, @), !.voice = NewFlag(put.flags.voice, @)]
PrivacyReplace(put) ==
    [DefaultPrefs EXCEPT !.discreet = NewFlag(put.flags.discreet, "off"),
                         !.voice = NewFlag(put.flags.voice, "off")]

\* Only a row that is there is switched.
FaultySwitched(put) == IF put.discreet = NoDiscreet THEN NoDiscreet ELSE NewFlag(put.flags.discreet, put.discreet)

\* The discreet mode's own row is switched, or made, if the flag was given, and written
\* back as it was read if not.
Switched(put) == NewFlag(put.flags.discreet, put.discreet)

FirstPut(p, flags) ==
    [NoPut EXCEPT !.next = IF p = NoPrefs THEN "read" ELSE "update", !.flags = flags, !.prefs = p]
PutAnswered(put) == IF put.alone THEN [NoPut EXCEPT !.next = "answered", !.flags = put.flags] ELSE NoPut

\* What the next store call of a privacy change makes of the client's rows and of itself.
NextPrefs(p, put) ==
    CASE put.next = "update" -> PrivacyUpdate(put)
      [] put.next = "replace" -> PrivacyReplace(put)
      [] OTHER -> p
NextDiscreet(d, put) == IF put.next = "switch" /\ Switched(put) # NoDiscreet THEN Switched(put) ELSE d
NextPut(d, put) ==
    CASE put.next = "update" -> [put EXCEPT !.next = "replace", !.prefs = NoPrefs]
      [] put.next = "replace" -> [put EXCEPT !.next = "read"]
      [] put.next = "read" -> [put EXCEPT !.discreet = d, !.next = "switch"]
      [] put.next = "switch" -> PutAnswered(put)
      [] OTHER -> put
Continued(rows, c) ==
    Overwritten(rows, c, NextPrefs(rows.prefs[c], rows.put[c]),
                NextDiscreet(rows.discreet[c], rows.put[c]), NextPut(rows.discreet[c], rows.put[c]))

-----------------------------------------------------------------------------
UpdatePreferences ==
    \E c \in Devices, p \in AskedPrefs :
        Calling /\ Both(Kept(WithPrefs(memory, c, p), {}), PutPrefsInTable(c, p))
UpdateDiscreetMode ==
    \E c \in Devices, d \in Switch :
        Calling /\ Both(Kept(WithDiscreet(memory, c, d), {}), Kept(WithDiscreet(table, c, d), {}))
BeginPrivacy ==
    \E c \in Devices, flags \in Flags :
        /\ ~InFlight(memory.put[c]) /\ ~InFlight(table.put[c])
        /\ Calling /\ Both(Kept(WithPut(memory, c, FirstPut(memory.prefs[c], flags)), {}),
                           Kept(WithPut(table, c, FirstPut(table.prefs[c], flags)), {}))
ContinuePrivacy ==
    \E c \in Devices :
        /\ InFlight(memory.put[c]) \/ InFlight(table.put[c])
        /\ Calling /\ Both(Kept(Continued(memory, c), {}), Kept(Continued(table, c), {}))
\* A statement fails, or the process ends: what was committed stays.
FailPrivacy ==
    \E c \in Devices :
        /\ InFlight(table.put[c])
        /\ Calling /\ Both(Kept(memory, {}), Refused(WithPut(table, c, NoPut), "failed"))

SettingsInit ==
    BuildsInit("settings", [prefs |-> [c \in Devices |-> NoPrefs],
                            discreet |-> [c \in Devices |-> NoDiscreet],
                            put |-> [c \in Devices |-> NoPut]])
SettingsNext ==
    UpdatePreferences \/ UpdateDiscreetMode \/ BeginPrivacy \/ ContinuePrivacy \/ FailPrivacy
SettingsSpec == SettingsInit /\ [][SettingsNext]_buildVars

-----------------------------------------------------------------------------
SameSettings(c) ==
    /\ memory.prefs[c] = table.prefs[c]
    /\ memory.discreet[c] = table.discreet[c]
    /\ memory.put[c] = table.put[c]

\* The builds differ only through a call that failed in the table: a step from settings
\* that are equal, a privacy change in flight included, leaves them equal, or the table
\* kept its rows because its CHECK refused the profile or a privacy change was cut off
\* (safety/preferences.py, api/privacy.py).
SettingsDivergeOnlyByFailure ==
    [][service = "settings" =>
           \A c \in Devices : SameSettings(c) =>
               \/ SameSettings(c)'
               \/ /\ table'.prefs[c] = table.prefs[c] /\ table'.discreet[c] = table.discreet[c]
                  /\ \/ memory'.prefs[c].profile \notin AllowedProfiles
                     \/ InFlight(table.put[c]) /\ table'.put[c] = NoPut]_buildVars

\* A discreet mode switched on or off in the privacy centre is, once that is answered,
\* switched in both places that keep it, until another call of the client writes its
\* settings, and if none did meanwhile: the privacy settings, the discreet mode's own
\* settings and, where the client has preferences, the dashboard show the choice
\* (api/privacy.py).
DiscreetChoiceSticks ==
    service = "settings" =>
        \A c \in Devices, rows \in {memory, table} :
            LET asked == rows.put[c].flags.discreet
            IN  rows.put[c].next = "answered" /\ asked # NotGiven =>
                    /\ PrivacyShown(rows, c).discreet = asked
                    /\ DiscreetShown(rows, c) = asked
                    /\ rows.prefs[c] # NoPrefs => DashboardDiscreet(rows, c) = (asked = "on")
=============================================================================
