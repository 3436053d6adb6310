----------------------------- MODULE MCServices -----------------------------
(* The components of the API that share no state, in one run: the initial   *)
(* state chooses the one that is called, and the others stay idle.          *)
EXTENDS JourneyCheckins, VoiceGuidance, FakeCalls, TrustedContacts, ClientSettings,
        CommunityAlerts, SosBuilds, GuardianBuilds, DeviceSessions,
        DatasetBuild, DatasetRecords, RouteChoices, ReportIntake, MapOverlays

CONSTANT c1

Reports == [client : {c1}, form : {"full"}, text : {"personal"}]

\* A profile that the table refuses is asked for with nothing else to tell it apart by.
Asked == {p \in PrefRow : p.profile \in AllowedProfiles}
             \cup {[DefaultPrefs EXCEPT !.profile = "typo"]}

DatasetIdle == DatasetInit /\ primed = {}
RoutesIdle == RoutesInit /\ offer = <<>> /\ ~night
IntakeIdle == IntakeInit /\ detector = "memory" /\ limiters = <<"memory">>

StoreInit ==
    \/ CheckinInit
    \/ VoiceInit
    \/ FakeCallInit
    \/ ContactInit
    \/ SettingsInit
    \/ CommunityInit
    \/ AlertInit
    \/ SosInit
    \/ JourneyInit
    \/ SessionInit
StoreNext ==
    \/ service = "checkins" /\ CheckinNext
    \/ service = "voice" /\ VoiceNext
    \/ service = "fakecall" /\ FakeCallNext
    \/ service = "contacts" /\ ContactNext
    \/ service = "settings" /\ SettingsNext
    \/ service = "community" /\ CommunityNext
    \/ service = "alerts" /\ AlertNext
    \/ service = "sos" /\ SosNext
    \/ service = "guardian" /\ JourneyNext
    \/ service = "sessions" /\ SessionNext

\* The components that keep no rows of a store.
Apart == {"dataset", "records", "routes", "intake", "overlays"}
ApartInit ==
    /\ IF service = "dataset" THEN DatasetInit ELSE DatasetIdle
    /\ RecordsInit
    /\ IF service = "routes" THEN RoutesInit ELSE RoutesIdle
    /\ IF service = "intake" THEN IntakeInit ELSE IntakeIdle
    /\ OverlaysInit
ApartNext ==
    \/ service = "dataset" /\ DatasetNext /\ UNCHANGED <<recordVars, routeVars, intakeVars, mapVars>>
    \/ service = "records" /\ RecordsNext /\ UNCHANGED <<datasetVars, routeVars, intakeVars, mapVars>>
    \/ service = "routes" /\ RoutesNext /\ UNCHANGED <<datasetVars, recordVars, intakeVars, mapVars>>
    \/ service = "intake" /\ IntakeNext /\ UNCHANGED <<datasetVars, recordVars, routeVars, mapVars>>
    \/ service = "overlays" /\ OverlaysNext /\ UNCHANGED <<datasetVars, recordVars, routeVars, intakeVars>>

apartVars == <<datasetVars, recordVars, routeVars, intakeVars, mapVars>>

Init == (StoreInit \/ \E name \in Apart : BuildsInit(name, <<>>)) /\ ApartInit
Next ==
    \/ StoreNext /\ UNCHANGED apartVars
    \/ ApartNext /\ UNCHANGED buildVars
vars == <<buildVars, apartVars>>
Spec == Init /\ [][Next]_vars
=============================================================================
