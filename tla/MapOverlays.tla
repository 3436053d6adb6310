---------------------------- MODULE MapOverlays ----------------------------
(***************************************************************************)
(* The map's overlays (overlays/store.py, api/overlays.py): the incident   *)
(* and lighting markers, the alerts, the heat map and the insight into an  *)
(* area.  Production computes them from safety_observations; the offline   *)
(* demo from the snapshot that seed_demo.py wrote of its own rows.  What a *)
(* call is answered is an operator of the state.                           *)
(***************************************************************************)
EXTENDS Integers, Sequences, FiniteSets

CONSTANTS
    PointLimit,  \* most rows of one query: 2000
    MaxPoints,   \* bound on the observations
    MapClock     \* bound on the clock

ASSUME PointsAssumption == PointLimit \in Nat \ {0} /\ {MaxPoints, MapClock} \subseteq Nat

VARIABLES
    points,    \* safety_observations, from the oldest observed_at to the newest
    snapshot,  \* demo-evidence.json, as the offline store has loaded it: by position, the items
    mapNow

mapVars == <<points, snapshot, mapNow>>

-----------------------------------------------------------------------------
\* What an observation says: its type and the flag of its value_json, if it has one.
Sightings == {"harassment", "lamp out", "dark", "not dark", "unflagged"}
IncidentTypes == {"harassment"}
LightingTypes == {"lamp out", "dark", "not dark", "unflagged"}
\* Where it is, seen from the centre of an area: within a kilometre, or within one of another
\* hotspot too; within two, but out of the box of 0.02 degrees (due east); in a corner of
\* the box, more than two away.
Places == {"spot", "both", "east", "corner"}
OverlayPoint == [telling : Sightings, place : Places, source : {"demo_seed", "feed"}, at : 0..MapClock]

\* freshness >= 0.05: incidents fade first.
Fresh(p) == mapNow - p.at < (IF p.telling \in IncidentTypes THEN 1 ELSE 2)

\* What a query returns is the set of the ids of its rows: a later id is a newer row.
Found(rows, types, places) ==
    {i \in DOMAIN rows : rows[i].telling \in types /\ rows[i].place \in places}
Latest(ids, limit) == {i \in ids : Cardinality({j \in ids : i < j}) < limit}

\* The limit taken before the filter.
FaultyRows(rows, types, places, limit) ==
    Latest(DOMAIN rows, limit) \cap Found(rows, types, places)

\* The newest of the rows of these types in these places.
Rows(rows, types, places, limit) == Latest(Found(rows, types, places), limit)

-----------------------------------------------------------------------------
(* Markers.                                                                *)

\* The first of the keys working, poor, blocked and incident, whatever it means: a place
\* reported dark counts as working, one that is not dark as not working.
ValueBool(telling) ==
    CASE telling \in {"harassment", "dark"} -> "True"
      [] telling \in {"lamp out", "not dark"} -> "False"
      [] telling = "unflagged" -> "None"

StatusLabel(telling) ==
    CASE telling = "lamp out" -> "Streetlight reported not working"
      [] telling = "not dark" -> "Poor lighting reported"
      [] telling \in {"dark", "unflagged"} -> "Lighting status uncertain"

\* The call raises: the snapshot's observed_at is a string, without an isoformat.
Failed == <<"failed">>
Dated(found, answer) == IF found = {} THEN answer ELSE Failed

IncidentMarkers(rows, places, limit) == Rows(rows, IncidentTypes, places, limit)
LightingMarkers(rows, places, limit) ==
    [i \in Rows(rows, LightingTypes, places, limit) |-> <<rows[i].place, StatusLabel(rows[i].telling)>>]
Alerts(rows, limit) == IncidentMarkers(rows, Places, limit)

OfflineIncidents(limit) == Dated(Rows(snapshot, IncidentTypes, Places, limit), <<>>)
OfflineLighting(limit) == Dated(Rows(snapshot, LightingTypes, Places, limit), <<>>)

\* A zone for every cell that holds a point, its level in thousandths.
Level(n) == 150 + (850 * (IF n < 6 THEN n ELSE 6)) \div 6
HeatIn(rows, place) ==
    Level(Cardinality({i \in Rows(rows, Sightings, Places, PointLimit) : rows[i].place = place}))
HeatZones(rows) ==
    {<<rows[i].place, HeatIn(rows, rows[i].place)>> : i \in Rows(rows, Sightings, Places, PointLimit)}

-----------------------------------------------------------------------------
(* Area insight.                                                           *)

NoArea == <<>>
\* Of a thousand.  A point of any kind that is fresh adds to the risk; without an
\* observation of the lighting a fifth of it counts as out.
HourScore(rows, found, dark) ==
    LET lights == {i \in found : rows[i].telling \in LightingTypes}
        out == {i \in lights : ValueBool(rows[i].telling) = "False"}
        base == 80 + 6 * Cardinality({i \in found : Fresh(rows[i])})
        share == IF lights = {} THEN 200 ELSE (1000 * Cardinality(out)) \div Cardinality(lights)
        risk == IF dark THEN (base * 135) \div 100 + (share * 18) \div 100
                        ELSE base + (share * 5) \div 100
    IN  IF risk < 1000 THEN 1000 - risk ELSE 0
\* No more than 99 are shown.
Shown(n) == IF n < 99 THEN n ELSE 99
FreshIncidents(rows, found) == {i \in found : rows[i].telling \in IncidentTypes /\ Fresh(rows[i])}
Insight(rows, found) ==
    IF found = {} THEN NoArea
    ELSE LET value == (HourScore(rows, found, FALSE) + HourScore(rows, found, TRUE)) \div 2
         IN  [value |-> value,
              band |-> IF value >= 695 THEN "high" ELSE IF value >= 495 THEN "moderate" ELSE "low",
              recent_incidents |-> Shown(Cardinality(FreshIncidents(rows, found)))]

Box == {"spot", "both", "corner"}
Circle == {"spot", "both", "east"}
\* The newest rows of the box, or all of the circle.
AreaSafety == Insight(points, Rows(points, Sightings, Box, PointLimit))
AreaSafetyInMemory(rows) == Insight(rows, Found(rows, Sightings, Circle))
OfflineArea == Dated(Found(snapshot, Sightings, Circle), NoArea)

-----------------------------------------------------------------------------
\* seed_demo.py writes three kinds of row, each near a hotspot, this one or another.
Seeded == {"harassment", "lamp out", "dark"}
Observe(telling, place, source) ==
    /\ Len(points) < MaxPoints /\ (source = "demo_seed" => telling \in Seeded)
    /\ points' = Append(points, [telling |-> telling, place |-> place, source |-> source, at |-> mapNow])
    /\ UNCHANGED <<snapshot, mapNow>>

Demo(p) == p.source = "demo_seed"
\* The items of row i, in the order of the rows: one, or one for each of two hotspots.
Items(i) == IF points[i].place = "both" THEN {2 * i, 2 * i + 1} ELSE {2 * i}

\* Of the flags of a row an item keeps working only.
Snapped(p) == IF p.telling = "dark" THEN [p EXCEPT !.telling = "unflagged"] ELSE p

\* The demo rows within a kilometre of each hotspot, and the offline API started on them.
TakeSnapshot ==
    /\ snapshot' = [k \in UNION {Items(i) : i \in {i \in DOMAIN points : Demo(points[i])}} |->
                       Snapped(points[k \div 2])]
    /\ UNCHANGED <<points, mapNow>>

MapTick == mapNow < MapClock /\ mapNow' = mapNow + 1 /\ UNCHANGED <<points, snapshot>>

OverlaysInit == points = <<>> /\ snapshot = <<>> /\ mapNow = 0
OverlaysNext ==
    \/ TakeSnapshot \/ MapTick
    \/ \E telling \in Sightings, place \in Places, source \in {"demo_seed", "feed"} :
         Observe(telling, place, source)
OverlaysSpec == OverlaysInit /\ [][OverlaysNext]_mapVars

-----------------------------------------------------------------------------
\* The parts of the map agree.  As many alerts as asked for are shown as long as there are
\* incidents, whatever else is observed.  The insight into an area counts the incidents
\* that are fresh among those the map shows of its box, all of them as long as one query
\* holds the box.  Over the same rows the memory store, dated, has the insight that
\* production has, where box and circle hold the same points and one query holds them.
\* Every item of the offline demo is of a demo row of the table, in its place and with its
\* label, the flag it lost notwithstanding.
\* The demo's heat is in places where the table has rows, and no higher than production's
\* of the place unless a row is near two hotspots: those count twice.  Its lists are empty
\* or fail, and they fail as soon as the snapshot has something to show (overlays/store.py,
\* seed_demo.py; overlays/registry.py: observed_at is not parsed).
OverlaysAgree ==
    LET incidents == Found(points, IncidentTypes, Places)
        inBox == Found(points, Sightings, Box)
        fresh == {i \in IncidentMarkers(points, Box, PointLimit) : Fresh(points[i])}
    IN  /\ \A limit \in 1..MaxPoints :
             Cardinality(Alerts(points, limit))
               = (IF Cardinality(incidents) < limit THEN Cardinality(incidents) ELSE limit)
        /\ AreaSafety # NoArea =>
             /\ AreaSafety.recent_incidents <= Shown(Cardinality(fresh))
             /\ Cardinality(inBox) <= PointLimit
                  => AreaSafety.recent_incidents = Shown(Cardinality(fresh))
        /\ (Cardinality(inBox) <= PointLimit /\ \A i \in DOMAIN points : points[i].place \in Box \cap Circle)
             => AreaSafetyInMemory(points) = AreaSafety
        /\ \A k \in DOMAIN snapshot : \E i \in DOMAIN points :
             /\ k \in Items(i) /\ Demo(points[i])
             /\ snapshot[k].place = points[i].place
             /\ points[i].telling \in LightingTypes =>
                  StatusLabel(snapshot[k].telling) = StatusLabel(points[i].telling)
        /\ {z[1] : z \in HeatZones(snapshot)} \subseteq {points[i].place : i \in DOMAIN points}
        /\ (Len(points) <= PointLimit /\ \A k \in DOMAIN snapshot : snapshot[k].place # "both")
             => \A place \in Places : HeatIn(snapshot, place) <= HeatIn(points, place)
        /\ OfflineIncidents(PointLimit) = Failed <=>
             \E k \in DOMAIN snapshot : snapshot[k].telling \in IncidentTypes
        /\ OfflineLighting(PointLimit) = Failed <=>
             \E k \in DOMAIN snapshot : snapshot[k].telling \in LightingTypes
        /\ OfflineArea = NoArea <=> \A k \in DOMAIN snapshot : snapshot[k].place \notin Circle
=============================================================================
