---------------------------- MODULE RouteChoices ----------------------------
(***************************************************************************)
(* What POST /api/routes answers (api/routes.py, risk/): the candidates of *)
(* the routing service scored by the evidence on the roads they follow,    *)
(* and one of them chosen for each profile.  The handler changes nothing   *)
(* but the counts of its limiter, so its answer is an operator of the      *)
(* state: the candidates, the hour and the evidence, which comes in and    *)
(* ages between two requests.                                              *)
(*                                                                         *)
(* Risk, confidence and uncertainty are in units of 1/Unit, scores of      *)
(* evidence in hundredths, distances in metres.  A road, its matched       *)
(* segment and its id are one.                                             *)
(***************************************************************************)
EXTENDS Integers, Sequences

CONSTANT MaxSightings   \* bound on the evidence alive at once
ASSUME SightingsAssumption == MaxSightings \in Nat

VARIABLES
    offer,     \* the candidates of the routing service, in its order
    night,     \* the hour is one of NIGHT_HOURS
    sightings  \* by road and kind, the evidence that has not expired: how much of each age

routeVars == <<offer, night, sightings>>

-----------------------------------------------------------------------------
(* The evidence on a road (aggregate).                                     *)

Unit == 100000
\* exp(-n / 100), from exp(-n / 10) and the last digit
Tenths == <<100000, 90484, 81873, 74082, 67032, 60653, 54881, 49659, 44933, 40657, 36788, 33287,
            30119, 27253, 24660, 22313, 20190, 18268, 16530, 14957, 13534, 12246, 11080, 10026,
            9072, 8209, 7427, 6721, 6081, 5502, 4979, 4505, 4076, 3688, 3337, 3020, 2732>>
Hundredths == <<10000, 9900, 9802, 9704, 9608, 9512, 9418, 9324, 9231, 9139>>
Decay(n) == (Tenths[(n \div 10) + 1] * Hundredths[(n % 10) + 1]) \div 10000

Incidents == {"harassment", "suspicious_activity"}
\* Feeds may tell that a street is dark or that it is not, under one observation type.
Lighting == {"poor_lighting", "good_lighting"}
Kinds == Incidents \cup Lighting
Ages == 1..3   \* about none, four and ten days
Freshness(kind) ==
    CASE kind = "harassment" -> <<100, 30, 5>>
      [] kind = "suspicious_activity" -> <<100, 45, 13>>
      [] kind \in Lighting -> <<100, 82, 61>>
Reliability == 60   \* USER_REPORT_RELIABILITY, of about any source

AllAges(kind, Value(_, _)) == Value(kind, 1) + Value(kind, 2) + Value(kind, 3)
Count(road, kind) == AllAges(kind, LAMBDA k, age : sightings[road][k][age])
Points(road, kind) ==
    AllAges(kind, LAMBDA k, age : sightings[road][k][age] * ((Freshness(k)[age] * Reliability) \div 100))
Number(road) == Count(road, "harassment") + Count(road, "suspicious_activity")
Total(road) == Number(road) + Count(road, "poor_lighting") + Count(road, "good_lighting")
IncidentScore(road) == Points(road, "harassment") + Points(road, "suspicious_activity")
\* Whatever the observations say: that a street is not dark counts like that it is.
LightingScore(road) == Points(road, "poor_lighting") + Points(road, "good_lighting")
Conflicts(road) == \A kind \in Lighting : Count(road, kind) > 0

-----------------------------------------------------------------------------
(* The risk of a road (compute_segment_risk).                              *)

\* A dark footpath far from help, and a lit street with a police station.
Roads == {"path", "street"}
Length(road) == IF road = "path" THEN 300 ELSE 400
Lit(road) == road = "street"
\* ROAD_NIGHT_RISK
RoadType(road) == IF road = "path" THEN 30000 ELSE 0
\* 1 / (1 + exp((2000 - d) / 600)), for d = 3000 (none within reach) and d = 500
Facility(road) == IF road = "path" THEN 84113 ELSE 7586

\* 1 - exp(-k * score)
Saturated(k, score) == Unit - Decay((k * score) \div 10)
\* INCIDENT_SCALE a decimal place off.
FaultyRiskIncident(road) == Saturated(2, IncidentScore(road))

RiskIncident(road) == Saturated(20, IncidentScore(road))
RiskLighting(road) ==
    LET risk == Saturated(15, LightingScore(road))
    IN  IF ~night \/ Lit(road) THEN risk \div 2 ELSE (risk * 12) \div 10
RiskRoad(road) == IF night THEN (RoadType(road) * 3) \div 2 ELSE RoadType(road) \div 2

AtMost(x, y) == IF x <= y THEN x ELSE y

Risk(road) ==
    LET combined == (55 * RiskIncident(road) + 25 * AtMost(RiskLighting(road), Unit)
                     + 10 * Facility(road) + 10 * RiskRoad(road)) \div 100
    IN  AtMost(IF night THEN (combined * 135) \div 100 ELSE combined, Unit)

Confidence(road) ==
    IF Total(road) = 0 THEN 25000
    ELSE LET known == 60000 + 10000 * AtMost(Total(road), 4)
         IN  AtMost(IF Conflicts(road) THEN (known * 7) \div 10 ELSE known, 95000)
Uncertainty(road) == Unit - Confidence(road)

\* Only what the evidence gives: the facility, the road type and the lamp tag are left out.
Reasons(road) ==
    (IF Total(road) = 0 THEN {"limited"} ELSE {})
    \cup (IF IncidentScore(road) > 5 THEN {"incidents"} ELSE {})
    \cup (IF LightingScore(road) > 5 THEN {"poor lighting"} ELSE {})
    \cup (IF Conflicts(road) THEN {"conflicting"} ELSE {})

-----------------------------------------------------------------------------
(* The score of a candidate, and the choice.                               *)

\* A candidate is its distance and the roads it follows: the path, the street, both or
\* none that is mapped.
Speed(c) == c.distance   \* duration_s * WALKING_SPEED_MPS: the service walks as fast

Summed(c, Value(_)) ==
    (IF "path" \in c.roads THEN Value("path") ELSE 0)
    + (IF "street" \in c.roads THEN Value("street") ELSE 0)
\* Nothing matched, nothing weighs: no risk, and no uncertainty.
Weighted(c, Value(_)) ==
    IF c.roads = {} THEN 0
    ELSE Summed(c, LAMBDA r : Length(r) * Value(r)) \div Summed(c, Length)
Share(c, Holds(_)) == Weighted(c, LAMBDA r : IF Holds(r) THEN Unit ELSE 0)

RouteRisk(c) == Weighted(c, Risk)
RouteUncertainty(c) == Weighted(c, Uncertainty)
SparseShare(c) == Share(c, LAMBDA r : Confidence(r) <= 30000)
HighRiskShare(c) == Share(c, LAMBDA r : Risk(r) >= Unit \div 2)
Exposure(c) == Summed(c, LAMBDA r : (Length(r) * Risk(r)) \div Unit)

Warnings(c) ==
    (IF SparseShare(c) > Unit \div 2 THEN {"sparse"} ELSE {})
    \cup (IF \E r \in c.roads : "conflicting" \in Reasons(r) THEN {"conflict"} ELSE {})

RouteTypes == {"safety_priority", "balanced", "time_priority"}
\* In tenths.
Weights(profile) ==
    CASE profile = "safety_priority" -> [distance |-> 6, time |-> 10, risk |-> 20, unknown |-> 15]
      [] profile = "balanced" -> [distance |-> 10, time |-> 10, risk |-> 10, unknown |-> 8]
      [] profile = "time_priority" -> [distance |-> 8, time |-> 20, risk |-> 3, unknown |-> 2]
\* In 1/250 of a metre: 4000 m for a unit of risk, 400 m for one of uncertainty.
Cost(c, profile) ==
    LET w == Weights(profile)
    IN  25 * (w.distance * c.distance + w.time * Speed(c))
        + w.risk * RouteRisk(c) + (w.unknown * RouteUncertainty(c)) \div 10

\* The cheapest, the first of them where several are.
Chosen(profile) ==
    LET costs == {<<Cost(offer[i], profile), i>> : i \in DOMAIN offer}
        best == CHOOSE x \in costs :
                    \A y \in costs : x[1] < y[1] \/ (x[1] = y[1] /\ x[2] <= y[2])
    IN  offer[best[2]]

RouteResult(c) ==
    [safety |-> (Unit - RouteRisk(c)) \div 1000,
     confidence |-> AtMost(Unit - RouteUncertainty(c), 95000),
     high_risk |-> HighRiskShare(c),
     exposure |-> Exposure(c),
     reasons |-> UNION {Reasons(r) : r \in c.roads},
     warnings |-> Warnings(c)]
\* No route is made up: without candidates the answer is an error.
Answered == offer # <<>>

-----------------------------------------------------------------------------
Unseen == [kind \in Kinds |-> <<0, 0, 0>>]
Sight(road, kind, age) ==
    /\ Total("path") + Total("street") < MaxSightings
    /\ sightings' = [sightings EXCEPT ![road][kind][age] = @ + 1]
    /\ UNCHANGED <<offer, night>>

\* Days pass; beyond the last age everything has expired.
Age ==
    /\ \E road \in Roads : Total(road) > 0
    /\ sightings' = [road \in Roads |-> [kind \in Kinds |->
                        <<0, sightings[road][kind][1], sightings[road][kind][2]>>]]
    /\ UNCHANGED <<offer, night>>

\* No candidate or three: the short way, then one that avoids a part of it or is not on the
\* map at all, then the long way round.
Offers ==
    LET via(distance, roads) == [distance |-> distance, roads |-> roads]
        short == via(500, {"path"})
        long == via(950, {"street"})
    IN  {SubSeq(<<short, via(800, roads), long>>, 1, n) : roads \in {{}, Roads}, n \in {0, 3}}
RoutesInit ==
    /\ offer \in Offers
    /\ night \in BOOLEAN
    /\ sightings = [road \in Roads |-> Unseen]
RoutesNext == Age \/ \E road \in Roads, kind \in Kinds, age \in Ages : Sight(road, kind, age)
RoutesSpec == RoutesInit /\ [][RoutesNext]_routeVars

-----------------------------------------------------------------------------
\* An incident that has been reported and that the answer names as a reason.
Mentioned(road) == Number(road)' > Number(road) /\ ("incidents" \in Reasons(road))'

\* A report of an incident that the answer names as a reason never draws a route onto the
\* road it speaks of, whatever the profile: what it adds to the risk of the road outweighs
\* the uncertainty it takes away; and a route that is chosen in spite of it is not shown
\* as safer, nor as less exposed (compute_segment_risk, profile_cost, score_candidate).
\* Below REASON_THRESHOLD it is not so: an incident that has nearly expired makes its road
\* cheaper.  Nor is it so of lighting by day.
IncidentsNeverAttract ==
    [][Answered => \A road \in {r \in Roads : Mentioned(r)}, profile \in RouteTypes :
         \A before \in {Chosen(profile)}, after \in {Chosen(profile)'} :
             /\ road \in after.roads => road \in before.roads
             /\ after = before =>
                    /\ RouteResult(after)'.safety <= RouteResult(before).safety
                    /\ RouteResult(after)'.exposure >= RouteResult(before).exposure]_routeVars
=============================================================================
