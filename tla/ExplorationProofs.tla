--------------------------- MODULE ExplorationProofs ---------------------------
(***************************************************************************)
(* Theorems about Exploration, for every space and every map of obstacles, *)
(* every planner and every setting of the state machine.                   *)
(***************************************************************************)
EXTENDS Exploration, TLAPS

(***************************************************************************)
(* The goals of the state machine.                                         *)
(***************************************************************************)

\* The idle ticks stay below the limit while it explores, which FsmTypeOK alone
\* does not say; and a goal that was sent is the current one or visited.
FsmInv ==
  /\ FsmTypeOK
  /\ state = "EXPLORE" => idleTicks < IdleStalled
  /\ state = "IDLE" => sent = {}
  /\ sent \subseteq visited \cup {current}

LEMMA SettingsAreNat ==
  /\ ArriveTol \in Nat /\ MinSep \in Nat /\ ClampShift \in Nat
  /\ Cooldown \in Nat /\ MaxGoals \in Nat
  /\ IdleEmpty \in Nat \ {0} /\ IdleStalled \in Nat \ {0}
BY ExploreAssumption

LEMMA FsmCounters ==
  ASSUME FsmTypeOK
  PROVE  /\ goalCount \in 0 .. MaxGoals /\ idleTicks \in 0 .. IdleStalled
         /\ sentAge \in 0 .. Cooldown
BY Zenon DEF FsmTypeOK

\* What the state machine picks is a place it may fly to.
LEMMA ChoicesArePlaces ==
  ASSUME FsmInv, odom # NoPlace, NEW vis, NEW c \in choices(vis)
  PROVE  c \in InBox /\ c \in Places /\ Clamp[c] \in Places
<1>1. odom \in Places
  BY DEF FsmInv, FsmTypeOK
<1>2. ForwardSeeds[odom] \subseteq InBox
  BY <1>1, BoxAssumption
<1>3. candidates \subseteq InBox
  BY <1>2 DEF candidates
<1>4. c \in InBox
  BY <1>2, <1>3 DEF choices
<1> QED  BY <1>4, BoxAssumption

\* A goal that is sent, on a trigger or in a tick.
LEMMA SendsType ==
  ASSUME FsmInv, NEW vis \in SUBSET Places, NEW n \in 0 .. MaxGoals,
         NEW before \in SUBSET Places, before \subseteq vis,
         sends(vis, n, before)
  PROVE  /\ current' \in Places /\ origin' \in Places /\ sentAge' \in 0 .. Cooldown
         /\ goalCount' \in 0 .. MaxGoals
         /\ sent' \subseteq Places /\ sent' \subseteq vis \cup {current'}
<1>1. odom # NoPlace /\ n < MaxGoals
  BY DEF sends, mayPick
<1>2. PICK c \in choices(vis) : current' = Clamp[c] /\ sent' = before \cup {Clamp[c]}
  BY DEF sends
<1>3. current' \in Places
  BY <1>1, <1>2, ChoicesArePlaces
<1>4. origin' = odom /\ sentAge' = 0 /\ goalCount' = n + 1
  BY DEF sends
<1>5. origin' \in Places
  BY <1>1, <1>4 DEF FsmInv, FsmTypeOK
<1>6. sentAge' \in 0 .. Cooldown /\ goalCount' \in 0 .. MaxGoals
  BY <1>1, <1>4, SettingsAreNat
<1> QED  BY <1>2, <1>3, <1>5, <1>6

\* What was sent before is visited once the current goal is reached.
LEMMA SentIsVisited ==
  FsmInv => /\ reachedSet \subseteq Places /\ sent \subseteq reachedSet
BY PlacesAssumption DEF FsmInv, FsmTypeOK, reachedSet

LEMMA TriggerKeeps == FsmInv /\ onTrigger => FsmInv'
<1> SUFFICES ASSUME FsmInv, onTrigger PROVE FsmInv'
  OBVIOUS
<1> DEFINE again == state = "FINISHED"
           vis == IF again THEN {} ELSE visited
           before == IF again THEN {} ELSE sent
           n == IF again THEN 0 ELSE goalCount
<1>0. FsmTypeOK  BY DEF FsmInv
<1>1. /\ vis \in SUBSET Places /\ before = {} /\ n \in 0 .. MaxGoals
      /\ before \in SUBSET Places /\ before \subseteq vis
  <2>1. state \in {"IDLE", "FINISHED"}
    BY <1>0 DEF onTrigger, FsmTypeOK
  <2>2. before = {}
    BY <2>1 DEF FsmInv
  <2>3. vis \in SUBSET Places
    BY <1>0 DEF FsmTypeOK
  <2>4. n \in 0 .. MaxGoals
    <3>1. goalCount \in 0 .. MaxGoals /\ 0 \in 0 .. MaxGoals
      BY <1>0, SettingsAreNat, FsmCounters
    <3> QED  BY <3>1
  <2> QED  BY <2>2, <2>3, <2>4
<1>2. /\ visited' = vis /\ idleTicks' = 0 /\ UNCHANGED <<seeding, odom, frontiers>>
      /\ \/ sends(vis, n, before) /\ state' = "EXPLORE" /\ UNCHANGED ended
         \/ /\ state' = (IF capped(n) THEN "FINISHED" ELSE "EXPLORE")
            /\ ended' = (IF capped(n) THEN "max_goals" ELSE ended)
            /\ current' = NoPlace /\ origin' = NoPlace
            /\ goalCount' = n /\ sent' = before
            /\ UNCHANGED sentAge
  BY DEF onTrigger
<1> HIDE DEF vis, before, n
<1>3. /\ seeding' \in BOOLEAN /\ odom' \in Places \cup {NoPlace}
      /\ frontiers' \subseteq Places /\ visited' \subseteq Places
      /\ idleTicks' \in 0 .. IdleStalled /\ idleTicks' < IdleStalled
  <2>1. seeding' \in BOOLEAN
    BY <1>0, <1>2, Zenon DEF FsmTypeOK
  <2>2. odom' \in Places \cup {NoPlace} /\ frontiers' \subseteq Places
    BY <1>0, <1>2 DEF FsmTypeOK
  <2>3. visited' \subseteq Places  BY <1>1, <1>2
  <2>4. idleTicks' \in 0 .. IdleStalled /\ idleTicks' < IdleStalled
    BY <1>2, SettingsAreNat
  <2> QED  BY <2>1, <2>2, <2>3, <2>4
<1>4. CASE sends(vis, n, before) /\ state' = "EXPLORE" /\ UNCHANGED ended
  <2>1. /\ current' \in Places /\ origin' \in Places /\ sentAge' \in 0 .. Cooldown
        /\ goalCount' \in 0 .. MaxGoals
        /\ sent' \subseteq Places /\ sent' \subseteq vis \cup {current'}
    BY <1>1, <1>4, SendsType
  <2> QED  BY <1>0, <1>2, <1>3, <1>4, <2>1 DEF FsmInv, FsmTypeOK
<1>5. CASE /\ state' = (IF capped(n) THEN "FINISHED" ELSE "EXPLORE")
           /\ ended' = (IF capped(n) THEN "max_goals" ELSE ended)
           /\ current' = NoPlace /\ origin' = NoPlace
           /\ goalCount' = n /\ sent' = before
           /\ UNCHANGED sentAge
  <2>1. state' \in {"FINISHED", "EXPLORE"}
    BY <1>5
  <2>2. ended' \in {"not", "max_goals", "no frontiers", "stalled"}
    BY <1>0, <1>5 DEF FsmTypeOK
  <2>3. goalCount' \in 0 .. MaxGoals /\ sentAge' \in 0 .. Cooldown
    BY <1>0, <1>1, <1>5 DEF FsmTypeOK
  <2> QED  BY <1>1, <1>3, <1>5, <2>1, <2>2, <2>3 DEF FsmInv, FsmTypeOK
<1> QED  BY <1>2, <1>4, <1>5

LEMMA TickKeeps == FsmInv /\ tick => FsmInv'
<1> SUFFICES ASSUME FsmInv, tick PROVE FsmInv'
  OBVIOUS
<1>0. FsmTypeOK  BY DEF FsmInv
<1>1. exploring /\ state = "EXPLORE" /\ odom # NoPlace /\ idleTicks < IdleStalled
  BY DEF tick, tickWait, tickSend, tickIdle, exploring, FsmInv
<1>2. older \in 0 .. Cooldown
  BY <1>0, SettingsAreNat, FsmCounters DEF older
<1>3. reachedSet \subseteq Places /\ sent \subseteq reachedSet
  BY SentIsVisited
<1>4. CASE tickWait
  BY <1>0, <1>1, <1>2, <1>4 DEF tickWait, FsmInv, FsmTypeOK
<1>5. CASE tickSend
  <2>1. /\ current' \in Places /\ origin' \in Places /\ sentAge' \in 0 .. Cooldown
        /\ goalCount' \in 0 .. MaxGoals
        /\ sent' \subseteq Places /\ sent' \subseteq reachedSet \cup {current'}
    <3>1. goalCount \in 0 .. MaxGoals /\ sent \in SUBSET Places
      BY <1>0 DEF FsmTypeOK
    <3> QED  BY <1>3, <1>5, <3>1, SendsType DEF tickSend
  <2>2. visited' = reachedSet /\ idleTicks' = 0
        /\ UNCHANGED <<seeding, state, odom, frontiers, ended>>
    BY <1>5 DEF tickSend
  <2>3. idleTicks' \in 0 .. IdleStalled /\ idleTicks' < IdleStalled
    BY <2>2, SettingsAreNat
  <2> QED  BY <1>0, <1>1, <1>3, <2>1, <2>2, <2>3 DEF FsmInv, FsmTypeOK
<1>6. CASE tickIdle
  <2>1. /\ visited' = reachedSet /\ idleTicks' = idleTicks + 1 /\ current' = NoPlace
        /\ sentAge' = older
        /\ UNCHANGED <<seeding, odom, frontiers, origin, goalCount, sent>>
    BY <1>6 DEF tickIdle
  <2>2. state' = IF \/ capped(goalCount)
                    \/ idleTicks' >= IdleEmpty /\ frontiers = {}
                    \/ idleTicks' >= IdleStalled
                 THEN "FINISHED" ELSE "EXPLORE"
    BY <1>6 DEF tickIdle
  <2>3. idleTicks \in Nat /\ idleTicks' \in 0 .. IdleStalled
    BY <1>0, <1>1, <2>1, SettingsAreNat, FsmCounters
  <2>4. state' \in {"FINISHED", "EXPLORE"}
        /\ (state' = "EXPLORE" => idleTicks' < IdleStalled)
    BY <2>2, <2>3, SettingsAreNat
  <2>5. ended' \in {ended, "no frontiers", "stalled", "max_goals"}
    <3> DEFINE none == idleTicks' >= IdleEmpty /\ frontiers = {}
               late == idleTicks' >= IdleStalled
    <3>1. late \/ idleTicks' < IdleStalled
      BY <2>3, SettingsAreNat
    <3>2. (CASE none -> ended' = "no frontiers"
             [] late /\ ~none -> ended' = "stalled"
             [] idleTicks' < IdleStalled /\ ~none ->
                  ended' = IF capped(goalCount) THEN "max_goals" ELSE ended)
      BY <1>6, Zenon DEF tickIdle
    <3>3. idleTicks' < IdleStalled => ~late
      BY <2>3, SettingsAreNat
    <3> HIDE DEF none, late
    <3>4. CASE none
      BY <3>2, <3>4, Zenon
    <3>5. CASE ~none /\ late
      BY <3>2, <3>3, <3>5, Zenon
    <3>6. CASE ~none /\ ~late
      BY <3>1, <3>2, <3>6, Zenon
    <3> QED  BY <3>4, <3>5, <3>6
  <2> QED
    BY <1>0, <1>2, <1>3, <2>1, <2>3, <2>4, <2>5 DEF FsmInv, FsmTypeOK
<1> QED  BY <1>4, <1>5, <1>6 DEF tick

LEMMA FsmStep == TypeOK /\ FsmInv /\ [Next]_vars => FsmInv'
<1> SUFFICES ASSUME TypeOK, FsmInv, [Next]_vars PROVE FsmInv'
  OBVIOUS
<1>1. CASE Trigger
  BY <1>1, TriggerKeeps DEF Trigger
<1>2. CASE FsmTick
  BY <1>2, TickKeeps DEF FsmTick
<1>3. CASE FsmOdom
  <2>1. pos \in Places  BY DEF TypeOK
  <2> QED  BY <1>3, <2>1 DEF FsmOdom, onOdom, goalVars, FsmInv, FsmTypeOK
<1>4. CASE DeliverFrontiers
  <2>1. published \subseteq Places
    BY FlightAssumption DEF TypeOK, FogTypeOK
  <2> QED
    BY <1>4, <2>1 DEF DeliverFrontiers, onFrontiers, goalVars, FsmInv, FsmTypeOK
<1>5. CASE \/ CloudArrives \/ SensorOdom \/ Sense \/ DeliverGoal \/ EgoCommand
           \/ EgoRunsAway \/ Fly \/ UNCHANGED vars
  <2>1. UNCHANGED fsmVars
    BY <1>5 DEF CloudArrives, SensorOdom, Sense, DeliverGoal, EgoCommand, EgoRunsAway,
                Fly, vars
  <2> QED  BY <2>1 DEF fsmVars, goalVars, FsmInv, FsmTypeOK
<1> QED  BY <1>1, <1>2, <1>3, <1>4, <1>5 DEF Next

(***************************************************************************)
(* The fog, the bridge and the vehicle.                                    *)
(***************************************************************************)
LEMMA FogStep == TypeOK /\ [Next]_vars => FogTypeOK'
<1> SUFFICES ASSUME TypeOK, [Next]_vars PROVE FogTypeOK'
  OBVIOUS
<1>0. FogTypeOK /\ pos \in DOMAIN Sensed
  BY FlightAssumption DEF TypeOK
<1>1. CASE CloudArrives
  BY <1>0, <1>1 DEF CloudArrives, onCloud, FogTypeOK
<1>2. CASE SensorOdom
  BY <1>0, <1>2 DEF SensorOdom, onSensorOdom, FogTypeOK
<1>3. CASE Sense
  <2>1. fog' = reveal /\ published' = frontiersOf(fog') /\ UNCHANGED <<cloudSeen, sensedAt>>
    BY <1>3 DEF Sense, senseTick
  <2>2. reveal \in [Cells -> {"unk", "free", "occ"}]
    BY <1>0 DEF reveal, FogTypeOK
  <2>3. published' \subseteq Cells
    BY <2>1 DEF frontiersOf
  <2> QED  BY <1>0, <2>1, <2>2, <2>3 DEF FogTypeOK
<1>4. CASE \/ Trigger \/ FsmTick \/ FsmOdom \/ DeliverFrontiers \/ DeliverGoal
           \/ EgoCommand \/ EgoRunsAway \/ Fly \/ UNCHANGED vars
  <2>1. UNCHANGED fogVars
    BY <1>4 DEF Trigger, FsmTick, FsmOdom, DeliverFrontiers, DeliverGoal, EgoCommand,
                EgoRunsAway, Fly, vars
  <2> QED  BY <1>0, <2>1 DEF fogVars, FogTypeOK
<1> QED  BY <1>1, <1>2, <1>3, <1>4 DEF Next

\* No command that left the bridge leads out of the workspace.
Guarded == setpoint \in Workspace \cup {None} /\ pos \in Workspace

LEMMA FlightStep ==
  ASSUME TypeOK, Guarded, FsmInv', [Next]_vars
  PROVE  /\ Guarded'
         /\ goalXy' \in Places \cup {None} /\ goalOut' \in Places \cup {None}
         /\ setpoint' \in Places \cup {None}
         /\ pos' \in Places /\ navGoal' \in Places \cup {NoPlace}
         /\ phase' \in {"ticked", "sensed", "delivered"}
<1>0. /\ goalXy \in Places \cup {None} /\ goalOut \in Places \cup {None}
      /\ setpoint \in Workspace \cup {None} /\ pos \in Workspace
      /\ navGoal \in Places \cup {NoPlace}
      /\ phase \in {"ticked", "sensed", "delivered"}
      /\ Workspace \subseteq Places
  BY FlightAssumption DEF TypeOK, Guarded
<1>1. current' \in Places \cup {NoPlace}
  BY DEF FsmInv, FsmTypeOK
<1>2. CASE Trigger
  BY <1>0, <1>1, <1>2 DEF Trigger, bridgeVars, Guarded
<1>3. CASE FsmTick
  BY <1>0, <1>1, <1>3 DEF FsmTick, Publish, bridgeVars, Guarded
<1>4. CASE FsmOdom \/ CloudArrives \/ SensorOdom \/ UNCHANGED vars
  BY <1>0, <1>4 DEF FsmOdom, CloudArrives, SensorOdom, vars, bridgeVars, flightVars, Guarded
<1>5. CASE DeliverFrontiers \/ Sense
  BY <1>0, <1>5 DEF DeliverFrontiers, Sense, bridgeVars, Guarded
<1>6. CASE DeliverGoal
  BY <1>0, <1>6 DEF DeliverGoal, onGoal, Guarded
<1>7. ASSUME NEW p, onCmd(p), UNCHANGED flightVars
      PROVE  /\ setpoint' \in Workspace \cup {None}
             /\ UNCHANGED <<goalXy, goalOut, pos, navGoal, phase>>
  BY <1>0, <1>7 DEF onCmd, cmdIsSane, flightVars
<1>8. CASE EgoCommand \/ EgoRunsAway
  <2>1. PICK p : onCmd(p) /\ UNCHANGED flightVars
    BY <1>8 DEF EgoCommand, EgoRunsAway
  <2> QED  BY <1>0, <1>7, <2>1 DEF Guarded
<1>9. CASE Fly
  BY <1>0, <1>9 DEF Fly, bridgeVars, Guarded
<1> QED  BY <1>2, <1>3, <1>4, <1>5, <1>6, <1>8, <1>9 DEF Next

ExploreInv == TypeOK /\ FsmInv /\ Guarded

LEMMA ExploreInvHolds == Spec => []ExploreInv
<1>1. Init => ExploreInv
  <2> SUFFICES ASSUME Init PROVE ExploreInv
    OBVIOUS
  <2>1. FsmTypeOK
    <3>1. seeding \in BOOLEAN
      BY ExploreAssumption, Zenon DEF Init, FsmInit
    <3>2. sentAge \in 0 .. Cooldown /\ goalCount \in 0 .. MaxGoals
          /\ idleTicks \in 0 .. IdleStalled
      BY SettingsAreNat DEF Init, FsmInit
    <3> QED  BY <3>1, <3>2 DEF Init, FsmInit, FsmTypeOK
  <2>2. FsmInv
    BY <2>1 DEF Init, FsmInit, FsmInv
  <2>3. FogTypeOK
    BY DEF Init, FogInit, FogTypeOK
  <2> QED
    BY <2>1, <2>2, <2>3, FlightAssumption
    DEF Init, BridgeInit, ExploreInv, TypeOK, Guarded
<1>2. ExploreInv /\ [Next]_vars => ExploreInv'
  BY FsmStep, FogStep, FlightStep DEF ExploreInv, FsmInv, TypeOK
<1> QED  BY <1>1, <1>2, PTL DEF Spec

\* Every part of Path D keeps its types; the idle count never passes its limit and the
\* goals never theirs.
THEOREM ExploreTypeHolds == Spec => []TypeOK
<1>1. ExploreInv => TypeOK  BY DEF ExploreInv
<1> QED  BY <1>1, ExploreInvHolds, PTL

\* A goal that is sent without seeds keeps its distance from each goal before it, less
\* what the clamping may move it.
LEMMA SentApart ==
  ASSUME FsmInv, ~seeding, tickSend, NEW g \in sent
  PROVE  Dist(current', g) >= MinSep - ClampShift
<1>1. exploring /\ odom # NoPlace /\ sends(reachedSet, goalCount, sent)
  BY DEF tickSend, exploring
<1>2. PICK c \in choices(reachedSet) : current' = Clamp[c]
  BY <1>1 DEF sends
<1>3. c \in InBox /\ c \in Places /\ Clamp[c] \in Places
  BY <1>1, <1>2, ChoicesArePlaces
<1>4. g \in reachedSet /\ g \in Places
  BY SentIsVisited
<1>5. Dist(c, g) >= MinSep
  BY <1>2, <1>4 DEF choices
<1>6. /\ Dist(c, g) <= Dist(c, Clamp[c]) + Dist(Clamp[c], g)
      /\ Dist(c, g) \in Nat /\ Dist(c, Clamp[c]) \in Nat /\ Dist(Clamp[c], g) \in Nat
  BY <1>3, <1>4, PlacesAssumption
<1>7. Dist(c, Clamp[c]) <= ClampShift
  BY <1>3, BoxAssumption
<1> QED  BY <1>2, <1>5, <1>6, <1>7, SettingsAreNat

\* The vehicle is never sent twice to the same area, although the distance is looked at
\* before the goal is clamped to the box.
THEOREM GoalsApartHolds == Spec => GoalsApart
<1> DEFINE Sends == ~seeding /\ state = "EXPLORE" /\ goalCount' = goalCount + 1
           Apart0 == \A g \in sent : Dist(current', g) >= MinSep - ClampShift
<1>1. ExploreInv /\ [Next]_vars => [Sends => Apart0]_vars
  <2> SUFFICES ASSUME ExploreInv, [Next]_vars, Sends PROVE Apart0
    OBVIOUS
  <2>1. goalCount' # goalCount
    BY FsmCounters, SettingsAreNat DEF ExploreInv, FsmInv
  <2>2. ~onTrigger
    BY DEF onTrigger
  <2>3. tickSend
    BY <2>1, <2>2
    DEF Next, Trigger, FsmTick, FsmOdom, DeliverFrontiers, CloudArrives, SensorOdom, Sense,
        DeliverGoal, EgoCommand, EgoRunsAway, Fly, vars, fsmVars, goalVars, onOdom,
        onFrontiers, tick, tickWait, tickIdle
  <2> QED  BY <2>3, SentApart DEF ExploreInv
<1> QED  BY <1>1, ExploreInvHolds, PTL DEF Spec, GoalsApart
(***************************************************************************)
(* The end for want of frontiers.                                          *)
(*                                                                         *)
(* The list the state machine looks at may be older than the fog.  It ends *)
(* on an empty list only in an idle tick after another one; the vehicle is *)
(* at rest since the first, so that what was sensed between the two is all  *)
(* there is to see from there.                                             *)
(***************************************************************************)

\* The goals the state machine may send.
Targets == {Clamp[c] : c \in InBox}

\* A goal that counts as reached is where the vehicle comes to rest: the places are
\* further apart than arrive_tol, EGO stays at its goal, and what runs away leaves the
\* workspace or is further than cmd_bound from every goal that may be sent.
Settles ==
  /\ \A p, q \in Places : Dist(p, q) <= ArriveTol => p = q
  /\ \A p \in Workspace : Route[p][p] = p
  /\ \A p \in Runaways, g \in Targets : p \notin Workspace \/ ~(Apart(p, g) <= CmdBound)

\* Every goal, from the state machine to the planner, is one that may be sent.
TargetInv ==
  /\ current \in Targets \cup {NoPlace} /\ navGoal \in Targets \cup {NoPlace}
  /\ goalOut \in Targets \cup {None} /\ goalXy = goalOut

\* The vehicle has no goal, or one the bridge has not passed on yet.
Parked == current = NoPlace \/ navGoal # NoPlace

\* A parked vehicle rests; one on its way rests as soon as it is at its goal.
RestInv ==
  /\ Parked => goalOut \in {None, pos} /\ setpoint \in {None, pos} /\ odom \in {NoPlace, pos}
  /\ ~Parked => /\ goalOut = current
                /\ pos = current => setpoint \in {None, pos}
                /\ odom = current => pos = current
  /\ navGoal # NoPlace => navGoal = (IF current = NoPlace THEN pos ELSE current)
  /\ state # "EXPLORE" => current = NoPlace
  /\ current # NoPlace => idleTicks = 0

\* What the obstacles near p hide.
Shadow(p) == LET near == Obstacles \cap Sensed[p] IN near \cup UNION {Halo[o] : o \in near}

\* The fog holds what is to be seen from p.
Known(p) ==
  \A c \in Sensed[p] :
     fog[c] = "free" \/ (fog[c] # "unk" /\ cloudSeen /\ c \in Shadow(p))

Idle == state = "EXPLORE" /\ idleTicks > 0

\* In an idle period, what is sensed is known from then on, and no frontier of it is
\* missing from a list delivered after.
ListInv ==
  /\ published = frontiersOf(fog)
  /\ sensedAt = Unheard => published = {}
  /\ Idle /\ phase # "ticked" => sensedAt = pos /\ Known(pos)
  /\ Idle /\ phase = "delivered" => published \subseteq frontiers
LEMMA SendsPlace ==
  ASSUME FsmInv, NEW vis, NEW n, NEW before, sends(vis, n, before)
  PROVE  current' \in Places /\ current' # NoPlace /\ current' \in Targets
<1>1. odom # NoPlace  BY DEF sends, mayPick
<1>2. PICK c \in choices(vis) : current' = Clamp[c]  BY DEF sends
<1>3. current' \in Places /\ c \in InBox  BY <1>1, <1>2, ChoicesArePlaces
<1> QED  BY <1>2, <1>3, PlacesAssumption DEF Targets

\* What the state machine takes for its next goal, in a tick or on a trigger.
LEMMA NextTarget ==
  ASSUME FsmInv, TargetInv, tick \/ onTrigger
  PROVE  current' \in Targets \cup {NoPlace}
<1>1. CASE \E vis, n, before : sends(vis, n, before)
  BY <1>1, SendsPlace
<1>2. CASE current' = NoPlace \/ current' = current
  BY <1>2 DEF TargetInv
<1>3. onTrigger => (\E vis, n, before : sends(vis, n, before)) \/ current' = NoPlace
  BY Zenon DEF onTrigger
<1>4. tick => (\E vis, n, before : sends(vis, n, before))
                \/ current' = NoPlace \/ current' = current
  BY Zenon DEF tick, tickWait, tickSend, tickIdle
<1> QED  BY <1>1, <1>2, <1>3, <1>4

LEMMA TargetStep ==
  ASSUME ExploreInv, TargetInv, [Next]_vars
  PROVE  TargetInv'
<1>1. CASE Trigger \/ FsmTick
  <2>1. current' \in Targets \cup {NoPlace}
    BY <1>1, NextTarget DEF Trigger, FsmTick, ExploreInv
  <2>2. navGoal' \in {navGoal, current'} /\ UNCHANGED <<goalXy, goalOut>>
    BY <1>1 DEF Trigger, FsmTick, Publish, bridgeVars
  <2> QED  BY <2>1, <2>2 DEF TargetInv
<1>2. CASE DeliverGoal
  BY <1>2 DEF DeliverGoal, onGoal, fsmVars, goalVars, TargetInv
<1>3. CASE \/ FsmOdom \/ DeliverFrontiers \/ CloudArrives \/ SensorOdom \/ Sense
           \/ EgoCommand \/ EgoRunsAway \/ Fly \/ UNCHANGED vars
  <2>1. UNCHANGED <<current, navGoal, goalXy, goalOut>>
    BY <1>3
    DEF FsmOdom, onOdom, DeliverFrontiers, onFrontiers, CloudArrives, SensorOdom, Sense,
        EgoCommand, EgoRunsAway, onCmd, Fly, vars, fsmVars, goalVars, bridgeVars, flightVars
  <2> QED  BY <2>1 DEF TargetInv
<1> QED  BY <1>1, <1>2, <1>3 DEF Next

\* A vehicle whose goal counts as reached rests, whether or not the goal was passed on.
LEMMA ArrivedRests ==
  ASSUME Settles, ExploreInv, RestInv, exploring, arrived
  PROVE  /\ goalOut \in {None, pos} /\ setpoint \in {None, pos} /\ odom \in {NoPlace, pos}
         /\ navGoal # NoPlace => navGoal = pos
<1>1. CASE current = NoPlace
  BY <1>1 DEF RestInv, Parked
<1>2. CASE current # NoPlace
  <2>1. odom \in Places /\ current \in Places
    BY <1>2 DEF exploring, ExploreInv, FsmInv, FsmTypeOK
  <2>2. odom = current
    BY <1>2, <2>1 DEF Settles, arrived
  <2> QED  BY <1>2, <2>1, <2>2, PlacesAssumption DEF RestInv, Parked
<1> QED  BY <1>1, <1>2

LEMMA RestStep ==
  ASSUME Settles, ExploreInv, TargetInv, RestInv, [Next]_vars
  PROVE  RestInv'
<1>0. /\ pos \in Workspace /\ pos \in Places
      /\ goalOut \in Targets \cup {None} /\ goalXy = goalOut /\ goalCount \in Nat
  BY FsmCounters, SettingsAreNat
  DEF ExploreInv, TypeOK, Guarded, TargetInv, FsmInv
<1>1. CASE FsmOdom
  BY <1>1 DEF FsmOdom, onOdom, goalVars, bridgeVars, flightVars, RestInv, Parked
<1>2. CASE DeliverFrontiers \/ CloudArrives \/ SensorOdom \/ Sense \/ UNCHANGED vars
  <2>1. UNCHANGED <<current, navGoal, goalOut, goalXy, setpoint, pos, odom, state, idleTicks>>
    BY <1>2
    DEF DeliverFrontiers, onFrontiers, CloudArrives, SensorOdom, Sense, vars, fsmVars,
        goalVars, bridgeVars, flightVars
  <2> QED  BY <2>1 DEF RestInv, Parked
<1>3. CASE DeliverGoal
  BY <1>3 DEF DeliverGoal, onGoal, fsmVars, goalVars, RestInv, Parked
<1>4. CASE Fly
  BY <1>4 DEF Fly, fsmVars, goalVars, bridgeVars, RestInv, Parked
<1>5. CASE EgoCommand
  <2>1. setpoint' \in {setpoint, Route[pos][goalOut]}
    BY <1>5 DEF EgoCommand, onCmd
  <2>2. UNCHANGED <<current, navGoal, goalOut, goalXy, pos, odom, state, idleTicks>>
    BY <1>5 DEF EgoCommand, onCmd, fsmVars, goalVars, flightVars
  <2>3. goalOut = pos => Route[pos][goalOut] = pos
    BY <1>0 DEF Settles
  <2>4. goalOut # None
    BY <1>5 DEF EgoCommand
  <2> QED  BY <2>1, <2>2, <2>3, <2>4 DEF RestInv, Parked
<1>6. CASE EgoRunsAway
  <2>1. PICK p \in Runaways : onCmd(p)
    BY <1>6 DEF EgoRunsAway
  <2>2. ~cmdIsSane(p)
    BY <1>0, <1>6, <2>1 DEF EgoRunsAway, cmdIsSane, Settles
  <2>3. UNCHANGED <<current, navGoal, goalOut, goalXy, setpoint, pos, odom, state, idleTicks>>
    BY <1>6, <2>1, <2>2 DEF EgoRunsAway, onCmd, fsmVars, goalVars, flightVars
  <2> QED  BY <2>3 DEF RestInv, Parked
<1>7. CASE FsmTick
  <2>0. tick /\ Publish /\ UNCHANGED <<goalXy, goalOut, setpoint, pos>>
    BY <1>7 DEF FsmTick, bridgeVars
  <2>1. CASE tickWait
    <3>1. UNCHANGED <<current, odom, state, idleTicks, goalCount>>
      BY <2>1 DEF tickWait
    <3> QED  BY <2>0, <3>1 DEF Publish, RestInv, Parked
  <2>2. CASE tickSend
    <3>1. /\ exploring /\ arrived /\ state = "EXPLORE" /\ idleTicks' = 0
          /\ UNCHANGED <<state, odom>> /\ goalCount' = goalCount + 1
          /\ sends(reachedSet, goalCount, sent)
      BY <2>2 DEF tickSend, exploring, sends
    <3>2. current' # NoPlace
      BY <3>1, SendsPlace DEF ExploreInv
    <3>3. navGoal' = current'
      BY <1>0, <2>0, <3>1, <3>2 DEF Publish
    <3> QED  BY <2>0, <3>1, <3>2, <3>3, ArrivedRests DEF RestInv, Parked
  <2>3. CASE tickIdle
    <3>1. exploring /\ arrived /\ current' = NoPlace /\ UNCHANGED <<odom, goalCount>>
      BY <2>3 DEF tickIdle
    <3>2. navGoal' = navGoal
      BY <2>0, <3>1 DEF Publish
    <3> QED  BY <2>0, <3>1, <3>2, ArrivedRests DEF RestInv, Parked
  <2> QED  BY <2>0, <2>1, <2>2, <2>3 DEF tick
<1>8. CASE Trigger
  <2>1. /\ current = NoPlace /\ Parked
        /\ UNCHANGED <<goalXy, goalOut, setpoint, pos, odom>> /\ idleTicks' = 0
        /\ navGoal' = IF current' # NoPlace THEN current' ELSE navGoal
    BY <1>8 DEF Trigger, onTrigger, bridgeVars, RestInv, Parked
  <2>2. CASE \E vis, n, before : sends(vis, n, before) /\ state' = "EXPLORE"
    <3>1. current' # NoPlace
      BY <2>2, SendsPlace DEF ExploreInv
    <3> QED  BY <2>1, <2>2, <3>1 DEF RestInv, Parked
  <2>3. CASE current' = NoPlace
    BY <2>1, <2>3 DEF RestInv, Parked
  <2> QED
    BY <1>8, <2>2, <2>3, Zenon DEF Trigger, onTrigger
<1> QED
  BY <1>1, <1>2, <1>3, <1>4, <1>5, <1>6, <1>7, <1>8 DEF Next

-----------------------------------------------------------------------------
\* Sensing makes known what is near.
LEMMA SenseKnows ==
  ASSUME ExploreInv, Sense
  PROVE  \A c \in Sensed[sensedAt] :
            fog'[c] = "free" \/ (fog'[c] # "unk" /\ cloudSeen /\ c \in Shadow(sensedAt))
<1>1. fog' = reveal /\ sensedAt \in DOMAIN Sensed /\ Sensed[sensedAt] \subseteq Cells
  BY FogAssumption DEF Sense, senseTick, ExploreInv, TypeOK, FogTypeOK
<1> QED  BY <1>1 DEF reveal, Shadow

\* Sensing again from the same place opens no frontier: near it nothing turns free, and
\* nothing anywhere turns unknown.
LEMMA KnownStays ==
  ASSUME ExploreInv, Sense, Known(sensedAt)
  PROVE  frontiersOf(fog') \subseteq frontiersOf(fog)
<1>1. /\ fog' = reveal /\ sensedAt \in DOMAIN Sensed /\ Sensed[sensedAt] \subseteq Cells
      /\ fog \in [Cells -> {"unk", "free", "occ"}]
  BY FogAssumption DEF Sense, senseTick, ExploreInv, TypeOK, FogTypeOK
<1>2. ASSUME NEW c \in Cells, fog'[c] = "free" PROVE fog[c] = "free"
  BY <1>1, <1>2 DEF reveal, Known, Shadow
<1>3. ASSUME NEW c \in Cells, fog'[c] = "unk" PROVE fog[c] = "unk"
  BY <1>1, <1>3 DEF reveal
<1>4. Neighbours \in [Cells -> SUBSET Cells]
  BY FogAssumption
<1> QED  BY <1>2, <1>3, <1>4 DEF frontiersOf

LEMMA IdleIsNat == ExploreInv => idleTicks \in Nat
<1>1. ExploreInv => FsmTypeOK  BY DEF ExploreInv, FsmInv
<1> QED  BY <1>1, FsmCounters, SettingsAreNat

\* In an idle period the vehicle does not move.
LEMMA IdleRests ==
  ASSUME ExploreInv, RestInv, Idle, [Next]_vars
  PROVE  pos' = pos
<1>1. current = NoPlace /\ setpoint \in {None, pos}
  BY IdleIsNat DEF RestInv, Idle, Parked
<1> QED
  BY <1>1
  DEF Next, Trigger, FsmTick, FsmOdom, DeliverFrontiers, CloudArrives, SensorOdom, Sense,
      DeliverGoal, EgoCommand, EgoRunsAway, Fly, vars, flightVars

LEMMA ListStep ==
  ASSUME ExploreInv, RestInv, ListInv, [Next]_vars
  PROVE  ListInv'
<1>0. pos \in DOMAIN Sensed /\ pos # Unheard
  BY FlightAssumption, FogAssumption DEF ExploreInv, TypeOK
<1>1. CASE Sense
  <2>1. /\ sensedAt # Unheard /\ UNCHANGED <<sensedAt, cloudSeen, pos, frontiers, state, idleTicks>>
        /\ published' = frontiersOf(fog')
        /\ phase' = IF phase = "ticked" /\ sensedAt = pos THEN "sensed" ELSE phase
    BY <1>1 DEF Sense, senseTick, fsmVars
  <2>3. frontiersOf(fog)' = frontiersOf(fog')
    BY DEF frontiersOf
  <2>4. sensedAt = pos => Known(pos)'
    BY <1>1, <2>1, SenseKnows DEF Known, Shadow
  <2>5. Idle' = Idle
    BY <2>1 DEF Idle
  <2>6. Idle /\ phase' # "ticked" => sensedAt = pos
    BY <2>1 DEF ListInv
  <2>7. Idle /\ phase' = "delivered" => published' \subseteq frontiers
    BY <1>1, <2>1, <2>6, KnownStays DEF ListInv
  <2> QED  BY <2>1, <2>3, <2>4, <2>5, <2>6, <2>7 DEF ListInv
<1>2. CASE DeliverFrontiers
  <2>1. /\ frontiers' = published /\ UNCHANGED <<fogVars, state, idleTicks, pos>>
        /\ phase' = IF phase = "sensed" THEN "delivered" ELSE phase
    BY <1>2 DEF DeliverFrontiers, onFrontiers
  <2> QED  BY <2>1 DEF ListInv, Idle, fogVars, frontiersOf, Known
<1>3. CASE FsmTick
  <2>1. phase' = "ticked" /\ UNCHANGED fogVars
    BY <1>3 DEF FsmTick
  <2> QED  BY <2>1 DEF ListInv, fogVars, frontiersOf
<1>4. CASE Trigger
  <2>1. idleTicks' = 0 /\ UNCHANGED fogVars
    BY <1>4 DEF Trigger, onTrigger
  <2>2. ~Idle'
    BY <2>1 DEF Idle
  <2> QED  BY <2>1, <2>2 DEF ListInv, fogVars, frontiersOf
<1>5. CASE SensorOdom
  <2>1. sensedAt' = pos /\ UNCHANGED <<fog, cloudSeen, published, frontiers, state, idleTicks, pos, phase>>
    BY <1>5 DEF SensorOdom, onSensorOdom, fsmVars, flightVars
  <2> QED  BY <1>0, <2>1 DEF ListInv, Idle, frontiersOf, Known
<1>6. CASE CloudArrives
  <2>1. cloudSeen' = TRUE /\ UNCHANGED <<fog, sensedAt, published, frontiers, state, idleTicks, pos, phase>>
    BY <1>6 DEF CloudArrives, onCloud, fsmVars, flightVars
  <2> QED  BY <2>1 DEF ListInv, Idle, frontiersOf, Known
<1>7. CASE FsmOdom \/ DeliverGoal \/ EgoCommand \/ EgoRunsAway \/ Fly \/ UNCHANGED vars
  <2>1. UNCHANGED <<fogVars, frontiers, state, idleTicks, phase>>
    BY <1>7
    DEF FsmOdom, onOdom, DeliverGoal, EgoCommand, EgoRunsAway, Fly, vars, fsmVars,
        flightVars
  <2>2. Idle => pos' = pos
    BY IdleRests
  <2> QED  BY <2>1, <2>2 DEF ListInv, Idle, fogVars, frontiersOf, Known
<1> QED
  BY <1>1, <1>2, <1>3, <1>4, <1>5, <1>6, <1>7 DEF Next

EndsForWant == ended' = "no frontiers" /\ state = "EXPLORE" /\ state' = "FINISHED"

\* Only an idle tick that finds the list empty ends the exploration for that reason.
LEMMA EndsOnEmptyList ==
  ASSUME ExploreInv, [Next]_vars, EndsForWant
  PROVE  /\ frontiers = {} /\ idleTicks + 1 >= IdleEmpty
         /\ phase = "delivered" \/ sensedAt = Unheard
<1>1. tickIdle /\ FsmTick
  BY DEF Next, Trigger, onTrigger, FsmTick, FsmOdom, DeliverFrontiers, CloudArrives,
         SensorOdom, Sense, DeliverGoal, EgoCommand, EgoRunsAway, Fly, vars, fsmVars,
         onOdom, onFrontiers, tick, tickWait, tickSend, EndsForWant
<1> DEFINE none == idleTicks' >= IdleEmpty /\ frontiers = {}
           late == idleTicks' >= IdleStalled
<1>2. idleTicks' = idleTicks + 1 /\ state' = IF capped(goalCount) \/ none \/ late
                                              THEN "FINISHED" ELSE "EXPLORE"
  BY <1>1 DEF tickIdle
<1>3. idleTicks' \in Nat /\ (~late <=> idleTicks' < IdleStalled)
  <2>1. idleTicks \in Nat  BY IdleIsNat, Zenon
  <2> QED  BY <1>2, <2>1, SettingsAreNat
<1>4. (CASE none -> ended' = "no frontiers"
         [] late /\ ~none -> ended' = "stalled"
         [] idleTicks' < IdleStalled /\ ~none ->
              ended' = IF capped(goalCount) THEN "max_goals" ELSE ended)
  BY <1>1, Zenon DEF tickIdle
<1>5. none
  <2> HIDE DEF none, late
  <2>1. ASSUME ~none, late PROVE FALSE
    <3>1. ended' = "stalled"  BY <1>3, <1>4, <2>1, Zenon
    <3> QED  BY <3>1 DEF EndsForWant
  <2>2. ASSUME ~none, ~late PROVE FALSE
    <3>1. ended' = IF capped(goalCount) THEN "max_goals" ELSE ended
      BY <1>3, <1>4, <2>2, Zenon
    <3>2. capped(goalCount)
      BY <1>2, <2>2 DEF EndsForWant
    <3> QED  BY <3>1, <3>2 DEF EndsForWant
  <2> QED  BY <2>1, <2>2
<1> QED  BY <1>1, <1>2, <1>5 DEF FsmTick

LEMMA RestInvHolds == ASSUME Settles PROVE Spec => [](TargetInv /\ RestInv)
<1>1. Init => TargetInv /\ RestInv
  BY DEF Init, FsmInit, BridgeInit, TargetInv, RestInv, Parked
<1>2. ExploreInv /\ TargetInv /\ RestInv /\ [Next]_vars => TargetInv' /\ RestInv'
  BY TargetStep, RestStep
<1> QED  BY <1>1, <1>2, ExploreInvHolds, PTL DEF Spec

\* The setpoint the controller still has, if it leads anywhere, was accepted for the
\* goal the planner has: a goal is passed on only to a vehicle at rest.
NearInv ==
  \/ setpoint \in {None, pos}
  \/ setpoint \in Workspace /\ Apart(setpoint, goalOut) <= CmdBound

LEMMA NearStep ==
  ASSUME TargetInv, RestInv, NearInv, [Next]_vars
  PROVE  NearInv'
<1>1. CASE DeliverGoal
  <2>1. setpoint \in {None, pos} /\ UNCHANGED <<setpoint, pos>>
    BY <1>1 DEF DeliverGoal, onGoal, RestInv, Parked
  <2> QED  BY <2>1 DEF NearInv
<1>2. CASE EgoCommand \/ EgoRunsAway
  <2>1. PICK p : onCmd(p) /\ UNCHANGED flightVars
    BY <1>2 DEF EgoCommand, EgoRunsAway
  <2>2. UNCHANGED <<pos, goalOut>> /\ goalOut # None /\ goalXy = goalOut
    BY <1>2, <2>1 DEF EgoCommand, EgoRunsAway, onCmd, flightVars, TargetInv
  <2>3. CASE cmdIsSane(p)
    BY <2>1, <2>2, <2>3 DEF onCmd, cmdIsSane, NearInv
  <2>4. CASE ~cmdIsSane(p)
    BY <2>1, <2>2, <2>4 DEF onCmd, NearInv
  <2> QED  BY <2>3, <2>4
<1>3. CASE Fly
  BY <1>3 DEF Fly, bridgeVars, NearInv
<1>4. CASE \/ Trigger \/ FsmTick \/ FsmOdom \/ DeliverFrontiers \/ CloudArrives
           \/ SensorOdom \/ Sense \/ UNCHANGED vars
  <2>1. UNCHANGED <<setpoint, pos, goalOut>>
    BY <1>4
    DEF Trigger, FsmTick, FsmOdom, DeliverFrontiers, CloudArrives, SensorOdom, Sense,
        vars, bridgeVars, flightVars
  <2> QED  BY <2>1 DEF NearInv
<1> QED  BY <1>1, <1>2, <1>3, <1>4 DEF Next

\* Whatever the planner streams, and however its goals follow each other, the vehicle
\* moves only inside the workspace and within cmd_bound of the goal the planner has.
THEOREM MovesStayNearGoalHolds ==
  ASSUME Settles
  PROVE  Spec => MovesStayNearGoal
<1> DEFINE Moves == pos' # pos
           Stays == pos' \in Workspace /\ Apart(pos', goalOut) <= CmdBound
<1>1. Init => NearInv
  BY DEF Init, BridgeInit, NearInv
<1>2. TargetInv /\ RestInv /\ NearInv /\ [Next]_vars => NearInv'
  BY NearStep
<1>3. NearInv /\ [Next]_vars => [Moves => Stays]_vars
  <2> SUFFICES ASSUME NearInv, [Next]_vars, Moves PROVE Stays
    OBVIOUS
  <2>1. Fly
    BY DEF Next, Trigger, FsmTick, FsmOdom, DeliverFrontiers, CloudArrives, SensorOdom,
           Sense, DeliverGoal, EgoCommand, EgoRunsAway, vars, flightVars
  <2> QED  BY <2>1 DEF Fly, NearInv
<1> QED  BY <1>1, <1>2, <1>3, RestInvHolds, PTL DEF Spec, MovesStayNearGoal

\* An exploration that ends for want of frontiers has left none, wherever the obstacles
\* are and whatever they hide: the last list is no older than the vehicle's rest.
THEOREM FinishMeansExploredHolds ==
  ASSUME Settles, IdleEmpty > 1
  PROVE  Spec => FinishMeansExplored
<1> DEFINE Explored == frontiersOf(fog) = {}
<1>1. Init => ListInv
  BY FlightAssumption
  DEF Init, FsmInit, FogInit, ListInv, Idle, frontiersOf
<1>2. ExploreInv /\ RestInv /\ ListInv /\ [Next]_vars => ListInv'
  BY ListStep
<1>3. ExploreInv /\ ListInv /\ [Next]_vars => [EndsForWant => Explored]_vars
  <2> SUFFICES ASSUME ExploreInv, ListInv, [Next]_vars, EndsForWant PROVE Explored
    OBVIOUS
  <2>1. /\ frontiers = {} /\ idleTicks + 1 >= IdleEmpty
        /\ phase = "delivered" \/ sensedAt = Unheard
    BY EndsOnEmptyList
  <2>2. Idle
    <3>1. idleTicks \in Nat  BY IdleIsNat, Zenon
    <3>2. state = "EXPLORE"  BY DEF EndsForWant
    <3> QED  BY <2>1, <3>1, <3>2, SettingsAreNat DEF Idle
  <2> QED  BY <2>1, <2>2 DEF ListInv
<1> QED  BY <1>1, <1>2, <1>3, ExploreInvHolds, RestInvHolds, PTL
         DEF Spec, FinishMeansExplored, EndsForWant
===============================================================================
