# Anona: a TLA+ model of the quadrotor autonomy stack

Anona is a set of ROS 2 nodes. A planner turns a goal and a map into local
goals and trajectory commands; a controller turns those and odometry into rotor
speeds; a simulated plant integrates the vehicle and publishes odometry. Around
them stand map generators, exploration, bridges to third-party planners, a
learned planner with a safety supervisor, and a web dashboard that starts and
stops everything. These modules model the parts where timing, message order,
threads and failures decide whether the vehicle is safe and gets anywhere. All
paths below are relative to `src/src/`.

## The system

| component | state it keeps | operations | talks to | what is hard about it |
|---|---|---|---|---|
| controller node (`drone_controller/src/controller_node.cpp`) | last odometry and its arrival stamp, trajectory command, local goal, operator's goal, `planner_guided_`, signature check | subscriptions, 100 Hz control timer, two watchdogs | planner, operator, plant | every input has a time-out of its own; which of three setpoints wins; what a dead input leaves behind |
| cascade PID (`cascade_pid.cpp`) | integrators, `last_rpm_` | `compute`, `reset` | called by the controller | slew limit across a watchdog cut |
| plant (`drone_dynamics/src/dynamics_node.cpp`) | motor command and stamp, rigid-body state | motor subscription, step timer | controller | the only watchdog left when the controller dies |
| planner (`drone_planner/src/planner_node.cpp`) | odometry, goal, installed map and grid, FSM state, path, `need_replan_`, stamps | subscriptions, planning timer, map ingestion in a second thread | map, operator, peers, controller | the lock is released around `plan()`; flags set meanwhile are overwritten; four thresholds that must fit |
| occupancy grid (`occupancy_grid.cpp`) | raw and inflated layer | bulk build, sealing, local clouds with ray clearing | planner, search | two layers kept consistent by local repairs |
| ray caster (`raycast.cpp`) | a ray being walked | `setInput`, `step` | occupancy grid | rounding decides ties and the stop test |
| graph search (`grid_astar.hpp`) | nodes and queue during a call | `search` | planner, occupancy grid | end points moved twice; a heuristic in cells beside a cost in metres, so that cells are reopened and the queue holds stale items |
| smoothing (`dyn_astar.cpp`, `path_shortcut.hpp`, `uniform_bspline.cpp`, `bspline_optimizer.hpp`) | none between calls | `optimize` | planner | numerics |
| map node (`drone_map`) | the generated cloud | generate, publish latched | planner | none: seeded and sequential |
| exploration (`drone_exploration`) | fog grid; FSM state, current goal, visited goals, counters | sensing and FSM timers, trigger, frontiers | bridge, map, vehicle | arrival conditions that may never hold; copies of the frontiers; counters that end the mission |
| EGO bridge (`ego_cmd_bridge.py`) | goal, last command's stamp | goals in, commands out, status | EGO planner, controller | a planner that runs away, old commands after a new goal |
| other bridges (`mighty_cmd_bridge.py`, `map_adapter_node.py`, `local_sense_cloud.py`) | little | forwarders | vendored planners | |
| waypoint mission (`waypoint_publisher.py`) | index, cycle, stamps, re-publish budget | poll timer, odometry | both planners of Path H | lost goals, arrival against time-out |
| learned planner (`sac_planner_node.py`) | goal, hold latch | goal, tick | supervisor | the latch and a goal that changes |
| safety supervisor (`safety_supervisor_node.py`) | latest inputs, `_fb_hold` | goal, tick | learned planner, controller | two planners that may have different goals; chatter between them |
| dashboard (`dashboard_server.py`) | five managers, each a lock and a process | start, stop, status, one thread per request | processes | lock order, check-then-act, orphaned processes |
| formation, evaluation, scripts, launch files, visualization | little or none | | | static or observing |

What makes each part correct, in one line each: the controller never runs
rotors on an old pose, keeps planner setpoints in the flight band and leaves a
planner in charge; the plant stops by itself; the planner never forgets a goal,
never follows a condemned path, leads nobody anywhere after an emergency stop
until a plan succeeds, and comes to rest; the grid never under-reports
an obstacle's margin; a ray clears exactly the voxels between sensor and hit; a
path lies outside every margin, and a search gives up only where there is no
way; an exploration never goes back to where it was, ends, and ends for the
right reason; the bridge keeps the vehicle in the workspace and near
the planner's goal; a mission gives no waypoint up for a lost goal, and ends; the
dashboard loses no process, runs one training at a time and answers, but for the
one circle of locks described below.

`PROJECT.json` lists the same components with their status, and under `hazards`
the places of the code where something hard to test can go wrong, with the
properties that watch it or the reason why none does.

## Modules

| module | models | checked by |
|---|---|---|
| `Controller` | the controller node, one action per callback | through `FlightLoop` |
| `Plant` | the motor subscription and timer of the plant | through `FlightLoop` |
| `FlightLoop` | both nodes, two lossy keep-last queues, the clock, crashes | `flight_*` |
| `DeadManSwitch` | what the loop promises about power, in three actions | `DeadMan` of `flight_faults` |
| `ControllerProofs`, `FlightLoopProofs` | theorems about them | |
| `PlannerFsm`, `MCPlanner`, `PlannerProofs` | the planner node and its map thread | `planner_*` |
| `Voxels`, `RayCaster`, `MCRay`, `RayProofs` | the voxel traversal | `raycast` |
| `OccupancyGrid` | the two layers of the grid | through `GridSearch` |
| `GridSearch`, `MCGrid`, `SearchProofs` | A* on the grid that maps and clouds have built; the theorems are about both | `grid` |
| `ExplorationFsm` | the exploration state machine | through `Exploration` |
| `FogSensing` | the fog grid and its frontiers | through `Exploration` |
| `EgoCmdBridge` | the bridge to the EGO planner | through `Exploration` |
| `Exploration`, `MCExplore`, `ExplorationProofs` | the three of them, EGO and the vehicle: Path D | `explore`, `explore_border` |
| `WaypointPublisher` | the mission node | through `Mission` |
| `SafetySupervisor` | the learned planner and its supervisor | through `Mission` |
| `Mission`, `MCMission`, `MissionProofs` | the three of them, their subscriptions and the vehicle: Path H | `mission` |
| `Dashboard`, `MCDashboard`, `DashboardProofs` | the five managers, threads and processes | `dashboard`, `dashboard_monitor` |

### Controller, Plant, FlightLoop

The controller runs on a single-threaded executor, so each callback is one
action: `onOdom`, `onBadOdom` (a pose that is not finite), `onLocalGoal`,
`onTrajectoryCmd`, `onTrajectoryClear`, `onGoal`, `onSignature`, and the control
timer as `onControlCut` or `onControlTrack`. `activeGoal` is translated branch by
branch. A stamp such as `last_odom_time_` is kept as an age in ticks, capped one
above the time-out it is compared with: no comparison of the code can tell larger
ages apart. Of a setpoint only validity and height are kept, of a motor command
whether the rotors run and which setpoint they track. `poseAge` is a history
variable: the age of the measurement behind the state, from sampling and not from
arrival, which is what the code cannot see.

`FlightLoop` adds the network and the clock. Both timers run at 100 Hz; in each
tick each fires once, at any time; a message is taken, or lost, before it is older
than `MaxDelay`; a full queue drops its oldest message. `Faults` switches on lost
odometry, lost motor commands, states that are not published because they are not
finite, and crashes. No launch file respawns a node, so a crash is final.

`DeadManSwitch` is the abstract promise: a measurement arrives, the rotors
switch, time passes, and rotors run only while the newest measurement is within
`Grip`. The refinement maps `basis` to `poseAge` and `power` to what the plant
integrates.

### PlannerFsm

The node has two threads under one mutex. The control thread's callbacks and the map
thread's `ingestMap` are cut into actions at the places where the lock is taken or
released: `ingestMapFit` reads pose and goal, `ingestMapInstall` installs (or skips) the
grid built in between, `onTimer...` runs to where it releases the lock, `plan` is the
locked planning, `onTimerResume` what follows when the lock is taken again. The map thread
may run in each gap, and `Tick` passes at any point.

Space is a line of points two units apart, so that odd thresholds never tie with
a distance. A path is the point where it ends; the vehicle flies to the local
goal one point at a time, or not. `snapped` is `findFreeNearby` ring by ring, `endpoints` the
start and goal repair of `GridAStar::search`. Whether a route exists, an
obstacle comes close, or a peer threatens the path is left open where the switches
allow it. `plannedFor` and `condemned` are history variables.

### RayCaster, OccupancyGrid

`RayCaster` keeps `t_max_` exactly, as the number of crossings of each axis; two
axes crossed at the same distance may be taken in either order, which covers
every rounding of the doubles. `OccupancyGrid` is parameterised by its geometry
(what a cell inflates to, what a ray passes), and integrates a cloud hit by hit.
`MCGrid` instantiates it with the rays `RayCaster` walks.

### GridSearch

`GridSearch` extends the grid with `GridAStar::search`. `plan()` holds the node's
lock, so no cloud lands while a search runs: `SearchNext` takes a step of the
grid only between searches. `beginSearch` moves both ends (`freeNearby` is
`findFreeNearby` cube by cube, `shifted` the shift away from a peer, `freeNearby`
again); `popStale`, `popGoal` and `popExpand` are one turn of the loop each,
after the three ways it takes the item from the top of the queue; `giveUp` is the
loop's end. A node keeps cost, `f` and parent as in the code. `StepCost` and `Heu`
are any natural numbers; `MCGrid` gives them the mismatch of the code, a
heuristic in cells and a cost in metres.

### Exploration

Three modules, one per file, each with the callbacks of a node as actions:
`ExplorationFsm` (`_on_trigger`, `_tick` as `tickWait`, `tickSend` and `tickIdle`,
`_pick_and_send` as `sends`, `fails` and `capped`), `FogSensing` (`reveal` and
`frontier_clusters` on columns of voxels) and `EgoCmdBridge`. `Exploration` adds
the topics between them, EGO, which is one step of a route or a runaway, and
the vehicle. Its `phase` states the one timing assumption: sensing ticks every
0.25 s, the state machine every 1.5 s, and a cell takes a second, so a tick has
frontiers sensed since the tick before, from the cell where the vehicle was. `sent` is a history variable.

### Mission

`WaypointPublisher` has both modes of `_tick`: `holdTick`, and `arrivalLeave` or
`arrivalStay`; `SafetySupervisor` has the goals and ticks of the learned planner
and the supervisor, with what the policy and VFH find left open (`Finding`).
`Mission` gives each of the two planners a subscription of its own, which may
lose goals, and the vehicle. Time is in polls: in each poll everyone in `due`
runs once and every goal is taken or lost. `calm` chooses at the start whether
losses are bounded and the vehicle keeps flying; in a mission that is not calm
anything may be lost and the vehicle may be stuck. `timeouts` is a history
variable. The supervisor's hold (`_fb_hold`) is kept with each way it is set, run
down and left alone (`takesOver`).

### Dashboard

A request is a program: the sequence of operations its handler still has to do,
in `todo`. An operation is a critical section of the code or what lies between
two of them, so that threads interleave exactly where the locks let them. The
five managers are instances of the same operations on their own `lock` and
`proc`; `program` names the operations of each request of `do_POST`. The start of a
training asks the other training's manager `is_running()`, which takes that
manager's lock inside the caller's own `with`: `look` takes the second lock, and
`refuseIf` gives it back; a start that refuses then leaves its own `with`. Handles of
processes are reused, which bounds the state; `Accept` refuses a suite for which
there is no handle left, as two starts at once leave processes to nobody and
these may pile up.

## Runs

| run | question | bounds |
|---|---|---|
| `flight_faults` | do rotors ever run on a pose older than `Grip` (`TypeOK`, `FailSafe`, `PoseInv`); does the loop implement the switch (`DeadMan`); does flight resume after losses, does a dead or refusing controller leave the rotors stopped (`RecoversFromLoss`, `DeadControllerStops`, `MismatchGrounds`)? | time-outs 3 and 5, delay 2, queues of 2, every fault |
| `flight_nominal` | are planner setpoints in the band (`FlightBand`), does the planner stay in charge (`PlannerAuthority`), does jitter alone ever trip a watchdog (`NoFalseCut`), does the vehicle take off and stay up (`NominalFlight`)? | time-outs 2 and 3, delay 1, heights below and above a band, every planner message and operator's goal, no fault |
| `planner_failures` | with every switch on, peers, and plans failing at will: `EmergencyDropsPath`, `EmergencyHolds`, `GoalNotAbandoned` | 4 points, 2 goals, one of them blocked |
| `planner_arrives` | with maps landing in every gap of the lock: is the last goal reached, or the nearest achievable point (`Arrives`)? | 5 points, 3 goals, two of them in an obstacle: the end reached for one is displaced, for the other between the two thresholds |
| `raycast` | every ray, every rounding: `InBox`, `HugsLine`, `StopsAtEnd` | all pairs of voxels of 5 x 5 x 2 |
| `grid` | any sequence of maps and clouds: `HaloKept`, and `RayFrees` for rays that cross no obstacle; every search on every such grid: `WayBackIsSafe`, `FailsRightly` | 7 x 4 cells, clouds of up to two hits, three searches: one around the obstacles, one from outside the grid, one that ends at a peer |
| `explore` | Path D: `TypeOK`, `MovesStayNearGoal`, `GoalsApart`, `FinishMeansExplored`, `EndsWithoutSeeds` | a box of 5 x 2 columns with an obstacle, 4 goals, seeds on and off, two runaway positions |
| `mission` | Path H: `MissionTypeOK`, `NoWaypointGivenUp`, `PlannersAgree`, `MissionEnds` | 2 waypoints flown twice on 3 positions, bursts of 3 of which each subscription may lose 2, time-out of 12 polls, hold of 2 ticks |
| `dashboard` | `OnlyTrainingsBlock`, `NoOrphan`, `OneTraining`, `OnlyEmbraceHangs` | 2 clients, one that starts and stops the simulation and the Path G training, one that restarts it, starts the acceptance suite and starts and stops the Path H training; 2 handles per manager, no training monitor, no status polls |
| `planner_lost_map` | fails: `Arrives` when the box of the first map ends before the goal | the map may be ingested before the goal arrives |
| `explore_border` | fails: `ExplorationEnds` with seeds | as `explore` |
| `dashboard_monitor` | fails: `TrainCardAnswers` with the training monitor | the requests of Path H's train card and a status poll |

The bounds keep the order of the real thresholds and reach every case: a
time-out of `k` ticks needs ages up to `k + 1`; a queue of two overflows, because
a lagging receiver lets three messages pile up within the delay; goals on both
sides of every threshold; a blocked goal; a box that is too short. The default
parameters keep the proportions: a watchdog time-out is longer than the delay
(with `OdomTimeout` at most `MaxDelay`, `NoFalseCut` fails), `replan_dist` is
longer than `goal_tolerance`, and a path counts as displaced only beyond
`goal_tolerance`.

In the grid, 7 x 4 cells are enough for the mismatch of heuristic and cost to make
a search reopen a cell and leave a stale item in the queue, for obstacles to close
the way, and for a search to use up its 24 iterations; all of this happens.
In `explore` the box is wide enough for a frontier to be clamped away from where
its distance was tested (by a whole column, much more than the 0.3 m of the
code: the bound of `GoalsApart` moves with it) and for the vehicle to move
between sensing and ticking. Each half of the bridge's test decides for one of the
runaway positions: one lies outside the workspace but within `cmd_bound` of some
goals, the other inside the workspace but further than `cmd_bound` from every goal. In `mission` the time-out of 12 polls is what two
lost goals of a burst and the flight cost at worst: with 10, `NoWaypointGivenUp`
fails, and 11 is the bound that `NoWaypointGivenUpHolds` asks for; the defaults
(90 s against bursts of six at 0.5 s) leave far more room.

Two clients are the fewest with which locks and check-then-act can go wrong, and
their requests are those that look at each other's managers. Not every pair of
requests is run: the benchmark's differ from those of the acceptance suite only
in the names of the managers, and status polls appear in `dashboard_monitor`
only. `DashboardProofs` has no such bounds.

`MaxIters`, `Handles`, `Requests`, `PoseCap` and the time-outs at which ages are
capped bound the state. Only `dashboard` and `dashboard_monitor` switch off the
deadlock check: there the system really stops.

### What the three failing runs show

- `planner_lost_map`: a map installed between the planning and the re-locking has its
  request overwritten by `need_replan_ = false`. If the plan was made on a map
  without room for the goal, the vehicle parks although the new map reaches it.
- `explore_border`: when no frontier is worth the flight, the state machine falls
  back to seeds ahead of the vehicle, clamped to the box and not tested for
  distance. Near the border a seed is closer than `min_travel_m`: the vehicle
  arrives without having travelled that far, the tick returns every time, and no
  counter moves. `EndsWithoutSeeds` shows that seeds are the only reason.
- `dashboard_monitor`: `SacTrainManager.start` opens the monitor and writes a log
  line with its lock held; `_append_log` takes the same lock, which is not
  reentrant. The request and every later status poll hang.

Some more disagreements of code and comments were met while modelling and are
kept as hazards:

- `activeGoal` returns a local goal however old it is: after the time-out the next
  branch returns the same goal, because `planner_guided_` is set with every local
  goal and never reset. `PLANNERS.md` promises a stale-goal time-out.
- The comment at `planner_node.cpp:671-673` says that replanning on a gap that
  never closes "would thrash" and that the vehicle parks instead. The end of a path
  counts as "not at the goal" from `goal_tolerance` (0.35 m) on, but as displaced
  only from two cells (0.5 m) on, so with the defaults a path that had to end between the
  two is planned again for ever. The vehicle rests there all the same, which
  `planner_arrives` shows.
- The comment at `safety_supervisor_node.py:61` says "Keep VFH engaged for N ticks
  after a takeover". The hold is consulted and run down only while the clearance is
  within `blend_clear_m` (187-189): one clear tick lets go at once, and what is left of
  the hold (25 ticks in `sac_avoidance.launch.py`) takes over again in a later
  band without a new reason. `takesOver` has it; no property states the comment.
- `last_plan_time_` moves only when planning succeeds, so retries in FAIL are not
  throttled as two comments say.
- A mismatched plant may be armed for a few periods before the latched signature
  is handled; its end is checked, as `MismatchGrounds`.
- Goals streamed in steps too small to ask for a plan, past an obstacle, end at a
  free goal that is never planned for, because `goal_displaced_` still speaks of
  an older goal. `Arrives` is therefore checked with goals further apart than
  `MoveMin`.
- The starts of the two trainings take each other's lock in opposite orders:
  `OnlyEmbraceHangs` says that nothing else hangs the requests of `dashboard`, and
  `OnlyTrainingsBlock` that waiting for any lock but those of the trainings is
  waiting for a request that runs, or that waits for one that runs.

## Fairness

`FlightLoop`: the clock, both timers and the deliveries are weakly fair, because
executors keep spinning and the middleware keeps delivering; faults, planners and operators
owe nothing. `ReceiveOdom` and `LoseOdom` compete for the same message, so the
first is never owed while losses go on; `RecoversFromLoss` excludes endless losses.
`PlannerFsm`: the timers and threads are weakly fair. The vehicle moving towards its local goal is
strongly fair: odometry keeps coming, and the enabling condition is broken again and
again while the control thread is busy planning. Map callbacks are weakly fair because
clouds are latched and republished. Goals, local clouds, peers and emergencies
owe nothing.

`Exploration`: every node is spun, the topics are reliable and the cloud is
latched; EGO, which sends commands at 100 Hz, comes back to its route however
often it runs away. Triggers owe nothing. `Mission`: every timer fires once a
poll, and every message is taken or lost; which of the two, nobody owes.
`Dashboard`: a thread that can go on again and again does (strong fairness): the
locks are held for microseconds and requests are seconds apart, so a waiting thread
finds its lock free. Children owe no end.

## Proofs

All theorems hold for every value of the constants that satisfies the named
assumptions of the modules.

- `ControllerProofs`: `CtrlTypeCorrect`; `FlightBandHolds`, from the invariant
  that both stored setpoints, when valid, are in the band; `PlannerAuthorityHolds`, from the invariant
  that a guiding planner has cleared the operator's goal.
- `FlightLoopProofs`: `TypeCorrect`; `LoopRefinesController`, so that the node's
  theorems hold in the loop (`LoopFlightBand`); `PoseInvHolds`; from it
  `FailSafeHolds` and `LoopImplementsSwitch`. `FailSafe` is not inductive: it says
  nothing of what is still in the queues. `PoseInv` bounds the age of the pose
  behind the state, behind each message on its way, behind the held command and behind the
  rotors, each bound larger by what the next stage may add; `Grip` is their end.
  `NoFalseCutHolds`, under `Timely` (both time-outs and both queues are longer than
  the delay): with no fault, every tick adds one message, so a message's place in its
  queue is its age, and what was taken last is no older than what is still waiting
  (`StepInv`).
- `PlannerProofs`: `PlannerTypeCorrect`; `EmergencyDropsPathHolds`, from
  an invariant that ties the path and its history together at each position of the
  control thread; and `EmergencyHoldsHolds`, inductive once the path is known to
  be dropped: every branch of the timer then publishes the position it starts
  from, and flying there brings the vehicle only nearer to it.
- `RayProofs`: `InBoxHolds`, `StopsAtEndHolds` and `HugsLineHolds`. The invariant keeps the cell equal to the start plus
  the signed crossings; an axis that is chosen next has crossings left unless the
  ray is at its end, by comparing the fractions. `HugsLine` is not inductive: an
  axis steps because its crossing comes first, and `LineInv` keeps what that says
  of every pair of axes, multiplied out so that no division is left.
- `SearchProofs`: of the grid, `HaloKeptHolds` and `RayFreesHolds`. The invariant adds that layers stay
  inside the grid; the key lemma is that a clearing ray restores the ball of each raw
  cell it comes near, which needs only that a cell's cube contains every cell it inflates.
  Of the search, `SearchUsesGrid`, so that the grid's theorems carry over
  (`SearchKeepsHalo`, `SearchRayFrees`). `SearchInv` types the search and says that
  the parent of each node is a node next to it whose cost is lower by a step; with
  the halo this gives `WayBackIsSafeHolds`. `FrontInv` says that each node is
  either closed under steps or has an item in the queue whose `f` is its own,
  which is what a stale item must not break: with the queue empty everything
  reachable is discovered (`FailsRightlyHolds`). Nothing is assumed of the
  heuristic.
- `MissionProofs`: `MissionTypeHolds`; `PlannersAgreeHolds`, from `BurstInv`: the goals of a subscription in flight end
  with the current waypoint, and those sent are taken, lost or in flight, so that
  with fewer losses than the burst has goals one was taken. `NoWaypointGivenUpHolds`
  bounds the flight, whose route the code leaves to a planner: `Field` is all it assumes of
  one, a distance such that heading for a place brings the vehicle as near to a
  goal as the place is. `WayInv` then ties the age of a goal to the distance left:
  once both planners have the goal, the learned planner, the supervisor and the
  vehicle come a step nearer one poll after the other, three polls a step, in
  whatever order they run within a poll; what the late planner did before costs
  nothing but the distance, which `Diameter` bounds. `InTime` is that sum; the
  constants of `mission` satisfy both (12 polls against 4 + 1 + 3 * 2), and one poll less
  than the sum is not enough.
- `ExplorationProofs`: `ExploreTypeHolds`; `GoalsApartHolds`, from `FsmInv`: the goals sent
  are visited, or current, and the current one is visited before the next is chosen; the rest is the
  triangle inequality. `MovesStayNearGoalHolds`, under `Settles`: a goal that
  counts as reached is where the vehicle comes to rest (places are further apart than
  `arrive_tol`, EGO stays at its goal, the bridge drops what runs away from a goal
  that can be sent). The bridge keeps its setpoint when the goal changes. So the setpoint is either where
  the vehicle is or near the newest goal (`NearInv`), because goals change only while
  the vehicle rests at its setpoint (`RestInv`); `TargetInv` keeps every goal among those
  that can be sent. `FinishMeansExploredHolds`, under
  `Settles` and `IdleEmpty > 1`, so that the exploration does not end in its first idle
  tick; the run's constants satisfy both, and the code's five idle ticks are 7.5 s. `RestInv` says that a vehicle without a goal, or whose goal
  is not delivered, rests; `ListInv` that in an idle period whatever was sensed is
  known from then on and sensing it again opens no frontier, although a first look
  frees cells in the halo of an obstacle that is out of range.
- `DashboardProofs`: `OnlyTrainingsBlockHolds`, `NoOrphanHolds` and `OneTrainingHolds`, for any
  number of threads, any requests of each, and with or without the monitor. A thread is the
  sequence of operations it has still to do, so the invariant `ThreadInv` says that
  this sequence can be annotated like the lines of a program: next to each
  operation, the lock held and the manager seen idle before it, where each annotation
  follows from the one before and the first agrees with the locks and processes as
  they are. A step of a thread drops the first annotation; a step of another one
  touches only processes whose lock it holds. `StartInv` adds that a training about to be
  spawned is the only one, which is what the check of the other training under its
  own lock is for.

Before they were proved, the strengthened invariants were checked by TLC on the
constants of the runs.

Model-checked only: all liveness (`RecoversFromLoss`, `DeadControllerStops`,
`MismatchGrounds`, `NominalFlight`, `GoalNotAbandoned`, `Arrives`,
`EndsWithoutSeeds`, `MissionEnds`, `OnlyEmbraceHangs`), since fairness and ENABLED
are out of the prover's reach. Every safety property of a passing run is a theorem,
those that need more than the modules' assumptions under a named hypothesis
that the run's constants satisfy.

## Not modelled

Control laws, rigid-body dynamics, B-splines and optimization (real numbers), map
generation (seeded and sequential), neural policies and training, launch files and
catalogues (static), evaluation and plots (they observe). The vendored planners
(EGO, Fast-Planner, MIGHTY, GCOPTER with their headers) are nine tenths of the
lines of the repository; they are third-party code, mostly numerical
optimization, that the project's own code reaches through the bridges only, and
EGO appears in `Exploration` as what comes out of it. What is modelled is
therefore a small share of all lines, and most of the lines that keep state or
run concurrently in the project's own nodes.

Of the modelled nodes: diagnostics, visualization topics and log messages; the
random disturbance of the plant; `stampPeerBodies` and the queries of the distance
to obstacles; the controller's IMU subscription (`onImu`), a filter blended into
the body rates that decides nothing else; the planner's peer odometry, which
`Peers` stands for; the planar mode of the search; `DynAStar`; the score of
frontiers; the bridge's automatic goal and its synthesised status; the clouds of
the learned planner and the supervisor; `send_goal`; the dashboard's answers,
configuration, clean-up sweeps, ROS side and shutdown.

## Plan

1. The flight loop, the planner node, ray caster and grid, with proofs. Done.
2. The dashboard, exploration with its bridge, the mission with its supervisor,
   graph search. Done; proofs for the last three. Done.
3. Proofs of the dashboard, of `NoFalseCut`, `HugsLine`, `NoWaypointGivenUp` and
   `FinishMeansExplored`. Done. Left: the path of `PlannerFsm` taken from `GridSearch`.
4. Planner and controller composed: local goals of `PlannerFsm` drive the flight
   loop; crashes of the learned planner under its supervisor.
5. The slew limit across a watchdog cut, as numbers; `DynAStar`; the other bridges.
