------------------------------ MODULE Dashboard ------------------------------
(***************************************************************************)
(* The process managers behind the web console (dashboard_server.py).  A   *)
(* threading HTTP server runs every request in a thread of its own; each   *)
(* of five managers keeps the handle of one child process under a lock of  *)
(* its own, which is not reentrant, and calls the others' is_running() and *)
(* stop() from its start().                                                *)
(*                                                                         *)
(* A request is a program: the sequence of the operations its handler has  *)
(* still to do.  The operations are the critical sections of the code and  *)
(* what it does between them; logs, configurations and answers are left    *)
(* out, except that writing a log line takes the manager's lock.           *)
(***************************************************************************)
EXTENDS Naturals, FiniteSets, Sequences, Functions

CONSTANTS
  Threads,      \* the server's request threads
  Free,         \* no thread: a lock nobody holds
  Handles,      \* tells the children of one manager apart; a bound, see Accept
  NoProc,       \* None
  Requests,     \* per thread: the requests it may be given; a bound
  OpenMonitor   \* cfg['open_monitor'] of SacTrainManager

Managers == {"launch", "acceptance", "benchmark", "rl", "sac"}

\* The requests of do_POST and do_GET that have to do with a manager.
Kinds == {"start", "stop", "restart", "rl/train", "rl/stop", "sac/train", "sac/stop",
          "acceptance", "acceptance/stop", "benchmark", "benchmark/stop", "status"}

\* A child process: the manager that spawned it and one of its handles.
Procs == Managers \X Handles

ASSUME DashAssumption ==
  /\ Free \notin Threads
  /\ NoProc \notin Procs
  /\ Requests \in [Threads -> SUBSET Kinds]
  /\ OpenMonitor \in BOOLEAN

VARIABLES
  lock,     \* per manager: the thread inside `with self.lock`
  proc,     \* per manager: self.proc
  alive,    \* the processes that run
  unread,   \* processes whose _reader has not yet seen their end
  todo,     \* per thread: what its request has still to do
  held      \* per thread: the process its stop() took out of self.proc
vars == <<lock, proc, alive, unread, todo, held>>

-----------------------------------------------------------------------------
(* The requests.                                                           *)

Operations == {"take", "terminate", "log", "stopIf", "look", "refuseIf", "acquire",
               "refuseOwn", "spawn", "release"}
op(what, m) == [do |-> what, on |-> m]

\* The operations that begin by taking the lock of their manager.
Locking == {"take", "log", "stopIf", "look", "acquire"}

stop(m) == <<op("take", m), op("terminate", m), op("log", m)>>

\* if m.is_running(): return an error.
guard(m) == << op("look", m), op("refuseIf", m) >>

\* Mutant: self.proc is overwritten while its process runs.
startLaunch_NoCheck ==
  guard("benchmark")
  \o << op("acquire", "launch"), op("spawn", "launch"), op("release", "launch") >>

\* Mutant: the start is logged before its `with` ends.
startLaunch_LogsLocked ==
  guard("benchmark")
  \o << op("acquire", "launch"), op("refuseOwn", "launch"), op("spawn", "launch"),
        op("log", "launch"), op("release", "launch") >>

startLaunch ==
  guard("benchmark")
  \o << op("acquire", "launch"), op("refuseOwn", "launch"), op("spawn", "launch"),
        op("release", "launch") >>

\* Mutant: a training start that looks at the other before it takes its lock.
startTraining_CheckFirst(m, other) ==
  guard(other)
  \o << op("acquire", m), op("refuseOwn", m), op("spawn", m), op("release", m) >>

\* RlTrainManager.start and SacTrainManager.start look at the other manager
\* with their own lock held; opening the monitor writes a log line there too.
startTraining(m, other) ==
  << op("acquire", m), op("refuseOwn", m) >> \o guard(other) \o << op("spawn", m) >>
  \o (IF m = "sac" /\ OpenMonitor THEN << op("log", m) >> ELSE << >>)
  \o << op("release", m) >>

\* Mutant: one critical section for all of it, so that no two starts spawn.
startSuite_OneSection(m, other) ==
  << op("acquire", m), op("stopIf", m), op("stopIf", "launch"), op("stopIf", other) >>
  \o guard("rl") \o guard("sac") \o << op("spawn", m), op("release", m) >>

\* AcceptanceManager.start and Benchmark's stop what runs, then spawn.
startSuite(m, other) ==
  << op("stopIf", m), op("stopIf", "launch"), op("stopIf", other) >>
  \o guard("rl") \o guard("sac")
  \o << op("acquire", m), op("spawn", m), op("release", m) >>

status ==
  << op("log", "launch"), op("log", "rl"), op("log", "sac"),
     op("log", "acceptance"), op("log", "benchmark") >>

program(r) ==
  CASE r = "start"       -> startLaunch
    [] r = "stop"        -> stop("launch")
    [] r = "restart"     -> stop("launch") \o startLaunch
    [] r = "rl/train"    -> startTraining("rl", "sac")
    [] r = "rl/stop"     -> stop("rl")
    [] r = "sac/train"   -> startTraining("sac", "rl")
    [] r = "sac/stop"    -> stop("sac")
    [] r = "acceptance"  -> startSuite("acceptance", "benchmark")
    [] r = "acceptance/stop" -> stop("acceptance")
    [] r = "benchmark"   -> startSuite("benchmark", "acceptance")
    [] r = "benchmark/stop"  -> stop("benchmark")
    [] r = "status"      -> status

-----------------------------------------------------------------------------
busy(t) == todo[t] # << >>
running(m) == proc[m] \in alive

\* The handles a new child of m may get: a dead process that only self.proc
\* still names is forgotten when self.proc is overwritten.
spare(m) ==
  {p \in {m} \X Handles : p \notin alive \cup unread \cup Range(held)}

\* The requests that have still to spawn a child of m.
pending(m) == {t \in Threads : op("spawn", m) \in Range(todo[t])}

\* Leaving a start() because m runs: the end of its `with`, if it is in one.
refused(t, m) ==
  LET own == {n \in Managers \ {m} : lock[n] = t}
  IN  IF own = {} THEN << >> ELSE << op("release", CHOOSE n \in own : TRUE) >>

Init ==
  /\ lock = [m \in Managers |-> Free]
  /\ proc = [m \in Managers |-> NoProc]
  /\ alive = {}
  /\ unread = {}
  /\ todo = [t \in Threads |-> << >>]
  /\ held = [t \in Threads |-> NoProc]

\* do_POST, do_GET.  A suite is started only while there are handles for it:
\* the processes its starts leave to nobody may pile up.
Accept(t) ==
  /\ ~busy(t)
  /\ \E r \in Requests[t] :
       /\ \A m \in {"acceptance", "benchmark"} :
            op("spawn", m) \in Range(program(r)) =>
              Cardinality(pending(m)) < Cardinality(spare(m))
       /\ todo' = [todo EXCEPT ![t] = program(r)]
  /\ UNCHANGED <<lock, proc, alive, unread, held>>

\* Thread t is at an operation `what` on m, and goes on with `rest`.
at(t, what, m) == busy(t) /\ Head(todo[t]) = op(what, m)
goOn(t, rest) == todo' = [todo EXCEPT ![t] = rest]

\* A short critical section that changes nothing but the log: _append_log,
\* or one manager's part of status().
log(t, m) ==
  /\ at(t, "log", m) /\ lock[m] = Free
  /\ goOn(t, Tail(todo[t]))
  /\ UNCHANGED <<lock, proc, alive, unread, held>>

\* is_running() takes the lock of its own manager, within the `with` of the
\* start() that calls it or outside one,
look(t, m) ==
  /\ at(t, "look", m) /\ lock[m] = Free
  /\ lock' = [lock EXCEPT ![m] = t]
  /\ goOn(t, Tail(todo[t]))
  /\ UNCHANGED <<proc, alive, unread, held>>

\* and gives it back with the answer.
refuseIf(t, m) ==
  /\ at(t, "refuseIf", m)
  /\ lock' = [lock EXCEPT ![m] = Free]
  /\ goOn(t, IF running(m) THEN refused(t, m) ELSE Tail(todo[t]))
  /\ UNCHANGED <<proc, alive, unread, held>>

stopIf(t, m) ==
  /\ at(t, "stopIf", m) /\ lock[m] = Free
  /\ goOn(t, (IF running(m) THEN stop(m) ELSE << >>) \o Tail(todo[t]))
  /\ UNCHANGED <<lock, proc, alive, unread, held>>

acquire(t, m) ==
  /\ at(t, "acquire", m) /\ lock[m] = Free
  /\ lock' = [lock EXCEPT ![m] = t]
  /\ goOn(t, Tail(todo[t]))
  /\ UNCHANGED <<proc, alive, unread, held>>

release(t, m) ==
  /\ at(t, "release", m)
  /\ lock' = [lock EXCEPT ![m] = Free]
  /\ goOn(t, Tail(todo[t]))
  /\ UNCHANGED <<proc, alive, unread, held>>

refuseOwn(t, m) ==
  /\ at(t, "refuseOwn", m)
  /\ goOn(t, IF running(m) THEN << op("release", m) >> ELSE Tail(todo[t]))
  /\ UNCHANGED <<lock, proc, alive, unread, held>>

\* self.proc = Popen(...); the suites' readers also clear self.proc at the end.
spawn(t, m) ==
  /\ at(t, "spawn", m) /\ spare(m) # {}
  /\ LET p == CHOOSE q \in spare(m) : TRUE
     IN  /\ proc' = [proc EXCEPT ![m] = p]
         /\ alive' = alive \cup {p}
         /\ unread' = IF m \in {"acceptance", "benchmark"} THEN unread \cup {p} ELSE unread
  /\ goOn(t, Tail(todo[t]))
  /\ UNCHANGED <<lock, held>>

\* The handle is taken under the lock; with nothing to stop, some stop()s are
\* done here.
take(t, m) ==
  LET nothing == \/ proc[m] = NoProc /\ m \in {"launch", "acceptance", "rl"}
                 \/ ~running(m) /\ m = "rl"
  IN  /\ at(t, "take", m) /\ lock[m] = Free
      /\ held' = [held EXCEPT ![t] = IF nothing THEN NoProc ELSE proc[m]]
      /\ proc' = [proc EXCEPT ![m] = NoProc]
      /\ goOn(t, IF nothing THEN SubSeq(todo[t], 4, Len(todo[t])) ELSE Tail(todo[t]))
      /\ UNCHANGED <<lock, alive, unread>>

\* The signal, wait(timeout), SIGKILL: over when the process is.  The SAC stop
\* also kills every other Path H training there is.
terminate(t, m) ==
  /\ at(t, "terminate", m)
  /\ alive' = alive \ ({held[t]} \cup {p \in Procs : m = "sac" /\ p[1] = "sac"})
  /\ held' = [held EXCEPT ![t] = NoProc]
  /\ goOn(t, Tail(todo[t]))
  /\ UNCHANGED <<lock, proc, unread>>

step(t) ==
  \E m \in Managers :
     \/ log(t, m)
     \/ look(t, m)
     \/ refuseIf(t, m)
     \/ stopIf(t, m)
     \/ acquire(t, m)
     \/ release(t, m)
     \/ refuseOwn(t, m)
     \/ spawn(t, m)
     \/ take(t, m)
     \/ terminate(t, m)

\* A child ends by itself.
exit(p) ==
  /\ p \in alive
  /\ alive' = alive \ {p}
  /\ UNCHANGED <<lock, proc, unread, todo, held>>

\* The end of a suite's _reader: self.proc = None, if it is still this one.
reader(p) ==
  LET m == p[1]
  IN  /\ p \in unread \ alive
      /\ lock[m] = Free
      /\ unread' = unread \ {p}
      /\ proc' = IF proc[m] = p THEN [proc EXCEPT ![m] = NoProc] ELSE proc
      /\ UNCHANGED <<lock, alive, todo, held>>

-----------------------------------------------------------------------------
Next ==
  \/ \E t \in Threads : Accept(t)
  \/ \E t \in Threads : step(t)
  \/ \E p \in Procs : exit(p)
  \/ \E p \in Procs : reader(p)

Spec == Init /\ [][Next]_vars

\* Every thread that can go on does; a lock that is free again and again is
\* had at last (requests are seconds apart, critical sections microseconds).
FairSpec ==
  /\ Spec
  /\ \A t \in Threads : SF_vars(step(t))

-----------------------------------------------------------------------------
DashTypeOK ==
  /\ lock \in [Managers -> Threads \cup {Free}]
  /\ proc \in [Managers -> Procs \cup {NoProc}]
  /\ alive \subseteq Procs
  /\ unread \subseteq Procs
  /\ held \in [Threads -> Procs \cup {NoProc}]
  /\ todo \in [Threads -> Seq([do : Operations, on : Managers])]

\* No simulation and no Path G training runs that no manager knows of: it is
\* in self.proc, or a stop() has it in hand and is about to end it, whatever
\* starts and stops overlap.  (The suites check and spawn in two critical
\* sections: two starts at once leave the first process to nobody.)
NoOrphan ==
  \A p \in alive : p[1] \in {"launch", "rl", "sac"} =>
     p = proc[p[1]] \/ \E t \in Threads : held[t] = p

\* The two trainings share the GPU: never are both started and still tracked,
\* although each start() looks at the other manager before it spawns.
OneTraining == ~(running("rl") /\ running("sac"))

\* Thread t cannot go on: somebody, perhaps itself, has the lock of m.
waits(t, m) ==
  /\ busy(t) /\ Head(todo[t]).do \in Locking /\ Head(todo[t]).on = m
  /\ lock[m] # Free
waiting(t) == \E m \in Managers : waits(t, m)

\* Path G and Path H starts wait on each other's lock with their own in hand.
Embrace ==
  \E t, u \in Threads :
     /\ lock["rl"] = t /\ at(t, "look", "sac")
     /\ lock["sac"] = u /\ at(u, "look", "rl")

\* A Path H start that opens the monitor waits for the lock it has.
MonitorLogs == \E t \in Threads : lock["sac"] = t /\ at(t, "log", "sac")

\* Whoever waits for a lock, its holder can go on, or waits itself for one whose
\* holder can: locks are waited for in a circle only in the two ways above, and
\* then only the locks of the two trainings are lost.
OnlyTrainingsBlock ==
  \A t \in Threads, m \in Managers : waits(t, m) =>
     \/ ~waiting(lock[m])
     \/ \E n \in Managers : waits(lock[m], n) /\ ~waiting(lock[n])
     \/ m \in {"rl", "sac"} /\ (Embrace \/ MonitorLogs)

\* Every request is answered, unless the console is in that embrace: no other
\* two of the requests made hang it.
OnlyEmbraceHangs == \A t \in Threads : busy(t) ~> (~busy(t) \/ Embrace)

\* The train card starts, stops and shows the training: every request of it is
\* answered (drone_rl_planner/README.md:88).
TrainCardAnswers == \A t \in Threads : busy(t) ~> ~busy(t)

=============================================================================
