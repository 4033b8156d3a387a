---------------------------- MODULE DashboardProofs ----------------------------
(***************************************************************************)
(* Theorems about Dashboard, for any number of request threads, any mix of *)
(* requests and with the training monitor on or off.                       *)
(*                                                                         *)
(* What a thread has still to do is the end of some program, with stops    *)
(* put in front and refusals cut off.  Instead of listing these sequences, *)
(* the invariant says that they can be annotated: before each operation,   *)
(* with the lock the thread must hold and the manager it must have seen    *)
(* idle under that lock.  The first annotation is what the state has to    *)
(* agree with, and a step of the thread drops it.                          *)
(***************************************************************************)
EXTENDS Dashboard, SequenceTheorems, TLAPS

Op == [do : Operations, on : Managers]

Nobody == "nobody"
Stage == Managers \cup {Nobody}

Training == {"rl", "sac"}
Other(m) == IF m = "rl" THEN "sac" ELSE "rl"

\* The managers whose start() looks at its own process under its lock.
Checked == {"launch", "rl", "sac"}

\* Operation o takes a thread that holds lock l and has seen d idle to one that
\* holds k and has seen e idle.  Only a training waits for a lock with its own in
\* hand.
Leads(o, l, d, k, e) ==
  \/ o.do \in {"take", "terminate", "stopIf"} /\ l = Nobody /\ k = l /\ e = d
  \/ o.do = "log" /\ (l = Nobody \/ (l = "sac" /\ o.on = "sac")) /\ k = l /\ e = d
  \/ o.do \in {"look", "refuseIf"} /\ k = l /\ e = d
        /\ (l = Nobody \/ (l \in Training /\ o.on = Other(l)))
  \/ o.do = "acquire" /\ l = Nobody /\ k = o.on /\ e = Nobody
  \/ o.do = "release" /\ l = o.on /\ k = Nobody /\ e = Nobody
  \/ o.do = "refuseOwn" /\ l = o.on /\ k = l /\ e = o.on
  \/ o.do = "spawn" /\ l = o.on /\ k = l /\ e = Nobody /\ (o.on \in Checked => d = o.on)

Annotates(s, L, D) ==
  /\ L \in [1 .. Len(s) + 1 -> Stage] /\ D \in [1 .. Len(s) + 1 -> Stage]
  /\ L[Len(s) + 1] = Nobody
  /\ \A i \in 1 .. Len(s) + 1 : D[i] \in {Nobody, L[i]}
  /\ \A i \in 1 .. Len(s) : Leads(s[i], L[i], D[i], L[i + 1], D[i + 1])

\* A thread that holds lock l and has seen d idle may go on with s.
Fits(s, l, d) == \E L, D : Annotates(s, L, D) /\ L[1] = l /\ D[1] = d

\* A stop() is done in one piece, a training looks at the other one right before
\* it spawns, and the two halves of an is_running() follow each other.
LinkedAt(s, i) ==
  /\ s[i].do = "take" =>
       i + 2 <= Len(s) /\ s[i + 1] = op("terminate", s[i].on) /\ s[i + 2] = op("log", s[i].on)
  /\ s[i].do = "look" => i < Len(s) /\ s[i + 1] = op("refuseIf", s[i].on)
  /\ i < Len(s) =>
       /\ s[i + 1].do = "spawn" /\ s[i + 1].on \in Training =>
            s[i] = op("refuseIf", Other(s[i + 1].on))
       /\ s[i + 1].do = "refuseIf" => s[i] = op("look", s[i + 1].on)
Linked(s) == \A i \in 1 .. Len(s) : LinkedAt(s, i)

\* With lock l of its own, a thread that goes on with s has that of m: for its
\* start(), or while it looks whether m runs.
Has(s, l, m) == l = m \/ (s # << >> /\ Head(s) = op("refuseIf", m))

\* What a state of thread t with lock l and d seen idle looks like.
Agrees(t, l, d) ==
  /\ Fits(todo[t], l, d)
  /\ \A m \in Managers : lock[m] = t <=> Has(todo[t], l, m)
  /\ d # Nobody => ~running(d)

ThreadInv == \A t \in Threads : Linked(todo[t]) /\ \E l, d \in Stage : Agrees(t, l, d)

\* Only a stop() between its two halves has a process in hand.
HeldInv == \A t \in Threads : held[t] # NoProc => busy(t) /\ Head(todo[t]).do = "terminate"

\* A training about to spawn is the only one.
StartInv ==
  \A t \in Threads, m \in Training : at(t, "spawn", m) =>
     ~running(Other(m)) /\ \A u \in Threads : ~at(u, "spawn", Other(m))

\* A manager keeps only processes of its own.
ProcInv == \A m \in Managers : proc[m] \in ({m} \X Handles) \cup {NoProc}

DashInv == DashTypeOK /\ ProcInv /\ ThreadInv /\ HeldInv /\ StartInv

-----------------------------------------------------------------------------
(* Sequences of operations.                                                *)

\* The operation at the head leads to an annotation of the rest.
LEMMA FitsTail ==
  ASSUME NEW s \in Seq(Op), s # << >>, NEW l, NEW d, Fits(s, l, d)
  PROVE  \E k, e \in Stage : Leads(Head(s), l, d, k, e) /\ Fits(Tail(s), k, e)
<1>1. PICK L, D : Annotates(s, L, D) /\ L[1] = l /\ D[1] = d  BY DEF Fits
<1> DEFINE M == [i \in 1 .. Len(Tail(s)) + 1 |-> L[i + 1]]
           E == [i \in 1 .. Len(Tail(s)) + 1 |-> D[i + 1]]
<1>2. /\ Len(s) \in Nat \ {0} /\ Len(Tail(s)) = Len(s) - 1 /\ Head(s) = s[1]
      /\ \A i \in 1 .. Len(s) - 1 : Tail(s)[i] = s[i + 1]
  BY EmptySeq, HeadTailProperties, LenProperties, SMT
<1>3. Annotates(Tail(s), M, E)
  <2>1. M \in [1 .. Len(Tail(s)) + 1 -> Stage] /\ E \in [1 .. Len(Tail(s)) + 1 -> Stage]
    BY <1>1, <1>2, SMT DEF Annotates
  <2>2. M[Len(Tail(s)) + 1] = Nobody  BY <1>1, <1>2, SMT DEF Annotates
  <2>3. \A i \in 1 .. Len(Tail(s)) + 1 : E[i] \in {Nobody, M[i]}
    BY <1>1, <1>2, SMT DEF Annotates
  <2>4. ASSUME NEW i \in 1 .. Len(Tail(s))
        PROVE  Leads(Tail(s)[i], M[i], E[i], M[i + 1], E[i + 1])
    <3>1. i + 1 \in 1 .. Len(s) /\ Tail(s)[i] = s[i + 1]  BY <1>2, SMT
    <3>2. M[i] = L[i + 1] /\ E[i] = D[i + 1] /\ M[i + 1] = L[i + 1 + 1] /\ E[i + 1] = D[i + 1 + 1]
      BY <1>2, SMT
    <3> QED  BY <1>1, <3>1, <3>2 DEF Annotates
  <2> QED  BY <2>1, <2>2, <2>3, <2>4 DEF Annotates
<1>4. M[1] = L[2] /\ E[1] = D[2] /\ L[2] \in Stage /\ D[2] \in Stage
  BY <1>1, <1>2, SMT DEF Annotates
<1>5. Leads(Head(s), l, d, L[2], D[2])
  <2>1. Leads(s[1], L[1], D[1], L[1 + 1], D[1 + 1])  BY <1>1, <1>2, SMT DEF Annotates
  <2> QED  BY <1>1, <1>2, <2>1
<1> QED  BY <1>3, <1>4, <1>5 DEF Fits

\* A thread with nothing to do holds nothing, and one that has seen m idle
\* holds the lock of m.
LEMMA FitsEnds ==
  ASSUME NEW s \in Seq(Op), NEW l, NEW d, Fits(s, l, d)
  PROVE  d \in {Nobody, l} /\ (s = << >> => l = Nobody)
<1>1. Len(s) \in Nat /\ (s = << >> => Len(s) = 0)  BY EmptySeq, LenProperties
<1> QED  BY <1>1, SMT DEF Fits, Annotates

LEMMA LinkedTail ==
  ASSUME NEW s \in Seq(Op), s # << >>, Linked(s)
  PROVE  Linked(Tail(s))
<1>2. /\ Len(s) \in Nat \ {0} /\ Len(Tail(s)) = Len(s) - 1
      /\ \A i \in 1 .. Len(s) - 1 : Tail(s)[i] = s[i + 1]
  BY EmptySeq, HeadTailProperties, LenProperties, SMT
<1> SUFFICES ASSUME NEW i \in 1 .. Len(Tail(s)) PROVE LinkedAt(Tail(s), i)
  BY DEF Linked
<1> DEFINE j == i + 1
<1>3. j \in 1 .. Len(s) /\ j = i + 1 /\ Tail(s)[i] = s[j]  BY <1>2, SMT
<1> HIDE DEF j
<1>4. LinkedAt(s, j)  BY <1>3 DEF Linked
<1>5. /\ i + 1 <= Len(s) - 1 => Tail(s)[i + 1] = s[j + 1]
      /\ i + 2 <= Len(s) - 1 => Tail(s)[i + 2] = s[j + 2]
      /\ j + 2 <= Len(s) <=> i + 2 <= Len(s) - 1
      /\ j < Len(s) <=> i < Len(Tail(s))
      /\ i < Len(Tail(s)) => i + 1 <= Len(s) - 1
  BY <1>2, <1>3, SMT
<1>6. i + 2 <= Len(s) - 1 => i + 1 <= Len(s) - 1  BY <1>2, SMT
<1> QED  BY <1>2, <1>3, <1>4, <1>5, <1>6 DEF LinkedAt

\* One more operation at the front.
LEMMA FitsMore ==
  ASSUME NEW s \in Seq(Op), NEW o \in Op, NEW l \in Stage, NEW d \in {Nobody, l},
         NEW k, NEW e, Leads(o, l, d, k, e), Fits(s, k, e)
  PROVE  <<o>> \o s \in Seq(Op) /\ Fits(<<o>> \o s, l, d)
<1>1. PICK L, D : Annotates(s, L, D) /\ L[1] = k /\ D[1] = e  BY DEF Fits
<1> DEFINE w == <<o>> \o s
           M == [i \in 1 .. Len(w) + 1 |-> IF i = 1 THEN l ELSE L[i - 1]]
           E == [i \in 1 .. Len(w) + 1 |-> IF i = 1 THEN d ELSE D[i - 1]]
<1>2. /\ w \in Seq(Op) /\ Len(s) \in Nat /\ Len(w) = Len(s) + 1 /\ w[1] = o
      /\ \A i \in 2 .. Len(w) : w[i] = s[i - 1]
  BY ConcatProperties, LenProperties, SMT
<1> HIDE DEF w
<1>3. Annotates(w, M, E)
  <2>1. M \in [1 .. Len(w) + 1 -> Stage] /\ E \in [1 .. Len(w) + 1 -> Stage]
    BY <1>1, <1>2, SMT DEF Annotates, Stage
  <2>2. M[Len(w) + 1] = Nobody  BY <1>1, <1>2, SMT DEF Annotates
  <2>3. \A i \in 1 .. Len(w) + 1 : E[i] \in {Nobody, M[i]}
    BY <1>1, <1>2, SMT DEF Annotates
  <2>4. ASSUME NEW i \in 1 .. Len(w)
        PROVE  Leads(w[i], M[i], E[i], M[i + 1], E[i + 1])
    <3>1. M[i + 1] = L[i] /\ E[i + 1] = D[i]  BY <1>2, SMT
    <3>2. CASE i = 1
      <4>1. M[i] = l /\ E[i] = d /\ w[i] = o /\ L[i] = k /\ D[i] = e  BY <1>1, <1>2, <3>2, SMT
      <4> QED  BY <3>1, <4>1
    <3>3. CASE i # 1
      <4> DEFINE j == i - 1
      <4>1. j \in 1 .. Len(s) /\ j + 1 = i /\ M[i] = L[j] /\ E[i] = D[j] /\ w[i] = s[j]
        BY <1>2, <3>3, SMT
      <4> HIDE DEF j, M, E
      <4>2. Leads(s[j], L[j], D[j], L[j + 1], D[j + 1])  BY <1>1, <4>1 DEF Annotates
      <4> QED  BY <3>1, <4>1, <4>2
    <3> QED  BY <3>2, <3>3
  <2> QED  BY <2>1, <2>2, <2>3, <2>4 DEF Annotates
<1>4. M[1] = l /\ E[1] = d  BY <1>2, SMT
<1> QED  BY <1>2, <1>3, <1>4 DEF Fits, w

LEMMA OpType ==
  ASSUME NEW what \in Operations, NEW m \in Managers
  PROVE  /\ op(what, m) \in Op /\ op(what, m).do = what /\ op(what, m).on = m
         /\ \A o \in Op : o.do = what /\ o.on = m => o = op(what, m)
BY DEF op, Op

\* The five managers, none of which is nobody.
LEMMA ManagersAre ==
  /\ "launch" \in Managers /\ "acceptance" \in Managers /\ "benchmark" \in Managers
  /\ "rl" \in Managers /\ "sac" \in Managers
  /\ Nobody \notin Managers
BY DEF Managers, Nobody

LEMMA FitsNothing == Fits(<< >>, Nobody, Nobody)
<1> DEFINE N == [i \in 1 .. 1 |-> Nobody]
<1>1. Len(<< >>) = 0  OBVIOUS
<1>2. Annotates(<< >>, N, N)  BY <1>1, SMT DEF Annotates, Stage
<1>3. N[1] = Nobody  BY SMT
<1> QED  BY <1>2, <1>3 DEF Fits

\* No look is half done.
Plain(s) == s # << >> => Head(s).do # "refuseIf"

\* A program that a thread without a lock may begin.
Begins(s) == s \in Seq(Op) /\ Fits(s, Nobody, Nobody) /\ Linked(s) /\ Plain(s)

LEMMA PlainHas ==
  ASSUME NEW s, Plain(s), NEW l, NEW m
  PROVE  Has(s, l, m) <=> l = m
BY DEF Plain, Has, op

\* The programs written out.
LEMMA LaunchIs ==
  startLaunch = << op("look", "benchmark"), op("refuseIf", "benchmark"),
                   op("acquire", "launch"), op("refuseOwn", "launch"),
                   op("spawn", "launch"), op("release", "launch") >>
<1> DEFINE a == << op("look", "benchmark"), op("refuseIf", "benchmark") >>
           b == << op("acquire", "launch"), op("refuseOwn", "launch"),
                   op("spawn", "launch"), op("release", "launch") >>
           r == << op("look", "benchmark"), op("refuseIf", "benchmark"),
                   op("acquire", "launch"), op("refuseOwn", "launch"),
                   op("spawn", "launch"), op("release", "launch") >>
<1>1. /\ op("look", "benchmark") \in Op /\ op("refuseIf", "benchmark") \in Op
      /\ op("acquire", "launch") \in Op /\ op("refuseOwn", "launch") \in Op
      /\ op("spawn", "launch") \in Op /\ op("release", "launch") \in Op
  BY ManagersAre, SMT DEF op, Op, Operations
<1>2. /\ a \in Seq(Op) /\ Len(a) = 2 /\ b \in Seq(Op) /\ Len(b) = 4
      /\ r \in Seq(Op) /\ Len(r) = 6
  BY <1>1, SMT
<1>3. startLaunch = a \o b  BY DEF startLaunch, guard
<1>4. a \o b \in Seq(Op) /\ Len(a \o b) = 6  BY <1>2, ConcatProperties, SMT
<1>5. \A i \in 1 .. 6 : (a \o b)[i] = r[i]  BY <1>2, ConcatProperties, SMT
<1> QED  BY <1>2, <1>3, <1>4, <1>5, SeqEqual

LEMMA LaunchBegins == Begins(startLaunch)
<1> DEFINE L == <<Nobody, Nobody, Nobody, "launch", "launch", "launch", Nobody>>
           D == <<Nobody, Nobody, Nobody, Nobody, "launch", Nobody, Nobody>>
           r == << op("look", "benchmark"), op("refuseIf", "benchmark"),
                   op("acquire", "launch"), op("refuseOwn", "launch"),
                   op("spawn", "launch"), op("release", "launch") >>
<1>1. /\ op("look", "benchmark") \in Op /\ op("refuseIf", "benchmark") \in Op
      /\ op("acquire", "launch") \in Op /\ op("refuseOwn", "launch") \in Op
      /\ op("spawn", "launch") \in Op /\ op("release", "launch") \in Op
  BY ManagersAre, SMT DEF op, Op, Operations
<1>2. r \in Seq(Op) /\ Len(r) = 6 /\ Head(r) = op("look", "benchmark") /\ r # << >>
  BY <1>1, SMT
<1>3. Annotates(r, L, D)
  BY <1>2, SMT DEF Annotates, op, Managers, Stage, Nobody, Leads, Checked
<1>4. Linked(r)
  BY <1>2, SMT DEF Linked, LinkedAt, op, Training
<1>5. Plain(r)  BY <1>2, SMT DEF Plain, op
<1>6. Fits(r, Nobody, Nobody)  BY <1>3, SMT DEF Fits
<1> QED  BY <1>2, <1>4, <1>5, <1>6, LaunchIs DEF Begins

LEMMA StopBegins ==
  ASSUME NEW m \in Managers, NEW s, Begins(s)
  PROVE  Begins(stop(m) \o s)
<1> DEFINE a == <<op("log", m)>> \o s
           b == <<op("terminate", m)>> \o a
           c == <<op("take", m)>> \o b
<1>1. op("take", m) \in Op /\ op("terminate", m) \in Op /\ op("log", m) \in Op
  BY SMT DEF op, Op, Operations
<1>2. /\ Leads(op("log", m), Nobody, Nobody, Nobody, Nobody)
      /\ Leads(op("terminate", m), Nobody, Nobody, Nobody, Nobody)
      /\ Leads(op("take", m), Nobody, Nobody, Nobody, Nobody)
  BY DEF Leads, op
<1>3. a \in Seq(Op) /\ Fits(a, Nobody, Nobody)  BY <1>1, <1>2, FitsMore DEF Begins, Stage
<1>4. b \in Seq(Op) /\ Fits(b, Nobody, Nobody)  BY <1>1, <1>2, <1>3, FitsMore DEF Stage
<1>5. c \in Seq(Op) /\ Fits(c, Nobody, Nobody)  BY <1>1, <1>2, <1>4, FitsMore DEF Stage
<1>6. /\ Len(s) \in Nat /\ Len(c) = Len(s) + 3 /\ c[1] = op("take", m)
      /\ c[2] = op("terminate", m) /\ c[3] = op("log", m)
      /\ \A i \in 4 .. Len(c) : c[i] = s[i - 3]
  BY <1>1, ConcatProperties, LenProperties, SMT DEF Begins
<1>7. stop(m) \o s = c
  <2>1. stop(m) \in Seq(Op) /\ Len(stop(m)) = 3  BY <1>1, SMT DEF stop
  <2>2. stop(m) \o s \in Seq(Op) /\ Len(stop(m) \o s) = Len(s) + 3
    <3>1. s \in Seq(Op)  BY DEF Begins
    <3>2. stop(m) \o s \in Seq(Op) /\ Len(stop(m) \o s) = Len(stop(m)) + Len(s)
      BY <2>1, <3>1, ConcatProperties
    <3> QED  BY <1>6, <2>1, <3>2, SMT
  <2>3. \A i \in 1 .. Len(c) : (stop(m) \o s)[i] = c[i]
    BY <1>6, <2>1, ConcatProperties, SMT DEF Begins, stop
  <2> QED  BY <1>5, <1>6, <2>2, <2>3, SeqEqual
<1> HIDE DEF c
<1>8. Linked(c)
  <2> SUFFICES ASSUME NEW i \in 1 .. Len(c) PROVE LinkedAt(c, i)  BY DEF Linked
  <2>1. CASE i = 1  BY <1>6, <2>1, SMT DEF op, LinkedAt
  <2>2. CASE i = 2  BY <1>6, <2>2, SMT DEF op, LinkedAt
  <2>3. CASE i = 3 
    <3>1. c[i] = op("log", m) /\ (i < Len(c) => s # << >> /\ c[i + 1] = s[1])
      BY <1>6, <2>3, SMT
    <3>2. s # << >> => s[1].do # "spawn" /\ s[1].do # "refuseIf"
      <4>1. s # << >> => Head(s) = s[1] /\ s[1] \in Op
        BY HeadTailProperties, EmptySeq, <1>6, SMT DEF Begins
      <4>2. s # << >> => \E k, e : Leads(Head(s), Nobody, Nobody, k, e)
        BY FitsTail DEF Begins
      <4>3. s # << >> => Head(s).do # "refuseIf"  BY DEF Begins, Plain
      <4> QED  BY <4>1, <4>2, <4>3, ManagersAre DEF Leads, Op
    <3> QED  BY <3>1, <3>2 DEF op, LinkedAt
  <2>4. CASE i > 3
    <3> DEFINE j == i - 3
    <3>1. j \in 1 .. Len(s) /\ i = j + 3  BY <1>6, <2>4, SMT
    <3> HIDE DEF j
    <3>2. /\ c[i] = s[j] /\ (i < Len(c) <=> j < Len(s)) /\ (i + 2 <= Len(c) <=> j + 2 <= Len(s))
          /\ (j < Len(s) => c[i + 1] = s[j + 1]) /\ (j + 2 <= Len(s) => j < Len(s) /\ c[i + 2] = s[j + 2])
      BY <1>6, <3>1, SMT
    <3>3. LinkedAt(s, j)  BY <3>1 DEF Begins, Linked
    <3> QED  BY <3>2, <3>3 DEF LinkedAt
  <2> QED  BY <2>1, <2>2, <2>3, <2>4, <1>6, SMT
<1>9. Plain(c)  BY <1>6, <1>5, HeadTailProperties DEF Plain, op
<1> QED  BY <1>5, <1>7, <1>8, <1>9 DEF Begins, c

LEMMA NothingBegins == Begins(<< >>)
<1>1. << >> \in Seq(Op) /\ Len(<< >>) = 0  BY SMT
<1> QED  BY <1>1, FitsNothing, SMT DEF Begins, Linked, Plain

LEMMA TrainingBegins ==
  ASSUME NEW m \in Training
  PROVE  Begins(startTraining(m, Other(m)))
<1> DEFINE s == startTraining(m, Other(m))
<1>1. m \in Managers /\ Other(m) \in Managers  BY DEF Training, Managers, Other
<1>2. /\ op("acquire", m) \in Op /\ op("refuseOwn", m) \in Op /\ op("look", Other(m)) \in Op
      /\ op("refuseIf", Other(m)) \in Op /\ op("spawn", m) \in Op
      /\ op("log", m) \in Op /\ op("release", m) \in Op
  BY <1>1, SMT DEF op, Op, Operations
<1> DEFINE a == << op("acquire", m), op("refuseOwn", m) >>
           b == << op("look", Other(m)), op("refuseIf", Other(m)) >>
           c == << op("spawn", m) >>
           p == << op("acquire", m), op("refuseOwn", m), op("look", Other(m)),
                   op("refuseIf", Other(m)), op("spawn", m) >>
           q == << op("release", m) >>
<1>p. p \in Seq(Op) /\ Len(p) = 5 /\ q \in Seq(Op) /\ Len(q) = 1  BY <1>2, SMT
<1>a. (a \o b) \o c = p
  <2>1. /\ a \in Seq(Op) /\ Len(a) = 2 /\ b \in Seq(Op) /\ Len(b) = 2
        /\ c \in Seq(Op) /\ Len(c) = 1
    BY <1>2, SMT
  <2>2. /\ a \o b \in Seq(Op) /\ Len(a \o b) = 4
        /\ (a \o b)[1] = p[1] /\ (a \o b)[2] = p[2] /\ (a \o b)[3] = p[3] /\ (a \o b)[4] = p[4]
    BY <2>1, ConcatProperties, SMT
  <2> HIDE DEF a, b
  <2>3. (a \o b) \o c \in Seq(Op) /\ Len((a \o b) \o c) = 5
    BY <2>1, <2>2, ConcatProperties, SMT
  <2>4. \A i \in 1 .. 5 : ((a \o b) \o c)[i] = p[i]
    BY <2>1, <2>2, ConcatProperties, SMT
  <2> QED  BY <1>p, <2>3, <2>4, SeqEqual
<1>3. CASE m = "sac" /\ OpenMonitor
  <2> DEFINE r == << op("acquire", m), op("refuseOwn", m), op("look", Other(m)),
                     op("refuseIf", Other(m)), op("spawn", m), op("log", m), op("release", m) >>
             L == <<Nobody, m, m, m, m, m, m, Nobody>>
             D == <<Nobody, Nobody, m, m, m, Nobody, Nobody, Nobody>>
           l == << op("log", m) >>
  <2>2. r \in Seq(Op) /\ Len(r) = 7 /\ Head(r) = op("acquire", m)  BY <1>2, SMT
  <2>1. s = r
    <3>1. s = (((a \o b) \o c) \o l) \o q  BY <1>3 DEF startTraining, guard
    <3>2. l \in Seq(Op) /\ Len(l) = 1  BY <1>2, SMT
    <3>3. /\ p \o l \in Seq(Op) /\ Len(p \o l) = 6
          /\ (p \o l)[1] = r[1] /\ (p \o l)[2] = r[2] /\ (p \o l)[3] = r[3]
          /\ (p \o l)[4] = r[4] /\ (p \o l)[5] = r[5] /\ (p \o l)[6] = r[6]
      BY <1>p, <3>2, ConcatProperties, SMT
    <3>6. s = (p \o l) \o q  BY <1>a, <3>1
    <3> HIDE DEF p, l
    <3>4. (p \o l) \o q \in Seq(Op) /\ Len((p \o l) \o q) = 7
      BY <1>p, <3>3, ConcatProperties, SMT
    <3>5. \A i \in 1 .. 7 : ((p \o l) \o q)[i] = r[i]
      BY <1>p, <3>3, ConcatProperties, SMT
    <3> QED  BY <2>2, <3>4, <3>5, <3>6, SeqEqual
  <2>3. Annotates(r, L, D)
    BY <1>1, <1>3, <2>2, SMT DEF Annotates, op, Stage, Nobody, Leads
  <2>4. Linked(r)  BY <2>2, SMT DEF Linked, LinkedAt, op
  <2>5. Plain(r)  BY <2>2 DEF Plain, op
  <2>6. Fits(r, Nobody, Nobody)  BY <2>3, SMT DEF Fits
  <2> QED  BY <2>1, <2>2, <2>4, <2>5, <2>6 DEF Begins
<1>4. CASE ~(m = "sac" /\ OpenMonitor)
  <2> DEFINE r == << op("acquire", m), op("refuseOwn", m), op("look", Other(m)),
                     op("refuseIf", Other(m)), op("spawn", m), op("release", m) >>
             L == <<Nobody, m, m, m, m, m, Nobody>>
             D == <<Nobody, Nobody, m, m, m, Nobody, Nobody>>
  <2>2. r \in Seq(Op) /\ Len(r) = 6 /\ Head(r) = op("acquire", m)  BY <1>2, SMT
  <2>1. s = r
    <3>1. s = (((a \o b) \o c) \o << >>) \o q  BY <1>4 DEF startTraining, guard
    <3>2. p \o << >> = p  BY <1>p, ConcatEmptySeq
    <3>6. s = p \o q  BY <1>a, <3>1, <3>2
    <3>3. p \o q \in Seq(Op) /\ Len(p \o q) = 6  BY <1>p, ConcatProperties, SMT
    <3>4. \A i \in 1 .. 6 : (p \o q)[i] = r[i]  BY <1>p, ConcatProperties, SMT
    <3> QED  BY <2>2, <3>3, <3>4, <3>6, SeqEqual
  <2>3. Annotates(r, L, D)
    BY <1>1, <2>2, SMT DEF Annotates, op, Stage, Nobody, Leads
  <2>4. Linked(r)  BY <2>2, SMT DEF Linked, LinkedAt, op
  <2>5. Plain(r)  BY <2>2 DEF Plain, op
  <2>6. Fits(r, Nobody, Nobody)  BY <2>3, SMT DEF Fits
  <2> QED  BY <2>1, <2>2, <2>4, <2>5, <2>6 DEF Begins
<1> QED  BY <1>3, <1>4

LEMMA SuiteBegins ==
  ASSUME NEW m \in {"acceptance", "benchmark"}, NEW other \in Managers
  PROVE  Begins(startSuite(m, other))
<1> DEFINE L == [i \in 1 .. 11 |-> IF i \in {9, 10} THEN m ELSE Nobody]
           D == [i \in 1 .. 11 |-> Nobody]
           s == startSuite(m, other)
           a == << op("stopIf", m), op("stopIf", "launch"), op("stopIf", other) >>
           g == << op("look", "rl"), op("refuseIf", "rl") >>
           h == << op("look", "sac"), op("refuseIf", "sac") >>
           b == << op("acquire", m), op("spawn", m), op("release", m) >>
           r == << op("stopIf", m), op("stopIf", "launch"), op("stopIf", other),
                   op("look", "rl"), op("refuseIf", "rl"), op("look", "sac"),
                   op("refuseIf", "sac"), op("acquire", m), op("spawn", m), op("release", m) >>
<1>1. m \in Managers /\ m \notin Checked /\ m \notin Training
  BY DEF Managers, Checked, Training
<1>2. /\ op("stopIf", m) \in Op /\ op("stopIf", "launch") \in Op /\ op("stopIf", other) \in Op
      /\ op("look", "rl") \in Op /\ op("refuseIf", "rl") \in Op
      /\ op("look", "sac") \in Op /\ op("refuseIf", "sac") \in Op
      /\ op("acquire", m) \in Op /\ op("spawn", m) \in Op /\ op("release", m) \in Op
  BY <1>1, ManagersAre, SMT DEF op, Op, Operations
<1>3. r \in Seq(Op) /\ Len(r) = 10 /\ Head(r) = op("stopIf", m)  BY <1>2, SMT
<1>4. s = r
  <2>1. /\ a \in Seq(Op) /\ Len(a) = 3 /\ g \in Seq(Op) /\ Len(g) = 2
        /\ h \in Seq(Op) /\ Len(h) = 2 /\ b \in Seq(Op) /\ Len(b) = 3
    BY <1>2, SMT
  <2>2. s = ((a \o g) \o h) \o b  BY DEF startSuite, guard
  <2>3. /\ a \o g \in Seq(Op) /\ Len(a \o g) = 5
        /\ \A i \in 1 .. 5 : (a \o g)[i] = r[i]
    BY <2>1, ConcatProperties, SMT
  <2> DEFINE u == a \o g
             v == u \o h
  <2> HIDE DEF u
  <2>4. v \in Seq(Op) /\ Len(v) = 7 /\ \A i \in 1 .. 7 : v[i] = r[i]
    BY <2>1, <2>3, ConcatProperties, SMT DEF u
  <2> HIDE DEF v
  <2>5. v \o b \in Seq(Op) /\ Len(v \o b) = 10 /\ \A i \in 1 .. 10 : (v \o b)[i] = r[i]
    <3>1. r[8] = b[1] /\ r[9] = b[2] /\ r[10] = b[3]  BY <2>1, SMT
    <3>2. b \in Seq(Op) /\ Len(b) = 3 /\ v \in Seq(Op) /\ Len(v) = 7 /\ \A i \in 1 .. 7 : v[i] = r[i]
      BY <2>1, <2>4
    <3> HIDE DEF b, r
    <3>9. /\ v \o b \in Seq(Op) /\ Len(v \o b) = Len(v) + Len(b)
          /\ \A i \in 1 .. Len(v) + Len(b) :
               (v \o b)[i] = IF i <= Len(v) THEN v[i] ELSE b[i - Len(v)]
      BY <3>2, ConcatProperties, Zenon
    <3> DEFINE w == v \o b
    <3> HIDE DEF w
    <3>3. w \in Seq(Op) /\ Len(w) = 10  BY <3>2, <3>9, SMT DEF w
    <3>4. \A i \in 1 .. 7 : w[i] = v[i]  BY <3>2, <3>9, SMT DEF w
    <3>5. \A i \in 1 .. 3 : w[7 + i] = b[i]  BY <3>2, <3>9, SMT DEF w
    <3>6. 7 + 1 = 8 /\ 7 + 2 = 9 /\ 7 + 3 = 10 /\ 1 \in 1 .. 3 /\ 2 \in 1 .. 3 /\ 3 \in 1 .. 3  BY SMT
    <3>7. w[8] = r[8] /\ w[9] = r[9] /\ w[10] = r[10]
      BY <3>1, <3>5, <3>6
    <3>8. \A i \in 1 .. 10 : i \in 1 .. 7 \/ i = 8 \/ i = 9 \/ i = 10  BY SMT
    <3> QED  BY <3>2, <3>3, <3>4, <3>7, <3>8 DEF w
  <2> QED  BY <1>3, <2>2, <2>5, SeqEqual DEF u, v
<1>5. Annotates(r, L, D)
  BY <1>1, <1>3, SMT DEF Annotates, op, Stage, Nobody, Leads
<1>6. Linked(r)  BY <1>1, <1>3, SMT DEF Linked, LinkedAt, op
<1>7. Plain(r)  BY <1>3 DEF Plain, op
<1>8. Fits(r, Nobody, Nobody)  BY <1>5, SMT DEF Fits
<1> QED  BY <1>3, <1>4, <1>6, <1>7, <1>8 DEF Begins

LEMMA StatusBegins == Begins(status)
<1> DEFINE N == [i \in 1 .. 6 |-> Nobody]
<1>1. /\ op("log", "launch") \in Op /\ op("log", "rl") \in Op /\ op("log", "sac") \in Op
      /\ op("log", "acceptance") \in Op /\ op("log", "benchmark") \in Op
  BY ManagersAre, SMT DEF op, Op, Operations
<1>2. status \in Seq(Op) /\ Len(status) = 5 /\ Head(status) = op("log", "launch")
  BY <1>1, SMT DEF status
<1>3. Annotates(status, N, N)
  BY <1>2, SMT DEF Annotates, status, op, Stage, Nobody, Leads
<1>4. Linked(status)  BY <1>2, SMT DEF Linked, LinkedAt, status, op
<1>5. Plain(status)  BY <1>2 DEF Plain, op
<1> QED  BY <1>2, <1>3, <1>4, <1>5, SMT DEF Begins, Fits

\* Every request begins without a lock, and leaves none behind.
LEMMA ProgramBegins ==
  ASSUME NEW r \in Kinds
  PROVE  Begins(program(r))
<1>1. \A m \in Managers : Begins(stop(m))
  <2> TAKE m \in Managers
  <2>1. /\ op("take", m) \in Op /\ op("terminate", m) \in Op /\ op("log", m) \in Op
    BY SMT DEF op, Op, Operations
  <2>2. stop(m) \in Seq(Op)  BY <2>1, SMT DEF stop
  <2>3. stop(m) \o << >> = stop(m)  BY <2>2, ConcatEmptySeq
  <2> QED  BY <2>3, NothingBegins, StopBegins
<1>2. Other("rl") = "sac" /\ Other("sac") = "rl" /\ "rl" \in Training /\ "sac" \in Training
  BY DEF Other, Training
<1>3. Begins(startTraining("rl", "sac")) /\ Begins(startTraining("sac", "rl"))
  BY <1>2, TrainingBegins
<1>4. /\ Begins(startSuite("acceptance", "benchmark"))
      /\ Begins(startSuite("benchmark", "acceptance"))
  BY SuiteBegins, ManagersAre
<1>5. Begins(stop("launch") \o startLaunch)  BY LaunchBegins, StopBegins, ManagersAre
<1> QED  BY <1>1, <1>3, <1>4, <1>5, LaunchBegins, StatusBegins, ManagersAre, SMT DEF Kinds, program

-----------------------------------------------------------------------------
(* The steps of one thread.                                                *)

\* A step that starts no process.
Quiet == alive' \subseteq alive /\ \A m \in Managers : proc'[m] \in {proc[m], NoProc}

LEMMA QuietIdle ==
  ASSUME DashTypeOK, Quiet, NEW m \in Managers, ~running(m)
  PROVE  ~running(m)'
BY DashAssumption DEF DashTypeOK, Quiet, running

\* Only a look leaves a look half done behind it.
LEMMA PlainTail ==
  ASSUME NEW s \in Seq(Op), s # << >>, Linked(s), Head(s).do # "look"
  PROVE  Plain(Tail(s))
<1> SUFFICES ASSUME Tail(s) # << >> PROVE Head(Tail(s)).do # "refuseIf"  BY DEF Plain
<1>1. /\ Len(s) \in Nat /\ Tail(s) \in Seq(Op) /\ Len(Tail(s)) = Len(s) - 1 /\ Head(s) = s[1]
      /\ \A i \in 1 .. Len(Tail(s)) : Tail(s)[i] = s[i + 1]
  BY HeadTailProperties, LenProperties
<1>2. Len(Tail(s)) \in Nat /\ Len(Tail(s)) # 0 /\ Head(Tail(s)) = Tail(s)[1]
  BY <1>1, EmptySeq, LenProperties, HeadTailProperties
<1>3. 1 \in 1 .. Len(s) /\ 1 < Len(s) /\ Head(Tail(s)) = s[1 + 1]  BY <1>1, <1>2, SMT
<1>4. s[1 + 1].do = "refuseIf" => s[1] = op("look", s[1 + 1].on)  BY <1>3 DEF Linked, LinkedAt
<1> QED  BY <1>1, <1>3, <1>4 DEF op

LEMMA LookTail ==
  ASSUME NEW s \in Seq(Op), s # << >>, Linked(s), NEW m, Head(s) = op("look", m)
  PROVE  Tail(s) # << >> /\ Head(Tail(s)) = op("refuseIf", m)
<1>1. /\ Len(s) \in Nat \ {0} /\ Tail(s) \in Seq(Op) /\ Len(Tail(s)) = Len(s) - 1
      /\ Head(s) = s[1] /\ \A i \in 1 .. Len(Tail(s)) : Tail(s)[i] = s[i + 1]
  BY EmptySeq, HeadTailProperties, LenProperties, SMT
<1>2. 1 \in 1 .. Len(s)  BY <1>1, SMT
<1>3. 1 < Len(s) /\ s[1 + 1] = op("refuseIf", m)
  <2>1. s[1].do = "look" /\ s[1].on = m  BY <1>1 DEF op
  <2>2. LinkedAt(s, 1)  BY <1>2 DEF Linked
  <2> QED  BY <2>1, <2>2 DEF LinkedAt
<1>4. Len(Tail(s)) # 0 /\ 1 \in 1 .. Len(Tail(s))  BY <1>1, <1>3, SMT
<1>5. Tail(s) # << >> /\ Head(Tail(s)) = Tail(s)[1]
  BY <1>1, <1>4, EmptySeq, HeadTailProperties
<1> QED  BY <1>1, <1>3, <1>4, <1>5

\* What thread t, at an operation, holds and goes on with.
LEMMA AtFits ==
  ASSUME DashInv, NEW t \in Threads, NEW what \in Operations, NEW m \in Managers,
         at(t, what, m)
  PROVE  \E l, d, k, e \in Stage :
            /\ Agrees(t, l, d) /\ d \in {Nobody, l} /\ e \in {Nobody, k}
            /\ Leads(op(what, m), l, d, k, e)
            /\ Tail(todo[t]) \in Seq(Op) /\ Fits(Tail(todo[t]), k, e)
            /\ Linked(Tail(todo[t]))
            /\ \A n \in Managers : lock[n] = t <=> (l = n \/ (what = "refuseIf" /\ n = m))
            /\ what # "look" => Plain(Tail(todo[t]))
<1> DEFINE s == todo[t]
<1>1. s \in Seq(Op) /\ Linked(s)  BY DEF DashInv, DashTypeOK, ThreadInv, Op
<1>2. PICK l \in Stage, d \in Stage : Agrees(t, l, d)  BY DEF DashInv, ThreadInv
<1>3. s # << >> /\ Head(s) = op(what, m)  BY DEF at, busy
<1>4. Fits(s, l, d) /\ \A n \in Managers : lock[n] = t <=> Has(s, l, n)  BY <1>2 DEF Agrees
<1> HIDE DEF s
<1>5. PICK k \in Stage, e \in Stage : Leads(Head(s), l, d, k, e) /\ Fits(Tail(s), k, e)
  BY <1>1, <1>3, <1>4, FitsTail
<1>6. Tail(s) \in Seq(Op)  BY <1>1, <1>3, HeadTailProperties
<1>7. Linked(Tail(s))  BY <1>1, <1>3, LinkedTail
<1>8. d \in {Nobody, l} /\ e \in {Nobody, k}  BY <1>1, <1>4, <1>5, <1>6, FitsEnds
<1>9. \A n \in Managers : lock[n] = t <=> (l = n \/ (what = "refuseIf" /\ n = m))
  BY <1>3, <1>4 DEF Has, op
<1>10. what # "look" => Plain(Tail(s))  BY <1>1, <1>3, PlainTail DEF op
<1> QED  BY <1>2, <1>3, <1>5, <1>6, <1>7, <1>8, <1>9, <1>10 DEF s

\* A thread about to spawn holds the lock, and knows of no process of a manager
\* that looks.
LEMMA SpawnHolds ==
  ASSUME DashInv, NEW t \in Threads, NEW m \in Managers, at(t, "spawn", m)
  PROVE  lock[m] = t /\ (m \in Checked => ~running(m))
<1>1. "spawn" \in Operations  BY DEF Operations
<1>2. PICK l, d, k, e \in Stage :
         /\ Agrees(t, l, d) /\ d \in {Nobody, l} /\ Leads(op("spawn", m), l, d, k, e)
         /\ \A n \in Managers : lock[n] = t <=> (l = n \/ ("spawn" = "refuseIf" /\ n = m))
  BY <1>1, AtFits
<1>3. l = m /\ (m \in Checked => d = m)  BY <1>2 DEF Leads, op
<1> QED  BY <1>2, <1>3, ManagersAre DEF Agrees

\* The annotations of the threads after a step of t that leaves it with `rest`.
LEMMA ThreadStep ==
  ASSUME DashInv, NEW t \in Threads, NEW rest, goOn(t, rest),
         NEW l \in Stage, NEW d \in Stage, Fits(rest, l, d), Linked(rest),
         \A m \in Managers : lock'[m] = t <=> Has(rest, l, m),
         \A m \in Managers, u \in Threads : u # t => (lock'[m] = u <=> lock[m] = u),
         d # Nobody => ~running(d)',
         \A m \in Managers, u \in Threads :
            (u # t /\ lock[m] = u /\ ~running(m)) => ~running(m)'
  PROVE  ThreadInv'
<1> SUFFICES ASSUME NEW u \in Threads
             PROVE  Linked(todo[u])' /\ \E a, b \in Stage : Agrees(u, a, b)'
  BY DEF ThreadInv
<1>1. todo'[t] = rest /\ (u # t => todo'[u] = todo[u])
  BY DEF goOn, DashInv, DashTypeOK
<1>2. CASE u = t
  <2>1. Linked(todo'[u])  BY <1>1, <1>2
  <2>2. Fits(todo'[u], l, d)  BY <1>1, <1>2
  <2>3. \A n \in Managers : lock'[n] = u <=> Has(todo'[u], l, n)  BY <1>1, <1>2
  <2> QED  BY <1>2, <2>1, <2>2, <2>3 DEF Agrees
<1>3. CASE u # t
  <2>1. PICK a \in Stage, b \in Stage : Agrees(u, a, b)  BY DEF DashInv, ThreadInv
  <2>2. Linked(todo'[u])  BY <1>1, <1>3 DEF DashInv, ThreadInv
  <2>3. Fits(todo'[u], a, b)  BY <1>1, <1>3, <2>1 DEF Agrees
  <2>4. \A m \in Managers : lock'[m] = u <=> Has(todo'[u], a, m)  BY <1>1, <1>3, <2>1 DEF Agrees
  <2>5. b # Nobody => ~running(b)'
    <3>1. b \in {Nobody, a} 
      <4>1. todo[u] \in Seq(Op)  BY DEF DashInv, DashTypeOK, Op
      <4> QED  BY <2>1, <4>1, FitsEnds DEF Agrees
    <3>2. \A m \in Managers : a = m => lock[m] = u  BY <2>1 DEF Agrees, Has
    <3> QED  BY <1>3, <2>1, <3>1, <3>2 DEF Agrees, Stage
  <2> QED  BY <2>2, <2>3, <2>4, <2>5 DEF Agrees
<1> QED  BY <1>2, <1>3

\* No second training gets to its spawn, in a step of t that starts nothing.
LEMMA StartStep ==
  ASSUME DashInv, NEW t \in Threads, Quiet,
         \A u \in Threads : u # t => todo'[u] = todo[u],
         \A m \in Training : at(t, "spawn", m)' => 
             \/ at(t, "spawn", m)
             \/ lock[Other(m)] = t /\ ~running(Other(m))
  PROVE  StartInv'
<1>1. ASSUME NEW u \in Threads, NEW m \in Training, at(u, "spawn", m)'
      PROVE  ~running(Other(m))' /\ \A v \in Threads : ~at(v, "spawn", Other(m))'
  <2>1. Other(m) \in Training /\ Other(Other(m)) = m /\ Other(m) # m
        /\ m \in Managers /\ Other(m) \in Managers
    BY DEF Other, Training, Managers
  <2>2. \A v \in Threads, n \in Training : at(v, "spawn", n)' =>
           at(v, "spawn", n) \/ (v = t /\ lock[Other(n)] = t /\ ~running(Other(n)))
    BY DEF at, busy
  <2>3. ~running(Other(m))
    BY <1>1, <2>2 DEF DashInv, StartInv
  <2>4. ~running(Other(m))'  BY <2>1, <2>3, QuietIdle DEF DashInv
  <2>5. ASSUME NEW v \in Threads, at(v, "spawn", Other(m))'
        PROVE  FALSE
    <3>1. at(u, "spawn", m) \/ (u = t /\ lock[Other(m)] = t)  BY <1>1, <2>2
    <3>2. at(v, "spawn", Other(m)) \/ (v = t /\ lock[m] = t)  BY <2>1, <2>2, <2>5
    <3>3. u # v  BY <1>1, <2>1, <2>5 DEF at, op
    <3>4. ~(at(u, "spawn", m) /\ at(v, "spawn", Other(m)))  BY DEF DashInv, StartInv
    <3>5. at(u, "spawn", m) => lock[m] = u  BY <2>1, SpawnHolds
    <3>6. at(v, "spawn", Other(m)) => lock[Other(m)] = v  BY <2>1, SpawnHolds
    <3> QED  BY <3>1, <3>2, <3>3, <3>4, <3>5, <3>6, DashAssumption
  <2> QED  BY <2>4, <2>5
<1> QED  BY <1>1 DEF StartInv

LEMMA HeldStep ==
  ASSUME DashInv, NEW t \in Threads,
         \A u \in Threads : u # t => todo'[u] = todo[u] /\ held'[u] = held[u],
         held'[t] # NoProc => todo'[t] # << >> /\ Head(todo'[t]).do = "terminate"
  PROVE  HeldInv'
BY DEF DashInv, HeldInv, busy

\* Giving back lock l of its own is all a thread has to do that leaves its start().
LEMMA LeaveFits ==
  ASSUME NEW l \in Stage, NEW r, r = IF l = Nobody THEN << >> ELSE << op("release", l) >>
  PROVE  /\ r \in Seq(Op) /\ Fits(r, l, Nobody) /\ Linked(r)
         /\ r # << >> => Head(r).do = "release"
<1>1. CASE l = Nobody  BY <1>1, NothingBegins DEF Begins
<1>2. CASE l \in Managers
  <2> DEFINE o == op("release", l)
  <2>1. r = <<o>>  BY <1>2, ManagersAre
  <2>2. o \in Op /\ o.do = "release" /\ o.on = l  BY <1>2, SMT DEF op, Op, Operations
  <2>3. Leads(o, l, Nobody, Nobody, Nobody)  BY <2>2 DEF Leads
  <2> HIDE DEF o
  <2>4. << >> \in Seq(Op)  OBVIOUS
  <2>5. <<o>> \o << >> \in Seq(Op) /\ Fits(<<o>> \o << >>, l, Nobody)
    BY <2>2, <2>3, <2>4, FitsMore, FitsNothing
  <2>6. <<o>> \in Seq(Op) /\ Len(<<o>>) = 1 /\ <<o>>[1] = o /\ Head(<<o>>) = o  BY <2>2, SMT
  <2>7. <<o>> \o << >> = <<o>>  BY <2>6, ConcatEmptySeq
  <2>8. Linked(<<o>>)  BY <2>2, <2>6, SMT DEF Linked, LinkedAt
  <2> QED  BY <2>1, <2>2, <2>5, <2>6, <2>7, <2>8
<1> QED  BY <1>1, <1>2 DEF Stage

LEMMA TodoType ==
  ASSUME DashTypeOK, NEW t \in Threads, NEW rest \in Seq(Op), goOn(t, rest)
  PROVE  /\ todo' \in [Threads -> Seq(Op)]
         /\ todo'[t] = rest /\ \A u \in Threads : u # t => todo'[u] = todo[u]
<1>1. todo \in [Threads -> Seq(Op)]  BY DEF DashTypeOK, Op
<1> QED  BY <1>1 DEF goOn

\* A step of t that only goes on with its program, and takes or gives back locks.
LEMMA OnlyGoesOn ==
  ASSUME DashInv, NEW t \in Threads, UNCHANGED <<proc, alive, unread, held>>,
         NEW l \in Stage, NEW e \in Stage, e # Nobody => ~running(e), held[t] = NoProc,
         NEW rest \in Seq(Op), goOn(t, rest), Fits(rest, l, e), Linked(rest),
         lock' \in [Managers -> Threads \cup {Free}],
         \A m \in Managers : lock'[m] = t <=> Has(rest, l, m),
         \A m \in Managers, u \in Threads : u # t => (lock'[m] = u <=> lock[m] = u),
         \A m \in Training : (rest # << >> /\ Head(rest) = op("spawn", m)) =>
            lock[Other(m)] = t /\ ~running(Other(m))
  PROVE  DashInv'
<1>1. /\ todo' \in [Threads -> Seq(Op)]
      /\ todo'[t] = rest /\ \A u \in Threads : u # t => todo'[u] = todo[u]
  BY TodoType DEF DashInv
<1>2. DashTypeOK'  BY <1>1 DEF DashInv, DashTypeOK, Op
<1>3. ThreadInv'
  <2>1. e # Nobody => ~running(e)'  BY DEF running
  <2>2. \A m \in Managers : ~running(m) => ~running(m)'  BY DEF running
  <2> QED  BY <2>1, <2>2, ThreadStep
<1>4. HeldInv'  BY <1>1, HeldStep
<1>5. StartInv'
  <2>1. Quiet  BY DEF Quiet
  <2>2. \A m \in Training : at(t, "spawn", m)' => lock[Other(m)] = t /\ ~running(Other(m))
    BY <1>1 DEF at, busy
  <2> QED  BY <1>1, <2>1, <2>2, StartStep
<1>6. ProcInv'  BY DEF DashInv, ProcInv
<1> QED  BY <1>2, <1>3, <1>4, <1>5, <1>6 DEF DashInv

\* A thread at an operation other than the second half of a stop has nothing
\* in hand.
LEMMA HandEmpty ==
  ASSUME DashInv, NEW t \in Threads, NEW what, what # "terminate", NEW m,
         at(t, what, m)
  PROVE  held[t] = NoProc
BY DEF DashInv, HeldInv, at, op

\* A training spawns behind its look at the other one.
LEMMA NextSpawn ==
  ASSUME DashInv, NEW t \in Threads, NEW what \in Operations, NEW n \in Managers,
         at(t, what, n), NEW m \in Training,
         Tail(todo[t]) # << >>, Head(Tail(todo[t])) = op("spawn", m)
  PROVE  what = "refuseIf" /\ n = Other(m)
<1> DEFINE s == todo[t]
<1>1. s \in Seq(Op) /\ Linked(s)  BY DEF DashInv, DashTypeOK, ThreadInv, Op
<1>2. s # << >> /\ Head(s) = op(what, n)  BY DEF at, busy
<1>3. Tail(s) # << >> /\ Head(Tail(s)) = op("spawn", m)  OBVIOUS
<1> HIDE DEF s
<1>4. Tail(s) \in Seq(Op) /\ Len(Tail(s)) = Len(s) - 1 /\ Head(s) = s[1]
      /\ Len(s) \in Nat /\ \A i \in 1 .. Len(Tail(s)) : Tail(s)[i] = s[i + 1]
  BY <1>1, <1>2, HeadTailProperties, LenProperties
<1>5. Len(Tail(s)) > 0 /\ Head(Tail(s)) = Tail(s)[1]
  BY <1>3, <1>4, EmptySeq, LenProperties, HeadTailProperties, SMT
<1>6. 1 \in 1 .. Len(s) /\ 1 < Len(s) /\ s[1 + 1] = op("spawn", m)  BY <1>3, <1>4, <1>5, SMT
<1>7. op("spawn", m).do = "spawn" /\ op("spawn", m).on = m  BY DEF op
<1>8. s[1] = op("refuseIf", Other(m))
  BY <1>1, <1>6, <1>7 DEF Linked, LinkedAt
<1> QED  BY <1>2, <1>4, <1>8 DEF op

LEMMA LogStep ==
  ASSUME DashInv, NEW t \in Threads, NEW m \in Managers, log(t, m)
  PROVE  DashInv'
<1>1. at(t, "log", m) /\ goOn(t, Tail(todo[t])) /\ UNCHANGED <<lock, proc, alive, unread, held>>
  BY DEF log
<1>2. "log" \in Operations /\ "log" # "refuseIf" /\ "log" # "look"  BY DEF Operations
<1>3. PICK l, d, k, e \in Stage :
         /\ Agrees(t, l, d) /\ Leads(op("log", m), l, d, k, e) /\ Tail(todo[t]) \in Seq(Op)
         /\ Fits(Tail(todo[t]), k, e) /\ Linked(Tail(todo[t]))
         /\ \A n \in Managers : lock[n] = t <=> (l = n \/ ("log" = "refuseIf" /\ n = m))
         /\ "log" # "look" => Plain(Tail(todo[t]))
  BY <1>1, <1>2, AtFits
<1>4. k = l /\ e = d  BY <1>3 DEF Leads, op
<1>5. d # Nobody => ~running(d)  BY <1>3 DEF Agrees
<1>6. \A n \in Training : ~(Tail(todo[t]) # << >> /\ Head(Tail(todo[t])) = op("spawn", n))
  BY <1>1, <1>2, NextSpawn
<1>7. \A n \in Managers : lock'[n] = t <=> Has(Tail(todo[t]), l, n)
  BY <1>1, <1>2, <1>3, PlainHas
<1>8. lock' \in [Managers -> Threads \cup {Free}]  BY <1>1 DEF DashInv, DashTypeOK
<1> QED  BY <1>1, <1>3, <1>4, <1>5, <1>6, <1>7, <1>8, HandEmpty, OnlyGoesOn

LEMMA LookStep ==
  ASSUME DashInv, NEW t \in Threads, NEW m \in Managers, look(t, m)
  PROVE  DashInv'
<1> DEFINE r == Tail(todo[t])
<1>1. /\ at(t, "look", m) /\ goOn(t, r) /\ UNCHANGED <<proc, alive, unread, held>>
      /\ lock[m] = Free /\ lock' = [lock EXCEPT ![m] = t]
  BY DEF look
<1>2. "look" \in Operations /\ "look" # "refuseIf"  BY DEF Operations
<1>3. PICK l, d, k, e \in Stage :
         /\ Agrees(t, l, d) /\ Leads(op("look", m), l, d, k, e) /\ r \in Seq(Op)
         /\ Fits(r, k, e) /\ Linked(r)
         /\ \A n \in Managers : lock[n] = t <=> (l = n \/ ("look" = "refuseIf" /\ n = m))
  BY <1>1, <1>2, AtFits
<1>4. k = l /\ e = d  BY <1>3 DEF Leads, op
<1>5. d # Nobody => ~running(d)  BY <1>3 DEF Agrees
<1>6. \A n \in Training : ~(r # << >> /\ Head(r) = op("spawn", n))
  BY <1>1, <1>2, NextSpawn
<1>7. r # << >> /\ Head(r) = op("refuseIf", m)
  <2>1. todo[t] \in Seq(Op) /\ Linked(todo[t])  BY DEF DashInv, DashTypeOK, ThreadInv, Op
  <2>2. todo[t] # << >> /\ Head(todo[t]) = op("look", m)  BY <1>1 DEF at, busy
  <2> QED  BY <2>1, <2>2, LookTail
<1> HIDE DEF r
<1>8. lock \in [Managers -> Threads \cup {Free}] /\ Free \notin Threads
  BY DashAssumption DEF DashInv, DashTypeOK
<1>9. lock' \in [Managers -> Threads \cup {Free}]  BY <1>1, <1>8
<1>10. \A n \in Managers : lock'[n] = t <=> Has(r, l, n)
  <2>1. \A n \in Managers : Has(r, l, n) <=> (l = n \/ n = m)
    BY <1>7 DEF Has, op
  <2>2. \A n \in Managers : lock'[n] = t <=> (lock[n] = t \/ n = m)  BY <1>1, <1>8
  <2> QED  BY <1>2, <1>3, <2>1, <2>2
<1>11. \A n \in Managers, u \in Threads : u # t => (lock'[n] = u <=> lock[n] = u)
  BY <1>1, <1>8
<1> QED  BY <1>1, <1>3, <1>4, <1>5, <1>6, <1>9, <1>10, <1>11, HandEmpty, OnlyGoesOn

LEMMA RefuseIfStep ==
  ASSUME DashInv, NEW t \in Threads, NEW m \in Managers, refuseIf(t, m)
  PROVE  DashInv'
<1>1. /\ at(t, "refuseIf", m) /\ UNCHANGED <<proc, alive, unread, held>>
      /\ lock' = [lock EXCEPT ![m] = Free]
      /\ goOn(t, IF running(m) THEN refused(t, m) ELSE Tail(todo[t]))
  BY DEF refuseIf
<1>2. "refuseIf" \in Operations /\ "refuseIf" # "look"  BY DEF Operations
<1>3. PICK l, d, k, e \in Stage :
         /\ Agrees(t, l, d) /\ Leads(op("refuseIf", m), l, d, k, e) /\ Tail(todo[t]) \in Seq(Op)
         /\ Fits(Tail(todo[t]), k, e) /\ Linked(Tail(todo[t]))
         /\ \A n \in Managers : lock[n] = t <=> (l = n \/ ("refuseIf" = "refuseIf" /\ n = m))
         /\ "refuseIf" # "look" => Plain(Tail(todo[t]))
  BY <1>1, <1>2, AtFits
<1>4. held[t] = NoProc  BY <1>1, HandEmpty
<1>5. l # m
  <2>1. l = Nobody \/ (l \in Training /\ m = Other(l))  BY <1>3 DEF Leads, op
  <2> QED  BY <2>1, ManagersAre DEF Training, Other
<1>6. lock \in [Managers -> Threads \cup {Free}] /\ Free \notin Threads
  BY DashAssumption DEF DashInv, DashTypeOK
<1>7. lock' \in [Managers -> Threads \cup {Free}]  BY <1>1, <1>6
<1>8. lock[m] = t /\ \A n \in Managers : lock'[n] = t <=> l = n
  BY <1>1, <1>3, <1>5, <1>6
<1>9. \A n \in Managers, u \in Threads : u # t => (lock'[n] = u <=> lock[n] = u)
  BY <1>1, <1>6, <1>8
<1>10. CASE running(m)
  <2> DEFINE r == refused(t, m)
  <2>1. goOn(t, r)  BY <1>1, <1>10
  <2>2. r = IF l = Nobody THEN << >> ELSE << op("release", l) >>
    <3> DEFINE own == {n \in Managers \ {m} : lock[n] = t}
    <3>1. own = {n \in Managers : n = l}  BY <1>3, <1>5
    <3>2. CASE l = Nobody
      <4>1. own = {}  BY <3>1, <3>2, ManagersAre
      <4> QED  BY <3>2, <4>1 DEF refused
    <3>3. CASE l \in Managers
      <4>1. own = {l}  BY <3>1, <3>3
      <4>2. own # {} /\ (CHOOSE n \in own : TRUE) = l  BY <4>1
      <4> QED  BY <3>3, <4>2, ManagersAre DEF refused
    <3> QED  BY <3>2, <3>3 DEF Stage
  <2> HIDE DEF r
  <2>3. /\ r \in Seq(Op) /\ Fits(r, l, Nobody) /\ Linked(r)
        /\ r # << >> => Head(r).do = "release"
    BY <2>2, LeaveFits
  <2>4. \A n \in Training : ~(r # << >> /\ Head(r) = op("spawn", n))
    BY <2>3 DEF op
  <2>5. Nobody \in Stage  BY DEF Stage
  <2>6. Plain(r)  BY <2>3 DEF Plain
  <2>7. \A n \in Managers : lock'[n] = t <=> Has(r, l, n)  BY <1>8, <2>6, PlainHas
  <2> QED  BY <1>1, <1>4, <1>7, <1>9, <2>1, <2>3, <2>4, <2>5, <2>7, OnlyGoesOn
<1>11. CASE ~running(m)
  <2> DEFINE r == Tail(todo[t])
  <2>1. goOn(t, r)  BY <1>1, <1>11
  <2>2. k = l /\ e = d  BY <1>3 DEF Leads, op
  <2>3. d # Nobody => ~running(d)  BY <1>3 DEF Agrees
  <2>4. \A n \in Training : (r # << >> /\ Head(r) = op("spawn", n)) =>
           lock[Other(n)] = t /\ ~running(Other(n))
    BY <1>1, <1>2, <1>8, <1>11, NextSpawn
  <2>5. \A n \in Managers : lock'[n] = t <=> Has(r, l, n)
    BY <1>2, <1>3, <1>8, PlainHas
  <2> HIDE DEF r
  <2>6. r \in Seq(Op) /\ Fits(r, l, d) /\ Linked(r)  BY <1>3, <2>2 DEF r
  <2> QED  BY <1>1, <1>3, <1>4, <1>7, <1>9, <2>1, <2>3, <2>4, <2>5, <2>6, OnlyGoesOn
<1> QED  BY <1>10, <1>11

LEMMA StopIfStep ==
  ASSUME DashInv, NEW t \in Threads, NEW m \in Managers, stopIf(t, m)
  PROVE  DashInv'
<1> DEFINE r == Tail(todo[t])
           rest == (IF running(m) THEN stop(m) ELSE << >>) \o r
<1>1. /\ at(t, "stopIf", m) /\ UNCHANGED <<lock, proc, alive, unread, held>> /\ goOn(t, rest)
  BY DEF stopIf
<1>2. "stopIf" \in Operations  BY DEF Operations
<1>3. PICK l, d, k, e \in Stage :
         /\ Agrees(t, l, d) /\ Leads(op("stopIf", m), l, d, k, e) /\ r \in Seq(Op)
         /\ Fits(r, k, e) /\ Linked(r) /\ e \in {Nobody, k}
         /\ \A n \in Managers : lock[n] = t <=> (l = n \/ ("stopIf" = "refuseIf" /\ n = m))
         /\ "stopIf" # "look" => Plain(r)
  BY <1>1, <1>2, AtFits
<1>4. l = Nobody /\ k = Nobody /\ e = Nobody  BY <1>3 DEF Leads, op
<1>5. Begins(r)  BY <1>3, <1>4 DEF Begins
<1>6. Begins(rest)
  <2>1. Begins(stop(m) \o r)  BY <1>5, StopBegins
  <2>2. << >> \o r = r  BY <1>3, ConcatEmptySeq
  <2> QED  BY <1>5, <2>1, <2>2
<1> HIDE DEF rest, r
<1>7. ASSUME NEW n \in Training, rest # << >>, Head(rest) = op("spawn", n)
      PROVE  FALSE
  <2>1. PICK a, b \in Stage : Leads(op("spawn", n), Nobody, Nobody, a, b)
    BY <1>6, <1>7, FitsTail DEF Begins
  <2> QED  BY <2>1 DEF Leads, op, Training, Nobody
<1>8. Nobody \in Stage  BY DEF Stage
<1>9. held[t] = NoProc  BY <1>1, HandEmpty
<1>10. \A n \in Managers : lock'[n] = t <=> Has(rest, Nobody, n)
  BY <1>1, <1>3, <1>4, <1>6, PlainHas DEF Begins
<1>11. lock' \in [Managers -> Threads \cup {Free}]  BY <1>1 DEF DashInv, DashTypeOK
<1> QED  BY <1>1, <1>6, <1>7, <1>8, <1>9, <1>10, <1>11, OnlyGoesOn DEF Begins

LEMMA RefuseOwnStep ==
  ASSUME DashInv, NEW t \in Threads, NEW m \in Managers, refuseOwn(t, m)
  PROVE  DashInv'
<1>1. /\ at(t, "refuseOwn", m) /\ UNCHANGED <<lock, proc, alive, unread, held>>
      /\ goOn(t, IF running(m) THEN << op("release", m) >> ELSE Tail(todo[t]))
  BY DEF refuseOwn
<1>2. "refuseOwn" \in Operations /\ "refuseOwn" # "refuseIf" /\ "refuseOwn" # "look"
  BY DEF Operations
<1>3. PICK l, d, k, e \in Stage :
         /\ Agrees(t, l, d) /\ Leads(op("refuseOwn", m), l, d, k, e) /\ Tail(todo[t]) \in Seq(Op)
         /\ Fits(Tail(todo[t]), k, e) /\ Linked(Tail(todo[t]))
         /\ \A n \in Managers : lock[n] = t <=> (l = n \/ ("refuseOwn" = "refuseIf" /\ n = m))
         /\ "refuseOwn" # "look" => Plain(Tail(todo[t]))
  BY <1>1, <1>2, AtFits
<1>4. held[t] = NoProc  BY <1>1, HandEmpty
<1>5. l = m /\ k = m /\ e = m  BY <1>3 DEF Leads, op
<1>6. lock' \in [Managers -> Threads \cup {Free}]  BY <1>1 DEF DashInv, DashTypeOK
<1>7. \A n \in Managers : lock'[n] = t <=> l = n  BY <1>1, <1>2, <1>3
<1>8. CASE running(m)
  <2> DEFINE r == << op("release", m) >>
  <2>1. goOn(t, r)  BY <1>1, <1>8
  <2>2. r = IF l = Nobody THEN << >> ELSE << op("release", l) >>  BY <1>5, ManagersAre
  <2> HIDE DEF r
  <2>3. /\ r \in Seq(Op) /\ Fits(r, l, Nobody) /\ Linked(r)
        /\ r # << >> => Head(r).do = "release"
    BY <2>2, LeaveFits
  <2>4. \A n \in Training : ~(r # << >> /\ Head(r) = op("spawn", n))
    BY <2>3 DEF op
  <2>5. Nobody \in Stage  BY DEF Stage
  <2>6. Plain(r)  BY <2>3 DEF Plain
  <2>7. \A n \in Managers : lock'[n] = t <=> Has(r, l, n)  BY <1>7, <2>6, PlainHas
  <2> QED  BY <1>1, <1>4, <1>6, <2>1, <2>3, <2>4, <2>5, <2>7, OnlyGoesOn
<1>9. CASE ~running(m)
  <2> DEFINE r == Tail(todo[t])
  <2>1. goOn(t, r)  BY <1>1, <1>9
  <2>2. \A n \in Training : ~(r # << >> /\ Head(r) = op("spawn", n))
    BY <1>1, <1>2, NextSpawn
  <2>3. \A n \in Managers : lock'[n] = t <=> Has(r, l, n)
    BY <1>2, <1>3, <1>7, PlainHas
  <2> HIDE DEF r
  <2>4. r \in Seq(Op) /\ Fits(r, l, m) /\ Linked(r)  BY <1>3, <1>5 DEF r
  <2>5. m \in Stage  BY DEF Stage
  <2> QED  BY <1>1, <1>4, <1>6, <1>9, <2>1, <2>2, <2>3, <2>4, <2>5, OnlyGoesOn
<1> QED  BY <1>8, <1>9

\* The two ends of a critical section.
LEMMA LockStep ==
  ASSUME DashInv, NEW t \in Threads, NEW m \in Managers, acquire(t, m) \/ release(t, m)
  PROVE  DashInv'
<1> DEFINE what == IF acquire(t, m) THEN "acquire" ELSE "release"
<1>1. /\ at(t, what, m) /\ UNCHANGED <<proc, alive, unread, held>> /\ goOn(t, Tail(todo[t]))
      /\ what = "acquire" => lock[m] = Free /\ lock' = [lock EXCEPT ![m] = t]
      /\ what = "release" => lock' = [lock EXCEPT ![m] = Free]
  BY DEF acquire, release
<1>2. what \in Operations /\ what # "terminate" /\ what # "refuseIf" /\ what # "look"
      /\ what \in {"acquire", "release"}
  BY DEF Operations
<1> HIDE DEF what
<1>3. PICK l, d, k, e \in Stage :
         /\ Agrees(t, l, d) /\ Leads(op(what, m), l, d, k, e) /\ Tail(todo[t]) \in Seq(Op)
         /\ Fits(Tail(todo[t]), k, e) /\ Linked(Tail(todo[t]))
         /\ \A n \in Managers : lock[n] = t <=> (l = n \/ (what = "refuseIf" /\ n = m))
         /\ what # "look" => Plain(Tail(todo[t]))
  BY <1>1, <1>2, AtFits
<1>4. /\ e = Nobody
      /\ what = "acquire" => l = Nobody /\ k = m
      /\ what = "release" => l = m /\ k = Nobody
  BY <1>2, <1>3 DEF Leads, op
<1>5. lock \in [Managers -> Threads \cup {Free}]  BY DEF DashInv, DashTypeOK
<1>6. \A n \in Managers : lock[n] = t <=> l = n  BY <1>2, <1>3
<1>7. /\ todo' \in [Threads -> Seq(Op)]
      /\ todo'[t] = Tail(todo[t]) /\ \A u \in Threads : u # t => todo'[u] = todo[u]
  BY <1>1, <1>3, TodoType DEF DashInv
<1>8. DashTypeOK'
  <2>1. lock' \in [Managers -> Threads \cup {Free}]  BY <1>1, <1>2, <1>5
  <2> QED  BY <1>1, <1>7, <2>1 DEF DashInv, DashTypeOK, Op
<1>9. ThreadInv'
  <2>1. \A n \in Managers : lock'[n] = t <=> k = n
    BY <1>1, <1>2, <1>4, <1>5, <1>6, ManagersAre, DashAssumption
  <2>4. \A n \in Managers : lock'[n] = t <=> Has(Tail(todo[t]), k, n)
    BY <1>2, <1>3, <2>1, PlainHas
  <2>2. \A n \in Managers, u \in Threads : u # t => (lock'[n] = u <=> lock[n] = u)
    BY <1>1, <1>2, <1>4, <1>5, <1>6, DashAssumption
  <2>3. \A n \in Managers : ~running(n) => ~running(n)'  BY <1>1 DEF running
  <2> QED  BY <1>1, <1>3, <1>4, <2>2, <2>3, <2>4, ThreadStep
<1>10. HeldInv'
  <2>1. held[t] = NoProc  BY <1>1, <1>2, HandEmpty
  <2> QED  BY <1>1, <1>7, <2>1, HeldStep
<1>11. StartInv'
  <2>1. Quiet  BY <1>1 DEF Quiet
  <2>2. \A n \in Training : ~at(t, "spawn", n)'
    BY <1>1, <1>2, <1>7, NextSpawn DEF at, busy
  <2> QED  BY <1>7, <2>1, <2>2, StartStep
<1>12. ProcInv'  BY <1>1 DEF DashInv, ProcInv
<1> QED  BY <1>8, <1>9, <1>10, <1>11, <1>12 DEF DashInv

\* The child a spawn makes is new, and one of m.
LEMMA SpareProc ==
  ASSUME NEW m \in Managers, NEW p \in spare(m)
  PROVE  p \in {m} \X Handles /\ p \in Procs /\ p[1] = m /\ p \notin alive
BY DEF spare, Procs

LEMMA SpawnStep ==
  ASSUME DashInv, NEW t \in Threads, NEW m \in Managers, spawn(t, m)
  PROVE  DashInv'
<1> DEFINE p == CHOOSE q \in spare(m) : TRUE
<1>1. /\ at(t, "spawn", m) /\ UNCHANGED <<lock, held>> /\ goOn(t, Tail(todo[t]))
      /\ p \in spare(m)
      /\ proc' = [proc EXCEPT ![m] = p] /\ alive' = alive \cup {p}
      /\ unread' \in {unread, unread \cup {p}}
  BY DEF spawn
<1> HIDE DEF p
<1>2. "spawn" \in Operations /\ "spawn" # "refuseIf" /\ "spawn" # "look"  BY DEF Operations
<1>3. PICK l, d, k, e \in Stage :
         /\ Agrees(t, l, d) /\ Leads(op("spawn", m), l, d, k, e) /\ Tail(todo[t]) \in Seq(Op)
         /\ Fits(Tail(todo[t]), k, e) /\ Linked(Tail(todo[t]))
         /\ \A n \in Managers : lock[n] = t <=> (l = n \/ ("spawn" = "refuseIf" /\ n = m))
         /\ "spawn" # "look" => Plain(Tail(todo[t]))
  BY <1>1, <1>2, AtFits
<1>4. l = m /\ k = m /\ e = Nobody  BY <1>3 DEF Leads, op
<1>5. p \in {m} \X Handles /\ p \in Procs /\ p[1] = m /\ p \notin alive  BY <1>1, SpareProc
<1>6. /\ proc \in [Managers -> Procs \cup {NoProc}]
      /\ \A n \in Managers : proc[n] \in ({n} \X Handles) \cup {NoProc}
  BY DEF DashInv, DashTypeOK, ProcInv
<1>7. /\ todo' \in [Threads -> Seq(Op)]
      /\ todo'[t] = Tail(todo[t]) /\ \A u \in Threads : u # t => todo'[u] = todo[u]
  BY <1>1, <1>3, TodoType DEF DashInv
<1>8. DashTypeOK'
  <2>1. proc' \in [Managers -> Procs \cup {NoProc}]  BY <1>1, <1>5, <1>6
  <2>2. alive' \subseteq Procs /\ unread' \subseteq Procs
    BY <1>1, <1>5 DEF DashInv, DashTypeOK
  <2> QED  BY <1>1, <1>7, <2>1, <2>2 DEF DashInv, DashTypeOK, Op
<1>9. ProcInv'
  BY <1>1, <1>5, <1>6 DEF ProcInv
<1>10. \A n \in Managers : n # m /\ ~running(n) => ~running(n)'
  <2> SUFFICES ASSUME NEW n \in Managers, n # m, proc[n] \notin alive
               PROVE  proc'[n] \notin alive'
    BY DEF running
  <2>1. proc'[n] = proc[n]  BY <1>1, <1>6
  <2>2. proc[n] # p
    <3>1. proc[n] # NoProc => proc[n][1] = n  BY <1>6
    <3> QED  BY <1>5, <3>1, DashAssumption
  <2> QED  BY <1>1, <2>1, <2>2
<1>11. \A n \in Managers : lock[n] = t <=> n = m  BY <1>2, <1>3, <1>4
<1>12. ThreadInv'
  <2>1. \A n \in Managers, u \in Threads :
           (u # t /\ lock[n] = u /\ ~running(n)) => ~running(n)'
    BY <1>10, <1>11
  <2>2. \A n \in Managers : lock'[n] = t <=> Has(Tail(todo[t]), k, n)
    BY <1>1, <1>2, <1>3, <1>4, <1>11, PlainHas
  <2>3. \A n \in Managers, u \in Threads : u # t => (lock'[n] = u <=> lock[n] = u)
    BY <1>1
  <2> QED  BY <1>1, <1>3, <1>4, <2>1, <2>2, <2>3, ThreadStep
<1>13. HeldInv'
  <2>1. held[t] = NoProc  BY <1>1, HandEmpty
  <2> QED  BY <1>1, <1>7, <2>1, HeldStep
<1>14. StartInv'
  <2>1. ASSUME NEW u \in Threads, NEW n \in Training, at(u, "spawn", n)'
        PROVE  ~running(Other(n))' /\ \A v \in Threads : ~at(v, "spawn", Other(n))'
    <3>1. Other(n) \in Training /\ n \in Managers /\ Other(n) \in Managers
      BY DEF Other, Training, Managers
    <3>2. \A j \in Training : ~at(t, "spawn", j)'
      BY <1>1, <1>2, <1>7, NextSpawn DEF at, busy
    <3>3. u # t /\ at(u, "spawn", n)  BY <1>7, <2>1, <3>2 DEF at, busy
    <3>4. ~running(Other(n)) /\ \A v \in Threads : ~at(v, "spawn", Other(n))
      BY <3>3 DEF DashInv, StartInv
    <3>5. Other(n) # m  BY <1>1, <3>4
    <3>6. ~running(Other(n))'  BY <1>10, <3>1, <3>4, <3>5
    <3>7. ASSUME NEW v \in Threads, at(v, "spawn", Other(n))'
          PROVE  FALSE
      <4>1. v # t  BY <3>1, <3>2, <3>7
      <4>2. at(v, "spawn", Other(n))  BY <1>7, <3>7, <4>1 DEF at, busy
      <4> QED  BY <3>4, <4>2
    <3> QED  BY <3>6, <3>7
  <2> QED  BY <2>1 DEF StartInv
<1> QED  BY <1>8, <1>9, <1>12, <1>13, <1>14 DEF DashInv

LEMMA FreeNoSpawn ==
  ASSUME NEW s \in Seq(Op), s # << >>, NEW d, Fits(s, Nobody, d)
  PROVE  Head(s).do # "spawn"
<1>1. PICK k, e \in Stage : Leads(Head(s), Nobody, d, k, e)  BY FitsTail
<1>2. Head(s) \in Op  BY HeadTailProperties
<1> QED  BY <1>1, <1>2, ManagersAre DEF Leads, Op

\* What is left behind a stop() that has nothing to do.
LEMMA SkipStop ==
  ASSUME DashInv, NEW t \in Threads, NEW m \in Managers, at(t, "take", m)
  PROVE  /\ \A n \in Managers : lock[n] # t
         /\ Begins(Tail(todo[t])) /\ Begins(SubSeq(todo[t], 4, Len(todo[t])))
         /\ Tail(todo[t]) # << >> /\ Head(Tail(todo[t])) = op("terminate", m)
<1> DEFINE s == todo[t]
           r == SubSeq(s, 4, Len(s))
           a == Tail(s)
           b == Tail(a)
           c == Tail(b)
<1>1. s \in Seq(Op) /\ Linked(s)  BY DEF DashInv, DashTypeOK, ThreadInv, Op
<1>2. s # << >> /\ Head(s) = op("take", m)  BY DEF at, busy
<1>3. "take" \in Operations  BY DEF Operations
<1>4. PICK l, d, k, e \in Stage :
         /\ Agrees(t, l, d) /\ d \in {Nobody, l} /\ e \in {Nobody, k}
         /\ Leads(op("take", m), l, d, k, e) /\ Fits(a, k, e)
         /\ \A n \in Managers : lock[n] = t <=> (l = n \/ ("take" = "refuseIf" /\ n = m))
         /\ "take" # "look" => Plain(a)
  BY <1>3, AtFits
<1>5. l = Nobody /\ d = Nobody /\ k = Nobody /\ e = Nobody  BY <1>4 DEF Leads, op
<1>11. (\A n \in Managers : lock[n] # t) /\ Plain(a)  BY <1>4, <1>5, ManagersAre
<1> HIDE DEF s
<1>6. /\ Len(s) \in Nat /\ Len(s) >= 3 /\ s[2] = op("terminate", m) /\ s[3] = op("log", m)
  <2>1. Len(s) \in Nat /\ Len(s) # 0 /\ Head(s) = s[1]
    BY <1>1, <1>2, EmptySeq, LenProperties, HeadTailProperties
  <2>2. 1 \in 1 .. Len(s)  BY <2>1, SMT
  <2>3. s[1].do = "take" /\ s[1].on = m  BY <1>2, <2>1 DEF op
  <2>4. 1 + 2 <= Len(s) /\ s[1 + 1] = op("terminate", m) /\ s[1 + 2] = op("log", m)
    BY <1>1, <2>2, <2>3 DEF Linked, LinkedAt
  <2> QED  BY <2>1, <2>4, SMT
<1>7. /\ a \in Seq(Op) /\ Len(a) = Len(s) - 1 /\ a # << >> /\ Linked(a)
      /\ \A i \in 1 .. Len(s) - 1 : a[i] = s[i + 1]
      /\ Head(a) = op("terminate", m)
  <2>1. a \in Seq(Op) /\ Len(a) = Len(s) - 1 /\ \A i \in 1 .. Len(s) - 1 : a[i] = s[i + 1]
    BY <1>1, <1>2, <1>6, HeadTailProperties, SMT
  <2>2. a # << >>
    <3>1. Len(a) # 0  BY <1>6, <2>1, SMT
    <3> QED  BY <2>1, <3>1, EmptySeq
  <2>3. Head(a) = a[1] /\ a[1] = s[1 + 1]  BY <1>6, <2>1, <2>2, HeadTailProperties, SMT
  <2> QED  BY <1>1, <1>2, <1>6, <2>1, <2>2, <2>3, LinkedTail, SMT
<1> HIDE DEF a
<1>8. /\ b \in Seq(Op) /\ Len(b) = Len(s) - 2 /\ b # << >> /\ Linked(b)
      /\ \A i \in 1 .. Len(s) - 2 : b[i] = s[i + 2]
      /\ Head(b) = op("log", m) /\ Fits(b, Nobody, Nobody)
  <2>1. b \in Seq(Op) /\ Len(b) = Len(s) - 2 /\ \A i \in 1 .. Len(s) - 2 : b[i] = s[i + 2]
    BY <1>6, <1>7, HeadTailProperties, SMT
  <2>2. b # << >>
    <3>1. Len(b) # 0  BY <1>6, <2>1, SMT
    <3> QED  BY <2>1, <3>1, EmptySeq
  <2>3. Head(b) = s[3]
    <3>1. Head(b) = b[1]  BY <2>1, <2>2, HeadTailProperties
    <3>2. 1 \in 1 .. Len(s) - 2  BY <1>6, SMT
    <3>3. b[1] = s[1 + 2]  BY <2>1, <3>2
    <3>4. 1 + 2 = 3  OBVIOUS
    <3> QED  BY <3>1, <3>3, <3>4, Zenon
  <2>4. PICK x, y \in Stage : Leads(op("terminate", m), Nobody, Nobody, x, y) /\ Fits(b, x, y)
    BY <1>4, <1>5, <1>7, FitsTail
  <2>5. x = Nobody /\ y = Nobody  BY <2>4 DEF Leads, op
  <2> QED  BY <1>6, <1>7, <2>1, <2>2, <2>3, <2>4, <2>5, LinkedTail
<1> HIDE DEF b
<1>9. /\ c \in Seq(Op) /\ Len(c) = Len(s) - 3 /\ Linked(c)
      /\ \A i \in 1 .. Len(s) - 3 : c[i] = s[i + 3]
      /\ Fits(c, Nobody, Nobody) /\ Plain(c)
  <2>1. c \in Seq(Op) /\ Len(c) = Len(s) - 3 /\ \A i \in 1 .. Len(s) - 3 : c[i] = s[i + 3]
    BY <1>6, <1>8, HeadTailProperties, SMT
  <2>2. PICK x, y \in Stage : Leads(op("log", m), Nobody, Nobody, x, y) /\ Fits(c, x, y)
    BY <1>8, FitsTail
  <2>3. x = Nobody /\ y = Nobody  BY <2>2 DEF Leads, op
  <2>4. Plain(c)  BY <1>8, PlainTail DEF op
  <2> QED  BY <1>8, <2>1, <2>2, <2>3, <2>4, LinkedTail
<1> HIDE DEF c
<1>10. r = c
  <2>1. /\ Len(r) = Len(s) - 3 /\ r \in Seq(Op)
        /\ \A i \in 1 .. Len(s) - 3 : r[i] = s[i + 3]
    <3>1. \A i \in 4 .. Len(s) : s[i] \in Op  BY <1>1, <1>6, SMT
    <3>2. /\ r \in Seq(Op) /\ Len(r) = (IF 4 <= Len(s) THEN Len(s) - 4 + 1 ELSE 0)
          /\ \A i \in 1 .. Len(s) - 4 + 1 : r[i] = s[4 + i - 1]
      BY <1>6, <3>1, SubSeqProperties, SMT
    <3> HIDE DEF r
    <3>3. Len(r) = Len(s) - 3
      <4>1. CASE 4 <= Len(s)
        <5>1. Len(s) - 4 + 1 = Len(s) - 3  BY <1>6, SMT
        <5> QED  BY <3>2, <4>1, <5>1, Zenon
      <4>2. CASE ~(4 <= Len(s))
        <5>1. \A n \in Nat : n >= 3 /\ ~(4 <= n) => n - 3 = 0  BY SMT
        <5>2. Len(s) - 3 = 0  BY <1>6, <4>2, <5>1, Zenon
        <5> QED  BY <3>2, <4>2, <5>2, Zenon
      <4> QED  BY <4>1, <4>2
    <3>4. \A i \in 1 .. Len(s) - 3 : r[i] = s[i + 3]
      <4> TAKE i \in 1 .. Len(s) - 3
      <4>1. i \in 1 .. Len(s) - 4 + 1 /\ 4 + i - 1 = i + 3  BY <1>6, SMT
      <4> QED  BY <3>2, <4>1
    <3> QED  BY <3>2, <3>3, <3>4
  <2> QED  BY <1>9, <2>1, SeqEqual
<1> QED  BY <1>4, <1>5, <1>7, <1>9, <1>10, <1>11 DEF Begins, s, a

\* A step of t after which it may go on with `rest` and needs no lock, as before.
LEMMA StopStep ==
  ASSUME DashInv, NEW t \in Threads, UNCHANGED lock, Quiet, DashTypeOK', ProcInv', HeldInv',
         \A m \in Managers : lock[m] # t, NEW rest, goOn(t, rest), Begins(rest)
  PROVE  DashInv'
<1>1. /\ todo' \in [Threads -> Seq(Op)]
      /\ todo'[t] = rest /\ \A u \in Threads : u # t => todo'[u] = todo[u]
  BY TodoType DEF DashInv, Begins
<1>2. ThreadInv'
  <2>1. \A m \in Managers : lock'[m] = t <=> Has(rest, Nobody, m)
    BY PlainHas, ManagersAre DEF Begins
  <2>2. \A m \in Managers : ~running(m) => ~running(m)'  BY QuietIdle DEF DashInv
  <2>3. Nobody \in Stage  BY DEF Stage
  <2> QED  BY <2>1, <2>2, <2>3, ThreadStep DEF Begins
<1>3. StartInv'
  <2>1. \A m \in Training : ~at(t, "spawn", m)'
    BY <1>1, FreeNoSpawn DEF at, busy, op, Begins
  <2> QED  BY <1>1, <2>1, StartStep
<1> QED  BY <1>2, <1>3 DEF DashInv

LEMMA TakeStep ==
  ASSUME DashInv, NEW t \in Threads, NEW m \in Managers, take(t, m)
  PROVE  DashInv'
<1> DEFINE nothing == \/ proc[m] = NoProc /\ m \in {"launch", "acceptance", "rl"}
                      \/ ~running(m) /\ m = "rl"
           rest == IF nothing THEN SubSeq(todo[t], 4, Len(todo[t])) ELSE Tail(todo[t])
<1>1. /\ at(t, "take", m) /\ UNCHANGED <<lock, alive, unread>> /\ goOn(t, rest)
      /\ held' = [held EXCEPT ![t] = IF nothing THEN NoProc ELSE proc[m]]
      /\ proc' = [proc EXCEPT ![m] = NoProc]
  BY DEF take
<1>2. /\ \A n \in Managers : lock[n] # t
      /\ Begins(rest)
      /\ ~nothing => rest # << >> /\ Head(rest) = op("terminate", m)
  BY <1>1, SkipStop
<1> HIDE DEF rest, nothing
<1>3. /\ todo' \in [Threads -> Seq(Op)]
      /\ todo'[t] = rest /\ \A u \in Threads : u # t => todo'[u] = todo[u]
  BY <1>1, <1>2, TodoType DEF DashInv, Begins
<1>4. /\ proc \in [Managers -> Procs \cup {NoProc}] /\ held \in [Threads -> Procs \cup {NoProc}]
  BY DEF DashInv, DashTypeOK
<1>5. DashTypeOK'
  <2>1. /\ proc' \in [Managers -> Procs \cup {NoProc}]
        /\ held' \in [Threads -> Procs \cup {NoProc}]
    BY <1>1, <1>4
  <2> QED  BY <1>1, <1>3, <2>1 DEF DashInv, DashTypeOK, Op
<1>6. ProcInv'  BY <1>1, <1>4 DEF DashInv, ProcInv
<1>7. HeldInv'
  <2>1. held'[t] # NoProc => ~nothing  BY <1>1, <1>4
  <2>2. op("terminate", m).do = "terminate"  BY DEF op
  <2>3. \A u \in Threads : u # t => held'[u] = held[u]  BY <1>1, <1>4
  <2> QED  BY <1>2, <1>3, <2>1, <2>2, <2>3, HeldStep
<1>8. Quiet  BY <1>1, <1>4 DEF Quiet
<1> QED  BY <1>1, <1>2, <1>5, <1>6, <1>7, <1>8, StopStep

LEMMA TerminateStep ==
  ASSUME DashInv, NEW t \in Threads, NEW m \in Managers, terminate(t, m)
  PROVE  DashInv'
<1> DEFINE r == Tail(todo[t])
<1>1. /\ at(t, "terminate", m) /\ UNCHANGED <<lock, proc, unread>> /\ goOn(t, r)
      /\ held' = [held EXCEPT ![t] = NoProc] /\ alive' \subseteq alive
  BY DEF terminate
<1>2. "terminate" \in Operations  BY DEF Operations
<1>3. PICK l, d, k, e \in Stage :
         /\ Agrees(t, l, d) /\ Leads(op("terminate", m), l, d, k, e) /\ r \in Seq(Op)
         /\ Fits(r, k, e) /\ Linked(r) /\ d \in {Nobody, l}
         /\ \A n \in Managers : lock[n] = t <=> (l = n \/ ("terminate" = "refuseIf" /\ n = m))
         /\ "terminate" # "look" => Plain(r)
  BY <1>1, <1>2, AtFits
<1>4. l = Nobody /\ d = Nobody /\ k = Nobody /\ e = Nobody  BY <1>3 DEF Leads, op
<1>11. \A n \in Managers : lock[n] # t  BY <1>3, <1>4, ManagersAre
<1> HIDE DEF r
<1>5. /\ todo' \in [Threads -> Seq(Op)]
      /\ todo'[t] = r /\ \A u \in Threads : u # t => todo'[u] = todo[u]
  BY <1>1, <1>3, TodoType DEF DashInv
<1>6. held \in [Threads -> Procs \cup {NoProc}]  BY DEF DashInv, DashTypeOK
<1>7. DashTypeOK'
  <2>1. held' \in [Threads -> Procs \cup {NoProc}]  BY <1>1, <1>6
  <2> QED  BY <1>1, <1>5, <2>1 DEF DashInv, DashTypeOK, Op
<1>8. ProcInv'  BY <1>1 DEF DashInv, ProcInv
<1>9. HeldInv'
  <2>1. held'[t] = NoProc /\ \A u \in Threads : u # t => held'[u] = held[u]  BY <1>1, <1>6
  <2> QED  BY <1>5, <2>1, HeldStep
<1>10. Quiet  BY <1>1 DEF Quiet
<1> QED  BY <1>1, <1>3, <1>4, <1>7, <1>8, <1>9, <1>10, <1>11, StopStep DEF Begins

LEMMA AcceptStep ==
  ASSUME DashInv, NEW t \in Threads, Accept(t)
  PROVE  DashInv'
<1>1. PICK r \in Requests[t] : goOn(t, program(r))  BY DEF Accept, goOn
<1>2. todo[t] = << >> /\ UNCHANGED <<lock, proc, alive, unread, held>>  BY DEF Accept, busy
<1>3. Begins(program(r))
  <2>1. r \in Kinds  BY DashAssumption
  <2> QED  BY <2>1, ProgramBegins
<1>4. \A m \in Managers : lock[m] # t
  <2>1. PICK l \in Stage, d \in Stage : Agrees(t, l, d)  BY DEF DashInv, ThreadInv
  <2>2. todo[t] \in Seq(Op)  BY DEF DashInv, DashTypeOK, Op
  <2>3. d \in {Nobody, l} /\ (todo[t] = << >> => l = Nobody)  BY <2>1, <2>2, FitsEnds DEF Agrees
  <2>4. l = Nobody  BY <1>2, <2>3
  <2> QED  BY <1>2, <2>1, <2>4, ManagersAre DEF Agrees, Has
<1>5. /\ todo' \in [Threads -> Seq(Op)]
      /\ \A u \in Threads : u # t => todo'[u] = todo[u]
  BY <1>1, <1>3, TodoType DEF DashInv, Begins
<1>6. DashTypeOK'  BY <1>2, <1>5 DEF DashInv, DashTypeOK, Op
<1>7. ProcInv'  BY <1>2 DEF DashInv, ProcInv
<1>8. HeldInv'
  <2>1. held[t] = NoProc  BY <1>2 DEF DashInv, HeldInv, busy
  <2> QED  BY <1>2, <1>5, <2>1, HeldStep
<1>9. Quiet  BY <1>2 DEF Quiet
<1> QED  BY <1>1, <1>2, <1>3, <1>4, <1>6, <1>7, <1>8, <1>9, StopStep

\* A process that ends, or whose reader sees its end, disturbs no request.
LEMMA EndStep ==
  ASSUME DashInv, NEW p \in Procs, exit(p) \/ reader(p)
  PROVE  DashInv'
<1>1. /\ UNCHANGED <<lock, todo, held>> /\ alive' \subseteq alive /\ unread' \subseteq unread
      /\ proc' = proc \/ proc' = [proc EXCEPT ![p[1]] = NoProc]
  BY DEF exit, reader
<1>2. proc \in [Managers -> Procs \cup {NoProc}] /\ p[1] \in Managers
  BY DEF DashInv, DashTypeOK, Procs
<1>3. Quiet  BY <1>1, <1>2 DEF Quiet
<1>4. \A m \in Managers : ~running(m) => ~running(m)'  BY <1>3, QuietIdle DEF DashInv
<1>5. DashTypeOK'
  <2>1. proc' \in [Managers -> Procs \cup {NoProc}]  BY <1>1, <1>2
  <2> QED  BY <1>1, <2>1 DEF DashInv, DashTypeOK
<1>6. ProcInv'  BY <1>1, <1>2 DEF DashInv, ProcInv
<1>7. ThreadInv'
  <2> SUFFICES ASSUME NEW t \in Threads
               PROVE  Linked(todo'[t]) /\ \E l, d \in Stage : Agrees(t, l, d)'
    BY DEF ThreadInv
  <2>1. PICK l \in Stage, d \in Stage : Agrees(t, l, d)  BY DEF DashInv, ThreadInv
  <2>2. Linked(todo'[t])  BY <1>1 DEF DashInv, ThreadInv
  <2>3. Fits(todo'[t], l, d)  BY <1>1, <2>1 DEF Agrees
  <2>4. \A m \in Managers : lock'[m] = t <=> Has(todo'[t], l, m)  BY <1>1, <2>1 DEF Agrees
  <2>5. d # Nobody => ~running(d)'  BY <1>4, <2>1 DEF Agrees, Stage
  <2> QED  BY <2>2, <2>3, <2>4, <2>5 DEF Agrees
<1>8. HeldInv'  BY <1>1 DEF DashInv, HeldInv, busy
<1>9. StartInv'
  <2> SUFFICES ASSUME NEW t \in Threads, NEW m \in Training, at(t, "spawn", m)'
               PROVE  ~running(Other(m))' /\ \A u \in Threads : ~at(u, "spawn", Other(m))'
    BY DEF StartInv
  <2>1. at(t, "spawn", m)  BY <1>1 DEF at, busy
  <2>2. ~running(Other(m)) /\ \A u \in Threads : ~at(u, "spawn", Other(m))
    BY <2>1 DEF DashInv, StartInv
  <2>3. Other(m) \in Managers  BY DEF Other, Managers
  <2> QED  BY <1>1, <1>4, <2>2, <2>3 DEF at, busy
<1> QED  BY <1>5, <1>6, <1>7, <1>8, <1>9 DEF DashInv

-----------------------------------------------------------------------------
(* The theorems.                                                           *)

LEMMA DashInvInit == Init => DashInv
<1> SUFFICES ASSUME Init PROVE DashInv  OBVIOUS
<1>1. << >> \in Seq(Op)  OBVIOUS
<1>2. DashTypeOK  BY <1>1 DEF Init, DashTypeOK, Op
<1>3. ProcInv  BY DEF Init, ProcInv
<1>4. ThreadInv
  <2> SUFFICES ASSUME NEW t \in Threads
               PROVE  Linked(todo[t]) /\ Agrees(t, Nobody, Nobody) /\ Nobody \in Stage
    BY DEF ThreadInv
  <2>1. todo[t] = << >>  BY DEF Init
  <2>2. \A m \in Managers : lock[m] = Free  BY DEF Init
  <2>3. Linked(<< >>) /\ Fits(<< >>, Nobody, Nobody)  BY NothingBegins DEF Begins
  <2>4. \A m \in Managers : lock[m] = t <=> Has(todo[t], Nobody, m)
    BY <2>1, <2>2, DashAssumption, ManagersAre DEF Has
  <2> QED  BY <2>1, <2>3, <2>4 DEF Agrees, Stage
<1>5. HeldInv  BY DEF Init, HeldInv
<1>6. StartInv  BY DEF Init, StartInv, at, busy
<1> QED  BY <1>2, <1>3, <1>4, <1>5, <1>6 DEF DashInv

LEMMA DashInvStep == DashInv /\ [Next]_vars => DashInv'
<1> SUFFICES ASSUME DashInv, [Next]_vars PROVE DashInv'  OBVIOUS
<1>1. ASSUME NEW t \in Threads, Accept(t) PROVE DashInv'  BY <1>1, AcceptStep
<1>2. ASSUME NEW t \in Threads, step(t) PROVE DashInv'
  <2>1. PICK m \in Managers :
           \/ log(t, m) \/ look(t, m) \/ refuseIf(t, m) \/ stopIf(t, m) \/ acquire(t, m)
           \/ release(t, m) \/ refuseOwn(t, m) \/ spawn(t, m) \/ take(t, m) \/ terminate(t, m)
    BY <1>2 DEF step
  <2> QED
    BY <2>1, LogStep, LookStep, RefuseIfStep, StopIfStep, LockStep, RefuseOwnStep, SpawnStep, TakeStep,
       TerminateStep
<1>3. ASSUME NEW p \in Procs, exit(p) \/ reader(p) PROVE DashInv'  BY <1>3, EndStep
<1>4. CASE UNCHANGED vars
  <2>1. DashTypeOK' /\ ProcInv'  BY <1>4 DEF vars, DashInv, DashTypeOK, ProcInv
  <2>2. ThreadInv'
    <3> SUFFICES ASSUME NEW t \in Threads
                 PROVE  Linked(todo'[t]) /\ \E l, d \in Stage : Agrees(t, l, d)'
      BY DEF ThreadInv
    <3>1. PICK l \in Stage, d \in Stage : Agrees(t, l, d)  BY DEF DashInv, ThreadInv
    <3>2. Linked(todo'[t])  BY <1>4 DEF vars, DashInv, ThreadInv
    <3>3. Fits(todo'[t], l, d)  BY <1>4, <3>1 DEF vars, Agrees
    <3>4. \A m \in Managers : lock'[m] = t <=> Has(todo'[t], l, m)
      BY <1>4, <3>1 DEF vars, Agrees
    <3>5. d # Nobody => ~running(d)'  BY <1>4, <3>1 DEF vars, Agrees, running
    <3> QED  BY <3>2, <3>3, <3>4, <3>5 DEF Agrees
  <2>3. HeldInv' /\ StartInv'
    BY <1>4 DEF vars, DashInv, HeldInv, StartInv, at, busy, running
  <2> QED  BY <2>1, <2>2, <2>3 DEF DashInv
<1> QED  BY <1>1, <1>2, <1>3, <1>4 DEF Next

LEMMA DashInvHolds == Spec => []DashInv
<1> QED  BY DashInvInit, DashInvStep, PTL DEF Spec

\* A thread that waits with the lock of m in hand is a Path G or Path H start that
\* looks at the other one, or the one that opens the monitor.
LEMMA HolderWaits ==
  ASSUME DashInv, NEW u \in Threads, NEW m \in Managers, lock[m] = u,
         NEW n \in Managers, waits(u, n)
  PROVE  \/ m = "sac" /\ n = "sac" /\ at(u, "log", "sac")
         \/ m \in Training /\ n = Other(m) /\ at(u, "look", Other(m))
<1> DEFINE what == Head(todo[u]).do
<1>1. busy(u) /\ what \in Locking /\ Head(todo[u]).on = n  BY DEF waits
<1>2. todo[u] \in Seq(Op)  BY DEF DashInv, DashTypeOK, Op
<1>3. Head(todo[u]) \in Op  BY <1>1, <1>2, HeadTailProperties DEF busy
<1>4. what \in Operations /\ at(u, what, n)  BY <1>1, <1>3 DEF Op, at, op
<1>5. what # "refuseIf"  BY <1>1 DEF Locking
<1>6. Head(todo[u]) = op(what, n)  BY <1>4 DEF at
<1> HIDE DEF what
<1>7. PICK l, d, k, e \in Stage :
         /\ Leads(op(what, n), l, d, k, e)
         /\ \A j \in Managers : lock[j] = u <=> (l = j \/ (what = "refuseIf" /\ j = n))
  BY <1>4, AtFits
<1>8. l = m /\ m # Nobody  BY <1>5, <1>7, ManagersAre
<1>9. /\ what \in {"take", "log", "stopIf", "look", "acquire"}
      /\ op(what, n).do = what /\ op(what, n).on = n
  BY <1>1 DEF Locking, op
<1>10. CASE what = "log"  BY <1>4, <1>7, <1>8, <1>9, <1>10 DEF Leads
<1>11. CASE what = "look"  BY <1>4, <1>7, <1>8, <1>9, <1>11 DEF Leads
<1>12. CASE what \in {"take", "stopIf", "acquire"}  BY <1>7, <1>8, <1>9, <1>12 DEF Leads
<1> QED  BY <1>9, <1>10, <1>11, <1>12

\* Locks are waited for in a circle only by the two training starts and by the start
\* that opens the monitor, and nobody else's lock is lost then: whichever managers'
\* is_running() a request calls with a lock in hand, no other deadlock comes of it.
THEOREM OnlyTrainingsBlockHolds == Spec => []OnlyTrainingsBlock
<1>1. DashInv => OnlyTrainingsBlock
  <2> SUFFICES ASSUME DashInv, NEW t \in Threads, NEW m \in Managers, waits(t, m),
                      waiting(lock[m]),
                      \A n \in Managers : waits(lock[m], n) => waiting(lock[n])
               PROVE  m \in Training /\ (Embrace \/ MonitorLogs)
    BY DEF OnlyTrainingsBlock, Training
  <2> DEFINE u == lock[m]
  <2>1. \A n \in Managers : lock[n] # Free => lock[n] \in Threads
    BY DEF DashInv, DashTypeOK
  <2>2. u \in Threads  BY <2>1 DEF waits
  <2>3. PICK n \in Managers : waits(u, n)  BY DEF waiting
  <2> DEFINE w == lock[n]
  <2>4. w \in Threads /\ waiting(w)  BY <2>1, <2>3 DEF waits
  <2>5. PICK j \in Managers : waits(w, j)  BY <2>4 DEF waiting
  <2>6. \/ m = "sac" /\ n = "sac" /\ at(u, "log", "sac")
        \/ m \in Training /\ n = Other(m) /\ at(u, "look", Other(m))
    BY <2>2, <2>3, HolderWaits
  <2>7. \/ n = "sac" /\ j = "sac" /\ at(w, "log", "sac")
        \/ n \in Training /\ j = Other(n) /\ at(w, "look", Other(n))
    BY <2>4, <2>5, HolderWaits
  <2>8. CASE m = "sac" /\ n = "sac" /\ at(u, "log", "sac")
    BY <2>2, <2>8 DEF MonitorLogs, Training
  <2>9. CASE m \in Training /\ n = Other(m) /\ at(u, "look", Other(m))
    <3>1. CASE n = "sac" /\ at(w, "log", "sac")  BY <2>4, <2>9, <3>1 DEF MonitorLogs
    <3>2. CASE at(w, "look", Other(n))
      <4>1. Other(n) = m /\ m \in {"rl", "sac"} /\ Other("rl") = "sac" /\ Other("sac") = "rl"
        BY <2>9 DEF Training, Other
      <4>2. CASE m = "rl"
        <5>1. lock["rl"] = u /\ at(u, "look", "sac") /\ lock["sac"] = w /\ at(w, "look", "rl")
          BY <2>9, <3>2, <4>1, <4>2
        <5> QED  BY <2>2, <2>4, <2>9, <5>1 DEF Embrace
      <4>3. CASE m = "sac"
        <5>1. lock["sac"] = u /\ at(u, "look", "rl") /\ lock["rl"] = w /\ at(w, "look", "sac")
          BY <2>9, <3>2, <4>1, <4>3
        <5> QED  BY <2>2, <2>4, <2>9, <5>1 DEF Embrace
      <4> QED  BY <4>1, <4>2, <4>3
    <3> QED  BY <2>7, <3>1, <3>2
  <2> QED  BY <2>6, <2>8, <2>9
<1> QED  BY <1>1, DashInvHolds, PTL

\* Path G and Path H are never both started and still tracked: each start() looks at
\* the other manager with its own lock held, so of two starts at once one sees the
\* other or both wait.
THEOREM OneTrainingHolds == Spec => []OneTraining
<1>1. Init => OneTraining  BY DEF Init, OneTraining, running
<1>2. DashInv /\ OneTraining /\ [Next]_vars => OneTraining'
  <2> SUFFICES ASSUME DashInv, OneTraining, [Next]_vars PROVE OneTraining'  OBVIOUS
  <2>1. Quiet => OneTraining'
    BY QuietIdle, ManagersAre DEF DashInv, OneTraining
  <2>2. ASSUME NEW t \in Threads, NEW m \in Managers, spawn(t, m) PROVE OneTraining'
    <3> DEFINE p == CHOOSE q \in spare(m) : TRUE
    <3>1. /\ at(t, "spawn", m) /\ p \in spare(m)
          /\ proc' = [proc EXCEPT ![m] = p] /\ alive' = alive \cup {p}
      BY <2>2 DEF spawn
    <3> HIDE DEF p
    <3>2. p[1] = m /\ p \in Procs  BY <3>1, SpareProc
    <3>3. ASSUME NEW n \in Managers, n # m, ~running(n) PROVE ~running(n)'
      <4>1. proc'[n] = proc[n]  BY <3>1, <3>3 DEF DashInv, DashTypeOK
      <4>2. proc[n] # p
        <5>1. proc[n] # NoProc => proc[n][1] = n  BY DEF DashInv, ProcInv
        <5> QED  BY <3>2, <3>3, <5>1, DashAssumption
      <4> QED  BY <3>1, <3>3, <4>1, <4>2 DEF running
    <3>4. m \in Training => ~running(Other(m))  BY <3>1 DEF DashInv, StartInv
    <3>5. CASE m \in Training
      <4>1. Other(m) \in Managers /\ Other(m) # m /\ {m, Other(m)} = {"rl", "sac"}
        BY <3>5 DEF Training, Other, Managers
      <4>2. ~running(Other(m))'  BY <3>3, <3>4, <3>5, <4>1
      <4> QED  BY <4>1, <4>2 DEF OneTraining
    <3>6. CASE m \notin Training
      <4>1. m # "rl" /\ m # "sac"  BY <3>6 DEF Training
      <4> QED  BY <3>3, <4>1, ManagersAre DEF OneTraining
    <3> QED  BY <3>5, <3>6
  <2>3. Quiet \/ \E t \in Threads, m \in Managers : spawn(t, m)
    <3>1. ASSUME NEW p \in Procs, reader(p) PROVE Quiet
      <4>1. alive' = alive /\ (proc' = proc \/ proc' = [proc EXCEPT ![p[1]] = NoProc])
        BY <3>1 DEF reader
      <4> QED  BY <4>1 DEF Quiet, DashInv, DashTypeOK
    <3>2. ASSUME NEW t \in Threads, NEW m \in Managers, take(t, m) PROVE Quiet
      BY <3>2 DEF take, Quiet, DashInv, DashTypeOK
    <3>3. ASSUME NEW t \in Threads, NEW m \in Managers,
                 \/ log(t, m) \/ look(t, m) \/ refuseIf(t, m) \/ stopIf(t, m) \/ acquire(t, m)
                 \/ release(t, m) \/ refuseOwn(t, m) \/ terminate(t, m)
          PROVE  Quiet
      BY <3>3 DEF log, look, refuseIf, stopIf, acquire, release, refuseOwn, terminate, Quiet
    <3>4. ASSUME \/ \E t \in Threads : Accept(t)
                 \/ \E p \in Procs : exit(p)
                 \/ UNCHANGED vars
          PROVE  Quiet
      BY <3>4 DEF Accept, exit, vars, Quiet
    <3> QED  BY <3>1, <3>2, <3>3, <3>4 DEF Next, step
  <2> QED  BY <2>1, <2>2, <2>3
<1> QED  BY <1>1, <1>2, DashInvHolds, PTL DEF Spec

\* What a step does to the processes a manager or a stop() knows of.
Known(q) == q = proc[q[1]] \/ \E t \in Threads : held[t] = q

\* No simulation and no Path G training runs that no manager knows of, and no Path H
\* training either: self.proc is overwritten only under the lock under which it was
\* seen dead, and a stop() that takes it away ends it.
THEOREM NoOrphanHolds == Spec => []NoOrphan
<1>1. Init => NoOrphan  BY DEF Init, NoOrphan
<1>2. DashInv /\ NoOrphan /\ [Next]_vars => NoOrphan'
  <2> SUFFICES ASSUME DashInv, NoOrphan, [Next]_vars,
                      NEW q \in alive', q[1] \in Checked
               PROVE  Known(q)'
    BY DEF NoOrphan, Known, Checked
  <2>1. q \in alive => Known(q) /\ q \in Procs
    BY DEF NoOrphan, Known, Checked, DashInv, DashTypeOK
  <2>2. /\ proc \in [Managers -> Procs \cup {NoProc}]
        /\ held \in [Threads -> Procs \cup {NoProc}] /\ NoProc \notin Procs
        /\ q[1] \in Managers
    BY DashAssumption DEF DashInv, DashTypeOK, Checked, Managers
  <2>3. ASSUME alive' \subseteq alive, proc' = proc, held' = held PROVE Known(q)'
    BY <2>1, <2>3 DEF Known
  <2>4. ASSUME NEW t \in Threads, NEW m \in Managers, spawn(t, m) PROVE Known(q)'
    <3> DEFINE p == CHOOSE r \in spare(m) : TRUE
    <3>1. /\ at(t, "spawn", m) /\ p \in spare(m) /\ held' = held
          /\ proc' = [proc EXCEPT ![m] = p] /\ alive' = alive \cup {p}
      BY <2>4 DEF spawn
    <3> HIDE DEF p
    <3>2. p[1] = m  BY <3>1, SpareProc
    <3>3. CASE q = p  BY <2>2, <3>1, <3>2, <3>3 DEF Known
    <3>4. CASE q # p
      <4>1. Known(q)  BY <2>1, <3>1, <3>4
      <4>2. q[1] = m => q # proc[m]  BY <3>1, <3>4, SpawnHolds DEF running
      <4> QED  BY <2>2, <3>1, <4>1, <4>2 DEF Known
    <3> QED  BY <3>3, <3>4
  <2>5. ASSUME NEW t \in Threads, NEW m \in Managers, take(t, m) PROVE Known(q)'
    <3> DEFINE nothing == \/ proc[m] = NoProc /\ m \in {"launch", "acceptance", "rl"}
                          \/ ~running(m) /\ m = "rl"
    <3>1. /\ at(t, "take", m) /\ alive' = alive
          /\ held' = [held EXCEPT ![t] = IF nothing THEN NoProc ELSE proc[m]]
          /\ proc' = [proc EXCEPT ![m] = NoProc]
      BY <2>5 DEF take
    <3>2. held[t] = NoProc  BY <3>1, HandEmpty
    <3>3. q \in alive /\ q \in Procs /\ Known(q)  BY <2>1, <3>1
    <3>4. q = proc[m] => ~nothing  BY <2>2, <3>3 DEF running
    <3> HIDE DEF nothing
    <3>5. CASE q = proc[m]
      <4>1. held'[t] = q  BY <2>2, <3>1, <3>4, <3>5
      <4> QED  BY <4>1 DEF Known
    <3>6. CASE q # proc[m] /\ q = proc[q[1]]
      <4>1. proc'[q[1]] = q  BY <2>2, <3>1, <3>6
      <4> QED  BY <4>1 DEF Known
    <3>7. ASSUME NEW u \in Threads, held[u] = q PROVE Known(q)'
      <4>1. u # t  BY <2>2, <3>2, <3>3, <3>7
      <4>2. held'[u] = q  BY <2>2, <3>1, <3>7, <4>1
      <4> QED  BY <4>2 DEF Known
    <3> QED  BY <3>3, <3>5, <3>6, <3>7 DEF Known
  <2>6. ASSUME NEW t \in Threads, NEW m \in Managers, terminate(t, m) PROVE Known(q)'
    <3>1. proc' = proc /\ held' = [held EXCEPT ![t] = NoProc] /\ q \in alive /\ q # held[t]
      BY <2>6 DEF terminate
    <3> QED  BY <2>1, <2>2, <3>1 DEF Known
  <2>7. ASSUME NEW p \in Procs, reader(p) PROVE Known(q)'
    <3>1. /\ alive' = alive /\ held' = held /\ p \notin alive
          /\ proc' = IF proc[p[1]] = p THEN [proc EXCEPT ![p[1]] = NoProc] ELSE proc
      BY <2>7 DEF reader
    <3> QED  BY <2>1, <2>2, <3>1 DEF Known
  <2>8. ASSUME NEW t \in Threads, NEW m \in Managers,
               \/ log(t, m) \/ look(t, m) \/ refuseIf(t, m) \/ stopIf(t, m) \/ acquire(t, m)
               \/ release(t, m) \/ refuseOwn(t, m)
        PROVE  Known(q)'
    BY <2>3, <2>8 DEF log, look, refuseIf, stopIf, acquire, release, refuseOwn
  <2>9. ASSUME \/ \E t \in Threads : Accept(t)
               \/ \E p \in Procs : exit(p)
               \/ UNCHANGED vars
        PROVE  Known(q)'
    BY <2>3, <2>9 DEF Accept, exit, vars
  <2> QED  BY <2>4, <2>5, <2>6, <2>7, <2>8, <2>9 DEF Next, step
<1> QED  BY <1>1, <1>2, DashInvHolds, PTL DEF Spec

=============================================================================
