------------------------------ MODULE RayProofs ------------------------------
(***************************************************************************)
(* Theorems about RayCaster, for rays between any two indices, however the *)
(* crossing times round.                                                   *)
(***************************************************************************)
EXTENDS RayCaster, TLAPS

LEMMA MulMono ==
  ASSUME NEW a \in Nat, NEW b \in Nat, NEW c \in Nat, a <= b
  PROVE  a * c <= b * c /\ c * a <= c * b
OBVIOUS

LEMMA SquareMono ==
  ASSUME NEW a \in Nat, NEW b \in Nat, a <= b
  PROVE  a * a <= b * b
<1>1. a * a <= b * a  BY MulMono
<1>2. b * a <= b * b  BY MulMono
<1>3. a * a \in Int /\ b * a \in Int /\ b * b \in Int  OBVIOUS
<1> QED  BY <1>1, <1>2, <1>3

\* An axis that is due before another with crossings left has crossings left.
LEMMA CrossingLeft ==
  ASSUME NEW k \in Nat, NEW m \in Nat, NEW l \in Nat, NEW n \in Nat,
         l < n, (k + 1) * n <= (l + 1) * m
  PROVE  k < m
<1> SUFFICES ASSUME m <= k PROVE FALSE
  OBVIOUS
<1>1. (l + 1) * m <= n * m  BY MulMono
<1>2. m * n <= k * n  BY MulMono
<1>3. (k + 1) * n = k * n + n  OBVIOUS
<1>4. n * m = m * n  OBVIOUS
<1>5. k * n \in Int /\ m * n \in Int /\ (l + 1) * m \in Int  OBVIOUS
<1> QED  BY <1>1, <1>2, <1>3, <1>4, <1>5

LEMMA AbsNat == ASSUME NEW n \in Int PROVE Abs(n) \in Nat /\ (Abs(n) = 0 <=> n = 0)
BY DEF Abs

\* Moving k voxels in the direction of d.
LEMMA Direction ==
  ASSUME NEW d \in Int, NEW k \in Nat, k <= Abs(d)
  PROVE  /\ signum(d) \in Int
         /\ signum(d) * k \in Int
         /\ signum(d) * (signum(d) * k) = k
         /\ (signum(d) * k) * (signum(d) * k) = k * k
         /\ signum(d) * k = d <=> k = Abs(d)
<1>1. CASE d = 0  BY <1>1 DEF signum, Abs
<1>2. CASE d > 0  BY <1>2 DEF signum, Abs
<1>3. CASE d < 0  
  <2>1. signum(d) = -1 /\ Abs(d) = -d  BY <1>3 DEF signum, Abs
  <2>2. (-1) * k = -k /\ (-1) * (-k) = k /\ (-k) * (-k) = k * k  OBVIOUS
  <2> QED  BY <2>1, <2>2
<1> QED  BY <1>1, <1>2, <1>3

-----------------------------------------------------------------------------
\* The inductive invariant: the voxel is where the crossings led, and no axis was
\* crossed more often than the ray is long.
RayInv ==
  /\ start \in Voxel /\ end \in Voxel /\ cell \in Voxel
  /\ crossed \in [Axis -> Nat]
  /\ \A a \in Axis : /\ cell[a] = start[a] + signum(span(start, end, a)) * crossed[a]
                     /\ crossed[a] <= Abs(span(start, end, a))

LEMMA SpanInt == RayInv => \A a \in Axis : span(start, end, a) \in Int
<1> SUFFICES ASSUME RayInv, NEW a \in Axis PROVE span(start, end, a) \in Int
  OBVIOUS
<1>1. start[a] \in Int /\ end[a] \in Int  BY DEF RayInv, Voxel
<1> QED  BY <1>1 DEF span

\* A ray that is not at its end has crossings left on the axis it crosses next.
LEMMA NextWithin ==
  ASSUME RayInv, cell # end, NEW a \in nextAxes(start, end, crossed)
  PROVE  a \in Axis /\ crossed[a] < Abs(span(start, end, a))
<1>1. PICK b \in Axis : cell[b] # end[b]
  BY DEF RayInv, Voxel
<1>2. span(start, end, b) \in Int /\ Abs(span(start, end, b)) \in Nat
  BY SpanInt, AbsNat
<1>3. crossed[b] \in Nat /\ crossed[b] <= Abs(span(start, end, b))
  BY DEF RayInv
<1>4. crossed[b] < Abs(span(start, end, b))
  <2> SUFFICES ASSUME crossed[b] = Abs(span(start, end, b)) PROVE FALSE
    BY <1>2, <1>3
  <2>1. signum(span(start, end, b)) * crossed[b] = span(start, end, b)
    BY <1>2, <1>3, Direction
  <2>2. cell[b] = start[b] + signum(span(start, end, b)) * crossed[b]
    BY DEF RayInv
  <2>3. start[b] \in Int /\ end[b] \in Int  BY DEF RayInv, Voxel
  <2>4. cell[b] = end[b]  BY <2>1, <2>2, <2>3 DEF span
  <2> QED  BY <1>1, <2>4
<1>5. a \in Axis /\ sooner(start, end, crossed, a, b)
  BY DEF nextAxes
<1>6. crossed[a] \in Nat /\ Abs(span(start, end, a)) \in Nat
  BY <1>5, SpanInt, AbsNat DEF RayInv
<1>7. span(start, end, b) # 0
  BY <1>2, <1>3, <1>4, AbsNat
<1>8. (crossed[a] + 1) * Abs(span(start, end, b)) <= (crossed[b] + 1) * Abs(span(start, end, a))
  BY <1>5, <1>7 DEF sooner
<1> QED  BY <1>2, <1>3, <1>4, <1>5, <1>6, <1>8, CrossingLeft

LEMMA RayStep == RayInv /\ [Next]_vars => RayInv'
<1> SUFFICES ASSUME RayInv, [Next]_vars PROVE RayInv'
  OBVIOUS
<1>1. ASSUME NEW s \in Inputs, NEW e \in Inputs, setInput(s, e) PROVE RayInv'
  <2>1. s \in Voxel /\ e \in Voxel  BY InputsAssumption
  <2>2. \A a \in Axis : e[a] - s[a] \in Int /\ s[a] \in Int
    BY <2>1 DEF Voxel
  <2>3. \A a \in Axis : /\ s[a] = s[a] + signum(e[a] - s[a]) * 0
                        /\ 0 <= Abs(e[a] - s[a])
    BY <2>2 DEF signum, Abs
  <2>4. /\ start' = s /\ end' = e /\ cell' = s
        /\ crossed' = [a \in Axis |-> 0]
    BY <1>1 DEF setInput
  <2> QED  BY <2>1, <2>3, <2>4 DEF RayInv, span
<1>2. ASSUME NEW a \in Axis, stepAcross(a) PROVE RayInv'
  <2> DEFINE d == span(start, end, a)
  <2>1. /\ cell # end /\ a \in nextAxes(start, end, crossed)
        /\ cell' = [cell EXCEPT ![a] = @ + signum(d)]
        /\ crossed' = [crossed EXCEPT ![a] = @ + 1]
        /\ start' = start /\ end' = end
    BY <1>2 DEF stepAcross, over
  <2>2. crossed[a] < Abs(d) /\ crossed[a] \in Nat /\ d \in Int /\ Abs(d) \in Nat
    BY <2>1, NextWithin, SpanInt, AbsNat DEF RayInv
  <2>3. signum(d) \in Int  BY <2>2 DEF signum
  <2>4. signum(d) * (crossed[a] + 1) = signum(d) * crossed[a] + signum(d)
    BY <2>2, <2>3
  <2>5. cell[a] \in Int /\ start[a] \in Int /\ cell[a] = start[a] + signum(d) * crossed[a]
    BY DEF RayInv, Voxel
  <2>6. signum(d) * crossed[a] \in Int  BY <2>2, <2>3
  <2>7. cell[a] + signum(d) = start[a] + signum(d) * (crossed[a] + 1)
    BY <2>3, <2>4, <2>5, <2>6
  <2>8. cell' \in Voxel /\ crossed' \in [Axis -> Nat]
    BY <2>1, <2>2, <2>3, <2>5 DEF RayInv, Voxel
  <2>9. ASSUME NEW b \in Axis
        PROVE  /\ cell'[b] = start[b] + signum(span(start, end, b)) * crossed'[b]
               /\ crossed'[b] <= Abs(span(start, end, b))
    <3>1. CASE b = a
      <4>1. cell'[b] = cell[a] + signum(d) /\ crossed'[b] = crossed[a] + 1
        BY <2>1, <3>1 DEF RayInv, Voxel
      <4>2. crossed[a] + 1 <= Abs(d)  BY <2>2
      <4> QED  BY <2>7, <3>1, <4>1, <4>2
    <3>2. CASE b # a
      <4>1. cell'[b] = cell[b] /\ crossed'[b] = crossed[b]
        BY <2>1, <3>2 DEF RayInv, Voxel
      <4> QED  BY <4>1 DEF RayInv
    <3> QED  BY <3>1, <3>2
  <2> HIDE DEF d
  <2> QED  BY <2>1, <2>8, <2>9 DEF RayInv, span
<1>3. CASE stepOver
  BY <1>3 DEF stepOver, RayInv, span
<1>4. CASE UNCHANGED vars
  BY <1>4 DEF vars, RayInv, span
<1> QED  BY <1>1, <1>2, <1>3, <1>4 DEF Next, step

LEMMA RayInvHolds == Spec => []RayInv
<1>1. Init => RayInv
  <2> SUFFICES ASSUME Init PROVE RayInv
    OBVIOUS
  <2>1. start \in Voxel /\ \A a \in Axis : start[a] \in Int
    BY InputsAssumption DEF Init, Voxel
  <2>2. \A a \in Axis : start[a] = start[a] + signum(start[a] - start[a]) * 0
                        /\ 0 <= Abs(start[a] - start[a])
    <3>1. \A n \in Int : n - n = 0 /\ n = n + 0  OBVIOUS
    <3>2. signum(0) * 0 = 0 /\ 0 <= Abs(0)  BY DEF signum, Abs
    <3> QED  BY <2>1, <3>1, <3>2
  <2>3. 0 \in Nat  OBVIOUS
  <2>4. crossed = [a \in Axis |-> 0] /\ end = start /\ cell = start
    BY DEF Init
  <2>5. crossed \in [Axis -> Nat] /\ \A a \in Axis : crossed[a] = 0
    BY <2>3, <2>4
  <2> QED  BY <2>1, <2>2, <2>4, <2>5 DEF RayInv, span
<1> QED  BY <1>1, RayStep, PTL DEF Spec

-----------------------------------------------------------------------------
LEMMA GoneIsCrossed ==
  ASSUME RayInv, NEW a \in Axis
  PROVE  /\ gone(a) = crossed[a] /\ crossed[a] \in Nat
         /\ Abs(span(start, end, a)) \in Nat /\ crossed[a] <= Abs(span(start, end, a))
<1> DEFINE d == span(start, end, a)
<1>1. /\ d \in Int /\ Abs(d) \in Nat /\ crossed[a] \in Nat /\ crossed[a] <= Abs(d)
      /\ start[a] \in Int /\ cell[a] = start[a] + signum(d) * crossed[a]
  BY SpanInt, AbsNat DEF RayInv, Voxel
<1>2. signum(d) * crossed[a] \in Int /\ signum(d) * (signum(d) * crossed[a]) = crossed[a]
  BY <1>1, Direction
<1>3. cell[a] - start[a] = signum(d) * crossed[a]
  BY <1>1, <1>2
<1>4. gone(a) = crossed[a]  BY <1>2, <1>3 DEF gone
<1> QED  BY <1>1, <1>4

\* Clearing a ray touches no voxel outside the box between sensor and hit, for every
\* sensor and hit.
THEOREM InBoxHolds == Spec => []InBox
<1>1. RayInv => InBox
  <2> SUFFICES ASSUME RayInv, NEW a \in Axis
               PROVE  gone(a) \in 0 .. Abs(span(start, end, a))
    BY DEF InBox
  <2> QED  BY GoneIsCrossed
<1> QED  BY <1>1, RayInvHolds, PTL

\* Every ray is cleared up to the hit: the distance test cuts none short.
THEOREM StopsAtEndHolds == Spec => StopsAtEnd
<1>1. RayInv => ~(lengthSq(cell) > lengthSq(end))
  <2> SUFFICES ASSUME RayInv PROVE ~(lengthSq(cell) > lengthSq(end))
    OBVIOUS
  <2> DEFINE sq(v, a) == (v[a] - start[a]) * (v[a] - start[a])
  <2>1. ASSUME NEW a \in Axis
        PROVE  sq(cell, a) \in Int /\ sq(end, a) \in Int /\ sq(cell, a) <= sq(end, a)
    <3> DEFINE d == span(start, end, a)
    <3>1. /\ d \in Int /\ Abs(d) \in Nat /\ crossed[a] \in Nat /\ crossed[a] <= Abs(d)
          /\ start[a] \in Int /\ cell[a] = start[a] + signum(d) * crossed[a]
      BY SpanInt, AbsNat DEF RayInv, Voxel
    <3>2. /\ signum(d) * crossed[a] \in Int
          /\ (signum(d) * crossed[a]) * (signum(d) * crossed[a]) = crossed[a] * crossed[a]
      BY <3>1, Direction
    <3>3. cell[a] - start[a] = signum(d) * crossed[a]  BY <3>1, <3>2
    <3>4. sq(cell, a) = crossed[a] * crossed[a]  BY <3>2, <3>3
    <3>5. end[a] - start[a] = d  BY DEF span
    <3>6. sq(end, a) = Abs(d) * Abs(d)
      <4>1. Abs(d) * Abs(d) = d * d
        <5>1. CASE d >= 0  BY <3>1, <5>1 DEF Abs
        <5>2. CASE d < 0
          <6>1. Abs(d) = -d  BY <5>2 DEF Abs
          <6>2. (-d) * (-d) = d * d  BY <3>1
          <6> QED  BY <6>1, <6>2
        <5> QED  BY <3>1, <5>1, <5>2
      <4> QED  BY <3>5, <4>1
    <3>7. crossed[a] * crossed[a] <= Abs(d) * Abs(d)  BY <3>1, SquareMono
    <3>8. crossed[a] * crossed[a] \in Int /\ Abs(d) * Abs(d) \in Int  BY <3>1
    <3> QED  BY <3>4, <3>6, <3>7, <3>8
  <2>2. {"x", "y", "z"} = Axis  BY DEF Axis
  <2>3. lengthSq(cell) = sq(cell, "x") + sq(cell, "y") + sq(cell, "z")
    BY DEF lengthSq
  <2>4. lengthSq(end) = sq(end, "x") + sq(end, "y") + sq(end, "z")
    BY DEF lengthSq
  <2>5. \A a \in Axis :
          sq(cell, a) \in Int /\ sq(end, a) \in Int /\ sq(cell, a) <= sq(end, a)
    BY <2>1
  <2> HIDE DEF sq
  <2> QED  BY <2>2, <2>3, <2>4, <2>5
<1>2. RayInv /\ [Next]_vars => [running /\ running' = FALSE => cell = end]_vars
  <2> SUFFICES ASSUME RayInv, Next, running, running' = FALSE PROVE cell = end
    OBVIOUS
  <2>1. stepOver
    BY DEF Next, step, setInput, stepAcross
  <2>2. ~(lengthSq(cell) > lengthSq(end))  BY <1>1, Zenon
  <2> QED  BY <2>1, <2>2 DEF stepOver, over
<1> QED  BY <1>2, RayInvHolds, PTL DEF Spec, StopsAtEnd

-----------------------------------------------------------------------------
(* The straight line.  Which of two axes is ahead, as crossings of the one  *)
(* times the length of the other; the order of the crossing times keeps the *)
(* lead within one voxel.                                                   *)
Long(a) == Abs(span(start, end, a))
Longer(m, n) == IF m > n THEN m ELSE n

LineInv ==
  \A a, b \in Axis : crossed[a] * Long(b) - crossed[b] * Long(a) <= Longer(Long(a), Long(b))

\* The lead of k crossings of an axis of length m over l of one of length n.
LEMMA LeadGrows ==
  ASSUME NEW k \in Nat, NEW l \in Nat, NEW m \in Nat, NEW n \in Nat,
         n = 0 \/ (k + 1) * n <= (l + 1) * m
  PROVE  (k + 1) * n - l * m <= Longer(m, n)
<1>1. CASE n = 0
  <2>1. (k + 1) * 0 = 0 /\ l * m \in Nat  OBVIOUS
  <2> QED  BY <1>1, <2>1 DEF Longer
<1>2. CASE (k + 1) * n <= (l + 1) * m
  <2>1. (l + 1) * m = l * m + m  OBVIOUS
  <2>2. (k + 1) * n \in Int /\ l * m \in Int  OBVIOUS
  <2>3. (k + 1) * n - l * m <= m  BY <1>2, <2>1, <2>2
  <2>4. m <= Longer(m, n) /\ Longer(m, n) \in Nat  BY DEF Longer
  <2> QED  BY <2>2, <2>3, <2>4
<1> QED  BY <1>1, <1>2

LEMMA LeadShrinks ==
  ASSUME NEW k \in Nat, NEW l \in Nat, NEW m \in Nat, NEW n \in Nat, NEW lead \in Int,
         k * n - l * m <= lead
  PROVE  k * n - (l + 1) * m <= lead
<1>1. (l + 1) * m = l * m + m  OBVIOUS
<1>2. k * n \in Int /\ l * m \in Int  OBVIOUS
<1> QED  BY <1>1, <1>2

LEMMA LineStep == RayInv /\ LineInv /\ [Next]_vars => LineInv'
<1> SUFFICES ASSUME RayInv, LineInv, [Next]_vars PROVE LineInv'
  OBVIOUS
<1>1. ASSUME NEW s \in Inputs, NEW e \in Inputs, setInput(s, e) PROVE LineInv'
  <2>1. RayInv'  BY RayStep
  <2>2. \A a \in Axis : crossed'[a] = 0 /\ Long(a)' \in Nat
    BY <1>1, <2>1, SpanInt, AbsNat DEF setInput, RayInv, Voxel, Long, span
  <2>3. \A m, n \in Nat : 0 * n - 0 * m <= Longer(m, n)
    BY DEF Longer
  <2> QED  BY <2>2, <2>3 DEF LineInv
<1>2. ASSUME NEW c \in Axis, stepAcross(c) PROVE LineInv'
  <2>1. /\ c \in nextAxes(start, end, crossed)
        /\ crossed' = [crossed EXCEPT ![c] = @ + 1]
        /\ start' = start /\ end' = end
    BY <1>2 DEF stepAcross
  <2>2. \A a \in Axis : Long(a)' = Long(a) /\ Long(a) \in Nat /\ crossed[a] \in Nat
    BY <2>1, GoneIsCrossed DEF Long, span
  <2>3. /\ crossed'[c] = crossed[c] + 1
        /\ \A a \in Axis \ {c} : crossed'[a] = crossed[a]
    BY <2>1 DEF RayInv
  <2>4. ASSUME NEW a \in Axis, NEW b \in Axis
        PROVE  crossed'[a] * Long(b) - crossed'[b] * Long(a) <= Longer(Long(a), Long(b))
    <3>1. crossed[a] * Long(b) - crossed[b] * Long(a) <= Longer(Long(a), Long(b))
      BY DEF LineInv
    <3>2. Longer(Long(a), Long(b)) \in Int  BY <2>2 DEF Longer
    <3>3. CASE a = c /\ b # c
      <4>1. sooner(start, end, crossed, c, b)  BY <2>1 DEF nextAxes
      <4>2. \/ Long(b) = 0
            \/ (crossed[c] + 1) * Long(b) <= (crossed[b] + 1) * Long(c)
        BY <4>1 DEF sooner, Long, Abs
      <4>3. (crossed[c] + 1) * Long(b) - crossed[b] * Long(c) <= Longer(Long(c), Long(b))
        BY <2>2, <4>2, LeadGrows
      <4> QED  BY <2>3, <3>3, <4>3
    <3>4. CASE a # c /\ b = c
      <4>1. crossed[a] * Long(b) - (crossed[b] + 1) * Long(a) <= Longer(Long(a), Long(b))
        BY <2>2, <3>1, <3>2, LeadShrinks
      <4> QED  BY <2>3, <3>4, <4>1
    <3>5. CASE a = b
      <4>1. crossed'[a] \in Nat  BY <2>2, <2>3
      <4>2. \A k, m \in Nat : k * m - k * m = 0  OBVIOUS
      <4>3. crossed'[a] * Long(b) - crossed'[b] * Long(a) = 0
        BY <2>2, <3>5, <4>1, <4>2
      <4>4. 0 <= Longer(Long(a), Long(b))  BY <2>2 DEF Longer
      <4> QED  BY <4>3, <4>4
    <3>6. CASE a # c /\ b # c
      BY <2>3, <3>1, <3>6
    <3> QED  BY <3>3, <3>4, <3>5, <3>6
  <2> QED  BY <2>2, <2>4 DEF LineInv
<1>3. CASE stepOver
  BY <1>3 DEF stepOver, LineInv, Long, span
<1>4. CASE UNCHANGED vars
  BY <1>4 DEF vars, LineInv, Long, span
<1> QED  BY <1>1, <1>2, <1>3, <1>4 DEF Next, step

\* Every voxel a ray clears is within one voxel of the line from sensor to hit, in
\* every plane and however ties are rounded.
THEOREM HugsLineHolds == Spec => []HugsLine
<1>1. Init => LineInv
  <2> SUFFICES ASSUME Init, NEW a \in Axis, NEW b \in Axis
               PROVE  crossed[a] * Long(b) - crossed[b] * Long(a) <= Longer(Long(a), Long(b))
    BY DEF LineInv
  <2>1. start \in Voxel /\ start = end /\ crossed[a] = 0 /\ crossed[b] = 0
    BY InputsAssumption DEF Init
  <2>2. Long(a) \in Nat /\ Long(b) \in Nat
    BY <2>1, AbsNat DEF Long, span, Voxel
  <2>3. \A m, n \in Nat : 0 * n - 0 * m <= Longer(m, n)
    BY DEF Longer
  <2> QED  BY <2>1, <2>2, <2>3
<1>2. RayInv /\ LineInv => HugsLine
  BY GoneIsCrossed DEF LineInv, HugsLine, Long, Longer
<1> QED  BY <1>1, <1>2, LineStep, RayInvHolds, PTL DEF Spec

===============================================================================
