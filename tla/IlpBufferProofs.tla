--------------------------- MODULE IlpBufferProofs --------------------------
(***************************************************************************)
(* Proofs about IlpBuffer, for every line size, number of samples and      *)
(* length of the formatted lines.  The invariant counts in lines: what has *)
(* been appended never exceeds LineSize times the lines tried, and falls   *)
(* short of it as soon as one line was shorter or left away, so the room   *)
(* for the lines to come is always at least LineSize for each.             *)
(***************************************************************************)
EXTENDS IlpBuffer, TLAPS

(* The lines tried so far, skipped ones included.                          *)
Tried == 2 * i + (IF part = "gyro" THEN 1 ELSE 0)

RoomInv ==
  /\ TypeOK
  /\ part = "gyro" => i < Count
  /\ size <= Tried * LineSize
  /\ slack => size < Tried * LineSize
  /\ StaysInside
  /\ DropsOnlyLastOfFull

USE DEF RoomInv, TypeOK, StaysInside, DropsOnlyLastOfFull, Tried, Capacity

(* t lines and one more take no more than n lines, if t is less than n.    *)
LEMMA RoomForOneMore ==
  ASSUME NEW L \in Nat, NEW n \in Nat, NEW t \in Nat, t < n
  PROVE  t * L + L <= n * L
<1> DEFINE d == n - t - 1
<1>1. d \in Nat /\ n = t + 1 + d
  OBVIOUS
<1>2. n * L = t * L + L + d * L
  BY <1>1, Z3
<1>3. d * L >= 0
  BY <1>1, Z3
<1>4. t * L \in Nat /\ d * L \in Nat /\ n * L \in Nat
  BY <1>1, Z3
<1> QED BY <1>2, <1>3, <1>4

(* A line either fits, or is the last of a batch without slack.            *)
LEMMA AddLineStep ==
  ASSUME NEW t \in Nat, t < 2 * Count,
         size \in Nat, slack \in BOOLEAN, dropped = 0,
         size <= t * LineSize, slack => size < t * LineSize,
         NEW length \in Lengths, AddLine(Formatted(length))
  PROVE  /\ size' \in Nat /\ slack' \in BOOLEAN
         /\ size' <= t * LineSize + LineSize
         /\ slack' => size' < t * LineSize + LineSize
         /\ size' < Capacity
         /\ dropped' = 0 \/ (dropped' = 1 /\ ~slack' /\ t + 1 = 2 * Count)
<1> DEFINE n == 2 * Count
           room == t * LineSize
           cap == n * LineSize
           len == Formatted(length)
<1>1. n \in Nat /\ LineSize \in Nat /\ LineSize > 0 /\ length \in Nat
  BY CountAssumption, LineSizeAssumption, LengthsAssumption
<1>2. room \in Nat /\ cap \in Nat
  BY <1>1, Z3
<1>3. room + LineSize <= cap
  BY <1>1, RoomForOneMore
<1>4. t + 1 < n => room + LineSize + LineSize <= cap
  <2>1. SUFFICES ASSUME t + 1 < n PROVE room + LineSize + LineSize <= cap
    OBVIOUS
  <2>2. (t + 1) * LineSize + LineSize <= cap
    BY <1>1, <2>1, RoomForOneMore
  <2>3. (t + 1) * LineSize = room + LineSize
    BY <1>1, Z3
  <2> QED BY <2>2, <2>3
<1>5. len \in Nat /\ len + 1 <= LineSize
  BY <1>1 DEF Formatted
<1>6. Fits(len) <=> len + 1 < cap - size
  BY DEF Fits
<1>7. /\ IF Fits(len) THEN size' = size + len + 1 /\ dropped' = 0
                      ELSE dropped' = 1 /\ size' = size
      /\ slack' = (slack \/ len < LineSize - 1)
  BY DEF AddLine
<1>8. size <= room /\ (slack => size < room)
  OBVIOUS
<1> HIDE DEF n, room, cap, len
<1>9. CASE Fits(len)
  BY <1>1, <1>2, <1>3, <1>5, <1>6, <1>7, <1>8, <1>9 DEF n, room, cap
<1>10. CASE ~Fits(len)
  <2>1. size' = size /\ dropped' = 1 /\ len + 1 >= cap - size
    BY <1>2, <1>5, <1>6, <1>7, <1>10
  <2>2. ~(t + 1 < n)
    BY <1>1, <1>2, <1>4, <1>5, <1>8, <2>1
  <2>3. t + 1 = n
    BY <1>1, <2>2 DEF n
  <2>4. size = room /\ len + 1 = LineSize
    BY <1>1, <1>2, <1>3, <1>5, <1>8, <2>1
  <2>5. ~slack'
    BY <1>1, <1>2, <1>5, <1>7, <1>8, <2>4
  <2>6. size' < cap
    BY <1>1, <1>2, <1>3, <2>1, <2>4
  <2>7. size' <= room + LineSize /\ slack' \in BOOLEAN
    BY <1>1, <1>2, <1>7, <1>8, <2>1
  <2> QED BY <2>1, <2>3, <2>5, <2>6, <2>7 DEF n, room, cap
<1> QED BY <1>9, <1>10

LEMMA RoomInit == Init => RoomInv
<1> SUFFICES ASSUME Init PROVE RoomInv
  OBVIOUS
<1>1. Count \in Nat /\ LineSize \in Nat /\ LineSize > 0
  BY CountAssumption, LineSizeAssumption
<1>2. Tried = 0 /\ 0 * LineSize = 0
  BY <1>1 DEF Init
<1>3. Count > 0 => 0 < Capacity
  <2>1. SUFFICES ASSUME Count > 0 PROVE 0 < (2 * Count) * LineSize
    OBVIOUS
  <2>2. 0 * LineSize + LineSize <= (2 * Count) * LineSize
    BY <1>1, <2>1, RoomForOneMore
  <2>3. (2 * Count) * LineSize \in Nat
    BY <1>1, Z3
  <2> QED BY <1>1, <1>2, <2>2, <2>3
<1>4. Tried * LineSize = 0
  BY <1>2
<1>5. size = 0 /\ dropped = 0 /\ i = 0 /\ part = "accel"
  BY DEF Init
<1>6. ~slack /\ slack \in BOOLEAN
  BY Zenon DEF Init
<1> HIDE DEF Tried, Capacity
<1>7. TypeOK
  BY <1>1, <1>5, <1>6
<1> QED BY <1>1, <1>3, <1>4, <1>5, <1>6, <1>7

LEMMA RoomNext == RoomInv /\ [Next]_vars => RoomInv'
<1> SUFFICES ASSUME RoomInv, [Next]_vars PROVE RoomInv'
  OBVIOUS
<1>1. Count \in Nat /\ LineSize \in Nat /\ LineSize > 0
  BY CountAssumption, LineSizeAssumption
<1>2. CASE AddAccel
  <2>1. PICK length \in Lengths : AddLine(Formatted(length))
    BY <1>2 DEF AddAccel
  <2>2. i < Count /\ i \in Nat /\ part' = "gyro" /\ i' = i /\ dropped = 0 /\ Tried = 2 * i
    BY <1>1, <1>2 DEF AddAccel
  <2> DEFINE t == 2 * i
  <2>3. t \in Nat /\ t < 2 * Count
    BY <1>1, <2>2
  <2>4. size \in Nat /\ slack \in BOOLEAN
        /\ size <= t * LineSize /\ (slack => size < t * LineSize)
    BY <2>2
  <2>5. /\ size' \in Nat /\ slack' \in BOOLEAN
        /\ size' <= t * LineSize + LineSize
        /\ slack' => size' < t * LineSize + LineSize
        /\ size' < Capacity
        /\ dropped' = 0 \/ (dropped' = 1 /\ ~slack' /\ t + 1 = 2 * Count)
    BY <2>1, <2>2, <2>3, <2>4, AddLineStep
  <2>6. Tried' = t + 1 /\ (t + 1) * LineSize = t * LineSize + LineSize
    BY <1>1, <2>2, <2>3
  <2>7. t + 1 # 2 * Count
    BY <1>1, <2>2
  <2>8. TypeOK'
    BY <1>1, <2>2, <2>5
  <2> QED BY <1>1, <2>2, <2>5, <2>6, <2>7, <2>8
<1>3. CASE AddGyro
  <2>1. PICK length \in Lengths : AddLine(Formatted(length))
    BY <1>3 DEF AddGyro
  <2>2. i < Count /\ i \in Nat /\ part' = "accel" /\ i' = i + 1 /\ dropped = 0
        /\ Tried = 2 * i + 1
    BY <1>1, <1>3 DEF AddGyro
  <2> DEFINE t == 2 * i + 1
  <2>3. t \in Nat /\ t < 2 * Count
    BY <1>1, <2>2
  <2>4. size \in Nat /\ slack \in BOOLEAN
        /\ size <= t * LineSize /\ (slack => size < t * LineSize)
    BY <2>2
  <2>5. /\ size' \in Nat /\ slack' \in BOOLEAN
        /\ size' <= t * LineSize + LineSize
        /\ slack' => size' < t * LineSize + LineSize
        /\ size' < Capacity
        /\ dropped' = 0 \/ (dropped' = 1 /\ ~slack' /\ t + 1 = 2 * Count)
    BY <2>1, <2>2, <2>3, <2>4, AddLineStep
  <2>6. Tried' = t + 1 /\ (t + 1) * LineSize = t * LineSize + LineSize
    BY <1>1, <2>2, <2>3
  <2>7. t + 1 = 2 * Count => i' = Count
    BY <1>1, <2>2
  <2>8. TypeOK'
    BY <1>1, <2>2, <2>5
  <2> QED BY <1>1, <2>2, <2>5, <2>6, <2>7, <2>8
<1>4. CASE SkipSample
  <2>1. i \in Nat /\ i < Count /\ i' = i + 1 /\ size' = size /\ part' = "accel"
        /\ dropped' = dropped /\ dropped = 0 /\ Tried = 2 * i /\ slack' = TRUE
    BY <1>1, <1>4 DEF SkipSample
  <2>2. Tried' = 2 * i + 2
    BY <1>1, <2>1
  <2>3. (2 * i + 2) * LineSize = (2 * i) * LineSize + LineSize + LineSize
    BY <1>1, <2>1, Z3
  <2>4. (2 * i) * LineSize \in Nat
    BY <1>1, <2>1, Z3
  <2>5. size \in Nat /\ size <= (2 * i) * LineSize
    BY <2>1
  <2>6. size' < Tried' * LineSize
    BY <1>1, <2>1, <2>2, <2>3, <2>4, <2>5
  <2>7. size' <= Tried' * LineSize
    BY <1>1, <2>1, <2>2, <2>3, <2>4, <2>5
  <2> QED BY <1>1, <2>1, <2>6, <2>7
<1>5. CASE UNCHANGED vars
  BY <1>5 DEF vars
<1> QED BY <1>2, <1>3, <1>4, <1>5 DEF Next, Finished

(* The type invariant.                                                     *)
THEOREM TypeCorrect == Spec => []TypeOK
<1>1. RoomInv => TypeOK
  OBVIOUS
<1> QED BY RoomInit, RoomNext, <1>1, PTL DEF Spec

(* The text and its NUL stay inside influx_buffer (logWriteValues.c:52).   *)
THEOREM StaysInsideAlways == Spec => []StaysInside
<1>1. RoomInv => StaysInside
  OBVIOUS
<1> QED BY RoomInit, RoomNext, <1>1, PTL DEF Spec

(* A line is left out only as the very last of a batch of cut lines.       *)
THEOREM DropsOnlyLastOfFullAlways == Spec => []DropsOnlyLastOfFull
<1>1. RoomInv => DropsOnlyLastOfFull
  OBVIOUS
<1> QED BY RoomInit, RoomNext, <1>1, PTL DEF Spec
=============================================================================
