------------------------------ MODULE IlpBuffer -----------------------------
(***************************************************************************)
(* Filling influx_buffer, the body of one post (logInfluxIlp.c).  Each new *)
(* sample becomes two text lines, which are cut to the size of ilp_line    *)
(* and appended to a buffer that log_write_values makes large enough for   *)
(* two lines per sample.  Of a text only its length matters here.          *)
(* LogValues takes for granted what this module shows: that the lines of a *)
(* batch fit.                                                              *)
(***************************************************************************)
EXTENDS Naturals

CONSTANTS LineSize,    \* sizeof(ilp_line), 512, a factor of the capacity too
          Count,       \* mpu_samples_count
          Lengths      \* lengths the formatted lines would have uncut

ASSUME LineSizeAssumption == LineSize \in Nat \ {0}
ASSUME CountAssumption == Count \in Nat
ASSUME LengthsAssumption == Lengths \subseteq Nat

VARIABLES
  i,        \* the index of the loop, as the number of samples done
  part,     \* the line of the sample that is next
  size,     \* *influx_buffer_size
  dropped,  \* history: lines that did not fit
  slack     \* history: a sample was not new, or a line was shorter than
            \* ilp_line can hold

vars == <<i, part, size, dropped, slack>>

TypeOK ==
  /\ i \in 0..Count
  /\ part \in {"accel", "gyro"}
  /\ size \in Nat
  /\ dropped \in Nat
  /\ slack \in BOOLEAN

Init ==
  /\ i = 0 /\ part = "accel"
  /\ size = 0
  /\ dropped = 0 /\ slack = FALSE

CapacityOneLinePerSample == Count * LineSize

(* sizeof(influx_buffer)                                                   *)
Capacity == (2 * Count) * LineSize

(* format_accel_ilp, format_gyro_ilp: snprintf cuts, and says so to nobody.*)
Formatted(length) == IF length < LineSize THEN length ELSE LineSize - 1

(* add_ilp_line_to_buffer: the line, a newline and a NUL have to fit.      *)
FitsWithoutNul(length) == length + 1 <= Capacity - size

Fits(length) == length + 1 < Capacity - size

AddLine(length) ==
  /\ IF Fits(length)
     THEN size' = size + length + 1 /\ UNCHANGED dropped
     ELSE dropped' = dropped + 1 /\ UNCHANGED size
  /\ slack' = (slack \/ length < LineSize - 1)

AddAccel ==
  /\ i < Count /\ part = "accel"
  /\ \E length \in Lengths : AddLine(Formatted(length))
  /\ part' = "gyro"
  /\ UNCHANGED i

AddGyroSkipsOne ==
  /\ i < Count /\ part = "gyro"
  /\ \E length \in Lengths : AddLine(Formatted(length))
  /\ part' = "accel"
  /\ i' = i + 2

AddGyro ==
  /\ i < Count /\ part = "gyro"
  /\ \E length \in Lengths : AddLine(Formatted(length))
  /\ part' = "accel"
  /\ i' = i + 1

(* The sample's timestamp is not above the mark.                           *)
SkipSample ==
  /\ i < Count /\ part = "accel"
  /\ slack' = TRUE
  /\ i' = i + 1
  /\ UNCHANGED <<part, size, dropped>>

Finished == i = Count /\ UNCHANGED vars

Next == AddAccel \/ AddGyro \/ SkipSample \/ Finished

Spec == Init /\ [][Next]_vars

-----------------------------------------------------------------------------
(* The text stays inside the buffer, with room for the NUL that snprintf   *)
(* writes after it (logWriteValues.c:52, logInfluxIlp.c:19-26).            *)
StaysInside == Count > 0 => size < Capacity

(* No line of a batch is left out, short of one case: every sample is new  *)
(* and every line was cut, when the very last line lacks the one byte for  *)
(* the NUL (logInfluxIlp.c:23-24; the result is ignored at lines 69, 72).  *)
DropsOnlyLastOfFull == dropped > 0 => dropped = 1 /\ ~slack /\ i = Count
=============================================================================
