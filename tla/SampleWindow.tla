---------------------------- MODULE SampleWindow ----------------------------
(***************************************************************************)
(* What the log buffer promises its callers, without slots, indices or     *)
(* wrap-around: a sliding window over the last Size samples pushed, oldest *)
(* first.  logBufferBase.c implements it with a ring (module LogBuffer).   *)
(***************************************************************************)
EXTENDS Naturals, Sequences

CONSTANTS Samples,  \* the sensor samples a caller may push
          Size,     \* the capacity given to init_log_buffer_base
          MaxOut    \* callers pass max_out in 0..MaxOut

ASSUME SizeAssumption == Size \in Nat \ {0}
ASSUME MaxOutAssumption == MaxOut \in Nat

VARIABLES window,   \* the samples the buffer holds, oldest first
          out       \* what the last peek or pop wrote into out_array

windowVars == <<window, out>>

WindowTypeOK ==
  /\ window \in Seq(Samples)
  /\ Len(window) <= Size
  /\ out \in Seq(Samples)
  /\ Len(out) <= Size

WindowInit == window = <<>> /\ out = <<>>

SlideKeepsOldest(w, s) == Append(w, s)

(* The newest sample enters; a full window forgets its oldest one.         *)
Slide(w, s) == Append(IF Len(w) < Size THEN w ELSE Tail(w), s)

(* The samples that fit when a caller leaves room for max_out of them.     *)
Oldest(w, maxOut) == [i \in 1..(IF Len(w) <= maxOut THEN Len(w) ELSE maxOut) |-> w[i]]

Newest(w, maxOut) ==
  LET n == IF Len(w) <= maxOut THEN Len(w) ELSE maxOut
  IN  [i \in 1..n |-> w[Len(w) - n + i]]

WindowPush(s) == window' = Slide(window, s) /\ UNCHANGED out

(* A peek that does not fit everything returns the OLDEST samples ...      *)
WindowPeekAll(maxOut) == out' = Oldest(window, maxOut) /\ UNCHANGED window

(* ... and a pop the NEWEST ones; whatever it left out is dropped.         *)
WindowPopAll(maxOut) == out' = Newest(window, maxOut) /\ window' = <<>>

WindowNext ==
  \/ \E s \in Samples : WindowPush(s)
  \/ \E m \in 0..MaxOut : WindowPeekAll(m) \/ WindowPopAll(m)

WindowSpec == WindowInit /\ [][WindowNext]_windowVars
=============================================================================
