----------------------------- MODULE LogBuffer ------------------------------
(***************************************************************************)
(* The ring buffer of logBufferBase.c that carries samples from the sensor *)
(* thread to the log thread.  Every operation of the code runs from lock   *)
(* to unlock of buf->lock, so it is one action here; module                *)
(* LogBufferLocked takes the operations apart and shows that the mutex     *)
(* makes them atomic.                                                      *)
(***************************************************************************)
EXTENDS Integers, Sequences

CONSTANTS Samples,  \* the samples threads push
          Empty,    \* the content of a slot calloc zeroed
          Size,     \* buffer_size, at least 1
          MaxOut    \* callers pass max_out in 0..MaxOut

ASSUME SizeAssumption == Size \in Nat \ {0}
ASSUME MaxOutAssumption == MaxOut \in Nat
ASSUME EmptyAssumption == Empty \notin Samples

VARIABLES buffer,   \* the slots
          head,     \* the slot the next push writes
          count,    \* how many slots hold samples
          out       \* out_array of the last peek or pop, up to the returned copied

vars == <<buffer, head, count, out>>

Slots == 0..(Size - 1)

TypeOK ==
  /\ buffer \in [Slots -> Samples \cup {Empty}]
  /\ head \in Slots
  /\ count \in 0..Size
  /\ out \in Seq(Samples \cup {Empty})

Init ==
  /\ buffer = [i \in Slots |-> Empty]
  /\ head = 0
  /\ count = 0
  /\ out = <<>>

-----------------------------------------------------------------------------
(* The operations.                                                         *)

NextHeadUnwrapped(h) == IF h + 1 > Size THEN 0 ELSE h + 1

NextHead(h) == (h + 1) % Size

CountAfterPushUnbounded(c) == c + 1

CountAfterPush(c) == IF c < Size THEN c + 1 ELSE c

Push(s) ==
  /\ buffer' = [buffer EXCEPT ![head] = s]
  /\ head' = NextHead(head)
  /\ count' = CountAfterPush(count)
  /\ UNCHANGED out

(* copied = min(count, max_out)                                            *)
CopiedUnclamped(maxOut) == maxOut

Copied(maxOut) == IF count > maxOut THEN maxOut ELSE count

(* The n samples that start back slots before head.                        *)
CopyOut(back, n) ==
  LET start == (head - back + Size) % Size
  IN  [i \in 1..n |-> buffer[(start + i - 1) % Size]]

PeekAllFromNewest(maxOut) ==
  /\ out' = CopyOut(Copied(maxOut), Copied(maxOut))
  /\ UNCHANGED <<buffer, head, count>>

PeekAll(maxOut) ==
  /\ out' = CopyOut(count, Copied(maxOut))
  /\ UNCHANGED <<buffer, head, count>>

PopAll(maxOut) ==
  /\ out' = CopyOut(Copied(maxOut), Copied(maxOut))
  /\ count' = 0
  /\ UNCHANGED <<buffer, head>>

Next ==
  \/ \E s \in Samples : Push(s)
  \/ \E m \in 0..MaxOut : PeekAll(m) \/ PopAll(m)

Spec == Init /\ [][Next]_vars

-----------------------------------------------------------------------------
(* The ring implements the window.                                         *)

(* The samples the ring holds, oldest first.                               *)
Contents == [i \in 1..count |-> buffer[(head - count + Size + i - 1) % Size]]

Window == INSTANCE SampleWindow WITH window <- Contents

(* Every push, peek and pop of the ring is the same operation on the       *)
(* window: nothing is lost before Size newer samples arrived, nothing is   *)
(* returned twice within a call, out of order, or after it was overwritten *)
(* (logBufferBase.c, log_buffer_push, _peek_all and _pop_all).             *)
ImplementsWindow == Window!WindowSpec

(* A slot that counts as held has been pushed: what a caller receives next *)
(* from the ring.  With TypeOK and OnlyPushedSamples it is inductive.      *)
HeldSlotsPushed == \A i \in 1..count : Contents[i] \in Samples

(* A caller never receives a slot that no push has written since calloc.   *)
OnlyPushedSamples == out \in Seq(Samples)

RingInv == TypeOK /\ HeldSlotsPushed /\ OnlyPushedSamples
=============================================================================
