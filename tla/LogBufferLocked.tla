--------------------------- MODULE LogBufferLocked --------------------------
(***************************************************************************)
(* log_buffer_push, _peek_all and _pop_all taken apart: every statement    *)
(* that works on the ring's memory is a step, the copy-out loop one step   *)
(* per element, and any number of threads are inside the functions at      *)
(* once.  buf->lock is what makes each call the one action it is in        *)
(* LogBuffer.  A statement reads and writes in one step, as head =         *)
(* (head + 1) % size does: with the lock nobody can tell.                  *)
(***************************************************************************)
EXTENDS Integers, Sequences

CONSTANTS Threads, Samples, Empty, Size, MaxOut,
          Nobody    \* the owner of a free mutex

ASSUME NobodyAssumption == Nobody \notin Threads
ASSUME SizeAssumption == Size \in Nat \ {0}
ASSUME MaxOutAssumption == MaxOut \in Nat
ASSUME EmptyAssumption == Empty \notin Samples

VARIABLES buffer, head, count,  \* the ring
          lock,                 \* the thread that owns buf->lock, or Nobody
          pc,                   \* pc[t]: where t is in its call
          call,                 \* call[t]: the operation and its argument
          copied, start,        \* locals of the copy-out functions
          outArray,             \* outArray[t]: the caller's array, as far as filled
          done                  \* history: the ring after the last complete call,
                                \* and what the last complete peek or pop returned

ring == <<buffer, head, count>>
vars == <<buffer, head, count, lock, pc, call, copied, start, outArray, done>>

Slots == 0..(Size - 1)

(* LogBuffer, seen through the calls that have returned.                   *)
Atomic == INSTANCE LogBuffer WITH buffer <- done.buffer, head <- done.head,
                                  count <- done.count, out <- done.out

Calls == [op : {"push"}, sample : Samples]
           \cup [op : {"peek", "pop"}, maxOut : 0..MaxOut]

Points == {"out", "enter", "write", "head", "count",
           "copied", "start", "copy", "clear", "leave"}

TypeOK ==
  /\ buffer \in [Slots -> Samples \cup {Empty}]
  /\ head \in Slots
  /\ count \in 0..Size
  /\ lock \in Threads \cup {Nobody}
  /\ pc \in [Threads -> Points]
  /\ call \in [Threads -> Calls \cup {Nobody}]
  /\ copied \in [Threads -> 0..MaxOut]
  /\ start \in [Threads -> Slots]
  /\ outArray \in [Threads -> Seq(Samples \cup {Empty})]
  /\ done.out \in Seq(Samples)

Init ==
  /\ buffer = [i \in Slots |-> Empty]
  /\ head = 0
  /\ count = 0
  /\ lock = Nobody
  /\ pc = [t \in Threads |-> "out"]
  /\ call = [t \in Threads |-> Nobody]
  /\ copied = [t \in Threads |-> 0]
  /\ start = [t \in Threads |-> 0]
  /\ outArray = [t \in Threads |-> <<>>]
  /\ done = [buffer |-> buffer, head |-> 0, count |-> 0, out |-> <<>>]

At(t, point) == pc[t] = point
GoTo(t, point) == pc' = [pc EXCEPT ![t] = point]

-----------------------------------------------------------------------------
(* Entering and leaving.                                                   *)

Enter(t, c) ==
  /\ At(t, "out")
  /\ call' = [call EXCEPT ![t] = c]
  /\ GoTo(t, "enter")
  /\ UNCHANGED <<ring, lock, copied, start, outArray, done>>

FirstPoint(c) == IF c.op = "push" THEN "write" ELSE "copied"

LockUnguarded(t) ==
  /\ At(t, "enter")
  /\ lock' = t
  /\ GoTo(t, FirstPoint(call[t]))
  /\ UNCHANGED <<ring, call, copied, start, outArray, done>>

Lock(t) ==
  /\ At(t, "enter")
  /\ lock = Nobody
  /\ lock' = t
  /\ GoTo(t, FirstPoint(call[t]))
  /\ UNCHANGED <<ring, call, copied, start, outArray, done>>

(* The call returns: from here on its effect is what other calls see.      *)
Unlock(t) ==
  /\ At(t, "leave")
  /\ lock' = Nobody
  /\ done' = [buffer |-> buffer, head |-> head, count |-> count,
              out |-> IF call[t].op = "push" THEN done.out ELSE outArray[t]]
  /\ call' = [call EXCEPT ![t] = Nobody]
  /\ copied' = [copied EXCEPT ![t] = 0]
  /\ start' = [start EXCEPT ![t] = 0]
  /\ outArray' = [outArray EXCEPT ![t] = <<>>]
  /\ GoTo(t, "out")
  /\ UNCHANGED ring

-----------------------------------------------------------------------------
(* log_buffer_push                                                         *)

WriteSlot(t) ==
  /\ At(t, "write")
  /\ buffer' = [buffer EXCEPT ![head] = call[t].sample]
  /\ GoTo(t, "head")
  /\ UNCHANGED <<head, count, lock, call, copied, start, outArray, done>>

AdvanceHead(t) ==
  /\ At(t, "head")
  /\ head' = (head + 1) % Size
  /\ GoTo(t, "count")
  /\ UNCHANGED <<buffer, count, lock, call, copied, start, outArray, done>>

IncrementCountUnbounded(t) ==
  /\ At(t, "count")
  /\ count' = count + 1
  /\ GoTo(t, "leave")
  /\ UNCHANGED <<buffer, head, lock, call, copied, start, outArray, done>>

IncrementCount(t) ==
  /\ At(t, "count")
  /\ count' = IF count < Size THEN count + 1 ELSE count
  /\ GoTo(t, "leave")
  /\ UNCHANGED <<buffer, head, lock, call, copied, start, outArray, done>>

-----------------------------------------------------------------------------
(* log_buffer_peek_all and log_buffer_pop_all                              *)

ReadCount(t) ==
  /\ At(t, "copied")
  /\ copied' = [copied EXCEPT ![t] =
                  IF count > call[t].maxOut THEN call[t].maxOut ELSE count]
  /\ GoTo(t, "start")
  /\ UNCHANGED <<ring, lock, call, start, outArray, done>>

(* A peek starts at the oldest sample, a pop copied samples before head.   *)
ReadStart(t) ==
  /\ At(t, "start")
  /\ LET back == IF call[t].op = "peek" THEN count ELSE copied[t]
     IN  start' = [start EXCEPT ![t] = (head - back + Size) % Size]
  /\ GoTo(t, "copy")
  /\ UNCHANGED <<ring, lock, call, copied, outArray, done>>

CopyOne(t) ==
  /\ At(t, "copy")
  /\ Len(outArray[t]) < copied[t]
  /\ LET index == (start[t] + Len(outArray[t])) % Size
     IN  outArray' = [outArray EXCEPT ![t] = Append(@, buffer[index])]
  /\ UNCHANGED <<ring, lock, pc, call, copied, start, done>>

CopyDone(t) ==
  /\ At(t, "copy")
  /\ Len(outArray[t]) = copied[t]
  /\ GoTo(t, IF call[t].op = "pop" THEN "clear" ELSE "leave")
  /\ UNCHANGED <<ring, lock, call, copied, start, outArray, done>>

ClearCount(t) ==
  /\ At(t, "clear")
  /\ count' = 0
  /\ GoTo(t, "leave")
  /\ UNCHANGED <<buffer, head, lock, call, copied, start, outArray, done>>

-----------------------------------------------------------------------------
Next ==
  \E t \in Threads :
    \/ \E c \in Calls : Enter(t, c)
    \/ Lock(t)
    \/ WriteSlot(t) \/ AdvanceHead(t) \/ IncrementCount(t)
    \/ ReadCount(t) \/ ReadStart(t) \/ CopyOne(t) \/ CopyDone(t) \/ ClearCount(t)
    \/ Unlock(t)

Spec == Init /\ [][Next]_vars

-----------------------------------------------------------------------------
(* Every interleaving of pushes, peeks and pops is a sequence of atomic    *)
(* ones: a caller never sees half a push, and the copy-out loop never sees *)
(* a slot change under it (the pthread_mutex_lock(&buf->lock) of the three *)
(* functions in logBufferBase.c).                                          *)
CallsAreAtomic == Atomic!Spec

=============================================================================
