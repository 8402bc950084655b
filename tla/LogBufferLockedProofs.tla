------------------------ MODULE LogBufferLockedProofs -----------------------
(***************************************************************************)
(* For any number of threads, any capacity and any max_out: buf->lock      *)
(* makes every log_buffer_push, _peek_all and _pop_all one action of       *)
(* LogBuffer, and hence one operation on the sliding window.               *)
(***************************************************************************)
EXTENDS LogBufferLocked, TLAPS

-----------------------------------------------------------------------------
(* The inductive invariant: at every point of a call, how far the ring has *)
(* moved from what the last call that returned has left in done.           *)

Inside == {"write", "head", "count", "copied", "start", "copy", "clear", "leave"}

(* Exactly the owner of buf->lock is between lock and unlock.              *)
Owned == \A t \in Threads : pc[t] \in Inside <=> lock = t

DoneTyped ==
  /\ done.buffer \in [Slots -> Samples \cup {Empty}]
  /\ done.head \in Slots
  /\ done.count \in 0..Size

Unmoved == buffer = done.buffer /\ head = done.head /\ count = done.count

Pushing(t) == call[t].op = "push"
Popping(t) == call[t].op = "pop"

(* A thread is at a point of the function that it has called.              *)
CallFits(t) ==
  /\ pc[t] # "out" => call[t] \in Calls
  /\ pc[t] \in {"write", "head", "count"} => Pushing(t)
  /\ pc[t] \in {"copied", "start", "copy", "clear"} => ~Pushing(t)
  /\ pc[t] = "clear" => Popping(t)

(* log_buffer_push has made the first one, two or all of its three changes. *)
PushMoved(t) ==
  /\ pc[t] = "write" => Unmoved
  /\ pc[t] \in {"head", "count", "leave"} /\ Pushing(t) =>
       buffer = [done.buffer EXCEPT ![done.head] = call[t].sample]
  /\ pc[t] = "head" => head = done.head
  /\ pc[t] \in {"count", "leave"} /\ Pushing(t) => head = (done.head + 1) % Size
  /\ pc[t] \in {"head", "count"} => count = done.count
  /\ pc[t] = "leave" /\ Pushing(t) =>
       count = IF done.count < Size THEN done.count + 1 ELSE done.count

(* A peek leaves the ring alone, a pop clears the count at its end.        *)
CopyMoved(t) ==
  /\ pc[t] \in {"copied", "start", "copy", "clear"} => Unmoved
  /\ pc[t] = "leave" /\ ~Pushing(t) =>
       /\ buffer = done.buffer /\ head = done.head
       /\ count = IF Popping(t) THEN 0 ELSE done.count

Back(t) == IF call[t].op = "peek" THEN done.count ELSE copied[t]

(* The locals of a copy-out function hold what the ring has told it, and   *)
(* the caller's array the first elements of the copy.                      *)
LocalsFit(t) ==
  /\ pc[t] \notin {"copy", "clear", "leave"} => outArray[t] = <<>>
  /\ pc[t] \in {"start", "copy", "clear", "leave"} /\ ~Pushing(t) =>
       copied[t] = IF done.count > call[t].maxOut THEN call[t].maxOut ELSE done.count
  /\ pc[t] \in {"copy", "clear", "leave"} /\ ~Pushing(t) =>
       /\ start[t] = (done.head - Back(t) + Size) % Size
       /\ Len(outArray[t]) <= copied[t]
       /\ \A i \in 1..Len(outArray[t]) :
            outArray[t][i] = done.buffer[(start[t] + i - 1) % Size]
  /\ pc[t] \in {"clear", "leave"} /\ ~Pushing(t) => Len(outArray[t]) = copied[t]

AtPoint(t) == CallFits(t) /\ PushMoved(t) /\ CopyMoved(t) /\ LocalsFit(t)

(* TypeOK but for what a call has returned, which the refinement gives.    *)
MemoryTyped ==
  /\ buffer \in [Slots -> Samples \cup {Empty}]
  /\ head \in Slots
  /\ count \in 0..Size
  /\ lock \in Threads \cup {Nobody}
  /\ pc \in [Threads -> Points]
  /\ call \in [Threads -> Calls \cup {Nobody}]
  /\ copied \in [Threads -> 0..MaxOut]
  /\ start \in [Threads -> Slots]
  /\ outArray \in [Threads -> Seq(Samples \cup {Empty})]

LockInv ==
  /\ MemoryTyped /\ DoneTyped
  /\ Owned
  /\ lock = Nobody => Unmoved
  /\ \A t \in Threads : AtPoint(t)

-----------------------------------------------------------------------------
(* Facts the steps share.                                                  *)

LEMMA SlotMod == ASSUME NEW x \in Int PROVE x % Size \in Slots
BY SizeAssumption DEF Slots

(* Between lock and unlock nobody else is inside.                          *)
LEMMA Alone ==
  ASSUME LockInv, NEW t \in Threads, pc[t] \in Inside,
         NEW u \in Threads, u # t
  PROVE  pc[u] \notin Inside /\ lock = t /\ lock # Nobody
BY NobodyAssumption DEF LockInv, Owned

(* A thread outside of the lock has nothing to say about the ring.         *)
LEMMA OutsideStays ==
  ASSUME LockInv, NEW u \in Threads, pc[u] \notin Inside, pc'[u] = pc[u],
         call'[u] = call[u], outArray'[u] = outArray[u]
  PROVE  AtPoint(u)'
<1>1. pc'[u] \notin Inside
  OBVIOUS
<1>2. AtPoint(u)
  BY DEF LockInv
<1> QED BY <1>1, <1>2 DEF AtPoint, CallFits, PushMoved, CopyMoved, LocalsFit, Inside, Pushing, Popping

(* A step of the owner that stays inside.                                  *)
LEMMA OwnerStep ==
  ASSUME LockInv, NEW t \in Threads, pc[t] \in Inside,
         NEW point \in Inside, pc' = [pc EXCEPT ![t] = point],
         UNCHANGED <<lock, call, done>>,
         \A u \in Threads : u # t => outArray'[u] = outArray[u],
         MemoryTyped', AtPoint(t)'
  PROVE  LockInv'
<1>1. pc \in [Threads -> Points] /\ Owned
  BY DEF LockInv, MemoryTyped
<1>2. Owned'
  BY <1>1 DEF Owned
<1>3. lock' # Nobody
  BY <1>1, NobodyAssumption DEF Owned
<1>4. DoneTyped'
  BY DEF LockInv, DoneTyped
<1>5. ASSUME NEW u \in Threads, u # t PROVE AtPoint(u)'
  BY <1>1, <1>5, Alone, OutsideStays
<1> QED BY <1>2, <1>3, <1>4, <1>5 DEF LockInv

-----------------------------------------------------------------------------
(* LockInv is inductive: one lemma per action.                             *)

LEMMA LockInvInit == Init => LockInv
<1> SUFFICES ASSUME Init PROVE LockInv
  OBVIOUS
<1> USE SizeAssumption, MaxOutAssumption, NobodyAssumption DEF Init
<1>1. 0 \in Slots /\ 0 \in 0..Size /\ 0 \in 0..MaxOut
  BY DEF Slots
<1>2. MemoryTyped /\ DoneTyped
  BY <1>1 DEF MemoryTyped, DoneTyped, Points
<1>3. Owned /\ Unmoved
  BY DEF Owned, Unmoved, Inside
<1>4. \A t \in Threads : AtPoint(t)
  BY DEF AtPoint, CallFits, PushMoved, CopyMoved, LocalsFit
<1> QED BY <1>2, <1>3, <1>4 DEF LockInv

LEMMA EnterInv ==
  ASSUME LockInv, NEW t \in Threads, NEW c \in Calls, Enter(t, c)
  PROVE  LockInv'
<1> USE DEF Enter, At, GoTo, ring
<1>1. MemoryTyped' /\ DoneTyped'
  BY DEF LockInv, MemoryTyped, DoneTyped, Points
<1>2. Owned' /\ (lock = Nobody => Unmoved)'
  BY DEF LockInv, MemoryTyped, Owned, Unmoved, Inside
<1>3. ASSUME NEW u \in Threads PROVE AtPoint(u)'
  <2>1. CASE u = t
    <3>1. pc'[t] = "enter" /\ call'[t] = c /\ outArray'[t] = <<>>
      BY DEF LockInv, MemoryTyped, AtPoint, LocalsFit
    <3> QED BY <2>1, <3>1 DEF AtPoint, CallFits, PushMoved, CopyMoved, LocalsFit
  <2>2. CASE u # t
    <3>1. pc'[u] = pc[u] /\ call'[u] = call[u]
      BY <2>2 DEF LockInv, MemoryTyped
    <3>2. AtPoint(u)
      BY DEF LockInv
    <3> QED BY <3>1, <3>2 DEF AtPoint, CallFits, PushMoved, CopyMoved, LocalsFit,
                              Unmoved, Pushing, Popping, Back
  <2> QED BY <2>1, <2>2
<1> QED BY <1>1, <1>2, <1>3 DEF LockInv

(* The ring is as the last call has left it.                               *)
LEMMA LockStepInv ==
  ASSUME LockInv, NEW t \in Threads, Lock(t)
  PROVE  LockInv'
<1> USE DEF Lock, At, GoTo, ring
<1>1. call[t] \in Calls /\ pc'[t] = FirstPoint(call[t]) /\ outArray[t] = <<>>
  BY DEF LockInv, AtPoint, CallFits, MemoryTyped, LocalsFit
<1>2. FirstPoint(call[t]) \in {"write", "copied"}
  BY DEF FirstPoint
<1>3. MemoryTyped' /\ DoneTyped'
  BY <1>2 DEF LockInv, MemoryTyped, DoneTyped, Points
<1>4. ASSUME NEW u \in Threads PROVE pc[u] \notin Inside
  BY NobodyAssumption DEF LockInv, Owned
<1>5. Owned'
  BY <1>1, <1>2, <1>4 DEF LockInv, MemoryTyped, Owned, Inside
<1>6. ASSUME NEW u \in Threads PROVE AtPoint(u)'
  <2>1. CASE u = t
    <3>1. Unmoved'
      BY DEF LockInv, Unmoved
    <3>2. pc'[t] = "write" => Pushing(t)'
      BY <1>1 DEF FirstPoint, Pushing
    <3>3. pc'[t] = "copied" => ~Pushing(t)'
      BY <1>1 DEF FirstPoint, Pushing
    <3> QED BY <2>1, <1>1, <1>2, <3>1, <3>2, <3>3
            DEF AtPoint, CallFits, PushMoved, CopyMoved, LocalsFit
  <2>2. CASE u # t
    BY <1>4, <2>2, OutsideStays DEF LockInv, MemoryTyped
  <2> QED BY <2>1, <2>2
<1> QED BY <1>3, <1>5, <1>6, NobodyAssumption DEF LockInv

LEMMA WriteSlotInv ==
  ASSUME LockInv, NEW t \in Threads, WriteSlot(t)
  PROVE  LockInv'
<1> USE DEF WriteSlot, At, GoTo
<1>1. /\ AtPoint(t) /\ Unmoved /\ Pushing(t) /\ call[t] \in Calls
      /\ pc[t] \in Inside /\ pc'[t] = "head"
  BY DEF LockInv, AtPoint, CallFits, PushMoved, Inside, MemoryTyped
<1>2. call[t].sample \in Samples
  BY <1>1 DEF Pushing, Calls
<1>3. MemoryTyped'
  BY <1>2 DEF LockInv, MemoryTyped, Points
<1>4. AtPoint(t)'
  BY <1>1 DEF AtPoint, CallFits, PushMoved, CopyMoved, LocalsFit, Unmoved, Pushing, Popping
<1> QED BY <1>1, <1>3, <1>4, OwnerStep DEF Inside

LEMMA AdvanceHeadInv ==
  ASSUME LockInv, NEW t \in Threads, AdvanceHead(t)
  PROVE  LockInv'
<1> USE DEF AdvanceHead, At, GoTo
<1>1. AtPoint(t) /\ Pushing(t) /\ pc[t] \in Inside /\ pc'[t] = "count"
  BY DEF LockInv, AtPoint, CallFits, Inside, MemoryTyped
<1>2. head' \in Slots
  BY SlotMod DEF LockInv, MemoryTyped, Slots
<1>3. MemoryTyped'
  BY <1>2 DEF LockInv, MemoryTyped, Points
<1>4. AtPoint(t)'
  BY <1>1 DEF AtPoint, CallFits, PushMoved, CopyMoved, LocalsFit, Pushing, Popping
<1> QED BY <1>1, <1>3, <1>4, OwnerStep DEF Inside

LEMMA IncrementCountInv ==
  ASSUME LockInv, NEW t \in Threads, IncrementCount(t)
  PROVE  LockInv'
<1> USE DEF IncrementCount, At, GoTo
<1>1. AtPoint(t) /\ Pushing(t) /\ pc[t] \in Inside /\ pc'[t] = "leave"
  BY DEF LockInv, AtPoint, CallFits, Inside, MemoryTyped
<1>2. count' \in 0..Size
  BY SizeAssumption DEF LockInv, MemoryTyped
<1>3. MemoryTyped'
  BY <1>2 DEF LockInv, MemoryTyped, Points
<1>4. AtPoint(t)'
  BY <1>1 DEF AtPoint, CallFits, PushMoved, CopyMoved, LocalsFit, Pushing, Popping
<1> QED BY <1>1, <1>3, <1>4, OwnerStep DEF Inside

LEMMA ReadCountInv ==
  ASSUME LockInv, NEW t \in Threads, ReadCount(t)
  PROVE  LockInv'
<1> USE DEF ReadCount, At, GoTo, ring
<1>1. /\ AtPoint(t) /\ Unmoved /\ ~Pushing(t) /\ call[t] \in Calls
      /\ pc[t] \in Inside /\ pc'[t] = "start"
  BY DEF LockInv, AtPoint, CallFits, CopyMoved, Inside, MemoryTyped
<1>2. call[t].maxOut \in 0..MaxOut /\ count \in 0..Size
  BY <1>1 DEF Pushing, Calls, LockInv, MemoryTyped
<1> DEFINE n == IF count > call[t].maxOut THEN call[t].maxOut ELSE count
<1>3. n \in 0..MaxOut
  BY <1>2, SizeAssumption, MaxOutAssumption
<1>4. copied' = [copied EXCEPT ![t] = n]
  OBVIOUS
<1> HIDE DEF n
<1>5. MemoryTyped' /\ copied'[t] = n
  BY <1>3, <1>4 DEF LockInv, MemoryTyped, Points
<1>6. AtPoint(t)'
  BY <1>1, <1>5 DEF AtPoint, CallFits, PushMoved, CopyMoved, LocalsFit, Unmoved, Pushing, Popping, n
<1> QED BY <1>1, <1>5, <1>6, OwnerStep DEF Inside

LEMMA ReadStartInv ==
  ASSUME LockInv, NEW t \in Threads, ReadStart(t)
  PROVE  LockInv'
<1> USE DEF ReadStart, At, GoTo, ring
<1>1. /\ AtPoint(t) /\ Unmoved /\ ~Pushing(t) /\ call[t] \in Calls
      /\ pc[t] \in Inside /\ pc'[t] = "copy"
  BY DEF LockInv, AtPoint, CallFits, CopyMoved, Inside, MemoryTyped
<1>2. head \in Int /\ Size \in Int /\ Back(t) \in Int
  BY SizeAssumption, MaxOutAssumption DEF LockInv, MemoryTyped, DoneTyped, Back, Slots
<1> DEFINE s == (head - Back(t) + Size) % Size
<1>3. s \in Slots
  BY <1>2, SlotMod
<1>4. start' = [start EXCEPT ![t] = s]
  BY <1>1 DEF Back, Unmoved
<1>5. outArray[t] = <<>> /\ copied[t] \in 0..MaxOut
  BY DEF LockInv, AtPoint, LocalsFit, MemoryTyped
<1> HIDE DEF s
<1>6. MemoryTyped' /\ start'[t] = s
  BY <1>3, <1>4 DEF LockInv, MemoryTyped, Points
<1>7. s = (done.head - Back(t) + Size) % Size
  BY <1>1 DEF s, Unmoved
<1>8. LocalsFit(t)'
  BY <1>1, <1>5, <1>6, <1>7, MaxOutAssumption DEF AtPoint, LocalsFit, Pushing, Popping, Back
<1>9. AtPoint(t)'
  BY <1>1, <1>8 DEF AtPoint, CallFits, PushMoved, CopyMoved, Unmoved, Pushing, Popping
<1> QED BY <1>1, <1>6, <1>9, OwnerStep DEF Inside

(* The next element of the copy: nobody has moved the ring under the loop. *)
LEMMA CopyOneInv ==
  ASSUME LockInv, NEW t \in Threads, CopyOne(t)
  PROVE  LockInv'
<1> USE DEF CopyOne, At, ring
<1>1. AtPoint(t) /\ Unmoved /\ ~Pushing(t) /\ pc[t] \in Inside
  BY DEF LockInv, AtPoint, CallFits, CopyMoved, Inside
<1> DEFINE a == outArray[t]
           v == buffer[(start[t] + Len(a)) % Size]
           b == Append(a, v)
<1>2. a \in Seq(Samples \cup {Empty}) /\ Len(a) \in Nat /\ start[t] \in Int
  BY DEF LockInv, MemoryTyped, Slots
<1>3. v \in Samples \cup {Empty}
  BY <1>2, SlotMod DEF LockInv, MemoryTyped
<1>4. outArray' = [outArray EXCEPT ![t] = b]
  OBVIOUS
<1>5. /\ b \in Seq(Samples \cup {Empty}) /\ Len(b) = Len(a) + 1 /\ b[Len(a) + 1] = v
      /\ \A i \in 1..Len(a) : b[i] = a[i]
  BY <1>2, <1>3
<1>6. Len(a) < copied[t] /\ copied[t] \in 0..MaxOut
  BY DEF LockInv, MemoryTyped
<1>7. /\ start[t] = (done.head - Back(t) + Size) % Size
      /\ \A i \in 1..Len(a) : a[i] = done.buffer[(start[t] + i - 1) % Size]
      /\ copied[t] = IF done.count > call[t].maxOut THEN call[t].maxOut ELSE done.count
  BY <1>1 DEF AtPoint, LocalsFit
<1>8. v = done.buffer[(start[t] + (Len(a) + 1) - 1) % Size]
  <2>1. start[t] + Len(a) = start[t] + (Len(a) + 1) - 1
    BY <1>2
  <2> QED BY <1>1, <2>1 DEF Unmoved
<1> HIDE DEF v, b
<1>9. MemoryTyped' /\ outArray'[t] = b
  BY <1>4, <1>5 DEF LockInv, MemoryTyped
<1>10. \A i \in 1..Len(b) : b[i] = done.buffer[(start[t] + i - 1) % Size]
  <2> SUFFICES ASSUME NEW i \in 1..Len(b)
               PROVE  b[i] = done.buffer[(start[t] + i - 1) % Size]
    OBVIOUS
  <2>1. CASE i \in 1..Len(a)
    BY <1>5, <1>7, <2>1
  <2>2. CASE i = Len(a) + 1
    BY <1>5, <1>8, <2>2
  <2> QED BY <1>2, <1>5, <2>1, <2>2
<1>11. LocalsFit(t)'
  <2>1. /\ pc'[t] = "copy" /\ start'[t] = start[t] /\ copied'[t] = copied[t]
        /\ call' = call /\ done' = done /\ Back(t)' = Back(t)
    BY DEF Back
  <2>2. Len(b) <= copied[t]
    BY <1>2, <1>5, <1>6, MaxOutAssumption
  <2> HIDE DEF CopyOne, a
  <2> QED BY <1>7, <1>9, <1>10, <2>1, <2>2 DEF LocalsFit
<1>12. AtPoint(t)'
  BY <1>1, <1>11 DEF AtPoint, CallFits, PushMoved, CopyMoved, Unmoved, Pushing, Popping
<1>13. pc' = [pc EXCEPT ![t] = pc[t]]
  BY DEF LockInv, MemoryTyped
<1>14. \A u \in Threads : u # t => outArray'[u] = outArray[u]
  BY <1>4 DEF LockInv, MemoryTyped
<1> DEFINE point == pc[t]
<1>15. point \in Inside /\ pc' = [pc EXCEPT ![t] = point]
  BY <1>1, <1>13
<1> HIDE DEF point
<1> QED BY <1>1, <1>9, <1>12, <1>14, <1>15, OwnerStep

LEMMA CopyDoneInv ==
  ASSUME LockInv, NEW t \in Threads, CopyDone(t)
  PROVE  LockInv'
<1> USE DEF CopyDone, At, GoTo, ring
<1>1. /\ AtPoint(t) /\ Unmoved /\ ~Pushing(t) /\ pc[t] \in Inside
      /\ pc'[t] = IF Popping(t) THEN "clear" ELSE "leave"
  BY DEF LockInv, AtPoint, CallFits, CopyMoved, Inside, MemoryTyped, Popping
<1>2. MemoryTyped'
  BY DEF LockInv, MemoryTyped, Points
<1>3. AtPoint(t)'
  BY <1>1 DEF AtPoint, CallFits, PushMoved, CopyMoved, LocalsFit, Unmoved, Pushing, Popping, Back
<1> QED BY <1>1, <1>2, <1>3, OwnerStep DEF Inside

LEMMA ClearCountInv ==
  ASSUME LockInv, NEW t \in Threads, ClearCount(t)
  PROVE  LockInv'
<1> USE DEF ClearCount, At, GoTo
<1>1. AtPoint(t) /\ Unmoved /\ Popping(t) /\ ~Pushing(t) /\ pc[t] \in Inside /\ pc'[t] = "leave"
  BY DEF LockInv, AtPoint, CallFits, CopyMoved, Inside, MemoryTyped
<1>2. MemoryTyped'
  BY SizeAssumption DEF LockInv, MemoryTyped, Points
<1>3. AtPoint(t)'
  BY <1>1 DEF AtPoint, CallFits, PushMoved, CopyMoved, LocalsFit, Unmoved, Pushing, Popping, Back
<1> QED BY <1>1, <1>2, <1>3, OwnerStep DEF Inside

LEMMA UnlockInv ==
  ASSUME LockInv, NEW t \in Threads, Unlock(t)
  PROVE  LockInv'
<1> USE DEF Unlock, At, GoTo, ring
<1>1. pc[t] \in Inside /\ pc'[t] = "out" /\ outArray'[t] = <<>>
  BY DEF LockInv, MemoryTyped, Inside
<1>2. done'.buffer = buffer /\ done'.head = head /\ done'.count = count
  <2> DEFINE returned == IF call[t].op = "push" THEN done.out ELSE outArray[t]
  <2>1. done' = [buffer |-> buffer, head |-> head, count |-> count, out |-> returned]
    OBVIOUS
  <2> HIDE DEF returned, Unlock
  <2> QED BY <2>1
<1>3. MemoryTyped' /\ DoneTyped'
  <2>1. 0 \in Slots /\ 0 \in 0..MaxOut /\ <<>> \in Seq(Samples \cup {Empty})
    BY SizeAssumption, MaxOutAssumption DEF Slots
  <2>2. MemoryTyped'
    BY <2>1 DEF LockInv, MemoryTyped, Points
  <2> QED BY <1>2, <2>2 DEF MemoryTyped, DoneTyped
<1>4. Owned' /\ Unmoved'
  BY <1>1, <1>2, Alone, NobodyAssumption DEF LockInv, MemoryTyped, Owned, Unmoved, Inside
<1>5. ASSUME NEW u \in Threads PROVE AtPoint(u)'
  <2>1. CASE u = t
    BY <1>1, <2>1 DEF AtPoint, CallFits, PushMoved, CopyMoved, LocalsFit
  <2>2. CASE u # t
    <3>1. pc[u] \notin Inside /\ pc'[u] = pc[u] /\ call'[u] = call[u] /\ outArray'[u] = outArray[u]
      BY <1>1, <2>2, Alone DEF LockInv, MemoryTyped
    <3> QED BY <3>1, OutsideStays
  <2> QED BY <2>1, <2>2
<1> QED BY <1>3, <1>4, <1>5 DEF LockInv

LEMMA LockInvNext == LockInv /\ [Next]_vars => LockInv'
<1> SUFFICES ASSUME LockInv, [Next]_vars PROVE LockInv'
  OBVIOUS
<1>1. CASE UNCHANGED vars
  BY <1>1 DEF vars, LockInv, MemoryTyped, DoneTyped, Owned, Unmoved, AtPoint, CallFits,
              PushMoved, CopyMoved, LocalsFit, Pushing, Popping, Back
<1>2. CASE Next
  BY <1>2, EnterInv, LockStepInv, WriteSlotInv, AdvanceHeadInv, IncrementCountInv,
     ReadCountInv, ReadStartInv, CopyOneInv, CopyDoneInv, ClearCountInv, UnlockInv DEF Next
<1> QED BY <1>1, <1>2

LEMMA LockInvAlways == Spec => []LockInv
BY LockInvInit, LockInvNext, PTL DEF Spec

-----------------------------------------------------------------------------
(* The calls are atomic.                                                   *)

(* What the caller's array holds when a copy-out function returns.         *)
LEMMA ReturnedCopy ==
  ASSUME LockInv, NEW t \in Threads, pc[t] = "leave", ~Pushing(t)
  PROVE  /\ copied[t] = Atomic!Copied(call[t].maxOut)
         /\ outArray[t] = Atomic!CopyOut(Back(t), copied[t])
<1>1. /\ copied[t] = IF done.count > call[t].maxOut THEN call[t].maxOut ELSE done.count
      /\ start[t] = (done.head - Back(t) + Size) % Size
      /\ \A i \in 1..Len(outArray[t]) :
           outArray[t][i] = done.buffer[(start[t] + i - 1) % Size]
      /\ Len(outArray[t]) = copied[t]
  BY DEF LockInv, AtPoint, LocalsFit
<1>2. outArray[t] \in Seq(Samples \cup {Empty})
  BY DEF LockInv, MemoryTyped
<1>3. outArray[t] = [i \in 1..Len(outArray[t]) |-> outArray[t][i]]
  BY <1>2
<1> QED BY <1>1, <1>3 DEF Atomic!Copied, Atomic!CopyOut

(* A call takes effect when it returns.                                    *)
LEMMA UnlockIsCall ==
  ASSUME LockInv, NEW t \in Threads, Unlock(t)
  PROVE  Atomic!Next
<1> DEFINE returned == IF call[t].op = "push" THEN done.out ELSE outArray[t]
<1>1. done' = [buffer |-> buffer, head |-> head, count |-> count, out |-> returned]
  BY DEF Unlock
<1>2. /\ done'.buffer = buffer /\ done'.head = head /\ done'.count = count
      /\ done'.out = returned
  <2> HIDE DEF returned
  <2> QED BY <1>1
<1>3. AtPoint(t) /\ pc[t] = "leave" /\ call[t] \in Calls
  BY DEF LockInv, Unlock, At, AtPoint, CallFits
<1>4. CASE Pushing(t)
  <2>1. call[t].sample \in Samples
    BY <1>3, <1>4 DEF Calls, Pushing
  <2>2. /\ buffer = [done.buffer EXCEPT ![done.head] = call[t].sample]
        /\ head = (done.head + 1) % Size
        /\ count = IF done.count < Size THEN done.count + 1 ELSE done.count
    BY <1>3, <1>4 DEF AtPoint, PushMoved
  <2>3. Atomic!Push(call[t].sample)
    BY <1>2, <1>4, <2>2 DEF Atomic!Push, Atomic!NextHead, Atomic!CountAfterPush, Pushing
  <2> QED BY <2>1, <2>3 DEF Atomic!Next
<1>5. CASE ~Pushing(t)
  <2>1. call[t].maxOut \in 0..MaxOut /\ call[t].op \in {"peek", "pop"}
    BY <1>3, <1>5 DEF Calls, Pushing
  <2>2. /\ buffer = done.buffer /\ head = done.head
        /\ count = IF Popping(t) THEN 0 ELSE done.count
    BY <1>3, <1>5 DEF AtPoint, CopyMoved
  <2>3. /\ copied[t] = Atomic!Copied(call[t].maxOut)
        /\ done'.out = Atomic!CopyOut(Back(t), copied[t])
    BY <1>2, <1>3, <1>5, ReturnedCopy DEF Pushing
  <2>4. CASE call[t].op = "peek"
    <3>1. Atomic!PeekAll(call[t].maxOut)
      BY <1>2, <2>2, <2>3, <2>4 DEF Atomic!PeekAll, Back, Popping
    <3> QED BY <2>1, <3>1 DEF Atomic!Next
  <2>5. CASE call[t].op = "pop"
    <3>1. Atomic!PopAll(call[t].maxOut)
      BY <1>2, <2>2, <2>3, <2>5 DEF Atomic!PopAll, Back, Popping
    <3> QED BY <2>1, <3>1 DEF Atomic!Next
  <2> QED BY <2>1, <2>4, <2>5
<1> QED BY <1>4, <1>5

(* Every interleaving of the threads' statements on the ring is a sequence *)
(* of whole pushes, peeks and pops (the pthread_mutex_lock(&buf->lock) of  *)
(* logBufferBase.c).                                                       *)
THEOREM CallsAreAtomicAlways == Spec => CallsAreAtomic
<1>1. Init => Atomic!Init
  BY DEF Init, Slots, Atomic!Init, Atomic!Slots
<1>2. ASSUME LockInv, [Next]_vars
      PROVE  [Atomic!Next]_(Atomic!vars)
  <2>1. CASE \E t \in Threads : Unlock(t)
    BY <1>2, <2>1, UnlockIsCall
  <2>2. CASE ~ \E t \in Threads : Unlock(t)
    <3>1. UNCHANGED done
      BY <1>2, <2>2 DEF Next, vars, Enter, Lock, WriteSlot, AdvanceHead, IncrementCount,
                        ReadCount, ReadStart, CopyOne, CopyDone, ClearCount
    <3> QED BY <3>1 DEF Atomic!vars
  <2> QED BY <2>1, <2>2
<1> QED BY <1>1, <1>2, LockInvAlways, PTL DEF Spec, CallsAreAtomic, Atomic!Spec

-----------------------------------------------------------------------------
(* What is proved of LogBuffer holds of the calls.                         *)

Ring == INSTANCE LogBufferProofs WITH buffer <- done.buffer, head <- done.head,
                                      count <- done.count, out <- done.out

LEMMA RingSpec == Spec => Ring!Spec
<1>1. CallsAreAtomic => Ring!Spec
  BY DEF CallsAreAtomic, Atomic!Spec, Atomic!Init, Atomic!Next, Atomic!vars, Atomic!Push,
         Atomic!PeekAll, Atomic!PopAll, Atomic!Slots, Atomic!NextHead,
         Atomic!CountAfterPush, Atomic!CopyOut, Atomic!Copied,
         Ring!Spec, Ring!Init, Ring!Next, Ring!vars, Ring!Push, Ring!PeekAll,
         Ring!PopAll, Ring!Slots, Ring!NextHead, Ring!CountAfterPush, Ring!CopyOut,
         Ring!Copied
<1> QED BY <1>1, CallsAreAtomicAlways, PTL

(* Memory, locals and what a call returns have their types: no call ever   *)
(* returns a slot that no push has written.                                *)
THEOREM TypeCorrect == Spec => []TypeOK
<1>1. Spec => []Ring!RingInv
  BY RingSpec, Ring!RingInvAlways, SizeAssumption, MaxOutAssumption, EmptyAssumption, PTL
<1>2. LockInv /\ Ring!RingInv => TypeOK
  BY DEF LockInv, MemoryTyped, TypeOK, Ring!RingInv, Ring!OnlyPushedSamples
<1> QED BY <1>1, <1>2, LockInvAlways, PTL

(* From the threads' single statements to the promise: whatever the        *)
(* interleaving, the calls that have returned slide, read and empty one    *)
(* window over the last Size samples pushed.                               *)
THEOREM CallsSlideTheWindow == Spec => Ring!ImplementsWindow
BY RingSpec, Ring!Refinement, SizeAssumption, MaxOutAssumption, EmptyAssumption, PTL
=============================================================================
