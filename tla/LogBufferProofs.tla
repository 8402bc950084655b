--------------------------- MODULE LogBufferProofs --------------------------
(***************************************************************************)
(* For every capacity, every max_out bound and every set of samples: the   *)
(* ring of LogBuffer is type correct, never returns a slot that was not    *)
(* pushed, and implements the sliding window of SampleWindow.              *)
(***************************************************************************)
EXTENDS LogBuffer, SequenceTheorems, TLAPS

-----------------------------------------------------------------------------
(* Indices: the code computes every index with one wrap at most.           *)

(* An index below Size is left alone by % Size.                            *)
LEMMA ModSmall ==
  ASSUME NEW x \in Int, 0 <= x, x < Size
  PROVE  x % Size = x
  BY SizeAssumption

(* An index in the second lap comes back by one Size.                      *)
LEMMA ModWrap ==
  ASSUME NEW x \in Int, Size <= x, x < 2 * Size
  PROVE  x % Size = x - Size
  BY SizeAssumption

(* Both laps at once: the form the later steps use.                        *)
LEMMA ModOneWrap ==
  ASSUME NEW x \in Int, 0 <= x, x < 2 * Size
  PROVE  x % Size = IF x < Size THEN x ELSE x - Size
  BY SizeAssumption, ModSmall, ModWrap

(* log_buffer_push advances head to the next slot, the last wraps to 0.    *)
LEMMA NextHeadValue ==
  ASSUME NEW h \in Slots
  PROVE  /\ NextHead(h) \in Slots
         /\ NextHead(h) = IF h + 1 = Size THEN 0 ELSE h + 1
  BY SizeAssumption, ModOneWrap DEF NextHead, Slots

(* The slot of the i-th of the c newest samples before head h.             *)
SlotOf(h, c, i) == (h - c + Size + i - 1) % Size

(* An index before slot 0 is one at the end of the ring.                   *)
Wrapped(x) == IF x < 0 THEN x + Size ELSE x

LEMMA SlotOfValue ==
  ASSUME NEW h \in Slots, NEW c \in 0..Size, NEW i \in 1..c
  PROVE  /\ SlotOf(h, c, i) \in Slots
         /\ SlotOf(h, c, i) = Wrapped(h - c + i - 1)
  <1> DEFINE x == h - c + Size + i - 1
  <1>1. x \in Int /\ 0 <= x /\ x < 2 * Size
    BY SizeAssumption DEF Slots
  <1>2. x % Size = IF x < Size THEN x ELSE x - Size
    BY <1>1, ModOneWrap
  <1>3. QED
    BY <1>1, <1>2, SizeAssumption DEF SlotOf, Slots, Wrapped

(* Reducing start modulo Size first, as the code does, gives the same slot. *)
LEMMA StartThenOffset ==
  ASSUME NEW h \in Slots, NEW c \in 0..Size, NEW i \in 1..c
  PROVE  (((h - c + Size) % Size) + i - 1) % Size = SlotOf(h, c, i)
  <1> DEFINE a == h - c + Size
             start == a % Size
  <1>1. a \in Int /\ 0 <= a /\ a < 2 * Size
    BY SizeAssumption DEF Slots
  <1>2. start = IF a < Size THEN a ELSE a - Size
    BY <1>1, ModOneWrap
  <1> DEFINE x == start + i - 1
  <1>3. x \in Int /\ 0 <= x /\ x < 2 * Size
    BY <1>1, <1>2, SizeAssumption DEF Slots
  <1>4. x % Size = IF x < Size THEN x ELSE x - Size
    BY <1>3, ModOneWrap
  <1>5. SlotOf(h, c, i) = Wrapped(h - c + i - 1)
    BY SlotOfValue
  <1>6. QED
    BY <1>1, <1>2, <1>4, <1>5, SizeAssumption DEF Slots, Wrapped

-----------------------------------------------------------------------------
(* Type correctness and what a caller receives.                            *)

(* What a copy-out loop of peek or pop writes: n of the c newest samples.  *)
LEMMA CopyOutValue ==
  ASSUME RingInv, NEW c \in 0..count, NEW n \in 0..c
  PROVE  /\ CopyOut(c, n) = [i \in 1..n |-> Contents[count - c + i]]
         /\ CopyOut(c, n) \in Seq(Samples)
  <1>1. head \in Slots /\ count \in 0..Size /\ c \in 0..Size
    BY SizeAssumption DEF RingInv, TypeOK
  <1>2. ASSUME NEW i \in 1..n
        PROVE  /\ count - c + i \in 1..count
               /\ buffer[(((head - c + Size) % Size) + i - 1) % Size]
                    = Contents[count - c + i]
    <2>1. i \in 1..c /\ count - c + i \in 1..count
      BY <1>1
    <2>2. (((head - c + Size) % Size) + i - 1) % Size = SlotOf(head, c, i)
      BY <1>1, <2>1, StartThenOffset
    <2>3. SlotOf(head, c, i) = SlotOf(head, count, count - c + i)
      <3>1. SlotOf(head, c, i) = Wrapped(head - c + i - 1)
        BY <1>1, <2>1, SlotOfValue
      <3> DEFINE j == count - c + i
      <3>2. SlotOf(head, count, j) = Wrapped(head - count + j - 1)
        <4>1. j \in 1..count
          BY <2>1
        <4> HIDE DEF j
        <4>2. QED
          BY <1>1, <4>1, SlotOfValue
      <3>3. head - count + j - 1 = head - c + i - 1
        BY <1>1, <2>1 DEF Slots
      <3>4. QED
        BY <3>1, <3>2, <3>3
    <2>4. QED
      BY <2>1, <2>2, <2>3 DEF Contents, SlotOf
  <1>3. CopyOut(c, n) = [i \in 1..n |-> Contents[count - c + i]]
    BY <1>2 DEF CopyOut
  <1>4. \A i \in 1..n : Contents[count - c + i] \in Samples
    BY <1>2 DEF RingInv, HeldSlotsPushed
  <1>5. n \in Nat
    BY <1>1
  <1>6. QED
    BY <1>3, <1>4, <1>5

(* A push appends its sample to the contents; a full ring loses the oldest. *)
LEMMA PushContents ==
  ASSUME RingInv, NEW s \in Samples, Push(s)
  PROVE  /\ count < Size =>
              /\ count' = count + 1
              /\ \A i \in 1..count : Contents'[i] = Contents[i]
         /\ count = Size =>
              /\ count' = count
              /\ \A i \in 1..(count - 1) : Contents'[i] = Contents[i + 1]
         /\ Contents'[count'] = s
  <1> USE SizeAssumption
  <1>1. head \in Slots /\ count \in 0..Size /\ buffer \in [Slots -> Samples \cup {Empty}]
    BY DEF RingInv, TypeOK
  <1>2. /\ head' \in Slots
        /\ head' = IF head + 1 = Size THEN 0 ELSE head + 1
    BY <1>1, NextHeadValue DEF Push
  <1>3. count' = IF count < Size THEN count + 1 ELSE count
    BY DEF Push, CountAfterPush
  <1>4. count' \in 1..Size
    BY <1>1, <1>3
  <1>5. \A i \in 1..count' : Contents'[i] = buffer'[SlotOf(head', count', i)]
    BY DEF Contents, SlotOf
  <1>6. \A i \in 1..count : Contents[i] = buffer[SlotOf(head, count, i)]
    BY DEF Contents, SlotOf
  <1>7. SlotOf(head', count', count') = head
    <2>1. count' \in 0..Size /\ count' \in 1..count'
      BY <1>4
    <2>2. SlotOf(head', count', count') = Wrapped(head' - count' + count' - 1)
      BY <1>2, <2>1, SlotOfValue
    <2>3. head' - count' + count' - 1 = head' - 1
      BY <1>2, <1>4 DEF Slots
    <2>4. QED
      BY <1>1, <1>2, <2>2, <2>3 DEF Slots, Wrapped
  <1>8. Contents'[count'] = s
    BY <1>1, <1>4, <1>5, <1>7 DEF Push
  <1>9. ASSUME count < Size
        PROVE  \A i \in 1..count : Contents'[i] = Contents[i]
    <2> SUFFICES ASSUME NEW i \in 1..count PROVE Contents'[i] = Contents[i]
      OBVIOUS
    <2>1. count' \in 0..Size /\ i \in 1..count'
      BY <1>1, <1>3, <1>4, <1>9
    <2>2. SlotOf(head', count', i) = Wrapped(head' - count' + i - 1)
      BY <1>2, <2>1, SlotOfValue
    <2>3. /\ SlotOf(head, count, i) = Wrapped(head - count + i - 1)
          /\ SlotOf(head, count, i) \in Slots
      BY <1>1, SlotOfValue
    <2>4. SlotOf(head', count', i) = SlotOf(head, count, i)
      BY <1>1, <1>2, <1>3, <1>9, <2>2, <2>3 DEF Slots, Wrapped
    <2>5. SlotOf(head, count, i) \in Slots \ {head}
      BY <1>1, <1>9, <2>3 DEF Slots, Wrapped
    <2>6. QED
      BY <1>1, <1>3, <1>5, <1>6, <1>9, <2>4, <2>5 DEF Push
  <1>10. ASSUME count = Size
         PROVE  \A i \in 1..(count - 1) : Contents'[i] = Contents[i + 1]
    <2> SUFFICES ASSUME NEW i \in 1..(count - 1)
                 PROVE  Contents'[i] = Contents[i + 1]
      OBVIOUS
    <2>1. i \in 1..count' /\ i + 1 \in 1..count
      BY <1>1, <1>3, <1>10
    <2>2. SlotOf(head', count', i) = Wrapped(head' - count' + i - 1)
      <3>1. count' \in 0..Size
        BY <1>4
      <3>2. QED
        BY <1>2, <2>1, <3>1, SlotOfValue
    <2> DEFINE j == i + 1
    <2>3. /\ SlotOf(head, count, j) = Wrapped(head - count + j - 1)
          /\ SlotOf(head, count, j) \in Slots
      <3> HIDE DEF j
      <3>1. j \in 1..count
        BY <2>1 DEF j
      <3>2. QED
        BY <1>1, <3>1, SlotOfValue
    <2>4. SlotOf(head', count', i) = SlotOf(head, count, i + 1)
      BY <1>1, <1>2, <1>3, <1>10, <2>2, <2>3 DEF Slots, Wrapped
    <2>5. SlotOf(head, count, i + 1) \in Slots \ {head}
      BY <1>1, <1>10, <2>3 DEF Slots, Wrapped
    <2>6. QED
      BY <1>1, <1>5, <1>6, <2>1, <2>4, <2>5 DEF Push
  <1>11. QED
    BY <1>3, <1>8, <1>9, <1>10

-----------------------------------------------------------------------------
(* RingInv is inductive.                                                   *)

LEMMA RingInvInit == Init => RingInv
  <1> SUFFICES ASSUME Init PROVE RingInv
    OBVIOUS
  <1> USE SizeAssumption DEF Init
  <1>1. TypeOK
    BY DEF TypeOK, Slots
  <1>2. HeldSlotsPushed
    BY DEF HeldSlotsPushed
  <1>3. OnlyPushedSamples
    BY DEF OnlyPushedSamples
  <1>4. QED
    BY <1>1, <1>2, <1>3 DEF RingInv

(* max_out is a natural number: copied is at most count.                   *)
LEMMA CopiedValue ==
  ASSUME RingInv, NEW m \in 0..MaxOut
  PROVE  /\ Copied(m) \in 0..count
         /\ Copied(m) = IF Len(Contents) <= m THEN Len(Contents) ELSE m
         /\ Len(Contents) = count
  BY SizeAssumption, MaxOutAssumption DEF RingInv, TypeOK, Copied, Contents

LEMMA RingInvPush ==
  ASSUME RingInv, NEW s \in Samples, Push(s)
  PROVE  RingInv'
  <1> USE SizeAssumption
  <1>1. head \in Slots /\ count \in 0..Size /\ buffer \in [Slots -> Samples \cup {Empty}]
    BY DEF RingInv, TypeOK
  <1>2. head' \in Slots
    BY <1>1, NextHeadValue DEF Push
  <1>3. count' \in 0..Size
    BY <1>1 DEF Push, CountAfterPush
  <1>4. buffer' \in [Slots -> Samples \cup {Empty}]
    BY <1>1 DEF Push
  <1>5. OnlyPushedSamples' /\ (out \in Seq(Samples \cup {Empty}))'
    BY DEF Push, OnlyPushedSamples, RingInv, TypeOK
  <1>6. ASSUME NEW i \in 1..count'
        PROVE  Contents'[i] \in Samples
    <2>1. CASE i = count'
      BY <2>1, PushContents
    <2>2. CASE i # count' /\ count < Size
      <3>1. i \in 1..count /\ Contents'[i] = Contents[i]
        BY <1>1, <2>2, PushContents
      <3>2. QED
        BY <3>1 DEF RingInv, HeldSlotsPushed
    <2>3. CASE i # count' /\ count = Size
      <3>1. i \in 1..(count - 1) /\ Contents'[i] = Contents[i + 1]
        BY <1>1, <2>3, PushContents
      <3>2. i + 1 \in 1..count
        BY <1>1, <3>1
      <3>3. QED
        BY <3>1, <3>2 DEF RingInv, HeldSlotsPushed
    <2>4. QED
      BY <1>1, <2>1, <2>2, <2>3
  <1>7. QED
    BY <1>2, <1>3, <1>4, <1>5, <1>6 DEF RingInv, TypeOK, HeldSlotsPushed

LEMMA RingInvCopyOut ==
  ASSUME RingInv, NEW m \in 0..MaxOut, PeekAll(m) \/ PopAll(m)
  PROVE  RingInv'
  <1>1. count \in 0..count /\ Copied(m) \in 0..count /\ Copied(m) \in 0..Copied(m)
    BY CopiedValue DEF RingInv, TypeOK
  <1>2. out' \in Seq(Samples)
    BY <1>1, CopyOutValue DEF PeekAll, PopAll
  <1>3. OnlyPushedSamples' /\ (out \in Seq(Samples \cup {Empty}))'
    BY <1>2 DEF OnlyPushedSamples
  <1>4. (count \in 0..Size)' /\ (head \in Slots)' /\ (buffer \in [Slots -> Samples \cup {Empty}])'
    BY SizeAssumption DEF RingInv, TypeOK, PeekAll, PopAll
  <1>5. HeldSlotsPushed'
    BY DEF PeekAll, PopAll, RingInv, HeldSlotsPushed, Contents
  <1>6. QED
    BY <1>3, <1>4, <1>5 DEF RingInv, TypeOK

LEMMA RingInvStep == RingInv /\ [Next]_vars => RingInv'
  <1> SUFFICES ASSUME RingInv, [Next]_vars PROVE RingInv'
    OBVIOUS
  <1>1. CASE \E s \in Samples : Push(s)
    BY <1>1, RingInvPush
  <1>2. CASE \E m \in 0..MaxOut : PeekAll(m) \/ PopAll(m)
    BY <1>2, RingInvCopyOut
  <1>3. CASE UNCHANGED vars
    BY <1>3 DEF vars, RingInv, TypeOK, HeldSlotsPushed, OnlyPushedSamples, Contents
  <1>4. QED
    BY <1>1, <1>2, <1>3 DEF Next

LEMMA RingInvAlways == Spec => []RingInv
  BY RingInvInit, RingInvStep, PTL DEF Spec

(* The indices of every reachable ring are in range and its slots typed.   *)
THEOREM TypeCorrect == Spec => []TypeOK
  <1>1. RingInv => TypeOK
    BY DEF RingInv
  <1>2. QED
    BY <1>1, RingInvAlways, PTL

(* No peek or pop of any length returns a slot calloc left empty, for any  *)
(* capacity (log_buffer_peek_all and log_buffer_pop_all).                  *)
THEOREM NothingUnpushed == Spec => []OnlyPushedSamples
  <1>1. RingInv => OnlyPushedSamples
    BY DEF RingInv
  <1>2. QED
    BY <1>1, RingInvAlways, PTL

-----------------------------------------------------------------------------
(* The ring implements the window.                                         *)

LEMMA ContentsSeq ==
  ASSUME RingInv
  PROVE  /\ Contents \in Seq(Samples)
         /\ Len(Contents) = count
         /\ DOMAIN Contents = 1..count
  <1>1. count \in Nat
    BY SizeAssumption DEF RingInv, TypeOK
  <1>2. Contents = [i \in 1..count |-> Contents[i]]
    BY DEF Contents
  <1>3. \A i \in 1..count : Contents[i] \in Samples
    BY DEF RingInv, HeldSlotsPushed
  <1>4. QED
    BY <1>1, <1>2, <1>3

LEMMA PushSlides ==
  ASSUME RingInv, RingInv', NEW s \in Samples, Push(s)
  PROVE  Window!WindowPush(s)
  <1> USE SizeAssumption
  <1>1. count \in 0..Size
    BY DEF RingInv, TypeOK
  <1>2. /\ Contents \in Seq(Samples) /\ Len(Contents) = count
        /\ Contents' \in Seq(Samples) /\ Len(Contents') = count'
    <2>1. Contents' = [i \in 1..count' |-> Contents'[i]]
      BY DEF Contents
    <2>2. count' \in Nat /\ \A i \in 1..count' : Contents'[i] \in Samples
      BY DEF RingInv, TypeOK, HeldSlotsPushed
    <2>3. Contents' \in Seq(Samples) /\ Len(Contents') = count'
      BY <2>1, <2>2
    <2>4. QED
      BY <2>3, ContentsSeq
  <1>3. CASE count < Size
    <2>1. count' = count + 1 /\ \A i \in 1..count : Contents'[i] = Contents[i]
      BY <1>3, PushContents
    <2>2. Contents'[count'] = s
      BY PushContents
    <2>3. Contents' = Append(Contents, s)
      <3> DEFINE a == Append(Contents, s)
      <3>1. a \in Seq(Samples) /\ Len(a) = count + 1
        BY <1>2
      <3>2. ASSUME NEW i \in 1..(count + 1) PROVE Contents'[i] = a[i]
        BY <1>1, <1>2, <2>1, <2>2
      <3> HIDE DEF a
      <3>3. QED
        <4> DEFINE c == Contents'
        <4>1. \A i \in 1..Len(c) : c[i] = a[i]
          BY <1>2, <2>1, <3>2
        <4>2. c \in Seq(Samples) /\ Len(c) = Len(a)
          BY <1>2, <2>1, <3>1
        <4>3. c = a
          <5> HIDE DEF c
          <5>1. QED
            BY <3>1, <4>1, <4>2, SeqEqual
        <4>4. QED
          BY <4>3 DEF a
    <2>4. QED
      BY <1>2, <1>3, <2>3 DEF Window!WindowPush, Window!Slide, Push
  <1>4. CASE count = Size
    <2>1. count' = count /\ \A i \in 1..(count - 1) : Contents'[i] = Contents[i + 1]
      BY <1>4, PushContents
    <2>2. Contents'[count'] = s
      BY PushContents
    <2> DEFINE t == Tail(Contents)
    <2>3. /\ t \in Seq(Samples) /\ Len(t) = count - 1
          /\ \A i \in 1..(count - 1) : t[i] = Contents[i + 1]
      BY <1>1, <1>2, <1>4
    <2>4. Contents' = Append(t, s)
      <3> DEFINE a == Append(t, s)
      <3> HIDE DEF t
      <3>1. a \in Seq(Samples) /\ Len(a) = count
        BY <1>1, <2>3
      <3>2. ASSUME NEW i \in 1..count PROVE Contents'[i] = a[i]
        BY <1>1, <1>4, <2>1, <2>2, <2>3
      <3> HIDE DEF a
      <3>3. QED
        <4> DEFINE c == Contents'
        <4>1. \A i \in 1..Len(c) : c[i] = a[i]
          BY <1>2, <2>1, <3>2
        <4>2. c \in Seq(Samples) /\ Len(c) = Len(a)
          BY <1>2, <2>1, <3>1
        <4>3. c = a
          <5> HIDE DEF c
          <5>1. QED
            BY <3>1, <4>1, <4>2, SeqEqual
        <4>4. QED
          BY <4>3 DEF a
    <2>5. QED
      BY <1>2, <1>4, <2>4 DEF Window!WindowPush, Window!Slide, Push
  <1>5. QED
    BY <1>1, <1>3, <1>4

LEMMA PeekReturnsOldest ==
  ASSUME RingInv, NEW m \in 0..MaxOut, PeekAll(m)
  PROVE  Window!WindowPeekAll(m)
  <1>1. count \in Int /\ count \in 0..count
    BY SizeAssumption DEF RingInv, TypeOK
  <1> DEFINE n == Copied(m)
  <1>2. n \in 0..count
    BY CopiedValue
  <1>3. CopyOut(count, n) = [i \in 1..n |-> Contents[count - count + i]]
    BY <1>1, <1>2, CopyOutValue
  <1>4. \A i \in 1..n : count - count + i = i
    BY <1>1, <1>2
  <1>5. out' = [i \in 1..n |-> Contents[i]]
    BY <1>3, <1>4 DEF PeekAll
  <1>6. UNCHANGED Contents
    BY DEF PeekAll, Contents
  <1>7. QED
    BY <1>5, <1>6, CopiedValue DEF Window!WindowPeekAll, Window!Oldest

LEMMA PopReturnsNewest ==
  ASSUME RingInv, NEW m \in 0..MaxOut, PopAll(m)
  PROVE  Window!WindowPopAll(m)
  <1> DEFINE n == Copied(m)
  <1>1. n \in 0..count /\ n \in 0..n
    BY CopiedValue DEF RingInv, TypeOK
  <1>2. out' = [i \in 1..n |-> Contents[count - n + i]]
    BY <1>1, CopyOutValue DEF PopAll
  <1>3. Contents' = <<>>
    BY DEF PopAll, Contents
  <1>4. QED
    BY <1>2, <1>3, CopiedValue DEF Window!WindowPopAll, Window!Newest

(* For every capacity, a log_buffer_push, _peek_all or _pop_all on the ring *)
(* is the same operation on a window of the last Size samples.             *)
THEOREM Refinement == Spec => ImplementsWindow
  <1>1. Init => Window!WindowInit
    BY DEF Init, Contents, Window!WindowInit
  <1>2. RingInv /\ RingInv' /\ [Next]_vars => [Window!WindowNext]_(Window!windowVars)
    <2> SUFFICES ASSUME RingInv, RingInv', [Next]_vars
                 PROVE  Window!WindowNext \/ UNCHANGED Window!windowVars
      OBVIOUS
    <2>1. CASE \E s \in Samples : Push(s)
      BY <2>1, PushSlides DEF Window!WindowNext
    <2>2. CASE \E m \in 0..MaxOut : PeekAll(m) \/ PopAll(m)
      BY <2>2, PeekReturnsOldest, PopReturnsNewest DEF Window!WindowNext
    <2>3. CASE UNCHANGED vars
      BY <2>3 DEF vars, Contents, Window!windowVars
    <2>4. QED
      BY <2>1, <2>2, <2>3 DEF Next
  <1>3. QED
    BY <1>1, <1>2, RingInvAlways, PTL DEF Spec, ImplementsWindow, Window!WindowSpec
=============================================================================
