--------------------------- MODULE LogValuesProofs --------------------------
(***************************************************************************)
(* For every buffer size, clock that is not set back, garbage value and    *)
(* configuration: the two timestamp marks of LogValues keep the log thread *)
(* from posting or writing a sample twice and the data file in order; if   *)
(* the clock advances from push to push, no cycle passes over a sample.    *)
(***************************************************************************)
EXTENDS LogValues, TLAPS

-----------------------------------------------------------------------------
(* The inductive invariant.                                                *)

Increasing(seq) == \A j \in 1..Len(seq), k \in 1..Len(seq) : j < k => seq[j] < seq[k]

(* The clock is not set back while the service runs.                       *)
StampsOrdered == \A m \in 1..Pushed, n \in 1..Pushed : m <= n => stamp[m] <= stamp[n]

(* Until it is freed, the buffer ends with the newest sample, and so will  *)
(* the next peek.                                                          *)
WindowOrdered ==
  /\ Increasing(window)
  /\ Pushed > 0 /\ pc # "stopped" => window # <<>> /\ LastOf(window) = Pushed

OutOrdered == Increasing(out)

(* What has been posted is covered by the last peek and by the mark.  An   *)
(* empty peek, the one that puts garbage into the mark, comes before every *)
(* post.                                                                   *)
PostedCovered ==
  \A p \in posted : out # <<>> /\ p <= LastOf(out) /\ stamp[p] <= lastInflux

BatchNewer ==
  pc = "send" => \A b \in batch : b \in SamplesOf(out) /\ stamp[b] > lastInflux

(* What has been written is covered by the mark, or the file loop of this  *)
(* very cycle has passed it.                                               *)
WrittenCovered ==
  \A w \in written :
    /\ LogToFile
    /\ out # <<>> /\ w <= LastOf(out)
    /\ \/ stamp[w] <= lastFile
       \/ pc = "file" /\ \E k \in 1..Len(out) : i < k /\ w = out[k]

IndexInOut == i <= Len(out) /\ (pc \notin {"send", "file"} => i = 0)

PipelineInv ==
  /\ TypeOK
  /\ StampsOrdered /\ WindowOrdered /\ OutOrdered
  /\ PostedCovered /\ BatchNewer /\ WrittenCovered /\ IndexInOut

-----------------------------------------------------------------------------
(* Sequences whose elements lie in a set.                                  *)

LEMMA SeqElements ==
  ASSUME NEW T, NEW q \in Seq(T)
  PROVE  /\ Len(q) \in Nat
         /\ \A k \in 1..Len(q) : q[k] \in T
         /\ q # <<>> => Len(q) \in 1..Len(q)
         /\ q = <<>> <=> Len(q) = 0
  <1>1. Len(q) \in Nat /\ \A k \in 1..Len(q) : q[k] \in T
    OBVIOUS
  <1>2. q = <<>> <=> Len(q) = 0
    OBVIOUS
  <1>3. QED
    BY <1>1, <1>2

LEMMA SeqInto ==
  ASSUME NEW T, NEW S, NEW q \in Seq(T), \A k \in 1..Len(q) : q[k] \in S
  PROVE  q \in Seq(S)
  OBVIOUS

-----------------------------------------------------------------------------
(* The initial state.                                                      *)

LEMMA InitInv == Init => PipelineInv
  <1> SUFFICES ASSUME Init PROVE PipelineInv
    OBVIOUS
  <1> USE SizeAssumption DEF Init, WindowInit
  <1>1. TypeOK
    <2>1. Pushed = 0 /\ <<>> \in Seq(1..Pushed) /\ <<>> \in Seq(Nat) /\ Len(<<>>) = 0
      BY DEF Pushed
    <2>2. /\ window \in Seq(1..Pushed) /\ Len(window) <= Size
          /\ out \in Seq(1..Pushed) /\ Len(out) <= Size
          /\ file \in Seq(1..Pushed) /\ stamp \in Seq(Nat)
      BY <2>1
    <2>3. i \in 0..Size /\ blockStart \in Nat /\ lastInflux \in Nat /\ lastFile \in Nat
      OBVIOUS
    <2>4. QED
      BY <2>2, <2>3 DEF TypeOK
  <1>2. StampsOrdered /\ WindowOrdered /\ OutOrdered
    BY DEF StampsOrdered, WindowOrdered, OutOrdered, Increasing, Pushed
  <1>3. PostedCovered /\ BatchNewer /\ WrittenCovered /\ IndexInOut
    BY DEF PostedCovered, BatchNewer, WrittenCovered, IndexInOut
  <1>4. QED
    BY <1>1, <1>2, <1>3 DEF PipelineInv

-----------------------------------------------------------------------------
(* The sensor.                                                             *)

(* A window slides: it stays increasing and ends with the new sample.      *)
LEMMA SlideIncreasing ==
  ASSUME NEW w \in Seq(Nat), NEW s \in Nat, Len(w) <= Size,
         Increasing(w), \A k \in 1..Len(w) : w[k] < s
  PROVE  /\ Slide(w, s) \in Seq(Nat)
         /\ Len(Slide(w, s)) \in 1..Size
         /\ LastOf(Slide(w, s)) = s
         /\ Increasing(Slide(w, s))
         /\ \A k \in 1..Len(Slide(w, s)) :
              Slide(w, s)[k] = s \/ \E j \in 1..Len(w) : Slide(w, s)[k] = w[j]
  <1> USE SizeAssumption
  <1> DEFINE kept == IF Len(w) < Size THEN w ELSE Tail(w)
  <1>1. /\ kept \in Seq(Nat) /\ Len(kept) < Size
        /\ \A k \in 1..Len(kept) : \E j \in 1..Len(w) : kept[k] = w[j]
        /\ \A k \in 1..Len(kept) : kept[k] < s
        /\ Increasing(kept)
    <2>1. CASE Len(w) < Size
      BY <2>1
    <2>2. CASE Len(w) = Size
      <3>1. /\ Tail(w) \in Seq(Nat) /\ Len(Tail(w)) = Len(w) - 1
            /\ \A k \in 1..(Len(w) - 1) : Tail(w)[k] = w[k + 1] /\ k + 1 \in 1..Len(w)
        BY <2>2
      <3>2. \A j \in 1..(Len(w) - 1), k \in 1..(Len(w) - 1) : j < k => w[j + 1] < w[k + 1]
        BY DEF Increasing
      <3>3. QED
        BY <2>2, <3>1, <3>2 DEF Increasing
    <2>3. QED
      BY <2>1, <2>2
  <1> DEFINE v == Append(kept, s)
  <1>2. Slide(w, s) = v
    BY DEF Slide
  <1> HIDE DEF kept
  <1>3. /\ v \in Seq(Nat) /\ Len(v) = Len(kept) + 1 /\ v[Len(kept) + 1] = s
        /\ \A k \in 1..Len(kept) : v[k] = kept[k]
    BY <1>1
  <1> HIDE DEF v
  <1>4. Len(v) \in 1..Size /\ LastOf(v) = s
    BY <1>1, <1>3 DEF LastOf
  <1>5. /\ Len(kept) \in Nat
        /\ \A k \in 1..Len(v) : k = Len(kept) + 1 \/ k \in 1..Len(kept)
    BY <1>1, <1>3
  <1>6. Increasing(v)
    <2> SUFFICES ASSUME NEW j \in 1..Len(v), NEW k \in 1..Len(v), j < k
                 PROVE  v[j] < v[k]
      BY DEF Increasing
    <2>1. j \in 1..Len(kept)
      BY <1>3, <1>5
    <2>2. QED
      BY <1>1, <1>3, <1>5, <2>1 DEF Increasing
  <1>7. \A k \in 1..Len(v) : v[k] = s \/ \E j \in 1..Len(w) : v[k] = w[j]
    BY <1>1, <1>3, <1>5
  <1>8. QED
    BY <1>2, <1>3, <1>4, <1>6, <1>7

LEMMA SenseInv == PipelineInv /\ Sense => PipelineInv'
  <1> SUFFICES ASSUME PipelineInv, Sense PROVE PipelineInv'
    OBVIOUS
  <1> USE SizeAssumption, ClockAssumption
  <1>1. PICK d \in ClockSteps : stamp' = Append(stamp, Clock + d)
    BY DEF Sense
  <1>2. stamp \in Seq(Nat) /\ Pushed \in Nat
    BY DEF PipelineInv, TypeOK, Pushed
  <1>3. Clock \in Nat /\ \A n \in 1..Pushed : stamp[n] <= Clock
    BY <1>2 DEF Clock, LastOf, Pushed, PipelineInv, StampsOrdered
  <1>4. /\ stamp' \in Seq(Nat) /\ Pushed' = Pushed + 1
        /\ \A n \in 1..Pushed : stamp'[n] = stamp[n]
        /\ stamp'[Pushed + 1] = Clock + d
    BY <1>1, <1>2, <1>3 DEF Pushed
  <1>5. StampsOrdered'
    <2>1. \A n \in 1..Pushed' : n \in 1..Pushed \/ n = Pushed + 1
      BY <1>2, <1>4
    <2>2. \A m \in 1..Pushed : stamp'[m] <= stamp'[Pushed + 1]
      <3>1. d \in Nat /\ \A m \in 1..Pushed : stamp[m] \in Nat
        BY <1>2, SeqElements DEF Pushed
      <3>2. QED
        BY <1>3, <1>4, <3>1
    <2>3. stamp'[Pushed + 1] <= stamp'[Pushed + 1]
      BY <1>3, <1>4
    <2>4. \A m \in 1..Pushed, n \in 1..Pushed : m <= n => stamp'[m] <= stamp'[n]
      BY <1>4 DEF StampsOrdered, PipelineInv
    <2>5. \A m \in 1..Pushed', n \in 1..Pushed' : m <= n => stamp'[m] <= stamp'[n]
      BY <1>2, <2>1, <2>2, <2>3, <2>4
    <2>6. QED
      BY <2>5 DEF StampsOrdered
  <1>6. /\ window \in Seq(1..Pushed) /\ Len(window) <= Size /\ Increasing(window)
        /\ window' = Slide(window, Pushed + 1) /\ out' = out
    BY DEF PipelineInv, TypeOK, WindowOrdered, Sense, WindowPush
  <1>7. /\ window' \in Seq(1..Pushed') /\ Len(window') <= Size
        /\ WindowOrdered'
    <2>1. window \in Seq(Nat) /\ \A k \in 1..Len(window) : window[k] \in 1..Pushed
      <3>1. \A k \in 1..Len(window) : window[k] \in 1..Pushed
        BY <1>6, SeqElements
      <3>2. \A k \in 1..Len(window) : window[k] \in Nat
        BY <3>1
      <3>3. QED
        BY <1>6, <3>1, <3>2, SeqInto
    <2>2. \A k \in 1..Len(window) : window[k] < Pushed + 1
      BY <1>2, <2>1
    <2>3. /\ window' \in Seq(Nat) /\ Len(window') \in 1..Size
          /\ LastOf(window') = Pushed + 1 /\ Increasing(window')
          /\ \A k \in 1..Len(window') :
               window'[k] = Pushed + 1 \/ \E j \in 1..Len(window) : window'[k] = window[j]
      <3> DEFINE s == Pushed + 1
      <3>1. s \in Nat /\ \A k \in 1..Len(window) : window[k] < s
        BY <1>2, <2>2
      <3>2. window' = Slide(window, s)
        BY <1>6
      <3> HIDE DEF s
      <3>3. /\ window' \in Seq(Nat) /\ Len(window') \in 1..Size
            /\ LastOf(window') = s /\ Increasing(window')
            /\ \A k \in 1..Len(window') :
                 window'[k] = s \/ \E j \in 1..Len(window) : window'[k] = window[j]
        BY <1>6, <2>1, <3>1, <3>2, SlideIncreasing
      <3>4. QED
        BY <3>3 DEF s
    <2>4. ASSUME NEW k \in 1..Len(window') PROVE window'[k] \in 1..Pushed'
      <3>1. CASE window'[k] = Pushed + 1
        BY <1>2, <1>4, <3>1
      <3>2. CASE \E j \in 1..Len(window) : window'[k] = window[j]
        <4>1. window'[k] \in 1..Pushed
          BY <2>1, <3>2
        <4>2. QED
          BY <1>2, <1>4, <4>1
      <3>3. QED
        BY <2>3, <3>1, <3>2
    <2>5. window' \in Seq(1..Pushed')
      BY <2>3, <2>4, SeqInto
    <2>6. window' # <<>> /\ LastOf(window') = Pushed'
      BY <1>4, <2>3
    <2>7. QED
      BY <2>3, <2>5, <2>6 DEF WindowOrdered
  <1>8. TypeOK'
    <2>1. 1..Pushed \subseteq 1..Pushed'
      BY <1>2, <1>4
    <2>2. (out \in Seq(1..Pushed))' /\ (file \in Seq(1..Pushed))'
      <3>1. out \in Seq(1..Pushed) /\ file \in Seq(1..Pushed) /\ file' = file
        BY DEF PipelineInv, TypeOK, Sense, fileVars
      <3>2. /\ \A k \in 1..Len(out) : out[k] \in 1..Pushed'
            /\ \A k \in 1..Len(file) : file[k] \in 1..Pushed'
        BY <2>1, <3>1, SeqElements
      <3>3. out \in Seq(1..Pushed') /\ file \in Seq(1..Pushed')
        BY <3>1, <3>2, SeqInto
      <3>4. QED
        BY <1>6, <3>1, <3>3
    <2>3. QED
      BY <1>4, <1>6, <1>7, <2>1, <2>2
         DEF PipelineInv, TypeOK, Sense, threadVars, cycleVars, influxVars, fileVars
  <1>9. OutOrdered' /\ IndexInOut'
    BY <1>6 DEF PipelineInv, OutOrdered, IndexInOut, Sense, fileVars
  <1>10. PostedCovered' /\ BatchNewer' /\ WrittenCovered'
    <2>1. posted \subseteq 1..Pushed /\ batch \subseteq 1..Pushed /\ written \subseteq 1..Pushed
      BY DEF PipelineInv, TypeOK
    <2>2. QED
      BY <1>4, <1>6, <2>1
         DEF PipelineInv, PostedCovered, BatchNewer, WrittenCovered, Sense,
             influxVars, fileVars, threadVars, cycleVars
  <1>11. QED
    BY <1>5, <1>7, <1>8, <1>9, <1>10 DEF PipelineInv

-----------------------------------------------------------------------------
(* The log thread.  What no step of it touches is kept once and for all.   *)

LEMMA SensorSideKept ==
  ASSUME PipelineInv, UNCHANGED <<window, stamp>>, pc = "stopped" => pc' = "stopped"
  PROVE  /\ StampsOrdered' /\ WindowOrdered' /\ Pushed' = Pushed
         /\ (window \in Seq(1..Pushed))' /\ (Len(window) <= Size)'
         /\ (stamp \in Seq(Nat))'
  BY DEF PipelineInv, TypeOK, StampsOrdered, WindowOrdered, Increasing, Pushed, LastOf

(* The steps that concern the other threads alone.                         *)
Pausing == BeginCycle \/ ReadConfig \/ Sleep \/ LeaveLoop \/ Signal \/ Contend

PausingDefs ==
  /\ UNCHANGED <<windowVars, stamp, influxVars, fileVars>>
  /\ pc \in {"peek", "clear", "influx", "send", "file", "stopped"} => pc' = pc
  /\ pc' \in {"clear", "influx", "send", "file", "sleep", "stopped"} =>
       pc' = pc /\ UNCHANGED cycleVars

LEMMA PausingKeeps == ASSUME TypeOK, Pausing PROVE PausingDefs /\ TypeOK'
<1> USE DEF PausingDefs, TypeOK, Pushed, windowVars, influxVars, fileVars, threadVars,
            cycleVars
<1>1. CASE BeginCycle
  BY <1>1 DEF BeginCycle
<1>2. CASE ReadConfig
  BY <1>2 DEF ReadConfig
<1>3. CASE Sleep
  BY <1>3 DEF Sleep
<1>4. CASE LeaveLoop
  BY <1>4 DEF LeaveLoop
<1>5. CASE Signal
  BY <1>5 DEF Signal
<1>6. CASE Contend
  BY <1>6 DEF Contend
<1> QED BY <1>1, <1>2, <1>3, <1>4, <1>5, <1>6 DEF Pausing

LEMMA PausingInv == PipelineInv /\ Pausing => PipelineInv'
  <1> SUFFICES ASSUME PipelineInv, Pausing PROVE PipelineInv'
    OBVIOUS
  <1> USE DEF PausingDefs, windowVars, influxVars, fileVars
  <1>1. PausingDefs /\ TypeOK'
    BY PausingKeeps DEF PipelineInv
  <1>2. Pushed' = Pushed /\ StampsOrdered' /\ WindowOrdered'
    BY <1>1, SensorSideKept
  <1>3. OutOrdered' /\ IndexInOut'
    BY <1>1 DEF PipelineInv, OutOrdered, IndexInOut
  <1>4. PostedCovered' /\ BatchNewer' /\ WrittenCovered'
    BY <1>1 DEF PipelineInv, PostedCovered, BatchNewer, WrittenCovered
  <1>5. QED
    BY <1>1, <1>2, <1>3, <1>4 DEF PipelineInv

(* A cycle's peek that has room for all of the buffer returns all of it.   *)
LEMMA PeekedAll == ASSUME PipelineInv, Peek PROVE out' = window
<1>1. window \in Seq(1..Pushed) /\ Len(window) <= Size /\ Len(window) \in Nat
  BY SeqElements DEF PipelineInv, TypeOK
<1>2. out' = [k \in 1..Len(window) |-> window[k]]
  BY <1>1 DEF Peek, WindowPeekAll, Oldest
<1> QED BY <1>1, <1>2

LEMMA PeekInv == PipelineInv /\ Peek => PipelineInv'
  <1> SUFFICES ASSUME PipelineInv, Peek PROVE PipelineInv'
    OBVIOUS
  <1> USE SizeAssumption
  <1>1. Pushed' = Pushed /\ StampsOrdered' /\ WindowOrdered'
    BY SensorSideKept DEF Peek, WindowPeekAll
  <1>2. /\ window \in Seq(1..Pushed) /\ Len(window) <= Size /\ Increasing(window)
        /\ Pushed > 0 => window # <<>> /\ LastOf(window) = Pushed
        /\ Pushed \in Nat
    BY DEF PipelineInv, TypeOK, WindowOrdered, Pushed, Peek
  <1>3. out' = window
    BY PeekedAll
  <1>4. i = 0 /\ i' = 0
    BY DEF Peek, PipelineInv, IndexInOut, fileVars
  <1>5. TypeOK'
    BY <1>1, <1>2, <1>3, <1>4
       DEF PipelineInv, TypeOK, Peek, WindowPeekAll, threadVars, cycleVars, influxVars, fileVars
  <1>6. OutOrdered' /\ IndexInOut'
    BY <1>2, <1>3, <1>4 DEF OutOrdered, IndexInOut
  <1>7. ASSUME NEW n \in 1..Pushed PROVE out' # <<>> /\ n <= LastOf(out')
    BY <1>2, <1>3
  <1>8. PostedCovered' /\ BatchNewer' /\ WrittenCovered'
    <2>1. posted \subseteq 1..Pushed /\ written \subseteq 1..Pushed
      BY DEF PipelineInv, TypeOK
    <2>2. QED
      BY <1>7, <2>1 DEF PipelineInv, PostedCovered, BatchNewer, WrittenCovered,
                        Peek, WindowPeekAll, threadVars, cycleVars, influxVars, fileVars
  <1>9. QED
    BY <1>1, <1>5, <1>6, <1>8 DEF PipelineInv

LEMMA ClearFileInv == PipelineInv /\ ClearFile => PipelineInv'
  <1> SUFFICES ASSUME PipelineInv, ClearFile PROVE PipelineInv'
    OBVIOUS
  <1> USE DEF ClearFile, windowVars, threadVars, cycleVars, influxVars
  <1>1. Pushed' = Pushed /\ StampsOrdered' /\ WindowOrdered'
    BY SensorSideKept
  <1>2. (file \in Seq(1..Pushed))' /\ (blockStart \in Nat)'
    <2>1. file \in Seq(1..Pushed) /\ <<>> \in Seq(1..Pushed)
      BY DEF PipelineInv, TypeOK
    <2>2. file' \in Seq(1..Pushed)
      BY <2>1
    <2>3. QED
      BY <1>1, <2>2, SeqElements
  <1>3. TypeOK'
    BY <1>1, <1>2 DEF PipelineInv, TypeOK
  <1>4. OutOrdered' /\ IndexInOut'
    BY DEF PipelineInv, OutOrdered, IndexInOut
  <1>5. PostedCovered' /\ BatchNewer' /\ WrittenCovered'
    BY DEF PipelineInv, PostedCovered, BatchNewer, WrittenCovered
  <1>6. QED
    BY <1>1, <1>3, <1>4, <1>5 DEF PipelineInv

(* The filter on the mark gives a batch that is newer than the mark.       *)
LEMMA FillInfluxBufferInv == PipelineInv /\ FillInfluxBuffer => PipelineInv'
  <1> SUFFICES ASSUME PipelineInv, FillInfluxBuffer PROVE PipelineInv'
    OBVIOUS
  <1> USE DEF FillInfluxBuffer, windowVars, threadVars, cycleVars
  <1>1. Pushed' = Pushed /\ StampsOrdered' /\ WindowOrdered'
    BY SensorSideKept
  <1>2. out \in Seq(1..Pushed) /\ Len(out) <= Size /\ out' = out
    BY DEF PipelineInv, TypeOK
  <1>3. NewerThan(lastInflux) \subseteq 1..Pushed
    BY <1>2, SeqElements DEF NewerThan, SamplesOf
  <1>4. Len(out) \in 0..Size
    BY <1>2, SizeAssumption
  <1>5. TypeOK'
    BY <1>1, <1>3, <1>4 DEF PipelineInv, TypeOK
  <1>6. OutOrdered' /\ IndexInOut'
    BY <1>4, SizeAssumption DEF PipelineInv, OutOrdered, IndexInOut
  <1>7. BatchNewer'
    BY DEF BatchNewer, NewerThan, SamplesOf
  <1>8. PostedCovered' /\ WrittenCovered'
    BY DEF PipelineInv, PostedCovered, WrittenCovered
  <1>9. QED
    BY <1>1, <1>5, <1>6, <1>7, <1>8 DEF PipelineInv

(* The batch is covered by the last sample peeked, which becomes the mark. *)
LEMMA SendInv == PipelineInv /\ Send => PipelineInv'
  <1> SUFFICES ASSUME PipelineInv, Send PROVE PipelineInv'
    OBVIOUS
  <1> USE DEF Send, windowVars, threadVars, cycleVars, fileVars
  <1>1. Pushed' = Pushed /\ StampsOrdered' /\ WindowOrdered'
    BY SensorSideKept
  <1>2. /\ out \in Seq(1..Pushed) /\ out' = out /\ stamp \in Seq(Nat)
        /\ batch \subseteq 1..Pushed /\ posted \subseteq 1..Pushed
        /\ firstPassed \subseteq 1..Pushed /\ Pushed = Len(stamp)
    BY DEF PipelineInv, TypeOK, Pushed
  <1>3. SamplesOf(out) \subseteq 1..Pushed
    BY <1>2, SeqElements DEF SamplesOf
  <1>4. ASSUME out # <<>>
        PROVE  /\ LastOf(out) \in 1..Pushed
               /\ \A n \in SamplesOf(out) : n <= LastOf(out)
               /\ lastInflux' = stamp[LastOf(out)] /\ lastInflux' \in Nat
    <2>1. Len(out) \in 1..Len(out) /\ LastOf(out) \in 1..Pushed
      BY <1>2, <1>4, SeqElements DEF LastOf
    <2>2. \A k \in 1..Len(out) : out[k] <= LastOf(out)
      <3> SUFFICES ASSUME NEW k \in 1..Len(out) PROVE out[k] <= LastOf(out)
        OBVIOUS
      <3>1. CASE k = Len(out)
        BY <2>1, <3>1 DEF LastOf
      <3>2. CASE k < Len(out)
        <4>1. out[k] < LastOf(out)
          BY <2>1, <3>2 DEF PipelineInv, OutOrdered, Increasing, LastOf
        <4>2. out[k] \in 1..Pushed
          BY <1>2, SeqElements
        <4>3. QED
          BY <2>1, <4>1, <4>2
      <3>3. QED
        BY <2>1, <3>1, <3>2
    <2>3. lastInflux' = stamp[LastOf(out)] /\ lastInflux' \in Nat
      BY <1>2, <1>4, <2>1, SeqElements
    <2>4. QED
      BY <2>1, <2>2, <2>3 DEF SamplesOf
  <1>5. lastInflux' \in Nat
    BY <1>4, GarbageAssumption
  <1>6. TypeOK'
    BY <1>1, <1>2, <1>3, <1>5 DEF PipelineInv, TypeOK
  <1>7. OutOrdered' /\ IndexInOut' /\ BatchNewer'
    BY DEF PipelineInv, OutOrdered, IndexInOut, BatchNewer
  <1>8. PostedCovered'
    <2> SUFFICES ASSUME NEW p \in posted \cup batch
                 PROVE  out # <<>> /\ p <= LastOf(out) /\ stamp[p] <= lastInflux'
      BY DEF PostedCovered
    <2>1. out # <<>> /\ p <= LastOf(out)
      <3>1. CASE p \in posted
        BY <3>1 DEF PipelineInv, PostedCovered
      <3>2. CASE p \in batch
        <4>1. p \in SamplesOf(out)
          BY <3>2 DEF PipelineInv, BatchNewer
        <4>2. out # <<>>
          BY <1>2, <4>1, SeqElements DEF SamplesOf
        <4>3. QED
          BY <1>4, <4>1, <4>2
      <3>3. QED
        BY <3>1, <3>2
    <2>2. p \in 1..Pushed /\ LastOf(out) \in 1..Pushed
      BY <1>2, <1>4, <2>1
    <2>3. stamp[p] <= stamp[LastOf(out)]
      BY <2>1, <2>2 DEF PipelineInv, StampsOrdered
    <2>4. QED
      BY <1>4, <2>1, <2>3
  <1>9. WrittenCovered'
    BY DEF PipelineInv, WrittenCovered
  <1>10. QED
    BY <1>1, <1>6, <1>7, <1>8, <1>9 DEF PipelineInv

(* The loop has visited what it wrote: it is behind i.                     *)
LEMMA WriteLineInv == PipelineInv /\ WriteLine => PipelineInv'
  <1> SUFFICES ASSUME PipelineInv, WriteLine PROVE PipelineInv'
    OBVIOUS
  <1> USE DEF WriteLine, windowVars, threadVars, cycleVars, influxVars
  <1>1. Pushed' = Pushed /\ StampsOrdered' /\ WindowOrdered'
    BY SensorSideKept
  <1>2. /\ out \in Seq(1..Pushed) /\ out' = out /\ file \in Seq(1..Pushed)
        /\ i \in 0..Size /\ i <= Len(out) /\ i > 0
    BY DEF PipelineInv, TypeOK, IndexInOut, LoopAgain
  <1>3. i \in 1..Len(out) /\ out[i] \in 1..Pushed /\ Len(out) \in Nat
    <2>1. Len(out) \in Nat /\ \A k \in 1..Len(out) : out[k] \in 1..Pushed
      BY <1>2, SeqElements
    <2>2. i \in Nat /\ i \in 1..Len(out)
      BY <1>2, <2>1, SizeAssumption
    <2>3. QED
      BY <2>1, <2>2
  <1>4. file' \in Seq(1..Pushed) /\ i' \in 0..Size
    BY <1>2, <1>3, SizeAssumption
  <1>5. TypeOK'
    BY <1>1, <1>3, <1>4 DEF PipelineInv, TypeOK
  <1>6. OutOrdered' /\ BatchNewer' /\ PostedCovered'
    BY DEF PipelineInv, OutOrdered, BatchNewer, PostedCovered
  <1>7. IndexInOut'
    BY <1>2, <1>3, SizeAssumption DEF IndexInOut
  <1>8. out # <<>> /\ out[i] <= LastOf(out)
    <2>1. Len(out) \in 1..Len(out) /\ out # <<>> /\ LastOf(out) \in 1..Pushed
      <3>1. Len(out) # 0 /\ Len(out) \in 1..Len(out)
        BY <1>3
      <3>2. out # <<>>
        BY <1>2, <3>1, SeqElements
      <3>3. LastOf(out) \in 1..Pushed
        BY <1>2, <3>1, SeqElements DEF LastOf
      <3>4. QED
        BY <3>1, <3>2, <3>3
    <2>2. i < Len(out) => out[i] < LastOf(out)
      BY <1>3, <2>1 DEF PipelineInv, OutOrdered, Increasing, LastOf
    <2>3. i = Len(out) => out[i] = LastOf(out)
      BY DEF LastOf
    <2>4. QED
      BY <1>3, <2>1, <2>2, <2>3
  <1>9. WrittenCovered'
    <2> SUFFICES ASSUME NEW w \in written \cup {out[i]}
                 PROVE  /\ LogToFile
                        /\ out # <<>> /\ w <= LastOf(out)
                        /\ \/ stamp[w] <= lastFile
                           \/ \E k \in 1..Len(out) : i' < k /\ w = out[k]
      BY DEF WrittenCovered
    <2>1. i' < i
      BY <1>2
    <2>2. CASE w = out[i]
      BY <1>3, <1>8, <2>1, <2>2
    <2>3. CASE w \in written
      <3>1. CASE stamp[w] <= lastFile
        BY <2>3, <3>1 DEF PipelineInv, WrittenCovered
      <3>2. CASE ~(stamp[w] <= lastFile)
        <4>1. PICK k \in 1..Len(out) : i < k /\ w = out[k]
          BY <2>3, <3>2 DEF PipelineInv, WrittenCovered
        <4>2. i' < k
          BY <1>2, <4>1, <2>1
        <4>3. QED
          BY <2>3, <4>1, <4>2 DEF PipelineInv, WrittenCovered
      <3>3. QED
        BY <3>1, <3>2
    <2>4. QED
      BY <2>2, <2>3
  <1>10. QED
    BY <1>1, <1>5, <1>6, <1>7, <1>9 DEF PipelineInv

(* The new mark covers what the loop wrote.                                *)
LEMMA EndFileInv == PipelineInv /\ EndFile => PipelineInv'
  <1> SUFFICES ASSUME PipelineInv, EndFile PROVE PipelineInv'
    OBVIOUS
  <1> USE DEF EndFile, windowVars, threadVars, cycleVars, influxVars
  <1>1. Pushed' = Pushed /\ StampsOrdered' /\ WindowOrdered'
    BY SensorSideKept
  <1>2. /\ out \in Seq(1..Pushed) /\ out' = out /\ stamp \in Seq(Nat)
        /\ written \subseteq 1..Pushed /\ Pushed = Len(stamp)
    BY DEF PipelineInv, TypeOK, Pushed
  <1>3. ASSUME out # <<>>
        PROVE  LastOf(out) \in 1..Pushed /\ stamp[LastOf(out)] \in Nat
    BY <1>2, <1>3, SeqElements DEF LastOf
  <1>4. (lastFile \in Nat)' /\ (i \in 0..Size)'
    BY <1>3, SizeAssumption DEF PipelineInv, TypeOK
  <1>5. TypeOK'
    BY <1>1, <1>4 DEF PipelineInv, TypeOK
  <1>6. OutOrdered' /\ BatchNewer' /\ PostedCovered'
    BY DEF PipelineInv, OutOrdered, BatchNewer, PostedCovered
  <1>7. IndexInOut'
    BY <1>2, SeqElements DEF IndexInOut
  <1>8. WrittenCovered'
    <2> SUFFICES ASSUME NEW w \in written
                 PROVE  /\ LogToFile
                        /\ out # <<>> /\ w <= LastOf(out)
                        /\ stamp[w] <= lastFile'
      BY DEF WrittenCovered
    <2>1. LogToFile /\ out # <<>> /\ w <= LastOf(out)
      BY DEF PipelineInv, WrittenCovered
    <2>2. stamp[w] <= stamp[LastOf(out)]
      BY <1>2, <1>3, <2>1 DEF PipelineInv, StampsOrdered
    <2>3. QED
      BY <2>1, <2>2
  <1>9. QED
    BY <1>1, <1>5, <1>6, <1>7, <1>8 DEF PipelineInv

(* The buffer goes, the marks and what they cover stay.                    *)
LEMMA FreeBuffersInv == PipelineInv /\ FreeBuffers => PipelineInv'
  <1> SUFFICES ASSUME PipelineInv, FreeBuffers PROVE PipelineInv'
    OBVIOUS
  <1> USE DEF FreeBuffers, threadVars, cycleVars, influxVars, fileVars
  <1>1. Pushed' = Pushed /\ window' = <<>> /\ pc' = "stopped" /\ pc = "stopping"
    BY DEF Pushed
  <1>2. WindowOrdered'
    BY <1>1 DEF WindowOrdered, Increasing
  <1>3. (window \in Seq(1..Pushed) /\ Len(window) <= Size)'
    BY <1>1, SizeAssumption
  <1>4. TypeOK'
    BY <1>1, <1>3 DEF PipelineInv, TypeOK
  <1>5. StampsOrdered' /\ OutOrdered' /\ IndexInOut'
    BY <1>1 DEF PipelineInv, StampsOrdered, OutOrdered, IndexInOut, Increasing
  <1>6. PostedCovered' /\ BatchNewer' /\ WrittenCovered'
    BY <1>1 DEF PipelineInv, PostedCovered, BatchNewer, WrittenCovered
  <1>7. QED
    BY <1>2, <1>4, <1>5, <1>6 DEF PipelineInv

LEMMA NextInv == PipelineInv /\ [Next]_vars => PipelineInv'
  <1> SUFFICES ASSUME PipelineInv, [Next]_vars PROVE PipelineInv'
    OBVIOUS
  <1>1. CASE UNCHANGED vars
    BY <1>1 DEF vars, windowVars, threadVars, cycleVars, influxVars, fileVars, PipelineInv,
         TypeOK, StampsOrdered, WindowOrdered, OutOrdered, Increasing, LastOf,
         PostedCovered, BatchNewer, WrittenCovered, IndexInOut, Pushed, SamplesOf
  <1>2. QED
    BY <1>1, SenseInv, PausingInv, PeekInv, ClearFileInv, FillInfluxBufferInv,
       SendInv, WriteLineInv, EndFileInv, FreeBuffersInv DEF Next, LogThread, Pausing

LEMMA PipelineInvAlways == Spec => []PipelineInv
  BY InitInv, NextInv, PTL DEF Spec

-----------------------------------------------------------------------------
(* The theorems.                                                           *)

THEOREM TypeCorrect == Spec => []TypeOK
  <1>1. PipelineInv => TypeOK
    BY DEF PipelineInv
  <1>2. QED
    BY <1>1, PipelineInvAlways, PTL

(* For every buffer size, garbage value and clock that is not set back, no *)
(* post carries a sample an earlier post carried, or an older one.         *)
THEOREM PostsOnlyNewerAlways == Spec => []PostsOnlyNewer
  <1>1. PipelineInv => PostsOnlyNewer
    <2> SUFFICES ASSUME PipelineInv, pc = "send", NEW p \in posted, NEW b \in batch
                 PROVE  p < b
      BY DEF PostsOnlyNewer
    <2>1. p \in 1..Pushed /\ b \in 1..Pushed /\ Pushed = Len(stamp) /\ lastInflux \in Nat
      BY DEF PipelineInv, TypeOK, Pushed
    <2>2. stamp[p] <= lastInflux /\ stamp[b] > lastInflux
      BY DEF PipelineInv, PostedCovered, BatchNewer
    <2>3. stamp[p] \in Nat /\ stamp[b] \in Nat
      BY <2>1, SeqElements DEF PipelineInv, TypeOK
    <2>4. ~(b <= p)
      BY <2>1, <2>2, <2>3 DEF PipelineInv, StampsOrdered
    <2>5. QED
      BY <2>1, <2>4
  <1>2. QED
    BY <1>1, PipelineInvAlways, PTL

(* For every buffer size and clock that is not set back, no sample gets a  *)
(* second line in the data file.                                           *)
THEOREM WritesOnceAlways == Spec => []WritesOnce
  <1>1. PipelineInv => WritesOnce
    <2> SUFFICES ASSUME PipelineInv, pc = "file", LoopAgain, out[i] \in written
                 PROVE  FALSE
      BY DEF WritesOnce
    <2>1. out \in Seq(1..Pushed) /\ i \in 1..Len(out) /\ Pushed = Len(stamp)
      BY SizeAssumption, SeqElements DEF PipelineInv, TypeOK, IndexInOut, LoopAgain, Pushed
    <2>2. stamp[out[i]] > lastFile /\ stamp[out[i]] \in Nat /\ lastFile \in Nat
      BY <2>1, SeqElements DEF PipelineInv, TypeOK, LoopAgain
    <2>3. PICK k \in 1..Len(out) : i < k /\ out[i] = out[k]
      BY <2>2 DEF PipelineInv, WrittenCovered
    <2>4. out[i] < out[k] /\ out[i] \in Nat
      BY <2>1, <2>3, SeqElements DEF PipelineInv, OutOrdered, Increasing
    <2>5. QED
      BY <2>3, <2>4
  <1>2. QED
    BY <1>1, PipelineInvAlways, PTL

-----------------------------------------------------------------------------
(* What no cycle passes over.  This needs a clock that advances from push  *)
(* to push: a sample stamped like the newest one peeked would look old.    *)

ClockAdvances == 0 \notin ClockSteps

StampsIncrease == \A m \in 1..Pushed, n \in 1..Pushed : m < n => stamp[m] < stamp[n]

(* A sample that the last peek did not see is newer than all it saw.       *)
PeekComplete ==
  \A n \in SamplesOf(window) : out # <<>> /\ n <= LastOf(out) => n \in SamplesOf(out)

AdvancingInv == StampsIncrease /\ PeekComplete

InSight == SamplesOf(window) \cup SamplesOf(out)

(* The mark of the file lies before every sample to come, and what is in   *)
(* sight up to the mark has been written.                                  *)
MarkedWritten ==
  /\ lastFile <= Clock
  /\ LogToFile => \A n \in InSight : stamp[n] <= lastFile => n \in written

(* So has what the file loop of this cycle has behind it.                  *)
VisitedWritten ==
  pc \in {"send", "file"} /\ LogToFile =>
    \A k \in 1..Len(out) : i < k => out[k] \in written

WritingInv == MarkedWritten /\ VisitedWritten /\ PeekedIsWritten

(* The same of the post's mark, once an interval has found samples.        *)
MarkedPosted ==
  firstPassed # {} =>
    /\ out # <<>> /\ lastInflux <= Clock
    /\ \A n \in InSight : stamp[n] <= lastInflux => n \in posted \cup firstPassed

BatchComplete == pc = "send" => NewerThan(lastInflux) \subseteq batch

PostingInv == MarkedPosted /\ BatchComplete /\ NoneSkippedAfterFirst

-----------------------------------------------------------------------------
(* The order in the file, with any clock that is not set back.             *)

(* When a cycle appends, the blocks before its own lie at or below the     *)
(* mark, and its own holds what the loop has behind it.                    *)
BlocksMarked ==
  pc \in {"influx", "send", "file"} =>
    blockStart <= Len(file) /\ \A j \in 1..blockStart : stamp[file[j]] <= lastFile

BlockVisited ==
  \A j \in 1..Len(file) : blockStart < j =>
    /\ pc \notin {"influx", "send"}
    /\ pc = "file" => \E k \in 1..Len(out) : i < k /\ file[j] = out[k]

FileInv == SamplesOf(file) \subseteq written /\ BlocksMarked /\ BlockVisited /\ FileInBlocks

LEMMA InRange ==
  ASSUME PipelineInv
  PROVE  /\ Pushed \in Nat /\ Clock \in Nat
         /\ \A n \in 1..Pushed : stamp[n] \in Nat /\ stamp[n] <= Clock
         /\ SamplesOf(window) \subseteq 1..Pushed
         /\ SamplesOf(out) \subseteq 1..Pushed
         /\ SamplesOf(file) \subseteq 1..Pushed
<1>1. stamp \in Seq(Nat) /\ Pushed = Len(stamp) /\ Pushed \in Nat
  BY DEF PipelineInv, TypeOK, Pushed
<1>2. \A n \in 1..Pushed : stamp[n] \in Nat
  BY <1>1, SeqElements
<1>3. Clock \in Nat /\ \A n \in 1..Pushed : stamp[n] <= Clock
  BY <1>1, <1>2 DEF Clock, LastOf, PipelineInv, StampsOrdered
<1>4. \A q \in Seq(1..Pushed) : SamplesOf(q) \subseteq 1..Pushed
  BY SeqElements DEF SamplesOf
<1> QED BY <1>1, <1>2, <1>3, <1>4 DEF PipelineInv, TypeOK

(* The last sample peeked is the newest one of them.                       *)
LEMMA LastPeeked ==
  ASSUME PipelineInv, out # <<>>
  PROVE  /\ LastOf(out) \in SamplesOf(out) /\ LastOf(out) \in 1..Pushed
         /\ \A n \in SamplesOf(out) : n <= LastOf(out)
<1>1. out \in Seq(1..Pushed) /\ Len(out) \in 1..Len(out) /\ Len(out) \in Nat
  BY SeqElements DEF PipelineInv, TypeOK
<1>2. LastOf(out) \in SamplesOf(out) /\ LastOf(out) \in 1..Pushed
  BY <1>1, SeqElements DEF LastOf, SamplesOf
<1>3. ASSUME NEW k \in 1..Len(out) PROVE out[k] <= LastOf(out)
  <2>1. out[k] \in 1..Pushed
    BY <1>1, SeqElements
  <2>2. k < Len(out) => out[k] < LastOf(out)
    BY <1>1 DEF PipelineInv, OutOrdered, Increasing, LastOf
  <2>3. k = Len(out) => out[k] = LastOf(out)
    BY DEF LastOf
  <2> QED BY <1>1, <1>2, <2>1, <2>2, <2>3
<1> QED BY <1>2, <1>3 DEF SamplesOf

(* A push takes a stamp at or past all others and lets in one sample.      *)
LEMMA SenseGrows ==
  ASSUME PipelineInv, Sense
  PROVE  /\ Pushed' = Pushed + 1
         /\ \A n \in 1..Pushed : stamp'[n] = stamp[n]
         /\ Clock' \in Nat /\ Clock' = stamp'[Pushed + 1] /\ Clock <= Clock'
         /\ ClockAdvances => Clock < Clock'
         /\ SamplesOf(window') \subseteq SamplesOf(window) \cup {Pushed + 1}
<1>1. PICK d \in ClockSteps : stamp' = Append(stamp, Clock + d)
  BY DEF Sense
<1>2. d \in Nat /\ (ClockAdvances => d > 0)
  BY ClockAssumption DEF ClockAdvances
<1>3. stamp \in Seq(Nat) /\ Pushed = Len(stamp) /\ Pushed \in Nat /\ Clock \in Nat
  BY InRange DEF PipelineInv, TypeOK, Pushed
<1>4. /\ Pushed' = Pushed + 1 /\ stamp'[Pushed + 1] = Clock + d
      /\ \A n \in 1..Pushed : stamp'[n] = stamp[n]
  BY <1>1, <1>2, <1>3 DEF Pushed
<1>5. Clock' = stamp'[Pushed + 1]
  <2>1. Clock' = IF Pushed' = 0 THEN 1 ELSE stamp'[Pushed']
    BY DEF Clock, LastOf, Pushed
  <2> QED BY <1>3, <1>4, <2>1
<1>6. SamplesOf(window') \subseteq SamplesOf(window) \cup {Pushed + 1}
  <2> DEFINE s == Pushed + 1
  <2>1. /\ window \in Seq(Nat) /\ Len(window) <= Size /\ Increasing(window)
        /\ \A k \in 1..Len(window) : window[k] < s
    <3>1. window \in Seq(1..Pushed) /\ \A k \in 1..Len(window) : window[k] \in 1..Pushed
      BY SeqElements DEF PipelineInv, TypeOK
    <3>2. \A k \in 1..Len(window) : window[k] \in Nat /\ window[k] < s
      BY <1>3, <3>1
    <3> QED BY <3>1, <3>2, SeqInto DEF PipelineInv, TypeOK, WindowOrdered
  <2>2. window' = Slide(window, s) /\ s \in Nat
    BY <1>3 DEF Sense, WindowPush
  <2> HIDE DEF s
  <2>3. \A k \in 1..Len(window') : window'[k] = s \/ \E j \in 1..Len(window) : window'[k] = window[j]
    BY <2>1, <2>2, SlideIncreasing
  <2> QED BY <2>3 DEF SamplesOf, s
<1> QED BY <1>2, <1>3, <1>4, <1>5, <1>6

(* Sense, Peek and FreeBuffers alone change what the samples in sight are. *)
LEMMA OthersLook ==
  ASSUME PipelineInv, [Next]_vars
  PROVE  \/ Sense \/ Peek \/ FreeBuffers
         \/ UNCHANGED <<window, out, stamp>> /\ (pc = "stopped" => pc' = "stopped")
<1>1. CASE Pausing
  BY <1>1, PausingKeeps DEF PausingDefs, windowVars, PipelineInv
<1>2. CASE ClearFile \/ FillInfluxBuffer \/ Send \/ WriteLine \/ EndFile \/ UNCHANGED vars
  BY <1>2 DEF ClearFile, FillInfluxBuffer, Send, WriteLine, EndFile, vars, windowVars
<1> QED BY <1>1, <1>2 DEF Next, LogThread, Pausing

LEMMA AdvancingInit == Init => AdvancingInv
<1> SUFFICES ASSUME Init PROVE AdvancingInv
  OBVIOUS
<1>1. Pushed = 0 /\ SamplesOf(window) = {}
  BY DEF Init, WindowInit, Pushed, SamplesOf
<1> QED BY <1>1 DEF AdvancingInv, StampsIncrease, PeekComplete

LEMMA AdvancingNext ==
  ASSUME ClockAdvances, PipelineInv, PipelineInv', AdvancingInv, [Next]_vars
  PROVE  AdvancingInv'
<1>1. CASE Sense
  <2>1. /\ Pushed' = Pushed + 1 /\ Pushed \in Nat /\ Clock' \in Nat /\ Clock \in Nat
        /\ \A n \in 1..Pushed : stamp'[n] = stamp[n] /\ stamp[n] \in Nat /\ stamp[n] <= Clock
        /\ stamp'[Pushed + 1] = Clock' /\ Clock < Clock'
    BY <1>1, SenseGrows, InRange
  <2>2. ASSUME NEW m \in 1..(Pushed + 1), NEW n \in 1..(Pushed + 1), m < n
        PROVE  stamp'[m] < stamp'[n]
    <3>1. m \in 1..Pushed
      BY <2>1, <2>2
    <3>2. CASE n \in 1..Pushed
      BY <2>1, <2>2, <3>1, <3>2 DEF AdvancingInv, StampsIncrease
    <3>3. CASE n = Pushed + 1
      BY <2>1, <3>1, <3>3
    <3> QED BY <2>1, <3>2, <3>3
  <2>3. PeekComplete'
    <3>1. out' = out /\ SamplesOf(window') \subseteq SamplesOf(window) \cup {Pushed + 1}
      BY <1>1, SenseGrows DEF Sense, WindowPush
    <3>2. out # <<>> => LastOf(out) < Pushed + 1 /\ LastOf(out) \in Nat
      BY <2>1, LastPeeked
    <3> QED BY <2>1, <3>1, <3>2 DEF AdvancingInv, PeekComplete
  <2>4. StampsIncrease'
    BY <2>1, <2>2 DEF StampsIncrease
  <2> QED BY <2>3, <2>4 DEF AdvancingInv
<1>2. CASE Peek
  <2>1. out' = window /\ window' = window /\ stamp' = stamp
    BY <1>2, PeekedAll DEF Peek, WindowPeekAll
  <2> QED BY <2>1 DEF AdvancingInv, StampsIncrease, PeekComplete, Pushed
<1>3. CASE UNCHANGED <<window, out, stamp>>
  BY <1>3 DEF AdvancingInv, StampsIncrease, PeekComplete, Pushed
<1>4. CASE FreeBuffers
  BY <1>4 DEF FreeBuffers, AdvancingInv, StampsIncrease, PeekComplete, Pushed, SamplesOf
<1> QED BY <1>1, <1>2, <1>3, <1>4, OthersLook

(* Samples that are stamped in order are numbered in order.                *)
LEMMA UpToMark ==
  ASSUME PipelineInv, AdvancingInv, NEW n \in 1..Pushed, NEW m \in 1..Pushed,
         stamp[n] <= stamp[m]
  PROVE  n <= m
BY InRange DEF AdvancingInv, StampsIncrease

(* What is in sight up to the last sample peeked has been peeked.          *)
LEMMA MarkIsPeeked ==
  ASSUME PipelineInv, AdvancingInv, out # <<>>,
         NEW n \in InSight, stamp[n] <= stamp[LastOf(out)]
  PROVE  n \in SamplesOf(out)
<1>1. n \in 1..Pushed /\ LastOf(out) \in 1..Pushed
  BY InRange, LastPeeked DEF InSight
<1>2. n <= LastOf(out)
  BY <1>1, UpToMark
<1> QED BY <1>2 DEF InSight, AdvancingInv, PeekComplete

-----------------------------------------------------------------------------
(* The file: every sample that is peeked gets written.                     *)

LEMMA WritingInit == Init => WritingInv
<1> SUFFICES ASSUME Init PROVE WritingInv
  OBVIOUS
<1>1. Pushed = 0 /\ InSight = {}
  BY DEF Init, WindowInit, Pushed, SamplesOf, InSight
<1> QED BY <1>1 DEF Init, WritingInv, MarkedWritten, VisitedWritten, PeekedIsWritten, Clock

LEMMA SenseWriting ==
  ASSUME ClockAdvances, PipelineInv, WritingInv, Sense
  PROVE  WritingInv'
<1>1. UNCHANGED <<out, pc, i, lastFile, written>>
  BY DEF Sense, WindowPush, fileVars
<1>2. lastFile \in Nat /\ Clock \in Nat /\ InSight \subseteq 1..Pushed
  BY InRange DEF PipelineInv, TypeOK, InSight
<1>3. /\ \A n \in 1..Pushed : stamp'[n] = stamp[n]
      /\ Clock' \in Nat /\ Clock' = stamp'[Pushed + 1] /\ Clock < Clock'
      /\ InSight' \subseteq InSight \cup {Pushed + 1}
  BY <1>1, SenseGrows DEF InSight
<1>4. MarkedWritten'
  BY <1>1, <1>2, <1>3 DEF WritingInv, MarkedWritten
<1>5. VisitedWritten' /\ PeekedIsWritten'
  BY <1>1 DEF WritingInv, VisitedWritten, PeekedIsWritten
<1> QED BY <1>4, <1>5 DEF WritingInv

LEMMA PeekWriting == ASSUME PipelineInv, WritingInv, Peek PROVE WritingInv'
<1>1. out' = window /\ pc' = "clear" /\ UNCHANGED <<window, stamp, lastFile, written>>
  BY PeekedAll DEF Peek, WindowPeekAll, fileVars
<1>2. Clock' = Clock /\ InSight' \subseteq InSight
  BY <1>1 DEF Clock, Pushed, InSight
<1> QED BY <1>1, <1>2 DEF WritingInv, MarkedWritten, VisitedWritten, PeekedIsWritten

(* The loop writes what it passes.                                         *)
LEMMA WriteLineWriting == ASSUME PipelineInv, WritingInv, WriteLine PROVE WritingInv'
<1>1. /\ UNCHANGED <<window, out, stamp, lastFile>> /\ pc = "file" /\ pc' = "file"
      /\ i' = i - 1 /\ i \in Nat /\ written' = written \cup {out[i]}
  BY SizeAssumption DEF WriteLine, windowVars, PipelineInv, TypeOK
<1>2. Clock' = Clock /\ InSight' = InSight /\ Len(out) \in Nat
  BY <1>1, SeqElements DEF Clock, Pushed, InSight, PipelineInv, TypeOK
<1>3. MarkedWritten'
  BY <1>1, <1>2 DEF WritingInv, MarkedWritten
<1>4. VisitedWritten'
  <2>1. \A k \in 1..Len(out) : i - 1 < k => k = i \/ i < k
    BY <1>1, <1>2
  <2> QED BY <1>1, <2>1 DEF WritingInv, VisitedWritten
<1> QED BY <1>1, <1>3, <1>4 DEF WritingInv, PeekedIsWritten

(* What the loop does not pass lies at or below the old mark, and so has   *)
(* been written in an earlier cycle.                                       *)
LEMMA LoopLeavesNone ==
  ASSUME PipelineInv, AdvancingInv, WritingInv, EndFile, LogToFile
  PROVE  SamplesOf(out) \subseteq written
<1>1. /\ pc = "file" /\ ~LoopAgain /\ i \in 0..Size /\ i <= Len(out) /\ lastFile \in Nat
      /\ out \in Seq(1..Pushed)
  BY DEF EndFile, PipelineInv, TypeOK, IndexInOut
<1>2. Len(out) \in Nat /\ i \in Nat
  BY <1>1, SeqElements, SizeAssumption
<1>3. ASSUME NEW k \in 1..Len(out) PROVE out[k] \in written
  <2>1. out[k] \in 1..Pushed /\ out[k] \in InSight
    BY <1>1, SeqElements DEF SamplesOf, InSight
  <2>2. CASE i < k
    BY <1>1, <2>2 DEF WritingInv, VisitedWritten
  <2>3. CASE k <= i
    <3>1. i \in 1..Len(out) /\ out[i] \in 1..Pushed /\ stamp[out[i]] <= lastFile
      <4>1. i \in 1..Len(out)
        BY <1>1, <1>2, <2>3
      <4>2. out[i] \in 1..Pushed
        BY <1>1, <4>1, SeqElements
      <4> QED BY <1>1, <4>1, <4>2, InRange DEF LoopAgain
    <3>2. out[k] <= out[i]
      BY <2>1, <2>3, <3>1 DEF PipelineInv, OutOrdered, Increasing
    <3>3. stamp[out[k]] <= stamp[out[i]]
      BY <2>1, <3>1, <3>2 DEF PipelineInv, StampsOrdered
    <3>4. stamp[out[k]] <= lastFile
      BY <1>1, <2>1, <3>1, <3>3, InRange
    <3> QED BY <2>1, <3>4 DEF WritingInv, MarkedWritten
  <2> QED BY <1>2, <2>2, <2>3
<1> QED BY <1>3 DEF SamplesOf

LEMMA EndFileWriting ==
  ASSUME PipelineInv, AdvancingInv, WritingInv, EndFile
  PROVE  WritingInv'
<1>1. /\ UNCHANGED <<window, out, stamp, written>> /\ pc' = "sleep"
      /\ lastFile' = IF LogToFile /\ out # <<>> THEN stamp[LastOf(out)] ELSE lastFile
  BY DEF EndFile, windowVars
<1>2. Clock' = Clock /\ InSight' = InSight
  BY <1>1 DEF Clock, Pushed, InSight
<1>3. CASE LogToFile /\ out # <<>>
  <2>1. lastFile' <= Clock
    BY <1>1, <1>3, LastPeeked, InRange
  <2>2. ASSUME NEW n \in InSight, stamp[n] <= lastFile' PROVE n \in written
    BY <1>1, <1>3, <2>2, MarkIsPeeked, LoopLeavesNone
  <2>3. MarkedWritten'
    BY <1>1, <1>2, <2>1, <2>2 DEF MarkedWritten
  <2> QED BY <1>1, <1>3, <2>3, LoopLeavesNone DEF WritingInv, VisitedWritten, PeekedIsWritten
<1>4. CASE ~(LogToFile /\ out # <<>>)
  <2>1. MarkedWritten'
    BY <1>1, <1>2, <1>4 DEF WritingInv, MarkedWritten
  <2> QED BY <1>1, <2>1, LoopLeavesNone DEF WritingInv, VisitedWritten, PeekedIsWritten
<1> QED BY <1>3, <1>4

LEMMA WritingNext ==
  ASSUME ClockAdvances, PipelineInv, AdvancingInv, WritingInv, [Next]_vars
  PROVE  WritingInv'
<1> USE DEF WritingInv, MarkedWritten, VisitedWritten, PeekedIsWritten, Clock, Pushed, InSight
<1>1. CASE Pausing
  BY <1>1, PausingKeeps DEF PausingDefs, PipelineInv, windowVars, fileVars
<1>2. CASE ClearFile
  BY <1>2 DEF ClearFile, windowVars
<1>3. CASE FillInfluxBuffer
  <2>1. Len(out) \in Nat
    BY SeqElements DEF PipelineInv, TypeOK
  <2> QED BY <1>3, <2>1 DEF FillInfluxBuffer, windowVars
<1>4. CASE Send
  BY <1>4 DEF Send, windowVars, fileVars
<1>5. CASE UNCHANGED vars
  BY <1>5 DEF vars, windowVars, fileVars
<1>6. CASE FreeBuffers
  BY <1>6 DEF FreeBuffers, fileVars, SamplesOf
<1> HIDE DEF WritingInv
<1> QED BY <1>1, <1>2, <1>3, <1>4, <1>5, <1>6, SenseWriting, PeekWriting, WriteLineWriting,
           EndFileWriting DEF Next, LogThread, Pausing

(* With a clock that advances from push to push, every sample that a cycle *)
(* peeks is written by its end, for any buffer size and configuration: the *)
(* loop that stops at the first old sample leaves no new one behind it     *)
(* (logWriteValues.c:69).                                                  *)
THEOREM PeekedIsWrittenAlways ==
  ASSUME ClockAdvances
  PROVE  Spec => []PeekedIsWritten
<1>1. Init => PipelineInv /\ AdvancingInv /\ WritingInv
  BY InitInv, AdvancingInit, WritingInit
<1>2. PipelineInv /\ AdvancingInv /\ WritingInv /\ [Next]_vars
        => (PipelineInv /\ AdvancingInv /\ WritingInv)'
  BY NextInv, AdvancingNext, WritingNext
<1>3. WritingInv => PeekedIsWritten
  BY DEF WritingInv
<1> QED BY <1>1, <1>2, <1>3, PTL DEF Spec

-----------------------------------------------------------------------------
(* The post: every sample that an interval peeks is posted.                *)

LEMMA PostingInit == Init => PostingInv
BY DEF Init, PostingInv, MarkedPosted, BatchComplete, NoneSkippedAfterFirst

LEMMA SensePosting ==
  ASSUME ClockAdvances, PipelineInv, PostingInv, Sense
  PROVE  PostingInv'
<1>1. UNCHANGED <<out, pc, influxInterval, ready, lastInflux, batch, posted, firstPassed>>
  BY DEF Sense, WindowPush, cycleVars, influxVars
<1>2. lastInflux \in Nat /\ Clock \in Nat /\ InSight \subseteq 1..Pushed
  BY InRange DEF PipelineInv, TypeOK, InSight
<1>3. /\ \A n \in 1..Pushed : stamp'[n] = stamp[n]
      /\ Clock' \in Nat /\ Clock' = stamp'[Pushed + 1] /\ Clock < Clock'
      /\ InSight' \subseteq InSight \cup {Pushed + 1}
  BY <1>1, SenseGrows DEF InSight
<1>4. MarkedPosted'
  BY <1>1, <1>2, <1>3 DEF PostingInv, MarkedPosted
<1>5. BatchComplete'
  <2>1. SamplesOf(out) \subseteq 1..Pushed
    BY InRange
  <2> QED BY <1>1, <1>3, <2>1 DEF PostingInv, BatchComplete, NewerThan, SamplesOf
<1>6. NoneSkippedAfterFirst'
  BY <1>1 DEF PostingInv, NoneSkippedAfterFirst, Posting, SamplesOf
<1> QED BY <1>4, <1>5, <1>6 DEF PostingInv

(* After a first interval that found samples no peek is empty, so that the *)
(* mark is never garbage again.                                            *)
LEMMA PeekPosting == ASSUME PipelineInv, PostingInv, Peek PROVE PostingInv'
<1>1. /\ out' = window /\ pc' = "clear"
      /\ UNCHANGED <<window, stamp, lastInflux, posted, firstPassed>>
  BY PeekedAll DEF Peek, WindowPeekAll, influxVars
<1>2. Clock' = Clock /\ InSight' \subseteq InSight
  BY <1>1 DEF Clock, Pushed, InSight
<1>3. firstPassed # {} => window # <<>>
  <2>1. firstPassed \subseteq 1..Pushed /\ Pushed \in Nat
    BY InRange DEF PipelineInv, TypeOK
  <2>2. ASSUME NEW n \in firstPassed PROVE Pushed > 0
    <3>1. n \in 1..Pushed
      BY <2>1
    <3> QED BY <2>1, <3>1
  <2> QED BY <2>2 DEF PipelineInv, WindowOrdered, Peek
<1>4. MarkedPosted'
  BY <1>1, <1>2, <1>3 DEF PostingInv, MarkedPosted
<1> QED BY <1>1, <1>4 DEF PostingInv, BatchComplete, NoneSkippedAfterFirst

(* The post takes what is newer than the old mark; what is not has been    *)
(* posted, or is what the first interval has passed.                       *)
LEMMA SendPosting == ASSUME PipelineInv, AdvancingInv, PostingInv, Send PROVE PostingInv'
<1>1. /\ UNCHANGED <<window, out, stamp>> /\ pc = "send" /\ pc' = "file"
      /\ posted' = posted \cup batch
      /\ lastInflux' \in (IF out = <<>> THEN Garbage ELSE {stamp[LastOf(out)]})
      /\ firstPassed' = IF firstPassed = {} THEN SamplesOf(out) ELSE firstPassed
  BY DEF Send, windowVars
<1>2. Clock' = Clock /\ InSight' = InSight
  BY <1>1 DEF Clock, Pushed, InSight
<1>3. SamplesOf(out) \subseteq posted' \cup firstPassed'
  <2>1. CASE firstPassed = {}
    BY <1>1, <2>1
  <2>2. CASE firstPassed # {}
    <3> SUFFICES ASSUME NEW n \in SamplesOf(out) PROVE n \in posted' \cup firstPassed'
      OBVIOUS
    <3>1. n \in 1..Pushed /\ lastInflux \in Nat /\ stamp[n] \in Nat
      BY InRange DEF PipelineInv, TypeOK
    <3>2. CASE stamp[n] > lastInflux
      BY <1>1, <3>2 DEF PostingInv, BatchComplete, NewerThan
    <3>3. CASE stamp[n] <= lastInflux
      BY <1>1, <2>2, <3>3 DEF PostingInv, MarkedPosted, InSight
    <3> QED BY <3>1, <3>2, <3>3
  <2> QED BY <2>1, <2>2
<1>4. MarkedPosted'
  <2> SUFFICES ASSUME firstPassed' # {} PROVE MarkedPosted'
    BY DEF MarkedPosted
  <2>1. out # <<>>
    <3>1. CASE firstPassed = {}
      <4>1. SamplesOf(out) # {}
        BY <1>1, <3>1
      <4> QED BY <4>1 DEF SamplesOf
    <3>2. CASE firstPassed # {}
      BY <3>2 DEF PostingInv, MarkedPosted
    <3> QED BY <3>1, <3>2
  <2>2. lastInflux' = stamp[LastOf(out)] /\ lastInflux' <= Clock
    BY <1>1, <2>1, LastPeeked, InRange
  <2>3. ASSUME NEW n \in InSight, stamp[n] <= lastInflux' PROVE n \in SamplesOf(out)
    BY <2>1, <2>2, <2>3, MarkIsPeeked
  <2> QED BY <1>1, <1>2, <1>3, <2>1, <2>2, <2>3 DEF MarkedPosted
<1> QED BY <1>1, <1>3, <1>4 DEF PostingInv, BatchComplete, NoneSkippedAfterFirst, SamplesOf

LEMMA PostingNext ==
  ASSUME ClockAdvances, PipelineInv, AdvancingInv, PostingInv, [Next]_vars
  PROVE  PostingInv'
<1> USE DEF PostingInv, MarkedPosted, BatchComplete, NoneSkippedAfterFirst, Posting,
            NewerThan, SamplesOf, Clock, Pushed, InSight
<1>1. CASE Pausing
  BY <1>1, PausingKeeps DEF PausingDefs, PipelineInv, windowVars, influxVars, cycleVars
<1>2. CASE ClearFile
  BY <1>2 DEF ClearFile, windowVars, threadVars, cycleVars, influxVars
<1>3. CASE FillInfluxBuffer
  BY <1>3 DEF FillInfluxBuffer, windowVars, threadVars, cycleVars
<1>4. CASE WriteLine \/ EndFile
  BY <1>4 DEF WriteLine, EndFile, windowVars, threadVars, cycleVars, influxVars
<1>5. CASE UNCHANGED vars
  BY <1>5 DEF vars, windowVars, cycleVars, influxVars
<1>6. CASE FreeBuffers
  BY <1>6 DEF FreeBuffers, cycleVars, influxVars
<1> HIDE DEF PostingInv
<1> QED BY <1>1, <1>2, <1>3, <1>4, <1>5, <1>6, SensePosting, PeekPosting, SendPosting
        DEF Next, LogThread, Pausing

(* With a clock that advances from push to push, a post interval passes    *)
(* over no sample it has peeked, but for what the first one that found     *)
(* samples may: whatever mpu_samples[-1] reads as, the damage ends there   *)
(* (logWriteValues.c:51-62).                                               *)
THEOREM NoneSkippedAfterFirstAlways ==
  ASSUME ClockAdvances
  PROVE  Spec => []NoneSkippedAfterFirst
<1>1. Init => PipelineInv /\ AdvancingInv /\ PostingInv
  BY InitInv, AdvancingInit, PostingInit
<1>2. PipelineInv /\ AdvancingInv /\ PostingInv /\ [Next]_vars
        => (PipelineInv /\ AdvancingInv /\ PostingInv)'
  BY NextInv, AdvancingNext, PostingNext
<1>3. PostingInv => NoneSkippedAfterFirst
  BY DEF PostingInv
<1> QED BY <1>1, <1>2, <1>3, PTL DEF Spec

-----------------------------------------------------------------------------
(* The order of the file's lines.                                          *)

LEMMA FileInit == Init => FileInv
<1> SUFFICES ASSUME Init PROVE FileInv
  OBVIOUS
<1>1. file = <<>> /\ Len(file) = 0
  BY DEF Init
<1> QED BY <1>1 DEF Init, FileInv, BlocksMarked, BlockVisited, FileInBlocks, SamplesOf

LEMMA SenseFile == ASSUME PipelineInv, FileInv, Sense PROVE FileInv'
<1>1. /\ UNCHANGED <<out, pc, lastFile, i, file, blockStart, written>>
      /\ \A n \in 1..Pushed : stamp'[n] = stamp[n]
  BY SenseGrows DEF Sense, WindowPush, fileVars
<1>2. file \in Seq(1..Pushed) /\ Len(file) \in Nat /\ blockStart \in Nat
  BY SeqElements DEF PipelineInv, TypeOK
<1>3. BlocksMarked'
  <2> SUFFICES ASSUME pc \in {"influx", "send", "file"}
               PROVE  /\ blockStart <= Len(file)
                      /\ \A j \in 1..blockStart : stamp'[file[j]] <= lastFile
    BY <1>1 DEF BlocksMarked
  <2>1. blockStart <= Len(file) /\ \A j \in 1..blockStart : stamp[file[j]] <= lastFile
    BY DEF FileInv, BlocksMarked
  <2>2. \A j \in 1..blockStart : file[j] \in 1..Pushed
    <3>1. \A j \in 1..Len(file) : file[j] \in 1..Pushed
      BY <1>2, SeqElements
    <3>2. \A j \in 1..blockStart : j \in 1..Len(file)
      BY <1>2, <2>1
    <3> QED BY <3>1, <3>2
  <2> QED BY <1>1, <2>1, <2>2
<1> QED BY <1>1, <1>3 DEF FileInv, BlockVisited, FileInBlocks, SamplesOf

(* The lines of all earlier cycles lie at or below the mark.               *)
LEMMA ClearFileFile == ASSUME PipelineInv, FileInv, ClearFile PROVE FileInv'
<1>1. /\ UNCHANGED <<out, stamp, lastFile, i, written>> /\ pc = "clear" /\ pc' = "influx"
      /\ file' \in {<<>>, file} /\ blockStart' = Len(file')
  BY DEF ClearFile, windowVars
<1>2. file' \in Seq(1..Pushed) /\ Len(file') \in Nat
  <2>1. file \in Seq(1..Pushed) /\ <<>> \in Seq(1..Pushed)
    BY DEF PipelineInv, TypeOK
  <2>2. file' \in Seq(1..Pushed)
    BY <1>1, <2>1
  <2> QED BY <2>2, SeqElements
<1>3. SamplesOf(file') \subseteq written
  <2>1. SamplesOf(<<>>) = {}
    BY DEF SamplesOf
  <2> QED BY <1>1, <2>1 DEF FileInv
<1>4. \A j \in 1..Len(file') : stamp[file'[j]] <= lastFile
  BY <1>1, <1>3 DEF PipelineInv, WrittenCovered, SamplesOf
<1>5. \A k \in 1..Len(file') : ~(blockStart' < k)
  BY <1>1, <1>2
<1>6. BlocksMarked' /\ BlockVisited' /\ FileInBlocks'
  BY <1>1, <1>2, <1>4, <1>5 DEF BlocksMarked, BlockVisited, FileInBlocks
<1>7. SamplesOf(file)' \subseteq written'
  BY <1>1, <1>3 DEF SamplesOf
<1> QED BY <1>6, <1>7 DEF FileInv

(* A new line is newer than all earlier blocks and older than the lines    *)
(* before it in its own.                                                   *)
LEMMA LineFitsBlock ==
  ASSUME PipelineInv, FileInv, pc = "file", LoopAgain, NEW j \in 1..Len(file)
  PROVE  /\ i \in 1..Len(out)
         /\ IF j <= blockStart THEN file[j] < out[i] ELSE file[j] > out[i]
<1>1. /\ out \in Seq(1..Pushed) /\ file \in Seq(1..Pushed) /\ lastFile \in Nat
      /\ i \in 0..Size /\ i <= Len(out) /\ i > 0 /\ stamp[out[i]] > lastFile
      /\ blockStart \in Nat
  BY DEF PipelineInv, TypeOK, IndexInOut, LoopAgain
<1>2. i \in 1..Len(out)
  BY <1>1, SeqElements, SizeAssumption
<1>3. out[i] \in 1..Pushed /\ file[j] \in 1..Pushed /\ Pushed \in Nat /\ Len(file) \in Nat
  BY <1>1, <1>2, SeqElements, InRange
<1>4. CASE j <= blockStart
  <2>1. stamp[file[j]] <= lastFile
    BY <1>1, <1>3, <1>4 DEF FileInv, BlocksMarked
  <2>2. stamp[out[i]] \in Nat /\ stamp[file[j]] \in Nat
    BY <1>3, InRange
  <2>3. out[i] <= file[j] => stamp[out[i]] <= stamp[file[j]]
    BY <1>3 DEF PipelineInv, StampsOrdered
  <2> QED BY <1>1, <1>2, <1>3, <1>4, <2>1, <2>2, <2>3
<1>5. CASE blockStart < j
  <2>1. PICK k \in 1..Len(out) : i < k /\ file[j] = out[k]
    BY <1>5 DEF FileInv, BlockVisited
  <2>2. out[i] < out[k]
    BY <1>2, <2>1 DEF PipelineInv, OutOrdered, Increasing
  <2> QED BY <1>1, <1>2, <1>3, <1>5, <2>1, <2>2
<1> QED BY <1>1, <1>3, <1>4, <1>5

LEMMA WriteLineFile == ASSUME PipelineInv, FileInv, WriteLine PROVE FileInv'
<1>1. /\ UNCHANGED <<out, stamp, lastFile, blockStart>> /\ pc = "file" /\ pc' = "file"
      /\ i' = i - 1 /\ i \in Nat /\ written' = written \cup {out[i]} /\ LoopAgain
      /\ file' \in {file, Append(file, out[i])}
  BY SizeAssumption DEF WriteLine, windowVars, PipelineInv, TypeOK
<1>2. /\ file \in Seq(1..Pushed) /\ Len(file) \in Nat /\ blockStart \in Nat
      /\ blockStart <= Len(file)
  BY <1>1, SeqElements DEF PipelineInv, TypeOK, FileInv, BlocksMarked
<1>3. i \in 1..Len(out) /\ out[i] \in 1..Pushed
  <2>1. out \in Seq(1..Pushed) /\ i <= Len(out) /\ i > 0
    BY <1>1 DEF PipelineInv, TypeOK, IndexInOut, LoopAgain
  <2>2. Len(out) \in Nat /\ \A k \in 1..Len(out) : out[k] \in 1..Pushed
    BY <2>1, SeqElements
  <2>3. i \in 1..Len(out)
    BY <1>1, <2>1, <2>2
  <2> QED BY <2>2, <2>3
<1>4. CASE file' = file
  BY <1>1, <1>4 DEF FileInv, BlocksMarked, BlockVisited, FileInBlocks, SamplesOf
<1>5. CASE file' = Append(file, out[i])
  <2>1. /\ Len(file') = Len(file) + 1 /\ file'[Len(file) + 1] = out[i]
        /\ \A j \in 1..Len(file) : file'[j] = file[j]
        /\ \A j \in 1..Len(file') : j \in 1..Len(file) \/ j = Len(file) + 1
    BY <1>2, <1>3, <1>5
  <2>2. SamplesOf(file)' \subseteq written'
    BY <1>1, <2>1 DEF FileInv, SamplesOf
  <2>3. BlocksMarked'
    BY <1>1, <1>2, <2>1 DEF FileInv, BlocksMarked
  <2>4. BlockVisited'
    <3> SUFFICES ASSUME NEW j \in 1..Len(file'), blockStart < j
                 PROVE  \E k \in 1..Len(out) : i' < k /\ file'[j] = out[k]
      BY <1>1 DEF BlockVisited
    <3>1. CASE j \in 1..Len(file)
      <4>1. PICK k \in 1..Len(out) : i < k /\ file[j] = out[k]
        BY <1>1, <3>1 DEF FileInv, BlockVisited
      <4>2. i' < k
        BY <1>1, <4>1
      <4> QED BY <2>1, <3>1, <4>1, <4>2
    <3>2. CASE j = Len(file) + 1
      BY <1>1, <1>3, <2>1, <3>2
    <3> QED BY <2>1, <3>1, <3>2
  <2>5. FileInBlocks'
    <3> SUFFICES ASSUME NEW j \in 1..Len(file'), NEW k \in 1..Len(file'),
                        j < k, blockStart < k
                 PROVE  IF j <= blockStart THEN file'[j] < file'[k] ELSE file'[j] > file'[k]
      BY <1>1 DEF FileInBlocks
    <3>1. j \in 1..Len(file)
      BY <1>2, <2>1
    <3>2. CASE k \in 1..Len(file)
      BY <2>1, <3>1, <3>2 DEF FileInv, FileInBlocks
    <3>3. CASE k = Len(file) + 1
      BY <1>1, <2>1, <3>1, <3>3, LineFitsBlock
    <3> QED BY <2>1, <3>2, <3>3
  <2> QED BY <2>2, <2>3, <2>4, <2>5 DEF FileInv
<1> QED BY <1>1, <1>4, <1>5

LEMMA FileNext ==
  ASSUME PipelineInv, FileInv, [Next]_vars
  PROVE  FileInv'
<1> USE DEF FileInv, BlocksMarked, BlockVisited, FileInBlocks, SamplesOf
<1>1. CASE Peek \/ EndFile \/ FreeBuffers
  BY <1>1 DEF Peek, EndFile, FreeBuffers, WindowPeekAll, windowVars, fileVars
<1>2. CASE FillInfluxBuffer
  BY <1>2 DEF FillInfluxBuffer, windowVars
<1>3. CASE Send
  BY <1>3 DEF Send, windowVars, fileVars
<1>4. CASE UNCHANGED vars
  BY <1>4 DEF vars, windowVars, fileVars
<1>5. CASE Pausing
  BY <1>5, PausingKeeps DEF PausingDefs, PipelineInv, windowVars, fileVars
<1> HIDE DEF FileInv
<1> QED BY <1>1, <1>2, <1>3, <1>4, <1>5, SenseFile, ClearFileFile, WriteLineFile
        DEF Next, LogThread, Pausing

(* For every buffer size and clock that is not set back, the data file     *)
(* holds the newest samples of a cycle first and the cycles in order,      *)
(* whichever lines could not be written (logWriteValues.c:68).             *)
THEOREM FileInBlocksAlways == Spec => []FileInBlocks
<1>1. Init => PipelineInv /\ FileInv
  BY InitInv, FileInit
<1>2. PipelineInv /\ FileInv /\ [Next]_vars => (PipelineInv /\ FileInv)'
  BY NextInv, FileNext
<1>3. FileInv => FileInBlocks
  BY DEF FileInv
<1> QED BY <1>1, <1>2, <1>3, PTL DEF Spec

-----------------------------------------------------------------------------
(* The buffer holds the newest samples without a gap, and so does a peek.  *)

WindowContiguous ==
  /\ \A k \in 1..Len(window) : window[k] = Pushed - Len(window) + k
  /\ pc # "stopped" => Len(window) = Size \/ Len(window) = Pushed

OutContiguous ==
  out # <<>> =>
    /\ \A k \in 1..Len(out) : out[k] = LastOf(out) - Len(out) + k
    /\ Len(out) = Size \/ Len(out) = LastOf(out)

ContiguousInv == WindowContiguous /\ OutContiguous

LEMMA ContiguousInit == Init => ContiguousInv
<1> SUFFICES ASSUME Init PROVE ContiguousInv
  OBVIOUS
<1>1. window = <<>> /\ out = <<>> /\ Pushed = 0 /\ Len(window) = 0
  BY DEF Init, WindowInit, Pushed
<1> QED BY <1>1 DEF ContiguousInv, WindowContiguous, OutContiguous

(* A full window forgets one sample for the one that enters.               *)
LEMMA SenseContiguous ==
  ASSUME PipelineInv, WindowContiguous, Sense
  PROVE  WindowContiguous'
<1> USE SizeAssumption
<1>1. Pushed' = Pushed + 1 /\ Pushed \in Nat
  BY SenseGrows, InRange
<1>2. window' = Slide(window, Pushed + 1)
  BY DEF Sense, WindowPush
<1> DEFINE s == Pushed + 1
           kept == IF Len(window) < Size THEN window ELSE Tail(window)
           next == Append(kept, s)
<1>3. window \in Seq(1..Pushed) /\ Len(window) <= Size /\ Len(window) \in Nat
  BY SeqElements DEF PipelineInv, TypeOK
<1>4. /\ kept \in Seq(1..Pushed) /\ Len(kept) \in Nat
      /\ Len(kept) + 1 = Size \/ Len(kept) = Pushed
      /\ \A k \in 1..Len(kept) : kept[k] = Pushed - Len(kept) + k
  <2>1. CASE Len(window) < Size
    BY <1>3, <2>1 DEF WindowContiguous, Sense
  <2>2. CASE Len(window) = Size
    <3>1. /\ Tail(window) \in Seq(1..Pushed) /\ Len(Tail(window)) = Len(window) - 1
          /\ \A k \in 1..(Len(window) - 1) :
               Tail(window)[k] = window[k + 1] /\ k + 1 \in 1..Len(window)
      BY <1>3, <2>2
    <3>2. kept = Tail(window)
      BY <2>2
    <3> HIDE DEF kept
    <3>3. /\ kept \in Seq(1..Pushed) /\ Len(kept) = Size - 1
          /\ \A k \in 1..(Size - 1) : kept[k] = window[k + 1] /\ k + 1 \in 1..Len(window)
      BY <2>2, <3>1, <3>2
    <3>4. \A k \in 1..(Size - 1) : window[k + 1] = Pushed - Size + (k + 1)
      BY <2>2, <3>3 DEF WindowContiguous
    <3> QED BY <1>1, <3>3, <3>4
  <2> QED BY <1>3, <2>1, <2>2
<1>5. window' = next
  BY <1>2 DEF Slide
<1> HIDE DEF kept
<1>6. /\ Len(next) = Len(kept) + 1 /\ next[Len(kept) + 1] = s
      /\ \A k \in 1..Len(kept) : next[k] = kept[k]
  BY <1>4
<1> HIDE DEF next
<1>7. ASSUME NEW k \in 1..Len(next) PROVE next[k] = s - Len(next) + k
  <2>1. CASE k \in 1..Len(kept)
    BY <1>1, <1>4, <1>6, <2>1
  <2>2. CASE k = Len(kept) + 1
    BY <1>1, <1>4, <1>6, <2>2
  <2> QED BY <1>4, <1>6, <2>1, <2>2
<1>8. Len(next) = Size \/ Len(next) = s
  BY <1>1, <1>4, <1>6
<1> QED BY <1>1, <1>5, <1>7, <1>8 DEF WindowContiguous

LEMMA ContiguousNext ==
  ASSUME PipelineInv, ContiguousInv, [Next]_vars
  PROVE  ContiguousInv'
<1>1. CASE Sense
  <2>1. out' = out
    BY <1>1 DEF Sense, WindowPush
  <2> QED BY <1>1, <2>1, SenseContiguous DEF ContiguousInv, OutContiguous, LastOf
<1>2. CASE Peek
  <2>1. out' = window /\ window' = window /\ Pushed' = Pushed
    BY <1>2, PeekedAll DEF Peek, WindowPeekAll, Pushed
  <2>2. window # <<>> => LastOf(window) = Pushed
    <3>1. window \in Seq(1..Pushed) /\ Pushed \in Nat
      BY InRange DEF PipelineInv, TypeOK
    <3>2. ASSUME window # <<>> PROVE Pushed > 0
      <4>1. Len(window) \in 1..Len(window)
        BY <3>1, <3>2, SeqElements
      <4>2. window[Len(window)] \in 1..Pushed
        BY <3>1, <4>1, SeqElements
      <4> QED BY <3>1, <4>2
    <3> QED BY <1>2, <3>2 DEF PipelineInv, WindowOrdered, Peek
  <2> QED BY <1>2, <2>1, <2>2 DEF ContiguousInv, WindowContiguous, OutContiguous, Peek
<1>3. CASE UNCHANGED <<window, out, stamp>> /\ (pc = "stopped" => pc' = "stopped")
  BY <1>3 DEF ContiguousInv, WindowContiguous, OutContiguous, Pushed, LastOf
<1>4. CASE FreeBuffers
  BY <1>4 DEF FreeBuffers, ContiguousInv, WindowContiguous, OutContiguous, LastOf
<1> QED BY <1>1, <1>2, <1>3, <1>4, OthersLook

(* A peek has seen the last Size samples up to its newest one.             *)
LEMMA PeekReachesBack ==
  ASSUME PipelineInv, ContiguousInv, out # <<>>,
         NEW n \in 1..LastOf(out), n > LastOf(out) - Size
  PROVE  n \in SamplesOf(out)
<1>1. LastOf(out) \in Nat /\ Len(out) \in Nat
  <2>1. Pushed \in Nat /\ out \in Seq(1..Pushed)
    BY InRange DEF PipelineInv, TypeOK
  <2> QED BY <2>1, LastPeeked, SeqElements
<1> DEFINE k == n - LastOf(out) + Len(out)
<1>2. k \in 1..Len(out)
  BY <1>1, SizeAssumption DEF ContiguousInv, OutContiguous
<1>3. LastOf(out) - Len(out) + k = n
  BY <1>1
<1> HIDE DEF k
<1>4. out[k] = n
  BY <1>2, <1>3 DEF ContiguousInv, OutContiguous
<1> QED BY <1>2, <1>4 DEF SamplesOf

(* With a clock that advances from push to push, only an overrun of the    *)
(* buffer loses a sample: whatever the buffer's size, a sensor that pushes *)
(* at most Size samples between two peeks gets all of them written, and    *)
(* one that does so between two posts gets them posted.                    *)
THEOREM OnlyOverrunLosesAlways ==
  ASSUME ClockAdvances
  PROVE  Spec => []OnlyOverrunLoses
<1>1. Init => PipelineInv /\ ContiguousInv
  BY InitInv, ContiguousInit
<1>2. PipelineInv /\ ContiguousInv /\ [Next]_vars => (PipelineInv /\ ContiguousInv)'
  BY NextInv, ContiguousNext
<1>3. PipelineInv /\ ContiguousInv /\ PeekedIsWritten /\ NoneSkippedAfterFirst
        => OnlyOverrunLoses
  BY PeekReachesBack DEF OnlyOverrunLoses, PeekedIsWritten, NoneSkippedAfterFirst
<1> QED BY <1>1, <1>2, <1>3, PeekedIsWrittenAlways, NoneSkippedAfterFirstAlways, PTL DEF Spec
=============================================================================
