---------------------------- MODULE ServiceProofs ---------------------------
(***************************************************************************)
(* Proofs about the life of the process, for any command, any failure of   *)
(* pthread_create and any number of signals to any thread.  ServiceInv     *)
(* says which threads there are, on which of them handlers may run, and    *)
(* where the owner of a mutex is.                                          *)
(***************************************************************************)
EXTENDS Service, SequenceTheorems, TLAPS

Others == Workers \cup {"mhd"}
Away == {"new", "absent", "dead"}

(* A thread that is not there has no handler on top of it.                 *)
Framed == \A t \in Threads : pc[t] \in Away => frames[t] = <<>>

(* What main's and the http thread's points say of the other threads.      *)
Phases ==
  /\ pc["main"] = "scanning" => frames["mdns"] = <<>>
  /\ pc["main"] = "route" => \A t \in Others : pc[t] = "new"
  /\ pc["http"] \in {"new", "absent", "start", "daemon", "bye", "dead"} =>
       pc["mhd"] \in {"new", "dead"}
  /\ destroyed => /\ pc["main"] \in {"destroyed", "exited"}
                  /\ \A t \in Others : pc[t] \in Away

(* The owner of `lock` is inside a critical section, or a handler on top   *)
(* of it is.                                                               *)
Holds(t) ==
  \/ pc[t] \in {"check", "write", "client"}
  \/ \E i \in DOMAIN frames[t] : frames[t][i] \in {"quit", "unlock"}

(* Unless one of the early returns of the mDNS scan keeps a mutex locked.  *)
Held ==
  MdnsEnabled /\ AvahiUp =>
    /\ destroyed => lock = Nobody
    /\ lock # Nobody => Holds(lock)
    /\ nodeLock # Nobody => pc[nodeLock] \in {"serve", "event"}

ServiceInv == TypeOK /\ Framed /\ Phases /\ Held

LEMMA ServiceInit == Init => ServiceInv
<1> SUFFICES ASSUME Init PROVE ServiceInv
  OBVIOUS
<1> USE DEF Init, Threads, Workers
<1>1. TypeOK
  <2>1. DOMAIN pc = Threads /\ \A t \in Threads : pc[t] \in Points[t]
    BY DEF Points
  <2>2. frames \in [Threads -> Seq({"lock", "quit", "unlock"})]
    OBVIOUS
  <2>3. signals \in 0..MaxSignals
    BY SignalsAssumption
  <2> QED BY <2>1, <2>2, <2>3 DEF TypeOK
<1>2. Framed /\ Phases /\ Held
  BY DEF Framed, Phases, Held, Others, Away
<1> QED BY <1>1, <1>2 DEF ServiceInv

LEMMA MainKeeps == ASSUME ServiceInv, MainStep PROVE ServiceInv'
<1> USE DEF ServiceInv, TypeOK, Framed, Phases, Held, Holds, Others, Away, Threads, Workers,
        Carrier, At, GoTo, Step, mutexes, shared
<1>1. CASE Refuse
  BY <1>1 DEF Refuse, Points
<1>2. CASE SkipThreads
  BY <1>2 DEF SkipThreads, Points
<1>3. CASE BeginService
  BY <1>3 DEF BeginService, Points
<1>4. CASE BeginScan
  BY <1>4 DEF BeginScan, Points
<1>5. CASE Launch
  <2>1. PICK k \in 1..4, first \in {"start"} \cup {"absent" : t \in CreateMayFail \cap Workers} :
          /\ pc[LaunchOrder[k]] = "new"
          /\ pc' = [pc EXCEPT ![LaunchOrder[k]] = first,
                             !["main"] = IF k = 4 THEN "join" ELSE "launch"]
    <3>1. PICK k \in 1..4 :
            /\ pc[LaunchOrder[k]] = "new"
            /\ \E first \in {"start"} \cup {"absent" : t \in CreateMayFail \cap {LaunchOrder[k]}} :
                 pc' = [pc EXCEPT ![LaunchOrder[k]] = first,
                                  !["main"] = IF k = 4 THEN "join" ELSE "launch"]
      BY <1>5 DEF Launch
    <3>2. {LaunchOrder[k]} \subseteq Workers
      BY DEF LaunchOrder
    <3>3. PICK first \in {"start"} \cup {"absent" : t \in CreateMayFail \cap {LaunchOrder[k]}} :
            pc' = [pc EXCEPT ![LaunchOrder[k]] = first,
                             !["main"] = IF k = 4 THEN "join" ELSE "launch"]
      BY <3>1
    <3>4. first \in {"start"} \cup {"absent" : t \in CreateMayFail \cap Workers}
      BY <3>2
    <3> QED BY <3>1, <3>3, <3>4
  <2> DEFINE t == LaunchOrder[k]
             next == IF k = 4 THEN "join" ELSE "launch"
  <2>2. t \in Workers /\ first \in {"start", "absent"} /\ next \in {"join", "launch"}
    BY DEF LaunchOrder
  <2> HIDE DEF t, next
  <2>3. pc["main"] = "launch" /\ UNCHANGED <<frames, mutexes, signals, shared>>
    BY <1>5 DEF Launch
  <2>4. \A u \in Threads : pc'[u] = IF u = t THEN first ELSE IF u = "main" THEN next ELSE pc[u]
    BY <2>1, <2>2 DEF t, next
  <2>5. DOMAIN pc' = Threads /\ pc[t] = "new"
    BY <2>1 DEF t
  <2>6. TypeOK'
    BY <2>2, <2>3, <2>4, <2>5 DEF Points
  <2>7. Framed' /\ Phases'
    BY <2>2, <2>3, <2>4, <2>5
  <2>8. Held'
    BY <2>2, <2>3, <2>4, <2>5
  <2> QED BY <2>6, <2>7, <2>8
<1>6. CASE JoinAndDestroy
  <2>1. /\ pc["main"] = "join" /\ frames["main"] = <<>>
        /\ \A t \in Workers : pc[t] \in {"dead", "absent"}
        /\ pc' = [pc EXCEPT !["main"] = "destroyed"]
        /\ UNCHANGED <<frames, lock, nodeLock, signals, running, poll, pollQuit, timer, ring>>
        /\ destroyed' = TRUE
    BY <1>6 DEF JoinAndDestroy, Joined
  <2>2. undefined' \subseteq undefined \cup {"join"}
    BY <1>6 DEF JoinAndDestroy
  <2>3. \A t \in Others : pc[t] \in Away
    BY <2>1
  <2>4. MdnsEnabled /\ AvahiUp => lock = Nobody
    BY <2>1, <2>3
  <2>5. TypeOK'
    BY <2>1, <2>2 DEF Points
  <2>6. Framed' /\ Phases'
    BY <2>1, <2>3
  <2>7. Held'
    BY <2>1, <2>4
  <2> QED BY <2>5, <2>6, <2>7
<1>7. CASE ScanReturns
  BY <1>7 DEF ScanReturns, Points
<1>8. CASE Exit
  <2>1. undefined' \subseteq undefined \cup {"mutex"}
    BY <1>8 DEF Exit
  <2>2. /\ pc["main"] \in {"destroyed", "ending"} /\ pc' = [pc EXCEPT !["main"] = "exited"]
        /\ UNCHANGED <<frames, mutexes, signals, running, poll, pollQuit, timer, ring>>
    BY <1>8 DEF Exit
  <2>3. TypeOK'
    BY <2>1, <2>2 DEF Points
  <2> QED BY <2>2, <2>3
<1> QED BY <1>1, <1>2, <1>3, <1>4, <1>5, <1>6, <1>7, <1>8 DEF MainStep

LEMMA HttpKeeps == ASSUME ServiceInv, HttpStep \/ MhdStep \/ Request PROVE ServiceInv'
<1> USE DEF ServiceInv, TypeOK, Framed, Phases, Held, Holds, Others, Away, Threads, Workers,
        Carrier, At, GoTo, Step, mutexes, shared, WithNodeLock, TakeLock, ReleaseLock
<1>1. CASE WithNodeLock("http", "start", "daemon")
  BY <1>1 DEF Points
<1>2. CASE StartDaemon
  <2>1. CASE pc' = [pc EXCEPT !["http"] = "loop", !["mhd"] = "idle"]
    <3>1. /\ pc["http"] = "daemon" /\ frames["http"] = <<>>
          /\ UNCHANGED <<frames, mutexes, signals, shared>>
      BY <1>2 DEF StartDaemon
    <3>2. \A u \in Threads :
            pc'[u] = IF u = "http" THEN "loop" ELSE IF u = "mhd" THEN "idle" ELSE pc[u]
      BY <2>1
    <3>3. DOMAIN pc' = Threads
      BY <2>1
    <3>4. TypeOK'
      BY <3>1, <3>2, <3>3 DEF Points
    <3>5. Framed' /\ Phases'
      BY <3>1, <3>2
    <3>6. Held'
      BY <3>1, <3>2
    <3> QED BY <3>4, <3>5, <3>6
  <2>2. CASE GoTo("http", "bye")
    BY <1>2, <2>2 DEF StartDaemon, Points
  <2> QED BY <1>2, <2>1, <2>2 DEF StartDaemon
<1>3. CASE LoopHead("http")
  BY <1>3 DEF LoopHead, Points
<1>4. CASE CheckRunning("http", "loop", "stopping")
  BY <1>4 DEF CheckRunning, Points
<1>5. CASE StopDaemon
  <2>1. /\ pc["http"] = "stopping" /\ pc["mhd"] = "idle" /\ frames["mhd"] = <<>>
        /\ frames["http"] = <<>>
        /\ UNCHANGED <<frames, mutexes, signals, shared>>
    BY <1>5 DEF StopDaemon
  <2>2. \A u \in Threads :
          pc'[u] = IF u = "http" THEN "bye" ELSE IF u = "mhd" THEN "dead" ELSE pc[u]
    BY <1>5 DEF StopDaemon
  <2>3. DOMAIN pc' = Threads
    BY <1>5 DEF StopDaemon
  <2>4. TypeOK'
    BY <2>1, <2>2, <2>3 DEF Points
  <2>5. Framed' /\ Phases'
    BY <2>1, <2>2
  <2>6. Held'
    BY <2>1, <2>2
  <2> QED BY <2>4, <2>5, <2>6
<1>6. CASE Bye("http", "dead")
  BY <1>6 DEF Bye, Points
<1>7. CASE TakeNodeLock("mhd", "want", "serve")
  BY <1>7 DEF TakeNodeLock, Points
<1>8. CASE ReleaseNodeLock("mhd", "serve", "idle")
  BY <1>8 DEF ReleaseNodeLock, Points
<1>9. CASE Request
  BY <1>9 DEF Request, Points
<1>10. CASE WithNodeLock("http", "start", "dead")
  BY <1>10 DEF Points
<1> QED BY <1>1, <1>2, <1>3, <1>4, <1>5, <1>6, <1>7, <1>8, <1>9, <1>10 DEF HttpStep, MhdStep

LEMMA LogKeeps == ASSUME ServiceInv, LogStep PROVE ServiceInv'
<1> USE DEF ServiceInv, TypeOK, Framed, Phases, Held, Holds, Others, Away, Threads, Workers,
        Carrier, At, GoTo, Step, mutexes, shared, WithNodeLock, TakeLock, ReleaseLock
<1>1. CASE WithNodeLock("log", "start", IF LogEnabled THEN "alloc" ELSE "dead")
  BY <1>1 DEF Points
<1>2. CASE AllocRing
  <2>1. CASE Step("log", "alloc", "init") /\ ring' = "raw"
    <3>1. TypeOK'
      BY <1>2, <2>1 DEF AllocRing, Points
    <3>2. Framed' /\ Phases' /\ Held'
      BY <1>2, <2>1 DEF AllocRing
    <3> QED BY <3>1, <3>2
  <2>2. CASE Step("log", "alloc", "loop") /\ UNCHANGED ring
    <3>1. TypeOK'
      BY <1>2, <2>2 DEF AllocRing, Points
    <3>2. Framed' /\ Phases' /\ Held'
      BY <1>2, <2>2 DEF AllocRing
    <3> QED BY <3>1, <3>2
  <2> QED BY <1>2, <2>1, <2>2 DEF AllocRing
<1>3. CASE InitRing
  <2>1. TypeOK'
    BY <1>3 DEF InitRing, Points
  <2>2. Framed' /\ Phases' /\ Held'
    BY <1>3 DEF InitRing
  <2> QED BY <2>1, <2>2
<1>4. CASE LoopHead("log")
  BY <1>4 DEF LoopHead, Points
<1>5. CASE CheckRunning("log", "cycle", "bye")
  BY <1>5 DEF CheckRunning, Points
<1>6. CASE LogCycle
  BY <1>6 DEF LogCycle, Points
<1>7. CASE Bye("log", "free")
  BY <1>7 DEF Bye, Points
<1>8. CASE FreeRing
  <2>1. TypeOK'
    BY <1>8 DEF FreeRing, Points
  <2>2. Framed' /\ Phases' /\ Held'
    BY <1>8 DEF FreeRing
  <2> QED BY <2>1, <2>2
<1>9. CASE ClearRing
  <2>1. TypeOK'
    BY <1>9 DEF ClearRing, Points
  <2>2. Framed' /\ Phases' /\ Held'
    BY <1>9 DEF ClearRing
  <2> QED BY <2>1, <2>2
<1> QED BY <1>1, <1>2, <1>3, <1>4, <1>5, <1>6, <1>7, <1>8, <1>9 DEF LogStep

LEMMA SensorKeeps == ASSUME ServiceInv, SensorStep PROVE ServiceInv'
<1> USE DEF ServiceInv, TypeOK, Framed, Phases, Held, Holds, Others, Away, Threads, Workers,
        Carrier, At, GoTo, Step, mutexes, shared, WithNodeLock, TakeLock, ReleaseLock
<1>1. CASE Step("sensor", "start", "loop") /\ UNCHANGED shared
  BY <1>1 DEF Points
<1>2. CASE LoopHead("sensor")
  BY <1>2 DEF LoopHead, Points
<1>3. CASE SensorCheck
  <2>1. CASE running
    <3>1. /\ pc["sensor"] = "check" /\ frames["sensor"] = <<>>
          /\ pc' = [pc EXCEPT !["sensor"] = "write"]
          /\ UNCHANGED <<frames, mutexes, signals, shared>>
      BY <1>3, <2>1 DEF SensorCheck
    <3>2. TypeOK'
      BY <3>1 DEF Points
    <3>3. Framed' /\ Phases' /\ Held'
      BY <3>1
    <3> QED BY <3>2, <3>3
  <2>2. CASE ~running
    <3>1. /\ pc["sensor"] = "check" /\ frames["sensor"] = <<>>
          /\ pc' = [pc EXCEPT !["sensor"] = "dead"] /\ lock' = Nobody
          /\ UNCHANGED <<frames, nodeLock, destroyed, signals, shared>>
      BY <1>3, <2>2 DEF SensorCheck
    <3>2. TypeOK'
      BY <3>1 DEF Points
    <3>3. Framed' /\ Phases' /\ Held'
      BY <3>1
    <3> QED BY <3>2, <3>3
  <2> QED BY <2>1, <2>2
<1>4. CASE EndWrite
  BY <1>4 DEF EndWrite, Points
<1>5. CASE TestRing
  BY <1>5 DEF TestRing, Points
<1>6. CASE PushRing
  BY <1>6 DEF PushRing, Points
<1> QED BY <1>1, <1>2, <1>3, <1>4, <1>5, <1>6 DEF SensorStep

LEMMA MdnsKeeps ==
  ASSUME ServiceInv,
         MdnsStep \/ BrowserEvent \/ AvahiDies \/ TimerFires
  PROVE  ServiceInv'
<1> USE DEF ServiceInv, TypeOK, Framed, Phases, Held, Holds, Others, Away, Threads, Workers,
        Carrier, At, GoTo, Step, mutexes, shared, WithNodeLock, TakeLock, ReleaseLock,
        TakeNodeLock, ReleaseNodeLock
<1>1. CASE MdnsStart
  <2>1. CASE MdnsEnabled
    <3>1. WithNodeLock("mdns", "start", "notify")
      BY <1>1, <2>1 DEF MdnsStart
    <3> QED BY <3>1 DEF Points
  <2>2. CASE ~MdnsEnabled
    <3>1. TakeNodeLock("mdns", "start", "dead")
      BY <1>1, <2>2 DEF MdnsStart
    <3> QED BY <2>2, <3>1 DEF Points
  <2> QED BY <2>1, <2>2
<1>2. CASE WithNodeLock("mdns", "notify", "create")
  BY <1>2 DEF Points
<1>3. CASE CreatePoll
  BY <1>3 DEF CreatePoll, Points
<1>4. CASE CreateClient
  <2>1. CASE AvahiUp
    <3>1. ReleaseLock("mdns", "client", "poll") /\ UNCHANGED shared
      BY <1>4, <2>1 DEF CreateClient
    <3> QED BY <3>1 DEF Points
  <2>2. CASE ~AvahiUp
    <3>1. Step("mdns", "client", "dead") /\ UNCHANGED shared
      BY <1>4, <2>2 DEF CreateClient
    <3> QED BY <2>2, <3>1 DEF Points
  <2> QED BY <2>1, <2>2
<1>5. CASE ReleaseNodeLock("mdns", "event", "poll")
  BY <1>5 DEF Points
<1>6. CASE FreePoll
  BY <1>6 DEF FreePoll, Points
<1>7. CASE Bye("mdns", "dead")
  BY <1>7 DEF Bye, Points
<1>8. CASE BrowserEvent
  BY <1>8 DEF BrowserEvent, Points
<1>9. CASE AvahiDies \/ TimerFires
  <2>1. UNCHANGED <<pc, frames, mutexes, signals, running, poll, ring, undefined>>
    BY <1>9 DEF AvahiDies, TimerFires
  <2>2. pollQuit' \in BOOLEAN /\ timer' \in BOOLEAN
    BY <1>9 DEF AvahiDies, TimerFires
  <2> QED BY <2>1, <2>2
<1> QED BY <1>1, <1>2, <1>3, <1>4, <1>5, <1>6, <1>7, <1>8, <1>9 DEF MdnsStep

LEMMA HandlerKeeps ==
  ASSUME ServiceInv, NEW t \in Threads, HandlerStep(t) \/ Deliver(t)
  PROVE  ServiceInv'
<1> USE DEF ServiceInv, TypeOK, Framed, Phases, Held, Holds, Others, Away, Threads, Workers,
        Carrier, mutexes, shared, InHandler, HandlerGoTo
<1> DEFINE f == frames[t]
           n == Len(f)
<1>0. f \in Seq({"lock", "quit", "unlock"})
  OBVIOUS
<1>1. CASE Deliver(t)
  <2>1. f \in Seq({"lock", "quit", "unlock"}) /\ frames' = [frames EXCEPT ![t] = Append(f, "lock")]
    BY <1>1 DEF Deliver
  <2> HIDE DEF f
  <2>2. /\ Append(f, "lock") \in Seq({"lock", "quit", "unlock"})
        /\ DOMAIN f \subseteq DOMAIN Append(f, "lock")
        /\ \A i \in DOMAIN f : Append(f, "lock")[i] = f[i]
    BY <2>1
  <2>3. /\ UNCHANGED <<pc, mutexes, shared>> /\ signals < MaxSignals /\ signals' = signals + 1
        /\ pc[t] \notin Away /\ (t = "mdns" => pc["main"] # "scanning")
    BY <1>1 DEF Deliver
  <2>4. signals' \in 0..MaxSignals
    BY <2>3, SignalsAssumption
  <2>5. TypeOK'
    BY <2>1, <2>2, <2>3, <2>4
  <2>6. Framed' /\ Phases'
    BY <2>1, <2>3
  <2>7. Held'
    BY <2>1, <2>2, <2>3 DEF f
  <2> QED BY <2>5, <2>6, <2>7
<1>2. CASE HandlerLock(t)
  <2>1. /\ frames' = [frames EXCEPT ![t][n] = "quit"] /\ f # <<>>
        /\ UNCHANGED <<pc, nodeLock, destroyed, signals, shared>>
        /\ lock' = IF destroyed THEN lock ELSE t
    BY <1>2 DEF HandlerLock
  <2>2. frames' = [frames EXCEPT ![t] = [f EXCEPT ![n] = "quit"]]
    BY <2>1
  <2>3. n \in DOMAIN f
    BY <1>0, <2>1
  <2>4. TypeOK'
    BY <1>0, <2>1, <2>2, <2>3
  <2>5. Framed' /\ Phases'
    BY <2>1, <2>2, <2>3
  <2>6. Held'
    BY <2>1, <2>2, <2>3
  <2> QED BY <2>4, <2>5, <2>6
<1>3. CASE HandlerQuit(t)
  <2>1. /\ frames' = [frames EXCEPT ![t][n] = "unlock"] /\ f # <<>> /\ f[n] = "quit"
        /\ UNCHANGED <<pc, mutexes, signals, poll, timer, ring>>
        /\ running' = FALSE /\ pollQuit' \in BOOLEAN
        /\ undefined' \subseteq undefined \cup {"poll"}
    BY <1>3 DEF HandlerQuit
  <2>2. frames' = [frames EXCEPT ![t] = [f EXCEPT ![n] = "unlock"]]
    BY <2>1
  <2>3. n \in DOMAIN f
    BY <1>0, <2>1
  <2>4. frames' \in [Threads -> Seq({"lock", "quit", "unlock"})]
    BY <1>0, <2>2, <2>3
  <2>5. TypeOK'
    <3>1. running' \in BOOLEAN /\ undefined' \subseteq {"poll", "peek", "push", "join", "mutex"}
      BY <2>1
    <3> QED BY <2>1, <2>4, <3>1
  <2>6. Framed' /\ Phases'
    BY <2>1, <2>2, <2>3
  <2>7. Held'
    BY <2>1, <2>2, <2>3
  <2> QED BY <2>5, <2>6, <2>7
<1>4. CASE HandlerReturn(t)
  <2>1. /\ frames' = [frames EXCEPT ![t] = SubSeq(f, 1, n - 1)] /\ f # <<>>
        /\ UNCHANGED <<pc, nodeLock, destroyed, signals, shared>>
        /\ lock' = IF destroyed THEN lock ELSE Nobody
    BY <1>4 DEF HandlerReturn
  <2>2. SubSeq(f, 1, n - 1) \in Seq({"lock", "quit", "unlock"})
    BY <1>0
  <2>3. TypeOK'
    BY <2>1, <2>2
  <2>4. Framed' /\ Phases'
    BY <2>1
  <2>5. Held'
    BY <2>1
  <2> QED BY <2>3, <2>4, <2>5
<1> QED BY <1>1, <1>2, <1>3, <1>4 DEF HandlerStep

LEMMA ServiceNext ==
  ASSUME ServiceInv, [Next]_vars PROVE ServiceInv'
<1>1. CASE \E t \in Threads : Program(t)
  BY <1>1, MainKeeps, HttpKeeps, LogKeeps, SensorKeeps, MdnsKeeps, HandlerKeeps DEF Program
<1>2. CASE TimerFires \/ Environment
  BY <1>2, HttpKeeps, MdnsKeeps, HandlerKeeps DEF Environment
<1>3. CASE UNCHANGED vars
  BY <1>3 DEF vars, mutexes, shared, ServiceInv, TypeOK, Framed, Phases, Held, Holds
<1> QED BY <1>1, <1>2, <1>3 DEF Next, Exited, ClientHangs

LEMMA ServiceAlways == Spec => []ServiceInv
BY ServiceInit, ServiceNext, PTL DEF Spec

(* Whatever signals are delivered to whichever thread, the threads and     *)
(* what they share keep to their types.                                    *)
THEOREM ServiceTypeCorrect == Spec => []TypeOK
<1>1. ServiceInv => TypeOK
  BY DEF ServiceInv
<1> QED BY ServiceAlways, <1>1, PTL

(* No thread but main can lock a mutex that was destroyed                  *)
(* (serviceLaunchThreads.c:62-75).                                         *)
THEOREM MutexesOutliveThreadsAlways == Spec => []MutexesOutliveThreads
<1>1. ServiceInv => MutexesOutliveThreads
  BY DEF ServiceInv, Framed, Phases, MutexesOutliveThreads, Threads, Others, Away
<1> QED BY ServiceAlways, <1>1, PTL

(* A mutex never stays locked by a thread that has returned, where mDNS is *)
(* configured and an avahi daemon answers (mDnsScanServiceThread.c:59,     *)
(* 91-94).                                                                 *)
THEOREM NoLockLeaksAlways == ASSUME MdnsEnabled, AvahiUp PROVE Spec => []NoLockLeaks
<1>1. ServiceInv => NoLockLeaks
  BY NobodyAssumption DEF ServiceInv, Framed, Held, Holds, NoLockLeaks, Away
<1> QED BY ServiceAlways, <1>1, PTL
=============================================================================
