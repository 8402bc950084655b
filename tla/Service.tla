------------------------------- MODULE Service ------------------------------
(***************************************************************************)
(* The life of the process.  As a service, main launches four threads and  *)
(* joins them (serviceLaunchThreads.c); as a client it runs the mDNS scan  *)
(* itself, with a time-out (clientScan.c).  Each thread looks at `running` *)
(* under the global mutex `lock`, and the signal handler, which runs on    *)
(* top of whatever thread the signal is delivered to, clears it under the  *)
(* same mutex (utilsSignalHandler.c).  The second global mutex, node.lock, *)
(* guards the node struct.  What the threads share beyond that is here as  *)
(* far as its life goes: avahi's poll object and the log buffer.           *)
(***************************************************************************)
EXTENDS Naturals, Sequences

CONSTANTS Nobody,         \* the owner of a free mutex
          Commands,       \* what the program may be started as
          CreateMayFail,  \* the threads pthread_create may fail for
          LogEnabled,     \* node.config.logValues
          MdnsEnabled,    \* node.config.network.mDNS > 0
          AvahiUp,        \* an avahi daemon answers when the client is made
          AvahiMayDie,    \* ... and may fail later, or refuse the browsers
          SignalTargets,  \* the threads the kernel may deliver a signal to
          MaxSignals      \* bound: one SIGINT, one SIGTERM

ASSUME ConfigAssumption ==
  {LogEnabled, MdnsEnabled, AvahiUp, AvahiMayDie} \subseteq BOOLEAN

Workers == {"http", "log", "sensor", "mdns"}    \* service_threads[]
Threads == Workers \cup {"main", "mhd"}         \* mhd: libmicrohttpd's own

ASSUME CommandsAssumption == Commands \subseteq {"service", "client"}
ASSUME CreateAssumption == CreateMayFail \subseteq Workers
ASSUME TargetsAssumption == SignalTargets \subseteq Threads
ASSUME NobodyAssumption == Nobody \notin Threads
ASSUME SignalsAssumption == MaxSignals \in Nat

VARIABLES
  pc,         \* where each thread is; in the client "mdns" is the call of
              \* mdns_scan_service_thread on main's stack
  frames,     \* frames[t]: the signal handlers running on top of thread t
  lock,       \* owner of the mutex `lock`
  nodeLock,   \* owner of node.lock
  destroyed,  \* main has destroyed both mutexes
  running,
  poll,       \* simple_poll: NULL, a live object, or a freed one
  pollQuit,   \* avahi_simple_poll_quit has been called on the live object
  timer,      \* the scan is a client's with a time-out above 0, not over
  ring,       \* logBufferMPU: NULL, published but not initialised, ready,
              \* or freed but not NULL yet
  signals,    \* how many signals were sent
  undefined   \* history: the undefined behaviour that has occurred

mutexes == <<lock, nodeLock, destroyed>>
shared == <<running, poll, pollQuit, timer, ring, undefined>>
vars == <<pc, frames, mutexes, shared, signals>>

Points == [
  main   |-> {"route", "launch", "join", "scanning", "ending", "destroyed", "exited"},
  http   |-> {"new", "absent", "start", "daemon", "loop", "check", "stopping",
              "bye", "dead"},
  mhd    |-> {"new", "idle", "want", "serve", "dead"},
  log    |-> {"new", "absent", "start", "alloc", "init", "loop", "check", "cycle",
              "bye", "free", "clear", "dead"},
  sensor |-> {"new", "absent", "start", "loop", "check", "write", "test", "push",
              "dead"},
  mdns   |-> {"new", "absent", "start", "notify", "create", "client", "poll",
              "event", "bye", "dead"}]

TypeOK ==
  /\ DOMAIN pc = Threads /\ \A t \in Threads : pc[t] \in Points[t]
  /\ frames \in [Threads -> Seq({"lock", "quit", "unlock"})]
  /\ lock \in Threads \cup {Nobody} /\ nodeLock \in Threads \cup {Nobody}
  /\ destroyed \in BOOLEAN /\ running \in BOOLEAN
  /\ pollQuit \in BOOLEAN /\ timer \in BOOLEAN
  /\ poll \in {"null", "live", "freed"}
  /\ ring \in {"null", "raw", "ready", "freed"}
  /\ signals \in 0..MaxSignals
  /\ undefined \subseteq {"poll", "peek", "push", "join", "mutex"}

Init ==
  /\ pc = [t \in Threads |-> IF t = "main" THEN "route" ELSE "new"]
  /\ frames = [t \in Threads |-> <<>>]
  /\ lock = Nobody /\ nodeLock = Nobody /\ destroyed = FALSE
  /\ running = TRUE
  /\ poll = "null" /\ pollQuit = FALSE /\ timer = FALSE
  /\ ring = "null"
  /\ signals = 0
  /\ undefined = {}

-----------------------------------------------------------------------------
(* Steps every thread is made of.  A thread a handler runs on waits.       *)

Carrier(t) == IF t = "mdns" /\ pc["main"] = "scanning" THEN "main" ELSE t

At(t, point) == pc[t] = point /\ frames[Carrier(t)] = <<>>
GoTo(t, point) == pc' = [pc EXCEPT ![t] = point]

(* A local step.                                                           *)
Step(t, from, to) ==
  /\ At(t, from)
  /\ GoTo(t, to)
  /\ UNCHANGED <<frames, mutexes, signals>>

(* A critical section of node.lock in which the thread only reads config   *)
(* and cannot block: taken as one step.                                    *)
WithNodeLock(t, from, to) == nodeLock = Nobody /\ Step(t, from, to) /\ UNCHANGED shared

TakeLock(t, from, to) ==
  /\ At(t, from)
  /\ lock = Nobody
  /\ lock' = t
  /\ GoTo(t, to)
  /\ UNCHANGED <<frames, nodeLock, destroyed, signals>>

ReleaseLock(t, from, to) ==
  /\ At(t, from)
  /\ lock' = Nobody
  /\ GoTo(t, to)
  /\ UNCHANGED <<frames, nodeLock, destroyed, signals>>

TakeNodeLock(t, from, to) ==
  /\ At(t, from)
  /\ nodeLock = Nobody
  /\ nodeLock' = t
  /\ GoTo(t, to)
  /\ UNCHANGED <<frames, lock, destroyed, signals, shared>>

ReleaseNodeLock(t, from, to) ==
  /\ At(t, from)
  /\ nodeLock' = Nobody
  /\ GoTo(t, to)
  /\ UNCHANGED <<frames, lock, destroyed, signals, shared>>

(* The head of the thread loops: look at running under lock.               *)
LoopHead(t) == TakeLock(t, "loop", "check") /\ UNCHANGED shared

CheckRunning(t, stay, leave) ==
  ReleaseLock(t, "check", IF running THEN stay ELSE leave) /\ UNCHANGED shared

(* verbose_mutex_print("... Stopped") looks at node.config.verbose.        *)
Bye(t, to) == WithNodeLock(t, "bye", to)

-----------------------------------------------------------------------------
(* main: the command, service_launch_threads and the end of main().        *)

(* Another instance serves, or the client has nothing to do.               *)
Refuse == Step("main", "route", "ending") /\ UNCHANGED shared

(* The tmpfs cannot be mounted: no thread is launched.                     *)
SkipThreads ==
  /\ At("main", "route") /\ "service" \in Commands
  /\ destroyed' = TRUE
  /\ GoTo("main", "destroyed")
  /\ UNCHANGED <<frames, lock, nodeLock, signals, shared>>

BeginService == "service" \in Commands /\ Step("main", "route", "launch") /\ UNCHANGED shared

(* client_scan: the scan is called, it does not get a thread.              *)
BeginScan ==
  /\ At("main", "route") /\ "client" \in Commands
  /\ pc' = [pc EXCEPT !["main"] = "scanning", !["mdns"] = "start"]
  /\ timer' \in BOOLEAN
  /\ UNCHANGED <<frames, mutexes, signals, running, poll, pollQuit, ring, undefined>>

LaunchOrder == <<"http", "log", "sensor", "mdns">>

(* A thread that cannot be made is reported, and left out.                 *)
Launch ==
  /\ At("main", "launch")
  /\ \E k \in 1..4 :
       /\ pc[LaunchOrder[k]] = "new"
       /\ \A j \in 1..(k - 1) : pc[LaunchOrder[j]] # "new"
       /\ \E first \in {"start"} \cup {"absent" : t \in CreateMayFail \cap {LaunchOrder[k]}} :
            pc' = [pc EXCEPT ![LaunchOrder[k]] = first,
                             !["main"] = IF k = 4 THEN "join" ELSE "launch"]
  /\ UNCHANGED <<frames, mutexes, signals, shared>>

JoinedNoWait == TRUE

Joined == \A t \in Workers : pc[t] \in {"dead", "absent"}

(* pthread_join on every thread, one that was never made included; then    *)
(* the mutexes are destroyed.                                              *)
JoinAndDestroy ==
  /\ At("main", "join")
  /\ Joined
  /\ destroyed' = TRUE
  /\ undefined' = undefined \cup {"join" : t \in {w \in Workers : pc[w] = "absent"}}
  /\ GoTo("main", "destroyed")
  /\ UNCHANGED <<frames, lock, nodeLock, signals, running, poll, pollQuit, timer, ring>>

(* The client prints the list, which only this thread knows.               *)
ScanReturns ==
  /\ Step("main", "scanning", "ending")
  /\ pc["mdns"] = "dead"
  /\ UNCHANGED shared

(* main() ends with free_service_list(true), which locks node.lock.        *)
Exit ==
  /\ \/ At("main", "destroyed") /\ undefined' = undefined \cup {"mutex"}
     \/ At("main", "ending") /\ nodeLock = Nobody /\ UNCHANGED undefined
  /\ GoTo("main", "exited")
  /\ UNCHANGED <<frames, mutexes, signals, running, poll, pollQuit, timer, ring>>

MainStep ==
  \/ Refuse \/ SkipThreads \/ BeginService \/ BeginScan
  \/ Launch \/ JoinAndDestroy \/ ScanReturns \/ Exit

-----------------------------------------------------------------------------
(* http_serve_thread and the thread MHD_start_daemon makes.                *)

(* The daemon starts, or the port is taken.                                *)
StartDaemon ==
  /\ At("http", "daemon")
  /\ \/ pc' = [pc EXCEPT !["http"] = "loop", !["mhd"] = "idle"]
     \/ GoTo("http", "bye")
  /\ UNCHANGED <<frames, mutexes, signals, shared>>

(* MHD_stop_daemon joins the daemon's thread: a request in progress ends.  *)
StopDaemon ==
  /\ At("http", "stopping")
  /\ At("mhd", "idle")
  /\ pc' = [pc EXCEPT !["http"] = "bye", !["mhd"] = "dead"]
  /\ UNCHANGED <<frames, mutexes, signals, shared>>

HttpStep ==
  \/ WithNodeLock("http", "start", "daemon")
  \/ WithNodeLock("http", "start", "dead")      \* httpPort < 80
  \/ StartDaemon
  \/ LoopHead("http") \/ CheckRunning("http", "loop", "stopping")
  \/ StopDaemon
  \/ Bye("http", "dead")

(* A request that works on the node: /api/status, /api/sensors, /test.     *)
Request == Step("mhd", "idle", "want") /\ UNCHANGED shared

MhdStep ==
  \/ TakeNodeLock("mhd", "want", "serve")
  \/ ReleaseNodeLock("mhd", "serve", "idle")

-----------------------------------------------------------------------------
(* log_values_thread and the life of logBufferMPU.                         *)

(* init_log_buffer_mpu publishes the zeroed struct first.  The thread goes *)
(* on whatever it returns.                                                 *)
AllocRing ==
  /\ \/ Step("log", "alloc", "init") /\ ring' = "raw"
     \/ Step("log", "alloc", "loop") /\ UNCHANGED ring
  /\ UNCHANGED <<running, poll, pollQuit, timer, undefined>>

InitRing == Step("log", "init", "loop") /\ ring' \in {"ready", "raw"}
            /\ UNCHANGED <<running, poll, pollQuit, timer, undefined>>

(* log_write_values locks node.lock, then peeks.                           *)
LogCycle ==
  /\ nodeLock = Nobody
  /\ Step("log", "cycle", "loop")
  /\ undefined' = IF ring = "ready" THEN undefined ELSE undefined \cup {"peek"}
  /\ UNCHANGED <<running, poll, pollQuit, timer, ring>>

(* free_log_buffers: the memory goes, then the pointer.                    *)
FreeRing == Step("log", "free", "clear") /\ ring' = "freed"
            /\ UNCHANGED <<running, poll, pollQuit, timer, undefined>>

ClearRing == Step("log", "clear", "dead") /\ ring' = "null"
             /\ UNCHANGED <<running, poll, pollQuit, timer, undefined>>

LogStep ==
  \/ WithNodeLock("log", "start", IF LogEnabled THEN "alloc" ELSE "dead")
  \/ AllocRing \/ InitRing
  \/ LoopHead("log") \/ CheckRunning("log", "cycle", "bye")
  \/ LogCycle
  \/ Bye("log", "free")
  \/ FreeRing \/ ClearRing

-----------------------------------------------------------------------------
(* sensors_dummy_thread                                                    *)

(* node.mpu is written inside `lock`.                                      *)
EndWrite == ReleaseLock("sensor", "write", "test") /\ UNCHANGED shared

(* Still inside `lock`: on to the write, or out of the loop.               *)
SensorCheckKeepsLock ==
  /\ At("sensor", "check")
  /\ GoTo("sensor", IF running THEN "write" ELSE "dead")
  /\ UNCHANGED <<frames, mutexes, signals, shared>>

SensorCheckSaysBye ==
  /\ At("sensor", "check")
  /\ IF running
     THEN GoTo("sensor", "write") /\ UNCHANGED lock
     ELSE GoTo("sensor", "bye") /\ lock' = Nobody
  /\ UNCHANGED <<frames, nodeLock, destroyed, signals, shared>>

SensorCheck ==
  /\ At("sensor", "check")
  /\ IF running
     THEN GoTo("sensor", "write") /\ UNCHANGED lock
     ELSE GoTo("sensor", "dead") /\ lock' = Nobody
  /\ UNCHANGED <<frames, nodeLock, destroyed, signals, shared>>

(* logBufferMPU != NULL, read without a lock ...                           *)
TestRing == Step("sensor", "test", IF ring = "null" THEN "loop" ELSE "push")
            /\ UNCHANGED shared

(* ... and used afterwards.                                                *)
PushRing ==
  /\ Step("sensor", "push", "loop")
  /\ undefined' = IF ring = "ready" THEN undefined ELSE undefined \cup {"push"}
  /\ UNCHANGED <<running, poll, pollQuit, timer, ring>>

SensorStep ==
  \/ Step("sensor", "start", "loop") /\ UNCHANGED shared
  \/ LoopHead("sensor") \/ SensorCheck \/ EndWrite \/ TestRing \/ PushRing

-----------------------------------------------------------------------------
(* mdns_scan_service_thread                                                *)

(* The early return keeps node.lock locked.                                *)
MdnsStart ==
  IF MdnsEnabled THEN WithNodeLock("mdns", "start", "notify")
                 ELSE TakeNodeLock("mdns", "start", "dead")

CreatePoll ==
  /\ TakeLock("mdns", "create", "client")
  /\ poll' = "live"
  /\ UNCHANGED <<running, pollQuit, timer, ring, undefined>>

(* Without an avahi daemon the thread returns, and keeps `lock` locked.    *)
CreateClient ==
  /\ IF AvahiUp THEN ReleaseLock("mdns", "client", "poll")
                ELSE Step("mdns", "client", "dead")
  /\ UNCHANGED shared

(* A browser event: add_service or remove_service, under node.lock.        *)
BrowserEvent == ~pollQuit /\ TakeNodeLock("mdns", "poll", "event")

(* A failure callback ends the loop; so do three browsers that were not    *)
(* made, in which case there is no loop.                                   *)
AvahiDies ==
  /\ AvahiMayDie
  /\ At("mdns", "poll") /\ ~pollQuit
  /\ pollQuit' = TRUE
  /\ UNCHANGED <<pc, frames, mutexes, signals, running, poll, timer, ring, undefined>>

TimerFiresQuietly ==
  /\ At("mdns", "poll") /\ timer
  /\ timer' = FALSE
  /\ UNCHANGED <<pc, frames, mutexes, signals, running, poll, pollQuit, ring, undefined>>

(* timeout_callback of a client's scan                                     *)
TimerFires ==
  /\ At("mdns", "poll") /\ timer
  /\ timer' = FALSE
  /\ pollQuit' = TRUE
  /\ UNCHANGED <<pc, frames, mutexes, signals, running, poll, ring, undefined>>

(* The poll is freed when its loop has ended; simple_poll keeps pointing   *)
(* at it.                                                                  *)
FreePoll ==
  /\ Step("mdns", "poll", "bye")
  /\ pollQuit
  /\ poll' = "freed"
  /\ UNCHANGED <<running, pollQuit, timer, ring, undefined>>

MdnsStep ==
  \/ MdnsStart
  \/ WithNodeLock("mdns", "notify", "create")
  \/ CreatePoll \/ CreateClient
  \/ ReleaseNodeLock("mdns", "event", "poll")
  \/ FreePoll
  \/ Bye("mdns", "dead")

-----------------------------------------------------------------------------
(* signal_handler, on top of thread t.                                     *)

Deliver(t) ==
  /\ signals < MaxSignals
  /\ t \in SignalTargets /\ Carrier(t) = t
  /\ pc[t] \notin {"new", "absent", "dead", "exited"}
  /\ signals' = signals + 1
  /\ frames' = [frames EXCEPT ![t] = Append(@, "lock")]
  /\ UNCHANGED <<pc, mutexes, shared>>

InHandler(t, point) == frames[t] # <<>> /\ frames[t][Len(frames[t])] = point
HandlerGoTo(t, point) == frames' = [frames EXCEPT ![t][Len(frames[t])] = point]

(* A destroyed mutex excludes nobody.                                      *)
HandlerLock(t) ==
  /\ InHandler(t, "lock")
  /\ destroyed \/ lock = Nobody
  /\ lock' = IF destroyed THEN lock ELSE t
  /\ HandlerGoTo(t, "quit")
  /\ UNCHANGED <<pc, nodeLock, destroyed, signals, shared>>

HandlerQuit(t) ==
  /\ InHandler(t, "quit")
  /\ running' = FALSE
  /\ pollQuit' = (pollQuit \/ poll = "live")
  /\ undefined' = IF poll = "freed" THEN undefined \cup {"poll"} ELSE undefined
  /\ HandlerGoTo(t, "unlock")
  /\ UNCHANGED <<pc, mutexes, signals, poll, timer, ring>>

HandlerReturnKeepsLock(t) ==
  /\ InHandler(t, "unlock")
  /\ frames' = [frames EXCEPT ![t] = SubSeq(@, 1, Len(@) - 1)]
  /\ UNCHANGED <<pc, mutexes, signals, shared>>

HandlerReturn(t) ==
  /\ InHandler(t, "unlock")
  /\ lock' = IF destroyed THEN lock ELSE Nobody
  /\ frames' = [frames EXCEPT ![t] = SubSeq(@, 1, Len(@) - 1)]
  /\ UNCHANGED <<pc, nodeLock, destroyed, signals, shared>>

HandlerStep(t) == HandlerLock(t) \/ HandlerQuit(t) \/ HandlerReturn(t)

-----------------------------------------------------------------------------
Program(t) ==
  \/ t = "main" /\ MainStep
  \/ t = "http" /\ HttpStep
  \/ t = "mhd" /\ MhdStep
  \/ t = "log" /\ LogStep
  \/ t = "sensor" /\ SensorStep
  \/ t = "mdns" /\ MdnsStep
  \/ HandlerStep(t)

Environment == Request \/ BrowserEvent \/ AvahiDies \/ \E t \in Threads : Deliver(t)

(* The handler on thread t has interrupted a critical section of `lock`,   *)
(* for whose end it waits in vain.                                         *)
InterruptsOwner(t) ==
  InHandler(t, "lock") /\ \E u \in Threads : Carrier(u) = t /\ lock = u

Exited == pc["main"] = "exited" /\ UNCHANGED vars

(* The client has one thread.                                              *)
ClientHangs == pc["main"] = "scanning" /\ InterruptsOwner("main") /\ UNCHANGED vars

Next ==
  \/ \E t \in Threads : Program(t)
  \/ TimerFires
  \/ Environment
  \/ Exited \/ ClientHangs

(* Every thread is scheduled, and a thread that waits for a mutex gets it  *)
(* if the mutex is free again and again: every loop of the program sleeps, *)
(* or waits for an event, with both mutexes free.  avahi's poll looks at   *)
(* its timers in every round, however many events come in.                 *)
Fairness == SF_vars(TimerFires) /\ \A t \in Threads : SF_vars(Program(t))

Spec == Init /\ [][Next]_vars /\ Fairness

-----------------------------------------------------------------------------
(* Properties.                                                             *)

Stopped == pc["main"] \in {"destroyed", "exited"}

(* A signal stops the service: every thread ends and main joins them all,  *)
(* unless the program has run into undefined behaviour before              *)
(* (utilsSignalHandler.c:22 promises to shut down gracefully).             *)
GracefulShutdown == ~running ~> Stopped \/ undefined # {}

(* The same, for service and client, for a signal whose handler starts     *)
(* when the mDNS poll exists and on top of no critical section of `lock`.  *)
ShutdownOnceUp ==
  (poll = "live" /\ \E t \in Threads : InHandler(t, "lock") /\ ~InterruptsOwner(t))
    ~> Stopped \/ undefined # {}

(* A client's scan with a time-out ends the program, whatever avahi and    *)
(* the browsers do (clientScan.c:16-31 and the time-out's default of 3 s). *)
ClientScanEnds ==
  timer /\ pc["mdns"] = "poll" ~> pc["main"] = "exited" \/ undefined # {}

(* No thread but main, whose handler may still run, can lock a mutex that  *)
(* was destroyed (serviceLaunchThreads.c:62-75).                           *)
MutexesOutliveThreads ==
  destroyed => \A t \in Threads \ {"main"} :
                 pc[t] \in {"new", "absent", "dead"} /\ frames[t] = <<>>

(* A mutex never stays locked by a thread that has returned.               *)
NoLockLeaks == \A t \in Threads : pc[t] = "dead" => lock # t /\ nodeLock # t
=============================================================================
