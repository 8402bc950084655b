--------------------------- MODULE ServiceInstance --------------------------
(***************************************************************************)
(* Starting, stopping and killing the service: check_service_running takes *)
(* a lock on a pid file and keeps it until the process is gone, and only   *)
(* then does service_launch_threads mount the tmpfs for the data files and *)
(* run.  The kernel (external) drops a lock when its file is closed, by a  *)
(* process that dies in particular.                                        *)
(***************************************************************************)
EXTENDS Naturals

CONSTANTS Instances,   \* processes that may be started with --service
          Nobody,      \* no process
          UseTmpfs,    \* node.config.tmpfs.use
          Failures,    \* the system calls that may fail
          MaxMounts    \* bound: file systems stacked on the data folder

ASSUME NobodyAssumption == Nobody \notin Instances
ASSUME UseTmpfsAssumption == UseTmpfs \in BOOLEAN
ASSUME FailuresAssumption ==
  Failures \subseteq {"open", "flock", "ftruncate", "write", "umount", "mount"}
ASSUME MaxMountsAssumption == MaxMounts \in Nat

VARIABLES
  pc,       \* where each process is
  fd,       \* fd[p]: p has the pid file open
  owner,    \* the process that holds the lock on it
  pidFile,  \* the pid in the file, or Nobody
  mounts,   \* file systems mounted on the data folder
  failed    \* history: the system calls that have failed so far

vars == <<pc, fd, owner, pidFile, mounts, failed>>

(* With the shape of fd: no error path of the check leaks it, and the      *)
(* check has it open while it works on the file.                           *)
TypeOK ==
  /\ pc \in [Instances -> {"off", "open", "flock", "refused", "truncate", "write",
                           "umount", "mount", "serving"}]
  /\ fd \in [Instances -> BOOLEAN]
  /\ owner \in Instances \cup {Nobody}
  /\ pidFile \in Instances \cup {Nobody}
  /\ mounts \in 0..MaxMounts
  /\ failed \subseteq Failures
  /\ \A p \in Instances : pc[p] \in {"off", "open", "refused"} => ~fd[p]
  /\ \A p \in Instances : pc[p] \in {"flock", "truncate", "write"} => fd[p]

Init ==
  /\ pc = [p \in Instances |-> "off"]
  /\ fd = [p \in Instances |-> FALSE]
  /\ owner = Nobody
  /\ pidFile = Nobody
  /\ mounts = 0
  /\ failed = {}

Fails(call) == call \in Failures /\ failed' = failed \cup {call}

At(p, point) == pc[p] = point
GoTo(p, point) == pc' = [pc EXCEPT ![p] = point]

(* close(fd), also the one the kernel does for a process that ends.        *)
Close(p) ==
  /\ fd' = [fd EXCEPT ![p] = FALSE]
  /\ owner' = IF owner = p THEN Nobody ELSE owner

-----------------------------------------------------------------------------
(* check_service_running.  It returns 0 with the lock, 1 if another        *)
(* process has it and -1 after an error; the caller goes on unless it is 1 *)
(* (serviceLaunchThreads.c:38).  A refused process leaves main: End.       *)

Start(p) ==
  /\ At(p, "off")
  /\ GoTo(p, "open")
  /\ UNCHANGED <<fd, owner, pidFile, mounts, failed>>

Open(p) ==
  /\ At(p, "open")
  /\ \/ fd' = [fd EXCEPT ![p] = TRUE] /\ GoTo(p, "flock") /\ UNCHANGED failed
     \/ Fails("open") /\ GoTo(p, "umount") /\ UNCHANGED fd
  /\ UNCHANGED <<owner, pidFile, mounts>>

FlockBlocksNobody(p) ==
  /\ At(p, "flock")
  /\ owner' = p
  /\ GoTo(p, "truncate")
  /\ UNCHANGED <<fd, pidFile, mounts, failed>>

FlockRefusedLeaksFd(p) ==
  /\ At(p, "flock")
  /\ \/ owner = Nobody /\ owner' = p /\ GoTo(p, "truncate")
     \/ owner # Nobody /\ GoTo(p, "refused") /\ UNCHANGED owner
  /\ UNCHANGED <<fd, pidFile, mounts, failed>>

TruncateBeforeLock(p) ==
  /\ At(p, "flock")
  /\ pidFile' = Nobody
  /\ \/ owner = Nobody /\ owner' = p /\ GoTo(p, "truncate") /\ UNCHANGED fd
     \/ owner # Nobody /\ Close(p) /\ GoTo(p, "refused")
  /\ UNCHANGED <<mounts, failed>>

FlockTrustsPidFile(p) ==
  /\ At(p, "flock")
  /\ \/ pidFile = Nobody /\ owner' = p /\ GoTo(p, "truncate") /\ UNCHANGED fd
     \/ pidFile # Nobody /\ Close(p) /\ GoTo(p, "refused")
  /\ UNCHANGED <<pidFile, mounts, failed>>

Flock(p) ==
  /\ At(p, "flock")
  /\ \/ owner = Nobody /\ owner' = p /\ GoTo(p, "truncate") /\ UNCHANGED <<fd, failed>>
     \/ owner # Nobody /\ Close(p) /\ GoTo(p, "refused") /\ UNCHANGED failed
     \/ Fails("flock") /\ Close(p) /\ GoTo(p, "umount")
  /\ UNCHANGED <<pidFile, mounts>>

Truncate(p) ==
  /\ At(p, "truncate")
  /\ \/ pidFile' = Nobody /\ GoTo(p, "write") /\ UNCHANGED <<fd, owner, failed>>
     \/ Fails("ftruncate") /\ Close(p) /\ GoTo(p, "umount") /\ UNCHANGED pidFile
  /\ UNCHANGED mounts

WritePidCloses(p) ==
  /\ At(p, "write")
  /\ pidFile' = p
  /\ Close(p)
  /\ GoTo(p, "umount")
  /\ UNCHANGED <<mounts, failed>>

WritePid(p) ==
  /\ At(p, "write")
  /\ \/ pidFile' = p /\ UNCHANGED failed
     \/ Fails("write") /\ UNCHANGED pidFile
  /\ GoTo(p, "umount")
  /\ UNCHANGED <<fd, owner, mounts>>

-----------------------------------------------------------------------------
(* setTmpfs: what an earlier process left mounted goes first.              *)

UmountSkipped(p) ==
  /\ At(p, "umount")
  /\ GoTo(p, IF UseTmpfs THEN "mount" ELSE "serving")
  /\ UNCHANGED <<fd, owner, pidFile, mounts, failed>>

Umount(p) ==
  /\ At(p, "umount")
  /\ \/ mounts' = (IF mounts = 0 THEN 0 ELSE mounts - 1) /\ UNCHANGED failed
     \/ Fails("umount") /\ UNCHANGED mounts
  /\ GoTo(p, IF UseTmpfs THEN "mount" ELSE "serving")
  /\ UNCHANGED <<fd, owner, pidFile>>

(* mkdir and mount; without the tmpfs no thread is launched and main ends. *)
Mount(p) ==
  /\ At(p, "mount")
  /\ \/ /\ mounts < MaxMounts
        /\ mounts' = mounts + 1
        /\ GoTo(p, "serving")
        /\ UNCHANGED <<fd, owner, failed>>
     \/ Fails("mount") /\ GoTo(p, "off") /\ Close(p) /\ UNCHANGED mounts
  /\ UNCHANGED pidFile

-----------------------------------------------------------------------------
(* The process ends after a signal, or is killed at any point.  Nothing    *)
(* unmounts the tmpfs.                                                     *)
End(p) ==
  /\ pc[p] # "off"
  /\ GoTo(p, "off")
  /\ Close(p)
  /\ UNCHANGED <<pidFile, mounts, failed>>

Next ==
  \E p \in Instances :
    \/ Start(p) \/ Open(p) \/ Flock(p) \/ Truncate(p) \/ WritePid(p)
    \/ Umount(p) \/ Mount(p) \/ End(p)

Spec == Init /\ [][Next]_vars

-----------------------------------------------------------------------------
(* Properties.                                                             *)

Serving(p) == At(p, "serving")

(* No open, flock or ftruncate of the pid file has failed so far.          *)
CheckNeverFailed == failed \cap {"open", "flock", "ftruncate"} = {}

(* Two instances never serve at the same time, whatever was started,       *)
(* stopped or killed when: the check for a running instance that           *)
(* service_launch_threads begins with (serviceLaunchThreads.c:36-41).      *)
AtMostOneServing == \A p \in Instances, q \in Instances : Serving(p) /\ Serving(q) => p = q

(* It holds up to the first error in the check ...                         *)
AtMostOneUnlessFailed == CheckNeverFailed => AtMostOneServing

(* ... and after it of the instances whose check succeeded, which keep the *)
(* file open (utilsCheckServiceRunning.c:42).                              *)
CheckedServesAlone ==
  \A p \in Instances, q \in Instances :
    Serving(p) /\ fd[p] /\ Serving(q) /\ fd[q] => p = q

(* The pid file holds the pid of the instance that serves, or none if it   *)
(* could not be written, but never the pid of an instance that was refused *)
(* or has died (utilsCheckServiceRunning.c:18-39).                         *)
PidFileNamesServing ==
  \A p \in Instances :
    Serving(p) /\ fd[p] => pidFile = p \/ ("write" \in failed /\ pidFile = Nobody)

(* A start is refused by an instance that lives and has passed the check,  *)
(* never by the lock or the pid file of one that has ended, failed in the  *)
(* check or was killed, at whatever point (utilsCheckServiceRunning.c:18). *)
RefusedByLiving ==
  [][\A p \in Instances :
       At(p, "flock") /\ At(p, "refused")' =>
         \E q \in Instances \ {p} :
           fd[q] /\ pc[q] \in {"truncate", "write", "umount", "mount", "serving"}]_vars

(* The data files of a serving instance stay on the tmpfs it mounted: a    *)
(* second start is refused before it reaches umount (utilsSetTmpfs.c:17).  *)
KeepsTmpfs ==
  CheckNeverFailed /\ UseTmpfs => \A p \in Instances : Serving(p) => mounts > 0

(* Restarts do not stack file systems on the data folder, as long as       *)
(* umount succeeds (utilsSetTmpfs.c:17, 39).                               *)
MountsOnce == CheckNeverFailed /\ "umount" \notin failed => mounts <= 1
=============================================================================
