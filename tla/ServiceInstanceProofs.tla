------------------------ MODULE ServiceInstanceProofs -----------------------
(***************************************************************************)
(* Proofs about ServiceInstance, for any number of processes.  LockInv     *)
(* ties the program points to the lock on the pid file and holds whatever  *)
(* fails; PidInv adds what the file holds.  PastInv says that up to the    *)
(* first error of the check nobody gets past it without the lock, so that  *)
(* the process between umount and its end is alone there, and MountInv     *)
(* what that process does to the mounts.                                   *)
(***************************************************************************)
EXTENDS ServiceInstance, TLAPS

Checking == {"truncate", "write"}
Past == {"umount", "mount", "serving"}

LockInv ==
  /\ TypeOK
  /\ \A p \in Instances : pc[p] \in Checking => owner = p
  /\ \A p \in Instances : pc[p] \in Past /\ fd[p] => owner = p
  /\ owner # Nobody => fd[owner] /\ pc[owner] \in Checking \cup Past

LEMMA LockInit == Init => LockInv
BY NobodyAssumption, MaxMountsAssumption DEF Init, LockInv, TypeOK, Checking, Past

LEMMA LockNext == LockInv /\ [Next]_vars => LockInv'
<1> SUFFICES ASSUME LockInv, [Next]_vars PROVE LockInv'
  OBVIOUS
<1> USE NobodyAssumption, MaxMountsAssumption
    DEF LockInv, TypeOK, Checking, Past, At, GoTo, Fails
<1>1. ASSUME NEW p \in Instances, Start(p) PROVE LockInv'
  BY <1>1 DEF Start
<1>2. ASSUME NEW p \in Instances, Open(p) PROVE LockInv'
  BY <1>2 DEF Open
<1>3. ASSUME NEW p \in Instances, Flock(p) PROVE LockInv'
  BY <1>3 DEF Flock, Close
<1>4. ASSUME NEW p \in Instances, Truncate(p) PROVE LockInv'
  BY <1>4 DEF Truncate, Close
<1>5. ASSUME NEW p \in Instances, WritePid(p) PROVE LockInv'
  BY <1>5 DEF WritePid
<1>6. ASSUME NEW p \in Instances, Umount(p) PROVE LockInv'
  BY <1>6 DEF Umount
<1>7. ASSUME NEW p \in Instances, Mount(p) PROVE LockInv'
  <2>1. CASE mounts < MaxMounts /\ mounts' = mounts + 1 /\ pc' = [pc EXCEPT ![p] = "serving"]
             /\ UNCHANGED <<fd, owner, failed>>
    <3>1. mounts' \in 0..MaxMounts
      BY <2>1
    <3> QED BY <1>7, <2>1, <3>1 DEF Mount
  <2>2. CASE Fails("mount") /\ pc' = [pc EXCEPT ![p] = "off"] /\ Close(p) /\ UNCHANGED mounts
    BY <1>7, <2>2 DEF Mount, Close
  <2> QED BY <1>7, <2>1, <2>2 DEF Mount
<1>8. ASSUME NEW p \in Instances, End(p) PROVE LockInv'
  BY <1>8 DEF End, Close
<1>9. CASE UNCHANGED vars
  BY <1>9 DEF vars
<1> QED BY <1>1, <1>2, <1>3, <1>4, <1>5, <1>6, <1>7, <1>8, <1>9 DEF Next

(* The type invariant, with the shape of fd.                               *)
THEOREM TypeCorrect == Spec => []TypeOK
<1>1. LockInv => TypeOK
  BY DEF LockInv
<1> QED BY LockInit, LockNext, <1>1, PTL DEF Spec

(* Of the instances whose check succeeded at most one serves, whatever     *)
(* system calls fail (utilsCheckServiceRunning.c:42).                      *)
THEOREM CheckedServesAloneAlways == Spec => []CheckedServesAlone
<1>1. LockInv => CheckedServesAlone
  BY DEF LockInv, CheckedServesAlone, Serving, At, Past
<1> QED BY LockInit, LockNext, <1>1, PTL DEF Spec

(* Whoever refuses a start is another process that lives and has passed    *)
(* the check: a crash never leaves a lock behind, for any number of        *)
(* processes and whatever fails (utilsCheckServiceRunning.c:18).           *)
THEOREM RefusedByLivingAlways == Spec => RefusedByLiving
<1> DEFINE Refused(p) == At(p, "flock") /\ At(p, "refused")'
           Refuses(q) == fd[q] /\ pc[q] \in {"truncate", "write", "umount", "mount", "serving"}
<1>1. ASSUME LockInv, Next, NEW p \in Instances, Refused(p)
      PROVE  \E q \in Instances \ {p} : Refuses(q)
  <2>1. Flock(p)
    BY <1>1 DEF LockInv, TypeOK, At, GoTo, Next, Start, Open, Flock, Truncate, WritePid,
                Umount, Mount, End
  <2>2. owner # Nobody
    BY <1>1, <2>1 DEF LockInv, TypeOK, At, GoTo, Flock
  <2>3. owner \in Instances \ {p}
    BY <1>1, <2>2 DEF LockInv, TypeOK, At, Checking, Past
  <2>4. Refuses(owner)
    BY <1>1, <2>2 DEF LockInv, Checking, Past
  <2> QED BY <2>3, <2>4
<1>2. ASSUME UNCHANGED vars, NEW p \in Instances PROVE ~Refused(p)
  BY <1>2 DEF vars, At
<1>3. LockInv /\ [Next]_vars =>
        [\A p \in Instances : Refused(p) => \E q \in Instances \ {p} : Refuses(q)]_vars
  BY <1>1, <1>2
<1> QED BY LockInit, LockNext, <1>3, PTL DEF Spec, RefusedByLiving

-----------------------------------------------------------------------------
(* The pid file.                                                           *)

NamesOwner ==
  /\ \A p \in Instances :
       pc[p] \in Past /\ fd[p] => pidFile = p \/ ("write" \in failed /\ pidFile = Nobody)
  /\ \A p \in Instances : pc[p] = "write" => pidFile = Nobody

LEMMA NamesOwnerNext ==
  ASSUME LockInv, NamesOwner, [Next]_vars
  PROVE  NamesOwner'
<1> USE NobodyAssumption
    DEF LockInv, TypeOK, Checking, Past, At, GoTo, Fails, NamesOwner
<1>1. ASSUME NEW p \in Instances, Start(p) PROVE NamesOwner'
  BY <1>1 DEF Start
<1>2. ASSUME NEW p \in Instances, Open(p) PROVE NamesOwner'
  BY <1>2 DEF Open
<1>3. ASSUME NEW p \in Instances, Flock(p) PROVE NamesOwner'
  BY <1>3 DEF Flock, Close
<1>4. ASSUME NEW p \in Instances, Truncate(p) PROVE NamesOwner'
  BY <1>4 DEF Truncate, Close
<1>5. ASSUME NEW p \in Instances, WritePid(p) PROVE NamesOwner'
  BY <1>5 DEF WritePid
<1>6. ASSUME NEW p \in Instances, Umount(p) PROVE NamesOwner'
  BY <1>6 DEF Umount
<1>7. ASSUME NEW p \in Instances, Mount(p) PROVE NamesOwner'
  BY <1>7 DEF Mount, Close
<1>8. ASSUME NEW p \in Instances, End(p) PROVE NamesOwner'
  BY <1>8 DEF End, Close
<1>9. CASE UNCHANGED vars
  BY <1>9 DEF vars
<1> QED BY <1>1, <1>2, <1>3, <1>4, <1>5, <1>6, <1>7, <1>8, <1>9 DEF Next

(* The pid file names the serving instance, or nobody if it could not be   *)
(* written, whatever else fails (utilsCheckServiceRunning.c:18-39).        *)
THEOREM PidFileNamesServingAlways == Spec => []PidFileNamesServing
<1>1. Init => NamesOwner
  BY DEF Init, NamesOwner, Past
<1>2. LockInv /\ NamesOwner => PidFileNamesServing
  BY DEF NamesOwner, PidFileNamesServing, Serving, At, Past
<1> QED BY LockInit, LockNext, NamesOwnerNext, <1>1, <1>2, PTL DEF Spec

-----------------------------------------------------------------------------
(* Up to the first error of the check.                                     *)

LEMMA FailedGrows == [Next]_vars => failed \subseteq failed'
BY DEF Next, vars, Start, Open, Flock, Truncate, WritePid, Umount, Mount, End, Fails

LEMMA NeverFailedBefore == [Next]_vars /\ CheckNeverFailed' => CheckNeverFailed
BY FailedGrows DEF CheckNeverFailed

PastInv == CheckNeverFailed => \A p \in Instances : pc[p] \in Past => fd[p]

LEMMA PastNext ==
  ASSUME LockInv, PastInv, [Next]_vars
  PROVE  PastInv'
<1> SUFFICES ASSUME CheckNeverFailed'
             PROVE  \A p \in Instances : pc'[p] \in Past => fd'[p]
  BY DEF PastInv
<1>1. \A p \in Instances : pc[p] \in Past => fd[p]
  BY NeverFailedBefore DEF PastInv
<1>2. "open" \notin failed' /\ "flock" \notin failed' /\ "ftruncate" \notin failed'
  BY DEF CheckNeverFailed
<1> USE <1>1 DEF LockInv, TypeOK, Past, At, GoTo, Fails
<1> DEFINE Kept == \A q \in Instances : pc'[q] \in Past => fd'[q]
<1>3. ASSUME NEW p \in Instances, Start(p) PROVE Kept
  BY <1>3 DEF Start
<1>4. ASSUME NEW p \in Instances, Open(p) PROVE Kept
  BY <1>2, <1>4 DEF Open
<1>5. ASSUME NEW p \in Instances, Flock(p) PROVE Kept
  BY <1>2, <1>5 DEF Flock, Close
<1>6. ASSUME NEW p \in Instances, Truncate(p) PROVE Kept
  BY <1>2, <1>6 DEF Truncate
<1>7. ASSUME NEW p \in Instances, WritePid(p) PROVE Kept
  BY <1>7 DEF WritePid
<1>8. ASSUME NEW p \in Instances, Umount(p) PROVE Kept
  BY <1>8 DEF Umount
<1>9. ASSUME NEW p \in Instances, Mount(p) PROVE Kept
  BY <1>9 DEF Mount, Close
<1>10. ASSUME NEW p \in Instances, End(p) PROVE Kept
  BY <1>10 DEF End, Close
<1>11. CASE UNCHANGED vars
  BY <1>11 DEF vars
<1> QED BY <1>3, <1>4, <1>5, <1>6, <1>7, <1>8, <1>9, <1>10, <1>11 DEF Next

(* Up to the first error of the check, two instances never serve at the    *)
(* same time (serviceLaunchThreads.c:36-41).                               *)
THEOREM AtMostOneUnlessFailedAlways == Spec => []AtMostOneUnlessFailed
<1>1. Init => PastInv
  BY DEF Init, PastInv, Past
<1>2. LockInv /\ PastInv => AtMostOneUnlessFailed
  BY DEF LockInv, PastInv, AtMostOneUnlessFailed, AtMostOneServing, Serving, At, Past
<1> QED BY LockInit, LockNext, PastNext, <1>1, <1>2, PTL DEF Spec

-----------------------------------------------------------------------------
(* The file systems on the data folder.                                    *)

MountInv ==
  CheckNeverFailed =>
    /\ UseTmpfs => \A p \in Instances : pc[p] = "serving" => mounts > 0
    /\ "umount" \notin failed =>
         mounts <= 1 /\ \A p \in Instances : pc[p] = "mount" => mounts = 0

LEMMA MountNext ==
  ASSUME LockInv, PastInv, MountInv, [Next]_vars
  PROVE  MountInv'
<1> DEFINE OnTmpfs == UseTmpfs => \A p \in Instances : pc[p] = "serving" => mounts > 0
           Single  == "umount" \notin failed =>
             mounts <= 1 /\ \A p \in Instances : pc[p] = "mount" => mounts = 0
<1> SUFFICES ASSUME CheckNeverFailed' PROVE OnTmpfs' /\ Single'
  BY DEF MountInv
<1>1. CheckNeverFailed
  BY NeverFailedBefore
<1>2. OnTmpfs /\ Single
  BY <1>1 DEF MountInv
<1>3. ASSUME NEW p \in Instances, NEW q \in Instances,
             pc[p] \in Checking \cup Past, pc[q] \in Past
      PROVE  p = q
  BY <1>1, <1>3 DEF LockInv, PastInv, Checking, Past
<1>4. failed \subseteq failed'
  BY FailedGrows
<1>5. /\ pc \in [Instances -> {"off", "open", "flock", "refused", "truncate", "write",
                               "umount", "mount", "serving"}]
      /\ mounts \in Nat
  BY MaxMountsAssumption DEF LockInv, TypeOK
<1> USE <1>2, <1>4, <1>5 DEF Checking, Past, At, GoTo, Fails
<1>6. ASSUME NEW p \in Instances, Start(p) PROVE OnTmpfs' /\ Single'
  BY <1>6 DEF Start
<1>7. ASSUME NEW p \in Instances, Open(p) PROVE OnTmpfs' /\ Single'
  BY <1>7 DEF Open
<1>8. ASSUME NEW p \in Instances, Flock(p) PROVE OnTmpfs' /\ Single'
  BY <1>8 DEF Flock
<1>9. ASSUME NEW p \in Instances, Truncate(p) PROVE OnTmpfs' /\ Single'
  BY <1>9 DEF Truncate
<1>10. ASSUME NEW p \in Instances, WritePid(p) PROVE OnTmpfs' /\ Single'
  BY <1>10 DEF WritePid
<1>11. ASSUME NEW p \in Instances, Umount(p) PROVE OnTmpfs' /\ Single'
  <2>1. \A q \in Instances \ {p} : pc'[q] \notin Past
    BY <1>3, <1>11 DEF Umount
  <2>2. pc'[p] = IF UseTmpfs THEN "mount" ELSE "serving"
    BY <1>11 DEF Umount
  <2>3. OnTmpfs'
    BY <2>1, <2>2, Zenon DEF Past
  <2>4. Single'
    BY <1>11, <2>1, <2>2 DEF Umount
  <2> QED BY <2>3, <2>4
<1>12. ASSUME NEW p \in Instances, Mount(p) PROVE OnTmpfs' /\ Single'
  BY <1>3, <1>12 DEF Mount
<1>13. ASSUME NEW p \in Instances, End(p) PROVE OnTmpfs' /\ Single'
  BY <1>13 DEF End
<1>14. ASSUME UNCHANGED vars PROVE OnTmpfs' /\ Single'
  <2>1. pc' = pc /\ failed' = failed /\ mounts' = mounts
    BY <1>14 DEF vars
  <2> QED BY <1>2, <2>1, Zenon
<1> HIDE DEF OnTmpfs, Single
<1> QED BY <1>6, <1>7, <1>8, <1>9, <1>10, <1>11, <1>12, <1>13, <1>14 DEF Next

LEMMA MountAlways == Spec => [](LockInv /\ PastInv /\ MountInv)
<1>1. Init => PastInv /\ MountInv
  BY DEF Init, PastInv, MountInv, Past
<1> QED BY LockInit, LockNext, PastNext, MountNext, <1>1, PTL DEF Spec

(* No start, refused or not, unmounts the tmpfs of a serving instance      *)
(* (utilsSetTmpfs.c:17).                                                   *)
THEOREM KeepsTmpfsAlways == Spec => []KeepsTmpfs
<1>1. MountInv => KeepsTmpfs
  BY DEF MountInv, KeepsTmpfs, Serving, At
<1> QED BY MountAlways, <1>1, PTL

(* Restarts do not stack file systems on the data folder                   *)
(* (utilsSetTmpfs.c:17, 39).                                               *)
THEOREM MountsOnceAlways == Spec => []MountsOnce
<1>1. MountInv => MountsOnce
  BY DEF MountInv, MountsOnce
<1> QED BY MountAlways, <1>1, PTL
=============================================================================
