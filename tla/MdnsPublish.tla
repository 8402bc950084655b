----------------------------- MODULE MdnsPublish ----------------------------
(***************************************************************************)
(* The publishing side of mDNS (mDnsPublishService.c).  The http thread    *)
(* announces the node's web service through an avahi threaded poll, client *)
(* and entry group, kept in three static pointers, and takes them down     *)
(* when it stops.  In between avahi's own thread runs the callbacks, which *)
(* read the thread id through a pointer: the entry group's into a heap     *)
(* block, the client's into the stack frame of mdns_publish_service.       *)
(***************************************************************************)
EXTENDS Naturals

CONSTANTS MayFail,     \* the calls of avahi that may fail
          MaxChanges   \* bound: state changes avahi reports

ASSUME MayFailAssumption == MayFail \subseteq {"poll", "client", "group", "add", "commit"}
ASSUME MaxChangesAssumption == MaxChanges \in Nat

VARIABLES
  pc,          \* where the http thread is
  avahiPoll, client, group,  \* what each static points to: NULL, a live
               \* object, or one that was freed
  pid,         \* *t_pid_ptr: not allocated, live or freed
  polling,     \* avahi's thread runs
  groupState,  \* the entry group's state
  changes,     \* how many changes avahi has reported
  failed,      \* history: the call that has failed, or "none"
  misused      \* history: what was used or freed after it was gone

statics == <<avahiPoll, client, group>>
vars == <<pc, statics, pid, polling, groupState, changes, failed, misused>>

Pointers == {"null", "live", "freed"}

(* With the shape of the statics: each is NULL until its call and NULL     *)
(* again past its free.                                                    *)
TypeOK ==
  /\ pc \in {"poll", "client", "group", "add", "commit", "start", "return",
             "serving", "stopPoll", "freeGroup", "freeClient", "freePoll", "done"}
  /\ avahiPoll \in (IF pc \in {"poll", "done"} THEN {"null"} ELSE Pointers)
  /\ client \in (IF pc \in {"poll", "client", "freePoll", "done"} THEN {"null"} ELSE Pointers)
  /\ group \in (IF pc \in {"poll", "client", "group", "freeClient", "freePoll", "done"}
                THEN {"null"} ELSE Pointers)
  /\ pid \in {"live", "freed"}
  /\ polling \in BOOLEAN
  /\ groupState \in {"uncommitted", "registering", "established", "collision", "failure"}
  /\ changes \in 0..MaxChanges
  /\ failed \in MayFail \cup {"none"}
  /\ misused \subseteq {"avahi", "pid", "frame"}

Init ==
  /\ pc = "poll"
  /\ avahiPoll = "null" /\ client = "null" /\ group = "null"
  /\ pid = "live"
  /\ polling = FALSE /\ groupState = "uncommitted"
  /\ changes = 0
  /\ failed = "none" /\ misused = {}

-----------------------------------------------------------------------------
(* mdns_publish_service.  When a call fails the objects made so far are    *)
(* freed and the statics keep pointing at them; the http thread prints a   *)
(* message and serves without mDNS.                                        *)

callbackVars == <<polling, groupState, changes, misused>>

Succeeds(next) == pc' = next /\ UNCHANGED failed
Fails(call) == call \in MayFail /\ failed' = call /\ pc' = "serving"

NewPoll ==
  /\ pc = "poll"
  /\ \/ Succeeds("client") /\ avahiPoll' = "live"
     \/ Fails("poll") /\ UNCHANGED avahiPoll
  /\ UNCHANGED <<client, group, pid, callbackVars>>

NewClient ==
  /\ pc = "client"
  /\ \/ Succeeds("group") /\ client' = "live" /\ UNCHANGED avahiPoll
     \/ Fails("client") /\ avahiPoll' = "freed" /\ UNCHANGED client
  /\ UNCHANGED <<group, pid, callbackVars>>

NewGroup ==
  /\ pc = "group"
  /\ \/ Succeeds("add") /\ group' = "live" /\ UNCHANGED <<avahiPoll, client>>
     \/ Fails("group") /\ client' = "freed" /\ avahiPoll' = "freed" /\ UNCHANGED group
  /\ UNCHANGED <<pid, callbackVars>>

AddToGroup ==
  /\ pc = "add"
  /\ \/ Succeeds("commit") /\ UNCHANGED <<statics, pid>>
     \/ /\ Fails("add")
        /\ group' = "freed" /\ client' = "freed" /\ avahiPoll' = "freed" /\ pid' = "freed"
  /\ UNCHANGED callbackVars

CommitFreesGroup ==
  /\ pc = "commit"
  /\ \/ Succeeds("start") /\ UNCHANGED group
     \/ Fails("commit") /\ group' = "freed"
  /\ UNCHANGED <<avahiPoll, client, pid, callbackVars>>

(* A commit that fails frees nothing.                                      *)
Commit ==
  /\ pc = "commit"
  /\ Succeeds("start") \/ Fails("commit")
  /\ UNCHANGED <<statics, pid, callbackVars>>

StartPoll ==
  /\ pc = "start"
  /\ Succeeds("return")
  /\ polling' = TRUE
  /\ UNCHANGED <<statics, pid, groupState, changes, misused>>

Return ==
  /\ pc = "return"
  /\ Succeeds("serving")
  /\ UNCHANGED <<statics, pid, callbackVars>>

Publish ==
  NewPoll \/ NewClient \/ NewGroup \/ AddToGroup \/ Commit \/ StartPoll \/ Return

-----------------------------------------------------------------------------
(* The callbacks, in avahi's thread.                                       *)

(* How an entry group may go on (external): a service that was established *)
(* may be registered once more, with another host name, collide with a     *)
(* newcomer or fail with the daemon.                                       *)
Following(state) ==
  CASE state = "uncommitted" -> {"registering"}
    [] state = "registering" -> {"established", "collision", "failure"}
    [] state = "established" -> {"registering", "collision", "failure"}
    [] state = "collision"   -> {"failure"}
    [] state = "failure"     -> {}

(* The states the callback prints the thread id for, after which it frees  *)
(* the block.                                                              *)
Reported == {"established", "collision", "failure"}

EntryGroupCallback ==
  /\ polling /\ changes < MaxChanges
  /\ groupState' \in Following(groupState)
  /\ changes' = changes + 1
  /\ IF groupState' \in Reported
     THEN /\ misused' = IF pid = "live" THEN misused ELSE misused \cup {"pid"}
          /\ pid' = "freed"
     ELSE UNCHANGED <<misused, pid>>
  /\ UNCHANGED <<pc, statics, polling, failed>>

(* AVAHI_CLIENT_FAILURE; any other state leaves everything alone.          *)
ClientCallback ==
  /\ polling /\ changes < MaxChanges
  /\ changes' = changes + 1
  /\ misused' = IF pc = "return" THEN misused ELSE misused \cup {"frame"}
  /\ UNCHANGED <<pc, statics, pid, polling, groupState, failed>>

Callback == EntryGroupCallback \/ ClientCallback

-----------------------------------------------------------------------------
(* stop_mdns_service, when the http thread has seen running cleared.       *)

MisusedIf(pointer) == IF pointer = "freed" THEN misused \cup {"avahi"} ELSE misused

BeginStop ==
  /\ pc = "serving"
  /\ pc' = "stopPoll"
  /\ UNCHANGED <<statics, pid, callbackVars, failed>>

StopPollAsync ==
  /\ pc = "stopPoll"
  /\ misused' = MisusedIf(avahiPoll)
  /\ pc' = "freeGroup"
  /\ UNCHANGED <<statics, pid, polling, groupState, changes, failed>>

(* avahi_threaded_poll_stop waits for the thread.                          *)
StopPoll ==
  /\ pc = "stopPoll"
  /\ misused' = MisusedIf(avahiPoll)
  /\ polling' = FALSE
  /\ pc' = "freeGroup"
  /\ UNCHANGED <<statics, pid, groupState, changes, failed>>

FreeGroupKeepsPointer ==
  /\ pc = "freeGroup"
  /\ misused' = MisusedIf(group)
  /\ group' = IF group = "live" THEN "freed" ELSE group
  /\ pc' = "freeClient"
  /\ UNCHANGED <<avahiPoll, client, pid, polling, groupState, changes, failed>>

FreeGroup ==
  /\ pc = "freeGroup"
  /\ misused' = MisusedIf(group)
  /\ group' = "null"
  /\ pc' = "freeClient"
  /\ UNCHANGED <<avahiPoll, client, pid, polling, groupState, changes, failed>>

FreeClient ==
  /\ pc = "freeClient"
  /\ misused' = MisusedIf(client)
  /\ client' = "null"
  /\ pc' = "freePoll"
  /\ UNCHANGED <<avahiPoll, group, pid, polling, groupState, changes, failed>>

FreePoll ==
  /\ pc = "freePoll"
  /\ misused' = MisusedIf(avahiPoll)
  /\ avahiPoll' = "null"
  /\ pc' = "done"
  /\ UNCHANGED <<client, group, pid, polling, groupState, changes, failed>>

Stop == BeginStop \/ StopPoll \/ FreeGroup \/ FreeClient \/ FreePoll

Done == pc = "done" /\ UNCHANGED vars

Next == Publish \/ Callback \/ Stop \/ Done

Spec == Init /\ [][Next]_vars

-----------------------------------------------------------------------------
(* Properties.                                                             *)

(* avahi's thread runs only while the objects its callbacks work on exist: *)
(* it is started last and stopped before the first of them is freed        *)
(* (mDnsPublishService.c:97, 105-119).                                     *)
PollsLiveObjects ==
  polling => avahiPoll = "live" /\ client = "live" /\ group = "live"

(* stop_mdns_service works on live objects, nothing is freed twice or used *)
(* after it was freed, as long as the failure that ended the publishing    *)
(* had freed nothing: the statics are stored for this cleanup              *)
(* (mDnsPublishService.c:13, 105-119).                                     *)
CleanupOnlyLive == failed \notin {"client", "group", "add"} => "avahi" \notin misused

(* The entry group's callback reads its thread id from a live block, and   *)
(* frees it once: it is freed in the final or the first meaningful         *)
(* callback (mDnsPublishService.c:34).                                     *)
CallbackReadsLivePid == "pid" \notin misused
=============================================================================
