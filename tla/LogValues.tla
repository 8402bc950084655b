------------------------------ MODULE LogValues -----------------------------
(***************************************************************************)
(* The sample pipeline: the sensor thread pushes time-stamped samples into *)
(* the log buffer (sensorsDummy.c) while the log thread, once per cycle,   *)
(* peeks at all of them, posts the new ones to InfluxDB when the post      *)
(* interval has passed and appends the new ones to the data file           *)
(* (logValuesThread.c, logWriteValues.c, logInfluxIlp.c).  Nothing is ever *)
(* popped: two "last timestamp" marks are all that keeps a sample from     *)
(* being sent again by the next cycle.                                     *)
(*                                                                         *)
(* The log buffer is the window of SampleWindow, which LogBuffer           *)
(* implements.  A sample is the number of its push; stamp[n] is the        *)
(* CLOCK_REALTIME timestamp that push took.  Of the other threads and the  *)
(* signal handlers (Service) there is what concerns the samples: `running` *)
(* is cleared, and a mutex may keep the log thread for a while or for ever.*)
(***************************************************************************)
EXTENDS SampleWindow, Integers, FiniteSets

CONSTANTS ClockSteps,   \* how far the clock may move between two pushes
          Garbage,      \* what mpu_samples[-1].timestamp may read as
          LogToInflux, LogToFile,
          MaxPushes     \* bound: pushes per behaviour

ASSUME ClockAssumption == ClockSteps \subseteq Nat
ASSUME GarbageAssumption == Garbage \subseteq Nat
ASSUME ConfigAssumption == LogToInflux \in BOOLEAN /\ LogToFile \in BOOLEAN

VARIABLES
  stamp,            \* stamp[n]: timestamp of the n-th sample pushed
  pc,               \* where the log thread is in its cycle
  running,          \* the flag of the signal handler
  held,             \* the log thread waits for a mutex that is not free
  influxInterval, fileInterval, ready,  \* decided at the start of the cycle
  lastInflux,       \* lastTimestamp.mpu_influx
  lastFile,         \* lastTimestamp.mpu_file
  batch,            \* the samples whose lines are in influx_buffer
  i,                \* the index of the file loop
  file,             \* the samples in the data file, in file order
  blockStart,       \* history: Len(file) when this cycle began to append
  posted, written,  \* history: samples handed to the post, to write_to_file
  firstPassed       \* history: what the first influx interval that found
                    \* samples peeked

sensorVars == <<window, stamp>>
threadVars == <<running, held>>
cycleVars == <<influxInterval, fileInterval, ready>>
influxVars == <<lastInflux, batch, posted, firstPassed>>
fileVars == <<lastFile, i, file, blockStart, written>>
vars == <<windowVars, stamp, pc, threadVars, cycleVars, influxVars, fileVars>>

Pushed == Len(stamp)
SamplesOf(seq) == {seq[k] : k \in 1..Len(seq)}
LastOf(seq) == seq[Len(seq)]

TypeOK ==
  /\ window \in Seq(1..Pushed) /\ Len(window) <= Size
  /\ out \in Seq(1..Pushed) /\ Len(out) <= Size
  /\ stamp \in Seq(Nat)
  /\ pc \in {"loop", "config", "peek", "clear", "influx", "send", "file", "sleep",
             "stopping", "stopped"}
  /\ running \in BOOLEAN /\ held \in BOOLEAN
  /\ influxInterval \in BOOLEAN /\ fileInterval \in BOOLEAN /\ ready \in BOOLEAN
  /\ lastInflux \in Nat /\ lastFile \in Nat
  /\ batch \subseteq 1..Pushed
  /\ i \in 0..Size
  /\ file \in Seq(1..Pushed) /\ blockStart \in Nat
  /\ posted \subseteq 1..Pushed /\ written \subseteq 1..Pushed
  /\ firstPassed \subseteq 1..Pushed

Init ==
  /\ WindowInit
  /\ stamp = <<>>
  /\ pc = "loop"
  /\ running = TRUE /\ held = FALSE
  /\ influxInterval = FALSE /\ fileInterval = FALSE
  /\ ready = FALSE
  /\ lastInflux = 0 /\ lastFile = 0
  /\ batch = {} /\ i = 0
  /\ file = <<>> /\ blockStart = 0
  /\ posted = {} /\ written = {} /\ firstPassed = {}

-----------------------------------------------------------------------------
(* The sensor thread.                                                      *)

(* get_current_timestamp_ns: 1 at the first push at the earliest.          *)
Clock == IF Pushed = 0 THEN 1 ELSE LastOf(stamp)

(* The sensor sees NULL in logBufferMPU once the buffer is freed.          *)
Sense ==
  /\ Pushed < MaxPushes
  /\ pc # "stopped"
  /\ \E d \in ClockSteps : stamp' = Append(stamp, Clock + d)
  /\ WindowPush(Pushed + 1)
  /\ UNCHANGED <<pc, threadVars, cycleVars, influxVars, fileVars>>

-----------------------------------------------------------------------------
(* The other threads and the signal handlers.                              *)

(* signal_handler, in any thread.                                          *)
Signal ==
  /\ running' = FALSE
  /\ UNCHANGED <<windowVars, stamp, pc, held, cycleVars, influxVars, fileVars>>

(* Another thread takes or frees the mutex the log thread needs next:      *)
(* `lock` at "loop", node.lock at "config" and "stopping", the ring's at   *)
(* "peek", and anywhere `lock`, if a signal handler has interrupted it.    *)
Contend ==
  /\ held' = ~held
  /\ UNCHANGED <<windowVars, stamp, pc, running, cycleVars, influxVars,
                 fileVars>>

-----------------------------------------------------------------------------
(* The log thread, one cycle.                                              *)

(* The check of running under `lock`, and the two intervals: they have     *)
(* passed or not.                                                          *)
BeginCycle ==
  /\ pc = "loop" /\ running
  /\ influxInterval' \in BOOLEAN
  /\ fileInterval' \in BOOLEAN
  /\ pc' = "config"
  /\ UNCHANGED <<windowVars, stamp, threadVars, ready, influxVars, fileVars>>

(* The configuration under node.lock.  log_update_influx_curl leaves the   *)
(* connection ready or not (module InfluxTarget has the conditions).       *)
ReadConfig ==
  /\ pc = "config"
  /\ ready' \in BOOLEAN
  /\ pc' = "peek"
  /\ UNCHANGED <<windowVars, stamp, threadVars, influxInterval, fileInterval,
                 influxVars, fileVars>>

PeekOneLess ==
  /\ pc = "peek"
  /\ WindowPeekAll(Size - 1)
  /\ pc' = "clear"
  /\ UNCHANGED <<stamp, threadVars, cycleVars, influxVars, fileVars>>

(* max_out is bufferInfo->size.mpu, the size the buffer was made with.     *)
Peek ==
  /\ pc = "peek"
  /\ WindowPeekAll(Size)
  /\ pc' = "clear"
  /\ UNCHANGED <<stamp, threadVars, cycleVars, influxVars, fileVars>>

(* write_to_file(..., "w"), which prints an error and goes on when the     *)
(* file cannot be opened.                                                  *)
ClearFile ==
  /\ pc = "clear"
  /\ file' \in (IF LogToFile /\ fileInterval THEN {<<>>, file} ELSE {file})
  /\ blockStart' = Len(file')
  /\ pc' = "influx"
  /\ UNCHANGED <<windowVars, stamp, threadVars, cycleVars, influxVars,
                 lastFile, i, written>>

Posting == influxInterval /\ LogToInflux /\ ready

NewerThanUnfiltered(mark) == SamplesOf(out)

(* add_mpu_ilp_values_to_buffer: the filter on the timestamp.              *)
NewerThan(mark) == {n \in SamplesOf(out) : stamp[n] > mark}

FillInfluxBuffer ==
  /\ pc = "influx"
  /\ batch' = IF Posting THEN NewerThan(lastInflux) ELSE {}
  /\ pc' = IF Posting THEN "send" ELSE "file"
  /\ i' = Len(out)
  /\ UNCHANGED <<windowVars, stamp, threadVars, cycleVars, lastInflux, posted,
                 firstPassed,
                 lastFile, file, blockStart, written>>

SendMarksNow ==
  /\ pc = "send"
  /\ posted' = posted \cup batch
  /\ batch' = {}
  /\ lastInflux' = Clock
  /\ firstPassed' = IF firstPassed = {} THEN SamplesOf(out) ELSE firstPassed
  /\ pc' = "file"
  /\ UNCHANGED <<windowVars, stamp, threadVars, cycleVars, fileVars>>

(* log_send_buffer_to_influx, whose result is ignored, and the new mark:   *)
(* with an empty peek it is read from mpu_samples[-1].                     *)
Send ==
  /\ pc = "send"
  /\ posted' = posted \cup batch
  /\ batch' = {}
  /\ lastInflux' \in (IF out = <<>> THEN Garbage ELSE {stamp[LastOf(out)]})
  /\ firstPassed' = IF firstPassed = {} THEN SamplesOf(out) ELSE firstPassed
  /\ pc' = "file"
  /\ UNCHANGED <<windowVars, stamp, threadVars, cycleVars, fileVars>>

(* The file loop runs from the newest sample to the first one that is not  *)
(* new; every line opens, appends to and closes the file.                  *)
LoopAgainSkipsNewest == i > 1 /\ i < Len(out) /\ stamp[out[i]] > lastFile

LoopAgain == i > 0 /\ stamp[out[i]] > lastFile

WriteLine ==
  /\ pc = "file"
  /\ LogToFile /\ LoopAgain
  /\ file' \in {file, Append(file, out[i])}
  /\ written' = written \cup {out[i]}
  /\ i' = i - 1
  /\ UNCHANGED <<windowVars, stamp, pc, threadVars, cycleVars, influxVars,
                 lastFile, blockStart>>

EndFileForgetsMark ==
  /\ pc = "file"
  /\ ~(LogToFile /\ LoopAgain)
  /\ i' = 0
  /\ pc' = "sleep"
  /\ UNCHANGED <<windowVars, stamp, threadVars, cycleVars, influxVars,
                 lastFile, file, blockStart, written>>

EndFileMarksNow ==
  /\ pc = "file"
  /\ ~(LogToFile /\ LoopAgain)
  /\ lastFile' = Clock
  /\ i' = 0
  /\ pc' = "sleep"
  /\ UNCHANGED <<windowVars, stamp, threadVars, cycleVars, influxVars, file,
                 blockStart, written>>

EndFile ==
  /\ pc = "file"
  /\ ~(LogToFile /\ LoopAgain)
  /\ lastFile' = IF LogToFile /\ out # <<>> THEN stamp[LastOf(out)] ELSE lastFile
  /\ i' = 0
  /\ pc' = "sleep"
  /\ UNCHANGED <<windowVars, stamp, threadVars, cycleVars, influxVars, file,
                 blockStart, written>>

(* sleep_ms(log_frequency_ms)                                              *)
Sleep ==
  /\ pc = "sleep"
  /\ pc' = "loop"
  /\ UNCHANGED <<windowVars, stamp, threadVars, cycleVars, influxVars,
                 fileVars>>

(* Out of the loop: verbose_mutex_print takes node.lock, then              *)
(* free_log_buffers frees the ring with what it holds.                     *)
LeaveLoop ==
  /\ pc = "loop" /\ ~running
  /\ pc' = "stopping"
  /\ UNCHANGED <<windowVars, stamp, threadVars, cycleVars, influxVars,
                 fileVars>>

FreeBuffers ==
  /\ pc = "stopping"
  /\ window' = <<>>
  /\ pc' = "stopped"
  /\ UNCHANGED <<out, stamp, threadVars, cycleVars, influxVars, fileVars>>

LogThread ==
  /\ ~held
  /\ \/ BeginCycle \/ ReadConfig \/ Peek \/ ClearFile \/ FillInfluxBuffer \/ Send
     \/ WriteLine \/ EndFile \/ Sleep
     \/ LeaveLoop \/ FreeBuffers

Next == Sense \/ Signal \/ Contend \/ LogThread

(* The log thread is scheduled as long as it runs, and gets a mutex that   *)
(* is freed again and again.  If one stays locked (ServiceMdnsOff), it is  *)
(* owed nothing.  Every post has a time-out (logInfluxCurl.c:125), a write *)
(* to a file ends.  The sensor need not produce, nor anybody give a mutex  *)
(* back.                                                                   *)
Spec == Init /\ [][Next]_vars /\ SF_vars(LogThread)

-----------------------------------------------------------------------------
(* Properties.                                                             *)

(* What is about to be posted is newer than everything posted before: the  *)
(* post never carries a sample twice, nor an older one after a newer one,  *)
(* although every cycle peeks the same samples again and although the mark *)
(* may hold garbage (logWriteValues.c:51-62).                              *)
PostsOnlyNewer == pc = "send" => \A p \in posted, b \in batch : p < b

(* No sample gets two lines in the data file, even across the clearing of  *)
(* the file (logWriteValues.c:67-75).                                      *)
WritesOnce == pc = "file" /\ LogToFile /\ LoopAgain => out[i] \notin written

(* A post interval passes over no sample it peeked at: all of them have    *)
(* been handed to a post.  The exception is the first interval that found  *)
(* samples, where an earlier interval may have left garbage in the mark -  *)
(* the damage of mpu_samples[-1] ends there (logWriteValues.c:61).         *)
NoneSkippedAfterFirst ==
  pc = "file" /\ Posting => SamplesOf(out) \subseteq posted \cup firstPassed

(* The file loop stops at the first sample that is not new: the ones it    *)
(* does not visit have all been written (logWriteValues.c:69).             *)
PeekedIsWritten ==
  pc = "sleep" /\ LogToFile => SamplesOf(out) \subseteq written

(* Only an overrun of the buffer loses a sample: of the last Size samples  *)
(* up to the newest one peeked, each has a line by the end of the cycle,   *)
(* and each has been posted by the end of a post, but for what the first   *)
(* interval passed.  A sensor that pushes at most Size samples from one    *)
(* peek to the next loses none (logWriteValues.c:36, 51-75).               *)
OnlyOverrunLoses ==
  out # <<>> =>
    \A n \in 1..LastOf(out) : n > LastOf(out) - Size =>
      /\ pc = "sleep" /\ LogToFile => n \in written
      /\ pc = "file" /\ Posting => n \in posted \cup firstPassed

(* In the data file each cycle's lines run from newest to oldest, and each *)
(* cycle's block is newer than all blocks before it (logWriteValues.c:68). *)
FileInBlocks ==
  \A j \in 1..Len(file), k \in 1..Len(file) :
    j < k /\ blockStart < k =>
      IF j <= blockStart THEN file[j] < file[k] ELSE file[j] > file[k]

(* As long as the mutexes the log thread waits for are freed again, a      *)
(* sample in the buffer is written to the file, unless Size newer samples  *)
(* push it out first or the thread finds running cleared: what it has not  *)
(* written by then is freed with the buffer (logValuesThread.c:58-62, 90). *)
HeldIsWritten ==
  []<>(~held) =>
    \A n \in Samples :
      LogToFile /\ n \in SamplesOf(window)
        ~> n \in written \/ Pushed >= n + Size \/ pc \in {"stopping", "stopped"}
=============================================================================
