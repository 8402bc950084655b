# node_rpi: models, checks and proofs

`node_rpi` is a C program for a Raspberry Pi: one process samples sensors,
buffers the samples, posts them to InfluxDB, writes them to a file, answers
HTTP requests, announces itself through mDNS and looks for other services the
same way. This folder holds TLA+ models of it, the TLC configurations that
check them on small instances and TLAPS proofs about them for every instance.
Paths below are relative to the repository's `src/` and `include/` folders, as
in `log/logBufferBase.c`.

    tlc -config X.cfg M.tla      check a run (the table under "Runs")
    tlapm MProofs.tla            check the proofs of module M

## 1. The system

### Components

| Component | Source | State it keeps | Operations | Modules |
|---|---|---|---|---|
| Log buffer | `log/logBufferBase.c`, `log/logBuffers.c` | ring: `buffer`, `head`, `count`, `buf->lock`; the pointer `logBufferMPU` | init, push, peek_all, pop_all, free | LogBuffer, LogBufferLocked, SampleWindow; life: Service |
| Log thread and pipeline | `log/logValuesThread.c`, `log/logWriteValues.c`, `log/logSendBufferToInflux.c`, `utils/utilsWriteToFile.c` | marks `lastTimestamp.mpu_influx`, `.mpu_file`; statics for the two intervals; the data file | one cycle: update the handle, peek, post, append, sleep | LogValues |
| Influx line protocol | `log/logInfluxIlp.c` | `influx_buffer` and its fill level | format a line, append it | IlpBuffer |
| InfluxDB connection | `log/logInfluxCurl.c` | `InfluxCurl`: version, handle, ready, target | make or drop the handle when `cfgVersion` changed | InfluxTarget |
| mDNS scan | `network/mDNS/mDnsScan*.c` | service list, InfluxDB `serviceInfo`, `cfgVersion`, `simple_poll` | browser new/remove, resolver, add_service, remove_service, the poll loop | ServiceScan, InfluxTarget; thread: Service |
| mDNS publishing | `network/mDNS/mDnsPublishService.c` | three static avahi pointers, the heap block with the thread id | publish, two callbacks, stop | MdnsPublish; its thread: HttpServe |
| Service lifecycle | `main.c`, `service/serviceLaunchThreads.c`, `utils/utilsSignalHandler.c`, `utils/utilsVerbosePrint.c` | `running`, the mutexes `lock` and `node.lock` | route the command, launch, join, destroy, the signal handler | Service |
| Single instance, tmpfs | `utils/utilsCheckServiceRunning.c`, `utils/utilsSetTmpfs.c` | pid file and its flock, mounts on the data folder | check, truncate, write the pid, unmount, mount | ServiceInstance |
| HTTP server | `network/http/**` | MHD daemon and its thread | start, serve a request, stop; `/test` changes the configuration | HttpServe; locks: Service; `/test`: InfluxTarget |
| Node map and JSON | `node/nodeMap.c`, `utils/utilsBuildJsonFromMap.c` | hash buckets | add, build the JSON of a page | NodePage, HttpServe |
| Node and configuration | `node/nodeInit.c`, `config/*.c` | the node struct | defaults, read the file, set by key | NodeConfig; keys: NodePage |
| Client commands | `client/*.c` | - | one-shot scan with a time-out | Service |
| MPU and BM sensors, file upload | `sensors/mpu`, `sensors/bm`, `log/logSendFileToInflux.c` | - | stubs, no caller | not modelled |
| Small helpers | `utils/utilsStrReplace.c`, `utilsMakePath.c`, ... | - | strings, files, conversions | str_replace: HttpServe |

`PROJECT.json` lists the same components file by file.

### How they interact

As a service, six threads share one address space:

    main      launches the four workers, joins them, destroys the mutexes
    http      publishes by mDNS, owns the MHD daemon, polls `running`
    mhd       libmicrohttpd's own thread, runs the handlers under node.lock
    log       owns the ring and the curl handle, one cycle per period
    sensor    pushes a time-stamped sample into the ring
    mdns      runs avahi's poll loop; callbacks change the node under node.lock

and, while the service is announced, avahi's threaded poll as a seventh. As a
client the program has one thread: main calls the function of the mdns thread
itself, with a time-out that ends its poll. They communicate through

  - `running`, under the global mutex `lock`, written by the signal handler on
    top of whichever thread it interrupts;
  - the node struct, under `node.lock`; the service list and the InfluxDB
    settings in it are written by mdns and mhd and read by log, which notices
    a change by `cfgVersion` alone;
  - the ring, under its own `buf->lock`, while the pointer to it is read
    without any lock;
  - `simple_poll`, made by mdns and quit by the signal handler;
  - outside the process, the flock on the pid file and the tmpfs.

### What is hard

Two mutexes taken by six threads and by a handler that may sit on top of the
owner; early returns with a mutex held; pointers published before their object
is initialised and kept after it is freed; samples peeked again in every cycle
with only a mark against duplicates, one of which may come from before an
array; a configuration followed through a wrapping version number; callbacks
of avahi that arrive late, twice, or in the middle of the cleanup; threads that
could not be made and are joined; keys that reach a JSON object in the order of
their hash; numbers narrowed and lengths that wrap; kills between any two steps
of the start. `PROJECT.json`, "hazards", has each of
them with its line and the properties that cover it, or why none does.

### What makes each component correct

  - Log buffer: a caller gets the newest samples in order, none that was never
    pushed, and every call is atomic whatever other threads do.
  - Pipeline: a sample is posted once and written once, in order, and none is
    passed over while it was in the buffer.
  - Line protocol: the text stays inside its buffer and lines are not lost.
  - InfluxDB connection: the handle has the settings of the latest version; a
    service that was found is used, one that has gone is not.
  - Scan: names are unique in the list; the InfluxDB settings do not outlive
    the list node they point into.
  - Publishing: avahi's thread works on live objects only, and nothing is
    freed twice.
  - Lifecycle: a signal stops the service, a time-out the client; no mutex is
    leaked, none is used after it was destroyed.
  - HTTP server: a node that others find answers; a text fits its memory.
  - Node map and JSON: a page shows every registered value below its prefix,
    whatever the order of the buckets.
  - Configuration: whatever the file holds, the threads find numbers above 0
    and strings where they need them.
  - Single instance: one instance serves, the pid file names it, nobody else
    refuses a start, its tmpfs stays, and restarts do not pile up mounts.

## 2. The modules

### SampleWindow, LogBuffer, LogBufferLocked

`SampleWindow` is what the log buffer promises: a sequence of at most `Size`
samples that a push slides, that a peek copies from its oldest end and a pop
empties. `LogBuffer` is the code's ring with `head`, `count` and the modulo
arithmetic of `logBufferBase.c`, one action per function, because each function
runs from lock to unlock. Its property `ImplementsWindow` is the
specification of `SampleWindow` under the mapping `window <- Contents`.
Where `max_out` is below `count` a peek returns the oldest samples and a
pop the newest, and drops the rest: this is what the code does, and the only
caller peeks with the full size.

`LogBufferLocked` takes the three functions apart into the statements that work
on the ring, run by any number of threads. A statement such as
`head = (head + 1) % size` reads and writes in one step, which the lock hides.
Its property `CallsAreAtomic` says that it implements `LogBuffer`, where the
abstract ring is the one the last complete call left (`done`).

### LogValues

One cycle of the log thread, statement by statement, against a sensor that
pushes in between; the ring is the window of `SampleWindow`. `pc` follows
`log_values_thread` and `log_write_values`: check `running` and decide the
intervals, read the configuration, peek, clear the file, fill `influx_buffer`,
send and mark, append line by line, sleep; once `running` is cleared, leave the
loop and free the buffer with what it holds. `Signal` clears `running` at any
point. `held` says that the thread has come to a mutex that another thread has,
`lock`, `node.lock` or the ring's, in its own code or in a signal handler that
has interrupted it; `Contend` takes and frees it at will, and may keep it for
ever. A sample is its push number; `stamp[n]` is its timestamp. Posting and
appending may fail at any time, as the code ignores both results. With an empty
peek, `mpu_samples[-1]` is read: the mark then is any member of `Garbage`.
Samples are counted as `posted` or `written` when they are handed over. The
model begins where the thread has found `logValues` set and made the ring.

### IlpBuffer

The arithmetic of `logInfluxIlp.c` by length: the cut at `sizeof(ilp_line)`,
the test for room, two lines per sample. LogValues takes from it that the lines
of a batch fit.

### ServiceScan, InfluxTarget, MCInfluxTarget

`ServiceScan` has the callbacks and the service list. avahi reports an instance
once per interface and protocol (`via`); a resolver is never stopped, so its
answer may come after the removal, and its address may be of either family.
`add_service` and `remove_service` are one action each under `node.lock`.
`hostOf` remembers whether the pointers copied into `serviceInfo` still point
into the list. `InfluxTarget` extends it with the two other parties:
`UpdateCurl` is `log_update_influx_curl`, `HttpTest` is the handler of `/test`.
Without `useServiceScan` the scan does not touch the InfluxDB settings; the
models have it on. `MCInfluxTarget` names the instances for TLC.

### MdnsPublish

`mdns_publish_service` call by call, each of which may fail, the two callbacks
in avahi's thread, and `stop_mdns_service` step by step. What was used or
freed after it was gone is collected in `misused`.

### NodeConfig, NodePage

Two modules of operators. `NodeConfig` has the setters of `configHelpers.c`:
`SetNumber` narrows to the width of the setting and then tests for 0, `SetText`
passes over what is no string of its kind. `ConfigProcessed` is
`config_process_file` over the defaults of `node_init`. A file is what jansson
makes of it: for every setting a value or `Absent`, which also stands for
another JSON type and for a file that cannot be read.

`NodePage` has the keys `node_init` registers (`NodeKeys`, a key is the sequence
of its segments) and the walk over the map. A JSON object is a function from
the paths below it to leaves and objects; `AddPath` is `add_path_to_json` with
`get_or_create_object`, in which a leaf replaces whatever was at its path and
an object that is there is used again. `Stripped` is the comparison by
`strncmp`, so that a prefix may end within a segment (`?sensor=mpu.g` shows
`yro...`); `Splits` lists the segments where it does. `PageOf` is what the page
has to be, without reference to an order.

### HttpServe, MCHttpServe

The http thread around `MdnsPublish`, which it EXTENDS: it reads its port,
starts the daemon, publishes whether or not that works, waits, withdraws the
service and stops the daemon. The daemon's own thread answers one request
after the other: `ServeMap` and `WalkEntry` are `/api/status` and
`/api/sensors`, whose walk takes the entries in any order, since the hash
decides it; `ServeText` is a file or an error page, by the lengths that
`str_replace` computes in `size_t`; `ServeFixed` is what changes nothing here.
`MHD_stop_daemon` waits for the request in progress. `MCHttpServe` gives TLC
six settings, four files and five keys.

### Service

Every thread's control between two mutex operations is one step, its critical
sections of `lock` are taken apart. `WithNodeLock` is a critical section of
`node.lock` that only reads and cannot block; where one blocks or leaks, taking
and releasing are separate. `frames[t]` is the stack of signal handlers on
thread t, which does not go on until they have returned. `Exit` stands for the
end of `main`, which locks `node.lock` in `free_service_list`; the service has
destroyed it by then.

The first step of main is the command. As a client it becomes the scan: `pc`
of mdns moves, but the stack is main's (`Carrier`), so a handler on main stops
it, and a signal inside the scan's critical section of `lock` makes the only
thread wait for itself: `ClientHangs` is that end. `timer` is the scan's
time-out. A thread of `CreateMayFail` may be `absent`: main reports it, goes
on, and joins a thread id that was never set.

### ServiceInstance

Processes that start, stop, are refused or are killed between any two system
calls, each of which may fail. The kernel's part, dropping the lock with the
file, is `Close`. `check_service_running` returns -1 after an error and its
caller then goes on: this is the branch from `open`, `flock` and `truncate`
straight to `umount`. A process that finds the lock taken is `refused`, and
ends.

### Undefined behaviour

Where the code reads an object that is gone, the models choose the outcome
nondeterministically if it is a value (`Garbage`), and otherwise record it in a
history variable and go on: `undefined` in Service, `misused` in MdnsPublish,
`hostOf = "freed"` in ServiceScan. Properties that make sense only before it
has happened say so.

## 3. Runs

| Run | Module | What it shows | Bounds |
|---|---|---|---|
| LogBuffer | LogBuffer | ring implements the window | size 3, 3 samples, max_out 0..4: the ring wraps in every phase, max_out is below, at and above size and count |
| LogBufferLocked | LogBufferLocked | calls are atomic | 2 threads, 2 samples, size 2 |
| LogValues | LogValues | each sample posted and written once, in order, none passed over; only overwritten ones are lost, and those left at the end | 4 pushes into a ring of 2, so samples are overwritten between cycles; garbage below, between and above the stamps; a signal and a mutex that is not free at every point |
| IlpBuffer | IlpBuffer | text stays inside, what can be dropped | 5 samples, lines shorter than, just below, and longer than the line buffer |
| Service | Service | locks, joins, shutdown, the client's scan | the program's threads as service or client, 1 signal at any point, avahi may die, the log thread may not be made |
| InfluxTarget | MCInfluxTarget | handle follows the configuration | 3 reports of 2 services, version modulo 3 with 2 changes per cycle: one below a full round |
| HttpServe | MCHttpServe | publishing and cleanup around the daemon, settings, pages, rendered texts | every call may fail, 4 changes reported by avahi: the group is established twice, or collides and fails after it, or the client fails in between; files that give nothing, values that fit, that narrow to another number and to 0; 5 keys with common parents and 5 prefixes, one within a segment; messages below, at and above the placeholder's length |
| ServiceInstance | ServiceInstance | single instance, pid file, mounts | 3 processes, every call may fail, up to 3 mounts |
| ServiceMdnsOff | Service | violation, finding 1 | 1 signal |
| StaleTarget | MCInfluxTarget | violation, finding 2 | 1 service on 2 protocols |
| PublishCollides | MdnsPublish | violation, finding 3 | 4 changes |
| InstanceUnchecked | ServiceInstance | violation, finding 4 | only `open` fails |

Bounds that are constants of the models, not of the code: `MaxPushes`,
`MaxSignals`, `MaxChanges`, `MaxMounts`, `MaxResolvers`, `BumpsPerCycle`, and
`VersionModulus` in place of 65536. `MaxOut` bounds an argument. `Files`,
`FileTexts` and `MessageLengths` are inputs, `SizeModulus` is the range of
`size_t`.

The behaviour of a ring depends on its contents only through their identity,
and two threads are enough for any pair of overlapping calls. In LogValues four
samples and a ring of two let one sample be overwritten unseen, one be seen
twice and one be seen once, in one behaviour. Nothing in ServiceInstance counts
processes; three give an owner, a refused start and one in between. Of two keys
of the map one may lie beside the other, below a common parent or outside the
prefix, and the five keys have each pair; every order of their walk is taken.

### Assumptions

  - The clock is not set back (`ClockAssumption`: `ClockSteps` holds naturals).
    With a step back, `NoneSkippedAfterFirst` and `PeekedIsWritten` are
    violated: samples stamped below a mark are not sent until the clock has
    caught up. They and `OnlyOverrunLoses` also need that two pushes have
    different stamps, since a sample stamped like the mark looks old; the run
    and the theorems have that as `ClockAdvances`. The sensor stamps with a
    clock of nanoseconds and sleeps for milliseconds between two pushes
    (`sensors/sensorsDummy.c`). The other properties of LogValues do not need
    it.
  - A ring has at least one slot (`SizeAssumption`); the configuration's setters
    pass over 0, as `SettingsUsable` says. `max_out` is a natural number.
  - Signals are delivered to the main thread (`SignalTargets`), as Linux does
    for a process-directed signal while main can take it, and there is one.
    With two signals, or one on a worker inside its critical section, the
    handler waits for a mutex that the code below it owns, and TLC finds the
    deadlock.
  - A service instance has a name (`NamesAssumption`). Two types may share one:
    the list then keeps one entry for both and a removal of either takes it.
    `AddressOfListedService` speaks of names that only the database's type
    uses, and the proofs hold for any instances; the run has no shared name,
    which would make it too large (the same properties pass with a shared name
    and one InfluxDB service seen once).
  - No registered key leads through another, and no two lead to the same path
    of a page (`KeysAssumption`, `PathsAssumption`); TLC evaluates the first
    for all keys of `node_init`.
  - Fewer than 65536 changes of `cfgVersion` in one cycle of the log thread.
  - The http thread's configuration does not change once the threads run, but
    for the part `/test` and the scan change, which no page property is about.
  - `pthread_mutex_init` and `avahi_simple_poll_new` succeed; a scan thread
    without a poll would return with `lock` locked, as it does without a
    client. `malloc` succeeds outside of the calls whose failure is modelled.

### Fairness

  - Service: strong fairness for every thread. Every loop of the program
    sleeps or waits for an event with both mutexes free, so a waiting thread
    sees its mutex free again and again; a fair scheduler and glibc's wake-up
    then let it in. Requests, browser events, avahi's death and signals are
    environment and have no fairness. Strong fairness of a thread whose mutex
    is never freed demands nothing, so the deadlocks stay visible.
    `TimerFires` has strong fairness too: avahi's poll looks at its timers in
    every round, however many events come in between.
  - LogValues: strong fairness of the log thread. It waits for its sleep, for a
    post, which has a time-out, and for three mutexes; like a thread of
    Service it gets one that is freed again and again. That they are freed is
    no assumption of the specification: two of them may stay locked for ever
    (finding 1), so `HeldIsWritten` has `[]<>(~held)` as its premise, without
    which TLC refutes it. With weak fairness TLC refutes it as well: the
    mutex may be taken each time the thread comes. The sensor, the signal and
    `Contend` have no fairness.
  - InfluxTarget: weak fairness of `UpdateCurl`, the same loop while the service
    runs. What `FoundIsUsed` is about, a service that was found, comes from a
    scan thread that is past the early returns of finding 1, and all other
    critical sections end. How the thread waits for its mutexes is in Service
    and LogValues.
  - The other modules state safety only.

### Properties worth a word

  - `ShutdownOnceUp` is the part of `GracefulShutdown` that the code keeps: a
    signal whose handler begins when the poll exists. A signal before that
    leaves the scan thread in a poll that nobody quits, since it does not look
    at `running` itself. Both excuse behaviours after undefined behaviour. Its
    premise leaves out a handler that interrupts a critical section of `lock`
    on its own stack, in which it waits for ever.
  - `ClientScanEnds`: the time-out alone ends a client's scan, against browser
    events, a dying daemon and a signal.
  - `SettingsUsable` depends on the order in `set_uint16`: the value is narrowed
    before it is tested, so 65536 is passed over like 0.
  - `PageShowsAll` compares what the walk has built with `PageOf`; it fails when
    an object that already exists is made anew.
  - `RenderedFits` holds although the difference of the lengths wraps: the sum
    wraps back. It fails when the difference is taken to be 0 instead.
  - `AnnouncedIsServed` relates the two cleanups: a daemon that stops before the
    service is withdrawn leaves an announced service that nobody answers for.
  - `OnlyOverrunLoses` is the pipeline's promise as the user of the data sees it:
    of the last `Size` samples up to the newest one peeked none is missing in
    the file, nor, after the first interval, in the posts. It joins ring, peek,
    loop and marks, and fails when the peek returns one sample less than the
    ring holds, which the properties about peeked samples do not notice.
  - `HeldIsWritten` is the liveness next to it, with its two exceptions: a
    sample the ring overwrites, and one that is still unwritten when the
    thread finds `running` cleared. The second is what the code does: it frees
    the ring without a last write.
  - `RefusedByLiving` is an action property about what a crash leaves behind:
    whoever is refused, some other process is past the check and alive. A check
    that trusted the number in the pid file would refuse every start after a
    kill.
  - `NoneSkippedAfterFirst` shows that the garbage mark heals: it can hold
    samples back only until the first interval that peeks any.
  - `CurlMatchesLastChange` relates the handle to the configuration at the
    last version change, not to the current one, since settings change without
    the version. `FoundIsUsed` excuses an attempt in which `curl_easy_init`
    failed: the new version is remembered first, so there is no second one.
  - `CleanupOnlyLive` has as its premise which calls failed: after a failed
    client, group or add the statics point at freed objects, which
    `stop_mdns_service` then frees again. A failed poll and commit are clean.
  - `DropsOnlyLastOfFull` tells what the missing byte for the NUL costs.
  - `AtMostOneUnlessFailed`, `CheckedServesAlone` and `AtMostOneServing` say
    what is left of the single instance before, after and without regard to
    errors of the check.

### Findings

1. **mDNS off** (`ServiceMdnsOff`). `mdns_scan_service_thread` returns with
   `node.lock` locked; the http thread waits for it, main waits for the http
   thread, and a signal does not stop the service. Without an avahi daemon
   the same happens with `lock`.
2. **Removed service** (`StaleTarget`). `remove_service` clears the address
   but leaves `cfgVersion`; the handle goes on posting to the old address.
3. **Callback after the first** (`PublishCollides`). The entry group callback
   frees the thread id in its first report and reads and frees it again in the
   next one.
4. **Check with an error** (`InstanceUnchecked`). When the pid file cannot be
   opened the service starts although another one serves.

## 4. Proofs

TLAPS proves the following for every value of the constants, under the named
assumptions of the modules only.

**LogBufferProofs.** `RingInv` = types, the counted slots hold pushed samples
(`HeldSlotsPushed`), returned ones too (`OnlyPushedSamples`). The last is not
inductive alone, as it depends on what the slots hold. From it `TypeCorrect`
and `NothingUnpushed`. `Refinement` shows that every step of the ring is a
step of the window: `PushSlides`, `PeekReturnsOldest`, `PopReturnsNewest`, over
lemmas on the modulo of a sum that wraps at most once (`ModSmall`, `ModWrap`,
`SlotOfValue`, `StartThenOffset`).

**LogBufferLockedProofs.** `LockInv` relates the shared memory at every point of
a call to `done`, the ring the last complete call left: a thread is between
lock and unlock exactly if it owns the lock (`Owned`); while nobody owns it the
memory is `done` (`Unmoved`); a push has made none, one, two or all of its three
changes (`PushMoved`), a pop has cleared the count only at its end
(`CopyMoved`); and the locals of a peek or pop hold what `done` has told it, the
caller's array the first elements of the copy (`LocalsFit`). Without the last
two the step that matters, `UnlockIsCall`, could not be made: an unlock is the
`Push`, `PeekAll` or `PopAll` of LogBuffer, all other steps leave `done` alone.
Hence `CallsAreAtomic` for any number of threads. LogBufferProofs, instantiated
with `done` as its ring, then applies: no call returns a slot that nobody has
pushed (`TypeCorrect`), and the two refinements compose to
`CallsSlideTheWindow`, from single statements to the sliding window.

**LogValuesProofs.** The invariant `PipelineInv` says that timestamps do not
decrease with the push number; window and peek hold increasing samples; all
that was posted is covered by the last peek and by the mark (`PostedCovered`),
and the batch lies above the mark (`BatchNewer`); all that was written is
covered by the last peek and either by the file mark or by the part of this
cycle's loop that is done (`WrittenCovered`, `IndexInOut`). The garbage mark
does no harm because an empty peek comes before every post: nothing is popped,
so a peek that found samples is never followed by an empty one; the buffer is
freed only when there is no peek any more. `PostsOnlyNewer` and `WritesOnce`
follow, for any `Garbage`. Only the assumption on the clock is used. What the
other threads do is one case of the step (`Pausing`): it leaves samples and
marks alone.

That nothing is passed over is the converse, and has `ClockAdvances` as its
hypothesis: `AdvancingInv` (later samples have later stamps, and a sample that
the last peek did not see is newer than all it saw). `WritingInv`: what
is in sight and not above the file mark is written, and so is what the loop has
visited; the loop stops at an old sample, and all before it are older
(`LoopLeavesNone`), so `PeekedIsWritten` is kept. `PostingInv` is its counterpart
for the posts, where the samples the first interval passed are excused:
`NoneSkippedAfterFirst`. `ContiguousInv`: window and peek are the newest
consecutive push numbers, as many as were pushed or `Size`; with the two
properties before it this gives `OnlyOverrunLoses`. `FileInv`: all of the file
before this cycle's block is covered by the mark (`BlocksMarked`), the block by
the loop's index (`BlockVisited`); the next line is older than those of its
block and newer than the rest (`LineFitsBlock`), hence `FileInBlocks`, without
`ClockAdvances`.

**IlpBufferProofs.** `RoomInv` bounds the fill level by the number of lines
tried times the line size; a drop therefore needs every line before it to be
of full length. `StaysInside` and `DropsOnlyLastOfFull` follow for every count,
line size and length.

**ServiceInstanceProofs.** `LockInv`: a process in the critical part of the
check, or past it with the file open, owns the lock. `NamesOwner`: the pid file
names the owner past the check, unless a write has failed. Conversely the lock
has no owner but a process between the check and its end that has the file open,
which is `RefusedByLiving`. `PastInv`: before
the first error everybody past the check has the file open. `MountInv`: the
mounts by the owner's progress. Hence the seven properties of the run, for any
number of processes and any set of failing calls.

**InfluxTargetProofs.** `Linked` says what the copied string pointers point to:
the name in the configuration is in the list, or it was removed, and then the
configuration is without an address if only InfluxDB services have that name. `Counted` follows the version:
it is as many bumps ahead of the handle's as were made since the last cycle,
modulo its range, and the configuration's target is that of the last bump or
none. As the bumps stay below the modulus, equal versions mean no bump.
`Followed` says what the handle has then. With the types they give
`ListNamesUnique`, `AddressOfListedService` and `CurlMatchesLastChange` for any
set of instances and addresses and any range of the version.

**HttpServeProofs.** `PublishInv` is what each pointer is at every point of
`mdns_publish_service` and what the call that failed has left of it. It is
proved for MdnsPublish and carried over by the lemma `Publishes`, which is no
result about the code: HttpServe uses MdnsPublish's own actions. `HttpInv` adds
the types and that publishing is only under way while the http thread is in it.
`WalkInv`: in the middle of a walk the page is `PageOf` the entries that have
been taken. Its step is the lemma `AddEntryToPage`: an entry's path does not lie
on or above another's (`PathsApart`, from `PathsAssumption`), and a path above
one that leads to another leads to it as well (`AboveAbove`), so a leaf destroys
nothing; `OwnerIs` gives each leaf its one entry. `RenderedFits` rests on two
facts of the modulo, `Wraps` and `WrapsBelow`, over the template, a single
placeholder and a longer replacement (`LongerFits`, `OneFits`).
`SettingsUsable` follows from the setters (`SetNumberPositive`,
`SetTextUsable`).

**ServiceProofs.** `ServiceInv` is the types, `Framed` (no handler runs on a
thread that is not there), `Phases` (what main's and the http thread's points
say of the others: nobody runs yet, mhd is gone, everybody is gone), and `Held`
(the owner of `lock` is inside one of the critical sections or has a handler
past its lock on top; the owner of `node.lock` is a request or a browser
event). `Held` has the premise that mDNS is configured and an avahi daemon
answers, which the two early returns of finding 1 break. `NoLockLeaks` follows
with that premise, `MutexesOutliveThreads` without one, for any number of
signals to any thread, more than the run can take, and any threads that cannot
be made.

**Model-checked only.** Liveness (`ShutdownOnceUp`, `ClientScanEnds`,
`FoundIsUsed`, `HeldIsWritten`): the prover does not handle fairness. Every
other property of a passing run is proved. The four violations are
counterexamples, found by TLC.

## 5. Not modelled

  - The MPU and BM sensor threads and the file upload: stubs without a caller.
  - What has no caller: `map_get`, `map_get_entry`, `build_json_from_map`,
    `set_uint32` and the getters of `configHelpers.c`.
  - The wording of messages, responses, URLs and lines, the headers, and the
    usage and output of the client.
  - The fields of a listed service on a page (one value, `Reading`), and the
    empty tokens of `strtok` for an argument such as `?sensor=` with nothing
    or two dots in it.
  - The torn read of `node.mpu` between the sensor (under `lock`) and the
    handlers (under `node.lock`): the values go into a response only. The raw
    axes are registered as `int` and are 16 bits wide; no thread that is
    launched writes them.
  - The interface of a link-local IPv6 address, which the URL names after a
    `%25`: `TargetOf` has the address alone.
  - That a removal on one interface or protocol takes the entry of a service
    which is still there on another is modelled, but no property asks for
    more: the repository does not say what is meant.
  - An unsupported `dbVersion`, which leaves the handle as a configuration
    without an address does; the curl options other than fresh-connect; the
    release of the handle when the log thread ends.
  - `make_path_n`, `read_file`, the UUID, the time stamps, the conversion of
    addresses: sequential helpers without a state of their own, whose results
    the models take as they are or as failed.
  - The stack size that `mpu_samples` needs with a long post interval.
  - The lists `main` frees at its end, beyond the mutex they take.

## 6. Plan

Done first, since the samples are what the program is for and the locks are
what can stop it: the ring and its refinement, the pipeline, the line buffer,
the lifecycle, the connection with the scan, publishing, the single instance.
Then the rest of the program around them: the client's scan and its time-out,
threads that cannot be made, the configuration, the node map and its pages, the
http thread with its daemon, and proofs of the safety properties of Service,
InfluxTarget and HttpServe.

Every safety property and both refinements of the log buffer are proved. What
could come next:

1. The four liveness properties, when a prover handles fairness.
2. The lines of a batch fit (IlpBuffer) as a step of LogValues, in one model
   with both, if `influx_buffer` is ever sized by something else than the
   number of samples a peek can return.
3. An abstract specification of the single instance, one owner whose crash
   frees the service, that ServiceInstance implements up to the first error of
   the check.
4. A pointer-level model of the list of services, if the scan ever changes an
   entry outside of `add_service`.
