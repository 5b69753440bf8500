# Verification of RUnigma's timer daemon, video memory and player infrastructure

RUnigma is the software of a family of Linux set-top boxes with an ST SH4
processor: a build system (`src/tdt/cvs/cdk`), kernel drivers
(`src/tdt/cvs/driver`), and applications (`src/tdt/cvs/apps`), first of all the
television application *neutrino*. This directory holds TLA+ models of those
parts whose logic is their own and hard to test, the TLC configurations that
check them and the theorems TLAPS proves of them.

Abbreviations: TM = `src/tdt/cvs/apps/neutrino/src/timerd/timermanager.cpp`,
TD = `timerd.cpp` beside it, CF = `src/tdt/cvs/apps/neutrino/lib/libconfigfile/configfile.cpp`,
INFRA = `src/tdt/cvs/driver/player2/components/infrastructure`, BUF = `src/tdt/cvs/driver/player2/player/buffer`,
CODEC = `src/tdt/cvs/driver/player2/player/codec`.

## 1. Inventory

### neutrino

| Part | State | Operations | Hard to get right |
|---|---|---|---|
| **timerd** (`src/timerd`), the timer daemon: a command server thread and a timer thread inside the neutrino process | the map of timers, the id counter, the save flag, the recording margins, `timerd.conf` | 18 commands over a local socket; a pass over all timers every 10 or 20 s; load, save, shutdown | two threads under one mutex that one command does not take; cancellation of a thread; power cuts; repetition over months and changes of the clock |
| timerd client library (`lib/timerdclient`) | none | one connection per command | two commands that belong together and can be interleaved with those of another client |
| event server (`lib/libeventserver`) | clients registered per event | send an event to each client over a connection of its own | called with timerd's mutex held, blocks on a full backlog; its map is changed by another thread |
| configuration file (`lib/libconfigfile`) | key/value map | load, save in place | truncation, power cuts |
| neutrino (`src/neutrino.cpp`, `src/gui`) | mode, recording, message queue | user input, messages, start and stop of recordings | order of messages from five daemons |
| zapit (`src/zapit`) | tuner, demux, PMT, record mode | zap, record mode, standby | zap while recording, PMT updates |
| sectionsd (`src/sectionsd`) | event tables, demux threads | commands; seven threads | several locks, channel change during a read |
| picture viewer, frame buffer (`src/driver`) | two picture buffers and their devices | decode, show, clean up | error paths that keep what they released |
| nhttpd, libtuxtxt, libdvbsub, libnet, ... | | | data processing |

neutrino starts timerd's server thread, which starts the timer thread. Clients
(neutrino's own GUI, nhttpd) send one command per connection; the server
executes them one after the other. timerd tells neutrino through the event
server what to do (announce, zap, start and stop a recording). sectionsd sets
the flag `timeset` that lets the timer thread load its timers.

### drivers

| Part | State | Operations | Hard to get right |
|---|---|---|---|
| **bpamem** | 32 devices: used, address, size | ALLOCMEM, MAPMEM, FREEMEM, UNMAPMEM, mmap | ioctls of several processes interleave; every error path has to undo |
| **player2: rings** (`ring_generic.cpp`) | an array, two indexes, a mutex and an event | insert, extract, flush | the test for emptiness and the event are outside the mutex |
| **player2: buffer pools** (`buffer_pool_generic.cpp`, `buffer_individual_generic.cpp`) | the free buffers, counts of pools and buffers, attached buffers | get, reference, attach, detach, release, abort | counts under two mutexes in turn; the last reference decides; releases nest |
| **player2: memory of a pool** (`allocator_simple.cpp`) | a table of free blocks | allocate, extend, shrink, free, delete | joining at both ends but not over 64 MB; waiting without a time-out; deletion under a waiting caller |
| **player2: codec base** (`codec_mme_base.cpp`, `codec_mme_video.cpp`) | the state and owner counts of the decode buffers, the buffer being filled, counts of commands, a marker | input, callback of the decoder, drain, discard, release of reference frames | four threads, of which the callback and the draining thread touch what Input works on without a lock |
| player2: playback and streams | four threads per stream, connected by rings | play, inject, drain, switch, stop | markers and discards that travel with the data |
| multicom | ports, MME transformers and commands | send, abort, terminate | messages between two processors |
| dvbloopback | a queue of ioctls waiting for a process | forward, answer | time-outs, signals |
| frontcontroller (aotom, ...) | key event queues, draw queue | read, write, draw thread | interrupt against reader |
| simu_button | the registration of an input device | | |
| smartcard, cic, pti, frontends, avs, cec, e2_proc, stgfb, cpu_frequ | device registers | | polling state machines |

### tools

libeplayer2/3 (playback control with thread flags), libmmeimage (a client of
bpamem), evremote2, fp_control, hotplug, streamproxy, and vendored code.

`PROJECT.json` lists every part with its status, and under `hazards` what is
hard to test, line by line.

### What makes the modelled parts correct

*timerd*: a recording that was started ends; a timer fires when it is due, not
more often than it was asked for, and stays on its calendar; what the user
asked for is in the file and survives a restart; no pass or save hangs.

*bpamem*: a device and the pages behind it belong to one process; nothing is
lost on an error path; nobody keeps memory that was given back.

*rings*: to their callers they are bounded queues, whatever the threads do
between a test, a mutex and an event; no thread sleeps beside an entry.

*buffer pools*: a buffer is in one place, its count is the number of its
owners, one thread releases it.

*memory of a pool*: each byte is in one free block or one buffer; free
neighbours are joined; nobody waits for memory that is there.

*codec base*: nothing is decoded into what was passed on; what is decoded into or read is not
in the pool; a discard spares the pictures after it; a marker comes behind the
pictures before it and is not forgotten.

## 2. The modules

| Module | What it models |
|---|---|
| `TimerEvents` | one timer (`CTimerEvent`): the operators that a pass, a load and a rescheduling apply to it. No state |
| `Timerd` | the daemon: both threads, the commands, the stages of writing the file, shutdown, restart, power cut. Extends `TimerEvents` |
| `TimerdProps` | the properties of `Timerd` and the strengthening its proofs use |
| `TimerCalendar` | the loop of `CTimerEvent::Reschedule`, round by round, with months, weekdays and summer time |
| `BPAMem` | the bpamem driver and the protocol of its clients, with its properties |
| `BoundedQueue` | the abstract specification of a ring: a bounded queue whose calls take effect at one instant |
| `RingGeneric` | a ring of the player, with the refinement mapping to `BoundedQueue` |
| `BufferPool` | buffer pools and the counted references to their buffers |
| `AllocatorSimple` | the memory of a buffer pool |
| `CodecMme` | the codec base class as the video codecs use it, with its properties |
| `MCTimerd`, `MCTimerCalendar`, `MCBPAMem`, `MCBufferPool`, `MCCodecMme` | small instances for TLC |
| `TimerdProofs` | theorems about one timer, the daemon's types, its passes and its file, and what it owes its user: no timer lost, doubled or fired too often, no recording without its end |
| `TimerCalendarProofs` | theorems about months, local time and the rounds of a repeating timer |
| `BPAMemProofs`, `RingProofs`, `BufferPoolProofs`, `AllocatorProofs` | the theorems about one module each |
| `CodecMmeProofs` | the codec's types, discards and markers |
| `CodecOwnerProofs` | who owns the codec's decode buffers. Extends `CodecMmeProofs` |

A definition marked "Mutant" in a comment is not part of the model: it is a
plausible mistake in the definition that follows it, kept to show that a
property would notice.

### Timerd and the code

| Variables | In the code |
|---|---|
| `events`, `lastId`, `saveFlag` | `CTimerManager::events`, `eventID`, `m_saveEvents` |
| `safety` | `m_extraTimeStart`, `m_extraTimeEnd` |
| `locked` | `tm_eventsMutex`, when it is held from one step to a later one |
| `pc`, `cursor`, `passNow`, `source`, `loaded` | where the timer thread is: waiting for the time, loading, in a pass (`now` read at TM:118), after it, saving, asleep, cancelled. `m_isTimeSet` is `pc # "wait"` |
| `srv`, `request` | where the server is: ready, between the two sections of CMD_MODIFYTIMER, between the stores of `setRecordingSafety`, in `pthread_join`, saving, stopped |
| `phase`, `snap`, `disk` | how far `saveEventsToConfig` and `saveConfig` are, what they write, and `timerd.conf` |
| `timeset`, `now` | sectionsd's flag, the clock |
| `recording`, `durable`, `removed`, `lastUid`, `clean` | history, read by no action |
| `commands`, `restarts` | bounds |

*One action per handler.* A command that holds the mutex throughout is one
action, enabled when nobody holds the mutex across steps. What the timer thread
does with the mutex held is one action per timer (`Visit`: announce, fire, stop,
reschedule or delete, TM:130-186), and one per stage of a save (`StartSave`
collects, `OpenFile` truncates, `WriteHead` and `WriteTail` write, `ClearFlag`
ends it), because the clock ticks, the power fails and `setRecordingSafety`,
which takes no mutex, acts between them. `setRecordingSafety` is three stores.
CMD_MODIFYTIMER takes the mutex twice: `GetEventType` looks the timer up (TD:214,
TM:298-310), `ModifyTimer` looks it up again and changes it (TD:240, TM:313-358), if
the timer thread has not deleted it in between. The pointer that the first section
returns is read after it (TD:218), from a timer that may be gone by then; what is read
decides only whether the directory of a recording is received, which is payload here.

*Inputs.* The daemon checks neither times nor repeat values, so neither does the
model: `NewTimers` is any set of timers, of any type, with any times, a stop time or
none, and any repeat value. `UNKNOWN` stands for BYEVENTDESCRIPTION and every
number that no case of Reschedule knows; nhttpd forwards whatever number it is given
(`controlapi.cpp:1868-1870`). A pass that reschedules such a timer never comes back
(`VisitEndless`, `Endless`, TM:831-879). Only the constructor of a recording takes a
stop time (`StopOf`), and clients may send a recording without one
(`controlapi.cpp:1771-1777, 1861`): it is started and finished at once (TM:150-151), and
timerd never stops it. `recording` therefore has the recordings of timers with an
end (`ends`), as long as no client takes the end away with a modification.
A recording started by hand (`ByHand`) has the times neutrino's own client sends: it
begins now and ends later.

*Files.* `saveConfig` opens with truncation and writes the keys in
alphabetical order: a file cut by a power failure is empty, or (after `IDS`)
lacks `REPEAT_COUNT_n` and `STOP_TIME_n`, which then read as 0 (`Cut`).

*Undefined behaviour.* After `erase` the loop increments the erased iterator
(TM:184, 128): `Visit` lets it go to any remaining timer or to the end. The
margins are uninitialised without a file, whatever the comment at TM:623 says:
`Init` takes any value of `Safeties`.

*Cancellation.* `pthread_cancel` acts where cancellation is enabled: while
waiting, loading, in the save that ends the load, and in the sleep; it is disabled
from the start of a pass to the end of the save after it (`Cancellable`).

*Left out.* Payloads (EPG ids, directories, messages; SETAPID is modelled by
the save it asks for), the read-only commands, `previousState`, which no branch
reads, and `shutdownOnWakeup`, which returns at once since `wakeup` is always 0
(TM:64, 717). The events sent to neutrino are the history variable `recording`.
The clock only goes forward.

*Calendar.* In `TimerEvents` the step of a repetition is a constant length
(`Period`) and the rounds of the loop are summed up (`Shift`). `TimerCalendar`
keeps the rounds and replaces the constant by the real calendar: `localtime`
and `mktime` are modelled by what they do, including the reading of a
broken-down time by its `tm_isdst` and the carry of a day that the month does
not have. An hour is one slot. The properties say what the code keeps and name
what it does not: a monthly timer leaves its day if a month lacks it
(`EveryMonthHas`), and a timer set for the hour that the first day of summer
time leaves out (`Skipped`) may be moved to the hour before.

### BPAMem and the code

Only `find_next_device` is under a semaphore; it is one action (`Reserve`).
After it each copy from or to the client, the allocation, and each of the three
stores of a release (`FreePages`, `ClearPhys`, `ClearUsed`) is an action of its
own, as the ioctls of several processes interleave in a kernel that calls them
unlocked (`bpamem.c:236-240`; with the big kernel lock of older kernels fewer
interleavings are possible). The stores are taken to happen in program order.
`Open`, `Mmap`, `Munmap` and `GiveBack` are the protocol all clients of the
repository follow (`libmmeimg_jpeg.c:201-335`, `framebuffer.cpp:235-277, 381-387`):
allocate, open the device that was named, map, unmap, release. No client of the
repository uses MAPMEM; the model's clients pair it with UNMAPMEM.

### RingGeneric and the code

`INFRA/ring_generic.cpp`. A call is as many actions as it has pieces that
others can see apart. `Insert` is `InsertAdvance` (the mutex is taken, the value
stored, the index advanced), `InsertCommit` (the index is compared with
`NextExtract` and taken back if the ring was full; the mutex is given back) and
`InsertSignal`. `Extract` is `ExtractReset`, `ExtractLook` (the test outside the
mutex), the wait (`ExtractWoken`, `ExtractTimeout`) and `ExtractTake`. The
first step of an Insert writes two variables that an Extract reads without the
mutex; only the index matters to what it reads, and it is one store. A
flush is a call of its own (the frame parser empties the ring it fills when
play goes backwards). The blocking period is finite for every ring of the
player, so the wait may end at any time.

The mapping to `BoundedQueue`: the queue is what lies between the indexes,
without an Insert that is not decided yet; `answer` records what each call
returned. `ImplementsQueue` then says that every call has its effect, and the
answer belonging to it, at one instant of its duration.

### BufferPool and the code

`BUF/buffer_pool_generic.cpp`, `BUF/buffer_individual_generic.cpp`. Each
section under a mutex is a step. `at[p]` says where a thread is in GetBuffer,
IncrementReferenceCount or AttachBuffer; `stage[p][b]` where its
DecrementReferenceCount of `b` is. A release drops the guests of a buffer one
after the other by nested calls, so several buffers have a stage at a time; a
host waits until the call for its guest has returned (`ReleaseAttached`).
`holds` is the discipline the player's threads follow: a thread only
works on what it holds a reference to, and hands references over rings
(`Pass`). A buffer is only attached to one that does not hang, directly or
through others, on it; `Attachable` says which may be. `MaxAttached` is the number of
slots a host has (`MAX_ATTACHED_BUFFERS`): a refused AttachBuffer changes nothing
(`buffer_individual_generic.cpp:768-770`) and is no step. A host's guests are a set:
no caller attaches what is attached already (the parsers attach the parameters of a
frame once, the codec the coded frame once to the buffer and once to each context, `codec_mme_base.cpp:1090`,
`codec_mme_video.cpp:369`), and guests are looked up by their type.

*Undefined here.* When the memory of a buffer cannot be allocated, GetBuffer
returns with the buffer in nobody's hand (`buffer_pool_generic.cpp:601-605`): it
is out of use for good, which the model records in `leaked`. Entering
GetBuffer clears `AbortGetBuffer`, also when the abort was meant for another
thread that has not noticed yet; so an abort is no promise that a call ends, and
no property says so.

### AllocatorSimple and the code

`INFRA/allocator_simple.cpp`. Allocate and ExtendToLargest are one step under
the mutex. A Free is several: it presets `LowestFreeBlock` before it takes the
mutex (`FreeEnter`, line 322; `FreeLock`), then looks at one entry of the table
in each `FreeScan` (333-360), with `giving[t]` for its local variables: the
block that grows as entries are joined to it, the lowest unused entry, the highest that
stays; `FreeRun` enters the block or gives it up. What the caller's buffer keeps
of a block it shrinks is in `giving[t].keep` meanwhile. One thread allocates from a pool, any thread frees (`InAllocate` is one flag). The
`NonBlocking` forms are never called. The tests of the extent in ExtendToLargest
(221, 246) compare an offset with a physical address; they change nothing, as
there is no free block beyond the memory. An
Allocate that finds the allocator being deleted leaves the loop with the mutex
locked (99-100): `Lock` keeps it, and the destructor, which destroys the mutex,
does not need it. The sizes asked for are rounded up (`RoundUp`), shrunken
buffers give the rest back. The destructor is called by the pool's, when no Free
is in progress any more.

`overtaken` records that a Free worked with an index read too early. What the
table is worth after that is what `finding_free_race` shows; `MayCall`, a bound,
starts no call after it.

### CodecMme and the code

CODEC/`codec_mme_base.cpp`, `codec_mme_video.cpp`. Four threads: `decode` takes
parsed frames and calls Input and the calls in sequence; `mme` is the callback
of the decoder; `drain` is whoever drains the stream; the threads behind the
output ring give buffers back (`ReleaseDecodeBuffer`, at any time). `pc[t]` is
where the first three are.

| Variables | In the code |
|---|---|
| `state[b]` | `BufferState[b]`: `OutputOnDecodesComplete`, `DecodesInProgress`, the fields of `PictureStructure`, `ReferenceFrameCount` |
| `refs`, `output` | the owner count of the buffer (0: in its pool), how often it was passed on and not given back |
| `current`, `context` | `CurrentDecodeBufferIndex`, `DecodeContext` |
| `prepared`, `completed`, `discardUntil` | `MMECommandPreparedCount`, `MMECommandCompletedCount`, `DiscardDecodesUntil` |
| `marker` | `MarkerBuffer` with `PassOnMarkerBufferAt` |
| `mme` | the commands sent whose callback has not ended |
| `lock` | who holds `Lock` between two steps |
| `work`, `picture` | the context Input fills, the frame it was given |

A section under `Lock` is one step, but for the compare and the reset of the
index (1178), which others, who do not take `Lock`, can come between
(`CompareIndex`, `ForgetIndex`). Every test, use and reset of `current` and `context`
that another thread could come before or after is a step of its own: the test of a
partial buffer and the second reading that is passed on (`Look`, `Argument`, 542 and
545), the storing of an index obtained and the initializing of the state it names
(`GetDecodeBuffer`, `InitializeBuffer`, 1030 and 1039). Accesses in a row are one step
where all but one are to what nobody else can tell: Input tests the index again
right after it outputs a partial buffer (`codec_mme_video.cpp:200-210`);
`Prepare` reads it for the context and, under a reference, for the count; the number
at which a marker is due and the marker are stored together, the number being read only
where there is a marker (1975); and `SendMMEDecodeCommand` counts the command and
sends it in one step, since the count is compared with other counts only in Input's own
thread, in a drain and when a marker is input: a drain that falls between
counting and sending discards the same pictures as one that comes after the sending. `direct` tells two kinds of codecs apart: in
most the thread that drains discards and outputs itself (`player_playback.cpp:990-991`);
H264 queues both for the thread that inputs
(`codec_mme_video_h264.cpp:461-518`), so there the two never meet.

The decoder answers in the order of its commands. What may fail, each counted by
`failed`: obtaining a buffer (`GetFails`), or mapping and initializing it after its
index was stored, which leaves index and buffer to the next picture
(`InitializeBuffer`, 1035-1073); a second field that does not fit the first, whose
partial buffer is output and whose context the next picture takes over (`KeepFails`,
`codec_mme_video.cpp:267-295`); a buffer for a marker, after the one still held was
dropped (`MarkerFails`, 779-793); filling out a command (`UseReference`) and
sending it (`SendMMEDecodeCommand`). The first of the late failures, a full table of
mappings, comes before the state is cleared; in the pool it is cleared already.
A picture is a field or a frame, may be a
reference, and reads one buffer or none: any that is mapped, that is, not in its pool
(`Readable`), found in one step and used in a later one; a reference that is not found is
replaced by the buffer itself (1284-1304). The rings and pools below are modules of their own,
`RingGeneric` and `BufferPool`: here the output ring is a count and the pool a
count of zero, which is what `ImplementsQueue` and `CountsOwners` allow.

*Undefined behaviour.* When the code goes on with a reset index or pointer, or
drops a reference nobody has, `wild` says which, and the model stops.
`InUseNotFree` says that dropping too many never happens where drains are queued, and
`finding_index_pulled` shows a reset index in use. Besides, `wild` is "reference" when the buffer
found for a reference went back to the pool before it is used (1317), and
"buffer" when a thread outputs a buffer whose state names none, as it is not yet
initialized or cleared already (987).

*Left out.* Commands for stream parameters, slices, macroblock structures,
`Halt` and the aborting of commands, and the codecs' own parameters.

## 3. The runs

| Run | Shows | Bounds |
|---|---|---|
| `timerd_core` | `TypeOK`; `RecordingHasStopper`: a started recording of a timer with an end has a running timer with a stop time; `FiredWithinCount`; `TimersSurvive`: a timer that was in the file is in it at every start | 2 timers, time 0..4, 3 commands, 1 restart |
| `timerd_adverse` | what holds even with a shutdown during the load, a power cut inside a write and the reschedule command: `OnlyUnknownIsEndless`: only a timer of an unknown repeat kind catches the thread in Reschedule, `DiskCurrent`, `PassComplete`, `NoDuplicates` | 2 timers, an unknown repeat value among them, time 0..3, 3 commands, 1 restart |
| `timerd_liveness` | `AlarmsAreHandled`, `RecordingsEnd`; `ChangesAreSaved`: timers and margins reach the file; `ShutdownEnds` | 2 timers, 2 margins, time 0..3, 2 commands, 1 restart |
| `calendar` | `StaysOnCalendar`, `SameHour` and length, `NoneLeftOut` | six months of 28 to 31 days, both changes of the clock, eight repeat kinds, hours 0, 1, 13, 23 and 2, which summer time leaves out once and repeats once; the 31st among the days |
| `bpamem` | `Exclusive`, `LentOnce`, `NothingLost`, `MappedIsLent` | 3 processes, 3 devices, 2 page ranges, one of others' mapped with MAPMEM, failing copies, dying processes |
| `ring` | `ImplementsQueue`: it refines a bounded queue; `NoLostWakeup`; `FullRingDrains`: a full ring that looked empty is drained all the same | 2 producers that also flush, 1 consumer, 2 values, 3 entries |
| `bufferpool` | `InOnePlace`, `CountsOwners`, `NeverDead` | 2 threads, a pool of 2 coded frames and one of 1 decode buffer, up to 2 references of a thread to a buffer, 2 slots for guests, memory that fails |
| `allocator` | `ConservedInTurn`: no byte lost or in two places; `Coalesced`, `WithinBoundary`, `WakesAllocator`, `DeletionEnds` | 11 bytes from address 2, units of 2, a boundary every 6 (so two of them inside), a table of 3 entries, requests of 1 and 3 bytes, 2 threads |
| `codec` | `DecodedBeforeOutput`: no decode is under way or about to start into a buffer that was passed on, and it is passed on once; `InUseNotFree`: no buffer in use is in the pool; `NewFramesKept`: a discard spares later pictures; `MarkerBehindDecodes`, `NoMarkerLeft` | 2 decode buffers, 2 commands (frames that are references and read one, and fields) where drains are queued and 1 where they are direct, 2 markers, 1 drain, 2 failures |

*Why the bounds are enough.* Two timers are the fewest with which a pass visits
one and deletes another, a load gives new ids, and a deletion disturbs the
iterator. Three commands are an add, a change and a shutdown, or two changes of
one timer. The timers that clients ask for are a recording, a
repeating one, a zap whose weekdays were all cleared, and a recording without an end
whose repeat value nobody knows; they begin at instant 1 or 2 and end at 3
at the latest, so that announcement, alarm, stop and a repetition, and alarms
missed while the box was off, all happen by instant 4. One restart meets files written by a complete
run. Three
processes and devices let one reserve while a second releases and a third dies;
two page ranges make the partition run out while devices are left. `bpamem`
uses symmetry: neither the processes nor the page ranges are told apart by any
action or property; the devices are, as the search takes the lowest.

A ring of three entries has four slots: it wraps, is empty, full, and in
between; a second producer comes between the advance and the taking back of the first
only when it has no mutex, which the model shows it has. Two threads are what
the drop of the last two references needs; a decode buffer carries both coded
frames, so that a release nests and one of the guests can still be held
elsewhere. Both threads are alike to the pool, and so are the two coded frames:
symmetry. Eleven bytes with two boundaries inside make blocks that may and
that may not be joined; the last unit is one byte short, as in a pool whose
size is no multiple of the unit; a table of three entries overflows.

Two commands let one be decoded and one be prepared, or be the two fields of a frame. A
picture that fails before its command is counted leaves the number to the next, so that
up to four pictures are input; two failures are a failure and what goes wrong
in its wake. Two decode buffers make Input obtain one that was just given back; a
second marker meets the first one still held; the drain and the failures
fall between any two steps. Where the drain is direct its races come with the first
picture. The buffers are alike to the codec: symmetry.

*The switches.* `Diffs = {}` in most runs: the reschedule command is served by
the daemon, but no caller in the repository sends it. `EarlyShutdown` allows
a shutdown before the timers are loaded, `CutWrites` a power cut within a write:
which properties do not hold with them is among the observations below, and the
passing run states what holds without.

*Deadlock* is checked in `timerd_core`, `timerd_liveness`, `bpamem`, `ring` and
`bufferpool`. In `timerd_adverse` the server really may stop, waiting for the
mutex of a cancelled thread (`finding_shutdown_hangs`), and in `calendar` the
instants of the model come to an end. In `allocator` threads wait for memory that nobody gives back,
and in `codec` the pictures come to an end, or the code has gone astray (`wild`).

*Fairness.* Weak fairness of the steps of the timer thread, of the writer and
of the server: both threads are scheduled, and their steps do not depend on
anyone else but the mutex. Strong fairness of the cancellation: each round of
the timer thread passes through its sleep, a cancellation point, so the request
that is pending acts although it is disabled in between. Nothing forces a
command, the clock, `timeset` or the end of the power. `AlarmsAreHandled` and
`RecordingsEnd` rely on a further fact: a deletion may make the iterator skip
timers, but each pass that does deletes one, and only finitely many are added.
In the code the wait of a pass is 20 s; the model has no real time.

### Findings

Each of these runs ends with a counterexample of one property that states what
a text of the repository says.

| Run | What happens | What is said |
|---|---|---|
| `finding_shutdown_hangs` | a thread cancelled in the save after the load keeps the mutex; shutdown saves before it tests for that | TM:680-683 "error: mutex is still LOCKED", return |
| `finding_free_race` | a Free changes the table between another's reading of the index and its mutex: the second stores its block over one in use | `allocator_simple.cpp:327-331` "this loop does concatenation of free blocks as well as freeing the current block" |
| `finding_index_pulled` | the callback of a decode compares the index of the buffer being filled and resets it after Input has gone on to the next buffer: Input uses `BufferState[INVALID_INDEX]` | `codec_mme_base.cpp:1174-1175` "if we are releasing a decode context due to a failure, then it is possible this can result in invalidation of the current decode index"; there is no failure in the run |

Observations that need no run of their own:

- With the switch `EarlyShutdown` (a shutdown while the file is still being
  loaded, after a client added a timer) or `CutWrites` (a power cut after the
  truncation) `TimersSurvive` is violated; `doku.html:12-13` says that timers
  survive shutting down, reset and power failure. `timerd_core` checks it without
  them, `timerd_adverse` what holds in spite of them.
- A client that stops a timer it saw before another client removed it brings a
  repeating one back: stopEvent overwrites TERMINATED (TM:270), whatever TM:253-254
  says ("set the state to terminated / so timerthread will do the rest for us").
- Margins stored between the collecting (TM:649) and the clearing of the flag
  (TM:656) are in no file and no save is pending for them, although TM:754 has "also
  saves extra times". `ChangesAreSaved` says that margins stored in the wait for a save
  reach the file, and does not speak of those.
- A recording without a stop time, which nhttpd may add (`controlapi.cpp:1771-1777, 1861`), is
  started and finished at once (TM:150-151); nothing in timerd stops it.
- A repeat value that no case knows (`controlapi.cpp:1868-1870` forwards any number;
  TD:289-313 passes it on, and TM:228 and 326 replace the bare 0x100 alone) catches the timer thread in Reschedule for
  ever, with the mutex held and cancellation disabled (TM:831-879), so that the server hangs on its
  next command; after a restart the saved timer may do so again.
- CMD_MODIFYTIMER reads the type of a timer after the mutex was given back (TD:218),
  when it may have been deleted.
- Monthly on the 31st: the day moves into the next month and stays there
  (`doku.html:108` "jeden Monat am selben Tag des Monats"). Daily at 02:00: the
  first day of summer time moves it to 01:00 for good (`doku.html:96` "jeden Tag
  zur selben Zeit"). The properties of `calendar` name both exceptions.
- A buffer whose memory cannot be allocated never returns to its pool
  (`leaked` in `BufferPool`).
- GetBuffer clears an abort that another thread has not seen yet.
- `TotalAllocatedMemory` of a pool is not changed when a buffer shrinks or is extended.
- Where the draining thread outputs the partial buffer itself
  (`player_playback.cpp:991`), it may do so between the obtaining of the buffer
  and the count of its decode: the buffer is shown before it is decoded. This is why
  `DecodedBeforeOutput` and `InUseNotFree` speak of such codecs only until the drain.
- The callback compares its context with `DecodeContext` (1234) and resets the
  pointers afterwards: when Input has obtained the next context by then, it loses
  it (`wild = "context"` is reached).
- When FillOutDecodeCommand or the send of a frame's first picture fails, its buffer is passed on
  although nothing was decoded into it (`player_process_parse_to_decode.cpp:240-243`).
  `DecodedBeforeOutput` allows it: it is about decodes under way.
- A command that cannot be sent stays counted as prepared: from then on one
  picture too many is discarded by a drain, and a marker waits for one that
  never comes. `NewFramesKept` counts the failures, `NoMarkerLeft` excludes them.
- A marker that takes the place of one still held may be passed on before its
  pictures: the callback's test was about the first. So `MarkerBehindDecodes` is
  about the first marker only; the player sends the next when the last has arrived.

## 4. The proofs

All are for any constants that satisfy the assumptions named in the modules:
any number of timers, processes, devices, any time and number of commands.

*timerd.* `TypeCorrect` proves `[]TypeOK`. `TypeOK` is not inductive: a step
that looks at `events[cursor]` needs a timer there, and the periods by which an
alarm is late have to be a natural number. `TInv` (in `TimerdProofs`) adds
`CursorOK`, that the timer to visit or to load exists, and `ClockOK`,
that a pass began in the past. The first part of `TimerdProofs` has the lemmas on the
operators of one timer: each returns an event, `Shift` carries an alarm beyond
the present, a visited timer is no longer due.

`OnlyUnknownCatches` proves `[]OnlyUnknownIsEndless`, for any repeat values: the
thread is caught only by a timer that is neither once nor periodic (`CaughtOK`), and a
bare "weekdays" is in none of the places timers are kept in, as they go round: the map,
the snapshot being written, the file, and what is being loaded (`AllReduced`). A
repetition that Reschedule knows always gets beyond the present.

`FileIsCurrent` proves `[]DiskCurrent`, from mutual exclusion: `LockOK` says
that whoever writes or is in a pass holds the mutex and that the server saves
only when the other thread is dead; `SnapCurrent` follows, that what is being
written is what the map holds, up to the end of the write. Commands that
change the map without asking for a save (remove, stop) leave a mark which
`Matches` allows.

`NothingDueBehind` proves `[]PassComplete` from the same mutual exclusion and
the lemma that a visited timer is no longer due.

The second half of `TimerdProofs` has the remaining invariants of the runs. All but
the first of them hold only in an orderly box, `Orderly == ~EarlyShutdown /\
~CutWrites` (the observations name the rest), and the last two only as long as nobody sends CMD_RESCHEDULETIMER (`Diffs = {}`; it would
take a running recording back to "scheduled").

- `NoTimerDoubled` proves `[]NoDuplicates` in any box. `OneOfEach` says the
  same of the map, the snapshot, the file and what is being loaded, and that
  the map and what is still to be loaded have no timer in common.
- `NoTimerLost` proves `[]TimersSurvive`. `DurableKept` follows the timers owed
  to the user: in the file, unless it is being rewritten; in the map, once they
  are loaded; in the map or ahead of the iterator, in between. It needs
  `SnapCurrent` for the end of a write and `DiesIdle`: an orderly shutdown
  cancels the thread while it writes nothing.
- `FiresWithinCount` and `RecordingsStoppable` prove `[]FiredWithinCount` and
  `[]RecordingHasStopper` from `AllSound`: of each timer, wherever it is kept, that one
  which was given an end has a stop time, and that the firings so far and those the count
  still allows are within the budget, one less while it is armed. For
  recordings there is `FreshOK` besides: a new timer never takes the place of
  one that records.

*calendar.* `DaysKept`, `HourKept` and `NextDayTaken` prove the three invariants
of `TimerCalendar` for any lengths of the months (none is empty), any length of a
day, any beginning and end of summer time, any kinds, days and hours. What is
left to assume is that the calendar outlasts the instants at which timers are
rescheduled by two months (`HorizonAssumption`). `NoneLeftOut` is about the end
of the loop; `NoneSoFar` is the same of every round, and it needs the other two:
from a day of the calendar, at the timer's hour, `CalendarNext` has the next
day and that none lies between, `RoundArrives` that the round gets there, across
a change of the clock too, and `LocalOrder` that local time does not go back, but
at the end of summer time. Induction over data is avoided: `FirstDay` has a value, months
follow one another and the search for a weekday ends because a least
counterexample would have a smaller one (`LeastNat`).

*bpamem.* The conjunction `Inv` of the five properties and `StepOK` is
inductive; `StepOK` says which device each step of a process speaks of.
`BPATyped`, `DevicesExclusive`, `PagesLentOnce`, `PagesAndDevicesKept` and `MappingsLent`
are its parts. `LentOnce` and `NothingLost` need each other: that the pages
given back are not behind another device, and that a device found unused is
nobody's.

*rings.* `RingTyped`, `RingIsQueue` and `RingWakes` prove the type invariant, the
refinement of `BoundedQueue` and `NoLostWakeup`, for any number of producers,
values and entries, the last one for a ring with one consumer, as all rings
between the player's threads have. The refinement rests on `LockOK`: who
holds the mutex stands between advance and
commit, and the index it advanced is the one after `OldNextInsert`. Its lemmas
say what an insert, an extract and a flush do to `Contents`: append, tail,
nothing. A step of the ring is a step of the queue or leaves it alone.

*buffer pools.* `PoolInv` is the conjunction of `TypeOK`; `CallsOK` and
`AttachOK`, which say what a thread has in hand at each step and that no buffer
is its own guest; `CountOK`, that a count is the cardinality of the set of
owners; `PlaceOK`, where a buffer is; and `DeadOK`, that who works on a buffer
owns a reference. They need each other: a count that is the number of owners
makes a thread that dropped it to zero the only one, and only who is alone with
a buffer may put it into the ring. `PoolTyped`, `PoolCounts`, `PoolPlaces` and
`PoolAlive` are its parts.

*memory of a pool.* `AInv` follows the bytes. `Places` are where memory can be:
an entry of the table, the hand of a thread that frees, what its buffer keeps, a
block of a buffer, a lost block; `Region[p]` are the bytes at a place. `Disjoint`
says that no byte is at two places, also after a Free was overtaken, `Covered`
that none is at no place, as long as none was. A step moves memory between
a few places, and two lemmas, `Moved` and `MovedAll`, reduce the invariant to
those. `MemoryType` has the blocks of every place in `Proper`, those that no
boundary divides; `ApartOK` says that no two entries could be one. The
scan needs `ScanOK`: none of the entries already seen is next to the block,
although the block grows while the scan goes on. When it grows by an entry, what
is next to the new end would have been next to that entry, which `ApartOK`
excludes. `Disjoint` is what keeps `ApartOK` when an allocation moves the
start of an entry: the entry below would end inside the block that was taken.
That `Init` cuts the buffer properly is arithmetic: every byte is in the entry
of its segment, `SegmentBytes`. `TypeCorrect`, `MemoryConserved`, `FreeMemoryJoined`,
`NeverAcross` and `NeverAsleepBeside` are the parts; the last rests on `FittingFound`,
that an entry which is large enough gives both searches a result.

The assumptions are those of `SizeAssumption`: a pool with memory, a boundary
and a unit that are not zero, and a table large enough for the pool cut at the
boundaries, as the constructor's loop supposes.

*codec base.* `CountInv` has the types, which step of which thread uses which
buffer (`PlacesOK`), and the order of the numbers: `OrderOK` says that a prepared
picture is completed, with the engine or failed, and bounds the number of the
first command that has not ended. From it follows `NewFramesKept`. For markers,
`HeldOK` says that whenever a marker is due some thread is between its two tests
or before them; `MarkerBehindDecodes` and `NoMarkerLeft` follow (`TypeCorrect`,
`DiscardsOnlyOld`, `MarkerWaits`, `MarkersPassedOn`).

`OwnInv` counts owners. The decodes that still have to report to a buffer are
`Waiting(b)`, those that read it `Reading(b)`, sets of the numbers of pictures;
`Obtained(b)` says that somebody has the reference the buffer was obtained with:
who fills it, a thread about to output or to discard it, its decodes, the output
ring. `WaitsCounted` and `OwnersCounted` say that the code's counts are not below
the number of these. They are inequalities: after a command that could not be
sent the counts stay too high, which leaks a buffer but gives none away, and
`InUseNotFree` needs no more. They need `StateOK`, that a buffer is passed on or
discarded once and decoded then, and `IndexOK`, that the index which others
reset is never another buffer's. `StateOK` has also that a buffer in the pool is cleared,
and `FreshOK` that no decode is under way into the one about to be initialized, so
that the clearing forgets none. `OutputDecoded` and `BuffersInUse` are its
parts; that a buffer passed on was decoded into at all is not claimed. All of `OwnInv` is about drains that are queued, or the time before the
first one: where the draining thread outputs partial buffers itself the
property is not claimed.

*Only model-checked*: all liveness, `DeletionEnds` and `FullRingDrains` among it,
which is out of the prover's reach under fairness. Every invariant of the
passing runs is the subject of a theorem.

## 5. The plan

Done: the timer daemon's core, its calendar, bpamem, the infrastructure of
the player (rings, buffer pools and their memory) and its codec base.

Next, extending the model:

1. `PlayerStream`: the threads of a stream over `BoundedQueue`, with the markers
   of a drain, the discards, and the reordering between parser and manifestor.
2. `EventDelivery`: timerd's mutex held over `connect` to a client with a full
   backlog, the client waiting for timerd; neutrino's message queue.
3. `TimerdClients`: sleep timer and overlap test as two commands each.
4. `PictureBuffers`: the picture viewer's two buffers over `BPAMem`, with its
   error paths.
5. `Aotom`: the draw queue of the front panel.
6. `DvbLoopback`: forwarded ioctls with time-outs.
7. `Playback` of libeplayer3 and the recording mode of zapit.
8. The MME command queue of multicom.

Then, proving: the invariants of these modules, and what the theorems about the rings and
about the buffer pools give together for a stream.

## 6. Not modelled

Vendored and third-party code (wireless drivers, multicom, vdr, libdvbsi++, the
parsers), build support, register access, page generation and drawing: nothing
of their own that a state machine shows. Of neutrino, zapit and sectionsd the
modules listed in the plan are missing. Each part is named in `PROJECT.json`
with the reason.
