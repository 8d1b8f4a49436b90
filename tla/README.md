# Veejay in TLA+

A model of the parts of veejay (the live video instrument in
`src/veejay-current/veejay-server`) whose correctness depends on the order in
which things happen: its worker pool, its playback engine with the threads and
signals around it, the playing of samples and sequences while they are edited,
the reader of network streams, the message ring, the VIMS server, and the
frames it shares with other processes. TLC checks the models on small
instances, TLAPS proves the invariants for all instances.

Paths below are relative to `src/veejay-current/veejay-server`.

| file | what it is |
|------|------------|
| `TaskPool.tla` | the worker pool of `veejay/vj-task.c` as `libvjmem/memcpy.c` uses it |
| `ForkJoin.tla` | what a user of the pool may rely on: the abstract specification |
| `TaskPoolProofs.tla` | the proofs about the pool, with the refinement |
| `Playback.tla` | the engine of `veejay/liblavplayvj.c` and the loop of `veejay/veejay.c` |
| `PlaybackProofs.tla` | the proofs about the engine |
| `SamplePlay.tla` | samples, markers, loops, the sequencer, the events on them |
| `MCSamplePlay.tla` | the values for TLC |
| `SamplePlayProofs.tla` | the proofs about samples |
| `NetStream.tla`, `NetStreamProofs.tla` | a stream from another veejay (`libstream/vj-net.c`) and its life cycle in `libstream/vj-tag.c` |
| `MsgRing.tla`, `MsgRingProofs.tla` | the lock-free log of `libvjmsg/vj-common.c` |
| `MessageLog.tla` | what a log promises: the abstract specification of the ring |
| `VimsReceive.tla`, `MCVimsReceive.tla` | receiving VIMS messages on one port (`libvjnet/vj-server.c`), the values for TLC |
| `VimsReceiveProofs.tla` | the proofs about receiving |
| `VimsLinks.tla`, `VimsLinksProofs.tla` | the links of the three ports, status lines and frames sent to viewers |
| `SharedFrames.tla`, `SharedFramesProofs.tla` | frames in shared memory (`veejay/vj-shm.c`, its reader `livido-plugins/lvd_shmin.c`) |
| `*.cfg` | one per run |
| `PROJECT.json` | components, runs, the mutants, the lines each definition models, findings, hazards, theorems |

A definition that a comment starts with "Wrong:" is no part of a specification:
it is the mutant of the definition it precedes, the same code with a plausible
bug, and shows that the property named with it in `PROJECT.json` would notice.

## 1. Inventory

### The system

Veejay plays a video (plain mode), a sample of one, or a stream, applies chains
of effects, and sends the result to a display, a file, shared memory or another
veejay. It is steered while it plays by VIMS messages, over TCP or OSC, and by
keys.

```
   VIMS clients ---> VIMS server ---> event dispatch ---> samples, streams,
   OSC, keyboard ------------------------^                 effect chains, engine
                                         |                      |
   main (signals, polling)               |                      v
      |                        playback thread P  <----  performer: decode, effects,
      | state                   renders a frame           fades, recording
      +----------------------------> | valid[0], buffer_entry      |       ^
                                     v                             v       |
                              screen thread S              worker pool   readers: network,
                     display, file, shared memory, ...    (memcpy.c)     V4L2, files, caches
```

P handles the events itself, between two frames, so that most of the state
(samples, chains, sequencer) belongs to one thread. What several threads share
is little: the queue of one frame between P and S, `settings->state`, the tasks
of the pool, the message ring, and the buffers of the capture and network
readers.

### Components

State, operations and hard behaviour of each, and what would make it correct.
*M* is modelled, *p* is planned (section 2), *-* is left out (section 6).

| | component | state | operations | interacts through | what is hard; when it is correct |
|-|-----------|-------|------------|-------------------|-----|
| M | thread pool (`veejay/vj-task.c`, `libvjmem/memcpy.c`, `vj-x86.c`) | task list, `tasks_todo`, `tasks_done[]`, `exitFlag`, static argument slots | `task_start`, `vj_task_run`, `performer_job`, worker loop, `task_stop` | `queue_mutex`, two condition variables | one signal for *n* tasks, an `if` around a wait, static slots read without the lock. Each slice runs once, with its own arguments, before the call returns; a stop ends all workers |
| M | playback engine (`veejay/liblavplayvj.c`) | `valid[0]`, `buffer_entry[0]`, `currently_processed_entry`, `state`, frame, speed | the cycle of P, the loop of S, corrections of audio and video, `veejay_close` | `valid_mutex`, `buffer_filled`, `buffer_done` | two threads and one buffer; S is cancelled asynchronously. No frame is touched while it is shown, nobody waits for ever, a stop ends all |
| M | main and signals (`veejay/veejay.c`, `veejay_handle_signal`) | `state` | the polling loop, the handler, `veejay_busy`, `veejay_free` | `state`, `valid_mutex`, `pthread_join` | a handler that locks a mutex, a state written by everyone. A stop ends in main's exit unless an event takes it back, the handler returns |
| M | sample playback and sequencer (`vj-perform.c`, `sampleadm.c`, `vj-event.c`) | samples (points, markers, speed, loop type, dups), `info->seq`, frame | frame advance, change of sample, VIMS events on samples | the playback thread alone | points, markers and speeds change one at a time under a sample that plays; the speed is kept twice. Frames stay inside the sample, loops loop, the sequencer visits its slots and holds no deleted sample |
| M | network stream reader (`libstream/vj-net.c`, `libvjnet/vj-client.c`) | `t->state`, `have_frame`, `buf`, the socket | start, reader loop with reconnect, `get_frame`, stop | a mutex per stream | compressed frames are received without the mutex, uncompressed ones under it while the network delivers, and a stop waits for nobody. A frame that is converted is whole, none is lost, a stopped reader ends, P always gets on |
| M | stream administration (`libstream/vj-tag.c`), of network streams | table of streams | create, activate, disable, delete | calls to the readers | life cycles of readers. No reader outlives its stream |
| M | message ring (`libvjmsg/vj-common.c`) | ring of pointers, atomic positions, semaphore | log, fetch, switch on and off | atomics | places reserved before they are filled. No message is lost, repeated or stuck, nobody spins for ever |
| p | YUV4MPEG writer (`libstream/vj-yuv4mpeg.c`) | frame, flag, mutex, condition | start, put frame, writer loop, stop | the condition | signals that nobody waits for. The writer ends when stopped |
| p | V4L2 capture (`libstream/v4l2utils.c`) | double buffer, status, lock | capture loop, get frame, controls, stop | a lock | exits that leave the lock held |
| M | VIMS server (`libvjnet/vj-server.c`, `vj_event_update_remote`) | links, one receive buffer per port, queues of messages, `rlinks` | accept, poll, receive, verify, parse, retrieve, close, send | TCP, the round of P, S sends frames | messages in pieces, a shared buffer, links assumed equal on three ports. Every complete message is executed once, in order; who leaves is forgotten; a request for a frame that is queued is answered |
| p | frame cache (`libel/elcache.c`) | slots, total size | cache, get, reset, free | the edit list | eviction, total. What is returned is what was cached for that frame |
| p | memory pool (`libvevo/pool.c`, `vevo.c`) | magazines of spaces | alloc, verify, free | - | blocks handed out twice |
| p | edit list (`libel/vj-el.c`, `veejay_edit_*`) | frame list, files, user counts | cut, copy, paste, add, save | samples | overlapping ranges, files still in use |
| M | shared memory (`veejay/vj-shm.c`, `vj-share.c`, `lvd_shmin.c`) | files, segments, a process-shared rwlock | create, write, read, remove | other processes | files tested before they are created, processes that die with the lock or half way. No frame is torn, nothing is left that nobody finds |
| p | recorder (`libsamplerec/samplerecord.c`, `vj-tag.c`) | frames to go, encoder | start, record, stop | performer | a sample deleted while it is recorded |
| p | event dispatch (`veejay/vj-event.c`, `vj-eventman.c`) | bundles, macros | some 400 events | everything | the events on the engine and on samples are in the models of those |
| - | performer (`vj-perform.c`) | frame buffers, fade counters | render | - | pixel work; how it moves the frame is modelled |
| - | sample administration (`sampleadm.c`) | chains, parameters | load, save, edit chains | - | lookup and XML; the fields that steer playback are modelled |
| - | OSC, key frames, viewport, fonts, outputs, audio, decoders, effects, plugins, colour spaces, compression, older capture drivers, multicast, reloaded, sendVIMS | | | | see section 6 |

The `hazards` of `PROJECT.json` list, line by line, what can go wrong in these
and a test would hardly reach, with the properties that cover it.

## 2. Plan

Done: **TaskPool** with **ForkJoin**, **Playback**, **SamplePlay**,
**NetStream**, **MsgRing** with **MessageLog**, **VimsReceive**, **VimsLinks**
and **SharedFrames**, and proofs about each of them. What would come
next, in the order of how much of the concurrency each adds:

1. **Y4MWriter** and **V4L2Capture** (`vj-yuv4mpeg.c`, `v4l2utils.c`): a writer
   and a capture thread with their start and stop.
2. **ElCache**, **VevoPool**, **EditList**: sequential data structures with
   invariants (no frame twice, sum of sizes, users of a file).
3. The recorder, with the samples and streams it records from.

The modules meet at these places. P's cycle (Playback) calls the pool
(TaskPool), takes frames from streams (NetStream's `GetFrame`), advances the
sample (SamplePlay), and runs a round of the server (VimsReceive, VimsLinks)
between two frames; S shows the frame, fetches from the ring (MsgRing), answers
viewers (VimsLinks' `Display`) and writes to shared memory (SharedFrames'
`Write`). Each module assumes of the others what their runs show: that frames
flow (`FramesFlow`) is the fairness of SamplePlay and of `Display`, and what
`FramesCome` supposes in the ring, where a playback thread that pauses, or spins
in the log, hands over no frame; that what is read on a link is whole messages or closes it
(VimsReceive) is the data of VimsLinks; that a call of the pool is one step of
its caller (ForkJoin) lets Playback treat it so.

## 3. The models

### TaskPool

One process uses the pool (P or S, which never use it at once: section 5), *N*
workers serve it. `ppc` is where the user is in `task_start`, `vj_task_run`,
`performer_job` and `task_stop`, `wpc[w]` where worker *w* is in `task_thread`
and `task_run`. A critical section of `queue_mutex` is one action;
`pthread_cond_wait` cuts it in two. A signal of `current_task` wakes one
waiting worker of any choice, or nobody; waits may also end spuriously
(`SpuriousWorker`, `SpuriousCaller`).

| actions | code |
|---|---|
| `StartThread`, `StartDone`, `StartFail` | the loop of `task_start`; `pthread_create` may fail |
| `Prepare`, `Submit`, `Check`, `Recheck`, `Clear`, `Return` | `vj_task_run` and `performer_job`, from filling the argument slots to zeroing them |
| `Unavailable` | `vj_task_run` without workers |
| `Get`, `Sleep`, `Handle`, `Report`, `Exit` | the loop of a worker: take a task, wait, run the handler outside the lock, count it, leave |
| `Stop`, `StopNothing`, `Joined` | `vj_mem_threaded_stop`, `task_stop` |

`args[t]` is the number of the call that filled in slot *t* (0: zeroed), which
is what tells one call's arguments from another's. A handler is the bytes of
one plane it works on (`Slice`).

`ForkJoin` is the promise: a call begins, each task runs once, the call
returns, and the pool may be closed between calls. `TaskPool!Implements` is its
specification under the mapping of `ppc` to `phase`.

### Playback

Three threads: P (`ppc`), S (`spc`) and main (`mpc`). One action per critical
section of `valid_mutex` or per access to `settings->state`, which is read and
written without a lock. The queue has one entry, as in the code (`QUEUE_LEN`
is 1).

| actions | code |
|---|---|
| `Render` (with `MoveFrame`), `QueueBuf`, `CheckState`, `SyncBuf`, `EventsDone`, `Fill`, `FillRepeat`, `FillSkip` (with `NextEntry`) | one round of `veejay_playback_cycle` |
| `Quit`, `Suspend`, `SetSpeed`, `SetFramedup`, `SetFrame` | the events that P may handle in a round, any number of them in any order |
| `Cancel`, `JoinScreen`, `FreeOutputs` | `veejay_close` and the end of `veejay_playback_thread` |
| `Top` .. `Clear` | the loop of `veejay_mjpeg_playback_thread` |
| `DisplayFails` | `veejay_screen_update` returning 0: the frame is not shown |
| `Die` | the asynchronous cancellation of S: it dies where it is |
| `Signal`, `Handler`, `Poll`, `Busy`, `Free` | main, its handler, `veejay_busy`, `veejay_free` |

`mutex` is only ever held across steps by S (its critical sections contain a
read of `state`, which others write) or by the S that died with it.

P tells S that a frame is new by `entry`, the number in `buffer_entry[0]`
(`NextEntry`): a bit that is turned every round or, when the speed is 0,
`pause_render` is set and `sfd` is not, the number of the video frame. S marks
the one it showed last in `processed`. Three history variables relate this to
what was rendered: `picture` is the frame number of the last rendering, `fresh`
says whether an output has shown it (`no` new picture, `new`, `failed`), and
`odd` marks the rounds in which `entry` may be one that S has marked for another
frame: after a skip, which turns the bit twice; for a frame number that is 0 or 1
as the bit is, or that stands for a round in which nothing was rendered; and for
the round that follows one of these unseen.

Abstractions: veejay plays in plain mode; a frame is a number; the speed is 0
or 1, and with slow motion (`sfd`) a frame comes any number of times;
`sync_skip_frames` and `sync_ins_frames` have their defaults, so that a
correction of audio or video (`FillRepeat`, `FillSkip`) may come in any round,
which leaves the clock out of the model; signals are delivered to main (POSIX
lets any thread take them); shared-memory output stands for all uses of the
pool by S.

### SamplePlay

One thread, in sample mode. `player` is the playing sample, its frame and speed
and the bank of samples; `seq` the sequencer. Functions of the code that change
the player are operators from player to player, composed as the code composes
them: `SetSample` is `veejay_set_sample`, which calls `ChangeTo`, `Stop`,
`Start`, `SetSpeed` and so on, with every clipping and refusal
(`veejay_set_speed` refuses a speed that is longer than the sample, and
`veejay_set_frame` clips to the points of the mode). `Advance` is
`vj_perform_queue_frame`; `Outcomes` is a set, because random loops draw a
frame. Every event is an action with the checks it makes, right or wrong.

Abstractions: `cycle_count` is its parity `tick`, which only serves to tell
the frames that are played from events; `loop_dec` and `seq->size` matter as
zero or not. `GotoFrame` stands for the events that set the frame (skip,
previous, next, first, last); `Create` makes a sample of the whole video.
Left out: the randomizer, `hold_frame`, samples of pictures (`play_length`),
mix offsets, `rel_start`, loop counts, the frame cache, and the plain and
stream modes. A sample loaded without markers has both at 0.

When `sample_restart` is off (`PlayNoRestart`) a sample resumes where it was
left, which under the sequencer is past its end: it then plays one frame per
turn. That is what the code does and no property excludes it.

### NetStream

`reader_thread` as a process for each of the threads that a stream may have
(`pc`), and the playback thread in this stream's functions (`ppc`). `t` is the
`threaded_t`: `state`, `have_frame`, `bufsize`, whether `buf` is allocated, and
whether the planes that `net_thread_get_frame` keeps in `a` after its first
conversion are in that buffer (`a`: none yet, here, or elsewhere); `mutex` has an
owner and may be destroyed, after which it refuses to be locked and nobody
looks at the result. A critical section is one action, unless something that
waits or writes the buffer is inside: receiving (`Receive`), decompressing
(`Decompress`) and converting (`Convert`) are steps with the mutex taken before
and released after.

| actions | code |
|---|---|
| `Connect`, `SetRunning` | the beginning of `reader_thread` |
| `Request`, `Spin`, `PollReadable`, `ReadHeader` | asking for a frame, the poll (with its `continue`, a stutter), the header |
| `LockBuffer`, `Allocate`, `Receive`, `LockToUnpack`, `Decompress`, `Publish` | the frame: compressed or not, what is done under the mutex differs; `Allocate` is the `realloc`, which for a compressed frame is done without it |
| `LoopEnd`, `Retry`, `Exit` | the end of the loop, `NETTHREADRETRY`, `NETTHREADEXIT` |
| `Answer` | the other veejay answers or closes the connection |
| `Play`, `Activate`, `GetFrame`, `Disable`, `LeaveInactive`, `Delete` | the functions of `vj-tag.c` and their callers |
| `LockFrame`, `Convert`, `NetStop` | `net_thread_get_frame`, `net_thread_stop` |

`crowded` remembers that two readers of the stream were alive at once, which
the code allows: a stream is disabled and played again while its old reader is
still on its way out, or played although it is active already. Then both use
one buffer and the mutex is initialised anew, so that the properties about the
buffer speak of streams that have had one reader at a time. `grown` remembers
that the buffer was enlarged since `a` was set: `realloc` may then have moved it,
be it during a conversion, and `a` is not set again. A header that does not
arrive publishes nothing: the `ret` that is tested there is that of the inner
block, and the connection is retried. Abstractions: a frame is its size
(`MaxSize`); the other veejay answers every request or closes the connection; what a reader does with memory that was freed is not
modelled (its steps end).

### MsgRing and MessageLog

One action per atomic operation of a thread that logs (`Reserve`, `Fill`,
`Post`) and of the screen thread (`screen`): the playback thread (`Player`, one
of those that log) hands it a new frame (`Hand`), it shows the frame and, with
the log on, tries for one message (`Update`, `TryWait`, then `Miss` or `Take`).
Nothing else fetches, so that nothing leaves the ring while the playback thread
pauses or spins on a full ring itself: it hands over a frame, and handles the
event that switches the log on and off (`Toggle`), only between two calls of the
log. Positions are counted
modulo the size, as in the code; that a counter of 64 bits wraps at a number
that 5000 does not divide is not modelled. `missed` counts the fetches that
took a token and found their place still empty, each of which leaves one
message behind in the ring until enough others are logged: `NotStarved` says
that this is bounded. `MessageLog` is the promise, a set of messages that wait
and a set of those shown; `LogSpec` is its specification of the ring's messages.
Not modelled: the screen thread itself logging a message, and the destruction
of the ring at exit.

### VimsReceive

One TCP port. A message is a row of cells <<client, number, position>> that
stand for its bytes: the first for its letter (V, K or D), the second for the
header with the length and the netid, the last for the semicolon. `Letters`
are the other cells that have the value of a letter (the D of a header, a capital
in a text, any byte of a packet of key frames, but never a semicolon), for
`FirstByte` lets in by value. A row of bytes inside a message that has the form
of a whole message is not modelled. TCP keeps
the cells of a client in order and delivers them in pieces of any size
(`Receive` takes any number up to `RecvSize`). `buf` is `recv_buf`: it belongs
to the port, not to the link, and keeps the cells of earlier messages, which
the verification (`Found`) may meet when it reads beyond what was received, as
it may, because the first byte is not counted. What a client sends is its script
(`Script`) of messages of more than two cells each: `Ends` says where each of
them ends, `Wire` which cell is at each place. Both, and the walk of `Found`
from message to message, are recursive or positional functions, so that they can
be reasoned about.

| actions | code |
|---|---|
| `Connect`, `Send`, `Leave` | clients |
| `Poll` | `vj_server_poll`, `vj_server_new_connection` |
| `FirstByte`, `Receive` | the two `recv` of `vj_server_update` |
| `Update` | verification, parsing, retrieving, executing, closing |

`torn` holds the clients of whom a read ended within a message; what happens to
them is in the model (they are closed; a packet of key frames, of which only the
header is verified, is executed with whatever the buffer held), and the
properties say what holds for the others. One thing a cut does to everybody: when
the last byte of a packet of key frames is left alone in the socket and looks
like a letter, it is let in, and P waits in the next `recv` for what nobody has
sent (`EndOfCutKeys`, `Blocked`).

### VimsLinks

The three ports and who has which link of each (`slot`), with the round of P:
poll, accept one connection per port, read the command links, then the data
links, then send the status. Every place that closes a link closes links of the
same number on other ports (`Hangup`), whoever has them. `rlinks` is the queue
of links that asked for a frame, which S empties when it shows one (`Display`),
and not when it shows none (`Skip`). Sessions have a command and a status
connection, viewers a data connection. A request for a frame that finds the queue
full is answered on the command port, at the link of the same number, and the
viewer that asked hears nothing (`want` is then `unheard`). VIMS_CLOSE on the
data port closes the links of that number of the two other ports, and not the
viewer's own. What a client does after the poll of its
port is treated as done before it. Not modelled: slow readers of the status
port, which are skipped; the hanging up of everybody when veejay quits.

### SharedFrames

Masters and readers are processes, of which any may be killed between any two
steps. A master looks for an unused file (`Look`), creates it (`CreateFile`),
gets a segment by the key of the file (`GetSegment`), initialises the rwlock
(`InitLock`), writes frames (`Write`, `WriteLock`, `WriteUnlock`), and removes
segment and file when it ends (`Free`). A reader asks for the key (`Ask`),
attaches what it leads to (`Attach`), and copies frames under the lock. The
screen thread is cancelled asynchronously, so that a master may end within a
write. `ftok` is taken as a function of the number of the file. A veejay that
is master and reader counts as two processes. A master that found no file has a
private segment, which no key leads to; when it is killed the segment stays and
nobody removes it (`leaked`). The model ends (`astray`) where a
second master has taken the same file, or a reader has attached a segment of
another master than it asked: the lock itself is then overwritten in use.

## 4. Runs

| run | instance | properties | what it shows |
|---|---|---|---|
| `pool` | 3 workers, 2 calls, planes of 8 bytes, thread creation may fail | `ArgsStable`, `RunWaitsForAll`, `NoLostWakeup`, `PlaneProcessed`, `Implements`, `CallReturns`, `StopReturns` | the pool keeps its promise, although a call signals once for all its tasks and the argument slots are shared between calls |
| `engine` | all events and corrections, `pause_render`, 1 signal, failing outputs, shared memory, 4 frames, 1 skip per round | `ExclusiveBuffer`, `NotBothWaiting`, `SyncMeansPlayed` | nothing touches the frame that S shows, P and S never wait for each other, and what was rendered was shown or failed to be before P goes on, but for the `odd` rounds |
| `engine_quit` | quit, suspend, speed, corrections, end of video, failing outputs; no signal, no shared memory | `ShutdownCompletes` | however veejay is stopped from within, main gets to its end, unless a suspend event takes the stop back |
| `engine_signal` | quit, speed, goto, repeats, `pause_render`, 2 signals | `FramesFlow`, `HandlerReturns` | frames flow until a stop; the handler gets its mutex, unless S died with it |
| `samples` | 2 samples of 3 and 4 frames, speeds, loop types, 2 slots, any 2 events with numbers -1 .. 1 | `SamplesExist`, `StaysInside`, `NormalLoops`, `PingPongBounces`, `SequenceGoesOn` | frames stay inside the points, loops come back, the sequencer gets around |
| `netstream` | 2 readers, frames of 2 sizes, 2 failures | `ConvertAlone`, `BufferStays`, `NoFrameLost`, `StopEnds`, `FramesResume`, `CallReturns` | the mutex, `have_frame` and `state` do together what none does alone: no torn frame, no lost frame, frames after a broken connection, readers that end |
| `msgring` | P and another thread, 4 messages, 3 places | `NotStarved`, `LogSpec`, `Shown`, `SpinEnds` | fetching before a place is filled delays a message, and loses and repeats none; while new frames come the ring is emptied and a thread that spins gets its place |
| `vims` | 3 clients of 1, 3 and 1 messages, 3 cells inside that look like letters, 2 links, reads of 1 to 5 cells | `WholeReadsServed`, `RecvFindsData`, `ClosedForReason`, `RoundEnds`, `Served` | whole messages are executed once and in order, next to clients whose messages are cut; P never asks a blocking socket for what was not sent, except when it repeats a full read or was let in by the end of a packet of key frames that was cut |
| `links` | 2 sessions, 1 viewer, 2 links per port, 1 frame request | `Paired`, `GoneFreed`, `FramesAnswered` | links of one number stay together, links of clients that left are freed, requests that found a place are answered |
| `shared` | 2 masters, 1 reader, 2 files, 2 segments | `Exclusive`, `Findable`, `LocksObtained` | no torn frame and nothing lost, whatever is killed when |
| `signal_stop` | 1 signal, nothing else | `ShutdownCompletes` | **violated** |
| `netstream_delete` | 2 readers, 1 failure | `StoppedBeforeFreed` | **violated** |

The type invariants and the inductive invariants are proved, and not checked
again by the runs.

The bounds. *Pool*: three workers are the fewest of which one may sleep, one
run a task and one compete for the next, and a plane of 8 bytes leaves them a
remainder of 2; two calls are enough for anything a
call leaves to the next (arguments, counts, a late worker). *Engine*: the
handshake has one buffer and its state is reset every round, so that rounds
are not counted at all; two to four frames make the number wrap around, and
four give numbers that are no bit (2, 3). A second signal is the least that can
find the mutex with an S that the first one had cancelled. One skip per
round is the least that toggles the entry twice. *Samples*: samples of
different length make a frame number valid in one and not in the other; two
events are the least that change points under a changed speed or marker, and
delete a sample that the sequencer was just given. The numbers reach below,
into and out of a sample, and `Speeds = {2}` steps over the last frame of
either. *NetStream*: two readers are the fewest that are `crowded`; rounds and
calls are not counted, only failures, of which one may break a connection and
the other its renewal; a second size is the least that makes a buffer grow. *MsgRing*: three places and two threads let a fetch come
too early twice, and four messages go around the ring. *VimsReceive*: a
read that ends within a message, at its end, and behind it, a packet of key
frames that leaves its cells to a shorter message, a full port with a third
client, and a queue that overflows all occur. *VimsLinks*: two links are the
fewest that can be paired wrongly, and clients come back without bound.
*SharedFrames*: with two files the second master passes over the first one's,
and both may be taken; two segments are one that was removed, or left behind, with
a reader on it, and a new one, or a keyed one and a private one.

Deadlock is not checked where the program ends: a pool that was stopped, an
engine that was freed, a stream that was deleted, a log of which all messages
were written, clients that sent what they have to send. That they do get there
is `StopReturns`, `ShutdownCompletes`, `StopEnds`, `Shown` and `Served`. In
`shared` the model ends when it is `astray`; in `links` the server always goes
on. In `samples` there is always another frame.

### Fairness

* TaskPool: weak fairness of the caller within a start, a call or a stop, and
  of each worker: a critical section is one step that is enabled as long as
  the thread is not in a wait, so that nothing stronger is needed. Calls,
  stops, failures and spurious wakeups are not assumed to happen.
* Playback: weak fairness for each thread, as a scheduler gives; strong for
  the steps that take `valid_mutex`, because S takes it again and again and a
  thread that waits for it is only enabled now and then: an operating system's
  mutex does not pass it over for ever (glibc's may in theory, and veejay
  relies on it not to). Strong for `Die`: a cancelled thread that waits on a
  condition dies when it gets the mutex. Nothing is assumed of events,
  signals, corrections, failures and spurious wakeups.
* SamplePlay: frames are rendered again and again, which is what `FramesFlow`
  shows of the engine. Nothing is assumed of events.
* NetStream: the reader and P run, strongly fair because both take the mutex,
  which P holds for one conversion per frame; the other veejay answers or
  closes. Failures, starts and stops are not assumed.
* MsgRing: the screen thread goes on with the frame it was handed (weak), and a
  thread that spins gets a place that is free again and again (strong: it tries
  the compare-and-swap all the time). Messages and new frames are not assumed:
  `Shown` and `SpinEnds` are conditional on `FramesCome`, because the playback
  thread may pause, or spin itself.
* VimsReceive, VimsLinks: P goes on with its round, and what was sent arrives
  (weak, of the server). In VimsLinks S shows a frame again and again
  (`Display`, strong), which excludes that rendering stays paused for ever.
  Clients need not do anything.
* SharedFrames: who waits for the lock gets it when it is free again and again
  (strong), who holds it goes on (weak), unless killed. Nothing is assumed of
  masters and readers otherwise.

### Findings

1. `signal_stop`: a signal may let S exit with the frame still queued; P then
   waits for it for ever (liblavplayvj.c:1513).
2. `netstream_delete`: a stream is freed under its reader (vj-tag.c:1271,
   although vj-tag.c:1213 says "stop streaming in first").

`engine_quit` asks the question of the first with its cause taken out:
`ShutdownCompletes` holds without signals.

What else was seen while the models were made, where a property had to be
stated with a condition, or the model ends. Of these no run is kept:

* `veejay_init` returns its value for success when a thread of the pool cannot
  be created (liblavplayvj.c:1744), with the rest of the initialisation
  skipped; every call of the pool then does no work (`Unavailable`).
* The last `len mod n` bytes of a plane belong to no slice (vj-task.c:500):
  `PlaneProcessed` says exactly which bytes a call leaves out, and is checked with
  such a plane and proved for every length (`WhatACallCopies`).
* S is cancelled while it holds, or takes back, `valid_mutex`; a signal that
  comes then, or a second one when the first has stopped veejay, blocks its
  handler for ever (liblavplayvj.c:1493): `HandlerReturns` excepts
  `DiedWithMutex`.
* A suspend event after a quit event in the same round takes the quit back
  (vj-event.c:2748): `ShutdownCompletes` excepts a stop that was taken back.
* A skipped frame toggles the buffer entry a second time, and S takes the next
  frame for one it has shown (liblavplayvj.c:2369): such a round is `odd`, which
  `SyncMeansPlayed` excepts.
* While the speed is 0 the buffer entry is the number of the video frame
  (liblavplayvj.c:2366) when `pause_render` is set, as it is by default, and the
  bit otherwise. A frame 0 or 1 may equal the bit that S saw last, and is then not
  shown; nor is a frame whose number S has marked in a round that had rendered
  another: these rounds are `odd` too, and there are no others.
* An out point before the in point is accepted (vj-event.c:4771), as are
  markers of any value: `StaysInside` speaks of sound points.
* Two readers of one stream share its buffer (vj-net.c:326): `crowded`.
* The buffer of a stream is enlarged without the mutex when the frame is
  compressed (vj-net.c:163), and the planes of the first conversion are kept
  (vj-net.c:305): after that a conversion may read where the buffer was.
  `BufferStays` excepts it (`grown`).
* Messages leave the log only with new frames, which the playback thread hands
  over: when it is the one that spins on a full ring (vj-common.c:265) it spins
  for ever. `SpinEnds` is about the other threads, while `FramesCome`.
* The last byte of a packet of key frames may be let in as the first of a message
  (vj-server.c:943), and the `recv` that follows (vj-server.c:946) blocks P:
  `RecvFindsData`, `RoundEnds` and `Served` except `EndOfCutKeys`.
* A request for frames that finds the queue full is answered on the command port
  (vj-event.c:9123): `FramesAnswered` excepts it (`unheard`).
* A packet of key frames that arrives in pieces is executed with the bytes of
  an earlier message (vj-server.c:698): `torn`.
* Sessions that connect in one round may get links of different numbers on the
  command and the status port (vj-event.c:1635): `apart`.
* A request for frames on the wrong port stays in the queue of viewers
  (vj-event.c:9111), and eight of them refuse everybody until a frame is sent.
* The file of a master is tested for and then created (vj-shm.c:266), and
  `vj_shm_file_ref` reports failure with 0 where -1 is expected (vj-shm.c:276).
* The private segment of a master that found no file and was killed stays for
  ever (vj-shm.c:329): `leaked`. `Findable` speaks of segments with a key.

## 5. Proofs

For every number of workers, calls, bytes, events, frames, samples, slots,
readers, threads, messages, places, clients, links, processes and files that the
`ASSUME`s of a module allow (`N >= 2`: the pool is not started for fewer), TLAPS
checks:

| module | theorem | statement |
|---|---|---|
| TaskPoolProofs | `TypeCorrect`, `Invariant` | `Spec => []TypeOK`, `Spec => []IInv` |
| | `WaitsForAll`, `SlicesSafe`, `WakeupsKept`, `Joining` | `Spec => []P` for `RunWaitsForAll`, `NoSliceTwice /\ ArgsStable`, `NoLostWakeup`, `StoppedMeansJoined` |
| | `WhatACallCopies` | `Spec => []PlaneProcessed`: of a plane of any length a finished call has worked on all bytes but the last `PlaneLen % N` |
| | `Refinement` | `Spec => Implements`: the pool implements ForkJoin |
| PlaybackProofs | `Invariant`, `TypeCorrect`, `Exclusive`, `NoMutualWait` | `Spec => []P` for `IInv`, `TypeOK`, `ExclusiveBuffer`, `NotBothWaiting` |
| | `SyncWaitsForPlay` | `Spec => []SyncMeansPlayed`, with any events, corrections and options |
| SamplePlayProofs | `TypeCorrect`, `SamplesKept` | `Spec => []TypeOK`, `Spec => []SamplesExist` |
| | `PlaysInside` | `Spec => StaysInside` |
| NetStreamProofs | `TypeCorrect`, `ConvertsAlone`, `BufferKept` | `Spec => []P` for `TypeOK`, `ConvertAlone`, `BufferStays` |
| | `FramesKept` | `Spec => NoFrameLost` |
| MsgRingProofs | `TypeCorrect`, `Balanced`, `NeverStarved` | `Spec => []P` for `TypeOK`, `Balance`, `NotStarved` |
| | `Implements` | `Spec => LogSpec`: the ring implements MessageLog |
| VimsReceiveProofs | `Invariant`, `TypeCorrect`, `WholeReadsAlwaysServed`, `RecvAlwaysFindsData` | `Spec => []P` for `IInv`, `TypeOK`, `WholeReadsServed`, `RecvFindsData` |
| | `AlwaysClosedForReason` | `Spec => ClosedForReason` |
| VimsLinksProofs | `TypeCorrect`, `StaysPaired` | `Spec => []P` for `TypeOK`, `Paired` |
| SharedFramesProofs | `TypeCorrect`, `NeverTorn`, `AlwaysFindable`, `KeysLead` | `Spec => []P` for `TypeOK`, `Exclusive`, `Findable`, `OwnKey` |

**The pool.** `RunWaitsForAll` is not inductive: it speaks of the end of a
call, and why it holds lies in the counts. `IInv` says where every task of a
call is: in the queue once, at one worker, or run (`PlaceInv`), so that the
completions counted, the busy workers and the length of the queue add up to
*N* (`CountInv`). When the sum of `tasks_done` reaches `tasks_todo` the other
two are 0, hence the queue empty and all handlers done (lemma `AllDone`).
`NoLostWakeup` is inductive together with these: a worker only sleeps when it
found the queue empty, so the one woken by the signal, or any that was awake,
is still about to look. `LifeInv` ties `exitFlag` and the life of the workers to the
caller. The sum of `tasks_done` is written as the size of a set, which keeps
the module free of recursion; its steps rest on the library's facts about
cardinality. The refinement needs no more than `IInv`: `Handle` is
`ForkJoin!RunTask`, `Check` and `Recheck` stutter, and `Clear` is the join.
Which bytes the slices cover is arithmetic (lemma `SlicesMeet`), and joined with
`PlaceInv` it says what a finished call has copied, remainder or not.

**The engine.** `ExclusiveBuffer` holds because `valid[0]` stays 1 from S's
test until S clears it, and P leaves `sync_buf` only at 0 (`ValidInv`); for
that the test and the clearing must be under the mutex (`MutexInv`), and
nothing may be freed before S is dead (`JoinInv`). The proof has one step per
action for types and one for the handshake. `SyncMeansPlayed` rests on the
numbers that tell frames apart: `PlayedInv` says that a rendered frame that was
not shown yet has another entry number than the one S took up last, so that S
does not mistake it for that one, unless the round is `odd`. The step to show is
the one that chooses the next number, after any events (lemma `NextEntryNew`): a
turned bit differs from the bit before, and a frame number of 2 or more from every
bit, and from the number of another picture. `NextOdd` is what is left over, and
each of its cases is needed: TLC finds the property violated without any one of
them. A suspended engine needs no case: it queues a buffer that S need not show,
and nothing rendered.

**Samples.** The functions that change the player are treated one by one:
each keeps the points of all samples (`SamePoints`), and those that set a
frame leave it inside the points of the sample that plays (`Inside`). A frame
that playing moves comes from one of these, or was found to be within the
points by `vj_perform_increase_sample_frame` itself. That the sequencer's next
slot is filled is proved from the well-foundedness of < (`NextSlotFact`). `SamplesExist` is inductive together with `TypeOK`.

**The network stream.** `ConvertAlone` is not inductive: that P and a reader
both hold the buffer is excluded by the mutex only as long as it is
initialised. `StreamInv` adds that it is valid while the stream is active, that
a stream that has had one reader at a time has `state` 0 outside the reader's
loop, and that no frame waits while one is read, so that a compressed frame,
whose receiving takes no mutex, meets no conversion. `BufferStays` adds where the
planes are: they are found under the mutex, in the buffer of then, and forgotten
when the stream is stopped, which is before the reader frees the buffer; between
the two only a `realloc` for a larger frame can leave them `elsewhere`.

**The ring.** `Balance` counts: messages in the ring are the tokens, the
fetches under way, the threads about to post and the misses. `NotStarved`
follows, because a fetch that misses finds a place empty, so that fewer
messages are in the ring than places. The refinement rests on `OnePlace`: a
message is with one thread or in one place, and not with those shown. Its steps
use the library's facts about cardinality.

**The server.** `WholeReadsServed` relates what was executed to the buffer that
all clients write, several steps apart. `IInv` says of a client that was not
cut that what was taken of it ends where its last executed message ends, and
while it is being read, that the buffer begins with exactly the cells that
follow (`ServedInv`), whatever lies behind them; `QueueInv` and `RoundInv` keep
one client to one link. The rest is data: `FoundFact` shows that the walk
through the buffer, over a row of whole messages, finds where each of them
begins and stops at the last, although its loop ends one byte early. Such facts
are proved by induction, which needs no induction theorem: a set of numbers has
a least element (`LeastNumber`, from the well-foundedness of <), and so a set
with 0 and every successor is `Nat` (`AllNumbers`); the sets are written out at
each use. The functions themselves exist by the same argument (`SumExists`,
`WalkExists`). `ClosedForReason` follows: the messages of a client that was not
cut pass the verification, so that only what it asked for, a full queue or a
full buffer closes it. `RecvFindsData` speaks of all clients: only P takes from a
socket, from one client at a time, and a byte that is let in by its value is not
the last of its message, of which there is more (lemma `MoreFollows`), because a
VIMS message ends with a semicolon and a packet of key frames of a client that was
not cut is let in at its first byte only (`ServedInv`). That leaves the end of a
packet that was cut. It is the part of `RoundEnds` that is about the code; what
is left to TLC of it is the fairness.

**The links.** `Paired` says that two tables of links are equal; it is
inductive together with the types. When both tables are equal and both ports
take the same client, it gets the lowest free link of both; a round in which
they take different clients sets `apart`. Whatever hangs up, of the four places
that do, closes both links of a number or none (lemma `HangupKeeps`).

**Shared memory.** `Inv` of SharedFramesProofs says, until the model is astray,
that a file has one owner (`Owned`), that its key leads to the segment of this
owner and to nothing when it has none (`Keyed`), that no two masters have one
segment and no reader has one that is about to be cleared (`Separate`), and
that who uses a frame has locked it (`Locked`). `Exclusive` is the lock,
`Findable` is in `Keyed`: for both it matters that a file outlives its segment
and that whoever is killed leaves its file, so that its number is not taken
again.

Not proved, only model-checked: what must eventually happen (`CallReturns`,
`StopReturns`, `FramesFlow`, `ShutdownCompletes`, `HandlerReturns`,
`NormalLoops`, `PingPongBounces`, `SequenceGoesOn`, `StopEnds`, `FramesResume`,
`Shown`, `SpinEnds`, `RoundEnds`, `Served`, `GoneFreed`, `FramesAnswered`,
`LocksObtained`), which needs fairness and `ENABLED`. Every invariant and every
action property of the passing runs is stated by a theorem, without a condition
on the constants but their `ASSUME`s. What the code does not keep is excepted in
the property itself (`odd`, `crowded`, `grown`, `torn`, `EndOfCutKeys`, `apart`,
`astray`): TLC finds the property violated when one of these is taken out (for
`astray`, when the model also goes on after it).

## 6. What is not modelled

* The modules that section 2 leaves: capture and file-writing threads, the edit
  list, the cache, the pool of vevo, the recorder.
* Pixels, sound and time: effects, conversions, composition, fonts, decoders,
  audio. The clock appears as the free choice of corrections, so that no
  property depends on timing.
* I/O with devices and libraries (SDL, DirectFB, JACK, V4L, DV, libavcodec,
  freetype, plugins): only their failure, where it changes the control flow.
* Multicast: its receiver (`mcast_recv_frame`) has no caller.
* Third-party code in the tree: bio2jack, minilzo, kazlib's hash, libOSC.
* Other programs: reloaded, sendVIMS, the plugin packs.
* In the modelled parts: use of memory after it is freed (the models end with
  the free), more than one user of the pool at a time (P uses it while it
  renders, S while it shows a frame, and `ExclusiveBuffer` keeps these apart),
  and what section 3 lists as abstractions.

## Running

In this directory, `tlc -workers 2 -config X.cfg M` checks a run (the module of
each is in `PROJECT.json`), `tlapm M.tla` the proofs of a module.
