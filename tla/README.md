# Verification of the BBCV player, media server and delay meter

TLA+ specifications of the concurrent core of this repository, the TLC
configurations that check them on small instances, and TLAPS proofs of their
main safety properties for every value of the constants.

The repository holds three programs that move MPEG transport streams (TS)
around:

* **BBCV-Player** (Windows): asks a server for a stream over RTSP, receives it
  over UDP, decodes it with ffmpeg, shows it with Direct3D.
* **TSMediaServer** (Windows): reads TS files and sends them frame by frame
  over UDP, driven by text commands that clients send over TCP. The directory
  holds several generations of the same tool.
* **TimeDelayParse** (Linux): receives a TS over UDP, records it, and notes the
  time of each video frame.

There are no tests. What the programs promise is said in comments, in messages
they print, and in `TSMediaServer/Release/TS转发工具-V1.0/说明.txt` (below "the
manual": several TS files are forwarded at once, frame by frame, 40 ms a frame;
clients create, pause, resume and delete).

## 1. Inventory

### 1.1 Receive buffer of the player: `NewQueue`
*Source* `BBCV-Player/Decoder/RecvQueue.cpp` (and `~TSDecoder_Instance`,
`read_data` in `Decoder.cpp`).
*State*: a 10 MB ring `buf` with `read_ptr`/`write_ptr`, the critical section
`locker`, the flag `m_bstop`, the receiver's thread id.
*Operations*: thread `udp_ts_recv` (recvfrom, strip the RTP header,
`put_queue`), `get_queue` (one TS packet, called by the decoder thread through
`read_data`), destructors that wait at most five rounds of `Sleep` for each
thread, then `clean_RecvQue` and `free_queue`.
*Interaction*: shared memory between receiver, decoder and the thread that
destroys the player.
*Hard*: copy addresses and the write position are read before the critical
section is entered; nothing keeps a fast sender from overwriting unread bytes; the
length of the RTP header is taken off a datagram that may be shorter; the
destructors give up waiting.
*Correct when*: a sender that is not a ring ahead sees a byte stream; no copy
leaves the ring; nothing uninitialised is decoded; the ring is not freed under
a thread; the destructors return.

### 1.2 Decoder and display: `decoder_threadFun`, `CD3DDisplay`
*Source* `Decoder/Decoder.cpp`, `AMPDisplaySDK/D3D9VideoPlayer.cpp`,
`AMPDisplaySDK/AMPDisplaySDK.cpp` (handle table, one wrapper per method).
*State*: two picture buffers with a lock each, `m_pOutBuffer`, the display
thread's message queue, the Direct3D surface, its size and its lock.
*Operations*: the decoder sets the size (and makes a new surface), fills one of
the buffers under its lock, points `m_pOutBuffer` at it, posts a message that
carries the lock; the display thread enters the lock of the message, shows
what `m_pOutBuffer` points at, and drops the messages that arrived meanwhile. Where
the hardware has no surface for YUV it converts the picture to RGB first.
*Hard*: the lock of a message and the contents of `m_pOutBuffer` may be those
of different pictures; messages are lost before the thread has a queue, when
it is full, and in the drain; nested locks; the conversion to RGB reads the
picture and its size before the surface's lock is taken.
*Correct when*: pictures are whole, do not go back in time, fit the surface, the
surface is not replaced while it is drawn on, nobody waits for ever.

### 1.3 One stream of the media server: `SendMedia`
*Source* `TSMediaServer/TSMediaServer/TSMediaServer.cpp`.
*State*: a pool of five frame buffers in two queues (free, used) under one
lock, `m_bPause`, `m_bStop`, two thread ids.
*Operations*: reader thread `GetMediaData` (gathers the packets of a frame, waits
for a free buffer, queues the frame), sender thread `SendMediaUDP` (every 40 ms
takes a frame, returns the buffer, sends the frame in datagrams of seven
packets), `ThreadClient` (pause, resume, stop: set flags, wait, delete).
*Hard*: the size of the free queue is tested without its lock; wait loops that
do not look at the stop flag; end of file while frames are queued.
*Correct when*: the pool is conserved; frames go out in order and once;
deleting returns. A streamstop waits for both threads, the clearing at a
disconnect for the sender only.

### 1.4 Command side of the forwarding tool
*Source* `TSMediaServer/TsMediaTool/TsMediaTool.cpp` (V1.0).
*State*: `mapTidObject` (tick count → stream object), shared by all client
threads without a lock; per connection a socket and locals; per stream the
flags and the sending thread.
*Operations*: accept loop of `main`, `ThreadClient` (streamstart, streampause,
streamresume, streamstop, clearing at a disconnect), `SendMediaUDP`.
*Hard*: objects deleted by one thread and used by another, tids from a counter
that wraps, an iterator over a map others change, the address of `main`'s
socket variable handed to a new thread.
*Correct when*: no object is deleted under its thread, nothing deleted is used,
a tid names the stream of its client, nobody's stream is lost or taken away,
deletions return.

### 1.5 Delay meter: `TimeDelayParser`
*Source* `TimeDelayParse/Main/TimeDelayParser.cpp`.
*State*: a 10 MB linear buffer, `read_index`, `write_index`, `m_mutex`.
*Operations*: receiving thread → `PutInBuff` (append; move the unread bytes to
the front when there is no room behind them; reset when overfull), parsing
thread → `GetBuff` (188 bytes or the rest), `WriteTsFile`, `ParseTSData`.
*Hard*: the indices are read again for every use; the overfull path unlocks, resets and copies without the lock, and
unlocks again, perhaps the lock of the other thread.
*Correct when*: no copy leaves the buffer; every byte is recorded once and in
order; nobody is locked out.

### 1.6 Parser of the delay meter: `TSStreamInfo`
*Source* `TimeDelayParse/Main/TSStreamInfo.cpp` (`ParseStreamFrame` and what it
calls; the player has an older copy).
*State*: the PIDs of the program, the program clock, the last time stamp and the
frame rate, the flags and counters of the frame that is being received.
*Operations*: one call per packet, from the parsing thread of 1.5. It reads PAT,
PMT, clock and time stamp, and logs a frame when the next one begins.
*Hard*: every packet may come at any point; a frame is ended by a packet of the
next, which is counted before; packets are left early at several points; arithmetic
of 32 bits with sign, integer division of differences of time stamps.
*Correct when*: every frame is logged once, with its number, its packets and its
kind; rate and clock are those of the stream; a steady stream is metered. (The
kind is a guess for AVS and MPEG-1, whose start codes are read as MPEG-2's and
then as H.264's.)

### 1.7 Player session: dialog, RTSP client, status thread
*Source* `BBCVPalyerAPP/BBCV-PlayerDlg.cpp`, `RTSPclient.cpp`.
*State*: `m_bPlaying`, the pointers to the decoder and the client, the buttons,
the timers; per client the session at the server and its RTCP threads.
*Operations*: the handlers of play, stop, open file, quit and the timer, on the
thread of the window; `Connect` and `Disconnect`; an RTCP thread per medium that
posts a goodbye to the thread `PlayerStatusCheck`, which runs the stop handler.
*Hard*: the stop handler runs on two threads without a lock; connections fail
half way, also after the server has done what was asked; RTCP threads outlive
their client.
*Correct when*: no handler uses what is deleted, nothing is left behind, what
plays can be stopped, a goodbye stops it.

### 1.8 Threads and timers: `TaskTimer`, `Thread`
*Source* `TimeDelayParse/Switch_Config/TaskTimer.cpp`, `Thread.cpp`.
*State*: a list of timers ordered by date under `m_mutex`, a condition with a
flag, `m_bExit`.
*Operations*: `registerTimer`, `removeTimer`, the thread that fires what is due
(and puts back what has to fire again), `stop`, `wait`, the destructors.
*Hard*: putting back is done without the mutex; the flag is set without the
condition's mutex; `stop` signals nothing; the thread takes itself off the list
of threads before it has left.
*Correct when*: timers fire, neither early nor too often; each handler is closed
once; the service can be ended.

### 1.9 Parts without a model

| Part | Source | Why |
|---|---|---|
| Audio output | `Decoder/AudioPlay.cpp` | its read position is inside DirectSound and never asked for |
| Display handles | `AMPDisplaySDK.cpp` | a table of display objects with one wrapper per method; the wrappers that are called are inside the actions of `VideoHandoff` |
| Parser and exports of the player | `Decoder/TSStreamInfo.cpp`, `TSDecoder.cpp` | the parser is an older copy of 1.6; the exports pass a call on |
| JSON, login | `RSMJson.cpp`, `Stream.cpp` | texts over a socket, no state of their own |
| Sockets, reactor, log, configuration, dates | rest of `Switch_Config` | wrappers of system calls and text formatting |
| V2.0, V3.0, console and client programs | rest of `TSMediaServer` | copies of the tool with the same thread structure, and senders of its commands |
| `python/` | login scripts | sequential, one answer each |
| headers of Direct3D, ffmpeg, IPP, cJSON | most of the lines of the repository | third-party code |

`PROJECT.json` lists all parts under `components`, and under `hazards` what is
hardest to test, at its line. Section 7 names what is exposed beyond that list.

## 2. Plan

Order: the data paths whose threads share memory first, then the command
sides, then the sequential parser.

| # | Module | Models | Composes / refines | State |
|---|---|---|---|---|
| 1 | `RecvQueue` | 1.1: receiver, decoder's read side, destructors | implements `TsByteStream` | done, proved |
| 2 | `SendMedia` | 1.3: reader, sender, client, disconnect | implements `FrameWire` | done, proved |
| 3 | `StreamControl` | 1.4: accept, client threads, stream threads | its stream threads are the senders of 1.3 seen from outside | done, safety proved |
| 4 | `VideoHandoff` | 1.2: decoder and display thread | takes what `RecvQueue` delivers as given | done, safety proved |
| 5 | `DelayBuffer` | 1.5: receiving and parsing thread | promises stated in the module | done, proved |
| 6 | `TSStreamInfo` | 1.6 | takes what `DelayBuffer` delivers as given; implements `FrameLog` | done, proved |
| 7 | `PlayerSession` | 1.7 | decoder and client as objects that are alive or dead | done, proved |
| 8 | `TaskTimer` | 1.8 | | done, safety proved |

Left for later: `registerTimer` called by several users at once; handlers of the
window that run inside a message box of `Connect`.

## 3. Models

Common conventions. Names are those of the source. Each thread has a variable
for its place (`rpc`, `dpc`, ...). What a thread does between two accesses to
state others can change is one action; where the code takes a lock, the
critical section is one action unless something it touches is also used
without the lock. Payload is identity: a byte, packet, picture or stream is its
number. A definition `X_Fault` is `X` with the slip its name says; `PROJECT.json`
names for each property the fault that it notices. The specifications use none
of them.

Some models have a history variable that is set when the code meets a race or an
error that spoils what it promises (`overtaken`, `overlap`, `crashed`, `fault`,
`failed`, `undefined`); the properties then say what holds unless it is set. Each
is set in reachable states, and section 6 says what goes wrong after.

**TsByteStream** (abstract): `sent`, `delivered`, the last `packet`; `Put(n)`
appends n bytes if there is capacity, `Take` takes exactly the next packet.

**RecvQueue**: `RecvTest`, `RecvDatagram`, `RecvError` are the loop of
`udp_ts_recv`; `PutEnter`/`PutCopy` and `GetEnter`/`GetCopy` split `put_queue`
and `get_queue` into the unlocked snapshot and the critical section;
`DtorStart` ... `free_queue` are `~TSDecoder_Instance` and `~NewQueue`. A copy is
split at the end of the ring (`HeadLen`) at the *present* index while its
address is that of the snapshot, as in the code. A datagram shorter than its RTP
header has the size -1, with which `put_queue` calls `memcpy`: its `PutCopy`, any
copy that would leave the ring and any use of the queue after `free_queue` are
`ReceiverAstray` and `DecoderAstray`, which set `undefined` and end the model. `stream`, constant in a behaviour, says
what is received: `Paced`, the sender stays less than a ring ahead;
`LiveStream`, datagrams keep coming, so that a thread the destructor waits for
gets back to its loop test before the last `Sleep` ends (`tested`, a history
variable; what the test finds is the code's); `ShortDatagrams`, some are too short.
The refinement maps `received` and `taken` to `sent` and `delivered`.

**FrameWire** (abstract): packets leave in order, at most `Chunk` in a datagram,
never those of two frames in one. The last frame of a file need not be sent:
the code never queues it (section 6).

**SendMedia**: a packet is its kind (`pat`, `pmt`, `start`, `other`), a frame the
pair of its first and last packet. The reader's states are the pause test, the
stop test, reading, waiting for a free buffer (`wait`) and filling it; the
sender's are alike. `queued` is what has been put into the pool. A stop is
`streamstop` followed by rounds of `StopLoop`, which set `m_bStop` and test both
thread ids; a `disconnect` is followed by rounds of `ClearLoop`, which test that
of the sender. Whom they wait for is their guard, and no property restates it. The model goes no further than either delete. `MCSendMedia`
gives the files.

**StreamControl**: a stream object is a number that goes from unborn to alive to
deleted; `tpc` is its thread. `tick` is `GetTickCount()` modulo `Ticks`.
streamstart is `StartFind` (`CreateUnique`, and the `find` that refuses a tid in
use) and `StartInsert` (object, thread, `insert`, reply); the tid of the reply is
what the client is `told`. `StopFind`, `StopWait`, `StopDelete` are streamstop;
`Disconnect` and the four `Clear` actions the clearing of the map. An iterator is the object in its node; `FindBegin` and the erase step
allow any order of the map. A use of a deleted object or of an erased node sets
`crashed`, after which nothing is claimed. `env`, constant in a behaviour, says
what surroundings there are: clients that pause, that delete, that are connected
at once ("overlap"), and then perhaps before the thread of the last connection
has read the socket variable; files that cannot be opened. `StopDelete` and
`ClearDelete` delete an object whose thread has left; as the loop before them
tests just that, no property restates it.

**VideoHandoff**: `SetVideoParam` (or `SetVideoParamFails`), `FillBegin`,
`FillEnd`, `SetOutBuffer`, `Post` are the decoder, `MakeQueue` to `Drain` the
display. A picture is written and drawn in two steps, so that a reader can see
`Half` of it. A surface takes the picture as it is (`DrawBegin`, `DrawEnd`) or in
RGB: then `ConvertBegin` and `ConvertEnd` convert it into `m_pRgbbuf` without
`m_csDDraw`, and `DrawRGBBegin` and `DrawRGBEnd` draw from there under it. `SurfaceFits` is about the copy to
the surface; the size that the conversion reads without a lock decides which
bytes of a picture it reads, and pictures have no bytes. `lag`, constant in a behaviour, is the number of pictures the
decoder can be ahead while the display is busy with one.

**DelayBuffer**: `PutLock` is the lock and the test; `ResetWrite`/`ResetRead`,
`Move`/`MoveWrite`/`MoveRead`, `PutCopy`, `Grow` the rest of `PutInBuff`;
`GetLock`, `GetTest`, `GetPacket`, `GetLoad`, `GetStore` are `GetBuff`, with the
load and the store of `read_index +=` apart, because the other thread may be at
`ResetRead` in between. When there is less than a packet, `GetRest`, `RestLength`,
`RestLoad` and `RestStore` read the indices again for the copy, the length and
`read_index = write_index`. `m_mutex` is only "held": an unlock frees it for
anybody. A negative length or a copy out of the buffer sets `undefined` and
stops the model. Both indices begin at 0 although no constructor sets them:
the object is the first thing `main` allocates, on fresh pages.

**FrameLog** (abstract): each packet is nothing of the video, more of it, or the
beginning of a unit; the beginning of a unit logs the open frame with its number
and packets and, at a key frame, the frames since the last.

**TSStreamInfo**: a packet is a record of what the parser reads in it. The five
disjuncts of `ParseStreamFrame` are the ways of a packet through the function:
the null packet, the early returns, a start of another PID or without payload, a
start of a unit that is no frame, a start of a frame. `Counted`, `ReadTables`,
`ReadClock`, `MeasureRate`, `EndFrame`, `BeginFrame` are its parts, in its order.
`Base` and `Rate` are the arithmetic: the first byte of a clock is shifted in a
signed int, so that from a quarter of its range on the result is wrong (a clock
is the pair of this byte and the rest, so that TLC need not count 33 bits; a
base -x stands for what the unsigned `*300` and `/300` make of it, 2^64 / 300 - x). `undefined` is a division by zero. A stream
is a set of packets that come in any order and number; `MCTSStreamInfo` has
seventeen. A start of a frame carries its start codes, by the meaning of the byte
in MPEG-2 or else of its five low bits in H.264, and `Kind` scans them as the code
does: in a stream that is neither (AVS, MPEG-1), a sequence header and an
extension make it MPEG-2 from there on; before that, behind a sequence header and
a byte that could be a PPS, a byte that could be a slice ends the scan
(`EndsSearch`), and one that could be an IDR slice is logged as a key frame
(`EndsInIdr`), although in these streams such bytes are the rows 8, 5 and 1 of a
picture. The clock, the last time stamp and the rate begin at 0 although the
constructor leaves them alone, for the reason given for `DelayBuffer`.

**PlayerSession**: clients and decoders are numbers in the order of creation,
alive or dead. Each handler of the window is cut at every call that may end it
or change what another thread sees; `Stop(t)` is the handler of the stop button,
run by the window or by a status thread. `Connect` fails at any of its requests,
and what was started until then is left as the code leaves it; the server may
have done what was asked although no answer was received, so that `session` is
what the *client asked for*: "setup", "unanswered" (PLAY was sent and not
answered), "playing". `InitDecoder` always succeeds, as
`TSDecoder_Instance::init_TS_Decoder` has one return, of true. A datagram
reaches an RTCP thread at any time, also after the delete of its client. `fault`
says what used a dead object: a handler, or an RTCP thread ("datagram"); after
either nothing is claimed. `overlap` is set when a handler begins while another
thread is in one.

**TaskTimer**: a timer is the number of its registration, a date a second.
`ProcessHead`, `ProcessEnd`, `RepushSearch`, `RepushInsert`, `RepushEnd` are
`process_timeout`, in which the timers to put back are in `tmp_lst` and are
searched for and inserted in two steps; `WaitTest`, `Sleep`, `WakeUp` are the
condition, with the test of the flag apart from the sleep. `RegisterSearch` to
`RegisterSignal`, `removeTimer`, `stop` and `Destroy` are the user. An iterator
is the timer of its node, `End`, or `PushFront` for an empty list; using one that
is gone sets `crashed`. `overtaken` is set when an insertion falls between search
and insertion of the other thread. `env` says whether the user removes timers and
whether it ends the service.

## 4. Runs

Every run of kind *pass* finishes with no error; *violation* runs show a
disagreement between the code and what a line of the repository says of it. The
type invariants are proved (section 5) and in no run.

| Run | Configuration | Bounds | Properties | Shows |
|---|---|---|---|---|
| `ring` | `RecvQueue`, `MCRecvQueue` | ring of 5, packets of 2, datagrams of 1, 2, 4 bytes or too short, 12 bytes in all, two rounds of the destructors; paced, unpaced and silent senders, and one with short datagrams | `RingHoldsLatest`, `NothingUndefined`, `StreamSpec`, `PacketsFlow`, `DtorEnds` | the ring holds the newest bytes at any pace; paced it implements `TsByteStream` and packets flow; while whole datagrams keep coming no copy leaves the ring and no thread uses it after it is freed; the destructors end |
| `pool` | `SendMedia`, `MCSendMedia` | all tails of four packets after the tables, and five odd files; 2 buffers, datagrams of 3 | `CheckedFreeStays`, `WireSpec`, `FramesAreSent`, `DeletionsEnd` | the unlocked test stays true, order on the wire, no mutual wait, which deletions return |
| `stop_playing` (violation) | `SendMediaStop` | one file with more frames than buffers | `StopCompletes` | streamstop of a playing stream may never return |
| `control` | `StreamControl`, `MCStreamControl` | 2 clients, 2 streams, 2 ticks; clients one after the other that pause, with and without streamstop; clients at once, also in a rush for the socket variable; files that do not open | `NeverUndefined`, `NoOrphan`, `TidNamesOwnStream`, `StopEnds`, `CloseEnds` | one after the other: nothing deleted is used without streamstop, no orphan, tids apart; deletions return, also among clients at once whose disconnects clear the map together |
| `delete_then_close` (violation) | `StreamControlDelete` | 1 client, 1 stream | `DeleteIsSafe` | streamstop leaves its map entry |
| `two_clients` (violation) | `StreamControlMulti` | 2 overlapping clients | `StreamsOfOthersStay` | a disconnect takes all streams |
| `video` | `VideoHandoff` | 3 pictures, 2 sizes, surfaces of both kinds, queue of 2, lag 1 to 3 | `NoTornPicture`, `SurfaceFits`, `NeverBack`, `SurfaceStays`, `PicturesAreShown` | nothing torn up to lag 2, never back, surface fits and stays, each picture reached |
| `delay` | `DelayBuffer` | buffer of 5, packets of 2, datagrams of 1 to 3, 9 bytes, paced and not | `ChunksInOrder`, `BytesFlow`, `PutGetsIn` | order and flow while paced; nobody is locked out in either case |
| `delay_reset` (violation) | `DelayBufferReset` | same, not paced | `ResetEmpties` | the reset leaves bytes |
| `timer` | `TaskTimer` | 2 timers, clock to 3, dates 0 and 2, a count of 0 (one call) or 2, a second apart; with and without end and removal | `HeadIsEarliest`, `NoOversleep`, `FiresAsOrdered`, `ClosedOnce`, `NeverUndefined`, `TimersFire`, `StopEnds` | 1.8; order and sleep unless `overtaken` |
| `player` | `PlayerSession` | 2 RTSP plays, 3 decoders, 1 medium | `HandlersSafe`, `OneDecoder`, `PlayingIsTornDown`, `CanBeStopped`, `GoodbyeStops` | 1.7; safety unless two handlers `overlap`; what is asked to play is torn down unless its PLAY went unanswered and play was pressed again |
| `parser` | `TSStreamInfo`, `MCTSStreamInfo` | 17 sets of packets; 5 frames, 4 packets between two starts | `RateTrue`, `PcrExact`, `LogSpec`, `Metered` | the parser implements `FrameLog` with the kinds it reads; rate and clock are true under the conditions they state; a steady stream is metered |

`control` does not have all surroundings at once; the theorems about
`StreamControl` hold for any of them, each under the condition its property states.

Why the bounds are enough. The rings and buffers are a few bytes long but no
multiple of the packet, and the bytes received are more than twice their size:
every wrap, split and compaction happens at every offset, with the indices
anywhere. Two buffers in the pool and files of up to seven packets make the
reader wait, refill a buffer that was used before, and meet the end of the
file at each place of each thread. Two ticks make the counter come round; two
clients and two streams are the least in which one can delete another's, and
two clients after each other reuse a tid. Two sizes and three pictures let the size change
and change back, the kind of surface with it, while older pictures are under way;
the queue of two can be full. A timer that fires again is put back before one of a later date and behind one
that is registered meanwhile, and while the other is registered or removed; with an interval of 1
and a clock to 3 a late thread makes two calls in one round. Two plays and three
decoders let the status thread of the first session meet the second, and every
handler find what any other left; a second medium would add a thread that does
the same. The packets of `parser` are of H.264, MPEG-2, AVS and MPEG-1, with time stamps
of 25 and 50 frames a second and of less than a millisecond, clocks whose first
byte is 63, 64 and 130, on the program's and on other PIDs, and tables that are
late, too long, incomplete or changing. Each property is violated by one small fault in the modelled code, so
each of these cases is reached.

`CHECK_DEADLOCK FALSE` is used for `DelayBuffer`, where a corrupted process
stops, and for `TSStreamInfo`, where a stream ends at its bounds or with a
division by zero. The other models have a step of their own for the end (`Terminated`,
`Ended`, a crashed process), so that a deadlock of threads is an error.

### Fairness

* `RecvQueue`: threads that can run do run; a blocked `recvfrom` returns only if
  `LiveStream`; no one makes the owner close the player.
* `SendMedia`, `StreamControl`: reader, sender, stream threads and the waiting
  loops run (all are `Sleep` loops, which cannot be starved); clients need not
  connect, send a command or hang up, and a streampause need not be followed
  by a streamresume. Properties that need an unpaused stream say so.
* `VideoHandoff`: strong fairness for both threads: a Windows critical section
  that is free again and again is entered in the end (the other thread
  sleeps or waits for a message between two entries). The stream goes on.
* `DelayBuffer`: weak fairness inside `PutInBuff` and `GetBuff`, strong for
  taking the mutex, on the same ground: both threads sleep or block in
  between. Datagrams need not come.
* `TSStreamInfo`: the PAT, the PMT and starts of frames keep coming, as a
  transport stream repeats them; no other packet has to. Only `Metered` uses it.
* `TaskTimer`: time goes on, the thread runs, calls that have begun go on. Nobody
  makes the user register, remove or end. At the end of the model's time every
  sleep is over.
* `PlayerSession`: the window's thread goes on with a handler it is in, and each
  status thread runs. Nobody clicks, and no datagram has to come.

## 5. Proofs

Proved with TLAPS, for every value of the constants that meets the named
assumption of the module (sizes positive, no datagram or packet larger than the
ring; any number of files, clients, streams, buffers, ticks).

**RecvQueueProofs** (`RecvQueueAssumption`).
`TypeCorrect`. `RingKeepsLatest` from `RingInv`: the statement about the unread
bytes alone is not inductive, since the copy uses the address taken at
`PutEnter` and the backlog shrinks and grows. The strengthening says that this
address is still the write index at `PutCopy` until the destructor clears the
queue, that the whole ring and not only its unread part holds the newest bytes,
and what the indices are before the first wrap. `NothingGoesAstray` is about streams
that are live and whose datagrams are whole, at any pace and for any number of
rounds. What it assumes of the thread a destructor waits for is only that it comes to
its loop test in time; `DtorInv` shows that the test then finds the flag set, so that the thread is
done before the queue is emptied and freed, and `RingInv` that until then the
address of a copy is that of the index it is divided by. `RingIsByteStream` assumes `Paced` and `LiveStream` and shows
that every step is a step of `TsByteStream` or a stutter; it needs all of these
together with `PacedInv`: unread bytes and a datagram under way never fill the
ring, so the distance of the indices is the number of unread bytes, less a ring
when the write index has wrapped, and the decoder's stale view of the write
index can only be too small.

**SendMediaProofs** (`SendMediaAssumption`).
`SendMediaTypeCorrect`, `PoolIsConserved` (both queues together are a permutation
of the pool, kept by moving a head to an end), `CheckedBufferStays` (only the
reader takes from the free queue), and `FramesGoOutInOrder`: implementation of `FrameWire`, from an invariant that lays
the wire, the rest of the frame being sent, the frames in the used queue and
the packets not yet queued end to end over the file, each frame beginning at a
start and holding no other.

**StreamControlProofs** (`StreamControlAssumption`).
`TypeCorrect` holds in all surroundings. For clients that come one after the
other `SerialInv` says that one thread is at work, on the socket it was started
for; that the tid it is about to insert is free; that the object it deletes is
the one whose node it erases; that every live object is in the map, and so is
what a client was told until it hangs up, before which nothing is cleared; and
that the map is empty when nobody is at work. From it follow `StreamsAreFound`, `TidsStayApart`, `SessionsStartEmpty`. `NothingFreedIsUsed`
adds `SafeInv` (without streamstop every entry of the map is alive but the node
about to be erased, and the iterator of the clearing loop is a node of the map).
`AloneStreamsStay` is the other side of the finding about two clients (section 6): without
clients at once, `StreamsOfOthersStay` holds even with streamstop, which leaves
entries of dead objects in the map. `KeepInv` says why: no two tids have the same
object, a streamstop deletes the object of a tid its own client was told, and a
clearing runs for a client that has hung up, when the others have been told
nothing or have hung up too.

**DelayBufferProofs** (`DelayAssumption`). `DelayTypeCorrect` holds whether the
buffer is overfull or not: the parser's `+=` may store an index the receiver has
reset in between, but never one larger than the index the chunk was copied
from plus the chunk's length, the rest of the buffer is taken by storing a write
index of before or after the reset, and a copy that would leave the buffer ends the behaviour as undefined. While the
buffer is never overfull, `PacedInv` says that the critical sections exclude
each other and the lock is taken exactly inside of them; that the unread bytes
and the datagram at hand fit; that the unread byte at distance i is the i-th
after what the parser took, also between the three stores of a compaction,
where `Front` and `Count` say which index is already moved; and that the
parser's chunk is what comes next. From it follow `PacedStaysInBuffer` and
`PacedChunksInOrder`.

**VideoHandoffProofs**. `VideoTypeCorrect` for any number of pictures, sizes and
any queue. `DrawnSurfaceFits` and `DrawnSurfaceStays` from `SurfaceInv`: while the
display draws it holds `m_csDDraw`, and size and surface change only together,
under that lock; the conversion to RGB, outside of it, writes to a buffer of its own. `NothingTorn` is the hard one, as the lock of a message and the
picture that is shown may be those of different buffers. `Backlog` says that, up
to two pictures of delay, the messages not yet come to are the last ones, so that
the lock they carry is known from their number; `Locks` who holds each lock;
`Filled` that `m_pOutBuffer` is whole and not the decoder's current buffer; `Holding`
that a display which draws from the buffer it has no lock of has the lock of the
one the decoder must fill first.
`PicturesInOrder` needs none of this and no bound on the lag: pictures may be torn
or skipped but do not go back. `OrderInv`: the display throws all messages
away when it takes one (`Drain`), so any it finds later was posted afterwards, when
`m_pOutBuffer` already pointed at a newer picture; since then the decoder has
written the other buffer only, until it hands a still newer one over; so whatever
a half will be drawn from is at least as new as what it shows (`NextShown`).

**TSStreamInfoProofs** (`StreamAssumption`: tables come alone in packets without an
adaptation field, and the PID a PAT names first carries a PMT if anything).
`ParserTypeCorrect`; `LogsAreFrameLog` from `LogInv` (the two counters of frames
differ by the open one, and the counter of packets is one behind while a frame is
open), the kind of a frame being what the parser reads; `ClockIsExact` and `RateIsTrue` for any packets, clocks and periods that meet
the conditions stated in `PcrExact` and `RateTrue`; the arithmetic of the rate (a
gap of two periods or more falls out of the window) is a lemma.

**PlayerSessionProofs** (`PlayerAssumption`). `PlayerTypeCorrect` needs that a goodbye ends
the RTCP thread that posts it (`Goodbyes`). The other four theorems,
`HandlersUseTheLiving`, `NoDecoderLeft`, `NoSessionLeft`, `StopIsOffered`, rest on
one invariant that holds until two handlers overlap: one thread is in a handler
(`Alone`), and `DecoderHeld`, `ClientHeld`, `OnAirHeld`, `Buttons` say for each place
in it which pointers are good, which session is played and what is enabled.
`NoSessionLeft` rests besides on `AskedHeld`: a client the server was asked to play
is the dialog's, or play was pressed again after it.
`overlap` is a history variable; `GoodbyesOverlap` says what it stands for. Counting
goodbyes posted and RTCP threads against the media of a client (`PartedInv`), a
status thread in a handler has taken one, and nothing else starts a second handler.
`SafeUntilGoodbye` draws the conclusion without `overlap`: until a goodbye has left
its queue, or was lost on the way, all four properties hold outright.

**TaskTimerProofs** (`TaskTimerAssumption`). `TimerTypeCorrect`, `TimersFireAsOrdered`,
`HandlersClosedOnce`, `NoDeadIterator` from `TimerInv`: a timer is in one place, the
list or `tmp_lst`, and in none when it is closed (`PlaceInv`); in no place only if
closed or just being registered (`NoneLost`); what is left to be called and when
follows from what was ordered and called (`OrderInv`, for any count, also one
below zero, of which one call is made); and where nothing is
removed, the node an insertion goes to is in the list until it is done
(`IteratorInv`), because only the thread itself takes nodes out.
`HeadFiresFirst` and `SleepsUntilDue` hold with removals too, until `overtaken`. Then
`SortInv` says that the list is sorted, and that the place an insertion has found
still fits its date: nothing before it is due later, and it is not due earlier,
than what is to be inserted. Removing keeps this (a list with elements left out is
sorted), and another insertion that breaks it is the one that sets `overtaken`.
`SleepInv` says, from the look at the head to the end of the sleep, that unless
the flag is set nothing in the list is due before the time slept to: what comes
into the list sets the flag. `OneShotsInOrder` gives a case where the condition
always holds: with counts of at most one the thread puts nothing back, so nothing is
overtaken. The lemmas about `RemoveAt` and `InsertAt` (elements, length, order) serve all
of these.

Every invariant and action property of the passing runs is proved. What only TLC
checks is liveness (`PacketsFlow`, `DtorEnds`, `FramesAreSent`, `DeletionsEnd`,
`StopEnds`, `CloseEnds`, `PicturesAreShown`, `BytesFlow`, `PutGetsIn`, `TimersFire`,
`GoodbyeStops`, `Metered`), since the prover does not handle fairness and ENABLED.

## 6. Disagreements

With a run (quoted under `findings` in `PROJECT.json`):

1. `TSMediaServer.cpp:246`: the reader waits for a free buffer without looking
   at `m_bStop`; once the sender has left, streamstop waits for ever.
2. `TsMediaTool.cpp:573`: streamstop deletes the object and leaves its map entry.
3. `TsMediaTool.cpp:714`: a disconnect deletes the streams of all clients.
4. `TimeDelayParser.cpp:235`: the reset of an overfull buffer runs without the
   lock; the buffer is not empty afterwards, and `GetBuff` may copy a negative
   number of bytes.

Seen while modelling, without a run of their own:

* When datagrams stop, the ring of the player is freed under a receiver that
  is still in `recvfrom`: without `LiveStream` in it `NothingUndefined`
  fails. The code accepts this (it waits five rounds); no line says otherwise.
* A datagram shorter than the RTP header it announces gives `put_queue` a negative
  size, which `memcpy` takes for a huge one (`RecvQueue.cpp:230`); without
  `ShortDatagrams` in it `NothingUndefined` fails at any pace.
* The clearing at a disconnect of the server (`TSMediaServer.cpp:935`) waits for
  the sender only and deletes the object under a reader that waits for a buffer
  or reads. `streamstop` of the server leaves
  its map entry, as that of the tool does.
* A paused stream cannot be deleted: the pause loops do not look at the stop
  flag (`TSMediaServer.cpp:190` and the sender's loop).
* The last frame of a file is never queued (`TSMediaServer.cpp:199`).
* When the file does not open the stream's thread returns without clearing its
  id, and whoever deletes the stream waits for ever (`TsMediaTool.cpp:203`);
  `StopEnds` and `CloseEnds` exclude it.
* The comment on `CreateUnique` (`TsMediaTool.cpp:27`) says that it generates a
  tid; it returns the tick count. A second streamstart within a tick is refused,
  and with two clients both may pass the `find`, so that the second object is in
  no map: `NoOrphan` and `TidNamesOwnStream` exclude clients that overlap.
* The comment at `TsMediaTool.cpp:244` says that the file is read again from two
  packets back, because a PMT may precede the PAT; the `fseek` at 245 skips the
  next two packets. Contents of files are not in `StreamControl`.
* `main` passes the address of one socket variable to every client thread
  (`TsMediaTool.cpp:803`), and the threads use one `std::map` without a lock.
  The model has the first and takes map operations as atomic.
* A display that is three pictures late can show a torn picture: then the
  decoder fills the buffer whose lock the display does not hold.
* When the size changes, a picture of the old size that is still under way is
  copied by the new size. Pictures in the model have no contents to garble.
* A PLAY that the server accepts and whose answer does not arrive leaves the player
  with a client it does not take for playing (`RTSPclient.cpp:366`). The next play
  deletes it without a TEARDOWN (`BBCV-PlayerDlg.cpp:414`), and the server plays
  on; so it is with a session without media whose port is refused.
  `PlayingIsTornDown` names just this case.
* A goodbye that comes before `m_bPlaying` is set is dropped, and what has ended
  is played.
* Goodbye and window: the status thread runs the stop handler beside whatever the
  window does. Without `overlap` in them, all four safety properties of
  `PlayerSession` fail: the decoder or the client is deleted twice, used in `Connect`
  or by the timer after its delete, or forgotten (`BBCV-PlayerDlg.cpp:530`).
* `Disconnect` does not stop the RTCP threads (`RTSPclient.cpp:174`): a datagram
  after the delete makes one read the dead client, however the user behaves.
* The comment at `TaskTimer.cpp:120` says that the head fires first; an insertion
  between the unlocked search and insertion of the timer thread breaks it, and a
  timer then fires late. If timers are removed, the insertion may follow an
  iterator into a freed node, and a timer on its way back cannot be removed.
* A signal between the test of the condition's flag and the sleep is missed, so
  that a new timer fires late by up to the old sleep (`Thread.cpp:22`).
* `wait()` can return, and the service be destroyed, while the thread is still in
  `uninitialize` (`Thread.cpp:115`).
* The clock is wrong from 2^31 on, a quarter of its range
  (`TSStreamInfo.cpp:1385`); clocks in packets that begin no unit are ignored, and
  those of other PIDs taken.
* The rate divides by zero for steps below a millisecond, and a stream of 30
  frames or more a second that loses frames may be measured at half its rate
  (`TSStreamInfo.cpp:772`).
* The first entry of a PAT is taken for the program even if it is the network's;
  a PMT that changes is not followed once all PIDs are known.
* An AVS picture whose packet has a sequence header and an extension start code
  is taken for MPEG-2 from then on. One whose packet has a sequence header and the
  slices of rows 8 and 5 is logged as an H.264 key frame (`TSStreamInfo.cpp:976`),
  and so with MPEG-1. The size of other key frames is not logged.

## 7. Limits of the models

Sockets deliver or fail, and nothing is said about loss on the network beyond
that. Memory is sequentially consistent; plain reads and writes of flags and
indices happen one at a time, except where a model splits them. The 40 ms pacing
is an order of steps without a clock. Files, packets and pictures have no
contents beyond what decides a branch. In `StreamControl` one command is sent
per reply. In `SendMedia` the file opens (the code reads from a null `FILE`
otherwise) and a frame fits into its buffer of 1 MB (which is not tested). Tables
of more than one packet or behind an adaptation field, and decoding times
are not in `TSStreamInfo`. `TaskTimer` has one user.

Exposed in this code and covered by no property, with the reason:

| Where | What | Why not |
|---|---|---|
| `TSMediaServer.cpp:190`, `:935`; `RTSPclient.cpp:174` | paused stop, clearing under the reader, RTCP threads of a dead client | in the models, and reachable at once: nothing to hold |
| `RecvQueue.cpp:230` | datagrams shorter than their header | in `RecvQueue` (`ShortDatagrams`); one is enough |
| `TSMediaServer.cpp:199` | the last frame of a file is never sent | always so |
| `TsMediaTool.cpp:803` | address of `main`'s socket variable handed over | in `StreamControl` ("overlap"); what a client promises itself of its socket is not stated |
| `TsMediaTool.cpp:616`, `:203` | an object used after another client's thread deleted it; a file that does not open and a deletion that then waits for ever | in `StreamControl`, and reachable as soon as clients are connected at once, or always |
| `TsMediaTool.cpp:505` | one `std::map` in several threads, no lock | operations of the map are atomic |
| `TsMediaTool.cpp:432` | two commands in one `recv` | framing is not modelled |
| `D3D9VideoPlayer.cpp:95` | old picture copied or converted by the new size | pictures have no contents |
| `Decoder.cpp:744` | decoder thread before its buffers exist | creation is not modelled |
| `AudioPlay.cpp:140` | test outside of the critical section | audio is not modelled |
| `BBCV-PlayerDlg.cpp:419`, `:513`; `RTSPclient.cpp:367` | status threads pile up; a goodbye before `m_bPlaying` is lost; message boxes let handlers in | one `NewClient` one thread, and the loss, are in `PlayerSession`; nothing promises otherwise; boxes are not modelled |
| `BBCV-PlayerDlg.cpp:530`; `Thread.cpp:115` | a goodbye during another handler; a service destroyed under its thread | in `PlayerSession` (`overlap`) and `TaskTimer` (`leaving`): the properties say what holds without |
| `TSStreamInfo.cpp:1385` | clocks from 2^31 on | in `TSStreamInfo`, always wrong |
| `TaskTimer.cpp:54`, `:72`, `:98` | `m_maxTimerId` without the mutex, cancelling during re-insertion, handlers under the mutex | one user; in the model; handlers that call back are not |
| `TSStreamInfo.cpp:1326` | tables behind an adaptation field | excluded by `StreamAssumption` |
| `TimeDelayParser.cpp:429`, `Parse_Main.cpp:89` | chunks shorter than a packet; indices never initialised | contents of chunks are not modelled; fresh pages are zero |
