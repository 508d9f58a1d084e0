# A verification development for KGD (kinoglaz)

KGD is a multithreaded RTSP/RTP streaming daemon in C++ (boost threads). This
directory holds TLA+ modules that model its own core logic, TLC configurations
that check them on small instances, and proofs that the TLA+ proof system checks
for all instances. Paths below are relative to `src/src`.

## 1. The system

| Part | State | Operations | Interacts with |
| --- | --- | --- | --- |
| Daemon, signals (`daemon.cpp`, `lib/daemon.cpp`, `main.cpp`) | configuration, singletons | start, SIGHUP reload, stop | server, port pool, descriptions |
| RTSP server (`rtsp/server.cpp`) | list of connections, limits | accept loop, cleaner thread, reload | connections (own a thread each) |
| RTSP connection (`rtsp/connection.cpp`) | sessions by id, descriptors, socket | `listen` (one request at a time), `shutdown` | socket, methods, RTSP sessions |
| RTSP socket, interleaving (`rtsp/interleave.cpp`, `rtsp/buffer.cpp`) | input buffer, channels | read, dispatch, `reply` = prepare, write, execute | connection, RTP/RTCP over TCP |
| RTSP methods (`rtsp/method.cpp`, `message.cpp`, `common.cpp`) | request, reply | OPTIONS, DESCRIBE, SETUP, PLAY, PAUSE, TEARDOWN, GET/SET_PARAMETER | connection, RTSP sessions |
| RTSP session (`rtsp/session.cpp`) | RTP sessions by track, flags | createSession, play, pause, unpause, teardown | ports, RTP sessions, descriptions |
| UDP port pool (`rtsp/ports.cpp`) | free and used ports | getPair, release, reset | RTSP and RTP sessions, SIGHUP |
| RTP session (`rtp/session*.cpp`) | flags STOPPED, PAUSED, SEEKED, frame in hand, thread, asleep barrier, wakeup condition | play, pause, unpause, teardown; send thread | RTCP threads, buffer, timeline |
| RTP frame buffer (`rtp/buffer.cpp`) | frames ahead, fetch thread | start, stop, seek, getNextFrame | frame iterators |
| RTP timeline (`rtp/chrono.cpp`) | segments | play, pause, seek, position | RTP session |
| RTP packets (`rtp/frame.cpp`, `packet.cpp`, `formats/`) | sequence number | split a frame in packets | RTP session |
| RTCP sender, receiver (`rtcp/`) | flags RUNNING, PAUSED, sync barrier, statistics | start, pause, unpause, stop, restart | RTP session |
| Descriptions, media, iterators (`sdp/`) | counted descriptions, shared frame lists | load, reference, next, prev, seek, loop | connections, buffers |
| Containers (`sdp/container*.cpp`) | loader thread | load, requestMore, stop | media |
| Thread utilities (`lib/utils/safe*.h`) | mutex, termination barrier, interruptible flag | wait, reset, interrupt | every thread above |

Every connection has its own thread; it holds the locks of the connection and of
the RTSP session while it handles a request, so requests of one client never
overlap. For each track a playing client has four threads more: the send thread,
the frame buffer's, and the two of RTCP. They share flags under mutexes, meet at
barriers of two and wait on conditions. Nearly everything hard is there: flags
tested, a mutex released, an event missed; a rendezvous whose partner is gone; an
interruption delivered too late; one step of several that fails; a reload in a
signal handler in the middle of all of it.

What makes each part correct, in short: no packet after PAUSE is answered, PAUSE
and TEARDOWN are answered, a played session plays, no thread survives its
session (RTP session); no port has two owners and none is lost (port pool); every rendezvous asked for is answered, and once (RTCP sender); a consumer
waiting for frames gets one or the end of the medium (frame buffer); every
request is handled in order, none twice, and what the answers have told the client
and where its tracks are agree (RTSP input, connection); connections end and are
reaped within the limit, and a server told to stop comes down (server); a frame is
stored once and freed when its last reader is done, and readers and loader do not
starve one another (media); tracks that were set going together stay together,
and announced RTP times hold (timeline); what is written to a shared connection can
be told apart, and the packets of a frame make it up (packets, interleaving).

`PROJECT.json` lists the components with what is modelled of each, and the
hazards found, at their line, with the properties that cover them.

## 2. The project

| Module | Component | Extends or instantiates | Proofs |
| --- | --- | --- | --- |
| `RtpSession`, `Playback` | RTP session, refining what a client is promised | `Playback` | `PlaybackProofs` |
| `PortPool` | UDP port pool | | `ServerProofs` |
| `RtpBuffer`, `FrameStream` | RTP frame buffer, refining a stream of frames | `FrameStream` | `RtpBufferProofs` |
| `RtcpSender`, `RtcpReports` | RTCP sender, refining what the RTP session takes for granted | `RtcpReports` | `RtcpSenderProofs` |
| `RtspConnection` | requests, RTSP sessions and tracks of one connection | | `RtspConnectionProofs` |
| `RtspSocket` | input buffer, RTSP socket, an interleaved channel and its receiver | | `RtspSocketProofs` |
| `RtspServer` | server, cleaner, signals | | `ServerProofs` |
| `SdpMedium` | loaders, media, iterators that share frames | | `SdpMediumProofs` |
| `FrameIterator` | media, playlists and iterators as operators | | |
| `RtpTimeline` | clocks and requests of several tracks | `FrameIterator` | `PlaybackProofs` |
| `RtpPackets` | packets of every format, RTCP packets, as operators | | |
| `RtpChannels` | send thread, RTCP and answers on UDP or one connection | `RtpPackets` | `RtpChannelsProofs` |

The MC modules give the constants that a configuration cannot. Each component has
one run with its safety, refinement and liveness together; two have a second one
for what holds under provisos only. Where the
code breaks a promise in a few interleavings only, a history variable says which
ones (`disturbed`, `refused`, `stray`, `torn`...): the run then shows both that
the promise holds and where it does not.

A proof module extends one component, or two that belong together: `PlaybackProofs`
a track's threads and the clocks of all tracks, `ServerProofs` the ports and the
places that all sessions share. For that the specification of `RtpTimeline` is called
`TimelineSpec` and that of `PortPool` `PoolSpec`.

Left for later: a lease that `PortPool` implements.

## 3. Modules

### RtpSession (and Playback)

One action per stretch of code between two points where the mutex of `_th` is
taken or released or the thread blocks. `cpc` and `spc` are the locations of the
control thread and of the send thread; `flag` is `_status.bag` and `_pause.sync`;
`th` the thread object with its `_interruptible` flag; `barrier` says who is
blocked in which barrier of two; `notified` belongs to the wait on
`_pause.wakeup`. The control thread acts under the mutex only where `Unlocked`.

| Code | Actions |
| --- | --- |
| `play(rq)`, `doFirstPlay`, `doSeekScale` | `DoFirstPlay`, `DoSeekScale` and their `...Fails` (the range is refused after flags changed) |
| `play()` | `PlayEffective`, then `NotifyWakeup` |
| `unpause()` | `Unpause`, then `NotifyWakeup` |
| `pause()` | `PauseAlready`, or `Pause`, `InterruptTest`, `InterruptSignal`, `CtlAsleepBarrier`, `PauseEnd` |
| `teardown()` | `Teardown`, `NotifyWakeup`, `StopBuffer`, `CtlTermBarrier`, `Join` |
| `fetchNextFrame()` | `BeginFetch`, `GetNextFrame`, `GetEof`, `InstallFrame`, `FetchEof` |
| `run()` | the other actions of `SendThread`, in the order of the code |
| a reply that fails between prepare and execute | `ReplyFails`, after which the connection tears down |

What is chosen freely: whether a frame is due, whether the requested end is
reached, whether a socket refuses a packet, whether a wait returns unasked.
A frame is the number of the seek it was buffered for. The two RTCP threads are
off, running or paused, and end by themselves at any moment (`RtcpEnds`): the sender
at a socket error, the receiver at one or at the client's BYE. Media go on without
them, so `RtcpFollowsMedia` says what the session sees to: it leaves none paused or
stopped beside its media; each runs or has ended by itself. The rendezvous with the
sender is always answered here, which `RtcpSender` shows to be so unless the sender
was disturbed.
After a TEARDOWN of a sleeping session the send thread may send one more frame,
since the pause loop tests only PAUSED before it reaches the send: the model
does so, and `Playback` allows it because TEARDOWN is not yet answered then.
Three constants switch the environment: `Prompt`, `BadRange`, `Spurious`.

`Playback` is the promise to the client: packets only while active, hushed from
the answer to PAUSE until the next PLAY, closed for good.

### PortPool

`range`, `free` and `used` are the members of `Pool`, `lock` the mutex of `Udp`;
`st` and `even` say where each RTP session over UDP is and which pair it has;
`reloading` is the location and loop variable of `Pool::reset`, which takes no mutex.
`Width` is the number of values of `TPort` (2^16 in the code), so that `++p`
wraps.

| Code | Actions |
| --- | --- |
| `Udp::getPair` | `FindPair`, `ErasePair`, `UsePair`, under the mutex; the caller's `OpenSockets` or `SetupFails` |
| `Udp::release` | `UnusePair`, `TestRange` or `TestNothing`, `FreePair`, under the mutex; `CloseSockets` |
| `Pool::reset`, from the signal handler | `Reload`, `SetLast`, `ClearFree`, `CheckPort`, `InsertPort`, `NextPort` |

A reload may run at any moment of the other two. `overlapped` records the operations
in whose midst one has: the pool then gives a port to two owners (`getPair`), which
`Exclusive` excepts, or loses one or offers one of another range (`release`), which
`NoPortLost` excepts. What two threads in a `std::set` at once do to the tree itself
is not followed: such outcomes are not bounded. A range may end at the last port;
the loop of `reset` then wraps and has no end, and the runs have such reloads. A pool
does not begin with such a range, since the loop of its constructor would not end
either. That a reload ends is therefore no property of the pool.

### RtpBuffer (and FrameStream)

Three threads: `fetch` is the buffer's own (`AVFrame::fetch`), `consumer` the
session's send thread in `getNextFrame`, `control` the thread that handles
requests in `seek`, `drySeek`, `start` and `stop`. One action per stretch between
two points where the mutex of `_frame` is taken or given up. The only place where
a thread keeps the mutex from one action to the next is the consumer between its
test and its wait (`low`): there the fetch thread's end, which runs without the
mutex, can come in. `woken` belongs to the waits in progress on the two
conditions. A frame is its position, one second after the one before, so that
`TimeSize`, the water marks `Low` and `Full` and the bound count frames; `scale` is
its sign. The iterator is `Iterator::Default`, or `Loop` for ever when `Endless`;
going off either end is `OutOfBounds`. Whether it is a buffer of `audio` or of video is chosen
at the start, and seeks are granted and refused in both directions.

| Code | Actions |
| --- | --- |
| `fetch()` | `FetchTest`, `FetchWoken`, the yield, `FetchFrame`, `FetchNothing`, `PassAllBy`, `Spin` or `FetchOutOfBounds`, `FetchSignal`; `FetchEnds`, `FetchSaysSo` |
| `getNextFrame()` | `Call`, `TestLow`, `WaitFull`, `ConsumerWoken`, `TakeFrame`, `TakeEof`, `ConsumerSignal` |
| `seek()` | `Seek` or `SeekFails`, then `start()` |
| `drySeek()` | `DrySeek` |
| `start()` | `StartThread`, or `StartAgain` and `StartNotify`, or `Join` first |
| `stop()` | `Stop`, `StopNotify`, `Join` |

Backwards nothing is ever delivered. Audio fetches nothing (`FetchNothing`), and its
buffer is low and full at once (`Backwards`). Of video, the loop that passes frames over
never ends with one, because `++n < _scale` is false for a negative scale
(`rtp/buffer.cpp:407`): over a medium that ends it runs out of bounds (`PassAllBy`), over
one that loops it spins for ever and holds the mutex (`Spin`). `forgotten` records that
a refused seek has emptied a full buffer over a fetch thread that waits for room and is
not told (`rtp/buffer.cpp:324`). `Lost` collects where the code leaves its consumer
waiting.

`Low <= Full` is assumed; the configuration does not check it, and with
`buf-empty` above `buf-full` both threads would wait. Fast video, which
fetches key frames only, is left out, and so are `insertMedium` and `insertTime`:
their only caller (`rtsp/method.cpp:418-423`) is commented out.

`FrameStream` is the promise: from the position of the last seek the frames of
the medium in play order, each once, none left out; backwards, none.

### RtcpSender (and RtcpReports)

`rtp` is the RTP send thread in its calls to the sender, `phase` which calls it may
make next (the order of `RTP::Session::run`), `snd` the sender's thread. Whoever
takes the mutex of `_th` goes on to the point where it gives it up, so that the
mutex is free between actions; `kept` says that `start()` returned without giving
it up. `barrier` holds the two barriers of two, the rendezvous `_syncRTP` and the
termination barrier, as boost implements them: an interrupted waiter is forgotten
but its arrival stays counted. `interrupt()` is two actions, the test of the flag
and the signal; the flag starts with any value, as the constructor leaves it.
There are no constants and the state space is finite.

`disturbed` records that an interruption reached the sender at the rendezvous, or
that a restart came before it was done with the rendezvous or the interruption
before. In these runs, and in no others, the RTP thread may wait for ever:
`releaseRTP` clears the request that the new restart has just made
(`rtcp/sender.cpp:131`), or an interruption swallowed at the barrier lets the sender
through alone (`rtcp/sender.cpp:128`).

`RtcpReports` is the promise, and what `RtpSession` has for a sender: reports leave
while they are asked for, and after a stop one more, once, the report that is put in
front of the BYE (`rtcp/sender.cpp:182`).

### RtspConnection

The thread of a connection with `todo`, the method between its `prepare` and its
`execute`; `rtp` says of each RTP session, by RTSP session and track, where it is:
`stopped`, `held` (times set, no thread yet), `playing`, `paused`, or `lost` (neither
PAUSED nor a thread: what a refused first PLAY and an unpause leave). All of a
request happens under the lock of the connection; between two requests streams end
by themselves, and a reply may fail, which closes the connection. `told` is what the
answers so far have told the client of each RTP session, and `AsTold` compares it with
where that session is, whenever the connection listens: after a partial TEARDOWN, a
second SETUP, a failed PLAY or a stream that ended too.

| Code | Actions |
| --- | --- |
| `Method::*::prepare` | `Options`, `Describe`, `Setup`, `Play` (`PlayAll`, `PlayOne`), `Pause`, `Teardown`, each with the refusals of `UrlOk`, `SessionOk`, `TrackOk`, `getTransport`, `BadPlay` |
| `Socket::reply`, `execute` | `Answer`: `AnswerPlay`, `AnswerTeardown`, `AnswerFreed`; `ReplyFails` |
| `listen`, `run`, `shutdown` | `Refused`, `ListenEnds`, `Shutdown` |

`Play::getReply` looks the track up before anything is written, so a PLAY is answered
once; a TEARDOWN of a track that is gone has a second reply. What is read from a deleted
RTSP session (`AnswerFreed`) may be anything. A file is there, and a range is within all tracks, beyond the short one, or
misordered. Aggregate control over the map of tracks is in track order.

### RtspSocket

Bytes are units: a message of text is a line, the empty line after it, and its
body; a packet of a channel has its header and its data, with or without a NUL
(the search of the empty line goes through a C string and stops there). `wire` is
what the client has written, `buf` the input buffer. The reads cut the stream
anywhere. `Width` stands for the 2^16 of `Buffer::dequeue`.

| Code | Actions |
| --- | --- |
| `Socket::listen` | `enqueue`, `ReadMore`, `ReadFails`; `getNextRequest`, `ReplyError`, `getNextResponse`, `Unrecognized`, `getNextInterleave` then `pushToRead`, `NoSuchChannel` |
| SETUP, PLAY, TEARDOWN of an interleaved track | `addInterleavePair`, `start`, `stopInterleaving`, `stop`, `release` |
| `RTCP::Receiver::run`, `Interleave::readSome` | `run`, `readSome`, `wait`, `wake`, `waitMore` |
| `RTCP::Receiver::pause`, `unpause`, from the session's threads | `pause`, `unpause` |

While its session is paused the receiver stands in `doPause` and reads nothing, as long
as the client likes; `PushedIsRead` promises that what is pushed is read, unless the
session is paused first, and what came then once it plays again.
Nobody reads the RTP channel of an interleaved pair: its deque grows by whatever a
client sends there. The model has the RTCP channel.

### RtspServer

Threads are the main one, the cleaner and one for each connection; `owner` is the
recursive mutex of the singleton, `todo` the connections its owner has still to ask
whether they are active (which takes the lock of each). A signal is handled by any
thread (`at`), on top of what it was doing; the handler takes the mutex of the
server, and a reload cuts the list without the mutex and may close the socket under
`accept`.

| Code | Actions |
| --- | --- |
| `Server::start`, `run`, `handle` | `start`, `run`, `accept`, `acceptFails`, `handle`, `Sweep`, `refuse`; `admit`, then `push_back` or `keepAliveFails` |
| `~Server` | `destroyInstance`, `join`, `clear` |
| `Connections::run` | `clean`, `cleanLock`, `Sweep`, `cleanErase`, `wakeup` |
| `SigHandler::term`, `hup`, `setupParameters` | `Signal`; `term`; `hup`, `pop_back`, `setupParameters` |
| `Connection` | `Connect`, `Serve`, `Served`, `Leave` |

A client beyond the limit makes `handle` throw out of the accept loop: the server
stops, with all of its connections. So does one whose socket refuses the keepalive.
The client is checked (`admit`) and entered (`push_back`) in two steps, and a reload
on the main thread may lower the limit in between: `setupParameters` cuts the list,
which has one more a moment later. `raced` records it, and `LimitKept` excepts it.

### SdpMedium

The loading thread of a file that can be sought (which keeps all frames), of one
that cannot and of a device (which free a frame when all iterators have released
it), and the iterators of RTP buffers or of a playlist that copies the medium.

| Code | Actions |
| --- | --- |
| `mediaContainerLoop` | `readFrame`, `readEof`, `readError`, `measure`, `suspend`, `resume`, `finalize` |
| `liveCastLoop` | `captureFrame`, `captureNothing`, `pushFrames` (in the order of time), `finalize` |
| iterators | `newFrameIterator`, `seek`, `getFramePos`, `sought`, `next`, `getFrame`, `releaseIterator` |
| `sendNextFrame` as user of a frame | `sendFrame` with `releaseFrame` and `requestMoreFrames` |
| `AVFrame::stop`, `~Container` | `stop`; `close`, `notifyLoader`, `joined` |

The code goes wrong in four ways, which the properties except by name: releases
are counted, not who made them, so that one who leaves or seeks lets a frame be
freed under a reader, whose `NullPointer` nobody catches (`Undisturbed`); the
loader sleeps on the track it read last, whether or not that one is played, and
a notice may come before it sleeps (`Starved`); and a read that fails otherwise than at
the end is logged and tried again (`readError`, `captureNothing`), without end if the
file or the device fails always, and the readers are not told (`Failing`). A few such
reads in between do no harm. Besides, a TEARDOWN cannot wake a
fetch thread from `getFrame`, and media of a playlist keep a reference to a
container that is gone; neither is the subject of a property.

### FrameIterator and RtpTimeline

`FrameIterator` has the media as `loadPlayList` and `append` make them of the lines of
a playlist, the iterators `Default` and `Loop` with `next`, `seek` by time and by
position, and `fetchNextFrame` of audio and video. An operation gives
`[ok, frame, it]`. `RtpTimeline` runs the clocks of an audio and a video track: a
request is stamped when it is read (`receivePlay`, `receiveResume`, `receivePause`,
`receiveTeardown`) and takes effect track by track, at any time after.

| Code | Actions |
| --- | --- |
| `RTSP::Session::play(rq)`, `RTP::Session::eval`, `PlayRequest::merge` | `evalStopped`, `evalPlaying`, `evalRefused` |
| `RTP::Session::play(rq)`, `doFirstPlay`, `doSeekScale`, `Medium::seek` | `apply`, `applyRefused` |
| `Play::getReply` | `answer`; `report` when it resumes |
| `getPlayRange` | `getPlayRange`, track by track |
| `play()`, `unpause`, `pause`, `teardown` | `play`, `unpause`, `pause`, `teardown` |
| `RTP::Session::run`, its first fetch | `installFrame`, `firstFails` |
| `fetchNextFrame` | `seekedFetch`, `skipFrame`, `installFrame`, `reachEof` |
| `sendNextFrame` and the sleep before it | `sendNextFrame`, `sendLateFrame`, `reachEnd` |

A PLAY that resumes asks each track where it is at its own moment and answers with
the merge of them (`report`), as of the moment of the first (`asof`).

The `reel` of a track is its send thread: whether it is there, what it has in hand, the
flag SEEKED, what it passes over, and a late frame. A PLAY that seeks may catch it
asleep, in a fetch, or with a frame of the old place fetched (`Caught`): that frame, one
at most, is still sent (`sendLateFrame`). After a seek, frames more than a second ahead of
the place sought are passed over (`skipFrame`), key frames too, so that a sparse video
may begin much later than asked for. A first fetch that fails ends the process
(`firstFails`). `InTurn` says which frames are sent then: in the order of the playlist,
each once, from the place sought, but for those passed over and the one late frame.

Time is in whole seconds, RTP time in half seconds of the clock rate, speeds are
1, 2, -1 and -2. Seen while modelling, beside what the hazards list: `merge` widens
a range though its comment (`rtsp/common.h:75`) says it keeps the strictest; a seek
after the last key frame of a round of a loop is refused; a late seek of a clock
that runs jumps by the delay; a track that pauses itself between `play(rq)` and
`play()` is left playing with a clock that stands; video played backwards sends
nothing, and in a loop the search holds the mutex for ever (`rtp/buffer.cpp:412`);
`loop 256` is no end, the number being a byte; a track that a file of a playlist
lacks is cut short by it, so that later files come too early.

### RtpPackets and RtpChannels

`RtpPackets` has `getPackets` of each format with marker, number and the bytes it
adds, and the length of the RTCP packets that are sent and whether
those received are understood. `RtpChannels` sends them: over UDP, or interleaved in
the RTSP connection together with its answers.

| Code | Actions |
| --- | --- |
| `Session::sendNextFrame` and its errors | `NextFrame`, `FrameRefused`, `Eof`, `PacketSent`, `PacketCut`, `PacketLost`, `PacketFails` |
| `RTCP::Sender` | `SendReport` |
| RTSP thread | `Play`, `Unpause`, `Pause`, `Teardown`, `Close`; `Reply`, `ReplySome`, `ReplyBlocked` |
| `RTCP::Receiver` | `ClientReports`, `Receive` (`push`) |

Sockets have a write timeout of a tenth of a second, so a write may take some of its
bytes or none. What is left of an answer is written on; what is left of a packet or
report of an interleaved channel goes out in a new envelope, and the client has lost
its place for good (`torn`). An answer that is given up half way (`ReplyBlocked`) tears
the stream too: `reply` throws and gives up the lock, but the channels stay open until
the connection shuts down (`serving`), and after that for a thread that is already past
its look at `_running` (`late`). Less than four bytes would make a negative count of
what was written; `ShortsAssumption` leaves that out. Also seen: a frame too long
for its format (`Fits`) throws out of `sendNextFrame throw()`, which ends the
process (`FrameRefused`); a report that would block stays in front of
the next compound; the source description is not padded in a compound and the
header of a BYE announces 8 of its 26 bytes; `mpa-robust` is announced for MP3 and raw
frames are sent, because `MP3::addFrame(Frame::MediaFile *)` (`formats/mp3.h:83`) hides
and does not override the `addFrame(Frame::Base *)` that the loader calls through
`Medium::Base &` (`sdp/container_mediafile.cpp:114-116`), so that no ADU is built; the
comment of the packet loss timeout says 10 seconds, the code waits 5 (`rtp/session.cpp:369`); the
answer to a PLAY that resumes names the number at which the session began.

Of what a client reports, a source description of two or more sources is refused, the
items of the first being read to the end, and so is one with a byte after its items;
what follows a refused packet is misread (`astray`). A packet of unknown type makes
`push` scan again one byte on. A BYE ends the receiver's loop of reads only, so packets
behind it in the same read are handled (`Received`); the comment there (`BYE, break the
loop`, `rtcp/receiver.cpp:262`) says otherwise.

`Carried` has two parts: `NumberedOn` for the numbers of the packets, and `MadeUp` for
the frames they carry. `FilmsAssumption` says that frames
are not empty, which the loader sees to, and `ReportsAssumption` that a packet of the
client has a length.

## 4. Runs

| Run | Shows |
| --- | --- |
| `rtp_session` | safety of one session and `ImplementsPlayback`, every request at every moment, RTCP threads that end by themselves, all three environment switches on |
| `rtp_session_live` | PAUSE and TEARDOWN are answered, a playing session is awake, given the provisos below |
| `port_pool` | exclusion and conservation of ports while reloads change the range at any moment, but for the operations one has run in the midst of |
| `rtp_buffer` | audio and video over a medium that ends, both ways, refused seeks, unasked wakeups: the buffer is bounded and implements `FrameStream`, seek and stop return |
| `rtp_buffer_live` | audio and video over one that loops, both ways, refused seeks: the consumer is served and the two threads are never both asleep, but in the cases the properties name |
| `rtcp_sender` | the mutex, `RtcpReports` with the report of the BYE, release of the RTP thread and return of `stop()` in every interleaving |
| `rtsp_connection` | what the answers have told and where the tracks are agree, a refused aggregate has moved nothing, and no PAUSE waits for a thread that is not there, but for the cases named |
| `rtsp_socket` | however a stream is cut, requests are served in order and once, one message is taken per read, and what is pushed to a channel is read there while its session plays |
| `rtsp_server` | the limit is kept, and a server told to stop comes down with its threads |
| `sdp_medium` | frames are stored in order and kept for every reader; who waits for a frame gets it or learns that there is none, unless every read fails |
| `rtp_timeline` | tracks stay together, announced RTP times hold, frames come in the order of the playlist, from the place sought |
| `rtp_channels` | a shared connection can be told apart, packets are numbered without gaps but for losses and make up their frames, reports are parsed once |

**Bounds.** `MaxSeeks` bounds the PLAY requests that seek and `MaxFrames` the
frames after each: two of each reach a seek during a fetch, the end of the medium
before and after a seek, and a second seek over a stale frame. PAUSE, unpause and
TEARDOWN are not bounded. For ports: three sessions on ranges of up to six ports
that overlap and start or end inside a pair, so that pairs run out, are given
back whole, in part or not at all, and one range that ends at the last port; reloads
are not bounded. For the buffer: four frames, low at one second and full at two, so
that the buffer fills before the medium ends and the fetch thread sleeps, ends and is restarted; three seeks.
For the connection: two tracks and two RTSP sessions, so that aggregates may fail
at the first or the second track and a request may name another's session; two RTP
sessions in all (`MaxRtp`), requests without bound. For the socket: all nine kinds
of messages, four of them (`MaxMsgs`), four units unread (`MaxWire`) and four values
of the dequeue argument (`Width`), so that a body exceeds it. For the server: two
connections, limits of none and one, two signals and two requests, so that a
handler meets a busy connection, another handler's reload and the sweep. For media:
eight packets of two tracks and of none, two iterators, one of which may seek
again; a loader and buffers with low and full marks of one and two. For the
timeline: clocks of two seconds and two or three requests of each film (`asks`), over a
file whose key frames are seconds apart, so that a seek passes frames over, playlists
with two rounds, one to a VLC client, and one played live, whose plays start and end at
each boundary and go both ways. For the channels: frames one byte short of, at and
over a packet, and two, and one too long; first numbers 1 and 65534, so that the
numbers wrap; up to two faults, two requests, two reports; three reports of a
client, of every kind, broken and unknown ones too, cut one byte around each boundary;
an answer of 108 bytes of which a write takes 4 or 100 at least.

**Fairness.** `WF(Control)` and `WF(SendThread)` in `RtpSession`: both are threads
the kernel schedules, and a request once begun goes on; no client has to ask for
anything. A connection that broke shuts down by itself, so `Control` includes its
teardown. The mutex is held only over steps that end, and the medium is finite,
so weak fairness is enough. In `RtpBuffer` the fetch thread and a request have strong fairness: each waits for a
mutex that the other threads take and give up for ever, and a mutex that is free
time and again is eventually got. A wait is owed an end only once it has been
notified, in `RtcpSender` too; unasked wakeups happen but nothing relies on them.
There `SF(Report \/ ReportFails)` says that a socket does not block at every
report for ever. In `RtspSocket` the thread of the connection and the receiver are
fair, the client is not; the receiver's wait is timed (the poll interval). In
`RtspServer` the main thread, the cleaner (whose wait is timed) and a handler go on,
and a request that has begun ends; no client comes or goes. In `SdpMedium` the loader, the
readers, who closes the container and the sessions that play go on; nobody has to
come, seek or leave. `PortPool`, `RtspConnection`, `RtpTimeline` and `RtpChannels`
state no liveness.

**Provisos.** `rtp_session_live` sets `Prompt`, `BadRange` and `Spurious` to
FALSE: no request between the asleep barrier and the wakeup wait, no refused
range, no unasked wakeup. Each is needed: with `Prompt` TRUE a PLAY right after the
answer to PAUSE is lost and the session sleeps though it plays (`PlayingIsAwake`
fails); with `BadRange` TRUE a first PLAY that is refused leaves the session PAUSED
without a thread, and PAUSE after an unpause waits for one for ever
(`PauseReturns` fails); a spurious wakeup leaves `sync` set from a previous PAUSE,
so that the thread goes to a barrier nobody else will come to. The other runs
exclude nothing of the environment but by their bounds; where the code fails, a property names the case:

- `NeverBothAsleep` and `ConsumerServed`: audio played backwards is low and full at once,
  and both threads sleep (`rtp/buffer.cpp:349-356`); a refused seek has cleared the
  buffer without waking the fetch thread (`rtp/buffer.cpp:324`); the consumer misses the
  end that is told between its test and its wait (`rtp/buffer.cpp:276`); the fetch thread
  spins over a looping video played backwards (`rtp/buffer.cpp:407`). A spin holds up
  seek and stop as well, so `ControlReturns` is run over a medium that ends.
- `Exclusive`, `NoPortLost`: a reload in the midst of a `getPair`, of a `release`
  (`overlapped`).
- `Fed`: a loader that sleeps with nobody to wake it, reads that fail for ever.
- `PushedIsRead`: a session that is paused.
- the histories `disturbed`, `refused`, `stray`, `raced` and `torn`, at their modules.

**What the code does not keep.** Some statements about the program are violated,
and stand in the modules as definitions no run checks. Each is seen by adding it to
a configuration:

| Definition | Configuration | What happens |
| --- | --- | --- |
| `NoEscapingEof` | invariant in `rtp_session.cfg` | the first fetch is outside the `try` (`rtp/session.cpp:225`); a TEARDOWN during it lets `Eof` out of `run() throw()` |
| `TimeInMediumAccepted` | invariant in `rtp_buffer.cfg` | once the iterator is at the end, a dry seek is refused on its way back (`rtp/buffer.cpp:145`) |
| `ThreadIsNew` | invariant in `rtcp_sender.cfg` | PLAY after a PAUSE, on a session whose RTCP socket failed, aborts the daemon |
| `PrepareThrowsManagedOnly` | invariant in `rtsp_connection.cfg` | a PLAY of one track beyond its end throws `OutOfBounds`, and the process ends |
| `RefusedAlone` | property in `rtsp_server.cfg` | one client too many brings the server down |
| `PlaysForever` | property in `rtp_timeline.cfg`, with `Films <- MCEndless` | the end of an endless playlist is `signedMax(0, HUGE_VAL)`, which is 0: it ends at once |

**Deadlock** is switched off where the system may stop: a session that is torn
down, a buffer, sender or server that is stopped, a connection whose client is
gone, a medium at its end, a clock or a count at its bound, a process that ended.

## 5. Proofs

**`RtpSession`.** `PlaybackProofs` proves, for all bounds and environments, from the assumptions
named in `RtpSession` only:

- `TypeCorrect`, and `Invariance` of `IInv == TypeOK /\ LifeInv /\ PauseInv /\
  StaleInv /\ RtcpInv`. None of the safety invariants is inductive: that
  `PauseRendezvous` holds needs to know that PAUSE holds on to its request while
  the send thread may pause itself (`PauseInv`), that media have the RTCP
  threads beside them that have not ended by themselves needs to know in which
  locations those may be paused (`RtcpInv`),
  that one stale frame at most is sent needs the frame in hand, the installed
  one and the count together (`StaleInv`), and that nothing is left behind needs
  to know which barrier each thread has passed (`LifeInv`).
- from it `PauseMeets`, `AtMostOneStaleFrame`, `RtcpAccompaniesMedia`,
  `NothingLeft`, the action property `PausedIsSilent`, and `Refinement`: the
  session implements `Playback`, step by step.

**`PortPool`.** `ServerProofs` proves `TypeCorrect`, `PortsExclusive` and `PortsKept` with
reloads at any moment, those that have no end included, for any number of sessions,
ports and ranges. The exceptions are those of the code: a pool in which no
reload has run in the midst of a `getPair` has no port with two owners, and one in which
none has in the midst of a `release` has lost none and offers none of another range. The
invariant says who owns which ports at each location: free and used are disjoint, a pair
just erased from `free` is in neither set (`PairInv`), a session inside an operation holds
the mutex (`LockInv`), and during a reload the ports the loop has passed are all free or
used (`RangeInv`).

**`RtpBuffer`.** `RtpBufferProofs` proves, for media of any length, looping or not, any marks and
every environment, `TypeCorrect`, `NeverOverfull` and `Refinement`, and, with room for a
frame (`Full > 0`), `OneIsAwake`, for audio and video and any seeks. With both marks
zero an empty buffer of audio is full, and both threads do sleep. `Bounded` is not
inductive: the fetch thread gives the mutex away between its test that there is
room and its fetch, so the invariant says that there is still room then (`Room`);
for the refinement it says that the buffered frames are successive and the
iterator is next to the last of them (`InOrder`), and on which side of the medium
it can be (`Ends`). For `OneIsAwake`, `AwakeInv` says that a fetch thread
which sleeps untold has the low mark of frames, or somebody is about to signal it,
and a consumer which sleeps untold has fewer, or is about to be signalled: both
cannot be so at once.

**`RtcpSender`.** `RtcpSenderProofs` proves `TypeCorrect`, `MutexIsReturned` and `Refinement`. It
has no bounds to generalise; the proofs give the reason. `start()` forgets the
mutex when the thread runs unpaused, which never happens because nothing but
`start()` turns a thread on that its caller found off (`OffUntilStart`). In the refinement
the report that goes with the BYE is the one a stop still allows (`RtcpReports`).

**`RtspConnection`.** `RtspConnectionProofs` proves all four properties of `rtsp_connection`, and type
correctness, for any tracks, RTSP sessions and RTP sessions. That no PAUSE waits
for a thread that does not exist is not inductive: it needs `HeldInv`, that unless a
first PLAY was refused an RTP session has its times set and no thread only from
the `prepare` to the `execute` of that PLAY (`BeingPlayed`), and none is `lost`.
`TodoInv` says that what waits for its answer still finds the sessions its `prepare`
has looked up. `KeepsItsWord`, that the tracks are where the answers have said, needs to
know it in the midst of a request as well: `AgreeInv` says what a `prepare` has already
done of what its answer is yet to tell (`Expected`). `AllOrNone` rests on `ShortInv`, that the far range
is beyond one track at most.

**`RtpChannels`.** `RtpChannelsProofs` proves `StaysFramed` for frames, reports and answers of any
length and any number of faults. The invariant: while the connection is open, as
much is owed of an answer as its thread, which holds the lock, has left to write
(`AnswerInv`); what is owed of a packet or report, or of an answer given up, has been
torn (`TornInv`), whichever late thread still writes; over UDP nothing is owed
(`UdpInv`).

`HandledOnce` proves `ParsedOnce` for any packets of the client, read up to any byte.
`ParseInv` says that they end one behind the other (`EndsInOrder`) and that those
handled are the first ones, packets of unknown types among them. From it the greatest packet that `push` may reach
exists, and the next is not all there or `astray`.

`CarriesTheTrack` proves `Carried` for tracks of any format, with frames of any number
and length, PLAYs and pauses at any moment and any losses. It has two arguments:

- of the data (`CutFacts`, `PiecesMakeUp`): the slices of a frame, for each of the three
  payload sizes, follow one another, none is empty, all but the last are full, and with
  the marker and the extra bytes of its format each says what the format wants;
- of the steps (`CarryInv`): a packet that waits or is out is the piece of its frame that
  its place since PLAY calls for (`PieceOf`); what is out of its frame comes right
  before it, with nothing lost between (`OutInv`, `WaitingInv`), because what is given
  up is given up to the end of the frame; and the number in use is that of the last
  place (`SeqInv`).

The type invariants of `PortPool`, `RtpBuffer`, `RtcpSender` and `RtspConnection` are
proved and not run.

**`SdpMedium`.** `SdpMediumProofs` proves `StoredInOrder` for files of any length, any order in which
a device encodes its frames, and any number of media and iterators. `OrderInv` says
why: what is still to be read from a file is later than what its medium stores
(`FileAhead`, from `FileAssumption`, which `cacheFrame` asserts), a device stores its
frames by their numbers (`Numbered`), and releasing a frame changes no time.
`FreedWhenSentByAll` proves `KeptForAll` for any finite set of iterators
(`ItersAssumption`). Releases are counted, so the invariant counts: as long as nobody
has left or sought (`Undisturbed`), a frame has at most as many releases as iterators
that have sent it, and exactly as many if an iterator may begin there (`CountInv`), so
that a frame whose count is complete was sent by each. What an iterator has in hand
are the frames after the last it has sent (`HoldInv`), and one that comes later begins
behind all that is freed, since those precede every `Entry`.

**`RtspServer`.** `LimitIsKept` (in `ServerProofs`) holds for any number of clients,
signals and reloads, and any limits. A client that was let in finds room in the list
when it is entered (`RoomInv`), since only its own entry makes the list longer, the
cleaner and a reload make it shorter, and a limit that changes in between is `raced`.

**`RtspSocket`.** `RtspSocketProofs` proves `ServedInOrder` and `WaitBounded` for any
number of messages of any kinds and lengths, cut anywhere. `OrderInv` speaks of the
buffer and of what is still to be read as one sequence of units: each is followed by
the rest of its message and then by the next one (`Whole`), what opens later is later
(`Later`), and what was handled is before all of it (`HandledInv`); unless something
else than one message was dequeued, the sequence begins with a message, and the
requests before that one are exactly those handled (`CutInv`). `WaitInv` counts the
messages that are complete: at most one for each that a read brought beyond its
first, and one more from the read to the parse.

**`RtpTimeline`.** `PlaybackProofs` proves `AnnouncedForGood` and `TracksTogether` for
any number of tracks, any media and playlists, requests and delays. A clock is always
at one of four things (`ClockInv`): it plays, it is paused, it was never started, or it
was stopped; the status of its track says which but for a track that paused itself.
For each of the four the RTP time of a place does not depend on the moment it is
computed for (`Steady`): life, pause and play time grow so that they cancel out. Each
of `pause`, `unpause` and `stop` leaves what the clock says of the moment of the
request as it was (`PauseMoves`, `UnpauseMoves`, `StopMoves`), therefore of every
moment. That a PLAY finds its tracks prepared when it starts them is `ReadyInv`. For
`TracksTogether` the tracks in step are compared at the time of the request in hand,
not now: a loop moves them one by one, all at that time, so they show the same then
though some run already and others stand (`StepInv` says which, at each place of the
loop); once the loop is over they run or stand together again. A clock that was
running when a PLAY came late is stopped by the clock instead (`Late`), and the track
drops out. What the send threads fetch, pass over and send moves no clock
(`TakesFrames`); a first fetch that fails ends all of them (`FirstFails`). The invariants were checked by TLC on the instance of `rtp_timeline`
before they were proved.

What stays with TLC: liveness and everything that speaks of ENABLED, which the prover
does not do, and `InTurn`, an action property of the playlist whose recursive function
was not reasoned about. Every invariant that a run checks is proved.

## 6. Not modelled

See `components` in `PROJECT.json`. Left out for good:

- decoding and encoding (libavformat), video capture, the wording of messages and
  of descriptions, logging, configuration, forking and the pid file;
- the pool of shared descriptions (`sdp/descriptions.cpp`): after the insertion of
  a new container the pointer it returns is empty, so that the first load returns a
  null reference and the process ends. There is no working state to model;
- code without a live caller: `insertMedium`, `insertTime`, `getFrames`
  (`rtp/buffer.cpp`), `insertMedia`, `Container::insert` (`sdp/`);
- setters of socket options, the bounds of the adaptive poll, and the 32-bit
  arithmetic of statistics;
- data races on the flags that the code reads without a lock, beyond the order of
  reads and writes that the models allow.

Seen while modelling and not the subject of a run: a seek that meets a fetch thread
about to end starts no other, so that the position just sought ends at once
(`rtp/buffer.cpp:190`); a SETUP that fails keeps its ports (`rtsp/session.cpp:96`);
ports are offered again before their sockets are closed (`rtp/session.cpp:120`);
`setReadTimeout` sets the send timeout (`lib/socket.cpp:246`), so that a receiver
over UDP is stopped by the next report only; `interrupt()` tests its flag and acts
on it without a lock, and the constructor leaves the flag as it is
(`lib/utils/safe_base.h:137`; `RtcpSender` has both).
