# Verification of the Mednafen PS3 core

mednafen-ps3 joins three things in one process: the Mednafen library
(`src/mednafen/src/mednafen`), a front end for it (`src/mednafen/src`) and a
platform layer (`src/system`, with one port per platform: `cell` for the
PlayStation 3, `sdl`, `windows`). Emulated systems plug into the library as
modules. This directory holds TLA+ models of the code that these parts run
between them, the TLC runs that check the models on small instances, and
proofs, checked by TLAPS, for all values of the constants.

Paths below are shortened: `M/` is `src/mednafen/src/mednafen/`, `F/` is
`src/mednafen/src/`, `S/` is `src/system/`.

## 1. The system

### 1.1 Components

| component | source | state | operations | model |
|---|---|---|---|---|
| CD interface | `M/cdrom/cdromif.cpp` | two message queues, a circular buffer of 256 sectors, the reader's read-ahead position | open, read raw, read data, hint, close; reader thread | `CdInterface`, `DiscService` |
| State rewinding | `M/state.cpp` 1000-1267, `M/mednafen.cpp` MDFNI_Emulate | ring of compressed moments (`bcs`), `bcspos`, `EvilEnabled` | frame forwards, frame backwards, begin, end, flush | `StateRewind`, `RewindHistory` |
| Movies | `M/movie.cpp` | `current`, the slot files, `RewindBuffer` | start, stop, add inputs, command, state; play | `StateRewind` (partly) |
| Game session | `F/mednafen_help.cpp`, `F/main.cpp`, `F/mednafen_implement.cpp`, `M/mednafen.cpp` | what either side knows of the game, disc, recorders, rewinding, netplay | load, close, frame, record, change settings, connect, leave | `GameSession` (partly) |
| Sound output | `S/src/utility/AudioBuffer.h`, `S/cell/PlatformAudio.cpp` | ring of 8192 samples, two counters, a semaphore | add samples, callback, shutdown | `AudioRing`, `AudioPipe` (partly) |
| Netplay | `M/netplay.cpp`, `F/mednafen_implement.cpp` | `MDFNnetplay`, `Joined`, masks and sizes of input | start, stop, one update per frame, commands, states, text | `Netplay`; start, stop and loss also in `GameSession` (partly) |
| CD images | `M/cdrom/cdromfile.cpp` | tracks of a cue or toc file | open, read sector, read table of contents | planned (layout) |
| SCSI CD drive | `M/cdrom/scsicd.cpp`, with `M/cdrom/pcecd.cpp` and `M/pcfx/king.cpp` as initiators | bus signals and phase, command buffer, data FIFO, reader's position and timer | run, select, acknowledge, reset, abort; some forty commands; insert, eject; save and load | `ScsiDrive` (partly); also bounds what `CdInterface` is asked |
| Save-state chunks | `M/state.cpp` 1-960 | file of named sections | save, load, ten slots | planned |
| Input mapping | `F/inputhandler.cpp`, `S/src/ESInput.cpp` | buttons, rapid-fire counters | read buttons, refresh | planned |
| Timing | `F/ers.cpp`, `F/FastCounter.cpp` | clocks, frames skipped | sync, fast-forward | planned (clamps only) |
| Settings, Files, Cheats, Recorders, Menus, Platform layer, Player modules | see `PROJECT.json` | | | not modelled, section 8 |
| Emulated systems, third-party code, assets | | | | not modelled, section 8 |

### 1.2 How they interact

```
        buttons            frames, samples
 front end  ----calls---->  library  ----calls---->  module (a system)
    |   ^                     |   |                     |
    |   +--- reads flags -----+   +-- rewinding, movies |
    |                             +-- netplay ==server  | reads, hints
    v                                                   v (SCSI drive)
 sound output  ==ring==>  audio thread            CD interface ==queues, buffer==> reader thread
```

Threads are few. Front end, library and module run in one, the *emulation
thread*. The CD interface has a *reader thread* per open disc, and sound output
an *audio thread* that runs MultiStream's callbacks. The two threads of the CD
interface share queues and a buffer under mutexes. The two of the sound output
share a ring without a lock. Everything else is calls in one thread, and what is
hard there is that several parties keep their own record of the same thing
(front end, library, ring, movie file) over long sequences of calls, some of
which fail half-way.

### 1.3 What is hard, and what should hold

*CD interface.* The emulation thread sends an LBA and polls for a sector with
that LBA, without a time limit; the reader decides by itself to skip the read
when the stream is sequential and it believes that the sector is in the buffer.
If the buffer had turned over, the poll would never end. The distance between
reader and request is asserted to be non-negative. Opening and closing must not
free what the other thread uses. Correct: every call returns, what it returns
belongs to this disc, and a failure has a cause on the disc.

*Rewinding and movies.* A moment in the ring is stored XORed with the moment
after it, so one slot off gives garbage, silently, in the emulated machine. The
inputs for the movie file move through three places (buffer, slot, file), and a
rewind has to take back just those of the undone frames. Correct: the ring is an
undo history, and file + ring + buffer always replay to the present.

*Session.* Rewinding outlives a game while its ring does not; recorders end with
a game while the front end's flags do not; netplay ends in two places. Correct:
what the parties believe agrees whenever it matters, and whatever is opened is
closed.

*Sound.* An unlocked ring, counters that wrap at 2^32, a semaphore used as a
flag (`if(!GetValue()) Post()`), and a shutdown that frees what callbacks use.
Correct: samples arrive once and in order, the game never blocks for ever, and
the emulator can be left as far as that depends on this code.

*Netplay.* All copies of the program run in lockstep: each executes what the server
sends until it gets everybody's controllers. Commands, states and joins come in
that same stream, and a packet does not carry the number of bytes that follow it:
both ends must know it, also while it changes. Correct: the ends of a connection
agree on sizes, all games stay the same, each update ends, a newcomer gets the
game, and a movie recorded meanwhile misses nothing.

*SCSI drive.* A handshake of two signals per byte, driven from two sides: sectors
come when their time is up, acknowledges when the game gets to it, and resets,
aborts, an opened tray or a loaded state at any time. Correct: sectors reach the
bus only for the read in progress, the game is told what happened, gets the
command that it sent, and the bus becomes free again.

`PROJECT.json` lists 40 hazards at their lines, those that no property covers
with the reason.

## 2. Modules

| module | is |
|---|---|
| `DiscService` | abstract: what the CD interface promises its caller |
| `CdInterface` | both threads of `cdromif.cpp`; refines `DiscService` |
| `CdInterfaceProofs` | the inductive invariant and what follows from it; the interface implements the read service, for any disc and sizes |
| `RewindHistory` | abstract: an undo history of bounded depth |
| `StateRewind` | the ring, the movie being recorded, and `MDFNI_Emulate`'s use of them; refines `RewindHistory` |
| `StateRewindProofs` | for any size of the ring: nothing that is unpacked is ever garbage, the ring implements the undo history, and a movie replays |
| `GameSession` | front end and library over many games in one process |
| `GameSessionProofs` | the session's invariants |
| `AudioPipe` | abstract: a bounded FIFO of numbered samples |
| `AudioRing` | both threads of the PlayStation 3 sound output; refines `AudioPipe` |
| `AudioRingProofs` | the ring without a lock is a pipe, for any sizes |
| `Netplay` | several copies of the program, their connections and the server they expect |
| `NetplayProofs` | the two ends of each connection agree |
| `NetplayGamesProofs` | all play the same game, and a movie keeps every input |
| `ScsiDrive` | the SCSI CD drive of the PC Engine and the PC-FX with its initiators |
| `ScsiDriveProofs` | the handshake, the reader and the buffer of the command |
| `Recursion` | induction up to a number, and functions defined by recursion |
| `MC...` | values of the constants for TLC |

Definitions keep the names of the source. A definition whose comment says
*Variant* or *mutant* is no part of the model: it is a way the definition after
it could have been written wrongly, used to see that the properties notice.

### 2.1 CdInterface

*A step is what one thread does between two acquisitions of a mutex.* The queues
and the buffer are each under a mutex; all other variables belong to one thread.
So the reader's loop has two steps, taking a message (or finding none) and
reading a sector with storing it, and a poll of the buffer is one step. The
read of the disc (`CDIF_ReadRawSector` of the image) touches nothing shared and
is merged with the store.

| code | model |
|---|---|
| `CDIF_Open`, before and after waiting for `CDIF_MSG_INIT_DONE`; after a failure | `OpenBegin`, `OpenReply`, `OpenAbandon` |
| `ReadThreadStart` up to its reply | `StartNoFile`, `StartBadTOC`, `StartOk` |
| reader loop: message, no message, read and store | `TakeReadSector`, `TakeDie`, `TakeNothing`, `Fetch` |
| `CDIF_ReadRawSector`, `CDIF_ReadSector` | `ReadRefused`, `ReadSend`, `PollFound`, `ValidateOk`, `ValidateFail` |
| `CDIF_HintReadSector` | `Hint` |
| `CDIF_Close` | `CloseBegin`, `CloseEnd` |

A disc is a record: its lead-out, the mode byte of each sector and the sectors
that may fail to be read. The contents of a sector is the pair of disc and LBA,
so a sector of another disc or another place is always told apart. The scan in
`CDIF_ReadRawSector` copies out every slot that matches, so the match with the
highest index stays (`LastMatch`).

Assumptions, each from the code that calls: hints are below the lead-out (the
SCSI drive checks before it hints, `scsicd.cpp:1510`, `:1878` and
`scsicd-pce-commands.inc:67`); `CDIF_Open` is called only while no disc is open
(`OpenBegin`'s guard). `MDFNI_LoadCD` breaks the second for a disc that nobody
recognises; `GameSession` models that path and the run `session_disc` shows it.
Whether a bad sector of a data track is corrected is a nondeterministic choice.
The comment at `cdromif.cpp:33` says `p_cdrfile` is used only by the reader
thread; the emulation thread also uses it, in validating a data read (`:334`).
`NoUseAfterFree` covers that use. `CDIF_DumpCD` is disabled code.

### 2.2 StateRewind

An action is one call of the library's interface, since everything is one
thread. The game is the most telling deterministic machine there is: *its state
is the sequence of inputs that led to it*. A saved moment is the state plus the
input waiting at the ports, which a `data_only` save state carries along. A slot
of the ring has the moment, and in `key` the moment that it was XORed with;
`Unpack` gives `<<Garbage>>` when it is undone with anything else. The three
compressors (`lzo`, `quicklz`, `blz`) are one.

| code | model |
|---|---|
| `MDFNI_Emulate` with `MDFNMOV_AddJoy`, `MDFN_StateEvil`, `MDFN_MidSync` | `FrameWithoutRewind`, `FrameForward`, `FrameRewind`, `FrameNothingToRewind` |
| `MDFN_QSimpleCommand` with `MDFNMOV_AddCommand` | `SimpleCommand` |
| `MDFNI_SaveState`, `MDFNI_LoadState` with `MDFNMOV_RecordState` | `SaveState`, `LoadState` |
| `MDFNI_EnableStateRewind` (`MDFN_StateEvilEnd`, `...Begin`, `...FlushMovieLove`) | `EnableStateRewind` |
| `MDFNI_SaveMovie`, `MDFNMOV_Stop` | `StartRecording`, `StartRecordingFails`, `StopRecording` |
| playing a movie | the operator `Play` over a stream of records |

`intact` is a history variable. It becomes false at the steps where the code
loses or misplaces a movie record, so that `MovieReplays` says exactly from
where on a movie is wrong: a command while rewinding is on (written as a zero
byte, `movie.cpp:248`), a rewind to a moment from before the recording began,
and switching rewinding off or on when records wait in `RewindBuffer` or the
flush tests the wrong slot (`state.cpp:1089`). `MovieIntact` is the constraint
that stops there. Stopping also frees what waits in `RewindBuffer`
(`movie.cpp:66`): `FinishedFile` leaves it out. A movie that cannot be created leaves `current` at its slot's
number (`movie.cpp:90`): unless that is 0, the program believes it records and has
no file (`fileOpen` is false), which is why properties of movies ask for both.

`RewindHistory` is the history without ring and packing. With rewinding on it
remembers every frame that runs forwards: it may forget one only while rewinding
is off, or when the frame was to run backwards and there is no moment to go back
to. Between frames it lets the game change by a command or a loaded state only,
so a rewind to anything but a remembered moment is no step of it.

Left out: rewinding is refused while a movie plays, in netplay and for
`GMT_PLAYER` modules; nothing in the model depends on a refusal. A finished file
leaves the model. `SRW_NUM >= 2` (the setting's least value is 10). `RecordAssumption`: each record
of a movie starts with a byte that says what it is, 0 for the inputs of a frame,
`MDFNNPCMD_LOADSTATE` for a state, another for a command (`movie.cpp:182`). The front end
of the PlayStation 3 binds no key to movies; the library's interface has them.

### 2.3 GameSession

An action is one call of the front end. Each side's flags are kept apart, under
their own names. Connecting is a nondeterministic outcome:
whether it works is the network's and the platform's (`S/cell/PlatformNetwork.cpp`
even tests the result of `connect` the wrong way round, which changes when an
outcome occurs and not which ones there are). A connection lost in a
frame leaves through an exception that nothing catches (`FrameConnectionLost`;
`netplay-driver.h:12` documents a return value instead), while an error of the
protocol (`NetError`) leaves by `NetworkClose`. In a frame the library may drop
either recorder: `ProcessAudio` the one of sound when `WriteSound` throws
(`mednafen.cpp:1117`), `MDFNI_Emulate` the one of video (`mednafen.cpp:1340`). The
front end's `RecordingWave` or `RecordingVideo` stays set, so `RecordersKnown` says
that a recorder is known to the front end, and not the converse. Left out: the automatic save
state, cheats, text messages, drawing. Changing games while netplay is on
reaches the message "Check your code!" (`netplay.cpp:86`); that is visible as
`LoadGame` clearing a flag that `CloseGame` has already cleared.

### 2.4 AudioRing

A step is one access to what the other thread uses: a count, a slot, the
semaphore. Samples are numbered as they are made, so a lost, repeated or
overtaken one shows. `ReadCount` and `WriteCount` wrap at `Modulus`, a multiple
of `Length`, as 2^32 is of 8192.

| code | model |
|---|---|
| `ESAudio::AddSamples`: the loop, the semaphore | `AddSamples`, `CheckRoom`, `Wait` |
| `AudioBuffer::WriteData` at normal and other speeds | `ClipWrite`, `CopyIn`, `CountSample`, `EndWrite` |
| `MultiStreamCallback` with `AudioBuffer::ReadData` | `MoreData`, `CopyOut`, `EndRead`, `SignalFeeder`, `Post`, `FinishStream` |
| `ESAudio::SetSpeed` | `SetSpeed` |
| `ESAudio::Shutdown`: take the second buffer away; wait for `StreamDead` and ask for the stream to be closed; wait for `CELL_MS_STREAM_CLOSED` and free the buffers; wait for the thread | `Shutdown`, `CloseStream`, `KillThread`, `DeleteSemaphore` |
| `ProcessAudioThread` | `ThreadEnds`, and the callbacks above while `StreamDead` is not set |
| `cellMSStreamClose` at work, external | `MultiStreamCloses` |

Assumptions. Memory accesses of the two threads interleave: the counters are
plain variables, so a compiler or a weakly ordered processor may reorder them,
which is outside the model and a limit of what the run shows. A frame has at
most `Length` samples (`MaxCount <= Length`): a longer one would wait for ever,
and at 48 kHz would have to last 170 ms. MultiStream asks for no data after its
second buffer is taken away and reports the end of the stream; that is how the
code relies on it and not code of this repository. That it also closes a stream
when asked to, although the audio thread stops driving it at `StreamDead`
(`PlatformAudio.cpp:38-42`), is not assumed but a condition of the one property
that depends on it (section 4). Only the PlayStation 3 port is
modelled: the SDL and OpenAL ports start their callbacks before the semaphore
that the callbacks use exists (a hazard without a property).

### 2.5 Netplay

The packets of a connection are a sequence, kept in order. An action is what one
copy of the program or the server does with one packet, or one call of the user
between two frames. As in `StateRewind` the game is deterministic: its state is
the sequence of what was done to it, inputs, commands and loaded states; a frame
in which nobody touches a controller leaves it alone, so that waiting costs no
states. `replay` is the same sequence for a movie, as `MDFNMOV_AddJoy`,
`MDFNMOV_RecordState` and (not) `MDFNMOV_AddCommand` build it.

| code | model |
|---|---|
| `MDFND_NetStart`, `NetplayStart`; `MDFND_NetworkClose`, `MDFNI_NetplayStop` | `NetStart`; `NetworkClose` |
| `MDFN_QSimpleCommand`, `MDFNI_LoadState` in netplay | `SimpleCommand`, `LoadState`, `LoadStateFails` |
| `NetplayUpdate` up to its first packet | `BeginUpdate` |
| its loop, by kind of packet | `RecvFrame`, `RecvCommand`, `RecvSaveState`, `RecvLoadState`, `RecvStateFails`, `RecvIntegrity`, `RecvYouJoined` |
| `MDFND_RecvData` with less than it was asked for | `RecvPart` |
| the server, external | `SrvLogin`, `SrvClosed`, `SrvInput`, `SrvCommand`, `SrvState`, `SrvAnswer`, `SrvAskState`, `SrvAskIntegrity`, `SrvTick` |

The server is no part of the repository. Its actions are what `netplay.cpp`
relies on: it sends commands and states to everybody, their sender included; it
gives each player a set of ports of its own and from then on reads inputs of
their size; it asks a player with the game for its state when somebody has come;
it sends one packet of inputs per frame, at its own pace. Assumptions: a touch of
a controller lasts one frame; a movie that is being recorded was started with
the game; a user gives at most one command of the menu between two frames; what
a user plays between leaving netplay and coming back is not followed. `RecvPart`
executes a packet that never came whole; what the client then does is
unspecified, so the model lets it be lost until its user leaves, with a game that
is `Astray`.

### 2.6 ScsiDrive

The initiator changes its signals, or time passes, and `SCSICD_Run` is called
once. `pc` is where that call is: the reader of sectors (`RunCDRead`) first, then
the sound (`RunCDDA`), then the switch on `CurrentPhase`, as one step each. A byte
says what it is, so one that is lost, repeated or taken for another shows in what
the game has got. Commands keep their structure and are shorter; they are made of
numbers, so that one put together from the wrong bytes is again some command.

| code | model |
|---|---|
| the game's writes and reads of `$1800`-`$1804` (`PCECD_Write`, `read_1808`, the delayed fall of ACK), `KING_Write16` and KING's transfers | `Select`, `Deselect`, `Put`, `Latch`, `Take`, `LowerAck`, `RaiseAttention`, `ResetOn`, `ResetOff` |
| runs without a change of signals | `TimePasses` |
| `RunCDRead` | `NoSector`, `SectorRead`, `SectorFails` |
| `RunCDDA`, as far as it stops by itself | `PlayEnds` |
| the switch on `CurrentPhase` | `Selected`, `CommandByte`, `CommandMore`, `CommandDone`, `DataOut...`, `MessageOutByte`, `Status...`, `DataIn...`, `MessageIn...`, `Attention`, `VirtualReset`, `Waits` |
| the handlers of commands | `DoREADBase`, `DoPlay`, `DoREQUESTSENSE`, `DoMODESELECT6` and a plain success |
| `SCSICD_EjectVirtual`, `SCSICD_InsertVirtual`; `SCSICD_StateAction` | `Eject`, `Insert`; `SaveAndLoadState` |

Some forty commands go on in few ways: they end at once, start the reader, put
bytes in the FIFO, start the sound, or ask for parameters. One command stands for
each way. `Outcome`, `CommandsIntact` and `BusReleased` name what excuses the
drive, and each excuse is needed (without it TLC finds a behaviour):

* `cut`, `spoiled`, `Starved`: neither an abort nor a reset empties the buffer of
  the command, so the next command is put together from what was left there;
* `lost`: a state loaded with a full FIFO (`scsicd.cpp:3119`), on the PC Engine
  the state of every transfer between a sector's arrival and its first byte;
* `clash`: an error of a later sector while a byte is on the bus, whose
  acknowledge is then taken for that of the status. On the PC-FX bytes can wait
  in the FIFO meanwhile, which the comment of `SendStatusAndMessage` says never
  happens.

Assumptions about the initiators: they follow the drive's signals (a byte is put
or taken only when asked for, ACK falls only after REQ), select only a free bus,
and do not reset while they select.

## 3. Runs

| run | instance | distinct states | checks |
|---|---|---|---|
| `cd_safety` | buffer 3, read-ahead 2, 2 messages, two discs (4 sectors with a bad one; 1 sector) | 2 166 104 | the six safety invariants |
| `cd_service` | buffer 2, read-ahead 1, data reads of 2 sectors, two discs (data and audio with a bad sector; 1 sector) | 148 324 | refinement, liveness, the inductive invariant |
| `rewind_history` | ring of 3, 3 inputs in a state, a command, two joysticks of which one polls twice | 72 424 | types, unpacking, refinement |
| `rewind_movie` | ring of 2, movie slots 0 and 1, 3 records | 611 158 | `MovieReplays`, `FullRingMovieReplays` |
| `rewind_movie_finished` | ring of 3 | | finding |
| `session` | a cartridge system, a disc system, the CD player; 2 discs | 9 440 | the session's invariants |
| `session_rewind`, `session_disc` | the same | | findings |
| `netplay` | two clients, two ports of one kind of controller, of which a player gets the second and the other client watches; one command; 1 frame of lag, 3 events | 96 820 | alignment, agreement, the movie's inputs, liveness |
| `netplay_movie` | the same | | finding |
| `scsi_drive` | both consoles; a disc of 2 sectors of 2 bytes, one an audio track; a FIFO of 2 (PC Engine) or 5 bytes (PC-FX, which wants room for 3); 7 commands; 1 event | 221 938 | the bus, the outcome of commands, liveness |
| `audio_ring` | ring of 4, counters modulo 8, callbacks of 3, frames of 0 to 4, speeds 1 and 2 | 45 356 | safety, refinement, liveness |

What they show, and why the bounds are enough:

* **cd_safety.** `NoUseAfterFree`, `HowFarAheadInRange` (the assertion of
  `cdromif.cpp:228` and that the branch after it is never taken),
  `ReadAheadResident`, `RequestInFlight`, `BufferHoldsThisDisc`. The disc is
  longer than buffer and read-ahead together, so the buffer turns over, with the
  tightest size the code's arithmetic allows (`max_ra + 1 = SBSize`; the code has
  16 and 256). The second disc is one sector long: the lead-out is met at once,
  and a change of discs exposes sectors of the first. Two messages can wait, so a
  hint can overtake the reader's decision about another.
* **cd_service.** `ImplementsService` and `ServiceCallsReturn`. Data reads of two
  sectors cross the end of the data track and of the disc, and hints may wait
  before either of their messages. `IInv` is the inductive invariant of the
  proofs, checked here as a plain invariant.
* **rewind_history.** Three slots are the least with a slot that is neither the
  latest nor next to it on both sides; the ring turns over, is walked back to its
  end and continued. Commands and loaded states come between.
  `ImplementsHistory` forbids that a frame is not remembered while rewinding is on.
* **rewind_movie.** Two slots make every second frame force a record out to the
  file. With slot numbers 0 and 1 a movie that cannot be created leaves `current`
  clear and set. A movie is stopped with every filling of the ring, from every
  position of it.
* **session.** One module of each kind that the code tells apart: with or without
  discs, with or without save states. Two discs are one for the game and one
  leaked. `CHECK_DEADLOCK FALSE` because the process ends.
* **netplay.** Three events suffice for every pair of hard things: two logins and a
  touch or a command of either; login, leave, login again; a loaded state or a
  failure while somebody joins. The player has the second port, so that the place
  of its data in a packet differs from its controller's number (`Source`). The
  safety properties also hold with four events. `CHECK_DEADLOCK FALSE` because
  everybody may leave for good.
* **scsi_drive.** The sizes keep the order of the real ones: a sector fills the PC
  Engine's FIFO, the PC-FX's has room for a second sector while the first is being
  sent and no third, and wants more room than a sector takes. The commands read
  the whole disc, run past its end, and read nothing. One event (reset, abort,
  ejection, state) can come at every step of every command, followed by any
  command; the safety properties also hold with two (2 093 261 states).
* **audio_ring.** The ring is shorter than a frame plus a callback, so the writer
  waits, and the callback gets less than it asks for. The counters wrap after two
  rounds of the ring. `CHECK_DEADLOCK FALSE` because the emulator is left.

`CONSTRAINT`s and bounds: `MaxPending` and `MaxSectors` (messages the emulation
thread leaves unread; a data read's length), `MaxFrames` and `MaxRecords` (a
conjunct of `StateRewind`'s `Next`), `MaxDiscs`, `MaxCount`, `MaxLag` and
`MaxEvents`.

### Findings

* `rewind_movie_finished` / `FinishedMovieReplays`. `MDFN_StateEvilFlushMovieLove`
  walks the ring with one index and tests another (`state.cpp:1089`), so a movie
  stopped before the ring is full loses inputs that wait in its slots. The property
  asks for an empty `RewindBuffer`, to leave apart what `StopRecording` frees. In the
  trace a movie is started, rewinding switched on, and one frame goes into slot 1;
  the flush comes to slot 1 while it tests slot 2, which is empty. With the test on
  the slot it has come to, the same run passes (2 068 965 states).
  `FullRingMovieReplays` says when a movie is complete as the code is: with a full
  ring.
* `session_rewind` / `RewindNeedsStates`. Rewinding stays on from one game to the
  next and cannot be switched off for a module without `StateAction`
  (`state.cpp:1259`): after a game with rewinding, an audio disc calls a null
  pointer in its first frame (`FrameCrashes`).
* `session_disc` / `NoDiscLeaked`. The path of `mednafen.cpp:474` that "should
  never be taken" is taken for a disc without audio that no enabled module wants,
  and it leaves the disc and its reader thread open.

* `netplay_movie` / `MovieFollows`. "Recording's ok during netplay"
  (`netplay.cpp:170`), but a command that comes back from the server is done
  (`netplay.cpp:427`) and not recorded: the movie leads elsewhere after a reset.

## 4. Fairness

`CdInterface`: weak fairness of the reader's steps and of those steps the
emulation thread takes *inside* a call. Both are loops on threads of equal
standing, with no lock held while waiting for the other, so each keeps running;
nobody has to make a call. No fairness is assumed of which message is next or
which outcome a read has.

`AudioRing` (`FairSpec`): weak fairness of either thread's steps. The callbacks
are driven by the audio thread, which has MultiStream generate them until
`StreamDead`. Nothing is assumed of how often the game makes samples or of the
speed. No fairness is assumed of `MultiStreamCloses` either: `ESAudio::Shutdown`
waits for `CELL_MS_STREAM_CLOSED` without a limit, after the audio thread has
stopped driving MultiStream, and nothing in the code makes that wait end.
`ShutdownReturns` therefore says: if a stream that is being closed gets closed
(`StreamsClose`), then leaving comes to its end. What is left for the code to do is
the other waits, for `StreamDead` and for the thread.

`Netplay` (`FairSpec`): weak fairness of each client's next frame (the main loop
never rests) and of its executing what has arrived, of the server's reading each
connection, of its asking for states, and of its ticks. The connection delivers
what is sent, or is cut by an event; nothing obliges a user to act.

`ScsiDrive` (`FairSpec`): weak fairness of the two parts of a run, which is one
call and ends. Strong fairness of the handshake, of time passing and of sectors
coming due, since each can be disabled again and again by other steps between
runs: games poll the signals, and KING and PCECD run the drive at least once per
frame with timers that only count down. Nothing obliges a game to select the
drive, to reset it, or to lower RST.

`StateRewind` and `GameSession` are sequential programs driven by the player.
Nothing must happen, and no fairness is stated.

## 5. What is proved

**CdInterface** (`CdInterfaceProofs`, from `CdAssumption` alone: a buffer longer
than the read-ahead limit; any discs). The safety properties are not inductive.
`RequestInFlight` fails one step after a state in which the reader believes a
sector to be in the buffer that is not there, so one must know what the buffer
holds. `IInv` adds to the types:

* `HandshakeInv`: where each thread can be while the other opens or closes;
* `QueueInv`: queued LBAs are below the lead-out, and `CDIF_MSG_DIEDIEDIE` is last;
* `PollInv`: the message of the sector polled for was the last sent;
* `WindowInv`: `last_read_lba <= ra_lba`, and
  `ra_lba + ra_count <= last_read_lba + 1 + max_ra`: this is what
  `SequentialCount` is for (lemma `CountBounds`);
* `RingInv`: the slot written `k` sectors ago holds `ra_lba - k`, for all `k` back
  to the last request. Since the window is at most `max_ra + 1 <= SBSize` long,
  the next write overwrites nothing in it. This is the step that needs the
  assumption.

There is a lemma for each action; `StepInv` collects them and the theorems
`TypeCorrect`, `MemorySafety`, `AssertionHolds`, `ReadAheadKept`, `NoLostRequest`
and `BufferOfThisDisc` follow. The code's own assertion, `max_ra < SBSize / 4`, is
stronger than needed.

The second part of the module adds that the interface implements `DiscService`
(`ReadsAreServed`, `Spec => ImplementsService`). `CallInv` says what the sectors
copied out so far are: those before the latest have been found good, the latest
was in the buffer, which `BufferHoldsThisDisc` and `ReadOf` turn into a sector of
this disc, or zeros for a bad one. Then a call's first step is one of `DiscService`,
its last one is, and the polls and the reader's steps between are stutters.
`BlankAssumption` says that the zeros of a failed read are no sector of a disc.

**StateRewind** (`StateRewindProofs`, from `RewindAssumption`: two slots or more,
`Garbage` no input). `TypeOK` says that no moment holds `Garbage`, and depends on
`RingUnpacks`, the chain by which each moment is packed against its neighbour's
very bytes; together they are inductive (`RingInvariant`). `NeverGarbage` is the
result a player sees: a rewind restores a state the game was in.

The second part of the module adds that it is the right one (`RingIsHistory`,
`Spec => ImplementsHistory`). `HistoryInv` says that the slots in use are a window
that ends with the latest. About windows alone there are three lemmas: a frame
moves the window on and overwrites the oldest moment just when the ring is full
(`WindowMovesOn`), a rewind takes off its latest (`WindowShortens`), and the
number of slots in use is its length (`WindowCounted`). That a frame which is not
remembered had nothing to go back to is `NothingToGoBackTo`. Packing plays no part in
them: `RingInv` has shown that it changes nothing.

The third part proves that a movie replays (`MoviesReplay`, also from
`RecordAssumption`). `MovieReplays` says where file, ring and buffer lead
together, and a rewind takes records out of the middle, so one must know where
each slot leads. `ChainInv` names these states: there is a sequence of states
`after`, from the one the file leads to, from slot to slot, to the one where
`RewindBuffer` begins, and it passes through the moment of every slot that holds
records (`Chain`). A frame shifts the chain by one slot (`ChainMovesOn`): what is
forced out of the oldest slot leads the file to the next state of the chain. A
rewind drops its last state (`ChainGoesBack`), and is back at the moment because
the slot holds records, which is what `intact` asks for. Flushing a ring leads to
the end of the chain (`ChainPending`). `LoveInv` says where no records can wait:
without a movie, without rewinding, in an unused slot. Underneath, `PlayOn` says
that a movie is played on from where its first records lead. From the same
invariant, `FullRingFinishes` proves that a movie stopped with a full ring and an
empty buffer leads to the state of the game: the flush then writes every slot, and
the chain ends in the game.

**GameSession** (`GameSessionProofs`, from `SessionAssumption`). The five
invariants, the types (`SessionTypes`), and `LoadedGame` (`IsLoaded` exactly when there is a
`MDFNGameInfo`) are inductive together, for any set of modules and any bound on
discs.

**Netplay** (`NetplayProofs`, from `NetplayAssumption`: any clients, ports, masks,
sizes and bounds). `Aligned` speaks of the first message of a connection and is
not inductive. `Link` says what holds of a whole connection and its two ends: a
message in it was built for the ports the server has for this player, nothing
but a close and a login follow each other at its end, and while a client has not
joined the answer to its login comes first. Lemmas about `Link` alone say what
sending, reading, closing and joining do; each action is one or two of them, for
one client, and leaves every other link alone (`ConnectionsLinked`). `MessagesAligned`
and `NetplayTypes` follow.

`NetplayGamesProofs` proves that everybody plays the same game (`GamesAgree`; the
disk side, section 8, apart).
`Agreement` compares what clients settle to: the state of the game once what is on
the way to the client has been executed. A packet at the end of a connection is
executed last (`ExecutedMore`), the one taken is executed first (`ExecutedNext`),
so a client that takes a packet settles to the same state as before, and one that
the server sends changes what everybody settles to in the same way (`Together`);
a client whose packet was torn stays `Astray` or comes out the same
(`ExecutedTorn`). The delicate moments are when somebody comes or a state is on
its way to the server: `AllOpened` says that who logs in is no player, since a login
starts a connection or follows the end of the last.
`MoviesKeepInputs` compares the movie with the game at each step that adds to
either (`FrameKeeps`, `CommandKeeps`, `OneKeeps`).

**ScsiDrive** (`ScsiDriveProofs`, from `DriveAssumption`: any disc, sizes with
`SectorSize <= RawSize <= FxFifoSize`, any commands of the right lengths, any number
of events). `DriveInvariant` is inductive: besides the types it says what the
signals mean in each phase (`Signals`: which byte is on the bus, that nothing is
asked for and acknowledged at once between runs, that a transfer that is done
waits for no sector), that the reader owns the drive, and that the buffer is a
prefix of the command sent unless one was cut short (`Buffer`). `CommandResult`
sums up the handlers of all commands in the four ways a command goes on.
`DriveTypes`, `ReaderHasDrive` and `CommandsArriveIntact` follow.

`GameKnowsOutcome` (`Outcome`) adds three invariants. `Talk`: the byte the game
holds is the one on the bus, and data, status and message come in this order.
`Coming`: during a READ the bytes taken, the one on its way and those in the FIFO
are the first of those asked for, up to the sector that the reader is at, and the
transfer is done just when no sector is left. `Whole`: a READ ends with GOOD only
when the game has got all of it. `UptoMore` is the arithmetic of positions: what a
sector adds to the bytes of those before it.

**AudioRing** (`AudioRingProofs`, from `RingAssumption`: a ring whose length divides
the range of the counters and is no shorter than a frame). First the arithmetic of
counts that wrap, once and for all: how `Add` moves the distance between them
(`Forward`, `Backward`), and that samples less than the ring apart do not share a
slot (`SlotsDiffer`), which is where the counters' range must be a multiple of the
length. Then `IInv`: what either thread has seen of the other's count still holds
when it acts on it (`Fits`), the slots behind `WriteCount` hold what the frame has
copied (`Written`), and what the reader has copied is still there (`Copied`).
`RingTypes`, `NoSampleDropped` and `CallbacksEndFirst` follow, and so does the
refinement: `RingIsPipe` is `Spec => ImplementsPipe`, each step that moves
`WriteCount` putting the samples it passes (`PutStep`), each that moves `ReadCount`
taking the oldest (`TakeStep`), and the copies changing nothing (`CopyInStep`).

**Recursion.** `Play`, `Executed`, `Inputs` and `FlattenSeq` are recursive functions
over streams of any length. What is needed of them is proved from the least number
of a set (`LeastNumber`): `Induction` for sets of numbers, and `Iteration`, by which
the function that a recursion describes exists. An operator that stands for any
recursion cannot be instantiated here, so each of the four has a lemma of its own
that gives the values as a sequence (`PlayPath`, `ExecutedPath`, `InputsNoted`,
`Flattened`).

Only model-checked: liveness (`ServiceCallsReturn`, `AddSamplesReturns`,
`ShutdownReturns`, `UpdateReturns`, `NewcomerSynced`, `BusReleased`), which this
prover does not reach. Every safety invariant, action property and refinement that
a passing run checks is proved.

## 6. Mutants

For each property of a passing run `PROJECT.json` names a definition of the model
and a wrong form of it under which the run fails: a ring index that does not wrap,
a join that is missing, an end check one sector late, a semaphore that is not
posted, a disc that is not closed, a session that keeps the sizes of the last, a
reader that does not wait for room. They show that no property holds merely
because of how the model is built.

## 7. Plan

In the order of importance:

1. **Save-state chunks** as functions on small states: a round trip, and what an
   unknown section, a short file or a variable of another size leaves behind.
2. **Netplay**, the rest: YOULEFT and the announcements of others; `GameSession`
   composed with `Netplay`, for a connection lost in a frame.
3. **SCSI CD drive**, the rest: start and end positions of playing and the modes at
   the end; as the client of `DiscService` in place of the bounds that
   `CdInterface` assumes.
4. **Input mapping and timing**: button edges, rapid fire, the netplay clamp of the
   frame clock; **CD images**: track layout and `FindTrackByLBA`.

Each is a module of its own, without RECURSIVE operators where theorems follow,
with its own MC module and configuration.

## 8. Not modelled

*Netplay*: the server is external. After a packet that was torn (`RecvPart`) the
client is not followed until its user leaves: what it executes is unspecified, and
no property says that its updates end or that it notices. `MDFNSS_SaveSM` is taken
to succeed in `RecvSaveState` (`netplay.cpp:287`); if it failed, the newcomer would get
no state from that client, which also returns from the update early. Left out are text, ping and nicknames; a player
who is told it left (YOULEFT) and the announcements of others; exceptions thrown
while sending (`GameSession` has the one of a frame); cheats reloaded at the end;
sizes that a module changes during netplay; and the disk side, which the front
end selects with `MDFN_DoSimpleCommand` (`mednafen_help.cpp:556`) around netplay
and movie, a hazard of its own.

*SCSI drive*: mode pages and their parameters, sense data, sub-channels and tables
of contents (bytes in the FIFO like those of REQUEST SENSE), seeking, scanning,
pausing, the end position and what playing does at it, interrupts, all timing.
`DoREADBase` means to refuse sectors of an audio track, but its test
`!(control) & 0x4` is never true and the model has none.

*Emulated systems* are imported from other projects and say what hardware does; a
system appears here as a deterministic machine and by what it offers the library.
*Settings, files, player modules, recorders' formats* are sequential input and
output; what of their state crosses components is in `GameSession`. *Cheats and
memory search* are sequential too and come last. *Menus and display* are modal
windows that run to their end between two calls. The *platform layer* wraps the
console's libraries: its threads, mutexes and semaphores appear with the meaning
their users rely on. Error correction of sectors (`l-ec.cpp`, `lec.cpp`) is
numeric code, taken here as a choice of outcomes. Third-party libraries and assets
are left aside.

## 9. Running

```
tlc -workers 2 -config CdInterfaceSafety.cfg MCCdInterface.tla
tlapm CdInterfaceProofs.tla
```

Each run of `PROJECT.json` names its module and configuration. The longest takes
about 80 seconds. The proofs have about 9800 obligations.
