----------------------------- MODULE AudioRing -----------------------------
(***************************************************************************)
(* Sound output on the PlayStation 3 (system/cell/PlatformAudio.cpp over   *)
(* system/src/utility/AudioBuffer.h).  The emulation thread writes the     *)
(* samples of a frame into a ring, waiting on a semaphore while there is   *)
(* no room; the audio thread runs the callbacks of MultiStream, which take *)
(* samples out.  The ring has no lock.  Each thread's steps are the        *)
(* accesses to what the other one uses, one sample at a time.              *)
(***************************************************************************)
EXTENDS Integers, Sequences

CONSTANTS Length,     \* samples in the ring (8192)
          Modulus,    \* ReadCount and WriteCount wrap here (2^32)
          MaxCount,   \* bound: samples of one AddSamples
          Chunk,      \* samples of one callback (2048 bytes)
          Speeds      \* fast-forward factors, 1 among them

ASSUME RingAssumption ==
    /\ Length \in Nat \ {0}
    /\ Modulus \in Nat \ {0}
    /\ Modulus % Length = 0 /\ Length < Modulus
    /\ MaxCount \in 1 .. Length
    /\ Chunk \in Nat \ {0}
    /\ Speeds \subseteq Nat \ {0} /\ 1 \in Speeds

VARIABLES
    RingBuffer,   \* the ring
    ReadCount,    \* samples ever read
    WriteCount,   \* samples ever written
    InputSpeed,   \* one sample in InputSpeed is kept
    Value,        \* of the semaphore, at most 1
    StreamDead,   \* the stream has ended
    ThreadDie,    \* the audio thread is to end
    Status,       \* of the stream, for MultiStream: open, closing, closed
    emu,          \* emulation thread: where it is, aCount, aLength as clipped,
                  \* samples of it dealt with
    audio,        \* audio thread: where it is, aLength as clipped, the samples
                  \* in pWriteBuffer
    made          \* number of the next sample that will be kept

emuVars == <<WriteCount, InputSpeed, emu, made>>
endVars == <<StreamDead, ThreadDie, Status>>
vars == <<RingBuffer, ReadCount, WriteCount, InputSpeed, Value, endVars, emu, audio, made>>

IdleEmu == [at |-> "idle", count |-> 0, len |-> 0, done |-> 0]
IdleAudio == [at |-> "idle", len |-> 0, out |-> << >>]

Init ==
    /\ RingBuffer = [slot \in 0 .. Length - 1 |-> 0]
    /\ ReadCount = 0 /\ WriteCount = 0
    /\ InputSpeed = 1
    /\ Value = 1
    /\ StreamDead = FALSE /\ ThreadDie = FALSE /\ Status = "open"
    /\ emu = IdleEmu /\ audio = IdleAudio
    /\ made = 0

-----------------------------------------------------------------------------
Lesser(a, b) == IF a < b THEN a ELSE b

\* uint32_t arithmetic.
\* (mutant: a counter that does not wrap with the ring)
AddNoWrap(count, n) == IF count + n > Modulus THEN count + n - Modulus ELSE count + n

Add(count, n) == (count + n) % Modulus

GetBufferAmount == (WriteCount - ReadCount) % Modulus

\* (mutant: one sample more than there is room for)
FreeAndOne == Length - GetBufferAmount + 1

GetBufferFree == Length - GetBufferAmount

\* (mutant: the callback does not wake the writer)
NotPosted(value) == value

\* MultiStreamCallback: Post, if GetValue was 0.
Posted(value) == value + 1

\* (mutant: the writer waits for some room, not for enough)
SomeRoom(count) == GetBufferFree > 0

\* AddSamples: not GetBufferFree() < aCount.
Room(count) == GetBufferFree >= count

\* (mutant: Shutdown does not wait for the stream to end)
NotDrained == TRUE

\* Shutdown: not while(!StreamDead).
Drained == StreamDead

\* (mutant: the callback does not tell that the stream has ended)
NotTold == StreamDead

\* MultiStreamCallback with FINISHSTREAM.
Finished == TRUE

-----------------------------------------------------------------------------
\* MednafenEmu::Frame: SetSpeed, before the frame's samples.
SetSpeed(speed) ==
    /\ emu.at = "idle"
    /\ InputSpeed' = speed
    /\ UNCHANGED <<RingBuffer, ReadCount, WriteCount, Value, endVars, emu, audio, made>>

\* ESAudio::AddSamples.
AddSamples(count) ==
    /\ emu.at = "idle"
    /\ emu' = [IdleEmu EXCEPT !.at = "check", !.count = count]
    /\ UNCHANGED <<RingBuffer, ReadCount, WriteCount, InputSpeed, Value, endVars, audio, made>>

CheckRoom ==
    /\ emu.at = "check"
    /\ emu' = [emu EXCEPT !.at = IF Room(emu.count) THEN "clip" ELSE "wait"]
    /\ UNCHANGED <<RingBuffer, ReadCount, WriteCount, InputSpeed, Value, endVars, audio, made>>

Wait ==
    /\ emu.at = "wait"
    /\ Value > 0
    /\ Value' = Value - 1
    /\ emu' = [emu EXCEPT !.at = "check"]
    /\ UNCHANGED <<RingBuffer, ReadCount, WriteCount, InputSpeed, endVars, audio, made>>

\* WriteData: aLength is clipped to the room there is.
ClipWrite ==
    /\ emu.at = "clip"
    /\ emu' = [emu EXCEPT !.at = "copy", !.len = Lesser(emu.count, GetBufferFree)]
    /\ UNCHANGED <<RingBuffer, ReadCount, WriteCount, InputSpeed, Value, endVars, audio, made>>

\* One sample goes into the ring.  At normal speed WriteCount follows at the
\* end; at another it follows every sample, and samples are skipped.
CopyIn ==
    /\ emu.at = "copy" /\ emu.done < emu.len
    /\ LET ahead == IF InputSpeed = 1 THEN emu.done ELSE 0 IN
        RingBuffer' = [RingBuffer EXCEPT ![Add(WriteCount, ahead) % Length] = (made + ahead) % Modulus]
    /\ emu' = IF InputSpeed = 1 THEN [emu EXCEPT !.done = @ + 1] ELSE [emu EXCEPT !.at = "count"]
    /\ UNCHANGED <<ReadCount, WriteCount, InputSpeed, Value, endVars, audio, made>>

CountSample ==
    /\ emu.at = "count"
    /\ WriteCount' = Add(WriteCount, 1)
    /\ made' = (made + 1) % Modulus
    /\ emu' = [emu EXCEPT !.at = "copy", !.done = @ + InputSpeed]
    /\ UNCHANGED <<RingBuffer, ReadCount, InputSpeed, Value, endVars, audio>>

EndWrite ==
    /\ emu.at = "copy" /\ emu.done >= emu.len
    /\ LET n == IF InputSpeed = 1 THEN emu.len ELSE 0 IN
        /\ WriteCount' = Add(WriteCount, n)
        /\ made' = (made + n) % Modulus
    /\ emu' = IdleEmu
    /\ UNCHANGED <<RingBuffer, ReadCount, InputSpeed, Value, endVars, audio>>

\* ESAudio::Shutdown takes the second buffer away from the stream.
Shutdown ==
    /\ emu.at = "idle"
    /\ emu' = [IdleEmu EXCEPT !.at = "drain"]
    /\ UNCHANGED <<RingBuffer, ReadCount, WriteCount, InputSpeed, Value, endVars, audio, made>>

\* Once the stream has ended: cellMSStreamClose, and a wait for
\* CELL_MS_STREAM_CLOSED.
CloseStream ==
    /\ emu.at = "drain" /\ Drained
    /\ Status' = "closing"
    /\ emu' = [emu EXCEPT !.at = "close"]
    /\ UNCHANGED <<RingBuffer, ReadCount, WriteCount, InputSpeed, Value, StreamDead, ThreadDie, audio, made>>

\* It frees both and tells the thread to end.
KillThread ==
    /\ emu.at = "close" /\ Status = "closed"
    /\ ThreadDie' = TRUE
    /\ emu' = [emu EXCEPT !.at = "join"]
    /\ UNCHANGED <<RingBuffer, ReadCount, WriteCount, InputSpeed, Value, StreamDead, Status, audio, made>>

\* Thread is deleted once it has ended, then Semaphore.
DeleteSemaphore ==
    /\ emu.at = "join" /\ audio.at = "dead"
    /\ emu' = [emu EXCEPT !.at = "ended"]
    /\ UNCHANGED <<RingBuffer, ReadCount, WriteCount, InputSpeed, Value, endVars, audio, made>>

-----------------------------------------------------------------------------
\* MultiStreamCallback with MOREDATA: ReadData clips aLength to what there is.
\* MultiStream asks for data until its second buffer is taken away.
MoreData ==
    /\ audio.at = "idle" /\ ~StreamDead
    /\ emu.at # "drain"
    /\ audio' = [IdleAudio EXCEPT !.at = "copy", !.len = Lesser(Chunk, GetBufferAmount)]
    /\ UNCHANGED <<RingBuffer, ReadCount, emuVars, Value, endVars>>

CopyOut ==
    /\ audio.at = "copy" /\ Len(audio.out) < audio.len
    /\ audio' = [audio EXCEPT !.out = Append(@, RingBuffer[Add(ReadCount, Len(@)) % Length])]
    /\ UNCHANGED <<RingBuffer, ReadCount, emuVars, Value, endVars>>

EndRead ==
    /\ audio.at = "copy" /\ Len(audio.out) = audio.len
    /\ ReadCount' = Add(ReadCount, audio.len)
    /\ audio' = [audio EXCEPT !.at = "signal"]
    /\ UNCHANGED <<RingBuffer, emuVars, Value, endVars>>

SignalFeeder ==
    /\ audio.at = "signal"
    /\ audio' = IF Value = 0 THEN [audio EXCEPT !.at = "post"] ELSE IdleAudio
    /\ UNCHANGED <<RingBuffer, ReadCount, emuVars, Value, endVars>>

Post ==
    /\ audio.at = "post"
    /\ Value' = Posted(Value)
    /\ audio' = IdleAudio
    /\ UNCHANGED <<RingBuffer, ReadCount, emuVars, endVars>>

\* The callback with FINISHSTREAM.
FinishStream ==
    /\ audio.at = "idle" /\ ~StreamDead
    /\ emu.at = "drain"
    /\ StreamDead' = Finished
    /\ UNCHANGED <<RingBuffer, ReadCount, emuVars, Value, ThreadDie, Status, audio>>

\* ProcessAudioThread leaves its loop.
ThreadEnds ==
    /\ audio.at = "idle" /\ ThreadDie
    /\ audio' = [audio EXCEPT !.at = "dead"]
    /\ UNCHANGED <<RingBuffer, ReadCount, emuVars, Value, endVars>>

\* MultiStream has closed the stream.  The audio thread has stopped driving
\* MultiStream by then (PlatformAudio.cpp:38); whether closing needs it to, the
\* code does not say.
MultiStreamCloses ==
    /\ Status = "closing"
    /\ Status' = "closed"
    /\ UNCHANGED <<RingBuffer, ReadCount, emuVars, Value, StreamDead, ThreadDie, audio>>

EmuStep ==
    \/ CheckRoom \/ Wait
    \/ ClipWrite \/ CopyIn \/ CountSample \/ EndWrite
    \/ CloseStream \/ KillThread \/ DeleteSemaphore

AudioStep ==
    \/ MoreData \/ CopyOut \/ EndRead
    \/ SignalFeeder \/ Post
    \/ FinishStream \/ ThreadEnds

Next ==
    \/ \E speed \in Speeds : SetSpeed(speed)
    \/ \E count \in 0 .. MaxCount : AddSamples(count)
    \/ Shutdown
    \/ EmuStep
    \/ AudioStep
    \/ MultiStreamCloses

Spec == Init /\ [][Next]_vars

\* Both threads run, and MultiStream goes on asking for data while the audio
\* thread drives it.  Nothing is assumed of MultiStreamCloses.
FairSpec == Spec /\ WF_vars(EmuStep) /\ WF_vars(AudioStep)

-----------------------------------------------------------------------------
TypeOK ==
    /\ RingBuffer \in [0 .. Length - 1 -> 0 .. Modulus - 1]
    /\ ReadCount \in 0 .. Modulus - 1 /\ WriteCount \in 0 .. Modulus - 1
    /\ made \in 0 .. Modulus - 1
    /\ InputSpeed \in Speeds
    /\ Value \in 0 .. 1
    /\ StreamDead \in BOOLEAN /\ ThreadDie \in BOOLEAN /\ Status \in {"open", "closing", "closed"}
    /\ emu.at \in {"idle", "check", "wait", "clip", "copy", "count", "drain", "close", "join", "ended"}
    /\ emu.count \in 0 .. MaxCount /\ emu.len \in 0 .. emu.count /\ emu.done \in Nat
    /\ audio.at \in {"idle", "copy", "signal", "post", "dead"}
    /\ audio.len \in 0 .. Chunk /\ audio.out \in Seq(0 .. Modulus - 1)

\* AudioBuffer.h:32, "Clip to available space": once AddSamples has found room,
\* none of its samples is dropped, whatever the callbacks do meanwhile.
NothingClipped ==
    emu.at \in {"copy", "count"} => emu.len = emu.count

\* PlatformAudio.cpp:128: no callback runs any more when its buffers are freed
\* and when the semaphore is deleted.
BuffersOutliveCallbacks ==
    emu.at \in {"join", "ended"} => audio.at \in {"idle", "dead"}

\* AudioBuffer.h:47 and 101: the device gets the samples of the game once and
\* in order, though the ring has no lock and its counters wrap.
Waiting == [i \in 1 .. GetBufferAmount |-> RingBuffer[Add(ReadCount, i - 1) % Length]]

Pipe == INSTANCE AudioPipe WITH
    Capacity <- Length,
    Numbers <- Modulus,
    queue <- Waiting,
    taken <- IF audio.at \in {"signal", "post"} THEN audio.out ELSE << >>

ImplementsPipe == Pipe!PipeSpec

\* PlatformAudio.cpp:150: a frame that waits for room in the ring gets it.
AddSamplesReturns == emu.at = "check" ~> emu.at = "idle"

\* PlatformAudio.cpp:130: MultiStream closes a stream it was told to close, though
\* nobody signals it any more.
StreamsClose == Status = "closing" ~> Status = "closed"

\* PlatformAudio.cpp:125: on that condition, which the code relies on, the
\* emulator can always leave.
ShutdownReturns == StreamsClose => (emu.at = "drain" ~> emu.at = "ended")
=============================================================================
