---------------------------- MODULE StateRewind ----------------------------
(***************************************************************************)
(* Save-state rewinding (mednafen/state.cpp, the "StateEvil" functions)    *)
(* and the recording of movies (mednafen/movie.cpp), which share the       *)
(* inputs of a frame.  One action is one call of the library's interface:  *)
(* a frame (MDFNI_Emulate), a simple command, loading a save state,        *)
(* switching rewinding, starting and stopping a movie.                     *)
(*                                                                         *)
(* The game is a deterministic machine, so its state is the sequence of    *)
(* inputs that leads to it; a saved moment is the state a frame starts     *)
(* from followed by the input that waits at the ports, which the save      *)
(* state of a rewind (data_only) carries too.                              *)
(*                                                                         *)
(* Each moment but the latest is XORed with the one after it and           *)
(* compressed.  A slot holds the moment, and the moment it was XORed with  *)
(* ("key"; none while it is not compressed): XORing with anything else     *)
(* yields Garbage.                                                         *)
(***************************************************************************)
EXTENDS Integers, Sequences, SequencesExt

CONSTANTS SRW_NUM,       \* slots of the ring (setting srwframes)
          Joys,          \* states of the controllers
          SplitJoys,     \* those whose frame polls once more, in MDFN_MidSync
          Commands,      \* simple commands: reset, power, insert coin...
          MovieSlots,    \* numbers of the movie slots (0 to 9)
          Garbage,       \* what a wrong XOR or a misread movie gives
          Zero,          \* a lone zero byte in a movie stream
          MaxFrames,     \* bound: inputs in a state of the game
          MaxRecords     \* bound: records in a stream of a movie

Inputs == Joys \cup Commands

ASSUME RewindAssumption ==
    /\ SRW_NUM \in Nat /\ SRW_NUM >= 2
    /\ SplitJoys \subseteq Joys
    /\ Garbage \notin Inputs
    /\ MovieSlots \subseteq Nat

\* movie.cpp:182 to 206, 248 and 262: a record in a movie shows of which kind
\* it is.
ASSUME RecordAssumption ==
    /\ Zero \notin Inputs
    /\ \A record \in Inputs \cup {Zero} : record \notin [state : Seq(Inputs)]

VARIABLES
    game,            \* the state of the game
    saved,           \* the user's save state
    EvilEnabled,     \* rewinding is on
    bcs,             \* the ring of saved moments
    bcspos,          \* its latest slot
    current,         \* a movie is being recorded (current > 0)
    fileOpen,        \* slots[current - 1] is a file open for writing
    start,           \* the state at the start of the movie
    file,            \* the records written to the movie file since
    RewindBuffer,    \* records not yet tied to a slot of the ring
    intact           \* no step has yet lost or misplaced a record (history)

ringVars == <<EvilEnabled, bcs, bcspos>>
movieVars == <<current, fileOpen, start, file>>
vars == <<game, saved, ringVars, movieVars, RewindBuffer, intact>>

Slots == 0 .. SRW_NUM - 1

\* (mutants: the position does not wrap)
NextSlotNoWrap(p) == IF p = SRW_NUM - 1 THEN p ELSE p + 1
PrevSlotNoWrap(p) == IF p = 0 THEN 0 ELSE p - 1

NextSlot(p) == IF p = SRW_NUM - 1 THEN 0 ELSE p + 1
PrevSlot(p) == IF p = 0 THEN SRW_NUM - 1 ELSE p - 1

EmptySlot == [data |-> << >>, key |-> << >>, MovieLove |-> << >>]
EmptyRing == [p \in Slots |-> EmptySlot]

\* What a frame polls: its inputs when it starts, and, if those make it pause
\* for a synchronisation, once more.
MidPolls(joy) == IF joy \in SplitJoys THEN {<<j>> : j \in Joys} ELSE {<< >>}
Polls == UNION {{<<joy>> \o mid : mid \in MidPolls(joy)} : joy \in Joys}

Init ==
    /\ game = << >>
    /\ saved = << >>
    /\ EvilEnabled = FALSE
    /\ bcs = EmptyRing
    /\ bcspos = 0
    /\ current = FALSE
    /\ fileOpen = FALSE
    /\ start = << >>
    /\ file = << >>
    /\ RewindBuffer = << >>
    /\ intact = TRUE

-----------------------------------------------------------------------------
\* The ring.

Raw(slot) == slot.key = << >>
Bytes(slot) == IF Raw(slot) THEN slot.data ELSE <<Garbage>>

\* (mutant: the XOR is not undone)
UnpackNoXor(slot, other) == Bytes(slot)

\* A compressed slot, XORed with what another slot holds.
Unpack(slot, other) ==
    IF Raw(slot) \/ (Raw(other) /\ other.data = slot.key)
    THEN slot.data
    ELSE <<Garbage>>

\* The slot once a later moment has been saved.
Pack(slot, moment) ==
    IF slot.data = << >> THEN slot
    ELSE [slot EXCEPT !.data = Bytes(slot), !.key = moment]

\* The slots from the oldest to the latest.
RingOrder == [x \in 1 .. SRW_NUM |-> (bcspos + x) % SRW_NUM]

\* (mutant: the walk starts at the latest slot, not after it)
FlushedFromLatest ==
    FlattenSeq([x \in 1 .. SRW_NUM |->
        IF bcs[x - 1].data # << >> THEN bcs[((bcspos + x) - 1) % SRW_NUM].MovieLove ELSE << >>])

\* What MDFN_StateEvilFlushMovieLove writes: it walks the ring in its order,
\* but looks at slot x, not at the slot it has come to, to see whether the
\* slot is in use.
Flushed ==
    FlattenSeq([x \in 1 .. SRW_NUM |->
        IF bcs[x - 1].data # << >> THEN bcs[RingOrder[x]].MovieLove ELSE << >>])

Pending == FlattenSeq([x \in 1 .. SRW_NUM |-> bcs[RingOrder[x]].MovieLove])

\* (mutant: what the overwritten slot holds is thrown away)
ForcedNever(slot) == << >>

\* What goes to the movie file when a slot is overwritten (ForceRecord).
Forced(slot) == IF current /\ slot.data # << >> THEN slot.MovieLove ELSE << >>

\* Records written to the movie file: nothing happens to them without one.
Written(records) == IF fileOpen THEN file \o records ELSE file

-----------------------------------------------------------------------------
\* A frame.  MDFNI_Emulate adds the inputs to the movie (MDFNMOV_AddJoy),
\* saves or restores (MDFN_StateEvil), then emulates; MDFN_MidSync adds the
\* inputs polled half-way.

FrameWithoutRewind(polled) ==
    /\ ~EvilEnabled
    /\ game' = game \o polled
    /\ file' = IF current THEN Written(polled) ELSE file
    /\ UNCHANGED <<saved, ringVars, current, fileOpen, start, RewindBuffer, intact>>

FrameForward(polled) ==
    LET moment == Append(game, Head(polled))
        pos == NextSlot(bcspos)
    IN  /\ EvilEnabled
        /\ game' = game \o polled
        /\ bcspos' = pos
        /\ file' = Written(Forced(bcs[pos]))
        /\ bcs' = [bcs EXCEPT
             ![bcspos] = Pack(@, moment),
             ![pos] = [data |-> moment, key |-> << >>,
                       MovieLove |-> IF current THEN Append(RewindBuffer, Head(polled))
                                     ELSE << >>]]
        /\ RewindBuffer' = IF current THEN Tail(polled) ELSE RewindBuffer
        /\ UNCHANGED <<saved, EvilEnabled, current, fileOpen, start, intact>>

\* The inputs of this frame are dropped; those of the restored one are played
\* again.
FrameRewind(polled) ==
    LET back == bcs[PrevSlot(bcspos)].data # << >>
        pos == IF back THEN PrevSlot(bcspos) ELSE bcspos
        moment == Unpack(bcs[pos], bcs[bcspos])
    IN  /\ EvilEnabled
        /\ bcs[pos].data # << >>
        /\ Head(polled) = Last(moment) \/ moment = <<Garbage>>
        /\ game' = moment \o Tail(polled)
        /\ bcspos' = pos
        /\ bcs' = [p \in Slots |->
             IF p = bcspos /\ back THEN EmptySlot
             ELSE IF p = pos THEN [bcs[p] EXCEPT !.data = moment, !.key = << >>]
             ELSE bcs[p]]
        /\ RewindBuffer' = IF current THEN Tail(polled) ELSE << >>
        /\ intact' = (intact /\ (current => bcs[pos].MovieLove # << >>))
        /\ UNCHANGED <<saved, EvilEnabled, movieVars>>

\* Rewinding is asked for and the ring is empty.
FrameNothingToRewind(polled) ==
    /\ EvilEnabled
    /\ bcs[bcspos].data = << >>
    /\ bcs[PrevSlot(bcspos)].data = << >>
    /\ game' = game \o polled
    /\ RewindBuffer' = IF current THEN RewindBuffer \o polled ELSE RewindBuffer
    /\ UNCHANGED <<saved, ringVars, movieVars, intact>>

-----------------------------------------------------------------------------
\* Between frames.

\* MDFN_QSimpleCommand: with rewinding on, MDFNMOV_AddCommand writes a zero
\* byte in the place of the command.
SimpleCommand(cmd) ==
    /\ game' = Append(game, cmd)
    /\ RewindBuffer' = IF current /\ EvilEnabled THEN Append(RewindBuffer, Zero) ELSE RewindBuffer
    /\ file' = IF current /\ ~EvilEnabled THEN Written(<<cmd>>) ELSE file
    /\ intact' = (intact /\ ~(current /\ EvilEnabled))
    /\ UNCHANGED <<saved, ringVars, current, fileOpen, start>>

SaveState ==
    /\ saved' = game
    /\ UNCHANGED <<game, ringVars, movieVars, RewindBuffer, intact>>

StateRecord(s) == [state |-> s]

\* MDFNI_LoadState, with its MDFNMOV_RecordState.
LoadState ==
    /\ game' = saved
    /\ RewindBuffer' = IF current /\ EvilEnabled
                       THEN Append(RewindBuffer, StateRecord(saved))
                       ELSE RewindBuffer
    /\ file' = IF current /\ ~EvilEnabled THEN Written(<<StateRecord(saved)>>) ELSE file
    /\ UNCHANGED <<saved, ringVars, current, fileOpen, start, intact>>

\* MDFN_StateEvilEnd, then MDFN_StateEvilBegin.  Records that still wait in
\* RewindBuffer when rewinding goes off are overtaken by those written next.
EnableStateRewind(enable) ==
    LET flushes == EvilEnabled /\ current
    IN  /\ EvilEnabled' = enable
        /\ bcs' = EmptyRing
        /\ bcspos' = IF enable THEN 0 ELSE bcspos
        /\ file' = IF flushes THEN Written(Flushed) ELSE file
        /\ intact' = (intact /\ (flushes => /\ Flushed = Pending
                                            /\ enable \/ RewindBuffer = << >>))
        /\ UNCHANGED <<game, saved, current, fileOpen, start, RewindBuffer>>

\* MDFNI_SaveMovie when no movie is being recorded.  If the file cannot be
\* created, current keeps the number of the movie slot.
StartRecording(CurrentMovie) ==
    /\ ~current
    /\ current' = TRUE
    /\ fileOpen' = TRUE
    /\ start' = game
    /\ RewindBuffer' = << >>
    /\ UNCHANGED <<game, saved, ringVars, file, intact>>

StartRecordingFails(CurrentMovie) ==
    /\ ~current
    /\ current' = (CurrentMovie > 0)
    /\ RewindBuffer' = << >>
    /\ UNCHANGED <<game, saved, ringVars, fileOpen, start, file, intact>>

\* What the file ends up with when recording stops: StopRecording adds the
\* state of the game to RewindBuffer or to the file, and then, with rewinding
\* on, flushes the ring, but not RewindBuffer, to the file.
FinishedFile == Written(IF EvilEnabled THEN Flushed ELSE <<StateRecord(game)>>)

\* MDFNI_SaveMovie again, or MDFNMOV_Stop: StopRecording.  The finished file
\* leaves the model.
StopRecording ==
    /\ current
    /\ current' = FALSE
    /\ fileOpen' = FALSE
    /\ file' = << >>
    /\ start' = << >>
    /\ bcs' = IF EvilEnabled THEN [p \in Slots |-> [bcs[p] EXCEPT !.MovieLove = << >>]] ELSE bcs
    /\ RewindBuffer' = << >>
    /\ intact' = TRUE
    /\ UNCHANGED <<game, saved, EvilEnabled, bcspos>>

-----------------------------------------------------------------------------
WithinBounds ==
    /\ Len(game) <= MaxFrames
    /\ Len(file) <= MaxRecords
    /\ Len(RewindBuffer) <= MaxRecords

Frame(polled) ==
    \/ FrameWithoutRewind(polled)
    \/ FrameForward(polled)
    \/ FrameRewind(polled)
    \/ FrameNothingToRewind(polled)

Next ==
    /\ \/ \E polled \in Polls : Frame(polled)
       \/ \E cmd \in Commands : SimpleCommand(cmd)
       \/ SaveState
       \/ LoadState
       \/ \E enable \in BOOLEAN : EnableStateRewind(enable)
       \/ \E CurrentMovie \in MovieSlots :
             StartRecording(CurrentMovie) \/ StartRecordingFails(CurrentMovie)
       \/ StopRecording
    /\ WithinBounds'

Spec == Init /\ [][Next]_vars

-----------------------------------------------------------------------------
(***************************************************************************)
(* Properties.                                                             *)
(***************************************************************************)

States == Seq(Inputs)
Records == Inputs \cup {Zero} \cup [state : States]

\* The types of the variables (file apart, which MovieReplays reads).  No
\* moment of the ring, and so no state of the
\* game, holds Garbage: what a rewind unpacks is what was saved.
TypeOK ==
    /\ game \in States /\ saved \in States /\ start \in States
    /\ EvilEnabled \in BOOLEAN /\ current \in BOOLEAN
    /\ fileOpen \in BOOLEAN /\ intact \in BOOLEAN
    /\ bcspos \in Slots
    /\ bcs \in [Slots -> [data : States, key : States, MovieLove : Seq(Records)]]
    /\ RewindBuffer \in Seq(Records)

\* state.cpp:1131 and 1206: a moment can be unpacked only with the very bytes
\* it was packed against.  Every moment in the ring but the latest is packed
\* against the one in the next slot, and the latest is not packed.
RingUnpacks ==
    /\ Raw(bcs[bcspos])
    /\ (\E p \in Slots : bcs[p].data # << >>) => bcs[bcspos].data # << >>
    /\ \A p \in Slots \ {bcspos} : bcs[p].data # << >> =>
            bcs[NextSlot(p)].data # << >> /\ bcs[p].key = bcs[NextSlot(p)].data

\* Playing a movie (MDFNMOV_AddJoy while it plays).  A lone zero byte makes
\* the player take what follows for the inputs of a frame.
Replay(s, record) ==
    IF Contains(s, Garbage) THEN s
    ELSE CASE record \in Inputs -> Append(s, record)
           [] record = Zero -> <<Garbage>>
           [] OTHER -> record.state

Play(s, records) ==
    LET played[i \in 0 .. Len(records)] ==
          IF i = 0 THEN s ELSE Replay(played[i - 1], records[i])
    IN  played[Len(records)]

\* movie.cpp, state.cpp:1174 and 1251: while a movie is recorded, what is in
\* the file, then what waits in the ring, then what waits in RewindBuffer,
\* leads from the state at its start to the state of the game: through
\* rewinds, loaded states, and the ring turning over, until one of the steps
\* that "intact" records.
MovieReplays ==
    current /\ fileOpen /\ intact => Play(start, file \o Pending \o RewindBuffer) = game

\* mednafen.html:20, "a save-state and recorded input stream stored in a
\* file": a finished movie leads to the state the game was in, when no input
\* waits in RewindBuffer (StopRecording throws those away).  It does not when
\* rewinding is on and the ring is not full yet: the flush passes over slots
\* that hold records.
FinishedMovieReplays ==
    [][current /\ fileOpen /\ intact /\ ~current' /\ RewindBuffer = << >>
         => Play(start, FinishedFile) = game]_vars

\* state.cpp:1084: it does when the ring is full: its slots are then written
\* in the order in which they were used, none missing.
FullRingMovieReplays ==
    [][current /\ fileOpen /\ intact /\ ~current'
       /\ EvilEnabled /\ RewindBuffer = << >> /\ (\A p \in Slots : bcs[p].data # << >>)
         => Play(start, FinishedFile) = game]_vars

\* state.cpp:1098: the ring is a history of at most SRW_NUM moments: with
\* rewinding on each frame is remembered, and each rewind goes back to the
\* moment before the one last restored or saved.
Held == Cardinality({p \in Slots : bcs[p].data # << >>})
SlotBack(p, k) == IF k <= p THEN p - k ELSE (p - k) + SRW_NUM
Moments == [x \in 1 .. Held |-> bcs[SlotBack(bcspos, Held - x)].data]

History == INSTANCE RewindHistory
             WITH Depth <- SRW_NUM, on <- EvilEnabled, moments <- Moments

ImplementsHistory == History!HistorySpec
=============================================================================
