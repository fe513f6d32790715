-------------------------- MODULE StateRewindProofs --------------------------
(***************************************************************************)
(* For every size of the ring and every controller: what rewinding unpacks *)
(* is what was saved.  The inductive invariant is the type invariant,      *)
(* which keeps Garbage out of every state, together with RingUnpacks,      *)
(* which says why: each moment was packed against the one still next to it.*)
(***************************************************************************)
EXTENDS StateRewind, Recursion, FiniteSetTheorems, FunctionTheorems, TLAPS

USE RewindAssumption DEF Slots

RingInv == TypeOK /\ RingUnpacks

\* Slots follow one another around the ring.
LEMMA SlotsInARing ==
    ASSUME NEW p \in Slots
    PROVE  /\ NextSlot(p) \in Slots /\ PrevSlot(p) \in Slots
           /\ NextSlot(p) # p /\ PrevSlot(p) # p
           /\ NextSlot(PrevSlot(p)) = p
           /\ \A q \in Slots : NextSlot(q) = NextSlot(p) => q = p
  BY SMT DEF NextSlot, PrevSlot

LEMMA InputsAreRecords ==
    /\ Joys \subseteq Inputs /\ Joys \subseteq Records /\ Inputs \subseteq Records
  BY DEF Inputs, Records

\* What a frame polls: first one input, then perhaps another.
LEMMA PollsAreInputs ==
    ASSUME NEW polled \in Polls
    PROVE  /\ polled \in States /\ polled \in Seq(Records)
           /\ Head(polled) \in Inputs /\ Head(polled) \in Records
           /\ Tail(polled) \in States /\ Tail(polled) \in Seq(Records)
  <1>1. PICK joy \in Joys : \E mid \in MidPolls(joy) : polled = <<joy>> \o mid
    BY DEF Polls
  <1>2. PICK mid \in MidPolls(joy) : polled = <<joy>> \o mid
    BY <1>1
  <1>3. joy \in Inputs /\ joy \in Records
    BY InputsAreRecords
  <1>4. CASE mid = << >>
    <2>1. polled = <<joy>>
      BY <1>2, <1>4
    <2> QED
      BY <1>3, <2>1 DEF States
  <1>5. CASE mid # << >>
    <2>1. PICK j \in Joys : mid = <<j>>
      BY <1>5 DEF MidPolls
    <2>2. polled = <<joy>> \o <<j>>
      BY <1>2, <2>1
    <2>3. j \in Inputs /\ j \in Records
      BY InputsAreRecords
    <2> QED
      BY <1>3, <2>2, <2>3 DEF States
  <1> QED
    BY <1>4, <1>5

\* What is unpacked in a rewind: the moment itself, which was not Garbage.
LEMMA UnpacksTheMoment ==
    ASSUME RingInv,
           bcs[PrevSlot(bcspos)].data # << >>
    PROVE  Unpack(bcs[PrevSlot(bcspos)], bcs[bcspos]) = bcs[PrevSlot(bcspos)].data
  <1>1. bcspos \in Slots
    BY DEF RingInv, TypeOK
  <1>2. /\ PrevSlot(bcspos) \in Slots \ {bcspos}
        /\ NextSlot(PrevSlot(bcspos)) = bcspos
    BY <1>1, SlotsInARing
  <1>3. /\ Raw(bcs[bcspos])
        /\ bcs[PrevSlot(bcspos)].key = bcs[bcspos].data
    BY <1>2 DEF RingInv, RingUnpacks
  <1> QED
    BY <1>3 DEF Unpack

LEMMA StreamsOfInputs ==
    /\ \A s \in States : \A i \in Inputs : Append(s, i) \in States /\ Append(s, i) # << >>
    /\ \A s, t \in States : s \o t \in States
    /\ \A s, t \in Seq(Records) : s \o t \in Seq(Records)
    /\ \A s \in Seq(Records) : \A r \in Records : Append(s, r) \in Seq(Records)
    /\ << >> \in States /\ << >> \in Seq(Records)
  BY DEF States

LEMMA EmptyRingInv ==
    /\ EmptyRing \in [Slots -> [data : States, key : States, MovieLove : Seq(Records)]]
    /\ \A p \in Slots : EmptyRing[p].data = << >> /\ EmptyRing[p].key = << >>
  BY StreamsOfInputs DEF EmptyRing, EmptySlot

LEMMA InitInv == Init => RingInv
  <1> SUFFICES ASSUME Init
               PROVE  RingInv
    OBVIOUS
  <1>1. bcspos \in Slots /\ bcs = EmptyRing /\ RewindBuffer = << >>
    BY DEF Init
  <1>2. TypeOK
    BY <1>1, EmptyRingInv, StreamsOfInputs DEF Init, TypeOK
  <1>3. RingUnpacks
    BY <1>1, EmptyRingInv DEF RingUnpacks, Raw
  <1> QED
    BY <1>2, <1>3 DEF RingInv

\* A saved slot, packed against the new moment.
LEMMA PackTyped ==
    ASSUME NEW slot \in [data : States, key : States, MovieLove : Seq(Records)],
           NEW moment \in States,
           Raw(slot)
    PROVE  /\ Pack(slot, moment) \in [data : States, key : States, MovieLove : Seq(Records)]
           /\ Pack(slot, moment).data = slot.data
           /\ slot.data # << >> => Pack(slot, moment).key = moment
  BY DEF Pack, Bytes

LEMMA ForwardInv ==
    ASSUME RingInv, NEW polled \in Polls, FrameForward(polled)
    PROVE  RingInv'
  <1> DEFINE moment == Append(game, Head(polled))
             pos == NextSlot(bcspos)
             fresh == [data |-> moment, key |-> << >>,
                       MovieLove |-> IF current THEN Append(RewindBuffer, Head(polled))
                                     ELSE << >>]
             Slot == [data : States, key : States, MovieLove : Seq(Records)]
  <1>1. /\ game \in States /\ RewindBuffer \in Seq(Records)
        /\ bcspos \in Slots /\ bcs \in [Slots -> Slot]
        /\ current \in BOOLEAN
    BY DEF RingInv, TypeOK
  <1>2. pos \in Slots /\ pos # bcspos
    BY <1>1, SlotsInARing
  <1>3. moment \in States /\ moment # << >>
    BY <1>1, PollsAreInputs, StreamsOfInputs
  <1>4. Raw(bcs[bcspos]) /\ bcs[bcspos] \in Slot
    BY <1>1 DEF RingInv, RingUnpacks
  <1>5. /\ bcspos' = pos
        /\ bcs' = [bcs EXCEPT ![bcspos] = Pack(bcs[bcspos], moment), ![pos] = fresh]
    BY DEF FrameForward
  <1>6. /\ bcs'[pos] = fresh
        /\ bcs'[bcspos] = Pack(bcs[bcspos], moment)
        /\ \A p \in Slots \ {bcspos, pos} : bcs'[p] = bcs[p]
    BY <1>1, <1>2, <1>5
  <1>a. fresh.data = moment /\ fresh.key = << >>
    OBVIOUS
  <1>b. /\ Pack(bcs[bcspos], moment).data = bcs[bcspos].data
        /\ bcs[bcspos].data # << >> => Pack(bcs[bcspos], moment).key = moment
    BY <1>3, <1>4, PackTyped
  <1>c. /\ bcs'[pos].data = moment /\ bcs'[pos].key = << >>
        /\ bcs'[bcspos].data = bcs[bcspos].data
        /\ bcs[bcspos].data # << >> => bcs'[bcspos].key = moment
    BY <1>6, <1>a, <1>b
  <1>7. TypeOK'
    <2>1. fresh \in Slot
      BY <1>1, <1>3, PollsAreInputs, StreamsOfInputs
    <2>2. bcs' \in [Slots -> Slot]
      BY <1>1, <1>3, <1>4, <1>5, <2>1, PackTyped
    <2>3. game' \in States /\ RewindBuffer' \in Seq(Records)
      BY <1>1, PollsAreInputs, StreamsOfInputs DEF FrameForward
    <2> QED
      BY <1>2, <1>5, <2>2, <2>3 DEF FrameForward, RingInv, TypeOK
  <1>8. RingUnpacks'
    <2>1. Raw(bcs'[bcspos']) /\ bcs'[bcspos'].data = moment
      BY <1>5, <1>c DEF Raw
    <2>2. ASSUME NEW p \in Slots \ {pos}, bcs'[p].data # << >>
          PROVE  bcs'[NextSlot(p)].data # << >> /\ bcs'[p].key = bcs'[NextSlot(p)].data
      <3>1. CASE p = bcspos
        BY <1>3, <1>c, <2>2, <3>1
      <3>2. CASE p # bcspos
        <4>1. /\ bcs'[p] = bcs[p] /\ bcs[p].data # << >>
              /\ bcs[NextSlot(p)].data # << >> /\ bcs[p].key = bcs[NextSlot(p)].data
          BY <1>6, <2>2, <3>2 DEF RingInv, RingUnpacks
        <4>2. NextSlot(p) \in Slots /\ NextSlot(p) # pos
          BY <1>1, <2>2, <3>2, SlotsInARing
        <4>3. bcs'[NextSlot(p)].data = bcs[NextSlot(p)].data
          BY <1>6, <1>c, <4>2
        <4> QED
          BY <4>1, <4>3
      <3> QED
        BY <3>1, <3>2
    <2> QED
      BY <1>3, <1>5, <2>1, <2>2 DEF RingUnpacks
  <1> QED
    BY <1>7, <1>8 DEF RingInv

LEMMA RewindInv ==
    ASSUME RingInv, NEW polled \in Polls, FrameRewind(polled)
    PROVE  RingInv'
  <1> DEFINE back == bcs[PrevSlot(bcspos)].data # << >>
             pos == IF back THEN PrevSlot(bcspos) ELSE bcspos
             moment == Unpack(bcs[pos], bcs[bcspos])
             Slot == [data : States, key : States, MovieLove : Seq(Records)]
  <1>1. /\ bcspos \in Slots /\ bcs \in [Slots -> Slot] /\ Raw(bcs[bcspos])
        /\ \A p \in Slots \ {bcspos} : bcs[p].data # << >> =>
             bcs[NextSlot(p)].data # << >> /\ bcs[p].key = bcs[NextSlot(p)].data
    BY DEF RingInv, TypeOK, RingUnpacks
  <1>2. pos \in Slots /\ PrevSlot(bcspos) \in Slots /\ PrevSlot(bcspos) # bcspos
    BY <1>1, SlotsInARing
  <1>3. moment = bcs[pos].data
    BY <1>1, UnpacksTheMoment DEF Unpack
  <1>4. /\ moment # << >> /\ moment \in States
        /\ bcspos' = pos
        /\ bcs' = [p \in Slots |->
             IF p = bcspos /\ back THEN EmptySlot
             ELSE IF p = pos THEN [bcs[p] EXCEPT !.data = moment, !.key = << >>]
             ELSE bcs[p]]
    BY <1>1, <1>2, <1>3 DEF FrameRewind
  <1>5. TypeOK'
    <2>1. bcs' \in [Slots -> Slot]
      BY <1>1, <1>4, StreamsOfInputs DEF EmptySlot
    <2>2. game' \in States /\ RewindBuffer' \in Seq(Records)
      BY <1>4, PollsAreInputs, StreamsOfInputs DEF FrameRewind
    <2>3. intact' \in BOOLEAN
      BY DEF FrameRewind
    <2> QED
      BY <1>2, <1>4, <2>1, <2>2, <2>3 DEF FrameRewind, movieVars, RingInv, TypeOK
  <1>6. \A p \in Slots : bcs'[p].data = IF p = bcspos /\ back THEN << >> ELSE bcs[p].data
    BY <1>1, <1>3, <1>4 DEF EmptySlot
  <1>7. bcs'[pos].key = << >> /\ bcs'[pos].data = moment
    BY <1>1, <1>2, <1>3, <1>4, <1>6
  <1>8. ASSUME NEW p \in Slots \ {pos}, bcs'[p].data # << >>
        PROVE  bcs'[NextSlot(p)].data # << >> /\ bcs'[p].key = bcs'[NextSlot(p)].data
    <2>1. p # bcspos /\ bcs[p].data # << >> /\ bcs'[p] = bcs[p]
      BY <1>4, <1>6, <1>8
    <2>2. bcs[NextSlot(p)].data # << >> /\ bcs[p].key = bcs[NextSlot(p)].data
      BY <1>1, <2>1
    <2>3. NextSlot(p) \in Slots /\ ~(NextSlot(p) = bcspos /\ back)
      BY <1>1, <1>2, <1>8, SlotsInARing
    <2> QED
      BY <1>6, <2>1, <2>2, <2>3
  <1>9. RingUnpacks'
    BY <1>2, <1>4, <1>7, <1>8 DEF RingUnpacks, Raw
  <1> QED
    BY <1>5, <1>9 DEF RingInv

\* Switching rewinding empties the ring; stopping a movie only takes its
\* records out of it.
LEMMA EnableInv ==
    ASSUME RingInv, NEW enable \in BOOLEAN, EnableStateRewind(enable)
    PROVE  RingInv'
  <1>1. bcspos' \in Slots /\ bcs' = EmptyRing
    BY DEF EnableStateRewind, RingInv, TypeOK
  <1>2. TypeOK'
    <2>1. intact' \in BOOLEAN
      BY DEF EnableStateRewind
    <2> QED
      BY <1>1, <2>1, EmptyRingInv DEF EnableStateRewind, RingInv, TypeOK
  <1>3. RingUnpacks'
    BY <1>1, EmptyRingInv DEF RingUnpacks, Raw
  <1> QED
    BY <1>2, <1>3 DEF RingInv

LEMMA StopInv ==
    ASSUME RingInv, StopRecording
    PROVE  RingInv'
  <1>1. /\ bcspos' = bcspos /\ bcspos \in Slots
        /\ bcs \in [Slots -> [data : States, key : States, MovieLove : Seq(Records)]]
        /\ bcs' \in [Slots -> [data : States, key : States, MovieLove : Seq(Records)]]
        /\ \A p \in Slots : bcs'[p].data = bcs[p].data /\ bcs'[p].key = bcs[p].key
    BY StreamsOfInputs DEF StopRecording, RingInv, TypeOK
  <1>2. TypeOK'
    BY <1>1, StreamsOfInputs DEF StopRecording, RingInv, TypeOK
  <1>3. RingUnpacks'
    <2>1. \A p \in Slots : NextSlot(p) \in Slots
      BY SlotsInARing
    <2> QED
      BY <1>1, <2>1 DEF RingInv, RingUnpacks, Raw
  <1> QED
    BY <1>2, <1>3 DEF RingInv

\* The other steps leave the ring as it is.
LEMMA RingUnchanged ==
    ASSUME RingInv, UNCHANGED <<bcs, bcspos>>, TypeOK'
    PROVE  RingInv'
  BY DEF RingInv, RingUnpacks, Raw

LEMMA RecordsTyped ==
    /\ Zero \in Records
    /\ \A s \in States : StateRecord(s) \in Records
  BY DEF Records, StateRecord

LEMMA OtherStepsInv ==
    ASSUME RingInv,
           \/ \E polled \in Polls : FrameWithoutRewind(polled) \/ FrameNothingToRewind(polled)
           \/ \E cmd \in Commands : SimpleCommand(cmd)
           \/ SaveState
           \/ LoadState
           \/ \E CurrentMovie \in MovieSlots :
                 StartRecording(CurrentMovie) \/ StartRecordingFails(CurrentMovie)
    PROVE  RingInv'
  <1>0. TypeOK
    BY DEF RingInv
  <1>1. ASSUME NEW polled \in Polls, FrameWithoutRewind(polled)
        PROVE  TypeOK' /\ UNCHANGED <<bcs, bcspos>>
    <2>1. game' \in States
      BY <1>0, <1>1, PollsAreInputs, StreamsOfInputs DEF FrameWithoutRewind, TypeOK
    <2> QED
      BY <1>0, <1>1, <2>1 DEF FrameWithoutRewind, TypeOK, ringVars
  <1>2. ASSUME NEW polled \in Polls, FrameNothingToRewind(polled)
        PROVE  TypeOK' /\ UNCHANGED <<bcs, bcspos>>
    <2>1. game' \in States /\ RewindBuffer' \in Seq(Records)
      BY <1>0, <1>2, PollsAreInputs, StreamsOfInputs DEF FrameNothingToRewind, TypeOK
    <2> QED
      BY <1>0, <1>2, <2>1 DEF FrameNothingToRewind, TypeOK, ringVars, movieVars
  <1>3. ASSUME NEW cmd \in Commands, SimpleCommand(cmd)
        PROVE  TypeOK' /\ UNCHANGED <<bcs, bcspos>>
    <2>1. cmd \in Inputs
      BY DEF Inputs
    <2>2. game' \in States /\ RewindBuffer' \in Seq(Records)
      BY <1>0, <1>3, <2>1, StreamsOfInputs, RecordsTyped DEF SimpleCommand, TypeOK
    <2>3. intact' \in BOOLEAN
      BY <1>3 DEF SimpleCommand
    <2> QED
      BY <1>0, <1>3, <2>2, <2>3 DEF SimpleCommand, TypeOK, ringVars
  <1>4. ASSUME SaveState
        PROVE  TypeOK' /\ UNCHANGED <<bcs, bcspos>>
    BY <1>0, <1>4 DEF SaveState, TypeOK, ringVars, movieVars
  <1>5. ASSUME LoadState
        PROVE  TypeOK' /\ UNCHANGED <<bcs, bcspos>>
    <2>1. game' \in States /\ RewindBuffer' \in Seq(Records)
      BY <1>0, <1>5, StreamsOfInputs, RecordsTyped DEF LoadState, TypeOK
    <2> QED
      BY <1>0, <1>5, <2>1 DEF LoadState, TypeOK, ringVars
  <1>6. ASSUME NEW CurrentMovie \in MovieSlots, StartRecording(CurrentMovie)
        PROVE  TypeOK' /\ UNCHANGED <<bcs, bcspos>>
    BY <1>0, <1>6, StreamsOfInputs DEF StartRecording, TypeOK, ringVars
  <1>7. ASSUME NEW CurrentMovie \in MovieSlots, StartRecordingFails(CurrentMovie)
        PROVE  TypeOK' /\ UNCHANGED <<bcs, bcspos>>
    BY <1>0, <1>7, StreamsOfInputs DEF StartRecordingFails, TypeOK, ringVars
  <1> QED
    BY <1>1, <1>2, <1>3, <1>4, <1>5, <1>6, <1>7, RingUnchanged

LEMMA StepInv == RingInv /\ [Next]_vars => RingInv'
  <1> SUFFICES ASSUME RingInv, [Next]_vars
               PROVE  RingInv'
    OBVIOUS
  <1>1. CASE UNCHANGED vars
    <2>1. TypeOK' /\ UNCHANGED <<bcs, bcspos>>
      BY <1>1 DEF RingInv, TypeOK, vars, ringVars, movieVars
    <2> QED
      BY <2>1, RingUnchanged
  <1>2. CASE \E polled \in Polls : Frame(polled)
    BY <1>2, ForwardInv, RewindInv, OtherStepsInv DEF Frame
  <1>3. CASE \E enable \in BOOLEAN : EnableStateRewind(enable)
    BY <1>3, EnableInv
  <1>4. CASE StopRecording
    BY <1>4, StopInv
  <1> QED
    BY <1>1, <1>2, <1>3, <1>4, OtherStepsInv DEF Next

\* The inductive invariant.
THEOREM RingInvariant == Spec => []RingInv
  BY InitInv, StepInv, PTL DEF Spec

\* No state of the game, and no moment in the ring, is ever Garbage: what
\* MDFN_StateEvil decompresses and XORs is the state that was saved.
THEOREM NeverGarbage == Spec => []TypeOK
  BY RingInvariant, PTL DEF RingInv

\* Every moment in the ring but the latest is packed against the one in the
\* next slot, and the latest is not packed.
THEOREM RingCanUnpack == Spec => []RingUnpacks
  BY RingInvariant, PTL DEF RingInv

-----------------------------------------------------------------------------
(***************************************************************************)
(* The ring of rewinding implements the undo history of RewindHistory, for *)
(* every size of the ring and every controller.  To the invariant above is *)
(* added that the slots in use are a window that ends with the latest:     *)
(* then a frame shifts the window, and a rewind shortens it by its latest  *)
(* moment.                                                                 *)
(***************************************************************************)

\* What the slots hold, apart from how it is packed.
Data == [p \in Slots |-> bcs[p].data]

\* The n slots that end with slot pos are in use, and no others.
Window(D, pos, n) ==
    \A k \in 0 .. SRW_NUM - 1 : D[SlotBack(pos, k)] # << >> <=> k < n

\* What they hold, the oldest first.
Contents(D, pos, n) == [x \in 1 .. n |-> D[SlotBack(pos, n - x)]]

HistoryInv ==
    /\ RingInv
    /\ \E n \in 0 .. SRW_NUM : Window(Data, bcspos, n)

-----------------------------------------------------------------------------
\* Going back from a slot visits each slot once; from the slot after it, the
\* same slots one step later.
LEMMA BackThroughTheRing ==
    ASSUME NEW pos \in Slots
    PROVE  /\ \A k \in 0 .. SRW_NUM - 1 : SlotBack(pos, k) \in Slots
           /\ \A k, l \in 0 .. SRW_NUM - 1 : SlotBack(pos, k) = SlotBack(pos, l) => k = l
           /\ \A p \in Slots : \E k \in 0 .. SRW_NUM - 1 : SlotBack(pos, k) = p
           /\ SlotBack(pos, 0) = pos
           /\ SlotBack(pos, 1) = PrevSlot(pos)
           /\ SlotBack(pos, SRW_NUM - 1) = NextSlot(pos)
           /\ \A k \in 1 .. SRW_NUM - 1 :
                 /\ SlotBack(NextSlot(pos), k) = SlotBack(pos, k - 1)
                 /\ SlotBack(PrevSlot(pos), k - 1) = SlotBack(pos, k)
<1>1. \A p \in Slots : \E k \in 0 .. SRW_NUM - 1 : SlotBack(pos, k) = p
  <2> TAKE p \in Slots
  <2>1. CASE p <= pos
    <3>1. pos - p \in 0 .. SRW_NUM - 1 /\ SlotBack(pos, pos - p) = p
      BY <2>1 DEF SlotBack
    <3> QED  BY <3>1
  <2>2. CASE p > pos
    <3>1. pos - p + SRW_NUM \in 0 .. SRW_NUM - 1 /\ SlotBack(pos, pos - p + SRW_NUM) = p
      BY <2>2 DEF SlotBack
    <3> QED  BY <3>1
  <2> QED  BY <2>1, <2>2
<1>2. \A k \in 1 .. SRW_NUM - 1 : SlotBack(NextSlot(pos), k) = SlotBack(pos, k - 1)
  BY DEF SlotBack, NextSlot
<1>3. \A k \in 1 .. SRW_NUM - 1 : SlotBack(PrevSlot(pos), k - 1) = SlotBack(pos, k)
  BY DEF SlotBack, PrevSlot
<1>4. \A k \in 0 .. SRW_NUM - 1 : SlotBack(pos, k) \in Slots
  BY DEF SlotBack
<1>5. \A k, l \in 0 .. SRW_NUM - 1 : SlotBack(pos, k) = SlotBack(pos, l) => k = l
  BY DEF SlotBack
<1>6. SlotBack(pos, 0) = pos /\ SlotBack(pos, 1) = PrevSlot(pos)
      /\ SlotBack(pos, SRW_NUM - 1) = NextSlot(pos)
  BY DEF SlotBack, PrevSlot, NextSlot
<1> QED  BY <1>1, <1>2, <1>3, <1>4, <1>5, <1>6

LEMMA DifferentSlots ==
    ASSUME NEW pos \in Slots, NEW k \in 0 .. SRW_NUM - 1, NEW l \in 0 .. SRW_NUM - 1,
           SlotBack(pos, k) = SlotBack(pos, l)
    PROVE  k = l
  BY BackThroughTheRing

\* The slots in use are counted by the length of the window.
LEMMA WindowCounted ==
    ASSUME NEW pos \in Slots, NEW D, NEW n \in 0 .. SRW_NUM,
           Window(D, pos, n)
    PROVE  Cardinality({p \in Slots : D[p] # << >>}) = n
<1> DEFINE T == {p \in Slots : D[p] # << >>}
           F == [i \in 1 .. n |-> SlotBack(pos, i - 1)]
<1>1. \A i \in 1 .. n : i - 1 \in 0 .. SRW_NUM - 1 /\ i - 1 < n
  OBVIOUS
<1>2. F \in [1 .. n -> T]
  BY <1>1, BackThroughTheRing DEF Window
<1>3. \A i, j \in 1 .. n : F[i] = F[j] => i = j
  <2> TAKE i, j \in 1 .. n
  <2> HAVE F[i] = F[j]
  <2>1. /\ i - 1 \in 0 .. SRW_NUM - 1 /\ j - 1 \in 0 .. SRW_NUM - 1
        /\ SlotBack(pos, i - 1) = SlotBack(pos, j - 1)
    BY <1>1
  <2>2. i - 1 = j - 1
    BY <2>1, DifferentSlots
  <2> QED  BY <2>2
<1>4. \A p \in T : \E i \in 1 .. n : F[i] = p
  <2> TAKE p \in T
  <2>1. PICK k \in 0 .. SRW_NUM - 1 : SlotBack(pos, k) = p
    BY BackThroughTheRing
  <2>2. k < n
    BY <2>1 DEF Window
  <2>3. k + 1 \in 1 .. n /\ (k + 1) - 1 = k
    BY <2>2
  <2>4. F[k + 1] = p
    BY <2>1, <2>3
  <2> QED  BY <2>3, <2>4
<1>5. F \in Bijection(1 .. n, T)
  <2> HIDE DEF F, T
  <2> QED  BY <1>2, <1>3, <1>4, Fun_IsBij
<1>6. ExistsBijection(1 .. n, T)
  BY <1>5 DEF ExistsBijection
<1>7. IsFiniteSet(1 .. n) /\ Cardinality(1 .. n) = n
  BY FS_Interval
<1> HIDE DEF T
<1>8. Cardinality(T) = n
  BY <1>6, <1>7, FS_Bijection
<1> QED  BY <1>8 DEF T

\* A frame: the window moves by one slot, and grows until it fills the ring;
\* then its oldest moment is the one that is overwritten.
LEMMA WindowMovesOn ==
    ASSUME NEW pos \in Slots, NEW n \in 0 .. SRW_NUM,
           NEW D \in [Slots -> States], NEW E \in [Slots -> States],
           NEW moment \in States, moment # << >>,
           Window(D, pos, n),
           E[NextSlot(pos)] = moment,
           \A p \in Slots \ {NextSlot(pos)} : E[p] = D[p]
    PROVE  \E m \in 0 .. SRW_NUM :
              /\ Window(E, NextSlot(pos), m)
              /\ Contents(E, NextSlot(pos), m) =
                   History!Latest(Append(Contents(D, pos, n), moment))
<1> DEFINE m == IF n < SRW_NUM THEN n + 1 ELSE n
           h == Contents(D, pos, n)
           g == Contents(E, NextSlot(pos), m)
<1>1. NextSlot(pos) \in Slots
  BY SlotsInARing
<1>2. SlotBack(NextSlot(pos), 0) = NextSlot(pos)
  BY <1>1, BackThroughTheRing
<1>3. ASSUME NEW k \in 1 .. SRW_NUM - 1
      PROVE  E[SlotBack(NextSlot(pos), k)] = D[SlotBack(pos, k - 1)]
  <2>1. SlotBack(NextSlot(pos), k) \in Slots /\ SlotBack(NextSlot(pos), k) # NextSlot(pos)
    <3>1. k \in 0 .. SRW_NUM - 1 /\ 0 \in 0 .. SRW_NUM - 1 /\ k # 0
      OBVIOUS
    <3>2. SlotBack(NextSlot(pos), k) \in Slots
      BY <1>1, <3>1, BackThroughTheRing
    <3> QED  BY <1>1, <1>2, <3>1, <3>2, DifferentSlots
  <2>2. SlotBack(NextSlot(pos), k) = SlotBack(pos, k - 1)
    BY BackThroughTheRing
  <2> QED  BY <2>1, <2>2
<1>4. m \in 0 .. SRW_NUM /\ m > 0 /\ m <= n + 1
  OBVIOUS
<1>5. Window(E, NextSlot(pos), m)
  <2> SUFFICES ASSUME NEW k \in 0 .. SRW_NUM - 1
               PROVE  E[SlotBack(NextSlot(pos), k)] # << >> <=> k < m
    BY DEF Window
  <2>1. CASE k = 0
    BY <1>2, <1>4, <2>1
  <2>2. CASE k # 0
    <3>1. k \in 1 .. SRW_NUM - 1 /\ k - 1 \in 0 .. SRW_NUM - 1
      BY <2>2
    <3>2. D[SlotBack(pos, k - 1)] # << >> <=> k - 1 < n
      BY <3>1 DEF Window
    <3>3. k - 1 < n <=> k < m
      OBVIOUS
    <3> QED  BY <1>3, <3>1, <3>2, <3>3
  <2> QED  BY <2>1, <2>2
<1>6. h \in Seq(States) /\ Len(h) = n /\ \A x \in 1 .. n : h[x] = D[SlotBack(pos, n - x)]
  <2>1. \A x \in 1 .. n : n - x \in 0 .. SRW_NUM - 1
    OBVIOUS
  <2>2. h \in [1 .. n -> States]
    BY <2>1, BackThroughTheRing DEF Contents
  <2>3. h \in Seq(States) /\ Len(h) = n
    BY <2>2
  <2> QED  BY <2>3 DEF Contents
<1>7. /\ DOMAIN g = 1 .. m /\ g = [x \in DOMAIN g |-> g[x]]
      /\ g[m] = moment
      /\ \A x \in 1 .. m - 1 : g[x] = D[SlotBack(pos, m - 1 - x)]
  <2>1. g[m] = moment
    <3>1. m \in 1 .. m /\ m - m = 0
      BY <1>4
    <3>2. g[m] = E[SlotBack(NextSlot(pos), m - m)]
      BY <3>1 DEF Contents
    <3> QED  BY <1>2, <3>1, <3>2
  <2>2. ASSUME NEW x \in 1 .. m - 1
        PROVE  g[x] = D[SlotBack(pos, m - 1 - x)]
    <3>1. m - x \in 1 .. SRW_NUM - 1 /\ x \in 1 .. m /\ (m - x) - 1 = m - 1 - x
      BY <1>4
    <3>2. g[x] = E[SlotBack(NextSlot(pos), m - x)]
      BY <3>1 DEF Contents
    <3> QED  BY <1>3, <3>1, <3>2
  <2> QED  BY <2>1, <2>2 DEF Contents
<1>8. g = History!Latest(Append(h, moment))
  <2> HIDE DEF h, g
  <2>0. /\ Append(h, moment) \in Seq(States) /\ Len(Append(h, moment)) = n + 1
        /\ Append(h, moment)[n + 1] = moment
        /\ \A x \in 1 .. n : Append(h, moment)[x] = h[x]
    BY <1>6
  <2>1. CASE n < SRW_NUM
    <3>1. m = n + 1 /\ History!Latest(Append(h, moment)) = Append(h, moment)
      BY <2>0, <2>1 DEF History!Latest
    <3>2. \A x \in 1 .. n : g[x] = h[x]
      BY <1>6, <1>7, <3>1
    <3>3. \A x \in 1 .. n + 1 : g[x] = Append(h, moment)[x]
      BY <1>7, <2>0, <3>1, <3>2
    <3>4. DOMAIN g = DOMAIN Append(h, moment)
      BY <1>7, <2>0, <3>1
    <3>5. Append(h, moment) = [x \in 1 .. n + 1 |-> Append(h, moment)[x]]
      <4> DEFINE s == Append(h, moment)
      <4> HIDE DEF s
      <4>1. s \in Seq(States) /\ Len(s) = n + 1
        BY <2>0 DEF s
      <4>2. s = [x \in 1 .. n + 1 |-> s[x]]
        BY <4>1
      <4> QED  BY <4>2 DEF s
    <3> QED  BY <1>7, <3>1, <3>3, <3>5
  <2>2. CASE n = SRW_NUM
    <3>1. m = n /\ History!Latest(Append(h, moment)) = Tail(Append(h, moment))
      BY <2>0, <2>2 DEF History!Latest
    <3>2. /\ Tail(Append(h, moment)) = [x \in 1 .. n |-> Tail(Append(h, moment))[x]]
          /\ \A x \in 1 .. n : Tail(Append(h, moment))[x] = Append(h, moment)[x + 1]
      BY <2>0
    <3>3. ASSUME NEW x \in 1 .. n
          PROVE  g[x] = Append(h, moment)[x + 1]
      <4>1. CASE x = n
        BY <1>7, <2>0, <3>1, <4>1
      <4>2. CASE x # n
        <5>1. x \in 1 .. m - 1 /\ x + 1 \in 1 .. n /\ n - (x + 1) = m - 1 - x
          BY <3>1, <4>2
        <5>2. g[x] = D[SlotBack(pos, m - 1 - x)]
          BY <1>7, <5>1
        <5>3. h[x + 1] = D[SlotBack(pos, n - (x + 1))]
          BY <1>6, <5>1
        <5>4. Append(h, moment)[x + 1] = h[x + 1]
          BY <2>0, <5>1
        <5> QED  BY <5>1, <5>2, <5>3, <5>4
      <4> QED  BY <4>1, <4>2
    <3> QED  BY <1>7, <3>1, <3>2, <3>3
  <2> QED  BY <2>1, <2>2
<1> QED  BY <1>4, <1>5, <1>8

\* A rewind: the window loses its latest moment.
LEMMA WindowShortens ==
    ASSUME NEW pos \in Slots, NEW n \in 0 .. SRW_NUM,
           NEW D \in [Slots -> States], NEW E \in [Slots -> States],
           Window(D, pos, n),
           D[PrevSlot(pos)] # << >>,
           E[pos] = << >>,
           \A p \in Slots \ {pos} : E[p] = D[p]
    PROVE  /\ n >= 2
           /\ Window(E, PrevSlot(pos), n - 1)
           /\ Contents(E, PrevSlot(pos), n - 1) = History!Front(Contents(D, pos, n))
<1>1. n >= 2
  BY BackThroughTheRing DEF Window
<1>2. PrevSlot(pos) \in Slots /\ NextSlot(PrevSlot(pos)) = pos
  BY SlotsInARing
<1>3. SlotBack(PrevSlot(pos), SRW_NUM - 1) = pos
  BY <1>2, BackThroughTheRing
<1>4. ASSUME NEW k \in 1 .. SRW_NUM - 1
      PROVE  E[SlotBack(PrevSlot(pos), k - 1)] = D[SlotBack(pos, k)]
  <2>1. SlotBack(pos, k) \in Slots /\ SlotBack(pos, k) # pos
    <3>1. k \in 0 .. SRW_NUM - 1 /\ 0 \in 0 .. SRW_NUM - 1 /\ k # 0
      OBVIOUS
    <3>2. SlotBack(pos, k) \in Slots /\ SlotBack(pos, 0) = pos
      BY <3>1, BackThroughTheRing
    <3> QED  BY <3>1, <3>2, DifferentSlots
  <2>2. SlotBack(PrevSlot(pos), k - 1) = SlotBack(pos, k)
    BY BackThroughTheRing
  <2> QED  BY <2>1, <2>2
<1>5. Window(E, PrevSlot(pos), n - 1)
  <2> SUFFICES ASSUME NEW k \in 0 .. SRW_NUM - 1
               PROVE  E[SlotBack(PrevSlot(pos), k)] # << >> <=> k < n - 1
    BY DEF Window
  <2>1. CASE k = SRW_NUM - 1
    BY <1>3, <2>1
  <2>2. CASE k # SRW_NUM - 1
    <3>1. k + 1 \in 1 .. SRW_NUM - 1 /\ k + 1 \in 0 .. SRW_NUM - 1 /\ (k + 1) - 1 = k
      BY <2>2
    <3>2. D[SlotBack(pos, k + 1)] # << >> <=> k + 1 < n
      BY <3>1 DEF Window
    <3>3. k + 1 < n <=> k < n - 1
      OBVIOUS
    <3>4. E[SlotBack(PrevSlot(pos), k)] = D[SlotBack(pos, k + 1)]
      BY <1>4, <3>1
    <3> QED  BY <3>2, <3>3, <3>4
  <2> QED  BY <2>1, <2>2
<1>6. Contents(E, PrevSlot(pos), n - 1) = History!Front(Contents(D, pos, n))
  <2> DEFINE h == Contents(D, pos, n)
  <2>1. Len(h) = n /\ \A x \in 1 .. n : h[x] = D[SlotBack(pos, n - x)]
    BY DEF Contents
  <2>2. History!Front(h) = [x \in 1 .. n - 1 |-> h[x]]
    BY <2>1 DEF History!Front
  <2>3. ASSUME NEW x \in 1 .. n - 1
        PROVE  E[SlotBack(PrevSlot(pos), n - 1 - x)] = h[x]
    <3>1. n - x \in 1 .. SRW_NUM - 1 /\ x \in 1 .. n /\ (n - x) - 1 = n - 1 - x
      OBVIOUS
    <3>2. E[SlotBack(PrevSlot(pos), (n - x) - 1)] = D[SlotBack(pos, n - x)]
      BY <1>4, <3>1
    <3> QED  BY <2>1, <3>1, <3>2
  <2> QED  BY <2>2, <2>3 DEF Contents
<1> QED  BY <1>1, <1>5, <1>6

-----------------------------------------------------------------------------
LEMMA DataTyped ==
    ASSUME RingInv
    PROVE  Data \in [Slots -> States] /\ bcspos \in Slots
  BY DEF RingInv, TypeOK, Data

\* The history in the model is what the window holds.
LEMMA MomentsOfWindow ==
    RingInv => \A n \in 0 .. SRW_NUM :
                  Window(Data, bcspos, n) => Moments = Contents(Data, bcspos, n)
<1> SUFFICES ASSUME RingInv, NEW n \in 0 .. SRW_NUM, Window(Data, bcspos, n)
             PROVE  Moments = Contents(Data, bcspos, n)
  OBVIOUS
<1>1. bcspos \in Slots
  BY DataTyped
<1>2. {p \in Slots : bcs[p].data # << >>} = {p \in Slots : Data[p] # << >>}
  BY DEF Data
<1>3. Held = n
  BY <1>1, <1>2, WindowCounted DEF Held
<1>4. \A x \in 1 .. n : SlotBack(bcspos, n - x) \in Slots
  <2> TAKE x \in 1 .. n
  <2>1. n - x \in 0 .. SRW_NUM - 1
    OBVIOUS
  <2> QED  BY <1>1, <2>1, BackThroughTheRing
<1>5. \A x \in 1 .. n : bcs[SlotBack(bcspos, n - x)].data = Data[SlotBack(bcspos, n - x)]
  BY <1>4 DEF Data
<1> QED  BY <1>3, <1>5 DEF Moments, Contents

LEMMA MomentsOfWindowNext ==
    (RingInv => \A n \in 0 .. SRW_NUM :
                   Window(Data, bcspos, n) => Moments = Contents(Data, bcspos, n))'
  BY MomentsOfWindow, PTL

LEMMA DataTypedNext == (RingInv => Data \in [Slots -> States] /\ bcspos \in Slots)'
<1>1. RingInv => Data \in [Slots -> States] /\ bcspos \in Slots
  BY DataTyped
<1> QED  BY <1>1, PTL

\* Nothing is saved or restored.
LEMMA HistoryStays ==
    ASSUME HistoryInv, RingInv', Data' = Data, bcspos' = bcspos
    PROVE  HistoryInv' /\ Moments' = Moments
<1>1. PICK n \in 0 .. SRW_NUM : Window(Data, bcspos, n)
  BY DEF HistoryInv
<1>2. Window(Data', bcspos', n)
  BY <1>1
<1>3. Moments = Contents(Data, bcspos, n)
  BY <1>1, MomentsOfWindow DEF HistoryInv
<1>4. Moments' = Contents(Data', bcspos', n)
  BY <1>2, MomentsOfWindowNext DEF Window
<1> QED  BY <1>2, <1>3, <1>4 DEF HistoryInv, Window

\* The ring is emptied.
LEMMA HistoryCleared ==
    ASSUME RingInv', bcs' = EmptyRing
    PROVE  HistoryInv' /\ Moments' = << >>
<1>1. Data' = [p \in Slots |-> << >>] /\ bcspos' \in Slots
  BY EmptyRingInv, DataTypedNext DEF Data
<1>2. Window(Data', bcspos', 0)
  BY <1>1, BackThroughTheRing DEF Window
<1>3. Moments' = Contents(Data', bcspos', 0)
  BY <1>2, MomentsOfWindowNext DEF Window
<1>4. Contents(Data', bcspos', 0) = << >>
  BY DEF Contents
<1> QED  BY <1>2, <1>3, <1>4 DEF HistoryInv, Window

-----------------------------------------------------------------------------
\* A frame with rewinding on is remembered.
LEMMA ForwardRemembers ==
    ASSUME HistoryInv, RingInv', NEW polled \in Polls, FrameForward(polled)
    PROVE  HistoryInv' /\ History!Remember(polled)
<1> DEFINE moment == Append(game, Head(polled))
           pos == NextSlot(bcspos)
<1>1. /\ game \in States
      /\ bcs \in [Slots -> [data : States, key : States, MovieLove : Seq(Records)]]
      /\ bcspos \in Slots /\ Raw(bcs[bcspos]) /\ RingInv
  BY DEF HistoryInv, RingInv, TypeOK, RingUnpacks
<1>2. moment \in States /\ moment # << >>
  BY <1>1, PollsAreInputs, StreamsOfInputs
<1>3. pos \in Slots /\ pos # bcspos
  BY <1>1, SlotsInARing
<1>4. Pack(bcs[bcspos], moment).data = bcs[bcspos].data
  BY <1>1, <1>2, PackTyped
<1>5. /\ bcspos' = pos
      /\ bcs'[pos].data = moment
      /\ \A p \in Slots \ {pos} : bcs'[p].data = bcs[p].data
  BY <1>1, <1>3, <1>4 DEF FrameForward
<1>6. PICK n \in 0 .. SRW_NUM : Window(Data, bcspos, n)
  BY DEF HistoryInv
<1>7. Data \in [Slots -> States] /\ Data' \in [Slots -> States]
  BY <1>1, DataTyped, DataTypedNext
<1>8. Data'[pos] = moment /\ \A p \in Slots \ {pos} : Data'[p] = Data[p]
  BY <1>3, <1>5 DEF Data
<1>9. PICK m \in 0 .. SRW_NUM :
         /\ Window(Data', pos, m)
         /\ Contents(Data', pos, m) =
              History!Latest(Append(Contents(Data, bcspos, n), moment))
  <2> DEFINE D == Data
             E == Data'
             c == bcspos
  <2>1. /\ c \in Slots /\ moment \in States /\ moment # << >>
        /\ D \in [Slots -> States] /\ E \in [Slots -> States]
        /\ Window(D, c, n)
        /\ E[NextSlot(c)] = moment
        /\ \A p \in Slots \ {NextSlot(c)} : E[p] = D[p]
    BY <1>1, <1>2, <1>6, <1>7, <1>8
  <2> HIDE DEF D, E, c, moment
  <2>2. \E m \in 0 .. SRW_NUM :
           /\ Window(E, NextSlot(c), m)
           /\ Contents(E, NextSlot(c), m) = History!Latest(Append(Contents(D, c, n), moment))
    BY <2>1, WindowMovesOn
  <2> QED  BY <2>2 DEF D, E, c
<1>10. Moments = Contents(Data, bcspos, n)
  BY <1>1, <1>6, MomentsOfWindow
<1>11. Window(Data', bcspos', m) /\ Moments' = Contents(Data', bcspos', m)
  BY <1>5, <1>9, MomentsOfWindowNext DEF Window
<1>12. HistoryInv'
  BY <1>11 DEF HistoryInv, Window
<1>13. Moments' = History!Latest(Append(Moments, moment))
  BY <1>5, <1>9, <1>10, <1>11
<1>14. game' = game \o polled /\ EvilEnabled /\ UNCHANGED <<saved, EvilEnabled>>
  BY DEF FrameForward
<1> QED  BY <1>12, <1>13, <1>14 DEF History!Remember

\* A rewind that finds the ring empty: there is no moment to go back to.
LEMMA NothingToGoBackTo ==
    ASSUME HistoryInv, NEW polled \in Polls, FrameNothingToRewind(polled)
    PROVE  Moments = << >>
<1>1. PICK n \in 0 .. SRW_NUM : Window(Data, bcspos, n)
  BY DEF HistoryInv
<1>2. bcspos \in Slots /\ RingInv
  BY DataTyped DEF HistoryInv
<1>3. n = 0
  <2>1. 0 \in 0 .. SRW_NUM - 1 /\ SlotBack(bcspos, 0) = bcspos
    BY <1>2, BackThroughTheRing
  <2>2. ~(0 < n)
    <3>1. ~(Data[bcspos] # << >>)
      BY <1>2 DEF FrameNothingToRewind, Data
    <3> QED  BY <1>1, <2>1, <3>1 DEF Window
  <2> QED  BY <2>2
<1>4. Moments = Contents(Data, bcspos, n)
  BY <1>1, <1>2, MomentsOfWindow
<1> QED  BY <1>3, <1>4 DEF Contents

\* A frame run backwards drops the latest moment, if it is not the only one,
\* and runs again from the one that is then the latest.
LEMMA RewindGoesBack ==
    ASSUME HistoryInv, RingInv', NEW polled \in Polls, FrameRewind(polled)
    PROVE  HistoryInv' /\ History!GoBack(polled)
<1> DEFINE back == bcs[PrevSlot(bcspos)].data # << >>
           pos == IF back THEN PrevSlot(bcspos) ELSE bcspos
           moment == Unpack(bcs[pos], bcs[bcspos])
<1>1. /\ bcs \in [Slots -> [data : States, key : States, MovieLove : Seq(Records)]]
      /\ bcspos \in Slots /\ Raw(bcs[bcspos]) /\ RingInv
  BY DEF HistoryInv, RingInv, TypeOK, RingUnpacks
<1>2. pos \in Slots /\ PrevSlot(bcspos) \in Slots /\ PrevSlot(bcspos) # bcspos
  BY <1>1, SlotsInARing
<1>3. moment = bcs[pos].data /\ moment # << >> /\ moment \in States
  BY <1>1, <1>2, UnpacksTheMoment DEF Unpack, FrameRewind
<1>4. /\ bcspos' = pos
      /\ bcs' = [p \in Slots |->
           IF p = bcspos /\ back THEN EmptySlot
           ELSE IF p = pos THEN [bcs[p] EXCEPT !.data = moment, !.key = << >>]
           ELSE bcs[p]]
      /\ Head(polled) = Last(moment) \/ moment = <<Garbage>>
      /\ game' = moment \o Tail(polled)
      /\ EvilEnabled /\ UNCHANGED <<saved, EvilEnabled>>
  BY DEF FrameRewind
<1>5. \A p \in Slots : bcs'[p].data = IF p = bcspos /\ back THEN << >> ELSE bcs[p].data
  BY <1>1, <1>3, <1>4 DEF EmptySlot
<1>6. Head(polled) = Last(moment)
  <2>1. moment # <<Garbage>>
    BY <1>3 DEF States
  <2> QED  BY <1>4, <2>1
<1>7. PICK n \in 0 .. SRW_NUM : Window(Data, bcspos, n)
  BY DEF HistoryInv
<1>8. Data \in [Slots -> States] /\ Data' \in [Slots -> States]
  BY <1>1, DataTyped, DataTypedNext
<1>9. Moments = Contents(Data, bcspos, n)
  BY <1>1, <1>7, MomentsOfWindow
<1>10. CASE back
  <2> DEFINE E == Data'
             m == n - 1
  <2>1. /\ Data[PrevSlot(bcspos)] # << >> /\ E[bcspos] = << >>
        /\ \A p \in Slots \ {bcspos} : E[p] = Data[p]
    BY <1>1, <1>2, <1>5, <1>10 DEF Data
  <2>2. E \in [Slots -> States]
    BY <1>8
  <2> HIDE DEF E
  <2>3. /\ n >= 2
        /\ Window(E, PrevSlot(bcspos), m)
        /\ Contents(E, PrevSlot(bcspos), m) = History!Front(Contents(Data, bcspos, n))
    BY <1>1, <1>7, <1>8, <2>1, <2>2, WindowShortens
  <2>4. m \in 0 .. SRW_NUM /\ m >= 1 /\ n > 1
    BY <2>3
  <2> HIDE DEF m
  <2>5. Window(Data', bcspos', m) /\ Moments' = Contents(Data', bcspos', m)
    BY <1>4, <1>10, <2>3, <2>4, MomentsOfWindowNext DEF Window, E
  <2>6. HistoryInv'
    BY <2>4, <2>5 DEF HistoryInv, Window
  <2>7. Moments' = History!Front(Moments) /\ Len(Moments) > 1 /\ Moments # << >>
    <3>1. Moments' = History!Front(Moments)
      BY <1>4, <1>9, <1>10, <2>3, <2>5 DEF E
    <3>2. Len(Moments) = n
      BY <1>9 DEF Contents
    <3>3. Len(Moments) > 1
      BY <2>4, <3>2
    <3>4. Moments # << >>
      <4>1. Len(<< >>) = 0 /\ ~(0 > 1)
        OBVIOUS
      <4> DEFINE s == Moments
      <4>2. Len(s) > 1
        BY <3>3
      <4> HIDE DEF s
      <4>3. s # << >>
        BY <4>1, <4>2
      <4> QED  BY <4>3 DEF s
    <3> QED  BY <3>1, <3>3, <3>4
  <2>8. History!Last(Moments') = moment
    <3>1. Moments' = [x \in 1 .. m |-> E[SlotBack(pos, m - x)]]
      BY <1>4, <2>5 DEF Contents, E
    <3>2. Len(Moments') = m /\ Moments'[m] = E[SlotBack(pos, m - m)]
      BY <2>4, <3>1
    <3>3. SlotBack(pos, m - m) = pos
      <4>1. m - m = 0
        BY <2>4
      <4>2. SlotBack(pos, 0) = pos
        BY <1>2, BackThroughTheRing
      <4> QED  BY <4>1, <4>2
    <3>4. E[pos] = moment
      BY <1>2, <1>3, <1>10, <2>1 DEF Data
    <3> QED  BY <3>2, <3>3, <3>4 DEF History!Last
  <2> QED  BY <1>4, <1>6, <2>6, <2>7, <2>8 DEF History!GoBack, History!Last, Last
<1>11. CASE ~back
  <2>1. Data' = Data /\ bcspos' = bcspos
    BY <1>4, <1>5, <1>11 DEF Data
  <2>2. HistoryInv' /\ Moments' = Moments
    BY <2>1, HistoryStays
  <2>3. n = 1
    <3>1. SlotBack(bcspos, 0) = bcspos /\ SlotBack(bcspos, 1) = PrevSlot(bcspos)
      BY <1>1, BackThroughTheRing
    <3>2. Data[bcspos] # << >> /\ ~(Data[PrevSlot(bcspos)] # << >>)
      BY <1>1, <1>2, <1>3, <1>11 DEF Data
    <3>3. 0 \in 0 .. SRW_NUM - 1 /\ 1 \in 0 .. SRW_NUM - 1
      OBVIOUS
    <3>4. 0 < n /\ ~(1 < n)
      BY <1>7, <3>1, <3>2, <3>3 DEF Window
    <3> QED  BY <3>4
  <2>4. Len(Moments) = 1 /\ Moments[1] = moment
    <3>1. Moments = [x \in 1 .. 1 |-> Data[SlotBack(bcspos, 1 - x)]]
      BY <1>9, <2>3 DEF Contents
    <3>2. SlotBack(bcspos, 1 - 1) = bcspos /\ Data[bcspos] = moment
      BY <1>1, <1>3, <1>11, BackThroughTheRing DEF Data
    <3> QED  BY <3>1, <3>2
  <2>5. Moments # << >> /\ ~(Len(Moments) > 1) /\ History!Last(Moments) = moment
    <3> DEFINE s == Moments
    <3>1. Len(<< >>) = 0 /\ ~(1 > 1) /\ 0 # 1
      OBVIOUS
    <3>2. History!Last(s) = s[1]
      BY <2>4 DEF History!Last
    <3>3. Len(s) = 1 /\ s[1] = moment
      BY <2>4
    <3> HIDE DEF s, moment
    <3>4. s # << >> /\ ~(Len(s) > 1) /\ History!Last(s) = moment
      BY <3>1, <3>2, <3>3
    <3> QED  BY <3>4 DEF s
  <2> QED  BY <1>4, <1>6, <2>2, <2>5 DEF History!GoBack, History!Last, Last
<1> QED  BY <1>10, <1>11

\* A step of the code is a step of the history, or none.
LEMMA StepImplements ==
    HistoryInv /\ RingInv' /\ [Next]_vars => HistoryInv' /\ [History!HistoryNext]_(History!historyVars)
<1> SUFFICES ASSUME HistoryInv, RingInv', [Next]_vars
             PROVE  HistoryInv' /\ [History!HistoryNext]_(History!historyVars)
  OBVIOUS
<1>1. TypeOK /\ RingInv
  BY DEF HistoryInv, RingInv
<1>2. ASSUME UNCHANGED <<bcs, bcspos>>
      PROVE  HistoryInv' /\ Moments' = Moments
  <2>1. Data' = Data
    BY <1>2 DEF Data
  <2> QED  BY <1>2, <2>1, HistoryStays
<1>3. ASSUME NEW polled \in Polls, Frame(polled)
      PROVE  HistoryInv' /\ History!HistoryNext
  <2>1. CASE FrameWithoutRewind(polled) \/ FrameNothingToRewind(polled)
    <3>1. UNCHANGED <<saved, EvilEnabled, bcs, bcspos>> /\ game' = game \o polled
      BY <2>1 DEF FrameWithoutRewind, FrameNothingToRewind, ringVars
    <3>2. ~EvilEnabled \/ Moments = << >>
      BY <2>1, NothingToGoBackTo DEF FrameWithoutRewind
    <3>3. History!Forget(polled)
      BY <1>2, <3>1, <3>2 DEF History!Forget
    <3> QED  BY <1>2, <3>1, <3>3 DEF History!HistoryNext
  <2>2. CASE FrameForward(polled)
    BY <2>2, ForwardRemembers DEF History!HistoryNext
  <2>3. CASE FrameRewind(polled)
    BY <2>3, RewindGoesBack DEF History!HistoryNext
  <2> QED  BY <1>3, <2>1, <2>2, <2>3 DEF Frame
<1>4. ASSUME NEW cmd \in Commands, SimpleCommand(cmd)
      PROVE  HistoryInv' /\ History!HistoryNext
  <2>1. UNCHANGED <<saved, EvilEnabled, bcs, bcspos>> /\ game' = Append(game, cmd)
    BY <1>4 DEF SimpleCommand, ringVars
  <2>2. History!Command(cmd)
    BY <1>2, <2>1 DEF History!Command
  <2> QED  BY <1>2, <2>1, <2>2 DEF History!HistoryNext
<1>5. CASE SaveState
  <2>1. UNCHANGED <<game, EvilEnabled, bcs, bcspos>> /\ saved' = game
    BY <1>5 DEF SaveState, ringVars
  <2>2. History!Save
    BY <1>2, <2>1 DEF History!Save
  <2> QED  BY <1>2, <2>1, <2>2 DEF History!HistoryNext
<1>6. CASE LoadState
  <2>1. UNCHANGED <<saved, EvilEnabled, bcs, bcspos>> /\ game' = saved
    BY <1>6 DEF LoadState, ringVars
  <2>2. History!Load
    BY <1>2, <2>1 DEF History!Load
  <2> QED  BY <1>2, <2>1, <2>2 DEF History!HistoryNext
<1>7. ASSUME NEW enable \in BOOLEAN, EnableStateRewind(enable)
      PROVE  HistoryInv' /\ History!HistoryNext
  <2>1. bcs' = EmptyRing /\ UNCHANGED <<game, saved>> /\ EvilEnabled' \in BOOLEAN
    BY <1>7 DEF EnableStateRewind
  <2>2. History!Switch
    BY <2>1, HistoryCleared DEF History!Switch
  <2> QED  BY <2>1, <2>2, HistoryCleared DEF History!HistoryNext
<1>8. CASE \E CurrentMovie \in MovieSlots :
              StartRecording(CurrentMovie) \/ StartRecordingFails(CurrentMovie)
  <2>1. UNCHANGED <<game, saved, EvilEnabled, bcs, bcspos>>
    BY <1>8 DEF StartRecording, StartRecordingFails, ringVars
  <2> QED  BY <1>2, <2>1 DEF History!historyVars
<1>9. CASE StopRecording
  <2>1. /\ bcspos' = bcspos /\ UNCHANGED <<game, saved, EvilEnabled>>
        /\ \A p \in Slots : bcs'[p].data = bcs[p].data
    BY <1>1, <1>9 DEF StopRecording, TypeOK
  <2>2. Data' = Data
    BY <2>1 DEF Data
  <2> QED  BY <2>1, <2>2, HistoryStays DEF History!historyVars
<1>10. CASE UNCHANGED vars
  <2>1. UNCHANGED <<game, saved, EvilEnabled, bcs, bcspos>>
    BY <1>10 DEF vars, ringVars
  <2> QED  BY <1>2, <2>1 DEF History!historyVars
<1> QED  BY <1>3, <1>4, <1>5, <1>6, <1>7, <1>8, <1>9, <1>10 DEF Next

LEMMA InitImplements == Init => HistoryInv /\ History!HistoryInit
<1> SUFFICES ASSUME Init
             PROVE  HistoryInv /\ History!HistoryInit
  OBVIOUS
<1>1. /\ bcs = EmptyRing /\ bcspos \in Slots /\ game = << >> /\ saved = << >>
      /\ EvilEnabled = FALSE /\ RingInv
  BY InitInv DEF Init
<1>2. Data = [p \in Slots |-> << >>]
  BY <1>1, EmptyRingInv DEF Data
<1>3. Window(Data, bcspos, 0)
  BY <1>1, <1>2, BackThroughTheRing DEF Window
<1>4. Moments = Contents(Data, bcspos, 0) /\ Contents(Data, bcspos, 0) = << >>
  BY <1>1, <1>3, MomentsOfWindow DEF Contents
<1> QED  BY <1>1, <1>3, <1>4 DEF HistoryInv, History!HistoryInit

\* state.cpp:1098: while rewinding is on each frame is remembered, up to as
\* many as the ring has slots, and each rewind restores the moment before the
\* one last saved or restored, for every size of the ring.
THEOREM RingIsHistory == Spec => ImplementsHistory
<1>1. Init => HistoryInv /\ History!HistoryInit
  BY InitImplements
<1>2. HistoryInv /\ RingInv' /\ [Next]_vars
        => HistoryInv' /\ [History!HistoryNext]_(History!historyVars)
  BY StepImplements
<1>3. Spec => []RingInv
  BY RingInvariant
<1> QED  BY <1>1, <1>2, <1>3, PTL DEF Spec, ImplementsHistory, History!HistorySpec

-----------------------------------------------------------------------------
(***************************************************************************)
(* A movie replays, for every size of the ring and every controller.  The  *)
(* state of the game does not tell where the records of the ring lead, so  *)
(* the invariant names the states between them: "after" goes from the      *)
(* state the movie file leads to, slot by slot, to the one that            *)
(* RewindBuffer continues, and passes through the moment of each slot that *)
(* holds records (Chain).  A frame drops the first of these states into    *)
(* the file and adds one at the end; a rewind drops the last.              *)
(***************************************************************************)

\* Where a movie may lead: the states of the game, and Garbage.
Plays == Seq(Inputs \cup {Garbage})

LEMMA StatesHoldNoGarbage ==
    /\ \A s \in States : s \in Plays /\ ~Contains(s, Garbage)
    /\ <<Garbage>> \in Plays
<1>1. ASSUME NEW s \in States
      PROVE  s \in Plays /\ ~Contains(s, Garbage)
  <2>1. \A i \in 1 .. Len(s) : s[i] \in Inputs
    BY DEF States
  <2> QED  BY <2>1 DEF Contains, States, Plays
<1> QED  BY <1>1 DEF Plays

LEMMA ReplayTyped ==
    ASSUME NEW s \in Plays, NEW record \in Records
    PROVE  Replay(s, record) \in Plays
<1>1. CASE record \in Inputs
  BY <1>1, RecordAssumption DEF Replay, Plays
<1>2. CASE record = Zero
  BY <1>2, RecordAssumption, StatesHoldNoGarbage DEF Replay
<1>3. CASE record \in [state : States] /\ record \notin Inputs /\ record # Zero
  <2>1. record.state \in Plays
    BY <1>3, StatesHoldNoGarbage
  <2> QED  BY <1>3, <2>1 DEF Replay
<1> QED  BY <1>1, <1>2, <1>3 DEF Records

\* The states a movie passes through.
Played(s, records, f) ==
    /\ f \in [0 .. Len(records) -> Plays]
    /\ f[0] = s
    /\ \A i \in 1 .. Len(records) : f[i] = Replay(f[i - 1], records[i])

LEMMA PlayPath ==
    ASSUME NEW s \in Plays, NEW records \in Seq(Records)
    PROVE  \E f : Played(s, records, f) /\ Play(s, records) = f[Len(records)]
<1> DEFINE n == Len(records)
           R == [i \in 1 .. n |-> [t \in Plays |-> Replay(t, records[i])]]
           Step(g) == [i \in 0 .. n |-> IF i = 0 THEN s ELSE Replay(g[i - 1], records[i])]
           f == CHOOSE g : g = Step(g)
<1>1. n \in Nat /\ \A i \in 1 .. n : records[i] \in Records
  OBVIOUS
<1>2. R \in [1 .. n -> [Plays -> Plays]]
  BY <1>1, ReplayTyped
<1>3. PICK h : Iterates(n, Plays, s, R, h)
  <2> HIDE DEF R, n
  <2> QED  BY <1>1, <1>2, Iteration
<1>4. h \in [0 .. n -> Plays] /\ h[0] = s /\ \A i \in 1 .. n : h[i] = R[i][h[i - 1]]
  <2> HIDE DEF R, n
  <2> QED  BY <1>3 DEF Iterates
<1>5. \A i \in 1 .. n : h[i] = Replay(h[i - 1], records[i])
  BY <1>4
<1>6. h = Step(h)
  BY <1>4, <1>5
<1> HIDE DEF Step
<1>7. f = Step(f)
  BY <1>6
<1>8. Play(s, records) = f[n]
  BY DEF Play, Step
<1> HIDE DEF f
<1>9. /\ f = [i \in 0 .. n |-> f[i]] /\ f[0] = s
      /\ \A i \in 1 .. n : f[i] = Replay(f[i - 1], records[i])
  BY <1>1, <1>7 DEF Step
<1> DEFINE T == {i \in 0 .. n : f[i] \in Plays}
<1>10. 0 .. n \subseteq T
  <2>1. 0 \in T
    BY <1>1, <1>9
  <2>2. ASSUME NEW i \in 1 .. n, i - 1 \in T  PROVE i \in T
    <3>1. Replay(f[i - 1], records[i]) \in Plays
      BY <1>1, <2>2, ReplayTyped
    <3> QED  BY <1>9, <3>1
  <2> HIDE DEF T, n
  <2> QED  BY <1>1, <2>1, <2>2, Induction
<1>11. f \in [0 .. n -> Plays]
  BY <1>9, <1>10
<1> QED  BY <1>8, <1>9, <1>11 DEF Played

LEMMA PlayTyped ==
    ASSUME NEW s \in Plays, NEW records \in Seq(Records)
    PROVE  Play(s, records) \in Plays
<1>1. PICK f : Played(s, records, f) /\ Play(s, records) = f[Len(records)]
  BY PlayPath
<1> QED  BY <1>1 DEF Played

LEMMA PlayNothing ==
    ASSUME NEW s \in Plays
    PROVE  Play(s, << >>) = s
<1>1. << >> \in Seq(Records) /\ Len(<< >>) = 0
  OBVIOUS
<1>2. PICK f : Played(s, << >>, f) /\ Play(s, << >>) = f[Len(<< >>)]
  BY <1>1, PlayPath
<1> QED  BY <1>1, <1>2 DEF Played

\* A movie is played on from where its first records lead.
LEMMA PlayOn ==
    ASSUME NEW s \in Plays, NEW first \in Seq(Records), NEW rest \in Seq(Records)
    PROVE  Play(s, first \o rest) = Play(Play(s, first), rest)
<1> DEFINE m == Len(first)
           n == Len(rest)
           all == first \o rest
           mid == Play(s, first)
<1>1. /\ m \in Nat /\ n \in Nat /\ all \in Seq(Records) /\ Len(all) = m + n
      /\ \A i \in 1 .. m : all[i] = first[i]
      /\ \A i \in 1 .. n : all[m + i] = rest[i]
  OBVIOUS
<1> HIDE DEF all
<1>2. mid \in Plays
  BY PlayTyped
<1>3. PICK f : Played(s, first, f) /\ mid = f[m]
  BY PlayPath
<1> HIDE DEF mid
<1>4. PICK g : Played(mid, rest, g) /\ Play(mid, rest) = g[n]
  BY <1>2, PlayPath
<1>5. PICK h : Played(s, all, h) /\ Play(s, all) = h[m + n]
  BY <1>1, PlayPath
<1>6. /\ f[0] = s /\ h[0] = s /\ g[0] = mid
      /\ \A i \in 1 .. m : f[i] = Replay(f[i - 1], first[i])
      /\ \A i \in 1 .. n : g[i] = Replay(g[i - 1], rest[i])
      /\ \A i \in 1 .. m + n : h[i] = Replay(h[i - 1], all[i])
  BY <1>1, <1>3, <1>4, <1>5 DEF Played
<1> HIDE DEF m, n
<1> DEFINE T == {i \in 0 .. m : f[i] = h[i]}
           U == {i \in 0 .. n : g[i] = h[m + i]}
<1>7. f[m] = h[m]
  <2>1. 0 \in T
    BY <1>1, <1>6
  <2>2. ASSUME NEW i \in 1 .. m, i - 1 \in T  PROVE i \in T
    <3>1. f[i - 1] = h[i - 1] /\ i \in 1 .. m + n /\ all[i] = first[i]
      BY <1>1, <2>2
    <3>2. f[i] = Replay(f[i - 1], first[i]) /\ h[i] = Replay(h[i - 1], all[i])
      BY <1>6, <3>1
    <3> QED  BY <1>1, <3>1, <3>2
  <2>3. 0 .. m \subseteq T
    <3> HIDE DEF T
    <3> QED  BY <1>1, <2>1, <2>2, Induction
  <2> QED  BY <1>1, <2>3
<1>8. g[n] = h[m + n]
  <2>1. 0 \in U
    BY <1>1, <1>3, <1>6, <1>7
  <2>2. ASSUME NEW i \in 1 .. n, i - 1 \in U  PROVE i \in U
    <3>1. /\ g[i - 1] = h[(m + i) - 1] /\ m + i \in 1 .. m + n /\ all[m + i] = rest[i]
      <4>1. m + (i - 1) = (m + i) - 1
        BY <1>1
      <4> QED  BY <1>1, <2>2, <4>1
    <3>2. g[i] = Replay(g[i - 1], rest[i]) /\ h[m + i] = Replay(h[(m + i) - 1], all[m + i])
      BY <1>6, <3>1
    <3> QED  BY <1>1, <3>1, <3>2
  <2>3. 0 .. n \subseteq U
    <3> HIDE DEF U
    <3> QED  BY <1>1, <2>1, <2>2, Induction
  <2> QED  BY <1>1, <2>3
<1> QED  BY <1>4, <1>5, <1>8 DEF all, mid

\* One record.
LEMMA PlayOne ==
    ASSUME NEW s \in Plays, NEW record \in Records
    PROVE  Play(s, <<record>>) = Replay(s, record)
<1> DEFINE one == <<record>>
<1>1. one \in Seq(Records) /\ Len(one) = 1 /\ one[1] = record
  OBVIOUS
<1> HIDE DEF one
<1>2. PICK f : Played(s, one, f) /\ Play(s, one) = f[1]
  BY <1>1, PlayPath
<1>3. f[0] = s /\ f[1] = Replay(f[1 - 1], one[1])
  BY <1>1, <1>2 DEF Played
<1> QED  BY <1>1, <1>2, <1>3 DEF one

\* From a state of the game, an input is added and a loaded state replaces it.
LEMMA PlayInput ==
    ASSUME NEW s \in States, NEW input \in Inputs
    PROVE  Play(s, <<input>>) = Append(s, input)
<1>1. s \in Plays /\ ~Contains(s, Garbage) /\ input \in Records
  BY StatesHoldNoGarbage, InputsAreRecords
<1>2. Replay(s, input) = Append(s, input)
  BY <1>1, RecordAssumption DEF Replay
<1> QED  BY <1>1, <1>2, PlayOne

LEMMA PlayState ==
    ASSUME NEW s \in States, NEW t \in States
    PROVE  Play(s, <<StateRecord(t)>>) = t
<1> DEFINE record == StateRecord(t)
<1>1. s \in Plays /\ ~Contains(s, Garbage) /\ record \in Records
  BY StatesHoldNoGarbage, RecordsTyped
<1>2. record \in [state : States] /\ record.state = t
  BY DEF StateRecord
<1>3. record \notin Inputs /\ record # Zero
  BY <1>2, RecordAssumption DEF States
<1>4. Replay(s, record) = t
  BY <1>1, <1>2, <1>3 DEF Replay
<1> QED  BY <1>1, <1>4, PlayOne

LEMMA FirstAndRest ==
    ASSUME NEW S, NEW a \in S, NEW rest \in Seq(S)
    PROVE  Head(<<a>> \o rest) = a /\ Tail(<<a>> \o rest) = rest
<1> DEFINE all == <<a>> \o rest
<1>1. /\ all \in Seq(S) /\ Len(all) = Len(rest) + 1 /\ all[1] = a
      /\ \A i \in 1 .. Len(rest) : all[i + 1] = rest[i]
  OBVIOUS
<1> HIDE DEF all
<1>2. Head(all) = a /\ Tail(all) \in Seq(S) /\ Len(Tail(all)) = Len(rest)
  BY <1>1
<1>3. \A i \in 1 .. Len(rest) : Tail(all)[i] = rest[i]
  BY <1>1
<1>4. Tail(all) = rest
  BY <1>2, <1>3
<1> QED  BY <1>2, <1>4 DEF all

\* The inputs of a frame: the first, and those polled half-way.
LEMMA PollsSplit ==
    ASSUME NEW polled \in Polls
    PROVE  /\ polled = <<Head(polled)>> \o Tail(polled)
           /\ Tail(polled) = << >> \/ \E j \in Joys : Tail(polled) = <<j>>
<1>1. PICK joy \in Joys : \E mid \in MidPolls(joy) : polled = <<joy>> \o mid
  BY DEF Polls
<1>2. PICK mid \in MidPolls(joy) : polled = <<joy>> \o mid
  BY <1>1
<1>3. mid = << >> \/ \E j \in Joys : mid = <<j>>
  BY DEF MidPolls
<1>4. mid \in Seq(Joys)
  <2>1. << >> \in Seq(Joys) /\ \A j \in Joys : <<j>> \in Seq(Joys)
    OBVIOUS
  <2> QED  BY <1>3, <2>1
<1>5. Head(polled) = joy /\ Tail(polled) = mid
  BY <1>2, <1>4, FirstAndRest
<1> QED  BY <1>2, <1>3, <1>5

LEMMA PlayTail ==
    ASSUME NEW s \in States, NEW polled \in Polls
    PROVE  Play(s, Tail(polled)) = s \o Tail(polled)
<1>1. CASE Tail(polled) = << >>
  <2>1. s \o << >> = s
    BY DEF States
  <2> QED  BY <1>1, <2>1, PlayNothing, StatesHoldNoGarbage
<1>2. ASSUME NEW j \in Joys, Tail(polled) = <<j>>
      PROVE  Play(s, Tail(polled)) = s \o Tail(polled)
  <2>1. s \o <<j>> = Append(s, j)
    BY InputsAreRecords DEF States
  <2> QED  BY <1>2, <2>1, PlayInput, InputsAreRecords
<1> QED  BY <1>1, <1>2, PollsSplit

LEMMA PlayPolled ==
    ASSUME NEW s \in States, NEW polled \in Polls
    PROVE  /\ Play(s, polled) = s \o polled
           /\ Append(s, Head(polled)) \o Tail(polled) = s \o polled
<1> DEFINE first == Head(polled)
           rest == Tail(polled)
<1>1. /\ first \in Inputs /\ first \in Records /\ <<first>> \in Seq(Records)
      /\ rest \in Seq(Records) /\ rest \in States
  BY PollsAreInputs
<1>2. polled = <<first>> \o rest
  BY PollsSplit
<1>3. Append(s, first) \in States /\ s \in Plays
  BY <1>1, StreamsOfInputs, StatesHoldNoGarbage
<1>4. Append(s, first) \o rest = s \o polled
  <2> HIDE DEF first, rest
  <2> QED  BY <1>1, <1>2 DEF States
<1>5. Play(s, polled) = Play(Play(s, <<first>>), rest)
  <2> HIDE DEF first, rest
  <2> QED  BY <1>1, <1>2, <1>3, PlayOn
<1>6. Play(s, polled) = Append(s, first) \o rest
  BY <1>1, <1>3, <1>5, PlayInput, PlayTail
<1> QED  BY <1>4, <1>6

-----------------------------------------------------------------------------
\* Sequences of records, flattened one after the other.
Flattening(n, seqs, f) ==
    /\ f \in [1 .. n -> Seq(Records)]
    /\ f[1] = seqs[1]
    /\ \A i \in 2 .. n : f[i] = f[i - 1] \o seqs[i]

LEMMA Flattened ==
    ASSUME NEW n \in Nat \ {0}, NEW seqs \in [1 .. n -> Seq(Records)]
    PROVE  \E f : Flattening(n, seqs, f) /\ FlattenSeq(seqs) = f[n]
<1> DEFINE S == Seq(Records)
           R == [i \in 1 .. n |-> [t \in S |-> t \o seqs[i]]]
           Step(g) == [i \in 1 .. n |-> IF i = 1 THEN seqs[i] ELSE g[i - 1] \o seqs[i]]
           f == CHOOSE g : g = Step(g)
<1>1. << >> \in S /\ (\A t, u \in S : t \o u \in S) /\ (\A t \in S : << >> \o t = t)
  OBVIOUS
<1>2. R \in [1 .. n -> [S -> S]]
  <2> HIDE DEF S
  <2> QED  BY <1>1 DEF S
<1>3. PICK h : Iterates(n, S, << >>, R, h)
  <2> HIDE DEF R, S
  <2> QED  BY <1>1, <1>2, Iteration
<1>4. h \in [0 .. n -> S] /\ h[0] = << >> /\ \A i \in 1 .. n : h[i] = R[i][h[i - 1]]
  <2> HIDE DEF R, S
  <2> QED  BY <1>3 DEF Iterates
<1>5. ASSUME NEW i \in 1 .. n
      PROVE  h[i] = h[i - 1] \o seqs[i]
  <2>1. h[i - 1] \in S
    <3> HIDE DEF R, S
    <3> QED  BY <1>4
  <2>2. R[i][h[i - 1]] = h[i - 1] \o seqs[i]
    <3> HIDE DEF S
    <3> QED  BY <2>1
  <2> QED  BY <1>4, <2>2
<1> DEFINE e == [i \in 1 .. n |-> h[i]]
<1>6. e = Step(e)
  <2>1. ASSUME NEW i \in 1 .. n
        PROVE  h[i] = IF i = 1 THEN seqs[i] ELSE e[i - 1] \o seqs[i]
    <3>1. CASE i = 1
      <4>1. h[i] = h[i - 1] \o seqs[i] /\ seqs[i] \in S
        <5> HIDE DEF S, R, e
        <5>1. seqs[i] \in S
          BY DEF S
        <5> QED  BY <1>5, <5>1
      <4>2. h[i - 1] = << >>
        BY <1>4, <3>1
      <4>3. h[i] = seqs[i]
        <5> HIDE DEF S, R
        <5> QED  BY <1>1, <4>1, <4>2
      <4> QED  BY <3>1, <4>3
    <3>2. CASE i # 1
      <4>1. e[i - 1] = h[i - 1]
        BY <3>2
      <4> QED  BY <1>5, <3>2, <4>1
    <3> QED  BY <3>1, <3>2
  <2> QED  BY <2>1
<1> HIDE DEF e
<1> HIDE DEF Step
<1>7. f = Step(f)
  BY <1>6
<1>8. FlattenSeq(seqs) = f[n]
  <2>1. Len(seqs) = n
    OBVIOUS
  <2> QED  BY <2>1 DEF FlattenSeq, Step
<1> HIDE DEF f
<1>9. f[1] = seqs[1] /\ \A i \in 2 .. n : f[i] = f[i - 1] \o seqs[i]
  <2>1. \A i \in 1 .. n : f[i] = IF i = 1 THEN seqs[i] ELSE f[i - 1] \o seqs[i]
    <3> HIDE DEF R, S
    <3>1. f = [i \in 1 .. n |-> IF i = 1 THEN seqs[i] ELSE f[i - 1] \o seqs[i]]
      BY <1>7 DEF Step
    <3> QED  BY <3>1
  <2>2. 1 \in 1 .. n /\ \A i \in 2 .. n : i \in 1 .. n /\ i # 1
    OBVIOUS
  <2> QED  BY <2>1, <2>2
<1>10. f = [i \in 1 .. n |-> f[i]]
  BY <1>7 DEF Step
<1> DEFINE T == {i \in 0 .. n : i = 0 \/ f[i] \in S}
<1>11. 0 .. n \subseteq T
  <2>1. 0 \in T
    OBVIOUS
  <2>2. ASSUME NEW i \in 1 .. n, i - 1 \in T  PROVE i \in T
    <3>1. seqs[i] \in S
      OBVIOUS
    <3>2. CASE i = 1
      BY <1>9, <3>1, <3>2
    <3>3. CASE i # 1
      <4>0. i \in 2 .. n
        BY <3>3
      <4>1. f[i - 1] \in S /\ f[i] = f[i - 1] \o seqs[i]
        <5>1. i - 1 # 0 /\ (i - 1 = 0 \/ f[i - 1] \in S)
          <6> HIDE DEF S
          <6> QED  BY <2>2, <4>0
        <5>2. f[i] = f[i - 1] \o seqs[i]
          <6> HIDE DEF S, T
          <6> QED  BY <1>9, <4>0
        <5> QED  BY <5>1, <5>2
      <4>2. f[i] \in S
        <5> HIDE DEF S
        <5> QED  BY <1>1, <3>1, <4>1
      <4> QED  BY <4>2
    <3> QED  BY <3>2, <3>3
  <2> HIDE DEF T
  <2> QED  BY <2>1, <2>2, Induction
<1>12. f \in [1 .. n -> S]
  <2> HIDE DEF S
  <2>1. \A i \in 1 .. n : i \in 0 .. n /\ i # 0
    OBVIOUS
  <2>2. \A i \in 1 .. n : f[i] \in S
    BY <1>11, <2>1
  <2> HIDE DEF T
  <2> QED  BY <1>10, <2>2
<1>13. Flattening(n, seqs, f)
  BY <1>9, <1>12 DEF Flattening
<1> QED  BY <1>8, <1>13

LEMMA FlattenTyped ==
    ASSUME NEW n \in Nat \ {0}, NEW seqs \in [1 .. n -> Seq(Records)]
    PROVE  FlattenSeq(seqs) \in Seq(Records)
<1>1. PICK f : Flattening(n, seqs, f) /\ FlattenSeq(seqs) = f[n]
  BY Flattened
<1> QED  BY <1>1 DEF Flattening

\* Records that lead from one state to the next lead, flattened, from the
\* first state to the last.
LEMMA PlayFlattened ==
    ASSUME NEW n \in Nat \ {0}, NEW seqs \in [1 .. n -> Seq(Records)],
           NEW after \in [0 .. n -> States],
           \A x \in 1 .. n : after[x] = Play(after[x - 1], seqs[x])
    PROVE  /\ FlattenSeq(seqs) \in Seq(Records)
           /\ Play(after[0], FlattenSeq(seqs)) = after[n]
<1>1. PICK f : Flattening(n, seqs, f) /\ FlattenSeq(seqs) = f[n]
  BY Flattened
<1>2. /\ f \in [1 .. n -> Seq(Records)] /\ f[1] = seqs[1]
      /\ \A i \in 2 .. n : f[i] = f[i - 1] \o seqs[i]
  BY <1>1 DEF Flattening
<1> DEFINE T == {i \in 0 .. n : i = 0 \/ Play(after[0], f[i]) = after[i]}
<1>3. 0 .. n \subseteq T
  <2>1. 0 \in T
    OBVIOUS
  <2>2. ASSUME NEW i \in 1 .. n, i - 1 \in T  PROVE i \in T
    <3>1. after[i] = Play(after[i - 1], seqs[i])
      OBVIOUS
    <3>2. CASE i = 1
      BY <1>2, <3>1, <3>2
    <3>3. CASE i # 1
      <4>1. Play(after[0], f[i - 1]) = after[i - 1]
        BY <2>2, <3>3
      <4>0. i \in 2 .. n /\ i - 1 \in 1 .. n
        BY <3>3
      <4>2. f[i - 1] \in Seq(Records) /\ seqs[i] \in Seq(Records) /\ f[i] = f[i - 1] \o seqs[i]
        BY <1>2, <4>0
      <4>3. after[0] \in Plays
        BY StatesHoldNoGarbage
      <4>4. Play(after[0], f[i]) = Play(after[i - 1], seqs[i])
        BY <4>1, <4>2, <4>3, PlayOn
      <4> QED  BY <3>1, <4>4
    <3> QED  BY <3>2, <3>3
  <2> HIDE DEF T
  <2> QED  BY <2>1, <2>2, Induction
<1>4. Play(after[0], f[n]) = after[n] /\ f[n] \in Seq(Records)
  BY <1>2, <1>3
<1> QED  BY <1>1, <1>4

-----------------------------------------------------------------------------
\* What the slots hold of the movie.
Love == [p \in Slots |-> bcs[p].MovieLove]

\* The states between the records of the slots, from the oldest slot to slot
\* pos; D and L are what the slots hold of the game and of the movie.
Chain(D, L, pos, from, after) ==
    /\ after \in [0 .. SRW_NUM -> States]
    /\ after[0] = from
    /\ \A x \in 1 .. SRW_NUM :
          /\ after[x] = Play(after[x - 1], L[SlotBack(pos, SRW_NUM - x)])
          /\ L[SlotBack(pos, SRW_NUM - x)] # << >> => after[x] = D[SlotBack(pos, SRW_NUM - x)]

LEMMA SlotsOfRing ==
    ASSUME NEW pos \in Slots, NEW x \in 1 .. SRW_NUM
    PROVE  SRW_NUM - x \in 0 .. SRW_NUM - 1 /\ SlotBack(pos, SRW_NUM - x) \in Slots
<1>1. SRW_NUM - x \in 0 .. SRW_NUM - 1
  OBVIOUS
<1> QED  BY <1>1, BackThroughTheRing

LEMMA RemainderOnce ==
    ASSUME NEW n \in Nat \ {0}, NEW q \in {0, 1}, NEW r \in 0 .. n - 1
    PROVE  (q * n + r) % n = r
  OBVIOUS

\* MDFN_StateEvilFlushMovieLove walks the slots in the order they were used.
LEMMA OldestFirst ==
    ASSUME bcspos \in Slots, NEW x \in 1 .. SRW_NUM
    PROVE  RingOrder[x] = SlotBack(bcspos, SRW_NUM - x)
<1>1. CASE bcspos + x < SRW_NUM
  <2>1. bcspos + x \in 0 .. SRW_NUM - 1 /\ bcspos + x = 0 * SRW_NUM + (bcspos + x)
    BY <1>1
  <2>2. (bcspos + x) % SRW_NUM = bcspos + x
    BY <2>1, RemainderOnce
  <2> QED  BY <1>1, <2>2 DEF RingOrder, SlotBack
<1>2. CASE bcspos + x >= SRW_NUM
  <2> DEFINE r == (bcspos + x) - SRW_NUM
  <2>1. r \in 0 .. SRW_NUM - 1 /\ bcspos + x = 1 * SRW_NUM + r
    BY <1>2
  <2>2. (bcspos + x) % SRW_NUM = r
    <3> HIDE DEF r
    <3> QED  BY <2>1, RemainderOnce
  <2> QED  BY <1>2, <2>2 DEF RingOrder, SlotBack
<1> QED  BY <1>1, <1>2

\* What waits in the ring leads along the chain.
LEMMA ChainPending ==
    ASSUME bcspos \in Slots, Love \in [Slots -> Seq(Records)],
           NEW D, NEW from \in States, NEW after,
           Chain(D, Love, bcspos, from, after)
    PROVE  Pending \in Seq(Records) /\ Play(from, Pending) = after[SRW_NUM]
<1> DEFINE seqs == [x \in 1 .. SRW_NUM |-> Love[SlotBack(bcspos, SRW_NUM - x)]]
<1>1. seqs \in [1 .. SRW_NUM -> Seq(Records)]
  BY SlotsOfRing
<1>2. \A x \in 1 .. SRW_NUM : bcs[RingOrder[x]].MovieLove = seqs[x]
  BY OldestFirst, SlotsOfRing DEF Love
<1>3. Pending = FlattenSeq(seqs)
  <2> HIDE DEF seqs
  <2>1. [x \in 1 .. SRW_NUM |-> bcs[RingOrder[x]].MovieLove] = seqs
    BY <1>1, <1>2
  <2> QED  BY <2>1 DEF Pending
<1>4. \A x \in 1 .. SRW_NUM : after[x] = Play(after[x - 1], seqs[x])
  BY DEF Chain
<1> HIDE DEF seqs
<1>5. after \in [0 .. SRW_NUM -> States] /\ after[0] = from /\ SRW_NUM \in Nat \ {0}
  BY DEF Chain
<1> QED  BY <1>1, <1>3, <1>4, <1>5, PlayFlattened

\* A ring that holds no records leads nowhere.
LEMMA ChainOfNothing ==
    ASSUME NEW pos \in Slots, NEW D, NEW L \in [Slots -> {<< >>}], NEW from \in States
    PROVE  /\ \E after : Chain(D, L, pos, from, after) /\ after[SRW_NUM] = from
           /\ \A after : Chain(D, L, pos, from, after) => after[SRW_NUM] = from
<1>1. \A x \in 1 .. SRW_NUM : L[SlotBack(pos, SRW_NUM - x)] = << >>
  BY SlotsOfRing
<1>2. \A s \in States : Play(s, << >>) = s
  BY PlayNothing, StatesHoldNoGarbage
<1>3. \E after : Chain(D, L, pos, from, after) /\ after[SRW_NUM] = from
  <2> DEFINE after == [x \in 0 .. SRW_NUM |-> from]
  <2>1. after[SRW_NUM] = from
    OBVIOUS
  <2>2. Chain(D, L, pos, from, after)
    BY <1>1, <1>2 DEF Chain
  <2> HIDE DEF after
  <2> QED  BY <2>1, <2>2
<1>4. ASSUME NEW after, Chain(D, L, pos, from, after)
      PROVE  after[SRW_NUM] = from
  <2> DEFINE T == {x \in 0 .. SRW_NUM : after[x] = from}
  <2>1. 0 \in T
    BY <1>4 DEF Chain
  <2>2. ASSUME NEW x \in 1 .. SRW_NUM, x - 1 \in T  PROVE x \in T
    <3>1. after[x] = Play(after[x - 1], L[SlotBack(pos, SRW_NUM - x)])
      BY <1>4 DEF Chain
    <3> QED  BY <1>1, <1>2, <2>2, <3>1
  <2>3. 0 .. SRW_NUM \subseteq T
    <3> HIDE DEF T
    <3> QED  BY <2>1, <2>2, Induction
  <2> QED  BY <2>3
<1> QED  BY <1>3, <1>4

\* A frame: what the overwritten slot held goes before the chain, and the new
\* slot comes at its end.
LEMMA ChainMovesOn ==
    ASSUME NEW pos \in Slots, NEW from \in States, NEW after,
           NEW D, NEW L, Chain(D, L, pos, from, after),
           NEW E, NEW M, NEW moment \in States,
           \A p \in Slots \ {NextSlot(pos)} : E[p] = D[p] /\ M[p] = L[p],
           E[NextSlot(pos)] = moment,
           Play(after[SRW_NUM], M[NextSlot(pos)]) = moment
    PROVE  \E g : /\ Chain(E, M, NextSlot(pos), Play(from, L[NextSlot(pos)]), g)
                  /\ g[SRW_NUM] = moment
<1> DEFINE next == NextSlot(pos)
           g == [x \in 0 .. SRW_NUM |-> IF x = SRW_NUM THEN moment ELSE after[x + 1]]
<1>1. next \in Slots /\ SlotBack(next, 0) = next /\ SlotBack(pos, SRW_NUM - 1) = next
  BY SlotsInARing, BackThroughTheRing
<1>2. after \in [0 .. SRW_NUM -> States] /\ after[0] = from
  BY DEF Chain
<1>3. g \in [0 .. SRW_NUM -> States]
  BY <1>2
<1>4. g[0] = Play(from, L[next])
  <2>1. g[0] = after[1]
    OBVIOUS
  <2>2. after[1] = Play(after[1 - 1], L[SlotBack(pos, SRW_NUM - 1)])
    BY DEF Chain
  <2>3. after[1] = Play(after[0], L[next])
    BY <1>1, <2>2
  <2> QED  BY <1>2, <2>1, <2>3
<1>5. ASSUME NEW x \in 1 .. SRW_NUM
      PROVE  /\ g[x] = Play(g[x - 1], M[SlotBack(next, SRW_NUM - x)])
             /\ M[SlotBack(next, SRW_NUM - x)] # << >> => g[x] = E[SlotBack(next, SRW_NUM - x)]
  <2>1. CASE x = SRW_NUM
    <3>1. g[x] = moment /\ g[x - 1] = after[SRW_NUM] /\ SRW_NUM - x = 0
      BY <2>1
    <3> QED  BY <1>1, <3>1
  <2>2. CASE x # SRW_NUM
    <3> DEFINE k == SRW_NUM - x
               slot == SlotBack(pos, k - 1)
    <3>1. k \in 1 .. SRW_NUM - 1 /\ k # 0 /\ x + 1 \in 1 .. SRW_NUM /\ SRW_NUM - (x + 1) = k - 1
      BY <2>2
    <3>2. g[x] = after[x + 1] /\ g[x - 1] = after[x]
      BY <2>2
    <3>3. after[x + 1] = Play(after[(x + 1) - 1], L[SlotBack(pos, SRW_NUM - (x + 1))])
          /\ (L[SlotBack(pos, SRW_NUM - (x + 1))] # << >> =>
                after[x + 1] = D[SlotBack(pos, SRW_NUM - (x + 1))])
      BY <3>1 DEF Chain
    <3>4. (x + 1) - 1 = x
      OBVIOUS
    <3>5. after[x + 1] = Play(after[x], L[slot]) /\ (L[slot] # << >> => after[x + 1] = D[slot])
      BY <3>1, <3>3, <3>4
    <3>6. slot \in Slots /\ slot # next /\ SlotBack(next, k) = slot
      <4> HIDE DEF k
      <4>1. k - 1 \in 0 .. SRW_NUM - 1 /\ SRW_NUM - 1 \in 0 .. SRW_NUM - 1 /\ k - 1 # SRW_NUM - 1
        BY <3>1
      <4>2. slot \in Slots /\ SlotBack(next, k) = slot
        BY <3>1, <4>1, BackThroughTheRing
      <4>3. slot # next
        BY <1>1, <4>1, DifferentSlots
      <4> QED  BY <4>2, <4>3
    <3>7. M[slot] = L[slot] /\ E[slot] = D[slot]
      BY <3>6
    <3> HIDE DEF slot, g
    <3> QED  BY <3>2, <3>5, <3>6, <3>7
  <2> QED  BY <2>1, <2>2
<1>6. g[SRW_NUM] = moment
  OBVIOUS
<1> HIDE DEF g
<1>7. Chain(E, M, next, Play(from, L[next]), g)
  BY <1>3, <1>4, <1>5 DEF Chain
<1> QED  BY <1>6, <1>7

\* A rewind: the latest slot is emptied and becomes the oldest, so the chain
\* starts by standing still.
LEMMA ChainGoesBack ==
    ASSUME NEW pos \in Slots, NEW from \in States, NEW after,
           NEW D, NEW L, Chain(D, L, pos, from, after),
           NEW E, NEW M,
           \A p \in Slots \ {pos} : E[p] = D[p] /\ M[p] = L[p],
           M[pos] = << >>,
           L[PrevSlot(pos)] # << >>
    PROVE  \E g : /\ Chain(E, M, PrevSlot(pos), from, g)
                  /\ g[SRW_NUM] = D[PrevSlot(pos)]
<1> DEFINE prev == PrevSlot(pos)
           g == [x \in 0 .. SRW_NUM |-> IF x = 0 THEN from ELSE after[x - 1]]
<1>1. /\ prev \in Slots /\ NextSlot(prev) = pos
      /\ SlotBack(pos, 0) = pos /\ SlotBack(pos, 1) = prev
  BY SlotsInARing, BackThroughTheRing
<1>2. SlotBack(prev, SRW_NUM - 1) = pos
  BY <1>1, BackThroughTheRing
<1>3. after \in [0 .. SRW_NUM -> States] /\ after[0] = from
  BY DEF Chain
<1>4. g \in [0 .. SRW_NUM -> States] /\ g[0] = from
  BY <1>3
<1>5. ASSUME NEW x \in 1 .. SRW_NUM
      PROVE  /\ g[x] = Play(g[x - 1], M[SlotBack(prev, SRW_NUM - x)])
             /\ M[SlotBack(prev, SRW_NUM - x)] # << >> => g[x] = E[SlotBack(prev, SRW_NUM - x)]
  <2>1. CASE x = 1
    <3>1. g[x] = from /\ g[x - 1] = from
      BY <1>3, <2>1
    <3>2. M[SlotBack(prev, SRW_NUM - x)] = << >>
      BY <1>2, <2>1
    <3>3. Play(from, << >>) = from
      BY PlayNothing, StatesHoldNoGarbage
    <3> QED  BY <3>1, <3>2, <3>3
  <2>2. CASE x # 1
    <3> DEFINE y == x - 1
               k == SRW_NUM - y
               slot == SlotBack(pos, k)
    <3>1. /\ y \in 1 .. SRW_NUM /\ k \in 1 .. SRW_NUM - 1 /\ SRW_NUM - x = k - 1
          /\ k \in 0 .. SRW_NUM - 1 /\ 0 \in 0 .. SRW_NUM - 1 /\ k # 0
      BY <2>2
    <3>2. g[x] = after[y] /\ g[y] = after[y - 1]
      BY <2>2
    <3>3. after[y] = Play(after[y - 1], L[slot]) /\ (L[slot] # << >> => after[y] = D[slot])
      BY <3>1 DEF Chain
    <3>4. slot \in Slots /\ slot # pos /\ SlotBack(prev, SRW_NUM - x) = slot
      <4> HIDE DEF k
      <4>1. slot \in Slots /\ SlotBack(prev, k - 1) = slot
        BY <3>1, BackThroughTheRing
      <4>2. slot # pos
        BY <1>1, <3>1, DifferentSlots
      <4> QED  BY <3>1, <4>1, <4>2
    <3>5. M[slot] = L[slot] /\ E[slot] = D[slot]
      BY <3>4
    <3> HIDE DEF slot, g
    <3> QED  BY <3>2, <3>3, <3>4, <3>5
  <2> QED  BY <2>1, <2>2
<1>6. g[SRW_NUM] = D[prev]
  <2> DEFINE y == SRW_NUM - 1
  <2>1. g[SRW_NUM] = after[y] /\ y \in 1 .. SRW_NUM /\ SRW_NUM - y = 1
    OBVIOUS
  <2> HIDE DEF y
  <2>2. L[SlotBack(pos, SRW_NUM - y)] # << >> => after[y] = D[SlotBack(pos, SRW_NUM - y)]
    BY <2>1 DEF Chain
  <2> QED  BY <1>1, <2>1, <2>2
<1> HIDE DEF g
<1>7. Chain(E, M, prev, from, g)
  BY <1>4, <1>5 DEF Chain
<1> QED  BY <1>6, <1>7

-----------------------------------------------------------------------------
(***************************************************************************)
(* The invariant.                                                          *)
(***************************************************************************)

\* Nothing of a movie waits in the ring.
Unloved == \A p \in Slots : bcs[p].MovieLove = << >>

\* Where nothing can wait.
LoveInv ==
    /\ file \in Seq(Records)
    /\ fileOpen => current
    /\ ~fileOpen => file = << >>
    /\ ~EvilEnabled \/ ~current => Unloved
    /\ \A p \in Slots : bcs[p].data = << >> => bcs[p].MovieLove = << >>

Recorded == current /\ fileOpen /\ intact

\* A chain leads from the state at the end of the file to the game.
Replays ==
    \E after : /\ Chain(Data, Love, bcspos, Play(start, file), after)
               /\ Play(after[SRW_NUM], RewindBuffer) = game

ChainInv ==
    Recorded => /\ ~EvilEnabled => RewindBuffer = << >>
                /\ Replays

MovieInv == RingInv /\ LoveInv /\ ChainInv

-----------------------------------------------------------------------------
LEMMA LoveTyped ==
    ASSUME RingInv
    PROVE  /\ Love \in [Slots -> Seq(Records)] /\ bcspos \in Slots
           /\ game \in States /\ start \in States /\ saved \in States
           /\ RewindBuffer \in Seq(Records)
  BY DEF RingInv, TypeOK, Love

LEMMA FileLeadsToState ==
    ASSUME MovieInv, Recorded
    PROVE  Play(start, file) \in States
  BY DEF MovieInv, ChainInv, Replays, Chain

LEMMA WrittenTyped ==
    ASSUME LoveInv, NEW records \in Seq(Records)
    PROVE  /\ Written(records) \in Seq(Records)
           /\ ~fileOpen => Written(records) = << >>
           /\ fileOpen => Written(records) = file \o records
  BY StreamsOfInputs DEF LoveInv, Written

\* Written at the end of the file, records are played from where it leads.
LEMMA PlayWritten ==
    ASSUME MovieInv, fileOpen, NEW records \in Seq(Records)
    PROVE  Play(start, Written(records)) = Play(Play(start, file), records)
<1>1. start \in Plays /\ file \in Seq(Records) /\ Written(records) = file \o records
  BY LoveTyped, StatesHoldNoGarbage, WrittenTyped DEF MovieInv, LoveInv
<1> QED  BY <1>1, PlayOn

\* A ring that holds no records: the file alone leads to the game.
LEMMA UnlovedChain ==
    ASSUME RingInv, Unloved
    PROVE  /\ Love \in [Slots -> {<< >>}]
           /\ \A from \in States : \E after :
                 Chain(Data, Love, bcspos, from, after) /\ after[SRW_NUM] = from
           /\ \A from \in States : \A after :
                 Chain(Data, Love, bcspos, from, after) => after[SRW_NUM] = from
<1>1. Love \in [Slots -> {<< >>}] /\ bcspos \in Slots
  BY LoveTyped DEF Unloved, Love
<1> QED  BY <1>1, ChainOfNothing

LEMMA UnlovedReplays ==
    ASSUME RingInv, Unloved, Play(start, file) = game, RewindBuffer = << >>
    PROVE  Replays
<1>1. game \in States
  BY LoveTyped
<1>2. PICK after : Chain(Data, Love, bcspos, game, after) /\ after[SRW_NUM] = game
  BY <1>1, UnlovedChain
<1>3. Play(game, << >>) = game
  BY <1>1, PlayNothing, StatesHoldNoGarbage
<1> QED  BY <1>2, <1>3 DEF Replays

LEMMA UnlovedReplaysNext ==
    (RingInv /\ Unloved /\ Play(start, file) = game /\ RewindBuffer = << >> => Replays)'
<1>1. RingInv /\ Unloved /\ Play(start, file) = game /\ RewindBuffer = << >> => Replays
  BY UnlovedReplays
<1> QED  BY <1>1, PTL

LEMMA UnlovedChainNext ==
    (RingInv /\ Unloved => \A from \in States : \E after :
        Chain(Data, Love, bcspos, from, after) /\ after[SRW_NUM] = from)'
<1>1. RingInv /\ Unloved => \A from \in States : \E after :
         Chain(Data, Love, bcspos, from, after) /\ after[SRW_NUM] = from
  BY UnlovedChain
<1> QED  BY <1>1, PTL

\* Without rewinding, the movie is in the file.
LEMMA FileIsMovie ==
    ASSUME MovieInv, Recorded, ~EvilEnabled
    PROVE  Play(start, file) = game /\ RewindBuffer = << >> /\ Unloved
<1>1. RewindBuffer = << >> /\ Unloved
  BY DEF MovieInv, ChainInv, LoveInv
<1>2. PICK after : /\ Chain(Data, Love, bcspos, Play(start, file), after)
                   /\ Play(after[SRW_NUM], RewindBuffer) = game
  BY DEF MovieInv, ChainInv, Replays
<1>3. Play(start, file) \in States
  BY FileLeadsToState
<1>4. after[SRW_NUM] = Play(start, file)
  BY <1>1, <1>2, <1>3, UnlovedChain DEF MovieInv
<1>5. Play(Play(start, file), << >>) = Play(start, file)
  BY <1>3, PlayNothing, StatesHoldNoGarbage
<1> QED  BY <1>1, <1>2, <1>4, <1>5

LEMMA InitMovieInv == Init => MovieInv
<1> SUFFICES ASSUME Init
             PROVE  MovieInv
  OBVIOUS
<1>1. RingInv
  BY InitInv
<1>2. bcs = EmptyRing /\ ~fileOpen /\ file = << >> /\ ~Recorded
  BY DEF Init, Recorded
<1>3. \A p \in Slots : bcs[p].MovieLove = << >>
  BY <1>2 DEF EmptyRing, EmptySlot
<1> QED  BY <1>1, <1>2, <1>3, StreamsOfInputs DEF MovieInv, LoveInv, ChainInv, Unloved

-----------------------------------------------------------------------------
\* Steps that leave the ring and the start of the movie as they are, and add
\* records to what comes after the ring.
LEMMA BufferContinues ==
    ASSUME MovieInv, RingInv', UNCHANGED <<bcs, bcspos, EvilEnabled, current, fileOpen, start, file>>,
           intact' => intact,
           Recorded' => EvilEnabled /\
              \E records \in Seq(Records) :
                 RewindBuffer' = RewindBuffer \o records /\ game' = Play(game, records)
    PROVE  MovieInv'
<1>1. Data' = Data /\ Love' = Love /\ LoveInv'
  BY DEF Data, Love, MovieInv, LoveInv, Unloved
<1>2. ASSUME Recorded'
      PROVE  Replays' /\ EvilEnabled'
  <2>1. Recorded /\ EvilEnabled
    BY <1>2 DEF Recorded
  <2>2. PICK records \in Seq(Records) :
           RewindBuffer' = RewindBuffer \o records /\ game' = Play(game, records)
    BY <1>2
  <2>3. PICK after : /\ Chain(Data, Love, bcspos, Play(start, file), after)
                     /\ Play(after[SRW_NUM], RewindBuffer) = game
    BY <2>1 DEF MovieInv, ChainInv, Replays
  <2>4. after[SRW_NUM] \in Plays /\ RewindBuffer \in Seq(Records)
    BY <2>3, LoveTyped, StatesHoldNoGarbage DEF Chain, MovieInv
  <2>5. Play(after[SRW_NUM], RewindBuffer') = game'
    BY <2>2, <2>3, <2>4, PlayOn
  <2>6. Chain(Data', Love', bcspos', Play(start', file'), after)
    BY <1>1, <2>3
  <2> QED  BY <2>1, <2>5, <2>6 DEF Replays
<1> QED  BY <1>1, <1>2 DEF MovieInv, ChainInv

\* Without rewinding, records are added to the file.
LEMMA FileContinues ==
    ASSUME MovieInv, RingInv', ~EvilEnabled,
           UNCHANGED <<bcs, bcspos, EvilEnabled, current, fileOpen, start, RewindBuffer>>,
           intact' => intact,
           NEW records \in Seq(Records),
           file' = IF current THEN Written(records) ELSE file,
           Recorded' => game' = Play(game, records)
    PROVE  MovieInv'
<1>1. LoveInv'
  BY WrittenTyped, StreamsOfInputs DEF MovieInv, LoveInv, Unloved
<1>2. ASSUME Recorded'
      PROVE  Replays' /\ RewindBuffer' = << >>
  <2>1. Recorded /\ current /\ fileOpen
    BY <1>2 DEF Recorded
  <2>2. Play(start, file) = game /\ RewindBuffer = << >> /\ Unloved
    BY <2>1, FileIsMovie
  <2>3. Play(start', file') = game'
    BY <1>2, <2>1, <2>2, PlayWritten
  <2>4. Unloved' /\ RewindBuffer' = << >>
    BY <2>2 DEF Unloved
  <2> QED  BY <2>3, <2>4, UnlovedReplaysNext
<1> QED  BY <1>1, <1>2 DEF MovieInv, ChainInv

\* A frame without rewinding, and one that finds nothing to rewind to.
LEMMA FrameWithoutRewindMovie ==
    ASSUME MovieInv, RingInv', NEW polled \in Polls, FrameWithoutRewind(polled)
    PROVE  MovieInv'
<1>1. polled \in Seq(Records) /\ Play(game, polled) = game \o polled
  BY PollsAreInputs, LoveTyped, PlayPolled DEF MovieInv
<1> QED  BY <1>1, FileContinues DEF FrameWithoutRewind, ringVars

LEMMA FrameNothingToRewindMovie ==
    ASSUME MovieInv, RingInv', NEW polled \in Polls, FrameNothingToRewind(polled)
    PROVE  MovieInv'
<1>1. polled \in Seq(Records) /\ Play(game, polled) = game \o polled
  BY PollsAreInputs, LoveTyped, PlayPolled DEF MovieInv
<1>2. Recorded' => EvilEnabled /\
              \E records \in Seq(Records) :
                 RewindBuffer' = RewindBuffer \o records /\ game' = Play(game, records)
  BY <1>1 DEF FrameNothingToRewind, movieVars, Recorded
<1> QED  BY <1>2, BufferContinues DEF FrameNothingToRewind, ringVars, movieVars

LEMMA SimpleCommandMovie ==
    ASSUME MovieInv, RingInv', NEW cmd \in Commands, SimpleCommand(cmd)
    PROVE  MovieInv'
<1> DEFINE records == <<cmd>>
<1>1. cmd \in Inputs /\ game \in States /\ records \in Seq(Records)
  BY LoveTyped, InputsAreRecords DEF Inputs, MovieInv
<1>2. Play(game, records) = Append(game, cmd)
  BY <1>1, PlayInput
<1>3. /\ UNCHANGED <<bcs, bcspos, EvilEnabled, current, fileOpen, start>>
      /\ game' = Append(game, cmd)
  BY DEF SimpleCommand, ringVars
<1>4. intact' => intact
  BY DEF SimpleCommand
<1>5. CASE ~EvilEnabled
  <2>1. file' = (IF current THEN Written(records) ELSE file) /\ RewindBuffer' = RewindBuffer
    BY <1>5 DEF SimpleCommand
  <2> HIDE DEF records
  <2> QED  BY <1>1, <1>2, <1>3, <1>4, <1>5, <2>1, FileContinues
<1>6. CASE EvilEnabled
  <2>1. file' = file /\ ~Recorded'
    BY <1>6 DEF SimpleCommand, Recorded
  <2> QED  BY <1>3, <1>4, <2>1, BufferContinues
<1> QED  BY <1>5, <1>6

LEMMA LoadStateMovie ==
    ASSUME MovieInv, RingInv', LoadState
    PROVE  MovieInv'
<1> DEFINE record == StateRecord(saved)
<1>1. /\ record \in Records /\ <<record>> \in Seq(Records)
      /\ Play(game, <<record>>) = saved
  BY LoveTyped, RecordsTyped, PlayState DEF MovieInv
<1>2. /\ UNCHANGED <<bcs, bcspos, EvilEnabled, current, fileOpen, start, intact>>
      /\ game' = saved
  BY DEF LoadState, ringVars
<1>3. CASE ~EvilEnabled
  <2>1. file' = (IF current THEN Written(<<record>>) ELSE file) /\ RewindBuffer' = RewindBuffer
    BY <1>3 DEF LoadState
  <2> HIDE DEF record
  <2> QED  BY <1>1, <1>2, <1>3, <2>1, FileContinues
<1>4. CASE EvilEnabled
  <2>1. file' = file /\ (current => RewindBuffer' = Append(RewindBuffer, record))
    BY <1>4 DEF LoadState
  <2> HIDE DEF record
  <2>2. RewindBuffer \in Seq(Records)
    BY LoveTyped DEF MovieInv
  <2>3. Append(RewindBuffer, record) = RewindBuffer \o <<record>>
    BY <1>1, <2>2
  <2>4. Recorded' => EvilEnabled /\
              \E records \in Seq(Records) :
                 RewindBuffer' = RewindBuffer \o records /\ game' = Play(game, records)
    BY <1>1, <1>2, <1>4, <2>1, <2>3 DEF Recorded
  <2> QED  BY <1>2, <2>1, <2>4, BufferContinues
<1> QED  BY <1>3, <1>4

LEMMA FrameForwardMovie ==
    ASSUME MovieInv, RingInv', NEW polled \in Polls, FrameForward(polled)
    PROVE  MovieInv'
<1> DEFINE moment == Append(game, Head(polled))
           pos == NextSlot(bcspos)
           buffer == Append(RewindBuffer, Head(polled))
           Slot == [data : States, key : States, MovieLove : Seq(Records)]
<1>1. /\ RingInv /\ LoveInv /\ game \in States /\ RewindBuffer \in Seq(Records)
      /\ bcspos \in Slots /\ bcs \in [Slots -> Slot] /\ Raw(bcs[bcspos])
      /\ Love \in [Slots -> Seq(Records)]
  BY LoveTyped DEF MovieInv, RingInv, TypeOK, RingUnpacks
<1>2. pos \in Slots /\ pos # bcspos
  BY <1>1, SlotsInARing
<1>3. /\ moment \in States /\ moment # << >> /\ Head(polled) \in Inputs
      /\ Tail(polled) \in Seq(Records) /\ game' = moment \o Tail(polled)
  BY <1>1, PollsAreInputs, StreamsOfInputs, PlayPolled DEF FrameForward
<1>4. /\ bcspos' = pos
      /\ bcs'[pos].data = moment
      /\ bcs'[pos].MovieLove = IF current THEN buffer ELSE << >>
      /\ \A p \in Slots \ {pos} :
            bcs'[p].data = bcs[p].data /\ bcs'[p].MovieLove = bcs[p].MovieLove
  <2>1. bcs[bcspos] \in Slot
    BY <1>1
  <2>2. /\ Pack(bcs[bcspos], moment).data = bcs[bcspos].data
        /\ Pack(bcs[bcspos], moment).MovieLove = bcs[bcspos].MovieLove
    BY <1>1, <2>1 DEF Pack, Bytes
  <2>3. bcspos' = pos /\ bcs' = [bcs EXCEPT ![bcspos] = Pack(bcs[bcspos], moment),
               ![pos] = [data |-> moment, key |-> << >>,
                         MovieLove |-> IF current THEN buffer ELSE << >>]]
    BY DEF FrameForward
  <2> HIDE DEF pos, moment, buffer, Slot
  <2>4. bcs'[pos] = [data |-> moment, key |-> << >>,
                     MovieLove |-> IF current THEN buffer ELSE << >>]
    BY <1>1, <1>2, <2>3
  <2>5. bcs'[bcspos] = Pack(bcs[bcspos], moment)
        /\ \A p \in Slots \ {bcspos, pos} : bcs'[p] = bcs[p]
    BY <1>1, <1>2, <2>3
  <2>6. bcs'[pos].data = moment /\ bcs'[pos].MovieLove = IF current THEN buffer ELSE << >>
    BY <2>4
  <2>7. ASSUME NEW p \in Slots \ {pos}
        PROVE  bcs'[p].data = bcs[p].data /\ bcs'[p].MovieLove = bcs[p].MovieLove
    BY <2>2, <2>5
  <2> QED  BY <2>3, <2>6, <2>7
<1>5. /\ EvilEnabled /\ EvilEnabled' = EvilEnabled /\ current' = current
      /\ fileOpen' = fileOpen /\ start' = start /\ intact' = intact
      /\ file' = Written(Forced(bcs[pos]))
      /\ current => RewindBuffer' = Tail(polled)
  BY DEF FrameForward
<1>6. current => Forced(bcs[pos]) = Love[pos]
  BY <1>1, <1>2 DEF Forced, LoveInv, Love
<1>7. Forced(bcs[pos]) \in Seq(Records)
  BY <1>1, <1>2, StreamsOfInputs DEF Forced
<1>8. LoveInv'
  <2>1. file' \in Seq(Records) /\ (~fileOpen' => file' = << >>) /\ (fileOpen' => current')
    BY <1>1, <1>5, <1>7, WrittenTyped DEF LoveInv
  <2>2. ~current' => Unloved'
    BY <1>1, <1>4, <1>5 DEF LoveInv, Unloved
  <2>3. \A p \in Slots : bcs'[p].data = << >> => bcs'[p].MovieLove = << >>
    BY <1>1, <1>3, <1>4 DEF LoveInv
  <2> QED  BY <1>5, <2>1, <2>2, <2>3 DEF LoveInv
<1>9. ASSUME Recorded'
      PROVE  Replays'
  <2>1. Recorded /\ current /\ fileOpen
    BY <1>5, <1>9 DEF Recorded
  <2>2. PICK after : /\ Chain(Data, Love, bcspos, Play(start, file), after)
                     /\ Play(after[SRW_NUM], RewindBuffer) = game
    BY <2>1 DEF MovieInv, ChainInv, Replays
  <2>3. Play(start, file) \in States /\ after[SRW_NUM] \in Plays
    BY <2>1, <2>2, FileLeadsToState, StatesHoldNoGarbage DEF Chain
  <2>4. Play(after[SRW_NUM], buffer) = moment
    <3> DEFINE one == <<Head(polled)>>
    <3>1. Head(polled) \in Records /\ one \in Seq(Records)
      BY <1>3, InputsAreRecords
    <3>2. buffer = RewindBuffer \o one
      BY <1>1, <3>1
    <3>3. Play(game, one) = moment
      BY <1>1, <1>3, PlayInput
    <3> HIDE DEF one, buffer, moment
    <3>4. Play(after[SRW_NUM], buffer) = Play(game, one)
      BY <1>1, <2>2, <2>3, <3>1, <3>2, PlayOn
    <3> QED  BY <3>3, <3>4
  <2>5. /\ Love'[pos] = buffer /\ Data'[pos] = moment
        /\ \A p \in Slots \ {pos} : Data'[p] = Data[p] /\ Love'[p] = Love[p]
    BY <1>2, <1>4, <2>1 DEF Love, Data
  <2>6. PICK g : /\ Chain(Data', Love', pos, Play(Play(start, file), Love[pos]), g)
                 /\ g[SRW_NUM] = moment
    <3> DEFINE D == Data
               E == Data'
               L == Love
               M == Love'
               from == Play(start, file)
               c == bcspos
    <3>1. /\ c \in Slots /\ moment \in States /\ from \in States
          /\ Chain(D, L, c, from, after)
          /\ \A p \in Slots \ {NextSlot(c)} : E[p] = D[p] /\ M[p] = L[p]
          /\ E[NextSlot(c)] = moment
          /\ Play(after[SRW_NUM], M[NextSlot(c)]) = moment
      BY <1>1, <1>3, <2>2, <2>3, <2>4, <2>5
    <3> HIDE DEF D, E, L, M, from, c, moment
    <3>2. \E g : /\ Chain(E, M, NextSlot(c), Play(from, L[NextSlot(c)]), g)
                 /\ g[SRW_NUM] = moment
      BY <3>1, ChainMovesOn
    <3> QED  BY <3>2 DEF D, E, L, M, from, c
  <2>7. Play(start', file') = Play(Play(start, file), Love[pos])
    BY <1>5, <1>6, <1>7, <2>1, PlayWritten
  <2>8. Play(g[SRW_NUM], RewindBuffer') = game'
    BY <1>3, <1>5, <2>1, <2>6, PlayTail
  <2>9. Chain(Data', Love', bcspos', Play(start', file'), g)
    BY <1>4, <2>6, <2>7
  <2> QED  BY <2>8, <2>9 DEF Replays
<1> QED  BY <1>5, <1>8, <1>9 DEF MovieInv, ChainInv

LEMMA FrameRewindMovie ==
    ASSUME MovieInv, RingInv', NEW polled \in Polls, FrameRewind(polled)
    PROVE  MovieInv'
<1> DEFINE back == bcs[PrevSlot(bcspos)].data # << >>
           pos == IF back THEN PrevSlot(bcspos) ELSE bcspos
           moment == Unpack(bcs[pos], bcs[bcspos])
           Slot == [data : States, key : States, MovieLove : Seq(Records)]
<1>1. /\ RingInv /\ LoveInv /\ bcs \in [Slots -> Slot]
      /\ bcspos \in Slots /\ Raw(bcs[bcspos])
  BY DEF MovieInv, RingInv, TypeOK, RingUnpacks
<1>2. pos \in Slots /\ PrevSlot(bcspos) \in Slots /\ PrevSlot(bcspos) # bcspos
  BY <1>1, SlotsInARing
<1>3. moment = bcs[pos].data /\ moment \in States
  BY <1>1, <1>2, UnpacksTheMoment DEF Unpack
<1>4. /\ bcspos' = pos
      /\ bcs' = [p \in Slots |->
           IF p = bcspos /\ back THEN EmptySlot
           ELSE IF p = pos THEN [bcs[p] EXCEPT !.data = moment, !.key = << >>]
           ELSE bcs[p]]
      /\ game' = moment \o Tail(polled)
      /\ current => RewindBuffer' = Tail(polled)
      /\ intact' = (intact /\ (current => bcs[pos].MovieLove # << >>))
      /\ EvilEnabled
      /\ UNCHANGED <<EvilEnabled, current, fileOpen, start, file>>
  BY DEF FrameRewind, movieVars
<1>5. \A p \in Slots :
         /\ bcs'[p].data = IF p = bcspos /\ back THEN << >> ELSE bcs[p].data
         /\ bcs'[p].MovieLove = IF p = bcspos /\ back THEN << >> ELSE bcs[p].MovieLove
  <2> HIDE DEF moment, Slot, back, pos
  <2> TAKE p \in Slots
  <2>1. bcs[p] \in [data : States, key : States, MovieLove : Seq(Records)]
    BY <1>1 DEF Slot
  <2>2. CASE p = bcspos /\ back
    BY <1>4, <2>2 DEF EmptySlot
  <2>3. CASE ~(p = bcspos /\ back) /\ p = pos
    <3>1. bcs'[p] = [bcs[p] EXCEPT !.data = moment, !.key = << >>]
      BY <1>4, <2>3
    <3> QED  BY <1>3, <2>1, <2>3, <3>1
  <2>4. CASE ~(p = bcspos /\ back) /\ p # pos
    BY <1>4, <2>4
  <2> QED  BY <2>2, <2>3, <2>4
<1>6. LoveInv'
  BY <1>1, <1>4, <1>5 DEF LoveInv, Unloved
<1>7. /\ \A p \in Slots : Data'[p] = IF p = bcspos /\ back THEN << >> ELSE Data[p]
      /\ \A p \in Slots : Love'[p] = IF p = bcspos /\ back THEN << >> ELSE Love[p]
  BY <1>5 DEF Data, Love
<1>8. Play(moment, Tail(polled)) = game'
  BY <1>3, <1>4, PlayTail
<1>9. ASSUME Recorded'
      PROVE  Replays'
  <2>1. /\ Recorded /\ current /\ RewindBuffer' = Tail(polled)
        /\ bcs[pos].MovieLove # << >>
    BY <1>4, <1>9 DEF Recorded
  <2>2. PICK after : /\ Chain(Data, Love, bcspos, Play(start, file), after)
                     /\ Play(after[SRW_NUM], RewindBuffer) = game
    BY <2>1 DEF MovieInv, ChainInv, Replays
  <2>3. Play(start, file) \in States
    BY <2>1, FileLeadsToState
  <2>4. Love[pos] # << >> /\ Data[pos] = moment
    BY <1>2, <1>3, <2>1 DEF Love, Data
  <2>5. \E g : /\ Chain(Data', Love', pos, Play(start, file), g)
               /\ g[SRW_NUM] = moment
    <3>1. CASE back
      <4> DEFINE D == Data
                 E == Data'
                 L == Love
                 M == Love'
                 from == Play(start, file)
                 c == bcspos
      <4>1. /\ c \in Slots /\ from \in States
            /\ Chain(D, L, c, from, after)
            /\ \A p \in Slots \ {c} : E[p] = D[p] /\ M[p] = L[p]
            /\ M[c] = << >> /\ L[PrevSlot(c)] # << >>
            /\ pos = PrevSlot(c) /\ D[PrevSlot(c)] = moment
        BY <1>1, <1>7, <2>2, <2>3, <2>4, <3>1
      <4> HIDE DEF D, E, L, M, from, c, moment, pos
      <4>2. \E g : Chain(E, M, PrevSlot(c), from, g) /\ g[SRW_NUM] = D[PrevSlot(c)]
        BY <4>1, ChainGoesBack
      <4> QED  BY <4>1, <4>2 DEF D, E, L, M, from, c
    <3>2. CASE ~back
      <4>1. Data' = Data /\ Love' = Love /\ pos = bcspos
        BY <1>7, <3>2 DEF Data, Love
      <4>2. after[SRW_NUM] = moment
        <5>1. SRW_NUM \in 1 .. SRW_NUM /\ SRW_NUM - SRW_NUM = 0
          OBVIOUS
        <5>2. SlotBack(bcspos, 0) = bcspos
          BY <1>1, BackThroughTheRing
        <5>3. Love[SlotBack(bcspos, SRW_NUM - SRW_NUM)] # << >> =>
                 after[SRW_NUM] = Data[SlotBack(bcspos, SRW_NUM - SRW_NUM)]
          BY <2>2, <5>1 DEF Chain
        <5> QED  BY <2>4, <4>1, <5>1, <5>2, <5>3
      <4> QED  BY <2>2, <4>1, <4>2
    <3> QED  BY <3>1, <3>2
  <2>6. PICK g : /\ Chain(Data', Love', pos, Play(start, file), g)
                 /\ g[SRW_NUM] = moment
    BY <2>5
  <2>7. Play(g[SRW_NUM], RewindBuffer') = game'
    BY <1>8, <2>1, <2>6
  <2>8. Chain(Data', Love', bcspos', Play(start', file'), g)
    BY <1>4, <2>6
  <2> QED  BY <2>7, <2>8 DEF Replays
<1> QED  BY <1>4, <1>6, <1>9 DEF MovieInv, ChainInv

\* Switching rewinding writes what waits in the ring to the file.
LEMMA EnableMovie ==
    ASSUME MovieInv, RingInv', NEW enable \in BOOLEAN, EnableStateRewind(enable)
    PROVE  MovieInv'
<1>1. /\ RingInv /\ LoveInv /\ Love \in [Slots -> Seq(Records)] /\ bcspos \in Slots
      /\ game \in States
  BY LoveTyped DEF MovieInv
<1>2. bcs' = EmptyRing /\ UNCHANGED <<game, current, fileOpen, start, RewindBuffer>>
  BY DEF EnableStateRewind
<1>3. Unloved'
  BY <1>2 DEF Unloved, EmptyRing, EmptySlot
<1>4. Flushed \in Seq(Records)
  <2> DEFINE seqs == [x \in 1 .. SRW_NUM |->
               IF bcs[x - 1].data # << >> THEN bcs[RingOrder[x]].MovieLove ELSE << >>]
  <2>1. seqs \in [1 .. SRW_NUM -> Seq(Records)]
    <3>1. \A x \in 1 .. SRW_NUM : bcs[RingOrder[x]].MovieLove \in Seq(Records)
      BY <1>1, OldestFirst, SlotsOfRing DEF RingInv, TypeOK
    <3> QED  BY <3>1, StreamsOfInputs
  <2> HIDE DEF seqs
  <2>2. FlattenSeq(seqs) \in Seq(Records)
    BY <2>1, FlattenTyped
  <2> QED  BY <2>2 DEF Flushed, seqs
<1>5. LoveInv'
  <2>1. file' \in Seq(Records) /\ (~fileOpen' => file' = << >>)
    BY <1>1, <1>2, <1>4, WrittenTyped DEF EnableStateRewind, LoveInv
  <2> QED  BY <1>1, <1>2, <1>3, <2>1 DEF LoveInv, Unloved
<1>6. ASSUME Recorded'
      PROVE  (~EvilEnabled' => RewindBuffer' = << >>) /\ Replays'
  <2>0. intact' => intact
    BY DEF EnableStateRewind
  <2>1. Recorded /\ current /\ fileOpen
    BY <1>2, <1>6, <2>0 DEF Recorded
  <2>2. CASE ~EvilEnabled
    <3>1. file' = file
      BY <2>2 DEF EnableStateRewind
    <3>2. Play(start', file') = game' /\ RewindBuffer' = << >>
      BY <1>2, <2>1, <2>2, <3>1, FileIsMovie
    <3> QED  BY <1>3, <3>2, UnlovedReplaysNext
  <2>3. CASE EvilEnabled
    <3>1. file' = Written(Flushed) /\ Flushed = Pending /\ (enable \/ RewindBuffer = << >>)
          /\ EvilEnabled' = enable
      BY <1>6, <2>1, <2>3 DEF EnableStateRewind, Recorded
    <3>2. PICK after : /\ Chain(Data, Love, bcspos, Play(start, file), after)
                       /\ Play(after[SRW_NUM], RewindBuffer) = game
      BY <2>1 DEF MovieInv, ChainInv, Replays
    <3>3. Play(start, file) \in States /\ after[SRW_NUM] \in States
      BY <2>1, <3>2, FileLeadsToState DEF Chain
    <3>4. Play(Play(start, file), Pending) = after[SRW_NUM]
      BY <1>1, <3>2, <3>3, ChainPending
    <3>5. Play(start', file') = after[SRW_NUM]
      BY <1>2, <1>4, <2>1, <3>1, <3>4, PlayWritten
    <3>6. PICK g : Chain(Data', Love', bcspos', after[SRW_NUM], g) /\ g[SRW_NUM] = after[SRW_NUM]
      BY <1>3, <3>3, UnlovedChainNext
    <3>7. Replays'
      BY <1>2, <3>2, <3>5, <3>6 DEF Replays
    <3> QED  BY <1>2, <3>1, <3>7
  <2> QED  BY <2>2, <2>3
<1> QED  BY <1>5, <1>6 DEF MovieInv, ChainInv

\* The other calls start or end a movie.
LEMMA StartMovie ==
    ASSUME MovieInv, RingInv', NEW CurrentMovie \in MovieSlots,
           StartRecording(CurrentMovie) \/ StartRecordingFails(CurrentMovie)
    PROVE  MovieInv'
<1>1. /\ LoveInv /\ ~current /\ ~fileOpen /\ file = << >> /\ Unloved /\ game \in States
      /\ bcs' = bcs /\ file' = file /\ RewindBuffer' = << >> /\ game' = game
  BY LoveTyped DEF MovieInv, LoveInv, StartRecording, StartRecordingFails, ringVars
<1>2. Unloved' /\ LoveInv'
  BY <1>1, StreamsOfInputs DEF LoveInv, Unloved, StartRecording, StartRecordingFails
<1>3. ASSUME Recorded'
      PROVE  Replays'
  <2>1. start' = game
    BY <1>1, <1>3 DEF Recorded, StartRecording, StartRecordingFails
  <2>2. Play(start', file') = game'
    BY <1>1, <2>1, PlayNothing, StatesHoldNoGarbage
  <2> QED  BY <1>1, <1>2, <2>2, UnlovedReplaysNext
<1> QED  BY <1>1, <1>2, <1>3 DEF MovieInv, ChainInv

LEMMA StopMovie ==
    ASSUME MovieInv, RingInv', StopRecording
    PROVE  MovieInv'
<1>1. LoveInv /\ bcs \in [Slots -> [data : States, key : States, MovieLove : Seq(Records)]]
  BY DEF MovieInv, RingInv, TypeOK
<1>2. ~fileOpen' /\ file' = << >> /\ EvilEnabled' = EvilEnabled /\ current' = FALSE
  BY DEF StopRecording
<1>3. \A p \in Slots : bcs'[p].MovieLove = << >>
  BY <1>1 DEF StopRecording, LoveInv, Unloved
<1> QED  BY <1>2, <1>3, StreamsOfInputs DEF MovieInv, LoveInv, ChainInv, Recorded, Unloved

LEMMA StepMovieInv == MovieInv /\ RingInv' /\ [Next]_vars => MovieInv'
<1> SUFFICES ASSUME MovieInv, RingInv', [Next]_vars
             PROVE  MovieInv'
  OBVIOUS
<1>1. CASE UNCHANGED <<game, ringVars, movieVars, RewindBuffer, intact>>
  BY <1>1 DEF MovieInv, LoveInv, Unloved, ChainInv, Replays, Recorded, Data, Love,
              ringVars, movieVars
<1>2. CASE SaveState \/ UNCHANGED vars
  BY <1>1, <1>2 DEF SaveState, vars
<1>3. ASSUME NEW polled \in Polls, Frame(polled)
      PROVE  MovieInv'
  BY <1>3, FrameWithoutRewindMovie, FrameForwardMovie, FrameRewindMovie,
     FrameNothingToRewindMovie DEF Frame
<1>4. ASSUME NEW cmd \in Commands, SimpleCommand(cmd)
      PROVE  MovieInv'
  BY <1>4, SimpleCommandMovie
<1>5. CASE LoadState
  BY <1>5, LoadStateMovie
<1>6. ASSUME NEW enable \in BOOLEAN, EnableStateRewind(enable)
      PROVE  MovieInv'
  BY <1>6, EnableMovie
<1>7. ASSUME NEW CurrentMovie \in MovieSlots,
             StartRecording(CurrentMovie) \/ StartRecordingFails(CurrentMovie)
      PROVE  MovieInv'
  BY <1>7, StartMovie
<1>8. CASE StopRecording
  BY <1>8, StopMovie
<1> QED  BY <1>2, <1>3, <1>4, <1>5, <1>6, <1>7, <1>8 DEF Next

LEMMA MovieInvReplays == MovieInv => MovieReplays
<1> SUFFICES ASSUME MovieInv, current, fileOpen, intact
             PROVE  Play(start, file \o Pending \o RewindBuffer) = game
  BY DEF MovieReplays
<1>1. PICK after : /\ Chain(Data, Love, bcspos, Play(start, file), after)
                   /\ Play(after[SRW_NUM], RewindBuffer) = game
  BY DEF MovieInv, ChainInv, Replays, Recorded
<1>2. /\ Play(start, file) \in States /\ start \in Plays /\ file \in Seq(Records)
      /\ RewindBuffer \in Seq(Records) /\ bcspos \in Slots
      /\ Love \in [Slots -> Seq(Records)]
  BY FileLeadsToState, LoveTyped, StatesHoldNoGarbage DEF MovieInv, LoveInv, Recorded
<1>3. Pending \in Seq(Records) /\ Play(Play(start, file), Pending) = after[SRW_NUM]
  BY <1>1, <1>2, ChainPending
<1> DEFINE written == file \o Pending
<1>4. written \in Seq(Records)
  BY <1>2, <1>3, StreamsOfInputs
<1>5. Play(start, written) = after[SRW_NUM]
  BY <1>2, <1>3, PlayOn
<1>6. Play(start, written \o RewindBuffer) = game
  <2> HIDE DEF written
  <2>1. Play(start, written \o RewindBuffer) = Play(Play(start, written), RewindBuffer)
    BY <1>2, <1>4, PlayOn
  <2> QED  BY <1>1, <1>5, <2>1
<1> QED  BY <1>6

\* movie.cpp, state.cpp:1174 and 1251: while a movie is recorded and no step
\* has lost a record, the file, the ring and RewindBuffer together lead from
\* the start of the movie to the state of the game, for every size of the
\* ring, every controller and every command.
THEOREM MoviesReplay == Spec => []MovieReplays
<1>1. Init => MovieInv
  BY InitMovieInv
<1>2. MovieInv /\ RingInv' /\ [Next]_vars => MovieInv'
  BY StepMovieInv
<1>3. Spec => []RingInv
  BY RingInvariant
<1>4. MovieInv => MovieReplays
  BY MovieInvReplays
<1> QED  BY <1>1, <1>2, <1>3, <1>4, PTL DEF Spec

\* A movie that is stopped with a full ring: all of the ring is written.
LEMMA FinishedLeadsToGame ==
    ASSUME MovieInv, current, fileOpen, intact,
           EvilEnabled, RewindBuffer = << >>, \A p \in Slots : bcs[p].data # << >>
    PROVE  Play(start, FinishedFile) = game
<1>1. game \in States /\ Play(start, file) \in States /\ fileOpen /\ bcspos \in Slots
      /\ Love \in [Slots -> Seq(Records)]
  BY FileLeadsToState, LoveTyped DEF MovieInv, Recorded
<1>2. Flushed = Pending
  <2>1. \A x \in 1 .. SRW_NUM : x - 1 \in Slots
    OBVIOUS
  <2>2. [x \in 1 .. SRW_NUM |->
           IF bcs[x - 1].data # << >> THEN bcs[RingOrder[x]].MovieLove ELSE << >>]
        = [x \in 1 .. SRW_NUM |-> bcs[RingOrder[x]].MovieLove]
    BY <2>1
  <2> QED  BY <2>2 DEF Flushed, Pending
<1>3. PICK after : /\ Chain(Data, Love, bcspos, Play(start, file), after)
                   /\ Play(after[SRW_NUM], RewindBuffer) = game
  BY DEF MovieInv, ChainInv, Replays, Recorded
<1>4. Pending \in Seq(Records) /\ Play(Play(start, file), Pending) = after[SRW_NUM]
  BY <1>1, <1>3, ChainPending
<1>5. Play(after[SRW_NUM], << >>) = after[SRW_NUM]
  BY <1>3, PlayNothing, StatesHoldNoGarbage DEF Chain
<1>6. FinishedFile = Written(Pending)
  BY <1>2 DEF FinishedFile
<1>7. Play(start, Written(Pending)) = Play(Play(start, file), Pending)
  BY <1>1, <1>4, PlayWritten
<1> QED  BY <1>3, <1>4, <1>5, <1>6, <1>7

\* state.cpp:1084: a movie stopped with a full ring and nothing in RewindBuffer
\* leads to the state the game is in, for every size of the ring.
THEOREM FullRingFinishes == Spec => FullRingMovieReplays
<1>1. Init => MovieInv
  BY InitMovieInv
<1>2. MovieInv /\ RingInv' /\ [Next]_vars => MovieInv'
  BY StepMovieInv
<1>3. Spec => []RingInv
  BY RingInvariant
<1>4. MovieInv => [current /\ fileOpen /\ intact /\ ~current'
       /\ EvilEnabled /\ RewindBuffer = << >> /\ (\A p \in Slots : bcs[p].data # << >>)
         => Play(start, FinishedFile) = game]_vars
  BY FinishedLeadsToGame
<1> QED  BY <1>1, <1>2, <1>3, <1>4, PTL DEF Spec, FullRingMovieReplays
=============================================================================
