-------------------------- MODULE AudioRingProofs --------------------------
(***************************************************************************)
(* For every ring, callback, frame and speed: no sample is dropped for     *)
(* want of room, callbacks end before what they use is freed, and the ring *)
(* without a lock is a pipe.  The counters wrap, so what is proved first   *)
(* is the arithmetic of positions that wrap with the ring; from there on   *)
(* only distances count.                                                   *)
(***************************************************************************)
EXTENDS AudioRing, TLAPS

Numbers == 0 .. Modulus - 1

\* The place in the ring n samples after a count.
Slot(count, n) == Add(count, n) % Length

-----------------------------------------------------------------------------
\* Counts and slots.

LEMMA Sizes ==
    /\ Length \in Nat \ {0} /\ Modulus \in Nat \ {0} /\ Length < Modulus
    /\ MaxCount \in Nat /\ MaxCount <= Length /\ Chunk \in Nat \ {0}
    /\ Speeds \subseteq Nat \ {0} /\ 1 \in Speeds
  BY RingAssumption

LEMMA ModRange ==
    ASSUME NEW m \in Nat \ {0}, NEW a \in Int
    PROVE  a % m \in 0 .. m - 1
  OBVIOUS

LEMMA ModUnique ==
    ASSUME NEW m \in Nat \ {0}, NEW a \in Int, NEW q \in Int, NEW r \in 0 .. m - 1,
           a = q * m + r
    PROVE  a % m = r
  OBVIOUS

LEMMA ModDecompose ==
    ASSUME NEW m \in Nat \ {0}, NEW a \in Int
    PROVE  /\ a \div m \in Int
           /\ a = (a \div m) * m + (a % m)
  OBVIOUS

\* A count wraps at most once.
LEMMA AddValue ==
    ASSUME NEW c \in Numbers, NEW n \in 0 .. Modulus
    PROVE  /\ Add(c, n) \in Numbers
           /\ Add(c, n) = IF c + n < Modulus THEN c + n ELSE c + n - Modulus
<1>1. CASE c + n < Modulus
  <2>1. (c + n) % Modulus = c + n
    BY <1>1, ModUnique, Sizes, c + n = 0 * Modulus + (c + n) DEF Numbers
  <2> QED  BY <1>1, <2>1, Sizes DEF Add, Numbers
<1>2. CASE c + n >= Modulus
  <2>1. (c + n) % Modulus = c + n - Modulus
    BY <1>2, ModUnique, Sizes, c + n = 1 * Modulus + (c + n - Modulus) DEF Numbers
  <2> QED  BY <1>2, <2>1, Sizes DEF Add, Numbers
<1> QED  BY <1>1, <1>2, Sizes DEF Numbers

LEMMA Distance ==
    ASSUME NEW w \in Numbers, NEW r \in Numbers
    PROVE  /\ (w - r) % Modulus \in Numbers
           /\ (w - r) % Modulus = IF w >= r THEN w - r ELSE w - r + Modulus
<1>1. CASE w >= r
  <2>1. (w - r) % Modulus = w - r
    BY <1>1, ModUnique, Sizes, w - r = 0 * Modulus + (w - r) DEF Numbers
  <2> QED  BY <1>1, <2>1, Sizes DEF Numbers
<1>2. CASE w < r
  <2>1. (w - r) % Modulus = w - r + Modulus
    BY <1>2, ModUnique, Sizes, w - r = (-1) * Modulus + (w - r + Modulus) DEF Numbers
  <2> QED  BY <1>2, <2>1, Sizes DEF Numbers
<1> QED  BY <1>1, <1>2, Sizes DEF Numbers

\* Writing and reading n samples changes the distance by n.
LEMMA Forward ==
    ASSUME NEW w \in Numbers, NEW r \in Numbers, NEW n \in Nat,
           ((w - r) % Modulus) + n < Modulus
    PROVE  (Add(w, n) - r) % Modulus = ((w - r) % Modulus) + n
<1> DEFINE d == (w - r) % Modulus
           a == Add(w, n)
<1>1. d \in Numbers /\ d = IF w >= r THEN w - r ELSE w - r + Modulus
  BY Distance
<1>2. n \in 0 .. Modulus
  BY <1>1, Sizes DEF Numbers
<1>3. a \in Numbers /\ a = IF w + n < Modulus THEN w + n ELSE w + n - Modulus
  BY <1>2, AddValue
<1>4. (a - r) % Modulus = IF a >= r THEN a - r ELSE a - r + Modulus
  BY <1>3, Distance
<1>5. d + n < Modulus
  OBVIOUS
<1> HIDE DEF a, d
<1>6. (a - r) % Modulus = d + n
  BY <1>1, <1>3, <1>4, <1>5, Sizes DEF Numbers
<1> QED  BY <1>6 DEF a, d

LEMMA Backward ==
    ASSUME NEW w \in Numbers, NEW r \in Numbers, NEW n \in Nat,
           n <= (w - r) % Modulus
    PROVE  (w - Add(r, n)) % Modulus = ((w - r) % Modulus) - n
<1> DEFINE d == (w - r) % Modulus
           a == Add(r, n)
<1>1. d \in Numbers /\ d = IF w >= r THEN w - r ELSE w - r + Modulus
  BY Distance
<1>2. n \in 0 .. Modulus
  BY <1>1, Sizes DEF Numbers
<1>3. a \in Numbers /\ a = IF r + n < Modulus THEN r + n ELSE r + n - Modulus
  BY <1>2, AddValue
<1>4. (w - a) % Modulus = IF w >= a THEN w - a ELSE w - a + Modulus
  BY <1>3, Distance
<1>5. n <= d
  OBVIOUS
<1> HIDE DEF a, d
<1>6. (w - a) % Modulus = d - n
  BY <1>1, <1>3, <1>4, <1>5, Sizes DEF Numbers
<1> QED  BY <1>6 DEF a, d

LEMMA AddAdd ==
    ASSUME NEW c \in Numbers, NEW m \in Nat, NEW n \in Nat, m + n <= Modulus
    PROVE  Add(Add(c, m), n) = Add(c, m + n)
<1>1. m \in 0 .. Modulus /\ n \in 0 .. Modulus /\ m + n \in 0 .. Modulus
  BY Sizes
<1> DEFINE a == Add(c, m)
           b == Add(c, m + n)
<1>2. a \in Numbers /\ a = IF c + m < Modulus THEN c + m ELSE c + m - Modulus
  BY <1>1, AddValue
<1>3. b = IF c + (m + n) < Modulus THEN c + (m + n) ELSE c + (m + n) - Modulus
  BY <1>1, AddValue
<1>4. Add(a, n) = IF a + n < Modulus THEN a + n ELSE a + n - Modulus
  BY <1>1, <1>2, AddValue
<1> HIDE DEF a, b
<1>5. Add(a, n) = b
  BY <1>1, <1>2, <1>3, <1>4, Sizes DEF Numbers
<1> QED  BY <1>5 DEF a, b

\* The writer is the distance after the reader.
LEMMA WriterAfterReader ==
    ASSUME NEW w \in Numbers, NEW r \in Numbers
    PROVE  Add(r, (w - r) % Modulus) = w
<1> DEFINE d == (w - r) % Modulus
<1>1. d \in Numbers /\ d = IF w >= r THEN w - r ELSE w - r + Modulus
  BY Distance
<1>2. d \in 0 .. Modulus
  BY <1>1, Sizes DEF Numbers
<1>3. Add(r, d) = IF r + d < Modulus THEN r + d ELSE r + d - Modulus
  BY <1>2, AddValue
<1> HIDE DEF d
<1>4. Add(r, d) = w
  BY <1>1, <1>2, <1>3, Sizes DEF Numbers
<1> QED  BY <1>4 DEF d

LEMMA SlotRange ==
    ASSUME NEW c \in Numbers, NEW n \in 0 .. Modulus
    PROVE  Slot(c, n) \in 0 .. Length - 1
<1>1. Add(c, n) \in Int
  BY AddValue, Sizes DEF Numbers
<1> QED  BY <1>1, ModRange, Sizes DEF Slot

\* Since the counters wrap with the ring, a slot is a position modulo Length.
LEMMA SlotValue ==
    ASSUME NEW c \in Numbers, NEW n \in 0 .. Modulus
    PROVE  Slot(c, n) = (c + n) % Length
<1> DEFINE k == Modulus \div Length
           q == (c + n) \div Length
           r == (c + n) % Length
<1>1. k \in Int /\ Modulus = k * Length
  BY ModDecompose, Sizes, RingAssumption
<1>2. q \in Int /\ c + n = q * Length + r /\ r \in 0 .. Length - 1
  BY ModDecompose, ModRange, Sizes DEF Numbers
<1> HIDE DEF k, q, r
<1>3. CASE c + n < Modulus
  BY <1>3, AddValue DEF Slot, r
<1>4. CASE c + n >= Modulus
  <2>1. Add(c, n) = (q - k) * Length + r
    <3>1. (q - k) * Length = q * Length - k * Length
      BY <1>1, <1>2, Sizes
    <3>2. Add(c, n) = c + n - Modulus
      BY <1>4, AddValue, Sizes DEF Numbers
    <3> DEFINE ql == q * Length
               kl == k * Length
               ql2 == (q - k) * Length
    <3>3. ql \in Int /\ kl \in Int /\ Modulus = kl /\ c + n = ql + r /\ ql2 = ql - kl
      BY <1>1, <1>2, <3>1, Sizes
    <3> HIDE DEF ql, kl, ql2
    <3>4. Add(c, n) = ql2 + r
      BY <3>2, <3>3, <1>2, Sizes DEF Numbers
    <3> QED  BY <3>4 DEF ql2
  <2>2. Add(c, n) \in Int /\ q - k \in Int
    BY AddValue, <1>1, <1>2, Sizes DEF Numbers
  <2>3. Add(c, n) % Length = r
    BY <2>1, <2>2, <1>2, ModUnique, Sizes
  <2> QED  BY <2>3 DEF Slot, r
<1> QED  BY <1>3, <1>4, Sizes DEF Numbers

\* Samples less than the length of the ring apart do not share a slot.
LEMMA SlotsDiffer ==
    ASSUME NEW c \in Numbers, NEW i \in 0 .. Length - 1, NEW j \in 0 .. Length - 1,
           Slot(c, i) = Slot(c, j)
    PROVE  i = j
<1> DEFINE p == (c + i) \div Length
           q == (c + j) \div Length
           r == (c + i) % Length
<1>1. i \in 0 .. Modulus /\ j \in 0 .. Modulus /\ c \in Nat
  BY Sizes DEF Numbers
<1>2. (c + j) % Length = r
  BY <1>1, SlotValue
<1>3. p \in Int /\ q \in Int /\ r \in 0 .. Length - 1
      /\ c + i = p * Length + r /\ c + j = q * Length + r
  <2>1. c + i \in Int /\ c + j \in Int
    BY <1>1
  <2>2. p \in Int /\ c + i = p * Length + r /\ r \in 0 .. Length - 1
    BY <2>1, ModDecompose, ModRange, Sizes
  <2>3. q \in Int /\ c + j = q * Length + r
    <3> DEFINE t == c + j
    <3>1. t \in Int /\ t % Length = r  BY <2>1, <1>2
    <3>2. Length \in Nat \ {0}  BY Sizes
    <3> HIDE DEF t
    <3>3. t \div Length \in Int /\ t = (t \div Length) * Length + (t % Length)
      BY <3>2, ModDecompose, <3>1
    <3> QED  BY <3>1, <3>3 DEF t
  <2> QED  BY <2>2, <2>3
<1> HIDE DEF p, q, r
<1>4. i - j = (p - q) * Length
  <2>1. (p - q) * Length = p * Length - q * Length
    BY <1>3, Sizes
  <2> QED  BY <2>1, <1>1, <1>3, Sizes
<1>5. i - j < Length /\ j - i < Length
  BY Sizes
<1>6. CASE p - q >= 1
  <2>1. (p - q) * Length >= Length
    BY <1>6, <1>3, Sizes
  <2> QED  BY <2>1, <1>4, <1>5, <1>1, Sizes
<1>7. CASE p - q <= -1
  <2>1. (p - q) * Length <= -Length
    BY <1>7, <1>3, Sizes
  <2> QED  BY <2>1, <1>4, <1>5, <1>1, Sizes
<1>8. CASE p = q
  BY <1>8, <1>4, <1>1, <1>3, Sizes
<1> QED  BY <1>6, <1>7, <1>8, <1>3

-----------------------------------------------------------------------------
\* The invariant.

EmuPlaces == {"idle", "check", "wait", "clip", "copy", "count", "drain", "close", "join", "ended"}
AudioPlaces == {"idle", "copy", "signal", "post", "dead"}

Types ==
    /\ RingBuffer \in [0 .. Length - 1 -> Numbers]
    /\ ReadCount \in Numbers /\ WriteCount \in Numbers /\ made \in Numbers
    /\ InputSpeed \in Speeds /\ Value \in 0 .. 1
    /\ emu \in [at : EmuPlaces, count : 0 .. MaxCount, len : 0 .. MaxCount, done : Nat]
    /\ emu.len <= emu.count
    /\ audio \in [at : AudioPlaces, len : 0 .. Chunk, out : Seq(Numbers)]
    /\ audio.at = "post" => Value = 0

\* How the stream and the thread end, in that order.
Ending ==
    /\ StreamDead \in BOOLEAN /\ ThreadDie \in BOOLEAN
    /\ Status \in {"open", "closing", "closed"}
    /\ emu.at \in {"close", "join", "ended"} => StreamDead
    /\ StreamDead => audio.at \in {"idle", "dead"}

\* What either thread has seen of the counts still holds: room found stays
\* room, and samples found stay there.
Fits ==
    /\ GetBufferAmount <= Length
    /\ emu.at \in {"check", "wait", "clip"} => emu.done = 0
    /\ emu.at = "clip" => GetBufferAmount + emu.count <= Length
    /\ emu.at = "count" => emu.done < emu.len /\ InputSpeed # 1
    /\ emu.at \in {"copy", "count"} =>
         /\ emu.len = emu.count
         /\ IF InputSpeed = 1
            THEN emu.done <= emu.len /\ GetBufferAmount + emu.len <= Length
            ELSE emu.done < emu.len => GetBufferAmount + (emu.len - emu.done) <= Length
    /\ audio.at = "copy" => audio.len <= GetBufferAmount /\ Len(audio.out) <= audio.len

\* What the writer has put behind WriteCount.
Written ==
    /\ emu.at = "copy" /\ InputSpeed = 1 =>
         \A i \in 0 .. emu.done - 1 : RingBuffer[Slot(WriteCount, i)] = Add(made, i)
    /\ emu.at = "count" => RingBuffer[Slot(WriteCount, 0)] = Add(made, 0)

\* What the reader has taken is still there.
Copied ==
    audio.at = "copy" =>
        \A i \in 1 .. Len(audio.out) : audio.out[i] = RingBuffer[Slot(ReadCount, i - 1)]

IInv == Types /\ Ending /\ Fits /\ Written /\ Copied

LEMMA AddIn ==
    ASSUME NEW c \in Int, NEW n \in Int
    PROVE  Add(c, n) \in Numbers
<1>1. c + n \in Int
  OBVIOUS
<1> DEFINE s == c + n
<1> HIDE DEF s
<1>2. s % Modulus \in Numbers
  BY <1>1, ModRange, Sizes DEF s, Numbers
<1> QED  BY <1>2 DEF Add, s

LEMMA AmountType == IInv => GetBufferAmount \in Numbers
  BY Distance DEF IInv, Types, GetBufferAmount

LEMMA Quantities ==
    IInv => /\ GetBufferAmount \in Nat /\ GetBufferAmount <= Modulus
            /\ emu.count \in Nat /\ emu.len \in Nat /\ emu.done \in Nat
            /\ audio.len \in Nat /\ Len(audio.out) \in Nat
<1> SUFFICES ASSUME IInv
             PROVE  /\ GetBufferAmount \in Nat /\ GetBufferAmount <= Modulus
                    /\ emu.count \in Nat /\ emu.len \in Nat /\ emu.done \in Nat
                    /\ audio.len \in Nat /\ Len(audio.out) \in Nat
  OBVIOUS
<1>1. GetBufferAmount \in Nat /\ GetBufferAmount <= Modulus
  BY AmountType, Sizes DEF Numbers
<1>2. /\ emu \in [at : EmuPlaces, count : 0 .. MaxCount, len : 0 .. MaxCount, done : Nat]
      /\ audio \in [at : AudioPlaces, len : 0 .. Chunk, out : Seq(Numbers)]
  BY DEF IInv, Types
<1>3. emu.count \in Nat /\ emu.len \in Nat /\ emu.done \in Nat
  BY <1>2, Sizes
<1>4. audio.len \in Nat /\ Len(audio.out) \in Nat
  BY <1>2, Sizes
<1> QED  BY <1>1, <1>3, <1>4

\* The types.
LEMMA TypesStep == IInv /\ Next => Types'
<1> SUFFICES ASSUME IInv, Next  PROVE Types'
  OBVIOUS
<1>1. ASSUME NEW speed \in Speeds, SetSpeed(speed)  PROVE Types'
  BY <1>1 DEF SetSpeed, IInv, Types, EmuPlaces, AudioPlaces
<1>2. ASSUME NEW count \in 0 .. MaxCount, AddSamples(count)  PROVE Types'
  <2>1. Types  BY DEF IInv
  <2>2. emu' = [at |-> "check", count |-> count, len |-> 0, done |-> 0]
    BY <1>2 DEF AddSamples, IdleEmu
  <2>3. emu' \in [at : EmuPlaces, count : 0 .. MaxCount, len : 0 .. MaxCount, done : Nat]
        /\ emu'.len <= emu'.count
    BY <2>2, Sizes DEF EmuPlaces
  <2> QED  BY <1>2, <2>1, <2>3 DEF AddSamples, Types
<1>3. CASE Shutdown
  <2>1. Types  BY DEF IInv
  <2>2. emu' = [at |-> "drain", count |-> 0, len |-> 0, done |-> 0]
    BY <1>3 DEF Shutdown, IdleEmu
  <2>3. emu' \in [at : EmuPlaces, count : 0 .. MaxCount, len : 0 .. MaxCount, done : Nat]
        /\ emu'.len <= emu'.count
    BY <2>2, Sizes DEF EmuPlaces
  <2> QED  BY <1>3, <2>1, <2>3 DEF Shutdown, Types
<1>4. CASE CheckRoom
  BY <1>4 DEF CheckRoom, Room, GetBufferFree, IInv, Types, EmuPlaces, AudioPlaces
<1>5. CASE Wait
  BY <1>5 DEF Wait, IInv, Types, EmuPlaces, AudioPlaces
<1>6. CASE ClipWrite
  <2>1. Types /\ GetBufferAmount \in Numbers
    BY AmountType DEF IInv
  <2> DEFINE len == Lesser(emu.count, GetBufferFree)
  <2>2. len \in 0 .. MaxCount /\ len <= emu.count
    <3>1. /\ GetBufferAmount \in Nat /\ Length \in Nat /\ MaxCount \in Nat
          /\ emu.count \in 0 .. MaxCount
      BY <2>1, Sizes DEF Types, Numbers
    <3>2. GetBufferAmount <= Length
      BY DEF IInv, Fits
    <3> QED  BY <3>1, <3>2 DEF Lesser, GetBufferFree
  <2>3. emu' = [emu EXCEPT !.at = "copy", !.len = len]  BY <1>6 DEF ClipWrite
  <2> HIDE DEF len
  <2> QED  BY <1>6, <2>1, <2>2, <2>3 DEF ClipWrite, Types, EmuPlaces
<1>7. CASE CopyIn
  <2>1. Types  BY DEF IInv
  <2> DEFINE ahead == IF InputSpeed = 1 THEN emu.done ELSE 0
             slot == Add(WriteCount, ahead) % Length
             number == (made + ahead) % Modulus
  <2>2. ahead \in Int /\ WriteCount \in Int /\ made \in Int
    BY <2>1, Sizes DEF Types, Numbers
  <2>3. number \in Numbers  BY <2>2, AddIn DEF Add
  <2>4. Add(WriteCount, ahead) \in Int
    <3> HIDE DEF ahead
    <3>1. Add(WriteCount, ahead) \in Numbers  BY <2>2, AddIn
    <3> QED  BY <3>1, Sizes DEF Numbers
  <2>5. slot \in 0 .. Length - 1  BY <2>4, ModRange, Sizes
  <2>6. RingBuffer' = [RingBuffer EXCEPT ![slot] = number]  BY <1>7 DEF CopyIn
  <2> HIDE DEF slot, number
  <2>7. RingBuffer' \in [0 .. Length - 1 -> Numbers]  BY <2>1, <2>3, <2>5, <2>6 DEF Types
  <2>8. emu' \in [at : EmuPlaces, count : 0 .. MaxCount, len : 0 .. MaxCount, done : Nat]
        /\ emu'.len <= emu'.count
    <3>1. emu' = [emu EXCEPT !.done = emu.done + 1] \/ emu' = [emu EXCEPT !.at = "count"]
      BY <1>7 DEF CopyIn
    <3> QED  BY <3>1, <2>1 DEF Types, EmuPlaces
  <2> QED  BY <1>7, <2>1, <2>7, <2>8 DEF CopyIn, Types
<1>8. CASE CountSample
  <2>1. Types  BY DEF IInv
  <2>2. WriteCount \in Int /\ made \in Int /\ InputSpeed \in Nat
    BY <2>1, Sizes DEF Types, Numbers
  <2>3. WriteCount' = Add(WriteCount, 1) /\ made' = Add(made, 1)
        /\ emu' = [emu EXCEPT !.at = "copy", !.done = emu.done + InputSpeed]
    BY <1>8 DEF CountSample, Add
  <2>4. WriteCount' \in Numbers /\ made' \in Numbers  BY <2>2, <2>3, AddIn
  <2>5. emu' \in [at : EmuPlaces, count : 0 .. MaxCount, len : 0 .. MaxCount, done : Nat]
        /\ emu'.len <= emu'.count
    <3> DEFINE done == emu.done + InputSpeed
    <3>1. done \in Nat /\ emu' = [emu EXCEPT !.at = "copy", !.done = done]
      BY <2>1, <2>2, <2>3 DEF Types
    <3> HIDE DEF done
    <3> QED  BY <2>1, <3>1 DEF Types, EmuPlaces
  <2> QED  BY <1>8, <2>1, <2>4, <2>5 DEF CountSample, Types
<1>9. CASE EndWrite
  <2>1. Types  BY DEF IInv
  <2> DEFINE n == IF InputSpeed = 1 THEN emu.len ELSE 0
  <2>2. n \in Int /\ WriteCount \in Int /\ made \in Int
    BY <2>1, Sizes DEF Types, Numbers
  <2>3. WriteCount' = Add(WriteCount, n) /\ made' = Add(made, n) /\ emu' = IdleEmu
    BY <1>9 DEF EndWrite, Add
  <2> HIDE DEF n
  <2>4. WriteCount' \in Numbers /\ made' \in Numbers  BY <2>2, <2>3, AddIn
  <2> QED  BY <1>9, <2>1, <2>3, <2>4, Sizes DEF EndWrite, IdleEmu, Types, EmuPlaces
<1>10. CASE KillThread
  BY <1>10 DEF KillThread, Drained, IInv, Types, EmuPlaces, AudioPlaces
<1>11. CASE DeleteSemaphore
  BY <1>11 DEF DeleteSemaphore, IInv, Types, EmuPlaces, AudioPlaces
<1>12. CASE MoreData
  <2>1. Types /\ GetBufferAmount \in Numbers
    BY AmountType DEF IInv
  <2> DEFINE len == Lesser(Chunk, GetBufferAmount)
  <2>2. len \in 0 .. Chunk
    BY <2>1, Sizes DEF Lesser, Numbers
  <2>3. audio' = [at |-> "copy", len |-> len, out |-> << >>]  BY <1>12 DEF
       MoreData, IdleAudio
  <2> HIDE DEF len
  <2>4. audio' \in [at : AudioPlaces, len : 0 .. Chunk, out : Seq(Numbers)]
    BY <2>2, <2>3 DEF AudioPlaces
  <2>5. audio'.at # "post"  BY <2>3
  <2> QED  BY <1>12, <2>1, <2>4, <2>5 DEF MoreData, emuVars, Types
<1>13. CASE CopyOut
  <2>1. Types  BY DEF IInv
  <2> DEFINE slot == Add(ReadCount, Len(audio.out)) % Length
  <2>2. ReadCount \in Int /\ Len(audio.out) \in Int
    BY <2>1, Sizes DEF Types, Numbers
  <2>3. Add(ReadCount, Len(audio.out)) \in Int
    <3>1. Add(ReadCount, Len(audio.out)) \in Numbers  BY <2>2, AddIn
    <3> QED  BY <3>1, Sizes DEF Numbers
  <2>4. slot \in 0 .. Length - 1  BY <2>3, ModRange, Sizes
  <2>5. audio' = [audio EXCEPT !.out = Append(audio.out, RingBuffer[slot])]  BY
       <1>13 DEF CopyOut
  <2> HIDE DEF slot
  <2>6. RingBuffer[slot] \in Numbers  BY <2>1, <2>4 DEF Types
  <2>7. Append(audio.out, RingBuffer[slot]) \in Seq(Numbers)  BY <2>1, <2>6 DEF Types
  <2>8. audio' \in [at : AudioPlaces, len : 0 .. Chunk, out : Seq(Numbers)]
        /\ audio'.at = audio.at
    BY <2>1, <2>5, <2>7 DEF Types
  <2> QED  BY <1>13, <2>1, <2>8 DEF CopyOut, emuVars, Types
<1>14. CASE EndRead
  <2>1. Types  BY DEF IInv
  <2>2. ReadCount \in Int /\ audio.len \in Int
    BY <2>1, Sizes DEF Types, Numbers
  <2>3. ReadCount' \in Numbers
    BY <1>14, <2>2, AddIn DEF EndRead
  <2> QED  BY <1>14, <2>1, <2>3 DEF EndRead, emuVars, Types, AudioPlaces
<1>15. CASE SignalFeeder
  <2>1. Types  BY DEF IInv
  <2>2. audio' = [audio EXCEPT !.at = "post"] \/ audio' = IdleAudio
    BY <1>15 DEF SignalFeeder
  <2>3. audio' \in [at : AudioPlaces, len : 0 .. Chunk, out : Seq(Numbers)]
    <3>1. IdleAudio \in [at : AudioPlaces, len : 0 .. Chunk, out : Seq(Numbers)]
      BY Sizes DEF AudioPlaces, IdleAudio
    <3> QED  BY <2>1, <2>2, <3>1 DEF Types, AudioPlaces
  <2>4. audio'.at = "post" => Value = 0
    BY <1>15 DEF SignalFeeder, IdleAudio
  <2> QED  BY <1>15, <2>1, <2>3, <2>4 DEF SignalFeeder, emuVars, Types
<1>16. CASE Post
  <2>1. Types /\ Value' = 1 /\ audio' = IdleAudio
    BY <1>16 DEF IInv, Types, Post, Posted
  <2>2. audio' \in [at : AudioPlaces, len : 0 .. Chunk, out : Seq(Numbers)]
        /\ audio'.at # "post"
    BY <2>1, Sizes DEF AudioPlaces, IdleAudio
  <2> QED  BY <1>16, <2>1, <2>2 DEF Post, emuVars, Types
<1>17. CASE FinishStream
  BY <1>17 DEF FinishStream, Finished, emuVars, IInv, Types, EmuPlaces, AudioPlaces
<1>18. CASE ThreadEnds
  BY <1>18 DEF ThreadEnds, emuVars, IInv, Types, EmuPlaces, AudioPlaces
<1>19. CASE CloseStream
  BY <1>19 DEF CloseStream, Drained, IInv, Types, EmuPlaces, AudioPlaces
<1>20. CASE MultiStreamCloses
  BY <1>20 DEF MultiStreamCloses, emuVars, IInv, Types
<1> QED
  BY <1>1, <1>2, <1>3, <1>4, <1>5, <1>6, <1>7, <1>8, <1>9, <1>10, <1>11, <1>12,
       <1>13, <1>14, <1>15, <1>16, <1>17, <1>18, <1>19, <1>20 DEF Next, EmuStep, AudioStep

\* The end of the stream and of the thread.
LEMMA EndingStep == IInv /\ Next => Ending'
<1> SUFFICES ASSUME IInv, Next  PROVE Ending'
  OBVIOUS
<1> USE DEF endVars
<1>1. ASSUME NEW speed \in Speeds, SetSpeed(speed)  PROVE Ending'
  BY <1>1 DEF SetSpeed, IInv, Types, EmuPlaces, AudioPlaces, Ending
<1>2. ASSUME NEW count \in 0 .. MaxCount, AddSamples(count)  PROVE Ending'
  BY <1>2 DEF AddSamples, IdleEmu, IInv, Types, EmuPlaces, AudioPlaces, Ending
<1>3. CASE Shutdown
  BY <1>3 DEF Shutdown, IdleEmu, IInv, Types, EmuPlaces, AudioPlaces, Ending
<1>4. CASE CheckRoom
  BY <1>4 DEF CheckRoom, Room, GetBufferFree, IInv, Types, EmuPlaces, AudioPlaces, Ending
<1>5. CASE Wait
  BY <1>5 DEF Wait, IInv, Types, EmuPlaces, AudioPlaces, Ending
<1>6. CASE ClipWrite
  BY <1>6 DEF ClipWrite, Lesser, GetBufferFree, IInv, Types, EmuPlaces,
       AudioPlaces, Ending
<1>7. CASE CopyIn
  BY <1>7 DEF CopyIn, IInv, Types, EmuPlaces, AudioPlaces, Ending
<1>8. CASE CountSample
  BY <1>8 DEF CountSample, IInv, Types, EmuPlaces, AudioPlaces, Ending
<1>9. CASE EndWrite
  BY <1>9 DEF EndWrite, IdleEmu, IInv, Types, EmuPlaces, AudioPlaces, Ending
<1>10. CASE KillThread
  <2>1. /\ ThreadDie' = TRUE /\ StreamDead' = StreamDead /\ Status' = Status
        /\ audio' = audio /\ emu.at = "close"
    BY <1>10 DEF KillThread
  <2>2. ThreadDie' \in BOOLEAN  BY <2>1, Zenon
  <2>3. StreamDead  BY <2>1 DEF IInv, Ending
  <2> QED  BY <2>1, <2>2, <2>3 DEF IInv, Ending
<1>11. CASE DeleteSemaphore
  BY <1>11 DEF DeleteSemaphore, IInv, Types, EmuPlaces, AudioPlaces, Ending
<1>12. CASE MoreData
  BY <1>12 DEF MoreData, IdleAudio, Lesser, emuVars, IInv, Types, EmuPlaces,
       AudioPlaces, Ending
<1>13. CASE CopyOut
  BY <1>13 DEF CopyOut, emuVars, IInv, Types, EmuPlaces, AudioPlaces, Ending
<1>14. CASE EndRead
  BY <1>14 DEF EndRead, emuVars, IInv, Types, EmuPlaces, AudioPlaces, Ending
<1>15. CASE SignalFeeder
  BY <1>15 DEF SignalFeeder, IdleAudio, emuVars, IInv, Types, EmuPlaces,
       AudioPlaces, Ending
<1>16. CASE Post
  BY <1>16 DEF Post, IdleAudio, Posted, emuVars, IInv, Types, EmuPlaces,
       AudioPlaces, Ending
<1>17. CASE FinishStream
  <2>1. /\ StreamDead' = TRUE /\ ThreadDie' = ThreadDie /\ audio' = audio
        /\ Status' = Status /\ audio.at = "idle" /\ emu' = emu
    BY <1>17 DEF FinishStream, Finished, emuVars
  <2>2. StreamDead' \in BOOLEAN  BY <2>1, Zenon
  <2> QED  BY <2>1, <2>2 DEF IInv, Ending
<1>18. CASE ThreadEnds
  BY <1>18 DEF ThreadEnds, emuVars, IInv, Types, EmuPlaces, AudioPlaces, Ending
<1>19. CASE CloseStream
  <2>1. /\ Status' = "closing" /\ StreamDead /\ StreamDead' = StreamDead
        /\ ThreadDie' = ThreadDie /\ audio' = audio
    BY <1>19 DEF CloseStream, Drained
  <2> QED  BY <2>1 DEF IInv, Ending
<1>20. CASE MultiStreamCloses
  <2>1. /\ Status' = "closed" /\ StreamDead' = StreamDead /\ ThreadDie' = ThreadDie
        /\ audio' = audio /\ emu' = emu
    BY <1>20 DEF MultiStreamCloses, emuVars
  <2> QED  BY <2>1 DEF IInv, Ending
<1> QED
  BY <1>1, <1>2, <1>3, <1>4, <1>5, <1>6, <1>7, <1>8, <1>9, <1>10, <1>11, <1>12,
       <1>13, <1>14, <1>15, <1>16, <1>17, <1>18, <1>19, <1>20 DEF Next, EmuStep, AudioStep

\* What the three steps that move a count do to the distance between them.
LEMMA CountSampleAmount ==
    ASSUME IInv, CountSample
    PROVE  GetBufferAmount' = GetBufferAmount + 1
<1>1. emu.len \in Nat /\ emu.done \in Nat /\ GetBufferAmount \in Nat
  BY Quantities, Sizes
<1>2. emu.done < emu.len /\ GetBufferAmount + (emu.len - emu.done) <= Length
  BY DEF CountSample, IInv, Fits
<1>3. GetBufferAmount + 1 < Modulus  BY <1>1, <1>2, Sizes
<1>4. WriteCount' = Add(WriteCount, 1) /\ ReadCount' = ReadCount
  BY DEF CountSample
<1>5. (Add(WriteCount, 1) - ReadCount) % Modulus = ((WriteCount - ReadCount) % Modulus) + 1
  BY <1>3, Forward DEF IInv, Types, GetBufferAmount
<1> QED  BY <1>4, <1>5 DEF GetBufferAmount

LEMMA EndWriteAmount ==
    ASSUME IInv, EndWrite
    PROVE  \E n \in Nat :
             /\ n = IF InputSpeed = 1 THEN emu.len ELSE 0
             /\ GetBufferAmount' = GetBufferAmount + n
             /\ GetBufferAmount + n <= Length
             /\ WriteCount' = Add(WriteCount, n) /\ made' = Add(made, n)
             /\ emu.at = "copy" /\ (InputSpeed = 1 => emu.done = n)
<1> DEFINE n == IF InputSpeed = 1 THEN emu.len ELSE 0
<1>1. n \in Nat /\ GetBufferAmount \in Nat /\ GetBufferAmount + n <= Length
  <2>1. emu.len \in Nat /\ GetBufferAmount \in Nat
    BY Quantities, Sizes
  <2>2. Fits /\ emu.at = "copy"
    BY DEF EndWrite, IInv
  <2>3. CASE InputSpeed = 1
    BY <2>1, <2>2, <2>3 DEF Fits
  <2>4. CASE InputSpeed # 1
    BY <2>1, <2>2, <2>4 DEF Fits
  <2> QED  BY <2>3, <2>4
<1>2. /\ WriteCount' = Add(WriteCount, n) /\ made' = Add(made, n)
      /\ ReadCount' = ReadCount /\ emu.at = "copy"
  BY DEF EndWrite, Add
<1>3. InputSpeed = 1 => emu.done = n
  BY DEF EndWrite, IInv, Fits, Types
<1>4. n = IF InputSpeed = 1 THEN emu.len ELSE 0
  OBVIOUS
<1> HIDE DEF n
<1>5. GetBufferAmount + n < Modulus  BY <1>1, Sizes
<1>6. (Add(WriteCount, n) - ReadCount) % Modulus = ((WriteCount - ReadCount) % Modulus) + n
  BY <1>1, <1>5, Forward DEF IInv, Types, GetBufferAmount
<1>7. GetBufferAmount' = GetBufferAmount + n
  BY <1>2, <1>6 DEF GetBufferAmount
<1> QED  BY <1>1, <1>2, <1>3, <1>4, <1>7

LEMMA EndReadAmount ==
    ASSUME IInv, EndRead
    PROVE  GetBufferAmount' = GetBufferAmount - audio.len
<1>1. audio.len \in Nat /\ GetBufferAmount \in Nat /\ audio.len <= GetBufferAmount
  BY Quantities DEF EndRead, IInv, Fits
<1>2. ReadCount' = Add(ReadCount, audio.len) /\ WriteCount' = WriteCount
  BY DEF EndRead, emuVars
<1>3. (WriteCount - Add(ReadCount, audio.len)) % Modulus
        = ((WriteCount - ReadCount) % Modulus) - audio.len
  BY <1>1, Backward DEF IInv, Types, GetBufferAmount
<1> QED  BY <1>2, <1>3 DEF GetBufferAmount

\* Only the reader makes room and only the writer takes it.
LEMMA FitsStep == IInv /\ Next => Fits'
<1> SUFFICES ASSUME IInv, Next  PROVE Fits'
  OBVIOUS
<1>1. ASSUME NEW speed \in Speeds, SetSpeed(speed)  PROVE Fits'
  <2>1. GetBufferAmount' = GetBufferAmount
    BY <1>1 DEF SetSpeed, emuVars, GetBufferAmount
  <2> QED  BY <1>1, <2>1, Quantities DEF SetSpeed, emuVars, IInv, Types, Fits
<1>2. ASSUME NEW count \in 0 .. MaxCount, AddSamples(count)  PROVE Fits'
  <2>1. GetBufferAmount' = GetBufferAmount
    BY <1>2 DEF AddSamples, emuVars, GetBufferAmount
  <2> QED  BY <1>2, <2>1, Quantities DEF AddSamples, IdleEmu, emuVars, IInv, Types, Fits
<1>3. CASE Shutdown
  <2>1. GetBufferAmount' = GetBufferAmount
    BY <1>3 DEF Shutdown, emuVars, GetBufferAmount
  <2> QED  BY <1>3, <2>1, Quantities DEF Shutdown, IdleEmu, emuVars, IInv, Types, Fits
<1>4. CASE CheckRoom
  <2>1. GetBufferAmount' = GetBufferAmount /\ audio' = audio
    BY <1>4 DEF CheckRoom, GetBufferAmount
  <2>2. /\ emu'.at = IF Room(emu.count) THEN "clip" ELSE "wait"
        /\ emu'.done = emu.done /\ emu'.count = emu.count /\ emu.at = "check"
    BY <1>4 DEF CheckRoom, IInv, Types
  <2>3. emu.done = 0  BY <2>2 DEF IInv, Fits
  <2>4. Room(emu.count) => GetBufferAmount + emu.count <= Length
    <3>1. GetBufferAmount \in Nat /\ emu.count \in Nat /\ Length \in Nat
      BY Quantities, Sizes
    <3> QED  BY <3>1 DEF Room, GetBufferFree
  <2> QED  BY <2>1, <2>2, <2>3, <2>4 DEF IInv, Fits
<1>5. CASE Wait
  <2>1. GetBufferAmount' = GetBufferAmount
    BY <1>5 DEF Wait, emuVars, GetBufferAmount
  <2> QED  BY <1>5, <2>1, Quantities DEF Wait, emuVars, IInv, Types, Fits
<1>6. CASE ClipWrite
  <2>1. GetBufferAmount' = GetBufferAmount
    BY <1>6 DEF ClipWrite, GetBufferAmount
  <2>2. /\ GetBufferAmount \in Nat /\ emu.count \in Nat
        /\ GetBufferAmount + emu.count <= Length
        /\ emu.done = 0 /\ Length \in Nat
    BY <1>6, Quantities, Sizes DEF ClipWrite, IInv, Fits
  <2>3. Lesser(emu.count, GetBufferFree) = emu.count
    BY <2>2 DEF Lesser, GetBufferFree
  <2>4. /\ emu' = [emu EXCEPT !.at = "copy", !.len = emu.count]
        /\ InputSpeed' = InputSpeed /\ audio' = audio
    BY <1>6, <2>3 DEF ClipWrite
  <2>5. /\ emu'.at = "copy" /\ emu'.len = emu.count /\ emu'.count = emu.count
        /\ emu'.done = 0
    BY <2>2, <2>4 DEF IInv, Types
  <2> QED  BY <2>1, <2>2, <2>4, <2>5 DEF IInv, Fits
<1>7. CASE CopyIn
  <2>1. GetBufferAmount' = GetBufferAmount
    BY <1>7 DEF CopyIn, GetBufferAmount
  <2>2. /\ GetBufferAmount \in Nat /\ emu.done \in Nat /\ emu.len \in Nat
        /\ Length \in Nat /\ Fits
    BY Quantities, Sizes DEF IInv
  <2>3. emu.at = "copy" /\ emu.done < emu.len
        /\ InputSpeed' = InputSpeed /\ audio' = audio
    BY <1>7 DEF CopyIn
  <2>4. CASE InputSpeed = 1
    <3>1. emu' = [emu EXCEPT !.done = emu.done + 1]
      BY <1>7, <2>4 DEF CopyIn
    <3>2. emu'.at = "copy" /\ emu'.len = emu.len /\ emu'.count = emu.count
          /\ emu'.done = emu.done + 1
      BY <2>3, <3>1 DEF IInv, Types
    <3> QED  BY <2>1, <2>2, <2>3, <2>4, <3>2 DEF Fits
  <2>5. CASE InputSpeed # 1
    <3>1. emu' = [emu EXCEPT !.at = "count"]
      BY <1>7, <2>5 DEF CopyIn
    <3>2. emu'.at = "count" /\ emu'.len = emu.len /\ emu'.count = emu.count
          /\ emu'.done = emu.done
      BY <2>3, <3>1 DEF IInv, Types
    <3> QED  BY <2>1, <2>2, <2>3, <2>5, <3>2 DEF Fits
  <2> QED  BY <2>4, <2>5
<1>8. CASE CountSample
  <2>1. /\ emu.done < emu.len /\ InputSpeed # 1 /\ InputSpeed \in Nat \ {0}
        /\ GetBufferAmount + (emu.len - emu.done) <= Length
    BY <1>8, Sizes DEF CountSample, IInv, Fits, Types
  <2>2. GetBufferAmount \in Nat /\ emu.len \in Nat /\ emu.done \in Nat
    BY Quantities, Sizes
  <2>3. GetBufferAmount' = GetBufferAmount + 1
    BY <1>8, CountSampleAmount
  <2>4. /\ emu' = [emu EXCEPT !.at = "copy", !.done = emu.done + InputSpeed]
        /\ InputSpeed' = InputSpeed /\ audio' = audio
    BY <1>8 DEF CountSample
  <2>5. GetBufferAmount' <= Length  BY <2>1, <2>2, <2>3, Sizes
  <2>6. emu'.at = "copy" /\ emu'.len = emu.len /\ emu'.done = emu.done + InputSpeed
        /\ emu'.count = emu.count
    BY <2>4 DEF IInv, Types
  <2>7. emu.len = emu.count  BY <1>8 DEF CountSample, IInv, Fits
  <2>8. GetBufferAmount' + (emu.len - emu'.done) <= Length
    BY <2>1, <2>2, <2>3, <2>6, Sizes
  <2>9. audio.at = "copy" => audio.len <= GetBufferAmount' /\ Len(audio.out) <= audio.len
    <3>1. audio.len \in Nat  BY Quantities
    <3> QED  BY <3>1, <2>2, <2>3 DEF IInv, Fits
  <2> QED  BY <2>1, <2>4, <2>5, <2>6, <2>7, <2>8, <2>9 DEF Fits
<1>9. CASE EndWrite
  <2>1. PICK n \in Nat : GetBufferAmount' = GetBufferAmount + n /\
       GetBufferAmount + n <= Length
    BY <1>9, EndWriteAmount
  <2>2. GetBufferAmount \in Nat  BY Quantities
  <2>3. emu' = IdleEmu /\ audio' = audio
    BY <1>9 DEF EndWrite
  <2>4. audio.at = "copy" => audio.len <= GetBufferAmount' /\ Len(audio.out) <= audio.len
    <3>1. audio.len \in Nat  BY Quantities
    <3> QED  BY <3>1, <2>1, <2>2 DEF IInv, Fits
  <2> QED  BY <2>1, <2>3, <2>4 DEF Fits, IdleEmu
<1>10. CASE KillThread
  <2>1. GetBufferAmount' = GetBufferAmount
    BY <1>10 DEF KillThread, emuVars, GetBufferAmount
  <2> QED  BY <1>10, <2>1, Quantities DEF KillThread, Drained, emuVars, IInv, Types, Fits
<1>11. CASE DeleteSemaphore
  <2>1. GetBufferAmount' = GetBufferAmount
    BY <1>11 DEF DeleteSemaphore, emuVars, GetBufferAmount
  <2> QED  BY <1>11, <2>1, Quantities DEF DeleteSemaphore, emuVars, IInv, Types, Fits
<1>12. CASE MoreData
  <2>1. /\ GetBufferAmount' = GetBufferAmount /\ emu' = emu
        /\ InputSpeed' = InputSpeed
    BY <1>12 DEF MoreData, emuVars, GetBufferAmount
  <2> DEFINE len == Lesser(Chunk, GetBufferAmount)
  <2>2. len <= GetBufferAmount /\ len \in Nat
    BY Quantities, Sizes DEF Lesser
  <2>3. audio' = [IdleAudio EXCEPT !.at = "copy", !.len = len]  BY <1>12 DEF MoreData
  <2> HIDE DEF len
  <2>4. audio'.len = len /\ Len(audio'.out) = 0
    BY <2>3 DEF IdleAudio
  <2> QED  BY <2>1, <2>2, <2>4 DEF IInv, Fits
<1>13. CASE CopyOut
  <2>1. GetBufferAmount' = GetBufferAmount
    BY <1>13 DEF CopyOut, emuVars, GetBufferAmount
  <2> QED  BY <1>13, <2>1, Quantities DEF CopyOut, emuVars, IInv, Types, Fits
<1>14. CASE EndRead
  <2>1. audio.len \in Nat /\ GetBufferAmount \in Nat
    BY Quantities, Sizes
  <2>2. emu' = emu /\ InputSpeed' = InputSpeed /\ audio'.at = "signal"
    BY <1>14 DEF EndRead, emuVars, IInv, Types
  <2>3. GetBufferAmount' = GetBufferAmount - audio.len
    BY <1>14, EndReadAmount
  <2>4. GetBufferAmount' \in Int /\ GetBufferAmount' <= GetBufferAmount
    BY <2>1, <2>3
  <2> QED  BY <2>1, <2>2, <2>4, Sizes DEF IInv, Fits, Types
<1>15. CASE SignalFeeder
  <2>1. GetBufferAmount' = GetBufferAmount
    BY <1>15 DEF SignalFeeder, emuVars, GetBufferAmount
  <2> QED  BY <1>15, <2>1, Quantities DEF SignalFeeder, IdleAudio, emuVars,
       IInv, Types, Fits
<1>16. CASE Post
  <2>1. GetBufferAmount' = GetBufferAmount
    BY <1>16 DEF Post, emuVars, GetBufferAmount
  <2> QED  BY <1>16, <2>1, Quantities DEF Post, IdleAudio, Posted, emuVars,
       IInv, Types, Fits
<1>17. CASE FinishStream
  <2>1. GetBufferAmount' = GetBufferAmount
    BY <1>17 DEF FinishStream, emuVars, GetBufferAmount
  <2> QED  BY <1>17, <2>1, Quantities DEF FinishStream, Finished, emuVars, IInv,
       Types, Fits
<1>18. CASE ThreadEnds
  <2>1. GetBufferAmount' = GetBufferAmount
    BY <1>18 DEF ThreadEnds, emuVars, GetBufferAmount
  <2> QED  BY <1>18, <2>1, Quantities DEF ThreadEnds, emuVars, IInv, Types, Fits
<1>19. CASE CloseStream
  <2>1. GetBufferAmount' = GetBufferAmount
    BY <1>19 DEF CloseStream, GetBufferAmount
  <2> QED  BY <1>19, <2>1, Quantities DEF CloseStream, IInv, Types, Fits
<1>20. CASE MultiStreamCloses
  <2>1. GetBufferAmount' = GetBufferAmount
    BY <1>20 DEF MultiStreamCloses, emuVars, GetBufferAmount
  <2> QED  BY <1>20, <2>1 DEF MultiStreamCloses, emuVars, IInv, Fits
<1> QED
  BY <1>1, <1>2, <1>3, <1>4, <1>5, <1>6, <1>7, <1>8, <1>9, <1>10, <1>11, <1>12,
       <1>13, <1>14, <1>15, <1>16, <1>17, <1>18, <1>19, <1>20 DEF Next, EmuStep, AudioStep

\* Behind WriteCount lies what is the waiting samples further behind ReadCount.
LEMMA Behind ==
    ASSUME IInv, NEW n \in Nat, GetBufferAmount + n <= Modulus
    PROVE  Slot(WriteCount, n) = Slot(ReadCount, GetBufferAmount + n)
<1> DEFINE a == GetBufferAmount
<1>1. /\ ReadCount \in Numbers /\ WriteCount \in Numbers /\ a \in Nat
      /\ a + n <= Modulus
  BY Quantities, Sizes DEF IInv, Types
<1>2. Add(ReadCount, a) = WriteCount
  BY <1>1, WriterAfterReader DEF GetBufferAmount
<1> HIDE DEF a
<1>3. Add(Add(ReadCount, a), n) = Add(ReadCount, a + n)
  BY <1>1, AddAdd
<1> QED  BY <1>2, <1>3 DEF Slot, a

\* The copy into the ring: where it goes and what.
LEMMA CopyPlace ==
    ASSUME IInv, CopyIn
    PROVE  \E n \in Nat :
             /\ n = IF InputSpeed = 1 THEN emu.done ELSE 0
             /\ RingBuffer' = [RingBuffer EXCEPT ![Slot(WriteCount, n)] = Add(made, n)]
             /\ Slot(WriteCount, n) \in 0 .. Length - 1
             /\ Slot(WriteCount, n) = Slot(ReadCount, GetBufferAmount + n)
             /\ GetBufferAmount + n \in 0 .. Length - 1
             /\ n \in 0 .. Length - 1
<1> DEFINE n == IF InputSpeed = 1 THEN emu.done ELSE 0
<1>1. RingBuffer' = [RingBuffer EXCEPT ![Slot(WriteCount, n)] = Add(made, n)]
  BY DEF CopyIn, Slot, Add
<1>2. emu.at = "copy" /\ emu.done < emu.len
  BY DEF CopyIn
<1>3. emu.done \in Nat /\ emu.len \in Nat /\ GetBufferAmount \in Nat /\ Length \in Nat
      /\ Length < Modulus
  BY Quantities, Sizes DEF IInv, Types
<1>4. n \in Nat /\ GetBufferAmount + n < Length
  BY <1>2, <1>3 DEF IInv, Fits
<1> HIDE DEF n
<1>5. GetBufferAmount + n <= Modulus /\ GetBufferAmount + n \in 0 .. Length - 1
      /\ n \in 0 .. Length - 1 /\ n \in 0 .. Modulus
  BY <1>3, <1>4, Sizes
<1>6. Slot(WriteCount, n) = Slot(ReadCount, GetBufferAmount + n)
  BY <1>4, <1>5, Behind
<1>7. Slot(WriteCount, n) \in 0 .. Length - 1
  BY <1>5, SlotRange DEF IInv, Types
<1>8. n = IF InputSpeed = 1 THEN emu.done ELSE 0
  BY DEF n
<1> QED  BY <1>1, <1>4, <1>5, <1>6, <1>7, <1>8

\* So it disturbs no sample that waits.
LEMMA WaitingKept ==
    ASSUME IInv, CopyIn
    PROVE  \A i \in 1 .. GetBufferAmount :
             RingBuffer'[Slot(ReadCount, i - 1)] = RingBuffer[Slot(ReadCount, i - 1)]
<1> SUFFICES ASSUME NEW i \in 1 .. GetBufferAmount
             PROVE  RingBuffer'[Slot(ReadCount, i - 1)] = RingBuffer[Slot(ReadCount, i - 1)]
  OBVIOUS
<1>1. PICK n \in Nat :
        /\ RingBuffer' = [RingBuffer EXCEPT ![Slot(WriteCount, n)] = Add(made, n)]
        /\ Slot(WriteCount, n) = Slot(ReadCount, GetBufferAmount + n)
        /\ GetBufferAmount + n \in 0 .. Length - 1
  BY CopyPlace
<1> DEFINE j == i - 1
           k == GetBufferAmount + n
<1>2. GetBufferAmount \in Nat /\ Length \in Nat
  BY Quantities, Sizes
<1>3. j \in 0 .. Length - 1 /\ k \in 0 .. Length - 1 /\ j # k /\ j \in 0 .. Modulus
  BY <1>1, <1>2, Sizes
<1>4. ReadCount \in Numbers
  BY DEF IInv, Types
<1> HIDE DEF j, k
<1>5. Slot(ReadCount, j) # Slot(ReadCount, k)
  BY <1>3, <1>4, SlotsDiffer
<1>6. Slot(ReadCount, j) \in 0 .. Length - 1
  BY <1>3, <1>4, SlotRange
<1>7. Slot(WriteCount, n) = Slot(ReadCount, k)
  BY <1>1 DEF k
<1>8. RingBuffer'[Slot(ReadCount, j)] = RingBuffer[Slot(ReadCount, j)]
  BY <1>1, <1>5, <1>6, <1>7 DEF IInv, Types
<1> QED  BY <1>8 DEF j

\* The samples behind WriteCount are those the frame has copied.
LEMMA WrittenStep == IInv /\ Next => Written'
<1> SUFFICES ASSUME IInv, Next  PROVE Written'
  OBVIOUS
<1>1. ASSUME NEW speed \in Speeds, SetSpeed(speed)  PROVE Written'
  <2>1. emu'.at \notin {"copy", "count"}
    BY <1>1 DEF SetSpeed
  <2> QED  BY <2>1 DEF Written
<1>2. ASSUME NEW count \in 0 .. MaxCount, AddSamples(count)  PROVE Written'
  <2>1. emu'.at \notin {"copy", "count"}
    BY <1>2 DEF AddSamples, IdleEmu, IInv, Types
  <2> QED  BY <2>1 DEF Written
<1>3. CASE Shutdown
  <2>1. emu'.at \notin {"copy", "count"}
    BY <1>3 DEF Shutdown, IdleEmu, IInv, Types
  <2> QED  BY <2>1 DEF Written
<1>4. CASE CheckRoom
  <2>1. emu'.at \notin {"copy", "count"}
    BY <1>4 DEF CheckRoom, IInv, Types
  <2> QED  BY <2>1 DEF Written
<1>5. CASE Wait
  <2>1. emu'.at \notin {"copy", "count"}
    BY <1>5 DEF Wait, IInv, Types
  <2> QED  BY <2>1 DEF Written
<1>6. CASE ClipWrite
  <2>1. /\ emu'.at = "copy" /\ emu'.done = 0
        /\ InputSpeed' = InputSpeed
    BY <1>6 DEF ClipWrite, IInv, Types, Fits
  <2> QED  BY <2>1 DEF Written
<1>7. CASE CopyIn
  <2>1. PICK n \in Nat :
          /\ n = IF InputSpeed = 1 THEN emu.done ELSE 0
          /\ RingBuffer' = [RingBuffer EXCEPT ![Slot(WriteCount, n)] = Add(made, n)]
          /\ Slot(WriteCount, n) \in 0 .. Length - 1
          /\ n \in 0 .. Length - 1
    BY <1>7, CopyPlace
  <2>2. /\ WriteCount' = WriteCount /\ made' = made /\ InputSpeed' = InputSpeed
        /\ emu.at = "copy" /\ emu.done \in Nat /\ WriteCount \in Numbers
        /\ RingBuffer \in [0 .. Length - 1 -> Numbers]
    BY <1>7 DEF CopyIn, IInv, Types
  <2>3. RingBuffer'[Slot(WriteCount, n)] = Add(made, n)
    BY <2>1, <2>2
  <2>4. CASE InputSpeed = 1
    <3>1. emu'.at = "copy" /\ emu'.done = n + 1
      BY <1>7, <2>1, <2>2, <2>4 DEF CopyIn, IInv, Types
    <3>2. ASSUME NEW i \in 0 .. n - 1
          PROVE  RingBuffer'[Slot(WriteCount, i)] = Add(made, i)
      <4>1. i \in 0 .. Length - 1 /\ i \in 0 .. Modulus /\ i # n
        BY <2>1, Sizes
      <4>2. Slot(WriteCount, i) # Slot(WriteCount, n)
        BY <4>1, <2>1, <2>2, SlotsDiffer
      <4>3. Slot(WriteCount, i) \in 0 .. Length - 1
        BY <4>1, <2>2, SlotRange
      <4>4. RingBuffer[Slot(WriteCount, i)] = Add(made, i)
        BY <2>1, <2>2, <2>4 DEF IInv, Written
      <4> QED  BY <4>2, <4>3, <4>4, <2>1, <2>2
    <3>3. \A i \in 0 .. (n + 1) - 1 : i = n \/ i \in 0 .. n - 1
      OBVIOUS
    <3>4. \A i \in 0 .. emu'.done - 1 : RingBuffer'[Slot(WriteCount', i)] = Add(made', i)
      BY <3>1, <3>2, <3>3, <2>2, <2>3
    <3> QED  BY <3>1, <3>4 DEF Written
  <2>5. CASE InputSpeed # 1
    <3>1. emu'.at = "count" /\ n = 0
      BY <1>7, <2>1, <2>2, <2>5 DEF CopyIn, IInv, Types
    <3> QED  BY <3>1, <2>2, <2>3 DEF Written
  <2> QED  BY <2>4, <2>5
<1>8. CASE CountSample
  <2>1. emu'.at = "copy" /\ InputSpeed' # 1
    BY <1>8 DEF CountSample, IInv, Types, Fits
  <2> QED  BY <2>1 DEF Written
<1>9. CASE EndWrite
  <2>1. emu'.at \notin {"copy", "count"}
    BY <1>9 DEF EndWrite, IdleEmu, IInv, Types
  <2> QED  BY <2>1 DEF Written
<1>10. CASE KillThread
  <2>1. emu'.at \notin {"copy", "count"}
    BY <1>10 DEF KillThread, IInv, Types
  <2> QED  BY <2>1 DEF Written
<1>11. CASE DeleteSemaphore
  <2>1. emu'.at \notin {"copy", "count"}
    BY <1>11 DEF DeleteSemaphore, IInv, Types
  <2> QED  BY <2>1 DEF Written
<1>12. CASE MoreData
  BY <1>12 DEF MoreData, emuVars, IInv, Written
<1>13. CASE CopyOut
  BY <1>13 DEF CopyOut, emuVars, IInv, Written
<1>14. CASE EndRead
  BY <1>14 DEF EndRead, emuVars, IInv, Written
<1>15. CASE SignalFeeder
  BY <1>15 DEF SignalFeeder, emuVars, IInv, Written
<1>16. CASE Post
  BY <1>16 DEF Post, emuVars, IInv, Written
<1>17. CASE FinishStream
  BY <1>17 DEF FinishStream, emuVars, IInv, Written
<1>18. CASE ThreadEnds
  BY <1>18 DEF ThreadEnds, emuVars, IInv, Written
<1>19. CASE CloseStream
  <2>1. emu'.at \notin {"copy", "count"}
    BY <1>19 DEF CloseStream, IInv, Types
  <2> QED  BY <2>1 DEF Written
<1>20. CASE MultiStreamCloses
  BY <1>20 DEF MultiStreamCloses, emuVars, IInv, Written
<1> QED
  BY <1>1, <1>2, <1>3, <1>4, <1>5, <1>6, <1>7, <1>8, <1>9, <1>10, <1>11, <1>12,
       <1>13, <1>14, <1>15, <1>16, <1>17, <1>18, <1>19, <1>20 DEF Next, EmuStep, AudioStep

\* Until ReadCount moves, the writer leaves what the reader takes alone.
LEMMA CopiedStep == IInv /\ Next => Copied'
<1> SUFFICES ASSUME IInv, Next  PROVE Copied'
  OBVIOUS
<1>1. ASSUME NEW speed \in Speeds, SetSpeed(speed)  PROVE Copied'
  BY <1>1 DEF SetSpeed, emuVars, IInv, Copied
<1>2. ASSUME NEW count \in 0 .. MaxCount, AddSamples(count)  PROVE Copied'
  BY <1>2 DEF AddSamples, emuVars, IInv, Copied
<1>3. CASE Shutdown
  BY <1>3 DEF Shutdown, emuVars, IInv, Copied
<1>4. CASE CheckRoom
  BY <1>4 DEF CheckRoom, emuVars, IInv, Copied
<1>5. CASE Wait
  BY <1>5 DEF Wait, emuVars, IInv, Copied
<1>6. CASE ClipWrite
  BY <1>6 DEF ClipWrite, emuVars, IInv, Copied
<1>7. CASE CopyIn
  <2>1. audio' = audio /\ ReadCount' = ReadCount
    BY <1>7 DEF CopyIn
  <2>2. SUFFICES ASSUME audio.at = "copy", NEW i \in 1 .. Len(audio.out)
                 PROVE  audio.out[i] = RingBuffer'[Slot(ReadCount, i - 1)]
    BY <2>1 DEF Copied
  <2>3. Len(audio.out) \in Nat /\ audio.len \in Nat /\ GetBufferAmount \in Nat
        /\ Len(audio.out) <= audio.len /\ audio.len <= GetBufferAmount
    BY <2>2, Quantities DEF IInv, Fits
  <2>4. i \in 1 .. GetBufferAmount
    BY <2>3
  <2>5. audio.out[i] = RingBuffer[Slot(ReadCount, i - 1)]
    BY <2>2 DEF IInv, Copied
  <2> QED  BY <1>7, <2>4, <2>5, WaitingKept
<1>8. CASE CountSample
  BY <1>8 DEF CountSample, emuVars, IInv, Copied
<1>9. CASE EndWrite
  BY <1>9 DEF EndWrite, emuVars, IInv, Copied
<1>10. CASE KillThread
  BY <1>10 DEF KillThread, emuVars, IInv, Copied
<1>11. CASE DeleteSemaphore
  BY <1>11 DEF DeleteSemaphore, emuVars, IInv, Copied
<1>12. CASE MoreData
  <2>1. audio'.out = << >>
    BY <1>12 DEF MoreData, IdleAudio
  <2> QED  BY <2>1 DEF Copied
<1>13. CASE CopyOut
  <2> DEFINE v == RingBuffer[Slot(ReadCount, Len(audio.out))]
  <2>1. audio' = [audio EXCEPT !.out = Append(audio.out, v)] /\ audio.at = "copy"
    BY <1>13 DEF CopyOut, Slot
  <2>2. RingBuffer' = RingBuffer /\ ReadCount' = ReadCount
    BY <1>13 DEF CopyOut
  <2>3. audio.out \in Seq(Numbers)
    BY DEF IInv, Types
  <2>4. audio'.out = Append(audio.out, v)
    BY <2>1 DEF IInv, Types
  <2>5. v \in Numbers \/ v \notin Numbers
    OBVIOUS
  <2> DEFINE s == audio.out
             s2 == audio'.out
  <2>6. /\ Len(s) \in Nat /\ Len(s2) = Len(s) + 1
        /\ \A i \in 1 .. Len(s) : s2[i] = s[i]
        /\ s2[Len(s) + 1] = v
    <3>1. s2 = Append(s, v) /\ s \in Seq(Numbers)
      BY <2>3, <2>4
    <3> HIDE DEF s, s2, v
    <3> QED  BY <3>1
  <2>7. \A i \in 1 .. Len(s) : s[i] = RingBuffer[Slot(ReadCount, i - 1)]
    BY <2>1 DEF IInv, Copied
  <2>8. v = RingBuffer[Slot(ReadCount, Len(s))]
    OBVIOUS
  <2> HIDE DEF s, s2, v
  <2>9. \A i \in 1 .. Len(s2) : s2[i] = RingBuffer[Slot(ReadCount, i - 1)]
    <3> SUFFICES ASSUME NEW i \in 1 .. Len(s2)
                 PROVE  s2[i] = RingBuffer[Slot(ReadCount, i - 1)]
      OBVIOUS
    <3>1. i \in 1 .. Len(s) \/ i = Len(s) + 1  BY <2>6
    <3>2. CASE i \in 1 .. Len(s)  BY <3>2, <2>6, <2>7
    <3>3. CASE i = Len(s) + 1
      <4>1. s2[i] = v /\ i - 1 = Len(s)  BY <3>3, <2>6
      <4> QED  BY <4>1, <2>8
    <3> QED  BY <3>1, <3>2, <3>3
  <2> QED  BY <2>2, <2>9 DEF Copied, s2
<1>14. CASE EndRead
  <2>1. audio'.at # "copy"
    BY <1>14 DEF EndRead, IdleAudio, IInv, Types
  <2> QED  BY <2>1 DEF Copied
<1>15. CASE SignalFeeder
  <2>1. audio'.at # "copy"
    BY <1>15 DEF SignalFeeder, IdleAudio, IInv, Types
  <2> QED  BY <2>1 DEF Copied
<1>16. CASE Post
  <2>1. audio'.at # "copy"
    BY <1>16 DEF Post, IdleAudio, IInv, Types
  <2> QED  BY <2>1 DEF Copied
<1>17. CASE FinishStream
  BY <1>17 DEF FinishStream, emuVars, IInv, Copied
<1>18. CASE ThreadEnds
  <2>1. audio'.at # "copy"
    BY <1>18 DEF ThreadEnds, IdleAudio, IInv, Types
  <2> QED  BY <2>1 DEF Copied
<1>19. CASE CloseStream
  BY <1>19 DEF CloseStream, IInv, Copied
<1>20. CASE MultiStreamCloses
  BY <1>20 DEF MultiStreamCloses, emuVars, IInv, Copied
<1> QED
  BY <1>1, <1>2, <1>3, <1>4, <1>5, <1>6, <1>7, <1>8, <1>9, <1>10, <1>11, <1>12,
       <1>13, <1>14, <1>15, <1>16, <1>17, <1>18, <1>19, <1>20 DEF Next, EmuStep, AudioStep

-----------------------------------------------------------------------------
\* The invariant of every behaviour.

LEMMA InitHolds == Init => IInv
<1> SUFFICES ASSUME Init  PROVE IInv
  OBVIOUS
<1>1. RingBuffer \in [0 .. Length - 1 -> Numbers]
  BY Sizes DEF Init, Numbers
<1>2. GetBufferAmount = 0
  <2>1. 0 \in Numbers  BY Sizes DEF Numbers
  <2>2. WriteCount \in Numbers /\ ReadCount \in Numbers /\ WriteCount = 0 /\ ReadCount = 0
    BY <2>1 DEF Init
  <2>3. (WriteCount - ReadCount) % Modulus
          = IF WriteCount >= ReadCount THEN WriteCount - ReadCount
            ELSE WriteCount - ReadCount + Modulus
    BY <2>2, Distance
  <2> QED  BY <2>2, <2>3 DEF GetBufferAmount
<1>3. Types
  BY <1>1, Sizes DEF Init, Types, Numbers, IdleEmu, IdleAudio, EmuPlaces, AudioPlaces
<1>4. Ending
  <2>1. StreamDead \in BOOLEAN /\ ThreadDie \in BOOLEAN  BY Zenon DEF Init
  <2> QED  BY <2>1 DEF Init, Ending, IdleEmu, IdleAudio
<1>5. Fits
  BY <1>2, Sizes DEF Init, Fits, IdleEmu, IdleAudio
<1>6. Written /\ Copied
  BY DEF Init, Written, Copied, IdleEmu, IdleAudio
<1> QED  BY <1>3, <1>4, <1>5, <1>6 DEF IInv

LEMMA StepKeeps == IInv /\ [Next]_vars => IInv'
<1> SUFFICES ASSUME IInv, [Next]_vars  PROVE IInv'
  OBVIOUS
<1>1. CASE Next
  BY <1>1, TypesStep, EndingStep, FitsStep, WrittenStep, CopiedStep DEF IInv
<1>2. CASE UNCHANGED vars
  <2>1. GetBufferAmount' = GetBufferAmount
    BY <1>2 DEF vars, GetBufferAmount
  <2> QED  BY <1>2, <2>1 DEF vars, endVars, IInv, Types, Ending, Fits, Written, Copied
<1> QED  BY <1>1, <1>2

\* For every ring and callback, what either thread has seen of the other's
\* count still holds when it uses it.
THEOREM RingInvariant == Spec => []IInv
<1> QED  BY InitHolds, StepKeeps, PTL DEF Spec

\* The types of every behaviour.
THEOREM RingTypes == Spec => []TypeOK
<1>1. IInv => TypeOK
  <2> SUFFICES ASSUME IInv  PROVE TypeOK
    OBVIOUS
  <2>1. /\ emu.count \in 0 .. MaxCount /\ emu.len \in Nat /\ emu.len <= emu.count
        /\ emu.done \in Nat /\ audio.len \in 0 .. Chunk
        /\ emu.at \in EmuPlaces /\ audio.at \in AudioPlaces
        /\ audio.out \in Seq(0 .. Modulus - 1)
    BY Sizes DEF IInv, Types, Numbers
  <2>2. emu.len \in 0 .. emu.count
    BY <2>1, Sizes
  <2> QED  BY <2>1, <2>2 DEF IInv, Types, Ending, TypeOK, Numbers, EmuPlaces, AudioPlaces
<1> QED  BY <1>1, RingInvariant, PTL

\* AudioBuffer.h:32: for every ring and speed, once AddSamples has found room
\* none of its samples is dropped.
THEOREM NoSampleDropped == Spec => []NothingClipped
<1>1. IInv => NothingClipped
  BY DEF IInv, Fits, NothingClipped
<1> QED  BY <1>1, RingInvariant, PTL

\* PlatformAudio.cpp:128: the buffers and the semaphore are freed after the
\* last callback that uses them.
THEOREM CallbacksEndFirst == Spec => []BuffersOutliveCallbacks
<1>1. IInv => BuffersOutliveCallbacks
  BY DEF IInv, Ending, BuffersOutliveCallbacks
<1> QED  BY <1>1, RingInvariant, PTL

-----------------------------------------------------------------------------
\* The ring as a pipe.

Taken == IF audio.at \in {"signal", "post"} THEN audio.out ELSE << >>

LEMMA SameSequence ==
    ASSUME NEW S, NEW s \in Seq(S), NEW t \in Seq(S), Len(s) = Len(t),
           \A i \in 1 .. Len(s) : s[i] = t[i]
    PROVE  s = t
  OBVIOUS

LEMMA Joined ==
    ASSUME NEW S, NEW s \in Seq(S), NEW t \in Seq(S)
    PROVE  /\ s \o t \in Seq(S) /\ Len(s \o t) = Len(s) + Len(t)
           /\ \A i \in 1 .. Len(s) + Len(t) :
                (s \o t)[i] = IF i <= Len(s) THEN s[i] ELSE t[i - Len(s)]
  OBVIOUS

WaitingFrom ==
    /\ Waiting \in Seq(Numbers) /\ Len(Waiting) = GetBufferAmount
    /\ \A i \in 1 .. GetBufferAmount : Waiting[i] = RingBuffer[Slot(ReadCount, i - 1)]

LEMMA WaitingValue ==
    IInv => WaitingFrom
<1> SUFFICES ASSUME IInv  PROVE WaitingFrom
  OBVIOUS
<1>1. GetBufferAmount \in Nat /\ GetBufferAmount <= Modulus
  BY Quantities, Sizes
<1>2. ASSUME NEW i \in 1 .. GetBufferAmount
      PROVE  RingBuffer[Slot(ReadCount, i - 1)] \in Numbers
  <2>1. i - 1 \in 0 .. Modulus
    BY <1>1, Sizes
  <2>2. Slot(ReadCount, i - 1) \in 0 .. Length - 1
    BY <2>1, SlotRange DEF IInv, Types
  <2> QED  BY <2>2 DEF IInv, Types
<1> DEFINE a == GetBufferAmount
           f(i) == RingBuffer[Slot(ReadCount, i - 1)]
<1>3. Waiting = [i \in 1 .. a |-> f(i)]
  BY DEF Waiting, Slot
<1>4. a \in Nat /\ \A i \in 1 .. a : f(i) \in Numbers
  BY <1>1, <1>2
<1> HIDE DEF a, f
<1>5. Waiting \in Seq(Numbers) /\ Len(Waiting) = a /\ \A i \in 1 .. a : Waiting[i] = f(i)
  BY <1>3, <1>4
<1> QED  BY <1>5 DEF a, f, WaitingFrom

LEMMA WaitingValueNext == IInv' => WaitingFrom'
  BY WaitingValue, PTL

\* n samples that lie behind WriteCount become waiting samples.
LEMMA PutStep ==
    ASSUME IInv, IInv', NEW n \in Nat, GetBufferAmount' = GetBufferAmount + n,
           ReadCount' = ReadCount, RingBuffer' = RingBuffer,
           \A i \in 0 .. n - 1 : RingBuffer[Slot(WriteCount, i)] = Add(made, i),
           made' = Add(made, n), Taken' = Taken, n > 0
    PROVE  Pipe!PipeNext
<1> DEFINE a == GetBufferAmount
           w == Waiting
           w2 == Waiting'
           new == [i \in 1 .. n |-> (made + i - 1) % Modulus]
<1>1. a \in Nat /\ a + n <= Length /\ Length \in Nat /\ Length < Modulus
  <2>1. GetBufferAmount' <= Length  BY DEF IInv, Fits
  <2> QED  BY <2>1, Quantities, Sizes
<1>2. made \in Int
  BY Sizes DEF IInv, Types, Numbers
<1>3. w \in Seq(Numbers) /\ Len(w) = a
      /\ \A i \in 1 .. a : w[i] = RingBuffer[Slot(ReadCount, i - 1)]
  BY WaitingValue DEF WaitingFrom
<1>4. w2 \in Seq(Numbers) /\ Len(w2) = a + n
      /\ \A i \in 1 .. a + n : w2[i] = RingBuffer[Slot(ReadCount, i - 1)]
  BY WaitingValueNext DEF WaitingFrom
<1>5. new \in Seq(Numbers) /\ Len(new) = n /\ \A i \in 1 .. n : new[i] = Add(made, i - 1)
  <2> DEFINE f(i) == (made + i - 1) % Modulus
  <2>1. ASSUME NEW i \in 1 .. n  PROVE f(i) = Add(made, i - 1) /\ f(i) \in Numbers
    <3>1. i - 1 \in Int /\ made + i - 1 = made + (i - 1)  BY <1>2
    <3>2. f(i) = Add(made, i - 1)  BY <3>1 DEF Add
    <3> QED  BY <3>1, <3>2, <1>2, AddIn
  <2>2. new = [i \in 1 .. n |-> f(i)]
    OBVIOUS
  <2> HIDE DEF f, new
  <2>3. new \in Seq(Numbers) /\ Len(new) = n /\ \A i \in 1 .. n : new[i] = f(i)
    BY <2>1, <2>2
  <2> QED  BY <2>1, <2>3
<1>6. ASSUME NEW i \in 1 .. n  PROVE w2[a + i] = new[i]
  <2> DEFINE j == i - 1
  <2>1. j \in 0 .. n - 1 /\ j \in Nat /\ a + j <= Modulus /\ (a + i) - 1 = a + j
        /\ a + i \in 1 .. a + n
    BY <1>1, Sizes
  <2>2. w2[a + i] = RingBuffer[Slot(ReadCount, a + j)]
    BY <1>4, <2>1
  <2>3. new[i] = Add(made, j)
    BY <1>5
  <2> HIDE DEF j
  <2>4. Slot(WriteCount, j) = Slot(ReadCount, a + j)
    BY <2>1, Behind
  <2> QED  BY <2>1, <2>2, <2>3, <2>4
<1> HIDE DEF w, w2, new, a
<1>7. w2 = w \o new
  <2> DEFINE both == w \o new
  <2>1. both \in Seq(Numbers) /\ Len(both) = a + n
        /\ \A i \in 1 .. a + n : both[i] = IF i <= a THEN w[i] ELSE new[i - a]
    BY <1>3, <1>5, Joined
  <2> HIDE DEF both
  <2>2. ASSUME NEW i \in 1 .. a + n  PROVE w2[i] = both[i]
    <3>1. CASE i <= a
      <4>1. i \in 1 .. a  BY <3>1, <1>1
      <4>2. w2[i] = w[i]  BY <4>1, <1>3, <1>4
      <4> QED  BY <4>2, <3>1, <2>1
    <3>2. CASE i > a
      <4>1. i - a \in 1 .. n /\ a + (i - a) = i
        BY <3>2, <1>1
      <4>2. w2[a + (i - a)] = new[i - a]
        BY <4>1, <1>6
      <4>3. both[i] = new[i - a]
        BY <3>2, <1>1, <2>1
      <4> QED  BY <4>1, <4>2, <4>3
    <3> QED  BY <3>1, <3>2, <1>1
  <2>3. w2 = both
    BY <1>4, <2>1, <2>2, SameSequence
  <2> QED  BY <2>3 DEF both
<1>8. n \in 1 .. Length /\ Len(w) + n <= Length
  BY <1>1, <1>3
<1>9. Pipe!Put(n)
  BY <1>7, <1>8 DEF Pipe!Put, w, w2, new, Add, Taken
<1> QED  BY <1>8, <1>9 DEF Pipe!PipeNext

LEMMA Parts ==
    ASSUME NEW S, NEW s \in Seq(S), NEW n \in 1 .. Len(s)
    PROVE  /\ SubSeq(s, 1, n) \in Seq(S) /\ Len(SubSeq(s, 1, n)) = n
           /\ \A i \in 1 .. n : SubSeq(s, 1, n)[i] = s[i]
           /\ SubSeq(s, n + 1, Len(s)) \in Seq(S)
           /\ Len(SubSeq(s, n + 1, Len(s))) = Len(s) - n
           /\ \A i \in 1 .. Len(s) - n : SubSeq(s, n + 1, Len(s))[i] = s[n + i]
  OBVIOUS

\* A callback takes the oldest samples; one that finds none takes none.
LEMMA TakeStep ==
    ASSUME IInv, IInv', EndRead
    PROVE  Pipe!PipeNext \/ UNCHANGED <<made, Waiting, Taken>>
<1> DEFINE a == GetBufferAmount
           n == audio.len
           out == audio.out
           w == Waiting
           w2 == Waiting'
<1>1. /\ audio.at = "copy" /\ Len(out) = n /\ ReadCount' = Add(ReadCount, n)
      /\ RingBuffer' = RingBuffer /\ WriteCount' = WriteCount /\ made' = made
      /\ audio' = [audio EXCEPT !.at = "signal"]
  BY DEF EndRead, emuVars
<1>2. Taken = << >> /\ Taken' = out
  BY <1>1 DEF Taken, IInv, Types
<1>3. /\ a \in Nat /\ a <= Modulus /\ n \in Nat /\ n <= Chunk /\ n <= a
      /\ out \in Seq(Numbers) /\ ReadCount \in Numbers
  <2>1. n \in Nat /\ n <= Chunk /\ out \in Seq(Numbers) /\ ReadCount \in Numbers
    BY Sizes DEF IInv, Types
  <2>2. a \in Nat /\ a <= Modulus
    BY Quantities, Sizes
  <2>3. n <= a
    BY <1>1 DEF IInv, Fits
  <2> QED  BY <2>1, <2>2, <2>3
<1>4. GetBufferAmount' = a - n
  BY EndReadAmount
<1>5. \A i \in 1 .. n : out[i] = RingBuffer[Slot(ReadCount, i - 1)]
  BY <1>1 DEF IInv, Copied
<1>6. w \in Seq(Numbers) /\ Len(w) = a
      /\ \A i \in 1 .. a : w[i] = RingBuffer[Slot(ReadCount, i - 1)]
  BY WaitingValue DEF WaitingFrom
<1>7. w2 \in Seq(Numbers) /\ Len(w2) = a - n
      /\ \A i \in 1 .. a - n : w2[i] = RingBuffer[Slot(ReadCount', i - 1)]
  BY WaitingValueNext, <1>1, <1>4 DEF WaitingFrom
<1>8. ASSUME NEW i \in 1 .. a - n
      PROVE  Slot(ReadCount', i - 1) = Slot(ReadCount, (n + i) - 1)
  <2> DEFINE j == i - 1
             k == (n + i) - 1
  <2>1. j \in Nat /\ n + j <= Modulus /\ k = n + j
    BY <1>3, Sizes
  <2> HIDE DEF j, k, n
  <2>2. Add(Add(ReadCount, n), j) = Add(ReadCount, n + j)
    BY <2>1, <1>3, AddAdd
  <2>3. Slot(ReadCount', j) = Slot(ReadCount, k)
    BY <1>1, <2>1, <2>2 DEF Slot
  <2> QED  BY <2>3 DEF j, k
<1> HIDE DEF a, n, out, w, w2
<1>9. CASE n = 0
  <2>1. out = << >>
    BY <1>1, <1>3, <1>9
  <2>2. \A i \in 1 .. a : w2[i] = w[i]
    BY <1>6, <1>7, <1>8, <1>9, <1>3
  <2>3. w2 = w
    BY <1>3, <1>6, <1>7, <1>9, <2>2, SameSequence
  <2> QED  BY <1>1, <1>2, <2>1, <2>3 DEF w, w2
<1>10. CASE n # 0
  <2> DEFINE front == SubSeq(w, 1, n)
             back == SubSeq(w, n + 1, Len(w))
  <2>1. n \in 1 .. Len(w) /\ n \in 1 .. Chunk
    BY <1>3, <1>6, <1>10, Sizes
  <2>2. /\ front \in Seq(Numbers) /\ Len(front) = n /\ \A i \in 1 .. n : front[i] = w[i]
    BY <1>6, <2>1, Parts
  <2>3. /\ back \in Seq(Numbers) /\ Len(back) = a - n
        /\ \A i \in 1 .. a - n : back[i] = w[n + i]
    BY <1>6, <2>1, Parts
  <2> HIDE DEF front, back
  <2>4. out = front
    <3>1. ASSUME NEW i \in 1 .. n  PROVE out[i] = front[i]
      <4>1. i \in 1 .. a  BY <1>3
      <4>2. w[i] = RingBuffer[Slot(ReadCount, i - 1)]  BY <4>1, <1>6
      <4> QED  BY <4>2, <1>5, <2>2
    <3> QED  BY <3>1, <1>1, <1>3, <2>2, SameSequence
  <2>5. w2 = back
    <3>1. ASSUME NEW i \in 1 .. a - n  PROVE w2[i] = back[i]
      <4>1. n + i \in 1 .. a  BY <1>3
      <4>2. w[n + i] = RingBuffer[Slot(ReadCount, (n + i) - 1)]
        <5> DEFINE k == n + i
        <5>1. k \in 1 .. a  BY <4>1
        <5> HIDE DEF k
        <5>2. w[k] = RingBuffer[Slot(ReadCount, k - 1)]  BY <5>1, <1>6
        <5> QED  BY <5>2 DEF k
      <4>3. w2[i] = RingBuffer[Slot(ReadCount, (n + i) - 1)]
        BY <1>7, <1>8
      <4> QED  BY <4>2, <4>3, <2>3
    <3> QED  BY <3>1, <1>7, <2>3, SameSequence
  <2>6. Pipe!Take(n)
    BY <1>1, <1>2, <2>1, <2>4, <2>5 DEF Pipe!Take, Taken, w, w2, front, back
  <2> QED  BY <2>1, <2>6 DEF Pipe!PipeNext
<1> QED  BY <1>9, <1>10

\* The copy into the ring lies beyond the samples that wait.
LEMMA CopyInStep ==
    ASSUME IInv, IInv', CopyIn
    PROVE  UNCHANGED <<made, Waiting, Taken>>
<1> DEFINE a == GetBufferAmount
           w == Waiting
           w2 == Waiting'
<1>1. GetBufferAmount' = a /\ ReadCount' = ReadCount /\ made' = made /\ audio' = audio
  BY DEF CopyIn, GetBufferAmount
<1>2. w \in Seq(Numbers) /\ Len(w) = a
      /\ \A i \in 1 .. a : w[i] = RingBuffer[Slot(ReadCount, i - 1)]
  BY WaitingValue DEF WaitingFrom
<1>3. w2 \in Seq(Numbers) /\ Len(w2) = a
      /\ \A i \in 1 .. a : w2[i] = RingBuffer'[Slot(ReadCount, i - 1)]
  BY WaitingValueNext, <1>1 DEF WaitingFrom
<1>4. \A i \in 1 .. a : w2[i] = w[i]
  BY <1>2, <1>3, WaitingKept
<1> HIDE DEF a, w, w2
<1>5. w2 = w
  BY <1>2, <1>3, <1>4, SameSequence
<1> QED  BY <1>1, <1>5 DEF w, w2, Taken

\* Every step of the two threads is a step of the pipe or leaves it alone.
LEMMA PipeStep == IInv /\ IInv' /\ [Next]_vars => [Pipe!PipeNext]_<<made, Waiting, Taken>>
<1> SUFFICES ASSUME IInv, IInv', Next \/ UNCHANGED vars
             PROVE  Pipe!PipeNext \/ UNCHANGED <<made, Waiting, Taken>>
  OBVIOUS
<1>1. ASSUME UNCHANGED <<RingBuffer, ReadCount, WriteCount, made>>, Taken' = Taken
      PROVE  UNCHANGED <<made, Waiting, Taken>>
  BY <1>1 DEF Waiting, GetBufferAmount
<1>2. CASE UNCHANGED vars
  BY <1>1, <1>2 DEF vars, Taken
<1>3. ASSUME NEW speed \in Speeds, SetSpeed(speed)  PROVE UNCHANGED <<made, Waiting, Taken>>
  BY <1>1, <1>3 DEF SetSpeed, Taken
<1>4. ASSUME NEW count \in 0 .. MaxCount, AddSamples(count)
      PROVE  UNCHANGED <<made, Waiting, Taken>>
  BY <1>1, <1>4 DEF AddSamples, Taken
<1>5. CASE Shutdown \/ CheckRoom \/ Wait \/ ClipWrite \/ CloseStream \/ KillThread
             \/ DeleteSemaphore \/ MultiStreamCloses
  BY <1>1, <1>5 DEF Shutdown, CheckRoom, Wait, ClipWrite, CloseStream, KillThread, DeleteSemaphore,
                   MultiStreamCloses, emuVars, Taken
<1>6. CASE CopyIn
  BY <1>6, CopyInStep
<1>7. CASE CountSample
  <2>1. /\ ReadCount' = ReadCount /\ RingBuffer' = RingBuffer /\ Taken' = Taken
        /\ made' = Add(made, 1) /\ emu.at = "count"
    BY <1>7 DEF CountSample, Add, Taken
  <2>2. \A i \in 0 .. 1 - 1 : RingBuffer[Slot(WriteCount, i)] = Add(made, i)
    <3>1. \A i \in 0 .. 1 - 1 : i = 0  OBVIOUS
    <3>2. RingBuffer[Slot(WriteCount, 0)] = Add(made, 0)  BY <2>1 DEF IInv, Written
    <3> QED  BY <3>1, <3>2
  <2>3. GetBufferAmount' = GetBufferAmount + 1
    BY <1>7, CountSampleAmount
  <2>4. Pipe!PipeNext
    BY <2>1, <2>2, <2>3, PutStep
  <2> QED  BY <2>4
<1>8. CASE EndWrite
  <2>1. PICK n \in Nat :
          /\ n = IF InputSpeed = 1 THEN emu.len ELSE 0
          /\ GetBufferAmount' = GetBufferAmount + n
          /\ WriteCount' = Add(WriteCount, n) /\ made' = Add(made, n)
          /\ emu.at = "copy" /\ (InputSpeed = 1 => emu.done = n)
    BY <1>8, EndWriteAmount
  <2>2. ReadCount' = ReadCount /\ RingBuffer' = RingBuffer /\ Taken' = Taken
    BY <1>8 DEF EndWrite, Taken
  <2>3. CASE n = 0
    <3>1. WriteCount \in Numbers /\ made \in Numbers /\ 0 \in 0 .. Modulus
      BY Sizes DEF IInv, Types
    <3>2. Add(WriteCount, 0) = WriteCount /\ Add(made, 0) = made
      <4>1. ASSUME NEW c \in Numbers  PROVE Add(c, 0) = c
        <5>1. Add(c, 0) = IF c + 0 < Modulus THEN c + 0 ELSE c + 0 - Modulus
          BY <3>1, AddValue
        <5>2. c \in Nat /\ c < Modulus  BY Sizes DEF Numbers
        <5> QED  BY <5>1, <5>2
      <4> QED  BY <3>1, <4>1
    <3> QED  BY <1>1, <2>1, <2>2, <2>3, <3>2
  <2>4. CASE n # 0
    <3>1. n > 0 /\ InputSpeed = 1 /\ emu.done = n  BY <2>1, <2>4
    <3>2. \A i \in 0 .. n - 1 : RingBuffer[Slot(WriteCount, i)] = Add(made, i)
      BY <2>1, <3>1 DEF IInv, Written
    <3>3. Pipe!PipeNext
      BY <2>1, <2>2, <3>1, <3>2, PutStep
    <3> QED  BY <3>3
  <2> QED  BY <2>3, <2>4
<1>9. CASE MoreData \/ CopyOut \/ FinishStream \/ ThreadEnds
  <2>1. UNCHANGED <<RingBuffer, ReadCount, WriteCount, made>>
    BY <1>9 DEF MoreData, CopyOut, FinishStream, ThreadEnds, emuVars
  <2>2. Taken' = Taken
    BY <1>9 DEF MoreData, CopyOut, FinishStream, ThreadEnds, Taken, IdleAudio, IInv, Types
  <2> QED  BY <1>1, <2>1, <2>2
<1>10. CASE EndRead
  BY <1>10, TakeStep
<1>11. CASE SignalFeeder \/ Post
  <2>1. UNCHANGED <<RingBuffer, ReadCount, WriteCount, made>>
    BY <1>11 DEF SignalFeeder, Post, emuVars
  <2>2. Waiting' = Waiting
    BY <2>1 DEF Waiting, GetBufferAmount
  <2>3. Taken' = Taken \/ Taken' = << >>
    BY <1>11 DEF SignalFeeder, Post, Taken, IdleAudio, IInv, Types
  <2>4. CASE Taken' = Taken  BY <2>1, <2>2, <2>4
  <2>5. CASE Taken' = << >>
    <3>1. Pipe!Heard
      BY <2>1, <2>2, <2>5 DEF Pipe!Heard, Taken
    <3> QED  BY <3>1 DEF Pipe!PipeNext
  <2> QED  BY <2>3, <2>4, <2>5
<1> QED
  BY <1>2, <1>3, <1>4, <1>5, <1>6, <1>7, <1>8, <1>9, <1>10, <1>11
     DEF Next, EmuStep, AudioStep

\* AudioBuffer.h:47 and 101: without a lock, with counts that wrap and with
\* samples skipped, the device gets the samples of the game once and in order.
THEOREM RingIsPipe == Spec => ImplementsPipe
<1>1. Init => Pipe!PipeInit
  <2> SUFFICES ASSUME Init  PROVE Pipe!PipeInit
    OBVIOUS
  <2>1. IInv
    BY InitHolds
  <2>2. GetBufferAmount = 0
    BY Sizes DEF Init, GetBufferAmount
  <2>3. Waiting \in Seq(Numbers) /\ Len(Waiting) = 0
    BY <2>1, <2>2, WaitingValue DEF WaitingFrom
  <2>4. Waiting = << >>
    BY <2>3
  <2> QED  BY <2>4 DEF Init, IdleAudio, Pipe!PipeInit
<1>2. IInv /\ IInv' /\ [Next]_vars => [Pipe!PipeNext]_(Pipe!pipeVars)
  BY PipeStep DEF Pipe!pipeVars, Taken
<1> QED  BY <1>1, <1>2, RingInvariant, PTL DEF Spec, ImplementsPipe, Pipe!PipeSpec

=============================================================================
