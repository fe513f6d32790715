----------------------------- MODULE AudioPipe -----------------------------
(***************************************************************************)
(* What the sound buffer promises, with its ring, its counters and its     *)
(* threads left out: the samples the game has made reach the device once,  *)
(* in the order they were made, and none before the game has handed it     *)
(* over.  Samples are numbered as they are made.                           *)
(***************************************************************************)
EXTENDS Naturals, Sequences

CONSTANTS Capacity,   \* samples that can wait
          Chunk,      \* samples the device asks for at a time
          Numbers     \* the numbering is taken modulo Numbers

VARIABLES made,       \* number of the next sample
          queue,      \* samples that wait for the device
          taken       \* what the device has been given by its last call

pipeVars == <<made, queue, taken>>

PipeInit ==
    /\ made = 0
    /\ queue = << >>
    /\ taken = << >>

\* The game hands over n samples; there is always room for them.
Put(n) ==
    /\ Len(queue) + n <= Capacity
    /\ queue' = queue \o [i \in 1 .. n |-> (made + i - 1) % Numbers]
    /\ made' = (made + n) % Numbers
    /\ UNCHANGED taken

\* The device takes the n oldest samples.
Take(n) ==
    /\ taken = << >>
    /\ n <= Len(queue)
    /\ taken' = SubSeq(queue, 1, n)
    /\ queue' = SubSeq(queue, n + 1, Len(queue))
    /\ UNCHANGED made

\* It has put them out.
Heard ==
    /\ taken' = << >>
    /\ UNCHANGED <<made, queue>>

PipeNext ==
    \/ \E n \in 1 .. Capacity : Put(n)
    \/ \E n \in 1 .. Chunk : Take(n)
    \/ Heard

PipeSpec == PipeInit /\ [][PipeNext]_pipeVars
=============================================================================
