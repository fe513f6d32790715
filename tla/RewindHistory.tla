--------------------------- MODULE RewindHistory ---------------------------
(***************************************************************************)
(* What state rewinding promises, with its ring, its compression and the   *)
(* movie file left out: an undo history of at most Depth frames, kept      *)
(* while rewinding is on, of a game that always is in a state it has       *)
(* really been in or is moving to.                                         *)
(*                                                                         *)
(* A state of the game is the sequence of inputs that leads to it: the     *)
(* most telling deterministic machine there is.  A moment is the state a   *)
(* frame starts from followed by the input that waits at its ports.        *)
(***************************************************************************)
EXTENDS Naturals, Sequences, SequencesExt

CONSTANTS Commands,   \* simple commands: reset, power, insert coin...
          Polls,      \* the sequences of inputs a frame may poll
          Depth       \* frames the history keeps

VARIABLES game,       \* the state of the game
          saved,      \* the user's save state
          on,         \* rewinding is on
          moments     \* the history, oldest first

historyVars == <<game, saved, on, moments>>

HistoryInit ==
    /\ game = << >>
    /\ saved = << >>
    /\ on = FALSE
    /\ moments = << >>

\* The latest Depth members of a history.
Latest(h) == IF Len(h) > Depth THEN Tail(h) ELSE h

\* A frame that is remembered.
Remember(polled) ==
    /\ on
    /\ moments' = Latest(Append(moments, Append(game, Head(polled))))
    /\ game' = game \o polled
    /\ UNCHANGED <<saved, on>>

\* A frame that is not: rewinding is off, or the frame was to run backwards
\* and there is nothing to go back to.
Forget(polled) ==
    /\ ~on \/ moments = << >>
    /\ game' = game \o polled
    /\ UNCHANGED <<saved, on, moments>>

\* A frame run backwards: the latest moment is dropped, the one before it is
\* restored, and its frame runs again.  The oldest moment is never dropped.
GoBack(polled) ==
    /\ on /\ moments # << >>
    /\ moments' = IF Len(moments) > 1 THEN Front(moments) ELSE moments
    /\ Head(polled) = Last(Last(moments'))
    /\ game' = Last(moments') \o Tail(polled)
    /\ UNCHANGED <<saved, on>>

\* Between two frames: the history stays as it is.
Command(cmd) ==
    /\ game' = Append(game, cmd)
    /\ UNCHANGED <<saved, on, moments>>

Save ==
    /\ saved' = game
    /\ UNCHANGED <<game, on, moments>>

Load ==
    /\ game' = saved
    /\ UNCHANGED <<saved, on, moments>>

\* Rewinding is switched on or off, and its history forgotten.
Switch ==
    /\ on' \in BOOLEAN
    /\ moments' = << >>
    /\ UNCHANGED <<game, saved>>

HistoryNext ==
    \/ \E polled \in Polls : Remember(polled) \/ Forget(polled) \/ GoBack(polled)
    \/ \E cmd \in Commands : Command(cmd)
    \/ Save
    \/ Load
    \/ Switch

HistorySpec == HistoryInit /\ [][HistoryNext]_historyVars
=============================================================================
