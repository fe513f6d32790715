---------------------------- MODULE DiscService ----------------------------
(***************************************************************************)
(* What the CD interface promises to its caller, the emulated CD drive,    *)
(* with its second thread, its queues and its sector buffer left out.  A   *)
(* session is opened on some disc, serves one read at a time, and is       *)
(* closed.  A raw read (CDIF_ReadRawSector) below the lead-out always      *)
(* succeeds, with the sector asked for or, if it is a bad one, perhaps     *)
(* with zeros.  A data read (CDIF_ReadSector) succeeds only with every     *)
(* sector asked for, in order and none of them blank, and fails only for   *)
(* a reason to be found on the disc.  Every call returns.                  *)
(***************************************************************************)
EXTENDS Naturals, Sequences

CONSTANTS Discs,       \* records: leadout, the mode byte of each sector, the bad sectors
          Blank,       \* the zeroed contents that stand for a failed read
          NoDisc       \* no disc is open

VARIABLES phase,       \* closed, opening, idle, busy or closing
          disc,        \* the disc of the session
          request,     \* the latest read: first LBA, length, kind
          got,         \* the sectors it returned
          status       \* none, ok or failed

serviceVars == <<phase, disc, request, got, status>>

Sector(d, lba) == <<d, lba>>

ServiceInit ==
    /\ phase = "closed"
    /\ disc = NoDisc
    /\ request = [first |-> 0, sectors |-> 0, cooked |-> FALSE]
    /\ got = << >>
    /\ status = "none"

Open ==
    /\ phase = "closed"
    /\ phase' = "opening"
    /\ UNCHANGED <<disc, request, got, status>>

Opened ==
    /\ phase = "opening"
    /\ phase' = "idle"
    /\ disc' \in Discs
    /\ UNCHANGED <<request, got, status>>

OpenFailed ==
    /\ phase = "opening"
    /\ phase' = "closed"
    /\ UNCHANGED <<disc, request, got, status>>

Requests == [first : Nat, sectors : Nat \ {0}, cooked : BOOLEAN]

Request ==
    /\ phase = "idle"
    /\ request' \in Requests
    /\ request'.first < disc.leadout
    /\ phase' = "busy"
    /\ status' = "none"
    /\ got' = << >>
    /\ UNCHANGED disc

Refuse ==
    /\ phase = "idle"
    /\ request' \in Requests
    /\ request'.first >= disc.leadout
    /\ status' = "failed"
    /\ got' = << >>
    /\ UNCHANGED <<phase, disc>>

\* The contents a raw read of one sector, and a data read, may return.
RawContents(lba) ==
    IF lba \in disc.bad THEN {Sector(disc, lba), Blank} ELSE {Sector(disc, lba)}
Contents(lba) == IF request.cooked THEN {Sector(disc, lba)} ELSE RawContents(lba)

Succeed ==
    /\ phase = "busy"
    /\ phase' = "idle"
    /\ status' = "ok"
    /\ Len(got') = request.sectors
    /\ \A i \in 1 .. request.sectors : got'[i] \in Contents(request.first + (i - 1))
    /\ UNCHANGED <<disc, request>>

\* A sector a data read cannot return: past the end, bad, or not of mode 1 or 2.
Unreadable(lba) ==
    \/ lba >= disc.leadout
    \/ lba \in disc.bad
    \/ disc.mode[lba] \notin {1, 2}

Fail ==
    /\ phase = "busy"
    /\ request.cooked
    /\ \E i \in 1 .. request.sectors : Unreadable(request.first + (i - 1))
    /\ phase' = "idle"
    /\ status' = "failed"
    /\ UNCHANGED <<disc, request, got>>

Close ==
    /\ phase = "idle"
    /\ phase' = "closing"
    /\ UNCHANGED <<disc, request, got, status>>

Closed ==
    /\ phase = "closing"
    /\ phase' = "closed"
    /\ disc' = NoDisc
    /\ UNCHANGED <<request, got, status>>

ServiceNext ==
    \/ Open \/ Opened \/ OpenFailed
    \/ Request \/ Refuse \/ Succeed \/ Fail
    \/ Close \/ Closed

ServiceSpec == ServiceInit /\ [][ServiceNext]_serviceVars

\* Every call returns: an open, a read and a close each come to an end.
CallsReturn ==
    /\ (phase = "opening") ~> (phase \in {"idle", "closed"})
    /\ (phase = "busy") ~> (phase = "idle")
    /\ (phase = "closing") ~> (phase = "closed")
=============================================================================
