------------------------------- MODULE MCIde -------------------------------
(* Instances of Ide for TLC: drive 0 on the primary bus, drive 2 on the    *)
(* secondary one, each of 4 sectors.                                       *)
EXTENDS Ide, TLC

MCDrives == 0 :> [exist |-> TRUE, bus |-> 0, sectors |-> 4]
            @@ 1 :> [exist |-> FALSE, bus |-> 0, sectors |-> 0]
            @@ 2 :> [exist |-> TRUE, bus |-> 1, sectors |-> 4]

Args(d, s, n) == [drive |-> d, start |-> s, sector_count |-> n, size |-> n * SECTOR_SIZE]

\* The boundary of a drive: one sector too many, one past the end, a drive that
\* is not there.
OutOfRange == <<Args(0, 3, 2), Args(0, 4, 1), Args(1, 0, 1)>>

\* Three requests for one bus, one for the other.
TwoBuses == <<Args(0, 0, 2), Args(0, 2, 2), Args(0, 3, 1), Args(2, 3, 1)>>
MCIo == Append(TwoBuses, OutOfRange[1])
RaceIo == SubSeq(TwoBuses, 1, 3) \o OutOfRange

\* Behaviours are followed until a request is lost, and as long as they use the third
\* request for one bus alone or two requests with the other bus and failed transfers.
Used(r) == r \in pending \/ outcome[r] # "none"
Followed == ~raced /\ (Used(3) => ~Used(4) /\ errs = 0)
=============================================================================
