------------------------------- MODULE MCBio -------------------------------
(***************************************************************************)
(* Two processes, four blocks and three buffers, one of which a           *)
(* transaction may pin: a buffer is recycled while others are busy, pinned *)
(* or waiting for the disk.  Both processes use block b1.                  *)
(***************************************************************************)
EXTENDS Bio, TLC

CONSTANTS p1, p2, b1, b2, b3, b4

MCProc == {p1, p2}
MCBlock == {b1, b2, b3, b4}
MCReads == p1 :> {b1, b2, b3} @@ p2 :> {b1, b4}

=============================================================================
