------------------------------- MODULE MCPipe -------------------------------
(***************************************************************************)
(* A pipe of two bytes with two readers and a writer, or with a reader and *)
(* two writers.                                                            *)
(***************************************************************************)
EXTENDS Pipe

CONSTANTS r1, r2, w1, w2

MCShared == {{r1, r2, w1}, {r1, w1, w2}}

=============================================================================
