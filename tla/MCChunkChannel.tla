--------------------------- MODULE MCChunkChannel ---------------------------
(***************************************************************************)
(* A small instance of ChunkChannel: an 8-tick clock whose fields of 4 and *)
(* more need the extended timestamp, messages of zero, one and two chunks, *)
(* two types on one chunk stream and two message streams.                  *)
(***************************************************************************)
EXTENDS ChunkChannel

Msg(t, s, time, n) == [type |-> t, msid |-> s, ts |-> time, len |-> n]

\* Audio at 0, 5 and 2 = 5 + 5 (mod 8): the same extended delta twice.
\* Type 20 and 17 share chunk stream 6.
MCMessages == {Msg(8, 1, 0, 3), Msg(8, 1, 5, 3), Msg(8, 1, 2, 3),
               Msg(20, 0, 1, 0), Msg(17, 1, 3, 1)}
=============================================================================
