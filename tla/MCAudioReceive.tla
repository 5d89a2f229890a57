---------------------------- MODULE MCAudioReceive ----------------------------
(* Numbers on both sides of every limit of util.c, for TLC. *)
EXTENDS AudioReceive

\* Bytes i to 8: the top one, and the others alike.
Top(i, top, fill) == [k \in 1 .. 8 |-> IF k < i THEN 0 ELSE IF k = i THEN top ELSE fill]

Limits == {Top(8, 0, 0), Top(8, 127, 0), Top(8, 128, 0), Top(7, 63, 255), Top(7, 64, 0),
           Top(6, 31, 255), Top(6, 32, 0), Top(5, 15, 255), Top(5, 16, 0),
           Top(5, 127, 255), Top(5, 128, 0), Top(4, 1, 0),
           [Top(4, 1, 0) EXCEPT ![5] = 128], Top(1, 255, 255)}

Sessions == {Top(8, 3, 0), Top(7, 64, 0)}

\* A ping's answer, one with the marker of a negative number, a ping's type with
\* a target, Opus with that marker as its source, with a small negative one, and
\* with a length that is cut off.
Garbled == {<<32, 7>>, <<32, 248>>, <<33>>, <<128, 248>>, <<128, 252, 5>>, <<128, 1, 128, 200>>}
===============================================================================
