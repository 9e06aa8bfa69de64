---------------------------- MODULE MCMediaRows ----------------------------
(* Two rooms with an image in common and one of their own each: enough for *)
(* an image to push another out of the disk cache, out of the decode cache *)
(* and out of its place among the rows that play.                          *)
EXTENDS MediaRows
MCRooms == {{1, 2}, {2, 3}}
MCSize == [s \in 1..3 |-> IF s = 3 THEN 2 ELSE 1]
=============================================================================
