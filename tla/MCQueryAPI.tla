----------------------------- MODULE MCQueryAPI -----------------------------
(* A small instance of QueryAPI for TLC. *)
EXTENDS QueryAPI, TLC

CONSTANTS h1, h2, j1, j2

(* Two ticks to the microsecond; two rows tie, and the                      *)
(* budget of the configuration holds two rows but not three.                *)
MCRows == {[id |-> 1, gpu |-> 1, at |-> 2], [id |-> 2, gpu |-> 1, at |-> 1],
           [id |-> 3, gpu |-> 1, at |-> 2]}

Query(g, s, e) == [gpu |-> g, start |-> s, end |-> e]

(* From and up to the middle of a microsecond, each with a row just outside *)
(* and one inside; without bounds, a reversed range, and the list.  GPU 1   *)
(* is unknown until its first row.                                          *)
MCQueries == {Query(1, 3, 5), Query(1, NoBound, 3), Query(1, NoBound, NoBound),
              Query(1, 3, 2), Query(0, NoBound, NoBound)}

MCChecksum == [r \in Runners |-> IF r = j1 THEN "a" ELSE "b"]

MCSymmetry == Permutations(Handlers)

=============================================================================
