---------------------------- MODULE MCHashCache ----------------------------
(* Two cached spaces and one that is not, and three inputs for a cache of   *)
(* two: keys that differ in the last byte, in the page, or in the space.    *)
EXTENDS HashCache

CONSTANTS s1, s2, s3, p1, p2, b1, b2

At3(s, p, b) == [space |-> s, page |-> p, last |-> b]

MCRequest ==
  {At3(s1, p1, b1), At3(s1, p1, b2), At3(s1, p2, b1), At3(s2, p1, b1), At3(s3, p1, b1)}
=============================================================================
