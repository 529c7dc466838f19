------------------------------ MODULE MCRxLine ------------------------------
(* RxLine on small buffers for TLC: of two characters for a line, of one for *)
(* the caller.  A line of one character fits, one of two is truncated, one   *)
(* of four leaves its tail.                                                  *)
EXTENDS RxLine

MCScripts == {<<1, 4, 2>>, <<2, 1, 4>>, <<4, 2, 1>>}
=============================================================================
