-------------------------- MODULE MCRequestManager --------------------------
(* One requester after another request, two callback threads, two cells.   *)
EXTENDS RequestManager

CONSTANTS r1, b1, b2, fw, m1, m2

MCRequester == {r1}
MCCallback == {b1, b2}
MCCell == {m1, m2}
=============================================================================
