----------------------------- MODULE MCHttpRead -----------------------------
(***************************************************************************)
(* HttpRead for TLC: blank lines of either form before, at and behind the   *)
(* limit of the head, lengths below, at and above the limit of the body,    *)
(* and streams that end in the head, in the body, with it or behind it.     *)
(***************************************************************************)
EXTENDS HttpRead

MCRequests ==
  {r \in [crlf : {0, 2, 4, 6}, lf : {0, 1, 3, 5}, clen : 0 .. 4, line : BOOLEAN, length : 0 .. 9] :
     r.line \/ (r.clen = 0 /\ r.length = 9)}
=============================================================================
