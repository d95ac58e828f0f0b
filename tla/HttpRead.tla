------------------------------ MODULE HttpRead ------------------------------
(***************************************************************************)
(* read_http_request and the frame of client_main (src/server/o1_server.c): *)
(* one request is read from a socket that hands over as few or as many of   *)
(* the bytes sent as it likes.                                              *)
(*                                                                          *)
(* Of the bytes a peer may send this matters: after how many of them the    *)
(* first CRLF CRLF ends (`crlf`) and after how many the first LF LF (`lf`), *)
(* 0 where there is none; what content_length finds (`clen`, 0 when absent  *)
(* or malformed); whether the first line has a method and a path (`line`);  *)
(* and how many bytes there are in all (`length`).                          *)
(***************************************************************************)
EXTENDS Integers

CONSTANTS
  Requests,   \* what a peer may be about to send
  MaxHead,    \* O1_SERVER_MAX_HEADER_BYTES, 65536
  HeadChunk,  \* the buffer of a recv in the head, 4096
  BodyChunk,  \* in the body, 8192
  DrainChunk, \* while draining, 65536
  MaxBody     \* g_cfg.max_body

Request == [crlf : Nat, lf : Nat, clen : Nat, line : BOOLEAN, length : Nat]

ASSUME RequestsAssumption == Requests \subseteq Request
ASSUME LimitsAssumption ==
  /\ MaxHead \in Nat \ {0} /\ MaxBody \in Nat
  /\ HeadChunk \in Nat \ {0} /\ BodyChunk \in Nat \ {0} /\ DrainChunk \in Nat \ {0}

VARIABLES
  request, \* what the peer sends
  sent,    \* how many bytes of it have reached the socket
  open,    \* the peer has not shut its side
  pc,      \* where the thread is
  len,     \* b.len
  hend,    \* hend
  drained, \* bytes thrown away: remaining is clen - drained
  held     \* the copies of the header values exist

peerVars == <<request, sent, open>>
vars == <<peerVars, pc, len, hend, drained, held>>

Reading == {"head", "body", "drain"}

PC == Reading \cup {"parse", "ok", "malformed", "too_large", "closed"}

Init ==
  /\ request \in Requests /\ sent = 0 /\ open = TRUE
  /\ pc = "head" /\ len = 0 /\ hend = -1 /\ drained = 0 /\ held = FALSE

\* Bytes the thread has taken from the socket.
Taken == len + drained

\* The variables have their types, nothing is taken that was not sent, and the
\* buffer of one request costs no more memory than the limits allow.
TypeOK ==
  /\ request \in Requests /\ sent \in 0 .. request.length /\ open \in BOOLEAN
  /\ pc \in PC /\ len \in Nat /\ hend \in Nat \cup {-1}
  /\ drained \in 0 .. request.clen /\ held \in BOOLEAN
  /\ Taken <= sent
  /\ len < MaxHead + HeadChunk \/ len < hend + MaxBody + BodyChunk

Goto(label) == pc' = label

-----------------------------------------------------------------------------
\* The peer sends on.
Send ==
  /\ open /\ pc \in Reading
  /\ sent' \in sent + 1 .. request.length
  /\ UNCHANGED <<request, open, pc, len, hend, drained, held>>

\* The peer shuts its side, with all sent or in the middle.
Shut ==
  /\ open /\ pc \in Reading
  /\ open' = FALSE
  /\ UNCHANGED <<request, sent, pc, len, hend, drained, held>>

\* recv with room for `room` bytes returns n of those that have come.
Recv(n, room) == n \in 1 .. room /\ Taken + n <= sent

\* Mutant: only the CRLF form is looked for.
HeaderEndStrict(n) ==
  IF request.crlf \in 1 .. n THEN request.crlf ELSE -1

\* header_end on the first n bytes: CRLF CRLF anywhere comes before LF LF.
HeaderEnd(n) ==
  IF request.crlf \in 1 .. n THEN request.crlf
  ELSE IF request.lf \in 1 .. n THEN request.lf ELSE -1

\* A piece of the head; the loop ends at its blank line or at the limit.
RecvHead ==
  /\ pc = "head"
  /\ \E n \in 1 .. HeadChunk : Recv(n, HeadChunk) /\ len' = len + n
  /\ hend' = HeaderEnd(len')
  /\ Goto(IF hend' >= 0 THEN "parse" ELSE IF len' < MaxHead THEN "head" ELSE "malformed")
  /\ UNCHANGED <<peerVars, drained, held>>

\* Mutant: the body is taken to be what has come with the head.
ParseShort ==
  /\ pc = "parse"
  /\ held' = request.line
  /\ Goto(IF ~request.line THEN "malformed"
          ELSE IF request.clen > MaxBody THEN "drain" ELSE "ok")
  /\ UNCHANGED <<peerVars, len, hend, drained>>

\* Mutant: a body that is too large is left where it is.
ParseNoDrain ==
  /\ pc = "parse"
  /\ held' = request.line
  /\ Goto(CASE ~request.line              -> "malformed"
            [] request.clen > MaxBody     -> "too_large"
            [] len < hend + request.clen  -> "body"
            [] OTHER                      -> "ok")
  /\ UNCHANGED <<peerVars, len, hend, drained>>

\* The request line, the header values, the length and what follows from it.
Parse ==
  /\ pc = "parse"
  /\ held' = request.line
  /\ Goto(IF ~request.line THEN "malformed"
          ELSE IF request.clen > MaxBody THEN "drain"
          ELSE IF len < hend + request.clen THEN "body" ELSE "ok")
  /\ UNCHANGED <<peerVars, len, hend, drained>>

\* A piece of the body, perhaps with bytes behind it.
RecvBody ==
  /\ pc = "body"
  /\ \E n \in 1 .. BodyChunk : Recv(n, BodyChunk) /\ len' = len + n
  /\ Goto(IF len' < hend + request.clen THEN "body" ELSE "ok")
  /\ UNCHANGED <<peerVars, hend, drained, held>>

\* A piece of a body that is too large.  The whole length is drained, although
\* some of the body came with the head.
RecvDrain ==
  /\ pc = "drain"
  /\ \E n \in 1 .. DrainChunk : Recv(n, request.clen - drained) /\ drained' = drained + n
  /\ Goto(IF drained' < request.clen THEN "drain" ELSE "too_large")
  /\ UNCHANGED <<peerVars, len, hend, held>>

\* Mutant: a recv that times out is tried again.
RecvFailsRetries ==
  /\ pc \in Reading /\ Taken = sent /\ ~open
  /\ Goto(IF pc = "drain" THEN "too_large" ELSE "malformed")
  /\ UNCHANGED <<peerVars, len, hend, drained, held>>

\* recv finds nothing: the peer has shut its side, or O1_SERVER_IO_TIMEOUT_SEC
\* have passed.
RecvFails ==
  /\ pc \in Reading /\ Taken = sent
  /\ Goto(IF pc = "drain" THEN "too_large" ELSE "malformed")
  /\ UNCHANGED <<peerVars, len, hend, drained, held>>

\* client_main: the request is handled and freed, or 400 or 413 is replied and
\* what was read of the request stays behind.
Close ==
  /\ pc \in {"ok", "malformed", "too_large"}
  /\ held' = (held /\ pc # "ok")
  /\ Goto("closed")
  /\ UNCHANGED <<peerVars, len, hend, drained>>

Thread == RecvHead \/ Parse \/ RecvBody \/ RecvDrain \/ RecvFails \/ Close

Peer == Send \/ Shut

Ended == pc = "closed" /\ UNCHANGED vars

Spec == Init /\ [][Thread \/ Peer \/ Ended]_vars

\* A call of recv returns: with bytes, or when the socket's timeout is over.
FairSpec == Spec /\ WF_vars(Thread)
-----------------------------------------------------------------------------
\* The head ends at its first blank line in one way only: a peer that ends its
\* lines with CRLF has no LF LF before it, one that uses LF no CRLF CRLF at all.
Regular == request.crlf = 0 \/ request.lf = 0 \/ request.crlf < request.lf

\* Where a head could end.
Ends == {request.crlf, request.lf} \ {0}

HeadLength == IF request.crlf > 0 THEN request.crlf ELSE request.lf

\* What is handed to the routes is the request the peer sent: its head up to the
\* first blank line and as many bytes behind it as announced, all of them
\* received, however the bytes were cut into pieces.
RequestIsWhatWasSent ==
  pc = "ok" /\ Regular =>
    /\ request.line /\ hend = HeadLength /\ hend > 0
    /\ request.clen <= MaxBody
    /\ hend + request.clen <= len /\ len <= sent

\* A request is refused for a cause the peer has given: no blank line in what it
\* sent or within the limit, no request line, or less of a body than announced;
\* and with 413 only when it announced too much.
RefusedForCause ==
  /\ pc = "malformed" =>
       \/ \A e \in Ends : e > sent
       \/ MaxHead <= len /\ \A e \in Ends : e > len
       \/ ~request.line
       \/ sent < hend + request.clen
  /\ pc = "too_large" => request.line /\ request.clen > MaxBody

\* The 413 is written when everything that came from a peer that sends no more
\* than it announced has been read: bytes left unread would turn the close into
\* a reset that destroys the reply.
DrainTakesAll ==
  pc = "too_large" /\ request.length <= hend + request.clen => Taken = sent

\* Every connection gets its answer: no peer, however slow, keeps a thread in
\* the read for ever.
ReadEnds == <>(pc = "closed")
-----------------------------------------------------------------------------
(* The inductive invariant behind them. *)

\* Where the head ends, once it does.
HeadPlace ==
  /\ pc = "head" => hend = -1 /\ len < MaxHead /\ \A e \in Ends : e > len
  /\ pc \in {"parse", "body", "drain", "ok", "too_large"} =>
       hend \in 1 .. len /\ (Regular => hend = HeadLength)
  /\ pc = "parse" => len < MaxHead + HeadChunk

\* What is known of the rest at each place.
BodyPlace ==
  /\ pc \in {"body", "drain", "ok", "too_large"} => request.line
  /\ pc \in {"body", "ok"} => request.clen <= MaxBody
  /\ pc = "body" => len < hend + request.clen
  /\ pc = "ok" => hend + request.clen <= len
  /\ pc \in {"head", "parse", "body", "ok"} => drained = 0
  /\ pc \in {"drain", "too_large"} => request.clen > MaxBody
  /\ pc = "drain" => drained < request.clen
  /\ pc = "too_large" => drained = request.clen \/ Taken = sent

IInv == TypeOK /\ HeadPlace /\ BodyPlace /\ RefusedForCause
=============================================================================
