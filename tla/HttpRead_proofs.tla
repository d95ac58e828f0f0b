-------------------------- MODULE HttpRead_proofs --------------------------
(***************************************************************************)
(* Proofs about HttpRead, for any limits and anything a peer may send.      *)
(***************************************************************************)
EXTENDS HttpRead, TLAPS

USE RequestsAssumption, LimitsAssumption

\* The search for the blank line finds one in the first n bytes, or there is
\* none; with regular line ends it is that of the head.
LEMMA HeaderEndFinds ==
  ASSUME request \in Request, NEW n \in Nat
  PROVE  /\ HeaderEnd(n) \in 1 .. n \cup {-1}
         /\ HeaderEnd(n) = -1 <=> \A e \in Ends : e > n
         /\ HeaderEnd(n) # -1 /\ Regular => HeaderEnd(n) = HeadLength
  <1>1. request.crlf \in Nat /\ request.lf \in Nat BY DEF Request
  <1>2. HeaderEnd(n) \in 1 .. n \cup {-1} BY <1>1 DEF HeaderEnd
  <1>3. (\A e \in Ends : e > n) <=>
          (request.crlf = 0 \/ request.crlf > n) /\ (request.lf = 0 \/ request.lf > n)
    BY <1>1 DEF Ends
  <1>4. HeaderEnd(n) = -1 <=> request.crlf \notin 1 .. n /\ request.lf \notin 1 .. n
    BY <1>1 DEF HeaderEnd
  <1>5. HeaderEnd(n) = -1 <=> \A e \in Ends : e > n BY <1>1, <1>3, <1>4
  <1>6. HeaderEnd(n) # -1 /\ Regular => HeaderEnd(n) = HeadLength
    BY <1>1 DEF HeaderEnd, HeadLength, Regular
  <1> QED BY <1>2, <1>5, <1>6

\* The invariant holds before anything was received.
LEMMA InitHolds == Init => IInv
  <1> SUFFICES ASSUME Init PROVE IInv OBVIOUS
  <1>1. request \in Request BY DEF Init
  <1>2. TypeOK
    <2>1. request.clen \in Nat /\ request.length \in Nat BY <1>1 DEF Request
    <2>2. 0 < MaxHead + HeadChunk OBVIOUS
    <2>3. open \in BOOLEAN /\ held \in BOOLEAN BY Zenon DEF Init
    <2>4. pc \in PC BY DEF Init, PC, Reading
    <2>5. /\ request \in Requests /\ sent \in 0 .. request.length
          /\ len \in Nat /\ hend \in Nat \cup {-1} /\ drained \in 0 .. request.clen
      BY <2>1 DEF Init
    <2>6. Taken <= sent /\ len < MaxHead + HeadChunk BY <2>2 DEF Init, Taken
    <2> QED BY <2>3, <2>4, <2>5, <2>6 DEF TypeOK
  <1>3. \A e \in Ends : e > 0 BY <1>1 DEF Ends, Request
  <1> QED BY <1>2, <1>3 DEF Init, IInv, HeadPlace, BodyPlace, RefusedForCause

\* Every step preserves the invariant.
LEMMA StepHolds ==
  ASSUME IInv, [Thread \/ Peer \/ Ended]_vars
  PROVE  IInv'
  <1>0. request \in Request /\ request.clen \in Nat /\ request.length \in Nat
    BY DEF IInv, TypeOK, Request
  <1> USE DEF IInv, TypeOK, PC, Reading, Taken, Goto
  <1>1. CASE RecvHead
    <2>1. PICK n \in 1 .. HeadChunk : Recv(n, HeadChunk) /\ len' = len + n
      BY <1>1 DEF RecvHead
    <2>2. /\ pc = "head" /\ hend' = HeaderEnd(len')
          /\ UNCHANGED <<request, sent, open, drained, held>>
          /\ pc' = IF hend' >= 0 THEN "parse" ELSE IF len' < MaxHead THEN "head" ELSE "malformed"
      BY <1>1 DEF RecvHead, peerVars
    <2>3. /\ drained = 0 /\ len \in Nat /\ len < MaxHead /\ len' \in Nat
          /\ len' < MaxHead + HeadChunk /\ len' <= sent /\ len' >= 1
      BY <2>1, <2>2 DEF HeadPlace, BodyPlace, Recv
    <2>4. /\ hend' \in 1 .. len' \cup {-1}
          /\ hend' = -1 <=> \A e \in Ends : e > len'
          /\ hend' # -1 /\ Regular => hend' = HeadLength
      BY <1>0, <2>2, <2>3, HeaderEndFinds
    <2>5. Ends' = Ends /\ HeadLength' = HeadLength /\ (Regular' <=> Regular)
      BY <2>2 DEF Ends, HeadLength, Regular
    <2>6. TypeOK'
      <3>1. hend' \in Nat \cup {-1} BY <2>3, <2>4
      <3>2. pc' \in PC BY <2>2
      <3>6. Taken' <= sent' /\ len' < MaxHead + HeadChunk
        <4>1. len' = len + n /\ drained' = drained /\ sent' = sent BY <2>1, <2>2
        <4>2. len + n + drained <= sent BY <2>1, <2>3 DEF Recv
        <4> QED BY <2>3, <4>1, <4>2 DEF Taken
      <3>4. /\ request' \in Requests /\ sent' \in 0 .. request'.length
            /\ drained' \in 0 .. request'.clen
        BY <2>2
      <3>5. open' \in BOOLEAN /\ held' \in BOOLEAN BY <2>2
      <3> QED BY <2>3, <3>1, <3>2, <3>4, <3>5, <3>6
    <2>7. HeadPlace' BY <2>2, <2>3, <2>4, <2>5 DEF HeadPlace
    <2>8. BodyPlace' BY <2>2, <2>3 DEF BodyPlace
    <2>9. RefusedForCause'
      <3>1. pc' # "too_large" BY <2>2
      <3>2. pc' = "malformed" => MaxHead <= len' /\ \A e \in Ends : e > len'
        BY <2>2, <2>3, <2>4
      <3> QED BY <3>1, <3>2, <2>5 DEF RefusedForCause
    <2> QED BY <2>6, <2>7, <2>8, <2>9
  <1>2. CASE Parse
    <2>1. /\ pc = "parse" /\ UNCHANGED <<request, sent, open, len, hend, drained>>
          /\ held' = request.line
          /\ pc' = IF ~request.line THEN "malformed"
                   ELSE IF request.clen > MaxBody THEN "drain"
                   ELSE IF len < hend + request.clen THEN "body" ELSE "ok"
      BY <1>2 DEF Parse, peerVars
    <2>2. Ends' = Ends /\ HeadLength' = HeadLength /\ (Regular' <=> Regular)
      BY <2>1 DEF Ends, HeadLength, Regular
    <2>3. hend \in 1 .. len /\ (Regular => hend = HeadLength) /\ drained = 0
      BY <2>1 DEF HeadPlace, BodyPlace
    <2>4. request.line \in BOOLEAN BY <1>0 DEF Request
    <2>5. TypeOK' BY <1>0, <2>1, <2>4
    <2>6. HeadPlace' BY <2>1, <2>2, <2>3 DEF HeadPlace
    <2>7. BodyPlace' BY <1>0, <2>1, <2>3 DEF BodyPlace
    <2>8. RefusedForCause' BY <2>1 DEF RefusedForCause
    <2> QED BY <2>5, <2>6, <2>7, <2>8
  <1>3. CASE RecvBody
    <2>1. PICK n \in 1 .. BodyChunk : Recv(n, BodyChunk) /\ len' = len + n
      BY <1>3 DEF RecvBody
    <2> QED
      BY <1>0, <1>3, <2>1 DEF RecvBody, Recv, peerVars, HeadPlace, BodyPlace, RefusedForCause,
                              HeadLength, Regular, Ends
  <1>4. CASE RecvDrain
    <2>1. PICK n \in 1 .. DrainChunk : Recv(n, request.clen - drained) /\ drained' = drained + n
      BY <1>4 DEF RecvDrain
    <2> QED
      BY <1>0, <1>4, <2>1 DEF RecvDrain, Recv, peerVars, HeadPlace, BodyPlace, RefusedForCause,
                              HeadLength, Regular, Ends
  <1>5. CASE RecvFails
    BY <1>0, <1>5 DEF RecvFails, peerVars, HeadPlace, BodyPlace, RefusedForCause, HeadLength,
                      Regular, Ends
  <1>6. CASE Close
    BY <1>0, <1>6 DEF Close, peerVars, HeadPlace, BodyPlace, RefusedForCause, HeadLength, Regular, Ends
  <1>7. CASE Send
    BY <1>0, <1>7 DEF Send, HeadPlace, BodyPlace, RefusedForCause, HeadLength, Regular, Ends
  <1>8. CASE Shut
    BY <1>0, <1>8 DEF Shut, HeadPlace, BodyPlace, RefusedForCause, HeadLength, Regular, Ends
  <1>9. CASE UNCHANGED vars
    BY <1>9 DEF vars, peerVars, HeadPlace, BodyPlace, RefusedForCause, HeadLength, Regular, Ends
  <1> QED
    BY <1>1, <1>2, <1>3, <1>4, <1>5, <1>6, <1>7, <1>8, <1>9 DEF Thread, Peer, Ended

\* The inductive invariant holds throughout.
THEOREM Invariance == Spec => []IInv
  <1>1. IInv /\ [Thread \/ Peer \/ Ended]_vars => IInv' BY StepHolds
  <1> QED BY <1>1, InitHolds, PTL DEF Spec

\* Types, and the bounds of the buffer: one request costs no more memory than
\* the limits allow, whatever the peer sends.
THEOREM TypeCorrect == Spec => []TypeOK
  <1>1. IInv => TypeOK BY DEF IInv
  <1> QED BY <1>1, Invariance, PTL

\* The routes are handed the request that was sent, for every way of cutting the
\* bytes into pieces.
THEOREM FramingIsExact == Spec => []RequestIsWhatWasSent
  <1>1. IInv => RequestIsWhatWasSent
    <2> SUFFICES ASSUME IInv, pc = "ok", Regular
        PROVE  /\ request.line /\ hend = HeadLength /\ hend > 0
               /\ request.clen <= MaxBody
               /\ hend + request.clen <= len /\ len <= sent
      BY DEF RequestIsWhatWasSent
    <2>1. hend \in 1 .. len /\ hend = HeadLength BY DEF IInv, HeadPlace
    <2>2. request.line /\ request.clen <= MaxBody /\ hend + request.clen <= len /\ drained = 0
      BY DEF IInv, BodyPlace
    <2>3. len <= sent BY <2>2 DEF IInv, TypeOK, Taken
    <2> QED BY <2>1, <2>2, <2>3 DEF IInv, TypeOK
  <1> QED BY <1>1, Invariance, PTL

\* Every refusal has its cause in what the peer sent.
THEOREM RefusalsAreCaused == Spec => []RefusedForCause
  <1>1. IInv => RefusedForCause BY DEF IInv
  <1> QED BY <1>1, Invariance, PTL

\* Before a 413 everything an honest peer has sent is read.
THEOREM DrainIsWhole == Spec => []DrainTakesAll
  <1>1. IInv => DrainTakesAll
    <2> SUFFICES ASSUME IInv, pc = "too_large", request.length <= hend + request.clen
        PROVE  Taken = sent
      BY DEF DrainTakesAll
    <2>1. hend \in 1 .. len /\ (drained = request.clen \/ Taken = sent)
      BY DEF IInv, HeadPlace, BodyPlace
    <2>2. /\ Taken <= sent /\ sent <= request.length /\ len \in Nat /\ sent \in Nat
          /\ request.length \in Nat /\ request.clen \in Nat
      BY DEF IInv, TypeOK, Request
    <2> QED BY <2>1, <2>2 DEF Taken
  <1> QED BY <1>1, Invariance, PTL
=============================================================================
