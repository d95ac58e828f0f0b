----------------------------- MODULE JobService -----------------------------
(***************************************************************************)
(* What the job queue and the worker of hidream-server promise a client:   *)
(* a first-come first-served service with room for Cap waiting jobs that   *)
(* serves one job at a time, turns a job away only when it is full or      *)
(* closing, and still serves after closing what it accepted before.        *)
(***************************************************************************)
EXTENDS Naturals, Sequences

CONSTANTS Conn, Cap, NoConn

VARIABLES
  waiting,   \* the accepted jobs that nobody serves yet, oldest first
  running,   \* the job being served, or NoConn
  fate,      \* what became of each connection's job
  closing    \* no more jobs are accepted

vars == <<waiting, running, fate, closing>>

Init ==
  /\ waiting = <<>> /\ running = NoConn /\ closing = FALSE
  /\ fate = [c \in Conn |-> "new"]

Accept(c) ==
  /\ fate[c] = "new" /\ ~closing /\ Len(waiting) < Cap
  /\ waiting' = Append(waiting, c)
  /\ fate' = [fate EXCEPT ![c] = "accepted"]
  /\ UNCHANGED <<running, closing>>

Refuse(c) ==
  /\ fate[c] = "new" /\ (closing \/ Len(waiting) = Cap)
  /\ fate' = [fate EXCEPT ![c] = "refused"]
  /\ UNCHANGED <<waiting, running, closing>>

Start ==
  /\ running = NoConn /\ waiting # <<>>
  /\ running' = Head(waiting)
  /\ waiting' = Tail(waiting)
  /\ UNCHANGED <<fate, closing>>

Finish ==
  /\ running # NoConn
  /\ fate' = [fate EXCEPT ![running] = "served"]
  /\ running' = NoConn
  /\ UNCHANGED <<waiting, closing>>

Close ==
  /\ closing' = TRUE
  /\ UNCHANGED <<waiting, running, fate>>

Next == (\E c \in Conn : Accept(c) \/ Refuse(c)) \/ Start \/ Finish \/ Close

Spec == Init /\ [][Next]_vars

=============================================================================
