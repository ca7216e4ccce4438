------------------------------- MODULE Mailbox --------------------------------
(***************************************************************************)
(* What the seed link promises its client: one request is pending at a     *)
(* time, LOCK alone may displace it, and an answer is the answer to the    *)
(* request that is pending when it appears.  From a LOCK on no answer is   *)
(* to be seen until the LOCK itself has been answered.                     *)
(***************************************************************************)
CONSTANTS
  Request,    \* what may be asked; a request has a command
  Result,     \* what may be answered; a result has the request it is of
  Lock, NoRequest, Blank

VARIABLES
  pending,    \* the request that awaits its answer, or NoRequest
  answer      \* the last answer, or Blank

vars == <<pending, answer>>

Init == pending = NoRequest /\ answer = Blank

Accept ==
  /\ pending' \in Request
  /\ pending = NoRequest \/ pending'.command = Lock
  /\ answer' = IF pending'.command = Lock THEN Blank ELSE answer

Reply ==
  /\ pending # NoRequest
  /\ answer' \in Result /\ answer'.of = pending
  /\ pending' = NoRequest

\* Power off and on.
Reset == pending' = NoRequest /\ answer' = Blank

Next == Accept \/ Reply \/ Reset

Spec == Init /\ [][Next]_vars

=============================================================================
