---------------------------- MODULE MessageFifo ----------------------------
(***************************************************************************)
(* What a connection promises to the two ends: the messages sent over it   *)
(* are received whole, once each and in order, until it breaks; nothing of *)
(* a connection is left for the next one.  Once the sender has gone wrong  *)
(* nothing more is promised for that connection.                           *)
(***************************************************************************)
EXTENDS Sequences

CONSTANT Messages

VARIABLES queue,    \* sent over this connection and not yet received
          message,  \* received last, <<>> when done with it
          reliable  \* nothing went wrong on this connection

Init == queue = <<>> /\ message = <<>> /\ reliable = TRUE

Send(m) == queue' = Append(queue, m) /\ UNCHANGED <<message, reliable>>
Receive ==
  /\ queue # <<>>
  /\ message' = Head(queue) /\ queue' = Tail(queue)
  /\ UNCHANGED reliable
Done == message' = <<>> /\ UNCHANGED <<queue, reliable>>
Reconnect == queue' = <<>> /\ reliable' = TRUE /\ UNCHANGED message
GoWrong == reliable' = FALSE

Next == (\E m \in Messages : Send(m)) \/ Receive \/ Done \/ Reconnect \/ GoWrong

Spec == Init /\ [][Next]_<<queue, message, reliable>>
=============================================================================
