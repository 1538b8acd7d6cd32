---------------------------- MODULE RequestReply ----------------------------
(***************************************************************************)
(* What the client library promises the threads that use it, without       *)
(* connections, ids, queues or a server: a request is made once, and its   *)
(* result channel receives at most one result, of a kind that fits the     *)
(* request.  The result may be the server's, or the failure that a lost    *)
(* connection means for any of the requests still waited for.              *)
(***************************************************************************)
EXTENDS Sequences

CONSTANTS
  Requests,  \* requests, each with a result channel of its own
  Commands,  \* what may be requested
  Answers,   \* command -> the results it may have
  Failure,   \* the result of a request whose connection was lost
  None       \* not requested yet

VARIABLES
  asked,     \* request -> the command
  answer     \* request -> what its channel received

Init ==
  /\ asked = [r \in Requests |-> None]
  /\ answer = [r \in Requests |-> <<>>]

Waiting == {r \in Requests : asked[r] # None /\ answer[r] = <<>>}
Unused  == {r \in Requests : asked[r] = None}

(* A thread makes a request that was not made before.                      *)
Ask(r, command) ==
  /\ asked' = [asked EXCEPT ![r] = command]
  /\ UNCHANGED answer

(* The result of one request arrives.                                      *)
Answer(r, result) ==
  /\ answer' = [answer EXCEPT ![r] = <<result>>]
  /\ UNCHANGED asked

(* A connection is lost, and with it some of the requests.                 *)
Lose(lost) ==
  /\ answer' = [r \in Requests |-> IF r \in lost THEN <<Failure>> ELSE answer[r]]
  /\ UNCHANGED asked

Next ==
  \/ \E r \in Unused, command \in Commands : Ask(r, command)
  \/ \E r \in Waiting : \E result \in Answers[asked[r]] : Answer(r, result)
  \/ \E lost \in SUBSET Waiting : Lose(lost)

Spec == Init /\ [][Next]_<<asked, answer>>
=============================================================================
