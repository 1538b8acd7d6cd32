----------------------------- MODULE CallProofs -----------------------------
(***************************************************************************)
(* Proof that no callback's late reply reaches a connection it is not      *)
(* meant for: a call of the server, while it is not answered, is in one    *)
(* place only, in on_message, with the application, in on_reply or on its  *)
(* way back, and what loop() compares tells connections apart until their  *)
(* ids wrap.                                                               *)
(***************************************************************************)
EXTENDS SetupProofs, Integers

(* Connection ids that are the same lie a whole round apart.               *)
LEMMA SameRemainder ==
  ASSUME NEW a \in Nat, NEW b \in Nat, NEW m \in Nat \ {0}, a < b, a % m = b % m
  PROVE  b - a >= m
<1> DEFINE q == a \div m
           r == b \div m
<1>1. q \in Int /\ r \in Int /\ a % m \in Int
  OBVIOUS
<1>2. a = m * q + (a % m) /\ b = m * r + (b % m)
  OBVIOUS
<1> HIDE DEF q, r
<1>3. b - a = m * (r - q)
  BY <1>1, <1>2
<1>4. r - q >= 1
  BY <1>1, <1>3
<1> QED
  BY <1>1, <1>3, <1>4

-----------------------------------------------------------------------------
(* What the elements of a queue carry: F maps an element to a set, and no  *)
(* two elements carry the same.                                            *)
Carried(F, s) == UNION {F[s[i]] : i \in 1 .. Len(s)}
Once(F, s) == \A i, j \in 1 .. Len(s) : i # j => F[s[i]] \cap F[s[j]] = {}

LEMMA AppendCarries ==
  ASSUME NEW S, NEW s \in Seq(S), NEW x \in S, NEW F
  PROVE  /\ Carried(F, Append(s, x)) = Carried(F, s) \cup F[x]
         /\ Once(F, s) /\ F[x] \cap Carried(F, s) = {} => Once(F, Append(s, x))
<1> DEFINE t == Append(s, x)
<1>1. /\ Len(s) \in Nat /\ Len(t) = Len(s) + 1
      /\ \A i \in 1 .. Len(s) : t[i] = s[i] /\ i \in 1 .. Len(t)
      /\ Len(s) + 1 \in 1 .. Len(t) /\ t[Len(s) + 1] = x
      /\ \A i \in 1 .. Len(t) : i \in 1 .. Len(s) \/ i = Len(s) + 1
  OBVIOUS
<1> HIDE DEF t
<1>2. Carried(F, t) = Carried(F, s) \cup F[x]
  <2>1. \A y : y \in Carried(F, t) => y \in Carried(F, s) \cup F[x]
    BY <1>1 DEF Carried
  <2>2. \A y : y \in Carried(F, s) \cup F[x] => y \in Carried(F, t)
    BY <1>1 DEF Carried
  <2> QED
    BY <2>1, <2>2
<1>3. ASSUME Once(F, s), F[x] \cap Carried(F, s) = {}
      PROVE  Once(F, t)
  <2>1. \A i \in 1 .. Len(s) : F[s[i]] \subseteq Carried(F, s)
    BY DEF Carried
  <2>2. \A i \in 1 .. Len(s) : F[s[i]] \cap F[x] = {}
    BY <1>3, <2>1
  <2> QED
    BY <1>1, <1>3, <2>2 DEF Once
<1> QED
  BY <1>2, <1>3 DEF t

LEMMA TailCarries ==
  ASSUME NEW S, NEW s \in Seq(S), s # <<>>, NEW F
  PROVE  /\ Carried(F, Tail(s)) \subseteq Carried(F, s)
         /\ F[Head(s)] \subseteq Carried(F, s)
         /\ Once(F, s) => Once(F, Tail(s)) /\ Carried(F, Tail(s)) \cap F[Head(s)] = {}
<1> DEFINE t == Tail(s)
<1>1. /\ Head(s) = s[1] /\ 1 \in 1 .. Len(s)
      /\ \A i \in 1 .. Len(t) : i + 1 \in 1 .. Len(s) /\ t[i] = s[i + 1] /\ i + 1 # 1
      /\ \A i, j \in 1 .. Len(t) : i # j => i + 1 # j + 1
  BY TailElements
<1> HIDE DEF t
<1>2. Carried(F, t) \subseteq Carried(F, s) /\ F[Head(s)] \subseteq Carried(F, s)
  BY <1>1 DEF Carried
<1>3. ASSUME Once(F, s)
      PROVE  Once(F, t) /\ Carried(F, t) \cap F[Head(s)] = {}
  <2>1. \A i \in 1 .. Len(t) : F[t[i]] \cap F[s[1]] = {}
    BY <1>1, <1>3 DEF Once
  <2>2. Carried(F, t) \cap F[Head(s)] = {}
    BY <1>1, <2>1 DEF Carried
  <2>3. \A i, j \in 1 .. Len(t) : i # j => F[t[i]] \cap F[t[j]] = {}
    BY <1>1, <1>3 DEF Once
  <2> QED
    BY <2>2, <2>3 DEF Once
<1> QED
  BY <1>2, <1>3 DEF t

-----------------------------------------------------------------------------
(* The calls of this connection in each of the four places.                *)
Calls_in   == [m \in Incoming |-> IF m.type = "action_call" THEN {m.id} ELSE {}]
Calls_here == [c \in CallSet |-> IF c.conn = conn THEN {c.id} ELSE {}]
Calls_out  == [m \in Outgoing |-> IF m.op = "Reply" THEN {m.call.id} ELSE {}]

Held(set) == UNION {Calls_here[c] : c \in set}
HeldOnce(set) ==
  \A c, d \in set : c # d => Calls_here[c] \cap Calls_here[d] = {}

FourPlaces(in, held, back, out, known) ==
  /\ in \cap held = {} /\ in \cap back = {} /\ in \cap out = {}
  /\ held \cap back = {} /\ held \cap out = {} /\ back \cap out = {}
  /\ in \cup held \cup back \cup out \subseteq known

(* What the actor knows of a call, and which replies it lets through.      *)
Dated(call) ==
  /\ call.conn \in 1 .. conn
  /\ call.connection_id = call.conn % ConnMod
Timely(call) == call.conn = conn \/ conn - call.conn >= ConnMod

DatedReplies == {call \in CallSet : Dated(call)}
TimelyOut == {m \in Outgoing : m.op = "Reply" => Timely(m.call)}

CallsDated ==
  /\ conn = 0 => sock = "none" /\ on_message = <<>>
  /\ sock # "up" => to_server = <<>>
  /\ calls \subseteq DatedReplies /\ on_reply \in Seq(DatedReplies)
  /\ to_server \in Seq(TimelyOut)

CallsApart ==
  sock = "up" /\ conn <= ConnMod =>
    /\ Once(Calls_in, on_message) /\ Once(Calls_here, on_reply)
    /\ Once(Calls_out, to_server) /\ HeldOnce(calls)
    /\ FourPlaces(Carried(Calls_in, on_message), Held(calls),
                  Carried(Calls_here, on_reply), Carried(Calls_out, to_server),
                  srv_calls)

CallInv == TypeInv /\ CallsDated /\ CallsApart

LEMMA CallTypes ==
  ASSUME TypeInv
  PROVE  /\ conn \in Nat /\ ConnMod \in Nat \ {0} /\ next_id \in Ids
         /\ calls \subseteq CallSet /\ on_reply \in Seq(CallSet)
         /\ to_server \in Seq(Outgoing) /\ on_message \in Seq(Incoming)
         /\ \A c \in CallSet : c.conn \in Nat /\ c.id \in CallIds
         /\ srv_calls \subseteq CallIds
<1>1. conn \in 0 .. MaxConns /\ MaxConns \in Nat
  BY ClientAssumption DEF TypeInv, TypeOK, ActorTypeOK
<1> QED
  BY <1>1, ClientAssumption
  DEF TypeInv, TypeOK, ActorTypeOK, ChannelTypeOK, ApplicationTypeOK, ServerTypeOK, CallSet

(* The invariant is what is to be shown.                                   *)
LEMMA CallInvSuffices == CallInv => RepliesAreAwaited
<1> SUFFICES ASSUME CallInv, NEW i \in 1 .. Len(to_server), ReplySent(i)
             PROVE  LET call == to_server[i].call
                    IN /\ call.conn = conn \/ conn - call.conn >= ConnMod
                       /\ conn <= ConnMod =>
                            /\ call.id \in srv_calls
                            /\ \A j \in 1 .. Len(to_server) :
                                 ReplySent(j) /\ to_server[j].call.id = call.id => i = j
  BY DEF RepliesAreAwaited
<1> USE DEF CallInv
<1>1. to_server \in Seq(Outgoing) /\ to_server \in Seq(TimelyOut)
  BY CallTypes DEF CallsDated
<1>2. \A j \in 1 .. Len(to_server) : to_server[j] \in TimelyOut /\ to_server[j] \in Outgoing
  BY <1>1
<1>3. Timely(to_server[i].call)
  BY <1>2 DEF TimelyOut, ReplySent
<1>4. ASSUME conn <= ConnMod
      PROVE  /\ to_server[i].call.id \in srv_calls
             /\ \A j \in 1 .. Len(to_server) :
                  ReplySent(j) /\ to_server[j].call.id = to_server[i].call.id => i = j
  <2>1. sock = "up"
    BY DEF CallsDated
  <2>2. \A j \in 1 .. Len(to_server) :
          ReplySent(j) => Calls_out[to_server[j]] = {to_server[j].call.id}
    BY <1>2 DEF Calls_out, ReplySent
  <2>3. Once(Calls_out, to_server) /\ Carried(Calls_out, to_server) \subseteq srv_calls
    BY <1>4, <2>1 DEF CallsApart, FourPlaces
  <2>4. to_server[i].call.id \in srv_calls
    BY <2>2, <2>3 DEF Carried
  <2>5. ASSUME NEW j \in 1 .. Len(to_server), ReplySent(j),
               to_server[j].call.id = to_server[i].call.id, i # j
        PROVE  FALSE
    <3>1. Calls_out[to_server[i]] \cap Calls_out[to_server[j]] = {}
      BY <2>3, <2>5 DEF Once
    <3> QED
      BY <2>2, <2>5, <3>1
  <2> QED
    BY <2>4, <2>5
<1> QED
  BY <1>3, <1>4 DEF Timely

-----------------------------------------------------------------------------
(* While the connection stays the same the definitions mean the same.      *)
LEMMA SameConnection ==
  ASSUME UNCHANGED conn
  PROVE  /\ DatedReplies' = DatedReplies /\ TimelyOut' = TimelyOut
         /\ Calls_in' = Calls_in /\ Calls_here' = Calls_here /\ Calls_out' = Calls_out
<1>1. DatedReplies' = DatedReplies
  BY DEF DatedReplies, Dated
<1>2. TimelyOut' = TimelyOut
  BY DEF TimelyOut, Timely
<1>3. Calls_in' = Calls_in /\ Calls_here' = Calls_here /\ Calls_out' = Calls_out
  BY DEF Calls_in, Calls_here, Calls_out
<1> QED
  BY <1>1, <1>2, <1>3

(* A step that touches nothing of all this.                                *)
LEMMA CallsUntouched ==
  ASSUME CallsDated, CallsApart, UNCHANGED <<conn, sock, calls, on_reply, srv_calls>>,
         UNCHANGED <<on_message, to_server>>
  PROVE  CallsDated' /\ CallsApart'
<1>1. CallsDated'
  BY SameConnection DEF CallsDated
<1>2. CallsApart'
  BY SameConnection DEF CallsApart, Held, HeldOnce, Carried, Once
<1> QED
  BY <1>1, <1>2

(* A connection is closed, for good or because close() fails.              *)
LEMMA CloseCalls ==
  ASSUME TypeInv, CallsDated, (ActorCloses /\ ForgetConnection) \/ close_fails
  PROVE  CallsDated' /\ CallsApart'
<1>1. /\ to_server' = <<>> /\ UNCHANGED <<conn, calls, on_reply>> /\ sock' # "up"
      /\ conn = 0 => sock' = "none" /\ on_message' = <<>>
  BY DEF ActorCloses, connect, BackoffExit, cleanup_connection, stop_receiver,
         clear_channels, untouched, close_fails, waits, app, inbox, CallsDated
<1>2. DatedReplies' = DatedReplies
  BY <1>1 DEF DatedReplies, Dated
<1>3. CallsDated'
  BY <1>1, <1>2, EmptyQueue DEF CallsDated
<1> QED
  BY <1>1, <1>3 DEF CallsApart

(* A new connection; the calls of earlier ones that are with the           *)
(* application or in on_reply are not of this one.                         *)
LEMMA ConnectCalls ==
  ASSUME TypeInv, Clean, CallsDated, actorpp_connect
  PROVE  CallsDated' /\ CallsApart'
<1>1. /\ to_server' = <<>> /\ on_message' = <<>> /\ UNCHANGED <<calls, on_reply>>
      /\ \/ UNCHANGED conn /\ sock' = "none"
         \/ conn' = conn + 1 /\ sock' = "up"
  BY DEF actorpp_connect, Clean, waits, app, inbox
<1>2. DatedReplies \subseteq DatedReplies'
  BY <1>1, CallTypes DEF DatedReplies, Dated
<1>3. CallsDated'
  <2>1. on_reply \in Seq(DatedReplies')
    BY <1>2 DEF CallsDated
  <2>2. conn' = 0 => sock' = "none"
    BY <1>1, CallTypes
  <2> QED
    BY <1>1, <1>2, <2>1, <2>2, EmptyQueue DEF CallsDated
<1>4. ASSUME sock' = "up"
      PROVE  CallsApart'
  <2>1. conn' = conn + 1 /\ conn \in Nat
    BY <1>1, <1>4, CallTypes
  <2>2. \A c \in DatedReplies : Calls_here'[c] = {}
    BY <2>1, CallTypes DEF Calls_here, DatedReplies, Dated
  <2>3. HeldOnce(calls)' /\ Held(calls)' = {}
    BY <1>1, <2>2 DEF CallsDated, HeldOnce, Held
  <2>4. \A i \in 1 .. Len(on_reply) : on_reply[i] \in DatedReplies
    BY DEF CallsDated
  <2>5. Once(Calls_here, on_reply)' /\ Carried(Calls_here, on_reply)' = {}
    BY <1>1, <2>2, <2>4 DEF Once, Carried
  <2>6. /\ Once(Calls_in, on_message)' /\ Carried(Calls_in, on_message)' = {}
        /\ Once(Calls_out, to_server)' /\ Carried(Calls_out, to_server)' = {}
    BY <1>1 DEF Once, Carried
  <2> QED
    BY <2>3, <2>5, <2>6 DEF CallsApart, FourPlaces
<1>5. CASE sock' = "none"
  BY <1>3, <1>5 DEF CallsApart
<1> QED
  BY <1>1, <1>3, <1>4, <1>5
-----------------------------------------------------------------------------
(* Steps of the actor and of the application.                              *)

(* Only read_message, read_reply and the sending of messages matter.       *)
LEMMA RunCalls ==
  ASSUME TypeInv, ActorRuns
  PROVE  \/ read_message
         \/ read_reply
         \/ close_fails
         \/ actorpp_connect
         \/ /\ UNCHANGED <<conn, sock, calls, on_reply, on_message>>
            /\ \/ UNCHANGED to_server
               \/ \E m \in Outgoing : /\ m.op # "Reply" /\ sock = "up"
                                      /\ to_server' = Append(to_server, m)
<1> USE DEF link, app, inbox
<1>1. CASE \/ BackoffExpires \/ reregister_done \/ read_close \/ see_exit
           \/ read_ping_result \/ ping_timeout_expires
           \/ \E step \in rereg : check_result(step)
  BY <1>1
  DEF BackoffExpires, reregister_done, read_close, see_exit, read_ping_result,
      ping_timeout_expires, check_result, waits
<1>2. ASSUME NEW m \in Outgoing, m.op # "Reply", NEW next, send_send_buf(m, next)
      PROVE  \/ UNCHANGED to_server
             \/ \E x \in Outgoing : /\ x.op # "Reply" /\ sock = "up"
                                    /\ to_server' = Append(to_server, x)
  BY <1>2 DEF send_send_buf
<1>3. CASE write_hello
  <2>1. Hello \in Outgoing /\ Hello.op # "Reply"
    BY DEF Hello, Outgoing, TypeInv, TypeOK, ActorTypeOK
  <2> QED
    BY <1>2, <1>3, <2>1 DEF write_hello, waits
<1>4. CASE \E step \in rereg : reregister_send(step)
  <2>1. PICK step \in rereg : reregister_send(step)
    BY <1>4
  <2>2. PICK m : m = RestoreMessage(step)
    OBVIOUS
  <2>3. step.op \in Registrations \cup {"StateChanged"}
    BY DEF TypeInv, TypeOK, ActorTypeOK, Steps
  <2>4. m \in Outgoing /\ m.op # "Reply"
    BY <2>2, <2>3, RestoreMessageType DEF RestoreMessage, Request, Registrations
  <2>5. send_send_buf(m, "wait_for_reply")
    BY <2>1, <2>2 DEF reregister_send, RestoreMessage
  <2> QED
    BY <1>2, <2>1, <2>4, <2>5 DEF reregister_send
<1>5. CASE idle_timeout
  <2>1. PICK m : m = Request("Ping", next_id, None, None, "ping")
    OBVIOUS
  <2>2. m \in Outgoing /\ m.op # "Reply"
    BY <2>1, CallTypes DEF Request, Outgoing, PingRequests, Chans
  <2> QED
    BY <1>2, <1>5, <2>1, <2>2 DEF idle_timeout, waits
<1>6. CASE read_command
  <2>1. UNCHANGED <<conn, sock, calls, on_reply, on_message>>
    BY <1>6 DEF read_command
  <2>2. CASE Disconnect
    BY <2>1, <2>2 DEF Disconnect
  <2>3. CASE Head(on_command) # "Disconnect" /\ IsCommand(Head(on_command))
    <3>1. PICK r \in Reqs : r = Head(on_command) /\ asked[r] \in Commands /\ IsCommand(r)
      BY <1>6, <2>3, HeadAsked DEF read_command
    <3>2. PICK m : m = CommandMessage(r)
      OBVIOUS
    <3>3. m \in Outgoing /\ m.op \in AllOps /\ send_send_buf(m, "main")
      BY <3>1, <3>2, CommandMessageType, CommandSteps DEF CommandMessage, Request
    <3>4. m.op # "Reply"
      BY <3>3 DEF AllOps
    <3> QED
      BY <1>2, <2>1, <3>3, <3>4
  <2> QED
    BY <1>6, <2>2, <2>3 DEF read_command, IsCommand
<1> QED
  BY <1>1, <1>3, <1>4, <1>5, <1>6 DEF ActorRuns, do_hello, wait_for_reply, loop

(* CallsApart of the next state, for a step within a connection.           *)
LEMMA ApartNext ==
  ASSUME UNCHANGED <<conn, sock>>,
         sock = "up" /\ conn <= ConnMod =>
           /\ Once(Calls_in, on_message') /\ Once(Calls_here, on_reply')
           /\ Once(Calls_out, to_server') /\ HeldOnce(calls')
           /\ FourPlaces(Carried(Calls_in, on_message'), Held(calls'),
                         Carried(Calls_here, on_reply'), Carried(Calls_out, to_server'),
                         srv_calls')
  PROVE  CallsApart'
<1>1. /\ Calls_in' = Calls_in /\ Calls_here' = Calls_here /\ Calls_out' = Calls_out
      /\ conn' = conn /\ sock' = sock
  BY SameConnection
<1>2. /\ Once(Calls_in, on_message)' <=> Once(Calls_in, on_message')
      /\ Once(Calls_here, on_reply)' <=> Once(Calls_here, on_reply')
      /\ Once(Calls_out, to_server)' <=> Once(Calls_out, to_server')
      /\ HeldOnce(calls)' <=> HeldOnce(calls')
  BY <1>1 DEF Once, HeldOnce
<1>3. /\ Carried(Calls_in, on_message)' = Carried(Calls_in, on_message')
      /\ Carried(Calls_here, on_reply)' = Carried(Calls_here, on_reply')
      /\ Carried(Calls_out, to_server)' = Carried(Calls_out, to_server')
      /\ Held(calls)' = Held(calls')
  BY <1>1 DEF Carried, Held
<1> QED
  BY <1>1, <1>2, <1>3 DEF CallsApart, FourPlaces

(* A message that is no reply to a call is sent.                           *)
LEMMA SendCalls ==
  ASSUME TypeInv, CallsDated, CallsApart, NEW m \in Outgoing, m.op # "Reply",
         sock = "up", to_server' = Append(to_server, m),
         UNCHANGED <<conn, sock, calls, on_reply, on_message, srv_calls>>
  PROVE  CallsDated' /\ CallsApart'
<1>1. m \in TimelyOut /\ Calls_out[m] = {}
  BY DEF TimelyOut, Calls_out
<1>2. to_server' \in Seq(TimelyOut)
  BY <1>1 DEF CallsDated
<1>3. CallsDated'
  BY <1>2, SameConnection DEF CallsDated
<1>4. to_server \in Seq(Outgoing)
  BY CallTypes
<1>5. /\ Carried(Calls_out, Append(to_server, m)) = Carried(Calls_out, to_server) \cup Calls_out[m]
      /\ Once(Calls_out, to_server) /\ Calls_out[m] \cap Carried(Calls_out, to_server) = {}
           => Once(Calls_out, Append(to_server, m))
  BY <1>4, AppendCarries
<1>6. /\ Carried(Calls_out, to_server') = Carried(Calls_out, to_server)
      /\ Once(Calls_out, to_server) => Once(Calls_out, to_server')
  BY <1>1, <1>5
<1>7. CallsApart'
  BY <1>6, ApartNext DEF CallsApart
<1> QED
  BY <1>3, <1>7

(* A call is read, and is with the application then.                       *)
LEMMA ReadCalls ==
  ASSUME TypeInv, TypeInv', CallsDated, CallsApart, read_message, UNCHANGED serverVars
  PROVE  CallsDated' /\ CallsApart'
<1> PICK m : m = Head(on_message)
  OBVIOUS
<1>1. /\ on_message # <<>> /\ on_message' = Tail(on_message)
      /\ UNCHANGED <<conn, sock, on_reply, to_server, srv_calls>>
  BY DEF read_message, app, serverVars
<1>2. m \in Incoming /\ conn \in Nat /\ conn # 0
  BY <1>1, CallTypes DEF CallsDated
<1> PICK c : c = Call(m.id, m.path)
  OBVIOUS
<1>3. \/ UNCHANGED calls
      \/ m.type = "action_call" /\ calls' = calls \cup {c}
  BY DEF read_message, handle_message, handle_reply, handle_push, handle_hello_message, inbox
<1>4. c.conn = conn /\ c.id = m.id /\ c.connection_id = conn % ConnMod
  BY DEF Call, connection_id
<1>5. c \in calls' => c \in DatedReplies
  BY <1>2, <1>4, CallTypes DEF DatedReplies, Dated, TypeInv, TypeOK, ApplicationTypeOK
<1>6. CallsDated'
  <2>1. calls' \subseteq DatedReplies
    BY <1>3, <1>5 DEF CallsDated
  <2> QED
    BY <1>1, <1>2, <2>1, SameConnection DEF CallsDated
<1>7. ASSUME sock = "up", conn <= ConnMod
      PROVE  /\ Once(Calls_in, on_message') /\ HeldOnce(calls')
             /\ FourPlaces(Carried(Calls_in, on_message'), Held(calls'),
                           Carried(Calls_here, on_reply), Carried(Calls_out, to_server),
                           srv_calls)
  <2>1. /\ Once(Calls_in, on_message) /\ HeldOnce(calls)
        /\ FourPlaces(Carried(Calls_in, on_message), Held(calls),
                      Carried(Calls_here, on_reply), Carried(Calls_out, to_server),
                      srv_calls)
    BY <1>7 DEF CallsApart
  <2>2. /\ Carried(Calls_in, on_message') \subseteq Carried(Calls_in, on_message)
        /\ Calls_in[m] \subseteq Carried(Calls_in, on_message)
        /\ Once(Calls_in, on_message')
        /\ Carried(Calls_in, on_message') \cap Calls_in[m] = {}
    BY <1>1, <2>1, CallTypes, TailCarries
  <2>3. CASE UNCHANGED calls
    BY <2>1, <2>2, <2>3 DEF FourPlaces, Held, HeldOnce
  <2>4. CASE m.type = "action_call" /\ calls' = calls \cup {c}
    <3>1. c \in CallSet
      BY <1>5, <2>4 DEF DatedReplies
    <3>2. Calls_here[c] = {m.id} /\ Calls_in[m] = {m.id}
      BY <1>2, <1>4, <2>4, <3>1 DEF Calls_here, Calls_in
    <3>3. m.id \notin Held(calls)
      BY <2>1, <2>2, <3>2 DEF FourPlaces
    <3>4. \A d \in calls : Calls_here[d] \cap Calls_here[c] = {}
      BY <3>2, <3>3 DEF Held
    <3>5. HeldOnce(calls')
      BY <2>1, <2>4, <3>4 DEF HeldOnce
    <3>6. Held(calls') = Held(calls) \cup {m.id}
      BY <2>4, <3>2 DEF Held
    <3> QED
      BY <2>1, <2>2, <3>2, <3>5, <3>6 DEF FourPlaces
  <2> QED
    BY <1>3, <2>3, <2>4
<1>8. CallsApart'
  BY <1>1, <1>7, ApartNext DEF CallsApart
<1> QED
  BY <1>6, <1>8

(* The application answers a call: Call::reply.                            *)
LEMMA ReplyCalls ==
  ASSUME TypeInv, CallsDated, CallsApart, NEW call \in calls, reply(call),
         UNCHANGED serverVars
  PROVE  CallsDated' /\ CallsApart'
<1>1. /\ calls' = calls \ {call} /\ on_reply' = Append(on_reply, call)
      /\ UNCHANGED <<conn, sock, on_message, to_server, srv_calls>>
  BY DEF reply, link, waits, serverVars
<1>2. call \in DatedReplies /\ call \in CallSet
  BY DEF CallsDated, DatedReplies
<1>3. CallsDated'
  <2>1. on_reply' \in Seq(DatedReplies) /\ calls' \subseteq DatedReplies
    BY <1>1, <1>2 DEF CallsDated
  <2> QED
    BY <1>1, <2>1, SameConnection DEF CallsDated
<1>4. ASSUME sock = "up", conn <= ConnMod
      PROVE  /\ Once(Calls_here, on_reply') /\ HeldOnce(calls')
             /\ FourPlaces(Carried(Calls_in, on_message), Held(calls'),
                           Carried(Calls_here, on_reply'), Carried(Calls_out, to_server),
                           srv_calls)
  <2>1. /\ Once(Calls_here, on_reply) /\ HeldOnce(calls)
        /\ FourPlaces(Carried(Calls_in, on_message), Held(calls),
                      Carried(Calls_here, on_reply), Carried(Calls_out, to_server),
                      srv_calls)
    BY <1>4 DEF CallsApart
  <2>2. Calls_here[call] \subseteq Held(calls) /\ Held(calls') \subseteq Held(calls)
    BY <1>1 DEF Held
  <2>3. HeldOnce(calls') /\ Held(calls') \cap Calls_here[call] = {}
    BY <1>1, <2>1 DEF HeldOnce, Held
  <2>4. /\ Carried(Calls_here, on_reply') = Carried(Calls_here, on_reply) \cup Calls_here[call]
        /\ Calls_here[call] \cap Carried(Calls_here, on_reply) = {} => Once(Calls_here, on_reply')
    BY <1>1, <1>2, <2>1, CallTypes, AppendCarries
  <2> QED
    BY <2>1, <2>2, <2>3, <2>4 DEF FourPlaces
<1>5. CallsApart'
  BY <1>1, <1>4, ApartNext DEF CallsApart
<1> QED
  BY <1>3, <1>5

(* loop() sends the reply if the call is of this connection, and drops it  *)
(* if not: the ids it compares differ, or lie a round apart.               *)
LEMMA AnswerCalls ==
  ASSUME TypeInv, CallsDated, CallsApart, read_reply, UNCHANGED serverVars
  PROVE  CallsDated' /\ CallsApart'
<1> PICK c : c = Head(on_reply)
  OBVIOUS
<1>1. /\ on_reply # <<>> /\ on_reply' = Tail(on_reply)
      /\ UNCHANGED <<conn, sock, calls, on_message, srv_calls>>
  BY DEF read_reply, link, inbox, waits, serverVars
<1>2. c \in DatedReplies /\ on_reply' \in Seq(DatedReplies)
  BY <1>1 DEF CallsDated
<1>3. c \in CallSet /\ Dated(c)
  BY <1>2 DEF DatedReplies
<1>4. c.connection_id = connection_id => Timely(c)
  <2>1. SUFFICES ASSUME c.conn % ConnMod = conn % ConnMod, c.conn # conn
                 PROVE  conn - c.conn >= ConnMod
    BY <1>3 DEF Dated, Timely, connection_id
  <2>2. c.conn \in Nat /\ conn \in Nat /\ ConnMod \in Nat \ {0} /\ c.conn < conn
    BY <1>3, <2>1, CallTypes DEF Dated
  <2> QED
    BY <2>1, <2>2, SameRemainder
<1>5. \/ UNCHANGED to_server
      \/ /\ sock = "up" /\ c.connection_id = connection_id
         /\ to_server' = Append(to_server, CallReply(c))
  BY DEF read_reply, send_send_buf
<1> PICK m : m = CallReply(c)
  OBVIOUS
<1>6. m \in Outgoing /\ m.op = "Reply" /\ m.call = c
  BY <1>3 DEF CallReply, Outgoing
<1>7. CallsDated'
  <2>1. c.connection_id = connection_id => m \in TimelyOut
    BY <1>4, <1>6 DEF TimelyOut
  <2>2. to_server' \in Seq(TimelyOut)
    BY <1>5, <2>1 DEF CallsDated
  <2>3. sock # "up" => to_server' = <<>>
    BY <1>5 DEF CallsDated
  <2> QED
    BY <1>1, <1>2, <2>2, <2>3, SameConnection DEF CallsDated
<1>8. ASSUME sock = "up", conn <= ConnMod
      PROVE  /\ Once(Calls_here, on_reply') /\ Once(Calls_out, to_server')
             /\ FourPlaces(Carried(Calls_in, on_message), Held(calls),
                           Carried(Calls_here, on_reply'), Carried(Calls_out, to_server'),
                           srv_calls)
  <2>1. /\ Once(Calls_here, on_reply) /\ Once(Calls_out, to_server)
        /\ FourPlaces(Carried(Calls_in, on_message), Held(calls),
                      Carried(Calls_here, on_reply), Carried(Calls_out, to_server),
                      srv_calls)
    BY <1>8 DEF CallsApart
  <2>2. /\ Carried(Calls_here, on_reply') \subseteq Carried(Calls_here, on_reply)
        /\ Calls_here[c] \subseteq Carried(Calls_here, on_reply)
        /\ Once(Calls_here, on_reply')
        /\ Carried(Calls_here, on_reply') \cap Calls_here[c] = {}
    BY <1>1, <2>1, CallTypes, TailCarries
  <2>3. CASE UNCHANGED to_server
    BY <2>1, <2>2, <2>3 DEF FourPlaces
  <2>4. CASE c.connection_id = connection_id /\ to_server' = Append(to_server, m)
    <3>1. c.conn = conn
      BY <1>3, <1>4, <1>8, <2>4, CallTypes DEF Dated, Timely
    <3>2. Calls_out[m] = Calls_here[c]
      BY <1>3, <1>6, <3>1 DEF Calls_out, Calls_here
    <3>3. Calls_out[m] \cap Carried(Calls_out, to_server) = {}
      BY <2>1, <2>2, <3>2 DEF FourPlaces
    <3>4. /\ Carried(Calls_out, Append(to_server, m)) = Carried(Calls_out, to_server) \cup Calls_out[m]
          /\ Once(Calls_out, to_server) /\ Calls_out[m] \cap Carried(Calls_out, to_server) = {}
               => Once(Calls_out, Append(to_server, m))
      BY <1>6, CallTypes, AppendCarries
    <3>5. /\ Carried(Calls_out, to_server') = Carried(Calls_out, to_server) \cup Calls_here[c]
          /\ Once(Calls_out, to_server')
      BY <2>1, <2>4, <3>2, <3>3, <3>4
    <3> QED
      BY <2>1, <2>2, <3>5 DEF FourPlaces
  <2> QED
    BY <1>5, <2>3, <2>4
<1>9. HeldOnce(calls') <=> HeldOnce(calls)
  BY <1>1
<1>10. CallsApart'
  BY <1>1, <1>8, <1>9, ApartNext DEF CallsApart
<1> QED
  BY <1>7, <1>10

-----------------------------------------------------------------------------
(* What the network and the server do to calls.                            *)

(* A broken connection has nothing left on its way to the server.          *)
LEMMA NetworkCalls ==
  ASSUME TypeInv, CallsDated, Network, UNCHANGED serverVars
  PROVE  CallsDated' /\ CallsApart'
<1>1. /\ sock \notin {"none"} /\ sock' # "up" /\ to_server' = <<>>
      /\ UNCHANGED <<conn, calls, on_reply>>
  BY DEF Network, Break, Mute, ReceiverCloses, app, inbox, CallsDated
<1>2. CallsApart'
  BY <1>1 DEF CallsApart
<1>3. CallsDated'
  BY <1>1, SameConnection, EmptyQueue DEF CallsDated
<1> QED
  BY <1>2, <1>3

LEMMA LastIn ==
  ASSUME NEW S, NEW s \in Seq(S), NEW a, Append(s, a) \in Seq(S)
  PROVE  a \in S
<1>1. s \in Seq(S \cup {a})
  OBVIOUS
<1>2. /\ Len(s) \in Nat /\ Len(Append(s, a)) = Len(s) + 1
      /\ Append(s, a)[Len(s) + 1] = a
  BY <1>1
<1> QED
  BY <1>2

(* The server takes a reply, sends a call under a new number, or does      *)
(* something that is not about calls.                                      *)
TakesReply(m) ==
  /\ m \in Outgoing /\ m.op = "Reply" /\ FirstSent(m)
  /\ to_server' = Tail(to_server) /\ srv_calls' = srv_calls \ {m.call.id}
  /\ UNCHANGED on_message

SendsCall(a) ==
  /\ sock = "up" /\ a \in Incoming /\ a.type = "action_call" /\ a.id \notin srv_calls
  /\ on_message' = Append(on_message, a) /\ srv_calls' = srv_calls \cup {a.id}
  /\ UNCHANGED to_server

DoesOther ==
  /\ UNCHANGED srv_calls
  /\ UNCHANGED to_server \/ (to_server # <<>> /\ to_server' = Tail(to_server))
  /\ \/ UNCHANGED on_message
     \/ \E a \in Incoming : /\ sock = "up" /\ a.type # "action_call"
                            /\ on_message' = Append(on_message, a)

LEMMA ServerCallSteps ==
  ASSUME TypeInv, TypeInv', Server
  PROVE  (\E m : TakesReply(m)) \/ (\E a : SendsCall(a)) \/ DoesOther
<1>1. on_message \in Seq(Incoming) /\ on_message' \in Seq(Incoming)
  BY DEF TypeInv, TypeOK, ChannelTypeOK
<1>2. ASSUME NEW a, Deliver(a)
      PROVE  a \in Incoming
  BY <1>1, <1>2, LastIn DEF Deliver
<1>3. ASSUME NEW a, a.type # "action_call", Deliver(a), sock = "up"
      PROVE  \E x \in Incoming : /\ sock = "up" /\ x.type # "action_call"
                                 /\ on_message' = Append(on_message, x)
  BY <1>2, <1>3 DEF Deliver
<1>4. ASSUME NEW req, NEW res
      PROVE  Answer(req, res).type # "action_call"
  BY DEF Answer
<1>5. ASSUME NEW m, ServerHello(m) \/ ServerPing(m) \/ ServerAccepts(m) \/ ServerRefuses(m)
                    \/ ServerStateChanged(m)
      PROVE  DoesOther
  <2>1. /\ UNCHANGED srv_calls /\ sock = "up" /\ to_server # <<>>
        /\ to_server' = Tail(to_server)
    BY <1>5 DEF ServerHello, ServerPing, ServerAccepts, ServerRefuses, ServerStateChanged,
                Receives
  <2>2. \E a : a.type # "action_call" /\ Deliver(a)
    <3>1. CASE ServerHello(m)
      <4>1. /\ [type |-> "hello_id", client |-> conn].type # "action_call"
            /\ [type |-> "hello"].type # "action_call"
        OBVIOUS
      <4> QED
        BY <3>1, <4>1 DEF ServerHello
    <3>2. CASE ServerPing(m) \/ ServerAccepts(m) \/ ServerRefuses(m) \/ ServerStateChanged(m)
      <4>1. \E res : Deliver(Answer(m, res))
        BY <3>2 DEF ServerPing, ServerAccepts, ServerRefuses, ServerStateChanged
      <4> QED
        BY <1>4, <4>1
    <3> QED
      BY <1>5, <3>1, <3>2
  <2> QED
    BY <1>3, <2>1, <2>2 DEF DoesOther
<1>6. ASSUME NEW m, ServerPostpones(m)
      PROVE  DoesOther
  BY <1>6 DEF ServerPostpones, Receives, DoesOther
<1>7. ASSUME NEW m, ServerGetsReply(m)
      PROVE  TakesReply(m)
  BY <1>7, ReceivesTypes DEF ServerGetsReply, Receives, TakesReply, FirstSent
<1>8. ASSUME NEW req, ServerAnswers(req)
      PROVE  DoesOther
  BY <1>3, <1>4, <1>8 DEF ServerAnswers, DoesOther
<1>9. ASSUME NEW num, NEW path, ServerCalls(num, path)
      PROVE  \E a : SendsCall(a)
  <2>1. PICK a : a = [type |-> "action_call", id |-> num, path |-> path]
    OBVIOUS
  <2>2. a.type = "action_call" /\ a.id = num
    BY <2>1
  <2>3. Deliver(a)
    BY <1>9, <2>1 DEF ServerCalls
  <2> QED
    BY <1>2, <1>9, <2>2, <2>3 DEF ServerCalls, Pushes, SendsCall, Deliver
<1>10. ASSUME NEW path, ServerNotifies(path)
       PROVE  DoesOther
  <2>1. PICK a : a = [type |-> "event_notify", path |-> path]
    OBVIOUS
  <2>2. a.type # "action_call" /\ Deliver(a)
    BY <1>10, <2>1 DEF ServerNotifies
  <2> QED
    BY <1>3, <1>10, <2>2 DEF ServerNotifies, Pushes, DoesOther
<1>11. ASSUME NEW path, NEW value, WorldChanges(path, value)
       PROVE  DoesOther
  <2>1. PICK a : a = [type |-> "state_changed", path |-> path, value |-> value]
    OBVIOUS
  <2>2. a.type # "action_call"
    BY <2>1
  <2>3. UNCHANGED on_message \/ (sock = "up" /\ Deliver(a))
    BY <1>11, <2>1 DEF WorldChanges
  <2> QED
    BY <1>3, <1>11, <2>2, <2>3 DEF WorldChanges, DoesOther
<1> QED
  BY <1>5, <1>6, <1>7, <1>8, <1>9, <1>10, <1>11 DEF Server, ServerReceives

LEMMA ServerKeepsCalls ==
  ASSUME TypeInv, TypeInv', CallsDated, CallsApart, Server
  PROVE  CallsDated' /\ CallsApart'
<1>1. UNCHANGED <<conn, sock, calls, on_reply>>
  BY ServerSteps DEF ServerMoves, untouchedByServer, link, app, inbox
<1>2. /\ to_server \in Seq(Outgoing) /\ to_server \in Seq(TimelyOut)
      /\ on_message \in Seq(Incoming)
  BY CallTypes DEF CallsDated
<1>3. to_server # <<>> => Tail(to_server) \in Seq(TimelyOut) /\ sock = "up"
  BY <1>2 DEF CallsDated
<1>4. /\ UNCHANGED to_server \/ (to_server # <<>> /\ to_server' = Tail(to_server))
      /\ UNCHANGED on_message \/ sock = "up"
  BY ServerCallSteps DEF TakesReply, SendsCall, DoesOther, FirstSent
<1>5. CallsDated'
  <2>1. to_server' \in Seq(TimelyOut) /\ (sock # "up" => to_server' = <<>>)
    BY <1>2, <1>3, <1>4 DEF CallsDated
  <2> QED
    BY <1>1, <1>4, <2>1, SameConnection DEF CallsDated
<1>6. ASSUME sock = "up", conn <= ConnMod
      PROVE  /\ Once(Calls_in, on_message') /\ Once(Calls_out, to_server')
             /\ FourPlaces(Carried(Calls_in, on_message'), Held(calls),
                           Carried(Calls_here, on_reply), Carried(Calls_out, to_server'),
                           srv_calls')
  <2>1. /\ Once(Calls_in, on_message) /\ Once(Calls_out, to_server)
        /\ FourPlaces(Carried(Calls_in, on_message), Held(calls),
                      Carried(Calls_here, on_reply), Carried(Calls_out, to_server),
                      srv_calls)
    BY <1>6 DEF CallsApart
  <2>2. to_server # <<>> =>
          /\ Carried(Calls_out, Tail(to_server)) \subseteq Carried(Calls_out, to_server)
          /\ Calls_out[Head(to_server)] \subseteq Carried(Calls_out, to_server)
          /\ Once(Calls_out, Tail(to_server))
          /\ Carried(Calls_out, Tail(to_server)) \cap Calls_out[Head(to_server)] = {}
    BY <1>2, <2>1, TailCarries
  <2>3. ASSUME NEW a \in Incoming
        PROVE  /\ Carried(Calls_in, Append(on_message, a)) = Carried(Calls_in, on_message) \cup Calls_in[a]
               /\ Calls_in[a] \cap Carried(Calls_in, on_message) = {}
                    => Once(Calls_in, Append(on_message, a))
    BY <1>2, <2>1, AppendCarries
  <2>4. ASSUME NEW m, TakesReply(m)
        PROVE  /\ Once(Calls_in, on_message') /\ Once(Calls_out, to_server')
               /\ FourPlaces(Carried(Calls_in, on_message'), Held(calls),
                             Carried(Calls_here, on_reply), Carried(Calls_out, to_server'),
                             srv_calls')
    <3>1. Calls_out[m] = {m.call.id}
      BY <2>4 DEF TakesReply, Calls_out
    <3>2. /\ to_server # <<>> /\ m = Head(to_server) /\ to_server' = Tail(to_server)
          /\ srv_calls' = srv_calls \ Calls_out[m] /\ UNCHANGED on_message
      BY <2>4, <3>1 DEF TakesReply, FirstSent
    <3> QED
      BY <2>1, <2>2, <3>2 DEF FourPlaces
  <2>5. ASSUME NEW a, SendsCall(a)
        PROVE  /\ Once(Calls_in, on_message') /\ Once(Calls_out, to_server')
               /\ FourPlaces(Carried(Calls_in, on_message'), Held(calls),
                             Carried(Calls_here, on_reply), Carried(Calls_out, to_server'),
                             srv_calls')
    <3>1. a \in Incoming /\ Calls_in[a] = {a.id} /\ a.id \notin srv_calls
      BY <2>5 DEF SendsCall, Calls_in
    <3>2. Calls_in[a] \cap srv_calls = {} /\ srv_calls' = srv_calls \cup Calls_in[a]
      BY <2>5, <3>1 DEF SendsCall
    <3>3. /\ Carried(Calls_in, on_message') = Carried(Calls_in, on_message) \cup Calls_in[a]
          /\ Once(Calls_in, on_message') /\ UNCHANGED to_server
      BY <2>1, <2>3, <2>5, <3>1, <3>2 DEF SendsCall, FourPlaces
    <3> QED
      BY <2>1, <3>2, <3>3 DEF FourPlaces
  <2>6. ASSUME DoesOther
        PROVE  /\ Once(Calls_in, on_message') /\ Once(Calls_out, to_server')
               /\ FourPlaces(Carried(Calls_in, on_message'), Held(calls),
                             Carried(Calls_here, on_reply), Carried(Calls_out, to_server'),
                             srv_calls')
    <3>1. /\ Carried(Calls_in, on_message') = Carried(Calls_in, on_message)
          /\ Once(Calls_in, on_message')
      <4>1. CASE UNCHANGED on_message
        BY <2>1, <4>1
      <4>2. ASSUME NEW a \in Incoming, a.type # "action_call",
                   on_message' = Append(on_message, a)
            PROVE  /\ Carried(Calls_in, on_message') = Carried(Calls_in, on_message)
                   /\ Once(Calls_in, on_message')
        <5>1. Calls_in[a] = {}
          BY <4>2 DEF Calls_in
        <5> QED
          BY <2>3, <4>2, <5>1
      <4> QED
        BY <2>6, <4>1, <4>2 DEF DoesOther
    <3>2. /\ Carried(Calls_out, to_server') \subseteq Carried(Calls_out, to_server)
          /\ Once(Calls_out, to_server') /\ UNCHANGED srv_calls
      BY <2>1, <2>2, <2>6 DEF DoesOther
    <3> QED
      BY <2>1, <3>1, <3>2 DEF FourPlaces
  <2> QED
    BY <2>4, <2>5, <2>6, ServerCallSteps
<1>7. CallsApart'
  BY <1>1, <1>6, ApartNext DEF CallsApart
<1> QED
  BY <1>5, <1>7

-----------------------------------------------------------------------------
LEMMA NextCalls ==
  ASSUME TypeInv, TypeInv', Clean, CallsDated, CallsApart, [Next]_vars
  PROVE  CallsDated' /\ CallsApart'
<1>1. CASE ActorCloses /\ ForgetConnection
  BY <1>1, CloseCalls
<1>2. CASE ActorRuns /\ UNCHANGED serverVars
  <2>1. CASE read_message
    BY <1>2, <2>1, ReadCalls
  <2>2. CASE read_reply
    BY <1>2, <2>2, AnswerCalls
  <2>3. CASE UNCHANGED <<conn, sock, calls, on_reply, on_message>> /\ UNCHANGED to_server
    BY <1>2, <2>3, CallsUntouched DEF serverVars
  <2>4. ASSUME NEW m \in Outgoing, m.op # "Reply", sock = "up",
               to_server' = Append(to_server, m),
               UNCHANGED <<conn, sock, calls, on_reply, on_message>>
        PROVE  CallsDated' /\ CallsApart'
    BY <1>2, <2>4, SendCalls DEF serverVars
  <2>5. CASE close_fails \/ actorpp_connect
    BY <2>5, CloseCalls, ConnectCalls
  <2> QED
    BY <1>2, <2>1, <2>2, <2>3, <2>4, <2>5, RunCalls
<1>3. CASE Application /\ UNCHANGED serverVars
  <2>1. CASE \E call \in calls : reply(call)
    BY <1>3, <2>1, ReplyCalls
  <2>2. CASE (\E r \in Reqs : Ask(r)) \/ test_disconnect \/ exit
    <3>1. UNCHANGED <<conn, sock, calls, on_reply, srv_calls, on_message, to_server>>
      BY <1>3, <2>2 DEF Ask, test_disconnect, exit, link, inbox, waits, serverVars
    <3> QED
      BY <3>1, CallsUntouched
  <2> QED
    BY <1>3, <2>1, <2>2 DEF Application
<1>4. CASE Network /\ UNCHANGED serverVars
  BY <1>4, NetworkCalls
<1>5. CASE Server
  BY <1>5, ServerKeepsCalls
<1>6. CASE Finished \/ UNCHANGED vars
  <2>1. UNCHANGED <<conn, sock, calls, on_reply, srv_calls, on_message, to_server>>
    BY <1>6 DEF Finished, vars, clientVars, link, app, inbox, waits, serverVars
  <2> QED
    BY <2>1, CallsUntouched
<1> QED
  BY <1>1, <1>2, <1>3, <1>4, <1>5, <1>6 DEF Next

(* No callback's late reply reaches a connection it is not meant for, and  *)
(* no call is answered twice, until the connection ids wrap: loop()'s      *)
(* comparison of a call's connection id with its own is enough.            *)
THEOREM RepliesGoHome == Spec => []RepliesAreAwaited
<1>1. Init => CallsDated /\ CallsApart
  BY EmptyQueue DEF Init, ClientInit, CallsDated, CallsApart
<1>2. TypeInv /\ TypeInv' /\ Clean /\ CallsDated /\ CallsApart /\ [Next]_vars
        => CallsDated' /\ CallsApart'
  BY NextCalls
<1>3. TypeInv /\ CallsDated /\ CallsApart => RepliesAreAwaited
  BY CallInvSuffices DEF CallInv
<1> QED
  BY <1>1, <1>2, <1>3, TypeInvariant, CleanInvariant, PTL DEF Spec
=============================================================================
