---------------------------- MODULE StateProofs ----------------------------
(***************************************************************************)
(* Proofs about the values of states, for any number of paths, requests,   *)
(* values and connections: what the application published last is what the *)
(* server holds, and what an observer received last is the value of the    *)
(* state, as soon as nothing is on its way.                                *)
(***************************************************************************)
EXTENDS SetupProofs

(* Shorthand of the proofs: the steps that serve an unbroken connection.   *)
Serves == pc' = "main" /\ sock' = "up"

LEMMA AlreadyUp ==
  ASSUME TypeInv, [Next]_vars, sock' = "up", pc' \in Serving
  PROVE  /\ sock = "up" /\ ~ActorCloses /\ ~Network
         /\ pc \in Serving \/ (ActorRuns /\ ReadsInHello)
<1>1. ~ActorCloses /\ ~Network
  BY DEF ActorCloses, connect, BackoffExit, Serving, Network, Break, Mute, ReceiverCloses
<1>2. CASE ActorRuns
  <2>1. sock' = sock
    <3>1. ~close_fails /\ ~actorpp_connect
      BY DEF close_fails, actorpp_connect, Serving
    <3>2. \/ BackoffExpires \/ write_hello \/ reregister_done \/ read_message
          \/ \E step \in rereg : reregister_send(step) \/ check_result(step)
          \/ read_close \/ see_exit \/ read_ping_result \/ read_reply \/ read_command
          \/ idle_timeout \/ ping_timeout_expires
      BY <1>2, <3>1 DEF ActorRuns, do_hello, wait_for_reply, loop
    <3> QED
      BY <3>2
      DEF BackoffExpires, write_hello, reregister_done, read_message, reregister_send,
          check_result, read_close, see_exit, read_ping_result, read_reply, read_command,
          idle_timeout, ping_timeout_expires, link
  <2> QED
    BY <1>1, <1>2, <2>1, RunStages
<1>3. CASE Application \/ Finished \/ UNCHANGED vars
  BY <1>1, <1>3
  DEF Application, Ask, reply, test_disconnect, exit, Finished, vars, clientVars, link
<1>4. CASE Server
  BY <1>1, <1>4, ServerSteps DEF ServerMoves, untouchedByServer, link
<1> QED
  BY <1>1, <1>2, <1>3, <1>4 DEF Next

(* What the actor does while it serves.                                    *)
SendsOwn(m) ==
  /\ m \in Outgoing /\ to_server' = Append(to_server, m)
  /\ UNCHANGED <<registries, on_message, results, asked, view>>
  /\ \/ m.op = "Reply" /\ UNCHANGED <<reply_channels, clash>>
     \/ m.op = "Ping" /\ m.to = "ping" /\ await_reply("ping", "Result")
SendsCommand(r) ==
  /\ r \in Reqs /\ Queued(r) /\ asked[r] \in Commands /\ IsCommand(r)
  /\ to_server' = Append(to_server, CommandMessage(r))
  /\ await_reply(r, ReplyType(asked[r].op))
  /\ UNCHANGED <<on_message, results, asked, view>>

LEMMA MainSteps ==
  ASSUME TypeInv, ActorRuns, pc = "main", Serves, sock = "up"
  PROVE  \/ read_message
         \/ \E m : SendsOwn(m)
         \/ \E r : SendsCommand(r)
         \/ UNCHANGED <<to_server, registries, on_message, results, reply_channels,
                        asked, view, clash>>
<1>1. \/ read_ping_result \/ read_message \/ read_reply \/ read_command \/ idle_timeout
  BY DEF ActorRuns, BackoffExpires, close_fails, actorpp_connect, write_hello, do_hello,
         reregister_send, wait_for_reply, reregister_done, loop, Serves, read_close,
         see_exit, ping_timeout_expires
<1>2. CASE read_ping_result
  BY <1>2 DEF read_ping_result, app, inbox, ids
<1>3. CASE read_reply
  <2>1. CASE UNCHANGED to_server
    BY <1>3, <2>1 DEF read_reply, waits, inbox, ids
  <2>2. PICK m : m = CallReply(Head(on_reply))
    OBVIOUS
  <2>3. Head(on_reply) \in CallSet
    BY <1>3, SeqTypes DEF TypeInv, TypeOK, ChannelTypeOK, read_reply
  <2>4. m \in Outgoing /\ m.op = "Reply"
    BY <2>2, <2>3 DEF CallReply, Outgoing
  <2>5. CASE send_send_buf(m, "main")
    BY <1>3, <2>2, <2>4, <2>5 DEF send_send_buf, read_reply, SendsOwn, waits, inbox, ids
  <2> QED
    BY <1>3, <2>1, <2>2, <2>5 DEF read_reply
<1>4. CASE idle_timeout
  <2>1. PICK m : m = Request("Ping", next_id, None, None, "ping")
    OBVIOUS
  <2>2. m \in Outgoing /\ m.op = "Ping" /\ m.to = "ping"
    BY <2>1, FlightTypes DEF Request, Outgoing, PingRequests, Chans
  <2> QED
    BY <1>4, <2>1, <2>2 DEF idle_timeout, send_send_buf, SendsOwn, waits, app, inbox
<1>5. CASE read_command
  <2>1. CASE Disconnect
    BY <1>5, <2>1 DEF Disconnect, read_command, inbox, ids
  <2>2. CASE Head(on_command) # "Disconnect" /\ IsCommand(Head(on_command))
    <3>1. PICK r \in Reqs : r = Head(on_command) /\ asked[r] \in Commands /\ IsCommand(r)
      BY <1>5, <2>2, HeadAsked DEF read_command
    <3>2. Queued(r)
      <4>1. on_command \in Seq(Reqs \cup {"Disconnect"}) /\ on_command # <<>>
        BY <1>5 DEF read_command, TypeInv, TypeOK, ChannelTypeOK
      <4>2. 1 \in 1 .. Len(on_command) /\ r = on_command[1]
        BY <3>1, <4>1
      <4> QED
        BY <4>2 DEF Queued
    <3>3. to_server' = Append(to_server, CommandMessage(r))
      BY <3>1, CommandSteps DEF send_send_buf
    <3>4. await_reply(r, ReplyType(asked[r].op))
      BY <3>1, CommandSteps
    <3> QED
      BY <1>5, <3>1, <3>2, <3>3, <3>4 DEF read_command, SendsCommand, inbox
  <2> QED
    BY <1>5, <2>1, <2>2 DEF read_command, IsCommand
<1> QED
  BY <1>1, <1>2, <1>3, <1>4, <1>5

-----------------------------------------------------------------------------
(* A connection that is up brings whole messages only.                     *)
WholeIn == {m \in Incoming : m.type # "fragment"}

Whole ==
  sock = "up" =>
    /\ on_message \in Seq(WholeIn)
    /\ pc \in Serving => unpacker = "empty"

LEMMA ReadWhole ==
  ASSUME TypeInv, Whole, read_message, sock = "up"
  PROVE  /\ on_message' \in Seq(WholeIn)
         /\ pc' \in Serving => unpacker = "empty" \/ pc \in Serving
         /\ UNCHANGED unpacker
<1>1. /\ on_message # <<>> /\ on_message \in Seq(WholeIn) /\ on_message' = Tail(on_message)
  BY DEF read_message, Whole
<1>2. Head(on_message) \in WholeIn /\ Tail(on_message) \in Seq(WholeIn)
  BY <1>1, SeqTypes
<1>3. Head(on_message).type # "fragment" /\ UNCHANGED unpacker
  BY <1>2 DEF WholeIn, read_message
<1>4. pc' \in Serving => unpacker = "empty" \/ pc \in Serving
  BY <1>3 DEF read_message, Serving
<1> QED
  BY <1>1, <1>2, <1>3, <1>4

LEMMA NextWhole ==
  ASSUME TypeInv, Clean, Whole, [Next]_vars
  PROVE  Whole'
<1> SUFFICES ASSUME sock' = "up" PROVE Whole'
  BY DEF Whole
<1>1. CASE ActorCloses
  BY <1>1 DEF ActorCloses, connect, BackoffExit, cleanup_connection, stop_receiver
<1>2. CASE Network
  BY <1>2 DEF Network, Break, Mute, ReceiverCloses
<1>3. CASE Server
  <2>1. ServerMoves
    BY <1>3, ServerSteps
  <2>2. UNCHANGED <<pc, sock, unpacker>>
    BY <2>1 DEF ServerMoves, untouchedByServer, link
  <2>3. \A a \in Incoming : Delivers(a) => a \in WholeIn
    BY DEF Delivers, WholeIn
  <2>4. on_message' \in Seq(WholeIn)
    BY <2>1, <2>2, <2>3, SeqTypes DEF ServerMoves, Whole
  <2> QED
    BY <2>2, <2>4 DEF Whole
<1>4. CASE actorpp_connect
  BY <1>4, EmptyQueue DEF actorpp_connect, waits, Clean, Whole, Serving
<1>5. CASE ActorRuns /\ ~actorpp_connect
  <2>1. sock = "up"
    BY <1>5 DEF ActorRuns, BackoffExpires, close_fails, do_hello, wait_for_reply, loop,
                write_hello, reregister_done, read_message, reregister_send, check_result,
                read_close, see_exit, read_ping_result, read_reply, read_command,
                idle_timeout, ping_timeout_expires, link
  <2>2. CASE read_message
    BY <2>1, <2>2, ReadWhole DEF Whole
  <2>3. CASE ~read_message
    <3>1. UNCHANGED <<on_message, unpacker>>
      BY <1>5, <2>3 DEF ActorRuns, BackoffExpires, close_fails, do_hello, wait_for_reply,
                loop, write_hello, reregister_done, reregister_send, check_result,
                read_close, see_exit, read_ping_result, read_reply, read_command,
                idle_timeout, ping_timeout_expires, waits
    <3>2. pc' \in Serving => pc \in Serving
      BY <1>5, <2>3, RunStages DEF ReadsInHello
    <3> QED
      BY <2>1, <3>1, <3>2 DEF Whole
  <2> QED
    BY <2>2, <2>3
<1>6. CASE Application \/ Finished \/ UNCHANGED vars
  BY <1>6 DEF Application, Ask, reply, test_disconnect, exit, Finished, vars, clientVars,
              link, waits, Whole
<1> QED
  BY <1>1, <1>2, <1>3, <1>4, <1>5, <1>6 DEF Next

-----------------------------------------------------------------------------
(* Published states.  A change that the server refused is known as such by *)
(* the server's error that was its result, or that will be: a reply with   *)
(* it is the only message of the request that is left.                     *)
RepliesTo(m, r) == IsReply(m) /\ m.to = r
Doomed(r) ==
  /\ Waits(r)
  /\ \A i \in 1 .. Len(to_server) : AsksReply(to_server[i]) => to_server[i].to # r
  /\ \A req \in srv_pending : req.to # r
  /\ \A i \in 1 .. Len(on_message) :
       RepliesTo(on_message[i], r) => on_message[i].res = "Error"
  /\ \E i \in 1 .. Len(on_message) : RepliesTo(on_message[i], r)
Refused(r) == results[r] = <<[res |-> "Error", src |-> r]>> \/ Doomed(r)

(* A result stays what it is.                                              *)
LEMMA ResultsStay ==
  ASSUME RequestInv, [Next]_vars, pc' = "main", NEW r \in Reqs, results[r] # <<>>
  PROVE  results'[r] = results[r]
<1>1. ~ActorCloses
  BY DEF ActorCloses, connect, BackoffExit
<1>2. CASE UNCHANGED results
  BY <1>2
<1>3. CASE read_message
  <2>1. CASE handle_reply(Head(on_message)) /\ Expects(Head(on_message))
    <3>1. PICK m : m = Head(on_message)
      OBVIOUS
    <3>2. PICK chan : chan = reply_channels[m.id].to
      OBVIOUS
    <3>3. m.id \in Ids /\ reply_channels[m.id] # None
      <4>1. m \in Incoming /\ IsReply(m)
        BY <1>3, <2>1, <3>1, FlightTypes, SeqTypes
        DEF RequestInv, read_message, handle_reply, IsReply
      <4> QED
        BY <2>1, <3>1, <4>1, IncomingCases DEF IsReply, Expects
    <3>4. chan # r
      BY <3>2, <3>3 DEF RequestInv, Places, HasPlace, Waits
    <3>5. push_result(chan, m)
      BY <2>1, <3>1, <3>2 DEF handle_reply
    <3> QED
      BY <3>4, <3>5, PlaceTypes DEF RequestInv, push_result
  <2> QED
    BY <1>2, <1>3, <2>1
    DEF read_message, handle_message, handle_reply, handle_push, handle_hello_message,
        inbox
<1>4. CASE ActorRuns /\ ~read_message
  BY <1>2, <1>4
  DEF ActorRuns, BackoffExpires, close_fails, actorpp_connect, write_hello, do_hello,
      reregister_send, wait_for_reply, check_result, reregister_done, loop, read_close,
      see_exit, read_ping_result, read_reply, read_command, idle_timeout,
      ping_timeout_expires, inbox
<1>5. CASE Application \/ Network \/ Finished \/ UNCHANGED vars
  BY <1>2, <1>5
  DEF Application, Ask, reply, test_disconnect, exit, Network, Break, Mute,
      ReceiverCloses, Finished, vars, clientVars, inbox
<1>6. CASE Server
  BY <1>2, <1>6, ServerSteps DEF RequestInv, ServerMoves, untouchedByServer, inbox
<1> QED
  BY <1>1, <1>3, <1>4, <1>5, <1>6 DEF Next

(* Reading a message keeps what is refused so: the reply that is left for  *)
(* the request brings it the error.                                        *)
LEMMA ReadRefused ==
  ASSUME RequestInv, Whole, read_message, pc = "main", pc' = "main", sock = "up", ~clash,
         NEW r \in Reqs, Doomed(r), UNCHANGED serverVars
  PROVE  Refused(r)'
<1> PICK m : m = Head(on_message)
  OBVIOUS
<1>1. /\ on_message \in Seq(Incoming) /\ on_message # <<>> /\ on_message' = Tail(on_message)
      /\ m = on_message[1] /\ 1 \in 1 .. Len(on_message) /\ m \in Incoming
      /\ Len(on_message') = Len(on_message) - 1 /\ Len(on_message) \in Nat
      /\ \A i \in 1 .. Len(on_message') :
           i + 1 \in 1 .. Len(on_message) /\ on_message'[i] = on_message[i + 1]
  BY FlightTypes, TailElements, SeqTypes DEF RequestInv, read_message
<1>2. UNCHANGED <<to_server, srv_pending>>
  BY DEF read_message, serverVars
<1>3. ASSUME Waits(r)', ~RepliesTo(m, r) PROVE Refused(r)'
  <2>1. PICK i \in 1 .. Len(on_message) : RepliesTo(on_message[i], r)
    BY DEF Doomed
  <2>2. PICK k : k = i - 1
    OBVIOUS
  <2>3. k \in 1 .. Len(on_message') /\ k + 1 = i
    BY <1>1, <1>3, <2>1, <2>2
  <2>4. RepliesTo(on_message'[k], r)
    BY <1>1, <2>1, <2>3
  <2>5. \A j \in 1 .. Len(on_message') :
          RepliesTo(on_message'[j], r) => on_message'[j].res = "Error"
    BY <1>1 DEF Doomed
  <2> QED
    BY <1>2, <1>3, <2>3, <2>4, <2>5 DEF Doomed, Refused
<1>4. CASE UNCHANGED reply_channels /\ ~RepliesTo(m, r)
  <2>1. Waits(r)'
    BY <1>4 DEF Doomed, Waits
  <2> QED
    BY <1>3, <1>4, <2>1
<1>5. CASE handle_reply(m)
  <2>1. IsReply(m) /\ m.id \in Ids
    BY <1>1, <1>5, IncomingCases DEF handle_reply, IsReply
  <2>2. Fits(reply_channels, m)
    <3>1. TypeInv /\ Flight(to_server, srv_pending, on_message, reply_channels)
      BY DEF RequestInv, InFlight
    <3>2. on_message # <<>> /\ m = Head(on_message)
      BY <1>1
    <3>3. /\ to_server \in Seq(Outgoing) /\ on_message \in Seq(Incoming)
          /\ reply_channels \in [Ids -> ReplyChannels \cup {None}]
      BY <3>1, FlightTypes
    <3>4. IsReply(Head(on_message)) => Fits(reply_channels, Head(on_message))
      BY <3>1, <3>2, <3>3, FlightRead
    <3> QED
      BY <2>1, <3>2, <3>4
  <2>3. CASE m.to = r
    <3>1. m.res = "Error" /\ results[r] = <<>>
      BY <1>1, <2>1, <2>3 DEF Doomed, RepliesTo, RequestInv, Places, HasPlace
    <3>2. push_result(r, m)
      BY <1>5, <2>2, <2>3 DEF handle_reply, Fits, Expects
    <3>3. PICK x : x = [res |-> "Error", src |-> r]
      OBVIOUS
    <3>4. results'[r] = Append(<<>>, x)
      BY <2>3, <3>1, <3>2, <3>3, PlaceTypes DEF RequestInv, push_result
    <3>5. Append(<<>>, x) = <<x>>
      OBVIOUS
    <3> QED
      BY <3>3, <3>4, <3>5 DEF Refused
  <2>4. CASE m.to # r
    <3>1. /\ \A n \in Ids : n # m.id => reply_channels'[n] = reply_channels[n]
          /\ reply_channels[m.id].to # r
      BY <1>5, <2>1, <2>2, <2>4, PlaceTypes DEF RequestInv, handle_reply, Fits
    <3>2. Waits(r)'
      BY <3>1 DEF Doomed, Waits
    <3> QED
      BY <1>3, <2>4, <3>2 DEF RepliesTo
  <2> QED
    BY <2>3, <2>4
<1>6. CASE handle_push(m)
  BY <1>4, <1>6 DEF handle_push, RepliesTo, IsReply
<1>7. handle_message(m)
  <2>1. on_message \in Seq(WholeIn) /\ unpacker = "empty"
    BY DEF Whole, Serving
  <2>2. m \in WholeIn
    BY <1>1, <2>1, SeqTypes
  <2> QED
    BY <2>1, <2>2 DEF read_message, WholeIn
<1> QED
  BY <1>5, <1>6, <1>7 DEF handle_message

(* Nothing is sent for a request that waits already.                       *)
LEMMA SendRefused ==
  ASSUME RequestInv, NEW r \in Reqs, Doomed(r), ~clash', UNCHANGED on_message,
         UNCHANGED serverVars, (\E m : SendsOwn(m)) \/ (\E c : SendsCommand(c))
  PROVE  Refused(r)'
<1>1. ASSUME NEW m \in Outgoing, to_server' = Append(to_server, m), Waits(r)',
             AsksReply(m) => m.to # r
      PROVE  Refused(r)'
  <2>1. \A i \in 1 .. Len(to_server') :
          AsksReply(to_server'[i]) => to_server'[i].to # r
    BY <1>1, FlightTypes, AppendElements DEF RequestInv, Doomed
  <2> QED
    BY <1>1, <2>1 DEF Doomed, Refused, serverVars
<1>2. ASSUME NEW m, SendsOwn(m) PROVE Refused(r)'
  <2>1. CASE m.op = "Reply" /\ UNCHANGED reply_channels
    BY <1>1, <1>2, <2>1 DEF SendsOwn, AsksReply, Doomed, Waits
  <2>2. CASE m.op = "Ping" /\ m.to = "ping" /\ await_reply("ping", "Result")
    <3>1. "ping" \in Chans /\ "ping" # r /\ "ping" \notin Reqs
      BY ClientAssumption DEF Chans
    <3>2. Waits(r)'
      BY <2>2, <3>1, AwaitPlaces DEF RequestInv, Places, Doomed
    <3> QED
      BY <1>1, <1>2, <2>2, <3>1, <3>2 DEF SendsOwn
  <2> QED
    BY <1>2, <2>1, <2>2 DEF SendsOwn
<1>3. ASSUME NEW c, SendsCommand(c) PROVE Refused(r)'
  <2>1. c \in Reqs /\ ~Waits(c) /\ c # r /\ c \in Chans
    BY <1>3 DEF SendsCommand, RequestInv, Places, HasPlace, Doomed, Chans
  <2>2. ReplyType(asked[c].op) \in {"Result", "StateResult"}
    BY DEF ReplyType
  <2>3. Waits(r)'
    BY <1>3, <2>1, <2>2, AwaitPlaces DEF RequestInv, Places, Doomed, SendsCommand
  <2>4. CommandMessage(c) \in Outgoing /\ CommandMessage(c).to = c
    BY <1>3, CommandMessageType DEF RequestInv, SendsCommand, CommandMessage, Request
  <2> QED
    BY <1>1, <1>3, <2>1, <2>3, <2>4 DEF SendsCommand
<1> QED
  BY <1>2, <1>3

LEMMA ServerRefused ==
  ASSUME TypeInv, NEW r \in Reqs, Refused(r), Server
  PROVE  Refused(r)'
<1>1. ServerMoves
  BY ServerSteps
<1>2. UNCHANGED <<results, reply_channels>>
  BY <1>1 DEF ServerMoves, untouchedByServer, inbox
<1>3. CASE Doomed(r)
  <2>1. Waits(r)'
    BY <1>2, <1>3 DEF Doomed, Waits
  <2>2. \A req : Asks(req) => req.to # r
    <3>1. to_server # <<>> =>
            1 \in 1 .. Len(to_server) /\ Head(to_server) = to_server[1]
      BY FlightTypes, TailElements
    <3> QED
      BY <1>3, <3>1 DEF Asks, FirstSent, Doomed
  <2>3. \A req \in srv_pending' : req.to # r
    BY <1>1, <2>2 DEF ServerMoves
  <2>4. \A i \in 1 .. Len(to_server') :
          AsksReply(to_server'[i]) => to_server'[i].to # r
    <3>1. to_server # <<>> /\ to_server' = Tail(to_server) =>
            \A i \in 1 .. Len(to_server') :
              i + 1 \in 1 .. Len(to_server) /\ to_server'[i] = to_server[i + 1]
      BY FlightTypes, TailElements
    <3> QED
      BY <1>1, <1>3, <3>1 DEF ServerMoves, Doomed
  <2>5. \A i \in 1 .. Len(on_message') :
          RepliesTo(on_message'[i], r) => on_message'[i].res = "Error"
    <3>1. ASSUME NEW a \in Incoming, Delivers(a), on_message' = Append(on_message, a),
                 NEW i \in 1 .. Len(on_message'), RepliesTo(on_message'[i], r)
          PROVE  on_message'[i].res = "Error"
      <4>1. CASE i \in 1 .. Len(on_message) /\ on_message'[i] = on_message[i]
        BY <1>3, <3>1, <4>1 DEF Doomed
      <4>2. CASE on_message'[i] = a
        BY <2>2, <3>1, <4>2 DEF Delivers, RepliesTo, IsReply
      <4> QED
        BY <3>1, <4>1, <4>2, FlightTypes, AppendElements
    <3> QED
      BY <1>1, <1>3, <3>1 DEF ServerMoves, Doomed
  <2>6. \E i \in 1 .. Len(on_message') : RepliesTo(on_message'[i], r)
    <3>1. PICK i \in 1 .. Len(on_message) : RepliesTo(on_message[i], r)
      BY <1>3 DEF Doomed
    <3>2. \A a \in Incoming : i \in 1 .. Len(Append(on_message, a)) /\
                              Append(on_message, a)[i] = on_message[i]
      BY <3>1, FlightTypes
    <3> QED
      BY <1>1, <3>1, <3>2 DEF ServerMoves
  <2> QED
    BY <2>1, <2>3, <2>4, <2>5, <2>6 DEF Doomed, Refused
<1> QED
  BY <1>2, <1>3 DEF Refused

LEMMA RefusedStays ==
  ASSUME RequestInv, Whole, [Next]_vars, pc = "main", Serves, ~clash',
         NEW r \in Reqs, Refused(r)
  PROVE  Refused(r)'
<1>1. TypeInv /\ sock = "up" /\ ~ActorCloses /\ ~Network
  BY AlreadyUp DEF RequestInv, Serves, Serving
<1>2. CASE results[r] = <<[res |-> "Error", src |-> r]>>
  <2>1. results[r] # <<>>
    BY <1>2
  <2> QED
    BY <1>2, <2>1, ResultsStay DEF Refused, Serves
<1>3. ASSUME Doomed(r), UNCHANGED <<to_server, on_message, reply_channels, srv_pending>>
      PROVE  Refused(r)'
  BY <1>3 DEF Doomed, Refused, Waits
<1>4. CASE Doomed(r) /\ ActorRuns /\ UNCHANGED serverVars
  <2>1. CASE read_message
    <3>1. ~clash
      BY <2>1 DEF read_message, ids
    <3> QED
      BY <1>1, <1>4, <2>1, <3>1, ReadRefused DEF Serves
  <2>2. CASE (\E m : SendsOwn(m)) \/ (\E c : SendsCommand(c))
    BY <1>4, <2>2, SendRefused DEF SendsOwn, SendsCommand
  <2> QED
    BY <1>1, <1>3, <1>4, <2>1, <2>2, MainSteps DEF serverVars
<1>5. CASE Doomed(r) /\ (Application \/ Finished \/ UNCHANGED vars) /\ UNCHANGED serverVars
  BY <1>3, <1>5
  DEF Application, Ask, reply, test_disconnect, exit, Finished, vars, clientVars,
      serverVars, waits
<1>6. UNCHANGED vars => UNCHANGED serverVars
  BY DEF vars
<1> QED
  BY <1>1, <1>2, <1>4, <1>5, <1>6, ServerRefused DEF Next, Finished, Refused

(* The invariant: the last change that is on its way has the value of the  *)
(* registry, and if none is, the server has it or has refused that value.  *)
Latest(p) == IF registered_states[p] = None THEN Unknown ELSE registered_states[p]
Changes(m, p) == m.op = "StateChanged" /\ m.path = p
ByRequest(r, p, value) ==
  r \in Reqs /\ asked[r] # None /\ asked[r] = Command("StateChanged", p, value)

NoChange(p) == \A i \in 1 .. Len(to_server) : ~Changes(to_server[i], p)
LastChange(i, p) ==
  /\ i \in 1 .. Len(to_server) /\ Changes(to_server[i], p)
  /\ \A j \in 1 .. Len(to_server) : Changes(to_server[j], p) => j <= i
Arrives(p) ==
  \/ \E i \in 1 .. Len(to_server) : LastChange(i, p) /\ to_server[i].value = Latest(p)
  \/ /\ NoChange(p)
     /\ srv_state[p] = Latest(p) \/ \E r : ByRequest(r, p, Latest(p)) /\ Refused(r)
SentByRequests ==
  \A i \in 1 .. Len(to_server) :
    to_server[i].op = "StateChanged" =>
      ByRequest(to_server[i].to, to_server[i].path, to_server[i].value)

Publishing ==
  /\ \A p \in Paths : registered_states[p] = None => srv_state[p] = Unknown
  /\ pc = "main" /\ sock = "up" /\ ~clash =>
       SentByRequests /\ \A p \in Paths : Arrives(p)

(* A message that is sent becomes the last change of its path, if it is a  *)
(* change of it.                                                           *)
LEMMA SentLast ==
  ASSUME TypeInv, NEW m \in Outgoing, to_server' = Append(to_server, m), NEW p \in Paths
  PROVE  /\ Changes(m, p) => \E i \in 1 .. Len(to_server') :
                                LastChange(i, p)' /\ to_server'[i] = m
         /\ ~Changes(m, p) =>
              /\ NoChange(p) => NoChange(p)'
              /\ \A i \in 1 .. Len(to_server) :
                   LastChange(i, p) => /\ i \in 1 .. Len(to_server') /\ LastChange(i, p)'
                                       /\ to_server'[i] = to_server[i]
<1>1. /\ to_server \in Seq(Outgoing) /\ Len(to_server') = Len(to_server) + 1
      /\ Len(to_server) \in Nat
      /\ to_server'[Len(to_server) + 1] = m
      /\ \A i \in 1 .. Len(to_server) : to_server'[i] = to_server[i]
      /\ \A i \in 1 .. Len(to_server') :
           i \in 1 .. Len(to_server) \/ i = Len(to_server) + 1
  BY FlightTypes
<1>2. CASE Changes(m, p)
  <2>1. PICK n : n = Len(to_server) + 1
    OBVIOUS
  <2>2. n \in 1 .. Len(to_server') /\ \A j \in 1 .. Len(to_server') : j <= n
    BY <1>1, <2>1
  <2>3. to_server'[n] = m
    BY <1>1, <2>1
  <2>4. LastChange(n, p)'
    BY <1>2, <2>2, <2>3 DEF LastChange, Changes
  <2> QED
    BY <1>2, <2>2, <2>3, <2>4
<1>3. CASE ~Changes(m, p)
  <2>1. NoChange(p) => NoChange(p)'
    BY <1>1, <1>3 DEF NoChange, Changes
  <2>2. ASSUME NEW i \in 1 .. Len(to_server), LastChange(i, p)
        PROVE  i \in 1 .. Len(to_server') /\ LastChange(i, p)'
    BY <1>1, <1>3, <2>2 DEF LastChange, Changes
  <2> QED
    BY <1>1, <1>3, <2>1, <2>2
<1> QED
  BY <1>2, <1>3

(* Of the commands only StateChanged changes the value of a state, and     *)
(* that to the value it sends.                                             *)
LEMMA CommandLatest ==
  ASSUME TypeInv, NEW r, SendsCommand(r), NEW p \in Paths
  PROVE  IF Changes(CommandMessage(r), p)
         THEN /\ Latest(p)' = CommandMessage(r).value
              /\ ByRequest(r, p, CommandMessage(r).value) /\ CommandMessage(r).to = r
         ELSE Latest(p)' = Latest(p)
<1> PICK m : m = CommandMessage(r)
  OBVIOUS
<1>1. /\ m.op = asked[r].op /\ m.path = asked[r].path /\ m.value = asked[r].value
      /\ m.to = r /\ m.path \in Paths /\ r \in Reqs /\ asked[r] \in Commands
  BY DEF SendsCommand, CommandMessage, Request, SentValue, moved_from, Commands
<1>2. registered_states \in [Paths -> StateVals \cup {None}] /\ None \notin StateVals
      /\ Unknown \in StateVals
  BY ClientAssumption DEF TypeInv, TypeOK, RegistryTypeOK, StateVals, Unknown
<1>3. CASE StateChanged(r)
  <2>1. m.op = "StateChanged" /\ m.value \in StateVals
    BY <1>1, <1>3 DEF StateChanged, command, Commands
  <2>2. registered_states' = [registered_states EXCEPT ![m.path] = m.value]
    BY <1>1, <1>3 DEF StateChanged
  <2>3. CASE p = m.path
    <3>1. Changes(m, p) /\ Latest(p)' = m.value
      BY <1>1, <1>2, <2>1, <2>2, <2>3 DEF Changes, Latest
    <3>2. asked[r] = Command("StateChanged", p, m.value)
      BY <1>1, <2>1, <2>3 DEF Commands, Command
    <3> QED
      BY <1>1, <3>1, <3>2, NoneAssumption DEF ByRequest
  <2>4. CASE p # m.path
    <3>1. ~Changes(m, p) /\ Latest(p)' = Latest(p)
      BY <1>1, <1>2, <2>2, <2>4 DEF Changes, Latest
    <3> QED
      BY <3>1
  <2> QED
    BY <2>3, <2>4
<1>4. CASE StateRegister(r)
  <2>1. m.op # "StateChanged" /\ registered_states' = emplace(registered_states, m.path, Unknown)
    BY <1>1, <1>4 DEF StateRegister, command
  <2>2. ~Changes(m, p) /\ Latest(p)' = Latest(p)
    BY <1>1, <1>2, <2>1 DEF emplace, Changes, Latest
  <2> QED
    BY <2>2
<1>5. CASE \/ ActionCall(r) \/ ActionRegister(r) \/ StateObserve(r) \/ EventRegister(r)
           \/ EventEmit(r) \/ EventListen(r) \/ Get(r) \/ Set(r)
  <2>1. m.op # "StateChanged" /\ UNCHANGED registered_states
    BY <1>1, <1>5 DEF ActionCall, ActionRegister, StateObserve, EventRegister, EventEmit,
                      EventListen, Get, Set, command, registries
  <2>2. ~Changes(m, p) /\ Latest(p)' = Latest(p)
    BY <2>1 DEF Changes, Latest
  <2> QED
    BY <2>2
<1> QED
  BY <1>3, <1>4, <1>5 DEF SendsCommand, IsCommand

LEMMA EntersMain ==
  ASSUME ActorRuns, pc' = "main"
  PROVE  pc = "main" \/ (pc = "reregister" /\ reregister_done)
<1>1. CASE \/ read_close \/ see_exit \/ read_message
           \/ \E step \in rereg : check_result(step)
  BY <1>1 DEF read_close, see_exit, check_result, read_message, handle_message,
              handle_reply, handle_push, handle_hello_message
<1>2. CASE write_hello \/ \E step \in rereg : reregister_send(step)
  BY <1>2 DEF write_hello, reregister_send, send_send_buf
<1> QED
  BY <1>1, <1>2 DEF ActorRuns, BackoffExpires, close_fails, actorpp_connect, do_hello,
                    wait_for_reply, reregister_done, loop

LEMMA RunPublishes ==
  ASSUME RequestInv, Restoring, Whole, Publishing, ActorRuns, UNCHANGED serverVars
  PROVE  Publishing'
<1>1. TypeInv /\ [Next]_vars /\ UNCHANGED <<srv_state, srv_regs>>
  BY DEF RequestInv, Next, serverVars
<1>2. \A p \in Paths : registered_states'[p] = None => srv_state'[p] = Unknown
  BY <1>1, RegistriesGrow DEF Publishing
<1> SUFFICES ASSUME Serves, ~clash'
             PROVE  SentByRequests' /\ \A p \in Paths : Arrives(p)'
  BY <1>2 DEF Publishing, Serves
<1>3. sock = "up"
  BY <1>1, AlreadyUp DEF Serves, Serving
<1>4. CASE pc = "reregister" /\ reregister_done
  <2>1. UNCHANGED <<to_server, registered_states>>
    BY <1>4 DEF reregister_done, registries
  <2>2. to_server = <<>> /\ \A s \in reregister_steps : Done(s)
    BY <1>4 DEF Restoring, reregister_done
  <2>3. Len(<<>>) = 0
    OBVIOUS
  <2>4. SentByRequests' /\ \A p \in Paths : NoChange(p)'
    BY <2>1, <2>2, <2>3 DEF SentByRequests, NoChange
  <2>5. ASSUME NEW p \in Paths PROVE srv_state'[p] = Latest(p)'
    <3>1. CASE registered_states[p] = None
      BY <1>1, <2>1, <3>1 DEF Publishing, Latest
    <3>2. CASE registered_states[p] # None
      <4>1. Step("StateChanged", p) \in reregister_steps
        BY <3>2 DEF reregister_steps
      <4>2. srv_state[p] = registered_states[p]
        BY <2>2, <4>1 DEF Done, Step
      <4> QED
        BY <1>1, <2>1, <3>2, <4>2 DEF Latest
    <3> QED
      BY <3>1, <3>2
  <2> QED
    BY <2>4, <2>5 DEF Arrives
<1>5. CASE pc = "main"
  <2>1. clash => clash'
    BY <1>1, <1>3, <1>5, MainSteps DEF read_message, ids, SendsOwn, SendsCommand,
                                       await_reply
  <2>2. SentByRequests /\ \A p \in Paths : Arrives(p)
    BY <1>3, <1>5, <2>1 DEF Publishing
  <2>3. \A r, p, v : ByRequest(r, p, v) /\ UNCHANGED asked => ByRequest(r, p, v)'
    BY DEF ByRequest
  <2>4. \A r, p, v : ByRequest(r, p, v) /\ Refused(r) => Refused(r)'
    BY <1>1, <1>5, RefusedStays DEF ByRequest
  <2>5. CASE UNCHANGED <<to_server, registered_states, asked>>
    <3>1. SentByRequests'
      BY <2>2, <2>3, <2>5 DEF SentByRequests
    <3>2. ASSUME NEW p \in Paths PROVE Arrives(p)'
      <4>1. /\ Latest(p)' = Latest(p) /\ (NoChange(p)' <=> NoChange(p))
            /\ \A i : LastChange(i, p)' <=> LastChange(i, p)
        BY <2>5 DEF Latest, NoChange, LastChange
      <4> QED
        BY <1>1, <2>2, <2>3, <2>4, <2>5, <4>1 DEF Arrives
    <3> QED
      BY <3>1, <3>2
  <2>6. ASSUME NEW m \in Outgoing, to_server' = Append(to_server, m), UNCHANGED asked,
               m.op = "StateChanged" => ByRequest(m.to, m.path, m.value),
               \A p \in Paths :
                 Latest(p)' = IF Changes(m, p) THEN m.value ELSE Latest(p)
        PROVE  SentByRequests' /\ \A p \in Paths : Arrives(p)'
    <3>1. SentByRequests'
      <4>1. \A i \in 1 .. Len(to_server') :
              \/ i \in 1 .. Len(to_server) /\ to_server'[i] = to_server[i]
              \/ to_server'[i] = m
        BY <1>1, <2>6, FlightTypes, AppendElements
      <4>2. \A i \in 1 .. Len(to_server') : to_server'[i].op = "StateChanged" =>
              ByRequest(to_server'[i].to, to_server'[i].path, to_server'[i].value)
        BY <2>2, <2>6, <4>1 DEF SentByRequests
      <4> QED
        BY <2>6, <4>2 DEF SentByRequests, ByRequest
    <3>2. ASSUME NEW p \in Paths PROVE Arrives(p)'
      <4>1. CASE Changes(m, p)
        BY <1>1, <2>6, <4>1, SentLast DEF Arrives
      <4>2. CASE ~Changes(m, p)
        <5>1. Latest(p)' = Latest(p)
          BY <2>6, <4>2
        <5>2. CASE NoChange(p)
          <6>1. NoChange(p)'
            BY <1>1, <2>6, <4>2, <5>2, SentLast
          <6>2. srv_state[p] = Latest(p) \/ \E r : ByRequest(r, p, Latest(p)) /\ Refused(r)
            BY <2>2, <5>2 DEF Arrives, NoChange, LastChange
          <6> QED
            BY <1>1, <2>3, <2>4, <2>6, <5>1, <6>1, <6>2 DEF Arrives
        <5>3. CASE \E i \in 1 .. Len(to_server) :
                     LastChange(i, p) /\ to_server[i].value = Latest(p)
          <6>1. PICK i \in 1 .. Len(to_server) :
                  LastChange(i, p) /\ to_server[i].value = Latest(p)
            BY <5>3
          <6>2. i \in 1 .. Len(to_server') /\ LastChange(i, p)' /\ to_server'[i] = to_server[i]
            BY <1>1, <2>6, <4>2, <6>1, SentLast
          <6> QED
            BY <5>1, <6>1, <6>2 DEF Arrives
        <5> QED
          BY <2>2, <5>2, <5>3 DEF Arrives
      <4> QED
        BY <4>1, <4>2
    <3> QED
      BY <3>1, <3>2
  <2>7. ASSUME NEW m, SendsOwn(m)
        PROVE  SentByRequests' /\ \A p \in Paths : Arrives(p)'
    <3>1. m.op # "StateChanged" /\ UNCHANGED registered_states
      BY <2>7 DEF SendsOwn, registries
    <3>2. \A p \in Paths : ~Changes(m, p) /\ Latest(p)' = Latest(p)
      BY <3>1 DEF Changes, Latest
    <3> QED
      BY <2>6, <2>7, <3>1, <3>2 DEF SendsOwn
  <2>8. ASSUME NEW r, SendsCommand(r)
        PROVE  SentByRequests' /\ \A p \in Paths : Arrives(p)'
    <3>1. PICK m : m = CommandMessage(r)
      OBVIOUS
    <3>2. m \in Outgoing /\ to_server' = Append(to_server, m) /\ UNCHANGED asked
      BY <1>1, <2>8, <3>1, CommandMessageType DEF SendsCommand
    <3>3. \A p \in Paths : IF Changes(m, p)
                           THEN /\ Latest(p)' = m.value
                                /\ ByRequest(r, p, m.value) /\ m.to = r
                           ELSE Latest(p)' = Latest(p)
      BY <1>1, <2>8, <3>1, CommandLatest
    <3>4. m.op = "StateChanged" => m.path \in Paths
      BY <3>2, OutgoingCases DEF AllOps
    <3>5. m.op = "StateChanged" => ByRequest(m.to, m.path, m.value)
      BY <3>3, <3>4 DEF Changes
    <3> QED
      BY <2>6, <3>2, <3>3, <3>5
  <2>9. CASE read_message
    BY <2>5, <2>9 DEF read_message, registries, app
  <2> QED
    BY <1>1, <1>3, <1>5, <2>5, <2>7, <2>8, <2>9, MainSteps DEF registries
<1> QED
  BY <1>4, <1>5, EntersMain DEF Serves

(* What the server does with a change.                                     *)
TakesChange(m) ==
  /\ FirstSent(m) /\ m.op = "StateChanged" /\ to_server' = Tail(to_server)
  /\ UNCHANGED srv_pending
  /\ \/ srv_state' = [srv_state EXCEPT ![m.path] = m.value]
     \/ UNCHANGED srv_state /\ Deliver(Answer(m, "Error"))

LEMMA ServerChanges ==
  ASSUME TypeInv, Server
  PROVE  \/ \E m \in Outgoing : TakesChange(m)
         \/ /\ UNCHANGED srv_state
            /\ \/ UNCHANGED to_server
               \/ \E m : /\ FirstSent(m) /\ m.op # "StateChanged"
                         /\ to_server' = Tail(to_server)
<1>1. CASE ServerReceives
  <2>1. PICK m : \/ ServerHello(m) \/ ServerPing(m) \/ ServerAccepts(m) \/ ServerRefuses(m)
                 \/ ServerStateChanged(m) \/ ServerPostpones(m) \/ ServerGetsReply(m)
    BY <1>1 DEF ServerReceives
  <2>2. CASE ServerStateChanged(m)
    BY <2>2, ReceivesTypes
    DEF ServerStateChanged, Receives, TakesChange, FirstSent, AllOps
  <2>3. CASE \/ ServerHello(m) \/ ServerPing(m) \/ ServerAccepts(m) \/ ServerRefuses(m)
             \/ ServerPostpones(m) \/ ServerGetsReply(m)
    BY <2>3 DEF ServerHello, ServerPing, ServerAccepts, ServerRefuses, ServerPostpones,
                ServerGetsReply, Receives, FirstSent, Registrations
  <2> QED
    BY <2>1, <2>2, <2>3
<1>2. CASE ~ServerReceives
  BY <1>2 DEF Server, ServerAnswers, ServerCalls, ServerNotifies, Pushes, WorldChanges
<1> QED
  BY <1>1, <1>2

(* The request of a change that is refused has nothing else to come: the   *)
(* messages on their way have ids of their own, and wait in reply_channels *)
(* for channels of their own.                                              *)
LEMMA RefusalDooms ==
  ASSUME RequestInv, ~clash, NEW m \in Outgoing, TakesChange(m), m.to \in Reqs,
         Deliver(Answer(m, "Error")), UNCHANGED reply_channels
  PROVE  Refused(m.to)'
<1> PICK r : r = m.to
  OBVIOUS
<1>1. /\ TypeInv /\ Flight(to_server, srv_pending, on_message, reply_channels)
      /\ ChannelOnce /\ r \in Reqs
  BY DEF RequestInv, InFlight, Places
<1>2. /\ to_server \in Seq(Outgoing) /\ on_message \in Seq(Incoming)
      /\ to_server # <<>> /\ m = to_server[1] /\ 1 \in 1 .. Len(to_server)
      /\ \A i \in 1 .. Len(to_server') :
           i + 1 \in 1 .. Len(to_server) /\ to_server'[i] = to_server[i + 1] /\ i + 1 # 1
  BY <1>1, FlightTypes, TailElements DEF TakesChange, FirstSent
<1>3. AsksReply(m) /\ m.op \in AllOps
  BY DEF TakesChange, AsksReply, AllOps
<1>4. m.id \in Ids /\ reply_channels[m.id] # None /\ reply_channels[m.id].to = r
  BY <1>1, <1>2, <1>3 DEF Flight, Matched, Awaits
<1>5. \A n \in Ids : reply_channels[n] # None /\ reply_channels[n].to = r => n = m.id
  BY <1>1, <1>4 DEF ChannelOnce
<1>6. Waits(r)'
  BY <1>4 DEF Waits
<1>7. \A i \in 1 .. Len(to_server') : AsksReply(to_server'[i]) => to_server'[i].to # r
  <2>1. ASSUME NEW j \in 1 .. Len(to_server), AsksReply(to_server[j]), to_server[j].to = r
        PROVE  j = 1
    <3>1. to_server[j].id = m.id
      BY <1>1, <1>5, <2>1 DEF Flight, Matched, Awaits
    <3> QED
      BY <1>1, <1>2, <1>3, <2>1, <3>1 DEF Flight, Apart
  <2> QED
    BY <1>2, <2>1
<1>8. \A req \in srv_pending' : req.to # r
  <2>1. ASSUME NEW req \in srv_pending, req.to = r PROVE FALSE
    <3>1. req.id = m.id
      BY <1>1, <1>5, <2>1 DEF Flight, Matched, Awaits
    <3> QED
      BY <1>1, <1>2, <1>3, <2>1, <3>1 DEF Flight, Apart
  <2> QED
    BY <2>1 DEF TakesChange
<1>9. /\ \A i \in 1 .. Len(on_message') :
            RepliesTo(on_message'[i], r) => on_message'[i].res = "Error"
      /\ \E i \in 1 .. Len(on_message') : RepliesTo(on_message'[i], r)
  <2>1. ASSUME NEW i \in 1 .. Len(on_message), IsReply(on_message[i]), on_message[i].to = r
        PROVE  FALSE
    <3>1. on_message[i].id = m.id
      BY <1>1, <1>5, <2>1 DEF Flight, Matched, Fits
    <3> QED
      BY <1>1, <1>2, <1>3, <2>1, <3>1 DEF Flight, Apart
  <2>2. PICK a : a = Answer(m, "Error")
    OBVIOUS
  <2>3. m.id \in Ids /\ m.to \in Chans
    BY <1>3, OutgoingCases
  <2>4. a \in Incoming /\ a.res = "Error" /\ RepliesTo(a, r)
    BY <2>2, <2>3 DEF Answer, Incoming, Results, RepliesTo, IsReply
  <2>5. on_message' = Append(on_message, a)
    BY <2>2 DEF Deliver
  <2>6. PICK k : k = Len(on_message) + 1
    OBVIOUS
  <2>7. k \in 1 .. Len(on_message') /\ on_message'[k] = a
    BY <1>2, <2>4, <2>5, <2>6
  <2>8. \A i \in 1 .. Len(on_message') :
          RepliesTo(on_message'[i], r) => on_message'[i].res = "Error"
    BY <1>2, <2>1, <2>4, <2>5, AppendElements DEF RepliesTo
  <2> QED
    BY <2>4, <2>7, <2>8
<1> QED
  BY <1>6, <1>7, <1>8, <1>9 DEF Doomed, Refused

LEMMA ServerPublishes ==
  ASSUME AgreedInv, Whole, Publishing, Server
  PROVE  Publishing'
<1>1. RequestInv /\ TypeInv /\ [Next]_vars /\ UNCHANGED untouchedByServer
  BY ServerSteps DEF AgreedInv, RequestInv, Next, ServerMoves
<1>2. /\ UNCHANGED <<pc, sock, clash, registered_states, asked, reply_channels>>
      /\ to_server \in Seq(Outgoing) /\ srv_state \in [Paths -> StateVals]
  BY <1>1, FlightTypes
  DEF untouchedByServer, link, ids, registries, app, TypeInv, TypeOK, ServerTypeOK
<1>3. /\ \A p : Latest(p)' = Latest(p)
      /\ \A r, p, v : ByRequest(r, p, v)' <=> ByRequest(r, p, v)
  BY <1>2 DEF Latest, ByRequest
<1>4. ASSUME NEW m, FirstSent(m), to_server' = Tail(to_server)
      PROVE  /\ m = to_server[1] /\ 1 \in 1 .. Len(to_server)
             /\ \A i \in 1 .. Len(to_server') :
                  i + 1 \in 1 .. Len(to_server) /\ to_server'[i] = to_server[i + 1]
             /\ \A i \in 1 .. Len(to_server) : i = 1 \/
                  (i - 1 \in 1 .. Len(to_server') /\ to_server'[i - 1] = to_server[i])
  <2>1. /\ Head(to_server) = to_server[1] /\ 1 \in 1 .. Len(to_server)
        /\ Len(to_server') = Len(to_server) - 1 /\ Len(to_server) \in Nat
        /\ \A i \in 1 .. Len(to_server) - 1 :
             i + 1 \in 1 .. Len(to_server) /\ to_server'[i] = to_server[i + 1]
    BY <1>2, <1>4, TailElements DEF FirstSent
  <2>2. ASSUME NEW i \in 1 .. Len(to_server), i # 1
        PROVE  i - 1 \in 1 .. Len(to_server') /\ to_server'[i - 1] = to_server[i]
    <3>1. i - 1 \in 1 .. Len(to_server) - 1 /\ (i - 1) + 1 = i
      BY <2>1, <2>2
    <3> QED
      BY <2>1, <3>1
  <2> QED
    BY <1>4, <2>1, <2>2 DEF FirstSent
<1>5. ASSUME NEW p \in Paths, registered_states'[p] = None
      PROVE  srv_state'[p] = Unknown
  <2>1. srv_state[p] = Unknown /\ registered_states[p] = None
    BY <1>2, <1>5 DEF Publishing
  <2>2. ASSUME NEW m \in Outgoing, TakesChange(m) PROVE m.path # p
    <3>1. m \in FitOut
      BY <1>4, <2>2 DEF AgreedInv, Agreed, TakesChange
    <3> QED
      BY <2>1, <2>2, <3>1 DEF FitOut, Restorable, Wanted, TakesChange
  <2> QED
    BY <1>1, <1>2, <2>1, <2>2, ServerChanges DEF TakesChange
<1> SUFFICES ASSUME Serves, ~clash'
             PROVE  SentByRequests' /\ \A p \in Paths : Arrives(p)'
  BY <1>5 DEF Publishing, Serves
<1>6. pc = "main" /\ ~clash /\ SentByRequests /\ \A p \in Paths : Arrives(p)
  BY <1>2 DEF Publishing, Serves
<1>7. \A r, p, v : ByRequest(r, p, v) /\ Refused(r) => (ByRequest(r, p, v) /\ Refused(r))'
  BY <1>1, <1>3, <1>6, RefusedStays DEF ByRequest
<1>8. SentByRequests'
  <2>1. \A i \in 1 .. Len(to_server') :
          to_server'[i].op = "StateChanged" =>
            ByRequest(to_server'[i].to, to_server'[i].path, to_server'[i].value)
    <3>1. CASE UNCHANGED to_server
      BY <1>6, <3>1 DEF SentByRequests
    <3>2. CASE \E m : FirstSent(m) /\ to_server' = Tail(to_server)
      BY <1>4, <1>6, <3>2 DEF SentByRequests
    <3> QED
      BY <1>1, <3>1, <3>2, ServerChanges DEF TakesChange
  <2> QED
    BY <1>3, <2>1 DEF SentByRequests
<1>9. ASSUME NEW p \in Paths PROVE Arrives(p)'
  <2>1. CASE UNCHANGED <<to_server, srv_state>>
    <3>1. (NoChange(p)' <=> NoChange(p)) /\ \A i : LastChange(i, p)' <=> LastChange(i, p)
      BY <2>1 DEF NoChange, LastChange
    <3> QED
      BY <1>3, <1>6, <1>7, <2>1, <3>1 DEF Arrives
  <2>2. ASSUME NEW m, FirstSent(m), to_server' = Tail(to_server), ~Changes(m, p),
               srv_state'[p] = srv_state[p]
        PROVE  Arrives(p)'
    <3>1. CASE NoChange(p)
      <4>1. NoChange(p)'
        BY <1>4, <2>2, <3>1 DEF NoChange
      <4>2. srv_state[p] = Latest(p) \/ \E r : ByRequest(r, p, Latest(p)) /\ Refused(r)
        BY <1>6, <3>1 DEF Arrives, NoChange, LastChange
      <4> QED
        BY <1>3, <1>7, <2>2, <4>1, <4>2 DEF Arrives
    <3>2. CASE \E i \in 1 .. Len(to_server) :
                 LastChange(i, p) /\ to_server[i].value = Latest(p)
      <4>1. PICK i \in 1 .. Len(to_server) :
              LastChange(i, p) /\ to_server[i].value = Latest(p)
        BY <3>2
      <4>2. i # 1
        BY <1>4, <2>2, <4>1 DEF LastChange
      <4>3. PICK k : k = i - 1
        OBVIOUS
      <4>4. k \in 1 .. Len(to_server') /\ to_server'[k] = to_server[i]
        BY <1>4, <2>2, <4>2, <4>3
      <4>5. \A j \in 1 .. Len(to_server') : Changes(to_server'[j], p) => j <= k
        <5>1. ASSUME NEW j \in 1 .. Len(to_server'), Changes(to_server'[j], p)
              PROVE  j + 1 <= i
          BY <1>4, <2>2, <4>1, <5>1 DEF LastChange
        <5> QED
          BY <4>3, <5>1
      <4>6. LastChange(k, p)'
        BY <4>1, <4>4, <4>5 DEF LastChange, Changes
      <4> QED
        BY <1>3, <4>1, <4>4, <4>6 DEF Arrives
    <3> QED
      BY <1>6, <3>1, <3>2 DEF Arrives
  <2>3. ASSUME NEW m \in Outgoing, TakesChange(m), Changes(m, p) PROVE Arrives(p)'
    <3>1. FirstSent(m) /\ to_server' = Tail(to_server)
      BY <2>3 DEF TakesChange
    <3>2. PICK i \in 1 .. Len(to_server) :
            LastChange(i, p) /\ to_server[i].value = Latest(p)
      BY <1>4, <1>6, <2>3, <3>1 DEF Arrives, NoChange
    <3>3. CASE i = 1
      <4>1. NoChange(p)'
        <5>1. \A j \in 1 .. Len(to_server') : ~Changes(to_server'[j], p)
          <6>1. ASSUME NEW j \in 1 .. Len(to_server'), Changes(to_server'[j], p)
                PROVE  j + 1 <= 1
            BY <1>4, <3>1, <3>2, <3>3, <6>1 DEF LastChange
          <6> QED
            BY <6>1
        <5> QED
          BY <5>1 DEF NoChange
      <4>2. m.value = Latest(p) /\ m.path = p /\ ByRequest(m.to, p, Latest(p))
        BY <1>4, <1>6, <2>3, <3>1, <3>2, <3>3 DEF SentByRequests, Changes
      <4>3. CASE srv_state' = [srv_state EXCEPT ![m.path] = m.value]
        BY <1>2, <1>3, <4>1, <4>2, <4>3 DEF Arrives
      <4>4. CASE Deliver(Answer(m, "Error"))
        <5>1. Refused(m.to)'
          BY <1>1, <1>2, <1>6, <2>3, <4>2, <4>4, RefusalDooms DEF ByRequest
        <5>2. ByRequest(m.to, p, Latest(p))'
          <6>1. PICK r, v : r = m.to /\ v = Latest(p)
            OBVIOUS
          <6>2. ByRequest(r, p, v)'
            BY <1>3, <4>2, <6>1
          <6> QED
            BY <1>3, <6>1, <6>2 DEF ByRequest
        <5> QED
          BY <4>1, <5>1, <5>2 DEF Arrives
      <4> QED
        BY <2>3, <4>3, <4>4 DEF TakesChange
    <3>4. CASE i # 1
      <4>1. PICK k : k = i - 1
        OBVIOUS
      <4>2. k \in 1 .. Len(to_server') /\ to_server'[k] = to_server[i]
        BY <1>4, <3>1, <3>4, <4>1
      <4>3. \A j \in 1 .. Len(to_server') : Changes(to_server'[j], p) => j <= k
        <5>1. ASSUME NEW j \in 1 .. Len(to_server'), Changes(to_server'[j], p)
              PROVE  j + 1 <= i
          BY <1>4, <3>1, <3>2, <5>1 DEF LastChange
        <5> QED
          BY <4>1, <5>1
      <4>4. LastChange(k, p)'
        BY <3>2, <4>2, <4>3 DEF LastChange, Changes
      <4> QED
        BY <1>3, <3>2, <4>2, <4>4 DEF Arrives
    <3> QED
      BY <3>3, <3>4
  <2>4. ASSUME NEW m \in Outgoing, TakesChange(m), ~Changes(m, p) PROVE Arrives(p)'
    <3>1. srv_state'[p] = srv_state[p]
      BY <1>2, <2>4 DEF TakesChange, Changes
    <3> QED
      BY <2>2, <2>4, <3>1 DEF TakesChange
  <2> QED
    BY <1>1, <2>1, <2>2, <2>3, <2>4, ServerChanges DEF Changes
<1> QED
  BY <1>8, <1>9

LEMMA NextPublishes ==
  ASSUME AgreedInv, Restoring, Whole, Publishing, [Next]_vars
  PROVE  Publishing'
<1>1. TypeInv /\ RequestInv
  BY DEF AgreedInv, RequestInv
<1>2. CASE ActorRuns /\ UNCHANGED serverVars
  BY <1>1, <1>2, RunPublishes
<1>3. CASE Server
  BY <1>3, ServerPublishes
<1>4. CASE ActorCloses /\ ForgetConnection
  <2>1. UNCHANGED registered_states /\ pc' # "main"
    BY <1>4 DEF ActorCloses, connect, BackoffExit, untouched, registries
  <2> QED
    BY <1>1, <1>4, <2>1 DEF ForgetConnection, Publishing
<1>5. CASE Network /\ UNCHANGED serverVars
  <2>1. UNCHANGED <<registered_states, srv_state>> /\ sock' # "up"
    BY <1>5 DEF Network, Break, Mute, ReceiverCloses, registries, serverVars
  <2> QED
    BY <2>1 DEF Publishing
<1>6. CASE (Application \/ Finished \/ UNCHANGED vars) /\ UNCHANGED serverVars
  <2>1. UNCHANGED <<pc, sock, clash, registered_states, to_server, srv_state>>
    BY <1>6 DEF Application, Ask, reply, test_disconnect, exit, Finished, vars, clientVars,
                serverVars, registries, link, ids
  <2>2. \A r, p, v : ByRequest(r, p, v) => ByRequest(r, p, v)'
    <3>1. \A r \in Reqs : asked[r] # None => asked'[r] = asked[r]
      BY <1>1, <1>6, PlaceTypes
      DEF Application, Ask, reply, test_disconnect, exit, Finished, vars, clientVars, app
    <3> QED
      BY <3>1 DEF ByRequest
  <2>3. ASSUME pc' = "main" /\ sock' = "up" /\ ~clash'
        PROVE  SentByRequests' /\ \A p \in Paths : Arrives(p)'
    <3>1. SentByRequests /\ \A p \in Paths : Arrives(p)
      BY <2>1, <2>3 DEF Publishing
    <3>2. \A r, p, v : ByRequest(r, p, v) /\ Refused(r) => Refused(r)'
      BY <1>1, <2>1, <2>3, RefusedStays DEF ByRequest, Serves
    <3>3. /\ \A p : Latest(p)' = Latest(p) /\ (NoChange(p)' <=> NoChange(p))
          /\ \A i, p : LastChange(i, p)' <=> LastChange(i, p)
      BY <2>1 DEF Latest, NoChange, LastChange
    <3>4. SentByRequests'
      BY <2>1, <2>2, <3>1 DEF SentByRequests
    <3>5. \A p \in Paths : Arrives(p)'
      BY <2>1, <2>2, <3>1, <3>2, <3>3 DEF Arrives
    <3> QED
      BY <3>4, <3>5
  <2> QED
    BY <2>1, <2>3 DEF Publishing
<1>7. UNCHANGED vars => UNCHANGED serverVars
  BY DEF vars
<1> QED
  BY <1>2, <1>3, <1>4, <1>5, <1>6, <1>7 DEF Next, Finished

LEMMA WholeInvariant == Spec => []Whole
<1>1. Init => Whole
  BY DEF Init, ClientInit, Whole
<1>2. TypeInv /\ Clean /\ Whole /\ [Next]_vars => Whole'
  BY NextWhole
<1> QED
  BY <1>1, <1>2, TypeInvariant, CleanInvariant, PTL DEF Spec

(* What the application published last is what the server holds as soon as *)
(* no change is on its way, for any number of paths, values, requests and  *)
(* connections: reregister() sends the values of the registry again, and   *)
(* afterwards StateChanged puts into the registry what it sends.  The only *)
(* exception is a value that the server itself refused, and the request    *)
(* that published it is told so; a "disconnected" is none.                 *)
THEOREM PublishedStatesArrive == Spec => []PublishedArrives
<1>1. Init => Publishing
  BY DEF Init, ClientInit, ServerInit, Publishing
<1>2. AgreedInv /\ Restoring /\ Whole /\ Publishing /\ [Next]_vars => Publishing'
  BY NextPublishes
<1>3. AgreedInv /\ Publishing => PublishedArrives
  <2> SUFFICES ASSUME AgreedInv, Publishing, NEW p \in Paths,
                      pc = "main" /\ sock = "up" /\ ~clash,
                      \A i \in 1 .. Len(to_server) : to_server[i].op # "StateChanged",
                      Step("StateRegister", p) \in srv_regs
               PROVE  \/ srv_state[p] = registered_states[p]
                      \/ \E r \in Reqs :
                           /\ asked[r] = Command("StateChanged", p, registered_states[p])
                           /\ \/ results[r] = <<[res |-> "Error", src |-> r]>>
                              \/ RefusalArrives(r)
    BY DEF PublishedArrives
  <2>1. registered_states[p] # None /\ Latest(p) = registered_states[p]
    BY DEF AgreedInv, Agreed, Wanted, Step, Latest
  <2>2. srv_state[p] = Latest(p) \/ \E r : ByRequest(r, p, Latest(p)) /\ Refused(r)
    BY DEF Publishing, Arrives, LastChange, Changes
  <2>3. \A r : Doomed(r) => RefusalArrives(r)
    BY DEF Doomed, RepliesTo, IsReply, RefusalArrives
  <2> QED
    BY <2>1, <2>2, <2>3 DEF ByRequest, Refused
<1> QED
  BY <1>1, <1>2, <1>3, AgreedInvariant, RestoringInvariant, WholeInvariant, PTL DEF Spec

-----------------------------------------------------------------------------
(* Observed states.                                                        *)

(* Who observes has been connected before, and only who observes sees.     *)
SetsUp == {"send_hello", "hello", "reregister", "wait_for_reply"}

Observers ==
  /\ pc \in SetsUp \cup {"main"} => conn >= 1
  /\ \A p \in Paths :
       IF observed_states[p] = None THEN view[p] = <<>>
       ELSE conn >= 1 /\ (pc \in SetsUp => conn > 1)

(* What a step of the actor passes on to the observer of a path.           *)
StateTold(p) == {m \in Incoming : m.type = "state_changed" /\ m.path = p}

LEMMA RunShows ==
  ASSUME TypeInv, ActorRuns, NEW p \in Paths
  PROVE  \/ UNCHANGED view[p]
         \/ /\ read_message /\ Head(on_message) \in StateTold(p) /\ observed_states[p] # None
            /\ view'[p] = Append(view[p], Head(on_message).value)
            /\ UNCHANGED rereg_result
         \/ \E step \in rereg :
              /\ pc = "wait_for_reply" /\ check_result(step) /\ step = Step("StateObserve", p)
              /\ rereg_result # <<>> /\ Head(rereg_result) \in StateVals
              /\ view'[p] = Append(view[p], Head(rereg_result))
<1>1. view \in [Paths -> Seq(StateVals)]
  BY DEF TypeInv, TypeOK, ApplicationTypeOK
<1>2. CASE read_message
  <2>1. CASE handle_push(Head(on_message)) /\ view' # view
    <3>1. PICK m : m = Head(on_message)
      OBVIOUS
    <3>2. m \in Incoming /\ Registered(m) /\ m.type = "state_changed"
      BY <1>2, <2>1, <3>1, FlightTypes, SeqTypes DEF read_message, handle_push
    <3>3. view' = [view EXCEPT ![m.path] = Append(@, m.value)] /\ UNCHANGED rereg_result
      BY <2>1, <3>1, <3>2 DEF handle_push
    <3>4. m.path \in Paths /\ observed_states[m.path] # None
      BY <3>2, IncomingCases DEF Registered
    <3> QED
      BY <1>1, <1>2, <3>1, <3>2, <3>3, <3>4 DEF StateTold
  <2> QED
    BY <1>2, <2>1 DEF read_message, handle_message, handle_reply, handle_push,
                      handle_hello_message, inbox
<1>3. CASE pc = "wait_for_reply" /\ \E step \in rereg : check_result(step)
  <2>1. PICK step \in rereg : check_result(step)
    BY <1>3
  <2>2. step \in Steps
    BY DEF TypeInv, TypeOK, ActorTypeOK
  <2>3. CASE HandleStateReply(step, Head(rereg_result)) /\ step.path = p
    <3>1. step = Step("StateObserve", p)
      BY <2>2, <2>3 DEF HandleStateReply, Steps, Step
    <3>2. view'[p] = Append(view[p], Head(rereg_result)) /\ Head(rereg_result) \in StateVals
      BY <1>1, <2>3 DEF HandleStateReply
    <3> QED
      BY <1>3, <2>1, <3>1, <3>2 DEF check_result
  <2>4. CASE HandleStateReply(step, Head(rereg_result)) /\ step.path # p
    BY <1>1, <2>2, <2>4 DEF HandleStateReply
  <2> QED
    BY <2>1, <2>3, <2>4 DEF check_result, check_success
<1>4. CASE UNCHANGED view
  BY <1>4
<1>5. CASE ~read_message /\ ~(pc = "wait_for_reply" /\ \E step \in rereg : check_result(step))
  BY <1>4, <1>5
  DEF ActorRuns, BackoffExpires, close_fails, actorpp_connect, do_hello, wait_for_reply,
      loop, write_hello, reregister_done, reregister_send, read_close, see_exit,
      read_ping_result, read_reply, read_command, idle_timeout, ping_timeout_expires, inbox
<1> QED
  BY <1>2, <1>3, <1>5

LEMMA RunObserves ==
  ASSUME ActorRuns
  PROVE  UNCHANGED observed_states \/ (pc = "main" /\ pc' \notin SetsUp)
<1>1. CASE pc = "main" /\ read_command
  <2>1. CASE Disconnect
    BY <2>1 DEF Disconnect, registries
  <2>2. CASE IsCommand(Head(on_command))
    <3>1. pc' \in {"main", "Disconnected"}
      BY <2>2, CommandSteps DEF send_send_buf
    <3> QED
      BY <1>1, <3>1 DEF SetsUp
  <2> QED
    BY <1>1, <2>1, <2>2 DEF read_command, IsCommand
<1>2. CASE \/ BackoffExpires \/ close_fails \/ actorpp_connect \/ reregister_done
           \/ read_close \/ see_exit \/ read_ping_result \/ ping_timeout_expires \/ write_hello
           \/ \E step \in rereg : reregister_send(step) \/ check_result(step)
           \/ read_message \/ read_reply \/ idle_timeout
  BY <1>2
  DEF BackoffExpires, close_fails, actorpp_connect, reregister_done, read_close, see_exit,
      read_ping_result, ping_timeout_expires, write_hello, reregister_send, check_result,
      read_message, read_reply, idle_timeout, registries
<1> QED
  BY <1>1, <1>2 DEF ActorRuns, do_hello, wait_for_reply, loop

LEMMA NextObservers ==
  ASSUME AgreedInv, Observers, [Next]_vars
  PROVE  Observers'
<1>1. TypeInv /\ conn \in Nat /\ observed_states \in [Paths -> Reqs \cup {None}]
      /\ \A p \in Paths : observed_states[p] # None => observed_states'[p] # None
  BY RegistriesGrow, ClientAssumption
  DEF AgreedInv, RequestInv, TypeInv, TypeOK, ActorTypeOK, RegistryTypeOK
<1>2. ASSUME UNCHANGED <<pc, conn, observed_states, view>>
      PROVE  Observers'
  BY <1>2 DEF Observers
<1>3. CASE ActorCloses
  <2>1. UNCHANGED observed_states /\ tell_observers
    BY <1>3 DEF ActorCloses, connect, BackoffExit, cleanup_connection, untouched, registries
  <2>2. pc' \in {"connecting", "exited"} /\ UNCHANGED conn
    BY <1>3 DEF ActorCloses, connect, BackoffExit, untouched
  <2> QED
    BY <1>1, <2>1, <2>2 DEF Observers, SetsUp, tell_observers
<1>4. CASE actorpp_connect
  <2>1. /\ UNCHANGED <<observed_states, view>>
        /\ \/ pc' = "send_hello" /\ conn' = conn + 1
           \/ pc' = "backoff" /\ UNCHANGED conn
    BY <1>4 DEF actorpp_connect, registries, inbox
  <2> QED
    BY <1>1, <2>1 DEF Observers, SetsUp
<1>5. CASE ActorRuns /\ ~actorpp_connect
  <2>1. UNCHANGED conn
    BY <1>5
    DEF ActorRuns, do_hello, wait_for_reply, loop, BackoffExpires, close_fails,
        reregister_done, read_close, see_exit, read_ping_result, ping_timeout_expires,
        write_hello, reregister_send, check_result, read_message, read_reply,
        idle_timeout, read_command, link
  <2>2. pc' \in SetsUp => pc \in SetsUp
    BY <1>5, RunStages DEF SetsUp, ReadsInHello, write_hello, reregister_send
  <2>3. pc' = "main" => pc \in SetsUp \cup {"main"}
    BY <1>5, RunStages DEF SetsUp, ReadsInHello, Serving
  <2>4. ASSUME NEW p \in Paths, observed_states[p] = None
        PROVE  UNCHANGED view[p]
    <3>1. \A step \in rereg : step = Step("StateObserve", p) => FALSE
      BY <2>4 DEF AgreedInv, Agreed, Wanted, Step
    <3> QED
      BY <1>1, <1>5, <2>4, <3>1, RunShows
  <2>5. ASSUME NEW p \in Paths
        PROVE  IF observed_states'[p] = None THEN view'[p] = <<>>
               ELSE conn' >= 1 /\ (pc' \in SetsUp => conn' > 1)
    <3>1. CASE observed_states'[p] = None
      BY <1>1, <2>4, <3>1 DEF Observers
    <3>2. CASE observed_states[p] # None
      BY <1>1, <2>1, <2>2, <3>2 DEF Observers
    <3>3. CASE observed_states[p] = None /\ observed_states'[p] # None
      BY <1>5, <2>1, <3>3, RunObserves DEF Observers
    <3> QED
      BY <3>1, <3>2, <3>3
  <2> QED
    BY <2>1, <2>2, <2>3, <2>5 DEF Observers
<1>6. CASE Application \/ Network
  BY <1>2, <1>6
  DEF Application, Ask, reply, test_disconnect, exit, Network, Break, Mute,
      ReceiverCloses, registries, inbox, link
<1>7. CASE Server
  BY <1>1, <1>2, <1>7, ServerSteps DEF ServerMoves, untouchedByServer, registries, inbox, link
<1>8. CASE Finished \/ UNCHANGED vars
  BY <1>2, <1>8 DEF Finished, vars, clientVars, registries, inbox, link
<1> QED
  BY <1>3, <1>5, <1>6, <1>7, <1>8, <1>4 DEF Next

(* The invariant: the last change that is on its way to the observer has   *)
(* the value of the state; if none is, the observer has seen the value, or *)
(* the reply to state_observe brings it.                                   *)
Observation(p) == Step("StateObserve", p)

Untold(p) == \A i \in 1 .. Len(on_message) : on_message[i] \notin StateTold(p)
Newest(p, i) ==
  /\ i \in 1 .. Len(on_message) /\ on_message[i] \in StateTold(p)
  /\ \A j \in 1 .. Len(on_message) : on_message[j] \in StateTold(p) => j <= i
Told(p) == \E i \in 1 .. Len(on_message) : Newest(p, i) /\ on_message[i].value = world[p]

AskedNow(p) == pc = "wait_for_reply" /\ FirstStep(Observation(p))
Seen(p) ==
  \/ view[p] = <<>> \/ Last(view[p]) = world[p]
  \/ conn > 1 /\ Len(view[p]) > 2 /\ view[p][Len(view[p]) - 1] = world[p]
Pending(p) ==
  \/ Len(view[p]) >= 2 /\ Last(view[p]) = world[p]
  \/ /\ \A i \in 1 .. Len(on_message) :
          IsReply(on_message[i]) => on_message[i].res = world[p]
     /\ \A i \in 1 .. Len(rereg_result) : rereg_result[i] = world[p]

Observed(p) ==
  IF Observation(p) \in srv_regs
  THEN Told(p) \/ (Untold(p) /\ IF AskedNow(p) THEN Pending(p) ELSE Seen(p))
  ELSE Untold(p) /\ (pc = "main" => view[p] = <<>>)
Asking(p) ==
  AskedNow(p) =>
    view[p] # <<>> /\ (Observation(p) \in srv_regs => to_server = <<>>)
Observing ==
  sock = "up" /\ pc \in Serving => \A p \in Paths : Observed(p) /\ Asking(p)

(* A message that is delivered becomes the newest for the path it is about.*)
LEMMA ToldAppend ==
  ASSUME TypeInv, NEW a \in Incoming, on_message' = Append(on_message, a), NEW p \in Paths
  PROVE  /\ a \in StateTold(p) /\ a.value = world'[p] => Told(p)'
         /\ a \notin StateTold(p) => /\ Untold(p) => Untold(p)'
                                     /\ world'[p] = world[p] /\ Told(p) => Told(p)'
<1>1. /\ on_message \in Seq(Incoming) /\ Len(on_message') = Len(on_message) + 1
      /\ Len(on_message) \in Nat
      /\ on_message'[Len(on_message) + 1] = a
      /\ \A i \in 1 .. Len(on_message) : on_message'[i] = on_message[i]
      /\ \A i \in 1 .. Len(on_message') :
           i \in 1 .. Len(on_message) \/ i = Len(on_message) + 1
  BY FlightTypes
<1>2. ASSUME a \in StateTold(p), a.value = world'[p] PROVE Told(p)'
  <2>1. PICK n : n = Len(on_message) + 1
    OBVIOUS
  <2>2. n \in 1 .. Len(on_message') /\ \A j \in 1 .. Len(on_message') : j <= n
    BY <1>1, <2>1
  <2>3. on_message'[n] = a
    BY <1>1, <2>1
  <2>4. Newest(p, n)'
    BY <1>2, <2>2, <2>3 DEF Newest, StateTold
  <2> QED
    BY <1>2, <2>2, <2>3, <2>4 DEF Told
<1>3. ASSUME a \notin StateTold(p), Untold(p) PROVE Untold(p)'
  BY <1>1, <1>3 DEF Untold, StateTold
<1>4. ASSUME a \notin StateTold(p), world'[p] = world[p], Told(p) PROVE Told(p)'
  <2>1. PICK i \in 1 .. Len(on_message) : Newest(p, i) /\ on_message[i].value = world[p]
    BY <1>4 DEF Told
  <2>2. i \in 1 .. Len(on_message') /\ on_message'[i] = on_message[i]
    BY <1>1, <2>1
  <2>3. Newest(p, i)'
    BY <1>1, <1>4, <2>1, <2>2 DEF Newest, StateTold
  <2> QED
    BY <1>4, <2>1, <2>2, <2>3 DEF Told
<1> QED
  BY <1>2, <1>3, <1>4

(* A message that is read was the newest, or leaves the newest there.      *)
LEMMA ToldTail ==
  ASSUME TypeInv, on_message # <<>>, on_message' = Tail(on_message), UNCHANGED world,
         NEW p \in Paths
  PROVE  /\ Untold(p) => Untold(p)' /\ Head(on_message) \notin StateTold(p)
         /\ Told(p) => \/ Told(p)'
                       \/ /\ Untold(p)' /\ Head(on_message) \in StateTold(p)
                          /\ Head(on_message).value = world[p]
<1>1. /\ on_message \in Seq(Incoming) /\ Len(on_message') = Len(on_message) - 1
      /\ Len(on_message) \in Nat /\ Head(on_message) = on_message[1]
      /\ 1 \in 1 .. Len(on_message)
      /\ \A i \in 1 .. Len(on_message') :
           i + 1 \in 1 .. Len(on_message) /\ on_message'[i] = on_message[i + 1]
  BY FlightTypes, TailElements
<1>2. ASSUME Untold(p) PROVE Untold(p)' /\ Head(on_message) \notin StateTold(p)
  BY <1>1, <1>2 DEF Untold, StateTold
<1>3. ASSUME Told(p)
      PROVE  \/ Told(p)'
             \/ /\ Untold(p)' /\ Head(on_message) \in StateTold(p)
                /\ Head(on_message).value = world[p]
  <2>1. PICK i \in 1 .. Len(on_message) : Newest(p, i) /\ on_message[i].value = world[p]
    BY <1>3 DEF Told
  <2>2. CASE i = 1
    <3>1. ASSUME NEW j \in 1 .. Len(on_message'), on_message'[j] \in StateTold(p)
          PROVE  FALSE
      <4>1. j + 1 <= 1
        BY <1>1, <2>1, <2>2, <3>1 DEF Newest
      <4> QED
        BY <4>1
    <3>2. Untold(p)'
      BY <3>1 DEF Untold, StateTold
    <3> QED
      BY <1>1, <2>1, <2>2, <3>2 DEF Newest
  <2>3. CASE i # 1
    <3>1. PICK k : k = i - 1
      OBVIOUS
    <3>2. k \in 1 .. Len(on_message') /\ on_message'[k] = on_message[i]
      BY <1>1, <2>3, <3>1
    <3>3. \A j \in 1 .. Len(on_message') : on_message'[j] \in StateTold(p) => j <= k
      <4>1. ASSUME NEW j \in 1 .. Len(on_message'), on_message'[j] \in StateTold(p)
            PROVE  j + 1 <= i
        BY <1>1, <2>1, <4>1 DEF Newest
      <4> QED
        BY <3>1, <4>1
    <3>4. Newest(p, k)'
      BY <2>1, <3>2, <3>3 DEF Newest, StateTold
    <3> QED
      BY <2>1, <3>2, <3>4 DEF Told
  <2> QED
    BY <2>2, <2>3
<1> QED
  BY <1>2, <1>3

(* What the server tells an observer: a change; nothing new; the value the *)
(* observation begins with; or nothing of a change it does not observe.    *)
TellsChange(p) ==
  /\ Observation(p) \in srv_regs /\ UNCHANGED <<srv_regs, to_server>>
  /\ \E a \in StateTold(p) : a.value = world'[p] /\ on_message' = Append(on_message, a)
TellsNothingNew(p) ==
  /\ world'[p] = world[p] /\ (Observation(p) \in srv_regs' <=> Observation(p) \in srv_regs)
  /\ UNCHANGED to_server \/ (to_server # <<>> /\ to_server' = Tail(to_server))
  /\ \/ UNCHANGED on_message
     \/ \E a \in Incoming \ StateTold(p) :
          /\ on_message' = Append(on_message, a)
          /\ IsReply(a) => to_server # <<>> \/ srv_pending # {}
TellsFirst(p) ==
  /\ Observation(p) \notin srv_regs /\ Observation(p) \in srv_regs'
  /\ world'[p] = world[p]
  /\ \E m \in Outgoing : FirstSent(m) /\ m.op = "StateObserve" /\ m.path = p
  /\ to_server # <<>> /\ to_server' = Tail(to_server)
  /\ \E a \in Incoming : /\ IsReply(a) /\ a.res = world[p]
                         /\ on_message' = Append(on_message, a)
TellsNobody(p) ==
  Observation(p) \notin srv_regs /\ UNCHANGED <<srv_regs, to_server, on_message>>

LEMMA ServerTells ==
  ASSUME TypeInv, Server, sock = "up", NEW p \in Paths
  PROVE  TellsChange(p) \/ TellsNothingNew(p) \/ TellsFirst(p) \/ TellsNobody(p)
<1>1. ASSUME NEW m, NEW res \in Results, m \in Outgoing, m.op \in AllOps \cup {"Ping"},
             Deliver(Answer(m, res))
      PROVE  \E a \in Incoming \ StateTold(p) :
               IsReply(a) /\ a.res = res /\ on_message' = Append(on_message, a)
  <2>1. PICK a : a = Answer(m, res)
    OBVIOUS
  <2>2. m.id \in Ids /\ m.to \in Chans
    BY <1>1, OutgoingCases
  <2>3. a \in Incoming /\ a.type = "reply" /\ a.res = res
    BY <2>1, <2>2 DEF Answer, Incoming
  <2> QED
    BY <1>1, <2>1, <2>3 DEF Deliver, IsReply, StateTold
<1>2. "Success" \in Results /\ "Error" \in Results /\ StateVals \subseteq Results
  BY DEF Results
<1>3. CASE ServerReceives
  <2>1. PICK m : \/ ServerHello(m) \/ ServerPing(m) \/ ServerAccepts(m) \/ ServerRefuses(m)
                 \/ ServerStateChanged(m) \/ ServerPostpones(m) \/ ServerGetsReply(m)
    BY <1>3 DEF ServerReceives
  <2>2. Receives(m) /\ m \in Outgoing
    BY <2>1, ReceivesTypes
    DEF ServerHello, ServerPing, ServerAccepts, ServerRefuses, ServerStateChanged,
        ServerPostpones, ServerGetsReply
  <2>3. /\ to_server # <<>> /\ to_server' = Tail(to_server) /\ world' = world
        /\ FirstSent(m)
    BY <2>2 DEF Receives, FirstSent
  <2>4. CASE ServerHello(m)
    <3>1. conn \in ClientIds
      BY DEF TypeInv, TypeOK, ActorTypeOK, ClientIds
    <3>2. PICK a : Deliver(a) /\ (\/ a = [type |-> "hello"]
                                  \/ a = [type |-> "hello_id", client |-> conn])
      BY <2>4 DEF ServerHello
    <3>3. a \in Incoming /\ a.type \in {"hello", "hello_id"}
      BY <3>1, <3>2 DEF Incoming
    <3> QED
      BY <2>3, <2>4, <3>2, <3>3 DEF ServerHello, Deliver, TellsNothingNew, StateTold, IsReply
  <2>5. CASE ServerPing(m) \/ ServerRefuses(m) \/ ServerStateChanged(m)
    <3>1. m.op \in AllOps \cup {"Ping"} /\ UNCHANGED srv_regs
      BY <2>5 DEF ServerPing, ServerRefuses, ServerStateChanged, Registrations, AllOps
    <3>2. PICK res \in {"Success", "Error"} : Deliver(Answer(m, res))
      BY <2>5 DEF ServerPing, ServerRefuses, ServerStateChanged
    <3> QED
      BY <1>1, <1>2, <2>2, <2>3, <3>1, <3>2 DEF TellsNothingNew
  <2>6. CASE ServerAccepts(m)
    <3>1. m.op \in Registrations /\ m.op \in AllOps
      BY <2>6 DEF ServerAccepts, Registrations, AllOps
    <3>2. m.path \in Paths /\ world[m.path] \in StateVals
      BY <2>2, <3>1, OutgoingCases DEF TypeInv, TypeOK, ServerTypeOK
    <3>3. srv_regs' = srv_regs \cup {Step(m.op, m.path)}
      BY <2>6 DEF ServerAccepts
    <3>4. CASE m.op = "StateObserve" /\ m.path = p
      <4>1. Deliver(Answer(m, world[p]))
        BY <2>6, <3>4 DEF ServerAccepts
      <4>2. Observation(p) \in srv_regs'
        BY <3>3, <3>4 DEF Observation
      <4>3. \E a \in Incoming \ StateTold(p) :
              IsReply(a) /\ a.res = world[p] /\ on_message' = Append(on_message, a)
        BY <1>1, <1>2, <2>2, <3>1, <3>2, <3>4, <4>1
      <4> QED
        BY <2>2, <2>3, <3>4, <4>2, <4>3 DEF TellsFirst, TellsNothingNew
    <3>5. CASE ~(m.op = "StateObserve" /\ m.path = p)
      <4>1. PICK res \in Results : Deliver(Answer(m, res))
        BY <1>2, <2>6, <3>2 DEF ServerAccepts
      <4>2. Observation(p) \in srv_regs' <=> Observation(p) \in srv_regs
        BY <3>3, <3>5 DEF Observation, Step
      <4> QED
        BY <1>1, <2>2, <2>3, <3>1, <4>1, <4>2 DEF TellsNothingNew
    <3> QED
      BY <3>4, <3>5
  <2>7. CASE ServerPostpones(m) \/ ServerGetsReply(m)
    BY <2>3, <2>7 DEF ServerPostpones, ServerGetsReply, TellsNothingNew
  <2> QED
    BY <2>1, <2>4, <2>5, <2>6, <2>7
<1>4. CASE \E req \in srv_pending : ServerAnswers(req)
  <2>1. PICK req \in srv_pending : ServerAnswers(req)
    BY <1>4
  <2>2. PICK res \in {"Success", "Error"} : Deliver(Answer(req, res))
    BY <2>1 DEF ServerAnswers
  <2>3. req \in Outgoing /\ req.op \in AllOps
    BY FlightTypes DEF PendingRequests, AllOps, Outgoing
  <2>4. \E a \in Incoming \ StateTold(p) :
          IsReply(a) /\ a.res = res /\ on_message' = Append(on_message, a)
    BY <1>1, <1>2, <2>2, <2>3
  <2> QED
    BY <2>1, <2>4 DEF ServerAnswers, TellsNothingNew
<1>5. ASSUME NEW path \in Paths, NEW num \in CallIds, ServerCalls(num, path)
      PROVE  TellsNothingNew(p)
  <2>1. PICK a : a = [type |-> "action_call", id |-> num, path |-> path]
    OBVIOUS
  <2>2. a \in Incoming /\ a.type = "action_call"
    BY <2>1 DEF Incoming
  <2> QED
    BY <1>5, <2>1, <2>2
    DEF ServerCalls, Pushes, Deliver, TellsNothingNew, StateTold, IsReply
<1>6. ASSUME NEW path \in Paths, ServerNotifies(path)
      PROVE  TellsNothingNew(p)
  <2>1. PICK a : a = [type |-> "event_notify", path |-> path]
    OBVIOUS
  <2>2. a \in Incoming /\ a.type = "event_notify"
    BY <2>1 DEF Incoming
  <2> QED
    BY <1>6, <2>1, <2>2
    DEF ServerNotifies, Pushes, Deliver, TellsNothingNew, StateTold, IsReply
<1>7. ASSUME NEW path \in Paths, NEW value \in StateVals, WorldChanges(path, value)
      PROVE  TellsChange(p) \/ TellsNothingNew(p) \/ TellsNobody(p)
  <2>1. PICK a : a = [type |-> "state_changed", path |-> path, value |-> value]
    OBVIOUS
  <2>2. /\ a \in Incoming /\ a.type = "state_changed" /\ ~IsReply(a)
        /\ a.path = path /\ a.value = value
    BY <2>1 DEF Incoming, IsReply
  <2>3. /\ world' = [world EXCEPT ![path] = value] /\ UNCHANGED <<to_server, srv_regs>>
        /\ IF Observation(path) \in srv_regs THEN on_message' = Append(on_message, a)
           ELSE UNCHANGED on_message
    BY <1>7, <2>1 DEF WorldChanges, Deliver, Observation
  <2>4. world \in [Paths -> StateVals]
    BY DEF TypeInv, TypeOK, ServerTypeOK
  <2>5. CASE path = p
    <3>1. world'[p] = a.value /\ a \in StateTold(p)
      BY <2>2, <2>3, <2>4, <2>5 DEF StateTold
    <3> QED
      BY <2>3, <2>5, <3>1 DEF TellsChange, TellsNobody
  <2>6. CASE path # p
    <3>1. world'[p] = world[p] /\ a \notin StateTold(p)
      BY <2>2, <2>3, <2>4, <2>6 DEF StateTold
    <3> QED
      BY <2>2, <2>3, <3>1 DEF TellsNothingNew
  <2> QED
    BY <2>5, <2>6
<1> QED
  BY <1>3, <1>4, <1>5, <1>6, <1>7 DEF Server

LEMMA ServerObserved ==
  ASSUME AgreedInv, Restoring, Observing, Server
  PROVE  Observing'
<1>1. TypeInv
  BY DEF AgreedInv, RequestInv
<1>2. UNCHANGED <<pc, sock, conn, rereg, rereg_result, view>>
  BY <1>1, ServerSteps DEF ServerMoves, untouchedByServer, link, inbox
<1> SUFFICES ASSUME sock' = "up", pc' \in Serving, NEW p \in Paths
             PROVE  Observed(p)' /\ Asking(p)'
  BY DEF Observing
<1>3. sock = "up" /\ Observed(p) /\ Asking(p)
  BY <1>2 DEF Observing
<1>4. (AskedNow(p)' <=> AskedNow(p)) /\ (world'[p] = world[p] /\ Seen(p) => Seen(p)')
  BY <1>2 DEF AskedNow, FirstStep, Observation, Seen
<1>5. on_message \in Seq(Incoming) /\ StateTold(p) \subseteq Incoming
  BY <1>1, FlightTypes DEF StateTold
<1>6. AskedNow(p) => srv_pending = {}
  BY DEF AskedNow, Restoring
<1>7. (Observation(p) \in srv_regs)' <=> Observation(p) \in srv_regs'
  BY DEF Observation, Step
<1>8. CASE TellsChange(p)
  <2>1. Told(p)' /\ Observation(p) \in srv_regs' /\ UNCHANGED to_server
    BY <1>1, <1>5, <1>8, ToldAppend DEF TellsChange
  <2> QED
    BY <1>2, <1>3, <1>4, <1>7, <1>8, <2>1 DEF Observed, Asking, TellsChange
<1>9. CASE TellsNobody(p)
  <2>1. Untold(p)' /\ Observation(p) \notin srv_regs'
    BY <1>3, <1>9 DEF TellsNobody, Observed, Untold, StateTold
  <2> QED
    BY <1>2, <1>3, <1>4, <1>7, <1>9, <2>1 DEF Observed, Asking, TellsNobody
<1>10. CASE TellsFirst(p)
  <2>1. /\ Untold(p) /\ (pc = "main" => view[p] = <<>>)
        /\ Observation(p) \in srv_regs' /\ world'[p] = world[p]
    BY <1>3, <1>10 DEF TellsFirst, Observed
  <2>2. PICK m \in Outgoing : FirstSent(m) /\ m.op = "StateObserve" /\ m.path = p
    BY <1>10 DEF TellsFirst
  <2>3. PICK a \in Incoming : /\ IsReply(a) /\ a.res = world[p]
                              /\ on_message' = Append(on_message, a)
    BY <1>10 DEF TellsFirst
  <2>4. Untold(p)'
    BY <1>1, <2>1, <2>3, ToldAppend DEF IsReply, StateTold
  <2>5. to_server # <<>> /\ to_server' = Tail(to_server)
    BY <1>10 DEF TellsFirst
  <2>6. CASE pc = "wait_for_reply"
    <3>1. PICK s \in rereg : FirstStep(s) /\ Underway(s, "out")
      BY <2>5, <2>6 DEF Restoring, Underway
    <3>2. to_server \in Seq(Outgoing) /\ m = to_server[1] /\ 1 \in 1 .. Len(to_server)
      BY <1>1, <2>2, <2>5, FlightTypes, TailElements DEF FirstSent
    <3>3. Restores(m, s) /\ s \in Steps
      BY <1>1, <3>1, <3>2 DEF Underway, TypeInv, TypeOK, ActorTypeOK
    <3>4. s = Observation(p)
      BY <2>2, <3>3 DEF Restores, Steps, Observation, Step
    <3>5. view[p] # <<>>
      BY <1>3, <2>6, <3>1, <3>4 DEF Asking, AskedNow
    <3>6. to_server' = <<>>
      <4>1. Len(to_server) <= 1
        BY <3>1 DEF Underway
      <4>2. /\ to_server' \in Seq(Outgoing) /\ Len(to_server') = Len(to_server) - 1
            /\ Len(to_server) \in Nat
        BY <2>5, <3>2
      <4> QED
        BY <4>1, <4>2, EmptyByLength
    <3>7. NoReply(on_message) /\ rereg_result = <<>>
      BY <3>1 DEF Underway
    <3>8. Pending(p)'
      <4>1. \A i \in 1 .. Len(on_message') :
              IsReply(on_message'[i]) => on_message'[i].res = world[p]
        BY <1>5, <2>3, <3>7, AppendElements DEF NoReply
      <4>2. Len(<<>>) = 0
        OBVIOUS
      <4> QED
        BY <1>2, <2>1, <3>7, <4>1, <4>2 DEF Pending
    <3>9. AskedNow(p)'
      BY <1>4, <2>6, <3>1, <3>4 DEF AskedNow
    <3> QED
      BY <1>2, <1>7, <2>1, <2>4, <3>5, <3>6, <3>8, <3>9 DEF Observed, Asking
  <2>7. CASE pc = "main"
    <3>1. Seen(p)' /\ ~AskedNow(p)'
      BY <1>2, <1>4, <2>1, <2>7 DEF Seen, AskedNow
    <3> QED
      BY <1>7, <2>1, <2>4, <3>1 DEF Observed, Asking
  <2>8. pc # "reregister"
    BY <2>5 DEF Restoring
  <2> QED
    BY <1>2, <2>6, <2>7, <2>8 DEF Serving
<1>11. CASE TellsNothingNew(p)
  <2>1. (Untold(p) => Untold(p)') /\ (Told(p) => Told(p)')
    <3>1. CASE UNCHANGED on_message
      BY <1>11, <3>1 DEF TellsNothingNew, Untold, Told, Newest, StateTold
    <3> QED
      BY <1>1, <1>11, <3>1, ToldAppend DEF TellsNothingNew
  <2>2. AskedNow(p) /\ Observation(p) \in srv_regs => UNCHANGED to_server
    BY <1>3, <1>11 DEF TellsNothingNew, Asking
  <2>3. ASSUME AskedNow(p), Observation(p) \in srv_regs, Pending(p)
        PROVE  Pending(p)'
    <3>1. to_server = <<>> /\ srv_pending = {}
      BY <1>3, <1>6, <2>3 DEF Asking
    <3>2. \/ UNCHANGED on_message
          \/ \E a \in Incoming : ~IsReply(a) /\ on_message' = Append(on_message, a)
      BY <1>11, <3>1 DEF TellsNothingNew
    <3>3. \A i \in 1 .. Len(on_message') : IsReply(on_message'[i]) =>
            i \in 1 .. Len(on_message) /\ on_message'[i] = on_message[i]
      BY <1>5, <3>2, AppendElements
    <3> QED
      BY <1>2, <1>11, <2>3, <3>3 DEF TellsNothingNew, Pending
  <2> QED
    BY <1>2, <1>3, <1>4, <1>7, <1>11, <2>1, <2>2, <2>3
    DEF TellsNothingNew, Observed, Asking
<1> QED
  BY <1>1, <1>3, <1>8, <1>9, <1>10, <1>11, ServerTells

(* The actor passes on every change it reads on a connection that is up.   *)
LEMMA ReadShows ==
  ASSUME AgreedInv, Whole, read_message, sock = "up", pc \in Serving, pc' \in Serving,
         NEW p \in Paths
  PROVE  /\ pc' = pc
         /\ view'[p] = IF Head(on_message) \in StateTold(p)
                       THEN Append(view[p], Head(on_message).value) ELSE view[p]
         /\ \/ UNCHANGED rereg_result
            \/ /\ IsReply(Head(on_message))
               /\ rereg_result' = Append(rereg_result, Head(on_message).res)
<1>1. TypeInv
  BY DEF AgreedInv, RequestInv
<1>2. PICK m : m = Head(on_message)
  OBVIOUS
<1>3. m \in WholeIn /\ m \in Incoming
  BY <1>2, SeqTypes DEF Whole, WholeIn, read_message
<1>4. handle_message(m)
  BY <1>2, <1>3 DEF Whole, WholeIn, read_message, Serving
<1>5. view \in [Paths -> Seq(StateVals)]
  BY <1>1 DEF TypeInv, TypeOK, ApplicationTypeOK
<1>6. CASE handle_reply(m)
  BY <1>2, <1>6 DEF handle_reply, push_result, IsReply, StateTold, Serving
<1>7. CASE handle_push(m)
  <2>1. pc' = pc /\ Registered(m) /\ UNCHANGED rereg_result
    BY <1>7 DEF handle_push, Serving
  <2>2. CASE m \in StateTold(p)
    <3>1. m.type = "state_changed" /\ m.path = p
      BY <2>2 DEF StateTold
    <3>2. view'[p] = Append(view[p], m.value)
      BY <1>5, <1>7, <2>1, <3>1 DEF handle_push
    <3> QED
      BY <1>2, <2>1, <2>2, <3>2
  <2>3. CASE m \notin StateTold(p)
    <3>1. view'[p] = view[p]
      BY <1>3, <1>5, <1>7, <2>3, IncomingCases DEF handle_push, StateTold
    <3> QED
      BY <1>2, <2>1, <2>3, <3>1
  <2> QED
    BY <2>2, <2>3
<1> QED
  BY <1>4, <1>6, <1>7 DEF handle_message

LEMMA LastAppend ==
  ASSUME NEW S, NEW s \in Seq(S), NEW x \in S
  PROVE  /\ Last(Append(s, x)) = x /\ Append(s, x) # <<>>
         /\ Len(Append(s, x)) = Len(s) + 1 /\ Len(s) \in Nat
         /\ s # <<>> => Len(s) >= 1 /\ Append(s, x)[Len(s)] = Last(s)
<1>1. Len(Append(s, x)) = Len(s) + 1 /\ Len(s) \in Nat /\ Append(s, x) # <<>>
  OBVIOUS
<1>2. Append(s, x)[Len(s) + 1] = x
  OBVIOUS
<1>3. s # <<>> => Len(s) >= 1 /\ Append(s, x)[Len(s)] = s[Len(s)]
  OBVIOUS
<1> QED
  BY <1>1, <1>2, <1>3 DEF Last

LEMMA ReadObserved ==
  ASSUME AgreedInv, Whole, Observing, read_message, sock = "up", pc \in Serving,
         pc' \in Serving, UNCHANGED serverVars, NEW p \in Paths
  PROVE  Observed(p)' /\ Asking(p)'
<1>1. TypeInv /\ Observed(p) /\ Asking(p)
  BY DEF AgreedInv, RequestInv, Observing
<1>2. UNCHANGED <<pc, conn, rereg, to_server, srv_regs, world>>
  <2>1. pc' = pc /\ pc # "hello"
    BY ReadShows DEF Serving
  <2> QED
    BY <2>1 DEF read_message, serverVars
<1>3. (AskedNow(p)' <=> AskedNow(p)) /\ Observation(p)' = Observation(p)
  BY <1>2 DEF AskedNow, FirstStep, Observation, Step
<1>4. PICK m : m = Head(on_message)
  OBVIOUS
<1>5. /\ on_message \in Seq(Incoming) /\ on_message # <<>> /\ on_message' = Tail(on_message)
      /\ m = on_message[1] /\ 1 \in 1 .. Len(on_message)
      /\ Len(on_message') = Len(on_message) - 1
      /\ \A i \in 1 .. Len(on_message') :
           i + 1 \in 1 .. Len(on_message) /\ on_message'[i] = on_message[i + 1]
  BY <1>1, <1>4, FlightTypes, TailElements DEF read_message
<1>6. view \in [Paths -> Seq(StateVals)] /\ rereg_result \in Seq(Results)
  BY <1>1 DEF TypeInv, TypeOK, ApplicationTypeOK, ChannelTypeOK
<1>7. m \in Incoming /\ (m \in StateTold(p) => m.value \in StateVals)
  <2>1. m \in Incoming
    BY <1>5, SeqTypes
  <2> QED
    BY <2>1, IncomingCases DEF StateTold
<1>8. CASE m \notin StateTold(p)
  <2>1. view'[p] = view[p]
    BY <1>4, <1>8, ReadShows
  <2>2. (Untold(p) => Untold(p)') /\ (Told(p) => Told(p)')
    BY <1>1, <1>2, <1>4, <1>5, <1>8, ToldTail
  <2>3. Seen(p) => Seen(p)'
    BY <1>2, <2>1 DEF Seen
  <2>4. ASSUME Pending(p) PROVE Pending(p)'
    <3>1. CASE Len(view[p]) >= 2 /\ Last(view[p]) = world[p]
      BY <1>2, <2>1, <3>1 DEF Pending
    <3>2. CASE /\ \A i \in 1 .. Len(on_message) :
                    IsReply(on_message[i]) => on_message[i].res = world[p]
               /\ \A i \in 1 .. Len(rereg_result) : rereg_result[i] = world[p]
      <4>1. \A i \in 1 .. Len(on_message') :
              IsReply(on_message'[i]) => on_message'[i].res = world[p]
        BY <1>5, <3>2
      <4>2. CASE UNCHANGED rereg_result
        BY <1>2, <3>2, <4>1, <4>2 DEF Pending
      <4>3. CASE IsReply(m) /\ rereg_result' = Append(rereg_result, m.res)
        <5>1. m.res = world[p] /\ m.res \in Results
          BY <1>5, <1>7, <3>2, <4>3, IncomingCases DEF IsReply
        <5>2. \A i \in 1 .. Len(rereg_result') : rereg_result'[i] = world[p]
          BY <1>6, <3>2, <4>3, <5>1, AppendElements
        <5> QED
          BY <1>2, <4>1, <5>2 DEF Pending
      <4> QED
        BY <1>4, <4>2, <4>3, ReadShows
    <3> QED
      BY <2>4, <3>1, <3>2 DEF Pending
  <2> QED
    BY <1>1, <1>2, <1>3, <2>1, <2>2, <2>3, <2>4 DEF Observed, Asking
<1>9. CASE m \in StateTold(p)
  <2>1. view'[p] = Append(view[p], m.value)
    BY <1>4, <1>9, ReadShows
  <2>2. /\ Last(view'[p]) = m.value /\ view'[p] # <<>>
        /\ view[p] # <<>> => Len(view'[p]) >= 2
    BY <1>6, <1>7, <1>9, <2>1, LastAppend
  <2>3. Observation(p) \in srv_regs /\ Told(p)
    BY <1>1, <1>4, <1>5, <1>9, ToldTail, <1>2 DEF Observed
  <2>4. Told(p)' \/ (Untold(p)' /\ m.value = world[p])
    BY <1>1, <1>2, <1>4, <1>5, <2>3, ToldTail
  <2>5. m.value = world[p] => Seen(p)' /\ (AskedNow(p) => Pending(p)')
    BY <1>1, <1>2, <2>2 DEF Seen, Pending, Asking
  <2> QED
    BY <1>1, <1>2, <1>3, <2>2, <2>3, <2>4, <2>5 DEF Observed, Asking
<1> QED
  BY <1>8, <1>9

(* The result of a step of reregister(): that of state_observe comes last  *)
(* to the observer, after the changes that have overtaken it.              *)
LEMMA CheckObserved ==
  ASSUME AgreedInv, Restoring, Observers, Observing, sock = "up", pc = "wait_for_reply",
         pc' \in Serving, NEW step \in rereg, check_result(step), UNCHANGED serverVars,
         NEW p \in Paths
  PROVE  Observed(p)' /\ Asking(p)'
<1>1. TypeInv /\ Observed(p)
  BY DEF AgreedInv, RequestInv, Observing, Serving
<1>2. /\ pc' = "reregister" /\ FirstStep(step) /\ UNCHANGED <<conn, on_message>>
      /\ UNCHANGED <<srv_regs, world>>
      /\ check_success(step, Head(rereg_result)) \/ HandleStateReply(step, Head(rereg_result))
  BY DEF check_result, FirstStep, Serving, link, serverVars
<1>3. ~AskedNow(p)' /\ Asking(p)'
  BY <1>2 DEF AskedNow, Asking
<1>4. (Told(p)' <=> Told(p)) /\ (Untold(p)' <=> Untold(p)) /\ Observation(p)' = Observation(p)
  BY <1>2 DEF Told, Newest, Untold, StateTold, Observation, Step
<1>5. view \in [Paths -> Seq(StateVals)]
  BY <1>1 DEF TypeInv, TypeOK, ApplicationTypeOK
<1>6. CASE step = Observation(p)
  <2>1. step.op = "StateObserve" /\ step.path = p /\ AskedNow(p)
    BY <1>2, <1>6 DEF Observation, Step, AskedNow
  <2>2. PICK x : x = Head(rereg_result)
    OBVIOUS
  <2>3. x \in StateVals /\ view'[p] = Append(view[p], x)
    BY <1>2, <1>5, <2>1, <2>2 DEF check_success, HandleStateReply
  <2>4. x = rereg_result[1] /\ 1 \in 1 .. Len(rereg_result)
    BY <1>1, <2>2, TailElements DEF check_result, TypeInv, TypeOK, ChannelTypeOK
  <2>5. Observation(p) \in srv_regs
    <3>1. PICK s \in rereg, place \in {"out", "in", "result"} :
            FirstStep(s) /\ Underway(s, place)
      BY DEF Restoring
    <3>2. s = step
      BY <1>1, <1>2, <3>1, FirstStepUnique
    <3>3. x # "Error"
      BY <2>3, ClientAssumption DEF StateVals, Unknown
    <3>4. Done(step)
      BY <2>4, <3>1, <3>2, <3>3 DEF Underway
    <3> QED
      BY <1>6, <2>1, <3>4 DEF Done
  <2>6. conn > 1
    <3>1. observed_states[p] # None
      BY <2>1 DEF AgreedInv, Agreed, Wanted
    <3> QED
      BY <3>1 DEF Observers, SetsUp
  <2>7. /\ Last(view'[p]) = x /\ Len(view'[p]) = Len(view[p]) + 1 /\ Len(view[p]) \in Nat
        /\ view[p] # <<>> => view'[p][Len(view[p])] = Last(view[p])
    BY <1>5, <2>3, LastAppend
  <2>8. Pending(p) => Seen(p)'
    <3>1. ASSUME Len(view[p]) >= 2, Last(view[p]) = world[p]
          PROVE  Seen(p)'
      <4>1. view[p] # <<>>
        <5>1. Len(<<>>) = 0
          OBVIOUS
        <5> QED
          BY <3>1, <5>1
      <4>2. Len(view'[p]) > 2 /\ Len(view'[p]) - 1 = Len(view[p])
        BY <2>7, <3>1
      <4> QED
        BY <1>2, <2>6, <2>7, <3>1, <4>1, <4>2 DEF Seen
    <3>2. rereg_result[1] = world[p] => Seen(p)'
      BY <1>2, <2>4, <2>7 DEF Seen
    <3> QED
      BY <2>4, <3>1, <3>2 DEF Pending
  <2> QED
    BY <1>1, <1>2, <1>3, <1>4, <2>1, <2>5, <2>8 DEF Observed
<1>7. CASE step # Observation(p)
  <2>1. ~AskedNow(p)
    BY <1>1, <1>2, <1>7, FirstStepUnique DEF AskedNow
  <2>2. view'[p] = view[p]
    <3>1. step.op = "StateObserve" => step.path # p
      BY <1>1, <1>7 DEF TypeInv, TypeOK, ActorTypeOK, Steps, Observation, Step
    <3> QED
      BY <1>2, <1>5, <3>1 DEF check_success, HandleStateReply
  <2>3. Seen(p) => Seen(p)'
    BY <1>2, <2>2 DEF Seen
  <2> QED
    BY <1>1, <1>2, <1>3, <1>4, <2>1, <2>3 DEF Observed
<1> QED
  BY <1>6, <1>7

LEMMA RunObserved ==
  ASSUME AgreedInv, Restoring, Forgetting, Whole, Observers, Observing, ActorRuns,
         UNCHANGED serverVars
  PROVE  Observing'
<1> SUFFICES ASSUME sock' = "up", pc' \in Serving, NEW p \in Paths
             PROVE  Observed(p)' /\ Asking(p)'
  BY DEF Observing
<1>1. TypeInv /\ [Next]_vars
  BY DEF AgreedInv, RequestInv, Next
<1>2. sock = "up" /\ (pc \in Serving \/ ReadsInHello)
  BY <1>1, AlreadyUp
<1>3. ~actorpp_connect
  BY DEF actorpp_connect, Serving
<1>4. UNCHANGED <<srv_regs, world, conn>>
  BY <1>3 DEF serverVars, ActorRuns, close_fails, do_hello, wait_for_reply, loop, BackoffExpires,
         reregister_done, read_close, see_exit, read_ping_result, ping_timeout_expires,
         write_hello, reregister_send, check_result, read_message, read_reply,
         idle_timeout, read_command, link
<1>5. CASE ReadsInHello
  <2>1. /\ srv_regs' = {} /\ on_message' = <<>>
        /\ pc' \in {"hello", "reregister", "ProtocolError"}
    BY <1>5, HelloReadFirst DEF AgreedInv, RequestInv, Unregistered
  <2>2. Untold(p)'
    <3>1. Len(<<>>) = 0
      OBVIOUS
    <3> QED
      BY <2>1, <3>1 DEF Untold
  <2> QED
    BY <2>1, <2>2 DEF Observed, Asking, AskedNow
<1> SUFFICES ASSUME pc \in Serving
             PROVE  Observed(p)' /\ Asking(p)'
  BY <1>2, <1>5
<1>6. Observed(p) /\ Asking(p)
  BY <1>2 DEF Observing
<1>7. ASSUME UNCHANGED <<on_message, view>>
      PROVE  /\ Told(p)' <=> Told(p)
             /\ Untold(p)' <=> Untold(p)
             /\ Seen(p)' <=> Seen(p)
             /\ Observation(p)' = Observation(p)
  BY <1>4, <1>7 DEF Told, Newest, Untold, Seen, StateTold, Observation, Step
<1>8. CASE read_message
  BY <1>2, <1>8, ReadObserved
<1>9. CASE pc = "wait_for_reply" /\ \E step \in rereg : check_result(step)
  BY <1>2, <1>9, CheckObserved
<1>10. CASE \E step \in rereg : reregister_send(step)
  <2>1. PICK step \in rereg : reregister_send(step)
    BY <1>10
  <2>2. /\ pc = "reregister" /\ pc' = "wait_for_reply" /\ FirstStep(step)
        /\ UNCHANGED <<rereg, on_message, view>>
    BY <2>1 DEF reregister_send, send_send_buf, FirstStep, inbox, Serving
  <2>3. AskedNow(p)' => Observation(p) \in rereg
    BY <2>2 DEF AskedNow, FirstStep, Observation, Step
  <2>4. CASE Observation(p) \in rereg
    <3>1. observed_states[p] # None
      BY <2>4 DEF AgreedInv, Agreed, Wanted, Observation, Step
    <3>2. Silent(p)
      BY <2>2, <2>4, <3>1 DEF Forgetting, AskedLater, Observation
    <3>3. view'[p] # <<>> /\ Observation(p) \notin srv_regs
      BY <2>2, <3>2 DEF Silent, Observation
    <3> QED
      BY <1>4, <1>6, <1>7, <2>2, <3>3 DEF Observed, Asking
  <2>5. CASE Observation(p) \notin rereg
    <3>1. ~AskedNow(p) /\ ~AskedNow(p)'
      BY <2>2, <2>3, <2>5 DEF AskedNow
    <3> QED
      BY <1>4, <1>6, <1>7, <2>2, <3>1 DEF Observed, Asking
  <2> QED
    BY <2>4, <2>5
<1>11. CASE reregister_done
  <2>1. pc = "reregister" /\ rereg = {} /\ pc' = "main" /\ UNCHANGED <<on_message, view>>
    BY <1>11 DEF reregister_done, waits, inbox
  <2>2. Observation(p) \notin srv_regs => view[p] = <<>>
    <3>1. \A s \in reregister_steps : Done(s)
      BY <2>1 DEF Restoring
    <3>2. observed_states[p] # None => Observation(p) \in reregister_steps
      BY DEF reregister_steps, Observation
    <3>3. Done(Observation(p)) => Observation(p) \in srv_regs
      BY DEF Done, Observation, Step
    <3> QED
      BY <3>1, <3>2, <3>3 DEF Observers
  <2>3. ~AskedNow(p) /\ ~AskedNow(p)'
    BY <2>1 DEF AskedNow
  <2> QED
    BY <1>4, <1>6, <1>7, <2>1, <2>2, <2>3 DEF Observed, Asking
<1>12. CASE pc = "main" /\ ~read_message
  <2>1. pc' = "main"
    BY <1>12, RunStages DEF Serving, ReadsInHello, reregister_send
  <2>2. UNCHANGED <<on_message, view>>
    BY <1>1, <1>2, <1>12, <2>1, MainSteps DEF Serves, SendsOwn, SendsCommand
  <2>3. ~AskedNow(p) /\ ~AskedNow(p)'
    BY <1>12, <2>1 DEF AskedNow
  <2> QED
    BY <1>4, <1>6, <1>7, <1>12, <2>2, <2>3 DEF Observed, Asking
<1> QED
  BY <1>3, <1>2, <1>8, <1>9, <1>10, <1>11, <1>12
  DEF ActorRuns, do_hello, wait_for_reply, loop, BackoffExpires, close_fails, write_hello,
      read_close, see_exit, Serving

LEMMA NextObserved ==
  ASSUME AgreedInv, Restoring, Forgetting, Whole, Observers, Observing, [Next]_vars
  PROVE  Observing'
<1>1. TypeInv
  BY DEF AgreedInv, RequestInv
<1>2. CASE ActorCloses \/ Network
  BY <1>2 DEF ActorCloses, connect, BackoffExit, Network, Break, Mute, ReceiverCloses,
              Serving, Observing
<1>3. CASE (Application \/ Finished \/ UNCHANGED vars) /\ UNCHANGED serverVars
  <2>1. UNCHANGED <<pc, sock, conn, rereg, on_message, rereg_result, view, to_server,
                    srv_regs, world>>
    BY <1>3 DEF Application, Ask, reply, test_disconnect, exit, Finished, vars, clientVars,
                serverVars, link, waits, inbox
  <2>2. \A p : /\ Told(p)' <=> Told(p)
               /\ Untold(p)' <=> Untold(p)
               /\ Seen(p)' <=> Seen(p)
               /\ Pending(p)' <=> Pending(p)
    BY <2>1 DEF Told, Newest, Untold, Seen, Pending, StateTold
  <2>3. \A p : (AskedNow(p)' <=> AskedNow(p)) /\ Observation(p)' = Observation(p)
    BY <2>1 DEF AskedNow, FirstStep, Observation, Step
  <2> QED
    BY <2>1, <2>2, <2>3 DEF Observing, Observed, Asking
<1>4. UNCHANGED vars => UNCHANGED serverVars
  BY DEF vars
<1> QED
  BY <1>2, <1>3, <1>4, RunObserved, ServerObserved DEF Next, Finished

ObservingInv == AgreedInv /\ Restoring /\ Forgetting /\ Whole /\ Observers /\ Observing

LEMMA ObservingInvariant == Spec => []ObservingInv
<1>1. Init => Forgetting /\ Observers /\ Observing
  BY DEF Init, ClientInit, Forgetting, Observers, Observing, SetsUp
<1>2. /\ AgreedInv /\ TypeInv' /\ Restoring /\ Forgetting /\ Whole /\ Observers /\ Observing
      /\ [Next]_vars /\ Clean
      => Forgetting' /\ Observers' /\ Observing'
  BY NextForgets, NextObservers, NextObserved DEF AgreedInv, RequestInv
<1>3. RequestInv => TypeInv
  BY DEF RequestInv
<1> QED
  BY <1>1, <1>2, TypeInvariant, CleanInvariant, AgreedInvariant, RestoringInvariant,
     WholeInvariant, PTL
  DEF Spec, ObservingInv

(* As soon as nothing is on its way, what an observer received last is the *)
(* value of the state, for any number of paths, values, requests and       *)
(* connections; after a reconnection it may have received that value just  *)
(* before, because a change is passed on at once and the reply to          *)
(* state_observe only when reregister() looks at it.                       *)
THEOREM ObserversNearlyCurrent == Spec => []ObserverIsNearlyCurrent
<1>1. ObservingInv => ObserverIsNearlyCurrent
  <2> SUFFICES ASSUME ObservingInv, NEW p \in Paths, ObservesQuietly(p)
               PROVE  \/ Last(view[p]) = world[p]
                      \/ conn > 1 /\ Len(view[p]) > 2 /\ view[p][Len(view[p]) - 1] = world[p]
    BY DEF ObserverIsNearlyCurrent
  <2>1. Observed(p) /\ Observation(p) \in srv_regs /\ ~AskedNow(p)
    BY DEF ObservingInv, Observing, ObservesQuietly, Serving, AskedNow, Observation
  <2>2. ~Told(p)
    <3>1. Len(<<>>) = 0
      OBVIOUS
    <3> QED
      BY <3>1 DEF Told, ObservesQuietly
  <2>3. Seen(p)
    BY <2>1, <2>2 DEF Observed
  <2> QED
    BY <2>3 DEF Seen, ObservesQuietly
<1> QED
  BY <1>1, ObservingInvariant, PTL

=============================================================================
