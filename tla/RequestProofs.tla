--------------------------- MODULE RequestProofs ---------------------------
(***************************************************************************)
(* Proofs that requests get their own results and no more than one, for    *)
(* any number of requests and connections.                                 *)
(*                                                                         *)
(* The argument has two parts.  InFlight says that the id of a request or  *)
(* reply on its way is on its way only once, and that reply_channels holds *)
(* the right channel for it: so a reply finds its channel, unless an id    *)
(* was reused.  Places says that a request is queued, or its channel is in *)
(* reply_channels once, or it has a result.                                *)
(***************************************************************************)
EXTENDS EshetProofs

-----------------------------------------------------------------------------
(* What is on its way: requests sent (out), requests the server answers    *)
(* later (pend), replies not yet read (in), and the channels kept for them *)
(* (rc).                                                                   *)
AsksReply(m) == m.op \notin {"Hello", "Reply"}
IsReply(m)   == m.type = "reply"

Awaits(rc, m) ==
  /\ m.id \in Ids /\ rc[m.id] # None
  /\ rc[m.id].to = m.to /\ rc[m.id].type = ReplyType(m.op)
Fits(rc, m) ==
  /\ m.id \in Ids /\ rc[m.id] # None
  /\ rc[m.id].to = m.to /\ Converts(m.res, rc[m.id].type)

Matched(out, pend, in, rc) ==
  /\ \A i \in 1 .. Len(out) : AsksReply(out[i]) => Awaits(rc, out[i])
  /\ \A req \in pend : Awaits(rc, req)
  /\ \A i \in 1 .. Len(in) : IsReply(in[i]) => Fits(rc, in[i])

Apart(out, pend, in) ==
  /\ \A i, j \in 1 .. Len(out) :
       AsksReply(out[i]) /\ AsksReply(out[j]) /\ out[i].id = out[j].id => i = j
  /\ \A p, q \in pend : p.id = q.id => p = q
  /\ \A i, j \in 1 .. Len(in) :
       IsReply(in[i]) /\ IsReply(in[j]) /\ in[i].id = in[j].id => i = j
  /\ \A i \in 1 .. Len(out) : \A req \in pend :
       AsksReply(out[i]) => out[i].id # req.id
  /\ \A i \in 1 .. Len(out) : \A j \in 1 .. Len(in) :
       AsksReply(out[i]) /\ IsReply(in[j]) => out[i].id # in[j].id
  /\ \A req \in pend : \A j \in 1 .. Len(in) : IsReply(in[j]) => req.id # in[j].id

Flight(out, pend, in, rc) == Matched(out, pend, in, rc) /\ Apart(out, pend, in)

InFlight == clash \/ Flight(to_server, srv_pending, on_message, reply_channels)

(* A request is sent, or lost by a broken connection, under an id that     *)
(* nothing waits for.                                                      *)
LEMMA FlightSend ==
  ASSUME NEW S, NEW T, NEW out \in Seq(S), NEW in \in Seq(T), NEW pend,
         NEW V, NEW rc \in [Ids -> V], Flight(out, pend, in, rc),
         NEW m \in S, m.id \in Ids, rc[m.id] = None,
         NEW c \in V, c # None, c.to = m.to, c.type = ReplyType(m.op)
  PROVE  /\ Flight(Append(out, m), pend, in, [rc EXCEPT ![m.id] = c])
         /\ Flight(out, pend, in, [rc EXCEPT ![m.id] = c])
<1> DEFINE new == [rc EXCEPT ![m.id] = c]
<1>1. \A x : Awaits(rc, x) => Awaits(new, x) /\ x.id # m.id
  BY DEF Awaits
<1>2. \A x : Fits(rc, x) => Fits(new, x) /\ x.id # m.id
  BY DEF Fits
<1>3. Awaits(new, m)
  BY DEF Awaits
<1>4. Flight(out, pend, in, new)
  BY <1>1, <1>2 DEF Flight, Matched, Apart
<1>5. \A i \in 1 .. Len(Append(out, m)) :
        \/ i \in 1 .. Len(out) /\ Append(out, m)[i] = out[i]
        \/ i = Len(out) + 1 /\ Append(out, m)[i] = m
  BY AppendElements
<1>6. Matched(Append(out, m), pend, in, new)
  BY <1>3, <1>4, <1>5 DEF Flight, Matched
<1>7. Apart(Append(out, m), pend, in)
  BY <1>1, <1>2, <1>5 DEF Flight, Matched, Apart
<1> QED
  BY <1>4, <1>6, <1>7 DEF Flight

(* A message that asks for no reply is sent, or one that is none received. *)
LEMMA FlightOther ==
  ASSUME NEW S, NEW T, NEW out \in Seq(S), NEW in \in Seq(T), NEW pend, NEW rc,
         Flight(out, pend, in, rc)
  PROVE  /\ \A m \in S : ~AsksReply(m) => Flight(Append(out, m), pend, in, rc)
         /\ \A m \in T : ~IsReply(m) => Flight(out, pend, Append(in, m), rc)
<1>1. ASSUME NEW m \in S, ~AsksReply(m) PROVE Flight(Append(out, m), pend, in, rc)
  <2>1. \A i \in 1 .. Len(Append(out, m)) :
          \/ i \in 1 .. Len(out) /\ Append(out, m)[i] = out[i]
          \/ i = Len(out) + 1 /\ Append(out, m)[i] = m
    BY AppendElements
  <2> QED
    BY <1>1, <2>1 DEF Flight, Matched, Apart
<1>2. ASSUME NEW m \in T, ~IsReply(m) PROVE Flight(out, pend, Append(in, m), rc)
  <2>1. \A i \in 1 .. Len(Append(in, m)) :
          \/ i \in 1 .. Len(in) /\ Append(in, m)[i] = in[i]
          \/ i = Len(in) + 1 /\ Append(in, m)[i] = m
    BY AppendElements
  <2> QED
    BY <1>2, <2>1 DEF Flight, Matched, Apart
<1> QED
  BY <1>1, <1>2

(* The server takes a message and gives no answer yet.                     *)
LEMMA FlightTake ==
  ASSUME NEW S, NEW T, NEW out \in Seq(S), NEW in \in Seq(T), NEW pend, NEW rc,
         Flight(out, pend, in, rc), out # <<>>
  PROVE  /\ Flight(Tail(out), pend, in, rc)
         /\ AsksReply(Head(out)) => Flight(Tail(out), pend \cup {Head(out)}, in, rc)
<1>1. /\ Head(out) = out[1] /\ 1 \in 1 .. Len(out)
      /\ \A i \in 1 .. Len(Tail(out)) :
           i + 1 \in 1 .. Len(out) /\ Tail(out)[i] = out[i + 1] /\ i + 1 # 1
  BY TailElements
<1>2. Flight(Tail(out), pend, in, rc)
  <2>1. \A i, j \in 1 .. Len(Tail(out)) : i + 1 = j + 1 => i = j
    OBVIOUS
  <2> QED
    BY <1>1, <2>1 DEF Flight, Matched, Apart
<1>3. ASSUME AsksReply(Head(out))
      PROVE  Flight(Tail(out), pend \cup {Head(out)}, in, rc)
  BY <1>1, <1>2, <1>3 DEF Flight, Matched, Apart
<1> QED
  BY <1>2, <1>3

(* The server answers a request it has just taken, or one of the pending.  *)
LEMMA FlightAnswer ==
  ASSUME NEW S, NEW T, NEW out \in Seq(S), NEW in \in Seq(T), NEW pend, NEW rc,
         Flight(out, pend, in, rc), NEW a \in T, IsReply(a), Fits(rc, a)
  PROVE  /\ out # <<>> /\ AsksReply(Head(out)) /\ a.id = Head(out).id
              => Flight(Tail(out), pend, Append(in, a), rc)
         /\ \A req \in pend : a.id = req.id
              => Flight(out, pend \ {req}, Append(in, a), rc)
<1>1. \A i \in 1 .. Len(Append(in, a)) :
        \/ i \in 1 .. Len(in) /\ Append(in, a)[i] = in[i]
        \/ i = Len(in) + 1 /\ Append(in, a)[i] = a
  BY AppendElements
<1>2. ASSUME out # <<>>, AsksReply(Head(out)), a.id = Head(out).id
      PROVE  Flight(Tail(out), pend, Append(in, a), rc)
  <2>1. Flight(Tail(out), pend, in, rc)
    BY <1>2, FlightTake
  <2>2. /\ Head(out) = out[1] /\ 1 \in 1 .. Len(out)
        /\ \A i \in 1 .. Len(Tail(out)) :
             i + 1 \in 1 .. Len(out) /\ Tail(out)[i] = out[i + 1] /\ i + 1 # 1
    BY <1>2, TailElements
  <2>3. \A i \in 1 .. Len(Tail(out)) : AsksReply(Tail(out)[i]) => Tail(out)[i].id # a.id
    BY <1>2, <2>2 DEF Flight, Apart
  <2>4. /\ \A req \in pend : req.id # a.id
        /\ \A j \in 1 .. Len(in) : IsReply(in[j]) => in[j].id # a.id
    BY <1>2, <2>2 DEF Flight, Apart
  <2>5. Matched(Tail(out), pend, Append(in, a), rc)
    BY <1>1, <2>1 DEF Flight, Matched
  <2>6. Apart(Tail(out), pend, Append(in, a))
    BY <1>1, <2>1, <2>3, <2>4 DEF Flight, Apart
  <2> QED
    BY <2>5, <2>6 DEF Flight
<1>3. ASSUME NEW req \in pend, a.id = req.id
      PROVE  Flight(out, pend \ {req}, Append(in, a), rc)
  <2>1. Matched(out, pend \ {req}, Append(in, a), rc)
    BY <1>1 DEF Flight, Matched
  <2>2. Apart(out, pend \ {req}, Append(in, a))
    BY <1>1, <1>3 DEF Flight, Apart
  <2> QED
    BY <2>1, <2>2 DEF Flight
<1> QED
  BY <1>2, <1>3

(* The client reads a message; the channel of a reply is then taken out.   *)
LEMMA FlightRead ==
  ASSUME NEW S, NEW T, NEW out \in Seq(S), NEW in \in Seq(T), NEW pend,
         NEW V, NEW rc \in [Ids -> V], Flight(out, pend, in, rc), in # <<>>
  PROVE  /\ Flight(out, pend, Tail(in), rc)
         /\ IsReply(Head(in)) =>
              /\ Fits(rc, Head(in))
              /\ Flight(out, pend, Tail(in), [rc EXCEPT ![Head(in).id] = None])
<1>1. /\ Head(in) = in[1] /\ 1 \in 1 .. Len(in)
      /\ \A i \in 1 .. Len(Tail(in)) :
           i + 1 \in 1 .. Len(in) /\ Tail(in)[i] = in[i + 1] /\ i + 1 # 1
  BY TailElements
<1>2. Flight(out, pend, Tail(in), rc)
  <2>1. \A i, j \in 1 .. Len(Tail(in)) : i + 1 = j + 1 => i = j
    OBVIOUS
  <2> QED
    BY <1>1, <2>1 DEF Flight, Matched, Apart
<1>3. ASSUME IsReply(Head(in))
      PROVE  /\ Fits(rc, Head(in))
             /\ Flight(out, pend, Tail(in), [rc EXCEPT ![Head(in).id] = None])
  <2> DEFINE n   == Head(in).id
             new == [rc EXCEPT ![n] = None]
  <2>1. Fits(rc, Head(in))
    BY <1>1, <1>3 DEF Flight, Matched
  <2>2. /\ \A x : Awaits(rc, x) /\ x.id # n => Awaits(new, x)
        /\ \A x : Fits(rc, x) /\ x.id # n => Fits(new, x)
    BY DEF Awaits, Fits
  <2>3. /\ \A i \in 1 .. Len(out) : AsksReply(out[i]) => out[i].id # n
        /\ \A req \in pend : req.id # n
        /\ \A i \in 1 .. Len(Tail(in)) : IsReply(Tail(in)[i]) => Tail(in)[i].id # n
    BY <1>1, <1>3 DEF Flight, Apart
  <2>4. Matched(out, pend, Tail(in), new)
    BY <1>2, <2>2, <2>3 DEF Flight, Matched
  <2> QED
    BY <1>2, <2>1, <2>4 DEF Flight
<1> QED
  BY <1>2, <1>3

(* The connection loses what was sent, and a suffix of what was received.  *)
LEMMA FlightBreak ==
  ASSUME NEW S, NEW T, NEW out \in Seq(S), NEW in \in Seq(T), NEW pend, NEW rc,
         Flight(out, pend, in, rc), NEW n \in 0 .. Len(in)
  PROVE  Flight(<<>>, pend, SubSeq(in, 1, n), rc) /\ Flight(<<>>, pend, in, rc)
<1>1. \A i \in 1 .. Len(SubSeq(in, 1, n)) :
        i \in 1 .. Len(in) /\ SubSeq(in, 1, n)[i] = in[i]
  OBVIOUS
<1> QED
  BY <1>1 DEF Flight, Matched, Apart

LEMMA FlightNone ==
  ASSUME NEW rc
  PROVE  Flight(<<>>, {}, <<>>, rc)
  BY DEF Flight, Matched, Apart

-----------------------------------------------------------------------------
(* InFlight is invariant.                                                  *)
LEMMA FlightTypes ==
  ASSUME TypeInv
  PROVE  /\ to_server \in Seq(Outgoing) /\ on_message \in Seq(Incoming)
         /\ reply_channels \in [Ids -> ReplyChannels \cup {None}]
         /\ next_id \in Ids /\ clash \in BOOLEAN
         /\ srv_pending \in SUBSET PendingRequests
  BY DEF TypeInv, TypeOK, ActorTypeOK, ChannelTypeOK, ServerTypeOK

(* What await_reply does to reply_channels: it adds a channel, or drops it *)
(* because its id is in use.                                               *)
LEMMA AwaitCases ==
  ASSUME TypeInv, NEW chan \in Chans, NEW type \in {"Result", "StateResult"},
         await_reply(chan, type)
  PROVE  \/ clash' /\ UNCHANGED reply_channels
         \/ /\ reply_channels[next_id] = None /\ UNCHANGED clash
            /\ reply_channels' =
                 [reply_channels EXCEPT ![next_id] = [to |-> chan, type |-> type]]
<1>1. clash \in BOOLEAN
  BY FlightTypes
<1> QED
  BY <1>1 DEF await_reply, emplace

(* A request is sent, by the application, by reregister() or as a ping.    *)
LEMMA SendInFlight ==
  ASSUME TypeInv, InFlight, NEW m \in Outgoing, NEW next,
         AsksReply(m), m.id = next_id, m.to \in Chans,
         await_reply(m.to, ReplyType(m.op)), send_send_buf(m, next),
         UNCHANGED <<on_message, srv_pending>>
  PROVE  InFlight'
<1> DEFINE c == [to |-> m.to, type |-> ReplyType(m.op)]
<1>1. ReplyType(m.op) \in {"Result", "StateResult"}
  BY DEF ReplyType
<1>2. c \in ReplyChannels /\ c # None
  BY <1>1, NoneAssumption DEF ReplyChannels
<1>3. CASE clash'
  BY <1>3 DEF InFlight
<1>4. CASE /\ reply_channels[next_id] = None /\ ~clash
           /\ reply_channels' = [reply_channels EXCEPT ![next_id] = c]
  <2>1. Flight(to_server, srv_pending, on_message, reply_channels)
    BY <1>4 DEF InFlight
  <2>2. /\ to_server \in Seq(Outgoing) /\ on_message \in Seq(Incoming)
        /\ reply_channels \in [Ids -> ReplyChannels \cup {None}]
        /\ m.id \in Ids /\ reply_channels[m.id] = None
        /\ reply_channels' = [reply_channels EXCEPT ![m.id] = c]
    BY <1>4, FlightTypes
  <2>3. c.to = m.to /\ c.type = ReplyType(m.op)
    OBVIOUS
  <2>4. /\ Flight(Append(to_server, m), srv_pending, on_message, reply_channels')
        /\ Flight(to_server, srv_pending, on_message, reply_channels')
    <3> HIDE DEF c
    <3> DEFINE V == ReplyChannels \cup {None}
    <3>1. reply_channels \in [Ids -> V] /\ c \in V
      BY <1>2, <2>2
    <3> HIDE DEF V
    <3> QED
      BY <1>2, <2>1, <2>2, <2>3, <3>1, FlightSend
  <2>5. to_server' = Append(to_server, m) \/ to_server' = to_server
    BY DEF send_send_buf
  <2> QED
    BY <2>4, <2>5 DEF InFlight
<1> QED
  BY <1>1, <1>3, <1>4, AwaitCases

(* A message that asks for no reply is sent.                               *)
LEMMA SendOtherInFlight ==
  ASSUME TypeInv, InFlight, NEW m \in Outgoing, NEW next,
         ~AsksReply(m), send_send_buf(m, next),
         UNCHANGED <<on_message, srv_pending, reply_channels, clash>>
  PROVE  InFlight'
<1>1. to_server' = Append(to_server, m) \/ to_server' = to_server
  BY DEF send_send_buf
<1> QED
  BY <1>1, FlightTypes, FlightOther DEF InFlight

LEMMA RunInFlight ==
  ASSUME TypeInv, InFlight, ActorRuns, UNCHANGED serverVars
  PROVE  InFlight'
<1>1. UNCHANGED srv_pending
  BY DEF serverVars
<1>2. CASE \/ BackoffExpires \/ actorpp_connect \/ reregister_done \/ read_close \/ see_exit
           \/ read_ping_result \/ ping_timeout_expires
           \/ \E step \in rereg : check_result(step)
  BY <1>1, <1>2
  DEF BackoffExpires, actorpp_connect, reregister_done, read_close, see_exit, read_ping_result,
      ping_timeout_expires, check_result, ids, waits, InFlight
<1>3. CASE write_hello
  <2>1. Hello \in Outgoing /\ ~AsksReply(Hello)
    BY DEF Hello, Outgoing, AsksReply, TypeInv, TypeOK, ActorTypeOK
  <2> QED
    BY <1>1, <1>3, <2>1, SendOtherInFlight DEF write_hello, ids, waits
<1>4. CASE read_reply
  <2>1. Head(on_reply) \in CallSet
    BY <1>4, SeqTypes DEF TypeInv, TypeOK, ChannelTypeOK, read_reply
  <2>2. /\ CallReply(Head(on_reply)) \in Outgoing
        /\ ~AsksReply(CallReply(Head(on_reply)))
    BY <2>1 DEF CallReply, Outgoing, AsksReply
  <2>3. CASE send_send_buf(CallReply(Head(on_reply)), "main")
    BY <1>1, <1>4, <2>2, <2>3, SendOtherInFlight DEF read_reply, ids, waits
  <2>4. CASE UNCHANGED to_server
    BY <1>1, <1>4, <2>4 DEF read_reply, ids, waits, InFlight
  <2> QED
    BY <1>4, <2>3, <2>4 DEF read_reply
<1>5. CASE \E step \in rereg : reregister_send(step)
  <2>1. PICK step \in rereg : reregister_send(step)
    BY <1>5
  <2> DEFINE m == RestoreMessage(step)
  <2>2. step.op \in Registrations \cup {"StateChanged"}
    BY DEF TypeInv, TypeOK, ActorTypeOK, Steps
  <2>3. AsksReply(m) /\ m.id = next_id /\ m.to = "rereg" /\ m.op = step.op /\ m.to \in Chans
    BY <2>2 DEF RestoreMessage, Request, AsksReply, Registrations, Chans
  <2>4. await_reply(m.to, ReplyType(m.op)) /\ send_send_buf(m, "wait_for_reply")
    BY <2>1, <2>3 DEF reregister_send, RestoreMessage
  <2>5. m \in Outgoing
    BY RestoreMessageType
  <2>6. UNCHANGED on_message
    BY <2>1 DEF reregister_send
  <2> HIDE DEF m
  <2> QED
    BY <1>1, <2>3, <2>4, <2>5, <2>6, SendInFlight
<1>6. CASE idle_timeout
  <2> DEFINE m == Request("Ping", next_id, None, None, "ping")
  <2>1. m \in Outgoing
    BY FlightTypes DEF Request, Outgoing, PingRequests, Chans
  <2>2. AsksReply(m) /\ m.id = next_id /\ m.to = "ping" /\ m.op = "Ping" /\ m.to \in Chans
    BY DEF Request, AsksReply, Chans
  <2>3. ReplyType(m.op) = "Result"
    BY <2>2 DEF ReplyType
  <2>4. /\ await_reply(m.to, ReplyType(m.op)) /\ send_send_buf(m, "main")
        /\ UNCHANGED on_message
    BY <1>6, <2>2, <2>3 DEF idle_timeout, waits
  <2> HIDE DEF m
  <2> QED
    BY <1>1, <2>1, <2>2, <2>4, SendInFlight
<1>7. CASE read_command
  <2> DEFINE r == Head(on_command)
             m == CommandMessage(r)
  <2>1. UNCHANGED on_message /\ on_command # <<>>
    BY <1>7 DEF read_command
  <2>2. CASE r = "Disconnect" /\ Disconnect
    BY <1>1, <2>1, <2>2 DEF Disconnect, ids, InFlight
  <2>3. CASE r # "Disconnect" /\ IsCommand(r)
    <3>1. r \in Reqs /\ asked[r] \in Commands
      BY <2>1, <2>3, HeadAsked
    <3>2. m \in Outgoing
      BY <3>1, CommandMessageType
    <3>3. /\ asked[r].op \in AllOps
          /\ await_reply(r, ReplyType(asked[r].op)) /\ send_send_buf(m, "main")
      BY <2>3, CommandSteps
    <3>4. AsksReply(m) /\ m.id = next_id /\ m.to = r /\ m.op = asked[r].op /\ r \in Chans
      BY <3>1, <3>3 DEF CommandMessage, Request, AsksReply, AllOps, Chans
    <3> HIDE DEF r, m
    <3> QED
      BY <1>1, <2>1, <3>2, <3>3, <3>4, SendInFlight
  <2> QED
    BY <1>7, <2>2, <2>3 DEF read_command, IsCommand
<1>8. CASE read_message
  <2> DEFINE m == Head(on_message)
  <2>1. /\ on_message # <<>> /\ on_message' = Tail(on_message)
        /\ UNCHANGED <<to_server, clash>>
    BY <1>8 DEF read_message, ids
  <2>2. CASE UNCHANGED reply_channels
    BY <1>1, <2>1, <2>2, FlightTypes, FlightRead DEF InFlight
  <2>3. CASE /\ m.type = "reply"
             /\ reply_channels' = [reply_channels EXCEPT ![m.id] = None]
    BY <1>1, <2>1, <2>3, FlightTypes, FlightRead DEF InFlight, IsReply
  <2> QED
    BY <1>8, <2>2, <2>3
    DEF read_message, handle_message, handle_reply, handle_push, handle_hello_message
<1>9. CASE close_fails
  <2>1. to_server' = <<>> /\ UNCHANGED <<on_message, reply_channels, clash>>
    BY <1>9 DEF close_fails, waits, ids
  <2>2. to_server \in Seq(Outgoing) /\ on_message \in Seq(Incoming)
    BY FlightTypes
  <2>3. 0 \in 0 .. Len(on_message)
    BY <2>2
  <2>4. ~clash => Flight(<<>>, srv_pending, on_message, reply_channels)
    BY <2>2, <2>3, FlightBreak DEF InFlight
  <2> QED
    BY <1>1, <2>1, <2>4 DEF InFlight
<1> QED
  BY <1>2, <1>3, <1>4, <1>5, <1>6, <1>7, <1>8, <1>9
  DEF ActorRuns, do_hello, wait_for_reply, loop

(* The connection is given up, or breaks; the application only queues.     *)
LEMMA CloseInFlight ==
  ASSUME ActorCloses, ForgetConnection
  PROVE  InFlight'
<1>1. to_server' = <<>> /\ on_message' = <<>> /\ srv_pending' = {}
  BY DEF ActorCloses, connect, BackoffExit, cleanup_connection, clear_channels,
         ForgetConnection
<1> QED
  BY <1>1, FlightNone DEF InFlight

LEMMA ApplicationInFlight ==
  ASSUME InFlight, Application, UNCHANGED serverVars
  PROVE  InFlight'
<1>1. UNCHANGED <<to_server, on_message, srv_pending, reply_channels, clash>>
  BY DEF Application, Ask, reply, test_disconnect, exit, ids, waits, serverVars
<1> QED
  BY <1>1 DEF InFlight

LEMMA NetworkInFlight ==
  ASSUME TypeInv, InFlight, Network, UNCHANGED serverVars
  PROVE  InFlight'
<1>1. UNCHANGED <<srv_pending, reply_channels, clash>>
  BY DEF Network, Break, Mute, ReceiverCloses, ids, serverVars
<1>2. CASE clash
  BY <1>1, <1>2 DEF InFlight
<1>3. CASE ~clash
  <2>1. Flight(to_server, srv_pending, on_message, reply_channels)
    BY <1>3 DEF InFlight
  <2>2. to_server \in Seq(Outgoing) /\ on_message \in Seq(Incoming)
    BY FlightTypes
  <2>3. CASE Break
    <3>1. to_server' = <<>>
      BY <2>3 DEF Break
    <3>2. PICK n \in 0 .. Len(on_message) :
            \/ on_message' = SubSeq(on_message, 1, n)
            \/ on_message' = Append(SubSeq(on_message, 1, n), [type |-> "fragment"])
      BY <2>3 DEF Break
    <3>3. Flight(<<>>, srv_pending, SubSeq(on_message, 1, n), reply_channels)
      BY <2>1, <2>2, FlightBreak
    <3>4. Flight(<<>>, srv_pending, Append(SubSeq(on_message, 1, n), [type |-> "fragment"]),
                 reply_channels)
      <4>1. [type |-> "fragment"] \in Incoming /\ ~IsReply([type |-> "fragment"])
        BY DEF Incoming, IsReply
      <4>2. SubSeq(on_message, 1, n) \in Seq(Incoming) /\ <<>> \in Seq(Outgoing)
        BY <2>2, SeqTypes, EmptyQueue
      <4> QED
        BY <3>3, <4>1, <4>2, FlightOther
    <3> QED
      BY <1>1, <3>1, <3>2, <3>3, <3>4 DEF InFlight
  <2>4. CASE Mute
    <3>1. to_server' = <<>> /\ UNCHANGED on_message
      BY <2>4 DEF Mute, waits
    <3>2. 0 \in 0 .. Len(on_message)
      BY <2>2
    <3>3. Flight(<<>>, srv_pending, on_message, reply_channels)
      BY <2>1, <2>2, <3>2, FlightBreak
    <3> QED
      BY <1>1, <3>1, <3>3 DEF InFlight
  <2>5. CASE ReceiverCloses
    BY <1>1, <2>1, <2>5 DEF ReceiverCloses, InFlight
  <2> QED
    BY <2>3, <2>4, <2>5 DEF Network
<1> QED
  BY <1>2, <1>3

(* The server answers with a reply of the kind that is waited for.         *)
LEMMA AnswerFits ==
  ASSUME NEW rc, NEW req, Awaits(rc, req), NEW res,
         Converts(res, ReplyType(req.op))
  PROVE  /\ IsReply(Answer(req, res)) /\ Fits(rc, Answer(req, res))
         /\ Answer(req, res).id = req.id
  BY DEF Awaits, Fits, IsReply, Answer

(* What the server answers converts to what is expected of the request.    *)
LEMMA AnswersConvert ==
  /\ \A op : Converts("Error", ReplyType(op))
  /\ \A op : op # "StateObserve" => Converts("Success", ReplyType(op))
  /\ \A v \in StateVals : Converts(v, ReplyType("StateObserve"))
<1>1. "Success" \notin StateVals
  BY ClientAssumption DEF StateVals, Unknown
<1> QED
  BY <1>1 DEF Converts, ReplyType

LEMMA ServerReceivesInFlight ==
  ASSUME TypeInv, InFlight, ServerReceives
  PROVE  InFlight'
<1> PICK m \in {to_server[i] : i \in 1 .. Len(to_server)} :
      \/ ServerHello(m) \/ ServerPing(m) \/ ServerAccepts(m) \/ ServerRefuses(m)
      \/ ServerStateChanged(m) \/ ServerPostpones(m) \/ ServerGetsReply(m)
  BY DEF ServerReceives
<1>1. Receives(m)
  BY DEF ServerHello, ServerPing, ServerAccepts, ServerRefuses, ServerStateChanged,
         ServerPostpones, ServerGetsReply
<1>2. /\ to_server # <<>> /\ m = Head(to_server) /\ to_server' = Tail(to_server)
      /\ UNCHANGED <<reply_channels, clash>>
  BY <1>1 DEF Receives, untouchedByServer, ids
<1>3. CASE clash
  BY <1>2, <1>3 DEF InFlight
<1>4. CASE ~clash
  <2>1. Flight(to_server, srv_pending, on_message, reply_channels)
    BY <1>4 DEF InFlight
  <2>2. /\ to_server \in Seq(Outgoing) /\ on_message \in Seq(Incoming)
        /\ m \in Outgoing
    BY <1>1, FlightTypes, ReceivesTypes
  <2>3. /\ Flight(Tail(to_server), srv_pending, on_message, reply_channels)
        /\ AsksReply(m) => Flight(Tail(to_server), srv_pending \cup {m}, on_message,
                                  reply_channels)
    BY <1>2, <2>1, <2>2, FlightTake
  <2>4. AsksReply(m) => Awaits(reply_channels, m)
    <3>1. m = to_server[1] /\ 1 \in 1 .. Len(to_server)
      BY <1>2, <2>2, TailElements
    <3> QED
      BY <2>1, <3>1 DEF Flight, Matched
  <2>5. ASSUME NEW res, res \in Results, AsksReply(m), Converts(res, ReplyType(m.op)),
               Deliver(Answer(m, res)), UNCHANGED srv_pending
        PROVE  InFlight'
    <3>1. Answer(m, res) \in Incoming
      BY <2>4, <2>5, <2>2, OutgoingCases DEF Answer, Incoming, AsksReply
    <3>2. /\ IsReply(Answer(m, res)) /\ Fits(reply_channels, Answer(m, res))
          /\ Answer(m, res).id = m.id
      BY <2>4, <2>5, AnswerFits
    <3>3. Flight(Tail(to_server), srv_pending, Append(on_message, Answer(m, res)),
                 reply_channels)
      BY <1>2, <2>1, <2>2, <2>5, <3>1, <3>2, FlightAnswer
    <3> QED
      BY <1>2, <2>5, <3>3 DEF Deliver, InFlight
  <2>6. {"Success", "Error"} \subseteq Results /\ StateVals \subseteq Results
    BY DEF Results
  <2>7. CASE ServerHello(m)
    <3>1. PICK a \in Incoming : Deliver(a) /\ ~IsReply(a)
      <4>1. conn \in ClientIds
        BY DEF TypeInv, TypeOK, ActorTypeOK, ClientIds
      <4>2. /\ [type |-> "hello"] \in Incoming
            /\ [type |-> "hello_id", client |-> conn] \in Incoming
        BY <4>1 DEF Incoming
      <4>3. ~IsReply([type |-> "hello"]) /\ ~IsReply([type |-> "hello_id", client |-> conn])
        BY DEF IsReply
      <4> QED
        BY <2>7, <4>2, <4>3 DEF ServerHello
    <3>2. Tail(to_server) \in Seq(Outgoing)
      BY <1>2, <2>2, SeqTypes
    <3>3. Flight(Tail(to_server), srv_pending, Append(on_message, a), reply_channels)
      BY <2>2, <2>3, <3>1, <3>2, FlightOther
    <3> QED
      BY <1>2, <2>7, <3>1, <3>3 DEF ServerHello, Deliver, InFlight
  <2>8. CASE ServerPing(m)
    <3>1. AsksReply(m) /\ m.op # "StateObserve"
      BY <2>8 DEF ServerPing, AsksReply
    <3> QED
      BY <2>5, <2>6, <2>8, <3>1, AnswersConvert DEF ServerPing
  <2>9. CASE ServerAccepts(m)
    <3> DEFINE res == IF m.op = "StateObserve" THEN world[m.path] ELSE "Success"
    <3>1. AsksReply(m)
      BY <2>9 DEF ServerAccepts, AsksReply, Registrations
    <3>2. m.op = "StateObserve" => world[m.path] \in StateVals
      BY <2>2, OutgoingCases DEF TypeInv, TypeOK, ServerTypeOK, AllOps
    <3>3. res \in Results /\ Converts(res, ReplyType(m.op))
      BY <2>6, <3>2, AnswersConvert
    <3>4. Deliver(Answer(m, res)) /\ UNCHANGED srv_pending
      BY <2>9 DEF ServerAccepts
    <3> HIDE DEF res
    <3> QED
      BY <2>5, <3>1, <3>3, <3>4
  <2>10. CASE ServerRefuses(m)
    <3>1. AsksReply(m)
      BY <2>10 DEF ServerRefuses, AsksReply, Registrations
    <3> QED
      BY <2>5, <2>6, <2>10, <3>1, AnswersConvert DEF ServerRefuses
  <2>11. CASE ServerStateChanged(m)
    <3>1. AsksReply(m) /\ m.op # "StateObserve"
      BY <2>11 DEF ServerStateChanged, AsksReply
    <3> QED
      BY <2>5, <2>6, <2>11, <3>1, AnswersConvert DEF ServerStateChanged
  <2>12. CASE ServerPostpones(m)
    <3>1. AsksReply(m)
      BY <2>12 DEF ServerPostpones, AsksReply
    <3> QED
      BY <1>2, <2>3, <2>12, <3>1 DEF ServerPostpones, InFlight
  <2>13. CASE ServerGetsReply(m)
    BY <1>2, <2>3, <2>13 DEF ServerGetsReply, InFlight
  <2> QED
    BY <2>7, <2>8, <2>9, <2>10, <2>11, <2>12, <2>13
<1> QED
  BY <1>3, <1>4

LEMMA ServerInFlight ==
  ASSUME TypeInv, InFlight, Server
  PROVE  InFlight'
<1>1. CASE ServerReceives
  BY <1>1, ServerReceivesInFlight
<1>2. CASE \E req \in srv_pending : ServerAnswers(req)
  <2>1. PICK req \in srv_pending : ServerAnswers(req)
    BY <1>2
  <2>2. /\ UNCHANGED <<to_server, reply_channels, clash>>
        /\ srv_pending' = srv_pending \ {req}
    BY <2>1 DEF ServerAnswers, untouchedByServer, ids
  <2>3. CASE clash
    BY <2>2, <2>3 DEF InFlight
  <2>4. CASE ~clash
    <3>1. Flight(to_server, srv_pending, on_message, reply_channels)
      BY <2>4 DEF InFlight
    <3>2. Awaits(reply_channels, req)
      BY <3>1 DEF Flight, Matched
    <3>3. PICK res \in {"Success", "Error"} : Deliver(Answer(req, res))
      BY <2>1 DEF ServerAnswers
    <3>4. req \in PlainRequests /\ req.op # "StateObserve"
      BY FlightTypes DEF PendingRequests
    <3>5. Answer(req, res) \in Incoming
      BY <3>4 DEF Answer, Incoming, PlainRequests, Results
    <3>6. Converts(res, ReplyType(req.op))
      BY <3>4, AnswersConvert
    <3>7. /\ IsReply(Answer(req, res)) /\ Fits(reply_channels, Answer(req, res))
          /\ Answer(req, res).id = req.id
      BY <3>2, <3>6, AnswerFits
    <3>8. Flight(to_server, srv_pending \ {req}, Append(on_message, Answer(req, res)),
                 reply_channels)
      BY <3>1, <3>5, <3>7, FlightTypes, FlightAnswer
    <3> QED
      BY <2>2, <3>3, <3>8 DEF Deliver, InFlight
  <2> QED
    BY <2>3, <2>4
<1>3. ASSUME NEW a \in Incoming, ~IsReply(a),
             Deliver(a) \/ UNCHANGED on_message,
             UNCHANGED <<to_server, srv_pending, reply_channels, clash>>
      PROVE  InFlight'
  <2>1. CASE UNCHANGED on_message
    BY <1>3, <2>1 DEF InFlight
  <2>2. CASE Deliver(a)
    BY <1>3, <2>2, FlightTypes, FlightOther DEF InFlight, Deliver
  <2> QED
    BY <1>3, <2>1, <2>2
<1>4. ASSUME NEW path \in Paths, NEW num \in CallIds, ServerCalls(num, path)
      PROVE  InFlight'
  <2> DEFINE a == [type |-> "action_call", id |-> num, path |-> path]
  <2>1. a \in Incoming /\ ~IsReply(a)
    BY DEF Incoming, IsReply
  <2>2. Deliver(a) /\ UNCHANGED <<to_server, srv_pending, reply_channels, clash>>
    BY <1>4 DEF ServerCalls, Pushes, untouchedByServer, ids
  <2> HIDE DEF a
  <2> QED
    BY <1>3, <2>1, <2>2
<1>5. ASSUME NEW path \in Paths, ServerNotifies(path)
      PROVE  InFlight'
  <2> DEFINE a == [type |-> "event_notify", path |-> path]
  <2>1. a \in Incoming /\ ~IsReply(a)
    BY DEF Incoming, IsReply
  <2>2. Deliver(a) /\ UNCHANGED <<to_server, srv_pending, reply_channels, clash>>
    BY <1>5 DEF ServerNotifies, Pushes, untouchedByServer, ids
  <2> HIDE DEF a
  <2> QED
    BY <1>3, <2>1, <2>2
<1>6. ASSUME NEW path \in Paths, NEW value \in StateVals, WorldChanges(path, value)
      PROVE  InFlight'
  <2> DEFINE a == [type |-> "state_changed", path |-> path, value |-> value]
  <2>1. a \in Incoming /\ ~IsReply(a)
    BY DEF Incoming, IsReply
  <2>2. /\ Deliver(a) \/ UNCHANGED on_message
        /\ UNCHANGED <<to_server, srv_pending, reply_channels, clash>>
    BY <1>6 DEF WorldChanges, untouchedByServer, ids
  <2> HIDE DEF a
  <2> QED
    BY <1>3, <2>1, <2>2
<1> QED
  BY <1>1, <1>2, <1>4, <1>5, <1>6 DEF Server

-----------------------------------------------------------------------------
(* Where a request is.                                                     *)
Waits(r) == \E n \in Ids : reply_channels[n] # None /\ reply_channels[n].to = r

QueuedOnce ==
  \A i, j \in 1 .. Len(on_command) :
    on_command[i] \in Reqs /\ on_command[i] = on_command[j] => i = j
ChannelOnce ==
  \A n, k \in Ids :
    /\ reply_channels[n] # None /\ reply_channels[n].to \in Reqs
    /\ reply_channels[k] # None /\ reply_channels[k].to = reply_channels[n].to
    => n = k

HasPlace(r) ==
  /\ Queued(r) => ~Waits(r) /\ results[r] = <<>>
  /\ Waits(r) => results[r] = <<>>
  /\ asked[r] = None => ~Queued(r) /\ ~Waits(r) /\ results[r] = <<>>
  /\ asked[r] # None => Queued(r) \/ Waits(r) \/ results[r] # <<>> \/ clash
OwnResult(r) ==
  /\ Len(results[r]) <= 1
  /\ results[r] # <<>> => results[r][1].src \in {r, "local"} \/ clash

Places ==
  QueuedOnce /\ ChannelOnce /\ \A r \in Reqs : HasPlace(r) /\ OwnResult(r)

LEMMA WaitsIsOutstanding ==
  /\ \A r : Waits(r) <=> r \in Outstanding
  /\ \A r : Waits(r)' <=> r \in Outstanding'
  BY DEF Waits, Outstanding

LEMMA PlaceTypes ==
  ASSUME TypeInv
  PROVE  /\ on_command \in Seq(Reqs \cup {"Disconnect"})
         /\ reply_channels \in [Ids -> ReplyChannels \cup {None}]
         /\ asked \in [Reqs -> Commands \cup {None}]
         /\ results \in [Reqs -> Seq([res : Results, src : Chans \cup {"local"}])]
         /\ next_id \in Ids /\ clash \in BOOLEAN
  BY DEF TypeInv, TypeOK, ActorTypeOK, ChannelTypeOK, ApplicationTypeOK

LEMMA InitPlaces == Init => InFlight /\ Places
<1> SUFFICES ASSUME Init PROVE InFlight /\ Places
  OBVIOUS
<1> USE DEF Init, ClientInit, ServerInit
<1>1. InFlight
  BY FlightNone DEF InFlight
<1>2. QueuedOnce /\ ChannelOnce
  BY DEF QueuedOnce, ChannelOnce
<1>3. \A r \in Reqs : HasPlace(r) /\ OwnResult(r)
  BY DEF HasPlace, OwnResult, Queued, Waits
<1> QED
  BY <1>1, <1>2, <1>3 DEF Places

(* Most steps touch none of the places.                                    *)
LEMMA SamePlaces ==
  ASSUME Places, UNCHANGED <<on_command, reply_channels, results, asked, clash>>
  PROVE  Places'
<1>1. QueuedOnce' /\ ChannelOnce'
  BY DEF Places, QueuedOnce, ChannelOnce
<1>2. \A r \in Reqs : HasPlace(r)' /\ OwnResult(r)'
  BY DEF Places, HasPlace, OwnResult, Queued, Waits
<1> QED
  BY <1>1, <1>2 DEF Places

(* A command is queued.                                                    *)
LEMMA QueueAppend ==
  ASSUME TypeInv, NEW c \in Reqs \cup {"Disconnect"},
         on_command' = Append(on_command, c)
  PROVE  /\ \A r : Queued(r)' <=> Queued(r) \/ r = c
         /\ QueuedOnce /\ (c \in Reqs => ~Queued(c)) => QueuedOnce'
<1>1. on_command \in Seq(Reqs \cup {"Disconnect"})
  BY PlaceTypes
<1>2. /\ Len(on_command) \in Nat /\ Len(on_command') = Len(on_command) + 1
      /\ \A i \in 1 .. Len(on_command) : on_command'[i] = on_command[i]
      /\ on_command'[Len(on_command) + 1] = c
  BY <1>1
<1>3. \A i \in 1 .. Len(on_command') :
        i \in 1 .. Len(on_command) \/ i = Len(on_command) + 1
  BY <1>2
<1>4. Len(on_command) + 1 \in 1 .. Len(on_command')
  BY <1>2
<1>5. \A i \in 1 .. Len(on_command) : i \in 1 .. Len(on_command')
  BY <1>2
<1>6. \A r : Queued(r)' <=> Queued(r) \/ r = c
  BY <1>2, <1>3, <1>4, <1>5 DEF Queued
<1>7. QueuedOnce /\ (c \in Reqs => ~Queued(c)) => QueuedOnce'
  BY <1>2, <1>3 DEF QueuedOnce, Queued
<1> QED
  BY <1>6, <1>7

LEMMA ApplicationPlaces ==
  ASSUME TypeInv, Places, Application
  PROVE  Places'
<1>1. CASE \E r \in Reqs : Ask(r)
  <2>1. PICK r \in Reqs : Ask(r)
    BY <1>1
  <2>2. /\ asked[r] = None /\ on_command' = Append(on_command, r)
        /\ UNCHANGED <<reply_channels, results, clash>>
    BY <2>1 DEF Ask, inbox, ids
  <2>3. ~Queued(r) /\ ~Waits(r) /\ results[r] = <<>>
    BY <2>2 DEF Places, HasPlace
  <2>4. \A c \in Reqs : c # r => asked'[c] = asked[c]
    BY <2>1, PlaceTypes DEF Ask
  <2>5. QueuedOnce' /\ \A c : Queued(c)' <=> Queued(c) \/ c = r
    BY <2>2, <2>3, QueueAppend DEF Places
  <2>6. ChannelOnce' /\ \A c : Waits(c)' <=> Waits(c)
    BY <2>2 DEF Places, ChannelOnce, Waits
  <2>7. asked'[r] # None
    <3>1. PICK op \in Ops, path \in Paths :
            \E value \in ValuesOf(op) :
              asked' = [asked EXCEPT ![r] = Command(op, path, value)]
      BY <2>1 DEF Ask
    <3>2. PICK value \in ValuesOf(op) :
            asked' = [asked EXCEPT ![r] = Command(op, path, value)]
      BY <3>1
    <3>3. Command(op, path, value) \in Commands
      BY ClientAssumption DEF Command, Commands, ValuesOf, AllOps
    <3> QED
      BY <3>2, <3>3, PlaceTypes, NoneAssumption
  <2>8. ASSUME NEW c \in Reqs PROVE HasPlace(c)' /\ OwnResult(c)'
    <3>1. HasPlace(c) /\ OwnResult(c)
      BY DEF Places
    <3>2. CASE c = r
      BY <2>2, <2>3, <2>5, <2>6, <2>7, <3>1, <3>2 DEF HasPlace, OwnResult
    <3>3. CASE c # r
      BY <2>2, <2>4, <2>5, <2>6, <3>1, <3>3 DEF HasPlace, OwnResult
    <3> QED
      BY <3>2, <3>3
  <2> QED
    BY <2>5, <2>6, <2>8 DEF Places
<1>2. CASE test_disconnect
  <2>1. /\ on_command' = Append(on_command, "Disconnect")
        /\ UNCHANGED <<reply_channels, results, asked, clash>>
    BY <1>2 DEF test_disconnect, inbox, ids
  <2>2. "Disconnect" \notin Reqs
    BY ClientAssumption
  <2>3. QueuedOnce' /\ \A c \in Reqs : Queued(c)' <=> Queued(c)
    BY <2>1, <2>2, QueueAppend DEF Places
  <2>4. ChannelOnce' /\ \A c : Waits(c)' <=> Waits(c)
    BY <2>1 DEF Places, ChannelOnce, Waits
  <2>5. \A c \in Reqs : HasPlace(c)' /\ OwnResult(c)'
    BY <2>1, <2>3, <2>4 DEF Places, HasPlace, OwnResult
  <2> QED
    BY <2>3, <2>4, <2>5 DEF Places
<1>3. CASE exit \/ \E call \in calls : reply(call)
  BY <1>3, SamePlaces DEF exit, reply, inbox, ids
<1> QED
  BY <1>1, <1>2, <1>3 DEF Application

(* An id is taken for a channel, which is then waited for, unless the id   *)
(* was in use.                                                             *)
LEMMA AwaitPlaces ==
  ASSUME TypeInv, ChannelOnce, NEW chan \in Chans, NEW type \in {"Result", "StateResult"},
         await_reply(chan, type), chan \in Reqs => ~Waits(chan)
  PROVE  /\ ChannelOnce' /\ (clash => clash')
         /\ \A r : r # chan => (Waits(r)' <=> Waits(r))
         /\ Waits(chan)' \/ clash'
<1> DEFINE c == [to |-> chan, type |-> type]
<1>1. CASE clash' /\ UNCHANGED reply_channels
  BY <1>1 DEF ChannelOnce, Waits
<1>2. CASE /\ reply_channels[next_id] = None /\ UNCHANGED clash
           /\ reply_channels' = [reply_channels EXCEPT ![next_id] = c]
  <2>1. c # None /\ c.to = chan
    BY NoneAssumption DEF ReplyChannels
  <2>2. next_id \in Ids /\ reply_channels'[next_id] = c
    BY <1>2, PlaceTypes
  <2>3. \A n \in Ids : n # next_id => reply_channels'[n] = reply_channels[n]
    BY <1>2, PlaceTypes
  <2>4. Waits(chan)'
    BY <2>1, <2>2 DEF Waits
  <2> HIDE DEF c
  <2>5. \A r : r # chan => (Waits(r)' <=> Waits(r))
    BY <1>2, <2>1, <2>2, <2>3 DEF Waits
  <2>6. ChannelOnce'
    BY <2>1, <2>2, <2>3 DEF ChannelOnce, Waits
  <2> QED
    BY <1>2, <2>4, <2>5, <2>6
<1> QED
  BY <1>1, <1>2, AwaitCases

(* A ping or a registration that is restored takes an id.                  *)
LEMMA OwnRequestPlaces ==
  ASSUME TypeInv, Places, NEW chan \in {"ping", "rereg"},
         NEW type \in {"Result", "StateResult"}, await_reply(chan, type),
         UNCHANGED <<on_command, results, asked>>
  PROVE  Places'
<1>1. chan \in Chans /\ chan \notin Reqs
  BY ClientAssumption DEF Chans
<1>2. /\ ChannelOnce' /\ (clash => clash')
      /\ \A r \in Reqs : Waits(r)' <=> Waits(r)
  BY <1>1, AwaitPlaces DEF Places
<1>3. QueuedOnce' /\ \A r : Queued(r)' <=> Queued(r)
  BY DEF Places, QueuedOnce, Queued
<1>4. \A r \in Reqs : HasPlace(r)' /\ OwnResult(r)'
  BY <1>2, <1>3 DEF Places, HasPlace, OwnResult
<1> QED
  BY <1>2, <1>3, <1>4 DEF Places

(* The first command leaves the queue.                                     *)
LEMMA QueueTail ==
  ASSUME TypeInv, QueuedOnce, on_command # <<>>, on_command' = Tail(on_command)
  PROVE  /\ QueuedOnce' /\ Queued(Head(on_command))
         /\ \A r \in Reqs : Queued(r)' <=> Queued(r) /\ r # Head(on_command)
<1>1. on_command \in Seq(Reqs \cup {"Disconnect"})
  BY PlaceTypes
<1>2. /\ Len(on_command) \in Nat /\ Len(on_command') = Len(on_command) - 1
      /\ Head(on_command) = on_command[1] /\ 1 \in 1 .. Len(on_command)
      /\ \A i \in 1 .. Len(on_command') :
           i + 1 \in 1 .. Len(on_command) /\ on_command'[i] = on_command[i + 1]
  BY <1>1, TailElements
<1>3. \A i \in 1 .. Len(on_command) :
        i = 1 \/ \E k \in 1 .. Len(on_command') : i = k + 1
  <2> TAKE i \in 1 .. Len(on_command)
  <2>1. i = 1 \/ (i - 1 \in 1 .. Len(on_command') /\ i = (i - 1) + 1)
    BY <1>2
  <2> QED
    BY <2>1
<1>4. \A i \in 1 .. Len(on_command') : i + 1 # 1
  BY <1>2
<1>5. \A i, j \in 1 .. Len(on_command') : i + 1 = j + 1 => i = j
  BY <1>2
<1>6. QueuedOnce'
  BY <1>2, <1>5 DEF QueuedOnce
<1>7. Queued(Head(on_command))
  BY <1>2 DEF Queued
<1>8. ASSUME NEW r \in Reqs
      PROVE  Queued(r)' <=> Queued(r) /\ r # Head(on_command)
  <2>1. ASSUME Queued(r)' PROVE Queued(r) /\ r # Head(on_command)
    <3>1. PICK i \in 1 .. Len(on_command') : on_command'[i] = r
      BY <2>1 DEF Queued
    <3>2. i + 1 \in 1 .. Len(on_command) /\ on_command[i + 1] = r /\ i + 1 # 1
      BY <1>2, <1>4, <3>1
    <3>3. r # on_command[1]
      BY <1>2, <3>2 DEF QueuedOnce
    <3> QED
      BY <1>2, <3>2, <3>3 DEF Queued
  <2>2. ASSUME Queued(r), r # Head(on_command) PROVE Queued(r)'
    <3>1. PICK i \in 1 .. Len(on_command) : on_command[i] = r
      BY <2>2 DEF Queued
    <3>2. PICK k \in 1 .. Len(on_command') : i = k + 1
      BY <1>2, <1>3, <2>2, <3>1
    <3> QED
      BY <1>2, <3>1, <3>2 DEF Queued
  <2> QED
    BY <2>1, <2>2
<1> QED
  BY <1>6, <1>7, <1>8

LEMMA ReadCommandPlaces ==
  ASSUME TypeInv, Places, read_command
  PROVE  Places'
<1> PICK c : c = Head(on_command)
  OBVIOUS
<1>1. /\ on_command # <<>> /\ on_command' = Tail(on_command)
      /\ UNCHANGED <<results, asked>>
  BY DEF read_command, inbox
<1>2. /\ QueuedOnce' /\ Queued(c)
      /\ \A r \in Reqs : Queued(r)' <=> Queued(r) /\ r # c
  BY <1>1, QueueTail DEF Places
<1>3. CASE c = "Disconnect" /\ Disconnect
  <2>1. c \notin Reqs /\ UNCHANGED <<reply_channels, clash>>
    BY <1>3, ClientAssumption DEF Disconnect, ids
  <2>2. ChannelOnce' /\ \A r : Waits(r)' <=> Waits(r)
    BY <2>1 DEF Places, ChannelOnce, Waits
  <2>3. \A r \in Reqs : HasPlace(r)' /\ OwnResult(r)'
    BY <1>1, <1>2, <2>1, <2>2 DEF Places, HasPlace, OwnResult
  <2> QED
    BY <1>2, <2>2, <2>3 DEF Places
<1>4. CASE c # "Disconnect" /\ IsCommand(c)
  <2>1. c \in Reqs /\ c \in Chans
    BY <1>1, <1>4, HeadAsked DEF Chans
  <2>2. await_reply(c, ReplyType(asked[c].op))
    BY <1>4, CommandSteps
  <2>3. ReplyType(asked[c].op) \in {"Result", "StateResult"}
    BY DEF ReplyType
  <2>4. ~Waits(c) /\ results[c] = <<>>
    BY <1>2, <2>1 DEF Places, HasPlace
  <2>5. /\ ChannelOnce' /\ (clash => clash') /\ (Waits(c)' \/ clash')
        /\ \A r : r # c => (Waits(r)' <=> Waits(r))
    BY <2>1, <2>2, <2>3, <2>4, AwaitPlaces DEF Places
  <2>6. ASSUME NEW r \in Reqs PROVE HasPlace(r)' /\ OwnResult(r)'
    <3>1. HasPlace(r) /\ OwnResult(r)
      BY DEF Places
    <3>2. CASE r = c
      BY <1>1, <1>2, <2>4, <2>5, <3>1, <3>2 DEF HasPlace, OwnResult
    <3>3. CASE r # c
      BY <1>1, <1>2, <2>5, <3>1, <3>3 DEF HasPlace, OwnResult
    <3> QED
      BY <3>2, <3>3
  <2> QED
    BY <1>2, <2>5, <2>6 DEF Places
<1> QED
  BY <1>3, <1>4 DEF read_command, IsCommand

(* A result that is pushed is the only one.                                *)
LEMMA FirstResult ==
  ASSUME NEW x
  PROVE  Len(Append(<<>>, x)) = 1 /\ Append(<<>>, x)[1] = x /\ Append(<<>>, x) # <<>>
  OBVIOUS

(* A reply: its channel is taken out, and gets the result.                 *)
LEMMA HandleReplyPlaces ==
  ASSUME TypeInv, InFlight, Places, NEW m, m = Head(on_message), on_message # <<>>,
         handle_reply(m), UNCHANGED <<on_command, asked, clash>>
  PROVE  Places'
<1> PICK c : c = reply_channels[m.id].to
  OBVIOUS
<1>1. m \in Incoming /\ IsReply(m) /\ m.id \in Ids
  <2>1. m \in Incoming
    BY FlightTypes, SeqTypes
  <2> QED
    BY <2>1, IncomingCases DEF handle_reply, IsReply
<1>2. clash \/ Fits(reply_channels, m)
  BY <1>1, FlightTypes, FlightRead DEF InFlight
<1>3. QueuedOnce' /\ \A r : Queued(r)' <=> Queued(r)
  BY DEF Places, QueuedOnce, Queued
<1>4. reply_channels' = [reply_channels EXCEPT ![m.id] = None]
  BY DEF handle_reply
<1>5. /\ reply_channels'[m.id] = None
      /\ \A n \in Ids : n # m.id => reply_channels'[n] = reply_channels[n]
  BY <1>1, <1>4, PlaceTypes
<1>6. ChannelOnce'
  BY <1>5 DEF Places, ChannelOnce
<1>7. \A r : Waits(r)' => Waits(r)
  BY <1>5 DEF Waits
<1>8. CASE Expects(m) /\ push_result(c, m)
  <2> DEFINE x == [res |-> m.res, src |-> m.to]
  <2>1. reply_channels[m.id] # None
    BY <1>8 DEF Expects
  <2>2. \A r \in Reqs : r # c => (Waits(r)' <=> Waits(r)) /\ results'[r] = results[r]
    <3>1. \A r : r # c => (Waits(r) => Waits(r)')
      BY <1>1, <1>5 DEF Waits
    <3>2. \A r \in Reqs : r # c => results'[r] = results[r]
      BY <1>8, PlaceTypes DEF push_result
    <3> QED
      BY <1>7, <3>1, <3>2
  <2>3. c \in Reqs => Waits(c) /\ ~Waits(c)' /\ results[c] = <<>>
    <3>1. Waits(c)
      BY <1>1, <2>1 DEF Waits
    <3>2. c \in Reqs => ~Waits(c)'
      BY <1>1, <1>5, <2>1 DEF Places, ChannelOnce, Waits
    <3> QED
      BY <3>1, <3>2 DEF Places, HasPlace
  <2>4. c \in Reqs => results'[c] = Append(<<>>, x)
    BY <1>8, <2>3, PlaceTypes DEF push_result
  <2>5. clash \/ x.src = c
    BY <1>2 DEF Fits
  <2> HIDE DEF x
  <2>6. c \in Reqs => ~Queued(c) /\ asked[c] # None
    BY <2>3 DEF Places, HasPlace
  <2>7. ASSUME NEW r \in Reqs PROVE HasPlace(r)' /\ OwnResult(r)'
    <3>1. HasPlace(r) /\ OwnResult(r)
      BY DEF Places
    <3>2. CASE r = c
      <4>1. /\ Len(results'[r]) = 1 /\ results'[r][1] = x /\ results'[r] # <<>>
        BY <2>4, <3>2, FirstResult
      <4> QED
        BY <1>3, <2>3, <2>5, <2>6, <3>1, <3>2, <4>1 DEF HasPlace, OwnResult
    <3>3. CASE r # c
      BY <1>3, <2>2, <3>1, <3>3 DEF HasPlace, OwnResult
    <3> QED
      BY <3>2, <3>3
  <2> QED
    BY <1>3, <1>6, <2>7 DEF Places
<1>9. CASE ~Expects(m) /\ UNCHANGED results
  <2>1. clash
    BY <1>2, <1>9 DEF Expects, Fits
  <2>2. \A r \in Reqs : HasPlace(r)' /\ OwnResult(r)'
    BY <1>3, <1>7, <1>9, <2>1 DEF Places, HasPlace, OwnResult
  <2> QED
    BY <1>3, <1>6, <2>2 DEF Places
<1> QED
  BY <1>8, <1>9 DEF handle_reply

(* Everything outstanding is answered with "disconnected".                 *)
LEMMA CleanupPlaces ==
  ASSUME TypeInv, Places, ActorCloses
  PROVE  Places'
<1>1. UNCHANGED <<on_command, asked, clash>> /\ fail_outstanding
  BY DEF ActorCloses, connect, BackoffExit, cleanup_connection, untouched, ids, app
<1>2. QueuedOnce' /\ \A r : Queued(r)' <=> Queued(r)
  BY <1>1 DEF Places, QueuedOnce, Queued
<1>3. \A n \in Ids : reply_channels'[n] = None
  BY <1>1 DEF fail_outstanding
<1>4. ChannelOnce' /\ \A r : ~Waits(r)'
  BY <1>3 DEF ChannelOnce, Waits
<1> DEFINE x == [res |-> "Error", src |-> "local"]
<1>5. \A r \in Reqs : results'[r] = IF Waits(r) THEN Append(results[r], x) ELSE results[r]
  BY <1>1, WaitsIsOutstanding DEF fail_outstanding
<1>6. x.src = "local"
  OBVIOUS
<1> HIDE DEF x
<1>7. ASSUME NEW r \in Reqs PROVE HasPlace(r)' /\ OwnResult(r)'
  <2>1. HasPlace(r) /\ OwnResult(r)
    BY DEF Places
  <2>2. CASE Waits(r)
    <3>1. results[r] = <<>> /\ ~Queued(r) /\ asked[r] # None
      BY <2>1, <2>2 DEF HasPlace
    <3>2. results'[r] = Append(<<>>, x)
      BY <1>5, <2>2, <3>1
    <3>3. Len(results'[r]) = 1 /\ results'[r][1] = x /\ results'[r] # <<>>
      BY <3>2, FirstResult
    <3> QED
      BY <1>1, <1>2, <1>4, <1>6, <3>1, <3>3 DEF HasPlace, OwnResult
  <2>3. CASE ~Waits(r)
    BY <1>1, <1>2, <1>4, <1>5, <2>1, <2>3 DEF HasPlace, OwnResult
  <2> QED
    BY <2>2, <2>3
<1> QED
  BY <1>2, <1>4, <1>7 DEF Places

LEMMA RunPlaces ==
  ASSUME TypeInv, InFlight, Places, ActorRuns
  PROVE  Places'
<1>1. CASE \/ BackoffExpires \/ close_fails \/ actorpp_connect \/ reregister_done
           \/ write_hello \/ read_close \/ see_exit
           \/ read_ping_result \/ read_reply \/ ping_timeout_expires
           \/ \E step \in rereg : check_result(step)
  BY <1>1, SamePlaces
  DEF BackoffExpires, close_fails, actorpp_connect, reregister_done, write_hello,
      read_close, see_exit, read_ping_result, read_reply, ping_timeout_expires, check_result, ids, app, inbox
<1>2. CASE \E step \in rereg : reregister_send(step)
  <2>1. PICK step \in rereg : reregister_send(step)
    BY <1>2
  <2>2. /\ await_reply("rereg", ReplyType(step.op))
        /\ UNCHANGED <<on_command, results, asked>>
    BY <2>1 DEF reregister_send, app, inbox
  <2>3. ReplyType(step.op) \in {"Result", "StateResult"}
    BY DEF ReplyType
  <2> QED
    BY <2>2, <2>3, OwnRequestPlaces
<1>3. CASE idle_timeout
  BY <1>3, OwnRequestPlaces DEF idle_timeout, app, inbox
<1>4. CASE read_command
  BY <1>4, ReadCommandPlaces
<1>5. CASE read_message
  <2> DEFINE m == Head(on_message)
  <2>1. on_message # <<>> /\ UNCHANGED <<on_command, asked, clash>>
    BY <1>5 DEF read_message, ids, app
  <2>2. CASE handle_reply(m)
    BY <2>1, <2>2, HandleReplyPlaces
  <2>3. CASE UNCHANGED <<reply_channels, results>>
    BY <2>1, <2>3, SamePlaces
  <2> QED
    BY <1>5, <2>2, <2>3
    DEF read_message, handle_message, handle_push, handle_hello_message, inbox
<1> QED
  BY <1>1, <1>2, <1>3, <1>4, <1>5 DEF ActorRuns, do_hello, wait_for_reply, loop

-----------------------------------------------------------------------------
(* The invariant of requests, and what follows from it.                    *)
RequestInv == TypeInv /\ InFlight /\ Places

LEMMA NextRequests ==
  ASSUME RequestInv, [Next]_vars
  PROVE  RequestInv'
<1> USE DEF RequestInv
<1>1. TypeInv'
  BY NextTypes
<1>2. CASE ActorCloses /\ ForgetConnection
  BY <1>1, <1>2, CloseInFlight, CleanupPlaces
<1>3. CASE ActorRuns /\ UNCHANGED serverVars
  BY <1>1, <1>3, RunInFlight, RunPlaces
<1>4. CASE Application /\ UNCHANGED serverVars
  BY <1>1, <1>4, ApplicationInFlight, ApplicationPlaces
<1>5. CASE Network /\ UNCHANGED serverVars
  <2>1. Places'
    BY <1>5, SamePlaces DEF Network, Break, Mute, ReceiverCloses, ids, app, inbox
  <2> QED
    BY <1>1, <1>5, <2>1, NetworkInFlight
<1>6. CASE Server
  <2>1. UNCHANGED untouchedByServer
    BY <1>6 DEF Server, ServerReceives, ServerHello, ServerPing, ServerAccepts,
                ServerRefuses, ServerStateChanged, ServerPostpones, ServerGetsReply,
                Receives, ServerAnswers, ServerCalls, ServerNotifies, Pushes,
                WorldChanges
  <2>2. Places'
    BY <2>1, SamePlaces DEF untouchedByServer, ids, app, inbox
  <2> QED
    BY <1>1, <1>6, <2>2, ServerInFlight
<1>7. CASE UNCHANGED vars
  <2>1. UNCHANGED <<on_command, reply_channels, results, asked, clash, to_server,
                    on_message, srv_pending>>
    BY <1>7 DEF vars, clientVars, serverVars, ids, app, inbox, waits
  <2> QED
    BY <1>1, <2>1, SamePlaces DEF InFlight
<1> QED
  BY <1>2, <1>3, <1>4, <1>5, <1>6, <1>7 DEF Next, Finished

LEMMA RequestInvariant == Spec => []RequestInv
<1>1. Init => RequestInv
  BY InitTypes, InitPlaces DEF RequestInv
<1>2. RequestInv /\ [Next]_vars => RequestInv'
  BY NextRequests
<1> QED
  BY <1>1, <1>2, PTL DEF Spec

(* No request is lost and none is in two places, for any number of         *)
(* requests, connections and ids: read_command() moves it from on_command  *)
(* to reply_channels, and handle_reply() or fail_outstanding() from there  *)
(* to its one result, unless an id was reused while waited for.            *)
THEOREM NoRequestLost == Spec => []RequestsConserved
<1>1. RequestInv => RequestsConserved
  BY WaitsIsOutstanding DEF RequestInv, Places, HasPlace, OwnResult, RequestsConserved, Answered
<1> QED
  BY <1>1, RequestInvariant, PTL

(* A request only ever gets the answer to itself, or "disconnected",       *)
(* unless an id was reused while waited for.                               *)
THEOREM ResultsKeptApart == Spec => []ResultsAreOwn
<1>1. ASSUME RequestInv, NEW r \in Reqs, NEW i \in 1 .. Len(results[r])
      PROVE  results[r][i].src \in {r, "local"} \/ clash
  <2>1. Len(results[r]) <= 1 /\ (results[r] # <<>> => results[r][1].src \in {r, "local"} \/ clash)
    BY <1>1 DEF RequestInv, Places, OwnResult
  <2>2. results[r] \in Seq([res : Results, src : Chans \cup {"local"}])
    BY <1>1, PlaceTypes DEF RequestInv
  <2>3. i = 1 /\ results[r] # <<>>
    BY <2>1, <2>2
  <2> QED
    BY <2>1, <2>3
<1>2. RequestInv => ResultsAreOwn
  BY <1>1 DEF ResultsAreOwn
<1> QED
  BY <1>2, RequestInvariant, PTL

-----------------------------------------------------------------------------
(* After exit() nothing happens to what it left.                           *)
Exited ==
  pc = "exited" =>
    sock = "none" /\ ~ping_timeout /\ \A n \in Ids : reply_channels[n] = None

LEMMA RunsBeforeExit ==
  ASSUME ActorRuns
  PROVE  pc' # "exited"
<1>1. CASE \/ BackoffExpires \/ close_fails \/ actorpp_connect \/ write_hello
           \/ reregister_done
           \/ \E step \in rereg : reregister_send(step)
  BY <1>1 DEF BackoffExpires, close_fails, actorpp_connect, write_hello,
          reregister_done, reregister_send, send_send_buf
<1>2. ASSUME pc \in {"hello", "wait_for_reply", "main"}
      PROVE  /\ read_close \/ see_exit => pc' # "exited"
             /\ read_message => pc' # "exited"
             /\ \A step \in rereg : check_result(step) => pc' # "exited"
  BY <1>2 DEF read_close, see_exit, check_result, read_message, handle_message,
              handle_reply, handle_push, handle_hello_message
<1>3. CASE do_hello
  BY <1>2, <1>3 DEF do_hello
<1>4. CASE wait_for_reply
  BY <1>2, <1>4 DEF wait_for_reply
<1>5. CASE loop
  <2>1. pc = "main"
    BY <1>5 DEF loop
  <2>2. CASE read_ping_result \/ read_reply \/ idle_timeout \/ ping_timeout_expires
    BY <2>1, <2>2 DEF read_ping_result, read_reply, idle_timeout, ping_timeout_expires,
                      send_send_buf
  <2>3. CASE read_command
    <3>1. CASE Disconnect
      BY <2>1, <3>1 DEF Disconnect
    <3>2. CASE IsCommand(Head(on_command))
      BY <3>2, CommandSteps DEF send_send_buf
    <3> QED
      BY <2>3, <3>1, <3>2 DEF read_command, IsCommand
  <2> QED
    BY <1>2, <1>5, <2>1, <2>2, <2>3 DEF loop
<1> QED
  BY <1>1, <1>3, <1>4, <1>5 DEF ActorRuns

LEMMA NextExited ==
  ASSUME Exited, [Next]_vars
  PROVE  Exited'
<1>1. CASE ActorCloses
  BY <1>1 DEF Exited, ActorCloses, connect, BackoffExit, cleanup_connection, stop_receiver,
              clear_channels, fail_outstanding
<1>2. CASE ActorRuns
  BY <1>2, RunsBeforeExit DEF Exited
<1>3. CASE UNCHANGED <<pc, reply_channels, ping_timeout, sock>>
  BY <1>3 DEF Exited
<1>4. CASE Application
  BY <1>3, <1>4 DEF Application, Ask, reply, test_disconnect, exit, link
<1>5. CASE Network
  <2>1. UNCHANGED <<pc, reply_channels, ping_timeout>> /\ sock # "none"
    BY <1>5 DEF Network, Break, Mute, ReceiverCloses
  <2> QED
    BY <2>1 DEF Exited
<1>6. CASE Server
  <2>1. UNCHANGED untouchedByServer
    BY <1>6 DEF Server, ServerReceives, ServerHello, ServerPing, ServerAccepts,
                ServerRefuses, ServerStateChanged, ServerPostpones, ServerGetsReply,
                Receives, ServerAnswers, ServerCalls, ServerNotifies, Pushes,
                WorldChanges
  <2> QED
    BY <1>3, <2>1 DEF untouchedByServer, link
<1>7. CASE UNCHANGED vars
  BY <1>3, <1>7 DEF vars, clientVars, link
<1> QED
  BY <1>1, <1>2, <1>4, <1>5, <1>6, <1>7 DEF Next, Finished

(* Once exit() has taken effect nothing waits for a reply, the socket and  *)
(* the ping timeout are gone, and every request the actor took out of the  *)
(* queue has its result, unless an id was reused while waited for.         *)
THEOREM NothingAfterExit == Spec => []ExitLeavesNothing
<1>1. Init => Exited
  BY DEF Init, ClientInit, Exited
<1>2. Exited /\ [Next]_vars => Exited'
  BY NextExited
<1>3. RequestInv /\ Exited => ExitLeavesNothing
  <2> SUFFICES ASSUME RequestInv, Exited, pc = "exited"
               PROVE  /\ Outstanding = {} /\ sock = "none" /\ ~ping_timeout
                      /\ \A r \in Reqs :
                           asked[r] # None => Answered(r) \/ Queued(r) \/ clash
    BY DEF ExitLeavesNothing
  <2>1. sock = "none" /\ ~ping_timeout /\ \A r : ~Waits(r)
    BY DEF Exited, Waits
  <2>2. Outstanding = {}
    BY <2>1, WaitsIsOutstanding
  <2>3. \A r \in Reqs : asked[r] # None => Answered(r) \/ Queued(r) \/ clash
    BY <2>1 DEF RequestInv, Places, HasPlace, Answered
  <2> QED
    BY <2>1, <2>2, <2>3
<1> QED
  BY <1>1, <1>2, <1>3, RequestInvariant, PTL DEF Spec

-----------------------------------------------------------------------------
(* The system of client, server and network implements RequestReply.  Each *)
(* step of the system is one of three steps of the abstract specification, *)
(* or changes nothing it speaks of: Ask(r) is a step of a thread,          *)
(* handle_reply() is an answer, and fail_outstanding() is the loss of a    *)
(* connection.  To RequestInv is added that each channel in reply_channels *)
(* has its request's type.                                                 *)
TypedChannels ==
  \A n \in Ids :
    reply_channels[n] # None /\ reply_channels[n].to \in Reqs =>
      reply_channels[n].type = ReplyType(asked[reply_channels[n].to].op)

PromiseInv == RequestInv /\ TypedChannels

(* A channel is typed when its id is taken, and keeps its type.            *)
LEMMA AwaitTyped ==
  ASSUME TypeInv, TypedChannels, NEW chan \in Chans,
         NEW type \in {"Result", "StateResult"}, await_reply(chan, type),
         chan \in Reqs => type = ReplyType(asked[chan].op), UNCHANGED asked
  PROVE  TypedChannels'
<1> DEFINE c == [to |-> chan, type |-> type]
<1>1. CASE UNCHANGED reply_channels
  BY <1>1 DEF TypedChannels
<1>2. CASE reply_channels' = [reply_channels EXCEPT ![next_id] = c]
  <2>1. \A n \in Ids : reply_channels'[n] = IF n = next_id THEN c ELSE reply_channels[n]
    BY <1>2, PlaceTypes
  <2> QED
    BY <2>1 DEF TypedChannels
<1> QED
  BY <1>1, <1>2, AwaitCases

LEMMA RunTyped ==
  ASSUME RequestInv, TypedChannels, ActorRuns
  PROVE  TypedChannels'
<1> USE DEF RequestInv
<1>1. CASE \/ BackoffExpires \/ close_fails \/ actorpp_connect \/ reregister_done
           \/ write_hello \/ read_close \/ see_exit
           \/ read_ping_result \/ read_reply \/ ping_timeout_expires
           \/ \E step \in rereg : check_result(step)
  BY <1>1
  DEF TypedChannels, BackoffExpires, close_fails, actorpp_connect, reregister_done,
      write_hello, read_close, see_exit, read_ping_result, read_reply, ping_timeout_expires, check_result, app
<1>2. CASE \E step \in rereg : reregister_send(step)
  <2>1. PICK step \in rereg : reregister_send(step)
    BY <1>2
  <2>2. "rereg" \in Chans /\ "rereg" \notin Reqs
    BY ClientAssumption DEF Chans
  <2> QED
    BY <2>1, <2>2, AwaitTyped DEF reregister_send, ReplyType, app
<1>3. CASE idle_timeout
  <2>1. "ping" \in Chans /\ "ping" \notin Reqs
    BY ClientAssumption DEF Chans
  <2> QED
    BY <1>3, <2>1, AwaitTyped DEF idle_timeout, app
<1>4. CASE read_command
  <2> DEFINE r == Head(on_command)
  <2>1. CASE Disconnect
    BY <1>4, <2>1 DEF Disconnect, read_command, TypedChannels
  <2>2. CASE r # "Disconnect" /\ IsCommand(r)
    <3>1. r \in Reqs /\ r \in Chans
      BY <1>4, <2>2, HeadAsked DEF read_command, Chans
    <3>2. await_reply(r, ReplyType(asked[r].op)) /\ UNCHANGED asked
      BY <1>4, <2>2, CommandSteps DEF read_command
    <3>3. ReplyType(asked[r].op) \in {"Result", "StateResult"}
      BY DEF ReplyType
    <3> HIDE DEF r
    <3> QED
      BY <3>1, <3>2, <3>3, AwaitTyped
  <2> QED
    BY <1>4, <2>1, <2>2 DEF read_command, IsCommand
<1>5. CASE read_message
  <2>1. UNCHANGED asked
    BY <1>5 DEF read_message, app
  <2>2. \A n \in Ids : reply_channels'[n] \in {reply_channels[n], None}
    BY <1>5, PlaceTypes DEF read_message, handle_message, handle_reply, handle_push,
                            handle_hello_message
  <2> QED
    BY <2>1, <2>2 DEF TypedChannels
<1> QED
  BY <1>1, <1>2, <1>3, <1>4, <1>5 DEF ActorRuns, do_hello, wait_for_reply, loop

(* A thread only asks with a channel that is not yet waited for.           *)
LEMMA ApplicationTyped ==
  ASSUME RequestInv, TypedChannels, Application
  PROVE  TypedChannels'
<1>1. CASE \E r \in Reqs : Ask(r)
  <2>1. PICK r \in Reqs : Ask(r)
    BY <1>1
  <2>2. /\ UNCHANGED reply_channels
        /\ \A c \in Reqs : c # r => asked'[c] = asked[c]
    BY <2>1, PlaceTypes DEF Ask, RequestInv
  <2>3. ~Waits(r)
    BY <2>1 DEF Ask, RequestInv, Places, HasPlace
  <2> QED
    BY <2>2, <2>3 DEF TypedChannels, Waits
<1>2. CASE test_disconnect \/ exit \/ \E call \in calls : reply(call)
  BY <1>2 DEF test_disconnect, exit, reply, TypedChannels
<1> QED
  BY <1>1, <1>2 DEF Application

LEMMA NextPromiseInv ==
  ASSUME PromiseInv, [Next]_vars
  PROVE  PromiseInv'
<1>1. RequestInv'
  BY NextRequests DEF PromiseInv
<1>2. CASE ActorCloses
  BY <1>1, <1>2 DEF PromiseInv, TypedChannels, ActorCloses, connect, BackoffExit, cleanup_connection,
              fail_outstanding
<1>3. CASE UNCHANGED <<reply_channels, asked>>
  BY <1>1, <1>3 DEF PromiseInv, TypedChannels
<1>4. CASE Network
  BY <1>3, <1>4 DEF Network, Break, Mute, ReceiverCloses, app
<1>5. CASE Server
  BY <1>3, <1>5 DEF Server, ServerReceives, ServerHello, ServerPing, ServerAccepts,
                    ServerRefuses, ServerStateChanged, ServerPostpones, ServerGetsReply,
                    Receives, ServerAnswers, ServerCalls, ServerNotifies, Pushes,
                    WorldChanges, untouchedByServer, app
<1>6. CASE UNCHANGED vars
  BY <1>3, <1>6 DEF vars, clientVars, app
<1> QED
  BY <1>1, <1>2, <1>4, <1>5, <1>6, RunTyped, ApplicationTyped
  DEF PromiseInv, Next, Finished

-----------------------------------------------------------------------------
(* The steps seen through the mapping.                                     *)
received == [r \in Reqs |-> [i \in 1 .. Len(results[r]) |-> results[r][i].res]]

(* What a channel received before it was asked for, and its first result.  *)
LEMMA ReceivedFirst ==
  ASSUME NEW x
  PROVE  /\ [i \in 1 .. Len(<<>>) |-> <<>>[i].res] = <<>>
         /\ [i \in 1 .. Len(Append(<<>>, x)) |-> Append(<<>>, x)[i].res] = <<x.res>>
<1>1. Len(<<>>) = 0 /\ Len(Append(<<>>, x)) = 1 /\ Append(<<>>, x)[1] = x
  OBVIOUS
<1>2. [i \in 1 .. 0 |-> <<>>[i].res] = <<>>
  OBVIOUS
<1>3. [i \in 1 .. 1 |-> Append(<<>>, x)[i].res] = <<x.res>>
  BY <1>1
<1> QED
  BY <1>1, <1>2, <1>3

LEMMA AskMapped ==
  ASSUME PromiseInv, NEW r \in Reqs, Ask(r)
  PROVE  Promise!Next
<1>1. asked[r] = None /\ UNCHANGED received
  BY DEF Ask, inbox, received
<1>2. PICK op \in Ops, path \in Paths : \E value \in ValuesOf(op) :
             asked' = [asked EXCEPT ![r] = Command(op, path, value)]
  BY DEF Ask
<1>3. PICK value \in ValuesOf(op) :
             asked' = [asked EXCEPT ![r] = Command(op, path, value)]
  BY <1>2
<1>4. Command(op, path, value) \in Commands
  BY ClientAssumption DEF Command, Commands, ValuesOf, AllOps
<1>5. Promise!Ask(r, Command(op, path, value))
  BY <1>1, <1>3 DEF Promise!Ask, received
<1> QED
  BY <1>1, <1>4, <1>5 DEF Promise!Next, Promise!Unused

(* A reply that is passed on fits the request its channel belongs to.      *)
LEMMA ReplyMapped ==
  ASSUME PromiseInv, NEW m \in Incoming, handle_reply(m), UNCHANGED asked
  PROVE  Promise!Next \/ UNCHANGED received
<1> DEFINE c == reply_channels[m.id].to
           x == [res |-> m.res, src |-> m.to]
<1>1. m.id \in Ids /\ m.res \in Results
  BY IncomingCases DEF handle_reply
<1>2. CASE UNCHANGED results
  BY <1>2 DEF received
<1>3. CASE Expects(m) /\ push_result(c, m) /\ c \in Reqs
  <2>1. Waits(c) /\ reply_channels[m.id].type = ReplyType(asked[c].op)
    BY <1>1, <1>3 DEF Expects, Waits, PromiseInv, TypedChannels
  <2>2. results[c] = <<>> /\ asked[c] # None
    BY <1>3, <2>1 DEF PromiseInv, RequestInv, Places, HasPlace
  <2>3. asked[c] \in Commands /\ m.res \in AnswersTo[asked[c]]
    BY <1>1, <1>3, <2>1, <2>2, PlaceTypes DEF PromiseInv, RequestInv, AnswersTo, Expects
  <2>4. results' = [results EXCEPT ![c] = Append(<<>>, x)]
    BY <1>3, <2>2 DEF push_result
  <2>5. results'[c] = Append(<<>>, x) /\ \A r \in Reqs : r # c => results'[r] = results[r]
    BY <1>3, <2>4, PlaceTypes DEF PromiseInv, RequestInv
  <2>6. received[c] = <<>> /\ received'[c] = <<m.res>>
    <3>1. x.res = m.res
      OBVIOUS
    <3> HIDE DEF c, x
    <3> QED
      BY <1>3, <2>2, <2>5, <3>1, ReceivedFirst DEF received
  <2>7. received' = [received EXCEPT ![c] = <<m.res>>]
    BY <2>5, <2>6 DEF received
  <2>8. Promise!Answer(c, m.res)
    BY <2>7 DEF Promise!Answer, received
  <2>9. c \in Promise!Waiting
    BY <1>3, <2>2, <2>6 DEF Promise!Waiting, received
  <2> QED
    <3>1. PICK chan \in Promise!Waiting, res \in AnswersTo[asked[c]] :
                 chan = c /\ res = m.res
      BY <2>3, <2>9
    <3>2. Promise!Answer(chan, res)
      BY <2>8, <3>1 DEF Promise!Answer
    <3> QED
      BY <3>1, <3>2 DEF Promise!Next
<1> QED
  BY <1>2, <1>3 DEF handle_reply, push_result

(* A lost connection fails what was waited for.                            *)
LEMMA CloseMapped ==
  ASSUME PromiseInv, ActorCloses
  PROVE  Promise!Next
<1> DEFINE lost == {r \in Reqs : Waits(r)}
           x == [res |-> "Error", src |-> "local"]
<1>1. UNCHANGED asked /\ fail_outstanding
  BY DEF ActorCloses, connect, BackoffExit, cleanup_connection, untouched, app
<1>2. \A r \in Reqs : results'[r] = IF Waits(r) THEN Append(results[r], x) ELSE results[r]
  BY <1>1, WaitsIsOutstanding DEF fail_outstanding
<1>3. \A r \in lost : results[r] = <<>> /\ asked[r] # None
  BY DEF PromiseInv, RequestInv, Places, HasPlace
<1>4. \A r \in lost : received[r] = <<>> /\ received'[r] = <<"Error">>
  <2> SUFFICES ASSUME NEW r \in lost
               PROVE  received[r] = <<>> /\ received'[r] = <<"Error">>
    OBVIOUS
  <2>1. results[r] = <<>> /\ results'[r] = Append(<<>>, x)
    BY <1>2, <1>3
  <2>2. x.res = "Error"
    OBVIOUS
  <2> QED
    BY <2>1, <2>2, ReceivedFirst DEF received
<1>5. \A r \in Reqs : received'[r] = IF r \in lost THEN <<"Error">> ELSE received[r]
  BY <1>2, <1>4 DEF received
<1>6. received' = [r \in Reqs |-> IF r \in lost THEN <<"Error">> ELSE received[r]]
  BY <1>5 DEF received
<1>7. Promise!Lose(lost)
  BY <1>1, <1>6 DEF Promise!Lose, received
<1>8. lost \in SUBSET Promise!Waiting
  BY <1>3, <1>4 DEF Promise!Waiting, received
<1> QED
  <2>1. PICK these \in SUBSET Promise!Waiting : these = lost
    BY <1>8
  <2>2. Promise!Lose(these)
    BY <1>7, <2>1 DEF Promise!Lose
  <2> QED
    BY <2>2 DEF Promise!Next

LEMMA StepMapped ==
  ASSUME PromiseInv, [Next]_vars
  PROVE  Promise!Next \/ UNCHANGED <<asked, received>>
<1>1. CASE UNCHANGED <<asked, results>>
  BY <1>1 DEF received
<1>2. CASE ActorCloses
  BY <1>2, CloseMapped
<1>3. CASE Application
  BY <1>1, <1>3, AskMapped DEF Application, test_disconnect, exit, reply, inbox
<1>4. CASE Network
  BY <1>1, <1>4 DEF Network, Break, Mute, ReceiverCloses, app, inbox
<1>5. CASE Server
  BY <1>1, <1>5 DEF Server, ServerReceives, ServerHello, ServerPing, ServerAccepts,
                    ServerRefuses, ServerStateChanged, ServerPostpones, ServerGetsReply,
                    Receives, ServerAnswers, ServerCalls, ServerNotifies, Pushes,
                    WorldChanges, untouchedByServer, app, inbox
<1>6. CASE UNCHANGED vars
  BY <1>1, <1>6 DEF vars, clientVars, app, inbox
<1>7. CASE read_message
  <2> DEFINE m == Head(on_message)
  <2>1. m \in Incoming /\ UNCHANGED asked
    BY <1>7, FlightTypes, SeqTypes DEF read_message, PromiseInv, RequestInv, app
  <2>2. handle_reply(m) \/ UNCHANGED results
    BY <1>7 DEF read_message, handle_message, handle_push, handle_hello_message, inbox
  <2> HIDE DEF m
  <2> QED
    BY <1>1, <2>1, <2>2, ReplyMapped
<1>8. CASE read_command
  BY <1>1, <1>8 DEF read_command, inbox
<1>9. CASE \/ BackoffExpires \/ close_fails \/ actorpp_connect \/ reregister_done
           \/ write_hello \/ read_close \/ see_exit
           \/ read_ping_result \/ read_reply \/ ping_timeout_expires \/ idle_timeout
           \/ \E step \in rereg : check_result(step) \/ reregister_send(step)
  BY <1>1, <1>9
  DEF BackoffExpires, close_fails, actorpp_connect, reregister_done, write_hello,
      read_close, see_exit, idle_timeout,
      read_ping_result, read_reply, ping_timeout_expires, check_result, reregister_send,
      app, inbox
<1> QED
  BY <1>2, <1>3, <1>4, <1>5, <1>6, <1>7, <1>8, <1>9
  DEF Next, Finished, ActorRuns, do_hello, wait_for_reply, loop

LEMMA InitMapped == Init => PromiseInv /\ Promise!Init
<1> SUFFICES ASSUME Init PROVE PromiseInv /\ Promise!Init
  OBVIOUS
<1>1. RequestInv
  BY InitTypes, InitPlaces DEF RequestInv
<1>2. TypedChannels
  BY DEF Init, ClientInit, TypedChannels
<1>3. received = [r \in Reqs |-> <<>>]
  BY ReceivedFirst DEF Init, ClientInit, received
<1> QED
  BY <1>1, <1>2, <1>3 DEF PromiseInv, Promise!Init, received, Init, ClientInit

(* The client keeps the promise of RequestReply, for any number of         *)
(* requests, connections, paths and ids, however connections break: what   *)
(* CommandVisitor, handle_reply(), wait_for_reply() and                    *)
(* cleanup_connection() do to reply_channels amounts to one result per     *)
(* request, of the right type.  No exception is made for reused ids.       *)
THEOREM SystemKeepsPromise == Spec => PromiseKept
<1>1. Init => PromiseInv /\ Promise!Init
  BY InitMapped
<1>2. PromiseInv /\ [Next]_vars => PromiseInv'
  BY NextPromiseInv
<1>3. PromiseInv /\ [Next]_vars => Promise!Next \/ UNCHANGED <<asked, received>>
  BY StepMapped
<1>4. PromiseInv /\ [Next]_vars => [Promise!Next]_<<asked, received>>
  BY <1>3
<1> QED
  BY <1>1, <1>2, <1>4, PTL DEF Spec, PromiseKept, Promise!Spec, received
=============================================================================
