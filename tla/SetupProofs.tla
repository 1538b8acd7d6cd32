---------------------------- MODULE SetupProofs ----------------------------
(***************************************************************************)
(* Proofs about how a connection is set up and served, for any number of   *)
(* paths, requests and connections: the client keeps its identity, it      *)
(* serves commands only when everything is restored, observers keep        *)
(* nothing of the old connection, and no message of the server is          *)
(* unexpected.                                                             *)
(*                                                                         *)
(* Most of it is about what may be on its way.  That is stated as the type *)
(* of a queue: on_message \in Seq(S) for the set S of the messages that    *)
(* may be in it.  The first lemmas say what each kind of step adds to the  *)
(* queues; an invariant then needs only that what is added is in S.        *)
(***************************************************************************)
EXTENDS RequestProofs, SequenceTheorems

(* A queue of a wider type all of whose elements are in S.                 *)
LEMMA SeqElements ==
  ASSUME NEW T, NEW s \in Seq(T), NEW S, \A i \in 1 .. Len(s) : s[i] \in S
  PROVE  s \in Seq(S)
<1>1. Len(s) \in Nat /\ s \in [1 .. Len(s) -> S]
  OBVIOUS
<1> QED
  BY <1>1, SeqDef

-----------------------------------------------------------------------------
(* Where the actor can go.                                                 *)
Serving == {"reregister", "wait_for_reply", "main"}

ReadsInHello == pc = "hello" /\ read_message

LEMMA RunStages ==
  ASSUME ActorRuns
  PROVE  /\ pc' # "connecting" /\ (pc' = "send_hello" => actorpp_connect)
         /\ pc' = "hello" => ReadsInHello \/ write_hello
         /\ pc' \in Serving => ReadsInHello \/ pc \in Serving
         /\ pc = "reregister" /\ pc' = "main" => reregister_done
         /\ pc' \in {"reregister", "wait_for_reply"} =>
              \/ ReadsInHello
              \/ pc = "wait_for_reply" /\ read_message
              \/ pc = "wait_for_reply" /\ \E step \in rereg : check_result(step)
              \/ \E step \in rereg : reregister_send(step)
<1> USE DEF Serving
<1>1. CASE BackoffExpires \/ close_fails \/ actorpp_connect \/ write_hello \/ reregister_done
  BY <1>1 DEF BackoffExpires, close_fails, actorpp_connect, write_hello, reregister_done,
              send_send_buf
<1>2. CASE \E step \in rereg : reregister_send(step)
  BY <1>2 DEF reregister_send, send_send_buf
<1>3. read_close \/ see_exit => pc' = "backoff"
  BY DEF read_close, see_exit
<1>4. read_message => \/ pc' \in {pc, "ProtocolError"}
                      \/ pc = "hello" /\ pc' = "reregister"
  BY DEF read_message, handle_message, handle_reply, handle_push, handle_hello_message
<1>5. \A step \in rereg : check_result(step) => pc' \in {"backoff", "reregister"}
  BY DEF check_result
<1>6. CASE do_hello
  BY <1>3, <1>4, <1>6 DEF do_hello, ReadsInHello
<1>7. CASE wait_for_reply
  BY <1>3, <1>4, <1>5, <1>7 DEF wait_for_reply
<1>8. CASE loop
  <2>1. pc = "main"
    BY <1>8 DEF loop
  <2>2. CASE read_ping_result \/ read_reply \/ idle_timeout \/ ping_timeout_expires
    BY <2>1, <2>2 DEF read_ping_result, read_reply, idle_timeout, ping_timeout_expires,
                      send_send_buf
  <2>3. CASE read_command
    <3>1. CASE Disconnect
      BY <2>1, <3>1 DEF Disconnect
    <3>2. CASE IsCommand(Head(on_command))
      BY <2>1, <3>2, CommandSteps DEF send_send_buf
    <3> QED
      BY <2>3, <3>1, <3>2 DEF read_command, IsCommand
  <2> QED
    BY <1>3, <1>4, <1>8, <2>1, <2>2, <2>3 DEF loop
<1> QED
  BY <1>1, <1>2, <1>6, <1>7, <1>8 DEF ActorRuns

-----------------------------------------------------------------------------
(* What is registered stays registered.                                    *)
Wanted(s) ==
  /\ s.op = "ActionRegister" => action_channels[s.path] # None
  /\ s.op = "EventListen" => listened_events[s.path] # None
  /\ s.op = "StateObserve" => observed_states[s.path] # None
  /\ s.op \in {"StateRegister", "StateChanged"} => registered_states[s.path] # None

(* A command registers what its message asks the server for.               *)
LEMMA CommandRegisters ==
  ASSUME TypeInv, NEW r \in Reqs, asked[r] \in Commands, IsCommand(r)
  PROVE  /\ \A m \in Outgoing : m = CommandMessage(r) => Wanted(m)'
         /\ \A p \in Paths :
              /\ action_channels[p] # None => action_channels'[p] # None
              /\ listened_events[p] # None => listened_events'[p] # None
              /\ observed_states[p] # None => observed_states'[p] # None
              /\ registered_states[p] # None => registered_states'[p] # None
<1> PICK m : m = CommandMessage(r)
  OBVIOUS
<1>1. m.op = asked[r].op /\ m.path = asked[r].path /\ m.path \in Paths /\ r # None
  BY ClientAssumption DEF CommandMessage, Request, Commands
<1>2. RegistryTypeOK
  BY DEF TypeInv, TypeOK
<1>3. CASE ActionRegister(r)
  <2>1. /\ m.op = "ActionRegister" /\ action_channels' = emplace(action_channels, m.path, r)
        /\ UNCHANGED <<registered_states, observed_states, listened_events>>
    BY <1>1, <1>3 DEF ActionRegister, command
  <2>2. /\ action_channels'[m.path] # None
        /\ \A p \in Paths : action_channels[p] # None => action_channels'[p] # None
    BY <1>1, <1>2, <2>1, ClientAssumption DEF emplace, RegistryTypeOK
  <2> QED
    BY <1>1, <2>1, <2>2 DEF Wanted
<1>4. CASE EventListen(r)
  <2>1. /\ m.op = "EventListen" /\ listened_events' = emplace(listened_events, m.path, r)
        /\ UNCHANGED <<registered_states, observed_states, action_channels>>
    BY <1>1, <1>4 DEF EventListen, command
  <2>2. /\ listened_events'[m.path] # None
        /\ \A p \in Paths : listened_events[p] # None => listened_events'[p] # None
    BY <1>1, <1>2, <2>1, ClientAssumption DEF emplace, RegistryTypeOK
  <2> QED
    BY <1>1, <2>1, <2>2 DEF Wanted
<1>5. CASE StateObserve(r)
  <2>1. /\ m.op = "StateObserve" /\ observed_states' = emplace(observed_states, m.path, r)
        /\ UNCHANGED <<registered_states, action_channels, listened_events>>
    BY <1>1, <1>5 DEF StateObserve, command
  <2>2. /\ observed_states'[m.path] # None
        /\ \A p \in Paths : observed_states[p] # None => observed_states'[p] # None
    BY <1>1, <1>2, <2>1, ClientAssumption DEF emplace, RegistryTypeOK
  <2> QED
    BY <1>1, <2>1, <2>2 DEF Wanted
<1>6. CASE StateRegister(r) \/ StateChanged(r)
  <2>1. /\ m.op \in {"StateRegister", "StateChanged"}
        /\ UNCHANGED <<observed_states, action_channels, listened_events>>
    BY <1>1, <1>6 DEF StateRegister, StateChanged, command
  <2>2. asked[r].value \in StateVals \/ m.op = "StateRegister"
    BY <1>1, <1>6 DEF StateRegister, StateChanged, command, Commands
  <2>3. None \notin StateVals /\ Unknown \in StateVals
    BY ClientAssumption DEF StateVals, Unknown
  <2>4. /\ registered_states'[m.path] # None
        /\ \A p \in Paths : registered_states[p] # None => registered_states'[p] # None
    BY <1>1, <1>2, <1>6, <2>2, <2>3
    DEF StateRegister, StateChanged, command, emplace, RegistryTypeOK
  <2> QED
    BY <1>1, <2>1, <2>4 DEF Wanted
<1>7. CASE ActionCall(r) \/ EventRegister(r) \/ EventEmit(r) \/ Get(r) \/ Set(r)
  <2>1. /\ m.op \notin {"ActionRegister", "EventListen", "StateObserve", "StateRegister",
                        "StateChanged"}
        /\ UNCHANGED <<action_channels, observed_states, listened_events,
                       registered_states>>
    BY <1>1, <1>7 DEF ActionCall, EventRegister, EventEmit, Get, Set, command, registries
  <2> QED
    BY <2>1 DEF Wanted
<1> QED
  BY <1>3, <1>4, <1>5, <1>6, <1>7 DEF IsCommand

LEMMA RegistriesGrow ==
  ASSUME TypeInv, [Next]_vars
  PROVE  \A p \in Paths :
           /\ action_channels[p] # None => action_channels'[p] # None
           /\ listened_events[p] # None => listened_events'[p] # None
           /\ observed_states[p] # None => observed_states'[p] # None
           /\ registered_states[p] # None => registered_states'[p] # None
<1>1. CASE UNCHANGED registries
  BY <1>1 DEF registries
<1>2. CASE read_command
  <2>1. CASE Disconnect
    BY <1>1, <2>1 DEF Disconnect
  <2>2. CASE Head(on_command) # "Disconnect" /\ IsCommand(Head(on_command))
    BY <1>2, <2>2, HeadAsked, CommandRegisters DEF read_command
  <2> QED
    BY <1>2, <2>1, <2>2 DEF read_command, IsCommand
<1>3. CASE ActorCloses
  BY <1>1, <1>3 DEF ActorCloses, connect, BackoffExit, untouched
<1>4. CASE ActorRuns
  <2>1. CASE \/ BackoffExpires \/ close_fails \/ actorpp_connect
             \/ write_hello \/ reregister_done
             \/ \E step \in rereg : reregister_send(step) \/ check_result(step)
             \/ read_close \/ read_message \/ see_exit \/ read_ping_result
             \/ read_reply \/ idle_timeout \/ ping_timeout_expires
    BY <1>1, <2>1
    DEF BackoffExpires, close_fails, actorpp_connect, write_hello, reregister_done,
        reregister_send, check_result, read_close, read_message, see_exit, read_ping_result, read_reply, idle_timeout,
        ping_timeout_expires
  <2> QED
    BY <1>2, <1>4, <2>1 DEF ActorRuns, do_hello, wait_for_reply, loop
<1>5. CASE Application \/ Network
  BY <1>1, <1>5 DEF Application, Ask, reply, test_disconnect, exit, Network, Break,
                    Mute, ReceiverCloses
<1>6. CASE Server
  BY <1>1, <1>6 DEF Server, ServerReceives, ServerHello, ServerPing, ServerAccepts,
                ServerRefuses, ServerStateChanged, ServerPostpones, ServerGetsReply,
                Receives, ServerAnswers, ServerCalls, ServerNotifies, Pushes,
                WorldChanges, untouchedByServer
<1>7. CASE UNCHANGED vars
  BY <1>1, <1>7 DEF vars, clientVars
<1> QED
  BY <1>3, <1>4, <1>5, <1>6, <1>7 DEF Next, Finished

-----------------------------------------------------------------------------
(* What a step of the actor does to the two directions of the connection.  *)
(* A message the actor sends once the connection is set up, or while it is *)
(* set up.                                                                 *)
Restorable == Registrations \cup {"StateChanged"}

Sends(m) ==
  /\ m \in Outgoing /\ m.op # "Hello" /\ pc \in Serving
  /\ pc # "main" => AsksReply(m)
  /\ AsksReply(m) /\ m.to = "ping" => m.op = "Ping"
  /\ m.op \in Restorable => Wanted(m)' \/ Step(m.op, m.path) \in rereg

LEMMA RunSends ==
  ASSUME TypeInv, ActorRuns
  PROVE  \/ UNCHANGED to_server
         \/ close_fails /\ to_server' = <<>>
         \/ write_hello /\ to_server' = Append(to_server, Hello)
         \/ \E m \in Outgoing : Sends(m) /\ to_server' = Append(to_server, m)
<1> USE DEF Serving
<1>1. CASE \/ BackoffExpires \/ actorpp_connect \/ reregister_done \/ read_close \/ see_exit
           \/ read_ping_result \/ ping_timeout_expires \/ read_message
           \/ \E step \in rereg : check_result(step)
  BY <1>1
  DEF BackoffExpires, actorpp_connect, reregister_done, read_close, see_exit, read_ping_result,
      ping_timeout_expires, check_result, read_message
<1>2. CASE write_hello
  BY <1>2 DEF write_hello, send_send_buf
<1>3. CASE \E step \in rereg : reregister_send(step)
  <2>1. PICK step \in rereg : reregister_send(step)
    BY <1>3
  <2>2. PICK m : m = RestoreMessage(step)
    OBVIOUS
  <2>3. m \in Outgoing
    BY <2>2, RestoreMessageType
  <2>4. m.op = step.op /\ m.path = step.path /\ m.to = "rereg"
    BY <2>2 DEF RestoreMessage, Request
  <2>5. step.op \in Registrations \cup {"StateChanged"} /\ step = Step(step.op, step.path)
    BY DEF TypeInv, TypeOK, ActorTypeOK, Steps, Step
  <2>6. Sends(m)
    BY <2>1, <2>3, <2>4, <2>5 DEF Sends, reregister_send, Restorable, Registrations, AsksReply
  <2>7. send_send_buf(m, "wait_for_reply")
    BY <2>1, <2>2 DEF reregister_send, RestoreMessage
  <2> QED
    BY <2>3, <2>6, <2>7 DEF send_send_buf
<1>4. CASE pc = "main" /\ read_reply
  <2>1. Head(on_reply) \in CallSet
    BY <1>4, SeqTypes DEF TypeInv, TypeOK, ChannelTypeOK, read_reply
  <2>2. PICK m : m = CallReply(Head(on_reply))
    OBVIOUS
  <2>3. m \in Outgoing /\ m.op = "Reply"
    BY <2>1, <2>2 DEF CallReply, Outgoing
  <2>4. Sends(m)
    BY <1>4, <2>3 DEF Sends, AsksReply, Restorable, Registrations
  <2> QED
    BY <1>4, <2>2, <2>3, <2>4 DEF read_reply, send_send_buf
<1>5. CASE pc = "main" /\ idle_timeout
  <2>1. PICK m : m = Request("Ping", next_id, None, None, "ping")
    OBVIOUS
  <2>2. m \in Outgoing /\ m.op = "Ping"
    BY <2>1, FlightTypes DEF Request, Outgoing, PingRequests, Chans
  <2>3. Sends(m)
    BY <1>5, <2>2 DEF Sends, Restorable, Registrations
  <2> QED
    BY <1>5, <2>1, <2>2, <2>3 DEF idle_timeout, send_send_buf
<1>6. CASE pc = "main" /\ read_command
  <2>1. CASE Disconnect
    BY <2>1 DEF Disconnect
  <2>2. CASE Head(on_command) # "Disconnect" /\ IsCommand(Head(on_command))
    <3>1. PICK r \in Reqs : r = Head(on_command) /\ asked[r] \in Commands /\ IsCommand(r)
      BY <1>6, <2>2, HeadAsked DEF read_command
    <3>2. PICK m : m = CommandMessage(r)
      OBVIOUS
    <3>3. m \in Outgoing /\ Wanted(m)'
      BY <3>1, <3>2, CommandMessageType, CommandRegisters
    <3>4. m.op \in AllOps /\ m.to = r /\ send_send_buf(m, "main")
      BY <3>1, <3>2, CommandSteps DEF CommandMessage, Request
    <3>5. m.op # "Hello" /\ m.to # "ping"
      BY <3>4, ClientAssumption DEF AllOps
    <3>6. Sends(m)
      BY <1>6, <3>3, <3>5 DEF Sends
    <3> QED
      BY <3>3, <3>4, <3>6 DEF send_send_buf
  <2> QED
    BY <1>6, <2>1, <2>2 DEF read_command, IsCommand
<1>7. CASE close_fails
  BY <1>7 DEF close_fails
<1> QED
  BY <1>1, <1>2, <1>3, <1>4, <1>5, <1>6, <1>7 DEF ActorRuns, do_hello, wait_for_reply, loop

LEMMA RunReads ==
  ASSUME TypeInv, ActorRuns
  PROVE  \/ UNCHANGED on_message
         \/ /\ read_message /\ on_message # <<>> /\ on_message' = Tail(on_message)
            /\ UNCHANGED to_server
<1>1. CASE \/ BackoffExpires \/ close_fails \/ actorpp_connect \/ reregister_done
           \/ read_close \/ see_exit
           \/ read_ping_result \/ ping_timeout_expires \/ write_hello
           \/ \E step \in rereg : reregister_send(step) \/ check_result(step)
           \/ read_reply \/ idle_timeout \/ read_command
  BY <1>1
  DEF BackoffExpires, close_fails, actorpp_connect, reregister_done, read_close, see_exit, read_ping_result,
      ping_timeout_expires, write_hello, reregister_send, check_result, read_reply,
      idle_timeout, read_command, waits
<1>2. CASE read_message
  BY <1>2 DEF read_message
<1> QED
  BY <1>1, <1>2 DEF ActorRuns, do_hello, wait_for_reply, loop

(* What the network does to them.                                          *)
Fragment == [type |-> "fragment"]

LEMMA NetworkQueues ==
  ASSUME TypeInv, Network, NEW S, on_message \in Seq(S),
         Fragment \in S \/ \A m \in S : m.type \in {"hello", "hello_id"}
  PROVE  /\ to_server' \in {to_server, <<>>}
         /\ on_message' \in Seq(S) /\ Len(on_message') <= Len(on_message)
<1>1. to_server' \in {to_server, <<>>}
  BY DEF Network, Break, Mute, ReceiverCloses, waits
<1>2. CASE UNCHANGED on_message
  <2>1. Len(on_message) <= Len(on_message)
    OBVIOUS
  <2> QED
    BY <1>1, <1>2, <2>1
<1>3. CASE Break
  <2>1. PICK n \in 0 .. Len(on_message) :
          \/ on_message' = SubSeq(on_message, 1, n)
          \/ /\ n < Len(on_message)
             /\ on_message[n + 1].type \notin {"hello", "hello_id"}
             /\ on_message' = Append(SubSeq(on_message, 1, n), Fragment)
    BY <1>3 DEF Break, Fragment
  <2>2. n \in Nat /\ n <= Len(on_message) /\ Len(on_message) \in Nat
    OBVIOUS
  <2>3. SubSeq(on_message, 1, n) \in Seq(S) /\ Len(SubSeq(on_message, 1, n)) = n
    OBVIOUS
  <2>4. CASE on_message' = SubSeq(on_message, 1, n)
    BY <1>1, <2>2, <2>3, <2>4
  <2>5. CASE /\ n < Len(on_message)
             /\ on_message[n + 1].type \notin {"hello", "hello_id"}
             /\ on_message' = Append(SubSeq(on_message, 1, n), Fragment)
    <3>1. on_message[n + 1] \in S
      BY <2>2, <2>5
    <3>2. Fragment \in S
      BY <2>5, <3>1
    <3>3. on_message' \in Seq(S) /\ Len(on_message') = n + 1
      BY <2>3, <2>5, <3>2
    <3> QED
      BY <1>1, <2>2, <2>5, <3>3
  <2> QED
    BY <2>1, <2>4, <2>5
<1> QED
  BY <1>2, <1>3 DEF Network, Mute, ReceiverCloses, waits

(* What the server does to them: it delivers what it was asked for, or     *)
(* what the connection has registered for.                                 *)
FirstSent(m) == to_server # <<>> /\ m = Head(to_server)
Asks(req) == (FirstSent(req) /\ AsksReply(req)) \/ req \in srv_pending
Delivers(a) ==
  \/ /\ a.type \in {"hello", "hello_id"} /\ to_server' = Tail(to_server)
     /\ \E m \in Outgoing : /\ FirstSent(m) /\ m.op = "Hello"
                            /\ a.type = "hello_id" => m.client = None
  \/ /\ a.type = "reply"
     /\ \E req : Asks(req) /\ a.to = req.to /\ (req.op = "Ping" => a.res = "Success")
  \/ a.type = "action_call" /\ Step("ActionRegister", a.path) \in srv_regs
  \/ a.type = "event_notify" /\ Step("EventListen", a.path) \in srv_regs
  \/ a.type = "state_changed" /\ Step("StateObserve", a.path) \in srv_regs

ServerMoves ==
  /\ UNCHANGED untouchedByServer
  /\ UNCHANGED to_server \/ (to_server # <<>> /\ to_server' = Tail(to_server))
  /\ \/ UNCHANGED on_message
     \/ \E a \in Incoming : Delivers(a) /\ on_message' = Append(on_message, a)
  /\ \A s \in srv_regs' :
       \/ s \in srv_regs
       \/ \E m \in Outgoing : /\ FirstSent(m) /\ m.op \in Registrations
                              /\ s = Step(m.op, m.path)
  /\ \A req \in srv_pending' : Asks(req)

LEMMA ServerReceivesMoves ==
  ASSUME TypeInv, ServerReceives
  PROVE  ServerMoves
<1> PICK m \in {to_server[i] : i \in 1 .. Len(to_server)} :
      \/ ServerHello(m) \/ ServerPing(m) \/ ServerAccepts(m) \/ ServerRefuses(m)
      \/ ServerStateChanged(m) \/ ServerPostpones(m) \/ ServerGetsReply(m)
  BY DEF ServerReceives
<1>1. Receives(m)
  BY DEF ServerHello, ServerPing, ServerAccepts, ServerRefuses, ServerStateChanged,
         ServerPostpones, ServerGetsReply
<1>2. /\ FirstSent(m) /\ m \in Outgoing /\ to_server' = Tail(to_server)
      /\ UNCHANGED untouchedByServer /\ to_server # <<>>
  BY <1>1, ReceivesTypes DEF Receives, FirstSent
<1>3. ASSUME NEW res \in Results, AsksReply(m), Deliver(Answer(m, res)),
             m.op = "Ping" => res = "Success"
      PROVE  \E a \in Incoming : Delivers(a) /\ on_message' = Append(on_message, a)
  <2>1. PICK a : a = Answer(m, res)
    OBVIOUS
  <2>2. m.id \in Ids /\ m.to \in Chans
    BY <1>2, <1>3, OutgoingCases DEF AsksReply
  <2>3. a \in Incoming /\ a.type = "reply" /\ a.to = m.to /\ a.res = res
    BY <2>1, <2>2 DEF Answer, Incoming
  <2>4. Asks(m)
    BY <1>2, <1>3 DEF Asks
  <2>5. Delivers(a)
    BY <1>3, <2>3, <2>4 DEF Delivers
  <2> QED
    BY <1>3, <2>1, <2>3, <2>5 DEF Deliver
<1>4. {"Success", "Error"} \subseteq Results /\ StateVals \subseteq Results
  BY DEF Results
<1>5. CASE ServerHello(m)
  <2>1. PICK a \in Incoming :
          /\ Deliver(a) /\ a.type \in {"hello", "hello_id"}
          /\ a.type = "hello_id" => m.client = None
    <3>1. conn \in ClientIds
      BY DEF TypeInv, TypeOK, ActorTypeOK, ClientIds
    <3>2. /\ [type |-> "hello"] \in Incoming
          /\ [type |-> "hello_id", client |-> conn] \in Incoming
      BY <3>1 DEF Incoming
    <3>3. [type |-> "hello"].type = "hello"
      OBVIOUS
    <3>4. [type |-> "hello_id", client |-> conn].type = "hello_id"
      OBVIOUS
    <3> QED
      BY <1>5, <3>2, <3>3, <3>4 DEF ServerHello
  <2>2. Delivers(a)
    BY <1>2, <1>5, <2>1 DEF Delivers, ServerHello
  <2>3. on_message' = Append(on_message, a)
    BY <2>1 DEF Deliver
  <2> QED
    BY <1>2, <1>5, <2>2, <2>3 DEF ServerMoves, ServerHello, Asks
<1>6. ASSUME ServerPing(m) \/ ServerRefuses(m) \/ ServerStateChanged(m)
      PROVE  ServerMoves
  <2>1. UNCHANGED <<srv_regs, srv_pending>>
    BY <1>6 DEF ServerPing, ServerRefuses, ServerStateChanged
  <2>2. AsksReply(m)
    BY <1>6 DEF ServerPing, ServerRefuses, ServerStateChanged, AsksReply, Registrations
  <2>3. \E res \in Results :
          Deliver(Answer(m, res)) /\ (m.op = "Ping" => res = "Success")
    BY <1>4, <1>6 DEF ServerPing, ServerRefuses, ServerStateChanged, Registrations
  <2>4. \E a \in Incoming : Delivers(a) /\ on_message' = Append(on_message, a)
    BY <1>3, <2>2, <2>3
  <2> QED
    BY <1>2, <2>1, <2>4 DEF ServerMoves, Asks
<1>7. CASE ServerAccepts(m)
  <2> DEFINE res == IF m.op = "StateObserve" THEN world[m.path] ELSE "Success"
  <2>1. AsksReply(m) /\ m.op # "Ping"
    BY <1>7 DEF ServerAccepts, AsksReply, Registrations
  <2>2. m.op = "StateObserve" => world[m.path] \in StateVals
    BY <1>2, OutgoingCases DEF TypeInv, TypeOK, ServerTypeOK, AllOps
  <2>3. res \in Results /\ Deliver(Answer(m, res))
    BY <1>4, <1>7, <2>2 DEF ServerAccepts
  <2> HIDE DEF res
  <2>4. \E a \in Incoming : Delivers(a) /\ on_message' = Append(on_message, a)
    BY <1>3, <2>1, <2>3
  <2>5. \A s \in srv_regs' : s \in srv_regs \/ s = Step(m.op, m.path)
    BY <1>7 DEF ServerAccepts
  <2>6. m.op \in Registrations /\ UNCHANGED srv_pending
    BY <1>7 DEF ServerAccepts
  <2> QED
    BY <1>2, <2>4, <2>5, <2>6 DEF ServerMoves, Asks
<1>8. CASE ServerPostpones(m)
  <2>1. AsksReply(m)
    BY <1>8 DEF ServerPostpones, AsksReply
  <2> QED
    BY <1>2, <1>8, <2>1 DEF ServerMoves, ServerPostpones, Asks
<1>9. CASE ServerGetsReply(m)
  BY <1>2, <1>9 DEF ServerMoves, ServerGetsReply, Asks
<1> QED
  BY <1>5, <1>6, <1>7, <1>8, <1>9

LEMMA ServerSteps ==
  ASSUME TypeInv, Server
  PROVE  ServerMoves
<1>1. CASE ServerReceives
  BY <1>1, ServerReceivesMoves
<1>2. CASE \E req \in srv_pending : ServerAnswers(req)
  <2>1. PICK req \in srv_pending : ServerAnswers(req)
    BY <1>2
  <2>2. PICK res \in {"Success", "Error"} : Deliver(Answer(req, res))
    BY <2>1 DEF ServerAnswers
  <2>3. req \in PlainRequests /\ req.op # "Ping"
    BY FlightTypes DEF PendingRequests
  <2>4. PICK a : a = Answer(req, res)
    OBVIOUS
  <2>5. a \in Incoming /\ a.type = "reply" /\ a.to = req.to
    BY <2>3, <2>4 DEF Answer, Incoming, PlainRequests, Results
  <2>6. Delivers(a) /\ on_message' = Append(on_message, a)
    BY <2>2, <2>3, <2>4, <2>5 DEF Delivers, Asks, Deliver
  <2> QED
    <3>1. UNCHANGED <<to_server, srv_regs>> /\ srv_pending' \subseteq srv_pending
      BY <2>1 DEF ServerAnswers
    <3>2. UNCHANGED untouchedByServer
      BY <2>1 DEF ServerAnswers, untouchedByServer
    <3> QED
      BY <2>5, <2>6, <3>1, <3>2 DEF ServerMoves, Asks
<1>3. ASSUME NEW a \in Incoming, Delivers(a), Deliver(a) \/ UNCHANGED on_message,
             UNCHANGED untouchedByServer, UNCHANGED <<to_server, srv_regs, srv_pending>>
      PROVE  ServerMoves
  BY <1>3 DEF ServerMoves, Deliver, Asks
<1>4. ASSUME NEW path \in Paths, NEW num \in CallIds, ServerCalls(num, path)
      PROVE  ServerMoves
  <2>1. PICK a : a = [type |-> "action_call", id |-> num, path |-> path]
    OBVIOUS
  <2>2. a \in Incoming /\ Delivers(a)
    BY <1>4, <2>1 DEF Incoming, Delivers, ServerCalls
  <2> QED
    BY <1>3, <1>4, <2>1, <2>2 DEF ServerCalls, Pushes, untouchedByServer
<1>5. ASSUME NEW path \in Paths, ServerNotifies(path)
      PROVE  ServerMoves
  <2>1. PICK a : a = [type |-> "event_notify", path |-> path]
    OBVIOUS
  <2>2. a \in Incoming /\ Delivers(a)
    BY <1>5, <2>1 DEF Incoming, Delivers, ServerNotifies
  <2> QED
    BY <1>3, <1>5, <2>1, <2>2 DEF ServerNotifies, Pushes, untouchedByServer
<1>6. ASSUME NEW path \in Paths, NEW value \in StateVals, WorldChanges(path, value)
      PROVE  ServerMoves
  <2>1. PICK a : a = [type |-> "state_changed", path |-> path, value |-> value]
    OBVIOUS
  <2>2. a \in Incoming
    BY <2>1 DEF Incoming
  <2>3. UNCHANGED untouchedByServer /\ UNCHANGED <<to_server, srv_regs, srv_pending>>
    BY <1>6 DEF WorldChanges, untouchedByServer
  <2>4. CASE Step("StateObserve", path) \in srv_regs /\ Deliver(a)
    BY <1>3, <2>1, <2>2, <2>3, <2>4 DEF Delivers
  <2>5. CASE UNCHANGED on_message
    BY <2>3, <2>5 DEF ServerMoves, Asks
  <2> QED
    BY <1>6, <2>1, <2>4, <2>5 DEF WorldChanges
<1> QED
  BY <1>1, <1>2, <1>4, <1>5, <1>6 DEF Server

-----------------------------------------------------------------------------
(* The beginning of a connection.  Until the hello was answered nothing    *)
(* but the two hellos is on its way, and afterwards no hello is.           *)
HelloOut  == {m \in Outgoing : m.op = "Hello" /\ m.client = id}
HelloIn   == {m \in Incoming : /\ m.type \in {"hello", "hello_id"}
                               /\ m.type = "hello_id" => id = None}
LaterOut  == {m \in Outgoing : m.op # "Hello"}
LaterIn   == {m \in Incoming : m.type \notin {"hello", "hello_id"}}

Unregistered == srv_regs = {} /\ srv_pending = {}

HelloFirst ==
  /\ pc \in {"connecting", "send_hello"} =>
       Unregistered /\ to_server = <<>> /\ on_message = <<>>
  /\ pc = "hello" =>
       /\ Unregistered /\ to_server \in Seq(HelloOut) /\ on_message \in Seq(HelloIn)
       /\ Len(to_server) + Len(on_message) <= 1
  /\ pc \in Serving => to_server \in Seq(LaterOut) /\ on_message \in Seq(LaterIn)

(* The stages the client serves are apart from those before.               *)
LEMMA Stage ==
  /\ pc \in Serving => pc \notin {"connecting", "send_hello", "hello"}
  /\ pc' \in Serving => pc' \notin {"connecting", "send_hello", "hello"}
  BY DEF Serving

LEMMA EmptyByLength ==
  ASSUME NEW S, NEW s \in Seq(S), Len(s) <= 0
  PROVE  s = <<>>
  OBVIOUS

LEMMA AtMostOne ==
  ASSUME NEW S, NEW m \in S, NEW s \in {<<>>, Append(<<>>, m)}
  PROVE  s \in Seq(S) /\ Len(s) <= 1
<1>1. CASE s = <<>>
  BY <1>1
<1>2. CASE s = Append(<<>>, m)
  <2>1. <<>> \in Seq(S) /\ Len(<<>>) = 0
    OBVIOUS
  <2>2. s \in Seq(S) /\ Len(s) = Len(<<>>) + 1
    BY <1>2, <2>1
  <2> QED
    BY <2>1, <2>2
<1> QED
  BY <1>1, <1>2

(* Reading the answer leaves both queues empty.                            *)
LEMMA HelloReadAlone ==
  ASSUME HelloFirst, ReadsInHello
  PROVE  Head(on_message) \in HelloIn /\ to_server' = <<>> /\ on_message' = <<>>
<1>1. /\ on_message # <<>> /\ on_message' = Tail(on_message) /\ UNCHANGED to_server
      /\ pc = "hello"
  BY DEF ReadsInHello, read_message
<1>2. /\ to_server \in Seq(HelloOut) /\ on_message \in Seq(HelloIn)
      /\ Len(to_server) + Len(on_message) <= 1
  BY <1>1 DEF HelloFirst
<1>3. /\ Head(on_message) \in HelloIn /\ Tail(on_message) \in Seq(HelloIn)
      /\ Len(Tail(on_message)) = Len(on_message) - 1
      /\ Len(on_message) \in Nat /\ Len(on_message) >= 1 /\ Len(to_server) \in Nat
  BY <1>1, <1>2
<1>4. Len(to_server) <= 0 /\ Len(Tail(on_message)) <= 0
  BY <1>2, <1>3
<1> QED
  BY <1>1, <1>2, <1>3, <1>4, EmptyByLength

LEMMA HelloReadFirst ==
  ASSUME TypeInv, HelloFirst, ReadsInHello, UNCHANGED serverVars
  PROVE  /\ Head(on_message) \in HelloIn /\ Unregistered'
         /\ to_server' = <<>> /\ on_message' = <<>>
         /\ pc' \in {"hello", "reregister", "ProtocolError"}
<1>1. pc = "hello" /\ Unregistered
  BY DEF ReadsInHello, HelloFirst
<1>2. pc' \in {"hello", "reregister", "ProtocolError"}
  BY <1>1 DEF ReadsInHello, read_message, handle_hello_message
<1> QED
  BY <1>1, <1>2, HelloReadAlone DEF Unregistered, serverVars

LEMMA RunKeepsHelloFirst ==
  ASSUME TypeInv, TypeInv', HelloFirst, ActorRuns, UNCHANGED serverVars
  PROVE  HelloFirst'
<1>1. UNCHANGED Unregistered
  BY DEF Unregistered, serverVars
<1>2. CASE ReadsInHello
  <2>1. /\ Unregistered' /\ to_server' = <<>> /\ on_message' = <<>>
        /\ pc' \in {"hello", "reregister", "ProtocolError"}
    BY <1>2, HelloReadFirst
  <2>2. Len(<<>>) + Len(<<>>) <= 1 /\ \A S : <<>> \in Seq(S)
    OBVIOUS
  <2> QED
    BY <2>1, <2>2 DEF HelloFirst
<1>3. CASE write_hello
  <2>1. /\ pc = "send_hello" /\ pc' \in {"hello", "Disconnected"}
        /\ to_server' \in {to_server, Append(to_server, Hello)}
        /\ UNCHANGED <<on_message, id>>
    BY <1>3 DEF write_hello, send_send_buf, waits, link
  <2>2. Unregistered /\ to_server = <<>> /\ on_message = <<>>
    BY <2>1 DEF HelloFirst
  <2>3. Hello \in HelloOut'
    BY <2>1 DEF Hello, HelloOut, Outgoing, TypeInv, TypeOK, ActorTypeOK
  <2>4. to_server' \in Seq(HelloOut') /\ Len(to_server') <= 1
    BY <2>1, <2>2, <2>3, AtMostOne
  <2>5. on_message' \in Seq(HelloIn') /\ Len(on_message') = 0 /\ Len(to_server') \in Nat
    BY <2>1, <2>2, <2>4
  <2>6. Len(to_server') + Len(on_message') <= 1
    BY <2>4, <2>5
  <2> QED
    BY <1>1, <2>1, <2>2, <2>4, <2>5, <2>6 DEF HelloFirst, Serving
<1>4. CASE ~ReadsInHello /\ ~write_hello /\ ~actorpp_connect
  <2>1. pc' \notin {"connecting", "send_hello", "hello"} /\ (pc' \in Serving => pc \in Serving)
    BY <1>4, RunStages
  <2>2. ASSUME pc \in Serving
        PROVE  to_server' \in Seq(LaterOut) /\ on_message' \in Seq(LaterIn)
    <3>1. to_server \in Seq(LaterOut) /\ on_message \in Seq(LaterIn)
      BY <2>2 DEF HelloFirst
    <3>2. \/ to_server' \in {to_server, <<>>}
          \/ \E m \in LaterOut : to_server' = Append(to_server, m)
      BY <1>4, RunSends DEF Sends, LaterOut
    <3>3. on_message' = on_message \/ (on_message # <<>> /\ on_message' = Tail(on_message))
      BY RunReads
    <3> QED
      BY <3>1, <3>2, <3>3, SeqTypes, EmptyQueue
  <2>3. LaterOut' = LaterOut /\ LaterIn' = LaterIn
    BY DEF LaterOut, LaterIn
  <2> QED
    BY <2>1, <2>2, <2>3 DEF HelloFirst
<1>5. CASE actorpp_connect
  <2>1. /\ pc = "connecting" /\ pc' \in {"send_hello", "backoff"}
        /\ UNCHANGED <<to_server, on_message>>
    BY <1>5 DEF actorpp_connect, waits
  <2> QED
    BY <1>1, <2>1 DEF HelloFirst, Serving
<1> QED
  BY <1>2, <1>3, <1>4, <1>5

LEMMA ServerKeepsHelloFirst ==
  ASSUME TypeInv, HelloFirst, Server
  PROVE  HelloFirst'
<1>1. ServerMoves
  BY ServerSteps
<1>2. UNCHANGED <<pc, id>>
  BY <1>1 DEF ServerMoves, untouchedByServer, link
<1>3. CASE pc \in {"connecting", "send_hello"}
  <2>1. Unregistered /\ to_server = <<>> /\ on_message = <<>>
    BY <1>3 DEF HelloFirst
  <2>2. \A m : ~FirstSent(m) /\ ~Asks(m)
    BY <2>1 DEF FirstSent, Asks, Unregistered
  <2>3. \A a : ~Delivers(a)
    BY <2>1, <2>2 DEF Delivers, Unregistered
  <2>4. Unregistered' /\ UNCHANGED <<to_server, on_message>>
    BY <1>1, <2>1, <2>2, <2>3 DEF ServerMoves, Unregistered
  <2> QED
    BY <1>2, <1>3, <2>1, <2>4 DEF HelloFirst, Serving
<1>4. CASE pc = "hello"
  <2>1. /\ Unregistered /\ to_server \in Seq(HelloOut) /\ on_message \in Seq(HelloIn)
        /\ Len(to_server) + Len(on_message) <= 1
    BY <1>4 DEF HelloFirst
  <2>2. \A m : FirstSent(m) => m \in HelloOut
    BY <2>1 DEF FirstSent
  <2>3. \A m : FirstSent(m) => m.op = "Hello" /\ m.op \notin Registrations /\ ~AsksReply(m)
    BY <2>2 DEF HelloOut, Registrations, AsksReply
  <2>4. \A req : ~Asks(req)
    BY <2>1, <2>3 DEF Asks, Unregistered
  <2>5. Unregistered'
    BY <1>1, <2>1, <2>3, <2>4 DEF ServerMoves, Unregistered
  <2>6. HelloOut' = HelloOut /\ HelloIn' = HelloIn
    BY <1>2 DEF HelloOut, HelloIn
  <2>7. ASSUME NEW a \in Incoming, Delivers(a)
        PROVE  a \in HelloIn /\ to_server # <<>> /\ to_server' = Tail(to_server)
    BY <2>1, <2>2, <2>4, <2>7 DEF Delivers, HelloIn, HelloOut, Unregistered, FirstSent
  <2>8. \/ UNCHANGED <<to_server, on_message>>
        \/ /\ to_server # <<>> /\ to_server' = Tail(to_server)
           /\ \/ UNCHANGED on_message
              \/ \E a \in HelloIn : on_message' = Append(on_message, a)
    BY <1>1, <2>7 DEF ServerMoves
  <2>9. /\ to_server' \in Seq(HelloOut) /\ on_message' \in Seq(HelloIn)
        /\ Len(to_server') + Len(on_message') <= 1
    <3>1. CASE UNCHANGED <<to_server, on_message>>
      BY <2>1, <3>1
    <3>2. CASE to_server # <<>> /\ to_server' = Tail(to_server) /\ UNCHANGED on_message
      BY <2>1, <3>2
    <3>3. ASSUME NEW a \in HelloIn, on_message' = Append(on_message, a),
                 to_server # <<>>, to_server' = Tail(to_server)
          PROVE  /\ to_server' \in Seq(HelloOut) /\ on_message' \in Seq(HelloIn)
                 /\ Len(to_server') + Len(on_message') <= 1
      BY <2>1, <3>3
    <3> QED
      BY <2>8, <3>1, <3>2, <3>3
  <2> QED
    BY <1>2, <1>4, <2>5, <2>6, <2>9 DEF HelloFirst, Serving
<1>5. CASE pc \in Serving
  <2>1. to_server \in Seq(LaterOut) /\ on_message \in Seq(LaterIn)
    BY <1>5 DEF HelloFirst
  <2>2. \A m : FirstSent(m) => m.op # "Hello"
    BY <2>1 DEF FirstSent, LaterOut
  <2>3. \A a \in Incoming : Delivers(a) => a \in LaterIn
    BY <2>2 DEF Delivers, LaterIn
  <2>4. \/ UNCHANGED on_message
        \/ \E a \in LaterIn : on_message' = Append(on_message, a)
    BY <1>1, <2>3 DEF ServerMoves
  <2>5. to_server' \in Seq(LaterOut)
    BY <1>1, <2>1, SeqTypes DEF ServerMoves
  <2>6. on_message' \in Seq(LaterIn)
    BY <2>1, <2>4, SeqTypes
  <2>7. LaterOut' = LaterOut /\ LaterIn' = LaterIn
    BY DEF LaterOut, LaterIn
  <2> QED
    BY <1>2, <1>5, <2>5, <2>6, <2>7, Stage DEF HelloFirst
<1>6. CASE pc \notin {"connecting", "send_hello", "hello"} \cup Serving
  BY <1>2, <1>6 DEF HelloFirst
<1> QED
  BY <1>3, <1>4, <1>5, <1>6

LEMMA HelloTypes == \A m \in HelloIn : m.type \in {"hello", "hello_id"}
  BY DEF HelloIn

LEMMA NetworkKeepsHelloFirst ==
  ASSUME TypeInv, HelloFirst, Network, UNCHANGED serverVars
  PROVE  HelloFirst'
<1>1. UNCHANGED <<Unregistered, pc, id>>
  BY DEF Unregistered, serverVars, Network, Break, Mute, ReceiverCloses
<1>2. HelloOut' = HelloOut /\ HelloIn' = HelloIn /\ LaterOut' = LaterOut /\ LaterIn' = LaterIn
  BY <1>1 DEF HelloOut, HelloIn, LaterOut, LaterIn
<1>3. to_server' \in {to_server, <<>>}
  BY DEF Network, Break, Mute, ReceiverCloses, waits
<1>4. CASE pc \in {"connecting", "send_hello"}
  <2>0. Unregistered /\ to_server = <<>> /\ on_message = <<>>
    BY <1>4 DEF HelloFirst
  <2>1. Unregistered /\ to_server = <<>> /\ on_message \in Seq(HelloIn) /\ Len(on_message) <= 0
    BY <2>0
  <2>2. on_message' \in Seq(HelloIn) /\ Len(on_message') <= Len(on_message)
    BY <2>1, HelloTypes, NetworkQueues
  <2>3. on_message' = <<>>
    BY <2>1, <2>2, EmptyByLength
  <2> QED
    BY <1>1, <1>3, <1>4, <2>1, <2>3 DEF HelloFirst, Serving
<1>5. CASE pc = "hello"
  <2>1. /\ Unregistered /\ to_server \in Seq(HelloOut) /\ on_message \in Seq(HelloIn)
        /\ Len(to_server) + Len(on_message) <= 1
    BY <1>5 DEF HelloFirst
  <2>2. on_message' \in Seq(HelloIn) /\ Len(on_message') <= Len(on_message)
    BY <2>1, HelloTypes, NetworkQueues
  <2>3. to_server' \in Seq(HelloOut) /\ Len(to_server') <= Len(to_server)
    <3>1. CASE to_server' = to_server
      BY <2>1, <3>1
    <3>2. CASE to_server' = <<>>
      BY <2>1, <3>2
    <3> QED
      BY <1>3, <3>1, <3>2
  <2>4. Len(to_server') + Len(on_message') <= 1
    BY <2>1, <2>2, <2>3
  <2> QED
    BY <1>1, <1>2, <1>5, <2>1, <2>2, <2>3, <2>4 DEF HelloFirst, Serving
<1>6. CASE pc \in Serving
  <2>1. to_server \in Seq(LaterOut) /\ on_message \in Seq(LaterIn)
    BY <1>6 DEF HelloFirst
  <2>2. Fragment \in LaterIn
    BY DEF Fragment, LaterIn, Incoming
  <2>3. on_message' \in Seq(LaterIn)
    BY <2>1, <2>2, NetworkQueues
  <2>4. to_server' \in Seq(LaterOut)
    BY <1>3, <2>1, EmptyQueue
  <2> QED
    BY <1>1, <1>2, <1>6, <2>3, <2>4, Stage DEF HelloFirst
<1>7. CASE pc \notin {"connecting", "send_hello", "hello"} \cup Serving
  BY <1>1, <1>7 DEF HelloFirst
<1> QED
  BY <1>4, <1>5, <1>6, <1>7

LEMMA NextHelloFirst ==
  ASSUME TypeInv, TypeInv', HelloFirst, [Next]_vars
  PROVE  HelloFirst'
<1>1. CASE ActorCloses /\ ForgetConnection
  <2>1. pc' \in {"connecting", "exited"}
    BY <1>1 DEF ActorCloses, connect, BackoffExit
  <2>2. Unregistered' /\ to_server' = <<>> /\ on_message' = <<>>
    BY <1>1 DEF ActorCloses, connect, BackoffExit, cleanup_connection, clear_channels,
                ForgetConnection, Unregistered
  <2> QED
    BY <2>1, <2>2 DEF HelloFirst, Serving
<1>2. CASE UNCHANGED <<to_server, on_message, pc, id, srv_regs, srv_pending>>
  BY <1>2 DEF HelloFirst, Unregistered, HelloOut, HelloIn, LaterOut, LaterIn
<1>3. CASE Application /\ UNCHANGED serverVars
  BY <1>2, <1>3 DEF Application, Ask, reply, test_disconnect, exit, waits, link, serverVars
<1>4. CASE Finished \/ UNCHANGED vars
  BY <1>2, <1>4 DEF Finished, vars, clientVars, waits, link, serverVars
<1> QED
  BY <1>1, <1>3, <1>4, RunKeepsHelloFirst, NetworkKeepsHelloFirst, ServerKeepsHelloFirst
  DEF Next

LEMMA HelloInvariant == Spec => [](TypeInv /\ HelloFirst)
<1>1. Init => HelloFirst
  BY DEF Init, ClientInit, HelloFirst, Serving
<1>2. TypeInv /\ TypeInv' /\ HelloFirst /\ [Next]_vars => HelloFirst'
  BY NextHelloFirst
<1> QED
  BY <1>1, <1>2, TypeInvariant, PTL DEF Spec

(* The client keeps the id the server gave it: a later server hello never  *)
(* carries another one, because the client never says an anonymous hello   *)
(* again (handle_hello_message).                                           *)
THEOREM IdentityStays == Spec => IdentityKept
<1>1. ASSUME TypeInv, HelloFirst, [Next]_vars
      PROVE  id # None => id' = id
  <2>1. CASE ReadsInHello /\ UNCHANGED serverVars
    <3>1. Head(on_message) \in HelloIn
      BY <1>1, <2>1, HelloReadFirst
    <3>2. id' # id => Head(on_message).type = "hello_id"
      BY <2>1 DEF ReadsInHello, read_message, handle_hello_message
    <3> QED
      BY <3>1, <3>2 DEF HelloIn
  <2>2. ActorRuns => UNCHANGED id \/ ReadsInHello
    <3>1. CASE read_message
      BY <3>1 DEF read_message, ReadsInHello
    <3>2. CASE \/ BackoffExpires \/ close_fails \/ actorpp_connect \/ reregister_done
               \/ read_close \/ see_exit
               \/ read_ping_result \/ ping_timeout_expires \/ write_hello
               \/ \E step \in rereg : reregister_send(step) \/ check_result(step)
               \/ read_reply \/ idle_timeout \/ read_command
      BY <3>2
      DEF BackoffExpires, close_fails, actorpp_connect, reregister_done, read_close,
          see_exit, read_ping_result, ping_timeout_expires, write_hello, reregister_send, check_result, read_reply,
          idle_timeout, read_command, link
    <3> QED
      BY <3>1, <3>2 DEF ActorRuns, do_hello, wait_for_reply, loop
  <2>3. ActorCloses \/ Application \/ Network => UNCHANGED id
    BY DEF ActorCloses, connect, BackoffExit, untouched, Application, Ask, reply,
           test_disconnect, exit, Network, Break, Mute, ReceiverCloses, link
  <2>4. Server => UNCHANGED id
    BY <1>1, ServerSteps DEF ServerMoves, untouchedByServer, link
  <2>5. Finished \/ UNCHANGED vars => UNCHANGED id
    BY DEF Finished, vars, clientVars, link
  <2> QED
    BY <1>1, <2>1, <2>2, <2>3, <2>4, <2>5 DEF Next
<1>2. TypeInv /\ HelloFirst /\ [Next]_vars => [id # None => id' = id]_vars
  BY <1>1
<1> QED
  BY <1>2, HelloInvariant, PTL DEF Spec, IdentityKept

-----------------------------------------------------------------------------
(* No message is unexpected.  The server only knows registrations that the *)
(* client has, so what it pushes is for a path that is registered; only    *)
(* pings are answered to the ping channel, and pings succeed.              *)
Pushed == {"action_call", "event_notify", "state_changed"}

FitOut == {m \in Outgoing : /\ m.op \in Restorable => Wanted(m)
                            /\ AsksReply(m) /\ m.to = "ping" => m.op = "Ping"}
FitIn  == {m \in Incoming : /\ m.type \in Pushed => Registered(m)
                            /\ m.type = "reply" /\ m.to = "ping" => m.res = "Success"}

Agreed ==
  /\ \A s \in srv_regs \cup rereg : Wanted(s)
  /\ \A req \in srv_pending : req.to # "ping"
  /\ to_server \in Seq(FitOut) /\ on_message \in Seq(FitIn)

LEMMA StillFits ==
  ASSUME TypeInv, [Next]_vars
  PROVE  /\ \A s \in Steps : Wanted(s) => Wanted(s)'
         /\ FitOut \subseteq FitOut' /\ FitIn \subseteq FitIn'
<1>1. \A s : s.path \in Paths /\ Wanted(s) => Wanted(s)'
  BY RegistriesGrow DEF Wanted
<1>2. \A s \in Steps : Wanted(s) => Wanted(s)'
  BY <1>1 DEF Steps
<1>3. \A m \in Outgoing : m.op \in Restorable => m.path \in Paths
  BY OutgoingCases DEF Restorable, Registrations, AllOps
<1>4. \A m \in Incoming : m.type \in Pushed /\ Registered(m) => Registered(m)'
  BY RegistriesGrow, IncomingCases DEF Pushed, Registered
<1>5. FitOut \subseteq FitOut'
  BY <1>1, <1>3 DEF FitOut
<1>6. FitIn \subseteq FitIn'
  BY <1>4 DEF FitIn
<1> QED
  BY <1>2, <1>5, <1>6

LEMMA StepsWanted == \A s \in reregister_steps : Wanted(s)
  BY DEF reregister_steps, Wanted, Step

(* What is left to restore.                                                *)
LEMMA RunRereg ==
  ASSUME ActorRuns
  PROVE  rereg' \subseteq rereg \/ (ReadsInHello /\ rereg' = reregister_steps)
<1>1. CASE read_message
  BY <1>1 DEF read_message, ReadsInHello, handle_hello_message
<1>2. CASE \E step \in rereg : check_result(step)
  BY <1>2 DEF check_result
<1>3. CASE \/ BackoffExpires \/ close_fails \/ actorpp_connect \/ reregister_done
           \/ read_close \/ see_exit
           \/ read_ping_result \/ ping_timeout_expires \/ write_hello
           \/ \E step \in rereg : reregister_send(step)
           \/ read_reply \/ idle_timeout \/ read_command
  BY <1>3
  DEF BackoffExpires, close_fails, actorpp_connect, reregister_done, read_close,
      see_exit, read_ping_result, ping_timeout_expires, write_hello, reregister_send, read_reply, idle_timeout,
      read_command
<1> QED
  BY <1>1, <1>2, <1>3 DEF ActorRuns, do_hello, wait_for_reply, loop

LEMMA RunAgrees ==
  ASSUME TypeInv, TypeInv', Agreed, ActorRuns, UNCHANGED serverVars
  PROVE  Agreed'
<1>1. [Next]_vars
  BY DEF Next
<1>2. FitOut \subseteq FitOut' /\ FitIn \subseteq FitIn'
  BY <1>1, StillFits
<1>3. srv_regs \cup rereg \subseteq Steps /\ srv_regs' = srv_regs /\ srv_pending' = srv_pending
  BY DEF TypeInv, TypeOK, ActorTypeOK, ServerTypeOK, serverVars
<1>4. \A s \in srv_regs' : Wanted(s)'
  BY <1>1, <1>3, StillFits DEF Agreed
<1>5. \A s \in rereg' : Wanted(s)'
  <2>1. CASE rereg' \subseteq rereg
    BY <1>1, <1>3, <2>1, StillFits DEF Agreed
  <2>2. CASE ReadsInHello /\ rereg' = reregister_steps
    <3>1. \A s \in rereg' : Wanted(s)
      BY <2>2, StepsWanted
    <3>2. rereg' \subseteq Steps
      BY DEF TypeInv, TypeOK, ActorTypeOK
    <3> QED
      BY <1>1, <3>1, <3>2, StillFits
  <2> QED
    BY <2>1, <2>2, RunRereg
<1>6. to_server' \in Seq(FitOut')
  <2>1. to_server \in Seq(FitOut')
    BY <1>2, SeqMonotonic DEF Agreed
  <2>2. ASSUME write_hello PROVE Hello \in FitOut'
    <3>1. Hello.op = "Hello" /\ Hello \in Outgoing
      BY DEF Hello, Outgoing, TypeInv, TypeOK, ActorTypeOK
    <3> QED
      BY <3>1 DEF FitOut, Restorable, Registrations, AsksReply
  <2>3. \A m \in Outgoing : Sends(m) => m \in FitOut'
    <3>1. ASSUME NEW m \in Outgoing, Sends(m), m.op \in Restorable,
                 Step(m.op, m.path) \in rereg
          PROVE  Wanted(m)'
      <4>1. Wanted(Step(m.op, m.path))'
        BY <1>1, <1>3, <3>1, StillFits DEF Agreed
      <4> QED
        BY <4>1 DEF Wanted, Step
    <3> QED
      BY <3>1 DEF FitOut, Sends
  <2> QED
    BY <2>1, <2>2, <2>3, RunSends, SeqTypes, EmptyQueue
<1>7. on_message' \in Seq(FitIn')
  <2>1. on_message \in Seq(FitIn')
    BY <1>2, SeqMonotonic DEF Agreed
  <2> QED
    BY <2>1, RunReads, SeqTypes
<1> QED
  BY <1>3, <1>4, <1>5, <1>6, <1>7 DEF Agreed

LEMMA ServerAgrees ==
  ASSUME TypeInv, TypeInv', Agreed, Server
  PROVE  Agreed'
<1>1. ServerMoves
  BY ServerSteps
<1>2. UNCHANGED <<rereg, registries>>
  BY <1>1 DEF ServerMoves, untouchedByServer
<1>3. \A s : Wanted(s)' <=> Wanted(s)
  BY <1>2 DEF Wanted, registries
<1>4. FitOut' = FitOut
  BY <1>3 DEF FitOut
<1>5. FitIn' = FitIn
  BY <1>2 DEF FitIn, Registered, registries
<1>6. \A m : FirstSent(m) => m \in FitOut
  BY SeqTypes DEF FirstSent, Agreed
<1>7. \A s \in srv_regs' : Wanted(s)
  BY <1>1, <1>6 DEF ServerMoves, Agreed, FitOut, Restorable, Wanted, Step
<1>8. \A req : Asks(req) /\ req.to = "ping" => req.op = "Ping"
  BY <1>6 DEF Asks, Agreed, FitOut
<1>9. \A req \in srv_pending' : req.to # "ping"
  <2>1. \A req \in srv_pending' : req.op # "Ping"
    BY DEF TypeInv, TypeOK, ServerTypeOK, PendingRequests
  <2> QED
    BY <1>1, <1>8, <2>1 DEF ServerMoves
<1>10. \A a \in Incoming : Delivers(a) => a \in FitIn
  <2>1. ASSUME NEW a \in Incoming, Delivers(a), a.type \in Pushed
        PROVE  Registered(a)
    BY <2>1 DEF Delivers, Pushed, Agreed, Wanted, Step, Registered
  <2>2. ASSUME NEW a \in Incoming, Delivers(a), a.type = "reply", a.to = "ping"
        PROVE  a.res = "Success"
    BY <1>8, <2>2 DEF Delivers
  <2> QED
    BY <2>1, <2>2 DEF FitIn
<1>11. to_server' \in Seq(FitOut)
  BY <1>1, SeqTypes DEF ServerMoves, Agreed
<1>12. on_message' \in Seq(FitIn)
  BY <1>1, <1>10, SeqTypes DEF ServerMoves, Agreed
<1> QED
  BY <1>2, <1>3, <1>4, <1>5, <1>7, <1>9, <1>11, <1>12 DEF Agreed

LEMMA NextAgreed ==
  ASSUME TypeInv, TypeInv', Agreed, [Next]_vars
  PROVE  Agreed'
<1>1. FitOut \subseteq FitOut' /\ FitIn \subseteq FitIn'
  BY StillFits
<1>2. \A s \in srv_regs \cup rereg : Wanted(s)'
  BY StillFits DEF Agreed, TypeInv, TypeOK, ActorTypeOK, ServerTypeOK
<1>3. to_server \in Seq(FitOut') /\ on_message \in Seq(FitIn')
  BY <1>1, SeqMonotonic DEF Agreed
<1>4. ASSUME to_server' \in {to_server, <<>>}, UNCHANGED rereg,
             srv_regs' \subseteq srv_regs, srv_pending' \subseteq srv_pending,
             on_message' \in Seq(FitIn')
      PROVE  Agreed'
  BY <1>2, <1>3, <1>4, EmptyQueue DEF Agreed
<1>5. CASE ActorCloses /\ ForgetConnection
  BY <1>4, <1>5, EmptyQueue
  DEF ActorCloses, connect, BackoffExit, cleanup_connection, clear_channels,
      untouched, ForgetConnection
<1>6. CASE Application /\ UNCHANGED serverVars
  BY <1>3, <1>4, <1>6
  DEF Application, Ask, reply, test_disconnect, exit, waits, serverVars
<1>7. CASE Network /\ UNCHANGED serverVars
  <2>1. UNCHANGED <<rereg, registries>>
    BY <1>7 DEF Network, Break, Mute, ReceiverCloses, registries
  <2>2. FitIn' = FitIn
    BY <2>1 DEF FitIn, Registered, registries
  <2>3. Fragment \in FitIn
    BY DEF Fragment, FitIn, Incoming, Pushed
  <2>4. on_message' \in Seq(FitIn) /\ to_server' \in {to_server, <<>>}
    BY <1>7, <2>3, NetworkQueues DEF Agreed
  <2> QED
    BY <1>4, <1>7, <2>1, <2>2, <2>4 DEF serverVars
<1>8. CASE Finished \/ UNCHANGED vars
  BY <1>3, <1>4, <1>8 DEF Finished, vars, clientVars, waits, serverVars
<1> QED
  BY <1>5, <1>6, <1>7, <1>8, RunAgrees, ServerAgrees DEF Next

(* So, until an id is reused, only a message that was read from the middle *)
(* of stale bytes stops the actor.                                         *)
Explained ==
  \/ clash
  \/ /\ ping_result \in Seq({"Success"})
     /\ pc = "ProtocolError" => unpacker = "partial"

LEMMA ReadExplained ==
  ASSUME RequestInv, HelloFirst, Agreed, Explained, read_message,
         pc \in {"hello"} \cup Serving
  PROVE  Explained'
<1> SUFFICES ASSUME ~clash
             PROVE  /\ ping_result' \in Seq({"Success"})
                    /\ pc' = "ProtocolError" => unpacker' = "partial"
  BY DEF Explained, read_message, ids
<1> PICK m : m = Head(on_message)
  OBVIOUS
<1>1. m \in FitIn /\ m \in Incoming /\ ping_result \in Seq({"Success"})
  BY SeqTypes DEF Agreed, FitIn, Explained, read_message
<1>2. pc # "ProtocolError"
  BY DEF Serving
<1>3. CASE m.type = "fragment" \/ unpacker = "partial"
  BY <1>1, <1>2, <1>3 DEF read_message
<1>4. CASE pc = "hello" /\ handle_hello_message(m)
  <2>1. m.type \in {"hello", "hello_id"}
    BY <1>4, SeqTypes DEF HelloFirst, HelloIn, read_message
  <2>2. on_message' = <<>>
    BY <1>4, HelloReadAlone DEF ReadsInHello
  <2> QED
    BY <1>1, <1>4, <2>1, <2>2 DEF handle_hello_message
<1>5. CASE pc # "hello" /\ handle_push(m)
  <2>1. m.type \notin {"hello", "hello_id"}
    BY <1>5, SeqTypes DEF HelloFirst, LaterIn, read_message
  <2>2. CASE m.type = "fragment"
    BY <1>3, <2>2
  <2>3. CASE m.type # "fragment"
    <3>1. Registered(m)
      BY <1>1, <1>5, <2>1, <2>3, IncomingCases DEF FitIn, Pushed, handle_push
    <3> QED
      BY <1>1, <1>2, <1>5, <3>1 DEF handle_push
  <2> QED
    BY <2>2, <2>3
<1>6. CASE pc # "hello" /\ handle_reply(m)
  <2>1. Fits(reply_channels, m) /\ m.type = "reply"
    BY <1>6, FlightTypes, FlightRead
    DEF RequestInv, InFlight, handle_reply, IsReply, read_message
  <2>2. Expects(m) /\ reply_channels[m.id].to = m.to
    BY <2>1 DEF Fits, Expects
  <2>3. push_result(m.to, m) /\ UNCHANGED pc
    BY <1>6, <2>2 DEF handle_reply
  <2>4. m.to = "ping" => m.res = "Success"
    BY <1>1, <2>1 DEF FitIn
  <2>5. ping_result' \in Seq({"Success"})
    BY <1>1, <2>3, <2>4, SeqTypes DEF push_result
  <2> QED
    BY <1>2, <2>3, <2>5
<1> QED
  BY <1>3, <1>4, <1>5, <1>6 DEF read_message, handle_message

LEMMA RunExplained ==
  ASSUME RequestInv, HelloFirst, Agreed, Explained, ActorRuns
  PROVE  Explained'
<1>1. ASSUME pc' # "ProtocolError", UNCHANGED ping_result, clash => clash'
      PROVE  Explained'
  BY <1>1 DEF Explained
<1>2. CASE \/ BackoffExpires \/ close_fails \/ actorpp_connect \/ reregister_done
           \/ read_close \/ see_exit
           \/ ping_timeout_expires \/ \E step \in rereg : check_result(step)
  BY <1>1, <1>2
  DEF BackoffExpires, close_fails, actorpp_connect, reregister_done, read_close,
      see_exit, ping_timeout_expires, check_result, ids, waits
<1>3. CASE write_hello \/ (pc = "main" /\ read_reply)
  BY <1>1, <1>3 DEF write_hello, read_reply, send_send_buf, ids, waits
<1>4. CASE \E step \in rereg : reregister_send(step)
  BY <1>1, <1>4 DEF reregister_send, send_send_buf, await_reply
<1>5. CASE pc = "main" /\ idle_timeout
  BY <1>1, <1>5 DEF idle_timeout, send_send_buf, await_reply, waits
<1>6. CASE pc = "main" /\ read_command
  <2>1. CASE Disconnect
    BY <1>1, <1>6, <2>1 DEF Disconnect, read_command, ids
  <2>2. CASE Head(on_command) # "Disconnect" /\ IsCommand(Head(on_command))
    <3>1. PICK r : IsCommand(r)
      BY <2>2
    <3>2. pc' # "ProtocolError" /\ (clash => clash')
      BY <3>1, CommandSteps DEF send_send_buf, await_reply
    <3> QED
      BY <1>1, <1>6, <3>2 DEF read_command
  <2> QED
    BY <1>6, <2>1, <2>2 DEF read_command, IsCommand
<1>7. CASE pc = "main" /\ read_ping_result
  <2>1. CASE clash
    BY <1>7, <2>1 DEF read_ping_result, Explained, ids
  <2>2. CASE ping_result \in Seq({"Success"})
    <3>1. Head(ping_result) = "Success" /\ Tail(ping_result) \in Seq({"Success"})
      BY <1>7, <2>2, SeqTypes DEF read_ping_result
    <3> QED
      BY <1>7, <3>1 DEF read_ping_result, Explained
  <2> QED
    BY <2>1, <2>2 DEF Explained
<1>8. CASE pc \in {"hello"} \cup Serving /\ read_message
  BY <1>8, ReadExplained
<1> QED
  BY <1>2, <1>3, <1>4, <1>5, <1>6, <1>7, <1>8
  DEF ActorRuns, do_hello, wait_for_reply, loop, Serving

LEMMA NextExplained ==
  ASSUME RequestInv, HelloFirst, Agreed, Explained, [Next]_vars
  PROVE  Explained'
<1>1. CASE ActorCloses
  <2>1. ping_result' = <<>> /\ pc' # "ProtocolError"
    BY <1>1 DEF ActorCloses, connect, BackoffExit, cleanup_connection, clear_channels
  <2> QED
    BY <2>1, EmptyQueue DEF Explained
<1>2. CASE UNCHANGED <<pc, ping_result, clash, unpacker>>
  BY <1>2 DEF Explained
<1>3. CASE Application \/ Network
  BY <1>2, <1>3
  DEF Application, Ask, reply, test_disconnect, exit, Network, Break, Mute,
      ReceiverCloses, waits, ids
<1>4. CASE Server
  BY <1>2, <1>4, ServerSteps DEF RequestInv, ServerMoves, untouchedByServer, ids
<1>5. CASE Finished \/ UNCHANGED vars
  BY <1>2, <1>5 DEF Finished, vars, clientVars, waits, ids
<1> QED
  BY <1>1, <1>3, <1>4, <1>5, RunExplained DEF Next

AgreedInv == RequestInv /\ HelloFirst /\ Agreed /\ Explained

LEMMA AgreedInvariant == Spec => []AgreedInv
<1>1. Init => HelloFirst /\ Agreed /\ Explained
  BY EmptyQueue DEF Init, ClientInit, ServerInit, HelloFirst, Serving, Agreed, Explained
<1>2. /\ RequestInv /\ RequestInv' /\ HelloFirst /\ Agreed /\ Explained /\ [Next]_vars
      => HelloFirst' /\ Agreed' /\ Explained'
  BY NextHelloFirst, NextAgreed, NextExplained DEF RequestInv
<1> QED
  BY <1>1, <1>2, RequestInvariant, PTL DEF Spec, AgreedInv

(* ProtocolError ends the actor only after an id was reused while it was   *)
(* waited for, or after a cut-off message was left in the unpacker: every  *)
(* other message finds what handle_message() looks up for it, for any      *)
(* number of paths, requests and connections.                              *)
THEOREM ProtocolErrorsExplained == Spec => []ProtocolErrorExplained
<1>1. AgreedInv => ProtocolErrorExplained
  BY DEF AgreedInv, Explained, ProtocolErrorExplained
<1> QED
  BY <1>1, AgreedInvariant, PTL

-----------------------------------------------------------------------------
(* Restoring.  Of the steps of reregister() one at a time is under way:    *)
(* its request is on its way to the server, or the reply to it on its way  *)
(* back, or the result in rereg_result; and if the result is not an error  *)
(* the server has done the step.                                           *)
Done(s) ==
  IF s.op = "StateChanged" THEN srv_state[s.path] = registered_states[s.path]
                           ELSE s \in srv_regs

Restores(m, s) ==
  /\ m.op = s.op /\ m.path = s.path
  /\ s.op = "StateChanged" => m.value = registered_states[s.path]

NoReply(q) == \A i \in 1 .. Len(q) : ~IsReply(q[i])

Underway(s, place) ==
  /\ place # "out" => to_server = <<>>
  /\ Len(to_server) <= 1 /\ \A i \in 1 .. Len(to_server) : Restores(to_server[i], s)
  /\ place # "in" => NoReply(on_message)
  /\ \A i \in 1 .. Len(on_message) : IsReply(on_message[i]) =>
       /\ on_message[i].res # "Error" => Done(s)
       /\ \A j \in 1 .. Len(on_message) : IsReply(on_message[j]) => i = j
  /\ place # "result" => rereg_result = <<>>
  /\ Len(rereg_result) <= 1
  /\ \A i \in 1 .. Len(rereg_result) : rereg_result[i] # "Error" => Done(s)

FirstStep(s) == s \in rereg /\ \A other \in rereg \ {s} : Precedes(s, other)

Restoring ==
  pc \in {"reregister", "wait_for_reply"} =>
    /\ srv_pending = {}
    /\ \A s \in reregister_steps : s \in rereg \/ Done(s)
    /\ pc = "reregister" => to_server = <<>> /\ NoReply(on_message)
    /\ pc = "wait_for_reply" =>
         \E s \in rereg : \E place \in {"out", "in", "result"} :
           FirstStep(s) /\ Underway(s, place)

(* The order of the steps is one.                                          *)
LEMMA FirstStepUnique ==
  ASSUME TypeInv, NEW s, NEW t, FirstStep(s), FirstStep(t)
  PROVE  s = t
<1> SUFFICES ASSUME s # t PROVE FALSE
  OBVIOUS
<1>1. s \in Steps /\ t \in Steps
  BY DEF FirstStep, TypeInv, TypeOK, ActorTypeOK
<1>2. Precedes(s, t) /\ Precedes(t, s)
  BY DEF FirstStep
<1>3. /\ s.path \in Nat /\ t.path \in Nat
      /\ s.op \in Registrations \cup {"StateChanged"}
      /\ t.op \in Registrations \cup {"StateChanged"}
  BY <1>1, ClientAssumption DEF Steps
<1>4. LoopOf(s.op) \in 1 .. 5 /\ LoopOf(t.op) \in 1 .. 5
  BY <1>3 DEF LoopOf, Registrations
<1>5. LoopOf("StateRegister") = 2 /\ LoopOf("StateChanged") = 2
  BY DEF LoopOf
<1>6. PICK n, k : n = LoopOf(s.op) /\ k = LoopOf(t.op)
  OBVIOUS
<1> QED
  BY <1>2, <1>3, <1>4, <1>5, <1>6 DEF Precedes

(* What the server does to the step under way.                             *)
Responds(m, a) ==
  /\ FirstSent(m) /\ to_server' = Tail(to_server) /\ UNCHANGED srv_pending
  /\ a \in Incoming /\ a.type = "reply" /\ on_message' = Append(on_message, a)
  /\ m.op \in Registrations \cup {"StateChanged"}
  /\ m.op # "StateChanged" =>
       /\ UNCHANGED srv_state
       /\ a.res # "Error" => Step(m.op, m.path) \in srv_regs'
  /\ m.op = "StateChanged" =>
       /\ a.res # "Error" => srv_state'[m.path] = m.value
       /\ \A p \in Paths : p # m.path => srv_state'[p] = srv_state[p]

Unasked ==
  /\ UNCHANGED <<to_server, srv_pending, srv_state>>
  /\ \/ UNCHANGED on_message
     \/ \E a \in Incoming : a.type # "reply" /\ on_message' = Append(on_message, a)

LEMMA ServerResponds ==
  ASSUME TypeInv, Server
  PROVE  /\ srv_regs \subseteq srv_regs'
         /\ \/ Unasked
            \/ srv_pending # {}
            \/ \E m : FirstSent(m) /\ m.op \notin Registrations \cup {"StateChanged"}
            \/ \E m, a : Responds(m, a)
<1>1. ASSUME NEW m, NEW res \in Results, Receives(m), Deliver(Answer(m, res)),
             m.op \in Registrations \cup {"StateChanged"}
      PROVE  \E a \in Incoming : /\ a.type = "reply" /\ a.res = res /\ FirstSent(m)
                                 /\ to_server' = Tail(to_server)
                                 /\ on_message' = Append(on_message, a)
  <2>1. PICK a : a = Answer(m, res)
    OBVIOUS
  <2>2. m \in Outgoing /\ m.op \in AllOps
    BY <1>1, ReceivesTypes DEF Registrations, AllOps
  <2>3. m.id \in Ids /\ m.to \in Chans
    BY <2>2, OutgoingCases
  <2>4. a \in Incoming /\ a.type = "reply" /\ a.res = res
    BY <2>1, <2>3 DEF Answer, Incoming
  <2> QED
    BY <1>1, <2>1, <2>4 DEF Deliver, Receives, FirstSent
<1>2. "Success" \in Results /\ "Error" \in Results /\ StateVals \subseteq Results
  BY DEF Results
<1>3. CASE ServerReceives
  <2>1. PICK m : \/ ServerHello(m) \/ ServerPing(m) \/ ServerAccepts(m) \/ ServerRefuses(m)
                 \/ ServerStateChanged(m) \/ ServerPostpones(m) \/ ServerGetsReply(m)
    BY <1>3 DEF ServerReceives
  <2>2. CASE ServerHello(m) \/ ServerPing(m) \/ ServerPostpones(m) \/ ServerGetsReply(m)
    <3>1. /\ FirstSent(m) /\ m.op \in {"Hello", "Ping", "ActionCall", "EventEmit", "Get",
                                       "Set", "Reply"}
          /\ UNCHANGED srv_regs
      BY <2>2 DEF ServerHello, ServerPing, ServerPostpones, ServerGetsReply, Receives,
                  FirstSent
    <3> QED
      BY <3>1 DEF Registrations
  <2>3. CASE ServerAccepts(m)
    <3>1. m \in Outgoing /\ m.op \in AllOps
      BY <2>3, ReceivesTypes DEF ServerAccepts, Registrations, AllOps
    <3>2. m.op = "StateObserve" => world[m.path] \in Results
      BY <1>2, <3>1, OutgoingCases DEF TypeInv, TypeOK, ServerTypeOK
    <3>3. PICK res \in Results : Deliver(Answer(m, res))
      BY <1>2, <2>3, <3>2 DEF ServerAccepts
    <3>4. PICK a \in Incoming : /\ a.type = "reply" /\ FirstSent(m)
                                /\ to_server' = Tail(to_server)
                                /\ on_message' = Append(on_message, a)
      BY <1>1, <2>3, <3>3 DEF ServerAccepts
    <3>5. m.op # "StateChanged" /\ m.op \in Registrations
      BY <2>3 DEF ServerAccepts, Registrations
    <3>6. Responds(m, a)
      BY <2>3, <3>4, <3>5 DEF ServerAccepts, Responds
    <3> QED
      BY <2>3, <3>6 DEF ServerAccepts
  <2>4. CASE ServerRefuses(m)
    <3>1. PICK a \in Incoming : /\ a.type = "reply" /\ a.res = "Error" /\ FirstSent(m)
                                /\ to_server' = Tail(to_server)
                                /\ on_message' = Append(on_message, a)
      BY <1>1, <1>2, <2>4 DEF ServerRefuses
    <3>2. m.op # "StateChanged" /\ m.op \in Registrations
      BY <2>4 DEF ServerRefuses, Registrations
    <3>3. Responds(m, a)
      BY <2>4, <3>1, <3>2 DEF ServerRefuses, Responds
    <3> QED
      BY <2>4, <3>3 DEF ServerRefuses
  <2>5. CASE ServerStateChanged(m)
    <3>1. m \in Outgoing /\ m.op = "StateChanged" /\ Receives(m) /\ UNCHANGED <<srv_regs, srv_pending>>
      BY <2>5, ReceivesTypes DEF ServerStateChanged
    <3>2. m.path \in Paths /\ srv_state \in [Paths -> StateVals]
      BY <3>1, OutgoingCases DEF AllOps, TypeInv, TypeOK, ServerTypeOK
    <3>3. CASE srv_state' = [srv_state EXCEPT ![m.path] = m.value] /\ Deliver(Answer(m, "Success"))
      <4>1. PICK a \in Incoming : /\ a.type = "reply" /\ FirstSent(m)
                                  /\ to_server' = Tail(to_server)
                                  /\ on_message' = Append(on_message, a)
        BY <1>1, <1>2, <3>1, <3>3
      <4>2. Responds(m, a)
        BY <3>1, <3>2, <3>3, <4>1 DEF Responds
      <4> QED
        BY <3>1, <4>2
    <3>4. CASE UNCHANGED srv_state /\ Deliver(Answer(m, "Error"))
      <4>1. PICK a \in Incoming : /\ a.type = "reply" /\ a.res = "Error" /\ FirstSent(m)
                                  /\ to_server' = Tail(to_server)
                                  /\ on_message' = Append(on_message, a)
        BY <1>1, <1>2, <3>1, <3>4
      <4>2. Responds(m, a)
        BY <3>1, <3>4, <4>1 DEF Responds
      <4> QED
        BY <3>1, <4>2
    <3> QED
      BY <2>5, <3>3, <3>4 DEF ServerStateChanged
  <2> QED
    BY <2>1, <2>2, <2>3, <2>4, <2>5
<1>4. CASE \E req \in srv_pending : ServerAnswers(req)
  <2>1. PICK req \in srv_pending : ServerAnswers(req)
    BY <1>4
  <2>2. UNCHANGED srv_regs /\ srv_pending # {}
    BY <2>1 DEF ServerAnswers
  <2> QED
    BY <2>2
<1>5. ASSUME NEW path \in Paths, NEW num \in CallIds, ServerCalls(num, path)
      PROVE  Unasked /\ UNCHANGED srv_regs
  <2>1. PICK a : a = [type |-> "action_call", id |-> num, path |-> path]
    OBVIOUS
  <2>2. a \in Incoming /\ a.type # "reply"
    BY <2>1 DEF Incoming
  <2> QED
    BY <1>5, <2>1, <2>2 DEF ServerCalls, Pushes, Deliver, Unasked
<1>6. ASSUME NEW path \in Paths, ServerNotifies(path)
      PROVE  Unasked /\ UNCHANGED srv_regs
  <2>1. PICK a : a = [type |-> "event_notify", path |-> path]
    OBVIOUS
  <2>2. a \in Incoming /\ a.type # "reply"
    BY <2>1 DEF Incoming
  <2> QED
    BY <1>6, <2>1, <2>2 DEF ServerNotifies, Pushes, Deliver, Unasked
<1>7. ASSUME NEW path \in Paths, NEW value \in StateVals, WorldChanges(path, value)
      PROVE  Unasked /\ UNCHANGED srv_regs
  <2>1. PICK a : a = [type |-> "state_changed", path |-> path, value |-> value]
    OBVIOUS
  <2>2. a \in Incoming /\ a.type # "reply"
    BY <2>1 DEF Incoming
  <2> QED
    BY <1>7, <2>1, <2>2 DEF WorldChanges, Deliver, Unasked
<1> QED
  BY <1>3, <1>4, <1>5, <1>6, <1>7 DEF Server

LEMMA ServerRestores ==
  ASSUME TypeInv, Restoring, Server
  PROVE  Restoring'
<1> SUFFICES ASSUME pc' \in {"reregister", "wait_for_reply"}
             PROVE  Restoring'
  BY DEF Restoring
<1>1. UNCHANGED untouchedByServer
  BY ServerSteps DEF ServerMoves
<1>2. UNCHANGED <<pc, rereg, rereg_result, registered_states>>
  BY <1>1 DEF untouchedByServer, registries
<1>3. reregister_steps' = reregister_steps /\ \A s : FirstStep(s)' <=> FirstStep(s)
  BY <1>1 DEF untouchedByServer, registries, reregister_steps, FirstStep
<1>4. /\ srv_pending = {} /\ \A s \in reregister_steps : s \in rereg \/ Done(s)
      /\ pc = "reregister" => to_server = <<>> /\ NoReply(on_message)
      /\ pc = "wait_for_reply" =>
           \E s \in rereg : \E place \in {"out", "in", "result"} :
             FirstStep(s) /\ Underway(s, place)
  BY <1>2 DEF Restoring
<1>5. to_server \in Seq(Outgoing) /\ on_message \in Seq(Incoming)
  BY FlightTypes
<1>6. CASE Unasked
  <2>1. UNCHANGED <<to_server, srv_pending, srv_state>>
    BY <1>6 DEF Unasked
  <2>2. \A s : Done(s) => Done(s)'
    BY <1>2, <2>1, ServerResponds DEF Done
  <2>3. CASE UNCHANGED on_message
    <3>1. \A s, place : Underway(s, place) => Underway(s, place)'
      BY <1>2, <2>1, <2>2, <2>3 DEF Underway, Restores, NoReply
    <3> QED
      BY <1>2, <1>3, <1>4, <2>1, <2>2, <2>3, <3>1 DEF Restoring, NoReply
  <2>4. ASSUME NEW a \in Incoming, a.type # "reply", on_message' = Append(on_message, a)
        PROVE  Restoring'
    <3>1. \A i \in 1 .. Len(on_message') : IsReply(on_message'[i]) =>
            i \in 1 .. Len(on_message) /\ on_message'[i] = on_message[i]
      BY <1>5, <2>4, AppendElements DEF IsReply
    <3>2. NoReply(on_message) => NoReply(on_message')
      BY <3>1 DEF NoReply
    <3>3. \A s, place : Underway(s, place) => Underway(s, place)'
      BY <1>2, <2>1, <2>2, <3>1, <3>2 DEF Underway, Restores
    <3> QED
      BY <1>2, <1>3, <1>4, <2>1, <2>2, <3>2, <3>3 DEF Restoring
  <2> QED
    BY <1>6, <2>3, <2>4 DEF Unasked
<1>7. ASSUME NEW m, NEW a, FirstSent(m),
             Responds(m, a) \/ m.op \notin Registrations \cup {"StateChanged"}
      PROVE  Restoring'
  <2>1. pc = "wait_for_reply" /\ to_server # <<>> /\ m = to_server[1] /\ 1 \in 1 .. Len(to_server)
    BY <1>2, <1>4, <1>5, <1>7, TailElements DEF FirstSent
  <2>2. PICK s \in rereg : FirstStep(s) /\ Underway(s, "out")
    BY <1>4, <2>1 DEF Underway
  <2>3. s \in Steps /\ Restores(m, s)
    BY <2>1, <2>2 DEF Underway, TypeInv, TypeOK, ActorTypeOK
  <2>4. Responds(m, a) /\ s.path \in Paths /\ s = Step(s.op, s.path)
    BY <1>7, <2>3 DEF Restores, Steps, Step
  <2>5. to_server' = <<>>
    <3>1. Len(to_server) <= 1
      BY <2>2 DEF Underway
    <3>2. to_server' \in Seq(Outgoing) /\ Len(to_server') = Len(to_server) - 1 /\ Len(to_server) \in Nat
      BY <1>5, <2>1, <2>4, TailElements, SeqTypes DEF Responds
    <3> QED
      BY <3>1, <3>2, EmptyByLength
  <2>6. NoReply(on_message) /\ rereg_result = <<>>
    BY <2>2 DEF Underway
  <2>7. a.res # "Error" => Done(s)'
    BY <1>2, <2>3, <2>4 DEF Responds, Restores, Done
  <2>8. \A t \in reregister_steps : t # s /\ Done(t) => Done(t)'
    <3>1. ASSUME NEW t \in reregister_steps, t # s, Done(t), t.op # "StateChanged"
          PROVE  Done(t)'
      BY <3>1, ServerResponds DEF Done
    <3>2. ASSUME NEW t \in reregister_steps, t # s, Done(t), t.op = "StateChanged"
          PROVE  Done(t)'
      <4>1. t = Step(t.op, t.path) /\ t.path \in Paths
        BY <3>2 DEF reregister_steps, Step
      <4>2. m.op = "StateChanged" => t.path # m.path
        BY <2>3, <2>4, <3>2, <4>1 DEF Restores
      <4>3. srv_state'[t.path] = srv_state[t.path]
        BY <2>4, <4>1, <4>2 DEF Responds
      <4> QED
        BY <1>2, <3>2, <4>3 DEF Done
    <3> QED
      BY <3>1, <3>2
  <2>9. Underway(s, "in")'
    <3>1. /\ a \in Incoming /\ IsReply(a) /\ on_message' = Append(on_message, a)
      BY <2>4 DEF Responds, IsReply
    <3>2. \A i \in 1 .. Len(on_message') :
            IsReply(on_message'[i]) => i = Len(on_message) + 1 /\ on_message'[i] = a
      BY <1>5, <2>6, <3>1, AppendElements DEF NoReply
    <3>3. Len(<<>>) = 0
      OBVIOUS
    <3> QED
      BY <1>2, <2>5, <2>6, <2>7, <3>2, <3>3 DEF Underway
  <2>10. \A t \in reregister_steps' : t \in rereg' \/ Done(t)'
    BY <1>2, <1>3, <1>4, <2>8
  <2>11. srv_pending' = {}
    BY <1>4, <2>4 DEF Responds
  <2> QED
    BY <1>2, <1>3, <2>1, <2>2, <2>9, <2>10, <2>11 DEF Restoring
<1> QED
  <2>1. \A m, a : Responds(m, a) => FirstSent(m)
    BY DEF Responds
  <2> QED
    BY <1>4, <1>6, <1>7, <2>1, ServerResponds

(* What reading a message does to the step under way.                      *)
LEMMA ReadRestores ==
  ASSUME TypeInv, Restoring, pc = "wait_for_reply", read_message, UNCHANGED serverVars
  PROVE  Restoring'
<1>1. UNCHANGED <<to_server, registries, rereg, srv_regs, srv_state, srv_pending>>
  BY DEF read_message, serverVars
<1>2. /\ reregister_steps' = reregister_steps /\ \A s : FirstStep(s)' <=> FirstStep(s)
      /\ \A s : Done(s)' <=> Done(s)
  BY <1>1 DEF registries, reregister_steps, FirstStep, Done
<1>3. pc' \in {"wait_for_reply", "ProtocolError"}
  BY DEF read_message, handle_message, handle_reply, handle_push
<1>4. PICK s \in rereg, place \in {"out", "in", "result"} :
        FirstStep(s) /\ Underway(s, place)
  BY DEF Restoring
<1>5. PICK m : m = Head(on_message)
  OBVIOUS
<1>6. /\ on_message \in Seq(Incoming) /\ on_message # <<>> /\ on_message' = Tail(on_message)
      /\ m = on_message[1] /\ 1 \in 1 .. Len(on_message)
      /\ Len(on_message') = Len(on_message) - 1 /\ Len(on_message) \in Nat
      /\ \A i \in 1 .. Len(on_message') :
           i + 1 \in 1 .. Len(on_message) /\ on_message'[i] = on_message[i + 1]
  BY <1>5, FlightTypes, TailElements DEF read_message
<1>7. ASSUME NEW t, Underway(s, t)', t \in {"out", "in", "result"}
      PROVE  Restoring'
  <2>1. srv_pending' = {} /\ \A r \in reregister_steps' : r \in rereg' \/ Done(r)'
    BY <1>1, <1>2 DEF Restoring
  <2> QED
    BY <1>1, <1>2, <1>3, <1>4, <1>7, <2>1 DEF Restoring
<1>8. CASE UNCHANGED rereg_result
  <2>1. \A i \in 1 .. Len(on_message') :
          IsReply(on_message'[i]) => \A j \in 1 .. Len(on_message') :
             IsReply(on_message'[j]) => i = j
    <3>1. ASSUME NEW i \in 1 .. Len(on_message'), NEW j \in 1 .. Len(on_message'),
                 IsReply(on_message'[i]), IsReply(on_message'[j])
          PROVE  i = j
      <4>1. i + 1 = j + 1 /\ i \in Nat /\ j \in Nat
        BY <1>4, <1>6, <3>1 DEF Underway
      <4> QED
        BY <4>1
    <3> QED
      BY <3>1
  <2>2. NoReply(on_message) => NoReply(on_message')
    BY <1>6 DEF NoReply
  <2>3. \A i \in 1 .. Len(on_message') :
          IsReply(on_message'[i]) /\ on_message'[i].res # "Error" => Done(s)
    BY <1>4, <1>6 DEF Underway
  <2>4. Underway(s, place)'
    BY <1>1, <1>2, <1>4, <1>8, <2>1, <2>2, <2>3 DEF Underway, Restores, registries
  <2> QED
    BY <1>7, <2>4
<1>9. CASE handle_reply(m) /\ rereg_result' = Append(rereg_result, m.res)
  <2>1. IsReply(m) /\ m.res \in Results
    <3>1. m \in Incoming
      BY <1>6, SeqTypes
    <3> QED
      BY <1>9, <3>1, IncomingCases DEF handle_reply, IsReply
  <2>2. place = "in"
    BY <1>4, <1>6, <2>1 DEF Underway, NoReply
  <2>3. to_server = <<>> /\ rereg_result = <<>> /\ (m.res # "Error" => Done(s))
    BY <1>4, <1>6, <2>1, <2>2 DEF Underway
  <2>4. NoReply(on_message')
    <3>1. ASSUME NEW i \in 1 .. Len(on_message'), IsReply(on_message'[i])
          PROVE  FALSE
      <4>1. 1 = i + 1 /\ i \in Nat /\ i >= 1
        BY <1>4, <1>6, <2>1, <3>1 DEF Underway
      <4> QED
        BY <4>1
    <3> QED
      BY <3>1 DEF NoReply
  <2>5. Len(rereg_result') = 1 /\ rereg_result'[1] = m.res
    BY <1>9, <2>3, FirstResult
  <2>6. \A i \in 1 .. Len(rereg_result') : rereg_result'[i] = m.res
    BY <2>5
  <2>7. Len(<<>>) = 0
    OBVIOUS
  <2>8. Underway(s, "result")'
    BY <1>1, <1>2, <2>3, <2>4, <2>5, <2>6, <2>7 DEF Underway, NoReply
  <2> QED
    BY <1>7, <2>8
<1> QED
  BY <1>5, <1>8, <1>9 DEF read_message, handle_message, handle_reply, handle_push,
                          push_result

LEMMA RunRestores ==
  ASSUME TypeInv, HelloFirst, Restoring, ActorRuns, UNCHANGED serverVars
  PROVE  Restoring'
<1> SUFFICES ASSUME pc' \in {"reregister", "wait_for_reply"}
             PROVE  Restoring'
  BY DEF Restoring
<1>1. UNCHANGED <<srv_regs, srv_state, srv_pending>>
  BY DEF serverVars
<1>2. CASE ReadsInHello
  <2>1. /\ Unregistered' /\ to_server' = <<>> /\ on_message' = <<>> /\ pc' = "reregister"
    BY <1>2, HelloReadFirst
  <2>2. rereg' = reregister_steps /\ UNCHANGED registries
    BY <1>2, <2>1 DEF ReadsInHello, read_message, handle_hello_message
  <2>3. reregister_steps' = reregister_steps
    BY <2>2 DEF registries, reregister_steps
  <2>4. NoReply(on_message')
    <3>1. Len(<<>>) = 0
      OBVIOUS
    <3> QED
      BY <2>1, <3>1 DEF NoReply
  <2> QED
    BY <2>1, <2>2, <2>3, <2>4 DEF Restoring, Unregistered
<1>3. CASE pc = "wait_for_reply" /\ read_message
  BY <1>3, ReadRestores
<1>4. CASE pc = "wait_for_reply" /\ \E step \in rereg : check_result(step)
  <2>1. PICK step \in rereg : check_result(step)
    BY <1>4
  <2>2. PICK s \in rereg, place \in {"out", "in", "result"} :
          FirstStep(s) /\ Underway(s, place)
    BY <1>4 DEF Restoring
  <2>3. s = step
    BY <2>1, <2>2, FirstStepUnique DEF check_result, FirstStep
  <2>4. rereg_result # <<>> /\ place = "result"
    BY <2>1, <2>2 DEF check_result, Underway
  <2>5. to_server = <<>> /\ NoReply(on_message)
    BY <2>2, <2>4 DEF Underway
  <2>6. Head(rereg_result) = rereg_result[1] /\ 1 \in 1 .. Len(rereg_result)
    BY <2>4, TailElements DEF TypeInv, TypeOK, ChannelTypeOK
  <2>7. Head(rereg_result) # "Error"
    BY <2>1, ClientAssumption DEF check_result, check_success, HandleStateReply, StateVals, Unknown
  <2>8. Done(s)
    BY <2>2, <2>6, <2>7 DEF Underway
  <2>9. /\ pc' = "reregister" /\ rereg' = rereg \ {s}
        /\ UNCHANGED <<registries, to_server, on_message>>
    BY <2>1, <2>3 DEF check_result
  <2>10. reregister_steps' = reregister_steps /\ \A t : Done(t)' <=> Done(t)
    BY <1>1, <2>9 DEF registries, reregister_steps, Done
  <2> QED
    BY <1>1, <1>4, <2>5, <2>8, <2>9, <2>10 DEF Restoring
<1>5. CASE \E step \in rereg : reregister_send(step)
  <2>1. PICK s \in rereg : reregister_send(s)
    BY <1>5
  <2>2. PICK m : m = RestoreMessage(s)
    OBVIOUS
  <2>3. Restores(m, s) /\ m \in Outgoing
    BY <2>2, RestoreMessageType DEF RestoreMessage, Request, Restores
  <2>4. /\ pc = "reregister" /\ pc' = "wait_for_reply" /\ rereg_result' = <<>>
        /\ UNCHANGED <<rereg, registries, on_message>> /\ FirstStep(s)
        /\ to_server' \in {to_server, Append(to_server, m)}
    BY <2>1, <2>2 DEF reregister_send, send_send_buf, RestoreMessage, FirstStep
  <2>5. to_server = <<>> /\ NoReply(on_message)
    BY <2>4 DEF Restoring
  <2>6. Len(to_server') <= 1 /\ \A i \in 1 .. Len(to_server') : to_server'[i] = m
    <3>1. Len(<<>>) = 0
      OBVIOUS
    <3>2. to_server' # <<>> => Len(to_server') = 1 /\ to_server'[1] = m
      BY <2>4, <2>5, FirstResult
    <3> QED
      BY <3>1, <3>2
  <2>7. reregister_steps' = reregister_steps /\ \A t : Done(t)' <=> Done(t)
    BY <1>1, <2>4 DEF registries, reregister_steps, Done
  <2>8. Underway(s, "out")'
    <3>1. Len(<<>>) = 0
      OBVIOUS
    <3>2. Restores(m, s)'
      BY <2>3, <2>4 DEF Restores, registries
    <3>3. NoReply(on_message')
      BY <2>4, <2>5
    <3> QED
      BY <2>4, <2>6, <3>1, <3>2, <3>3 DEF Underway, NoReply, Restores
  <2>9. FirstStep(s)' /\ s \in rereg'
    BY <2>1, <2>4 DEF FirstStep
  <2> QED
    BY <1>1, <2>4, <2>7, <2>8, <2>9 DEF Restoring
<1> QED
  BY <1>2, <1>3, <1>4, <1>5, RunStages

LEMMA NetworkRestores ==
  ASSUME TypeInv, Restoring, Network, UNCHANGED serverVars
  PROVE  Restoring'
<1> SUFFICES ASSUME pc' \in {"reregister", "wait_for_reply"}
             PROVE  Restoring'
  BY DEF Restoring
<1>1. UNCHANGED <<pc, rereg, rereg_result, registries, srv_regs, srv_state, srv_pending>>
  BY DEF Network, Break, Mute, ReceiverCloses, waits, serverVars
<1>2. /\ reregister_steps' = reregister_steps /\ \A s : FirstStep(s)' <=> FirstStep(s)
      /\ \A s : Done(s)' <=> Done(s)
  BY <1>1 DEF registries, reregister_steps, FirstStep, Done
<1>3. to_server' \in {to_server, <<>>}
  BY DEF Network, Break, Mute, ReceiverCloses, waits
<1>4. \A i \in 1 .. Len(on_message') : IsReply(on_message'[i]) =>
        i \in 1 .. Len(on_message) /\ on_message'[i] = on_message[i]
  <2>1. CASE UNCHANGED on_message
    BY <2>1
  <2>2. CASE Break
    <3>1. PICK n \in 0 .. Len(on_message) :
            \/ on_message' = SubSeq(on_message, 1, n)
            \/ on_message' = Append(SubSeq(on_message, 1, n), Fragment)
      BY <2>2 DEF Break, Fragment
    <3>2. on_message \in Seq(Incoming) /\ Fragment \in Incoming /\ ~IsReply(Fragment)
      BY FlightTypes DEF Fragment, Incoming, IsReply
    <3>3. /\ SubSeq(on_message, 1, n) \in Seq(Incoming) /\ Len(SubSeq(on_message, 1, n)) = n
          /\ \A i \in 1 .. n :
               i \in 1 .. Len(on_message) /\ SubSeq(on_message, 1, n)[i] = on_message[i]
      BY <3>2
    <3> QED
      BY <3>1, <3>2, <3>3, AppendElements
  <2> QED
    BY <2>1, <2>2 DEF Network, Mute, ReceiverCloses, waits
<1>5. NoReply(on_message) => NoReply(on_message')
  BY <1>4 DEF NoReply
<1>6. Len(<<>>) = 0
  OBVIOUS
<1>7. \A s, place : Underway(s, place) => Underway(s, place)'
  BY <1>1, <1>2, <1>3, <1>4, <1>5, <1>6 DEF Underway, Restores, registries
<1> QED
  BY <1>1, <1>2, <1>3, <1>5, <1>7 DEF Restoring

LEMMA NextRestores ==
  ASSUME TypeInv, HelloFirst, Restoring, [Next]_vars
  PROVE  Restoring'
<1>1. CASE ActorCloses
  BY <1>1 DEF ActorCloses, connect, BackoffExit, Restoring
<1>2. CASE UNCHANGED <<pc, to_server, on_message, rereg, rereg_result, registries,
                       srv_regs, srv_state, srv_pending>>
  <2>1. /\ reregister_steps' = reregister_steps /\ \A s : FirstStep(s)' <=> FirstStep(s)
        /\ \A s : Done(s)' <=> Done(s)
    BY <1>2 DEF registries, reregister_steps, FirstStep, Done
  <2>2. \A s, place : Underway(s, place) => Underway(s, place)'
    BY <1>2, <2>1 DEF Underway, Restores, NoReply, registries
  <2> QED
    BY <1>2, <2>1, <2>2 DEF Restoring, NoReply
<1>3. CASE Application /\ UNCHANGED serverVars
  BY <1>2, <1>3 DEF Application, Ask, reply, test_disconnect, exit, waits, serverVars
<1>4. CASE Finished \/ UNCHANGED vars
  BY <1>2, <1>4 DEF Finished, vars, clientVars, waits, serverVars
<1> QED
  BY <1>1, <1>3, <1>4, RunRestores, NetworkRestores, ServerRestores DEF Next

LEMMA RestoringInvariant == Spec => [](TypeInv /\ Restoring)
<1>1. Init => Restoring
  BY DEF Init, ClientInit, Restoring
<1>2. TypeInv /\ HelloFirst /\ Restoring /\ [Next]_vars => Restoring'
  BY NextRestores
<1> QED
  BY <1>1, <1>2, HelloInvariant, PTL DEF Spec

(* When loop() begins to serve commands the server has every registration  *)
(* of the client and the last value of each of its states: reregister()    *)
(* goes on to the next step only after the reply to the one before.        *)
THEOREM MainIsRestored == Spec => MainMeansRestored
<1>1. ASSUME TypeInv, Restoring, [Next]_vars, pc = "reregister", pc' = "main"
      PROVE  /\ \A s \in reregister_steps : s.op # "StateChanged" => s \in srv_regs
             /\ \A p \in Paths : registered_states[p] # None =>
                                   srv_state[p] = registered_states[p]
  <2>1. ActorRuns
    <3>1. Server => UNCHANGED pc
      BY <1>1, ServerSteps DEF ServerMoves, untouchedByServer
    <3> QED
      BY <1>1, <3>1
      DEF Next, Finished, vars, clientVars, ActorCloses, connect, BackoffExit,
          Application, Ask, reply, test_disconnect, exit, Network, Break, Mute,
          ReceiverCloses
  <2>2. rereg = {}
    BY <1>1, <2>1, RunStages DEF reregister_done
  <2>3. \A s \in reregister_steps : Done(s)
    BY <1>1, <2>2 DEF Restoring
  <2>4. ASSUME NEW p \in Paths, registered_states[p] # None
        PROVE  srv_state[p] = registered_states[p]
    <3>1. Step("StateChanged", p) \in reregister_steps
      BY <2>4 DEF reregister_steps
    <3> QED
      BY <2>3, <3>1 DEF Done, Step
  <2> QED
    BY <2>3, <2>4 DEF Done
<1>2. TypeInv /\ Restoring /\ [Next]_vars =>
        [pc = "reregister" /\ pc' = "main" /\ sock = "up" =>
           /\ \A s \in reregister_steps : s.op # "StateChanged" => s \in srv_regs
           /\ \A p \in Paths : registered_states[p] # None =>
                                 srv_state[p] = registered_states[p]]_vars
  BY <1>1
<1> QED
  BY <1>2, RestoringInvariant, PTL DEF Spec, MainMeansRestored

-----------------------------------------------------------------------------
(* Observers while a connection is set up.  Nothing reaches the observer   *)
(* of a path before reregister() has asked for it on this connection.      *)
NotAsked(p) == {m \in Outgoing : ~(m.op = "StateObserve" /\ m.path = p)}
NotTold(p)  == {m \in Incoming : ~(m.type = "state_changed" /\ m.path = p)}

Silent(p) ==
  /\ view[p] = <<Unknown>> /\ Step("StateObserve", p) \notin srv_regs
  /\ to_server \in Seq(NotAsked(p)) /\ on_message \in Seq(NotTold(p))

AskedLater(p) ==
  \/ pc \in {"connecting", "send_hello", "hello"}
  \/ pc = "reregister" /\ Step("StateObserve", p) \in rereg
  \/ /\ pc = "wait_for_reply" /\ Step("StateObserve", p) \in rereg
     /\ ~FirstStep(Step("StateObserve", p))

Forgetting == \A p \in Paths : observed_states[p] # None /\ AskedLater(p) => Silent(p)

(* A step of the actor asks the observed paths in turn.                    *)
LEMMA RunAsksLater ==
  ASSUME TypeInv, ActorRuns, NEW p \in Paths, AskedLater(p)'
  PROVE  /\ ReadsInHello \/ AskedLater(p)
         /\ UNCHANGED observed_states
<1> PICK o : o = Step("StateObserve", p)
  OBVIOUS
<1>1. pc' \in {"send_hello", "hello", "reregister", "wait_for_reply"}
  BY RunStages DEF AskedLater
<1>2. CASE ReadsInHello
  BY <1>2 DEF ReadsInHello, read_message, registries
<1>3. CASE write_hello
  BY <1>3 DEF write_hello, AskedLater, registries
<1>4. CASE pc = "wait_for_reply" /\ read_message
  <2>1. pc' = pc
    BY <1>1, <1>4 DEF read_message, handle_message, handle_reply, handle_push
  <2> QED
    BY <1>4, <2>1 DEF read_message, AskedLater, FirstStep, registries
<1>5. CASE pc = "wait_for_reply" /\ \E step \in rereg : check_result(step)
  <2>1. PICK step \in rereg : check_result(step)
    BY <1>5
  <2>2. /\ pc' = "reregister" /\ rereg' = rereg \ {step} /\ FirstStep(step)
        /\ UNCHANGED observed_states
    BY <1>1, <2>1 DEF check_result, FirstStep, registries
  <2>3. o \in rereg /\ o # step
    BY <2>2 DEF AskedLater
  <2>4. ~FirstStep(o)
    BY <2>2, <2>3, FirstStepUnique
  <2> QED
    BY <1>5, <2>2, <2>3, <2>4 DEF AskedLater
<1>6. CASE \E step \in rereg : reregister_send(step)
  <2>1. pc = "reregister" /\ UNCHANGED <<rereg, observed_states>>
    BY <1>6 DEF reregister_send, registries
  <2>2. Step("StateObserve", p) \in rereg'
    BY <1>1, <1>6 DEF AskedLater, reregister_send, send_send_buf
  <2> QED
    BY <2>1, <2>2 DEF AskedLater
<1>7. CASE actorpp_connect
  BY <1>7 DEF actorpp_connect, AskedLater, registries
<1> QED
  BY <1>1, <1>2, <1>3, <1>4, <1>5, <1>6, <1>7, RunStages

LEMMA RunForgets ==
  ASSUME TypeInv, TypeInv', HelloFirst, Forgetting, ActorRuns, UNCHANGED serverVars,
         NEW p \in Paths, observed_states'[p] # None, AskedLater(p)'
  PROVE  Silent(p)'
<1>1. Silent(p)
  <2>1. ReadsInHello => pc = "hello"
    BY DEF ReadsInHello
  <2> QED
    BY <2>1, RunAsksLater DEF Forgetting, AskedLater
<1>2. /\ view \in [Paths -> Seq(StateVals)]
      /\ pc' \in {"send_hello", "hello", "reregister", "wait_for_reply"}
  BY RunStages DEF AskedLater, TypeInv, TypeOK, ApplicationTypeOK
<1>3. view'[p] = view[p]
  <2>1. CASE read_message
    <3>1. Head(on_message) \in NotTold(p) /\ Head(on_message) \in Incoming
      BY <1>1, <2>1, SeqTypes DEF Silent, read_message, NotTold
    <3>2. CASE UNCHANGED view
      BY <3>2
    <3>3. CASE handle_push(Head(on_message))
      BY <1>2, <3>1, <3>3, IncomingCases DEF handle_push, NotTold
    <3> QED
      BY <2>1, <3>2, <3>3
      DEF read_message, handle_message, handle_reply, handle_hello_message, inbox
  <2>2. CASE pc = "wait_for_reply" /\ \E step \in rereg : check_result(step)
    <3>1. PICK step \in rereg : check_result(step)
      BY <2>2
    <3>2. step \in Steps /\ rereg' = rereg \ {step} /\ Step("StateObserve", p) \in rereg'
      BY <1>2, <2>2, <3>1 DEF check_result, AskedLater, TypeInv, TypeOK, ActorTypeOK
    <3>3. step.op = "StateObserve" => step.path # p /\ step.path \in Paths
      BY <3>2 DEF Steps, Step
    <3> QED
      BY <1>2, <3>1, <3>3 DEF check_result, check_success, HandleStateReply
  <2>3. CASE actorpp_connect \/ write_hello \/ \E step \in rereg : reregister_send(step)
    BY <2>3 DEF actorpp_connect, write_hello, reregister_send, inbox
  <2> QED
    BY <1>2, <2>1, <2>2, <2>3, RunStages DEF ReadsInHello
<1>4. to_server' \in Seq(NotAsked(p))
  <2>1. CASE UNCHANGED to_server
    BY <1>1, <2>1 DEF Silent
  <2>2. CASE write_hello /\ to_server' = Append(to_server, Hello)
    <3>1. Hello.op = "Hello" /\ Hello \in Outgoing
      BY DEF Hello, Outgoing, TypeInv, TypeOK, ActorTypeOK
    <3>2. Hello \in NotAsked(p)
      BY <3>1 DEF NotAsked
    <3> QED
      BY <1>1, <2>2, <3>2, SeqTypes DEF Silent
  <2>3. CASE \E step \in rereg : reregister_send(step)
    <3>1. PICK step \in rereg : reregister_send(step)
      BY <2>3
    <3>2. PICK m : m = RestoreMessage(step)
      OBVIOUS
    <3>3. m \in Outgoing /\ m.op = step.op /\ m.path = step.path
      BY <3>2, RestoreMessageType DEF RestoreMessage, Request
    <3>4. /\ pc' = "wait_for_reply" /\ rereg' = rereg /\ FirstStep(step)
          /\ to_server' \in {to_server, Append(to_server, m)}
      BY <1>2, <3>1, <3>2 DEF reregister_send, send_send_buf, RestoreMessage, FirstStep
    <3>5. step # Step("StateObserve", p)
      BY <3>4 DEF AskedLater, FirstStep
    <3>6. step = Step(step.op, step.path)
      BY DEF TypeInv, TypeOK, ActorTypeOK, Steps, Step
    <3>7. m \in NotAsked(p)
      BY <3>3, <3>5, <3>6 DEF NotAsked
    <3> QED
      BY <1>1, <3>4, <3>7, SeqTypes DEF Silent
  <2>4. CASE read_message \/ \E step \in rereg : check_result(step)
    BY <1>1, <2>4 DEF read_message, check_result, Silent
  <2>5. CASE actorpp_connect \/ write_hello
    BY <2>1, <2>2, <2>5 DEF actorpp_connect, write_hello, send_send_buf
  <2> QED
    BY <1>2, <2>3, <2>4, <2>5, RunStages DEF ReadsInHello
<1>5. on_message' \in Seq(NotTold(p))
  BY <1>1, RunReads, SeqTypes DEF Silent
<1> QED
  BY <1>1, <1>3, <1>4, <1>5 DEF Silent, serverVars, NotAsked, NotTold

LEMMA ServerForgets ==
  ASSUME TypeInv, Server, NEW p \in Paths, Silent(p)
  PROVE  Silent(p)'
<1>1. ServerMoves
  BY ServerSteps
<1>2. UNCHANGED view
  BY <1>1 DEF ServerMoves, untouchedByServer, inbox
<1>3. \A m : FirstSent(m) => m \in NotAsked(p)
  BY SeqTypes DEF FirstSent, Silent
<1>4. Step("StateObserve", p) \notin srv_regs'
  BY <1>1, <1>3 DEF ServerMoves, NotAsked, Silent, Step
<1>5. \A a \in Incoming : Delivers(a) => a \in NotTold(p)
  BY DEF Delivers, NotTold, Silent
<1>6. to_server' \in Seq(NotAsked(p)) /\ on_message' \in Seq(NotTold(p))
  BY <1>1, <1>5, SeqTypes DEF ServerMoves, Silent
<1> QED
  BY <1>2, <1>4, <1>6 DEF Silent, NotAsked, NotTold

LEMMA NextForgets ==
  ASSUME TypeInv, TypeInv', HelloFirst, Forgetting, [Next]_vars
  PROVE  Forgetting'
<1> SUFFICES ASSUME NEW p \in Paths, observed_states'[p] # None, AskedLater(p)'
             PROVE  Silent(p)'
  BY DEF Forgetting
<1>1. CASE ActorCloses /\ ForgetConnection
  <2>1. /\ view'[p] = <<Unknown>> /\ srv_regs' = {}
        /\ to_server' = <<>> /\ on_message' = <<>>
    BY <1>1
    DEF ActorCloses, connect, BackoffExit, cleanup_connection, tell_observers,
        clear_channels, untouched, registries, ForgetConnection
  <2> QED
    BY <2>1, EmptyQueue DEF Silent
<1>2. CASE ActorRuns /\ UNCHANGED serverVars
  BY <1>2, RunForgets
<1>3. ASSUME UNCHANGED <<pc, rereg, observed_states>>
      PROVE  Silent(p)
  BY <1>3 DEF Forgetting, AskedLater, FirstStep
<1>4. CASE Application /\ UNCHANGED serverVars
  <2>1. UNCHANGED <<pc, rereg, observed_states, view, srv_regs, to_server, on_message>>
    BY <1>4 DEF Application, Ask, reply, test_disconnect, exit, registries, inbox, waits,
                serverVars
  <2> QED
    BY <1>3, <2>1 DEF Silent, NotAsked, NotTold
<1>5. CASE Network /\ UNCHANGED serverVars
  <2>1. UNCHANGED <<pc, rereg, observed_states, view, srv_regs>>
    BY <1>5 DEF Network, Break, Mute, ReceiverCloses, registries, inbox, serverVars
  <2>2. Silent(p)
    BY <1>3, <2>1
  <2>3. Fragment \in NotTold(p)
    BY DEF Fragment, NotTold, Incoming
  <2>4. to_server' \in {to_server, <<>>} /\ on_message' \in Seq(NotTold(p))
    BY <1>5, <2>2, <2>3, NetworkQueues DEF Silent
  <2> QED
    BY <2>1, <2>2, <2>4, EmptyQueue DEF Silent, NotAsked, NotTold
<1>6. CASE Server
  <2>1. UNCHANGED <<pc, rereg, observed_states>>
    BY <1>6, ServerSteps DEF ServerMoves, untouchedByServer, registries
  <2> QED
    BY <1>3, <1>6, <2>1, ServerForgets
<1>7. CASE Finished \/ UNCHANGED vars
  <2>1. UNCHANGED <<pc, rereg, observed_states, view, srv_regs, to_server, on_message>>
    BY <1>7 DEF Finished, vars, clientVars, registries, inbox, waits, serverVars
  <2> QED
    BY <1>3, <2>1 DEF Silent, NotAsked, NotTold
<1> QED
  BY <1>1, <1>2, <1>4, <1>5, <1>6, <1>7 DEF Next

(* An observer that has not been asked for again on the new connection is  *)
(* left with the Unknown of cleanup_connection(): no change that the old   *)
(* connection delivered, or that belongs to another step, reaches it.      *)
THEOREM ObserversForget == Spec => []ObserverForgets
<1>1. Init => Forgetting
  BY DEF Init, ClientInit, Forgetting
<1>2. TypeInv /\ TypeInv' /\ HelloFirst /\ Forgetting /\ [Next]_vars => Forgetting'
  BY NextForgets
<1>3. Forgetting => ObserverForgets
  BY DEF Forgetting, AskedLater, Silent, ObserverForgets
<1> QED
  BY <1>1, <1>2, <1>3, HelloInvariant, PTL DEF Spec

=============================================================================
