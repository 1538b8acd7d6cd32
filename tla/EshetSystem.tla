---------------------------- MODULE EshetSystem ----------------------------
(***************************************************************************)
(* The client actor together with an ESHET server.  The server is not part *)
(* of the repository: it is modelled from how the client uses it and from  *)
(* what the tests expect of it.  It processes what it receives in order,   *)
(* answers every request exactly once with a reply of the right kind, and  *)
(* only sends calls, events and changes for paths that the connection has  *)
(* registered; it forgets a connection's registrations when it ends.       *)
(***************************************************************************)
EXTENDS EshetClient

CONSTANTS
  MaxPushes,  \* bound: calls, events and changes the server sends
  CallIds     \* the ids the server gives to calls

ASSUME ServerAssumption == MaxPushes \in Nat

VARIABLES
  srv_regs,     \* what this connection has registered
  srv_pending,  \* requests that are answered later (calls go to other clients)
  srv_state,    \* the values of the states this connection has registered
  srv_calls,    \* calls this connection has not answered
  world,        \* the values of the states other clients own
  pushes        \* calls, events and changes sent so far

serverVars == <<srv_regs, srv_pending, srv_state, srv_calls, world, pushes>>
vars == <<clientVars, serverVars>>

-----------------------------------------------------------------------------
ServerInit ==
  /\ srv_regs = {} /\ srv_pending = {} /\ srv_calls = {}
  /\ srv_state = [p \in Paths |-> Unknown]
  /\ world = [p \in Paths |-> Unknown]
  /\ pushes = 0

(* The server forgets a connection that has ended.                         *)
ForgetConnection ==
  /\ srv_regs' = {} /\ srv_pending' = {} /\ srv_calls' = {}
  /\ srv_state' = [p \in Paths |-> Unknown]
  /\ UNCHANGED <<world, pushes>>

(* All the server changes of the client is the two ends of the connection. *)
untouchedByServer ==
  <<pc, link, ids, reply_channels, registries, ping_timeout, unpacker, rereg,
    on_close, ping_result, rereg_result, app, inbox>>

Deliver(m) == on_message' = Append(on_message, m)
Answer(req, res) == [type |-> "reply", id |-> req.id, res |-> res, to |-> req.to]

-----------------------------------------------------------------------------
Receives(m) ==
  /\ sock = "up" /\ to_server # <<>> /\ m = Head(to_server)
  /\ to_server' = Tail(to_server)
  /\ UNCHANGED <<untouchedByServer, world, pushes>>

(* A client without an id is given one.                                    *)
ServerHello(m) ==
  /\ Receives(m) /\ m.op = "Hello"
  /\ \/ m.client = None /\ Deliver([type |-> "hello_id", client |-> conn])
     \/ m.client # None /\ Deliver([type |-> "hello"])
  /\ UNCHANGED <<srv_regs, srv_pending, srv_state, srv_calls>>

ServerPing(m) ==
  /\ Receives(m) /\ m.op = "Ping"
  /\ Deliver(Answer(m, "Success"))
  /\ UNCHANGED <<srv_regs, srv_pending, srv_state, srv_calls>>

(* A registration is accepted, or refused if the path is taken.            *)
Registrations == {"ActionRegister", "StateRegister", "StateObserve",
                  "EventRegister", "EventListen"}

ServerAccepts(m) ==
  /\ Receives(m) /\ m.op \in Registrations
  /\ m.op = "StateRegister" => Step(m.op, m.path) \notin srv_regs
  /\ srv_regs' = srv_regs \cup {Step(m.op, m.path)}
  /\ Deliver(Answer(m, IF m.op = "StateObserve" THEN world[m.path] ELSE "Success"))
  /\ UNCHANGED <<srv_pending, srv_state, srv_calls>>

ServerRefuses(m) ==
  /\ Receives(m) /\ m.op \in Registrations
  /\ "refuse" \in Faults \/ Step(m.op, m.path) \in srv_regs
  /\ Deliver(Answer(m, "Error"))
  /\ UNCHANGED <<srv_regs, srv_pending, srv_state, srv_calls>>

(* Only the owner of a state changes it.                                   *)
ServerStateChanged(m) ==
  /\ Receives(m) /\ m.op = "StateChanged"
  /\ \/ /\ Step("StateRegister", m.path) \in srv_regs
        /\ srv_state' = [srv_state EXCEPT ![m.path] = m.value]
        /\ Deliver(Answer(m, "Success"))
     \/ /\ Step("StateRegister", m.path) \notin srv_regs
        /\ Deliver(Answer(m, "Error"))
        /\ UNCHANGED srv_state
  /\ UNCHANGED <<srv_regs, srv_pending, srv_calls>>

(* Calls and the rest wait for others, and are answered in any order.      *)
ServerPostpones(m) ==
  /\ Receives(m) /\ m.op \in {"ActionCall", "EventEmit", "Get", "Set"}
  /\ srv_pending' = srv_pending \cup {m}
  /\ UNCHANGED <<on_message, srv_regs, srv_state, srv_calls>>

ServerAnswers(req) ==
  /\ sock = "up" /\ req \in srv_pending
  /\ srv_pending' = srv_pending \ {req}
  /\ \E res \in {"Success", "Error"} : Deliver(Answer(req, res))
  /\ UNCHANGED <<untouchedByServer, to_server, srv_regs, srv_state, srv_calls,
                 world, pushes>>

ServerGetsReply(m) ==
  /\ Receives(m) /\ m.op = "Reply"
  /\ srv_calls' = srv_calls \ {m.call.id}
  /\ UNCHANGED <<on_message, srv_regs, srv_pending, srv_state>>

-----------------------------------------------------------------------------
(* What the server sends of its own accord.                                *)
Pushes ==
  /\ sock = "up" /\ pushes < MaxPushes
  /\ pushes' = pushes + 1
  /\ UNCHANGED <<untouchedByServer, to_server, srv_regs, srv_pending, srv_state>>

ServerCalls(num, path) ==
  /\ Pushes
  /\ Step("ActionRegister", path) \in srv_regs /\ num \notin srv_calls
  /\ srv_calls' = srv_calls \cup {num}
  /\ Deliver([type |-> "action_call", id |-> num, path |-> path])
  /\ UNCHANGED world

ServerNotifies(path) ==
  /\ Pushes
  /\ Step("EventListen", path) \in srv_regs
  /\ Deliver([type |-> "event_notify", path |-> path])
  /\ UNCHANGED <<srv_calls, world>>

(* Another client changes a state; the connection hears of it if it        *)
(* observes that state.                                                    *)
WorldChanges(path, value) ==
  /\ pushes < MaxPushes /\ value # world[path]
  /\ pushes' = pushes + 1
  /\ world' = [world EXCEPT ![path] = value]
  /\ IF sock = "up" /\ Step("StateObserve", path) \in srv_regs
       THEN Deliver([type |-> "state_changed", path |-> path, value |-> value])
       ELSE UNCHANGED on_message
  /\ UNCHANGED <<untouchedByServer, to_server, srv_regs, srv_pending, srv_state,
                 srv_calls>>

ServerReceives ==
  \E m \in {to_server[i] : i \in 1 .. Len(to_server)} :
    \/ ServerHello(m) \/ ServerPing(m) \/ ServerAccepts(m) \/ ServerRefuses(m)
    \/ ServerStateChanged(m) \/ ServerPostpones(m) \/ ServerGetsReply(m)

Server ==
  \/ ServerReceives
  \/ \E req \in srv_pending : ServerAnswers(req)
  \/ \E path \in Paths :
       \/ \E num \in CallIds : ServerCalls(num, path)
       \/ ServerNotifies(path)
       \/ \E value \in StateVals : WorldChanges(path, value)

-----------------------------------------------------------------------------
Init == ClientInit /\ ServerInit

(* run() has returned, or an exception has ended it.                       *)
Stopped == pc \in {"exited", "Disconnected", "ProtocolError", "runtime_error"}
Finished == Stopped /\ UNCHANGED vars

Next ==
  \/ ActorCloses /\ ForgetConnection
  \/ (ActorRuns \/ Application \/ Network) /\ UNCHANGED serverVars
  \/ Server
  \/ Finished

Spec == Init /\ [][Next]_vars

(* The threads of the client run, the server processes what it receives    *)
(* and the other clients answer, and a client that tries for long enough   *)
(* gets a connection.  The application, the network and the server's own   *)
(* messages owe nothing.                                                   *)
FairSpec ==
  /\ Spec
  /\ WF_vars(ActorCloses /\ ForgetConnection)
  /\ SF_vars(actorpp_connect /\ sock' = "up" /\ UNCHANGED serverVars)
  /\ WF_vars(ActorRuns /\ UNCHANGED serverVars)
  /\ WF_vars(ReceiverCloses /\ UNCHANGED serverVars)
  /\ WF_vars(ServerReceives)
  /\ WF_vars(\E req \in srv_pending : ServerAnswers(req))
=============================================================================
