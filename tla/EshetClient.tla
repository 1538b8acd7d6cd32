---------------------------- MODULE EshetClient ----------------------------
(***************************************************************************)
(* The client actor of eshetcpp (ESHETClientActor in include/eshet.hpp):   *)
(* the thread that connects to an ESHET server, says hello, registers      *)
(* again what the application had registered, and then serves the          *)
(* channels that application threads, the receiving thread and its own     *)
(* timers fill.                                                            *)
(*                                                                         *)
(* This module holds the actor, the application threads that use it and    *)
(* the socket; EshetSystem adds the server.  The two share to_server and   *)
(* on_message, the two directions of the connection.                       *)
(*                                                                         *)
(* Definitions carry the names of the source.  An operator X_how just      *)
(* before a definition X is not part of the model: it is X with a mistake, *)
(* and there to show that the properties would notice it.                  *)
(***************************************************************************)
EXTENDS Naturals, Sequences, FiniteSets

CONSTANTS
  Paths,      \* paths, in the order std::map keeps them
  Values,     \* values of states
  Reqs,       \* application requests, each named by its result channel
  None,       \* no entry, no value
  Ops,        \* the operations the application uses in this instance
  IdMod,      \* number of message ids (2^16 in the code)
  ConnMod,    \* number of connection ids (2^16 in the code)
  MaxConns,   \* bound: connections the server accepts
  MaxQueue,   \* bound: messages to the server in flight when a ping is sent
  MaxPings,   \* bound: idle pings awaiting an answer
  Faults      \* what the environment may do to a connection, see AllFaults

AllOps == {"ActionCall", "ActionRegister", "StateRegister", "StateChanged",
           "StateObserve", "EventRegister", "EventEmit", "EventListen",
           "Get", "Set"}

(* close: the connection breaks; tear: it breaks inside a message; reset:  *)
(* sending on a broken connection fails; mute: the peer vanishes without   *)
(* a word; close_fails: so may close(); refuse: the server may refuse a    *)
(* registration; disconnect and exit: the application calls                *)
(* test_disconnect() and exit().                                           *)
AllFaults == {"close", "tear", "reset", "mute", "close_fails", "refuse",
              "disconnect", "exit"}

ASSUME ClientAssumption ==
  /\ Paths \subseteq Nat
  /\ Ops \subseteq AllOps
  /\ Faults \subseteq AllFaults
  /\ IdMod \in Nat \ {0} /\ ConnMod \in Nat \ {0}
  /\ MaxConns \in Nat /\ MaxQueue \in Nat /\ MaxPings \in Nat
  /\ {"Success", "Error", "Unknown"} \cap Values = {}
  /\ None \notin Values \cup {"Success", "Error", "Unknown"}
  /\ {"ping", "rereg", "local", "Disconnect", None} \cap Reqs = {}
  /\ None \notin Paths

Unknown   == "Unknown"
StateVals == Values \cup {Unknown}
Ids       == 0 .. IdMod - 1
Chans     == Reqs \cup {"ping", "rereg"}

VARIABLES
  (* the actor *)
  pc,                 \* where run() and loop() stand
  conn,               \* connections made so far
  id,                 \* who the client says it is; the server may say so first
  next_id,
  reply_channels,     \* id -> the channel its reply goes to
  clash,              \* an id was given out while still in reply_channels
  action_channels, registered_states, observed_states,
  registered_events, listened_events,
  ping_timeout,       \* whether a ping timeout is set
  unpacker,           \* "partial" if the buffer holds a cut-off message
  rereg,              \* what reregister() has still to restore
  (* the channels the actor waits on *)
  on_command, on_message, on_close, on_reply, ping_result, rereg_result,
  should_exit,
  (* the connection *)
  sock, to_server,
  (* the application *)
  asked,              \* request -> the command it was queued with
  results,            \* request -> what its result channel received
  view,               \* path -> what its observer received since the last
                      \* disconnection (the Unknown of that included)
  events,             \* path -> number of events its listener received
  calls               \* calls received and not answered

registries == <<action_channels, registered_states, observed_states,
                registered_events, listened_events>>
ids        == <<next_id, clash>>
link       == <<conn, id, sock>>
app        == <<asked, on_command, on_reply, should_exit>>
inbox      == <<results, view, events, calls>>
waits      == <<on_message, on_close, ping_result, rereg_result>>
clientVars == <<pc, link, ids, reply_channels, registries, ping_timeout,
                unpacker, rereg, waits, app, inbox, to_server>>

-----------------------------------------------------------------------------
(* Messages and the values the channels carry.                             *)

(* The result types of the two kinds of reply channel, and the replies     *)
(* convert_variant accepts for each.                                       *)
ReplyType(op) == IF op = "StateObserve" THEN "StateResult" ELSE "Result"
Converts(res, type) ==
  IF type = "Result" THEN res \in {"Success", "Error"} ELSE res # "Success"

Request(op, num, path, value, to) ==
  [op |-> op, id |-> num, path |-> path, value |-> value, to |-> to]
CallReply(call) == [op |-> "Reply", call |-> call]

(* What reregister() sends, in the order of its five loops; a state is     *)
(* registered and then given its value before the next state.              *)
Step(op, path) == [op |-> op, path |-> path]
reregister_steps_without_values ==
  {Step("ActionRegister", p) : p \in {q \in Paths : action_channels[q] # None}}
  \cup {Step("StateRegister", p) : p \in {q \in Paths : registered_states[q] # None}}
  \cup {Step("StateObserve", p) : p \in {q \in Paths : observed_states[q] # None}}
  \cup {Step("EventRegister", p) : p \in registered_events}
  \cup {Step("EventListen", p) : p \in {q \in Paths : listened_events[q] # None}}
reregister_steps ==
  {Step("ActionRegister", p) : p \in {q \in Paths : action_channels[q] # None}}
  \cup {Step(op, p) : op \in {"StateRegister", "StateChanged"},
                      p \in {q \in Paths : registered_states[q] # None}}
  \cup {Step("StateObserve", p) : p \in {q \in Paths : observed_states[q] # None}}
  \cup {Step("EventRegister", p) : p \in registered_events}
  \cup {Step("EventListen", p) : p \in {q \in Paths : listened_events[q] # None}}

LoopOf(op) == CASE op = "ActionRegister" -> 1
                [] op \in {"StateRegister", "StateChanged"} -> 2
                [] op = "StateObserve" -> 3
                [] op = "EventRegister" -> 4
                [] op = "EventListen" -> 5
Precedes(s, t) ==
  \/ LoopOf(s.op) < LoopOf(t.op)
  \/ LoopOf(s.op) = LoopOf(t.op) /\ s.path < t.path
  \/ s.path = t.path /\ s.op = "StateRegister" /\ t.op = "StateChanged"

(* Connection ids are the connection count in 16 bits.                     *)
connection_id == conn % ConnMod

(* A call handed to the application; conn says which connection it really  *)
(* came from, connection_id is what the code remembers of that.            *)
Call(num, path) ==
  [connection_id |-> connection_id, id |-> num, path |-> path, conn |-> conn]

(* std::map::emplace: an entry that is there stays.                        *)
emplace(f, k, x) == IF f[k] = None THEN [f EXCEPT ![k] = x] ELSE f

-----------------------------------------------------------------------------
ClientInit ==
  /\ pc = "connect" /\ conn = 0 /\ id = None /\ next_id = 0
  /\ reply_channels = [n \in Ids |-> None] /\ clash = FALSE
  /\ action_channels   = [p \in Paths |-> None]
  /\ registered_states = [p \in Paths |-> None]
  /\ observed_states   = [p \in Paths |-> None]
  /\ registered_events = {}
  /\ listened_events   = [p \in Paths |-> None]
  /\ ping_timeout = FALSE /\ unpacker = "empty" /\ rereg = {}
  /\ on_command = <<>> /\ on_message = <<>> /\ on_close = FALSE
  /\ on_reply = <<>> /\ ping_result = <<>> /\ rereg_result = <<>>
  /\ should_exit = FALSE
  /\ sock = "none" /\ to_server = <<>>
  /\ asked = [r \in Reqs |-> None] /\ results = [r \in Reqs |-> <<>>]
  /\ view = [p \in Paths |-> <<>>] /\ events = [p \in Paths |-> 0]
  /\ calls = {}

-----------------------------------------------------------------------------
(* Sending.  A message sent on a broken connection is lost; once the       *)
(* kernel knows, send() fails and Disconnected escapes from run().         *)
send_send_buf(m, next) ==
  \/ /\ sock = "up"
     /\ to_server' = Append(to_server, m) /\ pc' = next
  \/ /\ sock # "up"
     /\ UNCHANGED to_server /\ pc' = next
  \/ /\ sock \in {"down", "closed"} /\ "reset" \in Faults
     /\ UNCHANGED to_server /\ pc' = "Disconnected"

get_id_unwrapped == next_id + 1
get_id == (next_id + 1) % IdMod

(* Take the next id and keep the channel the reply to it goes to.          *)
await_reply(chan, type) ==
  /\ next_id' = get_id
  /\ reply_channels' = emplace(reply_channels, next_id, [to |-> chan, type |-> type])
  /\ clash' = (clash \/ reply_channels[next_id] # None)

-----------------------------------------------------------------------------
(* Connecting and closing.                                                 *)

Outstanding == {reply_channels[n].to : n \in {i \in Ids : reply_channels[i] # None}}

(* "disconnected" for everything outstanding.  That of a ping goes to      *)
(* ping_result, which is cleared next.                                     *)
fail_outstanding_silently ==
  /\ UNCHANGED results
  /\ reply_channels' = [n \in Ids |-> None]
fail_outstanding ==
  /\ results' = [r \in Reqs |->
       IF r \in Outstanding
         THEN Append(results[r], [res |-> "Error", src |-> "local"])
         ELSE results[r]]
  /\ reply_channels' = [n \in Ids |-> None]

tell_observers_nothing == UNCHANGED view
tell_observers ==
  view' = [p \in Paths |-> IF observed_states[p] # None THEN <<Unknown>> ELSE view[p]]

clear_channels_too_early ==
  /\ ping_timeout' = FALSE /\ on_close' = FALSE /\ on_message' = <<>>
  /\ ping_result' = IF "ping" \in Outstanding THEN <<"Error">> ELSE <<>>
clear_channels ==
  /\ ping_timeout' = FALSE /\ on_close' = FALSE /\ on_message' = <<>>
  /\ ping_result' = <<>>

stop_receiver_too_late == sock' = IF sock = "down" THEN "down" ELSE "none"
stop_receiver == sock' = "none"

(* Once the receiving thread is gone and the socket closed, fail what was  *)
(* outstanding, tell the observers, and forget what the old connection     *)
(* left in the channels.                                                   *)
cleanup_connection ==
  /\ stop_receiver /\ to_server' = <<>>
  /\ fail_outstanding /\ tell_observers /\ clear_channels

untouched ==
  <<conn, id, ids, registries, unpacker, rereg, rereg_result, app, events, calls>>

(* connect() in two steps, for the application and the others run between  *)
(* them: first the old connection goes.                                    *)
connect ==
  /\ pc = "connect"
  /\ cleanup_connection
  /\ pc' = "connecting"
  /\ UNCHANGED untouched

(* Then comes the new one, with a receiving thread of its own, or none.    *)
actorpp_connect ==
  /\ pc = "connecting"
  /\ \/ /\ conn < MaxConns
        /\ sock' = "up" /\ conn' = conn + 1 /\ pc' = "send_hello"
     \/ pc' = "backoff" /\ UNCHANGED <<sock, conn>>
  /\ UNCHANGED <<id, ids, reply_channels, registries, ping_timeout, unpacker,
                 rereg, waits, app, inbox, to_server>>

(* run(): the wait between two connections, which exit() ends at once.     *)
BackoffExpires ==
  /\ pc = "backoff" /\ ~should_exit
  /\ pc' = "connect"
  /\ UNCHANGED <<link, ids, reply_channels, registries, ping_timeout, unpacker,
                 rereg, waits, app, inbox, to_server>>

BackoffExit_without_cleanup ==
  /\ pc = "backoff" /\ should_exit
  /\ pc' = "exited"
  /\ UNCHANGED <<link, ids, reply_channels, registries, ping_timeout, unpacker,
                 rereg, waits, app, inbox, to_server>>
BackoffExit ==
  /\ pc = "backoff" /\ should_exit
  /\ cleanup_connection
  /\ pc' = "exited"
  /\ UNCHANGED untouched

(* Either cleanup may find that close() fails: only the receiving thread   *)
(* is gone then, and the exception ends run().                             *)
close_fails ==
  /\ "close_fails" \in Faults /\ sock # "none"
  /\ pc = "connect" \/ (pc = "backoff" /\ should_exit)
  /\ sock' = "closed" /\ to_server' = <<>> /\ pc' = "runtime_error"
  /\ UNCHANGED <<conn, id, ids, reply_channels, registries, ping_timeout, unpacker,
                 rereg, waits, app, inbox>>

-----------------------------------------------------------------------------
(* Incoming messages.                                                      *)

(* Push what the server answered onto the channel kept for it.             *)
push_result(chan, m) ==
  /\ results' = IF chan \in Reqs
       THEN [results EXCEPT ![chan] = Append(@, [res |-> m.res, src |-> m.to])]
       ELSE results
  /\ ping_result' = IF chan = "ping" THEN Append(ping_result, m.res) ELSE ping_result
  /\ rereg_result' = IF chan = "rereg" THEN Append(rereg_result, m.res) ELSE rereg_result

handle_reply_in_order(m) ==
  /\ m.type = "reply"
  /\ LET waiting == {n \in Ids : reply_channels[n] # None}
         first   == CHOOSE n \in waiting : \A k \in waiting : n <= k
     IN /\ waiting # {}
        /\ reply_channels' = [reply_channels EXCEPT ![first] = None]
        /\ push_result(reply_channels[first].to, m)
  /\ UNCHANGED <<pc, view, events, calls>>

Expects_whatever_type(m) == reply_channels[m.id] # None
Expects(m) ==
  /\ reply_channels[m.id] # None
  /\ Converts(m.res, reply_channels[m.id].type)

handle_reply(m) ==
  /\ m.type = "reply"
  /\ reply_channels' = [reply_channels EXCEPT ![m.id] = None]
  /\ \/ /\ Expects(m)
        /\ push_result(reply_channels[m.id].to, m)
        /\ UNCHANGED pc
     \/ /\ ~Expects(m)
        /\ pc' = "ProtocolError"
        /\ UNCHANGED <<results, ping_result, rereg_result>>
  /\ UNCHANGED <<view, events, calls>>

(* The three messages for a path the application must have registered, of  *)
(* which each goes to the channel kept for its path; there are no others.  *)
Registered(m) ==
  \/ m.type = "action_call" /\ action_channels[m.path] # None
  \/ m.type = "event_notify" /\ listened_events[m.path] # None
  \/ m.type = "state_changed" /\ observed_states[m.path] # None

handle_push(m) ==
  /\ m.type # "reply"
  /\ pc' = IF Registered(m) THEN pc ELSE "ProtocolError"
  /\ calls' = IF Registered(m) /\ m.type = "action_call"
                THEN calls \cup {Call(m.id, m.path)} ELSE calls
  /\ events' = IF Registered(m) /\ m.type = "event_notify"
                 THEN [events EXCEPT ![m.path] = @ + 1] ELSE events
  /\ view' = IF Registered(m) /\ m.type = "state_changed"
               THEN [view EXCEPT ![m.path] = Append(@, m.value)] ELSE view
  /\ UNCHANGED <<reply_channels, results, ping_result, rereg_result>>

handle_message(m) == handle_reply(m) \/ handle_push(m)

(* The server's hello, which may tell the client its id.  No more messages *)
(* may come in the chunk that brings it; whether one that is there did is  *)
(* up to the stream.                                                       *)
handle_hello_message(m) ==
  /\ \E more \in {FALSE, on_message' # <<>>} :
       pc' = IF m.type \in {"hello", "hello_id"} /\ ~more THEN "reregister"
                                                          ELSE "ProtocolError"
  /\ id' = IF m.type = "hello_id" THEN m.client ELSE id
  /\ rereg' = reregister_steps
  /\ UNCHANGED <<reply_channels, ping_result, rereg_result, inbox>>

(* A chunk of the stream is a message, or the part of one that arrived     *)
(* before the connection broke.  The unpacker keeps such a part: what the  *)
(* next connection brings is then read from the middle of the stale bytes, *)
(* as a message of the wrong kind or as the rest of a longer message.      *)
read_message ==
  /\ on_message # <<>>
  /\ on_message' = Tail(on_message)
  /\ LET m == Head(on_message)
     IN \/ /\ m.type # "fragment" /\ unpacker = "empty"
           /\ \/ pc = "hello" /\ handle_hello_message(m)
              \/ pc # "hello" /\ handle_message(m) /\ UNCHANGED <<id, rereg>>
           /\ UNCHANGED unpacker
        \/ /\ m.type # "fragment" /\ unpacker = "partial"
           /\ pc' \in {pc, "ProtocolError"}
           /\ UNCHANGED <<id, unpacker, reply_channels, rereg, ping_result,
                          rereg_result, inbox>>
        \/ /\ m.type = "fragment"
           /\ unpacker' = "partial"
           /\ UNCHANGED <<pc, id, reply_channels, rereg, ping_result, rereg_result,
                          inbox>>
  /\ UNCHANGED <<conn, sock, ids, registries, ping_timeout, on_close, app,
                 to_server>>

(* The two ways to leave any of the waits: the connection is closed, or    *)
(* exit() was called (should_exit stays readable for run()).               *)
read_close ==
  /\ on_close
  /\ on_close' = FALSE /\ pc' = "backoff"
  /\ UNCHANGED <<link, ids, reply_channels, registries, ping_timeout, unpacker,
                 rereg, on_message, ping_result, rereg_result, app, inbox,
                 to_server>>

see_exit ==
  /\ should_exit
  /\ pc' = "backoff"
  /\ UNCHANGED <<link, ids, reply_channels, registries, ping_timeout, unpacker,
                 rereg, waits, app, inbox, to_server>>

-----------------------------------------------------------------------------
(* Setting up a connection.                                                *)

Hello_anonymous == [op |-> "Hello", client |-> None]
Hello == [op |-> "Hello", client |-> id]

write_hello ==
  /\ pc = "send_hello"
  /\ send_send_buf(Hello, "hello")
  /\ UNCHANGED <<link, ids, reply_channels, registries, ping_timeout, unpacker,
                 rereg, waits, app, inbox>>

do_hello == pc = "hello" /\ (read_close \/ read_message \/ see_exit)

(* Send the first of the registrations that are left, and wait for the     *)
(* reply on a channel of its own.                                          *)
reregister_send(step) ==
  /\ pc = "reregister" /\ step \in rereg
  /\ \A other \in rereg \ {step} : Precedes(step, other)
  /\ await_reply("rereg", ReplyType(step.op))
  /\ rereg_result' = <<>>
  /\ LET value == IF step.op = "StateChanged" THEN registered_states[step.path]
                                             ELSE None
     IN send_send_buf(Request(step.op, next_id, step.path, value, "rereg"),
                      "wait_for_reply")
  /\ UNCHANGED <<link, registries, ping_timeout, unpacker, rereg, on_message,
                 on_close, ping_result, app, inbox>>

(* What the visitors of a reply accept: check_success a Success, and for a *)
(* state HandleStateReplyVisitor a value, which goes to the observer.      *)
HandleStateReply_lost(step, res) ==
  step.op = "StateObserve" /\ res \in StateVals /\ UNCHANGED view
HandleStateReply(step, res) ==
  /\ step.op = "StateObserve" /\ res \in StateVals
  /\ view' = [view EXCEPT ![step.path] = Append(@, res)]
check_success(step, res) ==
  step.op # "StateObserve" /\ res = "Success" /\ UNCHANGED view

(* The reply to the first step that is left; after an error loop() starts  *)
(* again.                                                                  *)
check_result(step) ==
  /\ step \in rereg
  /\ \A other \in rereg \ {step} : Precedes(step, other)
  /\ rereg_result # <<>>
  /\ rereg_result' = Tail(rereg_result)
  /\ LET res == Head(rereg_result)
     IN \/ /\ res = "Error"
           /\ pc' = "backoff" /\ UNCHANGED <<rereg, view>>
        \/ /\ check_success(step, res) \/ HandleStateReply(step, res)
           /\ pc' = "reregister" /\ rereg' = rereg \ {step}
  /\ UNCHANGED <<link, ids, reply_channels, registries, ping_timeout, unpacker,
                 on_message, on_close, ping_result, app, results, events, calls,
                 to_server>>

wait_for_reply_or_close ==
  /\ pc = "wait_for_reply"
  /\ \/ read_close \/ read_message
     \/ \E step \in rereg : check_result(step)
wait_for_reply ==
  /\ pc = "wait_for_reply"
  /\ \/ read_close \/ read_message \/ see_exit
     \/ \E step \in rereg : check_result(step)

reregister_done ==
  /\ pc = "reregister" /\ rereg = {}
  /\ pc' = "main"
  /\ UNCHANGED <<link, ids, reply_channels, registries, ping_timeout, unpacker,
                 rereg, waits, app, inbox, to_server>>

-----------------------------------------------------------------------------
(* Commands of the application: the overloads of CommandVisitor.           *)

(* What is left in a StateUpdate whose value was moved elsewhere: a        *)
(* msgpack::object_handle gives up only the memory it held for the value,  *)
(* which lives on in the registry.                                         *)
moved_from_emptied(value) == Unknown
moved_from(value) == value
SentValue(r) == IF asked[r].op = "StateChanged" THEN moved_from(asked[r].value)
                                                ELSE asked[r].value

(* What the overloads share: an id, a place for the reply, a message.      *)
command(r, op) ==
  /\ asked[r].op = op
  /\ await_reply(r, ReplyType(op))
  /\ send_send_buf(Request(op, next_id, asked[r].path, SentValue(r), r), "main")
  /\ UNCHANGED on_close

ActionCall(r) == command(r, "ActionCall") /\ UNCHANGED registries

ActionRegister_forgotten(r) == command(r, "ActionRegister") /\ UNCHANGED registries
ActionRegister(r) ==
  /\ command(r, "ActionRegister")
  /\ action_channels' = emplace(action_channels, asked[r].path, r)
  /\ UNCHANGED <<registered_states, observed_states, registered_events, listened_events>>

StateRegister(r) ==
  /\ command(r, "StateRegister")
  /\ registered_states' = emplace(registered_states, asked[r].path, Unknown)
  /\ UNCHANGED <<action_channels, observed_states, registered_events, listened_events>>

StateChanged(r) ==
  /\ command(r, "StateChanged")
  /\ registered_states' = [registered_states EXCEPT ![asked[r].path] = asked[r].value]
  /\ UNCHANGED <<action_channels, observed_states, registered_events, listened_events>>

StateObserve(r) ==
  /\ command(r, "StateObserve")
  /\ observed_states' = emplace(observed_states, asked[r].path, r)
  /\ UNCHANGED <<action_channels, registered_states, registered_events, listened_events>>

EventRegister(r) ==
  /\ command(r, "EventRegister")
  /\ registered_events' = registered_events \cup {asked[r].path}
  /\ UNCHANGED <<action_channels, registered_states, observed_states, listened_events>>

EventEmit(r) == command(r, "EventEmit") /\ UNCHANGED registries

EventListen(r) ==
  /\ command(r, "EventListen")
  /\ listened_events' = emplace(listened_events, asked[r].path, r)
  /\ UNCHANGED <<action_channels, registered_states, observed_states, registered_events>>

Get(r) == command(r, "Get") /\ UNCHANGED registries

Set(r) == command(r, "Set") /\ UNCHANGED registries

Disconnect ==
  /\ on_close' = TRUE
  /\ UNCHANGED <<pc, ids, reply_channels, registries, to_server>>

read_command ==
  /\ on_command # <<>>
  /\ on_command' = Tail(on_command)
  /\ LET r == Head(on_command)
     IN \/ r = "Disconnect" /\ Disconnect
        \/ /\ r # "Disconnect"
           /\ \/ ActionCall(r) \/ ActionRegister(r) \/ StateRegister(r)
              \/ StateChanged(r) \/ StateObserve(r) \/ EventRegister(r)
              \/ EventEmit(r) \/ EventListen(r) \/ Get(r) \/ Set(r)
  /\ UNCHANGED <<link, ping_timeout, unpacker, rereg, on_message, ping_result,
                 rereg_result, asked, on_reply, should_exit, inbox>>

-----------------------------------------------------------------------------
(* The other cases of loop().                                              *)

read_ping_result ==
  /\ ping_result # <<>>
  /\ ping_result' = Tail(ping_result)
  /\ \/ /\ Head(ping_result) = "Success"
        /\ ping_timeout' = FALSE /\ UNCHANGED pc
     \/ /\ Head(ping_result) # "Success"
        /\ pc' = "ProtocolError" /\ UNCHANGED ping_timeout
  /\ UNCHANGED <<link, ids, reply_channels, registries, unpacker, rereg,
                 on_message, on_close, rereg_result, app, inbox, to_server>>

read_reply_of_any_connection ==
  /\ on_reply # <<>>
  /\ on_reply' = Tail(on_reply)
  /\ send_send_buf(CallReply(Head(on_reply)), "main")
  /\ UNCHANGED <<link, ids, reply_channels, registries, ping_timeout, unpacker,
                 rereg, waits, asked, on_command, should_exit, inbox>>

(* A reply of the application to a call is sent if the call came over      *)
(* this connection.                                                        *)
read_reply ==
  /\ on_reply # <<>>
  /\ on_reply' = Tail(on_reply)
  /\ LET call == Head(on_reply)
     IN \/ /\ call.connection_id = connection_id
           /\ send_send_buf(CallReply(call), "main")
        \/ /\ call.connection_id # connection_id
           /\ UNCHANGED <<pc, to_server>>
  /\ UNCHANGED <<link, ids, reply_channels, registries, ping_timeout, unpacker,
                 rereg, waits, asked, on_command, should_exit, inbox>>

(* The timeouts, when none of the channels has anything to read.           *)
NothingToRead ==
  /\ ping_result = <<>> /\ ~on_close /\ on_message = <<>>
  /\ on_reply = <<>> /\ on_command = <<>> /\ ~should_exit

PingsWaiting == {n \in Ids : reply_channels[n] = [to |-> "ping", type |-> "Result"]}

idle_timeout_without_deadline ==
  /\ NothingToRead
  /\ Cardinality(PingsWaiting) < MaxPings /\ Len(to_server) < MaxQueue
  /\ await_reply("ping", "Result")
  /\ send_send_buf(Request("Ping", next_id, None, None, "ping"), "main")
  /\ UNCHANGED <<link, registries, ping_timeout, unpacker, rereg, waits, app, inbox>>
idle_timeout ==
  /\ NothingToRead
  /\ Cardinality(PingsWaiting) < MaxPings /\ Len(to_server) < MaxQueue
  /\ await_reply("ping", "Result")
  /\ send_send_buf(Request("Ping", next_id, None, None, "ping"), "main")
  /\ ping_timeout' = TRUE
  /\ UNCHANGED <<link, registries, unpacker, rereg, waits, app, inbox>>

ping_timeout_expires ==
  /\ NothingToRead /\ ping_timeout
  /\ pc' = "backoff"
  /\ UNCHANGED <<link, ids, reply_channels, registries, ping_timeout, unpacker,
                 rereg, waits, app, inbox, to_server>>

loop ==
  /\ pc = "main"
  /\ \/ read_ping_result \/ read_close \/ read_message \/ read_reply
     \/ read_command \/ see_exit \/ idle_timeout \/ ping_timeout_expires

(* The steps of the actor; those that close a socket are apart, since      *)
(* the server sees them.                                                   *)
ActorCloses == connect \/ BackoffExit
ActorRuns ==
  \/ BackoffExpires \/ close_fails \/ actorpp_connect \/ write_hello \/ do_hello
  \/ \E step \in rereg : reregister_send(step)
  \/ wait_for_reply \/ reregister_done \/ loop

-----------------------------------------------------------------------------
(* The application: any thread may call a method at any time; a method     *)
(* only queues a command.  Nothing is asked for after exit().              *)
Command(op, path, value) == [op |-> op, path |-> path, value |-> value]
ValuesOf(op) == CASE op = "StateChanged" -> StateVals
                  [] op \in {"ActionCall", "EventEmit", "Set"} -> Values
                  [] OTHER -> {None}

Ask(r) ==
  /\ asked[r] = None /\ ~should_exit
  /\ \E op \in Ops, path \in Paths :
       \E value \in ValuesOf(op) :
          asked' = [asked EXCEPT ![r] = Command(op, path, value)]
  /\ on_command' = Append(on_command, r)
  /\ UNCHANGED <<pc, link, ids, reply_channels, registries, ping_timeout,
                 unpacker, rereg, waits, on_reply, should_exit, inbox, to_server>>

test_disconnect ==
  /\ "disconnect" \in Faults
  /\ \A i \in 1 .. Len(on_command) : on_command[i] # "Disconnect"
  /\ on_command' = Append(on_command, "Disconnect")
  /\ UNCHANGED <<pc, link, ids, reply_channels, registries, ping_timeout,
                 unpacker, rereg, waits, asked, on_reply, should_exit, inbox,
                 to_server>>

exit ==
  /\ "exit" \in Faults /\ ~should_exit
  /\ should_exit' = TRUE
  /\ UNCHANGED <<pc, link, ids, reply_channels, registries, ping_timeout,
                 unpacker, rereg, waits, asked, on_command, on_reply, inbox,
                 to_server>>

(* Call::reply, once for each call.                                        *)
reply(call) ==
  /\ call \in calls
  /\ calls' = calls \ {call}
  /\ on_reply' = Append(on_reply, call)
  /\ UNCHANGED <<pc, link, ids, reply_channels, registries, ping_timeout,
                 unpacker, rereg, waits, asked, on_command, should_exit,
                 results, view, events, to_server>>

Application ==
  \/ \E r \in Reqs : Ask(r)
  \/ \E call \in calls : reply(call)
  \/ test_disconnect \/ exit

-----------------------------------------------------------------------------
(* The connection, and the thread that receives from it.                   *)

(* The connection breaks: what the client sent last is lost, and what the  *)
(* server sent last, perhaps from the middle of a message on (a hello is   *)
(* taken to be too short for that).                                        *)
Break ==
  /\ "close" \in Faults /\ sock \in {"up", "mute"}
  /\ sock' = "down" /\ to_server' = <<>>
  /\ \E n \in 0 .. Len(on_message) :
       \/ on_message' = SubSeq(on_message, 1, n)
       \/ /\ "tear" \in Faults /\ n < Len(on_message)
          /\ on_message[n + 1].type \notin {"hello", "hello_id"}
          /\ on_message' = Append(SubSeq(on_message, 1, n), [type |-> "fragment"])
  /\ UNCHANGED <<pc, conn, id, ids, reply_channels, registries, ping_timeout, unpacker,
                 rereg, on_close, ping_result, rereg_result, app, inbox>>

(* The peer vanishes without closing the connection.                       *)
Mute ==
  /\ "mute" \in Faults /\ sock = "up"
  /\ sock' = "mute" /\ to_server' = <<>>
  /\ UNCHANGED <<pc, conn, id, ids, reply_channels, registries, ping_timeout, unpacker,
                 rereg, waits, app, inbox>>

(* The receiving thread finds the connection broken and reports it.        *)
ReceiverCloses ==
  /\ sock = "down"
  /\ sock' = "closed" /\ on_close' = TRUE
  /\ UNCHANGED <<pc, conn, id, ids, reply_channels, registries, ping_timeout, unpacker,
                 rereg, on_message, ping_result, rereg_result, app, inbox,
                 to_server>>

Network == Break \/ Mute \/ ReceiverCloses
=============================================================================
