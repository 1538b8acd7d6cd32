---------------------------- MODULE EshetProofs ----------------------------
(* Proofs about EshetSystem, for all paths, values, requests and bounds.   *)
EXTENDS EshetProperties, TLAPS

-----------------------------------------------------------------------------
(* Lemmas about the operators of the model.                                *)

(* Ids and connection ids stay in their range when they wrap.              *)
LEMMA Wraps ==
  ASSUME NEW n \in Nat, NEW m \in Nat \ {0}
  PROVE  n % m \in 0 .. m - 1
  OBVIOUS

(* emplace keeps the type of a map.                                        *)
LEMMA EmplaceType ==
  ASSUME NEW K, NEW V, NEW f \in [K -> V \cup {None}], NEW k \in K, NEW x \in V
  PROVE  emplace(f, k, x) \in [K -> V \cup {None}]
  BY DEF emplace

(* What is done to a queue keeps its type.                                 *)
LEMMA SeqTypes ==
  ASSUME NEW S, NEW s \in Seq(S)
  PROVE  /\ \A x \in S : Append(s, x) \in Seq(S)
         /\ s # <<>> => Head(s) \in S /\ Tail(s) \in Seq(S)
         /\ \A n \in 0 .. Len(s) : SubSeq(s, 1, n) \in Seq(S)
         /\ \A i \in 1 .. Len(s) : s[i] \in S
  OBVIOUS

(* What a queue holds after an element was put at its end, or taken from   *)
(* its front.                                                              *)
LEMMA AppendElements ==
  ASSUME NEW S, NEW s \in Seq(S), NEW x \in S
  PROVE  /\ Len(Append(s, x)) = Len(s) + 1
         /\ \A i \in 1 .. Len(s) + 1 :
              \/ i \in 1 .. Len(s) /\ Append(s, x)[i] = s[i]
              \/ i = Len(s) + 1 /\ Append(s, x)[i] = x
  OBVIOUS

LEMMA TailElements ==
  ASSUME NEW S, NEW s \in Seq(S), s # <<>>
  PROVE  /\ Len(Tail(s)) = Len(s) - 1 /\ Head(s) = s[1] /\ 1 \in 1 .. Len(s)
         /\ \A i \in 1 .. Len(s) - 1 : i + 1 \in 1 .. Len(s) /\ Tail(s)[i] = s[i + 1]
  OBVIOUS

LEMMA EmptyQueue == ASSUME NEW S PROVE <<>> \in Seq(S)
  OBVIOUS

-----------------------------------------------------------------------------
(* Type correctness.                                                       *)

(* The value of a state that is to be registered again is there.           *)
StatesKept ==
  \A s \in rereg : s.op = "StateChanged" => registered_states[s.path] # None

(* Only what was asked for is queued.                                      *)
QueuedAsked ==
  \A i \in 1 .. Len(on_command) :
    on_command[i] # "Disconnect" => asked[on_command[i]] \in Commands

TypeInv == TypeOK /\ StatesKept /\ QueuedAsked

LEMMA InitTypes == Init => TypeInv
<1> SUFFICES ASSUME Init PROVE TypeInv
  OBVIOUS
<1> USE DEF Init, ClientInit, ServerInit
<1>1. ActorTypeOK
  <2>1. /\ 0 \in Ids /\ 0 \in 0 .. MaxConns
    BY ClientAssumption DEF Ids
  <2>2. [n \in Ids |-> None] \in [Ids -> ReplyChannels \cup {None}]
    OBVIOUS
  <2> QED
    BY <2>1, <2>2 DEF ActorTypeOK, Stages
<1>2. RegistryTypeOK
  BY DEF RegistryTypeOK
<1>3. ChannelTypeOK
  BY EmptyQueue DEF ChannelTypeOK
<1>4. ApplicationTypeOK
  BY EmptyQueue DEF ApplicationTypeOK
<1>5. ServerTypeOK
  BY ServerAssumption DEF ServerTypeOK, StateVals
<1> QED
  BY <1>1, <1>2, <1>3, <1>4, <1>5 DEF TypeInv, TypeOK, StatesKept, QueuedAsked

(* The steps that only move pc, and what of the timers and of the closing  *)
(* they consume: leaving a wait, the end of the wait between connections,  *)
(* the end of the registrations, the ping timeout, and the reply to a ping.*)
LEMMA ControlTypes ==
  ASSUME TypeInv,
         pc' \in Stages, on_close' \in BOOLEAN, ping_timeout' \in BOOLEAN,
         ping_result' \in Seq(Results),
         UNCHANGED <<link, ids, reply_channels, registries, unpacker, rereg,
                     on_message, rereg_result, app, inbox, to_server, serverVars>>
  PROVE  TypeInv'
<1> USE DEF TypeInv, TypeOK, link, ids, registries, app, inbox, serverVars
<1>1. ActorTypeOK'
  BY DEF ActorTypeOK
<1>2. RegistryTypeOK'
  BY DEF RegistryTypeOK
<1>3. ChannelTypeOK'
  BY DEF ChannelTypeOK
<1>4. ApplicationTypeOK'
  BY DEF ApplicationTypeOK
<1>5. ServerTypeOK'
  BY DEF ServerTypeOK
<1>6. StatesKept' /\ QueuedAsked'
  BY DEF StatesKept, QueuedAsked
<1> QED
  BY <1>1, <1>2, <1>3, <1>4, <1>5, <1>6

LEMMA ControlStepsTypes ==
  ASSUME TypeInv, UNCHANGED serverVars,
         \/ read_close \/ see_exit \/ BackoffExpires \/ reregister_done
         \/ ping_timeout_expires \/ read_ping_result
  PROVE  TypeInv'
<1>1. /\ pc \in Stages /\ on_close \in BOOLEAN /\ ping_timeout \in BOOLEAN
      /\ ping_result \in Seq(Results)
      /\ ping_result # <<>> => Tail(ping_result) \in Seq(Results)
  BY SeqTypes DEF TypeInv, TypeOK, ActorTypeOK, ChannelTypeOK
<1>2. CASE read_close
  BY <1>1, <1>2, ControlTypes DEF read_close, Stages
<1>3. CASE see_exit
  BY <1>1, <1>3, ControlTypes DEF see_exit, waits, Stages
<1>4. CASE BackoffExpires
  BY <1>1, <1>4, ControlTypes DEF BackoffExpires, waits, Stages
<1>5. CASE reregister_done
  BY <1>1, <1>5, ControlTypes DEF reregister_done, waits, Stages
<1>6. CASE ping_timeout_expires
  BY <1>1, <1>6, ControlTypes DEF ping_timeout_expires, waits, Stages
<1>7. CASE read_ping_result
  BY <1>1, <1>7, ControlTypes DEF read_ping_result, Stages
<1> QED
  BY <1>2, <1>3, <1>4, <1>5, <1>6, <1>7

(* What the helpers of the actions do to the types.                        *)
LEMMA CleanupTypes ==
  ASSUME TypeInv, cleanup_connection
  PROVE  /\ results' \in [Reqs -> Seq([res : Results, src : Chans \cup {"local"}])]
         /\ view' \in [Paths -> Seq(StateVals)]
         /\ reply_channels' \in [Ids -> ReplyChannels \cup {None}]
         /\ ping_timeout' = FALSE /\ ping_result' = <<>> /\ on_close' = FALSE
         /\ on_message' = <<>> /\ to_server' = <<>> /\ sock' = "none"
<1> USE DEF cleanup_connection, stop_receiver, TypeInv, TypeOK
<1>1. results' \in [Reqs -> Seq([res : Results, src : Chans \cup {"local"}])]
  <2>1. [res |-> "Error", src |-> "local"] \in [res : Results, src : Chans \cup {"local"}]
    BY DEF Results
  <2> QED
    BY <2>1, SeqTypes DEF fail_outstanding, ApplicationTypeOK
<1>2. view' \in [Paths -> Seq(StateVals)]
  <2>1. <<Unknown>> \in Seq(StateVals)
    BY DEF StateVals
  <2> QED
    BY <2>1 DEF tell_observers, ApplicationTypeOK
<1> QED
  BY <1>1, <1>2 DEF fail_outstanding, clear_channels

LEMMA AwaitReplyTypes ==
  ASSUME TypeInv, NEW chan \in Chans, NEW type \in {"Result", "StateResult"},
         await_reply(chan, type)
  PROVE  /\ next_id' \in Ids /\ clash' \in BOOLEAN
         /\ reply_channels' \in [Ids -> ReplyChannels \cup {None}]
<1> USE DEF TypeInv, TypeOK, ActorTypeOK, await_reply
<1>1. next_id' \in Ids
  BY Wraps, ClientAssumption DEF get_id, Ids
<1>2. reply_channels' \in [Ids -> ReplyChannels \cup {None}]
  BY EmplaceType DEF ReplyChannels
<1> QED
  BY <1>1, <1>2

LEMMA SendTypes ==
  ASSUME TypeInv, NEW m \in Outgoing, NEW next \in Stages, send_send_buf(m, next)
  PROVE  to_server' \in Seq(Outgoing) /\ pc' \in Stages
  BY SeqTypes DEF TypeInv, TypeOK, ChannelTypeOK, send_send_buf, Stages

(* One lemma for each action.                                              *)
LEMMA ConnectTypes ==
  ASSUME TypeInv, connect, ForgetConnection
  PROVE  TypeInv'
<1> USE DEF TypeInv, TypeOK, connect, untouched, ids, registries, app, ForgetConnection
<1>1. ActorTypeOK'
  <2>1. cleanup_connection
    OBVIOUS
  <2>2. pc' \in Stages
    BY DEF Stages
  <2> QED
    BY <2>1, <2>2, CleanupTypes DEF ActorTypeOK
<1>2. RegistryTypeOK'
  BY DEF RegistryTypeOK
<1>3. ChannelTypeOK'
  BY EmptyQueue, SeqTypes, CleanupTypes DEF ChannelTypeOK
<1>4. ApplicationTypeOK'
  BY CleanupTypes DEF ApplicationTypeOK
<1>5. ServerTypeOK'
  BY DEF ServerTypeOK, StateVals
<1>6. StatesKept' /\ QueuedAsked'
  BY DEF StatesKept, QueuedAsked
<1> QED
  BY <1>1, <1>2, <1>3, <1>4, <1>5, <1>6

LEMMA BackoffExitTypes ==
  ASSUME TypeInv, BackoffExit, ForgetConnection
  PROVE  TypeInv'
<1> USE DEF TypeInv, TypeOK, BackoffExit, untouched, ids, registries, app, ForgetConnection
<1>1. ActorTypeOK'
  BY ClientAssumption, CleanupTypes DEF ActorTypeOK, Stages
<1>2. RegistryTypeOK'
  BY DEF RegistryTypeOK
<1>3. ChannelTypeOK'
  BY EmptyQueue, SeqTypes, CleanupTypes DEF ChannelTypeOK
<1>4. ApplicationTypeOK'
  BY CleanupTypes DEF ApplicationTypeOK
<1>5. ServerTypeOK'
  BY DEF ServerTypeOK, StateVals
<1>6. StatesKept' /\ QueuedAsked'
  BY DEF StatesKept, QueuedAsked
<1> QED
  BY <1>1, <1>2, <1>3, <1>4, <1>5, <1>6

LEMMA CloseFailsTypes ==
  ASSUME TypeInv, close_fails, UNCHANGED serverVars
  PROVE  TypeInv'
<1> USE DEF TypeInv, TypeOK, close_fails, ids, registries, waits, app, inbox, serverVars
<1>1. ActorTypeOK'
  BY ClientAssumption DEF ActorTypeOK, Stages
<1>2. RegistryTypeOK'
  BY DEF RegistryTypeOK
<1>3. ChannelTypeOK'
  BY EmptyQueue DEF ChannelTypeOK
<1>4. ApplicationTypeOK'
  BY DEF ApplicationTypeOK
<1>5. ServerTypeOK'
  BY DEF ServerTypeOK
<1>6. StatesKept' /\ QueuedAsked'
  BY DEF StatesKept, QueuedAsked
<1> QED
  BY <1>1, <1>2, <1>3, <1>4, <1>5, <1>6

LEMMA ActorppConnectTypes ==
  ASSUME TypeInv, actorpp_connect, UNCHANGED serverVars
  PROVE  TypeInv'
<1> USE DEF TypeInv, TypeOK, actorpp_connect, ids, registries, waits, app, inbox, serverVars
<1>1. ActorTypeOK'
  BY ClientAssumption DEF ActorTypeOK, Stages
<1>2. RegistryTypeOK'
  BY DEF RegistryTypeOK
<1>3. ChannelTypeOK'
  BY EmptyQueue DEF ChannelTypeOK
<1>4. ApplicationTypeOK'
  BY DEF ApplicationTypeOK
<1>5. ServerTypeOK'
  BY DEF ServerTypeOK
<1>6. StatesKept' /\ QueuedAsked'
  BY DEF StatesKept, QueuedAsked
<1> QED
  BY <1>1, <1>2, <1>3, <1>4, <1>5, <1>6

LEMMA WriteHelloTypes ==
  ASSUME TypeInv, write_hello, UNCHANGED serverVars
  PROVE  TypeInv'
<1> USE DEF TypeInv, TypeOK, write_hello, link, ids, registries, waits, app, inbox, serverVars
<1>0. to_server' \in Seq(Outgoing) /\ pc' \in Stages
  <2>1. Hello \in Outgoing
    BY DEF Hello, Outgoing, ActorTypeOK
  <2> QED
    BY <2>1, SendTypes DEF Stages
<1>1. ActorTypeOK'
  BY ClientAssumption, <1>0 DEF ActorTypeOK, Stages
<1>2. RegistryTypeOK'
  BY DEF RegistryTypeOK
<1>3. ChannelTypeOK'
  BY EmptyQueue, SeqTypes, <1>0 DEF ChannelTypeOK
<1>4. ApplicationTypeOK'
  BY DEF ApplicationTypeOK
<1>5. ServerTypeOK'
  BY DEF ServerTypeOK
<1>6. StatesKept' /\ QueuedAsked'
  BY DEF StatesKept, QueuedAsked
<1> QED
  BY <1>1, <1>2, <1>3, <1>4, <1>5, <1>6

(* What a message holds, by its type.                                      *)
LEMMA IncomingCases ==
  ASSUME NEW m \in Incoming
  PROVE  /\ m.type \in {"hello", "hello_id", "fragment", "reply", "action_call",
                       "event_notify", "state_changed"}
         /\ m.type = "hello_id" => m.client \in ClientIds
         /\ m.type = "reply" => m.id \in Ids /\ m.res \in Results /\ m.to \in Chans
         /\ m.type = "action_call" => m.id \in CallIds /\ m.path \in Paths
         /\ m.type = "event_notify" => m.path \in Paths
         /\ m.type = "state_changed" => m.path \in Paths /\ m.value \in StateVals
  BY DEF Incoming

LEMMA HandleHelloTypes ==
  ASSUME TypeInv, NEW m \in Incoming, handle_hello_message(m),
         UNCHANGED <<conn, sock, ids, registries, ping_timeout, unpacker>>
  PROVE  ActorTypeOK' /\ StatesKept'
<1> USE DEF TypeInv, TypeOK, ActorTypeOK, RegistryTypeOK, handle_hello_message, ids, registries
<1>1. rereg' \in SUBSET Steps
  BY DEF reregister_steps, Step, Steps, Registrations
<1>2. pc' \in Stages /\ id' \in ClientIds \cup {None}
  BY IncomingCases DEF Stages
<1>3. StatesKept'
  BY DEF reregister_steps, Step, StatesKept
<1> QED
  BY <1>1, <1>2, <1>3

LEMMA HandleReplyTypes ==
  ASSUME TypeInv, NEW m \in Incoming, handle_reply(m)
  PROVE  /\ pc' \in Stages
         /\ reply_channels' \in [Ids -> ReplyChannels \cup {None}]
         /\ results' \in [Reqs -> Seq([res : Results, src : Chans \cup {"local"}])]
         /\ ping_result' \in Seq(Results) /\ rereg_result' \in Seq(Results)
<1> USE DEF TypeInv, TypeOK, ActorTypeOK, ChannelTypeOK, ApplicationTypeOK, handle_reply
<1>1. m.id \in Ids /\ m.res \in Results /\ m.to \in Chans
  BY IncomingCases
<1>2. pc' \in Stages
  BY DEF Stages
<1>3. reply_channels' \in [Ids -> ReplyChannels \cup {None}]
  BY <1>1
<1>4. results' \in [Reqs -> Seq([res : Results, src : Chans \cup {"local"}])]
  <2>1. [res |-> m.res, src |-> m.to] \in [res : Results, src : Chans \cup {"local"}]
    BY <1>1
  <2> DEFINE R == [res : Results, src : Chans \cup {"local"}]
             x == [res |-> m.res, src |-> m.to]
  <2>2. \A c \in Reqs : Append(results[c], x) \in Seq(R)
    BY <2>1, SeqTypes
  <2>3. \A c : c \in Reqs => [results EXCEPT ![c] = Append(@, x)] \in [Reqs -> Seq(R)]
    BY <2>2
  <2>4. CASE push_result(reply_channels[m.id].to, m)
    <3> HIDE DEF R
    <3> QED
      BY <2>3, <2>4 DEF push_result, R
  <2> QED
    BY <2>4
<1>5. ping_result' \in Seq(Results) /\ rereg_result' \in Seq(Results)
  <2>1. Append(ping_result, m.res) \in Seq(Results) /\ Append(rereg_result, m.res) \in Seq(Results)
    BY <1>1, SeqTypes
  <2> QED
    BY <2>1 DEF push_result
<1> QED
  BY <1>2, <1>3, <1>4, <1>5

LEMMA HandlePushTypes ==
  ASSUME TypeInv, NEW m \in Incoming, handle_push(m)
  PROVE  /\ pc' \in Stages
         /\ view' \in [Paths -> Seq(StateVals)]
         /\ events' \in [Paths -> Nat] /\ calls' \in SUBSET CallSet
<1> USE DEF TypeInv, TypeOK, ActorTypeOK, ApplicationTypeOK, handle_push
<1>1. pc' \in Stages
  BY DEF Stages
<1>2. view' \in [Paths -> Seq(StateVals)]
  <2>1. m.type = "state_changed" => Append(view[m.path], m.value) \in Seq(StateVals)
    BY IncomingCases, SeqTypes
  <2> QED
    BY <2>1, IncomingCases
<1>3. events' \in [Paths -> Nat]
  BY IncomingCases
<1>4. calls' \in SUBSET CallSet
  <2>1. connection_id \in 0 .. ConnMod - 1
    <3>1. conn \in Nat /\ ConnMod \in Nat \ {0}
      BY ClientAssumption
    <3> HIDE DEF TypeInv
    <3> QED
      BY <3>1, Wraps DEF connection_id
  <2>2. m.type = "action_call" => Call(m.id, m.path) \in CallSet
    BY <2>1, IncomingCases DEF Call, CallSet
  <2> QED
    BY <2>2
<1> QED
  BY <1>1, <1>2, <1>3, <1>4

LEMMA ReadMessageTypes ==
  ASSUME TypeInv, read_message, UNCHANGED serverVars
  PROVE  TypeInv'
<1> DEFINE m == Head(on_message)
<1> USE DEF TypeInv, TypeOK
<1>1. m \in Incoming /\ on_message' \in Seq(Incoming)
  BY SeqTypes DEF read_message, ChannelTypeOK
<1>2. UNCHANGED <<conn, sock, ids, registries, ping_timeout, on_close, app, to_server>>
  BY DEF read_message
<1>3. CASE handle_hello_message(m) /\ UNCHANGED unpacker
  <2>1. ActorTypeOK' /\ StatesKept'
    BY <1>1, <1>2, <1>3, HandleHelloTypes
  <2> QED
    BY <1>1, <1>2, <1>3, <2>1
    DEF handle_hello_message, RegistryTypeOK, ChannelTypeOK, ApplicationTypeOK,
        ServerTypeOK, QueuedAsked, registries, app, inbox, serverVars
<1>4. CASE handle_reply(m) /\ UNCHANGED <<id, rereg, unpacker>>
  <2> USE <1>1, <1>2, <1>4, HandleReplyTypes
      DEF handle_reply, ids, registries, app, serverVars
  <2>1. ActorTypeOK'
    BY DEF ActorTypeOK
  <2>2. ChannelTypeOK'
    BY DEF ChannelTypeOK
  <2>3. ApplicationTypeOK'
    BY DEF ApplicationTypeOK
  <2> QED
    BY <2>1, <2>2, <2>3 DEF RegistryTypeOK, ServerTypeOK, StatesKept, QueuedAsked
<1>5. CASE handle_push(m) /\ UNCHANGED <<id, rereg, unpacker>>
  <2> USE <1>1, <1>2, <1>5, HandlePushTypes
      DEF handle_push, ids, registries, app, serverVars
  <2>1. ActorTypeOK'
    BY DEF ActorTypeOK
  <2>2. ChannelTypeOK'
    BY DEF ChannelTypeOK
  <2>3. ApplicationTypeOK'
    BY DEF ApplicationTypeOK
  <2> QED
    BY <2>1, <2>2, <2>3 DEF RegistryTypeOK, ServerTypeOK, StatesKept, QueuedAsked
<1>6. CASE /\ pc' \in {pc, "ProtocolError"} /\ unpacker' \in {unpacker, "partial"}
           /\ UNCHANGED <<id, reply_channels, rereg, ping_result, rereg_result, inbox>>
  <2> USE <1>1, <1>2, <1>6 DEF ids, registries, app, inbox, serverVars
  <2>1. ActorTypeOK'
    BY DEF ActorTypeOK, Stages
  <2> QED
    BY <2>1 DEF ChannelTypeOK, ApplicationTypeOK, RegistryTypeOK, ServerTypeOK,
                StatesKept, QueuedAsked
<1> QED
  BY <1>3, <1>4, <1>5, <1>6 DEF read_message, handle_message

(* The request that reregister() sends for a step is one.                  *)
RestoreMessage(step) ==
  Request(step.op, next_id, step.path,
          IF step.op = "StateChanged" THEN registered_states[step.path] ELSE None,
          "rereg")

LEMMA RestoreMessageType ==
  ASSUME TypeInv, NEW step \in rereg
  PROVE  RestoreMessage(step) \in Outgoing
<1>1. step \in Steps /\ next_id \in Ids
  BY DEF TypeInv, TypeOK, ActorTypeOK
<1>2. step.op = "StateChanged" => registered_states[step.path] \in StateVals
  BY <1>1 DEF TypeInv, TypeOK, StatesKept, RegistryTypeOK, Steps
<1> QED
  BY <1>1, <1>2
  DEF RestoreMessage, Request, Outgoing, PlainRequests, ValueRequests, Steps,
      Registrations, AllOps, Chans

LEMMA ReregisterSendTypes ==
  ASSUME TypeInv, NEW step \in rereg, reregister_send(step), UNCHANGED serverVars
  PROVE  TypeInv'
<1> USE DEF TypeInv, TypeOK, link, registries, app, inbox, serverVars
<1>t. ReplyType(step.op) \in {"Result", "StateResult"} /\ "rereg" \in Chans
  BY DEF ReplyType, Chans
<1>a. /\ next_id' \in Ids /\ clash' \in BOOLEAN
      /\ reply_channels' \in [Ids -> ReplyChannels \cup {None}]
  BY <1>t, AwaitReplyTypes DEF reregister_send
<1>s. to_server' \in Seq(Outgoing) /\ pc' \in Stages
  <2>1. send_send_buf(RestoreMessage(step), "wait_for_reply")
    BY DEF reregister_send, RestoreMessage
  <2> QED
    BY <2>1, RestoreMessageType, SendTypes DEF Stages
<1>1. ActorTypeOK'
  BY ClientAssumption, <1>a, <1>s DEF ActorTypeOK, Stages, reregister_send
<1>2. RegistryTypeOK'
  BY DEF RegistryTypeOK, reregister_send
<1>3. ChannelTypeOK'
  BY EmptyQueue, SeqTypes, <1>s DEF ChannelTypeOK, reregister_send
<1>4. ApplicationTypeOK'
  BY DEF ApplicationTypeOK, reregister_send
<1>5. ServerTypeOK'
  BY DEF ServerTypeOK, reregister_send
<1>6. StatesKept' /\ QueuedAsked'
  BY DEF StatesKept, QueuedAsked, reregister_send
<1> QED
  BY <1>1, <1>2, <1>3, <1>4, <1>5, <1>6

LEMMA CheckResultTypes ==
  ASSUME TypeInv, NEW step \in rereg, check_result(step), UNCHANGED serverVars
  PROVE  TypeInv'
<1> USE DEF TypeInv, TypeOK, check_result, link, ids, registries, app, serverVars
<1>v. view' \in [Paths -> Seq(StateVals)]
  <2>1. step.path \in Paths
    BY DEF ActorTypeOK, Steps
  <2>2. \A res \in StateVals : Append(view[step.path], res) \in Seq(StateVals)
    BY <2>1, SeqTypes DEF ApplicationTypeOK
  <2> QED
    BY <2>1, <2>2 DEF check_success, HandleStateReply, ApplicationTypeOK
<1>1. ActorTypeOK'
  BY ClientAssumption DEF ActorTypeOK, Stages
<1>2. RegistryTypeOK'
  BY DEF RegistryTypeOK
<1>3. ChannelTypeOK'
  BY EmptyQueue, SeqTypes DEF ChannelTypeOK
<1>4. ApplicationTypeOK'
  BY <1>v DEF ApplicationTypeOK
<1>5. ServerTypeOK'
  BY DEF ServerTypeOK
<1>6. StatesKept' /\ QueuedAsked'
  BY DEF StatesKept, QueuedAsked
<1> QED
  BY <1>1, <1>2, <1>3, <1>4, <1>5, <1>6

LEMMA IdleTimeoutTypes ==
  ASSUME TypeInv, idle_timeout, UNCHANGED serverVars
  PROVE  TypeInv'
<1> USE DEF TypeInv, TypeOK, link, registries, waits, app, inbox, serverVars
<1>a. /\ next_id' \in Ids /\ clash' \in BOOLEAN
      /\ reply_channels' \in [Ids -> ReplyChannels \cup {None}]
  BY AwaitReplyTypes DEF idle_timeout, Chans
<1>s. to_server' \in Seq(Outgoing) /\ pc' \in Stages
  <2>1. Request("Ping", next_id, None, None, "ping") \in Outgoing
    BY DEF Request, Outgoing, PingRequests, Chans, ActorTypeOK
  <2> QED
    BY <2>1, SendTypes DEF idle_timeout, Stages
<1>1. ActorTypeOK'
  BY ClientAssumption, <1>a, <1>s DEF ActorTypeOK, Stages, idle_timeout
<1>2. RegistryTypeOK'
  BY DEF RegistryTypeOK, idle_timeout
<1>3. ChannelTypeOK'
  BY EmptyQueue, SeqTypes, <1>s DEF ChannelTypeOK, idle_timeout
<1>4. ApplicationTypeOK'
  BY DEF ApplicationTypeOK, idle_timeout
<1>5. ServerTypeOK'
  BY DEF ServerTypeOK, idle_timeout
<1>6. StatesKept' /\ QueuedAsked'
  BY DEF StatesKept, QueuedAsked, idle_timeout
<1> QED
  BY <1>1, <1>2, <1>3, <1>4, <1>5, <1>6

LEMMA ReadReplyTypes ==
  ASSUME TypeInv, read_reply, UNCHANGED serverVars
  PROVE  TypeInv'
<1> USE DEF TypeInv, TypeOK, link, ids, registries, waits, inbox, serverVars
<1>s. to_server' \in Seq(Outgoing) /\ pc' \in Stages
  <2>1. Head(on_reply) \in CallSet
    BY SeqTypes DEF ChannelTypeOK, read_reply
  <2>2. CallReply(Head(on_reply)) \in Outgoing
    BY <2>1 DEF CallReply, Outgoing
  <2> QED
    BY <2>2, SendTypes DEF read_reply, Stages, ChannelTypeOK, ActorTypeOK
<1>1. ActorTypeOK'
  BY ClientAssumption, <1>s DEF ActorTypeOK, Stages, read_reply
<1>2. RegistryTypeOK'
  BY DEF RegistryTypeOK, read_reply
<1>3. ChannelTypeOK'
  BY EmptyQueue, SeqTypes, <1>s DEF ChannelTypeOK, read_reply
<1>4. ApplicationTypeOK'
  BY DEF ApplicationTypeOK, read_reply
<1>5. ServerTypeOK'
  BY DEF ServerTypeOK, read_reply
<1>6. StatesKept' /\ QueuedAsked'
  BY DEF StatesKept, QueuedAsked, read_reply
<1> QED
  BY <1>1, <1>2, <1>3, <1>4, <1>5, <1>6

(* The request that a command of the application sends is one.             *)
CommandMessage(r) == Request(asked[r].op, next_id, asked[r].path, SentValue(r), r)

LEMMA CommandMessageType ==
  ASSUME TypeInv, NEW r \in Reqs, asked[r] \in Commands
  PROVE  CommandMessage(r) \in Outgoing
<1>1. r \in Chans /\ next_id \in Ids
  BY DEF TypeInv, TypeOK, ActorTypeOK, Chans
<1>2. CASE asked[r].op = "StateChanged"
  BY <1>1, <1>2 DEF CommandMessage, SentValue, moved_from, Request, Outgoing,
                    ValueRequests, Commands
<1>3. CASE asked[r].op # "StateChanged"
  BY <1>1, <1>3 DEF CommandMessage, SentValue, Request, Outgoing, PlainRequests,
                    Commands
<1> QED
  BY <1>2, <1>3

(* Every overload of CommandVisitor is a command.                          *)
IsCommand(r) ==
  \/ ActionCall(r) \/ ActionRegister(r) \/ StateRegister(r) \/ StateChanged(r)
  \/ StateObserve(r) \/ EventRegister(r) \/ EventEmit(r) \/ EventListen(r)
  \/ Get(r) \/ Set(r)

LEMMA CommandSteps ==
  ASSUME NEW r, IsCommand(r)
  PROVE  /\ asked[r].op \in AllOps
         /\ await_reply(r, ReplyType(asked[r].op))
         /\ send_send_buf(CommandMessage(r), "main")
         /\ UNCHANGED on_close
<1>1. PICK op \in AllOps : command(r, op)
  BY DEF IsCommand, AllOps, ActionCall, ActionRegister, StateRegister, StateChanged,
         StateObserve, EventRegister, EventEmit, EventListen, Get, Set
<1> QED
  BY <1>1 DEF command, CommandMessage

(* What a command sends, and what it leaves in the registries.             *)
LEMMA CommandTypes ==
  ASSUME TypeInv, NEW r \in Reqs, asked[r] \in Commands, IsCommand(r)
  PROVE  /\ next_id' \in Ids /\ clash' \in BOOLEAN
         /\ reply_channels' \in [Ids -> ReplyChannels \cup {None}]
         /\ to_server' \in Seq(Outgoing) /\ pc' \in Stages
<1>1. ReplyType(asked[r].op) \in {"Result", "StateResult"} /\ r \in Chans
  BY DEF ReplyType, Chans
<1>2. to_server' \in Seq(Outgoing) /\ pc' \in Stages
  BY CommandSteps, CommandMessageType, SendTypes DEF Stages
<1> QED
  BY <1>1, <1>2, CommandSteps, AwaitReplyTypes

LEMMA CommandsTypes ==
  ASSUME TypeInv, NEW r \in Reqs, asked[r] \in Commands, IsCommand(r)
  PROVE  /\ next_id' \in Ids /\ clash' \in BOOLEAN
         /\ reply_channels' \in [Ids -> ReplyChannels \cup {None}]
         /\ to_server' \in Seq(Outgoing) /\ pc' \in Stages
         /\ UNCHANGED on_close /\ RegistryTypeOK'
         /\ \A p \in Paths : registered_states[p] # None => registered_states'[p] # None
<1>1. /\ next_id' \in Ids /\ clash' \in BOOLEAN
      /\ reply_channels' \in [Ids -> ReplyChannels \cup {None}]
      /\ to_server' \in Seq(Outgoing) /\ pc' \in Stages
  BY CommandTypes
<1>2. UNCHANGED on_close
  BY CommandSteps
<1>3. /\ asked[r] \in Commands /\ asked[r].path \in Paths
      /\ asked[r].op = "StateChanged" => asked[r].value \in StateVals
  BY DEF TypeInv, TypeOK, ApplicationTypeOK, Commands
<1>4. /\ RegistryTypeOK'
      /\ \A p \in Paths : registered_states[p] # None => registered_states'[p] # None
  <2> USE <1>3 DEF RegistryTypeOK, registries
  <2>1. RegistryTypeOK /\ None \notin StateVals
    BY ClientAssumption DEF TypeInv, TypeOK, StateVals, Unknown
  <2>2. CASE ActionCall(r) \/ EventEmit(r) \/ Get(r) \/ Set(r)
    BY <2>1, <2>2 DEF ActionCall, EventEmit, Get, Set
  <2>3. CASE ActionRegister(r)
    BY <2>1, <2>3, EmplaceType DEF ActionRegister
  <2>4. CASE StateRegister(r)
    BY <2>1, <2>4 DEF StateRegister, emplace, StateVals
  <2>5. CASE StateChanged(r)
    BY <2>1, <2>5 DEF StateChanged, command
  <2>6. CASE StateObserve(r)
    BY <2>1, <2>6, EmplaceType DEF StateObserve
  <2>7. CASE EventRegister(r)
    BY <2>1, <2>7 DEF EventRegister
  <2>8. CASE EventListen(r)
    BY <2>1, <2>8, EmplaceType DEF EventListen
  <2> QED
    BY <2>2, <2>3, <2>4, <2>5, <2>6, <2>7, <2>8 DEF IsCommand
<1> QED
  BY <1>1, <1>2, <1>4

(* The next command in the queue was asked for.                            *)
LEMMA HeadAsked ==
  ASSUME TypeInv, on_command # <<>>, Head(on_command) # "Disconnect"
  PROVE  Head(on_command) \in Reqs /\ asked[Head(on_command)] \in Commands
<1>1. on_command \in Seq(Reqs \cup {"Disconnect"})
  BY DEF TypeInv, TypeOK, ChannelTypeOK
<1>2. 1 \in 1 .. Len(on_command) /\ Head(on_command) = on_command[1]
  BY <1>1, TailElements
<1>3. on_command[1] \in Reqs
  BY <1>1, <1>2, SeqTypes
<1> QED
  BY <1>2, <1>3 DEF TypeInv, QueuedAsked

LEMMA ReadCommandTypes ==
  ASSUME TypeInv, read_command, UNCHANGED serverVars
  PROVE  TypeInv'
<1> DEFINE r == Head(on_command)
<1> USE DEF TypeInv, TypeOK
<1>1. r \in Reqs \cup {"Disconnect"} /\ on_command' \in Seq(Reqs \cup {"Disconnect"})
  BY SeqTypes DEF read_command, ChannelTypeOK
<1>2. /\ UNCHANGED <<link, ping_timeout, unpacker, rereg, on_message, ping_result,
                     rereg_result, asked, on_reply, should_exit, inbox, serverVars>>
      /\ on_command' = Tail(on_command) /\ on_command # <<>>
  BY DEF read_command
<1>3. QueuedAsked'
  <2> SUFFICES ASSUME NEW i \in 1 .. Len(on_command'), on_command'[i] # "Disconnect"
               PROVE  asked'[on_command'[i]] \in Commands
    BY DEF QueuedAsked
  <2>1. i + 1 \in 1 .. Len(on_command) /\ on_command'[i] = on_command[i + 1]
    BY <1>2 DEF ChannelTypeOK
  <2> QED
    BY <1>2, <2>1 DEF QueuedAsked
<1>4. /\ next_id' \in Ids /\ clash' \in BOOLEAN
      /\ reply_channels' \in [Ids -> ReplyChannels \cup {None}]
      /\ to_server' \in Seq(Outgoing) /\ pc' \in Stages
      /\ on_close' \in BOOLEAN /\ RegistryTypeOK'
      /\ \A p \in Paths : registered_states[p] # None => registered_states'[p] # None
  <2>1. CASE r = "Disconnect" /\ Disconnect
    BY <2>1 DEF Disconnect, ids, registries, ActorTypeOK, ChannelTypeOK, RegistryTypeOK
  <2>2. CASE r # "Disconnect"
    <3>1. r \in Reqs /\ asked[r] \in Commands
      BY <1>2, <2>2, HeadAsked
    <3>2. IsCommand(r)
      BY <2>2 DEF read_command, IsCommand
    <3>3. on_close \in BOOLEAN
      BY DEF ChannelTypeOK
    <3> HIDE DEF TypeInv, r
    <3> QED
      BY <3>1, <3>2, <3>3, CommandsTypes
  <2> QED
    BY <2>1, <2>2 DEF read_command
<1>5. ActorTypeOK'
  BY <1>2, <1>4 DEF ActorTypeOK, link
<1>6. ChannelTypeOK'
  BY <1>1, <1>2, <1>4 DEF ChannelTypeOK, link
<1>7. ApplicationTypeOK' /\ ServerTypeOK'
  BY <1>2 DEF ApplicationTypeOK, ServerTypeOK, inbox, serverVars
<1>8. StatesKept'
  BY <1>2, <1>4 DEF StatesKept, ActorTypeOK, Steps
<1> QED
  BY <1>3, <1>4, <1>5, <1>6, <1>7, <1>8

(* The application and the network.                                        *)
LEMMA ApplicationTypes ==
  ASSUME TypeInv, Application, UNCHANGED serverVars
  PROVE  TypeInv'
<1> USE DEF TypeInv, TypeOK
<1>1. /\ ActorTypeOK' /\ RegistryTypeOK' /\ ServerTypeOK' /\ StatesKept'
      /\ UNCHANGED <<on_message, on_close, ping_result, rereg_result, sock, to_server>>
      /\ UNCHANGED <<results, view, events>>
  BY DEF Application, Ask, reply, test_disconnect, exit, link, ids, registries, waits,
         inbox, serverVars, ActorTypeOK, RegistryTypeOK, ServerTypeOK, StatesKept
<1> DEFINE Queueable == Reqs \cup {"Disconnect"}
<1>2. CASE \E r \in Reqs : Ask(r)
  <2>1. PICK r \in Reqs : Ask(r)
    BY <1>2
  <2>2. PICK op \in Ops, path \in Paths :
          \E value \in ValuesOf(op) :
            asked' = [asked EXCEPT ![r] = Command(op, path, value)]
    BY <2>1 DEF Ask
  <2>3. PICK value \in ValuesOf(op) :
          asked' = [asked EXCEPT ![r] = Command(op, path, value)]
    BY <2>2
  <2>4. Command(op, path, value) \in Commands
    BY ClientAssumption DEF Command, Commands, ValuesOf, AllOps
  <2>5. /\ on_command \in Seq(Queueable) /\ on_command' = Append(on_command, r)
        /\ asked \in [Reqs -> Commands \cup {None}]
        /\ UNCHANGED <<on_reply, should_exit, calls>>
    BY <2>1 DEF Ask, ChannelTypeOK, ApplicationTypeOK, inbox
  <2>6. ChannelTypeOK' /\ ApplicationTypeOK'
    BY <1>1, <2>3, <2>4, <2>5, SeqTypes DEF ChannelTypeOK, ApplicationTypeOK
  <2>7. QueuedAsked'
    <3> SUFFICES ASSUME NEW i \in 1 .. Len(on_command'), on_command'[i] # "Disconnect"
                 PROVE  asked'[on_command'[i]] \in Commands
      BY DEF QueuedAsked
    <3>1. \A c \in Reqs : asked[c] \in Commands => asked'[c] \in Commands
      BY <2>3, <2>4, <2>5
    <3>2. asked'[r] \in Commands
      BY <2>3, <2>4, <2>5
    <3>3. \/ on_command'[i] = r
          \/ i \in 1 .. Len(on_command) /\ on_command'[i] = on_command[i]
      <4>1. r \in Queueable /\ on_command \in Seq(Queueable)
        BY <2>5
      <4> HIDE DEF TypeInv, Queueable
      <4> QED
        BY <2>5, <4>1, AppendElements
    <3>4. \A k \in 1 .. Len(on_command) : on_command[k] \in Queueable
      BY <2>5, SeqTypes
    <3> QED
      BY <3>1, <3>2, <3>3, <3>4 DEF QueuedAsked
  <2> QED
    BY <1>1, <2>6, <2>7
<1>3. CASE test_disconnect
  <2>1. /\ on_command \in Seq(Queueable)
        /\ on_command' = Append(on_command, "Disconnect")
        /\ UNCHANGED <<asked, on_reply, should_exit, calls>>
    BY <1>3 DEF test_disconnect, ChannelTypeOK, inbox
  <2>2. ChannelTypeOK' /\ ApplicationTypeOK'
    BY <1>1, <2>1, SeqTypes DEF ChannelTypeOK, ApplicationTypeOK
  <2>3. QueuedAsked'
    BY <2>1 DEF QueuedAsked
  <2> QED
    BY <1>1, <2>2, <2>3
<1>4. CASE exit
  BY <1>1, <1>4 DEF exit, inbox, ChannelTypeOK, ApplicationTypeOK, QueuedAsked
<1>5. CASE \E call \in calls : reply(call)
  <2>1. PICK call \in calls : reply(call)
    BY <1>5
  <2>2. Append(on_reply, call) \in Seq(CallSet)
    BY SeqTypes DEF ApplicationTypeOK, ChannelTypeOK
  <2> QED
    BY <1>1, <2>1, <2>2 DEF reply, ChannelTypeOK, ApplicationTypeOK, QueuedAsked
<1> QED
  BY <1>2, <1>3, <1>4, <1>5 DEF Application

LEMMA NetworkTypes ==
  ASSUME TypeInv, Network, UNCHANGED serverVars
  PROVE  TypeInv'
<1> USE DEF TypeInv, TypeOK
<1>1. /\ ActorTypeOK' /\ RegistryTypeOK' /\ ServerTypeOK' /\ ApplicationTypeOK'
      /\ StatesKept' /\ QueuedAsked'
      /\ UNCHANGED <<ping_result, rereg_result, app>>
  BY DEF Network, Break, Mute, ReceiverCloses, ids, registries, waits, app, inbox,
         serverVars, ActorTypeOK, RegistryTypeOK, ApplicationTypeOK, ServerTypeOK,
         StatesKept, QueuedAsked
<1>2. CASE Break
  <2>1. PICK n \in 0 .. Len(on_message) :
          \/ on_message' = SubSeq(on_message, 1, n)
          \/ on_message' = Append(SubSeq(on_message, 1, n), [type |-> "fragment"])
    BY <1>2 DEF Break
  <2>2. SubSeq(on_message, 1, n) \in Seq(Incoming)
    BY SeqTypes DEF ChannelTypeOK
  <2>3. [type |-> "fragment"] \in Incoming
    BY DEF Incoming
  <2>4. on_message' \in Seq(Incoming)
    BY <2>1, <2>2, <2>3, SeqTypes
  <2> QED
    BY <1>1, <1>2, <2>4, EmptyQueue DEF Break, ChannelTypeOK, app
<1>3. CASE Mute
  BY <1>1, <1>3, EmptyQueue DEF Mute, waits, app, ChannelTypeOK
<1>4. CASE ReceiverCloses
  BY <1>1, <1>4 DEF ReceiverCloses, app, ChannelTypeOK
<1> QED
  BY <1>2, <1>3, <1>4 DEF Network

(* The server: whatever it does, the client only sees the two ends of the  *)
(* connection.                                                             *)
LEMMA ServerStepTypes ==
  ASSUME TypeInv, UNCHANGED untouchedByServer, ServerTypeOK',
         to_server' \in Seq(Outgoing), on_message' \in Seq(Incoming)
  PROVE  TypeInv'
<1> USE DEF TypeInv, TypeOK, untouchedByServer, link, ids, registries, app, inbox
<1>1. ActorTypeOK' /\ RegistryTypeOK'
  BY DEF ActorTypeOK, RegistryTypeOK
<1>2. ChannelTypeOK' /\ ApplicationTypeOK'
  BY DEF ChannelTypeOK, ApplicationTypeOK
<1>3. StatesKept' /\ QueuedAsked'
  BY DEF StatesKept, QueuedAsked
<1> QED
  BY <1>1, <1>2, <1>3

(* What a message to the server holds, by its operation.                   *)
LEMMA OutgoingCases ==
  ASSUME NEW m \in Outgoing
  PROVE  /\ m.op \in AllOps \cup {"Hello", "Reply", "Ping"}
         /\ m.op \in AllOps \cup {"Ping"} => m.id \in Ids /\ m.to \in Chans
         /\ m.op \in AllOps => m.path \in Paths
         /\ m.op \in AllOps \ {"StateChanged"} => m \in PlainRequests
         /\ m.op = "StateChanged" => m.value \in StateVals
         /\ m.op = "Reply" => m.call \in CallSet
  BY DEF Outgoing, PlainRequests, ValueRequests, PingRequests, AllOps

LEMMA AnswerTypes ==
  ASSUME TypeInv, NEW req, req.id \in Ids, req.to \in Chans, NEW res \in Results,
         Deliver(Answer(req, res))
  PROVE  on_message' \in Seq(Incoming)
<1>1. Answer(req, res) \in Incoming
  BY DEF Answer, Incoming
<1> QED
  BY <1>1, SeqTypes DEF Deliver, TypeInv, TypeOK, ChannelTypeOK

LEMMA ReceivesTypes ==
  ASSUME TypeInv, NEW m, Receives(m)
  PROVE  /\ m \in Outgoing /\ to_server' \in Seq(Outgoing)
         /\ UNCHANGED untouchedByServer
  BY SeqTypes DEF TypeInv, TypeOK, ChannelTypeOK, Receives

LEMMA ServerReceivesTypes ==
  ASSUME TypeInv, ServerReceives
  PROVE  TypeInv'
<1> PICK m \in {to_server[i] : i \in 1 .. Len(to_server)} :
      \/ ServerHello(m) \/ ServerPing(m) \/ ServerAccepts(m) \/ ServerRefuses(m)
      \/ ServerStateChanged(m) \/ ServerPostpones(m) \/ ServerGetsReply(m)
  BY DEF ServerReceives
<1>1. Receives(m)
  BY DEF ServerHello, ServerPing, ServerAccepts, ServerRefuses, ServerStateChanged,
         ServerPostpones, ServerGetsReply
<1>2. /\ m \in Outgoing /\ to_server' \in Seq(Outgoing)
      /\ UNCHANGED untouchedByServer /\ UNCHANGED <<world, pushes>>
  BY <1>1, ReceivesTypes DEF Receives
<1>3. {"Success", "Error"} \cup StateVals \subseteq Results
  BY DEF Results
<1>4. ServerTypeOK
  BY DEF TypeInv, TypeOK
<1>5. on_message \in Seq(Incoming) /\ conn \in ClientIds
  BY DEF TypeInv, TypeOK, ChannelTypeOK, ActorTypeOK, ClientIds
<1>6. ServerTypeOK' /\ on_message' \in Seq(Incoming)
  <2> USE <1>2, <1>3, <1>4, <1>5 DEF ServerTypeOK
  <2>1. CASE ServerHello(m)
    <3>1. /\ [type |-> "hello_id", client |-> conn] \in Incoming
          /\ [type |-> "hello"] \in Incoming
      BY DEF Incoming
    <3> QED
      BY <2>1, <3>1, SeqTypes DEF ServerHello, Deliver
  <2>2. CASE ServerPing(m)
    BY <2>2, OutgoingCases, AnswerTypes DEF ServerPing
  <2>3. CASE ServerAccepts(m)
    <3>1. m.id \in Ids /\ m.to \in Chans /\ m.path \in Paths
      BY <2>3, OutgoingCases DEF ServerAccepts, Registrations, AllOps
    <3>2. (IF m.op = "StateObserve" THEN world[m.path] ELSE "Success") \in Results
      BY <3>1
    <3>3. on_message' \in Seq(Incoming)
      BY <2>3, <3>1, <3>2, AnswerTypes DEF ServerAccepts
    <3>4. Step(m.op, m.path) \in Steps
      BY <2>3, <3>1 DEF ServerAccepts, Step, Steps
    <3> QED
      BY <2>3, <3>3, <3>4 DEF ServerAccepts
  <2>4. CASE ServerRefuses(m)
    <3>1. m.id \in Ids /\ m.to \in Chans
      BY <2>4, OutgoingCases DEF ServerRefuses, Registrations, AllOps
    <3> QED
      BY <2>4, <3>1, AnswerTypes DEF ServerRefuses
  <2>5. CASE ServerStateChanged(m)
    <3>1. m.id \in Ids /\ m.to \in Chans /\ m.path \in Paths /\ m.value \in StateVals
      BY <2>5, OutgoingCases DEF ServerStateChanged, AllOps
    <3>2. on_message' \in Seq(Incoming)
      BY <2>5, <3>1, AnswerTypes DEF ServerStateChanged
    <3> QED
      BY <2>5, <3>1, <3>2 DEF ServerStateChanged
  <2>6. CASE ServerPostpones(m)
    BY <2>6, OutgoingCases DEF ServerPostpones, AllOps, PendingRequests
  <2>7. CASE ServerGetsReply(m)
    BY <2>7 DEF ServerGetsReply
  <2> QED
    BY <2>1, <2>2, <2>3, <2>4, <2>5, <2>6, <2>7
<1> QED
  BY <1>2, <1>6, ServerStepTypes

LEMMA ServerTypes ==
  ASSUME TypeInv, Server
  PROVE  TypeInv'
<1>1. CASE ServerReceives
  BY <1>1, ServerReceivesTypes
<1>2. ServerTypeOK /\ on_message \in Seq(Incoming) /\ to_server \in Seq(Outgoing)
  BY DEF TypeInv, TypeOK, ChannelTypeOK
<1>3. CASE \E req \in srv_pending : ServerAnswers(req)
  <2>1. PICK req \in srv_pending : ServerAnswers(req)
    BY <1>3
  <2>2. req.id \in Ids /\ req.to \in Chans
    BY <1>2 DEF ServerTypeOK, PendingRequests, PlainRequests
  <2>3. on_message' \in Seq(Incoming)
    BY <2>1, <2>2, AnswerTypes DEF ServerAnswers, Results
  <2>4. ServerTypeOK'
    BY <1>2, <2>1 DEF ServerAnswers, ServerTypeOK
  <2> QED
    BY <1>2, <2>1, <2>3, <2>4, ServerStepTypes DEF ServerAnswers
<1>4. pushes < MaxPushes => pushes + 1 \in 0 .. MaxPushes
  BY <1>2, ServerAssumption DEF ServerTypeOK
<1>5. ASSUME NEW path \in Paths, NEW num \in CallIds, ServerCalls(num, path)
      PROVE  TypeInv'
  <2>1. [type |-> "action_call", id |-> num, path |-> path] \in Incoming
    BY DEF Incoming
  <2>2. on_message' \in Seq(Incoming)
    BY <1>2, <1>5, <2>1, SeqTypes DEF ServerCalls, Deliver
  <2>3. ServerTypeOK'
    BY <1>2, <1>4, <1>5 DEF ServerCalls, Pushes, ServerTypeOK
  <2> QED
    BY <1>2, <1>5, <2>2, <2>3, ServerStepTypes DEF ServerCalls, Pushes
<1>6. ASSUME NEW path \in Paths, ServerNotifies(path)
      PROVE  TypeInv'
  <2>1. [type |-> "event_notify", path |-> path] \in Incoming
    BY DEF Incoming
  <2>2. on_message' \in Seq(Incoming)
    BY <1>2, <1>6, <2>1, SeqTypes DEF ServerNotifies, Deliver
  <2>3. ServerTypeOK'
    BY <1>2, <1>4, <1>6 DEF ServerNotifies, Pushes, ServerTypeOK
  <2> QED
    BY <1>2, <1>6, <2>2, <2>3, ServerStepTypes DEF ServerNotifies, Pushes
<1>7. ASSUME NEW path \in Paths, NEW value \in StateVals, WorldChanges(path, value)
      PROVE  TypeInv'
  <2>1. [type |-> "state_changed", path |-> path, value |-> value] \in Incoming
    BY DEF Incoming
  <2>2. on_message' \in Seq(Incoming)
    BY <1>2, <1>7, <2>1, SeqTypes DEF WorldChanges, Deliver
  <2>3. ServerTypeOK'
    BY <1>2, <1>4, <1>7 DEF WorldChanges, ServerTypeOK
  <2> QED
    BY <1>2, <1>7, <2>2, <2>3, ServerStepTypes DEF WorldChanges
<1> QED
  BY <1>1, <1>3, <1>5, <1>6, <1>7 DEF Server

LEMMA NextTypes ==
  ASSUME TypeInv, [Next]_vars
  PROVE  TypeInv'
<1>1. CASE ActorCloses /\ ForgetConnection
  BY <1>1, ConnectTypes, BackoffExitTypes DEF ActorCloses
<1>2. CASE ActorRuns /\ UNCHANGED serverVars
  <2>1. \/ BackoffExpires \/ close_fails \/ actorpp_connect
        \/ write_hello \/ reregister_done
        \/ \E step \in rereg : reregister_send(step) \/ check_result(step)
        \/ read_close \/ read_message \/ see_exit \/ read_ping_result
        \/ read_reply \/ read_command \/ idle_timeout \/ ping_timeout_expires
    BY <1>2 DEF ActorRuns, do_hello, wait_for_reply, loop
  <2> QED
    BY <1>2, <2>1, ControlStepsTypes, CloseFailsTypes, ActorppConnectTypes,
       WriteHelloTypes, ReregisterSendTypes, CheckResultTypes, ReadMessageTypes,
       ReadReplyTypes, ReadCommandTypes, IdleTimeoutTypes
<1>3. CASE Application /\ UNCHANGED serverVars
  BY <1>3, ApplicationTypes
<1>4. CASE Network /\ UNCHANGED serverVars
  BY <1>4, NetworkTypes
<1>5. CASE Server
  BY <1>5, ServerTypes
<1>6. CASE UNCHANGED vars
  <2>1. /\ UNCHANGED untouchedByServer /\ UNCHANGED <<to_server, on_message>>
        /\ UNCHANGED serverVars
    BY <1>6 DEF vars, clientVars, untouchedByServer, waits
  <2>2. ServerTypeOK' /\ to_server' \in Seq(Outgoing) /\ on_message' \in Seq(Incoming)
    BY <2>1 DEF TypeInv, TypeOK, ServerTypeOK, ChannelTypeOK, serverVars
  <2> QED
    BY <2>1, <2>2, ServerStepTypes
<1> QED
  BY <1>1, <1>2, <1>3, <1>4, <1>5, <1>6 DEF Next, Finished

LEMMA TypeInvariant == Spec => []TypeInv
<1>1. Init => TypeInv
  BY InitTypes
<1>2. TypeInv /\ [Next]_vars => TypeInv'
  BY NextTypes
<1> QED
  BY <1>1, <1>2, PTL DEF Spec

(* Every variable keeps its type, for any set of paths, values and         *)
(* requests and whatever the bounds and the faults.                        *)
THEOREM TypeCorrect == Spec => []TypeOK
<1>1. TypeInv => TypeOK
  BY DEF TypeInv
<1> QED
  BY <1>1, TypeInvariant, PTL

-----------------------------------------------------------------------------
(* Between the two steps of connect() nothing is left of the old           *)
(* connection.                                                             *)
Clean ==
  pc = "connecting" =>
    /\ sock = "none" /\ to_server = <<>> /\ on_message = <<>>
    /\ ~on_close /\ ping_result = <<>> /\ ~ping_timeout
    /\ reply_channels = [n \in Ids |-> None]
    /\ srv_regs = {} /\ srv_pending = {} /\ srv_calls = {}
    /\ srv_state = [p \in Paths |-> Unknown]
    /\ \A p \in Paths : observed_states[p] # None => view[p] = <<Unknown>>

LEMMA CleanStep ==
  ASSUME TypeInv, Clean, [Next]_vars
  PROVE  Clean'
<1> USE DEF Clean
<1>1. CASE ActorCloses /\ ForgetConnection
  <2>1. CASE connect
    <3>1. view' = [p \in Paths |-> IF observed_states[p] # None THEN <<Unknown>>
                                                                ELSE view[p]]
      BY <2>1 DEF connect, cleanup_connection, tell_observers
    <3> QED
      BY <1>1, <2>1, <3>1
      DEF connect, cleanup_connection, stop_receiver, fail_outstanding,
          clear_channels, ForgetConnection, untouched, registries
  <2> QED
    BY <1>1, <2>1 DEF ActorCloses, BackoffExit
<1>2. CASE ActorRuns /\ UNCHANGED serverVars
  <2>1. pc' # "connecting"
    BY <1>2
    DEF ActorRuns, BackoffExpires, close_fails, actorpp_connect, write_hello,
        do_hello, reregister_send, wait_for_reply, reregister_done, loop,
        read_close, read_message, see_exit, check_result, handle_hello_message,
        handle_message, handle_reply, handle_push, read_ping_result, read_reply,
        read_command, idle_timeout, ping_timeout_expires, send_send_buf, ActionCall,
        ActionRegister, StateRegister, StateChanged, StateObserve, EventRegister,
        EventEmit, EventListen, Get, Set, command, Disconnect
  <2> QED
    BY <2>1
<1>3. CASE Application /\ UNCHANGED serverVars
  BY <1>3
  DEF Application, Ask, reply, test_disconnect, exit, serverVars, link, waits,
      inbox, registries
<1>4. CASE Network /\ UNCHANGED serverVars
  BY <1>4
  DEF Network, Break, Mute, ReceiverCloses, serverVars, waits, inbox, registries
<1>5. CASE Server
  <2>1. UNCHANGED untouchedByServer
    BY <1>5 DEF Server, ServerReceives, ServerHello, ServerPing, ServerAccepts,
                ServerRefuses, ServerStateChanged, ServerPostpones, ServerGetsReply,
                Receives, ServerAnswers, ServerCalls, ServerNotifies, Pushes,
                WorldChanges
  <2>2. CASE sock = "up"
    BY <2>1, <2>2 DEF untouchedByServer, link
  <2>3. CASE sock # "up"
    <3>1. UNCHANGED <<to_server, on_message, srv_regs, srv_pending, srv_calls, srv_state>>
      BY <1>5, <2>3
      DEF Server, ServerReceives, ServerHello, ServerPing, ServerAccepts,
          ServerRefuses, ServerStateChanged, ServerPostpones, ServerGetsReply,
          Receives, ServerAnswers, ServerCalls, ServerNotifies, Pushes, WorldChanges
    <3> QED
      BY <2>1, <3>1 DEF untouchedByServer, link, inbox, registries
  <2> QED
    BY <2>2, <2>3
<1>6. CASE UNCHANGED vars
  BY <1>6 DEF vars, clientVars, link, waits, inbox, registries, serverVars
<1> QED
  BY <1>1, <1>2, <1>3, <1>4, <1>5, <1>6 DEF Next, Finished

LEMMA CleanInvariant == Spec => []Clean
<1>1. Init => Clean
  BY DEF Init, ClientInit, Clean
<1>2. TypeInv /\ Clean /\ [Next]_vars => Clean'
  BY CleanStep
<1> QED
  BY <1>1, <1>2, TypeInvariant, PTL DEF Spec

=============================================================================
