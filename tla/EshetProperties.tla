-------------------------- MODULE EshetProperties --------------------------
(* What the client of EshetSystem promises.                                *)
EXTENDS EshetSystem, SequencesExt

(* The type of every variable.                                             *)
Commands ==
  [op : AllOps \ {"StateChanged"}, path : Paths, value : Values \cup {None}]
  \cup [op : {"StateChanged"}, path : Paths, value : StateVals]
Steps    == [op : Registrations \cup {"StateChanged"}, path : Paths]
CallSet  == [connection_id : 0 .. ConnMod - 1, id : CallIds, path : Paths,
             conn : 0 .. MaxConns]
ClientIds == 0 .. MaxConns
PlainRequests ==
  [op : AllOps \ {"StateChanged"}, id : Ids, path : Paths,
   value : Values \cup {None}, to : Chans]
PendingRequests ==
  {m \in PlainRequests : m.op \in {"ActionCall", "EventEmit", "Get", "Set"}}
ValueRequests ==
  [op : {"StateChanged"}, id : Ids, path : Paths, value : StateVals, to : Chans]
PingRequests ==
  [op : {"Ping"}, id : Ids, path : {None}, value : {None}, to : Chans]
Outgoing ==
  [op : {"Hello"}, client : ClientIds \cup {None}]
  \cup [op : {"Reply"}, call : CallSet]
  \cup PlainRequests \cup ValueRequests \cup PingRequests
ReplyChannels == [to : Chans, type : {"Result", "StateResult"}]
Results  == {"Success", "Error"} \cup StateVals
Incoming ==
  [type : {"hello", "fragment"}]
  \cup [type : {"hello_id"}, client : ClientIds]
  \cup [type : {"reply"}, id : Ids, res : Results, to : Chans]
  \cup [type : {"action_call"}, id : CallIds, path : Paths]
  \cup [type : {"event_notify"}, path : Paths]
  \cup [type : {"state_changed"}, path : Paths, value : StateVals]
Stages == {"connect", "connecting", "send_hello", "hello", "reregister",
           "wait_for_reply", "main", "backoff", "exited", "Disconnected",
           "ProtocolError", "runtime_error"}

(* "Nothing" is not one of the things that can be there.                   *)
ASSUME NoneAssumption == None \notin ReplyChannels /\ None \notin Commands

ActorTypeOK ==
  /\ pc \in Stages /\ conn \in 0 .. MaxConns
  /\ id \in ClientIds \cup {None} /\ next_id \in Ids
  /\ reply_channels \in [Ids -> ReplyChannels \cup {None}]
  /\ clash \in BOOLEAN
  /\ ping_timeout \in BOOLEAN /\ unpacker \in {"empty", "partial"}
  /\ rereg \in SUBSET Steps
RegistryTypeOK ==
  /\ action_channels \in [Paths -> Reqs \cup {None}]
  /\ registered_states \in [Paths -> StateVals \cup {None}]
  /\ observed_states \in [Paths -> Reqs \cup {None}]
  /\ registered_events \in SUBSET Paths
  /\ listened_events \in [Paths -> Reqs \cup {None}]
ChannelTypeOK ==
  /\ on_command \in Seq(Reqs \cup {"Disconnect"})
  /\ on_message \in Seq(Incoming) /\ on_close \in BOOLEAN
  /\ on_reply \in Seq(CallSet)
  /\ ping_result \in Seq(Results) /\ rereg_result \in Seq(Results)
  /\ should_exit \in BOOLEAN
  /\ sock \in {"none", "up", "mute", "down", "closed"}
  /\ to_server \in Seq(Outgoing)
ApplicationTypeOK ==
  /\ asked \in [Reqs -> Commands \cup {None}]
  /\ results \in [Reqs -> Seq([res : Results, src : Chans \cup {"local"}])]
  /\ view \in [Paths -> Seq(StateVals)]
  /\ events \in [Paths -> Nat] /\ calls \in SUBSET CallSet
ServerTypeOK ==
  /\ srv_regs \in SUBSET Steps
  /\ srv_pending \in SUBSET PendingRequests
  /\ srv_state \in [Paths -> StateVals] /\ srv_calls \in SUBSET CallIds
  /\ world \in [Paths -> StateVals] /\ pushes \in 0 .. MaxPushes

TypeOK ==
  ActorTypeOK /\ RegistryTypeOK /\ ChannelTypeOK /\ ApplicationTypeOK /\ ServerTypeOK

-----------------------------------------------------------------------------
(* Requests and results.                                                   *)

Queued(r)   == \E i \in 1 .. Len(on_command) : on_command[i] = r
Answered(r) == results[r] # <<>>

(* No request is lost, and none is in two places: what the application     *)
(* asked for waits in on_command, or its channel waits in reply_channels,  *)
(* or it has its one result.  Only the reuse of an id still waited for     *)
(* (reply_channels.emplace on an occupied key) drops a channel.            *)
RequestsConserved ==
  \A r \in Reqs :
    /\ Len(results[r]) <= 1
    /\ ~(Queued(r) /\ r \in Outstanding)
    /\ Answered(r) => ~Queued(r) /\ r \notin Outstanding
    /\ asked[r] # None => Queued(r) \/ r \in Outstanding \/ Answered(r) \/ clash

(* The result of a request is the server's answer to that request, or the  *)
(* "disconnected" of cleanup_connection; never the answer to another one,  *)
(* of this connection or of an earlier one.                                *)
ResultsAreOwn ==
  \A r \in Reqs : \A i \in 1 .. Len(results[r]) :
    results[r][i].src \in {r, "local"} \/ clash

(* The actor, its queues and its connections implement RequestReply: seen  *)
(* from the threads that make requests, however connections break and ids  *)
(* are reused, a result channel receives nothing but one result, of the    *)
(* type its request has, and after the request was made.                   *)
AnswersTo == [c \in Commands |-> {res \in Results : Converts(res, ReplyType(c.op))}]
Promise == INSTANCE RequestReply
  WITH Requests <- Reqs, Answers <- AnswersTo, Failure <- "Error",
       answer <- [r \in Reqs |-> [i \in 1 .. Len(results[r]) |-> results[r][i].res]]
PromiseKept == Promise!Spec

(* Against a server that keeps to the protocol, ProtocolError ends the     *)
(* actor only after an id was reused while waited for, or after stale      *)
(* bytes were left in the unpacker by an earlier connection.  So every     *)
(* reply finds its channel with the right type, every call, event and      *)
(* change finds its path, and no ping fails because of a disconnection.    *)
ProtocolErrorExplained ==
  pc = "ProtocolError" => clash \/ unpacker = "partial"

(* "ultimately push their result onto the provided result_chan": no        *)
(* request is ever lost, the reuse of ids included.                        *)
NoRequestForgotten ==
  \A r \in Reqs :
    asked[r] # None => Queued(r) \/ r \in Outstanding \/ Answered(r)

(* loop() "returns if there was an error": no exception ends the actor     *)
(* because a connection broke.                                             *)
LoopReturns == pc # "Disconnected"

(* Once exit() has taken effect no request that reached the actor is left  *)
(* without a result, and nothing is kept open.                             *)
ExitLeavesNothing ==
  pc = "exited" =>
    /\ Outstanding = {} /\ sock = "none" /\ ~ping_timeout
    /\ \A r \in Reqs : asked[r] # None => Answered(r) \/ Queued(r) \/ clash

-----------------------------------------------------------------------------
(* Registrations.                                                          *)

(* The client stays who it is: the id the server gave to its first         *)
(* connection is the one it says hello with on every later one, so that    *)
(* the server never gives it another.                                      *)
IdentityKept == [][id # None => id' = id]_vars

(* loop() starts serving commands on a new connection only when the server *)
(* has accepted everything the application has registered since the client *)
(* was made, and holds the value each of its states had last.              *)
MainMeansRestored ==
  [][pc = "reregister" /\ pc' = "main" /\ sock = "up" =>
       /\ \A s \in reregister_steps : s.op # "StateChanged" => s \in srv_regs
       /\ \A p \in Paths : registered_states[p] # None =>
                             srv_state[p] = registered_states[p]]_vars

(* A value the application published is what the server holds, as soon as  *)
(* no change is on its way, whatever became of the connections it was      *)
(* published over, unless the server refused that very value: then this is *)
(* the result of the request that published it, or the answer that will be *)
(* is on its way.  This is so until an id is reused while it is waited for.*)
RefusalArrives(r) ==
  \E i \in 1 .. Len(on_message) :
    /\ on_message[i].type = "reply" /\ on_message[i].to = r
    /\ on_message[i].res = "Error"
PublishedArrives ==
  \A p \in Paths :
    /\ pc = "main" /\ sock = "up" /\ ~clash
    /\ \A i \in 1 .. Len(to_server) : to_server[i].op # "StateChanged"
    /\ Step("StateRegister", p) \in srv_regs
    => \/ srv_state[p] = registered_states[p]
       \/ \E r \in Reqs :
            /\ asked[r] = Command("StateChanged", p, registered_states[p])
            /\ \/ results[r] = <<[res |-> "Error", src |-> r]>>
               \/ RefusalArrives(r)

-----------------------------------------------------------------------------
(* Observed states.                                                        *)

(* While a new connection is being set up, an observer whose state has not *)
(* been asked for again is left with Unknown, never with a value of the    *)
(* old connection.                                                         *)
ObserverForgets ==
  \A p \in Paths :
    /\ observed_states[p] # None
    /\ \/ pc \in {"connecting", "send_hello", "hello"}
       \/ pc = "reregister" /\ Step("StateObserve", p) \in rereg
    => view[p] = <<Unknown>>

ObservesQuietly(p) ==
  /\ pc = "main" /\ sock = "up" /\ on_message = <<>>
  /\ Step("StateObserve", p) \in srv_regs
  /\ view[p] # <<>>

(* When nothing is on its way, what the observer received last is the      *)
(* value of the state.                                                     *)
ObserverIsCurrent ==
  \A p \in Paths : ObservesQuietly(p) => Last(view[p]) = world[p]

(* The same with the one exception there is: after a reconnection, changes *)
(* that arrived together with the reply to state_observe are passed on     *)
(* before it, so that the value in the reply comes last.                   *)
ObserverIsNearlyCurrent ==
  \A p \in Paths : ObservesQuietly(p) =>
    \/ Last(view[p]) = world[p]
    \/ conn > 1 /\ Len(view[p]) > 2 /\ view[p][Len(view[p]) - 1] = world[p]

-----------------------------------------------------------------------------
(* Calls from the server.                                                  *)

ReplySent(i) == to_server[i].op = "Reply"

(* The server only gets replies to calls of this connection, to calls it   *)
(* still waits for, and once: loop() drops the reply to a call of an       *)
(* earlier connection.  A connection id is 16 bits, so this holds while    *)
(* fewer connections than that lie between the call and its reply.         *)
RepliesAreAwaited ==
  \A i \in 1 .. Len(to_server) : ReplySent(i) =>
    LET call == to_server[i].call
    IN /\ call.conn = conn \/ conn - call.conn >= ConnMod
       /\ conn <= ConnMod =>
            /\ call.id \in srv_calls
            /\ \A j \in 1 .. Len(to_server) :
                 ReplySent(j) /\ to_server[j].call.id = call.id => i = j

-----------------------------------------------------------------------------
(* Liveness, under FairSpec.                                               *)

(* exit() always ends the actor: every wait of the code listens to it.     *)
ExitStops == should_exit ~> Stopped

(* A connection that breaks or goes silent while the actor serves it is    *)
(* given up: by on_close, or because a ping stays unanswered.              *)
DeadPeerNoticed == (pc = "main" /\ sock # "up") ~> pc # "main"

(* A connection that stays up is brought to the point where commands are   *)
(* served, and not given up before: the server's hello, and every reply    *)
(* reregister() waits for, are not missed however they interleave with     *)
(* other messages, and nothing of the last connection closes this one.     *)
SetupSucceeds ==
  \A c \in 1 .. MaxConns :
    (pc = "send_hello" /\ conn = c)
      ~> (conn = c /\ (pc = "main" \/ sock \in {"mute", "down", "closed"}
                                    \/ should_exit))

(* No peer left to talk to: the bound on connections is used up, or the    *)
(* peer went silent during set-up, where no timeout is set.                *)
NoPeer ==
  \/ conn = MaxConns /\ sock # "up"
  \/ sock = "mute" /\ pc \in {"send_hello", "hello", "reregister", "wait_for_reply"}

(* Every request gets its result, over however many connections: it is not *)
(* forgotten in the queue while the client reconnects, nor in              *)
(* reply_channels when the connection it was sent on is lost.              *)
RequestsEnd ==
  \A r \in Reqs :
    asked[r] # None ~> Answered(r) \/ Stopped \/ clash \/ NoPeer
=============================================================================
