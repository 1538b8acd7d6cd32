# Verification of eshetcpp

TLA+ models of the ESHET client library for C++ in this repository, the TLC
runs that check them, and proofs for TLAPS. Line numbers refer to
`src/include/eshet.hpp` unless a file is named; `PROJECT.json` maps every
definition to the lines it translates.

## The system

| component | state | operations | interacts with |
|---|---|---|---|
| `ESHETClientActor` (`eshet.hpp`) | socket, `reply_channels`, five registries of what the application registered, message id and connection id counters, the two timeouts, the unpacker, seven channels | the public methods (53-128) queue commands; `run` / `loop` connect, say hello, restore the registrations and then serve the channels | application threads through `on_command`, `on_reply`, `should_exit` and the result channels; the receiving thread through `on_message`, `on_close`; the server through the socket |
| Timers and backoff (same class) | `idle_timeout`, `ping_timeout`, `delay` | `loop` (172-191), `send_send_buf`, `run` | the peer's answers to pings |
| `Unpacker`, `SendBuf` header (`unpack.hpp`, `parse.hpp`) | bytes not yet understood | `push`, `read`, `start_msg`, `write_size` | the receiving thread's chunks, `handle_message` |
| `Parser`, `SendBuf` commands (`parse.hpp`) | read position, send buffer | one reader or writer for each field and command | `handle_message`, `CommandVisitor` |
| Commands, results, calls (`commands.hpp`, `data.hpp`, `util.hpp`) | none but `Call`'s ids | `Call::reply`, `convert_variant` | the actor and the application |
| actorpp (submodule, absent) | channels, `wait`, `RecvThread`, `ActorThread` | | everything |
| ESHET server (not in the repository) | registrations, values, calls | answers, calls, notifies | the client, other clients |
| command line client, completer (`src/src`) | arguments, lines, one result channel, one channel of pushes | their requests one after another, output, exit status | the client; a terminal or bash |
| msgpack to JSON (`msgpack_to_string.hpp`) | text so far, a stack of sizes | the visitor's callbacks | msgpack's `object_parser`; the actor's log, the completer |
| `log.hpp` | none | output | |

What is hard in it:

* **Interleaving.** The actor waits on up to six channels that application
  threads, the receiving thread and its own handlers fill; between a request
  and its reply any of the others may be served, and while registrations are
  restored `wait_for_reply` handles every other message in the middle.
* **Lost connections.** A connection may end between any two steps, with
  requests queued, sent, answered or answered and not read, and then everything
  is set up again from the registries. Only `cleanup_connection` stands between
  the remains of the old connection and the new one.
* **Stale things.** Replies of the application to calls of an earlier
  connection, `on_close` of the old socket, "disconnected" for a ping of the old
  connection, bytes of a cut-off frame, observed values.
* **Counters that wrap.** Message ids and connection ids have 16 bits.
* **Timeouts.** Idle timeout and ping timeout are set by different events and
  race the answers.
* **Endings.** `exit()` may come at any point of all this, and a send on a
  broken connection throws.
* **Lengths.** A frame holds what its 16 bits say, a reader what `size - pos`
  leaves it, and both are taken from bytes somebody else sent.
* **One channel for many results.** The programs read every result from the same
  channel, and a line in between may be anything.

The list of hazards, line by line, is in `PROJECT.json`, each with the
properties that would show it going wrong.

## Modules

| module | what it is |
|---|---|
| `EshetClient` | the client actor, the application threads that use it, and the connection |
| `EshetSystem` | `EshetClient` with a server: `Init`, `Next`, `Spec`, `FairSpec` |
| `EshetProperties` | types, invariants, action properties and liveness properties of `EshetSystem` |
| `MCEshet` | model values and symmetry for TLC |
| `RequestReply` | what the client promises the threads that use it; `EshetSystem` implements it (`PromiseKept`), `Programs` is built on it |
| `EshetProofs` | proof that `EshetSystem` keeps its types |
| `RequestProofs` | proofs that no request is lost, that each gets its own result, and that `EshetSystem` implements `RequestReply` |
| `SetupProofs` | proofs about setting connections up, restoring registrations and what may be on its way |
| `StateProofs` | proofs about the values that the client publishes and observes |
| `CallProofs` | proof that a late reply to a call of the server reaches no other connection |
| `Keepalive`, `KeepaliveProofs` | time: the timeouts of `loop` and the delays of `run`, and proofs |
| `Bytes` | the base of a byte, and the digits of a number |
| `Framing` | frames, chunks and the `Unpacker`, byte by byte |
| `MessageFifo` | what framing is for: a FIFO of whole messages, which `Wire` implements |
| `Parser` | the readers of `Parser` and the writers of `SendBuf`, field by field |
| `Stringizer` | `msgpack_to_string`, and JSON to compare it with |
| `Wire` | one direction of a connection: `Framing` and `Parser` composed, with the fields of every message |
| `WireProofs` | proofs about `Framing`, `Parser`, `Wire`, `Stringizer` and `ErrorLog` |
| `ErrorLog`, `MCWire` | `Wire` with `Stringizer`, which puts the values of errors into the log; messages and objects for TLC |
| `Programs`, `MCPrograms` | the seven commands of `eshet` and the completer, over `RequestReply`; texts, words and directories for TLC |
| `ProgramProofs` | proofs about what the programs send, print and return, and what the completer offers |

An operator `X_how` just before a definition `X` is `X` with a mistake a
programmer could make (a forgotten reset, a wrong order, an off-by-one). The
models do not use these; putting one in the place of `X` makes the property
that `PROJECT.json` names for it fail, which shows that the property depends on
the code.

### The client

`pc` says where `run` and `loop` stand: `connect`, `connecting` (past
`cleanup_connection`), `send_hello`, `hello` (in `do_hello`), `reregister`
(about to send the next registration), `wait_for_reply`, `main` (the loop
172-223), `backoff` (the wait 149), `exited`, and the three exceptions nothing
catches, `Disconnected`, `ProtocolError` and the `runtime_error` of a `close()`
that fails (249). An action is what the actor does between two waits: a whole
case of the `switch` it waits in, with everything that case calls. `connect` is
two actions, since it takes its time: `connect` is `cleanup_connection`, and
`actorpp_connect` makes the socket and starts the thread that receives from it.
Within `cleanup_connection` only the receiving thread could interfere, and only
as long as `recv_thread.reset()` has not ended it: `stop_receiver` is that step,
and its wrong version `stop_receiver_too_late` leaves the thread to report the
old connection while the new one is made. The variables carry the names of the
members; `rereg` is the position in `reregister`'s five loops, as the set of
steps that are left. Those loops go over `std::map`s in order; `Precedes` is
that order. `reply_channels` remembers for each id which channel and which of
the two result types it is for.

The application is one action for each kind of call it can make (`Ask`,
`reply`, `test_disconnect`, `exit`), at any time; a request is named by its
result channel, and `results` is what that channel received. `view`, `events`
and `calls` are what the application received through the channels it
registered.

The receiving thread and the socket's receiving half are one FIFO,
`on_message`, whose end the server appends to; the sending half is `to_server`.
`sock` is `up`, `mute` (the peer is gone, nobody knows), `down` (broken),
`closed` (broken, and `on_close` was pushed) or `none`. `Break` loses any suffix
of what the server sent, perhaps in the middle of a message, and everything the
server had not processed. A send on a broken connection is lost or, if the
environment may do that (`reset`), throws.

The server is external: it answers each request once, with a reply of the kind
the request calls for, in order except for those that wait for other clients;
it only sends what the connection registered for; it refuses a state already
registered on the connection, a change of a state the connection does not own,
and, where `refuse` is allowed, any registration; it forgets a connection when
it ends.

Ghosts (no counterpart in the code): `asked`, `results`, `view`, `events` and
`calls` record the application's side; `clash` records that an id was given out
while still waited for; `to` in messages says which request a message belongs
to, and `conn` in calls which connection it really came over.

Abstractions, and why they keep what the properties see:

* Payloads are model values or left out. A Success has no value of its own.
* `wait` serves any channel that has something to read. The library picks in a
  fixed order; every behaviour of that is among those of the model.
* A chunk of the stream is a message, or the first part of one. That chunks
  have nothing to do with messages is the subject of `Framing`.
* After a cut-off message, bytes of the next connection are lost in the middle
  of it, or make the unpacker throw (`unpacker = "partial"`); what such a stream
  may decode to is not followed. A hello is too short to be torn in the model.
* A message that is there when the hello is read may have come in the chunk of
  the hello, which is an error (285-287), or in the next: `more` is either.
* The timeouts of `loop` may expire whenever no channel has anything to read;
  with `MaxPings = 1` at most one ping is out, which is so whenever
  `ping_timeout < idle_ping`, as by default. `Keepalive` has the real times.
* `StateChanged` sends `cmd.value` after moving it into the registry (484-486).
  What the move leaves is external: `moved_from` takes a
  `msgpack::object_handle` to give up the memory it held for its object and
  nothing else. If it were emptied, `PublishedArrives` would fail.
* The application asks for nothing after `exit()`, gives no client id at
  construction, and has one `Disconnect` queued at a time.

### Time

`Keepalive` counts the timeouts down in ticks of a second. A tick may pass only
when nothing is due, the answer of a living peer to a ping included, which takes
at most `RoundTrip`. `send` is anything the application sends: like a ping it
sets the idle timeout back (561). `gone_for` therefore counts from the moment
the peer vanished or the application last sent something, whichever was later.
`closed` and an early end of `loop` stand for everything else that ends a
connection. `waits` counts the waits since the last long connection, up to
`MaxWaits`, past which the delay no longer changes.

### Bytes

All of this has `Base` byte values instead of 256, so that a length needs both
of its bytes with messages of three bytes, and a message of nine does not fit.
`Magic` is 0x47.

`Framing` is the sender's `send_send_buf`, the wire, which is cut anywhere, and
`Unpacker`. A message too long for two bytes is sent with a smaller length
(`parse.hpp:98`), and `send()` may leave out the end of a frame
(`eshet.hpp:562`); either sets the ghost `spoiled`. `queue`, another ghost, is
what the abstract FIFO holds. `reconnect` leaves `buffer` alone as
`cleanup_connection` leaves the unpacker.

`Parser` reads the fields of one message: `todo` says which kinds of field the
code still reads, `got` holds those read, and `outcome` is `parsing`, then
`accepted` or the exception. `remaining` is `size - pos` modulo `SizeMod`, as
`size_t` has it. A msgpack object is a byte sequence of `Packs`, of which none
begins another: that is all the readers see of it. `read_msgpack` leaves `pos`
at the end of the message, whatever the object took of it.

`Wire` puts them together. `ServerFields` and `ClientFields` are the fields of
each message type as the handlers read and the writers write them; `receiver`
says which end is looked at. The server is taken to write and read as the client
does. Besides messages, and in the place of its hello, it may send any other
bytes (`Malformed`), those after the first below `Base`; the first is the type,
which the model numbers as the code does. `ReadAsWritten` says that what a sender wrote is accepted and
understood as it was written, `NothingElseAccepted` that what is accepted is a
message of the protocol for that end and that, written again, it is the bytes
received, but for bytes after an object, which the readers do not notice.

The value of the error that refuses a registration after a reconnection is put
into the log with `append_msgpack` (`CheckResultBase`, 419-424), which
`Stringizer` models as the visitor that takes the calls of msgpack's
`object_parser` one by one. An object is a sequence of numbered nodes, the parts
before what they are parts of, so that calls and JSON text are functions from
the numbers: nodes instead of nested values because nothing can be proved about
RECURSIVE operators. The strings in both are escaped by the same `escape`, so
`LoggedAsJson` is about commas, brackets and nesting and says nothing of
escapes. `ErrorLog` adds this to `Wire`. The same goes for the loop
of the completer, `candidates`.

### Programs

`Programs` has one variable `pc` for where `main` stands in whichever command
runs, one action for each piece of code between two waits, and the client of
`RequestReply` (`INSTANCE`) in place of the real one: a request is answered
once, or fails because the connection was lost. Texts are classes (a JSON text
that stands for a value, an integer that only fits `uint64_t`, no JSON, empty,
`u`, `q`); words and names are sequences of characters, since what the completer
does with slashes matters, and an entry of a directory is a pair of them, which
the completer takes apart by position. `status` is the exit status, or `abort` after an
exception that `main` does not catch.

## Runs

| run | bounds | what it shows |
|---|---|---|
| `requests` | 2 requests of the two result types, 3 ids, 2 connections, 1 ping; close, tear, reset, disconnect, exit | `RequestsConserved`, `ResultsAreOwn`, `ProtocolErrorExplained`, `ExitLeavesNothing`, `PromiseKept` (refinement of `RequestReply`) |
| `operations` | 1 request of any of the ten operations, 2 values, 4 ids, 3 connections with ids modulo 2, 3 pushes or changes of a state; close, reset, close_fails, refuse, exit | `TypeOK`, `ProtocolErrorExplained`, `RepliesAreAwaited`, `ObserverForgets`, `ObserverIsNearlyCurrent` |
| `registrations` | 3 requests among the registrations and `StateChanged`, 2 values, 2 connections; close, refuse | `PublishedArrives`, `MainMeansRestored`, `IdentityKept` |
| `liveness` | 1 request, 2 connections, 1 ping; close, reset, mute, close_fails, exit; `FairSpec` | `ExitStops`, `DeadPeerNoticed`, `SetupSucceeds`, `RequestsEnd` |
| `wire` | messages of every type, nested objects, twelve malformed messages, each also in the place of the hello; 3 messages to a connection, 1 reconnection, frames cut short by 1 or 4 bytes, one message too long | `NoByteLost`, `OnlySpoiledFails`, `CompleteMessages` (refinement of `MessageFifo`), `NoOverread`, `ReadAsWritten`, `NothingElseAccepted`, `LoggedAsJson`, `MessagesArrive` |
| `programs` | every command; 2 arguments, 3 lines, 2 pushes; 6 words, 7 answers of `/meta/ls` | `SentInOrder`, `OneResultAtATime`, `StatusHonest`, `PrintedInOrder`, `CompletesTheWord`, `ProgramsEnd`, `EverythingPrinted` |
| `keepalive` | the constants of the code: 15, 5, 1, 30 and 10 s, answers within 4 s | `GoneNoticedInTime`, `PresentPeerKept`, `BackoffDoubles` |
| `reset_escapes` | as below | `LoopReturns` fails |
| `ids_reused` | | `NoRequestForgotten` fails |
| `observer_order` | | `ObserverIsCurrent` fails |
| `entry_order` | the completer, listings of `[type, name]` | `NamesOffered` fails |
| `torn_frame` | one message type, 1 reconnection | `StreamAccepted` fails if a connection breaks inside a frame |

Why the bounds are enough to be interesting: two connections give every remnant
of the first a chance to disturb the second, three let a remnant skip one; three
ids for two requests, a ping and the registrations make ids wrap onto ones still
in use; connection ids modulo two wrap at the third connection; three requests
are a registration and two values, so that an old value can win over a new one.
With two values and three changes an observer can be left with another value
than the last one and a lost change is told from a repeated one.
The symmetric sets are requests, and values where no liveness is checked.
In `wire` three messages let one that is cut short or too long lie between two
that are not, and a path of seven bytes makes the one that is too long. In
`programs` three lines let a bad one follow a good one and precede another, and
two slashes in a word tell the first from the last.
Deadlock is checked everywhere except in `wire` and `torn_frame`, where nothing
more need be sent, and in `programs`, where a program has ended or `listen` and
`observe` wait for what need not come.

### Fairness

`FairSpec` assumes that the actor's thread runs and that the receiving thread
reports a broken connection (both are threads of the process, blocked only in
waits that a readable channel or a timeout ends); that the server processes what
it received and the other clients answer what it waits for; and that of
infinitely many attempts to connect one succeeds, while the bound allows any.
Nothing is assumed of the application, of `exit()`, of the network, or of the
server's own messages. The weak fairness of the actor is for its steps as a
whole, not for each: which channel a wait serves is not promised. `RequestsEnd`
and `DeadPeerNoticed` therefore rest on the application asking finitely often,
and `test_disconnect` is left out of that run: an endless flood on one channel
starves the others.

`Wire` assumes that chunks are received and the actor reads what it has, and
`Programs` that the program runs and each request gets a result; nothing is
assumed of what a server sends or a user types. Of the real client `RequestsEnd`
promises less than that: it excepts a client that finds no server to connect to
or whose peer goes silent during set-up (`NoPeer`), one that was stopped, and an
id that was reused while waited for. In the first two cases a program waits
until it is killed, which `ProgramsEnd` does not show: nothing in the
repository says that a program gives up.

A peer that goes silent while a connection is being set up is waited for without
a timeout (274, 394). The liveness properties say so with `NoPeer`.

## Where the code and its documentation disagree

1. **A failed send ends the client** (`reset_escapes`). `send_send_buf` throws
   `Disconnected` (564) and nothing catches it. It takes a connection that the
   peer has reset, with a command, a reply to a call or an idle ping sent before
   `on_close` is handled. The comment on `loop` (161) says it returns on errors.
2. **Requests without results after 2^16 ids** (`ids_reused`). `emplace` keeps
   the old entry (454), so the new request's channel is dropped. It takes a
   request that stays unanswered while 65536 others (pings included) are made:
   an action that takes very long, for example. The class comment (32) promises
   a result.
3. **Observers can be left with an old value** (`observer_order`). A change that
   directly follows the reply to `state_observe` is handled before
   `wait_for_reply` returns (352), and the older value of the reply is pushed
   after it. `test_state.cpp:84` expects the last value to come last.
   `ObserverIsNearlyCurrent` says that this is the only way it goes wrong.
4. **A cut-off frame spoils the next connection** (`torn_frame`).
   `cleanup_connection` (243) does not clear the unpacker (723).
5. **The completer reads entries the other way round than it says**
   (`entry_order`). The comment at `complete.cpp:48` calls an entry
   `[type, name]`; line 59 takes the first part for the name. With a listing as
   the comment has it the completer offers the types. Which of the two is right
   the server knows; `CompletesTheWord` and its theorem are about the order of
   the code.

Also met: what is still in `on_command` when the client exits while it is not
connected is dropped (149) and never gets a result, which the class comment (32)
promises without mentioning the end of the client; `ExitLeavesNothing` is about
the requests taken from the queue. If `close()` fails (249) the requests that
wait for replies get none either. With a `ping_timeout`
longer than `idle_ping`, each idle ping sets the ping timeout back (181) and a
vanished peer is never noticed; an application that keeps sending to a vanished
peer keeps the client from pinging it (561); a registration that the server
refused is sent again on every connection, and its error makes each set-up fail;
the "disconnected" errors and the `Unknown` of `cleanup_connection` are pushed
only when the next attempt to connect starts, up to 30 s after the connection
was lost. `read_msgpack` does not notice bytes that follow the object, so that
`check_empty` after it never finds any (`parse.hpp:55`); a number that only fits
`uint64_t` aborts the command line client (`cli.cpp:45`); the completer ends
with 0 when the server refuses, and its port may abort it.

## Proofs

`tlapm` checks these for every value of the constants that satisfies the named
assumptions; the runs check the same properties on their instances.

* **Types** (`EshetProofs`, `TypeCorrect`: `Spec => []TypeOK`). `TypeOK` is not
  inductive: `reregister_send` sends the value of a state only if there still is
  one, and `read_command` sends what was asked only if it was. `TypeInv` adds
  these two, `StatesKept` (nothing is taken out of `registered_states` while
  `rereg` holds a step for it) and `QueuedAsked`. There is a lemma for each
  action, and `NextTypes` puts them together. `Clean` (here too, since all the
  proofs about connections use it) says that between the two steps of `connect`
  nothing of the old connection is left. Assumptions: `ClientAssumption`
  and `ServerAssumption` (the parameters are numbers and sets of the right kind,
  ids wrap at a positive number, `None` and the names of the code's own channels
  are no values, paths or requests) and `NoneAssumption` (`None` is no command
  and no reply channel).
* **Requests** (`RequestProofs`, `NoRequestLost` and `ResultsKeptApart`:
  `RequestsConserved` and `ResultsAreOwn` are invariants, for any number of
  requests, ids and connections). Neither is inductive: whether `handle_reply`
  pushes a result to the right channel depends on what is on its way. `InFlight`
  says that unless an id was reused while waited for, an id is on its way at
  most once, in a request, in the requests the server has yet to answer or in a
  reply, and that `reply_channels` then holds for it the channel and the result
  type that belong to it. `Places` says that a request is in `on_command` at
  most once, its channel in `reply_channels` at most once, and that it is in
  exactly one of the two or has its one result. `RequestInv` is these two with
  `TypeInv`. `ExitLeavesNothing` (theorem `NothingAfterExit`) follows from it and
  from `Exited`, what `BackoffExit` leaves and nothing changes any more. The
  lemmas `Flight...` say what each kind of step does to messages on their way, as
  facts about sequences and functions that do not mention the variables; each
  action is then an instance of one of them.
* **The promise** (`RequestProofs`, `SystemKeepsPromise`: `PromiseKept`, that is
  `RequestReply!Spec` with `asked` and `results` for its variables). Each step of
  the system changes these as one of the three abstract steps or not at all:
  `Ask` by a thread, `Answer` where `handle_reply` pushes a result, `Lose` where
  `fail_outstanding` pushes "disconnected" to all of `reply_channels`. That a
  result is pushed only to a request that has none follows from `RequestInv`;
  that it is of the right type, from the added `TypedChannels`. It holds whether
  or not an id was reused: then a result may be another's, or missing, but there
  are never two.
* **Setting up** (`SetupProofs`). What may be on its way is stated as the type of
  a queue, `on_message \in Seq(S)`, so that a step need only be asked what it
  adds; lemmas say that once for every kind of step.
  * `IdentityStays`. By `HelloFirst`, until the hello was answered at most one
    message is on its way, the hello or the answer to it; the answer brings an
    id only if the client sent none, and later no hello is on its way at all.
  * `ProtocolErrorsExplained`. `Agreed` says that a path the server has
    registered, is about to be asked for, or pushes something for, is in the
    registry its handler looks into, and that only pings, which succeed, answer
    to the ping channel. With `InFlight` of `RequestProofs`, no handler then meets
    anything it throws on (`Explained`), unless an id was reused while waited
    for or stale bytes are in the unpacker, which are what the two findings
    `ids_reused` and `torn_frame` are about.
  * `MainIsRestored`. `Restoring`: each step that `rereg` no longer holds was
    accepted (`Done`), nothing is on its way between two steps, and while one is
    awaited it is the first that is left and is in exactly one place, on its way
    out, in a reply, or as a result; a result other than an error means it is
    done. The server keeps what it has accepted while the connection lasts.
  * `ObserversForget`. `Forgetting`: an observed path whose turn is still to come
    (`AskedLater`) has `Unknown` in its view, the server was not asked, and no
    change of it is on its way. That turns are taken in order is what
    `FirstStep` adds.
* **Calls of the server** (`CallProofs`, `RepliesGoHome`). A call that is not
  answered is in one of four places: in `on_message`, with the application, in
  `on_reply` or, as its reply, on the way back. `CallsApart` says that while the
  connection is up the four hold different calls, each once, and only calls the
  server waits for. `CallsDated` says what the two threads share: a call that is
  with the application or in `on_reply` carries the number of its connection
  modulo `ConnMod`. `loop()` compares that with its own number; if they agree,
  the connections are the same or at least `ConnMod` apart (`SameRemainder`),
  which is the second half of the property's bound.
* **States** (`StateProofs`).
  * `PublishedStatesArrive` (`PublishedArrives`). The property speaks of a state
    of which no change is on its way; `Publishing` says for every moment of
    `main` what makes that so. The last change on its way to the server carries
    the value of the registry; if there is none, the server holds that value or
    has refused a change. A refusal is known before its result: once the server
    has taken a change out of `to_server`, its request has the server's error for
    its result, or (`Doomed`) has none yet, waits for one, and all that is left of
    it is the reply with that error. That a "disconnected" is no such error is
    what makes a lost connection count: after it, the server starts from the
    right value by `MainIsRestored` again. The reply is not lost in the unpacker,
    since a connection that is up brings whole messages only (`Whole`).
  * `ObserversNearlyCurrent` (`ObserverIsNearlyCurrent`). `Observing` says for
    every path that the server knows to be observed: the last change on its way
    to the client has the value of the state, and if there is none the observer
    has seen the value (`Seen`). While the reply to its `state_observe` is
    awaited, that reply brings the value, or a change that overtook it has
    (`Pending`). The second of these is the one way in which the value seen last
    can be an old one, the finding `observer_order`, and the theorem says that
    there is no other.
* **Framing** (`WireProofs`), for connections that do not break inside a frame:
  that is the hypothesis `~Torn`, without which the finding `torn_frame` refutes
  all of this. `StreamKeepsEveryByte` (`NoByteLost`) is preserved by `push` and
  `read` because `buffer \o wire` changes only at its ends. A frame is
  understood only where the one before it ended, so `AllFit` adds that no frame
  that waits is too long unless that has spoiled the stream; then the header
  gives the length of the first message and `Unpacker` has no reason to throw
  (`UnpackerAcceptsFrames`: `OnlySpoiledFails`), and `read` takes out the head of
  the queue (`MessagesComeOutWhole`: `CompleteMessages`, the refinement of
  `MessageFifo`). What `FlattenSeq` does with one sequence more or less is
  proved by induction, with a set of numbers in place of a property.
* **Reading** (`WireProofs`). `ReadsStayInside`: `pos` never passes the end,
  which the readers need because their comparisons are with a `size_t` difference
  that would wrap. `FieldsReadBack`: a field that is a digit, a two- or four-digit
  number, a string without NUL or an object is read back as it was written, by
  the reader of its kind, in any base and from any position. Assumptions: the base
  is positive, and no object begins another.
* **Messages** (`WireProofs`, `WrittenIsUnderstood`: `ReadAsWritten`), for any
  messages, any number of them and any chunks, again with `~Torn`. `QueueMeant`
  says that what waits was written for this reader, in the state of the
  connection in which it will be read; `HelloAlone`, that before the hello was
  read nothing else is there. `ReadSoFar` is about the message that is read: some
  written message begins with the values read so far, and the bytes left are
  those of the values left (`Halfway`), so that `FieldsReadBack` applies to the
  next. Only the last field of a message is an object, since an object is read up
  to the end. `WireAssumption` says that the messages have the fields of their
  types, with values the writers take, and that `size_t` holds the length of any
  frame.
* **Other bytes** (`WireProofs`, `OnlyMessagesAccepted`: `NothingElseAccepted`),
  for any bytes in place of messages, with `~Torn`. `FieldsWereWritten` is the
  converse of `FieldsReadBack`: what a reader accepts is what its writer would
  have written for the value read. A message that a writer wrote is the matter
  of `ReadSoFar`; of any other that is being read, `BackSoFar` says that its type
  is one this end knows, that the values read so far are ones the writers take,
  and that, written again, they are the bytes before `pos`, or, once an object
  was read, the beginning of them. For this the numbers in the message have to be
  bytes, which is what `WireAssumption` says of `Malformed`. These messages may be
  the hello too, so nothing is assumed of what the server greets the client with.
* **The log** (`WireProofs`, `TextIsJson` and `ErrorsLogged`: `LoggedAsJson`).
  `Told` says that the visitor, whatever it has written and whatever is open,
  takes the calls for a part by appending the text of the part and leaving its
  stack as it was; `ItemTold`, that for an item it also counts down and writes a
  comma if more is to come. Both pass from the items of an array or a map to the
  whole (`ItemsTold`, `BracketsTold`, `NodeTold`), and so, by induction over the
  numbers of the nodes, to any object. `ErrorRead` says that what was read last
  of an accepted error is an object. This holds whether or not frames are torn.
* **Programs** (`ProgramProofs`), for any texts and answers and any number of
  lines and arguments. `Progress` says how far a program has come at each value
  of `pc`, `Sending` that requests are made in order, only the last of them may
  be unanswered, and the next is made only when it was accepted.
  `TextsSentInOrder` (`SentInOrder`) follows from these two, `ResultsOneByOne`
  (`OneResultAtATime`) is inductive with them: a program waits for a result
  after every request. `StatusMeansIt` (`StatusHonest`) needs to know what the
  answer was, which `status` was derived from, in every one of the steps that
  end a program. `OutputInOrder` (`PrintedInOrder`): what the client pushed is
  what is printed with what is in the channel after it (`Printing`), where the
  answer to `observe` is put before the changes that overtook it.
  `ProgramsAssumption` says that the classes of texts that are no JSON stand for
  no value, and that `None` is no command.
* **The completer** (`ProgramProofs`, `WordsCompleted`: `CompletesTheWord`), for
  any word and any listing. `LoopLists` says what the loop prints: a line for
  each entry that begins with the last part of the word, once and in order, by
  induction over the entries. By `PrefixBehind` these are the entries that go on
  from the word. `Named` (it asks only if there is a word), `Answered` and
  `Offered` carry this from the request to the end of the program. The name of an
  entry is its first part, as in the code.
* **Timeouts** (`KeepaliveProofs`, `GoneIsNoticed`, `PresentIsKept` and
  `DelaysDouble`), for all
  timeouts and not only those of the code. A vanished peer is noticed within
  `IdlePing + PingTimeout` of that or of the last message sent to it, if
  `PingTimeout < IdlePing`, which the default arguments satisfy; the invariant is
  that while no ping is out the idle timeout runs down as the absence grows, and
  once one is out the ping timeout does. A peer that answers in less than
  `PingTimeout` is kept: a ping timeout that is set belongs to a ping that is not
  answered. The delay is `min_delay` doubled as often as `run` has waited, up to
  `max_delay` (`BackoffDoubles`), if `MaxWaits` counts far enough for that.

The inductions over sequences (`FlattenSeq`, the loops of the completer and of
the visitor) are over a set of numbers in place of a property, and the functions
they are about are written as recursive functions, since the provers cannot look
into the folds of the community modules.

Every safety property of the passing runs is the conclusion of a theorem. Only
model-checked are the liveness properties, which TLAPS does not handle: those of
the run `liveness`, `MessagesArrive`, `ProgramsEnd` and `EverythingPrinted`.

## Not modelled

* `log.hpp`: output only. The wording of errors and log lines everywhere.
* The conversions and comparison operators of `data.hpp`, except for which
  result types a channel takes; the parsing of options by CLI11; how numbers are
  written as text.
* The bytes of a msgpack object, which are msgpack's.
* `src/submodules/catch2` and `src/submodules/CLI11`, 24748 of the repository's
  26590 lines of code: a test framework and an option parser, vendored and used
  but not written here. The map covers most of what is left.

## Plan

1. `StateSync`: an owner and an observer of a state, two clients and a server
   between them, and what the observer may see.
2. The order in which `wait` serves channels, and what a flood on one of them
   does to the others.
