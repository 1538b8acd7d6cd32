-------------------------------- MODULE Wire --------------------------------
(***************************************************************************)
(* One direction of a connection, from the writers of SendBuf at one end   *)
(* to the readers at the other: messages are written field by field,       *)
(* framed, cut into chunks, put together again by Unpacker, and read by    *)
(* the Parser calls of handle_hello_message() and handle_message()         *)
(* (include/eshet.hpp).                                                    *)
(*                                                                         *)
(* receiver says which end is which.  The server is not part of the        *)
(* repository; it is taken to write and read as the client does.           *)
(***************************************************************************)
EXTENDS Framing, Parser, SequencesExt

CONSTANTS
  Hellos,     \* messages the server may say hello with,
  ToClient,   \* those it may send after that,
  ToServer,   \* and those of the client: [type, fields]
  Malformed   \* other bytes that the server may send as a message, also as
              \* its hello

VARIABLES
  receiver,   \* "client" or "server"
  greeted     \* handle_hello_message has accepted a message

vars == <<framingVars, receiver, greeted, parserVars>>

-----------------------------------------------------------------------------
(* What the client reads.                                                  *)
HelloFields(type) ==
  CASE type = 3 -> <<>>
    [] type = 4 -> <<"pack">>
ServerFields(type) ==
  CASE type \in {5, 6, 7} -> <<"16", "pack">>             \* replies
    [] type = 8  -> <<"16">>
    [] type = 10 -> <<"16", "32", "pack">>
    [] type = 11 -> <<"16", "32">>
    [] type = 17 -> <<"16", "string", "pack">>            \* action_call
    [] type \in {51, 68} -> <<"string", "pack">>          \* event_notify, state_changed
    [] type = 69 -> <<"string">>                          \* state_changed to unknown

(* What the client writes, with the methods of SendBuf.                    *)
write_path      == <<"16", "string">>
write_pack      == <<"16", "pack">>
write_path_pack == <<"16", "string", "pack">>
ClientFields(type) ==
  CASE type = 1 -> <<"8", "16">>                          \* hello
    [] type = 2 -> <<"8", "16", "pack">>
    [] type \in {5, 6} -> write_pack                      \* reply
    [] type = 9 -> <<"16">>                               \* ping
    [] type \in {16, 64, 70, 66, 48, 50, 35} -> write_path
    [] type \in {17, 65, 49, 36} -> write_path_pack

HelloTypes  == {3, 4}
ServerTypes == {5, 6, 7, 8, 10, 11, 17, 51, 68, 69}
ClientTypes == {1, 2, 5, 6, 9, 16, 17, 35, 36, 48, 49, 50, 64, 65, 66, 70}

Fields(reader, type) ==
  IF reader = "server" THEN ClientFields(type)
  ELSE IF type \in HelloTypes THEN HelloFields(type) ELSE ServerFields(type)

(* start_msg and the writes that follow it.                                *)
encode(reader, m) ==
  <<m.type>> \o FlattenSeq([i \in 1 .. Len(m.fields) |->
                              write_field(Fields(reader, m.type)[i], m.fields[i])])

(* What is written has a type that the other end knows, and fields that    *)
(* the variables of the code hold.                                         *)
WellFormed(reader, types, m) ==
  LET kinds == Fields(reader, m.type)
  IN /\ m = [type |-> m.type, fields |-> m.fields] /\ m.type \in types
     /\ m.fields = [i \in 1 .. Len(kinds) |-> m.fields[i]]
     /\ \A i \in 1 .. Len(kinds) : m.fields[i] \in FieldValues(kinds[i])
ASSUME WireAssumption ==
  /\ \A m \in Hellos : WellFormed("client", HelloTypes, m)
  /\ \A m \in ToClient : WellFormed("client", ServerTypes, m)
  /\ \A m \in ToServer : WellFormed("server", ClientTypes, m)
  /\ Malformed \subseteq Seq(Nat)
  /\ \A bytes \in Malformed : \A i \in 2 .. Len(bytes) : bytes[i] < Base
  /\ Base * Base <= SizeMod     \* a size_t holds the length of a frame

(* The server says hello first, and nothing more until that was read.      *)
MayBeSent ==
  IF receiver = "server" THEN ToServer
  ELSE IF greeted THEN ToClient ELSE IF sent = 0 THEN Hellos ELSE {}

-----------------------------------------------------------------------------
Init ==
  /\ FramingInit /\ ParserInit
  /\ receiver \in {"client", "server"} /\ greeted = FALSE

(* The type decides what is read.  handle_message has no case for types it *)
(* does not know, and a second hello is an error.                          *)
Readable ==
  IF receiver = "server" THEN ClientTypes
  ELSE IF greeted THEN ServerTypes ELSE HelloTypes
handle_message(msg) ==
  \/ /\ msg # <<>> /\ Head(msg) \in Readable
     /\ begin(Tail(msg), Fields(receiver, Head(msg)))
  \/ /\ msg # <<>> /\ Head(msg) \notin Readable \cup HelloTypes
     /\ receiver = "client" /\ greeted
     /\ outcome' = "ignored" /\ UNCHANGED <<data, pos, todo, got>>
  \/ /\ \/ msg = <<>>
        \/ /\ msg # <<>> /\ Head(msg) \notin Readable
           /\ receiver = "client" /\ greeted => Head(msg) \in HelloTypes
     /\ throw("ProtocolError")

Parsing == outcome = "parsing"
Thrown  == outcome \in {"ProtocolError", "unpack_error"}

unpack ==
  /\ reading /\ ~Parsing /\ ~Thrown
  /\ \/ read_message /\ handle_message(message')
     \/ read_error /\ UNCHANGED parserVars
     \/ read_nothing /\ discard
  /\ UNCHANGED <<receiver, greeted>>

parse ==
  /\ read_field
  /\ greeted' = (greeted \/ outcome' = "accepted")
  /\ UNCHANGED <<framingVars, receiver>>

receive ==
  /\ \E n \in 1 .. Len(wire) : push(n) /\ ~Thrown
  /\ UNCHANGED <<receiver, greeted, parserVars>>

transmit ==
  /\ \/ \E m \in MayBeSent : send(encode(receiver, m))
     \/ /\ receiver = "client" /\ (greeted \/ sent = 0)
        /\ \E bytes \in Malformed : send(bytes)
  /\ UNCHANGED <<receiver, greeted, parserVars>>

(* The next connection begins with hello again.                            *)
connect_again ==
  /\ reconnect /\ ~Thrown
  /\ greeted' = FALSE
  /\ UNCHANGED <<receiver, parserVars>>

Next == transmit \/ receive \/ unpack \/ parse \/ connect_again

(* The receiving thread passes on what arrived, and the actor reads it.    *)
Spec ==
  /\ Init /\ [][Next]_vars
  /\ WF_vars(receive)
  /\ WF_vars(unpack) /\ WF_vars(parse)

-----------------------------------------------------------------------------
(* What may be sent to a reader, and the bytes of that.                    *)
Written(reader) == IF reader = "server" THEN ToServer ELSE ToClient \cup Hellos
AllBytes ==
  {encode("client", m) : m \in Written("client")}
    \cup {encode("server", m) : m \in Written("server")} \cup Malformed

(* However the stream is cut into chunks, messages come out whole, once    *)
(* each and in order, while every frame is as long as it says.             *)
Fifo == INSTANCE MessageFifo
  WITH Messages <- AllBytes, queue <- queue, message <- message,
       reliable <- ~spoiled
CompleteMessages == Fifo!Spec

(* Unpacker accepts any stream the peer's frames make up: "accept a stream *)
(* of data in arbitrary chunks, and produce complete messages".            *)
StreamAccepted == ~failed /\ ~Thrown

(* What was understood of an accepted message.                             *)
Understood == [type |-> Head(message), fields |-> got]

(* What is read is what was written: every message that was written field  *)
(* by field is accepted, and with the fields it was written with.          *)
Regular == receiver = "client" => message \notin Malformed
ReadAsWritten ==
  ~spoiled /\ Regular =>
    /\ outcome = "accepted" =>
         Understood \in Written(receiver) /\ encode(receiver, Understood) = message
    /\ ~Thrown /\ outcome # "ignored"

(* And nothing else is accepted, whatever bytes come: what is understood   *)
(* is a message of the protocol, and written it is the bytes received.     *)
(* Bytes that follow a msgpack object are the one thing read and not       *)
(* noticed.                                                                *)
Protocol(reader) ==
  IF reader = "server" THEN ClientTypes ELSE HelloTypes \cup ServerTypes
NothingElseAccepted ==
  ~spoiled /\ outcome = "accepted" =>
    LET bytes == encode(receiver, Understood)
        kinds == Fields(receiver, Understood.type)
    IN /\ WellFormed(receiver, Protocol(receiver), Understood)
       /\ \/ bytes = message
          \/ /\ IsStrictPrefix(bytes, message)
             /\ kinds # <<>> /\ Last(kinds) = "pack"

(* Every message sent over a connection that neither breaks nor is spoiled *)
(* comes out and is read: none waits in the buffer for the next to arrive. *)
MessagesArrive ==
  \A b \in 0 .. MaxBreaks :
    (queue # <<>> /\ breaks = b)
      ~> (queue = <<>> /\ ~Parsing) \/ breaks # b \/ spoiled \/ Thrown
=============================================================================
