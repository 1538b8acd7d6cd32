------------------------------ MODULE Framing ------------------------------
(***************************************************************************)
(* The byte stream of a connection: messages are framed by SendBuf         *)
(* (include/eshet/parse.hpp), travel in chunks that have nothing to do     *)
(* with the frames, and are put together again by Unpacker                 *)
(* (include/eshet/unpack.hpp), one object for all connections of a client. *)
(***************************************************************************)
EXTENDS Bytes, Sequences, SequencesExt

CONSTANTS
  Magic,      \* first byte of a frame (0x47)
  MaxSent,    \* bound: messages sent over a connection
  MaxBreaks,  \* bound: connections that break
  Torn,       \* whether a connection may break inside a frame
  Missing     \* bound: how many bytes of a frame send() may not accept, which
              \* happens once for a connection

ASSUME FramingAssumption ==
  /\ Magic \in Nat /\ MaxSent \in Nat /\ MaxBreaks \in Nat
  /\ Torn \in BOOLEAN /\ Missing \subseteq Nat

VARIABLES
  wire,      \* bytes sent and not yet received
  buffer,    \* of Unpacker
  reading,   \* the actor is in the loop that calls Unpacker::read
  failed,    \* ProtocolError was thrown
  queue,     \* messages sent over this connection and not yet received
  message,   \* the message that is handled, <<>> if there is none
  spoiled,   \* a frame was sent whose bytes are not those its length says
  sent, breaks

framingVars == <<wire, buffer, reading, failed, queue, message, spoiled, sent, breaks>>

-----------------------------------------------------------------------------
(* write_size stores the number of bytes after the header in two bytes.    *)
write_size_low_first(n) == <<digit(n, 1), digit(n, Base)>>
write_size(n) == <<digit(n, Base), digit(n, 1)>>
frame(m) == <<Magic>> \o write_size(Len(m)) \o m

header == 3
length == buffer[2] * Base + buffer[3]

(* What read() leaves in the buffer: it shifts the rest to the front.      *)
rest_of_buffer_short == SubSeq(buffer, header + length, Len(buffer))
rest_of_buffer_kept == buffer
rest_of_buffer == SubSeq(buffer, header + length + 1, Len(buffer))

-----------------------------------------------------------------------------
FramingInit ==
  /\ wire = <<>> /\ buffer = <<>> /\ reading = FALSE /\ failed = FALSE
  /\ queue = <<>> /\ message = <<>> /\ spoiled = FALSE /\ sent = 0 /\ breaks = 0

(* send_send_buf() calls send() once and only asks whether it failed.  A   *)
(* message too long for the length field is sent with a smaller length.    *)
Fits(m) == Len(m) < Base * Base
send(m) ==
  /\ sent < MaxSent
  /\ queue' = Append(queue, m) /\ sent' = sent + 1
  /\ \/ wire' = wire \o frame(m) /\ spoiled' = (spoiled \/ ~Fits(m))
     \/ /\ ~spoiled /\ spoiled' = TRUE
        /\ \E n \in Missing : wire' = wire \o SubSeq(frame(m), 1, Len(frame(m)) - n)
  /\ UNCHANGED <<buffer, reading, failed, message, breaks>>

(* A chunk arrives while the actor waits; it then reads all it can.        *)
push(n) ==
  /\ ~reading /\ ~failed
  /\ buffer' = buffer \o SubSeq(wire, 1, n)
  /\ wire' = SubSeq(wire, n + 1, Len(wire))
  /\ reading' = TRUE
  /\ UNCHANGED <<failed, queue, message, spoiled, sent, breaks>>

(* Unpacker::read: nothing yet, not a frame, or a message.                 *)
Incomplete == Len(buffer) < header
Misread == ~Incomplete /\ buffer[1] # Magic
Whole_and_more == ~Incomplete /\ ~Misread /\ length < Len(buffer) - header
Whole == ~Incomplete /\ ~Misread /\ length <= Len(buffer) - header

read_nothing ==
  /\ Incomplete \/ (~Misread /\ ~Whole)
  /\ reading' = FALSE /\ message' = <<>>
  /\ UNCHANGED <<wire, buffer, failed, queue, spoiled, sent, breaks>>

read_error ==
  /\ Misread
  /\ reading' = FALSE /\ failed' = TRUE
  /\ UNCHANGED <<wire, buffer, queue, message, spoiled, sent, breaks>>

read_message ==
  /\ Whole
  /\ message' = SubSeq(buffer, header + 1, header + length)
  /\ buffer' = rest_of_buffer
  /\ queue' = IF queue = <<>> THEN <<>> ELSE Tail(queue)
  /\ UNCHANGED <<wire, reading, failed, spoiled, sent, breaks>>

read == reading /\ (read_nothing \/ read_error \/ read_message)

(* The connection breaks and the client connects again: what was on the    *)
(* way is lost, and cleanup_connection leaves the unpacker alone.          *)
reconnect ==
  /\ breaks < MaxBreaks /\ ~reading /\ ~failed
  /\ Torn \/ buffer = <<>>
  /\ wire' = <<>> /\ queue' = <<>> /\ sent' = 0 /\ breaks' = breaks + 1
  /\ spoiled' = FALSE
  /\ UNCHANGED <<buffer, reading, failed, message>>

-----------------------------------------------------------------------------
(* The bytes received and not yet understood are a proper part of a frame  *)
(* of this connection, and with those on the way they are exactly the      *)
(* frames of the messages still to be received, until a frame is sent that *)
(* is not as long as it says.                                              *)
frames(ms) == FlattenSeq([i \in 1 .. Len(ms) |-> frame(ms[i])])
NoByteLost == ~failed /\ ~spoiled => buffer \o wire = frames(queue)

(* Unpacker fails only on a frame that is not as long as it says.           *)
OnlySpoiledFails == failed => spoiled
=============================================================================
