------------------------------- MODULE Parser -------------------------------
(***************************************************************************)
(* Parser and the writers of SendBuf (include/eshet/parse.hpp): the fields *)
(* of one message are read from its bytes one after another.  A field is   *)
(* written by write_field and read by the action named for its kind; todo  *)
(* says which are still to be read.                                        *)
(***************************************************************************)
EXTENDS Bytes, Sequences

CONSTANTS
  SizeMod,  \* size_t wraps here (2^64)
  Packs     \* the byte sequences that are one msgpack object

NUL == 0

(* msgpack objects say where they end: no object begins another one.       *)
ASSUME ParserAssumption ==
  /\ SizeMod \in Nat \ {0}
  /\ Packs \subseteq Seq(Nat) \ {<<>>}
  /\ \A p, q \in Packs :
       Len(p) <= Len(q) /\ SubSeq(q, 1, Len(p)) = p => p = q

VARIABLES
  data,     \* the bytes after the type
  pos,
  todo,     \* kinds of the fields not yet read
  got,      \* the fields read
  outcome   \* "idle", "parsing", "accepted", "ignored", or the exception

parserVars == <<data, pos, todo, got, outcome>>

Kinds == {"8", "16", "32", "string", "pack"}

(* write8, write16, write_string and write_msgpack; the client writes no   *)
(* 32 bits, the server does.                                               *)
write_field(kind, x) ==
  CASE kind = "8"      -> <<x>>
    [] kind = "16"     -> <<digit(x, Base), digit(x, 1)>>
    [] kind = "32"     -> <<digit(x, Base * Base * Base), digit(x, Base * Base),
                            digit(x, Base), digit(x, 1)>>
    [] kind = "string" -> x \o <<NUL>>
    [] kind = "pack"   -> x

(* What a field of each kind may hold.                                     *)
FieldValues(kind) ==
  CASE kind = "8"      -> Nat
    [] kind = "16"     -> {x \in Nat : x < Base * Base}
    [] kind = "32"     -> {x \in Nat : x < Base * Base * Base * Base}
    [] kind = "string" -> Seq(Nat \ {NUL})
    [] kind = "pack"   -> Packs

-----------------------------------------------------------------------------
ParserInit ==
  data = <<>> /\ pos = 0 /\ todo = <<>> /\ got = <<>> /\ outcome = "idle"

(* Parser p(&msg[1], msg.size() - 1), and the reads the code has for the   *)
(* message's type.                                                         *)
begin(bytes, fields) ==
  /\ data' = bytes /\ pos' = 0 /\ todo' = fields /\ got' = <<>>
  /\ outcome' = "parsing"

(* The Parser is a local variable of the code that reads the message.      *)
discard ==
  data' = <<>> /\ pos' = 0 /\ todo' = <<>> /\ got' = <<>> /\ outcome' = "idle"

size == Len(data)
remaining == (size - pos) % SizeMod      \* size - pos, of type size_t
byte(i) == data[pos + i]

throw(exception) ==
  /\ outcome' = exception
  /\ UNCHANGED <<data, pos, todo, got>>

(* A field of n bytes was read, and is x.                                  *)
advance(n, x) ==
  /\ pos' = pos + n /\ got' = Append(got, x) /\ todo' = Tail(todo)
  /\ UNCHANGED <<data, outcome>>

Reads(kind) == outcome = "parsing" /\ todo # <<>> /\ Head(todo) = kind

read8 ==
  /\ Reads("8")
  /\ \/ remaining < 1 /\ throw("ProtocolError")
     \/ remaining >= 1 /\ advance(1, byte(1))

read16_unchecked ==
  /\ Reads("16")
  /\ \/ remaining < 1 /\ throw("ProtocolError")
     \/ remaining >= 1 /\ advance(2, 0)
read16 ==
  /\ Reads("16")
  /\ \/ remaining < 2 /\ throw("ProtocolError")
     \/ remaining >= 2 /\ advance(2, byte(1) * Base + byte(2))

read32 ==
  /\ Reads("32")
  /\ \/ remaining < 4 /\ throw("ProtocolError")
     \/ /\ remaining >= 4
        /\ advance(4, ((byte(1) * Base + byte(2)) * Base + byte(3)) * Base + byte(4))

(* A string ends at the first NUL, if there is one.                        *)
Ends == {i \in pos + 1 .. size : data[i] = NUL}
first_end == CHOOSE i \in Ends : \A j \in Ends : i <= j
read_string_to_nul ==
  /\ Reads("string")
  /\ \/ Ends = {} /\ throw("ProtocolError")
     \/ Ends # {} /\ advance(first_end - pos - 1, SubSeq(data, pos + 1, first_end - 1))
read_string ==
  /\ Reads("string")
  /\ \/ Ends = {} /\ throw("ProtocolError")
     \/ Ends # {} /\ advance(first_end - pos, SubSeq(data, pos + 1, first_end - 1))

(* msgpack::unpack ignores what follows the object, and so does the        *)
(* Parser: pos is the end of the message afterwards.                       *)
Begins(p) == Len(p) <= size - pos /\ SubSeq(data, pos + 1, pos + Len(p)) = p
read_msgpack ==
  /\ Reads("pack")
  /\ \/ remaining < 1 /\ throw("ProtocolError")
     \/ remaining >= 1 /\ ~(\E p \in Packs : Begins(p)) /\ throw("unpack_error")
     \/ remaining >= 1 /\ \E p \in Packs : Begins(p) /\ advance(size - pos, p)

check_empty_forgotten ==
  /\ outcome = "parsing" /\ todo = <<>>
  /\ outcome' = "accepted"
  /\ UNCHANGED <<data, pos, todo, got>>
check_empty ==
  /\ outcome = "parsing" /\ todo = <<>>
  /\ outcome' = IF pos # size THEN "ProtocolError" ELSE "accepted"
  /\ UNCHANGED <<data, pos, todo, got>>

read_field == read8 \/ read16 \/ read32 \/ read_string \/ read_msgpack \/ check_empty

(* Any message may arrive, and any fields may be expected of it.           *)
ParserNext ==
  \/ \E bytes \in Seq(Nat), fields \in Seq(Kinds) : begin(bytes, fields)
  \/ discard \/ read_field
ParserSpec == ParserInit /\ [][ParserNext]_parserVars

(* The reads stay within the message: nothing is read past its end, and    *)
(* size - pos never wraps.                                                 *)
NoOverread == pos <= Len(data)
=============================================================================
