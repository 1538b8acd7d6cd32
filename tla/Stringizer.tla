----------------------------- MODULE Stringizer -----------------------------
(***************************************************************************)
(* The text of a msgpack object (include/eshet/msgpack_to_string.hpp).     *)
(* msgpack's object_parser calls a method of the visitor for each part of  *)
(* the object; the visitor appends to s, and keeps on a stack how many     *)
(* elements of each open array or map are still to come.                   *)
(*                                                                         *)
(* An object is a sequence of nodes [kind, ...] with its parts listed      *)
(* before it: the last node is the object itself, and an array or a map    *)
(* names its items by their numbers.  Characters that are written alike    *)
(* are one.                                                                *)
(***************************************************************************)
EXTENDS Naturals, Sequences, SequencesExt

Atom(text)   == [kind |-> "atom", text |-> text]   \* nil, boolean, number
Str(chars)   == [kind |-> "str", chars |-> chars]
Bin(chars)   == [kind |-> "bin", chars |-> chars]
Ext          == [kind |-> "ext"]
Array(items) == [kind |-> "array", items |-> items]
Map(items)   == [kind |-> "map", items |-> items]  \* pairs <<key, value>>

IsNode(x, parts) ==
  \/ x.kind = "atom" /\ x = Atom(x.text) /\ x.text \in STRING
  \/ x.kind = "str" /\ x = Str(x.chars) /\ x.chars \in Seq(STRING)
  \/ x.kind = "bin" /\ x = Bin(x.chars) /\ x.chars \in Seq(STRING)
  \/ x.kind = "ext" /\ x = Ext
  \/ x.kind = "array" /\ x = Array(x.items) /\ x.items \in Seq(parts)
  \/ x.kind = "map" /\ x = Map(x.items) /\ x.items \in Seq(parts \X parts)
IsObject(o) ==
  Len(o) \in Nat \ {0} /\ \A i \in 1 .. Len(o) : IsNode(o[i], 1 .. i - 1)

-----------------------------------------------------------------------------
(* The calls object_parser makes.  calls_of a node has those of its parts. *)
Event(name, x) == [call |-> name, arg |-> x]

array_item(item) ==
  <<Event("start_array_item", 0)>> \o item \o <<Event("end_array_item", 0)>>
map_pair(key, value) ==
  <<Event("start_map_key", 0)>> \o key \o <<Event("end_map_key", 0)>>
    \o <<Event("start_map_value", 0)>> \o value \o <<Event("end_map_value", 0)>>

calls_of(calls, x) ==
  CASE x.kind = "atom" -> <<Event("visit_atom", x.text)>>
    [] x.kind = "str"  -> <<Event("visit_str", x.chars)>>
    [] x.kind = "bin"  -> <<Event("visit_bin", x.chars)>>
    [] x.kind = "ext"  -> <<Event("visit_ext", 0)>>
    [] x.kind = "array" ->
         <<Event("start_array", Len(x.items))>>
           \o FlattenSeq([i \in 1 .. Len(x.items) |-> array_item(calls[x.items[i]])])
           \o <<Event("end_array", 0)>>
    [] x.kind = "map"  ->
         <<Event("start_map", Len(x.items))>>
           \o FlattenSeq([i \in 1 .. Len(x.items) |->
                            map_pair(calls[x.items[i][1]], calls[x.items[i][2]])])
           \o <<Event("end_map", 0)>>
Calls(o) ==
  LET calls[i \in 1 .. Len(o)] == calls_of(calls, o[i])
  IN calls[Len(o)]

(* visit_str: a backslash before what JSON has a letter for, and the code  *)
(* of other control characters (all are written alike here).               *)
escape(c) ==
  CASE c \in {"\"", "\\", "/"} -> <<"\\", c>>
    [] c = "newline" -> <<"\\", "n">>
    [] c = "control" -> <<"\\", "u00XX">>
    [] OTHER -> <<c>>
quoted(chars) == <<"\"">> \o chars \o <<"\"">>
visit_str(chars) == quoted(FlattenSeq([i \in 1 .. Len(chars) |-> escape(chars[i])]))

(* One element less to come, and a comma unless it was the last.           *)
end_item_at_once(v) ==
  LET left == Last(v.current_size) - 1
  IN [s |-> v.s \o (IF Len(v.current_size) # 1 \/ left # 0 THEN <<",">> ELSE <<>>),
      current_size |-> Append(Front(v.current_size), left)]
end_item(v) ==
  LET left == Last(v.current_size) - 1
  IN [s |-> v.s \o (IF left # 0 THEN <<",">> ELSE <<>>),
      current_size |-> Append(Front(v.current_size), left)]

visit(v, e) ==
  LET write(text) == [v EXCEPT !.s = @ \o text]
      open(c)  == [s |-> Append(v.s, c), current_size |-> Append(v.current_size, e.arg)]
      close(c) == [s |-> Append(v.s, c), current_size |-> Front(v.current_size)]
  IN CASE e.call = "visit_atom"  -> write(<<e.arg>>)
       [] e.call = "visit_str"   -> write(visit_str(e.arg))
       [] e.call = "visit_bin"   -> write(quoted(e.arg))
       [] e.call = "visit_ext"   -> write(<<"EXT">>)
       [] e.call = "start_array" -> open("[")
       [] e.call = "end_array"   -> close("]")
       [] e.call = "start_map"   -> open("{")
       [] e.call = "end_map_key" -> write(<<":">>)
       [] e.call = "end_map"     -> close("}")
       [] e.call \in {"end_array_item", "end_map_value"} -> end_item(v)
       [] OTHER -> v

(* The visitor takes the calls one by one.                                 *)
msgpack_to_string(o) ==
  LET calls == Calls(o)
      vis[n \in 0 .. Len(calls)] ==
        IF n = 0 THEN [s |-> <<>>, current_size |-> <<>>]
        ELSE visit(vis[n - 1], calls[n])
  IN vis[Len(calls)].s

-----------------------------------------------------------------------------
(* JSON, for objects that have a JSON text: there is no binary or ext in   *)
(* them, and the keys of maps are strings.                                 *)
Plain(o) ==
  \A i \in 1 .. Len(o) :
    /\ o[i].kind \notin {"bin", "ext"}
    /\ o[i].kind = "map" =>
         \A k \in 1 .. Len(o[i].items) : o[o[i].items[k][1]].kind = "str"

(* The texts one after another, with commas between them.                  *)
Commas(texts) ==
  FlattenSeq([i \in 1 .. Len(texts) |->
                IF i < Len(texts) THEN texts[i] \o <<",">> ELSE texts[i]])

(* The text of a node, given the texts of its parts.                       *)
json(text, x) ==
  CASE x.kind = "atom"  -> <<x.text>>
    [] x.kind = "str"   -> visit_str(x.chars)
    [] x.kind = "array" ->
         <<"[">> \o Commas([i \in 1 .. Len(x.items) |-> text[x.items[i]]]) \o <<"]">>
    [] x.kind = "map"   ->
         <<"{">> \o Commas([i \in 1 .. Len(x.items) |->
                              text[x.items[i][1]] \o <<":">> \o text[x.items[i][2]]])
           \o <<"}">>
Json(o) ==
  LET text[i \in 1 .. Len(o)] == json(text, o[i])
  IN text[Len(o)]
=============================================================================
