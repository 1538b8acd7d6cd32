------------------------------ MODULE ErrorLog ------------------------------
(* When a registration is refused after a reconnection, the value of the   *)
(* error goes into the log as text (CheckResultBase of include/eshet.hpp,  *)
(* which reregister() applies to the result, and msgpack_to_string.hpp).   *)
EXTENDS Wire, Stringizer

CONSTANT ValueOf    \* Packs -> the msgpack objects they are

ASSUME ErrorLogAssumption ==
  DOMAIN ValueOf = Packs /\ \A p \in Packs : IsObject(ValueOf[p])

(* The text of a value is JSON for that value, however deep it is nested,  *)
(* if there is no binary or ext in it.                                     *)
LoggedAsJson ==
  outcome = "accepted" /\ Head(message) = 6 /\ Plain(ValueOf[got[2]]) =>
    msgpack_to_string(ValueOf[got[2]]) = Json(ValueOf[got[2]])
=============================================================================
