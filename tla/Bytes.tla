------------------------------- MODULE Bytes -------------------------------
(* Numbers as bytes, most significant first (include/eshet/parse.hpp).     *)
EXTENDS Integers

CONSTANT Base     \* numbers are written in this base (256 in the code)

ASSUME BytesAssumption == Base \in Nat \ {0}

digit(x, power) == (x \div power) % Base
=============================================================================
