------------------------------- MODULE MCWire -------------------------------
(* Messages of every type, with two-byte numbers in base 3, so that a      *)
(* message of nine bytes does not fit into a frame.                        *)
EXTENDS ErrorLog

(* [[], {"a\"": [1, 1], "": {}}, 1], its parts first                       *)
One    == <<Atom("1")>>
Nested ==
  <<Array(<<>>), Atom("1"), Str(<<"a", "\"">>), Array(<<2, 2>>), Str(<<>>), Map(<<>>),
    Map(<<<<3, 4>>, <<5, 6>>>>), Array(<<1, 7, 2>>)>>
Values == (<<1>> :> One) @@ (<<2, 1>> :> Nested)
            @@ (<<2, 2>> :> <<Bin(<<"\"">>), Ext, Array(<<1, 2>>)>>)

Objects == DOMAIN Values

Msg(type, fields) == [type |-> type, fields |-> fields]
path == <<9>>
Greetings == {Msg(3, <<>>), Msg(4, <<<<2, 1>>>>)}
FromServer ==
  {Msg(t, <<5, <<2, 1>>>>) : t \in {5, 6, 7}} \cup {Msg(6, <<0, <<2, 2>>>>)}
  \cup {Msg(8, <<7>>), Msg(10, <<1, 34, <<1>>>>), Msg(11, <<2, 2>>)}
  \cup {Msg(17, <<3, path, <<1>>>>), Msg(51, <<<<>>, <<2, 1>>>>), Msg(68, <<path, <<1>>>>)}
  \cup {Msg(69, <<path>>), Msg(69, <<<<9, 9, 9, 9, 9, 9, 9>>>>)}
Changes == {Msg(68, <<path, <<1>>>>)}
NoMessages ==
  {<<>>, <<4, 1>>, <<99, 1>>,    \* no type, a hello when it may be the second, no
                                 \* type the client knows
   <<3, 1>>, <<4>>, <<4, 2>>,    \* hellos with a byte too many, no id, half of one
   <<8, 0>>, <<8, 0, 1, 1>>,     \* a byte too few, one too many
   <<69, 2, 2>>,                 \* a path that does not end
   <<5, 0, 1>>, <<5, 0, 1, 2>>,  \* no object, and half of one
   <<5, 0, 1, 1, 2>>}            \* a byte after the object
FromClient ==
  {Msg(1, <<1, 7>>), Msg(2, <<1, 7, <<2, 1>>>>), Msg(9, <<5>>), Msg(5, <<2, <<2, 1>>>>),
   Msg(16, <<4, path>>), Msg(17, <<8, path, <<2, 1>>>>), Msg(66, <<0, <<9, 9, 9, 9, 9>>>>)}
=============================================================================
