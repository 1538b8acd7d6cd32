---------------------------- MODULE MCPrograms ----------------------------
(* Texts, words and directories for TLC.                                   *)
EXTENDS Programs
TwoValues == {"1", "2"}
AllLines  == TwoValues \cup {"no_json", "huge", "empty", "u", "q"}
SomeWords ==
  {<<"a">>, <<"/">>, <<"/", "a">>, <<"/", "a", " ">>, <<"/", "a", "/">>, <<"/", "a", "/", "b">>}
Malformed == [shape : {"no_array", "no_pair", "no_dir", "ill_typed"}, entries : {<<>>}]
Directory(entries) == [shape |-> "dir", entries |-> entries]
Dir == <<"dir">>
State == <<"state">>
NameFirst == Directory(<< <<<<"a">>, Dir>>, <<<<"a", "b">>, State>>,
                          <<<<"b">>, State>>, <<<<"b", "a">>, Dir>> >>)
TypeFirst == Directory(<< <<Dir, <<"a">>>>, <<State, <<"a", "b">>>> >>)
SomeListings == {Directory(<<>>), NameFirst, TypeFirst} \cup Malformed
AsDocumented == {Directory(<<>>), TypeFirst} \cup Malformed
=============================================================================
