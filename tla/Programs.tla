----------------------------- MODULE Programs -----------------------------
(***************************************************************************)
(* The programs built on the client: the commands of `eshet`               *)
(* (src/cli.cpp) and the completer that bash calls (src/complete.cpp).     *)
(* Each makes its requests one after another and reads every result from   *)
(* one channel it uses for all of them.  The client is the abstract one of *)
(* RequestReply, which EshetSystem implements.                             *)
(***************************************************************************)
EXTENDS Naturals, Sequences, SequencesExt

CONSTANTS
  RunPrograms, \* the programs in this instance
  Values,      \* JSON texts that can be sent, and what they stand for
  Lines,       \* texts that may be given as arguments and typed in
  Words,       \* what may be typed before completion is asked for
  Listings,    \* what /meta/ls may answer, see Shapes
  None,
  MaxArgs,     \* bound: arguments of call
  MaxLines,    \* bound: lines typed in
  MaxPushes    \* bound: events or changes the client passes on

AllPrograms == {"call", "listen", "observe", "get", "set", "publish", "emit", "complete"}

(* no_json is not JSON, huge is an integer that only fits into uint64_t,   *)
(* empty is a line without characters; lines that begin with u and q are   *)
(* u and q.                                                                *)
Texts == Values \cup {"no_json", "huge", "empty", "u", "q"}

(* A pair of "dir" and entries, each a pair of strings, or something       *)
(* complete.cpp does not take; ill_typed if a part is not what as<...>()   *)
(* is asked for.  Strings are sequences of characters, "dir" being one.    *)
Shapes == {"dir", "no_array", "no_pair", "no_dir", "ill_typed"}

(* What they ask the client for.                                           *)
Operations ==
  {"ActionCall", "EventListen", "StateObserve", "Get", "Set", "StateRegister",
   "StateChanged", "EventRegister", "EventEmit"}

ASSUME ProgramsAssumption ==
  /\ RunPrograms \subseteq AllPrograms /\ Lines \subseteq Texts
  /\ {"no_json", "huge", "empty", "u", "q"} \cap Values = {}
  /\ \A l \in Listings :
       /\ l.shape \in Shapes
       /\ l.shape = "dir" => l.entries \in Seq(Seq(STRING) \X Seq(STRING))
  /\ Words \subseteq Seq(STRING)
  /\ None \notin [op : Operations, value : Seq(Texts \cup Seq(STRING))]
  /\ MaxArgs \in Nat /\ MaxLines \in Nat /\ MaxPushes \in Nat

VARIABLES
  program, args, typed,  \* the command line and what is typed in
  server,                \* ESHET_SERVER: "good", or "bad_port" after a colon
  pc,
  line,         \* lines read so far
  made,         \* requests made so far
  result_chan, channel,  \* results, and events or changes, not yet read
  pushed,       \* every event or change the client passed on
  printed,      \* lines of output
  status,       \* "running", an exit status, or "abort" after an exception
                \* that nothing catches
  asked, answer \* of the client

given   == <<program, args, typed, server>>
client  == <<made, asked, answer>>
vars    == <<given, pc, line, client, result_chan, channel, pushed, printed, status>>

-----------------------------------------------------------------------------
(* The client.  Its steps are taken one by one, each with the commands and *)
(* the answers of the program that runs: Client!Next is not used.          *)
Requests == 1 .. MaxLines + 2
Success(x) == [kind |-> "Success", value |-> x]
Known(x)   == [kind |-> "Known", value |-> x]
Unknown    == [kind |-> "Unknown", value |-> None]
Error      == [kind |-> "Error", value |-> None]

AnswersTo(command) ==
  {Error} \cup
  CASE command.op = "StateObserve" -> {Unknown} \cup {Known(x) : x \in Values}
    [] command.op = "ActionCall" ->
         IF program = "complete" THEN {Success(l) : l \in Listings}
         ELSE {Success(x) : x \in Values}
    [] command.op = "Get" -> {Success(x) : x \in Values}
    [] OTHER -> {Success(None)}

Client == INSTANCE RequestReply
  WITH Commands <- {}, Answers <- <<>>, Failure <- Error

-----------------------------------------------------------------------------
(* Arguments and lines.                                                    *)
json_str_to_msgpack(text) ==
  CASE text \in Values -> "value"
    [] text = "huge"   -> "abort"   \* logic_error, which main() does not catch
    [] OTHER           -> "1"       \* error_message, which it does

BadArgs == {i \in 1 .. Len(args) : json_str_to_msgpack(args[i]) # "value"}

(* The words are sequences of characters.  Without a slash nothing of the  *)
(* word is kept.                                                           *)
Slashes(word) == {i \in 1 .. Len(word) : word[i] = "/"}
split_path_at_first(word) ==
  IF Slashes(word) = {} THEN [dir |-> <<>>, last |-> <<>>]
  ELSE LET slash == CHOOSE i \in Slashes(word) : \A j \in Slashes(word) : j >= i
       IN [dir |-> SubSeq(word, 1, slash), last |-> SubSeq(word, slash + 1, Len(word))]
split_path(word) ==
  IF Slashes(word) = {} THEN [dir |-> <<>>, last |-> <<>>]
  ELSE LET slash == CHOOSE i \in Slashes(word) : \A j \in Slashes(word) : j <= i
       IN [dir |-> SubSeq(word, 1, slash), last |-> SubSeq(word, slash + 1, Len(word))]

(* std::tie(name, type) = entry: the first part is read as the name.       *)
name_of(entry) == entry[1]
type_of(entry) == entry[2]

(* What is printed for the directory: a line for each entry in turn, if    *)
(* its name begins with the last part of the word.                         *)
candidate(dir, entry) ==
  dir \o name_of(entry) \o (IF type_of(entry) = <<"dir">> THEN <<"/">> ELSE <<" ">>)
candidates(path, entries) ==
  LET upto[i \in 0 .. Len(entries)] ==
        IF i = 0 THEN <<>>
        ELSE IF IsPrefix(path.last, name_of(entries[i]))
          THEN Append(upto[i - 1], candidate(path.dir, entries[i]))
        ELSE upto[i - 1]
  IN upto[Len(entries)]

-----------------------------------------------------------------------------
ArgsOf(prog) ==
  CASE prog = "call" -> SeqOf(Lines, MaxArgs)
    [] prog = "set" -> {<<text>> : text \in Lines}
    [] prog \in {"publish", "emit"} -> {<<>>} \cup {<<text>> : text \in Lines}
    [] prog = "complete" -> Words \cup {None}
    [] OTHER -> {<<>>}

Init ==
  /\ program \in RunPrograms /\ args \in ArgsOf(program)
  /\ typed \in IF program \in {"publish", "emit"} THEN SeqOf(Lines, MaxLines) ELSE {<<>>}
  /\ server \in {"good", "bad_port"}
  /\ pc = "start" /\ line = 0 /\ made = 0
  /\ result_chan = <<>> /\ channel = <<>> /\ pushed = <<>> /\ printed = <<>>
  /\ status = "running"
  /\ Client!Init

end(how) == status' = how /\ pc' = "ended"

request(op, value, next) ==
  /\ made' = made + 1
  /\ Client!Ask(made + 1, [op |-> op, value |-> value])
  /\ pc' = next /\ UNCHANGED status

(* call and set look at their arguments before anything else.              *)
check_args ==
  /\ pc = "start"
  /\ IF program \in {"call", "set"} /\ BadArgs # {}
       THEN end(json_str_to_msgpack(args[CHOOSE i \in BadArgs : \A j \in BadArgs : i <= j]))
       ELSE pc' = "connect" /\ UNCHANGED status
  /\ UNCHANGED <<given, line, client, result_chan, channel, pushed, printed>>

(* ESHETClient client(get_host_port()); stoi throws if there is no port    *)
(* after the colon.                                                        *)
get_host_port == IF server = "bad_port" THEN "abort" ELSE "client"
ESHETClient ==
  /\ pc = "connect"
  /\ IF get_host_port = "abort" THEN end("abort")
     ELSE IF program = "complete" /\ args = None THEN end("1")
     ELSE pc' = "request" /\ UNCHANGED status
  /\ UNCHANGED <<given, line, client, result_chan, channel, pushed, printed>>

FirstOp ==
  CASE program \in {"call", "complete"} -> "ActionCall"
    [] program = "listen"  -> "EventListen"
    [] program = "observe" -> "StateObserve"
    [] program = "get"     -> "Get"
    [] program = "set"     -> "Set"
    [] program = "publish" -> "StateRegister"
    [] program = "emit"    -> "EventRegister"
FirstValue ==
  CASE program \in {"call", "set"} -> args
    [] program = "complete" -> <<split_path(args).dir>>
    [] OTHER -> <<>>

first_request ==
  /\ pc = "request"
  /\ request(FirstOp, FirstValue, "result")
  /\ UNCHANGED <<given, line, result_chan, channel, pushed, printed>>

-----------------------------------------------------------------------------
(* The first result, and what each program does with it.                   *)
show_result(res) == printed' = Append(printed, res)

(* complete fails on what it does not understand, but is silent when the   *)
(* server refuses.                                                         *)
offer(res) ==
  IF res.kind = "Error" THEN end("0") /\ UNCHANGED printed
  ELSE CASE res.value.shape = "dir" ->
              printed' = candidates(split_path(args), res.value.entries) /\ end("0")
         [] res.value.shape = "ill_typed" ->      \* type_error of msgpack
              end("abort") /\ UNCHANGED printed
         [] OTHER -> end("1") /\ UNCHANGED printed

carry_on(res) ==
  \/ program \in {"call", "get", "set"} /\ show_result(res) /\ end("0")
  \/ /\ program = "observe" /\ show_result(res)
     /\ pc' = "channel" /\ UNCHANGED status
  \/ /\ program = "listen"
     /\ pc' = "channel" /\ UNCHANGED <<status, printed>>
  \/ /\ program \in {"publish", "emit"}
     /\ pc' = IF args \in {<<>>, <<"empty">>} THEN "getline" ELSE "argument"
     /\ UNCHANGED <<status, printed>>

first_result_awaited_again ==
  /\ pc = "result" /\ result_chan # <<>>
  /\ result_chan' = Tail(result_chan)
  /\ LET res == Head(result_chan)
     IN IF program = "complete" THEN offer(res)
        ELSE IF res.kind = "Error" THEN UNCHANGED <<pc, status, printed>>
        ELSE carry_on(res)
  /\ UNCHANGED <<given, line, client, channel, pushed>>
first_result ==
  /\ pc = "result" /\ result_chan # <<>>
  /\ result_chan' = Tail(result_chan)
  /\ LET res == Head(result_chan)
     IN IF program = "complete" THEN offer(res)
        ELSE IF res.kind = "Error" THEN end("1") /\ UNCHANGED printed
        ELSE carry_on(res)
  /\ UNCHANGED <<given, line, client, channel, pushed>>

-----------------------------------------------------------------------------
(* publish and emit.                                                       *)
UpdateOp == IF program = "publish" THEN "StateChanged" ELSE "EventEmit"

(* update_str and emit_str up to the wait for the result.                  *)
update_str_unread(text) ==
  \/ text \in Values /\ request(UpdateOp, <<text>>, "getline")
  \/ text \notin Values /\ end(json_str_to_msgpack(text)) /\ UNCHANGED client
update_str(text) ==
  \/ text \in Values /\ request(UpdateOp, <<text>>, "updated")
  \/ text \notin Values /\ end(json_str_to_msgpack(text)) /\ UNCHANGED client

argument ==
  /\ pc = "argument"
  /\ update_str(args[1])
  /\ UNCHANGED <<given, line, result_chan, channel, pushed, printed>>

update_result_unchecked ==
  /\ pc = "updated" /\ result_chan # <<>>
  /\ result_chan' = Tail(result_chan)
  /\ IF program = "emit" /\ args \notin {<<>>, <<"empty">>} THEN end("0")
     ELSE pc' = "getline" /\ UNCHANGED status
  /\ UNCHANGED <<given, line, client, channel, pushed, printed>>
update_result ==
  /\ pc = "updated" /\ result_chan # <<>>
  /\ result_chan' = Tail(result_chan)
  /\ IF Head(result_chan).kind = "Error" THEN end("1")
     ELSE IF program = "emit" /\ args \notin {<<>>, <<"empty">>} THEN end("0")
     ELSE pc' = "getline" /\ UNCHANGED status
  /\ UNCHANGED <<given, line, client, channel, pushed, printed>>

getline_skips_empty ==
  /\ pc = "getline"
  /\ line' = line + 1
  /\ LET text == typed[line + 1]
     IN IF line = Len(typed) \/ text = "q" THEN end("0") /\ UNCHANGED client
        ELSE IF text = "empty" THEN UNCHANGED <<client, status, pc>>
        ELSE IF text = "u" /\ program = "publish"
          THEN request("StateChanged", <<>>, "updated")
        ELSE update_str(text)
  /\ UNCHANGED <<given, result_chan, channel, pushed, printed>>
getline ==
  /\ pc = "getline"
  /\ IF line = Len(typed) THEN end("0") /\ UNCHANGED <<line, client>>
     ELSE /\ line' = line + 1
          /\ LET text == typed[line + 1]
             IN \/ text = "q" /\ end("0") /\ UNCHANGED client
                \/ /\ text = "u" /\ program = "publish"
                   /\ request("StateChanged", <<>>, "updated")
                \/ /\ text # "q" /\ ~(text = "u" /\ program = "publish")
                   /\ update_str(text)
  /\ UNCHANGED <<given, result_chan, channel, pushed, printed>>

-----------------------------------------------------------------------------
(* listen and observe print what comes, until they are killed.             *)
read_channel_first ==
  /\ pc \in {"result", "channel"} /\ channel # <<>>
  /\ show_result(Head(channel)) /\ channel' = Tail(channel)
  /\ UNCHANGED <<given, pc, line, client, result_chan, pushed, status>>
read_channel_last ==
  /\ pc = "channel" /\ channel # <<>>
  /\ show_result(Last(channel)) /\ channel' = <<>>
  /\ UNCHANGED <<given, pc, line, client, result_chan, pushed, status>>
read_channel ==
  /\ pc = "channel" /\ channel # <<>>
  /\ show_result(Head(channel)) /\ channel' = Tail(channel)
  /\ UNCHANGED <<given, pc, line, client, result_chan, pushed, status>>

(* The client answers, or loses the connection; it passes on events and    *)
(* changes as soon as they were asked for.                                 *)
client_answers ==
  \E r \in Client!Waiting : \E res \in AnswersTo(asked[r]) :
    /\ status = "running"
    /\ Client!Answer(r, res) \/ (res = Error /\ Client!Lose({r}))
    /\ result_chan' = Append(result_chan, res)
    /\ UNCHANGED <<given, pc, line, made, channel, pushed, printed, status>>

client_pushes ==
  /\ program \in {"listen", "observe"} /\ made = 1 /\ status = "running"
  /\ Len(pushed) < MaxPushes
  /\ \E x \in {Known(x) : x \in Values} \cup (IF program = "observe" THEN {Unknown} ELSE {}) :
       channel' = Append(channel, x) /\ pushed' = Append(pushed, x)
  /\ UNCHANGED <<given, pc, line, client, result_chan, printed, status>>

Program ==
  \/ check_args \/ ESHETClient \/ first_request \/ first_result
  \/ argument \/ update_result \/ getline \/ read_channel

Next == Program \/ client_answers \/ client_pushes

(* The program runs, and the client answers sooner or later.  That is more *)
(* than RequestsEnd of EshetProperties promises: a client that finds no    *)
(* server, or one that goes silent while the connection is set up, answers *)
(* nothing, and the program waits with it.                                 *)
Spec == Init /\ [][Next]_vars /\ WF_vars(Program) /\ WF_vars(client_answers)
-----------------------------------------------------------------------------
(* What the user of publish and emit asked for, in order: the              *)
(* registration, the argument, and the lines up to the first q.            *)
LastLine ==
  LET quits == {i \in 1 .. Len(typed) : typed[i] = "q"}
  IN IF quits = {} THEN Len(typed) ELSE (CHOOSE i \in quits : \A j \in quits : i <= j) - 1
Argument == IF args \in {<<>>, <<"empty">>} THEN <<>> ELSE args
Wanted(text) == IF text \in Values THEN <<text>> ELSE None
WantedLines ==
  [i \in 1 .. LastLine |->
     IF typed[i] = "u" /\ program = "publish" THEN <<>> ELSE Wanted(typed[i])]
WantedArgument == [i \in 1 .. Len(Argument) |-> Wanted(Argument[i])]
WantedUpdates ==
  CASE program = "publish" -> WantedArgument \o WantedLines
    [] program = "emit" -> IF Argument # <<>> THEN WantedArgument ELSE WantedLines
    [] OTHER -> <<>>

Accepted(r) == answer[r] # <<>> /\ answer[r][1].kind # "Error"

(* The server is asked for exactly what the user typed, in order, nothing  *)
(* twice and nothing left out, and for a value only when it has accepted   *)
(* the one before: no line after a failed one is ever sent.                *)
SentInOrder ==
  \A r \in 1 .. made :
    /\ asked[r] = IF r = 1 THEN [op |-> FirstOp, value |-> FirstValue]
                 ELSE [op |-> UpdateOp, value |-> WantedUpdates[r - 1]]
    /\ r < made => Accepted(r)

(* One channel serves all the results, and still each read takes the       *)
(* result of the request made last: nothing is left in it when the next    *)
(* request is made.                                                        *)
OneResultAtATime ==
  /\ pc \in {"result", "updated"} =>
       result_chan = answer[made] /\ asked[made] # None
  /\ pc \notin {"result", "updated"} => result_chan = <<>>

(* The exit status can be relied on: 0 means that all the user asked for   *)
(* was sent and accepted, 1 that the server or the connection failed, or   *)
(* that the next text was not JSON.  Only a port, a number or an answer of *)
(* the wrong kind aborts a program.  complete ends with 0 when the server  *)
(* refuses, and offers nothing then.                                       *)
Refused == \E r \in 1 .. made : answer[r] = <<Error>>
NextIsBad ==
  \/ made = 0 /\ BadArgs # {}
  \/ made \in 1 .. Len(WantedUpdates) /\ WantedUpdates[made] = None
StatusHonest ==
  /\ status = "0" =>
       \/ made = Len(WantedUpdates) + 1 /\ Accepted(made)
       \/ program = "complete" /\ Refused /\ printed = <<>>
  /\ status = "1" /\ program # "complete" => Refused \/ NextIsBad
  /\ status = "abort" =>
       \/ made = 0 /\ server = "bad_port"
       \/ "huge" \in ToSet(args \o typed) /\ NextIsBad
       \/ program = "complete" /\ answer[1][1].value.shape = "ill_typed"

(* What listen and observe print is what the client passed on: in order,   *)
(* the value observe was answered with first, however early changes come.  *)
PrintedInOrder ==
  /\ program = "listen" => IsPrefix(printed, pushed)
  /\ program = "observe" =>
       \/ IsPrefix(printed, answer[1] \o pushed)
       \/ answer[1] = <<Error>> /\ printed = <<>>

(* The lines are those of the chosen entries, all of them and in order.    *)
Lists(lines, dir, entries, chosen) ==
  \E at \in [1 .. Len(lines) -> chosen] :
    /\ \A i \in chosen : \E k \in 1 .. Len(lines) : at[k] = i
    /\ \A k, l \in 1 .. Len(lines) : k < l => at[k] < at[l]
    /\ \A k \in 1 .. Len(lines) : lines[k] = candidate(dir, entries[at[k]])

(* The directory listed is that of the word, and what is offered for it is *)
(* what goes on from the word: all of it, in the server's order.  Without  *)
(* a slash in the word there is no directory and everything is offered.    *)
(* The name of an entry is here the part that is read as the name; see     *)
(* NamesOffered for what a comment says.                                   *)
Continuing(word, dir, entries) ==
  {i \in 1 .. Len(entries) : IsPrefix(word, dir \o name_of(entries[i]))}
CompletesTheWord ==
  program = "complete" /\ made = 1 =>
    LET dir == asked[1].value[1]
        entries == answer[1][1].value.entries
    IN IF Slashes(args) = {}
       THEN /\ dir = <<>>
            /\ status = "0" /\ Accepted(1) => Lists(printed, dir, entries, 1 .. Len(entries))
       ELSE /\ IsPrefix(dir, args)
            /\ Slashes(dir) = Slashes(args) /\ Last(dir) = "/"
            /\ status = "0" /\ Accepted(1) =>
                 Lists(printed, dir, entries, Continuing(args, dir, entries))

(* "each entry is [type, name]": from entries of that form the names are   *)
(* offered, those of directories with a slash.                             *)
NamesOffered ==
  program = "complete" /\ made = 1 /\ status = "0" /\ Accepted(1) =>
    LET dir == asked[1].value[1]
        entries == answer[1][1].value.entries
    IN ToSet(printed) \subseteq
         {dir \o entry[2] \o (IF entry[1] = <<"dir">> THEN <<"/">> ELSE <<" ">>) :
            entry \in ToSet(entries)}

(* Every program but listen and observe ends, if each of its requests gets *)
(* a result.                                                               *)
ProgramsEnd == program \notin {"listen", "observe"} ~> status # "running"

(* Everything passed on is printed.                                        *)
EverythingPrinted ==
  \A n \in 1 .. MaxPushes :
    Len(pushed) = n ~> Len(printed) >= n \/ status # "running"
=============================================================================
