--------------------------- MODULE ProgramProofs ---------------------------
(***************************************************************************)
(* Proofs about the programs: what they ask the server for, which result   *)
(* they take for which request, what their exit status means, and what     *)
(* they print, for any texts, any number of lines and any answers.         *)
(***************************************************************************)
EXTENDS Programs, TLAPS, WellFoundedInduction, SequenceTheorems

Command == [op : Operations, value : Seq(Texts \cup Seq(STRING))]
Results ==
  {Error, Unknown} \cup {Known(x) : x \in Values}
    \cup {Success(x) : x \in Values \cup Listings \cup {None}}

Stages ==
  {"start", "connect", "request", "result", "channel", "argument", "updated",
   "getline", "ended"}
Repeats == program \in {"publish", "emit"}
Streams == program \in {"listen", "observe"}

GivenOK ==
  /\ program \in AllPrograms /\ args \in ArgsOf(program)
  /\ typed \in Seq(Lines) /\ Len(typed) <= MaxLines
  /\ ~Repeats => typed = <<>>

TypeOK ==
  /\ GivenOK
  /\ pc \in Stages /\ status \in {"running", "0", "1", "abort"}
  /\ line \in 0 .. Len(typed) /\ made \in Nat
  /\ asked \in [Requests -> Command \cup {None}]
  /\ answer \in [Requests -> {<<>>} \cup {<<res>> : res \in Results}]

(* How far a program has come at each of its stages.                       *)
Progress ==
  /\ pc = "ended" <=> status # "running"
  /\ pc \in {"start", "connect", "request"} => made = 0 /\ line = 0
  /\ pc \in {"request", "result"} => args # None \/ program # "complete"
  /\ pc \in {"result", "channel", "argument"} => made = 1 /\ line = 0
  /\ pc = "channel" => Streams
  /\ pc = "argument" => Repeats /\ Argument # <<>>
  /\ pc \in {"updated", "getline"} => Repeats /\ made = 1 + Len(Argument) + line
  /\ pc = "getline" /\ program = "emit" => Argument = <<>>
  /\ pc = "updated" /\ program = "emit" /\ Argument # <<>> => line = 0
  /\ pc # "ended" => \A i \in 1 .. line : typed[i] # "q"

(* Requests are made in order, and only the last may be unanswered.        *)
Sending ==
  /\ made <= MaxLines + 2
  /\ SentInOrder
  /\ \A r \in Requests : r > made => asked[r] = None /\ answer[r] = <<>>
  /\ \A r \in 1 .. made : asked[r] # None
  /\ pc \in {"channel", "argument", "getline"} => Accepted(made)

(* What came is what was printed and what is left in the channel.          *)
Printing ==
  /\ channel \in Seq(Results) /\ pushed \in Seq(Results)
  /\ pc \notin {"channel", "ended"} => printed = <<>>
  /\ ~Streams => channel = <<>> /\ pushed = <<>>
  /\ Streams => printed \in Seq(Results)
  /\ program = "listen" => pushed = printed \o channel
  /\ program = "observe" /\ pc = "channel" => answer[1] \o pushed = printed \o channel
  /\ program = "observe" /\ pc # "channel" => printed = <<>> /\ pushed = channel

ProgramInv ==
  TypeOK /\ Progress /\ Sending /\ OneResultAtATime /\ StatusHonest /\ Printing

-----------------------------------------------------------------------------
(* The command line does not change.                                       *)
LEMMA SameTexts ==
  ASSUME UNCHANGED given
  PROVE  /\ UNCHANGED <<program, args, typed, server>>
         /\ UNCHANGED <<FirstOp, FirstValue, UpdateOp, Argument, BadArgs>>
         /\ UNCHANGED <<WantedUpdates, Repeats, Streams, GivenOK>>
<1>1. UNCHANGED <<program, args, typed, server>>
  BY DEF given
<1>2. UNCHANGED <<FirstOp, FirstValue, UpdateOp, Argument, BadArgs, Repeats, Streams, GivenOK>>
  BY <1>1 DEF FirstOp, FirstValue, UpdateOp, Argument, BadArgs, Repeats, Streams,
              GivenOK, ArgsOf, split_path, Slashes
<1>3. UNCHANGED <<LastLine, WantedArgument>>
  BY <1>1, <1>2 DEF LastLine, WantedArgument
<1>4. UNCHANGED WantedLines
  BY <1>1, <1>3 DEF WantedLines
<1> QED
  BY <1>1, <1>2, <1>3, <1>4 DEF WantedUpdates

(* Every nonempty set of naturals has a least element.                     *)
LEMMA LeastNatural ==
  ASSUME NEW T \in SUBSET Nat, T # {}
  PROVE  \E i \in T : \A j \in T : i <= j
<1> DEFINE R == OpToRel(<, Nat)
<1>1. IsWellFoundedOn(R, Nat)
  BY NatLessThanWellFounded
<1>2. PICK i \in T : \A j \in T : <<j, i>> \notin R
  <2> HIDE DEF R
  <2> QED
    BY <1>1, WFMin
<1>3. \A j \in T : ~(j < i)
  BY <1>2 DEF OpToRel
<1>4. \A j \in T : i <= j
  BY <1>3
<1> QED
  BY <1>4

(* The lines that are wanted are those before the first q.                 *)
LEMMA LinesUpToQ ==
  ASSUME GivenOK
  PROVE  /\ LastLine \in 0 .. Len(typed)
         /\ \A n \in 0 .. Len(typed) - 1 :
              (\A i \in 1 .. n : typed[i] # "q") =>
                IF typed[n + 1] = "q" THEN LastLine = n ELSE LastLine >= n + 1
         /\ (\A i \in 1 .. Len(typed) : typed[i] # "q") => LastLine = Len(typed)
<1> DEFINE quits == {i \in 1 .. Len(typed) : typed[i] = "q"}
           first == CHOOSE i \in quits : \A j \in quits : i <= j
<1>1. Len(typed) \in Nat /\ quits \in SUBSET Nat
  BY DEF GivenOK
<1>2. CASE quits = {}
  BY <1>1, <1>2 DEF LastLine
<1>3. CASE quits # {}
  <2>1. \E i \in quits : \A j \in quits : i <= j
    BY <1>1, <1>3, LeastNatural
  <2>2. first \in quits /\ \A j \in quits : first <= j
    BY <2>1
  <2>3. LastLine = first - 1
    BY <1>3 DEF LastLine
  <2>4. first \in 1 .. Len(typed) /\ typed[first] = "q"
    BY <2>2
  <2>5. \A j \in 1 .. Len(typed) : typed[j] = "q" => first <= j
    BY <2>2
  <2> HIDE DEF quits, first
  <2>6. ASSUME NEW n \in 0 .. Len(typed) - 1, \A i \in 1 .. n : typed[i] # "q"
        PROVE  IF typed[n + 1] = "q" THEN LastLine = n ELSE LastLine >= n + 1
    <3>1. n + 1 \in 1 .. Len(typed) /\ n \in Nat /\ first \in Nat
      BY <1>1, <2>4
    <3>2. ~(first <= n)
      BY <2>4, <2>6, <3>1
    <3>3. CASE typed[n + 1] = "q"
      <4>1. first <= n + 1
        BY <2>5, <3>1, <3>3
      <4> QED
        BY <4>1, <3>1, <3>2, <3>3, <2>3
    <3>4. CASE typed[n + 1] # "q"
      <4>1. first # n + 1
        BY <2>4, <3>4
      <4> QED
        BY <4>1, <3>1, <3>2, <3>4, <2>3
    <3> QED
      BY <3>3, <3>4
  <2> QED
    BY <1>1, <2>3, <2>4, <2>6
<1> QED
  BY <1>2, <1>3

(* The arguments of call and set, and the first that is no value.          *)
LEMMA ArgsTyped ==
  ASSUME GivenOK, program \in {"call", "set"}
  PROVE  args \in Seq(Lines)
<1>1. CASE program = "call"
  <2>1. args \in SeqOf(Lines, MaxArgs)
    BY <1>1 DEF GivenOK, ArgsOf
  <2>2. PICK n \in Nat : args \in [1 .. n -> Lines]
    BY <2>1, ProgramsAssumption DEF SeqOf
  <2> QED
    BY <2>2, SeqDef
<1>2. CASE program = "set"
  <2>1. PICK text \in Lines : args = <<text>>
    BY <1>2 DEF GivenOK, ArgsOf
  <2> QED
    BY <2>1
<1> QED
  BY <1>1, <1>2

LEMMA FirstBadArg ==
  ASSUME GivenOK, program \in {"call", "set"}, BadArgs # {}
  PROVE  (CHOOSE i \in BadArgs : \A j \in BadArgs : i <= j) \in BadArgs
<1>1. BadArgs \in SUBSET Nat
  BY ArgsTyped DEF BadArgs
<1> QED
  BY <1>1, LeastNatural

(* What publish and emit were given to begin with.                         *)
LEMMA ArgumentIs ==
  ASSUME GivenOK, Repeats
  PROVE  /\ args \in Seq(Lines) /\ Len(args) \in 0 .. 1
         /\ Argument = IF args \in {<<>>, <<"empty">>} THEN <<>> ELSE args
         /\ Argument # <<>> => Len(Argument) = 1 /\ Argument[1] = args[1]
<1>1. args \in {<<>>} \cup {<<text>> : text \in Lines}
  BY DEF GivenOK, ArgsOf, Repeats
<1>2. CASE args = <<>>
  BY <1>2 DEF Argument
<1>3. ASSUME NEW text \in Lines, args = <<text>> 
      PROVE  /\ args \in Seq(Lines) /\ Len(args) = 1
             /\ Argument = IF args \in {<<>>, <<"empty">>} THEN <<>> ELSE args
             /\ Argument # <<>> => Len(Argument) = 1 /\ Argument[1] = args[1]
  BY <1>3 DEF Argument
<1> QED
  BY <1>1, <1>2, <1>3

(* Where in WantedUpdates the argument and the lines are.                  *)
LEMMA UpdatesAre ==
  ASSUME GivenOK, Repeats
  PROVE  /\ LastLine \in Nat
         /\ Len(WantedUpdates) = IF program = "emit" /\ Argument # <<>> THEN 1
                                 ELSE Len(Argument) + LastLine
         /\ Argument # <<>> => WantedUpdates[1] = Wanted(args[1])
         /\ program = "publish" \/ Argument = <<>> =>
              \A i \in 1 .. LastLine : WantedUpdates[Len(Argument) + i] = WantedLines[i]
<1> DEFINE A == WantedArgument
           L == WantedLines
<1>1. LastLine \in Nat
  BY LinesUpToQ DEF GivenOK
<1>2. /\ Argument = <<>> \/ (Len(Argument) = 1 /\ Argument[1] = args[1])
      /\ Len(Argument) \in Nat
  BY ArgumentIs
<1>3. A = [i \in 1 .. Len(Argument) |-> Wanted(Argument[i])]
  BY DEF WantedArgument
<1>4. L = [i \in 1 .. LastLine |-> L[i]]
  BY DEF WantedLines
<1> DEFINE S == {A[i] : i \in 1 .. Len(Argument)} \cup {L[i] : i \in 1 .. LastLine}
<1>5. A \in Seq(S) /\ Len(A) = Len(Argument)
  <2> HIDE DEF A, L
  <2>1. \A i \in 1 .. Len(Argument) : A[i] \in S
    OBVIOUS
  <2>2. A = [i \in 1 .. Len(Argument) |-> A[i]]
    BY <1>3
  <2> HIDE DEF S
  <2> QED
    BY <2>1, <2>2, <1>2, IsASeq
<1>6. L \in Seq(S) /\ Len(L) = LastLine
  <2> HIDE DEF A, L
  <2>1. \A i \in 1 .. LastLine : L[i] \in S
    OBVIOUS
  <2> HIDE DEF S
  <2> QED
    BY <2>1, <1>4, <1>1, IsASeq
<1> HIDE DEF A, L, S
<1>7. program = "publish" => WantedUpdates = A \o L
  BY DEF WantedUpdates, A, L
<1>8. program = "emit" => WantedUpdates = IF Argument # <<>> THEN A ELSE L
  BY DEF WantedUpdates, A, L
<1>9. program \in {"publish", "emit"}
  BY DEF Repeats
<1>10. Argument # <<>> => A[1] = Wanted(args[1])
  BY <1>2, <1>3
<1>11. CASE program = "publish"
  <2>1. /\ Len(WantedUpdates) = Len(Argument) + LastLine
        /\ \A i \in 1 .. Len(A) + Len(L) :
             WantedUpdates[i] = IF i <= Len(A) THEN A[i] ELSE L[i - Len(A)]
    BY <1>5, <1>6, <1>7, <1>11, ConcatProperties
  <2>2. \A i \in 1 .. LastLine : WantedUpdates[Len(Argument) + i] = L[i]
    <3> TAKE i \in 1 .. LastLine
    <3>1. /\ Len(A) + i \in 1 .. Len(A) + Len(L) /\ ~(Len(A) + i <= Len(A))
          /\ Len(A) + i - Len(A) = i
      BY <1>1, <1>2, <1>5, <1>6
    <3> QED
      BY <3>1, <2>1, <1>5
  <2>3. Argument # <<>> => WantedUpdates[1] = A[1]
    BY <2>1, <1>1, <1>2, <1>5, <1>6
  <2> QED
    BY <2>1, <2>2, <2>3, <1>1, <1>10, <1>11 DEF L
<1>12. CASE program = "emit"
  <2>1. CASE Argument # <<>>
    BY <2>1, <1>1, <1>2, <1>5, <1>8, <1>10, <1>12
  <2>2. CASE Argument = <<>>
    <3>1. WantedUpdates = L /\ Len(Argument) = 0
      BY <2>2, <1>8, <1>12
    <3>2. \A i \in 1 .. LastLine : Len(Argument) + i = i
      BY <3>1, <1>1
    <3> QED
      BY <3>1, <3>2, <2>2, <1>1, <1>6 DEF L
  <2> QED
    BY <2>1, <2>2
<1> QED
  BY <1>9, <1>11, <1>12

-----------------------------------------------------------------------------
(* Steps that ask for nothing, and steps that make the next request.       *)
LEMMA SendingStays ==
  ASSUME Sending, UNCHANGED <<given, client>>,
         pc' \in {"channel", "argument", "getline"} => Accepted(made)
  PROVE  Sending'
<1>1. UNCHANGED <<made, asked, answer>>
  BY DEF client
<1>2. UNCHANGED <<FirstOp, FirstValue, UpdateOp, WantedUpdates>>
  BY SameTexts
<1>3. \A r : Accepted(r)' = Accepted(r)
  BY <1>1 DEF Accepted
<1>4. SentInOrder'
  BY <1>1, <1>2, <1>3 DEF Sending, SentInOrder
<1>5. pc' \in {"channel", "argument", "getline"} => Accepted(made)'
  BY <1>1 DEF Accepted
<1> QED
  BY <1>1, <1>4, <1>5 DEF Sending

LEMMA Requesting ==
  ASSUME TypeOK, Sending, UNCHANGED <<given, result_chan>>, result_chan = <<>>,
         NEW op \in Operations, NEW value \in Seq(Texts \cup Seq(STRING)),
         NEW next \in {"result", "updated"}, request(op, value, next),
         made < MaxLines + 2,
         made = 0 => op = FirstOp /\ value = FirstValue,
         made # 0 => op = UpdateOp /\ value = WantedUpdates[made] /\ Accepted(made)
  PROVE  /\ made' = made + 1 /\ answer' = answer /\ pc' = next /\ status' = status
         /\ asked' \in [Requests -> Command \cup {None}]
         /\ Sending' /\ OneResultAtATime'
<1> DEFINE c == [op |-> op, value |-> value]
<1>1. made \in Nat /\ MaxLines \in Nat /\ made + 1 \in Requests
  BY ProgramsAssumption DEF TypeOK, Requests
<1>2. c \in Command /\ c # None
  BY ProgramsAssumption DEF Command
<1>3. /\ made' = made + 1 /\ answer' = answer /\ pc' = next /\ status' = status
      /\ asked' = [asked EXCEPT ![made + 1] = c]
  BY DEF request, Client!Ask
<1> HIDE DEF c
<1>4. asked' \in [Requests -> Command \cup {None}]
  BY <1>1, <1>2, <1>3 DEF TypeOK
<1>5. \A r \in Requests : asked'[r] = IF r = made + 1 THEN c ELSE asked[r]
  BY <1>1, <1>3 DEF TypeOK
<1>6. \A r : Accepted(r)' = Accepted(r)
  BY <1>3 DEF Accepted
<1>7. UNCHANGED <<FirstOp, FirstValue, UpdateOp, WantedUpdates>>
  BY SameTexts
<1>8. 1 .. made' \subseteq Requests
  BY <1>1, <1>3 DEF Requests
<1>9. SentInOrder'
  <2> SUFFICES ASSUME NEW r \in 1 .. made'
               PROVE  /\ asked'[r] = IF r = 1 THEN [op |-> FirstOp, value |-> FirstValue]
                                     ELSE [op |-> UpdateOp, value |-> WantedUpdates[r - 1]]
                      /\ r < made' => Accepted(r)
    BY <1>6, <1>7 DEF SentInOrder
  <2>1. CASE r = made + 1
    BY <2>1, <1>1, <1>3, <1>5, <1>8 DEF c
  <2>2. CASE r # made + 1
    <3>1. r \in 1 .. made
      BY <2>2, <1>1, <1>3
    <3>2. asked'[r] = asked[r]
      BY <2>2, <1>5, <1>8
    <3>3. r < made \/ r = made
      BY <3>1, <1>1
    <3> QED
      BY <3>1, <3>2, <3>3, <1>1 DEF Sending, SentInOrder
  <2> QED
    BY <2>1, <2>2
<1>10. \A r \in Requests : r > made' => asked'[r] = None /\ answer'[r] = <<>>
  BY <1>1, <1>3, <1>5 DEF Sending, Requests
<1>11. \A r \in 1 .. made' : asked'[r] # None
  <2> TAKE r \in 1 .. made'
  <2>1. r = made + 1 \/ r \in 1 .. made
    BY <1>1, <1>3
  <2> QED
    BY <2>1, <1>2, <1>5, <1>8 DEF Sending
<1>12. Sending'
  BY <1>1, <1>3, <1>9, <1>10, <1>11 DEF Sending
<1>13. answer[made + 1] = <<>>
  BY <1>1 DEF Sending
<1>14. asked'[made'] # None
  BY <1>1, <1>3, <1>11
<1>15. OneResultAtATime'
  BY <1>3, <1>13, <1>14 DEF OneResultAtATime
<1> QED
  BY <1>3, <1>4, <1>12, <1>15

(* What the steps up to the first request leave alone.                     *)
LEMMA PrintingStays ==
  ASSUME Printing, UNCHANGED <<given, client, channel, pushed, printed>>,
         pc' = "channel" <=> pc = "channel",
         pc = "ended" => pc' = "ended"
  PROVE  Printing'
<1>1. UNCHANGED <<program, channel, pushed, printed, answer, Streams>>
  BY SameTexts DEF client
<1> QED
  BY <1>1 DEF Printing

(* A program that runs has nothing to be honest about.                     *)
LEMMA RunsHonestly == status' = "running" => StatusHonest'
  BY DEF StatusHonest

(* StatusHonest of a program that ends with how after printing output.     *)
Honest(how, output) ==
  /\ how = "0" =>
       \/ made = Len(WantedUpdates) + 1 /\ Accepted(made)
       \/ program = "complete" /\ Refused /\ output = <<>>
  /\ how = "1" /\ program # "complete" => Refused \/ NextIsBad
  /\ how = "abort" =>
       \/ made = 0 /\ server = "bad_port"
       \/ "huge" \in ToSet(args \o typed) /\ NextIsBad
       \/ program = "complete" /\ answer[1][1].value.shape = "ill_typed"

LEMMA EndsHonestly ==
  ASSUME UNCHANGED <<given, client>>, Honest(status', printed')
  PROVE  StatusHonest'
<1>1. UNCHANGED <<program, args, typed, server, WantedUpdates, BadArgs, made, answer>>
  BY SameTexts DEF client
<1>2. UNCHANGED <<Refused, NextIsBad>> /\ Accepted(made)' = Accepted(made)
  BY <1>1 DEF Refused, NextIsBad, Accepted
<1> QED
  BY <1>1, <1>2 DEF StatusHonest, Honest

(* A program that has ended stays as it is.                                *)
LEMMA EndsWell ==
  ASSUME TypeOK, Progress, Sending, Printing, UNCHANGED <<given, client, pushed>>,
         end(status'), status' \in {"0", "1", "abort"},
         line' \in 0 .. Len(typed), result_chan' = <<>>,
         Honest(status', printed'), pc # "channel",
         UNCHANGED channel, Streams => UNCHANGED printed
  PROVE  ProgramInv'
<1>1. UNCHANGED <<made, asked, answer, program, args, typed, server, pushed>>
  BY SameTexts DEF client
<1>2. UNCHANGED <<Argument, Repeats, Streams, GivenOK>>
  BY SameTexts
<1>3. pc' = "ended"
  BY DEF end
<1>4. TypeOK'
  BY <1>1, <1>2, <1>3 DEF TypeOK, Stages
<1>5. Progress'
  BY <1>3 DEF Progress
<1>6. Sending'
  BY <1>3, SendingStays
<1>7. OneResultAtATime'
  BY <1>3 DEF OneResultAtATime
<1>8. StatusHonest'
  BY EndsHonestly
<1>9. Printing'
  BY <1>1, <1>2, <1>3 DEF Printing, Streams
<1> QED
  BY <1>4, <1>5, <1>6, <1>7, <1>8, <1>9 DEF ProgramInv

(* How a program ends for a text that is no value.                         *)
LEMMA BadText ==
  ASSUME NEW text, text \notin Values
  PROVE  /\ json_str_to_msgpack(text) \in {"1", "abort"}
         /\ json_str_to_msgpack(text) = "abort" => text = "huge"
  BY DEF json_str_to_msgpack

LEMMA CheckArgs ==
  ASSUME ProgramInv, check_args
  PROVE  ProgramInv'
<1> USE DEF ProgramInv
<1>1. UNCHANGED <<given, line, client, result_chan, channel, pushed, printed>>
  BY DEF check_args
<1>2. UNCHANGED <<line, made, asked, answer, program, args, typed, server, result_chan>>
  BY <1>1, SameTexts DEF client
<1>3. made = 0 /\ line = 0 /\ pc = "start" /\ status = "running"
  BY DEF check_args, Progress
<1>4. UNCHANGED <<Argument, BadArgs, WantedUpdates, Repeats, Streams, GivenOK>>
  BY <1>1, SameTexts
<1>5. Sending'
  BY <1>1, <1>3, SendingStays DEF check_args, end
<1> DEFINE n == CHOOSE i \in BadArgs : \A j \in BadArgs : i <= j
           bad == args[n]
<1>6. CASE program \in {"call", "set"} /\ BadArgs # {}
  <2>1. end(json_str_to_msgpack(bad)) /\ status' = json_str_to_msgpack(bad)
    BY <1>6 DEF check_args, end
  <2>2. typed = <<>> /\ GivenOK
    BY <1>6 DEF TypeOK, GivenOK, Repeats
  <2>8. args \in Seq(Lines) /\ bad \in ToSet(args) /\ bad \notin Values
    <3>1. args \in Seq(Lines) /\ n \in BadArgs
      BY <1>6, <2>2, ArgsTyped, FirstBadArg
    <3> HIDE DEF n
    <3>2. n \in 1 .. Len(args) /\ json_str_to_msgpack(args[n]) # "value"
      BY <3>1 DEF BadArgs
    <3>3. DOMAIN args = 1 .. Len(args)
      BY <3>1
    <3>4. bad \in ToSet(args)
      BY <3>2, <3>3 DEF ToSet
    <3>5. bad \notin Values
      BY <3>2, ProgramsAssumption DEF json_str_to_msgpack
    <3> QED
      BY <3>1, <3>4, <3>5
  <2>3. args \o typed = args
    BY <2>2, <2>8
  <2>4. Honest(status', printed')
    BY <2>1, <2>8, <2>3, <1>3, <1>6, BadText DEF Honest, NextIsBad
  <2>5. result_chan' = <<>> /\ line' \in 0 .. Len(typed)
    BY <1>2, <1>3 DEF OneResultAtATime, TypeOK
  <2> HIDE DEF bad
  <2> QED
    BY <2>1, <2>8, <2>4, <2>5, <1>1, <1>3, BadText, EndsWell
<1>7. CASE ~(program \in {"call", "set"} /\ BadArgs # {})
  <2>1. pc' = "connect" /\ status' = status
    BY <1>7 DEF check_args
  <2>2. TypeOK'
    BY <2>1, <1>2, <1>4 DEF TypeOK, Stages
  <2>3. Progress'
    BY <2>1, <1>2, <1>3, <1>4 DEF Progress
  <2>4. OneResultAtATime'
    BY <2>1, <1>2, <1>3 DEF OneResultAtATime
  <2>5. Printing'
    BY <2>1, <1>1, <1>3, PrintingStays
  <2> QED
    BY <2>1, <2>2, <2>3, <2>4, <2>5, <1>3, <1>5, RunsHonestly
<1> QED
  BY <1>6, <1>7

LEMMA Connects ==
  ASSUME ProgramInv, ESHETClient
  PROVE  ProgramInv'
<1> USE DEF ProgramInv
<1>1. UNCHANGED <<given, line, client, result_chan, channel, pushed, printed>>
  BY DEF ESHETClient
<1>2. UNCHANGED <<line, made, asked, answer, program, args, typed, result_chan>>
  BY <1>1, SameTexts DEF client
<1>3. made = 0 /\ line = 0 /\ pc = "connect" /\ status = "running" /\ result_chan = <<>>
  BY DEF ESHETClient, Progress, OneResultAtATime
<1>4. UNCHANGED <<Argument, Repeats, Streams, GivenOK>>
  BY <1>1, SameTexts
<1>5. CASE end("abort") /\ server = "bad_port"
  <2>1. status' = "abort" /\ Honest(status', printed')
    BY <1>3, <1>5 DEF end, Honest
  <2> QED
    BY <2>1, <1>1, <1>2, <1>3, <1>5, EndsWell DEF TypeOK
<1>6. CASE end("1") /\ program = "complete"
  <2>1. status' = "1" /\ Honest(status', printed')
    BY <1>6 DEF end, Honest
  <2> QED
    BY <2>1, <1>1, <1>2, <1>3, <1>6, EndsWell DEF TypeOK
<1>7. CASE /\ pc' = "request" /\ UNCHANGED status
           /\ program # "complete" \/ args # None
  <2>1. TypeOK'
    BY <1>2, <1>4, <1>7 DEF TypeOK, Stages
  <2>2. Progress'
    BY <1>2, <1>3, <1>4, <1>7 DEF Progress
  <2>3. Sending'
    BY <1>1, <1>7, SendingStays
  <2>4. OneResultAtATime'
    BY <1>2, <1>3, <1>7 DEF OneResultAtATime
  <2>5. Printing'
    BY <1>1, <1>3, <1>7, PrintingStays
  <2> QED
    BY <2>1, <2>2, <2>3, <2>4, <2>5, <1>3, <1>7, RunsHonestly
<1> QED
  BY <1>5, <1>6, <1>7 DEF ESHETClient, get_host_port

(* A word is its directory, up to the last slash, and its last part.       *)
LEMMA LastSlash ==
  ASSUME NEW word \in Seq(STRING), Slashes(word) # {}
  PROVE  \E n \in Slashes(word) :
           /\ n \in 1 .. Len(word) /\ \A j \in Slashes(word) : j <= n
           /\ split_path(word) = [dir  |-> SubSeq(word, 1, n),
                                  last |-> SubSeq(word, n + 1, Len(word))]
<1> DEFINE T == {Len(word) - i : i \in Slashes(word)}
           slash == CHOOSE i \in Slashes(word) : \A j \in Slashes(word) : j <= i
<1>1. Len(word) \in Nat /\ Slashes(word) \subseteq 1 .. Len(word)
  BY DEF Slashes
<1>2. T \in SUBSET Nat /\ T # {}
  BY <1>1
<1>3. PICK t \in T : \A j \in T : t <= j
  BY <1>2, LeastNatural
<1>4. PICK i \in Slashes(word) : t = Len(word) - i
  BY <1>3
<1>5. \A j \in Slashes(word) : j <= i
  <2> TAKE j \in Slashes(word)
  <2>1. t <= Len(word) - j
    BY <1>3
  <2> QED
    BY <2>1, <1>1, <1>4
<1>6. slash \in Slashes(word) /\ \A j \in Slashes(word) : j <= slash
  BY <1>5
<1>7. split_path(word) = [dir  |-> SubSeq(word, 1, slash),
                          last |-> SubSeq(word, slash + 1, Len(word))]
  BY DEF split_path
<1> HIDE DEF slash
<1> QED
  BY <1>1, <1>6, <1>7

(* What is asked for first.                                                *)
LEMMA DirTyped ==
  ASSUME NEW word \in Seq(STRING)
  PROVE  split_path(word).dir \in Seq(STRING)
<1>1. CASE Slashes(word) = {}
  BY <1>1 DEF split_path
<1>2. CASE Slashes(word) # {}
  <2>1. PICK n \in Slashes(word) : n \in 1 .. Len(word)
                                  /\ split_path(word).dir = SubSeq(word, 1, n)
    BY <1>2, LastSlash
  <2> QED
    BY <2>1
<1> QED
  BY <1>1, <1>2

LEMMA FirstTyped ==
  ASSUME GivenOK, args # None \/ program # "complete"
  PROVE  FirstOp \in Operations /\ FirstValue \in Seq(Texts \cup Seq(STRING))
<1>1. FirstOp \in Operations
  <2>1. program \in AllPrograms
    BY DEF GivenOK
  <2> QED
    BY <2>1 DEF AllPrograms, FirstOp, Operations
<1>2. CASE program \in {"call", "set"}
  <2>1. args \in Seq(Lines) /\ Lines \subseteq Texts
    BY <1>2, ArgsTyped, ProgramsAssumption
  <2>2. args \in Seq(Texts \cup Seq(STRING))
    BY <2>1
  <2> QED
    BY <2>2, <1>2, <1>1 DEF FirstValue
<1>3. CASE program = "complete"
  <2>1. args \in Words
    BY <1>3 DEF GivenOK, ArgsOf
  <2>2. split_path(args).dir \in Seq(STRING)
    BY <2>1, DirTyped, ProgramsAssumption
  <2>3. FirstValue = <<split_path(args).dir>>
    BY <1>3 DEF FirstValue
  <2> QED
    BY <2>2, <2>3, <1>1
<1>4. CASE program \notin {"call", "set", "complete"}
  BY <1>1, <1>4 DEF FirstValue
<1> QED
  BY <1>2, <1>3, <1>4

LEMMA FirstRequested ==
  ASSUME ProgramInv, first_request
  PROVE  ProgramInv'
<1> USE DEF ProgramInv
<1>1. /\ UNCHANGED <<given, line, result_chan, channel, pushed, printed>>
      /\ request(FirstOp, FirstValue, "result")
  BY DEF first_request
<1>2. /\ made = 0 /\ line = 0 /\ pc = "request" /\ status = "running"
      /\ result_chan = <<>> /\ (args # None \/ program # "complete")
  BY DEF first_request, Progress, OneResultAtATime
<1>3. MaxLines \in Nat /\ GivenOK
  BY ProgramsAssumption DEF TypeOK
<1>4. FirstOp \in Operations /\ FirstValue \in Seq(Texts \cup Seq(STRING))
  BY <1>2, <1>3, FirstTyped
<1>5. /\ made' = made + 1 /\ answer' = answer /\ pc' = "result" /\ status' = status
      /\ asked' \in [Requests -> Command \cup {None}]
      /\ Sending' /\ OneResultAtATime'
  BY <1>1, <1>2, <1>3, <1>4, Requesting
<1>6. UNCHANGED <<program, args, typed, Argument, Repeats, Streams, GivenOK>>
  BY <1>1, SameTexts
<1>7. TypeOK'
  BY <1>1, <1>2, <1>5, <1>6 DEF TypeOK, Stages
<1>8. Progress'
  BY <1>1, <1>2, <1>5, <1>6 DEF Progress
<1>9. Printing'
  BY <1>1, <1>2, <1>5, <1>6 DEF Printing
<1> QED
  BY <1>2, <1>5, <1>7, <1>8, <1>9, RunsHonestly

(* The result that is read is the only one, and that of the last request.  *)
LEMMA ResultRead ==
  ASSUME ProgramInv, pc \in {"result", "updated"}, result_chan # <<>>
  PROVE  /\ made \in Requests /\ Head(result_chan) \in Results
         /\ answer[made] = <<Head(result_chan)>> /\ Tail(result_chan) = <<>>
         /\ Head(result_chan).kind = "Error" => Refused
         /\ Head(result_chan).kind # "Error" => Accepted(made)
<1>1. made \in Nat /\ made # 0 /\ MaxLines \in Nat /\ made <= MaxLines + 2
  <2>1. Repeats => Len(Argument) \in Nat
    BY ArgumentIs DEF ProgramInv, TypeOK
  <2> QED
    BY <2>1, ProgramsAssumption DEF ProgramInv, TypeOK, Progress, Sending
<1>2. made \in Requests
  BY <1>1 DEF Requests
<1>3. result_chan = answer[made]
  BY DEF ProgramInv, OneResultAtATime
<1>4. PICK res \in Results : answer[made] = <<res>>
  BY <1>2, <1>3 DEF ProgramInv, TypeOK
<1>5. Head(result_chan) = res /\ Tail(result_chan) = <<>>
  BY <1>3, <1>4
<1>6. res.kind = "Error" => res = Error
  BY DEF Results, Error, Unknown, Known, Success
<1>7. res.kind = "Error" => Refused
  BY <1>1, <1>4, <1>6 DEF Refused
<1>8. res.kind # "Error" => Accepted(made)
  BY <1>4 DEF Accepted
<1> QED
  BY <1>2, <1>4, <1>5, <1>7, <1>8

LEMMA FirstResult ==
  ASSUME ProgramInv, first_result
  PROVE  ProgramInv'
<1> USE DEF ProgramInv
<1> DEFINE res == Head(result_chan)
<1>1. /\ UNCHANGED <<given, line, client, channel, pushed>>
      /\ pc = "result" /\ result_chan # <<>> /\ result_chan' = Tail(result_chan)
  BY DEF first_result
<1>2. UNCHANGED <<line, made, asked, answer, program, args, typed>>
  BY <1>1, SameTexts DEF client
<1>3. made = 1 /\ line = 0 /\ status = "running" /\ printed = <<>>
  BY <1>1 DEF Progress, Printing
<1>4. /\ res \in Results /\ answer[1] = <<res>> /\ result_chan' = <<>>
      /\ res.kind = "Error" => Refused
      /\ res.kind # "Error" => Accepted(1)
  BY <1>1, <1>3, ResultRead
<1>5. UNCHANGED <<Argument, Repeats, Streams, GivenOK>>
  BY <1>1, SameTexts
<1>6. line' \in 0 .. Len(typed)
  BY <1>2 DEF TypeOK
<1>7. CASE program = "complete"
  <2>1. offer(res)
    BY <1>7 DEF first_result
  <2>2. WantedUpdates = <<>> /\ ~Streams
    BY <1>7 DEF WantedUpdates, Streams
  <2>3. end(status') /\ status' \in {"0", "1", "abort"}
    BY <2>1 DEF offer, end
  <2>4. answer[1][1] = res
    BY <1>4
  <2>5. Honest(status', printed')
    <3>1. CASE res.kind = "Error"
      BY <3>1, <2>1, <1>3, <1>4, <1>7 DEF offer, end, Honest
    <3>2. CASE res.kind # "Error" /\ res.value.shape = "dir"
      BY <3>2, <2>1, <2>2, <1>3, <1>4 DEF offer, end, Honest
    <3>3. CASE res.kind # "Error" /\ res.value.shape = "ill_typed"
      BY <3>3, <2>1, <2>4, <1>7 DEF offer, end, Honest
    <3>4. CASE res.kind # "Error" /\ res.value.shape \notin {"dir", "ill_typed"}
      BY <3>4, <2>1, <1>7 DEF offer, end, Honest
    <3> QED
      BY <3>1, <3>2, <3>3, <3>4
  <2> HIDE DEF res
  <2> QED
    BY <2>2, <2>3, <2>5, <1>1, <1>4, <1>6, EndsWell
<1>8. CASE program # "complete" /\ res.kind = "Error"
  <2>1. end("1") /\ status' = "1" /\ printed' = printed
    BY <1>8 DEF first_result, end
  <2>2. Honest(status', printed')
    BY <2>1, <1>4, <1>8 DEF Honest
  <2> HIDE DEF res
  <2> QED
    BY <2>1, <2>2, <1>1, <1>4, <1>6, EndsWell
<1>9. CASE program # "complete" /\ res.kind # "Error"
  <2>1. carry_on(res)
    BY <1>9 DEF first_result
  <2>2. Accepted(1)
    BY <1>4, <1>9
  <2>3. CASE program \in {"call", "get", "set"}
    <3>1. end("0") /\ status' = "0"
      BY <2>1, <2>3 DEF carry_on, end
    <3>2. WantedUpdates = <<>> /\ ~Streams
      BY <2>3 DEF WantedUpdates, Streams
    <3>3. Honest(status', printed')
      BY <3>1, <3>2, <2>2, <1>3 DEF Honest
    <3> QED
      BY <3>1, <3>2, <3>3, <1>1, <1>4, <1>6, EndsWell
  <2>4. CASE Streams
    <3>1. /\ pc' = "channel" /\ UNCHANGED status
          /\ program = "observe" => printed' = <<res>>
          /\ program = "listen" => printed' = printed
      BY <2>1, <2>4, <1>3 DEF carry_on, Streams, show_result
    <3> HIDE DEF res
    <3>2. TypeOK'
      BY <3>1, <1>2, <1>5 DEF TypeOK, Stages
    <3>3. Progress'
      BY <3>1, <1>2, <1>3, <1>5, <2>4 DEF Progress
    <3>4. Sending'
      BY <1>1, <1>3, <2>2, SendingStays
    <3>5. OneResultAtATime'
      BY <3>1, <1>4 DEF OneResultAtATime
    <3>6. Printing'
      <4>1. program = "listen" => printed' = <<>> /\ pushed = channel
        BY <3>1, <1>3 DEF Printing
      <4>2. program = "observe" => pushed = channel /\ answer[1] \o pushed = printed' \o channel
        BY <3>1, <1>1, <1>4 DEF Printing
      <4>3. printed' \in Seq(Results)
        <5>1. <<>> \in Seq(Results) /\ <<res>> \in Seq(Results)
          BY <1>4
        <5> QED
          BY <5>1, <3>1, <1>3, <2>4 DEF Streams
      <4> QED
        BY <4>1, <4>2, <4>3, <3>1, <1>1, <1>2, <1>5, <2>4 DEF Printing, Streams
    <3> QED
      BY <3>1, <3>2, <3>3, <3>4, <3>5, <3>6, <1>3, RunsHonestly
  <2>5. CASE Repeats
    <3>1. /\ pc' = IF args \in {<<>>, <<"empty">>} THEN "getline" ELSE "argument"
          /\ UNCHANGED <<status, printed>>
      BY <2>1, <2>5 DEF carry_on, Repeats
    <3>2. Argument = IF args \in {<<>>, <<"empty">>} THEN <<>> ELSE args
      BY DEF Argument
    <3>3. TypeOK'
      BY <3>1, <1>2, <1>5 DEF TypeOK, Stages
    <3>4. Progress'
      BY <3>1, <3>2, <1>2, <1>3, <1>5, <2>5 DEF Progress
    <3>5. Sending'
      BY <1>1, <1>3, <2>2, SendingStays
    <3>6. OneResultAtATime'
      BY <3>1, <1>4 DEF OneResultAtATime
    <3>7. Printing'
      BY <3>1, <1>1, PrintingStays
    <3> QED
      BY <3>1, <3>3, <3>4, <3>5, <3>6, <3>7, <1>3, RunsHonestly
  <2> QED
    BY <2>1, <2>3, <2>4, <2>5 DEF carry_on, Streams, Repeats
<1> QED
  BY <1>7, <1>8, <1>9

-----------------------------------------------------------------------------
(* publish and emit.                                                       *)
LEMMA TextsGiven ==
  ASSUME TypeOK, Repeats
  PROVE  /\ \A i \in 1 .. Len(args) : args[i] \in ToSet(args \o typed)
         /\ \A i \in 1 .. Len(typed) : typed[i] \in ToSet(args \o typed)
<1>1. args \in Seq(Lines) /\ typed \in Seq(Lines)
  BY ArgumentIs DEF TypeOK, GivenOK
<1> DEFINE both == args \o typed
<1>2. /\ both \in Seq(Lines) /\ Len(both) = Len(args) + Len(typed)
      /\ \A i \in 1 .. Len(args) + Len(typed) :
           both[i] = IF i <= Len(args) THEN args[i] ELSE typed[i - Len(args)]
  BY <1>1, ConcatProperties
<1> HIDE DEF both
<1>3. Len(args) \in Nat /\ Len(typed) \in Nat /\ DOMAIN both = 1 .. Len(args) + Len(typed)
  BY <1>1, <1>2
<1>4. ASSUME NEW i \in 1 .. Len(args) PROVE args[i] \in ToSet(both)
  <2>1. i \in 1 .. Len(args) + Len(typed) /\ i <= Len(args)
    BY <1>3
  <2> QED
    BY <2>1, <1>2, <1>3 DEF ToSet
<1>5. ASSUME NEW i \in 1 .. Len(typed) PROVE typed[i] \in ToSet(both)
  <2>1. /\ Len(args) + i \in 1 .. Len(args) + Len(typed)
        /\ ~(Len(args) + i <= Len(args)) /\ Len(args) + i - Len(args) = i
    BY <1>3
  <2>2. both[Len(args) + i] = typed[i]
    BY <2>1, <1>2
  <2> QED
    BY <2>1, <2>2, <1>3 DEF ToSet
<1> QED
  BY <1>4, <1>5 DEF both

(* update_str and emit_str, given the next text that is wanted.            *)
LEMMA UpdateStr ==
  ASSUME ProgramInv, Repeats, pc \in {"argument", "getline"}, NEW text,
         text \in ToSet(args \o typed), update_str(text),
         UNCHANGED <<given, result_chan, channel, pushed, printed>>,
         made \in 1 .. Len(WantedUpdates), WantedUpdates[made] = Wanted(text),
         line' \in 0 .. Len(typed), made = Len(Argument) + line',
         program = "emit" /\ Argument # <<>> => line' = 0,
         \A i \in 1 .. line' : typed[i] # "q"
  PROVE  ProgramInv'
<1> USE DEF ProgramInv
<1>1. UNCHANGED <<program, args, typed, Argument, Repeats, Streams, GivenOK>>
  BY SameTexts
<1>2. result_chan = <<>> /\ status = "running"
  BY DEF OneResultAtATime, Progress
<1>3. /\ made \in Nat /\ made # 0 /\ MaxLines \in Nat /\ Len(Argument) \in 0 .. 1
      /\ Len(typed) <= MaxLines /\ Len(typed) \in Nat
  BY ProgramsAssumption, ArgumentIs DEF TypeOK, GivenOK
<1>4. CASE text \notin Values
  <2>1. end(json_str_to_msgpack(text)) /\ UNCHANGED client
    BY <1>4 DEF update_str
  <2>2. status' = json_str_to_msgpack(text) /\ end(status')
    BY <2>1 DEF end
  <2>3. NextIsBad
    BY <1>4 DEF NextIsBad, Wanted
  <2>4. status' \in {"1", "abort"} /\ (status' = "abort" => text = "huge")
    BY <2>2, <1>4, BadText
  <2>5. Honest(status', printed')
    BY <2>3, <2>4 DEF Honest
  <2> QED
    BY <2>1, <2>2, <2>4, <2>5, <1>2, EndsWell
<1>5. CASE text \in Values
  <2>1. request(UpdateOp, <<text>>, "updated")
    BY <1>5 DEF update_str
  <2>2. UpdateOp \in Operations /\ <<text>> \in Seq(Texts \cup Seq(STRING))
    BY <1>5 DEF UpdateOp, Operations, Texts
  <2>3. WantedUpdates[made] = <<text>>
    BY <1>5 DEF Wanted
  <2>4. made < MaxLines + 2
    <3>1. line' \in Nat /\ line' <= MaxLines
      BY <1>3
    <3>2. \A a \in 0 .. 1, l \in Nat : l <= MaxLines => a + l < MaxLines + 2
      BY ProgramsAssumption
    <3> QED
      BY <3>1, <3>2, <1>3
  <2>5. Accepted(made)
    BY DEF Sending
  <2>6. /\ made' = made + 1 /\ answer' = answer /\ pc' = "updated" /\ status' = status
        /\ asked' \in [Requests -> Command \cup {None}]
        /\ Sending' /\ OneResultAtATime'
    BY <2>1, <2>2, <2>3, <2>4, <2>5, <1>2, <1>3, Requesting
  <2>7. TypeOK'
    BY <2>6, <1>1, <1>2, <1>3 DEF TypeOK, Stages
  <2>8. Progress'
    BY <2>6, <1>1, <1>2, <1>3 DEF Progress
  <2>9. Printing'
    BY <2>6, <1>1 DEF Printing
  <2> QED
    BY <2>6, <2>7, <2>8, <2>9, <1>2, RunsHonestly
<1> QED
  BY <1>4, <1>5

LEMMA ArgumentSent ==
  ASSUME ProgramInv, argument
  PROVE  ProgramInv'
<1> USE DEF ProgramInv
<1>1. /\ update_str(args[1]) /\ UNCHANGED <<given, line, result_chan, channel, pushed, printed>>
      /\ pc = "argument"
  BY DEF argument
<1>2. made = 1 /\ line = 0 /\ Repeats /\ Argument # <<>>
  BY <1>1 DEF Progress
<1>3. Len(Argument) = 1 /\ Len(args) = 1
  BY <1>2, ArgumentIs DEF TypeOK
<1>4. made \in 1 .. Len(WantedUpdates) /\ WantedUpdates[made] = Wanted(args[1])
  BY <1>2, <1>3, UpdatesAre DEF TypeOK
<1>5. args[1] \in ToSet(args \o typed)
  BY <1>2, <1>3, TextsGiven
<1>6. line' = 0 /\ line' \in 0 .. Len(typed)
  BY <1>1, <1>2 DEF TypeOK
<1> QED
  BY <1>1, <1>2, <1>3, <1>4, <1>5, <1>6, UpdateStr

LEMMA UpdateResult ==
  ASSUME ProgramInv, update_result
  PROVE  ProgramInv'
<1> USE DEF ProgramInv
<1>1. /\ UNCHANGED <<given, line, client, channel, pushed, printed>>
      /\ pc = "updated" /\ result_chan # <<>> /\ result_chan' = Tail(result_chan)
  BY DEF update_result
<1>2. UNCHANGED <<line, made, asked, answer, program, args, typed>>
  BY <1>1, SameTexts DEF client
<1>3. /\ result_chan' = <<>> /\ status = "running" /\ Repeats
      /\ made = 1 + Len(Argument) + line
      /\ Head(result_chan).kind = "Error" => Refused
      /\ Head(result_chan).kind # "Error" => Accepted(made)
  BY <1>1, ResultRead DEF Progress
<1>4. UNCHANGED <<Argument, Repeats, Streams, GivenOK>>
  BY <1>1, SameTexts
<1>5. line' \in 0 .. Len(typed)
  BY <1>2 DEF TypeOK
<1>6. CASE Head(result_chan).kind = "Error"
  <2>1. end("1") /\ status' = "1" /\ program # "complete"
    BY <1>3, <1>6 DEF update_result, end, Repeats
  <2>2. Honest(status', printed')
    BY <2>1, <1>3, <1>6 DEF Honest
  <2> QED
    BY <2>1, <2>2, <1>1, <1>3, <1>5, EndsWell
<1>7. CASE Head(result_chan).kind # "Error" /\ program = "emit" /\ Argument # <<>>
  <2>1. end("0") /\ status' = "0"
    BY <1>7 DEF update_result, end, Argument
  <2>2. line = 0 /\ Len(Argument) = 1 /\ Len(WantedUpdates) = 1
    BY <1>1, <1>3, <1>7, UpdatesAre, ArgumentIs DEF Progress, TypeOK
  <2>3. Honest(status', printed')
    BY <2>1, <2>2, <1>3, <1>7 DEF Honest
  <2> QED
    BY <2>1, <2>3, <1>1, <1>3, <1>5, EndsWell
<1>8. CASE Head(result_chan).kind # "Error" /\ ~(program = "emit" /\ Argument # <<>>)
  <2>1. args = <<>> => Argument = <<>>
    BY DEF Argument
  <2>2. args \notin {<<>>, <<"empty">>} => Argument = args
    BY DEF Argument
  <2>3. pc' = "getline" /\ UNCHANGED status
    BY <2>1, <2>2, <1>8 DEF update_result
  <2>4. TypeOK'
    BY <2>3, <1>2, <1>4 DEF TypeOK, Stages
  <2>5. Progress'
    BY <2>3, <1>1, <1>2, <1>3, <1>4, <1>8 DEF Progress
  <2>6. Sending'
    BY <1>1, <1>3, <1>8, SendingStays
  <2>7. OneResultAtATime'
    BY <2>3, <1>3 DEF OneResultAtATime
  <2>8. Printing'
    BY <2>3, <1>1, PrintingStays
  <2> QED
    BY <2>3, <2>4, <2>5, <2>6, <2>7, <2>8, <1>3, RunsHonestly
<1> QED
  BY <1>6, <1>7, <1>8

(* Where the program is among the texts when it reads the next line.       *)
LEMMA NextLine ==
  ASSUME TypeOK, Progress, pc = "getline"
  PROVE  /\ Repeats /\ made = 1 + Len(Argument) + line /\ Len(Argument) \in 0 .. 1
         /\ line = Len(typed) => made = Len(WantedUpdates) + 1
         /\ line # Len(typed) =>
              IF typed[line + 1] = "q" THEN made = Len(WantedUpdates) + 1
              ELSE /\ made \in 1 .. Len(WantedUpdates)
                   /\ WantedUpdates[made] = WantedLines[line + 1]
                   /\ line + 1 \in 1 .. LastLine
<1>1. /\ Repeats /\ made = 1 + Len(Argument) + line
      /\ \A i \in 1 .. line : typed[i] # "q"
      /\ program = "publish" \/ Argument = <<>>
  BY DEF Progress, Repeats
<1>2. line \in 0 .. Len(typed) /\ Len(typed) \in Nat /\ GivenOK
  BY DEF TypeOK, GivenOK
<1>3. Len(Argument) \in 0 .. 1
  BY <1>1, <1>2, ArgumentIs
<1>4. /\ LastLine \in Nat
      /\ \A i \in 1 .. LastLine : WantedUpdates[Len(Argument) + i] = WantedLines[i]
      /\ Len(WantedUpdates) = Len(Argument) + LastLine
  <2>1. ~(program = "emit" /\ Argument # <<>>)
    BY <1>1
  <2> QED
    BY <2>1, <1>1, <1>2, UpdatesAre
<1>5. line = Len(typed) => LastLine = line
  BY <1>1, <1>2, LinesUpToQ
<1>6. line # Len(typed) =>
        IF typed[line + 1] = "q" THEN LastLine = line ELSE LastLine >= line + 1
  <2> SUFFICES ASSUME line # Len(typed)
               PROVE IF typed[line + 1] = "q" THEN LastLine = line ELSE LastLine >= line + 1
    OBVIOUS
  <2>1. line \in 0 .. Len(typed) - 1
    BY <1>2
  <2> QED
    BY <2>1, <1>1, <1>2, LinesUpToQ
<1>7. LastLine >= line + 1 =>
        /\ line + 1 \in 1 .. LastLine /\ made \in 1 .. Len(WantedUpdates)
        /\ made = Len(Argument) + (line + 1)
  BY <1>1, <1>2, <1>3, <1>4
<1>8. LastLine = line => made = Len(WantedUpdates) + 1
  BY <1>1, <1>2, <1>3, <1>4
<1> QED
  BY <1>1, <1>3, <1>4, <1>5, <1>6, <1>7, <1>8

LEMMA LineRead ==
  ASSUME ProgramInv, getline
  PROVE  ProgramInv'
<1> USE DEF ProgramInv
<1> DEFINE text == typed[line + 1]
<1>1. /\ UNCHANGED <<given, result_chan, channel, pushed, printed>> /\ pc = "getline"
  BY DEF getline
<1>2. UNCHANGED <<program, args, typed, Argument, Repeats, Streams, GivenOK>>
  BY <1>1, SameTexts
<1>3. result_chan = <<>> /\ status = "running" /\ Accepted(made)
  BY <1>1 DEF OneResultAtATime, Progress, Sending
<1>4. line \in 0 .. Len(typed) /\ Len(typed) \in Nat
  BY DEF TypeOK, GivenOK
<1>5. Repeats /\ made = 1 + Len(Argument) + line /\ Len(Argument) \in 0 .. 1
  BY <1>1, NextLine
<1>6. CASE end("0") /\ UNCHANGED client /\ made = Len(WantedUpdates) + 1
           /\ line' \in 0 .. Len(typed)
  <2>1. status' = "0" /\ Honest(status', printed')
    BY <1>3, <1>6 DEF end, Honest
  <2> QED
    BY <2>1, <1>1, <1>3, <1>6, EndsWell
<1>7. CASE line = Len(typed)
  <2>1. end("0") /\ line' = line /\ UNCHANGED client
    BY <1>7 DEF getline
  <2> QED
    BY <2>1, <1>1, <1>4, <1>6, <1>7, NextLine
<1>8. CASE line # Len(typed)
  <2>1. line' = line + 1 /\ line' \in 0 .. Len(typed) /\ line + 1 \in 1 .. Len(typed)
    BY <1>4, <1>8 DEF getline
  <2>2. CASE text = "q"
    <3>1. end("0") /\ UNCHANGED client
      BY <1>8, <2>2 DEF getline, update_str
    <3> QED
      BY <3>1, <2>1, <2>2, <1>1, <1>6, <1>8, NextLine
  <2>3. CASE text # "q"
    <3>1. /\ made \in 1 .. Len(WantedUpdates) /\ line + 1 \in 1 .. LastLine
          /\ WantedUpdates[made] = WantedLines[line + 1]
      BY <2>3, <1>1, <1>8, NextLine
    <3>2. \A i \in 1 .. line' : typed[i] # "q"
      <4>1. \A i \in 1 .. line : typed[i] # "q"
        BY <1>1 DEF Progress
      <4>2. \A i \in 1 .. line' : i \in 1 .. line \/ i = line + 1
        BY <2>1, <1>4
      <4> QED
        BY <4>1, <4>2, <2>3
    <3>3. program = "emit" => Argument = <<>>
      BY <1>1 DEF Progress
    <3>4. CASE text = "u" /\ program = "publish"
      <4>1. request(UpdateOp, <<>>, "updated")
        BY <1>8, <2>3, <3>4 DEF getline, UpdateOp
      <4>2. WantedUpdates[made] = <<>>
        BY <3>1, <3>4 DEF WantedLines
      <4>3. UpdateOp \in Operations /\ <<>> \in Seq(Texts \cup Seq(STRING))
        BY DEF UpdateOp, Operations
      <4>4. made < MaxLines + 2 /\ made # 0 /\ MaxLines \in Nat
        <5>1. line + 1 <= MaxLines /\ MaxLines \in Nat /\ line \in Nat
          BY <2>1, <1>4, ProgramsAssumption DEF TypeOK, GivenOK
        <5>2. \A a \in 0 .. 1, l \in Nat :
                l + 1 <= MaxLines => 1 + a + l < MaxLines + 2 /\ 1 + a + l # 0
          BY ProgramsAssumption
        <5> QED
          BY <5>1, <5>2, <1>5
      <4>5. /\ made' = made + 1 /\ answer' = answer /\ pc' = "updated" /\ status' = status
            /\ asked' \in [Requests -> Command \cup {None}]
            /\ Sending' /\ OneResultAtATime'
        BY <4>1, <4>2, <4>3, <4>4, <1>1, <1>3, Requesting
      <4>6. made \in Nat
        BY DEF TypeOK
      <4>7. TypeOK'
        BY <4>5, <4>6, <2>1, <1>2, <1>3 DEF TypeOK, Stages
      <4>8. Progress'
        BY <4>5, <4>6, <2>1, <3>2, <3>4, <1>2, <1>3, <1>4, <1>5 DEF Progress
      <4>9. Printing'
        BY <4>5, <1>1, <1>2 DEF Printing
      <4> QED
        BY <4>5, <4>7, <4>8, <4>9, <1>3, RunsHonestly
    <3>5. CASE ~(text = "u" /\ program = "publish")
      <4>1. update_str(text)
        BY <1>8, <2>3, <3>5 DEF getline
      <4>2. WantedUpdates[made] = Wanted(text)
        BY <3>1, <3>5 DEF WantedLines
      <4>3. text \in ToSet(args \o typed)
        BY <2>1, <1>5, TextsGiven
      <4>4. made = Len(Argument) + line'
        BY <2>1, <1>4, <1>5
      <4> HIDE DEF text
      <4> QED
        BY <4>1, <4>2, <4>3, <4>4, <3>1, <3>2, <3>3, <2>1, <1>1, <1>5, UpdateStr
    <3> QED
      BY <3>4, <3>5
  <2> QED
    BY <2>2, <2>3
<1> QED
  BY <1>7, <1>8

-----------------------------------------------------------------------------
(* listen and observe, and the client.                                     *)
LEMMA ChannelRead ==
  ASSUME ProgramInv, read_channel
  PROVE  ProgramInv'
<1> USE DEF ProgramInv
<1>1. /\ UNCHANGED <<given, pc, line, client, result_chan, pushed, status>>
      /\ pc = "channel" /\ channel # <<>> /\ Streams
      /\ printed' = Append(printed, Head(channel)) /\ channel' = Tail(channel)
  BY DEF read_channel, show_result, Progress
<1>2. UNCHANGED <<made, asked, answer, program, args, typed>>
  BY <1>1, SameTexts DEF client
<1>3. UNCHANGED <<Argument, Repeats, Streams, GivenOK>>
  BY <1>1, SameTexts
<1>4. status = "running" /\ Accepted(made)
  BY <1>1 DEF Progress, Sending
<1>5. TypeOK'
  BY <1>1, <1>2, <1>3 DEF TypeOK
<1>6. Progress'
  BY <1>1, <1>2, <1>3 DEF Progress
<1>7. Sending'
  BY <1>1, <1>4, SendingStays
<1>8. OneResultAtATime'
  BY <1>1, <1>2 DEF OneResultAtATime
<1>9. Printing'
  <2>1. channel \in Seq(Results) /\ printed \in Seq(Results)
    BY <1>1 DEF Printing
  <2>2. /\ channel' \in Seq(Results) /\ printed' \in Seq(Results)
        /\ printed' \o channel' = printed \o channel
    BY <2>1, <1>1, HeadTailProperties
  <2> QED
    BY <2>2, <1>1, <1>2, <1>3 DEF Printing
<1> QED
  BY <1>1, <1>4, <1>5, <1>6, <1>7, <1>8, <1>9, RunsHonestly

LEMMA ClientPushes ==
  ASSUME ProgramInv, client_pushes
  PROVE  ProgramInv'
<1> USE DEF ProgramInv
<1>1. /\ UNCHANGED <<given, pc, line, client, result_chan, printed, status>>
      /\ status = "running" /\ Streams
  BY DEF client_pushes, Streams
<1>2. PICK x \in Results : channel' = Append(channel, x) /\ pushed' = Append(pushed, x)
  BY DEF client_pushes, Results
<1>3. UNCHANGED <<made, asked, answer, program, args, typed>>
  BY <1>1, SameTexts DEF client
<1>4. UNCHANGED <<Argument, Repeats, Streams, GivenOK>>
  BY <1>1, SameTexts
<1>5. TypeOK'
  BY <1>1, <1>3, <1>4 DEF TypeOK
<1>6. Progress'
  BY <1>1, <1>3, <1>4 DEF Progress
<1>7. Sending'
  BY <1>1, SendingStays DEF Sending
<1>8. OneResultAtATime'
  BY <1>1, <1>3 DEF OneResultAtATime
<1>9. Printing'
  <2>1. channel \in Seq(Results) /\ printed \in Seq(Results) /\ pushed \in Seq(Results)
    BY <1>1 DEF Printing
  <2>2. /\ channel' \in Seq(Results) /\ pushed' \in Seq(Results)
        /\ printed \o channel' = Append(printed \o channel, x)
    BY <2>1, <1>2
  <2>3. program = "observe" /\ pc = "channel" => answer[1] \in Seq(Results)
    <3>1. made = 1 /\ 1 \in Requests
      BY ProgramsAssumption DEF client_pushes, Requests
    <3>2. answer[1] = <<>> \/ \E res \in Results : answer[1] = <<res>>
      BY <3>1 DEF TypeOK
    <3>3. \A res \in Results : <<res>> \in Seq(Results)
      OBVIOUS
    <3>4. <<>> \in Seq(Results)
      OBVIOUS
    <3> QED
      BY <3>2, <3>3, <3>4
  <2>4. \A s \in Seq(Results) : s \o pushed' = Append(s \o pushed, x)
    BY <2>1, <1>2
  <2> QED
    BY <2>2, <2>3, <2>4, <1>1, <1>2, <1>3, <1>4 DEF Printing
<1> QED
  BY <1>1, <1>5, <1>6, <1>7, <1>8, <1>9, RunsHonestly

(* Only the last request may be waiting, and only when its result is       *)
(* awaited.                                                                *)
LEMMA ClientAnswers ==
  ASSUME ProgramInv, client_answers
  PROVE  ProgramInv'
<1> USE DEF ProgramInv
<1>1. PICK r \in Client!Waiting, res \in Results :
        /\ \/ answer' = [answer EXCEPT ![r] = <<res>>]
           \/ /\ answer' = [q \in Requests |-> IF q \in {r} THEN <<Error>> ELSE answer[q]]
              /\ res = Error
        /\ asked' = asked /\ result_chan' = Append(result_chan, res)
  <2>1. PICK r \in Client!Waiting : \E res \in AnswersTo(asked[r]) :
          /\ Client!Answer(r, res) \/ (res = Error /\ Client!Lose({r}))
          /\ result_chan' = Append(result_chan, res)
    BY DEF client_answers
  <2>3. PICK res \in AnswersTo(asked[r]) :
          /\ Client!Answer(r, res) \/ (res = Error /\ Client!Lose({r}))
          /\ result_chan' = Append(result_chan, res)
    BY <2>1
  <2>2. res \in Results
    BY DEF AnswersTo, Results
  <2> QED
    BY <2>3, <2>2 DEF Client!Answer, Client!Lose, Requests
<1>2. /\ UNCHANGED <<given, pc, line, made, channel, pushed, printed, status>>
      /\ status = "running"
  BY DEF client_answers
<1>3. r \in Requests /\ asked[r] # None /\ answer[r] = <<>>
  BY DEF Client!Waiting, Requests
<1>4. \A q \in Requests : answer'[q] = IF q = r THEN <<res>> ELSE answer[q]
  BY <1>1, <1>3 DEF TypeOK
<1>5. made \in Nat /\ r \in Nat /\ r # 0 /\ MaxLines \in Nat
  BY <1>3, ProgramsAssumption DEF TypeOK, Requests
<1>6. r \in 1 .. made
  BY <1>3, <1>5 DEF Sending
<1>20. \A q \in 1 .. made : q < made => Accepted(q)
  BY DEF Sending, SentInOrder
<1>7. r = made
  <2>1. ~Accepted(r)
    BY <1>3 DEF Accepted
  <2> QED
    BY <2>1, <1>5, <1>6, <1>20
<1>8. pc \in {"result", "updated"}
  BY <1>2, <1>3, <1>5, <1>6, <1>7 DEF Progress, Sending, Accepted, TypeOK, Stages
<1>9. result_chan = <<>>
  BY <1>3, <1>7, <1>8 DEF OneResultAtATime
<1>10. UNCHANGED <<program, args, typed, Argument, Repeats, Streams, GivenOK>>
  BY <1>2, SameTexts
<1>11. UNCHANGED <<FirstOp, FirstValue, UpdateOp, WantedUpdates>>
  BY <1>2, SameTexts
<1>12. TypeOK'
  <2>1. answer' \in [Requests -> {<<>>} \cup {<<x>> : x \in Results}]
    BY <1>1, <1>3 DEF TypeOK, Results
  <2> QED
    BY <2>1, <1>1, <1>2, <1>10 DEF TypeOK
<1>13. Progress'
  BY <1>2, <1>10 DEF Progress
<1>14. Sending'
  <2>1. \A q \in 1 .. made : q < made => Accepted(q)'
    <3> TAKE q \in 1 .. made
    <3> HAVE q < made
    <3>1. Accepted(q) /\ q # made
      BY <1>5, <1>20
    <3>2. q \in Requests
      BY <1>3, <1>5, <1>7 DEF Requests
    <3> QED
      BY <3>1, <3>2, <1>4, <1>7 DEF Accepted
  <2>2. SentInOrder'
    BY <2>1, <1>1, <1>2, <1>11 DEF Sending, SentInOrder
  <2>3. \A q \in Requests : q > made => asked'[q] = None /\ answer'[q] = <<>>
    BY <1>1, <1>4, <1>5, <1>7 DEF Sending
  <2> QED
    BY <2>2, <2>3, <1>1, <1>2, <1>8 DEF Sending
<1>15. OneResultAtATime'
  <2>1. result_chan' = <<res>> /\ answer'[made] = <<res>>
    BY <1>1, <1>3, <1>4, <1>7, <1>9
  <2> QED
    BY <2>1, <1>1, <1>2, <1>3, <1>7, <1>8 DEF OneResultAtATime
<1>16. Printing'
  BY <1>2, <1>8, <1>10 DEF Printing
<1> QED
  BY <1>2, <1>12, <1>13, <1>14, <1>15, <1>16, RunsHonestly

-----------------------------------------------------------------------------
LEMMA InitPrograms == Init => ProgramInv
<1> SUFFICES ASSUME Init PROVE ProgramInv
  OBVIOUS
<1>1. /\ program \in AllPrograms /\ args \in ArgsOf(program) /\ MaxLines \in Nat
      /\ pc = "start" /\ line = 0 /\ made = 0 /\ status = "running"
      /\ result_chan = <<>> /\ channel = <<>> /\ pushed = <<>> /\ printed = <<>>
  BY ProgramsAssumption DEF Init
<1>2. asked = [r \in Requests |-> None] /\ answer = [r \in Requests |-> <<>>]
  BY DEF Init, Client!Init, Requests
<1>3. typed \in Seq(Lines) /\ Len(typed) <= MaxLines /\ (~Repeats => typed = <<>>)
  <2>1. CASE Repeats
    <3>1. typed \in SeqOf(Lines, MaxLines)
      BY <2>1 DEF Init, Repeats
    <3>2. PICK n \in 0 .. MaxLines : typed \in [1 .. n -> Lines]
      BY <3>1 DEF SeqOf
    <3>3. n \in Nat /\ n <= MaxLines
      BY <1>1
    <3>4. typed \in Seq(Lines)
      BY <3>2, <3>3, SeqDef
    <3>5. Len(typed) = n
      BY <3>2, <3>3, <3>4
    <3> QED
      BY <3>3, <3>4, <3>5, <2>1
  <2>2. CASE ~Repeats
    BY <2>2, <1>1 DEF Init, Repeats
  <2> QED
    BY <2>1, <2>2
<1>4. GivenOK
  BY <1>1, <1>3 DEF GivenOK
<1>5. TypeOK
  BY <1>1, <1>2, <1>3, <1>4 DEF TypeOK, Stages
<1>6. Progress
  BY <1>1 DEF Progress
<1>7. Sending
  BY <1>1, <1>2 DEF Sending, SentInOrder
<1>8. OneResultAtATime
  BY <1>1 DEF OneResultAtATime
<1>9. StatusHonest
  BY <1>1 DEF StatusHonest
<1>10. Printing
  BY <1>1 DEF Printing, Streams
<1> QED
  BY <1>5, <1>6, <1>7, <1>8, <1>9, <1>10 DEF ProgramInv

LEMMA StutterPrograms ==
  ASSUME ProgramInv, UNCHANGED vars
  PROVE  ProgramInv'
<1>1. /\ UNCHANGED <<given, client>>
      /\ UNCHANGED <<pc, line, made, asked, answer, result_chan, channel, pushed>>
      /\ UNCHANGED <<printed, status, program, args, typed, server>>
  BY DEF vars, given, client
<1>2. UNCHANGED <<Argument, Repeats, Streams, GivenOK, WantedUpdates>>
  BY <1>1, SameTexts
<1>3. TypeOK' /\ Progress'
  BY <1>1, <1>2 DEF ProgramInv, TypeOK, Progress
<1>4. Sending'
  BY <1>1, SendingStays DEF ProgramInv, Sending
<1>5. OneResultAtATime' /\ Printing'
  BY <1>1, <1>2 DEF ProgramInv, OneResultAtATime, Printing
<1>6. StatusHonest'
  BY <1>1, EndsHonestly DEF ProgramInv, StatusHonest, Honest
<1> QED
  BY <1>3, <1>4, <1>5, <1>6 DEF ProgramInv

LEMMA NextPrograms == ProgramInv /\ [Next]_vars => ProgramInv'
  BY CheckArgs, Connects, FirstRequested, FirstResult, ArgumentSent, UpdateResult,
     LineRead, ChannelRead, ClientAnswers, ClientPushes, StutterPrograms
  DEF Next, Program

LEMMA ProgramInvariant == Spec => []ProgramInv
  BY InitPrograms, NextPrograms, PTL DEF Spec

(* publish and emit ask the server for what the user typed, in that order, *)
(* whatever the lines are and however many, and for each only when the one *)
(* before was accepted; the other programs ask once.                       *)
THEOREM TextsSentInOrder == Spec => []SentInOrder
<1>1. ProgramInv => SentInOrder
  BY DEF ProgramInv, Sending
<1> QED
  BY <1>1, ProgramInvariant, PTL

(* The channel that main() uses for all its results never holds one that   *)
(* belongs to an earlier request than the last, so a program never takes   *)
(* one answer for another.                                                 *)
THEOREM ResultsOneByOne == Spec => []OneResultAtATime
<1>1. ProgramInv => OneResultAtATime
  BY DEF ProgramInv
<1> QED
  BY <1>1, ProgramInvariant, PTL

(* The exit status means what it says, for any texts, lines and answers.   *)
THEOREM StatusMeansIt == Spec => []StatusHonest
<1>1. ProgramInv => StatusHonest
  BY DEF ProgramInv
<1> QED
  BY <1>1, ProgramInvariant, PTL

(* listen and observe print what the client passed on, in order, and the   *)
(* answer to observe first, for any number of changes that overtake it.    *)
THEOREM OutputInOrder == Spec => []PrintedInOrder
<1>1. ProgramInv => PrintedInOrder
  <2> SUFFICES ASSUME ProgramInv PROVE PrintedInOrder
    OBVIOUS
  <2>1. channel \in Seq(Results) /\ pushed \in Seq(Results)
    BY DEF ProgramInv, Printing
  <2>2. answer[1] \in Seq(Results)
    <3>1. 1 \in Requests
      BY ProgramsAssumption DEF Requests
    <3>2. answer[1] = <<>> \/ \E res \in Results : answer[1] = <<res>>
      BY <3>1 DEF ProgramInv, TypeOK
    <3>3. \A res \in Results : <<res>> \in Seq(Results)
      OBVIOUS
    <3>4. <<>> \in Seq(Results)
      OBVIOUS
    <3> QED
      BY <3>2, <3>3, <3>4
  <2>3. \A s, t \in Seq(Results) : IsPrefix(s, s \o t) /\ IsPrefix(<<>>, s \o t)
    BY DEF IsPrefix
  <2>4. program = "listen" => IsPrefix(printed, pushed)
    BY <2>1, <2>3 DEF ProgramInv, Printing, Streams
  <2>5. program = "observe" => IsPrefix(printed, answer[1] \o pushed)
    BY <2>1, <2>2, <2>3 DEF ProgramInv, Printing, Streams
  <2> QED
    BY <2>4, <2>5 DEF PrintedInOrder
<1> QED
  BY <1>1, ProgramInvariant, PTL

-----------------------------------------------------------------------------
(* Prefixes, character by character.                                       *)
LEMMA PrefixIs ==
  ASSUME NEW S, NEW u \in Seq(S), NEW v \in Seq(S)
  PROVE  IsPrefix(u, v) <=> Len(u) <= Len(v) /\ \A i \in 1 .. Len(u) : u[i] = v[i]
<1>1. Len(u) \in Nat /\ Len(v) \in Nat /\ SubSeq(u, 1, Len(u)) = u
  BY SubSeqFull
<1>2. ASSUME Len(u) <= Len(v)
      PROVE  /\ SubSeq(v, 1, Len(u)) \in Seq(S) /\ Len(SubSeq(v, 1, Len(u))) = Len(u)
             /\ \A i \in 1 .. Len(u) : SubSeq(v, 1, Len(u))[i] = v[i]
  <2> DEFINE n == Len(u)
             w == SubSeq(v, 1, n)
  <2>1. n \in 0 .. Len(v) /\ n \in 1 - 1 .. Len(v) /\ 1 \in 1 .. Len(v) + 1
        /\ n - 1 + 1 = n
    BY <1>1, <1>2
  <2> HIDE DEF n
  <2>2. /\ w \in Seq(S) /\ Len(w) = IF 1 <= n THEN n - 1 + 1 ELSE 0
        /\ \A i \in 1 .. n - 1 + 1 : w[i] = v[1 + i - 1]
    BY <2>1, SubSeqProperties
  <2> HIDE DEF w
  <2>3. \A i \in 1 .. n : 1 + i - 1 = i
    BY <2>1
  <2>4. Len(w) = n /\ \A i \in 1 .. n : w[i] = v[i]
    BY <2>1, <2>2, <2>3
  <2> QED
    BY <2>2, <2>4 DEF w, n
<1>3. ASSUME Len(u) <= Len(v)
      PROVE  (u = SubSeq(v, 1, Len(u))) <=> \A i \in 1 .. Len(u) : u[i] = v[i]
  <2> DEFINE w == SubSeq(v, 1, Len(u))
  <2>1. /\ w \in Seq(S) /\ Len(w) = Len(u) /\ \A i \in 1 .. Len(u) : w[i] = v[i]
    BY <1>2, <1>3
  <2> HIDE DEF w
  <2>2. ASSUME \A i \in 1 .. Len(u) : u[i] = v[i] PROVE u = w
    BY <2>1, <2>2, SeqEqual
  <2>3. u = w <=> \A i \in 1 .. Len(u) : u[i] = v[i]
    BY <2>1, <2>2
  <2> QED
    BY <2>3 DEF w
<1> QED
  BY <1>1, <1>3 DEF IsPrefix

(* What two words have in front does not matter to which goes on from      *)
(* which.                                                                  *)
LEMMA PrefixBehind ==
  ASSUME NEW S, NEW d \in Seq(S), NEW u \in Seq(S), NEW v \in Seq(S)
  PROVE  IsPrefix(d \o u, d \o v) <=> IsPrefix(u, v)
<1> DEFINE m == Len(d)
           du == d \o u
           dv == d \o v
<1>1. /\ du \in Seq(S) /\ Len(du) = m + Len(u)
      /\ \A i \in 1 .. m + Len(u) : du[i] = IF i <= m THEN d[i] ELSE u[i - m]
  BY ConcatProperties
<1>2. /\ dv \in Seq(S) /\ Len(dv) = m + Len(v)
      /\ \A i \in 1 .. m + Len(v) : dv[i] = IF i <= m THEN d[i] ELSE v[i - m]
  BY ConcatProperties
<1>3. m \in Nat /\ Len(u) \in Nat /\ Len(v) \in Nat
  OBVIOUS
<1> HIDE DEF du, dv, m
<1>4. ASSUME Len(u) <= Len(v)
      PROVE  (\A i \in 1 .. Len(du) : du[i] = dv[i]) <=> (\A i \in 1 .. Len(u) : u[i] = v[i])
  <2>1. ASSUME \A i \in 1 .. Len(du) : du[i] = dv[i], NEW i \in 1 .. Len(u)
        PROVE  u[i] = v[i]
    <3>1. /\ m + i \in 1 .. m + Len(u) /\ m + i \in 1 .. m + Len(v)
          /\ ~(m + i <= m) /\ (m + i) - m = i
      BY <1>3, <1>4
    <3>2. du[m + i] = u[i] /\ dv[m + i] = v[i]
      BY <1>1, <1>2, <3>1
    <3> QED
      BY <1>1, <2>1, <3>1, <3>2
  <2>2. ASSUME \A i \in 1 .. Len(u) : u[i] = v[i], NEW i \in 1 .. Len(du)
        PROVE  du[i] = dv[i]
    <3>1. i \in 1 .. m + Len(u) /\ i \in 1 .. m + Len(v)
      BY <1>1, <1>3, <1>4
    <3>2. CASE i <= m
      BY <1>1, <1>2, <3>1, <3>2
    <3>3. CASE ~(i <= m)
      <4>1. i - m \in 1 .. Len(u)
        BY <1>3, <3>1, <3>3
      <4> QED
        BY <1>1, <1>2, <2>2, <3>1, <3>3, <4>1
    <3> QED
      BY <3>2, <3>3
  <2> QED
    BY <2>1, <2>2
<1>5. Len(du) <= Len(dv) <=> Len(u) <= Len(v)
  BY <1>1, <1>2, <1>3
<1>6. IsPrefix(du, dv) <=> Len(du) <= Len(dv) /\ \A i \in 1 .. Len(du) : du[i] = dv[i]
  BY <1>1, <1>2, PrefixIs
<1>7. IsPrefix(u, v) <=> Len(u) <= Len(v) /\ \A i \in 1 .. Len(u) : u[i] = v[i]
  BY PrefixIs
<1> QED
  BY <1>4, <1>5, <1>6, <1>7 DEF du, dv

-----------------------------------------------------------------------------
(* The directory has every slash of the word, the last one at its end.     *)
LEMMA WordSplit ==
  ASSUME NEW word \in Seq(STRING), Slashes(word) # {}
  PROVE  LET path == split_path(word)
         IN /\ path.dir \in Seq(STRING) /\ path.last \in Seq(STRING)
            /\ word = path.dir \o path.last
            /\ IsPrefix(path.dir, word)
            /\ Slashes(path.dir) = Slashes(word) /\ Last(path.dir) = "/"
<1>1. PICK n \in Slashes(word) :
        /\ n \in 1 .. Len(word) /\ \A j \in Slashes(word) : j <= n
        /\ split_path(word) = [dir  |-> SubSeq(word, 1, n),
                               last |-> SubSeq(word, n + 1, Len(word))]
  BY LastSlash
<1> DEFINE dir == SubSeq(word, 1, n)
           last == SubSeq(word, n + 1, Len(word))
<1>2. /\ Len(word) \in Nat /\ n \in Nat /\ n <= Len(word) /\ word[n] = "/"
      /\ 1 \in 1 .. Len(word) + 1 /\ n \in 0 .. Len(word) /\ n + 1 \in 1 .. Len(word) + 1
  BY <1>1 DEF Slashes
<1>3. dir \in Seq(STRING) /\ last \in Seq(STRING)
  BY <1>2
<1>4. word = dir \o last
  <2>1. SubSeq(word, 1, Len(word)) = word
    BY SubSeqFull
  <2>2. SubSeq(word, 1, n) \o SubSeq(word, n + 1, Len(word)) = SubSeq(word, 1, Len(word))
    BY <1>1, <1>2, ConcatAdjacentSubSeq
  <2> QED
    BY <2>1, <2>2
<1>5. Len(dir) = n /\ \A i \in 1 .. n : dir[i] = word[i]
  BY <1>1, <1>2
<1> HIDE DEF dir, last
<1>6. IsPrefix(dir, word)
  BY <1>2, <1>3, <1>5, PrefixIs
<1>7. Slashes(dir) = Slashes(word)
  <2>1. \A i \in Slashes(word) : i \in 1 .. n /\ word[i] = "/"
    BY <1>1, <1>2 DEF Slashes
  <2>2. \A i \in 1 .. n : i \in 1 .. Len(word)
    BY <1>2
  <2> QED
    BY <1>5, <2>1, <2>2 DEF Slashes
<1>8. Last(dir) = "/"
  <2>1. n \in 1 .. n
    BY <1>1, <1>2
  <2> QED
    BY <1>2, <1>5, <2>1 DEF Last
<1> QED
  BY <1>1, <1>3, <1>4, <1>6, <1>7, <1>8 DEF dir, last

-----------------------------------------------------------------------------
(* Induction on a number, for a set in the place of a property.            *)
LEMMA Induction ==
  ASSUME NEW T, 0 \in T, \A n \in Nat : n \in T => n + 1 \in T
  PROVE  Nat \subseteq T
<1> SUFFICES ASSUME Nat \ T # {} PROVE FALSE
  OBVIOUS
<1>1. PICK n \in Nat \ T : \A k \in Nat \ T : n <= k
  BY LeastNatural
<1>2. n # 0 /\ n - 1 \in Nat /\ (n - 1) + 1 = n
  BY <1>1
<1>3. n - 1 \notin T
  BY <1>1, <1>2
<1> QED
  BY <1>1, <1>2, <1>3

(* The loop over the entries: before is what was printed before entry i,   *)
(* and f what was printed after each of the first n.                       *)
Looked_at(path, entries, before, i) ==
  IF IsPrefix(path.last, name_of(entries[i]))
    THEN Append(before, candidate(path.dir, entries[i]))
  ELSE before
Loop(f, path, entries, n) ==
  f = [i \in 0 .. n |-> IF i = 0 THEN <<>> ELSE Looked_at(path, entries, f[i - 1], i)]

(* Such a function exists, so that the one candidates defines is it.       *)
LEMMA LoopRuns ==
  ASSUME NEW path, NEW entries, NEW n \in Nat
  PROVE  \E f : Loop(f, path, entries, n)
<1> DEFINE T == {m \in Nat : \E f : Loop(f, path, entries, m)}
<1>1. 0 \in T
  <2> DEFINE f == [i \in 0 .. 0 |-> <<>>]
  <2>1. f = [i \in 0 .. 0 |-> IF i = 0 THEN <<>> ELSE Looked_at(path, entries, f[i - 1], i)]
    OBVIOUS
  <2>2. Loop(f, path, entries, 0)
    <3> HIDE DEF f
    <3> QED
      BY <2>1 DEF Loop, f
  <2> HIDE DEF f
  <2> QED
    BY <2>2
<1>2. ASSUME NEW m \in Nat, m \in T PROVE m + 1 \in T
  <2>1. PICK f : Loop(f, path, entries, m)
    BY <1>2
  <2>2. \A i \in 0 .. m : f[i] = IF i = 0 THEN <<>> ELSE Looked_at(path, entries, f[i - 1], i)
    BY <2>1 DEF Loop
  <2> DEFINE g == [i \in 0 .. m + 1 |->
                     IF i = m + 1 THEN Looked_at(path, entries, f[m], m + 1) ELSE f[i]]
  <2>3. \A i \in 0 .. m : g[i] = f[i]
    OBVIOUS
  <2>4. g[m + 1] = Looked_at(path, entries, f[m], m + 1)
    OBVIOUS
  <2>5. g = [i \in 0 .. m + 1 |-> g[i]]
    OBVIOUS
  <2> HIDE DEF g
  <2>6. \A i \in 0 .. m + 1 : g[i] = IF i = 0 THEN <<>> ELSE Looked_at(path, entries, g[i - 1], i)
    <3> TAKE i \in 0 .. m + 1
    <3>1. CASE i = m + 1
      <4>1. i # 0 /\ i - 1 = m /\ m \in 0 .. m
        BY <3>1
      <4> QED
        BY <2>3, <2>4, <3>1, <4>1
    <3>2. CASE i = 0
      <4>1. i \in 0 .. m
        BY <3>2
      <4> QED
        BY <2>2, <2>3, <3>2, <4>1
    <3>3. CASE i # m + 1 /\ i # 0
      <4>1. i \in 0 .. m /\ i - 1 \in 0 .. m
        BY <3>3
      <4> QED
        BY <2>2, <2>3, <3>3, <4>1
    <3> QED
      BY <3>1, <3>2, <3>3
  <2>7. Loop(g, path, entries, m + 1)
    BY <2>5, <2>6 DEF Loop
  <2> QED
    BY <2>7
<1> HIDE DEF T
<1>3. n \in T
  BY <1>1, <1>2, Induction
<1> QED
  BY <1>3 DEF T

(* One more entry, printed or not.                                         *)
LEMMA ListsMore ==
  ASSUME NEW S, NEW lines \in Seq(S), NEW dir, NEW entries, NEW m \in Nat,
         NEW chosen \in SUBSET (1 .. m), Lists(lines, dir, entries, chosen),
         candidate(dir, entries[m + 1]) \in S
  PROVE  Lists(Append(lines, candidate(dir, entries[m + 1])), dir, entries,
               chosen \cup {m + 1})
<1> DEFINE n == Len(lines)
           new == candidate(dir, entries[m + 1])
           more == Append(lines, new)
           both == chosen \cup {m + 1}
<1>1. PICK at \in [1 .. n -> chosen] :
        /\ \A i \in chosen : \E k \in 1 .. n : at[k] = i
        /\ \A k, l \in 1 .. n : k < l => at[k] < at[l]
        /\ \A k \in 1 .. n : lines[k] = candidate(dir, entries[at[k]])
  BY DEF Lists
<1>2. /\ n \in Nat /\ Len(more) = n + 1 /\ more[n + 1] = new
      /\ \A k \in 1 .. n : more[k] = lines[k]
  BY AppendProperties
<1> HIDE DEF new, more, n
<1> DEFINE to == [k \in 1 .. n + 1 |-> IF k = n + 1 THEN m + 1 ELSE at[k]]
<1>3. /\ to[n + 1] = m + 1
      /\ \A k \in 1 .. n : to[k] = at[k] /\ to[k] \in chosen /\ to[k] \in 1 .. m
  <2>1. n + 1 \in 1 .. n + 1 /\ \A k \in 1 .. n : k \in 1 .. n + 1 /\ k # n + 1
    BY <1>2
  <2>2. \A k \in 1 .. n : at[k] \in chosen
    BY <1>1
  <2> QED
    BY <2>1, <2>2
<1>4. to \in [1 .. n + 1 -> both]
  BY <1>1, <1>2
<1> HIDE DEF to
<1>5. ASSUME NEW i \in both PROVE \E k \in 1 .. n + 1 : to[k] = i
  <2>1. CASE i = m + 1
    BY <1>2, <1>3, <2>1
  <2>2. CASE i \in chosen
    <3>1. PICK k \in 1 .. n : at[k] = i
      BY <1>1, <2>2
    <3>2. k \in 1 .. n + 1
      BY <1>2
    <3> QED
      BY <1>3, <3>1, <3>2
  <2> QED
    BY <2>1, <2>2
<1>6. ASSUME NEW k \in 1 .. n + 1, NEW l \in 1 .. n + 1, k < l PROVE to[k] < to[l]
  <2>1. k \in 1 .. n
    BY <1>2, <1>6
  <2>2. CASE l = n + 1
    BY <1>3, <2>1, <2>2
  <2>3. CASE l # n + 1
    <3>1. l \in 1 .. n
      BY <1>2, <2>3
    <3> QED
      BY <1>1, <1>3, <1>6, <2>1, <3>1
  <2> QED
    BY <2>2, <2>3
<1>7. ASSUME NEW k \in 1 .. n + 1 PROVE more[k] = candidate(dir, entries[to[k]])
  <2>1. CASE k = n + 1
    BY <1>2, <1>3, <2>1 DEF new
  <2>2. CASE k # n + 1
    <3>1. k \in 1 .. n
      BY <1>2, <2>2
    <3> QED
      BY <1>1, <1>2, <1>3, <3>1
  <2> QED
    BY <2>1, <2>2
<1>8. Lists(more, dir, entries, both)
  BY <1>2, <1>4, <1>5, <1>6, <1>7 DEF Lists
<1> QED
  BY <1>8 DEF more, new

(* What the loop prints are the lines of the entries that begin with the   *)
(* last part of the word, however many entries there are.                  *)
Beginning(path, entries, n) == {i \in 1 .. n : IsPrefix(path.last, name_of(entries[i]))}

LEMMA LoopLists ==
  ASSUME NEW path, NEW entries, Len(entries) \in Nat
  PROVE  Lists(candidates(path, entries), path.dir, entries,
               Beginning(path, entries, Len(entries)))
<1> DEFINE n == Len(entries)
           upto == CHOOSE f : Loop(f, path, entries, n)
           S == {candidate(path.dir, entries[i]) : i \in Nat}
<1>1. Loop(upto, path, entries, n)
  BY LoopRuns
<1>2. candidates(path, entries) = upto[n]
  BY DEF candidates, Loop, Looked_at
<1> HIDE DEF upto, n
<1>3. \A i \in 0 .. n : upto[i] = IF i = 0 THEN <<>> ELSE Looked_at(path, entries, upto[i - 1], i)
  BY <1>1 DEF Loop
<1>0. n \in Nat
  BY DEF n
<1> DEFINE Good(m) == /\ upto[m] \in Seq(S)
                      /\ Lists(upto[m], path.dir, entries, Beginning(path, entries, m))
           T == {m \in Nat : m <= n => Good(m)}
<1>4. 0 \in T
  <2>1. upto[0] = <<>>
    <3>1. 0 \in 0 .. n
      BY <1>0
    <3> HIDE DEF n, Good, T, S
    <3> QED
      BY <1>3, <3>1
  <2>2. Beginning(path, entries, 0) = {}
    BY DEF Beginning
  <2>3. Lists(<<>>, path.dir, entries, {})
    <3>1. Len(<<>>) = 0 /\ 1 .. 0 = {}
      OBVIOUS
    <3>2. \E at : at \in [{} -> {}]
      <4>1. [x \in {} |-> x] \in [{} -> {}]
        OBVIOUS
      <4> QED
        BY <4>1
    <3> QED
      BY <3>1, <3>2 DEF Lists
  <2> HIDE DEF S
  <2>4. upto[0] \in Seq(S)
    BY <2>1, EmptySeq
  <2> QED
    BY <2>1, <2>2, <2>3, <2>4
<1>5. ASSUME NEW m \in Nat, m \in T PROVE m + 1 \in T
  <2> SUFFICES ASSUME m + 1 <= n PROVE Good(m + 1)
    OBVIOUS
  <2>1. Good(m)
    BY <1>0, <1>5
  <2>2. upto[m + 1] = Looked_at(path, entries, upto[m], m + 1)
    <3>1. m + 1 \in 0 .. n /\ m + 1 # 0 /\ (m + 1) - 1 = m
      BY <1>0
    <3> QED
      BY <1>3, <3>1
  <2> DEFINE chosen == Beginning(path, entries, m)
             s == upto[m]
  <2>3. chosen \in SUBSET (1 .. m) /\ candidate(path.dir, entries[m + 1]) \in S
    BY DEF Beginning
  <2>4. CASE IsPrefix(path.last, name_of(entries[m + 1]))
    <3>1. Beginning(path, entries, m + 1) = chosen \cup {m + 1}
      BY <2>4 DEF Beginning
    <3>2. upto[m + 1] = Append(s, candidate(path.dir, entries[m + 1]))
      BY <2>2, <2>4 DEF Looked_at
    <3> HIDE DEF S, s, chosen
    <3>3. s \in Seq(S) /\ Lists(s, path.dir, entries, chosen)
      BY <2>1 DEF s, chosen
    <3>4. Append(s, candidate(path.dir, entries[m + 1])) \in Seq(S)
      BY <2>3, <3>3, AppendProperties
    <3>5. Lists(Append(s, candidate(path.dir, entries[m + 1])), path.dir, entries,
                chosen \cup {m + 1})
      BY <2>3, <3>3, ListsMore
    <3> QED
      BY <3>1, <3>2, <3>4, <3>5
  <2>5. CASE ~IsPrefix(path.last, name_of(entries[m + 1]))
    <3>1. Beginning(path, entries, m + 1) = chosen
      BY <2>5 DEF Beginning
    <3>2. upto[m + 1] = upto[m]
      BY <2>2, <2>5 DEF Looked_at
    <3> QED
      BY <2>1, <3>1, <3>2
  <2> QED
    BY <2>4, <2>5
<1>6. n \in T
  <2> HIDE DEF T
  <2> QED
    BY <1>0, <1>4, <1>5, Induction
<1> QED
  BY <1>0, <1>2, <1>6 DEF n

-----------------------------------------------------------------------------
(* The completer has printed what the loop prints for the listing.         *)
Fits(word, listing, lines) ==
  LET path == split_path(word)
  IN Lists(lines, path.dir, listing.entries,
           Beginning(path, listing.entries, Len(listing.entries)))
Offered ==
  program = "complete" /\ status = "0" /\ Accepted(1) =>
    \E word, listing, lines :
      /\ word = args /\ lines = printed
      /\ listing \in Listings /\ listing.shape = "dir" /\ answer[1] = <<Success(listing)>>
      /\ Fits(word, listing, lines)

(* Only a program that runs does anything.                                 *)
LEMMA EndedStays ==
  ASSUME ProgramInv, status # "running", [Next]_vars
  PROVE  UNCHANGED vars
<1>1. pc = "ended"
  BY DEF ProgramInv, Progress
<1> QED
  BY <1>1 DEF Next, Program, check_args, ESHETClient, first_request, first_result, argument,
              update_result, getline, read_channel, client_answers, client_pushes

(* Only one step ends a completer with success.                            *)
LEMMA CompleterEnds ==
  ASSUME ProgramInv, program = "complete", status = "running", [Next]_vars, status' = "0"
  PROVE  first_result /\ offer(Head(result_chan)) /\ made = 1
<1>1. ~Repeats
  BY DEF Repeats
<1>2. pc \notin {"argument", "updated", "getline"}
  BY <1>1 DEF ProgramInv, Progress
<1>3. first_result
  <2>1. ~check_args
    BY DEF check_args, end
  <2>2. ~ESHETClient
    BY DEF ESHETClient, end
  <2>3. ~first_request
    BY DEF first_request, request
  <2>4. ~argument /\ ~update_result /\ ~getline
    BY <1>2 DEF argument, update_result, getline
  <2>5. ~read_channel /\ ~client_pushes
    BY DEF read_channel, client_pushes
  <2>6. ~client_answers
    BY DEF client_answers
  <2>7. vars' # vars
    BY DEF vars
  <2> QED
    BY <2>1, <2>2, <2>3, <2>4, <2>5, <2>6, <2>7 DEF Next, Program
<1>4. made = 1
  BY <1>3 DEF first_result, ProgramInv, Progress
<1> QED
  BY <1>3, <1>4 DEF first_result

(* What it is answered is a listing, or that the request failed.           *)
Listed == {Error} \cup {Success(l) : l \in Listings}
Answered == program = "complete" => answer[1] \in {<<>>} \cup {<<res>> : res \in Listed}

(* The command line stays what it is.                                      *)
LEMMA SameProgram ==
  ASSUME [Next]_vars
  PROVE  UNCHANGED <<program, args>>
<1>1. UNCHANGED given
  BY DEF Next, Program, check_args, ESHETClient, first_request, first_result, argument, vars,
         update_result, getline, read_channel, client_answers, client_pushes
<1> QED
  BY <1>1 DEF given

(* Only the client answers.                                                *)
LEMMA ClientStays ==
  ASSUME [Next]_vars, ~client_answers
  PROVE  UNCHANGED answer
BY DEF Next, Program, check_args, ESHETClient, first_request, first_result, argument, vars,
       update_result, getline, read_channel, client_pushes, client, request, update_str,
       Client!Ask

(* A listing is all ActionCall is answered with when complete asks.        *)
LEMMA AnsweredStep ==
  ASSUME ProgramInv, Answered, [Next]_vars
  PROVE  Answered'
<1>1. UNCHANGED program
  BY SameProgram
<1>2. CASE ~client_answers
  <2>1. UNCHANGED answer
    BY <1>2, ClientStays
  <2> QED
    BY <1>1, <2>1 DEF Answered, Listed, Error, Success
<1>3. CASE client_answers
  <2> SUFFICES ASSUME program = "complete"
               PROVE  answer'[1] \in {<<>>} \cup {<<res>> : res \in Listed}
    BY <1>1 DEF Answered, Listed, Error, Success
  <2>0. PICK r \in Client!Waiting : \E res \in AnswersTo(asked[r]) :
          Client!Answer(r, res) \/ (res = Error /\ Client!Lose({r}))
    BY <1>3 DEF client_answers
  <2>1. PICK res \in AnswersTo(asked[r]) :
          Client!Answer(r, res) \/ (res = Error /\ Client!Lose({r}))
    BY <2>0
  <2>2. /\ 1 \in Requests /\ r \in Requests /\ asked[r] # None /\ made \in Nat
        /\ answer \in [Requests -> {<<>>} \cup {<<x>> : x \in Results}]
    BY ProgramsAssumption DEF Requests, Client!Waiting, ProgramInv, TypeOK
  <2>3. CASE r # 1
    <3>1. answer'[1] = answer[1]
      BY <2>1, <2>2, <2>3 DEF Client!Answer, Client!Lose, Requests
    <3> QED
      BY <3>1 DEF Answered
  <2>4. CASE r = 1
    <3>1. 1 \in 1 .. made
      BY <2>2, <2>4 DEF ProgramInv, Sending
    <3>2. asked[1] = [op |-> FirstOp, value |-> FirstValue]
      BY <3>1 DEF ProgramInv, Sending, SentInOrder
    <3>3. asked[1].op = "ActionCall"
      BY <3>2 DEF FirstOp
    <3>4. res \in Listed
      BY <2>1, <2>4, <3>3 DEF AnswersTo, Listed
    <3>5. answer'[1] = <<res>>
      BY <2>1, <2>2, <2>4 DEF Client!Answer, Client!Lose, Requests
    <3> QED
      BY <3>4, <3>5
  <2> QED
    BY <2>3, <2>4
<1> QED
  BY <1>2, <1>3

(* It asks for nothing without a word.                                     *)
Named == program = "complete" /\ made # 0 => args # None

(* Without a word it ends before it would ask.                             *)
LEMMA NamedStep ==
  ASSUME ProgramInv, Named, [Next]_vars
  PROVE  Named'
<1>1. UNCHANGED <<program, args>>
  BY SameProgram
<1>2. CASE program = "complete" /\ pc # "request"
  <2>1. ~Repeats
    BY <1>2 DEF Repeats
  <2>2. pc \notin {"argument", "updated", "getline", "request"}
    BY <1>2, <2>1 DEF ProgramInv, Progress
  <2>3. UNCHANGED made
    BY <2>2 DEF Next, Program, check_args, ESHETClient, first_request, first_result, argument,
                vars, update_result, getline, read_channel, client_answers, client_pushes, client
  <2> QED
    BY <1>1, <2>3 DEF Named
<1>3. CASE program # "complete" \/ pc = "request"
  BY <1>1, <1>3 DEF Named, ProgramInv, Progress
<1> QED
  BY <1>2, <1>3

(* The step that ends it prints the lines of the loop, and nothing follows. *)
LEMMA OfferedStep ==
  ASSUME ProgramInv, Answered, Offered, [Next]_vars
  PROVE  Offered'
<1>1. CASE status # "running"
  <2>1. UNCHANGED <<program, args, printed, status, answer>>
    BY <1>1, EndedStays DEF vars, given, client
  <2> QED
    BY <2>1 DEF Offered, Accepted
<1>2. CASE status = "running"
  <2> SUFFICES ASSUME program' = "complete", status' = "0", Accepted(1)'
               PROVE  Offered'
    BY DEF Offered
  <2>1. UNCHANGED <<program, args>>
    BY SameProgram
  <2>2. first_result /\ offer(Head(result_chan)) /\ made = 1
    BY <1>2, <2>1, CompleterEnds
  <2>3. UNCHANGED answer /\ pc = "result" /\ result_chan # <<>>
    BY <2>2 DEF first_result, client
  <2>4. PICK res \in Results : answer[1] = <<res>> /\ Head(result_chan) = res
    BY <2>2, <2>3, ResultRead
  <2>5. res.kind # "Error"
    BY <2>3, <2>4 DEF Accepted
  <2>6. PICK l \in Listings : res = Success(l)
    <3>1. res \in Listed
      BY <2>1, <2>4 DEF Answered
    <3> QED
      BY <2>5, <3>1 DEF Listed, Error
  <2>7. /\ l.shape = "dir" /\ printed' = candidates(split_path(args), l.entries)
    BY <2>2, <2>4, <2>5, <2>6 DEF offer, end, Success
  <2>8. Len(l.entries) \in Nat
    BY <2>7, ProgramsAssumption
  <2>9. PICK lines, word : lines = printed' /\ word = args
    OBVIOUS
  <2>10. Fits(word, l, lines)
    <3> DEFINE path == split_path(word)
               entries == l.entries
    <3>1. lines = candidates(path, entries)
      BY <2>7, <2>9
    <3>2. Len(entries) \in Nat
      BY <2>8
    <3> HIDE DEF path, entries
    <3>3. Lists(lines, path.dir, entries, Beginning(path, entries, Len(entries)))
      BY <3>1, <3>2, LoopLists
    <3> QED
      BY <3>3 DEF Fits, path, entries
  <2>11. answer' = answer /\ args' = word /\ answer[1] = <<Success(l)>>
    BY <2>1, <2>3, <2>4, <2>6, <2>9
  <2> QED
    BY <2>7, <2>9, <2>10, <2>11 DEF Offered
<1> QED
  BY <1>1, <1>2

(* Then the word is completed.                                             *)
LEMMA EntryNamed ==
  ASSUME NEW entries \in Seq(Seq(STRING) \X Seq(STRING)), NEW i \in 1 .. Len(entries)
  PROVE  name_of(entries[i]) \in Seq(STRING)
<1>1. entries[i] \in Seq(STRING) \X Seq(STRING)
  BY ElementOfSeq
<1> QED
  BY <1>1 DEF name_of

(* With the directory in front, the entries that begin with the last part  *)
(* are those that go on from the word.                                     *)
LEMMA SameEntries ==
  ASSUME NEW word \in Seq(STRING), Slashes(word) # {},
         NEW entries \in Seq(Seq(STRING) \X Seq(STRING))
  PROVE  Continuing(word, split_path(word).dir, entries)
           = Beginning(split_path(word), entries, Len(entries))
<1> DEFINE dir == split_path(word).dir
           last == split_path(word).last
<1>1. dir \in Seq(STRING) /\ last \in Seq(STRING) /\ word = dir \o last
  BY WordSplit
<1> HIDE DEF dir, last
<1>2. ASSUME NEW i \in 1 .. Len(entries)
      PROVE  IsPrefix(word, dir \o name_of(entries[i])) <=> IsPrefix(last, name_of(entries[i]))
  <2>1. name_of(entries[i]) \in Seq(STRING)
    BY EntryNamed
  <2>2. IsPrefix(dir \o last, dir \o name_of(entries[i])) <=> IsPrefix(last, name_of(entries[i]))
    BY <1>1, <2>1, PrefixBehind
  <2> QED
    BY <1>1, <2>2
<1> QED
  BY <1>2 DEF Continuing, Beginning, dir, last

(* Without a slash the last part is empty, and every name begins with it.  *)
LEMMA NoSlash ==
  ASSUME NEW word, Slashes(word) = {},
         NEW entries \in Seq(Seq(STRING) \X Seq(STRING))
  PROVE  /\ split_path(word).dir = <<>>
         /\ Beginning(split_path(word), entries, Len(entries)) = 1 .. Len(entries)
<1>1. split_path(word) = [dir |-> <<>>, last |-> <<>>]
  BY DEF split_path
<1>2. ASSUME NEW i \in 1 .. Len(entries) PROVE IsPrefix(<<>>, name_of(entries[i]))
  <2> DEFINE u == <<>>
             v == name_of(entries[i])
  <2>1. v \in Seq(STRING)
    BY EntryNamed
  <2>2. u \in Seq(STRING) /\ Len(u) = 0
    BY EmptySeq
  <2> HIDE DEF u, v
  <2>3. Len(u) <= Len(v) /\ \A k \in 1 .. Len(u) : u[k] = v[k]
    BY <2>1, <2>2
  <2>4. IsPrefix(u, v)
    BY <2>1, <2>2, <2>3, PrefixIs
  <2> QED
    BY <2>4 DEF u, v
<1> QED
  BY <1>1, <1>2 DEF Beginning

(* What was listed and what was printed, seen from the word.               *)
LEMMA OfferedCompletes ==
  ASSUME ProgramInv, Named, Offered
  PROVE  CompletesTheWord
<1> SUFFICES ASSUME program = "complete", made = 1 PROVE CompletesTheWord
  BY DEF CompletesTheWord
<1> DEFINE dir == asked[1].value[1]
           entries == answer[1][1].value.entries
           path == split_path(args)
<1>1. dir = path.dir
  <2>1. asked[1] = [op |-> FirstOp, value |-> FirstValue]
    BY DEF ProgramInv, Sending, SentInOrder
  <2> QED
    BY <2>1 DEF FirstValue
<1>2. args \in Seq(STRING)
  <2>1. args \in Words \cup {None}
    BY DEF ProgramInv, TypeOK, GivenOK, ArgsOf
  <2> QED
    BY <2>1, ProgramsAssumption DEF Named
<1>3. ASSUME status = "0", Accepted(1)
      PROVE  /\ entries \in Seq(Seq(STRING) \X Seq(STRING))
             /\ Lists(printed, path.dir, entries, Beginning(path, entries, Len(entries)))
  <2>1. PICK listing \in Listings : /\ listing.shape = "dir"
                                    /\ answer[1] = <<Success(listing)>>
                                    /\ Fits(args, listing, printed)
    BY <1>3 DEF Offered
  <2>2. entries = listing.entries
    BY <2>1 DEF Success
  <2> HIDE DEF entries
  <2> QED
    BY <2>1, <2>2, ProgramsAssumption DEF Fits
<1> HIDE DEF entries, path
<1>4. CASE Slashes(args) = {}
  <2>1. dir = <<>>
    BY <1>1, <1>4 DEF path, split_path
  <2>2. ASSUME status = "0", Accepted(1)
        PROVE  Lists(printed, dir, entries, 1 .. Len(entries))
    BY <1>1, <1>3, <1>4, <2>2, NoSlash DEF path
  <2> QED
    BY <1>4, <2>1, <2>2 DEF CompletesTheWord, entries
<1>5. CASE Slashes(args) # {}
  <2>1. /\ IsPrefix(dir, args) /\ Slashes(dir) = Slashes(args) /\ Last(dir) = "/"
    BY <1>1, <1>2, <1>5, WordSplit DEF path
  <2>2. ASSUME status = "0", Accepted(1)
        PROVE  Lists(printed, dir, entries, Continuing(args, dir, entries))
    BY <1>1, <1>2, <1>3, <1>5, <2>2, SameEntries DEF path
  <2> QED
    BY <1>5, <2>1, <2>2 DEF CompletesTheWord, entries
<1> QED
  BY <1>4, <1>5

(* Whatever the word and whatever the directory holds, complete lists the  *)
(* directory of the word and offers the entries that go on from it, all of *)
(* them and no others; the first part of an entry counts as its name, the  *)
(* second as its type.                                                     *)
THEOREM WordsCompleted == Spec => []CompletesTheWord
<1>1. Init => Answered /\ Named /\ Offered
  <2> SUFFICES ASSUME Init PROVE Answered /\ Named /\ Offered
    OBVIOUS
  <2>1. status = "running" /\ answer[1] = <<>> /\ made = 0
    BY ProgramsAssumption DEF Init, Client!Init, Requests
  <2> QED
    BY <2>1 DEF Answered, Named, Offered
<1>2. ProgramInv /\ Answered /\ Named /\ Offered /\ [Next]_vars
        => Answered' /\ Named' /\ Offered'
  BY AnsweredStep, NamedStep, OfferedStep
<1>3. ProgramInv /\ Named /\ Offered => CompletesTheWord
  BY OfferedCompletes
<1> QED
  BY <1>1, <1>2, <1>3, ProgramInvariant, PTL DEF Spec
=============================================================================
