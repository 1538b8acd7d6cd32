----------------------------- MODULE WireProofs -----------------------------
(***************************************************************************)
(* Proofs about Parser, for all messages, fields and bases: no read goes   *)
(* past the message, and each reader gives back what its writer wrote.     *)
(* And about Wire, for all messages and chunks: the frames of a connection *)
(* that does not break inside one are put together as they were sent, and  *)
(* all that is accepted is a message of the protocol.  And about ErrorLog: *)
(* the text of an error's value is JSON for that value.                    *)
(***************************************************************************)
EXTENDS ErrorLog, TLAPS, WellFoundedInduction, SequenceTheorems

(* Every nonempty set of naturals has a least element.                     *)
LEMMA LeastNatural ==
  ASSUME NEW T \in SUBSET Nat, T # {}
  PROVE  \E i \in T : \A j \in T : i <= j
<1> DEFINE R == OpToRel(<, Nat)
<1>1. IsWellFoundedOn(R, Nat)
  BY NatLessThanWellFounded
<1>2. PICK i \in T : \A j \in T : <<j, i>> \notin R
  <2> HIDE DEF R
  <2> QED
    BY <1>1, WFMin
<1>3. \A j \in T : ~(j < i)
  BY <1>2 DEF OpToRel
<1>4. \A j \in T : i <= j
  BY <1>3
<1> QED
  BY <1>4

(* The first NUL of those there are.                                       *)
LEMMA FirstEnd ==
  ASSUME data \in Seq(Nat), pos \in Nat, Ends # {}
  PROVE  first_end \in Ends /\ \A j \in Ends : first_end <= j
<1>1. Ends \in SUBSET Nat
  BY DEF Ends
<1>2. \E i \in Ends : \A j \in Ends : i <= j
  BY <1>1, LeastNatural
<1> QED
  BY <1>2 DEF first_end

-----------------------------------------------------------------------------
TypeOK ==
  /\ data \in Seq(Nat) /\ pos \in Nat
  /\ todo \in Seq(Kinds)

Inside == TypeOK /\ NoOverread

(* size_t never wraps while pos is inside the message, so that what the    *)
(* readers compare with is at most what is left.                           *)
LEMMA RemainingIsLeft ==
  ASSUME Inside
  PROVE  /\ size - pos \in Nat /\ remaining \in Nat
         /\ remaining <= size - pos
<1>1. size - pos \in Nat
  BY DEF Inside, TypeOK, NoOverread, size
<1> QED
  BY <1>1, ParserAssumption, BytesAssumption DEF remaining

(* After a field that is still within the message the position is too.     *)
LEMMA AdvanceInside ==
  ASSUME Inside, todo # <<>>, NEW n \in Nat, NEW x, n <= size - pos, advance(n, x)
  PROVE  Inside'
BY DEF Inside, TypeOK, NoOverread, size, advance

LEMMA ParseInside == Inside /\ read_field => Inside'
<1> SUFFICES ASSUME Inside, read_field PROVE Inside'
  OBVIOUS
<1>a. remaining \in Nat /\ remaining <= size - pos /\ size - pos \in Nat
  BY RemainingIsLeft
<1>b. \A e : throw(e) => Inside'
  BY DEF throw, Inside, TypeOK, NoOverread
<1>1. CASE read8
  BY <1>1, <1>a, <1>b, AdvanceInside DEF read8, Reads
<1>2. CASE read16
  BY <1>2, <1>a, <1>b, AdvanceInside DEF read16, Reads
<1>3. CASE read32
  BY <1>3, <1>a, <1>b, AdvanceInside DEF read32, Reads
<1>4. CASE read_string
  <2>1. CASE Ends # {} /\ advance(first_end - pos, SubSeq(data, pos + 1, first_end - 1))
    <3>1. first_end \in pos + 1 .. size
      BY <2>1, FirstEnd DEF Inside, TypeOK, Ends
    <3>2. first_end - pos \in Nat /\ first_end - pos <= size - pos
      BY <3>1 DEF Inside, TypeOK, size
    <3> QED
      BY <1>4, <2>1, <3>2, AdvanceInside DEF read_string, Reads
  <2> QED
    BY <1>4, <1>b, <2>1 DEF read_string
<1>5. CASE read_msgpack
  BY <1>5, <1>a, <1>b, AdvanceInside DEF read_msgpack, Reads
<1>6. CASE check_empty
  BY <1>6 DEF check_empty, Inside, TypeOK, NoOverread
<1> QED
  BY <1>1, <1>2, <1>3, <1>4, <1>5, <1>6 DEF read_field

(* Whatever bytes arrive and whatever fields are expected of them, no read *)
(* goes past the end of the message.                                       *)
THEOREM ReadsStayInside == ParserSpec => []NoOverread
<1>1. ParserInit => Inside
  BY DEF ParserInit, Inside, TypeOK, NoOverread
<1>2. Inside /\ [ParserNext]_parserVars => Inside'
  <2> SUFFICES ASSUME Inside, [ParserNext]_parserVars PROVE Inside'
    OBVIOUS
  <2>1. ASSUME NEW bytes \in Seq(Nat), NEW fields \in Seq(Kinds), begin(bytes, fields)
        PROVE  Inside'
    BY <2>1 DEF begin, Inside, TypeOK, NoOverread
  <2>2. CASE discard
    BY <2>2 DEF discard, Inside, TypeOK, NoOverread
  <2>3. CASE read_field
    BY <2>3, ParseInside
  <2>4. CASE UNCHANGED parserVars
    BY <2>4 DEF parserVars, Inside, TypeOK, NoOverread
  <2> QED
    BY <2>1, <2>2, <2>3, <2>4 DEF ParserNext
<1>3. Inside => NoOverread
  BY DEF Inside
<1> QED
  BY <1>1, <1>2, <1>3, PTL DEF ParserSpec
-----------------------------------------------------------------------------
(* What the writers wrote is read back.  Base is at least two for this.    *)

(* Division by a positive number.                                          *)
LEMMA Divide ==
  ASSUME NEW x \in Nat, NEW d \in Nat \ {0}
  PROVE  /\ x \div d \in Nat /\ x % d \in 0 .. d - 1
         /\ x = d * (x \div d) + (x % d)
OBVIOUS

LEMMA DivideUnique ==
  ASSUME NEW x \in Nat, NEW d \in Nat \ {0},
         NEW q \in Nat, NEW r \in 0 .. d - 1, x = d * q + r
  PROVE  x \div d = q /\ x % d = r
<1>1. x \div d \in Nat /\ x % d \in 0 .. d - 1 /\ x = d * (x \div d) + (x % d)
  BY Divide
<1> DEFINE e == x \div d
           f == x % d
<1>2. e \in Nat /\ f \in 0 .. d - 1 /\ d * e + f = d * q + r
  BY <1>1
<1> HIDE DEF e, f
<1>3. ~(e < q)
  <2>1. SUFFICES ASSUME e + 1 <= q PROVE FALSE
    BY <1>2
  <2>2. d * (e + 1) <= d * q
    BY <2>1, <1>2
  <2>3. d * (e + 1) = d * e + d
    BY <1>2
  <2> QED
    BY <2>2, <2>3, <1>2
<1>4. ~(q < e)
  <2>1. SUFFICES ASSUME q + 1 <= e PROVE FALSE
    BY <1>2
  <2>2. d * (q + 1) <= d * e
    BY <2>1, <1>2
  <2>3. d * (q + 1) = d * q + d
    BY <1>2
  <2> QED
    BY <2>2, <2>3, <1>2
<1>5. e = q /\ f = r
  BY <1>2, <1>3, <1>4
<1> QED
  BY <1>5 DEF e, f

(* Dividing by a product is dividing twice.                                *)
LEMMA DivideTwice ==
  ASSUME NEW x \in Nat, NEW c \in Nat \ {0}, NEW d \in Nat \ {0}
  PROVE  x \div (c * d) = (x \div c) \div d
<1> DEFINE q == x \div c
           e == q \div d
           r == c * (q % d) + (x % c)
<1>1. q \in Nat /\ x % c \in 0 .. c - 1 /\ x = c * q + (x % c)
  BY Divide
<1>2. e \in Nat /\ q % d \in 0 .. d - 1 /\ q = d * e + (q % d)
  BY <1>1, Divide
<1>3. c * d \in Nat \ {0}
  OBVIOUS
<1> DEFINE m == q % d
           n == x % c
<1>4. m \in 0 .. d - 1 /\ n \in 0 .. c - 1 /\ x = c * q + n /\ q = d * e + m
  BY <1>1, <1>2
<1> HIDE DEF q, e, m, n
<1>5. x = (c * d) * e + (c * m + n)
  <2>1. c * (d * e + m) = (c * d) * e + c * m
    BY <1>2, <1>4
  <2> QED
    BY <2>1, <1>2, <1>4
<1>6. c * m + n \in 0 .. (c * d) - 1
  <2>1. c * m <= c * (d - 1)
    BY <1>4
  <2>2. c * (d - 1) = c * d - c
    OBVIOUS
  <2>3. c * m \in Nat
    BY <1>4
  <2> QED
    BY <2>1, <2>2, <2>3, <1>3, <1>4
<1>7. x \div (c * d) = e
  BY <1>2, <1>3, <1>5, <1>6, DivideUnique
<1> QED
  BY <1>7 DEF e, q

LEMMA QuotientBelow ==
  ASSUME NEW c \in Nat \ {0}, NEW d \in Nat \ {0}, NEW x \in Nat, x < c * d
  PROVE  x \div c \in 0 .. d - 1
<1> DEFINE q == x \div c
<1>1. q \in Nat /\ x % c \in Nat /\ x = c * q + (x % c)
  BY Divide
<1> HIDE DEF q
<1>2. ~(d <= q)
  <2>1. SUFFICES ASSUME d <= q PROVE FALSE
    OBVIOUS
  <2>2. c * d <= c * q
    BY <2>1, <1>1
  <2> QED
    BY <2>2, <1>1
<1>3. q \in 0 .. d - 1
  BY <1>1, <1>2
<1> QED
  BY <1>3 DEF q

(* A number has the digits it is written with.                             *)
LEMMA Digits ==
  ASSUME NEW x \in Nat, NEW c \in Nat \ {0}, NEW b \in Nat, b = c * Base
  PROVE  (x \div c) = (x \div b) * Base + digit(x, c)
<1> DEFINE q == x \div c
<1>1. q \in Nat
  BY Divide
<1>2. x \div b = q \div Base
  BY DivideTwice, ParserAssumption, BytesAssumption
<1>3. q = Base * (q \div Base) + (q % Base)
  BY <1>1, Divide, ParserAssumption, BytesAssumption
<1>4. q \div Base \in Nat
  BY <1>1, Divide, ParserAssumption, BytesAssumption
<1>5. Base * (q \div Base) = (q \div Base) * Base
  BY <1>4, ParserAssumption, BytesAssumption
<1> QED
  BY <1>2, <1>3, <1>5 DEF digit

(* The first of the digits of a number that is small enough.               *)
LEMMA FirstDigit ==
  ASSUME NEW x \in Nat, NEW c \in Nat \ {0}, x < c * Base
  PROVE  digit(x, c) = x \div c
<1>1. x \div c \in 0 .. Base - 1
  BY QuotientBelow, ParserAssumption, BytesAssumption
<1> QED
  BY <1>1, ParserAssumption, BytesAssumption DEF digit

LEMMA DigitIsNat ==
  ASSUME NEW x \in Nat, NEW c \in Nat \ {0}
  PROVE  digit(x, c) \in Nat
<1>1. x \div c \in Nat
  BY Divide
<1> QED
  BY <1>1, ParserAssumption, BytesAssumption DEF digit

LEMMA TwoDigits ==
  ASSUME NEW x \in Nat, x < Base * Base
  PROVE  digit(x, Base) * Base + digit(x, 1) = x
<1>1. x \div 1 = x
  OBVIOUS
<1>2. 1 * Base = Base
  BY ParserAssumption, BytesAssumption
<1>3. (x \div 1) = (x \div Base) * Base + digit(x, 1)
  <2>1. 1 \in Nat \ {0} /\ Base \in Nat
    BY ParserAssumption, BytesAssumption
  <2> QED
    BY <1>2, <2>1, Digits
<1> QED
  BY <1>1, <1>3, FirstDigit, ParserAssumption, BytesAssumption

LEMMA FourDigits ==
  ASSUME NEW x \in Nat, x < Base * Base * Base * Base
  PROVE  ((digit(x, Base * Base * Base) * Base + digit(x, Base * Base)) * Base
            + digit(x, Base)) * Base + digit(x, 1) = x
<1> DEFINE B2 == Base * Base
           B3 == B2 * Base
<1>1. /\ Base \in Nat \ {0} /\ B2 \in Nat \ {0} /\ B3 \in Nat \ {0}
      /\ 1 * Base = Base /\ x \div 1 = x
  BY ParserAssumption, BytesAssumption
<1>2. /\ x = (x \div Base) * Base + digit(x, 1)
      /\ (x \div Base) = (x \div B2) * Base + digit(x, Base)
      /\ (x \div B2) = (x \div B3) * Base + digit(x, B2)
      /\ (x \div B3) = digit(x, B3)
  <2>1. (x \div 1) = (x \div Base) * Base + digit(x, 1)
    <3>1. 1 \in Nat \ {0} /\ Base \in Nat
      BY <1>1
    <3> QED
      BY <1>1, <3>1, Digits
  <2>2. (x \div Base) = (x \div B2) * Base + digit(x, Base)
    BY <1>1, Digits
  <2>3. (x \div B2) = (x \div B3) * Base + digit(x, B2)
    BY <1>1, Digits
  <2>4. (x \div B3) = digit(x, B3)
    BY <1>1, FirstDigit
  <2> QED
    BY <2>1, <2>2, <2>3, <2>4, <1>1
<1> QED
  BY <1>2

-----------------------------------------------------------------------------
(* The bytes of a field are next in the message.                           *)
Next_in_message(bytes) ==
  /\ Len(bytes) <= size - pos
  /\ \A i \in 1 .. Len(bytes) : data[pos + i] = bytes[i]

(* A part of a sequence, element by element.                               *)
LEMMA PartOf ==
  ASSUME NEW s \in Seq(Nat), NEW m \in Nat, NEW n \in Nat, m + n <= Len(s)
  PROVE  /\ SubSeq(s, m + 1, m + n) \in Seq(Nat)
         /\ Len(SubSeq(s, m + 1, m + n)) = n
         /\ \A i \in 1 .. n : SubSeq(s, m + 1, m + n)[i] = s[m + i]
<1> DEFINE a == m + 1
           b == m + n
           u == SubSeq(s, a, b)
<1>1. a \in 1 .. Len(s) + 1 /\ b \in a - 1 .. Len(s) /\ b - a + 1 = n
  OBVIOUS
<1>2. /\ u \in Seq(Nat)
      /\ Len(u) = IF a <= b THEN b - a + 1 ELSE 0
      /\ \A i \in 1 .. b - a + 1 : u[i] = s[a + i - 1]
  <2> HIDE DEF a, b
  <2> QED
    BY <1>1, SubSeqProperties
<1>3. Len(u) = n
  <2> HIDE DEF u
  <2> QED
    BY <1>1, <1>2
<1>4. \A i \in 1 .. n : u[i] = s[m + i]
  <2>1. \A i \in 1 .. n : a + i - 1 = m + i
    OBVIOUS
  <2> HIDE DEF u, a, b
  <2> QED
    BY <1>1, <1>2, <2>1
<1> QED
  BY <1>2, <1>3, <1>4

LEMMA IsPart ==
  ASSUME NEW s \in Seq(Nat), NEW m \in Nat, NEW t \in Seq(Nat), m + Len(t) <= Len(s),
         \A i \in 1 .. Len(t) : s[m + i] = t[i]
  PROVE  SubSeq(s, m + 1, m + Len(t)) = t
<1> DEFINE u == SubSeq(s, m + 1, m + Len(t))
<1>1. Len(t) \in Nat
  OBVIOUS
<1>2. u \in Seq(Nat) /\ Len(u) = Len(t) /\ \A i \in 1 .. Len(t) : u[i] = s[m + i]
  <2> DEFINE n == Len(t)
  <2> HIDE DEF n
  <2>1. n \in Nat /\ m + n <= Len(s)
    BY <1>1 DEF n
  <2>2. /\ SubSeq(s, m + 1, m + n) \in Seq(Nat)
        /\ Len(SubSeq(s, m + 1, m + n)) = n
        /\ \A i \in 1 .. n : SubSeq(s, m + 1, m + n)[i] = s[m + i]
    BY <2>1, PartOf, Zenon
  <2> QED
    BY <2>2 DEF n
<1> HIDE DEF u
<1>3. u = t
  BY <1>2, SeqEqual
<1> QED
  BY <1>3 DEF u

-----------------------------------------------------------------------------
(* What holds when a reader is called.                                     *)
Called == Inside /\ Len(data) < SizeMod /\ todo # <<>> /\ outcome = "parsing"

LEMMA CalledFacts ==
  ASSUME Called
  PROVE  /\ data \in Seq(Nat) /\ pos \in Nat /\ size \in Nat /\ size = Len(data)
         /\ size - pos \in Nat /\ remaining = size - pos
<1>1. /\ data \in Seq(Nat) /\ pos \in Nat /\ size = Len(data) /\ size \in Nat
      /\ pos <= size /\ size < SizeMod
  BY DEF Called, Inside, TypeOK, NoOverread, size
<1>2. size - pos \in 0 .. SizeMod - 1
  BY <1>1, ParserAssumption, BytesAssumption
<1>3. \A n \in 0 .. SizeMod - 1 : n % SizeMod = n
  BY ParserAssumption, BytesAssumption
<1> QED
  BY <1>1, <1>2, <1>3 DEF remaining

LEMMA NumbersReadBack ==
  ASSUME Called,
         NEW kind \in {"8", "16", "32"}, NEW x \in FieldValues(kind),
         Head(todo) = kind, Next_in_message(write_field(kind, x)), read_field
  PROVE  advance(Len(write_field(kind, x)), x)
<1>0. remaining = size - pos /\ size - pos \in Nat
  BY CalledFacts
<1>1. CASE kind = "8"
  <2>1. write_field(kind, x) = <<x>>
    BY <1>1 DEF write_field
  <2>2. read8
    BY <1>1 DEF read_field, Called, Reads, read16, read32, read_string, read_msgpack, check_empty
  <2>3. remaining >= 1 /\ byte(1) = x
    BY <1>0, <2>1 DEF Next_in_message, byte
  <2> QED
    BY <1>0, <2>1, <2>2, <2>3 DEF read8, advance
<1>2. CASE kind = "16"
  <2>1. write_field(kind, x) = <<digit(x, Base), digit(x, 1)>>
    BY <1>2 DEF write_field
  <2>2. read16
    BY <1>2 DEF read_field, Called, Reads, read8, read32, read_string, read_msgpack, check_empty
  <2>3. remaining >= 2 /\ byte(1) = digit(x, Base) /\ byte(2) = digit(x, 1)
    BY <1>0, <2>1 DEF Next_in_message, byte
  <2>4. x \in Nat /\ x < Base * Base
    BY <1>2 DEF FieldValues
  <2>5. byte(1) * Base + byte(2) = x
    BY <2>3, <2>4, TwoDigits
  <2> QED
    BY <1>0, <2>1, <2>2, <2>3, <2>5 DEF read16, advance
<1>3. CASE kind = "32"
  <2>1. write_field(kind, x) =
          <<digit(x, Base * Base * Base), digit(x, Base * Base), digit(x, Base), digit(x, 1)>>
    BY <1>3 DEF write_field
  <2>2. read32
    BY <1>3 DEF read_field, Called, Reads, read8, read16, read_string, read_msgpack, check_empty
  <2>3. /\ remaining >= 4
        /\ byte(1) = digit(x, Base * Base * Base) /\ byte(2) = digit(x, Base * Base)
        /\ byte(3) = digit(x, Base) /\ byte(4) = digit(x, 1)
    BY <1>0, <2>1 DEF Next_in_message, byte
  <2>4. x \in Nat /\ x < Base * Base * Base * Base
    BY <1>3 DEF FieldValues
  <2>5. ((byte(1) * Base + byte(2)) * Base + byte(3)) * Base + byte(4) = x
    BY <2>3, <2>4, FourDigits
  <2> QED
    BY <1>0, <2>1, <2>2, <2>3, <2>5 DEF read32, advance
<1> QED
  BY <1>1, <1>2, <1>3

LEMMA StringsReadBack ==
  ASSUME Called, NEW x \in Seq(Nat \ {NUL}),
         Head(todo) = "string", Next_in_message(x \o <<NUL>>), read_field
  PROVE  advance(Len(x) + 1, x)
<1>0. /\ data \in Seq(Nat) /\ pos \in Nat /\ size \in Nat /\ size = Len(data)
      /\ size - pos \in Nat
  BY CalledFacts
<1>1. read_string
  BY DEF read_field, Called, Reads, read8, read16, read32, read_msgpack, check_empty
<1>2. x \in Seq(Nat) /\ Len(x) \in Nat /\ \A i \in 1 .. Len(x) : x[i] # NUL
  OBVIOUS
<1>3. /\ pos + Len(x) + 1 <= size
      /\ data[pos + Len(x) + 1] = NUL
      /\ \A i \in 1 .. Len(x) : data[pos + i] = x[i]
  <2> DEFINE w == x \o <<NUL>>
  <2>1. /\ Len(w) = Len(x) + 1 /\ w[Len(x) + 1] = NUL
        /\ \A i \in 1 .. Len(x) : w[i] = x[i]
    BY <1>2
  <2>2. Len(w) <= size - pos /\ \A i \in 1 .. Len(w) : data[pos + i] = w[i]
    BY DEF Next_in_message
  <2> HIDE DEF w
  <2>3. data[pos + (Len(x) + 1)] = NUL /\ \A i \in 1 .. Len(x) : data[pos + i] = x[i]
    BY <1>2, <2>1, <2>2
  <2>4. pos + (Len(x) + 1) = pos + Len(x) + 1
    BY <1>0, <1>2
  <2>5. pos + Len(x) + 1 <= size
    BY <1>0, <1>2, <2>1, <2>2
  <2>6. data[pos + Len(x) + 1] = NUL
    BY <2>3, <2>4
  <2> QED
    BY <2>3, <2>5, <2>6
<1>4. pos + Len(x) + 1 \in Ends
  BY <1>0, <1>2, <1>3 DEF Ends
<1>5. \A j \in Ends : pos + Len(x) + 1 <= j
  <2> SUFFICES ASSUME NEW j \in Ends, j < pos + Len(x) + 1 PROVE FALSE
    BY <1>0, <1>2 DEF Ends
  <2>1. j \in Nat /\ j - pos \in 1 .. Len(x) /\ pos + (j - pos) = j /\ data[j] = NUL
    BY <1>0, <1>2 DEF Ends
  <2> QED
    BY <1>2, <1>3, <2>1
<1>6. first_end = pos + Len(x) + 1
  <2>1. first_end \in Ends /\ \A j \in Ends : first_end <= j
    BY <1>0, <1>4, FirstEnd
  <2>2. first_end \in Nat
    BY <1>0, <2>1 DEF Ends
  <2>3. first_end <= pos + Len(x) + 1
    BY <1>4, <2>1
  <2>4. pos + Len(x) + 1 <= first_end
    BY <1>5, <2>1
  <2>5. pos + Len(x) + 1 \in Nat
    BY <1>0, <1>2
  <2> DEFINE e == first_end
             f == pos + Len(x) + 1
  <2>6. e \in Nat /\ f \in Nat /\ e <= f /\ f <= e
    BY <2>2, <2>3, <2>4, <2>5
  <2> HIDE DEF e, f
  <2>7. e = f
    BY <2>6
  <2> QED
    BY <2>7 DEF e, f
<1>7. first_end - pos = Len(x) + 1 /\ first_end - 1 = pos + Len(x)
  BY <1>0, <1>2, <1>6
<1>8. SubSeq(data, pos + 1, pos + Len(x)) = x
  BY <1>0, <1>2, <1>3, IsPart
<1> QED
  BY <1>1, <1>4, <1>7, <1>8 DEF read_string, advance

LEMMA BeginsMeans ==
  ASSUME Called, NEW p \in Seq(Nat), Begins(p)
  PROVE  Next_in_message(p)
<1>0. /\ data \in Seq(Nat) /\ pos \in Nat /\ size \in Nat /\ size = Len(data)
      /\ size - pos \in Nat /\ Len(p) \in Nat
  BY CalledFacts
<1>1. Len(p) <= size - pos /\ SubSeq(data, pos + 1, pos + Len(p)) = p
  BY DEF Begins
<1>2. pos + Len(p) <= Len(data)
  BY <1>0, <1>1
<1>3. \A i \in 1 .. Len(p) : SubSeq(data, pos + 1, pos + Len(p))[i] = data[pos + i]
  BY <1>0, <1>2, PartOf
<1> QED
  BY <1>1, <1>3 DEF Next_in_message

(* Of two objects that are next in the message the shorter begins the      *)
(* longer, and so they are the same.                                       *)
LEMMA OneObject ==
  ASSUME NEW p \in Packs, NEW q \in Packs, Len(p) <= Len(q),
         Next_in_message(p), Next_in_message(q)
  PROVE  p = q
<1>1. p \in Seq(Nat) /\ q \in Seq(Nat) /\ Len(p) \in Nat /\ Len(q) \in Nat
  BY ParserAssumption, BytesAssumption
<1>2. \A i \in 1 .. Len(p) : q[0 + i] = p[i]
  BY <1>1 DEF Next_in_message
<1>3. SubSeq(q, 0 + 1, 0 + Len(p)) = p
  BY <1>1, <1>2, IsPart
<1> QED
  BY <1>1, <1>3, ParserAssumption, BytesAssumption

LEMMA ObjectsReadBack ==
  ASSUME Called, NEW x \in Packs,
         Head(todo) = "pack", Next_in_message(x), read_field
  PROVE  advance(size - pos, x)
<1>0. /\ data \in Seq(Nat) /\ pos \in Nat /\ size \in Nat /\ size = Len(data)
      /\ size - pos \in Nat /\ remaining = size - pos
  BY CalledFacts
<1>1. x \in Seq(Nat) /\ Len(x) \in Nat \ {0}
  BY ParserAssumption, BytesAssumption
<1>2. read_msgpack
  BY DEF read_field, Called, Reads, read8, read16, read32, read_string, check_empty
<1>3. Len(x) <= size - pos /\ \A i \in 1 .. Len(x) : data[pos + i] = x[i]
  BY DEF Next_in_message
<1>4. Begins(x)
  <2>1. pos + Len(x) <= Len(data)
    BY <1>0, <1>1, <1>3
  <2> QED
    BY <1>0, <1>1, <1>3, <2>1, IsPart DEF Begins
<1>5. ASSUME NEW p \in Packs, Begins(p) PROVE p = x
  <2>1. p \in Seq(Nat) /\ Len(p) \in Nat
    BY ParserAssumption, BytesAssumption
  <2>2. Next_in_message(p)
    BY <1>5, <2>1, BeginsMeans
  <2>3. Len(p) <= Len(x) \/ Len(x) <= Len(p)
    BY <1>1, <2>1
  <2> QED
    BY <2>2, <2>3, OneObject
<1>6. remaining >= 1 /\ ~(remaining < 1)
  BY <1>0, <1>1, <1>3
<1>7. PICK p \in Packs : Begins(p) /\ advance(size - pos, p)
  BY <1>2, <1>4, <1>6 DEF read_msgpack
<1> QED
  BY <1>5, <1>7

(* Each reader takes the bytes its writer produced for what they stand     *)
(* for, and leaves the position behind them; only an object swallows what  *)
(* follows it.                                                             *)
THEOREM FieldsReadBack ==
  ASSUME Called,
         NEW kind \in Kinds, NEW x \in FieldValues(kind),
         Head(todo) = kind, Next_in_message(write_field(kind, x)), read_field
  PROVE  /\ got' = Append(got, x) /\ todo' = Tail(todo) /\ outcome' = outcome
         /\ pos' = IF kind = "pack" THEN Len(data)
                   ELSE pos + Len(write_field(kind, x))
<1>1. CASE kind \in {"8", "16", "32"}
  <2>1. advance(Len(write_field(kind, x)), x)
    BY <1>1, NumbersReadBack
  <2> QED
    BY <1>1, <2>1 DEF advance
<1>2. CASE kind = "string"
  <2>1. write_field(kind, x) = x \o <<NUL>> /\ x \in Seq(Nat \ {NUL})
    BY <1>2 DEF write_field, FieldValues
  <2>2. Len(write_field(kind, x)) = Len(x) + 1
    BY <2>1
  <2>3. advance(Len(x) + 1, x)
    BY <1>2, <2>1, StringsReadBack
  <2> QED
    BY <1>2, <2>2, <2>3 DEF advance
<1>3. CASE kind = "pack"
  <2>1. write_field(kind, x) = x /\ x \in Packs
    BY <1>3 DEF write_field, FieldValues
  <2>2. advance(size - pos, x)
    BY <1>3, <2>1, ObjectsReadBack
  <2>3. pos + (size - pos) = Len(data)
    BY CalledFacts
  <2> QED
    BY <1>3, <2>2, <2>3 DEF advance
<1> QED
  BY <1>1, <1>2, <1>3 DEF Kinds

-----------------------------------------------------------------------------
(* Induction on a number, for a set in the place of a property.            *)
LEMMA SetInduction ==
  ASSUME NEW S, 0 \in S, \A n \in Nat : n \in S => n + 1 \in S
  PROVE  Nat \subseteq S
<1> SUFFICES ASSUME Nat \ S # {} PROVE FALSE
  OBVIOUS
<1>1. PICK n \in Nat \ S : \A k \in Nat \ S : n <= k
  BY LeastNatural
<1>2. n # 0 /\ n - 1 \in Nat /\ (n - 1) + 1 = n
  BY <1>1
<1>3. n - 1 \notin S
  BY <1>1, <1>2
<1> QED
  BY <1>1, <1>2, <1>3

LEMMA Regroup ==
  ASSUME NEW a \in Seq(Nat), NEW b \in Seq(Nat), NEW c \in Seq(Nat)
  PROVE  a \o (b \o c) = (a \o b) \o c
<1>1. (a \o b) \o c = a \o (b \o c)
  BY ConcatAssociative
<1> QED
  BY <1>1

(* The sequences that the first n of some sequences make up together.      *)
Sums(S, ss, n, u) ==
  /\ u \in [0 .. n -> Seq(S)] /\ u[0] = <<>>
  /\ \A i \in 1 .. n : u[i] = u[i - 1] \o ss[i]

(* What the first n make up, and what one more does.                       *)
OneMore(ss, n, u) == [i \in 0 .. n + 1 |-> IF i = n + 1 THEN u[n] \o ss[n + 1] ELSE u[i]]

LEMMA SumsStep ==
  ASSUME NEW S, NEW ss, NEW n \in Nat, ss[n + 1] \in Seq(S),
         NEW u, Sums(S, ss, n, u)
  PROVE  /\ Sums(S, ss, n + 1, OneMore(ss, n, u))
         /\ OneMore(ss, n, u)[n + 1] = u[n] \o ss[n + 1]
<1>1. u \in [0 .. n -> Seq(S)] /\ u[0] = <<>>
  BY DEF Sums
<1>2. u[n] \o ss[n + 1] \in Seq(S)
  BY <1>1
<1> DEFINE x == u[n] \o ss[n + 1]
           v == [i \in 0 .. n + 1 |-> IF i = n + 1 THEN x ELSE u[i]]
<1>0. v = OneMore(ss, n, u)
  BY DEF OneMore
<1> HIDE DEF x
<1>3. v[n + 1] = x /\ (\A i \in 0 .. n : v[i] = u[i])
  OBVIOUS
<1>4. v \in [0 .. n + 1 -> Seq(S)] /\ v[0] = <<>>
  BY <1>1, <1>2 DEF x
<1> HIDE DEF v
<1>5. ASSUME NEW i \in 1 .. n + 1 PROVE v[i] = v[i - 1] \o ss[i]
  <2>1. i - 1 \in 0 .. n
    OBVIOUS
  <2>2. v[i - 1] = u[i - 1]
    BY <1>3, <2>1
  <2>3. CASE i = n + 1
    <3>1. i - 1 = n
      BY <2>3
    <3> QED
      BY <1>3, <2>2, <2>3, <3>1 DEF x
  <2>4. CASE i # n + 1
    <3>1. i \in 1 .. n /\ i \in 0 .. n
      BY <2>4
    <3>2. u[i] = u[i - 1] \o ss[i]
      BY <3>1 DEF Sums
    <3> QED
      BY <1>3, <2>2, <3>1, <3>2
  <2> QED
    BY <2>3, <2>4
<1>6. Sums(S, ss, n + 1, v)
  BY <1>4, <1>5 DEF Sums
<1> QED
  BY <1>0, <1>3, <1>6 DEF x

LEMMA SumsExist ==
  ASSUME NEW S, NEW ss \in Seq(Seq(S))
  PROVE  \E u : Sums(S, ss, Len(ss), u)
<1> DEFINE T == {n \in Nat : n <= Len(ss) => \E u : Sums(S, ss, n, u)}
<1>1. 0 \in T
  <2> DEFINE u == [i \in 0 .. 0 |-> <<>>]
  <2>1. u \in [0 .. 0 -> Seq(S)] /\ u[0] = <<>>
    OBVIOUS
  <2>2. Sums(S, ss, 0, u)
    BY <2>1 DEF Sums
  <2> QED
    BY <2>2
<1>2. ASSUME NEW n \in Nat, n \in T PROVE n + 1 \in T
  <2>1. CASE ~(n + 1 <= Len(ss))
    BY <2>1
  <2>2. CASE n + 1 <= Len(ss)
    <3>1. n <= Len(ss) /\ n + 1 \in 1 .. Len(ss)
      BY <2>2
    <3>2. ss[n + 1] \in Seq(S)
      BY <3>1
    <3>3. PICK u : Sums(S, ss, n, u)
      BY <1>2, <3>1
    <3>4. \E v : Sums(S, ss, n + 1, v)
      BY <3>2, <3>3, SumsStep
    <3> QED
      BY <3>4
  <2> QED
    BY <2>1, <2>2
<1>3. Len(ss) \in T
  <2> HIDE DEF T
  <2>1. Nat \subseteq T
    BY <1>1, <1>2, SetInduction
  <2> QED
    BY <2>1
<1> QED
  BY <1>3

(* FlattenSeq puts all of them together.                                   *)
LEMMA FlattenIsSum ==
  ASSUME NEW S, NEW ss \in Seq(Seq(S)), NEW upto, Sums(S, ss, Len(ss), upto)
  PROVE  FlattenSeq(ss) = upto[Len(ss)]
<1> DEFINE N == Len(ss)
           Flat(f) == f = [i \in 1 .. N |-> IF i = 1 THEN ss[i] ELSE f[i - 1] \o ss[i]]
           flatten == CHOOSE f : Flat(f)
<1>1. CASE N = 0
  BY <1>1 DEF FlattenSeq, Sums
<1>2. CASE N # 0
  <2>1. N \in Nat /\ 1 \in 1 .. N
    BY <1>2
  <2>2. Flat([i \in 1 .. N |-> upto[i]])
    <3> DEFINE g == [i \in 1 .. N |-> upto[i]]
    <3>1. \A i \in 1 .. N : g[i] = IF i = 1 THEN ss[i] ELSE g[i - 1] \o ss[i]
      <4> TAKE i \in 1 .. N
      <4>1. g[i] = upto[i - 1] \o ss[i]
        BY DEF Sums
      <4>2. CASE i = 1
        <5>1. ss[1] \in Seq(S) /\ upto[0] = <<>> /\ i - 1 = 0
          BY <2>1, <4>2 DEF Sums
        <5>2. <<>> \o ss[1] = ss[1]
          BY <5>1, ConcatEmptySeq
        <5> QED
          BY <4>1, <4>2, <5>1, <5>2
      <4>3. CASE i # 1
        <5>1. i - 1 \in 1 .. N
          BY <4>3, <2>1
        <5> QED
          BY <4>1, <4>3, <5>1
      <4> QED
        BY <4>2, <4>3
    <3>2. g = [i \in 1 .. N |-> g[i]]
      OBVIOUS
    <3> HIDE DEF g
    <3>3. g = [i \in 1 .. N |-> IF i = 1 THEN ss[i] ELSE g[i - 1] \o ss[i]]
      BY <3>1, <3>2
    <3> QED
      BY <3>3 DEF g
  <2>3. Flat(flatten)
    <3> HIDE DEF Flat
    <3> QED
      BY <2>2
  <2>4. \A i \in 1 .. N : flatten[i] = IF i = 1 THEN ss[i] ELSE flatten[i - 1] \o ss[i]
    <3> HIDE DEF flatten
    <3> QED
      BY <2>3
  <2> HIDE DEF flatten
  <2> DEFINE T == {i \in Nat : i \in 1 .. N => flatten[i] = upto[i]}
  <2>5. 0 \in T
    BY <2>1
  <2>6. ASSUME NEW i \in Nat, i \in T PROVE i + 1 \in T
    <3> SUFFICES ASSUME i + 1 \in 1 .. N PROVE flatten[i + 1] = upto[i + 1]
      OBVIOUS
    <3>0. (i + 1) - 1 = i
      OBVIOUS
    <3>1. upto[i + 1] = upto[i] \o ss[i + 1]
      BY <3>0 DEF Sums
    <3>2. CASE i = 0
      <4>1. ss[1] \in Seq(S) /\ upto[0] = <<>>
        BY <2>1 DEF Sums
      <4>2. flatten[i + 1] = ss[1]
        BY <2>1, <2>4, <3>2
      <4> QED
        BY <3>1, <3>2, <4>1, <4>2
    <3>3. CASE i # 0
      <4>1. i \in 1 .. N /\ i + 1 # 1
        BY <3>3, <2>1
      <4>2. flatten[i] = upto[i]
        BY <2>6, <4>1
      <4>3. flatten[i + 1] = flatten[i] \o ss[i + 1]
        BY <2>4, <4>1, <3>0
      <4> QED
        BY <3>1, <4>2, <4>3
    <3> QED
      BY <3>2, <3>3
  <2>7. N \in T
    <3> HIDE DEF T
    <3>1. Nat \subseteq T
      BY <2>5, <2>6, SetInduction
    <3> QED
      BY <3>1, <2>1
  <2>8. flatten[N] = upto[N]
    BY <2>1, <2>7
  <2>9. FlattenSeq(ss) = flatten[N]
    BY <1>2 DEF FlattenSeq, flatten
  <2> QED
    BY <2>8, <2>9
<1> QED
  BY <1>1, <1>2

LEMMA FlattenType ==
  ASSUME NEW S, NEW ss \in Seq(Seq(S))
  PROVE  FlattenSeq(ss) \in Seq(S)
<1>1. PICK u : Sums(S, ss, Len(ss), u)
  BY SumsExist
<1>2. u[Len(ss)] \in Seq(S)
  BY <1>1 DEF Sums
<1> QED
  BY <1>1, <1>2, FlattenIsSum

LEMMA FlattenAppend ==
  ASSUME NEW S, NEW ss \in Seq(Seq(S)), NEW t \in Seq(S)
  PROVE  FlattenSeq(Append(ss, t)) = FlattenSeq(ss) \o t
<1> DEFINE n == Len(ss)
           tt == Append(ss, t)
<1>1. /\ tt \in Seq(Seq(S)) /\ Len(tt) = n + 1 /\ n \in Nat /\ tt[n + 1] = t
      /\ \A i \in 1 .. n : tt[i] = ss[i]
  OBVIOUS
<1>2. PICK u : Sums(S, ss, n, u)
  BY SumsExist
<1> HIDE DEF tt
<1>3. Sums(S, tt, n, u)
  BY <1>1, <1>2 DEF Sums
<1> DEFINE v == OneMore(tt, n, u)
<1>4. Sums(S, tt, n + 1, v) /\ v[n + 1] = u[n] \o tt[n + 1]
  <2>1. n \in Nat /\ tt[n + 1] \in Seq(S)
    BY <1>1
  <2> HIDE DEF n
  <2> QED
    BY <1>3, <2>1, SumsStep
<1> HIDE DEF v
<1>5. FlattenSeq(tt) = v[n + 1]
  BY <1>1, <1>4, FlattenIsSum
<1>6. FlattenSeq(ss) = u[n]
  BY <1>2, FlattenIsSum
<1>7. FlattenSeq(tt) = FlattenSeq(ss) \o t
  BY <1>1, <1>4, <1>5, <1>6
<1> QED
  BY <1>7 DEF tt

(* The first of the sequences comes first.                                 *)
LEMMA FlattenTail ==
  ASSUME NEW S, NEW ss \in Seq(Seq(S)), ss # <<>>
  PROVE  FlattenSeq(ss) = Head(ss) \o FlattenSeq(Tail(ss))
<1> DEFINE n == Len(ss)
           tt == Tail(ss)
           h == Head(ss)
<1>1. /\ tt \in Seq(Seq(S)) /\ n \in Nat /\ n # 0 /\ Len(tt) = n - 1
      /\ h = ss[1] /\ h \in Seq(S)
  OBVIOUS
<1>2. ASSUME NEW i \in 1 .. n - 1 PROVE tt[i] = ss[i + 1] /\ tt[i] \in Seq(S)
  BY <1>1
<1> HIDE DEF tt, h, n
<1>3. PICK u : Sums(S, tt, n - 1, u)
  BY <1>1, SumsExist
<1>4. /\ u \in [0 .. n - 1 -> Seq(S)] /\ u[0] = <<>>
      /\ \A i \in 1 .. n - 1 : u[i] = u[i - 1] \o tt[i]
  BY <1>3 DEF Sums
<1> DEFINE v == [i \in 0 .. n |-> IF i = 0 THEN <<>> ELSE h \o u[i - 1]]
<1>5. v[0] = <<>>
  BY <1>1
<1>6. ASSUME NEW i \in 1 .. n PROVE v[i] = h \o u[i - 1] /\ v[i] \in Seq(S)
  <2>1. i - 1 \in 0 .. n - 1 /\ i \in 0 .. n /\ i # 0
    BY <1>1
  <2>2. u[i - 1] \in Seq(S)
    BY <1>4, <2>1
  <2>3. v[i] = h \o u[i - 1]
    BY <2>1
  <2> HIDE DEF v
  <2> QED
    BY <1>1, <2>2, <2>3, ConcatProperties
<1>7. v = [i \in 0 .. n |-> v[i]]
  OBVIOUS
<1> HIDE DEF v
<1>8. v \in [0 .. n -> Seq(S)]
  <2>1. ASSUME NEW i \in 0 .. n PROVE v[i] \in Seq(S)
    <3>1. CASE i = 0
      BY <1>5, <3>1, EmptySeq
    <3>2. CASE i # 0
      <4>1. i \in 1 .. n
        BY <1>1, <3>2
      <4> QED
        BY <1>6, <4>1
    <3> QED
      BY <3>1, <3>2
  <2> QED
    BY <1>7, <2>1
<1>9. ASSUME NEW i \in 1 .. n PROVE v[i] = v[i - 1] \o ss[i]
  <2>1. v[i] = h \o u[i - 1]
    BY <1>6
  <2>2. CASE i = 1
    <3>1. v[i - 1] = <<>> /\ u[i - 1] = <<>> /\ ss[i] = h
      BY <2>2, <1>1, <1>4, <1>5
    <3>2. h \o <<>> = h /\ <<>> \o h = h
      BY <1>1, ConcatEmptySeq
    <3> QED
      BY <2>1, <3>1, <3>2
  <2>3. CASE i # 1
    <3>1. i - 1 \in 1 .. n - 1 /\ i - 1 \in 1 .. n /\ (i - 1) - 1 \in 0 .. n - 1
          /\ (i - 1) + 1 = i
      BY <2>3, <1>1
    <3>2. tt[i - 1] = ss[i] /\ ss[i] \in Seq(S)
      BY <3>1, <1>2
    <3>3. u[i - 1] = u[(i - 1) - 1] \o ss[i]
      BY <3>1, <3>2, <1>4
    <3>4. v[i - 1] = h \o u[(i - 1) - 1]
      BY <3>1, <1>6
    <3>5. u[(i - 1) - 1] \in Seq(S)
      BY <3>1, <1>4
    <3>6. (h \o u[(i - 1) - 1]) \o ss[i] = h \o (u[(i - 1) - 1] \o ss[i])
      <4> DEFINE w == u[(i - 1) - 1]
                 x == ss[i]
      <4>1. h \in Seq(S) /\ w \in Seq(S) /\ x \in Seq(S)
        BY <3>2, <3>5, <1>1
      <4> HIDE DEF w, x
      <4>2. (h \o w) \o x = h \o (w \o x)
        BY <4>1, ConcatAssociative, SMTT(30)
      <4> QED
        BY <4>2 DEF w, x
    <3> QED
      BY <2>1, <3>3, <3>4, <3>6
  <2> QED
    BY <2>2, <2>3
<1>10. Sums(S, ss, n, v)
  BY <1>5, <1>8, <1>9 DEF Sums
<1>11. FlattenSeq(ss) = v[n]
  BY <1>10, FlattenIsSum DEF n
<1>12. FlattenSeq(tt) = u[n - 1]
  <2>1. Sums(S, tt, Len(tt), u)
    BY <1>1, <1>3
  <2> QED
    BY <1>1, <2>1, FlattenIsSum
<1>13. v[n] = h \o u[n - 1]
  <2>1. n \in 1 .. n
    BY <1>1
  <2> QED
    BY <1>6, <2>1, Zenon
<1> QED
  BY <1>11, <1>12, <1>13 DEF tt, h

-----------------------------------------------------------------------------
(* Frames.                                                                 *)

LEMMA FrameParts ==
  ASSUME NEW m \in Seq(Nat)
  PROVE  /\ frame(m) \in Seq(Nat) /\ Len(frame(m)) = Len(m) + header
         /\ frame(m)[1] = Magic
         /\ frame(m)[2] = digit(Len(m), Base) /\ frame(m)[3] = digit(Len(m), 1)
         /\ \A i \in 1 .. Len(m) : frame(m)[header + i] = m[i]
<1> DEFINE c == digit(Len(m), Base)
           d == digit(Len(m), 1)
<1>1. Magic \in Nat /\ c \in Nat /\ d \in Nat
  <2>1. Len(m) \in Nat /\ Base \in Nat \ {0} /\ 1 \in Nat \ {0}
    BY BytesAssumption
  <2> QED
    BY <2>1, DigitIsNat, FramingAssumption
<1> HIDE DEF c, d
<1> DEFINE h == <<Magic, c, d>>
<1>2. h \in Seq(Nat) /\ Len(h) = 3 /\ h[1] = Magic /\ h[2] = c /\ h[3] = d
  BY <1>1
<1>3. <<Magic>> \o <<c, d>> = h
  <2> DEFINE s == <<Magic>>
             t == <<c, d>>
  <2>1. s \in Seq(Nat) /\ t \in Seq(Nat) /\ Len(s) = 1 /\ Len(t) = 2
        /\ s[1] = Magic /\ t[1] = c /\ t[2] = d
    BY <1>1
  <2> HIDE DEF s, t, h
  <2>2. /\ s \o t \in Seq(Nat) /\ Len(s \o t) = Len(s) + Len(t)
        /\ \A i \in 1 .. Len(s) + Len(t) :
             (s \o t)[i] = IF i <= Len(s) THEN s[i] ELSE t[i - Len(s)]
    BY <2>1, ConcatProperties
  <2>3. (s \o t)[1] = h[1] /\ (s \o t)[2] = h[2] /\ (s \o t)[3] = h[3]
    <3> DEFINE w == s \o t
    <3>1. \A i \in 1 .. 3 : w[i] = IF i <= 1 THEN s[i] ELSE t[i - 1]
      BY <2>1, <2>2
    <3> HIDE DEF w
    <3>2. w[1] = s[1] /\ w[2] = t[1] /\ w[3] = t[2]
      BY <3>1
    <3>3. w[1] = h[1] /\ w[2] = h[2] /\ w[3] = h[3]
      BY <1>2, <2>1, <3>2
    <3> QED
      BY <3>3 DEF w
  <2>4. \A i \in 1 .. Len(s \o t) : (s \o t)[i] = h[i]
    <3>1. \A i \in 1 .. 3 : i = 1 \/ i = 2 \/ i = 3
      OBVIOUS
    <3> QED
      <4>1. Len(s \o t) = 3
        BY <2>1, <2>2
      <4> QED
        BY <2>3, <3>1, <4>1
  <2>5. s \o t = h
    <3>1. Len(s \o t) = Len(h) /\ s \o t \in Seq(Nat) /\ h \in Seq(Nat)
      BY <1>2, <2>1, <2>2
    <3>2. \A u, v \in Seq(Nat) :
            Len(u) = Len(v) /\ (\A i \in 1 .. Len(u) : u[i] = v[i]) => u = v
      BY SeqEqual
    <3> QED
      BY <2>4, <3>1, <3>2
  <2> QED
    BY <2>5 DEF s, t
<1>4. frame(m) = h \o m
  BY <1>3 DEF frame, write_size, c, d
<1> HIDE DEF h
<1>5. /\ h \o m \in Seq(Nat) /\ Len(h \o m) = 3 + Len(m)
      /\ \A i \in 1 .. 3 + Len(m) : (h \o m)[i] = IF i <= 3 THEN h[i] ELSE m[i - 3]
  <2>1. /\ h \o m \in Seq(Nat) /\ Len(h \o m) = Len(h) + Len(m)
        /\ \A i \in 1 .. Len(h) + Len(m) :
             (h \o m)[i] = IF i <= Len(h) THEN h[i] ELSE m[i - Len(h)]
    BY <1>2, ConcatProperties
  <2> QED
    BY <1>2, <2>1
<1>6. Len(m) \in Nat
  OBVIOUS
<1>7. (h \o m)[1] = Magic /\ (h \o m)[2] = c /\ (h \o m)[3] = d
  BY <1>2, <1>5, <1>6
<1>8. ASSUME NEW i \in 1 .. Len(m) PROVE (h \o m)[3 + i] = m[i]
  <2>1. 3 + i \in 1 .. 3 + Len(m) /\ ~(3 + i <= 3) /\ (3 + i) - 3 = i
    BY <1>6
  <2> QED
    BY <1>5, <2>1
<1>9. 3 + Len(m) = Len(m) + 3
  BY <1>6
<1> QED
  BY <1>4, <1>5, <1>7, <1>8, <1>9 DEF header, c, d

(* The length that a frame says it has, if it fits into two bytes.         *)
LEMMA LengthReadBack ==
  ASSUME NEW m \in Seq(Nat), Fits(m)
  PROVE  frame(m)[2] * Base + frame(m)[3] = Len(m)
<1>1. Len(m) \in Nat /\ Len(m) < Base * Base
  BY DEF Fits
<1> QED
  BY <1>1, FrameParts, TwoDigits

Framed(ms) == [i \in 1 .. Len(ms) |-> frame(ms[i])]

LEMMA FramedType ==
  ASSUME NEW ms \in Seq(Seq(Nat))
  PROVE  Framed(ms) \in Seq(Seq(Nat)) /\ Len(Framed(ms)) = Len(ms)
<1>1. ASSUME NEW i \in 1 .. Len(ms) PROVE frame(ms[i]) \in Seq(Nat)
  BY FrameParts
<1> QED
  BY <1>1 DEF Framed

LEMMA FramesType ==
  ASSUME NEW ms \in Seq(Seq(Nat))
  PROVE  frames(ms) \in Seq(Nat)
<1>1. Framed(ms) \in Seq(Seq(Nat))
  BY FramedType
<1> HIDE DEF Framed
<1> QED
  BY <1>1, FlattenType DEF frames, Framed

LEMMA FramesOfNone == frames(<<>>) = <<>>
BY DEF frames, FlattenSeq

LEMMA FramesAppend ==
  ASSUME NEW ms \in Seq(Seq(Nat)), NEW m \in Seq(Nat)
  PROVE  frames(Append(ms, m)) = frames(ms) \o frame(m)
<1> DEFINE more == Append(ms, m)
<1>1. /\ more \in Seq(Seq(Nat)) /\ Len(more) = Len(ms) + 1 /\ more[Len(ms) + 1] = m
      /\ \A i \in 1 .. Len(ms) : more[i] = ms[i]
  OBVIOUS
<1> HIDE DEF more
<1>2. /\ Framed(ms) \in Seq(Seq(Nat)) /\ Len(Framed(ms)) = Len(ms)
      /\ Framed(more) \in Seq(Seq(Nat)) /\ Len(Framed(more)) = Len(ms) + 1
      /\ frame(m) \in Seq(Nat)
  BY <1>1, FramedType, FrameParts
<1> DEFINE a == Append(Framed(ms), frame(m))
<1>3. /\ a \in Seq(Seq(Nat)) /\ Len(a) = Len(ms) + 1 /\ a[Len(ms) + 1] = frame(m)
      /\ \A i \in 1 .. Len(ms) : a[i] = Framed(ms)[i]
  BY <1>2, AppendProperties
<1> HIDE DEF a
<1>4. ASSUME NEW i \in 1 .. Len(ms) + 1 PROVE Framed(more)[i] = a[i]
  <2>1. Framed(more)[i] = frame(more[i])
    BY <1>1 DEF Framed
  <2>2. CASE i = Len(ms) + 1
    BY <1>1, <1>3, <2>1, <2>2
  <2>3. CASE i # Len(ms) + 1
    <3>1. i \in 1 .. Len(ms)
      BY <2>3
    <3>2. Framed(ms)[i] = frame(ms[i])
      BY <3>1 DEF Framed
    <3> QED
      BY <1>1, <1>3, <2>1, <3>1, <3>2
  <2> QED
    BY <2>2, <2>3
<1>5. Framed(more) = a
  BY <1>2, <1>3, <1>4, SeqEqual
<1>6. FlattenSeq(a) = FlattenSeq(Framed(ms)) \o frame(m)
  BY <1>2, FlattenAppend DEF a
<1> QED
  BY <1>5, <1>6 DEF frames, Framed, more

LEMMA FramesTail ==
  ASSUME NEW ms \in Seq(Seq(Nat)), ms # <<>>
  PROVE  frames(ms) = frame(Head(ms)) \o frames(Tail(ms))
<1> DEFINE rest == Tail(ms)
           n == Len(ms)
<1>1. /\ rest \in Seq(Seq(Nat)) /\ n \in Nat \ {0} /\ Len(rest) = n - 1
      /\ Head(ms) = ms[1]
      /\ \A i \in 1 .. n - 1 : rest[i] = ms[i + 1]
  OBVIOUS
<1> HIDE DEF rest
<1>2. /\ Framed(ms) \in Seq(Seq(Nat)) /\ Len(Framed(ms)) = n
      /\ Framed(rest) \in Seq(Seq(Nat)) /\ Len(Framed(rest)) = n - 1
  BY <1>1, FramedType
<1>3. Framed(ms) # <<>>
  BY <1>1, <1>2
<1>4. Head(Framed(ms)) = frame(Head(ms))
  <2>1. Framed(ms)[1] = frame(ms[1])
    BY <1>1 DEF Framed
  <2>2. Head(Framed(ms)) = Framed(ms)[1]
    BY <1>2, <1>3
  <2> QED
    BY <1>1, <2>1, <2>2
<1>5. Tail(Framed(ms)) = Framed(rest)
  <2> DEFINE t == Tail(Framed(ms))
  <2>1. /\ t \in Seq(Seq(Nat)) /\ Len(t) = n - 1
        /\ \A i \in 1 .. Len(t) : t[i] = Framed(ms)[i + 1]
    BY <1>2, <1>3, HeadTailProperties
  <2> HIDE DEF t
  <2>2. ASSUME NEW i \in 1 .. n - 1 PROVE t[i] = Framed(rest)[i]
    <3>1. i + 1 \in 1 .. n
      BY <1>1
    <3>2. Framed(ms)[i + 1] = frame(ms[i + 1]) /\ Framed(rest)[i] = frame(rest[i])
      BY <1>1, <3>1 DEF Framed
    <3> QED
      BY <1>1, <2>1, <3>2
  <2>3. t = Framed(rest)
    BY <1>2, <2>1, <2>2, SeqEqual
  <2> QED
    BY <2>3 DEF t
<1>6. FlattenSeq(Framed(ms)) = Head(Framed(ms)) \o FlattenSeq(Tail(Framed(ms)))
  BY <1>2, <1>3, FlattenTail
<1> QED
  BY <1>4, <1>5, <1>6 DEF frames, Framed, rest

(* Two sequences that make up the same one in two ways, cut at the place   *)
(* where the shorter of the first parts ends.                              *)
LEMMA CutAt ==
  ASSUME NEW a \in Seq(Nat), NEW b \in Seq(Nat),
         NEW c \in Seq(Nat), NEW d \in Seq(Nat),
         a \o b = c \o d, Len(c) <= Len(a)
  PROVE  SubSeq(a, Len(c) + 1, Len(a)) \o b = d
<1> DEFINE m == Len(c)
           n == Len(a) - Len(c)
           k == Len(b)
           r == SubSeq(a, m + 1, m + n)
<1>1. m \in Nat /\ n \in Nat /\ k \in Nat /\ m + n = Len(a)
  OBVIOUS
<1>2. /\ r \in Seq(Nat) /\ Len(r) = n
      /\ \A i \in 1 .. n : r[i] = a[m + i]
  <2> HIDE DEF m, n
  <2>1. m + n <= Len(a)
    BY <1>1
  <2> QED
    BY <1>1, <2>1, PartOf
<1> HIDE DEF r
<1>3. /\ r \o b \in Seq(Nat) /\ Len(r \o b) = n + k
      /\ \A i \in 1 .. n + k : (r \o b)[i] = IF i <= n THEN r[i] ELSE b[i - n]
  <2>1. /\ r \o b \in Seq(Nat) /\ Len(r \o b) = Len(r) + Len(b)
        /\ \A i \in 1 .. Len(r) + Len(b) :
             (r \o b)[i] = IF i <= Len(r) THEN r[i] ELSE b[i - Len(r)]
    BY <1>2, ConcatProperties
  <2> QED
    BY <1>2, <2>1
<1>4. /\ Len(a \o b) = (m + n) + k
      /\ \A i \in 1 .. (m + n) + k : (a \o b)[i] = IF i <= m + n THEN a[i] ELSE b[i - (m + n)]
  <2>1. /\ Len(a \o b) = Len(a) + Len(b)
        /\ \A i \in 1 .. Len(a) + Len(b) :
             (a \o b)[i] = IF i <= Len(a) THEN a[i] ELSE b[i - Len(a)]
    BY ConcatProperties
  <2> QED
    BY <1>1, <2>1
<1>5. /\ Len(c \o d) = m + Len(d)
      /\ \A i \in 1 .. m + Len(d) : (c \o d)[i] = IF i <= m THEN c[i] ELSE d[i - m]
  BY ConcatProperties
<1>6. Len(d) = n + k
  <2>1. Len(d) \in Nat
    OBVIOUS
  <2> HIDE DEF m, n, k
  <2> QED
    BY <1>1, <1>4, <1>5, <2>1
<1> HIDE DEF m, n, k
<1>7. ASSUME NEW i \in 1 .. n + k PROVE (r \o b)[i] = d[i]
  <2>1. m + i \in 1 .. (m + n) + k /\ ~(m + i <= m) /\ (m + i) - m = i
        /\ m + i \in 1 .. m + Len(d)
    BY <1>1, <1>6
  <2>2. (a \o b)[m + i] = d[i]
    BY <1>5, <2>1
  <2>3. CASE i <= n
    <3>1. i \in 1 .. n /\ m + i <= m + n
      BY <1>1, <2>3
    <3>2. (a \o b)[m + i] = a[m + i]
      BY <1>4, <2>1, <3>1
    <3> QED
      BY <1>2, <1>3, <2>2, <3>1, <3>2
  <2>4. CASE ~(i <= n)
    <3>1. ~(m + i <= m + n) /\ (m + i) - (m + n) = i - n
      BY <1>1, <2>4
    <3>2. (a \o b)[m + i] = b[i - n]
      BY <1>4, <2>1, <3>1
    <3> QED
      BY <1>3, <2>2, <2>4, <3>2
  <2> QED
    BY <2>3, <2>4
<1>8. r \o b = d
  BY <1>3, <1>6, <1>7, SeqEqual
<1> QED
  BY <1>1, <1>8 DEF r, m

(* The start of a concatenation is that of its first part.                 *)
LEMMA SameStart ==
  ASSUME NEW a \in Seq(Nat), NEW b \in Seq(Nat),
         NEW c \in Seq(Nat), NEW d \in Seq(Nat), a \o b = c \o d,
         NEW i \in 1 .. Len(a), i <= Len(c)
  PROVE  a[i] = c[i]
<1>1. (a \o b)[i] = a[i]
  BY ConcatProperties
<1>2. i \in 1 .. Len(c)
  OBVIOUS
<1>3. (c \o d)[i] = c[i]
  BY <1>2, ConcatProperties
<1> QED
  BY <1>1, <1>3

-----------------------------------------------------------------------------
(* TypeOK of the framing, the connection's ends, and what the properties   *)
(* say.  A frame that fits is understood only because every frame before   *)
(* it did, so all that wait are said to fit.                               *)
FramingType ==
  /\ wire \in Seq(Nat) /\ buffer \in Seq(Nat)
  /\ queue \in Seq(Seq(Nat)) /\ message \in Seq(Nat)
  /\ failed \in BOOLEAN /\ spoiled \in BOOLEAN

AllFit == ~spoiled => \A i \in 1 .. Len(queue) : Fits(queue[i])

FramingInv == FramingType /\ AllFit /\ NoByteLost /\ OnlySpoiledFails

LEMMA LengthIsNat ==
  ASSUME FramingType, ~Incomplete
  PROVE  length \in Nat
<1>1. Len(buffer) \in Nat /\ Len(buffer) >= 3
  BY DEF FramingType, Incomplete, header
<1>2. buffer[2] \in Nat /\ buffer[3] \in Nat
  BY <1>1 DEF FramingType
<1> QED
  BY <1>2, BytesAssumption DEF length

(* A header that is complete is that of the next message, and it is true.  *)
LEMMA NextFrame ==
  ASSUME FramingInv, ~failed, ~spoiled, ~Incomplete
  PROVE  /\ queue # <<>> /\ Head(queue) \in Seq(Nat)
         /\ buffer[1] = Magic /\ length = Len(Head(queue))
         /\ buffer \o wire = frame(Head(queue)) \o frames(Tail(queue))
<1>1. /\ wire \in Seq(Nat) /\ buffer \in Seq(Nat) /\ queue \in Seq(Seq(Nat))
      /\ buffer \o wire = frames(queue) /\ Len(buffer) >= 3
  BY DEF FramingInv, FramingType, NoByteLost, Incomplete, header
<1>2. queue # <<>>
  <2>1. SUFFICES ASSUME queue = <<>> PROVE FALSE
    OBVIOUS
  <2>2. buffer \o wire = <<>>
    BY <1>1, <2>1, FramesOfNone
  <2>3. buffer = <<>>
    BY <1>1, <2>2, ConcatEqualIffEmpty
  <2> QED
    BY <1>1, <2>3
<1> DEFINE m == Head(queue)
           more == frames(Tail(queue))
<1>3. m \in Seq(Nat) /\ Tail(queue) \in Seq(Seq(Nat)) /\ m = queue[1] /\ 1 \in 1 .. Len(queue)
  BY <1>1, <1>2
<1>4. Fits(m)
  BY <1>3 DEF FramingInv, AllFit
<1>5. more \in Seq(Nat) /\ frame(m) \in Seq(Nat)
  BY <1>3, FramesType, FrameParts
<1>6. buffer \o wire = frame(m) \o more
  BY <1>1, <1>2, FramesTail
<1> HIDE DEF m, more
<1>7. Len(frame(m)) >= 3
  <2>1. Len(frame(m)) = Len(m) + 3 /\ Len(m) \in Nat
    <3>1. Len(frame(m)) = Len(m) + header
      BY <1>3, FrameParts
    <3> QED
      BY <1>3, <3>1 DEF header
  <2> QED
    BY <2>1
<1>8. \A i \in 1 .. 3 : buffer[i] = frame(m)[i]
  <2> TAKE i \in 1 .. 3
  <2>1. i \in 1 .. Len(buffer) /\ i <= Len(frame(m))
    BY <1>1, <1>5, <1>7
  <2> QED
    BY <1>1, <1>5, <1>6, <2>1, SameStart
<1>9. buffer[1] = Magic /\ length = Len(m)
  <2>1. frame(m)[1] = Magic
    BY <1>3, FrameParts
  <2>2. frame(m)[2] * Base + frame(m)[3] = Len(m)
    BY <1>3, <1>4, LengthReadBack
  <2> QED
    BY <1>8, <2>1, <2>2 DEF length
<1> QED
  BY <1>2, <1>3, <1>6, <1>9 DEF m, more

LEMMA SendKeeps ==
  ASSUME FramingInv, NEW m \in Seq(Nat), send(m)
  PROVE  FramingInv'
<1>1. /\ wire \in Seq(Nat) /\ buffer \in Seq(Nat) /\ queue \in Seq(Seq(Nat))
      /\ frame(m) \in Seq(Nat) /\ frames(queue) \in Seq(Nat) /\ spoiled \in BOOLEAN
  BY FrameParts, FramesType DEF FramingInv, FramingType
<1>2. /\ queue' = Append(queue, m)
      /\ buffer' = buffer /\ failed' = failed /\ message' = message
  BY DEF send
<1>3. queue' \in Seq(Seq(Nat))
  BY <1>1, <1>2, AppendProperties
<1>4. CASE wire' = wire \o frame(m) /\ spoiled' = (spoiled \/ ~Fits(m))
  <2>1. wire' \in Seq(Nat)
    BY <1>1, <1>4, ConcatProperties
  <2>2. FramingType'
    BY <1>1, <1>2, <1>3, <1>4, <2>1 DEF FramingInv, FramingType
  <2>3. AllFit'
    <3>1. SUFFICES ASSUME ~spoiled', NEW i \in 1 .. Len(queue') PROVE Fits(queue'[i])
      BY DEF AllFit, Fits
    <3>2. ~spoiled /\ Fits(m)
      BY <1>1, <1>4, <3>1
    <3>3. CASE i = Len(queue) + 1
      BY <1>1, <1>2, <3>2, <3>3, AppendProperties
    <3>4. CASE i # Len(queue) + 1
      <4>1. i \in 1 .. Len(queue)
        BY <1>1, <1>2, <3>4
      <4>2. queue'[i] = queue[i]
        BY <1>1, <1>2, <4>1, AppendProperties
      <4> QED
        BY <3>2, <4>1, <4>2 DEF FramingInv, AllFit
    <3> QED
      BY <3>3, <3>4
  <2>4. NoByteLost'
    <3>1. SUFFICES ASSUME ~failed, ~spoiled PROVE buffer \o (wire \o frame(m)) = frames(queue')
      BY <1>2, <1>4 DEF NoByteLost, frames
    <3>2. buffer \o wire = frames(queue)
      BY <3>1 DEF FramingInv, NoByteLost
    <3>3. buffer \o (wire \o frame(m)) = (buffer \o wire) \o frame(m)
      <4> DEFINE f == frame(m)
      <4>1. buffer \in Seq(Nat) /\ wire \in Seq(Nat) /\ f \in Seq(Nat)
        BY <1>1
      <4> HIDE DEF f
      <4>2. buffer \o (wire \o f) = (buffer \o wire) \o f
        BY <4>1, Regroup
      <4> QED
        BY <4>2 DEF f
    <3>4. frames(queue') = frames(queue) \o frame(m)
      BY <1>1, <1>2, FramesAppend
    <3> QED
      BY <3>2, <3>3, <3>4
  <2>5. OnlySpoiledFails'
    BY <1>2, <1>4 DEF FramingInv, OnlySpoiledFails
  <2> QED
    BY <2>2, <2>3, <2>4, <2>5 DEF FramingInv
<1>5. CASE /\ ~spoiled /\ spoiled' = TRUE
           /\ \E n \in Missing : wire' = wire \o SubSeq(frame(m), 1, Len(frame(m)) - n)
  <2>1. PICK n \in Missing : wire' = wire \o SubSeq(frame(m), 1, Len(frame(m)) - n)
    BY <1>5
  <2>2. wire' \in Seq(Nat)
    <3> DEFINE b == Len(frame(m)) - n
    <3>1. n \in Nat /\ Len(frame(m)) \in Nat
      BY <1>1, FramingAssumption
    <3>2. b \in Int /\ \A i \in 1 .. b : frame(m)[i] \in Nat
      BY <1>1, <3>1
    <3> HIDE DEF b
    <3>3. SubSeq(frame(m), 1, b) \in Seq(Nat)
      BY <3>2, SubSeqProperties
    <3> QED
      BY <1>1, <2>1, <3>3, ConcatProperties DEF b
  <2> QED
    BY <1>1, <1>2, <1>3, <1>5, <2>2
       DEF FramingInv, FramingType, AllFit, NoByteLost, OnlySpoiledFails
<1> QED
  BY <1>4, <1>5 DEF send

LEMMA PushKeeps ==
  ASSUME FramingInv, NEW n \in 1 .. Len(wire), push(n)
  PROVE  FramingInv'
<1> DEFINE now == SubSeq(wire, 1, n)
           later == SubSeq(wire, n + 1, Len(wire))
<1>1. wire \in Seq(Nat) /\ buffer \in Seq(Nat)
  BY DEF FramingInv, FramingType
<1>2. now \in Seq(Nat) /\ later \in Seq(Nat)
  BY <1>1
<1>3. now \o later = wire
  <2>1. 1 \in 1 .. Len(wire) + 1 /\ n \in 1 - 1 .. Len(wire) /\ Len(wire) \in n .. Len(wire)
    BY <1>1
  <2>2. SubSeq(wire, 1, n) \o SubSeq(wire, n + 1, Len(wire)) = SubSeq(wire, 1, Len(wire))
    BY <1>1, <2>1, ConcatAdjacentSubSeq
  <2> QED
    BY <1>1, <2>2, SubSeqFull
<1>4. buffer' = buffer \o now /\ wire' = later
  BY DEF push
<1> HIDE DEF now, later
<1>5. buffer' \o wire' = buffer \o wire
  BY <1>1, <1>2, <1>3, <1>4, Regroup
<1>6. buffer' \in Seq(Nat) /\ wire' \in Seq(Nat)
  BY <1>1, <1>2, <1>4, ConcatProperties
<1>7. UNCHANGED <<failed, queue, message, spoiled>>
  BY DEF push
<1>8. NoByteLost'
  BY <1>5, <1>7 DEF FramingInv, NoByteLost, frames
<1> QED
  BY <1>6, <1>7, <1>8 DEF FramingInv, FramingType, AllFit, OnlySpoiledFails

(* A whole frame is the next message, and the rest is the frames after it. *)
LEMMA ReadsTheNext ==
  ASSUME FramingInv, ~failed, ~spoiled, read_message
  PROVE  /\ queue # <<>> /\ message' = Head(queue) /\ queue' = Tail(queue)
         /\ buffer' \o wire' = frames(queue')
<1> DEFINE m == Head(queue)
           more == frames(Tail(queue))
<1>1. /\ wire \in Seq(Nat) /\ buffer \in Seq(Nat) /\ queue \in Seq(Seq(Nat))
      /\ ~Incomplete /\ length <= Len(buffer) - 3
  BY DEF FramingInv, FramingType, read_message, Whole, header
<1>2. /\ queue # <<>> /\ m \in Seq(Nat) /\ length = Len(m)
      /\ buffer \o wire = frame(m) \o more
  BY <1>1, NextFrame
<1>3. more \in Seq(Nat)
  <2>1. Tail(queue) \in Seq(Seq(Nat))
    BY <1>1, <1>2
  <2> QED
    BY <2>1, FramesType
<1>4. queue' = Tail(queue) /\ wire' = wire
  BY <1>2 DEF read_message
<1>5. /\ message' = SubSeq(buffer, 4, 3 + length)
      /\ buffer' = SubSeq(buffer, (3 + length) + 1, Len(buffer))
  BY DEF read_message, rest_of_buffer, header
<1> HIDE DEF m, more
<1>6. /\ frame(m) \in Seq(Nat) /\ Len(frame(m)) = 3 + length
      /\ \A i \in 1 .. length : frame(m)[3 + i] = m[i]
  <2>1. /\ frame(m) \in Seq(Nat) /\ Len(frame(m)) = Len(m) + header
        /\ \A i \in 1 .. Len(m) : frame(m)[header + i] = m[i]
    BY <1>2, FrameParts
  <2>2. Len(m) \in Nat
    BY <1>2
  <2> QED
    BY <1>2, <2>1, <2>2 DEF header
<1>7. length \in Nat /\ 3 + length <= Len(buffer) /\ Len(buffer) \in Nat
  BY <1>1, <1>2
<1>8. buffer' \o wire = more
  <2>1. SubSeq(buffer, Len(frame(m)) + 1, Len(buffer)) \o wire = more
    <3>1. Len(frame(m)) <= Len(buffer)
      BY <1>6, <1>7
    <3> QED
      BY <1>1, <1>2, <1>3, <1>6, <3>1, CutAt
  <2> QED
    BY <1>5, <1>6, <2>1
<1>9. message' = m
  <2> DEFINE l == length
             x == SubSeq(buffer, 3 + 1, 3 + l)
  <2>1. x \in Seq(Nat) /\ Len(x) = l /\ \A i \in 1 .. l : x[i] = buffer[3 + i]
    <3>1. l \in Nat /\ 3 \in Nat /\ 3 + l <= Len(buffer)
      BY <1>7
    <3> HIDE DEF l
    <3> QED
      BY <1>1, <3>1, PartOf
  <2>2. message' = x
    BY <1>5
  <2> HIDE DEF x
  <2>3. ASSUME NEW i \in 1 .. l PROVE x[i] = m[i]
    <3>1. 3 + i \in 1 .. Len(buffer) /\ 3 + i <= Len(frame(m))
      BY <1>6, <1>7
    <3>2. buffer \in Seq(Nat) /\ wire \in Seq(Nat) /\ frame(m) \in Seq(Nat)
          /\ buffer \o wire = frame(m) \o more
      BY <1>1, <1>2, <1>6
    <3>3. buffer[3 + i] = frame(m)[3 + i]
      BY ONLY <1>3, <3>1, <3>2, SameStart
    <3> QED
      BY <1>6, <2>1, <3>3
  <2>4. Len(x) = Len(m)
    BY <1>2, <2>1
  <2>5. \A u, v \in Seq(Nat) :
          Len(u) = Len(v) /\ (\A i \in 1 .. Len(u) : u[i] = v[i]) => u = v
    BY SeqEqual
  <2> QED
    BY <1>2, <2>1, <2>2, <2>3, <2>4, <2>5
<1>10. buffer' \o wire' = frames(queue')
  BY <1>4, <1>8 DEF more
<1> QED
  BY <1>2, <1>4, <1>9, <1>10 DEF m

LEMMA ReadKeeps ==
  ASSUME FramingInv, ~failed, read_message \/ read_error \/ read_nothing
  PROVE  FramingInv'
<1>1. CASE read_message
  <2>1. ~Incomplete /\ wire' = wire /\ UNCHANGED <<failed, spoiled>>
        /\ length <= Len(buffer) - 3 /\ buffer \in Seq(Nat)
    BY <1>1 DEF read_message, Whole, header, FramingInv, FramingType
  <2>2. length \in Nat /\ Len(buffer) \in Nat
    BY <2>1, LengthIsNat DEF FramingInv
  <2> DEFINE l == length
  <2>3. /\ message' = SubSeq(buffer, 4, 3 + l)
        /\ buffer' = SubSeq(buffer, 3 + l + 1, Len(buffer))
    BY <1>1 DEF read_message, rest_of_buffer, header
  <2>4. message' \in Seq(Nat) /\ buffer' \in Seq(Nat)
    <3>1. l \in Nat /\ 3 + l <= Len(buffer) /\ Len(buffer) \in Nat
      BY <2>1, <2>2
    <3> HIDE DEF l
    <3>2. \A i \in 4 .. 3 + l : buffer[i] \in Nat
      BY <2>1, <3>1
    <3>3. SubSeq(buffer, 4, 3 + l) \in Seq(Nat)
      BY <3>1, <3>2, SubSeqProperties
    <3>4. \A i \in 3 + l + 1 .. Len(buffer) : buffer[i] \in Nat
      BY <2>1, <3>1
    <3>5. SubSeq(buffer, 3 + l + 1, Len(buffer)) \in Seq(Nat)
      BY <3>1, <3>4, SubSeqProperties
    <3> QED
      BY <2>3, <3>3, <3>5
  <2>5. queue' \in Seq(Seq(Nat)) /\ (queue' = queue \/ (queue # <<>> /\ queue' = Tail(queue)))
    BY <1>1 DEF read_message, FramingInv, FramingType
  <2>6. FramingType'
    BY <2>1, <2>4, <2>5 DEF FramingInv, FramingType
  <2>7. AllFit'
    <3>1. SUFFICES ASSUME ~spoiled, NEW i \in 1 .. Len(queue') PROVE Fits(queue'[i])
      BY <2>1 DEF AllFit, Fits
    <3>2. \A j \in 1 .. Len(queue) : Fits(queue[j])
      BY <3>1 DEF FramingInv, AllFit
    <3>3. CASE queue' = queue
      BY <3>2, <3>3
    <3>4. CASE queue # <<>> /\ queue' = Tail(queue)
      <4>1. queue'[i] = queue[i + 1] /\ i + 1 \in 1 .. Len(queue)
        BY <3>4 DEF FramingInv, FramingType
      <4> QED
        BY <3>2, <4>1
    <3> QED
      BY <2>5, <3>3, <3>4
  <2>8. NoByteLost'
    <3>1. SUFFICES ASSUME ~spoiled PROVE buffer' \o wire' = frames(queue')
      BY <2>1 DEF NoByteLost, frames
    <3> QED
      BY <1>1, <3>1, ReadsTheNext
  <2> QED
    BY <2>1, <2>6, <2>7, <2>8 DEF FramingInv, OnlySpoiledFails
<1>2. CASE read_error
  <2>1. spoiled
    <3>1. SUFFICES ASSUME ~spoiled PROVE FALSE
      OBVIOUS
    <3>2. ~Incomplete /\ buffer[1] # Magic
      BY <1>2 DEF read_error, Misread
    <3> QED
      BY <3>1, <3>2, NextFrame
  <2>2. failed' = TRUE /\ UNCHANGED <<wire, buffer, queue, message, spoiled>>
    BY <1>2 DEF read_error
  <2> QED
    BY <2>1, <2>2 DEF FramingInv, FramingType, AllFit, NoByteLost, OnlySpoiledFails
<1>3. CASE read_nothing
  <2>1. message' = <<>> /\ UNCHANGED <<wire, buffer, failed, queue, spoiled>>
    BY <1>3 DEF read_nothing
  <2>2. NoByteLost'
    BY <2>1 DEF FramingInv, NoByteLost, frames
  <2>3. FramingType'
    BY <2>1, EmptySeq DEF FramingInv, FramingType
  <2> QED
    BY <2>1, <2>2, <2>3 DEF FramingInv, AllFit, OnlySpoiledFails
<1> QED
  BY <1>1, <1>2, <1>3

(* Unless the connection broke inside a frame nothing of it is left.       *)
LEMMA ReconnectKeeps ==
  ASSUME FramingInv, ~Torn, reconnect
  PROVE  FramingInv'
<1>1. /\ wire' = <<>> /\ queue' = <<>> /\ buffer = <<>> /\ buffer' = <<>> /\ spoiled' = FALSE
      /\ ~failed /\ UNCHANGED <<failed, message>>
  BY DEF reconnect
<1>2. FramingType' /\ AllFit' /\ OnlySpoiledFails'
  <2>1. <<>> \in Seq(Nat) /\ <<>> \in Seq(Seq(Nat)) /\ Len(<<>>) = 0
    BY EmptySeq
  <2>2. message \in Seq(Nat) /\ failed \in BOOLEAN
    BY DEF FramingInv, FramingType
  <2>3. FramingType'
    BY <1>1, <2>1, <2>2 DEF FramingType
  <2>4. AllFit'
    BY <1>1, <2>1 DEF AllFit
  <2> QED
    BY <1>1, <2>3, <2>4 DEF OnlySpoiledFails
<1>3. NoByteLost'
  <2>1. <<>> \o <<>> = <<>> /\ frames(<<>>) = <<>>
    BY FramesOfNone, EmptySeq, ConcatEmptySeq
  <2>2. frames(queue)' = <<>>
    BY <1>1, <2>1 DEF frames
  <2> QED
    BY <1>1, <2>1, <2>2 DEF NoByteLost, frames
<1> QED
  BY <1>2, <1>3 DEF FramingInv

-----------------------------------------------------------------------------
(* What the writers write are bytes, since the messages are well formed.   *)
LEMMA FieldType ==
  ASSUME NEW kind \in Kinds, NEW x \in FieldValues(kind)
  PROVE  write_field(kind, x) \in Seq(Nat)
<1>1. Base \in Nat \ {0} /\ Base * Base \in Nat \ {0} /\ Base * Base * Base \in Nat \ {0}
  BY BytesAssumption
<1>2. CASE kind = "8"
  BY <1>2 DEF write_field, FieldValues
<1>3. CASE kind = "16"
  <2>1. x \in Nat
    BY <1>3 DEF FieldValues
  <2>2. digit(x, Base) \in Nat /\ digit(x, 1) \in Nat
    BY <1>1, <2>1, DigitIsNat
  <2> QED
    BY <1>3, <2>2 DEF write_field
<1>4. CASE kind = "32"
  <2>1. x \in Nat
    BY <1>4 DEF FieldValues
  <2>2. /\ digit(x, Base * Base * Base) \in Nat /\ digit(x, Base * Base) \in Nat
        /\ digit(x, Base) \in Nat /\ digit(x, 1) \in Nat
    BY <1>1, <2>1, DigitIsNat
  <2> QED
    BY <1>4, <2>2 DEF write_field
<1>5. CASE kind = "string"
  <2>1. x \in Seq(Nat) /\ <<NUL>> \in Seq(Nat)
    BY <1>5 DEF FieldValues, NUL
  <2> QED
    BY <1>5, <2>1, ConcatProperties DEF write_field
<1>6. CASE kind = "pack"
  BY <1>6, ParserAssumption DEF write_field, FieldValues
<1> QED
  BY <1>2, <1>3, <1>4, <1>5, <1>6 DEF Kinds

(* Only the last field of a message is an object.                          *)
Layout(kinds) ==
  kinds \in Seq(Kinds) /\ \A i \in 1 .. Len(kinds) - 1 : kinds[i] # "pack"

LEMMA KindsType ==
  /\ Layout(<<>>)
  /\ Layout(<<"16">>)
  /\ Layout(<<"pack">>)
  /\ Layout(<<"string">>)
  /\ Layout(<<"16", "32">>)
  /\ Layout(<<"16", "pack">>)
  /\ Layout(<<"16", "string">>)
  /\ Layout(<<"8", "16">>)
  /\ Layout(<<"string", "pack">>)
  /\ Layout(<<"16", "32", "pack">>)
  /\ Layout(<<"16", "string", "pack">>)
  /\ Layout(<<"8", "16", "pack">>)
<1>1. Layout(<<"16">>)
  BY DEF Kinds, Layout
<1>2. Layout(<<"pack">>)
  BY DEF Kinds, Layout
<1>3. Layout(<<"string">>)
  BY DEF Kinds, Layout
<1>4. Layout(<<"16", "32">>)
  BY DEF Kinds, Layout
<1>5. Layout(<<"16", "pack">>)
  BY DEF Kinds, Layout
<1>6. Layout(<<"16", "string">>)
  BY DEF Kinds, Layout
<1>7. Layout(<<"8", "16">>)
  BY DEF Kinds, Layout
<1>8. Layout(<<"string", "pack">>)
  BY DEF Kinds, Layout
<1>9. Layout(<<"16", "32", "pack">>)
  BY DEF Kinds, Layout
<1>10. Layout(<<"16", "string", "pack">>)
  BY DEF Kinds, Layout
<1>11. Layout(<<"8", "16", "pack">>)
  BY DEF Kinds, Layout
<1>12. Layout(<<>>)
  BY EmptySeq DEF Layout
<1> QED
  BY <1>1, <1>2, <1>3, <1>4, <1>5, <1>6, <1>7, <1>8, <1>9, <1>10, <1>11, <1>12

LEMMA FieldsType ==
  /\ \A type \in HelloTypes : Layout(Fields("client", type))
  /\ \A type \in ServerTypes : Layout(Fields("client", type))
  /\ \A type \in ClientTypes : Layout(Fields("server", type))
<1>1. ASSUME NEW type \in HelloTypes PROVE Layout(Fields("client", type))
  <2>1. type = 3 \/ type = 4
    BY DEF HelloTypes
  <2>2. CASE type = 3
    BY <2>2, KindsType DEF Fields, HelloTypes, HelloFields
  <2>3. CASE type = 4
    BY <2>3, KindsType DEF Fields, HelloTypes, HelloFields
  <2> QED
    BY <2>1, <2>2, <2>3
<1>2. ASSUME NEW type \in ServerTypes PROVE Layout(Fields("client", type))
  <2>0. Fields("client", type) = ServerFields(type)
    BY DEF Fields, HelloTypes, ServerTypes
  <2>1. CASE type \in {5, 6, 7}
    <3>1. ServerFields(type) = <<"16", "pack">>
      BY <2>1 DEF ServerFields
    <3> QED
      BY <2>0, <3>1, KindsType
  <2>2. CASE type = 8
    <3>1. ServerFields(type) = <<"16">>
      BY <2>2 DEF ServerFields
    <3> QED
      BY <2>0, <3>1, KindsType
  <2>3. CASE type = 10
    <3>1. ServerFields(type) = <<"16", "32", "pack">>
      BY <2>3 DEF ServerFields
    <3> QED
      BY <2>0, <3>1, KindsType
  <2>4. CASE type = 11
    <3>1. ServerFields(type) = <<"16", "32">>
      BY <2>4 DEF ServerFields
    <3> QED
      BY <2>0, <3>1, KindsType
  <2>5. CASE type = 17
    <3>1. ServerFields(type) = <<"16", "string", "pack">>
      BY <2>5 DEF ServerFields
    <3> QED
      BY <2>0, <3>1, KindsType
  <2>6. CASE type \in {51, 68}
    <3>1. ServerFields(type) = <<"string", "pack">>
      BY <2>6 DEF ServerFields
    <3> QED
      BY <2>0, <3>1, KindsType
  <2>7. CASE type = 69
    <3>1. ServerFields(type) = <<"string">>
      BY <2>7 DEF ServerFields
    <3> QED
      BY <2>0, <3>1, KindsType
  <2> QED
    BY <2>1, <2>2, <2>3, <2>4, <2>5, <2>6, <2>7 DEF ServerTypes
<1>3. ASSUME NEW type \in ClientTypes PROVE Layout(Fields("server", type))
  <2>0. Fields("server", type) = ClientFields(type)
    BY DEF Fields, ClientTypes
  <2>1. CASE type = 1
    <3>1. ClientFields(type) = <<"8", "16">>
      BY <2>1 DEF ClientFields, write_path, write_pack, write_path_pack
    <3> QED
      BY <2>0, <3>1, KindsType
  <2>2. CASE type = 2
    <3>1. ClientFields(type) = <<"8", "16", "pack">>
      BY <2>2 DEF ClientFields, write_path, write_pack, write_path_pack
    <3> QED
      BY <2>0, <3>1, KindsType
  <2>3. CASE type \in {5, 6}
    <3>1. ClientFields(type) = <<"16", "pack">>
      BY <2>3 DEF ClientFields, write_path, write_pack, write_path_pack
    <3> QED
      BY <2>0, <3>1, KindsType
  <2>4. CASE type = 9
    <3>1. ClientFields(type) = <<"16">>
      BY <2>4 DEF ClientFields, write_path, write_pack, write_path_pack
    <3> QED
      BY <2>0, <3>1, KindsType
  <2>5. CASE type \in {16, 64, 70, 66, 48, 50, 35}
    <3>1. ClientFields(type) = <<"16", "string">>
      BY <2>5 DEF ClientFields, write_path, write_pack, write_path_pack
    <3> QED
      BY <2>0, <3>1, KindsType
  <2>6. CASE type \in {17, 65, 49, 36}
    <3>1. ClientFields(type) = <<"16", "string", "pack">>
      BY <2>6 DEF ClientFields, write_path, write_pack, write_path_pack
    <3> QED
      BY <2>0, <3>1, KindsType
  <2> QED
    BY <2>1, <2>2, <2>3, <2>4, <2>5, <2>6 DEF ClientTypes
<1> QED
  BY <1>1, <1>2, <1>3

LEMMA EncodeType ==
  ASSUME NEW reader, NEW types \in SUBSET Nat, NEW m, WellFormed(reader, types, m),
         \A type \in types : Layout(Fields(reader, type))
  PROVE  encode(reader, m) \in Seq(Nat)
<1> DEFINE kinds == Fields(reader, m.type)
           parts == [i \in 1 .. Len(m.fields) |-> write_field(kinds[i], m.fields[i])]
<1>1. m.type \in Nat /\ kinds \in Seq(Kinds)
  BY DEF WellFormed, Layout
<1>2. /\ Len(kinds) \in Nat
      /\ m.fields = [i \in 1 .. Len(kinds) |-> m.fields[i]]
      /\ \A i \in 1 .. Len(kinds) : m.fields[i] \in FieldValues(kinds[i])
  BY <1>1 DEF WellFormed
<1> HIDE DEF kinds
<1>3. Len(m.fields) = Len(kinds)
  BY <1>2
<1>4. ASSUME NEW i \in 1 .. Len(kinds) PROVE write_field(kinds[i], m.fields[i]) \in Seq(Nat)
  <2>1. kinds[i] \in Kinds
    BY <1>1
  <2> QED
    BY <1>2, <2>1, FieldType
<1>5. parts \in Seq(Seq(Nat))
  BY <1>2, <1>3, <1>4
<1> HIDE DEF parts
<1>6. FlattenSeq(parts) \in Seq(Nat)
  BY <1>5, FlattenType
<1>7. <<m.type>> \in Seq(Nat)
  BY <1>1
<1>8. <<m.type>> \o FlattenSeq(parts) \in Seq(Nat)
  BY <1>6, <1>7, ConcatProperties
<1> QED
  BY <1>8 DEF encode, parts, kinds

LEMMA AllBytesType == AllBytes \subseteq Seq(Nat)
<1>1. HelloTypes \in SUBSET Nat /\ ServerTypes \in SUBSET Nat /\ ClientTypes \in SUBSET Nat
  BY DEF HelloTypes, ServerTypes, ClientTypes
<1>2. ASSUME NEW m \in Written("client") PROVE encode("client", m) \in Seq(Nat)
  <2>1. m \in ToClient \/ m \in Hellos
    BY DEF Written
  <2>2. CASE m \in ToClient
    <3>1. WellFormed("client", ServerTypes, m)
      BY <2>2, WireAssumption
    <3> QED
      BY <1>1, <3>1, FieldsType, EncodeType
  <2>3. CASE m \in Hellos
    <3>1. WellFormed("client", HelloTypes, m)
      BY <2>3, WireAssumption
    <3> QED
      BY <1>1, <3>1, FieldsType, EncodeType
  <2> QED
    BY <2>1, <2>2, <2>3
<1>3. ASSUME NEW m \in Written("server") PROVE encode("server", m) \in Seq(Nat)
  <2>1. m \in ToServer
    BY DEF Written
  <2>2. WellFormed("server", ClientTypes, m)
    BY <2>1, WireAssumption
  <2> QED
    BY <1>1, <2>2, FieldsType, EncodeType
<1>4. Malformed \subseteq Seq(Nat)
  BY WireAssumption
<1> QED
  BY <1>2, <1>3, <1>4 DEF AllBytes

-----------------------------------------------------------------------------
(* A step of the connection is one of its framing, or leaves that alone.   *)
FramingStep ==
  \/ \E m \in AllBytes : send(m)
  \/ \E n \in 1 .. Len(wire) : push(n)
  \/ reading /\ (read_message \/ read_error \/ read_nothing)
  \/ reconnect
  \/ UNCHANGED framingVars

WireInv ==
  /\ FramingInv
  /\ receiver \in {"client", "server"}
  /\ ~(reading /\ failed)

LEMMA EveryStepIsFraming ==
  ASSUME receiver \in {"client", "server"}, [Next]_vars
  PROVE  FramingStep /\ receiver' = receiver
<1>1. CASE transmit
  <2>1. receiver' = receiver
    BY <1>1 DEF transmit
  <2>2. CASE \E m \in MayBeSent : send(encode(receiver, m))
    <3>1. PICK m \in MayBeSent : send(encode(receiver, m))
      BY <2>2
    <3>2. m \in Written(receiver)
      BY DEF MayBeSent, Written
    <3>3. encode(receiver, m) \in AllBytes
      <4>1. CASE receiver = "client"
        BY <3>2, <4>1 DEF AllBytes
      <4>2. CASE receiver = "server"
        BY <3>2, <4>2 DEF AllBytes
      <4> QED
        BY <4>1, <4>2
    <3> QED
      BY <2>1, <3>1, <3>3 DEF FramingStep
  <2>3. CASE \E bytes \in Malformed : send(bytes)
    BY <2>1, <2>3 DEF AllBytes, FramingStep
  <2> QED
    BY <1>1, <2>2, <2>3 DEF transmit
<1>2. CASE receive
  BY <1>2 DEF receive, FramingStep
<1>3. CASE unpack
  BY <1>3 DEF unpack, FramingStep
<1>4. CASE parse
  BY <1>4 DEF parse, FramingStep
<1>5. CASE connect_again
  BY <1>5 DEF connect_again, FramingStep
<1>6. CASE UNCHANGED vars
  BY <1>6 DEF vars, FramingStep
<1> QED
  BY <1>1, <1>2, <1>3, <1>4, <1>5, <1>6 DEF Next

LEMMA WireStep ==
  ASSUME WireInv, ~Torn, [Next]_vars
  PROVE  WireInv'
<1>1. FramingStep /\ receiver' = receiver
  BY EveryStepIsFraming DEF WireInv
<1>2. ~(reading /\ failed)'
  BY <1>1 DEF WireInv, FramingStep, send, push, read_message, read_error, read_nothing,
              reconnect, framingVars
<1>3. FramingInv'
  <2>1. FramingInv
    BY DEF WireInv
  <2>2. ASSUME NEW m \in AllBytes, send(m) PROVE FramingInv'
    <3>1. m \in Seq(Nat)
      BY AllBytesType
    <3> QED
      BY <2>1, <2>2, <3>1, SendKeeps
  <2>3. ASSUME NEW n \in 1 .. Len(wire), push(n) PROVE FramingInv'
    BY <2>1, <2>3, PushKeeps
  <2>4. CASE reading /\ (read_message \/ read_error \/ read_nothing)
    <3>1. ~failed
      BY <2>4 DEF WireInv
    <3> QED
      BY <2>1, <2>4, <3>1, ReadKeeps
  <2>5. CASE reconnect
    BY <2>1, <2>5, ReconnectKeeps
  <2>6. CASE UNCHANGED framingVars
    BY <2>1, <2>6 DEF framingVars, FramingInv, FramingType, AllFit, NoByteLost,
                      OnlySpoiledFails, frames
  <2> QED
    BY <1>1, <2>2, <2>3, <2>4, <2>5, <2>6 DEF FramingStep
<1> QED
  BY <1>1, <1>2, <1>3 DEF WireInv

LEMMA WireStarts == Init => WireInv
<1> SUFFICES ASSUME Init PROVE WireInv
  OBVIOUS
<1>1. /\ wire = <<>> /\ buffer = <<>> /\ reading = FALSE /\ failed = FALSE
      /\ queue = <<>> /\ message = <<>> /\ spoiled = FALSE
      /\ receiver \in {"client", "server"}
  BY DEF Init, FramingInit
<1>2. <<>> \in Seq(Nat) /\ <<>> \in Seq(Seq(Nat)) /\ Len(<<>>) = 0
  BY EmptySeq
<1>3. FramingType
  BY <1>1, <1>2 DEF FramingType
<1>4. AllFit
  BY <1>1, <1>2 DEF AllFit
<1>5. NoByteLost
  <2>1. <<>> \o <<>> = <<>>
    BY <1>2, ConcatEmptySeq
  <2> QED
    BY <1>1, <2>1, FramesOfNone DEF NoByteLost
<1> QED
  BY <1>1, <1>3, <1>4, <1>5 DEF WireInv, FramingInv, OnlySpoiledFails

LEMMA WireInvariant == ASSUME ~Torn PROVE Spec => []WireInv
<1>1. WireInv /\ [Next]_vars => WireInv'
  BY WireStep
<1> QED
  BY <1>1, WireStarts, PTL DEF Spec

(* Whatever messages are sent and however the stream is cut into chunks,   *)
(* the bytes received and not understood are with those on the way exactly *)
(* the frames that are still to be received, on a client whose connections *)
(* do not break inside a frame.                                            *)
THEOREM StreamKeepsEveryByte == ASSUME ~Torn PROVE Spec => []NoByteLost
<1>1. WireInv => NoByteLost
  BY DEF WireInv, FramingInv
<1> QED
  BY <1>1, WireInvariant, PTL

(* Unpacker throws only after a frame that is not as long as it says.      *)
THEOREM UnpackerAcceptsFrames == ASSUME ~Torn PROVE Spec => []OnlySpoiledFails
<1>1. WireInv => OnlySpoiledFails
  BY DEF WireInv, FramingInv
<1> QED
  BY <1>1, WireInvariant, PTL

(* The framing implements the queue of messages that the rest of the       *)
(* client takes a connection to be.                                        *)
LEMMA StepIsFifo ==
  ASSUME WireInv, ~Torn, [Next]_vars
  PROVE  [Fifo!Next]_<<queue, message, ~spoiled>>
<1> DEFINE Same == UNCHANGED <<queue, message, ~spoiled>>
<1>0. FramingInv /\ spoiled \in BOOLEAN /\ ~(reading /\ failed)
  BY DEF WireInv, FramingInv, FramingType
<1>1. FramingStep
  BY EveryStepIsFraming DEF WireInv
<1>2. ASSUME NEW m \in AllBytes, send(m) PROVE Fifo!Next
  <2>1. queue' = Append(queue, m) /\ message' = message
    BY <1>2 DEF send
  <2>2. CASE spoiled' = spoiled
    <3>1. Fifo!Send(m)
      BY <2>1, <2>2 DEF Fifo!Send
    <3> QED
      BY <3>1 DEF Fifo!Next
  <2>3. CASE spoiled' # spoiled
    <3>1. spoiled' = TRUE
      BY <1>0, <1>2, <2>3 DEF send, Fits
    <3> QED
      BY <3>1 DEF Fifo!Next, Fifo!GoWrong
  <2> QED
    BY <2>2, <2>3
<1>3. ASSUME NEW n \in 1 .. Len(wire), push(n) PROVE Same
  BY <1>3 DEF push
<1>4. CASE reading /\ read_message
  <2>1. CASE spoiled
    <3>1. spoiled' = TRUE
      BY <1>0, <1>4, <2>1 DEF read_message
    <3> QED
      BY <3>1 DEF Fifo!Next, Fifo!GoWrong
  <2>2. CASE ~spoiled
    <3>1. queue # <<>> /\ message' = Head(queue) /\ queue' = Tail(queue)
      BY <1>0, <1>4, <2>2, ReadsTheNext
    <3>2. spoiled' = spoiled
      BY <1>4 DEF read_message
    <3> QED
      BY <3>1, <3>2 DEF Fifo!Next, Fifo!Receive
  <2> QED
    BY <2>1, <2>2
<1>5. CASE reading /\ read_error
  BY <1>5 DEF read_error
<1>6. CASE reading /\ read_nothing
  BY <1>6 DEF read_nothing, Fifo!Next, Fifo!Done
<1>7. CASE reconnect
  BY <1>7 DEF reconnect, Fifo!Next, Fifo!Reconnect
<1>8. CASE UNCHANGED framingVars
  BY <1>8 DEF framingVars
<1> QED
  BY <1>1, <1>2, <1>3, <1>4, <1>5, <1>6, <1>7, <1>8 DEF FramingStep

(* However the stream is cut into chunks, messages come out of Unpacker    *)
(* whole, once each and in order, until one is sent that does not fit into *)
(* a frame or not sent whole.                                              *)
THEOREM MessagesComeOutWhole == ASSUME ~Torn PROVE Spec => CompleteMessages
<1>1. Init => Fifo!Init
  BY DEF Init, FramingInit, Fifo!Init
<1>2. WireInv /\ [Next]_vars => [Fifo!Next]_<<queue, message, ~spoiled>>
  BY StepIsFifo
<1>3. Spec => []WireInv
  BY WireInvariant
<1> QED
  BY <1>1, <1>2, <1>3, PTL DEF Spec, CompleteMessages, Fifo!Spec

-----------------------------------------------------------------------------
(* The fields of a message, one after another.                             *)
Fieldwise(kinds, xs) == [i \in 1 .. Len(xs) |-> write_field(kinds[i], xs[i])]
Encoded(kinds, xs) == FlattenSeq(Fieldwise(kinds, xs))

(* Values that a message with fields of these kinds may hold.              *)
Held == UNION {FieldValues(kind) : kind \in Kinds}
Fitting(kinds, xs) ==
  /\ kinds \in Seq(Kinds) /\ xs \in Seq(Held) /\ Len(xs) = Len(kinds)
  /\ \A i \in 1 .. Len(kinds) : xs[i] \in FieldValues(kinds[i])

LEMMA FieldwiseType ==
  ASSUME NEW kinds, NEW xs, Fitting(kinds, xs)
  PROVE  /\ Fieldwise(kinds, xs) \in Seq(Seq(Nat))
         /\ Len(Fieldwise(kinds, xs)) = Len(kinds)
         /\ Encoded(kinds, xs) \in Seq(Nat)
<1>1. /\ kinds \in Seq(Kinds) /\ Len(xs) = Len(kinds) /\ Len(kinds) \in Nat
      /\ \A i \in 1 .. Len(kinds) : xs[i] \in FieldValues(kinds[i])
  BY DEF Fitting
<1>2. ASSUME NEW i \in 1 .. Len(kinds) PROVE write_field(kinds[i], xs[i]) \in Seq(Nat)
  <2>1. kinds[i] \in Kinds /\ xs[i] \in FieldValues(kinds[i])
    BY <1>1
  <2> QED
    BY <2>1, FieldType
<1>3. /\ Fieldwise(kinds, xs) \in Seq(Seq(Nat))
      /\ Len(Fieldwise(kinds, xs)) = Len(kinds)
  BY <1>1, <1>2 DEF Fieldwise
<1>4. Encoded(kinds, xs) \in Seq(Nat)
  BY <1>3, FlattenType DEF Encoded
<1> QED
  BY <1>3, <1>4

LEMMA EncodedNone ==
  ASSUME NEW xs, Fitting(<<>>, xs)
  PROVE  xs = <<>> /\ Encoded(<<>>, xs) = <<>>
<1>1. xs \in Seq(Held) /\ Len(xs) = 0
  BY EmptySeq DEF Fitting
<1>2. xs = <<>>
  BY <1>1, EmptySeq
<1>3. Len(Fieldwise(<<>>, xs)) = 0
  BY <1>2 DEF Fieldwise
<1> QED
  BY <1>2, <1>3 DEF Encoded, FlattenSeq

(* The first field comes first, and the rest are the fields of the rest.   *)
LEMMA EncodedFirst ==
  ASSUME NEW kinds, NEW xs, Fitting(kinds, xs), kinds # <<>>
  PROVE  /\ Fitting(Tail(kinds), Tail(xs))
         /\ Head(kinds) \in Kinds
         /\ Head(xs) \in FieldValues(Head(kinds)) /\ Head(xs) \in Held
         /\ Encoded(kinds, xs) =
              write_field(Head(kinds), Head(xs)) \o Encoded(Tail(kinds), Tail(xs))
<1> DEFINE n == Len(kinds)
           k == Tail(kinds)
           x == Tail(xs)
<1>1. /\ kinds \in Seq(Kinds) /\ xs \in Seq(Held) /\ Len(xs) = n /\ n \in Nat \ {0}
      /\ \A i \in 1 .. n : xs[i] \in FieldValues(kinds[i])
  BY EmptySeq DEF Fitting
<1>2. xs # <<>>
  BY <1>1, EmptySeq
<1>3. /\ k \in Seq(Kinds) /\ Len(k) = n - 1
      /\ \A i \in 1 .. Len(k) : k[i] = kinds[i + 1]
      /\ Head(kinds) \in Kinds /\ Head(kinds) = kinds[1]
  BY <1>1, HeadTailProperties
<1>4. /\ x \in Seq(Held) /\ Len(x) = n - 1
      /\ \A i \in 1 .. Len(x) : x[i] = xs[i + 1]
      /\ Head(xs) \in Held /\ Head(xs) = xs[1]
  BY <1>1, <1>2, HeadTailProperties
<1> HIDE DEF n, k, x
<1>5. Fitting(k, x)
  <2>1. ASSUME NEW i \in 1 .. Len(k) PROVE x[i] \in FieldValues(k[i])
    <3>1. i + 1 \in 1 .. n /\ i \in 1 .. Len(x)
      BY <1>1, <1>3, <1>4
    <3> QED
      BY <1>1, <1>3, <1>4, <3>1
  <2> QED
    BY <1>3, <1>4, <2>1 DEF Fitting
<1>6. Head(xs) \in FieldValues(Head(kinds))
  <2>1. 1 \in 1 .. n
    BY <1>1
  <2> QED
    BY <1>1, <1>3, <1>4, <2>1
<1>7. /\ Fieldwise(kinds, xs) \in Seq(Seq(Nat)) /\ Len(Fieldwise(kinds, xs)) = n
      /\ Fieldwise(k, x) \in Seq(Seq(Nat)) /\ Len(Fieldwise(k, x)) = n - 1
  BY <1>3, <1>5, FieldwiseType DEF n
<1>8. Fieldwise(kinds, xs) # <<>>
  BY <1>1, <1>7, EmptySeq
<1>9. Head(Fieldwise(kinds, xs)) = write_field(Head(kinds), Head(xs))
  <2>1. Head(Fieldwise(kinds, xs)) = Fieldwise(kinds, xs)[1]
    BY <1>7, <1>8
  <2>2. Fieldwise(kinds, xs)[1] = write_field(kinds[1], xs[1])
    BY <1>1 DEF Fieldwise
  <2> QED
    BY <1>3, <1>4, <2>1, <2>2
<1>10. Tail(Fieldwise(kinds, xs)) = Fieldwise(k, x)
  <2> DEFINE t == Tail(Fieldwise(kinds, xs))
  <2>1. /\ t \in Seq(Seq(Nat)) /\ Len(t) = n - 1
        /\ \A i \in 1 .. Len(t) : t[i] = Fieldwise(kinds, xs)[i + 1]
    BY <1>7, <1>8, HeadTailProperties
  <2> HIDE DEF t
  <2>2. ASSUME NEW i \in 1 .. n - 1 PROVE t[i] = Fieldwise(k, x)[i]
    <3>1. i + 1 \in 1 .. n
      BY <1>1
    <3>2. Fieldwise(kinds, xs)[i + 1] = write_field(kinds[i + 1], xs[i + 1])
      BY <1>1, <3>1 DEF Fieldwise
    <3>3. Fieldwise(k, x)[i] = write_field(k[i], x[i])
      BY <1>4 DEF Fieldwise
    <3>4. k[i] = kinds[i + 1] /\ x[i] = xs[i + 1]
      BY <1>3, <1>4
    <3> QED
      BY <2>1, <3>2, <3>3, <3>4
  <2>3. t = Fieldwise(k, x)
    BY <1>7, <2>1, <2>2, SeqEqual
  <2> QED
    BY <2>3 DEF t
<1>11. FlattenSeq(Fieldwise(kinds, xs))
         = Head(Fieldwise(kinds, xs)) \o FlattenSeq(Tail(Fieldwise(kinds, xs)))
  BY <1>7, <1>8, FlattenTail
<1> QED
  BY <1>3, <1>4, <1>5, <1>6, <1>9, <1>10, <1>11 DEF Encoded, k, x

(* What is left of a sequence after p, when it is w and then r.            *)
After(s, p) == SubSeq(s, p + 1, Len(s))
Follow(s, p, w, r) ==
  /\ p + Len(w) + Len(r) = Len(s)
  /\ \A i \in 1 .. Len(w) : s[p + i] = w[i]
  /\ After(s, p + Len(w)) = r

LEMMA LeftOver ==
  ASSUME NEW s \in Seq(Nat), NEW p \in Nat, p <= Len(s),
         NEW w \in Seq(Nat), NEW r \in Seq(Nat), After(s, p) = w \o r
  PROVE  Follow(s, p, w, r)
<1> DEFINE n == Len(s) - p
           u == SubSeq(s, p + 1, p + n)
<1>1. p \in Nat /\ n \in Nat /\ p + n = Len(s) /\ Len(w) \in Nat /\ Len(r) \in Nat
  OBVIOUS
<1> HIDE DEF n
<1>2. Len(u) = n /\ \A i \in 1 .. n : u[i] = s[p + i]
  <2>1. p + n <= Len(s)
    BY <1>1
  <2> QED
    BY <1>1, <2>1, PartOf
<1>3. u = w \o r
  BY <1>1 DEF After
<1> HIDE DEF u
<1>4. /\ Len(w \o r) = Len(w) + Len(r)
      /\ \A i \in 1 .. Len(w) + Len(r) :
           (w \o r)[i] = IF i <= Len(w) THEN w[i] ELSE r[i - Len(w)]
  BY ConcatProperties
<1>5. n = Len(w) + Len(r)
  BY <1>2, <1>3, <1>4
<1>6. ASSUME NEW i \in 1 .. Len(w) PROVE s[p + i] = w[i]
  <2>1. i \in 1 .. Len(w) + Len(r) /\ i <= Len(w) /\ i \in 1 .. n
    BY <1>1, <1>5
  <2>2. (w \o r)[i] = w[i]
    BY <1>4, <2>1
  <2> QED
    BY <1>2, <1>3, <2>1, <2>2
<1> DEFINE m == p + Len(w)
<1>7. ASSUME NEW i \in 1 .. Len(r) PROVE s[m + i] = r[i]
  <2> DEFINE j == Len(w) + i
  <2>0. i \in Nat \ {0} /\ i <= Len(r) /\ j \in Nat
    BY <1>1
  <2>1. j \in 1 .. Len(w) + Len(r) /\ ~(j <= Len(w)) /\ j \in 1 .. n /\ j - Len(w) = i
        /\ p + j = m + i
    BY <1>1, <1>5, <2>0
  <2> HIDE DEF j, m
  <2>2. (w \o r)[j] = r[i]
    BY <1>4, <2>1
  <2> QED
    BY <1>2, <1>3, <2>1, <2>2
<1>8. m \in Nat /\ m + Len(r) = Len(s)
  BY <1>1, <1>5
<1> HIDE DEF m
<1>9. SubSeq(s, m + 1, m + Len(r)) = r
  <2>1. m + Len(r) <= Len(s)
    BY <1>8
  <2> QED
    BY <1>7, <1>8, <2>1, IsPart
<1> QED
  BY <1>6, <1>8, <1>9 DEF m, After, Follow

-----------------------------------------------------------------------------
(* Messages that the reader at this end is about to be sent.               *)
Awaited ==
  IF receiver = "server" THEN ToServer ELSE IF greeted THEN ToClient ELSE Hellos

LEMMA AwaitedFacts ==
  ASSUME receiver \in {"client", "server"}, NEW m \in Awaited
  PROVE  /\ m \in Written(receiver) /\ m.type \in Nat /\ m.type \in Readable
         /\ m = [type |-> m.type, fields |-> m.fields]
         /\ Layout(Fields(receiver, m.type))
         /\ Fitting(Fields(receiver, m.type), m.fields)
<1>1. PICK types \in {HelloTypes, ServerTypes, ClientTypes} :
        /\ WellFormed(receiver, types, m) /\ m \in Written(receiver) /\ types = Readable
        /\ \A type \in types : Layout(Fields(receiver, type))
  <2>1. CASE receiver = "server"
    BY <2>1, WireAssumption, FieldsType DEF Awaited, Written, Readable
  <2>2. CASE receiver = "client" /\ greeted
    BY <2>2, WireAssumption, FieldsType DEF Awaited, Written, Readable
  <2>3. CASE receiver = "client" /\ ~greeted
    BY <2>3, WireAssumption, FieldsType DEF Awaited, Written, Readable
  <2> QED
    BY <2>1, <2>2, <2>3
<1> DEFINE kinds == Fields(receiver, m.type)
<1>2. /\ m = [type |-> m.type, fields |-> m.fields] /\ m.type \in types
      /\ m.fields = [i \in 1 .. Len(kinds) |-> m.fields[i]]
      /\ \A i \in 1 .. Len(kinds) : m.fields[i] \in FieldValues(kinds[i])
  BY <1>1 DEF WellFormed
<1>3. m.type \in Nat
  <2>1. types \subseteq Nat
    BY DEF HelloTypes, ServerTypes, ClientTypes
  <2> QED
    BY <1>2, <2>1
<1>4. Layout(kinds)
  BY <1>1, <1>2
<1>5. Fitting(kinds, m.fields)
  <2> HIDE DEF kinds
  <2> DEFINE f == m.fields
  <2>1. kinds \in Seq(Kinds) /\ Len(kinds) \in Nat
    BY <1>4 DEF Layout
  <2>2. f = [i \in 1 .. Len(kinds) |-> f[i]]
        /\ \A i \in 1 .. Len(kinds) : f[i] \in FieldValues(kinds[i])
    BY <1>2
  <2> HIDE DEF f
  <2>3. ASSUME NEW i \in 1 .. Len(kinds) PROVE f[i] \in Held
    BY <2>1, <2>2 DEF Held
  <2>4. f \in Seq(Held) /\ Len(f) = Len(kinds)
    BY <2>1, <2>2, <2>3
  <2>5. Fitting(kinds, f)
    BY <2>1, <2>2, <2>4 DEF Fitting
  <2> QED
    BY <2>5 DEF f
<1> QED
  BY <1>1, <1>2, <1>3, <1>4, <1>5

(* Of a message the values in left are still to be read, and what is left  *)
(* of its bytes are theirs.                                                *)
Halfway(m, left) ==
  /\ message = encode(receiver, m)
  /\ data \in Seq(Nat) /\ Len(data) < SizeMod /\ pos \in 0 .. Len(data)
  /\ Layout(todo) /\ Fitting(todo, left)
  /\ got \in Seq(Held) /\ got \o left = m.fields
  /\ After(data, pos) = Encoded(todo, left)

(* The bytes of a message are its type and its fields.                     *)
LEMMA EncodedParts ==
  ASSUME receiver \in {"client", "server"}, NEW m \in Awaited
  PROVE  /\ encode(receiver, m) \in Seq(Nat) /\ encode(receiver, m) # <<>>
         /\ Head(encode(receiver, m)) = m.type
         /\ Tail(encode(receiver, m)) = Encoded(Fields(receiver, m.type), m.fields)
<1> DEFINE t == m.type
           e == Encoded(Fields(receiver, m.type), m.fields)
           s == <<t>>
<1>1. t \in Nat /\ e \in Seq(Nat)
  BY AwaitedFacts, FieldwiseType
<1>2. encode(receiver, m) = s \o e
  BY DEF encode, Encoded, Fieldwise
<1> HIDE DEF t, e
<1>3. s \in Seq(Nat) /\ Len(s) = 1 /\ s[1] = t
  BY <1>1
<1> HIDE DEF s
<1> DEFINE u == s \o e
<1>4. /\ u \in Seq(Nat) /\ Len(u) = 1 + Len(e)
      /\ \A i \in 1 .. 1 + Len(e) : u[i] = IF i <= 1 THEN s[i] ELSE e[i - 1]
  <2>1. /\ u \in Seq(Nat) /\ Len(u) = Len(s) + Len(e)
        /\ \A i \in 1 .. Len(s) + Len(e) : u[i] = IF i <= Len(s) THEN s[i] ELSE e[i - Len(s)]
    BY <1>1, <1>3, ConcatProperties
  <2> QED
    BY <1>3, <2>1
<1> HIDE DEF u
<1>5. Len(e) \in Nat
  BY <1>1
<1>6. u # <<>>
  BY <1>4, <1>5, EmptySeq
<1>7. Head(u) = t
  <2>1. u[1] = s[1]
    BY <1>4, <1>5
  <2> QED
    BY <1>3, <1>4, <1>6, <2>1
<1>8. Tail(u) = e
  <2> DEFINE v == Tail(u)
  <2>1. /\ v \in Seq(Nat) /\ Len(v) = Len(u) - 1
        /\ \A i \in 1 .. Len(v) : v[i] = u[i + 1]
    BY <1>4, <1>6, HeadTailProperties
  <2> HIDE DEF v
  <2>2. Len(v) = Len(e)
    BY <1>4, <1>5, <2>1
  <2>3. ASSUME NEW i \in 1 .. Len(v) PROVE v[i] = e[i]
    <3>1. i + 1 \in 1 .. 1 + Len(e) /\ ~(i + 1 <= 1) /\ (i + 1) - 1 = i
      BY <1>5, <2>2
    <3> QED
      BY <1>4, <2>1, <3>1
  <2>4. v = e
    BY <1>1, <2>1, <2>2, <2>3, SeqEqual
  <2> QED
    BY <2>4 DEF v
<1> QED
  BY <1>2, <1>4, <1>6, <1>7, <1>8 DEF u, t, e

LEMMA BeginsHalfway ==
  ASSUME receiver \in {"client", "server"}, NEW m \in Awaited,
         message' = encode(receiver, m), Fits(message'), receiver' = receiver,
         begin(Tail(message'), Fields(receiver, Head(message')))
  PROVE  Halfway(m, m.fields)'
<1> DEFINE kinds == Fields(receiver, m.type)
           e == Encoded(kinds, m.fields)
<1>1. /\ message' \in Seq(Nat) /\ message' # <<>>
      /\ Head(message') = m.type /\ Tail(message') = e
  BY EncodedParts
<1>2. Layout(kinds) /\ Fitting(kinds, m.fields) /\ e \in Seq(Nat)
  BY AwaitedFacts, FieldwiseType
<1>3. data' = e /\ pos' = 0 /\ todo' = kinds /\ got' = <<>>
  BY <1>1 DEF begin
<1>4. Len(e) < SizeMod
  <2>1. Len(message') \in Nat \ {0} /\ Len(message') < Base * Base
    BY <1>1, EmptySeq DEF Fits
  <2>2. Len(e) = Len(message') - 1
    BY <1>1, HeadTailProperties
  <2> QED
    BY <2>1, <2>2, WireAssumption, BytesAssumption, ParserAssumption
<1> HIDE DEF kinds, e
<1>5. After(e, 0) = e
  BY <1>2, SubSeqFull DEF After
<1>6. <<>> \o m.fields = m.fields /\ <<>> \in Seq(Held)
  <2>1. m.fields \in Seq(Held)
    BY <1>2 DEF Fitting
  <2> QED
    BY <2>1, ConcatEmptySeq, EmptySeq
<1>7. Len(e) \in Nat /\ 0 \in 0 .. Len(e)
  BY <1>2
<1>8. Encoded(todo', m.fields) = e
  BY <1>3 DEF e
<1>9. message' = encode(receiver', m)
  OBVIOUS
<1> QED
  BY <1>2, <1>3, <1>4, <1>5, <1>6, <1>7, <1>8, <1>9
     DEF Halfway, After, Encoded, Fieldwise, Fitting, Layout, encode, Fields

(* A value of a message moves from those to be read to those that were.    *)
LEMMA OneRead ==
  ASSUME NEW S, NEW g \in Seq(S), NEW h \in S, NEW t \in Seq(S)
  PROVE  Append(g, h) \o t = g \o (<<h>> \o t)
<1> DEFINE s == <<h>>
<1>1. s \in Seq(S) /\ Append(g, h) = g \o s
  BY AppendIsConcat
<1> HIDE DEF s
<1>2. (g \o s) \o t = g \o (s \o t)
  BY <1>1, ConcatAssociative
<1> QED
  BY <1>1, <1>2 DEF s

LEMMA HeadThenTail ==
  ASSUME NEW S, NEW s \in Seq(S), s # <<>>
  PROVE  <<Head(s)>> \o Tail(s) = s
<1>1. Len(s) \in Nat \ {0} /\ Head(s) = s[1]
  BY EmptySeq
<1>2. 1 \in 1 .. Len(s) /\ Len(s) \in 1 .. Len(s) /\ 1 + 1 = 2
  BY <1>1
<1>3. SubSeq(s, 1, Len(s)) = <<s[1]>> \o SubSeq(s, 1 + 1, Len(s))
  BY <1>2, SubSeqRecursiveFirst
<1>4. SubSeq(s, 1, Len(s)) = s /\ Tail(s) = SubSeq(s, 2, Len(s))
  BY SubSeqFull, TailIsSubSeq
<1> QED
  BY <1>1, <1>2, <1>3, <1>4

LEMMA LayoutTail ==
  ASSUME NEW kinds, Layout(kinds), kinds # <<>>
  PROVE  Layout(Tail(kinds)) /\ (Head(kinds) = "pack" => Tail(kinds) = <<>>)
<1> DEFINE n == Len(kinds)
           k == Tail(kinds)
<1>1. /\ kinds \in Seq(Kinds) /\ n \in Nat \ {0} /\ Head(kinds) = kinds[1]
      /\ \A i \in 1 .. n - 1 : kinds[i] # "pack"
  BY EmptySeq DEF Layout
<1>2. k \in Seq(Kinds) /\ Len(k) = n - 1 /\ \A i \in 1 .. Len(k) : k[i] = kinds[i + 1]
  BY <1>1, HeadTailProperties
<1> HIDE DEF n, k
<1>3. Layout(k)
  <2>1. ASSUME NEW i \in 1 .. Len(k) - 1 PROVE k[i] # "pack"
    <3>1. i \in 1 .. Len(k) /\ i + 1 \in 1 .. n - 1
      BY <1>1, <1>2
    <3> QED
      BY <1>1, <1>2, <3>1
  <2> QED
    BY <1>2, <2>1 DEF Layout
<1>4. ASSUME Head(kinds) = "pack" PROVE k = <<>>
  <2>1. n = 1
    <3>1. ASSUME n # 1 PROVE FALSE
      <4>1. 1 \in 1 .. n - 1
        BY <1>1, <3>1
      <4> QED
        BY <1>1, <1>4, <4>1
    <3> QED
      BY <3>1
  <2>2. Len(k) = 0
    BY <1>2, <2>1
  <2> QED
    BY <1>2, <2>2, EmptySeq
<1> QED
  BY <1>3, <1>4 DEF k

LEMMA DataStays == read_field => UNCHANGED data
BY DEF read_field, read8, read16, read32, read_string, read_msgpack, check_empty, advance, throw

(* Each field is read as it was written, and the rest is as before.        *)
LEMMA ReadsOn ==
  ASSUME NEW m \in Awaited, NEW left, Halfway(m, left), todo # <<>>,
         outcome = "parsing", read_field,
         UNCHANGED <<message, receiver>>
  PROVE  Halfway(m, Tail(left))' /\ outcome' = "parsing"
<1> DEFINE kind == Head(todo)
           x == Head(left)
           w == write_field(kind, x)
           r == Encoded(Tail(todo), Tail(left))
<1>1. /\ data \in Seq(Nat) /\ Len(data) < SizeMod /\ pos \in 0 .. Len(data)
      /\ Layout(todo) /\ Fitting(todo, left)
      /\ got \in Seq(Held) /\ got \o left = m.fields
      /\ message = encode(receiver, m)
      /\ After(data, pos) = Encoded(todo, left)
  BY DEF Halfway
<1>2. /\ Fitting(Tail(todo), Tail(left)) /\ kind \in Kinds
      /\ x \in FieldValues(kind) /\ x \in Held
      /\ Encoded(todo, left) = w \o r
  BY <1>1, EncodedFirst
<1>3. w \in Seq(Nat) /\ r \in Seq(Nat)
  BY <1>2, FieldType, FieldwiseType
<1>4. Layout(Tail(todo)) /\ (kind = "pack" => Tail(todo) = <<>>)
  BY <1>1, LayoutTail
<1>5. /\ pos + Len(w) + Len(r) = Len(data)
      /\ \A i \in 1 .. Len(w) : data[pos + i] = w[i]
      /\ After(data, pos + Len(w)) = r
  <2>1. After(data, pos) = w \o r
    BY <1>1, <1>2
  <2>2. data \in Seq(Nat) /\ pos \in Nat /\ pos <= Len(data)
    BY <1>1
  <2> DEFINE s == data
             p == pos
  <2> HIDE DEF w, r
  <2>3. s \in Seq(Nat) /\ p \in Nat /\ p <= Len(s) /\ After(s, p) = w \o r
    BY <2>1, <2>2
  <2>5. w \in Seq(Nat) /\ r \in Seq(Nat)
    BY <1>3
  <2> HIDE DEF s, p
  <2>4. Follow(s, p, w, r)
    BY <2>3, <2>5, LeftOver
  <2> QED
    BY <2>4 DEF Follow, s, p
<1>6. Called
  BY <1>1 DEF Called, Inside, TypeOK, NoOverread, Layout
<1>7. Next_in_message(w)
  <2> HIDE DEF w, r
  <2>1. Len(w) \in Nat /\ Len(r) \in Nat /\ Len(data) \in Nat
    BY <1>1, <1>3
  <2>2. Len(w) <= Len(data) - pos
    BY <1>1, <1>5, <2>1
  <2> QED
    BY <1>5, <2>2 DEF Next_in_message, size
<1>8. /\ got' = Append(got, x) /\ todo' = Tail(todo) /\ outcome' = outcome
      /\ pos' = IF kind = "pack" THEN Len(data) ELSE pos + Len(w)
  <2> HIDE DEF x, kind
  <2> QED
    BY <1>2, <1>6, <1>7, FieldsReadBack DEF w, kind
<1>9. data' = data
  BY DataStays
<1>10. got' \in Seq(Held) /\ got' \o Tail(left) = m.fields
  <2>1. left \in Seq(Held) /\ left # <<>>
    <3>1. left \in Seq(Held) /\ Len(left) = Len(todo) /\ todo \in Seq(Kinds)
      BY <1>1 DEF Fitting
    <3>2. Len(todo) # 0
      BY <3>1, EmptySeq
    <3> QED
      BY <3>1, <3>2, EmptySeq
  <2>2. Tail(left) \in Seq(Held)
    BY <2>1, HeadTailProperties
  <2>3. Append(got, x) \in Seq(Held)
    BY <1>1, <1>2, AppendProperties
  <2> DEFINE t == Tail(left)
  <2>4. <<x>> \o t = left
    BY <2>1, HeadThenTail
  <2> HIDE DEF t, x
  <2>5. Append(got, x) \o t = got \o (<<x>> \o t)
    <3>1. t \in Seq(Held) /\ x \in Held /\ got \in Seq(Held)
      BY <1>1, <1>2, <2>2 DEF t
    <3> QED
      BY <3>1, OneRead
  <2> QED
    BY <1>1, <1>8, <2>3, <2>4, <2>5 DEF t
<1>11. pos' \in 0 .. Len(data) /\ After(data, pos') = r
  <2> HIDE DEF w, x
  <2>1. CASE kind = "pack"
    <3>1. Tail(todo) = <<>>
      BY <1>4, <2>1
    <3>2. r = <<>>
      BY <1>2, <3>1, EncodedNone
    <3>3. pos' = Len(data) /\ Len(data) \in Nat
      BY <1>1, <1>8, <2>1
    <3>4. After(data, Len(data)) = <<>>
      BY <3>3, SubSeqEmpty DEF After
    <3> HIDE DEF r
    <3>5. pos' \in 0 .. Len(data)
      BY <3>3
    <3> QED
      BY <3>2, <3>3, <3>4, <3>5
  <2>2. CASE kind # "pack"
    <3> HIDE DEF r
    <3>1. pos' = pos + Len(w)
      BY <1>8, <2>2
    <3>2. Len(w) \in Nat /\ Len(r) \in Nat /\ Len(data) \in Nat
      BY <1>1, <1>3
    <3> QED
      BY <1>1, <1>5, <3>1, <3>2
  <2> QED
    BY <2>1, <2>2
<1>12. message' = encode(receiver', m)
  BY <1>1
<1>13. Encoded(todo', Tail(left)) = r
  BY <1>8
<1> HIDE DEF r, w, x, kind
<1>14. Fitting(todo', Tail(left)) /\ Layout(todo')
  BY <1>2, <1>4, <1>8
<1> QED
  BY <1>1, <1>8, <1>9, <1>10, <1>11, <1>12, <1>13, <1>14
     DEF Halfway, After, Encoded, Fieldwise, Fitting, Layout, encode, Fields

(* At the end the message is accepted, and was understood.                 *)
LEMMA ReadsAll ==
  ASSUME receiver \in {"client", "server"},
         NEW m \in Awaited, NEW left, Halfway(m, left), todo = <<>>,
         outcome = "parsing", read_field
  PROVE  outcome' = "accepted" /\ UNCHANGED got /\ Understood = m
<1>1. check_empty
  BY DEF read_field, Reads, read8, read16, read32, read_string, read_msgpack
<1>2. /\ data \in Seq(Nat) /\ pos \in 0 .. Len(data) /\ Fitting(<<>>, left)
      /\ got \in Seq(Held) /\ got \o left = m.fields
      /\ message = encode(receiver, m)
      /\ After(data, pos) = Encoded(<<>>, left)
  BY DEF Halfway
<1>3. left = <<>> /\ After(data, pos) = <<>>
  BY <1>2, EncodedNone
<1>4. got = m.fields
  BY <1>2, <1>3, ConcatEmptySeq
<1>5. pos = Len(data)
  <2>1. Len(data) \in Nat /\ pos \in Nat
    BY <1>2
  <2> DEFINE n == Len(data) - pos
  <2>2. n \in Nat /\ pos + n = Len(data)
    BY <1>2, <2>1
  <2> HIDE DEF n
  <2>3. Len(SubSeq(data, pos + 1, pos + n)) = n
    <3>1. pos + n <= Len(data)
      BY <2>1, <2>2
    <3> QED
      BY <1>2, <2>1, <2>2, <3>1, PartOf
  <2>5. After(data, pos) = SubSeq(data, pos + 1, pos + n)
    BY <2>2 DEF After
  <2>4. n = 0
    BY <1>3, <2>2, <2>3, <2>5, EmptySeq
  <2> QED
    BY <2>1, <2>2, <2>4
<1>6. outcome' = "accepted" /\ UNCHANGED got
  BY <1>1, <1>5 DEF check_empty, size
<1>7. Head(message) = m.type /\ m = [type |-> m.type, fields |-> m.fields]
  BY <1>2, EncodedParts, AwaitedFacts
<1> QED
  BY <1>4, <1>6, <1>7 DEF Understood

-----------------------------------------------------------------------------
(* What waits to be received was written for this reader, and a hello      *)
(* comes alone.  Between messages there is no Parser.  A message that is   *)
(* being read was read correctly so far.                                   *)
Meant(bytes) ==
  \/ \E m \in Awaited : bytes = encode(receiver, m)
  \/ receiver = "client" /\ bytes \in Malformed
QueueMeant == ~spoiled => \A i \in 1 .. Len(queue) : Meant(queue[i])
HelloAlone ==
  ~spoiled /\ receiver = "client" /\ ~greeted =>
    /\ sent = 0 => queue = <<>>
    /\ Len(queue) <= 1
    /\ Parsing => queue = <<>> /\ sent # 0
NoneBetween == ~reading /\ ~failed => outcome = "idle" /\ message = <<>>
ReadSoFar ==
  ~spoiled /\ Parsing /\ Regular => \E m \in Awaited, left \in Seq(Held) : Halfway(m, left)

ReadingInv ==
  /\ WireInv /\ sent \in Nat /\ greeted \in BOOLEAN
  /\ QueueMeant /\ HelloAlone /\ NoneBetween /\ ReadSoFar /\ ReadAsWritten

LEMMA MeantStays ==
  ASSUME UNCHANGED <<receiver, greeted>>
  PROVE  \A bytes : Meant(bytes)' = Meant(bytes)
BY DEF Meant, Awaited, encode, Fields

LEMMA ReadingStarts == Init => ReadingInv
<1> SUFFICES ASSUME Init PROVE ReadingInv
  OBVIOUS
<1>1. WireInv
  BY WireStarts
<1>2. /\ queue = <<>> /\ sent = 0 /\ greeted = FALSE /\ outcome = "idle" /\ message = <<>>
  BY DEF Init, FramingInit, ParserInit
<1>3. Len(<<>>) = 0
  BY EmptySeq
<1>4. QueueMeant /\ HelloAlone
  BY <1>2, <1>3 DEF QueueMeant, HelloAlone, Parsing
<1>5. NoneBetween /\ ReadSoFar /\ ReadAsWritten
  BY <1>2 DEF NoneBetween, ReadSoFar, ReadAsWritten, Parsing, Thrown
<1>6. sent \in Nat /\ greeted \in BOOLEAN
  BY <1>2
<1> QED
  BY <1>1, <1>4, <1>5, <1>6 DEF ReadingInv

LEMMA TransmitKeeps ==
  ASSUME ReadingInv, WireInv', transmit
  PROVE  ReadingInv'
<1>1. /\ WireInv /\ sent \in Nat /\ greeted \in BOOLEAN /\ receiver \in {"client", "server"}
      /\ queue \in Seq(Seq(Nat)) /\ spoiled \in BOOLEAN
  BY DEF ReadingInv, WireInv, FramingInv, FramingType
<1>2. /\ UNCHANGED <<receiver, greeted, data, pos, todo, got, outcome>>
      /\ UNCHANGED <<reading, failed, message>>
  BY DEF transmit, parserVars, send
<1>3. PICK bytes \in Seq(Nat) :
        /\ send(bytes)
        /\ \/ \E m \in MayBeSent : bytes = encode(receiver, m)
           \/ receiver = "client" /\ (greeted \/ sent = 0) /\ bytes \in Malformed
  <2>1. CASE \E m \in MayBeSent : send(encode(receiver, m))
    <3>1. PICK m \in MayBeSent : send(encode(receiver, m))
      BY <2>1
    <3>2. m \in Awaited
      BY DEF MayBeSent, Awaited
    <3> QED
      BY <1>1, <3>1, <3>2, EncodedParts
  <2>2. CASE /\ receiver = "client" /\ (greeted \/ sent = 0)
             /\ \E bytes \in Malformed : send(bytes)
    BY <2>2, WireAssumption
  <2> QED
    BY <2>1, <2>2 DEF transmit
<1>4. Meant(bytes)
  BY <1>3 DEF Meant, MayBeSent, Awaited
<1>5. /\ queue' = Append(queue, bytes) /\ sent' = sent + 1 /\ (~spoiled' => ~spoiled)
      /\ Len(queue') = Len(queue) + 1
  <2>1. queue' = Append(queue, bytes) /\ sent' = sent + 1 /\ (~spoiled' => ~spoiled)
    BY <1>1, <1>3 DEF send
  <2> QED
    BY <1>1, <2>1, AppendProperties
<1>6. QueueMeant'
  <2> SUFFICES ASSUME ~spoiled', NEW i \in 1 .. Len(queue') PROVE Meant(queue'[i])
    BY <1>2 DEF QueueMeant, Meant, Awaited, encode, Fields
  <2>1. CASE i = Len(queue) + 1
    BY <1>1, <1>4, <1>5, <2>1, AppendProperties
  <2>2. CASE i # Len(queue) + 1
    <3>1. i \in 1 .. Len(queue)
      BY <1>1, <1>5, <2>2
    <3>2. queue'[i] = queue[i]
      BY <1>1, <1>5, <3>1, AppendProperties
    <3> QED
      BY <1>5, <3>1, <3>2 DEF ReadingInv, QueueMeant
  <2> QED
    BY <2>1, <2>2
<1>7. HelloAlone'
  <2> SUFFICES ASSUME ~spoiled', receiver = "client", ~greeted
               PROVE  sent' # 0 /\ Len(queue') <= 1 /\ ~Parsing
    BY <1>2 DEF HelloAlone, Parsing
  <2>1. sent = 0
    BY <1>3 DEF MayBeSent
  <2>2. queue = <<>> /\ ~Parsing
    BY <1>5, <2>1 DEF ReadingInv, HelloAlone
  <2> QED
    BY <1>1, <1>5, <2>2, EmptySeq
<1>8. ReadSoFar'
  BY <1>2, <1>5 DEF ReadingInv, ReadSoFar, Parsing, Regular, Awaited, Halfway, encode, Fields
<1>9. ReadAsWritten'
  BY <1>2, <1>5 DEF ReadingInv, ReadAsWritten, Regular, Thrown, Understood, encode, Fields, Written
<1> QED
  BY <1>1, <1>2, <1>5, <1>6, <1>7, <1>8, <1>9 DEF ReadingInv, NoneBetween

(* The message that is taken from the buffer is the next one, and begins.  *)
LEMMA MessageKeeps ==
  ASSUME ReadingInv, WireInv', reading, ~Parsing, ~Thrown,
         read_message, handle_message(message'), UNCHANGED <<receiver, greeted>>
  PROVE  ReadingInv'
<1>1. /\ WireInv /\ sent \in Nat /\ greeted \in BOOLEAN /\ receiver \in {"client", "server"}
      /\ FramingInv /\ ~failed /\ queue \in Seq(Seq(Nat))
  BY DEF ReadingInv, WireInv, FramingInv, FramingType
<1>2. reading' /\ UNCHANGED <<spoiled, sent>>
  BY DEF read_message
<1>3. CASE spoiled
  BY <1>1, <1>2, <1>3
     DEF ReadingInv, QueueMeant, HelloAlone, NoneBetween, ReadSoFar, ReadAsWritten
<1>4. CASE ~spoiled
  <2>1. queue # <<>> /\ message' = Head(queue) /\ queue' = Tail(queue)
    BY <1>1, <1>4, ReadsTheNext
  <2>2. /\ Len(queue) \in Nat \ {0} /\ Len(queue') = Len(queue) - 1
        /\ message' = queue[1] /\ \A i \in 1 .. Len(queue') : queue'[i] = queue[i + 1]
    BY <1>1, <2>1, HeadTailProperties, EmptySeq
  <2>3. 1 \in 1 .. Len(queue)
    BY <2>2
  <2>4. Meant(message') /\ Fits(message')
    BY <1>1, <1>4, <2>2, <2>3 DEF ReadingInv, QueueMeant, FramingInv, AllFit
  <2>5. QueueMeant'
    <3>1. ASSUME NEW i \in 1 .. Len(queue') PROVE Meant(queue'[i])
      <4>1. i + 1 \in 1 .. Len(queue)
        BY <2>2
      <4> QED
        BY <1>4, <2>2, <4>1 DEF ReadingInv, QueueMeant
    <3> QED
      BY <3>1 DEF QueueMeant, Meant, Awaited, encode, Fields
  <2>6. HelloAlone'
    <3> SUFFICES ASSUME receiver = "client", ~greeted
                 PROVE  queue' = <<>> /\ Len(queue') <= 1 /\ sent # 0
      BY <1>2 DEF HelloAlone
    <3>1. sent # 0 /\ Len(queue) <= 1
      BY <1>4, <2>1 DEF ReadingInv, HelloAlone
    <3>2. Len(queue') = 0 /\ queue' \in Seq(Seq(Nat))
      BY <1>1, <2>1, <2>2, <3>1, HeadTailProperties
    <3> QED
      BY <3>1, <3>2, EmptySeq
  <2>7. CASE \E m \in Awaited : message' = encode(receiver, m)
    <3>1. PICK m \in Awaited : message' = encode(receiver, m)
      BY <2>7
    <3>2. message' # <<>> /\ Head(message') \in Readable
      BY <1>1, <3>1, EncodedParts, AwaitedFacts
    <3>3. begin(Tail(message'), Fields(receiver, Head(message')))
      BY <3>2 DEF handle_message
    <3>4. Halfway(m, m.fields)'
      BY <1>1, <2>4, <3>1, <3>3, BeginsHalfway
    <3>5. m \in Awaited' /\ m.fields \in Seq(Held)
      BY <1>1, AwaitedFacts DEF Awaited, Fitting
    <3>6. ReadSoFar'
      BY <3>4, <3>5 DEF ReadSoFar
    <3>7. outcome' = "parsing"
      BY <3>3 DEF begin
    <3>8. ReadAsWritten'
      BY <3>7 DEF ReadAsWritten, Thrown
    <3> QED
      BY <1>1, <1>2, <2>5, <2>6, <3>6, <3>8 DEF ReadingInv, NoneBetween
  <2>8. CASE receiver = "client" /\ message' \in Malformed
    <3>1. ~Regular'
      BY <2>8 DEF Regular
    <3> QED
      BY <1>1, <1>2, <2>5, <2>6, <3>1 DEF ReadingInv, NoneBetween, ReadSoFar, ReadAsWritten
  <2> QED
    BY <2>4, <2>7, <2>8 DEF Meant
<1> QED
  BY <1>1, <1>3, <1>4 DEF FramingInv, FramingType

LEMMA ParseKeeps ==
  ASSUME ReadingInv, WireInv', parse
  PROVE  ReadingInv'
<1>1. /\ WireInv /\ sent \in Nat /\ greeted \in BOOLEAN /\ receiver \in {"client", "server"}
  BY DEF ReadingInv, WireInv
<1>2. /\ UNCHANGED <<receiver, queue, message, spoiled, sent, reading, failed>>
      /\ greeted' = (greeted \/ outcome' = "accepted") /\ read_field
  BY DEF parse, framingVars
<1>3. outcome = "parsing"
  BY <1>2 DEF read_field, Reads, read8, read16, read32, read_string, read_msgpack, check_empty
<1>4. NoneBetween' /\ greeted' \in BOOLEAN
  BY <1>1, <1>2, <1>3 DEF ReadingInv, NoneBetween
<1>5. CASE spoiled
  BY <1>1, <1>2, <1>4, <1>5
     DEF ReadingInv, QueueMeant, HelloAlone, ReadSoFar, ReadAsWritten
<1>6. CASE ~spoiled
  <2>1. CASE Regular
    <3>1. PICK m \in Awaited, left \in Seq(Held) : Halfway(m, left)
      BY <1>3, <1>6, <2>1 DEF ReadingInv, ReadSoFar, Parsing
    <3>2. CASE todo # <<>>
      <4>1. Halfway(m, Tail(left))' /\ outcome' = "parsing"
        BY <1>2, <1>3, <3>1, <3>2, ReadsOn
      <4>2. UNCHANGED greeted
        BY <1>1, <1>2, <4>1
      <4>3. Tail(left) \in Seq(Held)
        <5>1. Fitting(Tail(todo), Tail(left))
          BY <3>1, <3>2, EncodedFirst DEF Halfway
        <5> QED
          BY <5>1 DEF Fitting
      <4>4. m \in Awaited'
        BY <1>2, <4>2 DEF Awaited
      <4>5. ReadSoFar'
        BY <4>1, <4>3, <4>4 DEF ReadSoFar
      <4>6. ReadAsWritten'
        BY <4>1 DEF ReadAsWritten, Thrown
      <4>7. QueueMeant'
        <5>1. \A bytes : Meant(bytes)' = Meant(bytes)
          BY <1>2, <4>2, MeantStays
        <5> QED
          BY <1>2, <5>1 DEF ReadingInv, QueueMeant
      <4>8. HelloAlone'
        BY <1>2, <1>3, <4>1, <4>2 DEF ReadingInv, HelloAlone, Parsing
      <4> QED
        BY <1>1, <1>2, <1>4, <4>5, <4>6, <4>7, <4>8 DEF ReadingInv
    <3>3. CASE todo = <<>>
      <4>1. outcome' = "accepted" /\ UNCHANGED got /\ Understood = m
        BY <1>1, <1>3, <1>2, <3>1, <3>3, ReadsAll
      <4>2. Understood' = m /\ m \in Written(receiver) /\ message = encode(receiver, m)
        BY <1>1, <1>2, <3>1, <4>1, AwaitedFacts DEF Understood, Halfway
      <4>3. ReadAsWritten'
        <5>1. encode(receiver, Understood)' = message' /\ Understood' \in Written(receiver')
          BY <1>2, <4>2 DEF encode, Fields
        <5>2. Written(receiver)' = Written(receiver')
          BY DEF Written
        <5> QED
          BY <4>1, <5>1, <5>2 DEF ReadAsWritten, Thrown
      <4>4. greeted' = TRUE
        BY <1>1, <1>2, <4>1
      <4>5. QueueMeant'
        <5>1. CASE receiver = "client" /\ ~greeted
          <6>1. queue' = <<>>
            BY <1>2, <1>3, <1>6, <5>1 DEF ReadingInv, HelloAlone, Parsing
          <6> QED
            BY <6>1, EmptySeq DEF QueueMeant
        <5>2. CASE receiver = "server" \/ greeted
          <6>1. \A bytes : Meant(bytes) => Meant(bytes)'
            BY <1>1, <1>2, <4>4, <5>2 DEF Meant, Awaited, encode, Fields
          <6> QED
            BY <1>2, <1>6, <6>1 DEF ReadingInv, QueueMeant
        <5> QED
          BY <1>1, <5>1, <5>2
      <4>6. HelloAlone' /\ ReadSoFar'
        BY <4>1, <4>4 DEF HelloAlone, ReadSoFar, Parsing
      <4> QED
        BY <1>1, <1>2, <1>4, <4>3, <4>5, <4>6 DEF ReadingInv
    <3> QED
      BY <3>2, <3>3
  <2>2. CASE ~Regular
    <3>1. ~Regular'
      BY <1>2, <2>2 DEF Regular
    <3>2. QueueMeant'
      <4>1. CASE receiver = "client" /\ ~greeted
        <5>1. queue' = <<>>
          BY <1>2, <1>3, <1>6, <4>1 DEF ReadingInv, HelloAlone, Parsing
        <5> QED
          BY <5>1, EmptySeq DEF QueueMeant
      <4>2. CASE receiver = "server" \/ greeted
        <5>1. \A bytes : Meant(bytes) => Meant(bytes)'
          BY <1>1, <1>2, <4>2 DEF Meant, Awaited, encode, Fields
        <5> QED
          BY <1>2, <1>6, <5>1 DEF ReadingInv, QueueMeant
      <4> QED
        BY <1>1, <4>1, <4>2
    <3>3. HelloAlone'
      BY <1>1, <1>2, <1>3 DEF ReadingInv, HelloAlone, Parsing
    <3> QED
      BY <1>1, <1>2, <1>4, <3>1, <3>2, <3>3 DEF ReadingInv, ReadSoFar, ReadAsWritten
  <2> QED
    BY <2>1, <2>2
<1> QED
  BY <1>5, <1>6

LEMMA ReadingSame ==
  ASSUME ReadingInv, WireInv', NoneBetween',
         UNCHANGED <<receiver, greeted, data, pos, todo, got, outcome>>,
         UNCHANGED <<queue, message, spoiled, sent>>
  PROVE  ReadingInv'
<1>0. QueueMeant'
  <2>1. \A bytes : Meant(bytes)' = Meant(bytes)
    BY MeantStays
  <2> QED
    BY <2>1 DEF ReadingInv, QueueMeant
<1>1. HelloAlone'
  BY DEF ReadingInv, HelloAlone, Parsing
<1>2. ReadSoFar'
  BY DEF ReadingInv, ReadSoFar, Parsing, Regular, Awaited, Halfway, encode, Fields
<1>3. ReadAsWritten'
  BY DEF ReadingInv, ReadAsWritten, Regular, Thrown, Understood, encode, Fields, Written
<1> QED
  BY <1>0, <1>1, <1>2, <1>3 DEF ReadingInv

LEMMA ReadingStep ==
  ASSUME ReadingInv, ~Torn, [Next]_vars
  PROVE  ReadingInv'
<1>1. /\ WireInv /\ sent \in Nat /\ greeted \in BOOLEAN
  BY DEF ReadingInv
<1>2. WireInv'
  BY <1>1, WireStep
<1>3. CASE transmit
  BY <1>2, <1>3, TransmitKeeps
<1>4. CASE receive
  <2>1. /\ UNCHANGED <<receiver, greeted, data, pos, todo, got, outcome>>
        /\ UNCHANGED <<queue, message, spoiled, sent>> /\ reading' = TRUE
    BY <1>4 DEF receive, push, parserVars
  <2>2. NoneBetween'
    BY <2>1 DEF ReadingInv, NoneBetween
  <2> QED
    BY <1>2, <2>1, <2>2, ReadingSame
<1>5. CASE unpack
  <2>0. reading /\ ~Parsing /\ ~Thrown /\ UNCHANGED <<receiver, greeted>>
    BY <1>5 DEF unpack
  <2>1. CASE read_message /\ handle_message(message')
    BY <1>2, <2>0, <2>1, MessageKeeps
  <2>2. CASE read_error /\ UNCHANGED parserVars
    <3>1. /\ UNCHANGED <<receiver, greeted, data, pos, todo, got, outcome>>
          /\ UNCHANGED <<queue, spoiled, sent>> /\ failed'
      BY <2>0, <2>2 DEF read_error, parserVars
    <3>2. spoiled'
      BY <1>2, <3>1 DEF WireInv, FramingInv, OnlySpoiledFails
    <3> QED
      BY <1>1, <1>2, <3>1, <3>2
         DEF ReadingInv, QueueMeant, HelloAlone, NoneBetween, ReadSoFar, ReadAsWritten
  <2>3. CASE read_nothing /\ discard
    <3>1. /\ UNCHANGED <<receiver, greeted, queue, spoiled, sent, failed>>
          /\ message' = <<>> /\ outcome' = "idle"
      BY <2>0, <2>3 DEF read_nothing, discard
    <3>2. QueueMeant'
      <4>1. \A bytes : Meant(bytes)' = Meant(bytes)
        BY <3>1, MeantStays
      <4> QED
        BY <3>1, <4>1 DEF ReadingInv, QueueMeant
    <3>3. HelloAlone'
      BY <3>1 DEF ReadingInv, HelloAlone, Parsing
    <3> QED
      BY <1>1, <1>2, <3>1, <3>2, <3>3
         DEF ReadingInv, NoneBetween, ReadSoFar, ReadAsWritten, Parsing, Thrown
  <2> QED
    BY <1>5, <2>1, <2>2, <2>3 DEF unpack
<1>6. CASE parse
  BY <1>2, <1>6, ParseKeeps
<1>7. CASE connect_again
  <2>1. /\ UNCHANGED <<receiver, data, pos, todo, got, outcome, message, reading, failed>>
        /\ queue' = <<>> /\ sent' = 0 /\ greeted' = FALSE /\ ~reading /\ ~failed
    BY <1>7 DEF connect_again, reconnect, parserVars
  <2>2. outcome = "idle" /\ message = <<>>
    BY <2>1 DEF ReadingInv, NoneBetween
  <2>3. Len(<<>>) = 0
    BY EmptySeq
  <2>4. QueueMeant' /\ HelloAlone'
    BY <2>1, <2>2, <2>3 DEF QueueMeant, HelloAlone, Parsing
  <2>5. NoneBetween' /\ ReadSoFar' /\ ReadAsWritten'
    BY <2>1, <2>2 DEF NoneBetween, ReadSoFar, ReadAsWritten, Parsing, Thrown
  <2>6. sent' \in Nat /\ greeted' \in BOOLEAN
    BY <2>1
  <2> QED
    BY <1>2, <2>4, <2>5, <2>6 DEF ReadingInv
<1>8. CASE UNCHANGED vars
  <2>1. /\ UNCHANGED <<receiver, greeted, data, pos, todo, got, outcome>>
        /\ UNCHANGED <<queue, message, spoiled, sent, reading, failed>>
    BY <1>8 DEF vars, framingVars, parserVars
  <2>2. NoneBetween'
    BY <2>1 DEF ReadingInv, NoneBetween
  <2> QED
    BY <1>2, <2>1, <2>2, ReadingSame
<1> QED
  BY <1>3, <1>4, <1>5, <1>6, <1>7, <1>8 DEF Next

(* Every message that was written field by field is accepted by the other  *)
(* end, and with the fields it was written with, whatever messages came    *)
(* before it and however their bytes were cut into chunks.                 *)
THEOREM WrittenIsUnderstood == ASSUME ~Torn PROVE Spec => []ReadAsWritten
<1>1. ReadingInv /\ [Next]_vars => ReadingInv'
  BY ReadingStep
<1>2. ReadingInv => ReadAsWritten
  BY DEF ReadingInv
<1> QED
  BY <1>1, <1>2, ReadingStarts, PTL DEF Spec

-----------------------------------------------------------------------------
(* And the other way round: what a reader accepts are the bytes its writer *)
(* would have produced, if they are bytes at all.                          *)
LEMMA NumberBelow ==
  ASSUME NEW c \in Nat, NEW q \in Nat, q < c, NEW r \in Nat, r < Base
  PROVE  q * Base + r \in Nat /\ q * Base + r < c * Base
<1>1. Base \in Nat
  BY BytesAssumption
<1>2. (q + 1) * Base <= c * Base
  BY <1>1
<1>3. (q + 1) * Base = q * Base + Base
  BY <1>1
<1>4. q * Base \in Nat /\ c * Base \in Nat
  BY <1>1
<1> QED
  BY <1>1, <1>2, <1>3, <1>4

LEMMA LastDigit ==
  ASSUME NEW q \in Nat, NEW r \in Nat, r < Base
  PROVE  /\ q * Base + r \in Nat
         /\ (q * Base + r) \div Base = q /\ (q * Base + r) % Base = r
<1> DEFINE x == q * Base + r
<1>1. Base \in Nat \ {0} /\ r \in 0 .. Base - 1
  BY BytesAssumption
<1>2. x \in Nat /\ x = Base * q + r
  BY <1>1
<1> HIDE DEF x
<1>3. x \div Base = q /\ x % Base = r
  BY <1>1, <1>2, DivideUnique
<1> QED
  BY <1>2, <1>3 DEF x

(* The digits of a number made of digits.                                  *)
LEMMA DigitsOfTwo ==
  ASSUME NEW a \in Nat, a < Base, NEW b \in Nat, b < Base
  PROVE  /\ a * Base + b \in Nat /\ a * Base + b < Base * Base
         /\ digit(a * Base + b, Base) = a /\ digit(a * Base + b, 1) = b
<1>0. Base \in Nat \ {0}
  BY BytesAssumption
<1> DEFINE x == a * Base + b
<1>1. x \in Nat /\ x \div Base = a /\ x % Base = b
  BY LastDigit
<1>2. x < Base * Base
  BY <1>0, NumberBelow
<1> HIDE DEF x
<1>3. x \div 1 = x
  BY <1>1
<1>4. a % Base = a
  BY <1>0
<1> QED
  BY <1>1, <1>2, <1>3, <1>4 DEF digit, x

LEMMA DigitsOfFour ==
  ASSUME NEW a \in Nat, a < Base, NEW b \in Nat, b < Base,
         NEW c \in Nat, c < Base, NEW d \in Nat, d < Base,
         NEW x, x = ((a * Base + b) * Base + c) * Base + d
  PROVE  /\ x \in Nat /\ x < Base * Base * Base * Base
         /\ digit(x, Base * Base * Base) = a /\ digit(x, Base * Base) = b
         /\ digit(x, Base) = c /\ digit(x, 1) = d
<1> DEFINE B2 == Base * Base
           B3 == B2 * Base
           u == a * Base + b
           v == u * Base + c
<1>0. Base \in Nat \ {0} /\ B2 \in Nat \ {0} /\ B3 \in Nat \ {0}
  BY BytesAssumption
<1>1. /\ u \in Nat /\ u < B2 /\ digit(u, Base) = a /\ digit(u, 1) = b
      /\ u \div Base = a /\ u % Base = b
  BY DigitsOfTwo, LastDigit
<1> HIDE DEF u
<1>2. v \in Nat /\ v \div Base = u /\ v % Base = c /\ v < B3
  <2> HIDE DEF B2
  <2>1. u * Base + c < B2 * Base
    BY <1>0, <1>1, NumberBelow
  <2>2. /\ u * Base + c \in Nat
        /\ (u * Base + c) \div Base = u /\ (u * Base + c) % Base = c
    BY <1>1, LastDigit
  <2> QED
    BY <2>1, <2>2
<1>3. x = v * Base + d
  BY DEF u
<1> HIDE DEF v
<1>4. x \in Nat /\ x \div Base = v /\ x % Base = d /\ x < B3 * Base
  <2> HIDE DEF B2, B3
  <2>1. v * Base + d < B3 * Base
    BY <1>0, <1>2, NumberBelow
  <2>2. /\ v * Base + d \in Nat
        /\ (v * Base + d) \div Base = v /\ (v * Base + d) % Base = d
    BY <1>2, LastDigit
  <2> QED
    BY <1>3, <2>1, <2>2
<1>5. x \div B2 = u
  <2>1. x \div B2 = (x \div Base) \div Base
    BY <1>0, <1>4, DivideTwice
  <2> QED
    BY <1>2, <1>4, <2>1
<1>6. x \div B3 = a
  <2> HIDE DEF B2
  <2>1. x \div B3 = (x \div B2) \div Base
    BY <1>0, <1>4, DivideTwice
  <2> QED
    BY <1>1, <1>5, <2>1
<1>7. x \div 1 = x /\ a % Base = a
  BY <1>0, <1>4
<1> QED
  BY <1>1, <1>2, <1>4, <1>5, <1>6, <1>7 DEF digit

(* A message consists of bytes.                                            *)
Bytewise == \A i \in 1 .. Len(data) : data[i] < Base

LEMMA NumbersWereWritten ==
  ASSUME Called, Bytewise, NEW kind \in {"8", "16", "32"}, Head(todo) = kind,
         read_field, outcome' = "parsing"
  PROVE  \E x \in FieldValues(kind) :
           /\ Next_in_message(write_field(kind, x))
           /\ advance(Len(write_field(kind, x)), x)
<1>0. /\ data \in Seq(Nat) /\ pos \in Nat /\ size \in Nat /\ size = Len(data)
      /\ size - pos \in Nat /\ remaining = size - pos
  BY CalledFacts
<1>1. ASSUME NEW i \in Nat \ {0}, i <= size - pos
      PROVE  byte(i) \in Nat /\ byte(i) < Base /\ data[pos + i] = byte(i)
  <2>1. pos + i \in 1 .. Len(data)
    BY <1>0, <1>1
  <2> QED
    BY <1>0, <2>1 DEF byte, Bytewise
<1>2. CASE kind = "8"
  <2>1. read8
    BY <1>2 DEF read_field, Called, Reads, read16, read32, read_string, read_msgpack, check_empty
  <2>2. 1 <= size - pos /\ advance(1, byte(1))
    BY <1>0, <2>1 DEF read8, throw
  <2>3. byte(1) \in FieldValues(kind) /\ write_field(kind, byte(1)) = <<byte(1)>>
    BY <1>1, <1>2, <2>2 DEF FieldValues, write_field
  <2>4. Next_in_message(<<byte(1)>>) /\ Len(<<byte(1)>>) = 1
    BY <1>1, <2>2 DEF Next_in_message
  <2> QED
    BY <2>2, <2>3, <2>4
<1>3. CASE kind = "16"
  <2> DEFINE x == byte(1) * Base + byte(2)
  <2>1. read16
    BY <1>3 DEF read_field, Called, Reads, read8, read32, read_string, read_msgpack, check_empty
  <2>2. 2 <= size - pos /\ advance(2, x)
    BY <1>0, <2>1 DEF read16, throw
  <2>3. /\ byte(1) \in Nat /\ byte(1) < Base /\ data[pos + 1] = byte(1)
        /\ byte(2) \in Nat /\ byte(2) < Base /\ data[pos + 2] = byte(2)
    BY <1>0, <1>1, <2>2
  <2>4. /\ x \in Nat /\ x < Base * Base
        /\ digit(x, Base) = byte(1) /\ digit(x, 1) = byte(2)
    BY <2>3, DigitsOfTwo
  <2> HIDE DEF x
  <2>5. x \in FieldValues(kind) /\ write_field(kind, x) = <<byte(1), byte(2)>>
    BY <1>3, <2>4 DEF FieldValues, write_field
  <2>6. Next_in_message(<<byte(1), byte(2)>>) /\ Len(<<byte(1), byte(2)>>) = 2
    BY <2>2, <2>3 DEF Next_in_message
  <2> QED
    BY <2>2, <2>5, <2>6
<1>4. CASE kind = "32"
  <2> DEFINE x == ((byte(1) * Base + byte(2)) * Base + byte(3)) * Base + byte(4)
             w == <<byte(1), byte(2), byte(3), byte(4)>>
  <2>1. read32
    BY <1>4 DEF read_field, Called, Reads, read8, read16, read_string, read_msgpack, check_empty
  <2>2. 4 <= size - pos /\ advance(4, x)
    BY <1>0, <2>1 DEF read32, throw
  <2>3. /\ byte(1) \in Nat /\ byte(1) < Base /\ data[pos + 1] = byte(1)
        /\ byte(2) \in Nat /\ byte(2) < Base /\ data[pos + 2] = byte(2)
        /\ byte(3) \in Nat /\ byte(3) < Base /\ data[pos + 3] = byte(3)
        /\ byte(4) \in Nat /\ byte(4) < Base /\ data[pos + 4] = byte(4)
    <3>1. 1 \in 1 .. size - pos /\ 2 \in 1 .. size - pos
          /\ 3 \in 1 .. size - pos /\ 4 \in 1 .. size - pos
      BY <1>0, <2>2
    <3> QED
      BY <1>1, <3>1
  <2>4. /\ x \in Nat /\ x < Base * Base * Base * Base
        /\ digit(x, Base * Base * Base) = byte(1) /\ digit(x, Base * Base) = byte(2)
        /\ digit(x, Base) = byte(3) /\ digit(x, 1) = byte(4)
    BY <2>3, DigitsOfFour
  <2> HIDE DEF x
  <2>5. x \in FieldValues(kind) /\ write_field(kind, x) = w
    BY <1>4, <2>4 DEF FieldValues, write_field
  <2>6. Next_in_message(w) /\ Len(w) = 4
    BY <2>2, <2>3 DEF Next_in_message
  <2> QED
    BY <2>2, <2>5, <2>6
<1> QED
  BY <1>2, <1>3, <1>4

LEMMA StringsWereWritten ==
  ASSUME Called, Head(todo) = "string", read_field, outcome' = "parsing"
  PROVE  \E x \in FieldValues("string") :
           /\ Next_in_message(write_field("string", x))
           /\ advance(Len(write_field("string", x)), x)
<1> DEFINE e == first_end
           x == SubSeq(data, pos + 1, e - 1)
           w == x \o <<NUL>>
           n == e - 1 - pos
<1>0. /\ data \in Seq(Nat) /\ pos \in Nat /\ size \in Nat /\ size = Len(data)
      /\ size - pos \in Nat
  BY CalledFacts
<1>1. read_string
  BY DEF read_field, Called, Reads, read8, read16, read32, read_msgpack, check_empty
<1>2. Ends # {} /\ advance(e - pos, x)
  BY <1>1 DEF read_string, throw
<1>3. /\ e \in pos + 1 .. size /\ data[e] = NUL
      /\ \A j \in pos + 1 .. size : data[j] = NUL => e <= j
  BY <1>0, <1>2, FirstEnd DEF Ends
<1> HIDE DEF e
<1>4. n \in Nat /\ pos + n = e - 1 /\ pos + n <= Len(data) /\ e - pos = n + 1
      /\ pos + (n + 1) = e /\ n + 1 <= size - pos
  BY <1>0, <1>3
<1> HIDE DEF n
<1>5. /\ x \in Seq(Nat) /\ Len(x) = n
      /\ \A i \in 1 .. n : x[i] = data[pos + i]
  <2>1. x = SubSeq(data, pos + 1, pos + n)
    BY <1>4
  <2> HIDE DEF x
  <2> DEFINE s == data
             p == pos
  <2>2. s \in Seq(Nat) /\ p \in Nat /\ n \in Nat /\ p + n <= Len(s)
        /\ x = SubSeq(s, p + 1, p + n)
    BY <1>0, <1>4, <2>1
  <2> HIDE DEF s, p
  <2>3. /\ x \in Seq(Nat) /\ Len(x) = n
        /\ \A i \in 1 .. n : x[i] = s[p + i]
    BY <2>2, PartOf
  <2> QED
    BY <2>3 DEF s, p
<1> HIDE DEF x
<1>6. ASSUME NEW i \in 1 .. n PROVE x[i] \in Nat \ {NUL}
  <2>1. pos + i \in pos + 1 .. size /\ ~(e <= pos + i)
    BY <1>0, <1>4
  <2>2. data[pos + i] # NUL
    BY <1>3, <2>1
  <2> QED
    BY <1>5, <2>2
<1>7. x \in FieldValues("string")
  <2>1. x \in Seq(Nat \ {NUL})
    BY <1>4, <1>5, <1>6
  <2> QED
    BY <2>1 DEF FieldValues
<1>8. write_field("string", x) = w
  BY DEF write_field
<1>9. /\ Len(w) = n + 1 /\ w[n + 1] = NUL
      /\ \A i \in 1 .. n : w[i] = x[i]
  BY <1>4, <1>5
<1> HIDE DEF w
<1>10. Next_in_message(w)
  <2>1. ASSUME NEW i \in 1 .. n + 1 PROVE data[pos + i] = w[i]
    <3>1. CASE i = n + 1
      BY <1>3, <1>4, <1>9, <3>1
    <3>2. CASE i # n + 1
      <4>1. i \in 1 .. n
        BY <1>4, <3>2
      <4> QED
        BY <1>5, <1>9, <4>1
    <3> QED
      BY <3>1, <3>2
  <2> QED
    BY <1>4, <1>9, <2>1 DEF Next_in_message
<1> QED
  BY <1>2, <1>4, <1>7, <1>8, <1>9, <1>10

LEMMA ObjectsWereWritten ==
  ASSUME Called, Head(todo) = "pack", read_field, outcome' = "parsing"
  PROVE  \E x \in FieldValues("pack") :
           Next_in_message(write_field("pack", x)) /\ advance(size - pos, x)
<1>1. read_msgpack
  BY DEF read_field, Called, Reads, read8, read16, read32, read_string, check_empty
<1>2. PICK p \in Packs : Begins(p) /\ advance(size - pos, p)
  BY <1>1 DEF read_msgpack, throw
<1>3. Next_in_message(p)
  BY <1>2, BeginsMeans, ParserAssumption
<1> QED
  BY <1>2, <1>3 DEF FieldValues, write_field

(* What a reader accepts is what its writer writes for the value read, in  *)
(* any base, from any position and whatever bytes there are.               *)
THEOREM FieldsWereWritten ==
  ASSUME Called, Bytewise, read_field, outcome' = "parsing"
  PROVE  \E x \in FieldValues(Head(todo)) :
           /\ Next_in_message(write_field(Head(todo), x))
           /\ got' = Append(got, x) /\ todo' = Tail(todo)
           /\ pos' = IF Head(todo) = "pack" THEN Len(data)
                     ELSE pos + Len(write_field(Head(todo), x))
<1> DEFINE kind == Head(todo)
<1>1. kind \in Kinds
  BY EmptySeq DEF Called, Inside, TypeOK
<1> HIDE DEF kind
<1>2. CASE kind \in {"8", "16", "32"}
  <2>1. PICK x \in FieldValues(kind) :
          /\ Next_in_message(write_field(kind, x))
          /\ advance(Len(write_field(kind, x)), x)
    BY <1>2, NumbersWereWritten DEF kind
  <2> QED
    BY <1>2, <2>1 DEF advance, kind
<1>3. CASE kind = "string"
  <2>1. PICK x \in FieldValues("string") :
          /\ Next_in_message(write_field("string", x))
          /\ advance(Len(write_field("string", x)), x)
    BY <1>3, StringsWereWritten DEF kind
  <2> QED
    BY <1>3, <2>1 DEF advance, kind
<1>4. CASE kind = "pack"
  <2>1. PICK x \in FieldValues("pack") :
          Next_in_message(write_field("pack", x)) /\ advance(size - pos, x)
    BY <1>4, ObjectsWereWritten DEF kind
  <2>2. pos + (size - pos) = Len(data)
    BY CalledFacts
  <2> QED
    BY <1>4, <2>1, <2>2 DEF advance, kind
<1> QED
  BY <1>1, <1>2, <1>3, <1>4 DEF Kinds

-----------------------------------------------------------------------------
(* The fields read so far, and one more.                                   *)
LEMMA EncodedAppend ==
  ASSUME NEW kinds, NEW xs, Fitting(kinds, xs),
         NEW kind \in Kinds, NEW x \in FieldValues(kind)
  PROVE  /\ Fitting(Append(kinds, kind), Append(xs, x))
         /\ Encoded(Append(kinds, kind), Append(xs, x))
              = Encoded(kinds, xs) \o write_field(kind, x)
<1> DEFINE n == Len(kinds)
           kk == Append(kinds, kind)
           yy == Append(xs, x)
           w == write_field(kind, x)
<1>1. /\ kinds \in Seq(Kinds) /\ xs \in Seq(Held) /\ Len(xs) = n /\ n \in Nat
      /\ \A i \in 1 .. n : xs[i] \in FieldValues(kinds[i])
  BY DEF Fitting
<1>2. x \in Held
  BY DEF Held
<1>3. /\ kk \in Seq(Kinds) /\ Len(kk) = n + 1 /\ kk[n + 1] = kind
      /\ \A i \in 1 .. n : kk[i] = kinds[i]
  BY <1>1, AppendProperties
<1>4. /\ yy \in Seq(Held) /\ Len(yy) = n + 1 /\ yy[n + 1] = x
      /\ \A i \in 1 .. n : yy[i] = xs[i]
  BY <1>1, <1>2, AppendProperties
<1> HIDE DEF n, kk, yy, w
<1>5. Fitting(kk, yy)
  <2>1. ASSUME NEW i \in 1 .. n + 1 PROVE yy[i] \in FieldValues(kk[i])
    <3>1. CASE i = n + 1
      BY <1>3, <1>4, <3>1
    <3>2. CASE i # n + 1
      <4>1. i \in 1 .. n
        BY <1>1, <3>2
      <4> QED
        BY <1>1, <1>3, <1>4, <4>1
    <3> QED
      BY <3>1, <3>2
  <2> QED
    BY <1>3, <1>4, <2>1 DEF Fitting
<1>6. /\ Fieldwise(kinds, xs) \in Seq(Seq(Nat)) /\ Len(Fieldwise(kinds, xs)) = n
      /\ Fieldwise(kk, yy) \in Seq(Seq(Nat)) /\ Len(Fieldwise(kk, yy)) = n + 1
  BY <1>3, <1>5, FieldwiseType DEF n
<1>7. w \in Seq(Nat)
  BY FieldType DEF w
<1>8. Fieldwise(kk, yy) = Append(Fieldwise(kinds, xs), w)
  <2> DEFINE s == Append(Fieldwise(kinds, xs), w)
  <2>1. /\ s \in Seq(Seq(Nat)) /\ Len(s) = n + 1 /\ s[n + 1] = w
        /\ \A i \in 1 .. n : s[i] = Fieldwise(kinds, xs)[i]
    BY <1>6, <1>7, AppendProperties
  <2> HIDE DEF s
  <2>2. ASSUME NEW i \in 1 .. n + 1 PROVE s[i] = Fieldwise(kk, yy)[i]
    <3>1. Fieldwise(kk, yy)[i] = write_field(kk[i], yy[i])
      BY <1>4 DEF Fieldwise
    <3>2. CASE i = n + 1
      BY <1>3, <1>4, <2>1, <3>1, <3>2 DEF w
    <3>3. CASE i # n + 1
      <4>1. i \in 1 .. n
        BY <1>1, <3>3
      <4>2. Fieldwise(kinds, xs)[i] = write_field(kinds[i], xs[i])
        BY <1>1, <4>1 DEF Fieldwise
      <4> QED
        BY <1>3, <1>4, <2>1, <3>1, <4>1, <4>2
    <3> QED
      BY <3>2, <3>3
  <2>3. s = Fieldwise(kk, yy)
    BY <1>6, <2>1, <2>2, SeqEqual
  <2> QED
    BY <2>3 DEF s
<1>9. FlattenSeq(Append(Fieldwise(kinds, xs), w)) = FlattenSeq(Fieldwise(kinds, xs)) \o w
  BY <1>6, <1>7, FlattenAppend
<1> QED
  BY <1>5, <1>8, <1>9 DEF Encoded, kk, yy, w

(* Of a message whose fields are of the kinds in done and todo, those in   *)
(* done were read, and the bytes read are what is written for their values *)
(* - or begin so, and an object was the last of them.                      *)
ReadBack(done) ==
  /\ message \in Seq(Nat) /\ message # <<>> /\ Head(message) \in Protocol("client")
  /\ data = Tail(message) /\ Bytewise
  /\ Len(data) < SizeMod /\ pos \in 0 .. Len(data)
  /\ Layout(todo) /\ done \o todo = Fields(receiver, Head(message))
  /\ Fitting(done, got)
  /\ Len(Encoded(done, got)) <= pos
  /\ \A i \in 1 .. Len(Encoded(done, got)) : data[i] = Encoded(done, got)[i]
  /\ \/ Len(Encoded(done, got)) = pos
     \/ todo = <<>> /\ done # <<>> /\ Last(done) = "pack"

(* A part of a message and the field after it.                             *)
LEMMA PartsAgree ==
  ASSUME NEW s, NEW e \in Seq(Nat), NEW w \in Seq(Nat),
         \A i \in 1 .. Len(e) : s[i] = e[i],
         \A i \in 1 .. Len(w) : s[Len(e) + i] = w[i]
  PROVE  Len(e \o w) = Len(e) + Len(w) /\ \A i \in 1 .. Len(e \o w) : s[i] = (e \o w)[i]
<1> DEFINE m == Len(e)
           n == Len(w)
           u == e \o w
<1>1. /\ m \in Nat /\ n \in Nat /\ Len(u) = m + n
      /\ \A i \in 1 .. m + n : u[i] = IF i <= m THEN e[i] ELSE w[i - m]
  BY ConcatProperties
<1>2. /\ \A i \in 1 .. m : s[i] = e[i]
      /\ \A i \in 1 .. n : s[m + i] = w[i]
  OBVIOUS
<1> HIDE DEF u, m, n
<1>3. ASSUME NEW i \in 1 .. m + n PROVE s[i] = u[i]
  <2>1. CASE i <= m
    <3>1. i \in 1 .. m
      BY <1>1, <2>1
    <3> QED
      BY <1>1, <1>2, <2>1, <3>1
  <2>2. CASE ~(i <= m)
    <3>1. i - m \in 1 .. n /\ m + (i - m) = i
      BY <1>1, <2>2
    <3> QED
      BY <1>1, <1>2, <2>2, <3>1
  <2> QED
    BY <2>1, <2>2
<1> QED
  BY <1>1, <1>3 DEF u, m, n

LEMMA BeginsBack ==
  ASSUME receiver = "client", message' \in Malformed, Fits(message'),
         message' # <<>>, Head(message') \in Protocol("client"), receiver' = receiver,
         begin(Tail(message'), Fields(receiver, Head(message')))
  PROVE  ReadBack(<<>>)'
<1> DEFINE kinds == Fields(receiver, Head(message'))
           e == Tail(message')
<1>1. message' \in Seq(Nat) /\ \A i \in 2 .. Len(message') : message'[i] < Base
  BY WireAssumption
<1>2. /\ e \in Seq(Nat) /\ Len(e) = Len(message') - 1 /\ Len(message') \in Nat \ {0}
      /\ \A i \in 1 .. Len(e) : e[i] = message'[i + 1]
  BY <1>1, HeadTailProperties, EmptySeq
<1>3. data' = e /\ pos' = 0 /\ todo' = kinds /\ got' = <<>>
  BY DEF begin
<1>4. Layout(kinds)
  BY FieldsType DEF Protocol
<1> HIDE DEF kinds, e
<1>5. \A i \in 1 .. Len(e) : e[i] < Base
  <2>1. ASSUME NEW i \in 1 .. Len(e) PROVE e[i] < Base
    <3>1. i + 1 \in 2 .. Len(message')
      BY <1>2
    <3> QED
      BY <1>1, <1>2, <3>1
  <2> QED
    BY <2>1
<1>6. Len(e) < SizeMod
  <2>1. Len(message') < Base * Base
    BY DEF Fits
  <2> QED
    BY <1>2, <2>1, WireAssumption, BytesAssumption, ParserAssumption
<1>7. Fitting(<<>>, <<>>)
  <2>1. <<>> \in Seq(Kinds) /\ <<>> \in Seq(Held) /\ Len(<<>>) = 0
    BY EmptySeq
  <2> QED
    BY <2>1 DEF Fitting
<1>8. Encoded(<<>>, <<>>) = <<>> /\ Len(<<>>) = 0
  BY <1>7, EncodedNone, EmptySeq
<1>9. <<>> \o kinds = kinds
  BY <1>4, ConcatEmptySeq DEF Layout
<1>10. 0 \in 0 .. Len(e)
  BY <1>2
<1>11. Encoded(<<>>, got') = <<>>
  BY <1>3, <1>8
<1>12. kinds = Fields(receiver', Head(message'))
  BY DEF kinds
<1>13. e = Tail(message')
  BY DEF e
<1> QED
  BY <1>1, <1>3, <1>4, <1>5, <1>6, <1>7, <1>8, <1>9, <1>10, <1>11, <1>12, <1>13
     DEF ReadBack, Bytewise, Encoded, Fieldwise, Fitting, Layout, Fields

LEMMA ReadsOnBack ==
  ASSUME NEW done, ReadBack(done), todo # <<>>, outcome = "parsing", read_field,
         outcome' = "parsing", UNCHANGED <<message, receiver>>,
         NEW kind, kind = Head(todo)
  PROVE  ReadBack(Append(done, kind))'
<1> DEFINE kinds == Fields(receiver, Head(message))
           e == Encoded(done, got)
           more == Append(done, kind)
<1>1. /\ message \in Seq(Nat) /\ message # <<>> /\ Head(message) \in Protocol("client")
      /\ data = Tail(message) /\ Bytewise /\ data \in Seq(Nat)
      /\ Len(data) < SizeMod /\ pos \in 0 .. Len(data) /\ Len(data) \in Nat
      /\ Layout(todo) /\ done \o todo = kinds /\ Fitting(done, got)
      /\ Len(e) = pos /\ \A i \in 1 .. Len(e) : data[i] = e[i]
  <2>1. message \in Seq(Nat) /\ message # <<>> /\ data = Tail(message)
    BY DEF ReadBack
  <2>2. data \in Seq(Nat)
    BY <2>1, HeadTailProperties
  <2>3. Len(data) \in Nat
    BY <2>2
  <2> HIDE DEF kinds, e
  <2> QED
    BY <2>2, <2>3 DEF ReadBack, kinds, e
<1>2. e \in Seq(Nat)
  BY <1>1, FieldwiseType
<1>3. kind \in Kinds /\ todo \in Seq(Kinds) /\ done \in Seq(Kinds)
  BY <1>1, HeadTailProperties DEF Layout, Fitting
<1>4. Layout(Tail(todo)) /\ (kind = "pack" => Tail(todo) = <<>>)
  BY <1>1, LayoutTail
<1> HIDE DEF kinds, e
<1>5. Called
  BY <1>1 DEF Called, Inside, TypeOK, NoOverread, Layout
<1>6. PICK x \in FieldValues(kind) :
        /\ Next_in_message(write_field(kind, x))
        /\ got' = Append(got, x) /\ todo' = Tail(todo)
        /\ pos' = IF kind = "pack" THEN Len(data) ELSE pos + Len(write_field(kind, x))
  BY <1>1, <1>5, FieldsWereWritten
<1> DEFINE w == write_field(kind, x)
<1>7. w \in Seq(Nat) /\ Len(w) \in Nat
  BY <1>3, FieldType
<1>8. Fitting(more, got') /\ Encoded(more, got') = e \o w
  <2> DEFINE g == got
  <2>1. Fitting(done, g) /\ kind \in Kinds /\ x \in FieldValues(kind)
        /\ got' = Append(g, x)
    BY <1>1, <1>3, <1>6
  <2> HIDE DEF g
  <2>2. /\ Fitting(Append(done, kind), Append(g, x))
        /\ Encoded(Append(done, kind), Append(g, x)) = Encoded(done, g) \o write_field(kind, x)
    BY <2>1, EncodedAppend
  <2> QED
    BY <2>1, <2>2 DEF e, g
<1>9. Len(w) <= Len(data) - pos /\ \A i \in 1 .. Len(w) : data[pos + i] = w[i]
  BY <1>6 DEF Next_in_message, size
<1> HIDE DEF w
<1>10. Len(e \o w) = pos + Len(w) /\ \A i \in 1 .. Len(e \o w) : data[i] = (e \o w)[i]
  <2> DEFINE s == data
  <2>1. /\ \A i \in 1 .. Len(e) : s[i] = e[i]
        /\ \A i \in 1 .. Len(w) : s[Len(e) + i] = w[i]
    BY <1>1, <1>9
  <2> HIDE DEF s
  <2>2. /\ Len(e \o w) = Len(e) + Len(w)
        /\ \A i \in 1 .. Len(e \o w) : s[i] = (e \o w)[i]
    BY <1>2, <1>7, <2>1, PartsAgree
  <2> QED
    BY <1>1, <2>2 DEF s
<1>11. data' = data
  BY DataStays
<1>12. more \o Tail(todo) = kinds
  <2> DEFINE t == Tail(todo)
  <2>1. <<kind>> \o t = todo
    BY <1>1, <1>3, HeadThenTail
  <2>2. t \in Seq(Kinds)
    BY <1>4 DEF Layout
  <2> HIDE DEF t
  <2>3. Append(done, kind) \o t = done \o (<<kind>> \o t)
    BY <1>3, <2>2, OneRead
  <2> QED
    BY <1>1, <2>1, <2>3 DEF t
<1>13. more # <<>> /\ Last(more) = kind
  <2>1. Len(more) = Len(done) + 1 /\ more[Len(done) + 1] = kind /\ Len(done) \in Nat
    BY <1>3, AppendProperties
  <2>2. Len(more) # 0
    BY <2>1
  <2> QED
    BY <1>3, <2>1, <2>2, EmptySeq DEF Last
<1> HIDE DEF more
<1> DEFINE u == e \o w
<1>14. pos' \in 0 .. Len(data) /\ Len(u) <= pos' /\ (kind # "pack" => Len(u) = pos')
  <2> HIDE DEF u
  <2>1. Len(u) = pos + Len(w)
    BY <1>10 DEF u
  <2>2. pos' = IF kind = "pack" THEN Len(data) ELSE pos + Len(w)
    BY <1>6 DEF w
  <2> QED
    BY <1>1, <1>7, <1>9, <2>1, <2>2
<1>15. /\ Encoded(more, got') = u
       /\ \A i \in 1 .. Len(u) : data[i] = u[i]
  BY <1>8, <1>10
<1>16. kind = "pack" => todo' = <<>>
  BY <1>4, <1>6
<1>17. Layout(todo') /\ more \o todo' = Fields(receiver', Head(message'))
  BY <1>4, <1>6, <1>12 DEF kinds
<1> HIDE DEF u
<1> QED
  BY <1>1, <1>8, <1>11, <1>13, <1>14, <1>15, <1>16, <1>17
     DEF ReadBack, Bytewise, Encoded, Fieldwise, Fitting, Layout, Fields, Last, more

(* Written again, what was read is the bytes of the message, or what came  *)
(* before the bytes that follow an object.                                 *)
Accounted(bytes, understood, reader, types) ==
  /\ WellFormed(reader, types, understood)
  /\ \/ encode(reader, understood) = bytes
     \/ /\ IsStrictPrefix(encode(reader, understood), bytes)
        /\ Fields(reader, understood.type) # <<>>
        /\ Last(Fields(reader, understood.type)) = "pack"

LEMMA PrefixAfterHead ==
  ASSUME NEW h \in Nat, NEW e \in Seq(Nat), NEW s \in Seq(Nat), s # <<>>, Head(s) = h,
         Len(e) <= Len(Tail(s)), \A i \in 1 .. Len(e) : Tail(s)[i] = e[i]
  PROVE  /\ IsPrefix(<<h>> \o e, s)
         /\ Len(e) = Len(Tail(s)) => <<h>> \o e = s
<1> DEFINE t == Tail(s)
           w == <<h>>
           u == w \o e
<1>1. /\ t \in Seq(Nat) /\ Len(s) = Len(t) + 1 /\ s[1] = h /\ Len(t) \in Nat
      /\ \A i \in 1 .. Len(t) : s[i + 1] = t[i]
  BY HeadTailProperties, EmptySeq
<1>2. /\ w \in Seq(Nat) /\ Len(w) = 1 /\ \A i \in 1 .. Len(w) : s[i] = w[i]
  BY <1>1
<1>3. Len(e) \in Nat /\ Len(e) <= Len(t) /\ \A i \in 1 .. Len(e) : t[i] = e[i]
  <2>1. Len(e) \in Nat
    OBVIOUS
  <2> HIDE DEF t
  <2> QED
    BY <2>1, Zenon DEF t
<1> HIDE DEF t, w
<1>4. \A i \in 1 .. Len(e) : s[Len(w) + i] = e[i]
  <2>1. ASSUME NEW i \in 1 .. Len(e) PROVE s[1 + i] = e[i]
    <3>1. i \in 1 .. Len(t) /\ 1 + i = i + 1
      BY <1>1, <1>3
    <3> QED
      BY <1>1, <1>3, <3>1
  <2> QED
    BY <1>2, <2>1
<1>5. /\ u \in Seq(Nat) /\ Len(u) = 1 + Len(e) /\ \A i \in 1 .. Len(u) : s[i] = u[i]
  <2>1. u \in Seq(Nat)
    BY <1>2, ConcatProperties
  <2>2. Len(u) = Len(w) + Len(e) /\ \A i \in 1 .. Len(u) : s[i] = u[i]
    BY <1>2, <1>4, PartsAgree
  <2> QED
    BY <1>2, <2>1, <2>2
<1> HIDE DEF u
<1>6. Len(u) \in Nat /\ Len(u) <= Len(s)
  BY <1>1, <1>3, <1>5
<1>7. IsPrefix(u, s)
  <2>1. SubSeq(u, 1, Len(u)) = u
    BY <1>5, SubSeqFull
  <2>2. SubSeq(s, 0 + 1, 0 + Len(u)) = u
    <3>1. 0 + Len(u) <= Len(s) /\ \A i \in 1 .. Len(u) : s[0 + i] = u[i]
      BY <1>5, <1>6
    <3> QED
      BY <1>5, <3>1, IsPart
  <2>3. 0 + 1 = 1 /\ 0 + Len(u) = Len(u)
    BY <1>6
  <2> QED
    BY <1>6, <2>1, <2>2, <2>3 DEF IsPrefix
<1>8. ASSUME Len(e) = Len(t) PROVE u = s
  <2>1. Len(u) = Len(s)
    BY <1>1, <1>3, <1>5, <1>8
  <2> QED
    BY <1>5, <2>1, SeqEqual
<1> QED
  BY <1>7, <1>8 DEF u, w, t

LEMMA ReadsAllBack ==
  ASSUME NEW done, ReadBack(done), todo = <<>>, pos = size, receiver = "client"
  PROVE  Accounted(message, Understood, receiver, Protocol(receiver))
<1> DEFINE h == Head(message)
           kinds == Fields(receiver, h)
           e == Encoded(done, got)
<1>1. /\ message \in Seq(Nat) /\ message # <<>> /\ h \in Protocol("client") /\ h \in Nat
      /\ data = Tail(message) /\ pos \in 0 .. Len(data) /\ Len(data) \in Nat
      /\ done \o <<>> = kinds /\ Fitting(done, got) /\ done \in Seq(Kinds)
      /\ Len(e) <= pos /\ \A i \in 1 .. Len(e) : data[i] = e[i]
      /\ Len(e) = pos \/ (done # <<>> /\ Last(done) = "pack")
      /\ e \in Seq(Nat) /\ Len(e) \in Nat
  <2>1. Fitting(done, got) /\ message \in Seq(Nat) /\ message # <<>>
    BY DEF ReadBack
  <2>2. Tail(message) \in Seq(Nat) /\ Len(Tail(message)) \in Nat
    BY <2>1, HeadTailProperties
  <2>3. e \in Seq(Nat) /\ Len(e) \in Nat
    BY <2>1, FieldwiseType
  <2>4. h \in Protocol("client") /\ h \in Nat
    BY DEF ReadBack, Protocol, HelloTypes, ServerTypes
  <2> HIDE DEF h
  <2> QED
    BY <2>1, <2>2, <2>3, <2>4 DEF ReadBack, Fitting, h
<1>2. kinds = done
  BY <1>1, ConcatEmptySeq
<1>3. Understood = [type |-> h, fields |-> got]
  BY DEF Understood
<1>4. WellFormed(receiver, Protocol(receiver), Understood)
  <2>1. h \in Protocol(receiver)
    BY <1>1
  <2>2. /\ got \in Seq(Held) /\ Len(got) = Len(kinds)
        /\ \A i \in 1 .. Len(kinds) : got[i] \in FieldValues(kinds[i])
    BY <1>1, <1>2 DEF Fitting
  <2> HIDE DEF kinds, h
  <2>3. got = [i \in 1 .. Len(kinds) |-> got[i]]
    BY <2>2
  <2> QED
    BY <1>3, <2>1, <2>2, <2>3 DEF WellFormed, kinds
<1>5. encode(receiver, Understood) = <<h>> \o e
  BY <1>2, <1>3 DEF encode, Encoded, Fieldwise
<1>6. /\ IsPrefix(<<h>> \o e, message)
      /\ Len(e) = Len(data) => <<h>> \o e = message
  <2> DEFINE s == message
  <2> HIDE DEF h, e
  <2>1. /\ h \in Nat /\ e \in Seq(Nat) /\ s \in Seq(Nat) /\ s # <<>> /\ Head(s) = h
        /\ Len(e) <= Len(Tail(s)) /\ \A i \in 1 .. Len(e) : Tail(s)[i] = e[i]
    <3>1. s = message /\ Tail(s) = data
      BY <1>1
    <3>2. /\ h \in Nat /\ e \in Seq(Nat) /\ message \in Seq(Nat) /\ message # <<>>
          /\ h = Head(message)
      BY <1>1 DEF h
    <3>3. /\ Len(e) <= pos /\ pos <= Len(data) /\ Len(e) \in Nat /\ pos \in Nat
          /\ Len(data) \in Nat /\ \A i \in 1 .. Len(e) : data[i] = e[i]
      BY <1>1
    <3>4. Len(e) <= Len(data)
      BY <3>3
    <3> HIDE DEF s
    <3> QED
      BY <3>1, <3>2, <3>3, <3>4
  <2> HIDE DEF s
  <2>2. /\ IsPrefix(<<h>> \o e, s)
        /\ Len(e) = Len(Tail(s)) => <<h>> \o e = s
    BY <2>1, PrefixAfterHead
  <2> QED
    BY <1>1, <2>2 DEF s
<1> HIDE DEF e, kinds
<1>7. Fields(receiver, Understood.type) = done
  BY <1>2, <1>3 DEF kinds
<1> QED
  <2>1. pos = Len(data)
    BY DEF size
  <2> QED
    BY <1>1, <1>4, <1>5, <1>6, <1>7, <2>1 DEF Accounted, IsStrictPrefix

-----------------------------------------------------------------------------
(* Of other bytes, too, what was read so far is accounted for.             *)
BackSoFar ==
  ~spoiled /\ Parsing /\ ~Regular => \E done \in Seq(Kinds) : ReadBack(done)

BackInv == ReadingInv /\ BackSoFar /\ NothingElseAccepted

(* A step that leaves the reader alone.                                    *)
LEMMA BackSame ==
  ASSUME BackInv, UNCHANGED <<receiver, data, pos, todo, got, outcome, message>>,
         spoiled \in BOOLEAN, ~spoiled' => ~spoiled
  PROVE  BackSoFar' /\ NothingElseAccepted'
<1>1. BackSoFar'
  <2> SUFFICES ASSUME ~spoiled', Parsing', ~Regular'
               PROVE  \E done \in Seq(Kinds) : ReadBack(done)'
    BY DEF BackSoFar
  <2>1. ~spoiled /\ Parsing /\ ~Regular
    BY DEF Parsing, Regular
  <2>2. PICK done \in Seq(Kinds) : ReadBack(done)
    BY <2>1 DEF BackInv, BackSoFar
  <2>3. ReadBack(done)'
    BY <2>2 DEF ReadBack, Bytewise, Encoded, Fieldwise, Fitting, Layout, Fields, Last
  <2> QED
    BY <2>3
<1>2. NothingElseAccepted'
  BY DEF BackInv, NothingElseAccepted, WellFormed, Protocol, Understood, encode, Fields,
         IsStrictPrefix, IsPrefix, Last
<1> QED
  BY <1>1, <1>2

LEMMA BackTakes ==
  ASSUME BackInv, reading, ~Parsing, ~Thrown,
         read_message, handle_message(message'), UNCHANGED <<receiver, greeted>>
  PROVE  BackSoFar' /\ NothingElseAccepted'
<1>1. /\ receiver \in {"client", "server"} /\ FramingInv /\ ~failed
      /\ queue \in Seq(Seq(Nat))
  BY DEF BackInv, ReadingInv, WireInv, FramingInv, FramingType
<1>2. UNCHANGED spoiled
  BY DEF read_message
<1>3. NothingElseAccepted'
  <2>1. outcome' # "accepted"
    BY DEF handle_message, begin, throw
  <2> QED
    BY <2>1 DEF NothingElseAccepted
<1>4. BackSoFar'
  <2> SUFFICES ASSUME ~spoiled', Parsing', ~Regular'
               PROVE  \E done \in Seq(Kinds) : ReadBack(done)'
    BY DEF BackSoFar
  <2>1. receiver = "client" /\ message' \in Malformed
    BY DEF Regular
  <2>2. /\ message' # <<>> /\ Head(message') \in Protocol("client")
        /\ begin(Tail(message'), Fields(receiver, Head(message')))
    BY <2>1 DEF handle_message, throw, Parsing, Readable, Protocol
  <2>3. Fits(message')
    <3>1. queue # <<>> /\ message' = Head(queue)
      BY <1>1, <1>2, ReadsTheNext
    <3>2. 1 \in 1 .. Len(queue) /\ message' = queue[1]
      BY <1>1, <3>1, EmptySeq
    <3> QED
      BY <1>1, <1>2, <3>2 DEF FramingInv, AllFit
  <2>4. ReadBack(<<>>)'
    BY <2>1, <2>2, <2>3, BeginsBack
  <2> QED
    BY <2>4, EmptySeq
<1> QED
  BY <1>3, <1>4

LEMMA BackParses ==
  ASSUME BackInv, parse
  PROVE  BackSoFar' /\ NothingElseAccepted'
<1>1. /\ greeted \in BOOLEAN /\ receiver \in {"client", "server"}
  BY DEF BackInv, ReadingInv, WireInv
<1>2. /\ UNCHANGED <<receiver, message, spoiled>>
      /\ greeted' = (greeted \/ outcome' = "accepted") /\ read_field
  BY DEF parse, framingVars
<1>3. outcome = "parsing"
  BY <1>2 DEF read_field, Reads, read8, read16, read32, read_string, read_msgpack, check_empty
<1>4. CASE spoiled
  BY <1>2, <1>4 DEF BackSoFar, NothingElseAccepted
<1>5. CASE ~spoiled /\ Regular
  <2>1. PICK m \in Awaited, left \in Seq(Held) : Halfway(m, left)
    BY <1>3, <1>5 DEF BackInv, ReadingInv, ReadSoFar, Parsing
  <2>2. CASE todo # <<>>
    <3>1. outcome' = "parsing"
      BY <1>2, <1>3, <2>1, <2>2, ReadsOn
    <3>2. Regular'
      BY <1>2, <1>5 DEF Regular
    <3> QED
      BY <3>1, <3>2 DEF BackSoFar, NothingElseAccepted
  <2>3. CASE todo = <<>>
    <3>1. outcome' = "accepted" /\ UNCHANGED got /\ Understood = m
      BY <1>1, <1>2, <1>3, <2>1, <2>3, ReadsAll
    <3>2. Understood' = m /\ message' = encode(receiver, m)
      BY <1>2, <2>1, <3>1 DEF Understood, Halfway
    <3>3. WellFormed(receiver, Protocol(receiver), m)
      BY <1>1, WireAssumption DEF Awaited, Protocol, WellFormed
    <3>4. NothingElseAccepted'
      BY <1>2, <3>2, <3>3
         DEF NothingElseAccepted, WellFormed, Protocol, encode, Fields
    <3> QED
      BY <3>1, <3>4 DEF BackSoFar, Parsing
  <2> QED
    BY <2>2, <2>3
<1>6. CASE ~spoiled /\ ~Regular
  <2>1. PICK done \in Seq(Kinds) : ReadBack(done)
    BY <1>3, <1>6 DEF BackInv, BackSoFar, Parsing
  <2>2. receiver = "client"
    BY <1>6 DEF Regular
  <2>3. CASE todo # <<>>
    <3>1. NothingElseAccepted'
      <4>1. outcome' # "accepted"
        BY <1>2, <1>3, <2>3 DEF read_field, read8, read16, read32, read_string, read_msgpack,
                                check_empty, advance, throw
      <4> QED
        BY <4>1 DEF NothingElseAccepted
    <3>2. BackSoFar'
      <4> SUFFICES ASSUME Parsing' PROVE \E more \in Seq(Kinds) : ReadBack(more)'
        BY DEF BackSoFar
      <4>1. PICK kind : kind = Head(todo)
        OBVIOUS
      <4>2. ReadBack(Append(done, kind))'
        BY <1>2, <1>3, <2>1, <2>3, <4>1, ReadsOnBack DEF Parsing
      <4>3. kind \in Kinds
        BY <2>1, <2>3, <4>1, HeadTailProperties DEF ReadBack, Layout
      <4>4. Append(done, kind) \in Seq(Kinds)
        BY <2>1, <4>3, AppendProperties
      <4> QED
        BY <4>2, <4>4
    <3> QED
      BY <3>1, <3>2
  <2>4. CASE todo = <<>>
    <3>1. check_empty
      BY <1>2, <2>4 DEF read_field, Reads, read8, read16, read32, read_string, read_msgpack
    <3>2. outcome' # "parsing" /\ UNCHANGED got
      BY <3>1 DEF check_empty
    <3>3. ASSUME outcome' = "accepted" PROVE NothingElseAccepted'
      <4>1. pos = size
        BY <3>1, <3>3 DEF check_empty
      <4>2. Accounted(message, Understood, receiver, Protocol(receiver))
        BY <2>1, <2>2, <2>4, <4>1, ReadsAllBack
      <4> QED
        BY <1>2, <3>2, <4>2
           DEF Accounted, NothingElseAccepted, WellFormed, Protocol, Understood, encode, Fields,
               IsStrictPrefix, IsPrefix, Last
    <3> QED
      BY <3>2, <3>3 DEF BackSoFar, Parsing, NothingElseAccepted
  <2> QED
    BY <2>3, <2>4
<1> QED
  BY <1>4, <1>5, <1>6

LEMMA BackStep ==
  ASSUME BackInv, ~Torn, [Next]_vars
  PROVE  BackInv'
<1>1. /\ ReadingInv /\ spoiled \in BOOLEAN
  BY DEF BackInv, ReadingInv, WireInv, FramingInv, FramingType
<1>2. ReadingInv'
  BY <1>1, ReadingStep
<1>3. CASE transmit
  <2>1. /\ UNCHANGED <<receiver, greeted, data, pos, todo, got, outcome, message>>
        /\ ~spoiled' => ~spoiled
    BY <1>1, <1>3 DEF transmit, parserVars, send
  <2> QED
    BY <1>1, <1>2, <2>1, BackSame DEF BackInv
<1>4. CASE receive
  <2>1. UNCHANGED <<receiver, greeted, data, pos, todo, got, outcome, message, spoiled>>
    BY <1>4 DEF receive, push, parserVars
  <2> QED
    BY <1>1, <1>2, <2>1, BackSame DEF BackInv
<1>5. CASE unpack
  <2>0. reading /\ ~Parsing /\ ~Thrown /\ UNCHANGED <<receiver, greeted>>
    BY <1>5 DEF unpack
  <2>1. CASE read_message /\ handle_message(message')
    BY <1>2, <2>0, <2>1, BackTakes DEF BackInv
  <2>2. CASE read_error /\ UNCHANGED parserVars
    <3>1. failed'
      BY <2>2 DEF read_error
    <3>2. spoiled'
      BY <1>2, <3>1 DEF ReadingInv, WireInv, FramingInv, OnlySpoiledFails
    <3> QED
      BY <1>2, <3>2 DEF BackInv, BackSoFar, NothingElseAccepted
  <2>3. CASE read_nothing /\ discard
    <3>1. outcome' = "idle"
      BY <2>3 DEF discard
    <3> QED
      BY <1>2, <3>1 DEF BackInv, BackSoFar, NothingElseAccepted, Parsing
  <2> QED
    BY <1>5, <2>1, <2>2, <2>3 DEF unpack
<1>6. CASE parse
  BY <1>2, <1>6, BackParses DEF BackInv
<1>7. CASE connect_again
  <2>1. UNCHANGED outcome /\ ~reading /\ ~failed
    BY <1>7 DEF connect_again, reconnect, parserVars
  <2>2. outcome' = "idle"
    BY <1>1, <2>1 DEF ReadingInv, NoneBetween
  <2> QED
    BY <1>2, <2>2 DEF BackInv, BackSoFar, NothingElseAccepted, Parsing
<1>8. CASE UNCHANGED vars
  <2>1. UNCHANGED <<receiver, greeted, data, pos, todo, got, outcome, message, spoiled>>
    BY <1>8 DEF vars, framingVars, parserVars
  <2> QED
    BY <1>1, <1>2, <2>1, BackSame DEF BackInv
<1> QED
  BY <1>3, <1>4, <1>5, <1>6, <1>7, <1>8 DEF Next

(* Whatever bytes come, a message is accepted only if it is one of the     *)
(* protocol, written again as it was received: the readers never make a    *)
(* message of bytes that no writer would have produced.                    *)
THEOREM OnlyMessagesAccepted == ASSUME ~Torn PROVE Spec => []NothingElseAccepted
<1>1. Init => BackInv
  <2> SUFFICES ASSUME Init PROVE BackInv
    OBVIOUS
  <2>1. outcome = "idle"
    BY DEF Init, ParserInit
  <2> QED
    BY <2>1, ReadingStarts DEF BackInv, BackSoFar, NothingElseAccepted, Parsing
<1>2. BackInv /\ [Next]_vars => BackInv'
  BY BackStep
<1>3. BackInv => NothingElseAccepted
  BY DEF BackInv
<1> QED
  BY <1>1, <1>2, <1>3, PTL DEF Spec

-----------------------------------------------------------------------------
(* The log.  The visitor takes c in state v and is in state w then.        *)
Visits(f, v, c) ==
  f = [n \in 0 .. Len(c) |-> IF n = 0 THEN v ELSE visit(f[n - 1], c[n])]
Leads(v, c, w) == \E f : Visits(f, v, c) /\ f[Len(c)] = w

(* No call leaves it as it is, and one call is one visit.                  *)
LEMMA VisitNone ==
  ASSUME NEW v
  PROVE  Leads(v, <<>>, v)
<1> DEFINE f == [n \in 0 .. 0 |-> v]
<1>1. Len(<<>>) = 0
  OBVIOUS
<1>2. f = [n \in 0 .. 0 |-> IF n = 0 THEN v ELSE visit(f[n - 1], <<>>[n])] /\ f[0] = v
  OBVIOUS
<1> HIDE DEF f
<1>3. Visits(f, v, <<>>) /\ f[Len(<<>>)] = v
  BY <1>1, <1>2 DEF Visits
<1> QED
  BY <1>3 DEF Leads

LEMMA VisitOne ==
  ASSUME NEW v, NEW e
  PROVE  Leads(v, <<e>>, visit(v, e))
<1> DEFINE w == visit(v, e)
           c == <<e>>
           f == [n \in 0 .. 1 |-> IF n = 0 THEN v ELSE w]
<1>1. Len(c) = 1 /\ c[1] = e
  OBVIOUS
<1>2. f[0] = v /\ f[1] = w /\ f = [n \in 0 .. 1 |-> f[n]]
  OBVIOUS
<1> HIDE DEF f, c
<1>3. \A n \in 0 .. 1 : f[n] = IF n = 0 THEN v ELSE visit(f[n - 1], c[n])
  <2> TAKE n \in 0 .. 1
  <2>1. CASE n = 0
    BY <1>2, <2>1
  <2>2. CASE n = 1
    <3>1. n - 1 = 0 /\ n # 0
      BY <2>2
    <3> QED
      BY <1>1, <1>2, <2>2, <3>1
  <2> QED
    BY <2>1, <2>2
<1>4. Visits(f, v, c)
  BY <1>1, <1>2, <1>3 DEF Visits
<1>5. Leads(v, c, w)
  BY <1>1, <1>2, <1>4 DEF Leads
<1> QED
  BY <1>5 DEF c

(* Calls are taken one after another.                                      *)
LEMMA VisitMore ==
  ASSUME NEW S, NEW c \in Seq(S), NEW d \in Seq(S), NEW v, NEW w, NEW x,
         Leads(v, c, w), Leads(w, d, x)
  PROVE  Leads(v, c \o d, x)
<1> DEFINE m == Len(c)
           n == Len(d)
           e == c \o d
<1>1. PICK f : Visits(f, v, c) /\ f[m] = w
  BY DEF Leads
<1>2. PICK g : Visits(g, w, d) /\ g[n] = x
  BY DEF Leads
<1>3. \A i \in 0 .. m : f[i] = IF i = 0 THEN v ELSE visit(f[i - 1], c[i])
  BY <1>1 DEF Visits
<1>4. \A i \in 0 .. n : g[i] = IF i = 0 THEN w ELSE visit(g[i - 1], d[i])
  BY <1>2 DEF Visits
<1>5. /\ m \in Nat /\ n \in Nat /\ Len(e) = m + n
      /\ \A i \in 1 .. m + n : e[i] = IF i <= m THEN c[i] ELSE d[i - m]
  BY ConcatProperties
<1> HIDE DEF m, n, e
<1> DEFINE h == [i \in 0 .. m + n |-> IF i <= m THEN f[i] ELSE g[i - m]]
<1>6. /\ h = [i \in 0 .. m + n |-> h[i]]
      /\ \A i \in 0 .. m + n : h[i] = IF i <= m THEN f[i] ELSE g[i - m]
  OBVIOUS
<1> HIDE DEF h
<1>7. \A i \in 0 .. m + n : ~(i < m) => h[i] = g[i - m]
  <2> TAKE i \in 0 .. m + n
  <2> HAVE ~(i < m)
  <2>1. CASE i = m
    <3>1. i - m = 0 /\ 0 \in 0 .. n /\ i <= m
      BY <1>5, <2>1
    <3> QED
      BY <1>1, <1>4, <1>6, <2>1, <3>1
  <2>2. CASE i # m
    <3>1. ~(i <= m)
      BY <1>5, <2>2
    <3> QED
      BY <1>6, <3>1
  <2> QED
    BY <2>1, <2>2
<1>8. \A i \in 0 .. m + n : h[i] = IF i = 0 THEN v ELSE visit(h[i - 1], e[i])
  <2> TAKE i \in 0 .. m + n
  <2>1. CASE i = 0
    <3>1. i <= m /\ 0 \in 0 .. m
      BY <1>5, <2>1
    <3> QED
      BY <1>3, <1>6, <2>1, <3>1
  <2>2. CASE i # 0 /\ i <= m
    <3>1. /\ i \in 0 .. m /\ i \in 1 .. m + n /\ i - 1 \in 0 .. m + n /\ i - 1 <= m
      BY <1>5, <2>2
    <3>2. h[i] = f[i] /\ h[i - 1] = f[i - 1] /\ e[i] = c[i]
      BY <1>5, <1>6, <2>2, <3>1
    <3> QED
      BY <1>3, <2>2, <3>1, <3>2
  <2>3. CASE ~(i <= m)
    <3>1. /\ i - m \in 0 .. n /\ i - m # 0 /\ i \in 1 .. m + n /\ i - 1 \in 0 .. m + n
          /\ ~(i - 1 < m) /\ (i - 1) - m = (i - m) - 1 /\ i # 0
      BY <1>5, <2>3
    <3>2. h[i] = g[i - m] /\ h[i - 1] = g[(i - m) - 1] /\ e[i] = d[i - m]
      BY <1>5, <1>6, <1>7, <2>3, <3>1
    <3> QED
      BY <1>4, <3>1, <3>2
  <2> QED
    BY <2>1, <2>2, <2>3
<1>9. Visits(h, v, e)
  BY <1>5, <1>6, <1>8 DEF Visits
<1>10. h[m + n] = x
  <2>1. m + n \in 0 .. m + n /\ ~(m + n < m) /\ (m + n) - m = n
    BY <1>5
  <2> QED
    BY <1>2, <1>7, <2>1
<1> QED
  BY <1>5, <1>9, <1>10 DEF Leads, e

(* There is only one way to take them.                                     *)
LEMMA VisitOnly ==
  ASSUME NEW v, NEW c, Len(c) \in Nat, NEW w, Leads(v, c, w), NEW g, Visits(g, v, c)
  PROVE  g[Len(c)] = w
<1> DEFINE n == Len(c)
<1>1. PICK f : Visits(f, v, c) /\ f[n] = w
  BY DEF Leads
<1>2. \A i \in 0 .. n : f[i] = IF i = 0 THEN v ELSE visit(f[i - 1], c[i])
  BY <1>1 DEF Visits
<1>3. \A i \in 0 .. n : g[i] = IF i = 0 THEN v ELSE visit(g[i - 1], c[i])
  BY DEF Visits
<1> DEFINE T == {i \in Nat : i <= n => f[i] = g[i]}
<1>0. n \in Nat
  OBVIOUS
<1> HIDE DEF n
<1>4. 0 \in T
  <2>1. 0 \in 0 .. n
    BY <1>0
  <2> QED
    BY <1>2, <1>3, <2>1
<1>5. ASSUME NEW i \in Nat, i \in T PROVE i + 1 \in T
  <2> SUFFICES ASSUME i + 1 <= n PROVE f[i + 1] = g[i + 1]
    OBVIOUS
  <2>1. i + 1 \in 0 .. n /\ i + 1 # 0 /\ (i + 1) - 1 = i /\ i <= n
    BY <1>0
  <2> QED
    BY <1>2, <1>3, <1>5, <2>1
<1>6. n \in T
  <2> HIDE DEF T
  <2>1. Nat \subseteq T
    BY <1>4, <1>5, SetInduction
  <2> QED
    BY <1>0, <2>1
<1> QED
  BY <1>0, <1>1, <1>6 DEF n

-----------------------------------------------------------------------------
(* What each visit does.                                                   *)
Visitor(s, sizes) == [s |-> s, current_size |-> sizes]
Characters ==
  STRING \cup {",", ":", "[", "]", "{", "}", "\"", "\\", "/", "n", "u00XX"}
Text == Seq(Characters)
Sizes == Seq(Nat)
Names ==
  {"visit_atom", "visit_str", "start_array", "start_array_item", "end_array_item",
   "end_array", "start_map", "start_map_key", "end_map_key", "start_map_value",
   "end_map_value", "end_map"}
Calls_made == [call : Names, arg : STRING \cup Seq(STRING) \cup Nat]

(* The number on the top of the stack, and the stack without one item.     *)
LEMMA LastSize ==
  ASSUME NEW sizes \in Sizes, NEW n \in Nat
  PROVE  /\ Append(sizes, n) \in Sizes
         /\ Last(Append(sizes, n)) = n /\ Front(Append(sizes, n)) = sizes
<1> DEFINE t == Append(sizes, n)
           m == Len(sizes)
<1>1. /\ t \in Seq(Nat) /\ Len(t) = m + 1 /\ t[m + 1] = n /\ m \in Nat
      /\ \A i \in 1 .. m : t[i] = sizes[i]
  BY AppendProperties DEF Sizes
<1> HIDE DEF t
<1>2. Last(t) = n
  BY <1>1 DEF Last
<1>3. Front(t) = SubSeq(t, 1, m)
  BY <1>1 DEF Front
<1>4. SubSeq(t, 1, m) = sizes
  <2> DEFINE u == SubSeq(t, 1, m)
  <2>1. u \in Seq(Nat) /\ Len(u) = m /\ \A i \in 1 .. m : u[i] = t[i]
    BY <1>1
  <2> HIDE DEF u, m
  <2>2. \A i \in 1 .. m : u[i] = sizes[i]
    BY <1>1, <2>1
  <2>3. u = sizes
    BY <2>1, <2>2, SeqEqual DEF Sizes, m
  <2> QED
    BY <2>3 DEF u
<1> QED
  BY <1>1, <1>2, <1>3, <1>4 DEF t, Sizes

(* What the visitor does with the calls that leave its stack alone.        *)
LEMMA VisitsPart ==
  ASSUME NEW s \in Text, NEW sizes \in Sizes
  PROVE  /\ \A t : visit(Visitor(s, sizes), Event("visit_atom", t)) = Visitor(s \o <<t>>, sizes)
         /\ \A t : visit(Visitor(s, sizes), Event("visit_str", t))
                     = Visitor(s \o visit_str(t), sizes)
         /\ \A n : visit(Visitor(s, sizes), Event("start_array", n))
                     = Visitor(Append(s, "["), Append(sizes, n))
         /\ \A n : visit(Visitor(s, sizes), Event("start_map", n))
                     = Visitor(Append(s, "{"), Append(sizes, n))
         /\ visit(Visitor(s, sizes), Event("end_map_key", 0)) = Visitor(s \o <<":">>, sizes)
         /\ \A call \in {"start_array_item", "start_map_key", "start_map_value"} :
              visit(Visitor(s, sizes), Event(call, 0)) = Visitor(s, sizes)
BY DEF visit, Event, Visitor

(* And at the end of an item: one less to come, and a comma or none.       *)
LEMMA VisitsEnd ==
  ASSUME NEW s \in Text, NEW sizes \in Sizes, NEW n \in Nat
  PROVE  /\ visit(Visitor(s, Append(sizes, n)), Event("end_array", 0))
              = Visitor(Append(s, "]"), sizes)
         /\ visit(Visitor(s, Append(sizes, n)), Event("end_map", 0))
              = Visitor(Append(s, "}"), sizes)
         /\ \A call \in {"end_array_item", "end_map_value"} :
              visit(Visitor(s, Append(sizes, n)), Event(call, 0))
                = Visitor(s \o (IF n - 1 # 0 THEN <<",">> ELSE <<>>), Append(sizes, n - 1))
<1> DEFINE more == Append(sizes, n)
<1>1. Last(more) = n /\ Front(more) = sizes
  BY LastSize
<1> HIDE DEF more
<1>2. /\ visit(Visitor(s, more), Event("end_array", 0)) = Visitor(Append(s, "]"), sizes)
      /\ visit(Visitor(s, more), Event("end_map", 0)) = Visitor(Append(s, "}"), sizes)
  BY <1>1 DEF visit, Event, Visitor
<1>3. ASSUME NEW call \in {"end_array_item", "end_map_value"}
      PROVE  visit(Visitor(s, more), Event(call, 0)) = end_item(Visitor(s, more))
  BY <1>3 DEF visit, Event
<1>4. end_item(Visitor(s, more))
        = Visitor(s \o (IF n - 1 # 0 THEN <<",">> ELSE <<>>), Append(sizes, n - 1))
  BY <1>1 DEF end_item, Visitor
<1> QED
  BY <1>2, <1>3, <1>4 DEF more

-----------------------------------------------------------------------------
(* The calls made for a part write the text of it, whatever was written    *)
(* before and whatever is open.                                            *)
Told(c, t) ==
  /\ c \in Seq(Calls_made) /\ t \in Text
  /\ \A s \in Text, sizes \in Sizes : Leads(Visitor(s, sizes), c, Visitor(s \o t, sizes))

(* Those for an item write its text and, unless it is the last one, a      *)
(* comma.                                                                  *)
Comma(n) == IF n - 1 # 0 THEN <<",">> ELSE <<>>
ItemTold(c, t) ==
  /\ c \in Seq(Calls_made) /\ t \in Text
  /\ \A s \in Text, sizes \in Sizes, n \in Nat \ {0} :
       Leads(Visitor(s, Append(sizes, n)), c,
             Visitor(s \o (t \o Comma(n)), Append(sizes, n - 1)))

(* Sequences of one and of two elements.                                   *)
LEMMA Single ==
  ASSUME NEW S, NEW e \in S
  PROVE  <<e>> \in Seq(S)
OBVIOUS

LEMMA Pair ==
  ASSUME NEW S, NEW d \in S, NEW e \in S
  PROVE  <<d, e>> \in Seq(S)
OBVIOUS

(* A call by itself is a sequence of calls.                                *)
LEMMA OneCall ==
  ASSUME NEW name \in Names, NEW x \in STRING \cup Seq(STRING) \cup Nat
  PROVE  <<Event(name, x)>> \in Seq(Calls_made)
<1>1. Event(name, x) \in Calls_made
  BY DEF Event, Calls_made
<1> HIDE DEF Calls_made
<1> QED
  BY <1>1, Single

(* Texts put together are a text, and it does not matter in what order.    *)
LEMMA TextParts ==
  ASSUME NEW s \in Text, NEW t \in Text, NEW u \in Text
  PROVE  s \o t \in Text /\ (s \o t) \o u = s \o (t \o u)
BY ConcatAssociative, ConcatProperties DEF Text

LEMMA TextAssociative ==
  \A s, t, u \in Text : (s \o t) \o u = s \o (t \o u)
BY TextParts

(* So is the comma after an item, if there is one.                         *)
LEMMA CommaText ==
  ASSUME NEW n
  PROVE  Comma(n) \in Text
<1>1. "," \in Characters
  BY DEF Characters
<1>2. <<",">> \in Seq(Characters)
  BY <1>1, Single
<1>3. <<>> \in Seq(Characters)
  BY EmptySeq
<1> QED
  BY <1>2, <1>3 DEF Comma, Text

(* The calls for an item of an array are those of its value, wrapped.      *)
LEMMA ArrayItem ==
  ASSUME NEW c, NEW t, Told(c, t)
  PROVE  ItemTold(array_item(c), t)
<1> DEFINE a == <<Event("start_array_item", 0)>>
           z == <<Event("end_array_item", 0)>>
<1>1. a \in Seq(Calls_made) /\ z \in Seq(Calls_made) /\ c \in Seq(Calls_made)
  <2>1. /\ 0 \in STRING \cup Seq(STRING) \cup Nat
        /\ {"start_array_item", "end_array_item"} \subseteq Names
    BY DEF Names
  <2>2. a \in Seq(Calls_made)
    BY <2>1, OneCall
  <2>3. z \in Seq(Calls_made)
    BY <2>1, OneCall
  <2> QED
    BY <2>2, <2>3 DEF Told
<1>2. t \in Text
  BY DEF Told
<1>3. a \o c \in Seq(Calls_made) /\ (a \o c) \o z \in Seq(Calls_made)
  <2> HIDE DEF a, z
  <2> QED
    BY <1>1, ConcatProperties
<1>4. array_item(c) = (a \o c) \o z
  BY DEF array_item
<1> HIDE DEF a, z
<1> SUFFICES ASSUME NEW s \in Text, NEW sizes \in Sizes, NEW n \in Nat \ {0}
             PROVE  Leads(Visitor(s, Append(sizes, n)), (a \o c) \o z,
                          Visitor(s \o (t \o Comma(n)), Append(sizes, n - 1)))
  BY <1>2, <1>3, <1>4 DEF ItemTold
<1> DEFINE more == Append(sizes, n)
           less == Append(sizes, n - 1)
<1>5. more \in Sizes
  BY LastSize
<1>6. Leads(Visitor(s, more), a, Visitor(s, more))
  <2>1. visit(Visitor(s, more), Event("start_array_item", 0)) = Visitor(s, more)
    BY <1>5, VisitsPart
  <2> QED
    BY <2>1, VisitOne DEF a
<1>7. Leads(Visitor(s, more), c, Visitor(s \o t, more))
  BY <1>5 DEF Told
<1>8. Leads(Visitor(s \o t, more), z, Visitor((s \o t) \o Comma(n), less))
  <2>1. s \o t \in Text
    BY <1>2, ConcatProperties DEF Text
  <2>2. visit(Visitor(s \o t, more), Event("end_array_item", 0))
          = Visitor((s \o t) \o Comma(n), less)
    BY <2>1, VisitsEnd DEF Comma
  <2> QED
    BY <2>2, VisitOne DEF z
<1>9. (s \o t) \o Comma(n) = s \o (t \o Comma(n))
  <2>1. Comma(n) \in Text
    BY CommaText
  <2>2. s \in Text
    OBVIOUS
  <2> QED
    BY <1>2, <2>1, <2>2, TextAssociative, Zenon
<1> HIDE DEF more, less
<1>10. Leads(Visitor(s, more), a \o c, Visitor(s \o t, more))
  BY <1>1, <1>6, <1>7, VisitMore
<1>11. Leads(Visitor(s, more), (a \o c) \o z, Visitor((s \o t) \o Comma(n), less))
  BY <1>1, <1>3, <1>8, <1>10, VisitMore
<1> QED
  BY <1>9, <1>11 DEF more, less

(* Those for an item of a map are those of its key and of its value.       *)
LEMMA MapPair ==
  ASSUME NEW c, NEW d, NEW t, NEW u, Told(c, t), Told(d, u)
  PROVE  ItemTold(map_pair(c, d), t \o <<":">> \o u)
<1> DEFINE a == <<Event("start_map_key", 0)>>
           k == <<Event("end_map_key", 0)>>
           b == <<Event("start_map_value", 0)>>
           z == <<Event("end_map_value", 0)>>
           colon == <<":">>
           all == ((((a \o c) \o k) \o b) \o d) \o z
<1>1. /\ a \in Seq(Calls_made) /\ k \in Seq(Calls_made) /\ b \in Seq(Calls_made)
      /\ z \in Seq(Calls_made) /\ c \in Seq(Calls_made) /\ d \in Seq(Calls_made)
  <2>1. /\ 0 \in STRING \cup Seq(STRING) \cup Nat
        /\ {"start_map_key", "end_map_key", "start_map_value", "end_map_value"} \subseteq Names
    BY DEF Names
  <2>2. a \in Seq(Calls_made) /\ k \in Seq(Calls_made)
    BY <2>1, OneCall
  <2>3. b \in Seq(Calls_made) /\ z \in Seq(Calls_made)
    BY <2>1, OneCall
  <2> QED
    BY <2>2, <2>3 DEF Told
<1>2. t \in Text /\ u \in Text /\ colon \in Text
  <2>1. ":" \in Characters
    BY DEF Characters
  <2> QED
    BY <2>1, Single DEF Told, Text
<1>3. map_pair(c, d) = all
  BY DEF map_pair
<1>4. t \o colon \o u \in Text
  BY <1>2, TextParts
<1>5. /\ a \o c \in Seq(Calls_made) /\ (a \o c) \o k \in Seq(Calls_made)
       /\ ((a \o c) \o k) \o b \in Seq(Calls_made)
       /\ (((a \o c) \o k) \o b) \o d \in Seq(Calls_made)
       /\ all \in Seq(Calls_made)
  <2> HIDE DEF a, k, b, z
  <2> QED
    BY <1>1, ConcatProperties
<1> HIDE DEF a, k, b, z, colon
<1> SUFFICES ASSUME NEW s \in Text, NEW sizes \in Sizes, NEW n \in Nat \ {0}
             PROVE  Leads(Visitor(s, Append(sizes, n)), all,
                          Visitor(s \o ((t \o colon \o u) \o Comma(n)), Append(sizes, n - 1)))
  BY <1>3, <1>4, <1>5 DEF ItemTold, colon
<1> DEFINE more == Append(sizes, n)
           less == Append(sizes, n - 1)
           s1 == s \o t
           s2 == s1 \o colon
           s3 == s2 \o u
           s4 == s3 \o Comma(n)
<1>6. more \in Sizes
  BY LastSize
<1>7. s1 \in Text /\ s2 \in Text /\ s3 \in Text
  BY <1>2, TextParts
<1> HIDE DEF s1, s2, s3, s4
<1>8. Leads(Visitor(s, more), a, Visitor(s, more))
  <2>1. visit(Visitor(s, more), Event("start_map_key", 0)) = Visitor(s, more)
    BY <1>6, VisitsPart
  <2> QED
    BY <2>1, VisitOne DEF a
<1>9. Leads(Visitor(s, more), c, Visitor(s1, more))
  BY <1>6 DEF Told, s1
<1>10. Leads(Visitor(s1, more), k, Visitor(s2, more))
  <2>1. visit(Visitor(s1, more), Event("end_map_key", 0)) = Visitor(s2, more)
    BY <1>6, <1>7, VisitsPart DEF s2, colon
  <2> QED
    BY <2>1, VisitOne DEF k
<1>11. Leads(Visitor(s2, more), b, Visitor(s2, more))
  <2>1. visit(Visitor(s2, more), Event("start_map_value", 0)) = Visitor(s2, more)
    BY <1>6, <1>7, VisitsPart
  <2> QED
    BY <2>1, VisitOne DEF b
<1>12. Leads(Visitor(s2, more), d, Visitor(s3, more))
  BY <1>6, <1>7 DEF Told, s3
<1>13. Leads(Visitor(s3, more), z, Visitor(s4, less))
  <2>1. visit(Visitor(s3, more), Event("end_map_value", 0)) = Visitor(s4, less)
    BY <1>7, VisitsEnd DEF Comma, s4
  <2> QED
    BY <2>1, VisitOne DEF z
<1> HIDE DEF more, less
<1>14. Leads(Visitor(s, more), a \o c, Visitor(s1, more))
  BY <1>1, <1>8, <1>9, VisitMore
<1>15. Leads(Visitor(s, more), (a \o c) \o k, Visitor(s2, more))
  BY <1>1, <1>5, <1>10, <1>14, VisitMore
<1>16. Leads(Visitor(s, more), ((a \o c) \o k) \o b, Visitor(s2, more))
  BY <1>1, <1>5, <1>11, <1>15, VisitMore
<1>17. Leads(Visitor(s, more), (((a \o c) \o k) \o b) \o d, Visitor(s3, more))
  BY <1>1, <1>5, <1>12, <1>16, VisitMore
<1>18. Leads(Visitor(s, more), all, Visitor(s4, less))
  BY <1>1, <1>5, <1>13, <1>17, VisitMore
<1>19. s4 = s \o ((t \o colon \o u) \o Comma(n))
  <2>1. Comma(n) \in Text
    BY CommaText
  <2>2. s2 = s \o (t \o colon)
    BY <1>2, TextParts DEF s1, s2
  <2>3. t \o colon \in Text
    BY <1>2, TextParts
  <2>4. (s \o (t \o colon)) \o u = s \o (t \o colon \o u)
    <3> DEFINE head == t \o colon
    <3>1. head \in Text
      BY <2>3
    <3> HIDE DEF head
    <3>2. s \in Text /\ u \in Text
      BY <1>2
    <3>3. (s \o head) \o u = s \o (head \o u)
      BY <3>1, <3>2, TextAssociative, Zenon
    <3> QED
      BY <3>3, Zenon DEF head
  <2>5. s3 = s \o (t \o colon \o u)
    BY <2>2, <2>4, Zenon DEF s3
  <2>6. s4 = (s \o (t \o colon \o u)) \o Comma(n)
    BY <2>5, Zenon DEF s4
  <2>7. s \in Text
    OBVIOUS
  <2>8. (s \o (t \o colon \o u)) \o Comma(n) = s \o ((t \o colon \o u) \o Comma(n))
    BY <1>4, <2>1, <2>7, TextAssociative, Zenon
  <2> QED
    BY <2>6, <2>8, Zenon
<1>20. Leads(Visitor(s, more), all, Visitor(s \o ((t \o colon \o u) \o Comma(n)), less))
  BY <1>18, <1>19, Zenon
<1> QED
  BY <1>20, Zenon DEF more, less

(* The items of an array or a map, one after another.                      *)
LEMMA ItemsTold ==
  ASSUME NEW n \in Nat, NEW parts, NEW texts,
         \A i \in 1 .. n : ItemTold(parts[i], texts[i])
  PROVE  LET made == FlattenSeq([i \in 1 .. n |-> parts[i]])
             t == Commas([i \in 1 .. n |-> texts[i]])
         IN /\ made \in Seq(Calls_made) /\ t \in Text
            /\ \A s \in Text, sizes \in Sizes :
                 Leads(Visitor(s, Append(sizes, n)), made,
                       Visitor(s \o t, Append(sizes, 0)))
<1> DEFINE more(i) == texts[i] \o Comma(n - i + 1)
           P(m) == [i \in 1 .. m |-> parts[i]]
           X(m) == [i \in 1 .. m |-> more(i)]
<1>1. \A i \in 1 .. n : /\ parts[i] \in Seq(Calls_made) /\ texts[i] \in Text
                        /\ more(i) \in Text
  <2> TAKE i \in 1 .. n
  <2>1. parts[i] \in Seq(Calls_made) /\ texts[i] \in Text
    BY DEF ItemTold
  <2>2. Comma(n - i + 1) \in Text
    BY CommaText
  <2> QED
    BY <2>1, <2>2, TextParts
<1>2. \A i \in 1 .. n : (IF i < n THEN texts[i] \o <<",">> ELSE texts[i]) = more(i)
  <2> TAKE i \in 1 .. n
  <2>1. CASE i < n
    <3>1. (n - i + 1) - 1 # 0
      BY <2>1
    <3> QED
      BY <2>1, <3>1 DEF Comma
  <2>2. CASE ~(i < n)
    <3>1. (n - i + 1) - 1 = 0
      BY <2>2
    <3>2. texts[i] \o <<>> = texts[i]
      BY <1>1, ConcatEmptySeq DEF Text
    <3> QED
      BY <2>2, <3>1, <3>2 DEF Comma
  <2> QED
    BY <2>1, <2>2
<1>3. Commas([i \in 1 .. n |-> texts[i]]) = FlattenSeq(X(n))
  <2> DEFINE t == [i \in 1 .. n |-> texts[i]]
             y == [i \in 1 .. Len(t) |-> IF i < Len(t) THEN t[i] \o <<",">> ELSE t[i]]
  <2>1. Len(t) = n /\ \A i \in 1 .. n : t[i] = texts[i]
    OBVIOUS
  <2>2. y = X(n)
    <3> HIDE DEF t
    <3>1. y = [i \in 1 .. n |-> IF i < n THEN texts[i] \o <<",">> ELSE texts[i]]
      BY <2>1
    <3> HIDE DEF y, more
    <3> QED
      BY <1>2, <3>1
  <2> HIDE DEF X
  <2>3. Commas(t) = FlattenSeq(y)
    BY DEF Commas
  <2> HIDE DEF t, y
  <2>4. Commas(t) = FlattenSeq(X(n))
    BY <2>2, <2>3
  <2> QED
    BY <2>4 DEF t
<1> HIDE DEF more
<1> DEFINE Good(m) ==
      /\ P(m) \in Seq(Seq(Calls_made)) /\ X(m) \in Seq(Text)
      /\ FlattenSeq(P(m)) \in Seq(Calls_made) /\ FlattenSeq(X(m)) \in Text
      /\ \A s \in Text, sizes \in Sizes :
           Leads(Visitor(s, Append(sizes, n)), FlattenSeq(P(m)),
                 Visitor(s \o FlattenSeq(X(m)), Append(sizes, n - m)))
           T == {m \in Nat : m <= n => Good(m)}
<1>4. ASSUME NEW m \in Nat, m <= n
      PROVE  P(m) \in Seq(Seq(Calls_made)) /\ X(m) \in Seq(Text)
  <2>1. \A i \in 1 .. m : parts[i] \in Seq(Calls_made) /\ more(i) \in Text
    BY <1>1, <1>4
  <2> QED
    BY <2>1
<1>5. ASSUME NEW m \in Nat, m <= n
      PROVE  FlattenSeq(P(m)) \in Seq(Calls_made) /\ FlattenSeq(X(m)) \in Text
  <2>1. P(m) \in Seq(Seq(Calls_made)) /\ X(m) \in Seq(Text)
    BY <1>4, <1>5
  <2> HIDE DEF P, X
  <2> QED
    BY <2>1, FlattenType DEF Text
<1>6. 0 \in T
  <2>1. 0 <= n
    OBVIOUS
  <2>2. P(0) = <<>> /\ X(0) = <<>>
    OBVIOUS
  <2>3. FlattenSeq(P(0)) = <<>> /\ FlattenSeq(X(0)) = <<>>
    BY <2>2 DEF FlattenSeq
  <2>4. ASSUME NEW s \in Text, NEW sizes \in Sizes
        PROVE  Leads(Visitor(s, Append(sizes, n)), <<>>, Visitor(s \o <<>>, Append(sizes, n - 0)))
    <3>1. n - 0 = n /\ s \o <<>> = s
      BY ConcatEmptySeq DEF Text
    <3> QED
      BY <3>1, VisitNone
  <2> HIDE DEF P, X
  <2>5. Good(0)
    BY <1>4, <1>5, <2>1, <2>3, <2>4
  <2> QED
    BY <2>5
<1>7. ASSUME NEW m \in Nat, m \in T PROVE m + 1 \in T
  <2>0. m + 1 \in Nat
    OBVIOUS
  <2> SUFFICES ASSUME m + 1 <= n PROVE Good(m + 1)
    BY <2>0, Zenon
  <2> DEFINE c == parts[m + 1]
             t == more(m + 1)
             cs == FlattenSeq(P(m))
             ts == FlattenSeq(X(m))
  <2>1. Good(m) /\ m <= n /\ m + 1 \in 1 .. n /\ n - m \in Nat \ {0} /\ m + 1 \in Nat
        /\ (n - m) - 1 = n - (m + 1) /\ n - (m + 1) + 1 = n - m
    BY <1>7
  <2>2. c \in Seq(Calls_made) /\ t \in Text
    BY <1>1, <2>1
  <2>3. P(m + 1) = Append(P(m), c) /\ X(m + 1) = Append(X(m), t)
    OBVIOUS
  <2>4. P(m) \in Seq(Seq(Calls_made)) /\ X(m) \in Seq(Text)
    BY <2>1
  <2> HIDE DEF P, X
  <2>5. FlattenSeq(P(m + 1)) = cs \o c /\ FlattenSeq(X(m + 1)) = ts \o t
    <3> HIDE DEF c, t
    <3> QED
      BY <2>2, <2>3, <2>4, FlattenAppend DEF Text
  <2>6. cs \in Seq(Calls_made) /\ ts \in Text
    BY <2>1
  <2>7. ASSUME NEW s \in Text, NEW sizes \in Sizes
        PROVE  Leads(Visitor(s, Append(sizes, n)), cs \o c,
                     Visitor(s \o (ts \o t), Append(sizes, n - (m + 1))))
    <3>1. Leads(Visitor(s, Append(sizes, n)), cs, Visitor(s \o ts, Append(sizes, n - m)))
      BY <2>1
    <3>2. s \o ts \in Text /\ (s \o ts) \o t = s \o (ts \o t)
      BY <2>2, <2>6, TextParts
    <3>3. t = texts[m + 1] \o Comma(n - m)
      BY <2>1 DEF more
    <3>4. ItemTold(c, texts[m + 1])
      BY <2>1
    <3>5. Leads(Visitor(s \o ts, Append(sizes, n - m)), c,
                Visitor((s \o ts) \o t, Append(sizes, (n - m) - 1)))
      BY <2>1, <3>2, <3>3, <3>4 DEF ItemTold
    <3> HIDE DEF c, t, cs, ts
    <3> QED
      BY <2>1, <2>2, <2>6, <3>1, <3>2, <3>5, VisitMore
  <2> QED
    BY <1>4, <1>5, <2>1, <2>5, <2>7
<1>8. Good(n)
  <2> HIDE DEF T
  <2>1. n \in T
    <3>1. Nat \subseteq T
      BY <1>6, <1>7, SetInduction
    <3> QED
      BY <3>1
  <2> QED
    BY <2>1 DEF T
<1> QED
  <2>1. n - n = 0
    OBVIOUS
  <2> HIDE DEF X
  <2> QED
    BY <1>3, <1>8, <2>1

(* An atom is one call, and so is a string.                                *)
LEMMA AtomTold ==
  ASSUME NEW text \in STRING
  PROVE  Told(<<Event("visit_atom", text)>>, <<text>>)
<1>1. text \in Characters /\ "visit_atom" \in Names
  BY DEF Characters, Names
<1>2. <<text>> \in Text
  BY <1>1, Single DEF Text
<1>3. <<Event("visit_atom", text)>> \in Seq(Calls_made)
  BY <1>1, OneCall
<1>4. ASSUME NEW s \in Text, NEW sizes \in Sizes
      PROVE  Leads(Visitor(s, sizes), <<Event("visit_atom", text)>>,
                   Visitor(s \o <<text>>, sizes))
  <2>1. visit(Visitor(s, sizes), Event("visit_atom", text)) = Visitor(s \o <<text>>, sizes)
    BY DEF visit, Event, Visitor
  <2> QED
    BY <2>1, VisitOne
<1> QED
  BY <1>2, <1>3, <1>4 DEF Told

(* The text of a string is a text: each character has one.                 *)
LEMMA EscapedText ==
  ASSUME NEW chars \in Seq(STRING)
  PROVE  visit_str(chars) \in Text
<1>1. ASSUME NEW c \in STRING PROVE escape(c) \in Text
  <2>1. /\ c \in Characters /\ "\\" \in Characters /\ "n" \in Characters
        /\ "u00XX" \in Characters
    BY DEF Characters
  <2>2. <<c>> \in Text /\ <<"\\", c>> \in Text
    BY <2>1, Pair, Single DEF Text
  <2>3. <<"\\", "n">> \in Text /\ <<"\\", "u00XX">> \in Text
    BY <2>1, Pair DEF Text
  <2> QED
    BY <2>2, <2>3 DEF escape
<1> DEFINE parts == [i \in 1 .. Len(chars) |-> escape(chars[i])]
<1>2. parts \in Seq(Text)
  <2>1. ASSUME NEW i \in 1 .. Len(chars) PROVE escape(chars[i]) \in Text
    <3>1. chars[i] \in STRING
      BY ElementOfSeq
    <3> QED
      BY <1>1, <3>1
  <2>2. Len(chars) \in Nat
    OBVIOUS
  <2> QED
    BY <2>1, <2>2
<1> HIDE DEF parts
<1>3. FlattenSeq(parts) \in Text
  BY <1>2, FlattenType DEF Text
<1>4. <<"\"">> \in Text
  <2>1. "\"" \in Characters
    BY DEF Characters
  <2> QED
    BY <2>1, Single DEF Text
<1>5. quoted(FlattenSeq(parts)) \in Text
  BY <1>3, <1>4, TextParts DEF quoted
<1> QED
  BY <1>5 DEF visit_str, parts

(* A string is one call, and the call writes its text.                     *)
LEMMA StrTold ==
  ASSUME NEW chars \in Seq(STRING)
  PROVE  Told(<<Event("visit_str", chars)>>, visit_str(chars))
<1>1. visit_str(chars) \in Text
  BY EscapedText
<1>2. <<Event("visit_str", chars)>> \in Seq(Calls_made)
  <2>1. "visit_str" \in Names
    BY DEF Names
  <2> QED
    BY <2>1, OneCall
<1>3. ASSUME NEW s \in Text, NEW sizes \in Sizes
      PROVE  Leads(Visitor(s, sizes), <<Event("visit_str", chars)>>,
                   Visitor(s \o visit_str(chars), sizes))
  <2>1. visit(Visitor(s, sizes), Event("visit_str", chars))
          = Visitor(s \o visit_str(chars), sizes)
    BY DEF visit, Event, Visitor
  <2> QED
    BY <2>1, VisitOne
<1> QED
  BY <1>1, <1>2, <1>3 DEF Told

(* An array or a map opens, has its items, and closes.                     *)
LEMMA BracketsTold ==
  ASSUME NEW n \in Nat, NEW parts, NEW texts,
         \A i \in 1 .. n : ItemTold(parts[i], texts[i]),
         NEW start, NEW end, NEW left, NEW right,
         \/ start = "start_array" /\ end = "end_array" /\ left = "[" /\ right = "]"
         \/ start = "start_map" /\ end = "end_map" /\ left = "{" /\ right = "}"
  PROVE  Told(<<Event(start, n)>> \o FlattenSeq([i \in 1 .. n |-> parts[i]]) \o <<Event(end, 0)>>,
              <<left>> \o Commas([i \in 1 .. n |-> texts[i]]) \o <<right>>)
<1> DEFINE a == <<Event(start, n)>>
           z == <<Event(end, 0)>>
           c == FlattenSeq([i \in 1 .. n |-> parts[i]])
           t == Commas([i \in 1 .. n |-> texts[i]])
<1>1. /\ c \in Seq(Calls_made) /\ t \in Text
      /\ \A s \in Text, sizes \in Sizes :
           Leads(Visitor(s, Append(sizes, n)), c, Visitor(s \o t, Append(sizes, 0)))
  BY ItemsTold
<1> HIDE DEF c, t
<1>2. a \in Seq(Calls_made) /\ z \in Seq(Calls_made)
  <2>1. start \in Names /\ end \in Names
    BY DEF Names
  <2>2. n \in STRING \cup Seq(STRING) \cup Nat /\ 0 \in STRING \cup Seq(STRING) \cup Nat
    OBVIOUS
  <2> QED
    BY <2>1, <2>2, OneCall
<1>3. <<left>> \in Text /\ <<right>> \in Text /\ left \in Characters /\ right \in Characters
  <2>1. left \in Characters /\ right \in Characters
    BY DEF Characters
  <2> QED
    BY <2>1, Single DEF Text
<1>4. a \o c \in Seq(Calls_made) /\ (a \o c) \o z \in Seq(Calls_made)
  <2> HIDE DEF a, z
  <2> QED
    BY <1>1, <1>2, ConcatProperties
<1>5. (<<left>> \o t) \o <<right>> \in Text
  BY <1>1, <1>3, TextParts
<1>6. ASSUME NEW s \in Text, NEW sizes \in Sizes
      PROVE  Leads(Visitor(s, sizes), (a \o c) \o z,
                   Visitor(s \o ((<<left>> \o t) \o <<right>>), sizes))
  <2> DEFINE s1 == s \o <<left>>
             s2 == s1 \o t
             s3 == s2 \o <<right>>
  <2>1. s1 \in Text /\ s2 \in Text
    BY <1>1, <1>3, TextParts
  <2>2. Append(s, left) = s1
    BY <1>3, AppendIsConcat DEF Text
  <2>3. Append(s2, right) = s3
    <3> HIDE DEF s2
    <3> QED
      BY <1>3, <2>1, AppendIsConcat DEF Text
  <2>4. s3 = s \o ((<<left>> \o t) \o <<right>>)
    <3> DEFINE head == <<left>> \o t
    <3>1. s2 = s \o head /\ head \in Text
      BY <1>1, <1>3, TextParts
    <3> HIDE DEF s2, head
    <3>2. (s \o head) \o <<right>> = s \o (head \o <<right>>)
      BY <1>3, <3>1, TextAssociative, Zenon
    <3>3. s3 = s \o (head \o <<right>>)
      BY <3>1, <3>2, Zenon
    <3> QED
      BY <3>3, Zenon DEF head
  <2> HIDE DEF s1, s2, s3
  <2>5. Leads(Visitor(s, sizes), a, Visitor(s1, Append(sizes, n)))
    <3>1. visit(Visitor(s, sizes), Event(start, n)) = Visitor(s1, Append(sizes, n))
      <4>1. CASE start = "start_array" /\ left = "["
        BY <2>2, <4>1, VisitsPart
      <4>2. CASE start = "start_map" /\ left = "{"
        BY <2>2, <4>2, VisitsPart
      <4> QED
        BY <4>1, <4>2
    <3> QED
      BY <3>1, VisitOne
  <2>6. Leads(Visitor(s1, Append(sizes, n)), c, Visitor(s2, Append(sizes, 0)))
    BY <1>1, <2>1 DEF s2
  <2>7. Leads(Visitor(s2, Append(sizes, 0)), z, Visitor(s3, sizes))
    <3>1. visit(Visitor(s2, Append(sizes, 0)), Event(end, 0)) = Visitor(s3, sizes)
      <4>1. CASE end = "end_array" /\ right = "]"
        BY <2>1, <2>3, <4>1, VisitsEnd
      <4>2. CASE end = "end_map" /\ right = "}"
        BY <2>1, <2>3, <4>2, VisitsEnd
      <4> QED
        BY <4>1, <4>2
    <3> QED
      BY <3>1, VisitOne
  <2> HIDE DEF a, z
  <2>8. Leads(Visitor(s, sizes), a \o c, Visitor(s2, Append(sizes, 0)))
    BY <1>1, <1>2, <2>5, <2>6, VisitMore
  <2> QED
    BY <1>2, <1>4, <2>4, <2>7, <2>8, VisitMore
<1>7. Told((a \o c) \o z, (<<left>> \o t) \o <<right>>)
  BY <1>4, <1>5, <1>6 DEF Told
<1> QED
  BY <1>7 DEF c, t

(* So whatever the node is, if it holds for the parts.                     *)
LEMMA NodeTold ==
  ASSUME NEW calls, NEW text, NEW x, NEW k \in Nat, IsNode(x, 1 .. k),
         x.kind \notin {"bin", "ext"}, \A j \in 1 .. k : Told(calls[j], text[j])
  PROVE  Told(calls_of(calls, x), json(text, x))
<1>1. CASE x.kind = "atom"
  <2>1. x.text \in STRING
    BY <1>1 DEF IsNode
  <2>2. calls_of(calls, x) = <<Event("visit_atom", x.text)>> /\ json(text, x) = <<x.text>>
    BY <1>1 DEF calls_of, json
  <2> QED
    BY <2>1, <2>2, AtomTold
<1>2. CASE x.kind = "str"
  <2>1. x.chars \in Seq(STRING)
    BY <1>2 DEF IsNode
  <2>2. /\ calls_of(calls, x) = <<Event("visit_str", x.chars)>>
        /\ json(text, x) = visit_str(x.chars)
    BY <1>2 DEF calls_of, json
  <2> QED
    BY <2>1, <2>2, StrTold
<1>3. CASE x.kind = "array"
  <2> DEFINE n == Len(x.items)
             parts == [i \in 1 .. n |-> array_item(calls[x.items[i]])]
             texts == [i \in 1 .. n |-> text[x.items[i]]]
  <2>1. x.items \in Seq(1 .. k)
    BY <1>3 DEF IsNode
  <2>2. n \in Nat
    BY <2>1
  <2>3. ASSUME NEW i \in 1 .. n PROVE ItemTold(parts[i], texts[i])
    <3>1. x.items[i] \in 1 .. k
      BY <2>1, ElementOfSeq
    <3>2. ItemTold(array_item(calls[x.items[i]]), text[x.items[i]])
      BY <3>1, ArrayItem
    <3> QED
      BY <3>2
  <2>4. /\ calls_of(calls, x) = <<Event("start_array", n)>> \o FlattenSeq(parts)
                                   \o <<Event("end_array", 0)>>
        /\ json(text, x) = <<"[">> \o Commas(texts) \o <<"]">>
    BY <1>3 DEF calls_of, json
  <2>5. parts = [i \in 1 .. n |-> parts[i]] /\ texts = [i \in 1 .. n |-> texts[i]]
    OBVIOUS
  <2> HIDE DEF n, parts, texts
  <2>6. Told(<<Event("start_array", n)>> \o FlattenSeq([i \in 1 .. n |-> parts[i]])
                 \o <<Event("end_array", 0)>>,
             <<"[">> \o Commas([i \in 1 .. n |-> texts[i]]) \o <<"]">>)
    BY <2>2, <2>3, BracketsTold
  <2> QED
    BY <2>4, <2>5, <2>6
<1>4. CASE x.kind = "map"
  <2> DEFINE n == Len(x.items)
             parts == [i \in 1 .. n |->
                         map_pair(calls[x.items[i][1]], calls[x.items[i][2]])]
             texts == [i \in 1 .. n |->
                         text[x.items[i][1]] \o <<":">> \o text[x.items[i][2]]]
  <2>1. x.items \in Seq((1 .. k) \X (1 .. k))
    BY <1>4 DEF IsNode
  <2>2. n \in Nat
    BY <2>1
  <2>3. ASSUME NEW i \in 1 .. n PROVE ItemTold(parts[i], texts[i])
    <3>1. x.items[i] \in (1 .. k) \X (1 .. k)
      <4> DEFINE pairs == (1 .. k) \X (1 .. k)
      <4>1. x.items \in Seq(pairs)
        BY <2>1
      <4> HIDE DEF pairs
      <4>2. x.items[i] \in pairs
        BY <4>1, ElementOfSeq
      <4> QED
        BY <4>2 DEF pairs
    <3>2. x.items[i][1] \in 1 .. k /\ x.items[i][2] \in 1 .. k
      BY <3>1
    <3>3. ItemTold(map_pair(calls[x.items[i][1]], calls[x.items[i][2]]),
                   text[x.items[i][1]] \o <<":">> \o text[x.items[i][2]])
      BY <3>2, MapPair
    <3> QED
      BY <3>3
  <2>4. /\ calls_of(calls, x) = <<Event("start_map", n)>> \o FlattenSeq(parts)
                                   \o <<Event("end_map", 0)>>
        /\ json(text, x) = <<"{">> \o Commas(texts) \o <<"}">>
    BY <1>4 DEF calls_of, json
  <2>5. parts = [i \in 1 .. n |-> parts[i]] /\ texts = [i \in 1 .. n |-> texts[i]]
    OBVIOUS
  <2> HIDE DEF n, parts, texts
  <2>6. Told(<<Event("start_map", n)>> \o FlattenSeq([i \in 1 .. n |-> parts[i]])
                 \o <<Event("end_map", 0)>>,
             <<"{">> \o Commas([i \in 1 .. n |-> texts[i]]) \o <<"}">>)
    BY <2>2, <2>3, BracketsTold
  <2> QED
    BY <2>4, <2>5, <2>6
<1> QED
  BY <1>1, <1>2, <1>3, <1>4 DEF IsNode

-----------------------------------------------------------------------------
(* The calls and the text of a node depend on those of its parts only.     *)
LEMMA SameParts ==
  ASSUME NEW f, NEW g, NEW x, NEW k \in Nat, IsNode(x, 1 .. k), \A j \in 1 .. k : f[j] = g[j]
  PROVE  calls_of(f, x) = calls_of(g, x) /\ json(f, x) = json(g, x)
<1>1. CASE x.kind \in {"atom", "str", "bin", "ext"}
  <2>1. x.kind \notin {"array", "map"}
    BY <1>1
  <2> QED
    BY <1>1, <2>1 DEF calls_of, json
<1>2. CASE x.kind = "array"
  <2> DEFINE n == Len(x.items)
  <2>1. x.items \in Seq(1 .. k)
    BY <1>2 DEF IsNode
  <2>2. \A i \in 1 .. n : f[x.items[i]] = g[x.items[i]]
    <3> TAKE i \in 1 .. n
    <3>1. x.items[i] \in 1 .. k
      BY <2>1, ElementOfSeq
    <3> QED
      BY <3>1
  <2>3. /\ [i \in 1 .. n |-> array_item(f[x.items[i]])]
             = [i \in 1 .. n |-> array_item(g[x.items[i]])]
        /\ [i \in 1 .. n |-> f[x.items[i]]] = [i \in 1 .. n |-> g[x.items[i]]]
    BY <2>2
  <2> QED
    BY <1>2, <2>3 DEF calls_of, json
<1>3. CASE x.kind = "map"
  <2> DEFINE n == Len(x.items)
             pairs == (1 .. k) \X (1 .. k)
  <2>1. x.items \in Seq(pairs)
    BY <1>3 DEF IsNode
  <2>2. \A i \in 1 .. n : /\ f[x.items[i][1]] = g[x.items[i][1]]
                          /\ f[x.items[i][2]] = g[x.items[i][2]]
    <3> TAKE i \in 1 .. n
    <3>1. x.items[i] \in pairs
      <4> HIDE DEF pairs
      <4> QED
        BY <2>1, ElementOfSeq
    <3> QED
      BY <3>1
  <2>3. /\ [i \in 1 .. n |-> map_pair(f[x.items[i][1]], f[x.items[i][2]])]
             = [i \in 1 .. n |-> map_pair(g[x.items[i][1]], g[x.items[i][2]])]
        /\ [i \in 1 .. n |-> f[x.items[i][1]] \o <<":">> \o f[x.items[i][2]]]
             = [i \in 1 .. n |-> g[x.items[i][1]] \o <<":">> \o g[x.items[i][2]]]
    BY <2>2
  <2> QED
    BY <1>3, <2>3 DEF calls_of, json
<1> QED
  BY <1>1, <1>2, <1>3 DEF IsNode

(* There are such calls and such texts for every node of an object.        *)
CallsFor(f, o, m) == f = [i \in 1 .. m |-> calls_of(f, o[i])]
TextFor(f, o, m) == f = [i \in 1 .. m |-> json(f, o[i])]

LEMMA CallsExist ==
  ASSUME NEW o, IsObject(o)
  PROVE  \E f : CallsFor(f, o, Len(o))
<1> DEFINE N == Len(o)
           T == {m \in Nat : m <= N => \E f : CallsFor(f, o, m)}
<1>0. N \in Nat /\ \A i \in 1 .. N : IsNode(o[i], 1 .. i - 1)
  BY DEF IsObject
<1>1. 0 \in T
  <2> DEFINE f == [i \in 1 .. 0 |-> 0]
  <2>1. f = [i \in 1 .. 0 |-> calls_of(f, o[i])]
    OBVIOUS
  <2> HIDE DEF f
  <2>2. CallsFor(f, o, 0)
    BY <2>1 DEF CallsFor
  <2> QED
    BY <2>2
<1>2. ASSUME NEW m \in Nat, m \in T PROVE m + 1 \in T
  <2> SUFFICES ASSUME m + 1 <= N PROVE \E f : CallsFor(f, o, m + 1)
    OBVIOUS
  <2>0. m <= N
    BY <1>0
  <2>1. PICK f : CallsFor(f, o, m)
    BY <1>2, <2>0
  <2>2. \A i \in 1 .. m : f[i] = calls_of(f, o[i])
    BY <2>1 DEF CallsFor
  <2> DEFINE g == [i \in 1 .. m + 1 |-> IF i = m + 1 THEN calls_of(f, o[m + 1]) ELSE f[i]]
  <2>3. /\ g = [i \in 1 .. m + 1 |-> g[i]] /\ g[m + 1] = calls_of(f, o[m + 1])
        /\ \A i \in 1 .. m : g[i] = f[i]
    OBVIOUS
  <2> HIDE DEF g
  <2>4. ASSUME NEW i \in 1 .. m + 1 PROVE calls_of(f, o[i]) = calls_of(g, o[i])
    <3>1. i \in 1 .. N /\ i - 1 \in Nat /\ \A j \in 1 .. i - 1 : j \in 1 .. m
      BY <1>0
    <3>2. IsNode(o[i], 1 .. i - 1) /\ \A j \in 1 .. i - 1 : f[j] = g[j]
      BY <1>0, <2>3, <3>1
    <3>3. i - 1 \in Nat
      BY <3>1
    <3> QED
      BY <3>2, <3>3, SameParts, Zenon
  <2>5. \A i \in 1 .. m + 1 : g[i] = calls_of(g, o[i])
    <3> TAKE i \in 1 .. m + 1
    <3>1. CASE i = m + 1
      BY <2>3, <2>4, <3>1
    <3>2. CASE i # m + 1
      <4>1. i \in 1 .. m
        BY <3>2
      <4> QED
        BY <2>2, <2>3, <2>4, <4>1
    <3> QED
      BY <3>1, <3>2
  <2>6. CallsFor(g, o, m + 1)
    BY <2>3, <2>5 DEF CallsFor
  <2> QED
    BY <2>6
<1> HIDE DEF T, N
<1>3. N \in T
  <2>1. Nat \subseteq T
    BY <1>1, <1>2, SetInduction
  <2> QED
    BY <1>0, <2>1
<1> QED
  BY <1>0, <1>3 DEF T, N

LEMMA TextExists ==
  ASSUME NEW o, IsObject(o)
  PROVE  \E f : TextFor(f, o, Len(o))
<1> DEFINE N == Len(o)
           T == {m \in Nat : m <= N => \E f : TextFor(f, o, m)}
<1>0. N \in Nat /\ \A i \in 1 .. N : IsNode(o[i], 1 .. i - 1)
  BY DEF IsObject
<1>1. 0 \in T
  <2> DEFINE f == [i \in 1 .. 0 |-> 0]
  <2>1. f = [i \in 1 .. 0 |-> json(f, o[i])]
    OBVIOUS
  <2> HIDE DEF f
  <2>2. TextFor(f, o, 0)
    BY <2>1 DEF TextFor
  <2> QED
    BY <2>2
<1>2. ASSUME NEW m \in Nat, m \in T PROVE m + 1 \in T
  <2> SUFFICES ASSUME m + 1 <= N PROVE \E f : TextFor(f, o, m + 1)
    OBVIOUS
  <2>0. m <= N
    BY <1>0
  <2>1. PICK f : TextFor(f, o, m)
    BY <1>2, <2>0
  <2>2. \A i \in 1 .. m : f[i] = json(f, o[i])
    BY <2>1 DEF TextFor
  <2> DEFINE g == [i \in 1 .. m + 1 |-> IF i = m + 1 THEN json(f, o[m + 1]) ELSE f[i]]
  <2>3. /\ g = [i \in 1 .. m + 1 |-> g[i]] /\ g[m + 1] = json(f, o[m + 1])
        /\ \A i \in 1 .. m : g[i] = f[i]
    OBVIOUS
  <2> HIDE DEF g
  <2>4. ASSUME NEW i \in 1 .. m + 1 PROVE json(f, o[i]) = json(g, o[i])
    <3>1. i \in 1 .. N /\ i - 1 \in Nat /\ \A j \in 1 .. i - 1 : j \in 1 .. m
      BY <1>0
    <3>2. IsNode(o[i], 1 .. i - 1) /\ \A j \in 1 .. i - 1 : f[j] = g[j]
      BY <1>0, <2>3, <3>1
    <3>3. i - 1 \in Nat
      BY <3>1
    <3> QED
      BY <3>2, <3>3, SameParts, Zenon
  <2>5. \A i \in 1 .. m + 1 : g[i] = json(g, o[i])
    <3> TAKE i \in 1 .. m + 1
    <3>1. CASE i = m + 1
      BY <2>3, <2>4, <3>1
    <3>2. CASE i # m + 1
      <4>1. i \in 1 .. m
        BY <3>2
      <4> QED
        BY <2>2, <2>3, <2>4, <4>1
    <3> QED
      BY <3>1, <3>2
  <2>6. TextFor(g, o, m + 1)
    BY <2>3, <2>5 DEF TextFor
  <2> QED
    BY <2>6
<1> HIDE DEF T, N
<1>3. N \in T
  <2>1. Nat \subseteq T
    BY <1>1, <1>2, SetInduction
  <2> QED
    BY <1>0, <2>1
<1> QED
  BY <1>0, <1>3 DEF T, N

(* The visitor writes the text of every part, and so that of the whole.    *)
LEMMA ObjectTold ==
  ASSUME NEW o, IsObject(o), \A i \in 1 .. Len(o) : o[i].kind \notin {"bin", "ext"}
  PROVE  Told(Calls(o), Json(o))
<1> DEFINE N == Len(o)
           calls == CHOOSE f : CallsFor(f, o, N)
           text == CHOOSE f : TextFor(f, o, N)
<1>1. CallsFor(calls, o, N) /\ TextFor(text, o, N)
  BY CallsExist, TextExists
<1>2. Calls(o) = calls[N] /\ Json(o) = text[N]
  BY DEF Calls, CallsFor, Json, TextFor
<1> HIDE DEF calls, text
<1>3. \A i \in 1 .. N : calls[i] = calls_of(calls, o[i]) /\ text[i] = json(text, o[i])
  BY <1>1 DEF CallsFor, TextFor
<1>4. N \in Nat \ {0} /\ \A i \in 1 .. N : IsNode(o[i], 1 .. i - 1)
  BY DEF IsObject
<1> DEFINE T == {m \in Nat : m <= N => \A j \in 1 .. m : Told(calls[j], text[j])}
<1>5. 0 \in T
  OBVIOUS
<1>6. ASSUME NEW m \in Nat, m \in T PROVE m + 1 \in T
  <2> SUFFICES ASSUME m + 1 <= N, NEW j \in 1 .. m + 1 PROVE Told(calls[j], text[j])
    OBVIOUS
  <2>1. \A i \in 1 .. m : Told(calls[i], text[i])
    BY <1>4, <1>6
  <2>2. CASE j = m + 1
    <3>1. j \in 1 .. N /\ j - 1 = m
      BY <1>4, <2>2
    <3>2. IsNode(o[j], 1 .. m) /\ o[j].kind \notin {"bin", "ext"}
      BY <1>4, <3>1
    <3>3. Told(calls_of(calls, o[j]), json(text, o[j]))
      BY <2>1, <3>2, NodeTold
    <3> QED
      BY <1>3, <3>1, <3>3
  <2>3. CASE j # m + 1
    <3>1. j \in 1 .. m
      BY <2>3
    <3> QED
      BY <2>1, <3>1
  <2> QED
    BY <2>2, <2>3
<1>7. Told(calls[N], text[N])
  <2> HIDE DEF T, N
  <2>1. N \in T
    <3>1. Nat \subseteq T
      BY <1>5, <1>6, SetInduction
    <3> QED
      BY <1>4, <3>1
  <2>2. N \in 1 .. N
    BY <1>4
  <2> QED
    BY <1>4, <2>1, <2>2 DEF T
<1> QED
  BY <1>2, <1>7

(* The text of an object is JSON for it, however deep it is nested, if it  *)
(* has one: the counts on the visitor's stack are those of what is open,   *)
(* and commas and brackets come out where they belong.                     *)
THEOREM TextIsJson ==
  ASSUME NEW o, IsObject(o), Plain(o)
  PROVE  msgpack_to_string(o) = Json(o)
<1> DEFINE c == Calls(o)
           t == Json(o)
           v == Visitor(<<>>, <<>>)
           vis == CHOOSE f : Visits(f, v, c)
<1>1. Told(c, t)
  BY ObjectTold DEF Plain
<1> HIDE DEF c, t
<1>2. c \in Seq(Calls_made) /\ t \in Text /\ Len(c) \in Nat
  BY <1>1 DEF Told
<1>3. Leads(v, c, Visitor(<<>> \o t, <<>>))
  <2>1. <<>> \in Text /\ <<>> \in Sizes
    BY EmptySeq DEF Text, Sizes
  <2> QED
    BY <1>1, <2>1 DEF Told
<1>4. <<>> \o t = t
  BY <1>2, ConcatEmptySeq DEF Text
<1>5. Visits(vis, v, c)
  <2>1. \E f : Visits(f, v, c)
    BY <1>3 DEF Leads
  <2> HIDE DEF v
  <2> QED
    BY <2>1
<1>6. msgpack_to_string(o) = vis[Len(c)].s
  BY DEF msgpack_to_string, Visits, Visitor, c
<1> HIDE DEF vis, v
<1>7. vis[Len(c)] = Visitor(t, <<>>)
  BY <1>2, <1>3, <1>4, <1>5, VisitOnly
<1> QED
  BY <1>6, <1>7 DEF Visitor, t

(* The value of an error that was read is one of the objects there are.    *)
Failure == (Parsing \/ outcome = "accepted") /\ Head(message) = 6
ErrorRead ==
  Failure =>
    \/ Parsing /\ todo = <<"16", "pack">> /\ got = <<>>
    \/ Parsing /\ todo = <<"pack">> /\ \E x : got = <<x>>
    \/ todo = <<>> /\ \E x, p : got = <<x, p>> /\ p \in Packs

(* The last field of a message is read, and the second is appended.        *)
LEMMA OneToRead == ASSUME NEW x PROVE Tail(<<x>>) = <<>>
OBVIOUS

LEMMA TwoFields == ASSUME NEW x, NEW y PROVE Append(<<x>>, y) = <<x, y>>
<1> DEFINE s == Append(<<x>>, y)
           t == <<x, y>>
<1>1. s \in Seq({x, y}) /\ t \in Seq({x, y})
  OBVIOUS
<1>2. Len(s) = 2 /\ Len(t) = 2
  OBVIOUS
<1>3. s[1] = t[1] /\ s[2] = t[2]
  OBVIOUS
<1>4. \A i \in 1 .. Len(s) : s[i] = t[i]
  BY <1>2, <1>3
<1> HIDE DEF s, t
<1>5. s = t
  BY <1>1, <1>2, <1>4, SeqEqual
<1> QED
  BY <1>5 DEF s, t

(* It is so from one step to the next.                                     *)
LEMMA ErrorStep ==
  ASSUME ErrorRead, [Next]_vars
  PROVE  ErrorRead'
<1>1. ASSUME UNCHANGED <<parserVars, message>> PROVE ErrorRead'
  BY <1>1 DEF ErrorRead, Failure, Parsing, parserVars
<1>2. CASE transmit
  BY <1>1, <1>2 DEF transmit, send
<1>3. CASE receive
  BY <1>1, <1>3 DEF receive, push
<1>4. CASE connect_again
  BY <1>1, <1>4 DEF connect_again, reconnect
<1>5. CASE UNCHANGED vars
  BY <1>1, <1>5 DEF vars, framingVars
<1>6. CASE unpack
  <2>1. CASE read_message /\ handle_message(message')
    <3> SUFFICES ASSUME Failure' PROVE ErrorRead'
      BY DEF ErrorRead
    <3>1. outcome' \notin {"ignored", "ProtocolError"}
      BY DEF Failure, Parsing
    <3>2. begin(Tail(message'), Fields(receiver, Head(message')))
      BY <2>1, <3>1 DEF handle_message, throw
    <3>3. Head(message') = 6
      BY DEF Failure
    <3>4. Fields(receiver, 6) = <<"16", "pack">>
      BY DEF Fields, HelloTypes, ServerFields, ClientFields, write_pack
    <3> QED
      BY <3>2, <3>3, <3>4 DEF begin, ErrorRead, Parsing
  <2>2. CASE read_error /\ UNCHANGED parserVars
    BY <1>1, <2>2 DEF read_error
  <2>3. CASE discard
    BY <2>3 DEF discard, ErrorRead, Failure, Parsing
  <2> QED
    BY <1>6, <2>1, <2>2, <2>3 DEF unpack
<1>7. CASE parse
  <2>1. read_field /\ message' = message
    BY <1>7 DEF parse, framingVars
  <2>2. CASE check_empty
    <3> SUFFICES ASSUME Failure' PROVE ErrorRead'
      BY DEF ErrorRead
    <3>1. Failure /\ todo = <<>> /\ UNCHANGED <<todo, got>>
      BY <2>1, <2>2 DEF check_empty, Failure, Parsing
    <3>2. \E x, p : got = <<x, p>> /\ p \in Packs
      BY <3>1 DEF ErrorRead
    <3> QED
      BY <3>1, <3>2 DEF ErrorRead
  <2>3. CASE ~check_empty
    <3> SUFFICES ASSUME Failure' PROVE ErrorRead'
      BY DEF ErrorRead
    <3>1. outcome = "parsing" /\ todo # <<>>
      BY <2>1, <2>3 DEF read_field, read8, read16, read32, read_string, read_msgpack, Reads
    <3>2. Failure
      BY <2>1, <3>1 DEF Failure, Parsing
    <3>3. CASE todo = <<"16", "pack">> /\ got = <<>>
      <4>1. Head(todo) = "16"
        BY <3>3
      <4>2. read16
        BY <2>1, <2>3, <4>1 DEF read_field, read8, read32, read_string, read_msgpack, Reads
      <4>3. PICK n, x : advance(n, x)
        BY <4>2 DEF read16, throw, Failure, Parsing
      <4>4. todo' = <<"pack">> /\ got' = <<x>> /\ Parsing'
        BY <3>1, <3>3, <4>3 DEF advance, Parsing
      <4> QED
        BY <4>4 DEF ErrorRead
    <3>4. CASE todo = <<"pack">> /\ \E x : got = <<x>>
      <4>1. Head(todo) = "pack"
        BY <3>4
      <4>2. read_msgpack
        BY <2>1, <2>3, <4>1 DEF read_field, read8, read16, read32, read_string, Reads
      <4>3. PICK n, p : p \in Packs /\ advance(n, p)
        BY <4>2 DEF read_msgpack, throw, Failure, Parsing
      <4>4. PICK x : got = <<x>>
        BY <3>4
      <4>5. todo' = Tail(<<"pack">>) /\ got' = Append(<<x>>, p)
        BY <3>4, <4>3, <4>4, Zenon DEF advance
      <4>6. todo' = <<>>
        BY <4>5, OneToRead
      <4>7. got' = <<x, p>>
        BY <4>5, TwoFields
      <4> QED
        BY <4>3, <4>6, <4>7, Zenon DEF ErrorRead
    <3> QED
      BY <3>1, <3>2, <3>3, <3>4 DEF ErrorRead
  <2> QED
    BY <2>2, <2>3
<1> QED
  BY <1>2, <1>3, <1>4, <1>5, <1>6, <1>7 DEF Next

(* The text that is logged for the value of an error is JSON for it,       *)
(* whatever the value, and whatever became of the frames.                  *)
THEOREM ErrorsLogged == Spec => []LoggedAsJson
<1>1. Init => ErrorRead
  BY DEF Init, ParserInit, ErrorRead, Failure, Parsing
<1>2. ErrorRead /\ [Next]_vars => ErrorRead'
  BY ErrorStep
<1>3. ErrorRead => LoggedAsJson
  <2> SUFFICES ASSUME ErrorRead, outcome = "accepted", Head(message) = 6,
                      Plain(ValueOf[got[2]])
               PROVE  msgpack_to_string(ValueOf[got[2]]) = Json(ValueOf[got[2]])
    BY DEF LoggedAsJson
  <2>1. PICK x, p : got = <<x, p>> /\ p \in Packs
    BY DEF ErrorRead, Failure, Parsing
  <2>2. IsObject(ValueOf[got[2]])
    BY <2>1, ErrorLogAssumption
  <2> QED
    BY <2>2, TextIsJson
<1> QED
  BY <1>1, <1>2, <1>3, PTL DEF Spec
=============================================================================
