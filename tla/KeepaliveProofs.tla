-------------------------- MODULE KeepaliveProofs --------------------------
(***************************************************************************)
(* Proofs about Keepalive for all timeouts and delays.  The two results    *)
(* need what TimeoutConfig does not require: that the ping timeout is      *)
(* shorter than the idle one, and that the peer answers within it.         *)
(***************************************************************************)
EXTENDS Keepalive, TLAPS, WellFoundedInduction

(* The types of all variables hold in every reachable state; in particular *)
(* run() never waits with a delay of zero, which doubling would not change.*)
THEOREM TypeCorrect == Spec => []TypeOK
<1>1. Init => TypeOK
  BY KeepaliveAssumption DEF Init, TypeOK
<1>2. TypeOK /\ [Next]_vars => TypeOK'
  <2> SUFFICES ASSUME TypeOK, [Next]_vars PROVE TypeOK'
    OBVIOUS
  <2> USE KeepaliveAssumption DEF TypeOK
  <2>1. CASE send
    BY <2>1 DEF send, sent, pace
  <2>2. CASE idle_expires
    BY <2>2 DEF idle_expires, sent, pace
  <2>3. CASE ping_answered
    BY <2>3 DEF ping_answered, pace
  <2>4. CASE ping_expires
    BY <2>4 DEF ping_expires, loop_returned, connection
  <2>5. CASE closed
    BY <2>5 DEF closed, loop_returned, connection
  <2>6. CASE wait_over
    <3>1. next_delay \in Nat \ {0}
      BY DEF next_delay, least
    <3>2. least(waits + 1, MaxWaits) \in Nat
      BY DEF least
    <3>3. CASE Connected /\ lasted' = 0 /\ UNCHANGED waiting
      BY <2>6, <3>1, <3>2, <3>3 DEF wait_over, Connected
    <3>4. CASE waiting' = next_delay /\ UNCHANGED <<stage, connection, lasted>>
      BY <2>6, <3>1, <3>2, <3>4 DEF wait_over, connection
    <3> QED
      BY <2>6, <3>3, <3>4 DEF wait_over
  <2>7. CASE vanish
    BY <2>7 DEF vanish, pace
  <2>8. CASE Tick_loop
    BY <2>8 DEF Tick_loop, least
  <2>9. CASE Tick_wait
    BY <2>9 DEF Tick_wait, connection
  <2>10. CASE UNCHANGED vars
    BY <2>10 DEF vars, connection, pace
  <2> QED
    BY <2>1, <2>2, <2>3, <2>4, <2>5, <2>6, <2>7, <2>8, <2>9, <2>10 DEF Next
<1> QED
  BY <1>1, <1>2, PTL DEF Spec

-----------------------------------------------------------------------------
(* Why a vanished peer is noticed: while no ping is out, the idle timeout  *)
(* runs down as its absence grows; once one is out, the ping timeout does, *)
(* and the idle timeout, set when the ping was sent, never overtakes it.   *)
Countdown ==
  stage = "loop" =>
    /\ ping_timeout # Never =>
         idle_timeout - ping_timeout >= IdlePing - PingTimeout
    /\ peer = "there" => gone_for = 0
    /\ idle_timeout <= IdlePing
    /\ peer = "gone" =>
         \/ ping_timeout = Never /\ gone_for + idle_timeout <= IdlePing
         \/ ping_timeout # Never /\ gone_for + ping_timeout <= IdlePing + PingTimeout

(* The idle and ping timeouts bound how long a vanished peer goes          *)
(* unnoticed after the last message the application sent to it, whatever   *)
(* their values, if the ping timeout is the shorter one.                   *)
THEOREM GoneIsNoticed ==
  ASSUME PingTimeout < IdlePing
  PROVE  Spec => []GoneNoticedInTime
<1>1. Init => Countdown
  BY KeepaliveAssumption DEF Init, Countdown
<1>2. TypeOK /\ Countdown /\ [Next]_vars => Countdown'
  <2> SUFFICES ASSUME TypeOK, Countdown, [Next]_vars PROVE Countdown'
    OBVIOUS
  <2> USE KeepaliveAssumption DEF TypeOK, Countdown
  <2>1. CASE send
    BY <2>1 DEF send, sent
  <2>2. CASE idle_expires
    BY <2>2 DEF idle_expires, sent
  <2>3. CASE ping_answered
    BY <2>3 DEF ping_answered
  <2>4. CASE ping_expires
    BY <2>4 DEF ping_expires, loop_returned
  <2>5. CASE closed
    BY <2>5 DEF closed, loop_returned
  <2>6. CASE wait_over
    BY <2>6 DEF wait_over, Connected
  <2>7. CASE vanish
    BY <2>7 DEF vanish
  <2>8. CASE Tick_loop
    BY <2>8 DEF Tick_loop, least
  <2>9. CASE Tick_wait
    BY <2>9 DEF Tick_wait
  <2>10. CASE UNCHANGED vars
    BY <2>10 DEF vars, connection
  <2> QED
    BY <2>1, <2>2, <2>3, <2>4, <2>5, <2>6, <2>7, <2>8, <2>9, <2>10 DEF Next
<1>3. TypeOK /\ Countdown => GoneNoticedInTime
  BY KeepaliveAssumption DEF TypeOK, Countdown, GoneNoticedInTime
<1> QED
  BY <1>1, <1>2, <1>3, TypeCorrect, PTL DEF Spec

-----------------------------------------------------------------------------
(* Why a peer that is there is kept: a ping timeout that is set belongs to *)
(* a ping that is not answered, and those are at most RoundTrip old.       *)
TimeoutHasPing ==
  stage = "loop" /\ peer = "there" =>
    /\ \A age \in pings : age <= RoundTrip
    /\ ping_timeout # Never => PingTimeout - ping_timeout \in pings

(* A peer that answers within the ping timeout is never given up.          *)
THEOREM PresentIsKept ==
  ASSUME RoundTrip < PingTimeout
  PROVE  Spec => []PresentPeerKept
<1>1. Init => TimeoutHasPing
  BY KeepaliveAssumption DEF Init, TimeoutHasPing
<1>2. TypeOK /\ TimeoutHasPing /\ [Next]_vars => TimeoutHasPing'
  <2> SUFFICES ASSUME TypeOK, TimeoutHasPing, [Next]_vars PROVE TimeoutHasPing'
    OBVIOUS
  <2> USE KeepaliveAssumption DEF TypeOK, TimeoutHasPing
  <2>1. CASE send
    BY <2>1 DEF send
  <2>2. CASE idle_expires
    BY <2>2 DEF idle_expires
  <2>3. CASE ping_answered
    BY <2>3 DEF ping_answered
  <2>4. CASE ping_expires
    BY <2>4 DEF ping_expires, loop_returned
  <2>5. CASE closed
    BY <2>5 DEF closed, loop_returned
  <2>6. CASE wait_over
    BY <2>6 DEF wait_over, Connected
  <2>7. CASE vanish
    BY <2>7 DEF vanish
  <2>8. CASE Tick_loop
    BY <2>8 DEF Tick_loop
  <2>9. CASE Tick_wait
    BY <2>9 DEF Tick_wait
  <2>10. CASE UNCHANGED vars
    BY <2>10 DEF vars, connection
  <2> QED
    BY <2>1, <2>2, <2>3, <2>4, <2>5, <2>6, <2>7, <2>8, <2>9, <2>10 DEF Next
<1>3. TypeOK /\ TimeoutHasPing => PresentPeerKept
  BY KeepaliveAssumption DEF TypeOK, TimeoutHasPing, PresentPeerKept
<1> QED
  BY <1>1, <1>2, <1>3, TypeCorrect, PTL DEF Spec

-----------------------------------------------------------------------------
(* Induction on a number, for a set in the place of a property.            *)
LEMMA SetInduction ==
  ASSUME NEW S, 0 \in S, \A n \in Nat : n \in S => n + 1 \in S
  PROVE  Nat \subseteq S
<1> DEFINE R == OpToRel(<, Nat)
           T == Nat \ S
<1> SUFFICES ASSUME T # {} PROVE FALSE
  OBVIOUS
<1>1. IsWellFoundedOn(R, Nat) /\ T \subseteq Nat
  BY NatLessThanWellFounded
<1>2. PICK i \in T : \A j \in T : <<j, i>> \notin R
  <2> HIDE DEF R, T
  <2> QED
    BY <1>1, WFMin
<1>3. \A j \in T : ~(j < i)
  BY <1>2 DEF OpToRel
<1>4. i # 0 /\ i - 1 \in Nat /\ (i - 1) + 1 = i
  <2>1. i \in Nat /\ i # 0
    BY <1>2
  <2> QED
    BY <2>1
<1>5. i - 1 \notin S
  BY <1>2, <1>4
<1> QED
  BY <1>3, <1>4, <1>5

(* The doubled delays, for as many waits as are counted.                   *)
Doubles(n, f) ==
  /\ f \in [0 .. n -> Nat] /\ f[0] = MinDelay
  /\ \A i \in 1 .. n : f[i] = 2 * f[i - 1]

LEMMA DoublesExist == ASSUME NEW n \in Nat PROVE \E f : Doubles(n, f)
<1> DEFINE S == {k \in Nat : \E f : Doubles(k, f)}
<1>1. 0 \in S
  <2> DEFINE f == [i \in 0 .. 0 |-> MinDelay]
  <2>1. Doubles(0, f)
    BY KeepaliveAssumption DEF Doubles
  <2> QED
    BY <2>1
<1>2. ASSUME NEW k \in Nat, k \in S PROVE k + 1 \in S
  <2>1. PICK f : Doubles(k, f)
    BY <1>2
  <2> DEFINE g == [i \in 0 .. k + 1 |-> IF i = k + 1 THEN 2 * f[k] ELSE f[i]]
  <2>2. f \in [0 .. k -> Nat] /\ f[0] = MinDelay /\ \A i \in 1 .. k : f[i] = 2 * f[i - 1]
    BY <2>1 DEF Doubles
  <2>3. g \in [0 .. k + 1 -> Nat] /\ g[0] = MinDelay
    BY <2>2
  <2>4. g[k + 1] = 2 * f[k] /\ \A i \in 0 .. k : g[i] = f[i]
    OBVIOUS
  <2> HIDE DEF g
  <2>5. ASSUME NEW i \in 1 .. k + 1 PROVE g[i] = 2 * g[i - 1]
    <3>1. i - 1 \in 0 .. k
      OBVIOUS
    <3>2. CASE i = k + 1
      BY <2>4, <3>1, <3>2
    <3>3. CASE i # k + 1
      BY <2>2, <2>4, <3>1, <3>3
    <3> QED
      BY <3>2, <3>3
  <2>6. Doubles(k + 1, g)
    BY <2>3, <2>5 DEF Doubles
  <2> QED
    BY <2>6
<1>3. n \in S
  <2> HIDE DEF S
  <2> QED
    BY <1>1, <1>2, SetInduction
<1> QED
  BY <1>3

LEMMA DoubledDoubles == Doubles(MaxWaits, doubled)
<1> DEFINE Is(f) == f = [n \in 0 .. MaxWaits |-> IF n = 0 THEN MinDelay ELSE 2 * f[n - 1]]
<1>1. PICK f : Doubles(MaxWaits, f)
  BY DoublesExist, KeepaliveAssumption
<1>2. Is(f)
  <2>1. f \in [0 .. MaxWaits -> Nat] /\ MaxWaits \in Nat
    BY <1>1, KeepaliveAssumption DEF Doubles
  <2>2. \A n \in 0 .. MaxWaits : f[n] = IF n = 0 THEN MinDelay ELSE 2 * f[n - 1]
    BY <1>1, <2>1 DEF Doubles
  <2>3. f = [n \in 0 .. MaxWaits |-> f[n]]
    BY <2>1
  <2> QED
    BY <2>2, <2>3
<1>3. Is(doubled)
  <2> HIDE DEF Is
  <2>1. doubled = CHOOSE g : Is(g)
    BY DEF doubled, Is
  <2> QED
    BY <1>2, <2>1
<1>4. \A n \in 0 .. MaxWaits : doubled[n] = IF n = 0 THEN MinDelay ELSE 2 * doubled[n - 1]
  BY <1>3
<1>5. doubled = [n \in 0 .. MaxWaits |-> doubled[n]]
  BY <1>3
<1>6. \A n \in 0 .. MaxWaits : doubled[n] \in Nat
  <2> DEFINE S == {n \in Nat : n <= MaxWaits => doubled[n] \in Nat}
  <2>1. 0 \in S
    BY <1>4, KeepaliveAssumption
  <2>2. ASSUME NEW n \in Nat, n \in S PROVE n + 1 \in S
    <3>1. SUFFICES ASSUME n + 1 <= MaxWaits PROVE doubled[n + 1] \in Nat
      OBVIOUS
    <3>2. n <= MaxWaits /\ n + 1 \in 0 .. MaxWaits /\ n + 1 # 0 /\ (n + 1) - 1 = n
      BY <3>1, KeepaliveAssumption
    <3>3. doubled[n + 1] = 2 * doubled[n]
      BY <1>4, <3>2
    <3>4. doubled[n] \in Nat
      BY <2>2, <3>2
    <3> QED
      BY <3>3, <3>4
  <2>3. Nat \subseteq S
    <3> HIDE DEF S
    <3> QED
      BY <2>1, <2>2, SetInduction
  <2>4. ASSUME NEW n \in 0 .. MaxWaits PROVE doubled[n] \in Nat
    <3>1. n \in Nat /\ n <= MaxWaits
      BY KeepaliveAssumption
    <3> QED
      BY <2>3, <3>1
  <2> QED
    BY <2>4
<1>7. 0 \in 0 .. MaxWaits /\ \A i \in 1 .. MaxWaits : i \in 0 .. MaxWaits /\ i # 0
  BY KeepaliveAssumption
<1>8. doubled \in [0 .. MaxWaits -> Nat]
  BY <1>5, <1>6
<1> QED
  BY <1>4, <1>7, <1>8 DEF Doubles

(* The delay is what it should be during the loop, too: it was doubled     *)
(* when the wait before it ended.                                          *)
Backoff ==
  /\ waits \in 0 .. MaxWaits
  /\ delay = least(doubled[waits], MaxDelay)
  /\ stage = "wait" => waiting <= delay

(* run() waits for min_delay doubled as often as it has waited since the   *)
(* last long loop(), but at most for max_delay, as its comment says, if    *)
(* the model counts until then.                                            *)
THEOREM DelaysDouble ==
  ASSUME MaxDelay <= doubled[MaxWaits]
  PROVE  Spec => []BackoffDoubles
<1>0. /\ doubled[0] = MinDelay /\ MaxWaits \in Nat
      /\ \A n \in 0 .. MaxWaits : doubled[n] \in Nat
      /\ \A n \in 1 .. MaxWaits : doubled[n] = 2 * doubled[n - 1]
  BY DoubledDoubles, KeepaliveAssumption DEF Doubles
<1>1. Init => Backoff
  BY <1>0, KeepaliveAssumption DEF Init, Backoff, least
<1>2. TypeOK /\ Backoff /\ [Next]_vars => Backoff'
  <2> SUFFICES ASSUME TypeOK, Backoff, [Next]_vars PROVE Backoff'
    OBVIOUS
  <2>0. MinDelay \in Nat /\ MaxDelay \in Nat /\ MinDelay <= MaxDelay
    BY KeepaliveAssumption
  <2>1. ASSUME UNCHANGED pace, stage' = stage PROVE Backoff'
    BY <2>1 DEF Backoff, pace
  <2>2. ASSUME loop_returned PROVE Backoff'
    <3>1. CASE delay' = MinDelay /\ waiting' = MinDelay /\ waits' = 0
      BY <1>0, <2>0, <3>1 DEF Backoff, least
    <3>2. CASE waiting' = delay /\ UNCHANGED <<delay, waits>>
      BY <3>2 DEF Backoff, TypeOK
    <3> QED
      BY <2>2, <3>1, <3>2 DEF loop_returned
  <2>3. CASE wait_over
    <3>1. delay' = next_delay /\ waits' = least(waits + 1, MaxWaits)
      BY <2>3 DEF wait_over
    <3>2. waits' \in 0 .. MaxWaits
      BY <1>0, <3>1 DEF Backoff, least
    <3>3. next_delay = least(doubled[waits'], MaxDelay)
      <4>1. doubled[waits] \in Nat /\ delay = least(doubled[waits], MaxDelay)
        BY <1>0 DEF Backoff
      <4>2. CASE waits = MaxWaits
        <5>1. waits' = waits
          BY <1>0, <3>1, <4>2 DEF least
        <5> QED
          BY <2>0, <4>1, <4>2, <5>1 DEF next_delay, least
      <4>3. CASE waits # MaxWaits
        <5>1. waits' = waits + 1 /\ waits + 1 \in 1 .. MaxWaits /\ (waits + 1) - 1 = waits
          BY <1>0, <3>1, <4>3 DEF Backoff, least
        <5>2. doubled[waits'] = 2 * doubled[waits]
          BY <1>0, <5>1
        <5> QED
          BY <2>0, <4>1, <5>2 DEF next_delay, least
      <4> QED
        BY <4>2, <4>3
    <3>4. CASE Connected
      BY <3>1, <3>2, <3>3, <3>4 DEF Backoff, Connected
    <3>5. CASE waiting' = next_delay
      BY <2>0, <3>1, <3>2, <3>3, <3>5 DEF Backoff, TypeOK, next_delay, least
    <3> QED
      BY <2>3, <3>4, <3>5 DEF wait_over
  <2>4. CASE Tick_loop
    BY <2>4 DEF Tick_loop, Backoff
  <2>5. CASE Tick_wait
    BY <2>5 DEF Tick_wait, Backoff, TypeOK
  <2>6. CASE send \/ idle_expires \/ ping_answered \/ vanish \/ UNCHANGED vars
    BY <2>1, <2>6 DEF send, idle_expires, ping_answered, vanish, vars
  <2>7. CASE ping_expires \/ closed
    BY <2>2, <2>7 DEF ping_expires, closed
  <2> QED
    BY <2>3, <2>4, <2>5, <2>6, <2>7 DEF Next
<1>3. Backoff => BackoffDoubles
  BY DEF Backoff, BackoffDoubles
<1> QED
  BY <1>1, <1>2, <1>3, TypeCorrect, PTL DEF Spec

=============================================================================
