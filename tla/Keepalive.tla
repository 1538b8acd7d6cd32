----------------------------- MODULE Keepalive -----------------------------
(***************************************************************************)
(* Time in the client actor (include/eshet.hpp): the idle and ping         *)
(* timeouts of loop(), by which it notices that its peer has vanished, and *)
(* the delays of run() between two connections.  Timeouts count down, and  *)
(* time passes in ticks, of which one may only pass when nothing is due.   *)
(***************************************************************************)
EXTENDS Naturals, FiniteSets

CONSTANTS
  IdlePing, PingTimeout,            \* TimeoutConfig
  MinDelay, MaxDelay, ResetThresh,  \* of run()
  RoundTrip,  \* the longest a peer that is alive takes to answer a ping
  MaxGone,    \* bound: how far gone_for counts
  MaxWaits,   \* bound: how many waits in a row are counted
  Never       \* no timeout is set

ASSUME KeepaliveAssumption ==
  /\ {IdlePing, PingTimeout, MinDelay, MaxDelay, ResetThresh} \subseteq Nat \ {0}
  /\ MinDelay <= MaxDelay
  /\ RoundTrip \in Nat /\ MaxGone \in Nat /\ MaxWaits \in Nat
  /\ Never \notin Nat

VARIABLES
  stage,         \* "loop" while loop() serves a connection, "wait" in between
  idle_timeout,  \* ticks left until idle_timeout
  ping_timeout,  \* ticks left until ping_timeout, or Never
  pings,         \* ages of the pings that are not answered
  peer,          \* "there" or "gone"
  gone_for,      \* ticks since the peer vanished or, if that was later, since
                 \* the application last sent something
  lasted,        \* ticks since loop() started, up to ResetThresh
  delay,         \* of run()
  waiting,       \* ticks left to wait
  waits          \* waits since loop() last returned after ResetThresh

connection == <<idle_timeout, ping_timeout, pings, peer, gone_for>>
pace == <<lasted, delay, waiting, waits>>
vars == <<stage, connection, pace>>

least(a, b) == IF a < b THEN a ELSE b
oldest(ages) == CHOOSE a \in ages : \A b \in ages : b <= a

-----------------------------------------------------------------------------
(* A connection has just been set up.                                      *)
Connected ==
  /\ stage' = "loop"
  /\ idle_timeout' = IdlePing /\ ping_timeout' = Never /\ pings' = {}
  /\ peer' = "there" /\ gone_for' = 0

Init ==
  /\ stage = "loop" /\ idle_timeout = IdlePing /\ ping_timeout = Never
  /\ pings = {} /\ peer = "there" /\ gone_for = 0
  /\ lasted = 0 /\ delay = MinDelay /\ waiting = 0 /\ waits = 0

(* send_send_buf sets the idle timeout.                                    *)
sent == idle_timeout' = IdlePing

(* The application sends something.                                        *)
send ==
  /\ stage = "loop"
  /\ sent /\ gone_for' = 0
  /\ UNCHANGED <<stage, ping_timeout, pings, peer, pace>>

(* loop() waits for the earlier timeout; the idle one goes first.          *)
idle_expires_without_deadline ==
  /\ stage = "loop" /\ idle_timeout = 0
  /\ sent /\ pings' = pings \cup {0}
  /\ UNCHANGED <<stage, ping_timeout, peer, gone_for, pace>>
idle_expires ==
  /\ stage = "loop" /\ idle_timeout = 0
  /\ sent /\ ping_timeout' = PingTimeout /\ pings' = pings \cup {0}
  /\ UNCHANGED <<stage, peer, gone_for, pace>>

ping_answered_in_vain ==
  /\ stage = "loop" /\ peer = "there" /\ pings # {}
  /\ pings' = pings \ {oldest(pings)}
  /\ UNCHANGED <<stage, idle_timeout, ping_timeout, peer, gone_for, pace>>
ping_answered ==
  /\ stage = "loop" /\ peer = "there" /\ pings # {}
  /\ pings' = pings \ {oldest(pings)} /\ ping_timeout' = Never
  /\ UNCHANGED <<stage, idle_timeout, peer, gone_for, pace>>

(* run() after loop() has returned: a long loop starts the delays anew.    *)
loop_returned_to_long_delay ==
  /\ stage' = "wait" /\ lasted' = 0
  /\ waits' = IF lasted >= ResetThresh THEN 0 ELSE waits
  /\ waiting' = delay /\ UNCHANGED delay
loop_returned ==
  /\ stage' = "wait" /\ lasted' = 0
  /\ \/ /\ lasted >= ResetThresh
        /\ delay' = MinDelay /\ waiting' = MinDelay /\ waits' = 0
     \/ /\ lasted < ResetThresh
        /\ waiting' = delay /\ UNCHANGED <<delay, waits>>

ping_expires ==
  /\ stage = "loop" /\ ping_timeout = 0 /\ idle_timeout # 0
  /\ loop_returned
  /\ UNCHANGED connection

(* on_close, or an error while the connection was set up.                  *)
closed ==
  /\ stage = "loop"
  /\ loop_returned
  /\ UNCHANGED connection

(* The wait is over: double the delay and call loop(), which connects or   *)
(* returns at once.                                                        *)
next_delay_linear == least(delay + MinDelay, MaxDelay)
next_delay == least(2 * delay, MaxDelay)

wait_over ==
  /\ stage = "wait" /\ waiting = 0
  /\ delay' = next_delay
  /\ waits' = least(waits + 1, MaxWaits)
  /\ \/ Connected /\ lasted' = 0 /\ UNCHANGED waiting
     \/ /\ waiting' = next_delay
        /\ UNCHANGED <<stage, connection, lasted>>

(* The peer vanishes.                                                      *)
vanish ==
  /\ stage = "loop" /\ peer = "there"
  /\ peer' = "gone"
  /\ UNCHANGED <<stage, idle_timeout, ping_timeout, pings, gone_for, pace>>

-----------------------------------------------------------------------------
Tick_loop ==
  /\ stage = "loop"
  /\ idle_timeout # 0 /\ ping_timeout # 0
  /\ peer = "there" => \A age \in pings : age < RoundTrip
  /\ idle_timeout' = idle_timeout - 1
  /\ ping_timeout' = IF ping_timeout = Never THEN Never ELSE ping_timeout - 1
  /\ pings' = IF peer = "gone" THEN {} ELSE {age + 1 : age \in pings}
  /\ gone_for' = IF peer = "gone" THEN least(gone_for + 1, MaxGone) ELSE 0
  /\ lasted' = least(lasted + 1, ResetThresh)
  /\ UNCHANGED <<stage, peer, delay, waiting, waits>>

Tick_wait ==
  /\ stage = "wait" /\ waiting # 0
  /\ waiting' = waiting - 1
  /\ UNCHANGED <<stage, connection, lasted, delay, waits>>

Next ==
  \/ send \/ idle_expires \/ ping_answered \/ ping_expires \/ closed
  \/ wait_over \/ vanish \/ Tick_loop \/ Tick_wait

Spec == Init /\ [][Next]_vars

-----------------------------------------------------------------------------
(* The type of every variable.                                             *)
TypeOK ==
  /\ stage \in {"loop", "wait"}
  /\ idle_timeout \in Nat /\ ping_timeout \in Nat \cup {Never}
  /\ pings \in SUBSET Nat
  /\ peer \in {"there", "gone"} /\ gone_for \in Nat
  /\ lasted \in Nat /\ delay \in Nat \ {0} /\ waiting \in Nat /\ waits \in Nat

(* A peer that has vanished is noticed in time: at most an idle period     *)
(* goes by until a ping is sent, and then the ping timeout.  What the      *)
(* application sends meanwhile sets the idle timeout back, but never the   *)
(* ping timeout: once it stops, no more than that time is left.            *)
GoneNoticedInTime ==
  stage = "loop" /\ peer = "gone" => gone_for <= IdlePing + PingTimeout

(* A peer that is there is never given up, if it answers within the ping   *)
(* timeout: no answer leaves the timeout of its ping behind.               *)
PresentPeerKept ==
  ~(stage = "loop" /\ peer = "there" /\ ping_timeout = 0 /\ idle_timeout # 0)

(* The first delay, doubled n times.                                       *)
doubled[n \in 0 .. MaxWaits] == IF n = 0 THEN MinDelay ELSE 2 * doubled[n - 1]

(* run() waits "with exponential backoff from min_delay to max_delay,      *)
(* resetting back to min_delay if loop runs for at least reset_thresh".    *)
BackoffDoubles ==
  stage = "wait" =>
    /\ delay = least(doubled[waits], MaxDelay)
    /\ waiting <= delay
=============================================================================
