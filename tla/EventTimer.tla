----------------------------- MODULE EventTimer -----------------------------
(***************************************************************************)
(* The timer of ipc_wait_event (communication.c) and the way every program *)
(* of the repository uses it: the application sets a period, the library   *)
(* takes from it the time each call spends in poll(2), and the application *)
(* sets it again when it gets a TIMER event.                               *)
(*                                                                         *)
(* gettimeofday(2) gives seconds and a fraction.  Its units are scaled     *)
(* down: a millisecond is Tick units and a second is Ms milliseconds; in   *)
(* the code both are 1000.  The clock is taken to be monotonic.            *)
(***************************************************************************)
EXTENDS Integers

CONSTANTS
  Tick,   \* clock units in a millisecond
  Ms,     \* milliseconds in a second
  Period, \* what the application sets, in milliseconds
  Late,   \* bound on how late poll(2) returns, in clock units
  MaxCalls \* calls counted since the timer was set; later ones are not told apart

ASSUME UnitAssumption == Tick \in Nat \ {0} /\ Ms \in Nat \ {0}
ASSUME PeriodAssumption == Period \in Nat \ {0} /\ Late \in Nat /\ MaxCalls \in Nat

VARIABLES
  timer, \* *timer, in milliseconds
  event, \* type of the event of the last call
  phase, \* the clock modulo a second, in clock units
  since, \* history: clock units spent in poll(2) since the timer was set
  calls, \* history: calls since then
  more,  \* some connection has more_to_read
  long   \* history: the last call lasted a millisecond or more

timerVars == <<timer, event, phase, since, calls, more, long>>

Second == Tick * Ms

(* Integer division of C, which truncates towards zero.                    *)
Quotient(a, b) == IF a >= 0 THEN a \div b ELSE -((-a) \div b)

(* A mistake to rule out: the seconds are forgotten.                       *)
ElapsedNoSeconds(t, d) == Quotient(((t + d) % Second) - (t % Second), Tick)

(* time_elapsed_ms for a call that starts at clock t and lasts d.          *)
Elapsed(t, d) ==
  LET sec(u) == u \div Second
      usec(u) == u % Second
  IN  (sec(t + d) - sec(t)) * Ms + Quotient(usec(t + d) - usec(t), Tick)

(* A mistake to rule out: the time of a call that did not use up the timer *)
(* is not taken from it.                                                   *)
RemainingKeeps(e) == IF e >= timer THEN 0 ELSE timer

(* The new value of *timer after e milliseconds.                           *)
Remaining(e) == IF e >= timer THEN 0 ELSE timer - e

(* The value given to poll(2).                                             *)
timer_ == IF more THEN 0 ELSE timer

Least(a, b) == IF a < b THEN a ELSE b

(* The time of a call is d units: account for it.                          *)
Spend(d) ==
  /\ timer' = Remaining(Elapsed(phase, d))
  /\ phase' = (phase + d) % Second
  /\ since' = Least(since + d, (MaxCalls + 1) * (Period * Tick + Late))
  /\ calls' = Least(calls + 1, MaxCalls + 1)
  /\ long' = (d >= Tick)

(* A descriptor becomes ready, or has more to read: the event is one of    *)
(* those of the connections.                                               *)
WaitReady ==
  /\ event # "TIMER"
  /\ \E d \in 0 .. timer_ * Tick + Late : Spend(d)
  /\ event' = "IO"
  /\ more' \in BOOLEAN

(* Nothing becomes ready: poll(2) returns 0 once timer_ is over.  With a   *)
(* null timer the loop over the connections ends without an event.         *)
WaitQuiet ==
  /\ event # "TIMER" /\ ~more
  /\ \E d \in timer_ * Tick .. timer_ * Tick + Late : Spend(d)
  /\ event' = IF timer_ # 0 THEN "TIMER" ELSE "NOT_SET"
  /\ UNCHANGED more

(* The application does its routine and sets the timer again.              *)
Routine ==
  /\ event = "TIMER"
  /\ timer' = Period /\ event' = "NOT_SET"
  /\ since' = 0 /\ calls' = 0
  /\ UNCHANGED <<phase, more, long>>

TimerInit ==
  /\ timer = Period /\ event = "NOT_SET" /\ phase \in 0 .. Second - 1
  /\ since = 0 /\ calls = 0 /\ more = FALSE /\ long = FALSE

TimerNext == WaitReady \/ WaitQuiet \/ Routine

(* The application keeps calling.  Nothing is assumed of the connections.  *)
TimerSpec == TimerInit /\ [][TimerNext]_timerVars /\ WF_timerVars(TimerNext)

-----------------------------------------------------------------------------

(* However a call falls with respect to the change of second, where the    *)
(* difference of the fractions is negative and its division truncates the  *)
(* other way, the milliseconds counted are less than one away from the     *)
(* time spent: the timer drifts by less than a millisecond per call, and a *)
(* TIMER event is early by no more than that.  A negative value, with      *)
(* which poll(2) would wait for ever, is never reached.                    *)
NoDrift ==
  /\ timer >= 0
  /\ calls <= MaxCalls =>
       LET counted == (Period - timer) * Tick
       IN  /\ timer > 0 => /\ counted - since <= calls * Tick
                           /\ since - counted <= calls * Tick
           /\ event = "TIMER" => since >= (Period - calls) * Tick

(* However busy the connections are and whatever the alignment of the      *)
(* calls, time that passes is counted: if again and again some call lasts  *)
(* a millisecond, *timer runs out again and again.  Calls that all last    *)
(* less may be truncated to nothing and leave *timer as it is for ever,    *)
(* and what the application gets as it runs out is a TIMER event only if   *)
(* the call returned nothing else: *timer is then 0 for good.              *)
TimerRunsOut == []<>long => []<>(timer = 0)

=============================================================================
