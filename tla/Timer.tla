-------------------------------- MODULE Timer --------------------------------
(***************************************************************************)
(* The timer wheel of kern/timer.cc.  A timer with fewer than NTICK ticks  *)
(* to go hangs in one of NTICK slots ("below"), the others on one list     *)
(* ("above") that is gone through each time the wheel wraps around.        *)
(* timersoftisr() drains the current slot, calling each timer's function,  *)
(* and advances the wheel.                                                 *)
(***************************************************************************)
EXTENDS Integers

CONSTANTS
  Timer,    \* timer_t objects
  NTICK,    \* slots of the wheel (512 in the code, a power of two)
  Period    \* the periods timers are started with

ASSUME TimerAssumption ==
  /\ NTICK \in Nat /\ NTICK > 1
  /\ Period \subseteq Nat \ {0}

VARIABLES
  cur,      \* the current slot
  where,    \* "off" (not linked), "below" or "above"
  slot,     \* the slot of a timer that is below
  period,
  lefttick,
  draining, \* timersoftisr is in its while loop
  age       \* history: calls of timersoftisr completed since start(), 0 when off

timer == <<where, slot, period, lefttick, age>>
vars == <<cur, timer, draining>>

\* x & (NTICK-1), for the x < 2 * NTICK that occur.
Wrap(x) == IF x >= NTICK THEN x - NTICK ELSE x

----------------------------------------------------------------------------
\* timer_t::start; of an active timer it does nothing.
Start(t, p) ==
  /\ where[t] = "off"
  /\ period' = [period EXCEPT ![t] = p]
  /\ lefttick' = [lefttick EXCEPT ![t] = p]
  /\ age' = [age EXCEPT ![t] = 0]
  /\ IF p < NTICK
       THEN /\ where' = [where EXCEPT ![t] = "below"]
            /\ slot' = [slot EXCEPT ![t] = Wrap(cur + p)]
       ELSE /\ where' = [where EXCEPT ![t] = "above"]
            /\ UNCHANGED slot
  /\ UNCHANGED <<cur, draining>>

\* timer_t::stop, and ~timer_t, of an active timer.
Stop(t) ==
  /\ where[t] # "off"
  /\ where' = [where EXCEPT ![t] = "off"]
  /\ age' = [age EXCEPT ![t] = 0]
  /\ UNCHANGED <<cur, slot, period, lefttick, draining>>

\* timersoftisr is entered.
Softisr ==
  /\ ~draining /\ draining' = TRUE
  /\ UNCHANGED <<cur, timer>>

\* One turn of its loop: the timer is unlinked, then its function runs.  What
\* the function does to this or other timers are Start and Stop steps.
Due(t) == where[t] = "below" /\ slot[t] = cur
FireLinked(t) == draining /\ Due(t) /\ UNCHANGED vars
Fire(t) ==
  /\ draining /\ Due(t)
  /\ where' = [where EXCEPT ![t] = "off"]
  /\ age' = [age EXCEPT ![t] = 0]
  /\ UNCHANGED <<cur, slot, period, lefttick, draining>>

\* The timers of the above list that come close enough move below when the
\* wheel has wrapped around to slot 0.
DescendsLate(t) == where[t] = "above" /\ lefttick[t] <= 0
Descends(t) == where[t] = "above" /\ lefttick[t] - NTICK <= NTICK

\* The slot is empty: advance.
Advance ==
  /\ draining /\ \A t \in Timer : ~Due(t)
  /\ draining' = FALSE
  /\ age' = [t \in Timer |-> IF where[t] = "off" THEN 0 ELSE age[t] + 1]
  /\ cur' = Wrap(cur + 1)
  /\ IF cur' # 0
       THEN UNCHANGED <<where, slot, lefttick>>
       ELSE /\ lefttick' = [t \in Timer |-> IF where[t] = "above"
                                              THEN lefttick[t] - NTICK ELSE lefttick[t]]
            /\ where' = [t \in Timer |-> IF Descends(t) THEN "below" ELSE where[t]]
            /\ slot' = [t \in Timer |-> IF Descends(t)
                                          THEN Wrap(cur' + lefttick'[t]) ELSE slot[t]]
  /\ UNCHANGED period

Init ==
  /\ cur = 0
  /\ where = [t \in Timer |-> "off"]
  /\ slot = [t \in Timer |-> 0]
  /\ period = [t \in Timer |-> 0]
  /\ lefttick = [t \in Timer |-> 0]
  /\ draining = FALSE
  /\ age = [t \in Timer |-> 0]

Next ==
  \/ \E t \in Timer, p \in Period : Start(t, p)
  \/ \E t \in Timer : Stop(t) \/ Fire(t)
  \/ Softisr \/ Advance

Spec == Init /\ [][Next]_vars

\* The clock interrupt keeps requesting the soft interrupt, and its loop runs.
Fairness ==
  /\ WF_vars(Softisr) /\ WF_vars(Advance)
  /\ \A t \in Timer : WF_vars(Fire(t))
FairSpec == Spec /\ Fairness

----------------------------------------------------------------------------
(* Properties. *)

\* Every variable keeps its type; slots stay inside the wheel.
TypeOK ==
  /\ cur \in 0 .. NTICK - 1
  /\ where \in [Timer -> {"off", "below", "above"}]
  /\ slot \in [Timer -> 0 .. NTICK - 1]
  /\ period \in [Timer -> Nat]
  /\ lefttick \in [Timer -> Int]
  /\ draining \in BOOLEAN
  /\ age \in [Timer -> Nat]

\* A timer shorter than the wheel fires in exactly the call of timersoftisr
\* that its period names: after period completed calls, neither early nor late.
ShortTimerExact ==
  \A t \in Timer : draining /\ Due(t) /\ period[t] < NTICK => age[t] = period[t]

\* No timer fires late: a timer that still hangs somewhere is not overdue, even
\* across any number of turns of the wheel.
NeverLate == \A t \in Timer : where[t] # "off" => age[t] <= period[t]

\* A long timer can fire early, because the turn in which it was started is
\* charged in full and because NTICK ticks left map to the current slot; by
\* less than two turns.
EarlyByLessThanTwoTurns ==
  \A t \in Timer : draining /\ Due(t) => age[t] > period[t] - 2 * NTICK

\* What a caller of start() may rely on about when its function is called.
FiresOnTime == ShortTimerExact /\ NeverLate /\ EarlyByLessThanTwoTurns

\* A started timer is called or stopped in the end.
TimerEnds == \A t \in Timer : (where[t] # "off") ~> (where[t] = "off")
=============================================================================
