------------------------------- MODULE Timers -------------------------------
(***************************************************************************)
(* What the timers of do_sleep promise: a process that sleeps for t ticks  *)
(* is woken by exactly the t-th tick after it, unless something else wakes *)
(* it first, and then its timer never fires.  This is how Proc sees        *)
(* timers; TimerList implements it.                                        *)
(***************************************************************************)
EXTENDS Integers

CONSTANTS Proc, MAX_SLEEP

VARIABLES
  left,    \* ticks until the timer of the process fires; 0: it has none
  asleep   \* the processes in do_sleep that nobody has woken yet

vars == <<left, asleep>>

Init == left = [p \in Proc |-> 0] /\ asleep = {}

Sleep(p, t) ==
  /\ p \notin asleep /\ left[p] = 0
  /\ left' = [left EXCEPT ![p] = t]
  /\ asleep' = asleep \cup {p}

Kill(p) == p \in asleep /\ asleep' = asleep \ {p} /\ UNCHANGED left

Return(p) == p \notin asleep /\ left' = [left EXCEPT ![p] = 0] /\ UNCHANGED asleep

Tick ==
  /\ left' = [p \in Proc |-> IF left[p] > 0 THEN left[p] - 1 ELSE 0]
  /\ asleep' = asleep \ {p \in Proc : left[p] = 1}

Next ==
  \/ \E p \in Proc : (\E t \in 1..MAX_SLEEP : Sleep(p, t)) \/ Kill(p) \/ Return(p)
  \/ Tick

Spec == Init /\ [][Next]_vars
=============================================================================
