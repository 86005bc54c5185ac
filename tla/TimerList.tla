----------------------------- MODULE TimerList ------------------------------
(***************************************************************************)
(* The list of timers of kern/schedule/sched.c, as do_sleep uses it: each  *)
(* entry holds the ticks between the expiry of the entry before it and its *)
(* own, and only the first entry is counted down.                          *)
(***************************************************************************)
EXTENDS Integers, Sequences, SequencesExt

CONSTANTS Proc, MAX_SLEEP

ASSUME TimerAssumption == MAX_SLEEP \in Nat \ {0}

VARIABLES
  timer_list,  \* a sequence of [proc, expires]
  asleep,      \* processes whose state is PROC_SLEEPING in do_sleep
  in_sleep     \* processes between add_timer and del_timer of do_sleep

vars == <<timer_list, asleep, in_sleep>>

Entry == [proc : Proc, expires : 0..MAX_SLEEP]

Init == timer_list = << >> /\ asleep = {} /\ in_sleep = {}

(* What is left of t at place i: add_timer subtracts the entries it passes. *)
Rest(tl, t) ==
  LET rest[i \in 1..(Len(tl) + 1)] ==
        IF i = 1 THEN t ELSE rest[i - 1] - tl[i - 1].expires
  IN rest

Adjusted_Never(e, d) == e
(* The entry behind a new one now counts from it.                          *)
Adjusted(e, d) == [e EXCEPT !.expires = @ - d]

Later(e, t) == t < e.expires

(* add_timer stops at the first entry that expires later, or at the end.   *)
add_timer(tl, p, t) ==
  LET rest == Rest(tl, t)
      Stops(i) == i = Len(tl) + 1 \/ Later(tl[i], rest[i])
      at == CHOOSE i \in 1..(Len(tl) + 1) : Stops(i) /\ \A j \in 1..(i - 1) : ~ Stops(j)
      new == [proc |-> p, expires |-> rest[at]]
      behind == IF at > Len(tl) THEN << >>
                ELSE <<Adjusted(tl[at], rest[at])>> \o SubSeq(tl, at + 1, Len(tl))
  IN SubSeq(tl, 1, at - 1) \o <<new>> \o behind

Inherited_Never(e, d) == e
(* The entry behind a deleted one takes over its ticks.                    *)
Inherited(e, d) == [e EXCEPT !.expires = @ + d]

(* del_timer of the timer of p, if it is still listed.                     *)
del_timer(tl, p) ==
  IF \A i \in 1..Len(tl) : tl[i].proc # p THEN tl
  ELSE LET i == CHOOSE i \in 1..Len(tl) : tl[i].proc = p
       IN RemoveAt(IF i = Len(tl) THEN tl
                   ELSE [tl EXCEPT ![i + 1] = Inherited(@, tl[i].expires)], i)

(* How many entries at the front have expired.                             *)
Expired(tl) ==
  CHOOSE n \in 0..Len(tl) :
    /\ \A i \in 1..n : tl[i].expires = 0
    /\ n < Len(tl) => tl[n + 1].expires # 0

-----------------------------------------------------------------------------
(* do_sleep, up to its schedule().                                         *)
Sleep(p, t) ==
  /\ p \notin in_sleep
  /\ timer_list' = add_timer(timer_list, p, t)
  /\ asleep' = asleep \cup {p}
  /\ in_sleep' = in_sleep \cup {p}

(* do_kill wakes a sleeper whose timer stays in the list.                  *)
Kill(p) ==
  /\ p \in asleep
  /\ asleep' = asleep \ {p}
  /\ UNCHANGED <<timer_list, in_sleep>>

(* do_sleep after its schedule().                                          *)
Return(p) ==
  /\ p \in in_sleep \ asleep
  /\ timer_list' = del_timer(timer_list, p)
  /\ in_sleep' = in_sleep \ {p}
  /\ UNCHANGED asleep

(* run_timer_list.                                                         *)
run_timer_list ==
  LET tl == IF timer_list = << >> THEN timer_list
            ELSE [timer_list EXCEPT ![1].expires = @ - 1]
      n == Expired(tl)
  IN /\ timer_list' = SubSeq(tl, n + 1, Len(tl))
     /\ asleep' = asleep \ {tl[i].proc : i \in 1..n}
     /\ UNCHANGED in_sleep

Next ==
  \/ \E p \in Proc : (\E t \in 1..MAX_SLEEP : Sleep(p, t)) \/ Kill(p) \/ Return(p)
  \/ run_timer_list

Spec == Init /\ [][Next]_vars

(* The clock goes on, and a process that was woken runs.                   *)
FairSpec == Spec /\ WF_vars(run_timer_list) /\ \A p \in Proc : WF_vars(Return(p))

-----------------------------------------------------------------------------
(* Properties.                                                             *)

(* The assertions of run_timer_list and add_timer: the first entry has not *)
(* expired yet, and no timer is listed twice or after its do_sleep.        *)
ListSound ==
  /\ timer_list # << >> => timer_list[1].expires # 0
  /\ \A i, j \in 1..Len(timer_list) :
       timer_list[i].proc = timer_list[j].proc => i = j
  /\ asleep \subseteq {timer_list[i].proc : i \in 1..Len(timer_list)}
  /\ {timer_list[i].proc : i \in 1..Len(timer_list)} \subseteq in_sleep

(* The ticks until entry i expires: the sum of the entries up to it.       *)
Sums(tl) ==
  LET sum[i \in 0..Len(tl)] == IF i = 0 THEN 0 ELSE sum[i - 1] + tl[i].expires
  IN sum

(* The time a list gives each process, 0 if it has no entry.               *)
LeftIn(tl) ==
  [p \in Proc |->
    IF \E i \in 1..Len(tl) : tl[i].proc = p
    THEN Sums(tl)[CHOOSE i \in 1..Len(tl) : tl[i].proc = p]
    ELSE 0]

Left == LeftIn(timer_list)

(* The list implements independent countdowns: inserting, deleting early   *)
(* and expiring together never move anybody's wakeup by a tick.            *)
Deadlines == INSTANCE Timers WITH left <- Left
ImplementsTimers == Deadlines!Spec

(* Every sleeper returns from do_sleep: its timer comes to the front of    *)
(* the list and expires, however many others are inserted before it.       *)
SleepersReturn == \A p \in Proc : (p \in in_sleep) ~> (p \notin in_sleep)
=============================================================================
