------------------------------ MODULE CheckSync ------------------------------
(***************************************************************************)
(* The monitor of kern/sync/monitor.c and the philosophers who use it and  *)
(* plain semaphores in kern/sync/check_sync.c.                             *)
(*                                                                         *)
(* The kernel is not preemptive: a thread runs (it is `current') until it  *)
(* blocks in down(), sleeps in do_sleep() or ends.  Only the clock goes on *)
(* meanwhile and ends sleeps.                                              *)
(***************************************************************************)
EXTENDS Sem

CONSTANTS N,      \* philosophers
          TIMES,  \* meals of each
          NULL    \* nobody runs

Phil == 0..(N - 1)

ASSUME CheckSyncAssumption == N \in Nat \ {0} /\ TIMES \in Nat /\ NULL \notin Phil

Left(i) == (i - 1 + N) % N
Right(i) == (i + 1) % N

Mutex == N          \* the semaphore mutex, of the monitor or on its own
NextSem == N + 1    \* the semaphore next of the monitor
(* Semaphore i < N is s[i] or the semaphore of the condition variable i.   *)
Sems == 0..(N + 1)

VARIABLES
  phase,        \* check_sync tries the semaphores, then the monitor
  sem, count, next_count,
  state,        \* state_sema or state_condvar
  iter, pc, current

vars == <<phase, sem, count, next_count, state, iter, pc, current>>

PC == {"start", "thinking", "take", "hungry", "sig_self", "tested", "waited", "fed",
       "leave_take", "dining", "put", "left", "sig_left", "right", "sig_right",
       "leave_put", "quit"}
(* Positions inside the critical section, or on the way back into it.      *)
InMonitor == {"hungry", "sig_self", "tested", "waited", "leave_take",
              "left", "sig_left", "right", "sig_right", "leave_put"}
Signalling == {"sig_self", "sig_left", "sig_right"}

(* What monitor_init and the initialisation of the semaphores set up.      *)
FreshSems == [s \in Sems |-> SemInit(IF s = Mutex THEN 1 ELSE 0)]

Init ==
  /\ phase = "sema"
  /\ sem = FreshSems
  /\ count = [i \in Phil |-> 0]
  /\ next_count = 0
  /\ state = [i \in Phil |-> "THINKING"]
  /\ iter = [i \in Phil |-> 0]
  /\ pc = [i \in Phil |-> "start"]
  /\ current = NULL

-----------------------------------------------------------------------------
Queued(i) == \E s \in Sems : i \in Waiters(sem, s)
Asleep(i) == pc[i] \in {"thinking", "dining"}

(* schedule() switches to a thread that can run.                           *)
Schedule(i) ==
  /\ current = NULL
  /\ ~ Queued(i) /\ ~ Asleep(i) /\ pc[i] # "quit"
  /\ current' = i
  /\ UNCHANGED <<phase, sem, count, next_count, state, iter, pc>>

(* The timer of a do_sleep expires.                                        *)
WakeUp(i) ==
  /\ Asleep(i)
  /\ pc' = [pc EXCEPT ![i] = IF @ = "thinking" THEN "take" ELSE "put"]
  /\ UNCHANGED <<phase, sem, count, next_count, state, iter, current>>

(* i continues at position p.                                              *)
Goto(i, p) == pc' = [pc EXCEPT ![i] = p]

(* i does down(s) on the semaphores m and goes on at p, at once or woken.  *)
DownThen(i, m, s, p) ==
  /\ sem' = Down(m, s, i)
  /\ current' = IF Blocks(m, s) THEN NULL ELSE i
  /\ Goto(i, p)

(* Leaving the monitor, or giving it up in cond_wait: a sleeping signaller *)
(* goes first.  The philosophers with semaphores just do up(&mutex).       *)
Leave_AlwaysMutex(m) == Up(m, Mutex)
Leave(m) == IF phase = "condvar" /\ next_count > 0 THEN Up(m, NextSem) ELSE Up(m, Mutex)

MayEat_OneSided(st, j) == st[j] = "HUNGRY" /\ st[Left(j)] # "EATING"
MayEat(st, j) ==
  st[j] = "HUNGRY" /\ st[Left(j)] # "EATING" /\ st[Right(j)] # "EATING"

(* phi_test_sema and phi_test_condvar for philosopher j, called by i on    *)
(* the states st; i goes on at p, or at sig first if cond_signal makes it  *)
(* sleep on next.                                                          *)
Test(i, j, st, p, sig) ==
  LET wakes == MayEat(st, j) /\ phase = "condvar" /\ count[j] > 0 IN
  /\ state' = IF MayEat(st, j) THEN [st EXCEPT ![j] = "EATING"] ELSE st
  /\ IF wakes
     THEN next_count' = next_count + 1 /\ DownThen(i, Up(sem, j), NextSem, sig)
     ELSE /\ sem' = IF MayEat(st, j) /\ phase = "sema" THEN Up(sem, j) ELSE sem
          /\ Goto(i, p)
          /\ UNCHANGED <<next_count, current>>
  /\ UNCHANGED <<phase, count, iter>>

(* The end of cond_signal, back from the semaphore next.                   *)
Signalled(i) ==
  /\ current = i /\ pc[i] \in Signalling
  /\ next_count' = next_count - 1
  /\ Goto(i, IF pc[i] = "sig_self" THEN "tested"
             ELSE IF pc[i] = "sig_left" THEN "right" ELSE "leave_put")
  /\ UNCHANGED <<phase, sem, count, state, iter, current>>

(* The loop of a philosopher: think (do_sleep) or quit.                    *)
Round(i) ==
  /\ current = i /\ pc[i] = "start"
  /\ IF iter[i] < TIMES
     THEN iter' = [iter EXCEPT ![i] = @ + 1] /\ Goto(i, "thinking")
     ELSE iter' = iter /\ Goto(i, "quit")
  /\ current' = NULL
  /\ UNCHANGED <<phase, sem, count, next_count, state>>

-----------------------------------------------------------------------------
(* phi_take_forks_sema and phi_take_forks_condvar.                         *)

TakeForks(i) ==
  /\ current = i /\ pc[i] = "take"
  /\ DownThen(i, sem, Mutex, "hungry")
  /\ UNCHANGED <<phase, count, next_count, state, iter>>

Hungry(i) ==
  /\ current = i /\ pc[i] = "hungry"
  /\ Test(i, i, [state EXCEPT ![i] = "HUNGRY"], "tested", "sig_self")

(* With semaphores: leave, and wait for s[i], which the test may have      *)
(* raised already.                                                         *)
WaitFork(i) ==
  /\ current = i /\ pc[i] = "tested" /\ phase = "sema"
  /\ DownThen(i, Leave(sem), i, "fed")
  /\ UNCHANGED <<phase, count, next_count, state, iter>>

(* With the monitor: cond_wait on the own condition variable, up to its    *)
(* down().                                                                 *)
CondWait(i) ==
  /\ current = i /\ pc[i] = "tested" /\ phase = "condvar" /\ state[i] = "HUNGRY"
  /\ count' = [count EXCEPT ![i] = @ + 1]
  /\ DownThen(i, Leave(sem), i, "waited")
  /\ UNCHANGED <<phase, next_count, state, iter>>

(* The end of cond_wait, or no need for it.                                *)
GotForks(i) ==
  /\ current = i /\ phase = "condvar"
  /\ \/ /\ pc[i] = "tested" /\ state[i] # "HUNGRY"
        /\ UNCHANGED count
     \/ /\ pc[i] = "waited"
        /\ count' = [count EXCEPT ![i] = @ - 1]
  /\ Goto(i, "leave_take")
  /\ UNCHANGED <<phase, sem, next_count, state, iter, current>>

(* Eating is a do_sleep.                                                   *)
Eat(i) ==
  /\ current = i /\ pc[i] \in {"fed", "leave_take"}
  /\ sem' = IF pc[i] = "fed" THEN sem ELSE Leave(sem)
  /\ Goto(i, "dining")
  /\ current' = NULL
  /\ UNCHANGED <<phase, count, next_count, state, iter>>

-----------------------------------------------------------------------------
(* phi_put_forks_sema and phi_put_forks_condvar.                           *)

PutForks(i) ==
  /\ current = i /\ pc[i] = "put"
  /\ DownThen(i, sem, Mutex, "left")
  /\ UNCHANGED <<phase, count, next_count, state, iter>>

TestLeft(i) ==
  /\ current = i /\ pc[i] = "left"
  /\ Test(i, Left(i), [state EXCEPT ![i] = "THINKING"], "right", "sig_left")

TestsRight_Skipped(i) ==
  Goto(i, "leave_put") /\ UNCHANGED <<phase, sem, count, next_count, state, iter, current>>
TestsRight(i) == Test(i, Right(i), state, "leave_put", "sig_right")

TestRight(i) ==
  /\ current = i /\ pc[i] = "right"
  /\ TestsRight(i)

LeavePut(i) ==
  /\ current = i /\ pc[i] = "leave_put"
  /\ sem' = Leave(sem)
  /\ Goto(i, "start")
  /\ UNCHANGED <<phase, count, next_count, state, iter, current>>

-----------------------------------------------------------------------------
(* check_sync has waited for all its threads and starts the next ones.     *)
NextPhase ==
  /\ current = NULL /\ phase # "done"
  /\ \A i \in Phil : pc[i] = "quit"
  /\ \/ /\ phase = "sema" /\ phase' = "condvar"
        /\ sem' = FreshSems
        /\ count' = [i \in Phil |-> 0]
        /\ next_count' = 0
        /\ state' = [i \in Phil |-> "THINKING"]
        /\ iter' = [i \in Phil |-> 0]
        /\ pc' = [i \in Phil |-> "start"]
     \/ /\ phase = "condvar" /\ phase' = "done"
        /\ UNCHANGED <<sem, count, next_count, state, iter, pc>>
  /\ UNCHANGED current

Running(i) ==
  \/ Round(i) \/ TakeForks(i) \/ Hungry(i) \/ Signalled(i) \/ WaitFork(i) \/ CondWait(i)
  \/ GotForks(i) \/ Eat(i) \/ PutForks(i) \/ TestLeft(i) \/ TestRight(i) \/ LeavePut(i)

Next == NextPhase \/ \E i \in Phil : Schedule(i) \/ WakeUp(i) \/ Running(i)

Spec == Init /\ [][Next]_vars

(* The running thread goes on, timers expire, and schedule() passes over   *)
(* no thread forever.                                                      *)
FairSpec ==
  /\ Spec
  /\ WF_vars(NextPhase)
  /\ \A i \in Phil : WF_vars(Running(i)) /\ WF_vars(WakeUp(i)) /\ SF_vars(Schedule(i))

-----------------------------------------------------------------------------
(* Properties.                                                             *)

(* Types of the variables; no semaphore goes below zero, no count of       *)
(* waiters either, although both are decremented far from their tests.     *)
TypeOK ==
  /\ phase \in {"sema", "condvar", "done"}
  /\ sem \in [Sems -> [value : Nat, queue : Seq(Phil)]]
  /\ count \in [Phil -> Nat]
  /\ next_count \in Nat
  /\ state \in [Phil -> {"THINKING", "HUNGRY", "EATING"}]
  /\ iter \in [Phil -> 0..TIMES]
  /\ pc \in [Phil -> PC]
  /\ current \in Phil \cup {NULL}

(* The threads that are in the critical section, or have been given it and *)
(* wait for the hart.                                                      *)
Inside == {i \in Phil : pc[i] \in InMonitor /\ ~ Queued(i)}

(* monitor.h: only one process at a time is active in the monitor.  There  *)
(* is one right to be inside; up(), cond_wait and cond_signal pass it on   *)
(* and never double or drop it.                                            *)
OneInMonitor ==
  \/ sem[Mutex].value = 1 /\ Inside = {}
  \/ sem[Mutex].value = 0 /\ \E i \in Phil : Inside = {i}

HasForks(i) == pc[i] \in {"fed", "leave_take", "dining", "put", "left"} /\ ~ (pc[i] = "fed" /\ Queued(i))

(* Whoever is past the wait for forks has them, and his neighbours have    *)
(* not: nobody comes out of a down() or a cond_wait on a stray token.      *)
ForksExclusive ==
  \A i \in Phil : HasForks(i) =>
    state[i] = "EATING" /\ (N > 1 => ~ HasForks(Left(i)) /\ ~ HasForks(Right(i)))

(* When nobody is inside, everyone who is hungry waits for a neighbour who *)
(* eats: no philosopher was passed over when forks were put back.          *)
HungryHaveCause ==
  sem[Mutex].value = 1 =>
    \A i \in Phil : state[i] = "HUNGRY" =>
      "EATING" \in {state[Left(i)], state[Right(i)]}

(* Both halves of check_sync come to their end: everybody eats TIMES times.*)
CheckSyncEnds == <>(phase = "done")
=============================================================================
