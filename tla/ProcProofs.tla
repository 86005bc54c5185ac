----------------------------- MODULE ProcProofs -----------------------------
(***************************************************************************)
(* Proofs about Proc for every number of processes, every time slice and   *)
(* every sleep.  The first part: the type invariant, the exactness of the  *)
(* run queue, the ownership of timers and the absence of lost wakeups in   *)
(* do_wait.  The second: the process tree.  The sibling list of every      *)
(* process is a chain of exactly its children, so do_wait sees them all,   *)
(* parents outlive their children, nr_process is exact and zombies rest.   *)
(* The third: the pids that do_fork hands out, specified in GetPid, are    *)
(* unique, because of the window that get_pid keeps between two calls and  *)
(* narrows during a search.                                                *)
(***************************************************************************)
EXTENDS Proc, GetPid, TLAPS, FiniteSetTheorems, WellFoundedInduction

(* Where each kind of process may be in its code, and what the hart may be *)
(* doing for it.                                                           *)
Positions ==
  /\ pc[idleproc] = "cpu_idle"
  /\ pc[kpu_task_ctrl_proc] = "kpu_task_ctrl"
  /\ pc[initproc] \in {"init_fork", "init_loop", "init_end", "do_wait"}
  /\ \A p \in Slots : pc[p] \in {"user", "user_main", "do_wait", "do_sleep"}
  /\ cpu = "trapret" => pc[current] = "user"
  /\ cpu = "do_exit" => current \in Slots

(* Idle can always run, the other kernel threads never die, and what runs  *)
(* is able to.                                                             *)
Running ==
  /\ state[idleproc] = "RUNNABLE"
  /\ \A p \in KernelProcs : state[p] \in {"RUNNABLE", "SLEEPING"}
  /\ cpu \in {"run", "trapret"} => state[current] = "RUNNABLE"
  /\ cpu = "do_exit" => state[current] = "ZOMBIE"

(* init waits for any child.                                               *)
InitWaitsForAny == wait_pid[initproc] = NULL

(* Every process but idle has a parent.                                    *)
HasParent == \A p \in Proc \ {idleproc} : state[p] # "FREE" => parent[p] \in Proc

(* wait_state names a reason exactly while the process sleeps.             *)
WaitingIffSleeping == \A p \in Proc : wait_state[p] # "none" <=> state[p] = "SLEEPING"

IInv == /\ TypeOK /\ Positions /\ Running /\ HasParent /\ RunQueueExact
        /\ InitWaitsForAny /\ WaitingIffSleeping /\ TimersOwned /\ NoStrandedZombie

-----------------------------------------------------------------------------
(* Next is the disjunction of its actions; every step lemma below is       *)
(* applied through this one.                                               *)
LEMMA NextCases ==
  ASSUME Next
  PROVE  \/ Fork \/ Exit \/ Wait \/ Kill \/ Sleep \/ Yield \/ Fault
         \/ Exec \/ TrapReturn \/ ExitReparent \/ ExitDone \/ WaitResume \/ SleepResume
         \/ Idle \/ KpuTaskCtrl \/ InitFork \/ InitWait \/ InitEnd \/ schedule
         \/ Tick
         \/ Panicked
  BY DEF Next, UserStep, KernelStep

LEMMA SlicesType ==
  ASSUME TypeOK, NEW E
  PROVE  Slices(E) \in [Proc -> 0..MAX_TIME_SLICE]
  BY ProcAssumption DEF Slices, Refilled, TypeOK

LEMMA ProcMembers ==
  /\ idleproc \in Proc /\ initproc \in Proc /\ kpu_task_ctrl_proc \in Proc
  /\ Slots \subseteq Proc /\ idleproc \notin Slots /\ initproc \notin Slots
  /\ kpu_task_ctrl_proc \notin Slots
  /\ idleproc # initproc /\ idleproc # kpu_task_ctrl_proc /\ initproc # kpu_task_ctrl_proc
  /\ NULL \notin Proc
  /\ \A p \in Proc : p \in Slots \/ p \in KernelProcs
  BY ProcAssumption DEF Proc, KernelProcs

LEMMA InitType == Init => TypeOK
  BY ProcAssumption, ProcMembers
  DEF Init, TypeOK, ProcState, WaitState, PC, CPU, KernelProcs

(* The parts the actions share keep the types of what they assign.         *)
LEMMA WakeupType ==
  ASSUME TypeOK, NEW S, NEW st \in [Proc -> ProcState], S \subseteq Proc, wakeup_proc(S, st)
  PROVE  /\ state' \in [Proc -> ProcState]
         /\ wait_state' \in [Proc -> WaitState]
         /\ rq' \subseteq Proc
  BY DEF wakeup_proc, Enqueued, TypeOK, ProcState, WaitState

LEMMA ForkType ==
  ASSUME TypeOK, NEW c \in Slots, NEW at \in PC, ForkInto(c, at), cpu' \in CPU
  PROVE  TypeOK'
  BY ProcAssumption, ProcMembers
  DEF ForkInto, set_links, TypeOK, ProcState, PC

LEMMA ExitType ==
  ASSUME TypeOK, NEW h \in BOOLEAN, do_exit(h), parent[current] \in Proc,
         UNCHANGED <<exiting, timer, wait_pid, current>>
  PROVE  TypeOK'
<1>1. CASE current = initproc
  BY <1>1 DEF do_exit, TypeOK, CPU, sched_vars, links
<1>2. CASE current # initproc
  <2> DEFINE woken == IF WakesParent(current) THEN {parent[current]} ELSE {}
             st == [state EXCEPT ![current] = "ZOMBIE"]
  <2>1. st \in [Proc -> ProcState] /\ woken \subseteq Proc
    BY DEF TypeOK, ProcState
  <2>2. wakeup_proc(woken, st) /\ time_slice' = Slices(Enqueued(woken, st))
    BY <1>2 DEF do_exit
  <2>3. /\ state' \in [Proc -> ProcState]
        /\ wait_state' \in [Proc -> WaitState]
        /\ rq' \subseteq Proc
    <3> HIDE DEF woken, st
    <3>1. QED
      BY <2>1, <2>2 DEF wakeup_proc, Enqueued, TypeOK, ProcState, WaitState
  <2>4. time_slice' \in [Proc -> 0..MAX_TIME_SLICE]
    BY <2>2, SlicesType
  <2>5. QED
    BY <1>2, <2>3, <2>4 DEF do_exit, TypeOK, CPU, links
<1>3. QED
  BY <1>1, <1>2

LEMMA WaitPassType ==
  ASSUME TypeOK, NEW w \in Proc \cup {NULL}, NEW ok, NEW err,
         ok.pc \in PC, ok.cpu \in CPU, err.pc \in PC, err.cpu \in CPU,
         WaitPass(w, ok, err), UNCHANGED <<mm, filesp, timer, current>>
  PROVE  TypeOK'
<1>1. ASSUME NEW z \in Proc, Reap(z, ok.pc), cpu' = ok.cpu
      PROVE  TypeOK'
  <2>1. cptr' \in [Proc -> Proc \cup {NULL}]
    BY <1>1 DEF Reap, remove_links, TypeOK
  <2>2. yptr' \in [Proc -> Proc \cup {NULL}] /\ optr' \in [Proc -> Proc \cup {NULL}]
    BY <1>1 DEF Reap, remove_links, UnlinkedFromYounger, TypeOK
  <2>3. parent' \in [Proc -> Proc \cup {NULL}] /\ nr_process' \in Int
    BY <1>1 DEF Reap, remove_links, CountAfterRemoval, TypeOK
  <2>4. pc' \in [Proc -> PC] /\ wait_pid' \in [Proc -> Proc \cup {NULL}]
    BY <1>1 DEF Reap, TypeOK, PC
  <2>5. time_slice' \in [Proc -> 0..MAX_TIME_SLICE] /\ state' \in [Proc -> ProcState]
    BY <1>1, ProcAssumption DEF Reap, TypeOK, ProcState
  <2>6. exiting' \in [Proc -> BOOLEAN] /\ need_resched' \in [Proc -> BOOLEAN]
    BY <1>1 DEF Reap, TypeOK
  <2>7. QED
    BY <1>1, <2>1, <2>2, <2>3, <2>4, <2>5, <2>6 DEF Reap, TypeOK
<1>2. CASE SleepCurrent("WT_CHILD") /\ pc' = [pc EXCEPT ![current] = "do_wait"]
           /\ wait_pid' = [wait_pid EXCEPT ![current] = w]
           /\ UNCHANGED <<exiting, need_resched, links, nr_process>>
  BY <1>2 DEF SleepCurrent, TypeOK, ProcState, WaitState, PC, CPU, links
<1>3. CASE pc' = [pc EXCEPT ![current] = err.pc] /\ cpu' = err.cpu
           /\ wait_pid' = [wait_pid EXCEPT ![current] = NULL]
           /\ UNCHANGED <<sched_vars, exiting, need_resched, links, nr_process>>
  BY <1>3 DEF TypeOK, links, sched_vars
<1>4. QED
  BY <1>1, <1>2, <1>3 DEF WaitPass, Candidates, Children, Live

(* Every variable keeps its type in every step.                            *)
LEMMA TypeStep ==
  ASSUME TypeOK, Positions, Running, HasParent, [Next]_vars
  PROVE  TypeOK'
<1> USE DEF CPU, PC, links, sched_vars
<1>0. ASSUME cpu \in {"run", "trapret"}, pc[current] \in {"user", "user_main", "do_wait"}
      PROVE  parent[current] \in Proc
  BY <1>0, ProcMembers DEF Positions, Running, HasParent, TypeOK, KernelProcs
<1>1. CASE Fork
  <2>1. CASE \E c \in Slots : ForkInto(c, "user")
    BY <1>1, <2>1, ForkType DEF Fork
  <2>2. CASE ~ \E c \in Slots : ForkInto(c, "user")
    BY <1>1, <2>2 DEF Fork, TypeOK
  <2>3. QED BY <2>1, <2>2
<1>2. CASE Exit
  BY <1>0, <1>2, ExitType DEF Exit, InUser, TypeOK
<1>3. CASE Wait
  <2>1. CASE \E w \in Proc \cup {NULL} : WaitPass(w, ToUser, ToUser)
    BY <1>3, <2>1, WaitPassType DEF Wait, ToUser
  <2>2. CASE ~ \E w \in Proc \cup {NULL} : WaitPass(w, ToUser, ToUser)
    BY <1>3, <2>2 DEF Wait, TypeOK
  <2>3. QED BY <2>1, <2>2
<1>4. CASE Kill
  <2>1. PICK q \in KillTargets :
          LET fresh == state[q] # "FREE" /\ ~ exiting[q]
              woken == IF fresh /\ wait_state[q] # "none" THEN {q} ELSE {}
          IN /\ exiting' = [exiting EXCEPT ![q] = @ \/ fresh]
             /\ wakeup_proc(woken, state)
             /\ time_slice' = Slices(Enqueued(woken, state))
    BY <1>4 DEF Kill
  <2> DEFINE fresh == state[q] # "FREE" /\ ~ exiting[q]
             woken == IF fresh /\ wait_state[q] # "none" THEN {q} ELSE {}
  <2>2. q \in Proc /\ woken \subseteq Proc
    BY ProcAssumption
  <2>3. state' \in [Proc -> ProcState] /\ wait_state' \in [Proc -> WaitState] /\ rq' \subseteq Proc
    BY <2>1, <2>2, WakeupType DEF TypeOK
  <2>4. time_slice' \in [Proc -> 0..MAX_TIME_SLICE]
    BY <2>1, SlicesType
  <2>5. exiting' \in [Proc -> BOOLEAN]
    BY <2>1 DEF TypeOK
  <2>6. QED
    BY <1>4, <2>3, <2>4, <2>5 DEF Kill, TypeOK
<1>5. CASE Sleep
  BY <1>5, ProcAssumption DEF Sleep, SleepCurrent, TypeOK, ProcState, WaitState
<1>6. CASE Yield
  BY <1>6 DEF Yield, TypeOK
<1>7. CASE Exec
  <2>1. CASE do_exit(mm[current]) \/ do_exit(FALSE)
    BY <1>0, <1>7, <2>1, ExitType DEF Exec, TypeOK
  <2>2. CASE ~ (do_exit(mm[current]) \/ do_exit(FALSE))
    BY <1>7, <2>2 DEF Exec, TypeOK
  <2>3. QED BY <2>1, <2>2
<1>8. CASE TrapReturn
  <2>1. CASE do_exit(mm[current])
    BY <1>0, <1>8, <2>1, ExitType DEF TrapReturn, Positions, TypeOK
  <2>2. CASE ~ do_exit(mm[current])
    BY <1>8, <2>2 DEF TrapReturn, TypeOK
  <2>3. QED BY <2>1, <2>2
<1>9. CASE ExitReparent
  <2> DEFINE c == cptr[current]
             woken == IF WakesInit(c) THEN {initproc} ELSE {}
  <2>1. c \in Proc /\ woken \subseteq Proc
    BY <1>9, ProcMembers DEF ExitReparent, TypeOK
  <2>2. wakeup_proc(woken, state) /\ time_slice' = Slices(Enqueued(woken, state))
    BY <1>9 DEF ExitReparent
  <2>3. state' \in [Proc -> ProcState] /\ wait_state' \in [Proc -> WaitState] /\ rq' \subseteq Proc
    BY <2>1, <2>2, WakeupType DEF TypeOK
  <2>4. time_slice' \in [Proc -> 0..MAX_TIME_SLICE]
    BY <2>2, SlicesType
  <2>5. QED
    BY <1>9, <2>1, <2>3, <2>4, ProcMembers DEF ExitReparent, NewParent, TypeOK
<1>10. CASE ExitDone
  BY <1>10 DEF ExitDone, TypeOK
<1>11. CASE WaitResume
  <2>1. CASE exiting[current]
    BY <1>0, <1>11, <2>1, ExitType DEF WaitResume, TypeOK
  <2>2. CASE ~ exiting[current]
    <3>1. wait_pid[current] \in Proc \cup {NULL}
      BY DEF TypeOK
    <3>2. WaitPass(wait_pid[current], ToUser, ToUser) /\ UNCHANGED <<mm, filesp, timer, current>>
      BY <1>11, <2>2 DEF WaitResume
    <3>3. QED
      BY <3>1, <3>2, WaitPassType DEF ToUser
  <2>3. QED BY <2>1, <2>2
<1>12. CASE SleepResume
  BY <1>12, ProcAssumption DEF SleepResume, TimerAfterSleep, TypeOK
<1>13. CASE Idle
  BY <1>13 DEF Idle, TypeOK
<1>14. CASE KpuTaskCtrl
  BY <1>14 DEF KpuTaskCtrl, SleepCurrent, TypeOK, ProcState, WaitState
<1>15. CASE InitFork
  <2>1. CASE \E c \in Slots : ForkInto(c, "user_main") /\ cpu' = "run"
    BY <1>15, <2>1, ForkType
  <2>2. CASE InitPanic /\ UNCHANGED <<exiting, timer, wait_pid, current>>
    BY <2>2 DEF InitPanic, TypeOK
  <2>3. QED BY <1>15, <2>1, <2>2 DEF InitFork
<1>16. CASE InitWait
  <2>1. CASE pc[current] = "do_wait" /\ exiting[current]
    BY <1>0, <1>16, <2>1, ExitType DEF InitWait
  <2>2. CASE ~ (pc[current] = "do_wait" /\ exiting[current])
    <3> DEFINE ok == [pc |-> "init_loop", cpu |-> "schedule"]
               err == [pc |-> "init_end", cpu |-> "run"]
    <3>1. WaitPass(NULL, ok, err) /\ UNCHANGED <<mm, filesp, timer, current>>
      BY <1>16, <2>2 DEF InitWait
    <3>2. ok.pc \in PC /\ ok.cpu \in CPU /\ err.pc \in PC /\ err.cpu \in CPU
      OBVIOUS
    <3> HIDE DEF ok, err
    <3>3. QED
      BY <3>1, <3>2, WaitPassType
  <2>3. QED BY <2>1, <2>2
<1>17. CASE InitEnd
  BY <1>17 DEF InitEnd, InitPanic, TypeOK
<1>18. CASE schedule
  <2>1. PICK n \in Proc : ScheduleTo(n)
    BY <1>18 DEF schedule
  <2>2. time_slice' \in [Proc -> 0..MAX_TIME_SLICE]
    BY <2>1, SlicesType DEF ScheduleTo
  <2>3. QED
    BY <2>1, <2>2 DEF ScheduleTo, Requeued, TypeOK
<1>19. CASE Tick
  <2>1. wakeup_proc(Expiring, state) /\ Expiring \subseteq Proc
    BY <1>19 DEF Tick, Expiring
  <2>2. state' \in [Proc -> ProcState] /\ wait_state' \in [Proc -> WaitState] /\ rq' \subseteq Proc
    BY <2>1, WakeupType DEF TypeOK
  <2>3. Slices(Enqueued(Expiring, state)) \in [Proc -> 0..MAX_TIME_SLICE]
    BY SlicesType
  <2>4. SliceAfterTick \in 0..MAX_TIME_SLICE
    BY ProcAssumption DEF SliceAfterTick, TypeOK
  <2>5. time_slice' \in [Proc -> 0..MAX_TIME_SLICE]
    BY <1>19, <2>3, <2>4 DEF Tick, TypeOK
  <2>6. timer' \in [Proc -> 0..MAX_SLEEP]
    BY <1>19, ProcAssumption DEF Tick, TypeOK
  <2>7. need_resched' \in [Proc -> BOOLEAN]
    BY <1>19 DEF Tick, TypeOK
  <2>8. QED
    BY <1>19, <2>2, <2>5, <2>6, <2>7 DEF Tick, TypeOK
<1>20. CASE Fault
  BY <1>20 DEF Fault, TypeOK
<1>21. CASE UNCHANGED vars
  BY <1>21 DEF vars, TypeOK
<1>22. QED
  BY <1>1, <1>2, <1>3, <1>4, <1>5, <1>6, <1>7, <1>8, <1>9, <1>10, <1>11, <1>12, <1>13, <1>14,
     <1>15, <1>16, <1>17, <1>18, <1>19, <1>20, <1>21, NextCases DEF Panicked


-----------------------------------------------------------------------------
(* The inductive step.  Three lemmas for the functions that several     *)
(* actions call, then one case per action.                                 *)
LEMMA ForkStep ==
  ASSUME IInv, TypeOK', NEW c \in Slots, NEW at \in {"user", "user_main"}, ForkInto(c, at),
         cpu = "run",
         \/ current \in Slots /\ pc[current] = "user" /\ cpu' = "trapret"
         \/ current = initproc /\ pc[current] = "init_fork" /\ cpu' = "run"
  PROVE  IInv'
<1> USE ProcAssumption, ProcMembers
    DEF IInv, TypeOK, links, sched_vars, KernelProcs, ProcState, WaitState, PC, CPU
<1>1. Positions'
  BY DEF ForkInto, set_links, Positions, Running
<1>2. Running'
  BY DEF ForkInto, set_links, Positions, Running, RunQueueExact
<1>3. HasParent'
  BY DEF ForkInto, set_links, HasParent, Positions, Running, WaitingIffSleeping, TimersOwned
<1>4. RunQueueExact'
  BY DEF ForkInto, set_links, RunQueueExact, Positions, Running
<1>5. InitWaitsForAny'
  BY DEF ForkInto, set_links, InitWaitsForAny, Positions
<1>6. WaitingIffSleeping'
  BY DEF ForkInto, set_links, WaitingIffSleeping, Positions, Running
<1>7. TimersOwned'
  BY DEF ForkInto, set_links, TimersOwned, Positions, Running, WaitingIffSleeping
<1>8. NoStrandedZombie'
  BY DEF ForkInto, set_links, NoStrandedZombie, Positions, Running, WaitingIffSleeping,
         InitWaitsForAny, Children, Live
<1>9. QED
  BY <1>1, <1>2, <1>3, <1>4, <1>5, <1>6, <1>7, <1>8

LEMMA ExitStep ==
  ASSUME IInv, TypeOK', NEW h \in BOOLEAN, do_exit(h),
         cpu \in {"run", "trapret"}, pc[current] \in {"user", "user_main", "do_wait"},
         UNCHANGED <<exiting, timer, wait_pid, current>>
  PROVE  IInv'
<1> USE ProcAssumption, ProcMembers
    DEF IInv, TypeOK, links, sched_vars, KernelProcs, ProcState, WaitState, PC, CPU
<1>0. current = initproc \/ (current \in Slots /\ parent[current] \in Proc)
  BY DEF Positions, HasParent, Running
<1>1. Positions'
  BY <1>0 DEF do_exit, wakeup_proc, Enqueued, WakesParent, Positions, Running
<1>2. Running'
  <2>1. CASE current = initproc
    BY <2>1 DEF do_exit, Running
  <2>2. CASE current \in Slots /\ parent[current] \in Proc
    <3>1. state'[current] = "ZOMBIE" \/ parent[current] = current
      BY <2>2 DEF do_exit, wakeup_proc
    <3>2. WakesParent(current) => parent[current] # current
      BY DEF WakesParent, WaitingIffSleeping, Running
    <3>3. state'[current] = "ZOMBIE" /\ state'[idleproc] = "RUNNABLE" /\ cpu' = "do_exit"
      BY <2>2, <3>2 DEF do_exit, wakeup_proc, Running
    <3>4. \A p \in KernelProcs : state'[p] \in {"RUNNABLE", "SLEEPING"}
      BY <2>2 DEF do_exit, wakeup_proc, Running
    <3>5. QED
      BY <3>3, <3>4 DEF Running
  <2>3. QED
    BY <1>0, <2>1, <2>2
<1>3. HasParent'
  BY <1>0 DEF do_exit, wakeup_proc, Enqueued, WakesParent, HasParent, Positions, Running,
         WaitingIffSleeping, TimersOwned
<1>4. RunQueueExact'
  BY <1>0 DEF do_exit, wakeup_proc, Enqueued, WakesParent, RunQueueExact, Positions, Running
<1>5. InitWaitsForAny'
  BY <1>0 DEF do_exit, wakeup_proc, Enqueued, WakesParent, InitWaitsForAny, Positions
<1>6. WaitingIffSleeping'
  BY <1>0 DEF do_exit, wakeup_proc, Enqueued, WakesParent, WaitingIffSleeping, Positions,
         Running
<1>7. TimersOwned'
  BY <1>0 DEF do_exit, wakeup_proc, Enqueued, WakesParent, TimersOwned, Positions, Running,
         WaitingIffSleeping
<1>8. NoStrandedZombie'
  BY <1>0 DEF do_exit, wakeup_proc, Enqueued, WakesParent, NoStrandedZombie, Positions,
         Running, WaitingIffSleeping, InitWaitsForAny, Children, Live
<1>9. QED
  BY <1>1, <1>2, <1>3, <1>4, <1>5, <1>6, <1>7, <1>8

LEMMA WaitPassStep ==
  ASSUME IInv, TypeOK', NEW w \in Proc \cup {NULL}, NEW ok, NEW err, WaitPass(w, ok, err),
         UNCHANGED <<mm, filesp, timer, current>>,
         cpu = "run",
         \/ /\ current \in Slots /\ pc[current] \in {"user", "do_wait"}
            /\ ok.pc = "user" /\ ok.cpu = "trapret" /\ err.pc = "user" /\ err.cpu = "trapret"
         \/ /\ current = initproc /\ w = NULL
            /\ ok.pc = "init_loop" /\ ok.cpu = "schedule" /\ err.pc = "init_end" /\ err.cpu = "run"
  PROVE  IInv'
<1> USE ProcAssumption, ProcMembers
    DEF IInv, TypeOK, links, sched_vars, KernelProcs, ProcState, WaitState, PC, CPU
<1>1. Positions'
  <2>1. CASE \E z \in Candidates(w) : Reap(z, ok.pc) /\ cpu' = ok.cpu /\ state[z] = "ZOMBIE"
    <3>1. PICK z \in Proc : /\ pc' = [pc EXCEPT ![current] = ok.pc, ![z] = "user"]
                            /\ cpu' = ok.cpu /\ state[z] = "ZOMBIE" /\ parent[z] = current
      BY <2>1 DEF Reap, Candidates, Children, Live
    <3>2. z # current /\ z \in Slots
      BY <3>1 DEF Running
    <3>3. QED
      BY <3>1, <3>2 DEF Positions
  <2>2. CASE SleepCurrent("WT_CHILD") /\ pc' = [pc EXCEPT ![current] = "do_wait"]
    BY <2>2 DEF SleepCurrent, Positions
  <2>3. CASE pc' = [pc EXCEPT ![current] = err.pc] /\ cpu' = err.cpu
    BY <2>3 DEF Positions
  <2>4. QED
    BY <2>1, <2>2, <2>3 DEF WaitPass
<1>2. Running'
  BY DEF WaitPass, Candidates, Children, Live, Reap, remove_links, SleepCurrent, Positions,
         Running, RunQueueExact
<1>3. HasParent'
  BY DEF WaitPass, Candidates, Children, Live, Reap, remove_links, SleepCurrent, HasParent,
         Positions, Running, WaitingIffSleeping, TimersOwned
<1>4. RunQueueExact'
  BY DEF WaitPass, Candidates, Children, Live, Reap, remove_links, SleepCurrent, RunQueueExact,
         Positions, Running
<1>5. InitWaitsForAny'
  BY DEF WaitPass, Candidates, Children, Live, Reap, remove_links, SleepCurrent,
         InitWaitsForAny, Positions
<1>6. WaitingIffSleeping'
  BY DEF WaitPass, Candidates, Children, Live, Reap, remove_links, SleepCurrent,
         WaitingIffSleeping, Positions, Running
<1>7. TimersOwned'
  BY DEF WaitPass, Candidates, Children, Live, Reap, remove_links, SleepCurrent, TimersOwned,
         Positions, Running, WaitingIffSleeping
<1>8. NoStrandedZombie'
  BY DEF WaitPass, Candidates, Children, Live, Reap, remove_links, SleepCurrent,
         NoStrandedZombie, Positions, Running, WaitingIffSleeping, InitWaitsForAny
<1>9. QED
  BY <1>1, <1>2, <1>3, <1>4, <1>5, <1>6, <1>7, <1>8

(* Every step of the process core preserves the inductive invariant.       *)
LEMMA InvStep ==
  ASSUME IInv, [Next]_vars
  PROVE  IInv'
<1>0. TypeOK'
  BY TypeStep DEF IInv
<1> USE <1>0, ProcAssumption, ProcMembers
    DEF IInv, TypeOK, links, sched_vars, KernelProcs, ProcState, WaitState, PC, CPU
<1>a. ASSUME UNCHANGED <<sched_vars, links, timer, wait_pid, current>>, cpu # "do_exit",
             cpu' \in {"run", "trapret"} => state[current] = "RUNNABLE",
             cpu' = "trapret" => pc'[current] = "user", cpu' # "do_exit",
             \/ UNCHANGED pc
             \/ current \in Slots /\ pc' = [pc EXCEPT ![current] = "user"] /\ timer[current] = 0
      PROVE  IInv'
  BY <1>a DEF Positions, Running, HasParent, RunQueueExact, InitWaitsForAny,
      WaitingIffSleeping, TimersOwned, NoStrandedZombie, Children, Live
<1>1. CASE Fork
  <2>1. cpu = "run" /\ current \in Slots /\ pc[current] = "user" /\ cpu' = "trapret"
    BY <1>1 DEF Fork, InUser, Positions
  <2>2. CASE \E c \in Slots : ForkInto(c, "user")
    BY <2>1, <2>2, ForkStep
  <2>3. CASE ~ \E c \in Slots : ForkInto(c, "user")
    BY <1>1, <1>a, <2>1, <2>3 DEF Fork, Running
  <2>4. QED
    BY <2>2, <2>3
<1>2. CASE Exit
  BY <1>2, ExitStep DEF Exit, InUser
<1>3. CASE Wait
  <2>1. CASE ~ \E w \in Proc \cup {NULL} : WaitPass(w, ToUser, ToUser)
    BY <1>3, <1>a, <2>1 DEF Wait, InUser, Running
  <2>2. /\ cpu = "run" /\ current \in Slots /\ pc[current] = "user"
        /\ UNCHANGED <<mm, filesp, timer, current>>
    BY <1>3 DEF Wait, InUser, Positions
  <2>3. ToUser.pc = "user" /\ ToUser.cpu = "trapret"
    BY DEF ToUser
  <2>4. CASE \E w \in Proc \cup {NULL} : WaitPass(w, ToUser, ToUser)
    BY <2>2, <2>3, <2>4, WaitPassStep
  <2>5. QED
    BY <2>1, <2>4
<1>4. CASE Kill
  <2>1. Positions'
    BY <1>4 DEF Kill, InUser, wakeup_proc, Enqueued, Positions, Running
  <2>2. Running'
    BY <1>4 DEF Kill, InUser, wakeup_proc, Enqueued, Positions, Running, RunQueueExact
  <2>3. HasParent'
    BY <1>4 DEF Kill, InUser, wakeup_proc, Enqueued, HasParent, Positions, Running,
           WaitingIffSleeping, TimersOwned
  <2>4. RunQueueExact'
    BY <1>4 DEF Kill, InUser, wakeup_proc, Enqueued, RunQueueExact, Positions, Running
  <2>5. InitWaitsForAny'
    BY <1>4 DEF Kill, InUser, wakeup_proc, Enqueued, InitWaitsForAny, Positions
  <2>6. WaitingIffSleeping'
    BY <1>4 DEF Kill, InUser, wakeup_proc, Enqueued, WaitingIffSleeping, Positions, Running
  <2>7. TimersOwned'
    BY <1>4 DEF Kill, InUser, wakeup_proc, Enqueued, TimersOwned, Positions, Running,
           WaitingIffSleeping
  <2>8. NoStrandedZombie'
    BY <1>4 DEF Kill, InUser, wakeup_proc, Enqueued, NoStrandedZombie, Positions, Running,
           WaitingIffSleeping, InitWaitsForAny, Children, Live
  <2>9. QED
    BY <2>1, <2>2, <2>3, <2>4, <2>5, <2>6, <2>7, <2>8
<1>5. CASE Sleep
  <2>1. Positions'
    BY <1>5 DEF Sleep, InUser, SleepCurrent, Positions, Running
  <2>2. Running'
    BY <1>5 DEF Sleep, InUser, SleepCurrent, Positions, Running, RunQueueExact
  <2>3. HasParent'
    BY <1>5 DEF Sleep, InUser, SleepCurrent, HasParent, Positions, Running, WaitingIffSleeping,
           TimersOwned
  <2>4. RunQueueExact'
    BY <1>5 DEF Sleep, InUser, SleepCurrent, RunQueueExact, Positions, Running
  <2>5. InitWaitsForAny'
    BY <1>5 DEF Sleep, InUser, SleepCurrent, InitWaitsForAny, Positions
  <2>6. WaitingIffSleeping'
    BY <1>5 DEF Sleep, InUser, SleepCurrent, WaitingIffSleeping, Positions, Running
  <2>7. TimersOwned'
    BY <1>5 DEF Sleep, InUser, SleepCurrent, TimersOwned, Positions, Running,
           WaitingIffSleeping
  <2>8. NoStrandedZombie'
    BY <1>5 DEF Sleep, InUser, SleepCurrent, NoStrandedZombie, Positions, Running,
           WaitingIffSleeping, InitWaitsForAny, Children, Live
  <2>9. QED
    BY <2>1, <2>2, <2>3, <2>4, <2>5, <2>6, <2>7, <2>8
<1>6. CASE Yield
  BY <1>6, <1>a DEF Yield, InUser, Running, Positions
<1>7. CASE Exec
  <2>1. /\ cpu = "run" /\ current \in Slots /\ pc[current] \in {"user", "user_main"}
        /\ UNCHANGED <<exiting, timer, wait_pid, current>>
    BY <1>7 DEF Exec, Positions
  <2>2. CASE do_exit(mm[current])
    BY <2>1, <2>2, ExitStep
  <2>3. CASE do_exit(FALSE)
    BY <2>1, <2>3, ExitStep
  <2>4. CASE /\ cpu' = IF pc[current] = "user" THEN "trapret" ELSE "panic"
             /\ UNCHANGED <<sched_vars, need_resched, links, mm, filesp, pc, nr_process>>
    BY <1>a, <2>1, <2>4 DEF Running
  <2>5. CASE /\ pc' = [pc EXCEPT ![current] = "user"]
             /\ cpu' = IF pc[current] = "user" THEN "trapret" ELSE "run"
             /\ UNCHANGED <<sched_vars, need_resched, links, filesp, nr_process>>
    <3>1. timer[current] = 0
      BY <2>1 DEF TimersOwned
    <3>2. QED
      BY <1>a, <2>1, <2>5, <3>1 DEF Running
  <2>6. QED
    BY <1>7, <2>2, <2>3, <2>4, <2>5 DEF Exec
<1>8. CASE TrapReturn
  <2>1. CASE exiting[current]
    BY <1>8, <2>1, ExitStep DEF TrapReturn, Positions
  <2>2. CASE ~ exiting[current]
    BY <1>8, <1>a, <2>2 DEF TrapReturn, Running
  <2>3. QED
    BY <2>1, <2>2
<1>9. CASE ExitReparent
  <2>1. Positions'
    BY <1>9 DEF ExitReparent, wakeup_proc, Enqueued, WakesInit, NewParent, Positions, Running
  <2>2. Running'
    BY <1>9 DEF ExitReparent, wakeup_proc, Enqueued, WakesInit, NewParent, Positions, Running,
           RunQueueExact
  <2>3. HasParent'
    BY <1>9 DEF ExitReparent, wakeup_proc, Enqueued, WakesInit, NewParent, HasParent,
           Positions, Running, WaitingIffSleeping, TimersOwned
  <2>4. RunQueueExact'
    BY <1>9 DEF ExitReparent, wakeup_proc, Enqueued, WakesInit, NewParent, RunQueueExact,
           Positions, Running
  <2>5. InitWaitsForAny'
    BY <1>9 DEF ExitReparent, wakeup_proc, Enqueued, WakesInit, NewParent, InitWaitsForAny,
           Positions
  <2>6. WaitingIffSleeping'
    BY <1>9 DEF ExitReparent, wakeup_proc, Enqueued, WakesInit, NewParent, WaitingIffSleeping,
           Positions, Running
  <2>7. TimersOwned'
    BY <1>9 DEF ExitReparent, wakeup_proc, Enqueued, WakesInit, NewParent, TimersOwned,
           Positions, Running, WaitingIffSleeping
  <2>8. NoStrandedZombie'
    BY <1>9 DEF ExitReparent, wakeup_proc, Enqueued, WakesInit, NewParent, NoStrandedZombie,
           Positions, Running, WaitingIffSleeping, InitWaitsForAny, Children, Live
  <2>9. QED
    BY <2>1, <2>2, <2>3, <2>4, <2>5, <2>6, <2>7, <2>8
<1>10. CASE ExitDone
  BY <1>10 DEF ExitDone, Positions, Running, HasParent, RunQueueExact, InitWaitsForAny,
      WaitingIffSleeping, TimersOwned, NoStrandedZombie, Children, Live
<1>11. CASE WaitResume
  <2>1. cpu = "run" /\ current \in Slots /\ pc[current] = "do_wait"
    BY <1>11 DEF WaitResume, Positions
  <2>2. CASE exiting[current]
    BY <1>11, <2>1, <2>2, ExitStep DEF WaitResume
  <2>3. CASE ~ exiting[current]
    <3>1. WaitPass(wait_pid[current], ToUser, ToUser) /\ UNCHANGED <<mm, filesp, timer, current>>
      BY <1>11, <2>3 DEF WaitResume
    <3>2. ToUser.pc = "user" /\ ToUser.cpu = "trapret" /\ wait_pid[current] \in Proc \cup {NULL}
      BY DEF ToUser
    <3>3. QED
      BY <2>1, <3>1, <3>2, WaitPassStep
  <2>4. QED
    BY <2>2, <2>3
<1>12. CASE SleepResume
  <2>1. Positions'
    BY <1>12 DEF SleepResume, TimerAfterSleep, Positions, Running
  <2>2. Running'
    BY <1>12 DEF SleepResume, TimerAfterSleep, Positions, Running, RunQueueExact
  <2>3. HasParent'
    BY <1>12 DEF SleepResume, TimerAfterSleep, HasParent, Positions, Running,
           WaitingIffSleeping, TimersOwned
  <2>4. RunQueueExact'
    BY <1>12 DEF SleepResume, TimerAfterSleep, RunQueueExact, Positions, Running
  <2>5. InitWaitsForAny'
    BY <1>12 DEF SleepResume, TimerAfterSleep, InitWaitsForAny, Positions
  <2>6. WaitingIffSleeping'
    BY <1>12 DEF SleepResume, TimerAfterSleep, WaitingIffSleeping, Positions, Running
  <2>7. TimersOwned'
    BY <1>12 DEF SleepResume, TimerAfterSleep, TimersOwned, Positions, Running,
           WaitingIffSleeping
  <2>8. NoStrandedZombie'
    BY <1>12 DEF SleepResume, TimerAfterSleep, NoStrandedZombie, Positions, Running,
           WaitingIffSleeping, InitWaitsForAny, Children, Live
  <2>9. QED
    BY <2>1, <2>2, <2>3, <2>4, <2>5, <2>6, <2>7, <2>8
<1>13. CASE Idle
  BY <1>13, <1>a DEF Idle
<1>14. CASE KpuTaskCtrl
  <2>1. Positions'
    BY <1>14 DEF KpuTaskCtrl, SleepCurrent, Positions, Running
  <2>2. Running'
    BY <1>14 DEF KpuTaskCtrl, SleepCurrent, Positions, Running, RunQueueExact
  <2>3. HasParent'
    BY <1>14 DEF KpuTaskCtrl, SleepCurrent, HasParent, Positions, Running, WaitingIffSleeping,
           TimersOwned
  <2>4. RunQueueExact'
    BY <1>14 DEF KpuTaskCtrl, SleepCurrent, RunQueueExact, Positions, Running
  <2>5. InitWaitsForAny'
    BY <1>14 DEF KpuTaskCtrl, SleepCurrent, InitWaitsForAny, Positions
  <2>6. WaitingIffSleeping'
    BY <1>14 DEF KpuTaskCtrl, SleepCurrent, WaitingIffSleeping, Positions, Running
  <2>7. TimersOwned'
    BY <1>14 DEF KpuTaskCtrl, SleepCurrent, TimersOwned, Positions, Running, WaitingIffSleeping
  <2>8. NoStrandedZombie'
    BY <1>14 DEF KpuTaskCtrl, SleepCurrent, NoStrandedZombie, Positions, Running,
           WaitingIffSleeping, InitWaitsForAny, Children, Live
  <2>9. QED
    BY <2>1, <2>2, <2>3, <2>4, <2>5, <2>6, <2>7, <2>8
<1>15. CASE InitFork
  <2>1. cpu = "run" /\ current = initproc /\ pc[current] = "init_fork"
    BY <1>15 DEF InitFork, Positions
  <2>2. CASE \E c \in Slots : ForkInto(c, "user_main") /\ cpu' = "run"
    BY <2>1, <2>2, ForkStep
  <2>3. CASE InitPanic /\ UNCHANGED <<exiting, timer, wait_pid, current>>
    BY <1>a, <2>1, <2>3 DEF InitPanic
  <2>4. QED
    BY <1>15, <2>2, <2>3 DEF InitFork
<1>16. CASE InitWait
  <2>1. cpu = "run" /\ current = initproc
    BY <1>16 DEF InitWait
  <2>2. CASE pc[current] = "do_wait" /\ exiting[current]
    BY <1>16, <2>1, <2>2, ExitStep DEF InitWait
  <2>3. CASE ~ (pc[current] = "do_wait" /\ exiting[current])
    <3> DEFINE ok == [pc |-> "init_loop", cpu |-> "schedule"]
               err == [pc |-> "init_end", cpu |-> "run"]
    <3>1. WaitPass(NULL, ok, err) /\ UNCHANGED <<mm, filesp, timer, current>>
      BY <1>16, <2>3 DEF InitWait
    <3>2. ok.pc = "init_loop" /\ ok.cpu = "schedule" /\ err.pc = "init_end" /\ err.cpu = "run"
      OBVIOUS
    <3> HIDE DEF ok, err
    <3>3. QED
      BY <2>1, <3>1, <3>2, WaitPassStep
  <2>4. QED
    BY <2>2, <2>3
<1>17. CASE InitEnd
  BY <1>17, <1>a DEF InitEnd, InitPanic
<1>18. CASE schedule
  <2>1. Positions'
    BY <1>18 DEF schedule, ScheduleTo, Requeued, Positions, Running
  <2>2. Running'
    BY <1>18 DEF schedule, ScheduleTo, Requeued, Positions, Running, RunQueueExact
  <2>3. HasParent'
    BY <1>18 DEF schedule, ScheduleTo, Requeued, HasParent, Positions, Running,
           WaitingIffSleeping, TimersOwned
  <2>4. RunQueueExact'
    BY <1>18 DEF schedule, ScheduleTo, Requeued, RunQueueExact, Positions, Running
  <2>5. InitWaitsForAny'
    BY <1>18 DEF schedule, ScheduleTo, Requeued, InitWaitsForAny, Positions
  <2>6. WaitingIffSleeping'
    BY <1>18 DEF schedule, ScheduleTo, Requeued, WaitingIffSleeping, Positions, Running
  <2>7. TimersOwned'
    BY <1>18 DEF schedule, ScheduleTo, Requeued, TimersOwned, Positions, Running,
           WaitingIffSleeping
  <2>8. NoStrandedZombie'
    BY <1>18 DEF schedule, ScheduleTo, Requeued, NoStrandedZombie, Positions, Running,
           WaitingIffSleeping, InitWaitsForAny, Children, Live
  <2>9. QED
    BY <2>1, <2>2, <2>3, <2>4, <2>5, <2>6, <2>7, <2>8
<1>19. CASE Tick
  <2>1. Positions'
    BY <1>19 DEF Tick, wakeup_proc, Enqueued, Expiring, InterruptsOn, KernelThread, Positions,
           Running
  <2>2. Running'
    BY <1>19 DEF Tick, wakeup_proc, Enqueued, Expiring, InterruptsOn, KernelThread, Positions,
           Running, RunQueueExact
  <2>3. HasParent'
    BY <1>19 DEF Tick, wakeup_proc, Enqueued, Expiring, InterruptsOn, KernelThread, HasParent,
           Positions, Running, WaitingIffSleeping, TimersOwned
  <2>4. RunQueueExact'
    BY <1>19 DEF Tick, wakeup_proc, Enqueued, Expiring, InterruptsOn, KernelThread,
           RunQueueExact, Positions, Running
  <2>5. InitWaitsForAny'
    BY <1>19 DEF Tick, wakeup_proc, Enqueued, Expiring, InterruptsOn, KernelThread,
           InitWaitsForAny, Positions
  <2>6. WaitingIffSleeping'
    BY <1>19 DEF Tick, wakeup_proc, Enqueued, Expiring, InterruptsOn, KernelThread,
           WaitingIffSleeping, Positions, Running
  <2>7. TimersOwned'
    BY <1>19 DEF Tick, wakeup_proc, Enqueued, Expiring, InterruptsOn, KernelThread,
           TimersOwned, Positions, Running, WaitingIffSleeping
  <2>8. NoStrandedZombie'
    BY <1>19 DEF Tick, wakeup_proc, Enqueued, Expiring, InterruptsOn, KernelThread,
           NoStrandedZombie, Positions, Running, WaitingIffSleeping, InitWaitsForAny, Children,
           Live
  <2>9. QED
    BY <2>1, <2>2, <2>3, <2>4, <2>5, <2>6, <2>7, <2>8
<1>20. CASE Fault
  BY <1>20, <1>a DEF Fault, InUser, Running
<1>21. CASE UNCHANGED vars
  BY <1>21 DEF vars, Positions, Running, HasParent, RunQueueExact, InitWaitsForAny,
      WaitingIffSleeping, TimersOwned, NoStrandedZombie, Children, Live
<1>22. QED
  BY <1>1, <1>2, <1>3, <1>4, <1>5, <1>6, <1>7, <1>8, <1>9, <1>10, <1>11, <1>12, <1>13, <1>14,
     <1>15, <1>16, <1>17, <1>18, <1>19, <1>20, <1>21, NextCases DEF Panicked

(* The inductive invariant holds initially.                                *)
LEMMA InvInit == Init => IInv
<1>1. Init => TypeOK
  BY InitType
<1>2. QED
  BY <1>1, ProcAssumption, ProcMembers DEF Init, IInv, KernelProcs, Positions, Running,
      HasParent, RunQueueExact, InitWaitsForAny, WaitingIffSleeping, TimersOwned,
      NoStrandedZombie, Children, Live

LEMMA Invariance == Spec => []IInv
  BY InvInit, InvStep, PTL DEF Spec

(* Every variable of the process core keeps its type.                      *)
THEOREM TypeCorrect == Spec => []TypeOK
  BY Invariance, PTL DEF IInv

(* For any number of processes, wakeup_proc, schedule, kills, timers and   *)
(* exits keep the run queue exact.                                         *)
THEOREM RunQueueCorrect == Spec => []RunQueueExact
  BY Invariance, PTL DEF IInv

(* A listed timer always belongs to a process that is inside do_sleep.     *)
THEOREM TimersCorrect == Spec => []TimersOwned
  BY Invariance, PTL DEF IInv

(* do_wait never sleeps over a child it could reap.                        *)
THEOREM NoLostWakeup == Spec => []NoStrandedZombie
  BY Invariance, PTL DEF IInv

-----------------------------------------------------------------------------
(* Sibling lists.  The processes K are chained in the order s: head points *)
(* to the first, o from each to the next older one, y back; the y of the   *)
(* first one may be stale where loose says so.                             *)
Chain(s, K, head, o, y, loose) ==
  /\ \A i, j \in 1..Len(s) : s[i] = s[j] => i = j
  /\ \A i \in 1..Len(s) : s[i] \in K
  /\ \A c \in K : \E i \in 1..Len(s) : s[i] = c
  /\ head = IF Len(s) = 0 THEN NULL ELSE s[1]
  /\ \A i \in 1..Len(s) : o[s[i]] = IF i = Len(s) THEN NULL ELSE s[i + 1]
  /\ \A i \in 2..Len(s) : y[s[i]] = s[i - 1]
  /\ ~ loose /\ head # NULL => y[head] = NULL

Listed(K, head, o, y, loose) == \E s \in Seq(Proc) : Chain(s, K, head, o, y, loose)

(* While current gives its children away the first one left still points   *)
(* to the one that went before it.                                         *)
Leaving(p) == cpu = "do_exit" /\ p = current

(* Every process has its children, and nobody else's, on its sibling list. *)
Tree == \A p \in Proc : Listed(Children(p), cptr[p], optr, yptr, Leaving(p))

(* The dead have no children, except while they give them away.            *)
Childless == \A p \in Proc : state[p] \in {"ZOMBIE", "FREE"} /\ ~ Leaving(p) => cptr[p] = NULL

(* A chain depends on the pointers of its members only.                    *)
LEMMA ChainSame ==
  ASSUME NEW K, NEW head, NEW o, NEW y, NEW loose \in BOOLEAN,
         Listed(K, head, o, y, loose),
         NEW o2, NEW y2, NEW loose2 \in BOOLEAN,
         \A c \in K : o2[c] = o[c] /\ y2[c] = y[c],
         loose => loose2 \/ head = NULL
  PROVE  Listed(K, head, o2, y2, loose2)
<1>0. PICK s \in Seq(Proc) : Chain(s, K, head, o, y, loose)
  BY DEF Listed
<1>1. Len(s) \in Nat /\ (head # NULL => head \in K)
  BY <1>0 DEF Chain
<1>2. \A i \in 1..Len(s) : o2[s[i]] = IF i = Len(s) THEN NULL ELSE s[i + 1]
  BY <1>0 DEF Chain
<1>3. \A i \in 2..Len(s) : y2[s[i]] = s[i - 1]
  BY <1>0, <1>1 DEF Chain
<1>4. ~ loose2 /\ head # NULL => y2[head] = NULL
  BY <1>0, <1>1 DEF Chain
<1>5. QED
  BY <1>0, <1>2, <1>3, <1>4 DEF Chain, Listed

(* The pointers o2, y2 after c has been put in front of the children K.    *)
Pushed(K, head, o, y, c, o2, y2) ==
  /\ c \in Proc \ K /\ o2[c] = head /\ y2[c] = NULL
  /\ \A q \in K : o2[q] = o[q] /\ y2[q] = IF q = head THEN c ELSE y[q]

(* The head h2 and the pointers o2, y2 after z has been taken out of K.    *)
Removed(K, head, o, y, z, h2, o2, y2) ==
  /\ z \in K /\ NULL \notin K
  /\ \A q \in K \ {z} : /\ o2[q] = IF q = y[z] THEN o[z] ELSE o[q]
                        /\ y2[q] = IF q = o[z] THEN y[z] ELSE y[q]
  /\ h2 = IF y[z] = NULL THEN o[z] ELSE head

(* set_links puts a new child in front.                                    *)
LEMMA ChainPush ==
  ASSUME NEW K, NEW head, NEW o, NEW y, NEW loose \in BOOLEAN,
         Listed(K, head, o, y, loose),
         NEW c, NEW o2, NEW y2, Pushed(K, head, o, y, c, o2, y2)
  PROVE  Listed(K \cup {c}, c, o2, y2, FALSE)
<1>s. PICK s \in Seq(Proc) : Chain(s, K, head, o, y, loose)
  BY DEF Listed
<1>p. /\ c \in Proc /\ c \notin K /\ o2[c] = head /\ y2[c] = NULL
      /\ \A q \in K : o2[q] = o[q] /\ y2[q] = IF q = head THEN c ELSE y[q]
  BY DEF Pushed
<1> DEFINE n == Len(s)
           t == [i \in 1..(n + 1) |-> IF i = 1 THEN c ELSE s[i - 1]]
<1>1. /\ n \in Nat /\ t \in Seq(Proc) /\ Len(t) = n + 1 /\ t[1] = c
      /\ \A i \in 1..n : t[i + 1] = s[i] /\ s[i] \in Proc
      /\ \A i \in 2..(n + 1) : t[i] = s[i - 1] /\ i - 1 \in 1..n
  BY <1>p
<1>2. /\ \A i, j \in 1..n : s[i] = s[j] => i = j
      /\ \A i \in 1..n : s[i] \in K /\ s[i] # c
      /\ \A q \in K : \E i \in 1..n : s[i] = q
      /\ head = IF n = 0 THEN NULL ELSE s[1]
      /\ \A i \in 1..n : o[s[i]] = IF i = n THEN NULL ELSE s[i + 1]
      /\ \A i \in 2..n : y[s[i]] = s[i - 1]
  BY <1>p, <1>s DEF Chain
<1>0. \A i, j \in 1..n : s[i] = s[j] => i = j
  BY <1>2
<1> HIDE DEF n, t
<1>3. \A i, j \in 1..(n + 1) : t[i] = t[j] => i = j
  <2> TAKE i, j \in 1..(n + 1)
  <2>0. ASSUME NEW l \in 1..(n + 1), l # 1 PROVE t[l] # c
    <3>1. l \in 2..(n + 1)
      BY <1>1, <2>0
    <3>2. t[l] = s[l - 1] /\ l - 1 \in 1..n
      BY <1>1, <3>1
    <3>3. QED
      BY <1>2, <3>2
  <2>1. CASE i = 1 /\ j # 1
    BY <1>1, <2>0, <2>1
  <2>2. CASE j = 1 /\ i # 1
    BY <1>1, <2>0, <2>2
  <2>3. CASE i # 1 /\ j # 1
    <3>1. i \in 2..(n + 1) /\ j \in 2..(n + 1)
      BY <1>1, <2>3
    <3> DEFINE a == i - 1
               b == j - 1
    <3>2. t[i] = s[a] /\ t[j] = s[b] /\ a \in 1..n /\ b \in 1..n
      BY <1>1, <3>1
    <3>3. a = b => i = j
      OBVIOUS
    <3> HIDE DEF a, b
    <3>4. s[a] = s[b] => a = b
      BY <1>0, <3>2
    <3>5. QED
      BY <3>2, <3>3, <3>4
  <2>4. QED
    BY <2>1, <2>2, <2>3
<1>4. \A i \in 1..(n + 1) : t[i] \in K \cup {c}
  <2> TAKE i \in 1..(n + 1)
  <2>1. CASE i = 1
    BY <1>1, <2>1
  <2>2. CASE i # 1
    <3> DEFINE a == i - 1
    <3>1. t[i] = s[a] /\ a \in 1..n
      BY <1>1, <2>2
    <3> HIDE DEF a
    <3>2. QED
      BY <1>2, <3>1
  <2>3. QED
    BY <2>1, <2>2
<1>5. \A q \in K \cup {c} : \E i \in 1..(n + 1) : t[i] = q
  <2> TAKE q \in K \cup {c}
  <2>1. CASE q = c
    BY <1>1, <2>1
  <2>2. CASE q \in K
    <3>1. PICK i \in 1..n : s[i] = q
      BY <1>2, <2>2
    <3>2. t[i + 1] = q /\ i + 1 \in 1..(n + 1)
      BY <1>1, <3>1
    <3>3. QED
      BY <3>2
  <2>3. QED
    BY <2>1, <2>2
<1>6. \A i \in 1..(n + 1) : o2[t[i]] = IF i = n + 1 THEN NULL ELSE t[i + 1]
  <2> TAKE i \in 1..(n + 1)
  <2>1. CASE i = 1
    BY <1>p, <1>1, <1>2, <2>1
  <2>2. CASE i # 1
    <3>1. t[i] = s[i - 1] /\ i - 1 \in 1..n /\ s[i - 1] \in K
      BY <1>1, <1>2, <2>2
    <3>2. o2[t[i]] = IF i - 1 = n THEN NULL ELSE s[(i - 1) + 1]
      BY <1>p, <1>2, <3>1
    <3>3. ASSUME i # n + 1 PROVE t[i + 1] = s[i]
      <4>1. i \in 1..n
        BY <1>1, <3>3
      <4>2. \A j \in 1..n : t[j + 1] = s[j]
        BY <1>1, Zenon
      <4>3. QED
        BY <4>1, <4>2
    <3>4. (i - 1) + 1 = i /\ (i - 1 = n <=> i = n + 1)
      BY <1>1
    <3>5. o2[t[i]] = IF i = n + 1 THEN NULL ELSE s[i]
      BY <3>1, <3>2, <3>4
    <3>6. QED
      BY <3>3, <3>5
  <2>3. QED
    BY <2>1, <2>2
<1>7. \A i \in 2..(n + 1) : y2[t[i]] = t[i - 1]
  <2> TAKE i \in 2..(n + 1)
  <2>1. t[i] = s[i - 1] /\ i - 1 \in 1..n /\ s[i - 1] \in K /\ 1 \in 1..n
    BY <1>1, <1>2
  <2>2. CASE i = 2
    BY <1>p, <1>1, <1>2, <2>1, <2>2
  <2>3. CASE i # 2
    <3>1. i - 1 \in 2..n /\ t[i - 1] = s[(i - 1) - 1]
      BY <1>1, <2>1, <2>3
    <3>2. s[i - 1] # s[1] /\ head = s[1]
      BY <1>1, <1>2, <2>1, <3>1
    <3>3. y2[s[i - 1]] = y[s[i - 1]] /\ y[s[i - 1]] = s[(i - 1) - 1]
      BY <1>p, <1>2, <2>1, <3>1, <3>2
    <3>4. QED
      BY <2>1, <3>1, <3>3
  <2>4. QED
    BY <2>2, <2>3
<1>8. Chain(t, K \cup {c}, c, o2, y2, FALSE)
  BY <1>p, <1>1, <1>3, <1>4, <1>5, <1>6, <1>7 DEF Chain
<1>9. QED
  BY <1>1, <1>8 DEF Listed

(* do_exit takes the first child off.                                      *)
LEMMA ChainPop ==
  ASSUME NEW K, NEW head, NEW o, NEW y, NEW loose \in BOOLEAN,
         Listed(K, head, o, y, loose), head # NULL,
         NEW o2, NEW y2, \A q \in K \ {head} : o2[q] = o[q] /\ y2[q] = y[q]
  PROVE  Listed(K \ {head}, o[head], o2, y2, TRUE)
<1>s. PICK s \in Seq(Proc) : Chain(s, K, head, o, y, loose)
  BY DEF Listed
<1> DEFINE n == Len(s)
           t == [i \in 1..(n - 1) |-> s[i + 1]]
<1>1. /\ \A i, j \in 1..n : s[i] = s[j] => i = j
      /\ \A i \in 1..n : s[i] \in K
      /\ \A q \in K : \E i \in 1..n : s[i] = q
      /\ head = IF n = 0 THEN NULL ELSE s[1]
      /\ \A i \in 1..n : o[s[i]] = IF i = n THEN NULL ELSE s[i + 1]
      /\ \A i \in 2..n : y[s[i]] = s[i - 1]
  BY <1>s DEF Chain
<1>2. n \in Nat /\ n # 0 /\ head = s[1]
  BY <1>1
<1>3. t \in Seq(Proc) /\ Len(t) = n - 1
      /\ \A i \in 1..(n - 1) : t[i] = s[i + 1] /\ i + 1 \in 1..n /\ i + 1 # 1 /\ i + 1 \in 2..n
  BY <1>2
<1>0. \A i, j \in 1..n : s[i] = s[j] => i = j
  BY <1>1
<1> HIDE DEF n, t
<1>4. \A i \in 1..(n - 1) : t[i] \in K \ {head}
  <2> TAKE i \in 1..(n - 1)
  <2> DEFINE a == i + 1
  <2>1. t[i] = s[a] /\ a \in 1..n /\ a # 1
    BY <1>3
  <2>2. 1 \in 1..n
    BY <1>2
  <2> HIDE DEF a
  <2>3. s[a] # s[1]
    BY <1>0, <2>1, <2>2
  <2>4. QED
    BY <1>1, <1>2, <2>1, <2>3
<1>5. \A i, j \in 1..(n - 1) : t[i] = t[j] => i = j
  <2> TAKE i, j \in 1..(n - 1)
  <2> DEFINE a == i + 1
             b == j + 1
  <2>1. t[i] = s[a] /\ t[j] = s[b] /\ a \in 1..n /\ b \in 1..n
    BY <1>3
  <2>2. a = b => i = j
    OBVIOUS
  <2> HIDE DEF a, b
  <2>3. QED
    BY <1>0, <2>1, <2>2
<1>6. \A q \in K \ {head} : \E i \in 1..(n - 1) : t[i] = q
  <2> TAKE q \in K \ {head}
  <2>1. PICK i \in 1..n : s[i] = q
    BY <1>1
  <2>2. i - 1 \in 1..(n - 1) /\ (i - 1) + 1 = i
    BY <1>2, <2>1
  <2>3. t[i - 1] = q
    BY <1>3, <2>1, <2>2
  <2>4. QED
    BY <2>2, <2>3
<1>7. \A i \in 1..(n - 1) : o2[t[i]] = IF i = n - 1 THEN NULL ELSE t[i + 1]
  <2> TAKE i \in 1..(n - 1)
  <2>1. o2[t[i]] = IF i + 1 = n THEN NULL ELSE s[(i + 1) + 1]
    BY <1>1, <1>3, <1>4
  <2>2. i # n - 1 => t[i + 1] = s[(i + 1) + 1]
    BY <1>2, <1>3
  <2>3. QED
    BY <1>2, <2>1, <2>2
<1>8. \A i \in 2..(n - 1) : y2[t[i]] = t[i - 1]
  <2> TAKE i \in 2..(n - 1)
  <2>1. i \in 1..(n - 1) /\ i - 1 \in 1..(n - 1) /\ (i - 1) + 1 = i /\ (i + 1) - 1 = i
    BY <1>2
  <2>2. y2[t[i]] = s[(i + 1) - 1] /\ t[i - 1] = s[i]
    BY <1>1, <1>3, <1>4, <2>1
  <2>3. QED
    BY <2>1, <2>2
<1>9. o[head] = IF n - 1 = 0 THEN NULL ELSE t[1]
  BY <1>1, <1>2, <1>3
<1>10. Chain(t, K \ {head}, o[head], o2, y2, TRUE)
  BY <1>3, <1>4, <1>5, <1>6, <1>7, <1>8, <1>9 DEF Chain
<1>11. QED
  BY <1>3, <1>10 DEF Listed

(* remove_links takes a child out of the middle.                           *)
LEMMA ChainRemove ==
  ASSUME NEW K, NEW head, NEW o, NEW y, Listed(K, head, o, y, FALSE),
         NEW z, NEW h2, NEW o2, NEW y2, Removed(K, head, o, y, z, h2, o2, y2)
  PROVE  Listed(K \ {z}, h2, o2, y2, FALSE)
<1>s. PICK s \in Seq(Proc) : Chain(s, K, head, o, y, FALSE)
  BY DEF Listed
<1>r. /\ z \in K /\ NULL \notin K
      /\ \A q \in K \ {z} : /\ o2[q] = IF q = y[z] THEN o[z] ELSE o[q]
                            /\ y2[q] = IF q = o[z] THEN y[z] ELSE y[q]
      /\ h2 = IF y[z] = NULL THEN o[z] ELSE head
  BY DEF Removed
<1> DEFINE n == Len(s)
<1>1. /\ \A i, j \in 1..n : s[i] = s[j] => i = j
      /\ \A i \in 1..n : s[i] \in K /\ s[i] # NULL
      /\ \A q \in K : \E i \in 1..n : s[i] = q
      /\ head = IF n = 0 THEN NULL ELSE s[1]
      /\ \A i \in 1..n : o[s[i]] = IF i = n THEN NULL ELSE s[i + 1]
      /\ \A i \in 2..n : y[s[i]] = s[i - 1]
      /\ head # NULL => y[head] = NULL
      /\ n \in Nat
  BY <1>r, <1>s DEF Chain
<1>2. PICK k \in 1..n : s[k] = z
  BY <1>r, <1>1
<1> DEFINE P(i) == IF i < k THEN i ELSE i + 1
           t == [i \in 1..(n - 1) |-> s[P(i)]]
<1>3. \A i \in 1..(n - 1) : P(i) \in 1..n /\ P(i) # k
  BY <1>1, <1>2
<1>4. t \in Seq(Proc) /\ Len(t) = n - 1 /\ \A i \in 1..(n - 1) : t[i] = s[P(i)]
  <2>1. \A i \in 1..(n - 1) : s[P(i)] \in Proc
    BY <1>3
  <2>2. n - 1 \in Nat
    BY <1>1, <1>2
  <2> HIDE DEF P, n
  <2>3. QED
    BY <2>1, <2>2
<1>5. y[z] = IF k = 1 THEN NULL ELSE s[k - 1]
  <2>1. CASE k = 1
    BY <1>1, <1>2, <2>1
  <2>2. CASE k # 1
    BY <1>1, <1>2, <2>2
  <2>3. QED
    BY <2>1, <2>2
<1>6. o[z] = IF k = n THEN NULL ELSE s[k + 1]
  BY <1>1, <1>2
<1>0. \A i, j \in 1..n : s[i] = s[j] => i = j
  BY <1>1
<1> HIDE DEF n, t
<1>7. \A i, j \in 1..(n - 1) : t[i] = t[j] => i = j
  <2> TAKE i, j \in 1..(n - 1)
  <2>1. P(i) = P(j) => i = j
    BY <1>1, <1>2
  <2>2. P(i) \in 1..n /\ P(j) \in 1..n /\ t[i] = s[P(i)] /\ t[j] = s[P(j)]
    BY <1>3, <1>4
  <2> HIDE DEF P
  <2>3. QED
    BY <1>0, <2>1, <2>2
<1>8. \A i \in 1..(n - 1) : t[i] \in K \ {z}
  <2> TAKE i \in 1..(n - 1)
  <2>1. P(i) \in 1..n /\ P(i) # k /\ t[i] = s[P(i)]
    BY <1>3, <1>4
  <2> HIDE DEF P
  <2>2. QED
    BY <1>1, <1>2, <2>1
<1>9. \A q \in K \ {z} : \E i \in 1..(n - 1) : t[i] = q
  <2> TAKE q \in K \ {z}
  <2>1. PICK i \in 1..n : s[i] = q
    BY <1>1
  <2>2. i # k
    BY <1>2, <2>1
  <2>3. CASE i < k
    <3>1. i \in 1..(n - 1) /\ P(i) = i
      BY <1>1, <1>2, <2>3
    <3>2. QED
      BY <1>4, <2>1, <3>1
  <2>4. CASE i > k
    <3>1. i - 1 \in 1..(n - 1) /\ P(i - 1) = i
      BY <1>1, <1>2, <2>4
    <3>2. QED
      BY <1>4, <2>1, <3>1
  <2>5. QED
    BY <1>2, <2>1, <2>2, <2>3, <2>4, <1>1
<1>10. \A i \in 1..(n - 1) : o2[t[i]] = IF i = n - 1 THEN NULL ELSE t[i + 1]
  <2> TAKE i \in 1..(n - 1)
  <2> DEFINE a == P(i)
  <2>1. /\ t[i] = s[a] /\ a \in 1..n /\ a # k /\ s[a] \in K \ {z}
        /\ o2[t[i]] = IF s[a] = y[z] THEN o[z] ELSE o[s[a]]
        /\ o[s[a]] = IF a = n THEN NULL ELSE s[a + 1]
    <3>1. t[i] = s[a] /\ a \in 1..n /\ a # k /\ t[i] \in K \ {z}
      BY <1>3, <1>4, <1>8
    <3> HIDE DEF a
    <3>2. QED
      BY <1>r, <1>1, <3>1
  <2>2. s[a] = y[z] <=> i = k - 1
    <3>1. CASE k = 1
      <4>1. y[z] = NULL /\ s[a] # NULL
        BY <3>1, <1>1, <1>5, <2>1
      <4>2. i # k - 1
        BY <1>1, <3>1
      <4>3. QED
        BY <4>1, <4>2
    <3>2. CASE k # 1
      <4>1. y[z] = s[k - 1] /\ k - 1 \in 1..n
        BY <1>1, <1>2, <1>5, <3>2
      <4>2. s[a] = y[z] <=> a = k - 1
        BY <1>0, <2>1, <4>1
      <4>3. a = k - 1 <=> i = k - 1
        BY <1>1, <1>2
      <4>4. QED
        BY <4>2, <4>3
    <3>3. QED
      BY <3>1, <3>2
  <2>3. i # n - 1 => i + 1 \in 1..(n - 1) /\ t[i + 1] = s[P(i + 1)]
    BY <1>1, <1>4
  <2>4. CASE i = k - 1
    <3>1. o2[t[i]] = IF k = n THEN NULL ELSE s[k + 1]
      BY <1>6, <2>1, <2>2, <2>4
    <3>2. k = n <=> i = n - 1
      BY <1>1, <1>2, <2>4
    <3>3. P(i + 1) = k + 1
      BY <1>1, <1>2, <2>4
    <3>4. QED
      BY <2>3, <3>1, <3>2, <3>3
  <2>5. CASE i # k - 1
    <3>1. o2[t[i]] = IF a = n THEN NULL ELSE s[a + 1]
      BY <2>1, <2>2, <2>5
    <3>2. a = n <=> i = n - 1
      BY <1>1, <1>2, <2>5
    <3>3. P(i + 1) = a + 1
      BY <1>1, <1>2, <2>5
    <3>4. QED
      BY <2>3, <3>1, <3>2, <3>3
  <2>6. QED
    BY <2>4, <2>5
<1>11. \A i \in 2..(n - 1) : y2[t[i]] = t[i - 1]
  <2> TAKE i \in 2..(n - 1)
  <2> DEFINE a == P(i)
  <2>1. /\ t[i] = s[a] /\ a \in 2..n /\ a # k
        /\ y2[t[i]] = (IF s[a] = o[z] THEN y[z] ELSE y[s[a]])
        /\ y[s[a]] = s[a - 1]
    <3>1. i \in 1..(n - 1) /\ a \in 2..n
      BY <1>1, <1>2
    <3>2. t[i] = s[a] /\ a # k /\ t[i] \in K \ {z}
      BY <1>3, <1>4, <1>8, <3>1
    <3> HIDE DEF a
    <3>3. QED
      BY <1>r, <1>1, <3>1, <3>2
  <2>2. s[a] = o[z] <=> i = k
    <3>1. CASE k = n
      <4>1. o[z] = NULL /\ s[a] # NULL
        BY <3>1, <1>1, <1>6, <2>1
      <4>2. i # k
        BY <1>1, <3>1
      <4>3. QED
        BY <4>1, <4>2
    <3>2. CASE k # n
      <4>1. o[z] = s[k + 1] /\ k + 1 \in 1..n
        BY <1>1, <1>2, <1>6, <3>2
      <4>2. a \in 1..n
        BY <1>1, <2>1
      <4>3. s[a] = o[z] <=> a = k + 1
        BY <1>0, <4>1, <4>2
      <4>4. a = k + 1 <=> i = k
        BY <1>1, <1>2
      <4>5. QED
        BY <4>3, <4>4
    <3>3. QED
      BY <3>1, <3>2
  <2>3. i - 1 \in 1..(n - 1) /\ t[i - 1] = s[P(i - 1)]
    BY <1>1, <1>4
  <2>4. CASE i = k
    <3>1. y2[t[i]] = s[k - 1] /\ P(i - 1) = k - 1
      BY <1>1, <1>5, <2>1, <2>2, <2>4
    <3>2. QED
      BY <2>3, <3>1
  <2>5. CASE i # k
    <3>1. y2[t[i]] = s[a - 1]
      BY <2>1, <2>2, <2>5
    <3>2. P(i - 1) = a - 1
      BY <1>1, <1>2, <2>5
    <3>3. QED
      BY <2>3, <3>1, <3>2
  <2>6. QED
    BY <2>4, <2>5
<1>12. h2 = IF n - 1 = 0 THEN NULL ELSE t[1]
  <2>1. CASE k = 1
    <3>1. h2 = IF n = 1 THEN NULL ELSE s[2]
      BY <1>r, <1>5, <1>6, <2>1
    <3>2. n # 1 => 1 \in 1..(n - 1) /\ P(1) = 2
      BY <1>1, <1>2, <2>1
    <3>3. QED
      BY <1>1, <1>4, <3>1, <3>2
  <2>2. CASE k # 1
    <3>1. y[z] # NULL /\ n # 0 /\ n # 1 /\ h2 = s[1]
      BY <1>r, <1>1, <1>2, <1>5, <2>2
    <3>2. 1 \in 1..(n - 1) /\ P(1) = 1
      BY <1>1, <1>2, <2>2
    <3>3. QED
      BY <1>1, <1>4, <3>1, <3>2
  <2>3. QED
    BY <2>1, <2>2
<1>13. h2 # NULL => y2[h2] = NULL
  <2>1. SUFFICES ASSUME h2 # NULL PROVE y2[h2] = NULL
    OBVIOUS
  <2>2. n - 1 # 0 /\ 1 \in 1..(n - 1) /\ h2 = t[1] /\ h2 \in K \ {z}
    BY <1>1, <1>2, <1>8, <1>12, <2>1
  <2>3. CASE k = 1
    <3>1. h2 = o[z] /\ y[z] = NULL
      BY <1>r, <1>5, <2>3
    <3>2. QED
      BY <1>r, <2>2, <3>1
  <2>4. CASE k # 1
    <3>1. h2 = head /\ h2 = s[1] /\ y[head] = NULL
      BY <1>r, <1>1, <1>2, <1>5, <2>1, <2>4
    <3>2. h2 # o[z]
      <4>1. CASE k = n
        BY <1>6, <2>1, <4>1
      <4>2. CASE k # n
        <5>1. k + 1 \in 1..n /\ 1 \in 1..n /\ k + 1 # 1
          BY <1>1, <1>2, <4>2
        <5>2. QED
          BY <1>1, <1>6, <3>1, <4>2, <5>1
      <4>3. QED
        BY <4>1, <4>2
    <3>3. QED
      BY <1>r, <2>2, <3>1, <3>2
  <2>5. QED
    BY <2>3, <2>4
<1>14. Chain(t, K \ {z}, h2, o2, y2, FALSE)
  BY <1>4, <1>7, <1>8, <1>9, <1>10, <1>11, <1>12, <1>13 DEF Chain
<1>15. QED
  BY <1>4, <1>14 DEF Listed
-----------------------------------------------------------------------------
(* What a step does to the process tree: nothing, a birth, a burial, or a  *)
(* round of the loop in do_exit.                                           *)
Quiet ==
  /\ UNCHANGED <<parent, cptr, yptr, optr, nr_process>>
  /\ current' = current \/ state[current'] # "ZOMBIE"
  /\ \A p \in Proc : /\ state'[p] = "FREE" <=> state[p] = "FREE"
                     /\ state[p] = "ZOMBIE" => state'[p] = "ZOMBIE"
                     /\ state'[p] = "ZOMBIE" => state[p] = "ZOMBIE" \/ Leaving(p)'
                     /\ Leaving(p) => Leaving(p)' \/ cptr[p] = NULL

Born(c) ==
  /\ c \in Proc /\ nr_process < MAX_PROCESS /\ state[c] = "FREE"
  /\ state' = [state EXCEPT ![c] = "RUNNABLE"]
  /\ set_links(c, current)
  /\ current' = current /\ cpu = "run" /\ cpu' # "do_exit" /\ state[current] = "RUNNABLE"

Buried(z) ==
  /\ z \in Proc /\ state[z] = "ZOMBIE" /\ parent[z] = current
  /\ state' = [state EXCEPT ![z] = "FREE"]
  /\ remove_links(z)
  /\ current' = current /\ cpu = "run" /\ cpu' # "do_exit" /\ state[current] = "RUNNABLE"

LEMMA QuietFrame ==
  ASSUME IInv, UNCHANGED <<state, parent, cptr, yptr, optr, nr_process, current>>,
         cpu # "do_exit" \/ cpu' = "do_exit"
  PROVE  Quiet
  BY DEF Quiet, Leaving

LEMMA QuietSleep ==
  ASSUME IInv, SleepCurrent("WT_CHILD") \/ SleepCurrent("WT_TIMER") \/ SleepCurrent("WT_KPU"),
         UNCHANGED <<parent, cptr, yptr, optr, nr_process, current>>, cpu = "run"
  PROVE  Quiet
<1>1. state[current] = "RUNNABLE" /\ current \in Proc
  BY DEF IInv, Running, TypeOK
<1>2. state \in [Proc -> ProcState] /\ state' = [state EXCEPT ![current] = "SLEEPING"]
  BY DEF IInv, TypeOK, SleepCurrent
<1>3. QED
  BY <1>1, <1>2 DEF Quiet, Leaving

LEMMA QuietWakeup ==
  ASSUME IInv, NEW S, \A p \in S : p \in Proc /\ state[p] \in {"SLEEPING", "RUNNABLE"},
         wakeup_proc(S, state),
         UNCHANGED <<parent, cptr, yptr, optr, nr_process, current>>,
         cpu # "do_exit" \/ cpu' = "do_exit"
  PROVE  Quiet
<1>1. state' = [q \in Proc |-> IF q \in S THEN "RUNNABLE" ELSE state[q]]
  BY DEF wakeup_proc
<1>2. QED
  BY <1>1 DEF Quiet, Leaving

LEMMA QuietExit ==
  ASSUME IInv, NEW h \in BOOLEAN, do_exit(h),
         cpu \in {"run", "trapret"}, pc[current] \in {"user", "user_main", "do_wait"},
         UNCHANGED current
  PROVE  Quiet
<1>1. CASE current = initproc
  BY <1>1, QuietFrame DEF do_exit, sched_vars, links
<1>2. CASE current # initproc
  <2> DEFINE woken == IF WakesParent(current) THEN {parent[current]} ELSE {}
             st == [state EXCEPT ![current] = "ZOMBIE"]
  <2>1. /\ state \in [Proc -> ProcState] /\ current \in Proc /\ state[current] = "RUNNABLE"
        /\ current # idleproc
    BY ProcMembers DEF IInv, TypeOK, Running, Positions
  <2>2. /\ state' = [q \in Proc |-> IF q \in woken THEN "RUNNABLE" ELSE st[q]]
        /\ cpu' = "do_exit"
        /\ UNCHANGED <<parent, cptr, yptr, optr, nr_process>>
    BY <1>2 DEF do_exit, wakeup_proc, links
  <2>3. \A p \in woken : p \in Proc /\ state[p] = "SLEEPING"
    BY <2>1 DEF IInv, HasParent, WakesParent, WaitingIffSleeping
  <2> HIDE DEF woken
  <2>4. QED
    BY <2>1, <2>2, <2>3 DEF Quiet, Leaving
<1>3. QED
  BY <1>1, <1>2

LEMMA WaitPassKinds ==
  ASSUME IInv, NEW w, NEW ok, NEW err, WaitPass(w, ok, err), UNCHANGED current,
         cpu = "run", ok.cpu # "do_exit", err.cpu # "do_exit"
  PROVE  Quiet \/ \E z \in Proc : Buried(z)
<1>1. state[current] = "RUNNABLE"
  BY DEF IInv, Running
<1>2. CASE \E z \in Candidates(w) : state[z] = "ZOMBIE" /\ Reap(z, ok.pc) /\ cpu' = ok.cpu
  BY <1>1, <1>2 DEF Candidates, Children, Live, Reap, Buried
<1>3. CASE SleepCurrent("WT_CHILD") /\ UNCHANGED <<links, nr_process>>
  BY <1>3, QuietSleep DEF links
<1>4. CASE UNCHANGED <<sched_vars, links, nr_process>>
  BY <1>4, QuietFrame DEF links, sched_vars
<1>5. QED
  BY <1>2, <1>3, <1>4 DEF WaitPass

LEMMA StepKinds ==
  ASSUME IInv, [Next]_vars
  PROVE  \/ Quiet
         \/ \E c \in Proc : Born(c)
         \/ \E z \in Proc : Buried(z)
         \/ ExitReparent
<1>0. /\ current \in Proc /\ state \in [Proc -> ProcState] /\ mm[current] \in BOOLEAN
      /\ Slots \subseteq Proc
      /\ cpu = "run" => state[current] = "RUNNABLE"
      /\ cpu = "trapret" => pc[current] = "user"
  BY ProcMembers DEF IInv, TypeOK, Running, Positions
<1>1. CASE Fork
  <2>1. CASE \E c \in Slots : ForkInto(c, "user")
    BY <1>0, <1>1, <2>1 DEF Fork, InUser, ForkInto, Born
  <2>2. CASE ~ \E c \in Slots : ForkInto(c, "user")
    BY <1>1, <2>2, QuietFrame DEF Fork, InUser, links, sched_vars
  <2>3. QED BY <2>1, <2>2
<1>2. CASE Exit
  BY <1>0, <1>2, QuietExit DEF Exit, InUser
<1>3. CASE Wait
  <2>1. CASE \E w \in Proc \cup {NULL} : WaitPass(w, ToUser, ToUser)
    BY <1>3, <2>1, WaitPassKinds DEF Wait, InUser, ToUser
  <2>2. CASE ~ \E w \in Proc \cup {NULL} : WaitPass(w, ToUser, ToUser)
    BY <1>3, <2>2, QuietFrame DEF Wait, InUser, links, sched_vars
  <2>3. QED BY <2>1, <2>2
<1>4. CASE Kill
  <2>1. PICK q \in KillTargets :
          wakeup_proc(IF (state[q] # "FREE" /\ ~ exiting[q]) /\ wait_state[q] # "none"
                      THEN {q} ELSE {}, state)
    BY <1>4 DEF Kill
  <2> DEFINE woken == IF (state[q] # "FREE" /\ ~ exiting[q]) /\ wait_state[q] # "none"
                      THEN {q} ELSE {}
  <2>2. \A p \in woken : p \in Proc /\ state[p] = "SLEEPING"
    BY ProcAssumption DEF IInv, WaitingIffSleeping
  <2> HIDE DEF woken
  <2>3. QED
    BY <1>4, <2>1, <2>2, QuietWakeup DEF Kill, InUser, links, woken
<1>5. CASE Sleep
  <2>1. CASE SleepCurrent("WT_TIMER")
    BY <1>5, <2>1, QuietSleep DEF Sleep, InUser, links
  <2>2. CASE ~ SleepCurrent("WT_TIMER")
    BY <1>5, <2>2, QuietFrame DEF Sleep, InUser, links, sched_vars
  <2>3. QED BY <2>1, <2>2
<1>6. CASE Yield \/ Fault \/ Idle \/ InitEnd
  BY <1>6, QuietFrame DEF Yield, Fault, Idle, InitEnd, InitPanic, InUser, links, sched_vars
<1>7. CASE Exec
  <2>1. CASE do_exit(mm[current]) \/ do_exit(FALSE)
    BY <1>0, <1>7, <2>1, QuietExit DEF Exec
  <2>2. CASE ~ (do_exit(mm[current]) \/ do_exit(FALSE))
    BY <1>7, <2>2, QuietFrame DEF Exec, links, sched_vars
  <2>3. QED BY <2>1, <2>2
<1>8. CASE TrapReturn
  <2>1. CASE do_exit(mm[current])
    BY <1>0, <1>8, <2>1, QuietExit DEF TrapReturn
  <2>2. CASE ~ do_exit(mm[current])
    BY <1>8, <2>2, QuietFrame DEF TrapReturn, links, sched_vars
  <2>3. QED BY <2>1, <2>2
<1>9. CASE ExitDone
  BY <1>0, <1>9 DEF ExitDone, Quiet, Leaving, links, sched_vars
<1>10. CASE WaitResume
  <2>1. CASE exiting[current]
    BY <1>0, <1>10, <2>1, QuietExit DEF WaitResume
  <2>2. CASE ~ exiting[current]
    BY <1>10, <2>2, WaitPassKinds DEF WaitResume, ToUser
  <2>3. QED BY <2>1, <2>2
<1>11. CASE SleepResume
  BY <1>11, QuietFrame DEF SleepResume, links, sched_vars
<1>12. CASE KpuTaskCtrl
  BY <1>12, QuietSleep DEF KpuTaskCtrl, links
<1>13. CASE InitFork
  <2>1. CASE \E c \in Slots : ForkInto(c, "user_main") /\ cpu' = "run"
    BY <1>0, <1>13, <2>1 DEF InitFork, ForkInto, Born
  <2>2. CASE InitPanic /\ UNCHANGED current
    BY <1>13, <2>2, QuietFrame DEF InitFork, InitPanic, links, sched_vars
  <2>3. QED
    BY <1>13, <2>1, <2>2 DEF InitFork
<1>14. CASE InitWait
  <2>1. CASE pc[current] = "do_wait" /\ exiting[current]
    BY <1>14, <2>1, QuietExit DEF InitWait
  <2>2. CASE ~ (pc[current] = "do_wait" /\ exiting[current])
    <3> DEFINE ok == [pc |-> "init_loop", cpu |-> "schedule"]
               err == [pc |-> "init_end", cpu |-> "run"]
    <3>1. WaitPass(NULL, ok, err) /\ UNCHANGED current /\ cpu = "run"
      BY <1>14, <2>2 DEF InitWait
    <3>2. ok.cpu # "do_exit" /\ err.cpu # "do_exit"
      OBVIOUS
    <3> HIDE DEF ok, err
    <3>3. QED
      BY <3>1, <3>2, WaitPassKinds
  <2>3. QED BY <2>1, <2>2
<1>15. CASE schedule
  <2>1. PICK n \in Proc : ScheduleTo(n)
    BY <1>15 DEF schedule
  <2>2. state[n] # "ZOMBIE"
    BY <2>1 DEF ScheduleTo, Requeued, IInv, RunQueueExact, Running
  <2>3. QED
    BY <1>0, <2>1, <2>2 DEF ScheduleTo, Quiet, Leaving, links
<1>16. CASE Tick
  <2>1. \A p \in Expiring : p \in Proc /\ state[p] \in {"SLEEPING", "RUNNABLE"}
    BY DEF Expiring, IInv, TimersOwned
  <2>2. cpu # "do_exit"
    BY <1>16 DEF Tick, InterruptsOn
  <2>3. QED
    BY <1>16, <2>1, <2>2, QuietWakeup DEF Tick, links
<1>17. CASE UNCHANGED vars
  BY <1>17, QuietFrame DEF vars
<1>18. QED
  BY <1>1, <1>2, <1>3, <1>4, <1>5, <1>6, <1>7, <1>8, <1>9, <1>10, <1>11, <1>12, <1>13, <1>14,
     <1>15, <1>16, <1>17, NextCases DEF Panicked

(* The neighbours of a member of a chain are members or NULL.              *)
LEMMA ChainNeighbours ==
  ASSUME NEW K, NEW head, NEW o, NEW y,
         Listed(K, head, o, y, FALSE), NEW z \in K, z # NULL
  PROVE  o[z] \in K \cup {NULL} /\ y[z] \in K \cup {NULL}
<1>s. PICK s \in Seq(Proc) : Chain(s, K, head, o, y, FALSE)
  BY DEF Listed
<1>1. PICK k \in 1..Len(s) : s[k] = z
  BY <1>s DEF Chain
<1>2. o[z] = (IF k = Len(s) THEN NULL ELSE s[k + 1]) /\ (k # Len(s) => k + 1 \in 1..Len(s))
  BY <1>s, <1>1 DEF Chain
<1>3. CASE k = 1
  <2>1. head = z /\ z # NULL => y[z] = NULL
    BY <1>s, <1>1, <1>3 DEF Chain
  <2>2. head = z
    BY <1>s, <1>1, <1>3 DEF Chain
  <2>3. QED
    BY <1>s, <1>2, <2>1, <2>2 DEF Chain
<1>4. CASE k # 1
  <2>1. k \in 2..Len(s) /\ k - 1 \in 1..Len(s)
    BY <1>1, <1>4
  <2>2. y[z] = s[k - 1]
    BY <1>s, <1>1, <2>1 DEF Chain
  <2>3. QED
    BY <1>s, <1>2, <2>1, <2>2 DEF Chain
<1>5. QED
  BY <1>3, <1>4

(* The head of a list is one of the children, and no process is a child of *)
(* two.                                                                    *)
LEMMA Heads ==
  ASSUME Tree, NEW p \in Proc
  PROVE  cptr[p] \in Children(p) \cup {NULL}
  BY DEF Tree, Listed, Chain

LEMMA TreeQuiet ==
  ASSUME IInv, Tree, Childless, Quiet
  PROVE  Tree' /\ Childless'
<1>1. \A p \in Proc : Children(p)' = Children(p)
  BY DEF Quiet, Children, Live
<1>2. ASSUME NEW p \in Proc
      PROVE  Listed(Children(p)', cptr'[p], optr', yptr', Leaving(p)')
  <2>1. Listed(Children(p), cptr[p], optr, yptr, Leaving(p))
    BY DEF Tree
  <2>2. Leaving(p) \in BOOLEAN /\ Leaving(p)' \in BOOLEAN
    BY DEF Leaving
  <2>3. Leaving(p) => Leaving(p)' \/ cptr[p] = NULL
    BY DEF Quiet
  <2>4. Listed(Children(p), cptr[p], optr', yptr', Leaving(p)')
    BY <2>1, <2>2, <2>3, ChainSame DEF Quiet
  <2>5. QED
    BY <1>1, <2>4 DEF Quiet
<1>3. Childless'
  BY DEF Childless, Quiet, IInv, Running, Leaving
<1>4. QED
  BY <1>2, <1>3 DEF Tree

LEMMA TreeBorn ==
  ASSUME IInv, Tree, Childless, NEW c \in Proc, Born(c)
  PROVE  Tree' /\ Childless'
<1>1. /\ current \in Proc /\ state[current] = "RUNNABLE" /\ state[c] = "FREE" /\ c # current
      /\ \A p \in Proc : c \notin Children(p)
      /\ current' = current /\ cpu = "run" /\ cpu' # "do_exit"
  BY DEF IInv, TypeOK, Born, Children, Live
<1>2. /\ state' = [state EXCEPT ![c] = "RUNNABLE"]
      /\ parent' = [parent EXCEPT ![c] = current]
      /\ optr' = [optr EXCEPT ![c] = cptr[current]]
      /\ yptr' = [q \in Proc |-> IF q = c THEN NULL ELSE IF q = cptr[current] THEN c ELSE yptr[q]]
      /\ cptr' = [cptr EXCEPT ![current] = c]
      /\ state \in [Proc -> ProcState] /\ parent \in [Proc -> Proc \cup {NULL}]
      /\ optr \in [Proc -> Proc \cup {NULL}] /\ cptr \in [Proc -> Proc \cup {NULL}]
  BY DEF IInv, TypeOK, Born, set_links
<1>3. Children(current)' = Children(current) \cup {c}
  BY <1>1, <1>2 DEF Children, Live
<1>4. \A p \in Proc \ {current} : Children(p)' = Children(p)
  BY <1>1, <1>2 DEF Children, Live
<1>5. \A p \in Proc : Leaving(p) = FALSE /\ Leaving(p)' = FALSE /\ Children(p) \subseteq Proc
  BY <1>1 DEF Leaving, Children, Live
<1>6. Listed(Children(current)', cptr'[current], optr', yptr', FALSE)
  <2>1. Listed(Children(current), cptr[current], optr, yptr, FALSE)
    BY <1>1, <1>5 DEF Tree
  <2>2. Pushed(Children(current), cptr[current], optr, yptr, c, optr', yptr')
    BY <1>1, <1>2, <1>5 DEF Pushed
  <2>3. Listed(Children(current) \cup {c}, c, optr', yptr', FALSE)
    BY <2>1, <2>2, ChainPush
  <2>4. QED
    BY <1>1, <1>2, <1>3, <2>3
<1>7. ASSUME NEW p \in Proc, p # current
      PROVE  Listed(Children(p)', cptr'[p], optr', yptr', FALSE)
  <2>1. Listed(Children(p), cptr[p], optr, yptr, FALSE)
    BY <1>5 DEF Tree
  <2>2. cptr[current] \notin Children(p)
    BY <1>1, <1>7, Heads, ProcMembers DEF Children, Live
  <2>3. \A q \in Children(p) : optr'[q] = optr[q] /\ yptr'[q] = yptr[q]
    BY <1>1, <1>2, <1>5, <2>2
  <2>4. Listed(Children(p), cptr[p], optr', yptr', FALSE)
    BY <2>1, <2>3, ChainSame
  <2>5. QED
    BY <1>1, <1>2, <1>4, <1>7, <2>4
<1>8. Tree'
  <2>1. ASSUME NEW p \in Proc
        PROVE  Listed(Children(p)', cptr'[p], optr', yptr', Leaving(p)')
    BY <1>1, <1>5, <1>6, <1>7
  <2>2. QED
    BY <2>1 DEF Tree
<1>9. Childless'
  BY <1>1, <1>2, <1>5 DEF Childless
<1>10. QED
  BY <1>8, <1>9

LEMMA TreeBuried ==
  ASSUME IInv, Tree, Childless, NEW z \in Proc, Buried(z)
  PROVE  Tree' /\ Childless'
<1>1. /\ current \in Proc /\ state[current] = "RUNNABLE" /\ state[z] = "ZOMBIE" /\ z # current
      /\ parent[z] = current /\ z \in Children(current)
      /\ current' = current /\ cpu = "run" /\ cpu' # "do_exit"
  BY DEF IInv, TypeOK, Buried, Children, Live
<1>2. /\ state' = [state EXCEPT ![z] = "FREE"]
      /\ parent' = [parent EXCEPT ![z] = NULL]
      /\ optr' = [q \in Proc |-> IF q = z THEN NULL ELSE IF q = yptr[z] THEN optr[z] ELSE optr[q]]
      /\ yptr' = [q \in Proc |-> IF q = z THEN NULL ELSE IF q = optr[z] THEN yptr[z] ELSE yptr[q]]
      /\ cptr' = IF yptr[z] = NULL THEN [cptr EXCEPT ![current] = optr[z]] ELSE cptr
      /\ state \in [Proc -> ProcState] /\ parent \in [Proc -> Proc \cup {NULL}]
      /\ optr \in [Proc -> Proc \cup {NULL}] /\ cptr \in [Proc -> Proc \cup {NULL}]
  BY <1>1 DEF IInv, TypeOK, Buried, remove_links, UnlinkedFromYounger
<1>3. Children(current)' = Children(current) \ {z}
  BY <1>1, <1>2 DEF Children, Live
<1>4. \A p \in Proc \ {current} : Children(p)' = Children(p) /\ z \notin Children(p)
  BY <1>1, <1>2, ProcMembers DEF Children, Live
<1>5. \A p \in Proc : Leaving(p) = FALSE /\ Leaving(p)' = FALSE /\ Children(p) \subseteq Proc
  BY <1>1 DEF Leaving, Children, Live
<1>6. Listed(Children(current), cptr[current], optr, yptr, FALSE)
  BY <1>1, <1>5 DEF Tree
<1>7. Listed(Children(current)', cptr'[current], optr', yptr', FALSE)
  <2>1. Removed(Children(current), cptr[current], optr, yptr, z, cptr'[current], optr', yptr')
    <3>1. /\ z \in Children(current) /\ NULL \notin Children(current)
          /\ \A q \in Children(current) \ {z} :
               /\ optr'[q] = IF q = yptr[z] THEN optr[z] ELSE optr[q]
               /\ yptr'[q] = IF q = optr[z] THEN yptr[z] ELSE yptr[q]
      BY <1>1, <1>2, <1>5, ProcMembers
    <3>2. cptr'[current] = IF yptr[z] = NULL THEN optr[z] ELSE cptr[current]
      BY <1>1, <1>2
    <3>3. QED
      BY <3>1, <3>2 DEF Removed
  <2>2. Listed(Children(current) \ {z}, cptr'[current], optr', yptr', FALSE)
    BY <1>6, <2>1, ChainRemove
  <2>3. QED
    BY <1>1, <1>3, <2>2
<1>8. ASSUME NEW p \in Proc, p # current
      PROVE  Listed(Children(p)', cptr'[p], optr', yptr', FALSE)
  <2>1. Listed(Children(p), cptr[p], optr, yptr, FALSE)
    BY <1>5 DEF Tree
  <2>2. optr[z] \in Children(current) \cup {NULL} /\ yptr[z] \in Children(current) \cup {NULL}
    BY <1>1, <1>6, ChainNeighbours, ProcMembers
  <2>3. optr[z] \notin Children(p) /\ yptr[z] \notin Children(p) /\ z \notin Children(p)
    BY <1>1, <1>4, <1>8, <2>2, ProcMembers DEF Children, Live
  <2>4. \A q \in Children(p) : optr'[q] = optr[q] /\ yptr'[q] = yptr[q]
    BY <1>2, <1>5, <2>3
  <2>5. Listed(Children(p), cptr[p], optr', yptr', FALSE)
    BY <2>1, <2>4, ChainSame
  <2>6. QED
    BY <1>1, <1>2, <1>4, <1>8, <2>5
<1>9. Tree'
  <2>1. ASSUME NEW p \in Proc
        PROVE  Listed(Children(p)', cptr'[p], optr', yptr', Leaving(p)')
    BY <1>1, <1>5, <1>7, <1>8
  <2>2. QED
    BY <2>1 DEF Tree
<1>10. Childless'
  BY <1>1, <1>2, <1>5 DEF Childless
<1>11. QED
  BY <1>9, <1>10

LEMMA TreeReparent ==
  ASSUME IInv, Tree, Childless, ExitReparent
  PROVE  Tree' /\ Childless'
<1> DEFINE c == cptr[current]
<1>1. /\ current \in Proc /\ initproc \in Proc /\ current # initproc
      /\ c \in Children(current) /\ c \in Proc
      /\ current' = current /\ cpu = "do_exit" /\ cpu' = "do_exit"
  BY Heads, ProcMembers DEF IInv, TypeOK, Positions, ExitReparent, Children, Live
<1>2. /\ parent' = [parent EXCEPT ![c] = initproc]
      /\ optr' = [optr EXCEPT ![c] = cptr[initproc]]
      /\ yptr' = [q \in Proc |-> IF q = c THEN NULL ELSE IF q = cptr[initproc] THEN c ELSE yptr[q]]
      /\ cptr' = [cptr EXCEPT ![current] = optr[c], ![initproc] = c]
      /\ parent \in [Proc -> Proc \cup {NULL}]
      /\ optr \in [Proc -> Proc \cup {NULL}] /\ cptr \in [Proc -> Proc \cup {NULL}]
  BY DEF IInv, TypeOK, ExitReparent, NewParent
<1>3. \A p \in Proc : state'[p] = state[p] \/ (p = initproc /\ state'[p] = "RUNNABLE")
  BY DEF ExitReparent, wakeup_proc
<1>4. state[initproc] \in {"RUNNABLE", "SLEEPING"} /\ Live' = Live
  BY <1>3 DEF IInv, Running, KernelProcs, Live
<1> HIDE DEF c
<1>5. /\ Children(current)' = Children(current) \ {c}
      /\ Children(initproc)' = Children(initproc) \cup {c}
      /\ c \notin Children(initproc)
  BY <1>1, <1>2, <1>4 DEF Children, Live
<1>6. \A p \in Proc \ {current, initproc} : Children(p)' = Children(p) /\ c \notin Children(p)
  BY <1>1, <1>2, <1>4 DEF Children, Live
<1>7. /\ \A p \in Proc : Children(p) \subseteq Proc
      /\ \A p \in Proc : p # current => Leaving(p) = FALSE /\ Leaving(p)' = FALSE
      /\ Leaving(current) = TRUE /\ Leaving(current)' = TRUE
  BY <1>1 DEF Leaving, Children, Live
<1>8. cptr[initproc] \in Children(initproc) \cup {NULL}
  BY <1>1, Heads
<1>9. ASSUME NEW p \in Proc, p # initproc
      PROVE  \A q \in Children(p) \ {c} : optr'[q] = optr[q] /\ yptr'[q] = yptr[q]
  <2>1. cptr[initproc] \notin Children(p)
    BY <1>8, <1>9, ProcMembers DEF Children, Live
  <2>2. QED
    BY <1>2, <1>7, <2>1
<1>10. Listed(Children(current)', cptr'[current], optr', yptr', TRUE)
  <2>1. Listed(Children(current), c, optr, yptr, TRUE)
    BY <1>1, <1>7 DEF Tree, c
  <2>2. c # NULL
    BY <1>1, ProcMembers
  <2>3. Listed(Children(current) \ {c}, optr[c], optr', yptr', TRUE)
    BY <1>1, <1>9, <2>1, <2>2, ChainPop
  <2>4. QED
    BY <1>1, <1>2, <1>5, <2>3
<1>11. Listed(Children(initproc)', cptr'[initproc], optr', yptr', FALSE)
  <2>1. Listed(Children(initproc), cptr[initproc], optr, yptr, FALSE)
    BY <1>1, <1>7 DEF Tree
  <2>2. Pushed(Children(initproc), cptr[initproc], optr, yptr, c, optr', yptr')
    BY <1>1, <1>2, <1>5, <1>7 DEF Pushed
  <2>3. Listed(Children(initproc) \cup {c}, c, optr', yptr', FALSE)
    BY <2>1, <2>2, ChainPush
  <2>4. QED
    BY <1>1, <1>2, <1>5, <2>3
<1>12. ASSUME NEW p \in Proc, p # current, p # initproc
       PROVE  Listed(Children(p)', cptr'[p], optr', yptr', FALSE)
  <2>1. Listed(Children(p), cptr[p], optr, yptr, FALSE)
    BY <1>7, <1>12 DEF Tree
  <2>2. \A q \in Children(p) : optr'[q] = optr[q] /\ yptr'[q] = yptr[q]
    BY <1>6, <1>9, <1>12
  <2>3. Listed(Children(p), cptr[p], optr', yptr', FALSE)
    BY <2>1, <2>2, ChainSame
  <2>4. QED
    BY <1>1, <1>2, <1>6, <1>12, <2>3
<1>13. Tree'
  <2>1. ASSUME NEW p \in Proc
        PROVE  Listed(Children(p)', cptr'[p], optr', yptr', Leaving(p)')
    BY <1>1, <1>7, <1>10, <1>11, <1>12
  <2>2. QED
    BY <2>1 DEF Tree
<1>14. Childless'
  BY <1>1, <1>2, <1>3, <1>4, <1>7 DEF Childless
<1>15. QED
  BY <1>13, <1>14

(* The tree survives every step.                                           *)
LEMMA TreeStep ==
  ASSUME IInv, Tree, Childless, [Next]_vars
  PROVE  Tree' /\ Childless'
  BY StepKinds, TreeQuiet, TreeBorn, TreeBuried, TreeReparent

LEMMA TreeInit == Init => Tree /\ Childless
<1> SUFFICES ASSUME Init PROVE Tree /\ Childless
  OBVIOUS
<1>1. /\ Children(idleproc) = {initproc, kpu_task_ctrl_proc}
      /\ \A p \in Proc \ {idleproc} : Children(p) = {}
      /\ \A p \in Proc : Leaving(p) = FALSE
  BY ProcMembers DEF Init, Children, Live, Leaving, KernelProcs
<1>2. /\ \A p \in Proc : cptr[p] = IF p = idleproc THEN kpu_task_ctrl_proc ELSE NULL
      /\ optr[kpu_task_ctrl_proc] = initproc /\ optr[initproc] = NULL
      /\ yptr[kpu_task_ctrl_proc] = NULL /\ yptr[initproc] = kpu_task_ctrl_proc
  BY ProcMembers DEF Init
<1>3. Listed(Children(idleproc), cptr[idleproc], optr, yptr, FALSE)
  <2> DEFINE s == <<kpu_task_ctrl_proc, initproc>>
  <2>1. /\ s \in Seq(Proc) /\ Len(s) = 2 /\ s[1] = kpu_task_ctrl_proc /\ s[2] = initproc
        /\ kpu_task_ctrl_proc # initproc
    BY ProcMembers
  <2> HIDE DEF s
  <2>2. Chain(s, Children(idleproc), kpu_task_ctrl_proc, optr, yptr, FALSE)
    <3>1. \A i \in 1..2 : i = 1 \/ i = 2
      OBVIOUS
    <3>2. \A i, j \in 1..2 : s[i] = s[j] => i = j
      BY <2>1, <3>1
    <3>3. \A i \in 1..2 : s[i] \in Children(idleproc)
      BY <1>1, <2>1, <3>1
    <3>4. \A c \in Children(idleproc) : \E i \in 1..2 : s[i] = c
      BY <1>1, <2>1
    <3>5. \A i \in 1..2 : optr[s[i]] = IF i = 2 THEN NULL ELSE s[i + 1]
      BY <1>2, <2>1, <3>1
    <3>6. \A i \in 2..2 : yptr[s[i]] = s[i - 1]
      BY <1>2, <2>1
    <3>7. QED
      BY <1>2, <2>1, <3>2, <3>3, <3>4, <3>5, <3>6 DEF Chain
  <2>3. cptr[idleproc] = kpu_task_ctrl_proc
    BY <1>2, ProcMembers
  <2>4. QED
    BY <2>1, <2>2, <2>3 DEF Listed
<1>4. ASSUME NEW p \in Proc, p # idleproc
      PROVE  Listed(Children(p), cptr[p], optr, yptr, FALSE)
  <2>1. << >> \in Seq(Proc) /\ Len(<< >>) = 0
    OBVIOUS
  <2>2. Children(p) = {} /\ cptr[p] = NULL
    BY <1>1, <1>2, <1>4
  <2>3. Chain(<< >>, {}, NULL, optr, yptr, FALSE)
    BY <2>1 DEF Chain
  <2>4. QED
    BY <2>1, <2>2, <2>3 DEF Listed
<1>5. Tree
  BY <1>1, <1>3, <1>4 DEF Tree
<1>6. Childless
  BY <1>2, ProcMembers DEF Childless, Init, KernelProcs
<1>7. QED
  BY <1>5, <1>6

LEMMA TreeInvariance == Spec => [](IInv /\ Tree /\ Childless)
<1>1. Init => IInv /\ Tree /\ Childless
  BY InvInit, TreeInit
<1>2. IInv /\ Tree /\ Childless /\ [Next]_vars => (IInv /\ Tree /\ Childless)'
  BY InvStep, TreeStep
<1>3. QED
  BY <1>1, <1>2, PTL DEF Spec

(* The parent pointer of a live process never dangles.                     *)
THEOREM ParentsStayLive == Spec => []ParentsLive
<1>1. ASSUME IInv, Tree, Childless PROVE ParentsLive
  <2> SUFFICES ASSUME NEW c \in Live \ {idleproc}
               PROVE  /\ parent[c] \in Live
                      /\ state[parent[c]] = "ZOMBIE" => cpu = "do_exit" /\ parent[c] = current
    BY DEF ParentsLive
  <2>1. parent[c] \in Proc /\ c \in Children(parent[c])
    BY <1>1 DEF IInv, HasParent, Live, Children
  <2>2. cptr[parent[c]] # NULL
    <3>1. PICK s \in Seq(Proc) : Chain(s, Children(parent[c]), cptr[parent[c]], optr, yptr,
                                       Leaving(parent[c]))
      BY <1>1, <2>1 DEF Tree, Listed
    <3>2. Len(s) # 0 /\ Len(s) \in Nat
      BY <2>1, <3>1 DEF Chain
    <3>3. cptr[parent[c]] = s[1] /\ s[1] \in Proc
      BY <3>1, <3>2 DEF Chain
    <3>4. QED
      BY <3>3, ProcMembers
  <2>3. state[parent[c]] \in {"ZOMBIE", "FREE"} => Leaving(parent[c])
    BY <1>1, <2>1, <2>2 DEF Childless
  <2>4. QED
    BY <1>1, <2>1, <2>3 DEF Leaving, Live, IInv, Running
<1>2. QED
  BY <1>1, TreeInvariance, PTL

-----------------------------------------------------------------------------
(* The walk of do_wait over a sibling list.                                *)

LEMMA LeastNumber ==
  ASSUME NEW T \in SUBSET Nat, T # {}
  PROVE  \E n \in T : \A m \in T : n <= m
<1>1. IsWellFoundedOn(OpToRel(<, Nat), Nat)
  BY NatLessThanWellFounded, Zenon
<1>2. \E n \in T : \A m \in T : ~ (<<m, n>> \in OpToRel(<, Nat))
  BY <1>1, WFMin, Zenon
<1>3. ASSUME NEW n \in T, NEW m \in T, ~ (<<m, n>> \in OpToRel(<, Nat))
      PROVE  n <= m
  BY <1>3 DEF OpToRel
<1>4. QED
  BY <1>2, <1>3, Zenon

LEMMA ProcFinite == IsFiniteSet(Proc) /\ Cardinality(Proc) \in Nat
<1>1. IsFiniteSet(Slots)
  BY ProcAssumption
<1>2. Proc = ((Slots \cup {idleproc}) \cup {initproc}) \cup {kpu_task_ctrl_proc}
  BY DEF Proc, KernelProcs
<1>3. IsFiniteSet(Slots \cup {idleproc})
  BY <1>1, FS_AddElement
<1>4. IsFiniteSet((Slots \cup {idleproc}) \cup {initproc})
  BY <1>3, FS_AddElement
<1>5. IsFiniteSet(Proc)
  BY <1>2, <1>4, FS_AddElement
<1>6. QED
  BY <1>5, FS_CardinalityType

(* A sequence without repetition is no longer than the set it is over.     *)
LEMMA ShortChain ==
  ASSUME NEW s \in Seq(Proc), \A i, j \in 1..Len(s) : s[i] = s[j] => i = j
  PROVE  Len(s) <= Cardinality(Proc)
<1>1. Len(s) \in Nat /\ s \in [1..Len(s) -> Proc]
  OBVIOUS
<1>2. IsFiniteSet(1..Len(s)) /\ Cardinality(1..Len(s)) = Len(s)
  <2>1. /\ IsFiniteSet(1..Len(s))
        /\ Cardinality(1..Len(s)) = IF 1 > Len(s) THEN 0 ELSE Len(s) - 1 + 1
    BY <1>1, FS_Interval
  <2>2. QED
    BY <1>1, <2>1
<1>3. SUFFICES ASSUME Cardinality(Proc) < Cardinality(1..Len(s)) PROVE FALSE
  BY <1>1, <1>2, ProcFinite
<1>4. PICK i, j \in 1..Len(s) : i # j /\ s[i] = s[j]
  BY <1>1, <1>2, <1>3, ProcFinite, FS_PigeonHole
<1>5. QED
  BY <1>4

(* The walk visits the list in order and then stays at NULL.               *)
LEMMA WalkIsList ==
  ASSUME NEW p \in Proc, NEW s \in Seq(Proc), NEW y, NEW loose,
         Chain(s, Children(p), cptr[p], optr, y, loose)
  PROVE  Walk(p) = [i \in 0..Cardinality(Proc) |-> IF i < Len(s) THEN s[i + 1] ELSE NULL]
<1> DEFINE N == Cardinality(Proc)
           n == Len(s)
           G == [i \in 0..N |-> IF i < n THEN s[i + 1] ELSE NULL]
           F(at) == [i \in 0..N |-> IF i = 0 THEN cptr[p]
                                    ELSE IF at[i - 1] = NULL THEN NULL ELSE optr[at[i - 1]]]
<1>1. N \in Nat /\ n \in Nat /\ NULL \notin Proc
  BY ProcFinite, ProcMembers
<1>2. /\ cptr[p] = IF n = 0 THEN NULL ELSE s[1]
      /\ \A i \in 1..n : optr[s[i]] = IF i = n THEN NULL ELSE s[i + 1]
      /\ \A i \in 1..n : s[i] \in Proc
  BY DEF Chain
<1>3. Walk(p) = CHOOSE at : at = F(at)
  BY DEF Walk
<1> HIDE DEF N, n
<1>4. G = F(G)
  <2>1. ASSUME NEW i \in 0..N
        PROVE  G[i] = IF i = 0 THEN cptr[p] ELSE IF G[i - 1] = NULL THEN NULL ELSE optr[G[i - 1]]
    <3>1. CASE i = 0
      BY <1>1, <1>2, <3>1
    <3>2. CASE i # 0 /\ i - 1 < n
      <4>1. i - 1 \in 0..N /\ i \in 1..n /\ (i - 1) + 1 = i
        BY <1>1, <3>2
      <4>2. G[i - 1] = s[i] /\ s[i] # NULL
        BY <1>1, <1>2, <3>2, <4>1
      <4>3. optr[s[i]] = IF i = n THEN NULL ELSE s[i + 1]
        BY <1>2, <4>1
      <4>4. QED
        BY <1>1, <3>2, <4>1, <4>2, <4>3
    <3>3. CASE i # 0 /\ ~ (i - 1 < n)
      <4>1. i - 1 \in 0..N /\ ~ (i < n)
        BY <1>1, <3>3
      <4>2. QED
        BY <3>3, <4>1
    <3>4. QED
      BY <3>1, <3>2, <3>3
  <2>2. QED
    BY <2>1, Zenon
<1> HIDE DEF G
<1> HIDE DEF F
<1>5. Walk(p) = F(Walk(p))
  BY <1>3, <1>4, Zenon
<1> USE DEF F
<1> DEFINE W == Walk(p)
           D == {i \in 0..N : W[i] # G[i]}
<1>6. ASSUME D # {} PROVE FALSE
  <2>1. D \in SUBSET Nat
    BY <1>1
  <2>2. PICK i \in D : \A m \in D : i <= m
    BY <1>6, <2>1, LeastNumber
  <2>3. i \in 0..N /\ W[i] # G[i]
    OBVIOUS
  <2>4. i # 0 => i - 1 \in 0..N /\ i - 1 \notin D
    BY <1>1, <2>2, <2>3
  <2>5. i # 0 => W[i - 1] = G[i - 1]
    BY <2>4
  <2>6. /\ W[i] = IF i = 0 THEN cptr[p] ELSE IF W[i - 1] = NULL THEN NULL ELSE optr[W[i - 1]]
        /\ G[i] = IF i = 0 THEN cptr[p] ELSE IF G[i - 1] = NULL THEN NULL ELSE optr[G[i - 1]]
    BY <1>4, <1>5, <2>3
  <2> HIDE DEF W, D
  <2>7. QED
    BY <2>3, <2>5, <2>6
<1>7. \A i \in 0..N : W[i] = G[i]
  BY <1>6
<1>8. W = G
  <2>1. DOMAIN W = 0..N /\ W = [i \in 0..N |-> W[i]]
    BY <1>5, Zenon
  <2>2. DOMAIN G = 0..N /\ G = [i \in 0..N |-> G[i]]
    BY <1>4, Zenon
  <2>3. QED
    BY <1>7, <2>1, <2>2, Zenon
<1>9. QED
  BY <1>8 DEF G, N, n

(* For any number of processes, do_wait(0) sees every child and no other   *)
(* process, and its walk ends.                                             *)
THEOREM WaitSeesChildren == Spec => []ChildrenReachable
<1>1. ASSUME Tree PROVE ChildrenReachable
  <2> SUFFICES ASSUME NEW p \in Proc
               PROVE  /\ Walk(p)[Cardinality(Proc)] = NULL
                      /\ {Walk(p)[i] : i \in DOMAIN Walk(p)} \ {NULL} = Children(p)
    BY DEF ChildrenReachable, Live
  <2>1. PICK s \in Seq(Proc) : Chain(s, Children(p), cptr[p], optr, yptr, Leaving(p))
    BY <1>1 DEF Tree, Listed
  <2> DEFINE N == Cardinality(Proc)
             n == Len(s)
             W == Walk(p)
  <2>2. W = [i \in 0..N |-> IF i < n THEN s[i + 1] ELSE NULL]
    BY <2>1, WalkIsList
  <2>3. N \in Nat /\ n \in Nat /\ n <= N
    BY <2>1, ProcFinite, ShortChain DEF Chain
  <2>4. /\ \A i \in 1..n : s[i] \in Children(p) /\ s[i] # NULL
        /\ \A c \in Children(p) : \E i \in 1..n : s[i] = c
    BY <2>1, ProcMembers DEF Chain
  <2> HIDE DEF N, n, W
  <2>5. W[N] = NULL /\ DOMAIN W = 0..N
    BY <2>2, <2>3
  <2>6. \A i \in 0..N : W[i] = NULL \/ W[i] \in Children(p)
    <3> TAKE i \in 0..N
    <3>1. i < n => i + 1 \in 1..n /\ W[i] = s[i + 1]
      BY <2>2, <2>3
    <3>2. ~ (i < n) => W[i] = NULL
      BY <2>2, <2>3
    <3>3. QED
      BY <2>4, <3>1, <3>2
  <2>7. \A c \in Children(p) : c # NULL /\ \E i \in 0..N : W[i] = c
    <3> TAKE c \in Children(p)
    <3>1. PICK j \in 1..n : s[j] = c
      BY <2>4
    <3>2. j - 1 \in 0..N /\ j - 1 < n /\ (j - 1) + 1 = j
      BY <2>3
    <3>3. W[j - 1] = s[j]
      BY <2>2, <3>2
    <3>4. QED
      BY <2>4, <3>1, <3>2, <3>3
  <2>8. {W[i] : i \in 0..N} \ {NULL} = Children(p)
    BY <2>6, <2>7
  <2>9. QED
    BY <2>5, <2>8 DEF W, N
<1>2. QED
  BY <1>1, TreeInvariance, PTL

-----------------------------------------------------------------------------
(* A step adds or removes at most one process, and counts it.              *)
LEMMA CountStep ==
  ASSUME IInv, ProcessCount, [Next]_vars
  PROVE  ProcessCount'
<1>1. /\ state \in [Proc -> ProcState] /\ nr_process \in Int /\ MAX_PROCESS \in Nat
      /\ IsFiniteSet(Live) /\ Cardinality(Live) \in Nat
  <2>1. Live \in SUBSET Proc
    BY DEF Live
  <2>2. IsFiniteSet(Live)
    BY <2>1, ProcFinite, FS_Subset
  <2>3. Cardinality(Live) \in Nat
    BY <2>2, FS_CardinalityType
  <2>4. MAX_PROCESS \in Nat
    BY LimitsAssumption
  <2>5. QED
    BY <2>2, <2>3, <2>4 DEF IInv, TypeOK
<1>2. CASE Quiet
  <2>1. Live' = Live /\ nr_process' = nr_process
    BY <1>2 DEF Quiet, Live
  <2>2. QED
    BY <2>1 DEF ProcessCount
<1>3. ASSUME NEW c \in Proc, Born(c) PROVE ProcessCount'
  <2>1. /\ Live' = Live \cup {c} /\ c \notin Live
        /\ nr_process' = nr_process + 1 /\ nr_process < MAX_PROCESS
    BY <1>1, <1>3 DEF Born, set_links, Live
  <2>2. Cardinality(Live \cup {c}) = Cardinality(Live) + 1
    BY <1>1, <2>1, FS_AddElement
  <2>3. QED
    BY <1>1, <2>1, <2>2 DEF ProcessCount
<1>4. ASSUME NEW z \in Proc, Buried(z) PROVE ProcessCount'
  <2>1. Live' = Live \ {z} /\ z \in Live /\ nr_process' = nr_process - 1
    BY <1>1, <1>4 DEF Buried, remove_links, CountAfterRemoval, Live
  <2>2. Cardinality(Live \ {z}) = Cardinality(Live) - 1
    BY <1>1, <2>1, FS_RemoveElement
  <2>3. QED
    BY <1>1, <2>1, <2>2 DEF ProcessCount
<1>5. CASE ExitReparent
  <2>1. state[initproc] # "FREE"
    BY DEF IInv, Running, KernelProcs
  <2>2. Live' = Live /\ nr_process' = nr_process
    BY <1>5, <2>1 DEF ExitReparent, wakeup_proc, Live
  <2>3. QED
    BY <2>2 DEF ProcessCount
<1>6. QED
  BY <1>2, <1>3, <1>4, <1>5, StepKinds

(* nr_process is the number of allocated proc_structs and never exceeds    *)
(* MAX_PROCESS, whatever fails in do_fork and whoever reaps.               *)
THEOREM ProcessesCounted == Spec => []ProcessCount
<1>1. Init => ProcessCount
  <2> SUFFICES ASSUME Init PROVE ProcessCount
    OBVIOUS
  <2>1. Live = ({idleproc} \cup {initproc}) \cup {kpu_task_ctrl_proc} /\ nr_process = 3
    BY DEF Init, Live, Proc, KernelProcs
  <2>2. IsFiniteSet({idleproc}) /\ Cardinality({idleproc}) = 1
    BY FS_Singleton
  <2>3. /\ IsFiniteSet({idleproc} \cup {initproc})
        /\ Cardinality({idleproc} \cup {initproc}) = 2
    <3>1. initproc \notin {idleproc}
      BY ProcMembers
    <3>2. /\ IsFiniteSet({idleproc} \cup {initproc})
          /\ Cardinality({idleproc} \cup {initproc}) = Cardinality({idleproc}) + 1
      BY <2>2, <3>1, FS_AddElement, Zenon
    <3>3. QED
      BY <2>2, <3>2
  <2>4. Cardinality(Live) = 3
    <3>1. kpu_task_ctrl_proc \notin {idleproc} \cup {initproc}
      BY ProcMembers
    <3>2. Cardinality(({idleproc} \cup {initproc}) \cup {kpu_task_ctrl_proc}) = 2 + 1
      BY <2>3, <3>1, FS_AddElement
    <3>3. QED
      BY <2>1, <3>2
  <2>5. QED
    BY <2>1, <2>4, ProcAssumption DEF ProcessCount
<1>2. QED
  BY <1>1, InvInit, InvStep, CountStep, PTL DEF Spec

(* Nothing wakes, schedules or reuses a zombie before its parent, which is *)
(* then running, has freed it.                                             *)
THEOREM ZombiesRest == Spec => ZombiesStayDead
<1> DEFINE Rests(p) == \/ state'[p] = "ZOMBIE" /\ (current' = p => current = p)
                       \/ state'[p] = "FREE" /\ current = parent[p]
<1>1. ASSUME IInv, [Next]_vars, NEW p \in Proc, state[p] = "ZOMBIE"
      PROVE  Rests(p)
  <2>1. CASE Quiet
    BY <1>1, <2>1 DEF Quiet
  <2>2. ASSUME NEW c \in Proc, Born(c) PROVE Rests(p)
    BY <1>1, <2>2 DEF Born, IInv, TypeOK
  <2>3. ASSUME NEW z \in Proc, Buried(z) PROVE Rests(p)
    BY <1>1, <2>3 DEF Buried, IInv, TypeOK
  <2>4. CASE ExitReparent
    BY <1>1, <2>4 DEF ExitReparent, wakeup_proc, IInv, Running, KernelProcs
  <2>5. QED
    BY <1>1, <2>1, <2>2, <2>3, <2>4, StepKinds
<1>2. IInv /\ [Next]_vars => [\A p \in Proc : state[p] = "ZOMBIE" => Rests(p)]_vars
  BY <1>1
<1>3. QED
  BY <1>2, Invariance, PTL DEF Spec, ZombiesStayDead

-----------------------------------------------------------------------------
(* Process ids: GetPid.                                                    *)

(* What the limits are assumed to be.                                      *)
LEMMA PidLimits ==
  MAX_PID \in Nat /\ MAX_PROCESS \in Nat /\ MAX_PID > MAX_PROCESS /\ MAX_PROCESS > 1
  BY LimitsAssumption, PidAssumption

(* do_fork has checked the limit before it called get_pid.                 *)
PidRoom == le > 0 => Len(proc_list) + 1 < MAX_PROCESS

PidInv == PidTypeOK /\ PidRoom /\ UniquePids /\ SafeWindow

(* The places of a list and what they hold.                                *)
LEMMA PidPlaces ==
  ASSUME NEW S, NEW s \in Seq(S)
  PROVE  Len(s) \in Nat /\ \A j \in 1..Len(s) : s[j] \in S
  OBVIOUS

(* What list_add and list_del do to the places of the list.                *)
LEMMA PidLinkPlaces ==
  ASSUME NEW S, NEW s \in Seq(S), NEW p \in S
  PROVE  /\ <<p>> \o s \in Seq(S)
         /\ Len(<<p>> \o s) = Len(s) + 1
         /\ (<<p>> \o s)[1] = p
         /\ \A j \in 2..(Len(s) + 1) : (<<p>> \o s)[j] = s[j - 1]
  OBVIOUS

LEMMA PidRemovedPlaces ==
  ASSUME NEW S, NEW s \in Seq(S), NEW i \in 1..Len(s)
  PROVE  /\ ListDel(s, i) \in Seq(S)
         /\ Len(ListDel(s, i)) = Len(s) - 1
         /\ \A j \in 1..(Len(s) - 1) :
              ListDel(s, i)[j] = IF j < i THEN s[j] ELSE s[j + 1]
<1>1. Len(s) \in Nat
  OBVIOUS
<1>2. ASSUME NEW j \in 1..(Len(s) - 1)
      PROVE  s[j] \in S /\ s[j + 1] \in S
  <2>1. j \in 1..Len(s) /\ j + 1 \in 1..Len(s)
    BY <1>1
  <2>2. QED
    BY <2>1
<1>3. Len(s) - 1 \in Nat
  BY <1>1
<1>4. ListDel(s, i) \in [1..(Len(s) - 1) -> S]
  BY <1>2 DEF ListDel
<1>5. ListDel(s, i) \in Seq(S) /\ Len(ListDel(s, i)) = Len(s) - 1
  BY <1>3, <1>4
<1>6. QED
  BY <1>5 DEF ListDel

(* A pid that nobody has may be linked.                                    *)
LEMMA PidLinkStep ==
  ASSUME PidInv, NEW p \in 1..(MAX_PID - 1), Link(p), Len(proc_list) + 1 < MAX_PROCESS,
         \A i \in 1..Len(proc_list) : proc_list[i] # p,
         last_pid' = p, next_safe' = next_safe,
         \A i \in 1..Len(proc_list) : proc_list[i] <= p \/ proc_list[i] >= next_safe
  PROVE  PidInv'
<1> USE PidLimits DEF PidInv
<1> DEFINE n == Len(proc_list)
<1>1. /\ proc_list' \in Seq(1..(MAX_PID - 1)) /\ Len(proc_list') = n + 1
      /\ proc_list'[1] = p
      /\ \A j \in 2..(n + 1) : proc_list'[j] = proc_list[j - 1]
  BY PidLinkPlaces DEF Link, PidTypeOK
<1>2. n \in Nat /\ \A j \in 1..n : proc_list[j] \in 1..(MAX_PID - 1)
  BY PidPlaces DEF PidTypeOK
<1>3. \A j \in 2..(n + 1) : j - 1 \in 1..n
  BY <1>2
<1>4. PidTypeOK' /\ PidRoom'
  BY <1>1, <1>2 DEF PidTypeOK, PidRoom, Link
<1>5. UniquePids'
  <2> SUFFICES ASSUME NEW i \in 1..(n + 1), NEW j \in 1..(n + 1), i # j
               PROVE  proc_list'[i] # proc_list'[j]
    BY <1>1 DEF UniquePids
  <2>0. ASSUME NEW k \in 1..(n + 1), k # 1
        PROVE  k - 1 \in 1..n /\ proc_list'[k] = proc_list[k - 1] /\ proc_list'[k] # p
    <3>1. k \in 2..(n + 1)
      BY <1>2, <2>0
    <3>2. QED
      BY <1>1, <1>3, <3>1
  <2>1. CASE i = 1
    BY <1>1, <2>0, <2>1
  <2>2. CASE j = 1
    BY <1>1, <2>0, <2>2
  <2>3. CASE i # 1 /\ j # 1
    <3>1. i - 1 # j - 1
      BY <1>2
    <3>2. QED
      BY <2>0, <2>3, <3>1 DEF UniquePids
  <2>4. QED
    BY <2>1, <2>2, <2>3
<1>6. SafeWindow'
  <2> SUFFICES ASSUME NEW i \in 1..(n + 1)
               PROVE  proc_list'[i] <= p \/ proc_list'[i] >= next_safe
    BY <1>1 DEF SafeWindow, Link
  <2>1. CASE i = 1
    BY <1>1, <2>1
  <2>2. CASE i # 1
    BY <1>1, <1>2, <1>3, <2>2
  <2>3. QED
    BY <2>1, <2>2
<1>7. QED
  BY <1>4, <1>5, <1>6

LEMMA PidInvInit ==
  ASSUME PidInit
  PROVE  PidInv
  BY PidLimits DEF PidInit, PidInv, PidTypeOK, PidRoom, UniquePids, SafeWindow

(* Every step of get_pid, do_fork and do_wait keeps the window safe.       *)
LEMMA PidInvStep ==
  ASSUME PidInv, [PidNext]_pid_vars
  PROVE  PidInv'
<1> USE PidLimits DEF PidInv
<1> DEFINE n == Len(proc_list)
<1>0. n \in Nat /\ \A j \in 1..n : proc_list[j] \in 1..(MAX_PID - 1)
  BY PidPlaces DEF PidTypeOK
<1>1. CASE Begin
  <2>1. CASE last_pid + 1 < MAX_PID /\ last_pid + 1 < next_safe
    <3>1. /\ last_pid + 1 \in 1..(MAX_PID - 1) /\ last_pid' = last_pid + 1
          /\ Link(last_pid + 1) /\ next_safe' = next_safe
      BY <1>1, <2>1 DEF Begin, PidTypeOK
    <3>2. /\ \A i \in 1..Len(proc_list) : proc_list[i] # last_pid + 1
          /\ \A i \in 1..Len(proc_list) :
               proc_list[i] <= last_pid + 1 \/ proc_list[i] >= next_safe
      <4>1. \A i \in 1..n : proc_list[i] <= last_pid \/ proc_list[i] >= next_safe
        BY <1>1 DEF Begin, SafeWindow
      <4>2. last_pid \in Int /\ next_safe \in Int
        BY DEF PidTypeOK
      <4>3. QED
        BY <1>0, <2>1, <4>1, <4>2
    <3>3. QED
      BY <1>1, <3>1, <3>2, PidLinkStep DEF Begin, HasRoom
  <2>2. CASE ~ (last_pid + 1 < MAX_PID /\ last_pid + 1 < next_safe)
    BY <1>0, <1>1, <2>2 DEF Begin, HasRoom, PidTypeOK, PidRoom, UniquePids, SafeWindow
  <2>3. QED
    BY <2>1, <2>2
<1>2. CASE Taken
  <2>1. UniquePids' /\ PidRoom'
    BY <1>2 DEF Taken, Searching, UniquePids, PidRoom
  <2>2. le \in 1..n /\ last_pid < next_safe /\ last_pid \in 1..MAX_PID /\ next_safe \in 1..MAX_PID
    BY <1>0, <1>2 DEF Taken, Searching, SafeWindow, PidTypeOK
  <2>3. CASE WindowUsedUp
    BY <1>0, <1>2, <2>1, <2>2, <2>3 DEF Taken, Wrapped, PidTypeOK, SafeWindow
  <2>4. CASE ~ WindowUsedUp
    <3>1. le' = le + 1 /\ last_pid' = last_pid + 1 /\ UNCHANGED <<next_safe, proc_list>>
      BY <1>2, <2>4 DEF Taken
    <3>2. last_pid + 1 < next_safe
      BY <2>2, <2>4 DEF WindowUsedUp
    <3>3. PidTypeOK'
      BY <1>0, <2>2, <3>1, <3>2 DEF PidTypeOK
    <3>4. SafeWindow'
      <4>1. \A i \in 1..le : proc_list[i] < last_pid + 1 \/ proc_list[i] >= next_safe
        BY <1>0, <1>2, <2>2 DEF Taken, SafeWindow
      <4>2. QED
        BY <2>2, <3>1, <3>2, <4>1 DEF SafeWindow
    <3>5. QED
      BY <2>1, <3>3, <3>4
  <2>5. QED
    BY <2>3, <2>4
<1>3. CASE NotTaken
  BY <1>0, <1>3 DEF NotTaken, Searching, Narrowed, PidTypeOK, PidRoom, UniquePids, SafeWindow
<1>4. CASE Found
  <2>1. last_pid \in 1..(MAX_PID - 1) /\ le > 0
    BY <1>4 DEF Found, PidTypeOK, SafeWindow
  <2>2. /\ \A i \in 1..Len(proc_list) : proc_list[i] # last_pid
        /\ \A i \in 1..Len(proc_list) : proc_list[i] <= last_pid \/ proc_list[i] >= next_safe
    <3>1. le - 1 = n /\ \A i \in 1..(le - 1) : proc_list[i] < last_pid \/ proc_list[i] >= next_safe
      BY <1>0, <1>4, <2>1 DEF Found, SafeWindow
    <3>2. \A i \in 1..n : proc_list[i] < last_pid \/ proc_list[i] >= next_safe
      BY <3>1
    <3>3. last_pid < next_safe /\ last_pid \in Int /\ next_safe \in Int
      BY <2>1 DEF SafeWindow, PidTypeOK
    <3>4. QED
      BY <1>0, <3>2, <3>3
  <2>3. QED
    BY <1>4, <2>1, <2>2, PidLinkStep DEF Found, PidRoom
<1>5. CASE Freed
  <2>1. PICK i \in 1..Len(proc_list) : proc_list' = ListDel(proc_list, i)
    BY <1>5 DEF Freed
  <2>2. /\ proc_list' \in Seq(1..(MAX_PID - 1)) /\ Len(proc_list') = Len(proc_list) - 1
        /\ \A j \in 1..(Len(proc_list) - 1) :
             proc_list'[j] = IF j < i THEN proc_list[j] ELSE proc_list[j + 1]
    <3>1. proc_list \in Seq(1..(MAX_PID - 1)) /\ i \in 1..Len(proc_list)
      BY <2>1 DEF PidTypeOK
    <3> HIDE DEF PidInv
    <3>2. QED
      BY <2>1, <3>1, PidRemovedPlaces
  <2>3. PidTypeOK' /\ PidRoom'
    BY <1>0, <1>5, <2>2 DEF Freed, PidTypeOK, PidRoom
  <2> DEFINE old(j) == IF j < i THEN j ELSE j + 1
  <2>a. \A j \in 1..(n - 1) : old(j) \in 1..n /\ proc_list'[j] = proc_list[old(j)]
    BY <1>0, <2>2
  <2>b. \A j, k \in 1..(n - 1) : j # k => old(j) # old(k)
    BY <1>0
  <2> HIDE DEF old
  <2>4. UniquePids'
    <3> SUFFICES ASSUME NEW j \in 1..(n - 1), NEW k \in 1..(n - 1), j # k
                 PROVE  proc_list'[j] # proc_list'[k]
      BY <2>2 DEF UniquePids
    <3>1. old(j) \in 1..n /\ old(k) \in 1..n /\ old(j) # old(k)
      BY <2>a, <2>b
    <3>2. QED
      BY <2>a, <3>1 DEF UniquePids
  <2>5. SafeWindow'
    BY <1>5, <2>2, <2>a DEF Freed, SafeWindow
  <2>6. QED
    BY <2>3, <2>4, <2>5
<1>6. CASE UNCHANGED pid_vars
  BY <1>6 DEF pid_vars, PidTypeOK, PidRoom, UniquePids, SafeWindow
<1>7. QED
  BY <1>1, <1>2, <1>3, <1>4, <1>5, <1>6 DEF PidNext, Search

LEMMA PidInvariance == PidSpec => []PidInv
<1>1. PidInit => PidInv
  BY PidInvInit
<1>2. PidInv /\ [PidNext]_pid_vars => PidInv'
  BY PidInvStep
<1>3. QED
  BY <1>1, <1>2, PTL DEF PidSpec

(* get_pid gives every process a pid of its own, whatever the limits are   *)
(* and however often the numbers wrap around.                              *)
THEOREM PidsUnique == PidSpec => []UniquePids
  BY PidInvariance, PTL DEF PidInv

(* The window that lets get_pid skip its search is free of pids.           *)
THEOREM WindowSafe == PidSpec => []SafeWindow
  BY PidInvariance, PTL DEF PidInv
=============================================================================
