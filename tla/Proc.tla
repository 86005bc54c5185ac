-------------------------------- MODULE Proc --------------------------------
(***************************************************************************)
(* Processes and the scheduler core of the kernel: kern/process/proc.c,    *)
(* kern/schedule/sched.c and the tail of trap() in kern/trap/trap.c.       *)
(*                                                                         *)
(* There is one hart and the kernel is not preemptive: a process leaves    *)
(* the hart only inside schedule().  `cpu' says what the hart executes for *)
(* `current', and `pc' where each process continues when it next runs.     *)
(* System calls run with S-mode interrupts off; kernel threads run with    *)
(* them on, so a tick may hit a kernel thread between two of its steps.    *)
(*                                                                         *)
(* A proc_struct is identified with its pid: get_pid never hands out the   *)
(* pid of a live process (module GetPid), and a freed slot may be used     *)
(* again, which is the least favourable reuse.                             *)
(***************************************************************************)
EXTENDS Integers, FiniteSets, Limits

CONSTANTS
  idleproc, initproc, kpu_task_ctrl_proc,  \* the three kernel threads of proc_init
  Slots,            \* every other proc_struct
  NULL,             \* the null pointer, and pid 0 as argument of do_wait
  MAX_TIME_SLICE,
  KillTargets,      \* bound: the pids user programs pass to sys_kill
  MAX_SLEEP         \* bound: the longest sleep a user program asks for

KernelProcs == {idleproc, initproc, kpu_task_ctrl_proc}
Proc == KernelProcs \cup Slots

ASSUME ProcAssumption ==
  /\ idleproc # initproc /\ idleproc # kpu_task_ctrl_proc /\ initproc # kpu_task_ctrl_proc
  /\ KernelProcs \cap Slots = {}
  /\ NULL \notin Proc
  /\ KillTargets \subseteq Proc \ {idleproc}
  /\ IsFiniteSet(Slots)
  /\ MAX_PROCESS >= 3     \* proc_init makes three
  /\ MAX_TIME_SLICE \in Nat \ {0} /\ MAX_SLEEP \in Nat

VARIABLES
  state,         \* proc->state; "FREE" marks a slot that is not allocated
  wait_state,    \* proc->wait_state; every kind used here has WT_INTERRUPTED set
  exiting,       \* proc->flags & PF_EXITING
  need_resched, time_slice,
  parent, cptr, yptr, optr,
  mm,            \* proc->mm # NULL
  filesp,        \* the files_struct of the slot's last process still exists
  timer,         \* ticks until the timer on the process's kernel stack fires; 0: none
  pc,            \* where the process continues
  wait_pid,      \* the pid argument of its do_wait; NULL stands for 0
  current, rq, nr_process,
  cpu            \* what the hart executes for current

links == <<parent, cptr, yptr, optr>>
sched_vars == <<state, wait_state, time_slice, rq>>
vars == <<state, wait_state, exiting, need_resched, time_slice, parent, cptr, yptr, optr,
          mm, filesp, timer, pc, wait_pid, current, rq, nr_process, cpu>>

ProcState == {"FREE", "SLEEPING", "RUNNABLE", "ZOMBIE"}
WaitState == {"none", "WT_CHILD", "WT_TIMER", "WT_KPU"}
(* "user": user mode; "do_wait", "do_sleep": after the schedule() in that   *)
(* function; the others are positions of the kernel threads.               *)
PC == {"user", "do_wait", "do_sleep", "user_main",
       "cpu_idle", "kpu_task_ctrl", "init_fork", "init_loop", "init_end"}
(* "run": the code at pc[current]; "trapret": the tail of trap();           *)
(* "do_exit": the loop of do_exit that gives the children to init.         *)
CPU == {"run", "trapret", "do_exit", "schedule", "panic"}

Live == {p \in Proc : state[p] # "FREE"}
Children(p) == {c \in Live : parent[c] = p}
KernelThread(p) == p \in KernelProcs \/ pc[p] = "user_main"

(* proc_init has run: idle is current and has created init and the         *)
(* controller of the KPU, in this order.                                   *)
Init ==
  LET created == {initproc, kpu_task_ctrl_proc} IN
  /\ state = [p \in Proc |-> IF p \in KernelProcs THEN "RUNNABLE" ELSE "FREE"]
  /\ wait_state = [p \in Proc |-> "none"]
  /\ exiting = [p \in Proc |-> FALSE]
  /\ need_resched = [p \in Proc |-> p = idleproc]
  /\ time_slice = [p \in Proc |-> IF p \in created THEN MAX_TIME_SLICE ELSE 0]
  /\ parent = [p \in Proc |-> IF p \in created THEN idleproc ELSE NULL]
  /\ cptr = [p \in Proc |-> IF p = idleproc THEN kpu_task_ctrl_proc ELSE NULL]
  /\ optr = [p \in Proc |-> IF p = kpu_task_ctrl_proc THEN initproc ELSE NULL]
  /\ yptr = [p \in Proc |-> IF p = initproc THEN kpu_task_ctrl_proc ELSE NULL]
  /\ mm = [p \in Proc |-> FALSE]
  /\ filesp = [p \in Proc |-> p \in KernelProcs]
  /\ timer = [p \in Proc |-> 0]
  /\ pc = [p \in Proc |-> IF p = idleproc THEN "cpu_idle"
                          ELSE IF p = initproc THEN "init_fork"
                          ELSE IF p = kpu_task_ctrl_proc THEN "kpu_task_ctrl"
                          ELSE "user"]
  /\ wait_pid = [p \in Proc |-> NULL]
  /\ current = idleproc
  /\ rq = created
  /\ nr_process = 3
  /\ cpu = "run"

-----------------------------------------------------------------------------
(* The scheduler.                                                          *)

(* stride_enqueue refills an exhausted time slice.                         *)
Refilled(q) == IF time_slice[q] = 0 THEN MAX_TIME_SLICE ELSE time_slice[q]

(* Which of the processes S that are woken must be put on the run queue.   *)
Enqueued(S, st) == {q \in S : st[q] # "RUNNABLE" /\ q # current /\ q # idleproc}

Slices(E) == [q \in Proc |-> IF q \in E THEN Refilled(q) ELSE time_slice[q]]

(* wakeup_proc for every process of S, after the caller has itself set     *)
(* the process states to st; time_slice is left to the caller.             *)
wakeup_proc(S, st) ==
  /\ state' = [q \in Proc |-> IF q \in S THEN "RUNNABLE" ELSE st[q]]
  /\ wait_state' = [q \in Proc |-> IF q \in S THEN "none" ELSE wait_state[q]]
  /\ rq' = rq \cup Enqueued(S, st)

(* current goes to sleep; the call of schedule() comes next.               *)
SleepCurrent(ws) ==
  /\ state' = [state EXCEPT ![current] = "SLEEPING"]
  /\ wait_state' = [wait_state EXCEPT ![current] = ws]
  /\ cpu' = "schedule"
  /\ UNCHANGED <<rq, time_slice>>

Requeued_Always == IF current # idleproc THEN {current} ELSE {}
(* schedule puts current back on the run queue if it can still run.        *)
Requeued == IF state[current] = "RUNNABLE" /\ current # idleproc THEN {current} ELSE {}

(* schedule: the class may pick any queued process (module Stride says     *)
(* which one); without one the idle process runs.                          *)
ScheduleTo(n) ==
  LET q == rq \cup Requeued IN
  /\ cpu = "schedule"
  /\ IF q = {} THEN n = idleproc ELSE n \in q
  /\ current' = n
  /\ rq' = q \ {n}
  /\ need_resched' = [need_resched EXCEPT ![current] = FALSE]
  /\ time_slice' = Slices(Requeued)
  /\ cpu' = "run"
  /\ UNCHANGED <<state, wait_state, exiting, links, mm, filesp, timer, pc, wait_pid, nr_process>>

schedule == \E n \in Proc : ScheduleTo(n)

(* A tick of the timer interrupt is taken in user mode and by kernel       *)
(* threads outside their critical sections.                                *)
InterruptsOn ==
  \/ cpu = "run" /\ (pc[current] = "user" \/ KernelThread(current))
  \/ cpu = "schedule" /\ KernelThread(current)

Expiring == {p \in Proc : timer[p] = 1}

(* stride_proc_tick.                                                       *)
SliceAfterTick == IF time_slice[current] > 0 THEN time_slice[current] - 1 ELSE 0

(* run_timer_list: count the timers down, wake the owners of the expired   *)
(* ones, then charge the tick to current.                                  *)
Tick ==
  /\ InterruptsOn
  /\ timer' = [p \in Proc |-> IF timer[p] > 0 THEN timer[p] - 1 ELSE 0]
  /\ wakeup_proc(Expiring, state)
  /\ time_slice' = [Slices(Enqueued(Expiring, state)) EXCEPT
                      ![current] = IF current = idleproc THEN @ ELSE SliceAfterTick]
  /\ need_resched' = [need_resched EXCEPT ![current] =
                        @ \/ current = idleproc \/ SliceAfterTick = 0]
  /\ cpu' = IF pc[current] = "user" THEN "trapret" ELSE cpu
  /\ UNCHANGED <<exiting, links, mm, filesp, pc, wait_pid, current, nr_process>>

-----------------------------------------------------------------------------
(* The process tree.                                                       *)

(* set_links: c becomes the youngest child of p.                           *)
set_links(c, p) ==
  /\ parent' = [parent EXCEPT ![c] = p]
  /\ optr' = [optr EXCEPT ![c] = cptr[p]]
  /\ yptr' = [q \in Proc |-> IF q = c THEN NULL ELSE IF q = cptr[p] THEN c ELSE yptr[q]]
  /\ cptr' = [cptr EXCEPT ![p] = c]
  /\ nr_process' = nr_process + 1

UnlinkedFromYounger_Forgotten(z) == optr
(* remove_links: what the younger sibling of z now has as its older one.   *)
UnlinkedFromYounger(z) ==
  [q \in Proc |-> IF q = z THEN NULL ELSE IF q = yptr[z] THEN optr[z] ELSE optr[q]]

CountAfterRemoval_Same == nr_process
CountAfterRemoval == nr_process - 1

remove_links(z) ==
  /\ yptr' = [q \in Proc |-> IF q = z THEN NULL ELSE IF q = optr[z] THEN yptr[z] ELSE yptr[q]]
  /\ optr' = UnlinkedFromYounger(z)
  /\ cptr' = IF yptr[z] = NULL THEN [cptr EXCEPT ![parent[z]] = optr[z]] ELSE cptr
  /\ parent' = [parent EXCEPT ![z] = NULL]
  /\ nr_process' = CountAfterRemoval

-----------------------------------------------------------------------------
(* do_fork and kernel_thread.  The child continues at `at'.                *)

ForkInto(c, at) ==
  /\ nr_process < MAX_PROCESS
  /\ state[c] = "FREE"
  /\ state' = [state EXCEPT ![c] = "RUNNABLE"]
  /\ rq' = rq \cup {c}
  /\ time_slice' = [time_slice EXCEPT ![c] = MAX_TIME_SLICE]
  /\ need_resched' = [need_resched EXCEPT ![c] = FALSE]
  /\ exiting' = [exiting EXCEPT ![c] = FALSE]
  /\ set_links(c, current)
  /\ mm' = [mm EXCEPT ![c] = mm[current]]
  /\ filesp' = [filesp EXCEPT ![c] = TRUE]
  /\ pc' = [pc EXCEPT ![c] = at, ![current] = IF @ = "init_fork" THEN "init_loop" ELSE @]
  /\ UNCHANGED <<wait_state, timer, wait_pid, current>>

InUser == cpu = "run" /\ pc[current] = "user"

(* sys_fork; it fails at the process limit and whenever an allocation      *)
(* fails, after giving back what it had allocated.                         *)
Fork ==
  /\ InUser
  /\ cpu' = "trapret"
  /\ \/ \E c \in Slots : ForkInto(c, "user")
     \/ UNCHANGED <<sched_vars, exiting, need_resched, links, mm, filesp, timer, pc, wait_pid,
                    current, nr_process>>

-----------------------------------------------------------------------------
(* do_exit.                                                                *)

WakesParent_Never(p) == FALSE
WakesParent(p) == wait_state[parent[p]] = "WT_CHILD"

PutsFiles(hasmm) == hasmm

(* do_exit up to its loop, for a current whose mm is still there iff       *)
(* hasmm: the address space and the files are given up, current becomes a  *)
(* zombie and a parent blocked in do_wait is woken.                        *)
do_exit(hasmm) ==
  IF current = initproc
  THEN /\ cpu' = "panic"
       /\ UNCHANGED <<sched_vars, need_resched, links, mm, filesp, pc, nr_process>>
  ELSE LET woken == IF WakesParent(current) THEN {parent[current]} ELSE {}
           st == [state EXCEPT ![current] = "ZOMBIE"]
       IN /\ cpu' = "do_exit"
          /\ mm' = [mm EXCEPT ![current] = FALSE]
          /\ filesp' = [filesp EXCEPT ![current] = @ /\ ~ PutsFiles(hasmm)]
          /\ wakeup_proc(woken, st)
          /\ time_slice' = Slices(Enqueued(woken, st))
          /\ UNCHANGED <<need_resched, links, pc, nr_process>>

Exit ==
  /\ InUser
  /\ do_exit(mm[current])
  /\ UNCHANGED <<exiting, timer, wait_pid, current>>

WakesInit(c) == state[c] = "ZOMBIE" /\ wait_state[initproc] = "WT_CHILD"

NewParent_Kept(c) == parent[c]
NewParent(c) == initproc

(* One round of the loop: the youngest child is given to init.             *)
ExitReparent ==
  LET c == cptr[current]
      woken == IF WakesInit(c) THEN {initproc} ELSE {}
  IN /\ cpu = "do_exit" /\ c # NULL
     /\ cptr' = [cptr EXCEPT ![current] = optr[c], ![initproc] = c]
     /\ yptr' = [q \in Proc |-> IF q = c THEN NULL ELSE IF q = cptr[initproc] THEN c ELSE yptr[q]]
     /\ optr' = [optr EXCEPT ![c] = cptr[initproc]]
     /\ parent' = [parent EXCEPT ![c] = NewParent(c)]
     /\ wakeup_proc(woken, state)
     /\ time_slice' = Slices(Enqueued(woken, state))
     /\ UNCHANGED <<exiting, need_resched, mm, filesp, timer, pc, wait_pid, current, nr_process, cpu>>

ExitDone ==
  /\ cpu = "do_exit" /\ cptr[current] = NULL
  /\ cpu' = "schedule"
  /\ UNCHANGED <<sched_vars, exiting, need_resched, links, mm, filesp, timer, pc, wait_pid,
                 current, nr_process>>

(* The tail of trap() for a trap from user mode.                           *)
TrapReturn ==
  /\ cpu = "trapret"
  /\ \/ exiting[current] /\ do_exit(mm[current])
     \/ /\ ~ exiting[current]
        /\ cpu' = IF need_resched[current] THEN "schedule" ELSE "run"
        /\ UNCHANGED <<sched_vars, need_resched, links, mm, filesp, pc, nr_process>>
  /\ UNCHANGED <<exiting, timer, wait_pid, current>>

(* do_execve, from user mode or by the kernel thread user_main.  Either    *)
(* the arguments are refused, or the program cannot be opened and current  *)
(* exits, or the old address space is dropped and load_icode succeeds or   *)
(* fails; after a failure current exits without an address space.          *)
Exec ==
  /\ cpu = "run" /\ pc[current] \in {"user", "user_main"}
  /\ \/ /\ cpu' = IF pc[current] = "user" THEN "trapret" ELSE "panic"
        /\ UNCHANGED <<sched_vars, need_resched, links, mm, filesp, pc, nr_process>>
     \/ do_exit(mm[current])
     \/ do_exit(FALSE)
     \/ /\ mm' = [mm EXCEPT ![current] = TRUE]
        /\ pc' = [pc EXCEPT ![current] = "user"]
        /\ cpu' = IF pc[current] = "user" THEN "trapret" ELSE "run"
        /\ UNCHANGED <<sched_vars, need_resched, links, filesp, nr_process>>
  /\ UNCHANGED <<exiting, timer, wait_pid, current>>

-----------------------------------------------------------------------------
(* do_wait.                                                                *)

Candidates_AnyParent(w) == {c \in Live \ KernelProcs : w \in {NULL, c}}
(* The children that do_wait(w) looks at.  The code walks cptr and optr;   *)
(* ChildrenReachable says that this walk meets exactly the set Children.   *)
Candidates(w) == {c \in Children(current) : w \in {NULL, c}}

(* The proc_struct of z is unlinked and freed; the fields of a free slot   *)
(* are kept at the values alloc_proc gives them.                           *)
Reap(z, back) ==
  /\ state' = [state EXCEPT ![z] = "FREE"]
  /\ remove_links(z)
  /\ exiting' = [exiting EXCEPT ![z] = FALSE]
  /\ need_resched' = [need_resched EXCEPT ![z] = FALSE]
  /\ time_slice' = [time_slice EXCEPT ![z] = 0]
  /\ pc' = [pc EXCEPT ![current] = back, ![z] = "user"]
  /\ wait_pid' = [wait_pid EXCEPT ![current] = NULL, ![z] = NULL]
  /\ UNCHANGED <<wait_state, rq>>

(* One pass from the label repeat of do_wait(w).  A zombie is freed and    *)
(* do_wait returns (the code takes the first one of the list, here it may  *)
(* be any); with only live children current sleeps; without children       *)
(* do_wait returns an error.  The two returns go to the positions ok and   *)
(* err of the caller.                                                      *)
WaitPass(w, ok, err) ==
  \/ \E z \in Candidates(w) :
       /\ state[z] = "ZOMBIE"
       /\ Reap(z, ok.pc)
       /\ cpu' = ok.cpu
  \/ /\ Candidates(w) # {}
     /\ \A c \in Candidates(w) : state[c] # "ZOMBIE"
     /\ SleepCurrent("WT_CHILD")
     /\ pc' = [pc EXCEPT ![current] = "do_wait"]
     /\ wait_pid' = [wait_pid EXCEPT ![current] = w]
     /\ UNCHANGED <<exiting, need_resched, links, nr_process>>
  \/ /\ Candidates(w) = {}
     /\ pc' = [pc EXCEPT ![current] = err.pc]
     /\ cpu' = err.cpu
     /\ wait_pid' = [wait_pid EXCEPT ![current] = NULL]
     /\ UNCHANGED <<sched_vars, exiting, need_resched, links, nr_process>>

ToUser == [pc |-> "user", cpu |-> "trapret"]

(* sys_wait; it is refused when the place for the exit code is not the     *)
(* caller's memory.                                                        *)
Wait ==
  /\ InUser
  /\ \/ \E w \in Proc \cup {NULL} : WaitPass(w, ToUser, ToUser)
     \/ /\ cpu' = "trapret"
        /\ UNCHANGED <<sched_vars, exiting, need_resched, links, pc, wait_pid, nr_process>>
  /\ UNCHANGED <<mm, filesp, timer, current>>

(* Back from the schedule() of do_wait in a system call.                   *)
WaitResume ==
  /\ cpu = "run" /\ pc[current] = "do_wait" /\ current # initproc
  /\ \/ exiting[current] /\ do_exit(mm[current]) /\ UNCHANGED <<exiting, wait_pid>>
     \/ /\ ~ exiting[current]
        /\ WaitPass(wait_pid[current], ToUser, ToUser)
        /\ UNCHANGED <<mm, filesp>>
  /\ UNCHANGED <<timer, current>>

-----------------------------------------------------------------------------
(* do_kill, do_sleep, do_yield.                                            *)

(* sys_kill; find_proc refuses pid 0, so it is no target.                  *)
Kill ==
  /\ InUser
  /\ \E q \in KillTargets :
       LET fresh == state[q] # "FREE" /\ ~ exiting[q]
           woken == IF fresh /\ wait_state[q] # "none" THEN {q} ELSE {}
       IN /\ exiting' = [exiting EXCEPT ![q] = @ \/ fresh]
          /\ wakeup_proc(woken, state)
          /\ time_slice' = Slices(Enqueued(woken, state))
  /\ cpu' = "trapret"
  /\ UNCHANGED <<need_resched, links, mm, filesp, timer, pc, wait_pid, current, nr_process>>

Sleep ==
  /\ InUser
  /\ \E t \in 0..MAX_SLEEP :
       IF t = 0
       THEN cpu' = "trapret" /\ UNCHANGED <<sched_vars, timer, pc>>
       ELSE /\ SleepCurrent("WT_TIMER")
            /\ timer' = [timer EXCEPT ![current] = t]
            /\ pc' = [pc EXCEPT ![current] = "do_sleep"]
  /\ UNCHANGED <<exiting, need_resched, links, mm, filesp, wait_pid, current, nr_process>>

TimerAfterSleep_Kept == timer
(* del_timer, the last statement of do_sleep.                              *)
TimerAfterSleep == [timer EXCEPT ![current] = 0]

SleepResume ==
  /\ cpu = "run" /\ pc[current] = "do_sleep"
  /\ timer' = TimerAfterSleep
  /\ pc' = [pc EXCEPT ![current] = "user"]
  /\ cpu' = "trapret"
  /\ UNCHANGED <<sched_vars, exiting, need_resched, links, mm, filesp, wait_pid, current, nr_process>>

Yield ==
  /\ InUser
  /\ need_resched' = [need_resched EXCEPT ![current] = TRUE]
  /\ cpu' = "trapret"
  /\ UNCHANGED <<sched_vars, exiting, links, mm, filesp, timer, pc, wait_pid, current, nr_process>>

(* An exception of the user program: it is handled, or printed and         *)
(* ignored, or it stops the whole kernel.                                  *)
Fault ==
  /\ InUser
  /\ cpu' \in {"trapret", "panic"}
  /\ UNCHANGED <<sched_vars, exiting, need_resched, links, mm, filesp, timer, pc, wait_pid,
                 current, nr_process>>

-----------------------------------------------------------------------------
(* The kernel threads.                                                     *)

(* cpu_idle.                                                               *)
Idle ==
  /\ cpu = "run" /\ current = idleproc /\ need_resched[idleproc]
  /\ cpu' = "schedule"
  /\ UNCHANGED <<sched_vars, exiting, need_resched, links, mm, filesp, timer, pc, wait_pid,
                 current, nr_process>>

(* kpu_task_ctrl without a request; its requests are module KpuSpool's.    *)
KpuTaskCtrl ==
  /\ cpu = "run" /\ current = kpu_task_ctrl_proc
  /\ SleepCurrent("WT_KPU")
  /\ UNCHANGED <<exiting, need_resched, links, mm, filesp, timer, pc, wait_pid, current, nr_process>>

InitPanic ==
  /\ cpu' = "panic"
  /\ UNCHANGED <<sched_vars, need_resched, links, mm, filesp, pc, nr_process>>

(* init_main: create user_main, reap children until there are none, and    *)
(* stop the system.                                                        *)
InitFork ==
  /\ cpu = "run" /\ pc[current] = "init_fork"
  /\ \/ cpu' = "run" /\ \E c \in Slots : ForkInto(c, "user_main")
     \/ InitPanic /\ UNCHANGED <<exiting, timer, wait_pid, current>>

InitWait ==
  /\ cpu = "run" /\ current = initproc /\ pc[current] \in {"init_loop", "do_wait"}
  /\ IF pc[current] = "do_wait" /\ exiting[current]
     THEN do_exit(FALSE) /\ UNCHANGED <<exiting, wait_pid>>
     ELSE /\ WaitPass(NULL, [pc |-> "init_loop", cpu |-> "schedule"],
                          [pc |-> "init_end", cpu |-> "run"])
          /\ UNCHANGED <<mm, filesp>>
  /\ UNCHANGED <<timer, current>>

(* The closing assertions fail, because they do not count the KPU controller *)
(* (and were they to hold, the exit of init would stop the kernel as well). *)
InitEnd ==
  /\ cpu = "run" /\ pc[current] = "init_end"
  /\ InitPanic
  /\ UNCHANGED <<exiting, timer, wait_pid, current>>

(* panic() never returns.                                                  *)
Panicked == cpu = "panic" /\ UNCHANGED vars

-----------------------------------------------------------------------------
UserStep == Fork \/ Exit \/ Wait \/ Kill \/ Sleep \/ Yield \/ Fault
KernelStep ==
  \/ TrapReturn \/ ExitReparent \/ ExitDone \/ WaitResume \/ SleepResume
  \/ Idle \/ KpuTaskCtrl \/ InitFork \/ InitWait \/ InitEnd

Next == UserStep \/ Exec \/ KernelStep \/ schedule \/ Tick \/ Panicked

Spec == Init /\ [][Next]_vars

(* The hart keeps executing kernel code and takes a pending tick as soon   *)
(* as interrupts are on; user programs promise nothing.  The scheduling    *)
(* class passes over no queued process forever.                            *)
Fairness ==
  /\ WF_vars(KernelStep) /\ WF_vars(schedule) /\ SF_vars(Tick)
  /\ WF_vars(Exec /\ pc[current] = "user_main")
  /\ \A p \in Proc : SF_vars(ScheduleTo(p))

FairSpec == Spec /\ Fairness

-----------------------------------------------------------------------------
(* Properties.                                                             *)

(* Every variable has the shape its C declaration gives it.                *)
TypeOK ==
  /\ state \in [Proc -> ProcState]
  /\ wait_state \in [Proc -> WaitState]
  /\ exiting \in [Proc -> BOOLEAN]
  /\ need_resched \in [Proc -> BOOLEAN]
  /\ time_slice \in [Proc -> 0..MAX_TIME_SLICE]
  /\ parent \in [Proc -> Proc \cup {NULL}]
  /\ cptr \in [Proc -> Proc \cup {NULL}]
  /\ yptr \in [Proc -> Proc \cup {NULL}]
  /\ optr \in [Proc -> Proc \cup {NULL}]
  /\ mm \in [Proc -> BOOLEAN]
  /\ filesp \in [Proc -> BOOLEAN]
  /\ timer \in [Proc -> 0..MAX_SLEEP]
  /\ pc \in [Proc -> PC]
  /\ wait_pid \in [Proc -> Proc \cup {NULL}]
  /\ current \in Proc
  /\ rq \subseteq Proc
  /\ nr_process \in Int
  /\ cpu \in CPU

(* The run queue holds exactly the processes that can run, the running one *)
(* and idle excepted: wakeup_proc and schedule neither lose a process nor  *)
(* queue one twice, whatever kills, timer expiries and exits come between. *)
RunQueueExact ==
  rq = {p \in Proc : state[p] = "RUNNABLE" /\ p # current /\ p # idleproc}

(* A timer_t lives on the kernel stack of the process in do_sleep: while   *)
(* it is listed that process is still there, so run_timer_list neither     *)
(* follows a dangling pointer nor wakes a zombie, also when the sleeper    *)
(* was killed before the timer expired.                                    *)
TimersOwned ==
  \A p \in Proc : timer[p] > 0 =>
    pc[p] = "do_sleep" /\ state[p] \in {"SLEEPING", "RUNNABLE"}

(* No lost wakeup of do_wait: a process asleep in do_wait has no zombie    *)
(* child it is waiting for, whether the child died under it or was handed  *)
(* to init as a zombie by the exit of its parent.                          *)
NoStrandedZombie ==
  \A p \in Proc : state[p] = "SLEEPING" /\ wait_state[p] = "WT_CHILD" =>
    \A c \in Children(p) :
      state[c] = "ZOMBIE" => wait_pid[p] \notin {NULL, c}

(* The walk of do_wait over cptr and optr: its i-th process, NULL once it  *)
(* has run off the end of the list.                                        *)
Walk(p) ==
  LET at[i \in 0..Cardinality(Proc)] ==
        IF i = 0 THEN cptr[p] ELSE IF at[i - 1] = NULL THEN NULL ELSE optr[at[i - 1]]
  IN at

(* do_wait(0) sees every child: the walk over the sibling list of a        *)
(* process ends, and has met exactly its children.                         *)
ChildrenReachable ==
  \A p \in Live : p # current \/ cpu # "do_exit" =>
    LET w == Walk(p) IN
    /\ w[Cardinality(Proc)] = NULL
    /\ {w[i] : i \in DOMAIN w} \ {NULL} = Children(p)

(* Nobody's parent pointer dangles: the parent of a live process is live,  *)
(* and a zombie has children only while its do_exit gives them away.       *)
ParentsLive ==
  \A c \in Live \ {idleproc} :
    /\ parent[c] \in Live
    /\ state[parent[c]] = "ZOMBIE" => cpu = "do_exit" /\ parent[c] = current

(* nr_process counts the allocated proc_structs.                           *)
ProcessCount == nr_process = Cardinality(Live) /\ nr_process <= MAX_PROCESS

(* A zombie is never switched to again, and only its parent frees it.      *)
ZombiesStayDead ==
  [][\A p \in Proc : state[p] = "ZOMBIE" =>
       \/ state'[p] = "ZOMBIE" /\ (current' = p => current = p)
       \/ state'[p] = "FREE" /\ current = parent[p]]_vars

(* The header of proc.c: SYS_kill ends in the do_exit of its target.       *)
KilledExit ==
  \A p \in Slots : (state[p] # "FREE" /\ exiting[p])
                     ~> (state[p] \in {"ZOMBIE", "FREE"} \/ cpu = "panic")
=============================================================================
