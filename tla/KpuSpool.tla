------------------------------ MODULE KpuSpool ------------------------------
(***************************************************************************)
(* The KPU spooler: the device kpuio (kern/fs/devs/dev_kpuio.c), the       *)
(* controller kpu_task_ctrl with its worker threads                        *)
(* (kern/fs/devs/kpu_spooling.c) and the calls that put a requester to     *)
(* sleep (end of kern/schedule/sched.c).                                   *)
(*                                                                         *)
(* A user process writes an image to the device or reads the status of its *)
(* task.  Either leaves the request in global variables, wakes the         *)
(* controller and sleeps until the controller wakes it.  The kernel is not *)
(* preemptive, so a step below runs from one call of schedule() to the     *)
(* next, or to the return to user mode; which runnable party goes next is  *)
(* the choice of the scheduler.                                            *)
(***************************************************************************)
EXTENDS Integers, Sequences

CONSTANTS
  Callers,              \* the user processes that use the device
  kpu_task_ctrl_proc, NULL,
  MAX_TASKNUM,
  KillTargets,          \* bound: whom user programs kill
  SPLITTERS,            \* bound: the programs that write an image in several
                        \* calls, and not only as kpuprintf does, in one
  MAX_TASKS             \* bound: no image is written once so many tasks were made

ASSUME KpuAssumption ==
  /\ kpu_task_ctrl_proc \notin Callers /\ NULL \notin Callers
  /\ KillTargets \subseteq Callers \cup {kpu_task_ctrl_proc}
  /\ MAX_TASKNUM \in Nat \ {0} /\ MAX_TASKS \in Nat /\ SPLITTERS \subseteq Callers

VARIABLES
  pc,            \* where a caller is: "user", "add" and "check" after the
                 \* schedule() of run_kpu_task_add and _check, "exited"
  runnable,      \* callers and controller whose state is PROC_RUNNABLE
  killed,        \* those with PF_EXITING
  kpuio_init, kpuio_check, caller_pid,
  request,       \* what bufs holds of an image, and how often its blocks were freed
  result,        \* kpuresultbase: for whom its status was set, and whether it is freed
  kpu_tasklist, maxid,
  threads,       \* the run_kpu threads, each with the place of its task
  kpu_sem,
  panicked,
  crossed        \* history, read by properties only: the callers whose last
                 \* request was met by a device step of another caller

task_vars == <<kpu_tasklist, maxid, threads, kpu_sem>>
vars == <<pc, runnable, killed, kpuio_init, kpuio_check, caller_pid, request, result,
          kpu_tasklist, maxid, threads, kpu_sem, panicked, crossed>>

Status == {"RESULT_GOT", "RESULT_RUNNING", "RESULT_WAITING", "RESULT_NOTEXIST", "unset"}

Init ==
  /\ pc = [p \in Callers |-> "user"]
  /\ runnable = Callers \cup {kpu_task_ctrl_proc}
  /\ killed = {}
  /\ kpuio_init = FALSE /\ kpuio_check = FALSE
  /\ caller_pid = NULL
  /\ request = [got |-> "nothing", freed |-> 0]
  /\ result = [status |-> "unset", for |-> NULL, freed |-> TRUE]
  /\ kpu_tasklist = << >> /\ maxid = 0 /\ threads = << >>
  /\ kpu_sem = [value |-> 1, wait_queue |-> << >>]
  /\ panicked = FALSE
  /\ crossed = {}

-----------------------------------------------------------------------------
(* The device.                                                             *)

InUser(p) == ~ panicked /\ pc[p] = "user"

(* A system call returns to user mode, where a killed process exits.       *)
Back(p) == [pc EXCEPT ![p] = IF p \in killed THEN "exited" ELSE "user"]

(* A request of p begins with a call and ends with its return, and p meets *)
(* whoever is between the two.                                             *)
UnderWay(p) == pc[p] \in {"add", "check"}
Crosses(p) ==
  crossed' = {q \in crossed : q = p => UnderWay(p)} \cup {q \in Callers \ {p} : UnderWay(q)}

Handover_NoSleep(p) == runnable' = runnable \cup {kpu_task_ctrl_proc}
(* The caller sleeps and the controller is woken.                          *)
Handover(p) == runnable' = (runnable \ {p}) \cup {kpu_task_ctrl_proc}

(* dev_kpuio_taskinit, called by kpuio_io for a block of p.  A first block *)
(* announces the length and resets the assembly; the length may be useless *)
(* ("nothing").  A later block must come from the same caller.  The last   *)
(* byte of the image hands the request over.                               *)
Write(p, first, got) ==
  /\ InUser(p) /\ Len(kpu_tasklist) < MAX_TASKS
  /\ p \in SPLITTERS \/ (first /\ got = "whole")
  /\ IF first \/ caller_pid = p
     THEN /\ ~ first => (got = "nothing") = (request.got = "nothing")
          /\ request' = [got |-> got, freed |-> IF first THEN 0 ELSE request.freed]
          /\ caller_pid' \in IF got = "nothing" THEN {caller_pid, p} ELSE {p}
          /\ IF got = "whole"
             THEN pc' = [pc EXCEPT ![p] = "add"] /\ Handover(p)
             ELSE pc' = Back(p) /\ UNCHANGED runnable
          /\ UNCHANGED panicked
     ELSE panicked' = TRUE /\ UNCHANGED <<request, caller_pid, pc, runnable>>
  /\ kpuio_init' = TRUE /\ kpuio_check' = FALSE
  /\ Crosses(p)
  /\ UNCHANGED <<killed, result, task_vars>>

(* dev_kpuio_taskinit after run_kpu_task_add.                              *)
WriteReturn(p) ==
  /\ ~ panicked /\ pc[p] = "add" /\ p \in runnable
  /\ kpuio_init' = FALSE /\ kpuio_check' = FALSE
  /\ pc' = Back(p)
  /\ Crosses(p)
  /\ UNCHANGED <<runnable, killed, caller_pid, request, result, task_vars, panicked>>

(* dev_try_getresult up to the schedule() of run_kpu_task_check.           *)
Read(p) ==
  /\ InUser(p)
  /\ kpuio_check' = TRUE /\ kpuio_init' = FALSE
  /\ caller_pid' = p
  /\ result' = [status |-> "unset", for |-> NULL, freed |-> FALSE]
  /\ pc' = [pc EXCEPT ![p] = "check"]
  /\ Handover(p)
  /\ Crosses(p)
  /\ UNCHANGED <<killed, request, task_vars, panicked>>

(* Whose status the caller finds in the buffer and takes to user mode.     *)
Seen == IF result.freed THEN NULL ELSE result.for

ReadReturn(p) ==
  /\ ~ panicked /\ pc[p] = "check" /\ p \in runnable
  /\ kpuio_init' = FALSE /\ kpuio_check' = FALSE
  /\ result' = [status |-> "unset", for |-> NULL, freed |-> TRUE]
  /\ pc' = Back(p)
  /\ Crosses(p)
  /\ UNCHANGED <<runnable, killed, caller_pid, request, task_vars, panicked>>

(* do_kill; WT_KPU and WT_KPU_INIT are interruptible.                      *)
Kill(q) ==
  /\ ~ panicked /\ q \notin killed
  /\ q \in Callers => pc[q] # "exited"
  /\ killed' = killed \cup {q}
  /\ runnable' = runnable \cup {q}
  /\ UNCHANGED <<pc, kpuio_init, kpuio_check, caller_pid, request, result, task_vars,
                 panicked, crossed>>

Exit(p) ==
  /\ ~ panicked /\ pc[p] = "user"
  /\ pc' = [pc EXCEPT ![p] = "exited"]
  /\ UNCHANGED <<runnable, killed, kpuio_init, kpuio_check, caller_pid, request, result,
                 task_vars, panicked, crossed>>

-----------------------------------------------------------------------------
(* The controller.                                                         *)

alloc_id == (maxid + 1) % MAX_TASKNUM

TaskToRun_Newest(tl, id) == Len(tl)
(* The task a new thread gets: the first one with this id.                 *)
TaskToRun(tl, id) ==
  CHOOSE i \in 1..Len(tl) : tl[i].id = id /\ \A j \in 1..(i - 1) : tl[j].id # id

(* add_kpu_task and try_run_task with an image in it; kmalloc leaves the   *)
(* other bits of sflag as they were, and kernel_thread may fail.           *)
AddTask ==
  \E running, success \in BOOLEAN :
    LET new == [id |-> alloc_id, proc |-> caller_pid, running |-> running, success |-> success]
        tl == Append(kpu_tasklist, new)
    IN /\ kpu_tasklist' = tl
       /\ maxid' = alloc_id
       /\ \/ threads' = Append(threads, [task |-> TaskToRun(tl, alloc_id), at |-> "start"])
          \/ UNCHANGED threads

WakeCaller_Forgotten == runnable' = runnable \ {kpu_task_ctrl_proc} /\ UNCHANGED panicked
(* find_proc and wakeup_proc of the caller, fatal once it has exited; the  *)
(* controller goes to sleep.                                               *)
WakeCaller ==
  IF pc[caller_pid] = "exited"
  THEN panicked' = TRUE /\ UNCHANGED runnable
  ELSE runnable' = (runnable \ {kpu_task_ctrl_proc}) \cup {caller_pid} /\ UNCHANGED panicked

Woken == ~ panicked /\ kpu_task_ctrl_proc \in runnable

(* ADDTASK.  The assertion on the length fails, or the blocks are copied   *)
(* and freed; what is copied from freed blocks may stop the kernel too.    *)
(* An empty image adds no task and id 99 runs none.                        *)
CtrlAdd ==
  /\ Woken /\ kpuio_init /\ ~ kpuio_check /\ caller_pid # NULL
  /\ \/ /\ request.got = "nothing" \/ request.freed > 0
        /\ panicked' = TRUE
        /\ UNCHANGED <<request, kpu_tasklist, maxid, threads, runnable>>
     \/ /\ request.got # "nothing"
        /\ request' = [request EXCEPT !.freed = IF @ = 2 THEN 2 ELSE @ + 1]
        /\ AddTask \/ UNCHANGED <<kpu_tasklist, maxid, threads>>
        /\ WakeCaller
  /\ UNCHANGED <<pc, killed, kpuio_init, kpuio_check, caller_pid, result, kpu_sem,
                 crossed>>

(* try_check_result: the first task of the caller decides.  The proc of a  *)
(* task may be gone, and then its pid is whatever the memory now holds.    *)
Check(pid) ==
  LET Mine(t, stale) == IF pc[t.proc] = "exited" THEN stale ELSE t.proc = pid
      Report(t) == IF t.running THEN "RESULT_RUNNING"
                   ELSE IF t.success THEN "RESULT_GOT" ELSE "RESULT_WAITING"
  IN {IF \E i \in 1..Len(kpu_tasklist) : Mine(kpu_tasklist[i], i \in S)
      THEN Report(kpu_tasklist[CHOOSE i \in 1..Len(kpu_tasklist) :
                                 /\ Mine(kpu_tasklist[i], i \in S)
                                 /\ \A j \in 1..(i - 1) : ~ Mine(kpu_tasklist[j], j \in S)])
      ELSE "RESULT_NOTEXIST" : S \in SUBSET (1..Len(kpu_tasklist))}

(* CHECKTASK.                                                              *)
CtrlCheck ==
  /\ Woken /\ kpuio_check /\ ~ kpuio_init
  /\ \E status \in Check(caller_pid) :
       result' = [result EXCEPT !.status = status, !.for = caller_pid]
  /\ WakeCaller
  /\ UNCHANGED <<pc, killed, kpuio_init, kpuio_check, caller_pid, request, task_vars,
                 crossed>>

(* Nothing to do: the controller sleeps again.                             *)
CtrlSleep ==
  /\ Woken /\ ~ kpuio_check /\ (kpuio_init => caller_pid = NULL)
  /\ runnable' = runnable \ {kpu_task_ctrl_proc}
  /\ UNCHANGED <<pc, killed, kpuio_init, kpuio_check, caller_pid, request, result,
                 task_vars, panicked, crossed>>

-----------------------------------------------------------------------------
(* The threads: run_kpu.                                                   *)

RunKpu(k) ==
  /\ threads' = [threads EXCEPT ![k].at = "kpu"]
  /\ kpu_tasklist' = [kpu_tasklist EXCEPT ![threads[k].task].running = TRUE]

Thread(k) ==
  /\ ~ panicked
  /\ UNCHANGED <<pc, runnable, killed, kpuio_init, kpuio_check, caller_pid, request, result,
                 maxid, panicked, crossed>>

(* down: the KPU is free, or the thread queues.                            *)
ThreadStart(k) ==
  /\ Thread(k) /\ threads[k].at = "start"
  /\ IF kpu_sem.value > 0
     THEN RunKpu(k) /\ kpu_sem' = [kpu_sem EXCEPT !.value = @ - 1]
     ELSE /\ threads' = [threads EXCEPT ![k].at = "queued"]
          /\ kpu_sem' = [kpu_sem EXCEPT !.wait_queue = Append(@, k)]
          /\ UNCHANGED kpu_tasklist

ThreadGranted(k) ==
  /\ Thread(k) /\ threads[k].at = "granted"
  /\ RunKpu(k) /\ UNCHANGED kpu_sem

up_KeepsWaiter(s) == [s EXCEPT !.value = @ + 1]
(* up hands the KPU to the first waiter, without raising the value.        *)
up(s) == IF s.wait_queue = << >> THEN [s EXCEPT !.value = @ + 1]
         ELSE [s EXCEPT !.wait_queue = Tail(@)]

Granted(s, s2) == IF s.wait_queue # s2.wait_queue THEN {s.wait_queue[1]} ELSE {}

(* The KPU is done and do_sleep returned.                                  *)
ThreadDone(k) ==
  /\ Thread(k) /\ threads[k].at = "kpu"
  /\ kpu_tasklist' = [kpu_tasklist EXCEPT ![threads[k].task].running = FALSE,
                                          ![threads[k].task].success = TRUE]
  /\ kpu_sem' = up(kpu_sem)
  /\ threads' = [i \in 1..Len(threads) |->
                   IF i = k THEN [threads[i] EXCEPT !.at = "done"]
                   ELSE IF i \in Granted(kpu_sem, up(kpu_sem))
                        THEN [threads[i] EXCEPT !.at = "granted"]
                   ELSE threads[i]]

-----------------------------------------------------------------------------
Ctrl == CtrlAdd \/ CtrlCheck \/ CtrlSleep
Returns(p) == WriteReturn(p) \/ ReadReturn(p)
ThreadStep(k) == ThreadStart(k) \/ ThreadGranted(k) \/ ThreadDone(k)

Next ==
  \/ \E p \in Callers :
       \/ \E first \in BOOLEAN, got \in {"nothing", "part", "whole"} : Write(p, first, got)
       \/ Read(p) \/ Exit(p) \/ Returns(p)
  \/ \E q \in KillTargets : Kill(q)
  \/ Ctrl
  \/ \E k \in 1..Len(threads) : ThreadStep(k)

Spec == Init /\ [][Next]_vars

(* The scheduler runs whoever stays runnable.                              *)
Fairness ==
  /\ WF_vars(Ctrl)
  /\ \A p \in Callers : WF_vars(Returns(p))
  /\ \A k \in 1..(MAX_TASKS + 1) : WF_vars(k \in 1..Len(threads) /\ ThreadStep(k))

FairSpec == Spec /\ Fairness

-----------------------------------------------------------------------------
(* Properties.                                                             *)

Holders == {k \in 1..Len(threads) : threads[k].at \in {"granted", "kpu"}}

(* run_kpu - make sure only one child thread is running at a time: the     *)
(* semaphore is free or exactly one thread has it, and it is free only if  *)
(* nobody queues for it.                                                   *)
KpuExclusive ==
  /\ \A i, j \in Holders : i = j
  /\ kpu_sem.value = 0 <=> Holders # {}
  /\ \A k \in 1..Len(threads) : threads[k].at = "queued" => Holders # {}

(* Every thread gets the KPU and finishes.                                 *)
ThreadsFinish ==
  \A k \in 1..(MAX_TASKS + 1) :
    (k \in 1..Len(threads))
      ~> (panicked \/ (k \in 1..Len(threads) /\ threads[k].at = "done"))

(* The status a process takes back to user mode was computed for it, in a  *)
(* buffer that is still there, unless another process came to the device   *)
(* while it waited: caller_pid and kpuresultbase hold one request.         *)
StatusIsOwn ==
  [][\A p \in Callers \ crossed : pc[p] = "check" /\ pc'[p] = "user" => Seen = p]_vars

(* The request p sleeps for is lost: the call of another process has       *)
(* replaced it, or the return of another one has cleared its flag, and the *)
(* controller has gone to sleep without it.                                *)
Stranded(p) ==
  /\ p \in crossed /\ p \notin runnable
  /\ \/ caller_pid # p
     \/ ~ (kpuio_init \/ kpuio_check)
     \/ kpu_task_ctrl_proc \notin runnable

(* A request that was made is answered, and its caller woken by            *)
(* kpu_task_ctrl, as long as the request is there: who never returns has   *)
(* lost it to another process at the device.                               *)
CallersReturn ==
  \A p \in Callers : UnderWay(p) ~> (panicked \/ ~ UnderWay(p) \/ Stranded(p))

(* try_run_task looks for the task by its id, and alloc_id gives the id of *)
(* an earlier task again: a new thread always runs one of the first        *)
(* MAX_TASKNUM tasks, the one that has the id of the task just added.      *)
ThreadTask ==
  [][Len(threads') > Len(threads) =>
       LET new == Len(kpu_tasklist')
           t == threads'[Len(threads')].task
       IN t \in 1..MAX_TASKNUM /\ t % MAX_TASKNUM = new % MAX_TASKNUM]_vars

=============================================================================
