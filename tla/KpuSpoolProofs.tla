--------------------------- MODULE KpuSpoolProofs ---------------------------
(***************************************************************************)
(* Proofs about KpuSpool, for any set of callers and any number of tasks:  *)
(* one thread has the KPU at a time; a status is its reader's own unless   *)
(* another process came to the device while he waited; a thread runs the   *)
(* first task with the id of the task just added.  The invariant says who  *)
(* is on the queue of kpu_sem and what its value means, where the answer   *)
(* of a sleeping reader is, and which ids were given out.                  *)
(***************************************************************************)
EXTENDS KpuSpool, WellFoundedInduction, TLAPS

Places == {"start", "queued", "granted", "kpu", "done"}
Task == [id : Int, proc : Callers, running : BOOLEAN, success : BOOLEAN]
Worker == [task : Int, at : Places]

(* What the variables hold; a thread has a task that is on the list.       *)
TypeOK ==
  /\ pc \in [Callers -> {"user", "add", "check", "exited"}]
  /\ runnable \subseteq Callers \cup {kpu_task_ctrl_proc}
  /\ killed \subseteq Callers \cup {kpu_task_ctrl_proc}
  /\ kpuio_init \in BOOLEAN /\ kpuio_check \in BOOLEAN /\ panicked \in BOOLEAN
  /\ caller_pid \in Callers \cup {NULL}
  /\ request \in [got : {"nothing", "part", "whole"}, freed : 0..2]
  /\ result \in [status : Status, for : Callers \cup {NULL}, freed : BOOLEAN]
  /\ kpu_tasklist \in Seq(Task) /\ maxid \in Int
  /\ threads \in Seq(Worker)
  /\ \A k \in 1..Len(threads) : threads[k].task \in 1..Len(kpu_tasklist)
  /\ kpu_sem \in [value : {0, 1}, wait_queue : Seq(Int)]

(* The queue of kpu_sem holds the queued threads, each once.               *)
QueueExact ==
  LET q == kpu_sem.wait_queue
  IN /\ \A i, j \in 1..Len(q) : q[i] = q[j] => i = j
     /\ \A i \in 1..Len(q) : q[i] \in 1..Len(threads) /\ threads[q[i]].at = "queued"
     /\ \A k \in 1..Len(threads) : threads[k].at = "queued" => \E i \in 1..Len(q) : q[i] = k

(* A status is asked for by a caller.                                      *)
CheckHasCaller == kpuio_check => caller_pid \in Callers

IInv == TypeOK /\ QueueExact /\ CheckHasCaller /\ KpuExclusive

-----------------------------------------------------------------------------
(* A reader whom no other process crossed and nobody killed still sleeps   *)
(* and his request still stands, or it was answered in the buffer he still *)
(* holds.                                                                  *)
Reading(p) ==
  pc[p] = "check" /\ p \notin killed /\ ~ panicked /\ p \notin crossed =>
    /\ caller_pid = p /\ ~ result.freed
    /\ \/ p \notin runnable /\ kpuio_check /\ ~ kpuio_init
       \/ p \in runnable /\ result.for = p
OwnInv == \A p \in Callers : Reading(p)

-----------------------------------------------------------------------------
(* Ids were given out in turn.                                             *)
IdInv ==
  /\ maxid = Len(kpu_tasklist) % MAX_TASKNUM
  /\ \A i \in 1..Len(kpu_tasklist) : kpu_tasklist[i].id = i % MAX_TASKNUM

-----------------------------------------------------------------------------
(* A nonempty set of naturals has a least element.                         *)
LEMMA LeastNat ==
  ASSUME NEW T \in SUBSET Nat, T # {}
  PROVE  \E n \in T : \A m \in T : n <= m
<1>1. IsWellFoundedOn(OpToRel(<, Nat), Nat)
  BY NatLessThanWellFounded, Zenon
<1>2. \E n \in T : \A m \in T : ~ (<<m, n>> \in OpToRel(<, Nat))
  BY <1>1, WFMin, Zenon
<1>3. ASSUME NEW n \in T, NEW m \in T, ~ (<<m, n>> \in OpToRel(<, Nat))
      PROVE  n <= m
  BY <1>3 DEF OpToRel
<1>4. QED
  BY <1>2, <1>3, Zenon

(* try_run_task finds the first task with the id, if there is one.         *)
LEMMA TaskToRunFirst ==
  ASSUME NEW tl \in Seq(Task), NEW id, \E i \in 1..Len(tl) : tl[i].id = id
  PROVE  /\ TaskToRun(tl, id) \in 1..Len(tl) /\ tl[TaskToRun(tl, id)].id = id
         /\ \A j \in 1..(TaskToRun(tl, id) - 1) : tl[j].id # id
<1> DEFINE T == {i \in 1..Len(tl) : tl[i].id = id}
           First(i) == tl[i].id = id /\ \A j \in 1..(i - 1) : tl[j].id # id
<1>1. T \in SUBSET Nat /\ T # {}
  OBVIOUS
<1>2. PICK n \in T : \A m \in T : n <= m
  BY <1>1, LeastNat
<1>3. n \in 1..Len(tl) /\ n \in Nat /\ tl[n].id = id
  BY <1>1
<1>4. ASSUME NEW j \in 1..(n - 1), tl[j].id = id PROVE FALSE
  <2>1. j \in T
    BY <1>3, <1>4
  <2>2. QED
    BY <1>2, <1>3, <2>1
<1>5. \E i \in 1..Len(tl) : First(i)
  BY <1>3, <1>4
<1>6. TaskToRun(tl, id) = CHOOSE i \in 1..Len(tl) : First(i)
  BY Zenon DEF TaskToRun
<1> HIDE DEF First
<1>7. TaskToRun(tl, id) \in 1..Len(tl) /\ First(TaskToRun(tl, id))
  BY <1>5, <1>6, Zenon
<1>8. QED
  BY <1>7 DEF First

(* Every step is one of these.                                             *)
LEMMA NextCases ==
  Next => \/ \E p \in Callers : \E first \in BOOLEAN, got \in {"nothing", "part", "whole"} :
               Write(p, first, got)
          \/ \E p \in Callers : Read(p) \/ Exit(p) \/ WriteReturn(p) \/ ReadReturn(p)
          \/ \E q \in KillTargets : Kill(q)
          \/ CtrlAdd \/ CtrlCheck \/ CtrlSleep
          \/ \E k \in 1..Len(threads) : ThreadStart(k) \/ ThreadGranted(k) \/ ThreadDone(k)
  BY Zenon DEF Next, Returns, Ctrl, ThreadStep

-----------------------------------------------------------------------------
(* Types.                                                                  *)

LEMMA InitIInv == Init => IInv
<1> SUFFICES ASSUME Init PROVE IInv
  OBVIOUS
<1>1. pc \in [Callers -> {"user", "add", "check", "exited"}]
  BY DEF Init
<1>2. /\ kpu_tasklist \in Seq(Task) /\ threads \in Seq(Worker) /\ Len(threads) = 0
      /\ kpu_sem = [value |-> 1, wait_queue |-> << >>] /\ << >> \in Seq(Int) /\ Len(<< >>) = 0
  BY DEF Init
<1>3. /\ request \in [got : {"nothing", "part", "whole"}, freed : 0..2]
      /\ result \in [status : Status, for : Callers \cup {NULL}, freed : BOOLEAN]
      /\ kpu_sem \in [value : {0, 1}, wait_queue : Seq(Int)]
  BY <1>2 DEF Init, Status
<1>4. TypeOK
  <2>1. kpuio_init \in BOOLEAN /\ kpuio_check \in BOOLEAN /\ panicked \in BOOLEAN
    BY Zenon DEF Init
  <2>2. /\ runnable \subseteq Callers \cup {kpu_task_ctrl_proc} /\ caller_pid \in Callers \cup {NULL}
        /\ killed \subseteq Callers \cup {kpu_task_ctrl_proc} /\ maxid \in Int
    BY DEF Init
  <2>3. \A k \in 1..Len(threads) : threads[k].task \in 1..Len(kpu_tasklist)
    BY <1>2
  <2>4. QED
    BY <1>1, <1>2, <1>3, <2>1, <2>2, <2>3, Zenon DEF TypeOK
<1>5. Holders = {}
  BY <1>2 DEF Holders
<1>6. QED
  BY <1>2, <1>4, <1>5 DEF Init, IInv, QueueExact, CheckHasCaller, KpuExclusive

(* A process calls, returns from, or leaves the device.                    *)
LEMMA CallerType ==
  ASSUME IInv, NEW p \in Callers,
         \/ \E first \in BOOLEAN, got \in {"nothing", "part", "whole"} : Write(p, first, got)
         \/ Read(p) \/ Exit(p) \/ WriteReturn(p) \/ ReadReturn(p)
  PROVE  TypeOK' /\ CheckHasCaller'
<1> USE KpuAssumption DEF IInv, TypeOK, CheckHasCaller, task_vars, Back, InUser, Handover, Status
<1>1. CASE \E first \in BOOLEAN, got \in {"nothing", "part", "whole"} : Write(p, first, got)
  <2>1. PICK first \in BOOLEAN, got \in {"nothing", "part", "whole"} : Write(p, first, got)
    BY <1>1
  <2>2. UNCHANGED <<killed, result, kpu_tasklist, maxid, threads, kpu_sem>>
        /\ kpuio_init' = TRUE /\ kpuio_check' = FALSE
    BY <2>1 DEF Write
  <2>3. CASE first \/ caller_pid = p
    <3>1. /\ request' \in [got : {"nothing", "part", "whole"}, freed : 0..2]
          /\ caller_pid' \in Callers \cup {NULL} /\ panicked' = panicked
      BY <2>1, <2>3 DEF Write
    <3>2. /\ pc' \in [Callers -> {"user", "add", "check", "exited"}]
          /\ runnable' \subseteq Callers \cup {kpu_task_ctrl_proc}
      BY <2>1, <2>3 DEF Write
    <3>3. QED
      BY <2>2, <3>1, <3>2
  <2>4. CASE ~ (first \/ caller_pid = p)
    <3>1. panicked' = TRUE /\ UNCHANGED <<request, caller_pid, pc, runnable>>
      BY <2>1, <2>4 DEF Write
    <3>2. QED
      BY <2>2, <3>1
  <2>5. QED
    BY <2>3, <2>4
<1>2. CASE Read(p)
  BY <1>2 DEF Read
<1>3. CASE Exit(p)
  BY <1>3 DEF Exit
<1>4. CASE WriteReturn(p)
  BY <1>4 DEF WriteReturn
<1>5. CASE ReadReturn(p)
  BY <1>5 DEF ReadReturn, Seen
<1>6. QED
  BY <1>1, <1>2, <1>3, <1>4, <1>5

(* The controller and do_kill.                                             *)
LEMMA CtrlType ==
  ASSUME IInv, \/ CtrlAdd \/ CtrlCheck \/ CtrlSleep
               \/ \E q \in KillTargets : Kill(q)
  PROVE  TypeOK' /\ CheckHasCaller'
<1> USE KpuAssumption DEF IInv, TypeOK, CheckHasCaller, task_vars, Woken
<1>1. CASE CtrlAdd
  <2>1. UNCHANGED <<pc, killed, kpuio_init, kpuio_check, caller_pid, result, kpu_sem>>
    BY <1>1 DEF CtrlAdd
  <2>2. /\ request' \in [got : {"nothing", "part", "whole"}, freed : 0..2]
        /\ panicked' \in BOOLEAN /\ runnable' \subseteq Callers \cup {kpu_task_ctrl_proc}
    <3>1. CASE /\ panicked' = TRUE /\ UNCHANGED <<request, runnable>>
      BY <3>1
    <3>2. CASE /\ request' = [request EXCEPT !.freed = IF @ = 2 THEN 2 ELSE @ + 1]
               /\ WakeCaller
      <4>1. request' \in [got : {"nothing", "part", "whole"}, freed : 0..2]
        <5>1. request.freed \in 0..2 /\ request.got \in {"nothing", "part", "whole"}
          OBVIOUS
        <5>2. request' = [got |-> request.got,
                          freed |-> IF request.freed = 2 THEN 2 ELSE request.freed + 1]
          BY <3>2
        <5>3. (IF request.freed = 2 THEN 2 ELSE request.freed + 1) \in 0..2
          BY <5>1
        <5>4. QED
          BY <5>1, <5>2, <5>3
      <4>2. panicked' \in BOOLEAN /\ runnable' \subseteq Callers \cup {kpu_task_ctrl_proc}
        BY <1>1, <3>2 DEF CtrlAdd, WakeCaller
      <4>3. QED
        BY <4>1, <4>2
    <3>3. QED
      BY <1>1, <3>1, <3>2 DEF CtrlAdd
  <2>3. /\ kpu_tasklist' \in Seq(Task) /\ maxid' \in Int /\ threads' \in Seq(Worker)
        /\ \A k \in 1..Len(threads') : threads'[k].task \in 1..Len(kpu_tasklist')
    <3>1. CASE UNCHANGED <<kpu_tasklist, maxid, threads>>
      BY <3>1
    <3>2. CASE AddTask
      <4>1. PICK running, success \in BOOLEAN :
              LET new == [id |-> alloc_id, proc |-> caller_pid, running |-> running,
                          success |-> success]
                  tl == Append(kpu_tasklist, new)
              IN /\ kpu_tasklist' = tl
                 /\ maxid' = alloc_id
                 /\ \/ threads' = Append(threads, [task |-> TaskToRun(tl, alloc_id), at |-> "start"])
                    \/ UNCHANGED threads
        BY <3>2 DEF AddTask
      <4> DEFINE new == [id |-> alloc_id, proc |-> caller_pid, running |-> running,
                         success |-> success]
                 tl == Append(kpu_tasklist, new)
                 t == TaskToRun(tl, alloc_id)
      <4>2. alloc_id \in Int /\ caller_pid \in Callers
        BY <1>1 DEF alloc_id, CtrlAdd
      <4>3. new \in Task /\ new.id = alloc_id
        BY <4>2 DEF Task
      <4> HIDE DEF new
      <4>4. tl \in Seq(Task) /\ Len(tl) = Len(kpu_tasklist) + 1 /\ tl[Len(tl)] = new
            /\ Len(kpu_tasklist) \in Nat /\ Len(tl) \in 1..Len(tl)
        BY <4>3
      <4>5. \E i \in 1..Len(tl) : tl[i].id = alloc_id
        BY <4>3, <4>4
      <4> HIDE DEF tl
      <4>6. t \in 1..Len(tl)
        BY <4>4, <4>5, TaskToRunFirst, Zenon
      <4> HIDE DEF t
      <4>7. kpu_tasklist' = tl /\ maxid' = alloc_id
            /\ (threads' = Append(threads, [task |-> t, at |-> "start"]) \/ UNCHANGED threads)
        BY <4>1, Zenon DEF new, tl, t
      <4>8. CASE UNCHANGED threads
        BY <4>2, <4>4, <4>7, <4>8
      <4>9. CASE threads' = Append(threads, [task |-> t, at |-> "start"])
        <5>1. [task |-> t, at |-> "start"] \in Worker
          BY <4>6 DEF Worker, Places
        <5>2. threads' \in Seq(Worker) /\ Len(threads') = Len(threads) + 1
          BY <4>9, <5>1
        <5>3. ASSUME NEW k \in 1..Len(threads') PROVE threads'[k].task \in 1..Len(tl)
          BY <4>9, <4>6, <4>4, <5>2
        <5>4. QED
          BY <5>2, <5>3, <4>2, <4>4, <4>7
      <4>10. QED
        BY <4>7, <4>8, <4>9
    <3>3. QED
      BY <1>1, <3>1, <3>2 DEF CtrlAdd
  <2>4. QED
    BY <2>1, <2>2, <2>3
<1>2. CASE CtrlCheck
  <2>1. \A status \in Check(caller_pid) : status \in Status
    BY DEF Check, Status
  <2>2. PICK status \in Check(caller_pid) :
          result' = [result EXCEPT !.status = status, !.for = caller_pid]
    BY <1>2 DEF CtrlCheck
  <2>3. result' \in [status : Status, for : Callers \cup {NULL}, freed : BOOLEAN]
    BY <2>1, <2>2
  <2>4. panicked' \in BOOLEAN /\ runnable' \subseteq Callers \cup {kpu_task_ctrl_proc}
    <3>1. caller_pid \in Callers /\ WakeCaller
      BY <1>2, Zenon DEF CtrlCheck
    <3>2. CASE pc[caller_pid] = "exited"
      BY <3>1, <3>2, Zenon DEF WakeCaller
    <3>3. CASE pc[caller_pid] # "exited"
      <4>1. runnable' = (runnable \ {kpu_task_ctrl_proc}) \cup {caller_pid} /\ panicked' = panicked
        BY <3>1, <3>3, Zenon DEF WakeCaller
      <4>2. QED
        BY <3>1, <4>1
    <3>4. QED
      BY <3>2, <3>3
  <2>5. UNCHANGED <<pc, killed, kpuio_init, kpuio_check, caller_pid, request, kpu_tasklist,
                    maxid, threads, kpu_sem>>
    BY <1>2 DEF CtrlCheck
  <2>6. QED
    BY <2>3, <2>4, <2>5
<1>3. CASE CtrlSleep
  BY <1>3 DEF CtrlSleep
<1>4. CASE \E q \in KillTargets : Kill(q)
  BY <1>4 DEF Kill
<1>5. QED
  BY <1>1, <1>2, <1>3, <1>4

-----------------------------------------------------------------------------
(* The KPU.                                                                *)

(* Whoever neither takes nor gives the KPU may add a thread that has not   *)
(* asked for it yet.                                                       *)
LEMMA KpuFrame ==
  ASSUME IInv, kpu_sem' = kpu_sem,
         \/ threads' = threads
         \/ \E t : threads' = Append(threads, [task |-> t, at |-> "start"])
  PROVE  QueueExact' /\ KpuExclusive'
<1> USE DEF IInv
<1>1. CASE threads' = threads
  <2>1. Holders' = Holders
    BY <1>1 DEF Holders
  <2>2. QED
    BY <1>1, <2>1 DEF QueueExact, KpuExclusive
<1>2. CASE \E t : threads' = Append(threads, [task |-> t, at |-> "start"])
  <2>1. PICK t : threads' = Append(threads, [task |-> t, at |-> "start"])
    BY <1>2
  <2>2. /\ Len(threads) \in Nat /\ Len(threads') = Len(threads) + 1
        /\ \A k \in 1..Len(threads) : threads'[k] = threads[k]
        /\ threads'[Len(threads) + 1].at = "start"
    BY <2>1 DEF TypeOK
  <2>3. Holders' = Holders
    BY <2>2 DEF Holders
  <2>4. \A k \in 1..Len(threads') : threads'[k].at = "queued" <=>
                                     k \in 1..Len(threads) /\ threads[k].at = "queued"
    BY <2>2
  <2>5. 1..Len(threads) \subseteq 1..Len(threads')
    BY <2>2
  <2>6. QueueExact'
    BY <2>2, <2>4, <2>5 DEF QueueExact
  <2>7. QED
    BY <2>3, <2>4, <2>6 DEF KpuExclusive
<1>3. QED
  BY <1>1, <1>2

(* Assignments to a field of a thread and of a task.                       *)
LEMMA SetAt ==
  ASSUME NEW th \in Seq(Worker), NEW k \in 1..Len(th), NEW v \in Places
  PROVE  LET t == [th EXCEPT ![k].at = v]
         IN /\ t \in Seq(Worker) /\ Len(t) = Len(th)
            /\ t[k].at = v /\ t[k].task = th[k].task
            /\ \A i \in 1..Len(th) : i # k => t[i] = th[i]
<1> DEFINE w == [th[k] EXCEPT !.at = v]
           t == [th EXCEPT ![k] = w]
<1>1. th[k] \in Worker
  OBVIOUS
<1>2. w \in Worker /\ w.at = v /\ w.task = th[k].task
  BY <1>1 DEF Worker
<1> HIDE DEF w
<1>3. t \in Seq(Worker) /\ Len(t) = Len(th) /\ t[k] = w /\ \A i \in 1..Len(th) : i # k => t[i] = th[i]
  BY <1>2
<1>4. [th EXCEPT ![k].at = v] = t
  BY DEF w
<1> HIDE DEF t
<1>5. QED
  BY <1>2, <1>3, <1>4

LEMMA SetRunning ==
  ASSUME NEW tl \in Seq(Task), NEW t \in 1..Len(tl), NEW x,
         x = [tl EXCEPT ![t].running = TRUE]
         \/ x = [tl EXCEPT ![t].running = FALSE, ![t].success = TRUE]
  PROVE  /\ x \in Seq(Task) /\ Len(x) = Len(tl)
         /\ \A i \in 1..Len(tl) : x[i].id = tl[i].id
<1>1. tl[t] \in Task
  OBVIOUS
<1>2. ASSUME NEW w \in Task, w.id = tl[t].id, x = [tl EXCEPT ![t] = w]
      PROVE  /\ x \in Seq(Task) /\ Len(x) = Len(tl)
             /\ \A i \in 1..Len(tl) : x[i].id = tl[i].id
  BY <1>2
<1>3. CASE x = [tl EXCEPT ![t].running = TRUE]
  <2> DEFINE w == [tl[t] EXCEPT !.running = TRUE]
  <2>1. w \in Task /\ w.id = tl[t].id
    BY <1>1 DEF Task
  <2>2. x = [tl EXCEPT ![t] = w]
    BY <1>3
  <2>3. QED
    BY <1>2, <2>1, <2>2
<1>4. CASE x = [tl EXCEPT ![t].running = FALSE, ![t].success = TRUE]
  <2> DEFINE w == [tl[t] EXCEPT !.running = FALSE, !.success = TRUE]
  <2>1. w \in Task /\ w.id = tl[t].id
    BY <1>1 DEF Task
  <2>2. x = [tl EXCEPT ![t] = w]
    BY <1>1, <1>4
  <2>3. QED
    BY <1>2, <2>1, <2>2
<1>5. QED
  BY <1>3, <1>4

(* A thread's step keeps the length of the lists and the threads' tasks.   *)
LEMMA ThreadType ==
  ASSUME IInv, NEW k \in 1..Len(threads), ThreadStart(k) \/ ThreadGranted(k) \/ ThreadDone(k)
  PROVE  /\ kpu_tasklist' \in Seq(Task) /\ Len(kpu_tasklist') = Len(kpu_tasklist)
         /\ \A i \in 1..Len(kpu_tasklist) : kpu_tasklist'[i].id = kpu_tasklist[i].id
         /\ threads' \in Seq(Worker) /\ Len(threads') = Len(threads)
         /\ \A i \in 1..Len(threads) : threads'[i].task = threads[i].task
         /\ \A i \in 1..Len(threads) : i # k /\ threads'[i].at # threads[i].at =>
              threads'[i].at = "granted" /\ threads[k].at = "kpu"
<1>1. /\ kpu_tasklist' \in Seq(Task) /\ Len(kpu_tasklist') = Len(kpu_tasklist)
      /\ \A i \in 1..Len(kpu_tasklist) : kpu_tasklist'[i].id = kpu_tasklist[i].id
  <2>1. threads[k].task \in 1..Len(kpu_tasklist) /\ kpu_tasklist \in Seq(Task)
    BY DEF IInv, TypeOK
  <2>2. \/ kpu_tasklist' = kpu_tasklist
        \/ kpu_tasklist' = [kpu_tasklist EXCEPT ![threads[k].task].running = TRUE]
        \/ kpu_tasklist' = [kpu_tasklist EXCEPT ![threads[k].task].running = FALSE,
                                               ![threads[k].task].success = TRUE]
    BY Zenon DEF ThreadStart, ThreadGranted, ThreadDone, RunKpu
  <2>3. CASE kpu_tasklist' = kpu_tasklist
    BY <2>1, <2>3
  <2>4. CASE kpu_tasklist' # kpu_tasklist
    <3> DEFINE x == kpu_tasklist'
               t == threads[k].task
    <3>1. x = [kpu_tasklist EXCEPT ![t].running = TRUE]
          \/ x = [kpu_tasklist EXCEPT ![t].running = FALSE, ![t].success = TRUE]
      BY <2>2, <2>4
    <3>2. t \in 1..Len(kpu_tasklist)
      BY <2>1
    <3> HIDE DEF x, t
    <3>3. /\ x \in Seq(Task) /\ Len(x) = Len(kpu_tasklist)
          /\ \A i \in 1..Len(kpu_tasklist) : x[i].id = kpu_tasklist[i].id
      BY <2>1, <3>1, <3>2, SetRunning
    <3>4. QED
      BY <3>3 DEF x
  <2>5. QED
    BY <2>3, <2>4
<1>2. threads \in Seq(Worker)
  BY DEF IInv, TypeOK
<1>3. CASE \E v \in Places : threads' = [threads EXCEPT ![k].at = v]
  BY <1>1, <1>2, <1>3, SetAt
<1>4. CASE ThreadDone(k)
  <2>1. /\ threads' = [i \in 1..Len(threads) |->
                         IF i = k THEN [threads[i] EXCEPT !.at = "done"]
                         ELSE IF i \in Granted(kpu_sem, up(kpu_sem))
                              THEN [threads[i] EXCEPT !.at = "granted"]
                         ELSE threads[i]]
        /\ threads[k].at = "kpu"
    BY <1>4 DEF ThreadDone
  <2>2. \A i \in 1..Len(threads) : /\ threads[i] \in Worker
                                  /\ [threads[i] EXCEPT !.at = "done"] \in Worker
                                  /\ [threads[i] EXCEPT !.at = "granted"] \in Worker
    <3>1. ASSUME NEW w \in Worker, NEW v \in Places PROVE [w EXCEPT !.at = v] \in Worker
      BY DEF Worker
    <3>2. QED
      <4>1. "done" \in Places /\ "granted" \in Places
        BY DEF Places
      <4>2. \A i \in 1..Len(threads) : threads[i] \in Worker
        BY <1>2
      <4>3. QED
        BY <3>1, <4>1, <4>2, Zenon
  <2>3. Len(threads') = Len(threads) /\ threads' \in Seq(Worker)
    BY <1>2, <2>1, <2>2
  <2>4. \A i \in 1..Len(threads) :
          /\ threads'[i].task = threads[i].task
          /\ i # k /\ threads'[i].at # threads[i].at => threads'[i].at = "granted"
    BY <2>1, <2>2 DEF Worker
  <2>5. QED
    BY <1>1, <2>1, <2>3, <2>4
<1>5. QED
  <2>1. \/ \E v \in Places : threads' = [threads EXCEPT ![k].at = v]
        \/ ThreadDone(k)
    BY DEF ThreadStart, ThreadGranted, RunKpu, Places
  <2>2. QED
    BY <2>1, <1>3, <1>4

(* down: the thread takes the KPU or joins the queue.                      *)
LEMMA StartStep ==
  ASSUME IInv, NEW k \in 1..Len(threads), ThreadStart(k)
  PROVE  kpu_sem' \in [value : {0, 1}, wait_queue : Seq(Int)] /\ QueueExact' /\ KpuExclusive'
<1>1. /\ threads \in Seq(Worker) /\ Len(threads) \in Nat /\ threads[k].at = "start"
      /\ kpu_sem \in [value : {0, 1}, wait_queue : Seq(Int)] /\ QueueExact /\ KpuExclusive
  BY DEF ThreadStart, IInv, TypeOK
<1>2. CASE kpu_sem.value > 0
  <2>1. /\ threads' = [threads EXCEPT ![k].at = "kpu"] /\ kpu_sem' = [kpu_sem EXCEPT !.value = @ - 1]
        /\ kpu_sem.value = 1
    BY <1>1, <1>2 DEF ThreadStart, RunKpu
  <2>2. Holders = {}
    BY <1>1, <2>1 DEF KpuExclusive
  <2>3. /\ Len(threads') = Len(threads) /\ threads'[k].at = "kpu"
        /\ \A i \in 1..Len(threads) : i # k => threads'[i] = threads[i]
    BY <1>1, <2>1, SetAt DEF Places
  <2>4. Holders' = {k}
    BY <2>2, <2>3, <1>1 DEF Holders
  <2>5. \A i \in 1..Len(threads) : threads[i].at # "queued"
    BY <1>1, <2>2 DEF KpuExclusive
  <2>6. /\ kpu_sem' \in [value : {0, 1}, wait_queue : Seq(Int)]
        /\ kpu_sem'.value = 0 /\ kpu_sem'.wait_queue = kpu_sem.wait_queue
    <3>1. kpu_sem' = [value |-> 0, wait_queue |-> kpu_sem.wait_queue]
      BY <1>1, <2>1
    <3>2. QED
      BY <1>1, <3>1
  <2>7. kpu_sem.wait_queue \in Seq(Int) /\ \A i \in 1..Len(kpu_sem.wait_queue) : FALSE
    BY <1>1, <2>5 DEF QueueExact
  <2>8. QueueExact'
    BY <1>1, <2>3, <2>5, <2>6, <2>7 DEF QueueExact
  <2>9. KpuExclusive'
    BY <1>1, <2>3, <2>4, <2>6 DEF KpuExclusive
  <2>10. QED
    BY <1>1, <2>6, <2>8, <2>9
<1>3. CASE ~ (kpu_sem.value > 0)
  <2>1. /\ threads' = [threads EXCEPT ![k].at = "queued"]
        /\ kpu_sem' = [kpu_sem EXCEPT !.wait_queue = Append(@, k)] /\ kpu_sem.value = 0
    BY <1>1, <1>3 DEF ThreadStart
  <2>2. Holders # {}
    BY <1>1, <2>1 DEF KpuExclusive
  <2>3. /\ Len(threads') = Len(threads) /\ threads'[k].at = "queued"
        /\ \A i \in 1..Len(threads) : i # k => threads'[i] = threads[i]
    BY <1>1, <2>1, SetAt DEF Places
  <2>4. Holders' = Holders
    BY <2>3, <1>1 DEF Holders
  <2> DEFINE q == kpu_sem.wait_queue
  <2>5. q \in Seq(Int) /\ Len(q) \in Nat
    BY <1>1
  <2>6. /\ kpu_sem' \in [value : {0, 1}, wait_queue : Seq(Int)] /\ kpu_sem'.value = 0
        /\ Len(kpu_sem'.wait_queue) = Len(q) + 1 /\ kpu_sem'.wait_queue[Len(q) + 1] = k
        /\ \A i \in 1..Len(q) : kpu_sem'.wait_queue[i] = q[i]
    <3>1. kpu_sem' = [value |-> 0, wait_queue |-> Append(q, k)]
      BY <1>1, <2>1
    <3>2. QED
      BY <1>1, <2>5, <3>1
  <2>7. \A i \in 1..Len(q) : q[i] # k
    BY <1>1 DEF QueueExact
  <2>8. QueueExact'
    <3> DEFINE n == Len(q)
               r == kpu_sem'.wait_queue
    <3>1. /\ \A i, j \in 1..n : q[i] = q[j] => i = j
          /\ \A i \in 1..n : q[i] \in 1..Len(threads) /\ threads[q[i]].at = "queued"
          /\ \A i \in 1..Len(threads) : threads[i].at = "queued" => \E j \in 1..n : q[j] = i
      BY <1>1 DEF QueueExact
    <3>6. /\ n \in Nat /\ Len(r) = n + 1 /\ r[n + 1] = k
          /\ \A i \in 1..n : r[i] = q[i] /\ q[i] # k
      BY <2>5, <2>6, <2>7
    <3> HIDE DEF n, r, q
    <3>2. \A i, j \in 1..(n + 1) : r[i] = r[j] => i = j
      BY <3>6, <3>1
    <3>3. \A i \in 1..(n + 1) : r[i] \in 1..Len(threads) /\ threads'[r[i]].at = "queued"
      BY <2>3, <3>6, <3>1
    <3>4. ASSUME NEW i \in 1..Len(threads), threads'[i].at = "queued"
          PROVE  \E j \in 1..(n + 1) : r[j] = i
      <4>1. CASE i = k
        BY <4>1, <3>6
      <4>2. CASE i # k
        <5>1. PICK j \in 1..n : q[j] = i
          BY <4>2, <3>4, <2>3, <3>1
        <5>2. QED
          BY <5>1, <3>6
      <4>3. QED
        BY <1>1, <4>1, <4>2
    <3>5. QED
      BY <2>3, <3>6, <3>2, <3>3, <3>4 DEF QueueExact, r
  <2>9. KpuExclusive'
    BY <1>1, <2>2, <2>3, <2>4, <2>6 DEF KpuExclusive
  <2>10. QED
    BY <1>1, <2>6, <2>8, <2>9
<1>4. QED
  BY <1>1, <1>2, <1>3

(* The thread that up() chose goes on with the KPU that is its own.        *)
LEMMA GrantedStep ==
  ASSUME IInv, NEW k \in 1..Len(threads), ThreadGranted(k)
  PROVE  kpu_sem' \in [value : {0, 1}, wait_queue : Seq(Int)] /\ QueueExact' /\ KpuExclusive'
<1>1. /\ threads \in Seq(Worker) /\ Len(threads) \in Nat /\ threads[k].at = "granted"
      /\ threads' = [threads EXCEPT ![k].at = "kpu"] /\ kpu_sem' = kpu_sem
      /\ kpu_sem \in [value : {0, 1}, wait_queue : Seq(Int)] /\ QueueExact /\ KpuExclusive
  BY DEF ThreadGranted, RunKpu, IInv, TypeOK
<1>2. /\ Len(threads') = Len(threads) /\ threads'[k].at = "kpu"
      /\ \A i \in 1..Len(threads) : i # k => threads'[i] = threads[i]
  BY <1>1, SetAt DEF Places
<1>3. Holders' = Holders
  BY <1>1, <1>2 DEF Holders
<1>4. \A i \in 1..Len(threads) : threads'[i].at = "queued" <=> threads[i].at = "queued"
  BY <1>1, <1>2
<1>5. QED
  BY <1>1, <1>2, <1>3, <1>4 DEF QueueExact, KpuExclusive

(* up: the KPU is free, or the first waiter has it.                        *)
LEMMA DoneStep ==
  ASSUME IInv, NEW k \in 1..Len(threads), ThreadDone(k)
  PROVE  kpu_sem' \in [value : {0, 1}, wait_queue : Seq(Int)] /\ QueueExact' /\ KpuExclusive'
<1> DEFINE q == kpu_sem.wait_queue
<1>1. /\ threads \in Seq(Worker) /\ Len(threads) \in Nat /\ threads[k].at = "kpu"
      /\ kpu_sem \in [value : {0, 1}, wait_queue : Seq(Int)] /\ QueueExact /\ KpuExclusive
  BY DEF ThreadDone, IInv, TypeOK
<1>2. Holders = {k} /\ kpu_sem.value = 0
  BY <1>1 DEF Holders, KpuExclusive
<1>3. /\ Len(threads') = Len(threads) /\ threads'[k].at = "done"
      /\ \A i \in 1..Len(threads) : i # k =>
           IF i \in Granted(kpu_sem, up(kpu_sem)) THEN threads'[i].at = "granted"
           ELSE threads'[i] = threads[i]
  <2>1. threads' = [i \in 1..Len(threads) |->
                     IF i = k THEN [threads[i] EXCEPT !.at = "done"]
                     ELSE IF i \in Granted(kpu_sem, up(kpu_sem))
                          THEN [threads[i] EXCEPT !.at = "granted"]
                     ELSE threads[i]]
    BY DEF ThreadDone
  <2>2. ASSUME NEW w \in Worker, NEW v PROVE [w EXCEPT !.at = v].at = v
    BY DEF Worker
  <2>3. \A i \in 1..Len(threads) : threads[i] \in Worker
    BY <1>1
  <2>4. Len(threads') = Len(threads)
    BY <1>1, <2>1
  <2>5. QED
    BY <2>1, <2>2, <2>3, <2>4
<1>4. CASE q = << >>
  <2>1. kpu_sem' = [kpu_sem EXCEPT !.value = @ + 1] /\ Granted(kpu_sem, up(kpu_sem)) = {}
    BY <1>1, <1>4 DEF ThreadDone, up, Granted
  <2>2. /\ Len(threads') = Len(threads) /\ threads'[k].at = "done"
        /\ \A i \in 1..Len(threads) : i # k => threads'[i] = threads[i]
    BY <1>3, <2>1
  <2>3. Holders' = {}
    BY <1>1, <1>2, <2>2 DEF Holders
  <2>4. /\ kpu_sem' \in [value : {0, 1}, wait_queue : Seq(Int)] /\ kpu_sem'.value = 1
        /\ kpu_sem'.wait_queue = q
    BY <1>1, <1>2, <2>1
  <2>5. \A i \in 1..Len(threads) : threads[i].at # "queued"
    BY <1>1, <1>4 DEF QueueExact
  <2>6. \A i \in 1..Len(threads) : threads'[i].at # "queued"
    BY <1>1, <2>2, <2>5
  <2>7. QueueExact'
    BY <1>1, <1>4, <2>2, <2>4, <2>6 DEF QueueExact
  <2>8. QED
    BY <1>1, <2>2, <2>3, <2>4, <2>6, <2>7 DEF KpuExclusive
<1>5. CASE q # << >>
  <2> DEFINE h == q[1]
  <2>1. /\ Len(q) > 0 /\ Tail(q) \in Seq(Int) /\ Len(Tail(q)) = Len(q) - 1
        /\ \A i \in 1..(Len(q) - 1) : Tail(q)[i] = q[i + 1]
    BY <1>1, <1>5
  <2>2. kpu_sem' = [kpu_sem EXCEPT !.wait_queue = Tail(@)] /\ Granted(kpu_sem, up(kpu_sem)) = {h}
    BY <1>1, <1>5, <2>1 DEF ThreadDone, up, Granted
  <2>3. h \in 1..Len(threads) /\ threads[h].at = "queued" /\ h # k
    BY <1>1, <2>1 DEF QueueExact
  <2> HIDE DEF h
  <2>4. /\ Len(threads') = Len(threads) /\ threads'[k].at = "done" /\ threads'[h].at = "granted"
        /\ \A i \in 1..Len(threads) : i # k /\ i # h => threads'[i] = threads[i]
    BY <1>3, <2>2, <2>3
  <2>5. Holders' = {h}
    BY <1>1, <1>2, <2>3, <2>4 DEF Holders
  <2>6. /\ kpu_sem' \in [value : {0, 1}, wait_queue : Seq(Int)] /\ kpu_sem'.value = 0
        /\ kpu_sem'.wait_queue = Tail(q)
    BY <1>1, <1>2, <2>1, <2>2
  <2>7. QueueExact'
    <3>1. ASSUME NEW i \in 1..(Len(q) - 1), NEW j \in 1..(Len(q) - 1), Tail(q)[i] = Tail(q)[j]
          PROVE  i = j
      <4>1. q[i + 1] = q[j + 1] /\ i + 1 \in 1..Len(q) /\ j + 1 \in 1..Len(q)
        BY <1>1, <2>1, <3>1
      <4>2. i + 1 = j + 1
        BY <1>1, <4>1 DEF QueueExact
      <4>3. QED
        BY <4>2
    <3>2. ASSUME NEW i \in 1..(Len(q) - 1)
          PROVE  Tail(q)[i] \in 1..Len(threads) /\ threads'[Tail(q)[i]].at = "queued"
      <4>1. Tail(q)[i] = q[i + 1] /\ i + 1 \in 1..Len(q) /\ i + 1 # 1 /\ 1 \in 1..Len(q)
        BY <1>1, <2>1
      <4>2. q[i + 1] # h /\ q[i + 1] \in 1..Len(threads) /\ threads[q[i + 1]].at = "queued"
        BY <1>1, <4>1 DEF QueueExact, h
      <4>3. QED
        BY <1>1, <4>1, <4>2, <2>4
    <3>3. ASSUME NEW i \in 1..Len(threads), threads'[i].at = "queued"
          PROVE  \E j \in 1..(Len(q) - 1) : Tail(q)[j] = i
      <4>1. i # k /\ i # h /\ threads[i].at = "queued"
        BY <1>1, <3>3, <2>4
      <4>2. PICK j \in 1..Len(q) : q[j] = i
        BY <1>1, <4>1 DEF QueueExact
      <4>3. j # 1 /\ j - 1 \in 1..(Len(q) - 1) /\ (j - 1) + 1 = j
        BY <1>1, <4>1, <4>2 DEF h
      <4>4. Tail(q)[j - 1] = i
        BY <1>1, <4>2, <4>3, <2>1
      <4>5. QED
        BY <1>1, <4>3, <4>4
    <3>4. QED
      BY <1>1, <3>1, <3>2, <3>3, <2>1, <2>4, <2>6 DEF QueueExact
  <2>8. KpuExclusive'
    BY <1>1, <2>4, <2>5, <2>6 DEF KpuExclusive
  <2>9. QED
    BY <1>1, <2>6, <2>7, <2>8
<1>6. QED
  BY <1>4, <1>5

-----------------------------------------------------------------------------
(* The invariant.                                                          *)

LEMMA InvStep == IInv /\ [Next]_vars => IInv'
<1> SUFFICES ASSUME IInv, [Next]_vars PROVE IInv'
  OBVIOUS
<1>1. ASSUME NEW p \in Callers,
             \/ \E first \in BOOLEAN, got \in {"nothing", "part", "whole"} : Write(p, first, got)
             \/ Read(p) \/ Exit(p) \/ WriteReturn(p) \/ ReadReturn(p)
      PROVE  IInv'
  <2>1. TypeOK' /\ CheckHasCaller'
    BY <1>1, CallerType, Zenon
  <2>2. kpu_sem' = kpu_sem /\ threads' = threads
    BY <1>1 DEF Write, Read, Exit, WriteReturn, ReadReturn, task_vars
  <2>3. QED
    BY <2>1, <2>2, KpuFrame, Zenon DEF IInv
<1>2. ASSUME CtrlAdd \/ CtrlCheck \/ CtrlSleep \/ \E q \in KillTargets : Kill(q)
      PROVE  IInv'
  <2>1. TypeOK' /\ CheckHasCaller'
    BY <1>2, CtrlType, Zenon
  <2>2. /\ kpu_sem' = kpu_sem
        /\ \/ threads' = threads
           \/ \E t : threads' = Append(threads, [task |-> t, at |-> "start"])
    BY <1>2, Zenon DEF CtrlAdd, CtrlCheck, CtrlSleep, Kill, AddTask, task_vars
  <2>3. QED
    BY <2>1, <2>2, KpuFrame, Zenon DEF IInv
<1>3. ASSUME NEW k \in 1..Len(threads), ThreadStart(k) \/ ThreadGranted(k) \/ ThreadDone(k)
      PROVE  IInv'
  <2>1. kpu_sem' \in [value : {0, 1}, wait_queue : Seq(Int)] /\ QueueExact' /\ KpuExclusive'
    BY <1>3, StartStep, GrantedStep, DoneStep, Zenon
  <2>2. Thread(k)
    BY <1>3 DEF ThreadStart, ThreadGranted, ThreadDone
  <2>3. TypeOK'
    BY <1>3, <2>1, <2>2, ThreadType DEF IInv, TypeOK, Thread
  <2>4. CheckHasCaller'
    BY <2>2 DEF IInv, CheckHasCaller, Thread
  <2>5. QED
    BY <2>1, <2>3, <2>4 DEF IInv
<1>4. ASSUME UNCHANGED vars PROVE IInv'
  BY <1>4 DEF IInv, TypeOK, QueueExact, CheckHasCaller, KpuExclusive, Holders, vars
<1>5. QED
  BY <1>1, <1>2, <1>3, <1>4, NextCases, Zenon

LEMMA Invariance == Spec => []IInv
  BY InitIInv, InvStep, PTL DEF Spec

(* run_kpu: one thread has the KPU at a time, however many callers and     *)
(* tasks there are; the semaphore is free when and only when nobody has    *)
(* it, and nobody queues for a free KPU.                                   *)
THEOREM KpuIsExclusive == Spec => []KpuExclusive
<1>1. IInv => KpuExclusive
  BY DEF IInv
<1>2. QED
  BY <1>1, Invariance, PTL

-----------------------------------------------------------------------------
(* The status that a caller reads.                                         *)

LEMMA OwnInit == Init => OwnInv
  BY DEF Init, OwnInv, Reading

(* Whoever comes to the device crosses the readers that wait there.        *)
LEMMA CrossesReaders ==
  ASSUME NEW q \in Callers, Crosses(q), NEW p \in Callers, p # q, pc[p] = "check"
  PROVE  p \in crossed'
  BY DEF Crosses, UnderWay

LEMMA OwnStep == IInv /\ OwnInv /\ [Next]_vars => OwnInv'
<1> SUFFICES ASSUME IInv, OwnInv, [Next]_vars, NEW p \in Callers,
                    pc'[p] = "check", p \notin killed', ~ panicked', p \notin crossed'
             PROVE  Reading(p)'
  BY DEF OwnInv, Reading
<1>1. Reading(p)
  BY DEF OwnInv
<1>2. /\ kpu_task_ctrl_proc # p /\ caller_pid \in Callers \cup {NULL}
      /\ pc \in [Callers -> {"user", "add", "check", "exited"}]
      /\ result \in [status : Status, for : Callers \cup {NULL}, freed : BOOLEAN]
  BY KpuAssumption DEF IInv, TypeOK
<1> USE DEF task_vars, Back, InUser, Handover, Reading
<1>3. ASSUME NEW q \in Callers, NEW first \in BOOLEAN, NEW got \in {"nothing", "part", "whole"},
             Write(q, first, got)
      PROVE  FALSE
  <2>1. Crosses(q) /\ killed' = killed
    BY <1>3 DEF Write
  <2>2. pc'[q] # "check"
    BY <1>2, <1>3 DEF Write
  <2>3. p # q /\ pc[p] = "check"
    <3>1. p # q
      BY <2>2
    <3>2. pc'[p] = pc[p]
      BY <1>2, <1>3, <3>1 DEF Write
    <3>3. QED
      BY <3>1, <3>2
  <2>4. QED
    BY <2>1, <2>3, CrossesReaders
<1>4. ASSUME NEW q \in Callers, Read(q)
      PROVE  Reading(p)'
  <2>1. p = q
    <3>1. SUFFICES ASSUME p # q PROVE FALSE
      OBVIOUS
    <3>2. pc[p] = "check" /\ Crosses(q)
      BY <1>2, <1>4, <3>1 DEF Read
    <3>3. QED
      BY <3>1, <3>2, CrossesReaders
  <2>2. QED
    BY <1>2, <1>4, <2>1 DEF Read
<1>5. ASSUME NEW q \in Callers, WriteReturn(q) \/ ReadReturn(q)
      PROVE  FALSE
  <2>1. Crosses(q) /\ pc'[q] # "check"
    BY <1>2, <1>5 DEF WriteReturn, ReadReturn
  <2>2. p # q /\ pc[p] = "check"
    BY <1>2, <1>5, <2>1 DEF WriteReturn, ReadReturn
  <2>3. QED
    BY <2>1, <2>2, CrossesReaders
<1>6. ASSUME NEW q \in Callers, Exit(q)
      PROVE  Reading(p)'
  BY <1>1, <1>2, <1>6 DEF Exit
<1>7. ASSUME NEW q \in KillTargets, Kill(q)
      PROVE  Reading(p)'
  BY <1>1, <1>2, <1>7 DEF Kill
<1>8. ASSUME CtrlAdd
      PROVE  Reading(p)'
  <2>1. UNCHANGED <<pc, killed, kpuio_init, kpuio_check, caller_pid, result, crossed>>
        /\ kpuio_init /\ WakeCaller
    BY <1>8 DEF CtrlAdd
  <2>2. p \in runnable /\ caller_pid = p /\ result.for = p /\ ~ result.freed
    BY <1>1, <1>8, <2>1 DEF CtrlAdd, Woken
  <2>3. p \in runnable'
    BY <1>2, <2>1, <2>2 DEF WakeCaller
  <2>4. QED
    BY <2>1, <2>2, <2>3
<1>9. ASSUME CtrlCheck
      PROVE  Reading(p)'
  <2>1. UNCHANGED <<pc, killed, kpuio_init, kpuio_check, caller_pid, crossed>> /\ WakeCaller
        /\ \E status : result' = [result EXCEPT !.status = status, !.for = caller_pid]
    BY <1>9 DEF CtrlCheck
  <2>2. caller_pid = p /\ ~ result.freed
    BY <1>1, <1>9, <2>1 DEF CtrlCheck, Woken
  <2>3. p \in runnable'
    BY <1>2, <2>1, <2>2 DEF WakeCaller
  <2>4. result'.for = p /\ result'.freed = result.freed
    BY <1>2, <2>1, <2>2
  <2>5. QED
    BY <2>1, <2>2, <2>3, <2>4
<1>10. ASSUME CtrlSleep
       PROVE  Reading(p)'
  BY <1>1, <1>2, <1>10 DEF CtrlSleep
<1>11. ASSUME NEW k \in 1..Len(threads), ThreadStart(k) \/ ThreadGranted(k) \/ ThreadDone(k)
       PROVE  Reading(p)'
  <2>1. Thread(k)
    BY <1>11 DEF ThreadStart, ThreadGranted, ThreadDone
  <2>2. QED
    BY <1>1, <2>1 DEF Thread
<1>12. ASSUME UNCHANGED vars
       PROVE  Reading(p)'
  BY <1>1, <1>12 DEF vars
<1> HIDE DEF Reading
<1>13. QED
  BY <1>3, <1>4, <1>5, <1>6, <1>7, <1>8, <1>9, <1>10, <1>11, <1>12, NextCases, Zenon

(* Only the return of his read takes a reader back to user mode.           *)
LEMMA OnlyReadReturns ==
  ASSUME IInv, [Next]_vars, NEW p \in Callers, pc[p] = "check", pc'[p] = "user"
  PROVE  ReadReturn(p)
<1>1. pc \in [Callers -> {"user", "add", "check", "exited"}]
  BY DEF IInv, TypeOK
<1>2. ASSUME NEW q \in Callers, ReadReturn(q) PROVE q = p
  BY <1>1, <1>2 DEF ReadReturn, Back
<1>3. ASSUME NEW q \in Callers, WriteReturn(q) PROVE FALSE
  BY <1>1, <1>3 DEF WriteReturn, Back
<1>4. ASSUME NEW q \in Callers,
             \/ \E first \in BOOLEAN, got \in {"nothing", "part", "whole"} : Write(q, first, got)
             \/ Read(q) \/ Exit(q)
      PROVE  FALSE
  <2>1. pc[q] = "user"
    BY <1>4 DEF Write, Read, Exit, InUser
  <2>2. p # q
    BY <2>1
  <2>3. pc'[p] = pc[p]
    BY <1>1, <1>4, <2>2 DEF Write, Read, Exit, Back
  <2>4. QED
    BY <2>3
<1>5. ASSUME \/ \E q \in KillTargets : Kill(q)
             \/ CtrlAdd \/ CtrlCheck \/ CtrlSleep
             \/ \E k \in 1..Len(threads) : ThreadStart(k) \/ ThreadGranted(k) \/ ThreadDone(k)
             \/ UNCHANGED vars
      PROVE  pc' = pc
  BY <1>5, Zenon DEF Kill, CtrlAdd, CtrlCheck, CtrlSleep, ThreadStart, ThreadGranted, ThreadDone, Thread, vars
<1>6. "check" # "user"
  OBVIOUS
<1>7. QED
  BY <1>2, <1>3, <1>4, <1>5, <1>6, NextCases, Zenon

LEMMA OwnReturn ==
  IInv /\ OwnInv /\ [Next]_vars =>
    \A p \in Callers \ crossed : pc[p] = "check" /\ pc'[p] = "user" => Seen = p
<1> SUFFICES ASSUME IInv, OwnInv, [Next]_vars,
                    NEW p \in Callers \ crossed, pc[p] = "check", pc'[p] = "user"
             PROVE  Seen = p
  OBVIOUS
<1>1. ReadReturn(p)
  BY OnlyReadReturns
<1>2. p \notin killed /\ ~ panicked /\ p \in runnable
  BY <1>1 DEF ReadReturn, Back, IInv, TypeOK
<1>3. QED
  BY <1>2 DEF OwnInv, Reading, Seen

(* kpuresultbase: whatever the other processes, do_kill, the controller    *)
(* and the threads do, the status that reaches a program is its own, from  *)
(* a buffer that was not freed, unless another process came to the device  *)
(* between the request and its return.                                     *)
THEOREM OwnStatus == Spec => StatusIsOwn
<1>1. IInv /\ OwnInv /\ [Next]_vars =>
        [\A p \in Callers \ crossed : pc[p] = "check" /\ pc'[p] = "user" => Seen = p]_vars
  BY OwnReturn
<1>2. QED
  BY <1>1, OwnInit, OwnStep, Invariance, PTL DEF Spec, StatusIsOwn

-----------------------------------------------------------------------------
(* The ids.                                                                *)

(* Counting modulo M.                                                      *)
LEMMA ModNext ==
  ASSUME NEW M \in Nat \ {0}, NEW n \in Nat
  PROVE  /\ n % M \in 0..(M - 1)
         /\ ((n % M) + 1) % M = (n + 1) % M
         /\ n \in 0..(M - 1) => n % M = n
         /\ M % M = 0
<1> DEFINE d == n \div M
           m == n % M
<1>1. d \in Int /\ m \in 0..(M - 1) /\ n = M * d + m
  OBVIOUS
<1> HIDE DEF d, m
<1>2. ASSUME NEW a \in Int, NEW b \in 0..(M - 1) PROVE (M * a + b) % M = b
  <2> DEFINE e == (M * a + b) \div M
             c == (M * a + b) % M
  <2>1. M * a + b \in Int
    OBVIOUS
  <2>2. e \in Int /\ c \in 0..(M - 1) /\ M * a + b = M * e + c
    BY <2>1
  <2> HIDE DEF e, c
  <2>3. M * (a - e) = c - b
    BY <2>2
  <2>4. a - e < 1
    <3>1. SUFFICES ASSUME a - e >= 1 PROVE FALSE
      BY <2>2
    <3>2. M * (a - e) >= M
      BY <2>2, <3>1
    <3>3. QED
      BY <2>2, <2>3, <3>2
  <2>5. e - a < 1
    <3>1. SUFFICES ASSUME e - a >= 1 PROVE FALSE
      BY <2>2
    <3>2. M * (e - a) >= M
      BY <2>2, <3>1
    <3>3. M * (e - a) = b - c
      BY <2>2
    <3>4. QED
      BY <2>2, <3>2, <3>3
  <2>6. e = a
    BY <2>2, <2>4, <2>5
  <2>7. c = b
    BY <2>2, <2>6
  <2>8. QED
    BY <2>7 DEF c
<1>3. ASSUME NEW b \in 0..(M - 1) PROVE b % M = b
  <2>1. (M * 0 + b) % M = b
    BY <1>2
  <2>2. M * 0 + b = b
    OBVIOUS
  <2>3. QED
    BY <2>1, <2>2
<1>4. M % M = 0
  <2>1. (M * 1 + 0) % M = 0
    BY <1>2
  <2>2. M * 1 + 0 = M
    OBVIOUS
  <2>3. QED
    BY <2>1, <2>2
<1>5. (m + 1) % M = (n + 1) % M
  <2>1. CASE m + 1 < M
    <3>1. (m + 1) % M = m + 1
      BY <1>1, <1>3, <2>1
    <3>2. (M * d + (m + 1)) % M = m + 1
      BY <1>1, <1>2, <2>1
    <3>3. M * d + (m + 1) = n + 1
      BY <1>1
    <3>4. QED
      BY <3>1, <3>2, <3>3
  <2>2. CASE m + 1 = M
    <3>1. (m + 1) % M = 0
      BY <1>4, <2>2
    <3>2. (M * (d + 1) + 0) % M = 0
      BY <1>1, <1>2
    <3>3. M * (d + 1) + 0 = n + 1
      BY <1>1, <2>2
    <3>4. QED
      BY <3>1, <3>2, <3>3
  <2>3. QED
    BY <1>1, <2>1, <2>2
<1>6. QED
  BY <1>1, <1>3, <1>4, <1>5 DEF m

LEMMA IdInit == Init => IdInv
  BY KpuAssumption, ModNext DEF Init, IdInv

(* add_kpu_task appends a task with the next id, and a thread made with it *)
(* gets the first task with that id, which is one of the first MAX_TASKNUM.*)
LEMMA AddTaskId ==
  ASSUME IInv, IdInv, AddTask, caller_pid \in Callers
  PROVE  /\ IdInv'
         /\ \/ threads' = threads
            \/ \E t \in 1..MAX_TASKNUM :
                 /\ t % MAX_TASKNUM = Len(kpu_tasklist') % MAX_TASKNUM
                 /\ threads' = Append(threads, [task |-> t, at |-> "start"])
<1> DEFINE n == Len(kpu_tasklist)
<1>1. PICK running, success \in BOOLEAN :
        LET new == [id |-> alloc_id, proc |-> caller_pid, running |-> running,
                    success |-> success]
            tl == Append(kpu_tasklist, new)
        IN /\ kpu_tasklist' = tl
           /\ maxid' = alloc_id
           /\ \/ threads' = Append(threads, [task |-> TaskToRun(tl, alloc_id), at |-> "start"])
              \/ UNCHANGED threads
  BY DEF AddTask
<1> DEFINE new == [id |-> alloc_id, proc |-> caller_pid, running |-> running, success |-> success]
           tl == Append(kpu_tasklist, new)
           t == TaskToRun(tl, alloc_id)
           id(i) == i % MAX_TASKNUM
<1>2. /\ n \in Nat /\ maxid = id(n) /\ kpu_tasklist \in Seq(Task)
      /\ \A i \in 1..n : kpu_tasklist[i].id = id(i)
  BY DEF IInv, TypeOK, IdInv
<1>3. alloc_id = id(n + 1)
  BY <1>2, KpuAssumption, ModNext DEF alloc_id
<1>4. /\ \A i \in Nat : id(i) \in 0..(MAX_TASKNUM - 1) /\ (i < MAX_TASKNUM => id(i) = i)
      /\ id(MAX_TASKNUM) = 0 /\ MAX_TASKNUM \in Nat \ {0}
  <2>1. MAX_TASKNUM \in Nat \ {0}
    BY KpuAssumption
  <2>2. ASSUME NEW i \in Nat
        PROVE  id(i) \in 0..(MAX_TASKNUM - 1) /\ (i < MAX_TASKNUM => id(i) = i)
    <3>1. i % MAX_TASKNUM \in 0..(MAX_TASKNUM - 1)
      BY <2>1, ModNext
    <3>2. ASSUME i < MAX_TASKNUM PROVE i % MAX_TASKNUM = i
      <4>1. i \in 0..(MAX_TASKNUM - 1)
        BY <2>1, <3>2
      <4>2. QED
        BY <2>1, <4>1, ModNext
    <3>3. QED
      BY <3>1, <3>2
  <2>3. id(MAX_TASKNUM) = 0
    BY <2>1, ModNext
  <2> HIDE DEF id
  <2>4. QED
    BY <2>1, <2>2, <2>3
<1> HIDE DEF id
<1>5. new \in Task /\ new.id = id(n + 1)
  BY <1>2, <1>3, <1>4 DEF Task
<1> HIDE DEF new
<1>6. tl \in Seq(Task) /\ Len(tl) = n + 1 /\ tl[n + 1] = new /\ \A i \in 1..n : tl[i] = kpu_tasklist[i]
  BY <1>2, <1>5
<1> HIDE DEF tl
<1>7. \A i \in 1..(n + 1) : tl[i].id = id(i)
  BY <1>2, <1>5, <1>6
<1>8. t \in 1..(n + 1) /\ tl[t].id = alloc_id /\ \A j \in 1..(t - 1) : tl[j].id # alloc_id
  <2>1. \E i \in 1..Len(tl) : tl[i].id = alloc_id
    BY <1>2, <1>3, <1>6, <1>7
  <2>2. QED
    BY <2>1, <1>6, TaskToRunFirst
<1> HIDE DEF t
<1>9. id(t) = id(n + 1)
  BY <1>3, <1>7, <1>8
<1>10. t <= MAX_TASKNUM
  <2>1. SUFFICES ASSUME t > MAX_TASKNUM PROVE FALSE
    BY <1>4, <1>8
  <2>2. PICK j \in 1..MAX_TASKNUM : id(j) = id(n + 1)
    <3>1. CASE id(n + 1) = 0
      BY <1>4, <3>1
    <3>2. CASE id(n + 1) # 0
      <4>1. id(n + 1) \in 1..MAX_TASKNUM /\ id(n + 1) < MAX_TASKNUM
        BY <1>2, <1>4, <3>2
      <4>2. id(id(n + 1)) = id(n + 1)
        BY <1>4, <4>1
      <4>3. QED
        BY <4>1, <4>2
    <3>3. QED
      BY <3>1, <3>2
  <2>3. j \in 1..(t - 1) /\ j \in 1..(n + 1)
    BY <1>2, <1>4, <1>8, <2>1, <2>2
  <2>4. tl[j].id = id(n + 1)
    BY <1>7, <2>2, <2>3
  <2>5. QED
    BY <1>3, <1>8, <2>3, <2>4
<1>11. kpu_tasklist' = tl /\ maxid' = alloc_id
       /\ (threads' = threads \/ threads' = Append(threads, [task |-> t, at |-> "start"]))
  BY <1>1, Zenon DEF new, tl, t
<1>12. IdInv'
  <2>1. maxid' = id(n + 1) /\ Len(kpu_tasklist') = n + 1
    BY <1>3, <1>6, <1>11
  <2>2. \A i \in 1..(n + 1) : kpu_tasklist'[i].id = id(i)
    BY <1>7, <1>11
  <2>3. QED
    <3>1. maxid' = Len(kpu_tasklist') % MAX_TASKNUM
      BY <2>1 DEF id
    <3>2. \A i \in 1..Len(kpu_tasklist') : kpu_tasklist'[i].id = i % MAX_TASKNUM
      <4> DEFINE m == Len(kpu_tasklist')
      <4>1. m = n + 1
        BY <2>1
      <4>2. \A i \in 1..m : kpu_tasklist'[i].id = id(i)
        BY <2>2, <4>1, Zenon
      <4>3. QED
        BY <4>2, Zenon DEF id
    <3>3. QED
      BY <3>1, <3>2, Zenon DEF IdInv
<1>13. t \in 1..MAX_TASKNUM /\ t % MAX_TASKNUM = Len(kpu_tasklist') % MAX_TASKNUM
  <2>1. t \in 1..MAX_TASKNUM
    BY <1>2, <1>4, <1>8, <1>10
  <2>2. Len(kpu_tasklist') = n + 1
    BY <1>6, <1>11
  <2>3. id(t) = id(Len(kpu_tasklist'))
    BY <1>9, <2>2
  <2>4. QED
    BY <2>1, <2>3 DEF id
<1>14. QED
  BY <1>11, <1>12, <1>13

(* Only the controller adds tasks and threads.                             *)
LEMMA OnlyCtrlAdds ==
  ASSUME IInv, [Next]_vars
  PROVE  \/ CtrlAdd /\ AddTask /\ caller_pid \in Callers
         \/ UNCHANGED <<kpu_tasklist, maxid, threads>>
         \/ \E k \in 1..Len(threads) : ThreadStart(k) \/ ThreadGranted(k) \/ ThreadDone(k)
<1>1. CtrlAdd => caller_pid \in Callers /\ (AddTask \/ UNCHANGED <<kpu_tasklist, maxid, threads>>)
  BY DEF CtrlAdd, IInv, TypeOK
<1>2. QED
  BY <1>1, NextCases, Zenon DEF vars, Write, Read, Exit, WriteReturn, ReadReturn, Kill, CtrlCheck,
                         CtrlSleep, task_vars

LEMMA IdStep == IInv /\ IdInv /\ [Next]_vars => IdInv'
<1> SUFFICES ASSUME IInv, IdInv, [Next]_vars PROVE IdInv'
  OBVIOUS
<1>1. CASE AddTask /\ caller_pid \in Callers
  BY <1>1, AddTaskId
<1>2. CASE UNCHANGED <<kpu_tasklist, maxid, threads>>
  BY <1>2 DEF IdInv
<1>3. CASE \E k \in 1..Len(threads) : ThreadStart(k) \/ ThreadGranted(k) \/ ThreadDone(k)
  <2>1. /\ Len(kpu_tasklist') = Len(kpu_tasklist)
        /\ \A i \in 1..Len(kpu_tasklist) : kpu_tasklist'[i].id = kpu_tasklist[i].id
    BY <1>3, ThreadType
  <2>2. maxid' = maxid
    BY <1>3 DEF ThreadStart, ThreadGranted, ThreadDone, Thread
  <2>3. QED
    BY <2>1, <2>2 DEF IdInv
<1>4. QED
  BY <1>1, <1>2, <1>3, OnlyCtrlAdds, Zenon

(* What a step does to the threads.                                        *)
LEMMA NewThread ==
  IInv /\ IdInv /\ [Next]_vars =>
    (Len(threads') > Len(threads) =>
       LET new == Len(kpu_tasklist')
           t == threads'[Len(threads')].task
       IN t \in 1..MAX_TASKNUM /\ t % MAX_TASKNUM = new % MAX_TASKNUM)
<1> SUFFICES ASSUME IInv, IdInv, [Next]_vars, Len(threads') > Len(threads)
             PROVE  LET t == threads'[Len(threads')].task
                    IN /\ t \in 1..MAX_TASKNUM
                       /\ t % MAX_TASKNUM = Len(kpu_tasklist') % MAX_TASKNUM
  OBVIOUS
<1>1. threads \in Seq(Worker) /\ Len(threads) \in Nat
  BY DEF IInv, TypeOK
<1>2. threads' # threads
  BY <1>1
<1>3. CASE AddTask /\ caller_pid \in Callers
  <2>1. PICK t \in 1..MAX_TASKNUM :
          /\ t % MAX_TASKNUM = Len(kpu_tasklist') % MAX_TASKNUM
          /\ threads' = Append(threads, [task |-> t, at |-> "start"])
    BY <1>2, <1>3, AddTaskId
  <2>2. threads'[Len(threads')].task = t
    BY <1>1, <2>1
  <2>3. QED
    BY <2>1, <2>2
<1>4. ASSUME NEW k \in 1..Len(threads), ThreadStart(k) \/ ThreadGranted(k) \/ ThreadDone(k)
      PROVE  FALSE
  BY <1>1, <1>4, ThreadType
<1>5. QED
  BY <1>2, <1>3, <1>4, OnlyCtrlAdds, Zenon

(* try_run_task: however many tasks there are, a new thread runs that of   *)
(* the first MAX_TASKNUM tasks that has the id of the task just added,     *)
(* which is the task just added as long as there are no more than that.    *)
THEOREM NewThreadTask == Spec => ThreadTask
<1>1. IInv /\ IdInv /\ [Next]_vars =>
        [Len(threads') > Len(threads) =>
           LET new == Len(kpu_tasklist')
               t == threads'[Len(threads')].task
           IN t \in 1..MAX_TASKNUM /\ t % MAX_TASKNUM = new % MAX_TASKNUM]_vars
  BY NewThread
<1>2. QED
  BY <1>1, IdInit, IdStep, Invariance, PTL DEF Spec, ThreadTask
=============================================================================
