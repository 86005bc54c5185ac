--------------------------------- MODULE Sem ---------------------------------
(***************************************************************************)
(* Semaphores and the wait queues under them: kern/sync/sem.c and          *)
(* kern/sync/wait.c.  A semaphore is its value and the threads queued on   *)
(* it, first come first served.  up() hands the token to the first waiter  *)
(* and takes it off the queue (wakeup_wait with del set), so a woken       *)
(* thread does not test the value again.  WT_KSEM lacks WT_INTERRUPTED: a  *)
(* kill does not touch a waiter.                                           *)
(***************************************************************************)
EXTENDS Integers, Sequences

(* sem_init. *)
SemInit(v) == [value |-> v, queue |-> <<>>]

Up_Doubles(m, s) == [m EXCEPT ![s].value = @ + 1,
                              ![s].queue = IF @ = <<>> THEN @ ELSE Tail(@)]
(* up on the semaphore s of the collection m.                              *)
Up(m, s) ==
  IF m[s].queue = <<>>
  THEN [m EXCEPT ![s].value = @ + 1]
  ELSE [m EXCEPT ![s].queue = Tail(@)]

(* down by thread t: it takes a token or queues itself and sleeps.         *)
Down(m, s, t) ==
  IF m[s].value > 0
  THEN [m EXCEPT ![s].value = @ - 1]
  ELSE [m EXCEPT ![s].queue = Append(@, t)]

(* Whether the down sleeps.                                                *)
Blocks(m, s) == m[s].value <= 0

(* The threads on a queue.                                                 *)
Waiters(m, s) == {m[s].queue[k] : k \in DOMAIN m[s].queue}
=============================================================================
