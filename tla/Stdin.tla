------------------------------- MODULE Stdin -------------------------------
(***************************************************************************)
(* Console input: the ring of dev_stdin.c and its wait queue, as a record  *)
(* k.  The interrupt dev_intr stores a key; a reader takes what is there   *)
(* and sleeps for the rest; the timer interrupt's input_wakeup wakes all   *)
(* readers.  Keys are numbered in the order they are pressed.              *)
(***************************************************************************)
EXTENDS Integers

CONSTANT STDIN_BUFSIZE

\* stdin_device_init; overrun records that a key was stored over an unread one
stdin_device_init == [buf |-> [i \in 0..STDIN_BUFSIZE-1 |-> 0], rpos |-> 0, wpos |-> 0,
                      queue |-> {}, pressed |-> 0, overrun |-> FALSE]

\* the slot a key goes to
WriteSlot_FromReader(k) == k.rpos % STDIN_BUFSIZE

WriteSlot(k) == k.wpos % STDIN_BUFSIZE

HasRoom(k) == k.wpos - k.rpos < STDIN_BUFSIZE

\* dev_stdin_write: the key is stored in any case, the position moves if there is room
dev_stdin_write(k) ==
    [k EXCEPT !.buf[WriteSlot(k)] = k.pressed + 1,
              !.pressed = @ + 1,
              !.wpos = IF HasRoom(k) THEN @ + 1 ELSE @,
              !.overrun = @ \/ k.wpos - k.rpos = STDIN_BUFSIZE]

Available(k) == k.wpos - k.rpos

\* the loop of dev_stdin_read up to its end or its next sleep: n keys are wanted
Taken(k, n) == IF n <= Available(k) THEN n ELSE Available(k)
dev_stdin_read(k, n) == [k EXCEPT !.rpos = @ + Taken(k, n)]

\* input_wakeup: whom the timer interrupt wakes
Woken_WhenFull(k) == IF ~HasRoom(k) THEN k.queue ELSE {}

Woken(k) == IF k.rpos < k.wpos THEN k.queue ELSE {}
input_wakeup(k) == [k EXCEPT !.queue = @ \ Woken(k)]
=============================================================================
