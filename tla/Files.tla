------------------------------- MODULE Files -------------------------------
(***************************************************************************)
(* The open files of the processes: file.c, fs.c and sysfile.c on top of   *)
(* the counts of Vfs and the console of Stdin, with what fork, exec, exit  *)
(* and kill do to them.  A system call is one action, because the kernel   *)
(* is not preemptive.  A read from the console can sleep inside one; a read *)
(* or a write of kpuio sleeps too and is one step here: what goes on in it  *)
(* is KpuSpool's, and the caller's descriptor stays open meanwhile.         *)
(* File positions and contents are those of Sfs.                           *)
(***************************************************************************)
EXTENDS Vfs, Stdin, FiniteSets, FiniteSetsExt

CONSTANTS Procs,         \* the processes, one of which init starts as user_main
          NENTRY,        \* FILES_STRUCT_NENTRY
          OpenPaths,     \* the paths, access modes and options of an open
          OpenAccess,
          OpenOptions,
          MaxRead,       \* bytes asked for in a read from the console, at most
          MaxKeys,       \* keys pressed
          MaxOpen,       \* descriptors open at a time, in all processes
          MaxLost        \* references lost, after which no more are lost

ASSUME FilesAssumption ==
    /\ IsFiniteSet(Procs) /\ Procs # {}
    /\ NENTRY \in Nat \ {0} /\ STDIN_BUFSIZE \in Nat \ {0} /\ MaxRead \in Nat \ {0}
    /\ OpenPaths \subseteq Paths /\ OpenAccess \subseteq Access
    /\ OpenOptions \subseteq SUBSET Options

VARIABLES vfs,     \* counts, devices, bootfs_node; vfs.panic: the kernel has stopped
          pwd,     \* pwd[p]: current directory of p's files_struct; init's is under "init"
          fds,     \* fds[p][fd]: status, mode, inode and open_count of a descriptor
          pstate,  \* none, kthread (no address space), user, asleep or woken in a read
          read,    \* the descriptor and the bytes left of a console read
          wflag,   \* wakeup_flags of the reader's wait_t
          killed,  \* PF_EXITING
          kbd,     \* the console of Stdin
          lost     \* lost[n]: references to n that no pointer accounts for any more

vars == <<vfs, pwd, fds, pstate, read, wflag, killed, kbd, lost>>

Fds == 0..NENTRY-1
Free == [status |-> "NONE", readable |-> FALSE, writable |-> FALSE, node |-> NULL, open_count |-> 0]
NoRead == [fd |-> 0, left |-> 0]
fd_array_init == [f \in Fds |-> Free]
Modes(acc) == [readable |-> acc # "WRONLY", writable |-> acc # "RDONLY"]

user_main == CHOOSE p \in Procs : TRUE

\* init_main has set the boot file system and started user_main with a copy of its files
BootVfs == inode_ref_inc(Booted.v, Booted.pwd)
BootState == [p \in Procs |-> IF p = user_main THEN "kthread" ELSE "none"]
BootPwd == [p \in Procs |-> IF p = user_main THEN Booted.pwd ELSE NULL]
All(x) == [p \in Procs |-> x]
NoneLost == [n \in Nodes |-> 0]

Init == /\ vfs = BootVfs
        /\ pwd = BootPwd
        /\ fds = All(fd_array_init)
        /\ pstate = BootState
        /\ read = All(NoRead)
        /\ wflag = All("INTERRUPTED")
        /\ killed = All(FALSE)
        /\ kbd = stdin_device_init
        /\ lost = NoneLost

Running == ~vfs.panic

\* an assertion fails or the kernel loops with interrupts off: the machine has stopped
\* for good, and what was in its memory no longer matters
Dies == /\ vfs' = [BootVfs EXCEPT !.panic = TRUE]
        /\ pwd' = BootPwd /\ fds' = All(fd_array_init) /\ pstate' = BootState
        /\ read' = All(NoRead) /\ wflag' = All("INTERRUPTED") /\ killed' = All(FALSE)
        /\ kbd' = stdin_device_init /\ lost' = NoneLost

TotalLost == MapThenSumSet(LAMBDA n : lost[n], Nodes)

\* bounds: references are lost before the first key, keys pressed if none is lost
MayLose == TotalLost < MaxLost /\ kbd.pressed = 0
MayPress == TotalLost = 0 /\ kbd.pressed < MaxKeys
OpenFds(p) == {f \in Fds : fds[p][f].status = "OPENED"}
RoomFor(n) == MapThenSumSet(LAMBDA p : Cardinality(OpenFds(p)), Procs) + n <= MaxOpen

-----------------------------------------------------------------------------
(* fd_array_*: t is the table of one process *)

\* fd_array_alloc with NO_FD
fd_array_alloc(t) == {f \in Fds : t[f].status = "NONE" /\ \A g \in 0..f-1 : t[g].status # "NONE"}

\* fd_array_free, reached from fd_array_close and fd_array_release at open_count 0
fd_array_free(v, e) == IF e.status = "CLOSED" THEN vfs_close(v, e.node) ELSE v

\* fd_array_release: an entry closed meanwhile goes with its last user; [v, e]
fd_array_release(v, e) ==
    LET d == [e EXCEPT !.open_count = @ - 1]
    IN  IF d.open_count = 0 THEN [v |-> fd_array_free(v, d), e |-> Free] ELSE [v |-> v, e |-> d]

\* fd_array_close
fd_array_close(v, e) == fd_array_release(v, [e EXCEPT !.status = "CLOSED"])

\* the descriptors in fs, closed one after the other; [v, t]
CloseAll(v, t, fs) ==
    LET open == {f \in fs : t[f].status = "OPENED"}
    IN  [v |-> FoldSet(LAMBDA f, w : fd_array_close(w, t[f]).v, v, open),
         t |-> [f \in Fds |-> IF f \in open THEN fd_array_close(v, t[f]).e ELSE t[f]]]

\* fd_array_dup into a new entry: the inode is referenced and open once more
fd_array_dup_RefOnly(v, e) == inode_ref_inc(v, e.node)

fd_array_dup(v, e) == inode_open_inc(inode_ref_inc(v, e.node), e.node)

Opened(n, acc) == [status |-> "OPENED", readable |-> Modes(acc).readable,
                   writable |-> Modes(acc).writable, node |-> n, open_count |-> 1]

-----------------------------------------------------------------------------
(* the end of a process *)

\* files_destroy: the current directory is let go, then every descriptor
files_destroy(v, d, t) ==
    CloseAll(IF d = NULL THEN v ELSE inode_ref_dec(v, d), t, Fds).v

Held(d, t) == [n \in Nodes |-> Cardinality({f \in Fds : t[f].node = n}) + (IF d = n THEN 1 ELSE 0)]

\* do_exit calls put_files only if there is an address space; else what the
\* files_struct holds is lost
PutsFiles(mm) == mm

Gone(p, v, t, mm) ==
    /\ vfs' = IF PutsFiles(mm) THEN files_destroy(v, pwd[p], t) ELSE v
    /\ lost' = IF PutsFiles(mm) THEN lost ELSE [n \in Nodes |-> lost[n] + Held(pwd[p], t)[n]]
    /\ fds' = [fds EXCEPT ![p] = fd_array_init]
    /\ pwd' = [pwd EXCEPT ![p] = NULL]
    /\ pstate' = [pstate EXCEPT ![p] = "none"]
    /\ read' = [read EXCEPT ![p] = NoRead]
    /\ killed' = [killed EXCEPT ![p] = FALSE]
    /\ wflag' = [wflag EXCEPT ![p] = "INTERRUPTED"]

\* do_exit called by the program, or by trap() for a process that was killed
Exit(p) == /\ Running /\ pstate[p] = "user"
           /\ Gone(p, vfs, fds[p], TRUE)
           /\ UNCHANGED kbd

-----------------------------------------------------------------------------
(* system calls on descriptors *)

\* file_open
Open(p, path, acc, opts) ==
    /\ Running /\ pstate[p] = "user" /\ RoomFor(1)
    /\ \E f \in fd_array_alloc(fds[p]) :
        \E o \in {vfs_open(vfs, pwd[p], path, acc, opts)}, n \in {LostByOpen(vfs, pwd[p], path, acc, opts)} :
            /\ n # NULL => MayLose
            /\ \/ o.st = "panic" /\ Dies
               \/ /\ o.st # "panic"
                  /\ vfs' = o.v
                  /\ fds' = IF o.st = "ok" THEN [fds EXCEPT ![p][f] = Opened(o.node, acc)] ELSE fds
                  /\ lost' = IF n = NULL THEN lost ELSE [lost EXCEPT ![n] = @ + 1]
                  /\ UNCHANGED <<pwd, pstate, read, wflag, killed, kbd>>

\* file_close
Close(p, f) ==
    /\ Running /\ pstate[p] = "user"
    /\ fds[p][f].status = "OPENED"
    /\ LET c == fd_array_close(vfs, fds[p][f])
       IN  vfs' = c.v /\ fds' = [fds EXCEPT ![p][f] = c.e]
    /\ UNCHANGED <<pwd, pstate, read, wflag, killed, kbd, lost>>

\* file_dup to a given descriptor; one that is in use is refused
Dup(p, f, g) ==
    /\ Running /\ pstate[p] = "user" /\ RoomFor(1)
    /\ fds[p][f].status = "OPENED" /\ fds[p][g].status = "NONE"
    /\ vfs' = fd_array_dup(vfs, fds[p][f])
    /\ fds' = [fds EXCEPT ![p][g] = fds[p][f]]
    /\ UNCHANGED <<pwd, pstate, read, wflag, killed, kbd, lost>>

\* file_seek, file_fstat, file_fsync and file_getdirentry, and file_read except from
\* the console: nothing changes here, but an operation that is not in the inode's
\* table fails an assertion
Calls == {"tryseek", "fstat", "fsync", "getdirentry", "read"}
Operate(p, f, op) ==
    /\ Running /\ pstate[p] = "user"
    /\ fds[p][f].status = "OPENED"
    /\ op = "read" => fds[p][f].readable /\ fds[p][f].node # "stdin"
    /\ IF op \in Ops(fds[p][f].node) THEN UNCHANGED vars ELSE Dies

\* sysfile_write only calls file_write for descriptors 1 and 2; for any other its
\* loop never ends, with interrupts off
Write(p, f) ==
    /\ Running /\ pstate[p] = "user"
    /\ fds[p][f].status = "OPENED" /\ fds[p][f].writable
    /\ IF f \in {1, 2} THEN UNCHANGED vars ELSE Dies

-----------------------------------------------------------------------------
(* reading from the console *)

\* the loop of dev_stdin_read with n bytes to go: it ends, or goes to sleep in the
\* queue (wait_current_set)
Sleeps(k, n) == Taken(k, n) < n
TakeOrSleep(p, f, n, k) ==
    /\ kbd' = [dev_stdin_read(k, n) EXCEPT !.queue = IF Sleeps(k, n) THEN @ \cup {p} ELSE @]
    /\ read' = [read EXCEPT ![p] = IF Sleeps(k, n) THEN [fd |-> f, left |-> n - Taken(k, n)] ELSE NoRead]
    /\ wflag' = [wflag EXCEPT ![p] = "INTERRUPTED"]
    /\ pstate' = [pstate EXCEPT ![p] = IF Sleeps(k, n) THEN "asleep" ELSE "user"]

\* fd_array_acquire
fd_array_acquire(e) == [e EXCEPT !.open_count = @ + 1]

\* file_read with fd_array_acquire and, when the read is over, fd_array_release
Read(p, f, n) ==
    /\ Running /\ pstate[p] = "user"
    /\ fds[p][f].status = "OPENED" /\ fds[p][f].node = "stdin"
    /\ TakeOrSleep(p, f, n, kbd)
    /\ fds' = IF Sleeps(kbd, n) THEN [fds EXCEPT ![p][f] = fd_array_acquire(@)] ELSE fds
    /\ UNCHANGED <<vfs, pwd, killed, lost>>

Released(p) == fd_array_release(vfs, fds[p][read[p].fd])

\* the test of wakeup_flags behind schedule(): only a wakeup by input lets it go on
TriesAgain_Always(p) == TRUE

TriesAgain(p) == wflag[p] = "KBD"

\* the reader runs again and leaves the queue
ReadAgain(p) ==
    LET k == [kbd EXCEPT !.queue = @ \ {p}]
    IN  /\ Running /\ pstate[p] = "woken" /\ TriesAgain(p)
        /\ Sleeps(k, read[p].left) \/ ~killed[p]
        /\ TakeOrSleep(p, read[p].fd, read[p].left, k)
        /\ IF Sleeps(k, read[p].left)
           THEN UNCHANGED <<vfs, fds>>
           ELSE vfs' = Released(p).v /\ fds' = [fds EXCEPT ![p][read[p].fd] = Released(p).e]
        /\ UNCHANGED <<pwd, killed, lost>>

\* it was killed: the read ends, the entry is released, and trap() calls do_exit
ReadKilled(p) ==
    /\ Running /\ pstate[p] = "woken" /\ killed[p]
    /\ LET k == [kbd EXCEPT !.queue = @ \ {p}]
       IN  \/ /\ ~TriesAgain(p)
              /\ kbd' = k
           \/ /\ TriesAgain(p) /\ ~Sleeps(k, read[p].left)
              /\ kbd' = dev_stdin_read(k, read[p].left)
    /\ Gone(p, Released(p).v, [fds[p] EXCEPT ![read[p].fd] = Released(p).e], TRUE)

\* dev_intr: a key is pressed
KeyPress == /\ Running /\ MayPress
            /\ kbd' = dev_stdin_write(kbd)
            /\ UNCHANGED <<vfs, pwd, fds, pstate, read, wflag, killed, lost>>

\* the timer interrupt; a reader it finds in the queue may have been woken by a kill
Tick == /\ Running /\ Woken(kbd) # {}
        /\ kbd' = input_wakeup(kbd)
        /\ wflag' = [p \in Procs |-> IF p \in Woken(kbd) THEN "KBD" ELSE wflag[p]]
        /\ pstate' = [p \in Procs |-> IF p \in Woken(kbd) THEN "woken" ELSE pstate[p]]
        /\ UNCHANGED <<vfs, pwd, fds, read, killed, lost>>

\* do_kill of a process that is asleep in a read; a second kill does nothing
Kill(p) == /\ Running /\ pstate[p] = "asleep" /\ ~killed[p]
           /\ killed' = [killed EXCEPT ![p] = TRUE]
           /\ pstate' = [pstate EXCEPT ![p] = "woken"]
           /\ UNCHANGED <<vfs, pwd, fds, read, wflag, kbd, lost>>

-----------------------------------------------------------------------------
(* fork and exec *)

\* copy_files: files_create and dup_files
dup_files(v, d, t) ==
    LET open == {f \in Fds : t[f].status = "OPENED"}
        w == IF d = NULL THEN v ELSE inode_ref_inc(v, d)
    IN  FoldSet(LAMBDA f, x : fd_array_dup(x, t[f]), w, open)

Fork(p, c) ==
    /\ Running /\ pstate[p] = "user" /\ pstate[c] = "none"
    /\ RoomFor(Cardinality(OpenFds(p)))
    /\ vfs' = dup_files(vfs, pwd[p], fds[p])
    /\ pwd' = [pwd EXCEPT ![c] = pwd[p]]
    /\ fds' = [fds EXCEPT ![c] = fds[p]]
    /\ pstate' = [pstate EXCEPT ![c] = "user"]
    /\ UNCHANGED <<read, wflag, killed, kbd, lost>>

\* do_execve: files_closeall from descriptor 2 on, then the program is opened.  A
\* failure before the address space is gone exits like any other; load_icode fails
\* without one, and has closed the program or not
Exec(p, path) ==
    /\ Running /\ pstate[p] \in {"user", "kthread"}
    /\ \E c \in {CloseAll(vfs, fds[p], {f \in Fds : f >= 2})} :
       \E o \in {vfs_open(c.v, pwd[p], path, "RDONLY", {})} :
       LET mm == pstate[p] = "user"
           fd == fd_array_alloc(c.t)
           f  == CHOOSE g \in fd : TRUE
           t  == [c.t EXCEPT ![f] = Opened(o.node, "RDONLY")]
       IN  \/ /\ fd = {} \/ o.st = "err"                          \* sysfile_open fails
              /\ mm \/ MayLose
              /\ Gone(p, IF fd = {} THEN c.v ELSE o.v, c.t, mm)
              /\ UNCHANGED kbd
           \/ /\ fd # {} /\ o.st = "ok"                           \* load_icode_read: sysfile_seek
              /\ "tryseek" \notin Ops(o.node)
              /\ Dies
           \/ /\ fd # {} /\ o.st = "ok" /\ "tryseek" \in Ops(o.node)
              /\ MayLose                                         \* load_icode fails
              /\ \E closed \in IF o.node = File THEN BOOLEAN ELSE {FALSE} :
                    IF closed THEN Gone(p, vfs_close(o.v, o.node), c.t, FALSE)
                              ELSE Gone(p, o.v, t, FALSE)
              /\ UNCHANGED kbd
           \/ /\ fd # {} /\ o.st = "ok" /\ o.node = File          \* the program is loaded
              /\ vfs' = vfs_close(o.v, o.node)
              /\ fds' = [fds EXCEPT ![p] = c.t]
              /\ pstate' = [pstate EXCEPT ![p] = "user"]
              /\ UNCHANGED <<pwd, read, wflag, killed, kbd, lost>>

Next ==
    \/ \E p \in Procs :
        \/ Exit(p) \/ ReadAgain(p) \/ ReadKilled(p) \/ Kill(p)
        \/ \E path \in OpenPaths : \/ Exec(p, path)
                                   \/ \E acc \in OpenAccess, opts \in OpenOptions : Open(p, path, acc, opts)
        \/ \E f \in Fds : \/ Close(p, f) \/ Write(p, f)
                          \/ \E g \in Fds : Dup(p, f, g)
                          \/ \E op \in Calls : Operate(p, f, op)
                          \/ \E n \in 1..MaxRead : Read(p, f, n)
        \/ \E c \in Procs : Fork(p, c)
    \/ KeyPress \/ Tick

\* The timer keeps ticking, and a process that can run gets to run.
Spec == Init /\ [][Next]_vars
        /\ WF_vars(Tick)
        /\ \A p \in Procs : WF_vars(ReadAgain(p) \/ ReadKilled(p))

-----------------------------------------------------------------------------

Entries(n) == {x \in Procs \X Fds : fds[x[1]][x[2]].node = n}

\* The counts of every inode account for exactly the pointers to it: the open
\* descriptors, the current directories (init's too), bootfs_node and the device table,
\* and the references that were lost by an exclusive open or an exit without
\* put_files; so a file leaves memory exactly when nobody can reach it any more.
CountsExact ==
    \A n \in Nodes :
        /\ vfs.ref[n] = Cardinality(Entries(n)) + Cardinality({p \in Procs : pwd[p] = n}) + lost[n]
                        + (IF Booted.pwd = n THEN 1 ELSE 0) + (IF vfs.bootfs = n THEN 1 ELSE 0)
                        + (IF n \in DOMAIN vfs.dev THEN 1 ELSE 0)
        /\ vfs.open[n] >= Cardinality(Entries(n)) /\ inode_check(vfs, n)
        /\ vfs.open[n] <= Cardinality(Entries(n)) + lost[n]

\* As long as no key was stored over an unread one, the ring hands out the keys in the
\* order in which they were pressed, each of them once.
KeysInOrder ==
    ~kbd.overrun => /\ kbd.wpos = kbd.pressed
                    /\ \A i \in kbd.rpos..kbd.wpos-1 : kbd.buf[i % STDIN_BUFSIZE] = i + 1

\* A sleeping reader is woken when there is input, or somebody else has taken it.
InputWakes == \A p \in Procs :
    pstate[p] = "asleep" /\ Available(kbd) > 0 ~> pstate[p] # "asleep" \/ Available(kbd) = 0 \/ vfs.panic

\* p runs again out of a read that had one byte to go, woken by the kill alone or with
\* input that is still there, and no other process has the console open to take it
WokenAlone(p) == /\ pstate[p] = "woken" /\ read[p].left = 1
                 /\ wflag[p] = "INTERRUPTED" \/ Available(kbd) > 0
                 /\ \A q \in Procs \ {p}, f \in Fds : fds[q][f].node # "stdin"

\* A killed process woken in this way leaves the read, whatever is typed before it runs:
\* it does not go back to sleep.  (With a competitor, or more bytes to go, it can.)
KilledReaderLeaves == \A p \in Procs :
    killed[p] /\ WokenAlone(p) ~> ~killed[p] \/ (pstate[p] = "woken" /\ ~WokenAlone(p)) \/ vfs.panic
=============================================================================
