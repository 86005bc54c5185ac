# A TLA+ development of the lab8 kernel

The repository is an operating system for the Kendryte K210 (RISC-V), grown out of
uCore: `src/lab8` is its last and complete stage (the other directories are
earlier stages, tools and documents). This directory holds TLA+ modules that are
translated from `src/lab8/kern`, TLC configurations that check them on small
instances, and TLAPS proofs of the most important facts for every instance.
`PROJECT.json` lists, for every definition, the source lines it stands for.
In this text `proc.c:916` means line 916 of that file under `src/lab8/kern`.

## 1. The system

One hart runs the kernel. The kernel is **not preemptive**: a process gives up the
hart only inside `schedule()`. System calls run with S-mode interrupts off; kernel
threads and user programs run with them on. The tail of `trap()` (trap.c:342-371),
for traps from user mode only, first looks at `PF_EXITING` and then at
`need_resched`. All block storage is a RAM disk built into the image, so nothing
survives a stop and there is no crash recovery to check. `panic` stops
everything; an exception a user program causes and the kernel does not handle is
one way to get there.

| component | state | operations | interacts with |
|---|---|---|---|
| process life cycle (proc.c) | `proc_struct`s: state, wait_state, flags, family pointers, mm, filesp; `nr_process` | fork, exec, exit, wait, kill, sleep, yield, `get_pid` | scheduler (wakeup, schedule), timers, mm, files |
| scheduler core (sched.c) | run queue, `need_resched`, timer list | `wakeup_proc`, `schedule`, `add_timer`, `del_timer`, `run_timer_list` | every blocking operation; the clock interrupt |
| stride class (default_sched_stride.c) | skew heap, strides, time slices | enqueue, dequeue, pick_next, proc_tick | scheduler core |
| KPU spooler (kpu_spooling.c, dev_kpuio.c) | task list, global request (caller_pid, flags, blocks, result), `kpu_sem` | device write, device read, controller thread, worker threads | wakeup/sleep of the controller and of callers; kmalloc |
| semaphores, wait queues, monitors (sync/) | value, queue of waiters with the flags they were woken by | up, down, try_down, cond_wait, cond_signal | scheduler |
| physical memory (default_pmm.c, pmm.c) | free list, page flags, reference counts, page tables | alloc, free, page_insert, page_remove | everything that allocates |
| kernel heap (kmalloc.c) | slob list, big blocks | kmalloc, kfree | pmm |
| virtual memory (vmm.c) | area list, page directory, mm count and lock | mm_map, dup_mmap, exit_mmap, page faults, user_mem_check | pmm, process life cycle |
| swap (swap*.c) | FIFO of pages | never swaps out; a page fault can swap in | vmm |
| console input (dev_stdin.c) | ring buffer, wait queue | interrupt write, blocking read, wakeup from the tick | wait queues, tick |
| file table (file.c, fs.c, sysfile.c) | descriptors with four states, open counts, `files_count` | open, close, read, write, dup, share by fork | vfs, process life cycle |
| vfs (vfs/) | inode reference and open counts, device list | open, close, lookup, mount | sfs, devices |
| sfs (sfs/), mksfs | image, inode cache, free map, dirty flags | make, mount, load, reclaim, block allocation, read, write, truncate, sync | vfs, disk device |
| pins, clocks, SPI, SD card (driver/) | I/O array, GPIO, clock gates, dividers and PLLs, SPI settings, dialogue with the card | set_function, clock_enable, pll_set_freq, sd_init, sector read and write | each other; `kern_init` |

Hard behaviours: wakeups that race with going to sleep; a kill that reaches a
process in each of its positions; exits that hand children over while their new
parent sleeps; timers that live on the kernel stack of a process that can be woken
early; pids, task ids and the input ring that wrap around; a request protocol in
global variables; counters at their limit; list surgery by hand; calls that fail
half way and must undo what they did (exec, the growth of a file); state in memory
that must reach the disk before it is dropped; frames and blocks that are freed and
reused; hardware that never answers. What makes each component correct, and where
it could go wrong, is the list `hazards` of `PROJECT.json`: each entry names the
line and the properties that watch it, or says why there is none.

## 2. Modules

| module | what it is |
|---|---|
| `Proc` | processes, the family tree, the run queue, sleeping and waking, the trap tail, the kernel threads |
| `MCProc` | model values and configurations of `Proc` |
| `Limits` | `MAX_PROCESS`, which `Proc` and `GetPid` share |
| `GetPid` | `get_pid`: the search and its window `last_pid`..`next_safe` |
| `ProcProofs` | the inductive invariants of `Proc` and their proofs: scheduling, the process tree, the process count; those of `GetPid`: pids are unique, the window holds no pid in use |
| `Timers` | abstract: every sleeper has its own countdown |
| `TimerList` | the list of relative expiry times of sched.c, shown to implement `Timers` |
| `TimerListProofs` | what the list operations do to the sums, and the refinement of `Timers` |
| `KpuSpool` | the kpuio device, the controller, the worker threads and their semaphore |
| `KpuSpoolProofs` | mutual exclusion on the KPU, the status of a caller, the ids of tasks |
| `Sem` | semaphores and their wait queues, as operators |
| `CheckSync` | the monitor and the philosophers of check_sync.c, on top of `Sem` |
| `CheckSyncProofs` | the inductive invariant of `CheckSync` and its proof |
| `FirstFree` | abstract: a set of pages, the lowest run that fits |
| `FirstFit` | the first-fit allocator on its linked list, shown to implement `FirstFree` |
| `FirstFitProofs` | the inductive invariant of `FirstFit`, its proof and the proof of the refinement |
| `Paging` | three-level page tables, frames and their reference counts, as operators |
| `AddrSpace` | abstract: every process has pages of its own |
| `Vmm`, `MCVmm` | areas, fork, exec, exit and page faults on top of `Paging`, shown to implement `AddrSpace` |
| `Vfs` | device list, lookup, reference and open counts of inodes, as operators |
| `Stdin` | the console's ring and wait queue, as operators |
| `Files`, `MCFiles` | the descriptors of processes, on top of `Vfs` and `Stdin` |
| `FilesProofs` | the counts of inodes, the ring and the readers of `Files` |
| `SfsFile` | abstract: a file is a sequence of words |
| `Sfs`, `MCSfs` | mksfs, mounting, inodes, blocks and the free map, shown to implement `SfsFile` |
| `SfsProofs` | the invariant of the image and of the inodes in memory: blocks accounted, clean means synced |
| `Fpioa`, `Gpiohs`, `Sysctl`, `Spi`, `SdCard` | the drivers, one module each, the last on top of the others |
| `Board`, `MCBoard` | the drivers in the order `kern_init` uses them, then sector reads and writes |
| `BoardProofs` | the pins, the clock of the processor, the clock of the card's dialogue and the settings of the PLLs |

Modules "as operators" have no behaviour of their own: each function of the code is
an operator from the state before the call to the state after it, and the module
that makes the calls holds the variables.

### Proc

`cpu` says what the hart executes for `current`: the code at `pc[current]`
(`"run"`), the tail of `trap()`, the loop of `do_exit`, or the call of
`schedule()`; `pc[p]` is where `p` continues. Each system call is one action,
because it runs with interrupts off until it blocks: `Fork`, `Exec`, `Exit`,
`Wait`, `Kill`, `Sleep`, `Yield`, and `Fault` for an exception of the user
program. A call that blocks is cut at `schedule()` and continues with `WaitResume`
or `SleepResume`. `do_exit` is a first step (give up mm and files, become a
zombie, wake the parent) and one step per child that is handed to init
(`ExitReparent`); no other process runs in between, but an invariant must hold at
these points, since each round wakes init if needed. `Idle`, `KpuTaskCtrl`,
`InitFork`, `InitWait`, `InitEnd` are the kernel threads. `Tick` is the clock
interrupt: it counts timers down, wakes sleepers, charges the slice, and leads
into the trap tail when it hit user mode.

A process is identified with its slot (`GetPid` shows that live processes have
different pids) and a freed slot can be reused at once, which is the least
favourable order. `ScheduleTo` picks any queued process: what the stride class
picks is left open, so the safety results hold for every scheduling class.
Timers are countdowns, which `TimerList` justifies. Allocation failures in fork
and exec are choices. The KPU controller sleeps when it has nothing to do; its
requests are in `KpuSpool`.

At the end of `init_main` the closing assertions (proc.c:1036-1039) say that only
idle and init are left. The controller of the KPU, created by `proc_init` and
never ending, is not counted there, so `InitEnd` can only stop the kernel; for the
model it makes no difference, since the exit of init panics as well.

### GetPid

`get_pid` is a loop with a `goto`; one action is one turn of its inner loop over
the process list (in any order of the list), one the entry, one the return.
Processes exit between calls and never during one. The constants are any
`MAX_PID > MAX_PROCESS`, what the `static_assert` demands; the configuration uses
7 and 6, the tightest choice, so that a search meets a nearly full pid space.

### Timers and TimerList

`Timers` has one countdown per process and no list. `TimerList` holds the delta
list: `add_timer` inserts with the subtraction and the adjustment of the
successor, `del_timer` gives its remaining ticks to the next entry,
`run_timer_list` decrements the head and drops all entries at 0. The refinement
mapping (`Sums`, `Left`) sums the deltas up to a process's entry. `ImplementsTimers` is the
specification of `Timers` under that mapping: every sleeper is woken at exactly its
own tick whatever the others insert, delete or have equal. `SleepersReturn` adds
that the tick comes, however often others insert shorter sleeps before it.

### KpuSpool

A caller writes images (whole or, with `SPLIT_WRITES`, in parts) and asks for a
status. A request is left in global variables, the controller is woken and the
caller sleeps; the controller makes a task and a worker thread, or looks the task
up, and wakes the pid in `caller_pid`. Worker threads run with interrupts on and
take `kpu_sem`; the semaphore with its direct hand-over (sem.c) is part of the
module. Memory that was not initialised (`sflag` of a new task) is an arbitrary
value. Following the pointer of a freed `proc_struct` is an arbitrary answer.

Two processes at the device disturb each other, since `caller_pid`, the two flags and
`kpuresultbase` hold one request. The properties do not look away from that but say
how far it goes. `crossed`, a history variable that no action reads, holds the callers
during whose request another process took a step at the device.
`StatusIsOwn` is about those who are not in it. `CallersReturn` is about everybody: a
caller returns unless it is `Stranded`, that is asleep with its request replaced or cleared by
somebody else, or left to a controller that went to sleep without it. `ThreadTask` says which task a
new thread runs when ids repeat: the oldest one with the id.

### Sem and CheckSync

`Sem` has `up` and `down` as they are called in the kernel, with `WT_KSEM`: a
waiter cannot be woken by a kill, and `up` takes the first waiter off the queue
instead of raising the value, so that the woken thread owns the token before it
runs. `CheckSync` is `check_sync()`: first the philosophers that use semaphores,
then those in the monitor. The two programs differ in what a test of a neighbour
does (`up(&s[i])` or `cond_signal`) and in how one waits, so they share their
positions and `phase` tells them apart. A thread runs until it blocks, sleeps or
ends; its code is cut into the pieces between possible blocking points, and the
clock may end sleeps between any two of them. `cond_signal` and `cond_wait` are
cut at their `down`: `Test` enters `cond_signal` and `Signalled` leaves it. `init_main` has
its call of `check_sync()` commented out (proc.c:1027) and nothing else uses
the monitor; the semaphores guard every mm, file system and device.

### FirstFree and FirstFit

`FirstFit` has both pointers of every list node, the sizes, the flags and
`nr_free`, and its steps are the rounds of the two loops of default_pmm.c: `AllocCall`
and `FreeCall` enter, `AllocNext` and `FreeNext` walk, `AllocTake`, `AllocNone` and
`FreeMerge` return. Calls exclude each other (interrupts are off). A page that
leaves the list keeps its old pointers and size, as in the code. Callers give blocks back as they got them, which is what
kmalloc, kernel stacks and page tables do; any request may be made at any time, also for
the last page of memory. `FirstFree` knows only which pages are
in use; the mapping is the identity on `held` and `refused`.

The allocator goes wrong in one situation: a block is given back behind all the blocks of
a list that is not empty. The loop of `default_free_pages` inserts it with `list_add(le, base)`
(default_pmm.c:149) but does not stop; `list_next` is now the block itself, which is last,
so it is inserted once more, behind itself. Its `prev` then is itself: the test for
the lower neighbour compares the block with itself and leaves free neighbours unmerged, and a later
`list_del` leaves the block on the list. The history variable `behind`, which no action
reads, becomes true at that moment. The properties of the run and the theorems say
what holds until then, of every order of calls up to it; `first_fit_given` shows what comes afterwards (a block in use is handed out again). The
self checks of the boot free single pages on a temporary list, in which the second and
third block are given back behind the first; they survive it because they give the
pages out again in the same order and then restore the real list, in front of whose first
block all of them go back. So `behind` is false when the boot ends.

### Paging, Vmm and AddrSpace

A frame has `N` cells and a page table `N` entries, as 512 entries of 8 bytes fill a
page of 4096. The kernel's memory is a record `k`: the free frames, the reference
counts, the cells of every frame. A page directory is a frame whose cells are
entries, a program's page one whose cells are words, so a frame that is used as
both at once would show. `get_pte`, `page_insert`, `page_remove_pte`,
`pgdir_alloc_page`, `unmap_range`, `exit_range`, `copy_range` and the mapping of the
devices (`setup_kernel_io_mapping`) are operators on `k`, with their failures; an
assertion or a panic clears `ok`.

In `Vmm` a process forks (`copy_mm` with `dup_mmap`), loads a program (`load_icode`
from its segments, page by page, the stack, the arguments, with all cleanup
labels), stores, faults (`do_pgfault`) and exits. None of this can be preempted or
sleep, so each is one action. The programs of `MCVmm` are chosen for the edges of
`load_icode`: bss in a page of its own, two segments in one page, a segment longer
in the file than in memory, files that are no ELF or end in the middle of a header
or of the data. `space` shows what the hardware would find through the tables.
`AddrSpace` has neither frames nor tables: fork copies all pages, exec gives the
words of the file, stores are private.

### Vfs, Stdin and Files

`Files` holds the descriptors (`fds`), current directories and console reads of the
processes. A system call is one action; a read from the console is cut where it
sleeps (`Read`, then `ReadAgain` or `ReadKilled` once it has been woken). `KeyPress` is the
interrupt that fills the ring, `Tick` the clock interrupt that calls `input_wakeup`.
`Fork` copies the table (`dup_files` and `copy_files`), `Exec` closes it, `Exit` gives
it up. `vfs_open` works on a boot file system with one directory and one file, and on the four
devices; its early returns are in the order of the code; what an operation of an inode does is in its table of operations, and a
missing one panics as in the code. The console is the device whose reads sleep in this model; a read
or write of kpuio sleeps as well and is one step here, its inside being `KpuSpool`. Some paths of the code lose a reference (see the
observations): the model counts them in `lost`, so that `CountsExact` says of every
inode that its counts are the pointers to it plus exactly these.

### Sfs and SfsFile

The image is made by the steps of mksfs (`add_file`, `close_sfs`), then mounted. A
disk block is `BLKSIZE` words: words of a file, entries of an index block or a
directory entry. Inodes are loaded into memory by `Open` and reclaimed by the last `Close`, and
differ there from the disk until they are synced. `Write` follows `sfs_io_nolock`
block by block with `sfs_bmap_load_nolock`, up to the allocation that fails on a
full disk and the undoing in `sfs_bmap_get_sub_nolock`. Asserts that can fail lead
to `phase = "panic"`. Nothing here blocks (the disk is a RAM disk), so a call is one
action. The mapping to `SfsFile` reads every file through its block map, from
the inode in memory if there is one and from the disk if not: unmounting and
remounting show as nothing at all.

### Fpioa, Gpiohs, Sysctl, Spi, SdCard and Board

`Fpioa` has the configuration of all 256 functions, group by group. `Sysctl` has the
gates, selects and dividers of the clocks with the frequency each of them has, and
PLLs whose parameters are found by the search of `sysctl_pll_source_set_freq`. The
doubles of that search are exact fractions here; a transcription of the C code with
doubles gives the same parameters for every request of 1 to 1760 MHz from 26 MHz.
When PLL2 is fed by another PLL its input counts in whole MHz (`PllInput`), where the code
has Hz.
`SdCard` is the dialogue with a card that is of any kind, is missing, or stops
answering at any point: one action is a frame, a polled byte or what the driver
does with the answer. `Board` composes them in the order of `kern_init`.
`sysctl_pll_set_freq` takes a step for each of its writes to the registers, since
the processor may be running from the PLL that is being changed.

## 3. Runs

| run | instance | shows |
|---|---|---|
| `proc_safety` | 3 kernel threads, 3 slots, 641,000 states | run queue exact, process tree walked completely by `do_wait`, timers owned, no lost wakeup of `do_wait`, process count, zombies stay dead |
| `proc_kill` | 2 slots, fairness, expected violation | see section 5 |
| `get_pid` | `MAX_PID` 7, `MAX_PROCESS` 6 | unique pids, the search ends, over several wrap-arounds |
| `timer_list` | 4 processes, sleeps up to 4, fairness | the delta list implements the countdowns, sleepers return |
| `kpu` | 2 callers, one of which may be killed and the other splits its writes, fairness, 2 tasks with 1 id, 257,000 states | the KPU is used by one thread at a time, threads finish and run the task that their id stands for; callers are answered, with their own status, unless another process takes the request away |
| `check_sync` | 4 philosophers, 2 meals each, both halves, fairness | one thread inside the monitor at a time, neighbours never eat together, nobody hungry is passed over, both halves end |
| `first_fit` | 5 pages, requests of 1 and 2, fairness | until a block is given back behind all others: the list is exact between calls, the allocator implements `FirstFree`, every call returns |
| `first_fit_given` | 4 pages, requests of 1 and 2, expected violation | see section 5 |
| `files` | 2 processes, 3 descriptors each, ring of 2, 3 keys, fairness | counts of inodes exact, keys delivered once and in order, readers woken by input, killed readers leave |
| `sfs` | 13 blocks of 3 words, 2 files, 2 descriptors | blocks accounted, clean means synced but for the count of blocks, files are sequences of words across sync, reclaim and remount |
| `memory` | 19 frames, spaces of 8 pages, 2 processes, 8 programs | frames accounted, `user_mem_check` right, address spaces private |
| `board` | 2 boot routings, 4 cards or none, 19 PLL requests | pins not shared, a card that is not ready clocked slowly while it is spoken to, processor clock kept, PLL settings legal and best, boot ends |

**Bounds.** `Slots` (3) gives grandparent, parent and child beside init, so
orphans, orphaned zombies and three-element sibling lists occur. `KillTargets`
names the pids that programs pass to `kill` (killing init panics the kernel,
which cuts behaviours short, so not every run does it). `MAX_SLEEP` 1 is enough in
`Proc`, where a sleeper is either listed or not (long sleeps and equal deadlines are
the business of `TimerList`); `MAX_TIME_SLICE` is scaled to 1, since only zero and
non-zero are told apart. `MAX_PROCESS` equals the number of slots, so that fork
meets the limit. In `TimerList`, 4 entries give a head, two middles and a tail, and
sleeps up to 4 give equal, adjacent and distant deadlines. In `KpuSpool` `MAX_TASKS`
caps how many tasks are made and `MAX_TASKNUM` is scaled to 1, so that the second task
already has the id of the first; two callers are the fewest that meet at the device, and
`SPLITTERS` says who writes an image in several calls.

In `CheckSync` four philosophers are the fewest of whom two can eat at once while
each of the others has two eating neighbours, and the second meal is taken on what
the first has left behind. In `FirstFit` five pages are the fewest in which a block is
split behind another free one, and a freed block meets a neighbour
on either side, on both and on none; stale pointers of unlisted pages make larger
instances expensive. `first_fit` does not go on from states in which `behind` holds (`InOrder`):
every property of the run is then fulfilled whatever follows, since `behind` stays.

In `Files` the ring of 2 wraps around and overruns with 3 keys (`MaxKeys`), reads ask
for up to 2 bytes (`MaxRead`) so that a reader takes one and sleeps for the other, and
`MaxOpen` and `MaxLost` bound the descriptors open and the references lost. In `Sfs` a
file of `MAX_FILE_SIZE` 6 has one direct block and one in the index block; the 13 blocks do not hold
two such files, so the disk fills up with the index block just taken; `SeekTo` 4
grows a file past its end into a second block; `VIEW` leaves out what no later
call can see (words of free blocks, disk copies of dirty inodes). In `Vmm` `N` is 2,
so a space has three levels of tables with 8 pages, and exit has to free tables
that other pages still use; 19 frames are few enough that frames are reused at
once; `MaxSteps` 7 covers exec, fork, stores in both, an exit and another
exec. In `Board` the timeouts of the driver are scaled to 2 polls, a transfer has up
to 2 sectors, one call is made after boot (`MaxCalls`), and the requests of
`PllRequests` are the edges of the search (least and greatest frequency, exact and
inexact hits, none) on each PLL, of which the code makes only 400 MHz on PLL1.

Deadlock checking is off in `KpuSpool` (when all tasks are made the callers
legitimately stop), in `FirstFit` (an assertion may stop the kernel, which `FreeListExact` and `CallsReturn` notice), in `CheckSync` (which ends; `CheckSyncEnds` says that nothing
stops before), and in `Files`, `Sfs`, `Vmm` and `Board`, where the kernel can panic or
the bound on steps is reached; it is on in the others.

**Fairness.** The hart always goes on executing kernel code: weak fairness of the
kernel's steps. The clock interrupt is pending until interrupts are on; it may be
disabled again and again while the kernel runs, hence strong fairness of `Tick`.
The class picks every queued process eventually: strong fairness of `ScheduleTo(p)`
for every `p` (this is an assumption about the stride class, which has no module;
with strides that advance at every pick it is what the class is for).
User programs promise nothing: no fairness of any system call, so none of the
results relies on a process exiting or waiting. In `TimerList` the tick and the return of
a woken sleeper are weakly fair. In `KpuSpool` the controller, the
worker threads and the return of a woken caller are weakly fair, new requests are
not. In `GetPid` and in `FirstFit` the loops are weakly fair. In `CheckSync` the running
thread and the timers are weakly fair and the choice of each runnable thread is
strongly fair, as in `Proc`. In `Files` the tick and the run of a woken reader are
weakly fair (both stay enabled until they happen), keys, kills and calls are not. In
`Board` the driver's code is weakly fair, the card is not: it may stop answering
for good; a PLL that has been given power and a legal setting locks.

## 4. Proofs

TLC checks an instance; the theorems below hold for every value of the constants
that satisfies the named assumptions. Each of these assumptions is evaluated by TLC
in the runs. Beside the shape of the values (sets, naturals, finite sets of processes)
they say: the kernel threads are distinct and three processes fit (`ProcAssumption`),
a function is routed to one pin by the boot loader (`FpioaAssumption`), the PLL
settings it leaves fit their registers and the processor's clock runs
(`SysctlAssumption`), there are more pids than processes (`PidAssumption`), and what
mksfs puts in the image fits without doubly indirect blocks, which the kernel cannot
read (`SfsAssumption`). Hypotheses a single theorem adds are named with it.

| module | theorem | states, in all reachable states |
|---|---|---|
| `ProcProofs` | `TypeCorrect`, `RunQueueCorrect`, `TimersCorrect`, `NoLostWakeup` | `TypeOK`, `RunQueueExact`, `TimersOwned`, `NoStrandedZombie` |
| | `ParentsStayLive`, `WaitSeesChildren`, `ProcessesCounted`, `ZombiesRest` | `ParentsLive`, `ChildrenReachable`, `ProcessCount`, `ZombiesStayDead` |
| | `PidsUnique`, `WindowSafe` | `UniquePids` of `GetPid`; no pid in use lies in its window |
| `TimerListProofs` | `ListStaysSound`, `ExpiresBounded`, `ListImplementsTimers` | `ListSound`; deltas stay within `MAX_SLEEP`; `ImplementsTimers` |
| `KpuSpoolProofs` | `KpuIsExclusive`, `OwnStatus`, `NewThreadTask` | `KpuExclusive`, `StatusIsOwn`, `ThreadTask` |
| `CheckSyncProofs` | `MonitorCorrect`, `ForksCorrect`, `HungryCorrect` | `OneInMonitor`, `ForksExclusive`, `HungryHaveCause` |
| `FirstFitProofs` | `TypeCorrect`, `FreeListCorrect`, `GivesFreeCorrect`, `FirstFitImplements` | `TypeOK`, `FreeListExact`, `GivesFree`, `ImplementsFirstFree`, each until `behind` |
| `FilesProofs` | `CountsStayExact`, `KeysStayInOrder`, `ReadersHoldTheirFile` | `CountsExact`, `KeysInOrder`, `Uses` |
| `SfsProofs` | `SfsInvariant`, `BlocksNeverLost`, `DirtyFlagsSound` | `SfsInv`; `BlocksAccounted`, `CleanIsSynced` |
| `BoardProofs` | `FunctionHasOnePin`, `CpuKeepsItsClock`, `CardIsMetSlowly`, `PllIsSetWithinLimits` | `OneOwner`, `CpuHasClock`, `SlowUntilReady`, `PllSound` |

**Scheduling (`ProcProofs`).** None of `RunQueueExact`, `TimersOwned` and
`NoStrandedZombie` is inductive. The invariant `IInv` adds: `Positions` (where
the kernel threads and the free slots can be), `Running` (what state `current` has
in each position of `cpu`: it may be zombie or asleep only on its way into
`schedule()`), `HasParent` (every live process but idle has a parent, which is what
`do_exit` dereferences), `InitWaitsForAny` (init sleeps for any child, so it is
right to wake it for each orphan) and `WaitingIffSleeping` (a wait state is set
exactly while a process sleeps or has just been put to sleep; without it, a wakeup
could hit a process that is already runnable, and a zombie's parent could sleep
with its wait state cleared and never be woken). The proof has one step per action
and one lemma per group of conjuncts. The argument of `NoLostWakeup`: a process
goes to sleep in `do_wait` only when no candidate is a zombie; a candidate becomes a
zombie only in `do_exit`, which looks at the parent's wait state in the same step;
and a zombie changes its parent only in the loop of `do_exit`, which looks at init's.

**The process tree (`ProcProofs`).** `Tree` says that for each process there is a
sequence of its children without repetition (`Chain`) which `cptr`, `optr` and `yptr`
link in both directions. What the code does to such a chain are three lemmas:
`ChainPush` (`set_links`), `ChainRemove` (`remove_links`) and `ChainPop` (a round of
`do_exit`). The last is the reason why the chain may be `loose`: while `do_exit` gives
children away it advances `cptr` and leaves the `yptr` of the new first child pointing
at the one that has gone, which nobody looks at before the next round sets it.
`Childless` says that the dead have no children, except in that loop. `StepKinds` sorts the
actions by what they do to the family (nothing, a birth, a burial, a reparenting), so
that the pointer lemmas are used once each. `WaitSeesChildren` needs that the walk of
`ChildrenReachable`, a recursive function with as many rounds as there are processes,
follows the chain to its end (`WalkIsList`).

**Pids (`ProcProofs`).** For every `MAX_PID` and `MAX_PROCESS`: the window between
`last_pid` and `next_safe` holds no pid in use, and during a search none of the
processes already passed lies in it; uniqueness follows when the search ends.

**The timer list (`TimerListProofs`).** `Sum(S, tl)` characterises the partial sums of a list without
computing them, and a list has one such function. `add_timer`, `del_timer`
and `run_timer_list` are each shown to change the sums as a countdown would: an
insertion leaves all other sums as they are, a deletion too although it adds its ticks
to the next entry, and a tick takes one from every sum and drops the entries with sum
0, which are exactly the leading ones. The invariant `Inv` is that the list is well formed
(`Good`), that it lists every sleeper, only processes in `do_sleep`, and that every
countdown is at most `MAX_SLEEP`; the assertions of sched.c on the list (`ListSound`)
follow from it, and no run repeats them. `ListImplementsTimers` maps every step to a step of
`Timers` or a stutter; it does not include the fairness, of which `Timers` has none.

**The KPU (`KpuSpoolProofs`).** `KpuIsExclusive` rests on `QueueExact`: the semaphore's
queue holds each thread that waits for it once and nobody else, so `up` grants
the KPU to one waiter. `OwnStatus` holds for any number of callers, kills and orders: its
invariant follows one request, that of a caller whom nobody has met at the device since he
called, and says that he sleeps and the request stands, or the
buffer he holds has been filled for him. It says nothing of a caller whom another one
has met, whose status can be wrong (section 5). `NewThreadTask` holds for any
`MAX_TASKNUM` and any number of tasks: the ids on the list are those of their positions
modulo `MAX_TASKNUM`, so the first task with an id is one of the first `MAX_TASKNUM`.
From the task after these on, a new thread never runs the task it was made for.

**Philosophers (`CheckSyncProofs`).** For any number of philosophers
and meals. The invariant says where a thread can be queued (`QueuePlaces`,
`PhasePlaces`, each thread on one queue, once), what each semaphore's value
and queue mean (`Tokens`), that `count[i]` is 1
exactly while `i` is in `cond_wait` (`Counts`), that at most one thread is in
`cond_signal` and `next_count` says whether one is (`Signallers`), that there is one right to be inside (`OneIn`), and how a
philosopher's state follows from his position (`Moods`). `Apart` and `Causes` carry the
two results about forks through the steps in which someone is inside: while a
philosopher is between his two tests, only the neighbour he has not yet tested
may be hungry without a cause.

**First fit (`FirstFitProofs`).** For every number of pages, every set of sizes and every
order of calls, until a block is given back behind all others (`behind`); the theorems assume nothing
about the load, and say nothing of what follows that step, which `first_fit_given` shows. The results speak of the list
between calls, so the invariant has a part for each kind of call in progress:
`AtRest` (the list is sorted, the blocks divide the free pages, no two touch),
`Searching` (every block `default_alloc_pages` has passed is too small), `Placing`
(the block being freed is listed nowhere yet, lies above every block the walk has
passed, and the step that would link it to itself makes `behind` true) and `Merging` (only the block just listed may touch others). To them
come `HeldApart` and `Counted`. The lemmas are of three kinds: what
`list_add` and `list_del` do to a sorted list (`AddSorted`, `DelSorted`,
`TakeSorted`), what cutting and joining do to blocks (`TakeAll`, `TakePart`,
`JoinBlocks`, `JoinGaps`), and one lemma per action. The argument of the refinement
is `LowestRun`: a run of free pages lies inside one block (`RunInBlock`), so the
first block that is large enough begins with the lowest run, and a walk that comes
to the end has shown that there is none.

**Files (`FilesProofs`).** `Exact` counts, for every inode, the descriptors that refer
to it, the current directories that are it, the references kept by the system and those
in `lost`. Each operator of `Vfs` and `Files` has a lemma that says by how much it changes
both sides. `CountsExact` alone is not inductive: an exit closes
each descriptor once, and that is right only if none is acquired twice by then. `Uses`
says it: a descriptor has `open_count` 2 exactly while its process is in a console read of it,
whoever is in the console's queue is in such a read, and a process that is gone holds
nothing. Forking and closing a whole table are folds over descriptors; the lemma about them
is proved for the steps of the fold. For the ring (`RingOK`): the unread positions hold the keys
pressed in order, as long as none was overrun.

**The file system (`SfsProofs`).** `BlocksAccounted` is not inductive: what a call
leaves behind depends on the places it finds in its inode and in the directory. The
invariant `SfsInv` has a part for each phase (`MakingInv` while mksfs hands out
blocks from the front of the image, `UnmountedInv`, `MountedInv`) that says of all
inodes at once that the blocks they name and the free ones are disjoint and are all
there are (`Sound`, `GoodImage`). To it come `DirInv` (the directory leads to each file's
inode), `HandlesInv` (the inode of an open descriptor is in memory, and its `ref` counts
the descriptors that hold it, so none is reclaimed under a descriptor) and `CleanInv` (an inode
not marked dirty is the one on disk, except that its count of blocks may be smaller there). A call works on a single inode. Its region
consists of the free blocks and of those the inode names, and `Own` says how they are
shared out, with the blocks of a half-done allocation in a set of their own; each operator of
the code has a lemma that says how it changes the shares, including those in which
a second allocation fails and the first is undone. That nothing outside the region changes
(`RegionApart`) brings the result from one inode back to the image. A write is a fold
over blocks, whose steps each keep `Own`.

**The board (`BoardProofs`).** `PinsSound` is inductive under `fpioa_set_function` because
at most one other pin has the function, so the first one found is the only one. For the
clock of the processor, `WayOfPll0` says how far PLL0 has come down and up again in each step of
`sysctl_pll_set_freq`: the processor is on the crystal from the first step to the last,
and power, reset, lock and output are right one after another, before the last step
selects PLL0. The locking hardware may set any lock bit in between, other PLLs may be in use. For the card,
`Early` describes the dialogue until ACMD41 is accepted (commands, phases, the divider of
SPI1, no acceptance overlooked), `Late` says that CMD0 is not sent again, and `Placed`
that PLL0 keeps the boot loader's setting until `sd_init` returns. The rest is the
arithmetic of `spi_set_clk_rate`: a divider rounded down from 200 kHz gives at most 400.

**The PLLs (`BoardProofs`).** The search measures the error of one fraction and writes
another to the registers: the multiplier is widened, and the divider is widened with it or
split in two, to bring the oscillator into its range. `SameRatio` says that both
changes are by the same factor, so what was measured holds of the registers (`TriedIsLegal`).
The best so far is always one of the multipliers tried (`Source`), whatever number
of turns the loop has made. A legal setting yields at least 1 kHz (`LegalRuns`), so the
result 0 means that nothing was found. The rest follows the registers: `Tells` says
that up to the new setting the PLL has the parameters it had at the call, and after it
those which give what the call will report; what feeds it, the crystal or for PLL2 maybe
another PLL, is not touched in between.

Two techniques recur. Where the model computes with a recursive function or a
fold, an induction principle with an operator parameter would be needed, which the
provers cannot use; these lemmas take the least counterexample instead, from the fact
that a nonempty set of naturals has a least element (`LeastNumber`). And
an operator is proved about through the fields of its result, one lemma per
operator, so that the definitions stay closed in the proofs of the actions.

Only model-checked: all liveness (fairness is outside the prover's reach); `PllBest`,
that the search misses no setting, a fact about all multipliers and dividers at once
that only their enumeration shows; `ImplementsFiles` of `Sfs`, which needs the words of
every block beside their owners; `FramesAccounted`, `ChecksAreSound` and
`ImplementsSpaces` of `Vmm`, which computes with several levels of folds (page ranges,
areas, segments of a program) and needs an invariant of the kind `SfsProofs` has, over
three levels of tables.

## 5. Findings and observations

Two places where the code does not do what its comments or assertions say are shown by runs
that TLC ends with a counterexample:

- `proc_kill`: a process killed while preempted in the trap tail returns to user
  mode without a check; if it then enters `do_wait` it sleeps with `PF_EXITING`
  set, and a second kill is refused.
- `first_fit_given`: after a block was given back behind all others (section 2), a block that is
  in use stays on the free list and is handed out a second time; `basic_check` asserts that
  pages handed out are different. Such a block is also not merged with a free lower neighbour,
  and once the pointers disagree a later insertion can close a cycle without the head, in which a call
  with interrupts off never ends. It takes memory that was in use up to its last page.

The following was observed while modelling. The models contain it (as a lost
reference, a panic, an assumption or a bound), and the properties are stated around
it; no run is dedicated to it.

Processes, memory and the KPU:

- `do_wait(0)` takes the first zombie of the list, the youngest, and the children of an
  exiting process go to the front of init's list. With three processes besides the
  kernel threads, fresh zombies can come in front of an old orphan forever, so no property
  says that each orphan is reaped, only that init does not sleep over one (`NoStrandedZombie`).
- An exec whose load fails exits with `mm == NULL` and so skips `put_files`
  (proc.c:536): the `files_struct` is lost, with the descriptor of the program.
- `alloc_pages(1)` with no free frame calls `swap_out` with `check_mm_struct`, which is
  NULL after boot, so the error paths for single pages are never taken; the models
  end there. `copy_range` asserts that it got its page.
- `mm_map` looks only for an area at its start address; an area that overlaps further
  up trips the assertion of `insert_vma_struct`.
- A store to a page that is mapped read-only is taken by `do_pgfault` for a swapped
  page: the page is replaced, its entry gets neither read nor write access, and the
  instruction faults forever (`Spoil` in `AddrSpace`). An access outside all areas
  panics the kernel. New stack pages are not cleared.
- Two processes at the KPU device share one request in global variables: the second
  overwrites it, or the first clears its flags on return, and one is never woken
  (dev_kpuio.c:101, 140, 127, 150), although doc/kpulab.md:523 describes a test in which forked
  processes each write an image and read until the task is done. A reader can also find
  the status of the other one in the buffer, or the buffer freed (dev_kpuio.c:142). TLC finds both
  with two callers, one write or read each; `CallersReturn` and `StatusIsOwn` state where the line is. With
  images written in parts the controller can make a task of
  an incomplete image and free its blocks twice (dev_kpuio.c:178).
- After `MAX_TASKNUM` tasks the ids repeat while old tasks stay on the list, so the thread
  of a new task runs an old one (kpu_spooling.c:95), although the comment in line 84 says "try to run a new
  task". `ThreadTask` says which one. The flags of a new task are or-ed
  into uninitialised memory (kpu_spooling.c:176), and a status asked for follows the pointer of a
  task to a `proc_struct` that may be gone (line 64).

Files:

- `vfs_open` with `O_CREAT|O_EXCL` of an existing file keeps a reference
  (vfsfile.c:46), which `CountsExact` allows for by counting it in `lost`; `O_CREAT` of a missing name calls a `vop_create` that no file system
  has, and panics.
- `sysfile_write` writes to descriptors 1 and 2 only; with any other writable one its
  loop makes no progress and never ends, with interrupts off (sysfile.c:159).
- A key that arrives when the ring is full is stored over the oldest unread one
  (dev_stdin.c:35); `KeysInOrder` ends there. A killed reader that input has woken too goes back to sleep if
  another process took the byte (dev_stdin.c:69), and a second kill does nothing;
  `KilledReaderLeaves` is about readers whom only the kill has woken.
- `sfs_bmap_load_nolock` raises the count of blocks of an inode and leaves `dirty` as it is
  (sfs_inode.c:365), while sfs.h:72 calls the flag "true if inode modified". A growth that
  fails on a full disk after that leaves an inode that is clean and differs from the disk; a
  reclaim drops the count. `CleanIsSynced` and `DirtyFlagsSound` say that nothing else
  can differ.
- On a full disk a growth that fails has already counted its block: a later
  `O_TRUNC` of the then empty file fails the assertion sfs_inode.c:945. If another
  opener truncates a file, a write at the old position fails the one in line 356. A
  write that the full disk stops at once still moves the end of the file to its
  position.

Drivers:

- `sd_query_capacity_status` tests a counter that has wrapped (sdcard.c:385): it never
  sees an exhausted loop and rejects a success in the last round. Commands that
  fail before their data return without `sd_end_cmd`. Writes of several sectors send
  no stop token, ACMD23 is sent without CMD55, and the wait for a busy card after a write has no bound.
- `spi_clk_init` passes the number of a clock where one of a threshold is expected;
  for SPI1 it clears the divider of I2S0. `spi_set_clk_rate` rounds the divider down,
  so the clock can be faster than asked for. `gpiohs_set_drive_mode` sets the bit of
  the pin, not of the channel.
- The search for PLL parameters never tries the multiplier 64, and a request it
  cannot meet returns 0 but restarts the PLL at its old setting.

Code without a module: `kmalloc` of 8193 bytes gets a block of two pages
(`find_order`), and sizes of 4064 to 4079 trip an assertion (kmalloc.c:100); strides are compared as
32-bit differences although sleepers and new processes can be arbitrarily far
behind (default_sched_stride.c:20).

## 6. Not modelled, and what comes next

- The stride class: `Stride` with strides and priorities at a scaled width would
  justify the fairness that `Proc` assumes. The kernel heap: the slob list.
- Further proofs: `FramesAccounted` for `Vmm`, with one lemma per operator of `Paging`
  and the ownership of frames in place of that of blocks; then the refinements
  `ImplementsSpaces` and `ImplementsFiles` on top of the two accountings; `PllBest`.
- vfs operations that no file system of the repository implements (rename, link,
  mkdir and others), `sfs_namefile`, output devices: no state, or not reachable.
- The waits of the drivers that `KernInitEnds` covers are those for the card in the boot; the poll for the end of
  the reset in `dmac_init` is taken to end, and the wait for a busy card after a write has no bound.
- DMA transfers, the interrupt controller and the layers of the KPU: register
  sequences whose effect is outside the kernel. Image decoding and the neural
  network code: numeric, in large part third-party; one step of a worker thread here.
- Boot-time self checks and kernel debugging. User programs are the environment of
  the models. Swapping out never happens.
