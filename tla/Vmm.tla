-------------------------------- MODULE Vmm --------------------------------
(***************************************************************************)
(* Address spaces of processes: struct mm_struct with its areas            *)
(* (kern/mm/vmm.c), built by fork and exec and given back by exit          *)
(* (kern/process/proc.c), on the page tables of Paging.  System calls are  *)
(* not preempted and nothing here sleeps, so a call is one action; what    *)
(* interleaves is the calls, stores and page faults of the processes.      *)
(* A user fork passes no CLONE_VM: an mm belongs to one process.           *)
(***************************************************************************)
EXTENDS Paging

CONSTANTS Procs,        \* process slots; a process stores its own (negative) number
          First,        \* the kernel thread user_main
          Images,       \* program files: elf, and segments [va, filesz, memsz, flags, bad]
          USERBASE, USERTOP, \* pages of user space
          USTACKPAGE,   \* pages of the stack's area
          LOADED,       \* stack pages mapped by load_icode
          MaxSteps      \* bound on calls, stores and faults

ASSUME VmmAssumption ==
    /\ First \in Procs /\ \A p \in Procs : p \in Int /\ p < -9
    /\ USERBASE \in Nat /\ USERTOP \in 0..N^3 /\ LOADED \in 1..USTACKPAGE /\ MaxSteps \in Nat

VARIABLES k,        \* physical memory, as in Paging
          kind,     \* kind[p]: "none", "kernel" (no mm) or "user"
          mm,       \* mm[p]: the address space
          faulting, \* faulting[p]: the page whose store faults again and again, or -1
          panic,    \* the kernel has stopped
          space,    \* space[p]: the pages the hardware finds for p, with their words
          steps     \* steps taken

vars == <<k, kind, mm, faulting, panic, space, steps>>

\* words of a program
ZERO == 0
FILEWORD == -1    \* a word of a program file
ARGWORD == -2     \* a word of argc and argv
SWAPWORD == -3    \* what the swap disk holds
STALE == -9       \* left in a frame since boot

NoVma == [start |-> 0, end |-> 0, flags |-> {}]
NoMm == [pgdir |-> NULL, vmas |-> <<>>, cache |-> NoVma, count |-> 0]
mm_create == NoMm

-----------------------------------------------------------------------------
(* Areas.                                                                  *)

Covers(vma, va) == vma.start <= va /\ va < vma.end
Area(m, va) ==
    IF \E i \in DOMAIN m.vmas : Covers(m.vmas[i], va)
    THEN m.vmas[Min({i \in DOMAIN m.vmas : Covers(m.vmas[i], va)})] ELSE NoVma

find_vma(m, va) == IF Covers(m.cache, va) THEN m.cache ELSE Area(m, va)
\* find_vma remembers what it found
Remember(m, vma) == IF vma = NoVma THEN m ELSE [m EXCEPT !.cache = vma]

Overlaps(prev, next) == ~(prev.start < prev.end /\ prev.end <= next.start /\ next.start < next.end)
\* where an area goes: after the areas that do not start later
InsertPlace(m, vma) == Cardinality({i \in DOMAIN m.vmas : \A j \in 1..i : m.vmas[j].start <= vma.start})
insert_asserts(m, vma) ==
    LET i == InsertPlace(m, vma) IN
    /\ vma.start < vma.end
    /\ i > 0 => ~Overlaps(m.vmas[i], vma)
    /\ i < Len(m.vmas) => ~Overlaps(vma, m.vmas[i+1])
insert_vma_struct(m, vma) == [m EXCEPT !.vmas = InsertAt(@, InsertPlace(m, vma) + 1, vma)]

\* building an address space: the memory, the mm so far, and what is returned
World(kk, m, ret) == [k |-> kk, m |-> m, ret |-> ret]
Fails(w, ret) == [w EXCEPT !.ret = ret]
Crash(w) == [w EXCEPT !.k.ok = FALSE]
Goes(w) == w.k.ok /\ w.ret = "ok"

USER_ACCESS(start, end) == USERBASE <= start /\ start < end /\ end <= USERTOP

\* pages of the cells va .. va + len - 1
FirstPage(va) == va \div N
EndPage(va, len) == (va + len + N - 1) \div N

AreaAdded(w, vma) ==
    IF insert_asserts(w.m, vma) THEN [w EXCEPT !.m = insert_vma_struct(@, vma)] ELSE Crash(w)
MapFound(w, old, new) ==
    IF old # NoVma /\ new.end > old.start THEN Fails([w EXCEPT !.m = Remember(@, old)], "inval")
    ELSE AreaAdded([w EXCEPT !.m = Remember(@, old)], new)
mm_map(w, va, len, flags) ==
    LET start == FirstPage(va)
        end == EndPage(va, len)
    IN  IF ~USER_ACCESS(start, end) THEN Fails(w, "inval")
        ELSE MapFound(w, find_vma(w.m, start), [start |-> start, end |-> end, flags |-> flags])

exit_mmap(kk, m) ==
    FoldLeft(LAMBDA x, vma : exit_range(x, m.pgdir, vma.start, vma.end),
             FoldLeft(LAMBDA x, vma : unmap_range(x, m.pgdir, vma.start, vma.end), kk, m.vmas),
             m.vmas)

\* an address space is given back when its last process leaves it
Released(kk, m) ==
    IF m.count - 1 = 0 THEN put_pgdir(exit_mmap(kk, m), m.pgdir) ELSE kk

dup_area(w, from, vma) ==
    IF Goes(w) THEN [w EXCEPT !.m = insert_vma_struct(@, vma),
                              !.k = copy_range(@, w.m.pgdir, from.pgdir, vma.start, vma.end)]
    ELSE w
dup_mmap(w, from) == FoldLeft(LAMBDA x, vma : dup_area(x, from, vma), w, Reverse(from.vmas))

\* mm_create, once setup_pgdir has answered
NewMm(kk) == World(kk, [mm_create EXCEPT !.pgdir = kk.page], "ok")
copy_mm(kk, from) == [dup_mmap(NewMm(setup_pgdir(kk)), from) EXCEPT !.m.count = 1]

-----------------------------------------------------------------------------
(* load_icode.                                                             *)

\* cells from .. to - 1 of a frame's page get word
Filled(kk, f, va, from, to, word) ==
    [kk EXCEPT !.mem[f] = [i \in Index |-> IF from <= N*va + i /\ N*va + i < to THEN word ELSE @[i]]]

\* a page of a segment, once it is mapped: the words of the file, then zeros.  Reading
\* the words may fail
PageFilled(kk, seg, va) ==
    Filled(Filled(kk, kk.page, va, seg.va, seg.va + seg.filesz, FILEWORD),
           kk.page, va, seg.va + seg.filesz, seg.va + seg.memsz, ZERO)
PageLoaded(w, seg, va) ==
    IF ~w.k.ok THEN w
    ELSE IF seg.bad = "words" /\ seg.filesz > 0 /\ va < EndPage(seg.va, seg.filesz) THEN Fails(w, "read")
    ELSE [w EXCEPT !.k = PageFilled(@, seg, va)]
load_page(w, seg, va) ==
    IF Goes(w)
    THEN PageLoaded([w EXCEPT !.k = pgdir_alloc_page(@, w.m.pgdir, va, IF "w" \in seg.flags THEN ReadWrite ELSE ReadOnly)],
                    seg, va)
    ELSE w
load_pages(w, seg, start, end) ==
    FoldLeft(LAMBDA x, va : load_page(x, seg, va), w, [i \in 1..end-start |-> start + i - 1])

load_segment(w, seg) ==
    IF ~Goes(w) THEN w
    ELSE IF seg.bad = "header" THEN Fails(w, "read")
    ELSE IF seg.filesz > seg.memsz THEN Fails(w, "inval_elf")
    ELSE load_pages(mm_map(w, seg.va, seg.memsz, seg.flags), seg, FirstPage(seg.va), EndPage(seg.va, seg.memsz))

StackTop == USERTOP
StackFlags == {"r", "w", "stack"}
ArgsAtPte(kk) == [kk EXCEPT !.mem[FrameOf(Entry(kk, kk.pte))][N-1] = ARGWORD]
\* argc and argv are stored through the new page tables
load_args(w) ==
    IF Goes(w) THEN [w EXCEPT !.m.count = 1, !.k = ArgsAtPte(get_pte(@, w.m.pgdir, StackTop - 1, FALSE))] ELSE w
stack_page(w, va) == IF Goes(w) THEN [w EXCEPT !.k = pgdir_alloc_page(@, w.m.pgdir, va, ReadWrite)] ELSE w
stack_mapped(w) == FoldLeft(stack_page, w, [i \in 1..LOADED |-> StackTop - i])
load_stack(w) ==
    IF Goes(w) THEN load_args(stack_mapped(mm_map(w, N * (StackTop - USTACKPAGE), N * USTACKPAGE, StackFlags))) ELSE w

bad_cleanup_mmap_Forgotten(w) == World(put_pgdir(w.k, w.m.pgdir), NoMm, w.ret)
bad_cleanup_mmap(w) == World(put_pgdir(exit_mmap(w.k, w.m), w.m.pgdir), NoMm, w.ret)
bad_elf_cleanup_pgdir(w) == World(put_pgdir(w.k, w.m.pgdir), NoMm, "inval_elf")
load_done(w) == IF w.k.ok /\ w.ret # "ok" THEN bad_cleanup_mmap(w) ELSE w
load_image(w, image) ==
    IF ~w.k.ok THEN w
    ELSE IF ~image.elf THEN bad_elf_cleanup_pgdir(w)
    ELSE load_done(load_stack(FoldLeft(load_segment, w, image.segs)))
load_icode(kk, image) == load_image(NewMm(setup_pgdir(kk)), image)

-----------------------------------------------------------------------------
(* Page faults, and checks of user addresses.                              *)

\* the swap disk answers with whatever it holds, whatever the entry
SwapRead(kk) == IF kk.ok THEN [kk EXCEPT !.mem[kk.page] = [i \in Index |-> SWAPWORD]] ELSE kk
swap_in(kk) == SwapRead(alloc_page(kk))

\* a page that is not mapped gets a frame; an entry that is there is taken for a swap entry
SwappedIn(w, va, perm) ==
    IF w.k.ok THEN [w EXCEPT !.k = page_insert(@, w.m.pgdir, w.k.page, va, perm)] ELSE w
FaultAtPte(w, va, perm) ==
    IF ~w.k.ok THEN w
    ELSE IF Entry(w.k, w.k.pte) = 0 THEN [w EXCEPT !.k = pgdir_alloc_page(@, w.m.pgdir, va, perm)]
    ELSE SwappedIn([w EXCEPT !.k = swap_in(@)], va, perm)
FaultInArea(kk, m, vma, va) ==
    IF vma = NoVma THEN World(kk, m, "inval")
    ELSE FaultAtPte(World(get_pte(kk, m.pgdir, va, TRUE), Remember(m, vma), "ok"),
                    va, IF "w" \in vma.flags THEN ReadWrite ELSE NoAccess)
do_pgfault(kk, m, va) == FaultInArea(kk, m, find_vma(m, va), va)

\* cells addr .. addr + len - 1, area by area; the lowest page of the stack is a guard
AreaAllows_AnyWrite(vma, start, write) == "r" \in vma.flags
AreaAllows(vma, start, write) ==
    /\ (IF write THEN "w" ELSE "r") \in vma.flags
    /\ write /\ "stack" \in vma.flags => start >= N * (vma.start + 1)
Starts(m, addr, len) == {addr} \cup {c \in addr..addr+len-1 : \E i \in DOMAIN m.vmas : c = N * m.vmas[i].end}
user_mem_check(m, addr, len, write) ==
    /\ N * USERBASE <= addr /\ len > 0 /\ addr + len <= N * USERTOP
    /\ \A c \in Starts(m, addr, len) :
          \E vma \in {find_vma(m, c \div N)} : vma # NoVma /\ AreaAllows(vma, c, write)

-----------------------------------------------------------------------------
(* The hardware.                                                           *)

\* what the hardware finds for a page: a leaf entry, or 0
LeafAt(kk) == IF kk.pte = NoPte THEN 0 ELSE Entry(kk, kk.pte)
Leaf(kk, m, va) == LeafAt(get_pte(kk, m.pgdir, va, FALSE))

UserPages == USERBASE..USERTOP-1
PageSeen(kk, e) == [perm |-> PermOf(e), words |-> kk.mem[FrameOf(e)]]
Reached(leaf) == {va \in UserPages : Valid(leaf[va]) /\ PermOf(leaf[va]) # KernelOnly}
SpaceOf(kk, leaf) == [va \in Reached(leaf) |-> PageSeen(kk, leaf[va])]
NoSpace == [va \in {} |-> 0]
Space(kk, m) == IF m = NoMm THEN NoSpace ELSE SpaceOf(kk, [va \in UserPages |-> Leaf(kk, m, va)])

-----------------------------------------------------------------------------
(* The processes.                                                          *)

Init ==
    /\ k = [free |-> Frames, mem |-> [f \in Frames |-> [i \in Index |-> STALE]],
            ref |-> [f \in Frames |-> 0], ok |-> TRUE, page |-> NULL, pte |-> NoPte]
    /\ kind = [p \in Procs |-> IF p = First THEN "kernel" ELSE "none"]
    /\ mm = [p \in Procs |-> NoMm]
    /\ faulting = [p \in Procs |-> -1]
    /\ panic = FALSE
    /\ space = [p \in Procs |-> NoSpace]
    /\ steps = 0

Runs(p) == ~panic /\ kind[p] # "none" /\ faulting[p] = -1

\* after a step; the scratch fields of k are not part of the state
Becomes(kk, stopped) ==
    /\ k' = [kk EXCEPT !.page = NULL, !.pte = NoPte]
    /\ panic' = (stopped \/ ~kk.ok)
    /\ steps < MaxSteps /\ steps' = steps + 1
    /\ space' = IF panic' THEN space ELSE [p \in Procs |-> Space(k', mm'[p])]

Fork(p, q) ==
    /\ Runs(p) /\ kind[q] = "none"
    /\ kind' = [kind EXCEPT ![q] = kind[p]]
    /\ \E w \in {IF kind[p] = "kernel" THEN World(k, NoMm, "ok") ELSE copy_mm(k, mm[p])} :
          /\ mm' = [mm EXCEPT ![q] = w.m]
          /\ Becomes(w.k, FALSE)
    /\ UNCHANGED faulting

Leaves(p) ==
    /\ kind' = [kind EXCEPT ![p] = "none"]
    /\ mm' = [mm EXCEPT ![p] = NoMm]
    /\ faulting' = [faulting EXCEPT ![p] = -1]

\* do_exit; a process that faults again and again can still be killed
Exit(p) ==
    /\ ~panic /\ kind[p] # "none"
    /\ Leaves(p)
    /\ Becomes(IF kind[p] = "user" THEN Released(k, mm[p]) ELSE k, FALSE)

\* do_execve: without a file to open, or after a failed load_icode, the process exits
Exec(p, image) ==
    /\ Runs(p)
    /\ \E w \in {load_icode(IF kind[p] = "user" THEN Released(k, mm[p]) ELSE k, image)} :
          /\ IF w.ret = "ok"
             THEN /\ mm' = [mm EXCEPT ![p] = w.m]
                  /\ kind' = [kind EXCEPT ![p] = "user"]
                  /\ UNCHANGED faulting
             ELSE Leaves(p)
          /\ Becomes(w.k, FALSE)

\* a store of a program's own, to the first cell of a page
Store(p, va) ==
    /\ Runs(p) /\ kind[p] = "user"
    /\ \E e \in {Leaf(k, mm[p], va)} :
          /\ PermOf(e) = ReadWrite
          /\ UNCHANGED <<kind, mm, faulting>>
          /\ Becomes([k EXCEPT !.mem[FrameOf(e)][0] = p], FALSE)

\* a store the hardware refuses: do_pgfault, then the same instruction again
Fault(p, va) ==
    /\ ~panic /\ kind[p] = "user" /\ faulting[p] \in {-1, va}
    /\ PermOf(Leaf(k, mm[p], va)) # ReadWrite
    /\ \E w \in {do_pgfault(k, mm[p], va)} :
          /\ mm' = [mm EXCEPT ![p] = w.m]
          /\ faulting' = [faulting EXCEPT ![p] = IF PermOf(Leaf(w.k, w.m, va)) = ReadWrite THEN -1 ELSE va]
          /\ Becomes(w.k, w.ret # "ok")
    /\ UNCHANGED kind

Next ==
    \/ \E p, q \in Procs : Fork(p, q)
    \/ \E p \in Procs : Exit(p)
    \/ \E p \in Procs, image \in Images : Exec(p, image)
    \/ \E p \in Procs, va \in UserPages : Store(p, va) \/ Fault(p, va)

Spec == Init /\ [][Next]_vars

-----------------------------------------------------------------------------
(* Properties.                                                             *)

Users == {p \in Procs : kind[p] = "user"}

\* every place that refers to a frame, with the frame: the mm of a process, and the
\* entries of its three levels of tables
ValidEntries(f) == {<<f, i>> : i \in {i \in Index : Valid(k.mem[f][i])}}
Below(places) == UNION {ValidEntries(FrameOf(Entry(k, q))) : q \in places}
Level1(p) == ValidEntries(mm[p].pgdir)
References ==
    {<<<<p, 0>>, mm[p].pgdir>> : p \in Users} \cup
    UNION {LET l1 == Level1(p)
               l0 == Below(l1)
               leaves == {q \in Below(l0) : FrameOf(Entry(k, q)) \in Frames}
           IN  {<<q, FrameOf(Entry(k, q))>> : q \in l1 \cup l0 \cup leaves} : p \in Users}

(* Frames are neither lost nor shared: through every sequence of fork,     *)
(* exec, exit and page faults, and the cleanup of a load_icode that fails  *)
(* half way, a frame is free or is referred to from exactly one place.     *)
FramesAccounted ==
    panic \/ LET refs == References IN
             /\ {r[2] : r \in refs} = Frames \ k.free
             /\ Cardinality(refs) = Cardinality(Frames \ k.free)

(* What user_mem_check accepts can be used without stopping the kernel:    *)
(* every cell of the range is in a page with the access asked for, or in   *)
(* one that do_pgfault will map so.                                        *)
Usable(p, va, write) ==
    IF va \in DOMAIN space[p]
    THEN space[p][va].perm = ReadWrite \/ (~write /\ space[p][va].perm = ReadOnly)
    ELSE "w" \in Area(mm[p], va).flags
ChecksAreSound ==
    \A p \in {p \in Users : Runs(p)} : \A a \in 0..N^4-1, len \in 1..N+1, write \in BOOLEAN :
        user_mem_check(mm[p], a, len, write) =>
            \A c \in a..a+len-1 : Usable(p, c \div N, write)

Spaces == INSTANCE AddrSpace WITH
    Pages <- UserPages, StackPages <- StackTop-USTACKPAGE..StackTop-1,
    Loaded <- StackTop-LOADED..StackTop-1,
    FileWord <- FILEWORD, ArgWord <- ARGWORD, ZeroWord <- ZERO,
    live <- {p \in Procs : kind[p] # "none"},
    halted <- panic

(* Address spaces are private: what a process finds in its memory is what  *)
(* its program file, its parent and its own stores put there, whatever     *)
(* frames fork, exec, exit and page faults of others free and reuse.       *)
ImplementsSpaces == Spaces!Spec
=============================================================================
