------------------------------- MODULE Paging -------------------------------
(***************************************************************************)
(* Page tables, as kern/mm/pmm.c builds and takes them apart.  A frame of  *)
(* physical memory has N cells, which hold N words of a program or the N   *)
(* entries of a table, as PGSIZE = 8 * NPTEENTRY says.  Three levels of    *)
(* tables translate page numbers 0 .. N^3 - 1; page number va covers the   *)
(* cells N*va .. N*va + N - 1 of an address space.                         *)
(*                                                                         *)
(* Every function of the code is an operator from a record k of the        *)
(* physical memory to the record the call leaves behind:                   *)
(*   free  the free frames            ref   struct Page's reference counts *)
(*   mem   the cells of every frame   ok    FALSE once the kernel has      *)
(*   page  the frame returned last          crashed                        *)
(*   pte   the entry returned last, as a frame and an index                *)
(***************************************************************************)
EXTENDS Integers, Sequences, FiniteSets, FiniteSetsExt, SequencesExt

CONSTANTS N,         \* cells of a frame, NPTEENTRY
          NFRAMES,   \* frames 1 .. NFRAMES the address spaces may use
          IoPages    \* page numbers the devices are mapped at, in every space

ASSUME PagingAssumption ==
    N \in Nat /\ N >= 2 /\ NFRAMES \in Nat \ {0} /\ IoPages \subseteq 0..N^3-1

Frames == 1..NFRAMES
Index == 0..N-1
NULL == 0
NoPte == <<0, 0>>
ZeroFrame == [i \in Index |-> 0]

\* a valid entry holds a frame number and what a program may do there
NoAccess == 0     \* PTE_U only; as a leaf it lets nothing through
ReadOnly == 1     \* PTE_U | PTE_R
ReadWrite == 2    \* PTE_U | PTE_R | PTE_W
KernelOnly == 3   \* no PTE_U
pte_create(f, perm) == 4 * f + perm
Valid(e) == e > 0
FrameOf(e) == e \div 4
PermOf(e) == e % 4

PDX1(va) == va \div (N * N)
PDX0(va) == (va \div N) % N
PTX(va) == va % N
PTSIZE == N
PDSIZE == N * N
ROUNDDOWN(a, n) == a - (a % n)

\* the loop "do { ... start += PGSIZE } while (start < end)"; where a table is missing the
\* code goes on at the next table, which skips pages that Op leaves alone
EachPage(Op(_, _), k, start, end) == FoldLeft(Op, k, [i \in 1..end-start |-> start + i - 1])

\* alloc_pages(1): no frame is left to swap out, for check_mm_struct is NULL,
\* and swap_out_victim follows it
alloc_page(k) ==
    IF k.free = {} THEN [k EXCEPT !.ok = FALSE, !.page = NULL]
    ELSE [k EXCEPT !.free = @ \ {Min(k.free)}, !.page = Min(k.free)]

free_page(k, f) == [k EXCEPT !.free = @ \cup {f}, !.ref[f] = 0]

SetEntry(k, p, e) == [k EXCEPT !.mem[p[1]][p[2]] = e]
Entry(k, p) == k.mem[p[1]][p[2]]

\* one level of get_pte: the table an entry points to, made if asked for
TableMade(k, p) ==
    IF ~k.ok THEN k
    ELSE SetEntry([k EXCEPT !.ref[k.page] = 1, !.mem[k.page] = ZeroFrame], p, pte_create(k.page, NoAccess))
Descend(k, p, create) ==
    IF Valid(Entry(k, p)) THEN [k EXCEPT !.page = FrameOf(Entry(k, p))]
    ELSE IF create THEN TableMade(alloc_page(k), p)
    ELSE [k EXCEPT !.page = NULL]

AtIndex(k, i) == [k EXCEPT !.pte = IF k.page = NULL THEN NoPte ELSE <<k.page, i>>]
Level0(k, va, create) ==
    IF k.page = NULL THEN [k EXCEPT !.pte = NoPte]
    ELSE AtIndex(Descend(k, <<k.page, PDX0(va)>>, create), PTX(va))
get_pte(k, pgdir, va, create) == Level0(Descend(k, <<pgdir, PDX1(va)>>, create), va, create)

\* the frame a valid entry p points to loses a reference, and is free without any
Unreferenced(k, f) == IF k.ref[f] = 1 THEN free_page(k, f) ELSE [k EXCEPT !.ref[f] = @ - 1]
page_remove_pte(k, p) ==
    IF Valid(Entry(k, p)) THEN SetEntry(Unreferenced(k, FrameOf(Entry(k, p))), p, 0) ELSE k

\* page_insert once get_pte has answered
InsertAtPte(k, f, perm) ==
    LET counted == [k EXCEPT !.ref[f] = @ + 1]
        e == Entry(k, k.pte)
    IN  SetEntry(IF ~Valid(e) THEN counted
                 ELSE IF FrameOf(e) = f THEN k
                 ELSE page_remove_pte(counted, k.pte),
                 k.pte, pte_create(f, perm))
Inserted(k, f, perm) == IF k.pte = NoPte THEN k ELSE InsertAtPte(k, f, perm)
page_insert(k, pgdir, f, va, perm) == Inserted(get_pte(k, pgdir, va, TRUE), f, perm)

\* leaves the new page in page
NewPage(k, pgdir, va, perm) ==
    IF k.ok THEN [page_insert(k, pgdir, k.page, va, perm) EXCEPT !.page = k.page] ELSE k
pgdir_alloc_page(k, pgdir, va, perm) == NewPage(alloc_page(k), pgdir, va, perm)

-----------------------------------------------------------------------------
(* Ranges of pages.                                                        *)

unmap_pte(k) == IF k.pte = NoPte THEN k ELSE page_remove_pte(k, k.pte)
unmap_page(k, pgdir, va) == unmap_pte(get_pte(k, pgdir, va, FALSE))
unmap_range(k, pgdir, start, end) == EachPage(LAMBDA kk, va : unmap_page(kk, pgdir, va), k, start, end)

\* tables are freed when no entry of them is valid
try_to_free_table(k, p) ==
    IF \E i \in Index : Valid(k.mem[FrameOf(Entry(k, p))][i]) THEN k
    ELSE SetEntry(free_page(k, FrameOf(Entry(k, p))), p, 0)

\* the table at entry q of a level 0 directory
exit_table(k, q) == IF Valid(Entry(k, q)) THEN try_to_free_table(k, q) ELSE k
\* the level 0 directory at entry p, for the tables d0start, d0start + PTSIZE, ... below end
TableStarts(d0start, end) ==
    SelectSeq([i \in 1..N |-> ROUNDDOWN(d0start, PDSIZE) + (i - 1) * PTSIZE],
              LAMBDA d : d0start <= d /\ (d = d0start \/ d < end))
exit_directory(k, p, d0start, end) ==
    IF ~Valid(Entry(k, p)) THEN k
    ELSE try_to_free_table(FoldLeft(LAMBDA kk, d0 : exit_table(kk, <<FrameOf(Entry(kk, p)), PDX0(d0)>>),
                                    k, TableStarts(d0start, end)), p)

DirectoryStarts(start, end) ==
    SelectSeq([i \in 1..N |-> (i - 1) * PDSIZE], LAMBDA d : ROUNDDOWN(start, PDSIZE) <= d /\ (d <= start \/ d < end))
exit_range(k, pgdir, start, end) ==
    FoldLeft(LAMBDA kk, d1 : exit_directory(kk, <<pgdir, PDX1(d1)>>,
                                            IF d1 <= start THEN ROUNDDOWN(start, PTSIZE) ELSE d1, end),
             k, DirectoryStarts(start, end))

\* copy_range for the page at entry e of the old space: a frame of its own, with the same words
PageCopied(k, to, va, e) ==
    IF k.ok THEN page_insert([k EXCEPT !.mem[k.page] = k.mem[FrameOf(e)]], to, k.page, va, PermOf(e)) ELSE k
TableReady(k, to, va, e) == IF k.ok THEN PageCopied(alloc_page(k), to, va, e) ELSE k
copy_entry_Shared(k, to, va, e) == page_insert(k, to, FrameOf(e), va, PermOf(e))
copy_entry(k, to, va, e) == TableReady(get_pte(k, to, va, TRUE), to, va, e)
copy_pte(k, to, va) ==
    IF k.pte = NoPte THEN k
    ELSE IF Valid(Entry(k, k.pte)) THEN copy_entry(k, to, va, Entry(k, k.pte))
    ELSE k
copy_page(k, to, from, va) == IF k.ok THEN copy_pte(get_pte(k, from, va, FALSE), to, va) ELSE k

copy_range(k, to, from, start, end) == EachPage(LAMBDA kk, va : copy_page(kk, to, from, va), k, start, end)

-----------------------------------------------------------------------------
(* A page directory, with the devices mapped in it.                        *)

MapAtPte(k, e) == IF k.pte = NoPte THEN [k EXCEPT !.ok = FALSE] ELSE SetEntry(k, k.pte, e)
boot_map_page(k, pgdir, va, e) == IF k.ok THEN MapAtPte(get_pte(k, pgdir, va, TRUE), e) ELSE k

\* a device page has a frame number beyond the memory's
DeviceEntry(va) == pte_create(NFRAMES + 1 + va, KernelOnly)
setup_kernel_io_mapping(k, pgdir) ==
    FoldSet(LAMBDA va, kk : boot_map_page(kk, pgdir, va, DeviceEntry(va)), k, IoPages)

ClearPte(k) == IF k.pte = NoPte THEN k ELSE SetEntry(k, k.pte, 0)
unmap_range_io(k, pgdir) == FoldSet(LAMBDA va, kk : ClearPte(get_pte(kk, pgdir, va, FALSE)), k, IoPages)
free_kernel_io_mapping(k, pgdir) ==
    FoldSet(LAMBDA va, kk : exit_range(kk, pgdir, va, va + 1), unmap_range_io(k, pgdir), IoPages)

\* leaves the new directory in page
NewDirectory(k) ==
    IF k.ok THEN [setup_kernel_io_mapping([k EXCEPT !.mem[k.page] = ZeroFrame], k.page) EXCEPT !.page = k.page]
    ELSE k
setup_pgdir(k) == NewDirectory(alloc_page(k))

put_pgdir(k, pgdir) == free_page(free_kernel_io_mapping(k, pgdir), pgdir)
=============================================================================
