----------------------------- MODULE AddrSpace -----------------------------
(***************************************************************************)
(* What the kernel promises about the memory of processes, without frames, *)
(* page tables or areas: every process has pages of its own; fork copies   *)
(* them, exec replaces them by what the program file says, and nothing     *)
(* another process does changes them.                                      *)
(***************************************************************************)
EXTENDS Integers, Sequences, FiniteSets

CONSTANTS Procs, Images, Pages, Index, StackPages, Loaded, FileWord, ArgWord, ZeroWord, ReadWrite, NoAccess

VARIABLES live,    \* the processes
          space,   \* space[p][va]: the access p has to a page and the page's words
          halted   \* the kernel has stopped

Empty == [va \in {} |-> 0]
Cells == Cardinality(Index)

Init == space = [p \in Procs |-> Empty] /\ Cardinality(live) = 1 /\ ~halted

OthersKeep(p) == \A q \in Procs \ {p} : space'[q] = space[q]

Fork(p, q) ==
    /\ p \in live /\ q \notin live /\ live' = live \cup {q}
    /\ space' = [space EXCEPT ![q] = space[p]]

Exit(p) ==
    /\ p \in live /\ live' = live \ {p}
    /\ space' = [space EXCEPT ![p] = Empty]

\* a page of a program: the words of the file, zeros up to the size in memory; what
\* else is in the page is not said
SegmentPages(seg) == {va \in Pages : Cells * va < seg.va + seg.memsz /\ seg.va < Cells * va + Cells}
SegmentShown(seg, new) ==
    \A c \in seg.va .. seg.va + seg.memsz - 1 :
        new[c \div Cells].words[c % Cells] = IF c < seg.va + seg.filesz THEN FileWord ELSE ZeroWord
Exec(p, image) ==
    /\ p \in live /\ live' = live
    /\ OthersKeep(p)
    /\ DOMAIN space'[p] = Loaded \cup UNION {SegmentPages(image.segs[i]) : i \in DOMAIN image.segs}
    /\ \A i \in DOMAIN image.segs : SegmentShown(image.segs[i], space'[p])
    /\ \E va \in Loaded : space'[p][va].words[Cells-1] = ArgWord

Store(p, va) ==
    /\ p \in live /\ va \in DOMAIN space[p] /\ space[p][va].perm = ReadWrite
    /\ space' = [space EXCEPT ![p][va].words[0] = p]
    /\ UNCHANGED live

\* the stack grows by a page of unknown words
Grow(p, va) ==
    /\ p \in live /\ va \in StackPages \ DOMAIN space[p] /\ UNCHANGED live
    /\ OthersKeep(p)
    /\ DOMAIN space'[p] = DOMAIN space[p] \cup {va}
    /\ space'[p][va].perm = ReadWrite
    /\ \A v \in DOMAIN space[p] : space'[p][v] = space[p][v]

\* a store to a page that is not writable costs the process that page
Spoil(p, va) ==
    /\ p \in live /\ va \in DOMAIN space[p] /\ space[p][va].perm # ReadWrite /\ UNCHANGED live
    /\ space' = [space EXCEPT ![p][va] = [perm |-> NoAccess, words |-> space'[p][va].words]]

Halt == halted'

Next ==
    \/ Halt
    \/ /\ UNCHANGED halted
       /\ \/ \E p, q \in Procs : Fork(p, q)
          \/ \E p \in Procs : Exit(p)
          \/ \E p \in Procs, image \in Images : Exec(p, image)
          \/ \E p \in Procs, va \in Pages : Store(p, va) \/ Grow(p, va) \/ Spoil(p, va)

Spec == Init /\ [][Next]_<<live, space, halted>>
=============================================================================
