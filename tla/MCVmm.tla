------------------------------- MODULE MCVmm -------------------------------
(***************************************************************************)
(* Address spaces of 8 pages of 2 cells, laid out as the linker script and *)
(* memlayout.h do: text from the second cell on, data in the next page,    *)
(* the devices in the lower half of the second directory, the stack at the *)
(* top.                                                                    *)
(***************************************************************************)
EXTENDS Vmm

mc_procs == {-11, -12}
mc_first == -11

Segment(va, filesz, memsz, flags, bad) ==
    [va |-> va, filesz |-> filesz, memsz |-> memsz, flags |-> flags, bad |-> bad]
Program(segs) == [elf |-> TRUE, segs |-> segs]

Text == Segment(1, 1, 1, {"r", "x"}, "no")
Data(filesz, memsz, bad) == Segment(2, filesz, memsz, {"r", "w"}, bad)

mc_images == {
    Program(<<Text, Data(1, 2, "no")>>),
    Program(<<Text, Data(1, 3, "no")>>),                              \* bss in a page of its own
    Program(<<Text, Data(1, 2, "header")>>),
    Program(<<Text, Data(1, 2, "words")>>),
    Program(<<Text, Data(2, 1, "no")>>),                              \* longer in the file than in memory
    Program(<<Segment(1, 1, 3, {"r", "x"}, "no"), Data(1, 2, "no")>>), \* data in a page of the text
    Program(<<Data(1, 2, "no"), Segment(1, 1, 2, {"r", "x"}, "no")>>), \* text up to the data
    [elf |-> FALSE, segs |-> <<>>] }
============================================================================
