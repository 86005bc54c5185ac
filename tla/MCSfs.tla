------------------------------- MODULE MCSfs -------------------------------
EXTENDS Sfs

Sym == Permutations(Handles)

\* What a later call can see: not the words of a free block (cleared when it is
\* allocated), nor the copy on disk of an inode or freemap that is dirty in memory.
Seen ==
    LET live == IF phase = "mounted" THEN fs.freemap ELSE disk.freemap
        all  == <<disk, fs, sin, fd, call>>
    IN  <<all = all, phase, next_ino, made, fs, sin, fd, bootfs,
          [b \in Blocks \ live |-> disk.blk[b]],
          [i \in DOMAIN disk.inode |-> IF i \in DOMAIN sin /\ sin[i].dirty THEN <<>> ELSE disk.inode[i]],
          IF fs.super_dirty THEN <<>> ELSE <<disk.freemap, disk.super>>>>
=============================================================================
