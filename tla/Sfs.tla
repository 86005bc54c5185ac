-------------------------------- MODULE Sfs --------------------------------
(***************************************************************************)
(* The simple file system: the image tools/mksfs.c writes, and what        *)
(* kern/fs/sfs does with it from sfs_mount on.  A disk block is modelled   *)
(* by BLKSIZE words, so that it holds BLKSIZE words of a file or BLKSIZE   *)
(* entries of an index block, as SFS_BLK_NENTRY = SFS_BLKSIZE / 4 says.    *)
(* Nothing in these functions can block (the disk is a ramdisk and the     *)
(* kernel is not preemptive), so every call is one action.                 *)
(***************************************************************************)
EXTENDS Integers, Sequences, FiniteSets, SequencesExt

CONSTANTS BLKSIZE,        \* words in a block, and entries in an index block
          NDIRECT,        \* direct blocks of an inode
          NBLKS,          \* blocks of the image
          MAX_FILE_SIZE,  \* SFS_MAX_FILE_SIZE, in words
          Files,          \* files of the root directory; a file's name is the word written to it
          Handles,        \* open descriptors
          MkSizes,        \* sizes the files may have when the image is made
          IoSizes,        \* words asked for in one read or write, at most a block
          SeekTo,         \* positions asked for in a seek
          ListSlots       \* entries asked for in a listing, from 1 on

ASSUME SfsAssumption ==
    /\ BLKSIZE \in Nat /\ BLKSIZE >= 2 /\ NDIRECT \in Nat \ {0}
    /\ NBLKS \in Nat /\ NBLKS >= 6   \* with less there is no room for an empty root directory
    /\ MAX_FILE_SIZE \in Nat
    /\ Files \subseteq Nat \ {0} /\ IsFiniteSet(Files) /\ IsFiniteSet(Handles)
    /\ IoSizes \subseteq 1..BLKSIZE /\ SeekTo \subseteq Nat /\ ListSlots \subseteq Nat \ {0}
    \* what is put in the image needs no doubly indirect blocks, which the kernel cannot read
    /\ Cardinality(Files) + 2 <= NDIRECT + BLKSIZE
    /\ MkSizes \subseteq 0..(NDIRECT + BLKSIZE) * BLKSIZE

VARIABLES phase,     \* "mksfs", "unmounted", "mounted" or "panic"
          next_ino,  \* sfs_alloc_ino of mksfs: blocks below it are taken
          made,      \* the host files already added to the image
          disk,      \* the image: superblock, freemap, inodes, and all other blocks as words
          fs,        \* struct sfs_fs in memory: freemap, unused_blocks, super_dirty
          sin,       \* the inodes in memory (inode_list), by number
          fd,        \* fd[h]: the file a descriptor has open (0: none) and its position
          bootfs,    \* the root directory is held as bootfs_node
          call,      \* the last call: what it was, its file, position and the words it moved
          seen       \* what the block maps show: the words of the files and the names listed

state == <<phase, next_ino, made, disk, fs, sin, fd, bootfs, call>>
vars == <<state, seen>>

BLKN_SUPER == 0
BLKN_ROOT == 1
BLKN_FREEMAP == 2

Blocks == 0..NBLKS-1
Offsets == 0..BLKSIZE-1
ZeroBlock == [o \in Offsets |-> 0]
StaleBlock == [o \in Offsets |-> -9]   \* left in a free block
RoundUpDiv(a, b) == (a + b - 1) \div b

Closed == [file |-> 0, pos |-> 0]
NoCall == [op |-> "none", file |-> 0, pos |-> 0, data |-> <<>>]

\* names of the two entries every directory starts with
Dot == -1
DotDot == -2

\* struct sfs_disk_inode of a new inode
NewInode(type) == [size |-> 0, type |-> type, nlinks |-> 0, blocks |-> 0,
                   direct |-> [k \in 0..NDIRECT-1 |-> 0], indirect |-> 0]

-----------------------------------------------------------------------------
(* tools/mksfs.c.  img is [next, disk]: the tool hands out block numbers in   *)
(* order and never frees one.                                                 *)

\* append_block: block b becomes the last block of inode i; the index block is
\* allocated when the direct blocks are used up
append_block(img, i, size, b) ==
    LET din == img.disk.inode[i]
        n   == din.blocks
        ent == IF n < NDIRECT THEN din.indirect ELSE IF din.indirect = 0 THEN img.next ELSE din.indirect
        new == [din EXCEPT !.size = @ + size, !.blocks = @ + 1,
                           !.direct = IF n < NDIRECT THEN [@ EXCEPT ![n] = b] ELSE @,
                           !.indirect = ent]
    IN  [next |-> IF ent = din.indirect THEN img.next ELSE img.next + 1,
         disk |-> [img.disk EXCEPT !.inode[i] = new,
                                   !.blk = IF n < NDIRECT THEN @ ELSE [@ EXCEPT ![ent][n - NDIRECT] = b]]]

\* add_entry: a directory entry takes a block of its own, inode number and name
add_entry(img, dir, i, name) ==
    LET b == img.next
        written == [next |-> b + 1,
                    disk |-> [img.disk EXCEPT !.blk[b] = [ZeroBlock EXCEPT ![0] = i, ![1] = name],
                                              !.inode[i].nlinks = @ + 1]]
    IN  append_block(written, dir, 1, b)

\* open_file: the host file, n words long, block by block
file_block(img, i, f, n, k) ==
    LET len == IF k * BLKSIZE <= n THEN BLKSIZE ELSE n % BLKSIZE
        b == img.next
        written == [next |-> b + 1,
                    disk |-> [img.disk EXCEPT !.blk[b] = [o \in Offsets |-> IF o < len THEN f ELSE 0]]]
    IN  append_block(written, i, len, b)
open_file(img, i, f, n) ==
    LET last == RoundUpDiv(n, BLKSIZE)
        copied[k \in 0..last] == IF k = 0 THEN img ELSE file_block(copied[k-1], i, f, n, k)
    IN  copied[last]

\* alloc_cache_inode
inode_added(img, i, type) ==
    [next |-> img.next + 1,
     disk |-> [img.disk EXCEPT !.inode = [j \in DOMAIN @ \cup {i} |-> IF j = i THEN NewInode(type) ELSE @[j]]]]

\* create_sfs and the head of open_dir: an empty root directory
EmptyImage ==
    LET img == [next |-> BLKN_FREEMAP + 1,
                disk |-> [super |-> [blocks |-> NBLKS, unused |-> 0], freemap |-> {},
                          inode |-> [i \in {BLKN_ROOT} |-> NewInode("dir")],
                          blk |-> [b \in Blocks |-> ZeroBlock]]]
    IN  add_entry(add_entry(img, BLKN_ROOT, BLKN_ROOT, Dot), BLKN_ROOT, BLKN_ROOT, DotDot)

Empty == /\ phase = "mksfs"
         /\ next_ino = EmptyImage.next
         /\ made = {}
         /\ disk = EmptyImage.disk
         /\ fs = [freemap |-> {}, unused |-> 0, super_dirty |-> FALSE]
         /\ sin = <<>>
         /\ fd = [h \in Handles |-> Closed]
         /\ bootfs = FALSE
         /\ call = NoCall

\* add_file: a new inode, its blocks, its entry; the tool gives up when the image is
\* full.  The names are interchangeable, so one order of readdir is enough
add_file(f) ==
    /\ phase = "mksfs"
    /\ f \notin made /\ \A g \in Files \ made : f <= g
    /\ \E n \in MkSizes :
          LET i    == next_ino
              new  == inode_added([next |-> i, disk |-> disk], i, "file")
              img  == add_entry(open_file(new, i, f, n), BLKN_ROOT, i, f)
          IN  /\ img.next <= NBLKS
              /\ next_ino' = img.next
              /\ disk' = img.disk
              /\ call' = [op |-> "create", file |-> f, pos |-> 0, data |-> [k \in 1..n |-> f]]
    /\ made' = made \cup {f}
    /\ UNCHANGED <<phase, fs, sin, fd, bootfs>>

\* close_sfs: the blocks not handed out are the free ones
close_sfs ==
    /\ phase = "mksfs"
    /\ made = Files
    /\ disk' = [disk EXCEPT !.freemap = next_ino..NBLKS-1, !.super.unused = NBLKS - next_ino]
    /\ phase' = "unmounted"
    /\ UNCHANGED <<made, next_ino, fs, sin, fd, bootfs, call>>

-----------------------------------------------------------------------------
(* Block maps.  The operators below work on a record m of what one call may   *)
(* change: the freemap and its counter, the blocks of the disk, the inode     *)
(* (din, dirty) the call is about, whether it has failed (ok) or hit an       *)
(* assertion (panic), and the words moved so far (alen, buf).                 *)

Start(node) == [free |-> fs.freemap, unused |-> fs.unused, sdirty |-> fs.super_dirty, blk |-> disk.blk,
                din |-> node.din, dirty |-> node.dirty, ok |-> TRUE, panic |-> FALSE,
                alen |-> 0, buf |-> <<>>]

Failed(m) == ~m.ok \/ m.panic

\* bitmap_alloc scans the words of the freemap for the first bit that is set
bitmap_alloc(free) == Min(free)

\* sfs_clear_block
cleared_Never(blk, b) == blk
cleared(blk, b) == [blk EXCEPT ![b] = ZeroBlock]

\* sfs_block_alloc: the first free block, cleared
block_alloc(m) ==
    IF m.free = {} THEN [m EXCEPT !.ok = FALSE]
    ELSE LET b == bitmap_alloc(m.free)
         IN  [m EXCEPT !.free = @ \ {b}, !.unused = @ - 1, !.sdirty = TRUE, !.blk = cleared(@, b)]

\* sfs_block_free; the words of a free block are left behind and are no file's
\* any more, whatever they were: they become Stale
block_free(m, b) == [m EXCEPT !.free = @ \cup {b}, !.unused = @ + 1, !.sdirty = TRUE,
                              !.blk[b] = StaleBlock, !.panic = @ \/ b \in m.free]

\* the error path of sfs_bmap_get_sub_nolock: a new index block is given back
undo_index_Forgotten(m, had, ent) == m
undo_index(m, had, ent) == IF had THEN m ELSE block_free(m, ent)

\* sfs_bmap_get_sub_nolock with create: entry index of the index block, which is
\* allocated too when there is none; if the second allocation fails the first is undone
entry_set(m, b, had, ent, index) ==
    IF ~m.ok THEN undo_index(m, had, ent)
    ELSE [m EXCEPT !.blk[ent][index] = b, !.din.indirect = ent, !.dirty = @ \/ ~had]
entry_alloc(m, had, ent, index) ==
    IF ~m.ok THEN m ELSE entry_set(block_alloc(m), bitmap_alloc(m.free), had, ent, index)
bmap_create_sub(m, index) ==
    IF m.din.indirect = 0 THEN entry_alloc(block_alloc(m), FALSE, bitmap_alloc(m.free), index)
    ELSE IF m.blk[m.din.indirect][index] # 0 THEN m
    ELSE entry_alloc(m, TRUE, m.din.indirect, index)

\* the block a logical index maps to, 0 if none (sfs_bmap_get_nolock without create)
bmap(din, blk, index) ==
    CASE index < NDIRECT -> din.direct[index]
      [] index >= NDIRECT /\ din.indirect # 0 -> blk[din.indirect][index - NDIRECT]
      [] OTHER -> 0

\* sfs_bmap_get_nolock with create
direct_set(m, b, index) == IF m.ok THEN [m EXCEPT !.din.direct[index] = b, !.dirty = TRUE] ELSE m
bmap_create(m, index) ==
    IF index >= NDIRECT
    THEN IF index - NDIRECT < BLKSIZE THEN bmap_create_sub(m, index - NDIRECT) ELSE [m EXCEPT !.panic = TRUE]
    ELSE IF m.din.direct[index] # 0 THEN m
    ELSE direct_set(block_alloc(m), bitmap_alloc(m.free), index)

\* sfs_bmap_load_nolock: the block may be asked for up to one past the end, which
\* appends a block; anything further is an assertion failure
block_found(m, index) ==
    IF Failed(m) THEN m ELSE [m EXCEPT !.panic = bmap(m.din, m.blk, index) \in m.free \cup {0}]
block_appended(m) == IF Failed(m) THEN m ELSE [m EXCEPT !.din.blocks = @ + 1]
bmap_load(m, index) ==
    CASE index > m.din.blocks -> [m EXCEPT !.panic = TRUE]
      [] index = m.din.blocks -> block_found(block_appended(bmap_create(m, index)), index)
      [] index < m.din.blocks -> block_found(m, index)

\* sfs_bmap_truncate_nolock: the last block is given back; the index block stays
block_dropped(m, index) ==
    [m EXCEPT !.din.blocks = @ - 1, !.dirty = TRUE,
              !.din.direct = IF index < NDIRECT THEN [@ EXCEPT ![index] = 0] ELSE @,
              !.blk = IF index < NDIRECT \/ m.din.indirect = 0 THEN @
                      ELSE [@ EXCEPT ![m.din.indirect][index - NDIRECT] = 0]]
bmap_truncate(m) ==
    LET index == m.din.blocks - 1
        b     == bmap(m.din, m.blk, index)
    IN  block_dropped(IF b = 0 THEN m ELSE block_free(m, b), index)

-----------------------------------------------------------------------------
(* Reading, writing and resizing a file.                                      *)

\* the block accesses of sfs_io_nolock from pos up to end: the rest of a first partial
\* block, whole blocks, which are taken to follow each other on the disk, and the
\* beginning of a last partial block; nothing is accessed where len is not positive
Blkoff(pos) == pos % BLKSIZE
Nblks(pos, end) == end \div BLKSIZE - pos \div BLKSIZE
Skipped(pos) == IF Blkoff(pos) # 0 THEN 1 ELSE 0
HeadAccess(pos, end) ==
    [index |-> pos \div BLKSIZE, off |-> Blkoff(pos),
     len |-> IF Blkoff(pos) = 0 THEN 0
             ELSE IF Nblks(pos, end) # 0 THEN BLKSIZE - Blkoff(pos) ELSE end - pos]
BodyAccess(pos, end) ==
    [index |-> pos \div BLKSIZE + Skipped(pos), off |-> 0,
     len |-> (Nblks(pos, end) - Skipped(pos)) * BLKSIZE]
TailAccess(pos, end) ==
    [index |-> end \div BLKSIZE, off |-> 0,
     len |-> IF Nblks(pos, end) < Skipped(pos) THEN 0 ELSE end % BLKSIZE]

\* one access: find or append the block, then move words from or to the disk
block_written(blk, b, a, word) ==
    [x \in Blocks |-> [o \in Offsets |->
        IF x * BLKSIZE + o - b * BLKSIZE - a.off \in 0..a.len-1 THEN word ELSE blk[x][o]]]
block_read(blk, b, a) ==
    [k \in 1..a.len |-> blk[(b * BLKSIZE + a.off + k - 1) \div BLKSIZE][(a.off + k - 1) % BLKSIZE]]
words_moved(m, a, write, word) ==
    LET b == bmap(m.din, m.blk, a.index)
    IN  IF Failed(m) THEN m
        ELSE IF b * BLKSIZE + a.off + a.len > NBLKS * BLKSIZE THEN [m EXCEPT !.panic = TRUE]
        ELSE IF write THEN [m EXCEPT !.alen = @ + a.len, !.blk = block_written(@, b, a, word)]
        ELSE [m EXCEPT !.alen = @ + a.len, !.buf = @ \o block_read(m.blk, b, a)]
io_access(m, a, write, word) ==
    IF Failed(m) \/ a.len <= 0 THEN m ELSE words_moved(bmap_load(m, a.index), a, write, word)

\* a write that ends beyond the size moves it, and marks the inode dirty
Extended_Clean(m, end) == IF end > m.din.size THEN [m EXCEPT !.din.size = end] ELSE m
Extended(m, end) == IF end > m.din.size THEN [m EXCEPT !.din.size = end, !.dirty = TRUE] ELSE m

ExtendedBy(m, pos) == Extended(m, pos + m.alen)

\* sfs_io_nolock: at most n words from position pos on; a write that grows the
\* file sets its size, also when it is cut short
blocks_moved(m, pos, end, write, word) ==
    io_access(io_access(io_access(m, HeadAccess(pos, end), write, word),
                        BodyAccess(pos, end), write, word),
              TailAccess(pos, end), write, word)
sfs_io(m, pos, n, write, word) ==
    LET lim == IF write THEN MAX_FILE_SIZE ELSE m.din.size
        end == IF pos + n > lim THEN lim ELSE pos + n
    IN  IF pos >= MAX_FILE_SIZE THEN [m EXCEPT !.ok = FALSE]
        ELSE IF pos >= lim THEN m
        ELSE ExtendedBy(blocks_moved(m, pos, end, write, word), pos)

\* sfs_truncfile: blocks are appended or given back one by one; the size is
\* set only when all of them were
size_set(m, len) == IF Failed(m) THEN m ELSE [m EXCEPT !.din.size = len, !.dirty = TRUE]
load_next(m, index) == IF Failed(m) THEN m ELSE bmap_load(m, index)
blocks_grown(m, nblks, n) ==
    LET grown[k \in 0..n] == IF k = 0 THEN m ELSE load_next(grown[k-1], nblks + k - 1)
    IN  grown[n]
blocks_cut(m, n) ==
    LET cut[k \in 0..n] == IF k = 0 THEN m ELSE bmap_truncate(cut[k-1])
    IN  cut[n]
sfs_truncfile(m, len) ==
    LET tblks == RoundUpDiv(len, BLKSIZE)
        nblks == m.din.blocks
    IN  IF m.din.size = len THEN [m EXCEPT !.panic = tblks # nblks]
        ELSE size_set(IF nblks < tblks THEN blocks_grown(m, nblks, tblks - nblks)
                      ELSE blocks_cut(m, nblks - tblks), len)

-----------------------------------------------------------------------------
(* Inodes in memory.                                                          *)

\* sfs_dirent_search_nolock in the root directory
DirSlots == 0..disk.inode[BLKN_ROOT].blocks - 1
Dirent(slot) == disk.blk[bmap(disk.inode[BLKN_ROOT], disk.blk, slot)]
Ino(f) == LET e == CHOOSE e \in {Dirent(k) : k \in DirSlots} : e[0] # 0 /\ e[1] = f IN e[0]

\* sfs_load_inode: one more reference to the inode in memory, or a new one read from disk
Loaded(i) ==
    IF i \in DOMAIN sin
    THEN [sin[i] EXCEPT !.ref = @ + 1, !.reclaim = IF sin[i].ref = 0 THEN @ + 1 ELSE @]
    ELSE [din |-> disk.inode[i], dirty |-> FALSE, ref |-> 1, open |-> 0, reclaim |-> 1]

\* sfs_fsync
Fsynced(dk, i, node) == IF node.dirty THEN [dk EXCEPT !.inode[i] = node.din] ELSE dk

\* the outcome of a call on inode i that worked on node: what it moved is stored,
\* or the kernel has stopped at an assertion
Finish(i, node, m) ==
    IF m.panic THEN phase' = "panic" /\ UNCHANGED <<disk, fs, sin>>
    ELSE /\ fs' = [freemap |-> m.free, unused |-> m.unused, super_dirty |-> m.sdirty]
         /\ disk' = [disk EXCEPT !.blk = m.blk]
         /\ sin' = [j \in DOMAIN sin \cup {i} |->
                       IF j = i THEN [node EXCEPT !.din = m.din, !.dirty = m.dirty] ELSE sin[j]]
         /\ UNCHANGED phase

Called(m, op, f, pos, data) ==
    IF m.panic THEN NoCall ELSE [op |-> op, file |-> f, pos |-> pos, data |-> data]

Running == phase = "mounted"
IsOpen(h) == Running /\ fd[h] # Closed
Node(h) == sin[Ino(fd[h].file)]

\* vfs_open on a file, with O_TRUNC (or O_CREAT) and O_APPEND as file_open handles them
Open(h, f, trunc, append) ==
    /\ Running /\ fd[h] = Closed
    /\ \E node \in {[Loaded(Ino(f)) EXCEPT !.open = @ + 1]} :
       \E m \in {IF trunc THEN sfs_truncfile(Start(node), 0) ELSE Start(node)} :
          /\ Finish(Ino(f), node, m)
          /\ fd' = [fd EXCEPT ![h] = [file |-> f, pos |-> IF append THEN m.din.size ELSE 0]]
          /\ call' = Called(m, IF trunc THEN "trunc" ELSE "none", f, 0, <<>>)
    /\ UNCHANGED <<next_ino, made, bootfs>>

\* vfs_close: the last close writes the inode back (sfs_close), the last reference
\* reclaims it (sfs_reclaim); no inode loses its last link here
Close(h) ==
    /\ IsOpen(h)
    /\ LET i      == Ino(fd[h].file)
           node   == [Node(h) EXCEPT !.open = @ - 1, !.ref = @ - 1]
           last   == node.open = 0
           synced == [node EXCEPT !.dirty = ~last /\ @]
           gone   == node.ref = 0 /\ node.reclaim = 1
       IN  /\ disk' = IF last \/ gone THEN Fsynced(disk, i, node) ELSE disk
           /\ sin' = IF gone THEN [j \in DOMAIN sin \ {i} |-> sin[j]]
                     ELSE [sin EXCEPT ![i] = IF node.ref = 0 THEN [synced EXCEPT !.reclaim = @ - 1] ELSE synced]
    /\ fd' = [fd EXCEPT ![h] = Closed]
    /\ call' = NoCall
    /\ UNCHANGED <<phase, next_ino, made, fs, bootfs>>

\* file_read and file_write of at most a block, the chunk sysfile_read and
\* sysfile_write use; the position moves by what was copied
Transfer(h, n, write) ==
    /\ IsOpen(h)
    /\ \E m \in {sfs_io(Start(Node(h)), fd[h].pos, n, write, fd[h].file)} :
          /\ Finish(Ino(fd[h].file), Node(h), m)
          /\ fd' = [fd EXCEPT ![h].pos = @ + m.alen]
          /\ call' = Called(m, IF write THEN "write" ELSE "read", fd[h].file, fd[h].pos,
                            IF write THEN [k \in 1..m.alen |-> fd[h].file] ELSE m.buf)
    /\ UNCHANGED <<next_ino, made, bootfs>>

Read(h, n) == Transfer(h, n, FALSE)
Write(h, n) == Transfer(h, n, TRUE)

\* file_seek with sfs_tryseek: a position past the end grows the file first
Seek(h, pos) ==
    /\ IsOpen(h)
    /\ \E m \in {IF pos >= MAX_FILE_SIZE THEN [Start(Node(h)) EXCEPT !.ok = FALSE]
                 ELSE IF pos > Node(h).din.size THEN sfs_truncfile(Start(Node(h)), pos)
                 ELSE Start(Node(h))} :
           /\ Finish(Ino(fd[h].file), Node(h), m)
           /\ fd' = IF m.ok THEN [fd EXCEPT ![h].pos = pos] ELSE fd
           /\ call' = IF m.ok THEN Called(m, "grow", fd[h].file, pos, <<>>) ELSE NoCall
    /\ UNCHANGED <<next_ino, made, bootfs>>

\* file_fsync
Fsync(h) ==
    /\ IsOpen(h)
    /\ disk' = Fsynced(disk, Ino(fd[h].file), Node(h))
    /\ sin' = [sin EXCEPT ![Ino(fd[h].file)].dirty = FALSE]
    /\ call' = NoCall
    /\ UNCHANGED <<phase, next_ino, made, fs, fd, bootfs>>

\* file_fstat: the size
Fstat(h) ==
    /\ IsOpen(h)
    /\ call' = [op |-> "stat", file |-> fd[h].file, pos |-> Node(h).din.size, data |-> <<>>]
    /\ UNCHANGED <<phase, next_ino, made, disk, fs, sin, fd, bootfs>>

\* sfs_getdirentry: the name in the k-th slot in use
Getdirentry(k) ==
    /\ Running
    /\ LET used == SelectSeq([j \in 1..Cardinality(DirSlots) |-> Dirent(j - 1)], LAMBDA e : e[0] # 0)
       IN  call' = [op |-> "list", file |-> 0, pos |-> k,
                    data |-> IF k <= Len(used) THEN <<used[k][1]>> ELSE <<>>]
    /\ UNCHANGED <<phase, next_ino, made, disk, fs, sin, fd, bootfs>>

-----------------------------------------------------------------------------
(* The file system as a whole.                                                *)

\* sfs_sync: every inode in memory, then superblock and freemap
SyncedInodes == [i \in DOMAIN disk.inode |->
                    IF i \in DOMAIN sin /\ sin[i].dirty THEN sin[i].din ELSE disk.inode[i]]
SyncedSuper(dk) == IF fs.super_dirty THEN [dk EXCEPT !.super.unused = fs.unused, !.freemap = fs.freemap] ELSE dk
Synced == SyncedSuper([disk EXCEPT !.inode = SyncedInodes])

\* fs_cleanup
Cleanup ==
    /\ Running
    /\ disk' = Synced
    /\ sin' = [i \in DOMAIN sin |-> [sin[i] EXCEPT !.dirty = FALSE]]
    /\ fs' = [fs EXCEPT !.super_dirty = FALSE]
    /\ call' = NoCall
    /\ UNCHANGED <<phase, next_ino, made, fd, bootfs>>

\* vfs_set_bootfs: the root directory gets a reference that is never dropped;
\* init_main does it before anything is opened
SetBootfs ==
    /\ Running /\ ~bootfs /\ sin = <<>>
    /\ bootfs' = TRUE
    /\ sin' = [j \in DOMAIN sin \cup {BLKN_ROOT} |-> IF j = BLKN_ROOT THEN Loaded(j) ELSE sin[j]]
    /\ call' = NoCall
    /\ UNCHANGED <<phase, next_ino, made, disk, fs, fd>>

\* sfs_do_mount: the freemap must have as many free blocks as the superblock says
Mount ==
    /\ phase = "unmounted"
    /\ fs' = [freemap |-> disk.freemap, unused |-> disk.super.unused, super_dirty |-> FALSE]
    /\ phase' = IF Cardinality(disk.freemap) = disk.super.unused THEN "mounted" ELSE "panic"
    /\ call' = NoCall
    /\ UNCHANGED <<next_ino, made, disk, sin, fd, bootfs>>

\* vfs_unmount: sync, then let go unless an inode is in memory (-E_BUSY)
Unmount ==
    /\ Running
    /\ disk' = Synced
    /\ sin' = [i \in DOMAIN sin |-> [sin[i] EXCEPT !.dirty = FALSE]]
    /\ fs' = [fs EXCEPT !.super_dirty = FALSE]
    /\ phase' = IF sin = <<>> THEN "unmounted" ELSE phase
    /\ call' = NoCall
    /\ UNCHANGED <<next_ino, made, fd, bootfs>>

-----------------------------------------------------------------------------
(* What the disk and the inodes in memory amount to.                          *)

\* the inode as the next call would see it
Din(i) == IF i \in DOMAIN sin THEN sin[i].din ELSE disk.inode[i]

\* the words of an inode, read through its block map
Words(din, blk) == [k \in 1..din.size |-> blk[bmap(din, blk, (k - 1) \div BLKSIZE)][(k - 1) % BLKSIZE]]
Content == [f \in Files |-> IF f \in made THEN Words(Din(Ino(f)), disk.blk) ELSE <<-1>>]
Names == [k \in 1..disk.inode[BLKN_ROOT].blocks |-> Dirent(k - 1)[1]]
Seeing == [content |-> Content, names |-> Names]

Init == Empty /\ seen = Seeing

Sees == seen' = Seeing'

Next ==
    \/ \E f \in Files : add_file(f) /\ Sees
    \/ close_sfs /\ Sees
    \/ Mount /\ Sees
    \/ Unmount /\ Sees
    \/ SetBootfs /\ Sees
    \/ Cleanup /\ Sees
    \/ \E h \in Handles :
         \/ \E f \in Files, trunc \in BOOLEAN, append \in BOOLEAN : Open(h, f, trunc, append) /\ Sees
         \/ Close(h) /\ Sees
         \/ Fsync(h) /\ Sees
         \/ Fstat(h) /\ Sees
         \/ \E n \in IoSizes : Read(h, n) /\ Sees
         \/ \E n \in IoSizes : Write(h, n) /\ Sees
         \/ \E pos \in SeekTo : Seek(h, pos) /\ Sees
    \/ \E k \in ListSlots : Getdirentry(k) /\ Sees

Spec == Init /\ [][Next]_vars

-----------------------------------------------------------------------------
(* Properties.                                                                *)

\* every place of inode i that names a block, with the block
Pointers(i) ==
    LET din == Din(i)
    IN  {p \in {<<"direct", k, din.direct[k]>> : k \in 0..NDIRECT-1}
               \cup {<<"index", 0, din.indirect>>}
               \cup (IF din.indirect = 0 THEN {}
                     ELSE {<<"entry", k, disk.blk[din.indirect][k]>> : k \in Offsets}) : p[3] # 0}

\* Block accounting (sfs_block_alloc, sfs_bmap_get_sub_nolock and its undoing of a
\* half-done allocation, sfs_bmap_truncate_nolock, close_sfs of mksfs): every block
\* has exactly one owner or is free, and unused_blocks counts the free ones.
BlocksAccounted ==
    phase = "mounted" =>
        LET inodes == DOMAIN disk.inode
            owned  == UNION {{<<i, p[1], p[2], p[3]>> : p \in Pointers(i)} : i \in inodes}
            held   == {x[4] : x \in owned}
            fixed  == {BLKN_SUPER, BLKN_FREEMAP} \cup inodes
        IN  /\ Cardinality(held) = Cardinality(owned)
            /\ fs.freemap \cap (held \cup fixed) = {} /\ held \cap fixed = {}
            /\ fs.freemap \cup held \cup fixed = Blocks
            /\ fs.unused = Cardinality(fs.freemap)

\* The dirty flags (sin->dirty, sfs->super_dirty): what is not marked dirty is on
\* the disk, so reclaiming an inode or unmounting loses nothing.  Only the count of
\* blocks may lag behind on the disk: sfs_bmap_load_nolock raises it in memory and
\* leaves the flag alone.
CleanIsSynced ==
    /\ \A i \in DOMAIN sin : ~sin[i].dirty =>
          /\ disk.inode[i] = [sin[i].din EXCEPT !.blocks = disk.inode[i].blocks]
          /\ disk.inode[i].blocks \in 0..sin[i].din.blocks
    /\ phase = "mounted" /\ ~fs.super_dirty =>
          fs.freemap = disk.freemap /\ fs.unused = disk.super.unused

Abstract == INSTANCE SfsFile WITH content <- seen.content, names <- seen.names

\* Refinement (sfs_io, sfs_truncfile, sfs_tryseek, sfs_load_inode, sfs_reclaim,
\* sfs_sync, sfs_do_mount): seen through the block maps, a file is a sequence of
\* words that only writes, growing seeks and truncations change, and reads return it.
ImplementsFiles == Abstract!Spec

=============================================================================
