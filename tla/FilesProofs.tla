---------------------------- MODULE FilesProofs ------------------------------
(***************************************************************************)
(* Proofs about the open files and the console input, for any number of    *)
(* processes, descriptors and keys: the counts of the inodes account for   *)
(* exactly the pointers to them, and the ring of dev_stdin.c hands out the *)
(* keys in order.                                                          *)
(***************************************************************************)
EXTENDS Files, TLAPS, FiniteSetTheorems, WellFoundedInduction, NaturalsInduction

-----------------------------------------------------------------------------
(* The inductive invariant.                                                *)

\* a device table with the devices in D, of which those in M are mounted
DevTables(D, M) ==
    {T \in [D -> [mountable : BOOLEAN, mounted : BOOLEAN]] :
        \A d \in D : (T[d].mountable <=> d = "disk0") /\ (T[d].mounted <=> d \in M)}

VfsWith(T, b) == [ref : [Nodes -> Int], open : [Nodes -> Int], dev : T, bootfs : {b},
                  panic : BOOLEAN]

\* after init_main has set the boot file system
VfsStates == VfsWith(DevTables(Devices, {"disk0"}), Root)

\* an entry of a descriptor table between two system calls
Entry == {Free} \cup [status : {"OPENED"}, readable : BOOLEAN, writable : BOOLEAN,
                      node : Nodes, open_count : {1, 2}]
Table == [Fds -> Entry]
Tables == [Procs -> Table]

\* the entries that refer to n, in any table
Refers(F, n) == {x \in Procs \X Fds : F[x[1]][x[2]].node = n}
\* the directories
Dirs == [Procs -> {NULL, Root}]
In(W, n) == {p \in Procs : W[p] = n}
\* the references of init, of bootfs_node and of the device table
Fixed(n) == IF n = Root THEN 2 ELSE IF n \in Devices THEN 1 ELSE 0

\* the counts in v are those of the descriptors F, the directories W and the lost L
Exact(v, F, W, L) ==
    \A n \in Nodes :
        /\ v.ref[n] = Cardinality(Refers(F, n)) + Cardinality(In(W, n)) + L[n] + Fixed(n)
        /\ v.open[n] >= Cardinality(Refers(F, n))
        /\ v.open[n] <= Cardinality(Refers(F, n)) + L[n]

Rings == [buf : [0..STDIN_BUFSIZE-1 -> Int], rpos : Nat, wpos : Nat, queue : SUBSET Procs,
          pressed : Nat, overrun : BOOLEAN]

\* the ring k holds the keys from rpos to wpos, in order
RingOK(k) == /\ k \in Rings
             /\ k.rpos <= k.wpos /\ k.wpos <= k.rpos + STDIN_BUFSIZE
             /\ ~k.overrun => /\ k.wpos = k.pressed
                             /\ \A i \in k.rpos..k.wpos-1 : k.buf[i % STDIN_BUFSIZE] = i + 1

Reading == {p \in Procs : pstate[p] \in {"asleep", "woken"}}

TypeOK == /\ vfs \in VfsStates
          /\ pwd \in Dirs
          /\ fds \in Tables
          /\ pstate \in [Procs -> {"none", "kthread", "user", "asleep", "woken"}]
          /\ read \in [Procs -> [fd : Fds, left : Nat]]
          /\ lost \in [Nodes -> Nat]

\* a process that is gone holds nothing; an entry is acquired twice exactly while
\* its process is in a read of it; whoever is in the queue is in a read
Uses == /\ \A p \in Procs : pstate[p] = "none" => fds[p] = fd_array_init /\ pwd[p] = NULL
        /\ \A p \in Procs, f \in Fds :
              fds[p][f].open_count = 2 <=> p \in Reading /\ read[p].fd = f
        /\ kbd.queue \subseteq Reading

Inv == TypeOK /\ RingOK(kbd) /\ Uses /\ Exact(vfs, fds, pwd, lost)

-----------------------------------------------------------------------------
(* The operations of inode.c on the counts.                                *)

LEMMA NodeNames ==
  /\ NULL \notin Nodes /\ Root \in Nodes /\ File \in Nodes /\ Devices \subseteq Nodes
  /\ Root \notin Devices /\ File \notin Devices /\ Root # File /\ Root # NULL
  /\ Devices = {"stdin", "stdout", "kpuio", "disk0"}
  /\ CharDevs = {"stdin", "stdout", "kpuio"}
BY DEF NULL, Nodes, Root, File, Devices, CharDevs

\* w has the counts of v, but for those of n
Counts(v, w, n, dref, dopen) ==
    /\ w \in VfsStates
    /\ \A m \in Nodes : /\ w.ref[m] = v.ref[m] + (IF m = n THEN dref ELSE 0)
                        /\ w.open[m] = v.open[m] + (IF m = n THEN dopen ELSE 0)

LEMMA RefInc ==
  ASSUME NEW v \in VfsStates, NEW n \in Nodes
  PROVE  Counts(v, inode_ref_inc(v, n), n, 1, 0)
<1> DEFINE w == inode_ref_inc(v, n)
<1>1. v.ref \in [Nodes -> Int] /\ v.open \in [Nodes -> Int]
  BY DEF VfsStates, VfsWith
<1>2. w = [v EXCEPT !.ref = [v.ref EXCEPT ![n] = v.ref[n] + 1]]
  BY DEF inode_ref_inc
<1> HIDE DEF w
<1>3. w \in VfsStates /\ w.ref = [v.ref EXCEPT ![n] = v.ref[n] + 1] /\ w.open = v.open
  BY <1>1, <1>2 DEF VfsStates, VfsWith
<1>4. Counts(v, w, n, 1, 0)
  BY <1>1, <1>3 DEF Counts
<1>5. QED
  BY <1>4 DEF w

LEMMA OpenInc ==
  ASSUME NEW v \in VfsStates, NEW n \in Nodes
  PROVE  Counts(v, inode_open_inc(v, n), n, 0, 1)
<1> DEFINE w == inode_open_inc(v, n)
<1>1. v.ref \in [Nodes -> Int] /\ v.open \in [Nodes -> Int]
  BY DEF VfsStates, VfsWith
<1>2. w = [v EXCEPT !.open = [v.open EXCEPT ![n] = v.open[n] + 1]]
  BY DEF inode_open_inc
<1> HIDE DEF w
<1>3. w \in VfsStates /\ w.open = [v.open EXCEPT ![n] = v.open[n] + 1] /\ w.ref = v.ref
  BY <1>1, <1>2 DEF VfsStates, VfsWith
<1>4. Counts(v, w, n, 0, 1)
  BY <1>1, <1>3 DEF Counts
<1>5. QED
  BY <1>4 DEF w

LEMMA OpenDec ==
  ASSUME NEW v \in VfsStates, NEW n \in Nodes
  PROVE  Counts(v, inode_open_dec(v, n), n, 0, -1)
<1> DEFINE w == inode_open_dec(v, n)
<1>1. v.ref \in [Nodes -> Int] /\ v.open \in [Nodes -> Int]
  BY DEF VfsStates, VfsWith
<1>2. w = [v EXCEPT !.open = [v.open EXCEPT ![n] = v.open[n] - 1]]
  BY DEF inode_open_dec
<1> HIDE DEF w
<1>3. w \in VfsStates /\ w.open = [v.open EXCEPT ![n] = v.open[n] - 1] /\ w.ref = v.ref
  BY <1>1, <1>2 DEF VfsStates, VfsWith
<1>4. Counts(v, w, n, 0, -1)
  BY <1>1, <1>3 DEF Counts
<1>5. QED
  BY <1>4 DEF w

LEMMA RefDec ==
  ASSUME NEW v \in VfsStates, NEW n \in Nodes
  PROVE  Counts(v, inode_ref_dec(v, n), n, -1, 0)
<1> DEFINE u == [v EXCEPT !.ref = [v.ref EXCEPT ![n] = v.ref[n] - 1]]
           w == inode_ref_dec(v, n)
<1>1. v.ref \in [Nodes -> Int] /\ v.open \in [Nodes -> Int]
  BY DEF VfsStates, VfsWith
<1>2. w = u \/ w = [u EXCEPT !.panic = TRUE]
  BY DEF inode_ref_dec
<1>3. u \in VfsStates /\ u.ref = [v.ref EXCEPT ![n] = v.ref[n] - 1] /\ u.open = v.open
  BY <1>1 DEF VfsStates, VfsWith
<1> HIDE DEF w, u
<1>4. w \in VfsStates /\ w.ref = u.ref /\ w.open = u.open
  BY <1>2, <1>3 DEF VfsStates, VfsWith
<1>5. Counts(v, w, n, -1, 0)
  BY <1>1, <1>3, <1>4 DEF Counts
<1>6. QED
  BY <1>5 DEF w

\* two operations on the same inode
LEMMA CountsTwice ==
  ASSUME NEW u \in VfsStates, NEW v, NEW w, NEW n \in Nodes,
         NEW a \in Int, NEW b \in Int, NEW c \in Int, NEW d \in Int,
         Counts(u, v, n, a, b), Counts(v, w, n, c, d)
  PROVE  Counts(u, w, n, a + c, b + d)
<1>1. u.ref \in [Nodes -> Int] /\ u.open \in [Nodes -> Int]
  BY DEF VfsStates, VfsWith
<1>2. QED
  BY <1>1 DEF Counts

LEMMA DupCounts ==
  ASSUME NEW v \in VfsStates, NEW e, e.node \in Nodes
  PROVE  Counts(v, fd_array_dup(v, e), e.node, 1, 1)
<1> DEFINE u == inode_ref_inc(v, e.node)
           w == inode_open_inc(u, e.node)
<1>1. Counts(v, u, e.node, 1, 0)
  BY RefInc
<1>2. u \in VfsStates
  BY <1>1 DEF Counts
<1> HIDE DEF u
<1>3. Counts(u, w, e.node, 0, 1)
  BY <1>2, OpenInc
<1> HIDE DEF w
<1>4. Counts(v, w, e.node, 1 + 0, 0 + 1)
  BY <1>1, <1>3, CountsTwice
<1>5. Counts(v, w, e.node, 1, 1)
  BY <1>4
<1>6. QED
  BY <1>5 DEF w, u, fd_array_dup

LEMMA CloseCounts ==
  ASSUME NEW v \in VfsStates, NEW n \in Nodes
  PROVE  Counts(v, vfs_close(v, n), n, -1, -1)
<1> DEFINE u == inode_open_dec(v, n)
           w == inode_ref_dec(u, n)
<1>1. Counts(v, u, n, 0, -1)
  BY OpenDec
<1>2. u \in VfsStates
  BY <1>1 DEF Counts
<1> HIDE DEF u
<1>3. Counts(u, w, n, -1, 0)
  BY <1>2, RefDec
<1> HIDE DEF w
<1>4. Counts(v, w, n, 0 + -1, -1 + 0)
  BY <1>1, <1>3, CountsTwice
<1>5. 0 + -1 = -1 /\ -1 + 0 = -1
  OBVIOUS
<1>6. Counts(v, w, n, -1, -1)
  BY <1>4, <1>5
<1>7. QED
  BY <1>6 DEF w, u, vfs_close


-----------------------------------------------------------------------------
(* fs_init and vfs_set_bootfs.                                             *)

DevRefs(D) == [n \in Nodes |-> IF n \in D THEN 1 ELSE 0]
NoneOpen == [n \in Nodes |-> 0]
RootRefs(k) == [n \in Nodes |-> IF n = Root THEN k ELSE IF n \in Devices THEN 1 ELSE 0]

\* the devices in D have been added, nothing else has happened
Added(v, D) == /\ v \in VfsWith(DevTables(D, {}), NULL)
               /\ v.ref = DevRefs(D) /\ v.open = NoneOpen

\* the disk is mounted, the root directory has k references
Mounted(v, b, k) == /\ v \in VfsWith(DevTables(Devices, {"disk0"}), b)
                    /\ v.ref = RootRefs(k) /\ v.open = NoneOpen

LEMMA AddDevice ==
  ASSUME NEW D \in SUBSET Devices, NEW name \in Devices, name \notin D,
         NEW mountable \in BOOLEAN, mountable <=> name = "disk0", NEW v, Added(v, D)
  PROVE  Added(vfs_do_add(v, name, mountable), D \cup {name})
<1> DEFINE E == D \cup {name}
           dev == [d \in E |->
                     IF d = name THEN [mountable |-> mountable, mounted |-> FALSE] ELSE v.dev[d]]
           ref == [v.ref EXCEPT ![name] = 1]
           w == vfs_do_add(v, name, mountable)
<1>1. v.dev \in DevTables(D, {}) /\ DOMAIN v.dev = D /\ v.ref = DevRefs(D) /\ v.open = NoneOpen
  BY DEF Added, VfsWith, DevTables
<1>2. w = [[v EXCEPT !.dev = dev] EXCEPT !.ref = ref]
  BY <1>1 DEF vfs_do_add
<1>3. dev \in DevTables(E, {})
  BY <1>1 DEF DevTables
<1>4. ref = DevRefs(E) /\ ref \in [Nodes -> Int]
  <2>1. v.ref \in [Nodes -> Int] /\ DevRefs(E) \in [Nodes -> Int] /\ name \in Nodes
    BY <1>1, NodeNames DEF DevRefs
  <2>2. ref \in [Nodes -> Int]
    BY <2>1
  <2>3. ASSUME NEW n \in Nodes PROVE ref[n] = DevRefs(E)[n]
    BY <1>1, <2>1, NodeNames DEF DevRefs
  <2> HIDE DEF ref, E
  <2>4. QED
    BY <2>1, <2>2, <2>3
<1> HIDE DEF dev, ref, E
<1> DEFINE u == [v EXCEPT !.dev = dev]
<1>5. u \in VfsWith(DevTables(E, {}), NULL) /\ u.open = v.open
  BY <1>3 DEF Added, VfsWith
<1>6. w = [u EXCEPT !.ref = ref]
  BY <1>2
<1> HIDE DEF u, w
<1>7. w \in VfsWith(DevTables(E, {}), NULL) /\ w.ref = ref /\ w.open = u.open
  BY <1>4, <1>5, <1>6 DEF VfsWith
<1>8. Added(w, E)
  BY <1>1, <1>4, <1>5, <1>7 DEF Added
<1>9. QED
  BY <1>8 DEF w, E

LEMMA RootRefInc ==
  ASSUME NEW k \in Nat, NEW b, NEW v, Mounted(v, b, k)
  PROVE  Mounted(inode_ref_inc(v, Root), b, k + 1)
<1> DEFINE ref == [v.ref EXCEPT ![Root] = v.ref[Root] + 1]
           w == inode_ref_inc(v, Root)
<1>1. v.ref = RootRefs(k) /\ v.open = NoneOpen
  BY DEF Mounted
<1>2. ref = RootRefs(k + 1) /\ ref \in [Nodes -> Int]
  <2>1. v.ref \in [Nodes -> Int] /\ RootRefs(k + 1) \in [Nodes -> Int] /\ Root \in Nodes
    BY <1>1, NodeNames DEF RootRefs
  <2>2. ref \in [Nodes -> Int]
    BY <2>1
  <2>3. ASSUME NEW n \in Nodes PROVE ref[n] = RootRefs(k + 1)[n]
    BY <1>1, <2>1, NodeNames DEF RootRefs
  <2> HIDE DEF ref
  <2>4. QED
    BY <2>1, <2>2, <2>3
<1>3. w = [v EXCEPT !.ref = ref]
  BY DEF inode_ref_inc
<1> HIDE DEF ref, w
<1>4. w \in VfsWith(DevTables(Devices, {"disk0"}), b) /\ w.ref = ref /\ w.open = v.open
  BY <1>2, <1>3 DEF Mounted, VfsWith
<1>5. Mounted(w, b, k + 1)
  BY <1>1, <1>2, <1>4 DEF Mounted
<1>6. QED
  BY <1>5 DEF w

LEMMA RootRefDec ==
  ASSUME NEW k \in Nat, NEW b, NEW v, Mounted(v, b, k + 1)
  PROVE  Mounted(inode_ref_dec(v, Root), b, k)
<1> DEFINE ref == [v.ref EXCEPT ![Root] = v.ref[Root] - 1]
           w == inode_ref_dec(v, Root)
<1>1. v.ref = RootRefs(k + 1) /\ v.open = NoneOpen
  BY DEF Mounted
<1>2. ref = RootRefs(k) /\ ref \in [Nodes -> Int]
  <2>1. v.ref \in [Nodes -> Int] /\ RootRefs(k) \in [Nodes -> Int] /\ Root \in Nodes
    BY <1>1, NodeNames DEF RootRefs
  <2>2. ref \in [Nodes -> Int]
    BY <2>1
  <2>3. ASSUME NEW n \in Nodes PROVE ref[n] = RootRefs(k)[n]
    BY <1>1, <2>1, NodeNames DEF RootRefs
  <2> HIDE DEF ref
  <2>4. QED
    BY <2>1, <2>2, <2>3
<1>3. "reclaim" \in Ops(Root)
  BY DEF Ops
<1>4. w = [v EXCEPT !.ref = ref]
  BY <1>3 DEF inode_ref_dec
<1> HIDE DEF ref, w
<1>5. w \in VfsWith(DevTables(Devices, {"disk0"}), b) /\ w.ref = ref /\ w.open = v.open
  BY <1>2, <1>4 DEF Mounted, VfsWith
<1>6. Mounted(w, b, k)
  BY <1>1, <1>2, <1>5 DEF Mounted
<1>7. QED
  BY <1>6 DEF w

\* what init_main leaves: init and bootfs_node hold the root directory
LEMMA BootedIs == Mounted(Booted.v, Root, 2) /\ Booted.pwd = Root
<1> DEFINE none == [ref |-> [n \in Nodes |-> 0], open |-> [n \in Nodes |-> 0],
                    dev |-> <<>>, bootfs |-> NULL, panic |-> FALSE]
           one == vfs_do_add(none, "stdin", FALSE)
           two == vfs_do_add(one, "stdout", FALSE)
           three == vfs_do_add(two, "disk0", TRUE)
           devs == vfs_do_add(three, "kpuio", FALSE)
           v == vfs_mount(devs, "disk0")
<1>1. Added(none, {})
  <2>1. << >> \in DevTables({}, {})
    BY DEF DevTables
  <2>2. DevRefs({}) = [n \in Nodes |-> 0]
    BY DEF DevRefs
  <2>3. [n \in Nodes |-> 0] \in [Nodes -> Int]
    OBVIOUS
  <2>4. none \in VfsWith(DevTables({}, {}), NULL)
    BY <2>1, <2>3 DEF VfsWith
  <2>5. QED
    BY <2>2, <2>4 DEF Added, NoneOpen
<1>2. Booted = vfs_set_bootfs(v, "disk0")
  BY DEF Booted
<1> HIDE DEF none
<1>3. Added(one, {"stdin"})
  <2>1. {} \in SUBSET Devices /\ "stdin" \in Devices /\ "stdin" \notin {}
        /\ {} \cup {"stdin"} = {"stdin"} /\ "stdin" # "disk0"
    BY NodeNames
  <2>2. QED
    BY <1>1, <2>1, AddDevice
<1> HIDE DEF one
<1>4. Added(two, {"stdin", "stdout"})
  <2>1. {"stdin"} \in SUBSET Devices /\ "stdout" \in Devices /\ "stdout" \notin {"stdin"}
        /\ {"stdin"} \cup {"stdout"} = {"stdin", "stdout"} /\ "stdout" # "disk0"
    BY NodeNames
  <2>2. QED
    BY <1>3, <2>1, AddDevice
<1> HIDE DEF two
<1>5. Added(three, {"stdin", "stdout", "disk0"})
  <2>1. {"stdin", "stdout"} \in SUBSET Devices /\ "disk0" \in Devices /\ "disk0" \notin {"stdin", "stdout"}
        /\ {"stdin", "stdout"} \cup {"disk0"} = {"stdin", "stdout", "disk0"}
    BY NodeNames
  <2>2. QED
    BY <1>4, <2>1, AddDevice
<1> HIDE DEF three
<1>6. Added(devs, Devices)
  <2>1. {"stdin", "stdout", "disk0"} \in SUBSET Devices /\ "kpuio" \in Devices
        /\ "kpuio" \notin {"stdin", "stdout", "disk0"}
        /\ {"stdin", "stdout", "disk0"} \cup {"kpuio"} = Devices /\ "kpuio" # "disk0"
    BY NodeNames
  <2>2. QED
    BY <1>5, <2>1, AddDevice
<1> HIDE DEF devs
<1>7. Mounted(v, NULL, 0)
  <2> DEFINE T == devs.dev
             R == [mountable : BOOLEAN, mounted : BOOLEAN]
             U == [T EXCEPT !["disk0"] = [T["disk0"] EXCEPT !.mounted = TRUE]]
  <2>1. "disk0" \in Devices
    BY NodeNames
  <2>2. T \in [Devices -> R] /\ \A d \in Devices : (T[d].mountable <=> d = "disk0") /\ ~ T[d].mounted
    BY <1>6 DEF Added, VfsWith, DevTables
  <2>3. v = [devs EXCEPT !.dev = U]
    BY <2>1, <2>2 DEF vfs_mount
  <2>4. U \in DevTables(Devices, {"disk0"})
    <3> HIDE DEF T
    <3>1. /\ U \in [Devices -> R] /\ U["disk0"].mounted = TRUE
          /\ U["disk0"].mountable = T["disk0"].mountable
          /\ \A d \in Devices : d # "disk0" => U[d] = T[d]
      BY <2>1, <2>2
    <3> HIDE DEF U
    <3>2. QED
      BY <2>1, <2>2, <3>1 DEF DevTables
  <2> HIDE DEF U, v
  <2>5. v \in VfsWith(DevTables(Devices, {"disk0"}), NULL) /\ v.ref = devs.ref /\ v.open = devs.open
    BY <1>6, <2>3, <2>4 DEF Added, VfsWith
  <2>6. DevRefs(Devices) = RootRefs(0)
    BY NodeNames DEF DevRefs, RootRefs
  <2>7. QED
    BY <1>6, <2>5, <2>6 DEF Added, Mounted
<1> HIDE DEF v
<1> DEFINE w1 == inode_ref_inc(v, Root)
           w2 == inode_ref_inc(w1, Root)
           w3 == inode_ref_dec(w2, Root)
           w4 == inode_ref_inc(w3, Root)
<1>8. vfs_get_root(v, "disk0") = Root
  <2>1. "disk0" \in DOMAIN v.dev /\ v.dev["disk0"].mounted
    BY <1>7, NodeNames DEF Mounted, VfsWith, DevTables
  <2>2. QED
    BY <2>1 DEF vfs_get_root
<1>9. Mounted(w1, NULL, 1)
  BY <1>7, RootRefInc
<1> HIDE DEF w1
<1>10. Mounted(w2, NULL, 2)
  BY <1>9, RootRefInc
<1> HIDE DEF w2
<1>11. Mounted(w3, NULL, 1)
  <2>1. Mounted(w2, NULL, 1 + 1)
    BY <1>10
  <2>2. QED
    BY <2>1, RootRefDec
<1> HIDE DEF w3
<1>12. Mounted(w4, NULL, 2)
  BY <1>11, RootRefInc
<1>13. vfs_chdir(v, NULL, "disk0") = [v |-> w3, pwd |-> Root]
  <2>1. vfs_set_curdir(w1, NULL, Root) = [v |-> w2, pwd |-> Root]
    BY NodeNames DEF vfs_set_curdir, w2
  <2>2. QED
    BY <1>8, <2>1 DEF vfs_chdir, w1, w3
<1>14. Booted = [v |-> [w4 EXCEPT !.bootfs = Root], pwd |-> Root]
  BY <1>2, <1>13 DEF vfs_set_bootfs
<1> HIDE DEF w4
<1> DEFINE w5 == [w4 EXCEPT !.bootfs = Root]
<1>15. w5 \in VfsWith(DevTables(Devices, {"disk0"}), Root) /\ w5.ref = w4.ref /\ w5.open = w4.open
  BY <1>12 DEF Mounted, VfsWith
<1>16. Booted.v = w5 /\ Booted.pwd = Root
  BY <1>14
<1> HIDE DEF w5
<1>17. QED
  BY <1>12, <1>15, <1>16 DEF Mounted

LEMMA BootVfsIs ==
  /\ BootVfs \in VfsStates /\ BootVfs.ref = RootRefs(3) /\ BootVfs.open = NoneOpen
  /\ [BootVfs EXCEPT !.panic = TRUE] \in VfsStates
  /\ [BootVfs EXCEPT !.panic = TRUE].ref = RootRefs(3)
  /\ [BootVfs EXCEPT !.panic = TRUE].open = NoneOpen
<1>1. Mounted(BootVfs, Root, 3)
  <2>1. Mounted(inode_ref_inc(Booted.v, Root), Root, 2 + 1)
    BY BootedIs, RootRefInc
  <2>2. QED
    BY <2>1, BootedIs DEF BootVfs
<1>2. BootVfs \in VfsStates /\ BootVfs.ref = RootRefs(3) /\ BootVfs.open = NoneOpen
  BY <1>1 DEF Mounted, VfsStates
<1> DEFINE w == [BootVfs EXCEPT !.panic = TRUE]
<1>3. w \in VfsStates /\ w.ref = BootVfs.ref /\ w.open = BootVfs.open
  BY <1>2 DEF VfsStates, VfsWith
<1>4. QED
  BY <1>2, <1>3

-----------------------------------------------------------------------------
(* The pointers to an inode, counted.                                      *)

LEMMA FdsFinite == IsFiniteSet(Fds) /\ IsFiniteSet(Procs \X Fds) /\ IsFiniteSet(Procs)
<1>1. IsFiniteSet(Fds)
  BY FilesAssumption, FS_Interval DEF Fds
<1>2. QED
  BY <1>1, FilesAssumption, FS_Product

LEMMA PointersFinite ==
  ASSUME NEW F, NEW W, NEW n
  PROVE  /\ IsFiniteSet(Refers(F, n)) /\ Cardinality(Refers(F, n)) \in Nat
         /\ IsFiniteSet(In(W, n)) /\ Cardinality(In(W, n)) \in Nat
<1>1. Refers(F, n) \subseteq Procs \X Fds /\ In(W, n) \subseteq Procs
  BY DEF Refers, In
<1>2. QED
  BY <1>1, FdsFinite, FS_Subset, FS_CardinalityType

\* G is F with one entry more, which refers to m
OneMore(F, G, p, f, m) ==
    /\ F[p][f].node = NULL
    /\ G[p][f].node = m
    /\ \A q \in Procs, g \in Fds : q # p \/ g # f => G[q][g].node = F[q][g].node

LEMMA OneMoreCounts ==
  ASSUME NEW F, NEW G, NEW p \in Procs, NEW f \in Fds, NEW m \in Nodes, OneMore(F, G, p, f, m),
         NEW n \in Nodes
  PROVE  Cardinality(Refers(G, n)) = Cardinality(Refers(F, n)) + (IF n = m THEN 1 ELSE 0)
<1>1. \A x \in Procs \X Fds : x # <<p, f>> =>
         (G[x[1]][x[2]].node = F[x[1]][x[2]].node /\ (x[1] # p \/ x[2] # f))
  BY DEF OneMore
<1>2. <<p, f>> \in Procs \X Fds /\ <<p, f>>[1] = p /\ <<p, f>>[2] = f
  OBVIOUS
<1>3. <<p, f>> \notin Refers(F, n)
  BY <1>2, NodeNames DEF Refers, OneMore
<1>4. CASE n = m
  <2>1. <<p, f>> \in Refers(G, n)
    BY <1>2, <1>4 DEF Refers, OneMore
  <2>2. Refers(G, n) = Refers(F, n) \cup {<<p, f>>}
    BY <1>1, <1>3, <2>1 DEF Refers
  <2>3. Cardinality(Refers(G, n)) = Cardinality(Refers(F, n)) + 1
    BY <1>3, <2>2, PointersFinite, FS_AddElement
  <2>4. QED
    BY <1>4, <2>3
<1>5. CASE n # m
  <2>1. <<p, f>> \notin Refers(G, n)
    BY <1>2, <1>5 DEF Refers, OneMore
  <2>2. Refers(G, n) = Refers(F, n)
    BY <1>1, <1>3, <2>1 DEF Refers
  <2>3. QED
    BY <1>5, <2>2, PointersFinite
<1>6. QED
  BY <1>4, <1>5

\* vfs_open and the new descriptor, fd_array_dup, vfs_close and the freed descriptor
LEMMA ExactOpen ==
  ASSUME NEW v \in VfsStates, NEW w, NEW F, NEW G, NEW W, NEW L \in [Nodes -> Nat],
         NEW p \in Procs, NEW f \in Fds, NEW m \in Nodes, OneMore(F, G, p, f, m),
         Counts(v, w, m, 1, 1), Exact(v, F, W, L)
  PROVE  Exact(w, G, W, L)
<1> SUFFICES ASSUME NEW n \in Nodes
             PROVE  /\ w.ref[n] = Cardinality(Refers(G, n)) + Cardinality(In(W, n)) + L[n] + Fixed(n)
                    /\ w.open[n] >= Cardinality(Refers(G, n))
                    /\ w.open[n] <= Cardinality(Refers(G, n)) + L[n]
  BY DEF Exact
<1>1. Cardinality(Refers(G, n)) = Cardinality(Refers(F, n)) + (IF n = m THEN 1 ELSE 0)
  BY OneMoreCounts
<1>2. Cardinality(Refers(F, n)) \in Nat /\ Cardinality(In(W, n)) \in Nat /\ L[n] \in Nat
      /\ v.ref[n] \in Int /\ v.open[n] \in Int /\ Fixed(n) \in Nat
  BY PointersFinite DEF VfsStates, VfsWith, Fixed
<1>3. QED
  BY <1>1, <1>2 DEF Exact, Counts

LEMMA ExactClose ==
  ASSUME NEW v \in VfsStates, NEW w, NEW F, NEW G, NEW W, NEW L \in [Nodes -> Nat],
         NEW p \in Procs, NEW f \in Fds, NEW m \in Nodes, OneMore(G, F, p, f, m),
         Counts(v, w, m, -1, -1), Exact(v, F, W, L)
  PROVE  Exact(w, G, W, L)
<1> SUFFICES ASSUME NEW n \in Nodes
             PROVE  /\ w.ref[n] = Cardinality(Refers(G, n)) + Cardinality(In(W, n)) + L[n] + Fixed(n)
                    /\ w.open[n] >= Cardinality(Refers(G, n))
                    /\ w.open[n] <= Cardinality(Refers(G, n)) + L[n]
  BY DEF Exact
<1>1. Cardinality(Refers(F, n)) = Cardinality(Refers(G, n)) + (IF n = m THEN 1 ELSE 0)
  BY OneMoreCounts
<1>2. Cardinality(Refers(G, n)) \in Nat /\ Cardinality(In(W, n)) \in Nat /\ L[n] \in Nat
      /\ v.ref[n] \in Int /\ v.open[n] \in Int /\ Fixed(n) \in Nat
  BY PointersFinite DEF VfsStates, VfsWith, Fixed
<1>3. QED
  BY <1>1, <1>2 DEF Exact, Counts

\* an operation that changes no count and no pointer
LEMMA ExactSame ==
  ASSUME NEW v \in VfsStates, NEW w, NEW F, NEW G, NEW W, NEW L, NEW m, Counts(v, w, m, 0, 0),
         \A q \in Procs, g \in Fds : G[q][g].node = F[q][g].node, Exact(v, F, W, L)
  PROVE  Exact(w, G, W, L)
<1>1. \A n \in Nodes : Refers(G, n) = Refers(F, n)
  BY DEF Refers
<1>2. \A n \in Nodes : w.ref[n] = v.ref[n] /\ w.open[n] = v.open[n]
  BY DEF Counts, VfsStates, VfsWith
<1>3. QED
  BY <1>1, <1>2 DEF Exact

\* a reference of vfs_lookup that is not dropped
LEMMA ExactLose ==
  ASSUME NEW v \in VfsStates, NEW w, NEW F, NEW W, NEW L \in [Nodes -> Nat], NEW m \in Nodes,
         Counts(v, w, m, 1, 0), Exact(v, F, W, L)
  PROVE  Exact(w, F, W, [L EXCEPT ![m] = @ + 1])
<1> DEFINE M == [L EXCEPT ![m] = @ + 1]
<1> SUFFICES ASSUME NEW n \in Nodes
             PROVE  /\ w.ref[n] = Cardinality(Refers(F, n)) + Cardinality(In(W, n)) + M[n] + Fixed(n)
                    /\ w.open[n] >= Cardinality(Refers(F, n))
                    /\ w.open[n] <= Cardinality(Refers(F, n)) + M[n]
  BY DEF Exact
<1>1. M[n] = L[n] + (IF n = m THEN 1 ELSE 0)
  OBVIOUS
<1>2. Cardinality(Refers(F, n)) \in Nat /\ Cardinality(In(W, n)) \in Nat /\ L[n] \in Nat
      /\ v.ref[n] \in Int /\ v.open[n] \in Int /\ Fixed(n) \in Nat
  BY PointersFinite DEF VfsStates, VfsWith, Fixed
<1> HIDE DEF M
<1>3. QED
  BY <1>1, <1>2 DEF Exact, Counts

\* the current directory of one process more
LEMMA OneMoreDir ==
  ASSUME NEW W \in Dirs, NEW X \in Dirs, NEW p \in Procs, W[p] = NULL, X = [W EXCEPT ![p] = Root],
         NEW n \in Nodes
  PROVE  Cardinality(In(X, n)) = Cardinality(In(W, n)) + (IF n = Root THEN 1 ELSE 0)
<1>1. X[p] = Root /\ \A q \in Procs : q # p => X[q] = W[q]
  BY DEF Dirs
<1>2. p \notin In(W, n)
  BY NodeNames DEF In
<1>3. CASE n = Root
  <2>1. In(X, n) = In(W, n) \cup {p}
    BY <1>1, <1>3 DEF In
  <2>2. Cardinality(In(X, n)) = Cardinality(In(W, n)) + 1
    BY <1>2, <2>1, PointersFinite, FS_AddElement
  <2>3. QED
    BY <1>3, <2>2
<1>4. CASE n # Root
  <2>1. In(X, n) = In(W, n)
    BY <1>1, <1>2, <1>4 DEF In
  <2>2. QED
    BY <1>4, <2>1, PointersFinite
<1>5. QED
  BY <1>3, <1>4

LEMMA ExactDirInc ==
  ASSUME NEW v \in VfsStates, NEW w, NEW F, NEW W \in Dirs, NEW X \in Dirs, NEW L \in [Nodes -> Nat],
         NEW p \in Procs, W[p] = NULL, X = [W EXCEPT ![p] = Root],
         Counts(v, w, Root, 1, 0), Exact(v, F, W, L)
  PROVE  Exact(w, F, X, L)
<1> SUFFICES ASSUME NEW n \in Nodes
             PROVE  /\ w.ref[n] = Cardinality(Refers(F, n)) + Cardinality(In(X, n)) + L[n] + Fixed(n)
                    /\ w.open[n] >= Cardinality(Refers(F, n))
                    /\ w.open[n] <= Cardinality(Refers(F, n)) + L[n]
  BY DEF Exact
<1>1. Cardinality(In(X, n)) = Cardinality(In(W, n)) + (IF n = Root THEN 1 ELSE 0)
  BY OneMoreDir
<1>2. Cardinality(Refers(F, n)) \in Nat /\ Cardinality(In(W, n)) \in Nat /\ L[n] \in Nat
      /\ v.ref[n] \in Int /\ v.open[n] \in Int /\ Fixed(n) \in Nat
  BY PointersFinite DEF VfsStates, VfsWith, Fixed
<1>3. QED
  BY <1>1, <1>2 DEF Exact, Counts

LEMMA ExactDirDec ==
  ASSUME NEW v \in VfsStates, NEW w, NEW F, NEW W \in Dirs, NEW X \in Dirs, NEW L \in [Nodes -> Nat],
         NEW p \in Procs, W[p] = NULL, X = [W EXCEPT ![p] = Root],
         Counts(v, w, Root, -1, 0), Exact(v, F, X, L)
  PROVE  Exact(w, F, W, L)
<1> SUFFICES ASSUME NEW n \in Nodes
             PROVE  /\ w.ref[n] = Cardinality(Refers(F, n)) + Cardinality(In(W, n)) + L[n] + Fixed(n)
                    /\ w.open[n] >= Cardinality(Refers(F, n))
                    /\ w.open[n] <= Cardinality(Refers(F, n)) + L[n]
  BY DEF Exact
<1>1. Cardinality(In(X, n)) = Cardinality(In(W, n)) + (IF n = Root THEN 1 ELSE 0)
  BY OneMoreDir
<1>2. Cardinality(Refers(F, n)) \in Nat /\ Cardinality(In(W, n)) \in Nat /\ L[n] \in Nat
      /\ v.ref[n] \in Int /\ v.open[n] \in Int /\ Fixed(n) \in Nat
  BY PointersFinite DEF VfsStates, VfsWith, Fixed
<1>3. /\ v.ref[n] = Cardinality(Refers(F, n)) + Cardinality(In(X, n)) + L[n] + Fixed(n)
      /\ v.open[n] >= Cardinality(Refers(F, n))
      /\ v.open[n] <= Cardinality(Refers(F, n)) + L[n]
  BY DEF Exact
<1>4. w.ref[n] = v.ref[n] + (IF n = Root THEN -1 ELSE 0) /\ w.open[n] = v.open[n]
  BY <1>2 DEF Counts
<1>5. QED
  BY <1>1, <1>2, <1>3, <1>4

\* the entries of one table are lost, and its current directory
LEMMA HeldCounts ==
  ASSUME NEW F \in Tables, NEW p \in Procs, NEW n \in Nodes
  PROVE  /\ Cardinality({f \in Fds : F[p][f].node = n}) \in Nat
         /\ Cardinality(Refers(F, n)) = Cardinality(Refers([F EXCEPT ![p] = fd_array_init], n))
                                        + Cardinality({f \in Fds : F[p][f].node = n})
<1> DEFINE G == [F EXCEPT ![p] = fd_array_init]
           A == {f \in Fds : F[p][f].node = n}
           B == {<<p, f>> : f \in A}
           C == Refers(G, n)
<1>1. IsFiniteSet(A) /\ Cardinality(A) \in Nat
  BY FdsFinite, FS_Subset, FS_CardinalityType
<1>2. IsFiniteSet(B) /\ Cardinality(B) = Cardinality(A)
  <2> DEFINE h == [f \in A |-> <<p, f>>]
  <2>1. h \in [A -> B] /\ \A f, g \in A : h[f] = h[g] => f = g
    OBVIOUS
  <2>2. \A x \in B : \E f \in A : h[f] = x
    OBVIOUS
  <2>3. h \in Bijection(A, B)
    BY <2>1, <2>2 DEF Bijection, Injection, Surjection, IsInjective
  <2>4. ExistsBijection(A, B)
    BY <2>3 DEF ExistsBijection
  <2>5. QED
    BY <1>1, <2>4, FS_Bijection
<1>3. \A q \in Procs, f \in Fds : G[q][f] = IF q = p THEN Free ELSE F[q][f]
  BY DEF Tables, fd_array_init
<1>4. Free.node = NULL
  BY DEF Free
<1>5. \A x \in Procs \X Fds : /\ x = <<x[1], x[2]>> /\ x[1] \in Procs /\ x[2] \in Fds
                              /\ (x \in B <=> x[1] = p /\ x[2] \in A)
  OBVIOUS
<1> HIDE DEF G
<1>6. C \cap B = {}
  BY <1>3, <1>4, <1>5, NodeNames DEF Refers
<1>7. Refers(F, n) = C \cup B
  <2>1. B \subseteq Procs \X Fds
    OBVIOUS
  <2>2. ASSUME NEW x \in Procs \X Fds PROVE x \in Refers(F, n) <=> x \in C \/ x \in B
    <3> HIDE DEF B
    <3>1. x[1] \in Procs /\ x[2] \in Fds /\ (x \in B <=> x[1] = p /\ x[2] \in A)
      BY <1>5
    <3>2. x \in C <=> G[x[1]][x[2]].node = n
      BY DEF Refers
    <3>3. G[x[1]][x[2]] = IF x[1] = p THEN Free ELSE F[x[1]][x[2]]
      BY <1>3, <3>1
    <3>4. QED
      BY <1>4, <3>1, <3>2, <3>3, NodeNames DEF Refers
  <2>3. QED
    BY <2>1, <2>2 DEF Refers
<1>8. Cardinality(C \cup B) = Cardinality(C) + Cardinality(B) - Cardinality(C \cap B)
  BY <1>2, PointersFinite, FS_Union
<1>9. Cardinality(C) \in Nat /\ Cardinality({}) = 0
  BY PointersFinite, FS_EmptySet
<1> HIDE DEF A, B, C
<1>10. Cardinality(C \cap B) = 0
  BY <1>6, <1>9
<1>11. Cardinality(Refers(F, n)) = Cardinality(C \cup B)
  BY <1>7
<1>12. Cardinality(A) \in Nat /\ Cardinality(Refers(F, n)) = Cardinality(C) + Cardinality(A)
  BY <1>1, <1>2, <1>8, <1>9, <1>10, <1>11
<1>13. QED
  BY <1>12 DEF A, C, G

LostWith(L, d, t) == [n \in Nodes |-> L[n] + Held(d, t)[n]]

LEMMA ExactGone ==
  ASSUME NEW v \in VfsStates, NEW F \in Tables, NEW W \in Dirs, NEW L \in [Nodes -> Nat],
         NEW p \in Procs, Exact(v, F, W, L)
  PROVE  /\ Exact(v, [F EXCEPT ![p] = fd_array_init], [W EXCEPT ![p] = NULL],
                  LostWith(L, W[p], F[p]))
         /\ LostWith(L, W[p], F[p]) \in [Nodes -> Nat]
<1> DEFINE G == [F EXCEPT ![p] = fd_array_init]
           X == [W EXCEPT ![p] = NULL]
           H == Held(W[p], F[p])
           M == [n \in Nodes |-> L[n] + H[n]]
           d(n) == IF W[p] = n THEN 1 ELSE 0
           c(n) == Cardinality({f \in Fds : F[p][f].node = n})
<1>1. ASSUME NEW n \in Nodes PROVE H[n] = c(n) + d(n) /\ d(n) \in Nat /\ c(n) \in Nat
  BY HeldCounts DEF Held
<1>2. ASSUME NEW n \in Nodes PROVE Cardinality(In(W, n)) = Cardinality(In(X, n)) + d(n)
  <2>1. X \in Dirs /\ X[p] = NULL
    BY DEF Dirs
  <2>2. CASE W[p] = Root
    <3>1. W = [X EXCEPT ![p] = Root]
      BY <2>2 DEF Dirs
    <3> HIDE DEF X
    <3>2. QED
      BY <2>1, <2>2, <3>1, OneMoreDir
  <2>3. CASE W[p] # Root
    <3>1. W[p] = NULL /\ X = W
      BY <2>3 DEF Dirs
    <3> HIDE DEF X
    <3>2. QED
      BY <3>1, NodeNames, PointersFinite
  <2>4. QED
    BY <2>2, <2>3
<1>3. ASSUME NEW n \in Nodes
      PROVE  /\ v.ref[n] = Cardinality(Refers(G, n)) + Cardinality(In(X, n)) + M[n] + Fixed(n)
             /\ v.open[n] >= Cardinality(Refers(G, n))
             /\ v.open[n] <= Cardinality(Refers(G, n)) + M[n]
             /\ M[n] \in Nat
  <2>1. Cardinality(Refers(F, n)) = Cardinality(Refers(G, n)) + c(n)
    BY HeldCounts
  <2>2. M[n] = L[n] + H[n] /\ L[n] \in Nat
    OBVIOUS
  <2>3. Cardinality(Refers(G, n)) \in Nat /\ Cardinality(In(X, n)) \in Nat
        /\ v.ref[n] \in Int /\ v.open[n] \in Int /\ Fixed(n) \in Nat
    BY PointersFinite DEF VfsStates, VfsWith, Fixed
  <2>4. /\ v.ref[n] = Cardinality(Refers(F, n)) + Cardinality(In(W, n)) + L[n] + Fixed(n)
        /\ v.open[n] >= Cardinality(Refers(F, n))
        /\ v.open[n] <= Cardinality(Refers(F, n)) + L[n]
    BY DEF Exact
  <2>5. H[n] = c(n) + d(n) /\ d(n) \in Nat /\ c(n) \in Nat
    BY <1>1
  <2>6. Cardinality(In(W, n)) = Cardinality(In(X, n)) + d(n)
    BY <1>2
  <2> HIDE DEF G, X, H, M, d, c
  <2>7. QED
    BY <2>1, <2>2, <2>3, <2>4, <2>5, <2>6
<1> HIDE DEF G, X
<1>4. Exact(v, G, X, M)
  <2>1. \A n \in Nodes :
           /\ v.ref[n] = Cardinality(Refers(G, n)) + Cardinality(In(X, n)) + M[n] + Fixed(n)
           /\ v.open[n] >= Cardinality(Refers(G, n))
           /\ v.open[n] <= Cardinality(Refers(G, n)) + M[n]
    BY <1>3
  <2> HIDE DEF M
  <2>2. QED
    BY <2>1 DEF Exact
<1>5. M \in [Nodes -> Nat]
  BY <1>3
<1>6. QED
  BY <1>4, <1>5 DEF G, X, LostWith

-----------------------------------------------------------------------------
(* The loops over a descriptor table: CloseAll and dup_files.              *)

\* every nonempty set of natural numbers has a least element
LEMMA LeastNumber ==
  ASSUME NEW T \in SUBSET Nat, T # {}
  PROVE  \E n \in T : \A m \in T : n <= m
<1>1. IsWellFoundedOn(OpToRel(<, Nat), Nat)
  BY NatLessThanWellFounded, Zenon
<1>2. \E n \in T : \A m \in T : ~ (<<m, n>> \in OpToRel(<, Nat))
  BY <1>1, WFMin, Zenon
<1>3. ASSUME NEW n \in T, NEW m \in T, ~ (<<m, n>> \in OpToRel(<, Nat))
      PROVE  n <= m
  BY <1>3 DEF OpToRel
<1>4. QED
  BY <1>2, <1>3, Zenon

\* one turn of the loop: what closing, or copying, entry f of t does
Turn(loop, t, f, w) == IF loop = "close" THEN fd_array_close(w, t[f]).v ELSE fd_array_dup(w, t[f])
Pick(s) == CHOOSE f \in s : TRUE
\* the recursion of FoldSet, from one set of entries to a set with one less
Unfolds(loop, t, v, dom, it) ==
    it = [s \in dom |-> IF s = {} THEN v ELSE Turn(loop, t, Pick(s), it[s \ {Pick(s)}])]
Loop(loop, t, v, S) == CHOOSE it : Unfolds(loop, t, v, SUBSET S, it)

LEMMA CloseIsLoop ==
  ASSUME NEW t, NEW v, NEW S
  PROVE  FoldSet(LAMBDA f, w : fd_array_close(w, t[f]).v, v, S) = Loop("close", t, v, S)[S]
BY DEF FoldSet, MapThenFoldSet, Loop, Unfolds, Turn, Pick

LEMMA DupIsLoop ==
  ASSUME NEW t, NEW v, NEW S
  PROVE  FoldSet(LAMBDA f, x : fd_array_dup(x, t[f]), v, S) = Loop("dup", t, v, S)[S]
BY DEF FoldSet, MapThenFoldSet, Loop, Unfolds, Turn, Pick

LEMMA PickSmaller ==
  ASSUME NEW S, IsFiniteSet(S), NEW s \in SUBSET S, s # {}
  PROVE  /\ Pick(s) \in s /\ s \ {Pick(s)} \in SUBSET S
         /\ Cardinality(s) \in Nat \ {0} /\ Cardinality(s \ {Pick(s)}) = Cardinality(s) - 1
<1>1. Pick(s) \in s
  BY DEF Pick
<1>2. IsFiniteSet(s) /\ Cardinality(s) \in Nat /\ Cardinality(s) # 0
  BY FS_Subset, FS_CardinalityType, FS_EmptySet
<1>3. Cardinality(s \ {Pick(s)}) = Cardinality(s) - 1
  BY <1>1, <1>2, FS_RemoveElement
<1>4. QED
  BY <1>1, <1>2, <1>3

\* the recursion has a solution: the least size of sets without one would get it
\* from the size before
LEMMA LoopUnfolds ==
  ASSUME NEW loop, NEW t, NEW v, NEW S, IsFiniteSet(S)
  PROVE  Unfolds(loop, t, v, SUBSET S, Loop(loop, t, v, S))
<1> DEFINE N == Cardinality(S)
           Sub(k) == {s \in SUBSET S : Cardinality(s) <= k}
           Solved(k) == \E it : Unfolds(loop, t, v, Sub(k), it)
           T == {k \in 0..N : ~ Solved(k)}
<1>1. N \in Nat
  BY FS_CardinalityType
<1>2. ASSUME T # {} PROVE FALSE
  <2> HIDE DEF Solved
  <2>1. T \in SUBSET Nat
    BY <1>1
  <2>2. PICK k \in T : \A m \in T : k <= m
    BY <1>2, <2>1, LeastNumber
  <2>3. k \in 0..N /\ ~ Solved(k)
    OBVIOUS
  <2>4. CASE k = 0
    <3> DEFINE g == [s \in Sub(0) |-> v]
    <3>1. \A s \in Sub(0) : s = {}
      <4>1. ASSUME NEW s \in Sub(0) PROVE s = {}
        <5>1. s \in SUBSET S /\ Cardinality(s) <= 0
          OBVIOUS
        <5>2. IsFiniteSet(s) /\ Cardinality(s) \in Nat
          BY <5>1, FS_Subset, FS_CardinalityType
        <5>3. Cardinality(s) = 0
          BY <5>1, <5>2
        <5>4. QED
          BY <5>2, <5>3, FS_EmptySet
      <4>2. QED
        BY <4>1
    <3> HIDE DEF Sub
    <3>2. g = [s \in Sub(0) |-> IF s = {} THEN v ELSE Turn(loop, t, Pick(s), g[s \ {Pick(s)}])]
      BY <3>1
    <3> HIDE DEF g
    <3>3. Unfolds(loop, t, v, Sub(0), g)
      BY <3>2 DEF Unfolds
    <3>4. QED
      BY <2>3, <2>4, <3>3 DEF Solved
  <2>5. CASE k # 0
    <3>1. k - 1 \in 0..N /\ k - 1 \notin T
      BY <1>1, <2>2, <2>3, <2>5
    <3>2. PICK g : Unfolds(loop, t, v, Sub(k - 1), g)
      BY <3>1 DEF Solved
    <3> DEFINE h == [s \in Sub(k) |->
                       IF s = {} THEN v ELSE Turn(loop, t, Pick(s), g[s \ {Pick(s)}])]
    <3>3. Sub(k - 1) \subseteq Sub(k)
      <4>1. ASSUME NEW s \in SUBSET S, Cardinality(s) <= k - 1 PROVE Cardinality(s) <= k
        <5>1. Cardinality(s) \in Nat
          BY FS_Subset, FS_CardinalityType
        <5>2. QED
          BY <2>3, <4>1, <5>1
      <4>2. QED
        BY <4>1
    <3>4. ASSUME NEW s \in Sub(k), s # {} PROVE s \ {Pick(s)} \in Sub(k - 1)
      <4>1. s \in SUBSET S /\ Cardinality(s) <= k
        OBVIOUS
      <4>2. s \ {Pick(s)} \in SUBSET S /\ Cardinality(s) \in Nat
            /\ Cardinality(s \ {Pick(s)}) = Cardinality(s) - 1
        BY <3>4, <4>1, PickSmaller
      <4>3. QED
        BY <2>3, <4>1, <4>2
    <3> HIDE DEF Sub
    <3>5. ASSUME NEW s \in Sub(k - 1) PROVE g[s] = h[s]
      <4>1. s \in Sub(k)
        BY <3>3
      <4>2. g[s] = IF s = {} THEN v ELSE Turn(loop, t, Pick(s), g[s \ {Pick(s)}])
        BY <3>2, Zenon DEF Unfolds
      <4>3. QED
        BY <4>1, <4>2
    <3>6. ASSUME NEW s \in Sub(k)
          PROVE  h[s] = IF s = {} THEN v ELSE Turn(loop, t, Pick(s), h[s \ {Pick(s)}])
      <4>1. CASE s = {}
        BY <4>1
      <4>2. CASE s # {}
        <5>1. g[s \ {Pick(s)}] = h[s \ {Pick(s)}]
          BY <3>4, <3>5, <4>2
        <5>2. h[s] = Turn(loop, t, Pick(s), g[s \ {Pick(s)}])
          BY <4>2
        <5> HIDE DEF h
        <5>3. QED
          BY <4>2, <5>1, <5>2
      <4>3. QED
        BY <4>1, <4>2
    <3>7. h = [s \in Sub(k) |-> h[s]]
      OBVIOUS
    <3> HIDE DEF h
    <3>8. Unfolds(loop, t, v, Sub(k), h)
      BY <3>6, <3>7, Zenon DEF Unfolds
    <3>9. QED
      BY <2>3, <3>8 DEF Solved
  <2>6. QED
    BY <2>4, <2>5
<1>3. Solved(N)
  <2> HIDE DEF Solved
  <2>1. N \in 0..N
    BY <1>1
  <2>2. QED
    BY <1>2, <2>1
<1>4. Sub(N) = SUBSET S
  BY FS_Subset
<1>5. \E it : Unfolds(loop, t, v, SUBSET S, it)
  BY <1>3, <1>4
<1>6. QED
  BY <1>5, Zenon DEF Loop

LEMMA FreeIs == Free.node = NULL /\ Free.status = "NONE" /\ Free.open_count = 0 /\ Free \in Entry
BY DEF Free, Entry

LEMMA EntryIs ==
  ASSUME NEW e \in Entry
  PROVE  /\ e.status \in {"NONE", "OPENED"} /\ e.node \in Nodes \cup {NULL}
         /\ e.status = "OPENED" <=> e.node \in Nodes
         /\ e.status = "NONE" => e = Free
         /\ e.open_count \in {0, 1, 2}
         /\ e.open_count = 0 <=> e.status = "NONE"
<1>1. CASE e = Free
  BY <1>1, FreeIs, NodeNames
<1>2. CASE e # Free
  <2>1. e \in [status : {"OPENED"}, readable : BOOLEAN, writable : BOOLEAN,
               node : Nodes, open_count : {1, 2}]
    BY <1>2 DEF Entry
  <2>2. e.status = "OPENED" /\ e.node \in Nodes /\ e.open_count \in {1, 2}
    BY <2>1
  <2>3. QED
    BY <2>2
<1>3. QED
  BY <1>1, <1>2

LEMMA CloseEntry ==
  ASSUME NEW w, NEW e \in Entry, e.status = "OPENED", e.open_count = 1
  PROVE  fd_array_close(w, e).v = vfs_close(w, e.node) /\ fd_array_close(w, e).e = Free
<1>1. e \in [status : {"OPENED"}, readable : BOOLEAN, writable : BOOLEAN,
             node : Nodes, open_count : {1, 2}]
  BY FreeIs DEF Entry
<1> DEFINE c == [e EXCEPT !.status = "CLOSED"]
           d == [c EXCEPT !.open_count = c.open_count - 1]
<1>2. c.status = "CLOSED" /\ c.node = e.node /\ c.open_count = 1
      /\ c \in [status : {"CLOSED"}, readable : BOOLEAN, writable : BOOLEAN,
                node : Nodes, open_count : {1, 2}]
  BY <1>1
<1> HIDE DEF c
<1>3. d.status = "CLOSED" /\ d.node = e.node /\ d.open_count = 0
  BY <1>2
<1> HIDE DEF d
<1>4. fd_array_release(w, c) = [v |-> fd_array_free(w, d), e |-> Free]
  BY <1>3 DEF fd_array_release, d
<1>5. fd_array_free(w, d) = vfs_close(w, e.node)
  BY <1>3 DEF fd_array_free
<1>6. QED
  BY <1>4, <1>5 DEF fd_array_close, c

\* a descriptor acquired for a read is released
LEMMA ReleaseEntry ==
  ASSUME NEW w, NEW e \in Entry, e.open_count = 2
  PROVE  /\ fd_array_release(w, e).v = w
         /\ fd_array_release(w, e).e \in Entry
         /\ fd_array_release(w, e).e.node = e.node
         /\ fd_array_release(w, e).e.open_count = 1
<1>1. e \in [status : {"OPENED"}, readable : BOOLEAN, writable : BOOLEAN,
             node : Nodes, open_count : {1, 2}]
  BY FreeIs DEF Entry
<1> DEFINE d == [e EXCEPT !.open_count = e.open_count - 1]
<1>2. d.open_count = 1 /\ d.node = e.node
      /\ d \in [status : {"OPENED"}, readable : BOOLEAN, writable : BOOLEAN,
                node : Nodes, open_count : {1, 2}]
  BY <1>1
<1> HIDE DEF d
<1>3. fd_array_release(w, e) = [v |-> w, e |-> d]
  BY <1>2 DEF fd_array_release, d
<1>4. QED
  BY <1>2, <1>3 DEF Entry

\* the tables when the loop has done the entries in s
Part(loop, F, p, t, s) ==
    [F EXCEPT ![p] = [f \in Fds |-> IF loop = "close" THEN IF f \in s THEN Free ELSE t[f]
                                    ELSE IF f \in s THEN t[f] ELSE Free]]

LEMMA PartOneMore ==
  ASSUME NEW loop, NEW F \in Tables, NEW p \in Procs, NEW t \in Table,
         NEW s \in SUBSET Fds, NEW x \in s
  PROVE  IF loop = "close"
         THEN OneMore(Part(loop, F, p, t, s), Part(loop, F, p, t, s \ {x}), p, x, t[x].node)
         ELSE OneMore(Part(loop, F, p, t, s \ {x}), Part(loop, F, p, t, s), p, x, t[x].node)
<1> DEFINE G == Part(loop, F, p, t, s)
           H == Part(loop, F, p, t, s \ {x})
           in(f) == IF loop = "close" THEN Free ELSE t[f]
           out(f) == IF loop = "close" THEN t[f] ELSE Free
<1>1. ASSUME NEW q \in Procs, NEW f \in Fds
      PROVE  /\ G[q][f] = IF q # p THEN F[q][f] ELSE IF f \in s THEN in(f) ELSE out(f)
             /\ H[q][f] = IF q # p THEN F[q][f] ELSE IF f \in s \ {x} THEN in(f) ELSE out(f)
  BY DEF Part, Tables
<1> HIDE DEF G, H
<1>2. G[p][x] = in(x) /\ H[p][x] = out(x)
  BY <1>1
<1>3. ASSUME NEW q \in Procs, NEW g \in Fds, q # p \/ g # x PROVE G[q][g] = H[q][g]
  <2> HIDE DEF in, out
  <2>1. QED
    BY <1>1, <1>3
<1>4. QED
  BY <1>2, <1>3, FreeIs DEF OneMore, G, H

\* the counts stay exact through the loop
LEMMA LoopExact ==
  ASSUME NEW loop \in {"close", "dup"}, NEW F \in Tables, NEW p \in Procs, NEW t \in Table,
         NEW W, NEW L \in [Nodes -> Nat], NEW S \in SUBSET Fds,
         \A f \in S : t[f].status = "OPENED",
         loop = "close" => \A f \in S : t[f].open_count = 1,
         NEW v \in VfsStates, Exact(v, Part(loop, F, p, t, {}), W, L)
  PROVE  /\ Loop(loop, t, v, S)[S] \in VfsStates
         /\ Exact(Loop(loop, t, v, S)[S], Part(loop, F, p, t, S), W, L)
<1> DEFINE N == Cardinality(S)
           it == Loop(loop, t, v, S)
           Holds(s) == it[s] \in VfsStates /\ Exact(it[s], Part(loop, F, p, t, s), W, L)
           T == {k \in 0..N : \E s \in SUBSET S : Cardinality(s) = k /\ ~ Holds(s)}
<1>1. IsFiniteSet(S) /\ N \in Nat
  BY FdsFinite, FS_Subset, FS_CardinalityType
<1>2. ASSUME NEW s \in SUBSET S
      PROVE  it[s] = IF s = {} THEN v ELSE Turn(loop, t, Pick(s), it[s \ {Pick(s)}])
  <2>1. Unfolds(loop, t, v, SUBSET S, it)
    BY <1>1, LoopUnfolds
  <2> HIDE DEF it
  <2>2. QED
    BY <2>1, Zenon DEF Unfolds
<1> HIDE DEF it
<1>3. Holds({})
  <2>1. it[{}] = v
    BY <1>2
  <2>2. QED
    BY <2>1
<1>4. ASSUME NEW s \in SUBSET S, s # {}, Holds(s \ {Pick(s)}) PROVE Holds(s)
  <2> DEFINE x == Pick(s)
             w == it[s \ {x}]
             e == t[x]
  <2>1. x \in s /\ x \in S /\ x \in Fds
    BY <1>1, <1>4, PickSmaller
  <2>2. e \in Entry /\ e.status = "OPENED" /\ e.node \in Nodes /\ (loop = "close" => e.open_count = 1)
    BY <2>1, EntryIs DEF Table
  <2>3. w \in VfsStates /\ Exact(w, Part(loop, F, p, t, s \ {x}), W, L)
    BY <1>4
  <2>4. it[s] = Turn(loop, t, x, w)
    BY <1>2, <1>4
  <2> HIDE DEF x
  <2>5. s \in SUBSET Fds
    OBVIOUS
  <2>6. CASE loop = "close"
    <3>1. it[s] = vfs_close(w, e.node)
      BY <2>2, <2>4, <2>6, CloseEntry DEF Turn
    <3> HIDE DEF w
    <3>2. Counts(w, it[s], e.node, -1, -1)
      BY <2>2, <2>3, <3>1, CloseCounts
    <3>3. OneMore(Part(loop, F, p, t, s), Part(loop, F, p, t, s \ {x}), p, x, e.node)
      BY <2>1, <2>5, <2>6, PartOneMore
    <3> HIDE DEF e
    <3>4. Exact(it[s], Part(loop, F, p, t, s), W, L)
      BY <2>1, <2>2, <2>3, <3>2, <3>3, ExactClose
    <3>5. QED
      BY <3>2, <3>4 DEF Counts
  <2>7. CASE loop # "close"
    <3>1. it[s] = fd_array_dup(w, e)
      BY <2>4, <2>7 DEF Turn
    <3> HIDE DEF w
    <3>2. Counts(w, it[s], e.node, 1, 1)
      BY <2>2, <2>3, <3>1, DupCounts
    <3>3. OneMore(Part(loop, F, p, t, s \ {x}), Part(loop, F, p, t, s), p, x, e.node)
      BY <2>1, <2>5, <2>7, PartOneMore
    <3> HIDE DEF e
    <3>4. Exact(it[s], Part(loop, F, p, t, s), W, L)
      BY <2>1, <2>2, <2>3, <3>2, <3>3, ExactOpen
    <3>5. QED
      BY <3>2, <3>4 DEF Counts
  <2>8. QED
    BY <2>6, <2>7
<1> HIDE DEF Holds
<1>5. ASSUME T # {} PROVE FALSE
  <2>1. T \in SUBSET Nat
    BY <1>1
  <2>2. PICK k \in T : \A m \in T : k <= m
    BY <1>5, <2>1, LeastNumber
  <2>3. PICK s \in SUBSET S : Cardinality(s) = k /\ ~ Holds(s)
    OBVIOUS
  <2>4. s # {}
    BY <1>3, <2>3
  <2>5. s \ {Pick(s)} \in SUBSET S /\ Cardinality(s) \in Nat \ {0}
        /\ Cardinality(s \ {Pick(s)}) = Cardinality(s) - 1
    BY <1>1, <2>4, PickSmaller
  <2>6. k \in 0..N /\ k - 1 \in 0..N
    BY <1>1, <2>3, <2>5
  <2>7. ~ Holds(s \ {Pick(s)})
    BY <1>4, <2>3, <2>4
  <2>8. k - 1 \in T
    BY <2>3, <2>5, <2>6, <2>7
  <2>9. QED
    BY <2>2, <2>6, <2>8
<1>6. Holds(S)
  <2>1. S \in SUBSET S /\ N \in 0..N
    BY <1>1
  <2>2. QED
    BY <1>5, <2>1
<1>7. QED
  BY <1>6 DEF Holds, it

\* files_closeall and files_destroy: the open entries in fs are closed
LEMMA CloseAllExact ==
  ASSUME NEW F \in Tables, NEW p \in Procs, NEW fs \in SUBSET Fds, NEW W, NEW L \in [Nodes -> Nat],
         NEW v \in VfsStates, Exact(v, F, W, L), \A f \in Fds : F[p][f].open_count # 2
  PROVE  /\ CloseAll(v, F[p], fs).v \in VfsStates
         /\ CloseAll(v, F[p], fs).t = [f \in Fds |-> IF f \in fs THEN Free ELSE F[p][f]]
         /\ CloseAll(v, F[p], fs).t \in Table
         /\ Exact(CloseAll(v, F[p], fs).v, [F EXCEPT ![p] = CloseAll(v, F[p], fs).t], W, L)
<1> DEFINE t == F[p]
           open == {f \in fs : t[f].status = "OPENED"}
           u == Loop("close", t, v, open)[open]
           r == [f \in Fds |-> IF f \in open THEN fd_array_close(v, t[f]).e ELSE t[f]]
           g == [f \in Fds |-> IF f \in fs THEN Free ELSE t[f]]
<1>1. t \in Table /\ \A f \in Fds : t[f] \in Entry
  BY DEF Tables, Table
<1>2. CloseAll(v, t, fs) = [v |-> u, t |-> r]
  BY CloseIsLoop DEF CloseAll
<1>3. open \in SUBSET Fds /\ \A f \in open : t[f].status = "OPENED" /\ t[f].open_count = 1
  BY <1>1, EntryIs
<1>4. r = g /\ g \in Table
  <2>1. ASSUME NEW f \in Fds PROVE r[f] = g[f] /\ g[f] \in Entry
    <3>1. CASE f \in open
      <4>1. fd_array_close(v, t[f]).e = Free
        BY <1>1, <1>3, <3>1, CloseEntry
      <4>2. QED
        BY <3>1, <4>1, FreeIs
    <3>2. CASE f \notin open
      <4>1. f \in fs => t[f] = Free
        BY <1>1, <3>2, EntryIs
      <4>2. QED
        BY <1>1, <3>2, <4>1
    <3>3. QED
      BY <3>1, <3>2
  <2>2. r = [f \in Fds |-> r[f]] /\ g = [f \in Fds |-> g[f]]
    OBVIOUS
  <2> HIDE DEF r, g
  <2>3. r = g
    BY <2>1, <2>2
  <2>4. g \in Table
    BY <2>1, <2>2 DEF Table
  <2>5. QED
    BY <2>3, <2>4
<1>5. Part("close", F, p, t, {}) = F
  BY <1>1 DEF Part, Tables, Table
<1>6. Part("close", F, p, t, open) = [F EXCEPT ![p] = g]
  <2>1. [f \in Fds |-> IF f \in open THEN Free ELSE t[f]] = g
    BY <1>1, EntryIs
  <2>2. QED
    BY <2>1 DEF Part
<1> HIDE DEF r, g, open
<1>7. u \in VfsStates /\ Exact(u, Part("close", F, p, t, open), W, L)
  <2>1. Exact(v, Part("close", F, p, t, {}), W, L)
    BY <1>5
  <2>2. "close" \in {"close", "dup"}
    OBVIOUS
  <2> HIDE DEF t
  <2>3. QED
    BY <1>1, <1>3, <2>1, <2>2, LoopExact
<1> HIDE DEF u
<1>8. CloseAll(v, t, fs).v = u /\ CloseAll(v, t, fs).t = g
  BY <1>2, <1>4
<1> HIDE DEF t
<1>9. CloseAll(v, t, fs).v \in VfsStates /\ CloseAll(v, t, fs).t = g
      /\ CloseAll(v, t, fs).t \in Table
      /\ Exact(CloseAll(v, t, fs).v, [F EXCEPT ![p] = CloseAll(v, t, fs).t], W, L)
  BY <1>4, <1>6, <1>7, <1>8
<1>10. QED
  BY <1>9 DEF g, t
-----------------------------------------------------------------------------
(* Path lookup and vfs_open.                                               *)

LEMMA Unchanged ==
  ASSUME NEW v \in VfsStates, NEW n
  PROVE  Counts(v, v, n, 0, 0)
<1>1. \A m \in Nodes : v.ref[m] \in Int /\ v.open[m] \in Int
  BY DEF VfsStates, VfsWith
<1>2. QED
  BY <1>1 DEF Counts

LEMMA GetDevice ==
  ASSUME NEW v \in VfsStates, NEW d \in {NULL, Root}, NEW path
  PROVE  LET g == get_device(v, d, path)
         IN  \/ g = [st |-> "err", v |-> v, node |-> NULL]
             \/ \E n \in Nodes : g = [st |-> "ok", v |-> inode_ref_inc(v, n), node |-> n]
<1> DEFINE n == CASE path[1] = ""  -> d
                  [] path[1] = "/" -> v.bootfs
                  [] OTHER         -> vfs_get_root(v, path[1])
<1>1. v.bootfs = Root /\ DOMAIN v.dev = Devices
  BY DEF VfsStates, VfsWith, DevTables
<1>2. vfs_get_root(v, path[1]) \in Nodes \cup {NULL}
  BY <1>1, NodeNames DEF vfs_get_root
<1>3. n \in Nodes \cup {NULL}
  BY <1>1, <1>2, NodeNames
<1>4. get_device(v, d, path) = IF n = NULL THEN Failed(v) ELSE Done(inode_ref_inc(v, n), n)
  BY DEF get_device
<1> HIDE DEF n
<1>5. QED
  BY <1>3, <1>4 DEF Failed, Done

LEMMA Lookup ==
  ASSUME NEW v \in VfsStates, NEW d \in {NULL, Root}, NEW path
  PROVE  LET found == vfs_lookup(v, d, path)
         IN  /\ found = [st |-> found.st, v |-> found.v, node |-> found.node]
             /\ \/ found.st = "err" /\ found.v = v
                \/ found.st = "noent" /\ Counts(v, found.v, Root, 0, 0)
                \/ found.st = "ok" /\ found.node \in Nodes /\ Counts(v, found.v, found.node, 1, 0)
<1> DEFINE g == get_device(v, d, path)
           found == vfs_lookup(v, d, path)
           f == IF g.st # "ok" \/ path[2] = "" THEN g
                ELSE IF g.node = Root /\ path[2] = File
                THEN Done(inode_ref_dec(inode_ref_inc(g.v, File), g.node), File)
                ELSE [Failed(inode_ref_dec(g.v, g.node)) EXCEPT !.st = "noent"]
<1>1. found = f
  BY DEF vfs_lookup
<1>2. \/ g = [st |-> "err", v |-> v, node |-> NULL]
      \/ \E n \in Nodes : g = [st |-> "ok", v |-> inode_ref_inc(v, n), node |-> n]
  BY GetDevice
<1> HIDE DEF g, found
<1>3. CASE g = [st |-> "err", v |-> v, node |-> NULL]
  <2>1. g.st = "err" /\ g.v = v /\ g.node = NULL
    BY <1>3
  <2>2. found = g
    BY <1>1, <2>1
  <2>3. QED
    BY <1>3, <2>1, <2>2 DEF found
<1>4. CASE \E n \in Nodes : g = [st |-> "ok", v |-> inode_ref_inc(v, n), node |-> n]
  <2>1. PICK n \in Nodes : g = [st |-> "ok", v |-> inode_ref_inc(v, n), node |-> n]
    BY <1>4
  <2> DEFINE u == inode_ref_inc(v, n)
  <2>2. Counts(v, u, n, 1, 0) /\ u \in VfsStates
    BY RefInc DEF Counts
  <2>3. g.st = "ok" /\ g.v = u /\ g.node = n
    BY <2>1
  <2> HIDE DEF u
  <2>4. CASE path[2] = ""
    <3>1. found = g
      BY <1>1, <2>4
    <3>2. found = [st |-> found.st, v |-> found.v, node |-> found.node]
      BY <2>1, <3>1
    <3>3. QED
      BY <2>2, <2>3, <3>1, <3>2 DEF found
  <2>5. CASE path[2] # "" /\ n = Root /\ path[2] = File
    <3> DEFINE x == inode_ref_inc(u, File)
               w == inode_ref_dec(x, Root)
    <3>1. found = Done(w, File)
      BY <1>1, <2>3, <2>5
    <3>2. Counts(u, x, File, 1, 0) /\ x \in VfsStates
      BY <2>2, RefInc, NodeNames DEF Counts
    <3> HIDE DEF x
    <3>3. Counts(x, w, Root, -1, 0)
      BY <3>2, RefDec, NodeNames
    <3> HIDE DEF w
    <3>4. \A m \in Nodes : v.ref[m] \in Int /\ v.open[m] \in Int
      BY DEF VfsStates, VfsWith
    <3>5. Root # File
      BY NodeNames
    <3>6. Counts(v, w, File, 1, 0)
      <4>1. ASSUME NEW m \in Nodes
            PROVE  /\ w.ref[m] = v.ref[m] + (IF m = File THEN 1 ELSE 0)
                   /\ w.open[m] = v.open[m] + (IF m = File THEN 0 ELSE 0)
        <5>1. /\ u.ref[m] = v.ref[m] + (IF m = Root THEN 1 ELSE 0)
              /\ u.open[m] = v.open[m] + (IF m = Root THEN 0 ELSE 0)
          BY <2>2, <2>5 DEF Counts
        <5>2. /\ x.ref[m] = u.ref[m] + (IF m = File THEN 1 ELSE 0)
              /\ x.open[m] = u.open[m] + (IF m = File THEN 0 ELSE 0)
          BY <3>2 DEF Counts
        <5>3. /\ w.ref[m] = x.ref[m] + (IF m = Root THEN -1 ELSE 0)
              /\ w.open[m] = x.open[m] + (IF m = Root THEN 0 ELSE 0)
          BY <3>3 DEF Counts
        <5>4. QED
          BY <3>4, <3>5, <5>1, <5>2, <5>3
      <4>2. QED
        BY <3>3, <4>1 DEF Counts
    <3>7. QED
      BY <3>1, <3>6, NodeNames DEF Done, found
  <2>6. CASE path[2] # "" /\ ~ (n = Root /\ path[2] = File)
    <3> DEFINE w == inode_ref_dec(u, n)
    <3>1. found = [Failed(w) EXCEPT !.st = "noent"]
      BY <1>1, <2>3, <2>6
    <3>2. Counts(u, w, n, -1, 0)
      BY <2>2, RefDec
    <3> HIDE DEF w
    <3>3. Counts(v, w, Root, 0, 0)
      <4>1. \A m \in Nodes : v.ref[m] \in Int /\ v.open[m] \in Int
        BY DEF VfsStates, VfsWith
      <4>2. QED
        BY <2>2, <3>2, <4>1 DEF Counts
    <3>4. QED
      BY <3>1, <3>3 DEF Failed, found
  <2>7. QED
    BY <2>4, <2>5, <2>6
<1>5. QED
  BY <1>2, <1>3, <1>4

\* a successful open has taken a reference and an open count, a failed one nothing,
\* unless it lost the reference of its lookup
OpenResult(v, o, l) ==
    \/ o.st = "panic"
    \/ o.st = "ok" /\ l = NULL /\ o.node \in Nodes /\ Counts(v, o.v, o.node, 1, 1)
    \/ o.st = "err" /\ l = NULL /\ Counts(v, o.v, Root, 0, 0)
    \/ o.st = "err" /\ l \in Nodes /\ Counts(v, o.v, l, 1, 0)

LEMMA VfsOpen ==
  ASSUME NEW v \in VfsStates, NEW d \in {NULL, Root}, NEW path, NEW acc, NEW opts
  PROVE  OpenResult(v, vfs_open(v, d, path, acc, opts), LostByOpen(v, d, path, acc, opts))
<1> DEFINE found == vfs_lookup(v, d, path)
           n == found.node
           o == vfs_open(v, d, path, acc, opts)
           l == LostByOpen(v, d, path, acc, opts)
           refused == "TRUNC" \in opts /\ acc = "RDONLY"
           gives == {"CREAT", "EXCL"} \subseteq opts
           asserts == opts \cap {"TRUNC", "CREAT"} # {} /\ "truncate" \notin Ops(n)
<1>1. o = IF refused THEN Failed(v)
          ELSE IF found.st = "noent" THEN IF "CREAT" \in opts THEN Panic(found.v) ELSE Failed(found.v)
          ELSE IF found.st = "err" THEN found
          ELSE IF gives THEN Failed(found.v)
          ELSE IF ~vop_open(n, acc, opts) THEN Failed(inode_ref_dec(found.v, n))
          ELSE IF asserts THEN Panic(found.v)
          ELSE Done(inode_open_inc(found.v, n), n)
  BY DEF vfs_open
<1>2. l = IF gives /\ found.st = "ok" /\ ~refused THEN n ELSE NULL
  BY DEF LostByOpen
<1>3. \/ found.st = "err" /\ found.v = v
      \/ found.st = "noent" /\ Counts(v, found.v, Root, 0, 0)
      \/ found.st = "ok" /\ n \in Nodes /\ Counts(v, found.v, n, 1, 0)
  BY Lookup
<1> HIDE DEF found, o, l, refused, gives, asserts
<1>4. CASE refused
  <2>1. o.st = "err" /\ o.v = v /\ l = NULL
    BY <1>1, <1>2, <1>4 DEF Failed
  <2>2. QED
    BY <2>1, Unchanged DEF OpenResult, o, l
<1>5. CASE ~refused /\ found.st = "noent"
  <2>1. o.st = "panic" \/ (o.st = "err" /\ o.v = found.v)
    BY <1>1, <1>5 DEF Failed, Panic
  <2>2. l = NULL /\ Counts(v, found.v, Root, 0, 0)
    BY <1>2, <1>3, <1>5
  <2>3. QED
    BY <2>1, <2>2 DEF OpenResult, o, l
<1>6. CASE ~refused /\ found.st = "err"
  <2>1. o.st = "err" /\ o.v = v /\ l = NULL
    BY <1>1, <1>2, <1>3, <1>6
  <2>2. QED
    BY <2>1, Unchanged DEF OpenResult, o, l
<1>7. CASE ~refused /\ found.st = "ok"
  <2>1. n \in Nodes /\ Counts(v, found.v, n, 1, 0) /\ found.v \in VfsStates
    BY <1>3, <1>7 DEF Counts
  <2>2. CASE gives
    <3>1. o.st = "err" /\ o.v = found.v /\ l = n
      BY <1>1, <1>2, <1>7, <2>2 DEF Failed
    <3>2. QED
      BY <2>1, <3>1 DEF OpenResult, o, l
  <2>3. CASE ~gives /\ ~vop_open(n, acc, opts)
    <3> DEFINE w == inode_ref_dec(found.v, n)
    <3>1. o.st = "err" /\ o.v = w /\ l = NULL
      BY <1>1, <1>2, <1>7, <2>3 DEF Failed
    <3>2. Counts(found.v, w, n, -1, 0)
      BY <2>1, RefDec
    <3>3. \A m \in Nodes : v.ref[m] \in Int /\ v.open[m] \in Int
      BY DEF VfsStates, VfsWith
    <3> HIDE DEF w
    <3>4. Counts(v, w, Root, 0, 0)
      BY <2>1, <3>2, <3>3 DEF Counts
    <3>5. QED
      BY <3>1, <3>4 DEF OpenResult, o, l
  <2>4. CASE ~gives /\ vop_open(n, acc, opts) /\ asserts
    <3>1. o.st = "panic"
      BY <1>1, <1>7, <2>4 DEF Panic
    <3>2. QED
      BY <3>1 DEF OpenResult, o
  <2>5. CASE ~gives /\ vop_open(n, acc, opts) /\ ~asserts
    <3> DEFINE w == inode_open_inc(found.v, n)
    <3>1. o = Done(w, n) /\ l = NULL
      BY <1>1, <1>2, <1>7, <2>5
    <3>2. Counts(found.v, w, n, 0, 1)
      BY <2>1, OpenInc
    <3> HIDE DEF w
    <3>3. o.st = "ok" /\ o.v = w /\ o.node = n
      BY <3>1 DEF Done
    <3>4. \A m \in Nodes : v.ref[m] \in Int /\ v.open[m] \in Int
      BY DEF VfsStates, VfsWith
    <3>5. Counts(v, w, n, 1, 1)
      BY <2>1, <3>2, <3>4 DEF Counts
    <3>6. QED
      BY <2>1, <3>1, <3>3, <3>5 DEF OpenResult, o, l
  <2>6. QED
    BY <2>2, <2>3, <2>4, <2>5
<1>8. QED
  BY <1>3, <1>4, <1>5, <1>6, <1>7
-----------------------------------------------------------------------------
(* The files of a process that ends, and of one that is forked.            *)

LEMMA FilesDestroy ==
  ASSUME NEW F \in Tables, NEW p \in Procs, NEW W \in Dirs, NEW L \in [Nodes -> Nat],
         NEW v \in VfsStates, Exact(v, F, W, L), \A f \in Fds : F[p][f].open_count # 2
  PROVE  /\ files_destroy(v, W[p], F[p]) \in VfsStates
         /\ Exact(files_destroy(v, W[p], F[p]), [F EXCEPT ![p] = fd_array_init],
                  [W EXCEPT ![p] = NULL], L)
<1> DEFINE X == [W EXCEPT ![p] = NULL]
           u == IF W[p] = NULL THEN v ELSE inode_ref_dec(v, W[p])
           c == CloseAll(u, F[p], Fds)
<1>1. X \in Dirs /\ X[p] = NULL /\ W[p] \in {NULL, Root}
  BY DEF Dirs
<1>2. u \in VfsStates /\ Exact(u, F, X, L)
  <2>1. CASE W[p] = NULL
    <3>1. X = W
      BY <2>1 DEF Dirs
    <3>2. QED
      BY <2>1, <3>1
  <2>2. CASE W[p] = Root
    <3>1. W = [X EXCEPT ![p] = Root]
      BY <2>2 DEF Dirs
    <3>2. u = inode_ref_dec(v, Root)
      BY <2>2, NodeNames
    <3>3. Counts(v, u, Root, -1, 0)
      BY <3>2, RefDec, NodeNames
    <3> HIDE DEF X, u
    <3>4. Exact(u, F, X, L)
      BY <1>1, <3>1, <3>3, ExactDirDec
    <3>5. QED
      BY <3>3, <3>4 DEF Counts
  <2>3. QED
    BY <1>1, <2>1, <2>2
<1>3. files_destroy(v, W[p], F[p]) = c.v
  BY DEF files_destroy
<1> HIDE DEF u, X
<1>4. c.v \in VfsStates /\ Exact(c.v, [F EXCEPT ![p] = c.t], X, L)
      /\ c.t = [f \in Fds |-> IF f \in Fds THEN Free ELSE F[p][f]]
  <2>1. Fds \in SUBSET Fds
    OBVIOUS
  <2>2. QED
    BY <1>2, <2>1, CloseAllExact
<1> HIDE DEF c
<1>5. c.t = fd_array_init
  BY <1>4 DEF fd_array_init
<1>6. QED
  BY <1>3, <1>4, <1>5 DEF X

LEMMA DupFiles ==
  ASSUME NEW F \in Tables, NEW p \in Procs, NEW c \in Procs, NEW W \in Dirs, NEW L \in [Nodes -> Nat],
         NEW v \in VfsStates, Exact(v, F, W, L), F[c] = fd_array_init, W[c] = NULL
  PROVE  /\ dup_files(v, W[p], F[p]) \in VfsStates
         /\ Exact(dup_files(v, W[p], F[p]), [F EXCEPT ![c] = F[p]], [W EXCEPT ![c] = W[p]], L)
<1> DEFINE X == [W EXCEPT ![c] = W[p]]
           t == F[p]
           u == IF W[p] = NULL THEN v ELSE inode_ref_inc(v, W[p])
           open == {f \in Fds : t[f].status = "OPENED"}
           w == Loop("dup", t, u, open)[open]
<1>1. X \in Dirs /\ X[c] = W[p] /\ W[p] \in {NULL, Root} /\ t \in Table
  BY DEF Dirs, Tables
<1>2. u \in VfsStates /\ Exact(u, F, X, L)
  <2>1. CASE W[p] = NULL
    <3>1. X = W
      BY <2>1 DEF Dirs
    <3>2. QED
      BY <2>1, <3>1
  <2>2. CASE W[p] = Root
    <3>1. X = [W EXCEPT ![c] = Root]
      BY <2>2 DEF Dirs
    <3>2. u = inode_ref_inc(v, Root)
      BY <2>2, NodeNames
    <3>3. Counts(v, u, Root, 1, 0)
      BY <3>2, RefInc, NodeNames
    <3> HIDE DEF X, u
    <3>4. Exact(u, F, X, L)
      BY <1>1, <3>1, <3>3, ExactDirInc
    <3>5. QED
      BY <3>3, <3>4 DEF Counts
  <2>3. QED
    BY <1>1, <2>1, <2>2
<1>3. dup_files(v, W[p], F[p]) = w
  BY DupIsLoop DEF dup_files
<1>4. open \in SUBSET Fds /\ \A f \in open : t[f].status = "OPENED"
  OBVIOUS
<1>5. Part("dup", F, c, t, {}) = F
  <2>1. [f \in Fds |-> IF f \in {} THEN t[f] ELSE Free] = F[c]
    BY DEF fd_array_init
  <2> DEFINE e == [f \in Fds |-> IF f \in {} THEN t[f] ELSE Free]
  <2>2. Part("dup", F, c, t, {}) = [F EXCEPT ![c] = e]
    BY DEF Part
  <2> HIDE DEF e
  <2>3. QED
    BY <2>1, <2>2 DEF Tables, e
<1>6. Part("dup", F, c, t, open) = [F EXCEPT ![c] = t]
  <2> DEFINE e == [f \in Fds |-> IF f \in open THEN t[f] ELSE Free]
  <2>1. ASSUME NEW f \in Fds PROVE e[f] = t[f]
    <3>1. t[f] \in Entry
      BY <1>1 DEF Table
    <3>2. f \notin open => t[f] = Free
      BY <3>1, EntryIs
    <3>3. QED
      BY <3>2
  <2>2. e = [f \in Fds |-> e[f]] /\ t = [f \in Fds |-> t[f]]
    BY <1>1 DEF Table
  <2>3. Part("dup", F, c, t, open) = [F EXCEPT ![c] = e]
    BY DEF Part
  <2> HIDE DEF e
  <2>4. e = t
    BY <2>1, <2>2
  <2>5. QED
    BY <2>3, <2>4
<1> HIDE DEF u, X, open, t
<1>7. w \in VfsStates /\ Exact(w, Part("dup", F, c, t, open), X, L)
  <2>1. Exact(u, Part("dup", F, c, t, {}), X, L)
    BY <1>2, <1>5
  <2>2. "dup" \in {"close", "dup"} /\ "dup" # "close"
    OBVIOUS
  <2>3. QED
    BY <1>1, <1>2, <1>4, <2>1, <2>2, LoopExact
<1> HIDE DEF w
<1>8. QED
  BY <1>3, <1>6, <1>7 DEF X, t
-----------------------------------------------------------------------------
(* The ring of dev_stdin.c.                                                *)

LEMMA SlotsDiffer ==
  ASSUME NEW B \in Nat \ {0}, NEW i \in Nat, NEW j \in Nat, i < j, j - i < B
  PROVE  i % B # j % B
<1> DEFINE a == i \div B
           b == j \div B
<1>1. a \in Int /\ b \in Int /\ i = B * a + (i % B) /\ j = B * b + (j % B)
  OBVIOUS
<1> SUFFICES ASSUME i % B = j % B PROVE FALSE
  OBVIOUS
<1>2. i % B \in Int /\ j % B \in Int
  OBVIOUS
<1> HIDE DEF a, b
<1>3. j - i = B * b - B * a
  BY <1>1, <1>2
<1>4. B * b - B * a = B * (b - a)
  BY <1>1
<1>5. CASE b - a <= 0
  <2>1. B * (b - a) <= 0
    BY <1>1, <1>5
  <2>2. QED
    BY <1>3, <1>4, <2>1
<1>6. CASE b - a >= 1
  <2>1. B * (b - a) >= B
    BY <1>1, <1>6
  <2>2. QED
    BY <1>3, <1>4, <2>1
<1>7. QED
  BY <1>1, <1>5, <1>6

LEMMA RingInit == RingOK(stdin_device_init) /\ stdin_device_init.queue = {}
<1> DEFINE k == stdin_device_init
<1>1. k \in Rings
  BY DEF stdin_device_init, Rings
<1>2. k.rpos = 0 /\ k.wpos = 0 /\ k.pressed = 0 /\ k.queue = {}
  BY DEF stdin_device_init
<1> HIDE DEF k
<1>3. RingOK(k)
  BY <1>1, <1>2, FilesAssumption DEF RingOK
<1>4. QED
  BY <1>2, <1>3 DEF k

\* a reader enters or leaves the queue
LEMMA RingQueue ==
  ASSUME NEW k, RingOK(k), NEW q \in SUBSET Procs
  PROVE  RingOK([k EXCEPT !.queue = q]) /\ [k EXCEPT !.queue = q].queue = q
<1> DEFINE w == [k EXCEPT !.queue = q]
<1>1. k \in Rings
  BY DEF RingOK
<1>2. w \in Rings
  BY <1>1 DEF Rings
<1>3. /\ w.rpos = k.rpos /\ w.wpos = k.wpos /\ w.pressed = k.pressed /\ w.buf = k.buf
      /\ w.overrun = k.overrun /\ w.queue = q
  BY <1>1 DEF Rings
<1> HIDE DEF w
<1>4. RingOK(w)
  BY <1>2, <1>3 DEF RingOK
<1>5. QED
  BY <1>3, <1>4 DEF w

\* the keys that are there are taken, at most n
LEMMA RingTake ==
  ASSUME NEW k, RingOK(k), NEW n \in Nat
  PROVE  /\ RingOK(dev_stdin_read(k, n)) /\ dev_stdin_read(k, n).queue = k.queue
         /\ Taken(k, n) \in Nat /\ n - Taken(k, n) \in Nat
<1> DEFINE c == Taken(k, n)
           w == dev_stdin_read(k, n)
<1>1. k \in Rings /\ k.rpos \in Nat /\ k.wpos \in Nat /\ k.rpos <= k.wpos
      /\ k.wpos <= k.rpos + STDIN_BUFSIZE
  BY DEF RingOK, Rings
<1>2. c \in Nat /\ n - c \in Nat /\ k.rpos + c <= k.wpos
  BY <1>1 DEF Taken, Available
<1> DEFINE r == k.rpos + c
<1>3. w = [k EXCEPT !.rpos = r] /\ r \in Nat
  BY <1>1, <1>2 DEF dev_stdin_read
<1> HIDE DEF c, w, r
<1>4. w \in Rings
  BY <1>1, <1>2, <1>3 DEF Rings
<1>5. /\ w.rpos = r /\ w.wpos = k.wpos /\ w.pressed = k.pressed /\ w.buf = k.buf
      /\ w.overrun = k.overrun /\ w.queue = k.queue
  BY <1>1, <1>3 DEF Rings
<1>6. w.rpos <= w.wpos /\ w.wpos <= w.rpos + STDIN_BUFSIZE
  BY <1>1, <1>2, <1>5, FilesAssumption DEF r
<1>7. ASSUME ~w.overrun, NEW i \in w.rpos..w.wpos-1 PROVE w.buf[i % STDIN_BUFSIZE] = i + 1
  <2>1. i \in k.rpos..k.wpos-1
    BY <1>1, <1>2, <1>5 DEF r
  <2>2. QED
    BY <1>5, <1>7, <2>1 DEF RingOK
<1>8. ~w.overrun => w.wpos = w.pressed
  BY <1>5 DEF RingOK
<1>9. RingOK(w)
  BY <1>4, <1>6, <1>7, <1>8 DEF RingOK
<1>10. QED
  BY <1>2, <1>5, <1>9 DEF c, w

\* a key is stored, and counted if there is room
LEMMA RingPress ==
  ASSUME NEW k, RingOK(k)
  PROVE  RingOK(dev_stdin_write(k)) /\ dev_stdin_write(k).queue = k.queue
<1> DEFINE B == STDIN_BUFSIZE
           s == k.wpos % B
           b == [k.buf EXCEPT ![s] = k.pressed + 1]
           x == IF k.wpos - k.rpos < B THEN k.wpos + 1 ELSE k.wpos
           v == k.overrun \/ k.wpos - k.rpos = B
           w == dev_stdin_write(k)
<1>1. /\ k \in Rings /\ k.rpos \in Nat /\ k.wpos \in Nat /\ k.pressed \in Nat /\ k.rpos <= k.wpos
      /\ k.wpos <= k.rpos + B /\ B \in Nat \ {0} /\ k.buf \in [0..B-1 -> Int]
  BY FilesAssumption DEF RingOK, Rings
<1>2. w = [k EXCEPT !.buf[WriteSlot(k)] = k.pressed + 1, !.pressed = k.pressed + 1,
                    !.wpos = x, !.overrun = v]
  BY DEF dev_stdin_write, HasRoom
<1>3. w = [k EXCEPT !.buf = b, !.pressed = k.pressed + 1, !.wpos = x, !.overrun = v]
  BY <1>2 DEF WriteSlot
<1>4. s \in 0..B-1 /\ b \in [0..B-1 -> Int] /\ x \in Nat /\ v \in BOOLEAN /\ k.pressed + 1 \in Nat
  BY <1>1
<1> HIDE DEF b, x, v, w, s
<1>5. w \in Rings
  BY <1>1, <1>3, <1>4 DEF Rings
<1>6. /\ w.rpos = k.rpos /\ w.wpos = x /\ w.pressed = k.pressed + 1 /\ w.buf = b
      /\ w.overrun = v /\ w.queue = k.queue
  BY <1>1, <1>3 DEF Rings
<1>7. w.rpos <= w.wpos /\ w.wpos <= w.rpos + B
  BY <1>1, <1>6 DEF x
<1>8. ASSUME ~w.overrun
      PROVE  w.wpos = w.pressed /\ \A i \in w.rpos..w.wpos-1 : w.buf[i % B] = i + 1
  <2>1. ~k.overrun /\ k.wpos - k.rpos # B
    BY <1>6, <1>8 DEF v
  <2>2. x = k.wpos + 1 /\ k.wpos = k.pressed /\ k.wpos - k.rpos < B
    BY <1>1, <2>1 DEF x, RingOK
  <2>3. ASSUME NEW i \in w.rpos..w.wpos-1 PROVE w.buf[i % B] = i + 1
    <3>1. CASE i = k.wpos
      BY <1>1, <1>4, <1>6, <2>2, <3>1 DEF b, s
    <3>2. CASE i # k.wpos
      <4>1. i \in Nat /\ i \in k.rpos..k.wpos-1 /\ i < k.wpos /\ k.wpos - i < B
        BY <1>1, <1>6, <2>2, <3>2
      <4>2. i % B # s /\ i % B \in 0..B-1
        <5>1. B \in Nat \ {0} /\ k.wpos \in Nat
          BY <1>1
        <5> HIDE DEF B
        <5>2. i % B # k.wpos % B
          BY <4>1, <5>1, SlotsDiffer
        <5>3. QED
          BY <4>1, <5>1, <5>2 DEF s
      <4>3. b[i % B] = k.buf[i % B]
        BY <1>1, <4>2 DEF b
      <4>4. k.buf[i % B] = i + 1
        BY <2>1, <4>1 DEF RingOK
      <4>5. QED
        BY <1>6, <4>3, <4>4
    <3>3. QED
      BY <3>1, <3>2
  <2>4. QED
    BY <1>6, <2>2, <2>3
<1>9. RingOK(w)
  BY <1>5, <1>7, <1>8 DEF RingOK
<1>10. QED
  BY <1>6, <1>9 DEF w
-----------------------------------------------------------------------------
(* The state after boot.                                                   *)

LEMMA BootExact ==
  ASSUME NEW v \in VfsStates, v.ref = RootRefs(3), v.open = NoneOpen
  PROVE  Exact(v, All(fd_array_init), BootPwd, NoneLost)
<1> DEFINE F == All(fd_array_init)
<1>1. ASSUME NEW n \in Nodes PROVE Cardinality(Refers(F, n)) = 0
  <2>1. \A x \in Procs \X Fds : F[x[1]][x[2]] = Free
    BY DEF All, fd_array_init
  <2>2. Refers(F, n) = {}
    BY <2>1, FreeIs, NodeNames DEF Refers
  <2>3. QED
    BY <2>2, FS_EmptySet
<1>2. ASSUME NEW n \in Nodes PROVE Cardinality(In(BootPwd, n)) = IF n = Root THEN 1 ELSE 0
  <2>1. user_main \in Procs
    BY FilesAssumption DEF user_main
  <2>2. In(BootPwd, n) = IF n = Root THEN {user_main} ELSE {}
    BY <2>1, BootedIs, NodeNames DEF In, BootPwd
  <2>3. Cardinality({user_main}) = 1 /\ Cardinality({}) = 0
    BY FS_Singleton, FS_EmptySet
  <2>4. QED
    BY <2>2, <2>3
<1>3. \A n \in Nodes : v.ref[n] = (IF n = Root THEN 3 ELSE IF n \in Devices THEN 1 ELSE 0)
                       /\ v.open[n] = 0 /\ NoneLost[n] = 0
  BY DEF RootRefs, NoneOpen, NoneLost
<1> HIDE DEF F
<1>4. ASSUME NEW n \in Nodes
      PROVE  /\ v.ref[n] = Cardinality(Refers(F, n)) + Cardinality(In(BootPwd, n)) + NoneLost[n] + Fixed(n)
             /\ v.open[n] >= Cardinality(Refers(F, n))
             /\ v.open[n] <= Cardinality(Refers(F, n)) + NoneLost[n]
  BY <1>1, <1>2, <1>3 DEF Fixed
<1>5. QED
  BY <1>4 DEF Exact, F

LEMMA BootTypes ==
  /\ BootPwd \in Dirs /\ All(fd_array_init) \in Tables /\ All(NoRead) \in [Procs -> [fd : Fds, left : Nat]]
  /\ BootState \in [Procs -> {"none", "kthread"}]
  /\ BootState \in [Procs -> {"none", "kthread", "user", "asleep", "woken"}]
  /\ NoneLost \in [Nodes -> Nat]
  /\ \A p \in Procs : BootState[p] = "none" => BootPwd[p] = NULL
  /\ \A p \in Procs : All(fd_array_init)[p] = fd_array_init
  /\ \A p \in Procs, f \in Fds : All(fd_array_init)[p][f].open_count # 2
<1>1. Free \in Entry /\ Free.open_count = 0
  BY FreeIs
<1>2. 0 \in Fds
  BY FilesAssumption DEF Fds
<1>3. BootPwd \in Dirs /\ BootState \in [Procs -> {"none", "kthread"}]
      /\ \A p \in Procs : BootState[p] = "none" => BootPwd[p] = NULL
  BY BootedIs DEF BootPwd, BootState, Dirs
<1>4. All(NoRead) \in [Procs -> [fd : Fds, left : Nat]]
  BY <1>2 DEF All, NoRead
<1>5. fd_array_init \in Table /\ \A f \in Fds : fd_array_init[f] = Free
  BY <1>1 DEF fd_array_init, Table
<1>6. All(fd_array_init) \in Tables /\ \A p \in Procs : All(fd_array_init)[p] = fd_array_init
  BY <1>5 DEF All, Tables
<1>7. NoneLost \in [Nodes -> Nat]
  BY DEF NoneLost
<1>8. QED
  BY <1>1, <1>3, <1>4, <1>5, <1>6, <1>7

LEMMA InitInv == Init => Inv
<1> SUFFICES ASSUME Init PROVE Inv
  OBVIOUS
<1>1. TypeOK
  BY BootVfsIs, BootTypes DEF Init, TypeOK
<1>2. RingOK(kbd) /\ kbd.queue = {}
  BY RingInit DEF Init
<1>3. Reading = {}
  BY BootTypes DEF Init, Reading
<1>4. Uses
  BY <1>2, <1>3, BootTypes DEF Init, Uses
<1>5. Exact(vfs, fds, pwd, lost)
  BY BootVfsIs, BootExact DEF Init
<1>6. QED
  BY <1>1, <1>2, <1>4, <1>5 DEF Inv

LEMMA DiesInv == Dies => Inv'
<1> SUFFICES ASSUME Dies PROVE Inv'
  OBVIOUS
<1> DEFINE b == [BootVfs EXCEPT !.panic = TRUE]
<1>0. b \in VfsStates /\ b.ref = RootRefs(3) /\ b.open = NoneOpen
  BY BootVfsIs
<1> HIDE DEF b
<1>1. TypeOK'
  BY <1>0, BootTypes DEF Dies, TypeOK, b
<1>2. RingOK(kbd)' /\ kbd'.queue = {}
  BY RingInit DEF Dies
<1>3. Reading' = {}
  BY BootTypes DEF Dies, Reading
<1>4. Uses'
  BY <1>2, <1>3, BootTypes DEF Dies, Uses
<1>5. Exact(b, All(fd_array_init), BootPwd, NoneLost)
  BY <1>0, BootExact
<1>6. Exact(vfs, fds, pwd, lost)'
  BY <1>5 DEF Dies, b
<1>7. QED
  BY <1>1, <1>2, <1>4, <1>6 DEF Inv

-----------------------------------------------------------------------------
(* What the actions have in common.                                        *)

\* a process that is not in a read holds no acquired descriptor
LEMMA NotReading ==
  ASSUME TypeOK, Uses, NEW p \in Procs, pstate[p] \in {"none", "kthread", "user"}
  PROVE  /\ p \notin Reading /\ p \notin kbd.queue
         /\ fds[p] \in Table /\ \A f \in Fds : fds[p][f] \in Entry /\ fds[p][f].open_count # 2
<1>1. p \notin Reading
  BY DEF Reading
<1>2. fds[p] \in Table
  BY DEF TypeOK, Tables
<1>3. QED
  BY <1>1, <1>2 DEF Uses, Table

\* the table t, or the tables F, with one of their entries replaced by e
EntrySet(t, f, e) == [t EXCEPT ![f] = e]
TableSet(F, p, f, e) == [F EXCEPT ![p] = EntrySet(F[p], f, e)]

LEMMA TableUpdate ==
  ASSUME NEW F \in Tables, NEW p \in Procs, NEW f \in Fds, NEW e \in Entry
  PROVE  /\ EntrySet(F[p], f, e) \in Table /\ TableSet(F, p, f, e) \in Tables
         /\ [F EXCEPT ![p][f] = e] = TableSet(F, p, f, e)
         /\ \A q \in Procs, g \in Fds :
               TableSet(F, p, f, e)[q][g] = IF q = p /\ g = f THEN e ELSE F[q][g]
<1> DEFINE t == EntrySet(F[p], f, e)
           G == TableSet(F, p, f, e)
<1>1. F[p] \in Table
  BY DEF Tables
<1>2. t \in Table /\ \A g \in Fds : t[g] = IF g = f THEN e ELSE F[p][g]
  BY <1>1 DEF Table, EntrySet
<1>3. [F EXCEPT ![p][f] = e] = G
  BY DEF TableSet, EntrySet
<1>4. G = [F EXCEPT ![p] = t]
  BY DEF TableSet
<1> HIDE DEF t, G
<1>5. G \in Tables /\ \A q \in Procs : G[q] = IF q = p THEN t ELSE F[q]
  BY <1>2, <1>4 DEF Tables
<1>6. QED
  BY <1>2, <1>3, <1>5 DEF t, G

\* p, which was not in a read, is a user process with the table t now
LEMMA UsesKept ==
  ASSUME TypeOK, Uses, NEW p \in Procs, pstate[p] \in {"none", "kthread", "user"},
         NEW t \in Table, \A f \in Fds : t[f].open_count # 2, fds' = [fds EXCEPT ![p] = t],
         pstate' = [pstate EXCEPT ![p] = "user"], \A q \in Procs : q # p => pwd'[q] = pwd[q],
         read' = read, kbd' = kbd
  PROVE  Uses'
<1>1. \A q \in Procs : /\ fds'[q] = IF q = p THEN t ELSE fds[q]
                       /\ pstate'[q] = IF q = p THEN "user" ELSE pstate[q]
  BY DEF TypeOK, Tables
<1>2. p \notin Reading /\ p \notin Reading' /\ \A q \in Procs : q \in Reading' <=> q \in Reading
  BY <1>1 DEF Reading
<1>3. \A q \in Procs : pstate'[q] = "none" => fds'[q] = fd_array_init /\ pwd'[q] = NULL
  BY <1>1 DEF Uses
<1>4. ASSUME NEW q \in Procs, NEW f \in Fds
      PROVE  fds'[q][f].open_count = 2 <=> q \in Reading' /\ read'[q].fd = f
  <2>1. CASE q = p
    BY <1>1, <1>2, <2>1
  <2>2. CASE q # p
    BY <1>1, <1>2, <2>2 DEF Uses
  <2>3. QED
    BY <2>1, <2>2
<1>5. kbd'.queue \subseteq Reading'
  BY <1>2 DEF Uses, Reading
<1>6. QED
  BY <1>3, <1>4, <1>5 DEF Uses

\* p has closed its descriptors and is gone
LEMMA GoneInv ==
  ASSUME TypeOK, Uses, NEW p \in Procs, NEW v \in VfsStates, NEW t \in Table, NEW mm \in BOOLEAN,
         \A f \in Fds : t[f].open_count # 2, Exact(v, [fds EXCEPT ![p] = t], pwd, lost),
         Gone(p, v, t, mm), kbd'.queue \subseteq kbd.queue \ {p}
  PROVE  TypeOK' /\ Uses' /\ Exact(vfs, fds, pwd, lost)'
<1> DEFINE F == [fds EXCEPT ![p] = t]
           G == [fds EXCEPT ![p] = fd_array_init]
           X == [pwd EXCEPT ![p] = NULL]
           M == [n \in Nodes |-> lost[n] + Held(pwd[p], t)[n]]
<1>1. F \in Tables /\ F[p] = t /\ [F EXCEPT ![p] = fd_array_init] = G
  BY DEF TypeOK, Tables
<1>2. fd_array_init \in Table /\ 0 \in Fds
  BY FreeIs, FilesAssumption DEF fd_array_init, Table, Fds
<1>3. G \in Tables /\ X \in Dirs
  BY <1>2 DEF TypeOK, Tables, Dirs
<1>4. /\ pstate' \in [Procs -> {"none", "kthread", "user", "asleep", "woken"}]
      /\ read' \in [Procs -> [fd : Fds, left : Nat]]
      /\ fds' = G /\ pwd' = X
  BY <1>2 DEF Gone, TypeOK, NoRead
<1> HIDE DEF F, G, X
<1>5. vfs' \in VfsStates /\ lost' \in [Nodes -> Nat] /\ Exact(vfs', G, X, lost')
  <2>1. CASE mm
    <3>1. vfs' = files_destroy(v, pwd[p], F[p]) /\ lost' = lost
      BY <1>1, <2>1 DEF Gone, PutsFiles
    <3>2. Exact(v, F, pwd, lost) /\ \A f \in Fds : F[p][f].open_count # 2
      BY <1>1 DEF F
    <3>3. lost \in [Nodes -> Nat] /\ pwd \in Dirs
      BY DEF TypeOK
    <3>4. /\ files_destroy(v, pwd[p], F[p]) \in VfsStates
          /\ Exact(files_destroy(v, pwd[p], F[p]), [F EXCEPT ![p] = fd_array_init],
                   [pwd EXCEPT ![p] = NULL], lost)
      BY <1>1, <3>2, <3>3, FilesDestroy
    <3>5. QED
      BY <1>1, <3>1, <3>3, <3>4 DEF X
  <2>2. CASE ~mm
    <3>1. vfs' = v /\ lost' = M
      BY <2>2 DEF Gone, PutsFiles
    <3>2. Exact(v, F, pwd, lost)
      BY DEF F
    <3>3. lost \in [Nodes -> Nat] /\ pwd \in Dirs
      BY DEF TypeOK
    <3>4. /\ Exact(v, [F EXCEPT ![p] = fd_array_init], [pwd EXCEPT ![p] = NULL],
                   LostWith(lost, pwd[p], F[p]))
          /\ LostWith(lost, pwd[p], F[p]) \in [Nodes -> Nat]
      BY <1>1, <3>2, <3>3, ExactGone
    <3>5. LostWith(lost, pwd[p], F[p]) = M
      BY <1>1 DEF LostWith
    <3> HIDE DEF M
    <3>6. QED
      BY <1>1, <3>1, <3>4, <3>5 DEF X
  <2>3. QED
    BY <2>1, <2>2
<1>6. TypeOK'
  BY <1>3, <1>4, <1>5 DEF TypeOK
<1>7. \A q \in Procs : /\ fds'[q] = IF q = p THEN fd_array_init ELSE fds[q]
                       /\ pwd'[q] = IF q = p THEN NULL ELSE pwd[q]
                       /\ pstate'[q] = IF q = p THEN "none" ELSE pstate[q]
                       /\ read'[q] = IF q = p THEN NoRead ELSE read[q]
  BY DEF Gone, TypeOK, Tables, Dirs
<1>8. \A q \in Procs : q \in Reading' <=> q \in Reading /\ q # p
  BY <1>7 DEF Reading
<1>9. ASSUME NEW q \in Procs, NEW f \in Fds
      PROVE  fds'[q][f].open_count = 2 <=> q \in Reading' /\ read'[q].fd = f
  <2>1. CASE q = p
    <3>1. fds'[q][f].open_count = 0
      BY <1>7, <2>1, FreeIs DEF fd_array_init
    <3>2. QED
      BY <1>8, <2>1, <3>1
  <2>2. CASE q # p
    BY <1>7, <1>8, <2>2 DEF Uses
  <2>3. QED
    BY <2>1, <2>2
<1>10. kbd'.queue \subseteq Reading'
  BY <1>8 DEF Uses, Reading
<1>11. \A q \in Procs : pstate'[q] = "none" => fds'[q] = fd_array_init /\ pwd'[q] = NULL
  BY <1>7 DEF Uses
<1>12. Uses'
  BY <1>9, <1>10, <1>11 DEF Uses
<1>13. QED
  BY <1>4, <1>5, <1>6, <1>12
LEMMA OneMoreTable ==
  ASSUME NEW F \in Tables, NEW p \in Procs, NEW f \in Fds, NEW e \in Entry, F[p][f].node = NULL
  PROVE  OneMore(F, TableSet(F, p, f, e), p, f, e.node)
<1> DEFINE G == TableSet(F, p, f, e)
<1>1. \A q \in Procs, g \in Fds : G[q][g] = IF q = p /\ g = f THEN e ELSE F[q][g]
  BY TableUpdate
<1> HIDE DEF G
<1>2. G[p][f] = e /\ \A q \in Procs, g \in Fds : q # p \/ g # f => G[q][g] = F[q][g]
  BY <1>1
<1>3. OneMore(F, G, p, f, e.node)
  BY <1>2 DEF OneMore
<1>4. QED
  BY <1>3 DEF G

LEMMA OpenedIs ==
  ASSUME NEW n \in Nodes, NEW acc
  PROVE  Opened(n, acc) \in Entry /\ Opened(n, acc).node = n /\ Opened(n, acc).open_count = 1
<1>1. (acc # "WRONLY") \in BOOLEAN /\ (acc # "RDONLY") \in BOOLEAN
  OBVIOUS
<1> DEFINE a == acc # "WRONLY"
           b == acc # "RDONLY"
<1>2. Modes(acc).readable = a /\ Modes(acc).writable = b
  BY DEF Modes
<1>3. Opened(n, acc) = [status |-> "OPENED", readable |-> a, writable |-> b, node |-> n, open_count |-> 1]
  BY <1>2 DEF Opened
<1> HIDE DEF a, b
<1>4. QED
  BY <1>1, <1>3 DEF Entry, a, b

-----------------------------------------------------------------------------
(* The actions.                                                            *)

LEMMA ExitInv == ASSUME Inv, NEW p \in Procs, Exit(p) PROVE Inv'
<1>1. TypeOK /\ Uses /\ RingOK(kbd) /\ Exact(vfs, fds, pwd, lost)
  BY DEF Inv
<1>2. pstate[p] = "user" /\ Gone(p, vfs, fds[p], TRUE) /\ kbd' = kbd
  BY DEF Exit
<1>3. p \notin kbd.queue /\ fds[p] \in Table /\ \A f \in Fds : fds[p][f].open_count # 2
  BY <1>1, <1>2, NotReading
<1>4. [fds EXCEPT ![p] = fds[p]] = fds /\ vfs \in VfsStates
  BY <1>1 DEF TypeOK, Tables
<1>5. kbd'.queue \subseteq kbd.queue \ {p}
  BY <1>2, <1>3
<1>6. TypeOK' /\ Uses' /\ Exact(vfs, fds, pwd, lost)'
  BY <1>1, <1>2, <1>3, <1>4, <1>5, GoneInv
<1>7. QED
  BY <1>1, <1>2, <1>6 DEF Inv

LEMMA OpenInv ==
  ASSUME Inv, NEW p \in Procs, NEW path, NEW acc, NEW opts, Open(p, path, acc, opts)
  PROVE  Inv'
<1> DEFINE o == vfs_open(vfs, pwd[p], path, acc, opts)
           n == LostByOpen(vfs, pwd[p], path, acc, opts)
<1>1. TypeOK /\ Uses /\ RingOK(kbd) /\ Exact(vfs, fds, pwd, lost)
  BY DEF Inv
<1>2. pwd[p] \in {NULL, Root} /\ vfs \in VfsStates /\ fds \in Tables /\ lost \in [Nodes -> Nat] /\ pwd \in Dirs
  BY <1>1 DEF TypeOK, Dirs
<1>3. PICK f \in fd_array_alloc(fds[p]) :
        \/ o.st = "panic" /\ Dies
        \/ /\ o.st # "panic"
           /\ vfs' = o.v
           /\ fds' = IF o.st = "ok" THEN [fds EXCEPT ![p][f] = Opened(o.node, acc)] ELSE fds
           /\ lost' = IF n = NULL THEN lost ELSE [lost EXCEPT ![n] = @ + 1]
           /\ UNCHANGED <<pwd, pstate, read, wflag, killed, kbd>>
  BY DEF Open
<1>4. pstate[p] = "user"
  BY DEF Open
<1>5. OpenResult(vfs, o, n)
  BY <1>2, VfsOpen
<1>6. fds[p] \in Table /\ \A g \in Fds : fds[p][g] \in Entry /\ fds[p][g].open_count # 2
  BY <1>1, <1>4, NotReading
<1>7. f \in Fds /\ fds[p][f].node = NULL
  <2>1. f \in Fds /\ fds[p][f].status = "NONE"
    BY DEF fd_array_alloc
  <2>2. QED
    BY <1>6, <2>1, EntryIs, FreeIs
<1> HIDE DEF o, n
<1>8. CASE o.st = "panic"
  BY <1>3, <1>8, DiesInv
<1>9. CASE o.st = "ok"
  <2>1. n = NULL /\ o.node \in Nodes /\ Counts(vfs, o.v, o.node, 1, 1)
    BY <1>5, <1>9 DEF OpenResult
  <2> DEFINE e == Opened(o.node, acc)
             t == EntrySet(fds[p], f, e)
             G == TableSet(fds, p, f, e)
  <2>2. e \in Entry /\ e.node = o.node /\ e.open_count = 1
    BY <2>1, OpenedIs
  <2>3. vfs' = o.v /\ fds' = [fds EXCEPT ![p][f] = e] /\ lost' = lost
        /\ UNCHANGED <<pwd, pstate, read, wflag, killed, kbd>>
    BY <1>3, <1>9, <2>1
  <2> HIDE DEF e
  <2>4. t \in Table /\ G \in Tables /\ fds' = G
    BY <1>2, <1>7, <2>2, <2>3, TableUpdate
  <2>5. OneMore(fds, G, p, f, o.node)
    BY <1>2, <1>7, <2>2, OneMoreTable
  <2>6. \A g \in Fds : t[g].open_count # 2
    BY <1>6, <2>2 DEF Table, EntrySet
  <2>7. pstate' = [pstate EXCEPT ![p] = "user"]
    BY <1>1, <1>4, <2>3 DEF TypeOK
  <2> HIDE DEF t
  <2>8. Uses'
    <3>1. fds' = [fds EXCEPT ![p] = t]
      BY <2>4 DEF TableSet, t
    <3>2. QED
      BY <1>1, <1>4, <2>3, <2>4, <2>6, <2>7, <3>1, UsesKept
  <2> HIDE DEF G
  <2>9. Exact(o.v, G, pwd, lost)
    BY <1>1, <1>2, <1>7, <2>1, <2>5, ExactOpen
  <2>10. TypeOK'
    BY <1>1, <2>1, <2>3, <2>4 DEF TypeOK, Counts
  <2>11. QED
    BY <1>1, <2>3, <2>4, <2>8, <2>9, <2>10 DEF Inv
<1>10. CASE o.st = "err"
  <2>1. vfs' = o.v /\ fds' = fds /\ UNCHANGED <<pwd, pstate, read, wflag, killed, kbd>>
    BY <1>3, <1>10
  <2>2. Uses' /\ RingOK(kbd)'
    BY <1>1, <2>1 DEF Uses, Reading
  <2>3. CASE n = NULL
    <3>1. Counts(vfs, o.v, Root, 0, 0) /\ lost' = lost
      BY <1>3, <1>5, <1>10, <2>3, NodeNames DEF OpenResult
    <3>2. Exact(o.v, fds, pwd, lost)
      BY <1>1, <1>2, <3>1, ExactSame
    <3>3. TypeOK'
      BY <1>1, <2>1, <3>1 DEF TypeOK, Counts
    <3>4. QED
      BY <2>1, <2>2, <3>1, <3>2, <3>3 DEF Inv
  <2>4. CASE n # NULL
    <3>1. n \in Nodes /\ Counts(vfs, o.v, n, 1, 0)
      BY <1>5, <1>10, <2>4 DEF OpenResult
    <3> DEFINE M == [lost EXCEPT ![n] = @ + 1]
    <3>2. lost' = M
      BY <1>3, <1>10, <2>4
    <3>3. Exact(o.v, fds, pwd, M)
      BY <1>1, <1>2, <3>1, ExactLose
    <3>4. M \in [Nodes -> Nat]
      BY <1>2, <3>1
    <3> HIDE DEF M
    <3>5. TypeOK'
      BY <1>1, <2>1, <3>1, <3>2, <3>4 DEF TypeOK, Counts
    <3>6. QED
      BY <2>1, <2>2, <3>2, <3>3, <3>5 DEF Inv
  <2>5. QED
    BY <2>3, <2>4
<1>11. QED
  BY <1>5, <1>8, <1>9, <1>10 DEF OpenResult

LEMMA CloseInv == ASSUME Inv, NEW p \in Procs, NEW f \in Fds, Close(p, f) PROVE Inv'
<1> DEFINE e == fds[p][f]
           t == EntrySet(fds[p], f, Free)
           G == TableSet(fds, p, f, Free)
           w == vfs_close(vfs, e.node)
<1>1. TypeOK /\ Uses /\ RingOK(kbd) /\ Exact(vfs, fds, pwd, lost)
  BY DEF Inv
<1>2. pwd[p] \in {NULL, Root} /\ vfs \in VfsStates /\ fds \in Tables /\ lost \in [Nodes -> Nat] /\ pwd \in Dirs
  BY <1>1 DEF TypeOK, Dirs
<1>3. pstate[p] = "user" /\ e.status = "OPENED" /\ vfs' = fd_array_close(vfs, e).v
      /\ fds' = [fds EXCEPT ![p][f] = fd_array_close(vfs, e).e]
      /\ UNCHANGED <<pwd, pstate, read, wflag, killed, kbd, lost>>
  BY DEF Close
<1>4. fds[p] \in Table /\ \A g \in Fds : fds[p][g] \in Entry /\ fds[p][g].open_count # 2
  BY <1>1, <1>3, NotReading
<1>5. e \in Entry /\ e.open_count = 1 /\ e.node \in Nodes
  BY <1>3, <1>4, EntryIs
<1>6. vfs' = w /\ fds' = [fds EXCEPT ![p][f] = Free]
  BY <1>3, <1>5, CloseEntry
<1>7. t \in Table /\ G \in Tables /\ fds' = G
      /\ \A q \in Procs, g \in Fds : G[q][g] = IF q = p /\ g = f THEN Free ELSE fds[q][g]
  <2>1. Free \in Entry
    BY FreeIs
  <2>2. t \in Table /\ G \in Tables /\ [fds EXCEPT ![p][f] = Free] = G
        /\ \A q \in Procs, g \in Fds : G[q][g] = IF q = p /\ g = f THEN Free ELSE fds[q][g]
    BY <1>2, <2>1, TableUpdate
  <2>3. QED
    BY <1>6, <2>2
<1>8. OneMore(G, fds, p, f, e.node)
  <2> HIDE DEF G
  <2>1. G[p][f] = Free /\ \A q \in Procs, g \in Fds : q # p \/ g # f => G[q][g] = fds[q][g]
    BY <1>7
  <2>2. QED
    BY <2>1, FreeIs DEF OneMore
<1>9. \A g \in Fds : t[g].open_count # 2
  BY <1>4, FreeIs DEF Table, EntrySet
<1>10. pstate' = [pstate EXCEPT ![p] = "user"]
  BY <1>1, <1>3 DEF TypeOK
<1> HIDE DEF t
<1>11. Uses'
  <2>1. fds' = [fds EXCEPT ![p] = t]
    BY <1>7 DEF TableSet, t
  <2>2. QED
    BY <1>1, <1>3, <1>7, <1>9, <1>10, <2>1, UsesKept
<1>12. Counts(vfs, w, e.node, -1, -1)
  BY <1>2, <1>5, CloseCounts
<1> HIDE DEF w, G, e
<1>13. Exact(w, G, pwd, lost)
  BY <1>1, <1>2, <1>5, <1>8, <1>12, ExactClose
<1>14. TypeOK'
  BY <1>1, <1>3, <1>6, <1>7, <1>12 DEF TypeOK, Counts
<1>15. QED
  BY <1>1, <1>3, <1>6, <1>7, <1>11, <1>13, <1>14 DEF Inv

LEMMA DupInv == ASSUME Inv, NEW p \in Procs, NEW f \in Fds, NEW g \in Fds, Dup(p, f, g) PROVE Inv'
<1> DEFINE e == fds[p][f]
           t == EntrySet(fds[p], g, e)
           G == TableSet(fds, p, g, e)
           w == fd_array_dup(vfs, e)
<1>1. TypeOK /\ Uses /\ RingOK(kbd) /\ Exact(vfs, fds, pwd, lost)
  BY DEF Inv
<1>2. vfs \in VfsStates /\ fds \in Tables /\ lost \in [Nodes -> Nat] /\ pwd \in Dirs
  BY <1>1 DEF TypeOK
<1>3. pstate[p] = "user" /\ e.status = "OPENED" /\ fds[p][g].status = "NONE" /\ vfs' = w
      /\ fds' = [fds EXCEPT ![p][g] = e]
      /\ UNCHANGED <<pwd, pstate, read, wflag, killed, kbd, lost>>
  BY DEF Dup
<1>4. fds[p] \in Table /\ \A h \in Fds : fds[p][h] \in Entry /\ fds[p][h].open_count # 2
  BY <1>1, <1>3, NotReading
<1>5. e \in Entry /\ e.open_count # 2 /\ e.node \in Nodes
  BY <1>3, <1>4, EntryIs
<1>6. fds[p][g].node = NULL
  BY <1>3, <1>4, EntryIs, FreeIs
<1>7. Counts(vfs, w, e.node, 1, 1)
  BY <1>2, <1>5, DupCounts
<1> HIDE DEF e
<1>8. t \in Table /\ G \in Tables /\ fds' = G
  BY <1>2, <1>3, <1>5, TableUpdate
<1>9. OneMore(fds, G, p, g, e.node)
  BY <1>2, <1>5, <1>6, OneMoreTable
<1>10. \A h \in Fds : t[h].open_count # 2
  BY <1>4, <1>5 DEF Table, EntrySet
<1>11. pstate' = [pstate EXCEPT ![p] = "user"]
  BY <1>1, <1>3 DEF TypeOK
<1> HIDE DEF t, w
<1>12. Uses'
  <2>1. fds' = [fds EXCEPT ![p] = t]
    BY <1>8 DEF TableSet, t
  <2>2. QED
    BY <1>1, <1>3, <1>8, <1>10, <1>11, <2>1, UsesKept
<1> HIDE DEF G
<1>13. Exact(w, G, pwd, lost)
  BY <1>1, <1>2, <1>5, <1>7, <1>9, ExactOpen
<1>14. TypeOK'
  BY <1>1, <1>3, <1>7, <1>8 DEF TypeOK, Counts
<1>15. QED
  BY <1>1, <1>3, <1>8, <1>12, <1>13, <1>14 DEF Inv

LEMMA ForkInv == ASSUME Inv, NEW p \in Procs, NEW c \in Procs, Fork(p, c) PROVE Inv'
<1> DEFINE w == dup_files(vfs, pwd[p], fds[p])
           t == fds[p]
<1>1. TypeOK /\ Uses /\ RingOK(kbd) /\ Exact(vfs, fds, pwd, lost)
  BY DEF Inv
<1>2. vfs \in VfsStates /\ fds \in Tables /\ lost \in [Nodes -> Nat] /\ pwd \in Dirs
  BY <1>1 DEF TypeOK
<1>3. pstate[p] = "user" /\ pstate[c] = "none" /\ vfs' = w
      /\ pwd' = [pwd EXCEPT ![c] = pwd[p]] /\ fds' = [fds EXCEPT ![c] = t]
      /\ pstate' = [pstate EXCEPT ![c] = "user"]
      /\ UNCHANGED <<read, wflag, killed, kbd, lost>>
  BY DEF Fork
<1>4. t \in Table /\ \A f \in Fds : t[f].open_count # 2
  BY <1>1, <1>3, NotReading
<1>5. fds[c] = fd_array_init /\ pwd[c] = NULL
  BY <1>1, <1>3 DEF Uses
<1>6. w \in VfsStates /\ Exact(w, [fds EXCEPT ![c] = t], [pwd EXCEPT ![c] = pwd[p]], lost)
  BY <1>1, <1>2, <1>5, DupFiles
<1> HIDE DEF w, t
<1>7. \A q \in Procs : q # c => pwd'[q] = pwd[q]
  BY <1>2, <1>3 DEF Dirs
<1>8. Uses'
  BY <1>1, <1>3, <1>4, <1>7, UsesKept
<1>9. TypeOK'
  BY <1>1, <1>3, <1>4, <1>6 DEF TypeOK, Tables, Dirs
<1>10. QED
  BY <1>1, <1>3, <1>6, <1>8, <1>9 DEF Inv

\* files_closeall, then the program is opened: what the four outcomes start from
LEMMA ExecInv == ASSUME Inv, NEW p \in Procs, NEW path, Exec(p, path) PROVE Inv'
<1> DEFINE fs == {f \in Fds : f >= 2}
           c == CloseAll(vfs, fds[p], fs)
           o == vfs_open(c.v, pwd[p], path, "RDONLY", {})
           mm == pstate[p] = "user"
           fd == fd_array_alloc(c.t)
           f == CHOOSE g \in fd : TRUE
           e == Opened(o.node, "RDONLY")
           t == EntrySet(c.t, f, e)
           F == [fds EXCEPT ![p] = c.t]
           G == [fds EXCEPT ![p] = t]
<1>1. TypeOK /\ Uses /\ RingOK(kbd) /\ Exact(vfs, fds, pwd, lost)
  BY DEF Inv
<1>2. vfs \in VfsStates /\ fds \in Tables /\ lost \in [Nodes -> Nat] /\ pwd \in Dirs /\ pwd[p] \in {NULL, Root}
  BY <1>1 DEF TypeOK, Dirs
<1>3. pstate[p] \in {"user", "kthread"} /\ mm \in BOOLEAN
  BY DEF Exec
<1>4. \/ /\ fd = {} \/ o.st = "err"
         /\ Gone(p, IF fd = {} THEN c.v ELSE o.v, c.t, mm)
         /\ UNCHANGED kbd
      \/ Dies
      \/ /\ fd # {} /\ o.st = "ok"
         /\ Gone(p, vfs_close(o.v, o.node), c.t, FALSE) \/ Gone(p, o.v, t, FALSE)
         /\ UNCHANGED kbd
      \/ /\ fd # {} /\ o.st = "ok"
         /\ vfs' = vfs_close(o.v, o.node)
         /\ fds' = [fds EXCEPT ![p] = c.t]
         /\ pstate' = [pstate EXCEPT ![p] = "user"]
         /\ UNCHANGED <<pwd, read, wflag, killed, kbd, lost>>
  <2> DEFINE Body(x, y) ==
               \/ /\ fd_array_alloc(x.t) = {} \/ y.st = "err"
                  /\ Gone(p, IF fd_array_alloc(x.t) = {} THEN x.v ELSE y.v, x.t, mm)
                  /\ UNCHANGED kbd
               \/ Dies
               \/ /\ fd_array_alloc(x.t) # {} /\ y.st = "ok"
                  /\ \E closed \in IF y.node = File THEN BOOLEAN ELSE {FALSE} :
                        IF closed THEN Gone(p, vfs_close(y.v, y.node), x.t, FALSE)
                        ELSE Gone(p, y.v, [x.t EXCEPT ![CHOOSE g \in fd_array_alloc(x.t) : TRUE] =
                                                 Opened(y.node, "RDONLY")], FALSE)
                  /\ UNCHANGED kbd
               \/ /\ fd_array_alloc(x.t) # {} /\ y.st = "ok"
                  /\ vfs' = vfs_close(y.v, y.node)
                  /\ fds' = [fds EXCEPT ![p] = x.t]
                  /\ pstate' = [pstate EXCEPT ![p] = "user"]
                  /\ UNCHANGED <<pwd, read, wflag, killed, kbd, lost>>
  <2>1. \E x \in {CloseAll(vfs, fds[p], fs)} :
          \E y \in {vfs_open(x.v, pwd[p], path, "RDONLY", {})} : Body(x, y)
    BY ZenonT(30) DEF Exec
  <2>2. Body(c, o)
    <3> HIDE DEF Body, fs
    <3>1. QED
      BY <2>1
  <2> HIDE DEF c, o
  <2>3. QED
    BY <2>2 DEF EntrySet
<1>5. p \notin kbd.queue /\ \A g \in Fds : fds[p][g] \in Entry /\ fds[p][g].open_count # 2
  BY <1>1, <1>3, NotReading
<1>6. /\ c.v \in VfsStates /\ c.t = [g \in Fds |-> IF g \in fs THEN Free ELSE fds[p][g]]
      /\ c.t \in Table /\ Exact(c.v, F, pwd, lost)
  <2>1. fs \in SUBSET Fds
    OBVIOUS
  <2> HIDE DEF fs
  <2>2. QED
    BY <1>1, <1>2, <1>5, <2>1, CloseAllExact
<1> HIDE DEF c
<1>7. \A g \in Fds : c.t[g] \in Entry /\ c.t[g].open_count # 2
  BY <1>5, <1>6, FreeIs
<1>8. OpenResult(c.v, o, NULL)
  <2>1. LostByOpen(c.v, pwd[p], path, "RDONLY", {}) = NULL
    BY DEF LostByOpen
  <2>2. OpenResult(c.v, o, LostByOpen(c.v, pwd[p], path, "RDONLY", {}))
    BY <1>2, <1>6, VfsOpen
  <2>3. QED
    BY <2>1, <2>2
<1>9. F \in Tables /\ F[p] = c.t
  BY <1>2, <1>6 DEF Tables
<1> HIDE DEF o, fs, mm
<1>10. o.st = "err" => o.v \in VfsStates /\ Exact(o.v, F, pwd, lost)
  <2> SUFFICES ASSUME o.st = "err" PROVE o.v \in VfsStates /\ Exact(o.v, F, pwd, lost)
    OBVIOUS
  <2>1. Counts(c.v, o.v, Root, 0, 0)
    BY <1>8, NodeNames DEF OpenResult
  <2> HIDE DEF F
  <2>2. QED
    BY <1>6, <2>1, ExactSame DEF Counts
<1>11. o.st = "ok" => o.node \in Nodes /\ Counts(c.v, o.v, o.node, 1, 1)
  BY <1>8 DEF OpenResult
<1>12. o.st = "ok" => vfs_close(o.v, o.node) \in VfsStates /\ Exact(vfs_close(o.v, o.node), F, pwd, lost)
  <2> SUFFICES ASSUME o.st = "ok"
               PROVE  vfs_close(o.v, o.node) \in VfsStates /\ Exact(vfs_close(o.v, o.node), F, pwd, lost)
    OBVIOUS
  <2> DEFINE w == vfs_close(o.v, o.node)
  <2>1. o.node \in Nodes /\ Counts(c.v, o.v, o.node, 1, 1) /\ o.v \in VfsStates
    BY <1>11 DEF Counts
  <2>2. Counts(o.v, w, o.node, -1, -1)
    BY <2>1, CloseCounts
  <2> HIDE DEF w, F
  <2>3. \A m \in Nodes : c.v.ref[m] \in Int /\ c.v.open[m] \in Int
    BY <1>6 DEF VfsStates, VfsWith
  <2>4. Counts(c.v, w, o.node, 0, 0)
    BY <2>1, <2>2, <2>3 DEF Counts
  <2>5. Exact(w, F, pwd, lost)
    BY <1>6, <2>4, ExactSame
  <2>6. QED
    BY <2>4, <2>5 DEF Counts, w
<1>13. CASE (fd = {} \/ o.st = "err") /\ Gone(p, IF fd = {} THEN c.v ELSE o.v, c.t, mm) /\ UNCHANGED kbd
  <2> DEFINE w == IF fd = {} THEN c.v ELSE o.v
  <2>1. w \in VfsStates /\ Exact(w, F, pwd, lost)
    BY <1>6, <1>10, <1>13
  <2>2. Gone(p, w, c.t, mm) /\ kbd' = kbd /\ kbd'.queue \subseteq kbd.queue \ {p}
    BY <1>5, <1>13
  <2> HIDE DEF w
  <2>3. TypeOK' /\ Uses' /\ Exact(vfs, fds, pwd, lost)'
    BY <1>1, <1>3, <1>6, <1>7, <2>1, <2>2, GoneInv
  <2>4. QED
    BY <1>1, <2>2, <2>3 DEF Inv
<1>14. CASE Dies
  BY <1>14, DiesInv
<1>15. CASE o.st = "ok" /\ Gone(p, vfs_close(o.v, o.node), c.t, FALSE) /\ UNCHANGED kbd
  <2> DEFINE w == vfs_close(o.v, o.node)
  <2>1. w \in VfsStates /\ Exact(w, F, pwd, lost)
    BY <1>12, <1>15
  <2>2. Gone(p, w, c.t, FALSE) /\ kbd' = kbd /\ kbd'.queue \subseteq kbd.queue \ {p}
    BY <1>5, <1>15
  <2> HIDE DEF w
  <2>3. FALSE \in BOOLEAN
    OBVIOUS
  <2>4. TypeOK' /\ Uses' /\ Exact(vfs, fds, pwd, lost)'
    BY <1>1, <1>6, <1>7, <2>1, <2>2, <2>3, GoneInv
  <2>5. QED
    BY <1>1, <2>2, <2>4 DEF Inv
<1>16. CASE fd # {} /\ o.st = "ok" /\ Gone(p, o.v, t, FALSE) /\ UNCHANGED kbd
  <2>1. o.node \in Nodes /\ Counts(c.v, o.v, o.node, 1, 1) /\ o.v \in VfsStates
    BY <1>11, <1>16 DEF Counts
  <2>2. e \in Entry /\ e.node = o.node /\ e.open_count = 1
    BY <2>1, OpenedIs
  <2> HIDE DEF e
  <2>3. f \in Fds /\ c.t[f].node = NULL
    <3>1. f \in fd
      BY <1>16
    <3>2. f \in Fds /\ c.t[f].status = "NONE"
      BY <3>1 DEF fd_array_alloc
    <3>3. QED
      BY <1>7, <3>2, EntryIs, FreeIs
  <2> HIDE DEF f
  <2>4. t \in Table /\ \A g \in Fds : t[g].open_count # 2
    BY <1>6, <1>7, <2>2, <2>3 DEF Table, EntrySet
  <2>5. OneMore(F, TableSet(F, p, f, e), p, f, o.node)
    <3> HIDE DEF F
    <3>1. QED
      BY <1>9, <2>2, <2>3, OneMoreTable
  <2>6. TableSet(F, p, f, e) = G
    BY <1>2, <1>9 DEF TableSet, Tables
  <2> HIDE DEF F, G
  <2>7. Exact(o.v, G, pwd, lost)
    BY <1>2, <1>6, <2>1, <2>3, <2>5, <2>6, ExactOpen
  <2>8. kbd' = kbd /\ kbd'.queue \subseteq kbd.queue \ {p} /\ FALSE \in BOOLEAN
    BY <1>5, <1>16
  <2>9. Gone(p, o.v, t, FALSE)
    BY <1>16
  <2> HIDE DEF t
  <2>10. TypeOK' /\ Uses' /\ Exact(vfs, fds, pwd, lost)'
    BY <1>1, <2>1, <2>4, <2>7, <2>8, <2>9, GoneInv DEF G
  <2>11. QED
    BY <1>1, <2>8, <2>10 DEF Inv
<1>17. CASE /\ o.st = "ok" /\ vfs' = vfs_close(o.v, o.node) /\ fds' = [fds EXCEPT ![p] = c.t]
            /\ pstate' = [pstate EXCEPT ![p] = "user"]
            /\ UNCHANGED <<pwd, read, wflag, killed, kbd, lost>>
  <2>1. vfs' \in VfsStates /\ Exact(vfs', F, pwd, lost)
    BY <1>12, <1>17
  <2>2. \A q \in Procs : q # p => pwd'[q] = pwd[q]
    BY <1>17
  <2>3. Uses'
    BY <1>1, <1>3, <1>6, <1>7, <1>17, <2>2, UsesKept
  <2>4. TypeOK'
    BY <1>1, <1>9, <1>17, <2>1 DEF TypeOK
  <2>5. QED
    BY <1>1, <1>17, <2>1, <2>3, <2>4 DEF Inv
<1> HIDE DEF fd, f, t
<1>18. QED
  BY <1>4, <1>13, <1>14, <1>15, <1>16, <1>17

\* the other calls change nothing, or stop the machine
LEMMA SameInv == ASSUME Inv, UNCHANGED vars PROVE Inv'
BY DEF Inv, vars, TypeOK, Uses, Reading, Exact, Refers, In, RingOK

LEMMA CallInv ==
  ASSUME Inv, NEW p \in Procs, NEW f \in Fds, (\E op \in Calls : Operate(p, f, op)) \/ Write(p, f)
  PROVE  Inv'
<1>1. UNCHANGED vars \/ Dies
  BY DEF Operate, Write
<1>2. QED
  BY <1>1, SameInv, DiesInv

\* the loop of dev_stdin_read: the keys are taken, and the reader sleeps or not
LEMMA TakeOrSleepIs ==
  ASSUME TypeOK, NEW p \in Procs, NEW f \in Fds, NEW n \in Nat, NEW k, RingOK(k), TakeOrSleep(p, f, n, k)
  PROVE  /\ RingOK(kbd') /\ kbd'.queue = IF Sleeps(k, n) THEN k.queue \cup {p} ELSE k.queue
         /\ read' \in [Procs -> [fd : Fds, left : Nat]]
         /\ pstate' \in [Procs -> {"none", "kthread", "user", "asleep", "woken"}]
         /\ \A q \in Procs : pstate'[q] = IF q = p THEN IF Sleeps(k, n) THEN "asleep" ELSE "user"
                                          ELSE pstate[q]
         /\ \A q \in Procs : q # p => read'[q] = read[q]
         /\ Sleeps(k, n) => read'[p].fd = f
<1> DEFINE r == dev_stdin_read(k, n)
           q0 == IF Sleeps(k, n) THEN k.queue \cup {p} ELSE k.queue
           x == IF Sleeps(k, n) THEN [fd |-> f, left |-> n - Taken(k, n)] ELSE NoRead
           s == IF Sleeps(k, n) THEN "asleep" ELSE "user"
<1>1. RingOK(r) /\ r.queue = k.queue /\ n - Taken(k, n) \in Nat
  BY RingTake
<1>2. k.queue \in SUBSET Procs
  BY DEF RingOK, Rings
<1>3. kbd' = [r EXCEPT !.queue = q0]
  BY <1>1 DEF TakeOrSleep
<1>4. read' = [read EXCEPT ![p] = x] /\ pstate' = [pstate EXCEPT ![p] = s]
  BY DEF TakeOrSleep
<1>5. x \in [fd : Fds, left : Nat]
  BY <1>1, FilesAssumption DEF NoRead, Fds
<1>6. q0 \in SUBSET Procs
  BY <1>2
<1> HIDE DEF r, q0
<1>7. RingOK(kbd') /\ kbd'.queue = q0
  BY <1>1, <1>3, <1>6, RingQueue
<1>8. Sleeps(k, n) => x.fd = f
  OBVIOUS
<1> HIDE DEF x
<1>9. read' \in [Procs -> [fd : Fds, left : Nat]] /\ \A q \in Procs : read'[q] = IF q = p THEN x ELSE read[q]
  BY <1>4, <1>5 DEF TypeOK
<1>10. s \in {"none", "kthread", "user", "asleep", "woken"}
  OBVIOUS
<1> HIDE DEF s
<1>11. pstate' \in [Procs -> {"none", "kthread", "user", "asleep", "woken"}]
       /\ \A q \in Procs : pstate'[q] = IF q = p THEN s ELSE pstate[q]
  BY <1>4, <1>10 DEF TypeOK
<1>12. QED
  BY <1>7, <1>8, <1>9, <1>11 DEF q0, s

LEMMA AcquireEntry ==
  ASSUME NEW e \in Entry, e.status = "OPENED", e.open_count # 2
  PROVE  /\ fd_array_acquire(e) \in Entry /\ fd_array_acquire(e).node = e.node
         /\ fd_array_acquire(e).open_count = 2
<1>1. e \in [status : {"OPENED"}, readable : BOOLEAN, writable : BOOLEAN,
             node : Nodes, open_count : {1, 2}]
  BY FreeIs DEF Entry
<1> DEFINE d == [e EXCEPT !.open_count = e.open_count + 1]
<1>2. d.open_count = 2 /\ d.node = e.node
      /\ d \in [status : {"OPENED"}, readable : BOOLEAN, writable : BOOLEAN,
                node : Nodes, open_count : {1, 2}]
  BY <1>1
<1> HIDE DEF d
<1>3. fd_array_acquire(e) = d
  BY DEF fd_array_acquire, d
<1>4. QED
  BY <1>2, <1>3 DEF Entry

\* one entry of p is acquired or released, for the same inode
LEMMA ExactEntry ==
  ASSUME TypeOK, Exact(vfs, fds, pwd, lost), NEW p \in Procs, NEW f \in Fds, NEW e \in Entry,
         e.node = fds[p][f].node
  PROVE  TableSet(fds, p, f, e) \in Tables /\ Exact(vfs, TableSet(fds, p, f, e), pwd, lost)
<1> DEFINE G == TableSet(fds, p, f, e)
<1>1. vfs \in VfsStates /\ fds \in Tables
  BY DEF TypeOK
<1>2. G \in Tables /\ \A q \in Procs, g \in Fds : G[q][g] = IF q = p /\ g = f THEN e ELSE fds[q][g]
  BY <1>1, TableUpdate
<1> HIDE DEF G
<1>3. \A q \in Procs, g \in Fds : G[q][g].node = fds[q][g].node
  BY <1>2
<1>4. Counts(vfs, vfs, Root, 0, 0)
  BY <1>1, Unchanged
<1>5. Exact(vfs, G, pwd, lost)
  BY <1>1, <1>3, <1>4, ExactSame
<1>6. QED
  BY <1>2, <1>5 DEF G

LEMMA ReadInv == ASSUME Inv, NEW p \in Procs, NEW f \in Fds, NEW n \in 1..MaxRead, Read(p, f, n) PROVE Inv'
<1> DEFINE e == fd_array_acquire(fds[p][f])
           G == TableSet(fds, p, f, e)
<1>1. TypeOK /\ Uses /\ RingOK(kbd) /\ Exact(vfs, fds, pwd, lost)
  BY DEF Inv
<1>2. /\ pstate[p] = "user" /\ fds[p][f].status = "OPENED" /\ TakeOrSleep(p, f, n, kbd)
      /\ fds' = IF Sleeps(kbd, n) THEN [fds EXCEPT ![p][f] = e] ELSE fds
      /\ UNCHANGED <<vfs, pwd, killed, lost>>
  BY DEF Read
<1>3. p \notin Reading /\ \A g \in Fds : fds[p][g] \in Entry /\ fds[p][g].open_count # 2
  BY <1>1, <1>2, NotReading
<1>4. n \in Nat
  BY FilesAssumption
<1>5. /\ RingOK(kbd') /\ kbd'.queue = IF Sleeps(kbd, n) THEN kbd.queue \cup {p} ELSE kbd.queue
      /\ read' \in [Procs -> [fd : Fds, left : Nat]]
      /\ pstate' \in [Procs -> {"none", "kthread", "user", "asleep", "woken"}]
      /\ \A q \in Procs : pstate'[q] = IF q = p THEN IF Sleeps(kbd, n) THEN "asleep" ELSE "user"
                                       ELSE pstate[q]
      /\ \A q \in Procs : q # p => read'[q] = read[q]
      /\ Sleeps(kbd, n) => read'[p].fd = f
  BY <1>1, <1>2, <1>4, TakeOrSleepIs
<1>6. CASE Sleeps(kbd, n)
  <2>1. e \in Entry /\ e.node = fds[p][f].node /\ e.open_count = 2
    BY <1>2, <1>3, AcquireEntry
  <2> HIDE DEF e
  <2>2. fds \in Tables
    BY <1>1 DEF TypeOK
  <2>3. G \in Tables /\ Exact(vfs, G, pwd, lost)
    BY <1>1, <2>1, ExactEntry
  <2>4. fds' = G /\ \A q \in Procs, g \in Fds : G[q][g] = IF q = p /\ g = f THEN e ELSE fds[q][g]
    BY <1>2, <1>6, <2>1, <2>2, TableUpdate
  <2>5. \A q \in Procs : q # p => G[q] = fds[q]
    BY <2>2 DEF TableSet, Tables
  <2> HIDE DEF G
  <2>6. TypeOK'
    BY <1>1, <1>2, <1>5, <2>3, <2>4 DEF TypeOK
  <2>7. \A q \in Procs : q \in Reading' <=> q \in Reading \/ q = p
    BY <1>5, <1>6 DEF Reading
  <2>8. ASSUME NEW q \in Procs, NEW g \in Fds
        PROVE  fds'[q][g].open_count = 2 <=> q \in Reading' /\ read'[q].fd = g
    <3>1. CASE q = p /\ g = f
      <4>1. fds'[q][g] = e /\ q \in Reading' /\ read'[q].fd = g
        BY <1>5, <1>6, <2>4, <2>7, <3>1
      <4>2. QED
        BY <2>1, <4>1
    <3>2. CASE q = p /\ g # f
      <4>1. fds'[q][g] = fds[p][g] /\ read'[q].fd = f
        BY <1>5, <1>6, <2>4, <3>2
      <4>2. QED
        BY <1>3, <3>2, <4>1
    <3>3. CASE q # p
      <4>1. fds'[q][g] = fds[q][g] /\ read'[q] = read[q] /\ (q \in Reading' <=> q \in Reading)
        BY <1>5, <2>4, <2>7, <3>3
      <4>2. QED
        BY <1>1, <4>1 DEF Uses
    <3>4. QED
      BY <3>1, <3>2, <3>3
  <2>9. \A q \in Procs : pstate'[q] = "none" => fds'[q] = fd_array_init /\ pwd'[q] = NULL
    BY <1>1, <1>2, <1>5, <1>6, <2>4, <2>5 DEF Uses
  <2>10. kbd'.queue \subseteq Reading'
    <3>1. kbd.queue \subseteq Reading /\ Reading \subseteq Procs
      BY <1>1 DEF Uses, Reading
    <3>2. QED
      BY <1>5, <1>6, <2>7, <3>1
  <2>11. Uses'
    BY <2>8, <2>9, <2>10 DEF Uses
  <2>12. Exact(vfs, fds, pwd, lost)'
    BY <1>2, <2>3, <2>4
  <2>13. QED
    BY <1>5, <2>6, <2>11, <2>12 DEF Inv
<1>7. CASE ~Sleeps(kbd, n)
  <2>1. fds' = fds /\ kbd'.queue = kbd.queue /\ \A q \in Procs : pstate'[q] = pstate[q]
    BY <1>2, <1>5, <1>7
  <2>2. \A q \in Procs : q \in Reading' <=> q \in Reading
    BY <2>1 DEF Reading
  <2>3. TypeOK'
    BY <1>1, <1>2, <1>5, <2>1 DEF TypeOK
  <2>4. ASSUME NEW q \in Procs, NEW g \in Fds
        PROVE  fds'[q][g].open_count = 2 <=> q \in Reading' /\ read'[q].fd = g
    <3>1. CASE q = p
      BY <1>3, <2>1, <2>2, <3>1
    <3>2. CASE q # p
      BY <1>1, <1>5, <2>1, <2>2, <3>2 DEF Uses
    <3>3. QED
      BY <3>1, <3>2
  <2>5. kbd'.queue \subseteq Reading'
    <3>1. kbd.queue \subseteq Reading /\ Reading \subseteq Procs
      BY <1>1 DEF Uses, Reading
    <3>2. QED
      BY <2>1, <2>2, <3>1
  <2>6. Uses'
    BY <1>1, <1>2, <2>1, <2>4, <2>5 DEF Uses
  <2>7. Exact(vfs, fds, pwd, lost)'
    BY <1>1, <1>2, <2>1
  <2>8. QED
    BY <1>5, <2>3, <2>6, <2>7 DEF Inv
<1>8. QED
  BY <1>6, <1>7

\* the descriptor that a reader has acquired
LEMMA ReleasedIs ==
  ASSUME TypeOK, Uses, NEW p \in Procs, p \in Reading
  PROVE  /\ read[p].fd \in Fds /\ read[p].left \in Nat /\ fds[p][read[p].fd].open_count = 2
         /\ Released(p).v = vfs /\ Released(p).e \in Entry
         /\ Released(p).e.node = fds[p][read[p].fd].node /\ Released(p).e.open_count = 1
         /\ \A g \in Fds : g # read[p].fd => fds[p][g].open_count # 2
<1>1. read[p].fd \in Fds /\ read[p].left \in Nat
  BY DEF TypeOK
<1>2. fds[p][read[p].fd].open_count = 2 /\ \A g \in Fds : g # read[p].fd => fds[p][g].open_count # 2
  BY <1>1 DEF Uses
<1>3. fds[p][read[p].fd] \in Entry
  BY <1>1 DEF TypeOK, Tables, Table
<1>4. QED
  BY <1>1, <1>2, <1>3, ReleaseEntry DEF Released

LEMMA ReadAgainInv == ASSUME Inv, NEW p \in Procs, ReadAgain(p) PROVE Inv'
<1> DEFINE k == [kbd EXCEPT !.queue = kbd.queue \ {p}]
           f == read[p].fd
           n == read[p].left
           e == Released(p).e
           G == TableSet(fds, p, f, e)
<1>1. TypeOK /\ Uses /\ RingOK(kbd) /\ Exact(vfs, fds, pwd, lost)
  BY DEF Inv
<1>2. /\ pstate[p] = "woken" /\ TakeOrSleep(p, f, n, k)
      /\ IF Sleeps(k, n) THEN UNCHANGED <<vfs, fds>>
                         ELSE vfs' = Released(p).v /\ fds' = [fds EXCEPT ![p][f] = e]
      /\ UNCHANGED <<pwd, killed, lost>>
  BY DEF ReadAgain
<1>3. p \in Reading /\ kbd.queue \subseteq Procs
  BY <1>1, <1>2 DEF Reading, RingOK, Rings
<1>4. /\ f \in Fds /\ n \in Nat /\ fds[p][f].open_count = 2
      /\ Released(p).v = vfs /\ e \in Entry /\ e.node = fds[p][f].node /\ e.open_count = 1
      /\ \A g \in Fds : g # f => fds[p][g].open_count # 2
  BY <1>1, <1>3, ReleasedIs
<1>5. RingOK(k) /\ k.queue = kbd.queue \ {p}
  BY <1>1, <1>3, RingQueue
<1> HIDE DEF k, f, n, e
<1>6. /\ RingOK(kbd') /\ kbd'.queue = IF Sleeps(k, n) THEN k.queue \cup {p} ELSE k.queue
      /\ read' \in [Procs -> [fd : Fds, left : Nat]]
      /\ pstate' \in [Procs -> {"none", "kthread", "user", "asleep", "woken"}]
      /\ \A q \in Procs : pstate'[q] = IF q = p THEN IF Sleeps(k, n) THEN "asleep" ELSE "user"
                                       ELSE pstate[q]
      /\ \A q \in Procs : q # p => read'[q] = read[q]
      /\ Sleeps(k, n) => read'[p].fd = f
  BY <1>1, <1>2, <1>4, <1>5, TakeOrSleepIs
<1>7. kbd.queue \subseteq Reading /\ Reading \subseteq Procs
  BY <1>1 DEF Uses, Reading
<1>8. CASE Sleeps(k, n)
  <2>1. vfs' = vfs /\ fds' = fds
    BY <1>2, <1>8
  <2>2. \A q \in Procs : q \in Reading' <=> q \in Reading
    BY <1>2, <1>6, <1>8 DEF Reading
  <2>3. TypeOK'
    BY <1>1, <1>2, <1>6, <2>1 DEF TypeOK
  <2>4. \A q \in Procs : q \in Reading => read'[q].fd = read[q].fd
    BY <1>6, <1>8 DEF f
  <2>5. kbd'.queue \subseteq Reading'
    BY <1>3, <1>5, <1>6, <1>7, <1>8, <2>2
  <2>6. \A q \in Procs, g \in Fds : fds'[q][g].open_count = 2 <=> q \in Reading' /\ read'[q].fd = g
    BY <1>1, <2>1, <2>2, <2>4 DEF Uses
  <2>7. \A q \in Procs : pstate'[q] = "none" => fds'[q] = fd_array_init /\ pwd'[q] = NULL
    BY <1>1, <1>2, <1>6, <1>8, <2>1 DEF Uses
  <2>8. Uses'
    BY <2>5, <2>6, <2>7 DEF Uses
  <2>9. Exact(vfs, fds, pwd, lost)'
    BY <1>1, <1>2, <2>1
  <2>10. QED
    BY <1>6, <2>3, <2>8, <2>9 DEF Inv
<1>9. CASE ~Sleeps(k, n)
  <2>1. fds \in Tables
    BY <1>1 DEF TypeOK
  <2>2. G \in Tables /\ Exact(vfs, G, pwd, lost)
    BY <1>1, <1>4, ExactEntry
  <2>3. vfs' = vfs /\ fds' = G
        /\ \A q \in Procs, g \in Fds : G[q][g] = IF q = p /\ g = f THEN e ELSE fds[q][g]
    BY <1>2, <1>4, <1>9, <2>1, TableUpdate
  <2>4. \A q \in Procs : q # p => G[q] = fds[q]
    BY <2>1 DEF TableSet, Tables
  <2> HIDE DEF G
  <2>5. TypeOK'
    BY <1>1, <1>2, <1>6, <2>2, <2>3 DEF TypeOK
  <2>6. \A q \in Procs : q \in Reading' <=> q \in Reading /\ q # p
    BY <1>2, <1>6, <1>9 DEF Reading
  <2>7. ASSUME NEW q \in Procs, NEW g \in Fds
        PROVE  fds'[q][g].open_count = 2 <=> q \in Reading' /\ read'[q].fd = g
    <3>1. CASE q = p
      <4>1. fds'[q][g].open_count # 2
        BY <1>4, <2>3, <3>1
      <4>2. QED
        BY <2>6, <3>1, <4>1
    <3>2. CASE q # p
      <4>1. fds'[q][g] = fds[q][g] /\ read'[q] = read[q] /\ (q \in Reading' <=> q \in Reading)
        BY <1>6, <2>3, <2>6, <3>2
      <4>2. QED
        BY <1>1, <4>1 DEF Uses
    <3>3. QED
      BY <3>1, <3>2
  <2>8. \A q \in Procs : pstate'[q] = "none" => fds'[q] = fd_array_init /\ pwd'[q] = NULL
    BY <1>1, <1>2, <1>6, <1>9, <2>3, <2>4 DEF Uses
  <2>9. kbd'.queue \subseteq Reading'
    BY <1>5, <1>6, <1>7, <1>9, <2>6
  <2>10. Uses'
    BY <2>7, <2>8, <2>9 DEF Uses
  <2>11. Exact(vfs, fds, pwd, lost)'
    BY <1>2, <2>2, <2>3
  <2>12. QED
    BY <1>6, <2>5, <2>10, <2>11 DEF Inv
<1>10. QED
  BY <1>8, <1>9

LEMMA ReadKilledInv == ASSUME Inv, NEW p \in Procs, ReadKilled(p) PROVE Inv'
<1> DEFINE k == [kbd EXCEPT !.queue = kbd.queue \ {p}]
           f == read[p].fd
           n == read[p].left
           e == Released(p).e
           t == EntrySet(fds[p], f, e)
<1>1. TypeOK /\ Uses /\ RingOK(kbd) /\ Exact(vfs, fds, pwd, lost)
  BY DEF Inv
<1>2. /\ pstate[p] = "woken" /\ (kbd' = k \/ kbd' = dev_stdin_read(k, n))
      /\ Gone(p, Released(p).v, t, TRUE)
  BY DEF ReadKilled, EntrySet
<1>3. p \in Reading /\ kbd.queue \subseteq Procs
  BY <1>1, <1>2 DEF Reading, RingOK, Rings
<1>4. /\ f \in Fds /\ n \in Nat /\ fds[p][f].open_count = 2
      /\ Released(p).v = vfs /\ e \in Entry /\ e.node = fds[p][f].node /\ e.open_count = 1
      /\ \A g \in Fds : g # f => fds[p][g].open_count # 2
  BY <1>1, <1>3, ReleasedIs
<1>5. RingOK(k) /\ k.queue = kbd.queue \ {p}
  BY <1>1, <1>3, RingQueue
<1> HIDE DEF k, f, n, e
<1>6. RingOK(kbd') /\ kbd'.queue \subseteq kbd.queue \ {p}
  BY <1>2, <1>4, <1>5, RingTake
<1>7. fds \in Tables /\ vfs \in VfsStates
  BY <1>1 DEF TypeOK
<1>8. Exact(vfs, TableSet(fds, p, f, e), pwd, lost)
  BY <1>1, <1>4, ExactEntry
<1>9. Exact(vfs, [fds EXCEPT ![p] = t], pwd, lost)
  BY <1>8 DEF TableSet
<1>10. t \in Table
  BY <1>4, <1>7, TableUpdate
<1>11. \A g \in Fds : t[g].open_count # 2
  <2>1. fds[p] \in Table
    BY <1>7 DEF Tables
  <2>2. \A g \in Fds : t[g] = IF g = f THEN e ELSE fds[p][g]
    BY <1>4, <2>1 DEF EntrySet, Table
  <2> HIDE DEF t
  <2>3. QED
    BY <1>4, <2>2
<1> HIDE DEF t
<1>12. Gone(p, vfs, t, TRUE) /\ TRUE \in BOOLEAN
  BY <1>2, <1>4
<1>13. TypeOK' /\ Uses' /\ Exact(vfs, fds, pwd, lost)'
  BY <1>1, <1>6, <1>7, <1>9, <1>10, <1>11, <1>12, GoneInv
<1>14. QED
  BY <1>6, <1>13 DEF Inv

LEMMA KeyPressInv == ASSUME Inv, KeyPress PROVE Inv'
<1>1. TypeOK /\ Uses /\ RingOK(kbd) /\ Exact(vfs, fds, pwd, lost)
  BY DEF Inv
<1>2. kbd' = dev_stdin_write(kbd) /\ UNCHANGED <<vfs, pwd, fds, pstate, read, wflag, killed, lost>>
  BY DEF KeyPress
<1>3. RingOK(kbd') /\ kbd'.queue = kbd.queue
  BY <1>1, <1>2, RingPress
<1>4. Uses'
  BY <1>1, <1>2, <1>3 DEF Uses, Reading
<1>5. TypeOK' /\ Exact(vfs, fds, pwd, lost)'
  BY <1>1, <1>2 DEF TypeOK
<1>6. QED
  BY <1>3, <1>4, <1>5 DEF Inv

LEMMA TickInv == ASSUME Inv, Tick PROVE Inv'
<1> DEFINE q0 == kbd.queue \ Woken(kbd)
<1>1. TypeOK /\ Uses /\ RingOK(kbd) /\ Exact(vfs, fds, pwd, lost)
  BY DEF Inv
<1>2. /\ kbd' = [kbd EXCEPT !.queue = q0]
      /\ pstate' = [p \in Procs |-> IF p \in Woken(kbd) THEN "woken" ELSE pstate[p]]
      /\ UNCHANGED <<vfs, pwd, fds, read, killed, lost>>
  BY DEF Tick, input_wakeup
<1>3. kbd.queue \subseteq Reading /\ Reading \subseteq Procs /\ Woken(kbd) \subseteq kbd.queue
  BY <1>1 DEF Uses, Reading, Woken
<1>4. q0 \in SUBSET Procs /\ q0 \subseteq Reading
  BY <1>3
<1> HIDE DEF q0
<1>5. RingOK(kbd') /\ kbd'.queue = q0
  BY <1>1, <1>2, <1>4, RingQueue
<1>6. \A p \in Procs : /\ p \in Reading' <=> p \in Reading
                       /\ pstate'[p] = "none" => pstate[p] = "none"
  BY <1>2, <1>3 DEF Reading
<1>7. kbd'.queue \subseteq Reading'
  BY <1>3, <1>4, <1>5, <1>6
<1>8. Uses'
  BY <1>1, <1>2, <1>6, <1>7 DEF Uses
<1>9. TypeOK' /\ Exact(vfs, fds, pwd, lost)'
  BY <1>1, <1>2 DEF TypeOK
<1>10. QED
  BY <1>5, <1>8, <1>9 DEF Inv

LEMMA KillInv == ASSUME Inv, NEW p \in Procs, Kill(p) PROVE Inv'
<1>1. TypeOK /\ Uses /\ RingOK(kbd) /\ Exact(vfs, fds, pwd, lost)
  BY DEF Inv
<1>2. pstate[p] = "asleep" /\ pstate' = [pstate EXCEPT ![p] = "woken"]
      /\ UNCHANGED <<vfs, pwd, fds, read, wflag, kbd, lost>>
  BY DEF Kill
<1>3. TypeOK' /\ Exact(vfs, fds, pwd, lost)' /\ RingOK(kbd)'
  BY <1>1, <1>2 DEF TypeOK
<1>4. \A q \in Procs : /\ q \in Reading' <=> q \in Reading
                       /\ pstate'[q] = "none" => pstate[q] = "none"
  BY <1>1, <1>2 DEF Reading, TypeOK
<1>5. kbd'.queue \subseteq Reading'
  BY <1>1, <1>2, <1>4 DEF Uses, Reading
<1>6. Uses'
  BY <1>1, <1>2, <1>4, <1>5 DEF Uses
<1>7. QED
  BY <1>3, <1>6 DEF Inv

LEMMA NextInv == Inv /\ [Next]_vars => Inv'
<1> SUFFICES ASSUME Inv, [Next]_vars PROVE Inv'
  OBVIOUS
<1>1. CASE UNCHANGED vars
  BY <1>1, SameInv
<1>2. CASE \E p \in Procs : Exit(p) \/ ReadAgain(p) \/ ReadKilled(p) \/ Kill(p)
  BY <1>2, ExitInv, ReadAgainInv, ReadKilledInv, KillInv
<1>3. CASE \E p \in Procs, path \in OpenPaths :
              Exec(p, path) \/ \E acc \in OpenAccess, opts \in OpenOptions : Open(p, path, acc, opts)
  BY <1>3, ExecInv, OpenInv
<1>4. CASE \E p \in Procs, f \in Fds :
              \/ Close(p, f) \/ Write(p, f)
              \/ \E g \in Fds : Dup(p, f, g)
              \/ \E op \in Calls : Operate(p, f, op)
              \/ \E n \in 1..MaxRead : Read(p, f, n)
  <2>1. PICK p \in Procs, f \in Fds :
              \/ Close(p, f) \/ Write(p, f)
              \/ \E g \in Fds : Dup(p, f, g)
              \/ \E op \in Calls : Operate(p, f, op)
              \/ \E n \in 1..MaxRead : Read(p, f, n)
    BY <1>4
  <2>2. QED
    BY <2>1, CloseInv, CallInv, DupInv, ReadInv
<1>5. CASE \E p \in Procs, c \in Procs : Fork(p, c)
  BY <1>5, ForkInv
<1>6. CASE KeyPress \/ Tick
  BY <1>6, KeyPressInv, TickInv
<1>7. QED
  BY <1>1, <1>2, <1>3, <1>4, <1>5, <1>6 DEF Next

-----------------------------------------------------------------------------
(* The theorems.                                                           *)

LEMMA AlwaysInv == Spec => []Inv
<1>1. QED
  BY InitInv, NextInv, PTL DEF Spec

\* Whatever the processes open, copy, close, inherit and leave behind, the reference
\* count of every inode is the number of pointers to it, those that an exclusive open
\* or an exit without put_files lost included, and its open count lies between the
\* descriptors and the descriptors with the lost ones; so inode_check never fails.
THEOREM CountsStayExact == Spec => []CountsExact
<1>1. Inv => CountsExact
  <2> SUFFICES ASSUME Inv, NEW n \in Nodes
               PROVE  /\ vfs.ref[n] = Cardinality(Entries(n)) + Cardinality({p \in Procs : pwd[p] = n}) + lost[n]
                           + (IF Booted.pwd = n THEN 1 ELSE 0) + (IF vfs.bootfs = n THEN 1 ELSE 0)
                           + (IF n \in DOMAIN vfs.dev THEN 1 ELSE 0)
                      /\ vfs.open[n] >= Cardinality(Entries(n)) /\ inode_check(vfs, n)
                      /\ vfs.open[n] <= Cardinality(Entries(n)) + lost[n]
    BY DEF CountsExact
  <2> DEFINE a == Cardinality(Refers(fds, n))
             b == Cardinality(In(pwd, n))
  <2>1. Cardinality(Entries(n)) = a /\ Cardinality({p \in Procs : pwd[p] = n}) = b
    BY DEF Entries, Refers, In
  <2>2. a \in Nat /\ b \in Nat
    BY PointersFinite
  <2> HIDE DEF a, b
  <2>3. vfs.bootfs = Root /\ DOMAIN vfs.dev = Devices /\ Booted.pwd = Root
        /\ vfs.ref[n] \in Int /\ vfs.open[n] \in Int /\ lost[n] \in Nat
    BY BootedIs DEF Inv, TypeOK, VfsStates, VfsWith, DevTables
  <2>4. vfs.ref[n] = a + b + lost[n] + Fixed(n) /\ vfs.open[n] >= a /\ vfs.open[n] <= a + lost[n]
    BY DEF Inv, Exact, a, b
  <2>5. Fixed(n) \in Nat
        /\ Fixed(n) = (IF Root = n THEN 1 ELSE 0) + (IF Root = n THEN 1 ELSE 0) + (IF n \in Devices THEN 1 ELSE 0)
    BY NodeNames DEF Fixed
  <2>6. vfs.ref[n] >= vfs.open[n] /\ vfs.open[n] >= 0
    BY <2>2, <2>3, <2>4, <2>5
  <2>7. vfs.ref[n] = a + b + lost[n] + (IF Booted.pwd = n THEN 1 ELSE 0)
                     + (IF vfs.bootfs = n THEN 1 ELSE 0) + (IF n \in DOMAIN vfs.dev THEN 1 ELSE 0)
    BY <2>2, <2>3, <2>4, <2>5
  <2>8. QED
    BY <2>1, <2>4, <2>6, <2>7 DEF inode_check
<1>2. QED
  BY <1>1, AlwaysInv, PTL

\* Until a key is stored over an unread one, the ring of dev_stdin.c hands out every key
\* once, in the order in which they were pressed, for any size of the ring.
THEOREM KeysStayInOrder == Spec => []KeysInOrder
<1>1. Inv => KeysInOrder
  BY DEF Inv, RingOK, KeysInOrder
<1>2. QED
  BY <1>1, AlwaysInv, PTL

\* A descriptor is acquired a second time exactly while its process is in a console read
\* of it, and whoever is in the console's queue is in such a read: no reader leaves the
\* queue or the descriptor behind, killed or not.
THEOREM ReadersHoldTheirFile == Spec => []Uses
<1>1. Inv => Uses
  BY DEF Inv
<1>2. QED
  BY <1>1, AlwaysInv, PTL
=============================================================================
