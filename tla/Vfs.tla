-------------------------------- MODULE Vfs --------------------------------
(***************************************************************************)
(* The virtual file system: the device table, the reference and open       *)
(* counts of the inodes, path lookup, vfs_open and vfs_close.  The state   *)
(* is a record v: the inodes' counts, the device table and bootfs_node.    *)
(* An operation that can fail returns [st, v, node]; st is "ok", "err" or  *)
(* "panic" (an assert of the kernel failed).  Which words a file holds is  *)
(* the business of Sfs; here it has one directory with one file.           *)
(***************************************************************************)
EXTENDS Integers

NULL == "NULL"
CharDevs == {"stdin", "stdout", "kpuio"}
Devices == CharDevs \cup {"disk0"}
Root == "root"
File == "file"
Nodes == Devices \cup {Root, File}

\* the paths a program can pass: a device alone, a device with something behind the
\* colon, the root of the boot file system, and names in the current directory
Paths == {<<d, "">> : d \in Devices} \cup {<<"stdin", "x">>, <<"nodev", "">>, <<"/", "">>}
         \cup {<<"", File>>, <<"/", File>>, <<"", "missing">>}

Access == {"RDONLY", "WRONLY", "RDWR"}
Options == {"CREAT", "EXCL", "TRUNC", "APPEND"}

\* the operations in the tables sfs_node_dirops, sfs_node_fileops and dev_node_ops
Ops(n) ==
    CASE n = Root -> {"open", "close", "fstat", "fsync", "namefile", "getdirentry",
                      "reclaim", "gettype", "lookup"}
      [] n = File -> {"open", "close", "read", "write", "fstat", "fsync", "reclaim",
                      "gettype", "tryseek", "truncate"}
      [] OTHER    -> {"open", "close", "read", "write", "fstat", "ioctl", "gettype",
                      "tryseek", "lookup"}

-----------------------------------------------------------------------------
(* inode.c *)

inode_ref_inc(v, n) == [v EXCEPT !.ref[n] = @ + 1]
inode_open_inc(v, n) == [v EXCEPT !.open[n] = @ + 1]
inode_open_dec(v, n) == [v EXCEPT !.open[n] = @ - 1]

\* the last reference calls vop_reclaim: a file system inode leaves memory, and
\* a device inode has no such operation
inode_ref_dec(v, n) ==
    LET w == [v EXCEPT !.ref[n] = @ - 1]
    IN  IF w.ref[n] = 0 /\ "reclaim" \notin Ops(n) THEN [w EXCEPT !.panic = TRUE] ELSE w

\* what inode_check asserts before every vop_ call
inode_check(v, n) == v.ref[n] >= v.open[n] /\ v.open[n] >= 0

-----------------------------------------------------------------------------
(* vfsdev.c, vfs.c, vfspath.c *)

\* vfs_do_add; dev_create_inode has made the inode with one reference, which the
\* device table keeps
vfs_do_add(v, name, mountable) ==
    IF name \in DOMAIN v.dev
    THEN [v EXCEPT !.panic = TRUE]
    ELSE [v EXCEPT !.dev = [d \in DOMAIN v.dev \cup {name} |->
                               IF d = name THEN [mountable |-> mountable, mounted |-> FALSE]
                                           ELSE v.dev[d]],
                   !.ref[name] = 1]

vfs_mount(v, name) ==
    IF name \in DOMAIN v.dev /\ v.dev[name].mountable /\ ~v.dev[name].mounted
    THEN [v EXCEPT !.dev[name].mounted = TRUE]
    ELSE v

\* vfs_get_root: the root of a mounted file system, else the device itself if no
\* file system belongs on it
vfs_get_root(v, name) ==
    IF name \notin DOMAIN v.dev THEN NULL
    ELSE IF v.dev[name].mounted THEN Root
    ELSE IF ~v.dev[name].mountable THEN name ELSE NULL

\* vfs_set_curdir: pwd is the directory so far; [v, pwd]
vfs_set_curdir(v, pwd, dir) ==
    IF dir = pwd \/ dir # Root THEN [v |-> v, pwd |-> pwd]
    ELSE LET w == inode_ref_inc(v, dir)
         IN  [v |-> IF pwd = NULL THEN w ELSE inode_ref_dec(w, pwd), pwd |-> dir]

\* vfs_chdir to the root of a device, as vfs_set_bootfs does it
vfs_chdir(v, pwd, name) ==
    LET n == vfs_get_root(v, name)
        c == vfs_set_curdir(inode_ref_inc(v, n), pwd, n)
    IN  [c EXCEPT !.v = inode_ref_dec(@, n)]

\* vfs_set_bootfs: the reference of vfs_get_curdir goes to bootfs_node
vfs_set_bootfs(v, name) ==
    LET c == vfs_chdir(v, NULL, name)
    IN  [c EXCEPT !.v = [inode_ref_inc(@, c.pwd) EXCEPT !.bootfs = c.pwd]]

\* fs_init, then init_main's vfs_set_bootfs("disk0:"); [v, pwd]
Booted ==
    LET none == [ref |-> [n \in Nodes |-> 0], open |-> [n \in Nodes |-> 0],
                 dev |-> <<>>, bootfs |-> NULL, panic |-> FALSE]
        devs == vfs_do_add(vfs_do_add(vfs_do_add(vfs_do_add(none, "stdin", FALSE),
                           "stdout", FALSE), "disk0", TRUE), "kpuio", FALSE)
    IN  vfs_set_bootfs(vfs_mount(devs, "disk0"), "disk0")

-----------------------------------------------------------------------------
(* vfslookup.c, vfsfile.c *)

Failed(v) == [st |-> "err", v |-> v, node |-> NULL]
Panic(v) == [st |-> "panic", v |-> v, node |-> NULL]
Done(v, n) == [st |-> "ok", v |-> v, node |-> n]

\* get_device: where a path starts, with a reference taken on it
get_device(v, pwd, path) ==
    LET n == CASE path[1] = ""  -> pwd
               [] path[1] = "/" -> v.bootfs
               [] OTHER         -> vfs_get_root(v, path[1])
    IN  IF n = NULL THEN Failed(v) ELSE Done(inode_ref_inc(v, n), n)

\* vfs_lookup: the inode comes back with a reference, the directory is let go;
\* "noent" tells a name that is not there from the other errors
vfs_lookup(v, pwd, path) ==
    LET d == get_device(v, pwd, path)
    IN  IF d.st # "ok" \/ path[2] = "" THEN d
        ELSE IF d.node = Root /\ path[2] = File
        THEN Done(inode_ref_dec(inode_ref_inc(d.v, File), d.node), File)
        ELSE [Failed(inode_ref_dec(d.v, d.node)) EXCEPT !.st = "noent"]

\* vop_open: sfs_opendir, sfs_openfile, or dev_open with the device's own open
vop_open(n, acc, opts) ==
    CASE n = Root    -> acc = "RDONLY" /\ "APPEND" \notin opts
      [] n = File    -> TRUE
      [] OTHER       -> opts = {} /\ (n = "disk0" \/ acc = [stdin |-> "RDONLY", stdout |-> "WRONLY",
                                                           kpuio |-> "RDWR"][n])

\* vfs_close
vfs_close(v, n) == inode_ref_dec(inode_open_dec(v, n), n)

\* vfs_open.  No file system implements vop_create, so a name that is to be created
\* fails an assertion; O_EXCL with O_CREAT gives up on an existing file without
\* dropping the reference of the lookup
vfs_open(v, pwd, path, acc, opts) ==
    LET found == vfs_lookup(v, pwd, path)
        n     == found.node
        truncates == opts \cap {"TRUNC", "CREAT"} # {}
    IN  IF "TRUNC" \in opts /\ acc = "RDONLY" THEN Failed(v)
        ELSE IF found.st = "noent" THEN IF "CREAT" \in opts THEN Panic(found.v) ELSE Failed(found.v)
        ELSE IF found.st = "err" THEN found
        ELSE IF {"CREAT", "EXCL"} \subseteq opts THEN Failed(found.v)
        ELSE IF ~vop_open(n, acc, opts) THEN Failed(inode_ref_dec(found.v, n))
        ELSE IF truncates /\ "truncate" \notin Ops(n) THEN Panic(found.v)
        ELSE Done(inode_open_inc(found.v, n), n)

\* the inode whose reference vfs_open lost, if it lost one
LostByOpen(v, pwd, path, acc, opts) ==
    LET found == vfs_lookup(v, pwd, path)
    IN  IF {"CREAT", "EXCL"} \subseteq opts /\ found.st = "ok" /\ ~("TRUNC" \in opts /\ acc = "RDONLY")
        THEN found.node ELSE NULL
=============================================================================
