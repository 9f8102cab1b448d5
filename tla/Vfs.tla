-------------------------------- MODULE Vfs --------------------------------
(***************************************************************************)
(* The virtual file system: the mount table, path resolution and the       *)
(* global file table of kernel/vfs.c over kernel/modules/fs/romfs.c, and   *)
(* the file tables of the processes as the system calls open, read, write, *)
(* execve and fork use them.                                               *)
(*                                                                         *)
(* An action is one system call, or one call of vfs_mount, and runs with   *)
(* interrupts masked.  Processes meet in the global table: a forked child  *)
(* has the entries of its parent, and execve opens and closes one of its   *)
(* own.  exit and close change no file table: process_exit has a comment   *)
(* where files should be closed, so a process that exited stays in procs   *)
(* with all it held, and the scheduler does not even pass over it.         *)
(*                                                                         *)
(* A romfs image is what its headers say: the kind and the size of each    *)
(* inode and the names in each directory.  A path that starts with a slash *)
(* is the sequence of what stands between its slashes, Nothing if nothing  *)
(* does.                                                                   *)
(***************************************************************************)
EXTENDS Integers, Sequences, FiniteSets

CONSTANTS
  MAX_GLOBAL_FILES, MAX_PROCESS_FILES, MAX_MOUNT_POINTS, MAX_ROMFS,
  Proc,        \* process numbers
  First,       \* the process main() starts
  Device,      \* block devices that hold a romfs
  RootDevice,  \* the one main() mounts on "/"
  InitIno,     \* the inode of /sbin/init
  Ino,         \* inodes; 0 is the root directory of an image
  Kind,        \* Kind[d][i]: "dir", "file" or "dev"
  Size,        \* Size[d][i]: st_size
  Rdev,        \* Rdev[d][i]: st_rdev of a device node
  Child,       \* Child[d][i]: the inodes of the names in directory i
  Console,     \* the device number of the console
  Registered,  \* the device numbers that are registered
  BlockSize,   \* the lengths of those that are memory blocks
  Paths,       \* the paths user code passes
  MountPaths,  \* the paths file systems are mounted on
  Counts,      \* the counts user code passes to read
  OpenBound    \* how far open_files may count: a bound of the model

ASSUME TableAssumption ==
  /\ MAX_GLOBAL_FILES \in Nat /\ MAX_GLOBAL_FILES >= 2
  /\ MAX_PROCESS_FILES \in Nat /\ MAX_PROCESS_FILES >= 3
  /\ MAX_MOUNT_POINTS \in Nat \ {0} /\ MAX_ROMFS \in Nat \ {0}
  /\ First \in Proc /\ OpenBound \in Nat

(* Device numbers start at major number 1, beyond every mount point.        *)
ASSUME ImageAssumption ==
  /\ RootDevice \in Device /\ Ino \subseteq Nat /\ 0 \in Ino
  /\ Kind \in [Device -> [Ino -> {"dir", "file", "dev"}]]
  /\ Size \in [Device -> [Ino -> Nat]]
  /\ Rdev \in [Device -> [Ino -> Nat]]
  /\ \A d \in Device : Kind[d][0] = "dir"
  /\ \A d \in Device, i \in Ino : Kind[d][i] = "dev" => Rdev[d][i] >= MAX_MOUNT_POINTS
  /\ Console \in Nat /\ Console >= MAX_MOUNT_POINTS
  /\ DOMAIN BlockSize \subseteq Registered \ {Console}
  /\ BlockSize \in [DOMAIN BlockSize -> Nat]
  /\ InitIno \in Ino /\ Kind[RootDevice][InitIno] = "file"
  /\ \A d \in Device, i \in Ino :
       \A name \in DOMAIN Child[d][i] : Child[d][i][name] \in Ino

(* A path that starts with a slash has at least one component, if only       *)
(* Nothing.                                                                 *)
ASSUME CallAssumption ==
  /\ \A path \in Paths \cup MountPaths : path \in Seq(STRING) /\ path # <<>>
  /\ Counts \subseteq Nat

None == -1          \* a free descriptor; no inode
Nothing == "/"      \* between two slashes: no name holds one
Entry  == 0 .. MAX_GLOBAL_FILES - 1
Fd     == 0 .. MAX_PROCESS_FILES - 1
Mp     == 0 .. MAX_MOUNT_POINTS - 1

ENOENT  == [err |-> "ENOENT"]
ENOTDIR == [err |-> "ENOTDIR"]
Found(m, i) == [err |-> "ok", mp |-> m, ino |-> i]

VARIABLES
  mount,   \* _vfs_mount, in the order of the table: where, and what is mounted
  opened,  \* opened[m]: its open_files
  file,    \* vfs_file
  procs,   \* the processes there are
  fd,      \* fd[p][k]: _process[p]->file[k]
  wild     \* the kernel followed an address nobody set

vars == <<mount, opened, file, procs, fd, wild>>

Mounted == 0 .. Len(mount) - 1
MountAt(m) == mount[m + 1]
DeviceOf(m) == MountAt(m).dev

-----------------------------------------------------------------------------
(* fs_romfs_stat: an empty name is the directory itself.                    *)
RomfsStat(m, dir, name) ==
  LET d == DeviceOf(m) IN
  IF name = Nothing THEN Found(m, dir)
  ELSE IF Kind[d][dir] # "dir" THEN ENOTDIR
  ELSE IF name \in DOMAIN Child[d][dir] THEN Found(m, Child[d][dir][name])
  ELSE ENOENT

(* _is_mountpoint: the first file system mounted on an inode. *)
MountedOn(m, i) ==
  {k \in Mounted : MountAt(k).on = <<DeviceOf(m), i>>}

(* _extract_component, called until the path ends: one trailing slash goes  *)
(* with the component before it, and all slashes after the first component  *)
(* are passed over.                                                         *)
Tokens(path) ==
  LET cut  == IF Len(path) > 1 /\ path[Len(path)] = Nothing
              THEN SubSeq(path, 1, Len(path) - 1) ELSE path
      keep == {k \in 1 .. Len(cut) :
                 k = 1 \/ \E j \in 2 .. k : cut[j] # Nothing}
      skip == Len(cut) - Cardinality(keep)
  IN  [k \in 1 .. Cardinality(keep) |-> IF k = 1 THEN cut[1] ELSE cut[k + skip]]

(* A faulty variant: the walk goes on at the number of the inode that is    *)
(* mounted on.                                                              *)
IntoSameInode(at) ==
  LET over == MountedOn(at.mp, at.ino) IN
  IF over # {} THEN Found(CHOOSE k \in over : \A j \in over : k <= j, at.ino)
  ELSE IF Kind[DeviceOf(at.mp)][at.ino] = "dir" THEN at
  ELSE ENOTDIR

(* What the loop of _resolv_ino makes of a component that is not the last:  *)
(* into what is mounted there, or into the directory.                       *)
Into(at) ==
  LET over == MountedOn(at.mp, at.ino) IN
  IF over # {} THEN Found(CHOOSE k \in over : \A j \in over : k <= j, 0)
  ELSE IF Kind[DeviceOf(at.mp)][at.ino] = "dir" THEN at
  ELSE ENOTDIR

Walk(tokens) ==
  LET at[k \in 1 .. Len(tokens)] ==
        LET from == IF k = 1 THEN Found(0, 0)
                    ELSE IF at[k - 1].err # "ok" THEN at[k - 1] ELSE Into(at[k - 1])
        IN  IF from.err # "ok" THEN from ELSE RomfsStat(from.mp, from.ino, tokens[k])
  IN  at[Len(tokens)]

ResolvIno(path) == Walk(Tokens(path))

-----------------------------------------------------------------------------
Free == {e \in Entry : ~file[e].used}

(* A faulty variant: the entry after the free one is returned. *)
AllocFileNext ==
  IF Free = {} THEN None
  ELSE (1 + CHOOSE e \in Free : \A f \in Free : e <= f) % MAX_GLOBAL_FILES

(* _alloc_file. *)
AllocFile == IF Free = {} THEN None ELSE CHOOSE e \in Free : \A f \in Free : e <= f

(* A file table entry.  inst is the union of the mount point and the device *)
(* number: an entry of a device holds the latter.                           *)
FileEntry(inst, ino, kind) ==
  [used |-> TRUE, ref |-> 1, inst |-> inst, ino |-> ino, kind |-> kind, pos |-> 0]

Never == [used |-> FALSE, ref |-> 0, inst |-> 0, ino |-> 0, kind |-> "file", pos |-> 0]

(* A faulty variant: the entry is not marked as used. *)
OpenEntryUnmarked(at) ==
  [FileEntry(at.mp, at.ino, Kind[DeviceOf(at.mp)][at.ino]) EXCEPT !.used = FALSE]

(* The entry vfs_open fills in. *)
OpenEntry(at) ==
  LET d == DeviceOf(at.mp) IN
  IF Kind[d][at.ino] = "dev"
  THEN FileEntry(Rdev[d][at.ino], at.ino, "dev")
  ELSE FileEntry(at.mp, at.ino, Kind[d][at.ino])

OpenFails(path) == ResolvIno(path).err # "ok" \/ AllocFile = None

(* main(): entry 0 is the console, entry 1 is /sbin/init, which was read to *)
(* its end and is never closed; the first process has the console as its    *)
(* standard files.                                                          *)
Init ==
  /\ mount = <<[on |-> <<None, None>>, dev |-> RootDevice]>>
  /\ opened = [m \in Mp |-> IF m = 0 THEN 1 ELSE 0]
  /\ file = [e \in Entry |->
               CASE e = 0 -> FileEntry(Console, None, "dev")
                 [] e = 1 -> [FileEntry(0, InitIno, "file")
                               EXCEPT !.pos = Size[RootDevice][InitIno]]
                 [] OTHER -> Never]
  /\ procs = {First}
  /\ fd = [p \in Proc |-> [k \in Fd |-> IF p = First /\ k < 3 THEN 0 ELSE None]]
  /\ wild = FALSE

-----------------------------------------------------------------------------
(* vfs_mount(d, path, "romfs").  The inode is the one the path names, also  *)
(* when something is mounted there already, and need not be a directory.    *)
MountPoint(path) ==
  LET at == ResolvIno(path) IN
  IF path = <<Nothing>> THEN <<None, None>> ELSE <<DeviceOf(at.mp), at.ino>>

(* The mount point the path leads through has one more open file. *)
CountUse(path) ==
  IF path = <<Nothing>> THEN opened
  ELSE [opened EXCEPT ![ResolvIno(path).mp] = @ + 1]

Mountable(path) ==
  /\ ~wild
  /\ Len(mount) < MAX_MOUNT_POINTS
  /\ path # <<Nothing>> => ResolvIno(path).err = "ok" /\ opened[ResolvIno(path).mp] < OpenBound

Mount(d, path) ==
  /\ Mountable(path)
  /\ Len(mount) < MAX_ROMFS
  /\ mount' = Append(mount, [on |-> MountPoint(path), dev |-> d])
  /\ opened' = [CountUse(path) EXCEPT ![Len(mount)] = 0]
  /\ UNCHANGED <<file, procs, fd, wild>>

(* The device holds no romfs, or all romfs instances are in use: the count  *)
(* is not taken back.                                                       *)
MountFails(path) ==
  /\ Mountable(path)
  /\ opened' = CountUse(path)
  /\ UNCHANGED <<mount, file, procs, fd, wild>>

-----------------------------------------------------------------------------
FreeFds(p) == {k \in Fd : fd[p][k] = None}

CountOpen(at) == [opened EXCEPT ![at.mp] = @ + 1]

(* syscall_open: a process with no free descriptor gets -EMFILE, and the    *)
(* entry stays open.                                                        *)
Open(p, path) ==
  /\ ~wild /\ p \in procs
  /\ ~OpenFails(path)
  /\ LET at == ResolvIno(path)
         k  == CHOOSE k \in FreeFds(p) : \A j \in FreeFds(p) : k <= j
     IN  /\ opened[at.mp] < OpenBound
         /\ file' = [file EXCEPT ![AllocFile] = OpenEntry(at)]
         /\ opened' = CountOpen(at)
         /\ fd' = IF FreeFds(p) = {} THEN fd ELSE [fd EXCEPT ![p][k] = AllocFile]
  /\ UNCHANGED <<mount, procs, wild>>

(* A faulty variant: the count asked for is added to the position. *)
BytesReadAsked(e, count) == count

(* A directory is not read, nor is the console or a device that is not      *)
(* registered.                                                              *)
Readable(x) == x.kind = "file" \/ (x.kind = "dev" /\ x.inst \in DOMAIN BlockSize)

SizeOf(x) == IF x.kind = "dev" THEN BlockSize[x.inst] ELSE Size[DeviceOf(x.inst)][x.ino]

(* fs_romfs_read and memblk_read: what is left of the file, or of the       *)
(* memory, when that is less than asked.                                    *)
BytesRead(e, count) ==
  IF file[e].pos + count > SizeOf(file[e]) THEN SizeOf(file[e]) - file[e].pos ELSE count

(* syscall_read.  What cannot be read answers with an error. *)
Read(p, k, count) ==
  /\ ~wild /\ p \in procs /\ fd[p][k] # None
  /\ LET e == fd[p][k] IN
       /\ file[e].used /\ Readable(file[e])
       /\ BytesRead(e, count) > 0
       /\ file' = [file EXCEPT ![e].pos = @ + BytesRead(e, count)]
  /\ UNCHANGED <<mount, opened, procs, fd, wild>>

(* syscall_write to a device that is not registered: the NULL that          *)
(* device_lookup returns is followed.  Other writes leave the tables alone. *)
WriteNoDevice(p, k) ==
  /\ ~wild /\ p \in procs /\ fd[p][k] # None
  /\ LET x == file[fd[p][k]] IN x.kind = "dev" /\ x.inst \notin Registered
  /\ wild' = TRUE
  /\ UNCHANGED <<mount, opened, file, procs, fd>>

(* _fork copies the descriptors, and counts no reference. *)
Fork(p, q) ==
  /\ ~wild /\ p \in procs /\ q \notin procs
  /\ procs' = procs \cup {q}
  /\ fd' = [fd EXCEPT ![q] = fd[p]]
  /\ UNCHANGED <<mount, opened, file, wild>>

(* A faulty variant: only the reference is given up. *)
CloseEntryKept(x) == [x EXCEPT !.ref = @ - 1]

(* vfs_close of an entry. *)
CloseEntry(x) == [x EXCEPT !.ref = @ - 1, !.used = x.ref # 1]

(* _execve opens the file, seeks to its end for its size, reads it whole    *)
(* and closes it again: of the counts nothing is left.                      *)
Execve(p, path) ==
  /\ ~wild /\ p \in procs
  /\ ~OpenFails(path)
  /\ LET x == OpenEntry(ResolvIno(path))
         y == IF x.kind = "file" THEN [x EXCEPT !.pos = SizeOf(x)] ELSE x
     IN  x.kind # "dev" /\ file' = [file EXCEPT ![AllocFile] = CloseEntry(y)]
  /\ UNCHANGED <<mount, opened, procs, fd, wild>>

(* The error vfs_open returns indexes the file table; the device number of  *)
(* a device, which vfs_seek takes for its mount point, indexes the mounts.  *)
ExecveHalts(p, path) ==
  /\ ~wild /\ p \in procs
  /\ ~OpenFails(path) => OpenEntry(ResolvIno(path)).kind = "dev"
  /\ wild' = TRUE
  /\ UNCHANGED <<mount, opened, file, procs, fd>>

(* Nothing more is said of a kernel that followed such an address. *)
Wild == wild /\ UNCHANGED vars

-----------------------------------------------------------------------------
Next ==
  \/ \E d \in Device, path \in MountPaths : Mount(d, path)
  \/ \E path \in MountPaths : MountFails(path)
  \/ \E p \in Proc, path \in Paths : Open(p, path)
  \/ \E p \in Proc, k \in Fd, count \in Counts : Read(p, k, count)
  \/ \E p \in Proc, k \in Fd : WriteNoDevice(p, k)
  \/ \E p, q \in Proc : Fork(p, q)
  \/ \E p \in Proc, path \in Paths : Execve(p, path)
  \/ \E p \in Proc, path \in Paths : ExecveHalts(p, path)
  \/ Wild

Spec == Init /\ [][Next]_vars

-----------------------------------------------------------------------------
(* Every descriptor a process holds leads to an open entry, also after the  *)
(* process that opened it has forked and any of them has called execve:     *)
(* vfs_write does not test this.                                            *)
FdsOpen == \A p \in Proc, k \in Fd : fd[p][k] # None => file[fd[p][k]].used

(* No position lies behind the end of its file or memory block, whoever     *)
(* shares it: the subtraction in fs_romfs_read does not wrap.               *)
PosInside ==
  \A e \in Entry : file[e].used /\ Readable(file[e]) => file[e].pos <= SizeOf(file[e])

(* An entry in use keeps its file: nobody finds another one under the       *)
(* descriptor that open returned.                                           *)
EntriesKeepTheirFile ==
  [][\A e \in Entry :
       file[e].used => /\ file'[e].inst = file[e].inst /\ file'[e].ino = file[e].ino
                       /\ file'[e].pos >= file[e].pos]_vars

(* An entry that no descriptor leads to, the one of /sbin/init apart, was   *)
(* opened by a process that had no descriptor left.  The descriptors of     *)
(* processes that have exited count: what they lead to is never closed.     *)
OrphansNeedFullTable ==
  (\E e \in Entry \ {0, 1} : file[e].used /\ \A p \in Proc, k \in Fd : fd[p][k] # e)
    => \E p \in procs : FreeFds(p) = {}

-----------------------------------------------------------------------------
(* The reference for path resolution: empty components mean nothing, what   *)
(* is mounted on an inode hides it at every component, and a trailing slash *)
(* asks for a directory.                                                    *)
Hidden(at) ==
  IF at.err # "ok" THEN at
  ELSE LET over == {k \in Mounted : MountAt(k).on = <<DeviceOf(at.mp), at.ino>>} IN
       IF over = {} THEN at ELSE Found(CHOOSE k \in over : \A j \in over : k <= j, 0)

Reference(path) ==
  LET at[k \in 0 .. Len(path)] ==
        IF k = 0 THEN Found(0, 0)
        ELSE IF path[k] = Nothing \/ at[k - 1].err # "ok" THEN at[k - 1]
        ELSE Hidden(RomfsStat(at[k - 1].mp, at[k - 1].ino, path[k]))
      end == at[Len(path)]
  IN  IF /\ end.err = "ok" /\ path[Len(path)] = Nothing
         /\ Kind[DeviceOf(end.mp)][end.ino] # "dir"
      THEN ENOTDIR ELSE end

Agrees(path) ==
  \/ Hidden(ResolvIno(path)) = Reference(path)
  \/ /\ path[Len(path)] = Nothing /\ Reference(path) = ENOTDIR
     /\ Kind[DeviceOf(ResolvIno(path).mp)][ResolvIno(path).ino] # "dir"

(* Nothing is mounted on the root directory of an image: a path with        *)
(* repeated slashes leads there, and what it finds then depends on how many *)
(* slashes it has.                                                          *)
RootsUncovered == \A k \in Mounted : MountAt(k).on[2] # 0

(* _resolv_ino finds what the reference finds, under every set of mounts    *)
(* that leaves the roots uncovered, but for two things: the last component  *)
(* is not followed into what is mounted there, and a file may be named with *)
(* a trailing slash.                                                        *)
ResolveAgrees == RootsUncovered => \A path \in Paths : Agrees(path)
=============================================================================
