------------------------------- MODULE YukiFS -------------------------------
(***************************************************************************)
(* The YukiFS kernel module at run time: src/src/ko/file.c, misc.c and the *)
(* mount of inode.c, on a volume that mkfs has laid out.                   *)
(*                                                                         *)
(* Grain of atomicity.  yukifs_blocks_read and yukifs_blocks_write move    *)
(* one block at a time and may sleep at each; a step of this module is one *)
(* such block access with the computation that follows it, up to the next  *)
(* access.  The stores of yukifs_write and yukifs_update_statfs to shared  *)
(* memory are steps of their own.  A block that was written is on the disk *)
(* (sync_dirty_buffer).                                                    *)
(*                                                                         *)
(* External, modelled from how the code uses it: the VFS.  It calls create *)
(* and unlink with the directory locked, lookup with it locked for         *)
(* sharing, and read and write with no lock but the position lock of the   *)
(* descriptor; it keeps dentries, drops them under pressure, and frees an  *)
(* inode when neither a dentry nor a descriptor holds it.                  *)
(***************************************************************************)
EXTENDS DiskObjects

CONSTANTS
    Threads,    \* callers that may be inside the module together
    Fds,        \* file descriptors
    Vnodes,     \* in-memory inodes
    None,       \* no inode, no dentry
    Negative,   \* a cached dentry that has no inode
    Lens,       \* word counts that programs pass to write
    MaxEnd,     \* bound: no write ends beyond this word
    Env,        \* what the environment does: see EnvKinds
    Recycle     \* what freed memory may be found to hold: see Recycled

(* "crash": power is lost at any step.  "fault": a block access fails.     *)
(* "unlink_open": files are removed while a descriptor holds them.         *)
(* "truncate": files are opened with O_TRUNC.  "create_again": a name is   *)
(* created that is there already, which the cache holds for removed (rm a; *)
(* touch a; touch a): without it no program makes that last call.          *)
EnvKinds == {"crash", "fault", "unlink_open", "truncate", "create_again"}

ASSUME VnodesAssumption ==
    None \notin Vnodes /\ Negative \notin Vnodes /\ None # Negative
ASSUME BoundsAssumption == Lens \subseteq Nat /\ MaxEnd \in Nat
ASSUME EnvAssumption == Env \subseteq EnvKinds /\ Recycle \subseteq {"table", "zero"}

VARIABLES
    itable,     \* disk: the inode table
    block,      \* disk: the data blocks, block 0 is the directory's
    super,      \* disk: block_free of the superblock (free_inodes is equal)
    mounted,    \* memory: the volume is mounted
    sbi,        \* memory: block_free of s_fs_info
    rootfo,     \* memory: i_private of the root inode
    dentry,     \* memory: what the VFS has cached for each name
    vnode,      \* memory: the inodes that lookup has made
    file,       \* memory: the descriptors
    pc,         \* where each thread is in the module
    loc         \* the local variables of each thread's handler

disk   == <<itable, block, super>>
memory == <<mounted, sbi, rootfo, dentry, vnode, file>>
vars   == <<itable, block, super, mounted, sbi, rootfo, dentry, vnode, file, pc, loc>>

(* idx is where in the table buffer i_private points.                      *)
Vnode     == [fo : FileObject, i_size : Nat, idx : Inode]
FreeVnode == [fo |-> FreeObject, i_size |-> 0, idx |-> 0]

File   == [v : Vnodes \cup {None}, pos : Nat, app : BOOLEAN]
Closed == [v |-> None, pos |-> 0, app |-> FALSE]

Loc == [op : {"none", "create", "unlink", "write"},
        name : Names \cup {NoName},
        v    : Vnodes \cup {None},  \* the inode of write and unlink
        fd   : Fds \cup {None},
        blk  : Inode,                 \* the data block write and unlink touch
        end  : Nat,                 \* offset after the write
        tbl  : [Inode -> FileObject], \* inode_table buffer
        buf  : Block,               \* block_buf, or the directory's data_block
        fo   : FileObject,          \* what create passes to update_statfs
        k    : Clusters,            \* block of the table next to be accessed
        used : 0 .. N]              \* objects in use in the table written
NoLoc == [op |-> "none", name |-> NoName, v |-> None, fd |-> None, blk |-> 0,
          end |-> 0, tbl |-> FreeTable, buf |-> ZeroBlock, fo |-> FreeObject,
          k |-> 0, used |-> 0]

CreateLabels == {"cr_read", "cr_dir", "cr_wdir", "cr_wtab"}
UnlinkLabels == {"ul_dir", "ul_wdir"}
WriteLabels  == {"wr_block", "wr_size"}
StatLabels   == {"us_read", "us_write", "us_reset", "us_count", "us_super"}
Labels == {"idle", "ret"} \cup CreateLabels \cup UnlinkLabels
                          \cup WriteLabels \cup StatLabels

TypeOK ==
    /\ itable \in [Inode -> FileObject]
    /\ block \in [Inode -> Block]
    /\ super \in 0 .. U - 1 /\ sbi \in 0 .. U - 1
    /\ mounted \in BOOLEAN
    /\ rootfo \in FileObject
    /\ dentry \in [Names -> Vnodes \cup {None, Negative}]
    /\ vnode \in [Vnodes -> Vnode]
    /\ file \in [Fds -> File]
    /\ pc \in [Threads -> Labels]
    /\ loc \in [Threads -> Loc]
-----------------------------------------------------------------------------
(* The inode lock of the directory is held from the first step of create   *)
(* or unlink to the last.                                                  *)
DirBusy == \E t \in Threads : loc[t].op \in {"create", "unlink"}

IsOpen(fd) == file[fd].v # None
FdsOf(v)   == {fd \in Fds : file[fd].v = v}
Busy(fd)   == \E t \in Threads : loc[t].fd = fd
InCache(v) == \E n \in Names : dentry[n] = v
FreeVnodes == {v \in Vnodes : ~InCache(v) /\ FdsOf(v) = {}}

(* The directory block as the handlers see it: they read size / block_size *)
(* blocks into a buffer, and none of it is filled when that is zero.       *)
DirReads == IF rootfo.size \div W = 0 THEN [Slot -> Word]
                                      ELSE {block[rootfo.first_block]}

(* The file object that update_statfs is handed. *)
StatObject(t) == IF loc[t].op = "create" THEN loc[t].fo ELSE vnode[loc[t].v].fo

(* A thread goes on to label l with locals r. *)
Move(t, l, r) ==
    /\ pc' = [pc EXCEPT ![t] = l]
    /\ loc' = [loc EXCEPT ![t] = r]
Return(t) == Move(t, "idle", NoLoc)

(* The inodes with v freed, unless something still holds it. *)
Drop(vn, v, held) == IF held \/ v \notin Vnodes THEN vn
                                                ELSE [vn EXCEPT ![v] = FreeVnode]
-----------------------------------------------------------------------------
(* A lookup that finds the name makes an inode over its file object.  One  *)
(* that does not find it adds no dentry: it leaves the state as it was.    *)
Lookup(n) ==
    /\ mounted /\ ~DirBusy /\ dentry[n] = None
    /\ \E dir \in DirReads, v \in FreeVnodes :
         \E s \in SlotsOf(dir, itable, n) :
           /\ IsFirst(s, SlotsOf(dir, itable, n))
           /\ dentry' = [dentry EXCEPT ![n] = v]
           /\ vnode' = [vnode EXCEPT ![v] = [fo |-> itable[dir[s]],
                                             i_size |-> itable[dir[s]].size,
                                             idx |-> dir[s]]]
    /\ UNCHANGED <<disk, mounted, sbi, rootfo, file, pc, loc>>

(* yukifs_open sets the position; then the VFS carries out O_TRUNC, which  *)
(* reaches the in-memory i_size and nothing else.                          *)
Open(fd, n, app, trunc) ==
    /\ dentry[n] \in Vnodes /\ ~IsOpen(fd)
    /\ trunc => "truncate" \in Env
    /\ "unlink_open" \in Env \/ ~\E t \in Threads : loc[t].v = dentry[n] /\ loc[t].op = "unlink"
    /\ file' = [file EXCEPT ![fd] = [v |-> dentry[n], app |-> app,
                                     pos |-> IF app THEN vnode[dentry[n]].i_size ELSE 0]]
    /\ vnode' = IF trunc THEN [vnode EXCEPT ![dentry[n]].i_size = 0] ELSE vnode
    /\ UNCHANGED <<disk, mounted, sbi, rootfo, dentry, pc, loc>>

Close(fd) ==
    /\ IsOpen(fd) /\ ~Busy(fd)
    /\ file' = [file EXCEPT ![fd] = Closed]
    /\ vnode' = Drop(vnode, file[fd].v,
                     InCache(file[fd].v) \/ FdsOf(file[fd].v) # {fd})
    /\ UNCHANGED <<disk, mounted, sbi, rootfo, dentry, pc, loc>>

(* A read moves the position to the end of the file when it asks for more  *)
(* than is left; asked for that much or less, it returns 0 bytes.          *)
Read(fd) ==
    /\ IsOpen(fd) /\ ~Busy(fd)
    /\ file[fd].pos =< vnode[file[fd].v].i_size
    /\ file' = [file EXCEPT ![fd].pos = vnode[file[fd].v].i_size]
    /\ UNCHANGED <<disk, mounted, sbi, rootfo, dentry, vnode, pc, loc>>
-----------------------------------------------------------------------------
(* write: check the offset, read the old block, build the new one.  The    *)
(* code cuts the length to that of a block and does not look where in the  *)
(* block the write begins (file.c 551); the bound MaxEnd does.             *)
WriteBegin(t, fd, len, d) ==
    LET f   == file[fd]
        fo  == vnode[f.v].fo
        end == f.pos + (IF len > W THEN W ELSE len)
    IN  /\ pc[t] = "idle" /\ IsOpen(fd) /\ ~Busy(fd)
        /\ f.pos =< vnode[f.v].i_size
        /\ end =< MaxEnd
        /\ Move(t, "wr_block",
                [NoLoc EXCEPT !.op = "write", !.v = f.v, !.fd = fd,
                              !.blk = fo.first_block, !.end = end,
                              !.buf = WriteBuffer(block[fo.first_block], f.app,
                                                  fo.size, f.pos, end, d)])
        /\ UNCHANGED <<disk, memory>>

WriteBlock(t) ==
    /\ pc[t] = "wr_block"
    /\ block' = [block EXCEPT ![loc[t].blk] = loc[t].buf]
    /\ Move(t, "wr_size", [loc[t] EXCEPT !.buf = ZeroBlock])
    /\ UNCHANGED <<itable, super, memory>>

WriteSize(t) ==
    /\ pc[t] = "wr_size"
    /\ vnode' = [vnode EXCEPT ![loc[t].v].i_size = loc[t].end,
                              ![loc[t].v].fo.size = loc[t].end]
    /\ file' = [file EXCEPT ![loc[t].fd].pos = loc[t].end]
    /\ Move(t, "us_read", loc[t])
    /\ UNCHANGED <<disk, mounted, sbi, rootfo, dentry>>

WriteReturn(t) ==
    /\ pc[t] = "ret" /\ loc[t].op = "write"
    /\ Return(t)
    /\ UNCHANGED <<disk, memory>>
-----------------------------------------------------------------------------
(* create: the VFS calls it for a name that a lookup does not find, and,   *)
(* without a lookup, for one whose dentry is negative.  create does not    *)
(* make the dentry positive, so that it hides the new file.                *)
CreateBegin(t, n) ==
    /\ pc[t] = "idle" /\ mounted /\ ~DirBusy /\ dentry[n] \in {None, Negative}
    /\ \/ \E dir \in DirReads : SlotsOf(dir, itable, n) = {}
       \/ dentry[n] = Negative /\ "create_again" \in Env
    /\ Move(t, "cr_read", [NoLoc EXCEPT !.op = "create", !.name = n])
    /\ UNCHANGED <<disk, memory>>

CreateReadTable(t) ==
    LET k   == loc[t].k
        tbl == CopyCluster(loc[t].tbl, itable, k)
    IN  /\ pc[t] = "cr_read"
        /\ IF k < LastCluster
           THEN Move(t, "cr_read", [loc[t] EXCEPT !.k = k + 1, !.tbl = tbl])
           ELSE Move(t, "cr_dir", [loc[t] EXCEPT !.k = 0, !.tbl = tbl])
        /\ UNCHANGED <<disk, memory>>

(* Read the directory, take its first empty slot and the first free inode. *)
CreateReadDir(t) ==
    /\ pc[t] = "cr_dir"
    /\ \E dir \in DirReads, s \in Slot, i \in Inode :
         /\ IsFirst(s, EmptySlots(dir))
         /\ IsFirst(i, FreeInodes(loc[t].tbl))
         /\ Move(t, "cr_wdir",
                 [loc[t] EXCEPT !.tbl = [@ EXCEPT ![i] = NewObject(i, loc[t].name)],
                                !.buf = [dir EXCEPT ![s] = i]])
    /\ UNCHANGED <<disk, memory>>

CreateNoSpace(t) ==
    /\ pc[t] = "cr_dir"
    /\ \E dir \in DirReads : NoSpace(dir, loc[t].tbl)
    /\ Return(t)
    /\ UNCHANGED <<disk, memory>>

(* The directory goes to the disk before the inode table. *)
CreateWriteDir(t) ==
    /\ pc[t] = "cr_wdir"
    /\ rootfo.size \div W > 0
    /\ block' = [block EXCEPT ![rootfo.first_block] = loc[t].buf]
    /\ Move(t, "cr_wtab", [loc[t] EXCEPT !.buf = ZeroBlock])
    /\ UNCHANGED <<itable, super, memory>>

CreateWriteTable(t) ==
    LET k == loc[t].k
    IN  /\ pc[t] = "cr_wtab"
        /\ itable' = CopyCluster(itable, loc[t].tbl, k)
        /\ IF k < LastCluster
           THEN Move(t, "cr_wtab", [loc[t] EXCEPT !.k = k + 1])
           ELSE Move(t, "us_read", [loc[t] EXCEPT !.k = 0, !.tbl = FreeTable,
                                                  !.fo = loc[t].tbl[0]])
        /\ UNCHANGED <<block, super, memory>>

(* Nothing gives the dentry an inode: it is as it was before the call.     *)
CreateReturn(t) ==
    /\ pc[t] = "ret" /\ loc[t].op = "create"
    /\ Return(t)
    /\ UNCHANGED <<disk, memory>>
-----------------------------------------------------------------------------
(* Slip: the data block keeps what it holds. *)
BadUnlinkBegin(t, n) ==
    LET v == dentry[n]
    IN  /\ pc[t] = "idle" /\ mounted /\ ~DirBusy /\ v \in Vnodes
        /\ "unlink_open" \in Env \/ FdsOf(v) = {}
        /\ Move(t, "ul_dir", [NoLoc EXCEPT !.op = "unlink", !.name = n, !.v = v,
                                           !.blk = vnode[v].fo.first_block])
        /\ UNCHANGED <<disk, memory>>

(* unlink: first the data block of the file is zeroed.  *)
UnlinkBegin(t, n) ==
    LET v == dentry[n]
    IN  /\ pc[t] = "idle" /\ mounted /\ ~DirBusy /\ v \in Vnodes
        /\ "unlink_open" \in Env \/ FdsOf(v) = {}
        /\ block' = [block EXCEPT ![vnode[v].fo.first_block] = ZeroBlock]
        /\ Move(t, "ul_dir", [NoLoc EXCEPT !.op = "unlink", !.name = n, !.v = v,
                                           !.blk = vnode[v].fo.first_block])
        /\ UNCHANGED <<itable, super, memory>>

UnlinkReadDir(t) ==
    /\ pc[t] = "ul_dir"
    /\ \E dir \in DirReads, s \in Slot :
         /\ IsFirst(s, EntrySlots(dir, loc[t].blk))
         /\ Move(t, "ul_wdir", [loc[t] EXCEPT !.buf = [dir EXCEPT ![s] = 0]])
    /\ UNCHANGED <<disk, memory>>

UnlinkNoEntry(t) ==
    /\ pc[t] = "ul_dir"
    /\ \E dir \in DirReads : EntrySlots(dir, loc[t].blk) = {}
    /\ Return(t)
    /\ UNCHANGED <<disk, memory>>

(* Slip: update_statfs is handed the size the file had. *)
BadUnlinkWriteDir(t) ==
    /\ pc[t] = "ul_wdir"
    /\ rootfo.size \div W > 0
    /\ block' = [block EXCEPT ![rootfo.first_block] = loc[t].buf]
    /\ Move(t, "us_read", [loc[t] EXCEPT !.buf = ZeroBlock])
    /\ UNCHANGED <<itable, super, memory>>

UnlinkWriteDir(t) ==
    /\ pc[t] = "ul_wdir"
    /\ rootfo.size \div W > 0
    /\ block' = [block EXCEPT ![rootfo.first_block] = loc[t].buf]
    /\ vnode' = [vnode EXCEPT ![loc[t].v].fo.size = 0]
    /\ Move(t, "us_read", [loc[t] EXCEPT !.buf = ZeroBlock])
    /\ UNCHANGED <<itable, super, mounted, sbi, rootfo, dentry, file>>

(* d_delete: a dentry that only the cache holds turns negative, one that a *)
(* descriptor holds is dropped and the descriptor keeps the inode.         *)
UnlinkReturn(t) ==
    LET v    == loc[t].v
        open == FdsOf(v) # {}
    IN  /\ pc[t] = "ret" /\ loc[t].op = "unlink"
        /\ dentry' = [dentry EXCEPT ![loc[t].name] = IF open THEN None ELSE Negative]
        /\ vnode' = Drop(vnode, v, open)
        /\ Return(t)
        /\ UNCHANGED <<disk, mounted, sbi, rootfo, file>>
-----------------------------------------------------------------------------
(* yukifs_update_statfs, the end of each of the three.  *)
StatReadTable(t) ==
    LET k   == loc[t].k
        tbl == CopyCluster(loc[t].tbl, itable, k)
    IN  /\ pc[t] = "us_read"
        /\ IF k < LastCluster
           THEN Move(t, "us_read", [loc[t] EXCEPT !.k = k + 1, !.tbl = tbl])
           ELSE Move(t, "us_write",
                     [loc[t] EXCEPT !.k = 0, !.tbl = UpdateSizes(tbl, StatObject(t))])
        /\ UNCHANGED <<disk, memory>>

(* The count below is over the buffer just freed, which holds what was     *)
(* written unless it has been handed out again.                            *)
StatWriteTable(t) ==
    LET k == loc[t].k
    IN  /\ pc[t] = "us_write"
        /\ itable' = CopyCluster(itable, loc[t].tbl, k)
        /\ IF k < LastCluster
           THEN Move(t, "us_write", [loc[t] EXCEPT !.k = k + 1])
           ELSE \E used \in IF Recycle = {} THEN {InUse(loc[t].tbl)} ELSE 0 .. N :
                  Move(t, "us_reset", [loc[t] EXCEPT !.k = 0, !.tbl = FreeTable,
                                                     !.used = used])
        /\ UNCHANGED <<block, super, memory>>

StatReset(t) ==
    /\ pc[t] = "us_reset"
    /\ sbi' = N
    /\ Move(t, "us_count", loc[t])
    /\ UNCHANGED <<disk, mounted, rootfo, dentry, vnode, file>>

StatCount(t) ==
    /\ pc[t] = "us_count"
    /\ sbi' = CountDown(sbi, loc[t].used)
    /\ Move(t, "us_super", [loc[t] EXCEPT !.used = 0])
    /\ UNCHANGED <<disk, mounted, rootfo, dentry, vnode, file>>

StatWriteSuper(t) ==
    /\ pc[t] = "us_super"
    /\ super' = sbi
    /\ Move(t, "ret", loc[t])
    /\ UNCHANGED <<itable, block, memory>>
-----------------------------------------------------------------------------
(* yukifs_blocks_write refuses to write no blocks, which is what a root     *)
(* directory shorter than a block asks for.                                *)
NoBlocks(t) ==
    /\ pc[t] \in {"cr_wdir", "ul_wdir"}
    /\ rootfo.size \div W = 0
    /\ Return(t)
    /\ UNCHANGED <<disk, memory>>

(* A block access that fails.  Before update_statfs it ends the call with  *)
(* an error; the result of update_statfs is ignored.                       *)
OpFails(t) ==
    /\ pc[t] \in CreateLabels \cup UnlinkLabels \cup {"wr_block"} /\ "fault" \in Env
    /\ Return(t)
    /\ UNCHANGED <<disk, memory>>

StatFails(t) ==
    /\ pc[t] \in {"us_read", "us_write", "us_super"} /\ "fault" \in Env
    /\ Move(t, "ret", [loc[t] EXCEPT !.k = 0, !.tbl = FreeTable])
    /\ UNCHANGED <<disk, memory>>
-----------------------------------------------------------------------------
(* The VFS drops a cached dentry that nobody uses. *)
Evict(n) ==
    /\ dentry[n] # None /\ FdsOf(dentry[n]) = {}
    /\ ~\E t \in Threads : loc[t].name = n
    /\ dentry' = [dentry EXCEPT ![n] = None]
    /\ vnode' = Drop(vnode, dentry[n], FALSE)
    /\ UNCHANGED <<disk, mounted, sbi, rootfo, file, pc, loc>>

(* i_private points into a buffer that lookup has freed.  When the memory  *)
(* is handed out again it comes to hold another reading of the table, or a *)
(* cleared buffer.                                                         *)
Recycled(v) ==
    /\ vnode[v].idx # 0
    /\ \E fo \in (IF "table" \in Recycle THEN {itable[vnode[v].idx]} ELSE {})
                 \cup (IF "zero" \in Recycle THEN {FreeObject} ELSE {}) :
         vnode' = [vnode EXCEPT ![v].fo = fo]
    /\ UNCHANGED <<disk, mounted, sbi, rootfo, dentry, file, pc, loc>>

MemoryLost ==
    /\ mounted' = FALSE
    /\ sbi' = 0
    /\ rootfo' = FreeObject
    /\ dentry' = [n \in Names |-> None]
    /\ vnode' = [v \in Vnodes |-> FreeVnode]
    /\ file' = [fd \in Fds |-> Closed]
    /\ pc' = [t \in Threads |-> "idle"]
    /\ loc' = [t \in Threads |-> NoLoc]
    /\ UNCHANGED disk

Crash   == "crash" \in Env /\ mounted /\ MemoryLost
Unmount == /\ mounted
           /\ \A t \in Threads : pc[t] = "idle"
           /\ \A fd \in Fds : ~IsOpen(fd)
           /\ MemoryLost

(* yukifs_fill_super and yukifs_init_root; only a directory can be the     *)
(* root of a mount.                                                        *)
Mount ==
    /\ ~mounted /\ itable[0].descriptor = "dir"
    /\ mounted' = TRUE
    /\ sbi' = super
    /\ rootfo' = itable[0]
    /\ UNCHANGED <<disk, dentry, vnode, file, pc, loc>>
-----------------------------------------------------------------------------
Init ==
    /\ itable = FreshTable
    /\ block = [i \in Inode |-> ZeroBlock]
    /\ super = N - 1
    /\ mounted = FALSE /\ sbi = 0 /\ rootfo = FreeObject
    /\ dentry = [n \in Names |-> None]
    /\ vnode = [v \in Vnodes |-> FreeVnode]
    /\ file = [fd \in Fds |-> Closed]
    /\ pc = [t \in Threads |-> "idle"]
    /\ loc = [t \in Threads |-> NoLoc]

(* The steps of a thread that is inside the module, when all goes well. *)
Work(t) ==
    \/ WriteBlock(t) \/ WriteSize(t) \/ WriteReturn(t)
    \/ CreateReadTable(t) \/ CreateReadDir(t) \/ CreateNoSpace(t)
    \/ CreateWriteDir(t) \/ CreateWriteTable(t) \/ CreateReturn(t)
    \/ UnlinkReadDir(t) \/ UnlinkNoEntry(t) \/ UnlinkWriteDir(t) \/ UnlinkReturn(t)
    \/ StatReadTable(t) \/ StatWriteTable(t)
    \/ StatReset(t) \/ StatCount(t) \/ StatWriteSuper(t)
    \/ NoBlocks(t)
Step(t) == Work(t) \/ OpFails(t) \/ StatFails(t)

(* The calls that programs make. *)
Call ==
    \/ \E n \in Names : Lookup(n)
    \/ \E fd \in Fds, n \in Names, app, trunc \in BOOLEAN : Open(fd, n, app, trunc)
    \/ \E fd \in Fds : Close(fd) \/ Read(fd)
    \/ \E t \in Threads, fd \in Fds, len \in Lens, d \in Data : WriteBegin(t, fd, len, d)
    \/ \E t \in Threads, n \in Names : CreateBegin(t, n) \/ UnlinkBegin(t, n)

Environment ==
    \/ \E n \in Names : Evict(n)
    \/ \E v \in Vnodes : Recycled(v)
    \/ Crash \/ Unmount \/ Mount

Next == Call \/ (\E t \in Threads : Step(t)) \/ Environment

Spec == Init /\ [][Next]_vars

(* A handler that has been entered runs on: the kernel schedules the       *)
(* thread, and no handler waits for another.  Nobody has to call, and no   *)
(* block access has to fail.                                               *)
FairSpec == Spec /\ \A t \in Threads : WF_vars(Work(t))
-----------------------------------------------------------------------------
Quiet == \A t \in Threads : pc[t] = "idle"

(* A name is visible when the directory has a slot for an inode of it. *)
Visible(n) == SlotsOf(block[0], itable, n) # {}

(* The root directory's file object on disk is never changed, whatever is  *)
(* created, written and removed and wherever that stops: update_statfs     *)
(* rewrites the whole table on every operation and picks entries by name.  *)
RootIntact == itable[0] = Root

(* A used inode always names its own data block, so that no two files      *)
(* share a block: create, update_statfs and stale copies of the table      *)
(* never put an object in another's place.                                 *)
OwnBlock == \A i \in Inode : itable[i].in_use = 1 => itable[i].first_block = i

(* The directory is written back whole from a copy read earlier, yet each  *)
(* write fills one empty slot or empties one slot: no entry made by        *)
(* another call is ever lost or revived (file.c 281 and 496).              *)
NoLostEntry ==
    [][block'[0] # block[0] =>
         \E s \in Slot : /\ block[0][s] = 0 \/ block'[0][s] = 0
                         /\ \A x \in Slot \ {s} : block'[0][x] = block[0][x]]_vars

(* Between calls the free counter of the mounted superblock, the one on    *)
(* disk and the table agree (file.c 690-710).                              *)
CountsMatch ==
    mounted /\ Quiet =>
        sbi = super /\ super = N - Cardinality({i \in Inode : itable[i].in_use = 1})

(* Between calls every slot of the directory is empty or names an inode in *)
(* use that no other slot names.                                           *)
DirSound ==
    Quiet => \A s \in Slot : block[0][s] # 0 =>
                /\ block[0][s] \in Inode /\ itable[block[0][s]].in_use = 1
                /\ \A x \in Slot \ {s} : block[0][x] # block[0][s]

(* Between calls a cached inode holds what the disk holds for its name:    *)
(* the copy in memory and the table are updated together.                  *)
CacheCoherent ==
    Quiet => \A n \in Names : dentry[n] \in Vnodes =>
                \E s \in SlotsOf(block[0], itable, n) :
                    itable[block[0][s]] = vnode[dentry[n]].fo

(* Only create and unlink of a name change whether it is visible, even     *)
(* when calls fail half way or the power goes: no operation on one file    *)
(* makes another appear or vanish.                                         *)
NameStep ==
    [][\A n \in Names : Visible(n)' # Visible(n) =>
         \E t \in Threads : loc[t].op \in {"create", "unlink"} /\ loc[t].name = n]_vars

(* When create reports success the name is visible on the disk. *)
CreateTakesEffect ==
    \A t \in Threads : pc[t] = "ret" /\ loc[t].op = "create" => Visible(loc[t].name)

(* When unlink reports success the name is gone from the disk. *)
UnlinkTakesEffect ==
    \A t \in Threads : pc[t] = "ret" /\ loc[t].op = "unlink" => ~Visible(loc[t].name)

(* Two cached inodes never write to the same data block: an inode that is  *)
(* allocated is not one that somebody still holds, where no open file is   *)
(* removed.                                                                *)
BlockOwner ==
    \A v, w \in Vnodes : v \notin FreeVnodes /\ w \notin FreeVnodes /\ v # w =>
        vnode[v].fo.first_block # vnode[w].fo.first_block

(* A write through an O_APPEND descriptor leaves every word in front of    *)
(* its position as it was: f_pos, i_size and fo->size, which three calls   *)
(* set in different places, fit together (file.c 592-598).                 *)
AppendKeepsPrefix ==
    [][\A t \in Threads :
         pc[t] = "wr_block" /\ pc'[t] = "wr_size" /\ file[loc[t].fd].app =>
            \A s \in Slot : s < file[loc[t].fd].pos =>
                block'[loc[t].blk][s] = block[loc[t].blk][s]]_vars

(* Every call that is entered returns: with the directory or the table     *)
(* full, with a directory too short to be written back, and whatever the   *)
(* other callers do to the table while update_statfs goes through it.      *)
CallsReturn == \A t \in Threads : pc[t] # "idle" ~> pc[t] = "idle"
=============================================================================
