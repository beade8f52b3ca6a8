---------------------------- MODULE YukiFSTable ----------------------------
(***************************************************************************)
(* What the kernel module keeps true of the inode table for every volume,  *)
(* every number of callers, descriptors and names, with crashes, failing   *)
(* accesses and recycled memory, and for every interleaving.               *)
(*                                                                         *)
(* The argument: a thread writes back a copy of the table that it read     *)
(* earlier and perhaps changed.  The copy may be stale, but every object   *)
(* in it is one that may stand at its place at any time (SoundObject), and *)
(* inode 0 in it is the root.  So the state of the table does not matter,  *)
(* only that each object in each copy is sound.                            *)
(***************************************************************************)
EXTENDS YukiFSTypes

(* A name that programs use is not the root's. *)
NoClash == RootName \notin Names

(* An object that may stand at place i of the table. *)
SoundObject(o, i) ==
    \/ o = FreeObject
    \/ o.in_use = 1 /\ o.name \in Names /\ o.first_block = i

SoundTable(t) == t[0] = Root /\ \A i \in Inode \ {0} : SoundObject(t[i], i)

(* Block 0 of the table, and with it the root, has been read. *)
HasRoot(l, r) == \/ l \in {"cr_dir", "cr_wdir", "cr_wtab", "us_write"}
                 \/ l \in {"cr_read", "us_read"} /\ r.k > 0

(* The copy of the table that a handler at label l has in its locals r. *)
CopyFits(l, r) ==
    /\ HasRoot(l, r) => r.tbl[0] = Root
    /\ \A i \in Inode \ {0} : SoundObject(r.tbl[i], i)
    /\ l \in UnlinkLabels \cup WriteLabels => r.k = 0
    /\ l = "us_read" /\ r.op = "create" => r.fo = Root

(* No cached inode passes for the root when update_statfs looks for its    *)
(* name in the table.                                                      *)
NotRoot(vn) == \A v \in Vnodes : vn[v].fo.name # RootName

TableRest ==
    /\ SoundTable(itable)
    /\ \A t \in Threads : CopyFits(pc[t], loc[t])
    /\ NotRoot(vnode)
TableInv == TypeInv /\ TableRest
-----------------------------------------------------------------------------
(* What copying blocks of tables and updating sizes does to sound tables.  *)
LEMMA SoundMix ==
    ASSUME NEW t, NEW u, NEW k,
           \A i \in Inode \ {0} : SoundObject(t[i], i),
           \A i \in Inode \ {0} : SoundObject(u[i], i)
    PROVE  \A i \in Inode \ {0} : SoundObject(CopyCluster(t, u, k)[i], i)
BY DEF CopyCluster

LEMMA RootMix ==
    ASSUME NEW t, NEW u, NEW k \in Clusters, u[0] = Root, k > 0 => t[0] = Root
    PROVE  CopyCluster(t, u, k)[0] = Root
<1>1. ClusterOf(0) = 0
  BY SizesAssumption DEF ClusterOf
<1>2. QED
  BY <1>1, ObjectTypes DEF CopyCluster, Clusters

LEMMA RootKept ==
    ASSUME NEW t, NEW u, NEW k, u[0] = Root, t[0] = Root
    PROVE  CopyCluster(t, u, k)[0] = Root
BY ObjectTypes DEF CopyCluster

(* update_statfs leaves every object sound, and the root alone: only the   *)
(* root itself has the root's name, and it has the root's size.            *)
LEMMA UpdateSound ==
    ASSUME NoClash, NEW t \in [Inode -> FileObject], NEW fo \in FileObject,
           \A i \in Inode \ {0} : SoundObject(t[i], i), t[0] = Root,
           fo = Root \/ fo.name # RootName
    PROVE  /\ UpdateSizes(t, fo)[0] = Root
           /\ \A i \in Inode \ {0} : SoundObject(UpdateSizes(t, fo)[i], i)
<1>1. UpdateSizes(t, fo)[0] = Root
  <2>1. CASE fo = Root
    BY <2>1, ObjectTypes, SizesAssumption DEF UpdateSizes, Root
  <2>2. CASE fo.name # RootName
    BY <2>2, ObjectTypes DEF UpdateSizes, Root
  <2>3. QED
    BY <2>1, <2>2
<1>2. ASSUME NEW i \in Inode \ {0} PROVE SoundObject(UpdateSizes(t, fo)[i], i)
  <2>1. t[i] \in FileObject /\ SoundObject(t[i], i) /\ i \in Inode
    OBVIOUS
  <2>2. CASE UpdateSizes(t, fo)[i] = t[i] \/ UpdateSizes(t, fo)[i] = FreeObject
    BY <2>1, <2>2 DEF SoundObject
  <2>3. CASE t[i].in_use = 1 /\ UpdateSizes(t, fo)[i] = [t[i] EXCEPT !.size = fo.size]
    BY <2>1, <2>3 DEF SoundObject, FileObject, FreeObject
  <2>4. QED
    BY <2>1, <2>2, <2>3 DEF UpdateSizes
<1>3. QED
  BY <1>1, <1>2

-----------------------------------------------------------------------------
(* A thread moves. *)
LEMMA MoveTable ==
    ASSUME TableInv, NEW t \in Threads, NEW l, NEW r, CopyFits(l, r), Move(t, l, r),
           SoundTable(itable'), NotRoot(vnode')
    PROVE  TableRest'
<1>1. ASSUME NEW u \in Threads PROVE CopyFits(pc'[u], loc'[u])
  BY DEF TableInv, TableRest, TypeInv, TypeOK, Move
<1>2. QED
  BY <1>1 DEF TableRest

(* A thread moves and changes neither the table nor the cached inodes. *)
LEMMA MoveSame ==
    ASSUME TableInv, NEW t \in Threads, NEW l, NEW r, CopyFits(l, r), Move(t, l, r),
           UNCHANGED <<itable, vnode>>
    PROVE  TableRest'
BY MoveTable DEF TableInv, TableRest

(* The locals of no call. *)
LEMMA FreshFits ==
    ASSUME NEW l, NEW r, r.tbl = FreeTable, r.k = 0, ~HasRoot(l, r), l # "us_read"
    PROVE  CopyFits(l, r)
BY DEF CopyFits, FreeTable, SoundObject

LEMMA IdleFits == CopyFits("idle", NoLoc)
BY FreshFits DEF HasRoot, NoLoc

(* Going on to a label that needs no more of the copy than this one. *)
LEMMA SameCopyFits ==
    ASSUME TableInv, NEW t \in Threads, NEW l, NEW r, r.tbl = loc[t].tbl,
           HasRoot(l, r) => HasRoot(pc[t], loc[t]),
           l \in UnlinkLabels \cup WriteLabels => r.k = 0, l # "us_read"
    PROVE  CopyFits(l, r)
BY DEF TableInv, TableRest, CopyFits

(* Starting update_statfs. *)
LEMMA StatStartFits ==
    ASSUME NEW r, \A i \in Inode \ {0} : SoundObject(r.tbl[i], i), r.k = 0,
           r.op = "create" => r.fo = Root
    PROVE  CopyFits("us_read", r)
BY DEF CopyFits, HasRoot

LEMMA DropNotRoot ==
    ASSUME NEW vn \in [Vnodes -> Vnode], NEW v, NEW held, NotRoot(vn)
    PROVE  NotRoot(Drop(vn, v, held))
BY NamesAssumption DEF NotRoot, Drop, FreeVnode, FreeObject

LEMMA WriteBeginTable ==
    ASSUME TableInv, NEW t \in Threads, NEW fd \in Fds, NEW len \in Lens,
           NEW d \in Data, WriteBegin(t, fd, len, d)
    PROVE  TableRest'
<1>1. PICK r : r.tbl = FreeTable /\ r.k = 0 /\ Move(t, "wr_block", r)
  BY DEF WriteBegin, NoLoc
<1>2. QED
  BY <1>1, FreshFits, MoveSame DEF WriteBegin, HasRoot, disk, memory

LEMMA BeginTable ==
    ASSUME TableInv, NEW t \in Threads, NEW n \in Names,
           CreateBegin(t, n) \/ UnlinkBegin(t, n)
    PROVE  TableRest'
<1>1. CASE CreateBegin(t, n)
  <2> DEFINE r == [NoLoc EXCEPT !.op = "create", !.name = n]
  <2>1. r.tbl = FreeTable /\ r.k = 0 /\ Move(t, "cr_read", r)
    BY <1>1 DEF CreateBegin, NoLoc
  <2> HIDE DEF r
  <2>2. QED
    BY <1>1, <2>1, FreshFits, MoveSame DEF CreateBegin, HasRoot, disk, memory
<1>2. CASE UnlinkBegin(t, n)
  <2>1. PICK r : r.tbl = FreeTable /\ r.k = 0 /\ Move(t, "ul_dir", r)
    BY <1>2 DEF UnlinkBegin, NoLoc
  <2>2. QED
    BY <1>2, <2>1, FreshFits, MoveSame DEF UnlinkBegin, HasRoot, memory
<1>3. QED
  BY <1>1, <1>2

(* write_size and the directory write of unlink set a size: the name of    *)
(* the cached inode stays.                                                 *)
LEMMA SizeKeepsName ==
    ASSUME TableInv, NEW v \in Vnodes, NEW n, NEW m,
           \/ vnode' = [vnode EXCEPT ![v].i_size = n, ![v].fo.size = m]
           \/ vnode' = [vnode EXCEPT ![v].fo.size = m]
    PROVE  NotRoot(vnode')
<1>1. vnode \in [Vnodes -> Vnode]
  BY DEF TableInv, TypeInv, TypeOK
<1>2. ASSUME NEW w \in Vnodes PROVE vnode'[w].fo.name = vnode[w].fo.name
  BY <1>1 DEF Vnode, FileObject
<1>3. QED
  BY <1>2 DEF TableInv, TableRest, NotRoot

LEMMA WriteTable ==
    ASSUME TableInv, NEW t \in Threads, WriteBlock(t) \/ WriteSize(t)
    PROVE  TableRest'
<1>1. loc[t] \in Loc /\ LocalsFit(pc[t], loc[t])
  BY LocTypes DEF TableInv
<1>2. CASE WriteBlock(t)
  <2> DEFINE r == [loc[t] EXCEPT !.buf = ZeroBlock]
  <2>1. r.tbl = loc[t].tbl /\ r.k = 0 /\ Move(t, "wr_size", r)
    BY <1>1, <1>2 DEF WriteBlock, Loc, TableInv, TableRest, CopyFits, WriteLabels
  <2> HIDE DEF r
  <2>2. QED
    BY <1>2, <2>1, SameCopyFits, MoveSame DEF WriteBlock, HasRoot, memory
<1>3. CASE WriteSize(t)
  <2>1. loc[t].v \in Vnodes /\ loc[t].op = "write"
    BY <1>1, <1>3 DEF WriteSize, LocalsFit, WriteLabels
  <2>2. NotRoot(vnode')
    BY <1>3, <2>1, SizeKeepsName DEF WriteSize
  <2>3. CopyFits("us_read", loc[t])
    BY <1>3, <2>1, StatStartFits DEF WriteSize, TableInv, TableRest, CopyFits, WriteLabels
  <2>4. QED
    BY <1>3, <2>2, <2>3, MoveTable DEF WriteSize, TableInv, TableRest, disk
<1>4. QED
  BY <1>2, <1>3

LEMMA CreateReadTableTable ==
    ASSUME TableInv, NEW t \in Threads, CreateReadTable(t)
    PROVE  TableRest'
<1> DEFINE tbl  == CopyCluster(loc[t].tbl, itable, loc[t].k)
           more == [loc[t] EXCEPT !.k = loc[t].k + 1, !.tbl = tbl]
           last == [loc[t] EXCEPT !.k = 0, !.tbl = tbl]
<1>1. loc[t].k \in Clusters /\ loc[t] \in Loc
  BY LocTypes DEF TableInv
<1>2. \A i \in Inode \ {0} : SoundObject(tbl[i], i)
  BY SoundMix DEF TableInv, TableRest, CopyFits, SoundTable
<1>3. tbl[0] = Root
  <2>1. loc[t].k > 0 => loc[t].tbl[0] = Root
    BY DEF TableInv, TableRest, CopyFits, HasRoot, CreateReadTable
  <2>2. QED
    BY <1>1, <2>1, RootMix DEF TableInv, TableRest, SoundTable
<1>4. CopyFits("cr_read", more) /\ CopyFits("cr_dir", last)
  <2> HIDE DEF tbl
  <2>1. QED
    BY <1>1, <1>2, <1>3 DEF CopyFits, Loc, UnlinkLabels, WriteLabels
<1>5. Move(t, "cr_read", more) \/ Move(t, "cr_dir", last)
  BY DEF CreateReadTable
<1> HIDE DEF more, last
<1>6. QED
  BY <1>4, <1>5, MoveSame DEF CreateReadTable, disk, memory

LEMMA CreateReadDirTable ==
    ASSUME TableInv, NEW t \in Threads, CreateReadDir(t)
    PROVE  TableRest'
<1>1. loc[t] \in Loc /\ loc[t].tbl \in [Inode -> FileObject] /\ loc[t].name \in Names
  BY LocTypes DEF TableInv, LocalsFit, CreateReadDir, CreateLabels
<1>2. PICK dir \in DirReads, s \in Slot, i \in Inode :
          /\ IsFirst(i, FreeInodes(loc[t].tbl))
          /\ Move(t, "cr_wdir",
                  [loc[t] EXCEPT !.tbl = [@ EXCEPT ![i] = NewObject(i, loc[t].name)],
                                 !.buf = [dir EXCEPT ![s] = i]])
  BY DEF CreateReadDir
<1> DEFINE tbl == [loc[t].tbl EXCEPT ![i] = NewObject(i, loc[t].name)]
           r   == [loc[t] EXCEPT !.tbl = tbl, !.buf = [dir EXCEPT ![s] = i]]
<1>3. loc[t].tbl[0] = Root
  BY DEF TableInv, TableRest, CopyFits, HasRoot, CreateReadDir
<1>4. i # 0
  BY <1>2, <1>3 DEF IsFirst, FreeInodes, Root
<1>5. tbl[0] = Root /\ \A j \in Inode \ {0} : SoundObject(tbl[j], j)
  <2>1. SoundObject(NewObject(i, loc[t].name), i)
    BY <1>1 DEF SoundObject, NewObject
  <2>2. \A j \in Inode \ {0} : SoundObject(loc[t].tbl[j], j)
    BY DEF TableInv, TableRest, CopyFits
  <2>3. QED
    BY <1>1, <1>3, <1>4, <2>1, <2>2, ObjectTypes
<1>6. CopyFits("cr_wdir", r)
  <2> HIDE DEF tbl
  <2>1. QED
    BY <1>1, <1>5 DEF CopyFits, Loc, UnlinkLabels, WriteLabels
<1>7. Move(t, "cr_wdir", r)
  BY <1>2
<1> HIDE DEF r
<1>8. QED
  BY <1>6, <1>7, MoveSame DEF CreateReadDir, disk, memory

LEMMA CreateWriteDirTable ==
    ASSUME TableInv, NEW t \in Threads, CreateWriteDir(t)
    PROVE  TableRest'
<1> DEFINE r == [loc[t] EXCEPT !.buf = ZeroBlock]
<1>1. r.tbl = loc[t].tbl /\ Move(t, "cr_wtab", r)
  BY LocTypes DEF CreateWriteDir, Loc, TableInv
<1> HIDE DEF r
<1>2. QED
  BY <1>1, SameCopyFits, MoveSame
  DEF CreateWriteDir, HasRoot, UnlinkLabels, WriteLabels, memory

(* Writing a copy back leaves the table sound. *)
LEMMA WriteBackSound ==
    ASSUME TableInv, NEW t \in Threads, HasRoot(pc[t], loc[t]),
           itable' = CopyCluster(itable, loc[t].tbl, loc[t].k)
    PROVE  SoundTable(itable')
BY SoundMix, RootKept DEF TableInv, TableRest, SoundTable, CopyFits

LEMMA CreateWriteTableTable ==
    ASSUME TableInv, NEW t \in Threads, CreateWriteTable(t)
    PROVE  TableRest'
<1> DEFINE more == [loc[t] EXCEPT !.k = loc[t].k + 1]
           last == [loc[t] EXCEPT !.k = 0, !.tbl = FreeTable, !.fo = loc[t].tbl[0]]
<1>1. loc[t] \in Loc /\ HasRoot(pc[t], loc[t]) /\ loc[t].tbl[0] = Root
  BY LocTypes DEF TableInv, TableRest, CopyFits, HasRoot, CreateWriteTable
<1>2. SoundTable(itable')
  BY <1>1, WriteBackSound DEF CreateWriteTable
<1>3. more.tbl = loc[t].tbl /\ last.tbl = FreeTable /\ last.k = 0 /\ last.fo = Root
  BY <1>1 DEF Loc
<1>4. Move(t, "cr_wtab", more) \/ Move(t, "us_read", last)
  BY DEF CreateWriteTable
<1> HIDE DEF more, last
<1>5. CopyFits("cr_wtab", more)
  BY <1>1, <1>3, SameCopyFits DEF UnlinkLabels, WriteLabels
<1>6. CopyFits("us_read", last)
  BY <1>3, StatStartFits DEF FreeTable, SoundObject
<1>7. QED
  BY <1>2, <1>4, <1>5, <1>6, MoveTable DEF CreateWriteTable, TableInv, TableRest, memory

LEMMA UnlinkReadDirTable ==
    ASSUME TableInv, NEW t \in Threads, UnlinkReadDir(t)
    PROVE  TableRest'
<1>1. PICK b : Move(t, "ul_wdir", [loc[t] EXCEPT !.buf = b])
  BY DEF UnlinkReadDir
<1> DEFINE r == [loc[t] EXCEPT !.buf = b]
<1>2. r.tbl = loc[t].tbl /\ r.k = 0 /\ Move(t, "ul_wdir", r)
  BY <1>1, LocTypes DEF UnlinkReadDir, Loc, TableInv, TableRest, CopyFits, UnlinkLabels
<1> HIDE DEF r
<1>3. QED
  BY <1>2, SameCopyFits, MoveSame DEF UnlinkReadDir, HasRoot, disk, memory

LEMMA UnlinkWriteDirTable ==
    ASSUME TableInv, NEW t \in Threads, UnlinkWriteDir(t)
    PROVE  TableRest'
<1> DEFINE r == [loc[t] EXCEPT !.buf = ZeroBlock]
<1>1. loc[t] \in Loc /\ loc[t].op = "unlink" /\ loc[t].v \in Vnodes
  BY LocTypes DEF UnlinkWriteDir, LocalsFit, UnlinkLabels, TableInv
<1>2. r.tbl = loc[t].tbl /\ r.k = 0 /\ r.op = "unlink" /\ Move(t, "us_read", r)
  BY <1>1 DEF UnlinkWriteDir, Loc, TableInv, TableRest, CopyFits, UnlinkLabels
<1> HIDE DEF r
<1>3. CopyFits("us_read", r)
  BY <1>2, StatStartFits DEF TableInv, TableRest, CopyFits
<1>4. NotRoot(vnode')
  BY <1>1, SizeKeepsName DEF UnlinkWriteDir
<1>5. QED
  BY <1>2, <1>3, <1>4, MoveTable DEF UnlinkWriteDir, TableInv, TableRest

LEMMA StatReadTableTable ==
    ASSUME NoClash, TableInv, NEW t \in Threads, StatReadTable(t)
    PROVE  TableRest'
<1> DEFINE tbl  == CopyCluster(loc[t].tbl, itable, loc[t].k)
           upd  == UpdateSizes(tbl, StatObject(t))
           more == [loc[t] EXCEPT !.k = loc[t].k + 1, !.tbl = tbl]
           last == [loc[t] EXCEPT !.k = 0, !.tbl = upd]
<1>1. loc[t].k \in Clusters /\ loc[t] \in Loc /\ tbl \in [Inode -> FileObject]
  BY LocTypes DEF TableInv
<1>2. \A i \in Inode \ {0} : SoundObject(tbl[i], i)
  BY SoundMix DEF TableInv, TableRest, CopyFits, SoundTable
<1>3. tbl[0] = Root
  <2>1. loc[t].k > 0 => loc[t].tbl[0] = Root
    BY DEF TableInv, TableRest, CopyFits, HasRoot, StatReadTable
  <2>2. QED
    BY <1>1, <2>1, RootMix DEF TableInv, TableRest, SoundTable
<1>4. /\ StatObject(t) \in FileObject
      /\ StatObject(t) = Root \/ StatObject(t).name # RootName
  <2>1. loc[t].op # "create" => loc[t].v \in Vnodes
    BY <1>1, LocTypes DEF TableInv, LocalsFit, StatReadTable, Loc
  <2>2. StatObject(t) \in FileObject
    BY <1>1, <2>1 DEF StatObject, TableInv, TypeInv, TypeOK, Loc, Vnode
  <2>3. QED
    BY <2>1, <2>2 DEF StatObject, TableInv, TableRest, CopyFits, NotRoot, StatReadTable
<1>5. upd[0] = Root /\ \A i \in Inode \ {0} : SoundObject(upd[i], i)
  <2> HIDE DEF tbl
  <2>1. QED
    BY <1>1, <1>2, <1>3, <1>4, UpdateSound
<1>6. Move(t, "us_read", more) \/ Move(t, "us_write", last)
  BY DEF StatReadTable
<1>7. CopyFits("us_read", more) /\ CopyFits("us_write", last)
  <2>1. loc[t].op = "create" => loc[t].fo = Root
    BY DEF StatReadTable, TableInv, TableRest, CopyFits
  <2> HIDE DEF tbl, upd
  <2>2. QED
    BY <1>1, <1>2, <1>3, <1>5, <2>1 DEF CopyFits, Loc, UnlinkLabels, WriteLabels
<1> HIDE DEF more, last
<1>8. QED
  BY <1>6, <1>7, MoveSame DEF StatReadTable, disk, memory

LEMMA StatWriteTableTable ==
    ASSUME TableInv, NEW t \in Threads, StatWriteTable(t)
    PROVE  TableRest'
<1>1. loc[t] \in Loc /\ HasRoot(pc[t], loc[t])
  BY LocTypes DEF TableInv, HasRoot, StatWriteTable
<1>2. SoundTable(itable')
  BY <1>1, WriteBackSound DEF StatWriteTable
<1>3. PICK n : \/ Move(t, "us_write", [loc[t] EXCEPT !.k = loc[t].k + 1])
               \/ Move(t, "us_reset", [loc[t] EXCEPT !.k = 0, !.tbl = FreeTable, !.used = n])
  BY DEF StatWriteTable
<1> DEFINE more == [loc[t] EXCEPT !.k = loc[t].k + 1]
           last == [loc[t] EXCEPT !.k = 0, !.tbl = FreeTable, !.used = n]
<1>4. more.tbl = loc[t].tbl /\ last.tbl = FreeTable /\ last.k = 0
  BY <1>1 DEF Loc
<1>5. Move(t, "us_write", more) \/ Move(t, "us_reset", last)
  BY <1>3
<1> HIDE DEF more, last
<1>6. CopyFits("us_write", more)
  BY <1>1, <1>4, SameCopyFits DEF UnlinkLabels, WriteLabels
<1>7. CopyFits("us_reset", last)
  BY <1>4, FreshFits DEF HasRoot
<1>8. QED
  BY <1>2, <1>5, <1>6, <1>7, MoveTable DEF StatWriteTable, TableInv, TableRest, memory

LEMMA StatCountTable ==
    ASSUME TableInv, NEW t \in Threads, StatReset(t) \/ StatCount(t) \/ StatWriteSuper(t)
    PROVE  TableRest'
<1> DEFINE r == [loc[t] EXCEPT !.used = 0]
<1>1. r.tbl = loc[t].tbl
  BY LocTypes DEF Loc, TableInv
<1>2. CASE StatReset(t)
  BY <1>2, SameCopyFits, MoveSame DEF StatReset, HasRoot, UnlinkLabels, WriteLabels, disk
<1>3. CASE StatCount(t)
  <2>1. Move(t, "us_super", r)
    BY <1>3 DEF StatCount
  <2> HIDE DEF r
  <2>2. QED
    BY <1>1, <1>3, <2>1, SameCopyFits, MoveSame
    DEF StatCount, HasRoot, UnlinkLabels, WriteLabels, disk
<1>4. CASE StatWriteSuper(t)
  BY <1>4, SameCopyFits, MoveSame DEF StatWriteSuper, HasRoot, UnlinkLabels, WriteLabels, memory
<1>5. QED
  BY <1>2, <1>3, <1>4

LEMMA EndTable ==
    ASSUME TableInv, NEW t \in Threads,
           \/ WriteReturn(t) \/ CreateNoSpace(t) \/ CreateReturn(t) \/ UnlinkNoEntry(t)
           \/ UnlinkReturn(t) \/ NoBlocks(t) \/ OpFails(t) \/ StatFails(t)
    PROVE  TableRest'
<1>1. CASE \/ WriteReturn(t) \/ CreateNoSpace(t) \/ CreateReturn(t)
           \/ UnlinkNoEntry(t) \/ NoBlocks(t) \/ OpFails(t)
  BY <1>1, IdleFits, MoveSame
  DEF WriteReturn, CreateNoSpace, CreateReturn, UnlinkNoEntry, NoBlocks, OpFails,
      Return, disk, memory
<1>2. CASE UnlinkReturn(t)
  <2>1. NotRoot(vnode')
    BY <1>2, DropNotRoot DEF UnlinkReturn, TableInv, TableRest, TypeInv, TypeOK
  <2>2. QED
    BY <1>2, <2>1, IdleFits, MoveTable DEF UnlinkReturn, Return, TableInv, TableRest, disk
<1>3. CASE StatFails(t)
  <2> DEFINE r == [loc[t] EXCEPT !.k = 0, !.tbl = FreeTable]
  <2>1. r.tbl = FreeTable /\ r.k = 0 /\ Move(t, "ret", r)
    BY <1>3, LocTypes DEF StatFails, Loc, TableInv
  <2> HIDE DEF r
  <2>2. QED
    BY <1>3, <2>1, FreshFits, MoveSame DEF StatFails, HasRoot, disk, memory
<1>4. QED
  BY <1>1, <1>2, <1>3

LEMMA StepTable ==
    ASSUME NoClash, TableInv, NEW t \in Threads, Step(t)
    PROVE  TableRest'
BY WriteTable, CreateReadTableTable, CreateReadDirTable, CreateWriteDirTable,
   CreateWriteTableTable, UnlinkReadDirTable, UnlinkWriteDirTable, StatReadTableTable,
   StatWriteTableTable, StatCountTable, EndTable
DEF Step, Work
-----------------------------------------------------------------------------
(* Steps outside the handlers.  *)
LEMMA MemoryTable ==
    ASSUME TableInv, UNCHANGED <<itable, pc, loc>>, NotRoot(vnode')
    PROVE  TableRest'
BY DEF TableInv, TableRest

LEMMA FileTable ==
    ASSUME TableInv, NEW fd \in Fds,
           \/ Close(fd) \/ Read(fd)
           \/ \E n \in Names, app, trunc \in BOOLEAN : Open(fd, n, app, trunc)
    PROVE  TableRest'
<1>1. vnode \in [Vnodes -> Vnode] /\ NotRoot(vnode)
  BY DEF TableInv, TableRest, TypeInv, TypeOK
<1>2. CASE Close(fd)
  BY <1>1, <1>2, DropNotRoot, MemoryTable DEF Close, disk
<1>3. CASE Read(fd)
  BY <1>1, <1>3, MemoryTable DEF Read, disk
<1>4. CASE \E n \in Names, app, trunc \in BOOLEAN : Open(fd, n, app, trunc)
  <2>1. PICK n \in Names, app \in BOOLEAN, trunc \in BOOLEAN : Open(fd, n, app, trunc)
    BY <1>4
  <2>2. NotRoot(vnode')
    BY <1>1, <2>1 DEF Open, NotRoot, Vnode
  <2>3. QED
    BY <2>1, <2>2, MemoryTable DEF Open, disk
<1>5. QED
  BY <1>2, <1>3, <1>4

(* A lookup finds an object that has the name it looks for. *)
LEMMA LookupTable ==
    ASSUME NoClash, TableInv, NEW n \in Names, Lookup(n)
    PROVE  TableRest'
<1>1. PICK v \in Vnodes, i \in Inode :
          /\ vnode' = [vnode EXCEPT ![v] = [fo |-> itable[i], i_size |-> itable[i].size,
                                            idx |-> i]]
          /\ itable[i].name = n
  <2>1. PICK dir \in DirReads, v \in FreeVnodes :
            \E s \in SlotsOf(dir, itable, n) :
               vnode' = [vnode EXCEPT ![v] = [fo |-> itable[dir[s]],
                                              i_size |-> itable[dir[s]].size,
                                              idx |-> dir[s]]]
    BY Zenon DEF Lookup
  <2>2. PICK s \in SlotsOf(dir, itable, n) :
            vnode' = [vnode EXCEPT ![v] = [fo |-> itable[dir[s]],
                                           i_size |-> itable[dir[s]].size, idx |-> dir[s]]]
    BY <2>1
  <2>3. v \in Vnodes /\ dir[s] \in Inode /\ itable[dir[s]].name = n
    BY <2>2 DEF FreeVnodes, SlotsOf
  <2>4. QED
    BY <2>2, <2>3
<1>2. NotRoot(vnode')
  BY <1>1 DEF TableInv, TableRest, TypeInv, TypeOK, NotRoot, NoClash
<1>3. QED
  BY <1>2, MemoryTable DEF Lookup, disk

LEMMA EvictTable ==
    ASSUME TableInv, NEW n \in Names, Evict(n)
    PROVE  TableRest'
BY DropNotRoot, MemoryTable DEF Evict, TableInv, TableRest, TypeInv, TypeOK, disk

LEMMA RecycledTable ==
    ASSUME NoClash, TableInv, NEW v \in Vnodes, Recycled(v)
    PROVE  TableRest'
<1>1. PICK fo \in {itable[vnode[v].idx], FreeObject} : vnode' = [vnode EXCEPT ![v].fo = fo]
  BY DEF Recycled
<1>2. vnode[v].idx \in Inode \ {0}
  BY DEF Recycled, Vnode, TableInv, TypeInv, TypeOK
<1>3. fo.name # RootName
  BY <1>1, <1>2, NamesAssumption
  DEF TableInv, TableRest, SoundTable, SoundObject, FreeObject, NoClash
<1>4. NotRoot(vnode')
  BY <1>1, <1>3 DEF NotRoot, Vnode, TableInv, TableRest, TypeInv, TypeOK
<1>5. QED
  BY <1>4, MemoryTable DEF Recycled, disk

LEMMA MountTable ==
    ASSUME TableInv, Mount
    PROVE  TableRest'
BY MemoryTable DEF Mount, TableInv, TableRest, disk

LEMMA LostTable ==
    ASSUME TableInv, MemoryLost
    PROVE  TableRest'
<1>1. NotRoot(vnode')
  BY NamesAssumption DEF MemoryLost, NotRoot, FreeVnode, FreeObject
<1>2. \A t \in Threads : CopyFits(pc'[t], loc'[t])
  BY IdleFits DEF MemoryLost
<1>3. QED
  BY <1>1, <1>2 DEF TableInv, TableRest, MemoryLost, disk

LEMMA TableInvStep == NoClash /\ TableInv /\ [Next]_vars => TableInv'
<1> SUFFICES ASSUME NoClash, TableInv, [Next]_vars PROVE TableRest'
  BY TypeInvStep DEF TableInv
<1>1. CASE Call
  BY <1>1, LookupTable, FileTable, WriteBeginTable, BeginTable DEF Call
<1>2. CASE \E t \in Threads : Step(t)
  BY <1>2, StepTable
<1>3. CASE Environment
  <2>1. CASE MemoryLost
    BY <2>1, LostTable
  <2>2. QED
    BY <1>3, <2>1, EvictTable, RecycledTable, MountTable DEF Environment, Crash, Unmount
<1>4. CASE UNCHANGED vars
  BY <1>4 DEF vars, TableInv, TableRest
<1>5. QED
  BY <1>1, <1>2, <1>3, <1>4 DEF Next

LEMMA TableInvInit == Init => TableInv
<1> SUFFICES ASSUME Init PROVE TableRest
  BY TypeInvInit DEF TableInv
<1>1. SoundTable(itable)
  BY ObjectTypes DEF Init, SoundTable, FreshTable, SoundObject
<1>2. NotRoot(vnode)
  BY NamesAssumption DEF Init, NotRoot, FreeVnode, FreeObject
<1>3. QED
  BY <1>1, <1>2, IdleFits DEF Init, TableRest

(* Every copy of the inode table, the one on the disk and those that the   *)
(* handlers of all threads hold, however stale, keeps the root in its      *)
(* place and names for every other inode its own block.                    *)
THEOREM TableCorrect == ASSUME NoClash PROVE Spec => []TableInv
BY TableInvInit, TableInvStep, PTL DEF Spec

(* Inode 0 stays the root directory: as long as no program uses the name   *)
(* "$", no create, write or unlink changes its file object on the disk,    *)
(* even when the table that is written back is a stale copy.               *)
THEOREM RootStaysIntact == ASSUME NoClash PROVE Spec => []RootIntact
<1>1. TableInv => RootIntact
  BY DEF TableInv, TableRest, SoundTable, RootIntact
<1>2. QED
  BY <1>1, TableCorrect, PTL

(* No two files share a data block: every used inode of the table names    *)
(* the block of its own index.                                             *)
THEOREM BlocksStayOwned == ASSUME NoClash PROVE Spec => []OwnBlock
<1>1. TableInv => OwnBlock
  <2> SUFFICES ASSUME TableInv, NEW i \in Inode, itable[i].in_use = 1
               PROVE  itable[i].first_block = i
    BY DEF OwnBlock
  <2>1. CASE i = 0
    BY <2>1 DEF TableInv, TableRest, SoundTable, Root
  <2>2. CASE i # 0
    BY <2>2 DEF TableInv, TableRest, SoundTable, SoundObject, FreeObject
  <2>3. QED
    BY <2>1, <2>2
<1>2. QED
  BY <1>1, TableCorrect, PTL
============================================================================
