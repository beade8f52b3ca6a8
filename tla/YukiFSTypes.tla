---------------------------- MODULE YukiFSTypes ----------------------------
(***************************************************************************)
(* Every variable of YukiFS keeps its type, for all values of the          *)
(* constants.  The type of the locals alone is not inductive: a handler    *)
(* that reaches a label needs to know which call it belongs to and that    *)
(* the inode and descriptor of the call are there (LocalsFit).             *)
(***************************************************************************)
EXTENDS YukiFS, FiniteSetTheorems, TLAPS

(* What a handler at label l knows of its locals r. *)
LocalsFit(l, r) ==
    /\ l # "idle" => r.op # "none"
    /\ l \in CreateLabels => r.op = "create"
    /\ l \in UnlinkLabels => r.op = "unlink"
    /\ l \in WriteLabels => r.op = "write"
    /\ r.op \in {"unlink", "write"} => r.v \in Vnodes
    /\ r.op = "write" => r.fd \in Fds
    /\ r.op \in {"create", "unlink"} => r.name \in Names

(* Every thread has a label and locals that fit it. *)
ThreadsOK == /\ pc \in [Threads -> Labels] /\ loc \in [Threads -> Loc]
             /\ \A t \in Threads : LocalsFit(pc[t], loc[t])

TypeInv == TypeOK /\ ThreadsOK

-----------------------------------------------------------------------------
(* The operators of DiskObjects: what they return. *)
LEMMA ObjectTypes ==
    /\ FreeObject \in FileObject /\ Root \in FileObject
    /\ FreshTable \in [Inode -> FileObject] /\ FreeTable \in [Inode -> FileObject]
    /\ ZeroBlock \in Block
    /\ 0 \in Inode /\ 0 \in Slot /\ LastCluster \in Nat /\ 0 \in Clusters
<1>1. 0 \in Inode /\ 0 \in Slot
  BY SizesAssumption DEF Inode, Slot
<1>2. LastCluster \in Nat
  BY SizesAssumption DEF LastCluster
<1>3. QED
  BY <1>1, <1>2, SizesAssumption
  DEF FreeObject, Root, FileObject, FileName, FreshTable, FreeTable, ZeroBlock,
      Block, Word, Clusters

LEMMA CopyClusterType ==
    ASSUME NEW t \in [Inode -> FileObject], NEW u \in [Inode -> FileObject], NEW k
    PROVE  CopyCluster(t, u, k) \in [Inode -> FileObject]
BY DEF CopyCluster

LEMMA UpdateSizesType ==
    ASSUME NEW t \in [Inode -> FileObject], NEW fo \in FileObject
    PROVE  UpdateSizes(t, fo) \in [Inode -> FileObject]
BY ObjectTypes DEF UpdateSizes, FileObject

LEMMA NewObjectType ==
    ASSUME NEW i \in Inode, NEW n \in Names
    PROVE  NewObject(i, n) \in FileObject
BY DEF NewObject, FileObject, FileName

LEMMA ResizeType ==
    ASSUME NEW x \in Vnode, NEW n \in Nat, NEW m \in Nat
    PROVE  /\ [x EXCEPT !.fo.size = n] \in Vnode
           /\ [x EXCEPT !.i_size = m, !.fo.size = n] \in Vnode
BY DEF Vnode, FileObject

LEMMA InUseBound ==
    ASSUME NEW t
    PROVE  InUse(t) \in 0 .. N
<1> DEFINE S == {i \in Inode : t[i].in_use = 1}
<1>1. IsFiniteSet(Inode) /\ Cardinality(Inode) = N
  BY FS_Interval, SizesAssumption DEF Inode
<1>2. IsFiniteSet(S) /\ Cardinality(S) <= N
  BY <1>1, FS_Subset
<1>3. Cardinality(S) \in Nat
  BY <1>2, FS_CardinalityType
<1>4. QED
  BY <1>2, <1>3, SizesAssumption DEF InUse

LEMMA CountDownType ==
    ASSUME NEW c \in 0 .. U - 1, NEW used \in 0 .. N
    PROVE  CountDown(c, used) \in 0 .. U - 1
BY SizesAssumption DEF CountDown

LEMMA WriteBufferType ==
    ASSUME NEW old \in Block, NEW app, NEW size, NEW pos, NEW end, NEW d \in Data
    PROVE  WriteBuffer(old, app, size, pos, end, d) \in Block
BY ObjectTypes DEF WriteBuffer, Block, Word
-----------------------------------------------------------------------------
(* A thread moves to label l with locals r. *)
LEMMA MoveType ==
    ASSUME TypeInv, NEW t \in Threads, NEW l \in Labels, NEW r \in Loc,
           LocalsFit(l, r), Move(t, l, r)
    PROVE  ThreadsOK'
<1>1. pc' \in [Threads -> Labels] /\ loc' \in [Threads -> Loc]
  BY DEF TypeInv, TypeOK, Move
<1>2. ASSUME NEW u \in Threads PROVE LocalsFit(pc'[u], loc'[u])
  <2>1. CASE u = t
    BY <2>1 DEF TypeInv, TypeOK, Move
  <2>2. CASE u # t
    BY <2>2 DEF TypeInv, ThreadsOK, TypeOK, Move
  <2>3. QED
    BY <2>1, <2>2
<1>3. QED
  BY <1>1, <1>2 DEF ThreadsOK

LEMMA NoLocType == NoLoc \in Loc /\ LocalsFit("idle", NoLoc)
BY ObjectTypes, SizesAssumption
DEF NoLoc, Loc, LocalsFit, CreateLabels, UnlinkLabels, WriteLabels

LEMMA ReturnType ==
    ASSUME TypeInv, NEW t \in Threads, Return(t)
    PROVE  ThreadsOK'
BY NoLocType, MoveType DEF Return, Labels

LEMMA FreeTypes == FreeVnode \in Vnode /\ Closed \in File
BY ObjectTypes DEF FreeVnode, Vnode, Closed, File, FileObject

LEMMA DropType ==
    ASSUME NEW vn \in [Vnodes -> Vnode], NEW v, NEW held \in BOOLEAN
    PROVE  Drop(vn, v, held) \in [Vnodes -> Vnode]
BY FreeTypes DEF Drop

(* What the locals of a thread are when it is somewhere in the module. *)
LEMMA LocTypes ==
    ASSUME TypeInv, NEW t \in Threads
    PROVE  /\ loc[t] \in Loc /\ LocalsFit(pc[t], loc[t])
           /\ loc[t].tbl \in [Inode -> FileObject] /\ itable \in [Inode -> FileObject]
           /\ CopyCluster(loc[t].tbl, itable, loc[t].k) \in [Inode -> FileObject]
           /\ CopyCluster(itable, loc[t].tbl, loc[t].k) \in [Inode -> FileObject]
           /\ loc[t].k \in Clusters
           /\ loc[t].k < LastCluster => loc[t].k + 1 \in Clusters
<1>1. loc[t] \in Loc /\ LocalsFit(pc[t], loc[t]) /\ itable \in [Inode -> FileObject]
  BY DEF TypeInv, ThreadsOK, TypeOK
<1>2. loc[t].tbl \in [Inode -> FileObject] /\ loc[t].k \in Clusters
  BY <1>1 DEF Loc
<1>3. QED
  BY <1>1, <1>2, CopyClusterType, ObjectTypes DEF Clusters

LEMMA TypeInvInit == Init => TypeInv
<1> SUFFICES ASSUME Init PROVE TypeInv
  OBVIOUS
<1>1. TypeOK
  <2>1. N - 1 \in 0 .. U - 1 /\ 0 \in 0 .. U - 1
    BY SizesAssumption
  <2>2. QED
    BY <2>1, ObjectTypes, NoLocType, FreeTypes DEF Init, TypeOK, Labels
<1>2. QED
  BY <1>1, NoLocType DEF Init, TypeInv, ThreadsOK, TypeOK

LEMMA WriteBeginType ==
    ASSUME TypeInv, NEW t \in Threads, NEW fd \in Fds, NEW len \in Lens,
           NEW d \in Data, WriteBegin(t, fd, len, d)
    PROVE  TypeInv'
<1> DEFINE f   == file[fd]
           fo  == vnode[f.v].fo
           end == f.pos + (IF len > W THEN W ELSE len)
           buf == WriteBuffer(block[fo.first_block], f.app, fo.size, f.pos, end, d)
           r   == [NoLoc EXCEPT !.op = "write", !.v = f.v, !.fd = fd,
                                !.blk = fo.first_block, !.end = end, !.buf = buf]
<1>1. f.v \in Vnodes
  BY DEF WriteBegin, TypeInv, TypeOK, File, IsOpen
<1>2. fo.first_block \in Inode /\ end \in Nat /\ block[fo.first_block] \in Block
  BY <1>1, SizesAssumption, BoundsAssumption DEF TypeInv, TypeOK, File, Vnode, FileObject
<1>3. buf \in Block
  BY <1>2, WriteBufferType
<1>4. r \in Loc
  BY <1>1, <1>2, <1>3, NoLocType DEF Loc
<1>5. "wr_block" \in Labels /\ LocalsFit("wr_block", r)
  BY <1>1 DEF NoLoc, LocalsFit, Labels, CreateLabels, UnlinkLabels, WriteLabels, StatLabels
<1>6. Move(t, "wr_block", r)
  BY DEF WriteBegin
<1>7. ThreadsOK'
  <2> HIDE DEF r
  <2>1. QED
    BY <1>4, <1>5, <1>6, MoveType
<1>8. QED
  BY <1>7 DEF WriteBegin, TypeInv, ThreadsOK, TypeOK, disk, memory

LEMMA WriteBlockType ==
    ASSUME TypeInv, NEW t \in Threads, WriteBlock(t)
    PROVE  TypeInv'
<1> DEFINE r == [loc[t] EXCEPT !.buf = ZeroBlock]
<1>1. r \in Loc
  BY LocTypes, ObjectTypes DEF Loc
<1>2. "wr_size" \in Labels /\ LocalsFit("wr_size", r)
  BY LocTypes DEF WriteBlock, Loc, LocalsFit, Labels, CreateLabels, UnlinkLabels, WriteLabels, StatLabels
<1>3. ThreadsOK'
  <2>1. Move(t, "wr_size", r)
    BY DEF WriteBlock
  <2> HIDE DEF r
  <2>2. QED
    BY <1>1, <1>2, <2>1, MoveType
<1>4. QED
  BY <1>3, LocTypes DEF WriteBlock, TypeInv, ThreadsOK, TypeOK, Loc, memory

LEMMA WriteSizeType ==
    ASSUME TypeInv, NEW t \in Threads, WriteSize(t)
    PROVE  TypeInv'
<1>1. loc[t].v \in Vnodes /\ loc[t].fd \in Fds /\ loc[t].end \in Nat
  BY LocTypes DEF WriteSize, LocalsFit, WriteLabels, Loc
<1>2. vnode' \in [Vnodes -> Vnode]
  <2>1. [vnode[loc[t].v] EXCEPT !.i_size = loc[t].end, !.fo.size = loc[t].end] \in Vnode
    <3>1. vnode[loc[t].v] \in Vnode
      BY <1>1 DEF TypeInv, TypeOK
    <3>2. QED
      BY <1>1, <3>1, ResizeType
  <2>2. vnode' = [vnode EXCEPT ![loc[t].v] =
                     [@ EXCEPT !.i_size = loc[t].end, !.fo.size = loc[t].end]]
    BY <1>1 DEF WriteSize, TypeInv, TypeOK
  <2>3. QED
    BY <1>1, <2>1, <2>2 DEF TypeInv, TypeOK
<1>3. file' \in [Fds -> File]
  <2>1. [file[loc[t].fd] EXCEPT !.pos = loc[t].end] \in File
    BY <1>1 DEF TypeInv, TypeOK, File
  <2>2. QED
    BY <1>1, <2>1 DEF WriteSize, TypeInv, TypeOK
<1>4. "us_read" \in Labels /\ LocalsFit("us_read", loc[t])
  BY LocTypes DEF WriteSize, LocalsFit, Labels, CreateLabels, UnlinkLabels, WriteLabels, StatLabels
<1>5. ThreadsOK'
  BY <1>4, LocTypes, MoveType DEF WriteSize
<1>6. QED
  BY <1>2, <1>3, <1>5 DEF WriteSize, TypeInv, ThreadsOK, TypeOK, disk

LEMMA CreateBeginType ==
    ASSUME TypeInv, NEW t \in Threads, NEW n \in Names, CreateBegin(t, n)
    PROVE  TypeInv'
<1> DEFINE r == [NoLoc EXCEPT !.op = "create", !.name = n]
<1>1. r \in Loc
  BY NoLocType DEF Loc
<1>2. "cr_read" \in Labels /\ LocalsFit("cr_read", r)
  BY DEF NoLoc, LocalsFit, Labels, CreateLabels, UnlinkLabels, WriteLabels, StatLabels
<1>3. ThreadsOK'
  <2>1. Move(t, "cr_read", r)
    BY DEF CreateBegin
  <2> HIDE DEF r
  <2>2. QED
    BY <1>1, <1>2, <2>1, MoveType
<1>4. QED
  BY <1>3 DEF CreateBegin, TypeInv, ThreadsOK, TypeOK, disk, memory

LEMMA CreateReadTableType ==
    ASSUME TypeInv, NEW t \in Threads, CreateReadTable(t)
    PROVE  TypeInv'
<1> DEFINE more == [loc[t] EXCEPT !.k = loc[t].k + 1,
                                 !.tbl = CopyCluster(loc[t].tbl, itable, loc[t].k)]
           last == [loc[t] EXCEPT !.k = 0, !.tbl = CopyCluster(loc[t].tbl, itable, loc[t].k)]
<1>1. last \in Loc /\ (loc[t].k < LastCluster => more \in Loc)
  BY LocTypes, ObjectTypes DEF Loc
<1>2. /\ "cr_read" \in Labels /\ LocalsFit("cr_read", more)
      /\ "cr_dir" \in Labels /\ LocalsFit("cr_dir", last)
  BY LocTypes DEF CreateReadTable, Loc, LocalsFit, Labels, CreateLabels, UnlinkLabels, WriteLabels, StatLabels
<1>3. ThreadsOK'
  <2>1. \/ loc[t].k < LastCluster /\ Move(t, "cr_read", more)
        \/ ~(loc[t].k < LastCluster) /\ Move(t, "cr_dir", last)
    BY DEF CreateReadTable
  <2> HIDE DEF more, last
  <2>2. QED
    BY <1>1, <1>2, <2>1, MoveType
<1>4. QED
  BY <1>3 DEF CreateReadTable, TypeInv, ThreadsOK, TypeOK, disk, memory

LEMMA CreateReadDirType ==
    ASSUME TypeInv, NEW t \in Threads, CreateReadDir(t)
    PROVE  TypeInv'
<1>1. PICK dir \in DirReads, s \in Slot, i \in Inode :
          Move(t, "cr_wdir",
               [loc[t] EXCEPT !.tbl = [@ EXCEPT ![i] = NewObject(i, loc[t].name)],
                              !.buf = [dir EXCEPT ![s] = i]])
  BY DEF CreateReadDir
<1> DEFINE r == [loc[t] EXCEPT !.tbl = [@ EXCEPT ![i] = NewObject(i, loc[t].name)],
                               !.buf = [dir EXCEPT ![s] = i]]
<1>2. dir \in Block
  BY DEF DirReads, TypeInv, TypeOK, FileObject, Block
<1>3. loc[t].op = "create" /\ loc[t].name \in Names
  BY LocTypes DEF CreateReadDir, LocalsFit, CreateLabels
<1>4. r \in Loc
  <2>1. [loc[t].tbl EXCEPT ![i] = NewObject(i, loc[t].name)] \in [Inode -> FileObject]
    BY <1>3, LocTypes, NewObjectType
  <2>2. [dir EXCEPT ![s] = i] \in Block
    BY <1>2 DEF Block, Word
  <2>3. QED
    BY <2>1, <2>2, LocTypes DEF Loc
<1>5. "cr_wdir" \in Labels /\ LocalsFit("cr_wdir", r)
  BY <1>3, LocTypes DEF Loc, LocalsFit, Labels, CreateLabels, UnlinkLabels, WriteLabels, StatLabels
<1>6. ThreadsOK'
  <2> HIDE DEF r
  <2>1. QED
    BY <1>1, <1>4, <1>5, MoveType DEF r
<1>7. QED
  BY <1>6 DEF CreateReadDir, TypeInv, ThreadsOK, TypeOK, disk, memory

LEMMA CreateWriteDirType ==
    ASSUME TypeInv, NEW t \in Threads, CreateWriteDir(t)
    PROVE  TypeInv'
<1> DEFINE r == [loc[t] EXCEPT !.buf = ZeroBlock]
<1>1. r \in Loc
  BY LocTypes, ObjectTypes DEF Loc
<1>2. "cr_wtab" \in Labels /\ LocalsFit("cr_wtab", r)
  BY LocTypes DEF CreateWriteDir, Loc, LocalsFit, Labels, CreateLabels, UnlinkLabels, WriteLabels, StatLabels
<1>3. ThreadsOK'
  <2>1. Move(t, "cr_wtab", r)
    BY DEF CreateWriteDir
  <2> HIDE DEF r
  <2>2. QED
    BY <1>1, <1>2, <2>1, MoveType
<1>4. QED
  BY <1>3, LocTypes
  DEF CreateWriteDir, TypeInv, ThreadsOK, TypeOK, Loc, FileObject, memory

LEMMA CreateWriteTableType ==
    ASSUME TypeInv, NEW t \in Threads, CreateWriteTable(t)
    PROVE  TypeInv'
<1> DEFINE more == [loc[t] EXCEPT !.k = loc[t].k + 1]
           last == [loc[t] EXCEPT !.k = 0, !.tbl = FreeTable, !.fo = loc[t].tbl[0]]
<1>1. last \in Loc /\ (loc[t].k < LastCluster => more \in Loc)
  BY LocTypes, ObjectTypes DEF Loc
<1>2. /\ "cr_wtab" \in Labels /\ LocalsFit("cr_wtab", more)
      /\ "us_read" \in Labels /\ LocalsFit("us_read", last)
  BY LocTypes DEF CreateWriteTable, Loc, LocalsFit, Labels, CreateLabels, UnlinkLabels, WriteLabels, StatLabels
<1>3. ThreadsOK'
  <2>1. \/ loc[t].k < LastCluster /\ Move(t, "cr_wtab", more)
        \/ ~(loc[t].k < LastCluster) /\ Move(t, "us_read", last)
    BY DEF CreateWriteTable
  <2> HIDE DEF more, last
  <2>2. QED
    BY <1>1, <1>2, <2>1, MoveType
<1>4. QED
  BY <1>3, LocTypes DEF CreateWriteTable, TypeInv, ThreadsOK, TypeOK, memory

LEMMA UnlinkBeginType ==
    ASSUME TypeInv, NEW t \in Threads, NEW n \in Names, UnlinkBegin(t, n)
    PROVE  TypeInv'
<1> DEFINE v == dentry[n]
           r == [NoLoc EXCEPT !.op = "unlink", !.name = n, !.v = v,
                              !.blk = vnode[v].fo.first_block]
<1>1. v \in Vnodes /\ vnode[v].fo.first_block \in Inode
  BY DEF UnlinkBegin, TypeInv, TypeOK, Vnode, FileObject
<1>2. r \in Loc
  BY <1>1, NoLocType DEF Loc
<1>3. "ul_dir" \in Labels /\ LocalsFit("ul_dir", r)
  BY <1>1 DEF NoLoc, LocalsFit, Labels, CreateLabels, UnlinkLabels, WriteLabels, StatLabels
<1>4. ThreadsOK'
  <2>1. Move(t, "ul_dir", r)
    BY DEF UnlinkBegin
  <2> HIDE DEF r
  <2>2. QED
    BY <1>2, <1>3, <2>1, MoveType
<1>5. QED
  BY <1>1, <1>4, ObjectTypes DEF UnlinkBegin, TypeInv, ThreadsOK, TypeOK, memory

LEMMA UnlinkReadDirType ==
    ASSUME TypeInv, NEW t \in Threads, UnlinkReadDir(t)
    PROVE  TypeInv'
<1>1. PICK dir \in DirReads, s \in Slot :
          Move(t, "ul_wdir", [loc[t] EXCEPT !.buf = [dir EXCEPT ![s] = 0]])
  BY DEF UnlinkReadDir
<1> DEFINE r == [loc[t] EXCEPT !.buf = [dir EXCEPT ![s] = 0]]
<1>2. dir \in Block
  BY DEF DirReads, TypeInv, TypeOK, FileObject, Block
<1>3. r \in Loc
  BY <1>2, LocTypes, ObjectTypes DEF Loc, Block, Word
<1>4. "ul_wdir" \in Labels /\ LocalsFit("ul_wdir", r)
  BY LocTypes DEF UnlinkReadDir, Loc, LocalsFit, Labels, CreateLabels, UnlinkLabels, WriteLabels, StatLabels
<1>5. ThreadsOK'
  <2> HIDE DEF r
  <2>1. QED
    BY <1>1, <1>3, <1>4, MoveType DEF r
<1>6. QED
  BY <1>5 DEF UnlinkReadDir, TypeInv, ThreadsOK, TypeOK, disk, memory

LEMMA UnlinkWriteDirType ==
    ASSUME TypeInv, NEW t \in Threads, UnlinkWriteDir(t)
    PROVE  TypeInv'
<1> DEFINE r == [loc[t] EXCEPT !.buf = ZeroBlock]
<1>1. r \in Loc
  BY LocTypes, ObjectTypes DEF Loc
<1>2. "us_read" \in Labels /\ LocalsFit("us_read", r)
  BY LocTypes DEF UnlinkWriteDir, Loc, LocalsFit, Labels, CreateLabels, UnlinkLabels, WriteLabels, StatLabels
<1>3. ThreadsOK'
  <2>1. Move(t, "us_read", r)
    BY DEF UnlinkWriteDir
  <2> HIDE DEF r
  <2>2. QED
    BY <1>1, <1>2, <2>1, MoveType
<1>4. vnode' \in [Vnodes -> Vnode]
  <2>1. loc[t].v \in Vnodes
    BY LocTypes DEF UnlinkWriteDir, LocalsFit, UnlinkLabels
  <2>2. [vnode[loc[t].v] EXCEPT !.fo.size = 0] \in Vnode
    <3>1. vnode[loc[t].v] \in Vnode
      BY <2>1 DEF TypeInv, TypeOK
    <3>2. QED
      BY <3>1, ResizeType
  <2>3. vnode' = [vnode EXCEPT ![loc[t].v] = [@ EXCEPT !.fo.size = 0]]
    BY <2>1 DEF UnlinkWriteDir, TypeInv, TypeOK
  <2>4. QED
    BY <2>1, <2>2, <2>3 DEF TypeInv, TypeOK
<1>5. QED
  BY <1>3, <1>4, LocTypes DEF UnlinkWriteDir, TypeInv, ThreadsOK, TypeOK, Loc, FileObject

LEMMA StatReadTableType ==
    ASSUME TypeInv, NEW t \in Threads, StatReadTable(t)
    PROVE  TypeInv'
<1>1. UpdateSizes(CopyCluster(loc[t].tbl, itable, loc[t].k), StatObject(t)) \in [Inode -> FileObject]
  <2>1. StatObject(t) \in FileObject
    BY LocTypes DEF StatReadTable, StatObject, TypeInv, TypeOK, LocalsFit, Loc, Vnode
  <2>2. QED
    BY <2>1, LocTypes, UpdateSizesType
<1> DEFINE more == [loc[t] EXCEPT !.k = loc[t].k + 1,
                                 !.tbl = CopyCluster(loc[t].tbl, itable, loc[t].k)]
           last == [loc[t] EXCEPT !.k = 0,
                       !.tbl = UpdateSizes(CopyCluster(loc[t].tbl, itable, loc[t].k), StatObject(t))]
<1>2. last \in Loc /\ (loc[t].k < LastCluster => more \in Loc)
  BY LocTypes, ObjectTypes, <1>1 DEF Loc
<1>3. /\ "us_read" \in Labels /\ LocalsFit("us_read", more)
      /\ "us_write" \in Labels /\ LocalsFit("us_write", last)
  BY LocTypes DEF StatReadTable, Loc, LocalsFit, Labels, CreateLabels, UnlinkLabels, WriteLabels, StatLabels
<1>4. ThreadsOK'
  <2>1. \/ loc[t].k < LastCluster /\ Move(t, "us_read", more)
        \/ ~(loc[t].k < LastCluster) /\ Move(t, "us_write", last)
    BY DEF StatReadTable
  <2> HIDE DEF more, last
  <2>2. QED
    BY <1>2, <1>3, <2>1, MoveType
<1>5. QED
  BY <1>4 DEF StatReadTable, TypeInv, ThreadsOK, TypeOK, disk, memory

LEMMA StatWriteTableType ==
    ASSUME TypeInv, NEW t \in Threads, StatWriteTable(t)
    PROVE  TypeInv'
<1>1. PICK used \in 0 .. N :
          ~(loc[t].k < LastCluster) =>
             Move(t, "us_reset", [loc[t] EXCEPT !.k = 0, !.tbl = FreeTable, !.used = used])
  <2>1. 0 \in 0 .. N
    BY SizesAssumption
  <2>2. QED
    BY <2>1, InUseBound DEF StatWriteTable
<1> DEFINE more == [loc[t] EXCEPT !.k = loc[t].k + 1]
           last == [loc[t] EXCEPT !.k = 0, !.tbl = FreeTable, !.used = used]
<1>2. last \in Loc /\ (loc[t].k < LastCluster => more \in Loc)
  BY LocTypes, ObjectTypes DEF Loc
<1>3. /\ "us_write" \in Labels /\ LocalsFit("us_write", more)
      /\ "us_reset" \in Labels /\ LocalsFit("us_reset", last)
  BY LocTypes DEF StatWriteTable, Loc, LocalsFit, Labels, CreateLabels, UnlinkLabels, WriteLabels, StatLabels
<1>4. ThreadsOK'
  <2>1. \/ loc[t].k < LastCluster /\ Move(t, "us_write", more)
        \/ ~(loc[t].k < LastCluster) /\ Move(t, "us_reset", last)
    BY <1>1 DEF StatWriteTable
  <2> HIDE DEF more, last
  <2>2. QED
    BY <1>2, <1>3, <2>1, MoveType
<1>5. QED
  BY <1>4, LocTypes DEF StatWriteTable, TypeInv, ThreadsOK, TypeOK, memory

LEMMA StatCountType ==
    ASSUME TypeInv, NEW t \in Threads, StatCount(t)
    PROVE  TypeInv'
<1> DEFINE r == [loc[t] EXCEPT !.used = 0]
<1>1. 0 \in 0 .. N /\ loc[t].used \in 0 .. N
  BY LocTypes, SizesAssumption DEF Loc
<1>2. r \in Loc
  BY <1>1, LocTypes DEF Loc
<1>3. "us_super" \in Labels /\ LocalsFit("us_super", r)
  BY LocTypes DEF StatCount, Loc, LocalsFit, Labels, CreateLabels, UnlinkLabels, WriteLabels, StatLabels
<1>4. ThreadsOK'
  <2>1. Move(t, "us_super", r)
    BY DEF StatCount
  <2> HIDE DEF r
  <2>2. QED
    BY <1>2, <1>3, <2>1, MoveType
<1>5. QED
  BY <1>1, <1>4, CountDownType DEF StatCount, TypeInv, ThreadsOK, TypeOK, disk

LEMMA StatFailsType ==
    ASSUME TypeInv, NEW t \in Threads, StatFails(t)
    PROVE  TypeInv'
<1> DEFINE r == [loc[t] EXCEPT !.k = 0, !.tbl = FreeTable]
<1>1. r \in Loc
  BY LocTypes, ObjectTypes DEF Loc
<1>2. "ret" \in Labels /\ LocalsFit("ret", r)
  BY LocTypes DEF StatFails, Loc, LocalsFit, Labels, CreateLabels, UnlinkLabels, WriteLabels, StatLabels
<1>3. ThreadsOK'
  <2>1. Move(t, "ret", r)
    BY DEF StatFails
  <2> HIDE DEF r
  <2>2. QED
    BY <1>1, <1>2, <2>1, MoveType
<1>4. QED
  BY <1>3 DEF StatFails, TypeInv, ThreadsOK, TypeOK, disk, memory

LEMMA StepType ==
    ASSUME TypeInv, NEW t \in Threads, Step(t)
    PROVE  TypeInv'
<1>1. CASE WriteReturn(t) \/ CreateNoSpace(t) \/ CreateReturn(t) \/ UnlinkNoEntry(t)
           \/ NoBlocks(t) \/ OpFails(t)
  BY <1>1, ReturnType
  DEF WriteReturn, CreateNoSpace, CreateReturn, UnlinkNoEntry, NoBlocks, OpFails,
      TypeInv, ThreadsOK, TypeOK, disk, memory
<1>2. CASE UnlinkReturn(t)
  <2>1. vnode' \in [Vnodes -> Vnode]
    BY <1>2, DropType DEF UnlinkReturn, TypeInv, TypeOK
  <2>2. QED
    BY <1>2, <2>1, ReturnType DEF UnlinkReturn, TypeInv, ThreadsOK, TypeOK, disk
<1>3. CASE StatReset(t)
  <2>1. "us_count" \in Labels /\ LocalsFit("us_count", loc[t])
    BY <1>3, LocTypes DEF StatReset, LocalsFit, Labels, CreateLabels, UnlinkLabels, WriteLabels, StatLabels
  <2>2. ThreadsOK'
    BY <1>3, <2>1, LocTypes, MoveType DEF StatReset
  <2>3. QED
    BY <1>3, <2>2, SizesAssumption DEF StatReset, TypeInv, ThreadsOK, TypeOK, disk
<1>4. CASE StatWriteSuper(t)
  <2>1. "ret" \in Labels /\ LocalsFit("ret", loc[t])
    BY <1>4, LocTypes DEF StatWriteSuper, LocalsFit, Labels, CreateLabels, UnlinkLabels, WriteLabels, StatLabels
  <2>2. ThreadsOK'
    BY <1>4, <2>1, LocTypes, MoveType DEF StatWriteSuper
  <2>3. QED
    BY <1>4, <2>2 DEF StatWriteSuper, TypeInv, ThreadsOK, TypeOK, memory
<1>5. QED
  BY <1>1, <1>2, <1>3, <1>4, WriteBlockType, WriteSizeType, CreateReadTableType,
     CreateReadDirType, CreateWriteDirType, CreateWriteTableType, UnlinkReadDirType,
     UnlinkWriteDirType, StatReadTableType, StatWriteTableType, StatCountType,
     StatFailsType DEF Step, Work

LEMMA TypeInvStep == TypeInv /\ [Next]_vars => TypeInv'
<1> SUFFICES ASSUME TypeInv, [Next]_vars PROVE TypeInv'
  OBVIOUS
<1>1. ASSUME NEW n \in Names, Lookup(n) PROVE TypeInv'
  BY <1>1 DEF Lookup, TypeInv, ThreadsOK, TypeOK, Vnode, FileObject, disk, SlotsOf, FreeVnodes
<1>2. ASSUME NEW fd \in Fds, NEW n \in Names, NEW app \in BOOLEAN, NEW trunc \in BOOLEAN,
             Open(fd, n, app, trunc)
      PROVE TypeInv'
  BY <1>2 DEF Open, TypeInv, ThreadsOK, TypeOK, Vnode, File, disk
<1>3. ASSUME NEW fd \in Fds, Close(fd) PROVE TypeInv'
  BY <1>3, FreeTypes, DropType DEF Close, TypeInv, ThreadsOK, TypeOK, disk
<1>4. ASSUME NEW fd \in Fds, Read(fd) PROVE TypeInv'
  BY <1>4 DEF Read, TypeInv, ThreadsOK, TypeOK, File, Vnode, disk, IsOpen
<1>5. ASSUME NEW t \in Threads, NEW fd \in Fds, NEW len \in Lens, NEW d \in Data,
             WriteBegin(t, fd, len, d)
      PROVE TypeInv'
  BY <1>5, WriteBeginType
<1>6. ASSUME NEW t \in Threads, NEW n \in Names, CreateBegin(t, n) \/ UnlinkBegin(t, n)
      PROVE TypeInv'
  BY <1>6, CreateBeginType, UnlinkBeginType
<1>7. ASSUME NEW t \in Threads, Step(t) PROVE TypeInv'
  BY <1>7, StepType
<1>8. ASSUME NEW n \in Names, Evict(n) PROVE TypeInv'
  BY <1>8, DropType DEF Evict, TypeInv, ThreadsOK, TypeOK, disk
<1>9. ASSUME NEW v \in Vnodes, Recycled(v) PROVE TypeInv'
  <2>1. PICK fo \in FileObject : vnode' = [vnode EXCEPT ![v].fo = fo]
    BY <1>9, ObjectTypes DEF Recycled, TypeInv, ThreadsOK, TypeOK, Vnode
  <2>2. [vnode[v] EXCEPT !.fo = fo] \in Vnode
    BY <2>1 DEF TypeInv, ThreadsOK, TypeOK, Vnode
  <2>3. vnode' \in [Vnodes -> Vnode]
    BY <2>1, <2>2 DEF TypeInv, ThreadsOK, TypeOK
  <2>4. QED
    BY <1>9, <2>3 DEF Recycled, TypeInv, ThreadsOK, TypeOK, disk
<1>10. ASSUME MemoryLost PROVE TypeInv'
  <2>1. 0 \in 0 .. U - 1
    BY SizesAssumption
  <2>2. QED
    BY <1>10, <2>1, ObjectTypes, NoLocType, FreeTypes
    DEF MemoryLost, TypeInv, ThreadsOK, TypeOK, Labels, disk
<1>11. ASSUME Mount PROVE TypeInv'
  BY <1>11, ObjectTypes DEF Mount, TypeInv, ThreadsOK, TypeOK, disk
<1>12. CASE UNCHANGED vars
  BY <1>12 DEF vars, TypeInv, ThreadsOK, TypeOK
<1>13. QED
  BY <1>1, <1>2, <1>3, <1>4, <1>5, <1>6, <1>7, <1>8, <1>9, <1>10, <1>11, <1>12
  DEF Next, Call, Environment, Crash, Unmount

(* Every state variable keeps its type, whatever the callers and the       *)
(* environment do.                                                         *)
THEOREM TypeCorrect == Spec => []TypeOK
<1>1. TypeInv => TypeOK
  BY DEF TypeInv
<1>2. QED
  BY <1>1, TypeInvInit, TypeInvStep, PTL DEF Spec
============================================================================
