----------------------------- MODULE YukiFSDir -----------------------------
(***************************************************************************)
(* The directory is written back whole from a copy that was read before.   *)
(* What the handlers of any number of threads do to it nevertheless fills  *)
(* or empties one slot at a time, as long as the memory behind i_private   *)
(* is not handed out again (MemoryKept).                                   *)
(*                                                                         *)
(* The argument has two halves.  The lock of the directory lets one thread *)
(* at a time be in create or unlink, so that nobody else writes the        *)
(* directory between the read and the write of it (OneInDir, DirCopies);   *)
(* and no file's data block is block 0, so that nothing that is written to *)
(* a file or erased with it goes to the directory (HeldBlocks).  For the   *)
(* latter an inode must not be freed under another name of the cache:      *)
(* every name has an inode of its own (OneName, UnlinkName).               *)
(***************************************************************************)
EXTENDS YukiFSTable

(* Freed memory keeps what it held. *)
MemoryKept == Recycle = {}

DirOps == {"create", "unlink"}

(* One thread at a time holds the lock of the directory. *)
OneInDir == \A t, u \in Threads :
               loc[t].op \in DirOps /\ loc[u].op \in DirOps => t = u

(* The root inode of a mounted volume is what mkfs has made, and create    *)
(* and unlink are called on mounted volumes only.                          *)
RootKnown == mounted => rootfo = Root
DirMounted(r) == r.op \in DirOps => mounted

(* An inode that somebody holds has a block that is not the directory's.   *)
HeldBlocks == \A v \in Vnodes : v \notin FreeVnodes => vnode[v].fo.first_block # 0

(* No two names are cached with the same inode, and the inode that unlink  *)
(* works on is that of its name.                                           *)
OneName == \A m, n \in Names : dentry[m] \in Vnodes /\ dentry[m] = dentry[n] => m = n
UnlinkName(r) == r.op = "unlink" => dentry[r.name] = r.v

(* Two contents of the directory that differ in one slot, which is empty   *)
(* in one of them.                                                         *)
OneSlotApart(a, b) == \E s \in Slot : /\ a[s] = 0 \/ b[s] = 0
                                      /\ \A x \in Slot \ {s} : b[x] = a[x]

(* What is about to be written. *)
Outgoing(l, r) ==
    /\ l = "wr_block" => r.blk # 0
    /\ l \in {"cr_wdir", "ul_wdir"} => OneSlotApart(block[0], r.buf)

DirRest ==
    /\ OneInDir /\ RootKnown /\ HeldBlocks /\ OneName
    /\ \A t \in Threads : DirMounted(loc[t]) /\ UnlinkName(loc[t]) /\ Outgoing(pc[t], loc[t])
DirInv == TableInv /\ DirRest
-----------------------------------------------------------------------------
LEMMA MoveEffect ==
    ASSUME TypeInv, NEW t \in Threads, NEW l, NEW r, Move(t, l, r)
    PROVE  /\ pc'[t] = l /\ loc'[t] = r
           /\ \A u \in Threads \ {t} : pc'[u] = pc[u] /\ loc'[u] = loc[u]
BY DEF TypeInv, TypeOK, Move

(* What the handlers read of the directory of a mounted volume. *)
LEMMA RootRead == ASSUME rootfo = Root PROVE DirReads = {block[0]} /\ rootfo.size \div W = 1
BY SizesAssumption DEF DirReads, Root

(* Who holds an inode depends on dentries and descriptors only. *)
LEMMA SameHeld ==
    ASSUME UNCHANGED <<dentry, file>>
    PROVE  FreeVnodes' = FreeVnodes
BY DEF FreeVnodes, InCache, FdsOf

LEMMA SameMemory ==
    ASSUME DirInv, UNCHANGED memory
    PROVE  HeldBlocks'
BY SameHeld DEF memory, HeldBlocks, DirInv, DirRest

(* A thread moves to label l with locals r. *)
LEMMA DirMove ==
    ASSUME DirInv, NEW t \in Threads, NEW l, NEW r, Move(t, l, r),
           UNCHANGED <<mounted, rootfo, dentry>>, HeldBlocks',
           block'[0] = block[0] \/ loc[t].op \in DirOps,
           r.op \in DirOps => mounted /\ (loc[t].op \in DirOps \/ ~DirBusy),
           UnlinkName(r), Outgoing(l, r)'
    PROVE  DirRest'
<1>1. /\ pc'[t] = l /\ loc'[t] = r
      /\ \A u \in Threads \ {t} : pc'[u] = pc[u] /\ loc'[u] = loc[u]
  BY MoveEffect DEF DirInv, TableInv
<1>2. OneInDir'
  BY <1>1 DEF OneInDir, DirInv, DirRest, DirBusy, DirOps
<1>3. ASSUME NEW u \in Threads
      PROVE  (DirMounted(loc[u]) /\ UnlinkName(loc[u]) /\ Outgoing(pc[u], loc[u]))'
  <2>1. CASE u = t
    BY <1>1, <2>1 DEF DirMounted, UnlinkName, Outgoing
  <2>2. CASE u # t
    <3>1. pc'[u] = pc[u] /\ loc'[u] = loc[u]
      BY <1>1, <2>2
    <3>2. Outgoing(pc[u], loc[u]) /\ DirMounted(loc[u]) /\ UnlinkName(loc[u])
      BY DEF DirInv, DirRest
    <3>3. pc[u] \in {"cr_wdir", "ul_wdir"} => loc[u].op \in DirOps
      BY LocTypes DEF DirInv, TableInv, LocalsFit, CreateLabels, UnlinkLabels, DirOps
    <3>4. pc[u] \in {"cr_wdir", "ul_wdir"} => block'[0] = block[0]
      BY <2>2, <3>3 DEF DirInv, DirRest, OneInDir
    <3>5. Outgoing(pc[u], loc[u])'
      BY <3>1, <3>2, <3>4 DEF Outgoing, OneSlotApart
    <3>6. QED
      BY <3>1, <3>2, <3>5 DEF DirMounted, UnlinkName
  <2>3. QED
    BY <2>1, <2>2
<1>4. QED
  BY <1>2, <1>3 DEF DirRest, DirInv, RootKnown, OneName

(* A thread goes on within its call and changes nothing in memory. *)
LEMMA DirGoesOn ==
    ASSUME DirInv, NEW t \in Threads, NEW l, NEW r, Move(t, l, r), UNCHANGED memory,
           block'[0] = block[0] \/ loc[t].op \in DirOps,
           r.op = loc[t].op, r.name = loc[t].name, r.v = loc[t].v, Outgoing(l, r)'
    PROVE  DirRest'
<1>1. HeldBlocks'
  BY SameMemory
<1>2. DirMounted(loc[t]) /\ UnlinkName(loc[t])
  BY DEF DirInv, DirRest
<1>3. QED
  BY <1>1, <1>2, DirMove DEF DirMounted, UnlinkName, memory

(* A call ends. *)
LEMMA DirReturn ==
    ASSUME DirInv, NEW t \in Threads, Return(t), UNCHANGED <<disk, memory>>
    PROVE  DirRest'
<1>1. HeldBlocks'
  BY SameMemory
<1>2. QED
  BY <1>1, DirMove DEF Return, NoLoc, UnlinkName, Outgoing, DirOps, memory, disk
-----------------------------------------------------------------------------
(* The calls. *)
LEMMA WriteBeginDir ==
    ASSUME DirInv, NEW t \in Threads, NEW fd \in Fds, NEW len \in Lens,
           NEW d \in Data, WriteBegin(t, fd, len, d)
    PROVE  DirRest'
<1>1. PICK r : /\ r.op = "write" /\ r.blk = vnode[file[fd].v].fo.first_block
               /\ Move(t, "wr_block", r)
  BY DEF WriteBegin, NoLoc
<1>2. file[fd].v \in Vnodes /\ file[fd].v \notin FreeVnodes
  BY DEF WriteBegin, IsOpen, FreeVnodes, FdsOf, DirInv, TableInv, TypeInv, TypeOK, File
<1>3. r.blk # 0
  BY <1>1, <1>2 DEF DirInv, DirRest, HeldBlocks
<1>4. HeldBlocks'
  BY SameMemory DEF WriteBegin
<1>5. QED
  BY <1>1, <1>3, <1>4, DirMove DEF WriteBegin, UnlinkName, Outgoing, DirOps, memory, disk

LEMMA CreateBeginDir ==
    ASSUME DirInv, NEW t \in Threads, NEW n \in Names, CreateBegin(t, n)
    PROVE  DirRest'
<1>1. PICK r : r.op = "create" /\ Move(t, "cr_read", r)
  BY DEF CreateBegin, NoLoc
<1>2. HeldBlocks'
  BY SameMemory DEF CreateBegin
<1>3. QED
  BY <1>1, <1>2, DirMove DEF CreateBegin, UnlinkName, Outgoing, DirOps, memory, disk

(* The block that unlink erases is not the directory's. *)
LEMMA UnlinkBeginDir ==
    ASSUME DirInv, NEW t \in Threads, NEW n \in Names, UnlinkBegin(t, n)
    PROVE  DirRest'
<1>1. PICK r : r.op = "unlink" /\ r.name = n /\ r.v = dentry[n] /\ Move(t, "ul_dir", r)
  BY DEF UnlinkBegin, NoLoc
<1>2. dentry[n] \in Vnodes /\ dentry[n] \notin FreeVnodes
  BY DEF UnlinkBegin, FreeVnodes, InCache
<1>3. block'[0] = block[0]
  BY <1>2, ObjectTypes
  DEF UnlinkBegin, DirInv, DirRest, HeldBlocks, TableInv, TypeInv, TypeOK
<1>4. HeldBlocks'
  BY SameMemory DEF UnlinkBegin
<1>5. QED
  BY <1>1, <1>3, <1>4, DirMove DEF UnlinkBegin, UnlinkName, Outgoing, DirOps, memory

(* The steps of the calls. *)
LEMMA WriteBlockDir ==
    ASSUME DirInv, NEW t \in Threads, WriteBlock(t)
    PROVE  block'[0] = block[0] /\ DirRest'
<1> DEFINE r == [loc[t] EXCEPT !.buf = ZeroBlock]
<1>1. r.op = loc[t].op /\ r.name = loc[t].name /\ r.v = loc[t].v /\ Move(t, "wr_size", r)
  BY LocTypes DEF WriteBlock, Loc, DirInv, TableInv
<1>2. loc[t].blk # 0
  BY DEF WriteBlock, DirInv, DirRest, Outgoing
<1>3. block'[0] = block[0]
  BY <1>2, ObjectTypes DEF WriteBlock, DirInv, TableInv, TypeInv, TypeOK
<1> HIDE DEF r
<1>4. QED
  BY <1>1, <1>3, DirGoesOn DEF WriteBlock, Outgoing

(* A size that is set leaves every block where it is. *)
LEMMA SizeHeld ==
    ASSUME DirInv, UNCHANGED dentry, NEW v \in Vnodes, NEW n, NEW m,
           \/ vnode' = [vnode EXCEPT ![v].i_size = n, ![v].fo.size = m]
           \/ vnode' = [vnode EXCEPT ![v].fo.size = m],
           \A w \in Vnodes : FdsOf(w)' = FdsOf(w)
    PROVE  HeldBlocks'
<1>1. FreeVnodes' = FreeVnodes
  BY DEF FreeVnodes, InCache
<1>2. vnode \in [Vnodes -> Vnode]
  BY DEF DirInv, TableInv, TypeInv, TypeOK
<1>3. ASSUME NEW w \in Vnodes PROVE vnode'[w].fo.first_block = vnode[w].fo.first_block
  BY <1>2 DEF Vnode, FileObject
<1>4. QED
  BY <1>1, <1>3 DEF HeldBlocks, DirInv, DirRest

LEMMA SizesDir ==
    ASSUME DirInv, NEW t \in Threads, WriteSize(t) \/ UnlinkWriteDir(t)
    PROVE  DirRest'
<1>1. loc[t] \in Loc /\ loc[t].v \in Vnodes
  BY LocTypes
  DEF WriteSize, UnlinkWriteDir, LocalsFit, WriteLabels, UnlinkLabels, DirInv, TableInv
<1>2. DirMounted(loc[t]) /\ UnlinkName(loc[t])
  BY DEF DirInv, DirRest
<1>3. CASE WriteSize(t)
  <2>1. \A w \in Vnodes : FdsOf(w)' = FdsOf(w)
    BY <1>3 DEF WriteSize, FdsOf, DirInv, TableInv, TypeInv, TypeOK, File
  <2>2. HeldBlocks'
    BY <1>1, <1>3, <2>1, SizeHeld DEF WriteSize
  <2>3. QED
    BY <1>2, <1>3, <2>2, DirMove DEF WriteSize, DirMounted, Outgoing, disk
<1>4. CASE UnlinkWriteDir(t)
  <2> DEFINE r == [loc[t] EXCEPT !.buf = ZeroBlock]
  <2>1. r.op = "unlink" /\ r.name = loc[t].name /\ r.v = loc[t].v /\ Move(t, "us_read", r)
    BY <1>1, <1>4, LocTypes DEF UnlinkWriteDir, Loc, DirInv, TableInv, LocalsFit, UnlinkLabels
  <2>2. loc[t].op = "unlink"
    BY <1>1, <2>1 DEF Loc
  <2>3. HeldBlocks'
    BY <1>1, <1>4, SizeHeld DEF UnlinkWriteDir, FdsOf
  <2> HIDE DEF r
  <2>4. QED
    BY <1>2, <1>4, <2>1, <2>2, <2>3, DirMove
    DEF UnlinkWriteDir, UnlinkName, DirMounted, DirOps, Outgoing
<1>5. QED
  BY <1>3, <1>4

(* create fills one empty slot. *)
LEMMA CreateReadDirDir ==
    ASSUME DirInv, NEW t \in Threads, CreateReadDir(t)
    PROVE  DirRest'
<1>1. rootfo = Root /\ loc[t] \in Loc
  BY LocTypes DEF CreateReadDir, DirInv, DirRest, RootKnown, DirMounted, DirOps,
     TableInv, LocalsFit, CreateLabels
<1>2. PICK s, i, tbl :
          /\ s \in Slot /\ i \in Inode /\ IsFirst(s, EmptySlots(block[0]))
          /\ Move(t, "cr_wdir", [loc[t] EXCEPT !.tbl = tbl, !.buf = [block[0] EXCEPT ![s] = i]])
  BY <1>1, RootRead DEF CreateReadDir
<1> DEFINE r == [loc[t] EXCEPT !.tbl = tbl, !.buf = [block[0] EXCEPT ![s] = i]]
<1>3. block[0] \in Block
  BY ObjectTypes DEF DirInv, TableInv, TypeInv, TypeOK
<1>4. OneSlotApart(block[0], r.buf)
  <2>1. block[0][s] = 0
    BY <1>2 DEF IsFirst, EmptySlots
  <2>2. r.buf = [block[0] EXCEPT ![s] = i]
    BY <1>1 DEF Loc
  <2>3. QED
    BY <1>2, <1>3, <2>1, <2>2 DEF OneSlotApart, Block
<1>5. r.op = loc[t].op /\ r.name = loc[t].name /\ r.v = loc[t].v /\ Move(t, "cr_wdir", r)
  BY <1>1, <1>2 DEF Loc
<1> HIDE DEF r
<1>6. QED
  BY <1>4, <1>5, DirGoesOn DEF CreateReadDir, Outgoing, disk

(* unlink empties one slot. *)
LEMMA UnlinkReadDirDir ==
    ASSUME DirInv, NEW t \in Threads, UnlinkReadDir(t)
    PROVE  DirRest'
<1>1. rootfo = Root /\ loc[t] \in Loc
  BY LocTypes DEF UnlinkReadDir, DirInv, DirRest, RootKnown, DirMounted, DirOps,
     TableInv, LocalsFit, UnlinkLabels
<1>2. PICK s \in Slot :
          Move(t, "ul_wdir", [loc[t] EXCEPT !.buf = [block[0] EXCEPT ![s] = 0]])
  BY <1>1, RootRead DEF UnlinkReadDir
<1> DEFINE r == [loc[t] EXCEPT !.buf = [block[0] EXCEPT ![s] = 0]]
<1>3. block[0] \in Block
  BY ObjectTypes DEF DirInv, TableInv, TypeInv, TypeOK
<1>4. OneSlotApart(block[0], r.buf)
  BY <1>1, <1>3 DEF OneSlotApart, Block, Loc
<1>5. r.op = loc[t].op /\ r.name = loc[t].name /\ r.v = loc[t].v /\ Move(t, "ul_wdir", r)
  BY <1>1, <1>2 DEF Loc
<1> HIDE DEF r
<1>6. QED
  BY <1>4, <1>5, DirGoesOn DEF UnlinkReadDir, Outgoing, disk

LEMMA CreateWriteDirDir ==
    ASSUME DirInv, NEW t \in Threads, CreateWriteDir(t)
    PROVE  DirRest'
<1> DEFINE r == [loc[t] EXCEPT !.buf = ZeroBlock]
<1>1. r.op = loc[t].op /\ r.name = loc[t].name /\ r.v = loc[t].v /\ Move(t, "cr_wtab", r)
  BY LocTypes DEF CreateWriteDir, Loc, DirInv, TableInv
<1>2. loc[t].op \in DirOps
  BY LocTypes DEF CreateWriteDir, DirInv, TableInv, LocalsFit, CreateLabels, DirOps
<1> HIDE DEF r
<1>3. QED
  BY <1>1, <1>2, DirGoesOn DEF CreateWriteDir, Outgoing

(* The same call, further on. *)
SameCall(r, q) == r.op = q.op /\ r.name = q.name /\ r.v = q.v

(* The steps that go over the table. *)
LEMMA TableStepsDir ==
    ASSUME DirInv, NEW t \in Threads,
           \/ CreateReadTable(t) \/ CreateWriteTable(t)
           \/ StatReadTable(t) \/ StatWriteTable(t) \/ StatWriteSuper(t) \/ StatFails(t)
    PROVE  block' = block /\ DirRest'
<1>1. PICK l, k, tbl, fo, used :
          /\ l \in Labels \ {"cr_wdir", "ul_wdir", "wr_block"}
          /\ \/ Move(t, l, [loc[t] EXCEPT !.k = k, !.tbl = tbl])
             \/ Move(t, l, [loc[t] EXCEPT !.k = k])
             \/ Move(t, l, [loc[t] EXCEPT !.k = k, !.tbl = tbl, !.fo = fo])
             \/ Move(t, l, [loc[t] EXCEPT !.k = k, !.tbl = tbl, !.used = used])
             \/ Move(t, l, loc[t])
  <2> USE DEF Labels, CreateLabels, UnlinkLabels, WriteLabels, StatLabels
  <2>1. CASE CreateReadTable(t)
    BY <2>1 DEF CreateReadTable
  <2>2. CASE CreateWriteTable(t)
    BY <2>2 DEF CreateWriteTable
  <2>3. CASE StatReadTable(t)
    BY <2>3 DEF StatReadTable
  <2>4. CASE StatWriteTable(t)
    BY <2>4 DEF StatWriteTable
  <2>5. CASE StatWriteSuper(t)
    BY <2>5 DEF StatWriteSuper
  <2>6. CASE StatFails(t)
    BY <2>6 DEF StatFails
  <2>7. QED
    BY <2>1, <2>2, <2>3, <2>4, <2>5, <2>6
<1>2. PICK r : Move(t, l, r) /\ SameCall(r, loc[t])
  <2>1. loc[t] \in Loc
    BY LocTypes DEF DirInv, TableInv
  <2>2. /\ SameCall([loc[t] EXCEPT !.k = k, !.tbl = tbl], loc[t])
        /\ SameCall([loc[t] EXCEPT !.k = k], loc[t])
        /\ SameCall([loc[t] EXCEPT !.k = k, !.tbl = tbl, !.fo = fo], loc[t])
        /\ SameCall([loc[t] EXCEPT !.k = k, !.tbl = tbl, !.used = used], loc[t])
        /\ SameCall(loc[t], loc[t])
    BY <2>1 DEF SameCall, Loc
  <2>3. QED
    BY <1>1, <2>2
<1>3. UNCHANGED <<block, memory>>
  BY DEF CreateReadTable, CreateWriteTable, StatReadTable, StatWriteTable,
     StatWriteSuper, StatFails, disk
<1>4. QED
  BY <1>1, <1>2, <1>3, DirGoesOn DEF SameCall, Outgoing

LEMMA CountsDir ==
    ASSUME DirInv, NEW t \in Threads, StatReset(t) \/ StatCount(t)
    PROVE  DirRest'
<1>1. PICK l, r : /\ l \in {"us_count", "us_super"} /\ Move(t, l, r)
                  /\ r.op = loc[t].op /\ r.name = loc[t].name /\ r.v = loc[t].v
  BY LocTypes DEF StatReset, StatCount, Loc, DirInv, TableInv
<1>2. UNCHANGED <<disk, mounted, rootfo, dentry, vnode, file>>
  BY DEF StatReset, StatCount
<1>3. HeldBlocks'
  BY <1>2, SameHeld DEF HeldBlocks, DirInv, DirRest
<1>4. DirMounted(loc[t]) /\ UnlinkName(loc[t])
  BY DEF DirInv, DirRest
<1>5. QED
  BY <1>1, <1>2, <1>3, <1>4, DirMove DEF DirMounted, UnlinkName, Outgoing, disk

LEMMA ReturnsDir ==
    ASSUME DirInv, NEW t \in Threads,
           \/ WriteReturn(t) \/ CreateNoSpace(t) \/ CreateReturn(t)
           \/ UnlinkNoEntry(t) \/ NoBlocks(t) \/ OpFails(t)
    PROVE  block' = block /\ DirRest'
BY DirReturn DEF WriteReturn, CreateNoSpace, CreateReturn, UnlinkNoEntry, NoBlocks,
   OpFails, disk

(* An inode that no name and no descriptor holds after the step may be     *)
(* freed by it.                                                            *)
LEMMA DropHeld ==
    ASSUME DirInv, NEW v, NEW held \in BOOLEAN, vnode' = Drop(vnode, v, held),
           FreeVnodes \subseteq FreeVnodes', ~held /\ v \in Vnodes => v \in FreeVnodes'
    PROVE  HeldBlocks'
BY DEF HeldBlocks, DirInv, DirRest, Drop, TableInv, TypeInv, TypeOK

(* A dentry that is dropped, or turned negative, was the only one of its   *)
(* inode.                                                                  *)
LEMMA UncacheHeld ==
    ASSUME DirInv, NEW n \in Names, NEW v \in Vnodes, dentry[n] = v,
           NEW d \in {None, Negative},
           dentry' = [dentry EXCEPT ![n] = d], UNCHANGED file
    PROVE  /\ FreeVnodes \subseteq FreeVnodes'
           /\ FdsOf(v) = {} => v \in FreeVnodes'
           /\ OneName'
<1>1. dentry \in [Names -> Vnodes \cup {None, Negative}] /\ d \notin Vnodes
  BY VnodesAssumption DEF DirInv, TableInv, TypeInv, TypeOK
<1>2. \A m \in Names : dentry'[m] \in Vnodes => m # n /\ dentry'[m] = dentry[m]
  BY <1>1
<1>3. OneName'
  BY <1>2 DEF OneName, DirInv, DirRest
<1>4. ~InCache(v)'
  BY <1>1, <1>2 DEF InCache, OneName, DirInv, DirRest
<1>5. \A w \in Vnodes : InCache(w)' => InCache(w)
  BY <1>2 DEF InCache
<1>6. QED
  BY <1>3, <1>4, <1>5 DEF FreeVnodes, FdsOf

LEMMA UnlinkReturnDir ==
    ASSUME DirInv, NEW t \in Threads, UnlinkReturn(t)
    PROVE  DirRest'
<1> DEFINE n == loc[t].name
           v == loc[t].v
           d == IF FdsOf(v) # {} THEN None ELSE Negative
<1>1. n \in Names /\ v \in Vnodes /\ dentry[n] = v
  BY LocTypes DEF UnlinkReturn, LocalsFit, DirInv, DirRest, TableInv, UnlinkName
<1>2. dentry' = [dentry EXCEPT ![n] = d] /\ d \in {None, Negative}
      /\ vnode' = Drop(vnode, v, FdsOf(v) # {})
      /\ UNCHANGED <<disk, mounted, sbi, rootfo, file>> /\ Move(t, "idle", NoLoc)
  BY DEF UnlinkReturn, Return
<1>3. FreeVnodes \subseteq FreeVnodes' /\ OneName' /\ (FdsOf(v) = {} => v \in FreeVnodes')
  BY <1>1, <1>2, UncacheHeld
<1>4. HeldBlocks'
  BY <1>2, <1>3, DropHeld
<1>5. /\ loc'[t] = NoLoc /\ pc'[t] = "idle"
      /\ \A u \in Threads \ {t} : loc'[u] = loc[u] /\ pc'[u] = pc[u]
  BY <1>2, MoveEffect DEF DirInv, TableInv
<1>6. OneInDir'
  BY <1>5 DEF OneInDir, DirInv, DirRest, DirOps, NoLoc
<1>7. ASSUME NEW u \in Threads
      PROVE  (DirMounted(loc[u]) /\ UnlinkName(loc[u]) /\ Outgoing(pc[u], loc[u]))'
  <2>1. CASE u = t
    BY <1>5, <2>1 DEF DirMounted, UnlinkName, Outgoing, DirOps, NoLoc
  <2>2. CASE u # t
    <3>1. loc'[u] = loc[u] /\ pc'[u] = pc[u] /\ loc[u].op # "unlink"
      BY <1>5, <2>2 DEF OneInDir, DirInv, DirRest, DirOps, UnlinkReturn
    <3>2. QED
      BY <1>2, <3>1 DEF DirMounted, UnlinkName, Outgoing, DirInv, DirRest, OneSlotApart, disk
  <2>3. QED
    BY <2>1, <2>2
<1>8. QED
  BY <1>2, <1>3, <1>4, <1>6, <1>7 DEF DirRest, RootKnown, DirInv

LEMMA StepDir ==
    ASSUME DirInv, NEW t \in Threads, Step(t)
    PROVE  DirRest'
BY WriteBlockDir, SizesDir, CreateReadDirDir, UnlinkReadDirDir, CreateWriteDirDir,
   TableStepsDir, CountsDir, ReturnsDir, UnlinkReturnDir
DEF Step, Work
-----------------------------------------------------------------------------
(* Steps outside the handlers. *)
LEMMA MemoryDir ==
    ASSUME DirInv, UNCHANGED <<block, mounted, rootfo, pc, loc>>, HeldBlocks', OneName',
           \A t \in Threads : UnlinkName(loc[t])'
    PROVE  DirRest'
BY DEF DirInv, DirRest, OneInDir, RootKnown, DirMounted, Outgoing, OneSlotApart

(* What a lookup does when it finds the name. *)
LEMMA LookupFinds ==
    ASSUME NEW n \in Names, Lookup(n)
    PROVE  \E v \in FreeVnodes, i \in Inode \ {0} :
             /\ dentry' = [dentry EXCEPT ![n] = v]
             /\ vnode' = [vnode EXCEPT ![v] = [fo |-> itable[i], i_size |-> itable[i].size,
                                               idx |-> i]]
             /\ itable[i].name = n /\ \E dir \in DirReads, s \in Slot : dir[s] = i
<1>1. PICK dir \in DirReads, v \in FreeVnodes :
          /\ dentry' = [dentry EXCEPT ![n] = v]
          /\ \E s \in SlotsOf(dir, itable, n) :
                vnode' = [vnode EXCEPT ![v] = [fo |-> itable[dir[s]],
                                               i_size |-> itable[dir[s]].size,
                                               idx |-> dir[s]]]
  BY Zenon DEF Lookup
<1>2. PICK s \in SlotsOf(dir, itable, n) :
          vnode' = [vnode EXCEPT ![v] = [fo |-> itable[dir[s]],
                                         i_size |-> itable[dir[s]].size, idx |-> dir[s]]]
  BY <1>1
<1>3. dir[s] \in Inode \ {0} /\ itable[dir[s]].name = n /\ s \in Slot
  BY <1>2 DEF SlotsOf
<1>4. QED
  BY <1>1, <1>2, <1>3

(* A lookup gives a name an inode that nobody holds, and the block of a    *)
(* file that has a name.                                                   *)
LEMMA LookupDir ==
    ASSUME DirInv, NEW n \in Names, Lookup(n)
    PROVE  DirRest'
<1>1. PICK v \in FreeVnodes, i \in Inode \ {0} :
          /\ dentry' = [dentry EXCEPT ![n] = v]
          /\ vnode' = [vnode EXCEPT ![v] = [fo |-> itable[i], i_size |-> itable[i].size,
                                            idx |-> i]]
          /\ itable[i].name = n
  BY LookupFinds
<1>2. itable[i].first_block # 0
  <2>1. SoundObject(itable[i], i)
    BY DEF DirInv, TableInv, TableRest, SoundTable
  <2>2. QED
    BY <1>1, <2>1, NamesAssumption DEF SoundObject, FreeObject
<1>3. dentry \in [Names -> Vnodes \cup {None, Negative}] /\ vnode \in [Vnodes -> Vnode]
      /\ v \in Vnodes
  BY DEF DirInv, TableInv, TypeInv, TypeOK, FreeVnodes
<1>4. \A m \in Names : dentry[m] # v
  BY DEF FreeVnodes, InCache
<1>5. OneName'
  BY <1>1, <1>3, <1>4 DEF OneName, DirInv, DirRest
<1>6. FreeVnodes \ {v} \subseteq FreeVnodes'
  BY <1>1, <1>3 DEF FreeVnodes, InCache, FdsOf, Lookup
<1>7. HeldBlocks'
  <2>1. vnode'[v].fo.first_block # 0
    BY <1>1, <1>2, <1>3
  <2>2. \A w \in Vnodes \ {v} : vnode'[w] = vnode[w]
    BY <1>1, <1>3
  <2>3. QED
    BY <1>6, <2>1, <2>2 DEF HeldBlocks, DirInv, DirRest
<1>8. \A t \in Threads : UnlinkName(loc[t])'
  BY DEF Lookup, DirBusy, UnlinkName
<1>9. QED
  BY <1>5, <1>7, <1>8, MemoryDir DEF Lookup, disk

LEMMA OpenDir ==
    ASSUME DirInv, NEW fd \in Fds, NEW n \in Names, NEW app \in BOOLEAN,
           NEW trunc \in BOOLEAN, Open(fd, n, app, trunc)
    PROVE  DirRest'
<1>1. dentry[n] \in Vnodes /\ vnode \in [Vnodes -> Vnode]
  BY DEF Open, DirInv, TableInv, TypeInv, TypeOK
<1>2. \A w \in Vnodes : vnode'[w].fo = vnode[w].fo
  BY <1>1 DEF Open, Vnode
<1>3. \A w \in Vnodes : w \in FreeVnodes => w \in FreeVnodes'
  BY <1>1 DEF Open, FreeVnodes, InCache, FdsOf, DirInv, TableInv, TypeInv, TypeOK
<1>4. HeldBlocks'
  BY <1>2, <1>3 DEF HeldBlocks, DirInv, DirRest
<1>5. QED
  BY <1>4, MemoryDir DEF Open, disk, OneName, UnlinkName, DirInv, DirRest

LEMMA CloseDir ==
    ASSUME DirInv, NEW fd \in Fds, Close(fd)
    PROVE  DirRest'
<1> DEFINE v    == file[fd].v
           held == InCache(v) \/ FdsOf(v) # {fd}
<1>1. v \in Vnodes /\ vnode' = Drop(vnode, v, held) /\ UNCHANGED dentry
      /\ file' = [file EXCEPT ![fd] = Closed]
  BY DEF Close, IsOpen, DirInv, TableInv, TypeInv, TypeOK, File
<1>2. file \in [Fds -> File] /\ None \notin Vnodes
  BY VnodesAssumption DEF DirInv, TableInv, TypeInv, TypeOK
<1>3. \A w \in Vnodes : FdsOf(w)' = FdsOf(w) \ {fd}
  BY <1>1, <1>2 DEF FdsOf, Closed
<1>4. FreeVnodes \subseteq FreeVnodes' /\ (~held => v \in FreeVnodes')
  BY <1>1, <1>3 DEF FreeVnodes, InCache
<1>5. HeldBlocks'
  <2>1. held \in BOOLEAN
    BY DEF InCache
  <2> HIDE DEF held
  <2>2. QED
    BY <1>1, <1>4, <2>1, DropHeld
<1>6. QED
  BY <1>1, <1>5, MemoryDir DEF Close, disk, OneName, UnlinkName, DirInv, DirRest

LEMMA ReadsDir ==
    ASSUME DirInv, NEW fd \in Fds, Read(fd)
    PROVE  DirRest'
<1>1. \A w \in Vnodes : FdsOf(w)' = FdsOf(w)
  BY DEF Read, FdsOf, DirInv, TableInv, TypeInv, TypeOK, File
<1>2. HeldBlocks'
  BY <1>1 DEF Read, HeldBlocks, FreeVnodes, InCache, DirInv, DirRest
<1>3. QED
  BY <1>2, MemoryDir DEF Read, disk, OneName, UnlinkName, DirInv, DirRest

LEMMA EvictDir ==
    ASSUME DirInv, NEW n \in Names, Evict(n)
    PROVE  DirRest'
<1>1. dentry \in [Names -> Vnodes \cup {None, Negative}]
  BY DEF DirInv, TableInv, TypeInv, TypeOK
<1>2. \A t \in Threads : UnlinkName(loc[t])'
  BY <1>1 DEF Evict, UnlinkName, DirInv, DirRest
<1>3. CASE dentry[n] \in Vnodes
  <2>1. FreeVnodes \subseteq FreeVnodes' /\ dentry[n] \in FreeVnodes' /\ OneName'
    BY <1>3, UncacheHeld DEF Evict
  <2>2. HeldBlocks'
    BY <2>1, DropHeld DEF Evict
  <2>3. QED
    BY <1>2, <2>1, <2>2, MemoryDir DEF Evict, disk
<1>4. CASE dentry[n] \notin Vnodes
  <2>1. vnode' = vnode
    BY <1>4 DEF Evict, Drop
  <2>2. \A m \in Names : dentry'[m] \in Vnodes => dentry'[m] = dentry[m]
    BY <1>1, VnodesAssumption DEF Evict
  <2>3. OneName'
    BY <2>2 DEF OneName, DirInv, DirRest
  <2>4. \A v \in Vnodes : v \in FreeVnodes => v \in FreeVnodes'
    BY <2>2 DEF FreeVnodes, InCache, FdsOf, Evict
  <2>5. HeldBlocks'
    BY <2>1, <2>4 DEF HeldBlocks, DirInv, DirRest
  <2>6. QED
    BY <1>2, <2>3, <2>5, MemoryDir DEF Evict, disk
<1>5. QED
  BY <1>3, <1>4

LEMMA LostDir ==
    ASSUME DirInv, MemoryLost
    PROVE  DirRest'
<1>1. HeldBlocks'
  BY VnodesAssumption DEF MemoryLost, HeldBlocks, FreeVnodes, InCache, FdsOf, Closed
<1>2. OneName'
  BY VnodesAssumption DEF MemoryLost, OneName
<1>3. QED
  BY <1>1, <1>2
  DEF MemoryLost, DirRest, OneInDir, RootKnown, DirMounted, UnlinkName, Outgoing,
      DirOps, NoLoc

LEMMA MountDir ==
    ASSUME DirInv, Mount
    PROVE  DirRest'
<1>1. HeldBlocks'
  BY SameHeld DEF Mount, HeldBlocks, DirInv, DirRest
<1>2. rootfo' = Root
  BY DEF Mount, DirInv, TableInv, TableRest, SoundTable
<1>3. QED
  BY <1>1, <1>2 DEF Mount, disk, DirInv, DirRest, OneInDir, RootKnown, OneName,
     DirMounted, UnlinkName, Outgoing, OneSlotApart

LEMMA DirInvStep == NoClash /\ MemoryKept /\ DirInv /\ [Next]_vars => DirInv'
<1> SUFFICES ASSUME NoClash, MemoryKept, DirInv, [Next]_vars PROVE DirRest'
  BY TableInvStep DEF DirInv
<1>1. CASE Call
  BY <1>1, LookupDir, OpenDir, CloseDir, ReadsDir, WriteBeginDir, CreateBeginDir,
     UnlinkBeginDir DEF Call
<1>2. CASE \E t \in Threads : Step(t)
  BY <1>2, StepDir
<1>3. CASE Environment
  <2>1. ~\E v \in Vnodes : Recycled(v)
    BY DEF MemoryKept, Recycled
  <2>2. QED
    BY <1>3, <2>1, EvictDir, LostDir, MountDir DEF Environment, Crash, Unmount
<1>4. CASE UNCHANGED vars
  <2>1. HeldBlocks'
    BY <1>4, SameMemory DEF vars, memory
  <2>2. QED
    BY <1>4, <2>1 DEF vars, DirInv, DirRest, OneInDir, RootKnown, OneName, DirMounted,
       UnlinkName, Outgoing, OneSlotApart
<1>5. QED
  BY <1>1, <1>2, <1>3, <1>4 DEF Next

LEMMA DirInvInit == Init => DirInv
<1> SUFFICES ASSUME Init PROVE DirRest
  BY TableInvInit DEF DirInv
<1>1. HeldBlocks /\ OneName
  BY VnodesAssumption DEF Init, HeldBlocks, OneName, FreeVnodes, InCache, FdsOf, Closed
<1>2. QED
  BY <1>1 DEF Init, DirRest, OneInDir, RootKnown, DirMounted, UnlinkName, Outgoing,
     DirOps, NoLoc

(* Whoever holds the directory holds it alone, and no inode that a name or *)
(* a descriptor holds has the block of the directory for its data.         *)
THEOREM DirectoryCorrect == ASSUME NoClash, MemoryKept PROVE Spec => []DirInv
BY DirInvInit, DirInvStep, PTL DEF Spec
-----------------------------------------------------------------------------
(* The steps that change the block of the directory. *)
LEMMA DirWritten ==
    ASSUME NoClash, MemoryKept, DirInv, [Next]_vars, block'[0] # block[0]
    PROVE  \E t \in Threads : CreateWriteDir(t) \/ UnlinkWriteDir(t)
<1>1. ASSUME NEW t \in Threads, NEW n \in Names, UnlinkBegin(t, n) PROVE FALSE
  <2>1. dentry[n] \in Vnodes /\ dentry[n] \notin FreeVnodes
    BY <1>1 DEF UnlinkBegin, FreeVnodes, InCache
  <2>2. QED
    BY <1>1, <2>1, ObjectTypes
    DEF UnlinkBegin, DirInv, DirRest, HeldBlocks, TableInv, TypeInv, TypeOK
<1>2. CASE Call
  BY <1>1, <1>2 DEF Call, Lookup, Open, Close, Read, WriteBegin, CreateBegin, disk
<1>3. CASE \E t \in Threads : Step(t)
  <2>1. PICK t \in Threads : Step(t)
    BY <1>3
  <2>2. ~(StatReset(t) \/ StatCount(t) \/ WriteSize(t) \/ UnlinkReturn(t)
          \/ CreateReadDir(t) \/ UnlinkReadDir(t))
    BY DEF StatReset, StatCount, WriteSize, UnlinkReturn, CreateReadDir, UnlinkReadDir, disk
  <2>3. QED
    BY <2>1, <2>2, WriteBlockDir, TableStepsDir, ReturnsDir DEF Step, Work
<1>4. CASE Environment
  BY <1>4 DEF Environment, Evict, Recycled, Crash, Unmount, MemoryLost, Mount, disk
<1>5. CASE UNCHANGED vars
  BY <1>5 DEF vars
<1>6. QED
  BY <1>2, <1>3, <1>4, <1>5 DEF Next

(* Whatever the threads do and wherever they are stopped, each write of    *)
(* the directory fills one empty slot or empties one: no entry that        *)
(* another call has made is lost or comes back.                            *)
THEOREM EntriesKept == ASSUME NoClash, MemoryKept PROVE Spec => NoLostEntry
<1>1. DirInv /\ [Next]_vars /\ block'[0] # block[0] => OneSlotApart(block[0], block'[0])
  <2> SUFFICES ASSUME DirInv, [Next]_vars, block'[0] # block[0]
               PROVE  OneSlotApart(block[0], block'[0])
    OBVIOUS
  <2>1. PICK t \in Threads : CreateWriteDir(t) \/ UnlinkWriteDir(t)
    BY DirWritten
  <2>2. Outgoing(pc[t], loc[t]) /\ rootfo = Root
    BY <2>1, LocTypes DEF DirInv, DirRest, RootKnown, DirMounted, TableInv, LocalsFit,
       CreateWriteDir, UnlinkWriteDir, CreateLabels, UnlinkLabels, DirOps
  <2>3. block'[0] = loc[t].buf
    BY <2>1, <2>2, ObjectTypes
    DEF CreateWriteDir, UnlinkWriteDir, Root, DirInv, TableInv, TypeInv, TypeOK
  <2>4. QED
    BY <2>1, <2>2, <2>3 DEF Outgoing, CreateWriteDir, UnlinkWriteDir
<1>2. DirInv /\ DirInv' /\ [Next]_vars =>
        [block'[0] # block[0] =>
            \E s \in Slot : /\ block[0][s] = 0 \/ block'[0][s] = 0
                            /\ \A x \in Slot \ {s} : block'[0][x] = block[0][x]]_vars
  BY <1>1 DEF OneSlotApart
<1>3. QED
  BY <1>2, DirectoryCorrect, PTL DEF Spec, NoLostEntry
=============================================================================
