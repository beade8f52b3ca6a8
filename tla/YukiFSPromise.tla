--------------------------- MODULE YukiFSPromise ----------------------------
(***************************************************************************)
(* YukiFS implements Files, when one call is made at a time and nothing    *)
(* fails: every step of the module is one step of the promise or none.     *)
(*                                                                         *)
(* Two things are needed beyond what YukiFSKeeps knows.  A block that no   *)
(* file has is blank, though nobody clears one when it is handed out: it   *)
(* is unlink that clears it, before the inode is free (Blanks).  And the   *)
(* locals of a write and an unlink name the block and the size that the    *)
(* cached inode has (PromiseFits).                                         *)
(***************************************************************************)
EXTENDS YukiFSKeeps

(* The block of an inode that is free, or that no slot names, is blank.    *)
Blanks == \A i \in Inode \ {0} :
    itable[i].in_use = 0 \/ (\A s \in Slot : block[0][s] # i) => block[i] = ZeroBlock

(* A write has the block and leaves the size of the cached inode, and what *)
(* unlink is about to let go of has been cleared.                          *)
PromiseFits(l, r) ==
    /\ l = "wr_block" => r.blk = vnode[r.v].fo.first_block
    /\ r.op = "write" /\ l \in StatLabels \cup {"ret"} => vnode[r.v].fo.size = r.end
    /\ l \in UnlinkLabels => block[r.blk] = ZeroBlock

(* At every step, between calls and within them, the directory fits the    *)
(* table that the call will have left, the cached inodes fit both, every   *)
(* copy of the table is exact, a free block is blank, and the locals of    *)
(* the call are those of its file (create, unlink, write and update_statfs *)
(* of file.c 180-713).                                                     *)
PromiseRest == Blanks /\ \A t \in Threads : PromiseFits(pc[t], loc[t])
PromiseInv == KeepInv /\ PromiseRest
-----------------------------------------------------------------------------
(* The invariant. *)
LEMMA PromiseMove ==
    ASSUME OneCaller, KeepInv, NEW t \in Threads, NEW l, NEW r, Move(t, l, r), Blanks',
           PromiseFits(l, r)'
    PROVE  PromiseRest'
<1>1. pc'[t] = l /\ loc'[t] = r /\ \A u \in Threads : u = t
  BY MoveEffect DEF KeepInv, CallInv, DirInv, TableInv, OneCaller
<1>2. QED
  BY <1>1 DEF PromiseRest

(* The object of the file that a write or an unlink is at work on, up to   *)
(* the step that changes its size.                                         *)
LEMMA FileAtWork ==
    ASSUME OneCaller, NoClash, KeepInv, NEW t \in Threads,
           \/ pc[t] \in WriteLabels
           \/ loc[t].op = "write" /\ pc[t] \in {"us_reset", "us_count", "us_super", "ret"}
    PROVE  \E n \in Names, s \in Slot :
             /\ vnode[loc[t].v].fo.name = n /\ block[0][s] = vnode[loc[t].v].fo.first_block
             /\ block[0][s] \in Inode \ {0} /\ s \in SlotsOf(block[0], itable, n)
             /\ itable[block[0][s]] = vnode[loc[t].v].fo
             /\ itable[block[0][s]].in_use = 1
<1> DEFINE v == loc[t].v
<1>1. loc[t].op = "write" /\ v \in Vnodes /\ Coherent(itable)
  BY CallLocals DEF LocalsFit, WriteLabels, Good, Settled
<1>2. PICK n \in Names : dentry[n] = v
  <2>1. v \notin FreeVnodes
    BY <1>1, WriterHolds DEF KeepInv, FreeVnodes
  <2>2. QED
    BY <1>1, <2>1, HeldCached DEF InCache, KeepInv
<1>3. ~Gone(n)
  BY <1>1 DEF Gone, OneCaller
<1>4. PICK b \in Inode \ {0}, s \in Slot :
          /\ b = vnode[v].fo.first_block /\ vnode[v].fo \in FileObject
          /\ itable[b] = vnode[v].fo /\ itable[b].name = n /\ block[0][s] = b
  BY <1>1, <1>2, <1>3, CachedObject
<1>5. itable[b].in_use = 1
  BY <1>4, ObjectAt DEF KeepInv, CallInv, DirInv
<1>6. QED
  BY <1>4, <1>5 DEF SlotsOf

LEMMA BeginPromise ==
    ASSUME OneCaller, PromiseInv, NEW t \in Threads,
           \/ \E n \in Names : CreateBegin(t, n)
           \/ \E fd \in Fds, len \in Lens, d \in Data : WriteBegin(t, fd, len, d)
    PROVE  PromiseRest'
<1>1. Blanks'
  BY DEF CreateBegin, WriteBegin, disk, Blanks, PromiseInv, PromiseRest
<1>2. PICK l, r : /\ Move(t, l, r) /\ UNCHANGED vnode
                  /\ \/ l = "cr_read" /\ r.op = "create"
                     \/ l = "wr_block" /\ r.blk = vnode[r.v].fo.first_block
  <2>1. ASSUME NEW n \in Names, CreateBegin(t, n)
        PROVE  \E r : Move(t, "cr_read", r) /\ r.op = "create" /\ UNCHANGED vnode
    <3> DEFINE q == [NoLoc EXCEPT !.op = "create", !.name = n]
    <3>1. Move(t, "cr_read", q) /\ q.op = "create" /\ UNCHANGED vnode
      BY <2>1 DEF CreateBegin, NoLoc, memory
    <3> HIDE DEF q
    <3>2. QED
      BY <3>1
  <2>2. ASSUME NEW fd \in Fds, NEW len \in Lens, NEW d \in Data, WriteBegin(t, fd, len, d)
        PROVE  \E r : Move(t, "wr_block", r) /\ r.blk = vnode[r.v].fo.first_block /\ UNCHANGED vnode
    <3> DEFINE f  == file[fd]
               fo == vnode[f.v].fo
               e  == f.pos + (IF len > W THEN W ELSE len)
               b  == WriteBuffer(block[fo.first_block], f.app, fo.size, f.pos, e, d)
               q  == [NoLoc EXCEPT !.op = "write", !.v = f.v, !.fd = fd,
                                   !.blk = fo.first_block, !.end = e, !.buf = b]
    <3>1. Move(t, "wr_block", q) /\ UNCHANGED vnode
      BY <2>2 DEF WriteBegin, memory
    <3> HIDE DEF e, b
    <3>2. q.blk = fo.first_block /\ q.v = f.v
      BY DEF NoLoc
    <3> HIDE DEF q
    <3>3. QED
      BY <3>1, <3>2
  <2>3. QED
    BY <2>1, <2>2
<1>3. PromiseFits(l, r)'
  BY <1>2 DEF PromiseFits, StatLabels, UnlinkLabels
<1>4. QED
  BY <1>1, <1>2, <1>3, PromiseMove DEF PromiseInv

(* unlink begins with the block of the file, which is not the directory's. *)
LEMMA UnlinkBeginPromise ==
    ASSUME OneCaller, NoClash, PromiseInv, NEW t \in Threads, NEW n \in Names, UnlinkBegin(t, n)
    PROVE  PromiseRest'
<1> DEFINE b == vnode[dentry[n]].fo.first_block
<1>1. dentry[n] \in Vnodes /\ block \in [Inode -> Block] /\ b \in Inode \ {0}
  <2>1. dentry[n] \in Vnodes /\ dentry[n] \notin FreeVnodes
    BY DEF UnlinkBegin, FreeVnodes, InCache
  <2>2. QED
    BY <2>1 DEF PromiseInv, KeepInv, CallInv, DirInv, DirRest, HeldBlocks, TableInv, TypeInv,
       TypeOK, Vnode, FileObject
<1>2. block' = [block EXCEPT ![b] = ZeroBlock] /\ UNCHANGED itable
  BY DEF UnlinkBegin
<1>3. block'[b] = ZeroBlock /\ block'[0] = block[0] /\ \A i \in Inode \ {b} : block'[i] = block[i]
  BY <1>1, <1>2, ObjectTypes
<1>4. Blanks'
  BY <1>2, <1>3 DEF Blanks, PromiseInv, PromiseRest
<1>5. PICK r : Move(t, "ul_dir", r) /\ r.op = "unlink" /\ r.blk = b
  <2> DEFINE q == [NoLoc EXCEPT !.op = "unlink", !.name = n, !.v = dentry[n], !.blk = b]
  <2>1. Move(t, "ul_dir", q)
    BY DEF UnlinkBegin
  <2>2. q.op = "unlink" /\ q.blk = b
    BY DEF NoLoc
  <2> HIDE DEF q
  <2>3. QED
    BY <2>1, <2>2
<1>6. PromiseFits("ul_dir", r)'
  BY <1>3, <1>5 DEF PromiseFits
<1>7. QED
  BY <1>4, <1>5, <1>6, PromiseMove DEF PromiseInv

(* A step that goes on with a call and leaves disk and inodes alone.       *)
LEMMA PromiseGoesOn ==
    ASSUME OneCaller, PromiseInv, NEW t \in Threads, NEW l, NEW r, Move(t, l, r),
           SameCall(r, loc[t]), r.end = loc[t].end, r.blk = loc[t].blk, Blanks',
           UNCHANGED vnode, l # "wr_block",
           l \in StatLabels \cup {"ret"} => pc[t] \in StatLabels \/ r.op # "write",
           l \in UnlinkLabels => pc[t] \in UnlinkLabels /\ UNCHANGED block
    PROVE  PromiseRest'
<1>1. PromiseFits(l, r)'
  BY DEF PromiseFits, SameCall, PromiseInv, PromiseRest
<1>2. QED
  BY <1>1, PromiseMove DEF PromiseInv

(* The steps that change neither the disk nor an inode. *)
LEMMA ReadsMove ==
    ASSUME KeepInv, NEW t \in Threads,
           \/ CreateReadTable(t) \/ CreateReadDir(t) \/ UnlinkReadDir(t) \/ StatReadTable(t)
           \/ StatReset(t) \/ StatCount(t) \/ StatWriteSuper(t)
    PROVE  /\ UNCHANGED <<itable, block, vnode>>
           /\ \E l, r : /\ Move(t, l, r) /\ SameCall(r, loc[t]) /\ r.end = loc[t].end
                        /\ r.blk = loc[t].blk /\ l # "wr_block"
                        /\ l \in StatLabels \cup {"ret"} => pc[t] \in StatLabels
                        /\ l \in UnlinkLabels => pc[t] \in UnlinkLabels
<1>0. /\ loc[t] \in Loc /\ UNCHANGED <<itable, block, vnode>>
  BY CallLocals
  DEF CreateReadTable, CreateReadDir, UnlinkReadDir, StatReadTable, StatReset, StatCount,
      StatWriteSuper, disk, memory
<1> DEFINE Same(q) == SameCall(q, loc[t]) /\ q.end = loc[t].end /\ q.blk = loc[t].blk
<1>1. \A k, tbl, buf, used :
        /\ Same([loc[t] EXCEPT !.k = k, !.tbl = tbl])
        /\ Same([loc[t] EXCEPT !.tbl = tbl, !.buf = buf])
        /\ Same([loc[t] EXCEPT !.buf = buf])
        /\ Same([loc[t] EXCEPT !.used = used])
        /\ Same(loc[t])
  BY <1>0 DEF Loc, SameCall
<1>2. CASE CreateReadTable(t)
  <2>1. \E l \in {"cr_read", "cr_dir"} : \E k, tbl :
           Move(t, l, [loc[t] EXCEPT !.k = k, !.tbl = tbl])
    BY <1>2 DEF CreateReadTable
  <2> HIDE DEF Same
  <2>2. \E l \in {"cr_read", "cr_dir"} : \E q : Move(t, l, q) /\ Same(q)
    BY <1>1, <2>1
  <2>3. QED
    BY <1>0, <2>2 DEF Same, StatLabels, UnlinkLabels
<1>3. CASE CreateReadDir(t)
  <2>1. \E i \in Inode : \E buf : Move(t, "cr_wdir",
           [loc[t] EXCEPT !.tbl = [@ EXCEPT ![i] = NewObject(i, loc[t].name)], !.buf = buf])
    BY <1>3 DEF CreateReadDir
  <2>2. \E tbl, buf : Move(t, "cr_wdir", [loc[t] EXCEPT !.tbl = tbl, !.buf = buf])
    BY <2>1
  <2> HIDE DEF Same
  <2>3. \E q : Move(t, "cr_wdir", q) /\ Same(q)
    BY <1>1, <2>2
  <2>4. QED
    BY <1>0, <2>3 DEF Same, StatLabels, UnlinkLabels
<1>4. CASE UnlinkReadDir(t)
  <2>1. \E buf : Move(t, "ul_wdir", [loc[t] EXCEPT !.buf = buf])
    BY <1>4 DEF UnlinkReadDir
  <2> HIDE DEF Same
  <2>2. \E q : Move(t, "ul_wdir", q) /\ Same(q)
    BY <1>1, <2>1
  <2>3. QED
    BY <1>0, <1>4, <2>2 DEF Same, StatLabels, UnlinkLabels, UnlinkReadDir
<1>5. CASE StatReadTable(t)
  <2>1. \E l \in {"us_read", "us_write"} : \E k, tbl :
           Move(t, l, [loc[t] EXCEPT !.k = k, !.tbl = tbl])
    BY <1>5 DEF StatReadTable
  <2> HIDE DEF Same
  <2>2. \E l \in {"us_read", "us_write"} : \E q : Move(t, l, q) /\ Same(q)
    BY <1>1, <2>1
  <2>3. QED
    BY <1>0, <1>5, <2>2 DEF Same, StatLabels, UnlinkLabels, StatReadTable
<1>6. CASE StatReset(t) \/ StatCount(t) \/ StatWriteSuper(t)
  <2>1. /\ pc[t] \in StatLabels
        /\ \/ Move(t, "us_count", loc[t]) \/ Move(t, "ret", loc[t])
           \/ Move(t, "us_super", [loc[t] EXCEPT !.used = 0])
    BY <1>6 DEF StatReset, StatCount, StatWriteSuper, StatLabels
  <2> HIDE DEF Same
  <2>2. \E l \in {"us_count", "us_super", "ret"} : \E q : Move(t, l, q) /\ Same(q)
    BY <1>1, <2>1
  <2>3. QED
    BY <1>0, <2>1, <2>2 DEF Same, StatLabels, UnlinkLabels
<1>7. QED
  BY <1>0, <1>2, <1>3, <1>4, <1>5, <1>6

LEMMA ReadsPromise ==
    ASSUME OneCaller, PromiseInv, NEW t \in Threads,
           \/ CreateReadTable(t) \/ CreateReadDir(t) \/ UnlinkReadDir(t) \/ StatReadTable(t)
           \/ StatReset(t) \/ StatCount(t) \/ StatWriteSuper(t)
    PROVE  PromiseRest'
<1>1. UNCHANGED <<itable, block, vnode>>
  BY ReadsMove DEF PromiseInv
<1>2. Blanks'
  BY <1>1 DEF Blanks, PromiseInv, PromiseRest
<1>3. PICK l, r : /\ Move(t, l, r) /\ SameCall(r, loc[t]) /\ r.end = loc[t].end
                  /\ r.blk = loc[t].blk /\ l # "wr_block"
                  /\ l \in StatLabels \cup {"ret"} => pc[t] \in StatLabels
                  /\ l \in UnlinkLabels => pc[t] \in UnlinkLabels
  BY ReadsMove DEF PromiseInv
<1>4. QED
  BY <1>1, <1>2, <1>3, PromiseGoesOn

LEMMA CreateWritesMove ==
    ASSUME KeepInv, NEW t \in Threads, CreateWriteDir(t) \/ CreateWriteTable(t)
    PROVE  \E l, r : /\ Move(t, l, r) /\ SameCall(r, loc[t]) /\ r.end = loc[t].end
                     /\ r.blk = loc[t].blk /\ l \in {"cr_wtab", "us_read"}
<1>0. loc[t] \in Loc
  BY CallLocals
<1>1. \A k, buf :
        LET p == [loc[t] EXCEPT !.k = k]
            o == [loc[t] EXCEPT !.buf = buf]
        IN  /\ SameCall(p, loc[t]) /\ p.end = loc[t].end /\ p.blk = loc[t].blk
            /\ SameCall(o, loc[t]) /\ o.end = loc[t].end /\ o.blk = loc[t].blk
  BY <1>0 DEF Loc, SameCall
<1>2. \/ Move(t, "cr_wtab", [loc[t] EXCEPT !.buf = ZeroBlock])
      \/ Move(t, "cr_wtab", [loc[t] EXCEPT !.k = loc[t].k + 1])
      \/ Move(t, "us_read", [loc[t] EXCEPT !.k = 0, !.tbl = FreeTable, !.fo = loc[t].tbl[0]])
  BY DEF CreateWriteDir, CreateWriteTable
<1>3. CASE Move(t, "cr_wtab", [loc[t] EXCEPT !.buf = ZeroBlock])
  BY <1>1, <1>3
<1>4. CASE Move(t, "cr_wtab", [loc[t] EXCEPT !.k = loc[t].k + 1])
  BY <1>1, <1>4
<1>5. CASE Move(t, "us_read", [loc[t] EXCEPT !.k = 0, !.tbl = FreeTable, !.fo = loc[t].tbl[0]])
  <2> DEFINE q == [loc[t] EXCEPT !.k = 0, !.tbl = FreeTable, !.fo = loc[t].tbl[0]]
  <2>1. SameCall(q, loc[t]) /\ q.end = loc[t].end /\ q.blk = loc[t].blk
    BY <1>0 DEF Loc, SameCall
  <2>2. Move(t, "us_read", q)
    BY <1>5
  <2> HIDE DEF q
  <2>3. QED
    BY <2>1, <2>2
<1>6. QED
  BY <1>2, <1>3, <1>4, <1>5

(* create fills a slot, and then a place in the table.                     *)
LEMMA CreateWritesPromise ==
    ASSUME OneCaller, NoClash, PromiseInv, NEW t \in Threads,
           CreateWriteDir(t) \/ CreateWriteTable(t)
    PROVE  PromiseRest'
<1>1. /\ loc[t] \in Loc /\ loc[t].op = "create" /\ rootfo = Root /\ CallFits(pc[t], loc[t])
      /\ block[0] \in Block /\ block \in [Inode -> Block] /\ 0 \in Inode /\ UNCHANGED vnode
  BY CallLocals, ObjectTypes
  DEF CreateWriteDir, CreateWriteTable, LocalsFit, CreateLabels, DirOps, memory, PromiseInv,
      KeepInv, CallInv, DirInv, TableInv, TypeInv, TypeOK
<1>2. Blanks'
  <2>1. CASE CreateWriteDir(t)
    <3>1. block' = [block EXCEPT ![0] = loc[t].buf] /\ itable' = itable
      BY <1>1, <2>1 DEF CreateWriteDir, Root
    <3>2. PICK i \in Inode, s \in Slot : block[0][s] = 0 /\ loc[t].buf = [block[0] EXCEPT ![s] = i]
      BY <1>1, <2>1 DEF CreateWriteDir, CallFits, CreateFits
    <3>3. \A x \in Slot : block[0][x] # 0 => block'[0][x] = block[0][x]
      BY <1>1, <3>1, <3>2 DEF Block
    <3>4. \A j \in Inode \ {0} : block'[j] = block[j]
      BY <1>1, <3>1
    <3>5. QED
      BY <3>1, <3>3, <3>4 DEF Blanks, PromiseInv, PromiseRest
  <2>2. CASE CreateWriteTable(t)
    <3>1. PICK i \in Inode \ {0} : Adding(loc[t], i)
      BY <1>1, <2>2 DEF CreateWriteTable, CallFits, CreateFits, Adding
    <3>2. \A j \in Inode : itable'[j].in_use = 0 => itable[j].in_use = 0
      BY <2>2, <3>1 DEF CreateWriteTable, CopyCluster, Adding, NewObject, FreeObject
    <3>3. QED
      BY <2>2, <3>2 DEF CreateWriteTable, Blanks, PromiseInv, PromiseRest
  <2>3. QED
    BY <2>1, <2>2
<1>3. PICK l, r : /\ Move(t, l, r) /\ SameCall(r, loc[t]) /\ r.end = loc[t].end
                  /\ r.blk = loc[t].blk /\ l \in {"cr_wtab", "us_read"}
  BY CreateWritesMove DEF PromiseInv
<1>4. QED
  BY <1>1, <1>2, <1>3, PromiseGoesOn DEF SameCall, UnlinkLabels

(* The block that unlink lets go of has been cleared. *)
LEMMA UnlinkWriteDirPromise ==
    ASSUME OneCaller, NoClash, PromiseInv, NEW t \in Threads, UnlinkWriteDir(t)
    PROVE  PromiseRest'
<1>1. /\ loc[t] \in Loc /\ loc[t].op = "unlink" /\ rootfo = Root /\ CallFits("ul_wdir", loc[t])
      /\ block[0] \in Block /\ block \in [Inode -> Block] /\ 0 \in Inode
      /\ block[loc[t].blk] = ZeroBlock
  BY CallLocals, ObjectTypes
  DEF UnlinkWriteDir, LocalsFit, UnlinkLabels, DirOps, PromiseInv, PromiseRest, PromiseFits,
      KeepInv, CallInv, DirInv, TableInv, TypeInv, TypeOK
<1>2. PICK s \in Slot : block[0][s] = loc[t].blk /\ loc[t].buf = [block[0] EXCEPT ![s] = 0]
  BY <1>1 DEF CallFits, UnlinkFits
<1>3. block' = [block EXCEPT ![0] = loc[t].buf] /\ itable' = itable
  BY <1>1 DEF UnlinkWriteDir, Root
<1>4. \A x \in Slot : block[0][x] # loc[t].blk => block'[0][x] = block[0][x]
  BY <1>1, <1>2, <1>3 DEF Block
<1>5. \A i \in Inode \ {0} : block'[i] = block[i]
  BY <1>1, <1>3
<1>6. Blanks'
  BY <1>1, <1>3, <1>4, <1>5 DEF Blanks, PromiseInv, PromiseRest
<1>7. PICK r : Move(t, "us_read", r) /\ r.op = "unlink"
  <2>1. [loc[t] EXCEPT !.buf = ZeroBlock].op = "unlink"
    BY <1>1 DEF Loc
  <2>2. QED
    BY <2>1 DEF UnlinkWriteDir
<1>8. PromiseFits("us_read", r)'
  BY <1>7 DEF PromiseFits, UnlinkLabels
<1>9. QED
  BY <1>6, <1>7, <1>8, PromiseMove DEF PromiseInv

(* A write fills a block that a slot leads to. *)
LEMMA WritesPromise ==
    ASSUME OneCaller, NoClash, PromiseInv, NEW t \in Threads, WriteBlock(t) \/ WriteSize(t)
    PROVE  PromiseRest'
<1>1. /\ loc[t] \in Loc /\ loc[t].op = "write" /\ loc[t].v \in Vnodes
      /\ vnode \in [Vnodes -> Vnode] /\ block \in [Inode -> Block]
      /\ (pc[t] = "wr_block" => loc[t].blk = vnode[loc[t].v].fo.first_block)
      /\ pc[t] \in WriteLabels
  BY CallLocals
  DEF WriteBlock, WriteSize, LocalsFit, WriteLabels, PromiseInv, PromiseRest, PromiseFits,
      KeepInv, CallInv, DirInv, TableInv, TypeInv, TypeOK
<1>2. CASE WriteBlock(t)
  <2>1. PICK s \in Slot : /\ block[0][s] = loc[t].blk /\ block[0][s] \in Inode \ {0}
                          /\ itable[block[0][s]].in_use = 1
    BY <1>1, <1>2, FileAtWork DEF WriteBlock, PromiseInv
  <2>2. \A i \in Inode \ {loc[t].blk} : block'[i] = block[i]
    BY <1>1, <1>2 DEF WriteBlock
  <2>3. block'[0] = block[0] /\ UNCHANGED itable
    BY <1>2, <2>1, <2>2, ObjectTypes DEF WriteBlock
  <2>4. Blanks'
    BY <2>1, <2>2, <2>3 DEF Blanks, PromiseInv, PromiseRest
  <2>5. PICK r : Move(t, "wr_size", r)
    BY <1>2 DEF WriteBlock
  <2>6. PromiseFits("wr_size", r)'
    BY DEF PromiseFits, StatLabels, UnlinkLabels
  <2>7. QED
    BY <2>4, <2>5, <2>6, PromiseMove DEF PromiseInv
<1>3. CASE WriteSize(t)
  <2>1. vnode'[loc[t].v].fo.size = loc[t].end
    BY <1>1, <1>3 DEF WriteSize, Vnode, FileObject
  <2>2. Blanks'
    BY <1>3 DEF WriteSize, disk, Blanks, PromiseInv, PromiseRest
  <2>3. PICK r : Move(t, "us_read", r) /\ r = loc[t]
    BY <1>3 DEF WriteSize
  <2>4. PromiseFits("us_read", r)'
    BY <2>1, <2>3 DEF PromiseFits, UnlinkLabels
  <2>5. QED
    BY <2>2, <2>3, <2>4, PromiseMove DEF PromiseInv
<1>4. QED
  BY <1>2, <1>3

(* What update_statfs does to an object. *)
LEMMA StatObjects ==
    ASSUME OneCaller, NoClash, KeepInv, NEW t \in Threads, StatWriteTable(t), NEW i \in Inode
    PROVE  /\ itable[i] \in FileObject
           /\ loc[t].op = "create" => itable'[i] = itable[i]
           /\ loc[t].op = "write" =>
                /\ itable'[i].in_use = itable[i].in_use /\ itable'[i].name = itable[i].name
                /\ \/ itable'[i] = itable[i]
                   \/ itable[i].name = vnode[loc[t].v].fo.name
                      /\ itable'[i].size = vnode[loc[t].v].fo.size
           /\ loc[t].op = "unlink" =>
                \/ itable'[i] = itable[i]
                \/ itable[i].name = loc[t].name /\ itable[i].in_use = 1 /\ itable'[i] = FreeObject
<1> DEFINE fo == StatOf(loc[t])
<1>1. /\ fo \in FileObject
      /\ loc[t].op = "write" => fo.size # 0
      /\ loc[t].op = "unlink" => fo.name = loc[t].name
  BY StatOfCall DEF StatWriteTable, KeepInv
<1>2. /\ itable'[i] \in {itable[i], UpdateOne(itable[i], fo)}
      /\ loc[t].op = "create" => itable'[i] = itable[i]
  BY StatNames DEF KeepInv
<1>3. itable[i] \in FileObject
  BY ObjectAt DEF KeepInv, CallInv, DirInv
<1>4. loc[t].op = "unlink" => fo.size = 0
  BY CallLocals DEF StatWriteTable, CallFits, UnlinkFits, StatOf
<1>5. loc[t].op = "write" => fo = vnode[loc[t].v].fo
  BY DEF StatOf
<1> HIDE DEF fo
<1>6. CASE itable'[i] = itable[i]
  BY <1>3, <1>6
<1>7. CASE itable'[i] # itable[i]
  <2>1. itable'[i] = UpdateOne(itable[i], fo) /\ itable[i].in_use = 1 /\ itable[i].name = fo.name
    BY <1>2, <1>7 DEF UpdateOne
  <2>2. CASE loc[t].op = "write"
    <3>1. itable'[i] = [itable[i] EXCEPT !.size = fo.size]
      BY <1>1, <2>1, <2>2 DEF UpdateOne
    <3>2. QED
      BY <1>3, <1>5, <2>1, <2>2, <3>1 DEF FileObject
  <2>3. CASE loc[t].op = "unlink"
    <3>1. itable[i].size # 0
      <4>1. itable[i].size = 0 => [itable[i] EXCEPT !.size = 0] = itable[i]
        BY <1>3 DEF FileObject
      <4>2. QED
        BY <1>4, <1>7, <2>1, <2>3, <4>1 DEF UpdateOne
    <3>2. QED
      BY <1>1, <1>3, <1>4, <2>1, <2>3, <3>1 DEF UpdateOne
  <2>4. QED
    BY <1>2, <1>3, <1>7, <2>2, <2>3
<1>8. QED
  BY <1>6, <1>7

LEMMA StatWriteTableMove ==
    ASSUME KeepInv, NEW t \in Threads, StatWriteTable(t)
    PROVE  \E l, r : /\ Move(t, l, r) /\ SameCall(r, loc[t]) /\ r.end = loc[t].end
                     /\ r.blk = loc[t].blk /\ l \in {"us_write", "us_reset"}
<1>0. loc[t] \in Loc
  BY CallLocals
<1>1. \A used : LET q == [loc[t] EXCEPT !.k = 0, !.tbl = FreeTable, !.used = used]
                IN  SameCall(q, loc[t]) /\ q.end = loc[t].end /\ q.blk = loc[t].blk
  BY <1>0 DEF Loc, SameCall
<1>2. LET q == [loc[t] EXCEPT !.k = loc[t].k + 1]
      IN  SameCall(q, loc[t]) /\ q.end = loc[t].end /\ q.blk = loc[t].blk
  BY <1>0 DEF Loc, SameCall
<1>3. \/ Move(t, "us_write", [loc[t] EXCEPT !.k = loc[t].k + 1])
      \/ \E used : Move(t, "us_reset", [loc[t] EXCEPT !.k = 0, !.tbl = FreeTable, !.used = used])
  BY DEF StatWriteTable
<1>4. CASE Move(t, "us_write", [loc[t] EXCEPT !.k = loc[t].k + 1])
  BY <1>2, <1>4
<1>5. CASE \E used : Move(t, "us_reset", [loc[t] EXCEPT !.k = 0, !.tbl = FreeTable, !.used = used])
  BY <1>1, <1>5
<1>6. QED
  BY <1>3, <1>4, <1>5

(* No slot leads to what it erases. *)
LEMMA StatWriteTablePromise ==
    ASSUME OneCaller, NoClash, PromiseInv, NEW t \in Threads, StatWriteTable(t)
    PROVE  PromiseRest'
<1>1. /\ loc[t] \in Loc /\ loc[t].op \in {"create", "write", "unlink"} /\ pc[t] = "us_write"
      /\ UNCHANGED <<block, vnode>>
      /\ loc[t].op = "unlink" => SlotsOf(block[0], itable, loc[t].name) = {}
  BY CallLocals DEF StatWriteTable, LocalsFit, Loc, KeepFits, StatLabels, memory, PromiseInv
<1>2. ASSUME NEW i \in Inode \ {0}, itable'[i].in_use = 0
      PROVE  itable[i].in_use = 0 \/ \A s \in Slot : block[0][s] # i
  <2>1. CASE itable'[i] = itable[i] \/ loc[t].op # "unlink"
    BY <1>1, <1>2, <2>1, StatObjects DEF PromiseInv
  <2>2. CASE itable'[i] # itable[i] /\ loc[t].op = "unlink"
    <3>1. itable[i].name = loc[t].name
      BY <2>2, StatObjects DEF PromiseInv
    <3>2. QED
      BY <1>1, <2>2, <3>1 DEF SlotsOf
  <2>3. QED
    BY <2>1, <2>2
<1>3. Blanks'
  BY <1>1, <1>2 DEF Blanks, PromiseInv, PromiseRest
<1>4. PICK l, r : /\ Move(t, l, r) /\ SameCall(r, loc[t]) /\ r.end = loc[t].end
                  /\ r.blk = loc[t].blk /\ l \in {"us_write", "us_reset"}
  BY StatWriteTableMove DEF PromiseInv
<1>5. QED
  BY <1>1, <1>3, <1>4, PromiseGoesOn DEF UnlinkLabels, StatLabels

LEMMA ReturnsPromise ==
    ASSUME OneCaller, AllGoesWell, PromiseInv, NEW t \in Threads,
           \/ WriteReturn(t) \/ CreateReturn(t) \/ CreateNoSpace(t) \/ UnlinkReturn(t)
           \/ UnlinkNoEntry(t) \/ NoBlocks(t) \/ OpFails(t) \/ StatFails(t)
    PROVE  PromiseRest'
<1>1. Move(t, "idle", NoLoc) /\ UNCHANGED <<itable, block>>
  BY DEF WriteReturn, CreateReturn, CreateNoSpace, UnlinkReturn, UnlinkNoEntry, NoBlocks, OpFails,
     StatFails, Return, AllGoesWell, disk
<1>2. Blanks'
  BY <1>1 DEF Blanks, PromiseInv, PromiseRest
<1>3. PromiseFits("idle", NoLoc)'
  BY DEF PromiseFits, NoLoc, UnlinkLabels
<1>4. QED
  BY <1>1, <1>2, <1>3, PromiseMove DEF PromiseInv

(* What happens beside a call leaves it the inode that it works on.        *)
LEMMA BesideHolds ==
    ASSUME AllGoesWell, KeepInv, NEW t \in Threads, loc[t].op = "write",
           \/ \E n \in Names : Lookup(n) \/ Evict(n)
           \/ \E fd \in Fds, n \in Names, app, trunc \in BOOLEAN : Open(fd, n, app, trunc)
           \/ \E fd \in Fds : Close(fd) \/ Read(fd)
           \/ Mount
    PROVE  vnode'[loc[t].v].fo = vnode[loc[t].v].fo
<1> DEFINE v == loc[t].v
<1>1. v \in Vnodes /\ FdsOf(v) # {} /\ vnode \in [Vnodes -> Vnode]
  BY WriterHolds DEF KeepInv, CallInv, DirInv, TableInv, TypeInv, TypeOK
<1>2. ASSUME NEW n \in Names, Lookup(n) PROVE vnode'[v] = vnode[v]
  BY <1>1, <1>2 DEF Lookup, FreeVnodes
<1>3. ASSUME NEW n \in Names, Evict(n) PROVE vnode'[v] = vnode[v]
  BY <1>1, <1>3 DEF Evict, Drop
<1>4. ASSUME NEW fd \in Fds, NEW n \in Names, NEW app \in BOOLEAN, NEW trunc \in BOOLEAN,
             Open(fd, n, app, trunc)
      PROVE  vnode'[v].fo = vnode[v].fo
  BY <1>1, <1>4 DEF Open, Vnode
<1>5. ASSUME NEW fd \in Fds, Close(fd) \/ Read(fd) PROVE vnode' = vnode
  BY <1>5 DEF Close, Read, Drop, OpenCached, KeepInv, CallInv, CallRest
<1>6. Mount => vnode' = vnode
  BY DEF Mount
<1>7. QED
  BY <1>2, <1>3, <1>4, <1>5, <1>6

LEMMA BesidePromise ==
    ASSUME OneCaller, AllGoesWell, PromiseInv, UNCHANGED <<itable, block, pc, loc>>,
           \A t \in Threads : loc[t].op = "write" => vnode'[loc[t].v].fo = vnode[loc[t].v].fo
    PROVE  PromiseRest'
<1>1. Blanks'
  BY DEF Blanks, PromiseInv, PromiseRest
<1>2. ASSUME NEW t \in Threads PROVE PromiseFits(pc[t], loc[t])'
  <2>1. PromiseFits(pc[t], loc[t]) /\ LocalsFit(pc[t], loc[t])
    BY CallLocals DEF PromiseInv, PromiseRest
  <2>2. QED
    BY <2>1 DEF PromiseFits, LocalsFit, WriteLabels
<1>3. QED
  BY <1>1, <1>2 DEF PromiseRest

LEMMA UnmountPromise ==
    ASSUME PromiseInv, Unmount
    PROVE  PromiseRest'
<1>1. Blanks'
  BY DEF Unmount, MemoryLost, disk, Blanks, PromiseInv, PromiseRest
<1>2. \A t \in Threads : pc'[t] = "idle" /\ loc'[t] = NoLoc
  BY DEF Unmount, MemoryLost
<1>3. QED
  BY <1>1, <1>2 DEF PromiseRest, PromiseFits, NoLoc, UnlinkLabels

LEMMA PromiseInvStep ==
    ASSUME OneCaller, NoClash, MemoryKept, FilesKeptOpen, NoEmptyWrites,
           AllGoesWell, NoneCreatedAgain, PromiseInv, [Next]_vars
    PROVE  PromiseInv'
<1>1. KeepInv'
  BY KeepInvStep DEF PromiseInv
<1> SUFFICES PromiseRest'
  BY <1>1 DEF PromiseInv
<1>2. ASSUME \/ \E n \in Names : Lookup(n) \/ Evict(n)
             \/ \E fd \in Fds, n \in Names, app, trunc \in BOOLEAN : Open(fd, n, app, trunc)
             \/ \E fd \in Fds : Close(fd) \/ Read(fd)
             \/ Mount
      PROVE  PromiseRest'
  <2>1. UNCHANGED <<itable, block, pc, loc>>
    BY <1>2 DEF Lookup, Evict, Open, Close, Read, Mount, disk
  <2>2. QED
    BY <1>2, <2>1, BesideHolds, BesidePromise DEF PromiseInv
<1>3. CASE Call
  BY <1>2, <1>3, BeginPromise, UnlinkBeginPromise DEF Call
<1>4. ASSUME NEW t \in Threads, Step(t) PROVE PromiseRest'
  BY <1>4, ReadsPromise, CreateWritesPromise, UnlinkWriteDirPromise, WritesPromise,
     StatWriteTablePromise, ReturnsPromise
  DEF Step, Work
<1>5. CASE Environment
  <2>1. ~Crash /\ ~\E v \in Vnodes : Recycled(v)
    BY DEF MemoryKept, Recycled, Crash, AllGoesWell
  <2>2. QED
    BY <1>2, <1>5, <2>1, UnmountPromise DEF Environment
<1>6. CASE UNCHANGED vars
  BY <1>6, BesidePromise DEF vars
<1>7. QED
  BY <1>3, <1>4, <1>5, <1>6 DEF Next

LEMMA PromiseInvInit == Init => PromiseInv
<1> SUFFICES ASSUME Init PROVE PromiseInv
  OBVIOUS
<1>1. \A i \in Inode : block[i] = ZeroBlock
  BY DEF Init
<1>2. \A t \in Threads : pc[t] = "idle" /\ loc[t] = NoLoc
  BY DEF Init
<1>3. PromiseRest
  BY <1>1, <1>2 DEF PromiseRest, Blanks, PromiseFits, NoLoc, UnlinkLabels
<1>4. QED
  BY <1>3, KeepInvInit DEF PromiseInv

(* A block is blank before it is handed out: unlink clears it (file.c 454) *)
(* and never gives it up before, create takes it as it is.  And what a     *)
(* call at work knows of its file stays true to the end of the call.       *)
THEOREM PromiseSteady ==
    ASSUME OneCaller, NoClash, MemoryKept, FilesKeptOpen, NoEmptyWrites,
           AllGoesWell, NoneCreatedAgain
    PROVE  Spec => []PromiseInv
<1>1. Init => PromiseInv
  BY PromiseInvInit
<1>2. PromiseInv /\ [Next]_vars => PromiseInv'
  BY PromiseInvStep
<1>3. QED
  BY <1>1, <1>2, PTL DEF Spec
-----------------------------------------------------------------------------
(* The files of the promise, as a function of what is on the disk. *)
LeadOf(dir, t, n) == CHOOSE i \in Inode : \E s \in SlotsOf(dir, t, n) : dir[s] = i
NamesIn(dir, t)   == {n \in Names : SlotsOf(dir, t, n) # {}}
FilesOf(dir, t, b) ==
    [n \in NamesIn(dir, t) |-> [size |-> t[LeadOf(dir, t, n)].size, data |-> b[LeadOf(dir, t, n)]]]
OneLead(dir, t) == \A n \in Names : \A s, x \in SlotsOf(dir, t, n) : s = x

LEMMA FilesNow == AbsFile = FilesOf(block[0], itable, block)
BY DEF AbsFile, FilesOf, NamesIn, Visible, InodeOf, LeadOf

LEMMA FilesNext == AbsFile' = FilesOf(block'[0], itable', block')
BY DEF AbsFile, FilesOf, NamesIn, Visible, InodeOf, LeadOf

AFunction(f) == f = [x \in DOMAIN f |-> f[x]]

(* What is known of each name makes up the whole. *)
LEMMA FilesAre ==
    ASSUME NEW dir, NEW t, NEW b, OneLead(dir, t), NEW f, AFunction(f),
           DOMAIN f = NamesIn(dir, t),
           \A n \in Names : \A s \in SlotsOf(dir, t, n) :
               f[n] = [size |-> t[dir[s]].size, data |-> b[dir[s]]]
    PROVE  FilesOf(dir, t, b) = f
<1>1. ASSUME NEW n \in NamesIn(dir, t)
      PROVE  f[n] = [size |-> t[LeadOf(dir, t, n)].size, data |-> b[LeadOf(dir, t, n)]]
  <2>1. PICK s \in SlotsOf(dir, t, n) : TRUE
    BY DEF NamesIn
  <2>2. dir[s] \in Inode /\ n \in Names
    BY <2>1 DEF SlotsOf, NamesIn
  <2>3. LeadOf(dir, t, n) = dir[s]
    BY <2>1, <2>2 DEF LeadOf, OneLead
  <2>4. QED
    BY <2>1, <2>2, <2>3
<1>2. QED
  BY <1>1 DEF FilesOf, AFunction

LEMMA FileAt ==
    ASSUME NEW dir, NEW t, NEW b, OneLead(dir, t), NEW n \in Names, NEW s \in SlotsOf(dir, t, n)
    PROVE  /\ n \in DOMAIN FilesOf(dir, t, b)
           /\ FilesOf(dir, t, b)[n] = [size |-> t[dir[s]].size, data |-> b[dir[s]]]
<1>1. n \in NamesIn(dir, t) /\ dir[s] \in Inode
  BY DEF NamesIn, SlotsOf
<1>2. LeadOf(dir, t, n) = dir[s]
  BY <1>1 DEF LeadOf, OneLead
<1>3. QED
  BY <1>1, <1>2 DEF FilesOf

LEMMA FilesDomain == DOMAIN AbsFile = {n \in Names : Visible(n)}
BY DEF AbsFile

(* Where each slot leads to what it led to, the files are the same.        *)
LEMMA FilesSame ==
    ASSUME NEW dir, NEW t, NEW b, NEW dir2, NEW t2, NEW b2, OneLead(dir, t),
           \A n \in Names : SlotsOf(dir2, t2, n) = SlotsOf(dir, t, n),
           \A n \in Names : \A s \in SlotsOf(dir, t, n) :
               /\ dir2[s] = dir[s] /\ t2[dir[s]].size = t[dir[s]].size /\ b2[dir[s]] = b[dir[s]]
    PROVE  FilesOf(dir2, t2, b2) = FilesOf(dir, t, b)
<1>1. OneLead(dir2, t2) /\ NamesIn(dir2, t2) = NamesIn(dir, t)
  BY DEF OneLead, NamesIn
<1>2. PICK f : f = FilesOf(dir, t, b)
  OBVIOUS
<1>3. AFunction(f) /\ DOMAIN f = NamesIn(dir2, t2)
  BY <1>1, <1>2 DEF FilesOf, AFunction
<1>4. \A n \in Names : \A s \in SlotsOf(dir2, t2, n) :
          f[n] = [size |-> t2[dir2[s]].size, data |-> b2[dir2[s]]]
  BY <1>2, FileAt
<1>5. QED
  BY <1>1, <1>2, <1>3, <1>4, FilesAre

LEMMA LeadNow == ASSUME NoClash, KeepInv PROVE OneLead(block[0], itable)
BY SlotOnly DEF OneLead

LEMMA LeadNext == ASSUME NoClash, KeepInv' PROVE OneLead(block'[0], itable')
BY OneSlotNext DEF OneLead, OneSlot
-----------------------------------------------------------------------------
(* The call of the promise is that of the only thread. *)
CallOf(r, vn) ==
    IF r.op = "none" THEN [op |-> "none", name |-> NoName, size |-> 0]
    ELSE [op |-> r.op, name |-> IF r.op = "write" THEN vn[r.v].fo.name ELSE r.name,
          size |-> r.end]

LEMMA CallNow == ASSUME OneCaller, NEW t \in Threads PROVE AbsCall = CallOf(loc[t], vnode)
<1>1. Callers = {} \/ (CHOOSE u \in Callers : TRUE) = t
  BY DEF Callers, OneCaller
<1>2. Callers = {} <=> loc[t].op = "none"
  BY DEF Callers, OneCaller
<1>3. QED
  BY <1>1, <1>2 DEF AbsCall, CallOf

LEMMA CallNext == ASSUME OneCaller, NEW t \in Threads PROVE AbsCall' = CallOf(loc'[t], vnode')
<1>1. Callers' = {} \/ (CHOOSE u \in Callers' : TRUE) = t
  BY DEF Callers, OneCaller
<1>2. Callers' = {} <=> loc'[t].op = "none"
  BY DEF Callers, OneCaller
<1>3. QED
  BY <1>1, <1>2 DEF AbsCall, CallOf

(* A step that goes on with a call. *)
LEMMA CallSame ==
    ASSUME OneCaller, KeepInv, NEW t \in Threads, NEW l, NEW r, Move(t, l, r),
           SameCall(r, loc[t]), r.end = loc[t].end,
           loc[t].op = "write" => vnode'[loc[t].v].fo.name = vnode[loc[t].v].fo.name
    PROVE  AbsCall' = AbsCall
<1>1. loc'[t] = r
  BY MoveEffect DEF KeepInv, CallInv, DirInv, TableInv
<1>2. CallOf(r, vnode') = CallOf(loc[t], vnode)
  BY DEF CallOf, SameCall
<1>3. QED
  BY <1>1, <1>2, CallNow, CallNext
-----------------------------------------------------------------------------
(* How many names there are, compared with slots and inodes. *)
UnnamedIn(dir, t) == {i \in Inode \ {0} : t[i].in_use = 1 /\ \A s \in Slot : dir[s] # i}

LEMMA SlotsInodes ==
    /\ IsFiniteSet(Slot) /\ Cardinality(Slot) = W
    /\ IsFiniteSet(Inode \ {0}) /\ Cardinality(Inode \ {0}) = N - 1
<1>1. IsFiniteSet(Slot) /\ Cardinality(Slot) = W
  BY SizesAssumption, FS_Interval DEF Slot
<1>2. IsFiniteSet(Inode) /\ Cardinality(Inode) = N
  BY SizesAssumption, FS_Interval DEF Inode
<1>3. QED
  BY <1>1, <1>2, FS_RemoveElement, ObjectTypes

LEMMA UnnamedFinite ==
    ASSUME NEW dir, NEW t
    PROVE  /\ IsFiniteSet(UnnamedIn(dir, t)) /\ Cardinality(UnnamedIn(dir, t)) \in Nat
           /\ UnnamedIn(dir, t) \subseteq Inode \ {0}
<1>1. UnnamedIn(dir, t) \in SUBSET (Inode \ {0})
  BY DEF UnnamedIn
<1>2. QED
  BY <1>1, FS_Subset, FS_CardinalityType, SlotsInodes

LEMMA Remainder ==
    ASSUME NEW S, NEW T \in SUBSET S, IsFiniteSet(S)
    PROVE  IsFiniteSet(S \ T) /\ Cardinality(S \ T) = Cardinality(S) - Cardinality(T)
<1>1. S \cap T = T
  OBVIOUS
<1>2. QED
  BY <1>1, FS_Difference

(* Every name has a slot of its own. *)
LEMMA NamesFinite ==
    ASSUME NEW dir, NEW t, NEW S \in SUBSET Slot, \A n \in Names : SlotsOf(dir, t, n) \subseteq S
    PROVE  /\ IsFiniteSet(NamesIn(dir, t)) /\ Cardinality(NamesIn(dir, t)) \in Nat
           /\ Cardinality(NamesIn(dir, t)) <= Cardinality(S)
<1> DEFINE f == [n \in NamesIn(dir, t) |-> CHOOSE s \in S : s \in SlotsOf(dir, t, n)]
<1>1. ASSUME NEW n \in NamesIn(dir, t)
      PROVE  f[n] \in S /\ dir[f[n]] \in Inode /\ t[dir[f[n]]].name = n
  <2>1. \E s \in S : s \in SlotsOf(dir, t, n)
    BY DEF NamesIn
  <2>2. f[n] \in S /\ f[n] \in SlotsOf(dir, t, n)
    BY <2>1
  <2>3. QED
    BY <2>2 DEF SlotsOf
<1>2. f \in [NamesIn(dir, t) -> S]
  BY <1>1
<1>3. \A m, n \in NamesIn(dir, t) : f[m] = f[n] => m = n
  BY <1>1
<1>4. f \in Injection(NamesIn(dir, t), S)
  <2> HIDE DEF f
  <2>1. QED
    BY <1>2, <1>3 DEF Injection, IsInjective
<1>5. IsFiniteSet(S)
  BY SlotsInodes, FS_Subset
<1>6. QED
  BY <1>4, <1>5, FS_Injection, FS_CardinalityType

(* With a slot and an inode that no name takes, there is room.             *)
LEMMA Room ==
    ASSUME NEW dir, NEW t, OneLead(dir, t), NEW s \in Slot, NEW i \in Inode \ {0},
           t[i].in_use = 0, t[i].name \notin Names, dir[s] = i
    PROVE  /\ Cardinality(NamesIn(dir, t)) < W
           /\ Cardinality(NamesIn(dir, t)) + Cardinality(UnnamedIn(dir, t)) < N - 1
<1> DEFINE V == NamesIn(dir, t)
           A == UnnamedIn(dir, t)
<1>1. Cardinality(V) < W /\ IsFiniteSet(V) /\ Cardinality(V) \in Nat
  <2>1. \A n \in Names : SlotsOf(dir, t, n) \subseteq Slot \ {s}
    BY DEF SlotsOf
  <2>2. Cardinality(Slot \ {s}) = W - 1
    BY SlotsInodes, FS_RemoveElement
  <2>3. QED
    BY <2>1, <2>2, NamesFinite, SizesAssumption
<1>2. Cardinality(V) + Cardinality(A) < N - 1
  <2> DEFINE T == (Inode \ {0}) \ {i}
             f == [n \in V |-> LeadOf(dir, t, n)]
  <2>1. IsFiniteSet(T) /\ Cardinality(T) = N - 2
    <3>1. IsFiniteSet(T) /\ Cardinality(T) = Cardinality(Inode \ {0}) - 1
      BY SlotsInodes, FS_RemoveElement
    <3>2. QED
      BY <3>1, SlotsInodes, SizesAssumption
  <2>2. IsFiniteSet(T \ A) /\ Cardinality(T \ A) = N - 2 - Cardinality(A)
    <3>1. A \in SUBSET T
      BY DEF UnnamedIn
    <3> HIDE DEF A, T
    <3>2. QED
      BY <2>1, <3>1, Remainder
  <2>3. ASSUME NEW n \in V PROVE f[n] \in T \ A /\ t[f[n]].name = n
    <3>1. PICK x \in SlotsOf(dir, t, n) : TRUE
      BY DEF NamesIn
    <3>2. n \in Names /\ x \in Slot /\ dir[x] \in Inode \ {0} /\ t[dir[x]].name = n
      BY <3>1 DEF SlotsOf, NamesIn
    <3>3. f[n] = dir[x]
      BY <3>1, <3>2 DEF LeadOf, OneLead
    <3>4. QED
      BY <3>2, <3>3 DEF UnnamedIn
  <2> HIDE DEF T
  <2>4. f \in Injection(V, T \ A)
    <3>1. f \in [V -> T \ A] /\ \A m, n \in V : f[m] = f[n] => m = n
      BY <2>3
    <3> HIDE DEF f
    <3>2. QED
      BY <3>1 DEF Injection, IsInjective
  <2>5. Cardinality(V) <= Cardinality(T \ A)
    BY <2>2, <2>4, FS_Injection
  <2>6. QED
    BY <1>1, <2>2, <2>5, UnnamedFinite, SizesAssumption
<1>3. QED
  BY <1>1, <1>2

(* With no slot empty, or no inode free, there is none.                    *)
LEMMA NoRoom ==
    ASSUME NEW dir, NEW t, SlotsUsed(dir, t), SlotsDiffer(dir, t), NoSpace(dir, t),
           \A i \in Inode : t[i].in_use \in {0, 1},
           \A i \in Inode \ {0} : t[i].in_use = 1 => t[i].name \in Names
    PROVE  \/ Cardinality(NamesIn(dir, t)) >= W
           \/ Cardinality(NamesIn(dir, t)) + Cardinality(UnnamedIn(dir, t)) >= N - 1
<1> DEFINE V == NamesIn(dir, t)
           A == UnnamedIn(dir, t)
<1>1. IsFiniteSet(V) /\ Cardinality(V) \in Nat
  <2>1. \A n \in Names : SlotsOf(dir, t, n) \subseteq Slot
    BY DEF SlotsOf
  <2>2. QED
    BY <2>1, NamesFinite
<1>2. ASSUME NEW s \in Slot, dir[s] # 0
      PROVE  t[dir[s]].name \in V /\ dir[s] \in Inode \ {0}
  BY <1>2 DEF SlotsUsed, SlotsOf, NamesIn
<1>3. CASE EmptySlots(dir) = {}
  <2> DEFINE f == [s \in Slot |-> t[dir[s]].name]
  <2>1. f \in [Slot -> V] /\ \A s, x \in Slot : f[s] = f[x] => s = x
    BY <1>2, <1>3 DEF EmptySlots, SlotsDiffer
  <2>2. f \in Injection(Slot, V)
    <3> HIDE DEF f
    <3>1. QED
      BY <2>1 DEF Injection, IsInjective
  <2>3. Cardinality(Slot) <= Cardinality(V)
    BY <1>1, <2>2, FS_Injection
  <2>4. QED
    BY <1>1, <2>3, SlotsInodes, SizesAssumption
<1>4. CASE FreeInodes(t) = {}
  <2> DEFINE T == (Inode \ {0}) \ A
             f == [i \in T |-> t[i].name]
  <2>1. IsFiniteSet(T) /\ Cardinality(T) = N - 1 - Cardinality(A)
    <3>1. A \in SUBSET (Inode \ {0})
      BY DEF UnnamedIn
    <3> HIDE DEF A
    <3>2. QED
      BY <3>1, Remainder, SlotsInodes
  <2>2. ASSUME NEW i \in T PROVE \E s \in Slot : dir[s] = i /\ dir[s] # 0
    BY <1>4 DEF FreeInodes, UnnamedIn
  <2>3. f \in Injection(T, V)
    <3>1. f \in [T -> V]
      BY <1>2, <2>2
    <3>2. \A i, j \in T : f[i] = f[j] => i = j
      <4>1. SUFFICES ASSUME NEW i \in T, NEW j \in T, t[i].name = t[j].name PROVE i = j
        OBVIOUS
      <4>2. PICK s \in Slot : dir[s] = i /\ dir[s] # 0
        BY <2>2
      <4>3. PICK x \in Slot : dir[x] = j /\ dir[x] # 0
        BY <2>2
      <4>4. QED
        BY <4>1, <4>2, <4>3 DEF SlotsDiffer
    <3> HIDE DEF f
    <3>3. QED
      BY <3>1, <3>2 DEF Injection, IsInjective
  <2>4. Cardinality(T) <= Cardinality(V)
    BY <1>1, <2>3, FS_Injection
  <2>5. QED
    BY <1>1, <2>1, <2>4, UnnamedFinite, SizesAssumption
<1>5. QED
  BY <1>3, <1>4 DEF NoSpace
-----------------------------------------------------------------------------
(* The simulation.  A step is one of the promise, or changes nothing that  *)
(* the promise speaks of.                                                  *)
Still == UNCHANGED <<AbsFile, AbsCall, Unnamed>>
Simulates == Promise!Next \/ UNCHANGED <<AbsFile, AbsCall, Cardinality(Unnamed)>>

LEMMA SameCount == \A S : Promise!Cardinality(S) = Cardinality(S)
BY DEF Promise!Cardinality, Cardinality

(* The promise counts names, and inodes that no slot has. *)
LEMMA FullMeans ==
    Promise!Full <=> \/ ~(Cardinality(DOMAIN AbsFile) < W)
                     \/ ~(Cardinality(DOMAIN AbsFile) + Cardinality(Unnamed) < N - 1)
<1>1. Cardinality(DOMAIN AbsFile) \in Nat
  <2>1. DOMAIN AbsFile = NamesIn(block[0], itable)
    BY FilesNow DEF FilesOf
  <2>2. \A m \in Names : SlotsOf(block[0], itable, m) \subseteq Slot
    BY DEF SlotsOf
  <2>3. QED
    BY <2>1, <2>2, NamesFinite
<1>2. Cardinality(Unnamed) \in Nat
  <2>1. Unnamed = UnnamedIn(block[0], itable)
    BY DEF Unnamed, UnnamedIn
  <2>2. QED
    BY <2>1, UnnamedFinite
<1>3. \A c, u \in Nat : /\ c >= W <=> ~(c < W)
                        /\ c + u >= N - 1 <=> ~(c + u < N - 1)
  BY SizesAssumption
<1>4. Promise!Full <=> \/ Cardinality(DOMAIN AbsFile) >= W
                       \/ Cardinality(DOMAIN AbsFile) + Cardinality(Unnamed) >= N - 1
  BY SameCount DEF Promise!Full
<1>5. QED
  BY <1>1, <1>2, <1>3, <1>4

LEMMA StillSimulates == ASSUME Still PROVE Simulates
BY DEF Still, Simulates

LEMMA DiskSame == ASSUME UNCHANGED <<itable, block>> PROVE AbsFile' = AbsFile /\ Unnamed' = Unnamed
BY FilesNow, FilesNext DEF Unnamed

(* Each slot leads to what it led to, and so do the names. *)
LEMMA FilesStay ==
    ASSUME NoClash, KeepInv,
           \A n \in Names : SlotsOf(block'[0], itable', n) = SlotsOf(block[0], itable, n),
           \A n \in Names : \A s \in SlotsOf(block[0], itable, n) :
               /\ block'[0][s] = block[0][s]
               /\ itable'[block[0][s]].size = itable[block[0][s]].size
               /\ block'[block[0][s]] = block[block[0][s]]
    PROVE  AbsFile' = AbsFile
<1> DEFINE dir == block[0]
           dir2 == block'[0]
<1>1. OneLead(dir, itable)
  BY LeadNow
<1>2. FilesOf(dir2, itable', block') = FilesOf(dir, itable, block)
  BY <1>1, FilesSame
<1>3. QED
  BY <1>2, FilesNow, FilesNext

LEMMA ReadsStill ==
    ASSUME OneCaller, KeepInv, NEW t \in Threads,
           \/ CreateReadTable(t) \/ CreateReadDir(t) \/ UnlinkReadDir(t) \/ StatReadTable(t)
           \/ StatReset(t) \/ StatCount(t) \/ StatWriteSuper(t)
    PROVE  Still
<1>1. UNCHANGED <<itable, block, vnode>>
  BY ReadsMove
<1>2. PICK l, r : Move(t, l, r) /\ SameCall(r, loc[t]) /\ r.end = loc[t].end
  BY ReadsMove
<1>3. AbsCall' = AbsCall
  BY <1>1, <1>2, CallSame
<1>4. QED
  BY <1>1, <1>3, DiskSame DEF Still

LEMMA WriteSizeStill ==
    ASSUME OneCaller, KeepInv, NEW t \in Threads, WriteSize(t)
    PROVE  Still
<1>1. UNCHANGED <<itable, block>> /\ Move(t, "us_read", loc[t])
  BY DEF WriteSize, disk
<1>2. vnode'[loc[t].v].fo.name = vnode[loc[t].v].fo.name
  <2>1. loc[t].v \in Vnodes /\ vnode \in [Vnodes -> Vnode]
    BY CallLocals
    DEF WriteSize, LocalsFit, WriteLabels, KeepInv, CallInv, DirInv, TableInv, TypeInv, TypeOK
  <2>2. QED
    BY <2>1 DEF WriteSize, Vnode, FileObject
<1>3. AbsCall' = AbsCall
  BY <1>1, <1>2, CallSame DEF SameCall
<1>4. QED
  BY <1>1, <1>3, DiskSame DEF Still

(* The slot that create has filled leads to an object without a name.      *)
LEMMA CreateWriteDirStill ==
    ASSUME OneCaller, NoClash, KeepInv, NEW t \in Threads, CreateWriteDir(t)
    PROVE  Still
<1>1. /\ rootfo = Root /\ CreateFits("cr_wdir", loc[t]) /\ block[0] \in Block
      /\ block \in [Inode -> Block] /\ 0 \in Inode /\ UNCHANGED vnode
  BY CallLocals, ObjectTypes
  DEF CreateWriteDir, CallFits, LocalsFit, CreateLabels, DirOps, memory, KeepInv, CallInv, DirInv,
      TableInv, TypeInv, TypeOK
<1>2. PICK i \in Inode \ {0}, s \in Slot :
          itable[i] = FreeObject /\ block[0][s] = 0 /\ loc[t].buf = [block[0] EXCEPT ![s] = i]
  BY <1>1 DEF CreateFits, Adding
<1>3. /\ itable' = itable /\ block'[0][s] = i
      /\ \A x \in Slot \ {s} : block'[0][x] = block[0][x]
      /\ \A j \in Inode \ {0} : block'[j] = block[j]
  BY <1>1, <1>2 DEF CreateWriteDir, Root, Block
<1>4. \A n \in Names : itable[i].name # n
  BY <1>2, NamesAssumption DEF FreeObject
<1>5. \A n \in Names : SlotsOf(block'[0], itable', n) = SlotsOf(block[0], itable, n)
  BY <1>2, <1>3, <1>4 DEF SlotsOf
<1>6. \A n \in Names : \A x \in SlotsOf(block[0], itable, n) :
          /\ block'[0][x] = block[0][x] /\ itable'[block[0][x]].size = itable[block[0][x]].size
          /\ block'[block[0][x]] = block[block[0][x]]
  BY <1>2, <1>3 DEF SlotsOf
<1>7. AbsFile' = AbsFile
  BY <1>5, <1>6, FilesStay
<1>8. Unnamed' = Unnamed
  BY <1>2, <1>3 DEF Unnamed, FreeObject
<1>9. PICK l, r : Move(t, l, r) /\ SameCall(r, loc[t]) /\ r.end = loc[t].end
  BY CreateWritesMove
<1>10. AbsCall' = AbsCall
  BY <1>1, <1>9, CallSame
<1>11. QED
  BY <1>7, <1>8, <1>10 DEF Still

(* With the object in the table the file exists, empty, and there was room *)
(* for it.                                                                 *)
LEMMA CreateWriteTableSimulates ==
    ASSUME OneCaller, NoClash, PromiseInv, KeepInv', NEW t \in Threads, CreateWriteTable(t)
    PROVE  Simulates
<1> DEFINE n == loc[t].name
<1>1. /\ loc[t].op = "create" /\ n \in Names /\ CreateFits("cr_wtab", loc[t])
      /\ SlotsDiffer(block[0], loc[t].tbl) /\ UNCHANGED <<block, vnode>>
  BY CallLocals
  DEF CreateWriteTable, CallFits, LocalsFit, CreateLabels, memory, PromiseInv, Good, Sound, Settled
<1>2. PICK i \in Inode \ {0}, s \in Slot : Adding(loc[t], i) /\ block[0][s] = i
  BY <1>1 DEF CreateFits, Adding
<1>3. /\ itable'[i] \in {itable[i], NewObject(i, n)} /\ \A j \in Inode \ {i} : itable'[j] = itable[j]
      /\ itable[i] \in {FreeObject, NewObject(i, n)}
  BY <1>2 DEF CreateWriteTable, CopyCluster, Adding
<1>4. AbsCall' = AbsCall
  <2>1. PICK l, r : Move(t, l, r) /\ SameCall(r, loc[t]) /\ r.end = loc[t].end
    BY CreateWritesMove DEF PromiseInv
  <2>2. QED
    BY <1>1, <2>1, CallSame DEF PromiseInv
<1>5. CASE itable'[i] = itable[i]
  <2>1. \A j \in Inode : itable'[j] = itable[j]
    BY <1>3, <1>5
  <2>2. \A m \in Names : SlotsOf(block'[0], itable', m) = SlotsOf(block[0], itable, m)
    BY <1>1, <2>1 DEF SlotsOf
  <2>3. \A m \in Names : \A x \in SlotsOf(block[0], itable, m) :
            itable'[block[0][x]].size = itable[block[0][x]].size
    BY <2>1 DEF SlotsOf
  <2>4. AbsFile' = AbsFile
    BY <1>1, <2>2, <2>3, FilesStay DEF PromiseInv
  <2>5. Unnamed' = Unnamed
    BY <1>1, <2>1 DEF Unnamed
  <2>6. QED
    BY <1>4, <2>4, <2>5, StillSimulates DEF Still
<1>6. CASE itable'[i] # itable[i]
  <2>1. itable[i] = FreeObject /\ itable'[i] = NewObject(i, n)
    BY <1>3, <1>6
  <2>2. itable[i].name \notin Names /\ itable[i].in_use = 0 /\ itable'[i].name = n
        /\ itable'[i].size = 0
    BY <2>1, NamesAssumption DEF FreeObject, NewObject
  <2>3. SlotsOf(block[0], itable, n) = {}
    <3>1. SUFFICES ASSUME NEW x \in SlotsOf(block[0], itable, n) PROVE FALSE
      OBVIOUS
    <3>2. x \in Slot /\ block[0][x] \in Inode \ {0, i} /\ itable[block[0][x]].name = n
      BY <1>1, <2>2 DEF SlotsOf
    <3>3. loc[t].tbl[block[0][x]].name = n /\ loc[t].tbl[i].name = n
      BY <1>2, <3>2 DEF Adding, NewObject
    <3>4. QED
      BY <1>1, <1>2, <3>2, <3>3 DEF SlotsDiffer
  <2>4. OneLead(block[0], itable) /\ OneLead(block'[0], itable')
    BY LeadNow, LeadNext DEF PromiseInv
  <2>5. SlotsOf(block'[0], itable', n) = {s}
    <3>1. s \in SlotsOf(block'[0], itable', n)
      BY <1>1, <1>2, <2>2 DEF SlotsOf
    <3>2. QED
      BY <1>1, <2>4, <3>1 DEF OneLead
  <2>6. \A m \in Names \ {n} : SlotsOf(block'[0], itable', m) = SlotsOf(block[0], itable, m)
    BY <1>1, <1>3, <2>2 DEF SlotsOf
  <2>7. \A m \in Names : \A x \in SlotsOf(block[0], itable, m) :
            itable'[block[0][x]] = itable[block[0][x]]
    BY <1>3, <2>2 DEF SlotsOf
  <2>8. block[i] = ZeroBlock
    BY <2>2 DEF PromiseInv, PromiseRest, Blanks
  <2>9. AbsCall.op = "create" /\ AbsCall.name = n
    BY <1>1, CallNow DEF CallOf
  <2>10. DOMAIN AbsFile = NamesIn(block[0], itable) /\ n \notin DOMAIN AbsFile
    BY <2>3, FilesNow DEF FilesOf, NamesIn
  <2>11. AbsFile' = [m \in DOMAIN AbsFile \cup {n} |->
                        IF m = n THEN [size |-> 0, data |-> ZeroBlock] ELSE AbsFile[m]]
    <3> DEFINE f == [m \in DOMAIN AbsFile \cup {n} |->
                        IF m = n THEN [size |-> 0, data |-> ZeroBlock] ELSE AbsFile[m]]
    <3>1. AFunction(f)
      BY DEF AFunction
    <3>2. DOMAIN f = NamesIn(block'[0], itable')
      BY <1>1, <2>5, <2>6, <2>10 DEF NamesIn
    <3>3. ASSUME NEW m \in Names, NEW x \in SlotsOf(block'[0], itable', m)
          PROVE  f[m] = [size |-> itable'[block'[0][x]].size, data |-> block'[block'[0][x]]]
      <4>1. CASE m = n
        BY <1>1, <1>2, <2>2, <2>5, <2>8, <3>3, <4>1
      <4>2. CASE m # n
        <5>1. x \in SlotsOf(block[0], itable, m)
          BY <2>6, <3>3, <4>2
        <5>2. m \in DOMAIN AbsFile
              /\ AbsFile[m] = [size |-> itable[block[0][x]].size, data |-> block[block[0][x]]]
          BY <2>4, <5>1, FileAt, FilesNow
        <5>3. QED
          BY <1>1, <2>7, <4>2, <5>1, <5>2
      <4>3. QED
        BY <4>1, <4>2
    <3> HIDE DEF f
    <3>4. FilesOf(block'[0], itable', block') = f
      BY <2>4, <3>1, <3>2, <3>3, FilesAre
    <3>5. QED
      BY <3>4, FilesNext DEF f
  <2>12. Unnamed' = Unnamed
    BY <1>1, <1>2, <1>3, <2>2 DEF Unnamed
  <2>13. /\ Cardinality(DOMAIN AbsFile) < W
         /\ Cardinality(DOMAIN AbsFile) + Cardinality(Unnamed) < N - 1
    <3>1. Unnamed = UnnamedIn(block[0], itable)
      BY DEF Unnamed, UnnamedIn
    <3>2. QED
      BY <1>2, <2>2, <2>4, <2>10, <3>1, Room
  <2>14. ~Promise!Full
    BY <2>13, FullMeans
  <2>15. Promise!Create
    BY <1>4, <2>9, <2>10, <2>11, <2>12, <2>14 DEF Promise!Create, Promise!InCall, Promise!Exists
  <2>16. QED
    BY <2>15 DEF Simulates, Promise!Next
<1>7. QED
  BY <1>5, <1>6

(* With the slot emptied the file is gone; its inode is left.              *)
LEMMA UnlinkWriteDirSimulates ==
    ASSUME OneCaller, NoClash, PromiseInv, KeepInv', NEW t \in Threads, UnlinkWriteDir(t)
    PROVE  Simulates
<1> DEFINE n == loc[t].name
           b == loc[t].blk
<1>1. /\ loc[t] \in Loc /\ loc[t].op = "unlink" /\ rootfo = Root /\ CallFits("ul_wdir", loc[t])
      /\ block[0] \in Block /\ block \in [Inode -> Block] /\ 0 \in Inode /\ n \in Names
  BY CallLocals, ObjectTypes
  DEF UnlinkWriteDir, LocalsFit, UnlinkLabels, DirOps, PromiseInv, KeepInv, CallInv, DirInv,
      TableInv, TypeInv, TypeOK
<1>2. PICK s \in Slot : /\ block[0][s] = b /\ loc[t].buf = [block[0] EXCEPT ![s] = 0]
                        /\ itable[b].name = n /\ b \in Inode
  BY <1>1 DEF CallFits, UnlinkFits, UnlinkLabels, Loc
<1>3. block' = [block EXCEPT ![0] = loc[t].buf] /\ itable' = itable
  BY <1>1 DEF UnlinkWriteDir, Root
<1>4. /\ block'[0][s] = 0 /\ \A x \in Slot \ {s} : block'[0][x] = block[0][x]
      /\ \A i \in Inode \ {0} : block'[i] = block[i]
  BY <1>1, <1>2, <1>3 DEF Block
<1>5. OneLead(block[0], itable) /\ OneLead(block'[0], itable')
  BY LeadNow, LeadNext DEF PromiseInv
<1>6. b # 0 /\ itable[b].in_use = 1
  BY <1>1, <1>2, ObjectAt, NamesAssumption DEF PromiseInv, KeepInv, CallInv, DirInv
<1>7. s \in SlotsOf(block[0], itable, n) /\ \A x \in Slot \ {s} : block[0][x] # b
  <2>1. \A x \in Slot : block[0][x] = b => x \in SlotsOf(block[0], itable, n)
    BY <1>2, <1>6 DEF SlotsOf
  <2>2. QED
    BY <1>1, <1>2, <1>5, <2>1 DEF OneLead
<1>8. SlotsOf(block'[0], itable', n) = {}
  <2>1. \A x \in Slot \ {s} : x \notin SlotsOf(block[0], itable, n)
    BY <1>1, <1>5, <1>7 DEF OneLead
  <2>2. QED
    BY <1>3, <1>4, <2>1 DEF SlotsOf
<1>9. \A m \in Names \ {n} : SlotsOf(block'[0], itable', m) = SlotsOf(block[0], itable, m)
  BY <1>2, <1>3, <1>4, <1>6 DEF SlotsOf
<1>10. DOMAIN AbsFile = NamesIn(block[0], itable) /\ n \in DOMAIN AbsFile
  BY <1>1, <1>7, FilesNow DEF FilesOf, NamesIn
<1>11. AbsFile' = [m \in DOMAIN AbsFile \ {n} |-> AbsFile[m]]
  <2> DEFINE f == [m \in DOMAIN AbsFile \ {n} |-> AbsFile[m]]
  <2>1. AFunction(f)
    BY DEF AFunction
  <2>2. DOMAIN f = NamesIn(block'[0], itable')
    BY <1>1, <1>8, <1>9, <1>10 DEF NamesIn
  <2>3. ASSUME NEW m \in Names, NEW x \in SlotsOf(block'[0], itable', m)
        PROVE  f[m] = [size |-> itable'[block'[0][x]].size, data |-> block'[block'[0][x]]]
    <3>1. m # n /\ x \in SlotsOf(block[0], itable, m) /\ x # s
      BY <1>4, <1>8, <1>9, <2>3 DEF SlotsOf
    <3>2. m \in DOMAIN AbsFile
          /\ AbsFile[m] = [size |-> itable[block[0][x]].size, data |-> block[block[0][x]]]
      BY <1>5, <3>1, FileAt, FilesNow
    <3>3. x \in Slot /\ block[0][x] \in Inode \ {0}
      BY <3>1 DEF SlotsOf
    <3>4. QED
      BY <1>3, <1>4, <3>1, <3>2, <3>3
  <2> HIDE DEF f
  <2>4. FilesOf(block'[0], itable', block') = f
    BY <1>5, <2>1, <2>2, <2>3, FilesAre
  <2>5. QED
    BY <2>4, FilesNext DEF f
<1>12. Unnamed' = Unnamed \cup {b} /\ b \notin Unnamed
  <2>1. b \notin Unnamed
    BY <1>2 DEF Unnamed
  <2>2. \A i \in Inode \ {0, b} : (\A x \in Slot : block'[0][x] # i) <=> \A x \in Slot : block[0][x] # i
    BY <1>2, <1>4
  <2>3. \A x \in Slot : block'[0][x] # b
    BY <1>4, <1>6, <1>7
  <2>4. QED
    BY <1>2, <1>3, <1>6, <2>1, <2>2, <2>3 DEF Unnamed
<1>13. Cardinality(Unnamed)' = Cardinality(Unnamed) + 1
  <2>1. Unnamed = UnnamedIn(block[0], itable)
    BY DEF Unnamed, UnnamedIn
  <2>2. IsFiniteSet(Unnamed)
    BY <2>1, UnnamedFinite
  <2>3. QED
    BY <1>12, <2>2, FS_AddElement
<1>14. AbsCall' = AbsCall /\ AbsCall.op = "unlink" /\ AbsCall.name = n
  <2> DEFINE q == [loc[t] EXCEPT !.buf = ZeroBlock]
  <2>1. Move(t, "us_read", q) /\ SameCall(q, loc[t]) /\ q.end = loc[t].end
    BY <1>1 DEF UnlinkWriteDir, SameCall, Loc
  <2> HIDE DEF q
  <2>2. AbsCall' = AbsCall
    BY <1>1, <2>1, CallSame DEF PromiseInv
  <2>3. QED
    BY <1>1, <2>2, CallNow DEF CallOf
<1>15. Promise!Unlink
  BY <1>10, <1>11, <1>13, <1>14 DEF Promise!Unlink, Promise!InCall, Promise!Exists
<1>16. QED
  BY <1>15 DEF Simulates, Promise!Next

(* Files of which one changes. *)
LEMMA OneFileChanges ==
    ASSUME NoClash, KeepInv, NEW n \in Names, NEW s \in SlotsOf(block[0], itable, n), NEW o,
           \A m \in Names : SlotsOf(block'[0], itable', m) = SlotsOf(block[0], itable, m),
           \A x \in Slot : block[0][x] \in Inode \ {0} => block'[0][x] = block[0][x],
           \A m \in Names \ {n} : \A x \in SlotsOf(block[0], itable, m) :
               /\ itable'[block[0][x]].size = itable[block[0][x]].size
               /\ block'[block[0][x]] = block[block[0][x]],
           o = [size |-> itable'[block[0][s]].size, data |-> block'[block[0][s]]]
    PROVE  /\ n \in DOMAIN AbsFile
           /\ AbsFile[n] = [size |-> itable[block[0][s]].size, data |-> block[block[0][s]]]
           /\ AbsFile' = [AbsFile EXCEPT ![n] = o]
<1> DEFINE f == [AbsFile EXCEPT ![n] = o]
           dir == block[0]
           dir2 == block'[0]
<1>1. OneLead(dir, itable)
  BY LeadNow
<1>2. OneLead(dir2, itable')
  BY <1>1 DEF OneLead
<1>3. \A m \in Names : \A x \in SlotsOf(dir, itable, m) :
          /\ m \in DOMAIN AbsFile
          /\ AbsFile[m] = [size |-> itable[dir[x]].size, data |-> block[dir[x]]]
          /\ dir2[x] = dir[x]
  <2>1. \A m \in Names : \A x \in SlotsOf(dir, itable, m) :
            /\ m \in DOMAIN AbsFile
            /\ AbsFile[m] = [size |-> itable[dir[x]].size, data |-> block[dir[x]]]
    BY <1>1, FileAt, FilesNow
  <2>2. QED
    BY <2>1 DEF SlotsOf
<1>4. AFunction(f)
  BY DEF AFunction
<1>5. DOMAIN f = NamesIn(dir2, itable')
  BY FilesNow DEF FilesOf, NamesIn
<1>6. n \in DOMAIN AbsFile => f[n] = o
  OBVIOUS
<1>7. \A m \in DOMAIN AbsFile \ {n} : f[m] = AbsFile[m]
  OBVIOUS
<1> HIDE DEF f
<1>8. \A m \in Names : \A x \in SlotsOf(dir2, itable', m) :
          f[m] = [size |-> itable'[dir2[x]].size, data |-> block'[dir2[x]]]
  <2>1. ASSUME NEW m \in Names, NEW x \in SlotsOf(dir2, itable', m)
        PROVE  x \in SlotsOf(dir, itable, m) /\ dir2[x] = dir[x]
    BY <1>3, <2>1
  <2> SUFFICES ASSUME NEW m \in Names, NEW x \in SlotsOf(dir2, itable', m)
                 PROVE  f[m] = [size |-> itable'[dir[x]].size, data |-> block'[dir[x]]]
    BY <2>1
  <2>2. CASE m = n
    BY <1>1, <1>3, <1>6, <2>1, <2>2 DEF OneLead
  <2>3. CASE m # n
    BY <1>3, <1>7, <2>1, <2>3
  <2>4. QED
    BY <2>2, <2>3
<1>9. FilesOf(dir2, itable', block') = f
  BY <1>2, <1>4, <1>5, <1>8, FilesAre
<1>10. QED
  BY <1>3, <1>9, FilesNext DEF f

(* update_statfs after an unlink may make an inode free that no slot has.  *)
LEMMA StatUnlinkSimulates ==
    ASSUME OneCaller, NoClash, PromiseInv, NEW t \in Threads, StatWriteTable(t),
           loc[t].op = "unlink", AbsCall' = AbsCall
    PROVE  Simulates
<1> DEFINE n == loc[t].name
<1>1. /\ UNCHANGED block /\ SlotsOf(block[0], itable, n) = {}
      /\ AbsCall.op = "unlink" /\ AbsCall.name = n
  <2>1. UNCHANGED block /\ KeepFits("us_write", loc[t])
    BY CallLocals DEF StatWriteTable, PromiseInv
  <2>2. AbsCall = CallOf(loc[t], vnode)
    BY CallNow
  <2>3. QED
    BY <2>1, <2>2 DEF KeepFits, StatLabels, CallOf
<1>2. \A i \in Inode : \/ itable'[i] = itable[i]
                       \/ itable[i].name = n /\ itable[i].in_use = 1 /\ itable'[i] = FreeObject
  BY StatObjects DEF PromiseInv
<1>3. \A x \in Slot : block[0][x] \in Inode \ {0} => itable'[block[0][x]] = itable[block[0][x]]
  BY <1>1, <1>2 DEF SlotsOf
<1>4. \A m \in Names : SlotsOf(block'[0], itable', m) = SlotsOf(block[0], itable, m)
  BY <1>1, <1>3 DEF SlotsOf
<1>5. AbsFile' = AbsFile
  <2>1. \A m \in Names : \A x \in SlotsOf(block[0], itable, m) :
            itable'[block[0][x]].size = itable[block[0][x]].size
    BY <1>3 DEF SlotsOf
  <2>2. QED
    BY <1>1, <1>4, <2>1, FilesStay DEF PromiseInv
<1>6. Unnamed' \subseteq Unnamed
  BY <1>1, <1>2 DEF Unnamed, FreeObject
<1>7. CASE Unnamed' = Unnamed
  BY <1>5, <1>7, StillSimulates DEF Still
<1>8. CASE Unnamed' # Unnamed
  <2>1. IsFiniteSet(Unnamed) /\ Cardinality(Unnamed) \in Nat
    <3>1. Unnamed = UnnamedIn(block[0], itable)
      BY DEF Unnamed, UnnamedIn
    <3>2. QED
      BY <3>1, UnnamedFinite
  <2>2. PICK S : S = Unnamed'
    OBVIOUS
  <2>3. IsFiniteSet(S) /\ Cardinality(S) <= Cardinality(Unnamed) /\ Cardinality(S) # Cardinality(Unnamed)
    BY <1>6, <1>8, <2>1, <2>2, FS_Subset
  <2>4. Cardinality(S) \in Nat
    BY <2>3, FS_CardinalityType
  <2>5. Cardinality(Unnamed)' \in 0 .. Cardinality(Unnamed) - 1
    BY <2>1, <2>2, <2>3, <2>4
  <2>6. n \notin DOMAIN AbsFile
    BY <1>1, FilesNow DEF FilesOf, NamesIn
  <2>7. Promise!Reclaim
    BY <1>1, <1>5, <2>5, <2>6 DEF Promise!Reclaim, Promise!InCall, Promise!Exists
  <2>8. QED
    BY <2>7 DEF Simulates, Promise!Next
<1>9. QED
  BY <1>7, <1>8

(* After a write it gives the file its size. *)
LEMMA StatWriteSimulates ==
    ASSUME OneCaller, NoClash, PromiseInv, NEW t \in Threads, StatWriteTable(t),
           loc[t].op = "write", AbsCall' = AbsCall
    PROVE  Simulates
<1> DEFINE fo == vnode[loc[t].v].fo
<1>1. /\ UNCHANGED block /\ fo.size = loc[t].end
      /\ AbsCall.op = "write" /\ AbsCall.name = fo.name /\ AbsCall.size = loc[t].end
  <2>1. UNCHANGED block /\ PromiseFits("us_write", loc[t])
    BY DEF StatWriteTable, PromiseInv, PromiseRest
  <2>2. AbsCall = CallOf(loc[t], vnode)
    BY CallNow
  <2>3. QED
    BY <2>1, <2>2 DEF PromiseFits, StatLabels, CallOf
<1>2. \A i \in Inode : /\ itable'[i].in_use = itable[i].in_use /\ itable'[i].name = itable[i].name
                       /\ \/ itable'[i] = itable[i]
                          \/ itable[i].name = fo.name /\ itable'[i].size = fo.size
  BY StatObjects DEF PromiseInv
<1> HIDE DEF fo
<1>3. \A m \in Names : SlotsOf(block'[0], itable', m) = SlotsOf(block[0], itable, m)
  BY <1>1, <1>2 DEF SlotsOf
<1>4. Unnamed' = Unnamed
  BY <1>1, <1>2 DEF Unnamed
<1>5. CASE \A m \in Names : \A x \in SlotsOf(block[0], itable, m) :
               itable'[block[0][x]].size = itable[block[0][x]].size
  <2>1. AbsFile' = AbsFile
    BY <1>1, <1>3, <1>5, FilesStay DEF PromiseInv
  <2>2. QED
    BY <1>4, <2>1, StillSimulates DEF Still
<1>6. ASSUME NEW n \in Names, NEW s \in SlotsOf(block[0], itable, n),
             itable'[block[0][s]].size # itable[block[0][s]].size
      PROVE  Simulates
  <2>1. block[0][s] \in Inode /\ n = fo.name /\ itable'[block[0][s]].size = loc[t].end
    BY <1>1, <1>2, <1>6 DEF SlotsOf
  <2>2. \A m \in Names \ {n} : \A x \in SlotsOf(block[0], itable, m) :
            itable'[block[0][x]].size = itable[block[0][x]].size
    BY <1>2, <2>1 DEF SlotsOf
  <2>3. PICK o : o = [size |-> itable'[block[0][s]].size, data |-> block'[block[0][s]]]
    OBVIOUS
  <2>4. /\ n \in DOMAIN AbsFile /\ AbsFile' = [AbsFile EXCEPT ![n] = o]
        /\ AbsFile[n] = [size |-> itable[block[0][s]].size, data |-> block[block[0][s]]]
    BY <1>1, <1>3, <2>2, <2>3, OneFileChanges DEF PromiseInv
  <2>5. o = [AbsFile[n] EXCEPT !.size = loc[t].end]
    BY <1>1, <2>1, <2>3, <2>4
  <2>6. AbsFile' = [AbsFile EXCEPT ![n].size = loc[t].end]
    BY <2>4, <2>5
  <2>7. Promise!WriteSize
    BY <1>1, <1>4, <2>1, <2>4, <2>6 DEF Promise!WriteSize, Promise!InCall, Promise!Exists
  <2>8. QED
    BY <2>7 DEF Simulates, Promise!Next
<1>7. QED
  BY <1>5, <1>6

LEMMA StatWriteTableSimulates ==
    ASSUME OneCaller, NoClash, PromiseInv, NEW t \in Threads, StatWriteTable(t)
    PROVE  Simulates
<1>1. /\ loc[t].op \in {"create", "write", "unlink"} /\ UNCHANGED <<block, vnode>>
  BY CallLocals DEF StatWriteTable, LocalsFit, Loc, StatLabels, memory, PromiseInv
<1>2. AbsCall' = AbsCall
  <2>1. PICK l, r : Move(t, l, r) /\ SameCall(r, loc[t]) /\ r.end = loc[t].end
    BY StatWriteTableMove DEF PromiseInv
  <2>2. QED
    BY <1>1, <2>1, CallSame DEF PromiseInv
<1>3. CASE loc[t].op = "create"
  <2>1. \A i \in Inode : itable'[i] = itable[i]
    BY <1>3, StatObjects DEF PromiseInv
  <2>2. \A m \in Names : SlotsOf(block'[0], itable', m) = SlotsOf(block[0], itable, m)
    BY <1>1, <2>1 DEF SlotsOf
  <2>3. \A m \in Names : \A x \in SlotsOf(block[0], itable, m) :
            itable'[block[0][x]].size = itable[block[0][x]].size
    BY <2>1 DEF SlotsOf
  <2>4. AbsFile' = AbsFile
    BY <1>1, <2>2, <2>3, FilesStay DEF PromiseInv
  <2>5. Unnamed' = Unnamed
    BY <1>1, <2>1 DEF Unnamed
  <2>6. QED
    BY <1>2, <2>4, <2>5, StillSimulates DEF Still
<1>4. QED
  BY <1>1, <1>2, <1>3, StatUnlinkSimulates, StatWriteSimulates

(* The block of the file is written. *)
LEMMA WriteBlockSimulates ==
    ASSUME OneCaller, NoClash, PromiseInv, NEW t \in Threads, WriteBlock(t)
    PROVE  Simulates
<1>1. /\ loc[t] \in Loc /\ loc[t].op = "write" /\ UNCHANGED <<itable, vnode>>
      /\ loc[t].blk = vnode[loc[t].v].fo.first_block /\ block \in [Inode -> Block]
      /\ block' = [block EXCEPT ![loc[t].blk] = loc[t].buf] /\ loc[t].buf \in Block
  BY CallLocals
  DEF WriteBlock, LocalsFit, WriteLabels, memory, PromiseInv, PromiseRest, PromiseFits,
      KeepInv, CallInv, DirInv, TableInv, TypeInv, TypeOK, Loc
<1>2. PICK n \in Names, s \in Slot :
          /\ vnode[loc[t].v].fo.name = n /\ block[0][s] = loc[t].blk
          /\ block[0][s] \in Inode \ {0} /\ s \in SlotsOf(block[0], itable, n)
  BY <1>1, FileAtWork DEF WriteBlock, WriteLabels, PromiseInv
<1>3. /\ block'[0] = block[0] /\ block'[block[0][s]] = loc[t].buf
      /\ \A j \in Inode \ {loc[t].blk} : block'[j] = block[j]
  BY <1>1, <1>2, ObjectTypes
<1>4. AbsCall' = AbsCall /\ AbsCall.op = "write" /\ AbsCall.name = n
  <2>1. PICK r : Move(t, "wr_size", r) /\ SameCall(r, loc[t]) /\ r.end = loc[t].end
    <3> DEFINE q == [loc[t] EXCEPT !.buf = ZeroBlock]
    <3>1. Move(t, "wr_size", q) /\ SameCall(q, loc[t]) /\ q.end = loc[t].end
      BY <1>1 DEF WriteBlock, SameCall, Loc
    <3> HIDE DEF q
    <3>2. QED
      BY <3>1
  <2>2. AbsCall' = AbsCall
    BY <1>1, <2>1, CallSame DEF PromiseInv
  <2>3. QED
    BY <1>1, <1>2, <2>2, CallNow DEF CallOf
<1>5. Unnamed' = Unnamed
  BY <1>1, <1>3 DEF Unnamed
<1>6. \A m \in Names : SlotsOf(block'[0], itable', m) = SlotsOf(block[0], itable, m)
  BY <1>1, <1>3 DEF SlotsOf
<1>7. \A m \in Names \ {n} : \A x \in SlotsOf(block[0], itable, m) :
          block'[block[0][x]] = block[block[0][x]]
  <2>1. SUFFICES ASSUME NEW m \in Names \ {n}, NEW x \in SlotsOf(block[0], itable, m)
                 PROVE  block'[block[0][x]] = block[block[0][x]]
    OBVIOUS
  <2>2. block[0][x] \in Inode /\ block[0][x] # loc[t].blk
    BY <1>2 DEF SlotsOf
  <2>3. QED
    BY <1>3, <2>2
<1>8. PICK o : o = [size |-> itable'[block[0][s]].size, data |-> block'[block[0][s]]]
  OBVIOUS
<1>9. /\ n \in DOMAIN AbsFile /\ AbsFile' = [AbsFile EXCEPT ![n] = o]
      /\ AbsFile[n] = [size |-> itable[block[0][s]].size, data |-> block[block[0][s]]]
  <2>1. \A x \in Slot : block[0][x] \in Inode \ {0} => block'[0][x] = block[0][x]
    BY <1>3
  <2>2. \A m \in Names \ {n} : \A x \in SlotsOf(block[0], itable, m) :
            /\ itable'[block[0][x]].size = itable[block[0][x]].size
            /\ block'[block[0][x]] = block[block[0][x]]
    BY <1>1, <1>7
  <2>3. QED
    BY <1>2, <1>6, <1>8, <2>1, <2>2, OneFileChanges DEF PromiseInv
<1>10. AbsFile' = [AbsFile EXCEPT ![n].data = loc[t].buf]
  <2>1. o = [AbsFile[n] EXCEPT !.data = loc[t].buf]
    BY <1>1, <1>3, <1>8, <1>9
  <2>2. QED
    BY <1>9, <2>1
<1>11. Promise!WriteData
  BY <1>1, <1>4, <1>5, <1>9, <1>10 DEF Promise!WriteData, Promise!InCall, Promise!Exists
<1>12. QED
  BY <1>11 DEF Simulates, Promise!Next
-----------------------------------------------------------------------------
(* The calls and their ends. *)
LEMMA IdleCall ==
    ASSUME OneCaller, KeepInv, NEW t \in Threads, pc[t] = "idle"
    PROVE  /\ loc[t].op = "none" /\ AbsCall = Promise!NoCall
           /\ Quiet /\ Coherent(itable) /\ \A n : ~Gone(n)
<1>1. loc[t].op = "none"
  BY CallLocals DEF CallFits
<1>2. AbsCall = Promise!NoCall
  BY <1>1, CallNow DEF CallOf, Promise!NoCall
<1>3. Quiet /\ \A n : ~Gone(n)
  BY <1>1 DEF Quiet, Gone, OneCaller
<1>4. Coherent(itable)
  BY <1>3 DEF KeepInv, KeepRest, Good
<1>5. QED
  BY <1>1, <1>2, <1>3, <1>4

LEMMA CreateBeginSimulates ==
    ASSUME OneCaller, NoneCreatedAgain, KeepInv, NEW t \in Threads, NEW n \in Names,
           CreateBegin(t, n)
    PROVE  Simulates
<1>1. /\ mounted /\ pc[t] = "idle" /\ UNCHANGED <<itable, block>>
      /\ \E dir \in DirReads : SlotsOf(dir, itable, n) = {}
  BY DEF CreateBegin, NoneCreatedAgain, disk
<1>2. SlotsOf(block[0], itable, n) = {}
  BY <1>1, RootRead DEF KeepInv, CallInv, DirInv, DirRest, RootKnown
<1>3. n \notin DOMAIN AbsFile
  BY <1>2, FilesNow DEF FilesOf, NamesIn
<1>4. AbsCall' = [op |-> "create", name |-> n, size |-> 0]
  <2> DEFINE q == [NoLoc EXCEPT !.op = "create", !.name = n]
  <2>1. loc'[t] = q
    BY MoveEffect DEF CreateBegin, KeepInv, CallInv, DirInv, TableInv
  <2>2. q.op = "create" /\ q.name = n /\ q.end = 0
    BY DEF NoLoc
  <2> HIDE DEF q
  <2>3. CallOf(q, vnode') = [op |-> "create", name |-> n, size |-> 0]
    BY <2>2 DEF CallOf
  <2>4. QED
    BY <2>1, <2>3, CallNext
<1>5. AbsFile' = AbsFile /\ Unnamed' = Unnamed
  BY <1>1, DiskSame
<1>6. Promise!BeginCreate(n)
  BY <1>1, <1>3, <1>4, <1>5, IdleCall DEF Promise!BeginCreate, Promise!Exists
<1>7. QED
  BY <1>6 DEF Simulates, Promise!Next

(* The block that unlink clears first is that of the file. *)
LEMMA UnlinkBeginSimulates ==
    ASSUME OneCaller, NoClash, KeepInv, NEW t \in Threads, NEW n \in Names, UnlinkBegin(t, n)
    PROVE  Simulates
<1>1. /\ dentry[n] \in Vnodes /\ pc[t] = "idle" /\ itable' = itable
      /\ block' = [block EXCEPT ![vnode[dentry[n]].fo.first_block] = ZeroBlock]
  BY DEF UnlinkBegin
<1>2. PICK b \in Inode \ {0}, s \in Slot :
          /\ b = vnode[dentry[n]].fo.first_block /\ itable[b].name = n /\ block[0][s] = b
  BY <1>1, IdleCall, CachedObject
<1>3. /\ block'[0] = block[0] /\ block'[b] = ZeroBlock
      /\ \A j \in Inode \ {b} : block'[j] = block[j]
  BY <1>1, <1>2, ObjectTypes DEF KeepInv, CallInv, DirInv, TableInv, TypeInv, TypeOK
<1>4. s \in SlotsOf(block[0], itable, n)
  BY <1>2 DEF SlotsOf
<1>5. Unnamed' = Unnamed
  BY <1>1, <1>3 DEF Unnamed
<1>6. \A m \in Names : SlotsOf(block'[0], itable', m) = SlotsOf(block[0], itable, m)
  BY <1>1, <1>3 DEF SlotsOf
<1>7. \A x \in Slot : block[0][x] \in Inode \ {0} => block'[0][x] = block[0][x]
  BY <1>3
<1>8. \A m \in Names \ {n} : \A x \in SlotsOf(block[0], itable, m) :
          /\ itable'[block[0][x]].size = itable[block[0][x]].size
          /\ block'[block[0][x]] = block[block[0][x]]
  BY <1>1, <1>2, <1>3 DEF SlotsOf
<1>9. PICK o : o = [size |-> itable'[block[0][s]].size, data |-> block'[block[0][s]]]
  OBVIOUS
<1>10. /\ n \in DOMAIN AbsFile /\ AbsFile' = [AbsFile EXCEPT ![n] = o]
       /\ AbsFile[n] = [size |-> itable[block[0][s]].size, data |-> block[block[0][s]]]
  BY <1>4, <1>6, <1>7, <1>8, <1>9, OneFileChanges
<1>11. AbsFile' = [AbsFile EXCEPT ![n].data = ZeroBlock]
  <2>1. o = [AbsFile[n] EXCEPT !.data = ZeroBlock]
    BY <1>1, <1>2, <1>3, <1>9, <1>10
  <2>2. QED
    BY <1>10, <2>1
<1>12. AbsCall' = [op |-> "unlink", name |-> n, size |-> 0]
  <2> DEFINE q == [NoLoc EXCEPT !.op = "unlink", !.name = n, !.v = dentry[n],
                                !.blk = vnode[dentry[n]].fo.first_block]
  <2>1. loc'[t] = q
    BY MoveEffect DEF UnlinkBegin, KeepInv, CallInv, DirInv, TableInv
  <2>2. q.op = "unlink" /\ q.name = n /\ q.end = 0
    BY DEF NoLoc
  <2> HIDE DEF q
  <2>3. CallOf(q, vnode') = [op |-> "unlink", name |-> n, size |-> 0]
    BY <2>2 DEF CallOf
  <2>4. QED
    BY <2>1, <2>3, CallNext
<1>13. Promise!BeginUnlink(n)
  BY <1>1, <1>5, <1>10, <1>11, <1>12, IdleCall DEF Promise!BeginUnlink, Promise!Exists
<1>14. QED
  BY <1>13 DEF Simulates, Promise!Next

LEMMA WriteBeginSimulates ==
    ASSUME OneCaller, NoClash, KeepInv, NEW t \in Threads, NEW fd \in Fds, NEW len \in Lens,
           NEW d \in Data, WriteBegin(t, fd, len, d)
    PROVE  Simulates
<1> DEFINE f  == file[fd]
           fo == vnode[f.v].fo
           e  == f.pos + (IF len > W THEN W ELSE len)
           b  == WriteBuffer(block[fo.first_block], f.app, fo.size, f.pos, e, d)
           q  == [NoLoc EXCEPT !.op = "write", !.v = f.v, !.fd = fd,
                               !.blk = fo.first_block, !.end = e, !.buf = b]
<1>1. /\ pc[t] = "idle" /\ f.v # None /\ e <= MaxEnd /\ Move(t, "wr_block", q)
      /\ UNCHANGED <<itable, block, vnode>>
  BY DEF WriteBegin, IsOpen, disk, memory
<1>2. f \in File /\ e \in 0 .. MaxEnd
  <2>1. f \in File
    BY DEF KeepInv, CallInv, DirInv, TableInv, TypeInv, TypeOK
  <2>2. f.pos \in Nat /\ len \in Nat /\ W \in Nat /\ MaxEnd \in Nat
    BY <2>1, BoundsAssumption, SizesAssumption DEF File
  <2>3. QED
    BY <1>1, <2>1, <2>2
<1> HIDE DEF e, b
<1>3. q.op = "write" /\ q.v = f.v /\ q.end = e
  BY DEF NoLoc
<1>4. loc'[t] = q
  BY <1>1, MoveEffect DEF KeepInv, CallInv, DirInv, TableInv
<1> HIDE DEF q
<1>5. PICK n \in Names : dentry[n] = f.v /\ f.v \in Vnodes
  <2>1. f.v \in Vnodes
    BY <1>1, <1>2 DEF File
  <2>2. f.v \notin FreeVnodes
    BY <2>1 DEF FreeVnodes, FdsOf
  <2>3. QED
    BY <2>1, <2>2, HeldCached DEF InCache, KeepInv
<1>6. PICK i \in Inode \ {0}, s \in Slot :
          itable[i] = fo /\ itable[i].name = n /\ block[0][s] = i
  BY <1>1, <1>5, IdleCall, CachedObject
<1>7. n \in DOMAIN AbsFile
  BY <1>6, FilesNow DEF FilesOf, NamesIn, SlotsOf
<1>8. AbsCall' = [op |-> "write", name |-> n, size |-> e]
  <2>1. vnode'[q.v].fo.name = n
    BY <1>1, <1>3, <1>6
  <2>2. CallOf(q, vnode') = [op |-> "write", name |-> n, size |-> e]
    BY <1>3, <2>1 DEF CallOf
  <2>3. QED
    BY <1>4, <2>2, CallNext
<1>9. AbsFile' = AbsFile /\ Unnamed' = Unnamed
  BY <1>1, DiskSame
<1>10. Promise!BeginWrite(n, e)
  BY <1>1, <1>7, <1>8, <1>9, IdleCall DEF Promise!BeginWrite, Promise!Exists
<1>11. QED
  BY <1>2, <1>10 DEF Simulates, Promise!Next

(* A call that is over has done what it was to do. *)
LEMMA ReturnsSimulate ==
    ASSUME OneCaller, NoClash, PromiseInv, NEW t \in Threads,
           WriteReturn(t) \/ CreateReturn(t) \/ UnlinkReturn(t)
    PROVE  Simulates
<1>1. /\ pc[t] = "ret" /\ loc[t].op \in {"create", "unlink", "write"}
      /\ Move(t, "idle", NoLoc) /\ UNCHANGED <<itable, block>>
      /\ KeepFits("ret", loc[t]) /\ CreateFits("ret", loc[t]) /\ PromiseFits("ret", loc[t])
      /\ LocalsFit("ret", loc[t])
  BY CallLocals
  DEF WriteReturn, CreateReturn, UnlinkReturn, Return, disk, CallFits, PromiseInv, PromiseRest
<1>2. AbsCall' = Promise!NoCall
  <2>1. loc'[t] = NoLoc
    BY <1>1, MoveEffect DEF PromiseInv, KeepInv, CallInv, DirInv, TableInv
  <2>2. CallOf(NoLoc, vnode') = Promise!NoCall
    BY DEF CallOf, NoLoc, Promise!NoCall
  <2>3. QED
    BY <2>1, <2>2, CallNext
<1>3. AbsCall = CallOf(loc[t], vnode)
  BY CallNow
<1>4. AbsCall # Promise!NoCall
  BY <1>1, <1>3 DEF CallOf, Promise!NoCall
<1>5. AbsFile' = AbsFile /\ Unnamed' = Unnamed
  BY <1>1, DiskSame
<1>6. DOMAIN AbsFile = {n \in Names : SlotsOf(block[0], itable, n) # {}}
  BY FilesNow DEF FilesOf, NamesIn
<1>7. CASE loc[t].op = "create"
  <2>1. loc[t].name \in DOMAIN AbsFile
    <3>1. Visible(loc[t].name) /\ loc[t].name \in Names
      BY <1>1, <1>7 DEF CreateFits, StatLabels, LocalsFit
    <3>2. QED
      BY <1>6, <3>1 DEF Visible
  <2>2. Promise!Done
    BY <1>3, <1>7, <2>1 DEF Promise!Done, Promise!InCall, Promise!Exists, CallOf
  <2>3. QED
    BY <1>2, <1>4, <1>5, <2>2 DEF Promise!Return, Simulates, Promise!Next
<1>8. CASE loc[t].op = "unlink"
  <2>1. loc[t].name \notin DOMAIN AbsFile
    BY <1>1, <1>6, <1>8 DEF KeepFits, StatLabels
  <2>2. Promise!Done
    BY <1>3, <1>8, <2>1 DEF Promise!Done, Promise!InCall, Promise!Exists, CallOf
  <2>3. QED
    BY <1>2, <1>4, <1>5, <2>2 DEF Promise!Return, Simulates, Promise!Next
<1>9. CASE loc[t].op = "write"
  <2>1. PICK n \in Names, s \in Slot :
            /\ vnode[loc[t].v].fo.name = n /\ s \in SlotsOf(block[0], itable, n)
            /\ itable[block[0][s]] = vnode[loc[t].v].fo
    BY <1>1, <1>9, FileAtWork DEF PromiseInv
  <2>2. OneLead(block[0], itable)
    BY LeadNow DEF PromiseInv
  <2>3. n \in DOMAIN AbsFile /\ AbsFile[n].size = loc[t].end
    <3>1. itable[block[0][s]].size = loc[t].end
      BY <1>1, <1>9, <2>1 DEF PromiseFits
    <3>2. n \in DOMAIN AbsFile
          /\ AbsFile[n] = [size |-> itable[block[0][s]].size, data |-> block[block[0][s]]]
      BY <2>1, <2>2, FileAt, FilesNow
    <3>3. QED
      BY <3>1, <3>2
  <2>4. Promise!Done
    BY <1>3, <1>9, <2>1, <2>3 DEF Promise!Done, Promise!InCall, Promise!Exists, CallOf
  <2>5. QED
    BY <1>2, <1>4, <1>5, <2>4 DEF Promise!Return, Simulates, Promise!Next
<1>10. QED
  BY <1>1, <1>7, <1>8, <1>9

(* create is refused when there is no room, and only then. *)
LEMMA CreateNoSpaceSimulates ==
    ASSUME OneCaller, NoClash, KeepInv, NEW t \in Threads, CreateNoSpace(t)
    PROVE  Simulates
<1>1. /\ pc[t] = "cr_dir" /\ loc[t].op = "create" /\ Move(t, "idle", NoLoc)
      /\ UNCHANGED <<itable, block>> /\ rootfo = Root
      /\ KeepFits("cr_dir", loc[t]) /\ CreateFits("cr_dir", loc[t]) /\ Sound(block[0], itable)
  BY CallLocals
  DEF CreateNoSpace, Return, disk, LocalsFit, CreateLabels, DirOps, CallFits, Good, Settled
<1>2. NoSpace(block[0], itable)
  <2>1. NoSpace(block[0], loc[t].tbl)
    BY <1>1, RootRead DEF CreateNoSpace
  <2>2. FreeInodes(itable) = FreeInodes(loc[t].tbl)
    BY <1>1 DEF FreeInodes, CreateFits
  <2>3. QED
    BY <2>1, <2>2 DEF NoSpace
<1>3. \A i \in Inode : itable[i].in_use \in {0, 1}
  BY ObjectAt DEF FileObject, KeepInv, CallInv, DirInv
<1>4. \A i \in Inode \ {0} : itable[i].in_use = 1 => itable[i].name \in Names
  BY DEF KeepInv, CallInv, DirInv, TableInv, TableRest, SoundTable, SoundObject, FreeObject
<1>5. Promise!Full
  <2>1. \/ Cardinality(NamesIn(block[0], itable)) >= W
        \/ Cardinality(NamesIn(block[0], itable)) + Cardinality(UnnamedIn(block[0], itable)) >= N - 1
    <3>1. PICK dir : dir = block[0]
      OBVIOUS
    <3>2. SlotsUsed(dir, itable) /\ SlotsDiffer(dir, itable) /\ NoSpace(dir, itable)
      BY <1>1, <1>2, <3>1 DEF Sound
    <3>3. QED
      BY <1>3, <1>4, <3>1, <3>2, NoRoom
  <2>2. DOMAIN AbsFile = NamesIn(block[0], itable) /\ Unnamed = UnnamedIn(block[0], itable)
    BY FilesNow DEF FilesOf, Unnamed, UnnamedIn
  <2>3. QED
    BY <2>1, <2>2, SameCount DEF Promise!Full
<1>6. loc[t].name \notin DOMAIN AbsFile
  BY <1>1, FilesNow DEF FilesOf, NamesIn, KeepFits
<1>7. AbsCall' = Promise!NoCall /\ AbsCall.op = "create" /\ AbsCall.name = loc[t].name
  <2>1. loc'[t] = NoLoc
    BY <1>1, MoveEffect DEF KeepInv, CallInv, DirInv, TableInv
  <2>2. CallOf(NoLoc, vnode') = Promise!NoCall
    BY DEF CallOf, NoLoc, Promise!NoCall
  <2>3. QED
    BY <1>1, <2>1, <2>2, CallNow, CallNext DEF CallOf
<1>8. AbsFile' = AbsFile /\ Unnamed' = Unnamed
  BY <1>1, DiskSame
<1>9. Promise!Refuse
  BY <1>5, <1>6, <1>7, <1>8 DEF Promise!Refuse, Promise!InCall, Promise!Exists
<1>10. QED
  BY <1>9 DEF Simulates, Promise!Next

(* No call ends half way: unlink finds the entry of its file, the root     *)
(* directory has its block, and no access fails.                           *)
LEMMA NoneStops ==
    ASSUME OneCaller, NoClash, AllGoesWell, KeepInv, NEW t \in Threads
    PROVE  ~UnlinkNoEntry(t) /\ ~NoBlocks(t) /\ ~OpFails(t) /\ ~StatFails(t)
<1>1. ~OpFails(t) /\ ~StatFails(t)
  BY DEF OpFails, StatFails, AllGoesWell
<1>2. ~NoBlocks(t)
  <2>1. SUFFICES ASSUME NoBlocks(t) PROVE FALSE
    OBVIOUS
  <2>2. rootfo = Root /\ rootfo.size \div W = 0
    BY <2>1, CallLocals DEF NoBlocks, LocalsFit, CreateLabels, UnlinkLabels, DirOps
  <2>3. QED
    BY <2>2, RootRead
<1>3. ~UnlinkNoEntry(t)
  <2>1. SUFFICES ASSUME UnlinkNoEntry(t) PROVE FALSE
    OBVIOUS
  <2>2. /\ pc[t] = "ul_dir" /\ loc[t].op = "unlink" /\ rootfo = Root /\ loc[t].name \in Names
        /\ loc[t].v \in Vnodes /\ Coherent(itable)
        /\ UnlinkFits("ul_dir", loc[t])
    BY <2>1, CallLocals
    DEF UnlinkNoEntry, LocalsFit, UnlinkLabels, DirOps, CallFits, Good, Settled
  <2>3. dentry[loc[t].name] = loc[t].v
    BY <2>2 DEF KeepInv, CallInv, DirInv, DirRest, UnlinkName
  <2>4. ~Gone(loc[t].name)
    BY <2>2 DEF Gone, OneCaller, StatLabels
  <2>5. PICK s \in Slot : block[0][s] = vnode[loc[t].v].fo.first_block
    BY <2>2, <2>3, <2>4, CachedObject
  <2>6. block[0][s] = loc[t].blk
    BY <2>2, <2>5 DEF UnlinkFits, UnlinkLabels
  <2>7. QED
    BY <2>1, <2>2, <2>6, RootRead DEF UnlinkNoEntry, EntrySlots
<1>4. QED
  BY <1>1, <1>2, <1>3
-----------------------------------------------------------------------------
(* What happens beside the calls changes nothing that the promise speaks   *)
(* of.                                                                     *)
LEMMA BesideStill ==
    ASSUME OneCaller, UNCHANGED <<itable, block, loc>>,
           \A t \in Threads : loc[t].op = "write" => vnode'[loc[t].v].fo = vnode[loc[t].v].fo
    PROVE  Still
<1>1. AbsCall' = AbsCall
  <2>1. CASE Threads = {}
    BY <2>1 DEF AbsCall, Callers
  <2>2. ASSUME NEW t \in Threads PROVE AbsCall' = AbsCall
    <3>1. CallOf(loc'[t], vnode') = CallOf(loc[t], vnode)
      BY DEF CallOf
    <3>2. QED
      BY <3>1, CallNow, CallNext
  <2>3. QED
    BY <2>1, <2>2
<1>2. QED
  BY <1>1, DiskSame DEF Still

LEMMA UnmountStill ==
    ASSUME KeepInv, Unmount
    PROVE  Still
<1>1. \A t \in Threads : loc[t].op = "none" /\ loc'[t].op = "none"
  BY CallLocals DEF Unmount, MemoryLost, CallFits, NoLoc
<1>2. AbsCall' = AbsCall
  BY <1>1 DEF AbsCall, Callers
<1>3. QED
  BY <1>2, DiskSame DEF Still, Unmount, MemoryLost, disk

LEMMA EveryStepSimulates ==
    ASSUME OneCaller, NoClash, MemoryKept, AllGoesWell, NoneCreatedAgain,
           PromiseInv, KeepInv', [Next]_vars
    PROVE  Simulates
<1>1. KeepInv
  BY DEF PromiseInv
<1>2. ASSUME \/ \E n \in Names : Lookup(n) \/ Evict(n)
             \/ \E fd \in Fds, n \in Names, app, trunc \in BOOLEAN : Open(fd, n, app, trunc)
             \/ \E fd \in Fds : Close(fd) \/ Read(fd)
             \/ Mount
      PROVE  Simulates
  <2>1. UNCHANGED <<itable, block, loc>>
    BY <1>2 DEF Lookup, Evict, Open, Close, Read, Mount, disk
  <2>2. QED
    BY <1>1, <1>2, <2>1, BesideHolds, BesideStill, StillSimulates
<1>3. CASE Call
  BY <1>1, <1>2, <1>3, CreateBeginSimulates, UnlinkBeginSimulates, WriteBeginSimulates DEF Call
<1>4. ASSUME NEW t \in Threads, Step(t) PROVE Simulates
  BY <1>1, <1>4, ReadsStill, WriteSizeStill, CreateWriteDirStill, StillSimulates,
     CreateWriteTableSimulates, UnlinkWriteDirSimulates, StatWriteTableSimulates,
     WriteBlockSimulates, ReturnsSimulate, CreateNoSpaceSimulates, NoneStops
  DEF Step, Work
<1>5. CASE Environment
  <2>1. ~Crash /\ ~\E v \in Vnodes : Recycled(v)
    BY DEF MemoryKept, Recycled, Crash, AllGoesWell
  <2>2. QED
    BY <1>1, <1>2, <1>5, <2>1, UnmountStill, StillSimulates DEF Environment
<1>6. CASE UNCHANGED vars
  BY <1>6, BesideStill, StillSimulates DEF vars
<1>7. QED
  BY <1>3, <1>4, <1>5, <1>6 DEF Next

(* Just after mkfs there are no files and no calls. *)
LEMMA InitSimulates == Init => Promise!Init
<1> SUFFICES ASSUME Init PROVE Promise!Init
  OBVIOUS
<1>1. /\ itable = FreshTable /\ block = [i \in Inode |-> ZeroBlock]
      /\ \A t \in Threads : loc[t] = NoLoc
  BY DEF Init
<1>2. \A n \in Names : SlotsOf(block[0], itable, n) = {}
  BY <1>1, ObjectTypes DEF SlotsOf, ZeroBlock
<1>3. AbsFile = [n \in {} |-> [size |-> 0, data |-> ZeroBlock]]
  <2>1. NamesIn(block[0], itable) = {}
    BY <1>2 DEF NamesIn
  <2>2. QED
    BY <2>1, FilesNow DEF FilesOf
<1>4. AbsCall = Promise!NoCall
  BY <1>1 DEF AbsCall, Callers, NoLoc, Promise!NoCall
<1>5. Cardinality(Unnamed) = 0
  <2>1. Unnamed = {}
    BY <1>1 DEF Unnamed, FreshTable, FreeObject
  <2>2. QED
    BY <2>1, FS_EmptySet
<1>6. QED
  BY <1>3, <1>4, <1>5 DEF Promise!Init

(* With one call at a time, none of which fails half way, removes an open  *)
(* file or creates a name again that is there, the module keeps the        *)
(* promise of Files: create, write and unlink change their own file and no *)
(* other, in full before they return; a new file is empty, whatever its    *)
(* block was used for before; and create is refused only for want of a     *)
(* slot or an inode.                                                       *)
THEOREM PromiseKept ==
    ASSUME OneCaller, NoClash, MemoryKept, FilesKeptOpen, NoEmptyWrites,
           AllGoesWell, NoneCreatedAgain
    PROVE  Spec => KeepsPromise
<1>1. Init => PromiseInv /\ Promise!Init
  BY PromiseInvInit, InitSimulates
<1>2. PromiseInv /\ [Next]_vars => PromiseInv' /\ [Promise!Next]_(Promise!vars)
  <2> SUFFICES ASSUME PromiseInv, [Next]_vars
               PROVE  PromiseInv' /\ [Promise!Next]_(Promise!vars)
    OBVIOUS
  <2>1. PromiseInv'
    BY PromiseInvStep
  <2>2. Simulates
    BY <2>1, EveryStepSimulates DEF PromiseInv
  <2>3. QED
    BY <2>1, <2>2 DEF Simulates, Promise!vars
<1>3. QED
  BY <1>1, <1>2, PTL DEF Spec, KeepsPromise, Promise!Spec
=============================================================================
