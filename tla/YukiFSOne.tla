----------------------------- MODULE YukiFSOne -----------------------------
(***************************************************************************)
(* What the kernel module keeps true when one call is made at a time, for  *)
(* every size of volume, every set of names and descriptors and all that a *)
(* program may do between the calls.                                       *)
(***************************************************************************)
EXTENDS YukiFSDir, YukiFSFiles

(* One thread makes all the calls. *)
OneCaller == \A t, u \in Threads : t = u

(* No power failure and no failing access. *)
AllGoesWell == {"crash", "fault"} \cap Env = {}
-----------------------------------------------------------------------------
(* Going over the table block by block. *)
LEMMA QuotientGrows ==
    ASSUME NEW i \in Nat, NEW n \in Nat, NEW p \in Nat \ {0}, i <= n
    PROVE  i \div p \in Nat /\ i \div p <= n \div p
<1> DEFINE q == i \div p
           m == n \div p
<1>1. q \in Nat /\ m \in Nat /\ p * q <= i /\ n < p * (m + 1)
  BY SMT
<1> HIDE DEF q, m
<1>2. p * q < p * (m + 1)
  BY <1>1, SMT
<1>3. q < m + 1
  BY <1>1, <1>2, SMT
<1>4. QED
  BY <1>1, <1>3 DEF q, m

LEMMA ClusterBound == \A i \in Inode : ClusterOf(i) \in Nat /\ ClusterOf(i) <= LastCluster
BY QuotientGrows, SizesAssumption DEF Inode, ClusterOf, LastCluster

(* Blocks 0 to k - 1 of tables t and u are equal. *)
SameUpTo(k, t, u) == \A i \in Inode : ClusterOf(i) < k => t[i] = u[i]

LEMMA CopyMore ==
    ASSUME NEW t, NEW u, NEW k \in Nat, SameUpTo(k, t, u)
    PROVE  /\ SameUpTo(k + 1, CopyCluster(t, u, k), u)
           /\ k >= LastCluster => \A i \in Inode : CopyCluster(t, u, k)[i] = u[i]
<1>1. LastCluster \in Nat
  BY ObjectTypes
<1>2. QED
  BY <1>1, ClusterBound DEF SameUpTo, CopyCluster

LEMMA FreshInUse == InUse(FreshTable) = 1
<1>1. {i \in Inode : FreshTable[i].in_use = 1} = {0}
  BY ObjectTypes DEF FreshTable, Root, FreeObject
<1>2. QED
  BY <1>1, FS_Singleton DEF InUse

LEMMA CountedDown ==
    ASSUME NEW used \in 0 .. N
    PROVE  CountDown(N, used) = N - used
<1>1. N + U - used = N - used + U /\ N - used \in 0 .. U - 1
  BY SizesAssumption
<1>2. (N - used + U) % U = N - used
  BY <1>1, SizesAssumption
<1>3. QED
  BY <1>1, <1>2 DEF CountDown
-----------------------------------------------------------------------------
(* Labels of a call that has begun to change the table and has not brought *)
(* the counters up to date.                                                *)
Counting == {"cr_wtab"} \cup StatLabels

InStep == super = N - InUse(itable) /\ (mounted => sbi = super)

(* What is known of the counters on the way. *)
CountFits(l, r) ==
    /\ l = "us_write" => SameUpTo(r.k, itable, r.tbl)
    /\ l \in {"us_reset", "us_count"} => r.used = InUse(itable)
    /\ l = "us_count" => sbi = N
    /\ l = "us_super" => sbi = N - InUse(itable)

(* Nothing happens on a volume that is not mounted. *)
AtRest == mounted \/ /\ \A t \in Threads : pc[t] = "idle"
                     /\ \A n \in Names : dentry[n] = None
                     /\ \A fd \in Fds : ~IsOpen(fd)

CountRest == /\ AtRest
             /\ (\A t \in Threads : pc[t] \notin Counting) => InStep
             /\ \A t \in Threads : CountFits(pc[t], loc[t])
CountInv == TypeInv /\ CountRest

LEMMA AtRestStep ==
    ASSUME TypeInv, AtRest, MemoryKept, [Next]_vars
    PROVE  AtRest'
<1>1. ASSUME MemoryLost PROVE AtRest'
  BY <1>1 DEF MemoryLost, AtRest, IsOpen, Closed
<1>2. ASSUME mounted, mounted' = mounted PROVE AtRest'
  BY <1>2 DEF AtRest
<1>3. ASSUME mounted, ~MemoryLost PROVE mounted' = mounted
  <2>1. CASE Call
    BY <2>1 DEF Call, Lookup, Open, Close, Read, WriteBegin, CreateBegin, UnlinkBegin, memory
  <2>2. CASE \E t \in Threads : Step(t)
    BY <2>2
    DEF Step, Work, WriteBlock, WriteSize, WriteReturn, CreateReadTable, CreateReadDir,
        CreateNoSpace, CreateWriteDir, CreateWriteTable, CreateReturn, UnlinkReadDir,
        UnlinkNoEntry, UnlinkWriteDir, UnlinkReturn, StatReadTable, StatWriteTable,
        StatReset, StatCount, StatWriteSuper, NoBlocks, OpFails, StatFails, memory
  <2>3. CASE Environment
    BY <1>3, <2>3 DEF Environment, Evict, Recycled, Crash, Unmount, Mount
  <2>4. CASE UNCHANGED vars
    BY <2>4 DEF vars
  <2>5. QED
    BY <2>1, <2>2, <2>3, <2>4 DEF Next
<1>4. ASSUME ~mounted, AtRest PROVE AtRest'
  <2>1. None \notin Vnodes
    BY VnodesAssumption
  <2>2. ~Call /\ ~\E t \in Threads : Step(t)
    BY <1>4, <2>1
    DEF AtRest, Call, Lookup, Open, Close, Read, WriteBegin, CreateBegin, UnlinkBegin,
        Step, Work, WriteBlock, WriteSize, WriteReturn, CreateReadTable, CreateReadDir,
        CreateNoSpace, CreateWriteDir, CreateWriteTable, CreateReturn, UnlinkReadDir,
        UnlinkNoEntry, UnlinkWriteDir, UnlinkReturn, StatReadTable, StatWriteTable,
        StatReset, StatCount, StatWriteSuper, NoBlocks, OpFails, StatFails,
        CreateLabels, UnlinkLabels
  <2>3. CASE Environment
    BY <1>4, <2>3 DEF AtRest, MemoryKept, Environment, Evict, Recycled, Crash, Unmount, Mount
  <2>4. CASE UNCHANGED vars
    BY <1>4, <2>4 DEF vars, AtRest, IsOpen
  <2>5. QED
    BY <2>2, <2>3, <2>4 DEF Next
<1>5. QED
  BY <1>1, <1>2, <1>3, <1>4

(* The only thread moves on. *)
LEMMA CountMove ==
    ASSUME OneCaller, CountInv, NEW t \in Threads, NEW l, NEW r, Move(t, l, r), AtRest',
           l \notin Counting => InStep', CountFits(l, r)'
    PROVE  CountRest'
<1>1. pc'[t] = l /\ loc'[t] = r /\ \A u \in Threads : u = t
  BY MoveEffect DEF CountInv, OneCaller
<1>2. QED
  BY <1>1 DEF CountRest, CountInv

LEMMA StartCounts ==
    ASSUME CountInv, NEW t \in Threads, OneCaller, pc[t] \notin Counting
    PROVE  InStep
BY DEF CountInv, CountRest, OneCaller

(* A step that changes neither the table nor the counters, to a label      *)
(* where nothing is known of them or where they are in step.               *)
LEMMA CountKeeps ==
    ASSUME OneCaller, CountInv, NEW t \in Threads, NEW l, NEW r, Move(t, l, r), AtRest',
           l \notin {"us_write", "us_reset", "us_count", "us_super"},
           pc[t] \notin Counting \/ l \in Counting,
           UNCHANGED <<itable, super, mounted, sbi>>
    PROVE  CountRest'
BY CountMove, StartCounts DEF CountFits, InStep

LEMMA CountStep ==
    ASSUME OneCaller, AllGoesWell, MemoryKept, CountInv, AtRest', NEW t \in Threads, Step(t)
    PROVE  CountRest'
<1> USE DEF Counting, StatLabels
<1>1. CASE \/ WriteReturn(t) \/ CreateNoSpace(t) \/ CreateReturn(t)
           \/ UnlinkNoEntry(t) \/ NoBlocks(t) \/ UnlinkReturn(t)
  BY <1>1, CountKeeps
  DEF WriteReturn, CreateNoSpace, CreateReturn, UnlinkNoEntry, NoBlocks, UnlinkReturn,
      Return, disk, memory
<1>2. CASE \/ WriteBlock(t) \/ WriteSize(t) \/ CreateReadTable(t) \/ CreateReadDir(t)
           \/ CreateWriteDir(t) \/ UnlinkReadDir(t) \/ UnlinkWriteDir(t)
  <2> DEFINE Labs == {"wr_size", "us_read", "cr_read", "cr_dir", "cr_wdir", "cr_wtab", "ul_wdir"}
  <2>1. PICK l, r : l \in Labs /\ Move(t, l, r)
    <3>1. CASE WriteBlock(t) \/ WriteSize(t) \/ CreateReadTable(t) \/ CreateWriteDir(t)
      BY <3>1 DEF WriteBlock, WriteSize, CreateReadTable, CreateWriteDir
    <3>2. CASE CreateReadDir(t)
      BY <3>2 DEF CreateReadDir
    <3>3. CASE UnlinkReadDir(t)
      BY <3>3 DEF UnlinkReadDir
    <3>4. CASE UnlinkWriteDir(t)
      BY <3>4 DEF UnlinkWriteDir
    <3>5. QED
      BY <1>2, <3>1, <3>2, <3>3, <3>4
  <2>2. pc[t] \notin Counting /\ UNCHANGED <<itable, super, mounted, sbi>>
    BY <1>2 DEF WriteBlock, WriteSize, CreateReadTable, CreateReadDir, CreateWriteDir,
       UnlinkReadDir, UnlinkWriteDir, disk, memory
  <2>3. QED
    BY <2>1, <2>2, CountKeeps
<1>3. CASE CreateWriteTable(t)
  <2>1. PICK l, r : l \in {"cr_wtab", "us_read"} /\ Move(t, l, r)
    BY <1>3 DEF CreateWriteTable
  <2>2. QED
    BY <2>1, CountMove DEF CountFits
<1>4. CASE StatReadTable(t)
  <2>1. CASE loc[t].k < LastCluster
    BY <1>4, <2>1, CountKeeps DEF StatReadTable, disk, memory
  <2>2. CASE ~(loc[t].k < LastCluster)
    <3>1. PICK tbl : Move(t, "us_write", [loc[t] EXCEPT !.k = 0, !.tbl = tbl])
      BY <1>4, <2>2 DEF StatReadTable
    <3>2. PICK r : r.k = 0 /\ Move(t, "us_write", r)
      BY <3>1, LocTypes DEF CountInv, Loc
    <3>3. CountFits("us_write", r)'
      BY <3>2, ClusterBound DEF CountFits, SameUpTo
    <3>4. QED
      BY <3>2, <3>3, CountMove
  <2>3. QED
    BY <2>1, <2>2
<1>5. CASE StatWriteTable(t)
  <2>1. loc[t] \in Loc /\ loc[t].k \in Nat /\ LastCluster \in Nat
    BY LocTypes, ObjectTypes DEF CountInv, Clusters
  <2>2. SameUpTo(loc[t].k, itable, loc[t].tbl) /\ itable' = CopyCluster(itable, loc[t].tbl, loc[t].k)
    BY <1>5 DEF StatWriteTable, CountInv, CountRest, CountFits
  <2>3. CASE loc[t].k < LastCluster
    <3>1. PICK r : r.k = loc[t].k + 1 /\ r.tbl = loc[t].tbl /\ Move(t, "us_write", r)
      BY <1>5, <2>1, <2>3 DEF StatWriteTable, Loc
    <3>2. SameUpTo(loc[t].k + 1, itable', loc[t].tbl)
      BY <2>1, <2>2, CopyMore
    <3>3. CountFits("us_write", r)'
      BY <3>1, <3>2 DEF CountFits, SameUpTo
    <3>4. QED
      BY <3>1, <3>3, CountMove
  <2>4. CASE ~(loc[t].k < LastCluster)
    <3>1. PICK r : r.used = InUse(loc[t].tbl) /\ Move(t, "us_reset", r)
      BY <1>5, <2>1, <2>4 DEF StatWriteTable, Loc, MemoryKept
    <3>2. \A i \in Inode : itable'[i] = loc[t].tbl[i]
      BY <2>1, <2>2, <2>4, CopyMore
    <3>3. InUse(loc[t].tbl) = InUse(itable)'
      BY <3>2 DEF InUse
    <3>4. CountFits("us_reset", r)'
      BY <3>1, <3>3 DEF CountFits
    <3>5. QED
      BY <3>1, <3>4, CountMove
  <2>5. QED
    BY <2>3, <2>4
<1>6. CASE StatReset(t)
  <2>1. loc[t].used = InUse(itable) /\ sbi' = N /\ UNCHANGED itable
    BY <1>6 DEF StatReset, CountInv, CountRest, CountFits, disk
  <2>2. PICK r : r.used = loc[t].used /\ Move(t, "us_count", r)
    BY <1>6 DEF StatReset
  <2>3. CountFits("us_count", r)'
    BY <2>1, <2>2 DEF CountFits, InUse
  <2>4. QED
    BY <2>2, <2>3, CountMove
<1>7. CASE StatCount(t)
  <2>1. loc[t].used = InUse(itable) /\ sbi = N /\ UNCHANGED itable
    BY <1>7 DEF StatCount, CountInv, CountRest, CountFits, disk
  <2>2. sbi' = N - InUse(itable)
    BY <1>7, <2>1, InUseBound, CountedDown DEF StatCount
  <2>3. PICK r : Move(t, "us_super", r)
    BY <1>7 DEF StatCount
  <2>4. CountFits("us_super", r)'
    BY <2>1, <2>2 DEF CountFits, InUse
  <2>5. QED
    BY <2>3, <2>4, CountMove
<1>8. CASE StatWriteSuper(t)
  <2>1. InStep'
    BY <1>8 DEF StatWriteSuper, CountInv, CountRest, CountFits, InStep, InUse, memory
  <2>2. QED
    BY <1>8, <2>1, CountMove DEF StatWriteSuper, CountFits
<1>9. CASE OpFails(t) \/ StatFails(t)
  BY <1>9 DEF OpFails, StatFails, AllGoesWell
<1>10. QED
  BY <1>1, <1>2, <1>3, <1>4, <1>5, <1>6, <1>7, <1>8, <1>9 DEF Step, Work

(* Steps that leave threads, table and counters alone. *)
LEMMA CountSame ==
    ASSUME CountInv, AtRest', UNCHANGED <<itable, super, mounted, sbi, pc, loc>>
    PROVE  CountRest'
BY DEF CountInv, CountRest, InStep, InUse, CountFits, SameUpTo

LEMMA CountInvStep ==
    ASSUME OneCaller, AllGoesWell, MemoryKept, CountInv, [Next]_vars
    PROVE  CountInv'
<1> SUFFICES CountRest'
  BY TypeInvStep DEF CountInv
<1>1. AtRest'
  BY AtRestStep DEF CountInv, CountRest
<1>2. CASE Call
  <2>1. ASSUME NEW t \in Threads, NEW l, NEW r, Move(t, l, r), pc[t] = "idle",
               l \in {"cr_read", "ul_dir", "wr_block"},
               UNCHANGED <<itable, super, mounted, sbi>>
        PROVE  CountRest'
    BY <1>1, <2>1, CountKeeps DEF Counting, StatLabels
  <2>2. ASSUME NEW t \in Threads, NEW n \in Names, CreateBegin(t, n) \/ UnlinkBegin(t, n)
        PROVE  CountRest'
    BY <2>1, <2>2 DEF CreateBegin, UnlinkBegin, disk, memory
  <2>3. ASSUME NEW t \in Threads, NEW fd \in Fds, NEW len \in Lens, NEW d \in Data,
               WriteBegin(t, fd, len, d)
        PROVE  CountRest'
    BY <2>1, <2>3 DEF WriteBegin, disk, memory
  <2>4. QED
    BY <1>1, <1>2, <2>2, <2>3, CountSame DEF Call, Lookup, Open, Close, Read, disk
<1>3. CASE \E t \in Threads : Step(t)
  BY <1>1, <1>3, CountStep
<1>4. CASE Environment
  <2>1. CASE Mount
    <3>1. \A t \in Threads : pc[t] = "idle"
      BY <2>1 DEF Mount, CountInv, CountRest, AtRest
    <3>2. QED
      BY <1>1, <2>1, <3>1
      DEF Mount, CountInv, CountRest, InStep, InUse, CountFits, Counting, StatLabels, disk
  <2>2. CASE Unmount
    BY <1>1, <2>2 DEF Unmount, MemoryLost, CountInv, CountRest, InStep, InUse, CountFits,
       Counting, StatLabels, disk
  <2>3. QED
    BY <1>1, <1>4, <2>1, <2>2, CountSame
    DEF Environment, Evict, Recycled, Crash, AllGoesWell, disk
<1>5. CASE UNCHANGED vars
  BY <1>1, <1>5, CountSame DEF vars
<1>6. QED
  BY <1>2, <1>3, <1>4, <1>5 DEF Next

LEMMA CountInvInit == Init => CountInv
BY TypeInvInit, FreshInUse, SizesAssumption
DEF Init, CountInv, CountRest, AtRest, InStep, CountFits, IsOpen, Closed

(* After every call the counter of the mounted superblock, the one on the  *)
(* disk and the number of used inodes agree, for any number of inodes and  *)
(* any blocks of the table, as long as one call is made at a time and none *)
(* fails half way.                                                         *)
THEOREM CountsRight ==
    ASSUME OneCaller, AllGoesWell, MemoryKept PROVE Spec => []CountsMatch
<1>1. CountInv => CountsMatch
  BY DEF CountInv, CountRest, CountsMatch, Quiet, InStep, InUse, Counting, StatLabels
<1>2. CountInv /\ [Next]_vars => CountInv'
  BY CountInvStep
<1>3. QED
  BY <1>1, <1>2, CountInvInit, PTL DEF Spec
-----------------------------------------------------------------------------
(* The rest is about names and blocks.  It holds with crashes and failing  *)
(* accesses, but not when a file is removed that is still open, nor when   *)
(* nothing is written to the start of a file: update_statfs takes the size *)
(* 0 that this leaves for a removal (file.c 676).                          *)
FilesKeptOpen == "unlink_open" \notin Env
NoEmptyWrites == 0 \notin Lens

(* What update_statfs makes of one object. *)
UpdateOne(o, fo) ==
    IF o.in_use = 1 /\ o.name = fo.name
    THEN IF o.size # 0 /\ fo.size = 0 THEN FreeObject ELSE [o EXCEPT !.size = fo.size]
    ELSE o

StatOf(r) == IF r.op = "create" THEN r.fo ELSE vnode[r.v].fo

Unlinking(n) == \E t \in Threads : loc[t].op = "unlink" /\ loc[t].name = n

(* A cached inode is one of its name, and so is the object at its place in *)
(* the table unless it has just been erased.                               *)
Entry(n) ==
    LET fo == vnode[dentry[n]].fo
    IN  /\ fo.name = n
        /\ \/ itable[fo.first_block].name = n
           \/ itable[fo.first_block].name = NoName /\ Unlinking(n)
NamesKept == \A n \in Names : dentry[n] \in Vnodes => Entry(n)

(* An inode that a descriptor holds is cached. *)
OpenCached == \A fd \in Fds : IsOpen(fd) => InCache(file[fd].v)

(* The copy differs from the table by a new object at i. *)
Adding(r, i) ==
    /\ i \in Inode \ {0} /\ r.tbl[i] = NewObject(i, r.name)
    /\ \A j \in Inode \ {i} : r.tbl[j] = itable[j]
    /\ itable[i] \in {FreeObject, r.tbl[i]}

CreateFits(l, r) ==
    /\ l \in {"cr_dir", "cr_wdir"} => r.k = 0
    /\ l = "cr_dir" => \A i \in Inode : r.tbl[i] = itable[i]
    /\ l = "cr_wdir" => \E i \in Inode, s \in Slot :
          /\ Adding(r, i) /\ itable[i] = FreeObject
          /\ block[0][s] = 0 /\ r.buf = [block[0] EXCEPT ![s] = i]
    /\ l = "cr_wtab" => /\ SameUpTo(r.k, itable, r.tbl)
                        /\ \E i \in Inode, s \in Slot : Adding(r, i) /\ block[0][s] = i
    /\ r.op = "create" /\ l \in {"us_read", "us_write"} => r.fo = Root
    /\ r.op = "create" /\ l \in StatLabels \cup {"ret"} => Visible(r.name)

UnlinkFits(l, r) ==
    r.op = "unlink" =>
        /\ FdsOf(r.v) = {}
        /\ l \in UnlinkLabels => /\ r.blk = vnode[r.v].fo.first_block
                                 /\ itable[r.blk].name = r.name
        /\ l = "ul_wdir" => \E s \in Slot : /\ block[0][s] = r.blk
                                            /\ r.buf = [block[0] EXCEPT ![s] = 0]
        /\ l \in {"us_read", "us_write"} => vnode[r.v].fo.size = 0

WriteFits(l, r) ==
    r.op = "write" =>
        /\ file[r.fd].v = r.v
        /\ l \in WriteLabels => r.end # 0
        /\ l \in {"us_read", "us_write"} => vnode[r.v].fo.size # 0

(* The copies of the table are exact, but for what update_statfs does.     *)
TableFits(l, r) ==
    /\ l \in {"cr_read", "us_read"} => SameUpTo(r.k, r.tbl, itable)
    /\ l = "us_write" => /\ SameUpTo(r.k, itable, r.tbl)
                         /\ \A i \in Inode : r.tbl[i] = UpdateOne(itable[i], StatOf(r))

CallFits(l, r) ==
    /\ l = "idle" => r.op = "none"
    /\ CreateFits(l, r) /\ UnlinkFits(l, r) /\ WriteFits(l, r) /\ TableFits(l, r)

CallRest == /\ NamesKept /\ OpenCached
            /\ \A t \in Threads : CallFits(pc[t], loc[t])
CallInv == DirInv /\ CallRest
-----------------------------------------------------------------------------
LEMMA UpdateEach ==
    ASSUME NEW t, NEW fo
    PROVE  \A i \in Inode : UpdateSizes(t, fo)[i] = UpdateOne(t[i], fo)
BY DEF UpdateSizes, UpdateOne

LEMMA UpdateFacts ==
    ASSUME NEW o \in FileObject, NEW fo \in FileObject
    PROVE  /\ UpdateOne(UpdateOne(o, fo), fo) = UpdateOne(o, fo)
           /\ \/ UpdateOne(o, fo).name = o.name
              \/ o.name = fo.name /\ fo.size = 0 /\ UpdateOne(o, fo).name = NoName
BY DEF UpdateOne, FileObject, FreeObject

(* With the root's own object update_statfs changes nothing. *)
LEMMA UpdateByRoot ==
    ASSUME NoClash, TableInv
    PROVE  \A i \in Inode : UpdateOne(itable[i], Root) = itable[i]
<1>1. UpdateOne(Root, Root) = Root
  BY SizesAssumption DEF UpdateOne, Root
<1>2. ASSUME NEW i \in Inode \ {0} PROVE UpdateOne(itable[i], Root) = itable[i]
  BY DEF TableInv, TableRest, SoundTable, SoundObject, UpdateOne, Root, FreeObject, NoClash
<1>3. QED
  BY <1>1, <1>2 DEF TableInv, TableRest, SoundTable

(* An object that is free is all zeros, one that has a file's name is not. *)
LEMMA ObjectAt ==
    ASSUME NoClash, TableInv, NEW i \in Inode
    PROVE  /\ itable[i] \in FileObject
           /\ itable[i].in_use = 0 => i # 0 /\ itable[i] = FreeObject
           /\ itable[i].name \in Names => /\ i # 0 /\ itable[i].in_use = 1
                                          /\ itable[i].first_block = i
<1>1. itable[i] \in FileObject /\ (i # 0 => SoundObject(itable[i], i)) /\ itable[0] = Root
  BY DEF TableInv, TableRest, SoundTable, TypeInv, TypeOK
<1>2. QED
  BY <1>1, NamesAssumption DEF SoundObject, FreeObject, Root, NoClash

LEMMA CallMove ==
    ASSUME OneCaller, CallInv, NEW t \in Threads, NEW l, NEW r, Move(t, l, r),
           CallFits(l, r)', NamesKept', OpenCached'
    PROVE  CallRest'
<1>1. pc'[t] = l /\ loc'[t] = r /\ \A u \in Threads : u = t
  BY MoveEffect DEF CallInv, DirInv, TableInv, OneCaller
<1>2. QED
  BY <1>1 DEF CallRest

(* Who is being unlinked, when a thread goes on with its call. *)
LEMMA SameUnlinking ==
    ASSUME OneCaller, CallInv, NEW t \in Threads, NEW l, NEW r, Move(t, l, r),
           SameCall(r, loc[t])
    PROVE  \A n : Unlinking(n)' <=> Unlinking(n)
<1>1. loc'[t] = r /\ \A u \in Threads : u = t
  BY MoveEffect DEF CallInv, DirInv, TableInv, OneCaller
<1>2. QED
  BY <1>1 DEF Unlinking, SameCall

(* A thread goes on with its call, and neither the table nor what is held  *)
(* changes.                                                                *)
LEMMA CallGoesOn ==
    ASSUME OneCaller, CallInv, NEW t \in Threads, NEW l, NEW r, Move(t, l, r),
           SameCall(r, loc[t]), UNCHANGED <<itable, dentry, vnode, file>>, CallFits(l, r)'
    PROVE  CallRest'
<1>1. NamesKept'
  BY SameUnlinking DEF NamesKept, Entry, CallInv, CallRest
<1>2. OpenCached'
  BY DEF OpenCached, IsOpen, InCache, CallInv, CallRest
<1>3. QED
  BY <1>1, <1>2, CallMove

(* A call ends that was not an unlink, or one that has erased nothing. *)
LEMMA CallReturn ==
    ASSUME OneCaller, CallInv, NEW t \in Threads, Return(t), UNCHANGED <<disk, memory>>,
           loc[t].op = "unlink" => pc[t] \in UnlinkLabels
    PROVE  CallRest'
<1>1. pc'[t] = "idle" /\ loc'[t] = NoLoc /\ \A u \in Threads : u = t
  BY MoveEffect DEF CallInv, DirInv, TableInv, OneCaller, Return
<1>2. NamesKept'
  <2>1. ASSUME NEW n \in Names, dentry[n] \in Vnodes PROVE itable[vnode[dentry[n]].fo.first_block].name = n
    <3>1. CASE Unlinking(n)
      <4>1. loc[t].op = "unlink" /\ loc[t].name = n /\ dentry[n] = loc[t].v
        BY <1>1, <3>1 DEF Unlinking, CallInv, DirInv, DirRest, UnlinkName
      <4>2. UnlinkFits(pc[t], loc[t])
        BY DEF CallInv, CallRest, CallFits
      <4>3. QED
        BY <4>1, <4>2 DEF UnlinkFits
    <3>2. CASE ~Unlinking(n)
      BY <2>1, <3>2 DEF CallInv, CallRest, NamesKept, Entry
    <3>3. QED
      BY <3>1, <3>2
  <2>2. QED
    BY <2>1 DEF NamesKept, Entry, CallInv, CallRest, disk, memory
<1>3. OpenCached'
  BY DEF OpenCached, IsOpen, InCache, CallInv, CallRest, memory
<1>4. CallFits("idle", NoLoc)'
  BY DEF CallFits, CreateFits, UnlinkFits, WriteFits, TableFits, NoLoc, StatLabels
<1>5. QED
  BY <1>2, <1>3, <1>4, CallMove DEF Return
-----------------------------------------------------------------------------
(* The steps of create. *)
LEMMA CreateReadTableCall ==
    ASSUME OneCaller, CallInv, NEW t \in Threads, CreateReadTable(t)
    PROVE  CallRest'
<1> DEFINE tbl == CopyCluster(loc[t].tbl, itable, loc[t].k)
<1>1. /\ loc[t] \in Loc /\ loc[t].op = "create" /\ loc[t].k \in Nat
      /\ SameUpTo(loc[t].k, loc[t].tbl, itable)
  BY LocTypes DEF CreateReadTable, CallInv, CallRest, CallFits, TableFits, LocalsFit,
     CreateLabels, DirInv, TableInv, Clusters
<1>2. SameUpTo(loc[t].k + 1, tbl, itable)
      /\ (~(loc[t].k < LastCluster) => \A i \in Inode : tbl[i] = itable[i])
  BY <1>1, CopyMore, ObjectTypes
<1>3. PICK l, r : /\ Move(t, l, r) /\ SameCall(r, loc[t]) /\ r.tbl = tbl
                  /\ \/ l = "cr_read" /\ r.k = loc[t].k + 1
                     \/ l = "cr_dir" /\ r.k = 0 /\ ~(loc[t].k < LastCluster)
  <2> DEFINE more == [loc[t] EXCEPT !.k = loc[t].k + 1, !.tbl = tbl]
             last == [loc[t] EXCEPT !.k = 0, !.tbl = tbl]
  <2>1. /\ SameCall(more, loc[t]) /\ more.tbl = tbl /\ more.k = loc[t].k + 1
        /\ SameCall(last, loc[t]) /\ last.tbl = tbl /\ last.k = 0
    BY <1>1 DEF SameCall, Loc
  <2>2. IF loc[t].k < LastCluster THEN Move(t, "cr_read", more) ELSE Move(t, "cr_dir", last)
    BY DEF CreateReadTable
  <2> HIDE DEF more, last
  <2>3. QED
    BY <2>1, <2>2
<1> HIDE DEF tbl
<1>4. UNCHANGED <<disk, memory>>
  BY DEF CreateReadTable
<1>5. CallFits(l, r)'
  BY <1>1, <1>2, <1>3, <1>4
  DEF CallFits, CreateFits, UnlinkFits, WriteFits, TableFits, SameCall, SameUpTo,
      StatLabels, disk
<1>6. QED
  BY <1>3, <1>4, <1>5, CallGoesOn DEF disk, memory

LEMMA CreateReadDirCall ==
    ASSUME NoClash, OneCaller, CallInv, NEW t \in Threads, CreateReadDir(t)
    PROVE  CallRest'
<1>1. /\ rootfo = Root /\ loc[t] \in Loc /\ loc[t].op = "create" /\ loc[t].k = 0
      /\ \A i \in Inode : loc[t].tbl[i] = itable[i]
  BY LocTypes DEF CreateReadDir, CallInv, CallRest, CallFits, CreateFits, DirInv, DirRest,
     RootKnown, DirMounted, DirOps, TableInv, LocalsFit, CreateLabels
<1>2. PICK s \in Slot, i \in Inode :
          /\ IsFirst(s, EmptySlots(block[0])) /\ IsFirst(i, FreeInodes(loc[t].tbl))
          /\ Move(t, "cr_wdir",
                  [loc[t] EXCEPT !.tbl = [@ EXCEPT ![i] = NewObject(i, loc[t].name)],
                                 !.buf = [block[0] EXCEPT ![s] = i]])
  BY <1>1, RootRead DEF CreateReadDir
<1>3. block[0][s] = 0 /\ i # 0 /\ itable[i] = FreeObject
  BY <1>1, <1>2, ObjectAt DEF IsFirst, EmptySlots, FreeInodes, CallInv, DirInv
<1>4. PICK r : /\ Move(t, "cr_wdir", r) /\ SameCall(r, loc[t]) /\ r.k = 0
               /\ r.tbl = [loc[t].tbl EXCEPT ![i] = NewObject(i, loc[t].name)]
               /\ r.buf = [block[0] EXCEPT ![s] = i]
  <2> DEFINE q == [loc[t] EXCEPT !.tbl = [@ EXCEPT ![i] = NewObject(i, loc[t].name)],
                                 !.buf = [block[0] EXCEPT ![s] = i]]
  <2>1. /\ SameCall(q, loc[t]) /\ q.k = 0 /\ q.buf = [block[0] EXCEPT ![s] = i]
        /\ q.tbl = [loc[t].tbl EXCEPT ![i] = NewObject(i, loc[t].name)]
    BY <1>1 DEF Loc, SameCall
  <2>2. Move(t, "cr_wdir", q)
    BY <1>2
  <2> HIDE DEF q
  <2>3. QED
    BY <2>1, <2>2
<1>5. UNCHANGED <<disk, memory>>
  BY DEF CreateReadDir
<1>6. Adding(r, i)'
  <2>1. loc[t].tbl \in [Inode -> FileObject]
    BY <1>1 DEF Loc
  <2>2. QED
    BY <1>1, <1>3, <1>4, <1>5, <2>1 DEF Adding, SameCall, disk
<1>7. CallFits("cr_wdir", r)'
  BY <1>1, <1>3, <1>4, <1>5, <1>6
  DEF CallFits, CreateFits, UnlinkFits, WriteFits, TableFits, SameCall, StatLabels, disk
<1>8. QED
  BY <1>4, <1>5, <1>7, CallGoesOn DEF disk, memory

LEMMA CreateWriteDirCall ==
    ASSUME OneCaller, CallInv, NEW t \in Threads, CreateWriteDir(t)
    PROVE  CallRest'
<1>1. /\ rootfo = Root /\ loc[t] \in Loc /\ loc[t].op = "create"
      /\ CreateFits("cr_wdir", loc[t])
  BY LocTypes DEF CreateWriteDir, CallInv, CallRest, CallFits, DirInv, DirRest,
     RootKnown, DirMounted, DirOps, TableInv, LocalsFit, CreateLabels
<1>2. PICK i \in Inode, s \in Slot :
          /\ Adding(loc[t], i) /\ loc[t].buf = [block[0] EXCEPT ![s] = i] /\ loc[t].k = 0
  BY <1>1 DEF CreateFits
<1>3. PICK r : /\ Move(t, "cr_wtab", r) /\ SameCall(r, loc[t])
               /\ r.k = 0 /\ r.tbl = loc[t].tbl
  BY <1>1, <1>2 DEF CreateWriteDir, Loc, SameCall
<1>4. UNCHANGED <<itable, super, memory>>
  BY DEF CreateWriteDir
<1>5. block'[0][s] = i
  <2>1. block[0] \in Block /\ block' = [block EXCEPT ![0] = loc[t].buf]
    BY <1>1, ObjectTypes DEF CreateWriteDir, Root, CallInv, DirInv, TableInv, TypeInv, TypeOK
  <2>2. QED
    BY <1>2, <2>1, ObjectTypes DEF CallInv, DirInv, TableInv, TypeInv, TypeOK, Block
<1>6. Adding(r, i)' /\ SameUpTo(r.k, itable, r.tbl)'
  BY <1>2, <1>3, <1>4, ClusterBound DEF Adding, SameCall, SameUpTo
<1>7. CallFits("cr_wtab", r)'
  BY <1>1, <1>3, <1>5, <1>6
  DEF CallFits, CreateFits, UnlinkFits, WriteFits, TableFits, SameCall, StatLabels
<1>8. QED
  BY <1>3, <1>4, <1>7, CallGoesOn DEF memory

(* A block of the copy is written: the object of a file that is there      *)
(* stays what it is, and with the last block the new file is.              *)
LEMMA CreateWriteTableCall ==
    ASSUME NoClash, OneCaller, CallInv, NEW t \in Threads, CreateWriteTable(t)
    PROVE  CallRest'
<1>1. /\ loc[t] \in Loc /\ loc[t].op = "create" /\ loc[t].k \in Nat /\ loc[t].name \in Names
      /\ CreateFits("cr_wtab", loc[t]) /\ loc[t].tbl[0] = Root
  BY LocTypes
  DEF CreateWriteTable, CallInv, CallRest, CallFits, DirInv, TableInv, LocalsFit,
      CreateLabels, Clusters, TableRest, CopyFits, HasRoot
<1>2. PICK i \in Inode, s \in Slot : Adding(loc[t], i) /\ block[0][s] = i
  BY <1>1 DEF CreateFits
<1>3. UNCHANGED <<block, super, memory>> /\ itable' = CopyCluster(itable, loc[t].tbl, loc[t].k)
  BY DEF CreateWriteTable
<1>4. /\ SameUpTo(loc[t].k + 1, itable', loc[t].tbl)
      /\ ~(loc[t].k < LastCluster) => \A j \in Inode : itable'[j] = loc[t].tbl[j]
  BY <1>1, <1>3, CopyMore, ObjectTypes DEF CreateFits
<1>5. /\ \A j \in Inode \ {i} : itable'[j] = itable[j]
      /\ itable'[i] \in {itable[i], loc[t].tbl[i]} /\ itable[i] \in {FreeObject, loc[t].tbl[i]}
  BY <1>2, <1>3 DEF Adding, CopyCluster
<1>6. ASSUME NEW n \in Names, NEW j \in Inode, itable[j].name = n
      PROVE  itable'[j].name = n
  BY <1>5, <1>6, NamesAssumption DEF FreeObject
<1>7. ASSUME NEW n \in Names, NEW j \in Inode, itable[j].name = NoName, Unlinking(n) PROVE FALSE
  BY <1>1, <1>7 DEF Unlinking, OneCaller
<1>8. NamesKept'
  <2>1. \A n \in Names : dentry[n] \in Vnodes => vnode[dentry[n]].fo.first_block \in Inode
    BY DEF CallInv, DirInv, TableInv, TypeInv, TypeOK, Vnode, FileObject
  <2>2. QED
    BY <1>3, <1>6, <1>7, <2>1 DEF NamesKept, Entry, CallInv, CallRest, memory
<1>9. OpenCached'
  BY <1>3 DEF OpenCached, IsOpen, InCache, CallInv, CallRest, memory
<1>10. CASE loc[t].k < LastCluster
  <2>1. PICK r : /\ Move(t, "cr_wtab", r) /\ SameCall(r, loc[t])
                 /\ r.k = loc[t].k + 1 /\ r.tbl = loc[t].tbl
    BY <1>1, <1>10 DEF CreateWriteTable, Loc, SameCall
  <2>2. Adding(r, i)' /\ block'[0][s] = i
    BY <1>2, <1>3, <1>5, <2>1 DEF Adding, SameCall
  <2>3. SameUpTo(r.k, itable, r.tbl)'
    BY <1>4, <2>1 DEF SameUpTo
  <2>4. CallFits("cr_wtab", r)'
    BY <1>1, <2>1, <2>2, <2>3
    DEF CallFits, CreateFits, UnlinkFits, WriteFits, TableFits, SameCall, StatLabels
  <2>5. QED
    BY <1>8, <1>9, <2>1, <2>4, CallMove
<1>11. CASE ~(loc[t].k < LastCluster)
  <2>1. PICK r : /\ Move(t, "us_read", r) /\ SameCall(r, loc[t])
                 /\ r.k = 0 /\ r.fo = Root
    <3> DEFINE q == [loc[t] EXCEPT !.k = 0, !.tbl = FreeTable, !.fo = loc[t].tbl[0]]
    <3>1. SameCall(q, loc[t]) /\ q.k = 0 /\ q.fo = Root
      BY <1>1 DEF Loc, SameCall
    <3>2. Move(t, "us_read", q)
      BY <1>11 DEF CreateWriteTable
    <3> HIDE DEF q
    <3>3. QED
      BY <3>1, <3>2
  <2>2. itable'[i].name = loc[t].name /\ block'[0][s] = i /\ i \in Inode \ {0}
    BY <1>2, <1>3, <1>4, <1>11 DEF Adding, NewObject
  <2>3. Visible(r.name)'
    BY <2>1, <2>2 DEF Visible, SlotsOf, SameCall
  <2>4. SameUpTo(r.k, r.tbl, itable)'
    BY <2>1, ClusterBound DEF SameUpTo
  <2>5. CallFits("us_read", r)'
    BY <1>1, <2>1, <2>3, <2>4
    DEF CallFits, CreateFits, UnlinkFits, WriteFits, TableFits, SameCall, UnlinkLabels
  <2>6. QED
    BY <1>8, <1>9, <2>1, <2>5, CallMove
<1>12. QED
  BY <1>10, <1>11
-----------------------------------------------------------------------------
(* The steps of unlink. *)
LEMMA UnlinkReadDirCall ==
    ASSUME OneCaller, CallInv, NEW t \in Threads, UnlinkReadDir(t)
    PROVE  CallRest'
<1>1. /\ rootfo = Root /\ loc[t] \in Loc /\ loc[t].op = "unlink"
      /\ UnlinkFits("ul_dir", loc[t])
  BY LocTypes DEF UnlinkReadDir, CallInv, CallRest, CallFits, DirInv, DirRest,
     RootKnown, DirMounted, DirOps, TableInv, LocalsFit, UnlinkLabels
<1>2. PICK s \in Slot :
          /\ block[0][s] = loc[t].blk
          /\ Move(t, "ul_wdir", [loc[t] EXCEPT !.buf = [block[0] EXCEPT ![s] = 0]])
  BY <1>1, RootRead DEF UnlinkReadDir, IsFirst, EntrySlots
<1>3. PICK r : /\ Move(t, "ul_wdir", r) /\ SameCall(r, loc[t])
               /\ r.blk = loc[t].blk /\ r.buf = [block[0] EXCEPT ![s] = 0]
  BY <1>1, <1>2 DEF Loc, SameCall
<1>4. UNCHANGED <<disk, memory>>
  BY DEF UnlinkReadDir
<1>5. UnlinkFits("ul_wdir", r)'
  BY <1>1, <1>2, <1>3, <1>4 DEF UnlinkFits, SameCall, UnlinkLabels, FdsOf, disk, memory
<1>6. CallFits("ul_wdir", r)'
  BY <1>1, <1>3, <1>5 DEF CallFits, CreateFits, WriteFits, TableFits, SameCall, StatLabels
<1>7. QED
  BY <1>3, <1>4, <1>6, CallGoesOn DEF disk, memory

(* A size that is set changes neither name nor block of a cached inode. *)
LEMMA SizedNames ==
    ASSUME OneCaller, CallInv, NEW t \in Threads, NEW l, NEW r, Move(t, l, r),
           SameCall(r, loc[t]), UNCHANGED <<itable, dentry>>,
           NEW v \in Vnodes, NEW n, NEW m,
           \/ vnode' = [vnode EXCEPT ![v].i_size = n, ![v].fo.size = m]
           \/ vnode' = [vnode EXCEPT ![v].fo.size = m]
    PROVE  NamesKept' /\ vnode'[v].fo.size = m
<1>1. vnode \in [Vnodes -> Vnode]
  BY DEF CallInv, DirInv, TableInv, TypeInv, TypeOK
<1>2. vnode'[v].fo.size = m /\
      \A w \in Vnodes : /\ vnode'[w].fo.name = vnode[w].fo.name
                        /\ vnode'[w].fo.first_block = vnode[w].fo.first_block
  BY <1>1 DEF Vnode, FileObject
<1>3. QED
  BY <1>2, SameUnlinking DEF NamesKept, Entry, CallInv, CallRest

LEMMA UnlinkWriteDirCall ==
    ASSUME OneCaller, CallInv, NEW t \in Threads, UnlinkWriteDir(t)
    PROVE  CallRest'
<1>1. /\ loc[t] \in Loc /\ loc[t].op = "unlink" /\ loc[t].v \in Vnodes /\ loc[t].k = 0
      /\ UnlinkFits("ul_wdir", loc[t])
  BY LocTypes DEF UnlinkWriteDir, CallInv, CallRest, CallFits, DirInv,
     TableInv, TableRest, CopyFits, LocalsFit, UnlinkLabels
<1>2. PICK r : Move(t, "us_read", r) /\ SameCall(r, loc[t]) /\ r.k = 0
  BY <1>1 DEF UnlinkWriteDir, Loc, SameCall
<1>3. UNCHANGED <<itable, dentry, file>> /\ vnode' = [vnode EXCEPT ![loc[t].v].fo.size = 0]
  BY DEF UnlinkWriteDir
<1>4. NamesKept' /\ vnode'[loc[t].v].fo.size = 0
  BY <1>1, <1>2, <1>3, SizedNames
<1>5. OpenCached'
  BY <1>3 DEF OpenCached, IsOpen, InCache, CallInv, CallRest
<1>6. SameUpTo(r.k, r.tbl, itable)'
  BY <1>2, ClusterBound DEF SameUpTo
<1>7. UnlinkFits("us_read", r)'
  BY <1>1, <1>2, <1>3, <1>4 DEF UnlinkFits, SameCall, UnlinkLabels, FdsOf
<1>8. CallFits("us_read", r)'
  BY <1>1, <1>2, <1>6, <1>7
  DEF CallFits, CreateFits, WriteFits, TableFits, SameCall, StatLabels
<1>9. QED
  BY <1>2, <1>4, <1>5, <1>8, CallMove

(* When unlink returns nobody has the file open, and no other name has its *)
(* inode.                                                                  *)
LEMMA UnlinkReturnCall ==
    ASSUME OneCaller, CallInv, NEW t \in Threads, UnlinkReturn(t)
    PROVE  CallRest'
<1> DEFINE n == loc[t].name
           v == loc[t].v
<1>1. /\ loc[t].op = "unlink" /\ n \in Names /\ v \in Vnodes /\ dentry[n] = v
      /\ FdsOf(v) = {} /\ OneName
  BY LocTypes DEF UnlinkReturn, LocalsFit, CallInv, CallRest, CallFits, UnlinkFits,
     DirInv, DirRest, TableInv, UnlinkName
<1>2. PICK d \in {None, Negative} : dentry' = [dentry EXCEPT ![n] = d]
  BY DEF UnlinkReturn
<1>3. vnode' = [vnode EXCEPT ![v] = FreeVnode] /\ UNCHANGED <<disk, file>> /\ Return(t)
  BY <1>1 DEF UnlinkReturn, Drop
<1>4. dentry \in [Names -> Vnodes \cup {None, Negative}] /\ vnode \in [Vnodes -> Vnode]
  BY DEF CallInv, DirInv, TableInv, TypeInv, TypeOK
<1>5. ASSUME NEW m \in Names, dentry'[m] \in Vnodes
      PROVE  m # n /\ dentry'[m] = dentry[m] /\ vnode'[dentry[m]] = vnode[dentry[m]]
  BY <1>1, <1>2, <1>3, <1>4, <1>5, VnodesAssumption DEF OneName
<1>6. NamesKept'
  <2>1. \A m \in Names : m # n => ~Unlinking(m)
    BY DEF Unlinking, OneCaller
  <2>2. QED
    BY <1>3, <1>5, <2>1 DEF NamesKept, Entry, CallInv, CallRest, disk
<1>7. OpenCached'
  <2>1. ASSUME NEW fd \in Fds, file[fd].v # None PROVE InCache(file[fd].v)'
    <3>1. file[fd].v # v
      BY <1>1, <2>1 DEF FdsOf
    <3>2. PICK m \in Names : dentry[m] = file[fd].v
      BY <2>1 DEF OpenCached, IsOpen, InCache, CallInv, CallRest
    <3>3. m # n
      BY <1>1, <3>1, <3>2
    <3>4. dentry'[m] = file'[fd].v
      BY <1>2, <1>3, <1>4, <3>2, <3>3
    <3>5. QED
      BY <3>4 DEF InCache
  <2>2. QED
    BY <1>3, <2>1 DEF OpenCached, IsOpen
<1>8. CallFits("idle", NoLoc)'
  BY DEF CallFits, CreateFits, UnlinkFits, WriteFits, TableFits, NoLoc, StatLabels
<1>9. QED
  BY <1>3, <1>6, <1>7, <1>8, CallMove DEF Return
-----------------------------------------------------------------------------
(* The steps of write. *)
LEMMA WriteBlockCall ==
    ASSUME OneCaller, CallInv, NEW t \in Threads, WriteBlock(t)
    PROVE  CallRest'
<1>1. loc[t] \in Loc /\ loc[t].op = "write" /\ WriteFits("wr_block", loc[t])
  BY LocTypes DEF WriteBlock, CallInv, CallRest, CallFits, DirInv, TableInv, LocalsFit, WriteLabels
<1>2. PICK r : /\ Move(t, "wr_size", r) /\ SameCall(r, loc[t])
               /\ r.fd = loc[t].fd /\ r.end = loc[t].end
  BY <1>1 DEF WriteBlock, Loc, SameCall
<1>3. UNCHANGED <<itable, super, memory>>
  BY DEF WriteBlock
<1>4. CallFits("wr_size", r)'
  BY <1>1, <1>2, <1>3
  DEF CallFits, CreateFits, UnlinkFits, WriteFits, TableFits, SameCall, StatLabels,
      WriteLabels, memory
<1>5. QED
  BY <1>2, <1>3, <1>4, CallGoesOn DEF memory

LEMMA WriteSizeCall ==
    ASSUME OneCaller, CallInv, NEW t \in Threads, WriteSize(t)
    PROVE  CallRest'
<1>1. /\ loc[t] \in Loc /\ loc[t].op = "write" /\ loc[t].v \in Vnodes /\ loc[t].fd \in Fds
      /\ loc[t].k = 0 /\ WriteFits("wr_size", loc[t])
  BY LocTypes DEF WriteSize, CallInv, CallRest, CallFits, DirInv, TableInv, TableRest,
     CopyFits, LocalsFit, WriteLabels
<1>2. PICK r : Move(t, "us_read", r) /\ r = loc[t]
  BY DEF WriteSize
<1>3. /\ UNCHANGED <<itable, dentry>>
      /\ vnode' = [vnode EXCEPT ![loc[t].v].i_size = loc[t].end, ![loc[t].v].fo.size = loc[t].end]
      /\ file' = [file EXCEPT ![loc[t].fd].pos = loc[t].end]
  BY DEF WriteSize, disk
<1>4. NamesKept' /\ vnode'[loc[t].v].fo.size = loc[t].end
  BY <1>1, <1>2, <1>3, SizedNames DEF SameCall
<1>5. \A fd \in Fds : file'[fd].v = file[fd].v
  BY <1>3 DEF CallInv, DirInv, TableInv, TypeInv, TypeOK, File
<1>6. OpenCached'
  BY <1>3, <1>5 DEF OpenCached, IsOpen, InCache, CallInv, CallRest
<1>7. SameUpTo(r.k, r.tbl, itable)'
  BY <1>1, <1>2, ClusterBound DEF SameUpTo
<1>8. WriteFits("us_read", r)'
  BY <1>1, <1>2, <1>4, <1>5 DEF WriteFits, WriteLabels
<1>9. CallFits("us_read", r)'
  BY <1>1, <1>2, <1>7, <1>8 DEF CallFits, CreateFits, UnlinkFits, TableFits, StatLabels
<1>10. QED
  BY <1>2, <1>4, <1>6, <1>9, CallMove
-----------------------------------------------------------------------------
(* The steps of update_statfs. *)
LEMMA StatReadTableCall ==
    ASSUME OneCaller, CallInv, NEW t \in Threads, StatReadTable(t)
    PROVE  CallRest'
<1> DEFINE tbl == CopyCluster(loc[t].tbl, itable, loc[t].k)
<1>1. /\ loc[t] \in Loc /\ loc[t].k \in Nat /\ SameUpTo(loc[t].k, loc[t].tbl, itable)
      /\ CallFits("us_read", loc[t])
  BY LocTypes DEF StatReadTable, CallInv, CallRest, CallFits, TableFits, DirInv, TableInv, Clusters
<1>2. SameUpTo(loc[t].k + 1, tbl, itable)
      /\ (~(loc[t].k < LastCluster) => \A i \in Inode : tbl[i] = itable[i])
  BY <1>1, CopyMore, ObjectTypes
<1>3. UNCHANGED <<disk, memory>>
  BY DEF StatReadTable
<1>4. CASE loc[t].k < LastCluster
  <2>1. PICK r : /\ Move(t, "us_read", r) /\ SameCall(r, loc[t]) /\ r.fd = loc[t].fd
                 /\ r.k = loc[t].k + 1 /\ r.tbl = tbl /\ r.fo = loc[t].fo
    <3> DEFINE q == [loc[t] EXCEPT !.k = loc[t].k + 1, !.tbl = tbl]
    <3>1. /\ SameCall(q, loc[t]) /\ q.k = loc[t].k + 1 /\ q.tbl = tbl /\ q.fo = loc[t].fo
          /\ q.fd = loc[t].fd
      BY <1>1 DEF SameCall, Loc
    <3>2. Move(t, "us_read", q)
      BY <1>4 DEF StatReadTable
    <3> HIDE DEF q
    <3>3. QED
      BY <3>1, <3>2
  <2> HIDE DEF tbl
  <2>2. CallFits("us_read", r)'
    BY <1>1, <1>2, <1>3, <2>1
    DEF CallFits, CreateFits, UnlinkFits, WriteFits, TableFits, SameCall, SameUpTo, StatLabels,
        WriteLabels, UnlinkLabels, Visible, FdsOf, disk, memory
  <2>3. QED
    BY <1>3, <2>1, <2>2, CallGoesOn DEF disk, memory
<1>5. CASE ~(loc[t].k < LastCluster)
  <2> DEFINE upd == UpdateSizes(tbl, StatObject(t))
  <2>1. \A i \in Inode : upd[i] = UpdateOne(itable[i], StatObject(t))
    BY <1>2, <1>5, UpdateEach
  <2>2. PICK r : /\ Move(t, "us_write", r) /\ SameCall(r, loc[t]) /\ r.fd = loc[t].fd
                 /\ r.k = 0 /\ r.tbl = upd /\ r.fo = loc[t].fo
    <3> DEFINE q == [loc[t] EXCEPT !.k = 0, !.tbl = upd]
    <3>1. /\ SameCall(q, loc[t]) /\ q.k = 0 /\ q.tbl = upd /\ q.fo = loc[t].fo
          /\ q.fd = loc[t].fd
      BY <1>1 DEF SameCall, Loc
    <3>2. Move(t, "us_write", q)
      BY <1>5 DEF StatReadTable
    <3> HIDE DEF q
    <3>3. QED
      BY <3>1, <3>2
  <2> HIDE DEF tbl, upd
  <2>3. StatObject(t) = StatOf(r)'
    BY <1>3, <2>2 DEF StatObject, StatOf, SameCall, memory
  <2>4. TableFits("us_write", r)'
    BY <1>3, <2>1, <2>2, <2>3, ClusterBound DEF TableFits, SameUpTo, disk
  <2>5. CallFits("us_write", r)'
    BY <1>1, <1>3, <2>2, <2>4
    DEF CallFits, CreateFits, UnlinkFits, WriteFits, SameCall, StatLabels,
        WriteLabels, UnlinkLabels, Visible, FdsOf, disk, memory
  <2>6. QED
    BY <1>3, <2>2, <2>5, CallGoesOn DEF disk, memory
<1>6. QED
  BY <1>4, <1>5

(* What update_statfs is handed. *)
LEMMA StatOfCall ==
    ASSUME CallInv, NEW t \in Threads, pc[t] \in {"us_read", "us_write"}
    PROVE  /\ StatOf(loc[t]) \in FileObject
           /\ loc[t].op = "create" => StatOf(loc[t]) = Root
           /\ loc[t].op = "write" => StatOf(loc[t]).size # 0
           /\ loc[t].op = "unlink" => StatOf(loc[t]).name = loc[t].name
<1>1. loc[t] \in Loc /\ CallFits(pc[t], loc[t]) /\ UnlinkName(loc[t])
      /\ LocalsFit(pc[t], loc[t])
  BY LocTypes DEF CallInv, CallRest, DirInv, DirRest, TableInv
<1>2. loc[t].op \in {"create", "write", "unlink"} /\ loc[t].fo \in FileObject
  BY <1>1 DEF Loc, LocalsFit
<1>3. loc[t].op \in {"write", "unlink"} => vnode[loc[t].v].fo \in FileObject
  BY <1>1 DEF LocalsFit, CallInv, DirInv, TableInv, TypeInv, TypeOK, Vnode
<1>4. loc[t].op = "unlink" => vnode[loc[t].v].fo.name = loc[t].name
  BY <1>1 DEF LocalsFit, UnlinkName, CallInv, CallRest, NamesKept, Entry
<1>5. QED
  BY <1>1, <1>2, <1>3, <1>4 DEF StatOf, CallFits, CreateFits, WriteFits

(* What it writes changes no name, but for the one that unlink removes.    *)
LEMMA StatNames ==
    ASSUME NoClash, CallInv, NEW t \in Threads, StatWriteTable(t)
    PROVE  \A i \in Inode :
             /\ itable'[i] \in {itable[i], UpdateOne(itable[i], StatOf(loc[t]))}
             /\ \/ itable'[i].name = itable[i].name
                \/ loc[t].op = "unlink" /\ itable[i].name = loc[t].name /\ itable'[i].name = NoName
             /\ loc[t].op = "create" => itable'[i] = itable[i]
<1> DEFINE fo == StatOf(loc[t])
<1>1. /\ fo \in FileObject
      /\ loc[t].op = "create" => fo = Root
      /\ loc[t].op = "write" => fo.size # 0
      /\ loc[t].op = "unlink" => fo.name = loc[t].name
      /\ loc[t].op \in {"create", "write", "unlink"}
  BY StatOfCall, LocTypes DEF StatWriteTable, LocalsFit, Loc, CallInv, DirInv, TableInv
<1> HIDE DEF fo
<1>2. ASSUME NEW i \in Inode PROVE itable'[i] \in {itable[i], UpdateOne(itable[i], fo)}
  <2>1. loc[t].tbl[i] = UpdateOne(itable[i], fo)
    BY DEF fo, StatWriteTable, CallInv, CallRest, CallFits, TableFits
  <2>2. QED
    BY <2>1 DEF StatWriteTable, CopyCluster
<1>3. ASSUME NEW i \in Inode
      PROVE  /\ \/ itable'[i].name = itable[i].name
                \/ loc[t].op = "unlink" /\ itable[i].name = loc[t].name /\ itable'[i].name = NoName
             /\ loc[t].op = "create" => itable'[i] = itable[i]
  <2>1. itable[i] \in FileObject /\ UpdateOne(itable[i], Root) = itable[i]
    BY ObjectAt, UpdateByRoot DEF CallInv, DirInv
  <2>2. \/ UpdateOne(itable[i], fo).name = itable[i].name
        \/ itable[i].name = fo.name /\ fo.size = 0 /\ UpdateOne(itable[i], fo).name = NoName
    BY <1>1, <2>1, UpdateFacts
  <2>3. itable'[i] = itable[i] \/ itable'[i] = UpdateOne(itable[i], fo)
    BY <1>2
  <2>4. QED
    BY <1>1, <2>1, <2>2, <2>3
<1>4. QED
  BY <1>2, <1>3 DEF fo

LEMMA StatWriteTableCall ==
    ASSUME NoClash, OneCaller, CallInv, NEW t \in Threads, StatWriteTable(t)
    PROVE  CallRest'
<1> DEFINE fo == StatOf(loc[t])
           k  == loc[t].k
<1>0. fo \in FileObject
  BY StatOfCall DEF StatWriteTable
<1>1. /\ loc[t] \in Loc /\ k \in Nat /\ loc[t].op # "none"
      /\ CallFits("us_write", loc[t])
  <2>1. pc[t] = "us_write" /\ loc[t] \in Loc /\ LocalsFit(pc[t], loc[t]) /\ k \in Clusters
    BY LocTypes DEF StatWriteTable, CallInv, DirInv, TableInv
  <2>2. QED
    BY <2>1 DEF CallInv, CallRest, Clusters, LocalsFit
<1>2. UNCHANGED <<block, super, memory>> /\ itable' = CopyCluster(itable, loc[t].tbl, k)
  BY DEF StatWriteTable
<1>3. ASSUME NEW i \in Inode
      PROVE  /\ itable'[i] \in {itable[i], UpdateOne(itable[i], fo)}
             /\ \/ itable'[i].name = itable[i].name
                \/ loc[t].op = "unlink" /\ itable[i].name = loc[t].name /\ itable'[i].name = NoName
             /\ loc[t].op = "create" => itable'[i] = itable[i]
  BY StatNames
<1>4. ASSUME NEW l, NEW r, Move(t, l, r), SameCall(r, loc[t]) PROVE NamesKept' /\ OpenCached'
  <2>1. ASSUME NEW n \in Names, dentry[n] \in Vnodes PROVE Entry(n)'
    <3>1. Entry(n) /\ vnode[dentry[n]].fo.first_block \in Inode
      BY <2>1 DEF CallInv, CallRest, NamesKept, DirInv, TableInv, TypeInv, TypeOK, Vnode, FileObject
    <3>2. Unlinking(n)' <=> Unlinking(n)
      BY <1>4, SameUnlinking
    <3>3. loc[t].op = "unlink" /\ loc[t].name = n => Unlinking(n)
      BY DEF Unlinking
    <3>4. QED
      BY <1>2, <1>3, <3>1, <3>2, <3>3, NamesAssumption DEF Entry, memory
  <2>2. QED
    BY <1>2, <2>1 DEF NamesKept, OpenCached, IsOpen, InCache, CallInv, CallRest, memory
<1>5. ASSUME NEW n, loc[t].op = "create", loc[t].name = n PROVE Visible(n)'
  <2>1. PICK s \in Slot : block[0][s] \in Inode \ {0} /\ itable[block[0][s]].name = n
    BY <1>1, <1>5 DEF CallFits, CreateFits, StatLabels, Visible, SlotsOf
  <2>2. itable'[block[0][s]] = itable[block[0][s]]
    BY <1>3, <1>5, <2>1
  <2>3. QED
    BY <1>2, <2>1, <2>2 DEF Visible, SlotsOf
<1>6. CASE k < LastCluster
  <2>1. PICK r : /\ Move(t, "us_write", r) /\ SameCall(r, loc[t]) /\ r.fd = loc[t].fd
                 /\ r.k = k + 1 /\ r.tbl = loc[t].tbl /\ r.fo = loc[t].fo
    BY <1>1, <1>6 DEF StatWriteTable, Loc, SameCall
  <2>2. StatOf(r)' = fo
    BY <1>2, <2>1 DEF StatOf, SameCall, memory
  <2>3. SameUpTo(r.k, itable, r.tbl)'
    BY <1>1, <1>2, <2>1, CopyMore DEF CallFits, TableFits
  <2>4. ASSUME NEW i \in Inode PROVE r.tbl[i] = UpdateOne(itable'[i], fo)
    <3>1. loc[t].tbl[i] = UpdateOne(itable[i], fo)
      BY <1>1 DEF CallFits, TableFits
    <3>2. UpdateOne(UpdateOne(itable[i], fo), fo) = UpdateOne(itable[i], fo)
      BY <1>0, UpdateFacts DEF CallInv, DirInv, TableInv, TypeInv, TypeOK
    <3>3. QED
      BY <1>3, <2>1, <3>1, <3>2
  <2>5. TableFits("us_write", r)'
    BY <2>2, <2>3, <2>4 DEF TableFits
  <2>6. CallFits("us_write", r)'
    BY <1>1, <1>2, <1>5, <2>1, <2>5
    DEF CallFits, CreateFits, UnlinkFits, WriteFits, SameCall, StatLabels, WriteLabels,
        UnlinkLabels, FdsOf, memory
  <2>7. QED
    BY <1>4, <2>1, <2>6, CallMove
<1>7. CASE ~(k < LastCluster)
  <2>1. PICK r : Move(t, "us_reset", r) /\ SameCall(r, loc[t]) /\ r.fd = loc[t].fd
    <3>1. PICK used : Move(t, "us_reset", [loc[t] EXCEPT !.k = 0, !.tbl = FreeTable, !.used = used])
      BY <1>7 DEF StatWriteTable
    <3> DEFINE q == [loc[t] EXCEPT !.k = 0, !.tbl = FreeTable, !.used = used]
    <3>2. SameCall(q, loc[t]) /\ q.fd = loc[t].fd
      BY <1>1 DEF Loc, SameCall
    <3>3. Move(t, "us_reset", q)
      BY <3>1
    <3> HIDE DEF q
    <3>4. QED
      BY <3>2, <3>3
  <2>2. CallFits("us_reset", r)'
    BY <1>1, <1>2, <1>5, <2>1
    DEF CallFits, CreateFits, UnlinkFits, WriteFits, TableFits, SameCall, WriteLabels,
        UnlinkLabels, FdsOf, memory
  <2>3. QED
    BY <1>4, <2>1, <2>2, CallMove
<1>8. QED
  BY <1>6, <1>7

(* The counters are nothing that names or blocks depend on. *)
LEMMA StatEndCall ==
    ASSUME OneCaller, CallInv, NEW t \in Threads,
           StatReset(t) \/ StatCount(t) \/ StatWriteSuper(t) \/ StatFails(t)
    PROVE  CallRest'
<1>1. loc[t] \in Loc /\ pc[t] \in StatLabels /\ loc[t].op # "none" /\ CallFits(pc[t], loc[t])
  BY LocTypes DEF StatReset, StatCount, StatWriteSuper, StatFails, StatLabels, CallInv,
     CallRest, DirInv, TableInv, LocalsFit
<1>2. PICK l, r : /\ Move(t, l, r) /\ SameCall(r, loc[t]) /\ r.fd = loc[t].fd
                  /\ l \in {"us_count", "us_super", "ret"}
  <2> DEFINE a == [loc[t] EXCEPT !.used = 0]
             b == [loc[t] EXCEPT !.k = 0, !.tbl = FreeTable]
  <2>1. \A r \in {loc[t], a, b} : SameCall(r, loc[t]) /\ r.fd = loc[t].fd
    BY <1>1 DEF Loc, SameCall
  <2>2. \/ Move(t, "us_count", loc[t]) \/ Move(t, "us_super", a)
        \/ Move(t, "ret", loc[t]) \/ Move(t, "ret", b)
    BY DEF StatReset, StatCount, StatWriteSuper, StatFails
  <2> HIDE DEF a, b
  <2>3. QED
    BY <2>1, <2>2
<1>3. UNCHANGED <<itable, block, dentry, vnode, file>>
  BY DEF StatReset, StatCount, StatWriteSuper, StatFails, disk, memory
<1>4. CallFits(l, r)'
  BY <1>1, <1>2, <1>3
  DEF CallFits, CreateFits, UnlinkFits, WriteFits, TableFits, SameCall, StatLabels,
      WriteLabels, UnlinkLabels, Visible, FdsOf
<1>5. QED
  BY <1>2, <1>3, <1>4, CallGoesOn

LEMMA StepCall ==
    ASSUME NoClash, OneCaller, CallInv, NEW t \in Threads, Step(t)
    PROVE  CallRest'
<1>1. CASE \/ WriteReturn(t) \/ CreateNoSpace(t) \/ CreateReturn(t)
           \/ UnlinkNoEntry(t) \/ NoBlocks(t) \/ OpFails(t)
  <2>1. Return(t) /\ UNCHANGED <<disk, memory>>
    BY <1>1 DEF WriteReturn, CreateNoSpace, CreateReturn, UnlinkNoEntry, NoBlocks, OpFails
  <2>2. loc[t].op = "unlink" => pc[t] \in UnlinkLabels
    BY <1>1, LocTypes
    DEF WriteReturn, CreateNoSpace, CreateReturn, UnlinkNoEntry, NoBlocks, OpFails,
        CallInv, DirInv, TableInv, LocalsFit, CreateLabels, UnlinkLabels, WriteLabels
  <2>3. QED
    BY <2>1, <2>2, CallReturn
<1>2. CASE \/ WriteBlock(t) \/ WriteSize(t) \/ CreateReadTable(t) \/ CreateReadDir(t)
           \/ CreateWriteDir(t) \/ CreateWriteTable(t)
  BY <1>2, WriteBlockCall, WriteSizeCall, CreateReadTableCall, CreateReadDirCall,
     CreateWriteDirCall, CreateWriteTableCall
<1>3. CASE \/ UnlinkReadDir(t) \/ UnlinkWriteDir(t) \/ UnlinkReturn(t)
           \/ StatReadTable(t) \/ StatWriteTable(t)
           \/ StatReset(t) \/ StatCount(t) \/ StatWriteSuper(t) \/ StatFails(t)
  BY <1>3, UnlinkReadDirCall, UnlinkWriteDirCall, UnlinkReturnCall, StatReadTableCall,
     StatWriteTableCall, StatEndCall
<1>4. QED
  BY <1>1, <1>2, <1>3 DEF Step, Work
-----------------------------------------------------------------------------
(* The calls.  No name is being unlinked when one begins. *)
LEMMA NoneUnlinking ==
    ASSUME OneCaller, CallInv, NEW t \in Threads, pc[t] = "idle"
    PROVE  /\ \A n : ~Unlinking(n)
           /\ \A n \in Names : dentry[n] \in Vnodes =>
                 vnode[dentry[n]].fo.name = n /\ itable[vnode[dentry[n]].fo.first_block].name = n
<1>1. \A n : ~Unlinking(n)
  BY DEF Unlinking, OneCaller, CallInv, CallRest, CallFits
<1>2. QED
  BY <1>1 DEF NamesKept, Entry, CallInv, CallRest

LEMMA CallBegins ==
    ASSUME OneCaller, CallInv, NEW t \in Threads, NEW l, NEW r, Move(t, l, r), pc[t] = "idle",
           UNCHANGED <<itable, dentry, vnode, file>>, CallFits(l, r)'
    PROVE  CallRest'
<1>1. NamesKept'
  BY NoneUnlinking DEF NamesKept, Entry
<1>2. OpenCached'
  BY DEF OpenCached, IsOpen, InCache, CallInv, CallRest
<1>3. QED
  BY <1>1, <1>2, CallMove

LEMMA WriteBeginCall ==
    ASSUME OneCaller, NoEmptyWrites, CallInv, NEW t \in Threads, NEW fd \in Fds,
           NEW len \in Lens, NEW d \in Data, WriteBegin(t, fd, len, d)
    PROVE  CallRest'
<1> DEFINE end == file[fd].pos + (IF len > W THEN W ELSE len)
<1>1. PICK r : /\ Move(t, "wr_block", r) /\ r.op = "write" /\ r.v = file[fd].v
               /\ r.fd = fd /\ r.end = end
  <2> DEFINE fo  == vnode[file[fd].v].fo
             buf == WriteBuffer(block[fo.first_block], file[fd].app, fo.size, file[fd].pos, end, d)
             q   == [NoLoc EXCEPT !.op = "write", !.v = file[fd].v, !.fd = fd,
                                  !.blk = fo.first_block, !.end = end, !.buf = buf]
  <2>1. Move(t, "wr_block", q)
    BY DEF WriteBegin
  <2> HIDE DEF fo, buf, end
  <2>2. q.op = "write" /\ q.v = file[fd].v /\ q.fd = fd /\ q.end = end
    BY DEF NoLoc
  <2> HIDE DEF q
  <2>3. QED
    BY <2>1, <2>2
<1>2. end # 0
  <2>1. file[fd].pos \in Nat /\ len \in Nat \ {0} /\ W \in Nat \ {0}
    BY SizesAssumption, BoundsAssumption
    DEF NoEmptyWrites, CallInv, DirInv, TableInv, TypeInv, TypeOK, File
  <2>2. QED
    BY <2>1
<1>3. UNCHANGED <<itable, dentry, vnode, file>> /\ pc[t] = "idle"
  BY DEF WriteBegin, disk, memory
<1> HIDE DEF end
<1>4. CallFits("wr_block", r)'
  BY <1>1, <1>2, <1>3
  DEF CallFits, CreateFits, UnlinkFits, WriteFits, TableFits, StatLabels, WriteLabels
<1>5. QED
  BY <1>1, <1>3, <1>4, CallBegins

LEMMA CreateBeginCall ==
    ASSUME OneCaller, CallInv, NEW t \in Threads, NEW n \in Names, CreateBegin(t, n)
    PROVE  CallRest'
<1>1. PICK r : Move(t, "cr_read", r) /\ r.op = "create" /\ r.k = 0
  <2> DEFINE q == [NoLoc EXCEPT !.op = "create", !.name = n]
  <2>1. Move(t, "cr_read", q) /\ q.op = "create" /\ q.k = 0
    BY DEF CreateBegin, NoLoc
  <2> HIDE DEF q
  <2>2. QED
    BY <2>1
<1>2. CallFits("cr_read", r)'
  BY <1>1, ClusterBound
  DEF CallFits, CreateFits, UnlinkFits, WriteFits, TableFits, StatLabels, SameUpTo
<1>3. QED
  BY <1>1, <1>2, CallBegins DEF CreateBegin, disk, memory

LEMMA UnlinkBeginCall ==
    ASSUME OneCaller, FilesKeptOpen, CallInv, NEW t \in Threads, NEW n \in Names,
           UnlinkBegin(t, n)
    PROVE  CallRest'
<1>1. PICK r : /\ Move(t, "ul_dir", r) /\ r.op = "unlink" /\ r.name = n /\ r.v = dentry[n]
               /\ r.blk = vnode[dentry[n]].fo.first_block
  <2> DEFINE blk == vnode[dentry[n]].fo.first_block
             q   == [NoLoc EXCEPT !.op = "unlink", !.name = n, !.v = dentry[n], !.blk = blk]
  <2>1. Move(t, "ul_dir", q)
    BY DEF UnlinkBegin
  <2> HIDE DEF blk
  <2>2. q.op = "unlink" /\ q.name = n /\ q.v = dentry[n] /\ q.blk = blk
    BY DEF NoLoc
  <2> HIDE DEF q
  <2>3. QED
    BY <2>1, <2>2 DEF blk
<1>2. /\ pc[t] = "idle" /\ dentry[n] \in Vnodes /\ FdsOf(dentry[n]) = {}
      /\ UNCHANGED <<itable, super, memory>>
  BY DEF UnlinkBegin, FilesKeptOpen
<1>3. itable[r.blk].name = n
  BY <1>1, <1>2, NoneUnlinking
<1>4. CallFits("ul_dir", r)'
  BY <1>1, <1>2, <1>3
  DEF CallFits, CreateFits, UnlinkFits, WriteFits, TableFits, StatLabels, UnlinkLabels,
      FdsOf, memory
<1>5. QED
  BY <1>1, <1>2, <1>4, CallBegins DEF memory
-----------------------------------------------------------------------------
(* Steps outside the handlers. *)
LEMMA SameCallFits ==
    ASSUME CallInv, UNCHANGED <<itable, block, pc, loc>>,
           \A t \in Threads : loc[t].op = "write" =>
               file'[loc[t].fd].v = loc[t].v /\ vnode'[loc[t].v].fo = vnode[loc[t].v].fo,
           \A t \in Threads : loc[t].op = "unlink" =>
               FdsOf(loc[t].v)' = {} /\ vnode'[loc[t].v].fo = vnode[loc[t].v].fo
    PROVE  \A t \in Threads : CallFits(pc[t], loc[t])'
<1> SUFFICES ASSUME NEW t \in Threads PROVE CallFits(pc[t], loc[t])'
  OBVIOUS
<1>1. CallFits(pc[t], loc[t]) /\ LocalsFit(pc[t], loc[t]) /\ loc[t] \in Loc
  BY LocTypes DEF CallInv, CallRest, DirInv, TableInv
<1>2. pc[t] = "us_write" => StatOf(loc[t])' = StatOf(loc[t])
  BY <1>1 DEF StatOf, LocalsFit, Loc
<1>3. TableFits(pc[t], loc[t])'
  BY <1>1, <1>2 DEF CallFits, TableFits, SameUpTo
<1>4. CreateFits(pc[t], loc[t])'
  BY <1>1 DEF CallFits, CreateFits, Adding, SameUpTo, Visible
<1>5. UnlinkFits(pc[t], loc[t])' /\ WriteFits(pc[t], loc[t])'
  BY <1>1 DEF CallFits, UnlinkFits, WriteFits
<1>6. QED
  BY <1>1, <1>3, <1>4, <1>5 DEF CallFits

(* A descriptor that a write goes through is open, so nobody frees the     *)
(* inode of the write.                                                     *)
LEMMA WriterHolds ==
    ASSUME CallInv, NEW t \in Threads, loc[t].op = "write"
    PROVE  loc[t].v \in Vnodes /\ loc[t].fd \in FdsOf(loc[t].v) /\ IsOpen(loc[t].fd)
<1>1. loc[t].v \in Vnodes /\ loc[t].fd \in Fds /\ file[loc[t].fd].v = loc[t].v
  BY LocTypes DEF CallInv, CallRest, CallFits, WriteFits, DirInv, TableInv, LocalsFit
<1>2. QED
  BY <1>1, VnodesAssumption DEF FdsOf, IsOpen

LEMMA LookupCall ==
    ASSUME NoClash, CallInv, NEW n \in Names, Lookup(n)
    PROVE  CallRest'
<1>1. PICK v \in FreeVnodes, i \in Inode \ {0} :
          /\ dentry' = [dentry EXCEPT ![n] = v]
          /\ vnode' = [vnode EXCEPT ![v] = [fo |-> itable[i], i_size |-> itable[i].size,
                                            idx |-> i]]
          /\ itable[i].name = n
  BY LookupFinds
<1>2. /\ dentry[n] = None /\ UNCHANGED <<itable, block, file, pc, loc>>
      /\ \A t \in Threads : loc[t].op # "unlink"
  BY DEF Lookup, DirBusy, disk
<1>3. dentry \in [Names -> Vnodes \cup {None, Negative}] /\ vnode \in [Vnodes -> Vnode]
      /\ v \in Vnodes
  BY DEF CallInv, DirInv, TableInv, TypeInv, TypeOK, FreeVnodes
<1>4. \A m \in Names : dentry[m] # v
  BY DEF FreeVnodes, InCache
<1>5. \A n2 : Unlinking(n2)' <=> Unlinking(n2)
  BY <1>2 DEF Unlinking
<1>6. NamesKept'
  <2>1. itable[i].first_block = i
    BY <1>1, ObjectAt DEF CallInv, DirInv
  <2>2. ASSUME NEW m \in Names, dentry'[m] \in Vnodes PROVE Entry(m)'
    <3>1. CASE m = n
      <4>1. dentry'[m] = v /\ vnode'[v].fo = itable[i]
        BY <1>1, <1>3, <3>1
      <4>2. QED
        BY <1>1, <1>2, <2>1, <3>1, <4>1 DEF Entry
    <3>2. CASE m # n
      <4>1. dentry'[m] = dentry[m] /\ vnode'[dentry[m]] = vnode[dentry[m]] /\ Entry(m)
        BY <1>1, <1>3, <1>4, <2>2, <3>2 DEF CallInv, CallRest, NamesKept
      <4>2. QED
        BY <1>2, <1>5, <4>1 DEF Entry
    <3>3. QED
      BY <3>1, <3>2
  <2>3. QED
    BY <2>2 DEF NamesKept
<1>7. OpenCached'
  <2>1. ASSUME NEW fd \in Fds, IsOpen(fd) PROVE InCache(file[fd].v)'
    <3>1. PICK m \in Names : dentry[m] = file[fd].v
      BY <2>1 DEF CallInv, CallRest, OpenCached, InCache
    <3>2. dentry'[m] = file'[fd].v
      BY <1>1, <1>2, <1>3, <2>1, <3>1 DEF IsOpen
    <3>3. QED
      BY <3>2 DEF InCache
  <2>2. QED
    BY <1>2, <2>1 DEF OpenCached, IsOpen
<1>8. \A t \in Threads : CallFits(pc[t], loc[t])'
  <2>1. ASSUME NEW t \in Threads, loc[t].op = "write"
        PROVE  file'[loc[t].fd].v = loc[t].v /\ vnode'[loc[t].v].fo = vnode[loc[t].v].fo
    BY <1>1, <1>2, <1>3, <2>1, WriterHolds DEF FdsOf, FreeVnodes
  <2>2. QED
    BY <1>2, <2>1, SameCallFits
<1>9. QED
  BY <1>6, <1>7, <1>8 DEF CallRest

LEMMA OpenCall ==
    ASSUME FilesKeptOpen, CallInv, NEW fd \in Fds, NEW n \in Names, NEW app \in BOOLEAN,
           NEW trunc \in BOOLEAN, Open(fd, n, app, trunc)
    PROVE  CallRest'
<1>1. /\ dentry[n] \in Vnodes /\ ~IsOpen(fd) /\ UNCHANGED <<itable, block, dentry, pc, loc>>
      /\ \A t \in Threads : loc[t].op = "unlink" => loc[t].v # dentry[n]
  BY DEF Open, FilesKeptOpen, disk
<1>2. vnode \in [Vnodes -> Vnode] /\ file \in [Fds -> File]
  BY DEF CallInv, DirInv, TableInv, TypeInv, TypeOK
<1>3. \A w \in Vnodes : vnode'[w].fo = vnode[w].fo
  BY <1>1, <1>2 DEF Open, Vnode
<1>4. /\ file'[fd].v = dentry[n] /\ \A e \in Fds \ {fd} : file'[e] = file[e]
  BY <1>2 DEF Open
<1>5. NamesKept'
  BY <1>1, <1>3 DEF NamesKept, Entry, Unlinking, CallInv, CallRest
<1>6. OpenCached'
  BY <1>1, <1>4 DEF OpenCached, IsOpen, InCache, CallInv, CallRest
<1>7. \A t \in Threads : CallFits(pc[t], loc[t])'
  <2>1. ASSUME NEW t \in Threads, loc[t].op = "write"
        PROVE  file'[loc[t].fd].v = loc[t].v /\ vnode'[loc[t].v].fo = vnode[loc[t].v].fo
    BY <1>1, <1>3, <1>4, <2>1, WriterHolds DEF FdsOf
  <2>2. ASSUME NEW t \in Threads, loc[t].op = "unlink"
        PROVE  FdsOf(loc[t].v)' = {} /\ vnode'[loc[t].v].fo = vnode[loc[t].v].fo
    <3>1. loc[t].v \in Vnodes /\ FdsOf(loc[t].v) = {}
      BY <2>2, LocTypes DEF CallInv, CallRest, CallFits, UnlinkFits, DirInv, TableInv, LocalsFit
    <3>2. QED
      BY <1>1, <1>3, <1>4, <2>2, <3>1 DEF FdsOf
  <2>3. QED
    BY <1>1, <2>1, <2>2, SameCallFits
<1>8. QED
  BY <1>5, <1>6, <1>7 DEF CallRest

(* The inode of a descriptor is cached, so that closing frees nothing. *)
LEMMA CloseReadCall ==
    ASSUME CallInv, NEW fd \in Fds, Close(fd) \/ Read(fd)
    PROVE  CallRest'
<1>1. /\ UNCHANGED <<itable, block, dentry, pc, loc>> /\ ~Busy(fd) /\ IsOpen(fd)
  BY DEF Close, Read, disk
<1>2. file \in [Fds -> File] /\ None \notin Vnodes
  BY VnodesAssumption DEF CallInv, DirInv, TableInv, TypeInv, TypeOK
<1>3. vnode' = vnode
  BY <1>1 DEF Close, Read, Drop, OpenCached, CallInv, CallRest
<1>4. /\ \A e \in Fds \ {fd} : file'[e] = file[e]
      /\ file'[fd].v \in {file[fd].v, None}
  BY <1>2 DEF Close, Read, Closed, File
<1>5. NamesKept'
  BY <1>1, <1>3 DEF NamesKept, Entry, Unlinking, CallInv, CallRest
<1>6. OpenCached'
  BY <1>1, <1>4 DEF OpenCached, IsOpen, InCache, CallInv, CallRest
<1>7. \A t \in Threads : CallFits(pc[t], loc[t])'
  <2>1. ASSUME NEW t \in Threads, loc[t].op = "write"
        PROVE  file'[loc[t].fd].v = loc[t].v /\ vnode'[loc[t].v].fo = vnode[loc[t].v].fo
    BY <1>1, <1>3, <1>4, <2>1, WriterHolds DEF FdsOf, Busy
  <2>2. ASSUME NEW t \in Threads, loc[t].op = "unlink"
        PROVE  FdsOf(loc[t].v)' = {} /\ vnode'[loc[t].v].fo = vnode[loc[t].v].fo
    <3>1. loc[t].v \in Vnodes /\ FdsOf(loc[t].v) = {}
      BY <2>2, LocTypes DEF CallInv, CallRest, CallFits, UnlinkFits, DirInv, TableInv, LocalsFit
    <3>2. QED
      BY <1>1, <1>2, <1>3, <1>4, <3>1 DEF FdsOf
  <2>3. QED
    BY <1>1, <2>1, <2>2, SameCallFits
<1>8. QED
  BY <1>5, <1>6, <1>7 DEF CallRest

(* A name that is dropped is not that of a call, and nobody else has its   *)
(* inode.                                                                  *)
LEMMA EvictCall ==
    ASSUME CallInv, NEW n \in Names, Evict(n)
    PROVE  CallRest'
<1>1. /\ dentry' = [dentry EXCEPT ![n] = None] /\ vnode' = Drop(vnode, dentry[n], FALSE)
      /\ FdsOf(dentry[n]) = {} /\ ~\E t \in Threads : loc[t].name = n
      /\ UNCHANGED <<itable, block, file, pc, loc>>
  BY DEF Evict, disk
<1>2. /\ dentry \in [Names -> Vnodes \cup {None, Negative}] /\ vnode \in [Vnodes -> Vnode]
      /\ OneName
  BY DEF CallInv, DirInv, DirRest, TableInv, TypeInv, TypeOK
<1>3. \A w \in Vnodes : w # dentry[n] => vnode'[w] = vnode[w]
  BY <1>1, <1>2 DEF Drop
<1>4. ASSUME NEW m \in Names, dentry'[m] \in Vnodes
      PROVE  dentry'[m] = dentry[m] /\ vnode'[dentry[m]] = vnode[dentry[m]]
  <2>1. m # n /\ dentry'[m] = dentry[m]
    BY <1>1, <1>2, <1>4, VnodesAssumption
  <2>2. QED
    BY <1>2, <1>3, <1>4, <2>1 DEF OneName
<1>5. NamesKept'
  <2>1. ASSUME NEW m \in Names, dentry'[m] \in Vnodes PROVE Entry(m)'
    <3>1. Entry(m)
      BY <1>4, <2>1 DEF NamesKept, CallInv, CallRest
    <3>2. QED
      BY <1>1, <1>4, <2>1, <3>1 DEF Entry, Unlinking
  <2>2. QED
    BY <2>1 DEF NamesKept
<1>6. OpenCached'
  <2>1. ASSUME NEW fd \in Fds, IsOpen(fd) PROVE InCache(file[fd].v)'
    <3>1. PICK m \in Names : dentry[m] = file[fd].v
      BY <2>1 DEF CallInv, CallRest, OpenCached, InCache
    <3>2. m # n
      BY <1>1, <3>1 DEF FdsOf
    <3>3. dentry'[m] = file'[fd].v
      BY <1>1, <1>2, <3>1, <3>2
    <3>4. QED
      BY <3>3 DEF InCache
  <2>2. QED
    BY <1>1, <2>1 DEF OpenCached, IsOpen
<1>7. \A t \in Threads : CallFits(pc[t], loc[t])'
  <2>1. ASSUME NEW t \in Threads, loc[t].op = "write"
        PROVE  file'[loc[t].fd].v = loc[t].v /\ vnode'[loc[t].v].fo = vnode[loc[t].v].fo
    BY <1>1, <1>3, <2>1, WriterHolds DEF FdsOf
  <2>2. ASSUME NEW t \in Threads, loc[t].op = "unlink"
        PROVE  FdsOf(loc[t].v)' = {} /\ vnode'[loc[t].v].fo = vnode[loc[t].v].fo
    <3>1. loc[t].v \in Vnodes /\ FdsOf(loc[t].v) = {} /\ loc[t].name \in Names
      BY <2>2, LocTypes DEF CallInv, CallRest, CallFits, UnlinkFits, DirInv, TableInv, LocalsFit
    <3>2. loc[t].v # dentry[n]
      BY <1>1, <1>2, <2>2, <3>1 DEF OneName, UnlinkName, CallInv, DirInv, DirRest
    <3>3. QED
      BY <1>1, <1>3, <3>1, <3>2 DEF FdsOf
  <2>3. QED
    BY <1>1, <2>1, <2>2, SameCallFits
<1>8. QED
  BY <1>5, <1>6, <1>7 DEF CallRest

LEMMA LostCall ==
    ASSUME CallInv, MemoryLost
    PROVE  CallRest'
BY VnodesAssumption
DEF MemoryLost, CallRest, NamesKept, OpenCached, IsOpen, Closed, CallFits, CreateFits,
    UnlinkFits, WriteFits, TableFits, NoLoc, StatLabels

LEMMA SteadyCall ==
    ASSUME CallInv, UNCHANGED <<itable, block, dentry, vnode, file, pc, loc>>
    PROVE  CallRest'
<1>1. \A t \in Threads : CallFits(pc[t], loc[t])'
  <2>1. ASSUME NEW t \in Threads, loc[t].op = "unlink" PROVE FdsOf(loc[t].v)' = {}
    BY <2>1 DEF FdsOf, CallInv, CallRest, CallFits, UnlinkFits
  <2>2. ASSUME NEW t \in Threads, loc[t].op = "write" PROVE file'[loc[t].fd].v = loc[t].v
    BY <2>2 DEF CallInv, CallRest, CallFits, WriteFits
  <2>3. QED
    BY <2>1, <2>2, SameCallFits
<1>2. QED
  BY <1>1 DEF CallInv, CallRest, NamesKept, Entry, Unlinking, OpenCached, IsOpen, InCache

LEMMA CallInvStep ==
    ASSUME OneCaller, NoClash, MemoryKept, FilesKeptOpen, NoEmptyWrites,
           CallInv, [Next]_vars
    PROVE  CallInv'
<1> SUFFICES CallRest'
  BY DirInvStep DEF CallInv
<1>1. CASE Call
  BY <1>1, LookupCall, OpenCall, CloseReadCall, WriteBeginCall, CreateBeginCall,
     UnlinkBeginCall DEF Call
<1>2. CASE \E t \in Threads : Step(t)
  BY <1>2, StepCall
<1>3. CASE Environment
  <2>1. ~\E v \in Vnodes : Recycled(v)
    BY DEF MemoryKept, Recycled
  <2>2. ASSUME Mount PROVE CallRest'
    BY <2>2, SteadyCall DEF Mount, disk
  <2>3. QED
    BY <1>3, <2>1, <2>2, EvictCall, LostCall DEF Environment, Crash, Unmount
<1>4. CASE UNCHANGED vars
  BY <1>4, SteadyCall DEF vars
<1>5. QED
  BY <1>1, <1>2, <1>3, <1>4 DEF Next

LEMMA CallInvInit == Init => CallInv
BY DirInvInit, VnodesAssumption
DEF Init, CallInv, CallRest, NamesKept, OpenCached, IsOpen, Closed, CallFits, CreateFits,
    UnlinkFits, WriteFits, TableFits, NoLoc, StatLabels

(* At every step of a call, crashes and failing accesses included, the     *)
(* copies of the directory and the table that the handler holds differ     *)
(* from the disk only in what this call is to change, and the cached       *)
(* inodes lead to objects of their names (file.c 182-500).                 *)
THEOREM CallsCorrect ==
    ASSUME OneCaller, NoClash, MemoryKept, FilesKeptOpen, NoEmptyWrites
    PROVE  Spec => []CallInv
<1>1. CallInv /\ [Next]_vars => CallInv'
  BY CallInvStep
<1>2. QED
  BY <1>1, CallInvInit, PTL DEF Spec

(* When create reports success, the name is on the disk: a slot of the     *)
(* directory and an object of that name behind it, whatever was on the     *)
(* disk before, crashes and failing accesses included (file.c 281-296).    *)
THEOREM CreatedIsVisible ==
    ASSUME OneCaller, NoClash, MemoryKept, FilesKeptOpen, NoEmptyWrites
    PROVE  Spec => []CreateTakesEffect
<1>1. CallInv => CreateTakesEffect
  BY DEF CallInv, CallRest, CallFits, CreateFits, CreateTakesEffect, StatLabels
<1>2. QED
  BY <1>1, CallsCorrect, PTL

LEMMA HeldCached ==
    ASSUME CallInv, NEW v \in Vnodes, v \notin FreeVnodes
    PROVE  InCache(v)
<1>1. CASE FdsOf(v) # {}
  <2>1. PICK fd \in Fds : file[fd].v = v
    BY <1>1 DEF FdsOf
  <2>2. QED
    BY <2>1, VnodesAssumption DEF OpenCached, IsOpen, CallInv, CallRest
<1>2. QED
  BY <1>1 DEF FreeVnodes

(* Two inodes that names or descriptors hold never have the same data      *)
(* block: the names differ, each is the name of the object that its block  *)
(* belongs to, and an object has one name.                                 *)
THEOREM BlocksNotShared ==
    ASSUME OneCaller, NoClash, MemoryKept, FilesKeptOpen, NoEmptyWrites
    PROVE  Spec => []BlockOwner
<1>1. ASSUME CallInv, NEW v \in Vnodes, NEW w \in Vnodes,
             v \notin FreeVnodes, w \notin FreeVnodes, v # w
      PROVE  vnode[v].fo.first_block # vnode[w].fo.first_block
  <2>1. PICK m \in Names, n \in Names : dentry[m] = v /\ dentry[n] = w
    BY <1>1, HeldCached DEF InCache
  <2>2. Entry(m) /\ Entry(n) /\ m # n
    BY <1>1, <2>1 DEF NamesKept, CallInv, CallRest
  <2>3. QED
    BY <2>1, <2>2, NamesAssumption DEF Entry, Unlinking, OneCaller
<1>2. CallInv => BlockOwner
  BY <1>1 DEF BlockOwner
<1>3. QED
  BY <1>2, CallsCorrect, PTL
-----------------------------------------------------------------------------
(* The steps that change the table, and what each step that changes the    *)
(* directory or the table does to the other names.                         *)
LEMMA TableWritten ==
    ASSUME [Next]_vars, itable' # itable
    PROVE  \E t \in Threads : CreateWriteTable(t) \/ StatWriteTable(t)
<1>1. ~Call
  BY DEF Call, Lookup, Open, Close, Read, WriteBegin, CreateBegin, UnlinkBegin, disk
<1>2. CASE \E t \in Threads : Step(t)
  <2>1. PICK t \in Threads : Step(t)
    BY <1>2
  <2>2. ~(\/ WriteBlock(t) \/ WriteSize(t) \/ WriteReturn(t) \/ CreateReadTable(t)
          \/ CreateReadDir(t) \/ CreateNoSpace(t) \/ CreateWriteDir(t) \/ CreateReturn(t)
          \/ UnlinkReadDir(t) \/ UnlinkNoEntry(t) \/ UnlinkWriteDir(t) \/ UnlinkReturn(t))
    BY DEF WriteBlock, WriteSize, WriteReturn, CreateReadTable, CreateReadDir, CreateNoSpace,
       CreateWriteDir, CreateReturn, UnlinkReadDir, UnlinkNoEntry, UnlinkWriteDir,
       UnlinkReturn, disk
  <2>3. ~(\/ StatReadTable(t) \/ StatReset(t) \/ StatCount(t) \/ StatWriteSuper(t)
          \/ NoBlocks(t) \/ OpFails(t) \/ StatFails(t))
    BY DEF StatReadTable, StatReset, StatCount, StatWriteSuper, NoBlocks, OpFails, StatFails, disk
  <2>4. QED
    BY <2>1, <2>2, <2>3 DEF Step, Work
<1>3. ~Environment
  BY DEF Environment, Evict, Recycled, Crash, Unmount, MemoryLost, Mount, disk
<1>4. QED
  BY <1>1, <1>2, <1>3 DEF Next, vars

LEMMA SameSlots ==
    ASSUME NEW n, \A s \in Slot :
             (block'[0][s] \in Inode \ {0} /\ itable'[block'[0][s]].name = n)
                 <=> (block[0][s] \in Inode \ {0} /\ itable[block[0][s]].name = n)
    PROVE  Visible(n)' = Visible(n)
BY DEF Visible, SlotsOf

(* The slot that create fills belongs to no name yet, the slot that unlink *)
(* empties belongs to its own.                                             *)
LEMMA DirStepNames ==
    ASSUME CallInv, NEW t \in Threads, CreateWriteDir(t) \/ UnlinkWriteDir(t), NEW n \in Names
    PROVE  Visible(n)' = Visible(n) \/ (loc[t].op \in DirOps /\ loc[t].name = n)
<1>1. /\ rootfo = Root /\ loc[t] \in Loc /\ loc[t].op \in DirOps
      /\ CallFits(pc[t], loc[t]) /\ LocalsFit(pc[t], loc[t])
  BY LocTypes DEF CreateWriteDir, UnlinkWriteDir, CallInv, CallRest, DirInv, DirRest,
     RootKnown, DirMounted, DirOps, TableInv, LocalsFit, CreateLabels, UnlinkLabels
<1>2. block'[0] = loc[t].buf /\ itable' = itable /\ block[0] \in Block
  BY <1>1, ObjectTypes
  DEF CreateWriteDir, UnlinkWriteDir, Root, CallInv, DirInv, TableInv, TypeInv, TypeOK
<1>3. CASE CreateWriteDir(t)
  <2>1. PICK i \in Inode, s \in Slot : /\ itable[i] = FreeObject /\ block[0][s] = 0
                                       /\ loc[t].buf = [block[0] EXCEPT ![s] = i]
    BY <1>1, <1>3 DEF CreateWriteDir, CallFits, CreateFits
  <2>2. \A x \in Slot : block'[0][x] = block[0][x]
                         \/ (block'[0][x] = i /\ block[0][x] = 0)
    BY <1>2, <2>1 DEF Block
  <2>3. itable[i].name # n
    BY <2>1, NamesAssumption DEF FreeObject
  <2>4. QED
    BY <1>2, <2>2, <2>3, SameSlots
<1>4. CASE UnlinkWriteDir(t)
  <2>1. /\ loc[t].op = "unlink" /\ itable[loc[t].blk].name = loc[t].name
        /\ \E s \in Slot : /\ block[0][s] = loc[t].blk
                           /\ loc[t].buf = [block[0] EXCEPT ![s] = 0]
    BY <1>1, <1>4 DEF UnlinkWriteDir, CallFits, UnlinkFits, UnlinkLabels, LocalsFit
  <2>2. PICK s \in Slot : block[0][s] = loc[t].blk /\ loc[t].buf = [block[0] EXCEPT ![s] = 0]
    BY <2>1
  <2>3. \A x \in Slot : block'[0][x] = block[0][x]
                         \/ (block'[0][x] = 0 /\ block[0][x] = loc[t].blk)
    BY <1>2, <2>2 DEF Block
  <2>4. CASE loc[t].name # n
    BY <1>2, <2>1, <2>3, <2>4, SameSlots
  <2>5. QED
    BY <1>1, <2>4
<1>5. QED
  BY <1>3, <1>4

LEMMA TableStepNames ==
    ASSUME NoClash, CallInv, NEW t \in Threads, CreateWriteTable(t) \/ StatWriteTable(t),
           NEW n \in Names
    PROVE  Visible(n)' = Visible(n) \/ (loc[t].op \in DirOps /\ loc[t].name = n)
<1>1. block' = block
  BY DEF CreateWriteTable, StatWriteTable
<1>2. CASE CreateWriteTable(t)
  <2>1. loc[t].op = "create" /\ CreateFits("cr_wtab", loc[t])
    BY <1>2, LocTypes DEF CreateWriteTable, CallInv, CallRest, CallFits, DirInv, TableInv,
       LocalsFit, CreateLabels
  <2>2. PICK i \in Inode : Adding(loc[t], i)
    BY <2>1 DEF CreateFits
  <2>3. itable'[i] = itable[i] \/ (itable[i].name = NoName /\ itable'[i].name = loc[t].name)
    BY <1>2, <2>2 DEF CreateWriteTable, Adding, CopyCluster, FreeObject, NewObject
  <2>4. \A j \in Inode \ {i} : itable'[j] = itable[j]
    BY <1>2, <2>2 DEF CreateWriteTable, Adding, CopyCluster
  <2>5. CASE loc[t].name # n
    <3>1. \A j \in Inode : itable'[j].name = n <=> itable[j].name = n
      BY <2>3, <2>4, <2>5, NamesAssumption
    <3>2. QED
      BY <1>1, <3>1, SameSlots
  <2>6. QED
    BY <2>1, <2>5 DEF DirOps
<1>3. CASE StatWriteTable(t)
  <2>1. \A i \in Inode : \/ itable'[i].name = itable[i].name
                         \/ /\ loc[t].op = "unlink" /\ itable[i].name = loc[t].name
                            /\ itable'[i].name = NoName
    BY <1>3, StatNames
  <2>2. CASE ~(loc[t].op = "unlink" /\ loc[t].name = n)
    <3>1. \A i \in Inode : itable'[i].name = n <=> itable[i].name = n
      BY <2>1, <2>2, NamesAssumption
    <3>2. QED
      BY <1>1, <3>1, SameSlots
  <2>3. QED
    BY <2>2 DEF DirOps
<1>4. QED
  BY <1>2, <1>3

(* Only create and unlink of a name change whether it is visible, wherever *)
(* a call is stopped and whatever fails.                                   *)
THEOREM NamesApart ==
    ASSUME OneCaller, NoClash, MemoryKept, FilesKeptOpen, NoEmptyWrites
    PROVE  Spec => NameStep
<1>1. ASSUME CallInv, [Next]_vars, NEW n \in Names, Visible(n)' # Visible(n)
      PROVE  \E t \in Threads : loc[t].op \in {"create", "unlink"} /\ loc[t].name = n
  <2>1. block'[0] # block[0] \/ itable' # itable
    BY <1>1 DEF Visible, SlotsOf
  <2>2. PICK t \in Threads : \/ CreateWriteDir(t) \/ UnlinkWriteDir(t)
                             \/ CreateWriteTable(t) \/ StatWriteTable(t)
    BY <1>1, <2>1, DirWritten, TableWritten DEF CallInv
  <2>3. QED
    BY <1>1, <2>2, DirStepNames, TableStepNames DEF DirOps
<1>2. CallInv /\ [Next]_vars =>
        [\A n \in Names : Visible(n)' # Visible(n) =>
            \E t \in Threads : loc[t].op \in {"create", "unlink"} /\ loc[t].name = n]_vars
  BY <1>1
<1>3. QED
  BY <1>2, CallsCorrect, PTL DEF Spec, NameStep
-----------------------------------------------------------------------------
(* Appending.  The handlers keep the size of a file in two places, and the *)
(* position of a descriptor starts from one of them while the old contents *)
(* are kept as far as the other says.  The first never exceeds the second, *)
(* except in an inode whose file has just been removed.                    *)
Removed(v) == \E t \in Threads : /\ loc[t].op = "unlink" /\ loc[t].v = v
                                 /\ pc[t] \in StatLabels \cup {"ret"}
SizesFit == \A v \in Vnodes : vnode[v].i_size =< vnode[v].fo.size \/ Removed(v)

(* The buffer of an appending write begins with what the block holds.      *)
AppendFits(l, r) ==
    l = "wr_block" /\ file[r.fd].app =>
        \A s \in Slot : s < file[r.fd].pos => r.buf[s] = block[r.blk][s]

AppendRest == SizesFit /\ \A t \in Threads : AppendFits(pc[t], loc[t])
AppendInv  == CallInv /\ AppendRest

LEMMA AppendMove ==
    ASSUME OneCaller, CallInv, NEW t \in Threads, NEW l, NEW r, Move(t, l, r),
           SizesFit', AppendFits(l, r)'
    PROVE  AppendRest'
<1>1. pc'[t] = l /\ loc'[t] = r /\ \A u \in Threads : u = t
  BY MoveEffect DEF CallInv, DirInv, TableInv, OneCaller
<1>2. QED
  BY <1>1 DEF AppendRest

(* A thread that has removed nothing moves on.                             *)
LEMMA AppendGoesOn ==
    ASSUME OneCaller, AppendInv, NEW t \in Threads, NEW l, NEW r, Move(t, l, r),
           l # "wr_block", vnode' = vnode,
           \/ pc[t] \notin StatLabels \cup {"ret"}
           \/ SameCall(r, loc[t]) /\ l \in StatLabels \cup {"ret"}
           \/ loc[t].op # "unlink"
    PROVE  AppendRest'
<1>1. pc'[t] = l /\ loc'[t] = r /\ \A u \in Threads : u = t
  BY MoveEffect DEF CallInv, AppendInv, DirInv, TableInv, OneCaller
<1>2. SizesFit'
  <2>1. \A v : Removed(v) => Removed(v)'
    BY <1>1 DEF Removed, SameCall
  <2>2. QED
    BY <2>1 DEF SizesFit, AppendInv, AppendRest
<1>3. QED
  BY <1>2, AppendMove DEF AppendFits, AppendInv

LEMMA WriteBeginAppend ==
    ASSUME OneCaller, AppendInv, NEW t \in Threads, NEW fd \in Fds,
           NEW len \in Lens, NEW d \in Data, WriteBegin(t, fd, len, d)
    PROVE  AppendRest'
<1> DEFINE end == file[fd].pos + (IF len > W THEN W ELSE len)
           fo  == vnode[file[fd].v].fo
           buf == WriteBuffer(block[fo.first_block], file[fd].app, fo.size, file[fd].pos, end, d)
<1>1. PICK r : /\ Move(t, "wr_block", r) /\ r.op = "write" /\ r.fd = fd
               /\ r.blk = fo.first_block /\ r.buf = buf
  <2> DEFINE q == [NoLoc EXCEPT !.op = "write", !.v = file[fd].v, !.fd = fd,
                                !.blk = fo.first_block, !.end = end, !.buf = buf]
  <2>1. Move(t, "wr_block", q)
    BY DEF WriteBegin
  <2> HIDE DEF fo, buf, end
  <2>2. q.op = "write" /\ q.fd = fd /\ q.blk = fo.first_block /\ q.buf = buf
    BY DEF NoLoc
  <2> HIDE DEF q
  <2>3. QED
    BY <2>1, <2>2
<1>2. UNCHANGED <<disk, memory>> /\ pc[t] = "idle" /\ file[fd].pos =< vnode[file[fd].v].i_size
  BY DEF WriteBegin
<1>3. \A v : ~Removed(v)
  BY <1>2 DEF Removed, OneCaller, StatLabels
<1>4. file[fd].v \in Vnodes /\ file[fd].pos \in Nat /\ fo.size \in Nat
      /\ vnode[file[fd].v].i_size \in Nat
  BY DEF WriteBegin, IsOpen, AppendInv, CallInv, DirInv, TableInv, TypeInv, TypeOK, File,
     Vnode, FileObject
<1>5. file[fd].pos =< fo.size
  BY <1>2, <1>3, <1>4 DEF SizesFit, AppendInv, AppendRest
<1>6. ASSUME file[fd].app, NEW s \in Slot, s < file[fd].pos PROVE buf[s] = block[fo.first_block][s]
  <2>1. s < fo.size /\ ~(file[fd].pos <= s)
    BY <1>4, <1>5, <1>6 DEF Slot
  <2> HIDE DEF fo, end
  <2>2. QED
    BY <1>6, <2>1 DEF WriteBuffer
<1> HIDE DEF fo, buf
<1>7. AppendFits("wr_block", r)'
  BY <1>1, <1>2, <1>6 DEF AppendFits, disk, memory
<1>8. SizesFit'
  BY <1>2, <1>3 DEF SizesFit, AppendInv, AppendRest, memory
<1>9. QED
  BY <1>1, <1>7, <1>8, AppendMove DEF AppendInv

(* The two sizes become one; unlink sets one of an inode that goes.        *)
LEMMA SizesAppend ==
    ASSUME OneCaller, AppendInv, NEW t \in Threads,
           WriteSize(t) \/ UnlinkWriteDir(t) \/ UnlinkReturn(t)
    PROVE  AppendRest'
<1>1. /\ loc[t] \in Loc /\ loc[t].v \in Vnodes /\ loc[t].end \in Nat
      /\ vnode \in [Vnodes -> Vnode] /\ UnlinkFits(pc[t], loc[t])
      /\ \A u \in Threads : u = t
  BY LocTypes DEF WriteSize, UnlinkWriteDir, UnlinkReturn, LocalsFit, WriteLabels,
     UnlinkLabels, AppendInv, CallInv, CallRest, CallFits, DirInv, TableInv, TypeInv,
     TypeOK, Loc, OneCaller
<1>2. SizesFit /\ \A v \in Vnodes : vnode[v].i_size \in Nat /\ vnode[v].fo.size \in Nat
  BY <1>1 DEF AppendInv, AppendRest, Vnode, FileObject
<1>3. CASE WriteSize(t)
  <2>1. \A v : ~Removed(v)
    BY <1>1, <1>3 DEF WriteSize, Removed, StatLabels
  <2>2. \A v \in Vnodes : vnode'[v].i_size =< vnode'[v].fo.size
    BY <1>1, <1>2, <1>3, <2>1 DEF WriteSize, SizesFit, Vnode, FileObject
  <2>3. QED
    BY <1>3, <2>2, AppendMove DEF WriteSize, SizesFit, AppendFits, AppendInv
<1>4. CASE UnlinkWriteDir(t)
  <2>1. PICK r : Move(t, "us_read", r) /\ SameCall(r, loc[t])
    BY <1>1, <1>4 DEF UnlinkWriteDir, Loc, SameCall
  <2>2. loc'[t] = r /\ pc'[t] = "us_read" /\ loc[t].op = "unlink"
    BY <1>4, <2>1, MoveEffect, LocTypes DEF UnlinkWriteDir, LocalsFit, UnlinkLabels,
       AppendInv, CallInv, DirInv, TableInv
  <2>3. ASSUME NEW v \in Vnodes PROVE vnode'[v].i_size =< vnode'[v].fo.size \/ Removed(v)'
    <3>1. CASE v = loc[t].v
      BY <2>1, <2>2, <3>1 DEF Removed, SameCall, StatLabels
    <3>2. CASE v # loc[t].v
      <4>1. vnode'[v] = vnode[v] /\ ~Removed(v)
        BY <1>1, <1>4, <3>2 DEF UnlinkWriteDir, Removed
      <4>2. QED
        BY <1>2, <4>1 DEF SizesFit
    <3>3. QED
      BY <3>1, <3>2
  <2>4. QED
    BY <2>1, <2>3, AppendMove DEF SizesFit, AppendFits, AppendInv
<1>5. CASE UnlinkReturn(t)
  <2>1. vnode' = [vnode EXCEPT ![loc[t].v] = FreeVnode] /\ Move(t, "idle", NoLoc)
    BY <1>1, <1>5 DEF UnlinkReturn, UnlinkFits, Drop, Return
  <2>2. ASSUME NEW v \in Vnodes PROVE vnode'[v].i_size =< vnode'[v].fo.size
    <3>1. CASE v = loc[t].v
      BY <1>1, <2>1, <3>1 DEF FreeVnode, FreeObject
    <3>2. CASE v # loc[t].v
      <4>1. vnode'[v] = vnode[v] /\ ~Removed(v)
        BY <1>1, <2>1, <3>2 DEF Removed
      <4>2. QED
        BY <1>2, <4>1 DEF SizesFit
    <3>3. QED
      BY <3>1, <3>2
  <2>3. QED
    BY <2>1, <2>2, AppendMove DEF SizesFit, AppendFits, AppendInv
<1>6. QED
  BY <1>3, <1>4, <1>5

LEMMA StepAppend ==
    ASSUME OneCaller, AppendInv, NEW t \in Threads, Step(t)
    PROVE  AppendRest'
<1>1. loc[t] \in Loc /\ LocalsFit(pc[t], loc[t])
  BY LocTypes DEF AppendInv, CallInv, DirInv, TableInv
<1>2. CASE WriteSize(t) \/ UnlinkWriteDir(t) \/ UnlinkReturn(t)
  BY <1>2, SizesAppend
<1>3. CASE \/ WriteReturn(t) \/ CreateNoSpace(t) \/ CreateReturn(t)
           \/ UnlinkNoEntry(t) \/ NoBlocks(t) \/ OpFails(t)
  <2>1. /\ Move(t, "idle", NoLoc) /\ vnode' = vnode
        /\ pc[t] \notin StatLabels \cup {"ret"} \/ loc[t].op # "unlink"
    BY <1>3 DEF WriteReturn, CreateNoSpace, CreateReturn, UnlinkNoEntry, NoBlocks, OpFails,
       Return, memory, StatLabels, CreateLabels, UnlinkLabels
  <2>2. QED
    BY <2>1, AppendGoesOn
<1>4. CASE \/ WriteBlock(t) \/ CreateReadTable(t) \/ CreateReadDir(t) \/ CreateWriteDir(t)
           \/ CreateWriteTable(t) \/ UnlinkReadDir(t)
  <2>1. pc[t] \notin StatLabels \cup {"ret"} /\ vnode' = vnode
    BY <1>4 DEF WriteBlock, CreateReadTable, CreateReadDir, CreateWriteDir, CreateWriteTable,
       UnlinkReadDir, memory, StatLabels
  <2>2. PICK l, r : Move(t, l, r) /\ l # "wr_block"
    <3>1. CASE CreateReadDir(t)
      BY <3>1 DEF CreateReadDir
    <3>2. CASE UnlinkReadDir(t)
      BY <3>2 DEF UnlinkReadDir
    <3>3. QED
      BY <1>4, <3>1, <3>2 DEF WriteBlock, CreateReadTable, CreateWriteDir, CreateWriteTable
  <2>3. QED
    BY <2>1, <2>2, AppendGoesOn
<1>5. CASE \/ StatReadTable(t) \/ StatWriteTable(t) \/ StatReset(t) \/ StatCount(t)
           \/ StatWriteSuper(t) \/ StatFails(t)
  <2>1. vnode' = vnode
    BY <1>5 DEF StatReadTable, StatWriteTable, StatReset, StatCount, StatWriteSuper, StatFails,
       memory
  <2>2. PICK l, k, tbl, used :
          /\ l \in StatLabels \cup {"ret"}
          /\ \/ Move(t, l, [loc[t] EXCEPT !.k = k, !.tbl = tbl])
             \/ Move(t, l, [loc[t] EXCEPT !.k = k])
             \/ Move(t, l, [loc[t] EXCEPT !.k = k, !.tbl = tbl, !.used = used])
             \/ Move(t, l, [loc[t] EXCEPT !.used = used])
             \/ Move(t, l, loc[t])
    <3>1. CASE StatReadTable(t)
      BY <3>1 DEF StatReadTable, StatLabels
    <3>2. CASE StatWriteTable(t)
      BY <3>2 DEF StatWriteTable, StatLabels
    <3>3. CASE StatReset(t) \/ StatCount(t)
      BY <3>3 DEF StatReset, StatCount, StatLabels
    <3>4. CASE StatWriteSuper(t) \/ StatFails(t)
      BY <3>4 DEF StatWriteSuper, StatFails, StatLabels
    <3>5. QED
      BY <1>5, <3>1, <3>2, <3>3, <3>4
  <2>3. PICK r : Move(t, l, r) /\ SameCall(r, loc[t])
    <3>1. /\ SameCall([loc[t] EXCEPT !.k = k, !.tbl = tbl], loc[t])
          /\ SameCall([loc[t] EXCEPT !.k = k], loc[t])
          /\ SameCall([loc[t] EXCEPT !.k = k, !.tbl = tbl, !.used = used], loc[t])
          /\ SameCall([loc[t] EXCEPT !.used = used], loc[t])
          /\ SameCall(loc[t], loc[t])
      BY <1>1 DEF SameCall, Loc
    <3>2. QED
      BY <2>2, <3>1
  <2>4. QED
    BY <2>1, <2>2, <2>3, AppendGoesOn DEF StatLabels
<1>6. QED
  BY <1>2, <1>3, <1>4, <1>5 DEF Step, Work

(* Steps outside the handlers. *)
LEMMA MemoryAppend ==
    ASSUME AppendInv, UNCHANGED <<block, pc, loc>>,
           \A v \in Vnodes : \/ vnode'[v].i_size = vnode[v].i_size /\ vnode'[v].fo = vnode[v].fo
                             \/ vnode'[v].i_size =< vnode'[v].fo.size,
           \A t \in Threads : pc[t] = "wr_block" => file'[loc[t].fd] = file[loc[t].fd]
    PROVE  AppendRest'
<1>1. SizesFit'
  BY DEF AppendInv, AppendRest, SizesFit, Removed
<1>2. \A t \in Threads : AppendFits(pc[t], loc[t])'
  BY DEF AppendInv, AppendRest, AppendFits
<1>3. QED
  BY <1>1, <1>2 DEF AppendRest

LEMMA DropSizes ==
    ASSUME NEW v, NEW held, vnode' = Drop(vnode, v, held), vnode \in [Vnodes -> Vnode]
    PROVE  \A w \in Vnodes :
             \/ vnode'[w].i_size = vnode[w].i_size /\ vnode'[w].fo = vnode[w].fo
             \/ vnode'[w].i_size =< vnode'[w].fo.size
BY DEF Drop, FreeVnode, FreeObject

LEMMA EnvironmentAppend ==
    ASSUME AppendInv,
           \/ \E n \in Names : Lookup(n) \/ Evict(n)
           \/ \E fd \in Fds, n \in Names, app, trunc \in BOOLEAN : Open(fd, n, app, trunc)
           \/ \E fd \in Fds : Close(fd) \/ Read(fd)
           \/ Mount
    PROVE  AppendRest'
<1>1. vnode \in [Vnodes -> Vnode] /\ file \in [Fds -> File] /\ itable \in [Inode -> FileObject]
  BY DEF AppendInv, CallInv, DirInv, TableInv, TypeInv, TypeOK
<1>2. ASSUME NEW t \in Threads, pc[t] = "wr_block"
      PROVE  loc[t].fd \in Fds /\ IsOpen(loc[t].fd) /\ Busy(loc[t].fd)
  BY <1>2, LocTypes, WriterHolds DEF AppendInv, CallInv, DirInv, TableInv, LocalsFit,
     WriteLabels, Busy
<1>3. ASSUME NEW n \in Names, Lookup(n) PROVE AppendRest'
  <2>1. PICK v \in FreeVnodes, i \in Inode \ {0} :
            vnode' = [vnode EXCEPT ![v] = [fo |-> itable[i], i_size |-> itable[i].size, idx |-> i]]
    BY <1>3, LookupFinds
  <2>2. v \in Vnodes /\ itable[i].size \in Nat
    BY <1>1 DEF FreeVnodes, FileObject
  <2>3. \A w \in Vnodes : \/ vnode'[w].i_size = vnode[w].i_size /\ vnode'[w].fo = vnode[w].fo
                          \/ vnode'[w].i_size =< vnode'[w].fo.size
    BY <1>1, <2>1, <2>2
  <2>4. QED
    BY <1>3, <2>3, MemoryAppend DEF Lookup, disk
<1>4. ASSUME NEW n \in Names, Evict(n) PROVE AppendRest'
  BY <1>1, <1>4, DropSizes, MemoryAppend DEF Evict, disk
<1>5. ASSUME NEW fd \in Fds, NEW n \in Names, NEW app \in BOOLEAN, NEW trunc \in BOOLEAN,
             Open(fd, n, app, trunc)
      PROVE  AppendRest'
  <2>1. \A t \in Threads : pc[t] = "wr_block" => file'[loc[t].fd] = file[loc[t].fd]
    BY <1>1, <1>2, <1>5 DEF Open
  <2>2. dentry[n] \in Vnodes
        /\ vnode' \in {vnode, [vnode EXCEPT ![dentry[n]].i_size = 0]}
    BY <1>5 DEF Open
  <2>3. \A w \in Vnodes : \/ vnode'[w].i_size = vnode[w].i_size /\ vnode'[w].fo = vnode[w].fo
                          \/ vnode'[w].i_size =< vnode'[w].fo.size
    BY <1>1, <2>2 DEF Vnode, FileObject
  <2>4. QED
    BY <1>5, <2>1, <2>3, MemoryAppend DEF Open, disk
<1>6. ASSUME NEW fd \in Fds, Close(fd) \/ Read(fd) PROVE AppendRest'
  <2>1. \A t \in Threads : pc[t] = "wr_block" => file'[loc[t].fd] = file[loc[t].fd]
    BY <1>1, <1>2, <1>6 DEF Close, Read
  <2>2. \A w \in Vnodes : \/ vnode'[w].i_size = vnode[w].i_size /\ vnode'[w].fo = vnode[w].fo
                          \/ vnode'[w].i_size =< vnode'[w].fo.size
    BY <1>1, <1>6, DropSizes DEF Close, Read
  <2>3. QED
    BY <1>6, <2>1, <2>2, MemoryAppend DEF Close, Read, disk
<1>7. ASSUME Mount PROVE AppendRest'
  BY <1>7, MemoryAppend DEF Mount, disk
<1>8. QED
  BY <1>3, <1>4, <1>5, <1>6, <1>7

LEMMA AppendInvStep ==
    ASSUME OneCaller, NoClash, MemoryKept, FilesKeptOpen, NoEmptyWrites,
           AppendInv, [Next]_vars
    PROVE  AppendInv'
<1> SUFFICES AppendRest'
  BY CallInvStep DEF AppendInv
<1>1. CASE Call
  <2>1. ASSUME NEW t \in Threads, NEW n \in Names, CreateBegin(t, n) \/ UnlinkBegin(t, n)
        PROVE  AppendRest'
    <3>1. PICK l, r : Move(t, l, r) /\ l # "wr_block"
      BY <2>1 DEF CreateBegin, UnlinkBegin
    <3>2. pc[t] \notin StatLabels \cup {"ret"} /\ vnode' = vnode
      BY <2>1 DEF CreateBegin, UnlinkBegin, memory, StatLabels
    <3>3. QED
      BY <3>1, <3>2, AppendGoesOn
  <2>2. QED
    BY <1>1, <2>1, WriteBeginAppend, EnvironmentAppend DEF Call
<1>2. CASE \E t \in Threads : Step(t)
  BY <1>2, StepAppend
<1>3. CASE Environment
  <2>1. ~\E v \in Vnodes : Recycled(v)
    BY DEF MemoryKept, Recycled
  <2>2. ASSUME MemoryLost PROVE AppendRest'
    BY <2>2 DEF MemoryLost, AppendRest, SizesFit, AppendFits, FreeVnode, FreeObject
  <2>3. QED
    BY <1>3, <2>1, <2>2, EnvironmentAppend DEF Environment, Crash, Unmount
<1>4. CASE UNCHANGED vars
  BY <1>4, MemoryAppend DEF vars
<1>5. QED
  BY <1>1, <1>2, <1>3, <1>4 DEF Next

LEMMA AppendInvInit == Init => AppendInv
BY CallInvInit DEF Init, AppendInv, AppendRest, SizesFit, AppendFits, FreeVnode, FreeObject

(* A write through an O_APPEND descriptor leaves every word in front of    *)
(* its position as it was, whatever was opened with O_TRUNC, removed or    *)
(* cut short by a failure before.                                          *)
THEOREM AppendsKeepPrefix ==
    ASSUME OneCaller, NoClash, MemoryKept, FilesKeptOpen, NoEmptyWrites
    PROVE  Spec => AppendKeepsPrefix
<1> DEFINE Kept(t) == pc[t] = "wr_block" /\ pc'[t] = "wr_size" /\ file[loc[t].fd].app =>
                         \A s \in Slot : s < file[loc[t].fd].pos =>
                            block'[loc[t].blk][s] = block[loc[t].blk][s]
<1>1. ASSUME AppendInv, [Next]_vars, NEW t \in Threads PROVE Kept(t)
  <2>1. SUFFICES ASSUME pc[t] = "wr_block", pc'[t] = "wr_size", file[loc[t].fd].app
                 PROVE  \A s \in Slot : s < file[loc[t].fd].pos =>
                            block'[loc[t].blk][s] = block[loc[t].blk][s]
    OBVIOUS
  <2>2. WriteBlock(t)
    <3>1. pc'[t] # pc[t] /\ pc'[t] # "idle" /\ \A u \in Threads : u = t
      BY <2>1 DEF OneCaller
    <3>2. ~Call
      BY <2>1, <3>1 DEF Call, Lookup, Open, Close, Read, WriteBegin, CreateBegin, UnlinkBegin
    <3>3. ~Environment /\ ~UNCHANGED vars
      BY <3>1 DEF Environment, Evict, Recycled, Crash, Unmount, MemoryLost, Mount, vars
    <3>4. ~OpFails(t)
      BY <1>1, <3>1, MoveEffect DEF OpFails, Return, AppendInv, CallInv, DirInv, TableInv
    <3>5. Step(t)
      BY <1>1, <3>1, <3>2, <3>3 DEF Next
    <3>6. QED
      BY <2>1, <3>4, <3>5
      DEF Step, Work, WriteSize, WriteReturn, CreateReadTable, CreateReadDir,
          CreateNoSpace, CreateWriteDir, CreateWriteTable, CreateReturn, UnlinkReadDir,
          UnlinkNoEntry, UnlinkWriteDir, UnlinkReturn, StatReadTable, StatWriteTable,
          StatReset, StatCount, StatWriteSuper, NoBlocks, StatFails
  <2>3. QED
    <3>1. loc[t].blk \in Inode /\ block \in [Inode -> Block]
      BY <1>1, LocTypes DEF AppendInv, CallInv, DirInv, TableInv, TypeInv, TypeOK, Loc
    <3>2. block'[loc[t].blk] = loc[t].buf
      BY <2>2, <3>1 DEF WriteBlock
    <3>3. QED
      BY <1>1, <2>1, <3>2 DEF AppendInv, AppendRest, AppendFits
<1>2. AppendInv /\ [Next]_vars => AppendInv'
  BY AppendInvStep
<1>3. AppendInv /\ [Next]_vars => [\A t \in Threads : Kept(t)]_vars
  BY <1>1
<1>4. QED
  BY <1>2, <1>3, AppendInvInit, PTL DEF Spec, AppendKeepsPrefix
=============================================================================
