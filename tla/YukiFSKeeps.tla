---------------------------- MODULE YukiFSKeeps ----------------------------
(***************************************************************************)
(* The directory, the table and the cached inodes fit together after every *)
(* call, when one call is made at a time, none is stopped half way by a    *)
(* failing access or a power failure, no file is removed while it is open, *)
(* and none is created again that is there already.  The cache may hide    *)
(* from a program that it is (NoneCreatedAgain, file.c 230-237).           *)
(*                                                                         *)
(* Within a call they do not fit: the directory is written before the      *)
(* table, and the table block by block.  What does fit at every step is    *)
(* the directory on the disk and the table that the disk will hold when    *)
(* the call is over (Settled).                                             *)
(***************************************************************************)
EXTENDS YukiFSOne

(* create fills a slot without a look at what the others hold.  It is up   *)
(* to the programs not to create a file that is there: rm a; touch a;      *)
(* touch a does, since the negative dentry that rm leaves makes the VFS    *)
(* call create both times.                                                 *)
NoneCreatedAgain == "create_again" \notin Env

(* The table as it will be when what the call has begun to write is        *)
(* written.                                                                *)
Settled(l, r) ==
    IF l \in {"cr_wtab", "us_write"} THEN r.tbl
    ELSE IF l = "us_read" THEN [i \in Inode |-> UpdateOne(itable[i], StatOf(r))]
    ELSE itable

(* Every slot in use is that of an object in use. *)
SlotsUsed(dir, t) == \A s \in Slot : dir[s] # 0 => dir[s] \in Inode /\ t[dir[s]].in_use = 1

(* No two slots lead to the same name. *)
SlotsDiffer(dir, t) == \A s, x \in Slot :
    dir[s] # 0 /\ dir[x] # 0 /\ t[dir[s]].name = t[dir[x]].name => s = x

(* There may be several objects of a name, but only of one size. *)
TwinsAgree(t) == \A i, j \in Inode \ {0} :
    t[i].in_use = 1 /\ t[j].in_use = 1 /\ t[i].name = t[j].name => t[i].size = t[j].size

(* An object whose name has no slot is one of an empty file. *)
RestEmpty(dir, t) == \A i \in Inode \ {0} :
    t[i].in_use = 1 => t[i].size = 0 \/ SlotsOf(dir, t, t[i].name) # {}

Sound(dir, t) == SlotsUsed(dir, t) /\ SlotsDiffer(dir, t) /\ TwinsAgree(t) /\ RestEmpty(dir, t)

(* The name has been taken out of the directory by the unlink under way. *)
Gone(n) == \E t \in Threads : /\ loc[t].op = "unlink" /\ loc[t].name = n
                              /\ pc[t] \in StatLabels \cup {"ret"}

(* A cached inode has a slot, and what it holds is what the table holds.   *)
Coherent(t) == \A n \in Names : dentry[n] \in Vnodes =>
    LET fo == vnode[dentry[n]].fo
    IN  Gone(n) \/ (t[fo.first_block] = fo /\ \E s \in Slot : block[0][s] = fo.first_block)

Good(t) == Sound(block[0], t) /\ Coherent(t)

KeepFits(l, r) ==
    /\ r.op = "create" /\ l \in {"cr_read", "cr_dir", "cr_wdir"} =>
          SlotsOf(block[0], itable, r.name) = {}
    /\ l = "cr_wdir" => Sound(r.buf, r.tbl)
    /\ r.op = "unlink" /\ l \in StatLabels \cup {"ret"} =>
          SlotsOf(block[0], itable, r.name) = {}

KeepRest == /\ Quiet => Good(itable)
            /\ \A t \in Threads : Good(Settled(pc[t], loc[t])) /\ KeepFits(pc[t], loc[t])
KeepInv == CallInv /\ KeepRest
-----------------------------------------------------------------------------
(* What the three calls do to a directory and a table that fit. *)
LEMMA SoundSame ==
    ASSUME NEW dir, NEW t, NEW u, \A i \in Inode : t[i] = u[i], Sound(dir, t)
    PROVE  Sound(dir, u)
<1>1. SlotsUsed(dir, u) /\ SlotsDiffer(dir, u) /\ TwinsAgree(u)
  BY DEF Sound, SlotsUsed, SlotsDiffer, TwinsAgree
<1>2. \A n : SlotsOf(dir, u, n) = SlotsOf(dir, t, n)
  BY DEF SlotsOf
<1>3. RestEmpty(dir, u)
  BY <1>2 DEF Sound, RestEmpty
<1>4. QED
  BY <1>1, <1>3 DEF Sound

(* create takes an empty slot and a free object, for a name without a      *)
(* slot; whatever else has the name is empty, as the new object is.        *)
LEMMA AddSound ==
    ASSUME NEW dir \in Block, NEW t, NEW u, Sound(dir, t), NEW s \in Slot,
           NEW i \in Inode \ {0}, NEW n, dir[s] = 0, t[i] = FreeObject,
           SlotsOf(dir, t, n) = {}, u[i] = NewObject(i, n),
           \A j \in Inode \ {i} : u[j] = t[j]
    PROVE  Sound([dir EXCEPT ![s] = i], u)
<1> DEFINE d == [dir EXCEPT ![s] = i]
<1>1. d[s] = i /\ \A x \in Slot \ {s} : d[x] = dir[x]
  BY DEF Block
<1>2. ASSUME NEW x \in Slot \ {s}, dir[x] # 0
      PROVE  dir[x] \in Inode \ {0, i} /\ u[dir[x]] = t[dir[x]] /\ t[dir[x]].name # n
             /\ t[dir[x]].in_use = 1
  BY <1>2 DEF Sound, SlotsUsed, SlotsOf, FreeObject
<1> HIDE DEF d
<1>3. SlotsUsed(d, u)
  BY <1>1, <1>2 DEF SlotsUsed, NewObject
<1>4. SlotsDiffer(d, u)
  <2>1. ASSUME NEW x \in Slot, NEW y \in Slot, d[x] # 0, d[y] # 0, u[d[x]].name = u[d[y]].name
        PROVE  x = y
    <3>1. CASE x = s \/ y = s
      BY <1>1, <1>2, <2>1, <3>1 DEF NewObject
    <3>2. CASE x # s /\ y # s
      BY <1>1, <1>2, <2>1, <3>2 DEF Sound, SlotsDiffer
    <3>3. QED
      BY <3>1, <3>2
  <2>2. QED
    BY <2>1 DEF SlotsDiffer
<1>5. \A j \in Inode \ {0, i} : t[j].in_use = 1 /\ t[j].name = n => t[j].size = 0
  BY DEF Sound, RestEmpty
<1>6. TwinsAgree(u)
  BY <1>5 DEF TwinsAgree, Sound, NewObject
<1>7. RestEmpty(d, u)
  <2>1. ASSUME NEW j \in Inode \ {0}, u[j].in_use = 1, u[j].size # 0
        PROVE  SlotsOf(d, u, u[j].name) # {}
    <3>1. j # i
      BY <2>1 DEF NewObject
    <3>2. PICK x \in Slot : dir[x] \in Inode \ {0} /\ t[dir[x]].name = t[j].name
      BY <2>1, <3>1 DEF Sound, RestEmpty, SlotsOf
    <3>3. x # s /\ d[x] = dir[x] /\ u[dir[x]] = t[dir[x]] /\ u[j] = t[j]
      BY <1>1, <1>2, <3>1, <3>2
    <3>4. QED
      BY <3>2, <3>3 DEF SlotsOf
  <2>2. QED
    BY <2>1 DEF RestEmpty
<1>8. QED
  BY <1>3, <1>4, <1>6, <1>7 DEF Sound, d

(* write gives every object of the name the new size; the name has a slot. *)
LEMMA ResizeSound ==
    ASSUME NEW dir, NEW t \in [Inode -> FileObject], NEW u, Sound(dir, t), NEW fo, fo.size # 0,
           SlotsOf(dir, t, fo.name) # {}, \A i \in Inode : u[i] = UpdateOne(t[i], fo)
    PROVE  Sound(dir, u)
<1>1. ASSUME NEW i \in Inode
      PROVE  /\ u[i].in_use = t[i].in_use /\ u[i].name = t[i].name
             /\ t[i].in_use = 1 /\ t[i].name = fo.name => u[i].size = fo.size
             /\ t[i].name # fo.name => u[i].size = t[i].size
  BY DEF UpdateOne, FileObject
<1>2. \A n : SlotsOf(dir, u, n) = SlotsOf(dir, t, n)
  BY <1>1 DEF SlotsOf
<1>3. SlotsUsed(dir, u) /\ SlotsDiffer(dir, u)
  BY <1>1 DEF Sound, SlotsUsed, SlotsDiffer
<1>4. TwinsAgree(u)
  BY <1>1 DEF Sound, TwinsAgree
<1>5. RestEmpty(dir, u)
  BY <1>1, <1>2 DEF Sound, RestEmpty
<1>6. QED
  BY <1>3, <1>4, <1>5 DEF Sound

(* unlink empties the only slot of the name, and erases what has the name  *)
(* and is not empty.                                                       *)
LEMMA RemoveSound ==
    ASSUME NEW dir \in Block, NEW t \in [Inode -> FileObject], NEW u, Sound(dir, t),
           NEW s \in Slot, dir[s] # 0, NEW fo, fo.size = 0, fo.name = t[dir[s]].name,
           \A i \in Inode : u[i] = UpdateOne(t[i], fo)
    PROVE  Sound([dir EXCEPT ![s] = 0], u) /\ SlotsOf([dir EXCEPT ![s] = 0], t, fo.name) = {}
<1> DEFINE d == [dir EXCEPT ![s] = 0]
<1>1. d[s] = 0 /\ \A x \in Slot \ {s} : d[x] = dir[x]
  BY DEF Block
<1> HIDE DEF d
<1>2. ASSUME NEW x \in Slot, d[x] # 0
      PROVE  /\ d[x] = dir[x] /\ d[x] \in Inode /\ t[d[x]].in_use = 1
             /\ t[d[x]].name # fo.name /\ u[d[x]] = t[d[x]]
  <2>1. x # s /\ d[x] = dir[x]
    BY <1>1, <1>2
  <2>2. d[x] \in Inode /\ t[d[x]].in_use = 1 /\ t[d[x]].name # fo.name
    BY <1>2, <2>1 DEF Sound, SlotsUsed, SlotsDiffer
  <2>3. QED
    BY <2>1, <2>2 DEF UpdateOne
<1>3. ASSUME NEW i \in Inode, u[i].in_use = 1
      PROVE  /\ u[i].name = t[i].name /\ t[i].in_use = 1
             /\ u[i].name # fo.name => u[i] = t[i]
             /\ u[i].name = fo.name => u[i].size = 0
  <2>1. t[i] \in FileObject /\ u[i] = UpdateOne(t[i], fo)
    OBVIOUS
  <2>2. CASE t[i].in_use = 1 /\ t[i].name = fo.name
    BY <1>3, <2>1, <2>2 DEF UpdateOne, FreeObject, FileObject
  <2>3. CASE ~(t[i].in_use = 1 /\ t[i].name = fo.name)
    <3>1. u[i] = t[i]
      BY <2>1, <2>3 DEF UpdateOne
    <3>2. QED
      BY <1>3, <2>3, <3>1
  <2>4. QED
    BY <2>2, <2>3
<1>4. SlotsUsed(d, u)
  BY <1>2 DEF SlotsUsed
<1>5. SlotsDiffer(d, u)
  BY <1>2 DEF SlotsDiffer, Sound
<1>6. TwinsAgree(u)
  BY <1>3 DEF TwinsAgree, Sound
<1>7. RestEmpty(d, u)
  <2>1. ASSUME NEW i \in Inode \ {0}, u[i].in_use = 1, u[i].size # 0
        PROVE  SlotsOf(d, u, u[i].name) # {}
    <3>1. u[i] = t[i] /\ t[i].name # fo.name
      BY <1>3, <2>1
    <3>2. PICK x \in Slot : dir[x] \in Inode \ {0} /\ t[dir[x]].name = t[i].name
      BY <2>1, <3>1 DEF Sound, RestEmpty, SlotsOf
    <3>3. x # s /\ d[x] = dir[x]
      BY <1>1, <3>1, <3>2
    <3>4. QED
      BY <1>2, <3>1, <3>2, <3>3 DEF SlotsOf
  <2>2. QED
    BY <2>1 DEF RestEmpty
<1>8. SlotsOf(d, t, fo.name) = {}
  BY <1>2 DEF SlotsOf
<1>9. QED
  BY <1>4, <1>5, <1>6, <1>7, <1>8 DEF Sound, d
-----------------------------------------------------------------------------
(* Tables that agree on every inode are as good as each other. *)
LEMMA GoodSame ==
    ASSUME TypeInv', NEW t, NEW u, \A i \in Inode : t[i] = u[i], Good(t)'
    PROVE  Good(u)'
<1>1. Sound(block'[0], u)
  <2>1. PICK dir : dir = block'[0]
    OBVIOUS
  <2>2. Sound(dir, t)
    BY <2>1 DEF Good
  <2>3. QED
    BY <2>1, <2>2, SoundSame
<1>2. \A n \in Names : dentry'[n] \in Vnodes => vnode'[dentry'[n]].fo.first_block \in Inode
  BY DEF TypeInv, TypeOK, Vnode, FileObject
<1>3. Coherent(u)'
  BY <1>2 DEF Coherent, Good
<1>4. QED
  BY <1>1, <1>3 DEF Good, Sound, SlotsUsed, SlotsDiffer, TwinsAgree, RestEmpty

(* The only thread moves on, and tbl is what the table will be.            *)
LEMMA KeepMove ==
    ASSUME OneCaller, KeepInv, CallInv', NEW t \in Threads, NEW l, NEW r, Move(t, l, r),
           NEW tbl, Good(tbl)', \A i \in Inode : tbl[i] = Settled(l, r)'[i],
           KeepFits(l, r)'
    PROVE  KeepRest'
<1>1. pc'[t] = l /\ loc'[t] = r /\ \A u \in Threads : u = t
  BY MoveEffect DEF KeepInv, CallInv, DirInv, TableInv, OneCaller
<1>2. PICK u : u = Settled(l, r)'
  OBVIOUS
<1>3. Good(u)'
  BY <1>2, GoodSame DEF CallInv, DirInv, TableInv
<1>4. Good(Settled(pc[t], loc[t]))'
  BY <1>1, <1>2, <1>3 DEF Good, Sound, SlotsUsed, SlotsDiffer, TwinsAgree, RestEmpty, Coherent
<1>5. Quiet' => Good(itable)'
  BY <1>1, <1>4 DEF Quiet, Settled
<1>6. QED
  BY <1>1, <1>4, <1>5 DEF KeepRest

(* What is cached and what the directory holds stay as they are, and what  *)
(* the table will be too.                                                  *)
LEMMA KeepGoesOn ==
    ASSUME OneCaller, KeepInv, CallInv', NEW t \in Threads, NEW l, NEW r, Move(t, l, r),
           UNCHANGED <<dentry, vnode>>, block'[0] = block[0],
           loc[t].op = "unlink" /\ pc[t] \in StatLabels \cup {"ret"} =>
              r.op = "unlink" /\ r.name = loc[t].name /\ l \in StatLabels \cup {"ret"},
           \A i \in Inode : Settled(pc[t], loc[t])[i] = Settled(l, r)'[i],
           KeepFits(l, r)'
    PROVE  KeepRest'
<1>1. pc'[t] = l /\ loc'[t] = r /\ \A u \in Threads : u = t
  BY MoveEffect DEF KeepInv, CallInv, DirInv, TableInv, OneCaller
<1>2. \A n : Gone(n) => Gone(n)'
  BY <1>1 DEF Gone
<1>3. PICK tbl : tbl = Settled(pc[t], loc[t])
  OBVIOUS
<1>4. Good(tbl)
  BY <1>3 DEF KeepInv, KeepRest
<1>5. Good(tbl)'
  BY <1>2, <1>4 DEF Good, Coherent
<1>6. QED
  BY <1>3, <1>5, KeepMove

(* A call begins, or one ends that has changed nothing or is over.         *)
LEMMA KeepSteady ==
    ASSUME OneCaller, KeepInv, CallInv', NEW t \in Threads, NEW l, NEW r, Move(t, l, r),
           UNCHANGED <<itable, dentry, vnode>>, block'[0] = block[0],
           pc[t] \notin {"cr_wtab", "us_write", "us_read"},
           l \notin {"cr_wtab", "us_write", "us_read"},
           loc[t].op = "unlink" /\ pc[t] \in StatLabels \cup {"ret"} =>
              r.op = "unlink" /\ r.name = loc[t].name /\ l \in StatLabels \cup {"ret"},
           KeepFits(l, r)'
    PROVE  KeepRest'
BY KeepGoesOn DEF Settled
-----------------------------------------------------------------------------
(* The calls. *)
LEMMA CallLocals ==
    ASSUME KeepInv, NEW t \in Threads
    PROVE  /\ loc[t] \in Loc /\ LocalsFit(pc[t], loc[t]) /\ CallFits(pc[t], loc[t])
           /\ KeepFits(pc[t], loc[t]) /\ Good(Settled(pc[t], loc[t]))
           /\ itable \in [Inode -> FileObject] /\ block[0] \in Block
           /\ loc[t].op \in DirOps => rootfo = Root /\ mounted
BY LocTypes, ObjectTypes
DEF KeepInv, KeepRest, CallInv, CallRest, DirInv, DirRest, DirMounted, RootKnown, TableInv,
    TypeInv, TypeOK

LEMMA CreateBeginKeep ==
    ASSUME OneCaller, NoneCreatedAgain, KeepInv, CallInv', NEW t \in Threads,
           NEW n \in Names, CreateBegin(t, n)
    PROVE  KeepRest'
<1>1. PICK r : Move(t, "cr_read", r) /\ r.name = n
  <2> DEFINE q == [NoLoc EXCEPT !.op = "create", !.name = n]
  <2>1. Move(t, "cr_read", q) /\ q.name = n
    BY DEF CreateBegin, NoLoc
  <2> HIDE DEF q
  <2>2. QED
    BY <2>1
<1>2. /\ mounted /\ pc[t] = "idle" /\ UNCHANGED <<disk, memory>>
      /\ \E dir \in DirReads : SlotsOf(dir, itable, n) = {}
  BY DEF CreateBegin, NoneCreatedAgain
<1>3. DirReads = {block[0]}
  BY <1>2, RootRead DEF KeepInv, CallInv, DirInv, DirRest, RootKnown
<1>4. KeepFits("cr_read", r)'
  BY <1>1, <1>2, <1>3 DEF KeepFits, StatLabels, disk
<1>5. QED
  BY <1>1, <1>2, <1>4, KeepSteady DEF disk, memory, StatLabels

LEMMA BeginKeep ==
    ASSUME OneCaller, NoClash, MemoryKept, KeepInv, CallInv', [Next]_vars, NEW t \in Threads,
           \/ \E n \in Names : UnlinkBegin(t, n)
           \/ \E fd \in Fds, len \in Lens, d \in Data : WriteBegin(t, fd, len, d)
    PROVE  KeepRest'
<1>1. PICK l, r : Move(t, l, r) /\ l \in {"ul_dir", "wr_block"}
  BY DEF UnlinkBegin, WriteBegin
<1>2. pc[t] = "idle" /\ UNCHANGED <<itable, super, memory>>
  BY DEF UnlinkBegin, WriteBegin, disk
<1>3. block'[0] = block[0]
  <2>1. ~CreateWriteDir(t) /\ ~UnlinkWriteDir(t)
    BY <1>2 DEF CreateWriteDir, UnlinkWriteDir
  <2>2. QED
    BY <2>1, DirWritten DEF KeepInv, CallInv, OneCaller
<1>4. KeepFits(l, r)'
  BY <1>1 DEF KeepFits, StatLabels
<1>5. QED
  BY <1>1, <1>2, <1>3, <1>4, KeepSteady DEF memory, StatLabels
-----------------------------------------------------------------------------
(* The steps of create. *)
LEMMA CreateReadsKeep ==
    ASSUME OneCaller, KeepInv, CallInv', NEW t \in Threads,
           CreateReadTable(t) \/ CreateReadDir(t)
    PROVE  KeepRest'
<1>1. /\ loc[t] \in Loc /\ loc[t].op = "create" /\ pc[t] \in {"cr_read", "cr_dir"}
      /\ SlotsOf(block[0], itable, loc[t].name) = {} /\ Sound(block[0], itable)
      /\ block[0] \in Block
  BY CallLocals DEF CreateReadTable, CreateReadDir, LocalsFit, CreateLabels, KeepFits, Good,
     Settled
<1>2. PICK l, r : /\ Move(t, l, r) /\ SameCall(r, loc[t]) /\ l \in {"cr_read", "cr_dir", "cr_wdir"}
                  /\ l = "cr_wdir" => CreateReadDir(t)
  <2>1. CASE CreateReadTable(t)
    <3> DEFINE tbl == CopyCluster(loc[t].tbl, itable, loc[t].k)
    <3>1. \/ Move(t, "cr_read", [loc[t] EXCEPT !.k = loc[t].k + 1, !.tbl = tbl])
          \/ Move(t, "cr_dir", [loc[t] EXCEPT !.k = 0, !.tbl = tbl])
      BY <2>1 DEF CreateReadTable
    <3> HIDE DEF tbl
    <3>2. \A k : SameCall([loc[t] EXCEPT !.k = k, !.tbl = tbl], loc[t])
      BY <1>1 DEF SameCall, Loc
    <3>3. QED
      BY <3>1, <3>2
  <2>2. CASE CreateReadDir(t)
    <3>1. PICK tbl, buf : Move(t, "cr_wdir", [loc[t] EXCEPT !.tbl = tbl, !.buf = buf])
      BY <2>2 DEF CreateReadDir
    <3>2. SameCall([loc[t] EXCEPT !.tbl = tbl, !.buf = buf], loc[t])
      BY <1>1 DEF SameCall, Loc
    <3>3. QED
      BY <2>2, <3>1, <3>2
  <2>3. QED
    BY <2>1, <2>2
<1>3. UNCHANGED <<disk, memory>>
  BY DEF CreateReadTable, CreateReadDir
<1>4. ASSUME l = "cr_wdir" PROVE Sound(r.buf, r.tbl)
  <2>1. pc'[t] = l /\ loc'[t] = r
    BY <1>2, MoveEffect DEF KeepInv, CallInv, DirInv, TableInv
  <2>2. CreateFits("cr_wdir", r)'
    BY <1>4, <2>1 DEF CallInv, CallRest, CallFits
  <2>3. PICK i \in Inode, s \in Slot :
            /\ Adding(r, i)' /\ itable[i] = FreeObject
            /\ block[0][s] = 0 /\ r.buf = [block[0] EXCEPT ![s] = i]
    BY <1>3, <2>2 DEF CreateFits, disk
  <2>4. i \in Inode \ {0} /\ r.tbl[i] = NewObject(i, loc[t].name)
        /\ \A j \in Inode \ {i} : r.tbl[j] = itable[j]
    BY <1>2, <1>3, <2>3 DEF Adding, SameCall, disk
  <2>5. QED
    BY <1>1, <2>3, <2>4, AddSound
<1>5. KeepFits(l, r)'
  BY <1>1, <1>2, <1>3, <1>4 DEF KeepFits, SameCall, StatLabels, disk
<1>6. QED
  BY <1>1, <1>2, <1>3, <1>5, KeepSteady DEF disk, memory, StatLabels

LEMMA CreateWriteDirKeep ==
    ASSUME OneCaller, NoClash, KeepInv, CallInv', NEW t \in Threads, CreateWriteDir(t)
    PROVE  KeepRest'
<1>1. /\ loc[t] \in Loc /\ loc[t].op = "create" /\ rootfo = Root
      /\ CallFits("cr_wdir", loc[t]) /\ Sound(loc[t].buf, loc[t].tbl) /\ Coherent(itable)
      /\ block[0] \in Block
  BY CallLocals DEF CreateWriteDir, LocalsFit, CreateLabels, KeepFits, Good, Settled, DirOps
<1>2. PICK i \in Inode \ {0}, s \in Slot :
          /\ \A j \in Inode \ {i} : loc[t].tbl[j] = itable[j]
          /\ itable[i] = FreeObject /\ block[0][s] = 0
          /\ loc[t].buf = [block[0] EXCEPT ![s] = i]
  BY <1>1 DEF CallFits, CreateFits, Adding
<1>3. PICK r : Move(t, "cr_wtab", r) /\ SameCall(r, loc[t]) /\ r.tbl = loc[t].tbl
  BY <1>1 DEF CreateWriteDir, Loc, SameCall
<1>4. block'[0] = loc[t].buf /\ UNCHANGED <<itable, super, memory>>
  BY <1>1, ObjectTypes
  DEF CreateWriteDir, Root, KeepInv, CallInv, DirInv, TableInv, TypeInv, TypeOK
<1>5. Coherent(r.tbl)'
  <2>1. ASSUME NEW n \in Names, dentry[n] \in Vnodes
        PROVE  /\ r.tbl[vnode[dentry[n]].fo.first_block] = vnode[dentry[n]].fo
               /\ \E x \in Slot : block'[0][x] = vnode[dentry[n]].fo.first_block
    <3>1. ~Gone(n) /\ ~Unlinking(n)
      BY <1>1 DEF Gone, Unlinking, OneCaller
    <3>2. PICK b : b = vnode[dentry[n]].fo.first_block /\ b \in Inode
      BY <2>1 DEF KeepInv, CallInv, DirInv, TableInv, TypeInv, TypeOK, Vnode, FileObject
    <3>3. itable[b] = vnode[dentry[n]].fo /\ \E x \in Slot : block[0][x] = b
      BY <1>1, <2>1, <3>1, <3>2 DEF Coherent
    <3>4. itable[b].name = n
      BY <2>1, <3>1, <3>2 DEF KeepInv, CallInv, CallRest, NamesKept, Entry
    <3>5. b # 0 /\ b # i
      BY <1>2, <3>2, <3>4, ObjectAt, NamesAssumption DEF KeepInv, CallInv, DirInv, FreeObject
    <3>6. QED
      BY <1>1, <1>2, <1>3, <1>4, <3>2, <3>3, <3>5 DEF Block
  <2>2. PICK tbl : tbl = r.tbl
    OBVIOUS
  <2>3. QED
    BY <1>4, <2>1, <2>2 DEF Coherent, memory
<1>6. Good(r.tbl)'
  BY <1>1, <1>3, <1>4, <1>5 DEF Good
<1>7. KeepFits("cr_wtab", r)'
  BY <1>1, <1>3 DEF KeepFits, SameCall, StatLabels
<1>8. QED
  BY <1>3, <1>6, <1>7, KeepMove DEF Settled

(* With the last block of the table the copy is what the table holds, and  *)
(* update_statfs, which is handed the root's object, leaves it so.         *)
LEMMA CreateWriteTableKeep ==
    ASSUME OneCaller, NoClash, KeepInv, CallInv', NEW t \in Threads, CreateWriteTable(t)
    PROVE  KeepRest'
<1>1. /\ loc[t] \in Loc /\ loc[t].op = "create" /\ loc[t].k \in Nat
      /\ SameUpTo(loc[t].k, itable, loc[t].tbl) /\ pc[t] = "cr_wtab"
  BY CallLocals DEF CreateWriteTable, LocalsFit, CreateLabels, CallFits, CreateFits, Loc, Clusters
<1>2. UNCHANGED <<block, super, memory>> /\ itable' = CopyCluster(itable, loc[t].tbl, loc[t].k)
  BY DEF CreateWriteTable
<1>3. CASE loc[t].k < LastCluster
  <2>1. PICK r : Move(t, "cr_wtab", r) /\ SameCall(r, loc[t]) /\ r.tbl = loc[t].tbl
    BY <1>1, <1>3 DEF CreateWriteTable, Loc, SameCall
  <2>2. KeepFits("cr_wtab", r)'
    BY <1>1, <2>1 DEF KeepFits, SameCall, StatLabels
  <2>3. QED
    BY <1>1, <1>2, <2>1, <2>2, KeepGoesOn DEF Settled, memory
<1>4. CASE ~(loc[t].k < LastCluster)
  <2>1. PICK r : Move(t, "us_read", r) /\ SameCall(r, loc[t])
    <3> DEFINE q == [loc[t] EXCEPT !.k = 0, !.tbl = FreeTable, !.fo = loc[t].tbl[0]]
    <3>1. SameCall(q, loc[t]) /\ Move(t, "us_read", q)
      BY <1>1, <1>4 DEF CreateWriteTable, Loc, SameCall
    <3> HIDE DEF q
    <3>2. QED
      BY <3>1
  <2>2. \A i \in Inode : itable'[i] = loc[t].tbl[i]
    BY <1>1, <1>2, <1>4, CopyMore, ObjectTypes
  <2>3. pc'[t] = "us_read" /\ loc'[t] = r
    BY <2>1, MoveEffect DEF KeepInv, CallInv, DirInv, TableInv
  <2>4. StatOf(r)' = Root
    BY <1>1, <2>1, <2>3 DEF StatOf, SameCall, CallInv, CallRest, CallFits, CreateFits
  <2>5. \A i \in Inode : UpdateOne(itable'[i], Root) = itable'[i]
    <3>1. SoundTable(itable)'
      BY DEF CallInv, DirInv, TableInv, TableRest
    <3>2. UpdateOne(Root, Root) = Root
      BY SizesAssumption DEF UpdateOne, Root
    <3>3. QED
      BY <3>1, <3>2 DEF SoundTable, SoundObject, UpdateOne, Root, FreeObject, NoClash
  <2>6. \A i \in Inode : Settled(pc[t], loc[t])[i] = Settled("us_read", r)'[i]
    BY <1>1, <2>2, <2>4, <2>5 DEF Settled
  <2>7. KeepFits("us_read", r)'
    BY <1>1, <2>1 DEF KeepFits, SameCall, StatLabels
  <2>8. QED
    BY <1>1, <1>2, <2>1, <2>6, <2>7, KeepGoesOn DEF memory
<1>5. QED
  BY <1>3, <1>4
-----------------------------------------------------------------------------
(* The steps of unlink and write. *)

(* The object of a cached name, unless the name has been taken out of the  *)
(* directory.                                                              *)
LEMMA CachedObject ==
    ASSUME NoClash, KeepInv, NEW n \in Names, dentry[n] \in Vnodes, ~Gone(n),
           NEW t, Coherent(t)
    PROVE  \E b \in Inode \ {0}, s \in Slot :
             /\ b = vnode[dentry[n]].fo.first_block /\ vnode[dentry[n]].fo \in FileObject
             /\ t[b] = vnode[dentry[n]].fo /\ t[b].name = n /\ block[0][s] = b
<1>1. vnode[dentry[n]].fo \in FileObject /\ vnode[dentry[n]].fo.name = n
  BY DEF KeepInv, CallInv, CallRest, NamesKept, Entry, DirInv, TableInv, TypeInv, TypeOK, Vnode
<1>2. dentry[n] \notin FreeVnodes
  BY DEF FreeVnodes, InCache
<1>3. vnode[dentry[n]].fo.first_block # 0
  BY <1>2 DEF HeldBlocks, KeepInv, CallInv, DirInv, DirRest
<1>4. QED
  BY <1>1, <1>3 DEF Coherent, FileObject

LEMMA UnlinkReadDirKeep ==
    ASSUME OneCaller, KeepInv, CallInv', NEW t \in Threads, UnlinkReadDir(t)
    PROVE  KeepRest'
<1>1. PICK r : Move(t, "ul_wdir", r)
  BY DEF UnlinkReadDir
<1>2. loc[t].op = "unlink"
  BY CallLocals DEF UnlinkReadDir, LocalsFit, UnlinkLabels
<1>3. PICK s \in Slot : Move(t, "ul_wdir", [loc[t] EXCEPT !.buf = [block[0] EXCEPT ![s] = 0]])
  BY <1>2, CallLocals, RootRead DEF UnlinkReadDir, DirOps
<1>4. PICK q : Move(t, "ul_wdir", q) /\ SameCall(q, loc[t])
  BY <1>3, CallLocals DEF SameCall, Loc
<1>5. KeepFits("ul_wdir", q)'
  BY <1>2, <1>4 DEF KeepFits, SameCall, StatLabels
<1>6. QED
  BY <1>4, <1>5, KeepSteady DEF UnlinkReadDir, disk, memory, StatLabels

LEMMA UnlinkWriteDirKeep ==
    ASSUME OneCaller, NoClash, KeepInv, CallInv', NEW t \in Threads, UnlinkWriteDir(t)
    PROVE  KeepRest'
<1> DEFINE n == loc[t].name
           v == loc[t].v
<1>1. /\ loc[t] \in Loc /\ loc[t].op = "unlink" /\ rootfo = Root /\ v \in Vnodes /\ n \in Names
      /\ CallFits("ul_wdir", loc[t]) /\ Sound(block[0], itable) /\ Coherent(itable)
      /\ block[0] \in Block /\ itable \in [Inode -> FileObject] /\ pc[t] = "ul_wdir"
  BY CallLocals DEF UnlinkWriteDir, LocalsFit, UnlinkLabels, Good, Settled, DirOps
<1>2. dentry[n] = v /\ OneName /\ vnode \in [Vnodes -> Vnode]
  BY <1>1 DEF KeepInv, CallInv, DirInv, DirRest, UnlinkName, TableInv, TypeInv, TypeOK
<1>3. PICK s \in Slot : /\ block[0][s] = loc[t].blk /\ loc[t].buf = [block[0] EXCEPT ![s] = 0]
                        /\ itable[loc[t].blk].name = n
  BY <1>1 DEF CallFits, UnlinkFits, UnlinkLabels
<1>4. loc[t].blk \in Inode \ {0}
  BY <1>1, <1>3, ObjectAt DEF Loc, NoClash, KeepInv, CallInv, DirInv
<1>5. PICK r : Move(t, "us_read", r) /\ SameCall(r, loc[t])
  BY <1>1 DEF UnlinkWriteDir, Loc, SameCall
<1>6. /\ pc'[t] = "us_read" /\ loc'[t] = r /\ \A u \in Threads : u = t
  BY <1>5, MoveEffect DEF KeepInv, CallInv, DirInv, TableInv, OneCaller
<1>7. /\ block'[0] = loc[t].buf /\ UNCHANGED <<itable, super, dentry>>
      /\ vnode' = [vnode EXCEPT ![v].fo.size = 0]
  BY <1>1, ObjectTypes
  DEF UnlinkWriteDir, Root, KeepInv, CallInv, DirInv, TableInv, TypeInv, TypeOK
<1>8. PICK fo : fo = vnode'[v].fo
  OBVIOUS
<1>9. fo.size = 0 /\ fo.name = n
  <2>1. vnode[v].fo.name = n
    BY <1>1, <1>2 DEF KeepInv, CallInv, CallRest, NamesKept, Entry
  <2>2. QED
    BY <1>1, <1>2, <1>7, <1>8, <2>1 DEF Vnode, FileObject
<1>10. PICK tbl : tbl = [i \in Inode |-> UpdateOne(itable[i], fo)]
  OBVIOUS
<1>11. Sound(loc[t].buf, tbl) /\ SlotsOf(loc[t].buf, itable, n) = {}
  <2>1. fo.name = itable[block[0][s]].name /\ block[0][s] # 0
    BY <1>3, <1>4, <1>9
  <2>2. QED
    BY <1>1, <1>3, <1>9, <1>10, <2>1, RemoveSound
<1>12. Coherent(tbl)'
  <2>1. ASSUME NEW m \in Names, dentry[m] \in Vnodes, m # n
        PROVE  /\ tbl[vnode'[dentry[m]].fo.first_block] = vnode'[dentry[m]].fo
               /\ \E x \in Slot : block'[0][x] = vnode'[dentry[m]].fo.first_block
    <3>1. ~Gone(m)
      BY <1>1, <2>1 DEF Gone, OneCaller
    <3>2. PICK b \in Inode \ {0}, x \in Slot :
              /\ b = vnode[dentry[m]].fo.first_block
              /\ itable[b] = vnode[dentry[m]].fo /\ itable[b].name = m /\ block[0][x] = b
      BY <1>1, <2>1, <3>1, CachedObject
    <3>3. vnode'[dentry[m]] = vnode[dentry[m]]
      <4>1. dentry[m] # v
        BY <1>1, <1>2, <2>1 DEF OneName
      <4>2. QED
        BY <1>2, <1>7, <2>1, <4>1
    <3>4. x # s
      BY <1>3, <2>1, <3>2
    <3>5. block'[0][x] = b
      BY <1>1, <1>3, <1>7, <3>2, <3>4 DEF Block
    <3>6. tbl[b] = itable[b]
      BY <1>9, <1>10, <2>1, <3>2 DEF UpdateOne
    <3>7. QED
      BY <3>2, <3>3, <3>5, <3>6
  <2>2. \A m : m = n => Gone(m)'
    BY <1>1, <1>5, <1>6 DEF Gone, SameCall, StatLabels
  <2>3. QED
    BY <1>7, <2>1, <2>2 DEF Coherent
<1>13. Good(tbl)'
  BY <1>7, <1>11, <1>12 DEF Good
<1>14. \A i \in Inode : tbl[i] = Settled("us_read", r)'[i]
  BY <1>1, <1>5, <1>7, <1>8, <1>10 DEF Settled, StatOf, SameCall
<1>15. KeepFits("us_read", r)'
  BY <1>1, <1>5, <1>7, <1>11 DEF KeepFits, SameCall
<1>16. QED
  BY <1>5, <1>13, <1>14, <1>15, KeepMove

LEMMA WriteBlockKeep ==
    ASSUME OneCaller, KeepInv, CallInv', NEW t \in Threads, WriteBlock(t)
    PROVE  KeepRest'
<1>1. loc[t] \in Loc /\ loc[t].op = "write"
  BY CallLocals DEF WriteBlock, LocalsFit, WriteLabels
<1>2. PICK r : Move(t, "wr_size", r) /\ SameCall(r, loc[t])
  BY <1>1 DEF WriteBlock, Loc, SameCall
<1>3. block'[0] = block[0]
  BY WriteBlockDir DEF KeepInv, CallInv
<1>4. KeepFits("wr_size", r)'
  BY <1>1, <1>2 DEF KeepFits, SameCall
<1>5. QED
  BY <1>1, <1>2, <1>3, <1>4, KeepSteady DEF WriteBlock, memory

LEMMA WriteSizeKeep ==
    ASSUME OneCaller, NoClash, KeepInv, CallInv', NEW t \in Threads, WriteSize(t)
    PROVE  KeepRest'
<1> DEFINE v == loc[t].v
<1>1. /\ loc[t] \in Loc /\ loc[t].op = "write" /\ v \in Vnodes /\ loc[t].end # 0
      /\ Sound(block[0], itable) /\ Coherent(itable) /\ pc[t] = "wr_size"
      /\ itable \in [Inode -> FileObject]
  BY CallLocals
  DEF WriteSize, LocalsFit, WriteLabels, Good, Settled, CallFits, WriteFits
<1>2. OneName /\ vnode \in [Vnodes -> Vnode]
  BY DEF KeepInv, CallInv, DirInv, DirRest, TableInv, TypeInv, TypeOK
<1>3. PICK n \in Names : dentry[n] = v
  <2>1. v \notin FreeVnodes
    BY <1>1, WriterHolds DEF KeepInv, FreeVnodes
  <2>2. QED
    BY <1>1, <2>1, HeldCached DEF InCache, KeepInv
<1>4. \A m : ~Gone(m)
  BY <1>1 DEF Gone, OneCaller
<1>5. PICK r : Move(t, "us_read", r) /\ r = loc[t]
  BY DEF WriteSize
<1>6. pc'[t] = "us_read" /\ loc'[t] = r
  BY <1>5, MoveEffect DEF KeepInv, CallInv, DirInv, TableInv
<1>7. /\ UNCHANGED <<disk, dentry>>
      /\ vnode' = [vnode EXCEPT ![v].i_size = loc[t].end, ![v].fo.size = loc[t].end]
  BY DEF WriteSize
<1>8. PICK fo : fo = vnode'[v].fo
  OBVIOUS
<1>9. PICK b \in Inode \ {0}, s \in Slot :
          /\ b = vnode[v].fo.first_block /\ vnode[v].fo \in FileObject
          /\ itable[b] = vnode[v].fo /\ itable[b].name = n /\ block[0][s] = b
  BY <1>1, <1>3, <1>4, CachedObject
<1>10. fo = [vnode[v].fo EXCEPT !.size = loc[t].end] /\ fo.size # 0 /\ fo.name = n
       /\ fo.first_block = b
  BY <1>1, <1>2, <1>7, <1>8, <1>9 DEF Vnode, FileObject
<1>11. PICK tbl : tbl = [i \in Inode |-> UpdateOne(itable[i], fo)]
  OBVIOUS
<1>12. Sound(block[0], tbl)
  <2>1. PICK dir, t0 : dir = block[0] /\ t0 = itable
    OBVIOUS
  <2>2. s \in SlotsOf(dir, t0, fo.name)
    BY <1>9, <1>10, <2>1 DEF SlotsOf
  <2>3. /\ t0 \in [Inode -> FileObject] /\ Sound(dir, t0) /\ fo.size # 0
        /\ SlotsOf(dir, t0, fo.name) # {}
    BY <1>1, <1>10, <2>1, <2>2
  <2>4. \A i \in Inode : tbl[i] = UpdateOne(t0[i], fo)
    BY <1>11, <2>1
  <2>5. Sound(dir, tbl)
    BY <2>3, <2>4, ResizeSound
  <2>6. QED
    BY <2>1, <2>5
<1>13. Coherent(tbl)'
  <2>1. ASSUME NEW m \in Names, dentry[m] \in Vnodes
        PROVE  /\ tbl[vnode'[dentry[m]].fo.first_block] = vnode'[dentry[m]].fo
               /\ \E x \in Slot : block'[0][x] = vnode'[dentry[m]].fo.first_block
    <3>1. CASE m = n
      <4>1. itable[b].in_use = 1
        BY <1>3, <1>9, ObjectAt DEF KeepInv, CallInv, DirInv
      <4>2. UpdateOne(itable[b], fo) = fo
        BY <1>9, <1>10, <4>1 DEF UpdateOne
      <4>3. QED
        BY <1>3, <1>7, <1>8, <1>9, <1>10, <1>11, <3>1, <4>2 DEF disk
    <3>2. CASE m # n
      <4>1. PICK c \in Inode \ {0}, x \in Slot :
                /\ c = vnode[dentry[m]].fo.first_block
                /\ itable[c] = vnode[dentry[m]].fo /\ itable[c].name = m /\ block[0][x] = c
        BY <1>1, <1>4, <2>1, CachedObject
      <4>2. vnode'[dentry[m]] = vnode[dentry[m]]
        BY <1>2, <1>3, <1>7, <2>1, <3>2 DEF OneName
      <4>3. tbl[c] = itable[c]
        BY <1>10, <1>11, <3>2, <4>1 DEF UpdateOne
      <4>4. QED
        BY <1>7, <4>1, <4>2, <4>3 DEF disk
    <3>3. QED
      BY <3>1, <3>2
  <2>2. QED
    BY <1>7, <2>1 DEF Coherent
<1>14. Good(tbl)'
  BY <1>7, <1>12, <1>13 DEF Good, disk
<1>15. \A i \in Inode : tbl[i] = Settled("us_read", r)'[i]
  BY <1>1, <1>5, <1>7, <1>8, <1>11 DEF Settled, StatOf, disk
<1>16. KeepFits("us_read", r)'
  BY <1>1, <1>5 DEF KeepFits
<1>17. QED
  BY <1>5, <1>14, <1>15, <1>16, KeepMove
-----------------------------------------------------------------------------
(* The steps of update_statfs. *)
LEMMA StatReadTableKeep ==
    ASSUME OneCaller, KeepInv, CallInv', NEW t \in Threads, StatReadTable(t)
    PROVE  KeepRest'
<1>1. /\ loc[t] \in Loc /\ pc[t] = "us_read" /\ KeepFits("us_read", loc[t])
  BY CallLocals DEF StatReadTable
<1>2. UNCHANGED <<disk, memory>>
  BY DEF StatReadTable
<1>3. PICK l, r : /\ Move(t, l, r) /\ SameCall(r, loc[t]) /\ r.fo = loc[t].fo
                  /\ l \in {"us_read", "us_write"}
  <2> DEFINE tbl == CopyCluster(loc[t].tbl, itable, loc[t].k)
             upd == UpdateSizes(tbl, StatObject(t))
  <2>1. \/ Move(t, "us_read", [loc[t] EXCEPT !.k = loc[t].k + 1, !.tbl = tbl])
        \/ Move(t, "us_write", [loc[t] EXCEPT !.k = 0, !.tbl = upd])
    BY DEF StatReadTable
  <2> HIDE DEF tbl, upd
  <2>2. \A k, x : LET q == [loc[t] EXCEPT !.k = k, !.tbl = x]
                  IN  SameCall(q, loc[t]) /\ q.fo = loc[t].fo
    BY <1>1 DEF SameCall, Loc
  <2>3. QED
    BY <2>1, <2>2
<1>4. pc'[t] = l /\ loc'[t] = r
  BY <1>3, MoveEffect DEF KeepInv, CallInv, DirInv, TableInv
<1>5. StatOf(r)' = StatOf(loc[t])
  BY <1>2, <1>3 DEF StatOf, SameCall, memory
<1>6. \A i \in Inode : Settled(pc[t], loc[t])[i] = Settled(l, r)'[i]
  <2>1. CASE l = "us_read"
    BY <1>1, <1>2, <1>5, <2>1 DEF Settled, disk
  <2>2. CASE l = "us_write"
    <3>1. TableFits("us_write", r)'
      BY <1>4, <2>2 DEF CallInv, CallRest, CallFits
    <3>2. \A i \in Inode : r.tbl[i] = UpdateOne(itable[i], StatOf(loc[t]))
      BY <1>2, <1>5, <3>1 DEF TableFits, disk
    <3>3. QED
      BY <1>1, <2>2, <3>2 DEF Settled
  <2>3. QED
    BY <1>3, <2>1, <2>2
<1>7. KeepFits(l, r)'
  BY <1>1, <1>2, <1>3 DEF KeepFits, SameCall, StatLabels, disk
<1>8. QED
  BY <1>1, <1>2, <1>3, <1>6, <1>7, KeepGoesOn DEF disk, memory, StatLabels, SameCall

LEMMA StatWriteTableKeep ==
    ASSUME OneCaller, NoClash, KeepInv, CallInv', NEW t \in Threads, StatWriteTable(t)
    PROVE  KeepRest'
<1>1. /\ loc[t] \in Loc /\ pc[t] = "us_write" /\ KeepFits("us_write", loc[t])
      /\ loc[t].k \in Nat /\ SameUpTo(loc[t].k, itable, loc[t].tbl) /\ block[0] \in Block
  <2>1. loc[t].k \in Clusters
    BY LocTypes DEF KeepInv, CallInv, DirInv, TableInv
  <2>2. pc[t] = "us_write" /\ CallFits("us_write", loc[t])
    BY CallLocals DEF StatWriteTable
  <2>3. QED
    BY <2>1, <2>2, CallLocals DEF CallFits, TableFits, Clusters
<1>2. UNCHANGED <<block, super, memory>> /\ itable' = CopyCluster(itable, loc[t].tbl, loc[t].k)
  BY DEF StatWriteTable
<1>3. PICK l, r : /\ Move(t, l, r) /\ SameCall(r, loc[t])
                  /\ \/ loc[t].k < LastCluster /\ l = "us_write" /\ r.tbl = loc[t].tbl
                     \/ ~(loc[t].k < LastCluster) /\ l = "us_reset"
  <2>1. CASE loc[t].k < LastCluster
    BY <1>1, <2>1 DEF StatWriteTable, Loc, SameCall
  <2>2. CASE ~(loc[t].k < LastCluster)
    <3>1. PICK used : Move(t, "us_reset", [loc[t] EXCEPT !.k = 0, !.tbl = FreeTable, !.used = used])
      BY <2>2 DEF StatWriteTable
    <3> DEFINE q == [loc[t] EXCEPT !.k = 0, !.tbl = FreeTable, !.used = used]
    <3>2. SameCall(q, loc[t]) /\ Move(t, "us_reset", q)
      BY <1>1, <3>1 DEF Loc, SameCall
    <3> HIDE DEF q
    <3>3. QED
      BY <2>2, <3>2
  <2>3. QED
    BY <2>1, <2>2
<1>4. \A i \in Inode : Settled(pc[t], loc[t])[i] = Settled(l, r)'[i]
  <2>1. CASE l = "us_write"
    BY <1>1, <1>3, <2>1 DEF Settled
  <2>2. CASE l = "us_reset"
    BY <1>1, <1>2, <1>3, <2>2, CopyMore, ObjectTypes DEF Settled
  <2>3. QED
    BY <1>3, <2>1, <2>2
<1>5. KeepFits(l, r)'
  <2>1. ASSUME r.op = "unlink" PROVE SlotsOf(block[0], itable', r.name) = {}
    <3>1. SlotsOf(block[0], itable, r.name) = {} /\ r.name \in Names
      BY <1>1, <1>3, <2>1, CallLocals DEF KeepFits, StatLabels, SameCall, LocalsFit
    <3>2. \A i \in Inode : itable'[i].name = itable[i].name \/ itable'[i].name = NoName
      BY StatNames DEF KeepInv
    <3>3. QED
      BY <3>1, <3>2, NamesAssumption DEF SlotsOf
  <2>2. QED
    BY <1>2, <1>3, <2>1 DEF KeepFits, StatLabels
<1>6. QED
  BY <1>1, <1>2, <1>3, <1>4, <1>5, KeepGoesOn DEF memory, StatLabels, SameCall

LEMMA StatEndKeep ==
    ASSUME OneCaller, AllGoesWell, KeepInv, CallInv', NEW t \in Threads,
           StatReset(t) \/ StatCount(t) \/ StatWriteSuper(t) \/ StatFails(t)
    PROVE  KeepRest'
<1>1. /\ loc[t] \in Loc /\ KeepFits(pc[t], loc[t])
      /\ pc[t] \in {"us_reset", "us_count", "us_super"}
  BY CallLocals DEF StatReset, StatCount, StatWriteSuper, StatFails, AllGoesWell
<1>2. PICK l, r : Move(t, l, r) /\ SameCall(r, loc[t]) /\ l \in {"us_count", "us_super", "ret"}
  <2>1. \A r \in {loc[t], [loc[t] EXCEPT !.used = 0]} : SameCall(r, loc[t])
    BY <1>1 DEF Loc, SameCall
  <2>2. \/ Move(t, "us_count", loc[t]) \/ Move(t, "us_super", [loc[t] EXCEPT !.used = 0])
        \/ Move(t, "ret", loc[t])
    BY <1>1 DEF StatReset, StatCount, StatWriteSuper, StatFails, AllGoesWell
  <2>3. QED
    BY <2>1, <2>2
<1>3. UNCHANGED <<itable, block, dentry, vnode>>
  BY DEF StatReset, StatCount, StatWriteSuper, StatFails, disk, memory
<1>4. KeepFits(l, r)'
  BY <1>1, <1>2, <1>3 DEF KeepFits, SameCall, StatLabels
<1>5. QED
  BY <1>1, <1>2, <1>3, <1>4, KeepSteady DEF StatLabels, SameCall

(* How calls end. *)
LEMMA ReturnKeep ==
    ASSUME OneCaller, AllGoesWell, KeepInv, CallInv', NEW t \in Threads,
           \/ WriteReturn(t) \/ CreateReturn(t) \/ CreateNoSpace(t)
           \/ UnlinkNoEntry(t) \/ NoBlocks(t) \/ OpFails(t)
    PROVE  KeepRest'
<1>1. Move(t, "idle", NoLoc) /\ UNCHANGED <<disk, memory>>
      /\ pc[t] \in {"ret", "cr_dir", "ul_dir", "cr_wdir", "ul_wdir"}
      /\ (pc[t] = "ret" => loc[t].op # "unlink")
  BY DEF WriteReturn, CreateReturn, CreateNoSpace, UnlinkNoEntry, NoBlocks, OpFails, Return,
     AllGoesWell
<1>2. KeepFits("idle", NoLoc)'
  BY DEF KeepFits, NoLoc, StatLabels
<1>3. QED
  BY <1>1, <1>2, KeepSteady DEF disk, memory, StatLabels

(* The name is gone and its inode with it. *)
LEMMA UnlinkReturnKeep ==
    ASSUME OneCaller, KeepInv, CallInv', NEW t \in Threads, UnlinkReturn(t)
    PROVE  KeepRest'
<1> DEFINE n == loc[t].name
           v == loc[t].v
<1>1. /\ loc[t].op = "unlink" /\ v \in Vnodes /\ n \in Names /\ FdsOf(v) = {}
      /\ Good(itable) /\ pc[t] = "ret"
  BY CallLocals DEF UnlinkReturn, LocalsFit, CallFits, UnlinkFits, Settled
<1>2. /\ dentry[n] = v /\ OneName /\ vnode \in [Vnodes -> Vnode]
      /\ dentry \in [Names -> Vnodes \cup {None, Negative}]
  BY <1>1 DEF KeepInv, CallInv, DirInv, DirRest, UnlinkName, TableInv, TypeInv, TypeOK
<1>3. /\ dentry' = [dentry EXCEPT ![n] = Negative]
      /\ vnode' = [vnode EXCEPT ![v] = FreeVnode]
      /\ Move(t, "idle", NoLoc) /\ UNCHANGED disk
  BY <1>1 DEF UnlinkReturn, Drop, Return
<1>4. Coherent(itable)'
  <2>1. ASSUME NEW m \in Names, dentry'[m] \in Vnodes
        PROVE  /\ dentry'[m] = dentry[m] /\ vnode'[dentry[m]] = vnode[dentry[m]]
               /\ ~Gone(m) /\ dentry[m] \in Vnodes
    <3>1. m # n /\ dentry'[m] = dentry[m]
      BY <1>1, <1>2, <1>3, <2>1, VnodesAssumption
    <3>2. dentry[m] # v
      BY <1>1, <1>2, <2>1, <3>1 DEF OneName
    <3>3. ~Gone(m)
      BY <1>1, <3>1 DEF Gone, OneCaller
    <3>4. QED
      BY <1>2, <1>3, <2>1, <3>1, <3>2, <3>3
  <2>2. QED
    BY <1>1, <1>3, <2>1 DEF Coherent, Good, disk
<1>5. Good(itable)'
  BY <1>1, <1>3, <1>4 DEF Good, disk
<1>6. KeepFits("idle", NoLoc)'
  BY DEF KeepFits, NoLoc, StatLabels
<1>7. PICK tbl : tbl = itable'
  OBVIOUS
<1>8. Good(tbl)'
  BY <1>5, <1>7 DEF Good, Coherent
<1>9. QED
  BY <1>3, <1>6, <1>7, <1>8, KeepMove DEF Settled
-----------------------------------------------------------------------------
(* What happens between the calls, and beside them. *)

(* Threads, disk and the file objects of cached inodes stay as they are.   *)
LEMMA KeepBeside ==
    ASSUME KeepInv, UNCHANGED <<itable, block, pc, loc>>,
           \A n \in Names : dentry'[n] \in Vnodes =>
               \/ dentry[n] \in Vnodes /\ vnode'[dentry'[n]].fo = vnode[dentry[n]].fo
               \/ \E b \in Inode, s \in Slot :
                     /\ vnode'[dentry'[n]].fo = itable[b] /\ itable[b].first_block = b
                     /\ block[0][s] = b
                     /\ \A t \in Threads : Settled(pc[t], loc[t])[b] = itable[b],
           \A t \in Threads : loc[t].op = "write" => vnode'[loc[t].v].fo = vnode[loc[t].v].fo,
           \A t \in Threads : loc[t].op = "unlink" => vnode'[loc[t].v].fo = vnode[loc[t].v].fo
    PROVE  KeepRest'
<1>1. \A n : Gone(n)' <=> Gone(n)
  BY DEF Gone
<1>2. ASSUME NEW tbl, Good(tbl), \A b \in Inode :
               (\A t \in Threads : Settled(pc[t], loc[t])[b] = itable[b]) => tbl[b] = itable[b]
      PROVE  Good(tbl)'
  <2>1. ASSUME NEW n \in Names, dentry'[n] \in Vnodes, ~Gone(n)
        PROVE  LET fo == vnode'[dentry'[n]].fo
               IN  tbl[fo.first_block] = fo /\ \E s \in Slot : block[0][s] = fo.first_block
    <3>1. CASE dentry[n] \in Vnodes /\ vnode'[dentry'[n]].fo = vnode[dentry[n]].fo
      BY <1>2, <2>1, <3>1 DEF Good, Coherent
    <3>2. CASE ~(dentry[n] \in Vnodes /\ vnode'[dentry'[n]].fo = vnode[dentry[n]].fo)
      BY <1>2, <2>1, <3>2
    <3>3. QED
      BY <3>1, <3>2
  <2>2. Coherent(tbl)'
    BY <1>1, <2>1 DEF Coherent
  <2>3. QED
    BY <1>2, <2>2 DEF Good
<1>3. ASSUME NEW t \in Threads PROVE Good(Settled(pc[t], loc[t]))'
  <2>1. PICK r, l : r = loc[t] /\ l = pc[t]
    OBVIOUS
  <2>2. Settled(l, r)' = Settled(l, r)
    <3>1. l = "us_read" => StatOf(r)' = StatOf(r)
      <4>1. pc[t] = "us_read" => loc[t].op \in {"create", "write", "unlink"}
        BY CallLocals DEF LocalsFit, Loc
      <4>2. QED
        BY <2>1, <4>1 DEF StatOf
    <3>2. QED
      BY <3>1 DEF Settled
  <2>3. PICK tbl : tbl = Settled(l, r)
    OBVIOUS
  <2>4. Good(tbl)
    BY <2>1, <2>3 DEF KeepInv, KeepRest
  <2>5. Good(tbl)'
    BY <1>2, <2>1, <2>3, <2>4
  <2>6. QED
    BY <2>1, <2>2, <2>3, <2>5 DEF Good, Coherent
<1>4. Quiet' => Good(itable)'
  <2>1. ASSUME Quiet PROVE Good(itable)'
    <3>1. PICK tbl : tbl = itable
      OBVIOUS
    <3>2. Good(tbl)
      BY <2>1, <3>1 DEF KeepInv, KeepRest
    <3>3. QED
      BY <1>2, <3>1, <3>2 DEF Good, Coherent
  <2>2. QED
    BY <2>1 DEF Quiet
<1>5. \A t \in Threads : KeepFits(pc[t], loc[t])'
  BY DEF KeepFits, KeepInv, KeepRest
<1>6. QED
  BY <1>3, <1>4, <1>5 DEF KeepRest

(* An object that is found while a file of another name is written is      *)
(* none that the writing will change.                                      *)
LEMMA LookupKeep ==
    ASSUME OneCaller, NoClash, KeepInv, NEW n \in Names, Lookup(n)
    PROVE  KeepRest'
<1>1. PICK v \in FreeVnodes, i \in Inode \ {0}, dir \in DirReads, s \in Slot :
          /\ dentry' = [dentry EXCEPT ![n] = v]
          /\ vnode' = [vnode EXCEPT ![v] = [fo |-> itable[i], i_size |-> itable[i].size,
                                            idx |-> i]]
          /\ itable[i].name = n /\ dir[s] = i
  BY LookupFinds
<1>2. /\ dentry[n] = None /\ UNCHANGED <<itable, block, file, pc, loc>> /\ mounted
      /\ \A t \in Threads : loc[t].op \notin {"create", "unlink"}
  BY DEF Lookup, DirBusy, disk
<1>3. dentry \in [Names -> Vnodes \cup {None, Negative}] /\ vnode \in [Vnodes -> Vnode]
      /\ v \in Vnodes
  BY DEF KeepInv, CallInv, DirInv, TableInv, TypeInv, TypeOK, FreeVnodes
<1>4. block[0][s] = i
  BY <1>1, <1>2, RootRead DEF KeepInv, CallInv, DirInv, DirRest, RootKnown
<1>5. itable[i].first_block = i
  BY <1>1, ObjectAt DEF KeepInv, CallInv, DirInv
<1>6. \A m \in Names : dentry[m] # v
  BY DEF FreeVnodes, InCache
<1>7. ASSUME NEW t \in Threads, loc[t].op = "write"
      PROVE  /\ loc[t].v \in Vnodes \ {v} /\ vnode[loc[t].v].fo.name # n
  <2>1. loc[t].v \in Vnodes /\ InCache(loc[t].v)
    BY <1>7, WriterHolds, HeldCached DEF KeepInv, FreeVnodes
  <2>2. PICK m \in Names : dentry[m] = loc[t].v
    BY <2>1 DEF InCache
  <2>3. vnode[loc[t].v].fo.name = m /\ m # n
    BY <1>2, <2>1, <2>2, VnodesAssumption DEF KeepInv, CallInv, CallRest, NamesKept, Entry
  <2>4. QED
    BY <1>6, <2>1, <2>2, <2>3
<1>8. ASSUME NEW t \in Threads PROVE Settled(pc[t], loc[t])[i] = itable[i]
  <2>1. pc[t] \in {"us_read", "us_write"} => loc[t].op = "write"
    BY <1>2, CallLocals DEF LocalsFit, Loc
  <2>2. pc[t] # "cr_wtab"
    BY <1>2, CallLocals DEF LocalsFit, CreateLabels
  <2>3. pc[t] \in {"us_read", "us_write"} => UpdateOne(itable[i], StatOf(loc[t])) = itable[i]
    BY <1>1, <1>7, <2>1 DEF UpdateOne, StatOf
  <2>4. pc[t] = "us_write" => loc[t].tbl[i] = UpdateOne(itable[i], StatOf(loc[t]))
    BY CallLocals DEF CallFits, TableFits
  <2>5. QED
    BY <2>2, <2>3, <2>4 DEF Settled
<1>9. ASSUME NEW m \in Names, dentry'[m] \in Vnodes
      PROVE  \/ dentry[m] \in Vnodes /\ vnode'[dentry'[m]].fo = vnode[dentry[m]].fo
             \/ m = n /\ vnode'[dentry'[m]].fo = itable[i]
  <2>1. CASE m = n
    BY <1>1, <1>3, <2>1
  <2>2. CASE m # n
    BY <1>1, <1>3, <1>6, <1>9, <2>2
  <2>3. QED
    BY <2>1, <2>2
<1>10. \A t \in Threads : loc[t].op = "write" => vnode'[loc[t].v].fo = vnode[loc[t].v].fo
  BY <1>1, <1>3, <1>7
<1>11. QED
  BY <1>2, <1>4, <1>5, <1>8, <1>9, <1>10, KeepBeside

LEMMA OpenKeep ==
    ASSUME KeepInv, NEW fd \in Fds, NEW n \in Names, NEW app \in BOOLEAN,
           NEW trunc \in BOOLEAN, Open(fd, n, app, trunc)
    PROVE  KeepRest'
<1>1. dentry[n] \in Vnodes /\ UNCHANGED <<itable, block, dentry, pc, loc>>
  BY DEF Open, disk
<1>2. vnode \in [Vnodes -> Vnode]
  BY DEF KeepInv, CallInv, DirInv, TableInv, TypeInv, TypeOK
<1>3. \A w \in Vnodes : vnode'[w].fo = vnode[w].fo
  BY <1>1, <1>2 DEF Open, Vnode
<1>4. \A t \in Threads : loc[t].op \in {"write", "unlink"} => loc[t].v \in Vnodes
  BY CallLocals DEF LocalsFit
<1>5. QED
  BY <1>1, <1>3, <1>4, KeepBeside

LEMMA CloseReadKeep ==
    ASSUME KeepInv, NEW fd \in Fds, Close(fd) \/ Read(fd)
    PROVE  KeepRest'
<1>1. UNCHANGED <<itable, block, dentry, pc, loc>>
  BY DEF Close, Read, disk
<1>2. vnode' = vnode
  BY DEF Close, Read, Drop, OpenCached, KeepInv, CallInv, CallRest
<1>3. QED
  BY <1>1, <1>2, KeepBeside

LEMMA EvictKeep ==
    ASSUME KeepInv, NEW n \in Names, Evict(n)
    PROVE  KeepRest'
<1>1. /\ dentry' = [dentry EXCEPT ![n] = None] /\ vnode' = Drop(vnode, dentry[n], FALSE)
      /\ FdsOf(dentry[n]) = {} /\ ~\E t \in Threads : loc[t].name = n
      /\ UNCHANGED <<itable, block, file, pc, loc>>
  BY DEF Evict, disk
<1>2. /\ dentry \in [Names -> Vnodes \cup {None, Negative}] /\ vnode \in [Vnodes -> Vnode]
      /\ OneName
  BY DEF KeepInv, CallInv, DirInv, DirRest, TableInv, TypeInv, TypeOK
<1>3. \A w \in Vnodes : w # dentry[n] => vnode'[w] = vnode[w]
  BY <1>1, <1>2 DEF Drop
<1>4. ASSUME NEW m \in Names, dentry'[m] \in Vnodes
      PROVE  dentry'[m] = dentry[m] /\ vnode'[dentry[m]] = vnode[dentry[m]]
  <2>1. m # n /\ dentry'[m] = dentry[m]
    BY <1>1, <1>2, <1>4, VnodesAssumption
  <2>2. QED
    BY <1>2, <1>3, <1>4, <2>1 DEF OneName
<1>5. \A t \in Threads : loc[t].op = "write" => vnode'[loc[t].v] = vnode[loc[t].v]
  BY <1>1, <1>3, WriterHolds DEF KeepInv
<1>6. ASSUME NEW t \in Threads, loc[t].op = "unlink" PROVE vnode'[loc[t].v] = vnode[loc[t].v]
  <2>1. loc[t].v \in Vnodes /\ loc[t].name \in Names
    BY <1>6, CallLocals DEF LocalsFit
  <2>2. loc[t].v # dentry[n]
    BY <1>1, <1>2, <1>6, <2>1 DEF OneName, UnlinkName, KeepInv, CallInv, DirInv, DirRest
  <2>3. QED
    BY <1>3, <2>1, <2>2
<1>7. QED
  BY <1>1, <1>4, <1>5, <1>6, KeepBeside

LEMMA UnmountKeep ==
    ASSUME KeepInv, Unmount
    PROVE  KeepRest'
<1>1. Sound(block[0], itable)
  BY DEF Unmount, Quiet, Good, KeepInv, KeepRest
<1>2. /\ dentry' = [n \in Names |-> None] /\ pc' = [t \in Threads |-> "idle"]
      /\ loc' = [t \in Threads |-> NoLoc] /\ UNCHANGED <<itable, block>>
  BY DEF Unmount, MemoryLost, disk
<1>3. Good(itable)'
  BY <1>1, <1>2, VnodesAssumption DEF Good, Coherent
<1>4. \A t \in Threads : pc'[t] = "idle" /\ loc'[t] = NoLoc
  BY <1>2
<1>5. \A t \in Threads : Good(Settled(pc[t], loc[t]))'
  BY <1>3, <1>4 DEF Settled
<1>6. QED
  BY <1>2, <1>3, <1>4, <1>5, VnodesAssumption
  DEF KeepRest, KeepFits, NoLoc, StatLabels

LEMMA KeepInvStep ==
    ASSUME OneCaller, NoClash, MemoryKept, FilesKeptOpen, NoEmptyWrites,
           AllGoesWell, NoneCreatedAgain, KeepInv, [Next]_vars
    PROVE  KeepInv'
<1>1. CallInv'
  BY CallInvStep DEF KeepInv
<1> SUFFICES KeepRest'
  BY <1>1 DEF KeepInv
<1>2. CASE Call
  BY <1>1, <1>2, LookupKeep, OpenKeep, CloseReadKeep, CreateBeginKeep, BeginKeep DEF Call
<1>3. ASSUME NEW t \in Threads, Step(t) PROVE KeepRest'
  BY <1>1, <1>3, WriteBlockKeep, WriteSizeKeep, CreateReadsKeep, CreateWriteDirKeep,
     CreateWriteTableKeep, UnlinkReadDirKeep, UnlinkWriteDirKeep, UnlinkReturnKeep,
     StatReadTableKeep, StatWriteTableKeep, StatEndKeep, ReturnKeep
  DEF Step, Work
<1>4. ASSUME UNCHANGED <<itable, block, dentry, vnode, pc, loc>> PROVE KeepRest'
  BY <1>4, KeepBeside
<1>5. CASE Environment
  <2>1. ~Crash /\ ~\E v \in Vnodes : Recycled(v)
    BY DEF MemoryKept, Recycled, Crash, AllGoesWell
  <2>2. Mount => KeepRest'
    BY <1>4 DEF Mount, disk
  <2>3. QED
    BY <1>5, <2>1, <2>2, EvictKeep, UnmountKeep DEF Environment
<1>6. CASE UNCHANGED vars
  BY <1>4, <1>6 DEF vars
<1>7. QED
  BY <1>2, <1>3, <1>5, <1>6 DEF Next

LEMMA KeepInvInit == Init => KeepInv
<1> SUFFICES ASSUME Init PROVE KeepInv
  OBVIOUS
<1>1. CallInv
  BY CallInvInit
<1>2. /\ itable = FreshTable /\ block = [i \in Inode |-> ZeroBlock]
      /\ dentry = [n \in Names |-> None] /\ pc = [t \in Threads |-> "idle"]
      /\ loc = [t \in Threads |-> NoLoc]
  BY DEF Init
<1>3. \A s \in Slot : block[0][s] = 0
  BY <1>2, ObjectTypes DEF ZeroBlock
<1>4. \A i \in Inode \ {0} : itable[i].in_use = 0
  BY <1>2 DEF FreshTable, FreeObject
<1>5. Good(itable)
  BY <1>2, <1>3, <1>4, VnodesAssumption
  DEF Good, Sound, SlotsUsed, SlotsDiffer, TwinsAgree, RestEmpty, Coherent
<1>6. \A t \in Threads : pc[t] = "idle" /\ loc[t] = NoLoc
  BY <1>2
<1>7. \A t \in Threads : Good(Settled(pc[t], loc[t])) /\ KeepFits(pc[t], loc[t])
  BY <1>5, <1>6 DEF Settled, KeepFits, NoLoc, StatLabels
<1>8. QED
  BY <1>1, <1>2, <1>5, <1>7, VnodesAssumption DEF KeepInv, KeepRest
-----------------------------------------------------------------------------
(* At every step the directory on the disk, the table that the disk will   *)
(* hold when the call is over and the cached inodes fit together.          *)
THEOREM EverythingFits ==
    ASSUME OneCaller, NoClash, MemoryKept, FilesKeptOpen, NoEmptyWrites,
           AllGoesWell, NoneCreatedAgain
    PROVE  Spec => []KeepInv
<1>1. KeepInv /\ [Next]_vars => KeepInv'
  BY KeepInvStep
<1>2. QED
  BY <1>1, KeepInvInit, PTL DEF Spec

(* Between calls every slot of the directory is empty or leads to an       *)
(* object in use that no other slot leads to.                              *)
THEOREM DirectorySound ==
    ASSUME OneCaller, NoClash, MemoryKept, FilesKeptOpen, NoEmptyWrites,
           AllGoesWell, NoneCreatedAgain
    PROVE  Spec => []DirSound
<1>1. KeepInv => DirSound
  BY DEF KeepInv, KeepRest, Good, Sound, SlotsUsed, SlotsDiffer, DirSound
<1>2. QED
  BY <1>1, EverythingFits, PTL

(* When unlink returns success no slot of the directory leads to the name, *)
(* whatever else the table holds under it.                                 *)
THEOREM RemovedIsGone ==
    ASSUME OneCaller, NoClash, MemoryKept, FilesKeptOpen, NoEmptyWrites,
           AllGoesWell, NoneCreatedAgain
    PROVE  Spec => []UnlinkTakesEffect
<1>1. KeepInv => UnlinkTakesEffect
  BY DEF KeepInv, KeepRest, KeepFits, UnlinkTakesEffect, Visible
<1>2. QED
  BY <1>1, EverythingFits, PTL

(* Between calls a cached inode holds the size and the block that the      *)
(* table holds for its name.                                               *)
THEOREM CacheAgrees ==
    ASSUME OneCaller, NoClash, MemoryKept, FilesKeptOpen, NoEmptyWrites,
           AllGoesWell, NoneCreatedAgain
    PROVE  Spec => []CacheCoherent
<1>1. KeepInv => CacheCoherent
  <2> SUFFICES ASSUME KeepInv, Quiet, NEW n \in Names, dentry[n] \in Vnodes
               PROVE  \E s \in SlotsOf(block[0], itable, n) :
                         itable[block[0][s]] = vnode[dentry[n]].fo
    BY DEF CacheCoherent
  <2>1. Coherent(itable)
    BY DEF KeepInv, KeepRest, Good
  <2>2. ~Gone(n)
    BY DEF Gone, Quiet, StatLabels
  <2>3. PICK b \in Inode \ {0}, s \in Slot :
            itable[b] = vnode[dentry[n]].fo /\ itable[b].name = n /\ block[0][s] = b
    BY <2>1, <2>2, CachedObject
  <2>4. QED
    BY <2>3 DEF SlotsOf
<1>2. QED
  BY <1>1, EverythingFits, PTL

(* Between calls an object in use that no slot leads to is one of an empty *)
(* file, or of a file that has been made again.                            *)
THEOREM LeftoversAreEmpty ==
    ASSUME OneCaller, NoClash, MemoryKept, FilesKeptOpen, NoEmptyWrites,
           AllGoesWell, NoneCreatedAgain
    PROVE  Spec => []OnlyEmptyOnesStay
<1>1. KeepInv => OnlyEmptyOnesStay
  BY DEF KeepInv, KeepRest, Good, Sound, RestEmpty, OnlyEmptyOnesStay, Unnamed, Visible
<1>2. QED
  BY <1>1, EverythingFits, PTL
-----------------------------------------------------------------------------
(* The directory as somebody finds it who reads it beside a call. *)

(* An object that has a file's name keeps it until the call is over, but   *)
(* for one that unlink erases.                                             *)
LEMMA SettledNames ==
    ASSUME NoClash, KeepInv, NEW t \in Threads, NEW i \in Inode, itable[i].name \in Names
    PROVE  \/ Settled(pc[t], loc[t])[i].name = itable[i].name
           \/ /\ loc[t].op = "unlink" /\ loc[t].name = itable[i].name
              /\ pc[t] \in {"us_read", "us_write"}
<1> DEFINE fo == StatOf(loc[t])
<1>1. /\ CallFits(pc[t], loc[t]) /\ LocalsFit(pc[t], loc[t]) /\ loc[t] \in Loc
      /\ itable[i] \in FileObject
  BY CallLocals
<1>2. CASE pc[t] = "cr_wtab"
  <2>1. PICK j \in Inode : Adding(loc[t], j)
    BY <1>1, <1>2 DEF CallFits, CreateFits
  <2>2. loc[t].tbl[i] = itable[i]
    BY <2>1, NamesAssumption DEF Adding, FreeObject
  <2>3. QED
    BY <1>2, <2>2 DEF Settled
<1>3. CASE pc[t] \in {"us_read", "us_write"}
  <2>1. /\ fo \in FileObject /\ loc[t].op \in {"create", "write", "unlink"}
        /\ loc[t].op = "create" => fo = Root
        /\ loc[t].op = "write" => fo.size # 0
        /\ loc[t].op = "unlink" => fo.name = loc[t].name
    BY <1>1, <1>3, StatOfCall DEF KeepInv, LocalsFit, Loc
  <2>2. Settled(pc[t], loc[t])[i] = UpdateOne(itable[i], fo)
    BY <1>1, <1>3 DEF Settled, CallFits, TableFits
  <2> HIDE DEF fo
  <2>3. Root.size # 0
    BY SizesAssumption DEF Root
  <2>4. QED
    BY <1>1, <1>3, <2>1, <2>2, <2>3, UpdateFacts
<1>4. CASE pc[t] \notin {"cr_wtab", "us_read", "us_write"}
  BY <1>4 DEF Settled
<1>5. QED
  BY <1>2, <1>3, <1>4

(* No two slots lead to objects of one name, not even while the table is   *)
(* written.                                                                *)
LEMMA SlotOnly ==
    ASSUME NoClash, KeepInv, NEW n \in Names, NEW s \in SlotsOf(block[0], itable, n),
           NEW x \in SlotsOf(block[0], itable, n)
    PROVE  s = x
<1>1. /\ s \in Slot /\ block[0][s] \in Inode \ {0} /\ itable[block[0][s]].name = n
      /\ x \in Slot /\ block[0][x] \in Inode \ {0} /\ itable[block[0][x]].name = n
  BY DEF SlotsOf
<1>2. CASE Quiet
  BY <1>1, <1>2 DEF KeepInv, KeepRest, Good, Sound, SlotsDiffer
<1>3. ASSUME NEW t \in Threads PROVE s = x
  <2>1. SlotsDiffer(block[0], Settled(pc[t], loc[t])) /\ KeepFits(pc[t], loc[t])
    BY CallLocals DEF Good, Sound
  <2>2. ~(loc[t].op = "unlink" /\ loc[t].name = n /\ pc[t] \in {"us_read", "us_write"})
    BY <2>1 DEF KeepFits, StatLabels
  <2>3. QED
    BY <1>1, <2>1, <2>2, SettledNames DEF SlotsDiffer
<1>4. QED
  BY <1>2, <1>3 DEF Quiet

OneSlot == \A n \in Names : \A s, x \in SlotsOf(block[0], itable, n) : s = x

LEMMA OneSlotNext == ASSUME NoClash PROVE (KeepInv => OneSlot)'
<1>1. KeepInv => OneSlot
  BY SlotOnly DEF OneSlot
<1>2. QED
  BY <1>1, PTL

(* A slot that leads to a name leads to it as long as the name is visible. *)
LEMMA SlotStays ==
    ASSUME NoClash, MemoryKept, KeepInv, KeepInv', [Next]_vars, NEW n \in Names,
           NEW s \in SlotsOf(block[0], itable, n), Visible(n)'
    PROVE  SlotsOf(block[0], itable, n)' = {s}
<1>1. s \in Slot /\ block[0][s] \in Inode \ {0} /\ itable[block[0][s]].name = n
  BY DEF SlotsOf
<1>2. s \in SlotsOf(block[0], itable, n)'
  <2>1. CASE UNCHANGED <<itable, block>>
    BY <2>1
  <2>2. ASSUME NEW t \in Threads, CreateWriteDir(t) PROVE s \in SlotsOf(block[0], itable, n)'
    <3>1. rootfo = Root /\ CreateFits("cr_wdir", loc[t]) /\ block[0] \in Block
          /\ block \in [Inode -> Block] /\ 0 \in Inode
      BY <2>2, CallLocals, ObjectTypes
      DEF CreateWriteDir, CallFits, LocalsFit, CreateLabels, DirOps, KeepInv, CallInv, DirInv,
          TableInv, TypeInv, TypeOK
    <3>2. block'[0] = loc[t].buf /\ itable' = itable
      BY <2>2, <3>1 DEF CreateWriteDir, Root
    <3>3. block'[0][s] = block[0][s]
      BY <1>1, <3>1, <3>2 DEF CreateFits, Block
    <3>4. QED
      BY <1>1, <3>2, <3>3 DEF SlotsOf
  <2>3. ASSUME NEW t \in Threads, UnlinkWriteDir(t) PROVE s \in SlotsOf(block[0], itable, n)'
    <3>1. /\ rootfo = Root /\ UnlinkFits("ul_wdir", loc[t]) /\ loc[t].op = "unlink"
          /\ loc[t] \in Loc /\ block[0] \in Block /\ block \in [Inode -> Block] /\ 0 \in Inode
      BY <2>3, CallLocals, ObjectTypes
      DEF UnlinkWriteDir, CallFits, LocalsFit, UnlinkLabels, DirOps, KeepInv, CallInv, DirInv,
          TableInv, TypeInv, TypeOK
    <3>2. block'[0] = loc[t].buf /\ itable' = itable
      BY <2>3, <3>1 DEF UnlinkWriteDir, Root
    <3>3. PICK x \in Slot : /\ block[0][x] = loc[t].blk
                            /\ loc[t].buf = [block[0] EXCEPT ![x] = 0]
                            /\ itable[loc[t].blk].name = loc[t].name
      BY <3>1 DEF UnlinkFits, UnlinkLabels
    <3>4. loc[t].name # n
      <4>1. pc'[t] = "us_read" /\ loc'[t].op = "unlink" /\ loc'[t].name = loc[t].name
        BY <2>3, <3>1, MoveEffect
        DEF UnlinkWriteDir, KeepInv, CallInv, DirInv, TableInv, Loc
      <4>2. KeepFits(pc[t], loc[t])'
        BY DEF KeepInv, KeepRest
      <4>3. QED
        BY <4>1, <4>2 DEF KeepFits, StatLabels, Visible
    <3>5. x # s
      BY <1>1, <3>3, <3>4
    <3>6. QED
      BY <1>1, <3>1, <3>2, <3>3, <3>5 DEF SlotsOf, Block
  <2>4. ASSUME NEW t \in Threads, CreateWriteTable(t) PROVE s \in SlotsOf(block[0], itable, n)'
    <3>1. CreateFits("cr_wtab", loc[t])
      BY <2>4, CallLocals DEF CreateWriteTable, CallFits
    <3>2. PICK i \in Inode : Adding(loc[t], i)
      BY <3>1 DEF CreateFits
    <3>3. \A j \in Inode : itable[j].name = n => itable'[j] = itable[j]
      BY <2>4, <3>2, NamesAssumption DEF CreateWriteTable, Adding, CopyCluster, FreeObject
    <3>4. QED
      BY <1>1, <2>4, <3>3 DEF CreateWriteTable, SlotsOf
  <2>5. ASSUME NEW t \in Threads, StatWriteTable(t) PROVE s \in SlotsOf(block[0], itable, n)'
    <3>1. ~(loc[t].op = "unlink" /\ loc[t].name = n)
      <4>1. pc[t] = "us_write" /\ KeepFits("us_write", loc[t])
        BY <2>5, CallLocals DEF StatWriteTable
      <4>2. QED
        BY <4>1 DEF KeepFits, StatLabels
    <3>2. itable'[block[0][s]].name = n
      BY <1>1, <2>5, <3>1, StatNames DEF KeepInv
    <3>3. QED
      BY <1>1, <2>5, <3>2 DEF StatWriteTable, SlotsOf
  <2>6. CASE block'[0] = block[0] /\ itable' = itable
    BY <2>6 DEF SlotsOf
  <2>7. QED
    BY <2>2, <2>3, <2>4, <2>5, <2>6, DirWritten, TableWritten DEF KeepInv, CallInv
<1>3. OneSlot'
  BY OneSlotNext
<1>4. QED
  BY <1>2, <1>3 DEF OneSlot

(* While nobody creates or removes, every slot in use leads to an object   *)
(* with a name, though a write may be rewriting the table.                 *)
LEMMA SlotLeads ==
    ASSUME NoClash, KeepInv, ~DirBusy, NEW s \in Slot, block[0][s] # 0
    PROVE  block[0][s] \in Inode \ {0} /\ itable[block[0][s]].name \in Names
<1> DEFINE i == block[0][s]
<1>1. i \in Inode /\ itable[i].in_use = 1
  <2>1. CASE Quiet
    BY <2>1 DEF KeepInv, KeepRest, Good, Sound, SlotsUsed
  <2>2. ASSUME NEW t \in Threads PROVE i \in Inode /\ itable[i].in_use = 1
    <3>1. /\ SlotsUsed(block[0], Settled(pc[t], loc[t])) /\ CallFits(pc[t], loc[t])
          /\ LocalsFit(pc[t], loc[t])
      BY CallLocals DEF Good, Sound
    <3>2. pc[t] # "cr_wtab"
      BY <3>1 DEF LocalsFit, CreateLabels, DirBusy
    <3>3. Settled(pc[t], loc[t])[i].in_use = 1 /\ i \in Inode
      BY <3>1 DEF SlotsUsed
    <3>4. Settled(pc[t], loc[t])[i] \in {itable[i], UpdateOne(itable[i], StatOf(loc[t]))}
      BY <3>1, <3>2, <3>3 DEF Settled, CallFits, TableFits
    <3>5. UpdateOne(itable[i], StatOf(loc[t])).in_use = 1 => itable[i].in_use = 1
      BY DEF UpdateOne, FreeObject
    <3>6. QED
      BY <3>3, <3>4, <3>5
  <2>3. QED
    BY <2>1, <2>2 DEF Quiet
<1>2. itable[i] \in FileObject /\ (i # 0 => SoundObject(itable[i], i))
  BY <1>1 DEF KeepInv, CallInv, DirInv, TableInv, TableRest, SoundTable, TypeInv, TypeOK
<1>3. QED
  BY <1>1, <1>2 DEF SoundObject, FreeObject

(* Nor does such a write change a name or the directory.                   *)
LEMMA NamesSteady ==
    ASSUME NoClash, MemoryKept, KeepInv, [Next]_vars, ~DirBusy
    PROVE  block'[0] = block[0] /\ \A i \in Inode : itable'[i].name = itable[i].name
<1>1. \A t \in Threads : loc[t].op \notin {"create", "unlink"} /\ LocalsFit(pc[t], loc[t])
  BY CallLocals DEF DirBusy
<1>2. \A t \in Threads : ~(CreateWriteDir(t) \/ UnlinkWriteDir(t) \/ CreateWriteTable(t))
  BY <1>1 DEF LocalsFit, CreateLabels, UnlinkLabels, CreateWriteDir, UnlinkWriteDir,
     CreateWriteTable
<1>3. block'[0] = block[0]
  BY <1>2, DirWritten DEF KeepInv, CallInv
<1>4. \A i \in Inode : itable'[i].name = itable[i].name
  BY <1>1, <1>2, TableWritten, StatNames DEF KeepInv
<1>5. QED
  BY <1>3, <1>4
=============================================================================
