--------------------------- MODULE ReadDirProofs ----------------------------
(***************************************************************************)
(* A listing beside the handlers of YukiFS disturbs none of them, so what  *)
(* is proved of YukiFS holds beside it; and its own variables keep their   *)
(* types, for every number of threads, files, blocks and slots.            *)
(***************************************************************************)
EXTENDS ReadDir, YukiFSKeeps

(* Every step of ListSpec is a step of YukiFS or leaves it as it was. *)
LEMMA ListStepBeside == [ListNext]_lvars => [Next]_vars
<1> SUFFICES ASSUME [ListNext]_lvars PROVE [Next]_vars
  OBVIOUS
<1>1. CASE List
  <2>1. UNCHANGED vars
    BY <1>1 DEF List, Getdents, ListOpen, ListClose, ListBegin, ListTable, ListDir, ListFails
  <2>2. QED
    BY <2>1
<1>2. CASE Beside
  <2>1. Call \/ (\E t \in Threads : Step(t)) \/ Environment
    BY <1>2 DEF Beside, Environment
  <2>2. QED
    BY <2>1 DEF Next
<1>3. CASE Volume
  <2>1. Environment
    BY <1>3 DEF Volume, Environment
  <2>2. QED
    BY <2>1 DEF Next
<1>4. CASE UNCHANGED lvars
  BY <1>4 DEF lvars
<1>5. QED
  BY <1>1, <1>2, <1>3, <1>4 DEF ListNext

LEMMA ListBeside == ListSpec => Spec
<1>1. ListInit => Init
  BY DEF ListInit
<1>2. QED
  BY <1>1, ListStepBeside, PTL DEF ListSpec, Spec

(* The root's file object stays intact beside a listing. *)
THEOREM RootIntactBeside == ASSUME NoClash PROVE ListSpec => []RootIntact
BY ListBeside, RootStaysIntact, PTL
-----------------------------------------------------------------------------
LEMMA NamesTyped ==
    ASSUME TypeOK PROVE \A i \in Inode : itable[i].name \in FileName
BY DEF TypeOK, FileObject

LEMMA NothingTypes ==
    /\ NoNames \in [Inode -> FileName]
    /\ NothingGot \in [FileName -> 0 .. W + 1]
    /\ 0 \in 0 .. W /\ 0 \in Clusters
<1>1. NoName \in FileName /\ 0 \in 0 .. W + 1 /\ 0 \in 0 .. W
  BY SizesAssumption DEF FileName
<1>2. LastCluster \in Nat
  BY SizesAssumption DEF LastCluster
<1>3. QED
  BY <1>1, <1>2 DEF NoNames, NothingGot, Clusters

(* The count of a name stays a number up to W + 1. *)
LEMMA HandOutTypes ==
    ASSUME lgot \in [FileName -> 0 .. W + 1], NEW f, NEW S \in SUBSET Slot, HandOut(f, S)
    PROVE  lgot' \in [FileName -> 0 .. W + 1]
<1>1. \A n \in FileName : Cardinality({s \in S : f[s] = n}) \in Nat
  <2> SUFFICES ASSUME NEW n \in FileName
               PROVE  Cardinality({s \in S : f[s] = n}) \in Nat
    OBVIOUS
  <2>1. IsFiniteSet(Slot)
    BY FS_Interval, SizesAssumption DEF Slot
  <2>2. IsFiniteSet({s \in S : f[s] = n})
    BY <2>1, FS_Subset
  <2>3. QED
    BY <2>2, FS_CardinalityType
<1> DEFINE Got(n) == lgot[n] + Cardinality({s \in S : f[s] = n})
<1>2. \A n \in FileName : Got(n) \in Nat
  BY <1>1, SizesAssumption
<1>3. lgot' = [n \in FileName |-> IF Got(n) > W THEN W + 1 ELSE Got(n)]
  BY DEF HandOut
<1> HIDE DEF Got
<1>4. QED
  BY <1>2, <1>3, SizesAssumption

LEMMA DirTypes ==
    ASSUME ListTypeOK, ListDir PROVE ListTypeOK'
<1>1. PICK dir \in DirReads : \E f \in NamesFor(dir) : ListRest(dir, f) \/ ListSome(dir, f)
  BY DEF ListDir
<1>2. PICK f \in NamesFor(dir) : ListRest(dir, f) \/ ListSome(dir, f)
  BY <1>1
<1>3. \A q : Passed(dir, q) \in SUBSET Slot
  BY DEF Passed
<1>4. lpos' \in 0 .. W /\ lpc' \in ListLabels /\ lgot' \in [FileName -> 0 .. W + 1]
  <2>1. CASE ListRest(dir, f)
    <3>1. lgot' \in [FileName -> 0 .. W + 1]
      BY <1>3, <2>1, HandOutTypes DEF ListRest, ListTypeOK
    <3>2. QED
      BY <2>1, <3>1, SizesAssumption DEF ListRest, ListLabels
  <2>2. CASE ListSome(dir, f)
    <3>1. PICK s \in Passed(dir, W) :
             /\ HandOut(f, Passed(dir, s))
             /\ lpos' = RefusedAt(s)
             /\ lpc' = IF Passed(dir, s) = {} THEN "stuck" ELSE "idle"
      BY <2>2 DEF ListSome
    <3>2. lgot' \in [FileName -> 0 .. W + 1]
      BY <1>3, <3>1, HandOutTypes DEF ListTypeOK
    <3>3. s \in 0 .. W
      BY <1>3, SizesAssumption DEF Slot
    <3>4. QED
      BY <3>1, <3>2, <3>3 DEF RefusedAt, ListLabels
  <2>3. QED
    BY <1>2, <2>1, <2>2
<1>5. QED
  BY <1>4, NothingTypes DEF ListDir, ListTypeOK

LEMMA ListTypesStep == TypeOK /\ ListTypeOK /\ [ListNext]_lvars => ListTypeOK'
<1> SUFFICES ASSUME TypeOK, ListTypeOK, [ListNext]_lvars PROVE ListTypeOK'
  OBVIOUS
<1>1. CASE ListOpen
  BY <1>1, NothingTypes DEF ListOpen, ListTypeOK, ListLabels, VisibleNames
<1>2. CASE ListClose
  BY <1>2, NothingTypes DEF ListClose, ListTypeOK, ListLabels
<1>3. CASE ListBegin
  BY <1>3 DEF ListBegin, ListTypeOK, ListLabels, position
<1>4. CASE ListTable
  <2>1. ltbl' \in [Inode -> FileName]
    BY <1>4, NamesTyped DEF ListTable, ListTypeOK
  <2>2. lk' \in Clusters /\ lpc' \in ListLabels
    <3>1. LastCluster \in Nat /\ lk \in Nat
      BY SizesAssumption DEF LastCluster, ListTypeOK, Clusters
    <3>2. QED
      BY <1>4, <3>1 DEF ListTable, ListTypeOK, Clusters, ListLabels
  <2>3. QED
    BY <1>4, <2>1, <2>2 DEF ListTable, ListTypeOK, position
<1>5. CASE ListDir
  BY <1>5, DirTypes
<1>6. CASE ListFails
  BY <1>6, NothingTypes DEF ListFails, ListTypeOK, ListLabels, position
<1>7. CASE Beside
  BY <1>7 DEF Beside, ListTypeOK, position
<1>8. CASE Volume
  BY <1>8 DEF Volume, listing, ListTypeOK
<1>9. CASE UNCHANGED lvars
  BY <1>9 DEF lvars, listing, ListTypeOK
<1>10. QED
  BY <1>1, <1>2, <1>3, <1>4, <1>5, <1>6, <1>7, <1>8, <1>9 DEF ListNext, List, Getdents

(* The variables of a listing keep their types: its position never leaves  *)
(* the directory, and no count of blocks the table, whatever the others do *)
(* to both meanwhile.                                                      *)
THEOREM ListTypeCorrect == ListSpec => []ListTypeOK
<1>1. ListInit => ListTypeOK
  BY NothingTypes DEF ListInit, ListTypeOK, ListLabels
<1>2. ListSpec => []TypeOK
  BY ListBeside, TypeCorrect, PTL
<1>3. QED
  BY <1>1, <1>2, ListTypesStep, PTL DEF ListSpec
-----------------------------------------------------------------------------
(* What a listing has handed out fits its position, and what it has read   *)
(* of the table fits the disk: nobody creates or removes during a call.    *)
ListKept ==
    /\ lpc # "closed" => mounted
    /\ lpc # "table" => lk = 0
    /\ lpc = "end" => lpos = W
    /\ lpc # "stuck"
    /\ Listing => ~DirBusy
    /\ Listing => \A i \in Inode :
                     lpc = "dir" \/ ClusterOf(i) < lk => ltbl[i] = itable[i].name
    /\ \A n \in lstay : Visible(n)
    /\ \A n \in lstay : \A s \in SlotsOf(block[0], itable, n) :
          lgot[n] = IF s < lpos THEN 1 ELSE 0
ListInv == KeepInv /\ ListTypeOK /\ ListKept

(* An entry that the listing comes to.                                     *)
LEMMA EntryRead ==
    ASSUME NoClash, ListInv, lpc = "dir", NEW dir \in DirReads, NEW f \in NamesFor(dir)
    PROVE  /\ dir = block[0]
           /\ \A s \in Slot : dir[s] # 0 =>
                 /\ f[s] \in Names
                 /\ \A n \in Names : f[s] = n <=> s \in SlotsOf(block[0], itable, n)
<1>1. rootfo = Root
  BY DEF ListInv, ListKept, KeepInv, CallInv, DirInv, DirRest, RootKnown
<1>2. dir = block[0]
  BY <1>1, RootRead
<1>3. ASSUME NEW s \in Slot, dir[s] # 0
      PROVE  /\ f[s] \in Names
             /\ \A n \in Names : f[s] = n <=> s \in SlotsOf(block[0], itable, n)
  <2>1. block[0][s] \in Inode \ {0} /\ itable[block[0][s]].name \in Names
    BY <1>2, <1>3, SlotLeads DEF ListInv, ListKept, Listing
  <2>2. f[s] = itable[block[0][s]].name
    BY <1>2, <2>1 DEF NamesFor, ListInv, ListKept, Listing
  <2>3. QED
    BY <2>1, <2>2 DEF SlotsOf
<1>4. QED
  BY <1>2, <1>3

(* Handing out the entries up to slot q.                                   *)
LEMMA HandedOut ==
    ASSUME NoClash, ListInv, lpc = "dir", NEW dir \in DirReads, NEW f \in NamesFor(dir),
           NEW q \in 0 .. W, lpos <= q, HandOut(f, Passed(dir, q)), NEW n \in lstay,
           NEW s \in SlotsOf(block[0], itable, n)
    PROVE  lgot'[n] = IF s < q THEN 1 ELSE 0
<1> DEFINE here == {x \in Passed(dir, q) : f[x] = n}
<1>1. n \in Names /\ n \in FileName /\ lpos \in Nat /\ s \in Slot /\ s \in Nat /\ q \in Nat
  BY SizesAssumption DEF ListInv, ListTypeOK, SlotsOf, FileName, Slot
<1>2. dir[s] # 0 /\ \A x \in Slot : dir[x] # 0 /\ f[x] = n => x \in SlotsOf(block[0], itable, n)
  BY <1>1, EntryRead DEF SlotsOf
<1>3. \A x \in here : x = s
  BY <1>1, <1>2, SlotOnly DEF Passed, ListInv
<1>4. s \in here <=> lpos <= s /\ s < q
  BY <1>1, <1>2, EntryRead DEF Passed
<1>5. lgot[n] = IF s < lpos THEN 1 ELSE 0
  BY DEF ListInv, ListKept
<1>6. W \in Nat /\ W >= 1
  BY SizesAssumption
<1>7. lgot'[n] = LET got == lgot[n] + Cardinality(here) IN IF got > W THEN W + 1 ELSE got
  BY <1>1 DEF HandOut
<1> HIDE DEF here
<1>8. CASE lpos <= s /\ s < q
  <2>1. Cardinality(here) = 1
    <3>1. here = {s}
      BY <1>3, <1>4, <1>8
    <3>2. QED
      BY <3>1, FS_Singleton
  <2>2. QED
    BY <1>1, <1>5, <1>6, <1>7, <1>8, <2>1
<1>9. CASE ~(lpos <= s /\ s < q)
  <2>1. Cardinality(here) = 0
    <3>1. here = {}
      BY <1>3, <1>4, <1>9
    <3>2. QED
      BY <3>1, FS_EmptySet
  <2>2. QED
    BY <1>1, <1>5, <1>6, <1>7, <1>9, <2>1
<1>10. QED
  BY <1>8, <1>9

LEMMA ListDirKept ==
    ASSUME NoClash, ListInv, ListDir
    PROVE  ListKept'
<1>1. PICK dir \in DirReads : \E f \in NamesFor(dir) : ListRest(dir, f) \/ ListSome(dir, f)
  BY DEF ListDir
<1>0. PICK f \in NamesFor(dir) : ListRest(dir, f) \/ ListSome(dir, f)
  BY <1>1
<1>2. lpc = "dir" /\ UNCHANGED <<vars, lk, lstay>>
  BY DEF ListDir
<1>3. W \in Nat /\ lpos \in 0 .. W
  BY SizesAssumption DEF ListInv, ListTypeOK
<1>4. PICK q \in 0 .. W : /\ lpos <= q /\ HandOut(f, Passed(dir, q)) /\ lpos' = q
                          /\ lpc' = "idle" \/ (lpc' = "end" /\ q = W)
  <2>1. CASE ListRest(dir, f)
    BY <1>3, <2>1 DEF ListRest
  <2>2. CASE ListSome(dir, f)
    <3>1. PICK s \in Passed(dir, W) :
              /\ f[s] = NoName \/ Passed(dir, s) # {}
              /\ HandOut(f, Passed(dir, s)) /\ lpos' = s
              /\ lpc' = IF Passed(dir, s) = {} THEN "stuck" ELSE "idle"
      BY <2>2 DEF ListSome, RefusedAt
    <3>2. s \in Slot /\ dir[s] # 0 /\ lpos <= s /\ s \in 0 .. W
      BY <1>3 DEF Passed, Slot
    <3>3. f[s] # NoName
      BY <1>2, <3>2, EntryRead, NamesAssumption
    <3>4. QED
      BY <3>1, <3>2, <3>3
  <2>3. QED
    BY <1>0, <2>1, <2>2
<1>5. \A n \in lstay : \A s \in SlotsOf(block[0], itable, n) :
         lgot'[n] = IF s < lpos' THEN 1 ELSE 0
  BY <1>2, <1>4, HandedOut
<1>6. UNCHANGED <<block, itable, mounted, lk, lstay>>
  BY <1>2 DEF vars
<1>7. \A n \in lstay : Visible(n)'
  BY <1>6 DEF Visible, ListInv, ListKept
<1>8. QED
  BY <1>2, <1>4, <1>5, <1>6, <1>7 DEF ListKept, ListInv, Listing

LEMMA ListBesideKept ==
    ASSUME NoClash, MemoryKept, ListInv, KeepInv', Beside
    PROVE  ListKept'
<1>1. /\ lstay' = lstay \cap VisibleNames' /\ UNCHANGED <<lpc, lk, ltbl, position>>
      /\ Listing => ~DirBusy'
      /\ lpos' = lpos /\ lgot' = lgot
  BY DEF Beside, position
<1>2. [Next]_vars
  BY ListStepBeside DEF ListNext
<1>3. \A n \in lstay' : n \in lstay /\ Visible(n)' /\ n \in Names
  BY <1>1 DEF VisibleNames
<1>4. ASSUME NEW n \in lstay', NEW s \in SlotsOf(block[0], itable, n)'
      PROVE  lgot'[n] = IF s < lpos' THEN 1 ELSE 0
  <2>1. PICK x : x \in SlotsOf(block[0], itable, n)
    BY <1>3 DEF ListInv, ListKept, Visible
  <2>2. s = x
    BY <1>2, <1>3, <1>4, <2>1, SlotStays DEF ListInv
  <2>3. QED
    BY <1>1, <1>3, <2>1, <2>2 DEF ListInv, ListKept
<1>5. mounted' = mounted
  <2>1. CASE Call
    BY <2>1 DEF Call, Lookup, Open, Close, Read, WriteBegin, CreateBegin, UnlinkBegin, memory
  <2>2. CASE \E t \in Threads : Step(t)
    BY <2>2
    DEF Step, Work, WriteBlock, WriteSize, WriteReturn, CreateReadTable, CreateReadDir,
        CreateNoSpace, CreateWriteDir, CreateWriteTable, CreateReturn, UnlinkReadDir,
        UnlinkNoEntry, UnlinkWriteDir, UnlinkReturn, StatReadTable, StatWriteTable,
        StatReset, StatCount, StatWriteSuper, NoBlocks, OpFails, StatFails, memory
  <2>3. CASE \E n \in Names : Evict(n) \/ \E v \in Vnodes : Recycled(v)
    BY <2>3 DEF Evict, Recycled
  <2>4. QED
    BY <2>1, <2>2, <2>3 DEF Beside
<1>6. Listing => \A i \in Inode : itable'[i].name = itable[i].name
  BY <1>2, NamesSteady DEF ListInv, ListKept
<1>7. Listing' <=> Listing
  BY <1>1 DEF Listing
<1>8. Listing => \A i \in Inode :
                    lpc' = "dir" \/ ClusterOf(i) < lk' => ltbl'[i] = itable'[i].name
  BY <1>1, <1>6 DEF ListInv, ListKept
<1>9. QED
  BY <1>1, <1>3, <1>4, <1>5, <1>7, <1>8 DEF ListKept, ListInv

LEMMA ListKeptStep ==
    ASSUME NoClash, MemoryKept, ListInv, KeepInv', [ListNext]_lvars
    PROVE  ListKept'
<1>1. ASSUME UNCHANGED vars
      PROVE  /\ UNCHANGED <<block, itable, mounted>> /\ \A n : Visible(n)' <=> Visible(n)
             /\ DirBusy' <=> DirBusy
  BY <1>1 DEF vars, Visible, DirBusy
<1>2. CASE ListOpen
  <2>1. \A n \in lstay' : Visible(n) /\ n \in FileName
    BY <1>2 DEF ListOpen, VisibleNames, FileName
  <2>2. \A n \in lstay' : \A s \in SlotsOf(block[0], itable, n) : ~(s < 0)
    BY DEF SlotsOf, Slot
  <2>3. UNCHANGED <<vars, lk, ltbl>> /\ mounted /\ lpc = "closed" /\ lpc' = "idle" /\ lpos' = 0
        /\ lgot' = NothingGot
    BY <1>2 DEF ListOpen
  <2>4. \A n \in lstay' : lgot'[n] = 0
    BY <2>1, <2>3 DEF NothingGot
  <2>5. UNCHANGED <<block, itable, mounted>> /\ \A n : Visible(n)' <=> Visible(n)
    BY <1>1, <2>3
  <2>6. QED
    BY <2>1, <2>2, <2>3, <2>4, <2>5 DEF ListKept, ListInv, Listing
<1>3. CASE ListClose
  BY <1>1, <1>3 DEF ListClose, ListKept, ListInv, Listing
<1>4. CASE ListBegin
  <2>1. rootfo.size = W /\ lpos \in 0 .. W /\ W \in Nat
    BY <1>4, SizesAssumption
    DEF ListBegin, ListInv, ListKept, ListTypeOK, KeepInv, CallInv, DirInv, DirRest, RootKnown, Root
  <2>2. \A i \in Inode : ~(ClusterOf(i) < 0)
    BY ClusterBound
  <2>3. QED
    BY <1>1, <1>4, <2>1, <2>2 DEF ListBegin, ListKept, ListInv, Listing, position
<1>5. CASE ListTable
  <2>1. /\ UNCHANGED <<vars, position, lstay>> /\ lpc = "table"
        /\ \A i \in Inode : ltbl'[i] = IF ClusterOf(i) = lk THEN itable[i].name ELSE ltbl[i]
        /\ IF lk < LastCluster THEN lk' = lk + 1 /\ lpc' = lpc ELSE lk' = 0 /\ lpc' = "dir"
    BY <1>5 DEF ListTable
  <2>2. lk \in Nat /\ lk <= LastCluster /\ LastCluster \in Nat
    BY ObjectTypes DEF ListInv, ListTypeOK, Clusters
  <2>3. ASSUME NEW i \in Inode, lpc' = "dir" \/ ClusterOf(i) < lk'
        PROVE  ltbl'[i] = itable[i].name
    <3>1. ClusterOf(i) \in Nat /\ ClusterOf(i) <= LastCluster
      BY ClusterBound
    <3>2. ClusterOf(i) = lk \/ ClusterOf(i) < lk
      BY <2>1, <2>2, <2>3, <3>1
    <3>3. QED
      BY <2>1, <3>2 DEF ListInv, ListKept, Listing
  <2>4. Listing' /\ Listing
    BY <2>1 DEF Listing
  <2>5. QED
    BY <1>1, <2>1, <2>3, <2>4 DEF ListKept, ListInv, Listing, position
<1>6. CASE ListDir
  BY <1>6, ListDirKept
<1>7. CASE ListFails
  BY <1>1, <1>7 DEF ListFails, ListKept, ListInv, Listing, position
<1>8. CASE Beside
  BY <1>8, ListBesideKept
<1>9. CASE Volume
  <2>1. UNCHANGED <<block, itable>> /\ lpc = "closed" /\ UNCHANGED listing
    BY <1>9 DEF Volume, Mount, Unmount, Crash, MemoryLost, disk
  <2>2. QED
    BY <2>1 DEF ListKept, ListInv, Listing, listing, Visible
<1>10. CASE UNCHANGED lvars
  BY <1>1, <1>10 DEF lvars, listing, ListKept, ListInv, Listing
<1>11. QED
  BY <1>2, <1>3, <1>4, <1>5, <1>6, <1>7, <1>8, <1>9, <1>10 DEF ListNext, List, Getdents

LEMMA ListKeptInit == ListInit => ListKept
BY DEF ListInit, ListKept, Listing

(* At every step of a listing, beside whatever one caller does, each name  *)
(* that was there all along has been handed out once if its slot is behind *)
(* the position, and not yet if it is not.                                 *)
THEOREM ListingFits ==
    ASSUME OneCaller, NoClash, MemoryKept, FilesKeptOpen, NoEmptyWrites,
           AllGoesWell, NoneCreatedAgain
    PROVE  ListSpec => []ListInv
<1>1. ListSpec => [](KeepInv /\ ListTypeOK)
  BY ListBeside, EverythingFits, ListTypeCorrect, PTL
<1>2. KeepInv /\ ListTypeOK /\ KeepInv' /\ ListKept /\ [ListNext]_lvars => ListKept'
  BY ListKeptStep DEF ListInv
<1>3. QED
  BY <1>1, <1>2, ListKeptInit, PTL DEF ListSpec, ListInv

(* However the calls of getdents cut the directory up, and whatever is     *)
(* created and removed between them, a file that is there throughout is    *)
(* listed, and once, in directories of any size (file.c 141-168).  That    *)
(* the directory has one entry for each name is what the hypotheses give:  *)
(* a name that is created again while it is there is listed twice.         *)
THEOREM EachListedOnce ==
    ASSUME OneCaller, NoClash, MemoryKept, FilesKeptOpen, NoEmptyWrites,
           AllGoesWell, NoneCreatedAgain
    PROVE  ListSpec => []ListedOnce
<1>1. ListInv => ListedOnce
  <2> SUFFICES ASSUME ListInv, NEW n \in lstay
               PROVE  lgot[n] <= 1 /\ (lpc = "end" => lgot[n] = 1)
    BY DEF ListedOnce
  <2>1. PICK s : s \in SlotsOf(block[0], itable, n) /\ lgot[n] = IF s < lpos THEN 1 ELSE 0
    BY DEF ListInv, ListKept, Visible
  <2>2. lpc = "end" => s < lpos
    BY <2>1, SizesAssumption DEF ListInv, ListKept, SlotsOf, Slot
  <2>3. QED
    BY <2>1, <2>2
<1>2. QED
  BY <1>1, ListingFits, PTL

(* No listing comes to an entry without a name, which it could not hand    *)
(* out, so none stops before its end, under the same hypotheses: a name    *)
(* with two entries leaves one without a name when it is removed.          *)
THEOREM ListingGoesOn ==
    ASSUME OneCaller, NoClash, MemoryKept, FilesKeptOpen, NoEmptyWrites,
           AllGoesWell, NoneCreatedAgain
    PROVE  ListSpec => []ListNotStuck
<1>1. ListInv => ListNotStuck
  BY DEF ListInv, ListKept, ListNotStuck
<1>2. QED
  BY <1>1, ListingFits, PTL

(* No listing hands out a name that has no file at that moment, though the *)
(* name comes from a table that was read before the directory.             *)
THEOREM ListedAreThere ==
    ASSUME OneCaller, NoClash, MemoryKept, FilesKeptOpen, NoEmptyWrites,
           AllGoesWell, NoneCreatedAgain
    PROVE  ListSpec => ListedExists
<1>1. ASSUME ListInv, [ListNext]_lvars, NEW n \in FileName, lgot'[n] > lgot[n]
      PROVE  n \in Names /\ Visible(n)
  <2>1. lgot \in [FileName -> 0 .. W + 1] /\ W \in Nat
    BY <1>1, SizesAssumption DEF ListInv, ListTypeOK
  <2>2. lgot' # NothingGot /\ lgot' # lgot
    <3>1. lgot[n] \in Nat /\ NothingGot[n] = 0
      BY <2>1 DEF NothingGot
    <3>2. ~(0 > lgot[n]) /\ ~(lgot[n] > lgot[n])
      BY <3>1
    <3>3. QED
      BY <1>1, <3>1, <3>2
  <2>3. ListDir
    BY <1>1, <2>2
    DEF ListNext, List, Getdents, ListOpen, ListClose, ListBegin, ListTable, ListFails,
        Beside, Volume, position, listing, lvars
  <2>4. PICK dir \in DirReads : \E f \in NamesFor(dir) : \E q : HandOut(f, Passed(dir, q))
    BY <2>3 DEF ListDir, ListRest, ListSome
  <2>8. PICK f \in NamesFor(dir) : \E q : HandOut(f, Passed(dir, q))
    BY <2>4
  <2>9. PICK q : HandOut(f, Passed(dir, q))
    BY <2>8
  <2>5. {x \in Passed(dir, q) : f[x] = n} # {}
    <3>1. SUFFICES ASSUME {x \in Passed(dir, q) : f[x] = n} = {} PROVE FALSE
      OBVIOUS
    <3>2. Cardinality({x \in Passed(dir, q) : f[x] = n}) = 0
      BY <3>1, FS_EmptySet
    <3>3. lgot'[n] = LET got == lgot[n] + 0 IN IF got > W THEN W + 1 ELSE got
      BY <2>9, <3>2 DEF HandOut
    <3>4. lgot[n] \in 0 .. W + 1
      BY <2>1
    <3>5. QED
      BY <1>1, <2>1, <3>3, <3>4
  <2>6. PICK x \in Passed(dir, q) : f[x] = n
    BY <2>5
  <2>7. QED
    BY <1>1, <2>3, <2>6, EntryRead DEF Passed, ListDir, Visible
<1>2. ListInv /\ [ListNext]_lvars =>
        [\A n \in FileName : lgot'[n] > lgot[n] => n \in Names /\ Visible(n)]_lvars
  BY <1>1
<1>3. QED
  BY <1>2, ListingFits, PTL DEF ListSpec, ListedExists
=============================================================================
