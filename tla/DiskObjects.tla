---------------------------- MODULE DiskObjects ----------------------------
(***************************************************************************)
(* What lies on a YukiFS volume once mkfs is done, and the pure            *)
(* computations the kernel module makes on it: the inode table is an array *)
(* of N file objects, stored PerBlock to a block, and every inode owns the *)
(* one data block that has its own index.  Block 0 belongs to inode 0, the *)
(* root directory, and is read as an array of W inode indices, 0 meaning   *)
(* an empty slot (src/include/file_table.h, src/src/ko/file.c).            *)
(*                                                                         *)
(* The unit of data is the 32 bit word: a block is W words, so a directory *)
(* block has W slots, and sizes and offsets of files count words.          *)
(***************************************************************************)
EXTENDS Naturals, FiniteSets

CONSTANTS
    N,          \* total_inodes, which mkfs makes equal to block_count
    W,          \* words in a block
    PerBlock,   \* file objects in one block of the inode table
    Names,      \* names that programs use
    RootName,   \* "$", the name mkfs gives the root directory
    NoName,     \* the empty name of an erased file object
    Data,       \* words that programs write
    U           \* the modulus of an unsigned counter, 2^32 in the code

ASSUME SizesAssumption ==
    /\ N \in Nat \ {0}
    /\ W \in Nat \ {0}
    /\ PerBlock \in Nat \ {0}
    /\ U \in Nat /\ U > N
ASSUME NamesAssumption == NoName \notin Names /\ RootName # NoName
ASSUME DataAssumption == Data \cap (0 .. N - 1) = {}

Inode == 0 .. N - 1
Slot  == 0 .. W - 1
Word  == Inode \cup Data
Block == [Slot -> Word]

ZeroBlock == [s \in Slot |-> 0]

FileName == Names \cup {RootName, NoName}

FileObject == [in_use : {0, 1}, name : FileName, size : Nat,
               descriptor : {"none", "dir", "reg"}, first_block : Inode]

(* A file object after memset(ffo, 0, sizeof *ffo). *)
FreeObject == [in_use |-> 0, name |-> NoName, size |-> 0,
               descriptor |-> "none", first_block |-> 0]

(* Inode 0 as mkfs writes it: a directory of exactly one block. *)
Root == [in_use |-> 1, name |-> RootName, size |-> W,
         descriptor |-> "dir", first_block |-> 0]

FreshTable == [i \in Inode |-> IF i = 0 THEN Root ELSE FreeObject]
FreeTable  == [i \in Inode |-> FreeObject]

(* The table block that holds an inode; the table is read and written one  *)
(* block at a time.                                                        *)
ClusterOf(i) == i \div PerBlock
LastCluster  == (N - 1) \div PerBlock
Clusters     == 0 .. LastCluster

(* Table t with block k of it replaced by block k of table u. *)
CopyCluster(t, u, k) == [i \in Inode |-> IF ClusterOf(i) = k THEN u[i] ELSE t[i]]

IsFirst(x, S) == x \in S /\ \A y \in S : x <= y

(* The definitions whose names start with Bad are slips a change to the    *)
(* code could make; the runs are tried against each to show that their     *)
(* properties would notice.                                                *)
BadEmptySlots(dir)      == Slot                       \* forgets the == 0
BadEntrySlots(dir, i)   == {s \in Slot : dir[s] + 1 = i}
BadFreeInodes(t)        == {i \in Inode : t[i].size = 0}

EmptySlots(dir)    == {s \in Slot : dir[s] = 0}
EntrySlots(dir, i) == {s \in Slot : dir[s] = i}
FreeInodes(t)      == {i \in Inode : t[i].in_use = 0}
BadNoSpace(dir, t) == EmptySlots(dir) = {}   \* a full table is missed
NoSpace(dir, t)    == EmptySlots(dir) = {} \/ FreeInodes(t) = {}

(* Slips: the index of the block is not set; the mark of use is not set;   *)
(* the name is not copied.                                                 *)
BadNewObjectBlock(i, n) ==
    [in_use |-> 1, name |-> n, size |-> 0, descriptor |-> "reg", first_block |-> 0]
BadNewObjectUse(i, n) ==
    [in_use |-> 0, name |-> n, size |-> 0, descriptor |-> "reg", first_block |-> i]
BadNewObjectName(i, n) ==
    [in_use |-> 1, name |-> NoName, size |-> 0, descriptor |-> "reg", first_block |-> i]

(* The file object that create fills in for inode i. *)
NewObject(i, n) ==
    [in_use |-> 1, name |-> n, size |-> 0, descriptor |-> "reg", first_block |-> i]

(* The slots of the directory whose inode has name n.  A slot that holds   *)
(* something other than an inode index points outside the table.           *)
SlotsOf(dir, t, n) == {s \in Slot : dir[s] \in Inode \ {0} /\ t[dir[s]].name = n}

(* Slips: the name is not compared; a size is not set where there was none. *)
BadUpdateSizesName(t, fo) ==
    [i \in Inode |->
        IF t[i].in_use = 1
        THEN IF t[i].size # 0 /\ fo.size = 0 THEN FreeObject
             ELSE [t[i] EXCEPT !.size = fo.size]
        ELSE t[i]]
BadUpdateSizesInit(t, fo) ==
    [i \in Inode |->
        IF t[i].in_use = 1 /\ t[i].name = fo.name /\ t[i].size # 0
        THEN IF fo.size = 0 THEN FreeObject ELSE [t[i] EXCEPT !.size = fo.size]
        ELSE t[i]]

(* The loop of yukifs_update_statfs: every used object that has fo's name  *)
(* takes fo's size, and one that goes from a size to none is erased.       *)
UpdateSizes(t, fo) ==
    [i \in Inode |->
        IF t[i].in_use = 1 /\ t[i].name = fo.name
        THEN IF t[i].size # 0 /\ fo.size = 0 THEN FreeObject
             ELSE [t[i] EXCEPT !.size = fo.size]
        ELSE t[i]]

BadInUse(t) == Cardinality({i \in Inode : t[i].size # 0})   \* misses empty files
InUse(t) == Cardinality({i \in Inode : t[i].in_use = 1})

(* Slip: a signed counter. *)
BadCountDown(count, used) == count - used

(* block_count less one for every inode in use, in unsigned arithmetic. *)
CountDown(count, used) == (count + U - used) % U

(* Slip: appending copies one word too few. *)
BadWriteBuffer(old, app, size, pos, end, d) ==
    [s \in Slot |-> IF pos <= s /\ s < end THEN d
                    ELSE IF app /\ s + 1 < size THEN old[s]
                    ELSE 0]

(* The buffer yukifs_write sends to the disk: zeros, or the old contents   *)
(* up to the size when appending, then the words of the call over them.    *)
WriteBuffer(old, app, size, pos, end, d) ==
    [s \in Slot |-> IF pos <= s /\ s < end THEN d
                    ELSE IF app /\ s < size THEN old[s]
                    ELSE 0]
============================================================================
