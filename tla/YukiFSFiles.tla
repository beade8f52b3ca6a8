---------------------------- MODULE YukiFSFiles -----------------------------
(***************************************************************************)
(* YukiFS keeps the promise of Files, as long as one call is made at a     *)
(* time, none of them fails half way, no open file is removed, and no name *)
(* is created that is there but that the cache holds for removed           *)
(* ("create_again" of YukiFS: rm a; touch a; touch a).                     *)
(***************************************************************************)
EXTENDS YukiFS

(* A file exists when the directory has a slot for it.  create therefore   *)
(* takes effect when the block of the inode table that has the new object  *)
(* is written, which comes after the directory, and unlink when the        *)
(* directory is written, long before the object is erased.                 *)
InodeOf(n) == CHOOSE i \in Inode : \E s \in SlotsOf(block[0], itable, n) : block[0][s] = i
AbsFile    == [n \in {x \in Names : Visible(x)} |->
                  [size |-> itable[InodeOf(n)].size, data |-> block[InodeOf(n)]]]

(* The size that a write is to leave is known from its first step on. *)
Callers == {t \in Threads : loc[t].op # "none"}
AbsCall ==
    IF Callers = {} THEN [op |-> "none", name |-> NoName, size |-> 0]
    ELSE LET r == loc[CHOOSE t \in Callers : TRUE]
         IN  [op   |-> r.op,
              name |-> IF r.op = "write" THEN vnode[r.v].fo.name ELSE r.name,
              size |-> r.end]

(* Inodes in use that no slot of the directory names. *)
Unnamed == {i \in Inode \ {0} : /\ itable[i].in_use = 1
                                /\ \A s \in Slot : block[0][s] # i}

Promise == INSTANCE Files WITH
    Sizes <- 0 .. MaxEnd, Contents <- Block, Blank <- ZeroBlock,
    Slots <- W, Inodes <- N - 1,
    file <- AbsFile, call <- AbsCall, taken <- Cardinality(Unnamed)

(* Every step of the module is a step of the promise or changes nothing it *)
(* speaks of: each call changes its own file only, in full before it       *)
(* returns success; a new file is empty and holds nothing of a removed     *)
(* one; and create is refused only when the directory or the inodes that   *)
(* are left are used up.                                                   *)
KeepsPromise == Promise!Spec

(* An inode in use that no slot names is one of a file that was removed    *)
(* while it was empty, which update_statfs does not erase (file.c 676).    *)
(* It stays until a file of the same name is made, written and removed.    *)
OnlyEmptyOnesStay ==
    Quiet => \A i \in Unnamed : itable[i].size = 0 \/ Visible(itable[i].name)
=============================================================================
