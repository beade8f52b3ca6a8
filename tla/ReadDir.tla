------------------------------ MODULE ReadDir -------------------------------
(***************************************************************************)
(* A program that lists the root directory while others create, write and  *)
(* remove files: yukifs_iterate_shared of src/src/ko/file.c beside the     *)
(* handlers of YukiFS.                                                     *)
(*                                                                         *)
(* One call of getdents reads the inode table and the directory and hands  *)
(* out names, starting from the position that the call before it has left  *)
(* in ctx->pos.  The VFS locks the directory for sharing during the call:  *)
(* create and unlink wait for its end, but they may run between two calls, *)
(* and write, with its update_statfs, may run at any time.                 *)
(***************************************************************************)
EXTENDS YukiFS

VARIABLES
    lpc,        \* where the listing is
    lpos,       \* ctx->pos, in slots
    lk,         \* block of the inode table that is read next
    ltbl,       \* the names in the inode_table buffer
    lgot,       \* how often each name has been handed out
    lstay       \* the names visible at all times since the listing began

listing  == <<lpc, lpos, lk, ltbl, lgot, lstay>>
position == <<lpos, lgot>>
lvars    == <<vars, listing>>

(* "closed": no descriptor.  "idle": between two calls.  "table", "dir":   *)
(* in a call, about to read these.  "end": a call has returned no entry.   *)
(* "failed": a block could not be read.  "stuck": the entry at the         *)
(* position could not be handed out, nor will it be the next time.         *)
ListLabels == {"closed", "idle", "table", "dir", "end", "failed", "stuck"}

ListTypeOK ==
    /\ lpc \in ListLabels
    /\ lpos \in 0 .. W /\ lk \in Clusters
    /\ ltbl \in [Inode -> FileName]
    /\ lgot \in [FileName -> 0 .. W + 1]
    /\ lstay \subseteq Names

NoNames      == [i \in Inode |-> NoName]
NothingGot   == [n \in FileName |-> 0]
VisibleNames == {n \in Names : Visible(n)}
Listing      == lpc \in {"table", "dir"}
-----------------------------------------------------------------------------
ListInit ==
    /\ Init
    /\ lpc = "closed" /\ lpos = 0 /\ lk = 0 /\ ltbl = NoNames
    /\ lgot = NothingGot /\ lstay = {}

(* opendir; rewinddir is the same as to close and to open again. *)
ListOpen ==
    /\ mounted /\ lpc = "closed"
    /\ lpc' = "idle" /\ lpos' = 0 /\ lgot' = NothingGot /\ lstay' = VisibleNames
    /\ UNCHANGED <<vars, lk, ltbl>>

ListClose ==
    /\ lpc \in {"idle", "end", "failed", "stuck"}
    /\ lpc' = "closed" /\ lpos' = 0 /\ lgot' = NothingGot /\ lstay' = {}
    /\ UNCHANGED <<vars, lk, ltbl>>

(* A call begins when the directory is not locked by create or unlink.  It *)
(* returns at once when the position is behind the size of the directory.  *)
ListBegin ==
    /\ lpc = "idle" /\ ~DirBusy
    /\ lpc' = IF lpos >= rootfo.size THEN "end" ELSE "table"
    /\ UNCHANGED <<vars, position, lk, ltbl, lstay>>

(* Slips: the count of blocks is not reset; the last block of the table,   *)
(* which need not be full, is not read.                                    *)
BadListTable ==
    /\ lpc = "table"
    /\ ltbl' = [i \in Inode |-> IF ClusterOf(i) = lk THEN itable[i].name ELSE ltbl[i]]
    /\ lk' = lk + 1
    /\ lpc' = IF lk < LastCluster THEN "table" ELSE "dir"
    /\ UNCHANGED <<vars, position, lstay>>
BadListTableEnd ==
    /\ lpc = "table"
    /\ ltbl' = [i \in Inode |-> IF ClusterOf(i) = lk THEN itable[i].name ELSE ltbl[i]]
    /\ IF lk + 1 < LastCluster THEN lk' = lk + 1 /\ UNCHANGED lpc
                               ELSE lk' = 0 /\ lpc' = "dir"
    /\ UNCHANGED <<vars, position, lstay>>

ListTable ==
    /\ lpc = "table"
    /\ ltbl' = [i \in Inode |-> IF ClusterOf(i) = lk THEN itable[i].name ELSE ltbl[i]]
    /\ IF lk < LastCluster THEN lk' = lk + 1 /\ UNCHANGED lpc
                           ELSE lk' = 0 /\ lpc' = "dir"
    /\ UNCHANGED <<vars, position, lstay>>

(* The names found for the slots of dir.  An index that is outside the     *)
(* table finds anything.                                                   *)
NamesFor(dir) ==
    {f \in [Slot -> FileName] : \A s \in Slot : dir[s] \in Inode => f[s] = ltbl[dir[s]]}

(* Slip: empty slots are not passed over. *)
BadPassed(dir, q) == {s \in Slot : lpos <= s /\ s < q}

(* The slots of entries from the position up to slot q. *)
Passed(dir, q) == {s \in Slot : lpos <= s /\ s < q /\ dir[s] # 0}

(* Slips: where an entry is refused, the position goes behind it; it stays *)
(* where the call began.                                                   *)
BadRefusedAt(s)      == s + 1
BadRefusedAtStart(s) == lpos

(* The position left for the next call when dir_emit refuses slot s. *)
RefusedAt(s) == s

(* The count is kept up to W + 1: a listing has W entries to hand out.     *)
HandOut(f, S) ==
    lgot' = [n \in FileName |->
                LET got == lgot[n] + Cardinality({s \in S : f[s] = n})
                IN  IF got > W THEN W + 1 ELSE got]

(* All entries behind the position are handed out. *)
ListRest(dir, f) ==
    /\ \A s \in Passed(dir, W) : f[s] # NoName
    /\ HandOut(f, Passed(dir, W))
    /\ lpos' = W
    /\ lpc' = IF Passed(dir, W) = {} THEN "end" ELSE "idle"

(* dir_emit refuses the entry of slot s: the program's buffer is full,     *)
(* which leaves it with some entries, or the name is empty, which is an    *)
(* error unless there are entries to return first.                         *)
ListSome(dir, f) ==
    \E s \in Passed(dir, W) :
        LET some == Passed(dir, s)
        IN  /\ \A x \in some : f[x] # NoName
            /\ f[s] = NoName \/ some # {}
            /\ HandOut(f, some)
            /\ lpos' = RefusedAt(s)
            /\ lpc' = IF some = {} THEN "stuck" ELSE "idle"

(* Read the directory and hand out what is behind the position. *)
ListDir ==
    /\ lpc = "dir"
    /\ \E dir \in DirReads : \E f \in NamesFor(dir) : ListRest(dir, f) \/ ListSome(dir, f)
    /\ ltbl' = NoNames
    /\ UNCHANGED <<vars, lk, lstay>>

(* A block that the listing needs cannot be read. *)
ListFails ==
    /\ Listing
    /\ lpc' = "failed" /\ lk' = 0 /\ ltbl' = NoNames
    /\ UNCHANGED <<vars, position, lstay>>

Getdents == ListBegin \/ ListTable \/ ListDir
List     == ListOpen \/ ListClose \/ Getdents \/ ListFails
-----------------------------------------------------------------------------
(* What the others do.  create and unlink do not begin during a call.      *)
Beside ==
    /\ Call \/ \E t \in Threads : Step(t)
       \/ \E n \in Names : Evict(n) \/ \E v \in Vnodes : Recycled(v)
    /\ Listing => ~DirBusy'
    /\ lstay' = lstay \cap VisibleNames'
    /\ UNCHANGED <<lpc, lk, ltbl, position>>

(* A volume whose directory is open is not unmounted; a listing that the   *)
(* loss of power cuts off is one that was closed before.                   *)
Volume == (Mount \/ Unmount \/ Crash) /\ lpc = "closed" /\ UNCHANGED listing

ListNext == List \/ Beside \/ Volume
ListSpec == ListInit /\ [][ListNext]_lvars

(* The program goes on calling getdents, and a call that waits for the     *)
(* directory gets it some time, as the lock hands itself on in turn.       *)
ListFairSpec ==
    /\ ListSpec
    /\ \A t \in Threads : WF_lvars(Work(t) /\ Beside)
    /\ SF_lvars(ListBegin) /\ WF_lvars(ListTable) /\ WF_lvars(ListDir)
-----------------------------------------------------------------------------
(* A file that is there throughout a listing is listed, and once, however  *)
(* the calls of getdents cut the directory up and whatever is created and  *)
(* removed between them (file.c 141-168), as long as the directory has one *)
(* entry for each name: one caller whom nothing fails, no open file        *)
(* removed, no name created again that is there.                           *)
ListedOnce ==
    \A n \in lstay : lgot[n] <= 1 /\ (lpc = "end" => lgot[n] = 1)

(* A name is handed out only while there is a file of that name, though    *)
(* the table it is taken from was read before the directory, block by      *)
(* block, while a write may have been rewriting it.                        *)
ListedExists ==
    [][\A n \in FileName : lgot'[n] > lgot[n] => n \in Names /\ Visible(n)]_lvars

(* No listing stops at an entry it cannot hand out: whenever the directory *)
(* is not locked, every slot in use has an inode with a name, under the    *)
(* same conditions (a name that has two entries, or a crash in create,     *)
(* leaves a slot without one).                                             *)
ListNotStuck == lpc # "stuck"

(* A listing that is begun comes to its end, or fails.                     *)
ListingEnds == lpc = "idle" ~> lpc \in {"end", "failed", "stuck", "closed"}
=============================================================================
