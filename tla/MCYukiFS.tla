----------------------------- MODULE MCYukiFS -----------------------------
(***************************************************************************)
(* Instances of YukiFS for TLC.  The configurations give the constants;    *)
(* names, descriptors, in-memory inodes and threads are interchangeable.   *)
(* The properties below are what the repository says of the program and    *)
(* the program does not do.                                                *)
(***************************************************************************)
EXTENDS YukiFSPromise, TLC

Symmetry == Permutations(Names) \cup Permutations(Fds)
            \cup Permutations(Vnodes) \cup Permutations(Threads)

(* What is written to a file is found in the data block of its inode, in   *)
(* block 1 for the first file (test.sh 35 and 37).                         *)
WriteInOwnBlock ==
    \A t \in Threads : pc[t] = "wr_block" => loc[t].blk = vnode[loc[t].v].idx
============================================================================
