----------------------------- MODULE ImageTools -----------------------------
(***************************************************************************)
(* infofs.yukifs and viewfs.yukifs (src/src/infofs), which read a device   *)
(* or an image and print what they find, on all that a run of mkfs leaves  *)
(* behind.  They change nothing, so they are operators on the image.       *)
(*                                                                         *)
(* Both find the header, the superblock and the areas by computations of   *)
(* their own, in bytes where the kernel module counts in blocks, and from  *)
(* the sizes in the superblock where it uses the offsets.  Both free the   *)
(* hidden data before they read it for the last time (infofs.c 181-184,    *)
(* viewfs.c 254-257); here it keeps its contents.                          *)
(***************************************************************************)
EXTENDS Mkfs

(* The search is that of fill_super, but a short device is no error, and   *)
(* lseek takes any offset.                                                 *)
ToolFinds(g) ==
    LET b == BlockSize(g)
    IN  /\ \E o \in Marks : IsHeader(o) /\ Holds(o, g, HiddenAt(b))
        /\ Holds(SuperblockOffset(b), g, SuperblockAt(b))

(* Slip: the last block that is only partly full is not counted. *)
BadClusters(s) == Wrap(s.total_inodes * ObjectSize) \div s.block_size

Clusters(s) == BlocksFor(Wrap(s.total_inodes * ObjectSize), s.block_size)

(* What infofs prints of an image of length n with superblock s at offset  *)
(* o.  The end of the data is that of the free blocks.                     *)
Info(s, o, n) ==
    LET data == o + s.block_size + Wrap(s.block_size * Clusters(s))
    IN  [inode_table_size         |-> Wrap(s.total_inodes * ObjectSize),
         inode_table_clusters     |-> Clusters(s),
         inode_table_storage_size |-> Wrap(s.block_size * Clusters(s)),
         inode_table_offset       |-> o + s.block_size,
         data_blocks_offset       |-> data,
         data_blocks_total_size   |-> Wrap(s.block_count * s.block_size),
         data_blocks_end_offset   |-> data + Wrap(s.block_free * s.block_size),
         unallocated_space_size   |-> n - data - Wrap(s.block_count * s.block_size)]

(* Where viewfs starts to print block i. *)
ViewOffset(s, i, skip) == Wrap(Wrap(s.data_blocks_offset + Wrap(i * s.block_size)) + skip)

(* How many of the count bytes that viewfs prints were read from the image; *)
(* the others are whatever malloc has found.                               *)
ViewRead(at, count) == IF at >= size THEN 0
                       ELSE IF at + count <= size THEN count ELSE size - at
-----------------------------------------------------------------------------
(* Where infofs and the superblock both give a number they agree, but for  *)
(* the end of the data.                                                    *)
InfoAgrees(s, info) ==
    \A f \in DOMAIN info \ {"data_blocks_end_offset"} : info[f] = s[f]

(* viewfs shows of each block what the kernel module keeps there. *)
ViewAgrees(s) ==
    \A i \in 0 .. s.block_count - 1 : \A skip \in 0 .. s.block_size - 1 :
        LET at == ViewOffset(s, i, skip)
        IN  /\ at = DataFoundAt(s, i) + skip
            /\ ViewRead(at, s.block_size - skip) = s.block_size - skip

(* Whatever volume the kernel module can mount, the tools find as well,    *)
(* print the same sizes and offsets for it that the module works with      *)
(* (infofs.c 226-256), and read its data blocks from the same places       *)
(* (viewfs.c 314-338).                                                     *)
ToolsAgree ==
    \A g \in {"old", "new"} : Mounts(g) =>
        LET s == Superblock(BlockSize(g), size)
        IN  /\ ToolFinds(g)
            /\ InfoAgrees(s, Info(s, SuperblockOffset(s.block_size), size))
            /\ ViewAgrees(s)
=============================================================================
