----------------------------- MODULE MkfsLayout -----------------------------
(***************************************************************************)
(* Where mkfs.yukifs puts the parts of a volume (src/src/mkfs/mkfs.c), and *)
(* where the kernel module looks for them (inode.c, file.c).  A volume is, *)
(* in this order,                                                          *)
(*                                                                         *)
(*    padding | hidden data, kernel module | superblock | inode table |    *)
(*    data blocks | unallocated                                            *)
(*                                                                         *)
(* Sizes and offsets are in units of any length; 32 bit variables wrap at  *)
(* Modulus.                                                                *)
(***************************************************************************)
EXTENDS Integers

CONSTANTS
    Modulus,     \* 2^32
    MinBlock,    \* MINIMAL_BLOCK_SIZE, also the block size fill_super starts with
    MaxBlock,    \* MAXIMUM_BLOCK_SIZE
    ObjectSize,  \* FILE_OBJECT_ALIGN_SIZE
    SuperAlign,  \* SUPER_BLOCK_ALIGN_SIZE
    Padding,     \* FS_PADDING_SIZE
    ModuleSize   \* kernel_module_len

ASSUME LayoutAssumption ==
    /\ Modulus \in Nat \ {0}
    /\ MinBlock \in Nat \ {0} /\ MaxBlock \in 0 .. Modulus - 1
    /\ ObjectSize \in Nat \ {0} /\ ModuleSize \in Nat
    /\ SuperAlign \in 1 .. MinBlock
    /\ Padding \in 1 .. MinBlock

BlockSizes == MinBlock .. MaxBlock

(* The definitions whose names start with Bad are slips a change to the    *)
(* code could make; the run is tried against each to show that its         *)
(* properties would notice.  Here: a signed variable.                      *)
BadWrap(n) == n

(* An unsigned variable of 32 bits that is given value n. *)
Wrap(n) == n % Modulus

Larger(a, b) == IF a > b THEN a ELSE b

(* Slip: the last block that is only partly full is not counted. *)
BadBlocksFor(n, bs) == n \div bs

(* How many blocks of size bs hold n: the quotient, and one more when the  *)
(* remainder is not 0.                                                     *)
BlocksFor(n, bs) == (n + bs - 1) \div bs

(* calc_hidden_data_size: a block for the structure, and the module. *)
HiddenSize(bs) == bs + BlocksFor(ModuleSize, bs) * bs

HeaderSize(bs) == Larger(bs, Padding) + HiddenSize(bs) + Larger(bs, SuperAlign)

(* Slip: the padding block is not counted. *)
BadSuperblockOffset(bs) == bs + (HiddenSize(bs) - bs)

(* Where gen_fs_header puts the superblock, and where the hidden data says *)
(* that it is.                                                             *)
SuperblockAt(bs)     == Larger(bs, Padding) + HiddenSize(bs)
SuperblockOffset(bs) == 2 * bs + (HiddenSize(bs) - bs)

(* The number x of inodes, which is also that of data blocks: as many as   *)
(* fit when each takes a file object and a block.                          *)
InodeCount(bs, size) ==
    IF size > HeaderSize(bs)
    THEN Wrap(((size - HeaderSize(bs)) \div bs) * bs) \div (ObjectSize + bs)
    ELSE 0

Superblock(bs, size) ==
    LET x       == InodeCount(bs, size)
        table   == Wrap(ObjectSize * x)
        storage == Wrap(BlocksFor(table, bs) * bs)
        data    == Wrap(HeaderSize(bs) + storage)
        total   == Wrap(x * bs)
    IN  [block_size               |-> bs,
         total_inodes             |-> x,
         block_count              |-> x,
         block_free               |-> Wrap(x - 1),
         inode_table_size         |-> table,
         inode_table_clusters     |-> BlocksFor(table, bs),
         inode_table_storage_size |-> storage,
         inode_table_offset       |-> Wrap(HeaderSize(bs)),
         data_blocks_offset       |-> data,
         data_blocks_total_size   |-> total,
         data_blocks_end_offset   |-> Wrap(data + total),
         unallocated_space_size   |-> Wrap(size - Wrap(data + total))]

(* The offset fill_super reads the superblock at: it divides by the block  *)
(* size it has set for itself, the smallest, which the kernel takes when   *)
(* the device's own blocks are no larger.                                  *)
MountReads(offset) == (offset \div MinBlock) * MinBlock

(* The offsets at which the mounted module finds the table, writes the     *)
(* superblock and finds data block i: it counts in blocks.                 *)
TableFoundAt(sb)      == (sb.inode_table_offset \div sb.block_size) * sb.block_size
SuperWrittenAt(sb)    == (sb.inode_table_offset \div sb.block_size - 1) * sb.block_size
DataFoundAt(sb, i)    ==
    (Wrap(sb.data_blocks_offset + i * sb.block_size) \div sb.block_size) * sb.block_size
-----------------------------------------------------------------------------
(* The header, the table and the data blocks follow one another and end    *)
(* inside the device, and no size has wrapped.                             *)
AreasFit(sb, size) ==
    /\ sb.inode_table_offset + sb.total_inodes * ObjectSize <= sb.data_blocks_offset
    /\ sb.data_blocks_offset + sb.block_count * sb.block_size = sb.data_blocks_end_offset
    /\ sb.data_blocks_end_offset + sb.unallocated_space_size = size
    /\ sb.inode_table_storage_size = sb.inode_table_clusters * sb.block_size

(* What the module computes from the superblock is where mkfs put it: the  *)
(* superblock is in the block in front of the table (file.c 704-705).      *)
AddressesAgree(sb, bs) ==
    /\ TableFoundAt(sb) = HeaderSize(bs)
    /\ SuperWrittenAt(sb) = SuperblockAt(bs)
    /\ \A i \in 0 .. sb.block_count - 1 :
         DataFoundAt(sb, i) = sb.data_blocks_offset + i * bs
=============================================================================
