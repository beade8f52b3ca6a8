----------------------------- MODULE MkfsProofs -----------------------------
(***************************************************************************)
(* For every size of device, block and module, mkfs lays out a volume that *)
(* fits and that the kernel module finds its way in; it writes nothing     *)
(* behind the end of the device; whenever it stops, a volume that mounts   *)
(* is whole; and infofs and viewfs read it as the kernel module does.      *)
(***************************************************************************)
EXTENDS ImageTools, TLAPS

(* Products and quotients. *)

LEMMA MulDiv ==
    ASSUME NEW k \in Nat, NEW b \in Nat \ {0}
    PROVE  (k * b) \div b = k
BY SMT

LEMMA BlocksForFacts ==
    ASSUME NEW n \in Nat, NEW b \in Nat \ {0}
    PROVE  /\ BlocksFor(n, b) \in Nat
           /\ n <= BlocksFor(n, b) * b
           /\ \A k \in Nat : n <= k * b => BlocksFor(n, b) <= k
BY DEF BlocksFor

LEMMA Quotient ==
    ASSUME NEW n \in Nat, NEW b \in Nat \ {0}
    PROVE  n \div b \in Nat /\ (n \div b) * b \in Nat /\ (n \div b) * b <= n
OBVIOUS

LEMMA NoWrap ==
    ASSUME NEW n \in 0 .. Modulus - 1
    PROVE  Wrap(n) = n
BY LayoutAssumption DEF Wrap

(* x objects and x blocks fit where x was computed to fit. *)
LEMMA Shared ==
    ASSUME NEW A \in Nat \ {0}, NEW b \in Nat \ {0}, NEW B \in Nat, NEW x \in Nat,
           (A + b) * x <= B * b
    PROVE  BlocksFor(A * x, b) + x <= B
<1>1. A * x \in Nat /\ b * x \in Nat /\ A * x + b * x <= B * b
  BY SMT
<1>2. x <= B
  <2>1. b * x <= B * b
    BY <1>1
  <2>2. QED
    BY <2>1, SMT
<1>3. B - x \in Nat /\ (B - x) * b = B * b - b * x
  BY <1>2, SMT
<1>4. A * x <= (B - x) * b
  BY <1>1, <1>3, SMT
<1>5. BlocksFor(A * x, b) \in Nat /\ BlocksFor(A * x, b) <= B - x
  <2>1. \A k \in Nat : A * x <= k * b => BlocksFor(A * x, b) <= k
    BY <1>1, BlocksForFacts
  <2>2. BlocksFor(A * x, b) \in Nat
    BY <1>1, BlocksForFacts
  <2>3. QED
    BY <1>3, <1>4, <2>1, <2>2
<1>6. QED
  BY <1>5

(* The header is a whole number of blocks, the last of them the superblock's. *)
LEMMA HeaderBlocks ==
    ASSUME NEW b \in BlockSizes
    PROVE  /\ BlocksFor(ModuleSize, b) \in Nat
           /\ HeaderSize(b) = (BlocksFor(ModuleSize, b) + 3) * b
           /\ SuperblockAt(b) = (BlocksFor(ModuleSize, b) + 2) * b
           /\ HeaderSize(b) \in Nat /\ SuperblockAt(b) \in Nat
<1>1. b \in Nat \ {0} /\ Larger(b, Padding) = b /\ Larger(b, SuperAlign) = b
  BY LayoutAssumption DEF BlockSizes, Larger
<1>2. BlocksFor(ModuleSize, b) \in Nat
  BY <1>1, LayoutAssumption, BlocksForFacts
<1> DEFINE m == BlocksFor(ModuleSize, b)
<1>3. HeaderSize(b) = b + (b + m * b) + b /\ SuperblockAt(b) = b + (b + m * b)
  BY <1>1 DEF HeaderSize, HiddenSize, SuperblockAt
<1> HIDE DEF m
<1>4. (m + 3) * b = m * b + 3 * b /\ (m + 2) * b = m * b + 2 * b /\ m * b \in Nat
  BY <1>1, <1>2 DEF m
<1>5. QED
  BY <1>1, <1>2, <1>3, <1>4 DEF m

(* The number of inodes leaves room for the table and the data, and none of *)
(* the products that it and they are computed from wraps.                   *)
LEMMA InodeCountFits ==
    ASSUME NEW b \in BlockSizes, NEW s \in 0 .. Modulus - 1, HeaderSize(b) <= s
    PROVE  /\ InodeCount(b, s) \in Nat
           /\ BlocksFor(ObjectSize * InodeCount(b, s), b) \in Nat
           /\ HeaderSize(b) + BlocksFor(ObjectSize * InodeCount(b, s), b) * b
                + InodeCount(b, s) * b <= s
<1> DEFINE H == HeaderSize(b)
           B == (s - H) \div b
           x == InodeCount(b, s)
<1>1. b \in Nat \ {0} /\ H \in Nat /\ s \in Nat
  BY LayoutAssumption, HeaderBlocks DEF BlockSizes
<1>2. B \in Nat /\ B * b \in Nat /\ B * b <= s - H
  BY <1>1, Quotient
<1>3. Wrap(B * b) = B * b
  <2>1. B * b \in 0 .. Modulus - 1
    BY <1>1, <1>2, LayoutAssumption
  <2>2. QED
    BY <2>1, NoWrap
<1>4. x = IF s > H THEN (B * b) \div (ObjectSize + b) ELSE 0
  BY <1>3 DEF InodeCount
<1>5. x \in Nat /\ (ObjectSize + b) * x <= B * b
  <2>1. ObjectSize + b \in Nat \ {0}
    BY <1>1, LayoutAssumption
  <2> DEFINE c == ObjectSize + b
             n == B * b
  <2>2. n \div c \in Nat /\ (n \div c) * c <= n
    BY <1>2, <2>1, Quotient
  <2>3. (n \div c) * c = c * (n \div c) /\ c * 0 = 0
    BY <2>1, <2>2
  <2>4. QED
    BY <1>2, <1>4, <2>2, <2>3
<1> HIDE DEF H, B, x
<1>6. BlocksFor(ObjectSize * x, b) \in Nat /\ BlocksFor(ObjectSize * x, b) + x <= B
  <2>1. ObjectSize * x \in Nat
    BY <1>5, LayoutAssumption
  <2>2. QED
    BY <1>1, <1>2, <1>5, <2>1, Shared, BlocksForFacts, LayoutAssumption
<1>7. (BlocksFor(ObjectSize * x, b) + x) * b <= B * b
  BY <1>1, <1>2, <1>5, <1>6, SMT
<1>8. BlocksFor(ObjectSize * x, b) * b + x * b <= B * b
  BY <1>1, <1>5, <1>6, <1>7, SMT
<1>9. BlocksFor(ObjectSize * x, b) * b \in Nat /\ x * b \in Nat
  BY <1>1, <1>5, <1>6
<1>10. QED
  BY <1>1, <1>2, <1>5, <1>6, <1>8, <1>9 DEF H, x

(* What the superblock says of a device that is large enough for the       *)
(* header: no number in it has wrapped.                                    *)
LEMMA LayoutValues ==
    ASSUME NEW b \in BlockSizes, NEW s \in 0 .. Modulus - 1, HeaderSize(b) <= s,
           NEW x, x = InodeCount(b, s), NEW c, c = BlocksFor(ObjectSize * x, b),
           NEW S, S = Superblock(b, s)
    PROVE  /\ x \in Nat /\ c \in Nat /\ ObjectSize * x \in Nat /\ ObjectSize * x <= c * b
           /\ c * b \in Nat /\ x * b \in Nat /\ HeaderSize(b) + c * b + x * b <= s
           /\ Wrap(ObjectSize * x) = ObjectSize * x
           /\ Wrap(c * b) = c * b /\ Wrap(x * b) = x * b
           /\ S.block_size = b /\ S.total_inodes = x /\ S.block_count = x
           /\ S.inode_table_size = ObjectSize * x
           /\ S.inode_table_clusters = c /\ S.inode_table_storage_size = c * b
           /\ S.inode_table_offset = HeaderSize(b)
           /\ S.data_blocks_offset = HeaderSize(b) + c * b
           /\ S.data_blocks_total_size = x * b
           /\ S.data_blocks_end_offset = HeaderSize(b) + c * b + x * b
           /\ S.unallocated_space_size = s - (HeaderSize(b) + c * b + x * b)
<1> DEFINE H == HeaderSize(b)
           T == ObjectSize * x
<1>1. b \in Nat \ {0} /\ H \in Nat
  BY LayoutAssumption, HeaderBlocks DEF BlockSizes
<1>2. x \in Nat /\ c \in Nat /\ H + c * b + x * b <= s
  BY InodeCountFits
<1>3. T \in Nat
  BY <1>2, LayoutAssumption
<1>4. T <= c * b
  BY <1>1, <1>3, BlocksForFacts
<1>5. c * b \in Nat /\ x * b \in Nat /\ s \in Nat
  BY <1>1, <1>2, LayoutAssumption
<1>6. /\ Wrap(T) = T /\ Wrap(c * b) = c * b /\ Wrap(H) = H /\ Wrap(x * b) = x * b
      /\ Wrap(H + c * b) = H + c * b /\ Wrap(H + c * b + x * b) = H + c * b + x * b
      /\ Wrap(s - (H + c * b + x * b)) = s - (H + c * b + x * b)
  <2> HIDE DEF H, T
  <2>1. \A n \in 0 .. Modulus - 1 : Wrap(n) = n
    BY NoWrap
  <2>2. QED
    BY <1>1, <1>2, <1>3, <1>4, <1>5, <2>1, LayoutAssumption
<1>7. /\ S.block_size = b /\ S.total_inodes = x /\ S.block_count = x
      /\ S.inode_table_size = T
      /\ S.inode_table_clusters = c /\ S.inode_table_storage_size = c * b
      /\ S.inode_table_offset = H /\ S.data_blocks_offset = H + c * b
      /\ S.data_blocks_total_size = x * b
      /\ S.data_blocks_end_offset = H + c * b + x * b
      /\ S.unallocated_space_size = s - (H + c * b + x * b)
  BY <1>6 DEF Superblock
<1>8. QED
  BY <1>2, <1>3, <1>4, <1>5, <1>6, <1>7

(* The layout of a device that is large enough for the header. *)
LEMMA LayoutFits ==
    ASSUME NEW b \in BlockSizes, NEW s \in 0 .. Modulus - 1, HeaderSize(b) <= s
    PROVE  /\ AreasFit(Superblock(b, s), s)
           /\ AddressesAgree(Superblock(b, s), b)
           /\ HeaderSize(b) + ObjectSize * InodeCount(b, s) <= s
<1> DEFINE H == HeaderSize(b)
           x == InodeCount(b, s)
           T == ObjectSize * x
           c == BlocksFor(T, b)
           m == BlocksFor(ModuleSize, b)
           S == Superblock(b, s)
<1>1. b \in Nat \ {0} /\ H \in Nat /\ H = (m + 3) * b /\ m \in Nat
      /\ SuperblockAt(b) = (m + 2) * b
  BY LayoutAssumption, HeaderBlocks DEF BlockSizes
<1>2. /\ x \in Nat /\ c \in Nat /\ H + c * b + x * b <= s
      /\ T \in Nat /\ T <= c * b /\ c * b \in Nat /\ x * b \in Nat
      /\ S.block_size = b /\ S.total_inodes = x /\ S.block_count = x
      /\ S.inode_table_clusters = c /\ S.inode_table_storage_size = c * b
      /\ S.inode_table_offset = H /\ S.data_blocks_offset = H + c * b
      /\ S.data_blocks_end_offset = H + c * b + x * b
      /\ S.unallocated_space_size = s - (H + c * b + x * b)
  BY LayoutValues
<1>3. x * ObjectSize = T /\ s \in Nat
  BY <1>2, LayoutAssumption
<1> HIDE DEF H, x, T, c, m, S
<1>4. AreasFit(S, s)
  BY <1>1, <1>2, <1>3 DEF AreasFit
<1>5. TableFoundAt(S) = H /\ SuperWrittenAt(S) = SuperblockAt(b)
  <2>1. H \div b = m + 3
    BY <1>1, MulDiv
  <2>2. m + 3 - 1 = m + 2
    BY <1>1
  <2>3. QED
    BY <1>1, <1>2, <2>1, <2>2 DEF TableFoundAt, SuperWrittenAt
<1>6. ASSUME NEW i \in 0 .. x - 1 PROVE DataFoundAt(S, i) = H + c * b + i * b
  <2>1. i \in Nat /\ i * b \in Nat /\ i * b <= x * b
    BY <1>1, <1>2, SMT
  <2>2. Wrap(H + c * b + i * b) = H + c * b + i * b
    BY <1>1, <1>2, <1>3, <2>1, NoWrap, LayoutAssumption
  <2>3. H + c * b + i * b = (m + 3 + c + i) * b /\ m + 3 + c + i \in Nat
    BY <1>1, <1>2, <2>1, SMT
  <2>4. ((m + 3 + c + i) * b) \div b = m + 3 + c + i
    BY <1>1, <2>3, MulDiv
  <2>5. QED
    BY <1>2, <2>2, <2>3, <2>4 DEF DataFoundAt
<1>7. AddressesAgree(S, b)
  BY <1>2, <1>5, <1>6 DEF AddressesAgree, H
<1>8. H + T <= s
  BY <1>1, <1>2, <1>3
<1>9. QED
  BY <1>4, <1>7, <1>8 DEF H, T, x, S

(* The hidden data gives the place where the superblock is. *)
LEMMA OffsetIsPlace ==
    ASSUME NEW b \in BlockSizes PROVE SuperblockOffset(b) = SuperblockAt(b)
<1> DEFINE m == BlocksFor(ModuleSize, b)
<1>1. m \in Nat /\ SuperblockAt(b) = (m + 2) * b /\ b \in Nat
  BY HeaderBlocks, LayoutAssumption DEF BlockSizes
<1>2. HiddenSize(b) = b + m * b
  BY DEF HiddenSize
<1> HIDE DEF m
<1>3. m * b \in Nat /\ (m + 2) * b = m * b + 2 * b
  BY <1>1, SMT
<1>4. QED
  BY <1>1, <1>2, <1>3 DEF SuperblockOffset

(* With a block size that is a multiple of the smallest one, as every      *)
(* power of two is, fill_super reads the superblock where gen_fs_header    *)
(* has put it, although it divides by another block size.                  *)
THEOREM SuperblockFound ==
    ASSUME NEW b \in BlockSizes, NEW k \in Nat, b = k * MinBlock
    PROVE  MountReads(SuperblockOffset(b)) = SuperblockAt(b)
<1> DEFINE m == BlocksFor(ModuleSize, b)
<1>1. m \in Nat /\ SuperblockAt(b) = (m + 2) * b /\ MinBlock \in Nat \ {0} /\ b \in Nat
  BY HeaderBlocks, LayoutAssumption DEF BlockSizes
<1>2. SuperblockOffset(b) = (m + 2) * b
  BY <1>1, OffsetIsPlace
<1> HIDE DEF m
<1>3. (m + 2) * b = ((m + 2) * k) * MinBlock /\ (m + 2) * k \in Nat
  BY <1>1, SMT
<1>4. (((m + 2) * k) * MinBlock) \div MinBlock = (m + 2) * k
  BY <1>1, <1>3, MulDiv
<1>5. QED
  BY <1>1, <1>2, <1>3, <1>4 DEF MountReads
-----------------------------------------------------------------------------
(* The inductive invariant: what main has established by the time it gets  *)
(* to pc.                                                                  *)
Established ==
    /\ size \in Nat
    /\ pc \notin {"options", "end"} => bs \in BlockSizes
    /\ pc \notin {"options", "open", "end"} => size <= Modulus - 1
    /\ pc \in {"confirm", "zero", "header", "table"} =>
         sb = Superblock(bs, size) /\ HeaderSize(bs) <= size

LEMMA EstablishedInit == Init => Established
BY RunAssumption DEF Init, Established

LEMMA EstablishedStep == Established /\ [Next]_vars => Established'
<1> SUFFICES ASSUME Established, [Next]_vars PROVE Established'
  OBVIOUS
<1> USE DEF Established, params, End
<1>1. CASE CheckOptions
  BY <1>1 DEF CheckOptions
<1>2. CASE OpenDevice
  BY <1>2, LayoutAssumption DEF OpenDevice
<1>3. CASE MakeLayout
  <2>1. HeaderSize(bs) \in Nat
    BY <1>3, HeaderBlocks DEF MakeLayout
  <2>2. QED
    BY <1>3, <2>1 DEF MakeLayout
<1>4. CASE Confirm
  BY <1>4 DEF Confirm
<1>5. CASE ZeroChunk
  BY <1>5 DEF ZeroChunk
<1>6. CASE MakeTable
  BY <1>6 DEF MakeTable
<1>7. CASE WriteHeader
  BY <1>7 DEF WriteHeader
<1>8. CASE WriteTable
  BY <1>8 DEF WriteTable
<1>9. CASE CallFails
  BY <1>9 DEF CallFails
<1>10. CASE Killed
  BY <1>10 DEF Killed
<1>11. CASE UNCHANGED vars
  BY <1>11 DEF vars
<1>12. QED
  BY <1>1, <1>2, <1>3, <1>4, <1>5, <1>6, <1>7, <1>8, <1>9, <1>10, <1>11 DEF Next, Run

(* Whatever the sizes of the device, the blocks and the kernel module, the *)
(* superblock describes areas that follow one another and end within the   *)
(* device, no 32 bit variable has wrapped, and the divisions by which the  *)
(* kernel module turns offsets into block numbers lose nothing.            *)
THEOREM LayoutCorrect == Spec => []LaidOut
<1>1. Established => LaidOut
  BY LayoutFits DEF Established, LaidOut
<1>2. QED
  BY <1>1, EstablishedInit, EstablishedStep, PTL DEF Spec
-----------------------------------------------------------------------------
(* No size that is accepted is so close to the largest number that adding  *)
(* a chunk wraps.                                                          *)
NoSizeWraps == \A s \in Sizes : s + Chunk <= Modulus \/ s > Modulus - 1

(* How far the file offset can be while main is at pc. *)
Positions ==
    /\ size + Chunk <= Modulus \/ size > Modulus - 1
    /\ zeroed \in Nat /\ pos \in 0 .. size
    /\ DOMAIN image = 0 .. size - 1
    /\ pc \in {"options", "open", "layout", "confirm"} => pos = 0 /\ zeroed = 0
    /\ pc = "zero" /\ mode # "try" => pos = zeroed
    /\ pc = "zero" => zeroed <= size
    /\ pc = "table" => pos <= HeaderSize(bs)

PosInv == Established /\ Positions

LEMMA WriteSizesBound ==
    ASSUME NEW n \in Nat, size \in Nat, pos \in 0 .. size, pos + n <= size,
           NEW k \in WriteSizes(n)
    PROVE  k \in 0 .. n
BY DEF WriteSizes

LEMMA WrittenDomain ==
    ASSUME NEW p \in Nat, NEW n \in Nat, NEW g, NEW o, size \in Nat, p + n <= size,
           DOMAIN image = 0 .. size - 1
    PROVE  DOMAIN Written(image, p, g, o, n) = 0 .. size - 1
<1>1. DOMAIN image \cup p .. p + n - 1 = 0 .. size - 1
  OBVIOUS
<1>2. QED
  BY <1>1 DEF Written

LEMMA PosInvInit == ASSUME NoSizeWraps PROVE Init => PosInv
<1>1. ASSUME Init PROVE Positions
  BY <1>1, RunAssumption DEF Init, Positions, NoSizeWraps, Untouched
<1>2. QED
  BY <1>1, EstablishedInit DEF PosInv

LEMMA PositionsStep == PosInv /\ [Next]_vars => Positions'
<1> SUFFICES ASSUME PosInv, [Next]_vars PROVE Positions'
  OBVIOUS
<1> USE DEF PosInv, Positions, params, End
<1>1. CASE CheckOptions
  BY <1>1 DEF CheckOptions
<1>2. CASE OpenDevice
  BY <1>2 DEF OpenDevice
<1>3. CASE MakeLayout
  BY <1>3 DEF MakeLayout
<1>4. CASE Confirm
  BY <1>4 DEF Confirm, Established
<1>5. CASE ZeroChunk
  <2>1. PICK n \in IF mode = "try" THEN {NextChunk(zeroed)} ELSE WriteSizes(NextChunk(zeroed)) :
           /\ zeroed' = Wrap(zeroed + n)
           /\ IF mode = "try" THEN UNCHANGED <<pos, image>>
              ELSE pos' = pos + n /\ image' = Written(image, pos, "zero", 0, n)
    BY <1>5 DEF ZeroChunk
  <2>2. pc = "zero" /\ zeroed < size /\ UNCHANGED <<size, bs, oldbs, mode, regular, pc, out, sb>>
    BY <1>5 DEF ZeroChunk
  <2>3. size \in Nat /\ size <= Modulus - 1 /\ Modulus \in Nat /\ Chunk \in Nat
    BY <2>2, LayoutAssumption, RunAssumption DEF Established
  <2>4. Wrap(zeroed + Chunk) = zeroed + Chunk
    BY <2>2, <2>3, NoWrap
  <2>5. NextChunk(zeroed) \in Nat /\ zeroed + NextChunk(zeroed) <= size
    BY <2>2, <2>3, <2>4 DEF NextChunk
  <2>6. n \in 0 .. NextChunk(zeroed)
    <3>1. CASE mode = "try"
      BY <2>1, <2>5, <3>1
    <3>2. CASE mode # "try"
      <4>1. pos + NextChunk(zeroed) <= size
        BY <2>2, <2>5, <3>2
      <4>2. QED
        BY <2>1, <2>3, <2>5, <3>2, <4>1, WriteSizesBound
    <3>3. QED
      BY <3>1, <3>2
  <2>7. zeroed' = zeroed + n /\ zeroed + n <= size
    BY <2>1, <2>3, <2>5, <2>6, NoWrap
  <2>8. mode # "try" => DOMAIN image' = 0 .. size - 1
    <3>1. mode # "try" => DOMAIN Written(image, pos, "zero", 0, n) = 0 .. size - 1
      BY <2>2, <2>3, <2>6, <2>7, WrittenDomain
    <3>2. QED
      BY <2>1, <3>1
  <2>9. QED
    BY <2>1, <2>2, <2>3, <2>6, <2>7, <2>8
<1>6. CASE MakeTable
  BY <1>6 DEF MakeTable
<1>7. CASE WriteHeader
  <2>1. bs \in BlockSizes /\ HeaderSize(bs) <= size /\ size \in Nat /\ HeaderSize(bs) \in Nat
    BY <1>7, HeaderBlocks DEF WriteHeader, Established
  <2>2. PICK n \in 0 .. HeaderSize(bs) : image' = Written(image, 0, "new", 0, n) /\ pos' = n
    BY <1>7, <2>1 DEF WriteHeader
  <2>3. DOMAIN Written(image, 0, "new", 0, n) = 0 .. size - 1
    BY <2>1, <2>2, WrittenDomain
  <2>4. QED
    BY <1>7, <2>1, <2>2, <2>3 DEF WriteHeader
<1>8. CASE WriteTable
  <2>1. bs \in BlockSizes /\ HeaderSize(bs) <= size /\ size \in 0 .. Modulus - 1
    BY <1>8, LayoutAssumption DEF WriteTable, Established
  <2>2. TableSize \in Nat /\ HeaderSize(bs) + TableSize <= size /\ HeaderSize(bs) \in Nat
    BY <2>1, LayoutFits, InodeCountFits, HeaderBlocks, LayoutAssumption DEF TableSize
  <2>3. pos + TableSize <= size /\ size \in Nat
    BY <1>8, <2>1, <2>2, LayoutAssumption DEF WriteTable
  <2>4. PICK n \in WriteSizes(TableSize) :
           image' = Written(image, pos, "new", HeaderSize(bs), n) /\ pos' = pos + n
    BY <1>8 DEF WriteTable
  <2>5. n \in 0 .. TableSize
    BY <2>2, <2>3, <2>4, WriteSizesBound
  <2>6. DOMAIN Written(image, pos, "new", HeaderSize(bs), n) = 0 .. size - 1
    BY <2>2, <2>3, <2>5, WrittenDomain
  <2>7. QED
    BY <1>8, <2>2, <2>3, <2>4, <2>5, <2>6 DEF WriteTable
<1>9. CASE CallFails
  BY <1>9 DEF CallFails
<1>10. CASE Killed
  BY <1>10 DEF Killed
<1>11. CASE UNCHANGED vars
  BY <1>11 DEF vars
<1>12. QED
  BY <1>1, <1>2, <1>3, <1>4, <1>5, <1>6, <1>7, <1>8, <1>9, <1>10, <1>11 DEF Next, Run

(* While mkfs zeroes the device its offset is the count of zeroed bytes,   *)
(* and behind the header it is at most the size of the header.             *)
THEOREM PositionsKnown == ASSUME NoSizeWraps PROVE Spec => []PosInv
<1>1. PosInv /\ [Next]_vars => PosInv'
  BY EstablishedStep, PositionsStep DEF PosInv
<1>2. QED
  BY <1>1, PosInvInit, PTL DEF Spec

(* However the calls are cut short, fail or stop, mkfs writes nothing      *)
(* behind the end of the device and an image file keeps its size, unless   *)
(* the size is within one chunk of what 32 bits can count.                 *)
THEOREM StaysInDevice == ASSUME NoSizeWraps PROVE Spec => []InDevice
<1>1. PosInv => InDevice
  BY DEF PosInv, Positions, InDevice, Established
<1>2. QED
  BY <1>1, PositionsKnown, PTL
-----------------------------------------------------------------------------
LEMMA InodeCountType ==
    ASSUME NEW b \in BlockSizes, NEW s \in Nat
    PROVE  InodeCount(b, s) \in 0 .. Modulus - 1
<1> DEFINE w == Wrap(((s - HeaderSize(b)) \div b) * b)
<1>1. b \in Nat \ {0} /\ HeaderSize(b) \in Nat /\ ObjectSize + b \in Nat \ {0}
  BY LayoutAssumption, HeaderBlocks DEF BlockSizes
<1>2. CASE s > HeaderSize(b)
  <2>1. s - HeaderSize(b) \in Nat
    BY <1>1, <1>2
  <2>2. ((s - HeaderSize(b)) \div b) * b \in Nat
    BY <1>1, <2>1, Quotient
  <2>3. w \in 0 .. Modulus - 1
    BY <2>2, LayoutAssumption DEF Wrap
  <2>4. InodeCount(b, s) = w \div (ObjectSize + b)
    BY <1>2 DEF InodeCount
  <2> HIDE DEF w
  <2>5. \A n \in Nat, d \in Nat \ {0} : n \div d \in 0 .. n
    BY SMT
  <2>6. w \div (ObjectSize + b) \in 0 .. w
    BY <1>1, <2>3, <2>5, LayoutAssumption
  <2>7. QED
    BY <2>3, <2>4, <2>6, LayoutAssumption
<1>3. CASE ~(s > HeaderSize(b))
  BY <1>3, LayoutAssumption DEF InodeCount
<1>4. QED
  BY <1>2, <1>3

(* No number in a superblock is too large for its variable, even for a     *)
(* device that will be refused.                                            *)
LEMMA SuperblockType ==
    ASSUME NEW b \in BlockSizes, NEW s \in Nat
    PROVE  \A f \in DOMAIN Superblock(b, s) : Superblock(b, s)[f] \in 0 .. Modulus - 1
<1> DEFINE x == InodeCount(b, s)
           T == Wrap(ObjectSize * x)
           c == BlocksFor(T, b)
<1>1. b \in Nat \ {0} /\ b \in 0 .. Modulus - 1 /\ HeaderSize(b) \in Nat
  BY LayoutAssumption, HeaderBlocks DEF BlockSizes
<1>2. \A n \in Int : Wrap(n) \in 0 .. Modulus - 1
  BY LayoutAssumption DEF Wrap
<1>3. x \in 0 .. Modulus - 1
  BY InodeCountType
<1>4. T \in 0 .. Modulus - 1
  <2>1. ObjectSize * x \in Int
    BY <1>3, LayoutAssumption
  <2>2. QED
    BY <1>2, <2>1
<1>5. c \in 0 .. Modulus - 1
  <2> HIDE DEF T
  <2>1. T <= T * b /\ T \in Nat
    BY <1>1, <1>4
  <2>2. c \in Nat /\ c <= T
    BY <1>1, <2>1, BlocksForFacts
  <2> HIDE DEF c
  <2>3. QED
    BY <1>4, <2>2, LayoutAssumption
<1> HIDE DEF x, T, c
<1>6. Wrap(c * b) \in 0 .. Modulus - 1 /\ Wrap(x * b) \in 0 .. Modulus - 1
  BY <1>1, <1>2, <1>3, <1>5
<1>7. LET data == Wrap(HeaderSize(b) + Wrap(c * b))
      IN  /\ data \in 0 .. Modulus - 1 /\ Wrap(x - 1) \in 0 .. Modulus - 1
          /\ Wrap(HeaderSize(b)) \in 0 .. Modulus - 1
          /\ Wrap(data + Wrap(x * b)) \in 0 .. Modulus - 1
          /\ Wrap(s - Wrap(data + Wrap(x * b))) \in 0 .. Modulus - 1
  BY <1>1, <1>2, <1>3, <1>6
<1>8. QED
  BY <1>1, <1>3, <1>4, <1>5, <1>6, <1>7 DEF Superblock, x, T, c

LEMMA TypeInit == Init => TypeOK
BY LayoutAssumption, RunAssumption DEF Init, TypeOK, NoSuperblock, Untouched, Cell

(* What is written is made of cells. *)
LEMMA WrittenType ==
    ASSUME TypeOK, NEW p \in Nat, NEW n \in Int, NEW g \in {"zero", "new"}, NEW o \in Nat
    PROVE  \A c \in DOMAIN Written(image, p, g, o, n) : Written(image, p, g, o, n)[c] \in Cell
<1>1. Zero \in Cell
  BY DEF Zero, Cell
<1>2. \A c \in p .. p + n - 1 : <<g, o + c - p>> \in Cell
  BY DEF Cell
<1>3. QED
  BY <1>1, <1>2 DEF Written, TypeOK

(* The offset does not become negative, whatever a write does. *)
LEMMA WriteSizesType ==
    ASSUME NEW n \in Nat, size \in Nat, pos \in Nat, NEW k \in WriteSizes(n)
    PROVE  k \in Int /\ pos + k \in Nat
BY DEF WriteSizes

LEMMA TypeStep == Established /\ TypeOK /\ [Next]_vars => TypeOK'
<1> SUFFICES ASSUME Established, TypeOK, [Next]_vars PROVE TypeOK'
  OBVIOUS
<1> USE DEF params, End
<1>1. size \in Nat /\ Chunk \in Nat /\ Modulus \in Nat \ {0}
  BY LayoutAssumption, RunAssumption DEF Established
<1>2. \A n \in Int : Wrap(n) \in 0 .. Modulus - 1
  BY <1>1 DEF Wrap
<1>3. CASE CheckOptions \/ OpenDevice \/ Confirm \/ MakeTable \/ CallFails \/ Killed
  BY <1>3 DEF CheckOptions, OpenDevice, Confirm, MakeTable, CallFails, Killed, TypeOK
<1>4. CASE MakeLayout
  <2>1. bs \in BlockSizes
    BY <1>4 DEF MakeLayout, Established
  <2>2. \A f \in DOMAIN sb' : sb'[f] \in 0 .. Modulus - 1
    BY <1>1, <1>4, <2>1, SuperblockType DEF MakeLayout
  <2>3. QED
    BY <1>4, <2>2 DEF MakeLayout, TypeOK
<1>5. CASE ZeroChunk
  <2>1. PICK n \in IF mode = "try" THEN {NextChunk(zeroed)} ELSE WriteSizes(NextChunk(zeroed)) :
           /\ zeroed' = Wrap(zeroed + n)
           /\ IF mode = "try" THEN UNCHANGED <<pos, image>>
              ELSE pos' = pos + n /\ image' = Written(image, pos, "zero", 0, n)
    BY <1>5 DEF ZeroChunk
  <2>2. zeroed < size /\ zeroed \in Nat /\ pos \in Nat /\ UNCHANGED <<params, pc, out, sb>>
    BY <1>1, <1>5 DEF ZeroChunk, TypeOK
  <2>3. NextChunk(zeroed) \in Nat
    BY <1>1, <2>2 DEF NextChunk
  <2>4. n \in Int /\ (mode # "try" => pos + n \in Nat)
    BY <1>1, <2>1, <2>2, <2>3, WriteSizesType
  <2>5. zeroed' \in 0 .. Modulus - 1
    BY <1>2, <2>1, <2>2, <2>4
  <2>6. mode # "try" => \A c \in DOMAIN image' : image'[c] \in Cell
    BY <2>1, <2>2, <2>4, WrittenType
  <2>7. QED
    BY <2>1, <2>2, <2>4, <2>5, <2>6 DEF TypeOK
<1>6. CASE WriteHeader
  <2>1. HeaderSize(bs) \in Nat
    BY <1>6, HeaderBlocks DEF WriteHeader, Established
  <2>2. PICK n \in Nat : image' = Written(image, 0, "new", 0, n) /\ pos' = n
    BY <1>6, <2>1 DEF WriteHeader
  <2>3. \A c \in DOMAIN image' : image'[c] \in Cell
    BY <2>2, WrittenType
  <2>4. QED
    BY <1>6, <2>2, <2>3 DEF WriteHeader, TypeOK
<1>7. CASE WriteTable
  <2>1. bs \in BlockSizes /\ size \in 0 .. Modulus - 1 /\ HeaderSize(bs) <= size
    BY <1>1, <1>7 DEF WriteTable, Established
  <2>2. HeaderSize(bs) \in Nat /\ TableSize \in Nat /\ pos \in Nat
    BY <2>1, InodeCountFits, HeaderBlocks, LayoutAssumption DEF TableSize, TypeOK
  <2>3. PICK n \in WriteSizes(TableSize) :
           image' = Written(image, pos, "new", HeaderSize(bs), n) /\ pos' = pos + n
    BY <1>7 DEF WriteTable
  <2>4. n \in Int /\ pos + n \in Nat
    BY <1>1, <2>2, <2>3, WriteSizesType
  <2>5. \A c \in DOMAIN image' : image'[c] \in Cell
    BY <2>2, <2>3, <2>4, WrittenType
  <2>6. QED
    BY <1>7, <2>3, <2>4, <2>5 DEF WriteTable, TypeOK
<1>8. CASE UNCHANGED vars
  BY <1>8 DEF vars, TypeOK
<1>9. QED
  BY <1>3, <1>4, <1>5, <1>6, <1>7, <1>8 DEF Next, Run

(* Every variable of mkfs keeps its type: no number in the superblock is   *)
(* ever too large for 32 bits and no offset becomes negative, even on      *)
(* devices whose size wraps the variable that counts the zeroed bytes.     *)
THEOREM MkfsTypes == Spec => []TypeOK
<1>1. Established /\ TypeOK /\ [Next]_vars => (Established /\ TypeOK)'
  BY EstablishedStep, TypeStep
<1>2. Init => Established /\ TypeOK
  BY EstablishedInit, TypeInit
<1>3. QED
  BY <1>1, <1>2, PTL DEF Spec
-----------------------------------------------------------------------------
(* What is on the device.  Until the user has agreed, and in a dry run     *)
(* always, it is what was there before.                                    *)
Kept ==
    /\ pc \in {"options", "open", "layout", "confirm"} => image = Untouched
    /\ mode = "try" => image = Untouched /\ pc \notin {"header", "table"}
    /\ pc # "end" => out = "none"
    /\ NothingLost
KeptInv == Established /\ Kept

LEMMA KeptInit == Init => Kept
BY DEF Init, Kept, NothingLost

LEMMA KeptStep == KeptInv /\ [Next]_vars => Kept'
<1> SUFFICES ASSUME KeptInv, [Next]_vars PROVE Kept'
  OBVIOUS
<1> USE DEF KeptInv, Kept, params, End, NothingLost, Untouched
<1>1. CASE CheckOptions \/ OpenDevice \/ MakeLayout \/ Confirm
  BY <1>1 DEF CheckOptions, OpenDevice, MakeLayout, Confirm
<1>2. ASSUME pc \in {"zero", "header", "table"}
      PROVE  bs \in BlockSizes /\ ~(size < HeaderSize(bs))
  BY <1>2, HeaderBlocks DEF Established
<1>3. CASE ZeroChunk \/ MakeTable
  BY <1>2, <1>3 DEF ZeroChunk, MakeTable
<1>4. CASE WriteHeader \/ WriteTable
  BY <1>2, <1>4 DEF WriteHeader, WriteTable
<1>5. CASE CallFails \/ Killed
  BY <1>5 DEF CallFails, Killed
<1>6. CASE UNCHANGED vars
  BY <1>6 DEF vars
<1>7. QED
  BY <1>1, <1>3, <1>4, <1>5, <1>6 DEF Next, Run

(* Whoever cancels, asks for a dry run or is refused for the block size or *)
(* the size of the device finds the device as it was, wherever the program *)
(* fails or is stopped.                                                    *)
THEOREM NothingIsLost == Spec => []NothingLost
<1>1. KeptInv /\ [Next]_vars => KeptInv'
  BY EstablishedStep, KeptStep DEF KeptInv
<1>2. Init => KeptInv
  BY EstablishedInit, KeptInit DEF KeptInv
<1>3. KeptInv => NothingLost
  BY DEF KeptInv, Kept
<1>4. QED
  BY <1>1, <1>2, <1>3, PTL DEF Spec
-----------------------------------------------------------------------------
(* The first z cells have been zeroed. *)
Erased(z) == \A c \in 0 .. size - 1 : image[c] = IF c < z THEN Zero ELSE <<"old", c>>

(* Behind h cells of the header there are n of the table, which are not in *)
(* their place when the header was cut short.                              *)
Made(h, n) == \A c \in 0 .. size - 1 :
    image[c] = IF c < h THEN <<"new", c>>
               ELSE IF c < h + n THEN <<"new", HeaderSize(bs) + c - h>> ELSE Zero

Finished ==
    /\ bs \in BlockSizes /\ HeaderSize(bs) <= size /\ size <= Modulus - 1
    /\ \E h \in 0 .. HeaderSize(bs), n \in 0 .. TableSize :
         /\ Made(h, n) /\ (out = "ok" => pos = h + n)
         /\ "short" \notin Env => n \in {0, TableSize}

(* The image that each step of main finds. *)
Phases ==
    /\ oldbs \in BlockSizes
    /\ pc = "zero" /\ mode # "try" => Erased(zeroed)
    /\ pc = "header" => Erased(size)
    /\ pc = "table" => Made(pos, 0)
    /\ pc = "end" => \/ ~(out = "ok" /\ mode # "try") /\ \E z \in 0 .. size : Erased(z)
                     \/ Finished

ImageInv == PosInv /\ TypeOK /\ Kept /\ Phases

LEMMA ImageInit == ASSUME NoSizeWraps PROVE Init => ImageInv
<1>1. Init => Phases
  BY DEF Init, Phases
<1>2. QED
  BY <1>1, PosInvInit, TypeInit, KeptInit DEF ImageInv

(* What has just been written is there, the rest is as it was. *)
LEMMA WrittenCells ==
    ASSUME NEW p \in Nat, NEW n \in Nat, NEW o, size \in Nat, p + n <= size,
           DOMAIN image = 0 .. size - 1
    PROVE  \A c \in 0 .. size - 1 :
             Written(image, p, "new", o, n)[c] =
                 IF p <= c /\ c < p + n THEN <<"new", o + c - p>> ELSE image[c]
BY DEF Written

LEMMA WrittenZeros ==
    ASSUME NEW p \in Nat, NEW n \in Nat, size \in Nat, p + n <= size,
           DOMAIN image = 0 .. size - 1
    PROVE  \A c \in 0 .. size - 1 :
             Written(image, p, "zero", 0, n)[c] =
                 IF p <= c /\ c < p + n THEN Zero ELSE image[c]
BY DEF Written

(* A table is written behind the header, and there is room for it. *)
LEMMA TableFits ==
    ASSUME Established, pc \in {"confirm", "zero", "header", "table"}
    PROVE  /\ bs \in BlockSizes /\ size \in 0 .. Modulus - 1 /\ HeaderSize(bs) \in Nat
           /\ TableSize \in Nat /\ HeaderSize(bs) + TableSize <= size
<1>1. bs \in BlockSizes /\ HeaderSize(bs) <= size /\ size \in 0 .. Modulus - 1
  BY LayoutAssumption DEF Established
<1>2. QED
  BY <1>1, LayoutFits, InodeCountFits, HeaderBlocks, LayoutAssumption DEF TableSize

LEMMA PhasesStep == ImageInv /\ PosInv' /\ [Next]_vars => Phases'
<1> SUFFICES ASSUME ImageInv, PosInv', [Next]_vars PROVE Phases'
  OBVIOUS
<1> USE DEF ImageInv, PosInv, Positions, Kept, Phases, params, End
<1>1. size \in Nat /\ (image = Untouched => Erased(0))
  BY DEF Established, Erased, Untouched
<1>2. ASSUME pc \in {"options", "open", "layout", "confirm"}, UNCHANGED <<params, image, pos>>,
             zeroed' = zeroed, pc' \in {"open", "layout", "confirm", "zero"} \/
                               (pc' = "end" /\ out' # "ok")
      PROVE  Phases'
  BY <1>1, <1>2 DEF Erased
<1>3. CASE CheckOptions \/ OpenDevice \/ MakeLayout \/ Confirm
  BY <1>2, <1>3 DEF CheckOptions, OpenDevice, MakeLayout, Confirm
<1>4. CASE ZeroChunk
  <2>1. PICK n \in IF mode = "try" THEN {NextChunk(zeroed)} ELSE WriteSizes(NextChunk(zeroed)) :
           /\ zeroed' = Wrap(zeroed + n)
           /\ IF mode = "try" THEN UNCHANGED <<pos, image>>
              ELSE pos' = pos + n /\ image' = Written(image, pos, "zero", 0, n)
    BY <1>4 DEF ZeroChunk
  <2>2. pc = "zero" /\ pc' = "zero" /\ UNCHANGED <<params, out, sb>> /\ zeroed < size
    BY <1>4 DEF ZeroChunk
  <2>3. CASE mode = "try"
    BY <2>2, <2>3
  <2>4. CASE mode # "try"
    <3>1. pos = zeroed /\ pos' = zeroed' /\ pos' = pos + n /\ Erased(zeroed) /\ pos' \in 0 .. size
      BY <2>1, <2>2, <2>4
    <3>2. n \in Nat
      <4>1. zeroed + Chunk \in 0 .. Modulus - 1
        BY <1>1, <2>2, LayoutAssumption, RunAssumption DEF Established
      <4>2. NextChunk(zeroed) \in Nat /\ zeroed + NextChunk(zeroed) <= size
        BY <1>1, <2>2, <4>1, NoWrap, RunAssumption DEF NextChunk
      <4>3. QED
        BY <1>1, <2>1, <2>4, <3>1, <4>2, WriteSizesBound
    <3>3. \A c \in 0 .. size - 1 : image'[c] = IF pos <= c /\ c < pos + n THEN Zero ELSE image[c]
      <4>1. pos \in Nat /\ pos + n <= size /\ DOMAIN image = 0 .. size - 1
        BY <1>1, <3>1
      <4>2. image' = Written(image, pos, "zero", 0, n)
        BY <2>1, <2>4
      <4>3. QED
        BY <1>1, <3>2, <4>1, <4>2, WrittenZeros
    <3>4. Erased(zeroed)'
      BY <1>1, <2>2, <3>1, <3>2, <3>3 DEF Erased
    <3>5. QED
      BY <2>2, <3>4
  <2>5. QED
    BY <2>3, <2>4
<1>5. CASE MakeTable
  <2>1. pc = "zero" /\ zeroed >= size /\ UNCHANGED <<params, sb, zeroed, pos, image>>
        /\ \/ pc' = "header" /\ mode # "try"
           \/ pc' = "end" /\ ~(out' = "ok" /\ mode # "try")
    BY <1>5 DEF MakeTable
  <2>2. PICK z \in 0 .. size : Erased(z) /\ (mode # "try" => z = size)
    <3>1. mode # "try" => Erased(size)
      BY <1>1, <2>1 DEF Erased
    <3>2. mode = "try" => Erased(0)
      BY <1>1
    <3>3. size \in 0 .. size /\ 0 \in 0 .. size
      BY <1>1
    <3>4. QED
      BY <3>1, <3>2, <3>3
  <2>3. Erased(z)' /\ z \in 0 .. size'
    BY <2>1, <2>2 DEF Erased
  <2>4. CASE pc' = "header"
    <3>1. Erased(size)'
      BY <2>1, <2>2, <2>3, <2>4 DEF Erased
    <3>2. QED
      BY <2>1, <2>4, <3>1
  <2>5. CASE pc' = "end"
    BY <2>1, <2>3, <2>5
  <2>6. QED
    BY <2>1, <2>4, <2>5
<1>6. CASE WriteHeader
  <2>1. pc = "header" /\ pc' = "table" /\ UNCHANGED <<params, out, sb, zeroed>>
    BY <1>6 DEF WriteHeader
  <2>2. bs \in BlockSizes /\ HeaderSize(bs) <= size /\ HeaderSize(bs) \in Nat
    BY <2>1, HeaderBlocks DEF Established
  <2>3. PICK n \in 0 .. HeaderSize(bs) : image' = Written(image, 0, "new", 0, n) /\ pos' = n
    BY <1>6, <2>2 DEF WriteHeader
  <2>4. \A c \in 0 .. size - 1 : image'[c] = IF 0 <= c /\ c < 0 + n THEN <<"new", 0 + c - 0>>
                                              ELSE image[c]
    BY <1>1, <2>2, <2>3, WrittenCells
  <2>5. \A c \in 0 .. size - 1 : image[c] = Zero
    BY <1>1, <2>1 DEF Erased
  <2>6. \A c \in 0 .. size - 1 : image'[c] = IF c < n THEN <<"new", c>> ELSE Zero
    <3>1. \A c \in 0 .. size - 1 : 0 <= c /\ 0 + n = n /\ 0 + c - 0 = c
      BY <1>1, <2>2, <2>3
    <3>2. QED
      BY <2>4, <2>5, <3>1
  <2>7. pos' = n /\ size' = size
    BY <2>1, <2>3
  <2>8. Made(pos, 0)'
    <3>1. n + 0 = n
      BY <2>2, <2>3
    <3>2. QED
      BY <2>6, <2>7, <3>1 DEF Made
  <2>9. QED
    BY <2>1, <2>8
<1>7. CASE WriteTable
  <2>1. pc = "table" /\ pc' = "end" /\ out' = "ok" /\ UNCHANGED <<params, sb, zeroed>>
    BY <1>7 DEF WriteTable
  <2>2. /\ bs \in BlockSizes /\ size \in 0 .. Modulus - 1 /\ HeaderSize(bs) \in Nat
        /\ TableSize \in Nat /\ HeaderSize(bs) + TableSize <= size
    BY <2>1, TableFits
  <2>3. pos \in 0 .. HeaderSize(bs) /\ pos + TableSize <= size
    BY <1>1, <2>1, <2>2
  <2>4. PICK n \in WriteSizes(TableSize) :
           image' = Written(image, pos, "new", HeaderSize(bs), n) /\ pos' = pos + n
    BY <1>7 DEF WriteTable
  <2>5. n \in 0 .. TableSize /\ ("short" \notin Env => n = TableSize)
    BY <1>1, <2>2, <2>3, <2>4 DEF WriteSizes
  <2>6. \A c \in 0 .. size - 1 :
           image'[c] = IF pos <= c /\ c < pos + n THEN <<"new", HeaderSize(bs) + c - pos>>
                       ELSE image[c]
    <3>1. pos \in Nat /\ pos + n <= size /\ DOMAIN image = 0 .. size - 1 /\ n \in Nat
      BY <1>1, <2>2, <2>3, <2>5
    <3>2. QED
      BY <1>1, <2>4, <3>1, WrittenCells
  <2>7. UNCHANGED <<HeaderSize(bs), TableSize>>
    BY <2>1 DEF HeaderSize, HiddenSize, TableSize, InodeCount
  <2>8. PICK p : p = pos
    OBVIOUS
  <2>9. Made(p, n)'
    BY <1>1, <2>1, <2>2, <2>3, <2>5, <2>6, <2>7, <2>8 DEF Made
  <2>10. Finished'
    BY <2>1, <2>2, <2>3, <2>4, <2>5, <2>7, <2>8, <2>9 DEF Finished
  <2>11. QED
    BY <2>1, <2>10
<1>8. CASE CallFails \/ Killed
  <2>1. /\ pc # "end" /\ pc' = "end" /\ out' \notin {"ok", "none"}
        /\ UNCHANGED <<params, sb, zeroed, pos, image>>
    BY <1>8 DEF CallFails, Killed
  <2>2. CASE pc = "table"
    <3>1. /\ bs \in BlockSizes /\ size \in 0 .. Modulus - 1 /\ HeaderSize(bs) \in Nat
          /\ TableSize \in Nat /\ HeaderSize(bs) + TableSize <= size
      BY <2>2, TableFits
    <3>2. UNCHANGED <<HeaderSize(bs), TableSize>>
      BY <2>1 DEF HeaderSize, HiddenSize, TableSize, InodeCount
    <3>3. PICK p : p = pos
      OBVIOUS
    <3>4. Made(p, 0)'
      BY <2>1, <2>2, <3>2, <3>3 DEF Made
    <3>5. p \in 0 .. HeaderSize(bs) /\ 0 \in 0 .. TableSize
      BY <1>1, <2>2, <3>1, <3>3
    <3>6. Finished'
      BY <2>1, <3>1, <3>2, <3>4, <3>5 DEF Finished
    <3>7. QED
      BY <2>1, <3>6
  <2>3. CASE pc # "table"
    <3>1. PICK z \in 0 .. size : Erased(z)
      <4>1. 0 \in 0 .. size /\ size \in 0 .. size /\ (pc = "zero" => zeroed \in 0 .. size)
        BY <1>1
      <4>2. Erased(0) \/ Erased(size) \/ (pc = "zero" /\ Erased(zeroed))
        BY <1>1, <2>1, <2>3 DEF TypeOK
      <4>3. QED
        BY <4>1, <4>2
    <3>2. Erased(z)' /\ z \in 0 .. size'
      BY <2>1, <3>1 DEF Erased
    <3>3. QED
      BY <2>1, <3>2
  <2>4. QED
    BY <2>2, <2>3
<1>9. CASE UNCHANGED vars
  BY <1>9 DEF vars, Erased, Made, Finished, HeaderSize, HiddenSize, TableSize, InodeCount
<1>10. QED
  BY <1>3, <1>4, <1>5, <1>6, <1>7, <1>8, <1>9 DEF Next, Run

LEMMA ImageInvStep == ImageInv /\ [Next]_vars => ImageInv'
<1> SUFFICES ASSUME ImageInv, [Next]_vars PROVE ImageInv'
  OBVIOUS
<1>1. PosInv' /\ TypeOK' /\ Kept'
  BY EstablishedStep, PositionsStep, TypeStep, KeptStep DEF ImageInv, PosInv, KeptInv
<1>2. QED
  BY <1>1, PhasesStep DEF ImageInv

(* At every step of main the image is known cell by cell: zeros in front   *)
(* of the old volume, or the new header with the table behind it.          *)
THEOREM ImageKnown == ASSUME NoSizeWraps PROVE Spec => []ImageInv
<1>1. Init => ImageInv
  BY ImageInit
<1>2. QED
  BY <1>1, ImageInvStep, PTL DEF Spec
-----------------------------------------------------------------------------
(* A volume has its header and table in the device, whatever its size, as  *)
(* long as there is an inode: the product that wraps only becomes less.    *)
LEMMA VolumeInDevice ==
    ASSUME NEW b \in BlockSizes, size \in Nat, InodeCount(b, size) > 0
    PROVE  HeaderSize(b) \in Nat /\ HeaderSize(b) + ObjectSize * InodeCount(b, size) <= size
<1> DEFINE d == size - HeaderSize(b)
           n == (d \div b) * b
           w == Wrap(n)
           x == InodeCount(b, size)
<1>1. b \in Nat \ {0} /\ HeaderSize(b) \in Nat /\ ObjectSize \in Nat \ {0} /\ Modulus \in Nat \ {0}
  BY LayoutAssumption, HeaderBlocks DEF BlockSizes
<1>2. size > HeaderSize(b) /\ x = w \div (ObjectSize + b)
  BY DEF InodeCount
<1>3. d \in Nat
  BY <1>1, <1>2
<1>4. n \in Nat /\ n <= d
  BY <1>1, <1>3, Quotient
<1>5. w \in Nat /\ w <= n
  <2> HIDE DEF n
  <2>1. \A k \in Nat, m \in Nat \ {0} : k % m \in Nat /\ k % m <= k
    BY SMT
  <2>2. QED
    BY <1>1, <1>4, <2>1 DEF Wrap
<1>6. x \in Nat /\ x * (ObjectSize + b) <= w
  <2> HIDE DEF w
  <2>1. ObjectSize + b \in Nat \ {0}
    BY <1>1
  <2>2. QED
    BY <1>2, <1>5, <2>1, Quotient
<1> HIDE DEF w, n, d, x
<1>7. ObjectSize * x <= x * (ObjectSize + b) /\ ObjectSize * x \in Nat
  BY <1>1, <1>6, SMT
<1>8. ObjectSize * x <= size - HeaderSize(b)
  <2>1. x * (ObjectSize + b) \in Nat
    BY <1>1, <1>6
  <2>2. QED
    BY <1>1, <1>3, <1>4, <1>5, <1>6, <1>7, <2>1 DEF d
<1>9. QED
  BY <1>1, <1>7, <1>8 DEF x

LEMMA CellsDiffer ==
    /\ \A a : Zero # <<"old", a>> /\ Zero # <<"new", a>>
    /\ \A a, b : <<"new", a>> # <<"old", b>>
    /\ \A g, a, b : <<g, a>> = <<g, b>> => a = b
<1>1. \A g, a : <<g, a>>[1] = g /\ <<g, a>>[2] = a
  OBVIOUS
<1>2. Zero[1] = "zero"
  BY DEF Zero
<1>3. \A a : Zero # <<"old", a>> /\ Zero # <<"new", a>>
  BY <1>1, <1>2
<1>4. \A a, b : <<"new", a>> # <<"old", b>>
  BY <1>1
<1>5. \A g, a, b : <<g, a>> = <<g, b>> => a = b
  BY <1>1
<1>6. QED
  BY <1>3, <1>4, <1>5

(* Where a volume begins behind its padding, and where its superblock is.  *)
LEMMA Places ==
    ASSUME NEW b \in BlockSizes
    PROVE  /\ HiddenAt(b) = b /\ b \in Nat \ {0} /\ HeaderSize(b) \in Nat
           /\ SuperblockAt(b) \in Nat /\ SuperblockAt(b) < HeaderSize(b) /\ b < HeaderSize(b)
<1> DEFINE m == BlocksFor(ModuleSize, b)
<1>1. b \in Nat \ {0} /\ HiddenAt(b) = b
  BY LayoutAssumption DEF BlockSizes, HiddenAt, Larger
<1>2. m \in Nat /\ HeaderSize(b) = (m + 3) * b /\ SuperblockAt(b) = (m + 2) * b
  BY HeaderBlocks
<1> HIDE DEF m
<1>3. (m + 3) * b = m * b + 3 * b /\ (m + 2) * b = m * b + 2 * b /\ m * b \in Nat
  BY <1>1, <1>2
<1>4. QED
  BY <1>1, <1>2, <1>3, HeaderBlocks

(* The old volume can be mounted only while its header has not been        *)
(* touched, and then nothing behind it has.                                *)
LEMMA OldWhole ==
    ASSUME ImageInv, Mounts("old")
    PROVE  Whole("old")
<1> DEFINE b == oldbs
<1>1. b \in BlockSizes /\ size \in Nat /\ InodeCount(b, size) > 0 /\ DOMAIN image = 0 .. size - 1
  BY KernelAssumption DEF Mounts, BlockSize, ImageInv, PosInv, Positions, Established
<1>2. PICK o : Holds(o, "old", HiddenAt(b))
  BY DEF Mounts, BlockSize
<1>3. PICK z \in 0 .. size : Erased(z)
  <2>1. ASSUME NEW h, NEW n, Made(h, n) PROVE FALSE
    <3>1. image[o] = <<"old", HiddenAt(b)>> /\ o \in 0 .. size - 1
      BY <1>1, <1>2 DEF Holds
    <3>2. \/ image[o] = Zero \/ image[o] = <<"new", o>>
          \/ image[o] = <<"new", HeaderSize(bs) + o - h>>
      BY <2>1, <3>1 DEF Made
    <3>3. QED
      BY <3>1, <3>2, CellsDiffer
  <2>2. ~Finished /\ pc # "table"
    BY <2>1 DEF Finished, ImageInv, Phases
  <2>3. 0 \in 0 .. size /\ size \in 0 .. size /\ (pc = "zero" => zeroed \in 0 .. size)
    BY <1>1 DEF ImageInv, PosInv, Positions
  <2>4. image = Untouched => Erased(0)
    BY <1>1 DEF Untouched, Erased
  <2>5. \/ pc = "end" /\ \E z \in 0 .. size : Erased(z)
        \/ Erased(0) \/ Erased(size) \/ (pc = "zero" /\ Erased(zeroed))
    BY <2>2, <2>4 DEF ImageInv, Kept, Phases, TypeOK
  <2>6. QED
    BY <2>3, <2>5
<1>4. z <= HiddenAt(b)
  <2>1. o \in 0 .. size - 1 /\ image[o] = <<"old", HiddenAt(b)>>
    BY <1>1, <1>2 DEF Holds
  <2>2. ~(o < z) /\ o = HiddenAt(b)
    <3>1. image[o] = IF o < z THEN Zero ELSE <<"old", o>>
      BY <1>3, <2>1 DEF Erased
    <3>2. QED
      BY <2>1, <3>1, CellsDiffer
  <2>3. QED
    BY <1>3, <2>1, <2>2
<1>5. HeaderSize(b) \in Nat /\ HeaderSize(b) + ObjectSize * InodeCount(b, size) <= size
  BY <1>1, VolumeInDevice
<1>6. HiddenAt(b) \in Nat
  BY <1>1, Places
<1>7. ASSUME NEW o2 \in HiddenAt(b) .. HeaderSize(b) + ObjectSize * InodeCount(b, size) - 1
      PROVE  Holds(o2, "old", o2)
  <2>1. ObjectSize * InodeCount(b, size) \in Int
    BY <1>1, InodeCountType, LayoutAssumption
  <2>2. o2 \in 0 .. size - 1 /\ ~(o2 < z)
    BY <1>1, <1>3, <1>4, <1>5, <1>6, <2>1
  <2>3. QED
    BY <1>1, <1>3, <2>2 DEF Erased, Holds
<1>8. QED
  BY <1>7 DEF Whole, BlockSize, HiddenAt

(* No write stops within the root's object: what is written of the table   *)
(* is nothing or holds it.                                                 *)
RootWhole == ObjectSize = 1 \/ "short" \notin Env

(* The new volume can be mounted only when the header and the root are in  *)
(* place, and what follows the root is zeros, written or not.              *)
LEMMA NewWhole ==
    ASSUME RootWhole, ImageInv, Mounts("new")
    PROVE  Whole("new")
<1> DEFINE H == HeaderSize(bs)
           x == InodeCount(bs, size)
<1>1. bs \in BlockSizes /\ size \in Nat /\ x > 0 /\ DOMAIN image = 0 .. size - 1
  BY KernelAssumption DEF Mounts, BlockSize, ImageInv, PosInv, Positions, Established
<1>2. H \in Nat /\ H + ObjectSize * x <= size /\ x \in Nat /\ TableSize = ObjectSize * x
  BY <1>1, VolumeInDevice, InodeCountType DEF TableSize
<1>3. ObjectSize \in Nat \ {0} /\ ObjectSize <= ObjectSize * x /\ ObjectSize * x \in Nat
  BY <1>1, <1>2, LayoutAssumption
<1>4. ASSUME NEW o, NEW p, Holds(o, "new", p)
      PROVE  o \in 0 .. size - 1 /\ ~\E z \in 0 .. size : Erased(z)
  <2>1. o \in 0 .. size - 1 /\ image[o] = <<"new", p>>
    BY <1>1, <1>4 DEF Holds
  <2>2. QED
    BY <2>1, CellsDiffer DEF Erased
<1>5. PICK o : Holds(o, "new", HiddenAt(bs))
  BY DEF Mounts, BlockSize
<1>6. \/ pc = "table" /\ Made(pos, 0) /\ pos \in 0 .. H /\ size <= Modulus - 1
      \/ Finished
  <2>1. 0 \in 0 .. size /\ size \in 0 .. size /\ (pc = "zero" => zeroed \in 0 .. size)
    BY <1>1 DEF ImageInv, PosInv, Positions
  <2>2. image = Untouched => Erased(0)
    BY <1>1 DEF Untouched, Erased
  <2>3. \/ pc = "end" /\ ((\E z \in 0 .. size : Erased(z)) \/ Finished)
        \/ Erased(0) \/ Erased(size) \/ (pc = "zero" /\ Erased(zeroed)) \/ pc = "table"
    BY <2>2 DEF ImageInv, Kept, Phases, TypeOK
  <2>4. pc = "table" => Made(pos, 0) /\ pos \in 0 .. H /\ size <= Modulus - 1
    BY <1>2 DEF ImageInv, Phases, PosInv, Positions, Established
  <2>5. QED
    BY <1>4, <1>5, <2>1, <2>3, <2>4
<1>7. PICK h \in 0 .. H, n \in 0 .. TableSize :
          Made(h, n) /\ ("short" \notin Env => n \in {0, TableSize})
  BY <1>2, <1>3, <1>6 DEF Finished
<1>8. size \in 0 .. Modulus - 1 /\ H <= size
  BY <1>1, <1>2, <1>3, <1>6, LayoutAssumption DEF Finished
<1>9. Holds(H, "new", H)
  <2>1. TableFoundAt(Superblock(bs, size)) = H
    BY <1>1, <1>8, LayoutFits DEF AddressesAgree
  <2>2. QED
    BY <2>1 DEF Mounts, BlockSize
<1>10. h = H /\ n > 0
  <2>1. H \in 0 .. size - 1 /\ image[H] = <<"new", H>>
    BY <1>1, <1>9 DEF Holds
  <2>2. image[H] = IF H < h THEN <<"new", H>>
                   ELSE IF H < h + n THEN <<"new", H + H - h>> ELSE Zero
    BY <1>7, <2>1 DEF Made
  <2>3. H < h + n /\ H + H - h = H
    BY <1>2, <1>7, <2>1, <2>2, CellsDiffer
  <2>4. QED
    BY <1>2, <1>3, <1>7, <2>3
<1>11. n >= ObjectSize
  BY <1>2, <1>3, <1>7, <1>10 DEF RootWhole
<1>12. bs \in Nat /\ HiddenAt(bs) = bs
  BY <1>1, Places
<1>13. ASSUME NEW c \in HiddenAt(bs) .. H + ObjectSize * x - 1
       PROVE  Holds(c, "new", c) \/ (c >= H + ObjectSize /\ image[c] = Zero)
  <2>1. c \in 0 .. size - 1
    BY <1>1, <1>2, <1>3, <1>12
  <2>2. image[c] = IF c < H THEN <<"new", c>>
                   ELSE IF c < H + n THEN <<"new", H + c - H>> ELSE Zero
    BY <1>7, <1>10, <2>1 DEF Made
  <2>3. H + c - H = c
    BY <1>2, <2>1
  <2>4. image[c] = <<"new", c>> \/ (c >= H + n /\ image[c] = Zero)
    BY <1>2, <1>3, <1>7, <2>1, <2>2, <2>3
  <2>5. c >= H + n => c >= H + ObjectSize
    BY <1>2, <1>3, <1>7, <1>11, <2>1
  <2>6. QED
    BY <1>1, <2>1, <2>4, <2>5 DEF Holds
<1>14. QED
  BY <1>13 DEF Whole, BlockSize, HiddenAt

(* Whatever fails, is cut short or ends the process, a volume that can be  *)
(* mounted is whole, the old one and the new one alike: the header of the  *)
(* old volume goes first, and the new table comes last.                    *)
THEOREM NeverHalfMade == ASSUME NoSizeWraps, RootWhole PROVE Spec => []NeverHalf
<1>1. ImageInv => NeverHalf
  BY OldWhole, NewWhole DEF NeverHalf
<1>2. QED
  BY <1>1, ImageKnown, PTL
-----------------------------------------------------------------------------
(* The hidden data is within what fill_super searches. *)
HeaderInReach == MaxBlock < ScanSize

(* After success every cell of the header and the table is in place. *)
LEMMA SuccessImage ==
    ASSUME ImageInv, pc = "end", out = "ok", mode # "try", pos = HeaderSize(bs) + TableSize
    PROVE  /\ bs \in BlockSizes /\ size \in 0 .. Modulus - 1 /\ HeaderSize(bs) <= size
           /\ DOMAIN image = 0 .. size - 1 /\ Made(HeaderSize(bs), TableSize)
<1>1. Finished
  BY DEF ImageInv, Phases
<1>2. bs \in BlockSizes /\ HeaderSize(bs) <= size /\ size \in 0 .. Modulus - 1
      /\ DOMAIN image = 0 .. size - 1
  BY <1>1, LayoutAssumption DEF Finished, ImageInv, PosInv, Positions, Established
<1>3. HeaderSize(bs) \in Nat /\ TableSize \in Nat
  BY <1>2, InodeCountFits, HeaderBlocks, LayoutAssumption DEF TableSize
<1>4. PICK h \in 0 .. HeaderSize(bs), n \in 0 .. TableSize : Made(h, n) /\ pos = h + n
  BY <1>1 DEF Finished
<1>5. h = HeaderSize(bs) /\ n = TableSize
  BY <1>3, <1>4
<1>6. QED
  BY <1>2, <1>4, <1>5

LEMMA SuccessFound ==
    ASSUME HeaderInReach, bs \in KernelBlocks, ImageInv, pc = "end",
           out = "ok", mode # "try", TableSize > 0, pos = HeaderSize(bs) + TableSize,
           size >= ScanSize, ~ModuleMisleads
    PROVE  Mounts("new")
<1> DEFINE H == HeaderSize(bs)
<1>1. /\ bs \in BlockSizes /\ size \in 0 .. Modulus - 1 /\ H <= size
      /\ DOMAIN image = 0 .. size - 1 /\ Made(H, TableSize)
  BY SuccessImage
<1>2. /\ HiddenAt(bs) = bs /\ bs \in Nat \ {0} /\ H \in Nat /\ bs < H
      /\ SuperblockAt(bs) \in Nat /\ SuperblockAt(bs) < H
  BY <1>1, Places
<1>3. InodeCount(bs, size) \in Nat /\ InodeCount(bs, size) > 0 /\ TableSize \in Nat
  BY <1>1, InodeCountFits, LayoutAssumption DEF TableSize
<1>4. H + TableSize <= size
  BY <1>1, LayoutFits DEF TableSize
<1>5. ASSUME NEW c \in 0 .. size - 1
      PROVE  image[c] = IF c < H + TableSize THEN <<"new", c>> ELSE Zero
  <2>1. image[c] = IF c < H THEN <<"new", c>>
                   ELSE IF c < H + TableSize THEN <<"new", H + c - H>> ELSE Zero
    BY <1>1 DEF Made
  <2>2. H + c - H = c
    BY <1>2
  <2>3. QED
    BY <1>2, <1>3, <2>1, <2>2
<1>6. ASSUME NEW c \in 0 .. H PROVE Holds(c, "new", c)
  BY <1>1, <1>2, <1>3, <1>4, <1>5, <1>6 DEF Holds
<1>7. ASSUME NEW c, NEW g \in {"old", "new"}, NEW p, Holds(c, g, p)
      PROVE  g = "new" /\ p = c
  <2>1. c \in 0 .. size - 1 /\ image[c] = <<g, p>>
    BY <1>1, <1>7 DEF Holds
  <2>2. QED
    BY <1>5, <2>1, CellsDiffer
<1>8. ScanSize \in Nat /\ ModuleSize \in Nat /\ bs < ScanSize
  BY <1>1, LayoutAssumption, RunAssumption DEF HeaderInReach, BlockSizes
<1>9. bs \in Marks
  <2>1. Holds(bs, "new", bs) /\ bs \in 0 .. ScanSize - 1
    BY <1>2, <1>6, <1>8
  <2>2. QED
    BY <1>2, <2>1 DEF Marks, Marked, BlockSize
<1>10. ASSUME NEW c \in Marks PROVE c <= bs
  <2>1. c \in 0 .. ScanSize - 1
        /\ \E g \in {"old", "new"} :
             \E p \in StrayAt(BlockSize(g)) \cup {HiddenAt(BlockSize(g))} : Holds(c, g, p)
    BY DEF Marks, Marked
  <2>2. c \in StrayAt(bs) \cup {HiddenAt(bs)}
    BY <1>7, <2>1 DEF BlockSize
  <2>3. CASE c \in StrayAt(bs)
    <3>1. c = 0 \/ ("module" \in stray /\ c = HiddenAt(bs) + bs + ModuleSize - 1)
      BY <2>3 DEF StrayAt
    <3>2. "module" \in stray => HiddenAt(bs) + bs + ModuleSize > ScanSize
      BY <1>2, <1>8 DEF ModuleMisleads
    <3>3. QED
      BY <1>2, <1>8, <2>1, <3>1, <3>2
  <2>4. QED
    BY <1>2, <2>2, <2>3
<1>11. \E o \in Marks : IsHeader(o) /\ Holds(o, "new", HiddenAt(bs))
  BY <1>2, <1>6, <1>9, <1>10 DEF IsHeader
<1>12. Holds(MountReads(SuperblockOffset(bs)), "new", SuperblockAt(bs))
  <2>1. MountReads(SuperblockOffset(bs)) = SuperblockAt(bs)
    BY <1>1, SuperblockFound, KernelAssumption
  <2>2. QED
    BY <1>2, <1>6, <2>1
<1>13. Holds(TableFoundAt(Superblock(bs, size)), "new", H)
  <2>1. TableFoundAt(Superblock(bs, size)) = H
    BY <1>1, LayoutFits DEF AddressesAgree
  <2>2. QED
    BY <1>2, <1>6, <2>1
<1>14. 0 .. ScanSize - 1 \subseteq DOMAIN image
  BY <1>1, <1>8
<1>15. QED
  BY <1>1, <1>3, <1>11, <1>12, <1>13, <1>14 DEF Mounts, BlockSize

(* After a success the kernel module can mount the new volume, for every   *)
(* size of device, object and kernel module and every size of block that   *)
(* the kernel takes: the last start marker in what it searches is that of  *)
(* the header, and the superblock and the root's object are where it looks *)
(* for them.                                                               *)
THEOREM SuccessIsMountable ==
    ASSUME NoSizeWraps, HeaderInReach PROVE Spec => []SuccessMounts
<1>1. ImageInv => SuccessMounts
  BY SuccessFound DEF SuccessMounts, ImageInv, Kept
<1>2. QED
  BY <1>1, ImageKnown, PTL
-----------------------------------------------------------------------------
(* infofs and viewfs find and describe every volume that the kernel module *)
(* can mount as the module does, for every size of device, block, object   *)
(* and kernel module, and whatever bytes a header may hold by chance.      *)

(* No device is larger than what mkfs accepts. *)
SizesAccepted == \A s \in Sizes : s <= Modulus - 1

(* The header, of the old volume and of the new one, is never anywhere but *)
(* in its place; only a table may be displaced, by a header cut short.     *)
InPlace ==
    \A c \in DOMAIN image :
        /\ image[c][1] = "old" => image[c][2] = c
        /\ image[c][1] = "new" /\ image[c][2] < HeaderSize(bs) => image[c][2] = c

PlaceInv == size \in Sizes /\ pos \in Nat /\ zeroed \in Nat /\ InPlace

(* A write keeps the header in place when what it writes is zeros, a part  *)
(* of the header at the start of the device, or the table.                 *)
LEMMA WrittenInPlace ==
    ASSUME NEW p \in Nat, NEW g \in {"zero", "new"}, NEW o \in Nat, NEW n \in Nat, InPlace,
           image' = Written(image, p, g, o, n), bs' = bs, HeaderSize(bs) \in Nat,
           g = "new" => (p = 0 /\ o = 0) \/ o >= HeaderSize(bs)
    PROVE  InPlace'
<1> SUFFICES ASSUME NEW c \in DOMAIN image'
             PROVE  /\ image'[c][1] = "old" => image'[c][2] = c
                    /\ image'[c][1] = "new" /\ image'[c][2] < HeaderSize(bs) => image'[c][2] = c
  BY DEF InPlace
<1>1. image'[c] = IF c \in p .. p + n - 1 THEN IF g = "zero" THEN Zero ELSE <<g, o + c - p>>
                  ELSE image[c]
  BY DEF Written
<1>2. c \in p .. p + n - 1 \/ c \in DOMAIN image
  BY DEF Written
<1>3. CASE c \in p .. p + n - 1 /\ g = "zero"
  BY <1>1, <1>3 DEF Zero
<1>4. CASE c \in p .. p + n - 1 /\ g = "new"
  <2>1. image'[c][1] = "new" /\ image'[c][2] = o + c - p
    BY <1>1, <1>4
  <2>2. CASE p = 0 /\ o = 0
    BY <1>4, <2>1, <2>2
  <2>3. CASE o >= HeaderSize(bs)
    BY <1>4, <2>1, <2>3
  <2>4. QED
    BY <1>4, <2>2, <2>3
<1>5. CASE c \notin p .. p + n - 1
  BY <1>1, <1>2, <1>5 DEF InPlace
<1>6. QED
  BY <1>3, <1>4, <1>5

LEMMA PlaceInit == Init => PlaceInv
<1> SUFFICES ASSUME Init PROVE PlaceInv
  OBVIOUS
<1>1. InPlace
  BY DEF Init, Untouched, InPlace
<1>2. QED
  BY <1>1 DEF Init, PlaceInv

(* How many bytes a write of a natural number of bytes does. *)
LEMMA WriteSizesNat ==
    ASSUME NEW n \in Nat, pos \in Nat, size \in Nat, pos <= size \/ regular
    PROVE  WriteSizes(n) \subseteq Nat
BY DEF WriteSizes

LEMMA PlaceStep == PosInv /\ PlaceInv /\ [Next]_vars => PlaceInv'
<1> SUFFICES ASSUME PosInv, PlaceInv, [Next]_vars PROVE PlaceInv'
  OBVIOUS
<1> USE DEF PlaceInv, params, End
<1>1. CASE CheckOptions \/ OpenDevice \/ MakeLayout \/ Confirm \/ MakeTable \/ CallFails \/ Killed
  BY <1>1 DEF CheckOptions, OpenDevice, MakeLayout, Confirm, MakeTable, CallFails, Killed, InPlace
<1>2. CASE ZeroChunk
  <2>1. PICK n \in IF mode = "try" THEN {NextChunk(zeroed)} ELSE WriteSizes(NextChunk(zeroed)) :
           /\ zeroed' = Wrap(zeroed + n)
           /\ IF mode = "try" THEN UNCHANGED <<pos, image>>
              ELSE pos' = pos + n /\ image' = Written(image, pos, "zero", 0, n)
    BY <1>2 DEF ZeroChunk
  <2>2. pc = "zero" /\ zeroed < size /\ size' = size /\ bs' = bs /\ bs \in BlockSizes
    BY <1>2 DEF ZeroChunk, PosInv, Established
  <2>3. size \in Nat /\ Chunk \in Nat /\ NextChunk(zeroed) \in Nat /\ HeaderSize(bs) \in Nat
    <3>1. size \in Nat /\ Chunk \in Nat
      BY RunAssumption, LayoutAssumption DEF PosInv, Established
    <3>2. HeaderSize(bs) \in Nat
      BY <2>2, HeaderBlocks
    <3>3. QED
      BY <2>2, <3>1, <3>2 DEF NextChunk
  <2>4. mode # "try" => pos <= size
    BY <2>2, <2>3 DEF PosInv, Positions
  <2>5. n \in Nat
    BY <2>1, <2>3, <2>4, WriteSizesNat
  <2>6. zeroed' \in Nat
    BY <2>1, <2>5, LayoutAssumption DEF Wrap
  <2>7. InPlace'
    <3>1. CASE mode = "try"
      BY <2>1, <2>2, <3>1 DEF InPlace
    <3>2. CASE mode # "try"
      BY <2>1, <2>2, <2>3, <2>5, <3>2, WrittenInPlace
    <3>3. QED
      BY <3>1, <3>2
  <2>8. QED
    BY <2>1, <2>2, <2>5, <2>6, <2>7
<1>3. CASE WriteHeader
  <2>1. bs \in BlockSizes /\ bs' = bs /\ size' = size /\ zeroed' = zeroed
    BY <1>3 DEF WriteHeader, PosInv, Established
  <2>2. HeaderSize(bs) \in Nat
    BY <2>1, HeaderBlocks
  <2>3. PICK n \in 0 .. HeaderSize(bs) : image' = Written(image, 0, "new", 0, n) /\ pos' = n
    BY <1>3, <2>2 DEF WriteHeader
  <2>4. InPlace'
    BY <2>1, <2>2, <2>3, WrittenInPlace
  <2>5. QED
    BY <2>1, <2>3, <2>4
<1>4. CASE WriteTable
  <2>1. bs \in BlockSizes /\ bs' = bs /\ size' = size /\ zeroed' = zeroed
        /\ size \in 0 .. Modulus - 1 /\ HeaderSize(bs) <= size
    BY <1>4, LayoutAssumption DEF WriteTable, PosInv, Established
  <2>2. HeaderSize(bs) \in Nat /\ TableSize \in Nat /\ pos <= size /\ size \in Nat
    BY <1>4, <2>1, HeaderBlocks, InodeCountFits, LayoutAssumption
    DEF TableSize, WriteTable, PosInv, Positions
  <2>3. PICK n \in WriteSizes(TableSize) :
           image' = Written(image, pos, "new", HeaderSize(bs), n) /\ pos' = pos + n
    BY <1>4 DEF WriteTable
  <2>4. n \in Nat
    BY <2>2, <2>3, WriteSizesNat
  <2>5. InPlace'
    BY <2>1, <2>2, <2>3, <2>4, WrittenInPlace
  <2>6. QED
    BY <2>1, <2>3, <2>4, <2>5
<1>5. CASE UNCHANGED vars
  BY <1>5 DEF vars, InPlace
<1>6. QED
  BY <1>1, <1>2, <1>3, <1>4, <1>5 DEF Next, Run
-----------------------------------------------------------------------------
(* What infofs computes from the sizes in the superblock is what mkfs has  *)
(* written there.                                                          *)
LEMMA InfoIsRight ==
    ASSUME NEW b \in BlockSizes, NEW s \in 0 .. Modulus - 1, HeaderSize(b) <= s
    PROVE  InfoAgrees(Superblock(b, s), Info(Superblock(b, s), SuperblockOffset(b), s))
<1> DEFINE S == Superblock(b, s)
           H == HeaderSize(b)
           x == InodeCount(b, s)
           T == ObjectSize * x
           c == BlocksFor(T, b)
           m == BlocksFor(ModuleSize, b)
<1>1. /\ b \in Nat /\ m \in Nat /\ H = (m + 3) * b /\ SuperblockOffset(b) = (m + 2) * b
  BY HeaderBlocks, OffsetIsPlace, LayoutAssumption DEF BlockSizes
<1>2. /\ x \in Nat /\ c \in Nat /\ T \in Nat /\ c * b \in Nat /\ x * b \in Nat
      /\ Wrap(T) = T /\ Wrap(c * b) = c * b /\ Wrap(x * b) = x * b
      /\ S.block_size = b /\ S.total_inodes = x /\ S.block_count = x
      /\ S.inode_table_size = T
      /\ S.inode_table_clusters = c /\ S.inode_table_storage_size = c * b
      /\ S.inode_table_offset = H /\ S.data_blocks_offset = H + c * b
      /\ S.data_blocks_total_size = x * b
      /\ S.unallocated_space_size = s - (H + c * b + x * b)
  BY LayoutValues
<1>3. x * ObjectSize = T
  BY <1>2, LayoutAssumption
<1> HIDE DEF S, H, x, T, c, m
<1>4. (m + 2) * b + b = H /\ H \in Nat /\ b * c = c * b /\ s \in Nat
  BY <1>1, <1>2, LayoutAssumption, SMT
<1>5. Clusters(S) = c
  BY <1>2, <1>3 DEF Clusters, c
<1> DEFINE I == Info(S, SuperblockOffset(b), s)
<1>6. /\ I.inode_table_size = T /\ I.inode_table_clusters = c
      /\ I.inode_table_storage_size = c * b /\ I.inode_table_offset = H
      /\ I.data_blocks_offset = H + c * b /\ I.data_blocks_total_size = x * b
      /\ I.unallocated_space_size = s - (H + c * b) - x * b
  BY <1>1, <1>2, <1>3, <1>4, <1>5 DEF Info
<1>7. s - (H + c * b) - x * b = s - (H + c * b + x * b)
  BY <1>2, <1>4
<1>8. DOMAIN I = {"inode_table_size", "inode_table_clusters", "inode_table_storage_size",
                  "inode_table_offset", "data_blocks_offset", "data_blocks_total_size",
                  "data_blocks_end_offset", "unallocated_space_size"}
  BY DEF Info
<1> HIDE DEF I
<1>9. \A f \in DOMAIN I \ {"data_blocks_end_offset"} : I[f] = S[f]
  BY <1>2, <1>6, <1>7, <1>8
<1>10. QED
  BY <1>9 DEF InfoAgrees, I, S

(* viewfs reads every block from where the kernel module keeps it, and all *)
(* of it.                                                                  *)
LEMMA ViewIsRight ==
    ASSUME NEW b \in BlockSizes, size \in 0 .. Modulus - 1, HeaderSize(b) <= size
    PROVE  ViewAgrees(Superblock(b, size))
<1> DEFINE S == Superblock(b, size)
           H == HeaderSize(b)
           x == InodeCount(b, size)
           c == BlocksFor(ObjectSize * x, b)
           d == S.data_blocks_offset
<1>1. b \in Nat \ {0} /\ H \in Nat /\ size \in Nat
  BY HeaderBlocks, LayoutAssumption DEF BlockSizes
<1>2. /\ x \in Nat /\ c * b \in Nat /\ x * b \in Nat /\ S.block_size = b /\ S.block_count = x
      /\ d = H + c * b /\ H + c * b + x * b <= size
  BY LayoutValues
<1>3. AddressesAgree(S, b)
  BY LayoutFits
<1> HIDE DEF S, H, x, c
<1>4. d \in Nat /\ d + x * b <= size
  BY <1>1, <1>2
<1> SUFFICES ASSUME NEW i \in 0 .. x - 1, NEW skip \in 0 .. b - 1
             PROVE  /\ ViewOffset(S, i, skip) = DataFoundAt(S, i) + skip
                    /\ ViewRead(ViewOffset(S, i, skip), b - skip) = b - skip
  BY <1>2 DEF ViewAgrees, S
<1>5. DataFoundAt(S, i) = d + i * b
  BY <1>2, <1>3 DEF AddressesAgree
<1> HIDE DEF d
<1>6. i * b \in Nat /\ i * b + b <= x * b
  <2>1. i \in Nat /\ i + 1 <= x
    BY <1>2
  <2>2. (i + 1) * b <= x * b /\ (i + 1) * b = i * b + b
    BY <1>1, <1>2, <2>1, SMT
  <2>3. QED
    BY <1>1, <2>1, <2>2, SMT
<1>7. d + i * b + b <= size /\ skip \in Nat /\ skip < b
  BY <1>1, <1>2, <1>4, <1>6
<1>8. /\ Wrap(i * b) = i * b /\ Wrap(d + i * b) = d + i * b
      /\ Wrap(d + i * b + skip) = d + i * b + skip
  <2> HIDE DEF d
  <2>1. \A n \in 0 .. Modulus - 1 : Wrap(n) = n
    BY NoWrap
  <2>2. QED
    BY <1>1, <1>4, <1>6, <1>7, <2>1, LayoutAssumption
<1>9. ViewOffset(S, i, skip) = d + i * b + skip
  BY <1>2, <1>8 DEF ViewOffset, d
<1>10. ViewRead(d + i * b + skip, b - skip) = b - skip
  BY <1>1, <1>4, <1>6, <1>7 DEF ViewRead
<1>11. QED
  BY <1>5, <1>9, <1>10

LEMMA AgreeStatic ==
    ASSUME PlaceInv, SizesAccepted PROVE ToolsAgree
<1> SUFFICES ASSUME NEW g \in {"old", "new"}, Mounts(g)
             PROVE  LET s == Superblock(BlockSize(g), size)
                    IN  /\ ToolFinds(g)
                        /\ InfoAgrees(s, Info(s, SuperblockOffset(s.block_size), size))
                        /\ ViewAgrees(s)
  BY DEF ToolsAgree
<1> DEFINE b == BlockSize(g)
<1>1. b \in BlockSizes /\ InodeCount(b, size) > 0
  BY KernelAssumption DEF Mounts
<1>2. size \in 0 .. Modulus - 1
  BY LayoutAssumption, RunAssumption DEF PlaceInv, SizesAccepted
<1>3. HeaderSize(b) <= size /\ HeaderSize(b) \in Nat
  BY <1>1, <1>2, HeaderBlocks DEF InodeCount
<1>4. SuperblockOffset(b) = SuperblockAt(b) /\ SuperblockAt(b) < HeaderSize(b)
  <2> DEFINE m == BlocksFor(ModuleSize, b)
  <2>1. /\ m \in Nat /\ b \in Nat \ {0}
        /\ HeaderSize(b) = (m + 3) * b /\ SuperblockAt(b) = (m + 2) * b
    BY <1>1, HeaderBlocks, LayoutAssumption DEF BlockSizes
  <2> HIDE DEF m
  <2>2. (m + 3) * b = (m + 2) * b + b /\ (m + 2) * b \in Nat
    BY <2>1, SMT
  <2>3. QED
    BY <1>1, <2>1, <2>2, OffsetIsPlace
<1>5. ToolFinds(g)
  <2> DEFINE q == MountReads(SuperblockOffset(b))
  <2>1. q \in DOMAIN image /\ image[q] = <<g, SuperblockAt(b)>>
    BY DEF Mounts, Holds
  <2>2. g = "new" => b = bs
    BY DEF BlockSize
  <2> HIDE DEF q, b
  <2>3. image[q][1] = g /\ image[q][2] = SuperblockAt(b)
    BY <2>1
  <2>4. q = SuperblockAt(b)
    BY <1>4, <2>1, <2>2, <2>3 DEF PlaceInv, InPlace
  <2>5. Holds(SuperblockOffset(b), g, SuperblockAt(b))
    BY <1>4, <2>1, <2>4 DEF Holds
  <2>6. \E o \in Marks : IsHeader(o) /\ Holds(o, g, HiddenAt(b))
    BY DEF Mounts, b
  <2>7. QED
    BY <2>5, <2>6 DEF ToolFinds, b
<1>6. Superblock(b, size).block_size = b
  BY DEF Superblock
<1>7. QED
  BY <1>1, <1>2, <1>3, <1>5, <1>6, InfoIsRight, ViewIsRight

(* Every volume that the kernel module can mount, at any moment of a run   *)
(* of mkfs, the tools find too; the sizes and offsets that infofs computes *)
(* are those the module works with, and viewfs reads every block from the  *)
(* place where the module keeps it.                                        *)
THEOREM ToolsReadAlike ==
    ASSUME NoSizeWraps, SizesAccepted PROVE Spec => []ToolsAgree
<1>1. PlaceInv => ToolsAgree
  BY AgreeStatic
<1>2. QED
  BY <1>1, PlaceInit, PlaceStep, PositionsKnown, PTL DEF Spec
=============================================================================
