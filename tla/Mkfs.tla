-------------------------------- MODULE Mkfs --------------------------------
(***************************************************************************)
(* A run of mkfs.yukifs (main of src/src/mkfs/mkfs.c) on a device or image *)
(* that may hold an older volume, up to what fill_super can mount of it.   *)
(* A step is one system call that touches the device, or the decisions     *)
(* between two of them.  The image is what the kernel shows of the device: *)
(* mkfs never waits for it to be stored, and what a loss of power leaves   *)
(* of it is not modelled.                                                  *)
(*                                                                         *)
(* A cell of the image says which volume it belongs to, the old or the     *)
(* new one, and at which offset of that volume it was meant to be.         *)
(***************************************************************************)
EXTENDS MkfsLayout, FiniteSets

CONSTANTS
    Sizes,      \* sizes of devices and images
    Asked,      \* arguments of --block-size
    Chunk,      \* bytes zeroed by one write, 4096
    MaxPos,     \* bound: an image file does not grow beyond this
    ScanSize,   \* how much fill_super searches for the header, 16 KiB
    KernelBlocks, \* the block sizes of mkfs that sb_set_blocksize takes
    Stray,      \* parts of a header that may hold the two bytes of the start
                \* marker by chance: "elf", "module"
    Env         \* "kill": the process is ended; "fault": a call fails;
                \* "short": a write stops early

ASSUME RunAssumption ==
    /\ Sizes \subseteq Nat /\ Asked \subseteq Nat
    /\ Chunk \in 1 .. Modulus - 1 /\ MaxPos \in Nat
    /\ ScanSize \in Nat /\ Stray \subseteq {"elf", "module"}
    /\ Env \subseteq {"kill", "fault", "short"}

(* External: for the size of a block sb_set_blocksize takes powers of two  *)
(* from that of the device's own blocks to that of a page, and refuses     *)
(* others.  fill_super does not look which it did.                         *)
ASSUME KernelAssumption ==
    /\ KernelBlocks \subseteq BlockSizes
    /\ \A b \in KernelBlocks : \E k \in 1 .. b : b = k * MinBlock

VARIABLES
    pc,         \* where main is
    out,        \* how it ended
    size,       \* device_size
    bs,         \* block_size
    oldbs,      \* block size of the volume that was there
    mode,       \* no option, --yes or --try-run
    regular,    \* an image file, which grows when written past its end
    stray,      \* the parts that do hold them: kernel module, ELF stub
    sb,         \* superblock
    zeroed,     \* bytes_written_zero
    pos,        \* file offset of fd
    image       \* what is on the device

vars   == <<pc, out, size, bs, oldbs, mode, regular, stray, sb, zeroed, pos, image>>
params == <<size, bs, oldbs, mode, regular, stray>>

Zero == <<"zero", 0>>
Cell == {"zero", "old", "new"} \X Nat
NoSuperblock == [block_size |-> 0]

Untouched == [o \in 0 .. size - 1 |-> <<"old", o>>]

(* Image im with n cells of volume g, from offset o of it, written at p.   *)
Written(im, p, g, o, n) ==
    [c \in DOMAIN im \cup p .. p + n - 1 |->
        IF c \in p .. p + n - 1 THEN IF g = "zero" THEN Zero ELSE <<g, o + c - p>>
        ELSE im[c]]

TableSize == ObjectSize * InodeCount(bs, size)

(* How much a write of n may do: a device ends, and a call may stop early. *)
WriteSizes(n) ==
    LET most == IF regular \/ pos + n <= size THEN n ELSE size - pos
    IN  IF "short" \in Env /\ most > 0 THEN 1 .. most ELSE {most}

(* Slips: a full chunk each time; whole chunks only. *)
BadNextChunk(z)      == Chunk
BadNextChunkWhole(z) == IF size - z < Chunk THEN 0 ELSE Chunk

(* The length of the next write of zeros when z are written. *)
NextChunk(z) == IF Wrap(z + Chunk) > size THEN size - z ELSE Chunk

End(o) == pc' = "end" /\ out' = o
-----------------------------------------------------------------------------
Init ==
    /\ pc = "options" /\ out = "none"
    /\ size \in Sizes /\ bs \in Asked /\ oldbs \in BlockSizes
    /\ mode \in {"ask", "yes", "try"} /\ regular \in BOOLEAN
    /\ stray \in SUBSET Stray
    /\ sb = NoSuperblock /\ zeroed = 0 /\ pos = 0
    /\ image = Untouched

CheckOptions ==
    /\ pc = "options"
    /\ IF bs \in BlockSizes THEN pc' = "open" /\ UNCHANGED out ELSE End("error")
    /\ UNCHANGED <<params, sb, zeroed, pos, image>>

(* A dry run opens nothing: its size is that of /dev/memory/<size>, or     *)
(* what the path_stat that stat was hardly ever called for happens to      *)
(* hold.  size is that number then, any of Sizes, and image a device of    *)
(* such a length; a number that is too large, or more than can be          *)
(* allocated, ends the run.                                                *)
OpenDevice ==
    /\ pc = "open"
    /\ \/ IF size > Modulus - 1 THEN End("error") ELSE pc' = "layout" /\ UNCHANGED out
       \/ mode = "try" /\ End("error")
    /\ UNCHANGED <<params, sb, zeroed, pos, image>>

(* Slip: a device too small for the header is not refused. *)
BadMakeLayout ==
    /\ pc = "layout"
    /\ sb' = Superblock(bs, size)
    /\ pc' = "confirm"
    /\ UNCHANGED <<params, out, zeroed, pos, image>>

MakeLayout ==
    /\ pc = "layout"
    /\ sb' = Superblock(bs, size)
    /\ IF size < HeaderSize(bs) THEN End("error") ELSE pc' = "confirm" /\ UNCHANGED out
    /\ UNCHANGED <<params, zeroed, pos, image>>

(* Slip: the device is not zeroed first. *)
BadConfirm ==
    /\ pc = "confirm"
    /\ \/ pc' = "header" /\ UNCHANGED out
       \/ mode = "ask" /\ End("cancelled")
    /\ UNCHANGED <<params, sb, zeroed, pos, image>>

Confirm ==
    /\ pc = "confirm"
    /\ \/ pc' = "zero" /\ UNCHANGED out
       \/ mode = "ask" /\ End("cancelled")
    /\ UNCHANGED <<params, sb, zeroed, pos, image>>

(* One round of the loop that zeroes the device; bytes_written_zero and    *)
(* the sum it is compared by are 32 bit variables.                         *)
ZeroChunk ==
    /\ pc = "zero" /\ zeroed < size
    /\ \E n \in IF mode = "try" THEN {NextChunk(zeroed)} ELSE WriteSizes(NextChunk(zeroed)) :
         /\ pos + n <= MaxPos
         /\ zeroed' = Wrap(zeroed + n)
         /\ IF mode = "try" THEN UNCHANGED <<pos, image>>
            ELSE pos' = pos + n /\ image' = Written(image, pos, "zero", 0, n)
    /\ UNCHANGED <<params, pc, out, sb>>

(* The table is allocated and the root directory put in its first object,  *)
(* which is behind the end of a table of no objects: what then happens to  *)
(* the heap may end the program.  The dry run ends here.                   *)
MakeTable ==
    /\ pc = "zero" /\ zeroed >= size
    /\ \/ IF mode = "try" THEN End("ok") ELSE pc' = "header" /\ UNCHANGED out
       \/ TableSize = 0 /\ End("error")
    /\ UNCHANGED <<params, sb, zeroed, pos, image>>

(* A header that was cut short is worth a warning, and the table follows.  *)
WriteHeader ==
    /\ pc = "header"
    /\ \E n \in IF "short" \in Env THEN 1 .. HeaderSize(bs) ELSE {HeaderSize(bs)} :
         image' = Written(image, 0, "new", 0, n) /\ pos' = n
    /\ pc' = "table"
    /\ UNCHANGED <<params, out, sb, zeroed>>

WriteTable ==
    /\ pc = "table"
    /\ \E n \in WriteSizes(TableSize) :
         image' = Written(image, pos, "new", HeaderSize(bs), n) /\ pos' = pos + n
    /\ End("ok")
    /\ UNCHANGED <<params, sb, zeroed>>

(* Opening, seeking and writing may fail, and so may reading the answer.   *)
CallFails ==
    /\ pc \in {"open", "confirm", "zero", "header", "table"} /\ "fault" \in Env
    /\ pc # "open" => mode # "try"
    /\ pc = "confirm" => mode = "ask"
    /\ End("error")
    /\ UNCHANGED <<params, sb, zeroed, pos, image>>

(* The process is ended.  What it has written is in the page cache and     *)
(* stays.                                                                  *)
Killed ==
    /\ "kill" \in Env /\ pc # "end"
    /\ End("killed")
    /\ UNCHANGED <<params, sb, zeroed, pos, image>>

Run == \/ CheckOptions \/ OpenDevice \/ MakeLayout \/ Confirm \/ ZeroChunk
       \/ MakeTable \/ WriteHeader \/ WriteTable
Next == Run \/ CallFails \/ Killed
Spec == Init /\ [][Next]_vars

(* The program runs; the user answers when asked.                          *)
FairSpec == Spec /\ WF_vars(Run)
-----------------------------------------------------------------------------
TypeOK ==
    /\ pc \in {"options", "open", "layout", "confirm", "zero", "header", "table", "end"}
    /\ out \in {"none", "ok", "error", "cancelled", "killed"}
    /\ zeroed \in 0 .. Modulus - 1 /\ pos \in Nat
    /\ \A f \in DOMAIN sb : sb[f] \in 0 .. Modulus - 1
    /\ \A c \in DOMAIN image : image[c] \in Cell

BlockSize(g) == IF g = "old" THEN oldbs ELSE bs

Holds(o, g, p) == o \in DOMAIN image /\ image[o] = <<g, p>>

(* The hidden data of a volume, with both markers, starts behind the       *)
(* padding.  Before it lies the ELF stub, on images only, and a block      *)
(* behind it the kernel module: what looks like a marker in these is in    *)
(* their first and last cell.                                              *)
HiddenAt(b) == Larger(b, Padding)
StrayAt(b)  == {p \in {0} : regular /\ "elf" \in stray}
               \cup {p \in {HiddenAt(b) + b + ModuleSize - 1} : "module" \in stray}

(* The cells in which the search of the first ScanSize comes across a start *)
(* marker.  The end marker of the hidden data is in the same cell.         *)
Marked(o) == \E g \in {"old", "new"} :
                \E p \in StrayAt(BlockSize(g)) \cup {HiddenAt(BlockSize(g))} : Holds(o, g, p)
Marks == {o \in 0 .. ScanSize - 1 : Marked(o)}

(* Slip: the search stops at the first. *)
BadIsHeader(o) == o \in Marks /\ \A x \in Marks : o <= x

(* The marker that is found last is taken for the header. *)
IsHeader(o) == o \in Marks /\ \A x \in Marks : x <= o

(* fill_super, which refuses a device that ends within what it searches,   *)
(* finds the header of volume g, the superblock where that header says,    *)
(* and yukifs_init_root the root in the table behind it.  When the kernel  *)
(* does not take the block size, s_blocksize has been set by hand all the  *)
(* same: the root is then looked for in a block that is not of that size,  *)
(* and the read fails or finds something else.                             *)
Mounts(g) ==
    LET b == BlockSize(g)
    IN  /\ b \in KernelBlocks /\ InodeCount(b, size) > 0
        /\ 0 .. ScanSize - 1 \subseteq DOMAIN image
        /\ \E o \in Marks : IsHeader(o) /\ Holds(o, g, HiddenAt(b))
        /\ Holds(MountReads(SuperblockOffset(b)), g, SuperblockAt(b))
        /\ Holds(TableFoundAt(Superblock(b, size)), g, HeaderSize(b))

(* Everything behind the padding of volume g, up to the data, is in place. *)
(* The objects of a new table are zeros but for the root.                  *)
Whole(g) ==
    LET b     == BlockSize(g)
        first == HeaderSize(b) + ObjectSize
    IN  \A o \in Larger(b, Padding) .. HeaderSize(b) + ObjectSize * InodeCount(b, size) - 1 :
            Holds(o, g, o) \/ (g = "new" /\ o >= first /\ image[o] = Zero)

(* The areas computed for any device that is large enough lie one behind   *)
(* the other and end within it, and the kernel module, which divides and   *)
(* multiplies by the block size, finds them where they are.                *)
LaidOut ==
    pc \in {"confirm", "zero", "header", "table"} =>
        AreasFit(sb, size) /\ AddressesAgree(sb, bs)

(* Nothing is written behind the end of the device: zeroing stops there    *)
(* and an image keeps its size.                                            *)
InDevice == pos <= size /\ DOMAIN image = 0 .. size - 1

(* Whoever cancels, makes a dry run or is refused loses nothing.           *)
NothingLost ==
    out = "cancelled" \/ mode = "try" \/ bs \notin BlockSizes \/ size < HeaderSize(bs)
        => image = Untouched

(* When mkfs reports success, no write was cut short and there is room for *)
(* an inode, the kernel module can mount the new volume, provided that the *)
(* kernel takes its block size: it finds the header whatever the ELF stub  *)
(* holds, as long as the device is as large as what it searches, and       *)
(* nothing of the module in there looks like a marker (inode.c 92-104).    *)
ModuleMisleads == "module" \in stray /\ HiddenAt(bs) + bs + ModuleSize <= ScanSize
SuccessMounts ==
    /\ out = "ok" /\ mode # "try" /\ TableSize > 0 /\ bs \in KernelBlocks
    /\ pos = HeaderSize(bs) + TableSize
    /\ size >= ScanSize /\ ~ModuleMisleads
    => Mounts("new")

(* At no moment, whatever call fails, is cut short or is the last before   *)
(* the process ends, can a volume be mounted that is not whole, be it the  *)
(* one being erased or the one being made.                                 *)
NeverHalf == \A g \in {"old", "new"} : Mounts(g) => Whole(g)

(* mkfs comes to an end. *)
Ends == <>(pc = "end")
=============================================================================
