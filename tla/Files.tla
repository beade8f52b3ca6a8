------------------------------- MODULE Files --------------------------------
(***************************************************************************)
(* What create, unlink and write of YukiFS promise to a program that makes *)
(* one call at a time: there are names and files, no blocks, inodes or     *)
(* caches.  A call takes effect before it returns, changes the file it was *)
(* made for and no other, and only create may be refused, for want of room.*)
(*                                                                         *)
(* The promise has the two weaknesses that show in the code: the contents  *)
(* and the size of a file change one after the other, and an unlink may    *)
(* leave its inode taken, which leaves less room.                          *)
(***************************************************************************)
EXTENDS Naturals, FiniteSets

CONSTANTS
    Names,      \* names of files
    NoName,     \* the name in no call
    Sizes,      \* sizes that a write may leave a file with
    Contents,   \* what a file may hold
    Blank,      \* what a new file holds
    Slots,      \* entries of the directory
    Inodes      \* inodes for files

VARIABLES
    file,       \* the files: a function from some of the names
    call,       \* the call in progress
    taken       \* how many inodes are in use by no file

vars == <<file, call, taken>>

NoCall == [op |-> "none", name |-> NoName, size |-> 0]

Exists(n) == n \in DOMAIN file
Full == \/ Cardinality(DOMAIN file) >= Slots
        \/ Cardinality(DOMAIN file) + taken >= Inodes

InCall(op) == call.op = op
Done == /\ InCall("create") => Exists(call.name)
        /\ InCall("unlink") => ~Exists(call.name)
        /\ InCall("write")  => Exists(call.name) /\ file[call.name].size = call.size
-----------------------------------------------------------------------------
Init == /\ file = [n \in {} |-> [size |-> 0, data |-> Blank]]
        /\ call = NoCall /\ taken = 0

BeginCreate(n) ==
    /\ call = NoCall /\ ~Exists(n)
    /\ call' = [op |-> "create", name |-> n, size |-> 0]
    /\ UNCHANGED <<file, taken>>

(* Nothing that a removed file held is found in one made later. *)
Create ==
    /\ InCall("create") /\ ~Exists(call.name) /\ ~Full
    /\ file' = [n \in DOMAIN file \cup {call.name} |->
                  IF n = call.name THEN [size |-> 0, data |-> Blank] ELSE file[n]]
    /\ UNCHANGED <<call, taken>>

Refuse ==
    /\ InCall("create") /\ ~Exists(call.name) /\ Full
    /\ call' = NoCall
    /\ UNCHANGED <<file, taken>>

(* The contents go first. *)
BeginUnlink(n) ==
    /\ call = NoCall /\ Exists(n)
    /\ call' = [op |-> "unlink", name |-> n, size |-> 0]
    /\ file' = [file EXCEPT ![n].data = Blank]
    /\ UNCHANGED taken

Unlink ==
    /\ InCall("unlink") /\ Exists(call.name)
    /\ file' = [n \in DOMAIN file \ {call.name} |-> file[n]]
    /\ taken' = taken + 1
    /\ UNCHANGED call

Reclaim ==
    /\ InCall("unlink") /\ ~Exists(call.name)
    /\ taken' \in 0 .. taken - 1
    /\ UNCHANGED <<file, call>>

BeginWrite(n, size) ==
    /\ call = NoCall /\ Exists(n)
    /\ call' = [op |-> "write", name |-> n, size |-> size]
    /\ UNCHANGED <<file, taken>>

WriteData ==
    /\ InCall("write") /\ Exists(call.name)
    /\ \E d \in Contents : file' = [file EXCEPT ![call.name].data = d]
    /\ UNCHANGED <<call, taken>>

WriteSize ==
    /\ InCall("write") /\ Exists(call.name)
    /\ file' = [file EXCEPT ![call.name].size = call.size]
    /\ UNCHANGED <<call, taken>>

Return ==
    /\ call # NoCall /\ Done
    /\ call' = NoCall
    /\ UNCHANGED <<file, taken>>

Next ==
    \/ \E n \in Names : BeginCreate(n) \/ BeginUnlink(n)
    \/ \E n \in Names, size \in Sizes : BeginWrite(n, size)
    \/ Create \/ Refuse \/ Unlink \/ Reclaim \/ WriteData \/ WriteSize \/ Return

Spec == Init /\ [][Next]_vars
=============================================================================
