------------------------------ MODULE MainMemory ------------------------------
(***************************************************************************)
(* The simulator's main memory (main_memory.cc): pages of PageSize bytes   *)
(* that are allocated, uninitialised, when first touched.  One action per  *)
(* call; a block is copied page by page, one iteration of the loop a step. *)
(***************************************************************************)
EXTENDS Integers, Sequences

CONSTANTS PageSize,     \* bytes in a page (1 << LOG2_PAGE_SIZE)
          MaxAddress,   \* Sv39::MAX_PHYSICAL_ADDRESS
          Wrap,         \* MemoryAddress holds 0 .. Wrap - 1 (2^64)
          Widths,       \* the sizes of a scalar access, in bytes
          Byte, Unset,
          Host,         \* the addresses of tohost and fromhost
          Starts,       \* the addresses that the users of memory ask for
          Blocks        \* the blocks of data that the loader writes

VARIABLES pages, call, block

vars == <<pages, call, block>>

ASSUME MainMemoryAssumption ==
    /\ PageSize \in Nat \ {0} /\ MaxAddress \in Nat /\ Wrap \in Nat
    /\ (MaxAddress + 1) % PageSize = 0 /\ MaxAddress + PageSize < Wrap
    /\ Widths \subseteq 1 .. PageSize /\ Unset \notin Byte
    /\ Host \subseteq 0 .. Wrap - 1 /\ Starts \subseteq 0 .. Wrap - 1
    /\ Blocks \subseteq Seq(Byte)

Address == 0 .. MaxAddress
Cell == Byte \cup {Unset}

get_offset(address) == address % PageSize
get_tag(address) == address - get_offset(address)

\* check_access throws an AccessFault; the sum wraps as uint64_t does.
check_access(address, bytes) == (address + bytes - 1) % Wrap <= MaxAddress

allocate_new_page == [offset \in 0 .. PageSize - 1 |-> Unset]

\* The page map after get_page(address).
get_page(map, address) ==
    [tag \in DOMAIN map \cup {get_tag(address)} |->
        IF tag \in DOMAIN map THEN map[tag] ELSE allocate_new_page]

is_system_call(address) == address \in Host

\* The pages that a scalar access of n bytes touches: the second one only when
\* the value does not fit behind its offset in the first.
Touch(address, n) ==
    IF get_offset(address) <= PageSize - n
    THEN get_page(pages, address)
    ELSE get_page(get_page(pages, address), address + PageSize)

\* The page and offset of byte i of the value.
ByteTag(address, i) ==
    IF get_offset(address) + i - 1 < PageSize THEN get_tag(address) ELSE get_tag(address + PageSize)
ByteOffset(address, i) ==
    IF get_offset(address) + i - 1 < PageSize
    THEN get_offset(address) + i - 1
    ELSE get_offset(address) + i - 1 - PageSize

NoBlock == [address |-> 0, bytes |-> <<>>, copied |-> 0]

Init ==
    /\ pages = [tag \in {} |-> allocate_new_page]
    /\ call = [op |-> "none"]
    /\ block = NoBlock

Refuse(address, n) ==
    /\ call' = [op |-> "fault", address |-> address, size |-> n]
    /\ UNCHANGED <<pages, block>>

\* read8, read16, read32, read64
Read(address, n) ==
    /\ block = NoBlock
    /\ \/ ~check_access(address, n) /\ Refuse(address, n)
       \/ /\ check_access(address, n)
          /\ pages' = Touch(address, n)
          /\ call' = [op |-> "read", address |-> address,
                      bytes |-> [i \in 1 .. n |-> pages'[ByteTag(address, i)][ByteOffset(address, i)]]]
          /\ UNCHANGED block

\* The pages once the bytes of a value are stored in them.
Stored(map, address, bytes) ==
    LET At(tag, offset) == {i \in 1 .. Len(bytes) : ByteTag(address, i) = tag /\ ByteOffset(address, i) = offset}
    IN  [tag \in DOMAIN map |-> [offset \in 0 .. PageSize - 1 |->
            IF At(tag, offset) = {} THEN map[tag][offset] ELSE bytes[CHOOSE i \in At(tag, offset) : TRUE]]]

\* write8, write16, write32, write64: the host is asked first.
Write(address, bytes) ==
    /\ block = NoBlock
    /\ \/ /\ is_system_call(address)
          /\ call' = [op |-> "host", address |-> address]
          /\ UNCHANGED <<pages, block>>
       \/ /\ ~is_system_call(address) /\ ~check_access(address, Len(bytes))
          /\ Refuse(address, Len(bytes))
       \/ /\ ~is_system_call(address) /\ check_access(address, Len(bytes))
          /\ pages' = Stored(Touch(address, Len(bytes)), address, bytes)
          /\ call' = [op |-> "write", address |-> address, bytes |-> bytes]
          /\ UNCHANGED block

\* write(DataBlock), up to its loop ...
WriteBlock(address, bytes) ==
    /\ block = NoBlock
    /\ \/ ~check_access(address, Len(bytes)) /\ Refuse(address, Len(bytes))
       \/ /\ check_access(address, Len(bytes))
          /\ call' = [op |-> "block", address |-> address, bytes |-> bytes]
          /\ block' = IF Len(bytes) = 0 THEN NoBlock
                      ELSE [address |-> address, bytes |-> bytes, copied |-> 0]
          /\ UNCHANGED pages

\* Mutation: the chunk is cut to the size of a page, wherever in it the copy starts.
BytesToCopy_WholePage(offset, left) == IF left > PageSize THEN PageSize ELSE left

\* ... and one iteration of the loop: as much as fits in the page.
BytesToCopy(offset, left) == IF offset + left > PageSize THEN PageSize - offset ELSE left

CopyChunk ==
    LET to == block.address + block.copied
        offset == get_offset(to)
        n == BytesToCopy(offset, Len(block.bytes) - block.copied)
        map == get_page(pages, to)
    IN  /\ block.copied < Len(block.bytes)
        /\ pages' = [map EXCEPT ![get_tag(to)] = [o \in 0 .. PageSize - 1 |->
                        IF o \in offset .. offset + n - 1
                        THEN block.bytes[block.copied + o - offset + 1]
                        ELSE map[get_tag(to)][o]]]
        /\ block' = IF block.copied + n = Len(block.bytes) THEN NoBlock
                    ELSE [block EXCEPT !.copied = block.copied + n]
        /\ UNCHANGED call

\* The callers align a scalar access to its size, so that its last byte has an
\* address, and a block ends where the address space does at the latest.
Next ==
    \/ \E address \in Starts, n \in Widths : address + n <= Wrap /\ Read(address, n)
    \/ \E address \in Starts, n \in Widths : \E bytes \in [1 .. n -> Byte] :
           address + n <= Wrap /\ Write(address, bytes)
    \/ \E address \in Starts, bytes \in Blocks :
           address + Len(bytes) <= Wrap /\ WriteBlock(address, bytes)
    \/ CopyChunk

Spec == Init /\ [][Next]_vars

-----------------------------------------------------------------------------
(* Properties *)

\* Every page is whole and starts at a multiple of the page size, none lies
\* beyond the last address, and a block being copied fits in memory.
TypeOK ==
    /\ DOMAIN pages \subseteq {a \in Address : get_offset(a) = 0}
    /\ \A tag \in DOMAIN pages : pages[tag] \in [0 .. PageSize - 1 -> Cell]
    /\ block \in [address : Nat, bytes : Seq(Byte), copied : Nat]
    /\ block # NoBlock =>
          block.copied < Len(block.bytes) /\ block.address + Len(block.bytes) - 1 \in Address

\* The flat memory that the pages stand for.  A block counts as written from
\* the moment its bounds were checked: what its loop has yet to copy is laid
\* over the pages.
Contents ==
    [a \in Address |->
        LET i == a - block.address + 1
        IN  IF i \in block.copied + 1 .. Len(block.bytes) THEN block.bytes[i]
            ELSE IF get_tag(a) \in DOMAIN pages THEN pages[get_tag(a)][get_offset(a)]
            ELSE Unset]

Flat == INSTANCE FlatMemory WITH mem <- Contents, call <- call

\* main_memory.cc implements the flat memory: wherever a value or a block falls
\* on the pages, and whichever pages exist, each read returns the bytes written
\* last, each write changes its own bytes and no other, page allocation is
\* invisible, and a refused access or a host call leaves memory alone.
FlatSpec == Flat!Spec
=============================================================================
