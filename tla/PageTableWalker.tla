---------------------------- MODULE PageTableWalker ----------------------------
(***************************************************************************)
(* Address translation of the pipeline simulator (page_table_walker.cc),   *)
(* with every field of an address or an entry a constant number of bits.   *)
(*                                                                         *)
(* Memory is what FlatMemory promises, by words, since every access here   *)
(* is aligned: m.mem is indexed by word number, and m.calls lists what was *)
(* written to the host's addresses, which memory then does not hold.       *)
(***************************************************************************)
EXTENDS Integers, Sequences

CONSTANTS ByteBits, WordBytes,  \* 8 and 8: a byte, and an uint64_t
          OffsetBits,           \* 12: offset in a page
          IndexBits,            \* 9: each virtual page number, ppn[0] and ppn[1]
          TopBits,              \* 26: ppn[2]
          UintBits,             \* 32: uint
          Host                  \* tohost and fromhost

XLEN == ByteBits * WordBytes
VALEN == OffsetBits + 3 * IndexBits
PAGESIZE == 2 ^ OffsetBits
PTESIZE == WordBytes
LEVELS == 3
MAX_PHYSICAL_ADDRESS == 2 ^ (OffsetBits + 2 * IndexBits + TopBits) - 1

Field(value, low, bits) == (value \div 2 ^ low) % 2 ^ bits
Bit(value, n) == Field(value, n, 1) = 1

-----------------------------------------------------------------------------
(* Main memory *)

check_access(address, bytes) == address + bytes - 1 <= MAX_PHYSICAL_ADDRESS

Low(address) == ByteBits * (address % WordBytes)
read(m, address, bytes) == Field(m.mem[address \div WordBytes], Low(address), ByteBits * bytes)

write(m, address, bytes, data) ==
    LET w == address \div WordBytes
        new == data % 2 ^ (ByteBits * bytes)
    IN  IF address \in Host THEN [m EXCEPT !.calls = Append(@, new)]
        ELSE [m EXCEPT !.mem[w] = @ + (new - read(m, address, bytes)) * 2 ^ Low(address)]

-----------------------------------------------------------------------------
(* Addresses and page table entries *)

offset(address) == Field(address, 0, OffsetBits)
virtual_page_number(address, i) == Field(address, OffsetBits + i * IndexBits, IndexBits)

valid(pte) == Bit(pte, 0)
readable(pte) == Bit(pte, 1)
writable(pte) == Bit(pte, 2)
executable(pte) == Bit(pte, 3)
user_mode_accessible(pte) == Bit(pte, 4)
accessed(pte) == Bit(pte, 6)
dirty(pte) == Bit(pte, 7)
set_accessed(pte) == IF accessed(pte) THEN pte ELSE pte + 2 ^ 6
set_dirty(pte) == IF dirty(pte) THEN pte ELSE pte + 2 ^ 7

ppn(pte, i) == Field(pte, 10 + i * IndexBits, IF i = 2 THEN TopBits ELSE IndexBits)
physical_page_number(pte) == Field(pte, 10, 2 * IndexBits + TopBits)

\* The four-part constructor of Sv39 computes in uint.
Sv39(off, ppn0, ppn1, ppn2) ==
    (off + ppn0 * 2 ^ OffsetBits + ppn1 * 2 ^ (OffsetBits + IndexBits)
         + ppn2 * 2 ^ (OffsetBits + 2 * IndexBits)) % 2 ^ UintBits

-----------------------------------------------------------------------------
(* PageTableWalkerSv39::translate *)

\* 1. The upper bits all equal the top bit of the virtual address.
canonical(va) ==
    Field(va, VALEN, XLEN - VALEN) = IF Bit(va, VALEN - 1) THEN 2 ^ (XLEN - VALEN) - 1 ELSE 0

\* 3. - 5. The walk from the table at a, for level i.  An entry is never beyond
\* the last address: a page number has as many bits as there are pages.
RECURSIVE Walk(_, _, _, _)
Walk(m, va, a, i) ==
    LET address == a + virtual_page_number(va, i) * PTESIZE
        pte == read(m, address, PTESIZE)
    IN  IF ~valid(pte) \/ (~readable(pte) /\ writable(pte)) THEN [found |-> FALSE]
        ELSE IF readable(pte) \/ executable(pte)
        THEN [found |-> TRUE, pte |-> pte, address |-> address, i |-> i]
        ELSE IF i = 0 THEN [found |-> FALSE]
        ELSE Walk(m, va, physical_page_number(pte) * PAGESIZE, i - 1)

reads(op) == op \in {"LOAD", "LR", "AMO"}
writes(op) == op \in {"STORE", "SC", "AMO"}

\* Mutation: a supervisor that may access user pages may also fetch from them.
permitted_SumFetches(pte, op, supervisor, sum, mxr) ==
    /\ reads(op) => readable(pte) \/ (mxr /\ executable(pte))
    /\ writes(op) => writable(pte)
    /\ op = "FETCH" => executable(pte)
    /\ supervisor /\ user_mode_accessible(pte) => sum
    /\ ~supervisor => user_mode_accessible(pte)

\* 6. Permissions.
permitted(pte, op, supervisor, sum, mxr) ==
    /\ reads(op) => readable(pte) \/ (mxr /\ executable(pte))
    /\ writes(op) => writable(pte)
    /\ op = "FETCH" => executable(pte)
    /\ supervisor /\ user_mode_accessible(pte) => sum /\ ~(op = "FETCH" /\ executable(pte))
    /\ ~supervisor => user_mode_accessible(pte)

\* 7. A superpage starts at a multiple of its size.
misaligned(pte, i) == \E j \in 0 .. i - 1 : ppn(pte, j) # 0

\* 8. Update of the accessed and dirty bits.
updated(m, leaf, op) ==
    LET pte == IF writes(op) THEN set_dirty(set_accessed(leaf.pte)) ELSE set_accessed(leaf.pte)
    IN  IF accessed(leaf.pte) /\ (writes(op) => dirty(leaf.pte)) THEN m
        ELSE write(m, leaf.address, PTESIZE, pte)

\* Mutation: the entry is updated before the checks that may refuse the access.
translate_UpdatesFirst(m, va, op, supervisor, sum, mxr, root) ==
    LET leaf == IF canonical(va) THEN Walk(m, va, root * PAGESIZE, LEVELS - 1) ELSE [found |-> FALSE]
    IN  IF ~leaf.found THEN [fault |-> TRUE, m |-> m]
        ELSE [fault |-> ~permitted(leaf.pte, op, supervisor, sum, mxr) \/ misaligned(leaf.pte, leaf.i),
              m |-> updated(m, leaf, op),
              address |-> Sv39(offset(va),
                               IF leaf.i > 0 THEN virtual_page_number(va, 0) ELSE ppn(leaf.pte, 0),
                               IF leaf.i > 1 THEN virtual_page_number(va, 1) ELSE ppn(leaf.pte, 1),
                               ppn(leaf.pte, 2))]

\* A PageFault is thrown before anything is written.
translate(m, va, op, supervisor, sum, mxr, root) ==
    LET leaf == IF canonical(va) THEN Walk(m, va, root * PAGESIZE, LEVELS - 1) ELSE [found |-> FALSE]
    IN  IF \/ ~leaf.found
           \/ ~permitted(leaf.pte, op, supervisor, sum, mxr)
           \/ misaligned(leaf.pte, leaf.i)
        THEN [fault |-> TRUE, m |-> m]
        ELSE [fault |-> FALSE, m |-> updated(m, leaf, op),
              address |-> Sv39(offset(va),
                               IF leaf.i > 0 THEN virtual_page_number(va, 0) ELSE ppn(leaf.pte, 0),
                               IF leaf.i > 1 THEN virtual_page_number(va, 1) ELSE ppn(leaf.pte, 1),
                               ppn(leaf.pte, 2))]
=============================================================================
