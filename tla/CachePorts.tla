------------------------------ MODULE CachePorts ------------------------------
(***************************************************************************)
(* What one request does to main memory and what it is answered with, in   *)
(* the pipeline simulator: instruction_cache_port.h and data_cache_port.h. *)
(* The state m of the ports is memory and the single reservation of LR.    *)
(* A request q carries the translation fields of satp and mstatus; log2 of *)
(* its size in bytes is q.size.                                            *)
(***************************************************************************)
EXTENDS PageTableWalker, Bitwise

\* get_exception_code of each kind of fault: LR counts as a store.
cause(kind, op) ==
    CASE op = "FETCH" -> [who |-> "instr", kind |-> kind]
      [] op = "LOAD" -> [who |-> "load", kind |-> kind]
      [] OTHER -> [who |-> "store", kind |-> kind]
NoException == [who |-> "none", kind |-> "none"]

Answer(m, data, exception) == [m |-> m, response |-> [data |-> data, exception |-> exception]]

\* The address of a request after translation, if its mode asks for one.
Translated(m, q, address) ==
    IF q.virtual THEN translate(m, address, q.op, q.supervisor, q.sum, q.mxr, q.root)
    ELSE [fault |-> FALSE, m |-> m, address |-> address]

-----------------------------------------------------------------------------
(* InstructionCachePort::get_request *)

\* An instruction and the data of a response have half the bits of a word.
InstrBytes == WordBytes \div 2

\* A fetch from address, which translation made t of.
Fetched(t, address) ==
    IF t.fault THEN Answer(t.m, address % 2 ^ (XLEN \div 2), cause("page", "FETCH"))
    ELSE IF ~check_access(t.address, InstrBytes)
    THEN Answer(t.m, t.address % 2 ^ (XLEN \div 2), cause("access", "FETCH"))
    ELSE Answer(t.m, read(t.m, t.address, InstrBytes), NoException)

fetch(m, q) ==
    LET address == q.address - (q.address % InstrBytes)
    IN  Fetched(Translated(m, [q EXCEPT !.mxr = FALSE], address), address)

-----------------------------------------------------------------------------
(* DataCachePort::get_request *)

aligned(address, size) == address % 2 ^ size = 0

zero_extend(v, bytes) == v % 2 ^ (ByteBits * bytes)
one_extend(v, bytes) == zero_extend(v, bytes) + 2 ^ XLEN - 2 ^ (ByteBits * bytes)
sign_extend(v, bytes) ==
    IF Bit(v, ByteBits * bytes - 1) THEN one_extend(v, bytes) ELSE zero_extend(v, bytes)
size_extend(v, bytes, ext) ==
    CASE ext = "zero" -> zero_extend(v, bytes)
      [] ext = "one" -> one_extend(v, bytes)
      [] ext = "signed" -> sign_extend(v, bytes)

\* The int64_t that an uint64_t stands for.
signed(v) == IF Bit(v, XLEN - 1) THEN v - 2 ^ XLEN ELSE v

atomic_update(amo, original, operand) ==
    CASE amo = "ADD" -> (original + operand) % 2 ^ XLEN
      [] amo = "SWAP" -> operand
      [] amo = "XOR" -> original ^^ operand
      [] amo = "OR" -> original | operand
      [] amo = "AND" -> original & operand
      [] amo = "MIN" -> IF signed(original) < signed(operand) THEN original ELSE operand
      [] amo = "MAX" -> IF signed(original) < signed(operand) THEN operand ELSE original
      [] amo = "MINU" -> IF original < operand THEN original ELSE operand
      [] amo = "MAXU" -> IF original < operand THEN operand ELSE original

make_reservation(m, address) == [m EXCEPT !.reserved = address, !.reservation_valid = TRUE]
check_reservation(m, address) == m.reservation_valid /\ m.reserved = address
clear_all_reservations(m) == [m EXCEPT !.reservation_valid = FALSE]

\* Mutation: only what was read is extended.
operand_of_Raw(q) == q.value

\* The operand that an atomic update is computed with.
operand_of(q) == size_extend(q.value, 2 ^ q.size, q.ext)

\* Mutation: an AMO leaves a reservation alone.
write_memory_AmoKeeps(m, q, address, data) ==
    LET stored == write(m, address, 2 ^ q.size, data)
    IN  IF ~writes(q.op) \/ (q.op = "SC" /\ ~check_reservation(m, address)) THEN m
        ELSE IF q.op = "AMO" THEN stored ELSE clear_all_reservations(stored)

\* Every write clears the reservation, a failed SC does not.
write_memory(m, q, address, data) ==
    IF ~writes(q.op) \/ (q.op = "SC" /\ ~check_reservation(m, address)) THEN m
    ELSE clear_all_reservations(write(m, address, 2 ^ q.size, data))

\* read_memory and write_memory throw an AccessFault beyond the last address,
\* except that a write to the host is not checked and a failed SC not made.
refused(m, q, address) ==
    /\ ~check_access(address, 2 ^ q.size)
    /\ reads(q.op) \/ (address \notin Host /\ ~(q.op = "SC" /\ ~check_reservation(m, address)))

\* The access q, whose address translation made t of.
Performed(t, q) ==
    LET a == t.address
        bytes == 2 ^ q.size
        data_read == size_extend(read(t.m, a, bytes), bytes, q.ext)
        data_write == IF q.op = "AMO" THEN atomic_update(q.amo, data_read, operand_of(q)) ELSE q.value
        reserved == IF q.op = "LR" THEN make_reservation(t.m, a) ELSE t.m
    IN  IF t.fault THEN Answer(t.m, q.address, cause("page", q.op))
        ELSE IF refused(t.m, q, a) THEN Answer(t.m, a, cause("access", q.op))
        ELSE Answer(write_memory(reserved, q, a, data_write),
                    CASE reads(q.op) -> data_read
                      [] q.op = "SC" -> IF check_reservation(t.m, a) THEN 0 ELSE 1
                      [] OTHER -> 0,
                    NoException)

access(m, q) ==
    IF ~aligned(q.address, q.size) THEN Answer(m, q.address, cause("misalign", q.op))
    ELSE Performed(Translated(m, q, q.address), q)
=============================================================================
