------------------------------ MODULE FlatMemory ------------------------------
(***************************************************************************)
(* What simulated main memory promises its users: one byte at every        *)
(* physical address, and accesses that read or write a run of consecutive  *)
(* bytes all at once, fault beyond the last address, or go to the host.  A *)
(* byte nobody wrote is Unset: whatever the allocator left there.          *)
(***************************************************************************)
EXTENDS ByteMemory

CONSTANT Host           \* the addresses of the riscv-tests host interface

VARIABLES mem,          \* the byte at every address
          call          \* the access that was made last, with its result

Init == mem = [a \in Address |-> Unset] /\ call = [op |-> "none"]

Read(a, n) ==
    /\ InRange(a, n)
    /\ call' = [op |-> "read", address |-> a, bytes |-> BytesAt(mem, a, n)]
    /\ UNCHANGED mem

\* Only a block that the loader places may cover a host address.
Write(op, a, bytes) ==
    /\ InRange(a, Len(bytes)) /\ (op = "write" => a \notin Host)
    /\ call' = [op |-> op, address |-> a, bytes |-> bytes]
    /\ mem' = Overwrite(mem, a, bytes)

Fault(a, n) ==
    /\ ~InRange(a, n)
    /\ call' = [op |-> "fault", address |-> a, size |-> n]
    /\ UNCHANGED mem

HostCall(a) ==
    /\ a \in Host
    /\ call' = [op |-> "host", address |-> a]
    /\ UNCHANGED mem

\* The access is the one `call' records, so its arguments are read from there.
Next ==
    \/ /\ call'.op = "read"
       /\ Read(call'.address, Len(call'.bytes))
    \/ /\ call'.op \in {"write", "block"}
       /\ Write(call'.op, call'.address, call'.bytes)
    \/ /\ call'.op = "fault"
       /\ Fault(call'.address, call'.size)
    \/ /\ call'.op = "host"
       /\ HostCall(call'.address)

Spec == Init /\ [][Next]_<<mem, call>>
=============================================================================
