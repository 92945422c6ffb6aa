------------------------------ MODULE ByteMemory ------------------------------
(* Memory as one byte at every address, and what is read and written there.  *)
EXTENDS Integers, Sequences

CONSTANTS Byte, Unset, MaxAddress

Address == 0 .. MaxAddress
Cell == Byte \cup {Unset}

\* The n bytes that start at address a, and memory with bytes written there.
BytesAt(m, a, n) == [i \in 1 .. n |-> m[a + i - 1]]
Overwrite(m, a, bytes) ==
    [b \in Address |-> IF b - a + 1 \in 1 .. Len(bytes) THEN bytes[b - a + 1] ELSE m[b]]

InRange(a, n) == a + n - 1 \in Address
=============================================================================
