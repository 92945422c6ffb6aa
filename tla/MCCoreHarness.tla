---------------------------- MODULE MCCoreHarness ----------------------------
(***************************************************************************)
(* Command lines, programs and requests for CoreHarness.  Addresses end    *)
(* at 79; the arguments may take 64 bytes.                                 *)
(***************************************************************************)
EXTENDS CoreHarness

Option(full, name, value, bytes) ==
    [full |-> full, name |-> name, value |-> value, dash |-> TRUE, bytes |-> bytes]
Plain(full, bytes) == [full |-> full, name |-> full, value |-> "", dash |-> FALSE, bytes |-> bytes]

Timeout == Option("--timeout", "--timeout", "", <<45, 45, 116>>)
Timeout3 == Option("--timeout=3", "--timeout", "3", <<45, 45, 116, 61, 51>>)
Latency2 == Option("--memory-latency=2", "--memory-latency", "2", <<45, 109, 61, 50>>)
LatencyTen == Option("--memory-latency=ten", "--memory-latency", "ten", <<45, 109, 61, 116>>)
Csv == Option("--csv", "--csv", "", <<45, 99>>)
Verbose == Option("-v", "-v", "", <<45, 118>>)
HelpFlag == Option("--help", "--help", "", <<45, 104>>)
Unknown == Option("-x", "-x", "", <<45, 120>>)
Two == Plain("2", <<50>>)
Ten == Plain("ten", <<116>>)
A == Plain("a", <<97, 98>>)
Long == Plain("long", [i \in 1 .. 40 |-> 97])
Prog == Plain("prog", <<112>>)
Tls == Plain("tls", <<116, 108, 115>>)
Stubborn == Plain("stubborn", <<115>>)
Missing == Plain("missing", <<109>>)
Huge == Plain("huge", <<104>>)
Empty == Plain("empty", <<101>>)

Section(address, bytes, alloc, nobits) ==
    [address |-> address, bytes |-> bytes, alloc |-> alloc, nobits |-> nobits]
Code == <<19, 0, 0, 0, 115, 0, 16, 0>>
Zeros(n) == [i \in 1 .. n |-> 170]      \* what the file happens to have there

ToHost == [name |-> "tohost", value |-> 72]
FromHost == [name |-> "fromhost", value |-> 56]

SomeFiles ==
    [prog |-> [riscv |-> TRUE, entry |-> 64, symbols |-> <<ToHost, FromHost>>,
               sections |-> <<Section(0, <<>>, FALSE, FALSE), Section(64, Code, TRUE, FALSE),
                              Section(0, <<1, 2>>, FALSE, FALSE)>>],
     \* A .tbss shares its addresses with the section behind it; no fromhost.
     tls |-> [riscv |-> TRUE, entry |-> 44, symbols |-> <<[name |-> "main", value |-> 44], ToHost,
                                                         [name |-> "tohost", value |-> 64]>>,
              sections |-> <<Section(40, <<7, 8, 9, 10>>, TRUE, FALSE), Section(44, Code, TRUE, FALSE),
                             Section(44, Zeros(4), TRUE, TRUE)>>],
     \* tohost where the stub goes.
     stubborn |-> [riscv |-> TRUE, entry |-> 40, symbols |-> <<[name |-> "tohost", value |-> 8]>>,
                   sections |-> <<Section(40, Code, TRUE, FALSE)>>],
     huge |-> [riscv |-> TRUE, entry |-> 0, symbols |-> <<>>, sections |-> <<Section(76, Code, TRUE, FALSE)>>],
     empty |-> [riscv |-> TRUE, entry |-> 0, symbols |-> <<>>, sections |-> <<Section(0, <<>>, TRUE, FALSE)>>]]

SomeCommandLines ==
    {<<>>, <<HelpFlag>>, <<Timeout, Ten, HelpFlag>>, <<Timeout, Two, HelpFlag, Prog>>, <<Verbose>>,
     <<Timeout>>, <<Timeout, Two>>, <<Unknown, Prog>>, <<LatencyTen, Prog>>, <<Verbose, Csv, Prog>>,
     <<Missing>>, <<Huge>>, <<Empty>>, <<Prog, Long>>,
     <<Prog>>, <<Prog, A, Two, Timeout3>>, <<Timeout3, Verbose, Prog, HelpFlag>>,
     <<Timeout3, Timeout, Two, Latency2, Prog, A>>, <<Csv, Timeout, Timeout, Two, Tls, A>>,
     <<Tls, A, A, Tls, Prog>>, <<Stubborn>>, <<Verbose, Stubborn, A, A>>}

Numbers == [n \in {"2", "3"} |-> IF n = "2" THEN 2 ELSE 3]

-----------------------------------------------------------------------------
Write(address, mask) ==
    [address |-> address, we |-> TRUE, mask |-> mask, data |-> <<11, 12, 13, 14, 15, 16, 17, 18>>]
Read(address, mask) == [Write(address, mask) EXCEPT !.we = FALSE]
Exit(address, code) == [Write(address, 1 .. 8) EXCEPT !.data = Little(code, 8)]
PutChar(address) == [Write(address, 1 .. 8) EXCEPT !.data = <<65, 0, 0, 0, 0, 0, 1, 1>>]

\* Main memory ends below 48, and I/O starts there.
MainAsks == {None, Read(24, {1}), Write(24, 1 .. 8)}
IoAsks == {None, Read(48, 1 .. 8), Write(48, {3}), Exit(72, 1), PutChar(72)}
Masks == {(k * n + 1) .. (k * n + n) : k \in 0 .. 7, n \in {1, 2, 4, 8}} \cap SUBSET (1 .. 8)

Pair(m, i) == [p \in Ports |-> IF p = "main" THEN m ELSE i]
SomeRequests ==
    {Pair(m, i) : m \in MainAsks, i \in IoAsks}
    \cup {Pair(None, Write(48, mask)) : mask \in Masks}
    \cup {Pair(Read(40, {}), Exit(56, 2)), Pair(None, Write(72, {1})), Pair(None, Write(72, {2}))}
    \cup {Pair(Write(24, mask), None) : mask \in {{}, {1, 2}}}
    \cup {Pair(None, Write(48, mask)) : mask \in {{}, {2, 3}}}
=============================================================================
