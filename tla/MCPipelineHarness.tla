------------------------- MODULE MCPipelineHarness -------------------------
(***************************************************************************)
(* Scenes for PipelineHarness.  Bytes have 4 bits and words 4 bytes, a     *)
(* page has two words, and every field of an address or an entry has one   *)
(* bit except ppn[2], which has three; an uint holds two of them.          *)
(***************************************************************************)
EXTENDS PipelineHarness, TLC

Bare(op, address, size) ==
    [op |-> op, address |-> address, size |-> size, ext |-> "signed", amo |-> "ADD", value |-> 5,
     virtual |-> FALSE, supervisor |-> TRUE, sum |-> FALSE, mxr |-> FALSE, root |-> 1]
Virtual(q) == [q EXCEPT !.virtual = TRUE]

BootFetch == Bare("FETCH", 0, 1)

Words == 0 .. 63
Filler == [w \in Words |-> 4096 + 37 * w]
Pointer(page) == 1 + page * 1024

-----------------------------------------------------------------------------
(* Translation: a leaf with every combination of flags, at each level. *)

Flags == {v + r + w + x + u + a + d : v \in {0, 1}, r \in {0, 2}, w \in {0, 4}, x \in {0, 8},
                                      u \in {0, 16}, a \in {0, 64}, d \in {0, 128}}

\* Aligned for every level, for none, for level 1, and beyond what an uint holds.
Pages == {4, 5, 6, 20}

Tables ==
    {LET entry == flags + page * 1024
         At(level) == IF level = leaf THEN entry ELSE Pointer(4 - level)
     IN  [w \in Words |-> CASE w \in {2, 3} -> At(2) [] w \in {4, 5} -> At(1) [] w \in {6, 7} -> At(0)
                            [] OTHER -> Filler[w]]
     : flags \in Flags, page \in Pages, leaf \in 0 .. 2}

\* Two virtual addresses of each sign, and two that no sign extension gives.
Canonical == {20, 65512 - 4}
NonCanonical == {40, 84}

Contexts(q) ==
    {[q EXCEPT !.supervisor = s.s, !.sum = s.sum, !.mxr = mxr] :
        s \in {[s |-> FALSE, sum |-> FALSE], [s |-> TRUE, sum |-> FALSE], [s |-> TRUE, sum |-> TRUE]},
        mxr \in IF q.op = "LOAD" THEN BOOLEAN ELSE {FALSE}}

VirtualAccesses ==
    UNION {Contexts(Virtual(Bare(op, va, 2))) : op \in {"LOAD", "STORE", "AMO"}, va \in Canonical}
    \cup {Virtual(Bare("LOAD", va, 1)) : va \in NonCanonical}
VirtualFetches == UNION {Contexts(Virtual(Bare("FETCH", va, 1))) : va \in Canonical}

-----------------------------------------------------------------------------
(* Arithmetic: values at the edges of each width. *)

Edges == {0, 1, 127, 128, 255, 32767, 32768, 65535}

Updates ==
    {[Bare("AMO", address, size) EXCEPT !.amo = amo, !.value = value] :
        amo \in {"ADD", "SWAP", "XOR", "OR", "AND", "MIN", "MAX", "MINU", "MAXU"},
        value \in Edges, size \in {1, 2}, address \in {32}}
Loads == {[Bare("LOAD", address, size) EXCEPT !.ext = ext] :
             ext \in {"zero", "one", "signed"}, size \in 0 .. 2, address \in {32, 34, 35}}

-----------------------------------------------------------------------------
(* Traffic: accesses, reservations, exits and fences that follow each other. *)

ToHost == 48

\* The leaf of virtual address 20 is the word at 24, not yet accessed.
Mapped == [Filler EXCEPT ![2] = Pointer(2), ![5] = Pointer(3), ![6] = 3 + 5 * 1024 + 4]

Exit(code) == [Bare("STORE", ToHost, 2) EXCEPT !.value = code]
Mixed ==
    {Bare("STORE", 24, 1), Bare("LR", 24, 2), Bare("SC", 24, 2), Bare("SC", 32, 2), Bare("AMO", 24, 2),
     Bare("LOAD", 33, 1), Bare("STORE", 256, 2), Exit(1), Exit(3), Exit(PutChar * 16 + 7),
     Virtual(Bare("LOAD", 20, 2)), Virtual(Bare("STORE", 20, 2))}

SomeScenes ==
    [data |-> [timeout |-> 3, memories |-> Tables, first |-> {BootFetch},
               fetches |-> {}, accesses |-> VirtualAccesses, fences |-> FALSE],
     code |-> [timeout |-> 3, memories |-> Tables, first |-> {BootFetch},
               fetches |-> VirtualFetches, accesses |-> {}, fences |-> FALSE],
     arithmetic |-> [timeout |-> 3, memories |-> {[Filler EXCEPT ![8] = v] : v \in Edges}, first |-> {BootFetch},
                     fetches |-> {}, accesses |-> Updates \cup Loads, fences |-> FALSE],
     traffic |-> [timeout |-> 6, memories |-> {Mapped}, first |-> {None, BootFetch},
                  fetches |-> {BootFetch, Bare("FETCH", 256, 1)}, accesses |-> Mixed, fences |-> TRUE]]

OnlyTraffic == [traffic |-> SomeScenes.traffic]

TheHost == {ToHost}
=============================================================================
