--------------------------- MODULE PipelineHarness ---------------------------
(***************************************************************************)
(* The pipeline simulator (pipeline_harness.cc): RISCVSimulation's loop    *)
(* with an instruction port and a data port that look the pipeline's       *)
(* requests up in main memory when they are made and answer them Latency   *)
(* cycles later.                                                           *)
(*                                                                         *)
(* The pipeline is the environment.  It has one fetch outstanding at a     *)
(* time and two data requests at most; it makes no data request before it  *)
(* has an instruction, none while it sees an exception and none during a   *)
(* fence, which it starts with no data request outstanding and ends when   *)
(* it sees notif_ready.  What it requests, and what memory holds at first, *)
(* is given by the scene.                                                  *)
(***************************************************************************)
EXTENDS Simulation, CachePorts

CONSTANTS Scenes,       \* name |-> [timeout, memories, first, fetches, accesses, fences]
          PutChar       \* all but the last byte of a word that prints a character

VARIABLES m,            \* main memory and the reservation
          icache_req, dcache_req,       \* the requests the pipeline makes in this half
          notif_valid, notif_ready, delayed_notif_ready,
          scene,
          started,      \* an instruction has been delivered
          fence,        \* the cycle in which the fence under way started
          lr            \* history: the word that LR reserved, as it read it

portVars == <<m, icache_req, dcache_req>>
fenceVars == <<notif_valid, notif_ready, delayed_notif_ready, fence>>
vars == <<simVars, portVars, fenceVars, scene, started, lr>>

here == Scenes[scene]
WordOf(state, address) == state.mem[address \div WordBytes]

PipelineInit ==
    /\ SimInit /\ stage = "reset"
    /\ scene \in DOMAIN Scenes /\ timeout = here.timeout
    /\ \E words \in here.memories :
           m = [mem |-> words, calls |-> <<>>, reserved |-> 0, reservation_valid |-> FALSE]
    /\ icache_req = None /\ dcache_req = None
    /\ notif_valid = FALSE /\ notif_ready = FALSE /\ delayed_notif_ready = FALSE
    /\ started = FALSE /\ fence = None
    /\ lr = 0

\* The exit codes among the writes to the host: the others print a character,
\* and an int keeps half of the word.
exits(calls) ==
    LET written == SelectSeq(calls, LAMBDA v : v \div 2 ^ ByteBits # PutChar)
    IN  [i \in 1 .. Len(written) |-> written[i] % 2 ^ (XLEN \div 2)]

\* What the two ports do with the requests f and d, one after the other: the
\* answers, the exit code, and what they leave in memory and in the history.
Served(i, d, a) ==
    LET codes == exits(a.m.calls)
    IN  [got |-> [p \in Ports |-> IF p = "instruction" THEN i.response ELSE a.response],
         code |-> IF codes = <<>> THEN None ELSE codes[Len(codes)],
         m |-> [a.m EXCEPT !.calls = <<>>],
         lr |-> IF d # None /\ d.op = "LR" /\ a.response.exception = NoException
                THEN WordOf(a.m, a.m.reserved) ELSE lr]
ServeData(i, d) == Served(i, d, IF d = None THEN [m |-> i.m, response |-> None] ELSE access(i.m, d))
Serve(f, d) == ServeData(IF f = None THEN [m |-> m, response |-> None] ELSE fetch(m, f), d)

Taken(f, d, s) ==
    /\ icache_req' = f /\ dcache_req' = d
    /\ m' = s.m /\ lr' = s.lr
    /\ UNCHANGED <<fenceVars, scene, started>>

Delivered(response) == response # None /\ response.exception = NoException

MayFetch == queue["instruction"] = <<>>
MayAccess ==
    /\ started /\ fence = None /\ Len(queue["data"]) < 2
    /\ shown["data"] = None \/ Delivered(shown["data"])

\* eval and get_inputs after the reset, and in the second half of a cycle.
AfterReset ==
    \E f \in here.first : \E s \in {Serve(f, None)} :
        BeforeLoop(s.got, s.code) /\ Taken(f, None, s)

Negedge ==
    \E f \in {None} \cup (IF MayFetch THEN here.fetches ELSE {}),
       d \in {None} \cup (IF MayAccess THEN here.accesses ELSE {}) :
    \E s \in {Serve(f, d)} :
        SecondHalf(s.got, s.code) /\ Taken(f, d, s)

\* Mutation: the fence is answered at once.
clear_response_AtOnce ==
    /\ notif_ready' = notif_valid'
    /\ delayed_notif_ready' = notif_valid'
    /\ m' = IF notif_valid' THEN clear_all_reservations(m) ELSE m

\* eval and set_outputs in the first half of a cycle.  The pipeline signals a
\* fence for one cycle; clear_response answers it one cycle later.
clear_response ==
    /\ notif_ready' = delayed_notif_ready
    /\ delayed_notif_ready' = notif_valid'
    /\ m' = IF notif_valid' THEN clear_all_reservations(m) ELSE m

StartFence ==
    /\ here.fences /\ started /\ fence = None
    /\ queue["data"] = <<>> /\ dcache_req = None
    /\ notif_valid' = TRUE /\ fence' = cycle

NoFence ==
    /\ notif_valid' = FALSE
    /\ fence' = IF notif_ready THEN None ELSE fence

Posedge ==
    /\ FirstHalf
    /\ StartFence \/ NoFence
    /\ clear_response
    /\ started' = (started \/ Delivered(shown'["instruction"]))
    /\ icache_req' = None /\ dcache_req' = None
    /\ UNCHANGED <<scene, lr>>

End == Leave /\ UNCHANGED <<portVars, fenceVars, scene, started, lr>>

PipelineNext == AfterReset \/ Posedge \/ Negedge \/ End

PipelineSpec == PipelineInit /\ [][PipelineNext]_vars /\ WF_vars(PipelineNext)

-----------------------------------------------------------------------------
(* Properties *)

\* The requests that were made in a step, as functions of its end state.
Requested(q) == stage = "second" /\ q # None
Response(p) == queue'[p][Len(queue'[p])].data

\* The translation that the RISC-V privileged architecture defines, and that
\* page_table_walker.cc quotes: the first entry on the path that is not a
\* pointer to a table must be a leaf with the rights that the access needs.
Mapping(words, q, va) ==
    LET Index(i) == Field(va, OffsetBits + i * IndexBits, IndexBits)
        At(page, i) == (page * PAGESIZE) \div WordBytes + Index(i)
        Pointer(entry) == entry % 16 = 1
        PageOf(entry) == Field(entry, 10, 2 * IndexBits + TopBits)
        w2 == At(q.root, 2)
        w1 == At(PageOf(words[w2]), 1)
        w0 == At(PageOf(words[w1]), 0)
        i == IF ~Pointer(words[w2]) THEN 2 ELSE IF ~Pointer(words[w1]) THEN 1 ELSE 0
        w == <<w0, w1, w2>>[i + 1]
        entry == words[w]
        rights == {n \in 1 .. 3 : Bit(entry, n)}
        needed == CASE q.op \in {"LOAD", "LR"} -> IF q.mxr /\ 3 \in rights THEN {} ELSE {1}
                    [] q.op \in {"STORE", "SC"} -> {2}
                    [] q.op = "AMO" -> IF q.mxr /\ 3 \in rights THEN {2} ELSE {1, 2}
                    [] q.op = "FETCH" -> {3}
        modes == IF ~Bit(entry, 4) THEN {"S"} ELSE IF q.sum /\ q.op # "FETCH" THEN {"S", "U"} ELSE {"U"}
        covered == OffsetBits + i * IndexBits
    IN  [ok |-> /\ signed(va) \in -(2 ^ (VALEN - 1)) .. 2 ^ (VALEN - 1) - 1
                /\ entry % 16 \in {3, 7, 9, 11, 15}     \* R, RW, X, RX, RWX
                /\ needed \subseteq rights
                /\ (IF q.supervisor THEN "S" ELSE "U") \in modes
                /\ PageOf(entry) % 2 ^ (i * IndexBits) = 0,
         words |-> [words EXCEPT ![w] = @ | (IF q.op \in {"STORE", "SC", "AMO"} THEN 192 ELSE 64)],
         address |-> PageOf(entry) * PAGESIZE + (va % 2 ^ covered)]

\* What the access q is answered, and what it leaves in memory, if address
\* translation does what Mapping says and the rest is done at the physical
\* address.  The simulator computes that address in 32 bits: memory beyond 4 GiB
\* is not reached through translation, and is left out of the comparison.
MappedAs(serve(_, _), q, va, response) ==
    LET mapping == Mapping(m.mem, q, va)
        expected == serve([m EXCEPT !.mem = mapping.words],
                          [q EXCEPT !.virtual = FALSE, !.address = mapping.address])
    IN  IF mapping.ok
        THEN mapping.address < 2 ^ UintBits =>
                 response = expected.response /\ m'.mem = expected.m.mem
        ELSE response = [data |-> response.data, exception |-> cause("page", q.op)] /\ m'.mem = m.mem

\* Every translated fetch and access obeys the page tables: right address,
\* right refusal, and exactly the accessed and dirty bits set on the way.
TranslationMeetsSpec ==
    [][/\ Requested(icache_req') /\ icache_req'.virtual /\ dcache_req' = None
          => MappedAs(fetch, icache_req', icache_req'.address, Response("instruction"))
       /\ Requested(dcache_req') /\ dcache_req'.virtual /\ icache_req' = None
             /\ aligned(dcache_req'.address, dcache_req'.size)
          => MappedAs(access, dcache_req', dcache_req'.address, Response("data"))]_vars

\* The value of the low n bits of v, without and with a sign.
Unsigned(v, n) == v % 2 ^ n
Signed(v, n) == IF Bit(v, n - 1) THEN Unsigned(v, n) - 2 ^ n ELSE Unsigned(v, n)

Least(S) == CHOOSE x \in S : \A y \in S : x <= y
Greatest(S) == CHOOSE x \in S : \A y \in S : x >= y

\* An AMO of n bits on values of n bits.
Updated(amo, x, y, n) ==
    CASE amo = "ADD" -> Unsigned(x + y, n)
      [] amo = "SWAP" -> Unsigned(y, n)
      [] amo = "XOR" -> Unsigned(x, n) ^^ Unsigned(y, n)
      [] amo = "OR" -> Unsigned(x, n) | Unsigned(y, n)
      [] amo = "AND" -> Unsigned(x, n) & Unsigned(y, n)
      [] amo = "MIN" -> Unsigned(Least({Signed(x, n), Signed(y, n)}), n)
      [] amo = "MAX" -> Unsigned(Greatest({Signed(x, n), Signed(y, n)}), n)
      [] amo = "MINU" -> Least({Unsigned(x, n), Unsigned(y, n)})
      [] amo = "MAXU" -> Greatest({Unsigned(x, n), Unsigned(y, n)})

\* The port widens both operands of an AMO to 64 bits, updates and cuts the
\* result: that must be the AMO of the width that was asked for, and it and a
\* load must return what memory held, extended as asked.
AccessMeetsSpec ==
    [][LET q == dcache_req'
           n == ByteBits * 2 ^ q.size
           old == read(m, q.address, 2 ^ q.size)
           got == Response("data").data
       IN  Requested(q) /\ ~q.virtual /\ q.op \in {"LOAD", "AMO"} /\ icache_req' = None
             /\ Response("data").exception = NoException
           => /\ Unsigned(got, n) = old
              /\ CASE q.ext = "zero" -> got < 2 ^ n
                   [] q.ext = "one" -> got >= 2 ^ XLEN - 2 ^ n
                   [] q.ext = "signed" -> signed(got) = Signed(old, n)
              /\ q.op = "AMO" /\ q.address \notin Host =>
                     read(m', q.address, 2 ^ q.size) = Updated(q.amo, old, q.value, n)]_vars

\* A request that is answered with an exception has changed nothing: the
\* pipeline will trap and may repeat it.
FaultLeavesMemory ==
    [][Requested(dcache_req') /\ icache_req' = None /\ Response("data").exception # NoException
       => m' = m]_vars

\* While LR's reservation lasts, no store, AMO or SC has written the reserved
\* word: it is the word that LR read, or that word as page table entry which the
\* walker has since marked accessed, or accessed and dirty.
OnlyWalkerWritesReserved ==
    m.reservation_valid =>
        WordOf(m, m.reserved) \in {lr, set_accessed(lr), set_dirty(set_accessed(lr))}

\* "Maintain a single reserved address, and clear it whenever any memory is
\* written" (data_cache_port.h): a reservation made in an earlier cycle does not
\* outlive a write, whoever writes.
WritesClearReservation ==
    [][/\ m.reservation_valid /\ m'.mem # m.mem
       /\ ~(Requested(dcache_req') /\ dcache_req'.op = "LR")
       => ~m'.reservation_valid]_vars

\* A fence is answered in the cycle after it was signalled, when the pipeline
\* starts to look: neither in the same cycle, nor later, nor twice; and no
\* reservation outlives the signal.
FenceAnswered ==
    /\ stage = "second" => (notif_ready <=> fence # None /\ cycle = fence + 1)
    /\ fence # None => cycle <= fence + 2 /\ ~m.reservation_valid
=============================================================================
