----------------------------- MODULE CoreHarness -----------------------------
(***************************************************************************)
(* The core simulator (core_harness.cc): start-up, then RISCVSimulation's  *)
(* loop with a port for main memory and a port for I/O, which stand for    *)
(* synchronous memories that answer in the next cycle.                     *)
(*                                                                         *)
(* The core is the environment.  Its two ports reach different addresses,  *)
(* and it has no request before its caches have cleared their tags.        *)
(***************************************************************************)
EXTENDS Startup

CONSTANTS Requests      \* what the core may ask of the two ports in one cycle

VARIABLES request,      \* what the core asks of each port in this half
          rdata,        \* what each port drives
          answer        \* history: the word each port was last asked for, as it was then

coreVars == <<request, rdata, answer>>
vars == <<simVars, startVars, coreVars>>

Idle == [p \in Ports |-> None]

Deadbeef == <<239, 190, 173, 222, 0, 0, 0, 0>>

CoreInit ==
    /\ StartInit
    /\ request = Idle
    /\ rdata = [p \in Ports |-> Deadbeef] /\ answer = rdata

CoreStart == StartNext /\ UNCHANGED coreVars

\* The write masks that the I/O port accepts: whole bytes, halves, words, or all
\* of the double word.  The main memory port takes only the last.  A read has a
\* mask too, which nothing looks at.
Aligned(mask) ==
    \E n \in {1, 2, 4, 8}, k \in 0 .. 7 : k * n < 8 /\ mask = (k * n + 1) .. (k * n + n)
unsupported(p, q) ==
    /\ q # None /\ q.we
    /\ IF p = "main" THEN q.mask # 1 .. 8 ELSE ~Aligned(q.mask)

\* Mutation: the data is not shifted down to the lane.
io_data_Unshifted(q) ==
    [i \in 1 .. Cardinality(q.mask) |->
        IF Cardinality(q.mask) = 4 /\ i > 2 THEN 0 ELSE q.data[i]]

\* What the I/O port stores: the lanes of the mask, of which it passes on 16
\* bits when there are four.
io_data(q) ==
    [i \in 1 .. Cardinality(q.mask) |->
        IF Cardinality(q.mask) = 4 /\ i > 2 THEN 0 ELSE q.data[Min(q.mask) + i - 1]]

\* get_request: the word is read before it is written.  s is [mem, code].
read64(s, q) == BytesAt(s.mem, q.address, 8)
get_request(p, s, q) ==
    IF q = None \/ ~q.we THEN s
    ELSE IF p = "main" THEN Written(s, q.address, q.data)
    ELSE Written(s, q.address + Min(q.mask) - 1, io_data(q))

\* get_inputs of the main memory port, then of the I/O port.
Serve(r) ==
    LET s0 == [mem |-> mem, code |-> None]
        s1 == get_request("main", s0, r["main"])
        s2 == get_request("io", s1, r["io"])
        got == [p \in Ports |-> IF r[p] = None THEN None ELSE read64(IF p = "main" THEN s0 ELSE s1, r[p])]
    IN  [got |-> got, code |-> s2.code, mem |-> s2.mem]

Taken(r, s) ==
    /\ mem' = s.mem /\ request' = r
    /\ answer' = [p \in Ports |-> IF r[p] = None THEN answer[p] ELSE BytesAt(mem, r[p].address, 8)]
    /\ UNCHANGED <<argVars, hostVars, loaded, rdata>>

AfterReset == LET s == Serve(Idle) IN BeforeLoop(s.got, s.code) /\ Taken(Idle, s)

Negedge ==
    \E r \in Requests :
        /\ ~unsupported("main", r["main"]) /\ ~unsupported("io", r["io"])
        /\ LET s == Serve(r) IN SecondHalf(s.got, s.code) /\ Taken(r, s)

BadMask ==
    /\ stage = "second" /\ Die("exit(1)")
    /\ \E r \in Requests : unsupported("main", r["main"]) \/ unsupported("io", r["io"])
    /\ UNCHANGED <<startVars, coreVars>>

\* What the ports drive after set_outputs: nothing clears what they drove before.
send_response == [p \in Ports |-> IF due(p) THEN Head(queue[p]).data ELSE rdata[p]]

Posedge ==
    /\ FirstHalf
    /\ rdata' = send_response
    /\ request' = Idle
    /\ UNCHANGED <<startVars, answer>>

End == Leave /\ UNCHANGED <<startVars, coreVars>>

CoreNext == CoreStart \/ AfterReset \/ Posedge \/ Negedge \/ BadMask \/ End

CoreSpec == CoreInit /\ [][CoreNext]_vars /\ WF_vars(CoreNext)

-----------------------------------------------------------------------------
(* Properties *)

\* Each port looks like a synchronous memory that reads before it writes: in the
\* cycle after a request the core sees the word as it was when asked for, in no
\* earlier and no later one, and until the next answer it goes on seeing it.
DataNextCycle == stage = "second" => rdata = answer

\* A write of the I/O port changes the bytes that its mask selects and no others,
\* wherever they are in the word; of a 32-bit write the upper half is lost.
IoWriteMasked ==
    [][LET q == request'["io"]
           main == request'["main"]
           Lane(a) == a - q.address + 1
       IN  stage = "second" /\ stage' = "loop" /\ q # None
             /\ (q.we => q.address + Min(q.mask) - 1 \notin {tohost, fromhost})
           => \A a \in Address :
                  (main # None => a \notin main.address .. main.address + 7) =>
                  mem'[a] = IF ~q.we \/ Lane(a) \notin q.mask THEN mem[a]
                            ELSE IF Cardinality(q.mask) = 4 /\ Lane(a) > Min(q.mask) + 1 THEN 0
                            ELSE q.data[Lane(a)]]_vars
=============================================================================
