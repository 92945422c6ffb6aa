------------------------------- MODULE DCache -------------------------------
(***************************************************************************)
(* muntjac_dcache.sv, one step of Tick per clock cycle.  The registers of  *)
(* each region of the file are one record (wb, refill, probe, flush, miss, *)
(* main); the combinational signals are operators on the registers and on  *)
(* the cycle's inputs, under the names they have in the source.            *)
(*                                                                         *)
(* A line is <<tag, set>>.  A line holds NumBeats words and one word is    *)
(* one bus beat (DataWidth = 64).  Words are numbers below NumValues.  The *)
(* address translation of an access is reduced to its outcome, main.ppn:   *)
(* "ok" (or translation off), "fault", "wait" until the page-table walker  *)
(* answers, or "bad" for an address that is refused before translation.    *)
(*                                                                         *)
(* The cache is closed by an environment: the pipeline that sends one      *)
(* request at a time, and a TileLink manager that grants, probes and       *)
(* acknowledges, and whose other clients write lines this cache has no     *)
(* permission on.  mem is the manager's copy, held its record of what this *)
(* cache may hold.  golden and since_lr are observers.                     *)
(***************************************************************************)
EXTENDS Integers, Sequences, FiniteSets, TileLink

CONSTANTS Tags, Sets, NumWays, NumBeats, NumValues,
          AccessLockCycles,    \* 16 in the source
          Ops,                 \* which of the operations the pipeline uses
          Uncached,            \* lines whose manager denies AcquireBlock
          Faults,              \* which translation outcomes happen
          Written,             \* <<line, word>> pairs that anybody writes
          Stalls               \* channels whose receiver may not be ready

AllOps == {"LOAD", "STORE", "LR", "SC", "AMO"}

ASSUME DCacheAssumption ==
    /\ Tags # {} /\ NumWays \in Nat \ {0} /\ NumBeats \in Nat \ {0, 1} /\ NumValues \in Nat \ {0}
    /\ AccessLockCycles \in Nat
    /\ Sets = 0 .. Cardinality(Sets) - 1 /\ IsFiniteSet(Sets) /\ Sets # {}
    /\ Ops \subseteq AllOps
    /\ Uncached \subseteq Tags \X Sets
    /\ Faults \subseteq {"ok", "fault", "wait", "bad"}
    /\ Stalls \subseteq {"a", "c", "e"}
    /\ Written \subseteq (Tags \X Sets) \X (0 .. NumBeats - 1)

Ways == 1 .. NumWays
Words == 0 .. NumBeats - 1
Values == 0 .. NumValues - 1
Lines == Tags \X Sets
SetOf(line) == line[2]
TagOf(line) == line[1]
None == [kind |-> "none"]
OnLine(line) == [kind |-> "line", line |-> line]

VARIABLES
    tags, data,                     \* the tag and data SRAMs
    tag_rd, tag_rd_addr, data_rd,   \* their output registers and the address latch
    wb, refill, probe, flush, miss, main,
    b, d,                           \* the message on channels B and D
    acq, rel, unc,                  \* what the manager has yet to answer
    unacked, probing,               \* what it waits for: GrantAck, ProbeAck
    held, mem,                      \* the manager's directory and memory
    golden, since_lr                \* observers

sram == <<tags, data, tag_rd, tag_rd_addr, data_rd>>
regs == <<wb, refill, probe, flush, miss, main>>
manager == <<b, d, acq, rel, unc, unacked, probing, held, mem>>
observers == <<golden, since_lr>>
vars == <<sram, regs, manager, observers>>

TagEntry == [tag : Tags, valid : BOOLEAN, writable : BOOLEAN, dirty : BOOLEAN]
Request == [line : Lines, word : Words, op : Ops, value : Values,
            full : BOOLEAN,       \* a store of the whole word (req_size = 3)
            ppn : Faults]         \* "bad": misaligned or not canonical
WriteOps == {"STORE", "SC", "AMO"}    \* op[1] in mem_op_e
ReadOps == {"LOAD", "LR", "AMO"}      \* op[0] in mem_op_e

-----------------------------------------------------------------------------
(* Tag comparison *)

Lowest(S) == CHOOSE w \in S : \A v \in S : w <= v

hit == {w \in Ways : tag_rd[w].valid /\ tag_rd[w].tag = TagOf(tag_rd_addr)}
empty_ways == {w \in Ways : ~tag_rd[w].valid}
\* Mutant: an empty way is preferred to the way that hits.
hit_way_EmptyFirst == IF empty_ways # {} THEN Lowest(empty_ways)
                      ELSE IF hit # {} THEN Lowest(hit) ELSE main.evict_way
hit_way == IF hit # {} THEN Lowest(hit)
           ELSE IF empty_ways # {} THEN Lowest(empty_ways) ELSE main.evict_way
hit_tag == tag_rd[hit_way]

-----------------------------------------------------------------------------
(* Lock arbitration *)

nothing_in_progress ==
    ~(refill.tracker_valid \/ probe.tracker_valid \/ wb.state # "Idle" \/ flush.tracker_valid)

access_lock_valid == main.timer # 0

-----------------------------------------------------------------------------
(* Access: what StateFetch does with the tags it read *)

fetching == main.state = "Fetch" /\ nothing_in_progress
translated == fetching /\ main.ppn = "ok"
fetch_hit == translated /\ hit # {} /\ (hit_tag.writable \/ main.op = "LOAD")
fetch_sc_fail == translated /\ ~fetch_hit /\ main.op = "SC"
fetch_miss == translated /\ ~fetch_hit /\ main.op # "SC"

access_data_write_req == fetch_hit /\ ~main.reservation_failed /\ main.op \in WriteOps
access_tag_write_req == fetch_miss \/ (access_data_write_req /\ ~hit_tag.dirty)
access_lock_acq == access_tag_write_req

req_ready == main.state = "Idle" \/ fetch_hit \/ (translated /\ main.op = "SC")

\* do_amo_op and combine_word: the new word depends on the old one and on
\* the operand unless the whole word is stored.
Combine(whole, value, old) == IF whole THEN value ELSE (old + value) % NumValues
NewWord(old) == Combine(main.op = "SC" \/ (main.op = "STORE" /\ main.full), main.value, old)

-----------------------------------------------------------------------------
(* Refill: beats of a grant queue in refill.fifo, which passes its input    *)
(* through when it is empty.                                                *)

d_refill == d.kind \in {"Grant", "GrantData"}
\* Mutant: a beat held back by channel E is saved again every cycle.
refill_fifo_insert_Again == d_refill
refill_fifo_insert == d_refill /\ ~refill.beat_saved
refill_fifo == IF refill_fifo_insert THEN Append(refill.fifo, d) ELSE refill.fifo
refill_fifo_valid == refill_fifo # <<>>
refill_fifo_ready == refill.state = "Progress" /\ refill_fifo_valid
refill_beat == Head(refill_fifo)
refill_done == refill_fifo_ready /\ refill_beat.last
refill_data_write_req == refill_fifo_ready /\ refill_beat.kind = "GrantData" /\ ~refill_beat.denied
refill_tag_write_req == refill_done /\ ~refill_beat.denied
refill_lock_acq == refill.state = "Idle" /\ refill_fifo_valid

\* GrantAck leaves with the last beat, which stays on D until it does.
e_valid == d_refill /\ d.last
d_ready(in) == e_valid => in.e_ready

-----------------------------------------------------------------------------
(* Writeback: one request, from the probe logic or for a victim *)

wb_probe_req_valid == probe.state = "Check"
wb_probe_req ==
    [active |-> FALSE, way |-> hit_way, line |-> probe.line,
     dirty |-> hit # {} /\ hit_tag.dirty,
     param |-> IF hit = {} THEN "NtoN"
               ELSE IF probe.param = "toB"
               THEN IF hit_tag.writable THEN "TtoB" ELSE "BtoB"
               ELSE IF hit_tag.writable THEN "TtoN" ELSE "BtoN"]

wb_rel_req_valid == fetch_miss /\ hit_tag.valid /\ hit_tag.writable
wb_rel_req ==
    [active |-> TRUE, way |-> hit_way, line |-> <<hit_tag.tag, SetOf(main.line)>>,
     dirty |-> hit_tag.dirty, param |-> "TtoN"]

wb_req_valid == wb_probe_req_valid \/ wb_rel_req_valid
wb_req == IF wb_probe_req_valid THEN wb_probe_req ELSE wb_rel_req
writeback_lock_acq == wb.state = "Idle" /\ wb_req_valid

c_valid == wb.state = "Progress"
c_last == wb.index = 0
c_word == (wb.index - 1) % NumBeats
\* Mutant: no skid buffer for a beat that channel C did not take.
c_data_NoSkid == data_rd[wb.way]
c_data == IF wb.skid_valid THEN wb.skid ELSE data_rd[wb.way]

wb_data_read_req(in) ==
    \/ writeback_lock_acq /\ wb_req.dirty
    \/ c_valid /\ in.c_ready /\ ~c_last

-----------------------------------------------------------------------------
(* Probe and flush requests, and who takes the lock this cycle *)

probe_lock_acq ==
    /\ probe.state = "Idle" /\ b # None
    /\ ~(access_lock_valid /\ main.lock_set = SetOf(b.line))

refill_locking ==
    nothing_in_progress /\ ~access_lock_acq /\ ~writeback_lock_acq /\ refill_lock_acq

\* Mutant: a probe overtakes a grant that has been acknowledged.
probe_locking_OverRefill ==
    nothing_in_progress /\ ~access_lock_acq /\ ~writeback_lock_acq /\ probe_lock_acq

probe_locking ==
    /\ nothing_in_progress /\ ~access_lock_acq /\ ~writeback_lock_acq
    /\ ~refill_lock_acq /\ probe_lock_acq

probe_tag_write_req == probe.state = "Check" /\ hit # {}
flush_tag_write_req == flush.state = "Reset"

-----------------------------------------------------------------------------
(* SRAM ports: one operation a cycle each, by priority *)

access_read_req(in) == in.req # None \/ (main.state = "Replay" /\ nothing_in_progress)
access_read_line(in) == IF in.req # None THEN in.req.line ELSE main.line
access_read_word(in) == IF in.req # None THEN in.req.word ELSE main.word

access_tag_read_gnt(in) ==
    /\ access_read_req(in)
    /\ ~(refill_tag_write_req \/ probe_tag_write_req \/ probe_locking
           \/ flush_tag_write_req \/ access_tag_write_req)
access_data_read_gnt(in) ==
    /\ access_read_req(in)
    /\ ~(refill_data_write_req \/ wb_data_read_req(in) \/ access_data_write_req)

InvalidEntry == [tag |-> CHOOSE t \in Tags : TRUE, valid |-> FALSE,
                 writable |-> FALSE, dirty |-> FALSE]

\* A write reads the ways it does not write.
WriteTag(set, ways, entry) ==
    /\ tags' = [tags EXCEPT ![set] = [w \in Ways |-> IF w \in ways THEN entry ELSE @[w]]]
    /\ tag_rd' = [w \in Ways |-> IF w \in ways THEN tag_rd[w] ELSE tags[set][w]]
    /\ UNCHANGED tag_rd_addr
ReadTag(line) ==
    /\ tag_rd' = tags[SetOf(line)] /\ tag_rd_addr' = line
    /\ UNCHANGED tags

TagPort(in) ==
    IF refill_tag_write_req
    THEN WriteTag(SetOf(main.line), {main.way},
                  [tag |-> TagOf(main.line), valid |-> TRUE,
                   writable |-> refill_beat.param = "toT", dirty |-> FALSE])
    ELSE IF probe_tag_write_req
    THEN WriteTag(SetOf(probe.line), hit,
                  IF probe.param = "toB"
                  THEN [hit_tag EXCEPT !.dirty = FALSE, !.writable = FALSE] ELSE InvalidEntry)
    ELSE IF probe_locking THEN ReadTag(b.line)
    ELSE IF flush_tag_write_req THEN WriteTag(flush.index, Ways, InvalidEntry)
    ELSE IF access_tag_write_req
    THEN WriteTag(SetOf(main.line), {hit_way},
                  IF fetch_miss THEN InvalidEntry ELSE [hit_tag EXCEPT !.dirty = TRUE])
    ELSE IF access_read_req(in) THEN ReadTag(access_read_line(in))
    ELSE UNCHANGED <<tags, tag_rd, tag_rd_addr>>

WriteData(set, way, word, value) ==
    /\ data' = [data EXCEPT ![set][way][word] = value]
    /\ data_rd' = [w \in Ways |-> IF w = way THEN data_rd[w] ELSE data[set][w][word]]
ReadData(set, word) ==
    /\ data_rd' = [w \in Ways |-> data[set][w][word]]
    /\ UNCHANGED data

DataPort(in) ==
    IF refill_data_write_req
    THEN WriteData(SetOf(main.line), main.way, refill_beat.idx, refill_beat.data)
    ELSE IF wb_data_read_req(in)
    THEN IF c_valid THEN ReadData(SetOf(wb.line), wb.index) ELSE ReadData(SetOf(wb_req.line), 0)
    ELSE IF access_data_write_req
    THEN WriteData(SetOf(main.line), hit_way, main.word, NewWord(data_rd[hit_way]))
    ELSE IF access_read_req(in) THEN ReadData(SetOf(access_read_line(in)), access_read_word(in))
    ELSE UNCHANGED <<data, data_rd>>

-----------------------------------------------------------------------------
(* Registers.  A register that is written before it is next read goes back *)
(* to its reset value when its machine becomes idle.                       *)

WbReset == [state |-> "Idle", way |-> 1, line |-> CHOOSE l \in Lines : TRUE, opcode |-> "Release",
            param |-> "NtoN", index |-> 0, evict_completed |-> FALSE,
            skid_valid |-> FALSE, skid |-> 0]

WbStart ==
    [WbReset EXCEPT
       !.state = "Progress", !.way = wb_req.way, !.line = wb_req.line, !.param = wb_req.param,
       !.opcode = CASE wb_req.active /\ wb_req.dirty -> "ReleaseData"
                    [] wb_req.active /\ ~wb_req.dirty -> "Release"
                    [] ~wb_req.active /\ wb_req.dirty -> "ProbeAckData"
                    [] ~wb_req.active /\ ~wb_req.dirty -> "ProbeAck",
       !.index = IF wb_req.dirty THEN 1 ELSE 0]

WbSent ==
    IF c_last /\ ~IsRelease(wb.opcode) THEN WbReset
    ELSE [wb EXCEPT !.state = IF c_last THEN "Wait" ELSE "Progress",
                    !.index = (@ + 1) % NumBeats, !.skid_valid = FALSE, !.skid = 0]

WbStep(in) ==
    LET acked == wb.evict_completed \/ d.kind = "ReleaseAck"
    IN  wb' = CASE writeback_lock_acq -> WbStart
                [] c_valid /\ in.c_ready -> [WbSent EXCEPT !.evict_completed = acked]
                [] c_valid /\ ~in.c_ready -> [wb EXCEPT !.skid_valid = TRUE, !.skid = c_data,
                                                        !.evict_completed = acked]
                [] wb.state = "Wait" /\ acked -> WbReset
                [] OTHER -> wb

RefillStep(in) ==
    refill' =
      [state |-> CASE refill_locking -> "Progress" [] refill_done -> "Idle" [] OTHER -> refill.state,
       tracker_valid |-> CASE refill_locking -> TRUE [] refill_done -> FALSE
                           [] OTHER -> refill.tracker_valid,
       fifo |-> IF refill_fifo_ready THEN Tail(refill_fifo) ELSE refill_fifo,
       beat_saved |-> d_refill /\ ~d_ready(in)]

ProbeReset == [state |-> "Idle", tracker_valid |-> FALSE, line |-> CHOOSE l \in Lines : TRUE,
               param |-> "toN"]

ProbeStep ==
    probe' = CASE probe_locking -> [state |-> "Check", tracker_valid |-> TRUE,
                                    line |-> b.line, param |-> b.param]
               [] probe.state = "Check" -> ProbeReset
               [] OTHER -> probe

\* Mutant: the last set keeps what the SRAM powered up with.
FlushStep_SkipLast ==
    flush' = IF flush.state = "Reset" /\ flush.index + 2 \in Sets
             THEN [flush EXCEPT !.index = @ + 1]
             ELSE [state |-> "Idle", tracker_valid |-> FALSE, index |-> 0]

\* FlushStateReset clears one set a cycle; the flush requests that follow
\* only reach the TLB.
FlushStep ==
    flush' = CASE flush.state = "Reset" /\ flush.index + 1 \notin Sets ->
                    [state |-> "Idle", tracker_valid |-> FALSE, index |-> 0]
               [] flush.state = "Reset" /\ flush.index + 1 \in Sets ->
                    [flush EXCEPT !.index = @ + 1]
               [] OTHER -> flush

-----------------------------------------------------------------------------
(* Miss handling *)

MissReset == [state |-> "Idle", upgrade |-> FALSE, sent |-> FALSE]

a_valid == miss.state # "Idle" /\ ~miss.sent
a_param == IF main.op = "LOAD" THEN "NtoB" ELSE IF miss.upgrade THEN "BtoT" ELSE "NtoT"
d_access == d.kind = "AccessAck"

miss_refilled == miss.state = "Fill" /\ refill_done
miss_retry_uncached == miss_refilled /\ refill_beat.denied /\ main.op \in {"LOAD", "STORE"}
miss_resp_replay == miss_refilled /\ ~refill_beat.denied
miss_resp_valid == miss.state = "Uncached" /\ d_access /\ ~d.denied
miss_resp_exception ==
    \/ miss_refilled /\ refill_beat.denied /\ ~miss_retry_uncached
    \/ miss.state = "Uncached" /\ d_access /\ d.denied

\* Mutant: every miss asks for an upgrade.
MissStep_Upgrade(in) ==
    miss' = CASE fetch_miss -> [state |-> "Fill", upgrade |-> TRUE, sent |-> FALSE]
              [] miss_retry_uncached -> [MissReset EXCEPT !.state = "Uncached"]
              [] miss_resp_replay \/ miss_resp_valid \/ miss_resp_exception -> MissReset
              [] OTHER -> [miss EXCEPT !.sent = @ \/ (a_valid /\ in.a_ready)]

MissStep(in) ==
    miss' = CASE fetch_miss -> [state |-> "Fill", upgrade |-> hit # {}, sent |-> FALSE]
              [] miss_retry_uncached -> [MissReset EXCEPT !.state = "Uncached"]
              [] miss_resp_replay \/ miss_resp_valid \/ miss_resp_exception -> MissReset
              [] OTHER -> [miss EXCEPT !.sent = @ \/ (a_valid /\ in.a_ready)]

-----------------------------------------------------------------------------
(* Main state machine *)

MainReset ==
    [state |-> "Idle", line |-> CHOOSE l \in Lines : TRUE, word |-> 0, value |-> 0, full |-> TRUE,
     op |-> "LOAD", ppn |-> "ok", reserved |-> FALSE, reservation |-> CHOOSE l \in Lines : TRUE,
     reservation_failed |-> FALSE, way |-> 1, evict_way |-> 1, lock_set |-> 0, timer |-> 0]

main_state(in) ==
    CASE main.state = "Fetch" /\ ~nothing_in_progress -> "Replay"
      [] fetching /\ main.ppn = "wait" -> "WaitTLB"
      [] fetching /\ main.ppn = "fault" -> "Exception"
      [] fetch_hit \/ fetch_sc_fail -> "Idle"
      [] fetch_miss -> "Fill"
      [] /\ main.state = "Replay" /\ nothing_in_progress
         /\ access_tag_read_gnt(in) /\ access_data_read_gnt(in) -> "Fetch"
      [] main.state = "WaitTLB" /\ main.ppn # "wait" -> "Replay"
      [] main.state = "Fill" /\ miss_resp_replay -> "Replay"
      [] main.state = "Fill" /\ miss_resp_valid -> "Idle"
      [] main.state = "Fill" /\ miss_resp_exception -> "Exception"
      [] main.state = "Exception" -> "Idle"
      [] OTHER -> main.state

\* Mutant: no access lock after a refill.
main_timer_NoLock == 0

\* Mutant: the access lock does not expire.
main_timer_Forever ==
    CASE main.state = "Fill" /\ miss_resp_replay -> AccessLockCycles
      [] (fetch_hit /\ main.op # "LR") \/ fetch_miss -> 0
      [] OTHER -> main.timer

main_timer ==
    CASE main.state = "Fill" /\ miss_resp_replay -> AccessLockCycles
      [] (fetch_hit /\ main.op # "LR") \/ fetch_miss -> 0
      [] OTHER -> IF main.timer # 0 /\ ~probe.tracker_valid THEN main.timer - 1 ELSE main.timer

main_next(in) ==
    [main EXCEPT
       !.state = main_state(in), !.timer = main_timer,
       !.lock_set = IF main.state = "Fill" /\ miss_resp_replay THEN SetOf(main.line) ELSE @,
       !.way = IF fetch_miss THEN hit_way ELSE @,
       !.evict_way = IF fetch_miss /\ hit = {} THEN (@ % NumWays) + 1 ELSE @]

\* Mutants: the data read is not waited for; a reservation outlives accesses
\* other than the SC.
Accept_TagOnly(r, in, m) ==
    [m EXCEPT
       !.state = IF r.ppn = "bad" THEN "Exception"
                 ELSE IF access_tag_read_gnt(in) THEN "Fetch" ELSE "Replay",
       !.line = r.line, !.word = r.word, !.value = r.value, !.full = r.full, !.op = r.op,
       !.ppn = r.ppn,
       !.reserved = r.op = "LR", !.reservation = r.line,
       !.reservation_failed = r.op = "SC" /\ (r.line # main.reservation \/ ~main.reserved)]
Accept_KeepReservation(r, in, m) ==
    [m EXCEPT
       !.state = IF r.ppn = "bad" THEN "Exception"
                 ELSE IF access_tag_read_gnt(in) /\ access_data_read_gnt(in) THEN "Fetch" ELSE "Replay",
       !.line = r.line, !.word = r.word, !.value = r.value, !.full = r.full, !.op = r.op,
       !.ppn = r.ppn,
       !.reserved = r.op = "LR" \/ (@ /\ r.op # "SC"),
       !.reservation = IF r.op = "LR" THEN r.line ELSE @,
       !.reservation_failed = r.op = "SC" /\ (r.line # main.reservation \/ ~main.reserved)]

\* A request latched this cycle, over whatever the state machine did.
Accept(r, in, m) ==
    [m EXCEPT
       !.state = IF r.ppn = "bad" THEN "Exception"
                 ELSE IF /\ access_tag_read_gnt(in)
                         /\ (r.op = "STORE" /\ r.full) \/ access_data_read_gnt(in)
                 THEN "Fetch" ELSE "Replay",
       !.line = r.line, !.word = r.word, !.value = r.value, !.full = r.full, !.op = r.op,
       !.ppn = r.ppn,
       !.reserved = r.op = "LR", !.reservation = r.line,
       !.reservation_failed = r.op = "SC" /\ (r.line # main.reservation \/ ~main.reserved)]

\* What the idle state machine leaves in the request registers is never read.
Settle(m) ==
    IF m.state # "Idle" THEN m
    ELSE [m EXCEPT !.line = MainReset.line, !.word = 0, !.value = 0, !.full = TRUE, !.op = "LOAD",
                   !.ppn = "ok", !.reservation_failed = FALSE, !.way = 1,
                   !.reservation = IF m.reserved THEN @ ELSE MainReset.reservation]

MainStep(in) ==
    main' = IF in.req = None THEN Settle(main_next(in)) ELSE Accept(in.req, in, main_next(in))

\* The response port in this cycle.
responding == fetch_hit \/ fetch_sc_fail \/ miss_resp_valid
\* Mutant: an uncached load is answered from the data SRAM.
response_NoMux ==
    IF main.state = "Exception" THEN [kind |-> "ex"]
    ELSE IF ~responding THEN None
    ELSE [kind |-> "resp", value |-> data_rd[hit_way]]
response ==
    IF main.state = "Exception" THEN [kind |-> "ex"]
    ELSE IF ~responding THEN None
    ELSE [kind |-> "resp",
          value |-> IF miss_resp_valid THEN d.data
                    ELSE IF fetch_sc_fail \/ main.reservation_failed THEN 1
                    ELSE IF main.op \in ReadOps THEN data_rd[hit_way] ELSE 0]

-----------------------------------------------------------------------------
(* What the manager and the observers see of a cycle *)

ManagerSees(in) ==
    /\ b' = IF probe_locking THEN None ELSE b
    /\ d' = IF d_ready(in) THEN None ELSE d
    /\ acq' = IF a_valid /\ in.a_ready /\ miss.state = "Fill"
              THEN [kind |-> "acq", line |-> main.line, param |-> a_param, phase |-> "req",
                    cap |-> "toN", with_data |-> FALSE, denied |-> FALSE, beat |-> 0]
              ELSE acq
    /\ unacked' = IF e_valid /\ in.e_ready THEN None ELSE unacked
    /\ unc' = IF a_valid /\ in.a_ready /\ miss.state = "Uncached"
              THEN [kind |-> "unc", line |-> main.line, word |-> main.word,
                    value |-> main.value, full |-> main.full, write |-> main.op = "STORE"]
              ELSE unc
    /\ IF c_valid /\ in.c_ready
       THEN /\ mem' = IF HasCData(wb.opcode) THEN [mem EXCEPT ![wb.line][c_word] = c_data] ELSE mem
            /\ held' = IF c_last THEN [held EXCEPT ![wb.line] = ReportPerm(wb.param)] ELSE held
            /\ rel' = (rel \/ (c_last /\ IsRelease(wb.opcode)))
            /\ probing' = IF c_last /\ ~IsRelease(wb.opcode) THEN None ELSE probing
       ELSE UNCHANGED <<mem, held, rel, probing>>

Observe ==
    /\ golden' = IF access_data_write_req
                 THEN [golden EXCEPT ![main.line][main.word] = NewWord(@)] ELSE golden
    /\ since_lr' = IF response = None THEN since_lr
                   ELSE IF main.op = "LR" THEN OnLine(main.line) ELSE None

\* Words that nobody writes are alike, so one of them is asked for.
Requests ==
    {r \in Request : /\ r.op # "STORE" => r.full
                     /\ r.op \in {"LOAD", "LR"} \/ <<r.line, r.word>> \notin Written => r.value = 0
                     /\ r.word = 0 \/ <<r.line, r.word>> \in Written
                     /\ r.ppn = "bad" => r.word = 0 /\ r.value = 0 /\ r.full}

\* A ready that no valid meets makes no difference; the pipeline sends a
\* request only when the cache is ready for it.
Readies(channel, valid) == IF valid THEN {TRUE} \cup {c # channel : c \in Stalls} ELSE {FALSE}
Inputs ==
    [req : IF req_ready THEN Requests \cup {None} ELSE {None},
     a_ready : Readies("a", a_valid), c_ready : Readies("c", c_valid), e_ready : Readies("e", e_valid)]

Tick(in) ==
    /\ WbStep(in) /\ RefillStep(in) /\ ProbeStep /\ FlushStep /\ MissStep(in) /\ MainStep(in)
    /\ TagPort(in) /\ DataPort(in)
    /\ ManagerSees(in) /\ Observe

-----------------------------------------------------------------------------
(* Environment: the manager, its other clients, and the page-table walker *)

EnvGrant ==
    /\ acq # None /\ acq.phase = "req" /\ OnLine(acq.line) \notin {probing, unacked}
    /\ \E cap \in {"toT", "toB"}, with_data \in BOOLEAN :
         /\ cap = "toB" => acq.param = "NtoB"
         /\ ~with_data => acq.param = "BtoT" /\ held[acq.line] = "B"
         /\ IF acq.line \in Uncached
            THEN /\ acq' = [acq EXCEPT !.phase = "grant", !.denied = TRUE, !.cap = "toN"]
                 /\ UNCHANGED held
            ELSE /\ acq' = [acq EXCEPT !.phase = "grant", !.cap = cap, !.with_data = with_data]
                 /\ held' = [held EXCEPT ![acq.line] = CapPerm(cap)]
    /\ UNCHANGED <<sram, regs, observers, b, d, rel, unc, unacked, probing, mem>>

EnvGrantBeat ==
    /\ acq # None /\ acq.phase = "grant" /\ d = None
    /\ LET last == ~acq.with_data \/ acq.beat = NumBeats - 1
       IN  /\ d' = [kind |-> IF acq.with_data THEN "GrantData" ELSE "Grant", param |-> acq.cap,
                    idx |-> acq.beat, last |-> last, denied |-> acq.denied,
                    data |-> mem[acq.line][acq.beat]]
           /\ acq' = IF last THEN None ELSE [acq EXCEPT !.beat = @ + 1]
           /\ unacked' = IF last THEN OnLine(acq.line) ELSE unacked
    /\ UNCHANGED <<sram, regs, observers, b, rel, unc, probing, held, mem>>

EnvReleaseAck ==
    /\ rel /\ d = None /\ (acq # None => acq.beat = 0)
    /\ d' = [kind |-> "ReleaseAck"] /\ rel' = FALSE
    /\ UNCHANGED <<sram, regs, observers, b, acq, unc, unacked, probing, held, mem>>

EnvAccess ==
    /\ unc # None /\ d = None
    /\ \E denied \in BOOLEAN :
         /\ d' = [kind |-> "AccessAck", denied |-> denied, data |-> mem[unc.line][unc.word]]
         /\ IF unc.write /\ ~denied
            THEN LET new == Combine(unc.full, unc.value, mem[unc.line][unc.word])
                 IN  /\ mem' = [mem EXCEPT ![unc.line][unc.word] = new]
                     /\ golden' = [golden EXCEPT ![unc.line][unc.word] = new]
            ELSE UNCHANGED <<mem, golden>>
    /\ unc' = None
    /\ UNCHANGED <<sram, regs, b, acq, rel, unacked, probing, held, since_lr>>

\* The manager probes any line (tl_broadcast keeps no directory), one probe
\* at a time and never between a grant and its GrantAck.
EnvProbe(line, cap) ==
    /\ probing = None
    /\ acq # None => acq.line # line \/ acq.phase = "req"
    /\ unacked # OnLine(line)
    /\ b' = [kind |-> "probe", line |-> line, param |-> cap]
    /\ probing' = OnLine(line)
    /\ UNCHANGED <<sram, regs, observers, d, acq, rel, unc, unacked, held, mem>>

EnvOtherWrite(line, word, value) ==
    /\ held[line] = "N" /\ line \notin Uncached /\ value # mem[line][word]
    /\ mem' = [mem EXCEPT ![line][word] = value]
    /\ golden' = [golden EXCEPT ![line][word] = value]
    /\ since_lr' = IF since_lr = OnLine(line) THEN None ELSE since_lr
    /\ UNCHANGED <<sram, regs, b, d, acq, rel, unc, unacked, probing, held>>

EnvTranslate(outcome) ==
    /\ main.ppn = "wait"
    /\ main' = [main EXCEPT !.ppn = outcome]
    /\ UNCHANGED <<sram, wb, refill, probe, flush, miss, manager, observers>>

Env ==
    \/ EnvGrant \/ EnvGrantBeat \/ EnvReleaseAck \/ EnvAccess
    \/ \E line \in Lines, cap \in {"toN", "toB"} : EnvProbe(line, cap)
    \/ \E lw \in Written, value \in Values : EnvOtherWrite(lw[1], lw[2], value)
    \/ \E outcome \in {"ok", "fault"} : EnvTranslate(outcome)

-----------------------------------------------------------------------------
\* After reset the tag SRAM holds anything.
GarbageEntry == [tag |-> CHOOSE t \in Tags : TRUE, valid |-> TRUE, writable |-> TRUE, dirty |-> TRUE]

Init ==
    /\ tags \in [Sets -> [Ways -> {InvalidEntry, GarbageEntry}]]
    /\ data = [s \in Sets |-> [w \in Ways |-> [k \in Words |-> 0]]]
    /\ tag_rd = [w \in Ways |-> InvalidEntry]
    /\ tag_rd_addr = CHOOSE l \in Lines : TRUE
    /\ data_rd = [w \in Ways |-> 0]
    /\ wb = WbReset /\ probe = ProbeReset /\ miss = MissReset
    /\ refill = [state |-> "Idle", tracker_valid |-> FALSE, fifo |-> <<>>, beat_saved |-> FALSE]
    /\ flush = [state |-> "Reset", tracker_valid |-> TRUE, index |-> 0]
    /\ main = MainReset
    /\ b = None /\ d = None /\ acq = None /\ rel = FALSE /\ unc = None
    /\ unacked = None /\ probing = None
    /\ held = [l \in Lines |-> "N"]
    /\ mem = [l \in Lines |-> [k \in Words |-> 0]]
    /\ golden = mem
    /\ since_lr = None

Next == (\E in \in Inputs : Tick(in)) \/ Env

Spec == Init /\ [][Next]_vars

\* The clock runs, every valid is eventually met by a ready, and the manager
\* and the page-table walker eventually answer.  A manager that serves its
\* clients in turn grants even if it probes the line again and again before.
\* It learns of an answer to a probe a cycle after the cache sent it, so the
\* next probe does not always come in the very cycle the cache is free again.
AllReady(in) == in.a_ready = a_valid /\ in.c_ready = c_valid /\ in.e_ready = e_valid
Fairness ==
    /\ WF_vars(\E in \in Inputs : AllReady(in) /\ Tick(in))
    /\ SF_vars(\E in \in Inputs : AllReady(in) /\ b = None /\ nothing_in_progress /\ Tick(in))
    /\ SF_vars(EnvGrant) /\ WF_vars(EnvGrantBeat) /\ WF_vars(EnvReleaseAck) /\ WF_vars(EnvAccess)
    /\ WF_vars(\E outcome \in {"ok", "fault"} : EnvTranslate(outcome))

FairSpec == Spec /\ Fairness

-----------------------------------------------------------------------------
(* Properties *)

NoneSet == [kind : {"none"}]
LinesOrNone == NoneSet \cup [kind : {"line"}, line : Lines]
Beat == [kind : {"Grant", "GrantData"}, param : CapParams, idx : Words, last : BOOLEAN,
         denied : BOOLEAN, data : Values]
WbRegs == [state : {"Idle", "Progress", "Wait"}, way : Ways, line : Lines, opcode : COpcodes,
           param : ReportParams, index : Words, evict_completed : BOOLEAN,
           skid_valid : BOOLEAN, skid : Values]
RefillRegs == [state : {"Idle", "Progress"}, tracker_valid : BOOLEAN, fifo : Seq(Beat),
               beat_saved : BOOLEAN]
ProbeRegs == [state : {"Idle", "Check"}, tracker_valid : BOOLEAN, line : Lines,
              param : {"toN", "toB"}]
FlushRegs == [state : {"Reset", "Idle"}, tracker_valid : BOOLEAN, index : Sets]
MissRegs == [state : {"Idle", "Fill", "Uncached"}, upgrade : BOOLEAN, sent : BOOLEAN]
MainRegs == [state : {"Idle", "Fetch", "Replay", "WaitTLB", "Fill", "Exception"},
             line : Lines, word : Words, value : Values, full : BOOLEAN, op : AllOps,
             ppn : {"ok", "fault", "wait", "bad"}, reserved : BOOLEAN, reservation : Lines,
             reservation_failed : BOOLEAN, way : Ways, evict_way : Ways, lock_set : Sets,
             timer : 0 .. AccessLockCycles]

ProbeMsgs == NoneSet \cup [kind : {"probe"}, line : Lines, param : {"toN", "toB"}]
DMsgs == [kind : {"none", "ReleaseAck"}] \cup Beat
         \cup [kind : {"AccessAck"}, denied : BOOLEAN, data : Values]
AcqRecords == NoneSet \cup [kind : {"acq"}, line : Lines, param : GrowParams,
                           phase : {"req", "grant"}, cap : CapParams, with_data : BOOLEAN,
                           denied : BOOLEAN, beat : Words]
UncRecords == NoneSet \cup [kind : {"unc"}, line : Lines, word : Words, value : Values,
                           full : BOOLEAN, write : BOOLEAN]

\* Every register and port holds a value its declaration in muntjac_dcache
\* allows.
TypeOK ==
    /\ tags \in [Sets -> [Ways -> TagEntry]]
    /\ data \in [Sets -> [Ways -> [Words -> Values]]]
    /\ tag_rd \in [Ways -> TagEntry] /\ tag_rd_addr \in Lines /\ data_rd \in [Ways -> Values]
    /\ wb \in WbRegs /\ refill \in RefillRegs /\ probe \in ProbeRegs /\ flush \in FlushRegs
    /\ miss \in MissRegs /\ main \in MainRegs
    /\ b \in ProbeMsgs /\ d \in DMsgs /\ acq \in AcqRecords /\ unc \in UncRecords /\ rel \in BOOLEAN
    /\ probing \in LinesOrNone /\ unacked \in LinesOrNone /\ since_lr \in LinesOrNone
    /\ held \in [Lines -> Perms]
    /\ mem \in [Lines -> [Words -> Values]] /\ golden \in [Lines -> [Words -> Values]]

Trackers == (IF refill.tracker_valid THEN {"refill"} ELSE {})
            \cup (IF probe.tracker_valid THEN {"probe"} ELSE {})
            \cup (IF wb.state # "Idle" THEN {"writeback"} ELSE {})
            \cup (IF flush.tracker_valid THEN {"flush"} ELSE {})

\* At most one of refill, probe, writeback and flush holds the cache, although
\* the lock passes from probe to writeback and from an access to a writeback
\* without being released.
LockExclusive == \A t, u \in Trackers : t = u

Copies(line) == {w \in Ways : tags[SetOf(line)][w].valid /\ tags[SetOf(line)][w].tag = TagOf(line)}
CachePerm(line) ==
    IF Copies(line) = {} THEN "N"
    ELSE IF \E w \in Copies(line) : tags[SetOf(line)][w].writable THEN "T" ELSE "B"

\* The cache never believes it has more than the manager recorded, however
\* grants, probes, releases and replays interleave; in particular a grant that
\* was acknowledged before it was written is written before a later probe is
\* answered.
NoMoreThanGranted ==
    flush.state # "Reset" => \A line \in Lines : PermLeq(CachePerm(line), held[line])

\* A line is never valid in two ways of its set.
OneCopyPerLine ==
    flush.state # "Reset" =>
    \A s \in Sets : \A v, w \in Ways :
        tags[s][v].valid /\ tags[s][w].valid /\ tags[s][v].tag = tags[s][w].tag => v = w

\* A valid line holds the latest data, except for the words of a line being
\* refilled, whose tag is still invalid.
CopyIsCurrent ==
    flush.state # "Reset" =>
    \A s \in Sets, w \in Ways :
        tags[s][w].valid => data[s][w] = golden[<<tags[s][w].tag, s>>]

\* No store is lost on the way back: once the cache has no permission on a
\* line the manager's copy is the latest, whatever stalled on channel C.
StoresReachMemory ==
    \A line \in Lines \ Uncached : held[line] # "T" => mem[line] = golden[line]

\* The refill FIFO ignores its own full flag; a grant never overruns it.
RefillFifoFits == Len(refill.fifo) <= NumBeats

\* A load, an LR or an AMO that is answered, from the cache or from an uncached
\* device, returns the latest value of its word at that moment.
LoadsAreCurrent ==
    response.kind = "resp" /\ main.op \in ReadOps
      => response.value = golden[main.line][main.word]

\* A store-conditional succeeds only if the request answered before it was an
\* LR to its line and no other client has written the line since that answer.
ScIsAtomic ==
    access_data_write_req /\ main.op = "SC" => since_lr = OnLine(main.line)

\* Every request is answered (doc/pipeline_dcache_intf.md: "Every request must
\* receive a response"), although probes compete for the line it waits for.
EveryRequestAnswered == main.state # "Idle" ~> response # None

\* Every probe is answered: neither an access lock nor a writeback in wait
\* holds it up for ever.
EveryProbeAnswered == probing.kind = "line" ~> probing.kind = "none"

=============================================================================
