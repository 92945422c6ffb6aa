------------------------------ MODULE DCacheSteps -----------------------------
(***************************************************************************)
(* Proofs about muntjac_dcache for every number of ways, sets, beats and    *)
(* lines: type correctness and the exclusiveness of the internal lock; then,*)
(* with PermInv, what one clock cycle does to tags, probes, grants and the  *)
(* manager's record.                                                        *)
(*                                                                          *)
(* The argument: only the holder of the lock writes tags, so whoever decides*)
(* on tags has read them as they are (TagsRead); a probe, a writeback and a *)
(* grant are each in one place (Probes, Reports, Beats); the manager's record*)
(* follows them, so no copy has more than was granted (Granted), and a line *)
(* that is waited for is in no way, so a refill makes no second copy (Absent).*)
(***************************************************************************)
EXTENDS DCache, FiniteSetTheorems, WellFoundedInduction, TLAPS

\* The loops that scan the ways from the highest to the lowest end with the
\* lowest way that qualifies, whenever one does.
LEMMA LowestIsMember ==
    ASSUME NEW S \in SUBSET Ways, S # {} PROVE Lowest(S) \in S
<1> DEFINE R == {p \in Nat \X Nat : p[1] < p[2]}
<1>1. S \subseteq Nat
    BY DCacheAssumption DEF Ways
<1>2. R = OpToRel(<, Nat)
    BY Zenon DEF OpToRel
<1>3. IsWellFoundedOn(R, Nat)
    BY Zenon, <1>2, NatLessThanWellFounded
<1> HIDE DEF R
<1>4. PICK w \in S : \A v \in S : ~(<<v, w>> \in R)
    BY Zenon, <1>1, <1>3, WFMin
<1>5. ASSUME NEW v \in S PROVE w <= v
  <2>1. v \in Nat /\ w \in Nat
      BY Zenon, <1>1
  <2>2. <<v, w>> \in R <=> v < w
      BY Zenon, <2>1 DEF R
  <2> QED BY <2>1, <2>2, <1>4
<1> QED BY Zenon, <1>5 DEF Lowest

\* Every value that a wrapping counter or adder of the model takes is in range.
LEMMA ModInRange ==
    ASSUME NEW a \in Int, NEW n \in Nat \ {0} PROVE a % n \in 0 .. n - 1
  OBVIOUS

LEMMA SomeLine == (CHOOSE l \in Lines : TRUE) \in Lines
<1>1. PICK t \in Tags, i \in Sets : TRUE
    BY Zenon, DCacheAssumption
<1>2. <<t, i>> \in Lines
    BY Zenon DEF Lines
<1> QED BY Zenon, <1>2

LEMMA SomeTag == (CHOOSE t \in Tags : TRUE) \in Tags
  BY Zenon, DCacheAssumption

LEMMA ConstantTypes ==
    /\ 0 \in Words /\ 1 \in Words /\ 0 \in Values /\ 1 \in Ways /\ 0 \in Sets
    /\ InvalidEntry \in TagEntry /\ GarbageEntry \in TagEntry
    /\ WbReset \in WbRegs /\ ProbeReset \in ProbeRegs /\ MissReset \in MissRegs
    /\ MainReset \in MainRegs
<1>1. 0 \in Words /\ 1 \in Words /\ 0 \in Values /\ 1 \in Ways
    BY DCacheAssumption DEF Words, Values, Ways
<1>2. 0 \in Sets
    BY DCacheAssumption, FS_CardinalityType, FS_EmptySet
<1>3. InvalidEntry \in TagEntry /\ GarbageEntry \in TagEntry
    BY Zenon, SomeTag DEF InvalidEntry, GarbageEntry, TagEntry
<1>4. WbReset \in WbRegs
    BY Zenon, <1>1, SomeLine DEF WbReset, WbRegs, COpcodes, ReportParams
<1>5. ProbeReset \in ProbeRegs /\ MissReset \in MissRegs
    BY Zenon, SomeLine DEF ProbeReset, ProbeRegs, MissReset, MissRegs
<1>6. MainReset \in MainRegs
    BY <1>1, <1>2, SomeLine, DCacheAssumption DEF MainReset, MainRegs, AllOps
<1> QED BY Zenon, <1>1, <1>2, <1>3, <1>4, <1>5, <1>6

-----------------------------------------------------------------------------
(* Type correctness: the combinational signals *)

LEMMA HitTypes ==
    ASSUME TypeOK PROVE hit \subseteq Ways /\ hit_way \in Ways /\ hit_tag \in TagEntry
<1>1. hit \subseteq Ways /\ empty_ways \subseteq Ways
    BY Zenon DEF hit, empty_ways
<1>2. hit # {} => Lowest(hit) \in Ways
    BY Zenon, <1>1, LowestIsMember
<1>3. empty_ways # {} => Lowest(empty_ways) \in Ways
    BY Zenon, <1>1, LowestIsMember
<1>4. main.evict_way \in Ways
    BY Zenon DEF TypeOK, MainRegs
<1>5. hit_way \in Ways
    BY Zenon, <1>2, <1>3, <1>4 DEF hit_way
<1> QED BY Zenon, <1>1, <1>5 DEF hit_tag, TypeOK

LEMMA NewWordType ==
    ASSUME TypeOK, NEW old \in Values PROVE NewWord(old) \in Values
<1>1. main.value \in Values /\ NumValues \in Nat \ {0}
    BY Zenon, DCacheAssumption DEF TypeOK, MainRegs
<1>2. old + main.value \in Int
    BY <1>1 DEF Values
<1>3. (old + main.value) % NumValues \in Values
    BY Zenon, <1>1, <1>2, ModInRange DEF Values
<1> QED BY Zenon, <1>1, <1>3 DEF NewWord, Combine

Memories == [Lines -> [Words -> Values]]

LEMMA WordUpdate ==
    ASSUME NEW f \in Memories, NEW l \in Lines, NEW k \in Words, NEW v \in Values
    PROVE  [f EXCEPT ![l][k] = v] \in Memories
  BY Zenon DEF Memories

LEMMA InputTypes ==
    ASSUME NEW in \in Inputs
    PROVE  /\ in.req = None \/ in.req \in Request
           /\ in.c_ready \in BOOLEAN /\ in.a_ready \in BOOLEAN /\ in.e_ready \in BOOLEAN
<1>1. in.req = None \/ in.req \in Request
  BY Zenon DEF Inputs, Requests
<1>2. ASSUME NEW c, NEW v PROVE Readies(c, v) \subseteq BOOLEAN
  <2>1. {x # c : x \in Stalls} \subseteq BOOLEAN
    BY Zenon
  <2>2. Readies(c, v) = {FALSE} \/ Readies(c, v) = {TRUE} \cup {x # c : x \in Stalls}
    BY Zenon DEF Readies
  <2> QED BY Zenon, <2>1, <2>2
<1>3. in.a_ready \in Readies("a", a_valid) /\ in.c_ready \in Readies("c", c_valid) /\ in.e_ready \in Readies("e", e_valid)
  BY Zenon DEF Inputs
<1> QED BY Zenon, <1>1, <1>2, <1>3

LEMMA RequestTypes ==
    ASSUME NEW r \in Request
    PROVE  /\ r.line \in Lines /\ r.word \in Words /\ r.value \in Values /\ r.full \in BOOLEAN
           /\ r.op \in AllOps /\ r.ppn \in {"ok", "fault", "wait", "bad"}
  BY Zenon, DCacheAssumption DEF Request

\* The FIFO holds beats of a grant, also with the one that passes through it.
LEMMA FifoTypes ==
    ASSUME TypeOK
    PROVE  /\ refill_fifo \in Seq(Beat)
           /\ refill_fifo_valid => refill_beat \in Beat /\ Tail(refill_fifo) \in Seq(Beat)
<1>1. refill.fifo \in Seq(Beat)
    BY Zenon DEF TypeOK, RefillRegs
<1>2. d_refill => d \in Beat
    BY Zenon DEF TypeOK, DMsgs, d_refill, Beat
<1>3. refill_fifo \in Seq(Beat)
    BY <1>1, <1>2 DEF refill_fifo, refill_fifo_insert
<1> QED BY <1>3 DEF refill_fifo_valid, refill_beat

LEMMA WbReqTypes ==
    ASSUME TypeOK, wb_req_valid
    PROVE  /\ wb_req.way \in Ways /\ wb_req.line \in Lines /\ wb_req.dirty \in BOOLEAN
           /\ wb_req.active \in BOOLEAN /\ wb_req.param \in ReportParams
<1>1. probe.line \in Lines /\ main.line \in Lines /\ main.line[2] \in Sets
    BY Zenon DEF TypeOK, ProbeRegs, MainRegs, Lines
<1>2. hit_tag.tag \in Tags /\ hit_tag.dirty \in BOOLEAN /\ <<hit_tag.tag, SetOf(main.line)>> \in Lines
    BY Zenon, <1>1, HitTypes DEF TagEntry, SetOf, Lines
<1> QED BY Zenon, <1>1, <1>2, HitTypes DEF wb_req, wb_probe_req, wb_rel_req, ReportParams

-----------------------------------------------------------------------------
(* Type correctness: the registers *)

LEMMA WbStepType ==
    ASSUME TypeOK, NEW in \in Inputs, WbStep(in) PROVE wb' \in WbRegs
<1>1. wb \in WbRegs /\ wb.index \in Words /\ wb.way \in Ways /\ wb.skid \in Values
    BY Zenon DEF TypeOK, WbRegs
<1>2. c_data \in Values
    BY Zenon, <1>1 DEF c_data, TypeOK
<1>3. (wb.index + 1) % NumBeats \in Words
  <2>1. wb.index + 1 \in Int /\ NumBeats \in Nat \ {0}
      BY <1>1, DCacheAssumption DEF Words
  <2> QED BY Zenon, <2>1, ModInRange DEF Words
<1>4. WbSent \in WbRegs
    BY Zenon, <1>1, <1>3, ConstantTypes DEF WbSent, WbRegs
<1>5. writeback_lock_acq => WbStart \in WbRegs
    BY Zenon, WbReqTypes, ConstantTypes DEF writeback_lock_acq, WbStart, WbRegs, COpcodes
<1>6. ASSUME NEW v \in WbRegs, NEW e \in BOOLEAN
      PROVE  [v EXCEPT !.evict_completed = e] \in WbRegs
    BY Zenon DEF WbRegs
<1>7. [wb EXCEPT !.skid_valid = TRUE, !.skid = c_data,
                 !.evict_completed = wb.evict_completed \/ d.kind = "ReleaseAck"] \in WbRegs
    BY Zenon, <1>1, <1>2 DEF WbRegs
<1>8. (wb.evict_completed \/ d.kind = "ReleaseAck") \in BOOLEAN
    BY Zenon
<1> QED BY Zenon, <1>1, <1>4, <1>5, <1>6, <1>7, <1>8, ConstantTypes DEF WbStep

LEMMA RefillStepType ==
    ASSUME TypeOK, NEW in \in Inputs, RefillStep(in) PROVE refill' \in RefillRegs
<1>1. refill.state \in {"Idle", "Progress"} /\ refill.tracker_valid \in BOOLEAN
    BY Zenon DEF TypeOK, RefillRegs
<1>2. (IF refill_fifo_ready THEN Tail(refill_fifo) ELSE refill_fifo) \in Seq(Beat)
    BY Zenon, FifoTypes DEF refill_fifo_ready
<1>3. (d_refill /\ ~d_ready(in)) \in BOOLEAN
    BY Zenon
<1> QED BY Zenon, <1>1, <1>2, <1>3 DEF RefillStep, RefillRegs

LEMMA ProbeStepType ==
    ASSUME TypeOK, ProbeStep PROVE probe' \in ProbeRegs
<1>1. b # None => b.line \in Lines /\ b.param \in {"toN", "toB"}
    BY Zenon DEF TypeOK, ProbeMsgs, None, NoneSet
<1>2. probe_locking => b # None
    BY Zenon DEF probe_locking, probe_lock_acq
<1> QED BY Zenon, <1>1, <1>2, ConstantTypes DEF ProbeStep, ProbeRegs, TypeOK

LEMMA FlushStepType ==
    ASSUME TypeOK, FlushStep PROVE flush' \in FlushRegs
  BY Zenon, ConstantTypes DEF TypeOK, FlushStep, FlushRegs

LEMMA MissStepType ==
    ASSUME TypeOK, NEW in \in Inputs, MissStep(in) PROVE miss' \in MissRegs
<1>1. miss.sent \in BOOLEAN /\ miss \in MissRegs
    BY Zenon DEF TypeOK, MissRegs
<1>2. (miss.sent \/ (a_valid /\ in.a_ready)) \in BOOLEAN /\ (hit # {}) \in BOOLEAN
    BY Zenon
<1> QED BY Zenon, <1>1, <1>2, ConstantTypes DEF MissStep, MissRegs

LEMMA MainNextType ==
    ASSUME TypeOK, NEW in \in Inputs PROVE main_next(in) \in MainRegs
<1>1. main \in MainRegs /\ main.line \in Lines /\ main.evict_way \in Ways
      /\ main.timer \in 0 .. AccessLockCycles /\ main.lock_set \in Sets /\ main.way \in Ways
    BY Zenon DEF TypeOK, MainRegs
<1>2. main_timer \in 0 .. AccessLockCycles
    BY <1>1, DCacheAssumption DEF main_timer
<1>3. main_state(in) \in {"Idle", "Fetch", "Replay", "WaitTLB", "Fill", "Exception"}
    BY Zenon, <1>1 DEF main_state, MainRegs
<1>4. SetOf(main.line) \in Sets
    BY Zenon, <1>1 DEF SetOf, Lines
<1>5. (main.evict_way % NumWays) + 1 \in Ways
  <2>1. main.evict_way \in Int /\ NumWays \in Nat \ {0}
      BY <1>1, DCacheAssumption DEF Ways
  <2>2. main.evict_way % NumWays \in 0 .. NumWays - 1
      BY Zenon, <2>1, ModInRange
  <2> QED BY <2>1, <2>2 DEF Ways
<1> DEFINE set == IF main.state = "Fill" /\ miss_resp_replay THEN SetOf(main.line) ELSE main.lock_set
           way == IF fetch_miss THEN hit_way ELSE main.way
           evict == IF fetch_miss /\ hit = {} THEN (main.evict_way % NumWays) + 1 ELSE main.evict_way
           next == [main EXCEPT !.state = main_state(in), !.timer = main_timer, !.lock_set = set,
                                !.way = way, !.evict_way = evict]
<1>6. set \in Sets /\ way \in Ways /\ evict \in Ways
    BY Zenon, <1>1, <1>4, <1>5, HitTypes
<1>7. main_next(in) = next
    BY Zenon, <1>1 DEF main_next, MainRegs
<1> HIDE DEF set, way, evict
<1>8. next \in MainRegs
    BY Zenon, <1>1, <1>2, <1>3, <1>6 DEF MainRegs
<1> QED BY Zenon, <1>7, <1>8

LEMMA MainStepType ==
    ASSUME TypeOK, NEW in \in Inputs, MainStep(in) PROVE main' \in MainRegs
<1>1. main_next(in) \in MainRegs
    BY Zenon, MainNextType
<1>2. ASSUME NEW m \in MainRegs PROVE Settle(m) \in MainRegs
  <2>1. ASSUME NEW line \in Lines, NEW r \in Lines
        PROVE  [m EXCEPT !.line = line, !.word = 0, !.value = 0, !.full = TRUE, !.op = "LOAD",
                         !.ppn = "ok", !.reservation_failed = FALSE, !.way = 1, !.reservation = r]
                 \in MainRegs
      BY ZenonT(40), ConstantTypes DEF MainRegs, AllOps
  <2>2. MainReset.line \in Lines /\ MainReset.reservation \in Lines /\ m.reservation \in Lines
      BY Zenon, ConstantTypes DEF MainRegs
  <2> QED BY Zenon, <2>1, <2>2 DEF Settle
<1>3. ASSUME NEW r \in Request, NEW m \in MainRegs PROVE Accept(r, in, m) \in MainRegs
  <2>1. /\ (r.op = "LR") \in BOOLEAN
        /\ (r.op = "SC" /\ (r.line # main.reservation \/ ~main.reserved)) \in BOOLEAN
      BY Zenon
  <2>2. ASSUME NEW st \in {"Exception", "Fetch", "Replay"}, NEW rv \in BOOLEAN, NEW rf \in BOOLEAN
        PROVE  [m EXCEPT !.state = st, !.line = r.line, !.word = r.word, !.value = r.value,
                         !.full = r.full, !.op = r.op, !.ppn = r.ppn, !.reserved = rv,
                         !.reservation = r.line, !.reservation_failed = rf] \in MainRegs
      BY Zenon, RequestTypes DEF MainRegs
  <2> QED BY ZenonT(40), <2>1, <2>2 DEF Accept
<1> QED BY Zenon, <1>1, <1>2, <1>3, InputTypes DEF MainStep

-----------------------------------------------------------------------------
(* Type correctness: the SRAMs *)

TagTypes == tags \in [Sets -> [Ways -> TagEntry]] /\ tag_rd \in [Ways -> TagEntry] /\ tag_rd_addr \in Lines
DataTypes == data \in [Sets -> [Ways -> [Words -> Values]]] /\ data_rd \in [Ways -> Values]

LEMMA WriteTagType ==
    ASSUME TagTypes, NEW i \in Sets, NEW ws, NEW e \in TagEntry, WriteTag(i, ws, e)
    PROVE  TagTypes'
  BY Zenon DEF TagTypes, WriteTag

LEMMA ReadTagType ==
    ASSUME TagTypes, NEW line \in Lines, ReadTag(line) PROVE TagTypes'
  BY Zenon DEF TagTypes, ReadTag, SetOf, Lines

LEMMA TagPortType ==
    ASSUME TypeOK, NEW in \in Inputs, TagPort(in) PROVE TagTypes'
<1>1. TagTypes
    BY Zenon DEF TypeOK, TagTypes
<1>2. /\ main.line \in Lines /\ SetOf(main.line) \in Sets /\ TagOf(main.line) \in Tags
      /\ probe.line \in Lines /\ SetOf(probe.line) \in Sets /\ flush.index \in Sets
    BY Zenon DEF TypeOK, MainRegs, ProbeRegs, FlushRegs, Lines, SetOf, TagOf
<1>3. [tag |-> TagOf(main.line), valid |-> TRUE,
       writable |-> refill_beat.param = "toT", dirty |-> FALSE] \in TagEntry
    BY Zenon, <1>2 DEF TagEntry
<1>4. /\ [hit_tag EXCEPT !.dirty = FALSE, !.writable = FALSE] \in TagEntry
      /\ [hit_tag EXCEPT !.dirty = TRUE] \in TagEntry
    BY Zenon, HitTypes DEF TagEntry
<1>5. CASE refill_tag_write_req
    BY Zenon, <1>1, <1>2, <1>3, <1>5, WriteTagType DEF TagPort
<1>6. CASE ~refill_tag_write_req /\ probe_tag_write_req
    BY Zenon, <1>1, <1>2, <1>4, <1>6, WriteTagType, ConstantTypes DEF TagPort
<1>7. CASE ~refill_tag_write_req /\ ~probe_tag_write_req /\ probe_locking
  <2>1. b.line \in Lines
      BY Zenon, <1>7 DEF probe_locking, probe_lock_acq, TypeOK, ProbeMsgs, NoneSet, None
  <2> QED BY Zenon, <1>1, <1>7, <2>1, ReadTagType DEF TagPort
<1>8. CASE ~refill_tag_write_req /\ ~probe_tag_write_req /\ ~probe_locking /\ flush_tag_write_req
    BY Zenon, <1>1, <1>2, <1>8, WriteTagType, ConstantTypes DEF TagPort
<1>9. CASE ~refill_tag_write_req /\ ~probe_tag_write_req /\ ~probe_locking
           /\ ~flush_tag_write_req /\ access_tag_write_req
    BY Zenon, <1>1, <1>2, <1>4, <1>9, WriteTagType, ConstantTypes DEF TagPort
<1>10. CASE ~refill_tag_write_req /\ ~probe_tag_write_req /\ ~probe_locking
            /\ ~flush_tag_write_req /\ ~access_tag_write_req
  <2>1. access_read_line(in) \in Lines
      BY Zenon, <1>2, InputTypes, RequestTypes DEF access_read_line
  <2>2. CASE access_read_req(in)
      BY Zenon, <1>1, <1>10, <2>1, <2>2, ReadTagType DEF TagPort
  <2>3. CASE ~access_read_req(in)
      BY Zenon, <1>1, <1>10, <2>3 DEF TagPort, TagTypes
  <2> QED BY Zenon, <2>2, <2>3
<1> QED BY Zenon, <1>5, <1>6, <1>7, <1>8, <1>9, <1>10

LEMMA WriteDataType ==
    ASSUME DataTypes, NEW i \in Sets, NEW w \in Ways, NEW k \in Words, NEW v \in Values,
           WriteData(i, w, k, v)
    PROVE  DataTypes'
  BY DEF DataTypes, WriteData

LEMMA ReadDataType ==
    ASSUME DataTypes, NEW i \in Sets, NEW k \in Words, ReadData(i, k) PROVE DataTypes'
  BY DEF DataTypes, ReadData

LEMMA DataPortType ==
    ASSUME TypeOK, NEW in \in Inputs, DataPort(in) PROVE DataTypes'
<1>1. DataTypes
    BY Zenon DEF TypeOK, DataTypes
<1>2. /\ main.line \in Lines /\ SetOf(main.line) \in Sets /\ main.way \in Ways /\ main.word \in Words
      /\ wb.line \in Lines /\ SetOf(wb.line) \in Sets /\ wb.index \in Words
    BY Zenon DEF TypeOK, MainRegs, WbRegs, Lines, SetOf
<1>3. CASE refill_data_write_req
  <2>1. refill_beat.idx \in Words /\ refill_beat.data \in Values
      BY Zenon, <1>3, FifoTypes DEF refill_data_write_req, refill_fifo_ready, Beat
  <2> QED BY Zenon, <1>1, <1>2, <1>3, <2>1, WriteDataType DEF DataPort
<1>4. CASE ~refill_data_write_req /\ wb_data_read_req(in)
  <2>1. CASE c_valid
      BY Zenon, <1>1, <1>2, <1>4, <2>1, ReadDataType DEF DataPort
  <2>2. CASE ~c_valid
    <3>1. wb_req_valid
        BY Zenon, <1>4, <2>2 DEF wb_data_read_req, writeback_lock_acq
    <3>2. SetOf(wb_req.line) \in Sets
        BY Zenon, <3>1, WbReqTypes DEF SetOf, Lines
    <3> QED BY Zenon, <1>1, <1>4, <2>2, <3>2, ReadDataType, ConstantTypes DEF DataPort
  <2> QED BY Zenon, <2>1, <2>2
<1>5. CASE ~refill_data_write_req /\ ~wb_data_read_req(in) /\ access_data_write_req
  <2>1. NewWord(data_rd[hit_way]) \in Values
      BY Zenon, HitTypes, NewWordType DEF TypeOK
  <2> QED BY Zenon, <1>1, <1>2, <1>5, <2>1, HitTypes, WriteDataType DEF DataPort
<1>6. CASE ~refill_data_write_req /\ ~wb_data_read_req(in) /\ ~access_data_write_req
  <2>1. SetOf(access_read_line(in)) \in Sets /\ access_read_word(in) \in Words
      BY Zenon, <1>2, InputTypes, RequestTypes DEF access_read_line, access_read_word, SetOf, Lines
  <2>2. CASE access_read_req(in)
      BY Zenon, <1>1, <1>6, <2>1, <2>2, ReadDataType DEF DataPort
  <2>3. CASE ~access_read_req(in)
      BY Zenon, <1>1, <1>6, <2>3 DEF DataPort, DataTypes
  <2> QED BY Zenon, <2>2, <2>3
<1> QED BY Zenon, <1>3, <1>4, <1>5, <1>6

-----------------------------------------------------------------------------
(* Type correctness: what the manager and the observers see of a cycle *)

LEMMA ManagerSeesType ==
    ASSUME TypeOK, NEW in \in Inputs, ManagerSees(in)
    PROVE  /\ b' \in ProbeMsgs /\ d' \in DMsgs /\ acq' \in AcqRecords /\ unc' \in UncRecords
           /\ rel' \in BOOLEAN /\ probing' \in LinesOrNone /\ unacked' \in LinesOrNone
           /\ held' \in [Lines -> Perms] /\ mem' \in [Lines -> [Words -> Values]]
<1>1. None \in ProbeMsgs /\ None \in DMsgs /\ None \in LinesOrNone
    BY Zenon DEF None, NoneSet, ProbeMsgs, DMsgs, LinesOrNone
<1>2. /\ main.line \in Lines /\ main.word \in Words /\ main.value \in Values /\ main.full \in BOOLEAN
      /\ wb.line \in Lines /\ wb.param \in ReportParams /\ wb.index \in Words
    BY Zenon DEF TypeOK, MainRegs, WbRegs
<1>3. [kind |-> "acq", line |-> main.line, param |-> a_param, phase |-> "req",
       cap |-> "toN", with_data |-> FALSE, denied |-> FALSE, beat |-> 0] \in AcqRecords
    BY Zenon, <1>2, ConstantTypes DEF AcqRecords, a_param, GrowParams, CapParams
<1>4. [kind |-> "unc", line |-> main.line, word |-> main.word, value |-> main.value,
       full |-> main.full, write |-> main.op = "STORE"] \in UncRecords
    BY Zenon, <1>2 DEF UncRecords
<1>5. c_word \in Words
  <2>1. wb.index - 1 \in Int /\ NumBeats \in Nat \ {0}
      BY <1>2, DCacheAssumption DEF Words
  <2> QED BY Zenon, <2>1, ModInRange DEF c_word, Words
<1>6. c_data \in Values
    BY Zenon DEF c_data, TypeOK, WbRegs
<1>7. ReportPerm(wb.param) \in Perms
    BY Zenon, <1>2 DEF ReportPerm, ReportParams, Perms
<1>8. b' \in ProbeMsgs /\ d' \in DMsgs /\ unacked' \in LinesOrNone
    BY Zenon, <1>1 DEF ManagerSees, TypeOK
<1>9. acq' \in AcqRecords /\ unc' \in UncRecords
    BY Zenon, <1>3, <1>4 DEF ManagerSees, TypeOK
<1>10. rel' \in BOOLEAN /\ probing' \in LinesOrNone
  <2>1. (rel \/ (c_last /\ IsRelease(wb.opcode))) \in BOOLEAN
      BY Zenon
  <2>2. CASE c_valid /\ in.c_ready
      BY Zenon, <1>1, <2>1, <2>2 DEF ManagerSees, TypeOK
  <2>3. CASE ~(c_valid /\ in.c_ready)
      BY Zenon, <2>3 DEF ManagerSees, TypeOK
  <2> QED BY Zenon, <2>2, <2>3
<1>11. held' \in [Lines -> Perms]
    BY Zenon, <1>2, <1>7 DEF ManagerSees, TypeOK
<1>12. mem' \in Memories
  <2>1. mem \in Memories
      BY Zenon DEF TypeOK, Memories
  <2>2. [mem EXCEPT ![wb.line][c_word] = c_data] \in Memories
      BY Zenon, <1>2, <1>5, <1>6, <2>1, WordUpdate
  <2> QED BY Zenon, <2>1, <2>2 DEF ManagerSees
<1> QED BY Zenon, <1>8, <1>9, <1>10, <1>11, <1>12 DEF Memories

LEMMA ObserveType ==
    ASSUME TypeOK, Observe
    PROVE  golden' \in [Lines -> [Words -> Values]] /\ since_lr' \in LinesOrNone
<1>1. main.line \in Lines /\ main.word \in Words
    BY Zenon DEF TypeOK, MainRegs
<1>2. NewWord(golden[main.line][main.word]) \in Values
    BY Zenon, <1>1, NewWordType DEF TypeOK
<1>3. None \in LinesOrNone /\ OnLine(main.line) \in LinesOrNone
    BY Zenon, <1>1 DEF None, NoneSet, OnLine, LinesOrNone
<1> QED BY Zenon, <1>1, <1>2, <1>3 DEF Observe, TypeOK

LEMMA TickType ==
    ASSUME TypeOK, NEW in \in Inputs, Tick(in) PROVE TypeOK'
<1>1. wb' \in WbRegs /\ refill' \in RefillRegs /\ probe' \in ProbeRegs /\ flush' \in FlushRegs
      /\ miss' \in MissRegs /\ main' \in MainRegs
    BY Zenon, WbStepType, RefillStepType, ProbeStepType, FlushStepType, MissStepType, MainStepType DEF Tick
<1>2. TagTypes' /\ DataTypes'
    BY Zenon, TagPortType, DataPortType DEF Tick
<1> QED BY Zenon, <1>1, <1>2, ManagerSeesType, ObserveType DEF Tick, TypeOK, TagTypes, DataTypes

LEMMA EnvType ==
    ASSUME TypeOK, Env PROVE TypeOK'
<1> USE DEF sram, regs, manager, observers
<1>1. CASE EnvGrant
  <2>1. acq.line \in Lines /\ acq \in AcqRecords /\ acq # None
      BY Zenon, <1>1 DEF EnvGrant, TypeOK, AcqRecords, NoneSet, None
  <2>2. acq' \in AcqRecords
    <3> DEFINE Denied == [acq EXCEPT !.phase = "grant", !.denied = TRUE, !.cap = "toN"]
               Granted(cap, with_data) ==
                 [acq EXCEPT !.phase = "grant", !.cap = cap, !.with_data = with_data]
    <3>1. acq' = Denied \/ \E cap \in {"toT", "toB"}, with_data \in BOOLEAN : acq' = Granted(cap, with_data)
        BY Zenon, <1>1 DEF EnvGrant
    <3>2. Denied \in AcqRecords
        BY Zenon, <2>1 DEF AcqRecords, CapParams, NoneSet, None
    <3>3. ASSUME NEW cap \in {"toT", "toB"}, NEW with_data \in BOOLEAN
          PROVE  Granted(cap, with_data) \in AcqRecords
        BY Zenon, <2>1 DEF AcqRecords, CapParams, NoneSet, None
    <3> QED BY Zenon, <3>1, <3>2, <3>3
  <2>3. held' \in [Lines -> Perms]
      BY Zenon, <1>1, <2>1 DEF EnvGrant, TypeOK, CapPerm, Perms
  <2> QED BY Zenon, <1>1, <2>2, <2>3 DEF EnvGrant, TypeOK
<1>2. CASE EnvGrantBeat
  <2>1. acq # None /\ acq \in AcqRecords /\ acq.line \in Lines /\ acq.beat \in Words
      BY Zenon, <1>2 DEF EnvGrantBeat, TypeOK, AcqRecords, NoneSet, None
  <2>2. d' \in DMsgs
      BY <1>2, <2>1 DEF EnvGrantBeat, TypeOK, AcqRecords, NoneSet, None, DMsgs, Beat
  <2>3. acq' \in AcqRecords
      BY <1>2, <2>1, DCacheAssumption DEF EnvGrantBeat, AcqRecords, NoneSet, None, Words
  <2>4. unacked' \in LinesOrNone
      BY Zenon, <1>2, <2>1 DEF EnvGrantBeat, TypeOK, OnLine, LinesOrNone
  <2> QED BY Zenon, <1>2, <2>2, <2>3, <2>4 DEF EnvGrantBeat, TypeOK
<1>3. CASE EnvReleaseAck
    BY Zenon, <1>3 DEF EnvReleaseAck, TypeOK, DMsgs
<1>4. CASE EnvAccess
  <2>1. /\ unc.line \in Lines /\ unc.word \in Words /\ unc.value \in Values /\ unc.full \in BOOLEAN
      BY Zenon, <1>4 DEF EnvAccess, TypeOK, UncRecords, NoneSet, None
  <2>2. ASSUME NEW old \in Values PROVE Combine(unc.full, unc.value, old) \in Values
    <3>1. old + unc.value \in Int /\ NumValues \in Nat \ {0}
        BY <2>1, DCacheAssumption DEF Values
    <3>2. (old + unc.value) % NumValues \in Values
        BY Zenon, <3>1, ModInRange DEF Values
    <3> QED BY Zenon, <2>1, <3>2 DEF Combine
  <2>3. mem[unc.line][unc.word] \in Values
      BY Zenon, <2>1 DEF TypeOK
  <2>4. mem' \in [Lines -> [Words -> Values]] /\ golden' \in [Lines -> [Words -> Values]]
    <3>1. mem \in Memories /\ golden \in Memories
        BY Zenon DEF TypeOK, Memories
    <3> DEFINE new == Combine(unc.full, unc.value, mem[unc.line][unc.word])
    <3>2. new \in Values
        BY Zenon, <2>2, <2>3
    <3> HIDE DEF new
    <3>3. /\ [mem EXCEPT ![unc.line][unc.word] = new] \in Memories
          /\ [golden EXCEPT ![unc.line][unc.word] = new] \in Memories
        BY Zenon, <2>1, <3>1, <3>2, WordUpdate
    <3>4. mem' \in Memories /\ golden' \in Memories
        BY Zenon, <1>4, <3>1, <3>3 DEF EnvAccess, new
    <3> QED BY Zenon, <3>4 DEF Memories
  <2>5. \A denied \in BOOLEAN :
          [kind |-> "AccessAck", denied |-> denied, data |-> mem[unc.line][unc.word]] \in DMsgs
      BY Zenon, <2>3 DEF DMsgs
  <2>6. d' \in DMsgs
      BY Zenon, <1>4, <2>5 DEF EnvAccess
  <2>7. unc' \in UncRecords
      BY Zenon, <1>4 DEF EnvAccess, UncRecords, None, NoneSet
  <2> QED BY Zenon, <1>4, <2>4, <2>6, <2>7 DEF EnvAccess, TypeOK
<1>5. ASSUME NEW line \in Lines, NEW cap \in {"toN", "toB"}, EnvProbe(line, cap) PROVE TypeOK'
    BY Zenon, <1>5 DEF EnvProbe, TypeOK, ProbeMsgs, OnLine, LinesOrNone
<1>6. ASSUME NEW lw \in Written, NEW value \in Values, EnvOtherWrite(lw[1], lw[2], value)
      PROVE  TypeOK'
  <2>1. lw[1] \in Lines /\ lw[2] \in Words
      BY Zenon, DCacheAssumption DEF Lines, Words
  <2>2. None \in LinesOrNone
      BY Zenon DEF None, NoneSet, LinesOrNone
  <2> QED BY Zenon, <1>6, <2>1, <2>2 DEF EnvOtherWrite, TypeOK
<1>7. ASSUME NEW outcome \in {"ok", "fault"}, EnvTranslate(outcome) PROVE TypeOK'
  <2>1. main' \in MainRegs
      BY Zenon, <1>7 DEF EnvTranslate, TypeOK, MainRegs
  <2> QED BY Zenon, <1>7, <2>1 DEF EnvTranslate, TypeOK
<1> QED BY Zenon, <1>1, <1>2, <1>3, <1>4, <1>5, <1>6, <1>7 DEF Env

-----------------------------------------------------------------------------
(* The lock *)

\* What makes exclusiveness inductive: a tracker bit agrees with the state of
\* its machine, so that the machine that gives the lock away is the holder.
LockStates ==
    /\ refill.tracker_valid <=> refill.state = "Progress"
    /\ probe.tracker_valid <=> probe.state = "Check"
    /\ flush.tracker_valid <=> flush.state = "Reset"

LockInv == TypeOK /\ LockStates /\ LockExclusive

LEMMA LockExclusiveMeaning ==
    LockExclusive <=>
      /\ ~(refill.tracker_valid /\ probe.tracker_valid)
      /\ ~(refill.tracker_valid /\ wb.state # "Idle")
      /\ ~(refill.tracker_valid /\ flush.tracker_valid)
      /\ ~(probe.tracker_valid /\ wb.state # "Idle")
      /\ ~(probe.tracker_valid /\ flush.tracker_valid)
      /\ ~(wb.state # "Idle" /\ flush.tracker_valid)
  BY DEF LockExclusive, Trackers

LEMMA InitLock == Init => LockInv
<1> SUFFICES ASSUME Init PROVE LockInv
    BY Zenon
<1>1. TypeOK
  <2>1. <<>> \in Seq(Beat)
      OBVIOUS
  <2>2. refill \in RefillRegs /\ flush \in FlushRegs
      BY Zenon, <2>1, ConstantTypes DEF Init, RefillRegs, FlushRegs
  <2>3. tags \in [Sets -> [Ways -> TagEntry]]
      BY ZenonT(40), ConstantTypes DEF Init
  <2>4. data \in [Sets -> [Ways -> [Words -> Values]]] /\ data_rd \in [Ways -> Values]
      BY Zenon, ConstantTypes DEF Init
  <2>5. tag_rd \in [Ways -> TagEntry] /\ tag_rd_addr \in Lines
      BY Zenon, ConstantTypes, SomeLine DEF Init
  <2>6. /\ b \in ProbeMsgs /\ d \in DMsgs /\ acq \in AcqRecords /\ unc \in UncRecords
        /\ probing \in LinesOrNone /\ unacked \in LinesOrNone /\ since_lr \in LinesOrNone
      BY Zenon DEF Init, None, NoneSet, ProbeMsgs, DMsgs, AcqRecords, UncRecords, LinesOrNone
  <2>7. mem \in [Lines -> [Words -> Values]] /\ golden \in [Lines -> [Words -> Values]]
      BY Zenon, ConstantTypes DEF Init
  <2>8. held \in [Lines -> Perms] /\ rel \in BOOLEAN
      BY Zenon DEF Init, Perms
  <2> QED BY Zenon, <2>2, <2>3, <2>4, <2>5, <2>6, <2>7, <2>8, ConstantTypes DEF Init, TypeOK
<1>2. LockStates
    BY Zenon DEF Init, LockStates, ProbeReset
<1>3. LockExclusive
    BY Zenon, LockExclusiveMeaning DEF Init, ProbeReset, WbReset
<1> QED BY Zenon, <1>1, <1>2, <1>3 DEF LockInv

\* One clock cycle.  The only machines that start are the one that wins the
\* arbitration of a free lock and the writeback that a probe or a miss hands
\* it to.
LEMMA TickLock ==
    ASSUME LockInv, NEW in \in Inputs, Tick(in) PROVE LockStates' /\ LockExclusive'
<1>1. /\ refill \in RefillRegs /\ probe \in ProbeRegs /\ flush \in FlushRegs /\ wb \in WbRegs
      /\ LockStates
    BY Zenon DEF LockInv, TypeOK
<1>2. ~(refill_locking /\ probe_locking) /\ (refill_locking \/ probe_locking =>
         nothing_in_progress /\ ~writeback_lock_acq)
    BY Zenon DEF refill_locking, probe_locking
<1>3. writeback_lock_acq => nothing_in_progress \/ probe.state = "Check"
    BY Zenon DEF writeback_lock_acq, wb_req_valid, wb_probe_req_valid, wb_rel_req_valid, fetch_miss,
           translated, fetching
<1>4. /\ refill_done => refill.state = "Progress"
      /\ refill_locking => refill.state = "Idle"
      /\ probe_locking => probe.state = "Idle"
    BY Zenon DEF refill_done, refill_fifo_ready, refill_locking, refill_lock_acq, probe_locking, probe_lock_acq
<1>5. /\ refill_locking => refill'.state = "Progress" /\ refill'.tracker_valid
      /\ ~refill_locking /\ refill_done => refill'.state = "Idle" /\ ~refill'.tracker_valid
      /\ ~refill_locking /\ ~refill_done =>
           refill'.state = refill.state /\ refill'.tracker_valid = refill.tracker_valid
    BY Zenon, <1>4 DEF Tick, RefillStep
<1>6. /\ probe_locking => probe'.state = "Check" /\ probe'.tracker_valid
      /\ ~probe_locking => probe'.state = "Idle" /\ ~probe'.tracker_valid
    BY Zenon, <1>1, <1>4 DEF Tick, ProbeStep, ProbeReset, ProbeRegs, LockStates
<1>7. /\ flush'.state = "Reset" => flush.state = "Reset"
      /\ flush'.tracker_valid <=> flush'.state = "Reset"
    BY Zenon, <1>1 DEF Tick, FlushStep, FlushRegs, LockStates
<1>8. wb'.state # "Idle" => wb.state # "Idle" \/ writeback_lock_acq
    BY Zenon, <1>1 DEF Tick, WbStep, c_valid
<1>9. nothing_in_progress <=> ~refill.tracker_valid /\ ~probe.tracker_valid
                              /\ wb.state = "Idle" /\ ~flush.tracker_valid
    BY Zenon DEF nothing_in_progress
<1>10. LockExclusive
    BY Zenon DEF LockInv
<1>11. LockStates'
    BY Zenon, <1>1, <1>5, <1>6, <1>7 DEF LockStates
<1>12. LockExclusive'
  <2>1. /\ ~(refill'.tracker_valid /\ probe'.tracker_valid)
        /\ ~(refill'.tracker_valid /\ wb'.state # "Idle")
        /\ ~(refill'.tracker_valid /\ flush'.tracker_valid)
      BY Zenon, <1>1, <1>2, <1>3, <1>4, <1>5, <1>6, <1>7, <1>8, <1>9, <1>10, LockExclusiveMeaning
      DEF LockStates
  <2>2. /\ ~(probe'.tracker_valid /\ wb'.state # "Idle")
        /\ ~(probe'.tracker_valid /\ flush'.tracker_valid)
        /\ ~(wb'.state # "Idle" /\ flush'.tracker_valid)
      BY Zenon, <1>1, <1>2, <1>3, <1>6, <1>7, <1>8, <1>9, <1>10, LockExclusiveMeaning DEF LockStates
  <2> QED BY Zenon, <2>1, <2>2 DEF LockExclusive, Trackers
<1> QED BY Zenon, <1>11, <1>12

LEMMA LockStep == LockInv /\ [Next]_vars => LockInv'
<1> SUFFICES ASSUME LockInv, [Next]_vars PROVE LockInv'
    BY Zenon
<1>1. ASSUME NEW in \in Inputs, Tick(in) PROVE LockInv'
    BY Zenon, <1>1, TickType, TickLock DEF LockInv
<1>2. CASE Env
  <2>1. UNCHANGED <<refill, probe, flush, wb>>
      BY Zenon, <1>2 DEF Env, EnvGrant, EnvGrantBeat, EnvReleaseAck, EnvAccess, EnvProbe, EnvOtherWrite,
                  EnvTranslate, sram, regs
  <2>2. TypeOK'
      BY Zenon, <1>2, EnvType DEF LockInv
  <2> QED BY Zenon, <2>1, <2>2 DEF LockInv, LockStates, LockExclusive, Trackers
<1>3. CASE UNCHANGED vars
  <2>1. UNCHANGED <<sram, regs, manager, observers>>
      BY Zenon, <1>3 DEF vars
  <2>2. TypeOK'
      BY Zenon, <2>1 DEF LockInv, TypeOK, sram, regs, manager, observers
  <2>3. LockStates' /\ LockExclusive'
      BY Zenon, <2>1 DEF LockInv, LockStates, LockExclusive, Trackers, regs
  <2> QED BY Zenon, <2>2, <2>3 DEF LockInv
<1> QED BY Zenon, <1>1, <1>2, <1>3 DEF Next

\* The registers, SRAMs and ports of the data cache always hold values of
\* their declared types, whatever the geometry of the cache.
THEOREM DCacheTypes == Spec => []TypeOK
<1>1. LockInv => TypeOK
    BY Zenon DEF LockInv
<1> QED BY <1>1, InitLock, LockStep, PTL DEF Spec

\* The lock arbitration of muntjac_dcache: refill, probe, writeback and flush
\* never hold the cache at the same time, whatever the geometry of the cache
\* and however probes, grants and requests are timed.
THEOREM DCacheLock == Spec => []LockExclusive
<1>1. LockInv => LockExclusive
    BY Zenon DEF LockInv
<1> QED BY <1>1, InitLock, LockStep, PTL DEF Spec

-----------------------------------------------------------------------------
(* Permissions *)

\* Every copy of the line is one that a manager who recorded p knows of.
Within(line, p) ==
    \A w \in Copies(line) : p # "N" /\ (tags[SetOf(line)][w].writable => p = "T")

\* Whoever is about to decide on the tags read them from the SRAM as it is.
TagsRead ==
    /\ main.state = "Fetch" => tag_rd_addr = main.line /\ tag_rd = tags[SetOf(main.line)]
    /\ probe.state = "Check" => tag_rd_addr = probe.line /\ tag_rd = tags[SetOf(probe.line)]

\* The main machine waits in StateFill exactly while the miss machine works.
Phases ==
    /\ main.state = "Fill" <=> miss.state # "Idle"
    /\ main.ppn = "bad" => main.state = "Exception"
    /\ main.state \in {"Fetch", "Fill"} => flush.state # "Reset"
    /\ main.state = "Fill" => main.op # "SC"

\* A probe is in one place: channel B, the check of the tags, or the writeback.
Answering == wb.state = "Progress" /\ ~IsRelease(wb.opcode)
Releasing == wb.state # "Idle" /\ IsRelease(wb.opcode)
Probes ==
    /\ b # None => probing = OnLine(b.line) /\ probe.state = "Idle" /\ ~Answering
    /\ probe.state = "Check" => probing = OnLine(probe.line)
    /\ Answering => probing = OnLine(wb.line)
    /\ wb.state = "Wait" => Releasing

\* A victim is released while its successor is waited for; what is reported
\* is what the tags say, and no more than the manager has on record.
Reports ==
    /\ Releasing => miss.state = "Fill" /\ wb.line # main.line
    /\ wb.state = "Progress" => /\ Within(wb.line, ReportPerm(wb.param))
                                /\ PermLeq(ReportPerm(wb.param), held[wb.line])

\* The reset clears the sets in order; a line that is waited for is in no way.
Absent ==
    /\ flush.state = "Reset" => \A s \in Sets, w \in Ways : s < flush.index => ~tags[s][w].valid
    /\ miss.state = "Fill" => Copies(main.line) = {}

\* The beats of the one grant on its way: still at the manager (acq), on channel
\* D, or in the FIFO.  The last beat is behind all others.
Granting == (acq # None /\ acq.phase = "grant") \/ refill_fifo # <<>>
Agrees(denied, cap) ==
    IF denied THEN main.line \in Uncached
    ELSE cap \in {"toT", "toB"} /\ held[main.line] = CapPerm(cap)
Beats ==
    /\ acq # None \/ refill_fifo # <<>> => miss.state = "Fill" /\ miss.sent
    /\ acq # None => /\ acq.line = main.line /\ Len(refill_fifo) <= acq.beat
                     /\ \A i \in 1 .. Len(refill_fifo) : ~refill_fifo[i].last
                     /\ acq.phase = "req" => acq.beat = 0 /\ refill.state = "Idle"
                     /\ acq.phase = "req" => ~acq.with_data /\ ~acq.denied
                     /\ acq.phase = "grant" => Agrees(acq.denied, acq.cap) /\ probing # OnLine(acq.line)
    /\ acq = None => /\ Len(refill_fifo) <= NumBeats
                     /\ \A i \in 1 .. Len(refill_fifo) : refill_fifo[i].last <=> i = Len(refill_fifo)
                     /\ refill_fifo = <<>> => refill.state = "Idle"
    /\ \A i \in 1 .. Len(refill_fifo) : Agrees(refill_fifo[i].denied, refill_fifo[i].param)
    /\ refill_fifo # <<>> /\ probing = OnLine(main.line) => b # None
    /\ refill.beat_saved => d_refill /\ d.last

Granted == flush.state # "Reset" => \A line \in Lines : Within(line, held[line])

PermInv ==
    LockInv /\ TagsRead /\ Phases /\ Probes /\ Reports /\ Absent /\ Beats /\ OneCopyPerLine /\ Granted

-----------------------------------------------------------------------------
(* The lock and the signals *)

\* Who holds the lock, in terms of the machines' states.
LEMMA Holder ==
    ASSUME LockInv
    PROVE  /\ refill.state # "Idle" => probe.state = "Idle" /\ wb.state = "Idle" /\ flush.state = "Idle"
           /\ probe.state # "Idle" => refill.state = "Idle" /\ wb.state = "Idle" /\ flush.state = "Idle"
           /\ wb.state # "Idle" => refill.state = "Idle" /\ probe.state = "Idle" /\ flush.state = "Idle"
           /\ flush.state # "Idle" => refill.state = "Idle" /\ probe.state = "Idle" /\ wb.state = "Idle"
           /\ nothing_in_progress <=> refill.state = "Idle" /\ probe.state = "Idle"
                                       /\ wb.state = "Idle" /\ flush.state = "Idle"
<1>1. /\ refill.state \in {"Idle", "Progress"} /\ probe.state \in {"Idle", "Check"}
      /\ flush.state \in {"Idle", "Reset"}
  BY Zenon DEF LockInv, TypeOK, RefillRegs, ProbeRegs, FlushRegs
<1> QED BY <1>1, LockExclusiveMeaning DEF LockInv, LockStates, nothing_in_progress

\* What the request signals of the machines imply.
LEMMA Signals ==
    ASSUME LockInv
    PROVE  /\ refill_fifo_ready <=> refill.state = "Progress" /\ refill_fifo # <<>>
           /\ refill_tag_write_req \/ refill_data_write_req \/ refill_done => refill_fifo_ready
           /\ probe_tag_write_req => probe.state = "Check"
           /\ flush_tag_write_req <=> flush.state = "Reset"
           /\ fetch_hit \/ fetch_miss \/ fetch_sc_fail \/ access_tag_write_req \/ access_data_write_req
                => main.state = "Fetch" /\ main.ppn = "ok" /\ nothing_in_progress
           /\ fetch_hit => hit # {} /\ ~fetch_miss /\ ~fetch_sc_fail
           /\ fetch_miss => main.op # "SC" /\ access_tag_write_req /\ ~access_data_write_req
           /\ probe_locking => nothing_in_progress /\ b # None /\ refill_fifo = <<>>
                               /\ ~access_tag_write_req
<1>1. /\ refill_fifo_ready <=> refill.state = "Progress" /\ refill_fifo # <<>>
      /\ refill_tag_write_req \/ refill_data_write_req \/ refill_done => refill_fifo_ready
  BY Zenon DEF refill_fifo_ready, refill_fifo_valid, refill_tag_write_req, refill_data_write_req, refill_done
<1>2. /\ fetch_hit \/ fetch_miss \/ fetch_sc_fail \/ access_tag_write_req \/ access_data_write_req
           => main.state = "Fetch" /\ main.ppn = "ok" /\ nothing_in_progress
      /\ fetch_hit => hit # {} /\ ~fetch_miss /\ ~fetch_sc_fail
      /\ fetch_miss => main.op # "SC" /\ access_tag_write_req /\ ~access_data_write_req
  BY Zenon DEF fetch_hit, fetch_miss, fetch_sc_fail, access_tag_write_req, access_data_write_req,
               translated, fetching
<1>3. probe_locking => nothing_in_progress /\ b # None /\ refill_fifo = <<>> /\ ~access_tag_write_req
  <2>1. nothing_in_progress => refill.state = "Idle"
    BY Zenon, Holder
  <2> QED BY Zenon, <2>1 DEF probe_locking, probe_lock_acq, refill_lock_acq, refill_fifo_valid, access_lock_acq
<1> QED BY Zenon, <1>1, <1>2, <1>3 DEF probe_tag_write_req, flush_tag_write_req

\* The way of a hit is one of those that hit.
LEMMA HitWay ==
    ASSUME TypeOK, hit # {} PROVE hit_way \in hit
<1>1. hit \in SUBSET Ways
  BY Zenon DEF hit
<1> QED BY Zenon, <1>1, LowestIsMember DEF hit_way

\* A line is its tag and its set.
LEMMA LineTypes ==
    /\ \A line \in Lines : SetOf(line) \in Sets /\ TagOf(line) \in Tags /\ line = <<TagOf(line), SetOf(line)>>
    /\ \A t \in Tags, s \in Sets : <<t, s>> \in Lines /\ SetOf(<<t, s>>) = s /\ TagOf(<<t, s>>) = t
  BY DEF Lines, SetOf, TagOf

-----------------------------------------------------------------------------
(* What a clock cycle does to the tags *)

\* The entry is not more than it was.
Kept(s, w) ==
    tags'[s][w].valid =>
        /\ tags[s][w].valid /\ tags'[s][w].tag = tags[s][w].tag
        /\ tags'[s][w].writable => tags[s][w].writable

\* The entries of these ways of the set are e, all others as they were.
Wrote(set, ways, e) ==
    \A s \in Sets, w \in Ways :
        /\ s = set /\ w \in ways => tags'[s][w] = e
        /\ s # set \/ w \notin ways => tags'[s][w] = tags[s][w]

\* A write of the tags touches the ways of its mask, in one set.
LEMMA TagsWritten ==
    ASSUME TypeOK, NEW i \in Sets, NEW ws, NEW e, WriteTag(i, ws, e)
    PROVE  Wrote(i, ws, e)
  BY Zenon DEF TypeOK, WriteTag, Wrote

RefillEntry == [tag |-> TagOf(main.line), valid |-> TRUE, writable |-> refill_beat.param = "toT", dirty |-> FALSE]
ProbeEntry == IF probe.param = "toB" THEN [hit_tag EXCEPT !.dirty = FALSE, !.writable = FALSE] ELSE InvalidEntry
AccessEntry == IF fetch_miss THEN InvalidEntry ELSE [hit_tag EXCEPT !.dirty = TRUE]

\* The one write of the cycle, if there is one.
LEMMA TagCases ==
    ASSUME LockInv, NEW in \in Inputs, TagPort(in)
    PROVE  \/ /\ refill_tag_write_req /\ probe.state = "Idle" /\ flush.state = "Idle" /\ ~access_tag_write_req
              /\ Wrote(SetOf(main.line), {main.way}, RefillEntry)
           \/ /\ ~refill_tag_write_req /\ probe.state = "Check" /\ hit # {} /\ flush.state = "Idle"
              /\ ~access_tag_write_req /\ Wrote(SetOf(probe.line), hit, ProbeEntry)
           \/ /\ ~refill_tag_write_req /\ probe.state = "Idle" /\ flush.state = "Reset" /\ ~access_tag_write_req
              /\ Wrote(flush.index, Ways, InvalidEntry)
           \/ /\ ~refill_tag_write_req /\ probe.state = "Idle" /\ flush.state = "Idle" /\ access_tag_write_req
              /\ Wrote(SetOf(main.line), {hit_way}, AccessEntry)
           \/ /\ ~refill_tag_write_req /\ (probe.state = "Check" => hit = {}) /\ flush.state = "Idle"
              /\ ~access_tag_write_req /\ tags' = tags
<1>0. TypeOK
  BY Zenon DEF LockInv
<1>1. /\ SetOf(main.line) \in Sets /\ SetOf(probe.line) \in Sets /\ flush.index \in Sets
      /\ probe.state \in {"Idle", "Check"} /\ flush.state \in {"Idle", "Reset"}
  BY Zenon, <1>0, LineTypes DEF TypeOK, MainRegs, ProbeRegs, FlushRegs
<1>2. ASSUME NEW i \in Sets, NEW ws, NEW e, WriteTag(i, ws, e) PROVE Wrote(i, ws, e)
  BY Zenon, <1>0, <1>2, TagsWritten
<1>3. CASE refill_tag_write_req
  <2>1. probe.state = "Idle" /\ flush.state = "Idle" /\ ~access_tag_write_req
    BY Zenon, <1>3, Signals, Holder
  <2>2. WriteTag(SetOf(main.line), {main.way}, RefillEntry)
    BY Zenon, <1>3 DEF TagPort, RefillEntry
  <2> QED BY Zenon, <1>1, <1>2, <1>3, <2>1, <2>2
<1>4. CASE ~refill_tag_write_req /\ probe.state = "Check" /\ hit # {}
  <2>1. flush.state = "Idle" /\ ~access_tag_write_req
    BY Zenon, <1>4, Signals, Holder
  <2>2. WriteTag(SetOf(probe.line), hit, ProbeEntry)
    BY Zenon, <1>4 DEF TagPort, probe_tag_write_req, ProbeEntry
  <2> QED BY Zenon, <1>1, <1>2, <1>4, <2>1, <2>2
<1>5. CASE ~refill_tag_write_req /\ probe.state # "Check" /\ flush.state = "Reset"
  <2>1. ~access_tag_write_req /\ ~probe_locking /\ ~probe_tag_write_req /\ flush_tag_write_req
    BY Zenon, <1>5, Signals, Holder
  <2>2. WriteTag(flush.index, Ways, InvalidEntry)
    BY Zenon, <1>5, <2>1 DEF TagPort
  <2> QED BY Zenon, <1>1, <1>2, <1>5, <2>1, <2>2
<1>6. CASE ~refill_tag_write_req /\ probe.state # "Check" /\ flush.state # "Reset" /\ access_tag_write_req
  <2>1. ~probe_locking /\ ~probe_tag_write_req /\ ~flush_tag_write_req
    BY Zenon, <1>6, Signals
  <2>2. WriteTag(SetOf(main.line), {hit_way}, AccessEntry)
    BY Zenon, <1>6, <2>1 DEF TagPort, AccessEntry
  <2> QED BY Zenon, <1>1, <1>2, <1>6, <2>2
<1>7. CASE /\ ~refill_tag_write_req /\ (probe.state = "Check" => hit = {}) /\ flush.state # "Reset"
           /\ ~access_tag_write_req
  <2>1. ~probe_tag_write_req /\ ~flush_tag_write_req
    BY Zenon, <1>7, Signals DEF probe_tag_write_req
  <2>2. UNCHANGED tags
    BY Zenon, <1>7, <2>1 DEF TagPort, ReadTag
  <2> QED BY Zenon, <1>1, <1>7, <2>2
<1>8. probe.state = "Check" => flush.state = "Idle" /\ ~access_tag_write_req
  BY Zenon, Signals, Holder
<1> QED BY Zenon, <1>1, <1>3, <1>4, <1>5, <1>6, <1>7, <1>8

\* What the entries written say.
LEMMA Entries ==
    ASSUME LockInv, TagsRead
    PROVE  /\ ~InvalidEntry.valid /\ ~InvalidEntry.writable
           /\ RefillEntry.valid /\ RefillEntry.tag = TagOf(main.line) /\ ~RefillEntry.dirty
           /\ RefillEntry.writable <=> refill_beat.param = "toT"
           /\ ProbeEntry.valid => probe.param = "toB" /\ ProbeEntry.tag = hit_tag.tag
           /\ ~ProbeEntry.writable /\ (ProbeEntry.valid => ~ProbeEntry.dirty)
           /\ fetch_miss => ~AccessEntry.valid
           /\ ~fetch_miss => /\ AccessEntry.tag = hit_tag.tag /\ AccessEntry.valid = hit_tag.valid
                             /\ AccessEntry.writable = hit_tag.writable /\ AccessEntry.dirty
           /\ hit_way \in Ways
           /\ main.state = "Fetch" => hit_tag = tags[SetOf(main.line)][hit_way]
           /\ probe.state = "Check" => hit_tag = tags[SetOf(probe.line)][hit_way]
           /\ \A w \in hit : w \in Ways /\ tag_rd[w].valid /\ tag_rd[w].tag = hit_tag.tag
<1>1. hit_way \in Ways /\ hit_tag \in TagEntry
  BY Zenon, HitTypes DEF LockInv
<1>2. ~InvalidEntry.valid /\ ~InvalidEntry.writable
  BY Zenon DEF InvalidEntry
<1>3. /\ RefillEntry.valid /\ RefillEntry.tag = TagOf(main.line) /\ ~RefillEntry.dirty
      /\ RefillEntry.writable <=> refill_beat.param = "toT"
  BY Zenon DEF RefillEntry
<1>4. /\ ProbeEntry.valid => probe.param = "toB" /\ ProbeEntry.tag = hit_tag.tag
      /\ ~ProbeEntry.writable /\ (ProbeEntry.valid => ~ProbeEntry.dirty)
  BY Zenon, <1>1, <1>2 DEF ProbeEntry, TagEntry
<1>5. /\ fetch_miss => ~AccessEntry.valid
      /\ ~fetch_miss => /\ AccessEntry.tag = hit_tag.tag /\ AccessEntry.valid = hit_tag.valid
                        /\ AccessEntry.writable = hit_tag.writable /\ AccessEntry.dirty
  BY Zenon, <1>1, <1>2 DEF AccessEntry, TagEntry
<1>6. /\ main.state = "Fetch" => hit_tag = tags[SetOf(main.line)][hit_way]
      /\ probe.state = "Check" => hit_tag = tags[SetOf(probe.line)][hit_way]
  BY Zenon DEF TagsRead, hit_tag
<1>7. \A w \in hit : w \in Ways /\ tag_rd[w].valid /\ tag_rd[w].tag = hit_tag.tag
  <2>1. hit # {} => hit_tag.tag = TagOf(tag_rd_addr)
    BY Zenon, HitWay DEF LockInv, hit, hit_tag
  <2> QED BY Zenon, <2>1 DEF hit
<1> QED BY Zenon, <1>1, <1>2, <1>3, <1>4, <1>5, <1>6, <1>7

\* Only a refill makes an entry valid or writable.
LEMMA TagStep ==
    ASSUME LockInv, TagsRead, NEW in \in Inputs, TagPort(in)
    PROVE  /\ \A s \in Sets, w \in Ways : Kept(s, w) \/ (refill_tag_write_req /\ s = SetOf(main.line) /\ w = main.way)
           /\ refill_tag_write_req => tags'[SetOf(main.line)][main.way] = RefillEntry
           /\ flush.state = "Reset" => \A w \in Ways : ~tags'[flush.index][w].valid
           /\ fetch_miss => ~tags'[SetOf(main.line)][hit_way].valid
           /\ probe.state = "Check" => \A w \in hit :
                /\ tags'[SetOf(probe.line)][w].valid => probe.param = "toB"
                /\ ~tags'[SetOf(probe.line)][w].writable
<1>1. /\ SetOf(main.line) \in Sets /\ main.way \in Ways /\ SetOf(probe.line) \in Sets /\ flush.index \in Sets
  BY Zenon, LineTypes DEF LockInv, TypeOK, MainRegs, ProbeRegs, FlushRegs
<1>2. fetch_miss => access_tag_write_req
  BY Zenon, Signals
<1>3. CASE /\ refill_tag_write_req /\ probe.state = "Idle" /\ flush.state = "Idle" /\ ~access_tag_write_req
           /\ Wrote(SetOf(main.line), {main.way}, RefillEntry)
  <2>1. \A s \in Sets, w \in Ways : s # SetOf(main.line) \/ w # main.way => Kept(s, w)
    BY Zenon, <1>3 DEF Wrote, Kept
  <2>2. tags'[SetOf(main.line)][main.way] = RefillEntry
    BY Zenon, <1>1, <1>3 DEF Wrote
  <2> QED BY Zenon, <1>2, <1>3, <2>1, <2>2
<1>4. CASE /\ ~refill_tag_write_req /\ probe.state = "Check" /\ hit # {} /\ flush.state = "Idle"
           /\ ~access_tag_write_req /\ Wrote(SetOf(probe.line), hit, ProbeEntry)
  <2>1. \A w \in hit : tags[SetOf(probe.line)][w].valid /\ tags[SetOf(probe.line)][w].tag = hit_tag.tag
    BY Zenon, <1>4, Entries DEF TagsRead
  <2>2. ASSUME NEW s \in Sets, NEW w \in Ways PROVE Kept(s, w)
    <3>1. CASE s = SetOf(probe.line) /\ w \in hit
      BY Zenon, <1>4, <2>1, <3>1, Entries DEF Kept, Wrote
    <3>2. CASE s # SetOf(probe.line) \/ w \notin hit
      BY Zenon, <1>4, <3>2 DEF Kept, Wrote
    <3> QED BY Zenon, <3>1, <3>2
  <2>3. \A w \in hit : tags'[SetOf(probe.line)][w] = ProbeEntry
    BY Zenon, <1>1, <1>4, Entries DEF Wrote
  <2> QED BY Zenon, <1>2, <1>4, <2>2, <2>3, Entries
<1>5. CASE /\ ~refill_tag_write_req /\ probe.state = "Idle" /\ flush.state = "Reset" /\ ~access_tag_write_req
           /\ Wrote(flush.index, Ways, InvalidEntry)
  <2>1. ASSUME NEW s \in Sets, NEW w \in Ways PROVE Kept(s, w)
    BY Zenon, <1>5, Entries DEF Kept, Wrote
  <2>2. \A w \in Ways : ~tags'[flush.index][w].valid
    BY Zenon, <1>1, <1>5, Entries DEF Wrote
  <2> QED BY Zenon, <1>2, <1>5, <2>1, <2>2
<1>6. CASE /\ ~refill_tag_write_req /\ probe.state = "Idle" /\ flush.state = "Idle" /\ access_tag_write_req
           /\ Wrote(SetOf(main.line), {hit_way}, AccessEntry)
  <2>1. hit_way \in Ways /\ hit_tag = tags[SetOf(main.line)][hit_way]
    BY Zenon, <1>6, Signals, Entries
  <2>2. ASSUME NEW s \in Sets, NEW w \in Ways PROVE Kept(s, w)
    BY Zenon, <1>6, <2>1, Entries DEF Kept, Wrote
  <2>3. fetch_miss => ~tags'[SetOf(main.line)][hit_way].valid
    BY Zenon, <1>1, <1>6, <2>1, Entries DEF Wrote
  <2> QED BY Zenon, <1>6, <2>2, <2>3
<1>7. CASE /\ ~refill_tag_write_req /\ (probe.state = "Check" => hit = {}) /\ flush.state = "Idle"
           /\ ~access_tag_write_req /\ tags' = tags
  BY Zenon, <1>2, <1>7 DEF Kept
<1> QED BY Zenon, <1>3, <1>4, <1>5, <1>6, <1>7, TagCases

LaterCopies(line) ==
    {w \in Ways : tags'[SetOf(line)][w].valid /\ tags'[SetOf(line)][w].tag = TagOf(line)}

\* A line has no copies that it did not have, and none is writable that was not,
\* unless it is refilled.
LEMMA CopiesKept ==
    ASSUME LockInv, TagsRead, NEW in \in Inputs, TagPort(in), NEW line \in Lines,
           refill_tag_write_req => line # main.line
    PROVE  \A w \in LaterCopies(line) :
             w \in Copies(line) /\ (tags'[SetOf(line)][w].writable => tags[SetOf(line)][w].writable)
<1> SUFFICES ASSUME NEW w \in LaterCopies(line)
             PROVE  w \in Copies(line) /\ (tags'[SetOf(line)][w].writable => tags[SetOf(line)][w].writable)
  BY Zenon
<1>1. /\ w \in Ways /\ SetOf(line) \in Sets
      /\ tags'[SetOf(line)][w].valid /\ tags'[SetOf(line)][w].tag = TagOf(line)
  BY Zenon, LineTypes DEF LaterCopies
<1>2. CASE Kept(SetOf(line), w)
  BY Zenon, <1>1, <1>2 DEF Kept, Copies
<1>3. CASE refill_tag_write_req /\ SetOf(line) = SetOf(main.line) /\ w = main.way
  <2>1. tags'[SetOf(line)][w].tag = TagOf(main.line)
    BY Zenon, <1>3, TagStep, Entries
  <2>2. main.line \in Lines
    BY Zenon DEF LockInv, TypeOK, MainRegs
  <2>3. line = main.line
    BY Zenon, <1>1, <1>3, <2>1, <2>2, LineTypes
  <2> QED BY Zenon, <1>3, <2>3
<1> QED BY Zenon, <1>1, <1>2, <1>3, TagStep

-----------------------------------------------------------------------------
(* What a clock cycle does to the main machine *)

\* Where the main machine goes when it has a request of its own.
LEMMA Continues ==
    ASSUME TypeOK, NEW in \in Inputs, MainStep(in), in.req = None
    PROVE  /\ main'.state = main_state(in) /\ main'.reserved = main.reserved
           /\ main'.reserved => main'.reservation = main.reservation
           /\ main'.state # "Idle" =>
                /\ main'.line = main.line /\ main'.word = main.word /\ main'.value = main.value
                /\ main'.full = main.full /\ main'.op = main.op /\ main'.ppn = main.ppn
                /\ main'.reservation_failed = main.reservation_failed
                /\ main'.way = IF fetch_miss THEN hit_way ELSE main.way
           /\ main'.state = "Idle" => main'.ppn = "ok" /\ main'.op = "LOAD" /\ ~main'.reservation_failed
<1> DEFINE m == main_next(in)
<1>1. main \in MainRegs /\ m \in MainRegs
  BY Zenon, MainNextType DEF TypeOK
<1>2. /\ m.state = main_state(in) /\ m.line = main.line /\ m.word = main.word /\ m.value = main.value
      /\ m.full = main.full /\ m.op = main.op /\ m.ppn = main.ppn
      /\ m.reservation_failed = main.reservation_failed /\ m.reserved = main.reserved
      /\ m.reservation = main.reservation /\ m.way = IF fetch_miss THEN hit_way ELSE main.way
  BY <1>1 DEF main_next, MainRegs
<1> HIDE DEF m
<1>3. main' = Settle(m)
  BY Zenon DEF MainStep, m
<1>4. CASE m.state # "Idle"
  BY Zenon, <1>2, <1>3, <1>4 DEF Settle
<1>5. CASE m.state = "Idle"
  <2>1. /\ main'.state = "Idle" /\ main'.reserved = m.reserved /\ main'.ppn = "ok" /\ main'.op = "LOAD"
        /\ ~main'.reservation_failed /\ (m.reserved => main'.reservation = m.reservation)
    BY <1>1, <1>3, <1>5 DEF Settle, MainRegs
  <2> QED BY Zenon, <1>2, <1>5, <2>1
<1> QED BY Zenon, <1>4, <1>5

\* What the main machine keeps of the request it takes.
LEMMA Accepts ==
    ASSUME TypeOK, NEW in \in Inputs, MainStep(in), in.req # None
    PROVE  /\ req_ready /\ in.req \in Request
           /\ main'.state = (IF in.req.ppn = "bad" THEN "Exception"
                             ELSE IF /\ access_tag_read_gnt(in)
                                     /\ (in.req.op = "STORE" /\ in.req.full) \/ access_data_read_gnt(in)
                             THEN "Fetch" ELSE "Replay")
           /\ main'.line = in.req.line /\ main'.word = in.req.word /\ main'.full = in.req.full
           /\ main'.op = in.req.op /\ main'.ppn = in.req.ppn
           /\ main'.reserved = (in.req.op = "LR") /\ main'.reservation = in.req.line
           /\ main'.reservation_failed =
                (in.req.op = "SC" /\ (in.req.line # main.reservation \/ ~main.reserved))
<1> DEFINE m == main_next(in)
<1>1. m \in MainRegs
  BY Zenon, MainNextType DEF TypeOK
<1>2. req_ready /\ in.req \in Request
  BY Zenon, InputTypes DEF Inputs
<1>3. main' = Accept(in.req, in, m)
  BY Zenon DEF MainStep
<1> HIDE DEF m
<1> QED BY <1>1, <1>2, <1>3 DEF Accept, MainRegs

\* The main machine: what it keeps while it works, and where it goes from each state.
LEMMA StateMoves ==
    ASSUME LockInv, Phases, NEW in \in Inputs
    PROVE  /\ main_state(in) = "Fetch" =>
                main.state = "Replay" /\ access_tag_read_gnt(in) /\ access_data_read_gnt(in)
           /\ main_state(in) = "Fill" <=>
                \/ fetch_miss
                \/ main.state = "Fill" /\ ~miss_resp_replay /\ ~miss_resp_valid /\ ~miss_resp_exception
           /\ main.state = "Idle" => main_state(in) = "Idle"
           /\ main_state(in) = "Idle" =>
                main.state \in {"Idle", "Exception"} \/ fetch_hit \/ fetch_sc_fail \/ miss_resp_valid
           /\ fetch_hit \/ fetch_sc_fail \/ main.state = "Exception" => main_state(in) = "Idle"
<1>1. /\ main.state \in {"Idle", "Fetch", "Replay", "WaitTLB", "Fill", "Exception"}
      /\ main.ppn \in {"ok", "fault", "wait", "bad"}
      /\ main.state = "Fetch" => main.ppn # "bad"
  BY Zenon DEF LockInv, TypeOK, MainRegs, Phases
<1>2. CASE main.state = "Fetch"
  <2>1. main.ppn \in {"ok", "fault", "wait"}
    BY Zenon, <1>1, <1>2
  <2>2. ~nothing_in_progress => ~fetch_hit /\ ~fetch_miss /\ ~fetch_sc_fail
    BY Zenon, Signals
  <2>3. main.ppn # "ok" => ~fetch_hit /\ ~fetch_miss /\ ~fetch_sc_fail
    BY Zenon, Signals
  <2>4. nothing_in_progress /\ main.ppn = "ok" =>
          \/ fetch_hit /\ ~fetch_miss /\ ~fetch_sc_fail
          \/ fetch_miss /\ ~fetch_hit /\ ~fetch_sc_fail
          \/ fetch_sc_fail /\ ~fetch_miss /\ ~fetch_hit
    BY Zenon, <1>2 DEF fetch_hit, fetch_miss, fetch_sc_fail, translated, fetching
  <2> QED BY Zenon, <1>2, <2>1, <2>2, <2>3, <2>4 DEF main_state, fetching
<1>3. CASE main.state = "Fill"
  <2>1. ~fetch_hit /\ ~fetch_miss /\ ~fetch_sc_fail /\ ~fetching
    BY Zenon, <1>3, Signals DEF fetching
  <2>2. /\ miss_resp_replay => ~miss_resp_valid /\ ~miss_resp_exception
        /\ miss_resp_valid => ~miss_resp_exception
    BY Zenon DEF miss_resp_replay, miss_resp_valid, miss_resp_exception, miss_refilled
  <2> QED BY Zenon, <1>3, <2>1, <2>2 DEF main_state
<1>4. CASE main.state \notin {"Fetch", "Fill"}
  <2>1. ~fetch_hit /\ ~fetch_miss /\ ~fetch_sc_fail /\ ~fetching
    BY Zenon, <1>4, Signals DEF fetching
  <2> QED BY Zenon, <1>1, <1>4, <2>1 DEF main_state
<1> QED BY Zenon, <1>2, <1>3, <1>4

\* Where the miss machine goes.
LEMMA MissMoves ==
    ASSUME LockInv, Phases, NEW in \in Inputs, MissStep(in)
    PROVE  /\ fetch_miss => miss'.state = "Fill" /\ miss'.upgrade = (hit # {}) /\ miss'.sent = FALSE
           /\ miss_retry_uncached => miss'.state = "Uncached" /\ miss'.sent = FALSE
           /\ miss_resp_replay \/ miss_resp_valid \/ miss_resp_exception => miss'.state = "Idle" /\ ~miss_retry_uncached
           /\ ~fetch_miss /\ ~miss_retry_uncached /\ ~miss_resp_replay /\ ~miss_resp_valid /\ ~miss_resp_exception
                => /\ miss'.state = miss.state /\ miss'.upgrade = miss.upgrade
                   /\ miss'.sent = (miss.sent \/ (a_valid /\ in.a_ready))
           /\ fetch_miss => miss.state = "Idle"
           /\ miss_retry_uncached \/ miss_resp_replay => miss.state = "Fill" /\ refill_done
           /\ miss_resp_valid => miss.state = "Uncached" /\ d_access
           /\ miss_resp_exception => (miss.state = "Fill" /\ refill_done) \/ (miss.state = "Uncached" /\ d_access)
<1>1. fetch_miss => miss.state = "Idle"
  BY Zenon, Signals DEF Phases
<1>2. /\ miss_retry_uncached \/ miss_resp_replay => miss.state = "Fill" /\ refill_done
      /\ miss_resp_valid => miss.state = "Uncached" /\ d_access
      /\ miss_resp_exception => (miss.state = "Fill" /\ refill_done) \/ (miss.state = "Uncached" /\ d_access)
  BY Zenon DEF miss_retry_uncached, miss_resp_replay, miss_resp_valid, miss_resp_exception, miss_refilled
<1>3. miss_resp_replay \/ miss_resp_valid \/ miss_resp_exception => ~miss_retry_uncached
  BY Zenon DEF miss_retry_uncached, miss_resp_replay, miss_resp_valid, miss_resp_exception, miss_refilled
<1>4. miss \in MissRegs
  BY Zenon DEF LockInv, TypeOK
<1>5. CASE fetch_miss
  <2>1. miss' = [state |-> "Fill", upgrade |-> hit # {}, sent |-> FALSE]
    BY Zenon, <1>1, <1>2, <1>5 DEF MissStep
  <2> QED BY Zenon, <1>1, <1>2, <1>5, <2>1
<1>6. CASE miss_retry_uncached
  <2>1. miss' = [MissReset EXCEPT !.state = "Uncached"]
    BY Zenon, <1>1, <1>2, <1>3, <1>6 DEF MissStep
  <2>2. miss'.state = "Uncached" /\ miss'.sent = FALSE
    BY Zenon, <2>1 DEF MissReset
  <2> QED BY Zenon, <1>1, <1>2, <1>3, <1>6, <2>2
<1>7. CASE miss_resp_replay \/ miss_resp_valid \/ miss_resp_exception
  <2>1. miss' = MissReset
    BY Zenon, <1>1, <1>2, <1>3, <1>7 DEF MissStep
  <2>2. miss'.state = "Idle"
    BY Zenon, <2>1 DEF MissReset
  <2> QED BY Zenon, <1>1, <1>2, <1>3, <1>7, <2>2
<1>8. CASE ~fetch_miss /\ ~miss_retry_uncached /\ ~miss_resp_replay /\ ~miss_resp_valid /\ ~miss_resp_exception
  <2>1. miss' = [miss EXCEPT !.sent = @ \/ (a_valid /\ in.a_ready)]
    BY Zenon, <1>8 DEF MissStep
  <2>2. /\ miss'.state = miss.state /\ miss'.upgrade = miss.upgrade
        /\ miss'.sent = (miss.sent \/ (a_valid /\ in.a_ready))
    BY Zenon, <1>4, <2>1 DEF MissRegs
  <2> QED BY Zenon, <1>2, <1>8, <2>2
<1> QED BY Zenon, <1>5, <1>6, <1>7, <1>8

-----------------------------------------------------------------------------
(* A clock cycle: tags read, phases, the place of the probe *)

\* The flush machine only leaves StateReset, at the last set.
LEMMA FlushMoves ==
    ASSUME LockInv, FlushStep
    PROVE  /\ flush'.state = "Reset" => flush.state = "Reset" /\ flush.index + 1 \in Sets /\ flush'.index = flush.index + 1
           /\ flush.state = "Reset" /\ flush'.state # "Reset" => flush.index + 1 \notin Sets
<1>1. flush \in FlushRegs
  BY Zenon DEF LockInv, TypeOK
<1> QED BY <1>1 DEF FlushStep, FlushRegs

\* A probe is checked for one cycle.
LEMMA ProbeMoves ==
    ASSUME LockInv, ProbeStep
    PROVE  /\ probe_locking => probe'.state = "Check" /\ probe'.line = b.line /\ probe'.param = b.param
           /\ ~probe_locking => probe'.state = "Idle"
<1>1. probe_locking => probe.state = "Idle"
  BY Zenon DEF probe_locking, probe_lock_acq
<1>2. probe.state \in {"Idle", "Check"}
  BY Zenon DEF LockInv, TypeOK, ProbeRegs
<1>3. CASE probe_locking
  <2>1. probe' = [state |-> "Check", tracker_valid |-> TRUE, line |-> b.line, param |-> b.param]
    BY Zenon, <1>1, <1>3 DEF ProbeStep
  <2> QED BY Zenon, <1>3, <2>1
<1>4. CASE ~probe_locking
  BY Zenon, <1>2, <1>4 DEF ProbeStep, ProbeReset
<1> QED BY Zenon, <1>3, <1>4

\* A clock cycle leaves the tags read that the next one decides on.
LEMMA TickReads ==
    ASSUME LockInv, Phases, NEW in \in Inputs, Tick(in) PROVE TagsRead'
<1>1. TypeOK /\ MainStep(in) /\ TagPort(in) /\ ProbeStep
  BY Zenon DEF LockInv, Tick
<1>2. ASSUME main'.state = "Fetch"
      PROVE  tag_rd_addr' = main'.line /\ tag_rd' = tags'[SetOf(main'.line)]
  <2>1. access_tag_read_gnt(in) /\ main'.line = access_read_line(in)
    <3>1. CASE in.req = None
      BY Zenon, <1>1, <1>2, <3>1, Continues, StateMoves DEF access_read_line
    <3>2. CASE in.req # None
      <4>1. main'.line = in.req.line
        BY Zenon, <1>1, <3>2, Accepts
      <4>2. access_tag_read_gnt(in)
        BY Zenon, <1>1, <1>2, <3>2, Accepts
      <4> QED BY Zenon, <3>2, <4>1, <4>2 DEF access_read_line
    <3> QED BY Zenon, <3>1, <3>2
  <2>2. ReadTag(access_read_line(in))
    BY Zenon, <1>1, <2>1 DEF TagPort, access_tag_read_gnt
  <2> QED BY Zenon, <2>1, <2>2 DEF ReadTag
<1>3. ASSUME probe'.state = "Check"
      PROVE  tag_rd_addr' = probe'.line /\ tag_rd' = tags'[SetOf(probe'.line)]
  <2>1. probe_locking
    BY Zenon, <1>1, <1>3, ProbeMoves
  <2>2. probe'.line = b.line
    BY Zenon, <1>1, <2>1, ProbeMoves
  <2>3. ~refill_tag_write_req /\ ~probe_tag_write_req
    BY Zenon, <2>1, Signals, Holder
  <2>4. ReadTag(b.line)
    BY Zenon, <1>1, <2>1, <2>3 DEF TagPort
  <2> QED BY Zenon, <2>2, <2>4 DEF ReadTag
<1> QED BY Zenon, <1>2, <1>3 DEF TagsRead

\* A clock cycle keeps the main and the miss machine in step.
LEMMA TickPhases ==
    ASSUME LockInv, Phases, NEW in \in Inputs, Tick(in) PROVE Phases'
<1>1. TypeOK /\ MainStep(in) /\ MissStep(in) /\ FlushStep
  BY Zenon DEF LockInv, Tick
<1>2. flush'.state = "Reset" => flush.state = "Reset"
  BY Zenon, <1>1, FlushMoves
<1>4. ~fetch_miss /\ miss.state = "Idle" => miss'.state = "Idle"
  <2>1. miss.state = "Idle" => ~miss_retry_uncached /\ ~miss_resp_replay /\ ~miss_resp_valid /\ ~miss_resp_exception
    BY Zenon, <1>1, MissMoves
  <2> QED BY Zenon, <1>1, <2>1, MissMoves
<1>5. CASE in.req # None
  <2>1. main.state \in {"Idle", "Fetch"} /\ ~fetch_miss
    BY Zenon, <1>1, <1>5, Accepts, Signals DEF req_ready, translated, fetching
  <2>2. miss'.state = "Idle"
    BY Zenon, <1>4, <2>1 DEF Phases
  <2>3. main'.state \in {"Exception", "Fetch", "Replay"} /\ (main'.ppn = "bad" => main'.state = "Exception")
    BY Zenon, <1>1, <1>5, Accepts
  <2>4. main'.state = "Fetch" => ~flush_tag_write_req
    BY Zenon, <1>1, <1>5, Accepts DEF access_tag_read_gnt
  <2> QED BY Zenon, <1>2, <2>2, <2>3, <2>4 DEF Phases, flush_tag_write_req
<1>6. CASE in.req = None
  <2>1. main'.state = main_state(in)
    BY Zenon, <1>1, <1>6, Continues
  <2>2. main'.ppn = "bad" => main'.state = "Exception"
    <3>1. main'.state # "Idle" => main'.ppn = main.ppn
      BY Zenon, <1>1, <1>6, Continues
    <3>2. main'.state = "Idle" => main'.ppn = "ok"
      BY Zenon, <1>1, <1>6, Continues
    <3> QED BY Zenon, <2>1, <3>1, <3>2, StateMoves DEF Phases
  <2>3. main'.state = "Fill" <=> miss'.state # "Idle"
    <3>1. CASE fetch_miss
      <4>1. miss'.state = "Fill"
        BY Zenon, <1>1, <3>1, MissMoves
      <4> QED BY Zenon, <2>1, <3>1, <4>1, StateMoves
    <3>2. CASE ~fetch_miss /\ main.state # "Fill"
      BY Zenon, <1>4, <2>1, <3>2, StateMoves DEF Phases
    <3>3. CASE ~fetch_miss /\ (miss_resp_replay \/ miss_resp_valid \/ miss_resp_exception)
      <4>1. miss'.state = "Idle"
        BY Zenon, <1>1, <3>3, MissMoves
      <4> QED BY Zenon, <2>1, <3>3, <4>1, StateMoves
    <3>4. CASE main.state = "Fill" /\ ~fetch_miss /\ ~miss_resp_replay /\ ~miss_resp_valid /\ ~miss_resp_exception
      <4>1. miss'.state # "Idle"
        BY Zenon, <1>1, <3>4, MissMoves DEF Phases
      <4> QED BY Zenon, <2>1, <3>4, <4>1, StateMoves
    <3> QED BY Zenon, <3>1, <3>2, <3>3, <3>4
  <2>4. main'.state \in {"Fetch", "Fill"} => flush.state # "Reset"
    <3>1. main'.state = "Fetch" => flush.state # "Reset"
      BY Zenon, <2>1, StateMoves DEF access_tag_read_gnt, flush_tag_write_req
    <3>2. main'.state = "Fill" => flush.state # "Reset"
      BY Zenon, <2>1, StateMoves, Signals DEF Phases
    <3> QED BY Zenon, <3>1, <3>2
  <2>5. main'.state = "Fill" => main'.op # "SC"
    <3>1. main'.state = "Fill" => main'.op = main.op
      BY Zenon, <1>1, <1>6, Continues
    <3> QED BY Zenon, <2>1, <3>1, StateMoves, Signals DEF Phases
  <2> QED BY Zenon, <1>2, <2>2, <2>3, <2>4, <2>5 DEF Phases
<1> QED BY Zenon, <1>5, <1>6

-----------------------------------------------------------------------------
(* A clock cycle: the writeback *)

\* Who starts a writeback, and with what.
LEMMA WbRequest ==
    ASSUME LockInv, writeback_lock_acq
    PROVE  \/ /\ probe.state = "Check" /\ ~fetch_miss
              /\ ~wb_req.active /\ wb_req.line = probe.line /\ wb_req.way = hit_way
              /\ wb_req.dirty = (hit # {} /\ hit_tag.dirty)
              /\ ReportPerm(wb_req.param) = IF hit # {} /\ probe.param = "toB" THEN "B" ELSE "N"
           \/ /\ probe.state = "Idle" /\ fetch_miss /\ hit_tag.valid /\ hit_tag.writable
              /\ wb_req.active /\ wb_req.line = <<hit_tag.tag, SetOf(main.line)>> /\ wb_req.way = hit_way
              /\ wb_req.dirty = hit_tag.dirty /\ ReportPerm(wb_req.param) = "N"
<1>1. wb.state = "Idle" /\ (wb_probe_req_valid \/ wb_rel_req_valid)
  BY Zenon DEF writeback_lock_acq, wb_req_valid
<1>2. CASE wb_probe_req_valid
  <2>1. probe.state = "Check" /\ ~fetch_miss
    BY Zenon, <1>2, Holder, Signals DEF wb_probe_req_valid
  <2>2. wb_req = wb_probe_req
    BY Zenon, <1>2 DEF wb_req
  <2>3. /\ wb_probe_req.active = FALSE /\ wb_probe_req.line = probe.line /\ wb_probe_req.way = hit_way
        /\ wb_probe_req.dirty = (hit # {} /\ hit_tag.dirty)
        /\ wb_probe_req.param = IF hit = {} THEN "NtoN"
               ELSE IF probe.param = "toB"
               THEN IF hit_tag.writable THEN "TtoB" ELSE "BtoB"
               ELSE IF hit_tag.writable THEN "TtoN" ELSE "BtoN"
    BY Zenon DEF wb_probe_req
  <2>4. ReportPerm(wb_probe_req.param) = IF hit # {} /\ probe.param = "toB" THEN "B" ELSE "N"
    BY Zenon, <2>3 DEF ReportPerm
  <2> QED BY Zenon, <2>1, <2>2, <2>3, <2>4
<1>3. CASE ~wb_probe_req_valid
  <2>1. fetch_miss /\ hit_tag.valid /\ hit_tag.writable
    BY Zenon, <1>1, <1>3 DEF wb_rel_req_valid
  <2>2. wb_req = wb_rel_req
    BY Zenon, <1>3 DEF wb_req
  <2>3. /\ wb_rel_req.active = TRUE /\ wb_rel_req.line = <<hit_tag.tag, SetOf(main.line)>>
        /\ wb_rel_req.way = hit_way /\ wb_rel_req.dirty = hit_tag.dirty /\ wb_rel_req.param = "TtoN"
    BY Zenon DEF wb_rel_req
  <2>4. ReportPerm(wb_rel_req.param) = "N"
    BY Zenon, <2>3 DEF ReportPerm
  <2>5. probe.state = "Idle"
    BY Zenon, <2>1, Signals, Holder
  <2> QED BY Zenon, <2>1, <2>2, <2>3, <2>4, <2>5
<1> QED BY Zenon, <1>2, <1>3

\* What the writeback machine takes over when it gets the lock, and keeps until it is done.
LEMMA WbMoves ==
    ASSUME LockInv, NEW in \in Inputs, WbStep(in)
    PROVE  /\ writeback_lock_acq =>
                /\ wb.state = "Idle" /\ wb'.state = "Progress" /\ wb'.line = wb_req.line /\ wb'.way = wb_req.way
                /\ wb'.param = wb_req.param /\ wb'.index = (IF wb_req.dirty THEN 1 ELSE 0) /\ ~wb'.skid_valid
                /\ IsRelease(wb'.opcode) <=> wb_req.active
                /\ HasCData(wb'.opcode) <=> wb_req.dirty
           /\ ~writeback_lock_acq /\ wb'.state # "Idle" =>
                /\ wb.state # "Idle" /\ wb'.line = wb.line /\ wb'.way = wb.way
                /\ wb'.param = wb.param /\ wb'.opcode = wb.opcode
           /\ ~writeback_lock_acq /\ wb'.state = "Progress" =>
                /\ wb.state = "Progress" /\ ~(in.c_ready /\ c_last)
                /\ in.c_ready => wb'.index = (wb.index + 1) % NumBeats /\ ~wb'.skid_valid
                /\ ~in.c_ready => wb'.index = wb.index /\ wb'.skid_valid /\ wb'.skid = c_data
           /\ ~writeback_lock_acq /\ wb'.state = "Wait" =>
                wb.state = "Wait" \/ (wb.state = "Progress" /\ in.c_ready /\ c_last /\ IsRelease(wb.opcode))
<1>1. wb \in WbRegs /\ WbReset \in WbRegs /\ wb.state \in {"Idle", "Progress", "Wait"} /\ in.c_ready \in BOOLEAN
  BY Zenon, ConstantTypes, InputTypes DEF LockInv, TypeOK, WbRegs
<1> DEFINE acked == wb.evict_completed \/ d.kind = "ReleaseAck"
<1>2. CASE writeback_lock_acq
  <2>1. wb.state = "Idle" /\ wb_req_valid
    BY Zenon, <1>2 DEF writeback_lock_acq
  <2>2. wb' = WbStart
    BY Zenon, <1>2, <2>1 DEF WbStep, c_valid
  <2>3. wb_req.dirty \in BOOLEAN /\ wb_req.active \in BOOLEAN
    BY Zenon, <2>1, WbReqTypes DEF LockInv
  <2>4. /\ WbStart.state = "Progress" /\ WbStart.line = wb_req.line /\ WbStart.way = wb_req.way
        /\ WbStart.param = wb_req.param /\ WbStart.index = (IF wb_req.dirty THEN 1 ELSE 0) /\ ~WbStart.skid_valid
        /\ WbStart.opcode = CASE wb_req.active /\ wb_req.dirty -> "ReleaseData"
                              [] wb_req.active /\ ~wb_req.dirty -> "Release"
                              [] ~wb_req.active /\ wb_req.dirty -> "ProbeAckData"
                              [] ~wb_req.active /\ ~wb_req.dirty -> "ProbeAck"
    BY Zenon DEF WbStart, WbReset
  <2>5. (IsRelease(WbStart.opcode) <=> wb_req.active) /\ (HasCData(WbStart.opcode) <=> wb_req.dirty)
    BY Zenon, <2>3, <2>4 DEF IsRelease, HasCData
  <2> QED BY Zenon, <1>2, <2>1, <2>2, <2>4, <2>5
<1>3. CASE wb.state = "Progress" /\ in.c_ready
  <2>1. wb' = [WbSent EXCEPT !.evict_completed = acked] /\ ~writeback_lock_acq
    BY Zenon, <1>3 DEF WbStep, c_valid, writeback_lock_acq
  <2>2. CASE c_last /\ ~IsRelease(wb.opcode)
    <3>1. WbSent = WbReset
      BY Zenon, <2>2 DEF WbSent
    <3>2. wb'.state = "Idle"
      BY Zenon, <2>1, <3>1 DEF WbReset
    <3> QED BY Zenon, <2>1, <3>2
  <2>3. CASE ~(c_last /\ ~IsRelease(wb.opcode))
    <3>1. wb' = [[wb EXCEPT !.state = IF c_last THEN "Wait" ELSE "Progress",
                    !.index = (wb.index + 1) % NumBeats, !.skid_valid = FALSE, !.skid = 0] EXCEPT !.evict_completed = acked]
      BY Zenon, <2>1, <2>3 DEF WbSent
    <3>2. /\ wb'.line = wb.line /\ wb'.way = wb.way /\ wb'.param = wb.param /\ wb'.opcode = wb.opcode
          /\ c_last => wb'.state = "Wait"
          /\ ~c_last => wb'.state = "Progress"
          /\ wb'.index = (wb.index + 1) % NumBeats /\ ~wb'.skid_valid
      BY Zenon, <1>1, <3>1 DEF WbRegs
    <3> QED BY Zenon, <1>3, <2>1, <2>3, <3>2
  <2> QED BY Zenon, <2>2, <2>3
<1>4. CASE wb.state = "Progress" /\ ~in.c_ready
  <2>1. wb' = [wb EXCEPT !.skid_valid = TRUE, !.skid = c_data, !.evict_completed = acked] /\ ~writeback_lock_acq
    BY Zenon, <1>4 DEF WbStep, c_valid, writeback_lock_acq
  <2>2. /\ wb'.line = wb.line /\ wb'.way = wb.way /\ wb'.param = wb.param /\ wb'.opcode = wb.opcode
        /\ wb'.state = wb.state /\ wb'.index = wb.index /\ wb'.skid_valid /\ wb'.skid = c_data
    BY Zenon, <1>1, <2>1 DEF WbRegs
  <2> QED BY Zenon, <1>4, <2>1, <2>2
<1>5. CASE wb.state # "Progress" /\ ~writeback_lock_acq
  <2>1. wb' = wb \/ wb' = WbReset
    BY Zenon, <1>1, <1>5 DEF WbStep, c_valid
  <2>2. WbReset.state = "Idle"
    BY Zenon DEF WbReset
  <2> QED BY Zenon, <1>1, <1>5, <2>1, <2>2
<1> QED BY Zenon, <1>1, <1>2, <1>3, <1>4, <1>5

\* A clock cycle leaves a probe in one place.
LEMMA TickProbes ==
    ASSUME LockInv, Probes, NEW in \in Inputs, Tick(in) PROVE Probes'
<1>1. WbStep(in) /\ ProbeStep /\ ManagerSees(in)
  BY Zenon DEF Tick
<1>2. b' = (IF probe_locking THEN None ELSE b)
  BY Zenon, <1>1 DEF ManagerSees
<1>3. ~Answering => probing' = probing
  BY Zenon, <1>1 DEF ManagerSees, Answering, c_valid
<1>4. Answering /\ Answering' => probing' = probing /\ wb'.line = wb.line
  <2> SUFFICES ASSUME Answering, Answering' PROVE probing' = probing /\ wb'.line = wb.line
    BY Zenon
  <2>1. ~writeback_lock_acq
    BY Zenon DEF writeback_lock_acq, Answering
  <2>2. wb'.line = wb.line /\ ~(in.c_ready /\ c_last)
    BY Zenon, <1>1, <2>1, WbMoves DEF Answering
  <2> QED BY Zenon, <1>1, <2>2 DEF ManagerSees
<1>5. Answering' => Answering \/ (probe.state = "Check" /\ wb'.line = probe.line)
  <2>1. CASE writeback_lock_acq
    <3>1. wb'.line = wb_req.line /\ (IsRelease(wb'.opcode) <=> wb_req.active)
      BY Zenon, <1>1, <2>1, WbMoves
    <3> QED BY Zenon, <2>1, <3>1, WbRequest DEF Answering
  <2>2. CASE ~writeback_lock_acq
    BY Zenon, <1>1, <2>2, WbMoves DEF Answering
  <2> QED BY Zenon, <2>1, <2>2
<1>6. probe.state = "Check" => wb.state = "Idle"
  BY Zenon, Holder
<1>7. ASSUME b' # None PROVE probing' = OnLine(b'.line) /\ probe'.state = "Idle" /\ ~Answering'
  <2>1. ~probe_locking /\ b # None /\ b' = b
    BY Zenon, <1>2, <1>7
  <2>2. probe.state = "Idle" /\ ~Answering /\ probing = OnLine(b.line)
    BY Zenon, <2>1 DEF Probes
  <2>3. probe'.state = "Idle"
    BY Zenon, <1>1, <2>1, ProbeMoves
  <2> QED BY Zenon, <1>3, <1>5, <2>1, <2>2, <2>3
<1>8. ASSUME probe'.state = "Check" PROVE probing' = OnLine(probe'.line)
  <2>1. probe_locking
    BY Zenon, <1>1, <1>8, ProbeMoves
  <2>2. probe'.line = b.line /\ b # None
    BY Zenon, <1>1, <2>1, ProbeMoves, Signals
  <2> QED BY Zenon, <1>3, <2>2 DEF Probes
<1>9. ASSUME Answering' PROVE probing' = OnLine(wb'.line)
  <2>1. CASE Answering
    BY Zenon, <1>4, <1>9, <2>1 DEF Probes
  <2>2. CASE ~Answering
    BY Zenon, <1>3, <1>5, <1>9, <2>2 DEF Probes
  <2> QED BY Zenon, <2>1, <2>2
<1>10. ASSUME wb'.state = "Wait" PROVE Releasing'
  <2>1. ~writeback_lock_acq
    BY Zenon, <1>1, <1>10, WbMoves
  <2>2. wb'.opcode = wb.opcode /\ IsRelease(wb.opcode)
    BY Zenon, <1>1, <1>10, <2>1, WbMoves DEF Probes, Releasing
  <2> QED BY Zenon, <1>10, <2>2 DEF Releasing
<1> QED BY Zenon, <1>7, <1>8, <1>9, <1>10 DEF Probes

\* A victim is another line than the one that misses, and in no way once it is
\* being released.
LEMMA Victim ==
    ASSUME LockInv, TagsRead, OneCopyPerLine, NEW in \in Inputs, TagPort(in), fetch_miss,
           hit_tag.valid, hit_tag.writable
    PROVE  /\ <<hit_tag.tag, SetOf(main.line)>> \in Lines
           /\ <<hit_tag.tag, SetOf(main.line)>> # main.line
           /\ LaterCopies(<<hit_tag.tag, SetOf(main.line)>>) = {}
<1> DEFINE victim == <<hit_tag.tag, SetOf(main.line)>>
<1>1. /\ TypeOK /\ main.state = "Fetch" /\ flush.state = "Idle" /\ ~refill_tag_write_req
  BY Zenon, Signals, Holder DEF LockInv
<1>2. /\ main.line \in Lines /\ SetOf(main.line) \in Sets /\ hit_way \in Ways /\ hit_tag \in TagEntry
      /\ hit_tag = tags[SetOf(main.line)][hit_way] /\ tag_rd_addr = main.line
      /\ tag_rd = tags[SetOf(main.line)]
  BY Zenon, <1>1, HitTypes, LineTypes DEF TypeOK, MainRegs, TagsRead, hit_tag
<1>3. victim \in Lines /\ SetOf(victim) = SetOf(main.line) /\ TagOf(victim) = hit_tag.tag
  BY Zenon, <1>2, LineTypes DEF TagEntry
<1>4. hit = {}
  <2>1. hit # {} => fetch_hit
    BY Zenon DEF fetch_miss, fetch_hit
  <2> QED BY Zenon, <2>1, Signals
<1>5. TagOf(main.line) # hit_tag.tag
  BY Zenon, <1>2, <1>4 DEF hit
<1>6. victim # main.line
  BY Zenon, <1>3, <1>5
<1> HIDE DEF victim
<1>7. ASSUME NEW w \in LaterCopies(victim) PROVE FALSE
  <2>1. w \in Copies(victim)
    BY Zenon, <1>1, <1>3, CopiesKept
  <2>2. w \in Ways /\ tags[SetOf(main.line)][w].valid /\ tags[SetOf(main.line)][w].tag = hit_tag.tag
    BY Zenon, <1>3, <2>1 DEF Copies
  <2>3. w = hit_way
    BY Zenon, <1>1, <1>2, <2>2 DEF OneCopyPerLine
  <2>4. ~tags'[SetOf(main.line)][hit_way].valid
    BY Zenon, TagStep
  <2> QED BY Zenon, <1>3, <2>3, <2>4 DEF LaterCopies
<1> QED BY Zenon, <1>3, <1>6, <1>7 DEF victim

\* A miss waits where it is until the last beat is written.
LEMMA FillStays ==
    ASSUME LockInv, Phases, NEW in \in Inputs, Tick(in), miss.state = "Fill", ~refill_done
    PROVE  /\ main.state = "Fill" /\ in.req = None /\ ~fetch_miss /\ main'.state = "Fill"
           /\ miss'.state = "Fill" /\ miss'.upgrade = miss.upgrade
           /\ miss'.sent = (miss.sent \/ (a_valid /\ in.a_ready))
           /\ main'.line = main.line /\ main'.op = main.op /\ main'.way = main.way
<1>1. TypeOK /\ MainStep(in) /\ MissStep(in) /\ main.state = "Fill"
  BY Zenon DEF LockInv, Tick, Phases
<1>2. ~fetch_miss /\ ~fetch_hit /\ ~translated
  BY Zenon, <1>1, Signals DEF translated, fetching
<1>3. in.req = None
  BY Zenon, <1>1, <1>2, Accepts DEF req_ready
<1>4. ~miss_retry_uncached /\ ~miss_resp_replay /\ ~miss_resp_valid /\ ~miss_resp_exception
  BY Zenon, <1>1, MissMoves
<1>5. /\ miss'.state = "Fill" /\ miss'.upgrade = miss.upgrade
      /\ miss'.sent = (miss.sent \/ (a_valid /\ in.a_ready))
  BY Zenon, <1>1, <1>2, <1>4, MissMoves
<1>6. main'.state = "Fill"
  BY Zenon, <1>1, <1>3, <1>4, Continues, StateMoves
<1>7. main'.line = main.line /\ main'.op = main.op /\ main'.way = main.way
  BY Zenon, <1>1, <1>2, <1>3, <1>6, Continues
<1> QED BY Zenon, <1>1, <1>2, <1>3, <1>5, <1>6, <1>7

\* A fill begins with a miss, for the line of the main machine.
LEMMA FillStarts ==
    ASSUME LockInv, Phases, NEW in \in Inputs, Tick(in), fetch_miss
    PROVE  /\ main.state = "Fetch" /\ in.req = None /\ nothing_in_progress /\ main'.state = "Fill"
           /\ miss'.state = "Fill" /\ miss'.upgrade = (hit # {}) /\ miss'.sent = FALSE
           /\ main'.line = main.line /\ main'.op = main.op /\ main'.way = hit_way
<1>1. TypeOK /\ MainStep(in) /\ MissStep(in) /\ main.state = "Fetch" /\ nothing_in_progress /\ main.op # "SC"
  BY Zenon, Signals DEF LockInv, Tick
<1>2. ~fetch_hit
  BY Zenon, Signals
<1>3. in.req = None
  BY Zenon, <1>1, <1>2, Accepts DEF req_ready
<1>4. miss'.state = "Fill" /\ miss'.upgrade = (hit # {}) /\ miss'.sent = FALSE
  BY Zenon, <1>1, MissMoves
<1>5. main'.state = "Fill"
  BY Zenon, <1>1, <1>3, Continues, StateMoves
<1>6. main'.line = main.line /\ main'.op = main.op /\ main'.way = hit_way
  BY Zenon, <1>1, <1>3, <1>5, Continues
<1> QED BY Zenon, <1>1, <1>3, <1>4, <1>5, <1>6

\* A fill that goes on is for the same line.
LEMMA FillBefore ==
    ASSUME LockInv, Phases, NEW in \in Inputs, Tick(in), miss'.state = "Fill"
    PROVE  fetch_miss \/ (miss.state = "Fill" /\ ~refill_done)
<1>1. MissStep(in)
  BY Zenon DEF Tick
<1>2. miss.state = "Fill" /\ refill_done => miss_retry_uncached \/ miss_resp_replay \/ miss_resp_exception
  BY Zenon DEF miss_resp_replay, miss_resp_exception, miss_refilled
<1>3. ~miss_retry_uncached /\ ~miss_resp_replay /\ ~miss_resp_valid /\ ~miss_resp_exception
  BY Zenon, <1>1, MissMoves
<1>4. ~fetch_miss => miss'.state = miss.state
  BY Zenon, <1>1, <1>3, MissMoves
<1> QED BY Zenon, <1>2, <1>3, <1>4

LaterWithin(line, p) ==
    \A w \in LaterCopies(line) : p # "N" /\ (tags'[SetOf(line)][w].writable => p = "T")

\* Permissions on a line shrink unless a refill writes its tag.
LEMMA StaysWithin ==
    ASSUME LockInv, TagsRead, NEW in \in Inputs, TagPort(in), NEW line \in Lines, NEW p,
           refill_tag_write_req => line # main.line, Within(line, p)
    PROVE  LaterWithin(line, p)
  BY Zenon, CopiesKept DEF Within, LaterWithin

\* What a machine that goes through the tags reads of its line.
LEMMA HitCopies ==
    ASSUME TagsRead
    PROVE  /\ main.state = "Fetch" => hit = Copies(main.line)
           /\ probe.state = "Check" => hit = Copies(probe.line)
  BY Zenon DEF TagsRead, hit, Copies

\* A clock cycle keeps what the writeback reports in line with the tags and the record.
LEMMA TickReports ==
    ASSUME LockInv, TagsRead, Phases, Reports, OneCopyPerLine, Granted, NEW in \in Inputs, Tick(in)
    PROVE  Reports'
<1>1. TypeOK /\ WbStep(in) /\ TagPort(in) /\ ManagerSees(in) /\ wb.line \in Lines /\ probe.line \in Lines
  BY Zenon DEF LockInv, TypeOK, WbRegs, ProbeRegs, Tick
<1>2. /\ Within(wb.line, ReportPerm(wb.param))' <=> LaterWithin(wb'.line, ReportPerm(wb'.param))
      /\ PermLeq(ReportPerm(wb.param), held[wb.line])' <=> PermLeq(ReportPerm(wb'.param), held'[wb'.line])
  BY Zenon DEF Within, Copies, LaterWithin, LaterCopies, PermLeq
<1>3. ~(c_valid /\ in.c_ready /\ c_last) => held' = held
  BY Zenon, <1>1 DEF ManagerSees
<1>4. CASE writeback_lock_acq /\ probe.state = "Check"
  <2>1. /\ ~wb_req.active /\ wb_req.line = probe.line
        /\ ReportPerm(wb_req.param) = IF hit # {} /\ probe.param = "toB" THEN "B" ELSE "N"
    BY Zenon, <1>4, WbRequest
  <2>2. wb'.line = probe.line /\ wb'.param = wb_req.param /\ ~IsRelease(wb'.opcode) /\ wb.state = "Idle"
    BY Zenon, <1>1, <1>4, <2>1, WbMoves
  <2>3. hit = Copies(probe.line)
    BY Zenon, <1>4, HitCopies
  <2>4. flush.state = "Idle" /\ ~refill_tag_write_req
    BY Zenon, <1>4, Holder, Signals
  <2>5. LaterWithin(probe.line, ReportPerm(wb_req.param))
    <3> SUFFICES ASSUME NEW w \in LaterCopies(probe.line)
                 PROVE  ReportPerm(wb_req.param) # "N" /\ ~tags'[SetOf(probe.line)][w].writable
      BY Zenon DEF LaterWithin
    <3>1. w \in hit
      BY Zenon, <1>1, <2>3, <2>4, CopiesKept
    <3>2. probe.param = "toB" /\ ~tags'[SetOf(probe.line)][w].writable
      BY Zenon, <1>1, <1>4, <3>1, TagStep DEF LaterCopies
    <3> QED BY Zenon, <2>1, <3>1, <3>2
  <2>6. hit # {} => held[probe.line] \in {"B", "T"}
    BY Zenon, <1>1, <2>3, <2>4 DEF Granted, Within, TypeOK, Perms
  <2>7. PermLeq(ReportPerm(wb_req.param), held'[probe.line])
    BY Zenon, <1>3, <2>1, <2>2, <2>6 DEF PermLeq, c_valid
  <2> QED BY Zenon, <1>2, <2>2, <2>5, <2>7 DEF Reports, Releasing
<1>5. CASE writeback_lock_acq /\ probe.state # "Check"
  <2>1. /\ fetch_miss /\ hit_tag.valid /\ hit_tag.writable /\ ReportPerm(wb_req.param) = "N"
        /\ wb_req.line = <<hit_tag.tag, SetOf(main.line)>>
    BY Zenon, <1>5, WbRequest
  <2>2. wb'.line = wb_req.line /\ wb'.param = wb_req.param
    BY Zenon, <1>1, <1>5, WbMoves
  <2>3. wb'.line # main.line /\ LaterCopies(wb'.line) = {}
    BY Zenon, <1>1, <2>1, <2>2, Victim
  <2>4. miss'.state = "Fill" /\ main'.line = main.line
    BY Zenon, <2>1, FillStarts
  <2> QED BY Zenon, <1>2, <2>1, <2>2, <2>3, <2>4 DEF Reports, LaterWithin, PermLeq
<1>6. CASE ~writeback_lock_acq /\ wb'.state # "Idle"
  <2>1. wb.state # "Idle" /\ wb'.line = wb.line /\ wb'.param = wb.param /\ wb'.opcode = wb.opcode
    BY Zenon, <1>1, <1>6, WbMoves
  <2>2. ~refill_tag_write_req /\ ~refill_done
    BY Zenon, <2>1, Holder, Signals
  <2>3. ASSUME Releasing' PROVE miss'.state = "Fill" /\ wb'.line # main'.line
    <3>1. miss.state = "Fill" /\ wb.line # main.line
      BY Zenon, <2>1, <2>3 DEF Releasing, Reports
    <3> QED BY Zenon, <2>1, <2>2, <3>1, FillStays
  <2>4. ASSUME wb'.state = "Progress"
        PROVE  LaterWithin(wb.line, ReportPerm(wb.param)) /\ PermLeq(ReportPerm(wb.param), held'[wb.line])
    <3>1. wb.state = "Progress" /\ ~(in.c_ready /\ c_last)
      BY Zenon, <1>1, <1>6, <2>4, WbMoves
    <3>2. held' = held
      BY Zenon, <1>3, <3>1
    <3>3. Within(wb.line, ReportPerm(wb.param)) /\ PermLeq(ReportPerm(wb.param), held[wb.line])
      BY Zenon, <3>1 DEF Reports
    <3> QED BY Zenon, <1>1, <2>2, <3>2, <3>3, StaysWithin
  <2> QED BY Zenon, <1>2, <2>1, <2>3, <2>4 DEF Reports
<1>7. CASE wb'.state = "Idle"
  BY Zenon, <1>7 DEF Reports, Releasing
<1> QED BY Zenon, <1>4, <1>5, <1>6, <1>7

\* The sets are numbered from zero.
LEMMA SetsRange == \E n \in Int : Sets = 0 .. n - 1
<1>1. Cardinality(Sets) \in Nat
  BY Zenon, DCacheAssumption, FS_CardinalityType
<1> QED BY <1>1, DCacheAssumption

\* The reset goes on to the next set, or it has cleared them all.
LEMMA Cleared ==
    ASSUME LockInv, TagsRead, Absent, NEW in \in Inputs, Tick(in), flush.state = "Reset"
    PROVE  /\ flush'.state = "Reset" => \A s \in Sets, w \in Ways : s < flush'.index => ~tags'[s][w].valid
           /\ flush'.state # "Reset" => \A s \in Sets, w \in Ways : ~tags'[s][w].valid
<1>1. TagPort(in) /\ FlushStep /\ flush.index \in Sets
  BY Zenon DEF Tick, LockInv, TypeOK, FlushRegs
<1>2. ~refill_tag_write_req
  BY Zenon, Holder, Signals
<1>3. \A s \in Sets, w \in Ways : s < flush.index => ~tags'[s][w].valid
  BY Zenon, <1>1, <1>2, TagStep DEF Absent, Kept
<1>4. \A w \in Ways : ~tags'[flush.index][w].valid
  BY Zenon, <1>1, TagStep
<1>5. PICK n \in Int : Sets = 0 .. n - 1
  BY Zenon, SetsRange
<1>6. /\ \A s \in Sets : s < flush.index + 1 <=> s < flush.index \/ s = flush.index
      /\ flush.index + 1 \notin Sets => \A s \in Sets : s < flush.index + 1
  BY <1>1, <1>5
<1> QED BY Zenon, <1>1, <1>3, <1>4, <1>6, FlushMoves

\* A clock cycle keeps the cleared sets clear and a line that is waited for in no way.
LEMMA TickAbsent ==
    ASSUME LockInv, TagsRead, Phases, Absent, OneCopyPerLine, NEW in \in Inputs, Tick(in)
    PROVE  Absent'
<1>1. TypeOK /\ TagPort(in) /\ FlushStep /\ main.line \in Lines /\ SetOf(main.line) \in Sets
  BY Zenon, LineTypes DEF LockInv, TypeOK, MainRegs, Tick
<1>2. flush'.state = "Reset" => flush.state = "Reset"
  BY Zenon, <1>1, FlushMoves
<1>3. (flush.state = "Reset" => \A s \in Sets, w \in Ways : s < flush.index => ~tags[s][w].valid)'
  BY Zenon, <1>2, Cleared
<1>4. ASSUME miss'.state = "Fill" PROVE main'.line = main.line /\ LaterCopies(main.line) = {}
  <2>1. CASE fetch_miss
    <3>1. main.state = "Fetch" /\ nothing_in_progress /\ main'.line = main.line
      BY Zenon, <2>1, FillStarts
    <3>2. flush.state # "Reset" /\ ~refill_tag_write_req
      BY Zenon, <3>1, Holder, Signals
    <3>3. hit = Copies(main.line)
      BY Zenon, <3>1, HitCopies
    <3>4. ASSUME NEW w \in LaterCopies(main.line) PROVE FALSE
      <4>1. w \in Copies(main.line)
        BY Zenon, <1>1, <3>2, CopiesKept
      <4>2. hit_way \in Copies(main.line)
        BY Zenon, <1>1, <3>3, <4>1, HitWay
      <4>3. w = hit_way
        BY Zenon, <1>1, <3>2, <4>1, <4>2 DEF OneCopyPerLine, Copies
      <4>4. ~tags'[SetOf(main.line)][hit_way].valid
        BY Zenon, <1>1, <2>1, TagStep
      <4> QED BY Zenon, <4>3, <4>4 DEF LaterCopies
    <3> QED BY Zenon, <3>1, <3>4
  <2>2. CASE miss.state = "Fill" /\ ~refill_done
    <3>1. main'.line = main.line
      BY Zenon, <2>2, FillStays
    <3>2. ~refill_tag_write_req /\ Copies(main.line) = {}
      BY Zenon, <2>2 DEF refill_tag_write_req, Absent
    <3> QED BY Zenon, <1>1, <3>1, <3>2, CopiesKept
  <2> QED BY Zenon, <1>4, <2>1, <2>2, FillBefore
<1>5. Copies(main.line)' = LaterCopies(main'.line)
  BY Zenon DEF Copies, LaterCopies
<1> QED BY Zenon, <1>3, <1>4, <1>5 DEF Absent

\* What a refill writes, and that it finds no other copy.
LEMMA RefillWrites ==
    ASSUME LockInv, TagsRead, Absent, Beats, NEW in \in Inputs, TagPort(in), refill_tag_write_req
    PROVE  /\ Copies(main.line) = {} /\ wb.state = "Idle" /\ flush.state = "Idle" /\ probe.state = "Idle"
           /\ main.line \in Lines /\ main.way \in Ways
           /\ LaterCopies(main.line) = {main.way}
           /\ tags'[SetOf(main.line)][main.way].tag = TagOf(main.line)
           /\ tags'[SetOf(main.line)][main.way].writable <=> refill_beat.param = "toT"
           /\ Agrees(FALSE, refill_beat.param)
<1>1. refill_fifo_ready /\ refill_fifo # <<>> /\ ~refill_beat.denied
  BY Zenon, Signals DEF refill_tag_write_req
<1>2. wb.state = "Idle" /\ flush.state = "Idle" /\ probe.state = "Idle"
  BY Zenon, <1>1, Signals, Holder
<1>3. TypeOK /\ main.line \in Lines /\ SetOf(main.line) \in Sets /\ main.way \in Ways /\ TagOf(main.line) \in Tags
  BY Zenon, LineTypes DEF LockInv, TypeOK, MainRegs
<1>4. Copies(main.line) = {}
  BY Zenon, <1>1 DEF Beats, Absent
<1>5. RefillEntry.tag = TagOf(main.line) /\ RefillEntry.valid /\ (RefillEntry.writable <=> refill_beat.param = "toT")
  BY Zenon, Entries
<1>6. tags'[SetOf(main.line)][main.way] = RefillEntry
  BY Zenon, TagStep
<1>7. ASSUME NEW w \in Ways, w # main.way PROVE w \notin LaterCopies(main.line)
  <2>1. Kept(SetOf(main.line), w)
    BY Zenon, <1>3, <1>7, TagStep
  <2> QED BY Zenon, <1>4, <2>1 DEF Kept, Copies, LaterCopies
<1>8. LaterCopies(main.line) = {main.way}
  BY Zenon, <1>3, <1>5, <1>6, <1>7 DEF LaterCopies
<1>9. Agrees(FALSE, refill_beat.param)
  <2>1. refill_fifo \in Seq(Beat)
    BY Zenon, <1>3, FifoTypes
  <2>2. 1 \in 1 .. Len(refill_fifo) /\ refill_beat = refill_fifo[1]
    BY <1>1, <2>1 DEF refill_beat
  <2>3. Agrees(refill_beat.denied, refill_beat.param)
    BY Zenon, <2>2 DEF Beats
  <2> QED BY Zenon, <1>1, <2>3 DEF Agrees
<1> QED BY Zenon, <1>2, <1>3, <1>4, <1>5, <1>6, <1>8, <1>9

\* A clock cycle leaves no line in two ways.
LEMMA TickOneCopy ==
    ASSUME LockInv, TagsRead, Absent, Beats, OneCopyPerLine, NEW in \in Inputs, Tick(in)
    PROVE  OneCopyPerLine'
<1>1. TagPort(in) /\ FlushStep
  BY Zenon DEF Tick
<1> SUFFICES ASSUME flush'.state # "Reset", NEW s \in Sets, NEW v \in Ways, NEW w \in Ways,
                    tags'[s][v].valid, tags'[s][w].valid, tags'[s][v].tag = tags'[s][w].tag
             PROVE  v = w
  BY Zenon DEF OneCopyPerLine
<1>2. flush.state # "Reset"
  BY Zenon, Cleared
<1>3. CASE Kept(s, v) /\ Kept(s, w)
  BY Zenon, <1>2, <1>3 DEF Kept, OneCopyPerLine
<1>4. CASE refill_tag_write_req /\ s = SetOf(main.line) /\ (v = main.way \/ w = main.way)
  <2>1. LaterCopies(main.line) = {main.way} /\ tags'[SetOf(main.line)][main.way].tag = TagOf(main.line)
    BY Zenon, <1>1, <1>4, RefillWrites
  <2>2. v \in LaterCopies(main.line) /\ w \in LaterCopies(main.line)
    BY Zenon, <1>4, <2>1 DEF LaterCopies
  <2> QED BY Zenon, <2>1, <2>2
<1> QED BY Zenon, <1>1, <1>3, <1>4, TagStep

\* A clock cycle leaves no copy that the manager does not know of.
LEMMA TickGranted ==
    ASSUME LockInv, TagsRead, Phases, Reports, Absent, Beats, Granted, NEW in \in Inputs, Tick(in)
    PROVE  Granted'
<1>1. TypeOK /\ TagPort(in) /\ FlushStep /\ ManagerSees(in) /\ wb.line \in Lines
  BY Zenon DEF Tick, LockInv, TypeOK, WbRegs
<1> SUFFICES ASSUME flush'.state # "Reset", NEW line \in Lines PROVE LaterWithin(line, held'[line])
  BY Zenon DEF Granted, Within, Copies, LaterWithin, LaterCopies
<1>2. CASE flush.state = "Reset"
  <2>1. \A s \in Sets, w \in Ways : ~tags'[s][w].valid
    BY Zenon, <1>2, Cleared
  <2> QED BY Zenon, <2>1, LineTypes DEF LaterWithin, LaterCopies
<1>3. CASE flush.state # "Reset" /\ refill_tag_write_req /\ line = main.line
  <2>1. /\ LaterCopies(line) = {main.way} /\ wb.state = "Idle" /\ Agrees(FALSE, refill_beat.param)
        /\ tags'[SetOf(line)][main.way].writable <=> refill_beat.param = "toT"
    BY Zenon, <1>1, <1>3, RefillWrites
  <2>2. held' = held
    BY Zenon, <1>1, <2>1 DEF ManagerSees, c_valid
  <2>3. held[line] # "N" /\ (refill_beat.param = "toT" => held[line] = "T")
    BY Zenon, <1>3, <2>1 DEF Agrees, CapPerm
  <2> QED BY Zenon, <2>1, <2>2, <2>3 DEF LaterWithin
<1>4. CASE flush.state # "Reset" /\ ~(refill_tag_write_req /\ line = main.line)
  <2>1. CASE held'[line] = held[line]
    BY Zenon, <1>1, <1>4, <2>1, StaysWithin DEF Granted
  <2>2. CASE held'[line] # held[line]
    <3>1. c_valid /\ in.c_ready /\ c_last /\ held' = [held EXCEPT ![wb.line] = ReportPerm(wb.param)]
      BY Zenon, <1>1, <2>2 DEF ManagerSees
    <3>2. line = wb.line /\ held'[line] = ReportPerm(wb.param)
      BY Zenon, <1>1, <2>2, <3>1 DEF TypeOK
    <3>3. Within(line, ReportPerm(wb.param))
      BY Zenon, <3>1, <3>2 DEF Reports, c_valid
    <3> QED BY Zenon, <1>1, <1>4, <3>2, <3>3, StaysWithin
  <2> QED BY Zenon, <2>1, <2>2
<1> QED BY Zenon, <1>2, <1>3, <1>4

\* The first beat and the rest of the FIFO.
LEMMA TailFacts ==
    ASSUME NEW s \in Seq(Beat), s # <<>>
    PROVE  /\ Len(s) \in Nat \ {0} /\ 1 \in 1 .. Len(s) /\ Head(s) = s[1]
           /\ Tail(s) \in Seq(Beat) /\ Len(Tail(s)) = Len(s) - 1
           /\ \A i \in 1 .. Len(Tail(s)) : i + 1 \in 1 .. Len(s) /\ Tail(s)[i] = s[i + 1]
           /\ \A i \in 1 .. Len(Tail(s)) : i + 1 = Len(s) <=> i = Len(Tail(s))
           /\ Tail(s) = <<>> <=> Len(s) = 1
<1>1. Len(s) \in Nat \ {0} /\ Head(s) = s[1]
  OBVIOUS
<1>2. Tail(s) \in Seq(Beat) /\ Len(Tail(s)) = Len(s) - 1
  OBVIOUS
<1>3. \A i \in 1 .. Len(s) - 1 : Tail(s)[i] = s[i + 1]
  OBVIOUS
<1>4. Tail(s) = <<>> <=> Len(Tail(s)) = 0
  BY <1>2
<1> DEFINE n == Len(s)
<1>5. /\ 1 \in 1 .. n /\ (n - 1 = 0 <=> n = 1)
      /\ \A i \in 1 .. n - 1 : i + 1 \in 1 .. n /\ (i + 1 = n <=> i = n - 1)
  <2> HIDE DEF n
  <2> QED BY <1>1 DEF n
<1>6. 1 .. Len(Tail(s)) = 1 .. Len(s) - 1
  BY Zenon, <1>2
<1>7. ASSUME NEW i \in 1 .. Len(Tail(s))
      PROVE  i + 1 \in 1 .. Len(s) /\ Tail(s)[i] = s[i + 1] /\ (i + 1 = Len(s) <=> i = Len(Tail(s)))
  BY Zenon, <1>2, <1>3, <1>5, <1>6
<1>8. 1 \in 1 .. Len(s) /\ (Tail(s) = <<>> <=> Len(s) = 1)
  BY Zenon, <1>2, <1>4, <1>5
<1> QED BY Zenon, <1>1, <1>2, <1>7, <1>8

\* The FIFO with the beat that is on channel D: a cycle only takes from it.
LEMMA FifoTick ==
    ASSUME LockInv, NEW in \in Inputs, Tick(in)
    PROVE  /\ refill_fifo_ready => refill_fifo' = Tail(refill_fifo)
           /\ ~refill_fifo_ready => refill_fifo' = refill_fifo
           /\ refill'.beat_saved => d_refill /\ d.last /\ d' = d
           /\ refill_locking => refill'.state = "Progress"
           /\ ~refill_locking /\ refill_done => refill'.state = "Idle"
           /\ ~refill_locking /\ ~refill_done => refill'.state = refill.state
           /\ refill_locking => refill_fifo # <<>>
<1>1. RefillStep(in) /\ d' = (IF d_ready(in) THEN None ELSE d)
  BY Zenon DEF Tick, ManagerSees
<1>2. /\ refill'.fifo = (IF refill_fifo_ready THEN Tail(refill_fifo) ELSE refill_fifo)
      /\ refill'.beat_saved = (d_refill /\ ~d_ready(in))
      /\ refill'.state = CASE refill_locking -> "Progress" [] refill_done -> "Idle" [] OTHER -> refill.state
  BY Zenon, <1>1 DEF RefillStep
<1>3. ~d_ready(in) => d_refill /\ d.last
  BY Zenon DEF d_ready, e_valid
<1>4. ~refill_fifo_insert'
  BY Zenon, <1>1, <1>2, <1>3 DEF refill_fifo_insert, d_refill, None
<1>5. refill_fifo' = refill'.fifo
  BY Zenon, <1>4 DEF refill_fifo
<1>6. refill_locking => refill_fifo # <<>> /\ ~refill_done
  BY Zenon DEF refill_locking, refill_lock_acq, refill_fifo_valid, refill_done, refill_fifo_ready
<1> QED BY Zenon, <1>1, <1>2, <1>3, <1>5, <1>6

\* While a grant is on its way nothing is reported about its line.
LEMMA HeldKept ==
    ASSUME LockInv, Probes, Reports, Beats, Granting, NEW in \in Inputs, Tick(in)
    PROVE  held'[main.line] = held[main.line]
<1>1. TypeOK /\ ManagerSees(in) /\ wb.line \in Lines /\ main.line \in Lines
  BY Zenon DEF Tick, LockInv, TypeOK, WbRegs, MainRegs
<1>2. CASE c_valid /\ in.c_ready /\ c_last
  <2>1. held' = [held EXCEPT ![wb.line] = ReportPerm(wb.param)] /\ wb.state = "Progress"
    BY Zenon, <1>1, <1>2 DEF ManagerSees, c_valid
  <2>2. CASE IsRelease(wb.opcode)
    BY Zenon, <1>1, <2>1, <2>2 DEF Reports, Releasing, TypeOK
  <2>3. CASE ~IsRelease(wb.opcode)
    <3>1. Answering /\ probing = OnLine(wb.line) /\ b = None
      BY Zenon, <2>1, <2>3 DEF Answering, Probes
    <3>2. probing # OnLine(main.line)
      BY Zenon, <3>1 DEF Granting, Beats
    <3> QED BY Zenon, <1>1, <2>1, <3>1, <3>2 DEF TypeOK
  <2> QED BY Zenon, <2>2, <2>3
<1>3. CASE ~(c_valid /\ in.c_ready /\ c_last)
  BY Zenon, <1>1, <1>3 DEF ManagerSees
<1> QED BY Zenon, <1>2, <1>3

\* What a clock cycle does to the transaction of the miss machine.
LEMMA AcqTick ==
    ASSUME NEW in \in Inputs, Tick(in)
    PROVE  /\ a_valid /\ in.a_ready /\ miss.state = "Fill" =>
                /\ acq' # None /\ acq'.line = main.line /\ acq'.param = a_param /\ acq'.phase = "req"
                /\ ~acq'.with_data /\ ~acq'.denied /\ acq'.beat = 0
           /\ ~(a_valid /\ in.a_ready /\ miss.state = "Fill") => acq' = acq
           /\ probing' = probing \/ probing' = None
           /\ b' = (IF probe_locking THEN None ELSE b)
<1>1. ManagerSees(in)
  BY Zenon DEF Tick
<1> DEFINE r == [kind |-> "acq", line |-> main.line, param |-> a_param, phase |-> "req",
                 cap |-> "toN", with_data |-> FALSE, denied |-> FALSE, beat |-> 0]
<1>2. /\ r.kind = "acq" /\ r.line = main.line /\ r.param = a_param /\ r.phase = "req"
      /\ ~r.with_data /\ ~r.denied /\ r.beat = 0
  BY Zenon
<1>3. acq' = (IF a_valid /\ in.a_ready /\ miss.state = "Fill" THEN r ELSE acq)
  BY Zenon, <1>1 DEF ManagerSees
<1> HIDE DEF r
<1>4. r # None
  BY <1>2 DEF None
<1>5. probing' = probing \/ probing' = None
  BY Zenon, <1>1 DEF ManagerSees
<1> QED BY Zenon, <1>1, <1>2, <1>3, <1>4, <1>5 DEF ManagerSees

\* Where the FIFO's beats were a cycle earlier: none is new and the order is kept.
LEMMA FifoShrinks ==
    ASSUME LockInv, NEW in \in Inputs, Tick(in)
    PROVE  /\ refill_fifo \in Seq(Beat) /\ refill_fifo' \in Seq(Beat)
           /\ Len(refill_fifo) \in Nat /\ Len(refill_fifo') \in Nat /\ Len(refill_fifo') <= Len(refill_fifo)
           /\ refill_fifo' # <<>> => refill_fifo # <<>>
           /\ refill_fifo # <<>> => Len(refill_fifo) # 0
           /\ \A i \in 1 .. Len(refill_fifo') : \E j \in 1 .. Len(refill_fifo) :
                refill_fifo'[i] = refill_fifo[j] /\ (j = Len(refill_fifo) <=> i = Len(refill_fifo'))
<1>1. refill_fifo \in Seq(Beat)
  BY Zenon, FifoTypes DEF LockInv
<1>2. CASE refill_fifo_ready
  <2>1. refill_fifo # <<>> /\ refill_fifo' = Tail(refill_fifo)
    BY Zenon, <1>2, FifoTick, Signals
  <2>2. /\ Len(refill_fifo) \in Nat \ {0} /\ refill_fifo' \in Seq(Beat) /\ Len(refill_fifo') = Len(refill_fifo) - 1
        /\ \A i \in 1 .. Len(refill_fifo') : i + 1 \in 1 .. Len(refill_fifo) /\ refill_fifo'[i] = refill_fifo[i + 1]
        /\ \A i \in 1 .. Len(refill_fifo') : i + 1 = Len(refill_fifo) <=> i = Len(refill_fifo')
    BY Zenon, <1>1, <2>1, TailFacts
  <2>3. Len(refill_fifo') \in Nat /\ Len(refill_fifo') <= Len(refill_fifo) /\ Len(refill_fifo) # 0
    <3> DEFINE n == Len(refill_fifo)  m == Len(refill_fifo')
    <3>1. n \in Nat \ {0} /\ m = n - 1
      BY Zenon, <2>2
    <3> HIDE DEF n, m
    <3>2. m \in Nat /\ m <= n /\ n # 0
      BY <3>1
    <3> QED BY Zenon, <3>2 DEF n, m
  <2> QED BY Zenon, <1>1, <2>1, <2>2, <2>3
<1>3. CASE ~refill_fifo_ready
  <2>1. refill_fifo' = refill_fifo
    BY Zenon, <1>3, FifoTick
  <2>2. Len(refill_fifo) \in Nat /\ Len(refill_fifo) <= Len(refill_fifo) /\ (refill_fifo # <<>> => Len(refill_fifo) # 0)
    BY <1>1
  <2> QED BY Zenon, <1>1, <2>1, <2>2
<1> QED BY Zenon, <1>2, <1>3

\* A miss is over only when its last beat is.
LEMMA GrantWaits ==
    ASSUME LockInv, Phases, Beats, NEW in \in Inputs, Tick(in), acq' # None \/ refill_fifo' # <<>>
    PROVE  miss.state = "Fill" /\ ~refill_done
<1>1. refill_fifo \in Seq(Beat)
  BY Zenon, FifoTypes DEF LockInv
<1>2. refill_done =>
        /\ refill_fifo # <<>> /\ refill_fifo[1].last /\ 1 \in 1 .. Len(refill_fifo)
        /\ Tail(refill_fifo) = <<>> <=> Len(refill_fifo) = 1
        /\ refill_fifo' = Tail(refill_fifo)
  BY Zenon, <1>1, TailFacts, Signals, FifoTick DEF refill_done, refill_beat
<1>3. CASE a_valid /\ in.a_ready /\ miss.state = "Fill"
  <2>1. refill_fifo = <<>>
    BY Zenon, <1>3 DEF Beats, a_valid
  <2> QED BY Zenon, <1>2, <1>3, <2>1
<1>4. CASE acq' = acq /\ acq # None
  BY Zenon, <1>2, <1>4 DEF Beats
<1>5. CASE acq' = acq /\ acq = None
  <2>1. refill_fifo # <<>>
    BY Zenon, <1>5, FifoShrinks
  <2>2. refill_done => Len(refill_fifo) = 1
    BY Zenon, <1>2, <1>5 DEF Beats
  <2> QED BY Zenon, <1>2, <1>5, <2>1, <2>2 DEF Beats
<1> QED BY Zenon, <1>3, <1>4, <1>5, AcqTick

\* A clock cycle leaves the beats of the grant in order.
LEMMA TickBeats ==
    ASSUME LockInv, Phases, Probes, Reports, Beats, NEW in \in Inputs, Tick(in)
    PROVE  Beats'
<1>1. ASSUME acq' # None \/ refill_fifo' # <<>>
      PROVE  miss'.state = "Fill" /\ miss'.sent /\ main'.line = main.line
  <2>1. miss.state = "Fill" /\ ~refill_done
    BY Zenon, <1>1, GrantWaits
  <2>2. /\ miss'.state = "Fill" /\ main'.line = main.line
        /\ miss'.sent = (miss.sent \/ (a_valid /\ in.a_ready))
    BY Zenon, <2>1, FillStays
  <2>3. acq' = acq => acq # None \/ refill_fifo # <<>>
    BY Zenon, <1>1, FifoShrinks
  <2> QED BY Zenon, <2>1, <2>2, <2>3, AcqTick DEF Beats
<1>2. Granting => held'[main.line] = held[main.line]
  BY Zenon, HeldKept
<1>3. refill_fifo = <<>> => refill_fifo' = <<>> /\ ~refill_locking /\ ~refill_done
  BY Zenon, FifoShrinks, FifoTick, Signals
<1>4. CASE a_valid /\ in.a_ready /\ miss.state = "Fill"
  <2>1. refill_fifo = <<>> /\ acq = None /\ refill.state = "Idle"
    BY Zenon, <1>4 DEF Beats, a_valid
  <2>2. refill_fifo' = <<>> /\ refill'.state = "Idle" /\ acq' # None /\ acq'.beat = 0 /\ acq'.line = main.line
        /\ acq'.phase = "req" /\ ~acq'.with_data /\ ~acq'.denied
    BY Zenon, <1>3, <1>4, <2>1, FifoTick, AcqTick
  <2>3. Len(refill_fifo') = 0 /\ 1 .. Len(refill_fifo') = {}
    BY <2>2
  <2>4. Len(refill_fifo') <= acq'.beat
    BY <2>2, <2>3
  <2>5. refill'.beat_saved => d_refill' /\ d'.last
    BY Zenon, FifoTick DEF d_refill
  <2> QED BY Zenon, <1>1, <2>2, <2>3, <2>4, <2>5 DEF Beats
<1>5. CASE acq' = acq
  <2>1. (acq # None \/ refill_fifo # <<>> => miss.state = "Fill" /\ miss.sent)'
    BY Zenon, <1>1
  <2>2. ASSUME acq # None
        PROVE  /\ acq.line = main'.line /\ Len(refill_fifo') <= acq.beat
               /\ \A i \in 1 .. Len(refill_fifo') : ~refill_fifo'[i].last
               /\ acq.phase = "req" => acq.beat = 0 /\ refill'.state = "Idle"
    <3>1. main'.line = main.line
      BY Zenon, <1>1, <1>5, <2>2
    <3>2. /\ acq.line = main.line /\ Len(refill_fifo) <= acq.beat
          /\ \A i \in 1 .. Len(refill_fifo) : ~refill_fifo[i].last
          /\ acq.phase = "req" => acq.beat = 0 /\ refill.state = "Idle"
      BY Zenon, <2>2 DEF Beats
    <3>3. Len(refill_fifo') <= acq.beat
      <4>1. acq.beat \in Int
        BY <2>2 DEF LockInv, TypeOK, AcqRecords, NoneSet, None, Words
      <4> DEFINE n == Len(refill_fifo)  m == Len(refill_fifo')  k == acq.beat
      <4>2. n \in Nat /\ m \in Nat /\ m <= n /\ n <= k /\ k \in Int
        BY Zenon, <3>2, <4>1, FifoShrinks
      <4> HIDE DEF n, m, k
      <4>3. m <= k
        BY <4>2
      <4> QED BY Zenon, <4>3 DEF m, k
    <3>4. \A i \in 1 .. Len(refill_fifo') : ~refill_fifo'[i].last
      BY Zenon, <3>2, FifoShrinks
    <3>5. acq.phase = "req" => refill_fifo = <<>>
      <4>1. acq.phase = "req" => Len(refill_fifo) = 0
        <5> DEFINE n == Len(refill_fifo)
        <5>1. n \in Nat /\ (acq.phase = "req" => n <= 0)
          BY Zenon, <3>2, FifoShrinks
        <5> HIDE DEF n
        <5>2. acq.phase = "req" => n = 0
          BY <5>1
        <5> QED BY Zenon, <5>2 DEF n
      <4> QED BY Zenon, <4>1, FifoShrinks
    <3>6. acq.phase = "req" => refill'.state = "Idle"
      BY Zenon, <1>3, <3>2, <3>5, FifoTick
    <3> QED BY Zenon, <3>1, <3>2, <3>3, <3>4, <3>6
  <2>3. ASSUME acq # None, acq.phase = "grant"
        PROVE  Agrees(acq.denied, acq.cap)' /\ probing' # OnLine(acq'.line)
    <3>1. held'[main.line] = held[main.line] /\ main'.line = main.line
      BY Zenon, <1>1, <1>2, <1>5, <2>3 DEF Granting
    <3>2. Agrees(acq.denied, acq.cap) /\ probing # OnLine(acq.line)
      BY Zenon, <2>3 DEF Beats
    <3>3. OnLine(acq.line) # None
      BY DEF OnLine, None
    <3> QED BY Zenon, <1>5, <3>1, <3>2, <3>3, AcqTick DEF Agrees
  <2>4. ASSUME acq = None
        PROVE  /\ Len(refill_fifo') <= NumBeats
               /\ \A i \in 1 .. Len(refill_fifo') : refill_fifo'[i].last <=> i = Len(refill_fifo')
               /\ refill_fifo' = <<>> => refill'.state = "Idle"
    <3>1. /\ Len(refill_fifo) <= NumBeats
          /\ \A i \in 1 .. Len(refill_fifo) : refill_fifo[i].last <=> i = Len(refill_fifo)
          /\ refill_fifo = <<>> => refill.state = "Idle"
      BY Zenon, <2>4 DEF Beats
    <3>2. Len(refill_fifo') <= NumBeats
      <4> DEFINE n == Len(refill_fifo)  m == Len(refill_fifo')
      <4>1. n \in Nat /\ m \in Nat /\ m <= n /\ n <= NumBeats
        BY Zenon, <3>1, FifoShrinks
      <4> HIDE DEF n, m
      <4>2. m <= NumBeats
        BY <4>1, DCacheAssumption
      <4> QED BY Zenon, <4>2 DEF m
    <3>3. \A i \in 1 .. Len(refill_fifo') : refill_fifo'[i].last <=> i = Len(refill_fifo')
      BY Zenon, <3>1, FifoShrinks
    <3>4. ASSUME refill_fifo' = <<>>, refill_fifo # <<>> PROVE refill_done /\ ~refill_locking
      <4>1. refill_fifo_ready /\ refill_fifo' = Tail(refill_fifo)
        BY Zenon, <3>4, FifoTick
      <4>2. Len(refill_fifo) = 1 /\ 1 \in 1 .. Len(refill_fifo) /\ refill_beat = refill_fifo[1]
        BY Zenon, <3>4, <4>1, TailFacts, FifoShrinks DEF refill_beat
      <4>3. refill_beat.last
        BY Zenon, <3>1, <4>2
      <4>4. refill.state = "Progress"
        BY Zenon, <4>1, Signals
      <4> QED BY Zenon, <4>1, <4>3, <4>4 DEF refill_done, refill_locking, refill_lock_acq
    <3> QED BY Zenon, <1>3, <3>1, <3>2, <3>3, <3>4, FifoTick
  <2>5. ASSUME NEW i \in 1 .. Len(refill_fifo') PROVE Agrees(refill_fifo'[i].denied, refill_fifo'[i].param)
    <3>1. PICK j \in 1 .. Len(refill_fifo) : refill_fifo'[i] = refill_fifo[j]
      BY Zenon, FifoShrinks
    <3> QED BY Zenon, <3>1 DEF Beats
  <2>6. ASSUME NEW i \in 1 .. Len(refill_fifo') PROVE Agrees(refill_fifo[i].denied, refill_fifo[i].param)'
    <3>1. refill_fifo' # <<>>
      BY <2>6
    <3>2. held'[main.line] = held[main.line] /\ main'.line = main.line
      BY Zenon, <1>1, <1>2, <3>1, FifoShrinks DEF Granting
    <3> QED BY Zenon, <2>5, <3>2 DEF Agrees
  <2>7. ASSUME refill_fifo' # <<>>, probing' = OnLine(main'.line) PROVE b' # None
    <3>1. OnLine(main'.line) # None
      BY DEF OnLine, None
    <3>2. probing' = probing /\ main'.line = main.line /\ refill_fifo # <<>>
      BY Zenon, <1>1, <2>7, <3>1, AcqTick, FifoShrinks
    <3>3. b # None
      BY Zenon, <2>7, <3>2 DEF Beats
    <3> QED BY Zenon, <3>2, <3>3, AcqTick, Signals
  <2>8. refill'.beat_saved => d_refill' /\ d'.last
    BY Zenon, FifoTick DEF d_refill
  <2>9. acq # None /\ acq.phase = "req" => ~acq.with_data /\ ~acq.denied
    BY Zenon DEF Beats
  <2> QED BY Zenon, <1>5, <2>1, <2>2, <2>3, <2>4, <2>6, <2>7, <2>8, <2>9 DEF Beats
<1> QED BY Zenon, <1>4, <1>5, AcqTick

-----------------------------------------------------------------------------
(* Steps of the environment *)

\* Between two clock cycles the cache itself stands still.
LEMMA CacheStill ==
    ASSUME UNCHANGED <<sram, regs>>, TagsRead, Phases, Absent, OneCopyPerLine
    PROVE  TagsRead' /\ Phases' /\ Absent' /\ OneCopyPerLine'
<1>1. /\ tags' = tags /\ tag_rd' = tag_rd /\ tag_rd_addr' = tag_rd_addr
      /\ wb' = wb /\ probe' = probe /\ flush' = flush /\ miss' = miss /\ main' = main
  BY Zenon DEF sram, regs
<1>2. TagsRead' /\ Phases'
  BY Zenon, <1>1 DEF TagsRead, Phases
<1>3. Absent' /\ OneCopyPerLine'
  BY Zenon, <1>1 DEF Absent, Copies, OneCopyPerLine
<1> QED BY Zenon, <1>2, <1>3

\* Reports depends on these registers and on the record of the line that is written back.
LEMMA ReportsStill ==
    ASSUME UNCHANGED <<sram, regs>>, wb.state = "Progress" => held'[wb.line] = held[wb.line], Reports
    PROVE  Reports'
<1>1. tags' = tags /\ wb' = wb /\ miss' = miss /\ main' = main
  BY Zenon DEF sram, regs
<1>2. Releasing' <=> Releasing
  BY Zenon, <1>1 DEF Releasing
<1>3. wb'.state = "Progress" => Within(wb.line, ReportPerm(wb.param))'
  BY Zenon, <1>1 DEF Reports, Within, Copies
<1>4. wb'.state = "Progress" => PermLeq(ReportPerm(wb.param), held[wb.line])'
  BY Zenon, <1>1 DEF Reports, PermLeq
<1> QED BY Zenon, <1>1, <1>2, <1>3, <1>4 DEF Reports

\* Granted depends on the tags and on the record.
LEMMA GrantedStill ==
    ASSUME UNCHANGED <<sram, regs>>, held' = held, Granted PROVE Granted'
<1>1. tags' = tags /\ flush' = flush
  BY Zenon DEF sram, regs
<1> QED BY Zenon, <1>1 DEF Granted, Within, Copies

\* Probes depends on these registers.
LEMMA ProbesStill ==
    ASSUME UNCHANGED regs, b' = b, probing' = probing, Probes PROVE Probes'
<1>1. wb' = wb /\ probe' = probe
  BY Zenon DEF regs
<1> QED BY Zenon, <1>1 DEF Probes, Answering, Releasing

\* A message on channel D that is not a beat leaves the FIFO alone.
LEMMA FifoStill ==
    ASSUME LockInv, refill' = refill, Beats, d' = d \/ (d = None /\ ~d_refill')
    PROVE  refill_fifo' = refill_fifo /\ (refill'.beat_saved => d_refill' /\ d'.last)
<1>1. CASE d' = d
  BY Zenon, <1>1 DEF refill_fifo, refill_fifo_insert, d_refill, Beats
<1>2. CASE d = None /\ ~d_refill'
  <2>1. ~d_refill
    BY Zenon, <1>2 DEF d_refill, None
  <2> QED BY Zenon, <1>2, <2>1 DEF refill_fifo, refill_fifo_insert, Beats
<1> QED BY Zenon, <1>1, <1>2

\* Beats depends on these registers, the FIFO and the record of the line that is waited for.
LEMMA BeatsStill ==
    ASSUME LockInv, UNCHANGED <<refill, miss, acq, held>>, main'.line = main.line,
           d' = d \/ (d = None /\ ~d_refill'), Beats,
           b' = b \/ b' # None,
           probing' = probing \/ (b' # None /\ (acq # None /\ acq.phase = "grant" => probing' # OnLine(acq.line)))
    PROVE  Beats'
<1>1. refill_fifo' = refill_fifo /\ (refill'.beat_saved => d_refill' /\ d'.last)
  BY Zenon, FifoStill
<1>2. refill' = refill /\ miss' = miss /\ acq' = acq /\ held' = held
  BY Zenon
<1>3. (acq # None \/ refill_fifo # <<>> => miss.state = "Fill" /\ miss.sent)'
  BY Zenon, <1>1, <1>2 DEF Beats
<1>4. acq # None => /\ acq.line = main.line /\ Len(refill_fifo) <= acq.beat
                    /\ \A i \in 1 .. Len(refill_fifo) : ~refill_fifo[i].last
                    /\ acq.phase = "req" => acq.beat = 0 /\ refill.state = "Idle"
                    /\ acq.phase = "req" => ~acq.with_data /\ ~acq.denied
  BY Zenon DEF Beats
<1>5. ASSUME acq # None, acq.phase = "grant"
      PROVE  Agrees(acq.denied, acq.cap)' /\ probing' # OnLine(acq.line)
  <2>1. Agrees(acq.denied, acq.cap) /\ probing # OnLine(acq.line)
    BY Zenon, <1>5 DEF Beats
  <2> QED BY Zenon, <1>2, <1>5, <2>1 DEF Agrees
<1>6. acq = None => /\ Len(refill_fifo) <= NumBeats
                    /\ \A i \in 1 .. Len(refill_fifo) : refill_fifo[i].last <=> i = Len(refill_fifo)
                    /\ refill_fifo = <<>> => refill.state = "Idle"
  BY Zenon DEF Beats
<1>7. \A i \in 1 .. Len(refill_fifo) : Agrees(refill_fifo[i].denied, refill_fifo[i].param)
  BY Zenon DEF Beats
<1>8. ASSUME NEW i \in 1 .. Len(refill_fifo') PROVE Agrees(refill_fifo[i].denied, refill_fifo[i].param)'
  BY Zenon, <1>1, <1>2, <1>7 DEF Agrees
<1>9. (refill_fifo # <<>> /\ probing = OnLine(main.line) => b # None)'
  BY Zenon, <1>1 DEF Beats
<1> QED BY Zenon, <1>1, <1>2, <1>3, <1>4, <1>5, <1>6, <1>8, <1>9 DEF Beats
===============================================================================
