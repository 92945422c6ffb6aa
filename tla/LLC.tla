-------------------------------- MODULE LLC --------------------------------
(***************************************************************************)
(* muntjac_llc.sv: the inclusive last-level cache with a directory, in its *)
(* default configuration of one Acquire, one writeback and one Release     *)
(* tracker.  One Tick is one clock cycle: the three trackers step together *)
(* and compete for the tag and the data SRAM by priority.                  *)
(*                                                                         *)
(* A burst is one message: the loop over its beats, which treats them all  *)
(* alike, is left out, and a line holds one value.  What is done with a    *)
(* beat (write it, forward it, acknowledge it) keeps its own handshakes.   *)
(* A register slice of the source is a slot that is ready when empty.  The *)
(* last beat of a burst may find it full with the beat before: stall says  *)
(* where that happens in this cycle.                                       *)
(*                                                                         *)
(* The environment is the hosts, which hold lines and answer probes as     *)
(* muntjac_dcache does, a client that only reads and writes (Dma), and the *)
(* device below, which grants whatever is asked for.  golden is the latest *)
(* value written to a line.                                                *)
(***************************************************************************)
EXTENDS Integers, FiniteSets, TileLink

CONSTANTS Tags, Sets, NumWays,
          NumHosts,            \* caching hosts, NumCachedHosts in the source
          NumValues,
          PowerUpValid,        \* the tag SRAM may power up with valid entries
          Scenes               \* environments, each with the
                               \*   tags   of the lines that are used,
                               \*   grows  that the hosts ask for,
                               \*   dma    operations of the non-caching client,
                               \*   probes from below: their caps,
                               \*   stalls: where a burst may pause, "d" or "dev_c"

ASSUME LLCAssumption ==
    /\ Tags # {} /\ NumWays \in Nat \ {0} /\ NumHosts \in Nat /\ NumValues \in Nat \ {0}
    /\ IsFiniteSet(Sets) /\ Sets # {} /\ Sets = 0 .. Cardinality(Sets) - 1
    /\ PowerUpValid \in BOOLEAN
    /\ Scenes # {}
    /\ Scenes \subseteq [tags : SUBSET Tags, grows : SUBSET GrowParams, dma : SUBSET {"Get", "GetLine", "Put"},
                        probes : SUBSET {"toN", "toB"}, stalls : SUBSET {"d", "dev_c"}]

Hosts == 0 .. NumHosts - 1
Dma == NumHosts
Ways == 1 .. NumWays
Values == 0 .. NumValues - 1
Lines == Tags \X Sets
TagOf(line) == line[1]
SetOf(line) == line[2]
None == [kind |-> "none"]
NoLine == CHOOSE line \in Lines : TRUE

VARIABLES
    tags, data,                 \* the SRAMs
    tag_rd, tag_rd_line, tag_rd_fallback, data_rd,
    acq, wb, rel, seq, flush,   \* trackers, probe sequencer, reset
    a, c, e, d,                 \* host channels; d has one slot per tracker
    stall,
    dev_b, dev_c, dev_d,        \* device channels
    dev_acq, dev_unacked, dev_rel, dev_probing, dev_held, mem,   \* the device
    perm, copy, dirty,          \* the hosts' copies
    asked, releasing, probed,   \* and their outstanding transactions
    golden,
    scene                       \* the environment: never changes

sram == <<tags, data, tag_rd, tag_rd_line, tag_rd_fallback, data_rd>>
regs == <<acq, wb, rel, seq, flush>>
hostlink == <<a, c, e, d, stall>>
device == <<dev_b, dev_c, dev_d, dev_acq, dev_unacked, dev_rel, dev_probing, dev_held, mem>>
hosts == <<perm, copy, dirty, asked, releasing, probed>>
vars == <<sram, regs, hostlink, device, hosts, golden, scene>>

TagEntry == [tag : Tags, owned : BOOLEAN, mask : SUBSET Hosts, dirty : BOOLEAN,
             writable : BOOLEAN, valid : BOOLEAN]
NoEntry == [tag |-> CHOOSE t \in Tags : TRUE, owned |-> FALSE, mask |-> {}, dirty |-> FALSE,
            writable |-> FALSE, valid |-> FALSE]
Lowest(S) == CHOOSE x \in S : \A y \in S : x <= y
Highest(S) == CHOOSE x \in S : \A y \in S : x >= y

-----------------------------------------------------------------------------
(* Tag check: of the entries read in the cycle before *)

hit == {w \in Ways : tag_rd[w].valid /\ tag_rd[w].tag = TagOf(tag_rd_line)}
hit_way == IF hit # {} THEN Lowest(hit)
           ELSE LET empty == {w \in Ways : ~tag_rd[w].valid}
                IN  IF empty # {} THEN Lowest(empty) ELSE tag_rd_fallback
hit_tag == tag_rd[hit_way]

-----------------------------------------------------------------------------
(* Which tracker may start, and which one a message goes to *)

acq_valid == acq.state # "Idle"
wb_valid == wb.state # "Idle"
rel_valid == rel.state # "Idle"
acq_victim == <<acq.tag.tag, SetOf(acq.line)>>

acq_wb_req == acq.state = "Wb" /\ ~acq.wb_sent
wb_req_valid == acq_wb_req \/ dev_b # None
wb_req == IF acq_wb_req THEN [release |-> TRUE, param |-> "toN", line |-> acq_victim]
          ELSE [release |-> FALSE, param |-> dev_b.param, line |-> dev_b.line]

wb_req_blocked_Refill ==
    \/ acq_valid /\ acq.line = wb_req.line
    \/ wb_valid /\ wb.line = wb_req.line
    \/ rel_valid /\ rel.line = wb_req.line
    \/ c # None /\ c.line = wb_req.line
wb_req_blocked ==
    \/ acq_valid /\ acq.state # "Fill" /\ acq.line = wb_req.line
    \/ wb_valid /\ wb.line = wb_req.line
    \/ rel_valid /\ rel.line = wb_req.line
    \/ c # None /\ c.line = wb_req.line
wb_accept == wb.state = "Idle" /\ wb_req_valid /\ ~wb_req_blocked

host_a_blocked ==
    \/ wb_valid /\ wb.line = a.line
    \/ rel_valid /\ rel.line = a.line
    \/ wb_req_valid /\ wb_req.line = a.line
    \/ c # None /\ c.line = a.line
\* A message for the set of a busy tracker goes to that tracker, which takes
\* it only if it is the data of the Put it serves.
acq_a_valid ==
    a # None /\ IF acq_valid THEN SetOf(acq.line) = SetOf(a.line) ELSE ~host_a_blocked

c_is_for(t) == c # None /\ t.state # "Idle" /\ t.line = c.line
acq_c_valid == c_is_for(acq)
wb_c_valid == c_is_for(wb)
rel_c_valid == c # None /\ IF acq_c_valid \/ wb_c_valid \/ c_is_for(rel) THEN c_is_for(rel)
                            ELSE ~rel_valid

acq_d_valid == dev_d.kind \in {"Grant", "GrantData"}
wb_d_valid == dev_d.kind = "ReleaseAck"

-----------------------------------------------------------------------------
(* What a tracker has to do with the message before it, and the ports it    *)
(* needs for that.  The message is held until all of it is done; done keeps *)
(* what was done in earlier cycles (the beat_written, beat_forwarded and    *)
(* beat_acked flags).                                                       *)

If(condition, effect) == IF condition THEN {effect} ELSE {}
\* Operations whose reply is the whole line.
forwardable == acq.op \in {"AcquireBlock", "GetLine"}

acq_beat ==
    \/ acq.state = "Probe" /\ acq_c_valid
    \/ acq.state = "Fill" /\ acq_d_valid
    \/ acq.state = "Put" /\ acq_a_valid
acq_needs ==
    CASE acq.state = "Probe" -> If(HasCData(c.kind), "write") \cup If(IsRelease(c.kind), "ack")
                                \cup If(c.kind = "ProbeAckData" /\ forwardable, "forward")
      [] acq.state = "Fill" -> If(dev_d.kind = "GrantData", "write") \cup {"grantack"}
                               \cup If(dev_d.kind = "GrantData" /\ forwardable, "forward")
      [] acq.state = "Put" -> {"write", "ack"}
acq_value == CASE acq.state = "Probe" -> c.value [] acq.state = "Fill" -> dev_d.value
               [] acq.state = "Put" -> a.value
acq_reading == acq.state = "Get" /\ ~acq.rdata_valid

wb_beat == wb.state = "Probe" /\ wb_c_valid
wb_needs_NoAck == If(HasCData(c.kind) /\ wb.param = "TtoB", "write") \cup If(HasCData(c.kind), "forward")
wb_needs == If(HasCData(c.kind) /\ wb.param = "TtoB", "write")
            \cup If(HasCData(c.kind), "forward") \cup If(IsRelease(c.kind), "ack")
wb_reading == wb.state = "DoData" /\ ~wb.rdata_valid

rel_beat == rel.state = "Do" /\ rel_c_valid
rel_needs == If(c.kind = "ReleaseData", "write") \cup {"ack"}

\* The data SRAM serves the Acquire tracker first, then writeback, then Release.
data_gnt ==
    IF acq_reading \/ (acq_beat /\ "write" \in acq_needs \ acq.done) THEN "acq"
    ELSE IF wb_reading \/ (wb_beat /\ "write" \in wb_needs \ wb.done) THEN "wb"
    ELSE IF rel_beat /\ "write" \in rel_needs \ rel.done THEN "rel" ELSE "none"

\* So does the tag SRAM, after the reset that clears it.  The source takes its
\* request back in the last cycle of the reset.
flush_tag_req == flush.state = "Reset" /\ flush.index + 1 \in Sets
tag_gnt ==
    IF flush_tag_req THEN "flush"
    ELSE IF acq.state \in {"ReadTag", "UpdateTag"} THEN "acq"
    ELSE IF wb.state \in {"ReadTag", "UpdateTag"} THEN "wb"
    ELSE IF rel.state \in {"ReadTag", "UpdateTag"} THEN "rel" ELSE "none"

\* Effects that happen in this cycle.
acq_now == If(data_gnt = "acq", "write") \cup {"grantack"}
           \cup If(d.acq = None, "ack") \cup If(d.acq = None /\ "d" \notin stall, "forward")
wb_now == If(data_gnt = "wb", "write") \cup If(d.wb = None, "ack")
          \cup If(dev_c = None /\ "dev_c" \notin stall, "forward")
rel_now == If(data_gnt = "rel", "write") \cup If(d.rel = None, "ack")
acq_taken == acq_beat /\ acq_needs \subseteq acq.done \cup acq_now
wb_taken == wb_beat /\ wb_needs \subseteq wb.done \cup wb_now
rel_taken == rel_beat /\ rel_needs \subseteq rel.done \cup rel_now
\* The flags after a cycle in which the message stayed or went.
Held(done, needs, now, taken) == IF taken THEN {} ELSE done \cup (needs \cap now)

-----------------------------------------------------------------------------
(* The probe sequencer *)

acq_probe_req == acq.state = "Probe" /\ ~acq.probe_sent
wb_probe_req == wb.state = "Probe" /\ ~wb.probe_sent
acq_probe_ready == acq_probe_req /\ seq.pending = {}
wb_probe_ready == wb_probe_req /\ ~acq_probe_req /\ seq.pending = {}

SeqReset == [pending |-> {}, line |-> NoLine, param |-> "toN"]

SeqStep ==
    seq' = CASE acq_probe_ready -> [pending |-> acq.tag.mask, line |-> acq_victim,
                                    param |-> IF acq.param = "toT" THEN "toN" ELSE "toB"]
             [] wb_probe_ready -> [pending |-> wb.tag.mask, line |-> wb.line,
                                   param |-> IF wb.param = "TtoB" THEN "toB" ELSE "toN"]
             [] OTHER -> seq

-----------------------------------------------------------------------------
(* Writeback tracker *)

WbReset == [state |-> "Idle", way |-> 1, line |-> NoLine, release |-> FALSE,
            param |-> "toN", tag |-> NoEntry, probe_sent |-> FALSE, data_sent |-> FALSE,
            acked |-> FALSE, done |-> {}, rdata_valid |-> FALSE, skid_valid |-> FALSE, skid |-> 0]

\* No copy is left above: send the line if it is dirty, else say that it is
\* gone; a clean line that is evicted goes silently (ReleaseDirty).
WbSend_Silent(t) ==
    IF t.release THEN [t EXCEPT !.state = "Done", !.acked = TRUE]
    ELSE IF t.tag.dirty THEN [t EXCEPT !.state = "DoData"]
    ELSE [t EXCEPT !.state = "Do"]
WbSend(t) ==
    IF t.tag.dirty THEN [t EXCEPT !.state = "DoData"]
    ELSE IF t.release THEN [t EXCEPT !.state = "Done", !.acked = TRUE]
    ELSE [t EXCEPT !.state = "Do"]

wb_must_probe_OwnerOnly == hit_tag.owned
wb_must_probe == IF wb.param = "toN" THEN hit_tag.mask # {} ELSE hit_tag.owned

wb_checked ==
    IF hit = {} THEN IF wb.release THEN [wb EXCEPT !.param = "NtoN", !.acked = TRUE, !.state = "Done"]
                     ELSE [wb EXCEPT !.param = "NtoN", !.state = "Do"]
    ELSE LET t == [wb EXCEPT !.way = hit_way, !.tag = hit_tag,
                             !.param = IF hit_tag.writable
                                       THEN IF @ = "toN" THEN "TtoN" ELSE "TtoB"
                                       ELSE IF @ = "toN" THEN "BtoN" ELSE "BtoB"]
         IN  IF wb_must_probe
             THEN [t EXCEPT !.state = "Probe"] ELSE WbSend(t)

\* What an answer to a probe, or a Release that crossed it, leaves of a tag.
Acknowledge_DropsSharer(tag) ==
    IF IsRelease(c.kind) THEN tag ELSE [tag EXCEPT !.owned = FALSE, !.mask = @ \ {c.host}]
Acknowledge(tag) ==
    IF IsRelease(c.kind) THEN tag
    ELSE [tag EXCEPT !.owned = FALSE,
                     !.mask = IF ReportPerm(c.param) = "N" THEN @ \ {c.host} ELSE @]

wb_probed ==
    LET t == [wb EXCEPT !.probe_sent = @ \/ wb_probe_ready,
                        !.done = Held(@, IF wb_beat THEN wb_needs ELSE {}, wb_now, wb_taken)]
        u == [t EXCEPT !.data_sent = @ \/ HasCData(c.kind), !.tag = Acknowledge(@)]
    IN  IF ~wb_taken THEN t
        ELSE IF (IF wb.param = "TtoB" THEN u.tag.owned ELSE u.tag.mask # {}) THEN u
        ELSE IF u.data_sent THEN [u EXCEPT !.state = "UpdateTag"] ELSE WbSend(u)

wb_sent_data ==
    CASE wb_reading -> [wb EXCEPT !.rdata_valid = data_gnt = "wb"]
      [] ~wb_reading /\ dev_c = None -> [wb EXCEPT !.state = "UpdateTag", !.rdata_valid = FALSE,
                                                  !.skid_valid = FALSE, !.skid = 0]
      [] OTHER -> [wb EXCEPT !.skid_valid = TRUE, !.skid = IF wb.skid_valid THEN @ ELSE data_rd]

wb_next ==
    CASE wb_accept -> [WbReset EXCEPT !.state = "ReadTag", !.line = wb_req.line, !.param = wb_req.param,
                                      !.release = wb_req.release, !.acked = ~wb_req.release]
      [] wb.state = "ReadTag" /\ tag_gnt = "wb" -> [wb EXCEPT !.state = "CheckTag"]
      [] wb.state = "CheckTag" -> wb_checked
      [] wb.state = "Probe" -> wb_probed
      [] wb.state = "DoData" -> wb_sent_data
      [] wb.state = "Do" /\ dev_c = None -> [wb EXCEPT !.state = IF wb.param = "NtoN" THEN "Done" ELSE "UpdateTag"]
      [] wb.state = "UpdateTag" /\ tag_gnt = "wb" -> [wb EXCEPT !.state = "Done"]
      [] wb.state = "Done" /\ wb.acked -> WbReset
      [] OTHER -> wb
wb_done == wb.state = "Done" /\ wb.acked

\* A ReleaseAck is noted in any state.
WbStep == wb' = IF wb_d_valid /\ wb_valid /\ ~wb_done THEN [wb_next EXCEPT !.acked = TRUE] ELSE wb_next

wb_update == IF wb.param \in {"BtoN", "TtoN"} THEN [wb.tag EXCEPT !.valid = FALSE]
             ELSE [wb.tag EXCEPT !.writable = FALSE]
wb_c_kind(with_data) == IF with_data THEN IF wb.release THEN "ReleaseData" ELSE "ProbeAckData"
                        ELSE IF wb.release THEN "Release" ELSE "ProbeAck"
wb_sends == \/ wb_beat /\ "forward" \in (wb_needs \ wb.done) \cap wb_now
            \/ wb.state = "DoData" /\ wb.rdata_valid
            \/ wb.state = "Do"
wb_message == [kind |-> wb_c_kind(wb.state # "Do"), line |-> wb.line, param |-> wb.param,
               value |-> CASE wb.state = "Probe" -> c.value [] wb.state = "Do" -> 0
                           [] wb.state = "DoData" -> IF wb.skid_valid THEN wb.skid ELSE data_rd]

-----------------------------------------------------------------------------
(* Release tracker *)

RelReset == [state |-> "Idle", line |-> NoLine, tag |-> NoEntry, way |-> 1, done |-> {}]

rel_checked ==
    IF hit = {} THEN [rel EXCEPT !.state = "Error"]
    ELSE LET mask == IF ReportPerm(c.param) = "N" THEN hit_tag.mask \ {c.host} ELSE hit_tag.mask
         IN  [rel EXCEPT !.state = "Do", !.way = hit_way,
                !.tag = [hit_tag EXCEPT
                           !.dirty = @ \/ c.kind = "ReleaseData", !.mask = mask,
                           !.owned = @ /\ c.param \notin {"TtoB", "TtoN"}
                                       /\ (ReportPerm(c.param) = "N" => mask # {})]]

rel_did ==
    LET t == [rel EXCEPT !.done = Held(@, IF rel_beat THEN rel_needs ELSE {}, rel_now, rel_taken)]
    IN  IF ~rel_taken THEN t
        ELSE IF c.param = "NtoN" THEN RelReset ELSE [t EXCEPT !.state = "UpdateTag"]

RelStep ==
    rel' = CASE rel.state = "Idle" /\ rel_c_valid ->
                  [RelReset EXCEPT !.state = IF c.param = "NtoN" THEN "Do" ELSE "ReadTag", !.line = c.line]
             [] rel.state = "ReadTag" /\ tag_gnt = "rel" -> [rel EXCEPT !.state = "CheckTag"]
             [] rel.state = "CheckTag" -> rel_checked
             [] rel.state = "Do" -> rel_did
             [] rel.state = "UpdateTag" /\ tag_gnt = "rel" -> RelReset
             [] OTHER -> rel

-----------------------------------------------------------------------------
(* Acquire tracker *)

AcqReset == [state |-> "Idle", op |-> "Get", param |-> "toB", line |-> NoLine,
             host |-> Dma, tag |-> NoEntry, way |-> 1, evict |-> 1, rtag_valid |-> FALSE,
             rdata_valid |-> FALSE, skid_valid |-> FALSE, skid |-> 0, wb_sent |-> FALSE,
             probe_sent |-> FALSE, refill_sent |-> FALSE, data_sent |-> FALSE,
             ack_done |-> FALSE, done |-> {}]

acq_start ==
    [AcqReset EXCEPT !.state = "ReadTag", !.op = a.kind, !.line = a.line, !.host = a.host,
                     !.evict = acq.evict, !.ack_done = a.kind # "AcquireBlock",
                     !.param = IF a.kind = "Put" \/ (a.kind = "AcquireBlock" /\ a.param # "NtoB")
                               THEN "toT" ELSE "toB"]

\* No way holds the line: its victim goes first if it is dirty or held above.
acq_missed_DirtyOnly ==
    [acq EXCEPT !.state = IF hit_tag.valid /\ hit_tag.dirty THEN "Wb" ELSE "Fill",
                !.way = hit_way, !.tag = [hit_tag EXCEPT !.valid = FALSE],
                !.evict = (@ % NumWays) + 1, !.rtag_valid = FALSE]
acq_missed ==
    [acq EXCEPT !.state = IF hit_tag.valid /\ (hit_tag.mask # {} \/ hit_tag.dirty) THEN "Wb" ELSE "Fill",
                !.way = hit_way, !.tag = [hit_tag EXCEPT !.valid = FALSE],
                !.evict = (@ % NumWays) + 1, !.rtag_valid = FALSE]

\* The holders of the line are probed if the requester's permission excludes
\* theirs.
acq_must_probe_OwnerKept(tag) ==
    /\ tag.mask # {}
    /\ IF acq.op = "AcquireBlock" /\ acq.param = "toT" THEN tag.mask # {acq.host} ELSE acq.op = "Put"
acq_must_probe(tag) ==
    /\ tag.mask # {}
    /\ IF acq.op = "AcquireBlock" /\ acq.param = "toT" THEN tag.mask # {acq.host}
       ELSE acq.op = "Put" \/ tag.owned

\* The line is here; a writer also needs the LLC to have write permission.
acq_served ==
    LET tag == IF acq.rtag_valid THEN hit_tag ELSE acq.tag
        mine == {acq.host} \cap Hosts
        acquire == acq.op = "AcquireBlock"
        must_probe == acq_must_probe(tag)
        exclusive == acquire /\ tag.mask = {} /\ tag.writable
        answer == IF acq.op = "Put" THEN "Put" ELSE IF acq.data_sent THEN "UpdateTag" ELSE "Get"
    IN  [acq EXCEPT
           !.state = IF must_probe THEN "Probe"
                     ELSE IF acq.param = "toT" /\ ~tag.writable THEN "Fill" ELSE answer,
           !.way = IF acq.rtag_valid THEN hit_way ELSE @,
           !.param = IF exclusive THEN "toT" ELSE @,
           !.tag = IF must_probe \/ ~acquire THEN tag
                   ELSE [tag EXCEPT !.mask = @ \cup mine,
                                    !.owned = @ \/ exclusive \/ (tag.mask # {} /\ acq.param = "toT")],
           !.rtag_valid = FALSE]

acq_held == [acq EXCEPT !.done = Held(@, IF acq_beat THEN acq_needs ELSE {}, acq_now, acq_taken)]

acq_probed ==
    LET t == [acq_held EXCEPT !.probe_sent = @ \/ acq_probe_ready]
        tag == [Acknowledge(t.tag) EXCEPT !.dirty = @ \/ HasCData(c.kind)]
    IN  IF ~acq_taken THEN t
        ELSE [t EXCEPT !.tag = tag, !.data_sent = @ \/ (c.kind = "ProbeAckData" /\ forwardable),
                       !.state = IF (IF acq.param = "toT" THEN tag.mask = {} ELSE ~tag.owned)
                                 THEN "CheckTag" ELSE @]

acq_filled ==
    IF ~acq_taken THEN [acq_held EXCEPT !.refill_sent = TRUE]
    ELSE [acq_held EXCEPT
            !.state = "CheckTag", !.data_sent = @ \/ (dev_d.kind = "GrantData" /\ forwardable),
            !.tag = [NoEntry EXCEPT !.tag = TagOf(acq.line), !.writable = dev_d.param = "toT", !.valid = TRUE]]

acq_got ==
    CASE acq_reading -> [acq EXCEPT !.rdata_valid = data_gnt = "acq"]
      [] ~acq_reading /\ d.acq = None -> [acq EXCEPT !.state = "UpdateTag", !.rdata_valid = FALSE,
                                                     !.skid_valid = FALSE, !.skid = 0]
      [] OTHER -> [acq EXCEPT !.skid_valid = TRUE, !.skid = IF acq.skid_valid THEN @ ELSE data_rd]

acq_put ==
    IF acq_taken THEN [acq_held EXCEPT !.state = "UpdateTag", !.tag = [@ EXCEPT !.dirty = TRUE]] ELSE acq_held

acq_next ==
    CASE acq.state = "Idle" /\ acq_a_valid -> acq_start
      [] acq.state = "ReadTag" /\ tag_gnt = "acq" -> [acq EXCEPT !.state = "CheckTag", !.rtag_valid = TRUE]
      [] acq.state = "CheckTag" -> IF acq.rtag_valid /\ hit = {} THEN acq_missed ELSE acq_served
      [] acq.state = "Probe" -> acq_probed
      [] acq.state = "Wb" -> [acq EXCEPT !.wb_sent = @ \/ wb_accept,
                                         !.state = IF wb_done /\ wb.release THEN "Fill" ELSE @]
      [] acq.state = "Fill" -> acq_filled
      [] acq.state = "Get" -> acq_got
      [] acq.state = "Put" -> acq_put
      [] acq.state = "UpdateTag" /\ tag_gnt = "acq" -> [acq EXCEPT !.state = "AckWait"]
      [] acq.state = "AckWait" /\ (acq.ack_done \/ e) -> [AcqReset EXCEPT !.evict = acq.evict]
      [] OTHER -> acq

\* A GrantAck is noted in any state.
AcqStep == acq' = IF e /\ acq.state \notin {"Idle", "AckWait"} THEN [acq_next EXCEPT !.ack_done = TRUE]
                  ELSE acq_next

acq_sends == \/ acq_beat /\ {"forward", "ack"} \cap (acq_needs \ acq.done) \cap acq_now # {}
             \/ acq.state = "Get" /\ acq.rdata_valid
acq_reply(value) == [kind |-> IF acq.op = "AcquireBlock" THEN "GrantData" ELSE "AccessAckData",
                     host |-> acq.host, line |-> acq.line, param |-> acq.param, value |-> value]
ReleaseAck(host) == [kind |-> "ReleaseAck", host |-> host]
acq_message ==
    CASE acq.state = "Probe" /\ IsRelease(c.kind) -> ReleaseAck(c.host)
      [] acq.state = "Probe" /\ ~IsRelease(c.kind) -> acq_reply(c.value)
      [] acq.state = "Fill" -> acq_reply(dev_d.value)
      [] acq.state = "Get" -> acq_reply(IF acq.skid_valid THEN acq.skid ELSE data_rd)
      [] acq.state = "Put" -> [kind |-> "AccessAck", host |-> acq.host]

-----------------------------------------------------------------------------
(* SRAM ports and channels *)

NoEntries == [w \in Ways |-> NoEntry]
ReadTag(line, fallback) ==
    /\ tag_rd' = tags[SetOf(line)] /\ tag_rd_line' = line /\ tag_rd_fallback' = fallback
    /\ UNCHANGED tags
\* What the tag SRAM puts out after a write, or without a request, is not read.
UpdateTag(set, ways, entry) ==
    /\ tags' = [tags EXCEPT ![set] = [w \in Ways |-> IF w \in ways THEN entry ELSE @[w]]]
    /\ tag_rd' = NoEntries /\ tag_rd_line' = NoLine /\ tag_rd_fallback' = 1

TagPort ==
    CASE tag_gnt = "acq" /\ acq.state = "ReadTag" -> ReadTag(acq.line, acq.evict)
      [] tag_gnt = "wb" /\ wb.state = "ReadTag" -> ReadTag(wb.line, 1)
      [] tag_gnt = "rel" /\ rel.state = "ReadTag" -> ReadTag(rel.line, 1)
      [] tag_gnt = "acq" /\ acq.state = "UpdateTag" -> UpdateTag(SetOf(acq.line), {acq.way}, acq.tag)
      [] tag_gnt = "wb" /\ wb.state = "UpdateTag" -> UpdateTag(SetOf(wb.line), {wb.way}, wb_update)
      [] tag_gnt = "rel" /\ rel.state = "UpdateTag" -> UpdateTag(SetOf(rel.line), {rel.way}, rel.tag)
      [] tag_gnt = "flush" -> UpdateTag(flush.index, Ways, NoEntry)
      [] tag_gnt = "none" -> UpdateTag(0, {}, NoEntry)

DataPort ==
    LET read == CASE data_gnt = "acq" /\ acq_reading -> data[SetOf(acq.line)][acq.way]
                  [] data_gnt = "wb" /\ wb_reading -> data[SetOf(wb.line)][wb.way]
                  [] OTHER -> 0
    IN  /\ data_rd' = read
        /\ data' = CASE data_gnt = "acq" /\ ~acq_reading ->
                          [data EXCEPT ![SetOf(acq.line)][acq.way] = acq_value]
                     [] data_gnt = "wb" /\ ~wb_reading -> [data EXCEPT ![SetOf(wb.line)][wb.way] = c.value]
                     [] data_gnt = "rel" -> [data EXCEPT ![SetOf(rel.line)][rel.way] = c.value]
                     [] OTHER -> data

FlushStep ==
    flush' = IF flush.state = "Reset" /\ flush.index + 1 \in Sets
             THEN [flush EXCEPT !.index = @ + 1] ELSE [state |-> "Idle", index |-> 0]

Channels ==
    /\ a' = IF \/ acq.state = "Idle" /\ acq_a_valid /\ a.kind # "Put"
               \/ acq.state = "Put" /\ acq_taken THEN None ELSE a
    /\ c' = IF (acq.state = "Probe" /\ acq_taken) \/ wb_taken \/ rel_taken THEN None ELSE c
    /\ e' = FALSE /\ stall' \in SUBSET scene.stalls
    /\ d' = [acq |-> IF acq_sends /\ d.acq = None THEN acq_message ELSE d.acq,
             wb |-> IF wb_beat /\ "ack" \in wb_needs \ wb.done /\ d.wb = None THEN ReleaseAck(c.host) ELSE d.wb,
             rel |-> IF rel_beat /\ "ack" \notin rel.done /\ d.rel = None THEN ReleaseAck(c.host) ELSE d.rel]
    /\ dev_b' = IF wb_accept /\ ~wb_req.release THEN None ELSE dev_b
    /\ dev_c' = IF wb_sends /\ dev_c = None THEN wb_message ELSE dev_c
    /\ dev_d' = IF wb_d_valid \/ (acq.state = "Fill" /\ acq_taken) THEN None ELSE dev_d
    /\ dev_acq' = IF acq.state = "Fill" /\ ~acq.refill_sent
                  THEN [kind |-> "acq", line |-> acq.line, param |-> IF acq.tag.valid THEN "BtoT" ELSE "NtoT"]
                  ELSE dev_acq
    /\ dev_unacked' = IF acq.state = "Fill" /\ acq_beat /\ "grantack" \notin acq.done THEN None ELSE dev_unacked

\* A Put takes effect when its data is written.
Observe ==
    golden' = IF acq.state = "Put" /\ data_gnt = "acq" THEN [golden EXCEPT ![acq.line] = a.value] ELSE golden

Tick ==
    /\ AcqStep /\ WbStep /\ RelStep /\ SeqStep /\ FlushStep
    /\ TagPort /\ DataPort /\ Channels /\ Observe
    /\ UNCHANGED <<dev_rel, dev_probing, dev_held, mem, hosts, scene>>

-----------------------------------------------------------------------------
(* The device below: memory, and other agents if it probes *)

used == {line \in Lines : TagOf(line) \in scene.tags}
OnLine(line) == [kind |-> "line", line |-> line]

DevGrant ==
    /\ dev_acq # None /\ dev_d = None /\ dev_unacked = None /\ dev_probing # OnLine(dev_acq.line)
    /\ \E with_data \in BOOLEAN :
         /\ ~with_data => dev_acq.param = "BtoT" /\ dev_held[dev_acq.line] = "B"
         /\ dev_d' = [kind |-> IF with_data THEN "GrantData" ELSE "Grant", param |-> "toT",
                      value |-> IF with_data THEN mem[dev_acq.line] ELSE 0]
    /\ dev_held' = [dev_held EXCEPT ![dev_acq.line] = "T"]
    /\ dev_unacked' = OnLine(dev_acq.line) /\ dev_acq' = None
    /\ UNCHANGED <<scene, sram, regs, hostlink, dev_b, dev_c, dev_rel, dev_probing, mem, hosts, golden>>

DevTakeC ==
    /\ dev_c # None /\ dev_c' = None
    /\ mem' = IF HasCData(dev_c.kind) THEN [mem EXCEPT ![dev_c.line] = dev_c.value] ELSE mem
    /\ dev_held' = [dev_held EXCEPT ![dev_c.line] = ReportPerm(dev_c.param)]
    /\ dev_rel' = (dev_rel \/ IsRelease(dev_c.kind))
    /\ dev_probing' = IF IsRelease(dev_c.kind) THEN dev_probing ELSE None
    /\ UNCHANGED <<scene, sram, regs, hostlink, dev_b, dev_d, dev_acq, dev_unacked, hosts, golden>>

DevReleaseAck ==
    /\ dev_rel /\ dev_d = None
    /\ dev_d' = [kind |-> "ReleaseAck"] /\ dev_rel' = FALSE
    /\ UNCHANGED <<scene, sram, regs, hostlink, dev_b, dev_c, dev_acq, dev_unacked, dev_probing, dev_held,
                   mem, hosts, golden>>

DevProbe(line, cap) ==
    /\ dev_probing = None /\ dev_unacked # OnLine(line)
    /\ dev_held[line] \notin {"N", CapPerm(cap)}
    /\ dev_b' = [kind |-> "probe", line |-> line, param |-> cap] /\ dev_probing' = OnLine(line)
    /\ UNCHANGED <<scene, sram, regs, hostlink, dev_c, dev_d, dev_acq, dev_unacked, dev_rel, dev_held, mem,
                   hosts, golden>>

\* Another agent writes a line that the LLC has given up.
DevWrite(line, value) ==
    /\ scene.probes # {} /\ dev_held[line] = "N" /\ value # mem[line]
    /\ mem' = [mem EXCEPT ![line] = value] /\ golden' = [golden EXCEPT ![line] = value]
    /\ UNCHANGED <<scene, sram, regs, hostlink, dev_b, dev_c, dev_d, dev_acq, dev_unacked, dev_rel, dev_probing,
                   dev_held, hosts>>

Device ==
    \/ DevGrant \/ DevTakeC \/ DevReleaseAck
    \/ \E line \in used, cap \in scene.probes : DevProbe(line, cap)
    \/ \E line \in used, value \in Values : DevWrite(line, value)

-----------------------------------------------------------------------------
(* The hosts.  A host writes a line it has for writing, drops a read-only   *)
(* line silently, releases a writable one, and answers a probe when no      *)
(* release of its own is on the way.                                        *)

HostAcquire(h, line, grow) ==
    /\ a = None /\ asked[h] = None /\ releasing[h] # OnLine(line)
    /\ perm[h][line] = (IF grow = "BtoT" THEN "B" ELSE "N")
    /\ a' = [kind |-> "AcquireBlock", line |-> line, host |-> h, param |-> grow, value |-> 0]
    /\ asked' = [asked EXCEPT ![h] = OnLine(line)]
    /\ UNCHANGED <<scene, sram, regs, c, e, d, stall, device, perm, copy, dirty, releasing, probed, golden>>

DmaAsk(op, line, value) ==
    /\ a = None /\ asked[Dma] = None /\ (op # "Put" => value = 0)
    /\ a' = [kind |-> op, line |-> line, host |-> Dma, param |-> "NtoB", value |-> value]
    /\ asked' = [asked EXCEPT ![Dma] = OnLine(line)]
    /\ UNCHANGED <<scene, sram, regs, c, e, d, stall, device, perm, copy, dirty, releasing, probed, golden>>

\* Give up a line down to permission p.
Shrink(h, line, p) ==
    /\ perm' = [perm EXCEPT ![h][line] = p]
    /\ dirty' = [dirty EXCEPT ![h][line] = FALSE]
    /\ copy' = IF p = "N" THEN [copy EXCEPT ![h][line] = 0] ELSE copy

HostDrop(h, line) ==
    /\ perm[h][line] = "B" /\ Shrink(h, line, "N")
    /\ UNCHANGED <<scene, sram, regs, hostlink, device, asked, releasing, probed, golden>>

HostRelease(h, line) ==
    /\ perm[h][line] = "T" /\ c = None /\ releasing[h] = None
    /\ c' = [kind |-> IF dirty[h][line] THEN "ReleaseData" ELSE "Release", line |-> line, host |-> h,
             param |-> "TtoN", value |-> IF dirty[h][line] THEN copy[h][line] ELSE 0]
    /\ releasing' = [releasing EXCEPT ![h] = OnLine(line)] /\ Shrink(h, line, "N")
    /\ UNCHANGED <<scene, sram, regs, a, e, d, stall, device, asked, probed, golden>>

HostWrite(h, line, value) ==
    /\ perm[h][line] = "T" /\ value # copy[h][line]
    /\ copy' = [copy EXCEPT ![h][line] = value] /\ dirty' = [dirty EXCEPT ![h][line] = TRUE]
    /\ golden' = [golden EXCEPT ![line] = value]
    /\ UNCHANGED <<scene, sram, regs, hostlink, device, perm, asked, releasing, probed>>

\* The sequencer offers its probe to the highest host still to be probed.
HostProbe(h) ==
    /\ seq.pending # {} /\ h = Highest(seq.pending) /\ probed[h] = None
    /\ probed' = [probed EXCEPT ![h] = [kind |-> "probe", line |-> seq.line, param |-> seq.param]]
    /\ seq' = IF seq.pending = {h} THEN SeqReset ELSE [seq EXCEPT !.pending = @ \ {h}]
    /\ UNCHANGED <<scene, sram, acq, wb, rel, flush, hostlink, device, perm, copy, dirty, asked, releasing, golden>>

HostProbeAck(h) ==
    /\ probed[h] # None /\ c = None /\ releasing[h] = None
    /\ LET line == probed[h].line
           was == perm[h][line]
           now == IF was = "N" \/ probed[h].param = "toN" THEN "N" ELSE "B"
       IN  /\ c' = [kind |-> IF dirty[h][line] THEN "ProbeAckData" ELSE "ProbeAck", line |-> line, host |-> h,
                    param |-> CASE was = "N" -> "NtoN"
                                [] was = "B" -> IF now = "N" THEN "BtoN" ELSE "BtoB"
                                [] was = "T" -> IF now = "N" THEN "TtoN" ELSE "TtoB",
                    value |-> IF dirty[h][line] THEN copy[h][line] ELSE 0]
           /\ Shrink(h, line, now)
    /\ probed' = [probed EXCEPT ![h] = None]
    /\ UNCHANGED <<scene, sram, regs, a, e, d, stall, device, asked, releasing, golden>>

\* The round-robin arbiter of channel D delivers any tracker's message.
HostTakeD(t) ==
    /\ d[t] # None /\ d' = [d EXCEPT ![t] = None]
    /\ LET m == d[t]
       IN  CASE m.kind = "GrantData" ->
                  /\ ~e /\ e' = TRUE
                  /\ perm' = [perm EXCEPT ![m.host][m.line] = CapPerm(m.param)]
                  /\ copy' = [copy EXCEPT ![m.host][m.line] = m.value]
                  /\ asked' = [asked EXCEPT ![m.host] = None] /\ UNCHANGED releasing
             [] m.kind = "ReleaseAck" -> /\ releasing' = [releasing EXCEPT ![m.host] = None]
                                         /\ UNCHANGED <<e, perm, copy, asked>>
             [] m.kind \in {"AccessAck", "AccessAckData"} ->
                  /\ asked' = [asked EXCEPT ![Dma] = None] /\ UNCHANGED <<e, perm, copy, releasing>>
    /\ UNCHANGED <<scene, sram, regs, a, c, stall, device, dirty, probed, golden>>

Host ==
    \/ \E h \in Hosts, line \in used, grow \in scene.grows : HostAcquire(h, line, grow)
    \/ \E op \in scene.dma, line \in used, value \in Values : DmaAsk(op, line, value)
    \/ \E h \in Hosts, line \in Lines : HostDrop(h, line) \/ HostRelease(h, line)
    \/ \E h \in Hosts, line \in Lines, value \in Values : HostWrite(h, line, value)
    \/ \E h \in Hosts : HostProbe(h) \/ HostProbeAck(h)
    \/ \E t \in {"acq", "wb", "rel"} : HostTakeD(t)

-----------------------------------------------------------------------------
PowerUpEntry == [NoEntry EXCEPT !.valid = PowerUpValid]
Init ==
    /\ tags \in [Sets -> [Ways -> {NoEntry, PowerUpEntry}]]
    /\ data = [s \in Sets |-> [w \in Ways |-> 0]]
    /\ tag_rd = NoEntries /\ tag_rd_line = NoLine
    /\ tag_rd_fallback = 1 /\ data_rd = 0
    /\ acq = AcqReset /\ wb = WbReset /\ rel = RelReset /\ seq = SeqReset
    /\ flush = [state |-> "Reset", index |-> 0]
    /\ a = None /\ c = None /\ e = FALSE /\ d = [acq |-> None, wb |-> None, rel |-> None]
    /\ stall = {}
    /\ dev_b = None /\ dev_c = None /\ dev_d = None /\ dev_acq = None
    /\ dev_unacked = None /\ dev_rel = FALSE /\ dev_probing = None
    /\ dev_held = [l \in Lines |-> "N"] /\ mem = [l \in Lines |-> 0]
    /\ perm = [h \in Hosts |-> [l \in Lines |-> "N"]]
    /\ copy = [h \in Hosts |-> [l \in Lines |-> 0]]
    /\ dirty = [h \in Hosts |-> [l \in Lines |-> FALSE]]
    /\ asked = [h \in Hosts \cup {Dma} |-> None]
    /\ releasing = [h \in Hosts |-> None] /\ probed = [h \in Hosts |-> None]
    /\ golden = mem
    /\ scene \in Scenes

Next == Tick \/ Device \/ Host

Spec == Init /\ [][Next]_vars

\* The clock runs, the device answers, and the hosts take what is offered and
\* answer probes.  Channel C is shared by the hosts through a round-robin
\* arbiter (tl_socket_m1), so a host that wants it again and again gets it.
Fairness ==
    /\ WF_vars(Tick) /\ WF_vars(DevGrant) /\ WF_vars(DevTakeC) /\ WF_vars(DevReleaseAck)
    /\ \A h \in Hosts : WF_vars(HostProbe(h)) /\ SF_vars(HostProbeAck(h))
    /\ \A t \in {"acq", "wb", "rel"} : WF_vars(HostTakeD(t))

FairSpec == Spec /\ Fairness

-----------------------------------------------------------------------------
(* Properties *)

\* A host that may write a line is the only one that has it.
SingleWriter ==
    \A line \in Lines, h \in Hosts :
        perm[h][line] = "T" => \A g \in Hosts \ {h} : perm[g][line] = "N"

\* Every copy a host has is the latest value of the line, whichever way the
\* data took: from the data SRAM, forwarded from a probe or from a refill.
CopiesAreCurrent ==
    \A line \in Lines, h \in Hosts : perm[h][line] # "N" => copy[h][line] = golden[line]

Entries(line) == {w \in Ways : tags[SetOf(line)][w].valid /\ tags[SetOf(line)][w].tag = TagOf(line)}
Serving(line) == acq_valid /\ acq.line = line

\* "Harts sharing currently" (tag_t.mask): a host that has a line is in the
\* mask of its entry, unless its own request for the line is being served.
DirectoryCoversHosts ==
    \A line \in Lines, h \in Hosts :
        perm[h][line] # "N" =>
        \/ Serving(line) /\ acq.host = h
        \/ \E w \in Entries(line) : h \in tags[SetOf(line)][w].mask

\* A Release always finds its line: RelStateError, where the tracker would
\* hang, is not reached.
ReleaseFindsLine == rel.state # "Error"

\* A Get is answered with the latest value of the line.
GetsAreCurrent ==
    [][d'.acq # d.acq /\ d'.acq.kind = "AccessAckData" => d'.acq.value = golden[d'.acq.line]]_vars

\* "This state change must be the same cycle as our GrantAck handshake" (the
\* last cycle of AcqStateFill): the tracker leaves the refill state, in which
\* it lets a probe of its line pass, in the cycle that sends the GrantAck.
GrantAckLeavesRefill ==
    [][dev_unacked # None /\ dev_unacked' = None => acq'.state # "Fill"]_vars

\* The comments at the tracker routing argue that blocking cannot deadlock:
\* every request is answered, every Release acknowledged, and the device gets
\* an answer to every probe.
RequestsAnswered == \A h \in Hosts \cup {Dma} : asked[h].kind = "line" ~> asked[h].kind = "none"
ReleasesAnswered == \A h \in Hosts : releasing[h].kind = "line" ~> releasing[h].kind = "none"
DevProbesAnswered == dev_probing.kind = "line" ~> dev_probing.kind = "none"

\* "Reset all states to invalid" (FlushStateReset): no entry is valid when the
\* reset is over.
ResetInvalidates ==
    [][flush.state = "Reset" /\ flush'.state = "Idle"
         => \A s \in Sets, w \in Ways : ~tags'[s][w].valid]_vars

=============================================================================
