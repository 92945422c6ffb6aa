------------------------------ MODULE DCacheData ------------------------------
(***************************************************************************)
(* What a clock cycle of muntjac_dcache does to the words it has read, to the*)
(* writeback and memory, and to the refill.                                 *)
(***************************************************************************)
EXTENDS DCachePerms

\* A clock cycle leaves the word read that the next one uses.
LEMMA TickWordRead ==
    ASSUME LockInv, Phases, NEW in \in Inputs, Tick(in) PROVE WordRead'
<1>1. TypeOK /\ MainStep(in) /\ DataPort(in)
  BY Zenon DEF LockInv, Tick
<1> SUFFICES ASSUME main'.state = "Fetch", ~(main'.op = "STORE" /\ main'.full)
             PROVE  \A w \in Ways : data_rd'[w] = data'[SetOf(main'.line)][w][main'.word]
  BY Zenon DEF WordRead
<1>2. /\ access_data_read_gnt(in)
      /\ main'.line = access_read_line(in) /\ main'.word = access_read_word(in)
  <2>1. CASE in.req = None
    <3>1. main'.line = main.line /\ main'.word = main.word /\ access_data_read_gnt(in)
      BY Zenon, <1>1, <2>1, Continues, StateMoves
    <3> QED BY Zenon, <2>1, <3>1 DEF access_read_line, access_read_word
  <2>2. CASE in.req # None
    <3>1. main'.line = in.req.line /\ main'.word = in.req.word /\ main'.op = in.req.op /\ main'.full = in.req.full
      BY Zenon, <1>1, <2>2, Accepts
    <3>2. access_data_read_gnt(in)
      BY Zenon, <1>1, <2>2, <3>1, Accepts
    <3> QED BY Zenon, <2>2, <3>1, <3>2 DEF access_read_line, access_read_word
  <2> QED BY Zenon, <2>1, <2>2
<1>3. ReadData(SetOf(access_read_line(in)), access_read_word(in))
  BY Zenon, <1>1, <1>2 DEF DataPort, access_data_read_gnt
<1> QED BY Zenon, <1>2, <1>3 DEF ReadData

\* A writeback goes on until its last beat is taken.
LEMMA WbGoesOn ==
    ASSUME LockInv, NEW in \in Inputs, WbStep(in), wb.state = "Progress", ~(in.c_ready /\ c_last)
    PROVE  /\ wb'.state = "Progress" /\ wb'.line = wb.line /\ wb'.opcode = wb.opcode
           /\ ~writeback_lock_acq
<1>1. ~writeback_lock_acq /\ wb \in WbRegs /\ in.c_ready \in BOOLEAN
  BY Zenon, InputTypes DEF writeback_lock_acq, LockInv, TypeOK
<1>2. wb'.state = "Progress"
  <2> DEFINE acked == wb.evict_completed \/ d.kind = "ReleaseAck"
  <2>1. CASE in.c_ready
    <3>1. wb' = [WbSent EXCEPT !.evict_completed = acked] /\ ~c_last
      BY Zenon, <1>1, <2>1 DEF WbStep, c_valid
    <3>2. wb' = [[wb EXCEPT !.state = "Progress", !.index = (wb.index + 1) % NumBeats,
                            !.skid_valid = FALSE, !.skid = 0] EXCEPT !.evict_completed = acked]
      BY Zenon, <3>1 DEF WbSent
    <3> QED BY Zenon, <1>1, <3>2 DEF WbRegs
  <2>2. CASE ~in.c_ready
    <3>1. wb' = [wb EXCEPT !.skid_valid = TRUE, !.skid = c_data, !.evict_completed = acked]
      BY Zenon, <1>1, <2>2 DEF WbStep, c_valid
    <3> QED BY Zenon, <1>1, <3>1 DEF WbRegs
  <2> QED BY Zenon, <2>1, <2>2
<1> QED BY Zenon, <1>1, <1>2, WbMoves

\* The word on channel C, by the index of the writeback.
LEMMA WordOrder ==
    ASSUME NEW n \in Nat \ {0}, NEW i \in 0 .. n - 1
    PROVE  /\ (i - 1) % n = IF i = 0 THEN n - 1 ELSE i - 1
           /\ i # 0 => (((i + 1) % n) - 1) % n = i
<1>1. \A k \in 0 .. n - 1 : k % n = k
  OBVIOUS
<1>2. n % n = 0
  OBVIOUS
<1>3. (0 - 1) % n = n - 1
  OBVIOUS
<1>4. CASE i = 0
  BY <1>3, <1>4
<1>5. CASE i # 0 /\ i + 1 = n
  <2>1. (i - 1) % n = i - 1
    BY <1>1, <1>5
  <2>2. (i + 1) % n = 0
    BY <1>2, <1>5
  <2> QED BY <1>3, <1>5, <2>1, <2>2
<1>6. CASE i # 0 /\ i + 1 # n
  <2>1. (i - 1) % n = i - 1
    BY <1>1, <1>6
  <2>2. (i + 1) % n = i + 1
    BY <1>1, <1>6
  <2>3. (i + 1) - 1 = i /\ i % n = i
    BY <1>1
  <2> QED BY <1>6, <2>1, <2>2, <2>3
<1> QED BY <1>4, <1>5, <1>6

\* The word on channel C is a word of the line.
LEMMA WbWords ==
    ASSUME LockInv
    PROVE  /\ c_word \in Words /\ wb.index \in Words /\ 0 \in Words
           /\ c_last => \A k \in Words : k < c_word \/ k = c_word
           /\ ~c_last => \A k \in Words : k < wb.index => k < c_word \/ k = c_word
           /\ ~c_last => (((wb.index + 1) % NumBeats) - 1) % NumBeats = wb.index
           /\ (1 - 1) % NumBeats = 0 /\ \A k \in Words : ~(k < 0)
<1>1. wb.index \in Words /\ NumBeats \in Nat \ {0} /\ Words = 0 .. NumBeats - 1
  BY Zenon, DCacheAssumption DEF LockInv, TypeOK, WbRegs, Words
<1> DEFINE i == wb.index
<1>2. i \in 0 .. NumBeats - 1
  BY Zenon, <1>1
<1> HIDE DEF i
<1>3. /\ (i - 1) % NumBeats = IF i = 0 THEN NumBeats - 1 ELSE i - 1
      /\ i # 0 => (((i + 1) % NumBeats) - 1) % NumBeats = i
  BY Zenon, <1>1, <1>2, WordOrder
<1>4. c_word = IF i = 0 THEN NumBeats - 1 ELSE i - 1
  BY Zenon, <1>3 DEF c_word, i
<1>5. (1 - 1) % NumBeats = 0
  BY <1>1
<1>6. /\ c_word \in Words /\ 0 \in Words
      /\ i = 0 => \A k \in Words : k < c_word \/ k = c_word
      /\ i # 0 => \A k \in Words : k < i => k < c_word \/ k = c_word
      /\ \A k \in Words : ~(k < 0)
  BY <1>1, <1>2, <1>4
<1> QED BY Zenon, <1>1, <1>3, <1>5, <1>6 DEF c_last, i

\* A writeback with data starts from a copy that is dirty, so on record as T, and current.
LEMMA WbSource ==
    ASSUME DataInv, writeback_lock_acq, wb_req.dirty
    PROVE  /\ wb_req.line \in Lines /\ wb_req.way \in Copies(wb_req.line) /\ held[wb_req.line] = "T"
           /\ data[SetOf(wb_req.line)][wb_req.way] = golden[wb_req.line]
<1>1. /\ PermInv /\ LockInv /\ TypeOK /\ TagsRead /\ Granted /\ MemoryCurrent /\ CopyIsCurrent
      /\ main.line \in Lines /\ SetOf(main.line) \in Sets /\ probe.line \in Lines /\ SetOf(probe.line) \in Sets
  BY Zenon, LineTypes DEF DataInv, ScInv, PermInv, LockInv, TypeOK, MainRegs, ProbeRegs
<1>2. /\ wb_req.line \in Lines /\ wb_req.way \in Copies(wb_req.line) /\ flush.state = "Idle"
      /\ tags[SetOf(wb_req.line)][wb_req.way].dirty
  <2>1. CASE /\ probe.state = "Check" /\ wb_req.line = probe.line /\ wb_req.way = hit_way
             /\ wb_req.dirty = (hit # {} /\ hit_tag.dirty)
    <3>1. hit = Copies(probe.line) /\ hit_way \in hit /\ hit_tag = tags[SetOf(probe.line)][hit_way] /\ hit_tag.dirty
      BY Zenon, <1>1, <2>1, HitCopies, HitWay, Entries
    <3> QED BY Zenon, <1>1, <2>1, <3>1, Holder
  <2>2. CASE /\ fetch_miss /\ hit_tag.valid /\ wb_req.line = <<hit_tag.tag, SetOf(main.line)>>
             /\ wb_req.way = hit_way /\ wb_req.dirty = hit_tag.dirty
    <3>1. main.state = "Fetch" /\ flush.state = "Idle"
      BY Zenon, <1>1, <2>2, Signals, Holder
    <3>2. hit_way \in Ways /\ hit_tag = tags[SetOf(main.line)][hit_way]
      BY Zenon, <1>1, <3>1, Entries
    <3>3. hit_tag.tag \in Tags
      BY Zenon, <1>1, <3>2 DEF TypeOK, TagEntry
    <3>4. wb_req.line \in Lines /\ SetOf(wb_req.line) = SetOf(main.line) /\ TagOf(wb_req.line) = hit_tag.tag
      BY Zenon, <1>1, <2>2, <3>3, LineTypes
    <3> QED BY Zenon, <2>2, <3>1, <3>2, <3>4 DEF Copies
  <2> QED BY Zenon, <1>1, <2>1, <2>2, WbRequest
<1>3. wb_req.way \in Ways /\ tags[SetOf(wb_req.line)][wb_req.way].valid /\ SetOf(wb_req.line) \in Sets
  BY Zenon, <1>2, LineTypes DEF Copies
<1>4. tags[SetOf(wb_req.line)][wb_req.way].writable
  BY Zenon, <1>1, <1>2, <1>3 DEF MemoryCurrent
<1>5. held[wb_req.line] = "T"
  BY Zenon, <1>1, <1>2, <1>4 DEF Granted, Within
<1> QED BY Zenon, <1>1, <1>2, <1>5, CurrentCopy

\* A clock cycle sends the next word of the line that is written back.
LEMMA TickWriteback ==
    ASSUME DataInv, NEW in \in Inputs, Tick(in) PROVE Writeback'
<1>1. /\ PermInv /\ LockInv /\ TypeOK /\ WbStep(in) /\ DataPort(in) /\ ManagerSees(in) /\ Writeback
  BY Zenon DEF DataInv, ScInv, PermInv, LockInv, Tick
<1>2. /\ c_word' = (wb'.index - 1) % NumBeats
      /\ wb'.skid_valid => c_data' = wb'.skid
      /\ ~wb'.skid_valid => c_data' = data_rd'[wb'.way]
  BY Zenon DEF c_word, c_data
<1> SUFFICES ASSUME wb'.state = "Progress"
             PROVE  /\ HasCData(wb'.opcode) =>
                         /\ held'[wb'.line] = "T" /\ data'[SetOf(wb'.line)][wb'.way] = golden'[wb'.line]
                         /\ c_data' = golden'[wb'.line][c_word']
                         /\ \A k \in Words : k < c_word' => mem'[wb'.line][k] = golden'[wb'.line][k]
                    /\ ~HasCData(wb'.opcode) => wb'.index = 0
  BY Zenon DEF Writeback
<1>3. CASE writeback_lock_acq
  <2>1. /\ wb'.line = wb_req.line /\ wb'.way = wb_req.way /\ ~wb'.skid_valid /\ ~c_valid
        /\ wb'.index = (IF wb_req.dirty THEN 1 ELSE 0) /\ (HasCData(wb'.opcode) <=> wb_req.dirty)
    BY Zenon, <1>1, <1>3, WbMoves DEF c_valid
  <2>2. CASE wb_req.dirty
    <3>1. /\ wb_req.line \in Lines /\ wb_req.way \in Ways /\ held[wb_req.line] = "T"
          /\ data[SetOf(wb_req.line)][wb_req.way] = golden[wb_req.line]
      BY Zenon, <1>3, <2>2, WbSource DEF Copies
    <3>2. ~refill_data_write_req /\ ~access_data_write_req
      <4>1. probe.state = "Check" \/ fetch_miss
        BY Zenon, <1>1, <1>3, WbRequest
      <4> QED BY Zenon, <1>1, <4>1, Signals, Holder
    <3>3. ReadData(SetOf(wb_req.line), 0)
      BY Zenon, <1>1, <1>3, <2>1, <2>2, <3>2 DEF DataPort, wb_data_read_req
    <3>4. data' = data /\ data_rd'[wb_req.way] = data[SetOf(wb_req.line)][wb_req.way][0]
      BY Zenon, <3>1, <3>3 DEF ReadData
    <3>5. golden' = golden /\ held' = held
      BY Zenon, <1>1, <2>1, <3>2, GoldenCases DEF ManagerSees
    <3>6. c_word' = 0
      <4>1. c_word' = (1 - 1) % NumBeats
        BY Zenon, <1>2, <2>1, <2>2
      <4> QED BY Zenon, <1>1, <4>1, WbWords
    <3>7. \A k \in Words : ~(k < 0)
      BY Zenon, <1>1, WbWords
    <3>8. c_data' = golden[wb_req.line][0]
      BY Zenon, <1>2, <2>1, <3>1, <3>4
    <3> QED BY Zenon, <2>1, <2>2, <3>1, <3>4, <3>5, <3>6, <3>7, <3>8
  <2>3. CASE ~wb_req.dirty
    BY Zenon, <2>1, <2>3
  <2> QED BY Zenon, <2>2, <2>3
<1>4. CASE ~writeback_lock_acq
  <2>1. /\ wb.state = "Progress" /\ wb'.line = wb.line /\ wb'.way = wb.way /\ wb'.opcode = wb.opcode
        /\ ~(in.c_ready /\ c_last) /\ wb.line \in Lines /\ wb.way \in Ways /\ c_valid
    BY Zenon, <1>1, <1>4, WbMoves DEF TypeOK, WbRegs, c_valid
  <2>2. ~refill_data_write_req /\ ~access_data_write_req
    BY Zenon, <1>1, <2>1, Signals, Holder
  <2>3. golden' = golden /\ data' = data /\ held' = held
    BY Zenon, <1>1, <2>1, <2>2, GoldenCases, DataCases DEF ManagerSees
  <2>4. CASE ~HasCData(wb.opcode)
    <3>1. c_last /\ ~in.c_ready /\ wb.index = 0
      BY Zenon, <1>1, <2>1, <2>4 DEF Writeback, c_last
    <3> QED BY Zenon, <1>1, <1>4, <2>1, <2>4, <3>1, WbMoves
  <2>5. CASE HasCData(wb.opcode) /\ in.c_ready
    <3>1. ReadData(SetOf(wb.line), wb.index)
      BY Zenon, <1>1, <2>1, <2>2, <2>5 DEF DataPort, wb_data_read_req
    <3>2. data_rd'[wb.way] = golden[wb.line][wb.index]
      BY Zenon, <1>1, <2>1, <2>5, <3>1 DEF ReadData, Writeback
    <3>3. c_word' = wb.index
      <4>1. wb'.index = (wb.index + 1) % NumBeats
        BY Zenon, <1>1, <1>4, <2>1, <2>5, WbMoves
      <4>2. c_word' = (((wb.index + 1) % NumBeats) - 1) % NumBeats
        BY Zenon, <1>2, <4>1
      <4> QED BY Zenon, <1>1, <2>1, <2>5, <4>2, WbWords
    <3>4. c_data' = golden[wb.line][wb.index]
      <4>1. ~wb'.skid_valid
        BY Zenon, <1>1, <1>4, <2>1, <2>5, WbMoves
      <4> QED BY Zenon, <1>2, <2>1, <3>2, <4>1
    <3>5. \A k \in Words : k < wb.index => mem'[wb.line][k] = golden[wb.line][k]
      <4>1. MemWrote(wb.line, c_word, c_data)
        BY Zenon, <1>1, <2>1, <2>5, MemCases
      <4>2. ASSUME NEW k \in Words, k = c_word PROVE mem'[wb.line][k] = golden[wb.line][k]
        BY Zenon, <1>1, <2>1, <2>5, <4>1, <4>2 DEF MemWrote, Writeback
      <4>3. ASSUME NEW k \in Words, k # c_word, k < c_word PROVE mem'[wb.line][k] = golden[wb.line][k]
        <5>1. mem'[wb.line][k] = mem[wb.line][k]
          BY Zenon, <4>1, <4>3 DEF MemWrote
        <5> QED BY Zenon, <1>1, <2>1, <2>5, <4>3, <5>1 DEF Writeback
      <4> QED BY Zenon, <1>1, <2>1, <2>5, <4>2, <4>3, WbWords
    <3> QED BY Zenon, <1>1, <2>1, <2>3, <2>5, <3>3, <3>4, <3>5 DEF Writeback
  <2>6. CASE HasCData(wb.opcode) /\ ~in.c_ready
    <3>1. wb'.index = wb.index /\ wb'.skid_valid /\ wb'.skid = c_data
      BY Zenon, <1>1, <1>4, <2>6, WbMoves
    <3>2. c_word' = c_word /\ c_data' = c_data
      BY Zenon, <1>2, <3>1 DEF c_word
    <3>3. mem' = mem
      BY Zenon, <1>1, <2>6, MemCases
    <3> QED BY Zenon, <1>1, <2>1, <2>3, <2>6, <3>2, <3>3 DEF Writeback
  <2> QED BY Zenon, <2>4, <2>5, <2>6
<1> QED BY Zenon, <1>3, <1>4

\* A dirty copy stays one, or its line is being written back from now on.
LEMMA DirtyKept ==
    ASSUME DataInv, NEW in \in Inputs, Tick(in), flush.state # "Reset", NEW line \in Lines, Dirty(line),
           ~(access_data_write_req /\ line = main.line)
    PROVE  Dirty(line)' \/ WritingBack(line)'
<1>1. /\ PermInv /\ LockInv /\ TypeOK /\ TagsRead /\ TagPort(in) /\ WbStep(in) /\ MemoryCurrent /\ Refilled /\ Beats
      /\ main.line \in Lines /\ SetOf(main.line) \in Sets /\ probe.line \in Lines
  BY Zenon, LineTypes DEF DataInv, ScInv, PermInv, LockInv, TypeOK, MainRegs, ProbeRegs, Tick
<1>2. PICK w \in Copies(line) : tags[SetOf(line)][w].dirty
  BY Zenon DEF Dirty
<1>3. /\ w \in Ways /\ SetOf(line) \in Sets /\ tags[SetOf(line)][w].valid
      /\ tags[SetOf(line)][w].tag = TagOf(line)
  BY Zenon, LineTypes DEF Copies
<1>4. tags[SetOf(line)][w].writable
  BY Zenon, <1>1, <1>2, <1>3 DEF MemoryCurrent
<1>5. CASE tags'[SetOf(line)][w] = tags[SetOf(line)][w]
  BY Zenon, <1>2, <1>3, <1>5 DEF Dirty, Copies
<1>6. ~(refill_tag_write_req /\ SetOf(line) = SetOf(main.line) /\ w = main.way)
  <2>1. refill_tag_write_req => refill_fifo # <<>>
    BY Zenon, <1>1, Signals
  <2> QED BY Zenon, <1>1, <1>3, <2>1 DEF Refilled, WayWaits, Beats
<1>7. CASE probe.state = "Check" /\ SetOf(line) = SetOf(probe.line) /\ w \in hit
  <2>1. hit = Copies(probe.line) /\ hit_way \in hit /\ flush.state = "Idle" /\ wb.state = "Idle"
        /\ hit_tag = tags[SetOf(probe.line)][hit_way]
    BY Zenon, <1>1, <1>7, HitCopies, HitWay, Entries, Holder
  <2>2. line = probe.line /\ w = hit_way
    <3>1. TagOf(line) = TagOf(probe.line)
      BY Zenon, <1>3, <1>7, <2>1 DEF Copies
    <3>2. line = probe.line
      BY Zenon, <1>1, <1>7, <3>1, SameLine
    <3>3. w = hit_way
      BY Zenon, <1>1, <1>3, <1>7, <2>1 DEF Copies, PermInv, OneCopyPerLine
    <3> QED BY Zenon, <3>2, <3>3
  <2>3. writeback_lock_acq
    BY Zenon, <1>7, <2>1 DEF writeback_lock_acq, wb_req_valid, wb_probe_req_valid
  <2>4. wb_req.line = probe.line /\ wb_req.dirty = (hit # {} /\ hit_tag.dirty)
    BY Zenon, <1>1, <1>7, <2>3, WbRequest
  <2>5. wb_req.dirty
    BY Zenon, <1>2, <2>1, <2>2, <2>4
  <2> QED BY Zenon, <1>1, <2>2, <2>3, <2>4, <2>5, WbMoves DEF WritingBack
<1>8. CASE (fetch_miss \/ access_data_write_req) /\ SetOf(line) = SetOf(main.line) /\ w = hit_way
  <2>1. main.state = "Fetch" /\ wb.state = "Idle" /\ probe.state = "Idle" /\ hit_tag = tags[SetOf(main.line)][hit_way]
    BY Zenon, <1>1, <1>8, Signals, Entries, Holder
  <2>2. CASE fetch_miss
    <3>1. hit_tag.valid /\ hit_tag.writable /\ hit_tag.dirty /\ hit_tag.tag = TagOf(line)
      BY Zenon, <1>2, <1>3, <1>4, <1>8, <2>1
    <3>2. writeback_lock_acq
      BY Zenon, <2>1, <2>2, <3>1 DEF writeback_lock_acq, wb_req_valid, wb_rel_req_valid
    <3>3. wb_req.line = <<hit_tag.tag, SetOf(main.line)>> /\ wb_req.dirty = hit_tag.dirty
      BY Zenon, <1>1, <2>1, <3>2, WbRequest
    <3>4. wb_req.line = line
      <4>1. line = <<TagOf(line), SetOf(line)>>
        BY Zenon, LineTypes
      <4> QED BY <1>8, <3>1, <3>3, <4>1
    <3> QED BY Zenon, <1>1, <3>1, <3>2, <3>3, <3>4, WbMoves DEF WritingBack
  <2>3. CASE access_data_write_req
    <3>1. hit_way \in Copies(main.line)
      BY Zenon, <1>1, <2>3, HitOne DEF access_data_write_req
    <3>2. TagOf(line) = TagOf(main.line)
      BY Zenon, <1>3, <1>8, <3>1 DEF Copies
    <3> QED BY Zenon, <1>1, <1>8, <2>3, <3>2, SameLine
  <2> QED BY Zenon, <1>8, <2>2, <2>3
<1> QED BY Zenon, <1>1, <1>3, <1>5, <1>6, <1>7, <1>8, DirtyStep

\* A clock cycle loses no store.
LEMMA TickMemory ==
    ASSUME DataInv, TypeOK', NEW in \in Inputs, Tick(in) PROVE MemoryCurrent'
<1>1. /\ PermInv /\ LockInv /\ TypeOK /\ TagsRead /\ Absent /\ TagPort(in) /\ WbStep(in) /\ FlushStep
      /\ MemoryCurrent /\ Writeback /\ main.line \in Lines /\ SetOf(main.line) \in Sets /\ wb.line \in Lines
  BY Zenon, LineTypes DEF DataInv, ScInv, PermInv, LockInv, TypeOK, MainRegs, WbRegs, Tick
<1>2. ASSUME flush'.state # "Reset", NEW s \in Sets, NEW w \in Ways, tags'[s][w].valid, tags'[s][w].dirty
      PROVE  tags'[s][w].writable
  <2>1. flush.state # "Reset"
    BY Zenon, <1>1, <1>2, Cleared
  <2> QED BY Zenon, <1>1, <1>2, <2>1, DirtyStep DEF MemoryCurrent
<1>3. ASSUME NEW line \in Lines, mem'[line] # golden'[line]
      PROVE  (flush'.state # "Reset" /\ Dirty(line)') \/ WritingBack(line)'
  <2>1. flush'.state = "Reset" => flush.state = "Reset"
    BY Zenon, <1>1, FlushMoves
  <2>2. CASE access_data_write_req /\ line = main.line
    <3>1. flush.state # "Reset" /\ hit_way \in Ways
      BY Zenon, <1>1, <2>2, HitOne DEF access_data_write_req
    <3>2. Dirty(line)'
      <4>1. /\ tags'[SetOf(main.line)][hit_way].valid /\ tags'[SetOf(main.line)][hit_way].dirty
            /\ tags'[SetOf(main.line)][hit_way].tag = TagOf(main.line)
        BY Zenon, <1>1, <2>2, DirtyStep
      <4>2. hit_way \in LaterCopies(line)
        BY Zenon, <2>2, <3>1, <4>1 DEF LaterCopies
      <4> QED BY Zenon, <2>2, <4>1, <4>2 DEF Dirty, Copies, LaterCopies
    <3> QED BY Zenon, <2>1, <2>2, <3>1, <3>2
  <2>3. CASE ~(access_data_write_req /\ line = main.line)
    <3>1. golden'[line] = golden[line]
      BY Zenon, <1>1, <2>3, GoldenCases DEF GoldenWrote
    <3>2. CASE WritingBack(line) /\ ~(in.c_ready /\ c_last)
      BY Zenon, <1>1, <3>2, WbGoesOn DEF WritingBack
    <3>3. CASE WritingBack(line) /\ in.c_ready /\ c_last
      <4>1. MemWrote(line, c_word, c_data)
        BY Zenon, <1>1, <3>3, MemCases DEF WritingBack, c_valid
      <4>2. c_data = golden[line][c_word] /\ \A k \in Words : k < c_word => mem[line][k] = golden[line][k]
        BY Zenon, <1>1, <3>3 DEF WritingBack, Writeback
      <4>3. \A k \in Words : k < c_word \/ k = c_word
        BY Zenon, <1>1, <3>3, WbWords
      <4>4. \A k \in Words : mem'[line][k] = golden'[line][k]
        <5> TAKE k \in Words
        <5>1. CASE k = c_word
          BY Zenon, <3>1, <4>1, <4>2, <5>1 DEF MemWrote
        <5>2. CASE k # c_word
          <6>1. mem'[line][k] = mem[line][k]
            BY Zenon, <4>1, <5>2 DEF MemWrote
          <6> QED BY Zenon, <3>1, <4>2, <4>3, <5>2, <6>1
        <5> QED BY Zenon, <5>1, <5>2
      <4>5. mem'[line] \in [Words -> Values] /\ golden'[line] \in [Words -> Values]
        BY Zenon DEF TypeOK
      <4> QED BY Zenon, <1>3, <4>4, <4>5, SameWords
    <3>4. CASE ~WritingBack(line)
      <4>1. mem'[line] = mem[line]
        BY Zenon, <1>1, <3>4, MemCases DEF MemWrote, WritingBack, c_valid
      <4>2. flush.state # "Reset" /\ Dirty(line)
        BY Zenon, <1>1, <1>3, <3>1, <3>4, <4>1 DEF MemoryCurrent
      <4> QED BY Zenon, <2>1, <2>3, <4>2, DirtyKept
    <3> QED BY Zenon, <3>2, <3>3, <3>4
  <2> QED BY Zenon, <2>2, <2>3
<1> QED BY Zenon, <1>2, <1>3 DEF MemoryCurrent

\* What is reported never adds a permission.
LEMMA HeldShrinks ==
    ASSUME LockInv, Reports, NEW in \in Inputs, Tick(in), NEW line \in Lines, held[line] = "N"
    PROVE  held'[line] = "N"
<1>1. ManagerSees(in) /\ TypeOK /\ wb.line \in Lines
  BY Zenon DEF Tick, LockInv, TypeOK, WbRegs
<1>2. CASE c_valid /\ in.c_ready /\ c_last /\ wb.line = line
  <2>1. held' = [held EXCEPT ![wb.line] = ReportPerm(wb.param)] /\ PermLeq(ReportPerm(wb.param), held[wb.line])
    BY Zenon, <1>1, <1>2 DEF ManagerSees, Reports, c_valid
  <2>2. ReportPerm(wb.param) = "N"
    BY Zenon, <1>2, <2>1 DEF PermLeq
  <2> QED BY Zenon, <1>1, <1>2, <2>1, <2>2 DEF TypeOK
<1>3. CASE ~(c_valid /\ in.c_ready /\ c_last /\ wb.line = line)
  BY Zenon, <1>1, <1>3 DEF ManagerSees, TypeOK
<1> QED BY Zenon, <1>2, <1>3

\* While a miss waits the beats that are written are all that happens to its way.
LEMMA WaitingData ==
    ASSUME LockInv, Phases, TagsRead, Refilled, NEW in \in Inputs, Tick(in), miss.state = "Fill", ~refill_done
    PROVE  /\ golden' = golden /\ ~access_data_write_req
           /\ ~refill_fifo_ready => data' = data
           /\ ~tags'[SetOf(main.line)][main.way].valid
<1>1. TypeOK /\ TagPort(in) /\ SetOf(main.line) \in Sets /\ main.way \in Ways /\ main.state = "Fill"
  BY Zenon, LineTypes DEF Tick, LockInv, TypeOK, MainRegs, Phases
<1>2. ~access_data_write_req
  BY Zenon, <1>1, Signals
<1>3. ~refill_tag_write_req /\ (~refill_fifo_ready => ~refill_data_write_req)
  BY Zenon, Signals DEF refill_tag_write_req
<1>4. ~tags[SetOf(main.line)][main.way].valid
  BY Zenon DEF Refilled, WayWaits
<1>5. ~tags'[SetOf(main.line)][main.way].valid
  BY Zenon, <1>1, <1>3, <1>4, TagStep DEF Kept
<1> QED BY Zenon, <1>2, <1>3, <1>5, GoldenCases, DataCases

\* A miss picks its way; an upgrade picks the way that holds the line.
LEMMA RefillStarts ==
    ASSUME DataInv, Beats', NEW in \in Inputs, Tick(in), fetch_miss PROVE Refilled'
<1>1. /\ PermInv /\ LockInv /\ TypeOK /\ Phases /\ TagsRead /\ TagPort(in) /\ CopyIsCurrent /\ main.line \in Lines
  BY Zenon DEF DataInv, ScInv, PermInv, LockInv, TypeOK, MainRegs, Tick
<1>2. /\ main.state = "Fetch" /\ nothing_in_progress /\ miss'.state = "Fill" /\ miss'.upgrade = (hit # {})
      /\ ~miss'.sent /\ main'.line = main.line /\ main'.way = hit_way
  BY Zenon, <1>1, FillStarts
<1>3. acq' = None /\ refill_fifo' = <<>>
  BY Zenon, <1>2 DEF Beats
<1>4. golden' = golden /\ data' = data /\ flush.state = "Idle"
  <2>1. ~access_data_write_req /\ ~refill_data_write_req /\ flush.state = "Idle"
    BY Zenon, <1>1, <1>2, Signals, Holder
  <2> QED BY Zenon, <1>1, <2>1, GoldenCases, DataCases
<1>5. ~DataGrant'
  BY Zenon, <1>3 DEF DataGrant
<1>6. miss'.upgrade => data'[SetOf(main'.line)][main'.way] = golden'[main'.line]
  <2>1. hit # {} => hit_way \in Copies(main.line) /\ flush.state # "Reset"
    BY Zenon, <1>1, <1>2, <1>4, HitWay, HitCopies
  <2>2. hit # {} => data[SetOf(main.line)][hit_way] = golden[main.line]
    BY Zenon, <1>1, <2>1, CurrentCopy
  <2> QED BY Zenon, <1>2, <1>4, <2>2
<1>7. ~tags'[SetOf(main'.line)][main'.way].valid
  BY Zenon, <1>1, <1>2, TagStep
<1> QED BY Zenon, <1>2, <1>3, <1>5, <1>6, <1>7 DEF Refilled, GrantKinds, BeatsCurrent, WayWaits

\* The miss machine sends its Acquire.
LEMMA RefillAsks ==
    ASSUME LockInv, Phases, TagsRead, Reports, Beats, Refilled, NEW in \in Inputs, Tick(in),
           miss.state = "Fill", a_valid, in.a_ready
    PROVE  Refilled'
<1>1. acq = None /\ refill_fifo = <<>> /\ ~refill_fifo_ready /\ ~refill_done /\ main.line \in Lines /\ TypeOK
  BY Zenon, Signals DEF Beats, a_valid, LockInv, TypeOK, MainRegs
<1>2. /\ miss'.state = "Fill" /\ miss'.upgrade = miss.upgrade /\ main'.line = main.line /\ main'.way = main.way
  BY Zenon, <1>1, FillStays
<1>3. /\ golden' = golden /\ data' = data /\ ~tags'[SetOf(main.line)][main.way].valid
  BY Zenon, <1>1, WaitingData
<1>4. /\ acq' # None /\ acq'.param = a_param /\ acq'.phase = "req" /\ ~acq'.with_data /\ acq'.beat = 0
  BY Zenon, AcqTick
<1>5. refill_fifo' = <<>>
  BY Zenon, <1>1, FifoTick
<1>6. a_param = "BtoT" => miss.upgrade
  BY Zenon DEF a_param
<1>7. ~DataGrant /\ ~DataGrant'
  BY Zenon, <1>1, <1>4 DEF DataGrant
<1>8. held'[main.line] # "N" => held[main.line] # "N"
  BY Zenon, <1>1, HeldShrinks
<1>9. miss.upgrade /\ held'[main.line] # "N" => data'[SetOf(main.line)][main.way] = golden'[main.line]
  BY Zenon, <1>3, <1>7, <1>8 DEF Refilled, WayWaits
<1> QED BY Zenon, <1>2, <1>3, <1>4, <1>5, <1>6, <1>7, <1>9 DEF Refilled, GrantKinds, BeatsCurrent, WayWaits

\* A cycle in which no beat leaves the FIFO.
LEMMA RefillWaits ==
    ASSUME LockInv, Phases, TagsRead, Reports, Beats, Refilled, NEW in \in Inputs, Tick(in),
           miss.state = "Fill", ~refill_fifo_ready, acq' = acq, miss'.sent = miss.sent
    PROVE  Refilled'
<1>1. ~refill_done /\ main.line \in Lines
  BY Zenon, Signals DEF LockInv, TypeOK, MainRegs
<1>2. /\ miss'.state = "Fill" /\ miss'.upgrade = miss.upgrade /\ main'.line = main.line /\ main'.way = main.way
  BY Zenon, <1>1, FillStays
<1>3. /\ golden' = golden /\ data' = data /\ ~tags'[SetOf(main.line)][main.way].valid
  BY Zenon, <1>1, WaitingData
<1>4. refill_fifo' = refill_fifo
  BY Zenon, FifoTick
<1>5. DataGrant' = DataGrant /\ First' = First
  BY Zenon, <1>4 DEF DataGrant, First
<1>6. held'[main.line] # "N" => held[main.line] # "N"
  BY Zenon, <1>1, HeldShrinks
<1>7. GrantKinds'
  BY Zenon, <1>2, <1>4 DEF Refilled, GrantKinds
<1>8. BeatsCurrent'
  BY Zenon, <1>2, <1>3, <1>4, <1>5 DEF Refilled, BeatsCurrent
<1>9. WayWaits'
  BY Zenon, <1>2, <1>3, <1>5, <1>6 DEF Refilled, WayWaits
<1> QED BY Zenon, <1>7, <1>8, <1>9 DEF Refilled

\* A cycle in which a beat leaves the FIFO, for the data SRAM if it has data.
LEMMA RefillPops ==
    ASSUME LockInv, Phases, TagsRead, Reports, Beats, Refilled, NEW in \in Inputs, Tick(in),
           miss.state = "Fill", refill_fifo_ready, ~refill_done, acq' = acq
    PROVE  Refilled'
<1>1. /\ refill_fifo # <<>> /\ refill_fifo \in Seq(Beat) /\ refill_fifo' = Tail(refill_fifo)
      /\ refill_beat = refill_fifo[1] /\ 1 \in 1 .. Len(refill_fifo) /\ ~refill_beat.last /\ refill_beat \in Beat
      /\ SetOf(main.line) \in Sets /\ main.way \in Ways
  <2>1. refill_fifo # <<>> /\ refill_fifo \in Seq(Beat) /\ refill_fifo' = Tail(refill_fifo)
    BY Zenon, Signals, FifoTick, FirstType
  <2>2. refill_beat = refill_fifo[1] /\ 1 \in 1 .. Len(refill_fifo)
    BY Zenon, <2>1, TailFacts DEF refill_beat
  <2>3. ~refill_beat.last /\ refill_beat \in Beat
    BY Zenon, <2>1, FifoTypes DEF refill_done, LockInv, refill_fifo_valid
  <2> QED BY Zenon, <2>1, <2>2, <2>3, LineTypes DEF LockInv, TypeOK, MainRegs
<1>2. /\ miss'.state = "Fill" /\ miss'.upgrade = miss.upgrade /\ main'.line = main.line /\ main'.way = main.way
  BY Zenon, FillStays
<1>3. /\ golden' = golden /\ ~access_data_write_req /\ ~tags'[SetOf(main.line)][main.way].valid
  BY Zenon, WaitingData
<1>4. acq = None => Len(refill_fifo) # 1 /\ refill_fifo' # <<>>
  <2>1. acq = None => (refill_fifo[1].last <=> 1 = Len(refill_fifo))
    BY Zenon, <1>1 DEF Beats
  <2> QED BY Zenon, <1>1, <2>1, TailFacts
<1>5. refill_beat.kind = "GrantData" /\ ~refill_beat.denied /\ DataGrant
  <2>1. DataGrant
    <3>1. acq # None => acq.with_data
      BY Zenon, <1>1 DEF Refilled, GrantKinds
    <3>2. acq = None => refill_fifo[1].kind # "Grant"
      BY Zenon, <1>1, <1>4 DEF Refilled, GrantKinds
    <3> QED BY Zenon, <1>1, <3>1, <3>2 DEF DataGrant, Beat
  <2> QED BY Zenon, <1>1, <2>1 DEF Refilled, BeatsCurrent
<1>6. refill_data_write_req
  BY Zenon, <1>5 DEF refill_data_write_req
<1>7. First \in Words /\ refill_beat.idx = First /\ refill_beat.data = golden[main.line][First]
  BY Zenon, <1>6, BeatWritten
<1>8. DataWrote(SetOf(main.line), main.way, First, golden[main.line][First])
  BY Zenon, <1>6, <1>7, DataCases
<1>9. /\ First' = First + 1 /\ First \in Int
      /\ \A k \in Words : k < First + 1 => k < First \/ k = First
      /\ \A i \in 1 .. Len(refill_fifo') : First + (i + 1) - 1 = First + 1 + i - 1
  <2> DEFINE n == Len(refill_fifo)  m == Len(refill_fifo')
             t == IF acq # None THEN acq.beat ELSE NumBeats  f == First
  <2>1. m = n - 1 /\ n \in Nat /\ First = t - n /\ First' = t - m /\ f \in Int
    BY Zenon, <1>1, TailFacts, FirstType DEF First
  <2>2. t \in Int
    <3>1. acq # None => acq.beat \in Words
      BY Zenon, AcqTypes DEF LockInv
    <3>2. Words \subseteq Int /\ NumBeats \in Int
      BY DCacheAssumption DEF Words
    <3> QED BY Zenon, <3>1, <3>2
  <2> HIDE DEF n, m, t, f
  <2>3. t - m = (t - n) + 1
    BY <2>1, <2>2
  <2>4. \A k \in Words : k < f + 1 => k < f \/ k = f
    BY <2>1 DEF Words
  <2>5. \A i \in 1 .. m : f + (i + 1) - 1 = f + 1 + i - 1
    BY <2>1
  <2> QED BY Zenon, <2>1, <2>3, <2>4, <2>5 DEF m, f
<1>10. \A i \in 1 .. Len(refill_fifo') : i + 1 \in 1 .. Len(refill_fifo) /\ refill_fifo'[i] = refill_fifo[i + 1]
  BY Zenon, <1>1, TailFacts
<1>11. \A i \in 1 .. Len(refill_fifo') :
         /\ refill_fifo'[i].kind = "GrantData" /\ ~refill_fifo'[i].denied
         /\ refill_fifo'[i].idx = First + (i + 1) - 1
         /\ refill_fifo'[i].data = golden[main.line][refill_fifo'[i].idx]
  BY Zenon, <1>5, <1>10 DEF Refilled, BeatsCurrent
<1>12. ASSUME NEW k \in Words, k < First + 1
       PROVE  data'[SetOf(main.line)][main.way][k] = golden[main.line][k]
  <2>1. CASE k = First
    BY Zenon, <1>8, <2>1 DEF DataWrote
  <2>2. CASE k # First /\ k < First
    <3>1. data'[SetOf(main.line)][main.way][k] = data[SetOf(main.line)][main.way][k]
      BY Zenon, <1>8, <2>2 DEF DataWrote
    <3> QED BY Zenon, <1>5, <2>2, <3>1 DEF Refilled, BeatsCurrent
  <2> QED BY Zenon, <1>9, <1>12, <2>1, <2>2
<1>13. BeatsCurrent'
  <2>1. /\ \A i \in 1 .. Len(refill_fifo') :
             /\ refill_fifo'[i].kind = "GrantData" /\ ~refill_fifo'[i].denied
             /\ refill_fifo'[i].idx = First' + i - 1
             /\ refill_fifo'[i].data = golden'[main'.line][refill_fifo'[i].idx]
    BY Zenon, <1>2, <1>3, <1>9, <1>11
  <2>2. \A k \in Words : k < First' => data'[SetOf(main'.line)][main'.way][k] = golden'[main'.line][k]
    BY Zenon, <1>2, <1>3, <1>9, <1>12
  <2> QED BY Zenon, <2>1, <2>2 DEF BeatsCurrent
<1>14. DataGrant' /\ (acq = None => refill_fifo'[1].kind = "GrantData")
  <2>1. acq = None => 1 \in 1 .. Len(refill_fifo')
    <3>1. refill_fifo' \in Seq(Beat)
      BY Zenon, <1>1, TailFacts
    <3> QED BY Zenon, <1>4, <3>1, TailFacts
  <2>2. acq = None => refill_fifo'[1].kind = "GrantData"
    BY Zenon, <1>11, <2>1
  <2>3. acq # None => acq.with_data
    BY Zenon, <1>1 DEF Refilled, GrantKinds
  <2> QED BY Zenon, <1>4, <2>2, <2>3 DEF DataGrant
<1>15. GrantKinds'
  BY Zenon, <1>1, <1>2, <1>4, <1>14 DEF Refilled, GrantKinds
<1>16. WayWaits'
  BY Zenon, <1>2, <1>3, <1>14 DEF WayWaits
<1> QED BY Zenon, <1>13, <1>15, <1>16 DEF Refilled

\* A clock cycle leaves the words of the grant in order.
LEMMA TickRefilled ==
    ASSUME DataInv, Beats', NEW in \in Inputs, Tick(in) PROVE Refilled'
<1>1. LockInv /\ Phases /\ TagsRead /\ Reports /\ Beats /\ Refilled
  BY Zenon DEF DataInv, ScInv, PermInv
<1>2. CASE miss'.state # "Fill"
  <2>1. acq' = None /\ refill_fifo' = <<>>
    BY Zenon, <1>2 DEF Beats
  <2>2. ~DataGrant'
    BY Zenon, <2>1 DEF DataGrant
  <2> QED BY Zenon, <1>2, <2>1, <2>2 DEF Refilled, GrantKinds, BeatsCurrent, WayWaits
<1>3. CASE fetch_miss
  BY Zenon, <1>3, RefillStarts
<1>4. CASE miss.state = "Fill" /\ ~refill_done /\ a_valid /\ in.a_ready
  BY Zenon, <1>1, <1>4, RefillAsks
<1>5. CASE miss.state = "Fill" /\ ~refill_done /\ ~(a_valid /\ in.a_ready)
  <2>1. acq' = acq /\ miss'.sent = miss.sent
    <3>1. miss'.sent = (miss.sent \/ (a_valid /\ in.a_ready))
      BY Zenon, <1>1, <1>5, FillStays
    <3>2. miss.sent \in BOOLEAN
      BY Zenon, <1>1 DEF LockInv, TypeOK, MissRegs
    <3> QED BY Zenon, <1>5, <3>1, <3>2, AcqTick
  <2>2. CASE refill_fifo_ready
    BY Zenon, <1>1, <1>5, <2>1, <2>2, RefillPops
  <2>3. CASE ~refill_fifo_ready
    BY Zenon, <1>1, <1>5, <2>1, <2>3, RefillWaits
  <2> QED BY Zenon, <2>2, <2>3
<1> QED BY Zenon, <1>1, <1>2, <1>3, <1>4, <1>5, FillBefore
===============================================================================
