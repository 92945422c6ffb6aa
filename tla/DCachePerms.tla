------------------------------ MODULE DCachePerms -----------------------------
(***************************************************************************)
(* What the manager's steps do to permissions, and with them that PermInv is*)
(* inductive; then reservations (ScInv).  At the end the part of the invariant*)
(* that is about data, DataInv, and that a clock cycle leaves every copy    *)
(* current.                                                                 *)
(*                                                                          *)
(* The argument for data: the latest value of a line is in memory, in a dirty*)
(* copy or in a writeback (MemoryCurrent); a writeback reads a way that nobody*)
(* touches while it holds the lock (Writeback); a grant brings the words of *)
(* memory in order, or finds them in the way of the upgrade (Refilled).     *)
(***************************************************************************)
EXTENDS DCacheSteps

\* A line is not no line, and OnLine tells lines apart.
LEMMA OnLineFacts ==
    /\ \A line \in Lines : OnLine(line) # None
    /\ \A l, m \in Lines : OnLine(l) = OnLine(m) => l = m
  BY DEF OnLine, None

\* The transaction of the miss machine, when there is one.
LEMMA AcqTypes ==
    ASSUME TypeOK, acq # None
    PROVE  /\ acq \in [kind : {"acq"}, line : Lines, param : GrowParams,
                       phase : {"req", "grant"}, cap : CapParams, with_data : BOOLEAN,
                       denied : BOOLEAN, beat : Words]
           /\ acq.line \in Lines
<1>1. acq \in AcqRecords /\ acq \notin NoneSet
  <2>1. \A x \in NoneSet : x = None
    BY DEF NoneSet, None
  <2> QED BY Zenon, <2>1 DEF TypeOK
<1>2. acq \in [kind : {"acq"}, line : Lines, param : GrowParams,
               phase : {"req", "grant"}, cap : CapParams, with_data : BOOLEAN,
               denied : BOOLEAN, beat : Words]
  BY Zenon, <1>1 DEF AcqRecords
<1> QED BY Zenon, <1>2

\* The beats when nothing is on its way but what the manager has.
LEMMA NoBeats ==
    ASSUME LockInv, Beats, acq # None, acq.phase = "req"
    PROVE  refill_fifo = <<>> /\ Len(refill_fifo) = 0 /\ 1 .. Len(refill_fifo) = {}
<1>1. refill_fifo \in Seq(Beat)
  BY Zenon, FifoTypes DEF LockInv
<1>2. Len(refill_fifo) <= acq.beat /\ acq.beat = 0
  BY Zenon DEF Beats
<1> QED BY <1>1, <1>2

\* The manager records the grant; the line is in no way and in no probe.
LEMMA GrantStep ==
    ASSUME PermInv, LockInv', EnvGrant PROVE PermInv'
<1> USE DEF PermInv
<1>1. /\ acq # None /\ acq.phase = "req" /\ OnLine(acq.line) # probing
      /\ UNCHANGED <<sram, regs, b, d, probing>>
  BY Zenon DEF EnvGrant
<1>2. TypeOK /\ acq.line \in Lines /\ acq.line = main.line /\ miss.state = "Fill" /\ miss.sent
      /\ ~acq.denied /\ acq.beat = 0 /\ refill.state = "Idle"
  BY Zenon, <1>1, AcqTypes DEF LockInv, Beats
<1>3. /\ refill' = refill /\ miss' = miss /\ main' = main /\ wb' = wb /\ tags' = tags /\ flush' = flush
      /\ b' = b /\ d' = d /\ probing' = probing
  BY Zenon, <1>1 DEF sram, regs
<1>4. /\ acq' # None /\ acq'.line = acq.line /\ acq'.phase = "grant" /\ acq'.beat = 0
      /\ \/ acq'.denied /\ acq.line \in Uncached /\ held' = held
         \/ \E cap \in {"toT", "toB"} :
              ~acq'.denied /\ acq'.cap = cap /\ held' = [held EXCEPT ![acq.line] = CapPerm(cap)]
  <2>1. PICK cap \in {"toT", "toB"}, with_data \in BOOLEAN :
           IF acq.line \in Uncached
           THEN /\ acq' = [acq EXCEPT !.phase = "grant", !.denied = TRUE, !.cap = "toN"]
                /\ held' = held
           ELSE /\ acq' = [acq EXCEPT !.phase = "grant", !.cap = cap, !.with_data = with_data]
                /\ held' = [held EXCEPT ![acq.line] = CapPerm(cap)]
    BY Zenon DEF EnvGrant
  <2>2. acq'.kind = "acq" /\ acq'.line = acq.line /\ acq'.phase = "grant" /\ acq'.beat = acq.beat
    BY Zenon, <1>1, <1>2, <2>1, AcqTypes
  <2>3. IF acq.line \in Uncached THEN acq'.denied ELSE acq'.denied = acq.denied /\ acq'.cap = cap
    BY Zenon, <1>1, <1>2, <2>1, AcqTypes
  <2>4. acq' # None
    BY <2>2 DEF None
  <2> QED BY Zenon, <1>2, <2>1, <2>2, <2>3, <2>4
<1>5. \A line \in Lines : line # acq.line => held'[line] = held[line]
  BY Zenon, <1>2, <1>4 DEF TypeOK
<1>6. TagsRead' /\ Phases' /\ Absent' /\ OneCopyPerLine' /\ Probes'
  BY Zenon, <1>1, CacheStill, ProbesStill
<1>7. Reports'
  <2>1. wb.state = "Progress" => wb.line # acq.line
    BY Zenon, <1>1, <1>2 DEF Reports, Releasing, Probes, Answering
  <2>2. wb.line \in Lines
    BY Zenon, <1>2 DEF TypeOK, WbRegs
  <2> QED BY Zenon, <1>1, <1>5, <2>1, <2>2, ReportsStill
<1>8. Granted'
  <2> SUFFICES ASSUME flush'.state # "Reset", NEW line \in Lines PROVE Within(line, held[line])'
    BY Zenon DEF Granted
  <2>1. CASE line = acq.line
    <3>1. Copies(line)' = {}
      BY Zenon, <1>2, <1>3, <2>1 DEF Absent, Copies
    <3> QED BY Zenon, <3>1 DEF Within
  <2>2. CASE line # acq.line
    BY Zenon, <1>3, <1>5, <2>2 DEF Granted, Within, Copies
  <2> QED BY Zenon, <2>1, <2>2
<1>9. Beats'
  <2>1. refill_fifo' = refill_fifo /\ (refill'.beat_saved => d_refill' /\ d'.last)
    BY Zenon, <1>3, FifoStill
  <2>2. refill_fifo' = <<>> /\ Len(refill_fifo') = 0 /\ 1 .. Len(refill_fifo') = {}
    BY Zenon, <1>1, <2>1, NoBeats
  <2>3. Len(refill_fifo') <= acq'.beat
    BY <1>4, <2>2
  <2>4. Agrees(acq.denied, acq.cap)'
    <3>1. CASE acq'.denied /\ acq.line \in Uncached
      BY Zenon, <1>2, <1>3, <3>1 DEF Agrees
    <3>2. CASE \E cap \in {"toT", "toB"} :
                 ~acq'.denied /\ acq'.cap = cap /\ held' = [held EXCEPT ![acq.line] = CapPerm(cap)]
      <4>1. PICK cap \in {"toT", "toB"} :
              ~acq'.denied /\ acq'.cap = cap /\ held' = [held EXCEPT ![acq.line] = CapPerm(cap)]
        BY Zenon, <3>2
      <4>2. held'[acq.line] = CapPerm(cap)
        BY Zenon, <1>2, <4>1 DEF TypeOK
      <4> QED BY Zenon, <1>2, <1>3, <4>1, <4>2 DEF Agrees
    <3> QED BY Zenon, <1>4, <3>1, <3>2
  <2> QED BY Zenon, <1>1, <1>2, <1>3, <1>4, <2>1, <2>2, <2>3, <2>4 DEF Beats
<1> QED BY Zenon, <1>6, <1>7, <1>8, <1>9

\* The manager sends a probe only when no other is on its way.
LEMMA EnvProbeStep ==
    ASSUME PermInv, LockInv', NEW line \in Lines, NEW cap, EnvProbe(line, cap) PROVE PermInv'
<1> USE DEF PermInv
<1>1. /\ probing = None /\ probing' = OnLine(line) /\ b' = [kind |-> "probe", line |-> line, param |-> cap]
      /\ acq # None => acq.line # line \/ acq.phase = "req"
      /\ UNCHANGED <<sram, regs, d, acq, held>>
  BY Zenon DEF EnvProbe
<1>2. b' # None /\ b'.line = line
  BY <1>1 DEF None
<1>3. /\ refill' = refill /\ miss' = miss /\ main' = main /\ wb' = wb /\ probe' = probe /\ acq' = acq
      /\ d' = d /\ held' = held
  BY Zenon, <1>1 DEF regs
<1>4. TagsRead' /\ Phases' /\ Absent' /\ OneCopyPerLine' /\ Reports' /\ Granted'
  BY Zenon, <1>1, CacheStill, ReportsStill, GrantedStill
<1>5. Probes'
  <2>1. probe.state # "Check" /\ ~Answering
    <3>1. probe.line \in Lines /\ wb.line \in Lines
      BY Zenon DEF LockInv, TypeOK, ProbeRegs, WbRegs
    <3> QED BY Zenon, <1>1, <3>1, OnLineFacts DEF Probes
  <2>2. probe.state = "Idle"
    BY Zenon, <2>1 DEF LockInv, TypeOK, ProbeRegs
  <2> QED BY Zenon, <1>1, <1>2, <1>3, <2>1, <2>2 DEF Probes, Answering, Releasing
<1>6. Beats'
  <2>1. acq # None /\ acq.phase = "grant" => probing' # OnLine(acq.line)
    <3>1. acq # None => acq.line \in Lines
      BY Zenon, AcqTypes DEF LockInv
    <3> QED BY Zenon, <1>1, <3>1, OnLineFacts
  <2> QED BY Zenon, <1>2, <1>3, <2>1, BeatsStill
<1> QED BY Zenon, <1>4, <1>5, <1>6

\* The manager's other answers, and the writes of its other clients.
LEMMA AnswerStep ==
    ASSUME PermInv, LockInv',
           EnvReleaseAck \/ EnvAccess \/ \E line \in Lines, word \in Words : \E value : EnvOtherWrite(line, word, value)
    PROVE  PermInv'
<1> USE DEF PermInv
<1>1. /\ UNCHANGED <<sram, regs, b, acq, probing, held>>
      /\ d' = d \/ (d = None /\ (d' = [kind |-> "ReleaseAck"] \/ \E x, y : d' = [kind |-> "AccessAck", denied |-> x, data |-> y]))
  BY Zenon DEF EnvReleaseAck, EnvAccess, EnvOtherWrite
<1>2. d' = d \/ (d = None /\ ~d_refill')
  BY <1>1 DEF d_refill
<1>3. /\ refill' = refill /\ miss' = miss /\ main' = main /\ b' = b /\ acq' = acq /\ probing' = probing /\ held' = held
  BY Zenon, <1>1 DEF regs
<1>4. TagsRead' /\ Phases' /\ Absent' /\ OneCopyPerLine' /\ Reports' /\ Granted' /\ Probes'
  BY Zenon, <1>1, <1>3, CacheStill, ReportsStill, GrantedStill, ProbesStill
<1>5. Beats'
  BY Zenon, <1>2, <1>3, BeatsStill
<1> QED BY Zenon, <1>4, <1>5

\* The TLB answers.
LEMMA TranslateStep ==
    ASSUME PermInv, LockInv', NEW outcome \in {"ok", "fault"}, EnvTranslate(outcome)
    PROVE  PermInv'
<1> USE DEF PermInv
<1>1. /\ UNCHANGED <<sram, wb, refill, probe, flush, miss, manager>>
      /\ main' = [main EXCEPT !.ppn = outcome]
  BY Zenon DEF EnvTranslate
<1>2. /\ main'.state = main.state /\ main'.line = main.line /\ main'.op = main.op /\ main'.ppn = outcome
  <2>1. main \in MainRegs
    BY Zenon DEF LockInv, TypeOK
  <2> QED BY <1>1, <2>1 DEF MainRegs
<1>3. /\ tags' = tags /\ tag_rd' = tag_rd /\ tag_rd_addr' = tag_rd_addr /\ wb' = wb /\ refill' = refill
      /\ probe' = probe /\ flush' = flush /\ miss' = miss /\ b' = b /\ d' = d /\ acq' = acq
      /\ probing' = probing /\ held' = held
  BY Zenon, <1>1 DEF sram, manager
<1>4. TagsRead' /\ Phases'
  BY Zenon, <1>2, <1>3 DEF TagsRead, Phases
<1>5. Absent' /\ OneCopyPerLine'
  BY Zenon, <1>2, <1>3 DEF Absent, Copies, OneCopyPerLine
<1>6. Probes' /\ Granted'
  BY Zenon, <1>3 DEF Probes, Answering, Releasing, Granted, Within, Copies
<1>7. Reports'
  <2>1. wb'.state = "Progress" => Within(wb.line, ReportPerm(wb.param))' /\ PermLeq(ReportPerm(wb.param), held[wb.line])'
    BY Zenon, <1>3 DEF Reports, Within, Copies, PermLeq
  <2> QED BY Zenon, <1>2, <1>3, <2>1 DEF Reports, Releasing
<1>8. Beats'
  BY Zenon, <1>2, <1>3, BeatsStill
<1> QED BY Zenon, <1>4, <1>5, <1>6, <1>7, <1>8

\* A beat leaves the manager for channel D, and is in the FIFO the same moment.
LEMMA BeatSent ==
    ASSUME LockInv, Beats, EnvGrantBeat
    PROVE  /\ refill_fifo' = Append(refill_fifo, d') /\ ~refill'.beat_saved /\ refill_fifo \in Seq(Beat)
           /\ d' \in Beat /\ d'.param = acq.cap /\ d'.denied = acq.denied
           /\ d'.idx = acq.beat /\ d'.data = mem[acq.line][acq.beat]
           /\ d'.kind = (IF acq.with_data THEN "GrantData" ELSE "Grant")
           /\ d'.last <=> ~acq.with_data \/ acq.beat = NumBeats - 1
           /\ d'.last => acq' = None
           /\ ~d'.last => /\ acq' # None /\ acq'.line = acq.line /\ acq'.phase = acq.phase /\ acq'.param = acq.param
                          /\ acq'.with_data = acq.with_data /\ acq'.denied = acq.denied /\ acq'.cap = acq.cap
                          /\ acq'.beat = acq.beat + 1
<1> DEFINE last == ~acq.with_data \/ acq.beat = NumBeats - 1
<1>1. /\ d = None /\ refill' = refill /\ acq # None
      /\ d' = [kind |-> IF acq.with_data THEN "GrantData" ELSE "Grant", param |-> acq.cap,
               idx |-> acq.beat, last |-> last, denied |-> acq.denied, data |-> mem[acq.line][acq.beat]]
      /\ acq' = IF last THEN None ELSE [acq EXCEPT !.beat = @ + 1]
  BY Zenon DEF EnvGrantBeat, regs
<1>2. /\ acq \in [kind : {"acq"}, line : Lines, param : GrowParams, phase : {"req", "grant"}, cap : CapParams,
                  with_data : BOOLEAN, denied : BOOLEAN, beat : Words]
      /\ mem \in [Lines -> [Words -> Values]]
  BY Zenon, <1>1, AcqTypes DEF LockInv, TypeOK
<1>3. last \in BOOLEAN
  OBVIOUS
<1> HIDE DEF last
<1>4. /\ d'.param = acq.cap /\ d'.denied = acq.denied /\ d'.idx = acq.beat /\ d'.data = mem[acq.line][acq.beat]
      /\ d'.kind = (IF acq.with_data THEN "GrantData" ELSE "Grant") /\ d'.last = last
  BY Zenon, <1>1
<1>5. d' \in Beat
  BY <1>1, <1>2, <1>3 DEF Beat
<1>6. last => acq' = None
  BY Zenon, <1>1
<1>7. ~last => /\ acq' # None /\ acq'.line = acq.line /\ acq'.phase = acq.phase /\ acq'.param = acq.param
               /\ acq'.with_data = acq.with_data /\ acq'.denied = acq.denied /\ acq'.cap = acq.cap
               /\ acq'.beat = acq.beat + 1
  <2> SUFFICES ASSUME ~last
               PROVE  /\ acq' # None /\ acq'.line = acq.line /\ acq'.phase = acq.phase /\ acq'.param = acq.param
                      /\ acq'.with_data = acq.with_data /\ acq'.denied = acq.denied /\ acq'.cap = acq.cap
                      /\ acq'.beat = acq.beat + 1
    BY Zenon
  <2>1. acq' = [acq EXCEPT !.beat = acq.beat + 1]
    BY Zenon, <1>1
  <2>2. /\ acq'.kind = "acq" /\ acq'.line = acq.line /\ acq'.phase = acq.phase /\ acq'.param = acq.param
        /\ acq'.with_data = acq.with_data /\ acq'.denied = acq.denied /\ acq'.cap = acq.cap
        /\ acq'.beat = acq.beat + 1
    BY Zenon, <1>2, <2>1
  <2>3. acq' # None
    BY <2>2 DEF None
  <2> QED BY Zenon, <2>2, <2>3
<1>8. ~d_refill /\ d_refill'
  BY Zenon, <1>1, <1>4 DEF d_refill, None
<1>9. ~refill.beat_saved
  BY Zenon, <1>8 DEF Beats
<1>10. refill_fifo = refill.fifo /\ refill_fifo' = Append(refill.fifo, d')
  BY Zenon, <1>1, <1>8, <1>9 DEF refill_fifo, refill_fifo_insert
<1>11. refill_fifo \in Seq(Beat)
  BY Zenon, FifoTypes DEF LockInv
<1> QED BY Zenon, <1>1, <1>4, <1>5, <1>6, <1>7, <1>9, <1>10, <1>11 DEF last

\* What the FIFO holds after one more beat.
LEMMA AppendFacts ==
    ASSUME NEW s \in Seq(Beat), NEW x \in Beat
    PROVE  /\ Append(s, x) \in Seq(Beat) /\ Append(s, x) # <<>>
           /\ Len(s) \in Nat /\ Len(Append(s, x)) = Len(s) + 1
           /\ \A i \in 1 .. Len(Append(s, x)) :
                \/ i \in 1 .. Len(s) /\ i # Len(Append(s, x)) /\ Append(s, x)[i] = s[i]
                \/ i = Len(Append(s, x)) /\ i = Len(s) + 1 /\ Append(s, x)[i] = x
<1>1. Append(s, x) \in Seq(Beat) /\ Append(s, x) # <<>> /\ Len(s) \in Nat /\ Len(Append(s, x)) = Len(s) + 1
  OBVIOUS
<1>2. \A i \in 1 .. Len(s) : Append(s, x)[i] = s[i]
  OBVIOUS
<1>3. Append(s, x)[Len(s) + 1] = x
  OBVIOUS
<1>4. ASSUME NEW n \in Nat PROVE \A i \in 1 .. n + 1 : (i \in 1 .. n /\ i # n + 1) \/ i = n + 1
  OBVIOUS
<1>5. 1 .. Len(Append(s, x)) = 1 .. Len(s) + 1
  BY Zenon, <1>1
<1> QED BY Zenon, <1>1, <1>2, <1>3, <1>4, <1>5

\* One more beat of the grant is on channel D.
LEMMA GrantBeatStep ==
    ASSUME PermInv, LockInv', EnvGrantBeat PROVE PermInv'
<1> USE DEF PermInv
<1>1. acq # None /\ acq.phase = "grant" /\ UNCHANGED <<sram, regs, b, probing, held>>
  BY Zenon DEF EnvGrantBeat
<1>2. /\ refill' = refill /\ miss' = miss /\ main' = main /\ b' = b /\ probing' = probing /\ held' = held
  BY Zenon, <1>1 DEF regs
<1>3. TagsRead' /\ Phases' /\ Absent' /\ OneCopyPerLine' /\ Reports' /\ Granted' /\ Probes'
  BY Zenon, <1>1, <1>2, CacheStill, ReportsStill, GrantedStill, ProbesStill
<1>4. /\ acq.line = main.line /\ Len(refill_fifo) <= acq.beat /\ miss.state = "Fill" /\ miss.sent
      /\ \A i \in 1 .. Len(refill_fifo) : ~refill_fifo[i].last
      /\ Agrees(acq.denied, acq.cap) /\ probing # OnLine(main.line)
      /\ \A i \in 1 .. Len(refill_fifo) : Agrees(refill_fifo[i].denied, refill_fifo[i].param)
  BY Zenon, <1>1 DEF Beats
<1>5. /\ refill_fifo' = Append(refill_fifo, d') /\ ~refill'.beat_saved /\ refill_fifo \in Seq(Beat) /\ d' \in Beat
      /\ d'.param = acq.cap /\ d'.denied = acq.denied
  BY Zenon, BeatSent
<1>6. /\ refill_fifo' # <<>> /\ Len(refill_fifo) \in Nat /\ Len(refill_fifo') = Len(refill_fifo) + 1
      /\ \A i \in 1 .. Len(refill_fifo') :
           \/ i \in 1 .. Len(refill_fifo) /\ i # Len(refill_fifo') /\ refill_fifo'[i] = refill_fifo[i]
           \/ i = Len(refill_fifo') /\ refill_fifo'[i] = d'
  BY Zenon, <1>5, AppendFacts
<1>7. Len(refill_fifo') <= acq.beat + 1 /\ Len(refill_fifo') <= NumBeats
  <2> DEFINE n == Len(refill_fifo)  m == Len(refill_fifo')  k == acq.beat
  <2>1. n \in Nat /\ m = n + 1 /\ n <= k /\ k \in Words
    BY Zenon, <1>1, <1>4, <1>6, AcqTypes DEF LockInv
  <2> HIDE DEF n, m, k
  <2>2. m <= k + 1 /\ m <= NumBeats
    BY <2>1, DCacheAssumption DEF Words
  <2> QED BY Zenon, <2>2 DEF m, k
<1>8. ASSUME NEW i \in 1 .. Len(refill_fifo') PROVE Agrees(refill_fifo[i].denied, refill_fifo[i].param)'
  <2>1. Agrees(refill_fifo'[i].denied, refill_fifo'[i].param)
    BY Zenon, <1>4, <1>5, <1>6
  <2> QED BY Zenon, <1>2, <2>1 DEF Agrees
<1>9. CASE d'.last
  <2>1. acq' = None
    BY Zenon, <1>9, BeatSent
  <2>2. \A i \in 1 .. Len(refill_fifo') : refill_fifo'[i].last <=> i = Len(refill_fifo')
    BY Zenon, <1>4, <1>6, <1>9
  <2>3. Beats'
    BY Zenon, <1>2, <1>4, <1>5, <1>6, <1>7, <1>8, <2>1, <2>2 DEF Beats
  <2> QED BY Zenon, <1>3, <2>3
<1>10. CASE ~d'.last
  <2>1. /\ acq' # None /\ acq'.line = acq.line /\ acq'.phase = "grant"
        /\ acq'.denied = acq.denied /\ acq'.cap = acq.cap /\ acq'.beat = acq.beat + 1
    BY Zenon, <1>1, <1>10, BeatSent
  <2>2. \A i \in 1 .. Len(refill_fifo') : ~refill_fifo'[i].last
    BY Zenon, <1>4, <1>6, <1>10
  <2>3. Agrees(acq.denied, acq.cap)'
    BY Zenon, <1>2, <1>4, <2>1 DEF Agrees
  <2>4. Beats'
    BY Zenon, <1>2, <1>4, <1>5, <1>6, <1>7, <1>8, <2>1, <2>2, <2>3 DEF Beats
  <2> QED BY Zenon, <1>3, <2>4
<1> QED BY Zenon, <1>9, <1>10

-----------------------------------------------------------------------------
\* The reset state: nothing is in progress but the clearing of the tags.
LEMMA InitPerm == Init => PermInv
<1> SUFFICES ASSUME Init PROVE PermInv
  BY Zenon
<1>1. LockInv
  BY Zenon, InitLock
<1>2. /\ main.state = "Idle" /\ main.ppn = "ok" /\ probe.state = "Idle" /\ miss.state = "Idle" /\ wb.state = "Idle"
      /\ flush.state = "Reset" /\ flush.index = 0 /\ refill.state = "Idle" /\ refill.fifo = <<>> /\ ~refill.beat_saved
      /\ b = None /\ d = None /\ acq = None
  BY Zenon DEF Init, MainReset, ProbeReset, MissReset, WbReset
<1>3. TagsRead /\ Phases /\ Probes /\ Reports /\ OneCopyPerLine /\ Granted
  BY Zenon, <1>2 DEF TagsRead, Phases, Probes, Answering, Releasing, Reports, OneCopyPerLine, Granted
<1>4. \A s \in Sets : ~(s < 0)
  <2>1. PICK n \in Int : Sets = 0 .. n - 1
    BY Zenon, SetsRange
  <2> QED BY <2>1
<1>5. Absent
  BY Zenon, <1>2, <1>4 DEF Absent
<1>6. refill_fifo = <<>>
  BY Zenon, <1>2 DEF refill_fifo, refill_fifo_insert, d_refill, None
<1>7. Len(refill_fifo) <= NumBeats /\ 1 .. Len(refill_fifo) = {}
  BY <1>6, DCacheAssumption
<1>8. Beats
  BY Zenon, <1>2, <1>6, <1>7 DEF Beats
<1> QED BY Zenon, <1>1, <1>3, <1>5, <1>8 DEF PermInv

\* PermInv is inductive.
LEMMA PermStep == PermInv /\ [Next]_vars => PermInv'
<1> SUFFICES ASSUME PermInv, [Next]_vars PROVE PermInv'
  BY Zenon
<1>1. LockInv'
  BY Zenon, LockStep DEF PermInv
<1>2. ASSUME NEW in \in Inputs, Tick(in) PROVE PermInv'
  BY Zenon, <1>1, <1>2, TickReads, TickPhases, TickProbes, TickReports, TickAbsent, TickOneCopy, TickGranted,
     TickBeats DEF PermInv
<1>3. CASE Env
  <2>1. \A lw \in Written : lw[1] \in Lines /\ lw[2] \in Words
    BY DCacheAssumption DEF Lines, Words
  <2> QED BY Zenon, <1>1, <1>3, <2>1, GrantStep, GrantBeatStep, EnvProbeStep, AnswerStep, TranslateStep DEF Env
<1>4. CASE UNCHANGED vars
  <2>1. UNCHANGED <<sram, regs, b, d, acq, probing, held>>
    BY Zenon, <1>4 DEF vars, manager
  <2>2. refill' = refill /\ miss' = miss /\ main' = main
    BY Zenon, <2>1 DEF regs
  <2> QED BY Zenon, <1>1, <2>1, <2>2, CacheStill, ReportsStill, GrantedStill, ProbesStill, BeatsStill DEF PermInv
<1> QED BY Zenon, <1>2, <1>3, <1>4 DEF Next

\* The least permission that covers the copies of a line is what the cache has.
LEMMA WithinMeaning ==
    ASSUME NEW line \in Lines, NEW p \in Perms, Within(line, p) PROVE PermLeq(CachePerm(line), p)
  BY Zenon DEF Within, CachePerm, PermLeq, Perms

\* A line is never valid in two ways of its set (the tags the hit logic of
\* muntjac_dcache compares), for any number of ways, sets and lines.
THEOREM DCacheOneCopy == Spec => []OneCopyPerLine
<1>1. PermInv => OneCopyPerLine
  BY Zenon DEF PermInv
<1> QED BY <1>1, InitPerm, PermStep, PTL DEF Spec

\* The tags of muntjac_dcache never promise more on a line than the manager has
\* on record, whatever the order of grants, probes and voluntary releases.
THEOREM DCachePermissions == Spec => []NoMoreThanGranted
<1>1. PermInv => NoMoreThanGranted
  BY Zenon, WithinMeaning DEF PermInv, LockInv, TypeOK, Granted, NoMoreThanGranted
<1> QED BY <1>1, InitPerm, PermStep, PTL DEF Spec

\* The refill FIFO never has to take more beats than it is deep, although its
\* ready signal is not looked at on channel D.
THEOREM DCacheFifo == Spec => []RefillFifoFits
<1>1. ASSUME PermInv PROVE RefillFifoFits
  <2>1. Len(refill_fifo) <= NumBeats
    <3>1. CASE acq = None
      BY Zenon, <1>1, <3>1 DEF PermInv, Beats
    <3>2. CASE acq # None
      <4>1. TypeOK /\ Len(refill_fifo) <= acq.beat
        BY Zenon, <1>1, <3>2 DEF PermInv, LockInv, Beats
      <4>2. acq.beat \in Words /\ refill_fifo \in Seq(Beat)
        BY Zenon, <3>2, <4>1, AcqTypes, FifoTypes
      <4>3. Len(refill_fifo) \in Nat
        BY <4>2
      <4> QED BY <4>1, <4>2, <4>3, DCacheAssumption DEF Words
    <3> QED BY Zenon, <3>1, <3>2
  <2>2. refill.fifo \in Seq(Beat) /\ d \in DMsgs
    BY Zenon, <1>1 DEF PermInv, LockInv, TypeOK, RefillRegs
  <2>3. CASE ~refill_fifo_insert
    BY Zenon, <2>1, <2>3 DEF refill_fifo, RefillFifoFits
  <2>4. CASE refill_fifo_insert
    <3>1. refill_fifo = Append(refill.fifo, d)
      BY Zenon, <2>4 DEF refill_fifo
    <3>2. Len(refill_fifo) = Len(refill.fifo) + 1 /\ Len(refill.fifo) \in Nat
      BY <2>2, <3>1
    <3> QED BY <2>1, <3>2, DCacheAssumption DEF RefillFifoFits
  <2> QED BY Zenon, <2>3, <2>4
<1> QED BY <1>1, InitPerm, PermStep, PTL DEF Spec

-----------------------------------------------------------------------------
(* Reservations *)

\* A reservation belongs to the LR in progress or answered last; while the line is
\* still writable nobody else can have written it since.
Writable(line) == flush.state # "Reset" /\ \E w \in Copies(line) : tags[SetOf(line)][w].writable
Reserved ==
    /\ main.state # "Idle" => (main.reserved <=> main.op = "LR")
    /\ main.state # "Idle" /\ main.reserved => main.reservation = main.line
    /\ main.state = "Idle" /\ main.reserved /\ Writable(main.reservation)
         => since_lr = OnLine(main.reservation)
    /\ main.state # "Idle" /\ main.op = "SC" /\ ~main.reservation_failed /\ Writable(main.line)
         => since_lr = OnLine(main.line)
    /\ main.reservation_failed => main.op = "SC" /\ main.state # "Idle"
ScInv == PermInv /\ Reserved

LaterWritable(line) ==
    flush'.state # "Reset" /\ \E w \in LaterCopies(line) : tags'[SetOf(line)][w].writable

\* Only a refill makes a line writable.
LEMMA WritableBefore ==
    ASSUME PermInv, NEW in \in Inputs, Tick(in), NEW line \in Lines, LaterWritable(line),
           main.state = "Fill" => line # main.line
    PROVE  Writable(line)
<1> USE DEF PermInv
<1>1. TagPort(in)
  BY Zenon DEF Tick
<1>2. flush.state # "Reset"
  BY Zenon, Cleared, LineTypes DEF LaterWritable, LaterCopies
<1>3. refill_tag_write_req => main.state = "Fill"
  BY Zenon, Signals DEF Beats, Phases
<1> QED BY Zenon, <1>1, <1>2, <1>3, CopiesKept DEF LaterWritable, Writable

\* When the cache answers, and in which states.
LEMMA ResponseFacts ==
    ASSUME PermInv
    PROVE  /\ main.state = "Exception" \/ responding => response # None
           /\ main.state # "Exception" /\ ~responding => response = None
           /\ responding => main.state \in {"Fetch", "Fill"}
           /\ fetch_hit \/ fetch_sc_fail \/ miss_resp_valid <=> responding
           /\ main.state # "Fill" => ~miss_resp_valid
<1>1. main.state = "Exception" \/ responding => response # None
  <2>1. \A v : [kind |-> "resp", value |-> v] # None /\ [kind |-> "ex"] # None
    BY DEF None
  <2> QED BY Zenon, <2>1 DEF response
<1>2. fetch_hit \/ fetch_sc_fail => main.state = "Fetch"
  BY Zenon, Signals DEF PermInv
<1>3. miss_resp_valid => main.state = "Fill"
  BY Zenon DEF PermInv, Phases, miss_resp_valid
<1> QED BY Zenon, <1>1, <1>2, <1>3 DEF response, responding

\* A clock cycle keeps the reservation with the LR it belongs to.
LEMMA TickReserved ==
    ASSUME ScInv, NEW in \in Inputs, Tick(in) PROVE Reserved'
<1>1. PermInv /\ LockInv /\ TypeOK /\ Phases /\ MainStep(in) /\ main.line \in Lines /\ main.reservation \in Lines
  BY Zenon DEF ScInv, PermInv, LockInv, TypeOK, MainRegs, Tick
<1>2. since_lr' = IF response = None THEN since_lr
                  ELSE IF main.op = "LR" THEN OnLine(main.line) ELSE None
  BY Zenon DEF Tick, Observe
<1>3. /\ Writable(main.line)' <=> LaterWritable(main'.line)
      /\ Writable(main.reservation)' <=> LaterWritable(main'.reservation)
  BY Zenon DEF Writable, LaterWritable, Copies, LaterCopies
<1>4. CASE in.req # None
  <2>1. /\ req_ready /\ in.req \in Request /\ main'.line = in.req.line /\ main'.op = in.req.op
        /\ main'.reserved = (in.req.op = "LR") /\ main'.reservation = in.req.line
        /\ main'.reservation_failed =
             (in.req.op = "SC" /\ (in.req.line # main.reservation \/ ~main.reserved))
    BY Zenon, <1>1, <1>4, Accepts
  <2>2. main'.state # "Idle"
    BY Zenon, <1>1, <1>4, Accepts
  <2>3. main.state = "Idle" \/ (main.state = "Fetch" /\ (fetch_hit \/ main.op = "SC"))
    BY Zenon, <1>1, <2>1, Signals DEF req_ready, translated, fetching
  <2>4. ASSUME main'.op = "SC", ~main'.reservation_failed, LaterWritable(main'.line)
        PROVE  since_lr' = OnLine(main'.line)
    <3>1. main.reserved /\ main'.line = main.reservation
      BY Zenon, <2>1, <2>4
    <3>2. Writable(main.reservation)
      BY Zenon, <1>1, <2>3, <2>4, <3>1, WritableBefore
    <3>3. CASE main.state = "Idle"
      <4>1. response = None
        BY Zenon, <1>1, <3>3, ResponseFacts
      <4>2. since_lr = OnLine(main.reservation)
        BY Zenon, <3>1, <3>2, <3>3 DEF ScInv, Reserved
      <4> QED BY Zenon, <1>2, <3>1, <4>1, <4>2
    <3>4. CASE main.state = "Fetch" /\ (fetch_hit \/ main.op = "SC")
      <4>1. main.op = "LR" /\ main.reservation = main.line
        BY Zenon, <3>1, <3>4 DEF ScInv, Reserved
      <4>2. response # None
        BY Zenon, <1>1, <3>4, <4>1, ResponseFacts
      <4> QED BY Zenon, <1>2, <3>1, <4>1, <4>2
    <3> QED BY Zenon, <2>3, <3>3, <3>4
  <2> QED BY Zenon, <1>3, <2>1, <2>2, <2>4 DEF Reserved
<1>5. CASE in.req = None
  <2>1. /\ main'.state = main_state(in) /\ main'.reserved = main.reserved
        /\ main'.reserved => main'.reservation = main.reservation
    BY Zenon, <1>1, <1>5, Continues
  <2>2. CASE main'.state # "Idle"
    <3>1. /\ main'.line = main.line /\ main'.op = main.op /\ main'.reservation_failed = main.reservation_failed
      BY Zenon, <1>1, <1>5, <2>2, Continues
    <3>2. main.state # "Idle" /\ main.state # "Exception" /\ ~fetch_hit /\ ~fetch_sc_fail
      BY Zenon, <1>1, <2>1, <2>2, StateMoves
    <3>3. ASSUME main.op = "SC", ~main.reservation_failed, LaterWritable(main.line)
          PROVE  since_lr' = OnLine(main.line)
      <4>1. main.state # "Fill"
        BY Zenon, <1>1, <3>3 DEF Phases
      <4>2. Writable(main.line)
        BY Zenon, <1>1, <3>3, <4>1, WritableBefore
      <4>3. response = None
        BY Zenon, <1>1, <3>2, <4>1, ResponseFacts
      <4> QED BY Zenon, <1>2, <3>2, <3>3, <4>2, <4>3 DEF ScInv, Reserved
    <3> QED BY Zenon, <1>3, <2>1, <2>2, <3>1, <3>2, <3>3 DEF ScInv, Reserved
  <2>3. CASE main'.state = "Idle"
    <3>1. ~main'.reservation_failed
      BY Zenon, <1>1, <1>5, <2>3, Continues
    <3>2. ASSUME main'.reserved, LaterWritable(main'.reservation) PROVE since_lr' = OnLine(main'.reservation)
      <4>1. main.reserved /\ main'.reservation = main.reservation
        BY Zenon, <2>1, <3>2
      <4>2. CASE main.state = "Idle"
        <5>1. Writable(main.reservation)
          BY Zenon, <1>1, <3>2, <4>1, <4>2, WritableBefore
        <5>2. response = None
          BY Zenon, <1>1, <4>2, ResponseFacts
        <5> QED BY Zenon, <1>2, <4>1, <4>2, <5>1, <5>2 DEF ScInv, Reserved
      <4>3. CASE main.state # "Idle"
        <5>1. main.op = "LR" /\ main.reservation = main.line
          BY Zenon, <4>1, <4>3 DEF ScInv, Reserved
        <5>2. response # None
          BY Zenon, <1>1, <2>1, <2>3, <4>3, StateMoves, ResponseFacts
        <5> QED BY Zenon, <1>2, <4>1, <5>1, <5>2
      <4> QED BY Zenon, <4>2, <4>3
    <3> QED BY Zenon, <1>3, <2>3, <3>1, <3>2 DEF Reserved
  <2> QED BY Zenon, <2>2, <2>3
<1> QED BY Zenon, <1>4, <1>5

\* Reserved depends on these registers.
LEMMA ReservedStill ==
    ASSUME UNCHANGED <<sram, regs, since_lr>>, Reserved PROVE Reserved'
<1>1. tags' = tags /\ flush' = flush /\ main' = main /\ since_lr' = since_lr
  BY Zenon DEF sram, regs
<1>2. /\ Writable(main.line)' <=> Writable(main.line)
      /\ Writable(main.reservation)' <=> Writable(main.reservation)
  BY Zenon, <1>1 DEF Writable, Copies
<1> QED BY Zenon, <1>1, <1>2 DEF Reserved

\* Nobody else writes a line that this cache has for writing.
LEMMA EnvReserved ==
    ASSUME ScInv, Env PROVE Reserved'
<1>1. CASE EnvGrant \/ EnvGrantBeat \/ EnvReleaseAck \/ EnvAccess \/ \E line \in Lines, cap \in {"toN", "toB"} : EnvProbe(line, cap)
  <2>1. UNCHANGED <<sram, regs, since_lr>>
    BY Zenon, <1>1 DEF EnvGrant, EnvGrantBeat, EnvReleaseAck, EnvAccess, EnvProbe, observers
  <2> QED BY Zenon, <2>1, ReservedStill DEF ScInv
<1>2. ASSUME NEW line \in Lines, NEW word, NEW value, EnvOtherWrite(line, word, value) PROVE Reserved'
  <2>1. /\ held[line] = "N" /\ UNCHANGED <<sram, regs>>
        /\ since_lr' = IF since_lr = OnLine(line) THEN None ELSE since_lr
    BY Zenon, <1>2 DEF EnvOtherWrite
  <2>2. tags' = tags /\ flush' = flush /\ main' = main
    BY Zenon, <2>1 DEF sram, regs
  <2>3. main.line \in Lines /\ main.reservation \in Lines
    BY Zenon DEF ScInv, PermInv, LockInv, TypeOK, MainRegs
  <2>4. ~Writable(line)
    BY Zenon, <2>1 DEF ScInv, PermInv, Granted, Within, Writable
  <2>5. /\ Writable(main.line)' <=> Writable(main.line)
        /\ Writable(main.reservation)' <=> Writable(main.reservation)
    BY Zenon, <2>2 DEF Writable, Copies
  <2>6. /\ Writable(main.line) /\ since_lr = OnLine(main.line) => since_lr' = OnLine(main.line)
        /\ Writable(main.reservation) /\ since_lr = OnLine(main.reservation) => since_lr' = OnLine(main.reservation)
    BY Zenon, <2>1, <2>3, <2>4, OnLineFacts
  <2> QED BY Zenon, <2>2, <2>5, <2>6 DEF ScInv, Reserved
<1>3. ASSUME NEW outcome, EnvTranslate(outcome) PROVE Reserved'
  <2>1. /\ tags' = tags /\ flush' = flush /\ since_lr' = since_lr /\ main' = [main EXCEPT !.ppn = outcome]
    BY Zenon, <1>3 DEF EnvTranslate, sram, observers
  <2>2. /\ main'.state = main.state /\ main'.line = main.line /\ main'.op = main.op
        /\ main'.reserved = main.reserved /\ main'.reservation = main.reservation
        /\ main'.reservation_failed = main.reservation_failed
    <3>1. main \in MainRegs
      BY Zenon DEF ScInv, PermInv, LockInv, TypeOK
    <3> QED BY <2>1, <3>1 DEF MainRegs
  <2>3. /\ Writable(main.line)' <=> Writable(main.line)
        /\ Writable(main.reservation)' <=> Writable(main.reservation)
    BY Zenon, <2>1, <2>2 DEF Writable, Copies
  <2> QED BY Zenon, <2>1, <2>2, <2>3 DEF ScInv, Reserved
<1>4. \A lw \in Written : lw[1] \in Lines
  BY DCacheAssumption DEF Lines
<1> QED BY Zenon, <1>1, <1>2, <1>3, <1>4 DEF Env

\* An SC that writes has the line for writing.
LEMMA ScMeaning == ScInv => ScIsAtomic
<1> SUFFICES ASSUME ScInv, access_data_write_req, main.op = "SC" PROVE since_lr = OnLine(main.line)
  BY Zenon DEF ScIsAtomic
<1>1. PermInv /\ LockInv /\ TypeOK /\ TagsRead
  BY Zenon DEF ScInv, PermInv, LockInv
<1>2. main.state = "Fetch" /\ fetch_hit /\ hit # {} /\ hit_tag.writable /\ ~main.reservation_failed /\ nothing_in_progress
  BY Zenon, <1>1, Signals DEF access_data_write_req, fetch_hit
<1>3. flush.state # "Reset"
  BY Zenon, <1>1, <1>2, Holder
<1>4. hit_way \in Copies(main.line) /\ hit_tag = tags[SetOf(main.line)][hit_way]
  BY Zenon, <1>1, <1>2, HitWay, HitCopies DEF hit_tag, TagsRead
<1>5. Writable(main.line)
  BY Zenon, <1>2, <1>3, <1>4 DEF Writable
<1> QED BY Zenon, <1>2, <1>5 DEF ScInv, Reserved

\* The reset state holds no reservation.
LEMMA InitSc == Init => ScInv
<1> SUFFICES ASSUME Init PROVE ScInv
  BY Zenon
<1>1. main.state = "Idle" /\ ~main.reserved /\ ~main.reservation_failed
  BY Zenon DEF Init, MainReset
<1> QED BY Zenon, <1>1, InitPerm DEF ScInv, Reserved

\* ScInv is inductive.
LEMMA ScStep == ScInv /\ [Next]_vars => ScInv'
<1> SUFFICES ASSUME ScInv, [Next]_vars PROVE ScInv'
  BY Zenon
<1>1. PermInv'
  BY Zenon, PermStep DEF ScInv
<1>2. ASSUME UNCHANGED vars PROVE Reserved'
  BY Zenon, <1>2, ReservedStill DEF vars, observers, ScInv
<1>3. Reserved'
  BY Zenon, <1>2, TickReserved, EnvReserved DEF Next
<1> QED BY Zenon, <1>1, <1>3 DEF ScInv

\* An SC that writes follows its LR with nothing in between: no other response of
\* the port, and no write of anybody else to the line.
THEOREM DCacheSc == Spec => []ScIsAtomic
  BY InitSc, ScStep, ScMeaning, PTL DEF Spec

-----------------------------------------------------------------------------
(* Data *)

WritingBack(line) == wb.state = "Progress" /\ HasCData(wb.opcode) /\ wb.line = line
Dirty(line) == \E w \in Copies(line) : tags[SetOf(line)][w].dirty

\* The latest data of a line is in memory, or in a dirty copy, or on its way back.
MemoryCurrent ==
    /\ \A line \in Lines : mem[line] # golden[line] =>
         (flush.state # "Reset" /\ Dirty(line)) \/ WritingBack(line)
    /\ flush.state # "Reset" =>
         \A s \in Sets, w \in Ways : tags[s][w].valid /\ tags[s][w].dirty => tags[s][w].writable

\* The writeback sends the words in order, from a way that nobody touches.
Writeback ==
    wb.state = "Progress" =>
        IF HasCData(wb.opcode)
        THEN /\ held[wb.line] = "T" /\ data[SetOf(wb.line)][wb.way] = golden[wb.line]
             /\ c_data = golden[wb.line][c_word]
             /\ \A k \in Words : k < c_word => mem[wb.line][k] = golden[wb.line][k]
        ELSE wb.index = 0

\* An access that will use the old word has read it from the SRAM as it is.
WordRead ==
    main.state = "Fetch" =>
        \/ main.op = "STORE" /\ main.full
        \/ \A w \in Ways : data_rd[w] = data[SetOf(main.line)][w][main.word]

\* A grant with data brings the words in order; one without finds them there.
First == (IF acq # None THEN acq.beat ELSE NumBeats) - Len(refill_fifo)
DataGrant ==
    \/ acq # None /\ acq.with_data
    \/ acq = None /\ refill_fifo # <<>> /\ refill_fifo[1].kind = "GrantData"
GrantKinds ==
    /\ miss.state = "Fill" /\ miss.sent => acq # None \/ refill_fifo # <<>>
    /\ acq # None /\ ~acq.with_data => refill_fifo = <<>> /\ acq.beat = 0
    /\ acq # None /\ acq.with_data => acq.phase = "grant" /\ ~acq.denied
    /\ acq # None /\ acq.param = "BtoT" => miss.upgrade
    /\ acq # None /\ acq.phase = "grant" /\ ~acq.with_data /\ ~acq.denied => miss.upgrade
    /\ acq = None /\ refill_fifo # <<>> /\ refill_fifo[1].kind = "Grant" =>
         Len(refill_fifo) = 1 /\ (refill_fifo[1].denied \/ miss.upgrade)
BeatsCurrent ==
    DataGrant =>
        /\ \A i \in 1 .. Len(refill_fifo) :
             /\ refill_fifo[i].kind = "GrantData" /\ ~refill_fifo[i].denied
             /\ refill_fifo[i].idx = First + i - 1
             /\ refill_fifo[i].data = golden[main.line][refill_fifo[i].idx]
        /\ \A k \in Words : k < First => data[SetOf(main.line)][main.way][k] = golden[main.line][k]
WayWaits ==
    miss.state = "Fill" =>
        /\ ~DataGrant /\ miss.upgrade /\ held[main.line] # "N" =>
             data[SetOf(main.line)][main.way] = golden[main.line]
        /\ ~tags[SetOf(main.line)][main.way].valid
Refilled == GrantKinds /\ BeatsCurrent /\ WayWaits

\* An uncached access is to a line that no cache may hold.
UncachedAccess ==
    /\ miss.state = "Uncached" => main.line \in Uncached /\ main.op \in {"LOAD", "STORE"}
    /\ unc # None => /\ miss.state = "Uncached" /\ miss.sent /\ d.kind # "AccessAck"
                     /\ unc.line = main.line /\ unc.word = main.word /\ unc.write = (main.op = "STORE")
    /\ d.kind = "AccessAck" => /\ miss.state = "Uncached" /\ miss.sent
                               /\ main.op = "LOAD" => d.data = golden[main.line][main.word]
    /\ \A line \in Uncached : held[line] = "N"

DataInv ==
    /\ ScInv /\ MemoryCurrent /\ Writeback /\ WordRead /\ Refilled /\ UncachedAccess /\ CopyIsCurrent

-----------------------------------------------------------------------------
(* What a clock cycle does to the dirty bits, the data, and the latest values *)

\* What changes an entry, and that only a store makes it dirty.
LEMMA DirtyStep ==
    ASSUME LockInv, TagsRead, NEW in \in Inputs, TagPort(in)
    PROVE  /\ \A s \in Sets, w \in Ways : tags'[s][w].valid /\ tags'[s][w].dirty =>
                \/ tags'[s][w] = tags[s][w]
                \/ access_data_write_req /\ s = SetOf(main.line) /\ w = hit_way
           /\ \A s \in Sets, w \in Ways :
                \/ tags'[s][w] = tags[s][w]
                \/ refill_tag_write_req /\ s = SetOf(main.line) /\ w = main.way
                \/ probe.state = "Check" /\ s = SetOf(probe.line) /\ w \in hit
                \/ flush.state = "Reset"
                \/ (fetch_miss \/ access_data_write_req) /\ s = SetOf(main.line) /\ w = hit_way
           /\ access_data_write_req =>
                /\ hit_way \in hit /\ tags'[SetOf(main.line)][hit_way].valid
                /\ tags'[SetOf(main.line)][hit_way].tag = TagOf(main.line)
                /\ tags'[SetOf(main.line)][hit_way].dirty /\ tags'[SetOf(main.line)][hit_way].writable
<1>1. SetOf(main.line) \in Sets /\ main.way \in Ways /\ SetOf(probe.line) \in Sets /\ hit_way \in Ways
  BY Zenon, LineTypes, Entries DEF LockInv, TypeOK, MainRegs, ProbeRegs
<1>2. access_tag_write_req <=> fetch_miss \/ (access_data_write_req /\ ~hit_tag.dirty)
  BY Zenon DEF access_tag_write_req
<1>3. access_data_write_req => /\ hit_way \in hit /\ ~fetch_miss /\ hit_tag = tags[SetOf(main.line)][hit_way]
                               /\ hit_tag.valid /\ hit_tag.writable /\ hit_tag.tag = TagOf(main.line)
  <2> SUFFICES ASSUME access_data_write_req
               PROVE  /\ hit_way \in hit /\ ~fetch_miss /\ hit_tag = tags[SetOf(main.line)][hit_way]
                      /\ hit_tag.valid /\ hit_tag.writable /\ hit_tag.tag = TagOf(main.line)
    BY Zenon
  <2>1. main.state = "Fetch" /\ fetch_hit /\ hit # {} /\ ~fetch_miss
    BY Zenon, Signals DEF access_data_write_req
  <2>2. hit_way \in hit /\ tag_rd_addr = main.line
    BY Zenon, <2>1, HitWay DEF LockInv, TagsRead
  <2>3. hit_tag.valid /\ hit_tag.tag = TagOf(main.line)
    BY Zenon, <2>2 DEF hit, hit_tag
  <2>4. hit_tag.writable
    BY Zenon DEF access_data_write_req, fetch_hit, WriteOps
  <2> QED BY Zenon, <2>1, <2>2, <2>3, <2>4, Entries
<1>4. CASE /\ refill_tag_write_req /\ probe.state = "Idle" /\ flush.state = "Idle" /\ ~access_tag_write_req
           /\ Wrote(SetOf(main.line), {main.way}, RefillEntry)
  <2>1. ~access_data_write_req
    BY Zenon, <1>4, Signals, Holder
  <2>2. \A s \in Sets, w \in Ways :
          tags'[s][w] = tags[s][w] \/ (s = SetOf(main.line) /\ w = main.way /\ tags'[s][w] = RefillEntry)
    BY Zenon, <1>4 DEF Wrote
  <2>3. ~RefillEntry.dirty
    BY Zenon, Entries
  <2> QED BY Zenon, <1>4, <2>1, <2>2, <2>3
<1>5. CASE /\ ~refill_tag_write_req /\ probe.state = "Check" /\ hit # {} /\ flush.state = "Idle"
           /\ ~access_tag_write_req /\ Wrote(SetOf(probe.line), hit, ProbeEntry)
  <2>1. ~access_data_write_req
    BY Zenon, <1>5, Signals, Holder
  <2>2. \A s \in Sets, w \in Ways :
          tags'[s][w] = tags[s][w] \/ (s = SetOf(probe.line) /\ w \in hit /\ tags'[s][w] = ProbeEntry)
    BY Zenon, <1>5 DEF Wrote
  <2>3. ProbeEntry.valid => ~ProbeEntry.dirty
    BY Zenon, Entries
  <2> QED BY Zenon, <1>5, <2>1, <2>2, <2>3
<1>6. CASE /\ ~refill_tag_write_req /\ probe.state = "Idle" /\ flush.state = "Reset" /\ ~access_tag_write_req
           /\ Wrote(flush.index, Ways, InvalidEntry)
  <2>1. ~access_data_write_req
    BY Zenon, <1>6, Signals, Holder
  <2>2. \A s \in Sets, w \in Ways : tags'[s][w] = tags[s][w] \/ tags'[s][w] = InvalidEntry
    BY Zenon, <1>6 DEF Wrote
  <2>3. ~InvalidEntry.valid
    BY Zenon, Entries
  <2> QED BY Zenon, <1>6, <2>1, <2>2, <2>3
<1>7. CASE /\ ~refill_tag_write_req /\ probe.state = "Idle" /\ flush.state = "Idle" /\ access_tag_write_req
           /\ Wrote(SetOf(main.line), {hit_way}, AccessEntry)
  <2>1. /\ \A s \in Sets, w \in Ways :
             tags'[s][w] = tags[s][w] \/ (s = SetOf(main.line) /\ w = hit_way /\ tags'[s][w] = AccessEntry)
        /\ tags'[SetOf(main.line)][hit_way] = AccessEntry
    BY Zenon, <1>1, <1>7 DEF Wrote
  <2>2. CASE fetch_miss
    <3>1. ~AccessEntry.valid /\ ~access_data_write_req
      BY Zenon, <2>2, Entries, Signals
    <3> QED BY Zenon, <2>1, <2>2, <3>1
  <2>3. CASE ~fetch_miss
    <3>1. access_data_write_req /\ AccessEntry.tag = hit_tag.tag /\ AccessEntry.valid = hit_tag.valid
          /\ AccessEntry.writable = hit_tag.writable /\ AccessEntry.dirty
      BY Zenon, <1>2, <1>7, <2>3, Entries
    <3> QED BY Zenon, <1>3, <2>1, <2>3, <3>1
  <2> QED BY Zenon, <2>2, <2>3
<1>8. CASE /\ ~refill_tag_write_req /\ (probe.state = "Check" => hit = {}) /\ flush.state = "Idle"
           /\ ~access_tag_write_req /\ tags' = tags
  BY Zenon, <1>2, <1>3, <1>8
<1> QED BY Zenon, <1>4, <1>5, <1>6, <1>7, <1>8, TagCases

\* One word of the way is v, everything else as it was.
DataWrote(set, way, word, v) ==
    /\ \A s \in Sets, w \in Ways : s # set \/ w # way => data'[s][w] = data[s][w]
    /\ data'[set][way][word] = v
    /\ \A k \in Words : k # word => data'[set][way][k] = data[set][way][k]
GoldenWrote(line, word, v) ==
    /\ \A l \in Lines : l # line => golden'[l] = golden[l]
    /\ golden'[line][word] = v
    /\ \A k \in Words : k # word => golden'[line][k] = golden[line][k]
MemWrote(line, word, v) ==
    /\ \A l \in Lines : l # line => mem'[l] = mem[l]
    /\ mem'[line][word] = v
    /\ \A k \in Words : k # word => mem'[line][k] = mem[line][k]

\* A write of the data SRAM changes one word of the ways of its mask.
LEMMA DataWritten ==
    ASSUME TypeOK, NEW set \in Sets, NEW way \in Ways, NEW word \in Words, NEW v, WriteData(set, way, word, v)
    PROVE  DataWrote(set, way, word, v)
<1>1. data \in [Sets -> [Ways -> [Words -> Values]]] /\ data' = [data EXCEPT ![set][way][word] = v]
  BY Zenon DEF TypeOK, WriteData
<1> QED BY Zenon, <1>1 DEF DataWrote

\* Two lines are equal if their words are.
LEMMA SameWords ==
    ASSUME NEW f \in [Words -> Values], NEW g \in [Words -> Values], \A k \in Words : f[k] = g[k]
    PROVE  f = g
  OBVIOUS

\* The one write to the data SRAM in the cycle, if there is one.
LEMMA DataCases ==
    ASSUME LockInv, NEW in \in Inputs, Tick(in)
    PROVE  \/ /\ refill_data_write_req /\ ~access_data_write_req
              /\ DataWrote(SetOf(main.line), main.way, refill_beat.idx, refill_beat.data)
           \/ /\ ~refill_data_write_req /\ access_data_write_req
              /\ DataWrote(SetOf(main.line), hit_way, main.word, NewWord(data_rd[hit_way]))
           \/ ~refill_data_write_req /\ ~access_data_write_req /\ data' = data
<1>1. TypeOK /\ DataPort(in) /\ SetOf(main.line) \in Sets /\ main.way \in Ways /\ main.word \in Words /\ hit_way \in Ways
  BY Zenon, LineTypes, HitTypes DEF LockInv, TypeOK, MainRegs, Tick
<1>2. CASE refill_data_write_req
  <2>1. ~access_data_write_req
    BY Zenon, <1>2, Signals, Holder
  <2>2. WriteData(SetOf(main.line), main.way, refill_beat.idx, refill_beat.data)
    BY Zenon, <1>1, <1>2 DEF DataPort
  <2>3. refill_beat.idx \in Words
    BY Zenon, <1>1, <1>2, FifoTypes, Signals DEF refill_fifo_ready, Beat
  <2>4. DataWrote(SetOf(main.line), main.way, refill_beat.idx, refill_beat.data)
    BY Zenon, <1>1, <2>2, <2>3, DataWritten
  <2> QED BY Zenon, <1>2, <2>1, <2>4
<1>3. CASE ~refill_data_write_req /\ access_data_write_req
  <2>1. nothing_in_progress /\ fetch_hit /\ ~fetch_miss
    BY Zenon, <1>3, Signals DEF access_data_write_req
  <2>2. ~writeback_lock_acq /\ ~c_valid
    BY Zenon, <2>1, WbRequest, Holder DEF c_valid
  <2>3. WriteData(SetOf(main.line), hit_way, main.word, NewWord(data_rd[hit_way]))
    BY Zenon, <1>1, <1>3, <2>2 DEF DataPort, wb_data_read_req
  <2>4. DataWrote(SetOf(main.line), hit_way, main.word, NewWord(data_rd[hit_way]))
    BY Zenon, <1>1, <2>3, DataWritten
  <2> QED BY Zenon, <1>3, <2>4
<1>4. CASE ~refill_data_write_req /\ ~access_data_write_req
  BY Zenon, <1>1, <1>4 DEF DataPort, ReadData
<1> QED BY Zenon, <1>2, <1>3, <1>4

\* The latest values change with a store, in its word only.
LEMMA GoldenCases ==
    ASSUME LockInv, NEW in \in Inputs, Tick(in)
    PROVE  /\ access_data_write_req => GoldenWrote(main.line, main.word, NewWord(golden[main.line][main.word]))
           /\ ~access_data_write_req => golden' = golden
<1>1. main.line \in Lines /\ main.word \in Words /\ golden \in [Lines -> [Words -> Values]]
  BY Zenon DEF LockInv, TypeOK, MainRegs
<1> DEFINE v == NewWord(golden[main.line][main.word])
<1>2. golden' = IF access_data_write_req THEN [golden EXCEPT ![main.line][main.word] = v] ELSE golden
  BY Zenon DEF Tick, Observe
<1> HIDE DEF v
<1>3. ASSUME access_data_write_req PROVE GoldenWrote(main.line, main.word, v)
  <2>1. golden' = [golden EXCEPT ![main.line][main.word] = v]
    BY Zenon, <1>2, <1>3
  <2> QED BY Zenon, <1>1, <2>1 DEF GoldenWrote
<1> QED BY Zenon, <1>2, <1>3 DEF v

\* Memory changes with a beat of ProbeAckData or ReleaseData, in its word only.
LEMMA MemCases ==
    ASSUME LockInv, NEW in \in Inputs, Tick(in)
    PROVE  /\ c_valid /\ in.c_ready /\ HasCData(wb.opcode) => MemWrote(wb.line, c_word, c_data) /\ c_word \in Words
           /\ ~(c_valid /\ in.c_ready /\ HasCData(wb.opcode)) => mem' = mem
<1>1. wb.line \in Lines /\ wb.index \in Words /\ mem \in [Lines -> [Words -> Values]]
  BY Zenon DEF LockInv, TypeOK, WbRegs
<1>2. c_word \in Words
  <2>1. wb.index - 1 \in Int /\ NumBeats \in Nat \ {0}
    BY <1>1, DCacheAssumption DEF Words
  <2> QED BY Zenon, <2>1, ModInRange DEF c_word, Words
<1>3. mem' = IF c_valid /\ in.c_ready /\ HasCData(wb.opcode) THEN [mem EXCEPT ![wb.line][c_word] = c_data] ELSE mem
  BY Zenon DEF Tick, ManagerSees
<1>4. ASSUME c_valid, in.c_ready, HasCData(wb.opcode) PROVE MemWrote(wb.line, c_word, c_data)
  <2>1. mem' = [mem EXCEPT ![wb.line][c_word] = c_data]
    BY Zenon, <1>3, <1>4
  <2> QED BY Zenon, <1>1, <1>2, <2>1 DEF MemWrote
<1> QED BY Zenon, <1>2, <1>3, <1>4

\* Set and tag determine the line.
LEMMA SameLine ==
    ASSUME NEW l \in Lines, NEW m \in Lines, SetOf(l) = SetOf(m), TagOf(l) = TagOf(m) PROVE l = m
<1>1. l = <<TagOf(l), SetOf(l)>> /\ m = <<TagOf(m), SetOf(m)>>
  BY Zenon, LineTypes
<1> QED BY <1>1

\* The FIFO is a sequence of beats.
LEMMA FirstType ==
    ASSUME LockInv PROVE First \in Int /\ refill_fifo \in Seq(Beat) /\ Len(refill_fifo) \in Nat
<1>1. TypeOK /\ refill_fifo \in Seq(Beat)
  BY Zenon, FifoTypes DEF LockInv
<1>2. acq # None => acq.beat \in Int
  <2>1. acq # None => acq.beat \in Words
    BY Zenon, <1>1, AcqTypes
  <2> QED BY <2>1 DEF Words
<1>3. Len(refill_fifo) \in Nat /\ NumBeats \in Int
  BY <1>1, DCacheAssumption
<1> QED BY <1>1, <1>2, <1>3 DEF First

\* The beat that is written is the next word of the line and the latest.
LEMMA BeatWritten ==
    ASSUME LockInv, Beats, Refilled, refill_data_write_req
    PROVE  /\ DataGrant /\ miss.state = "Fill" /\ First \in Words
           /\ refill_beat.idx = First /\ refill_beat.data = golden[main.line][First]
<1>1. /\ refill_fifo # <<>> /\ refill_fifo \in Seq(Beat) /\ 1 \in 1 .. Len(refill_fifo)
      /\ refill_beat = refill_fifo[1] /\ refill_beat.kind = "GrantData" /\ refill_beat \in Beat
  <2>1. refill_fifo # <<>> /\ refill_fifo \in Seq(Beat)
    BY Zenon, Signals, FirstType
  <2>2. 1 \in 1 .. Len(refill_fifo) /\ refill_beat = refill_fifo[1]
    BY Zenon, <2>1, TailFacts DEF refill_beat
  <2>3. refill_beat \in Beat
    BY Zenon, <2>1, FifoTypes DEF LockInv, refill_fifo_valid
  <2> QED BY Zenon, <2>1, <2>2, <2>3 DEF refill_data_write_req
<1>2. DataGrant
  BY Zenon, <1>1 DEF DataGrant, Refilled, GrantKinds
<1>3. refill_beat.idx = First + 1 - 1 /\ refill_beat.data = golden[main.line][refill_beat.idx]
  BY Zenon, <1>1, <1>2 DEF Refilled, BeatsCurrent
<1>4. First + 1 - 1 = First
  BY FirstType
<1>5. refill_beat.idx \in Words
  BY Zenon, <1>1 DEF Beat
<1> QED BY Zenon, <1>1, <1>2, <1>3, <1>4, <1>5 DEF Beats

\* With the last beat the way holds the line.
LEMMA LineRefilled ==
    ASSUME DataInv, TypeOK', NEW in \in Inputs, Tick(in), refill_tag_write_req
    PROVE  data'[SetOf(main.line)][main.way] = golden[main.line] /\ golden' = golden
<1>1. /\ PermInv /\ LockInv /\ TypeOK /\ Beats /\ Refilled
      /\ main.line \in Lines /\ SetOf(main.line) \in Sets /\ main.way \in Ways
  BY Zenon, LineTypes DEF DataInv, ScInv, PermInv, LockInv, TypeOK, MainRegs
<1>2. /\ refill_fifo # <<>> /\ refill_fifo_ready /\ refill_beat.last /\ ~refill_beat.denied
      /\ ~access_data_write_req
  BY Zenon, <1>1, Signals, Holder DEF refill_tag_write_req, refill_done
<1>3. /\ refill_fifo \in Seq(Beat) /\ Len(refill_fifo) \in Nat
      /\ 1 \in 1 .. Len(refill_fifo) /\ refill_beat = refill_fifo[1] /\ refill_beat \in Beat
  BY Zenon, <1>1, <1>2, FirstType, TailFacts, FifoTypes DEF refill_beat, refill_fifo_valid
<1>4. acq = None /\ Len(refill_fifo) = 1
  BY Zenon, <1>1, <1>2, <1>3 DEF Beats
<1>5. golden' = golden
  BY Zenon, <1>1, <1>2, GoldenCases
<1>6. CASE refill_beat.kind = "GrantData"
  <2>1. refill_data_write_req
    BY Zenon, <1>2, <1>6 DEF refill_data_write_req
  <2>2. DataWrote(SetOf(main.line), main.way, refill_beat.idx, refill_beat.data)
    BY Zenon, <1>1, <2>1, DataCases
  <2>3. DataGrant /\ First \in Words /\ refill_beat.idx = First /\ refill_beat.data = golden[main.line][First]
    BY Zenon, <1>1, <2>1, BeatWritten
  <2>4. \A k \in Words : k < First \/ k = First
    <3>1. First = NumBeats - 1
      BY <1>4 DEF First
    <3> QED BY <3>1, DCacheAssumption DEF Words
  <2>5. \A k \in Words : k < First => data[SetOf(main.line)][main.way][k] = golden[main.line][k]
    BY Zenon, <1>1, <2>3 DEF Refilled, BeatsCurrent
  <2>6. \A k \in Words : data'[SetOf(main.line)][main.way][k] = golden[main.line][k]
    BY Zenon, <2>2, <2>3, <2>4, <2>5 DEF DataWrote
  <2>7. data'[SetOf(main.line)][main.way] \in [Words -> Values] /\ golden[main.line] \in [Words -> Values]
    BY Zenon, <1>1 DEF TypeOK
  <2> QED BY Zenon, <1>5, <2>6, <2>7, SameWords
<1>7. CASE refill_beat.kind # "GrantData"
  <2>1. ~refill_data_write_req /\ ~DataGrant /\ refill_beat.kind = "Grant"
    BY Zenon, <1>3, <1>4, <1>7 DEF refill_data_write_req, DataGrant, Beat
  <2>2. data' = data
    BY Zenon, <1>1, <1>2, <2>1, DataCases
  <2>3. miss.upgrade /\ miss.state = "Fill"
    BY Zenon, <1>1, <1>2, <1>3, <1>4, <2>1 DEF Refilled, GrantKinds, Beats
  <2>4. held[main.line] # "N"
    <3>1. Agrees(refill_beat.denied, refill_beat.param)
      BY Zenon, <1>1, <1>3 DEF Beats
    <3> QED BY Zenon, <1>2, <3>1 DEF Agrees, CapPerm
  <2> QED BY Zenon, <1>1, <1>5, <2>1, <2>2, <2>3, <2>4 DEF Refilled, WayWaits
<1> QED BY Zenon, <1>6, <1>7

\* The copy that a store or a load hits is the only one of its line.
LEMMA HitOne ==
    ASSUME PermInv, fetch_hit
    PROVE  /\ hit_way \in Copies(main.line) /\ hit_way \in Ways /\ hit_tag = tags[SetOf(main.line)][hit_way]
           /\ main.state = "Fetch" /\ flush.state = "Idle" /\ \A w \in Copies(main.line) : w = hit_way
<1>1. /\ LockInv /\ TypeOK /\ TagsRead /\ main.state = "Fetch" /\ nothing_in_progress /\ hit # {}
      /\ SetOf(main.line) \in Sets
  BY Zenon, Signals, LineTypes DEF PermInv, LockInv, TypeOK, MainRegs
<1>2. flush.state = "Idle"
  BY Zenon, <1>1, Holder
<1>3. hit_way \in Copies(main.line) /\ hit_way \in Ways /\ hit_tag = tags[SetOf(main.line)][hit_way]
  BY Zenon, <1>1, HitWay, HitCopies, Entries
<1>4. \A w \in Copies(main.line) : w = hit_way
  BY Zenon, <1>1, <1>2, <1>3 DEF PermInv, OneCopyPerLine, Copies
<1> QED BY Zenon, <1>1, <1>2, <1>3, <1>4

\* CopyIsCurrent, for a line and one of its copies.
LEMMA CurrentCopy ==
    ASSUME CopyIsCurrent, flush.state # "Reset", NEW line \in Lines, NEW w \in Copies(line)
    PROVE  data[SetOf(line)][w] = golden[line]
<1>1. /\ w \in Ways /\ tags[SetOf(line)][w].valid /\ tags[SetOf(line)][w].tag = TagOf(line)
      /\ SetOf(line) \in Sets /\ line = <<TagOf(line), SetOf(line)>>
  BY Zenon, LineTypes DEF Copies
<1>2. data[SetOf(line)][w] = golden[<<tags[SetOf(line)][w].tag, SetOf(line)>>]
  BY Zenon, <1>1 DEF CopyIsCurrent
<1> QED BY <1>1, <1>2

\* A store sees the latest word, or does not look at it.
LEMMA StoredWord ==
    ASSUME DataInv, access_data_write_req
    PROVE  NewWord(data_rd[hit_way]) = NewWord(golden[main.line][main.word])
<1>1. PermInv /\ TypeOK /\ fetch_hit /\ main.line \in Lines /\ main.word \in Words
  BY Zenon DEF DataInv, ScInv, PermInv, LockInv, TypeOK, MainRegs, access_data_write_req
<1>2. CASE main.op = "STORE" /\ main.full
  BY Zenon, <1>2 DEF NewWord, Combine
<1>3. CASE ~(main.op = "STORE" /\ main.full)
  <2>1. data_rd[hit_way] = data[SetOf(main.line)][hit_way][main.word]
    BY Zenon, <1>1, <1>3, HitOne DEF DataInv, WordRead
  <2>2. data[SetOf(main.line)][hit_way] = golden[main.line]
    <3>1. hit_way \in Copies(main.line) /\ flush.state # "Reset" /\ CopyIsCurrent
      BY Zenon, <1>1, HitOne DEF DataInv
    <3> QED BY Zenon, <1>1, <3>1, CurrentCopy
  <2> QED BY Zenon, <2>1, <2>2
<1> QED BY Zenon, <1>2, <1>3

\* A clock cycle leaves every copy current.
LEMMA TickCopy ==
    ASSUME DataInv, TypeOK', NEW in \in Inputs, Tick(in) PROVE CopyIsCurrent'
<1>1. /\ PermInv /\ LockInv /\ TypeOK /\ TagsRead /\ Absent /\ Beats /\ TagPort(in) /\ Refilled
      /\ main.line \in Lines /\ SetOf(main.line) \in Sets /\ main.way \in Ways /\ main.word \in Words
  BY Zenon, LineTypes DEF DataInv, ScInv, PermInv, LockInv, TypeOK, MainRegs, Tick
<1> SUFFICES ASSUME flush'.state # "Reset", NEW s \in Sets, NEW w \in Ways, tags'[s][w].valid
             PROVE  data'[s][w] = golden'[<<tags'[s][w].tag, s>>]
  BY Zenon DEF CopyIsCurrent
<1>2. flush.state # "Reset"
  BY Zenon, <1>1, Cleared
<1>3. PICK line \in Lines : line = <<tags'[s][w].tag, s>>
  <2>1. tags'[s][w].tag \in Tags
    BY Zenon DEF TypeOK, TagEntry
  <2> QED BY Zenon, <2>1, LineTypes
<1>4. SetOf(line) = s /\ TagOf(line) = tags'[s][w].tag
  BY Zenon, <1>3 DEF SetOf, TagOf
<1>5. CASE refill_tag_write_req /\ s = SetOf(main.line) /\ w = main.way
  <2>1. line = main.line
    <3>1. TagOf(line) = TagOf(main.line)
      BY Zenon, <1>1, <1>4, <1>5, RefillWrites
    <3> QED BY Zenon, <1>1, <1>4, <1>5, <3>1, SameLine
  <2> QED BY Zenon, <1>3, <1>5, <2>1, LineRefilled
<1>6. CASE Kept(s, w)
  <2>1. tags[s][w].valid /\ tags'[s][w].tag = tags[s][w].tag
    BY Zenon, <1>6 DEF Kept
  <2>2. data[s][w] = golden[line]
    BY Zenon, <1>2, <1>3, <2>1 DEF DataInv, CopyIsCurrent
  <2>3. CASE /\ refill_data_write_req /\ ~access_data_write_req
             /\ DataWrote(SetOf(main.line), main.way, refill_beat.idx, refill_beat.data)
    <3>1. s # SetOf(main.line) \/ w # main.way
      BY Zenon, <1>1, <2>1, <2>3, BeatWritten DEF Refilled, WayWaits
    <3> QED BY Zenon, <1>1, <1>3, <2>2, <2>3, <3>1, GoldenCases DEF DataWrote
  <2>4. CASE /\ ~refill_data_write_req /\ access_data_write_req
             /\ DataWrote(SetOf(main.line), hit_way, main.word, NewWord(data_rd[hit_way]))
    <3>1. fetch_hit /\ GoldenWrote(main.line, main.word, NewWord(data_rd[hit_way]))
      BY Zenon, <1>1, <2>4, GoldenCases, StoredWord DEF access_data_write_req
    <3>2. CASE s = SetOf(main.line) /\ w = hit_way
      <4>1. line = main.line
        <5>1. TagOf(line) = TagOf(main.line)
          BY Zenon, <1>1, <1>4, <2>1, <3>1, <3>2, HitOne DEF Copies
        <5> QED BY Zenon, <1>1, <1>4, <3>2, <5>1, SameLine
      <4>2. \A k \in Words : data'[s][w][k] = golden'[line][k]
        <5> TAKE k \in Words
        <5>1. data[s][w][k] = golden[line][k]
          BY Zenon, <2>2
        <5>2. k = main.word => data'[s][w][k] = NewWord(data_rd[hit_way]) /\ golden'[line][k] = NewWord(data_rd[hit_way])
          BY Zenon, <2>4, <3>1, <3>2, <4>1 DEF DataWrote, GoldenWrote
        <5>3. k # main.word => data'[s][w][k] = data[s][w][k] /\ golden'[line][k] = golden[line][k]
          BY Zenon, <2>4, <3>1, <3>2, <4>1 DEF DataWrote, GoldenWrote
        <5> QED BY Zenon, <5>1, <5>2, <5>3
      <4>3. data'[s][w] \in [Words -> Values] /\ golden'[line] \in [Words -> Values]
        BY Zenon DEF TypeOK
      <4> QED BY Zenon, <1>3, <4>2, <4>3, SameWords
    <3>3. CASE s # SetOf(main.line) \/ w # hit_way
      <4>1. line # main.line
        BY Zenon, <1>1, <1>4, <2>1, <3>1, <3>3, HitOne DEF Copies
      <4> QED BY Zenon, <1>3, <2>2, <2>4, <3>1, <3>3, <4>1 DEF DataWrote, GoldenWrote
    <3> QED BY Zenon, <3>2, <3>3
  <2>5. CASE ~refill_data_write_req /\ ~access_data_write_req /\ data' = data
    BY Zenon, <1>1, <1>3, <2>2, <2>5, GoldenCases
  <2> QED BY Zenon, <1>1, <2>3, <2>4, <2>5, DataCases
<1> QED BY Zenon, <1>1, <1>5, <1>6, TagStep
===============================================================================
