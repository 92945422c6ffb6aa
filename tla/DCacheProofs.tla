----------------------------- MODULE DCacheProofs -----------------------------
(***************************************************************************)
(* Uncached accesses and the manager's steps keep DataInv too, so it is     *)
(* inductive; from it, for any number of ways, sets, words, lines and values:*)
(* copies are current, no store is lost and loads return the latest value.  *)
(***************************************************************************)
EXTENDS DCacheData

\* An uncached access starts after a grant was denied and stays until it is answered.
LEMMA UncachedStays ==
    ASSUME LockInv, Phases, NEW in \in Inputs, Tick(in),
           miss_retry_uncached \/ (miss.state = "Uncached" /\ ~d_access)
    PROVE  /\ miss'.state = "Uncached" /\ main'.line = main.line /\ main'.op = main.op /\ main'.word = main.word
           /\ miss.state = "Uncached" => miss'.sent = (miss.sent \/ (a_valid /\ in.a_ready))
<1>1. TypeOK /\ MainStep(in) /\ MissStep(in) /\ main.state = "Fill"
  BY Zenon, MissMoves DEF LockInv, Tick, Phases
<1>2. ~fetch_miss /\ ~fetch_hit /\ ~translated
  BY Zenon, <1>1, Signals DEF translated, fetching
<1>3. in.req = None
  BY Zenon, <1>1, <1>2, Accepts DEF req_ready
<1>4. ~miss_resp_replay /\ ~miss_resp_valid /\ ~miss_resp_exception /\ (miss.state = "Uncached" => ~miss_retry_uncached)
  BY Zenon, <1>1, MissMoves DEF miss_retry_uncached, miss_resp_replay, miss_resp_valid, miss_resp_exception, miss_refilled
<1>5. /\ miss'.state = "Uncached"
      /\ miss.state = "Uncached" => miss'.sent = (miss.sent \/ (a_valid /\ in.a_ready))
  BY Zenon, <1>1, <1>2, <1>4, MissMoves
<1>6. main'.state = "Fill"
  BY Zenon, <1>1, <1>3, <1>4, Continues, StateMoves
<1>7. main'.line = main.line /\ main'.op = main.op /\ main'.word = main.word
  BY Zenon, <1>1, <1>3, <1>6, Continues
<1> QED BY Zenon, <1>5, <1>7

\* An uncached access is decided on a miss.
LEMMA UncachedBefore ==
    ASSUME LockInv, Phases, NEW in \in Inputs, Tick(in), miss'.state = "Uncached"
    PROVE  miss_retry_uncached \/ (miss.state = "Uncached" /\ ~d_access)
<1>1. MissStep(in)
  BY Zenon DEF Tick
<1>2. ~fetch_miss /\ ~miss_resp_replay /\ ~miss_resp_valid /\ ~miss_resp_exception
  BY Zenon, <1>1, MissMoves
<1>3. miss.state = "Uncached" => ~d_access
  BY Zenon, <1>2 DEF miss_resp_valid, miss_resp_exception
<1> QED BY Zenon, <1>1, <1>2, <1>3, MissMoves

\* A clock cycle keeps an uncached access to its line.
LEMMA TickUncached ==
    ASSUME DataInv, NEW in \in Inputs, Tick(in) PROVE UncachedAccess'
<1>1. LockInv /\ Phases /\ Reports /\ Beats /\ UncachedAccess /\ ManagerSees(in)
  BY Zenon DEF DataInv, ScInv, PermInv, Tick
<1>2. ASSUME miss'.state = "Uncached" PROVE main'.line \in Uncached /\ main'.op \in {"LOAD", "STORE"}
  <2>1. main'.line = main.line /\ main'.op = main.op
    BY Zenon, <1>1, <1>2, UncachedStays, UncachedBefore
  <2>2. CASE miss.state = "Uncached"
    BY Zenon, <1>1, <2>1, <2>2 DEF UncachedAccess
  <2>3. CASE miss_retry_uncached
    <3>1. refill_fifo # <<>> /\ refill_beat.denied /\ main.op \in {"LOAD", "STORE"}
      BY Zenon, <1>1, <2>3, Signals DEF miss_retry_uncached, miss_refilled
    <3>2. refill_beat = refill_fifo[1] /\ 1 \in 1 .. Len(refill_fifo)
      BY Zenon, <1>1, <3>1, FirstType, TailFacts DEF refill_beat
    <3>3. Agrees(refill_beat.denied, refill_beat.param)
      BY Zenon, <1>1, <3>2 DEF Beats
    <3> QED BY Zenon, <2>1, <3>1, <3>3 DEF Agrees
  <2> QED BY Zenon, <1>1, <1>2, <2>2, <2>3, UncachedBefore
<1>3. d'.kind # "AccessAck"
  <2>1. d' = None \/ (d' = d /\ d_refill)
    BY Zenon, <1>1 DEF ManagerSees, d_ready, e_valid
  <2> QED BY <2>1 DEF None, d_refill
<1>4. ASSUME unc' # None
      PROVE  /\ miss'.state = "Uncached" /\ miss'.sent
             /\ unc'.line = main'.line /\ unc'.word = main'.word /\ unc'.write = (main'.op = "STORE")
  <2>1. CASE a_valid /\ in.a_ready /\ miss.state = "Uncached"
    <3>1. ~d_access
      BY Zenon, <1>1, <2>1 DEF UncachedAccess, a_valid, d_access
    <3>2. unc'.line = main.line /\ unc'.word = main.word /\ unc'.write = (main.op = "STORE")
      BY Zenon, <1>1, <2>1 DEF ManagerSees
    <3> QED BY Zenon, <1>1, <2>1, <3>1, <3>2, UncachedStays
  <2>2. CASE ~(a_valid /\ in.a_ready /\ miss.state = "Uncached")
    <3>1. unc' = unc
      BY Zenon, <1>1, <2>2 DEF ManagerSees
    <3>2. miss.state = "Uncached" /\ miss.sent /\ ~d_access
      BY Zenon, <1>1, <1>4, <3>1 DEF UncachedAccess, d_access
    <3> QED BY Zenon, <1>1, <1>4, <3>1, <3>2, UncachedStays DEF UncachedAccess
  <2> QED BY Zenon, <2>1, <2>2
<1>5. \A line \in Uncached : held'[line] = "N"
  <2>1. Uncached \subseteq Lines
    BY Zenon, DCacheAssumption DEF Lines
  <2> QED BY Zenon, <1>1, <2>1, HeldShrinks DEF UncachedAccess
<1> QED BY Zenon, <1>2, <1>3, <1>4, <1>5 DEF UncachedAccess

\* A clock cycle keeps the data part of the invariant.
LEMMA TickData ==
    ASSUME DataInv, ScInv', NEW in \in Inputs, Tick(in) PROVE DataInv'
<1>1. LockInv /\ Phases /\ TypeOK' /\ Beats'
  BY Zenon DEF DataInv, ScInv, PermInv, LockInv
<1>2. MemoryCurrent' /\ Writeback' /\ WordRead'
  BY Zenon, <1>1, TickMemory, TickWriteback, TickWordRead
<1>3. Refilled' /\ UncachedAccess' /\ CopyIsCurrent'
  BY Zenon, <1>1, TickRefilled, TickUncached, TickCopy
<1> QED BY Zenon, <1>2, <1>3 DEF DataInv

-----------------------------------------------------------------------------
(* Steps of the environment *)

\* What the cache has no permission on is current in memory and nowhere else.
LEMMA Unheld ==
    ASSUME DataInv, NEW line \in Lines, held[line] = "N"
    PROVE  /\ mem[line] = golden[line] /\ (flush.state # "Reset" => Copies(line) = {}) /\ ~WritingBack(line)
<1>1. flush.state # "Reset" => Copies(line) = {}
  BY Zenon DEF DataInv, ScInv, PermInv, Granted, Within
<1>2. ~WritingBack(line)
  BY Zenon DEF DataInv, Writeback, WritingBack
<1> QED BY Zenon, <1>1, <1>2 DEF DataInv, MemoryCurrent, Dirty

\* What the data part of the invariant needs of the main machine's registers.
SameAccess ==
    /\ main'.state = main.state /\ main'.line = main.line /\ main'.word = main.word /\ main'.op = main.op
    /\ main'.full = main.full /\ main'.way = main.way

\* The copies, memory and the writeback depend on these registers.
LEMMA CopiesStill ==
    ASSUME DataInv, UNCHANGED <<sram, wb, flush, mem, golden>>, SameAccess,
           wb.state = "Progress" => held'[wb.line] = held[wb.line]
    PROVE  MemoryCurrent' /\ Writeback' /\ WordRead' /\ CopyIsCurrent'
<1>1. /\ tags' = tags /\ data' = data /\ data_rd' = data_rd /\ wb' = wb /\ flush' = flush
      /\ mem' = mem /\ golden' = golden
  BY Zenon DEF sram
<1>2. MemoryCurrent'
  BY Zenon, <1>1 DEF DataInv, MemoryCurrent, Dirty, Copies, WritingBack
<1>3. c_word' = c_word /\ c_data' = c_data
  BY Zenon, <1>1 DEF c_word, c_data
<1>4. Writeback'
  BY Zenon, <1>1, <1>3 DEF DataInv, Writeback
<1>5. WordRead' /\ CopyIsCurrent'
  BY Zenon, <1>1 DEF DataInv, WordRead, CopyIsCurrent, SameAccess
<1> QED BY Zenon, <1>2, <1>4, <1>5

\* Refilled depends on these registers and the latest data of the line.
LEMMA RefillStill ==
    ASSUME Refilled, UNCHANGED <<sram, miss, acq, held>>, SameAccess, refill_fifo' = refill_fifo,
           DataGrant => golden'[main.line] = golden[main.line],
           miss.state = "Fill" /\ held[main.line] # "N" => golden'[main.line] = golden[main.line]
    PROVE  Refilled'
<1>1. /\ tags' = tags /\ data' = data /\ miss' = miss /\ acq' = acq /\ held' = held
      /\ main'.line = main.line /\ main'.way = main.way
  BY Zenon DEF sram, SameAccess
<1>2. DataGrant' = DataGrant /\ First' = First
  BY Zenon, <1>1 DEF DataGrant, First
<1>3. GrantKinds'
  BY Zenon, <1>1 DEF Refilled, GrantKinds
<1>4. BeatsCurrent'
  BY Zenon, <1>1, <1>2 DEF Refilled, BeatsCurrent
<1>5. WayWaits'
  BY Zenon, <1>1, <1>2 DEF Refilled, WayWaits
<1> QED BY Zenon, <1>3, <1>4, <1>5 DEF Refilled

\* UncachedAccess depends on these registers and the latest data of the line.
LEMMA UncachedStill ==
    ASSUME UncachedAccess, UNCHANGED <<miss, unc, held>>, SameAccess,
           d' = d \/ (d = None /\ d'.kind # "AccessAck"),
           main.line \in Uncached => golden'[main.line] = golden[main.line]
    PROVE  UncachedAccess'
<1>1. miss' = miss /\ unc' = unc /\ held' = held
  BY Zenon
<1>2. /\ main'.line = main.line /\ main'.word = main.word /\ main'.op = main.op
  BY Zenon DEF SameAccess
<1>3. CASE d' = d
  BY Zenon, <1>1, <1>2, <1>3 DEF UncachedAccess
<1>4. CASE d'.kind # "AccessAck"
  BY Zenon, <1>1, <1>2, <1>4 DEF UncachedAccess
<1> QED BY Zenon, <1>3, <1>4

\* Steps that touch neither data nor permissions.
LEMMA QuietStep ==
    ASSUME DataInv, ScInv',
           \/ EnvReleaseAck
           \/ \E line \in Lines, cap \in {"toN", "toB"} : EnvProbe(line, cap)
           \/ \E outcome \in {"ok", "fault"} : EnvTranslate(outcome)
           \/ UNCHANGED vars
    PROVE  DataInv'
<1>1. /\ UNCHANGED <<sram, wb, flush, miss, refill, mem, golden, acq, unc, held>>
      /\ d' = d \/ (d = None /\ d' = [kind |-> "ReleaseAck"])
  BY Zenon DEF EnvReleaseAck, EnvProbe, EnvTranslate, vars, regs, manager, observers
<1>2. d' = d \/ (d = None /\ ~d_refill' /\ d'.kind # "AccessAck")
  BY <1>1 DEF d_refill
<1>3. SameAccess
  <2>1. CASE main' = main
    BY Zenon, <2>1 DEF SameAccess
  <2>2. ASSUME NEW outcome, EnvTranslate(outcome) PROVE SameAccess
    <3>1. main \in MainRegs /\ main' = [main EXCEPT !.ppn = outcome]
      BY Zenon, <2>2 DEF DataInv, ScInv, PermInv, LockInv, TypeOK, EnvTranslate
    <3> QED BY <3>1 DEF MainRegs, SameAccess
  <2> QED BY Zenon, <2>1, <2>2 DEF EnvReleaseAck, EnvProbe, vars, regs
<1>4. LockInv /\ Beats /\ Refilled /\ UncachedAccess
  BY Zenon DEF DataInv, ScInv, PermInv
<1>5. refill_fifo' = refill_fifo
  BY Zenon, <1>1, <1>2, <1>4, FifoStill
<1>6. mem' = mem /\ golden' = golden /\ held' = held
  BY Zenon, <1>1
<1>7. MemoryCurrent' /\ Writeback' /\ WordRead' /\ CopyIsCurrent'
  BY Zenon, <1>1, <1>3, <1>6, CopiesStill
<1>8. Refilled'
  BY Zenon, <1>1, <1>3, <1>4, <1>5, <1>6, RefillStill
<1>9. UncachedAccess'
  BY Zenon, <1>1, <1>2, <1>3, <1>4, <1>6, UncachedStill
<1> QED BY Zenon, <1>7, <1>8, <1>9 DEF DataInv

\* A write to a line the cache has no permission on, at the manager.
LEMMA ElsewhereWritten ==
    ASSUME DataInv, TypeOK', UNCHANGED <<sram, regs, held>>, NEW line \in Lines, NEW word \in Words, NEW v,
           held[line] = "N",
           mem' = [mem EXCEPT ![line][word] = v], golden' = [golden EXCEPT ![line][word] = v]
    PROVE  /\ MemoryCurrent' /\ Writeback' /\ WordRead' /\ CopyIsCurrent'
           /\ \A l \in Lines : l # line => golden'[l] = golden[l]
<1>1. /\ tags' = tags /\ data' = data /\ data_rd' = data_rd /\ wb' = wb /\ flush' = flush /\ main' = main /\ held' = held
  BY Zenon DEF sram, regs
<1>2. mem[line] = golden[line] /\ (flush.state # "Reset" => Copies(line) = {}) /\ ~WritingBack(line)
  BY Zenon, Unheld
<1>3. mem \in [Lines -> [Words -> Values]] /\ golden \in [Lines -> [Words -> Values]] /\ wb.line \in Lines
  BY Zenon DEF DataInv, ScInv, PermInv, LockInv, TypeOK, WbRegs
<1>4. \A l \in Lines : l # line => golden'[l] = golden[l] /\ mem'[l] = mem[l]
  BY Zenon, <1>3
<1>5. mem'[line] = golden'[line]
  <2>1. mem'[line] = [mem[line] EXCEPT ![word] = v] /\ golden'[line] = [golden[line] EXCEPT ![word] = v]
    BY Zenon, <1>3
  <2> QED BY Zenon, <1>2, <2>1
<1>6. MemoryCurrent'
  <2>1. \A l \in Lines : (Dirty(l)' <=> Dirty(l)) /\ (WritingBack(l)' <=> WritingBack(l))
    BY Zenon, <1>1 DEF Dirty, Copies, WritingBack
  <2>2. ASSUME NEW l \in Lines, mem'[l] # golden'[l]
        PROVE  (flush'.state # "Reset" /\ Dirty(l)') \/ WritingBack(l)'
    <3>1. mem[l] # golden[l]
      BY Zenon, <1>4, <1>5, <2>2
    <3> QED BY Zenon, <1>1, <2>1, <3>1 DEF DataInv, MemoryCurrent
  <2> QED BY Zenon, <1>1, <2>2 DEF DataInv, MemoryCurrent
<1>7. Writeback'
  <2>1. c_word' = c_word /\ c_data' = c_data
    BY Zenon, <1>1 DEF c_word, c_data
  <2>2. wb.state = "Progress" /\ HasCData(wb.opcode) => golden'[wb.line] = golden[wb.line] /\ mem'[wb.line] = mem[wb.line]
    BY Zenon, <1>2, <1>3, <1>4 DEF WritingBack
  <2> QED BY Zenon, <1>1, <2>1, <2>2 DEF DataInv, Writeback
<1>8. CopyIsCurrent'
  <2> SUFFICES ASSUME flush'.state # "Reset", NEW s \in Sets, NEW w \in Ways, tags'[s][w].valid
               PROVE  data'[s][w] = golden'[<<tags'[s][w].tag, s>>]
    BY Zenon DEF CopyIsCurrent
  <2>1. tags[s][w].tag \in Tags
    <3>1. tags \in [Sets -> [Ways -> TagEntry]]
      BY Zenon DEF DataInv, ScInv, PermInv, LockInv, TypeOK
    <3> QED BY Zenon, <3>1 DEF TagEntry
  <2>2. <<tags[s][w].tag, s>> \in Lines /\ w \in Copies(<<tags[s][w].tag, s>>)
    BY Zenon, <1>1, <2>1, LineTypes DEF Copies
  <2>3. <<tags[s][w].tag, s>> # line
    BY Zenon, <1>1, <1>2, <2>2
  <2>4. data[s][w] = golden[<<tags[s][w].tag, s>>]
    BY Zenon, <1>1 DEF DataInv, CopyIsCurrent
  <2> QED BY Zenon, <1>1, <1>4, <2>2, <2>3, <2>4
<1>9. WordRead'
  BY Zenon, <1>1 DEF DataInv, WordRead
<1> QED BY Zenon, <1>4, <1>6, <1>7, <1>8, <1>9

\* While data is granted, the manager has the cache on record.
LEMMA GrantHeld ==
    ASSUME LockInv, Beats, Refilled, DataGrant PROVE held[main.line] # "N"
<1>1. \A cap \in {"toT", "toB"} : CapPerm(cap) # "N"
  BY Zenon DEF CapPerm
<1>2. CASE acq # None
  <2>1. acq.with_data
    BY Zenon, <1>2 DEF DataGrant
  <2>2. acq.phase = "grant" /\ ~acq.denied
    BY Zenon, <1>2, <2>1 DEF Refilled, GrantKinds
  <2>3. acq.cap \in {"toT", "toB"} /\ held[main.line] = CapPerm(acq.cap)
    BY Zenon, <1>2, <2>2 DEF Beats, Agrees
  <2> QED BY Zenon, <1>1, <2>3
<1>3. CASE acq = None
  <2>1. refill_fifo # <<>>
    BY Zenon, <1>3 DEF DataGrant
  <2>2. 1 \in 1 .. Len(refill_fifo)
    BY Zenon, <2>1, FirstType, TailFacts
  <2>3. ~refill_fifo[1].denied
    BY Zenon, <2>2 DEF Refilled, BeatsCurrent
  <2>4. refill_fifo[1].param \in {"toT", "toB"} /\ held[main.line] = CapPerm(refill_fifo[1].param)
    BY Zenon, <2>2, <2>3 DEF Beats, Agrees
  <2> QED BY Zenon, <1>1, <2>4
<1> QED BY Zenon, <1>2, <1>3

\* Another agent writes a line that this cache does not have.
LEMMA OtherWriteData ==
    ASSUME DataInv, ScInv', NEW line \in Lines, NEW word \in Words, NEW value, EnvOtherWrite(line, word, value)
    PROVE  DataInv'
<1>1. /\ held[line] = "N" /\ line \notin Uncached /\ UNCHANGED <<sram, regs, held, d, acq, unc>>
      /\ mem' = [mem EXCEPT ![line][word] = value] /\ golden' = [golden EXCEPT ![line][word] = value]
  BY Zenon DEF EnvOtherWrite
<1>2. TypeOK' /\ LockInv /\ Beats /\ Refilled /\ UncachedAccess /\ main.line \in Lines
  BY Zenon DEF DataInv, ScInv, PermInv, LockInv, TypeOK, MainRegs
<1>3. /\ MemoryCurrent' /\ Writeback' /\ WordRead' /\ CopyIsCurrent'
      /\ \A l \in Lines : l # line => golden'[l] = golden[l]
  BY Zenon, <1>1, <1>2, ElsewhereWritten
<1>4. main' = main /\ miss' = miss /\ refill' = refill /\ d' = d /\ acq' = acq /\ held' = held /\ unc' = unc
  BY Zenon, <1>1 DEF regs
<1>5. SameAccess
  BY Zenon, <1>4 DEF SameAccess
<1>6. refill_fifo' = refill_fifo
  BY Zenon, <1>2, <1>4, FifoStill
<1>7. held[main.line] # "N" \/ main.line \in Uncached => golden'[main.line] = golden[main.line]
  BY Zenon, <1>1, <1>2, <1>3
<1>8. Refilled'
  BY Zenon, <1>1, <1>2, <1>4, <1>5, <1>6, <1>7, GrantHeld, RefillStill
<1>9. UncachedAccess'
  BY Zenon, <1>2, <1>4, <1>5, <1>7, UncachedStill
<1> QED BY Zenon, <1>3, <1>8, <1>9 DEF DataInv

\* The manager answers an uncached access.
LEMMA AccessData ==
    ASSUME DataInv, ScInv', EnvAccess PROVE DataInv'
<1>1. TypeOK /\ TypeOK' /\ LockInv /\ Beats /\ Refilled /\ UncachedAccess
  BY Zenon DEF DataInv, ScInv, PermInv, LockInv
<1>2. PICK denied \in BOOLEAN :
        /\ unc # None /\ d = None /\ unc' = None /\ UNCHANGED <<sram, regs, acq, held>>
        /\ d' = [kind |-> "AccessAck", denied |-> denied, data |-> mem[unc.line][unc.word]]
        /\ IF unc.write /\ ~denied
           THEN LET new == Combine(unc.full, unc.value, mem[unc.line][unc.word])
                IN  /\ mem' = [mem EXCEPT ![unc.line][unc.word] = new]
                    /\ golden' = [golden EXCEPT ![unc.line][unc.word] = new]
           ELSE UNCHANGED <<mem, golden>>
  BY Zenon DEF EnvAccess
<1>3. /\ miss.state = "Uncached" /\ miss.sent /\ main.line \in Uncached
      /\ unc.line = main.line /\ unc.word = main.word /\ unc.write = (main.op = "STORE")
  BY Zenon, <1>1, <1>2 DEF UncachedAccess
<1>4. main.line \in Lines /\ main.word \in Words /\ held[main.line] = "N" /\ mem[main.line] = golden[main.line]
  BY Zenon, <1>1, <1>3, Unheld DEF TypeOK, MainRegs, UncachedAccess
<1>5. d'.kind = "AccessAck" /\ d'.data = mem[unc.line][unc.word] /\ ~d_refill'
  BY <1>2 DEF d_refill
<1>6. main' = main /\ miss' = miss /\ refill' = refill /\ acq' = acq /\ held' = held /\ SameAccess
      /\ wb' = wb /\ flush' = flush
  BY Zenon, <1>2 DEF regs, SameAccess
<1>7. MemoryCurrent' /\ Writeback' /\ WordRead' /\ CopyIsCurrent'
  <2>1. CASE unc.write /\ ~denied
    <3> DEFINE new == Combine(unc.full, unc.value, mem[unc.line][unc.word])
    <3>1. mem' = [mem EXCEPT ![main.line][main.word] = new] /\ golden' = [golden EXCEPT ![main.line][main.word] = new]
      BY Zenon, <1>2, <1>3, <2>1
    <3> HIDE DEF new
    <3> QED BY Zenon, <1>1, <1>2, <1>4, <3>1, ElsewhereWritten
  <2>2. CASE ~(unc.write /\ ~denied)
    <3>1. mem' = mem /\ golden' = golden
      BY Zenon, <1>2, <2>2
    <3> QED BY Zenon, <1>2, <1>6, <3>1, CopiesStill
  <2> QED BY Zenon, <2>1, <2>2
<1>8. Refilled'
  <2>1. refill_fifo' = refill_fifo
    BY Zenon, <1>1, <1>2, <1>5, <1>6, FifoStill
  <2>2. ~DataGrant
    BY Zenon, <1>1, <1>3 DEF Beats, DataGrant
  <2> QED BY Zenon, <1>1, <1>2, <1>3, <1>6, <2>1, <2>2, RefillStill
<1>9. UncachedAccess'
  <2>1. main.op = "LOAD" => d'.data = golden'[main.line][main.word]
    <3>1. main.op = "LOAD" => golden' = golden
      BY Zenon, <1>2, <1>3
    <3> QED BY Zenon, <1>3, <1>4, <1>5, <3>1
  <2> QED BY Zenon, <1>1, <1>2, <1>3, <1>5, <1>6, <2>1 DEF UncachedAccess
<1> QED BY Zenon, <1>7, <1>8, <1>9 DEF DataInv

\* The manager records the grant; without data, the copy is still in its way.
LEMMA GrantData ==
    ASSUME DataInv, ScInv', EnvGrant PROVE DataInv'
<1>1. TypeOK /\ LockInv /\ Beats /\ Refilled /\ UncachedAccess /\ Reports /\ Probes
  BY Zenon DEF DataInv, ScInv, PermInv, LockInv
<1>2. /\ acq # None /\ acq.phase = "req" /\ OnLine(acq.line) # probing
      /\ UNCHANGED <<sram, regs, d, unc, mem, golden>>
  BY Zenon DEF EnvGrant, observers
<1>3. /\ acq.line \in Lines /\ acq.line = main.line /\ miss.state = "Fill" /\ miss.sent
      /\ ~acq.denied /\ ~acq.with_data /\ acq.beat = 0
  BY Zenon, <1>1, <1>2, AcqTypes DEF Beats
<1>4. PICK cap \in {"toT", "toB"}, with_data \in BOOLEAN :
        /\ ~with_data => acq.param = "BtoT" /\ held[acq.line] = "B"
        /\ IF acq.line \in Uncached
           THEN /\ acq' = [acq EXCEPT !.phase = "grant", !.denied = TRUE, !.cap = "toN"]
                /\ held' = held
           ELSE /\ acq' = [acq EXCEPT !.phase = "grant", !.cap = cap, !.with_data = with_data]
                /\ held' = [held EXCEPT ![acq.line] = CapPerm(cap)]
  BY Zenon DEF EnvGrant
<1>5. acq'.kind = "acq" /\ acq'.phase = "grant" /\ acq'.beat = acq.beat /\ acq'.param = acq.param
  BY Zenon, <1>1, <1>2, <1>4, AcqTypes
<1>6. /\ acq.line \in Uncached => acq'.denied /\ ~acq'.with_data /\ held' = held
      /\ acq.line \notin Uncached => ~acq'.denied /\ acq'.with_data = with_data
  BY Zenon, <1>1, <1>2, <1>3, <1>4, AcqTypes
<1>7. acq' # None
  BY <1>5 DEF None
<1>8. \A line \in Lines : line # acq.line \/ line \in Uncached => held'[line] = held[line]
  BY Zenon, <1>1, <1>3, <1>4 DEF TypeOK
<1>9. /\ tags' = tags /\ data' = data /\ wb' = wb /\ flush' = flush /\ main' = main /\ miss' = miss /\ refill' = refill
      /\ d' = d /\ unc' = unc /\ golden' = golden /\ SameAccess
  BY Zenon, <1>2 DEF sram, regs, SameAccess
<1>10. MemoryCurrent' /\ Writeback' /\ WordRead' /\ CopyIsCurrent'
  <2>1. wb.state = "Progress" => wb.line # acq.line
    BY Zenon, <1>1, <1>2, <1>3 DEF Reports, Releasing, Probes, Answering
  <2>2. wb.line \in Lines
    BY Zenon, <1>1 DEF TypeOK, WbRegs
  <2> QED BY Zenon, <1>2, <1>8, <1>9, <2>1, <2>2, CopiesStill
<1>11. refill_fifo' = refill_fifo /\ refill_fifo = <<>> /\ Len(refill_fifo) = 0 /\ 1 .. Len(refill_fifo) = {}
  BY Zenon, <1>1, <1>2, <1>9, FifoStill, NoBeats
<1>12. GrantKinds'
  BY Zenon, <1>1, <1>2, <1>3, <1>4, <1>5, <1>6, <1>7, <1>9, <1>11 DEF Refilled, GrantKinds
<1>13. BeatsCurrent'
  <2>1. First' = 0 - 0
    BY Zenon, <1>3, <1>5, <1>7, <1>11 DEF First
  <2>2. First' = 0
    BY <2>1
  <2>3. \A k \in Words : ~(k < 0)
    BY DEF Words
  <2> QED BY Zenon, <1>11, <2>2, <2>3 DEF BeatsCurrent
<1>14. WayWaits'
  <2>1. ~DataGrant
    BY Zenon, <1>2, <1>3 DEF DataGrant
  <2>2. ~DataGrant' => ~acq'.with_data
    BY Zenon, <1>7 DEF DataGrant
  <2>3. ~acq'.with_data /\ held'[main.line] # "N" => held[main.line] # "N"
    <3>1. "B" # "N"
      OBVIOUS
    <3> QED BY Zenon, <1>3, <1>4, <1>6, <3>1
  <2> QED BY Zenon, <1>1, <1>9, <2>1, <2>2, <2>3 DEF Refilled, WayWaits
<1>15. UncachedAccess'
  <2>1. Uncached \subseteq Lines
    BY Zenon, DCacheAssumption DEF Lines
  <2> QED BY Zenon, <1>1, <1>8, <1>9, <2>1 DEF UncachedAccess
<1> QED BY Zenon, <1>10, <1>12, <1>13, <1>14, <1>15 DEF DataInv, Refilled

\* What the manager sends is the latest: nobody has a copy of the line.
LEMMA ManagerCurrent ==
    ASSUME DataInv, acq # None, acq.phase = "grant"
    PROVE  acq.line = main.line /\ mem[main.line] = golden[main.line]
<1>1. acq.line = main.line /\ miss.state = "Fill" /\ probing # OnLine(main.line) /\ main.line \in Lines
  BY Zenon DEF DataInv, ScInv, PermInv, LockInv, TypeOK, MainRegs, Beats
<1>2. ~Dirty(main.line)
  BY Zenon, <1>1 DEF Dirty, DataInv, ScInv, PermInv, Absent
<1>3. ~WritingBack(main.line)
  BY Zenon, <1>1 DEF WritingBack, DataInv, ScInv, PermInv, Probes, Answering, Reports, Releasing
<1> QED BY Zenon, <1>1, <1>2, <1>3 DEF DataInv, MemoryCurrent

\* The manager sends the next word of the line from memory.
LEMMA GrantBeatData ==
    ASSUME DataInv, ScInv', EnvGrantBeat PROVE DataInv'
<1>1. TypeOK /\ LockInv /\ Beats /\ Refilled /\ UncachedAccess
  BY Zenon DEF DataInv, ScInv, PermInv, LockInv
<1>2. acq # None /\ acq.phase = "grant" /\ d = None /\ UNCHANGED <<sram, regs, unc, held, mem, golden>>
  BY Zenon DEF EnvGrantBeat, observers
<1>3. acq.line = main.line /\ mem[main.line] = golden[main.line]
  BY Zenon, <1>2, ManagerCurrent
<1>4. /\ tags' = tags /\ data' = data /\ wb' = wb /\ flush' = flush /\ main' = main /\ miss' = miss
      /\ held' = held /\ unc' = unc /\ golden' = golden /\ SameAccess
  BY Zenon, <1>2 DEF sram, regs, SameAccess
<1>5. /\ refill_fifo' = Append(refill_fifo, d') /\ refill_fifo \in Seq(Beat) /\ d' \in Beat /\ d'.denied = acq.denied
      /\ d'.idx = acq.beat /\ d'.data = mem[acq.line][acq.beat]
      /\ d'.last <=> ~acq.with_data \/ acq.beat = NumBeats - 1
      /\ d'.last => acq' = None
      /\ ~d'.last => /\ acq' # None /\ acq'.phase = acq.phase /\ acq'.param = acq.param
                     /\ acq'.with_data = acq.with_data /\ acq'.denied = acq.denied /\ acq'.beat = acq.beat + 1
  BY Zenon, <1>1, BeatSent
<1>6. d'.kind = (IF acq.with_data THEN "GrantData" ELSE "Grant")
  BY Zenon, <1>1, BeatSent
<1>7. /\ refill_fifo' # <<>> /\ Len(refill_fifo) \in Nat /\ Len(refill_fifo') = Len(refill_fifo) + 1
      /\ \A i \in 1 .. Len(refill_fifo') :
           \/ i \in 1 .. Len(refill_fifo) /\ refill_fifo'[i] = refill_fifo[i]
           \/ i = Len(refill_fifo) + 1 /\ refill_fifo'[i] = d'
  <2>1. /\ refill_fifo' # <<>> /\ Len(refill_fifo) \in Nat /\ Len(refill_fifo') = Len(refill_fifo) + 1
        /\ \A i \in 1 .. Len(refill_fifo') :
             \/ i \in 1 .. Len(refill_fifo) /\ i # Len(refill_fifo') /\ refill_fifo'[i] = refill_fifo[i]
             \/ i = Len(refill_fifo') /\ refill_fifo'[i] = d'
    BY Zenon, <1>5, AppendFacts
  <2> QED BY Zenon, <2>1
<1>8. 1 \in 1 .. Len(refill_fifo')
  <2> DEFINE n == Len(refill_fifo)  m == Len(refill_fifo')
  <2>1. n \in Nat /\ m = n + 1
    BY Zenon, <1>7
  <2> HIDE DEF n, m
  <2>2. 1 \in 1 .. m
    BY <2>1
  <2> QED BY Zenon, <2>2 DEF m
<1>9. acq.beat \in Words
  BY Zenon, <1>1, <1>2, AcqTypes
<1>10. MemoryCurrent' /\ Writeback' /\ WordRead' /\ CopyIsCurrent'
  BY Zenon, <1>2, <1>4, CopiesStill
<1>11. UncachedAccess'
  <2>1. d'.kind # "AccessAck"
    BY Zenon, <1>6
  <2> QED BY Zenon, <1>1, <1>2, <1>4, <2>1, UncachedStill
<1>12. CASE acq.with_data
  <2>1. DataGrant /\ ~acq.denied /\ d'.kind = "GrantData"
    BY Zenon, <1>1, <1>2, <1>6, <1>12 DEF DataGrant, Refilled, GrantKinds
  <2>2. First' = First /\ acq.beat = First + (Len(refill_fifo) + 1) - 1
    <3> DEFINE n == Len(refill_fifo)  m == Len(refill_fifo')  k == acq.beat  k1 == acq'.beat
    <3>1. n \in Nat /\ m = n + 1 /\ k \in Words /\ First = k - n
      BY Zenon, <1>2, <1>7, <1>9 DEF First
    <3>2. CASE d'.last
      <4>1. First' = NumBeats - m /\ k = NumBeats - 1
        BY Zenon, <1>5, <1>12, <3>2 DEF First
      <4> HIDE DEF n, m, k
      <4>2. First' = First /\ k = First + (n + 1) - 1
        BY <3>1, <4>1, DCacheAssumption DEF Words
      <4> QED BY Zenon, <4>2 DEF n, k
    <3>3. CASE ~d'.last
      <4>1. First' = k1 - m /\ k1 = k + 1
        BY Zenon, <1>5, <3>3 DEF First
      <4> HIDE DEF n, m, k, k1
      <4>2. First' = First /\ k = First + (n + 1) - 1
        BY <3>1, <4>1, DCacheAssumption DEF Words
      <4> QED BY Zenon, <4>2 DEF n, k
    <3> QED BY Zenon, <3>2, <3>3
  <2>3. ASSUME NEW i \in 1 .. Len(refill_fifo')
        PROVE  /\ refill_fifo'[i].kind = "GrantData" /\ ~refill_fifo'[i].denied
               /\ refill_fifo'[i].idx = First + i - 1
               /\ refill_fifo'[i].data = golden[main.line][refill_fifo'[i].idx]
    <3>1. CASE i \in 1 .. Len(refill_fifo) /\ refill_fifo'[i] = refill_fifo[i]
      BY Zenon, <1>1, <2>1, <3>1 DEF Refilled, BeatsCurrent
    <3>2. CASE i = Len(refill_fifo) + 1 /\ refill_fifo'[i] = d'
      BY Zenon, <1>3, <1>5, <2>1, <2>2, <3>2
    <3> QED BY Zenon, <1>7, <2>3, <3>1, <3>2
  <2>4. BeatsCurrent'
    <3>1. \A k \in Words : k < First => data[SetOf(main.line)][main.way][k] = golden[main.line][k]
      BY Zenon, <1>1, <2>1 DEF Refilled, BeatsCurrent
    <3> QED BY Zenon, <1>4, <2>2, <2>3, <3>1 DEF BeatsCurrent
  <2>5. DataGrant'
    BY Zenon, <1>5, <1>7, <1>8, <1>12, <2>3 DEF DataGrant
  <2>6. GrantKinds'
    <3>1. refill_fifo'[1].kind # "Grant"
      BY Zenon, <1>8, <2>3
    <3> QED BY Zenon, <1>1, <1>2, <1>4, <1>5, <1>7, <1>12, <3>1 DEF Refilled, GrantKinds
  <2>7. WayWaits'
    BY Zenon, <1>1, <1>4, <2>5 DEF Refilled, WayWaits
  <2> QED BY Zenon, <1>10, <1>11, <2>4, <2>6, <2>7 DEF DataInv, Refilled
<1>13. CASE ~acq.with_data
  <2>1. refill_fifo = <<>> /\ d'.kind = "Grant" /\ (acq.denied \/ miss.upgrade)
    BY Zenon, <1>1, <1>2, <1>6, <1>13 DEF Refilled, GrantKinds
  <2>2. Len(refill_fifo) = 0 /\ Len(refill_fifo') = 1 /\ 1 \notin 1 .. Len(refill_fifo)
    BY <1>7, <2>1
  <2>3. refill_fifo'[1] = d' /\ acq' = None
    BY Zenon, <1>5, <1>7, <1>8, <1>13, <2>2
  <2>4. ~DataGrant' /\ ~DataGrant
    BY Zenon, <1>2, <1>13, <2>1, <2>3 DEF DataGrant
  <2>5. GrantKinds'
    BY Zenon, <1>4, <1>5, <1>7, <2>1, <2>2, <2>3 DEF GrantKinds
  <2>6. BeatsCurrent'
    BY Zenon, <2>4 DEF BeatsCurrent
  <2>7. WayWaits'
    BY Zenon, <1>1, <1>4, <2>4 DEF Refilled, WayWaits
  <2> QED BY Zenon, <1>10, <1>11, <2>5, <2>6, <2>7 DEF DataInv, Refilled
<1> QED BY Zenon, <1>12, <1>13

\* The reset state: nothing is cached, nothing is on its way.
LEMMA InitData == Init => DataInv
<1> SUFFICES ASSUME Init PROVE DataInv
  BY Zenon
<1>1. ScInv
  BY Zenon, InitSc
<1>2. /\ main.state = "Idle" /\ miss.state = "Idle" /\ wb.state = "Idle" /\ flush.state = "Reset"
      /\ refill.fifo = <<>> /\ d = None /\ acq = None /\ unc = None /\ golden = mem
      /\ held = [line \in Lines |-> "N"]
  BY Zenon DEF Init, MainReset, MissReset, WbReset
<1>3. refill_fifo = <<>> /\ d.kind # "AccessAck"
  BY Zenon, <1>2 DEF refill_fifo, refill_fifo_insert, d_refill, None
<1>4. MemoryCurrent /\ Writeback /\ WordRead /\ CopyIsCurrent
  BY Zenon, <1>2 DEF MemoryCurrent, Writeback, WordRead, CopyIsCurrent
<1>5. ~DataGrant
  BY Zenon, <1>2, <1>3 DEF DataGrant
<1>6. Refilled
  BY Zenon, <1>2, <1>3, <1>5 DEF Refilled, GrantKinds, BeatsCurrent, WayWaits
<1>7. \A line \in Uncached : line \in Lines
  BY Zenon, DCacheAssumption DEF Lines
<1>8. UncachedAccess
  BY Zenon, <1>2, <1>3, <1>7 DEF UncachedAccess
<1> QED BY Zenon, <1>1, <1>4, <1>6, <1>8 DEF DataInv

\* DataInv is inductive.
LEMMA DataStep == DataInv /\ [Next]_vars => DataInv'
<1> SUFFICES ASSUME DataInv, [Next]_vars PROVE DataInv'
  BY Zenon
<1>1. ScInv'
  BY Zenon, ScStep DEF DataInv
<1>2. \A lw \in Written : lw[1] \in Lines /\ lw[2] \in Words
  BY DCacheAssumption DEF Lines, Words
<1>3. CASE Env
  BY Zenon, <1>1, <1>2, <1>3, GrantData, GrantBeatData, AccessData, OtherWriteData, QuietStep DEF Env
<1>4. CASE UNCHANGED vars
  BY Zenon, <1>1, <1>4, QuietStep
<1> QED BY Zenon, <1>1, <1>3, <1>4, TickData DEF Next

\* Once the tags are cleared, every valid copy of muntjac_dcache is the latest data
\* of its line, for any number of ways, sets, words and lines.
THEOREM DCacheCurrent == Spec => []CopyIsCurrent
<1>1. DataInv => CopyIsCurrent
  BY Zenon DEF DataInv
<1> QED BY <1>1, InitData, DataStep, PTL DEF Spec

\* A line is newer than memory only while it is dirty or written back, and then
\* the cache is on record as its writer.
LEMMA MemoryMeaning == DataInv => StoresReachMemory
<1> SUFFICES ASSUME DataInv, NEW line \in Lines, mem[line] # golden[line] PROVE held[line] = "T"
  BY Zenon DEF StoresReachMemory
<1>1. CASE flush.state # "Reset" /\ Dirty(line)
  <2>1. PICK w \in Copies(line) : tags[SetOf(line)][w].dirty
    BY Zenon, <1>1 DEF Dirty
  <2>2. tags[SetOf(line)][w].writable
    BY Zenon, <1>1, <2>1, LineTypes DEF DataInv, MemoryCurrent, Copies
  <2> QED BY Zenon, <1>1, <2>2 DEF DataInv, ScInv, PermInv, Granted, Within
<1>2. CASE WritingBack(line)
  BY Zenon, <1>2 DEF WritingBack, DataInv, Writeback
<1> QED BY Zenon, <1>1, <1>2 DEF DataInv, MemoryCurrent

\* No store is lost: where the manager does not record this cache as the writer,
\* memory holds the latest data.
THEOREM DCacheStores == Spec => []StoresReachMemory
  BY InitData, DataStep, MemoryMeaning, PTL DEF Spec

\* A load is answered by a copy, or by the manager for an uncached line.
LEMMA LoadMeaning == DataInv => LoadsAreCurrent
<1> SUFFICES ASSUME DataInv, response.kind = "resp", main.op \in ReadOps
             PROVE  response.value = golden[main.line][main.word]
  BY Zenon DEF LoadsAreCurrent
<1>1. PermInv /\ main.line \in Lines /\ main.word \in Words
  BY Zenon DEF DataInv, ScInv, PermInv, LockInv, TypeOK, MainRegs
<1>2. main.state # "Exception"
  <2>1. [kind |-> "ex"].kind # "resp"
    OBVIOUS
  <2> QED BY Zenon, <2>1 DEF response
<1>3. responding
  <2>1. None.kind # "resp"
    BY DEF None
  <2> QED BY Zenon, <1>2, <2>1 DEF response
<1>4. main.op # "SC" /\ main.op # "STORE" /\ ~main.reservation_failed
  BY Zenon DEF DataInv, ScInv, Reserved, ReadOps
<1>5. ~fetch_sc_fail
  BY Zenon, <1>4 DEF fetch_sc_fail
<1>6. response.value = IF miss_resp_valid THEN d.data ELSE data_rd[hit_way]
  <2>1. response = [kind |-> "resp", value |-> IF miss_resp_valid THEN d.data ELSE data_rd[hit_way]]
    BY Zenon, <1>2, <1>3, <1>4, <1>5 DEF response
  <2> QED BY Zenon, <2>1
<1>7. CASE miss_resp_valid
  <2>1. miss.state = "Uncached" /\ d.kind = "AccessAck"
    BY Zenon, <1>7 DEF miss_resp_valid, d_access
  <2>2. main.op = "LOAD" /\ d.data = golden[main.line][main.word]
    BY Zenon, <1>4, <2>1 DEF DataInv, UncachedAccess
  <2> QED BY Zenon, <1>6, <1>7, <2>2
<1>8. CASE ~miss_resp_valid
  <2>1. fetch_hit
    BY Zenon, <1>3, <1>5, <1>8 DEF responding
  <2>2. /\ hit_way \in Copies(main.line) /\ hit_way \in Ways /\ main.state = "Fetch" /\ flush.state # "Reset"
    BY Zenon, <1>1, <2>1, HitOne
  <2>3. data_rd[hit_way] = data[SetOf(main.line)][hit_way][main.word]
    BY Zenon, <1>4, <2>2 DEF DataInv, WordRead
  <2>4. data[SetOf(main.line)][hit_way] = golden[main.line]
    BY Zenon, <1>1, <2>2, CurrentCopy DEF DataInv
  <2> QED BY Zenon, <1>6, <1>8, <2>3, <2>4
<1> QED BY Zenon, <1>7, <1>8

\* Every LOAD, LR and AMO that muntjac_dcache answers returns the latest value of
\* its word, cached or not.
THEOREM DCacheLoads == Spec => []LoadsAreCurrent
  BY InitData, DataStep, LoadMeaning, PTL DEF Spec
===============================================================================
