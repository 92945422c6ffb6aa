--------------------------- MODULE TlBroadcastSteps ---------------------------
(***************************************************************************)
(* The inductive invariants of the broadcast hub, Inv for permissions and   *)
(* DataInv for data, and what its steps do to them.  Every step keeps the   *)
(* types, what is known of the request being served, that one grant is on its*)
(* way for it, and that there is one writer.  The steps of the hub and of the*)
(* device, and the requests of the hosts, keep DataInv.                     *)
(*                                                                          *)
(* The argument for data: dirty data travels from the host to channel C, from*)
(* there to the device's queue, and then is in memory; it is in one of these*)
(* places (OneReturn), and there it is the latest value (Current).  A host  *)
(* whose release is on the way answers no probe, so the hub does not go on to*)
(* read memory behind it (OneRelease, HeldOff); and the host that asks has  *)
(* neither the line for writing nor a release on the way (Requests).        *)
(***************************************************************************)
EXTENDS TlBroadcast, TLAPS

Acquires == {"AcquireBlock", "AcquirePerm"}
Cached == {"toT", "toB"}
ProbeAcks == {"ProbeAck", "ProbeAckData"}

\* What is known of the request being served, from its kind and the state.
Kinds ==
    /\ req.op \in Acquires <=> req.xact \in Cached
    /\ state = "Req" => req.op # "AcquirePerm"
    /\ state = "Grant" => req.op = "AcquirePerm"
    /\ state = "Wait" => req.op \in Acquires
    /\ state \in {"Inv", "Req", "Grant"} => a[req.source] # None
    /\ state \in {"Inv", "Req", "Grant"} /\ req.op \in Acquires => ~ack_done
    /\ state # "Idle" => /\ req.xact = "toT" => probe_param = "toN"
                         /\ req.xact = "toB" => probe_param \in {"toB", "toN"}

\* The places where a grant can be on its way: the request and the answer of the
\* device, channel D, and channel E on the way back.
Asks(m) == m.xact \in Cached /\ ~ProbeData(m)
Answers == dev_d # None /\ dev_d.xact \in Cached /\ ~dropped
Grants(g) == d[g].kind \in {"Grant", "GrantData"}

Serving(g) == state = "Wait" /\ ~ack_done /\ g = req.source

InFlight ==
    /\ \A i \in 1 .. Len(dev_a) :
          Asks(dev_a[i]) => /\ Serving(dev_a[i].source)
                            /\ dev_a[i].line = req.line /\ dev_a[i].xact = req.xact
    /\ Answers => Serving(dev_d.source) /\ dev_d.line = req.line /\ dev_d.xact = req.xact
    /\ \A g \in Agents : Grants(g) => Serving(g) /\ d[g].line = req.line /\ d[g].param = req.xact
    /\ \A h \in e : Serving(h)

\* A grant is in one place only.
OneGrant ==
    /\ \A i, j \in 1 .. Len(dev_a) : Asks(dev_a[i]) /\ Asks(dev_a[j]) => i = j
    /\ Answers => \A i \in 1 .. Len(dev_a) : ~Asks(dev_a[i])
    /\ (\E g \in Agents : Grants(g)) => ~Answers /\ \A i \in 1 .. Len(dev_a) : ~Asks(dev_a[i])
    /\ e # {} => /\ ~Answers /\ \A i \in 1 .. Len(dev_a) : ~Asks(dev_a[i])
                 /\ \A g \in Agents : ~Grants(g)

\* A probe is waiting, sent or answered, and asks for what the request needs.
Places ==
    /\ \A h \in Hosts : b[h] # None =>
          /\ h \notin probe_pending /\ c[h].kind \notin ProbeAcks
          /\ b[h].line = req.line /\ b[h].param = probe_param
    /\ \A h \in probe_pending : c[h].kind \notin ProbeAcks

Below(p, cap) == (cap = "toN" => p = "N") /\ (cap = "toB" => p # "T")

\* A host that has answered has no more than the request allows.
Probed ==
    state # "Idle" =>
        \A h \in Hosts \ {req.source} :
            h \notin probe_pending /\ b[h] = None => Below(perm[h][req.line], probe_param)

\* No probe is on its way, nor its answer, nor the dirty data that came with it.
Calm ==
    /\ probe_pending = {} /\ \A h \in Hosts : b[h] = None /\ c[h].kind \notin ProbeAcks
    /\ \A i \in 1 .. Len(dev_a) : ~ProbeData(dev_a[i])
    /\ ~(dev_d # None /\ dropped)

\* What ProbesAccounted says when the counter is zero or not in use.
NoneAwaited == state # "Inv" \/ probe_ack_pending = 0 => Calm

Inv == /\ TypeOK /\ Kinds /\ InFlight /\ OneGrant /\ Places /\ Probed /\ SingleWriter
       /\ ProbesAccounted /\ NoneAwaited

\* The requests that the device holds.
Held == [kind : {"Get", "PutFullData"}, line : Lines, source : Agents, xact : XactTypes, value : Values]
Writebacks(s) == {k \in DOMAIN s : ProbeData(s[k])}

-----------------------------------------------------------------------------
(* Types *)

\* Where the elements of a sequence were before the k-th was taken out of it.
LEMMA Positions ==
    ASSUME NEW S, NEW s \in Seq(S), NEW k \in 1 .. Len(s)
    PROVE  /\ \A i \in 1 .. Len(s) - 1 : (IF i < k THEN i ELSE i + 1) \in 1 .. Len(s) /\ (IF i < k THEN i ELSE i + 1) # k
           /\ \A i, j \in 1 .. Len(s) - 1 :
                /\ (IF i < k THEN i ELSE i + 1) = (IF j < k THEN j ELSE j + 1) => i = j
                /\ (IF i < k THEN i ELSE i + 1) < (IF j < k THEN j ELSE j + 1) => i < j
           /\ \A i \in 1 .. Len(s) : 1 <= i /\ ~(i < 1) /\ i <= i
  OBVIOUS

LEMMA WithoutType ==
    ASSUME NEW S, NEW s \in Seq(S), NEW k \in 1 .. Len(s)
    PROVE  /\ Without(s, k) \in Seq(S) /\ Len(Without(s, k)) = Len(s) - 1
           /\ \A i \in 1 .. Len(s) - 1 : Without(s, k)[i] = IF i < k THEN s[i] ELSE s[i + 1]
<1>1. Len(s) - 1 \in Nat
  OBVIOUS
<1>2. \A i \in 1 .. Len(s) - 1 : (IF i < k THEN s[i] ELSE s[i + 1]) \in S
  OBVIOUS
<1>3. Without(s, k) \in [1 .. Len(s) - 1 -> S]
  BY Zenon, <1>2 DEF Without
<1>4. Without(s, k) \in Seq(S)
  BY <1>1, <1>3
<1>5. DOMAIN Without(s, k) = 1 .. Len(s) - 1
  BY Zenon DEF Without
<1>6. Len(Without(s, k)) = Len(s) - 1
  BY <1>1, <1>4, <1>5
<1> QED BY Zenon, <1>4, <1>6 DEF Without

LEMMA MessageTypes ==
    ASSUME TypeOK
    PROVE  /\ \A g \in Agents : a[g] # None =>
                /\ a[g].kind \in {"AcquireBlock", "AcquirePerm", "Get", "PutFullData"}
                /\ a[g].line \in Lines /\ a[g].param \in GrowParams /\ a[g].value \in Values
           /\ \A h \in Hosts : b[h] # None => b[h].line \in Lines /\ b[h].param \in CapParams
           /\ \A h \in Hosts : c[h] # None =>
                c[h].kind \in COpcodes /\ c[h].line \in Lines /\ c[h].value \in Values
           /\ \A g \in Agents : d[g].kind \in {"Grant", "GrantData", "AccessAck", "AccessAckData"} =>
                d[g].line \in Lines /\ d[g].param \in XactTypes /\ d[g].value \in Values
           /\ dev_a \in Seq(Held) /\ \A i \in 1 .. Len(dev_a) : dev_a[i] \in Held
           /\ dev_d # None => /\ dev_d.kind \in {"AccessAck", "AccessAckData"} /\ dev_d.line \in Lines
                              /\ dev_d.source \in Agents /\ dev_d.xact \in XactTypes
                              /\ dev_d.value \in Values
           /\ /\ req.op \in {"AcquireBlock", "AcquirePerm", "Get", "PutFullData"}
              /\ req.line \in Lines /\ req.source \in Agents /\ req.xact \in XactTypes
<1>1. \A g \in Agents : a[g] # None =>
        /\ a[g].kind \in {"AcquireBlock", "AcquirePerm", "Get", "PutFullData"}
        /\ a[g].line \in Lines /\ a[g].param \in GrowParams /\ a[g].value \in Values
  BY Zenon DEF TypeOK, Slot, None
<1>2. \A h \in Hosts : b[h] # None => b[h].line \in Lines /\ b[h].param \in CapParams
  BY Zenon DEF TypeOK, Slot, None
<1>3. \A h \in Hosts : c[h] # None =>
        c[h].kind \in COpcodes /\ c[h].line \in Lines /\ c[h].value \in Values
  BY Zenon DEF TypeOK, Slot, None
<1>4. \A g \in Agents : d[g].kind \in {"Grant", "GrantData", "AccessAck", "AccessAckData"} =>
        d[g].line \in Lines /\ d[g].param \in XactTypes /\ d[g].value \in Values
  BY DEF TypeOK, Slot, None
<1>5. dev_a \in Seq(Held) /\ \A i \in 1 .. Len(dev_a) : dev_a[i] \in Held
  <2>1. dev_a \in Seq(Held)
    BY Zenon DEF TypeOK, Held
  <2> QED BY <2>1
<1>6. dev_d # None => /\ dev_d.kind \in {"AccessAck", "AccessAckData"} /\ dev_d.line \in Lines
                      /\ dev_d.source \in Agents /\ dev_d.xact \in XactTypes
                      /\ dev_d.value \in Values
  BY Zenon DEF TypeOK, Slot, None
<1>7. /\ req.op \in {"AcquireBlock", "AcquirePerm", "Get", "PutFullData"}
      /\ req.line \in Lines /\ req.source \in Agents /\ req.xact \in XactTypes
  BY Zenon DEF TypeOK
<1> QED BY Zenon, <1>1, <1>2, <1>3, <1>4, <1>5, <1>6, <1>7

\* What CountAck subtracts was counted.
LEMMA PendingStep ==
    ASSUME TypeOK, NoneAwaited, CountAck,
           (\E h \in Hosts : c[h].kind \in ProbeAcks) \/ (dev_d # None /\ dropped)
    PROVE  state = "Inv" /\ probe_ack_pending' = probe_ack_pending - 1 /\ probe_ack_pending' \in 0 .. NumHosts
<1>1. state = "Inv" /\ probe_ack_pending # 0
  BY Zenon DEF NoneAwaited, Calm
<1> QED BY <1>1, BroadcastAssumption DEF CountAck, TypeOK

LEMMA ConstantFacts ==
    /\ NoLine \in Lines /\ 0 \in Values /\ Dma \in Agents /\ Hosts \subseteq Agents /\ Dma \notin Hosts
    /\ \A h \in Hosts : h \in Int
  BY BroadcastAssumption DEF NoLine, Values, Agents, Hosts, Dma

LEMMA InitTypes == Init => TypeOK
<1> SUFFICES ASSUME Init PROVE TypeOK
  BY Zenon
<1>1. dev_a \in Seq(Held)
  BY DEF Init
<1> USE ConstantFacts, BroadcastAssumption DEF Init
<1>2. /\ a \in [Agents -> Slot([kind : {"AcquireBlock", "AcquirePerm", "Get", "PutFullData"}, line : Lines,
                              param : GrowParams, value : Values])]
      /\ b \in [Hosts -> Slot([kind : {"ProbeBlock"}, line : Lines, param : CapParams])]
      /\ c \in [Hosts -> Slot([kind : COpcodes, line : Lines, value : Values])]
      /\ d \in [Agents -> Slot({[kind |-> "ReleaseAck"]}
                \cup [kind : {"Grant", "GrantData", "AccessAck", "AccessAckData"}, line : Lines,
                      param : XactTypes, value : Values])]
      /\ asked \in [Agents -> Slot(OnLines)] /\ releasing \in [Hosts -> Slot(OnLines)]
  BY Zenon DEF Slot, None
<1>3. /\ perm \in [Hosts -> [Lines -> Perms]] /\ copy \in [Hosts -> [Lines -> Values]]
      /\ dirty \in [Hosts -> [Lines -> BOOLEAN]] /\ mem \in [Lines -> Values] /\ golden \in [Lines -> Values]
  BY Zenon DEF Perms
<1>4. req \in [op : {"AcquireBlock", "AcquirePerm", "Get", "PutFullData"}, line : Lines, source : Agents,
                xact : XactTypes]
  BY Zenon DEF XactTypes
<1>5. dev_d \in Slot([kind : {"AccessAck", "AccessAckData"}, line : Lines, source : Agents, xact : XactTypes,
                       value : Values])
  BY Zenon DEF Slot, None
<1>6. /\ state \in {"Idle", "Inv", "Req", "Grant", "Wait"}
      /\ probe_ack_pending \in 0 .. NumHosts
      /\ probe_pending \subseteq Hosts /\ probe_param \in CapParams /\ e \subseteq Hosts
  BY DEF CapParams
<1>7. ack_done \in BOOLEAN /\ grant_done \in BOOLEAN
  BY Zenon, Zenon
<1> HIDE DEF Init
<1> QED BY Zenon, <1>1, <1>2, <1>3, <1>4, <1>5, <1>6, <1>7 DEF TypeOK, Held

LEMMA AcceptTypes ==
    ASSUME TypeOK, NEW g \in Agents, HubAccept(g) PROVE TypeOK'
<1>1. req' \in [op : {"AcquireBlock", "AcquirePerm", "Get", "PutFullData"}, line : Lines, source : Agents,
                xact : XactTypes]
  BY Zenon, MessageTypes DEF HubAccept, xact_type, XactTypes
<1>2. probe_ack_pending' \in 0 .. NumHosts
  BY BroadcastAssumption DEF HubAccept
<1>3. probe_pending' \subseteq Hosts /\ probe_param' \in CapParams
  BY Zenon DEF HubAccept, cap_of, CapParams
<1> QED BY Zenon, <1>1, <1>2, <1>3 DEF TypeOK, HubAccept, hosts

LEMMA RequestTypes ==
    ASSUME TypeOK, Kinds, HubRequest PROVE TypeOK'
<1>1. a[req.source] # None /\ a[req.source].value \in Values /\ req.source \in Agents /\ req.line \in Lines
  BY Zenon, MessageTypes DEF HubRequest, Kinds
<1>2. (IF req.xact = "uncached" THEN req.op ELSE "Get") \in {"Get", "PutFullData"}
  BY Zenon, MessageTypes DEF Kinds, Acquires, Cached, HubRequest
<1>3. dev_a' \in Seq(Held)
  <2> DEFINE m == [kind |-> IF req.xact = "uncached" THEN req.op ELSE "Get", line |-> req.line,
                   source |-> req.source, xact |-> req.xact, value |-> a[req.source].value]
  <2>1. m \in Held
    BY Zenon, <1>1, <1>2, MessageTypes DEF Held
  <2>2. dev_a' = Append(dev_a, m)
    BY Zenon DEF HubRequest, Forward
  <2> HIDE DEF m
  <2> QED BY <2>1, <2>2, MessageTypes
<1>4. a' \in [Agents -> Slot([kind : {"AcquireBlock", "AcquirePerm", "Get", "PutFullData"}, line : Lines,
                              param : GrowParams, value : Values])]
  BY Zenon, <1>1 DEF TypeOK, HubRequest, Clear, Slot, None
<1>5. golden' \in [Lines -> Values]
  BY Zenon, <1>1 DEF TypeOK, HubRequest
<1>6. state' \in {"Idle", "Inv", "Req", "Grant", "Wait"}
  BY Zenon DEF HubRequest
<1> QED BY Zenon, <1>3, <1>4, <1>5, <1>6 DEF TypeOK, Held, HubRequest, hosts, sequencer

LEMMA GrantTypes ==
    ASSUME TypeOK, HubGrant PROVE TypeOK'
<1>1. d' \in [Agents -> Slot({[kind |-> "ReleaseAck"]}
                \cup [kind : {"Grant", "GrantData", "AccessAck", "AccessAckData"}, line : Lines,
                      param : XactTypes, value : Values])]
  <2>1. [kind |-> "Grant", line |-> req.line, param |-> req.xact, value |-> 0]
           \in [kind : {"Grant", "GrantData", "AccessAck", "AccessAckData"}, line : Lines,
                      param : XactTypes, value : Values]
    BY Zenon, MessageTypes, ConstantFacts
  <2> QED BY Zenon, <2>1 DEF TypeOK, HubGrant, Put, Slot
<1>2. a' \in [Agents -> Slot([kind : {"AcquireBlock", "AcquirePerm", "Get", "PutFullData"}, line : Lines,
                              param : GrowParams, value : Values])]
  BY Zenon, MessageTypes DEF TypeOK, HubGrant, Clear, Slot, None
<1> QED BY Zenon, <1>1, <1>2 DEF TypeOK, HubGrant, hosts, sequencer

LEMMA ProbeTypes ==
    ASSUME TypeOK, NEW h \in Hosts, HubProbe(h) PROVE TypeOK'
<1>1. [kind |-> "ProbeBlock", line |-> req.line, param |-> probe_param]
          \in [kind : {"ProbeBlock"}, line : Lines, param : CapParams]
  BY Zenon, MessageTypes DEF TypeOK
<1>2. b' \in [Hosts -> Slot([kind : {"ProbeBlock"}, line : Lines, param : CapParams])]
  BY Zenon, <1>1 DEF TypeOK, HubProbe, Put, Slot
<1>3. probe_pending' \subseteq Hosts
  BY Zenon DEF TypeOK, HubProbe
<1> QED BY Zenon, <1>2, <1>3 DEF TypeOK, HubProbe, hosts, core

DMessages == Slot({[kind |-> "ReleaseAck"]}
               \cup [kind : {"Grant", "GrantData", "AccessAck", "AccessAckData"}, line : Lines,
                     param : XactTypes, value : Values])

\* What each kind of burst on channel C does, without the CASE of the action.
LEMMA TakeCCases ==
    ASSUME TypeOK, NEW h \in Hosts, HubTakeC(h)
    PROVE  \/ c[h].kind = "ProbeAck" /\ CountAck /\ UNCHANGED <<d, dev_a>>
           \/ /\ c[h].kind = "ProbeAckData" /\ UNCHANGED <<probe_ack_pending, d>>
              /\ \E m \in Held : ProbeData(m) /\ dev_a' = Append(dev_a, m)
           \/ /\ c[h].kind = "Release" /\ UNCHANGED <<probe_ack_pending, dev_a>>
              /\ d[h] = None /\ d' = Put(d, h, [kind |-> "ReleaseAck"])
           \/ /\ c[h].kind = "ReleaseData" /\ UNCHANGED <<probe_ack_pending, d>>
              /\ \E m \in Held : ~ProbeData(m) /\ m.xact = "release" /\ dev_a' = Append(dev_a, m)
<1> DEFINE mp == [kind |-> "PutFullData", line |-> c[h].line, source |-> req.source,
                  xact |-> "toT", value |-> c[h].value]
           mr == [kind |-> "PutFullData", line |-> c[h].line, source |-> h,
                  xact |-> "release", value |-> c[h].value]
<1>1. c[h].kind \in COpcodes /\ c[h].line \in Lines /\ c[h].value \in Values
  BY Zenon, MessageTypes DEF HubTakeC
<1>2. mp \in Held /\ ProbeData(mp) /\ mr \in Held /\ ~ProbeData(mr) /\ mr.xact = "release"
  BY Zenon, <1>1, MessageTypes, ConstantFacts DEF Held, XactTypes, ProbeData
<1>3. /\ c[h].kind = "ProbeAckData" => UNCHANGED <<probe_ack_pending, d>> /\ dev_a' = Append(dev_a, mp)
      /\ c[h].kind = "ReleaseData" => UNCHANGED <<probe_ack_pending, d>> /\ dev_a' = Append(dev_a, mr)
      /\ c[h].kind = "ProbeAck" => CountAck /\ UNCHANGED <<d, dev_a>>
      /\ c[h].kind = "Release" => /\ UNCHANGED <<probe_ack_pending, dev_a>>
                                  /\ d[h] = None /\ d' = Put(d, h, [kind |-> "ReleaseAck"])
  BY Zenon DEF HubTakeC, Forward
<1> HIDE DEF mp, mr
<1> QED BY Zenon, <1>1, <1>2, <1>3 DEF COpcodes

LEMMA TakeCTypes ==
    ASSUME TypeOK, NoneAwaited, NEW h \in Hosts, HubTakeC(h) PROVE TypeOK'
<1>1. dev_a' \in Seq(Held)
  BY TakeCCases, MessageTypes
<1>2. d' \in [Agents -> DMessages]
  BY Zenon, TakeCCases DEF TypeOK, DMessages, Put, Slot
<1>3. probe_ack_pending' \in 0 .. NumHosts
  BY Zenon, TakeCCases, PendingStep DEF TypeOK, ProbeAcks
<1>4. c' \in [Hosts -> Slot([kind : COpcodes, line : Lines, value : Values])]
  BY Zenon DEF TypeOK, HubTakeC, Clear, Slot, None
<1>5. UNCHANGED <<state, req, ack_done, grant_done, sequencer, a, b, e, dev_d, hosts, mem, golden>>
  BY Zenon DEF HubTakeC
<1> QED BY Zenon, <1>1, <1>2, <1>3, <1>4, <1>5 DEF TypeOK, Held, DMessages, hosts, sequencer

LEMMA TakeDevDTypes ==
    ASSUME TypeOK, NoneAwaited, HubTakeDevD PROVE TypeOK'
<1>1. d' \in [Agents -> DMessages]
  <2>1. CASE dropped
    BY Zenon, <2>1 DEF HubTakeDevD, TypeOK, DMessages
  <2>2. CASE ~dropped
    <3> DEFINE m == IF dev_d.xact = "release" THEN [kind |-> "ReleaseAck"]
                    ELSE [kind |-> IF dev_d.xact = "uncached" THEN dev_d.kind ELSE "GrantData",
                          line |-> dev_d.line, param |-> dev_d.xact, value |-> dev_d.value]
    <3>1. m \in DMessages
      BY Zenon, MessageTypes DEF HubTakeDevD, DMessages, Slot
    <3>2. d' = [d EXCEPT ![dev_d.source] = m]
      BY Zenon, <2>2 DEF HubTakeDevD, Put
    <3>3. d \in [Agents -> DMessages]
      BY Zenon DEF TypeOK, DMessages
    <3> HIDE DEF m
    <3> QED BY Zenon, <3>1, <3>2, <3>3
  <2> QED BY Zenon, <2>1, <2>2
<1>2. probe_ack_pending' \in 0 .. NumHosts
  BY Zenon, PendingStep DEF TypeOK, HubTakeDevD
<1>3. dev_d' = None /\ grant_done' \in BOOLEAN
  BY Zenon DEF HubTakeDevD, TypeOK
<1>4. UNCHANGED <<state, req, ack_done, sequencer, a, b, c, e, dev_a, hosts, mem, golden>>
  BY Zenon DEF HubTakeDevD
<1> QED BY Zenon, <1>1, <1>2, <1>3, <1>4 DEF TypeOK, DMessages, Slot, None, hosts, sequencer

LEMMA ServeTypes ==
    ASSUME TypeOK, NEW k, DevServe(k) PROVE TypeOK'
<1>1. k \in 1 .. Len(dev_a) /\ dev_a[k] \in Held
  BY Zenon, MessageTypes DEF DevServe
<1>2. dev_a' \in Seq(Held)
  BY Zenon, <1>1, WithoutType, MessageTypes DEF DevServe
<1>3. mem' \in [Lines -> Values]
  BY Zenon, <1>1 DEF DevServe, Held, TypeOK
<1>4. dev_d' \in [kind : {"AccessAck", "AccessAckData"}, line : Lines, source : Agents, xact : XactTypes,
                  value : Values]
  BY Zenon, <1>1, ConstantFacts DEF DevServe, Held, TypeOK
<1>5. UNCHANGED <<core, sequencer, a, b, c, d, e, hosts, golden>>
  BY Zenon DEF DevServe
<1> QED BY Zenon, <1>2, <1>3, <1>4, <1>5 DEF TypeOK, Held, Slot, core, hosts, sequencer

AMessages == Slot([kind : {"AcquireBlock", "AcquirePerm", "Get", "PutFullData"}, line : Lines,
                   param : GrowParams, value : Values])

\* The lines of the hosts, with one entry of each table replaced.
LEMMA TableUpdate ==
    ASSUME NEW S, NEW t \in [Hosts -> [Lines -> S]], NEW h \in Hosts, NEW line \in Lines, NEW v \in S
    PROVE  [t EXCEPT ![h][line] = v] \in [Hosts -> [Lines -> S]]
  BY Zenon

LEMMA ShrinkTypes ==
    ASSUME TypeOK, NEW h \in Hosts, NEW line \in Lines, NEW p \in Perms, Shrink(h, line, p)
    PROVE  /\ perm' \in [Hosts -> [Lines -> Perms]] /\ copy' \in [Hosts -> [Lines -> Values]]
           /\ dirty' \in [Hosts -> [Lines -> BOOLEAN]]
<1>1. FALSE \in BOOLEAN /\ 0 \in Values
  BY Zenon, ConstantFacts
<1>2. /\ perm \in [Hosts -> [Lines -> Perms]] /\ copy \in [Hosts -> [Lines -> Values]]
      /\ dirty \in [Hosts -> [Lines -> BOOLEAN]]
  BY Zenon DEF TypeOK
<1>3. perm' \in [Hosts -> [Lines -> Perms]] /\ copy' \in [Hosts -> [Lines -> Values]]
  BY Zenon, <1>1, <1>2, TableUpdate DEF Shrink
<1>4. dirty' \in [Hosts -> [Lines -> BOOLEAN]]
  BY Zenon, <1>1, <1>2, TableUpdate DEF Shrink
<1> QED BY Zenon, <1>3, <1>4

LEMMA AskTypes ==
    ASSUME TypeOK, NEW g \in Agents, NEW op \in {"AcquireBlock", "AcquirePerm", "Get", "PutFullData"},
           NEW line \in Lines, NEW grow \in GrowParams, NEW value \in Values, Ask(g, op, line, grow, value)
    PROVE  TypeOK'
<1>1. a' \in [Agents -> AMessages]
  BY Zenon DEF Ask, Put, AMessages, Slot, TypeOK
<1>2. asked' \in [Agents -> Slot(OnLines)]
  BY Zenon DEF Ask, Put, OnLine, OnLines, Slot, TypeOK
<1>3. UNCHANGED <<core, sequencer, b, c, d, e, dev_a, dev_d, perm, copy, dirty, releasing, mem, golden>>
  BY Zenon DEF Ask
<1> QED BY Zenon, <1>1, <1>2, <1>3 DEF TypeOK, AMessages, core, sequencer

LEMMA ReleaseTypes ==
    ASSUME TypeOK, NEW h \in Hosts, NEW line \in Lines, HostRelease(h, line) PROVE TypeOK'
<1>1. /\ perm' \in [Hosts -> [Lines -> Perms]] /\ copy' \in [Hosts -> [Lines -> Values]]
      /\ dirty' \in [Hosts -> [Lines -> BOOLEAN]]
  BY Zenon, ShrinkTypes DEF HostRelease, Perms
<1>2. copy[h][line] \in Values
  BY DEF TypeOK
<1>3. c' \in [Hosts -> Slot([kind : COpcodes, line : Lines, value : Values])]
  BY Zenon, <1>2 DEF HostRelease, Put, COpcodes, Slot, TypeOK
<1>4. releasing' \in [Hosts -> Slot(OnLines)]
  BY Zenon DEF HostRelease, Put, OnLine, OnLines, Slot, TypeOK
<1>5. UNCHANGED <<core, sequencer, a, b, d, e, dev_a, dev_d, asked, mem, golden>>
  BY Zenon DEF HostRelease
<1> QED BY Zenon, <1>1, <1>3, <1>4, <1>5 DEF TypeOK, core, sequencer

LEMMA ProbeAckTypes ==
    ASSUME TypeOK, NEW h \in Hosts, HostProbeAck(h) PROVE TypeOK'
<1> DEFINE p == IF perm[h][b[h].line] = "N" \/ b[h].param = "toN" THEN "N" ELSE "B"
<1>1. b[h].line \in Lines /\ p \in Perms /\ Shrink(h, b[h].line, p)
  BY Zenon, MessageTypes DEF HostProbeAck, Perms
<1> HIDE DEF p
<1>2. /\ perm' \in [Hosts -> [Lines -> Perms]] /\ copy' \in [Hosts -> [Lines -> Values]]
      /\ dirty' \in [Hosts -> [Lines -> BOOLEAN]]
  BY Zenon, <1>1, ShrinkTypes
<1>3. copy[h][b[h].line] \in Values
  BY <1>1 DEF TypeOK
<1>4. c' \in [Hosts -> Slot([kind : COpcodes, line : Lines, value : Values])]
  <2> DEFINE line == b[h].line  value == copy[h][line]
             m == [kind |-> IF dirty[h][line] THEN "ProbeAckData" ELSE "ProbeAck", line |-> line, value |-> value]
  <2>1. c' = [c EXCEPT ![h] = m]
    BY Zenon DEF HostProbeAck, Put
  <2>2. m \in [kind : COpcodes, line : Lines, value : Values]
    <3> HIDE DEF value, line
    <3> QED BY Zenon, <1>1, <1>3 DEF COpcodes, value, line
  <2> HIDE DEF m
  <2> QED BY Zenon, <2>1, <2>2 DEF TypeOK, Slot
<1>5. b' \in [Hosts -> Slot([kind : {"ProbeBlock"}, line : Lines, param : CapParams])]
  BY Zenon DEF HostProbeAck, Clear, Slot, None, TypeOK
<1>6. UNCHANGED <<core, sequencer, a, d, e, dev_a, dev_d, asked, releasing, mem, golden>>
  BY Zenon DEF HostProbeAck
<1> QED BY Zenon, <1>2, <1>4, <1>5, <1>6 DEF TypeOK, core, sequencer

LEMMA WriteTypes ==
    ASSUME TypeOK, NEW h \in Hosts, NEW line \in Lines, NEW value \in Values, Write(h, line, value)
    PROVE  /\ copy' \in [Hosts -> [Lines -> Values]] /\ dirty' \in [Hosts -> [Lines -> BOOLEAN]]
           /\ golden' \in [Lines -> Values]
<1>1. TRUE \in BOOLEAN
  BY Zenon
<1>2. copy' \in [Hosts -> [Lines -> Values]] /\ golden' \in [Lines -> Values]
  BY Zenon, TableUpdate DEF Write, TypeOK
<1>3. dirty' \in [Hosts -> [Lines -> BOOLEAN]]
  BY Zenon, <1>1, TableUpdate DEF Write, TypeOK
<1> QED BY Zenon, <1>2, <1>3

\* A Grant carries the permission that its request asked for.
LEMMA TakeGrantTypes ==
    ASSUME TypeOK, Kinds, InFlight, NEW h \in Hosts, NEW value \in Values, HostTakeGrant(h, value)
    PROVE  /\ TypeOK' /\ Serving(h) /\ d[h].line = req.line /\ d[h].param = req.xact
           /\ perm' = [perm EXCEPT ![h][req.line] = CapPerm(req.xact)]
           /\ req.xact \in Cached /\ req.line \in Lines
<1>1. h \in Agents /\ Grants(h) /\ d[h].line \in Lines /\ d[h].value \in Values
  BY Zenon, MessageTypes, ConstantFacts DEF HostTakeGrant, Grants
<1>2. Serving(h) /\ d[h].line = req.line /\ d[h].param = req.xact /\ req.xact \in Cached
  BY Zenon, <1>1 DEF InFlight, Serving, Kinds
<1>3. CapPerm(d[h].param) \in Perms
  BY Zenon, <1>2 DEF CapPerm, Cached, Perms
<1>4. perm' \in [Hosts -> [Lines -> Perms]]
  BY Zenon, <1>1, <1>3, TableUpdate DEF HostTakeGrant, TypeOK
<1>5. copy' \in [Hosts -> [Lines -> Values]] /\ dirty' \in [Hosts -> [Lines -> BOOLEAN]] /\ golden' \in [Lines -> Values]
  <2>1. CASE d[h].kind = "Grant"
    BY Zenon, <1>1, <2>1, WriteTypes DEF HostTakeGrant
  <2>2. CASE d[h].kind # "Grant"
    <3>1. copy' = [copy EXCEPT ![h][d[h].line] = d[h].value] /\ dirty' = dirty /\ golden' = golden
      BY Zenon, <2>2 DEF HostTakeGrant
    <3> DEFINE line == d[h].line  granted == d[h].value
    <3>2. copy \in [Hosts -> [Lines -> Values]] /\ line \in Lines /\ granted \in Values
      BY Zenon, <1>1 DEF TypeOK
    <3>3. [copy EXCEPT ![h][line] = granted] \in [Hosts -> [Lines -> Values]]
      <4> HIDE DEF line, granted
      <4> QED BY Zenon, <3>2, TableUpdate
    <3>4. copy' \in [Hosts -> [Lines -> Values]]
      BY Zenon, <3>1, <3>3
    <3> QED BY Zenon, <3>1, <3>4 DEF TypeOK
  <2> QED BY Zenon, <2>1, <2>2
<1>6. d' \in [Agents -> DMessages]
  BY Zenon, <1>1 DEF HostTakeGrant, Clear, DMessages, Slot, None, TypeOK
<1>7. asked' \in [Agents -> Slot(OnLines)]
  BY Zenon DEF HostTakeGrant, Clear, Slot, None, TypeOK
<1>8. e' \subseteq Hosts /\ UNCHANGED <<core, sequencer, a, b, c, dev_a, dev_d, releasing, mem>>
  BY Zenon DEF HostTakeGrant, TypeOK
<1>9. TypeOK'
  BY Zenon, <1>4, <1>5, <1>6, <1>7, <1>8 DEF TypeOK, DMessages, core, sequencer
<1> QED BY Zenon, <1>1, <1>2, <1>9 DEF HostTakeGrant

LEMMA TakeDTypes ==
    ASSUME TypeOK, NEW g \in Agents, AgentTakeD(g) PROVE TypeOK'
<1>1. d' \in [Agents -> DMessages]
  BY Zenon DEF AgentTakeD, Clear, DMessages, Slot, None, TypeOK
<1>2. asked' \in [Agents -> Slot(OnLines)] /\ releasing' \in [Hosts -> Slot(OnLines)]
  BY Zenon DEF AgentTakeD, Clear, Slot, None, TypeOK
<1>3. UNCHANGED <<core, sequencer, a, b, c, e, dev_a, dev_d, perm, copy, dirty, mem, golden>>
  BY Zenon DEF AgentTakeD
<1> QED BY Zenon, <1>1, <1>2, <1>3 DEF TypeOK, DMessages, core, sequencer

LEMMA TypeStep == ASSUME Inv, Next PROVE TypeOK'
<1> USE DEF Inv
<1>1. ASSUME NEW g \in Agents, HubAccept(g) PROVE TypeOK'
  BY Zenon, <1>1, AcceptTypes
<1>2. CASE HubAllAcked \/ HubFinished \/ HubSeesGrant
  BY Zenon, <1>2 DEF TypeOK, HubAllAcked, HubFinished, HubSeesGrant, hosts, sequencer
<1>3. CASE HubRequest
  BY Zenon, <1>3, RequestTypes
<1>4. CASE HubGrant
  BY Zenon, <1>4, GrantTypes
<1>5. CASE HubTakeDevD
  BY Zenon, <1>5, TakeDevDTypes
<1>6. ASSUME NEW h \in Hosts, HubProbe(h) PROVE TypeOK'
  BY Zenon, <1>6, ProbeTypes
<1>7. ASSUME NEW h \in Hosts, HubTakeC(h) PROVE TypeOK'
  BY Zenon, <1>7, TakeCTypes
<1>8. ASSUME NEW h \in Hosts, HubTakeE(h) PROVE TypeOK'
  BY Zenon, <1>8 DEF TypeOK, HubTakeE, hosts, sequencer
<1>9. ASSUME NEW k, DevServe(k) PROVE TypeOK'
  BY Zenon, <1>9, ServeTypes
<1>10. ASSUME NEW h \in Hosts, NEW op \in HostOps, NEW line \in Lines, NEW grow \in GrowParams,
              HostAcquire(h, op, line, grow) PROVE TypeOK'
  BY <1>10, AskTypes, ConstantFacts, BroadcastAssumption DEF HostAcquire
<1>11. ASSUME NEW op \in DmaOps, NEW line \in Lines, NEW value \in Values, DmaAsk(op, line, value) PROVE TypeOK'
  BY Zenon, <1>11, AskTypes, ConstantFacts, BroadcastAssumption DEF DmaAsk, GrowParams
<1>12. ASSUME NEW h \in Hosts, NEW line \in Lines, HostDrop(h, line) PROVE TypeOK'
  <2>1. /\ perm' \in [Hosts -> [Lines -> Perms]] /\ copy' \in [Hosts -> [Lines -> Values]]
        /\ dirty' \in [Hosts -> [Lines -> BOOLEAN]]
    BY Zenon, <1>12, ShrinkTypes DEF HostDrop, Perms
  <2> QED BY Zenon, <1>12, <2>1 DEF TypeOK, HostDrop, core, sequencer
<1>13. ASSUME NEW h \in Hosts, NEW line \in Lines, HostRelease(h, line) PROVE TypeOK'
  BY Zenon, <1>13, ReleaseTypes
<1>14. ASSUME NEW h \in Hosts, NEW line \in Lines, NEW value \in Values, HostWrite(h, line, value) PROVE TypeOK'
  <2>1. /\ copy' \in [Hosts -> [Lines -> Values]] /\ dirty' \in [Hosts -> [Lines -> BOOLEAN]]
        /\ golden' \in [Lines -> Values]
    BY Zenon, <1>14, WriteTypes DEF HostWrite
  <2> QED BY Zenon, <1>14, <2>1 DEF TypeOK, HostWrite, core, sequencer
<1>15. ASSUME NEW h \in Hosts, HostProbeAck(h) PROVE TypeOK'
  BY Zenon, <1>15, ProbeAckTypes
<1>16. ASSUME NEW h \in Hosts, NEW value \in Values, HostTakeGrant(h, value) PROVE TypeOK'
  BY Zenon, <1>16, TakeGrantTypes
<1>17. ASSUME NEW g \in Agents, AgentTakeD(g) PROVE TypeOK'
  BY Zenon, <1>17, TakeDTypes
<1> QED BY Zenon, <1>1, <1>2, <1>3, <1>4, <1>5, <1>6, <1>7, <1>8, <1>9, <1>10, <1>11, <1>12, <1>13, <1>14, <1>15,
           <1>16, <1>17 DEF Next, Hub, Env

-----------------------------------------------------------------------------
(* The request being served *)

\* What the steps of the hosts, the device and the channel handlers leave alone.
LEMMA Bystanders ==
    ASSUME NEW h, NEW line, NEW value, NEW k
    PROVE  /\ HubProbe(h) \/ HubTakeC(h) \/ HubTakeDevD \/ HubSeesGrant \/ DevServe(k) \/ HostDrop(h, line)
              \/ HostRelease(h, line) \/ HostWrite(h, line, value) \/ HostProbeAck(h)
              \/ HostTakeGrant(h, value) \/ AgentTakeD(h)
                => UNCHANGED <<state, req, ack_done, probe_param, a>>
  BY Zenon DEF HubProbe, HubTakeC, HubTakeDevD, HubSeesGrant, DevServe, HostDrop, HostRelease, HostWrite,
         HostProbeAck, HostTakeGrant, AgentTakeD, core, sequencer

LEMMA AskLeaves ==
    ASSUME TypeOK, NEW g \in Agents, NEW op \in {"AcquireBlock", "AcquirePerm", "Get", "PutFullData"},
           NEW line, NEW grow, NEW value, Ask(g, op, line, grow, value)
    PROVE  /\ UNCHANGED <<core, sequencer, b, c, d, e, dev_a, dev_d, perm>>
           /\ \A k \in Agents : a[k] # None => a'[k] # None
  BY Zenon DEF Ask, Put, None, TypeOK

LEMMA KindsStep == ASSUME Inv, Next PROVE Kinds'
<1> USE DEF Inv
<1>0. CASE UNCHANGED <<state, req, ack_done, probe_param, a>>
  BY Zenon, <1>0 DEF Kinds
<1>1. ASSUME NEW g \in Agents, HubAccept(g) PROVE Kinds'
  <2>1. a[g].kind \in {"AcquireBlock", "AcquirePerm", "Get", "PutFullData"}
    BY Zenon, <1>1, MessageTypes DEF HubAccept
  <2>2. /\ req'.op = a[g].kind /\ req'.source = g /\ req'.xact = xact_type(a[g])
        /\ ack_done' = (xact_type(a[g]) = "uncached")
        /\ state' = "Inv" /\ probe_param' = cap_of(a[g]) /\ a' = a /\ a[g] # None
    BY Zenon, <1>1 DEF HubAccept
  <2> QED BY Zenon, <2>1, <2>2 DEF Kinds, xact_type, cap_of, Acquires, Cached
<1>2. CASE HubAllAcked \/ HubFinished
  BY <1>2 DEF Kinds, HubAllAcked, HubFinished, sequencer
<1>3. CASE HubRequest
  BY Zenon, <1>3 DEF Kinds, HubRequest, sequencer, Acquires
<1>4. CASE HubGrant
  BY Zenon, <1>4 DEF Kinds, HubGrant, sequencer, Acquires
<1>5. ASSUME NEW h \in Hosts, HubTakeE(h) PROVE Kinds'
  <2>1. state = "Wait"
    BY Zenon, <1>5 DEF HubTakeE, InFlight, Serving
  <2> QED BY Zenon, <1>5, <2>1 DEF Kinds, HubTakeE, sequencer
<1>6. ASSUME NEW g \in Agents, NEW op \in {"AcquireBlock", "AcquirePerm", "Get", "PutFullData"},
             NEW line, NEW grow, NEW value, Ask(g, op, line, grow, value) PROVE Kinds'
  <2>1. UNCHANGED <<state, req, ack_done, probe_param>> /\ (a[req.source] # None => a'[req.source] # None)
    BY Zenon, <1>6, AskLeaves, MessageTypes DEF core, sequencer
  <2> QED BY Zenon, <2>1 DEF Kinds
<1>7. ASSUME NEW h \in Hosts, NEW op \in HostOps, NEW line \in Lines, NEW grow \in GrowParams,
             HostAcquire(h, op, line, grow) PROVE Kinds'
  BY <1>6, <1>7, ConstantFacts, BroadcastAssumption DEF HostAcquire
<1>8. ASSUME NEW op \in DmaOps, NEW line \in Lines, NEW value \in Values, DmaAsk(op, line, value) PROVE Kinds'
  BY <1>6, <1>8, ConstantFacts, BroadcastAssumption DEF DmaAsk
<1> QED BY Zenon, <1>0, <1>1, <1>2, <1>3, <1>4, <1>5, <1>7, <1>8, Bystanders DEF Next, Hub, Env

-----------------------------------------------------------------------------
(* The grant on its way *)

NoGrants ==
    /\ \A i \in 1 .. Len(dev_a) : ~Asks(dev_a[i])
    /\ ~Answers /\ (\A g \in Agents : ~Grants(g)) /\ e = {}

LEMMA NothingGranted ==
    ASSUME InFlight, state # "Wait" \/ ack_done PROVE NoGrants
  BY Zenon DEF InFlight, NoGrants, Serving

LEMMA NoGrantsSuffices ==
    ASSUME NoGrants' PROVE InFlight' /\ OneGrant'
  BY Zenon DEF NoGrants, InFlight, OneGrant

LEMMA RequestGrant ==
    ASSUME TypeOK, Kinds, InFlight, HubRequest PROVE InFlight' /\ OneGrant'
<1> DEFINE m == [kind |-> IF req.xact = "uncached" THEN req.op ELSE "Get", line |-> req.line,
                 source |-> req.source, xact |-> req.xact, value |-> a[req.source].value]
           n == Len(dev_a) + 1
<1>1. dev_a' = Append(dev_a, m) /\ UNCHANGED <<req, ack_done, d, e, dev_d>>
  BY Zenon DEF HubRequest, Forward
<1>2. m.line = req.line /\ m.source = req.source /\ m.xact = req.xact
  BY Zenon
<1> HIDE DEF m
<1>3. NoGrants
  BY Zenon, NothingGranted DEF HubRequest
<1>4. Len(dev_a') = n /\ dev_a'[n] = m /\ \A i \in 1 .. Len(dev_a) : dev_a'[i] = dev_a[i]
  BY <1>1, MessageTypes
<1>5. Asks(m) => state' = "Wait" /\ ~ack_done
  BY Zenon, <1>2 DEF Asks, Kinds, HubRequest, Acquires
<1>6. \A i \in 1 .. Len(dev_a') : Asks(dev_a'[i]) => i = n
  BY <1>3, <1>4, MessageTypes DEF NoGrants
<1>7. ~Answers' /\ (\A g \in Agents : ~Grants(g)') /\ e' = {}
  BY Zenon, <1>1, <1>3 DEF NoGrants, Answers, Grants, dropped
<1>8. InFlight'
  BY Zenon, <1>1, <1>2, <1>4, <1>5, <1>6, <1>7 DEF InFlight, Serving
<1>9. OneGrant'
  BY Zenon, <1>6, <1>7 DEF OneGrant
<1> QED BY Zenon, <1>8, <1>9

LEMMA PermGrant ==
    ASSUME TypeOK, Kinds, InFlight, HubGrant PROVE InFlight' /\ OneGrant'
<1>1. NoGrants
  BY Zenon, NothingGranted DEF HubGrant
<1>2. /\ ~Answers' /\ (\A i \in 1 .. Len(dev_a') : ~Asks(dev_a'[i])) /\ e' = {}
      /\ state' = "Wait" /\ UNCHANGED <<req, ack_done>> /\ ~ack_done
  BY Zenon, <1>1 DEF NoGrants, Answers, dropped, HubGrant, Kinds, Acquires
<1>3. \A g \in Agents : /\ g # req.source => d'[g] = d[g]
                        /\ g = req.source => d'[g].line = req.line /\ d'[g].param = req.xact
  BY Zenon DEF HubGrant, Put, TypeOK
<1>4. \A g \in Agents : Grants(g)' => g = req.source
  BY Zenon, <1>1, <1>3 DEF NoGrants, Grants
<1> QED BY Zenon, <1>2, <1>3, <1>4 DEF InFlight, OneGrant, Serving

\* Neither dirty data nor a release is a grant.
LEMMA TakeCGrant ==
    ASSUME TypeOK, InFlight, OneGrant, NEW h \in Hosts, HubTakeC(h) PROVE InFlight' /\ OneGrant'
<1>1. UNCHANGED <<state, req, ack_done, e, dev_d>>
  BY Zenon DEF HubTakeC
<1>2. \A g \in Agents : d'[g] = d[g] \/ ~Grants(g)'
  <2>1. d' = d \/ d' = [d EXCEPT ![h] = [kind |-> "ReleaseAck"]]
    BY Zenon, TakeCCases DEF Put
  <2> QED BY <2>1 DEF Grants, TypeOK
<1>3. /\ Len(dev_a') >= Len(dev_a) /\ Len(dev_a') \in Nat
      /\ \A i \in 1 .. Len(dev_a') :
           (i \in 1 .. Len(dev_a) /\ dev_a'[i] = dev_a[i]) \/ ~Asks(dev_a'[i])
  <2>1. ASSUME NEW m \in Held, ProbeData(m) \/ m.xact = "release", dev_a' = Append(dev_a, m) PROVE <1>3!:
    <3>1. ~Asks(m)
      BY Zenon, <2>1 DEF Asks, Cached
    <3> QED BY <2>1, <3>1, MessageTypes
  <2>2. CASE dev_a' = dev_a
    BY <2>2, MessageTypes
  <2> QED BY Zenon, <2>1, <2>2, TakeCCases
<1>4. /\ Answers' = Answers
      /\ \A i \in 1 .. Len(dev_a') : Asks(dev_a'[i]) => i \in 1 .. Len(dev_a) /\ dev_a'[i] = dev_a[i]
      /\ \A g \in Agents : Grants(g)' => d'[g] = d[g] /\ Grants(g)
  BY Zenon, <1>1, <1>2, <1>3 DEF Answers, dropped, Grants
<1>5. InFlight'
  BY <1>1, <1>4 DEF InFlight, Serving
<1>6. OneGrant'
  BY Zenon, <1>1, <1>4 DEF OneGrant
<1> QED BY Zenon, <1>5, <1>6

LEMMA TakeDevDGrant ==
    ASSUME TypeOK, InFlight, OneGrant, HubTakeDevD PROVE InFlight' /\ OneGrant'
<1>1. UNCHANGED <<state, req, ack_done, e, dev_a>> /\ ~Answers'
  BY Zenon DEF HubTakeDevD, Answers
<1>2. ASSUME NEW g \in Agents, Grants(g)'
      PROVE  \/ d'[g] = d[g] /\ Grants(g)
             \/ Answers /\ g = dev_d.source /\ d'[g].line = dev_d.line /\ d'[g].param = dev_d.xact
  <2>1. CASE dropped \/ g # dev_d.source
    BY Zenon, <1>2, <2>1 DEF HubTakeDevD, Put, Grants, TypeOK
  <2>2. CASE ~dropped /\ g = dev_d.source
    <3>1. d'[g] = IF dev_d.xact = "release" THEN [kind |-> "ReleaseAck"]
                  ELSE [kind |-> IF dev_d.xact = "uncached" THEN dev_d.kind ELSE "GrantData",
                        line |-> dev_d.line, param |-> dev_d.xact, value |-> dev_d.value]
      BY Zenon, <2>2 DEF HubTakeDevD, Put, TypeOK
    <3>2. dev_d # None /\ dev_d.kind \in {"AccessAck", "AccessAckData"} /\ dev_d.xact \in XactTypes
      BY Zenon, MessageTypes DEF HubTakeDevD
    <3>3. dev_d.xact \in Cached
      BY <1>2, <3>1, <3>2 DEF Grants, XactTypes, Cached
    <3> QED BY <2>2, <3>1, <3>2, <3>3 DEF Answers, Cached
  <2> QED BY Zenon, <2>1, <2>2
<1>3. InFlight'
  BY Zenon, <1>1, <1>2 DEF InFlight, Serving
<1>4. OneGrant'
  BY Zenon, <1>1, <1>2 DEF OneGrant
<1> QED BY Zenon, <1>3, <1>4

LEMMA ServeGrant ==
    ASSUME TypeOK, InFlight, OneGrant, NEW k, DevServe(k) PROVE InFlight' /\ OneGrant'
<1>1. k \in 1 .. Len(dev_a) /\ dev_a[k] \in Held /\ dev_d = None /\ dev_a' = Without(dev_a, k)
  BY Zenon, MessageTypes DEF DevServe
<1>2. UNCHANGED <<state, req, ack_done, d, e>>
  BY Zenon DEF DevServe, core
<1>3. /\ dev_d' # None /\ dev_d'.line = dev_a[k].line /\ dev_d'.source = dev_a[k].source
      /\ dev_d'.xact = dev_a[k].xact
      /\ dev_d'.kind = IF dev_a[k].kind = "Get" THEN "AccessAckData" ELSE "AccessAck"
  BY Zenon DEF DevServe, None
<1>4. Answers' <=> Asks(dev_a[k])
  BY Zenon, <1>1, <1>3 DEF Answers, Asks, dropped, ProbeData, Held
<1>5. /\ Len(dev_a') = Len(dev_a) - 1
      /\ \A i \in 1 .. Len(dev_a) - 1 : dev_a'[i] = IF i < k THEN dev_a[i] ELSE dev_a[i + 1]
  BY Zenon, <1>1, WithoutType, MessageTypes
<1>6. \A i \in 1 .. Len(dev_a') : \E j \in 1 .. Len(dev_a) : j # k /\ dev_a'[i] = dev_a[j]
  <2>1. ASSUME NEW i \in 1 .. Len(dev_a') PROVE \E j \in 1 .. Len(dev_a) : j # k /\ dev_a'[i] = dev_a[j]
    <3>1. CASE i < k
      BY <1>1, <1>5, <3>1, MessageTypes
    <3>2. CASE i >= k
      <4>1. i + 1 \in 1 .. Len(dev_a) /\ i + 1 # k /\ dev_a'[i] = dev_a[i + 1]
        BY <1>1, <1>5, <3>2, MessageTypes
      <4> QED BY Zenon, <4>1
    <3> QED BY <3>1, <3>2, <1>1, <1>5, MessageTypes
  <2> QED BY Zenon, <2>1
<1>7. \A g \in Agents : Grants(g)' <=> Grants(g)
  BY Zenon, <1>2 DEF Grants
<1>8. InFlight'
  <2>1. \A i \in 1 .. Len(dev_a') :
          Asks(dev_a'[i]) => /\ Serving(dev_a'[i].source)
                             /\ dev_a'[i].line = req.line /\ dev_a'[i].xact = req.xact
    BY Zenon, <1>6 DEF InFlight
  <2>2. Answers' => Serving(dev_d'.source) /\ dev_d'.line = req.line /\ dev_d'.xact = req.xact
    BY Zenon, <1>1, <1>3, <1>4 DEF InFlight
  <2>3. /\ \A g \in Agents : Grants(g)' => Serving(g) /\ d'[g].line = req.line /\ d'[g].param = req.xact
        /\ \A h \in e' : Serving(h)
    BY Zenon, <1>2, <1>7 DEF InFlight
  <2> QED BY Zenon, <1>2, <2>1, <2>2, <2>3 DEF InFlight, Serving
<1>9. \A i, j \in 1 .. Len(dev_a') : Asks(dev_a'[i]) /\ Asks(dev_a'[j]) => i = j
  <2>1. ASSUME NEW i \in 1 .. Len(dev_a'), NEW j \in 1 .. Len(dev_a'), Asks(dev_a'[i]), Asks(dev_a'[j])
        PROVE  i = j
    <3> DEFINE f(x) == IF x < k THEN x ELSE x + 1
    <3>1. /\ f(i) \in 1 .. Len(dev_a) /\ f(j) \in 1 .. Len(dev_a)
          /\ dev_a'[i] = dev_a[f(i)] /\ dev_a'[j] = dev_a[f(j)]
      BY <1>1, <1>5, MessageTypes
    <3>2. f(i) = f(j)
      BY Zenon, <2>1, <3>1 DEF OneGrant
    <3> QED BY <3>2, <1>1
  <2> QED BY Zenon, <2>1
<1>10. OneGrant'
  BY Zenon, <1>1, <1>2, <1>4, <1>6, <1>7, <1>9 DEF OneGrant, Answers
<1> QED BY Zenon, <1>8, <1>10

LEMMA TakeGrantGrant ==
    ASSUME TypeOK, Kinds, InFlight, OneGrant, NEW h \in Hosts, NEW value \in Values, HostTakeGrant(h, value)
    PROVE  InFlight' /\ OneGrant'
<1>1. Serving(h) /\ h \in Agents /\ Grants(h)
  BY Zenon, TakeGrantTypes, ConstantFacts DEF HostTakeGrant, Grants
<1>2. UNCHANGED <<state, req, ack_done, dev_a, dev_d>> /\ e' = e \cup {h} /\ d' = [d EXCEPT ![h] = None]
  BY Zenon DEF HostTakeGrant, core, Clear
<1>3. ~Answers /\ \A i \in 1 .. Len(dev_a) : ~Asks(dev_a[i])
  BY Zenon, <1>1 DEF OneGrant
<1>4. \A g \in Agents : ~Grants(g)'
  BY Zenon, <1>1, <1>2 DEF InFlight, Serving, Grants, None, TypeOK
<1>5. ~Answers'
  BY Zenon, <1>2, <1>3 DEF Answers, dropped
<1> QED BY Zenon, <1>1, <1>2, <1>3, <1>4, <1>5 DEF InFlight, OneGrant, Serving

LEMMA GrantStep == ASSUME Inv, Next PROVE InFlight' /\ OneGrant'
<1> USE DEF Inv
<1>0. ASSUME UNCHANGED <<state, req, ack_done, d, e, dev_a, dev_d>> PROVE InFlight' /\ OneGrant'
  BY Zenon, <1>0 DEF InFlight, OneGrant, Serving, Answers, dropped, Grants
<1>1. ASSUME NEW g \in Agents, HubAccept(g) PROVE InFlight' /\ OneGrant'
  <2>1. NoGrants
    BY Zenon, <1>1, NothingGranted DEF HubAccept
  <2>2. NoGrants'
    BY Zenon, <1>1, <2>1 DEF NoGrants, HubAccept, Answers, dropped, Grants
  <2> QED BY Zenon, <2>2, NoGrantsSuffices
<1>2. CASE HubAllAcked \/ HubFinished
  <2>1. NoGrants
    BY Zenon, <1>2, NothingGranted DEF HubAllAcked, HubFinished
  <2>2. NoGrants'
    BY Zenon, <1>2, <2>1 DEF NoGrants, HubAllAcked, HubFinished, Answers, dropped, Grants
  <2> QED BY Zenon, <2>2, NoGrantsSuffices
<1>3. CASE HubRequest \/ HubGrant
  BY Zenon, <1>3, RequestGrant, PermGrant
<1>4. CASE HubTakeDevD
  BY Zenon, <1>4, TakeDevDGrant
<1>5. ASSUME NEW h \in Hosts, HubTakeC(h) PROVE InFlight' /\ OneGrant'
  BY Zenon, <1>5, TakeCGrant
<1>6. ASSUME NEW h \in Hosts, HubTakeE(h) PROVE InFlight' /\ OneGrant'
  <2>1. ~Answers /\ (\A i \in 1 .. Len(dev_a) : ~Asks(dev_a[i])) /\ \A g \in Agents : ~Grants(g)
    BY Zenon, <1>6 DEF HubTakeE, OneGrant
  <2>2. e' = {}
    BY Zenon, <1>6 DEF HubTakeE, InFlight, Serving
  <2>3. NoGrants'
    BY Zenon, <1>6, <2>1, <2>2 DEF NoGrants, HubTakeE, Answers, dropped, Grants
  <2> QED BY Zenon, <2>3, NoGrantsSuffices
<1>7. ASSUME NEW k, DevServe(k) PROVE InFlight' /\ OneGrant'
  BY Zenon, <1>7, ServeGrant
<1>8. ASSUME NEW h \in Hosts, NEW value \in Values, HostTakeGrant(h, value) PROVE InFlight' /\ OneGrant'
  BY Zenon, <1>8, TakeGrantGrant
<1>9. ASSUME NEW g \in Agents, AgentTakeD(g) PROVE InFlight' /\ OneGrant'
  <2>1. UNCHANGED <<state, req, ack_done, e, dev_a, dev_d>> /\ d' = [d EXCEPT ![g] = None] /\ ~Grants(g)
    BY Zenon, <1>9 DEF AgentTakeD, core, Clear, Grants
  <2>2. \A k \in Agents : Grants(k)' => Grants(k) /\ d'[k] = d[k]
    BY Zenon, <2>1 DEF Grants, None, TypeOK
  <2>3. Answers' = Answers
    BY Zenon, <2>1 DEF Answers, dropped
  <2>4. InFlight'
    BY Zenon, <2>1, <2>2, <2>3 DEF InFlight, Serving
  <2> QED BY Zenon, <2>1, <2>2, <2>3, <2>4 DEF OneGrant
<1>10. CASE HubSeesGrant
  BY Zenon, <1>0, <1>10 DEF HubSeesGrant
<1>14. ASSUME NEW h \in Hosts, HubProbe(h) \/ HostProbeAck(h) PROVE InFlight' /\ OneGrant'
  BY Zenon, <1>0, <1>14 DEF HubProbe, HostProbeAck, core
<1>15. ASSUME NEW h \in Hosts, NEW line \in Lines, HostDrop(h, line) \/ HostRelease(h, line)
       PROVE  InFlight' /\ OneGrant'
  BY Zenon, <1>0, <1>15 DEF HostDrop, HostRelease, core
<1>16. ASSUME NEW h \in Hosts, NEW line \in Lines, NEW value \in Values, HostWrite(h, line, value)
       PROVE  InFlight' /\ OneGrant'
  BY Zenon, <1>0, <1>16 DEF HostWrite, core
<1>11. ASSUME NEW g \in Agents, NEW op, NEW line, NEW grow, NEW value, Ask(g, op, line, grow, value)
       PROVE  InFlight' /\ OneGrant'
  BY Zenon, <1>0, <1>11 DEF Ask, core
<1>12. ASSUME NEW h \in Hosts, NEW op, NEW line, NEW grow, HostAcquire(h, op, line, grow)
       PROVE  InFlight' /\ OneGrant'
  BY Zenon, <1>11, <1>12, ConstantFacts DEF HostAcquire
<1>13. ASSUME NEW op, NEW line, NEW value, DmaAsk(op, line, value) PROVE InFlight' /\ OneGrant'
  BY Zenon, <1>11, <1>13, ConstantFacts DEF DmaAsk
<1> QED BY Zenon, <1>1, <1>2, <1>3, <1>4, <1>5, <1>6, <1>7, <1>8, <1>9, <1>10, <1>12, <1>13,
           <1>14, <1>15, <1>16 DEF Next, Hub, Env

-----------------------------------------------------------------------------
(* The probes: the steps that count nothing *)

\* Places, Probed and ProbesAccounted only depend on these.
LEMMA ProbesLeft ==
    ASSUME Inv, UNCHANGED <<state, req, probe_ack_pending, probe_pending, probe_param, b, c, dev_a, dev_d, perm>>
    PROVE  Places' /\ Probed' /\ ProbesAccounted'
<1>1. Places' /\ Probed'
  BY Zenon DEF Inv, Places, Probed
<1>2. Unanswered' = Unanswered /\ Unwritten' = Unwritten
  BY Zenon DEF Unanswered, Unwritten, dropped
<1> QED BY Zenon, <1>1, <1>2 DEF Inv, ProbesAccounted

\* A host that gives up a line, or keeps it, is below the cap if it was.
LEMMA PermDown ==
    ASSUME TypeOK, Probed, UNCHANGED <<state, req, probe_pending, probe_param, b>>,
           \A h \in Hosts, line \in Lines :
              h # req.source => perm'[h][line] = perm[h][line] \/ perm'[h][line] = "N"
    PROVE  Probed'
<1>1. req.line \in Lines
  BY Zenon, MessageTypes
<1> QED BY Zenon, <1>1 DEF Probed, Below

\* The hub leaves StateInv when the counter is zero, and then counts nothing.
LEMMA MoveProbes ==
    ASSUME Inv, state # "Inv" \/ probe_ack_pending = 0, state # "Idle" \/ state' = "Idle", state' # "Inv",
           UNCHANGED <<req, probe_ack_pending, probe_pending, probe_param, b, c, dev_d, perm>>,
           Cardinality(Writebacks(dev_a)) = Cardinality(Writebacks(dev_a'))
    PROVE  Places' /\ Probed' /\ ProbesAccounted'
<1>1. Places' /\ Probed'
  BY Zenon DEF Inv, Places, Probed
<1>2. Unanswered' = Unanswered /\ Unwritten' = Unwritten
  BY Zenon DEF Unanswered, Unwritten, Writebacks, dropped
<1>3. Cardinality(Unanswered) + Unwritten = 0
  BY Zenon DEF Inv, ProbesAccounted
<1> QED BY Zenon, <1>1, <1>2, <1>3 DEF ProbesAccounted

LEMMA ProbeProbes ==
    ASSUME Inv, NEW h \in Hosts, HubProbe(h) PROVE Places' /\ Probed' /\ ProbesAccounted'
<1> USE DEF Inv
<1>1. /\ h \in probe_pending /\ b[h] = None /\ probe_pending' = probe_pending \ {h}
      /\ b' = [b EXCEPT ![h] = [kind |-> "ProbeBlock", line |-> req.line, param |-> probe_param]]
      /\ UNCHANGED <<state, req, probe_ack_pending, probe_param, c, dev_a, dev_d, perm>>
  BY Zenon DEF HubProbe, Put, core, hosts
<1>2. /\ b'[h] # None /\ b'[h].line = req.line /\ b'[h].param = probe_param
      /\ \A k \in Hosts : k # h => b'[k] = b[k]
  BY Zenon, <1>1 DEF TypeOK, None
<1>3. Places' /\ Probed'
  BY Zenon, <1>1, <1>2 DEF Places, Probed
<1>4. Unanswered' = Unanswered /\ Unwritten' = Unwritten
  BY Zenon, <1>1, <1>2 DEF Unanswered, Unwritten, dropped
<1> QED BY Zenon, <1>1, <1>3, <1>4 DEF ProbesAccounted

LEMMA ProbeAckProbes ==
    ASSUME Inv, NEW h \in Hosts, HostProbeAck(h) PROVE Places' /\ Probed' /\ ProbesAccounted'
<1> USE DEF Inv
<1> DEFINE p == IF perm[h][b[h].line] = "N" \/ b[h].param = "toN" THEN "N" ELSE "B"
<1>1. /\ UNCHANGED <<state, req, probe_ack_pending, probe_pending, probe_param, dev_a, dev_d>>
      /\ b[h] # None /\ b' = [b EXCEPT ![h] = None] /\ perm' = [perm EXCEPT ![h][b[h].line] = p]
      /\ \E m : m.kind \in ProbeAcks /\ c' = [c EXCEPT ![h] = m]
  <2> DEFINE m == [kind |-> IF dirty[h][b[h].line] THEN "ProbeAckData" ELSE "ProbeAck", line |-> b[h].line,
                   value |-> copy[h][b[h].line]]
  <2>1. m.kind \in ProbeAcks /\ c' = [c EXCEPT ![h] = m]
    BY Zenon DEF HostProbeAck, Put, ProbeAcks
  <2> HIDE DEF m
  <2> QED BY Zenon, <2>1 DEF HostProbeAck, Clear, Shrink, core, sequencer
<1>2. h \notin probe_pending /\ b[h].line = req.line /\ b[h].param = probe_param
  BY Zenon, <1>1 DEF Places
<1>3. /\ b'[h] = None /\ c'[h].kind \in ProbeAcks
      /\ \A k \in Hosts : k # h => b'[k] = b[k] /\ c'[k] = c[k] /\ perm'[k] = perm[k]
  BY Zenon, <1>1 DEF TypeOK
<1>4. perm'[h][req.line] = p /\ Below(p, probe_param)
  BY Zenon, <1>1, <1>2, MessageTypes DEF TypeOK, Below
<1> HIDE DEF p
<1>5. Places' /\ Probed'
  BY <1>1, <1>2, <1>3, <1>4 DEF Places, Probed
<1>6. Unanswered' = Unanswered
  BY Zenon, <1>1, <1>3 DEF Unanswered, ProbeAcks
<1>7. Unwritten' = Unwritten
  BY Zenon, <1>1 DEF Unwritten, dropped
<1> QED BY Zenon, <1>1, <1>5, <1>6, <1>7 DEF ProbesAccounted

LEMMA HostProbes ==
    ASSUME Inv, NEW h \in Hosts, NEW line \in Lines, HostDrop(h, line) \/ HostRelease(h, line)
    PROVE  Places' /\ Probed' /\ ProbesAccounted'
<1> USE DEF Inv
<1>1. /\ UNCHANGED <<state, req, probe_ack_pending, probe_pending, probe_param, b, dev_a, dev_d>>
      /\ perm' = [perm EXCEPT ![h][line] = "N"]
  BY Zenon DEF HostDrop, HostRelease, Shrink, core, sequencer
<1>2. \A k \in Hosts : c'[k] = c[k] \/ (c[k].kind \notin ProbeAcks /\ c'[k].kind \notin ProbeAcks)
  <2>1. CASE HostDrop(h, line)
    BY Zenon, <2>1 DEF HostDrop
  <2>2. CASE HostRelease(h, line)
    <3> DEFINE m == [kind |-> IF dirty[h][line] THEN "ReleaseData" ELSE "Release", line |-> line,
                     value |-> copy[h][line]]
    <3>1. m.kind \notin ProbeAcks /\ c' = [c EXCEPT ![h] = m] /\ c[h].kind \notin ProbeAcks
      BY <2>2 DEF HostRelease, Put, None, ProbeAcks
    <3> HIDE DEF m
    <3> QED BY Zenon, <3>1 DEF TypeOK
  <2> QED BY Zenon, <2>1, <2>2
<1>3. Probed'
  BY Zenon, <1>1, PermDown DEF TypeOK
<1>4. Places' /\ Unanswered' = Unanswered
  BY Zenon, <1>1, <1>2 DEF Places, Unanswered, ProbeAcks, TypeOK
<1>5. Unwritten' = Unwritten
  BY Zenon, <1>1 DEF Unwritten, dropped
<1> QED BY Zenon, <1>1, <1>3, <1>4, <1>5 DEF ProbesAccounted

LEMMA TakeGrantProbes ==
    ASSUME Inv, NEW h \in Hosts, NEW value \in Values, HostTakeGrant(h, value)
    PROVE  Places' /\ Probed' /\ ProbesAccounted'
<1> USE DEF Inv
<1>1. /\ UNCHANGED <<state, req, probe_ack_pending, probe_pending, probe_param, b, c, dev_a, dev_d>>
      /\ perm' = [perm EXCEPT ![h][req.line] = CapPerm(req.xact)] /\ h = req.source
  BY Zenon, TakeGrantTypes DEF HostTakeGrant, core, sequencer, Serving
<1>2. Probed'
  BY Zenon, <1>1, PermDown DEF TypeOK
<1>3. Places' /\ Unanswered' = Unanswered /\ Unwritten' = Unwritten
  BY Zenon, <1>1 DEF Places, Unanswered, Unwritten, dropped
<1> QED BY Zenon, <1>1, <1>2, <1>3 DEF ProbesAccounted

-----------------------------------------------------------------------------
(* The single writer *)

LEMMA WriterStep == ASSUME Inv, Next PROVE SingleWriter'
<1> USE DEF Inv
<1>0. ASSUME perm' = perm PROVE SingleWriter'
  BY Zenon, <1>0 DEF SingleWriter
<1>1. ASSUME NEW h \in Hosts, NEW line \in Lines, NEW p \in {"N", "B"}, p = "N" \/ perm[h][line] # "N",
             perm' = [perm EXCEPT ![h][line] = p]
      PROVE  SingleWriter'
  <2>1. \A k \in Hosts, l \in Lines : perm'[k][l] = IF k = h /\ l = line THEN p ELSE perm[k][l]
    BY Zenon, <1>1 DEF TypeOK
  <2> QED BY <1>1, <2>1 DEF SingleWriter
<1>2. ASSUME NEW h \in Hosts, NEW line \in Lines, HostDrop(h, line) \/ HostRelease(h, line) PROVE SingleWriter'
  BY Zenon, <1>1, <1>2 DEF HostDrop, HostRelease, Shrink
<1>3. ASSUME NEW h \in Hosts, HostProbeAck(h) PROVE SingleWriter'
  <2> DEFINE p == IF perm[h][b[h].line] = "N" \/ b[h].param = "toN" THEN "N" ELSE "B"
  <2>1. b[h].line \in Lines /\ perm' = [perm EXCEPT ![h][b[h].line] = p]
    BY Zenon, <1>3, MessageTypes DEF HostProbeAck, Shrink
  <2>2. p \in {"N", "B"} /\ (p = "N" \/ perm[h][b[h].line] # "N")
    BY Zenon
  <2> HIDE DEF p
  <2> QED BY Zenon, <1>1, <2>1, <2>2
<1>4. ASSUME NEW h \in Hosts, NEW value \in Values, HostTakeGrant(h, value) PROVE SingleWriter'
  <2>1. /\ Serving(h) /\ perm' = [perm EXCEPT ![h][req.line] = CapPerm(req.xact)] /\ req.xact \in Cached
        /\ req.line \in Lines
    BY Zenon, <1>4, TakeGrantTypes
  <2>2. /\ \A k \in Hosts, l \in Lines :
             perm'[k][l] = IF k = h /\ l = req.line THEN CapPerm(req.xact) ELSE perm[k][l]
        /\ h = req.source /\ state = "Wait"
    BY Zenon, <2>1 DEF TypeOK, Serving
  <2>3. \A k \in Hosts : k # h => Below(perm[k][req.line], probe_param)
    BY Zenon, <2>2 DEF Probed, NoneAwaited, Calm
  <2>4. \A k \in Hosts : k # h => perm[k][req.line] # "T" /\ (req.xact = "toT" => perm[k][req.line] = "N")
    BY Zenon, <2>1, <2>2, <2>3 DEF Below, Kinds, Cached
  <2>5. CapPerm(req.xact) = "T" => req.xact = "toT"
    BY Zenon, <2>1 DEF CapPerm, Cached
  <2> QED BY <2>2, <2>4, <2>5 DEF SingleWriter
<1>5. CASE Hub
  <2>1. perm' = perm
    BY Zenon, <1>5 DEF Hub, HubAccept, HubAllAcked, HubRequest, HubGrant, HubFinished, HubTakeDevD, HubSeesGrant,
                HubProbe, HubTakeC, HubTakeE, hosts
  <2> QED BY Zenon, <1>0, <2>1
<1>6. ASSUME NEW k, DevServe(k) PROVE SingleWriter'
  BY Zenon, <1>0, <1>6 DEF DevServe, hosts
<1>7. ASSUME NEW h, NEW op, NEW line, NEW grow, HostAcquire(h, op, line, grow) PROVE SingleWriter'
  BY Zenon, <1>0, <1>7 DEF HostAcquire, Ask
<1>8. ASSUME NEW op, NEW line, NEW value, DmaAsk(op, line, value) PROVE SingleWriter'
  BY Zenon, <1>0, <1>8 DEF DmaAsk, Ask
<1>9. ASSUME NEW h, NEW line, NEW value, HostWrite(h, line, value) PROVE SingleWriter'
  BY Zenon, <1>0, <1>9 DEF HostWrite
<1>10. ASSUME NEW g, AgentTakeD(g) PROVE SingleWriter'
  BY Zenon, <1>0, <1>10 DEF AgentTakeD
<1> QED BY Zenon, <1>2, <1>3, <1>4, <1>5, <1>6, <1>7, <1>8, <1>9, <1>10 DEF Next, Env

-----------------------------------------------------------------------------
(* Data *)

KeepsOrder == Ordered \/ "PutFullData" \notin DmaOps

Granting ==
    (\E i \in 1 .. Len(dev_a) : Asks(dev_a[i])) \/ Answers \/ \E g \in Agents : Grants(g)

\* Hosts acquire, one line at a time and none that they have for writing or are
\* releasing, and AcquirePerm is for writing; Dma reads and writes.
Requests ==
    /\ \A g \in Agents : a[g] # None =>
         /\ g \in Hosts => asked[g] = OnLine(a[g].line) /\ a[g].kind \in Acquires
         /\ g \notin Hosts => a[g].kind \in DmaOps
         /\ a[g].kind = "AcquirePerm" => a[g].param # "NtoB"
    /\ state # "Idle" =>
         /\ IF req.source \in Hosts THEN req.op \in Acquires ELSE req.op \in DmaOps
         /\ probe_param \in (IF req.op = "PutFullData" THEN {"toN"} ELSE {"toB", "toN"})
         /\ req.xact # "release" /\ (req.op = "AcquirePerm" => req.xact = "toT")
    /\ \A g \in Agents : d[g].kind = "Grant" => d[g].param = "toT"
    /\ state \in {"Inv", "Req", "Grant"} /\ req.source \in Hosts => a[req.source].line = req.line
    /\ Granting => asked[req.source] = OnLine(req.line) /\ a[req.source] = None
    /\ \A h \in Hosts, line \in Lines :
         asked[h] = OnLine(line) => perm[h][line] # "T" /\ releasing[h] # OnLine(line)

\* What the messages of each kind of transaction look like.
Shape(m, line) ==
    /\ m.xact = "uncached" => m.source = Dma /\ m.kind \in DmaOps
    /\ m.xact = "release" => m.source \in Hosts /\ m.kind = "PutFullData"
    /\ m.xact = "toB" => m.kind = "Get"
    /\ ProbeData(m) => m.line = line

Shapes ==
    /\ \A h \in Hosts : c[h].kind \in ProbeAcks => c[h].line = req.line
    /\ \A i \in 1 .. Len(dev_a) : Shape(dev_a[i], req.line)
    /\ dev_d # None /\ dev_d.xact = "uncached" => dev_d.source = Dma
    /\ \A h \in Hosts : d[h].kind \notin {"AccessAck", "AccessAckData"}

\* A release is in one place: channel C, the device, its answer, or channel D.
Releases(m) == m.kind \in {"Release", "ReleaseData"}
ReleaseOf(m, h) == m.xact = "release" /\ m.source = h
AckOf(m, h) == m # None /\ m.xact = "release" /\ m.source = h

OneRelease ==
    \A h \in Hosts :
        /\ Releases(c[h]) => releasing[h] = OnLine(c[h].line)
        /\ \A i \in 1 .. Len(dev_a) : ReleaseOf(dev_a[i], h) =>
             /\ releasing[h] = OnLine(dev_a[i].line) /\ ~Releases(c[h])
             /\ \A j \in 1 .. Len(dev_a) : ReleaseOf(dev_a[j], h) => i = j
        /\ AckOf(dev_d, h) =>
             /\ releasing[h] # None /\ ~Releases(c[h])
             /\ \A i \in 1 .. Len(dev_a) : ~ReleaseOf(dev_a[i], h)
        /\ d[h].kind = "ReleaseAck" =>
             /\ releasing[h] # None /\ ~Releases(c[h]) /\ ~AckOf(dev_d, h)
             /\ \A i \in 1 .. Len(dev_a) : ~ReleaseOf(dev_a[i], h)

\* Nobody gets a line while its release is on the way.
HeldOff ==
    \A h \in Hosts, line \in Lines : releasing[h] = OnLine(line) =>
        /\ \A k \in Hosts : perm[k][line] = "N" /\ (k # h => releasing[k] # OnLine(line))
        /\ state # "Idle" /\ req.line = line =>
             h \in probe_pending \/ b[h] # None \/ (h = req.source /\ state = "Wait" /\ ~Granting)

\* Dirty data on its way back is in one place, and nobody has the line for writing.
Returns(m, line) == m.kind \in {"ProbeAckData", "ReleaseData"} /\ m.line = line
Stores(m, line) == m.kind = "PutFullData" /\ m.line = line
HostStores(m, line) == Stores(m, line) /\ m.xact # "uncached"

OneReturn ==
    \A line \in Lines :
        /\ \A h \in Hosts : Returns(c[h], line) =>
             /\ \A k \in Hosts : perm[k][line] # "T" /\ (k # h => ~Returns(c[k], line))
             /\ \A i \in 1 .. Len(dev_a) : ~HostStores(dev_a[i], line)
        /\ \A i \in 1 .. Len(dev_a) : HostStores(dev_a[i], line) =>
             /\ \A k \in Hosts : perm[k][line] # "T"
             /\ \A j \in 1 .. Len(dev_a) : HostStores(dev_a[j], line) => i = j

\* The device will have v when it has served the queue s: the last write is of v,
\* or there is none and it has v now.
StoresIn(s, line) == {k \in 1 .. Len(s) : Stores(s[k], line)}
WillHave(s, now, line, v) ==
    /\ StoresIn(s, line) = {} => now = v
    /\ StoresIn(s, line) # {} => \E k \in StoresIn(s, line) : s[k].value = v /\ \A i \in StoresIn(s, line) : i <= k

Clean(line) == \A h \in Hosts : ~dirty[h][line] /\ ~Returns(c[h], line)

Current ==
    /\ CopiesAreCurrent
    /\ \A h \in Hosts, line \in Lines :
         /\ dirty[h][line] => perm[h][line] = "T"
         /\ Returns(c[h], line) => c[h].value = golden[line]
    /\ \A line \in Lines : Clean(line) => WillHave(dev_a, mem[line], line, golden[line])
    /\ Answers => dev_d.value = golden[dev_d.line]
    /\ \A g \in Agents : d[g].kind = "GrantData" => d[g].value = golden[d[g].line]
    /\ \A i \in 1 .. Len(dev_a) :
         Asks(dev_a[i]) => \A k \in StoresIn(dev_a, dev_a[i].line) : Ordered /\ k < i

DataInv == Requests /\ Shapes /\ OneRelease /\ HeldOff /\ OneReturn /\ Current

-----------------------------------------------------------------------------
(* What the invariant says of the line that the hub is about to read *)

LEMMA OnLineInjective ==
    \A l, m : (OnLine(l) = OnLine(m) => l = m) /\ OnLine(l) # None
  BY Zenon DEF OnLine, None

LEMMA Empty ==
    None.kind = "none" /\ ~Releases(None) /\ \A line : ~Returns(None, line)
  BY Zenon DEF None, Releases, Returns

LEMMA NoProbeData ==
    ASSUME Inv, state # "Inv" \/ probe_ack_pending = 0
    PROVE  /\ \A i \in 1 .. Len(dev_a) : ~ProbeData(dev_a[i])
           /\ probe_pending = {} /\ \A h \in Hosts : b[h] = None /\ c[h].kind \notin ProbeAcks
  BY Zenon DEF Inv, NoneAwaited, Calm

\* When the hub has all answers, and until the host has the grant, nobody has the
\* line for writing and no data of it is on its way back: the device will have the
\* latest.
LEMMA Quiet ==
    ASSUME Inv, DataInv, state \in {"Req", "Grant"} \/ Granting
    PROVE  /\ \A h \in Hosts : /\ perm[h][req.line] # "T" /\ ~dirty[h][req.line]
                               /\ releasing[h] # OnLine(req.line) /\ ~Returns(c[h], req.line)
           /\ \A i \in 1 .. Len(dev_a) : ~HostStores(dev_a[i], req.line)
           /\ WillHave(dev_a, mem[req.line], req.line, golden[req.line])
           /\ req.source \in Hosts => asked[req.source] = OnLine(req.line)
<1> USE DEF Inv, DataInv
<1>1. req.line \in Lines /\ req.source \in Agents
  BY Zenon, MessageTypes
<1>2. state \in {"Req", "Grant"} \/ (state = "Wait" /\ ~ack_done)
  BY Zenon DEF Granting, InFlight, Serving
<1>3. req.source \in Hosts => asked[req.source] = OnLine(req.line)
  BY Zenon, <1>2, ConstantFacts DEF Requests, Kinds
<1>4. ASSUME NEW h \in Hosts PROVE releasing[h] # OnLine(req.line)
  <2>1. CASE h = req.source
    BY Zenon, <1>1, <1>3, <2>1 DEF Requests
  <2>2. CASE h # req.source
    BY Zenon, <1>1, <1>2, <2>2, NoProbeData DEF HeldOff
  <2> QED BY Zenon, <2>1, <2>2
<1>5. ASSUME NEW h \in Hosts PROVE perm[h][req.line] # "T"
  <2>1. CASE h = req.source
    BY Zenon, <1>1, <1>3, <2>1 DEF Requests
  <2>2. CASE h # req.source
    <3>1. Below(perm[h][req.line], probe_param)
      BY Zenon, <1>2, <2>2, NoProbeData DEF Probed
    <3>2. probe_param \in {"toB", "toN"}
      BY Zenon, <1>2 DEF Requests
    <3> QED BY Zenon, <3>1, <3>2 DEF Below
  <2> QED BY Zenon, <2>1, <2>2
<1>6. ASSUME NEW h \in Hosts PROVE ~Returns(c[h], req.line)
  <2>1. Returns(c[h], req.line) => Releases(c[h]) /\ c[h].line = req.line
    BY Zenon, <1>2, NoProbeData DEF Returns, Releases, ProbeAcks
  <2> QED BY Zenon, <1>4, <2>1 DEF OneRelease
<1>7. \A h \in Hosts : ~dirty[h][req.line]
  BY Zenon, <1>1, <1>5 DEF Current
<1>8. ASSUME NEW i \in 1 .. Len(dev_a) PROVE ~HostStores(dev_a[i], req.line)
  <2>1. ~ProbeData(dev_a[i]) /\ dev_a[i] \in Held /\ Shape(dev_a[i], req.line)
    BY Zenon, <1>2, NoProbeData, MessageTypes DEF Shapes
  <2>2. HostStores(dev_a[i], req.line) => dev_a[i].xact = "release" /\ dev_a[i].line = req.line
    BY Zenon, <2>1 DEF HostStores, Stores, Shape, ProbeData, Held, XactTypes
  <2> QED BY <1>4, <2>1, <2>2 DEF OneRelease, ReleaseOf, Shape
<1>9. WillHave(dev_a, mem[req.line], req.line, golden[req.line])
  BY Zenon, <1>1, <1>6, <1>7 DEF Current, Clean
<1> QED BY Zenon, <1>3, <1>4, <1>5, <1>6, <1>7, <1>8, <1>9

-----------------------------------------------------------------------------
(* What each part of the invariant depends on *)

LEMMA GrantingLeft ==
    ASSUME UNCHANGED <<d, dev_a, dev_d>> PROVE Granting' = Granting
  BY Zenon DEF Granting, Answers, dropped, Grants

LEMMA RequestsLeft ==
    ASSUME Requests, UNCHANGED <<state, req, probe_param, a, d, dev_a, dev_d, perm, asked, releasing>>
    PROVE  Requests'
  BY GrantingLeft DEF Requests

LEMMA ShapesLeft ==
    ASSUME Shapes, UNCHANGED <<req, c, d, dev_a, dev_d>> PROVE Shapes'
  BY Zenon DEF Shapes

LEMMA ReleaseLeft ==
    ASSUME OneRelease, UNCHANGED <<c, d, dev_a, dev_d, releasing>> PROVE OneRelease'
  BY Zenon DEF OneRelease

LEMMA HeldOffLeft ==
    ASSUME HeldOff, UNCHANGED <<state, req, probe_pending, b, d, dev_a, dev_d, perm, releasing>> PROVE HeldOff'
  BY GrantingLeft DEF HeldOff

LEMMA ReturnLeft ==
    ASSUME OneReturn, UNCHANGED <<c, dev_a, perm>> PROVE OneReturn'
  BY Zenon DEF OneReturn

LEMMA CurrentFacts ==
    ASSUME DataInv, NEW h \in Hosts, NEW line \in Lines
    PROVE  /\ perm[h][line] # "N" => copy[h][line] = golden[line]
           /\ dirty[h][line] => perm[h][line] = "T"
           /\ Returns(c[h], line) => c[h].value = golden[line]
  BY Zenon DEF DataInv, Current, CopiesAreCurrent

LEMMA CurrentKept ==
    ASSUME Current, UNCHANGED <<perm, copy, dirty, c, dev_a, mem, golden>>,
           Answers' => Answers /\ dev_d' = dev_d,
           \A g \in Agents : d'[g].kind = "GrantData" => d'[g].value = golden[d'[g].line]
    PROVE  Current'
<1>1. \A line \in Lines : Clean(line)' = Clean(line)
  BY Zenon DEF Clean
<1> QED BY Zenon, <1>1 DEF Current, CopiesAreCurrent

LEMMA CurrentLeft ==
    ASSUME Current, UNCHANGED <<perm, copy, dirty, c, d, dev_a, dev_d, mem, golden>> PROVE Current'
<1>1. Answers' = Answers
  BY Zenon DEF Answers, dropped
<1>2. \A g \in Agents : d'[g].kind = "GrantData" => d'[g].value = golden[d'[g].line]
  BY Zenon DEF Current
<1> QED BY Zenon, <1>1, <1>2, CurrentKept

-----------------------------------------------------------------------------
(* The device's queue *)

LEMMA AppendFacts ==
    ASSUME NEW s \in Seq(Held), NEW m
    PROVE  /\ Len(Append(s, m)) = Len(s) + 1 /\ Append(s, m)[Len(s) + 1] = m
           /\ \A i \in 1 .. Len(s) : i \in 1 .. Len(Append(s, m)) /\ Append(s, m)[i] = s[i]
           /\ \A i \in 1 .. Len(Append(s, m)) : i = Len(s) + 1 \/ (i \in 1 .. Len(s) /\ i < Len(s) + 1)
  OBVIOUS

\* After a write the device will have what it wrote, after a read what it had.
LEMMA WillHaveAppend ==
    ASSUME NEW s \in Seq(Held), NEW m, NEW now, NEW line, NEW v,
           IF Stores(m, line) THEN v = m.value ELSE WillHave(s, now, line, v)
    PROVE  WillHave(Append(s, m), now, line, v)
<1> DEFINE t == Append(s, m)
<1>1. /\ Len(t) = Len(s) + 1 /\ t[Len(s) + 1] = m /\ Len(s) \in Nat
      /\ \A i \in 1 .. Len(s) : t[i] = s[i]
  OBVIOUS
<1> HIDE DEF t
<1>2. CASE Stores(m, line)
  <2>1. Len(s) + 1 \in StoresIn(t, line)
    BY <1>1, <1>2 DEF StoresIn
  <2>2. \A k \in StoresIn(t, line) : k <= Len(s) + 1
    BY <1>1 DEF StoresIn
  <2> QED BY Zenon, <1>1, <1>2, <2>1, <2>2 DEF WillHave, t
<1>3. CASE ~Stores(m, line)
  <2>1. StoresIn(t, line) = StoresIn(s, line)
    BY <1>1, <1>3 DEF StoresIn
  <2>2. \A k \in StoresIn(s, line) : t[k] = s[k]
    BY Zenon, <1>1 DEF StoresIn
  <2> QED BY Zenon, <1>3, <2>1, <2>2 DEF WillHave, t
<1> QED BY Zenon, <1>2, <1>3

\* Serving a read leaves that as it is; so does a write, if no other of the line
\* is before it.
LEMMA WillHaveWithout ==
    ASSUME NEW s \in Seq(Held), NEW k \in 1 .. Len(s), NEW now, NEW line, NEW v, WillHave(s, now, line, v),
           Stores(s[k], line) => \A i \in StoresIn(s, line) : k <= i
    PROVE  WillHave(Without(s, k), IF Stores(s[k], line) THEN s[k].value ELSE now, line, v)
<1> DEFINE t == Without(s, k)
<1>1. /\ Len(t) = Len(s) - 1 /\ Len(s) \in Nat /\ k \in Nat
      /\ \A i \in 1 .. Len(s) - 1 : t[i] = IF i < k THEN s[i] ELSE s[i + 1]
  BY WithoutType
<1> HIDE DEF t
<1>2. \A i \in StoresIn(t, line) : (IF i < k THEN i ELSE i + 1) \in StoresIn(s, line)
  BY <1>1 DEF StoresIn
<1>3. \A j \in StoresIn(s, line) : j = k \/ (IF j < k THEN j ELSE j - 1) \in StoresIn(t, line)
  <2> SUFFICES ASSUME NEW j \in StoresIn(s, line), j # k PROVE (IF j < k THEN j ELSE j - 1) \in StoresIn(t, line)
    BY Zenon
  <2>1. j \in 1 .. Len(s) /\ Stores(s[j], line)
    BY Zenon DEF StoresIn
  <2>2. CASE j < k
    BY <1>1, <2>1, <2>2 DEF StoresIn
  <2>3. CASE j > k
    <3>1. t[j - 1] = s[j] /\ j - 1 \in 1 .. Len(t)
      BY <1>1, <2>1, <2>3
    <3> QED BY <2>1, <2>3, <3>1 DEF StoresIn
  <2> QED BY <2>1, <2>2, <2>3
<1>4. ASSUME StoresIn(t, line) = {} PROVE (IF Stores(s[k], line) THEN s[k].value ELSE now) = v
  <2>1. \A j \in StoresIn(s, line) : j = k
    BY Zenon, <1>3, <1>4
  <2>2. CASE Stores(s[k], line)
    <3>1. k \in StoresIn(s, line) /\ \A i \in StoresIn(s, line) : i <= k
      BY Zenon, <2>1, <2>2 DEF StoresIn
    <3> QED BY <2>2, <3>1 DEF WillHave
  <2>3. CASE ~Stores(s[k], line)
    BY Zenon, <2>1, <2>3 DEF WillHave, StoresIn
  <2> QED BY Zenon, <2>2, <2>3
<1>5. ASSUME StoresIn(t, line) # {}
     PROVE  \E i \in StoresIn(t, line) : t[i].value = v /\ \A j \in StoresIn(t, line) : j <= i
  <2>1. PICK n \in StoresIn(s, line) : s[n].value = v /\ \A i \in StoresIn(s, line) : i <= n
    BY Zenon, <1>2, <1>5 DEF WillHave
  <2> DEFINE i == IF n < k THEN n ELSE n - 1
  <2>2. n \in 1 .. Len(s) /\ Stores(s[n], line)
    BY Zenon DEF StoresIn
  <2>3. n # k
    <3>1. PICK j \in StoresIn(t, line) : TRUE
      BY Zenon, <1>5
    <3>2. j \in Nat /\ (IF j < k THEN j ELSE j + 1) <= n /\ (n = k => k <= IF j < k THEN j ELSE j + 1)
      BY <1>2, <2>1, <2>2 DEF StoresIn
    <3> QED BY <1>1, <3>2
  <2>4. i \in StoresIn(t, line) /\ i \in 1 .. Len(t)
    BY Zenon, <1>3, <2>3 DEF StoresIn
  <2>5. t[i] = s[n]
    BY <1>1, <2>2, <2>3, <2>4
  <2>6. ASSUME NEW j \in StoresIn(t, line) PROVE j <= i
    <3>1. j \in 1 .. Len(t) /\ (IF j < k THEN j ELSE j + 1) <= n
      BY Zenon, <1>2, <2>1 DEF StoresIn
    <3> QED BY <1>1, <2>2, <2>3, <3>1
  <2> QED BY Zenon, <2>1, <2>4, <2>5, <2>6
<1> QED BY Zenon, <1>4, <1>5 DEF WillHave, t

LEMMA NotGranting ==
    ASSUME Inv, state # "Wait" PROVE ~Granting
  BY Zenon DEF Inv, InFlight, Serving, Granting

\* Only hosts acquire.
LEMMA CachedIsHost ==
    ASSUME Inv, Requests, state # "Idle"
    PROVE  /\ req.op \in Acquires <=> req.source \in Hosts
           /\ req.xact = "uncached" <=> req.source = Dma
           /\ req.source = Dma => req.op \in DmaOps
<1>1. \A op \in DmaOps : op \notin Acquires
  BY Zenon, BroadcastAssumption DEF Acquires
<1>2. req.op \in Acquires <=> req.source \in Hosts
  BY Zenon, <1>1 DEF Requests
<1>3. req.xact \in {"toT", "toB", "uncached"} /\ req.source \in Agents
  BY Zenon, MessageTypes DEF Inv, Requests, XactTypes
<1> QED BY Zenon, <1>2, <1>3, ConstantFacts DEF Inv, Kinds, Cached, Agents, Requests

-----------------------------------------------------------------------------
(* The hub *)

LEMMA AcceptData ==
    ASSUME Inv, DataInv, NEW g \in Agents, HubAccept(g) PROVE DataInv'
<1> USE DEF Inv, DataInv
<1>1. /\ state = "Idle" /\ a[g] # None /\ req'.op = a[g].kind /\ req'.line = a[g].line /\ req'.source = g
      /\ req'.xact = xact_type(a[g]) /\ probe_param' = cap_of(a[g])
      /\ probe_pending' = Hosts \ {g} /\ state' = "Inv"
      /\ UNCHANGED <<a, b, c, d, dev_a, dev_d, perm, copy, dirty, asked, releasing, mem, golden>>
  BY Zenon DEF HubAccept, hosts
<1>2. ~Granting /\ ~Granting'
  BY <1>1, NotGranting, GrantingLeft
<1>3. a[g].kind \in {"AcquireBlock", "AcquirePerm", "Get", "PutFullData"} /\ a[g].line \in Lines
  BY Zenon, <1>1, MessageTypes
<1>4. Requests'
  <2>0. a[g].kind = "AcquirePerm" => a[g].param # "NtoB"
    BY Zenon, <1>1 DEF Requests
  <2>1. /\ req'.xact # "release" /\ (req'.op = "AcquirePerm" => req'.xact = "toT")
        /\ probe_param' \in (IF req'.op = "PutFullData" THEN {"toN"} ELSE {"toB", "toN"})
    BY Zenon, <1>1, <1>3, <2>0 DEF xact_type, cap_of
  <2>2. IF g \in Hosts THEN a[g].kind \in Acquires /\ asked[g] = OnLine(a[g].line) ELSE a[g].kind \in DmaOps
    BY Zenon, <1>1 DEF Requests
  <2> QED BY Zenon, <1>1, <1>2, <2>1, <2>2 DEF Requests
<1>5. Shapes'
  BY Zenon, <1>1, NoProbeData DEF Shapes, Shape
<1>6. HeldOff'
  <2>1. g \in Hosts => asked[g] = OnLine(a[g].line) /\ releasing[g] # OnLine(a[g].line)
    BY Zenon, <1>1, <1>3 DEF Requests
  <2> QED BY Zenon, <1>1, <2>1 DEF HeldOff
<1> QED BY Zenon, <1>1, <1>4, <1>5, <1>6, ReleaseLeft, ReturnLeft, CurrentLeft

LEMMA MoveData ==
    ASSUME Inv, DataInv, HubAllAcked \/ HubFinished PROVE DataInv'
<1> USE DEF Inv, DataInv
<1>1. /\ (state = "Inv" /\ state' \in {"Req", "Grant"}) \/ state' = "Idle"
      /\ UNCHANGED <<req, probe_pending, probe_param, a, b, c, d, dev_a, dev_d, perm, copy, dirty, asked,
                     releasing, mem, golden>>
  BY Zenon DEF HubAllAcked, HubFinished, sequencer, hosts
<1>2. Requests'
  BY <1>1, GrantingLeft DEF Requests
<1>3. HeldOff'
  BY Zenon, <1>1, GrantingLeft DEF HeldOff
<1> QED BY Zenon, <1>1, <1>2, <1>3, ShapesLeft, ReleaseLeft, ReturnLeft, CurrentLeft

LEMMA SendProbeData ==
    ASSUME Inv, DataInv, NEW h \in Hosts, HubProbe(h) PROVE DataInv'
<1> USE DEF Inv, DataInv
<1>1. /\ UNCHANGED <<state, req, probe_param, a, c, d, dev_a, dev_d, perm, copy, dirty, asked, releasing, mem, golden>>
      /\ probe_pending' = probe_pending \ {h} /\ b'[h] # None /\ \A k \in Hosts : k # h => b'[k] = b[k]
  BY Zenon DEF HubProbe, Put, None, core, hosts, TypeOK
<1>2. HeldOff'
  BY <1>1, GrantingLeft DEF HeldOff
<1> QED BY Zenon, <1>1, <1>2, RequestsLeft, ShapesLeft, ReleaseLeft, ReturnLeft, CurrentLeft

LEMMA RequestData ==
    ASSUME Inv, DataInv, KeepsOrder, HubRequest PROVE DataInv'
<1> USE DEF Inv, DataInv
<1> DEFINE m == [kind |-> IF req.xact = "uncached" THEN req.op ELSE "Get", line |-> req.line,
                 source |-> req.source, xact |-> req.xact, value |-> a[req.source].value]
<1>1. /\ state = "Req" /\ dev_a' = Append(dev_a, m) /\ state' \in {"Wait", "Idle"}
      /\ a' = Clear(a, req.source)
      /\ golden' = IF req.op = "PutFullData" THEN [golden EXCEPT ![req.line] = a[req.source].value] ELSE golden
      /\ UNCHANGED <<req, probe_pending, probe_param, b, c, d, dev_d, perm, copy, dirty, asked, releasing, mem>>
  BY Zenon DEF HubRequest, Forward, sequencer, hosts
<1>2. /\ m.line = req.line /\ m.source = req.source /\ m.xact = req.xact /\ m.value = a[req.source].value
      /\ m.kind = IF req.source = Dma THEN req.op ELSE "Get"
      /\ m.xact \in {"toT", "toB", "uncached"} /\ (m.xact = "uncached" <=> req.source = Dma)
      /\ req.source = Dma => req.op \in DmaOps
  BY Zenon, <1>1, CachedIsHost, MessageTypes DEF Requests, XactTypes
<1> HIDE DEF m
<1>3. dev_a \in Seq(Held) /\ req.line \in Lines /\ req.source \in Agents
  BY Zenon, MessageTypes
<1>4. /\ Len(dev_a') = Len(dev_a) + 1 /\ dev_a'[Len(dev_a) + 1] = m
      /\ \A i \in 1 .. Len(dev_a) : i \in 1 .. Len(dev_a') /\ dev_a'[i] = dev_a[i]
      /\ \A i \in 1 .. Len(dev_a') : i = Len(dev_a) + 1 \/ (i \in 1 .. Len(dev_a) /\ i < Len(dev_a) + 1)
  BY <1>1, <1>3, AppendFacts
<1>5. /\ \A h \in Hosts : /\ perm[h][req.line] # "T" /\ ~dirty[h][req.line]
                          /\ releasing[h] # OnLine(req.line) /\ ~Returns(c[h], req.line)
      /\ \A i \in 1 .. Len(dev_a) : ~HostStores(dev_a[i], req.line)
      /\ WillHave(dev_a, mem[req.line], req.line, golden[req.line])
      /\ req.source \in Hosts => asked[req.source] = OnLine(req.line)
  BY Zenon, <1>1, Quiet
<1>6. ~Granting /\ (Granting' => req.source \in Hosts)
  <2>1. ~Granting
    BY Zenon, <1>1, NotGranting
  <2>2. Granting' => Asks(m)
    BY ZenonT(40), <1>1, <1>4, <2>1 DEF Granting, Answers, dropped, Grants
  <2> QED BY Zenon, <1>2, <1>3, <2>1, <2>2 DEF Asks, Cached, Agents
<1>7. Requests'
  <2>1. \A g \in Agents : a'[g] = IF g = req.source THEN None ELSE a[g]
    BY Zenon, <1>1 DEF Clear, TypeOK
  <2> QED BY <1>1, <1>3, <1>5, <1>6, <2>1 DEF Requests
<1>8. Shapes'
  <2>1. Shape(m, req.line)
    BY Zenon, <1>2 DEF Shape, ProbeData
  <2> QED BY Zenon, <1>1, <1>4, <2>1 DEF Shapes
<1>9. OneRelease'
  <2>1. \A h : ~ReleaseOf(m, h)
    BY Zenon, <1>2 DEF ReleaseOf
  <2> QED BY <1>1, <1>4, <2>1 DEF OneRelease
<1>10. HeldOff'
  BY Zenon, <1>1, <1>5 DEF HeldOff
<1>11. OneReturn'
  <2>1. \A line : ~HostStores(m, line)
    BY Zenon, <1>2 DEF HostStores, Stores
  <2> QED BY <1>1, <1>4, <2>1 DEF OneReturn
<1>12. req.op = "PutFullData" => \A h \in Hosts : perm[h][req.line] = "N"
  <2> SUFFICES ASSUME req.op = "PutFullData", NEW h \in Hosts PROVE perm[h][req.line] = "N"
    BY Zenon
  <2>1. probe_param = "toN" /\ req.source # h
    BY Zenon, <1>1, CachedIsHost DEF Requests, Acquires
  <2> QED BY Zenon, <1>1, <2>1, NoProbeData DEF Probed, Below
<1>13. m.kind = "PutFullData" <=> req.op = "PutFullData"
  BY Zenon, <1>1, <1>2, <1>3, CachedIsHost DEF Acquires, Agents
<1>14. \A line \in Lines : line # req.line \/ req.op # "PutFullData" => golden'[line] = golden[line]
  BY Zenon, <1>1 DEF TypeOK
<1>15. req.op = "PutFullData" => golden'[req.line] = m.value
  BY Zenon, <1>1, <1>2, <1>3 DEF TypeOK
<1>16. ASSUME NEW line \in Lines, Clean(line)' PROVE WillHave(dev_a', mem'[line], line, golden'[line])
  <2>1. WillHave(dev_a, mem[line], line, golden[line])
    BY Zenon, <1>1, <1>16 DEF Current, Clean
  <2>2. Stores(m, line) => golden'[line] = m.value
    BY Zenon, <1>2, <1>13, <1>15 DEF Stores
  <2>3. ~Stores(m, line) => golden'[line] = golden[line]
    BY Zenon, <1>2, <1>13, <1>14 DEF Stores
  <2> QED BY Zenon, <1>1, <1>3, <2>1, <2>2, <2>3, WillHaveAppend
<1>17. ASSUME NEW i \in 1 .. Len(dev_a'), Asks(dev_a'[i]), NEW k \in StoresIn(dev_a', dev_a'[i].line)
      PROVE  Ordered /\ k < i
  <2>1. i = Len(dev_a) + 1 /\ dev_a'[i] = m
    BY Zenon, <1>4, <1>6, <1>17 DEF Granting
  <2>2. m.kind = "Get"
    BY Zenon, <1>2, <1>17, <2>1 DEF Asks, Cached
  <2>3. k \in 1 .. Len(dev_a) /\ k < i /\ Stores(dev_a[k], req.line)
    BY Zenon, <1>2, <1>4, <2>1, <2>2 DEF StoresIn, Stores
  <2>4. dev_a[k].xact = "uncached" /\ Shape(dev_a[k], req.line)
    BY Zenon, <1>5, <2>3 DEF HostStores, Shapes
  <2> QED BY Zenon, <2>3, <2>4 DEF Shape, Stores, KeepsOrder
<1>18. Current'
  <2>1. CopiesAreCurrent'
    BY <1>1, <1>12, <1>14 DEF Current, CopiesAreCurrent
  <2>2. \A h \in Hosts, line \in Lines :
         (dirty[h][line] => perm[h][line] = "T")' /\ (Returns(c[h], line) => c[h].value = golden[line])'
    BY ZenonT(40), <1>1, <1>5, <1>14 DEF Current
  <2>3. ~Answers' /\ \A g \in Agents : d'[g].kind # "GrantData"
    BY Zenon, <1>1, <1>6 DEF Granting, Answers, dropped, Grants
  <2> QED BY ZenonT(40), <1>16, <1>17, <2>1, <2>2, <2>3 DEF Current
<1> QED BY Zenon, <1>7, <1>8, <1>9, <1>10, <1>11, <1>18

LEMMA PermData ==
    ASSUME Inv, DataInv, HubGrant PROVE DataInv'
<1> USE DEF Inv, DataInv
<1>1. /\ state = "Grant" /\ d[req.source] = None /\ state' = "Wait" /\ a' = Clear(a, req.source)
      /\ d' = Put(d, req.source, [kind |-> "Grant", line |-> req.line, param |-> req.xact, value |-> 0])
      /\ UNCHANGED <<req, probe_pending, probe_param, b, c, dev_a, dev_d, perm, copy, dirty, asked, releasing,
                     mem, golden>>
  BY Zenon DEF HubGrant, sequencer, hosts
<1>2. /\ \A h \in Hosts : releasing[h] # OnLine(req.line)
      /\ req.source \in Hosts /\ asked[req.source] = OnLine(req.line) /\ req.xact = "toT"
  <2>1. req.source \in Hosts /\ req.xact = "toT"
    BY Zenon, <1>1, CachedIsHost DEF Requests, Kinds, Acquires
  <2> QED BY Zenon, <1>1, <2>1, Quiet
<1>3. /\ \A g \in Agents : g # req.source => a'[g] = a[g] /\ d'[g] = d[g]
      /\ a'[req.source] = None /\ d'[req.source].kind = "Grant" /\ d'[req.source].param = "toT"
  BY ZenonT(40), <1>1, <1>2, ConstantFacts DEF Clear, Put, TypeOK
<1>4. Requests'
  BY <1>1, <1>2, <1>3 DEF Requests
<1>5. Shapes'
  BY ZenonT(40), <1>1, <1>3, ConstantFacts DEF Shapes
<1>6. OneRelease'
  BY ZenonT(40), <1>1, <1>3, ConstantFacts DEF OneRelease
<1>7. HeldOff'
  BY <1>1, <1>2 DEF HeldOff
<1>8. Current'
  <2>1. Answers' = Answers
    BY ZenonT(40), <1>1 DEF Answers, dropped
  <2>2. \A g \in Agents : d'[g].kind = "GrantData" => d'[g].value = golden[d'[g].line]
    BY <1>3 DEF Current
  <2> QED BY Zenon, <1>1, <2>1, <2>2, CurrentKept
<1> QED BY Zenon, <1>1, <1>4, <1>5, <1>6, <1>7, <1>8, ReturnLeft

\* A grant is not on its way to anyone that it was not on its way to before.
LEMMA RequestsKept ==
    ASSUME Requests, Granting' => Granting, UNCHANGED <<state, req, probe_param, a, perm, asked, releasing>>,
           \A g \in Agents : d'[g].kind = "Grant" => d[g].kind = "Grant" /\ d'[g].param = d[g].param
    PROVE  Requests'
  BY Zenon DEF Requests

LEMMA HeldOffKept ==
    ASSUME HeldOff, Granting' => Granting, UNCHANGED <<state, req, probe_pending, b, perm, releasing>>
    PROVE  HeldOff'
  BY Zenon DEF HeldOff

LEMMA TakeDevDData ==
    ASSUME Inv, DataInv, HubTakeDevD PROVE DataInv'
<1> USE DEF Inv, DataInv
<1>1. /\ dev_d # None /\ dev_d' = None
      /\ UNCHANGED <<state, req, probe_pending, probe_param, a, b, c, dev_a, perm, copy, dirty, asked, releasing,
                     mem, golden>>
  BY Zenon DEF HubTakeDevD, sequencer, hosts
<1>2. ~Answers'
  BY Zenon, <1>1 DEF Answers
<1>3. CASE dropped
  <2>1. d' = d
    BY Zenon, <1>3 DEF HubTakeDevD
  <2>2. Granting' => Granting
    BY Zenon, <1>1, <1>2, <2>1 DEF Granting, Grants
  <2>3. Shapes'
    BY ZenonT(40), <1>1, <2>1 DEF Shapes
  <2>4. OneRelease'
    BY ZenonT(40), <1>1, <2>1 DEF OneRelease, AckOf
  <2>5. \A g \in Agents : d'[g].kind = "GrantData" => d'[g].value = golden[d'[g].line]
    BY Zenon, <2>1 DEF Current
  <2> QED BY Zenon, <1>1, <1>2, <2>1, <2>2, <2>3, <2>4, <2>5, RequestsKept, HeldOffKept, ReturnLeft, CurrentKept
<1>4. CASE ~dropped
  <2> DEFINE m == IF dev_d.xact = "release" THEN [kind |-> "ReleaseAck"]
                  ELSE [kind |-> IF dev_d.xact = "uncached" THEN dev_d.kind ELSE "GrantData",
                        line |-> dev_d.line, param |-> dev_d.xact, value |-> dev_d.value]
  <2>1. d[dev_d.source] = None /\ d' = Put(d, dev_d.source, m) /\ dev_d.source \in Agents
    BY Zenon, <1>1, <1>4, MessageTypes DEF HubTakeDevD
  <2>2. \/ dev_d.xact = "release" /\ m.kind = "ReleaseAck"
        \/ dev_d.xact = "uncached" /\ m.kind \in {"AccessAck", "AccessAckData"} /\ dev_d.source = Dma
        \/ Answers /\ m.kind = "GrantData" /\ m.value = golden[m.line]
    <3>1. dev_d.xact \in XactTypes /\ dev_d.kind \in {"AccessAck", "AccessAckData"}
      BY Zenon, <1>1, MessageTypes
    <3>2. CASE dev_d.xact = "release"
      BY Zenon, <3>2
    <3>3. CASE dev_d.xact = "uncached"
      BY Zenon, <1>1, <3>1, <3>3 DEF Shapes
    <3>4. CASE dev_d.xact \in Cached
      <4>1. Answers
        BY Zenon, <1>1, <1>4, <3>4 DEF Answers
      <4>2. dev_d.value = golden[dev_d.line]
        BY Zenon, <4>1 DEF Current
      <4>3. m.kind = "GrantData" /\ m.value = dev_d.value /\ m.line = dev_d.line
        BY Zenon, <3>4 DEF Cached
      <4> QED BY Zenon, <4>1, <4>2, <4>3
    <3> QED BY Zenon, <3>1, <3>2, <3>3, <3>4 DEF XactTypes, Cached
  <2>3. m.kind = "ReleaseAck" => dev_d.xact = "release"
    BY Zenon, <2>2
  <2> HIDE DEF m
  <2>4. d'[dev_d.source] = m /\ \A g \in Agents : g # dev_d.source => d'[g] = d[g]
    BY Zenon, <2>1 DEF Put, TypeOK
  <2>5. Granting' => Granting
    BY Zenon, <1>1, <1>2, <2>2, <2>4 DEF Granting, Grants
  <2>6. \A g \in Agents : d'[g].kind = "Grant" => d[g].kind = "Grant" /\ d'[g].param = d[g].param
    BY Zenon, <2>2, <2>4
  <2>7. Shapes'
    BY ZenonT(40), <1>1, <2>2, <2>4, ConstantFacts DEF Shapes
  <2>8. OneRelease'
    <3>1. \A h \in Hosts : d'[h].kind = "ReleaseAck" => d[h].kind = "ReleaseAck" \/ AckOf(dev_d, h)
      BY <1>1, <2>3, <2>4, ConstantFacts DEF AckOf
    <3>2. \A h \in Hosts : ~AckOf(dev_d', h)
      BY Zenon, <1>1 DEF AckOf
    <3> QED BY ZenonT(40), <1>1, <3>1, <3>2 DEF OneRelease
  <2>9. \A g \in Agents : d'[g].kind = "GrantData" => d'[g].value = golden[d'[g].line]
    BY <2>2, <2>4 DEF Current
  <2> QED BY Zenon, <1>1, <1>2, <2>5, <2>6, <2>7, <2>8, <2>9, RequestsKept, HeldOffKept, ReturnLeft, CurrentKept
<1> QED BY Zenon, <1>3, <1>4

LEMMA OtherData ==
    ASSUME Inv, DataInv, HubSeesGrant \/ \E h \in Hosts : HubTakeE(h) PROVE DataInv'
<1> USE DEF Inv, DataInv
<1>1. UNCHANGED <<state, req, probe_pending, probe_param, a, b, c, d, dev_a, dev_d, perm, copy, dirty, asked,
                  releasing, mem, golden>>
  BY Zenon DEF HubSeesGrant, HubTakeE, sequencer, hosts
<1> QED BY Zenon, <1>1, RequestsLeft, ShapesLeft, ReleaseLeft, HeldOffLeft, ReturnLeft, CurrentLeft

-----------------------------------------------------------------------------
(* The hosts and Dma ask, and take answers other than grants *)

LEMMA AskData ==
    ASSUME Inv, DataInv, NEW g \in Agents, NEW op, NEW line, NEW grow, NEW value, Ask(g, op, line, grow, value),
           IF g \in Hosts
           THEN op \in Acquires /\ (op = "AcquirePerm" => grow # "NtoB")
                /\ perm[g][line] # "T" /\ releasing[g] # OnLine(line)
           ELSE op \in DmaOps
    PROVE  DataInv'
<1> USE DEF Inv, DataInv
<1>1. /\ asked[g] = None
      /\ a' = Put(a, g, [kind |-> op, line |-> line, param |-> grow, value |-> value])
      /\ asked' = Put(asked, g, OnLine(line))
      /\ UNCHANGED <<state, req, probe_pending, probe_param, b, c, d, dev_a, dev_d, perm, copy, dirty, releasing,
                     mem, golden>>
  BY Zenon DEF Ask, core, sequencer
<1>2. /\ a'[g].kind = op /\ a'[g].line = line /\ a'[g].param = grow /\ a'[g] # None /\ asked'[g] = OnLine(line)
      /\ \A k \in Agents : k # g => a'[k] = a[k] /\ asked'[k] = asked[k]
  BY Zenon, <1>1 DEF Put, None, TypeOK
<1>3. op = "AcquirePerm" => grow # "NtoB"
  BY Zenon, BroadcastAssumption
<1>4. state \in {"Inv", "Req", "Grant"} /\ req.source \in Hosts => g # req.source
  BY Zenon, <1>1, OnLineInjective DEF Requests, Kinds
<1>5. Granting => g # req.source
  BY Zenon, <1>1, OnLineInjective DEF Requests
<1>6. req.source \in Agents /\ Hosts \subseteq Agents
  BY Zenon, MessageTypes, ConstantFacts
<1>7. Granting' = Granting
  BY Zenon, <1>1, GrantingLeft
<1>8. Requests'
  <2>1. \A k \in Agents : a'[k] # None =>
         /\ k \in Hosts => asked'[k] = OnLine(a'[k].line) /\ a'[k].kind \in Acquires
         /\ k \notin Hosts => a'[k].kind \in DmaOps
         /\ a'[k].kind = "AcquirePerm" => a'[k].param # "NtoB"
    BY Zenon, <1>2, <1>3 DEF Requests
  <2>2. \A h \in Hosts, l \in Lines :
         asked'[h] = OnLine(l) => perm[h][l] # "T" /\ releasing[h] # OnLine(l)
    <3> SUFFICES ASSUME NEW h \in Hosts, NEW l \in Lines, asked'[h] = OnLine(l)
                 PROVE  perm[h][l] # "T" /\ releasing[h] # OnLine(l)
      BY Zenon
    <3>1. CASE h = g
      <4>1. l = line
        BY Zenon, <1>2, <3>1, OnLineInjective
      <4> QED BY Zenon, <3>1, <4>1
    <3>2. CASE h # g
      BY Zenon, <1>2, <1>6, <3>2 DEF Requests
    <3> QED BY Zenon, <3>1, <3>2
  <2> QED BY Zenon, <1>1, <1>2, <1>4, <1>5, <1>6, <1>7, <2>1, <2>2 DEF Requests
<1> QED BY Zenon, <1>1, <1>8, ShapesLeft, ReleaseLeft, HeldOffLeft, ReturnLeft, CurrentLeft

LEMMA TakeAnswerData ==
    ASSUME Inv, DataInv, NEW g \in Agents, AgentTakeD(g) PROVE DataInv'
<1> USE DEF Inv, DataInv
<1>1. /\ d[g].kind \in {"ReleaseAck", "AccessAck", "AccessAckData"} /\ d' = Clear(d, g)
      /\ IF d[g].kind = "ReleaseAck" THEN releasing' = Clear(releasing, g) /\ UNCHANGED asked
         ELSE asked' = Clear(asked, g) /\ UNCHANGED releasing
      /\ UNCHANGED <<state, req, probe_pending, probe_param, a, b, c, dev_a, dev_d, perm, copy, dirty, mem, golden>>
  BY Zenon DEF AgentTakeD, core, sequencer
<1>2. /\ d'[g] = None /\ \A k \in Agents : k # g => d'[k] = d[k]
      /\ \A k \in Hosts : k # g => asked'[k] = asked[k] /\ releasing'[k] = releasing[k]
      /\ g \in Hosts => asked'[g] = asked[g] /\ releasing'[g] = None
  <2>1. g \in Hosts => d[g].kind = "ReleaseAck"
    BY Zenon, <1>1 DEF Shapes
  <2> QED BY ZenonT(40), <1>1, <2>1, ConstantFacts DEF Clear, TypeOK
<1>3. (Granting' <=> Granting) /\ (Answers' <=> Answers)
  <2>1. \A k \in Agents : Grants(k)' <=> Grants(k)
    BY Zenon, <1>1, <1>2, Empty DEF Grants
  <2>2. Answers' <=> Answers
    BY Zenon, <1>1 DEF Answers, dropped
  <2> QED BY Zenon, <1>1, <2>1, <2>2 DEF Granting
<1>4. Granting => req.source \in Hosts
  BY ZenonT(40), CachedIsHost DEF Granting, InFlight, Serving, Kinds
<1>5. Requests'
  <2>1. \A h \in Hosts : asked'[h] = asked[h] /\ (releasing'[h] = releasing[h] \/ releasing'[h] = None)
    BY Zenon, <1>2
  <2>2. \A k \in Agents : d'[k].kind = "Grant" => d'[k].param = "toT"
    BY Zenon, <1>2, Empty DEF Requests
  <2> QED BY <1>1, <1>3, <1>4, <2>1, <2>2, OnLineInjective DEF Requests
<1>6. Shapes'
  BY ZenonT(40), <1>1, <1>2, ConstantFacts, Empty DEF Shapes
<1>7. OneRelease'
  <2>1. ASSUME NEW h \in Hosts, h = g
       PROVE  ~Releases(c[h]) /\ ~AckOf(dev_d, h) /\ \A i \in 1 .. Len(dev_a) : ~ReleaseOf(dev_a[i], h)
    BY Zenon, <1>1, <2>1 DEF OneRelease, Shapes
  <2>2. \A h \in Hosts : d'[h].kind = "ReleaseAck" => h # g /\ d[h].kind = "ReleaseAck"
    <3>1. None.kind # "ReleaseAck"
      BY Zenon DEF None
    <3> QED BY Zenon, <1>2, <3>1, ConstantFacts
  <2> QED BY ZenonT(60), <1>1, <1>2, <2>1, <2>2 DEF OneRelease
<1>8. HeldOff'
  <2>1. \A h \in Hosts, l \in Lines : releasing'[h] = OnLine(l) => releasing[h] = OnLine(l)
    BY Zenon, <1>2, OnLineInjective
  <2>2. \A h \in Hosts, l \in Lines : releasing[h] # OnLine(l) => releasing'[h] # OnLine(l)
    BY Zenon, <2>1
  <2>3. state' = state /\ req' = req /\ probe_pending' = probe_pending /\ b' = b /\ perm' = perm
    BY Zenon, <1>1
  <2> QED BY ZenonT(40), <1>3, <2>1, <2>2, <2>3 DEF HeldOff
<1>9. Current'
  <2>1. \A k \in Agents : d'[k].kind = "GrantData" => d'[k].value = golden[d'[k].line]
    <3>1. \A k \in Agents : d[k].kind = "GrantData" => d[k].value = golden[d[k].line]
      BY Zenon DEF Current
    <3>2. \A k \in Agents : d'[k].kind = "GrantData" => d'[k] = d[k]
      BY Zenon, <1>2, Empty
    <3> QED BY Zenon, <3>1, <3>2
  <2> QED BY ZenonT(40), <1>1, <1>3, <2>1, CurrentKept
<1> QED BY Zenon, <1>1, <1>5, <1>6, <1>7, <1>8, <1>9, ReturnLeft

-----------------------------------------------------------------------------
(* Dirty data on its way from channel C to memory *)

\* A ProbeAck or a Release leaves channel C, and no data of a line with it.
LEMMA TakePlainData ==
    ASSUME Inv, DataInv, NEW h \in Hosts, HubTakeC(h), c[h].kind \in {"ProbeAck", "Release"} PROVE DataInv'
<1> USE DEF Inv, DataInv
<1>1. /\ UNCHANGED <<state, req, probe_pending, probe_param, a, b, dev_a, dev_d, perm, copy, dirty, asked, releasing,
                     mem, golden>>
      /\ c' = Clear(c, h)
      /\ \/ c[h].kind = "ProbeAck" /\ d' = d
         \/ c[h].kind = "Release" /\ d' = Put(d, h, [kind |-> "ReleaseAck"])
  BY Zenon DEF HubTakeC, sequencer, hosts
<1>2. c'[h] = None /\ \A k \in Hosts : k # h => c'[k] = c[k]
  BY Zenon, <1>1 DEF Clear, TypeOK
<1>3. \A k \in Hosts : Releases(c[k])' => Releases(c[k]) /\ c'[k] = c[k]
  BY Zenon, <1>2, Empty DEF Releases
<1>4. \A k \in Hosts, line \in Lines : Returns(c[k], line)' = Returns(c[k], line)
  BY ZenonT(40), <1>2, Empty DEF Returns
<1>5. \A g \in Agents : d'[g].kind # "ReleaseAck" => d'[g] = d[g]
  <2>1. CASE d' = d
    BY Zenon, <2>1
  <2>2. CASE d' = Put(d, h, [kind |-> "ReleaseAck"])
    <3>1. d'[h] = [kind |-> "ReleaseAck"] /\ \A g \in Agents : g # h => d'[g] = d[g]
      BY Zenon, <2>2, ConstantFacts DEF Put, TypeOK
    <3>2. d'[h].kind = "ReleaseAck"
      BY <3>1
    <3> QED BY Zenon, <3>1, <3>2
  <2> QED BY Zenon, <1>1, <2>1, <2>2
<1>6. \A k \in Hosts : d'[k].kind = "ReleaseAck" => d[k].kind = "ReleaseAck" \/ (k = h /\ Releases(c[h]))
  BY Zenon, <1>1, ConstantFacts DEF Put, TypeOK, Releases
<1>7. (Granting' => Granting) /\ Answers' = Answers
  BY Zenon, <1>1, <1>5 DEF Granting, Answers, dropped, Grants
<1>8. \A g \in Agents : d'[g].kind = "Grant" => d[g].kind = "Grant" /\ d'[g].param = d[g].param
  BY Zenon, <1>5
<1>9. Shapes'
  BY ZenonT(40), <1>1, <1>2, <1>5, ConstantFacts, Empty DEF Shapes, ProbeAcks
<1>10. OneRelease'
  <2>1. ~Releases(c'[h])
    BY Zenon, <1>2, Empty DEF Releases
  <2>2. ASSUME NEW k \in Hosts, d'[k].kind = "ReleaseAck"
       PROVE  /\ releasing[k] # None /\ ~Releases(c'[k]) /\ ~AckOf(dev_d, k)
              /\ \A i \in 1 .. Len(dev_a) : ~ReleaseOf(dev_a[i], k)
    <3>1. CASE d[k].kind = "ReleaseAck"
      BY Zenon, <1>3, <3>1 DEF OneRelease
    <3>2. CASE k = h /\ Releases(c[h])
      BY Zenon, <2>1, <3>2, OnLineInjective DEF OneRelease
    <3> QED BY Zenon, <1>6, <2>2, <3>1, <3>2
  <2>3. releasing' = releasing /\ dev_a' = dev_a /\ dev_d' = dev_d
    BY Zenon, <1>1
  <2>4. ASSUME NEW k \in Hosts
        PROVE  /\ Releases(c'[k]) => releasing[k] = OnLine(c'[k].line)
               /\ AckOf(dev_d, k) => /\ releasing[k] # None /\ ~Releases(c'[k])
                                     /\ \A i \in 1 .. Len(dev_a) : ~ReleaseOf(dev_a[i], k)
               /\ \A i \in 1 .. Len(dev_a) : ReleaseOf(dev_a[i], k) =>
                    /\ releasing[k] = OnLine(dev_a[i].line) /\ ~Releases(c'[k])
                    /\ \A j \in 1 .. Len(dev_a) : ReleaseOf(dev_a[j], k) => i = j
    <3>1. Releases(c'[k]) => Releases(c[k]) /\ c'[k] = c[k]
      BY Zenon, <1>3
    <3>2. Releases(c'[k]) => releasing[k] = OnLine(c'[k].line)
      BY Zenon, <3>1 DEF OneRelease
    <3> QED BY Zenon, <3>1, <3>2 DEF OneRelease
  <2> QED BY Zenon, <2>2, <2>3, <2>4 DEF OneRelease
<1>11. OneReturn'
  BY ZenonT(40), <1>1, <1>4 DEF OneReturn
<1>12. Current'
  <2>1. \A line \in Lines : Clean(line)' = Clean(line)
    BY ZenonT(40), <1>1, <1>4 DEF Clean
  <2>2. \A k \in Hosts, line \in Lines : Returns(c[k], line)' => c'[k].value = golden[line]
    <3>1. \A k \in Hosts, line \in Lines : Returns(c[k], line)' => c'[k] = c[k] /\ Returns(c[k], line)
      BY Zenon, <1>2, <1>4, Empty DEF Returns
    <3>2. \A k \in Hosts, line \in Lines : Returns(c[k], line) => c[k].value = golden[line]
      BY Zenon DEF Current
    <3> QED BY Zenon, <3>1, <3>2
  <2>3. \A g \in Agents : d'[g].kind = "GrantData" => d'[g].value = golden[d'[g].line]
    <3>1. \A g \in Agents : d[g].kind = "GrantData" => d[g].value = golden[d[g].line]
      BY Zenon DEF Current
    <3>2. \A g \in Agents : d'[g].kind = "GrantData" => d'[g] = d[g]
      BY Zenon, <1>5
    <3> QED BY Zenon, <3>1, <3>2
  <2>4. CopiesAreCurrent' /\ \A k \in Hosts, line \in Lines : dirty'[k][line] => perm'[k][line] = "T"
    <3>1. copy' = copy /\ perm' = perm /\ dirty' = dirty /\ golden' = golden
      BY Zenon, <1>1
    <3>2. CopiesAreCurrent /\ \A k \in Hosts, line \in Lines : dirty[k][line] => perm[k][line] = "T"
      BY Zenon DEF Current
    <3> QED BY Zenon, <3>1, <3>2 DEF CopiesAreCurrent
  <2>5. /\ \A line \in Lines : Clean(line)' => WillHave(dev_a, mem[line], line, golden[line])'
        /\ Answers' => dev_d'.value = golden'[dev_d'.line]
    BY Zenon, <1>1, <1>7, <2>1 DEF Current
  <2>6. \A i \in 1 .. Len(dev_a') :
          Asks(dev_a'[i]) => \A k \in StoresIn(dev_a', dev_a'[i].line) : Ordered /\ k < i
    BY Zenon, <1>1 DEF Current
  <2>7. golden' = golden
    BY Zenon, <1>1
  <2> QED BY Zenon, <2>2, <2>3, <2>4, <2>5, <2>6, <2>7 DEF Current
<1> QED BY Zenon, <1>1, <1>7, <1>8, <1>9, <1>10, <1>11, <1>12, RequestsKept, HeldOffKept

\* Dirty data goes from channel C to the end of the device's queue.
LEMMA TakeDirtyData ==
    ASSUME Inv, DataInv, NEW h \in Hosts, HubTakeC(h), c[h].kind \in {"ProbeAckData", "ReleaseData"} PROVE DataInv'
<1> USE DEF Inv, DataInv
<1> DEFINE m == IF c[h].kind = "ProbeAckData"
                THEN [kind |-> "PutFullData", line |-> c[h].line, source |-> req.source,
                      xact |-> "toT", value |-> c[h].value]
                ELSE [kind |-> "PutFullData", line |-> c[h].line, source |-> h,
                      xact |-> "release", value |-> c[h].value]
<1>1. /\ UNCHANGED <<state, req, probe_pending, probe_param, a, b, d, dev_d, perm, copy, dirty, asked, releasing,
                     mem, golden>>
      /\ c' = Clear(c, h) /\ dev_a' = Append(dev_a, m)
  BY Zenon DEF HubTakeC, Forward, sequencer, hosts
<1>2. /\ m.kind = "PutFullData" /\ m.line = c[h].line /\ m.value = c[h].value
      /\ c[h].kind = "ProbeAckData" => m.xact = "toT"
      /\ c[h].kind = "ReleaseData" => m.xact = "release" /\ m.source = h
  BY Zenon
<1> HIDE DEF m
<1>3. c'[h] = None /\ \A k \in Hosts : k # h => c'[k] = c[k]
  BY Zenon, <1>1 DEF Clear, TypeOK
<1>4. dev_a \in Seq(Held) /\ c[h].line \in Lines
  BY ZenonT(40), MessageTypes, Empty
<1>5. /\ Len(dev_a') = Len(dev_a) + 1 /\ dev_a'[Len(dev_a) + 1] = m
      /\ \A i \in 1 .. Len(dev_a) : i \in 1 .. Len(dev_a') /\ dev_a'[i] = dev_a[i]
      /\ \A i \in 1 .. Len(dev_a') : i = Len(dev_a) + 1 \/ (i \in 1 .. Len(dev_a) /\ i < Len(dev_a) + 1)
  <2> DEFINE q == Append(dev_a, m)
  <2>1. /\ Len(q) = Len(dev_a) + 1 /\ q[Len(dev_a) + 1] = m
        /\ \A i \in 1 .. Len(dev_a) : i \in 1 .. Len(q) /\ q[i] = dev_a[i]
        /\ \A i \in 1 .. Len(q) : i = Len(dev_a) + 1 \/ (i \in 1 .. Len(dev_a) /\ i < Len(dev_a) + 1)
    BY Zenon, <1>4, AppendFacts
  <2>2. dev_a' = q
    BY Zenon, <1>1
  <2> HIDE DEF q
  <2> QED BY Zenon, <2>1, <2>2
<1>6. ~Asks(m)
  BY Zenon, <1>2 DEF Asks, ProbeData, Cached
<1>7. (Granting' => Granting) /\ Answers' = Answers
  BY Zenon, <1>1, <1>5, <1>6 DEF Granting, Answers, dropped, Grants
<1>8. Requests' /\ HeldOff'
  BY Zenon, <1>1, <1>7, RequestsKept, HeldOffKept
<1>9. Shapes'
  <2>1. Shape(m, req.line)
    BY Zenon, <1>2 DEF Shape, ProbeData, Shapes, ProbeAcks
  <2> QED BY Zenon, <1>1, <1>3, <1>5, <2>1, Empty DEF Shapes, ProbeAcks
<1>10. Returns(c[h], c[h].line) /\ m.value = golden[c[h].line]
  BY ZenonT(40), <1>2, <1>4 DEF Returns, Current
<1>11. OneRelease'
  <2>1. Releases(c[h]) <=> c[h].kind = "ReleaseData"
    BY Zenon DEF Releases
  <2>2. \A k : ReleaseOf(m, k) <=> c[h].kind = "ReleaseData" /\ k = h
    BY Zenon, <1>2 DEF ReleaseOf
  <2>3. ~Releases(c'[h])
    BY Zenon, <1>3, Empty DEF Releases
  <2>4. \A k \in Hosts : Releases(c'[k]) => Releases(c[k]) /\ c'[k] = c[k] /\ k # h
    BY Zenon, <1>3, <2>3
  <2>5. \A k \in Hosts, i \in 1 .. Len(dev_a') : ReleaseOf(dev_a'[i], k) =>
          (i \in 1 .. Len(dev_a) /\ ReleaseOf(dev_a[i], k)) \/ (i = Len(dev_a) + 1 /\ k = h /\ Releases(c[h]))
    BY Zenon, <1>5, <2>1, <2>2
  <2>6. ASSUME NEW k \in Hosts, NEW i \in 1 .. Len(dev_a'), ReleaseOf(dev_a'[i], k)
       PROVE  /\ releasing[k] = OnLine(dev_a'[i].line) /\ ~Releases(c'[k])
              /\ \A j \in 1 .. Len(dev_a') : ReleaseOf(dev_a'[j], k) => i = j
    <3>1. CASE i \in 1 .. Len(dev_a) /\ ReleaseOf(dev_a[i], k)
      <4>1. /\ releasing[k] = OnLine(dev_a[i].line) /\ ~Releases(c[k])
            /\ \A j \in 1 .. Len(dev_a) : ReleaseOf(dev_a[j], k) => i = j
        BY Zenon, <3>1 DEF OneRelease
      <4>2. dev_a'[i] = dev_a[i] /\ ~Releases(c'[k])
        BY Zenon, <1>5, <2>4, <3>1, <4>1
      <4> QED BY Zenon, <2>5, <4>1, <4>2
    <3>2. CASE i = Len(dev_a) + 1 /\ k = h /\ Releases(c[h])
      BY Zenon, <1>2, <1>5, <2>3, <2>5, <3>2 DEF OneRelease
    <3> QED BY Zenon, <2>5, <2>6, <3>1, <3>2
  <2>7. ASSUME NEW k \in Hosts
        PROVE  /\ Releases(c'[k]) => releasing'[k] = OnLine(c'[k].line)
               /\ AckOf(dev_d', k) => /\ releasing'[k] # None /\ ~Releases(c'[k])
                                      /\ \A i \in 1 .. Len(dev_a') : ~ReleaseOf(dev_a'[i], k)
               /\ d'[k].kind = "ReleaseAck" =>
                    /\ releasing'[k] # None /\ ~Releases(c'[k]) /\ ~AckOf(dev_d', k)
                    /\ \A i \in 1 .. Len(dev_a') : ~ReleaseOf(dev_a'[i], k)
    <3>1. releasing' = releasing /\ dev_d' = dev_d /\ d' = d
      BY Zenon, <1>1
    <3>2. Releases(c'[k]) => releasing[k] = OnLine(c'[k].line)
      BY Zenon, <2>4 DEF OneRelease
    <3>3. (\E i \in 1 .. Len(dev_a') : ReleaseOf(dev_a'[i], k)) =>
            (\E i \in 1 .. Len(dev_a) : ReleaseOf(dev_a[i], k)) \/ (k = h /\ Releases(c[h]))
      BY Zenon, <2>5
    <3>4. AckOf(dev_d, k) \/ d[k].kind = "ReleaseAck" =>
            /\ releasing[k] # None /\ ~Releases(c[k]) /\ (d[k].kind = "ReleaseAck" => ~AckOf(dev_d, k))
            /\ ~\E i \in 1 .. Len(dev_a) : ReleaseOf(dev_a[i], k)
      BY Zenon DEF OneRelease
    <3> QED BY Zenon, <2>4, <3>1, <3>2, <3>3, <3>4
  <2>8. releasing' = releasing
    BY ZenonT(40), <1>1
  <2> QED BY Zenon, <2>6, <2>7, <2>8 DEF OneRelease
<1>12. OneReturn'
  <2>1. \A line : HostStores(m, line) <=> line = c[h].line
    BY Zenon, <1>2 DEF HostStores, Stores
  <2>2. \A line : ~Returns(c'[h], line)
    BY Zenon, <1>3, Empty DEF Returns
  <2>3. /\ \A k \in Hosts : perm[k][c[h].line] # "T" /\ (k # h => ~Returns(c[k], c[h].line))
        /\ \A i \in 1 .. Len(dev_a) : ~HostStores(dev_a[i], c[h].line)
    BY Zenon, <1>4, <1>10 DEF OneReturn
  <2>4. perm' = perm
    BY Zenon, <1>1
  <2>5. \A i \in 1 .. Len(dev_a') : \A line : HostStores(dev_a'[i], line) =>
          (i \in 1 .. Len(dev_a) /\ HostStores(dev_a[i], line)) \/ (i = Len(dev_a) + 1 /\ line = c[h].line)
    BY Zenon, <1>5, <2>1
  <2>6. \A k \in Hosts : \A line : Returns(c'[k], line) => k # h /\ Returns(c[k], line)
    BY Zenon, <1>3, <2>2
  <2>7. ASSUME NEW line \in Lines, NEW k \in Hosts, Returns(c'[k], line)
        PROVE  /\ \A g \in Hosts : perm[g][line] # "T" /\ (g # k => ~Returns(c'[g], line))
               /\ \A i \in 1 .. Len(dev_a') : ~HostStores(dev_a'[i], line)
    <3>1. k # h /\ Returns(c[k], line)
      BY Zenon, <2>6, <2>7
    <3>2. /\ \A g \in Hosts : perm[g][line] # "T" /\ (g # k => ~Returns(c[g], line))
          /\ \A i \in 1 .. Len(dev_a) : ~HostStores(dev_a[i], line)
      BY Zenon, <3>1 DEF OneReturn
    <3>3. line # c[h].line
      BY Zenon, <2>3, <3>1
    <3> QED BY Zenon, <2>5, <2>6, <3>2, <3>3
  <2>8. ASSUME NEW line \in Lines, NEW i \in 1 .. Len(dev_a'), HostStores(dev_a'[i], line)
        PROVE  /\ \A g \in Hosts : perm[g][line] # "T"
               /\ \A j \in 1 .. Len(dev_a') : HostStores(dev_a'[j], line) => i = j
    <3>1. CASE i \in 1 .. Len(dev_a) /\ HostStores(dev_a[i], line)
      <4>1. /\ \A g \in Hosts : perm[g][line] # "T"
            /\ \A j \in 1 .. Len(dev_a) : HostStores(dev_a[j], line) => i = j
        BY Zenon, <3>1 DEF OneReturn
      <4>2. line # c[h].line
        BY Zenon, <2>3, <3>1
      <4> QED BY Zenon, <2>5, <4>1, <4>2
    <3>2. CASE i = Len(dev_a) + 1 /\ line = c[h].line
      BY Zenon, <2>3, <2>5, <3>2
    <3> QED BY Zenon, <2>5, <2>8, <3>1, <3>2
  <2> QED BY Zenon, <2>4, <2>7, <2>8 DEF OneReturn
<1>13. ASSUME NEW line \in Lines, Clean(line)' PROVE WillHave(dev_a', mem'[line], line, golden'[line])
  <2>1. CASE line = c[h].line
    BY Zenon, <1>1, <1>2, <1>4, <1>10, <2>1, WillHaveAppend DEF Stores
  <2>2. CASE line # c[h].line
    <3>1. Clean(line)
      BY Zenon, <1>1, <1>3, <1>13, <2>2 DEF Clean, Returns
    <3>2. WillHave(dev_a, mem[line], line, golden[line])
      BY Zenon, <3>1 DEF Current
    <3> QED BY Zenon, <1>1, <1>2, <1>4, <2>2, <3>2, WillHaveAppend DEF Stores
  <2> QED BY Zenon, <2>1, <2>2
<1>14. ASSUME NEW i \in 1 .. Len(dev_a'), Asks(dev_a'[i]), NEW k \in StoresIn(dev_a', dev_a'[i].line)
      PROVE  Ordered /\ k < i
  <2>1. i \in 1 .. Len(dev_a) /\ dev_a'[i] = dev_a[i]
    BY Zenon, <1>5, <1>6, <1>14
  <2>2. Granting /\ dev_a[i].line = req.line
    BY Zenon, <1>14, <2>1 DEF Granting, InFlight
  <2>3. c[h].line # req.line
    BY Zenon, <1>10, <2>2, Quiet
  <2>4. k \in 1 .. Len(dev_a) /\ k \in StoresIn(dev_a, dev_a[i].line)
    BY ZenonT(40), <1>2, <1>5, <2>1, <2>2, <2>3 DEF StoresIn, Stores
  <2> QED BY Zenon, <1>14, <2>1, <2>4 DEF Current
<1>15. Current'
  <2>1. \A k \in Hosts, line \in Lines : Returns(c[k], line)' => c'[k].value = golden[line]
    <3>1. \A k \in Hosts, line \in Lines : Returns(c[k], line)' => c'[k] = c[k] /\ Returns(c[k], line)
      BY Zenon, <1>3, Empty DEF Returns
    <3>2. \A k \in Hosts, line \in Lines : Returns(c[k], line) => c[k].value = golden[line]
      BY Zenon DEF Current
    <3> QED BY Zenon, <3>1, <3>2
  <2>2. perm' = perm /\ copy' = copy /\ dirty' = dirty /\ golden' = golden /\ d' = d /\ dev_d' = dev_d
    BY Zenon, <1>1
  <2>3. CopiesAreCurrent' /\ \A k \in Hosts, line \in Lines : dirty'[k][line] => perm'[k][line] = "T"
    <3>1. CopiesAreCurrent /\ \A k \in Hosts, line \in Lines : dirty[k][line] => perm[k][line] = "T"
      BY Zenon DEF Current
    <3>2. CopiesAreCurrent'
      BY Zenon, <2>2, <3>1 DEF CopiesAreCurrent
    <3> QED BY Zenon, <2>2, <3>1, <3>2
  <2>4. /\ Answers' => dev_d'.value = golden'[dev_d'.line]
        /\ \A g \in Agents : d'[g].kind = "GrantData" => d'[g].value = golden'[d'[g].line]
    BY Zenon, <1>7, <2>2 DEF Current
  <2>5. \A k \in Hosts, line \in Lines : Returns(c'[k], line) => c'[k].value = golden'[line]
    BY Zenon, <2>1, <2>2 DEF Returns
  <2>6. \A k \in Hosts, line \in Lines :
          (dirty'[k][line] => perm'[k][line] = "T") /\ (Returns(c'[k], line) => c'[k].value = golden'[line])
    BY Zenon, <2>3, <2>5
  <2>7. \A line \in Lines : Clean(line)' => WillHave(dev_a', mem'[line], line, golden'[line])
    BY Zenon, <1>13
  <2>8. \A i \in 1 .. Len(dev_a') : Asks(dev_a'[i]) => \A k \in StoresIn(dev_a', dev_a'[i].line) : Ordered /\ k < i
    BY Zenon, <1>14
  <2> QED BY Zenon, <2>3, <2>4, <2>6, <2>7, <2>8 DEF Current
<1> QED BY Zenon, <1>8, <1>9, <1>11, <1>12, <1>15

-----------------------------------------------------------------------------
(* The device *)

LEMMA ServeData ==
    ASSUME Inv, DataInv, KeepsOrder, NEW k \in 1 .. Len(dev_a), DevServe(k) PROVE DataInv'
<1> USE DEF Inv, DataInv
<1> DEFINE m == dev_a[k]
           Was(i) == IF i < k THEN i ELSE i + 1
<1>1. /\ (Ordered => k = 1) /\ dev_d = None /\ dev_a' = Without(dev_a, k)
      /\ dev_d' = [kind |-> IF m.kind = "Get" THEN "AccessAckData" ELSE "AccessAck", line |-> m.line,
                   source |-> m.source, xact |-> m.xact, value |-> IF m.kind = "Get" THEN mem[m.line] ELSE 0]
      /\ mem' = IF m.kind = "Get" THEN mem ELSE [mem EXCEPT ![m.line] = m.value]
      /\ UNCHANGED <<state, req, probe_pending, probe_param, a, b, c, d, perm, copy, dirty, asked, releasing, golden>>
  BY Zenon DEF DevServe, core, sequencer, hosts
<1>2. /\ m \in Held /\ dev_a \in Seq(Held) /\ Shape(m, req.line)
      /\ m.kind \in {"Get", "PutFullData"} /\ m.line \in Lines
  BY Zenon, MessageTypes DEF Shapes, Held
<1>3. /\ dev_d' # None /\ dev_d'.line = m.line /\ dev_d'.source = m.source /\ dev_d'.xact = m.xact
      /\ m.kind = "Get" => dev_d'.kind = "AccessAckData" /\ dev_d'.value = mem[m.line]
      /\ m.kind # "Get" => dev_d'.kind = "AccessAck"
  BY ZenonT(40), <1>1 DEF None
<1> HIDE DEF m
<1>4. /\ Len(dev_a') = Len(dev_a) - 1
      /\ \A i \in 1 .. Len(dev_a') : Was(i) \in 1 .. Len(dev_a) /\ Was(i) # k /\ dev_a'[i] = dev_a[Was(i)]
      /\ \A i, j \in 1 .. Len(dev_a') : (Was(i) = Was(j) => i = j) /\ (Was(i) < Was(j) => i < j)
  <2>1. Len(dev_a') = Len(dev_a) - 1 /\ \A i \in 1 .. Len(dev_a) - 1 : dev_a'[i] = dev_a[Was(i)]
    BY Zenon, <1>1, <1>2, WithoutType
  <2>2. /\ \A i \in 1 .. Len(dev_a) - 1 : Was(i) \in 1 .. Len(dev_a) /\ Was(i) # k
        /\ \A i, j \in 1 .. Len(dev_a) - 1 : (Was(i) = Was(j) => i = j) /\ (Was(i) < Was(j) => i < j)
    BY Zenon, <1>2, Positions
  <2> HIDE DEF Was
  <2> QED BY Zenon, <2>1, <2>2
<1> HIDE DEF Was
<1>5. Answers' => Asks(m)
  BY Zenon, <1>2, <1>3 DEF Answers, dropped, Asks, Cached, Shape, ProbeData
<1>6. Granting' => Granting
  <2>1. Asks(m) => Granting
    BY Zenon DEF Granting, m
  <2>2. (\E i \in 1 .. Len(dev_a') : Asks(dev_a'[i])) => Granting
    BY Zenon, <1>4 DEF Granting
  <2>3. (\E g \in Agents : Grants(g)') => Granting
    BY Zenon, <1>1 DEF Granting, Grants
  <2> QED BY Zenon, <1>5, <2>1, <2>2, <2>3 DEF Granting
<1>7. Requests' /\ HeldOff'
  BY Zenon, <1>1, <1>6, RequestsKept, HeldOffKept
<1>8. Shapes'
  <2>1. \A i \in 1 .. Len(dev_a') : Shape(dev_a'[i], req.line)
    BY Zenon, <1>4 DEF Shapes
  <2>2. dev_d'.xact = "uncached" => dev_d'.source = Dma
    BY ZenonT(40), <1>2, <1>3 DEF Shape
  <2> QED BY Zenon, <1>1, <2>1, <2>2 DEF Shapes
<1>9. OneRelease'
  <2>1. \A h \in Hosts : AckOf(dev_d', h) <=> ReleaseOf(m, h)
    BY ZenonT(40), <1>3 DEF AckOf, ReleaseOf
  <2>2. \A h \in Hosts, i \in 1 .. Len(dev_a') : ReleaseOf(dev_a'[i], h) =>
          ReleaseOf(dev_a[Was(i)], h) /\ Was(i) \in 1 .. Len(dev_a) /\ ~ReleaseOf(m, h)
    <3> SUFFICES ASSUME NEW h \in Hosts, NEW i \in 1 .. Len(dev_a'), ReleaseOf(dev_a'[i], h)
                 PROVE  ReleaseOf(dev_a[Was(i)], h) /\ Was(i) \in 1 .. Len(dev_a) /\ ~ReleaseOf(m, h)
      BY Zenon
    <3>1. ReleaseOf(dev_a[Was(i)], h) /\ Was(i) \in 1 .. Len(dev_a) /\ Was(i) # k
      BY Zenon, <1>4
    <3> QED BY Zenon, <3>1 DEF OneRelease, m
  <2>3. ASSUME NEW h \in Hosts, NEW i \in 1 .. Len(dev_a'), ReleaseOf(dev_a'[i], h)
       PROVE  /\ releasing[h] = OnLine(dev_a'[i].line) /\ ~Releases(c[h])
              /\ \A j \in 1 .. Len(dev_a') : ReleaseOf(dev_a'[j], h) => i = j
    <3>1. /\ releasing[h] = OnLine(dev_a[Was(i)].line) /\ ~Releases(c[h])
          /\ \A j \in 1 .. Len(dev_a) : ReleaseOf(dev_a[j], h) => Was(i) = j
      BY Zenon, <2>2, <2>3 DEF OneRelease
    <3> QED BY Zenon, <1>4, <2>2, <3>1
  <2>4. \A h \in Hosts : ReleaseOf(m, h) =>
          /\ releasing[h] # None /\ ~Releases(c[h]) /\ d[h].kind # "ReleaseAck"
          /\ \A i \in 1 .. Len(dev_a') : ~ReleaseOf(dev_a'[i], h)
    <3>1. \A h \in Hosts : ReleaseOf(m, h) => releasing[h] # None /\ ~Releases(c[h]) /\ d[h].kind # "ReleaseAck"
      BY ZenonT(40), OnLineInjective DEF OneRelease, m
    <3> QED BY Zenon, <2>2, <3>1
  <2>5. ASSUME NEW g \in Hosts
        PROVE  /\ Releases(c'[g]) => releasing'[g] = OnLine(c'[g].line)
               /\ AckOf(dev_d', g) => /\ releasing'[g] # None /\ ~Releases(c'[g])
                                      /\ \A i \in 1 .. Len(dev_a') : ~ReleaseOf(dev_a'[i], g)
               /\ d'[g].kind = "ReleaseAck" =>
                    /\ releasing'[g] # None /\ ~Releases(c'[g]) /\ ~AckOf(dev_d', g)
                    /\ \A i \in 1 .. Len(dev_a') : ~ReleaseOf(dev_a'[i], g)
    <3>1. releasing' = releasing /\ c' = c /\ d' = d
      BY Zenon, <1>1
    <3>2. Releases(c[g]) => releasing[g] = OnLine(c[g].line)
      BY Zenon DEF OneRelease
    <3>3. d[g].kind = "ReleaseAck" => /\ releasing[g] # None /\ ~Releases(c[g])
                                      /\ ~\E i \in 1 .. Len(dev_a) : ReleaseOf(dev_a[i], g)
      BY Zenon DEF OneRelease
    <3> QED BY Zenon, <2>1, <2>2, <2>4, <3>1, <3>2, <3>3
  <2>6. releasing' = releasing /\ c' = c
    BY Zenon, <1>1
  <2> QED BY Zenon, <2>3, <2>5, <2>6 DEF OneRelease
<1>10. OneReturn'
  <2>1. \A line \in Lines, i \in 1 .. Len(dev_a') : HostStores(dev_a'[i], line) =>
          Was(i) \in 1 .. Len(dev_a) /\ HostStores(dev_a[Was(i)], line)
    BY Zenon, <1>4
  <2>2. ASSUME NEW line \in Lines, NEW i \in 1 .. Len(dev_a'), HostStores(dev_a'[i], line)
       PROVE  /\ \A h \in Hosts : perm[h][line] # "T"
              /\ \A j \in 1 .. Len(dev_a') : HostStores(dev_a'[j], line) => i = j
    <3>1. /\ \A h \in Hosts : perm[h][line] # "T"
          /\ \A j \in 1 .. Len(dev_a) : HostStores(dev_a[j], line) => Was(i) = j
      BY Zenon, <2>1, <2>2 DEF OneReturn
    <3> QED BY Zenon, <1>4, <2>1, <3>1
  <2>3. c' = c /\ perm' = perm
    BY Zenon, <1>1
  <2>4. \A line \in Lines : \A h \in Hosts : Returns(c[h], line) =>
          /\ \A g \in Hosts : perm[g][line] # "T" /\ (g # h => ~Returns(c[g], line))
          /\ \A i \in 1 .. Len(dev_a') : ~HostStores(dev_a'[i], line)
    BY ZenonT(40), <2>1 DEF OneReturn
  <2> QED BY Zenon, <2>2, <2>3, <2>4 DEF OneReturn
<1>11. ASSUME NEW line \in Lines, Clean(line)' PROVE WillHave(dev_a', mem'[line], line, golden'[line])
  <2>1. WillHave(dev_a, mem[line], line, golden[line])
    BY Zenon, <1>1, <1>11 DEF Current, Clean
  <2>2. mem'[line] = IF Stores(m, line) THEN m.value ELSE mem[line]
    BY Zenon, <1>1, <1>2 DEF TypeOK, Stores
  <2>3. ASSUME Stores(m, line), NEW i \in StoresIn(dev_a, line) PROVE k <= i
    <3>1. CASE Ordered
      BY Zenon, <1>1, <1>2, <2>3, <3>1, Positions DEF StoresIn
    <3>2. CASE ~Ordered
      <4>1. "PutFullData" \notin DmaOps
        BY Zenon, <3>2 DEF KeepsOrder
      <4>2. i \in 1 .. Len(dev_a) /\ HostStores(dev_a[i], line) /\ HostStores(dev_a[k], line)
        BY Zenon, <2>3, <4>1 DEF StoresIn, Stores, HostStores, Shapes, Shape, m
      <4>3. i = k
        BY Zenon, <4>2 DEF OneReturn
      <4> QED BY Zenon, <1>2, <4>3, Positions
    <3> QED BY Zenon, <3>1, <3>2
  <2> QED BY Zenon, <1>1, <1>2, <2>1, <2>2, <2>3, WillHaveWithout DEF m
<1>12. Answers' => dev_d'.value = golden[dev_d'.line]
  <2> SUFFICES ASSUME Answers' PROVE dev_d'.value = golden[dev_d'.line]
    BY Zenon
  <2>1. Asks(dev_a[k]) /\ Granting /\ m.line = req.line
    BY Zenon, <1>5 DEF Granting, InFlight, m
  <2>2. m.kind = "Get"
    BY Zenon, <1>2, <1>5 DEF Asks, Cached, Shape, ProbeData
  <2>3. StoresIn(dev_a, m.line) = {}
    <3>1. ASSUME NEW i \in StoresIn(dev_a, m.line) PROVE FALSE
      <4>1. Ordered /\ i < k
        BY Zenon, <2>1 DEF Current, m
      <4>2. i \in 1 .. Len(dev_a)
        BY Zenon, <3>1 DEF StoresIn
      <4>3. ~(i < 1)
        BY Zenon, <1>2, <4>2, Positions
      <4> QED BY Zenon, <1>1, <4>1, <4>3
    <3> QED BY Zenon, <3>1
  <2>4. WillHave(dev_a, mem[m.line], m.line, golden[m.line])
    BY Zenon, <2>1, Quiet
  <2> QED BY Zenon, <1>3, <2>2, <2>3, <2>4 DEF WillHave
<1>13. ASSUME NEW i \in 1 .. Len(dev_a'), Asks(dev_a'[i]), NEW j \in StoresIn(dev_a', dev_a'[i].line)
      PROVE  Ordered /\ j < i
  <2>1. Asks(dev_a[Was(i)]) /\ Was(i) \in 1 .. Len(dev_a) /\ j \in 1 .. Len(dev_a')
    BY Zenon, <1>4, <1>13 DEF StoresIn
  <2>2. Was(j) \in StoresIn(dev_a, dev_a[Was(i)].line)
    BY Zenon, <1>4, <1>13 DEF StoresIn
  <2> QED BY Zenon, <1>4, <2>1, <2>2 DEF Current
<1>14. Current'
  <2>1. \A line \in Lines : Clean(line)' = Clean(line)
    BY Zenon, <1>1 DEF Clean
  <2> QED BY Zenon, <1>1, <1>11, <1>12, <1>13, <2>1 DEF Current, CopiesAreCurrent
<1> QED BY Zenon, <1>7, <1>8, <1>9, <1>10, <1>14
===============================================================================
