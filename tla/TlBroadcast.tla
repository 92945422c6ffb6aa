---------------------------- MODULE TlBroadcast ----------------------------
(***************************************************************************)
(* ip/tl/rtl/tl_broadcast.sv: the hub that keeps the hosts' caches         *)
(* coherent without a directory.  It serves one request at a time and      *)
(* probes every host but the one that asks.                                *)
(*                                                                         *)
(* Each handshake is an action of its own.  A burst is one message, a      *)
(* channel has one slot per host (the links of tl_socket_m1, which picks   *)
(* among them in turn), and a line holds one value.                        *)
(*                                                                         *)
(* The environment is the hosts, a client that only reads and writes (Dma) *)
(* and the device below.  A device that is not Ordered serves the requests *)
(* it holds in any order, as tl_axi_adapter does with reads and writes.    *)
(* golden is the latest value written to a line: by a host in its cache,   *)
(* by Dma when the hub passes the write on.                                *)
(***************************************************************************)
EXTENDS TileLink, Integers, Sequences, FiniteSets

CONSTANTS NumHosts, Lines, NumValues,
          HostOps,   \* the Acquire messages that the hosts send
          DmaOps,    \* the requests that Dma sends
          DevDepth,  \* requests that the device holds
          Ordered    \* the device serves them in the order they came

ASSUME BroadcastAssumption ==
    /\ NumHosts \in Nat \ {0} /\ NumValues \in Nat \ {0} /\ DevDepth \in Nat \ {0}
    /\ Ordered \in BOOLEAN /\ HostOps \subseteq {"AcquireBlock", "AcquirePerm"}
    /\ DmaOps \subseteq {"Get", "PutFullData"} /\ Lines # {}

Hosts == 0 .. NumHosts - 1
Dma == NumHosts
Agents == Hosts \cup {Dma}
Values == 0 .. NumValues - 1
None == [kind |-> "none"]
NoLine == CHOOSE line \in Lines : TRUE

VARIABLES
    state,              \* of the hub: Idle, Inv, Req, Grant or Wait
    req,                \* opcode_q, address_q, source_q and xact_type_q
    probe_ack_pending, ack_done, grant_done,
    probe_pending, probe_param,
    a, b, c, d, e,      \* the host channels
    dev_a, dev_d,       \* the device: requests it holds, and its answer
    perm, copy, dirty,  \* of each host and line
    asked, releasing,   \* requests and releases not yet answered
    mem, golden

core == <<state, req, probe_ack_pending, ack_done, grant_done>>
sequencer == <<probe_pending, probe_param>>
hosts == <<perm, copy, dirty, asked, releasing>>
vars == <<core, sequencer, a, b, c, d, e, dev_a, dev_d, hosts, mem, golden>>

Put(slots, agent, message) == [slots EXCEPT ![agent] = message]
Clear(slots, agent) == [slots EXCEPT ![agent] = None]
Forward(message) == Len(dev_a) < DevDepth /\ dev_a' = Append(dev_a, message)

-----------------------------------------------------------------------------
(* Requests: StateIdle, StateInv, StateReq, StateGrant and StateWait *)

xact_type(m) == IF m.kind \notin {"AcquireBlock", "AcquirePerm"} THEN "uncached"
                ELSE IF m.param = "NtoB" THEN "toB" ELSE "toT"

cap_of_PutShared(m) == IF xact_type(m) # "toT" THEN "toB" ELSE "toN"
cap_of(m) == IF m.kind = "Get" \/ xact_type(m) = "toB" THEN "toB" ELSE "toN"

HubAccept_CountLess(g) ==
    /\ state = "Idle" /\ a[g] # None
    /\ req' = [op |-> a[g].kind, line |-> a[g].line, source |-> g, xact |-> xact_type(a[g])]
    /\ ack_done' = (xact_type(a[g]) = "uncached") /\ grant_done' = FALSE
    /\ probe_pending' = Hosts \ {g} /\ probe_param' = cap_of(a[g])
    /\ probe_ack_pending' = NumHosts - 1
    /\ state' = "Inv"
    /\ UNCHANGED <<a, b, c, d, e, dev_a, dev_d, hosts, mem, golden>>

HubAccept_SilentGet(g) ==
    /\ state = "Idle" /\ a[g] # None
    /\ req' = [op |-> a[g].kind, line |-> a[g].line, source |-> g, xact |-> xact_type(a[g])]
    /\ ack_done' = (xact_type(a[g]) = "uncached") /\ grant_done' = FALSE
    /\ probe_pending' = (IF a[g].kind = "Get" THEN {} ELSE Hosts \ {g}) /\ probe_param' = cap_of(a[g])
    /\ probe_ack_pending' = IF a[g].kind = "Get" THEN 0 ELSE Cardinality(Hosts \ {g})
    /\ state' = "Inv"
    /\ UNCHANGED <<a, b, c, d, e, dev_a, dev_d, hosts, mem, golden>>

HubAccept_LowestFirst(g) ==
    /\ \A k \in Agents : k < g => a[k] = None
    /\ state = "Idle" /\ a[g] # None
    /\ req' = [op |-> a[g].kind, line |-> a[g].line, source |-> g, xact |-> xact_type(a[g])]
    /\ ack_done' = (xact_type(a[g]) = "uncached") /\ grant_done' = FALSE
    /\ probe_pending' = Hosts \ {g} /\ probe_param' = cap_of(a[g])
    /\ probe_ack_pending' = IF g \in Hosts THEN NumHosts - 1 ELSE NumHosts
    /\ state' = "Inv"
    /\ UNCHANGED <<a, b, c, d, e, dev_a, dev_d, hosts, mem, golden>>

\* The request stays on channel A until it is passed on or granted.
HubAccept(g) ==
    /\ state = "Idle" /\ a[g] # None
    /\ req' = [op |-> a[g].kind, line |-> a[g].line, source |-> g, xact |-> xact_type(a[g])]
    /\ ack_done' = (xact_type(a[g]) = "uncached") /\ grant_done' = FALSE
    /\ probe_pending' = Hosts \ {g} /\ probe_param' = cap_of(a[g])
    /\ probe_ack_pending' = IF g \in Hosts THEN NumHosts - 1 ELSE NumHosts
    /\ state' = "Inv"
    /\ UNCHANGED <<a, b, c, d, e, dev_a, dev_d, hosts, mem, golden>>

HubAllAcked ==
    /\ state = "Inv" /\ probe_ack_pending = 0
    /\ state' = IF req.op = "AcquirePerm" THEN "Grant" ELSE "Req"
    /\ UNCHANGED <<req, probe_ack_pending, ack_done, grant_done, sequencer, a, b, c, d, e, dev_a, dev_d,
                   hosts, mem, golden>>

HubRequest_NoWait ==
    /\ state = "Req"
    /\ Forward([kind |-> IF req.xact = "uncached" THEN req.op ELSE "Get", line |-> req.line,
                source |-> req.source, xact |-> req.xact, value |-> a[req.source].value])
    /\ a' = Clear(a, req.source)
    /\ state' = "Idle"
    /\ golden' = IF req.op = "PutFullData" THEN [golden EXCEPT ![req.line] = a[req.source].value] ELSE golden
    /\ UNCHANGED <<req, probe_ack_pending, ack_done, grant_done, sequencer, b, c, d, e, dev_d, hosts, mem>>

HubRequest ==
    /\ state = "Req"
    /\ Forward([kind |-> IF req.xact = "uncached" THEN req.op ELSE "Get", line |-> req.line,
                source |-> req.source, xact |-> req.xact, value |-> a[req.source].value])
    /\ a' = Clear(a, req.source)
    /\ state' = IF req.op = "AcquireBlock" THEN "Wait" ELSE "Idle"
    /\ golden' = IF req.op = "PutFullData" THEN [golden EXCEPT ![req.line] = a[req.source].value] ELSE golden
    /\ UNCHANGED <<req, probe_ack_pending, ack_done, grant_done, sequencer, b, c, d, e, dev_d, hosts, mem>>

HubGrant ==
    /\ state = "Grant" /\ d[req.source] = None
    /\ d' = Put(d, req.source, [kind |-> "Grant", line |-> req.line, param |-> req.xact, value |-> 0])
    /\ a' = Clear(a, req.source)
    /\ grant_done' = TRUE /\ state' = "Wait"
    /\ UNCHANGED <<req, probe_ack_pending, ack_done, sequencer, b, c, e, dev_a, dev_d, hosts, mem, golden>>

HubFinished ==
    /\ state = "Wait" /\ ack_done /\ grant_done /\ state' = "Idle"
    /\ UNCHANGED <<req, probe_ack_pending, ack_done, grant_done, sequencer, a, b, c, d, e, dev_a, dev_d,
                   hosts, mem, golden>>

-----------------------------------------------------------------------------
(* The probe sequencer, and the handlers of channels C, D (below) and E *)

HubProbe(h) ==
    /\ h \in probe_pending /\ (\A k \in probe_pending : k <= h) /\ b[h] = None
    /\ b' = Put(b, h, [kind |-> "ProbeBlock", line |-> req.line, param |-> probe_param])
    /\ probe_pending' = probe_pending \ {h}
    /\ UNCHANGED <<core, probe_param, a, c, d, e, dev_a, dev_d, hosts, mem, golden>>

\* probe_ack_complete and probe_ack_data_complete are counted in StateInv only.
CountAck == probe_ack_pending' = IF state = "Inv" THEN probe_ack_pending - 1 ELSE probe_ack_pending

HubTakeC_Unwritten(h) ==
    /\ c[h] # None /\ c' = Clear(c, h)
    /\ CASE c[h].kind = "ProbeAck" -> CountAck /\ UNCHANGED <<d, dev_a>>
         [] c[h].kind = "ProbeAckData" ->
              /\ Forward([kind |-> "PutFullData", line |-> c[h].line, source |-> req.source,
                          xact |-> "toT", value |-> c[h].value])
              /\ CountAck /\ UNCHANGED d
         [] c[h].kind = "Release" ->
              /\ d[h] = None /\ d' = Put(d, h, [kind |-> "ReleaseAck"])
              /\ UNCHANGED <<probe_ack_pending, dev_a>>
         [] c[h].kind = "ReleaseData" ->
              /\ Forward([kind |-> "PutFullData", line |-> c[h].line, source |-> h,
                          xact |-> "release", value |-> c[h].value])
              /\ UNCHANGED <<probe_ack_pending, d>>
    /\ UNCHANGED <<state, req, ack_done, grant_done, sequencer, a, b, e, dev_d, hosts, mem, golden>>

HubTakeC(h) ==
    /\ c[h] # None /\ c' = Clear(c, h)
    /\ CASE c[h].kind = "ProbeAck" -> CountAck /\ UNCHANGED <<d, dev_a>>
         [] c[h].kind = "ProbeAckData" ->
              /\ Forward([kind |-> "PutFullData", line |-> c[h].line, source |-> req.source,
                          xact |-> "toT", value |-> c[h].value])
              /\ UNCHANGED <<probe_ack_pending, d>>
         [] c[h].kind = "Release" ->
              /\ d[h] = None /\ d' = Put(d, h, [kind |-> "ReleaseAck"])
              /\ UNCHANGED <<probe_ack_pending, dev_a>>
         [] c[h].kind = "ReleaseData" ->
              /\ Forward([kind |-> "PutFullData", line |-> c[h].line, source |-> h,
                          xact |-> "release", value |-> c[h].value])
              /\ UNCHANGED <<probe_ack_pending, d>>
    /\ UNCHANGED <<state, req, ack_done, grant_done, sequencer, a, b, e, dev_d, hosts, mem, golden>>

\* XACT_PROBE_ACK_DATA and XACT_ACQUIRE_TO_T have the same code.
dropped == dev_d.xact = "toT" /\ dev_d.kind = "AccessAck"
grant_complete == ~dropped /\ dev_d.xact # "release"

HubTakeDevD ==
    /\ dev_d # None /\ dev_d' = None
    /\ IF dropped THEN CountAck /\ UNCHANGED d
       ELSE /\ d[dev_d.source] = None
            /\ d' = Put(d, dev_d.source,
                        IF dev_d.xact = "release" THEN [kind |-> "ReleaseAck"]
                        ELSE [kind |-> IF dev_d.xact = "uncached" THEN dev_d.kind ELSE "GrantData",
                              line |-> dev_d.line, param |-> dev_d.xact, value |-> dev_d.value])
            /\ UNCHANGED probe_ack_pending
    /\ grant_done' = (grant_done \/ grant_complete)
    /\ UNCHANGED <<state, req, ack_done, sequencer, a, b, c, e, dev_a, hosts, mem, golden>>

\* grant_complete does not wait for the host to take the last beat.
HubSeesGrant ==
    /\ dev_d # None /\ grant_complete /\ ~grant_done /\ grant_done' = TRUE
    /\ UNCHANGED <<state, req, probe_ack_pending, ack_done, sequencer, a, b, c, d, e, dev_a, dev_d, hosts, mem,
                   golden>>

HubTakeE(h) ==
    /\ h \in e /\ e' = e \ {h} /\ ack_done' = TRUE
    /\ UNCHANGED <<state, req, probe_ack_pending, grant_done, sequencer, a, b, c, d, dev_a, dev_d, hosts, mem,
                   golden>>

Hub == \/ \E g \in Agents : HubAccept(g)
       \/ HubAllAcked \/ HubRequest \/ HubGrant \/ HubFinished \/ HubTakeDevD \/ HubSeesGrant
       \/ \E h \in Hosts : HubProbe(h) \/ HubTakeC(h) \/ HubTakeE(h)

-----------------------------------------------------------------------------
(* The device below *)

Without(s, k) == [i \in 1 .. Len(s) - 1 |-> IF i < k THEN s[i] ELSE s[i + 1]]

DevServe(k) ==
    /\ k \in 1 .. Len(dev_a) /\ (Ordered => k = 1) /\ dev_d = None
    /\ dev_a' = Without(dev_a, k)
    /\ LET m == dev_a[k]
       IN  /\ dev_d' = [kind |-> IF m.kind = "Get" THEN "AccessAckData" ELSE "AccessAck", line |-> m.line,
                        source |-> m.source, xact |-> m.xact,
                        value |-> IF m.kind = "Get" THEN mem[m.line] ELSE 0]
           /\ mem' = IF m.kind = "Get" THEN mem ELSE [mem EXCEPT ![m.line] = m.value]
    /\ UNCHANGED <<core, sequencer, a, b, c, d, e, hosts, golden>>

-----------------------------------------------------------------------------
(* The hosts.  A host writes a line it has for writing, drops a read-only   *)
(* line silently, releases a writable one, and neither answers a probe nor  *)
(* asks for the line again while a release of its own is on the way.  It    *)
(* sends AcquirePerm for a line that it is about to overwrite.              *)

OnLine(line) == [kind |-> "line", line |-> line]

Ask(g, op, line, grow, value) ==
    /\ asked[g] = None
    /\ a' = Put(a, g, [kind |-> op, line |-> line, param |-> grow, value |-> value])
    /\ asked' = Put(asked, g, OnLine(line))
    /\ UNCHANGED <<core, sequencer, b, c, d, e, dev_a, dev_d, perm, copy, dirty, releasing, mem, golden>>

HostAcquire(h, op, line, grow) ==
    /\ releasing[h] # OnLine(line) /\ perm[h][line] = (IF grow = "BtoT" THEN "B" ELSE "N")
    /\ op = "AcquirePerm" => grow # "NtoB"
    /\ Ask(h, op, line, grow, 0)

DmaAsk(op, line, value) == (op = "Get" => value = 0) /\ Ask(Dma, op, line, "NtoB", value)

\* Give up a line down to permission p.
Shrink(h, line, p) ==
    /\ perm' = [perm EXCEPT ![h][line] = p]
    /\ dirty' = [dirty EXCEPT ![h][line] = FALSE]
    /\ copy' = IF p = "N" THEN [copy EXCEPT ![h][line] = 0] ELSE copy

HostDrop(h, line) ==
    /\ perm[h][line] = "B" /\ Shrink(h, line, "N")
    /\ UNCHANGED <<core, sequencer, a, b, c, d, e, dev_a, dev_d, asked, releasing, mem, golden>>

HostRelease(h, line) ==
    /\ perm[h][line] = "T" /\ c[h] = None /\ releasing[h] = None
    /\ c' = Put(c, h, [kind |-> IF dirty[h][line] THEN "ReleaseData" ELSE "Release", line |-> line,
                       value |-> copy[h][line]])
    /\ releasing' = Put(releasing, h, OnLine(line)) /\ Shrink(h, line, "N")
    /\ UNCHANGED <<core, sequencer, a, b, d, e, dev_a, dev_d, asked, mem, golden>>

Write(h, line, value) ==
    /\ copy' = [copy EXCEPT ![h][line] = value] /\ dirty' = [dirty EXCEPT ![h][line] = TRUE]
    /\ golden' = [golden EXCEPT ![line] = value]

HostWrite(h, line, value) ==
    /\ perm[h][line] = "T" /\ value # copy[h][line] /\ Write(h, line, value)
    /\ UNCHANGED <<core, sequencer, a, b, c, d, e, dev_a, dev_d, perm, asked, releasing, mem>>

HostProbeAck(h) ==
    /\ b[h] # None /\ c[h] = None /\ releasing[h] = None /\ b' = Clear(b, h)
    /\ LET line == b[h].line
       IN  /\ c' = Put(c, h, [kind |-> IF dirty[h][line] THEN "ProbeAckData" ELSE "ProbeAck", line |-> line,
                              value |-> copy[h][line]])
           /\ Shrink(h, line, IF perm[h][line] = "N" \/ b[h].param = "toN" THEN "N" ELSE "B")
    /\ UNCHANGED <<core, sequencer, a, d, e, dev_a, dev_d, asked, releasing, mem, golden>>

\* A Grant answers AcquirePerm: the host overwrites the line as it takes it.
HostTakeGrant(h, value) ==
    /\ d[h].kind \in {"Grant", "GrantData"} /\ d' = Clear(d, h) /\ e' = e \cup {h}
    /\ perm' = [perm EXCEPT ![h][d[h].line] = CapPerm(d[h].param)]
    /\ asked' = Clear(asked, h)
    /\ IF d[h].kind = "Grant" THEN Write(h, d[h].line, value)
       ELSE copy' = [copy EXCEPT ![h][d[h].line] = d[h].value] /\ UNCHANGED <<dirty, golden>>
    /\ UNCHANGED <<core, sequencer, a, b, c, dev_a, dev_d, releasing, mem>>

AgentTakeD(g) ==
    /\ d[g].kind \in {"ReleaseAck", "AccessAck", "AccessAckData"} /\ d' = Clear(d, g)
    /\ IF d[g].kind = "ReleaseAck" THEN releasing' = Clear(releasing, g) /\ UNCHANGED asked
       ELSE asked' = Clear(asked, g) /\ UNCHANGED releasing
    /\ UNCHANGED <<core, sequencer, a, b, c, e, dev_a, dev_d, perm, copy, dirty, mem, golden>>

Env == \/ \E k \in 1 .. DevDepth : DevServe(k)
       \/ \E h \in Hosts, op \in HostOps, line \in Lines, grow \in GrowParams : HostAcquire(h, op, line, grow)
       \/ \E op \in DmaOps, line \in Lines, value \in Values : DmaAsk(op, line, value)
       \/ \E h \in Hosts, line \in Lines : HostDrop(h, line) \/ HostRelease(h, line)
       \/ \E h \in Hosts, line \in Lines, value \in Values : HostWrite(h, line, value)
       \/ \E h \in Hosts : HostProbeAck(h) \/ \E value \in Values : HostTakeGrant(h, value)
       \/ \E g \in Agents : AgentTakeD(g)

-----------------------------------------------------------------------------
\* ack_done, grant_done and the request registers are undefined after reset
\* and written before they are read.
Init ==
    /\ state = "Idle" /\ req = [op |-> "Get", line |-> NoLine, source |-> Dma, xact |-> "uncached"]
    /\ probe_ack_pending = 0 /\ ack_done = FALSE /\ grant_done = FALSE
    /\ probe_pending = {} /\ probe_param = "toN"
    /\ a = [g \in Agents |-> None] /\ b = [h \in Hosts |-> None] /\ c = [h \in Hosts |-> None]
    /\ d = [g \in Agents |-> None] /\ e = {}
    /\ dev_a = <<>> /\ dev_d = None
    /\ perm = [h \in Hosts |-> [line \in Lines |-> "N"]]
    /\ copy = [h \in Hosts |-> [line \in Lines |-> 0]]
    /\ dirty = [h \in Hosts |-> [line \in Lines |-> FALSE]]
    /\ asked = [g \in Agents |-> None] /\ releasing = [h \in Hosts |-> None]
    /\ mem = [line \in Lines |-> 0] /\ golden = mem

Next == Hub \/ Env

Spec == Init /\ [][Next]_vars

\* The clock runs, the device answers every request in the end, in whatever
\* order it serves them, and the hosts take what is offered and
\* answer probes.  tl_socket_m1 and the hub's own arbiters are round-robin, so
\* an agent that wants a shared channel again and again gets it.
Fairness ==
    /\ WF_vars(HubAllAcked) /\ SF_vars(HubRequest) /\ WF_vars(HubGrant) /\ WF_vars(HubFinished)
    /\ WF_vars(HubTakeDevD) /\ SF_vars(DevServe(1))
    /\ \A g \in Agents : SF_vars(HubAccept(g)) /\ WF_vars(AgentTakeD(g))
    /\ \A h \in Hosts :
         /\ WF_vars(HubProbe(h)) /\ SF_vars(HubTakeC(h)) /\ WF_vars(HubTakeE(h))
         /\ WF_vars(HostProbeAck(h)) /\ WF_vars(\E value \in Values : HostTakeGrant(h, value))

FairSpec == Spec /\ Fairness

-----------------------------------------------------------------------------
(* Properties *)

Slot(M) == M \cup {[kind |-> "none"]}
OnLines == [kind : {"line"}, line : Lines]
XactTypes == {"toT", "toB", "release", "uncached"}

\* Every register of the hub, channel and host holds a value of its type; in
\* particular the counter of awaited ProbeAcks never wraps below zero.
TypeOK ==
    /\ state \in {"Idle", "Inv", "Req", "Grant", "Wait"}
    /\ req \in [op : {"AcquireBlock", "AcquirePerm", "Get", "PutFullData"}, line : Lines, source : Agents,
                xact : XactTypes]
    /\ probe_ack_pending \in 0 .. NumHosts /\ ack_done \in BOOLEAN /\ grant_done \in BOOLEAN
    /\ probe_pending \subseteq Hosts /\ probe_param \in CapParams
    /\ a \in [Agents -> Slot([kind : {"AcquireBlock", "AcquirePerm", "Get", "PutFullData"}, line : Lines,
                              param : GrowParams, value : Values])]
    /\ b \in [Hosts -> Slot([kind : {"ProbeBlock"}, line : Lines, param : CapParams])]
    /\ c \in [Hosts -> Slot([kind : COpcodes, line : Lines, value : Values])]
    /\ d \in [Agents -> Slot({[kind |-> "ReleaseAck"]}
                \cup [kind : {"Grant", "GrantData", "AccessAck", "AccessAckData"}, line : Lines,
                      param : XactTypes, value : Values])]
    /\ e \subseteq Hosts
    /\ dev_a \in Seq([kind : {"Get", "PutFullData"}, line : Lines, source : Agents, xact : XactTypes,
                      value : Values])
    /\ dev_d \in Slot([kind : {"AccessAck", "AccessAckData"}, line : Lines, source : Agents, xact : XactTypes,
                       value : Values])
    /\ perm \in [Hosts -> [Lines -> Perms]] /\ copy \in [Hosts -> [Lines -> Values]]
    /\ dirty \in [Hosts -> [Lines -> BOOLEAN]]
    /\ asked \in [Agents -> Slot(OnLines)] /\ releasing \in [Hosts -> Slot(OnLines)]
    /\ mem \in [Lines -> Values] /\ golden \in [Lines -> Values]

\* A host that may write a line is the only one that has it.
SingleWriter ==
    \A line \in Lines, h, k \in Hosts : perm[h][line] = "T" /\ h # k => perm[k][line] = "N"

\* The copy that a host may read is the latest value written, by whomever.
CopiesAreCurrent ==
    \A line \in Lines, h \in Hosts : perm[h][line] # "N" => copy[h][line] = golden[line]

Writes(line) == {k \in DOMAIN dev_a : dev_a[k].kind = "PutFullData" /\ dev_a[k].line = line}

\* What the device has for a line once it has served what it holds.
DeviceValue(line) ==
    IF Writes(line) = {} THEN mem[line]
    ELSE dev_a[CHOOSE k \in Writes(line) : \A i \in Writes(line) : i <= k].value

\* When the hub passes a read on, of a host or of Dma, it will return the latest
\* value from a device that keeps order: the owner's dirty copy was written
\* first.
ReadsAreCurrent ==
    [][HubRequest /\ dev_a'[Len(dev_a')].kind = "Get"
         => DeviceValue(req.line) = golden[req.line]]_vars

ProbeData(m) == m.kind = "PutFullData" /\ m.xact = "toT"
Unanswered == probe_pending \cup {h \in Hosts : b[h] # None \/ c[h].kind \in {"ProbeAck", "ProbeAckData"}}
Unwritten == Cardinality({k \in DOMAIN dev_a : ProbeData(dev_a[k])})
             + (IF dev_d # None /\ dropped THEN 1 ELSE 0)

\* The counter is exactly the number of probes whose answer, or whose dirty
\* data's write, is still on the way; there are none outside StateInv, so the
\* sequencer (whose ready signal the hub ignores) is never loaded too early.
ProbesAccounted ==
    Cardinality(Unanswered) + Unwritten = IF state = "Inv" THEN probe_ack_pending ELSE 0

\* Every request is answered.  So is every Release: the host that waits for it
\* answers no probe, and the next request of another host waits for that.
RequestsAnswered == \A g \in Agents : asked[g].kind = "line" ~> asked[g].kind = "none"

=============================================================================
