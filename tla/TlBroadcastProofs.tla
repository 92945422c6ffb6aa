--------------------------- MODULE TlBroadcastProofs --------------------------
(***************************************************************************)
(* For any number of hosts, lines and values, and whatever order the device *)
(* serves its requests in, the hub counts every probe and there is never a  *)
(* second writer; and every copy is current and every read returns the latest*)
(* value, if the device keeps its requests in order, or nobody but the hosts*)
(* writes.                                                                  *)
(*                                                                          *)
(* The argument: the hub leaves StateInv only when its counter is zero; the *)
(* counter is the number of probes not yet accounted for, so every other host*)
(* has then given the line up (ProbesAccounted, Places, Probed).  No host   *)
(* regains it before the GrantAck, since the only grant on its way is that of*)
(* the request being served (Kinds, InFlight, OneGrant).                    *)
(***************************************************************************)
EXTENDS TlBroadcastSteps, FiniteSetTheorems

(* What a host has *)

\* A host gives a line up, in part or all of it; dirty data goes with it.
LEMMA ShrinkFacts ==
    ASSUME TypeOK, NEW h \in Hosts, NEW line \in Lines, NEW p, Shrink(h, line, p)
    PROVE  /\ perm'[h][line] = p /\ ~dirty'[h][line] /\ (p # "N" => copy'[h][line] = copy[h][line])
           /\ \A k \in Hosts, l \in Lines : k # h \/ l # line =>
                perm'[k][l] = perm[k][l] /\ dirty'[k][l] = dirty[k][l] /\ copy'[k][l] = copy[k][l]
<1>1. perm'[h][line] = p /\ \A k \in Hosts, l \in Lines : k # h \/ l # line => perm'[k][l] = perm[k][l]
  BY Zenon DEF Shrink, TypeOK
<1>2. ~dirty'[h][line] /\ \A k \in Hosts, l \in Lines : k # h \/ l # line => dirty'[k][l] = dirty[k][l]
  BY Zenon DEF Shrink, TypeOK
<1>3. /\ p # "N" => copy'[h][line] = copy[h][line]
      /\ \A k \in Hosts, l \in Lines : k # h \/ l # line => copy'[k][l] = copy[k][l]
  BY Zenon DEF Shrink, TypeOK
<1> QED BY Zenon, <1>1, <1>2, <1>3

LEMMA DropData ==
    ASSUME Inv, DataInv, NEW h \in Hosts, NEW line \in Lines, HostDrop(h, line) PROVE DataInv'
<1> USE DEF Inv, DataInv
<1>1. /\ perm[h][line] = "B" /\ Shrink(h, line, "N")
      /\ UNCHANGED <<state, req, probe_pending, probe_param, a, b, c, d, dev_a, dev_d, asked, releasing, mem, golden>>
  BY Zenon DEF HostDrop, core, sequencer
<1>2. /\ perm'[h][line] = "N"
      /\ \A k \in Hosts, l \in Lines : k # h \/ l # line => perm'[k][l] = perm[k][l] /\ copy'[k][l] = copy[k][l]
      /\ \A k \in Hosts, l \in Lines : dirty'[k][l] <=> dirty[k][l]
  <2>1. ~dirty[h][line]
    BY Zenon, <1>1 DEF Current
  <2> QED BY <1>1, <2>1, ShrinkFacts
<1>3. Granting' = Granting
  BY Zenon, <1>1, GrantingLeft
<1>4. Requests'
  BY <1>1, <1>2, <1>3 DEF Requests
<1>5. HeldOff'
  BY <1>1, <1>2, <1>3 DEF HeldOff
<1>6. OneReturn'
  BY <1>1, <1>2 DEF OneReturn
<1>7. Current'
  <2>2. \A l \in Lines : Clean(l)' = Clean(l)
    BY Zenon, <1>1, <1>2 DEF Clean
  <2>3. Answers' = Answers
    BY Zenon, <1>1 DEF Answers, dropped
  <2>4. CopiesAreCurrent' /\ \A k \in Hosts, l \in Lines : dirty'[k][l] => perm'[k][l] = "T"
    BY <1>1, <1>2 DEF Current, CopiesAreCurrent
  <2> QED BY Zenon, <1>1, <2>2, <2>3, <2>4 DEF Current
<1> QED BY Zenon, <1>1, <1>4, <1>5, <1>6, <1>7, ShapesLeft, ReleaseLeft

\* A host that has a line for writing: nothing of the line is on its way.
LEMMA Owned ==
    ASSUME Inv, DataInv, NEW h \in Hosts, NEW line \in Lines, perm[h][line] = "T"
    PROVE  /\ \A k \in Hosts : /\ k # h => perm[k][line] = "N" /\ ~dirty[k][line]
                               /\ ~Returns(c[k], line) /\ releasing[k] # OnLine(line)
           /\ \A i \in 1 .. Len(dev_a) : ~HostStores(dev_a[i], line)
           /\ Granting => line # req.line
<1> USE DEF Inv, DataInv
<1>1. \A k \in Hosts : k # h => perm[k][line] = "N" /\ ~dirty[k][line]
  BY DEF SingleWriter, Current
<1>2. \A k \in Hosts : ~Returns(c[k], line) /\ releasing[k] # OnLine(line)
  BY Zenon DEF OneReturn, HeldOff
<1>3. \A i \in 1 .. Len(dev_a) : ~HostStores(dev_a[i], line)
  BY Zenon DEF OneReturn
<1> QED BY Zenon, <1>1, <1>2, <1>3, Quiet

\* The rest of the invariant when a host gives up a line that it puts on channel C
\* if it is dirty.
LEMMA GiveUpData ==
    ASSUME Inv, DataInv, NEW h \in Hosts, NEW line \in Lines, NEW p \in {"N", "B"}, Shrink(h, line, p),
           perm[h][line] = "N" => p = "N",
           c[h] = None, c'[h].value = copy[h][line], c'[h].line = line,
           c'[h].kind \in {"ProbeAckData", "ReleaseData"} <=> dirty[h][line],
           \A k \in Hosts : k # h => c'[k] = c[k],
           UNCHANGED <<d, dev_a, dev_d, mem, golden>>
    PROVE  OneReturn' /\ Current'
<1> USE DEF Inv, DataInv
<1>1. /\ perm'[h][line] = p /\ ~dirty'[h][line] /\ (p # "N" => copy'[h][line] = copy[h][line])
      /\ \A k \in Hosts, l \in Lines : k # h \/ l # line =>
           perm'[k][l] = perm[k][l] /\ dirty'[k][l] = dirty[k][l] /\ copy'[k][l] = copy[k][l]
  BY ShrinkFacts
<1>2. \A l : Returns(c'[h], l) <=> l = line /\ dirty[h][line]
  BY Zenon DEF Returns
<1>3. dirty[h][line] => perm[h][line] = "T"
  BY Zenon DEF Current
<1>4. \A k \in Hosts, l \in Lines : perm'[k][l] = "T" => perm[k][l] = "T"
  BY Zenon, <1>1
<1>5. OneReturn'
  <2>1. ASSUME NEW l \in Lines, NEW k \in Hosts, Returns(c'[k], l)
       PROVE  /\ \A j \in Hosts : perm'[j][l] # "T" /\ (j # k => ~Returns(c'[j], l))
              /\ \A i \in 1 .. Len(dev_a) : ~HostStores(dev_a[i], l)
    <3>1. CASE k = h
      <4>1. l = line /\ perm[h][line] = "T"
        BY Zenon, <1>2, <1>3, <2>1, <3>1
      <4> QED BY <1>1, <3>1, <4>1, Owned
    <3>2. CASE k # h
      <4>1. Returns(c[k], l)
        BY Zenon, <2>1, <3>2
      <4>2. ~Returns(c'[h], l)
        BY ZenonT(40), <1>2, <1>3, <4>1 DEF OneReturn
      <4> QED BY ZenonT(40), <1>4, <4>1, <4>2 DEF OneReturn
    <3> QED BY Zenon, <3>1, <3>2
  <2> QED BY ZenonT(40), <1>4, <2>1 DEF OneReturn
<1>6. Current'
  <2>1. CopiesAreCurrent'
    BY <1>1 DEF Current, CopiesAreCurrent
  <2>2. \A k \in Hosts, l \in Lines : dirty'[k][l] => perm'[k][l] = "T"
    BY <1>1 DEF Current
  <2>3. \A k \in Hosts, l \in Lines : Returns(c'[k], l) => c'[k].value = golden[l]
    <3>1. dirty[h][line] => copy[h][line] = golden[line]
      BY Zenon, <1>3 DEF Current, CopiesAreCurrent
    <3> QED BY <1>2, <3>1 DEF Current
  <2>4. ASSUME NEW l \in Lines, Clean(l)' PROVE Clean(l)
    <3>1. \A l2 : ~Returns(c[h], l2)
      BY Zenon, Empty DEF Returns
    <3> QED BY Zenon, <1>1, <1>2, <2>4, <3>1 DEF Clean
  <2>5. Answers' = Answers
    BY Zenon DEF Answers, dropped
  <2> QED BY SMTT(40), <2>1, <2>2, <2>3, <2>4, <2>5 DEF Current
<1> QED BY Zenon, <1>5, <1>6

LEMMA SendReleaseData ==
    ASSUME Inv, DataInv, NEW h \in Hosts, NEW line \in Lines, HostRelease(h, line) PROVE DataInv'
<1> USE DEF Inv, DataInv
<1>1. /\ perm[h][line] = "T" /\ c[h] = None /\ releasing[h] = None
      /\ c' = Put(c, h, [kind |-> IF dirty[h][line] THEN "ReleaseData" ELSE "Release", line |-> line,
                         value |-> copy[h][line]])
      /\ releasing' = Put(releasing, h, OnLine(line)) /\ Shrink(h, line, "N")
      /\ UNCHANGED <<state, req, probe_pending, probe_param, a, b, d, dev_a, dev_d, asked, mem, golden>>
  BY Zenon DEF HostRelease, core, sequencer
<1>2. /\ c'[h].kind = (IF dirty[h][line] THEN "ReleaseData" ELSE "Release")
      /\ c'[h].value = copy[h][line] /\ c'[h].line = line /\ releasing'[h] = OnLine(line)
      /\ \A k \in Hosts : k # h => c'[k] = c[k] /\ releasing'[k] = releasing[k]
  BY Zenon, <1>1 DEF Put, TypeOK
<1>3. \A k \in Hosts, l \in Lines :
        perm'[k][l] = IF k = h /\ l = line THEN "N" ELSE perm[k][l]
  BY <1>1, ShrinkFacts
<1>4. Granting' = Granting
  BY Zenon, <1>1, GrantingLeft
<1>5. asked[h] # OnLine(line)
  BY Zenon, <1>1 DEF Requests
<1>6. Requests'
  <2>1. \A k \in Hosts, l \in Lines : asked[k] = OnLine(l) => perm'[k][l] # "T" /\ releasing'[k] # OnLine(l)
    <3>1. ASSUME NEW k \in Hosts, NEW l \in Lines, asked[k] = OnLine(l)
         PROVE  perm'[k][l] # "T" /\ releasing'[k] # OnLine(l)
      <4>1. perm[k][l] # "T" /\ releasing[k] # OnLine(l)
        BY Zenon, <3>1 DEF Requests
      <4>2. CASE k = h
        <5>1. l # line /\ OnLine(line) # OnLine(l)
          BY Zenon, <1>5, <3>1, <4>2
        <5> QED BY Zenon, <1>2, <1>3, <4>1, <4>2, <5>1
      <4>3. CASE k # h
        BY Zenon, <1>2, <1>3, <4>1, <4>3
      <4> QED BY Zenon, <4>2, <4>3
    <3> QED BY Zenon, <3>1
  <2> QED BY Zenon, <1>1, <1>4, <2>1 DEF Requests
<1>7. Shapes'
  <2>1. \A k \in Hosts : c'[k].kind \in ProbeAcks => c'[k] = c[k]
    BY Zenon, <1>2 DEF ProbeAcks
  <2>2. req' = req /\ dev_a' = dev_a /\ dev_d' = dev_d /\ d' = d
    BY Zenon, <1>1
  <2> QED BY Zenon, <2>1, <2>2 DEF Shapes
<1>8. OneRelease'
  BY <1>1, <1>2, OnLineInjective DEF OneRelease
<1>9. HeldOff'
  <2>1. ASSUME NEW k \in Hosts, NEW l \in Lines, releasing'[k] = OnLine(l)
       PROVE  \A j \in Hosts : perm'[j][l] = "N" /\ (j # k => releasing'[j] # OnLine(l))
    <3>1. CASE k = h
      <4>1. l = line
        BY ZenonT(40), <1>2, <2>1, <3>1, OnLineInjective
      <4> QED BY SMTT(40), <1>1, <1>2, <1>3, <3>1, <4>1, Owned
    <3>2. CASE k # h
      <4>1. releasing[k] = OnLine(l)
        BY Zenon, <1>2, <2>1, <3>2
      <4>2. l # line
        BY ZenonT(40), <1>1, <4>1, Owned
      <4> QED BY <1>2, <1>3, <4>1, <4>2, OnLineInjective DEF HeldOff
    <3> QED BY Zenon, <3>1, <3>2
  <2>2. state # "Idle" /\ req.line = line =>
          h \in probe_pending \/ b[h] # None \/ (h = req.source /\ state = "Wait" /\ ~Granting)
    <3> SUFFICES ASSUME state # "Idle", req.line = line, h \notin probe_pending, b[h] = None
                 PROVE  h = req.source /\ state = "Wait" /\ ~Granting
      BY Zenon
    <3>1. h = req.source
      BY Zenon, <1>1 DEF Probed, Below, Requests
    <3>2. state = "Wait"
      BY ZenonT(40), <1>5, <3>1, ConstantFacts DEF Requests, Kinds, TypeOK
    <3> QED BY Zenon, <1>5, <3>1, <3>2 DEF Requests
  <2>3. ASSUME NEW k \in Hosts, NEW l \in Lines, releasing'[k] = OnLine(l), state # "Idle", req.line = l
       PROVE  k \in probe_pending \/ b[k] # None \/ (k = req.source /\ state = "Wait" /\ ~Granting)
    <3>1. CASE k = h
      BY Zenon, <1>2, <2>2, <2>3, <3>1, OnLineInjective
    <3>2. CASE k # h
      BY Zenon, <1>2, <2>3, <3>2 DEF HeldOff
    <3> QED BY Zenon, <3>1, <3>2
  <2> QED BY ZenonT(40), <1>1, <1>4, <2>1, <2>3 DEF HeldOff
<1>10. c'[h].kind \in {"ProbeAckData", "ReleaseData"} <=> dirty[h][line]
  BY Zenon, <1>2
<1> QED BY Zenon, <1>1, <1>2, <1>6, <1>7, <1>8, <1>9, <1>10, GiveUpData

LEMMA AnswerProbeData ==
    ASSUME Inv, DataInv, NEW h \in Hosts, HostProbeAck(h) PROVE DataInv'
<1> USE DEF Inv, DataInv
<1> DEFINE line == b[h].line
           p == IF perm[h][line] = "N" \/ b[h].param = "toN" THEN "N" ELSE "B"
<1>1. /\ b[h] # None /\ c[h] = None /\ releasing[h] = None /\ b' = Clear(b, h)
      /\ c' = Put(c, h, [kind |-> IF dirty[h][line] THEN "ProbeAckData" ELSE "ProbeAck", line |-> line,
                         value |-> copy[h][line]])
      /\ Shrink(h, line, p)
      /\ UNCHANGED <<state, req, probe_pending, probe_param, a, d, dev_a, dev_d, asked, releasing, mem, golden>>
  BY Zenon DEF HostProbeAck, core, sequencer
<1>2. p \in {"N", "B"} /\ (perm[h][line] = "N" => p = "N")
  BY Zenon
<1> HIDE DEF p
<1>3. line \in Lines /\ line = req.line
  BY Zenon, <1>1, MessageTypes DEF Places
<1> HIDE DEF line
<1>4. /\ c'[h].kind = (IF dirty[h][line] THEN "ProbeAckData" ELSE "ProbeAck")
      /\ c'[h].value = copy[h][line] /\ c'[h].line = line
      /\ \A k \in Hosts : k # h => c'[k] = c[k] /\ b'[k] = b[k]
  BY ZenonT(40), <1>1 DEF Put, Clear, TypeOK
<1>5. \A k \in Hosts, l \in Lines : /\ perm'[k][l] = "T" => perm[k][l] = "T"
                                    /\ perm[k][l] = "N" => perm'[k][l] = "N"
  BY <1>1, <1>2, <1>3, ShrinkFacts
<1>6. Granting' = Granting
  BY ZenonT(40), <1>1, GrantingLeft
<1>7. Requests'
  <2>1. \A k \in Hosts, l \in Lines : asked[k] = OnLine(l) => perm'[k][l] # "T" /\ releasing[k] # OnLine(l)
    BY Zenon, <1>5 DEF Requests
  <2> QED BY Zenon, <1>1, <1>6, <2>1 DEF Requests
<1>8. Shapes'
  <2>1. \A k \in Hosts : c'[k].kind \in ProbeAcks => c'[k].line = req.line
    BY Zenon, <1>3, <1>4 DEF Shapes
  <2> QED BY Zenon, <1>1, <2>1 DEF Shapes
<1>9. OneRelease'
  <2>1. ~Releases(c'[h]) /\ ~Releases(c[h])
    BY Zenon, <1>1, <1>4, Empty DEF Releases
  <2> QED BY ZenonT(40), <1>1, <1>4, <2>1 DEF OneRelease
<1>10. HeldOff'
  BY SMTT(40), <1>1, <1>4, <1>5, <1>6, OnLineInjective DEF HeldOff
<1>11. c'[h].kind \in {"ProbeAckData", "ReleaseData"} <=> dirty[h][line]
  BY Zenon, <1>4
<1>12. OneReturn' /\ Current'
  <2>1. UNCHANGED <<d, dev_a, dev_d, mem, golden>> /\ \A k \in Hosts : k # h => c'[k] = c[k]
    BY Zenon, <1>1, <1>4
  <2>2. c[h] = None /\ c'[h].value = copy[h][line] /\ c'[h].line = line /\ Shrink(h, line, p)
    BY Zenon, <1>1, <1>4
  <2> HIDE DEF DataInv, Inv
  <2> QED BY Zenon, <1>2, <1>3, <1>11, <2>1, <2>2, GiveUpData
<1> QED BY Zenon, <1>7, <1>8, <1>9, <1>10, <1>12

LEMMA WriteFacts ==
    ASSUME TypeOK, NEW h \in Hosts, NEW line \in Lines, NEW value, Write(h, line, value)
    PROVE  /\ copy'[h][line] = value /\ dirty'[h][line] /\ golden'[line] = value
           /\ \A k \in Hosts, l \in Lines : k # h \/ l # line =>
                copy'[k][l] = copy[k][l] /\ dirty'[k][l] = dirty[k][l]
           /\ \A l \in Lines : l # line => golden'[l] = golden[l]
<1>1. copy'[h][line] = value /\ \A k \in Hosts, l \in Lines : k # h \/ l # line => copy'[k][l] = copy[k][l]
  BY Zenon DEF Write, TypeOK
<1>2. dirty'[h][line] /\ \A k \in Hosts, l \in Lines : k # h \/ l # line => dirty'[k][l] = dirty[k][l]
  BY Zenon DEF Write, TypeOK
<1>3. golden'[line] = value /\ \A l \in Lines : l # line => golden'[l] = golden[l]
  BY Zenon DEF Write, TypeOK
<1> QED BY Zenon, <1>1, <1>2, <1>3

LEMMA WriteData ==
    ASSUME Inv, DataInv, NEW h \in Hosts, NEW line \in Lines, NEW value, HostWrite(h, line, value) PROVE DataInv'
<1> USE DEF Inv, DataInv
<1>1. /\ perm[h][line] = "T" /\ Write(h, line, value)
      /\ UNCHANGED <<state, req, probe_pending, probe_param, a, b, c, d, dev_a, dev_d, perm, asked, releasing, mem>>
  BY Zenon DEF HostWrite, core, sequencer
<1>2. /\ copy'[h][line] = value /\ dirty'[h][line] /\ golden'[line] = value
      /\ \A k \in Hosts, l \in Lines : k # h \/ l # line =>
           copy'[k][l] = copy[k][l] /\ dirty'[k][l] = dirty[k][l]
      /\ \A l \in Lines : l # line => golden'[l] = golden[l]
  BY Zenon, <1>1, WriteFacts
<1>3. /\ \A k \in Hosts : (k # h => perm[k][line] = "N") /\ ~Returns(c[k], line)
      /\ Granting => line # req.line
  BY ZenonT(40), <1>1, Owned
<1>4. Current'
  <2>1. CopiesAreCurrent'
    BY <1>1, <1>2, <1>3, CurrentFacts DEF CopiesAreCurrent
  <2>2. \A k \in Hosts, l \in Lines : dirty'[k][l] => perm'[k][l] = "T"
    BY ZenonT(40), <1>1, <1>2, CurrentFacts
  <2>3. \A k \in Hosts, l \in Lines : Returns(c[k], l) => c[k].value = golden'[l]
    BY <1>2, <1>3, CurrentFacts
  <2>4. \A l \in Lines : Clean(l)' => l # line /\ Clean(l)
    BY Zenon, <1>1, <1>2 DEF Clean
  <2>5. Answers' = Answers /\ (Answers => dev_d.line = req.line /\ Granting)
    BY Zenon, <1>1 DEF Answers, dropped, InFlight, Granting
  <2>6. \A g \in Agents : d[g].kind = "GrantData" => d[g].line = req.line /\ Granting
    BY Zenon DEF Granting, Grants, InFlight
  <2>7. req.line \in Lines
    BY ZenonT(40), MessageTypes
  <2>8. \A g \in Agents : d[g].kind = "GrantData" => d[g].value = golden'[d[g].line]
    BY <1>2, <1>3, <2>6, <2>7 DEF Current
  <2>9. Answers => dev_d.value = golden'[dev_d.line]
    BY Zenon, <1>2, <1>3, <2>5, <2>7 DEF Current
  <2> QED BY ZenonT(40), <1>1, <1>2, <2>1, <2>2, <2>3, <2>4, <2>5, <2>8, <2>9 DEF Current
<1> QED BY Zenon, <1>1, <1>4, RequestsLeft, ShapesLeft, ReleaseLeft, HeldOffLeft, ReturnLeft

LEMMA TakeGrantData ==
    ASSUME Inv, Inv', DataInv, NEW h \in Hosts, NEW value, HostTakeGrant(h, value) PROVE DataInv'
<1> USE DEF Inv, DataInv
<1> DEFINE line == d[h].line
<1>1. /\ Grants(h) /\ d' = Clear(d, h) /\ asked' = Clear(asked, h)
      /\ perm' = [perm EXCEPT ![h][line] = CapPerm(d[h].param)]
      /\ IF d[h].kind = "Grant" THEN Write(h, line, value)
         ELSE copy' = [copy EXCEPT ![h][line] = d[h].value] /\ UNCHANGED <<dirty, golden>>
      /\ UNCHANGED <<state, req, probe_pending, probe_param, a, b, c, dev_a, dev_d, releasing, mem>>
  BY Zenon DEF HostTakeGrant, core, sequencer, Grants
<1>2. Granting /\ h \in Agents /\ h = req.source /\ line = req.line /\ line \in Lines
  BY Zenon, <1>1, ConstantFacts, MessageTypes DEF Granting, InFlight, Serving
<1> HIDE DEF line
<1>3. /\ \A k \in Hosts : /\ perm[k][line] # "T" /\ ~dirty[k][line]
                          /\ releasing[k] # OnLine(line) /\ ~Returns(c[k], line)
      /\ \A i \in 1 .. Len(dev_a) : ~HostStores(dev_a[i], line)
      /\ WillHave(dev_a, mem[line], line, golden[line])
  BY ZenonT(40), <1>2, Quiet
<1>4. /\ d'[h] = None /\ asked'[h] = None /\ perm'[h][line] = CapPerm(d[h].param)
      /\ \A g \in Agents : g # h => d'[g] = d[g] /\ asked'[g] = asked[g]
      /\ \A k \in Hosts, l \in Lines : k # h \/ l # line => perm'[k][l] = perm[k][l]
  BY <1>1, <1>2 DEF Clear, TypeOK
<1>5. ~Answers /\ Answers' = Answers /\ \A i \in 1 .. Len(dev_a) : ~Asks(dev_a[i])
  BY Zenon, <1>1, <1>2 DEF OneGrant, Answers, dropped
<1>6. \A g \in Agents : ~Grants(g)'
  BY Zenon, <1>2, <1>4, Empty DEF InFlight, Serving, Grants
<1>7. ~Granting'
  BY ZenonT(40), <1>1, <1>5, <1>6 DEF Granting
<1>8. Requests'
  <2>1. a[h] = None
    BY ZenonT(40), <1>2 DEF Requests
  <2>2. \A k \in Hosts, l \in Lines : asked'[k] = OnLine(l) => perm'[k][l] # "T" /\ releasing[k] # OnLine(l)
    BY <1>4, OnLineInjective, ConstantFacts DEF Requests
  <2>3. \A g \in Agents : d'[g].kind # "Grant"
    BY Zenon, <1>6 DEF Grants
  <2> QED BY Zenon, <1>1, <1>4, <1>7, <2>1, <2>2, <2>3 DEF Requests
<1>9. Shapes'
  BY ZenonT(40), <1>1, <1>4, ConstantFacts, Empty DEF Shapes
<1>10. OneRelease'
  BY Zenon, <1>1, <1>4, ConstantFacts, Empty DEF OneRelease
<1>11. HeldOff'
  <2>1. /\ releasing' = releasing /\ state' = state /\ req' = req /\ b' = b /\ probe_pending' = probe_pending
    BY Zenon, <1>1
  <2>2. ASSUME NEW k \in Hosts, NEW l \in Lines, releasing[k] = OnLine(l)
       PROVE  /\ \A j \in Hosts : perm'[j][l] = "N" /\ (j # k => releasing[j] # OnLine(l))
              /\ state # "Idle" /\ req.line = l =>
                   k \in probe_pending \/ b[k] # None \/ (k = req.source /\ state = "Wait")
    <3>1. l # line
      BY Zenon, <1>3, <2>2
    <3>2. /\ \A j \in Hosts : perm[j][l] = "N" /\ (j # k => releasing[j] # OnLine(l))
          /\ state # "Idle" /\ req.line = l =>
               k \in probe_pending \/ b[k] # None \/ (k = req.source /\ state = "Wait")
      BY Zenon, <2>2 DEF HeldOff
    <3>3. \A j \in Hosts : perm'[j][l] = perm[j][l]
      BY Zenon, <1>4, <3>1
    <3> QED BY Zenon, <3>2, <3>3
  <2>3. ASSUME NEW k \in Hosts, NEW l \in Lines, releasing'[k] = OnLine(l)
       PROVE  /\ \A j \in Hosts : perm'[j][l] = "N" /\ (j # k => releasing'[j] # OnLine(l))
              /\ state' # "Idle" /\ req'.line = l =>
                   k \in probe_pending' \/ b'[k] # None \/ (k = req'.source /\ state' = "Wait" /\ ~Granting')
    <3>1. releasing[k] = OnLine(l)
      BY Zenon, <2>1, <2>3
    <3> QED BY Zenon, <1>7, <2>1, <2>2, <3>1
  <2> QED BY Zenon, <2>3 DEF HeldOff
<1>12. OneReturn'
  <2>1. c' = c /\ dev_a' = dev_a
    BY Zenon, <1>1
  <2>2. \A l \in Lines : (\E k \in Hosts : Returns(c[k], l)) \/ (\E i \in 1 .. Len(dev_a) : HostStores(dev_a[i], l))
          => l # line /\ \A k \in Hosts : perm'[k][l] = perm[k][l]
    BY Zenon, <1>3, <1>4
  <2> QED BY Zenon, <2>1, <2>2 DEF OneReturn
<1>13. \A g \in Agents : d'[g].kind # "GrantData"
  BY Zenon, <1>6 DEF Grants
<1>14. CASE d[h].kind = "Grant"
  <2>1. Write(h, line, value) /\ perm'[h][line] = "T"
    BY Zenon, <1>1, <1>2, <1>4, <1>14 DEF Requests, CapPerm
  <2>2. /\ copy'[h][line] = value /\ dirty'[h][line] /\ golden'[line] = value
        /\ \A k \in Hosts, l \in Lines : k # h \/ l # line =>
             copy'[k][l] = copy[k][l] /\ dirty'[k][l] = dirty[k][l]
        /\ \A l \in Lines : l # line => golden'[l] = golden[l]
    BY ZenonT(40), <1>2, <2>1, WriteFacts
  <2>3. \A k \in Hosts : k # h => perm'[k][line] = "N"
    BY Zenon, <1>2, <2>1 DEF SingleWriter
  <2>4. CopiesAreCurrent'
    BY <1>4, <2>2, <2>3, CurrentFacts DEF CopiesAreCurrent
  <2>5. \A k \in Hosts, l \in Lines : dirty'[k][l] => perm'[k][l] = "T"
    <3>1. ASSUME NEW k \in Hosts, NEW l \in Lines, k # h \/ l # line, dirty'[k][l] PROVE perm'[k][l] = "T"
      <4>1. dirty[k][l] /\ perm'[k][l] = perm[k][l]
        BY Zenon, <1>4, <2>2, <3>1
      <4> QED BY Zenon, <4>1, CurrentFacts
    <3> QED BY ZenonT(40), <2>1, <3>1
  <2>6. \A k \in Hosts, l \in Lines : Returns(c[k], l) => c[k].value = golden'[l]
    BY <1>3, <2>2, CurrentFacts
  <2>7. \A l \in Lines : Clean(l)' => l # line /\ Clean(l)
    BY Zenon, <1>1, <2>2 DEF Clean
  <2>8. Current'
    BY ZenonT(40), <1>1, <1>5, <1>13, <2>2, <2>4, <2>5, <2>6, <2>7 DEF Current
  <2> QED BY Zenon, <1>8, <1>9, <1>10, <1>11, <1>12, <2>8
<1>15. CASE d[h].kind # "Grant"
  <2>1. /\ copy'[h][line] = d[h].value /\ UNCHANGED <<dirty, golden>>
        /\ \A k \in Hosts, l \in Lines : k # h \/ l # line => copy'[k][l] = copy[k][l]
    <3>1. copy' = [copy EXCEPT ![h][line] = d[h].value] /\ UNCHANGED <<dirty, golden>>
      BY Zenon, <1>1, <1>15
    <3>2. copy \in [Hosts -> [Lines -> Values]]
      BY Zenon DEF TypeOK
    <3> QED BY Zenon, <1>2, <3>1, <3>2
  <2>2. d[h].value = golden[line]
    BY Zenon, <1>1, <1>2, <1>15 DEF Current, Grants, line
  <2>3. CopiesAreCurrent'
    <3>1. ASSUME NEW k \in Hosts, NEW l \in Lines, k # h \/ l # line, perm'[k][l] # "N"
         PROVE  copy'[k][l] = golden'[l]
      BY ZenonT(40), <1>4, <2>1, <3>1, CurrentFacts
    <3>2. copy'[h][line] = golden'[line]
      BY ZenonT(40), <2>1, <2>2
    <3> QED BY ZenonT(40), <3>1, <3>2 DEF CopiesAreCurrent
  <2>4. \A k \in Hosts, l \in Lines : dirty'[k][l] => perm'[k][l] = "T"
    BY <1>3, <1>4, <2>1, CurrentFacts
  <2>5. \A l \in Lines : Clean(l)' = Clean(l)
    BY Zenon, <1>1, <2>1 DEF Clean
  <2>6. Current'
    BY Zenon, <1>1, <1>5, <1>13, <2>1, <2>3, <2>4, <2>5 DEF Current
  <2> QED BY Zenon, <1>8, <1>9, <1>10, <1>11, <1>12, <2>6
<1> QED BY Zenon, <1>14, <1>15

-----------------------------------------------------------------------------
(* The result *)

LEMMA InitData ==
    ASSUME Init PROVE DataInv
<1>1. /\ Len(dev_a) = 0 /\ state = "Idle" /\ dev_d = None /\ mem = golden
      /\ \A g \in Agents : a[g] = None /\ d[g] = None /\ asked[g] = None
      /\ \A h \in Hosts : c[h] = None /\ releasing[h] = None
      /\ \A h \in Hosts, line \in Lines : perm[h][line] = "N" /\ dirty[h][line] = FALSE
  BY Zenon, ConstantFacts DEF Init
<1>2. None.kind = "none"
  BY Zenon DEF None
<1>10. \A i \in 1 .. Len(dev_a) : FALSE
  BY <1>1
<1>11. \A h \in Hosts : h \in Agents
  BY Zenon, ConstantFacts
<1>3. ~Granting
  BY Zenon, <1>1, <1>2, <1>10 DEF Granting, Answers, Grants
<1>4. Requests
  BY ZenonT(40), <1>1, <1>2, <1>3, OnLineInjective, ConstantFacts DEF Requests
<1>5. Shapes
  BY Zenon, <1>1, <1>2, <1>10, <1>11 DEF Shapes, ProbeAcks
<1>6. OneRelease
  BY Zenon, <1>1, <1>2, <1>10, <1>11 DEF OneRelease, Releases, AckOf
<1>7. HeldOff
  BY Zenon, <1>1, OnLineInjective DEF HeldOff
<1>8. OneReturn
  BY Zenon, <1>1, <1>10, Empty DEF OneReturn
<1>9. Current
  <2>1. \A line \in Lines : WillHave(dev_a, mem[line], line, golden[line])
    BY Zenon, <1>1, <1>10 DEF WillHave, StoresIn
  <2>2. ~Answers /\ CopiesAreCurrent
    BY Zenon, <1>1 DEF Answers, CopiesAreCurrent
  <2> QED BY Zenon, <1>1, <1>2, <1>10, <2>1, <2>2, Empty DEF Current
<1> QED BY Zenon, <1>4, <1>5, <1>6, <1>7, <1>8, <1>9 DEF DataInv

LEMMA HubData ==
    ASSUME Inv, DataInv, KeepsOrder, Hub PROVE DataInv'
<1>1. ASSUME NEW g \in Agents, HubAccept(g) PROVE DataInv'
  BY Zenon, <1>1, AcceptData
<1>2. ASSUME HubAllAcked \/ HubFinished PROVE DataInv'
  BY Zenon, <1>2, MoveData
<1>3. ASSUME HubRequest PROVE DataInv'
  BY Zenon, <1>3, RequestData
<1>4. ASSUME HubGrant PROVE DataInv'
  BY Zenon, <1>4, PermData
<1>5. ASSUME HubTakeDevD PROVE DataInv'
  BY Zenon, <1>5, TakeDevDData
<1>6. ASSUME HubSeesGrant \/ \E h \in Hosts : HubTakeE(h) PROVE DataInv'
  BY Zenon, <1>6, OtherData
<1>7. ASSUME NEW h \in Hosts, HubProbe(h) PROVE DataInv'
  BY Zenon, <1>7, SendProbeData
<1>8. ASSUME NEW h \in Hosts, HubTakeC(h) PROVE DataInv'
  <2>1. c[h].kind \in {"ProbeAck", "Release", "ProbeAckData", "ReleaseData"}
    BY Zenon, <1>8, MessageTypes DEF HubTakeC, Inv, COpcodes
  <2> QED BY Zenon, <1>8, <2>1, TakePlainData, TakeDirtyData
<1> QED BY Zenon, <1>1, <1>2, <1>3, <1>4, <1>5, <1>6, <1>7, <1>8 DEF Hub

LEMMA EnvData ==
    ASSUME Inv, Inv', DataInv, KeepsOrder, Env PROVE DataInv'
<1>1. ASSUME NEW k \in 1 .. DevDepth, DevServe(k) PROVE DataInv'
  <2>1. k \in 1 .. Len(dev_a)
    BY Zenon, <1>1 DEF DevServe
  <2> QED BY Zenon, <1>1, <2>1, ServeData
<1>2. ASSUME NEW h \in Hosts, NEW op \in HostOps, NEW line \in Lines, NEW grow \in GrowParams,
             HostAcquire(h, op, line, grow)
      PROVE  DataInv'
  <2>1. op \in Acquires /\ h \in Agents
    BY Zenon, BroadcastAssumption, ConstantFacts DEF Acquires
  <2> QED BY Zenon, <1>2, <2>1, AskData DEF HostAcquire
<1>3. ASSUME NEW op \in DmaOps, NEW line \in Lines, NEW value \in Values, DmaAsk(op, line, value) PROVE DataInv'
  BY Zenon, <1>3, ConstantFacts, AskData DEF DmaAsk
<1>4. ASSUME NEW h \in Hosts, NEW line \in Lines, HostDrop(h, line) PROVE DataInv'
  BY Zenon, <1>4, DropData
<1>5. ASSUME NEW h \in Hosts, NEW line \in Lines, HostRelease(h, line) PROVE DataInv'
  BY Zenon, <1>5, SendReleaseData
<1>6. ASSUME NEW h \in Hosts, NEW line \in Lines, NEW value \in Values, HostWrite(h, line, value) PROVE DataInv'
  BY Zenon, <1>6, WriteData
<1>7. ASSUME NEW h \in Hosts, HostProbeAck(h) PROVE DataInv'
  BY Zenon, <1>7, AnswerProbeData
<1>8. ASSUME NEW h \in Hosts, NEW value \in Values, HostTakeGrant(h, value) PROVE DataInv'
  BY Zenon, <1>8, TakeGrantData
<1>9. ASSUME NEW g \in Agents, AgentTakeD(g) PROVE DataInv'
  BY Zenon, <1>9, TakeAnswerData
<1> QED BY Zenon, <1>1, <1>2, <1>3, <1>4, <1>5, <1>6, <1>7, <1>8, <1>9 DEF Env

LEMMA StutterData ==
    ASSUME DataInv, UNCHANGED vars PROVE DataInv'
<1>1. UNCHANGED <<state, req, probe_pending, probe_param, a, b, c, d, dev_a, dev_d, perm, copy, dirty, asked,
                  releasing, mem, golden>>
  BY Zenon DEF vars, core, sequencer, hosts
<1> QED BY Zenon, <1>1, RequestsLeft, ShapesLeft, ReleaseLeft, HeldOffLeft, ReturnLeft, CurrentLeft DEF DataInv

LEMMA DataStep == KeepsOrder /\ Inv /\ Inv' /\ DataInv /\ [Next]_vars => DataInv'
  BY Zenon, HubData, EnvData, StutterData DEF Next

-----------------------------------------------------------------------------
(* Counting *)

LEMMA WritebacksFinite ==
    ASSUME NEW s \in Seq(Held) PROVE IsFiniteSet(Writebacks(s)) /\ Cardinality(Writebacks(s)) \in Nat
<1>1. IsFiniteSet(1 .. Len(s))
  BY FS_Interval
<1>2. Writebacks(s) \in SUBSET (1 .. Len(s))
  BY DEF Writebacks
<1>3. IsFiniteSet(Writebacks(s))
  BY Zenon, <1>1, <1>2, FS_Subset
<1> QED BY Zenon, <1>3, FS_CardinalityType

\* A request that the hub passes on is counted if it is the dirty data of a probe.
LEMMA WritebacksAppend ==
    ASSUME NEW s \in Seq(Held), NEW m \in Held
    PROVE  Cardinality(Writebacks(Append(s, m)))
             = Cardinality(Writebacks(s)) + (IF ProbeData(m) THEN 1 ELSE 0)
<1>1. DOMAIN Append(s, m) = 1 .. Len(s) + 1
  OBVIOUS
<1>2. \A i \in 1 .. Len(s) : Append(s, m)[i] = s[i]
  OBVIOUS
<1>3. Append(s, m)[Len(s) + 1] = m
  OBVIOUS
<1>4. CASE ProbeData(m)
  <2>1. Writebacks(Append(s, m)) = Writebacks(s) \cup {Len(s) + 1}
    BY <1>1, <1>2, <1>3, <1>4 DEF Writebacks
  <2>2. Len(s) + 1 \notin Writebacks(s)
    BY DEF Writebacks
  <2> QED BY Zenon, <1>4, <2>1, <2>2, WritebacksFinite, FS_AddElement
<1>5. CASE ~ProbeData(m)
  <2>1. Writebacks(Append(s, m)) = Writebacks(s)
    BY SMTT(40), <1>1, <1>2, <1>3, <1>5 DEF Writebacks
  <2> QED BY <1>5, <2>1, WritebacksFinite
<1> QED BY Zenon, <1>4, <1>5

\* The one that the device serves is not counted any more.
LEMMA WritebacksWithout ==
    ASSUME NEW s \in Seq(Held), NEW k \in 1 .. Len(s)
    PROVE  Cardinality(Writebacks(Without(s, k)))
             = Cardinality(Writebacks(s)) - (IF ProbeData(s[k]) THEN 1 ELSE 0)
<1> DEFINE w == Without(s, k)
           S == Writebacks(w)
           T == Writebacks(s) \ {k}
           f == [i \in S |-> IF i < k THEN i ELSE i + 1]
<1>1. /\ w \in Seq(Held) /\ Len(w) = Len(s) - 1
      /\ \A i \in 1 .. Len(s) - 1 : w[i] = IF i < k THEN s[i] ELSE s[i + 1]
  BY Zenon, WithoutType
<1> HIDE DEF w
<1>2. S = {i \in 1 .. Len(s) - 1 : ProbeData(IF i < k THEN s[i] ELSE s[i + 1])}
  BY <1>1 DEF Writebacks
<1>3. T = {i \in 1 .. Len(s) : i # k /\ ProbeData(s[i])}
  BY DEF Writebacks
<1> HIDE DEF S, T
<1>4. f \in [S -> T]
  <2>1. ASSUME NEW i \in S PROVE (IF i < k THEN i ELSE i + 1) \in T
    BY <1>2, <1>3
  <2> QED BY Zenon, <2>1
<1>5. \A i, j \in S : f[i] = f[j] => i = j
  BY <1>2
<1>6. ASSUME NEW t \in T PROVE \E i \in S : f[i] = t
  <2>1. CASE t < k
    BY <1>2, <1>3, <2>1
  <2>2. CASE t > k
    <3>1. t - 1 \in S
      BY <1>2, <1>3, <2>2
    <3>2. f[t - 1] = t
      BY <3>1, <1>3, <2>2
    <3> QED BY Zenon, <3>1, <3>2
  <2> QED BY <2>1, <2>2, <1>3
<1> HIDE DEF f
<1>7. ExistsBijection(S, T)
  BY Zenon, <1>4, <1>5, <1>6 DEF ExistsBijection, Bijection, Injection, Surjection, IsInjective
<1>8. IsFiniteSet(S) /\ IsFiniteSet(Writebacks(s))
  BY Zenon, <1>1, WritebacksFinite DEF S
<1>9. Cardinality(T) = Cardinality(S)
  BY Zenon, <1>7, <1>8, FS_Bijection
<1>10. Cardinality(T) = IF k \in Writebacks(s) THEN Cardinality(Writebacks(s)) - 1 ELSE Cardinality(Writebacks(s))
  BY Zenon, <1>8, FS_RemoveElement DEF T
<1>11. k \in Writebacks(s) <=> ProbeData(s[k])
  BY DEF Writebacks
<1> QED BY <1>9, <1>10, <1>11, WritebacksFinite DEF S, w

LEMMA CountsFinite ==
    ASSUME TypeOK
    PROVE  /\ IsFiniteSet(Unanswered) /\ Cardinality(Unanswered) \in Nat
           /\ Cardinality(Unanswered) = 0 <=> Unanswered = {}
           /\ Cardinality(Writebacks(dev_a)) \in Nat
           /\ Unwritten = Cardinality(Writebacks(dev_a)) + (IF dev_d # None /\ dropped THEN 1 ELSE 0)
<1>1. IsFiniteSet(Hosts)
  BY BroadcastAssumption, FS_Interval DEF Hosts
<1>2. Unanswered \in SUBSET Hosts
  BY Zenon DEF Unanswered, TypeOK
<1>3. IsFiniteSet(Unanswered)
  BY Zenon, <1>1, <1>2, FS_Subset
<1>4. Cardinality(Writebacks(dev_a)) \in Nat
  BY Zenon, MessageTypes, WritebacksFinite
<1>5. Unwritten = Cardinality(Writebacks(dev_a)) + (IF dev_d # None /\ dropped THEN 1 ELSE 0)
  BY Zenon DEF Unwritten, Writebacks
<1> QED BY Zenon, <1>3, <1>4, <1>5, FS_CardinalityType, FS_EmptySet

\* Nothing is on its way that is not counted.
LEMMA Uncounted == TypeOK /\ ProbesAccounted => NoneAwaited
<1> SUFFICES ASSUME TypeOK, ProbesAccounted, state # "Inv" \/ probe_ack_pending = 0 PROVE Calm
  BY Zenon DEF NoneAwaited
<1>1. Cardinality(Unanswered) + Unwritten = 0
  BY Zenon DEF ProbesAccounted
<1>2. Cardinality(Unanswered) = 0 /\ Cardinality(Writebacks(dev_a)) = 0 /\ ~(dev_d # None /\ dropped)
  BY <1>1, CountsFinite
<1>3. Unanswered = {} /\ Writebacks(dev_a) = {}
  BY Zenon, <1>2, CountsFinite, WritebacksFinite, MessageTypes, FS_EmptySet
<1> QED BY <1>2, <1>3 DEF Calm, Unanswered, ProbeAcks, Writebacks

-----------------------------------------------------------------------------
(* The probes *)

LEMMA AcceptProbes ==
    ASSUME Inv, NEW g \in Agents, HubAccept(g) PROVE Places' /\ Probed' /\ ProbesAccounted'
<1> USE DEF Inv
<1>1. /\ probe_pending' = Hosts \ {g} /\ req'.source = g /\ state' = "Inv" /\ UNCHANGED <<b, c, dev_a, dev_d, perm>>
      /\ probe_ack_pending' = IF g \in Hosts THEN NumHosts - 1 ELSE NumHosts
  BY Zenon DEF HubAccept, hosts
<1>2. /\ \A h \in Hosts : b[h] = None /\ c[h].kind \notin ProbeAcks
      /\ Cardinality(Writebacks(dev_a)) = 0 /\ ~(dev_d # None /\ dropped)
  <2>1. Calm
    BY Zenon DEF HubAccept, NoneAwaited
  <2>2. Writebacks(dev_a) = {}
    BY <2>1, MessageTypes DEF Calm, Writebacks
  <2> QED BY Zenon, <2>1, <2>2, FS_EmptySet DEF Calm
<1>3. Places' /\ Probed'
  BY Zenon, <1>1, <1>2 DEF Places, Probed
<1>4. Unanswered' = Hosts \ {g}
  BY Zenon, <1>1, <1>2 DEF Unanswered, ProbeAcks
<1>5. Unwritten' = 0
  <2>1. Unwritten' = Unwritten
    BY Zenon, <1>1 DEF Unwritten, dropped
  <2> QED BY <1>2, <2>1, CountsFinite
<1>6. IsFiniteSet(Hosts) /\ Cardinality(Hosts) = NumHosts
  BY FS_Interval, BroadcastAssumption DEF Hosts
<1>7. Cardinality(Hosts \ {g}) = probe_ack_pending'
  BY Zenon, <1>1, <1>6, FS_RemoveElement
<1>8. NumHosts \in Nat \ {0}
  BY Zenon, BroadcastAssumption
<1> QED BY SMTT(40), <1>1, <1>3, <1>4, <1>5, <1>7, <1>8 DEF ProbesAccounted

LEMMA RequestProbes ==
    ASSUME Inv, HubRequest PROVE Places' /\ Probed' /\ ProbesAccounted'
<1> USE DEF Inv
<1> DEFINE m == [kind |-> IF req.xact = "uncached" THEN req.op ELSE "Get", line |-> req.line,
                 source |-> req.source, xact |-> req.xact, value |-> a[req.source].value]
<1>1. m \in Held
  <2>1. a[req.source].value \in Values
    BY Zenon, MessageTypes DEF HubRequest, Kinds
  <2>2. (IF req.xact = "uncached" THEN req.op ELSE "Get") \in {"Get", "PutFullData"}
    BY Zenon, MessageTypes DEF Kinds, Acquires, Cached, HubRequest
  <2> QED BY Zenon, <2>1, <2>2, MessageTypes DEF Held
<1>2. ~ProbeData(m)
  BY Zenon DEF ProbeData
<1>3. dev_a' = Append(dev_a, m)
  BY Zenon DEF HubRequest, Forward
<1> HIDE DEF m
<1>4. Cardinality(Writebacks(dev_a)) = Cardinality(Writebacks(dev_a'))
  BY SMTT(40), <1>1, <1>2, <1>3, WritebacksAppend, WritebacksFinite, MessageTypes
<1> QED BY Zenon, <1>4, MoveProbes DEF HubRequest, hosts, sequencer

\* An answer is counted when it is taken; dirty data is counted until it is written.
LEMMA TakeCProbes ==
    ASSUME Inv, NEW h \in Hosts, HubTakeC(h) PROVE Places' /\ Probed' /\ ProbesAccounted'
<1> USE DEF Inv
<1>1. /\ c' = [c EXCEPT ![h] = None] /\ UNCHANGED <<state, req, probe_pending, probe_param, b, dev_d, perm>>
      /\ c[h] # None
  BY Zenon DEF HubTakeC, Clear, sequencer, hosts
<1>2. c'[h].kind \notin ProbeAcks /\ \A k \in Hosts : k # h => c'[k] = c[k]
  BY Zenon, <1>1 DEF TypeOK, None, ProbeAcks
<1>3. Places' /\ Probed'
  BY <1>1, <1>2 DEF Places, Probed
<1>4. Unwritten' = Cardinality(Writebacks(dev_a')) + (IF dev_d # None /\ dropped THEN 1 ELSE 0)
  BY Zenon, <1>1 DEF Unwritten, Writebacks, dropped
<1>5. CASE c[h].kind \in ProbeAcks
  <2>1. h \notin probe_pending /\ b[h] = None
    BY Zenon, <1>5 DEF Places
  <2>2. Unanswered' = Unanswered \ {h} /\ h \in Unanswered
    BY Zenon, <1>1, <1>2, <1>5, <2>1 DEF Unanswered, ProbeAcks
  <2>3. Cardinality(Unanswered') = Cardinality(Unanswered) - 1
    BY Zenon, <2>2, CountsFinite, FS_RemoveElement
  <2>4. state = "Inv"
    BY Zenon, <1>5 DEF NoneAwaited, Calm
  <2>5. CASE c[h].kind = "ProbeAck"
    <3>1. probe_ack_pending' = probe_ack_pending - 1 /\ dev_a' = dev_a
      BY Zenon, <1>5, <2>5, TakeCCases, PendingStep
    <3>2. Unwritten' = Unwritten
      BY Zenon, <1>4, <3>1, CountsFinite
    <3> QED BY SMTT(40), <1>1, <1>3, <2>3, <2>4, <3>1, <3>2, CountsFinite DEF ProbesAccounted
  <2>6. CASE c[h].kind = "ProbeAckData"
    <3>1. probe_ack_pending' = probe_ack_pending /\ \E m \in Held : ProbeData(m) /\ dev_a' = Append(dev_a, m)
      BY Zenon, <2>6, TakeCCases
    <3>2. Cardinality(Writebacks(dev_a')) = Cardinality(Writebacks(dev_a)) + 1
      BY Zenon, <3>1, WritebacksAppend, MessageTypes
    <3>3. Unwritten' = Unwritten + 1
      BY <1>4, <3>2, CountsFinite
    <3>4. Unwritten \in Nat /\ Cardinality(Unanswered) \in Nat
      BY CountsFinite
    <3>5. Cardinality(Unanswered') + Unwritten' = Cardinality(Unanswered) + Unwritten
      BY <2>3, <3>3, <3>4
    <3> QED BY Zenon, <1>1, <1>3, <3>1, <3>5 DEF ProbesAccounted
  <2> QED BY Zenon, <1>5, <2>5, <2>6 DEF ProbeAcks
<1>6. CASE c[h].kind \notin ProbeAcks
  <2>1. Unanswered' = Unanswered
    BY Zenon, <1>1, <1>2, <1>6 DEF Unanswered, ProbeAcks
  <2>2. /\ probe_ack_pending' = probe_ack_pending
        /\ dev_a' = dev_a \/ \E m \in Held : ~ProbeData(m) /\ dev_a' = Append(dev_a, m)
    BY Zenon, <1>6, TakeCCases DEF ProbeAcks
  <2>3. Cardinality(Writebacks(dev_a')) = Cardinality(Writebacks(dev_a))
    <3>1. ASSUME NEW m \in Held, ~ProbeData(m), dev_a' = Append(dev_a, m)
          PROVE  Cardinality(Writebacks(dev_a')) = Cardinality(Writebacks(dev_a))
      BY <3>1, WritebacksAppend, MessageTypes, CountsFinite
    <3> QED BY Zenon, <2>2, <3>1
  <2>4. Unwritten' = Unwritten
    BY Zenon, <1>4, <2>3, CountsFinite
  <2> QED BY Zenon, <1>1, <1>3, <2>1, <2>2, <2>4 DEF ProbesAccounted
<1> QED BY Zenon, <1>5, <1>6

LEMMA TakeDevDProbes ==
    ASSUME Inv, HubTakeDevD PROVE Places' /\ Probed' /\ ProbesAccounted'
<1> USE DEF Inv
<1>1. /\ UNCHANGED <<state, req, probe_pending, probe_param, b, c, dev_a, perm>> /\ dev_d # None /\ dev_d' = None
      /\ IF dropped THEN CountAck ELSE probe_ack_pending' = probe_ack_pending
  BY Zenon DEF HubTakeDevD, sequencer, hosts
<1>2. Places' /\ Probed'
  BY Zenon, <1>1 DEF Places, Probed
<1>3. Unanswered' = Unanswered
  BY Zenon, <1>1 DEF Unanswered
<1>4. Unwritten' = Unwritten - (IF dropped THEN 1 ELSE 0)
  <2>1. Unwritten' = Cardinality(Writebacks(dev_a))
    BY <1>1, CountsFinite DEF Unwritten, Writebacks
  <2> QED BY SMTT(40), <1>1, <2>1, CountsFinite
<1>5. Unwritten \in Nat
  BY CountsFinite
<1>6. CASE dropped
  <2>1. state = "Inv" /\ probe_ack_pending' = probe_ack_pending - 1
    BY Zenon, <1>1, <1>6, PendingStep
  <2> QED BY SMTT(40), <1>1, <1>2, <1>3, <1>4, <1>5, <1>6, <2>1, CountsFinite DEF ProbesAccounted
<1>7. CASE ~dropped
  BY SMTT(40), <1>1, <1>2, <1>3, <1>4, <1>5, <1>7 DEF ProbesAccounted
<1> QED BY Zenon, <1>6, <1>7

LEMMA ServeProbes ==
    ASSUME Inv, NEW k, DevServe(k) PROVE Places' /\ Probed' /\ ProbesAccounted'
<1> USE DEF Inv
<1>1. /\ UNCHANGED <<state, req, probe_ack_pending, probe_pending, probe_param, b, c, perm>>
      /\ k \in 1 .. Len(dev_a) /\ dev_a[k] \in Held /\ dev_d = None /\ dev_a' = Without(dev_a, k)
  BY Zenon, MessageTypes DEF DevServe, core, sequencer, hosts
<1>2. /\ dev_d' # None /\ dev_d'.xact = dev_a[k].xact
      /\ dev_d'.kind = IF dev_a[k].kind = "Get" THEN "AccessAckData" ELSE "AccessAck"
  BY Zenon DEF DevServe, None
<1>3. dropped' <=> ProbeData(dev_a[k])
  BY Zenon, <1>1, <1>2 DEF dropped, ProbeData, Held
<1>4. Cardinality(Writebacks(dev_a')) = Cardinality(Writebacks(dev_a)) - (IF ProbeData(dev_a[k]) THEN 1 ELSE 0)
  BY Zenon, <1>1, WritebacksWithout, MessageTypes
<1>5. Unwritten' = Cardinality(Writebacks(dev_a')) + (IF dropped' THEN 1 ELSE 0)
  BY Zenon, <1>2 DEF Unwritten, Writebacks
<1>6. Unwritten' = Unwritten
  BY SMTT(40), <1>1, <1>3, <1>4, <1>5, CountsFinite
<1>7. Places' /\ Probed' /\ Unanswered' = Unanswered
  BY Zenon, <1>1 DEF Places, Probed, Unanswered
<1> QED BY Zenon, <1>1, <1>6, <1>7 DEF ProbesAccounted

LEMMA ProbesStep == ASSUME Inv, Next PROVE Places' /\ Probed' /\ ProbesAccounted'
<1> DEFINE Goal == Places' /\ Probed' /\ ProbesAccounted'
<1>0. ASSUME UNCHANGED <<state, req, probe_ack_pending, probe_pending, probe_param, b, c, dev_a, dev_d, perm>>
      PROVE  Goal
  BY Zenon, <1>0, ProbesLeft
<1>1. ASSUME NEW g \in Agents, HubAccept(g) PROVE Goal
  BY Zenon, <1>1, AcceptProbes
<1>2. CASE HubAllAcked \/ HubGrant \/ HubFinished
  BY Zenon, <1>2, MoveProbes DEF HubAllAcked, HubGrant, HubFinished, sequencer, hosts
<1>3. CASE HubRequest
  BY Zenon, <1>3, RequestProbes
<1>4. CASE HubTakeDevD
  BY Zenon, <1>4, TakeDevDProbes
<1>5. CASE HubSeesGrant
  BY Zenon, <1>0, <1>5 DEF HubSeesGrant, sequencer, hosts
<1>6. ASSUME NEW h \in Hosts, HubProbe(h) \/ HubTakeC(h) PROVE Goal
  BY Zenon, <1>6, ProbeProbes, TakeCProbes
<1>7. ASSUME NEW h \in Hosts, HubTakeE(h) PROVE Goal
  BY Zenon, <1>0, <1>7 DEF HubTakeE, sequencer, hosts
<1>8. ASSUME NEW k, DevServe(k) PROVE Goal
  BY Zenon, <1>8, ServeProbes
<1>9. ASSUME NEW g, NEW op, NEW line, NEW grow, NEW value, Ask(g, op, line, grow, value) PROVE Goal
  BY Zenon, <1>0, <1>9 DEF Ask, core, sequencer
<1>10. ASSUME NEW h \in Hosts, NEW op, NEW line, NEW grow, HostAcquire(h, op, line, grow) PROVE Goal
  BY Zenon, <1>9, <1>10 DEF HostAcquire
<1>11. ASSUME NEW op, NEW line, NEW value, DmaAsk(op, line, value) PROVE Goal
  BY Zenon, <1>9, <1>11 DEF DmaAsk
<1>12. ASSUME NEW h \in Hosts, NEW line \in Lines, HostDrop(h, line) \/ HostRelease(h, line) PROVE Goal
  BY Zenon, <1>12, HostProbes
<1>13. ASSUME NEW h \in Hosts, NEW line \in Lines, NEW value \in Values, HostWrite(h, line, value) PROVE Goal
  BY Zenon, <1>0, <1>13 DEF HostWrite, core, sequencer
<1>14. ASSUME NEW h \in Hosts, HostProbeAck(h) PROVE Goal
  BY Zenon, <1>14, ProbeAckProbes
<1>15. ASSUME NEW h \in Hosts, NEW value \in Values, HostTakeGrant(h, value) PROVE Goal
  BY Zenon, <1>15, TakeGrantProbes
<1>16. ASSUME NEW g \in Agents, AgentTakeD(g) PROVE Goal
  <2>1. UNCHANGED <<core, sequencer, b, c, dev_a, dev_d, perm>>
    BY Zenon, <1>16 DEF AgentTakeD
  <2> QED BY Zenon, <1>0, <2>1 DEF core, sequencer
<1> QED BY Zenon, <1>1, <1>2, <1>3, <1>4, <1>5, <1>6, <1>7, <1>8, <1>10, <1>11, <1>12, <1>13, <1>14, <1>15, <1>16
        DEF Next, Hub, Env

-----------------------------------------------------------------------------

LEMMA InitInv == Init => Inv
<1> SUFFICES ASSUME Init PROVE Inv
  BY Zenon
<1>1. TypeOK
  BY Zenon, InitTypes
<1>2. Kinds /\ Probed
  BY Zenon DEF Init, Kinds, Probed, Acquires, Cached
<1>3. Len(dev_a) = 0 /\ e = {} /\ ~Answers /\ \A g \in Agents : ~Grants(g)
  BY Zenon DEF Init, Answers, Grants, None
<1>4. InFlight /\ OneGrant
  <2>1. 1 .. Len(dev_a) = {}
    BY <1>3
  <2> QED BY Zenon, <1>3, <2>1 DEF InFlight, OneGrant
<1>5. probe_pending = {} /\ \A h \in Hosts : b[h] = None /\ c[h].kind \notin ProbeAcks
  BY Zenon DEF Init, None, ProbeAcks
<1>6. Places
  BY Zenon, <1>5 DEF Places
<1>7. Unanswered = {} /\ Writebacks(dev_a) = {}
  BY <1>3, <1>5 DEF Unanswered, ProbeAcks, Writebacks, Init
<1>8. ProbesAccounted
  <2>1. dev_d = None /\ state = "Idle"
    BY Zenon DEF Init
  <2>2. Unwritten = 0 /\ Cardinality(Unanswered) = 0
    BY SMTT(40), <1>1, <1>7, <2>1, CountsFinite, FS_EmptySet
  <2> QED BY <2>1, <2>2 DEF ProbesAccounted
<1>9. SingleWriter
  BY Zenon DEF Init, SingleWriter
<1> QED BY Zenon, <1>1, <1>2, <1>4, <1>6, <1>8, <1>9, Uncounted DEF Inv

LEMMA InvStep == Inv /\ [Next]_vars => Inv'
<1>0. TypeOK' /\ ProbesAccounted' => NoneAwaited'
  BY Uncounted, PTL
<1>1. ASSUME Inv, Next PROVE Inv'
  BY Zenon, <1>0, <1>1, TypeStep, KindsStep, GrantStep, ProbesStep, WriterStep DEF Inv
<1>2. ASSUME Inv, UNCHANGED vars PROVE Inv'
  <2>1. TypeOK'
    BY Zenon, <1>2 DEF Inv, vars, core, sequencer, hosts, TypeOK
  <2>4. Kinds' /\ SingleWriter'
    BY Zenon, <1>2 DEF Inv, vars, core, sequencer, hosts, Kinds, SingleWriter
  <2>2. Places' /\ Probed' /\ ProbesAccounted'
    BY Zenon, <1>2, ProbesLeft DEF vars, core, sequencer, hosts
  <2>3. InFlight' /\ OneGrant'
    BY Zenon, <1>2 DEF Inv, vars, core, InFlight, OneGrant, Serving, Answers, dropped, Grants
  <2> QED BY Zenon, <1>0, <2>1, <2>2, <2>3, <2>4 DEF Inv
<1> QED BY Zenon, <1>1, <1>2

\* Every register, channel and host of tl_broadcast.sv holds a value of its type,
\* for any number of hosts; probe_ack_pending_q never wraps.
THEOREM HubTypes == Spec => []TypeOK
<1>1. Inv => TypeOK
  BY Zenon DEF Inv
<1> QED BY <1>1, InitInv, InvStep, PTL DEF Spec

\* probe_ack_pending_q counts exactly the probes whose answer, or whose dirty data's
\* write, is on its way, whatever order the device serves its requests in.
THEOREM HubCounts == Spec => []ProbesAccounted
<1>1. Inv => ProbesAccounted
  BY Zenon DEF Inv
<1> QED BY <1>1, InitInv, InvStep, PTL DEF Spec

\* A host of tl_broadcast that may write a line is the only one that has it, for any
\* number of hosts and lines.
THEOREM HubSingleWriter == Spec => []SingleWriter
<1>1. Inv => SingleWriter
  BY Zenon DEF Inv
<1> QED BY <1>1, InitInv, InvStep, PTL DEF Spec

\* The copy that a host of tl_broadcast may read is the latest value written, for any
\* number of hosts, lines and values: with a device that serves requests in order,
\* or in any order if only the hosts write.
THEOREM HubCoherent == ASSUME KeepsOrder PROVE Spec => []CopiesAreCurrent
<1>1. Init => Inv /\ DataInv
  BY Zenon, InitInv, InitData
<1>2. (Inv /\ DataInv) /\ [Next]_vars => (Inv /\ DataInv)'
  BY Zenon, InvStep, DataStep
<1>3. Inv /\ DataInv => CopiesAreCurrent
  BY Zenon DEF DataInv, Current
<1> QED BY <1>1, <1>2, <1>3, PTL DEF Spec

\* When tl_broadcast passes a read on, the device will answer it with the latest
\* value: the owner's dirty data is in memory, or in the queue and written last.
THEOREM HubReads == ASSUME KeepsOrder PROVE Spec => ReadsAreCurrent
<1>1. Init => Inv /\ DataInv
  BY Zenon, InitInv, InitData
<1>2. (Inv /\ DataInv) /\ [Next]_vars => (Inv /\ DataInv)'
  BY Zenon, InvStep, DataStep
<1> DEFINE Reads == HubRequest /\ dev_a'[Len(dev_a')].kind = "Get" => DeviceValue(req.line) = golden[req.line]
<1>3. Inv /\ DataInv /\ [Next]_vars => [Reads]_vars
  <2> SUFFICES ASSUME Inv, DataInv, HubRequest PROVE DeviceValue(req.line) = golden[req.line]
    BY Zenon
  <2> DEFINE S == StoresIn(dev_a, req.line)
             Last(k) == \A i \in S : i <= k
  <2>1. WillHave(dev_a, mem[req.line], req.line, golden[req.line])
    BY Zenon, Quiet DEF HubRequest
  <2>2. Writes(req.line) = S /\ \A k \in S : k \in Nat
    BY MessageTypes DEF Writes, StoresIn, Stores, Inv
  <2>3. CASE S = {}
    BY Zenon, <2>1, <2>2, <2>3 DEF WillHave, DeviceValue
  <2>4. CASE S # {}
    <3>1. PICK k \in S : dev_a[k].value = golden[req.line] /\ Last(k)
      BY Zenon, <2>1, <2>4 DEF WillHave
    <3>2. \A i \in S : Last(i) => i = k
      BY <2>2, <3>1
    <3>3. (CHOOSE i \in S : Last(i)) = k
      BY Zenon, <3>1, <3>2
    <3> QED BY Zenon, <2>2, <2>4, <3>1, <3>3 DEF DeviceValue
  <2> QED BY Zenon, <2>3, <2>4
<1> QED BY <1>1, <1>2, <1>3, PTL DEF Spec, ReadsAreCurrent
===============================================================================
