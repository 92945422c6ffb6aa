------------------------------- MODULE MCLLC -------------------------------
(* Instances of LLC for TLC. *)
EXTENDS LLC

CONSTANTS t1, t2

\* Hosts and the uncached client on one line, with pauses on channel D.
Share == [tags |-> {t1}, grows |-> {"NtoB", "NtoT", "BtoT"}, dma |-> {"Get", "GetLine", "Put"},
          probes |-> {}, stalls |-> {"d"}]

\* Hosts on two lines that evict each other.
Evict == [tags |-> {t1, t2}, grows |-> {"NtoB", "NtoT", "BtoT"}, dma |-> {}, probes |-> {}, stalls |-> {}]

\* Hosts on one line that the device probes.
Probed == [tags |-> {t1}, grows |-> {"NtoB", "BtoT"}, dma |-> {}, probes |-> {"toN", "toB"}, stalls |-> {}]

Shared == {Share}
SharedAndEvicted == {Share, Evict}
ProbedFromBelow == {Probed}
=============================================================================
