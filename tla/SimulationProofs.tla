--------------------------- MODULE SimulationProofs ---------------------------
(* The ports answer on time, whatever the latency and the number of ports.   *)
EXTENDS Simulation, TLAPS

Response == [time : Nat, data : Data]

\* OnTime is not inductive: that a new response is later than the last in the
\* queue needs a bound on the times, one less in the second half of a cycle
\* than after it, except in cycle 0, which has two halves that take requests.
OnTimeInv ==
    /\ stage \in {"reset", "loop", "second", "done"}
    /\ cycle \in Nat
    /\ queue \in [Ports -> Seq(Response)]
    /\ stage = "reset" => cycle = 0 /\ \A p \in Ports : queue[p] = <<>>
    /\ OnTime
    /\ (stage \in {"loop", "second"} /\ cycle > 0) =>
          \A p \in Ports : \A i \in 1 .. Len(queue[p]) : queue[p][i].time < cycle + Latency

LEMMA InitOnTime == Init => OnTimeInv
BY DEF Init, SimInit, OnTimeInv, OnTime

\* The front of a queue of increasing times goes, or the queue stays: what is
\* left is later than the present cycle.
LEMMA PopOnTime ==
    ASSUME NEW q \in Seq(Response), NEW now \in Nat, NEW last \in Nat,
           \A i \in 1 .. Len(q) : q[i].time \in now .. last,
           \A i, j \in 1 .. Len(q) : i < j => q[i].time < q[j].time,
           NEW new, new = IF q # <<>> /\ Head(q).time <= now THEN Tail(q) ELSE q
    PROVE  /\ new \in Seq(Response)
           /\ \A i \in 1 .. Len(new) : new[i].time \in now + 1 .. last
           /\ \A i, j \in 1 .. Len(new) : i < j => new[i].time < new[j].time
           /\ \A i \in 1 .. Len(new) : \E j \in 1 .. Len(q) : new[i] = q[j]
<1>0. \A i \in 1 .. Len(q) : q[i] \in Response
  OBVIOUS
<1>1. \A i \in 1 .. Len(q) : q[i].time \in Nat
  BY <1>0 DEF Response
<1>2. CASE q # <<>> /\ Head(q).time <= now
  <2>1. new = Tail(q) /\ Len(q) \in Nat /\ Len(q) > 0 /\ Head(q) = q[1]
    BY <1>2
  <2>2. Len(new) = Len(q) - 1 /\ \A i \in 1 .. Len(new) : new[i] = q[i + 1]
    BY <2>1
  <2>3. \A i \in 1 .. Len(new) : i + 1 \in 1 .. Len(q)
    BY <2>1, <2>2
  <2>4. ASSUME NEW i \in 1 .. Len(new) PROVE new[i].time \in now + 1 .. last
    <3>1. q[1].time < q[i + 1].time /\ 1 \in 1 .. Len(q) /\ i + 1 \in 1 .. Len(q)
      BY <2>1, <2>3
    <3>2. q[1].time \in now .. last /\ q[i + 1].time \in now .. last
      BY <3>1
    <3> QED
      BY <2>2, <3>1, <3>2
  <2>5. ASSUME NEW i \in 1 .. Len(new), NEW j \in 1 .. Len(new), i < j PROVE new[i].time < new[j].time
    <3>1. i + 1 \in 1 .. Len(q) /\ j + 1 \in 1 .. Len(q) /\ i + 1 < j + 1
      BY <2>3, <2>5
    <3> QED
      BY <2>2, <3>1
  <2>6. new \in Seq(Response)
    BY <2>1
  <2> QED
    BY <2>2, <2>3, <2>4, <2>5, <2>6
<1>3. CASE ~(q # <<>> /\ Head(q).time <= now)
  <2>1. new = q
    BY <1>3
  <2>2. ASSUME NEW i \in 1 .. Len(q) PROVE q[i].time \in now + 1 .. last
    <3>1. Len(q) \in Nat /\ 1 \in 1 .. Len(q) /\ q # <<>> /\ Head(q) = q[1]
      OBVIOUS
    <3>2. q[1].time > now /\ q[1].time \in Nat
      BY <1>1, <1>3, <3>1
    <3>3. q[i].time \in now .. last /\ q[1].time <= q[i].time
      BY <1>1, <3>1
    <3> QED
      BY <3>2, <3>3
  <2> QED
    BY <2>1, <2>2
<1> QED
  BY <1>2, <1>3

\* A response with a later time than all that wait keeps the order.
LEMMA PushOnTime ==
    ASSUME NEW q \in Seq(Response), NEW lo \in Nat, NEW hi \in Nat, NEW r \in Response,
           \A i \in 1 .. Len(q) : q[i].time \in lo .. hi /\ q[i].time < r.time,
           \A i, j \in 1 .. Len(q) : i < j => q[i].time < q[j].time,
           r.time \in lo .. hi,
           NEW new, new = Append(q, r)
    PROVE  /\ new \in Seq(Response)
           /\ \A i \in 1 .. Len(new) : new[i].time \in lo .. hi
           /\ \A i, j \in 1 .. Len(new) : i < j => new[i].time < new[j].time
<1>1. new \in Seq(Response) /\ Len(q) \in Nat /\ Len(new) = Len(q) + 1
  OBVIOUS
<1>2. new[Len(q) + 1] = r /\ \A i \in 1 .. Len(q) : new[i] = q[i]
  OBVIOUS
<1>3. \A i \in 1 .. Len(new) : i \in 1 .. Len(q) \/ i = Len(q) + 1
  BY <1>1
<1>4. \A i \in 1 .. Len(new) : new[i].time \in lo .. hi
  BY <1>2, <1>3
<1>5. ASSUME NEW i \in 1 .. Len(new), NEW j \in 1 .. Len(new), i < j PROVE new[i].time < new[j].time
  <2>1. i \in 1 .. Len(q)
    BY <1>1, <1>5
  <2>2. CASE j \in 1 .. Len(q)
    BY <1>2, <1>5, <2>1, <2>2
  <2>3. CASE j = Len(q) + 1
    BY <1>2, <2>1, <2>3
  <2> QED
    BY <1>3, <2>2, <2>3
<1> QED
  BY <1>1, <1>4, <1>5

LEMMA FirstHalfOnTime == OnTimeInv /\ FirstHalf => OnTimeInv'
<1> SUFFICES ASSUME OnTimeInv, FirstHalf PROVE OnTimeInv'
  OBVIOUS
<1>1. stage = "loop" /\ stage' = "second" /\ cycle' = cycle /\ cycle \in Nat /\ Latency \in Nat \ {0}
  BY SimulationAssumption DEF FirstHalf, OnTimeInv
<1>2. queue' = [p \in Ports |-> IF due(p) THEN Tail(queue[p]) ELSE queue[p]] /\ queue \in [Ports -> Seq(Response)]
  BY DEF FirstHalf, set_outputs, OnTimeInv
<1>3. ASSUME NEW p \in Ports
      PROVE  /\ queue'[p] \in Seq(Response)
             /\ \A i \in 1 .. Len(queue'[p]) : queue'[p][i].time \in cycle + 1 .. cycle + Latency
             /\ \A i, j \in 1 .. Len(queue'[p]) : i < j => queue'[p][i].time < queue'[p][j].time
             /\ \A i \in 1 .. Len(queue'[p]) : \E j \in 1 .. Len(queue[p]) : queue'[p][i] = queue[p][j]
  <2> DEFINE q == queue[p]
             last == cycle + Latency
  <2>1. q \in Seq(Response) /\ last \in Nat
    BY <1>1, <1>2
  <2>2. /\ \A i \in 1 .. Len(q) : q[i].time \in cycle .. last
        /\ \A i, j \in 1 .. Len(q) : i < j => q[i].time < q[j].time
    BY <1>1 DEF OnTimeInv, OnTime, Earliest
  <2>3. queue'[p] = IF q # <<>> /\ Head(q).time <= cycle THEN Tail(q) ELSE q
    BY <1>2 DEF due
  <2> HIDE DEF q, last
  <2>4. /\ queue'[p] \in Seq(Response)
        /\ \A i \in 1 .. Len(queue'[p]) : queue'[p][i].time \in cycle + 1 .. last
        /\ \A i, j \in 1 .. Len(queue'[p]) : i < j => queue'[p][i].time < queue'[p][j].time
        /\ \A i \in 1 .. Len(queue'[p]) : \E j \in 1 .. Len(q) : queue'[p][i] = q[j]
    <3>1. q \in Seq(Response) /\ cycle \in Nat /\ last \in Nat
      BY <1>1, <2>1
    <3>2. \A i \in 1 .. Len(q) : q[i].time \in cycle .. last
      BY <2>2
    <3>3. \A i, j \in 1 .. Len(q) : i < j => q[i].time < q[j].time
      BY <2>2
    <3> DEFINE new == queue'[p]
    <3>4. new = IF q # <<>> /\ Head(q).time <= cycle THEN Tail(q) ELSE q
      BY <2>3
    <3> HIDE DEF new
    <3>5. /\ new \in Seq(Response)
          /\ \A i \in 1 .. Len(new) : new[i].time \in cycle + 1 .. last
          /\ \A i, j \in 1 .. Len(new) : i < j => new[i].time < new[j].time
          /\ \A i \in 1 .. Len(new) : \E j \in 1 .. Len(q) : new[i] = q[j]
      BY <3>1, <3>2, <3>3, <3>4, PopOnTime
    <3> QED
      BY <3>5 DEF new
  <2> QED
    BY <2>4 DEF q, last
<1>4. queue' \in [Ports -> Seq(Response)]
  BY <1>2, <1>3
<1>5. OnTime'
  BY <1>1, <1>3 DEF OnTime, Earliest
<1>6. cycle > 0 => \A p \in Ports : \A i \in 1 .. Len(queue'[p]) : queue'[p][i].time < cycle + Latency
  BY <1>1, <1>3 DEF OnTimeInv
<1> QED
  BY <1>1, <1>4, <1>5, <1>6 DEF OnTimeInv

\* The halves that take requests.
LEMMA GetInputsOnTime ==
    ASSUME OnTimeInv, stage \in {"reset", "second"},
           NEW got \in [Ports -> Data \cup {None}], get_inputs(got), NEW p \in Ports
    PROVE  /\ queue'[p] \in Seq(Response)
           /\ \A i \in 1 .. Len(queue'[p]) : queue'[p][i].time \in cycle + 1 .. cycle + Latency
           /\ \A i, j \in 1 .. Len(queue'[p]) : i < j => queue'[p][i].time < queue'[p][j].time
<1> DEFINE q == queue[p]
           hi == cycle + Latency
           lo == cycle + 1
<1>1. cycle \in Nat /\ q \in Seq(Response) /\ hi \in Nat /\ lo \in Nat /\ lo <= hi
  BY SimulationAssumption DEF OnTimeInv
<1>2. /\ \A i \in 1 .. Len(q) : q[i].time \in lo .. hi
      /\ \A i, j \in 1 .. Len(q) : i < j => q[i].time < q[j].time
  <2>1. CASE stage = "reset"
    BY <2>1 DEF OnTimeInv
  <2>2. CASE stage = "second"
    BY <2>2 DEF OnTimeInv, OnTime, Earliest
  <2> QED
    BY <2>1, <2>2
<1>3. queue'[p] = IF got[p] = None THEN q ELSE Append(q, [time |-> hi, data |-> got[p]])
  BY DEF get_inputs, queue_response, response_time
<1>4. got[p] # None => q = <<>> \/ \A i \in 1 .. Len(q) : q[i].time < hi
  <2>1. CASE cycle = 0
    BY <2>1 DEF get_inputs
  <2>2. CASE cycle > 0
    BY <2>2 DEF OnTimeInv
  <2> QED
    BY <1>1, <2>1, <2>2
<1> HIDE DEF q, hi, lo
<1>5. CASE got[p] = None
  BY <1>1, <1>2, <1>3, <1>5 DEF hi, lo
<1>6. CASE got[p] # None
  <2> DEFINE r == [time |-> hi, data |-> got[p]]
  <2>1. r \in Response /\ r.time = hi
    BY <1>1, <1>6 DEF Response
  <2>2. \A i \in 1 .. Len(q) : q[i].time \in lo .. hi /\ q[i].time < r.time
    BY <1>2, <1>4, <1>6, <2>1
  <2>3. r.time \in lo .. hi
    BY <1>1, <2>1
  <2>4. queue'[p] = Append(q, r)
    BY <1>3, <1>6
  <2> HIDE DEF r
  <2>5. /\ queue'[p] \in Seq(Response)
        /\ \A i \in 1 .. Len(queue'[p]) : queue'[p][i].time \in lo .. hi
        /\ \A i, j \in 1 .. Len(queue'[p]) : i < j => queue'[p][i].time < queue'[p][j].time
    <3>1. \A i, j \in 1 .. Len(q) : i < j => q[i].time < q[j].time
      BY <1>2
    <3>2. q \in Seq(Response) /\ lo \in Nat /\ hi \in Nat /\ r \in Response
      BY <1>1, <2>1
    <3> QED
      BY <2>2, <2>3, <2>4, <3>1, <3>2, PushOnTime, Zenon
  <2> QED
    BY <2>5 DEF lo, hi
<1> QED
  BY <1>5, <1>6

LEMMA BeforeLoopOnTime ==
    ASSUME OnTimeInv, NEW got \in [Ports -> Data \cup {None}], NEW code, BeforeLoop(got, code)
    PROVE  OnTimeInv'
<1>1. stage = "reset" /\ stage' = "loop" /\ cycle' = cycle /\ cycle = 0 /\ Latency \in Nat \ {0}
  BY SimulationAssumption DEF BeforeLoop, OnTimeInv
<1>2. \A p \in Ports :
        /\ queue'[p] \in Seq(Response)
        /\ \A i \in 1 .. Len(queue'[p]) : queue'[p][i].time \in cycle + 1 .. cycle + Latency
        /\ \A i, j \in 1 .. Len(queue'[p]) : i < j => queue'[p][i].time < queue'[p][j].time
  BY <1>1, GetInputsOnTime DEF BeforeLoop
<1>3. queue' \in [Ports -> Seq(Response)]
  BY <1>2 DEF BeforeLoop, get_inputs
<1>4. OnTime'
  BY <1>1, <1>2 DEF OnTime, Earliest
<1> QED
  BY <1>1, <1>3, <1>4 DEF OnTimeInv

LEMMA SecondHalfOnTime ==
    ASSUME OnTimeInv, NEW got \in [Ports -> Data \cup {None}], NEW code, SecondHalf(got, code)
    PROVE  OnTimeInv'
<1>1. stage = "second" /\ stage' = "loop" /\ cycle' = cycle + 1 /\ cycle \in Nat /\ Latency \in Nat \ {0}
  BY SimulationAssumption DEF SecondHalf, OnTimeInv
<1>2. \A p \in Ports :
        /\ queue'[p] \in Seq(Response)
        /\ \A i \in 1 .. Len(queue'[p]) : queue'[p][i].time \in cycle + 1 .. cycle + Latency
        /\ \A i, j \in 1 .. Len(queue'[p]) : i < j => queue'[p][i].time < queue'[p][j].time
  BY <1>1, GetInputsOnTime DEF SecondHalf
<1>3. queue' \in [Ports -> Seq(Response)]
  BY <1>2 DEF SecondHalf, get_inputs
<1>4. OnTime'
  BY <1>1, <1>2 DEF OnTime, Earliest
<1>5. \A p \in Ports : \A i \in 1 .. Len(queue'[p]) : queue'[p][i].time < cycle' + Latency
  BY <1>1, <1>2
<1> QED
  BY <1>1, <1>3, <1>4, <1>5 DEF OnTimeInv

LEMMA NextOnTime == OnTimeInv /\ [Next]_simVars => OnTimeInv'
<1> SUFFICES ASSUME OnTimeInv, [Next]_simVars PROVE OnTimeInv'
  OBVIOUS
<1>1. ASSUME NEW got \in [Ports -> Data \cup {None}], NEW code \in Codes \cup {None},
             BeforeLoop(got, code) \/ SecondHalf(got, code)
      PROVE  OnTimeInv'
  BY <1>1, BeforeLoopOnTime, SecondHalfOnTime
<1>2. CASE FirstHalf
  BY <1>2, FirstHalfOnTime
<1>3. CASE Leave
  BY <1>3 DEF Leave, OnTimeInv, OnTime
<1>4. CASE Die("exit(1)")
  BY <1>4 DEF Die, OnTimeInv, OnTime
<1>5. CASE UNCHANGED simVars
  BY <1>5 DEF simVars, OnTimeInv, OnTime, Earliest
<1> QED
  BY <1>1, <1>2, <1>3, <1>4, <1>5 DEF Next

\* Every port of a simulator answers in order and exactly when it should: no
\* response is ever overdue and no two are due in the same cycle, for every
\* latency, any number of ports and whatever the hardware requests.
THEOREM PortsOnTime == Spec => []OnTime
<1>1. Init => OnTimeInv
  BY InitOnTime
<1>2. OnTimeInv /\ [Next]_simVars => OnTimeInv'
  BY NextOnTime
<1>3. OnTimeInv => OnTime
  BY DEF OnTimeInv
<1> QED
  BY <1>1, <1>2, <1>3, PTL DEF Spec
=============================================================================
