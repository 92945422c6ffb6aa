------------------------------ MODULE Simulation ------------------------------
(***************************************************************************)
(* What both simulators share: the loop of RISCVSimulation::run, the exit  *)
(* and timeout that end it, and the MemoryPorts that answer the simulated  *)
(* hardware a fixed number of cycles after each request.  The harness      *)
(* modules extend this one and say what a request does and returns.        *)
(*                                                                         *)
(* The loop adds 0.5 to `cycle' after each half; the ports are given its   *)
(* integer part, which is the same in both halves.                         *)
(***************************************************************************)
EXTENDS Integers, Sequences

CONSTANTS Ports,        \* the MemoryPorts of the harness
          Latency,      \* cycles from a request to its response
          Data,         \* what a response may carry
          Codes,        \* what a program may exit with
          None

ASSUME SimulationAssumption == Latency \in Nat \ {0}

VARIABLES stage,        \* a step of the start-up, "reset" before the loop, "loop" at its test,
                        \* "second" between the halves of a cycle, "done" at the end
          cycle, timeout,
          queue,        \* the responses that wait in each port
          shown,        \* the response each port drives in this cycle
          got_finish, exit_code,
          status        \* how the process ended

simVars == <<stage, cycle, timeout, queue, shown, got_finish, exit_code, status>>

SimInit ==
    /\ cycle = 0
    /\ queue = [p \in Ports |-> <<>>] /\ shown = [p \in Ports |-> None]
    /\ got_finish = FALSE /\ exit_code = 0 /\ status = "running"

\* Mutation: a response is sent a cycle after its time.
due_Late(p) == queue[p] # <<>> /\ Head(queue[p]).time < cycle

due(p) == queue[p] # <<>> /\ Head(queue[p]).time <= cycle

\* Each port clears what it drove and sends the response at the head of its
\* queue if its time has come.
set_outputs ==
    /\ shown' = [p \in Ports |-> IF due(p) THEN Head(queue[p]).data ELSE None]
    /\ queue' = [p \in Ports |-> IF due(p) THEN Tail(queue[p]) ELSE queue[p]]

\* Mutation: a response is due in the cycle of its request, which has been served.
response_time_Now == cycle

response_time == cycle + Latency

queue_response(p, data) == Append(queue[p], [time |-> response_time, data |-> data])

\* Each port takes a request if there is one; got[p] is the answer to it.  The
\* half before the loop and the second half of cycle 0 have the same time, and
\* a port has a request in at most one of them: the core's caches are clearing
\* their tags, and a pipeline has its only fetch outstanding.
get_inputs(got) ==
    /\ cycle = 0 => \A p \in Ports : got[p] # None => queue[p] = <<>>
    /\ queue' = [p \in Ports |-> IF got[p] = None THEN queue[p] ELSE queue_response(p, got[p])]
    /\ UNCHANGED shown

\* system_call: code is None when nothing was written to the host, or a character.
system_call(code) ==
    /\ exit_code' = IF code = None THEN exit_code ELSE code
    /\ got_finish' = (got_finish \/ code # None)

\* The half cycle between the reset and the loop.
BeforeLoop(got, code) ==
    /\ stage = "reset" /\ stage' = "loop"
    /\ get_inputs(got) /\ system_call(code)
    /\ UNCHANGED <<cycle, timeout, status>>

FirstHalf ==
    /\ stage = "loop" /\ stage' = "second"
    /\ ~got_finish /\ cycle < timeout
    /\ set_outputs
    /\ UNCHANGED <<cycle, timeout, got_finish, exit_code, status>>

SecondHalf(got, code) ==
    /\ stage = "second" /\ stage' = "loop"
    /\ get_inputs(got) /\ system_call(code)
    /\ cycle' = cycle + 1
    /\ UNCHANGED <<timeout, status>>

\* After the loop the time is compared again, before the exit code is looked at.
ending == IF cycle >= timeout THEN "timeout" ELSE "returned"

Leave ==
    /\ stage = "loop" /\ (got_finish \/ cycle >= timeout)
    /\ stage' = "done" /\ status' = ending
    /\ UNCHANGED <<cycle, timeout, queue, shown, got_finish, exit_code>>

\* exit(1), or an exception that nothing catches, while requests are taken.
Die(how) ==
    /\ stage \in {"reset", "second"} /\ stage' = "done" /\ status' = how
    /\ UNCHANGED <<cycle, timeout, queue, shown, got_finish, exit_code>>

\* The loop by itself: any answers and any exit.
Init == SimInit /\ stage = "reset" /\ timeout \in Nat
Next ==
    \/ \E got \in [Ports -> Data \cup {None}], code \in Codes \cup {None} :
           BeforeLoop(got, code) \/ SecondHalf(got, code)
    \/ FirstHalf
    \/ Leave
    \/ Die("exit(1)")

Spec == Init /\ [][Next]_simVars

-----------------------------------------------------------------------------
(* Properties *)

\* The earliest time a waiting response may have.
Earliest == IF stage = "second" THEN cycle + 1 ELSE cycle

\* A port with responses that wait sends one a cycle, and looks only at the
\* first: so their times must differ and none may have passed, or a response
\* is late and every one behind it too.
OnTime ==
    stage # "done" =>
        \A p \in Ports :
            /\ \A i \in 1 .. Len(queue[p]) : queue[p][i].time \in Earliest .. cycle + Latency
            /\ \A i, j \in 1 .. Len(queue[p]) : i < j => queue[p][i].time < queue[p][j].time

\* The simulation ends, whatever its command line and the hardware do: by the
\* exit of the program, by the timeout or by an error.
Terminates == <>(stage = "done")
=============================================================================
