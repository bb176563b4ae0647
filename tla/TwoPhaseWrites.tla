--------------------------- MODULE TwoPhaseWrites ---------------------------
(***************************************************************************)
(* What the two-phase confirmation of the write tools promises, without    *)
(* calls, locks or a map: a write is staged under a fresh id together with *)
(* the payload that will be executed and a deadline; it begins at most     *)
(* once, only from "staged" and only before the deadline; and while it is  *)
(* live nothing takes it away except a confirmation or a process restart.  *)
(* PendingStore and WriteTools are shown to implement this module.         *)
(***************************************************************************)
EXTENDS Naturals

CONSTANTS
    ID,         \* confirmation ids
    Payload,    \* the writes that can be staged
    NoPayload,  \* the payload of an id that stages nothing, not in Payload
    TTL         \* how long a staged write stays confirmable, a natural number

VARIABLES
    clock,      \* time
    stage,      \* [ID -> Stages]
    staged,     \* [ID -> Payload \cup {NoPayload}] what a confirmation executes
    deadline    \* [ID -> Nat]

avars == <<clock, stage, staged, deadline>>

Stages == {"unused", "staged", "running", "done", "void"}

Init ==
    /\ clock = 0
    /\ stage = [i \in ID |-> "unused"]
    /\ staged = [i \in ID |-> NoPayload]
    /\ deadline = [i \in ID |-> 0]

\* A request tool freezes p under the fresh id i until d.
Stage(i, p, d) ==
    /\ stage[i] = "unused"
    /\ d <= clock + TTL
    /\ stage' = [stage EXCEPT ![i] = "staged"]
    /\ staged' = [staged EXCEPT ![i] = p]
    /\ deadline' = [deadline EXCEPT ![i] = d]
    /\ UNCHANGED clock

\* The confirmation wins the id: the frozen payload may now be executed.
Begin(i) ==
    /\ stage[i] = "staged"
    /\ clock < deadline[i]
    /\ stage' = [stage EXCEPT ![i] = "running"]
    /\ UNCHANGED <<clock, staged, deadline>>

\* The execution ended, with or without an error.
Finish(i) ==
    /\ stage[i] = "running"
    /\ stage' = [stage EXCEPT ![i] = "done"]
    /\ UNCHANGED <<clock, staged, deadline>>

\* Some of the writes whose deadline has passed are forgotten.
Lapse ==
    /\ \E S \in SUBSET {i \in ID : stage[i] = "staged" /\ deadline[i] <= clock} :
         /\ S # {}
         /\ stage' = [i \in ID |-> IF i \in S THEN "void" ELSE stage[i]]
    /\ UNCHANGED <<clock, staged, deadline>>

\* The process restarts: nothing staged survives, and what ran stays unknown.
Restart ==
    /\ stage' = [i \in ID |-> CASE stage[i] = "staged"  -> "void"
                                [] stage[i] = "running" -> "done"
                                [] OTHER                -> stage[i]]
    /\ UNCHANGED <<clock, staged, deadline>>

Tick == clock' = clock + 1 /\ UNCHANGED <<stage, staged, deadline>>

Next ==
    \/ \E i \in ID, p \in Payload, d \in 0 .. clock + TTL : Stage(i, p, d)
    \/ \E i \in ID : Begin(i)
    \/ \E i \in ID : Finish(i)
    \/ Lapse
    \/ Restart
    \/ Tick

Spec == Init /\ [][Next]_avars
=============================================================================
