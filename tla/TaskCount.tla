------------------------------ MODULE TaskCount ------------------------------
(***************************************************************************)
(* What the status of an EnvironmentBuild promises: the task count shown   *)
(* is 0 from the creation of the build, and then a number of tasks that    *)
(* did name the build at some time. No number is made up, and no user      *)
(* writes one.                                                             *)
(***************************************************************************)
EXTENDS Naturals

CONSTANT Builds

VARIABLES
    there,  \* the builds that exist
    number, \* number[b]: how many tasks name b
    past,   \* past[b]: the numbers b has had so far
    shown   \* shown[b]: the count in the status of b

vars == <<there, number, past, shown>>

Init ==
    /\ there = {}
    /\ number = [b \in Builds |-> 0]
    /\ past = [b \in Builds |-> {0}]
    /\ shown = number

ChangeTasks ==
    /\ number' \in [Builds -> Nat]
    /\ past' = [b \in Builds |-> past[b] \union {number'[b]}]
    /\ UNCHANGED <<there, shown>>

Create(b) ==
    /\ there' = there \union {b}
    /\ shown' = [shown EXCEPT ![b] = 0]
    /\ UNCHANGED <<number, past>>

Delete(b) ==
    /\ there' = there \ {b}
    /\ shown' = [shown EXCEPT ![b] = 0]
    /\ UNCHANGED <<number, past>>

Recount(b) ==
    /\ b \in there
    /\ \E n \in past[b] : shown' = [shown EXCEPT ![b] = n]
    /\ UNCHANGED <<there, number, past>>

Next == ChangeTasks \/ \E b \in Builds : Create(b) \/ Delete(b) \/ Recount(b)

Spec == Init /\ [][Next]_vars
=============================================================================
