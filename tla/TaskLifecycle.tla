---------------------------- MODULE TaskLifecycle ----------------------------
(***************************************************************************)
(* What the operator promises of one Task, without caches, queues, workers *)
(* or resource versions: the states of api/v1alpha1/task_types.go, the     *)
(* edges the handlers of task_controller.go draw between them, who may     *)
(* take them, and when a task may acquire a pod, a service or an ingress.  *)
(* TaskController implements it.                                           *)
(***************************************************************************)

CONSTANTS
    Tasks,      \* names of Task objects
    Kinds       \* kinds of object a task owns

VARIABLES
    life,       \* life[n]: the state of the task named n, NOT_FOUND if none
    keep,       \* keep[n]: the task must be kept when it has failed
    owned       \* owned[n]: the kinds of resource the present task owns

vars == <<life, keep, owned>>

States == {"UNSET", "PENDING", "SCHEDULED", "RUNNING", "TERMINATING", "ERROR",
           "NOT_FOUND"}

\* The edges the controller may draw. There is no way back, no way out of
\* TERMINATING but removal, and none into RUNNING but from SCHEDULED.
Moves == {<<"UNSET", "PENDING">>,
          <<"PENDING", "SCHEDULED">>,   <<"PENDING", "ERROR">>,
          <<"SCHEDULED", "RUNNING">>,   <<"SCHEDULED", "ERROR">>,
          <<"RUNNING", "TERMINATING">>, <<"RUNNING", "ERROR">>,
          <<"ERROR", "TERMINATING">>}

Init == /\ life = [n \in Tasks |-> "NOT_FOUND"]
        /\ keep = [n \in Tasks |-> FALSE]
        /\ owned = [n \in Tasks |-> {}]

Create(n) == /\ life[n] = "NOT_FOUND"
             /\ life' = [life EXCEPT ![n] = "UNSET"]
             /\ \E b \in BOOLEAN : keep' = [keep EXCEPT ![n] = b]
             /\ UNCHANGED owned

\* The controller moves a task along an edge; a failed task that is to be
\* kept stays where it is.
Advance(n) == /\ \E s \in States : /\ <<life[n], s>> \in Moves
                                   /\ life' = [life EXCEPT ![n] = s]
              /\ ~ (life[n] = "ERROR" /\ keep[n])
              /\ UNCHANGED <<keep, owned>>

\* A user may change the spec of a task that is there.
Respec(n) == /\ life[n] # "NOT_FOUND"
             /\ \E b \in BOOLEAN : keep' = [keep EXCEPT ![n] = b]
             /\ UNCHANGED <<life, owned>>

\* No resource before the task has been accepted (PENDING).
Provision(n, k) == /\ life[n] \notin {"NOT_FOUND", "UNSET"}
                   /\ owned' = [owned EXCEPT ![n] = @ \union {k}]
                   /\ UNCHANGED <<life, keep>>

Lose(n, k) == /\ owned' = [owned EXCEPT ![n] = @ \ {k}]
              /\ UNCHANGED <<life, keep>>

Remove(n) == /\ life[n] # "NOT_FOUND"
             /\ life' = [life EXCEPT ![n] = "NOT_FOUND"]
             /\ keep' = [keep EXCEPT ![n] = FALSE]
             /\ owned' = [owned EXCEPT ![n] = {}]

Next == \E n \in Tasks : \/ Create(n) \/ Advance(n) \/ Respec(n) \/ Remove(n)
                         \/ \E k \in Kinds : Provision(n, k) \/ Lose(n, k)

Spec == Init /\ [][Next]_vars
=============================================================================
