--------------------------- MODULE BuildController ---------------------------
(***************************************************************************)
(* The EnvironmentBuild controller, which keeps the number of tasks that   *)
(* use a build in its status, and the managers it runs in: replicas of     *)
(* cmd/manager of which one leads, or all if leader election is off.       *)
(*                                                                         *)
(* Modelled: Reconcile, its status write with conflicts and failures, both *)
(* watches, requeues, start, leadership and exit of a manager, the write   *)
(* of a manager that has gone and reaches the API server late.             *)
(***************************************************************************)
EXTENDS BuildStore

CONSTANT LeaderElect    \* the flag --leader-elect

ASSUME LeaderElectAssumption == LeaderElect \in BOOLEAN

VARIABLES
    lead,       \* the managers that run their controllers
    queue,      \* queue[m]: names of builds to reconcile
    timer,      \* timer[m]: those to be queued again
    work,       \* work[m]: the status write of the running Reconcile
    adrift      \* status writes whose sender has gone

controllerVars == <<lead, queue, timer, work, adrift>>

Requests == Builds \union {Unnamed}

\* A write of obj to the status of the build named name.
Write == [name : Builds, obj : Build]
Idle == [name |-> Unnamed, obj |-> NoBuild]
Busy(m) == work[m] # Idle

ControllerTypeOK ==
    /\ lead \subseteq Managers \intersect watching
    /\ queue \in [Managers -> SUBSET Requests]
    /\ timer \in [Managers -> SUBSET Requests]
    /\ work \in [Managers -> Write \union {Idle}]
    /\ adrift \subseteq Write

ControllerInit ==
    /\ lead = {}
    /\ queue = [m \in Managers |-> {}]
    /\ timer = queue
    /\ work = [m \in Managers |-> Idle]
    /\ adrift = {}

-----------------------------------------------------------------------------
(* Reconcile *)

Reconcile(m, b) ==
    LET build == cbuilds[m][b]
        count == Number(ctasks[m], b)
    IN  /\ b \in queue[m]
        /\ m \in lead
        /\ ~Busy(m)
        /\ queue' = [queue EXCEPT ![m] = @ \ {b}]
        /\ IF b = Unnamed \/ ~build.there \/ build.count = count
           THEN UNCHANGED work
           ELSE work' = [work EXCEPT ![m] =
                            [name |-> b, obj |-> [build EXCEPT !.count = count]]]
        /\ UNCHANGED <<storeVars, lead, timer, adrift>>

\* Not the code: an error is logged and not returned.
BugErrorDropped(m, again) ==
    /\ work' = [work EXCEPT ![m] = Idle]
    /\ UNCHANGED timer

Finish(m, again) ==
    /\ work' = [work EXCEPT ![m] = Idle]
    /\ timer' = [timer EXCEPT ![m] = @ \union again]

\* Status().Update. A conflict is requeued, any other error is returned, and
\* both bring the build back.
UpdateStatus(m) ==
    LET w == work[m]
        stored == Accepted(w.name, w.obj) /\ StoreStatus(w.name, w.obj)
    IN  /\ Busy(m)
        /\ \/ stored /\ Finish(m, {}) /\ UNCHANGED faults
           \/ /\ ~Accepted(w.name, w.obj)
              /\ Finish(m, {w.name})
              /\ UNCHANGED <<builds, faults>>
           \/ /\ Fault
              /\ stored \/ UNCHANGED builds
              /\ Finish(m, {w.name})
        /\ UNCHANGED <<tasks, cacheVars, feed, lead, queue, adrift>>

-----------------------------------------------------------------------------
(* Watches and queue *)

Enqueue(m, names) ==
    queue' = [queue EXCEPT ![m] = IF m \in lead THEN @ \union names ELSE @]

\* enqueueTaskRequests: the build a task names.
TaskRequests(ref) == {ref} \ {NoTask}

\* Not the code: For with GenerationChangedPredicate, which passes no change of
\* the status.
BugGenerationChanged(m, b) ==
    /\ ReceiveBuild(m, b)
    /\ IF cbuilds[m][b].spec = builds[b].spec THEN UNCHANGED queue ELSE Enqueue(m, {b})
    /\ UNCHANGED <<lead, timer, work, adrift>>

\* For: every change of a build, of its status too, queues it.
DeliverBuild(m, b) ==
    /\ ReceiveBuild(m, b)
    /\ Enqueue(m, {b})
    /\ UNCHANGED <<lead, timer, work, adrift>>

\* Watches: an update maps the old object and the new one.
DeliverTask(m) ==
    /\ ReceiveInOrder(m)
    /\ LET t == Head(feed[m]).task
       IN  Enqueue(m, TaskRequests(ctasks[m][t]) \union TaskRequests(ctasks'[m][t]))
    /\ UNCHANGED <<lead, timer, work, adrift>>

TimerFires(m, b) ==
    /\ b \in timer[m]
    /\ timer' = [timer EXCEPT ![m] = @ \ {b}]
    /\ queue' = [queue EXCEPT ![m] = @ \union {b}]
    /\ UNCHANGED <<storeVars, lead, work, adrift>>

-----------------------------------------------------------------------------
(* cmd/manager *)

StartManager(m) == Watch(m) /\ UNCHANGED <<faults, controllerVars>>

\* Not the code: controllers that do not wait for the caches.
BugLeadUnsynced(m) ==
    /\ m \in Managers \ lead
    /\ LeaderElect => lead = {}
    /\ lead' = lead \union {m}
    /\ UNCHANGED <<storeVars, queue, timer, work, adrift>>

\* The controllers start when their manager leads, and are then given every
\* object its caches hold.
Lead(m) ==
    /\ m \in (Managers \intersect watching) \ lead
    /\ LeaderElect => lead = {}
    /\ lead' = lead \union {m}
    /\ queue' = [queue EXCEPT ![m] =
                    {b \in Builds : cbuilds[m][b].there}
                        \union UNION {TaskRequests(ctasks[m][t]) : t \in Tasks}]
    /\ UNCHANGED <<storeVars, timer, work, adrift>>

\* A signal, a crash or a lost lease ends the process, whatever it is doing;
\* a call it has sent may still arrive.
StopManager(m) ==
    /\ Fault
    /\ Unwatch(m)
    /\ lead' = lead \ {m}
    /\ queue' = [queue EXCEPT ![m] = {}]
    /\ timer' = [timer EXCEPT ![m] = {}]
    /\ work' = [work EXCEPT ![m] = Idle]
    /\ adrift' \in {adrift, adrift \union (IF Busy(m) THEN {work[m]} ELSE {})}

LandStatus(w) ==
    /\ w \in adrift
    /\ adrift' = adrift \ {w}
    /\ IF Accepted(w.name, w.obj) THEN StoreStatus(w.name, w.obj) ELSE UNCHANGED builds
    /\ UNCHANGED <<tasks, cacheVars, feed, faults, lead, queue, timer, work>>

-----------------------------------------------------------------------------

ControllerStep(m) ==
    \/ \E b \in Requests : Reconcile(m, b) \/ TimerFires(m, b)
    \/ UpdateStatus(m)
    \/ \E b \in Builds : DeliverBuild(m, b)
    \/ DeliverTask(m)
    \/ StartManager(m) \/ Lead(m) \/ StopManager(m)

ControllerNext == \/ \E m \in Managers : ControllerStep(m)
                  \/ \E w \in adrift : LandStatus(w)
=============================================================================
