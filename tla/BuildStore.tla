----------------------------- MODULE BuildStore -----------------------------
(***************************************************************************)
(* What the EnvironmentBuild controller and the REST service share: the    *)
(* environment builds and tasks the API server stores, and the informer    *)
(* caches of the processes that read them.                                 *)
(*                                                                         *)
(* An informer watches one kind through one ordered stream. A manager      *)
(* counts tasks together, so that their order matters: feed[m] holds the   *)
(* changes m has not seen yet. What is looked at one object at a time is   *)
(* brought up to the stored version when a delivery comes.                 *)
(***************************************************************************)
EXTENDS Naturals, Sequences, FiniteSets

CONSTANTS
    Builds,     \* names of EnvironmentBuilds
    BuildSpecs, \* what users write into one
    Tasks,      \* names of Tasks
    Unnamed,    \* an environmentBuildName no build has: the empty string
    NoTask,     \* instead of a build's name: there is no such task
    Managers,   \* the processes with a cache: replicas of cmd/manager
    Services,   \* and of cmd/apiserver
    MaxFaults   \* bound: failed calls and process exits, in all

ASSUME NamesAssumption == /\ Unnamed \notin Builds
                          /\ NoTask \notin Builds \union {Unnamed}
                          /\ "none" \notin BuildSpecs
                          /\ IsFiniteSet(Tasks)
ASSUME ProcessesAssumption == Managers \intersect Services = {}
ASSUME FaultsAssumption == MaxFaults \in Nat

VARIABLES
    builds,     \* builds[b]: the stored EnvironmentBuild
    tasks,      \* tasks[t]: the build the stored task t names, or NoTask
    watching,   \* the processes that are up
    cbuilds,    \* cbuilds[p], ctasks[p]: what the informers of p hold
    ctasks,
    feed,       \* feed[m]: changes of tasks on their way to m
    faults      \* calls failed and processes stopped so far

storeVars == <<builds, tasks, watching, cbuilds, ctasks, feed, faults>>
Processes == Managers \union Services

cacheVars == <<watching, cbuilds, ctasks>>

\* rv goes on counting when a build is deleted and created again.
Build == [there : BOOLEAN, rv : Nat, spec : BuildSpecs \union {"none"}, count : Nat]

NoBuild == [there |-> FALSE, rv |-> 0, spec |-> "none", count |-> 0]

TaskRefs == Builds \union {Unnamed, NoTask}

NoBuilds == [b \in Builds |-> NoBuild]
NoTasks == [t \in Tasks |-> NoTask]

\* The tasks the index of SetupWithManager files under b; a task without a
\* build name is filed nowhere.
Indexed(ts, b) == {t \in Tasks : ts[t] = b /\ b # Unnamed}

Number(ts, b) == Cardinality(Indexed(ts, b))

StoreTypeOK ==
    /\ builds \in [Builds -> Build]
    /\ tasks \in [Tasks -> TaskRefs]
    /\ watching \subseteq Processes
    /\ cbuilds \in [Processes -> [Builds -> Build]]
    /\ ctasks \in [Processes -> [Tasks -> TaskRefs]]
    /\ feed \in [Managers -> Seq([task : Tasks, ref : TaskRefs])]
    /\ faults \in Nat

StoreInit ==
    /\ builds = NoBuilds
    /\ tasks = NoTasks
    /\ watching = {}
    /\ cbuilds = [p \in Processes |-> NoBuilds]
    /\ ctasks = [p \in Processes |-> NoTasks]
    /\ feed = [m \in Managers |-> <<>>]
    /\ faults = 0

Fault == faults < MaxFaults /\ faults' = faults + 1

-----------------------------------------------------------------------------
(* The API server. *)

\* Every version of an object has a resourceVersion of its own; a write that
\* changes nothing makes no new version.
StoreBuild(b, new) ==
    builds' = IF [new EXCEPT !.rv = builds[b].rv] = builds[b] THEN builds
              ELSE [builds EXCEPT ![b] = [new EXCEPT !.rv = builds[b].rv + 1]]

\* Not the code: a type without the status subresource.
BugStatusKept(body) == [there |-> TRUE, rv |-> 0, spec |-> body.spec, count |-> body.count]

\* A new object has no status: EnvironmentBuild has the status subresource.
NewBuild(body) == [there |-> TRUE, rv |-> 0, spec |-> body.spec, count |-> 0]

\* Update and Status().Update are refused (NotFound, Conflict) unless obj is the
\* version that is stored.
Accepted(b, obj) == builds[b].there /\ builds[b].rv = obj.rv

\* Update leaves the status alone, Status().Update everything else.
StoreSpec(b, obj) == StoreBuild(b, [builds[b] EXCEPT !.spec = obj.spec])
StoreStatus(b, obj) == StoreBuild(b, [builds[b] EXCEPT !.count = obj.count])

StoreTask(t, ref) ==
    /\ tasks' = [tasks EXCEPT ![t] = ref]
    /\ feed' = [m \in Managers |->
                    IF m \in watching THEN Append(feed[m], [task |-> t, ref |-> ref])
                                      ELSE feed[m]]

-----------------------------------------------------------------------------
(* Informers. *)

\* A process that starts lists everything before it does anything.
Watch(p) ==
    /\ p \notin watching
    /\ watching' = watching \union {p}
    /\ cbuilds' = [cbuilds EXCEPT ![p] = builds]
    /\ ctasks' = [ctasks EXCEPT ![p] = tasks]
    /\ UNCHANGED <<builds, tasks, feed>>

Unwatch(p) ==
    /\ p \in watching
    /\ watching' = watching \ {p}
    /\ cbuilds' = [cbuilds EXCEPT ![p] = NoBuilds]
    /\ ctasks' = [ctasks EXCEPT ![p] = NoTasks]
    /\ feed' = [m \in Managers |-> IF m = p THEN <<>> ELSE feed[m]]
    /\ UNCHANGED <<builds, tasks>>

ReceiveBuild(p, b) ==
    /\ p \in watching
    /\ cbuilds[p][b] # builds[b]
    /\ cbuilds' = [cbuilds EXCEPT ![p][b] = builds[b]]
    /\ UNCHANGED <<builds, tasks, watching, ctasks, feed, faults>>

ReceiveTask(s, t) ==
    /\ s \in watching \intersect Services
    /\ ctasks[s][t] # tasks[t]
    /\ ctasks' = [ctasks EXCEPT ![s][t] = tasks[t]]
    /\ UNCHANGED <<builds, tasks, watching, cbuilds, feed, faults>>

ReceiveInOrder(m) ==
    /\ feed[m] # <<>>
    /\ ctasks' = [ctasks EXCEPT ![m][Head(feed[m]).task] = Head(feed[m]).ref]
    /\ feed' = [feed EXCEPT ![m] = Tail(@)]
    /\ UNCHANGED <<builds, tasks, watching, cbuilds, faults>>
=============================================================================
