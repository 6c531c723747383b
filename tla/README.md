# Verification of opsmate-operator

This directory holds a TLA+ development of the operator: models of its
controllers, configurations that check them with TLC on small instances, and
proofs that TLAPS checks for every value of the constants. Source references
are to files of the repository; `tc:` stands for
`internal/controller/task_controller.go`.

## The system

| part | state it keeps | operations | talks to |
|---|---|---|---|
| Task controller, `tc` | none of its own; `status` of each Task, one pod, service and ingress per Task | `Reconcile` with one handler per state, the API calls they make | API server (writes), informer caches (reads), work queue |
| its `createPod`, `createService`, `createIngress`, tc:514-758, with the generated deep copies of `api/v1alpha1` | memory that objects may share with the informer cache | fill the templates of an EnvironmentBuild in with the values of a Task | informer cache, API server |
| EnvironmentBuild controller, `eb` | `status.taskCount` of each EnvironmentBuild | `Reconcile` (list tasks by index, count, write), `enqueueTaskRequests` | the same caches, API server, work queue |
| REST API service, `svc` | none; a cache behind its client | list, get, create, update, delete builds; get, create, delete tasks; `Healthz` | API server, HTTP clients |
| Processes, `cmd/manager`, `cmd/apiserver` | which of them run, which manager leads | start, leader election, exit | signals, lease |
| API types, `api/v1alpha1`, and API documentation, `pkg/api/v1alpha1/docs` | Task, EnvironmentBuild | defaults and validation through the CRDs | - |

`eb:` stands for `internal/controller/environmentbuild_controller.go`, `svc:` for
`pkg/api/v1alpha1/service.go`.

Users create Tasks (through the service or `kubectl`). The Task controller is
run whenever a Task or one of its children changes in its cache (`For`,
`Owns`, tc:492-498), when a requeue it asked for comes due, after an error with
back-off, and on the resync of the cache. It decides on **cached** objects and
acts on the **stored** ones. The EnvironmentBuild controller runs for every change of a
build or of a task that names one (eb:86-93), with a cache of each. The service
reads a third cache and writes past it.

What makes it hard, and what makes it correct:

* reads are stale, for an arbitrary time and independently for each object; the
  only protection is the resourceVersion check on the status write. *Correct*:
  a task only ever moves along the life cycle of `TaskLifecycle`.
* a handler makes up to four API calls, any of which may fail or be applied
  without an answer, and the process may die between them; what it did is found
  again through `AlreadyExists` and through names. *Correct*: children belong to
  the task, tokens match, a failed task leaves nothing behind.
* a handler is run again only if something makes it: an event, a Result, an
  error. *Correct*: no wake-up is lost, every task that waits for the
  controller moves.
* names are used again by later incarnations of a task. *Correct*: handlers that
  read the old one do no harm to the new one.
* deadlines (ten seconds to provision, TTL) race with the events they wait for.
* the EnvironmentBuild controller compares two caches that are not in step, and
  returns early if they agree. *Correct*: a difference is always found again, the count
  converges, and it is never a number the build did not have.
* PUT reads a build, lets others write, and writes. *Correct*: what it
  replaces is what it read, and the count in its body is ignored.
* the pods of all tasks of a build are filled in from one cached object. *Correct*: no
  value of one task gets into the cache or the pod of another.

`PROJECT.json` lists the hazards one by one at their source lines.

## Modules

| module | what it is |
|---|---|
| `TaskLifecycle` | abstract specification: states of a task, edges between them, who may take them, when it may own resources |
| `TaskController` | the model of the Task controller and its surroundings |
| `TaskProperties` | invariants, action and liveness properties, refinement mapping, inductive invariants |
| `MCTaskController` | values of the constants for TLC; four runs and four counterexamples |
| `TaskControllerProofs` | type correctness, inductive invariant, safety theorems |
| `TaskRefinementProofs` | the controller implements `TaskLifecycle` |
| `TaskTokenProofs` | whose token and address a task publishes, and that they stay |
| `PodTemplates` | how pods, services and ingresses are made from a build and a task, with the memory they share; its properties |
| `MCPodTemplates` | two builds and two tasks for TLC |
| `PodTemplatesProofs` | its inductive invariant, and every property above it |
| `BuildStore` | the API server and the informers, as the build controller and the service share them |
| `BuildController` | the EnvironmentBuild controller in its managers; extends `BuildStore` |
| `ApiDocs` | the generated documentation of the service: answers and schemas |
| `ApiService` | the REST service; extends `BuildStore` and `ApiDocs` |
| `TaskCount` | abstract specification: what the count of a build promises |
| `Operator` | `BuildController` and `ApiService` over one store, `kubectl`, fairness, properties |
| `MCOperator` | values of the constants for TLC; one run and two counterexamples |
| `OperatorProofs` | its inductive invariant, and its safety properties |
| `OperatorRefinementProofs` | the controllers and the service implement `TaskCount` |

### State of TaskController

* `etcd[n]`, `child[n][k]`: what the API server stores for the task named `n` and
  its children of the three kinds. A task has a `uid` (its incarnation; 0: no
  object), an `rv` (its resourceVersion, which goes on counting over deletion), the
  two fields of its spec handlers branch on, and its status. A child
  has the uid in its controller reference, the `OPSMATE_TOKEN` of a pod, a phase,
  and whether the TTL has elapsed since its creation. Kubernetes gives names one
  object at a time, so a name stands for the object.
* `cache[n]`, `cchild[n][k]`: what the informers of the manager hold.
* `queue`, `timer`: names to be reconciled now, and later (RequeueAfter or the rate
  limiter's back-off; the delay itself is not modelled, a timer may fire at once).
* `work[n]`: the API call a reconciliation is at, with the handler's copy of the
  task. Status writes come in three modes, by what becomes of their result:
  returned by `updateTaskStatus`, returned by the bare `Status().Update` of a
  pending pod (tc:250-257), or dropped by `stateRunning` (tc:279).
* `born`, `aged`, `spent`: incarnations so far, which of them are older than
  ten seconds, disturbances so far.

### Actions

`Reconcile(n)` is the part of a reconciliation up to its first API write: it takes
the name from the queue, reads the caches, and either finishes with a Result or
leaves a plan in `work[n]`. One disjunct per handler: `InitStatus` (status init),
`StatePending`, `StateScheduled`, `StateRunning`, `StateTerminating`,
`StateNotFound`, `StateError`. Then one step per API call: `CreateChild`
(createPod, createService, createIngress with their own cache lookups),
`UpdateStatus`, `DeleteCall`. Each call can succeed, be refused, or fail
with or without having taken effect (a `fault`).

The machinery: `DeliverTask`, `DeliverChild` (watch events), `TimerFires`,
`Resync`, `RestartManager`. The surroundings: `CreateTask`, `EditTask`, `DeleteTask`
(users), `LoseChild`, `CollectGarbage`, `Kubelet`, `TenSecondsPass`, `TTLElapses`.

### Abstractions of TaskController

* A watch event brings the cached copy to the present version. Versions it
  overtakes are coalesced; since a delivery may be late by any amount, a handler
  can still see every version, at every later moment.
* A handler's reads of the caches before its first write are one step. The lookups
  in `createPod`, `createService`, `createIngress` happen with the respective call.
* The environment build is chosen anew each time `statePending` reads it, out of
  four: missing, usable, with a pod template the API server rejects, with a service
  that never gets a cluster IP. The reasons for which creating a child fails
  share one value of `status.reason`.
* Tokens are recycled: `uuid.New()` takes one that occurs nowhere. Seven are enough:
  with one task at most six occur when one is minted. The address of a pod is
  represented by its token.
* The TTL is a fact about a pod that becomes true once, the ten seconds one about
  an incarnation. Pods disappear at once (no grace period). `PodUnknown` and
  unknown phases, which the kubelet no longer reports, are left out.
* One manager with one worker: `MaxConcurrentReconciles` is not set
  and the chart runs one replica with leader election.
* The empty `status.state` is written `UNSET`, an empty reason `none`.
* Events, logs and metrics are left out; the contents of the children are in
  `PodTemplates`.

### PodTemplates

One informer cache, one handler (`run`) that walks through `createPod`,
`createService`, `createIngress` and the status write of `statePending`, or through the
condition that `stateScheduled` sets while the pod is pending (`Announce`). Each of the three
reads its part of the build in the handler's copy and writes into it where the
code does: containers (tc:566-597), the selector (tc:647-651), the condition (tc:242-254).

Objects in memory refer to their maps, slices and nested structs. Each such *part* of a build or a
task has an owner, the informer that decoded it or the handler that allocated it, beside
its value. `EnvironmentBuildDeepCopy` and `TaskDeepCopy` are the generated functions as
operations on objects: all parts are assigned first, then each gets an allocation of its
own (`Copied`). `Write` and `Announce` write into the part the handler's copy refers to; if
that is the informer's, the cached object changes too, and with it every later copy. So one
assignment forgotten in a deep copy puts the token of one task into the pod of the next, as
the mutants `BugTemplateShared` and `BugConditionsShared` show.

A container has environment and mounts, a template labels, containers and volumes, a
service a selector and ports. A token and a session name are those of a task, so that
the task's name stands for them. Tasks are not deleted here, and a task is scheduled once; a
failed call or a crash ends a run (`Interrupt`), a later run goes on. A map the build leaves
nil is the function with an empty domain.

### BuildStore, BuildController, ApiService, Operator

* `builds[b]`: resourceVersion, spec and count of a stored build; `tasks[t]`: the
  build a stored task names. `EnvironmentBuild` has the status subresource: `Update` keeps
  the count, `Status().Update` keeps the spec, creation starts from 0.
* `cbuilds[p]`, `ctasks[p]`: the informer caches of process `p`. Processes are
  `Managers` and `Services`; one is up if it is in `watching`. The tasks
  reach a manager in the order of their changes (`feed`), since it counts
  them together; builds, and everything in a service, are looked at one by one, and a
  delivery brings them up to date.
* `queue`, `timer`, `work`: as in `TaskController`, per manager. `Reconcile` is the
  read, the comparison and the decision to write; `UpdateStatus` is the
  write: made, refused (a conflict is requeued, `NotFound` returned as an error) or
  failed, with or without having been made.
* `lead`: the managers whose controllers run; at most one with `--leader-elect`. The
  lease is not modelled, its effect is: a manager that goes leaves what it was sending behind
  (`adrift`), and that may land when its successor has counted already.
* `req[c]`: the request of connection `c`, with the statuses of the bodies written for
  it. A handler is one step that reads the cache and answers or goes on, and for those
  that write a second one, `Call`. `GetTask` writes two bodies on an error, as it does in
  the code.
* `CachedGet`: a cached read finds its object (200), does not (404), or fails (500): always for a
  kind the client's scheme lacks (`ClientKinds`), and as a fault for any other, since
  informers start with the first read of their kind and a request may be given up before they are
  in step.
* A body is `Malformed`, or it has the fields the model tells apart and one more property
  (`given`) of those the schemas list, in some JSON form. `Binds` says whether `ShouldBindJSON`
  takes it: a property in a form its Go type is read from. `GoForms` has the two types that read
  themselves, `metav1.Duration` and `intstr.IntOrString` (external code).
* `ApiDocs`: the statuses documented for each route, and the schemas of builds, tasks and
  services as properties filed under their types.
* `StopService`: `main` returns as soon as `Shutdown` has been called, requests in
  flight get no answer (`cmd/apiserver/main.go:80-90`).
* `Kubectl`: users create, edit and delete objects without the service; the
  build a task names can be changed in no other way.
* `past` is a history variable: the numbers of tasks a build has had, for `TaskCount`.

The spec of a build is one model value; bodies carry a count of their own (7), so that
a count a user set would be seen. A service lists all objects when it starts, where the code
starts an informer with the first read of its kind: a read that must wait for one and gets
in step reads what the API server had at some moment, as one that comes later does, and
a read that does not is the fault of `CachedGet`.

## Runs

The runs of `MCTaskController` have one task name; states of different names meet only in the
worker, which any one name may find busy for as long as a step of another takes, and this
delays `Reconcile` without disabling anything else.

| run | instance | shows |
|---|---|---|
| TaskDisturbed | with a domain and removed on failure, or neither; a usable build, or one that gives services no address; pods that run, exit, fail and succeed; TTL; at most one disturbance of any of the five kinds at any point | `TypeOK`, `TokensOK`, `UndisturbedTokenMatches`, `RunningIsAnnounced`, `NoLostWakeup`, `ImplementsLifecycle`, `PublishedTokensStay` |
| TaskReborn | two incarnations of one name, one deletion by a user; a build that is usable, or whose pod is rejected | `IInv`, `DeleteIsDue` |
| TaskProvision | fair; ten-second deadline, a pod that goes in and out of readiness, two disturbances (lost child, crash) | `LostChildIsNoticed` |
| TaskLiveness | fair; a build that is usable or missing, TTL, one deletion, fault or crash | `DoomedTasksGo`, `PendingTasksMove`, `ExpiredTasksStop`, `NothingIsLeft` |
| Operator | fair; one build, two specs, two tasks, one manager, one service, one connection; three requests or edits, one fault | `TypeOK`, `IInv`, `NoLostRecount`, `PutsAreExact`, `CountsWereTrue`, `CountsConverge` |
| PodTemplates | two tasks of one build; builds with and without database, selector, TLS and an `OPSMATE_TOKEN` of their own, tasks with and without a domain; any number of edits and interruptions | `TypeOK`, `IInv`, `CacheIsStored`, `PodsCarryOwnValues`, `ServicesSelectOwnPods`, `ChildrenAreOfOneVersion` |
| TaskToken, TaskNoDomain, TaskRevisited, TaskTTL, ApiScheme, ApiBodies | smallest instances that reach the case | the six disagreements below |

What some of the properties say:

* `PublishedTokensStay`: once a task has left PENDING, the token its status shows is that of its
  incarnation for good. `statePending` mints a token on each run, and only the resourceVersion
  check keeps the second from replacing the first. `TaskToken` shows what remains: the
  token may be one the pod was not given.
* `NoLostRecount`: a leader that sees a build with a count other than its cache of tasks
  gives will reconcile that build, or see a newer version of it. This is what the early return
  (eb:58) and the watches have to guarantee together.
* `CountsConverge`: once users stop, counts become right and stay so.
* `CountsWereTrue`: the refinement to `TaskCount`. A count shown is 0 at first, then a number of
  tasks that did name the build, whoever wrote it and however late.
* `PutsAreExact`: a PUT that answers 200 replaced the version it had read, with the
  client's spec and the controller's count; and the spec of a build that stays is changed by such a
  replacement only. So no status write brings an old spec back, however late it lands, and no PUT
  that was refused has changed one. A PUT that fails or is cut off may have replaced the spec, but
  then exactly.
* `DoomedTasksGo`, `PendingTasksMove`, `ExpiredTasksStop` and `NothingIsLeft` are checked with a
  crash and restart of the manager at any point, as well as with a deletion or a fault. `ExpiredTasksStop` speaks of
  RUNNING tasks and excepts those a call has failed for, which is what `TaskRevisited` and `TaskTTL`
  are about.
* `CacheIsStored`: the cached build is one that users wrote and a cached task shows no condition
  before it is stored, although handlers write into containers, selectors and conditions they got
  from there.
* `ChildrenAreOfOneVersion` excepts tasks with an interrupted run: the later run reads the
  build as it is then.
* `ServicesSelectOwnPods` asks a service to reach its pod if the build has no selector
  of its own: the labels of the pod template are replaced (tc:537-564), so that a selector on
  one of them reaches nothing.

Bounds. `MaxUid` bounds incarnations: one is all a life cycle needs, two are needed
for a handler that holds the old task while a new one has its name.
`MaxDisturbances` bounds edits, deletions by users, losses, faults and crashes together: one
shows what each does at every point, two show a loss meeting a crash. Versions,
queue and timers need no bound: every version costs a move of the life cycle or a
disturbance. The proofs have none of these bounds.

`MaxActs` bounds what clients and users do, `MaxFaults` failed calls, failed reads and exits. Three acts are
a build, a task and something that comes between the handling of one of them: a
deletion, an edit of the task, a PUT. The one fault may be a restart, a failed call or read, or a
late write. One connection has `kubectl` and the controller come between its read and its write; several
are covered by the proofs. Two tasks are needed for a count that is neither 0 nor the total, two specs to
tell whose was stored. `PodTemplates` has no bound but its sets: two tasks are
enough for one to get what is another's. Their names occur in no
other value, so that the run treats them as symmetric; no other run uses symmetry.

Deadlock is checked in `PodTemplates`. Elsewhere it is not: a task that is gone, or is a
failure to be kept, needs nothing, and users may stop.

`Fairness`: watch events are delivered, by an informer for each kind of object, timers fire, an API call
returns, the garbage collector and the clock go on (weak fairness). The queue is a FIFO
that serves a name even though others, or the same one, keep coming: strong fairness
of `Reconcile(n)`, as the worker is free again and again but not for good.
Nothing is assumed of users, kubelets, faults, crashes or of the resync: liveness does
not rest on the resync of the cache, whose period is ten hours by default.

The fairness of `Operator` is of the same kind: managers are restarted and lead, their
informers deliver, timers fire, calls return, a response is sent, a late write lands (weak);
`Reconcile` is served although others keep the worker busy (strong). Calls may fail, but
`MaxFaults` bounds how often. Services need not be restarted or informed.

## Findings

Six runs state what a comment, a documentation or a test of the repository says, and end
in a counterexample.

* **TaskToken** - a second run of `statePending` publishes a token the existing pod
  does not have (tc:161, tc:524-527). Without disturbances, and for the
  first task of a name, `UndisturbedTokenMatches` holds.
* **TaskNoDomain** - a task without the optional `domainName` is failed
  for its missing ingress (tc:228-240).
* **TaskRevisited** - `stateRunning` drops a failed status write and asks for no requeue
  (tc:276-281, tc:297-298), so nothing checks the TTL any more. This is why
  `NoLostWakeup` excepts a RUNNING task once a call has failed.
* **TaskTTL** - the TTL does not apply to a SCHEDULED task.
* **ApiScheme** - `NewService` adds the operator's kinds to the scheme of its cache, and not to
  that of its client (svc:28-64), which then knows no build and no task: every GET fails with
  500 and every write with 400. The tests give the service another client
  (service_test.go:75). `ClientKinds` is empty in this run, and has both kinds in the others,
  which show the service as it is tested.
* **ApiBodies** - the documentation has objects where the Go types read something else: the
  target port of a service is documented as `{intVal, strVal, type}` and read as a number or a
  string, the TTL of a task as `{"time.Duration": ...}` and read as a string. A client that
  follows it is answered 400.

Seen on reading, and not worth a run: a task that lost its pod ends in ERROR without a
reason (tc:297); PUT answers 500 when its cached read fails (svc:199-200), where its documentation has
200, 400 and 404 only; `GetTask` goes on after its error response and writes the empty task
behind it (svc:260-269). The model has all three, and `AnswersOK` names the last two as the only
ways in which answers leave their documentation.

## Proofs

TLAPS proves every safety invariant, action property and refinement of a passing run, for every
value of the constants their assumptions allow:

| module | theorems |
|---|---|
| TaskControllerProofs | `Inductive` (`[]IInv`), `Typing`, `WakeupsAreKept` (`[]NoLostWakeup`), `DeletesAreDue` (`DeleteIsDue`) |
| TaskRefinementProofs | `Refinement` (`ImplementsLifecycle`) |
| TaskTokenProofs | `TokensAreKept` (`[]TokensOK`), `RunningTasksAreAnnounced` (`[]RunningIsAnnounced`), `TokensMatch` (`[]UndisturbedTokenMatches`), `TokensStay` (`PublishedTokensStay`) |
| OperatorProofs | `Inductive`, `Typing`, `RecountsAreKept` (`[]NoLostRecount`), `PutsReplaceWhatTheyRead` (`PutsAreExact`), `AnswersAreKnown` (`[]AnswersOK`) |
| OperatorRefinementProofs | `Refinement` (`CountsWereTrue`) |
| PodTemplatesProofs | `Inductive`, `Typing`, `CachesAreRead` (`[]CacheIsStored`), `TokensAreOwn` (`[]PodsCarryOwnValues`), `ServicesReachOwnPods` (`[]ServicesSelectOwnPods`), `ChildrenFit` (`[]ChildrenAreOfOneVersion`) |

Each rests on an inductive invariant that TLC checks on an instance as well: the `IInv` of its
module, and `TokensOK` for tokens.

### Assumptions

* `TaskController`: five, which say that specs, views of builds, phases, deadlines and
  disturbances are what their names say, that the empty token is no token, and that the bounds
  are numbers. Sets of tasks and tokens are arbitrary.
* `Operator`: the names that mean *none* are no names of objects; the set of tasks is finite, since
  they are counted (builds, managers, services and clients need not be); no process is both a manager
  and a service; each client has its server; the client knows some of the kinds there are;
  bounds are numbers.
* `PodTemplates`: `None` is no object, and `TextsAssumption`: the values users write into the
  variables of a build are neither the name of a task nor the token minted for it.

No theorem has a hypothesis of its own.

### TaskController: wake-ups, deletions, life cycle

`NoLostWakeup` alone is not inductive: whether a dropped or
refused status write leaves a wake-up behind depends on what the handler read.
`IInv` says what is known of that. `VersionsOK`: the cached task is an earlier version of
the stored one, or is it; within an incarnation it has not overtaken it in the life
cycle. `PlansOK`: a running reconciliation holds a version the API server has seen; if the cached
copy has changed since, the name is queued again; if the stored one has not, what it
is about to write is a move of the life cycle (`MayWrite`); and a task about to be deleted
is TERMINATING, if it is the one that was read. `OwnersOK` and `PodsOK`: children belong to
accepted incarnations, and pods are in a phase `stateScheduled` knows.

The proof of preservation has three layers. *Outcome lemmas* reduce each handler to what
it leaves behind: a plan that satisfies `Planned`, a timer, or nothing for a task that
needs nothing. *Frame lemmas* say which variables each part of `IInv` depends on.
`StoresCore` treats every step that stores a new version of a task (status write,
deletion, creation, edit) once, through `NextVersion`. One lemma per action group then puts
these together. `TaskRefinementProofs` maps each step to one of `TaskLifecycle` or to
a stutter: `ReplacedState` and `Unreplaced` for steps that store a version, `ChildStep` for
steps that touch a child.

### TaskController: tokens

A token is in five places: in the status that is stored, in the cached one, in the one a handler
read, in the one it is about to write, and in the pod. `TokensOK` relates them, in two
parts. `Announces(n)` says of each copy that it shows what its state promises: the
conditions, token and address of a RUNNING task. This holds whatever is disturbed, as a
handler writes RUNNING only over a copy that had the rest, or adds it. `First(n)` is about the first
incarnation of a name that nothing has disturbed (`Quiet`): it has one pod and one
token, and every copy of either, wherever it is, is that one. `RunningIsAnnounced` follows from the
first, `UndisturbedTokenMatches` from both.

`Drafted` says what any handler puts into a status, from what it read, so that
`ReconcileTokens` does not look at the handlers again; `AlikeKeeps` is the frame lemma, for steps that
leave the copies of a name alike; `StillQuiet` says that a quiet state follows
a quiet state only, as disturbances are counted.

`PublishedTokensStay` holds disturbed or not, and needs `WritesKeepTokens` instead: a write that will be
taken was drafted from the stored version (`IInv` has that), and no handler but
`statePending` mints. `WritesKeepNext` proves that inductive relative to `IInv`.

### Operator

`NoLostRecount` needs to know what is about to be written: `WritesOK` says that the
count in a leader's write is that of its cache, or the build is queued again, and
`VersionsOK` that whatever was read is an earlier version, so that a write of another
count is refused or seen. `CallsOK` has the types of the requests that go on to a call, `AnswersOK`
what was written for each: documented statuses and single bodies but for PUT's 500 and `GetTask`'s
errors. `AnswersAreKnown` shows that for any scheme of the client and any failing read.

`PutsAreExact` follows from `VersionsOK`: what is accepted has the version it was read
as, and is then that very build (`PutReplaces`). `OtherWritesKeepSpecs` has every other write of a
build, late ones included, and `SpecsAndSteps` puts all steps together.

`CountsOK` is for the refinement: no count that a manager has, is writing, or has left
adrift may be new to `past`. What a manager will see next is hidden in
`feed`, so the invariant speaks of the whole `History` from the cached tasks through every
change under way to the stored tasks, each with its counts in `past`. `HistoryWritten`
appends to it, `HistoryReceived` drops its first.

Operator has some thirty actions and its invariant seven parts; instead of their product
the proof goes through *aspects of a step*: each action is shown once to be a `BuildStep` (what it
does to stored builds), a `CacheStep`, a `TaskStep`, a `RequestStep` and a `WorkStep`, and each part of the invariant is
shown to survive any step with these aspects (`CallsKept`, `AnswersKept`, `VersionsKept`, `CountsKept`, ...).

### PodTemplates

`CacheIsStored` rests on `Owns`, a part of `HandlerOK`: every part of a handler's copies is its own. The
deep copies establish it (`BuildCopyIs`, `TaskCopyIs`), and writes go to own parts only
(`WriteIsOwn`) and keep it, so that no step of a handler changes the cache. `LabelsOK` and `PodsCarryOwnValues` are about each object when it is made, for any number of
containers and variables (`FilledPodCarriesOwn`, `OwnValuesCount`: of several variables of
one name the last counts). `VersionsOK` says of a task that was not interrupted that its children are complete, none, or
those its handler has made so far out of a version it still has; one effect lemma per step
of the handler (`CreatePodEffect`, ...) carries it.

### Only model-checked

Liveness (`DoomedTasksGo`, `PendingTasksMove`, `ExpiredTasksStop`, `NothingIsLeft`,
`LostChildIsNoticed`, `CountsConverge`), which with fairness and `ENABLED` is beyond the
prover, and that the findings are reachable. Induction over data is beyond it too; nothing
here needs it, and no module has a `RECURSIVE` operator.

## Not modelled

* Metrics, logging, charts and manifests: output and configuration.
* Flags, TLS, CORS and probes of the two processes, which construct library objects. Of
  leader election only what its outcome is.
* `/swagger` and `/metrics`, and `Observe`, which measures a request.
* Deep copies of lists, which copy each item as modelled.
* The documented schemas of what a pod template holds, most of `v1alpha1_docs.go`; enumerations and
  descriptions in the others.
* A quantity of time: by how much a RUNNING task outlives its TTL.

## Plan

1. `TaskTimers`: the TTL with distances.
2. `Operator` has one replica in its instance, which is restarted; the module has any number, and
   so have its theorems. A standby with a cache of its own, under leader election, is an
   instance still to be added, for `CountsConverge`. Without leader election, the default of the flag, each of two managers
   corrects the other's count as long as their caches differ, and every correction is a new
   version: such an instance is not finite without a bound on versions that fairness respects.
3. Proofs: what remains of `First` for later incarnations of a name, whose handlers may find the
   pod of the one before.
