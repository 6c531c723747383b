---------------------------- MODULE PodTemplates ----------------------------
(***************************************************************************)
(* How the Task controller makes a pod, a service and an ingress out of an *)
(* EnvironmentBuild and a Task, in memory that objects may share.          *)
(*                                                                         *)
(* An object in memory refers to its maps, slices and the structs that hold *)
(* them: to such a part belongs who allocated it. The informer cache has    *)
(* one build for all handlers, and a handler works on a deep copy of it and *)
(* writes into the parts of that copy. Were one of them still the           *)
(* informer's, the cached build would change with it.                       *)
(*                                                                         *)
(* When tasks are reconciled, retried and deleted is TaskController's      *)
(* part; here a task is scheduled once, by as many runs as it takes.       *)
(***************************************************************************)
EXTENDS Naturals, Sequences

CONSTANTS
    Tasks,
    BuildName,      \* the build all tasks name
    Texts,          \* what users write into names, values and paths
    Empty,          \* one of them: the empty string
    Templates,      \* the specs users give the build
    TaskSpecs,      \* and their tasks
    None            \* no such object

VARIABLES
    stored,         \* the spec of the build
    tasks,          \* tasks[t]: the stored Task
    cache,          \* the informer cache: a build and the tasks
    run,            \* the handler: its task, its next step, its copies
    pods, services, ingresses,
    interrupted     \* the tasks some run of which ended early

vars == <<stored, tasks, cache, run, pods, services, ingresses, interrupted>>

-----------------------------------------------------------------------------
(* Types. A map is a function; the nil map is the empty one. *)

Values == Texts \union Tasks \union {BuildName}
Keys == {"userID", "envBuildName", "opsmate.io/task", "app"}
Maps == UNION {[K -> Values] : K \in SUBSET Keys}

EnvVar == [name : {"OPSMATE_TOKEN", "OPSMATE_SESSION_NAME", "OPSMATE_DB_URL"} \union Texts,
           value : Values]
VolumeMount == [name : {"database"} \union Texts, mountPath : Texts]
Container == [env : Seq(EnvVar), mounts : Seq(VolumeMount)]
PodSpec == [containers : Seq(Container), volumes : Seq({"database"} \union Texts)]
PodTemplateSpec == [labels : Maps, spec : PodSpec]
ServiceSpec == [selector : Maps, ports : SUBSET Nat]

EnvironmentBuildSpec ==
    [podAnnotations : Texts, podTemplate : PodTemplateSpec, service : ServiceSpec,
     ingressTLS : BOOLEAN, ingressTargetPort : Nat, databaseVolumePath : Texts]

TaskSpec == [userID : Texts, domainName : Texts, ingressSecretName : Texts,
             ingressAnnotations : Texts]

\* scheduled: the reason of the condition TaskPodScheduled.
Task == [spec : TaskSpec, state : {"PENDING", "SCHEDULED"},
         scheduled : {"PodNotScheduled", "PodScheduled"}]

Pod == [labels : Maps, annotations : Texts, spec : PodSpec]
Ingress == [host : Texts, annotations : Texts, service : Tasks, port : Nat,
            tls : BOOLEAN, secretName : Texts]

Steps == {"createPod", "createService", "createIngress", "announce", "updateStatus"}

\* Objects in memory.
Owners == {"informer", "handler"}
Part(S) == [owner : Owners, val : S]
BuildObject ==
    [podAnnotations : Part(Texts), podTemplate : Part(PodTemplateSpec),
     service : Part(ServiceSpec),
     ingressTLS : BOOLEAN, ingressTargetPort : Nat, databaseVolumePath : Texts]
TaskSpecObject == [userID : Texts, domainName : Texts, ingressSecretName : Texts,
                   ingressAnnotations : Part(Texts)]
TaskObject == [spec : TaskSpecObject, state : {"PENDING", "SCHEDULED"},
               scheduled : Part({"PodNotScheduled", "PodScheduled"})]

\* read: the version of the task, as the API server has it.
Run == [task : Tasks, step : Steps, build : BuildObject, job : TaskObject, read : Task]

ASSUME TemplatesAssumption == /\ Templates \subseteq EnvironmentBuildSpec
                              /\ TaskSpecs \subseteq TaskSpec
                              /\ Empty \in Texts
ASSUME NoneAssumption == None \notin Task \union TaskObject /\ None \notin Run /\ None \notin Pod
                            /\ None \notin ServiceSpec /\ None \notin Ingress

\* What users write into a build is not the token of a task, which is minted when
\* the task is accepted, nor its name.
ASSUME TextsAssumption ==
    /\ Texts \intersect Tasks = {}
    /\ \A spec \in Templates :
          LET containers == spec.podTemplate.spec.containers
          IN  \A i \in DOMAIN containers : \A j \in DOMAIN containers[i].env :
                    containers[i].env[j].value \in Texts

TypeOK ==
    /\ stored \in EnvironmentBuildSpec
    /\ tasks \in [Tasks -> Task \union {None}]
    /\ cache \in [build : BuildObject, tasks : [Tasks -> TaskObject \union {None}]]
    /\ run \in Run \union {None}
    /\ pods \in [Tasks -> Pod \union {None}]
    /\ services \in [Tasks -> ServiceSpec \union {None}]
    /\ ingresses \in [Tasks -> Ingress \union {None}]
    /\ interrupted \subseteq Tasks

-----------------------------------------------------------------------------
(* Memory. *)

Held(owner, val) == [owner |-> owner, val |-> val]
Copied(part) == Held("handler", part.val)

\* What an informer makes of what it receives, and an update sends.
DecodedBuild(spec) ==
    [spec EXCEPT !.podAnnotations = Held("informer", @), !.podTemplate = Held("informer", @),
                 !.service = Held("informer", @)]
DecodedTask(task) ==
    [task EXCEPT !.spec.ingressAnnotations = Held("informer", @),
                 !.scheduled = Held("informer", @)]
EncodedTask(task) ==
    [task EXCEPT !.spec.ingressAnnotations = @.val, !.scheduled = @.val]

\* Not the code: PodTemplate.DeepCopyInto is forgotten.
BugTemplateShared(in) ==
    [in EXCEPT !.podAnnotations = Copied(@), !.service = Copied(@)]

\* The generated deep copies. in is assigned first, with all its parts; then the
\* copy gets parts of its own.
BuildSpecDeepCopyInto(in) ==
    [in EXCEPT !.podAnnotations = Copied(@), !.podTemplate = Copied(@), !.service = Copied(@)]
TaskSpecDeepCopyInto(in) == [in EXCEPT !.ingressAnnotations = Copied(@)]

\* Not the code: the slice of conditions is assigned.
BugConditionsShared(in) == in

TaskStatusDeepCopyInto(in) == [in EXCEPT !.scheduled = Copied(@)]

EnvironmentBuildDeepCopy(in) == BuildSpecDeepCopyInto(in)
TaskDeepCopy(in) == TaskStatusDeepCopyInto([in EXCEPT !.spec = TaskSpecDeepCopyInto(@)])

\* When the informer drops an object for a newer one, the parts a handler shared
\* with it are the handler's alone.
LeftBuild(build) ==
    [build EXCEPT !.podAnnotations = Copied(@), !.podTemplate = Copied(@), !.service = Copied(@)]
LeftTask(task) ==
    [task EXCEPT !.spec.ingressAnnotations = Copied(@), !.scheduled = Copied(@)]

Delivered(t) == IF tasks[t] = None THEN None ELSE DecodedTask(tasks[t])

Init ==
    /\ stored \in Templates
    /\ tasks = [t \in Tasks |-> None]
    /\ cache = [build |-> DecodedBuild(stored), tasks |-> tasks]
    /\ run = None
    /\ pods = tasks
    /\ services = tasks
    /\ ingresses = tasks
    /\ interrupted = {}

-----------------------------------------------------------------------------
(* Users and informers. *)

EditBuild(spec) ==
    /\ stored' = spec
    /\ UNCHANGED <<tasks, cache, run, pods, services, ingresses, interrupted>>

CreateTask(t, spec) ==
    /\ tasks[t] = None
    /\ tasks' = [tasks EXCEPT ![t] = [spec |-> spec, state |-> "PENDING",
                                      scheduled |-> "PodNotScheduled"]]
    /\ UNCHANGED <<stored, cache, run, pods, services, ingresses, interrupted>>

SeeBuild ==
    /\ cache.build # DecodedBuild(stored)
    /\ cache' = [cache EXCEPT !.build = DecodedBuild(stored)]
    /\ run' = IF run = None THEN None ELSE [run EXCEPT !.build = LeftBuild(@)]
    /\ UNCHANGED <<stored, tasks, pods, services, ingresses, interrupted>>

SeeTask(t) ==
    /\ cache.tasks[t] # Delivered(t)
    /\ cache' = [cache EXCEPT !.tasks[t] = Delivered(t)]
    /\ run' = IF run # None /\ run.task = t THEN [run EXCEPT !.job = LeftTask(@)] ELSE run
    /\ UNCHANGED <<stored, tasks, pods, services, ingresses, interrupted>>

-----------------------------------------------------------------------------
(* The handler. *)

\* Get copies the cached objects.
Reconcile(t) ==
    /\ run = None
    /\ cache.tasks[t] # None
    /\ run' = [task |-> t,
               step |-> IF cache.tasks[t].state = "PENDING" THEN "createPod" ELSE "announce",
               build |-> EnvironmentBuildDeepCopy(cache.build),
               job |-> TaskDeepCopy(cache.tasks[t]), read |-> EncodedTask(cache.tasks[t])]
    /\ UNCHANGED <<stored, tasks, cache, pods, services, ingresses, interrupted>>

At(step) == run # None /\ run.step = step

\* The handler writes into a part of its build.
Write(part, new, step) ==
    /\ run' = [run EXCEPT !.build[part].val = new, !.step = step]
    /\ cache' = IF run.build[part].owner = "informer"
                THEN [cache EXCEPT !.build[part].val = new] ELSE cache

Skip(step) == run' = [run EXCEPT !.step = step] /\ UNCHANGED cache

\* The child is there and the cache shows it, or it is not there or not seen
\* yet; in the latter case Create finds that it exists, which is no error.
Created(child, new) == IF child = None THEN new ELSE child

OwnEnv(build, t) ==
    <<[name |-> "OPSMATE_TOKEN", value |-> t], [name |-> "OPSMATE_SESSION_NAME", value |-> t]>>
        \o IF build.databaseVolumePath = Empty THEN <<>>
           ELSE <<[name |-> "OPSMATE_DB_URL", value |-> build.databaseVolumePath]>>

\* Not the code: the volume is mounted by a name it does not have.
BugMountName(build) ==
    IF build.databaseVolumePath = Empty THEN <<>>
    ELSE <<[name |-> "db", mountPath |-> build.databaseVolumePath]>>

OwnMounts(build) ==
    IF build.databaseVolumePath = Empty THEN <<>>
    ELSE <<[name |-> "database", mountPath |-> build.databaseVolumePath]>>

\* pod.Spec is a copy of the template's struct: its slice of containers is the
\* build's.
FilledTemplate(build, t) ==
    LET template == build.podTemplate.val
        filled(c) == [env |-> c.env \o OwnEnv(build, t), mounts |-> c.mounts \o OwnMounts(build)]
    IN  [template EXCEPT !.spec.containers = [i \in DOMAIN @ |-> filled(@[i])]]

\* The labels of the template are replaced.
PodLabels(t) ==
    [k \in {"userID", "envBuildName", "opsmate.io/task"} |->
        CASE k = "userID" -> run.job.spec.userID
          [] k = "envBuildName" -> BuildName
          [] k = "opsmate.io/task" -> t]

CreatePod ==
    LET t == run.task
        template == FilledTemplate(run.build, t)
        pod == [labels |-> PodLabels(t), annotations |-> run.build.podAnnotations.val,
                spec |-> [template.spec EXCEPT !.volumes = Append(@, "database")]]
    IN  /\ At("createPod")
        /\ \/ pods[t] # None /\ Skip("createService") /\ UNCHANGED pods
           \/ /\ Write("podTemplate", template, "createService")
              /\ pods' = [pods EXCEPT ![t] = Created(@, pod)]
        /\ UNCHANGED <<stored, tasks, services, ingresses, interrupted>>

\* Not the code: only a selector made here gets the label.
BugLabelsNewOnly(selector, t) ==
    IF DOMAIN selector = {} THEN [k \in {"opsmate.io/task"} |-> t] ELSE selector

\* The selector is the build's map; a nil one is made first.
WithTaskLabel(selector, t) ==
    [k \in DOMAIN selector \union {"opsmate.io/task"} |->
        IF k = "opsmate.io/task" THEN t ELSE selector[k]]

CreateService ==
    LET t == run.task
        service == [run.build.service.val EXCEPT !.selector = WithTaskLabel(@, t)]
    IN  /\ At("createService")
        /\ \/ services[t] # None /\ Skip("createIngress") /\ UNCHANGED services
           \/ /\ IF DOMAIN run.build.service.val.selector = {}
                 THEN Skip("createIngress")
                 ELSE Write("service", service, "createIngress")
              /\ services' = [services EXCEPT ![t] = Created(@, service)]
        /\ UNCHANGED <<stored, tasks, pods, ingresses, interrupted>>

\* Not the code: the build is read again.
BugReadsAgain == cache.build.ingressTargetPort

TargetPort == run.build.ingressTargetPort

CreateIngress ==
    LET t == run.task
        spec == run.job.spec
        ingress == [host |-> spec.domainName, annotations |-> spec.ingressAnnotations.val,
                    service |-> t, port |-> TargetPort, tls |-> run.build.ingressTLS,
                    secretName |-> IF run.build.ingressTLS THEN spec.ingressSecretName ELSE Empty]
    IN  /\ At("createIngress")
        /\ run' = [run EXCEPT !.step = "updateStatus", !.job.state = "SCHEDULED"]
        /\ \/ (spec.domainName = Empty \/ ingresses[t] # None) /\ UNCHANGED ingresses
           \/ /\ spec.domainName # Empty
              /\ ingresses' = [ingresses EXCEPT ![t] = Created(@, ingress)]
        /\ UNCHANGED <<stored, tasks, cache, pods, services, interrupted>>

\* The pod is pending: SetStatusCondition changes the condition in place, in the
\* slice the handler has.
Announce ==
    /\ At("announce")
    /\ run' = [run EXCEPT !.step = "updateStatus", !.job.scheduled.val = "PodScheduled"]
    /\ cache' = IF run.job.scheduled.owner = "informer"
                THEN [cache EXCEPT !.tasks[run.task].scheduled.val = "PodScheduled"] ELSE cache
    /\ UNCHANGED <<stored, tasks, pods, services, ingresses, interrupted>>

\* A conflict if the task is not stored as it was read.
UpdateStatus ==
    /\ At("updateStatus")
    /\ tasks' = [tasks EXCEPT ![run.task] = IF @ = run.read THEN EncodedTask(run.job) ELSE @]
    /\ run' = None
    /\ UNCHANGED <<stored, cache, pods, services, ingresses, interrupted>>

\* A call fails, or the manager goes and comes back with a new cache.
Interrupt ==
    /\ run # None
    /\ interrupted' = interrupted \union {run.task}
    /\ run' = None
    /\ cache' \in {cache, [build |-> DecodedBuild(stored),
                           tasks |-> [t \in Tasks |-> Delivered(t)]]}
    /\ UNCHANGED <<stored, tasks, pods, services, ingresses>>

Next ==
    \/ \E spec \in Templates : EditBuild(spec)
    \/ \E t \in Tasks : \/ \E spec \in TaskSpecs : CreateTask(t, spec)
                        \/ SeeTask(t)
                        \/ Reconcile(t)
    \/ SeeBuild
    \/ CreatePod \/ CreateService \/ CreateIngress \/ Announce \/ UpdateStatus
    \/ Interrupt

Spec == Init /\ [][Next]_vars

-----------------------------------------------------------------------------

\* No handler writes into the informer cache, though it writes into containers,
\* selectors and conditions it got from there: the cached build is one that
\* users wrote, and a cached task shows no condition before the API server has
\* it (zz_generated.deepcopy.go:13-241; task_controller.go:244, 545-597, 651).
CacheIsStored ==
    /\ \E spec \in Templates : cache.build = DecodedBuild(spec)
    /\ \A t \in Tasks : cache.tasks[t] # None /\ cache.tasks[t].scheduled.val = "PodScheduled"
            => tasks[t].scheduled = "PodScheduled"

\* In every container of a task's pod the values that count, the last ones, of
\* the token and the session are those of the task, and those of no other task
\* appear at all (task_controller.go:566-581).
Effective(env, name) ==
    LET set == {i \in DOMAIN env : env[i].name = name}
    IN  {env[i].value : i \in {j \in set : \A k \in set : k <= j}}

PodsCarryOwnValues ==
    \A t \in Tasks : pods[t] # None =>
        \A i \in DOMAIN pods[t].spec.containers :
            LET env == pods[t].spec.containers[i].env
            IN  /\ Effective(env, "OPSMATE_TOKEN") = {t}
                /\ Effective(env, "OPSMATE_SESSION_NAME") = {t}
                /\ \A j \in DOMAIN env : env[j].value \notin Tasks \ {t}

\* A service sends no request to the pod of another task, whatever selector the
\* build has, and reaches its own pod unless the build's selector keeps it from
\* that (task_controller.go:537-564, 647-651).
Selects(selector, pod) ==
    \A k \in DOMAIN selector : k \in DOMAIN pod.labels /\ pod.labels[k] = selector[k]

ServicesSelectOwnPods ==
    \A t, u \in Tasks : services[t] # None /\ pods[u] # None =>
        /\ Selects(services[t].selector, pods[u]) => t = u
        /\ t = u /\ DOMAIN services[t].selector = {"opsmate.io/task"}
                => Selects(services[t].selector, pods[u])

\* Unless a run for it was interrupted, a task gets a pod, a service and an
\* ingress of one and the same version of the build, users editing it or not:
\* the ingress points at a port its service has, the volumes mounted are there,
\* the annotations are that version's (task_controller.go:149-178).
OfVersion(t, spec) ==
    /\ pods[t] # None =>
          LET template == spec.podTemplate.spec
          IN  /\ pods[t].annotations = spec.podAnnotations
              /\ pods[t].spec.volumes = Append(template.volumes, "database")
              /\ \A i \in DOMAIN pods[t].spec.containers :
                    pods[t].spec.containers[i].mounts
                        = template.containers[i].mounts \o OwnMounts(spec)
    /\ services[t] # None => services[t].ports = spec.service.ports
    /\ ingresses[t] # None => /\ ingresses[t].port = spec.ingressTargetPort
                              /\ ingresses[t].tls = spec.ingressTLS

ChildrenAreOfOneVersion ==
    \A t \in Tasks \ interrupted : \E spec \in Templates : OfVersion(t, spec)

-----------------------------------------------------------------------------
(* The inductive invariant behind them. *)

\* What users wrote into a task stays.
CacheOK ==
    /\ stored \in Templates
    /\ CacheIsStored
    /\ \A t \in Tasks : cache.tasks[t] # None
            => tasks[t] # None /\ cache.tasks[t].spec = DecodedTask(tasks[t]).spec

\* The handler's build is spec, but for what it has made children of so far.
Copies(spec) ==
    /\ run.build.podAnnotations.val = spec.podAnnotations
    /\ run.build.ingressTLS = spec.ingressTLS
    /\ run.build.ingressTargetPort = spec.ingressTargetPort
    /\ run.build.databaseVolumePath = spec.databaseVolumePath
    /\ run.build.service.val.ports = spec.service.ports
    /\ run.step = "createPod" => run.build.podTemplate.val = spec.podTemplate
    /\ run.step \in {"createPod", "createService"} => run.build.service.val = spec.service

\* All parts of the handler's copies are its own.
Owns ==
    /\ \A part \in {"podAnnotations", "podTemplate", "service"} :
            run.build[part].owner = "handler"
    /\ run.job.spec.ingressAnnotations.owner = "handler"
    /\ run.job.scheduled.owner = "handler"

HandlerOK ==
    run # None =>
        /\ Owns
        /\ \E spec \in Templates : Copies(spec)
        /\ tasks[run.task] # None
        /\ run.read.spec = tasks[run.task].spec /\ EncodedTask(run.job).spec = run.read.spec
        /\ run.read.scheduled = "PodScheduled" => run.job.scheduled.val = "PodScheduled"

\* The label a service selects its pod by.
Labelled(map, t) == "opsmate.io/task" \in DOMAIN map /\ map["opsmate.io/task"] = t

LabelsOK ==
    \A t \in Tasks : /\ pods[t] # None => Labelled(pods[t].labels, t)
                     /\ services[t] # None => Labelled(services[t].selector, t)

\* A task has all children, or none, or those its handler has made so far.
Complete(t) == /\ tasks[t] # None /\ pods[t] # None /\ services[t] # None
               /\ ingresses[t] # None \/ tasks[t].spec.domainName = Empty

RunOf(t, steps) == run # None /\ run.task = t /\ run.step \in steps

Untouched(t) == /\ pods[t] = None /\ services[t] = None /\ ingresses[t] = None
                /\ ~RunOf(t, {"createService", "createIngress"})

InProgress(t, spec) ==
    /\ RunOf(t, {"createService", "createIngress"})
    /\ Copies(spec)
    /\ pods[t] # None
    /\ (services[t] = None) <=> (run.step = "createService")
    /\ ingresses[t] = None

VersionsOK ==
    \A t \in Tasks \ interrupted : \E spec \in Templates :
        OfVersion(t, spec) /\ (Complete(t) \/ Untouched(t) \/ InProgress(t, spec))

IInv == TypeOK /\ CacheOK /\ HandlerOK /\ LabelsOK /\ PodsCarryOwnValues /\ VersionsOK
=============================================================================
