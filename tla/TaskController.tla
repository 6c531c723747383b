--------------------------- MODULE TaskController ---------------------------
(***************************************************************************)
(* The Task controller (internal/controller/task_controller.go) between    *)
(* the API server that stores Tasks, pods, services and ingresses, and the *)
(* informer caches the controller reads them from.                         *)
(*                                                                         *)
(* Modelled: every branch of Reconcile and of the state handlers, each API *)
(* call a handler makes as a step of its own, optimistic concurrency on    *)
(* the status write, work queue, delayed requeues, watch events, API       *)
(* faults, restarts of the manager, users who create, edit and delete      *)
(* tasks, pods that fail or disappear, the garbage collector, the clock.   *)
(*                                                                         *)
(* Abstracted: a token (uuid) is a value not used anywhere else; an object *)
(* carries what a handler branches on or a property looks at; a deadline   *)
(* is a fact that becomes true; a watch event brings the cached copy up to *)
(* the stored one, versions it overtakes being coalesced.                  *)
(***************************************************************************)
EXTENDS Naturals, FiniteSets

CONSTANTS
    Tasks,      \* names of Task objects; a task's children carry its name
    Specs,      \* the task specs users write: [domain, tof]
    EnvViews,   \* what the environment build a task names can turn out to be
    Phases,     \* the phases its pod can reach
    Deadlines,  \* the deadlines that can pass
    Tokens,     \* access tokens, uuid.New()
    NoToken,    \* the empty token
    MaxUid,     \* bound: incarnations of one task name
    Disturbances,     \* the kinds of disturbance a run may have
    MaxDisturbances   \* bound: how many of them in all

Kinds == {"pod", "service", "ingress"}

\* domain: DomainName is not empty.   tof: TerminateOnFailure.
TaskSpec == [domain : BOOLEAN, tof : BOOLEAN]

\* The environment build is missing, usable, has a pod template the API server
\* rejects, or a service that never gets a cluster IP (ExternalName).
AllEnvViews == {"NotFound", "Good", "BadPod", "NoIP"}

PodPhases == {"Pending",    \* not scheduled or starting
              "Starting",   \* Running, containers not ready
              "Ready",      \* Running, ContainersReady
              "Exited",     \* Running, a container has terminated
              "Succeeded", "Failed"}

\* Ten seconds since the creation of a task, its TTL since that of its pod.
AllDeadlines == {"provision", "ttl"}

\* A user edits or deletes a task, a child is lost (evicted, deleted by hand),
\* an API call fails, the manager crashes.
AllDisturbances == {"edit", "delete", "loss", "fault", "crash"}

ASSUME SpecsAssumption == Specs \subseteq TaskSpec
ASSUME EnvAssumption == EnvViews \subseteq AllEnvViews
ASSUME EnvironmentAssumption == /\ Phases \subseteq PodPhases
                                /\ Deadlines \subseteq AllDeadlines
ASSUME TokenAssumption == NoToken \notin Tokens
ASSUME BoundAssumption == /\ Disturbances \subseteq AllDisturbances
                          /\ MaxUid \in Nat
                          /\ MaxDisturbances \in Nat

VARIABLES
    etcd,       \* etcd[n]: the Task object the API server stores
    cache,      \* cache[n]: the controller's cached copy of it
    child,      \* child[n][k]: the stored pod, service, ingress named n
    cchild,     \* cchild[n][k]: their cached copies
    queue,      \* names in the work queue
    timer,      \* names that will be queued again: RequeueAfter, rate limiter
    work,       \* work[n]: where the reconciliation of n stands
    born,       \* born[n]: uid of the latest incarnation of n
    aged,       \* incarnations of n up to this one are over 10s old
    spent       \* spent[d]: disturbances of kind d so far

vars == <<etcd, cache, child, cchild, queue, timer, work, born, aged, spent>>
apiVars == <<etcd, child, born, spent>>
cacheVars == <<cache, cchild>>

-----------------------------------------------------------------------------
(* Task objects *)

States == {"UNSET", "PENDING", "SCHEDULED", "RUNNING", "TERMINATING", "ERROR",
           "NOT_FOUND"}

CondTypes == {"TaskPodScheduled", "TaskPodRunning", "TaskServiceUp",
              "IngressReady"}

Condition == [status : BOOLEAN,
              reason : {"none", "PodNotScheduled", "PodScheduled", "PodNotRunning",
                        "PodRunning", "ServiceNotUp", "ServiceUp",
                        "IngressNotReady", "IngressReady"}]

\* Why a task is in ERROR; "none" if it is not.
Reasons == {"none", "environment build not found", "failed to create",
            "pod creation timeout", "service creation timeout",
            "ingress creation timeout", "pod container error",
            "pod completed prematurely", "pod failed"}

Task == [uid : Nat, rv : Nat, spec : TaskSpec, state : States,
         token : Tokens \union {NoToken},   \* status.token
         ip : Tokens \union {NoToken},      \* whose pod's address is published
         refs : SUBSET Kinds,               \* status.pod, .service, .ingress
         reason : Reasons, conds : [CondTypes -> Condition]]

NoConditions == [c \in CondTypes |-> [status |-> FALSE, reason |-> "none"]]

\* meta.SetStatusCondition
SetCond(conds, c, status, reason) ==
    [conds EXCEPT ![c] = [status |-> status, reason |-> reason]]

\* A Task as the API server stores it when a user has created it: the status
\* subresource is empty, its state the empty string (UNSET).
NewTask(uid, rv, spec) ==
    [uid |-> uid, rv |-> rv, spec |-> spec, state |-> "UNSET", token |-> NoToken,
     ip |-> NoToken, refs |-> {}, reason |-> "none", conds |-> NoConditions]

\* No object (uid 0). rv still counts the versions of the name. NOT_FOUND is
\* the state Reconcile gives the synthetic task it makes when Get finds none.
NoTask(rv) ==
    [NewTask(0, rv, [domain |-> FALSE, tof |-> FALSE]) EXCEPT !.state = "NOT_FOUND"]

Present(t) == t.uid # 0

(* Children *)

ServicePhases == {"Up", "NoIP"}

\* owner: uid of the task its controller reference names.   phase: None if
\* there is no such child.   token: OPSMATE_TOKEN of a pod.   late: its TTL has
\* elapsed.
Child == [owner : Nat, token : Tokens \union {NoToken},
          phase : PodPhases \union ServicePhases \union {"None"},
          late : BOOLEAN]

NoChild == [owner |-> 0, token |-> NoToken, phase |-> "None", late |-> FALSE]

Exists(c) == c.phase # "None"

(* The worker *)

\* The step a reconciliation is at, the handler's copy of the task, the
\* environment build it has read, and what becomes of the result of its status
\* update: returned by updateTaskStatus, returned by the bare Status().Update
\* of a pending pod ("cond"), or dropped by stateRunning ("ignore").
Work == [pc : {"idle", "pod", "service", "ingress", "update", "delete"},
         obj : Task, env : AllEnvViews, mode : {"status", "cond", "ignore"}]

Idle == [pc |-> "idle", obj |-> NoTask(0), env |-> "NotFound", mode |-> "status"]

TokensInUse ==
    UNION {{etcd[n].token, etcd[n].ip, cache[n].token, cache[n].ip,
            work[n].obj.token, child[n]["pod"].token,
            cchild[n]["pod"].token} : n \in Tasks}

\* uuid.New(): a token nobody holds.
FreeTokens == Tokens \ TokensInUse

TypeOK ==
    /\ etcd \in [Tasks -> Task]
    /\ cache \in [Tasks -> Task]
    /\ child \in [Tasks -> [Kinds -> Child]]
    /\ cchild \in [Tasks -> [Kinds -> Child]]
    /\ queue \subseteq Tasks
    /\ timer \subseteq Tasks
    /\ work \in [Tasks -> Work]
    /\ born \in [Tasks -> Nat]
    /\ aged \in [Tasks -> Nat]
    /\ spent \in [AllDisturbances -> Nat]

Init ==
    /\ etcd = [n \in Tasks |-> NoTask(0)]
    /\ cache = etcd
    /\ child = [n \in Tasks |-> [k \in Kinds |-> NoChild]]
    /\ cchild = child
    /\ queue = {}
    /\ timer = {}
    /\ work = [n \in Tasks |-> Idle]
    /\ born = [n \in Tasks |-> 0]
    /\ aged = [n \in Tasks |-> 0]
    /\ spent = [d \in AllDisturbances |-> 0]

-----------------------------------------------------------------------------
(* Reconcile: the step that takes a name from the queue, reads the caches   *)
(* and decides. The manager runs one worker (MaxConcurrentReconciles 1).    *)

WorkerFree == \A n \in Tasks : work[n].pc = "idle"

Pick(n, state) ==
    /\ n \in queue
    /\ WorkerFree
    /\ cache[n].state = state
    /\ queue' = queue \ {n}
    /\ UNCHANGED <<apiVars, cacheVars, aged>>

Begin(n, pc, obj, env, mode) ==
    /\ work' = [work EXCEPT ![n] =
                    [pc |-> pc, obj |-> obj, env |-> env, mode |-> mode]]
    /\ UNCHANGED timer

Update(n, obj, mode) == Begin(n, "update", obj, "NotFound", mode)

\* The handler returns at once; with a RequeueAfter, or with an empty Result.
RequeueAfter(n) == timer' = timer \union {n} /\ UNCHANGED work
Done == UNCHANGED <<timer, work>>

BugUnlistedState(t, reason) == [t EXCEPT !.state = "FAILED", !.reason = reason]

\* markTaskAsError
AsError(t, reason) == [t EXCEPT !.state = "ERROR", !.reason = reason]

Conditions(conds, scheduled) ==
    LET c1 == SetCond(conds, "TaskPodScheduled", scheduled, "PodNotScheduled")
        c2 == SetCond(c1, "TaskPodRunning", FALSE, "PodNotRunning")
        c3 == SetCond(c2, "TaskServiceUp", FALSE, "ServiceNotUp")
    IN  SetCond(c3, "IngressReady", FALSE, "IngressNotReady")

BugScheduledFalse(t) ==
    [t EXCEPT !.state = "PENDING", !.conds = Conditions(@, FALSE)]

\* Reconcile, status init.
AsPending(t) == [t EXCEPT !.state = "PENDING", !.conds = Conditions(@, TRUE)]

InitStatus(n) == Pick(n, "UNSET") /\ Update(n, AsPending(cache[n]), "status")

\* The token is minted anew on every run of the handler.
StatePending(n) ==
    /\ Pick(n, "PENDING")
    /\ \E env \in EnvViews :
        IF env = "NotFound"
        THEN Update(n, AsError(cache[n], "environment build not found"), "status")
        ELSE /\ FreeTokens # {}
             /\ LET t == CHOOSE x \in FreeTokens : TRUE
                IN  Begin(n, "pod", [cache[n] EXCEPT !.token = t], env, "status")

CreationTimeout(k) == CASE k = "pod"     -> "pod creation timeout"
                        [] k = "service" -> "service creation timeout"
                        [] k = "ingress" -> "ingress creation timeout"

ServiceIsUp(c) == c.phase = "Up"

\* The Gets of stateScheduled in their order; the first that fails decides.
FirstMissing(n) ==
    IF ~Exists(cchild[n]["pod"])               THEN "pod"
    ELSE IF ~Exists(cchild[n]["service"])      THEN "service"
    ELSE IF ~ServiceIsUp(cchild[n]["service"]) THEN "address"
    ELSE IF ~Exists(cchild[n]["ingress"])      THEN "ingress"
    ELSE "none"

BugTimedOut(n) == cache[n].uid < aged[n]

ProvisionTimedOut(n) == cache[n].uid <= aged[n]

\* markTaskAsRunning
AsRunning(t, pod) ==
    LET c1 == SetCond(t.conds, "TaskPodRunning", TRUE, "PodRunning")
        c2 == SetCond(c1, "TaskServiceUp", TRUE, "ServiceUp")
        c3 == SetCond(c2, "IngressReady", TRUE, "IngressReady")
    IN  [t EXCEPT !.state = "RUNNING", !.ip = pod.token, !.conds = c3]

StateScheduled(n) ==
    /\ Pick(n, "SCHEDULED")
    /\ LET t == cache[n]
           pod == cchild[n]["pod"]
           missing == FirstMissing(n)
           fail(reason) == Update(n, AsError(t, reason), "status")
       IN  CASE missing = "address" -> RequeueAfter(n)
             [] missing \in Kinds ->
                    IF ProvisionTimedOut(n) THEN fail(CreationTimeout(missing))
                                            ELSE RequeueAfter(n)
             [] missing = "none" ->
                    CASE pod.phase = "Pending" ->
                            Update(n, [t EXCEPT !.conds =
                                SetCond(@, "TaskPodScheduled", TRUE, "PodScheduled")], "cond")
                      [] pod.phase = "Exited" -> fail("pod container error")
                      [] pod.phase = "Starting" -> RequeueAfter(n)
                      [] pod.phase = "Ready" -> Update(n, AsRunning(t, pod), "status")
                      [] pod.phase = "Succeeded" -> fail("pod completed prematurely")
                      [] pod.phase = "Failed" -> fail("pod failed")
                      [] OTHER -> Done

BugNoSync(n) == Done

\* RequeueAfter: syncPeriod
SyncLater(n) == RequeueAfter(n)

StateRunning(n) ==
    /\ Pick(n, "RUNNING")
    /\ LET pod == cchild[n]["pod"]
           updateState(s) == Update(n, [cache[n] EXCEPT !.state = s], "ignore")
       IN  IF ~Exists(pod) THEN updateState("ERROR")
           ELSE IF pod.phase \in {"Failed", "Succeeded"} \/ pod.late
           THEN updateState("TERMINATING")
           ELSE SyncLater(n)

StateTerminating(n) ==
    /\ Pick(n, "TERMINATING")
    /\ Begin(n, "delete", cache[n], "NotFound", "status")

StateNotFound(n) == Pick(n, "NOT_FOUND") /\ Done

BugAlwaysTerminate(t) == TRUE

TerminatesOnFailure(t) == t.spec.tof

BugDeletesAtOnce(n) ==
    /\ Pick(n, "ERROR")
    /\ IF TerminatesOnFailure(cache[n])
       THEN Begin(n, "delete", cache[n], "NotFound", "status")
       ELSE Done

StateError(n) ==
    /\ Pick(n, "ERROR")
    /\ IF TerminatesOnFailure(cache[n])
       THEN Update(n, [cache[n] EXCEPT !.state = "TERMINATING"], "status")
       ELSE Done

Reconcile(n) == \/ InitStatus(n) \/ StatePending(n) \/ StateScheduled(n)
                \/ StateRunning(n) \/ StateTerminating(n) \/ StateNotFound(n)
                \/ StateError(n)

-----------------------------------------------------------------------------
(* The API calls a reconciliation makes after that, each a step.            *)

Spend(d) == /\ d \in Disturbances
            /\ spent["edit"] + spent["delete"] + spent["loss"] + spent["fault"]
                    + spent["crash"] < MaxDisturbances
            /\ spent' = [spent EXCEPT ![d] = @ + 1]

NextCall == [pod |-> "service", service |-> "ingress", ingress |-> "update"]

\* After the last call the three references and the state are set.
Continue(n, k) ==
    LET refs == {"pod", "service"} \union
                IF work[n].obj.spec.domain THEN {"ingress"} ELSE {}
        obj == IF k = "ingress"
               THEN [work[n].obj EXCEPT !.refs = refs, !.state = "SCHEDULED"]
               ELSE work[n].obj
    IN  work' = [work EXCEPT ![n].pc = NextCall[k], ![n].obj = obj]

CreateFails(n) ==
    work' = [work EXCEPT ![n].pc = "update", ![n].obj = AsError(@, "failed to create")]

BugServiceUnowned(n, k) ==
    [owner |-> IF k = "service" THEN 0 ELSE work[n].obj.uid,
     token |-> IF k = "pod" THEN work[n].obj.token ELSE NoToken,
     phase |-> IF k = "pod" THEN "Pending" ELSE "Up",
     late |-> FALSE]

\* The object createPod, createService or createIngress builds, with a
\* controller reference to the task the handler read.
NewChild(n, k) ==
    [owner |-> work[n].obj.uid,
     token |-> IF k = "pod" THEN work[n].obj.token ELSE NoToken,
     phase |-> IF k = "pod" THEN "Pending"
               ELSE IF k = "service" /\ work[n].env = "NoIP" THEN "NoIP" ELSE "Up",
     late |-> FALSE]

\* The API server creates the object unless one of that name exists.
Stored(n, k) ==
    child' = IF Exists(child[n][k]) THEN child
             ELSE [child EXCEPT ![n][k] = NewChild(n, k)]

\* createPod, createService, createIngress.
CreateChild(n, k) ==
    LET skip == k = "ingress" /\ ~work[n].obj.spec.domain
        known == Exists(cchild[n][k])
        rejected == k = "pod" /\ work[n].env = "BadPod"
    IN  /\ work[n].pc = k
        /\ \/ /\ skip \/ known
              /\ Continue(n, k)
              /\ UNCHANGED <<child, spent>>
           \/ /\ ~skip /\ ~known /\ ~rejected   \* AlreadyExists is no error
              /\ Stored(n, k)
              /\ Continue(n, k)
              /\ UNCHANGED spent
           \/ /\ ~skip /\ ~known /\ rejected
              /\ CreateFails(n)
              /\ UNCHANGED <<child, spent>>
           \/ /\ ~skip /\ ~known
              /\ Spend("fault")
              /\ CreateFails(n)
              /\ child' = child \/ (~rejected /\ Stored(n, k))
        /\ UNCHANGED <<etcd, born, cacheVars, queue, timer, aged>>

\* The reconciliation ends; its Result or error asks for another one or not.
Finish(n, again) ==
    /\ work' = [work EXCEPT ![n] = Idle]
    /\ timer' = IF again THEN timer \union {n} ELSE timer

\* Optimistic concurrency: the API server takes a status only from a writer
\* that has read the present version.
UpToDate(n) == Present(etcd[n]) /\ etcd[n].rv = work[n].obj.rv

\* A write that changes nothing makes no new version.
StoreStatus(n) ==
    etcd' = IF work[n].obj = etcd[n] THEN etcd
            ELSE [etcd EXCEPT ![n] = [work[n].obj EXCEPT
                    !.uid = etcd[n].uid, !.rv = etcd[n].rv + 1, !.spec = etcd[n].spec]]

\* A status that was written: updateTaskStatus returns the reason of an ERROR
\* as an error, a pending pod is looked at again.
AgainAfterWrite(w) ==
    w.mode = "cond" \/ (w.mode = "status" /\ w.obj.state = "ERROR")

BugErrorDropped(w) == w.mode = "cond"

\* One that was not: conflict and error both bring the task back, unless
\* stateRunning drops them.
AgainAfterFailure(w) == w.mode # "ignore"

\* r.Status().Patch, which compares no versions.
BugPatchesStatus(n) ==
    /\ work[n].pc = "update"
    /\ \/ /\ etcd[n].uid = work[n].obj.uid
          /\ StoreStatus(n)
          /\ Finish(n, AgainAfterWrite(work[n]))
       \/ /\ etcd[n].uid # work[n].obj.uid
          /\ Finish(n, AgainAfterFailure(work[n]))
          /\ UNCHANGED etcd
    /\ UNCHANGED <<child, born, spent, cacheVars, queue, aged>>

\* r.Status().Update and the end of the handler.
UpdateStatus(n) ==
    /\ work[n].pc = "update"
    /\ \/ /\ UpToDate(n)
          /\ StoreStatus(n)
          /\ Finish(n, AgainAfterWrite(work[n]))
          /\ UNCHANGED spent
       \/ /\ ~UpToDate(n)
          /\ Finish(n, AgainAfterFailure(work[n]))
          /\ UNCHANGED <<etcd, spent>>
       \/ /\ Spend("fault")
          /\ etcd' = etcd \/ (UpToDate(n) /\ StoreStatus(n))
          /\ Finish(n, AgainAfterFailure(work[n]))
    /\ UNCHANGED <<child, born, cacheVars, queue, aged>>

RemoveTask(n) == etcd' = [etcd EXCEPT ![n] = NoTask(@.rv + 1)]

BugDeleteOnce(failed) == ~failed

\* A failed Delete returns its error, one that succeeds RequeueAfter 1s.
AgainAfterDelete(failed) == TRUE

\* r.Delete, by name: it removes whatever task has the name.
DeleteCall(n) ==
    /\ work[n].pc = "delete"
    /\ \/ /\ IF Present(etcd[n]) THEN RemoveTask(n) ELSE UNCHANGED etcd
          /\ Finish(n, AgainAfterDelete(~Present(etcd[n])))
          /\ UNCHANGED spent
       \/ /\ Spend("fault")
          /\ etcd' = etcd \/ (Present(etcd[n]) /\ RemoveTask(n))
          /\ Finish(n, AgainAfterDelete(TRUE))
    /\ UNCHANGED <<child, born, cacheVars, queue, aged>>

ApiCall(n) == (\E k \in Kinds : CreateChild(n, k)) \/ UpdateStatus(n) \/ DeleteCall(n)

-----------------------------------------------------------------------------
(* The manager's machinery: informers, delayed queue, resync, restart.      *)

\* SetupWithManager: For(&Task{}) queues a task whose cached copy changes.
DeliverTask(n) ==
    /\ cache[n] # etcd[n]
    /\ cache' = [cache EXCEPT ![n] = etcd[n]]
    /\ queue' = queue \union {n}
    /\ UNCHANGED <<apiVars, cchild, timer, work, aged>>

\* SetupWithManager: Owns(...) queues the owner of a child that changes.
DeliverChild(n, k) ==
    /\ cchild[n][k] # child[n][k]
    /\ cchild' = [cchild EXCEPT ![n][k] = child[n][k]]
    /\ queue' = queue \union {n}
    /\ UNCHANGED <<apiVars, cache, timer, work, aged>>

TimerFires(n) ==
    /\ n \in timer
    /\ timer' = timer \ {n}
    /\ queue' = queue \union {n}
    /\ UNCHANGED <<apiVars, cacheVars, work, aged>>

\* The cache's periodic resync queues what it holds.
Resync(n) ==
    /\ Present(cache[n])
    /\ queue' = queue \union {n}
    /\ UNCHANGED <<apiVars, cacheVars, timer, work, aged>>

\* A crash loses caches, queue, timers and the running reconciliation; the
\* new process lists all objects, and each one listed queues its task.
RestartManager ==
    /\ Spend("crash")
    /\ cache' = etcd
    /\ cchild' = child
    /\ queue' = {n \in Tasks : Present(etcd[n]) \/ \E k \in Kinds : Exists(child[n][k])}
    /\ timer' = {}
    /\ work' = [n \in Tasks |-> Idle]
    /\ UNCHANGED <<etcd, child, born, aged>>

-----------------------------------------------------------------------------
(* The controller's environment. *)

Outside == UNCHANGED <<cacheVars, queue, timer, work, aged>>

CreateTask(n, s) ==
    /\ ~Present(etcd[n])
    /\ born[n] < MaxUid
    /\ born' = [born EXCEPT ![n] = @ + 1]
    /\ etcd' = [etcd EXCEPT ![n] = NewTask(born[n] + 1, @.rv + 1, s)]
    /\ Outside /\ UNCHANGED <<child, spent>>

DeleteTask(n) ==
    /\ Present(etcd[n])
    /\ Spend("delete")
    /\ RemoveTask(n)
    /\ Outside /\ UNCHANGED <<child, born>>

EditTask(n, s) ==
    /\ Present(etcd[n])
    /\ s # etcd[n].spec
    /\ Spend("edit")
    /\ etcd' = [etcd EXCEPT ![n].spec = s, ![n].rv = @ + 1]
    /\ Outside /\ UNCHANGED <<child, born>>

LoseChild(n, k) ==
    /\ Exists(child[n][k])
    /\ Spend("loss")
    /\ child' = [child EXCEPT ![n][k] = NoChild]
    /\ Outside /\ UNCHANGED <<etcd, born>>

\* The garbage collector removes the children of a task that is gone.
CollectGarbage(n, k) ==
    /\ Exists(child[n][k])
    /\ child[n][k].owner \notin {0, etcd[n].uid}
    /\ child' = [child EXCEPT ![n][k] = NoChild]
    /\ Outside /\ UNCHANGED <<etcd, born, spent>>

\* The life of a pod that is never restarted (RestartPolicyNever).
PodSteps == {<<"Pending", "Starting">>, <<"Pending", "Failed">>,
             <<"Starting", "Ready">>,   <<"Ready", "Starting">>,
             <<"Starting", "Exited">>,  <<"Ready", "Exited">>,
             <<"Exited", "Succeeded">>, <<"Exited", "Failed">>,
             <<"Pending", "Ready">>,    <<"Ready", "Succeeded">>,
             <<"Ready", "Failed">>,     <<"Starting", "Failed">>}

Kubelet(n) ==
    /\ \E p \in Phases :
        /\ <<child[n]["pod"].phase, p>> \in PodSteps
        /\ child' = [child EXCEPT ![n]["pod"].phase = p]
    /\ Outside /\ UNCHANGED <<etcd, born, spent>>

\* Ten seconds have passed since the creation of one more incarnation.
TenSecondsPass(n) ==
    /\ "provision" \in Deadlines
    /\ aged[n] < born[n]
    /\ aged' = [aged EXCEPT ![n] = @ + 1]
    /\ UNCHANGED <<apiVars, cacheVars, queue, timer, work>>

\* The TTL of the pod with this token has elapsed; a cached copy of the pod
\* has the same creation time.
Overdue(c, t) == [c EXCEPT !.late = @ \/ c.token = t]

TTLElapses(n, t) ==
    /\ "ttl" \in Deadlines
    /\ \/ t = child[n]["pod"].token /\ ~child[n]["pod"].late
       \/ t = cchild[n]["pod"].token /\ ~cchild[n]["pod"].late
    /\ child' = [child EXCEPT ![n]["pod"] = Overdue(@, t)]
    /\ cchild' = [cchild EXCEPT ![n]["pod"] = Overdue(@, t)]
    /\ UNCHANGED <<etcd, born, spent, cache, queue, timer, work, aged>>

-----------------------------------------------------------------------------

Manager(n) == \/ DeliverTask(n) \/ TimerFires(n) \/ Resync(n)
              \/ \E k \in Kinds : DeliverChild(n, k)

Environment(n) ==
    \/ \E s \in Specs : CreateTask(n, s) \/ EditTask(n, s)
    \/ DeleteTask(n) \/ Kubelet(n) \/ TenSecondsPass(n)
    \/ \E k \in Kinds : LoseChild(n, k) \/ CollectGarbage(n, k)
    \/ \E t \in Tokens : TTLElapses(n, t)

Next == \/ \E n \in Tasks : \/ Reconcile(n) \/ ApiCall(n)
                            \/ Manager(n) \/ Environment(n)
        \/ RestartManager

Spec == Init /\ [][Next]_vars

(* The manager's goroutines make progress: watch events arrive, timers fire, *)
(* the FIFO queue serves every name in it even while others keep coming      *)
(* (strong fairness: the worker is busy again and again), an API call        *)
(* returns. The garbage collector and the clock go on. Nothing is assumed of *)
(* users, kubelets, faults, or of the resync.                                *)
Fairness ==
    \A n \in Tasks :
        /\ WF_vars(DeliverTask(n))
        /\ \A k \in Kinds : WF_vars(DeliverChild(n, k))
        /\ WF_vars(\E k \in Kinds : CollectGarbage(n, k))
        /\ WF_vars(TimerFires(n))
        /\ SF_vars(Reconcile(n))
        /\ WF_vars(ApiCall(n))
        /\ WF_vars(TenSecondsPass(n))

FairSpec == Spec /\ Fairness
=============================================================================
