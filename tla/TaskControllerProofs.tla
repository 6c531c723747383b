------------------------ MODULE TaskControllerProofs ------------------------
(***************************************************************************)
(* Proofs about TaskController, for every set of tasks, every budget of    *)
(* disturbances and every number of incarnations.                          *)
(***************************************************************************)
EXTENDS TaskProperties, TLAPS

-----------------------------------------------------------------------------
(* The objects the handlers build are of their types. *)

LEMMA NoConditionsType == NoConditions \in [CondTypes -> Condition]
<1> DEFINE none == [status |-> FALSE, reason |-> "none"]
<1>1. none \in Condition
  BY DEF Condition
<1>2. NoConditions = [c \in CondTypes |-> none]
  BY DEF NoConditions
<1> HIDE DEF none
<1> QED
  BY <1>1, <1>2

LEMMA NewTaskType ==
    ASSUME NEW uid \in Nat, NEW rv \in Nat, NEW spec \in TaskSpec
    PROVE  NewTask(uid, rv, spec) \in Task
BY NoConditionsType DEF NewTask, Task, States, Reasons

LEMMA NoTaskType ==
    ASSUME NEW rv \in Nat
    PROVE  /\ NoTask(rv) \in Task
           /\ NoTask(rv).uid = 0
           /\ NoTask(rv).rv = rv
           /\ NoTask(rv).state = "NOT_FOUND"
<1> DEFINE spec == [domain |-> FALSE, tof |-> FALSE]
           t == NewTask(0, rv, spec)
<1>1. spec \in TaskSpec
  BY DEF TaskSpec
<1>2. t \in Task /\ t.uid = 0 /\ t.rv = rv
  BY <1>1, NewTaskType DEF NewTask
<1>3. NoTask(rv) = [t EXCEPT !.state = "NOT_FOUND"]
  BY DEF NoTask
<1> HIDE DEF t
<1> QED
  BY <1>2, <1>3 DEF Task, States

LEMMA IdleType == Idle \in Work
BY NoTaskType DEF Idle, Work, AllEnvViews

LEMMA CondTypesMembers == /\ "TaskPodScheduled" \in CondTypes
                          /\ "TaskPodRunning" \in CondTypes
                          /\ "TaskServiceUp" \in CondTypes
                          /\ "IngressReady" \in CondTypes
BY DEF CondTypes

LEMMA ConditionsType ==
    ASSUME NEW conds \in [CondTypes -> Condition]
    PROVE  Conditions(conds, TRUE) \in [CondTypes -> Condition]
<1> DEFINE c1 == SetCond(conds, "TaskPodScheduled", TRUE, "PodNotScheduled")
           c2 == SetCond(c1, "TaskPodRunning", FALSE, "PodNotRunning")
           c3 == SetCond(c2, "TaskServiceUp", FALSE, "ServiceNotUp")
<1>1. c1 \in [CondTypes -> Condition]
  BY CondTypesMembers DEF SetCond, Condition
<1> HIDE DEF c1
<1>2. c2 \in [CondTypes -> Condition]
  BY <1>1, CondTypesMembers DEF SetCond, Condition
<1> HIDE DEF c2
<1>3. c3 \in [CondTypes -> Condition]
  BY <1>2, CondTypesMembers DEF SetCond, Condition
<1> HIDE DEF c3
<1>4. SetCond(c3, "IngressReady", FALSE, "IngressNotReady") \in [CondTypes -> Condition]
  BY <1>3, CondTypesMembers DEF SetCond, Condition
<1> QED
  BY <1>4 DEF Conditions, c1, c2, c3

LEMMA AsErrorType ==
    ASSUME NEW t \in Task, NEW r \in Reasons
    PROVE  AsError(t, r) \in Task
BY DEF AsError, Task, States

LEMMA AsPendingType ==
    ASSUME NEW t \in Task
    PROVE  AsPending(t) \in Task
<1> DEFINE c == Conditions(t.conds, TRUE)
<1>1. c \in [CondTypes -> Condition]
  BY ConditionsType DEF Task
<1>2. AsPending(t) = [t EXCEPT !.state = "PENDING", !.conds = c]
  BY DEF AsPending, Task
<1> HIDE DEF c
<1> QED
  BY <1>1, <1>2 DEF Task, States

LEMMA AsRunningType ==
    ASSUME NEW t \in Task, NEW pod \in Child
    PROVE  AsRunning(t, pod) \in Task
<1> DEFINE c1 == SetCond(t.conds, "TaskPodRunning", TRUE, "PodRunning")
           c2 == SetCond(c1, "TaskServiceUp", TRUE, "ServiceUp")
           c3 == SetCond(c2, "IngressReady", TRUE, "IngressReady")
<1>1. t.conds \in [CondTypes -> Condition]
  BY DEF Task
<1>2. c1 \in [CondTypes -> Condition]
  BY <1>1, CondTypesMembers DEF SetCond, Condition
<1> HIDE DEF c1
<1>3. c2 \in [CondTypes -> Condition]
  BY <1>2, CondTypesMembers DEF SetCond, Condition
<1> HIDE DEF c2
<1>4. c3 \in [CondTypes -> Condition]
  BY <1>3, CondTypesMembers DEF SetCond, Condition
<1>5. AsRunning(t, pod) = [t EXCEPT !.state = "RUNNING", !.ip = pod.token, !.conds = c3]
  BY DEF AsRunning, c1, c2
<1>6. pod.token \in Tokens \union {NoToken}
  BY DEF Child
<1> HIDE DEF c3
<1> QED
  BY <1>4, <1>5, <1>6 DEF Task, States

-----------------------------------------------------------------------------
(* What a reconciliation that starts may do: begin the plan w, come back     *)
(* later, or leave the task alone because there is nothing to do.            *)

Planned(n, w) ==
    /\ w.pc # "idle"
    /\ cache[n].state # "NOT_FOUND"
    /\ w.obj.uid = cache[n].uid
    /\ w.obj.rv = cache[n].rv
    /\ w.obj.spec = cache[n].spec
    /\ w.pc \in Kinds => /\ w.mode = "status"
                         /\ w.obj.state = "PENDING"
                         /\ cache[n].state = "PENDING"
    /\ w.pc = "update" => MayWrite(w, cache[n])
    /\ w.pc = "delete" => cache[n].state = "TERMINATING"

Settled(n) ==
    \/ cache[n].state = "NOT_FOUND"
    \/ cache[n].state = "ERROR" /\ ~cache[n].spec.tof
    \/ Exists(cchild[n]["pod"]) /\ cchild[n]["pod"].phase \notin PodPhases

Outcome(n) ==
    \/ \E w \in Work : /\ Planned(n, w)
                       /\ work' = [work EXCEPT ![n] = w]
                       /\ timer' = timer
    \/ RequeueAfter(n)
    \/ Done /\ Settled(n)

LEMMA BeginOutcome ==
    ASSUME NEW n \in Tasks, NEW pc \in {"pod", "update", "delete"},
           NEW obj \in Task, NEW env \in AllEnvViews,
           NEW mode \in {"status", "cond", "ignore"},
           Begin(n, pc, obj, env, mode),
           Planned(n, [pc |-> pc, obj |-> obj, env |-> env, mode |-> mode])
    PROVE  Outcome(n)
<1> DEFINE w == [pc |-> pc, obj |-> obj, env |-> env, mode |-> mode]
<1>1. w \in Work
  BY DEF Work
<1>2. work' = [work EXCEPT ![n] = w] /\ timer' = timer
  BY DEF Begin
<1>3. Planned(n, w)
  OBVIOUS
<1> HIDE DEF w
<1> QED
  BY <1>1, <1>2, <1>3 DEF Outcome

\* A status write of a copy of the cached task that stays within MayWrite.
LEMMA UpdateOutcome ==
    ASSUME NEW n \in Tasks, NEW obj \in Task,
           NEW mode \in {"status", "cond", "ignore"},
           Update(n, obj, mode), cache[n].state # "NOT_FOUND",
           obj.uid = cache[n].uid, obj.rv = cache[n].rv, obj.spec = cache[n].spec,
           MayWrite([pc |-> "update", obj |-> obj, env |-> "NotFound", mode |-> mode],
                    cache[n])
    PROVE  Outcome(n)
<1>1. Begin(n, "update", obj, "NotFound", mode)
  BY DEF Update
<1> DEFINE w == [pc |-> "update", obj |-> obj, env |-> "NotFound", mode |-> mode]
<1>2. w.pc = "update" /\ w.obj = obj /\ w.mode = mode /\ MayWrite(w, cache[n])
  OBVIOUS
<1> HIDE DEF w
<1>3. Planned(n, w)
  BY <1>2 DEF Planned, Kinds
<1>4. "NotFound" \in AllEnvViews
  BY DEF AllEnvViews
<1> QED
  BY <1>1, <1>3, <1>4, BeginOutcome DEF w

LEMMA InitStatusOutcome ==
    ASSUME TypeOK, NEW n \in Tasks, InitStatus(n)
    PROVE  Outcome(n)
<1> DEFINE t == cache[n]
           p == AsPending(t)
<1>1. t \in Task /\ t.state = "UNSET"
  BY DEF TypeOK, InitStatus, Pick
<1>2. p \in Task /\ p.uid = t.uid /\ p.rv = t.rv /\ p.spec = t.spec /\ p.state = "PENDING"
  BY <1>1, AsPendingType DEF AsPending, Task
<1>3. Update(n, p, "status")
  BY DEF InitStatus
<1> HIDE DEF p
<1>4. MayWrite([pc |-> "update", obj |-> p, env |-> "NotFound", mode |-> "status"], t)
  BY <1>1, <1>2 DEF MayWrite, Lifecycle!Moves
<1> QED
  BY <1>1, <1>2, <1>3, <1>4, UpdateOutcome

\* markTaskAsError from a state that has an edge to ERROR.
LEMMA ErrorOutcome ==
    ASSUME TypeOK, NEW n \in Tasks, NEW r \in Reasons,
           cache[n].state \in {"PENDING", "SCHEDULED"},
           Update(n, AsError(cache[n], r), "status")
    PROVE  Outcome(n)
<1> DEFINE t == cache[n]
           p == AsError(t, r)
<1>1. t \in Task
  BY DEF TypeOK
<1>2. p \in Task /\ p.uid = t.uid /\ p.rv = t.rv /\ p.spec = t.spec /\ p.state = "ERROR"
  BY <1>1, AsErrorType DEF AsError, Task
<1> HIDE DEF p
<1>3. MayWrite([pc |-> "update", obj |-> p, env |-> "NotFound", mode |-> "status"], t)
  BY <1>1, <1>2 DEF MayWrite, Lifecycle!Moves
<1>4. Update(n, p, "status")
  BY DEF p
<1> QED
  BY <1>1, <1>2, <1>3, <1>4, UpdateOutcome

LEMMA StatePendingOutcome ==
    ASSUME TypeOK, NEW n \in Tasks, StatePending(n)
    PROVE  Outcome(n)
<1> DEFINE t == cache[n]
<1>1. t \in Task /\ t.state = "PENDING"
  BY DEF TypeOK, StatePending, Pick
<1>2. PICK env \in EnvViews :
        IF env = "NotFound"
        THEN Update(n, AsError(cache[n], "environment build not found"), "status")
        ELSE /\ FreeTokens # {}
             /\ LET x == CHOOSE x \in FreeTokens : TRUE
                IN  Begin(n, "pod", [cache[n] EXCEPT !.token = x], env, "status")
  BY DEF StatePending
<1>3. CASE env = "NotFound"
  BY <1>1, <1>2, <1>3, ErrorOutcome DEF Reasons
<1>4. CASE env # "NotFound"
  <2> DEFINE x == CHOOSE x \in FreeTokens : TRUE
             p == [t EXCEPT !.token = x]
             w == [pc |-> "pod", obj |-> p, env |-> env, mode |-> "status"]
  <2>1. x \in Tokens
    BY <1>2, <1>4 DEF FreeTokens
  <2>2. Begin(n, "pod", p, env, "status")
    BY <1>2, <1>4
  <2>3. /\ p \in Task /\ p.uid = t.uid /\ p.rv = t.rv
        /\ p.spec = t.spec /\ p.state = "PENDING"
    BY <1>1, <2>1 DEF Task
  <2> HIDE DEF p
  <2>4. Planned(n, w)
    BY <1>1, <2>3 DEF Planned, Kinds
  <2>5. env \in AllEnvViews
    BY EnvAssumption
  <2> QED
    BY <2>2, <2>3, <2>4, <2>5, BeginOutcome
<1> QED
  BY <1>3, <1>4

LEMMA StateScheduledOutcome ==
    ASSUME TypeOK, NEW n \in Tasks, StateScheduled(n)
    PROVE  Outcome(n)
<1> DEFINE t == cache[n]
           pod == cchild[n]["pod"]
           missing == FirstMissing(n)
           conds == SetCond(t.conds, "TaskPodScheduled", TRUE, "PodScheduled")
           seen == [t EXCEPT !.conds = conds]
           running == AsRunning(t, pod)
<1>1. t \in Task /\ t.state = "SCHEDULED"
  BY DEF TypeOK, StateScheduled, Pick
<1>2. pod \in Child
  BY DEF TypeOK, Kinds
<1>3. missing \in Kinds \union {"address", "none"}
  BY DEF FirstMissing, Kinds
<1>4. missing = "none" => Exists(pod)
  BY DEF FirstMissing
<1>5. CASE missing = "address"
  BY <1>5 DEF StateScheduled, Outcome, Kinds
<1>6. CASE missing \in Kinds
  <2>1. CreationTimeout(missing) \in Reasons
    BY <1>6 DEF CreationTimeout, Reasons, Kinds
  <2>2. missing # "address" /\ missing # "none"
    BY <1>6 DEF Kinds
  <2>3. \/ RequeueAfter(n)
        \/ Update(n, AsError(t, CreationTimeout(missing)), "status")
    BY <1>6, <2>2 DEF StateScheduled
  <2> QED
    BY <1>1, <2>1, <2>3, ErrorOutcome DEF Outcome
<1>7. CASE missing = "none"
  <2>1. CASE pod.phase = "Pending"
    <3>1. conds \in [CondTypes -> Condition]
      BY <1>1, CondTypesMembers DEF SetCond, Condition, Task
    <3>2. /\ seen \in Task /\ seen.uid = t.uid /\ seen.rv = t.rv
          /\ seen.spec = t.spec /\ seen.state = "SCHEDULED"
      BY <1>1, <3>1 DEF Task
    <3>3. seen = [t EXCEPT !.conds = SetCond(@, "TaskPodScheduled", TRUE, "PodScheduled")]
      BY <1>1 DEF Task
    <3>4. Update(n, seen, "cond")
      BY <1>7, <2>1, <3>3 DEF StateScheduled, Kinds
    <3> HIDE DEF seen
    <3>5. MayWrite([pc |-> "update", obj |-> seen, env |-> "NotFound", mode |-> "cond"], t)
      BY <1>1, <3>2 DEF MayWrite
    <3> QED
      BY <1>1, <3>2, <3>4, <3>5, UpdateOutcome
  <2>2. CASE pod.phase = "Ready"
    <3>1. /\ running \in Task /\ running.uid = t.uid /\ running.rv = t.rv
          /\ running.spec = t.spec /\ running.state = "RUNNING"
      BY <1>1, <1>2, AsRunningType DEF AsRunning, Task
    <3>2. Update(n, running, "status")
      BY <1>7, <2>2 DEF StateScheduled, Kinds
    <3> HIDE DEF running
    <3>3. MayWrite([pc |-> "update", obj |-> running, env |-> "NotFound", mode |-> "status"], t)
      BY <1>1, <3>1 DEF MayWrite, Lifecycle!Moves
    <3> QED
      BY <1>1, <3>1, <3>2, <3>3, UpdateOutcome
  <2>3. CASE pod.phase \in {"Exited", "Succeeded", "Failed"}
    <3>1. \E r \in Reasons : Update(n, AsError(t, r), "status")
      BY <1>7, <2>3 DEF StateScheduled, Kinds, Reasons
    <3> QED
      BY <1>1, <3>1, ErrorOutcome
  <2>4. CASE pod.phase = "Starting"
    BY <1>7, <2>4 DEF StateScheduled, Outcome, Kinds
  <2>5. CASE pod.phase \notin PodPhases
    <3>1. Done
      BY <1>7, <2>5 DEF StateScheduled, Kinds, PodPhases
    <3> QED
      BY <1>4, <1>7, <2>5, <3>1 DEF Outcome, Settled
  <2> QED
    BY <2>1, <2>2, <2>3, <2>4, <2>5 DEF PodPhases
<1> QED
  BY <1>3, <1>5, <1>6, <1>7

LEMMA StateRunningOutcome ==
    ASSUME TypeOK, NEW n \in Tasks, StateRunning(n)
    PROVE  Outcome(n)
<1> DEFINE t == cache[n]
<1>1. t \in Task /\ t.state = "RUNNING"
  BY DEF TypeOK, StateRunning, Pick
<1>2. \/ RequeueAfter(n)
      \/ \E x \in {"ERROR", "TERMINATING"} : Update(n, [t EXCEPT !.state = x], "ignore")
  BY DEF StateRunning, SyncLater
<1>3. CASE RequeueAfter(n)
  BY <1>3 DEF Outcome
<1>4. ASSUME NEW x \in {"ERROR", "TERMINATING"}, Update(n, [t EXCEPT !.state = x], "ignore")
      PROVE  Outcome(n)
  <2> DEFINE p == [t EXCEPT !.state = x]
  <2>1. p \in Task /\ p.uid = t.uid /\ p.rv = t.rv /\ p.spec = t.spec /\ p.state = x
    BY <1>1 DEF Task, States
  <2>2. Update(n, p, "ignore")
    BY <1>4
  <2> HIDE DEF p
  <2>3. MayWrite([pc |-> "update", obj |-> p, env |-> "NotFound", mode |-> "ignore"], t)
    BY <1>1, <2>1 DEF MayWrite, Lifecycle!Moves
  <2> QED
    BY <1>1, <2>1, <2>2, <2>3, UpdateOutcome
<1> QED
  BY <1>2, <1>3, <1>4

LEMMA StateTerminatingOutcome ==
    ASSUME TypeOK, NEW n \in Tasks, StateTerminating(n)
    PROVE  Outcome(n)
<1>1. cache[n] \in Task /\ cache[n].state = "TERMINATING"
  BY DEF TypeOK, StateTerminating, Pick
<1>2. Begin(n, "delete", cache[n], "NotFound", "status")
  BY DEF StateTerminating
<1>3. Planned(n, [pc |-> "delete", obj |-> cache[n], env |-> "NotFound", mode |-> "status"])
  BY <1>1 DEF Planned, Kinds
<1> QED
  BY <1>1, <1>2, <1>3, BeginOutcome DEF AllEnvViews

LEMMA StateErrorOutcome ==
    ASSUME TypeOK, NEW n \in Tasks, StateError(n)
    PROVE  Outcome(n)
<1> DEFINE t == cache[n]
           p == [t EXCEPT !.state = "TERMINATING"]
<1>1. t \in Task /\ t.state = "ERROR"
  BY DEF TypeOK, StateError, Pick
<1>2. CASE ~t.spec.tof
  BY <1>1, <1>2 DEF StateError, TerminatesOnFailure, Outcome, Settled
<1>3. CASE t.spec.tof
  <2>1. /\ p \in Task /\ p.uid = t.uid /\ p.rv = t.rv
        /\ p.spec = t.spec /\ p.state = "TERMINATING"
    BY <1>1 DEF Task, States
  <2>2. Update(n, p, "status")
    BY <1>3 DEF StateError, TerminatesOnFailure
  <2> HIDE DEF p
  <2>3. MayWrite([pc |-> "update", obj |-> p, env |-> "NotFound", mode |-> "status"], t)
    BY <1>1, <1>3, <2>1 DEF MayWrite, Lifecycle!Moves
  <2> QED
    BY <1>1, <2>1, <2>2, <2>3, UpdateOutcome
<1> QED
  BY <1>2, <1>3

LEMMA StateNotFoundOutcome ==
    ASSUME NEW n \in Tasks, StateNotFound(n)
    PROVE  Outcome(n)
BY DEF StateNotFound, Pick, Outcome, Settled

\* Every start of a reconciliation, whatever the state it finds.
LEMMA ReconcileOutcome ==
    ASSUME TypeOK, NEW n \in Tasks, Reconcile(n)
    PROVE  /\ WorkerFree
           /\ queue' = queue \ {n}
           /\ UNCHANGED <<apiVars, cacheVars, aged>>
           /\ Outcome(n)
<1>1. \E x \in States : Pick(n, x)
  BY DEF Reconcile, InitStatus, StatePending, StateScheduled, StateRunning,
         StateTerminating, StateNotFound, StateError, States
<1>2. Outcome(n)
  BY InitStatusOutcome, StatePendingOutcome, StateScheduledOutcome,
     StateRunningOutcome, StateTerminatingOutcome, StateNotFoundOutcome,
     StateErrorOutcome DEF Reconcile
<1> QED
  BY <1>1, <1>2 DEF Pick

-----------------------------------------------------------------------------
(* Type correctness *)

LEMMA OutcomeType ==
    ASSUME TypeOK, NEW n \in Tasks, Outcome(n)
    PROVE  work' \in [Tasks -> Work] /\ timer' \subseteq Tasks
BY DEF TypeOK, Outcome, RequeueAfter, Done

LEMMA NewChildType ==
    ASSUME TypeOK, NEW n \in Tasks, NEW k \in Kinds
    PROVE  NewChild(n, k) \in Child
<1>1. work[n].obj \in Task
  BY DEF TypeOK, Work
<1>2. work[n].obj.uid \in Nat /\ work[n].obj.token \in Tokens \union {NoToken}
  BY <1>1 DEF Task
<1> QED
  BY <1>2 DEF NewChild, Child, PodPhases, ServicePhases

LEMMA StoredType ==
    ASSUME TypeOK, NEW n \in Tasks, NEW k \in Kinds, Stored(n, k)
    PROVE  child' \in [Tasks -> [Kinds -> Child]]
BY NewChildType DEF Stored, TypeOK

LEMMA ContinueType ==
    ASSUME TypeOK, NEW n \in Tasks, NEW k \in Kinds, Continue(n, k)
    PROVE  work' \in [Tasks -> Work]
<1> DEFINE refs == {"pod", "service"} \union
                   IF work[n].obj.spec.domain THEN {"ingress"} ELSE {}
           obj == IF k = "ingress"
                  THEN [work[n].obj EXCEPT !.refs = refs, !.state = "SCHEDULED"]
                  ELSE work[n].obj
<1>1. refs \in SUBSET Kinds
  BY DEF Kinds
<1>2. work' = [work EXCEPT ![n].pc = NextCall[k], ![n].obj = obj]
  BY DEF Continue
<1> HIDE DEF refs
<1>3. obj \in Task
  <2>1. work[n].obj \in Task
    BY DEF TypeOK, Work
  <2> QED
    BY <1>1, <2>1 DEF Task, States
<1>4. NextCall[k] \in {"service", "ingress", "update"}
  BY DEF NextCall, Kinds
<1> HIDE DEF obj
<1>5. work[n] \in Work
  BY DEF TypeOK
<1>6. [work[n] EXCEPT !.pc = NextCall[k], !.obj = obj] \in Work
  BY <1>3, <1>4, <1>5 DEF Work
<1>7. work' = [work EXCEPT ![n] = [work[n] EXCEPT !.pc = NextCall[k], !.obj = obj]]
  BY <1>2
<1> QED
  BY <1>6, <1>7 DEF TypeOK

LEMMA CreateFailsType ==
    ASSUME TypeOK, NEW n \in Tasks, CreateFails(n)
    PROVE  work' \in [Tasks -> Work]
<1> DEFINE obj == AsError(work[n].obj, "failed to create")
<1>1. obj \in Task
  BY AsErrorType DEF TypeOK, Work, Reasons
<1>2. work' = [work EXCEPT ![n].pc = "update", ![n].obj = obj]
  BY DEF CreateFails
<1> HIDE DEF obj
<1>3. work[n] \in Work
  BY DEF TypeOK
<1>4. [work[n] EXCEPT !.pc = "update", !.obj = obj] \in Work
  BY <1>1, <1>3 DEF Work
<1>5. work' = [work EXCEPT ![n] = [work[n] EXCEPT !.pc = "update", !.obj = obj]]
  BY <1>2
<1> QED
  BY <1>4, <1>5 DEF TypeOK

LEMMA FinishType ==
    ASSUME TypeOK, NEW n \in Tasks, NEW again, Finish(n, again)
    PROVE  work' \in [Tasks -> Work] /\ timer' \subseteq Tasks
BY IdleType DEF Finish, TypeOK

\* A next version of a task, whose metadata the API server sets.
LEMMA VersionType ==
    ASSUME NEW t \in Task, NEW uid \in Nat, NEW rv \in Nat, NEW spec \in TaskSpec
    PROVE  [t EXCEPT !.uid = uid, !.rv = rv, !.spec = spec] \in Task
BY DEF Task

LEMMA StoreStatusType ==
    ASSUME TypeOK, NEW n \in Tasks, StoreStatus(n)
    PROVE  etcd' \in [Tasks -> Task]
<1>1. etcd[n] \in Task /\ work[n].obj \in Task
  BY DEF TypeOK, Work
<1>2. [work[n].obj EXCEPT !.uid = etcd[n].uid, !.rv = etcd[n].rv + 1,
                          !.spec = etcd[n].spec] \in Task
  <2>1. etcd[n].uid \in Nat /\ etcd[n].rv \in Nat /\ etcd[n].spec \in TaskSpec
    BY <1>1 DEF Task
  <2>2. etcd[n].rv + 1 \in Nat
    BY <2>1
  <2> QED
    BY <1>1, <2>1, <2>2, VersionType
<1> QED
  BY <1>2 DEF StoreStatus, TypeOK

LEMMA RemoveTaskType ==
    ASSUME TypeOK, NEW n \in Tasks, RemoveTask(n)
    PROVE  etcd' \in [Tasks -> Task]
<1>1. etcd[n].rv + 1 \in Nat
  BY DEF TypeOK, Task
<1>2. NoTask(etcd[n].rv + 1) \in Task
  BY <1>1, NoTaskType
<1> QED
  BY <1>2 DEF RemoveTask, TypeOK

LEMMA SpendType ==
    ASSUME TypeOK, NEW d \in AllDisturbances, Spend(d)
    PROVE  spent' \in [AllDisturbances -> Nat]
BY DEF Spend, TypeOK

\* TypeOK by its parts, so that a step may name the parts it changes.
LEMMA TypeStep ==
    ASSUME TypeOK,
           etcd' \in [Tasks -> Task], cache' \in [Tasks -> Task],
           child' \in [Tasks -> [Kinds -> Child]],
           cchild' \in [Tasks -> [Kinds -> Child]],
           queue' \subseteq Tasks, timer' \subseteq Tasks,
           work' \in [Tasks -> Work], born' \in [Tasks -> Nat],
           aged' \in [Tasks -> Nat], spent' \in [AllDisturbances -> Nat]
    PROVE  TypeOK'
BY DEF TypeOK

LEMMA TypeInit == Init => TypeOK
<1> SUFFICES ASSUME Init PROVE TypeOK
  OBVIOUS
<1>1. NoTask(0) \in Task
  BY NoTaskType
<1>2. NoChild \in Child
  BY DEF NoChild, Child
<1> QED
  BY <1>1, <1>2, IdleType DEF Init, TypeOK

LEMMA CreateChildType ==
    ASSUME TypeOK, NEW n \in Tasks, NEW k \in Kinds, CreateChild(n, k)
    PROVE  TypeOK'
<1>1. child' = child \/ Stored(n, k)
  BY DEF CreateChild
<1>2. Continue(n, k) \/ CreateFails(n)
  BY DEF CreateChild
<1>3. spent' = spent \/ Spend("fault")
  BY DEF CreateChild
<1>4. child' \in [Tasks -> [Kinds -> Child]]
  BY <1>1, StoredType DEF TypeOK
<1>5. work' \in [Tasks -> Work]
  BY <1>2, ContinueType, CreateFailsType
<1>6. spent' \in [AllDisturbances -> Nat]
  BY <1>3, SpendType DEF AllDisturbances, TypeOK
<1> QED
  BY <1>4, <1>5, <1>6, TypeStep DEF CreateChild, cacheVars, TypeOK

LEMMA UpdateStatusType ==
    ASSUME TypeOK, NEW n \in Tasks, UpdateStatus(n)
    PROVE  TypeOK'
<1>1. etcd' = etcd \/ StoreStatus(n)
  BY DEF UpdateStatus
<1>2. \E again : Finish(n, again)
  BY DEF UpdateStatus
<1>3. spent' = spent \/ Spend("fault")
  BY DEF UpdateStatus
<1>4. etcd' \in [Tasks -> Task]
  BY <1>1, StoreStatusType DEF TypeOK
<1>5. work' \in [Tasks -> Work] /\ timer' \subseteq Tasks
  BY <1>2, FinishType
<1>6. spent' \in [AllDisturbances -> Nat]
  BY <1>3, SpendType DEF AllDisturbances, TypeOK
<1> QED
  BY <1>4, <1>5, <1>6, TypeStep DEF UpdateStatus, cacheVars, TypeOK

LEMMA DeleteCallType ==
    ASSUME TypeOK, NEW n \in Tasks, DeleteCall(n)
    PROVE  TypeOK'
<1>1. etcd' = etcd \/ RemoveTask(n)
  BY DEF DeleteCall
<1>2. \E again : Finish(n, again)
  BY DEF DeleteCall
<1>3. spent' = spent \/ Spend("fault")
  BY DEF DeleteCall
<1>4. etcd' \in [Tasks -> Task]
  BY <1>1, RemoveTaskType DEF TypeOK
<1>5. work' \in [Tasks -> Work] /\ timer' \subseteq Tasks
  BY <1>2, FinishType
<1>6. spent' \in [AllDisturbances -> Nat]
  BY <1>3, SpendType DEF AllDisturbances, TypeOK
<1> QED
  BY <1>4, <1>5, <1>6, TypeStep DEF DeleteCall, cacheVars, TypeOK

LEMMA ManagerType ==
    ASSUME TypeOK, NEW n \in Tasks, Manager(n)
    PROVE  TypeOK'
<1>1. CASE DeliverTask(n)
  BY <1>1 DEF DeliverTask, apiVars, TypeOK
<1>2. ASSUME NEW k \in Kinds, DeliverChild(n, k) PROVE TypeOK'
  <2>1. cchild' \in [Tasks -> [Kinds -> Child]]
    BY <1>2 DEF DeliverChild, TypeOK
  <2> QED
    BY <1>2, <2>1 DEF DeliverChild, apiVars, TypeOK
<1>3. CASE TimerFires(n)
  BY <1>3 DEF TimerFires, apiVars, cacheVars, TypeOK
<1>4. CASE Resync(n)
  BY <1>4 DEF Resync, apiVars, cacheVars, TypeOK
<1> QED
  BY <1>1, <1>2, <1>3, <1>4 DEF Manager

LEMMA RestartType ==
    ASSUME TypeOK, RestartManager
    PROVE  TypeOK'
<1>1. spent' \in [AllDisturbances -> Nat]
  BY SpendType DEF RestartManager, AllDisturbances
<1> QED
  BY <1>1, IdleType, TypeStep DEF RestartManager, TypeOK

LEMMA EnvironmentType ==
    ASSUME TypeOK, NEW n \in Tasks, Environment(n)
    PROVE  TypeOK'
<1>1. ASSUME NEW sp \in Specs, CreateTask(n, sp) PROVE TypeOK'
  <2>1. NewTask(born[n] + 1, etcd[n].rv + 1, sp) \in Task
    BY NewTaskType, SpecsAssumption DEF TypeOK, Task
  <2> QED
    BY <1>1, <2>1 DEF CreateTask, Outside, cacheVars, TypeOK
<1>2. ASSUME NEW sp \in Specs, EditTask(n, sp) PROVE TypeOK'
  <2>1. etcd' \in [Tasks -> Task]
    <3>1. etcd[n] \in Task /\ sp \in TaskSpec
      BY SpecsAssumption DEF TypeOK
    <3>2. [etcd[n] EXCEPT !.spec = sp, !.rv = @ + 1] \in Task
      <4>1. etcd[n].rv + 1 \in Nat
        BY <3>1 DEF Task
      <4> HIDE DEF TypeOK
      <4> QED
        BY <3>1, <4>1 DEF Task
    <3>3. etcd' = [etcd EXCEPT ![n] = [etcd[n] EXCEPT !.spec = sp, !.rv = @ + 1]]
      BY <1>2 DEF EditTask, TypeOK
    <3> QED
      BY <3>2, <3>3 DEF TypeOK
  <2>2. spent' \in [AllDisturbances -> Nat]
    BY <1>2, SpendType DEF EditTask, AllDisturbances
  <2> QED
    BY <1>2, <2>1, <2>2, TypeStep DEF EditTask, Outside, cacheVars, TypeOK
<1>3. ASSUME DeleteTask(n) PROVE TypeOK'
  <2>1. etcd' \in [Tasks -> Task]
    BY <1>3, RemoveTaskType DEF DeleteTask
  <2>2. spent' \in [AllDisturbances -> Nat]
    BY <1>3, SpendType DEF DeleteTask, AllDisturbances
  <2> QED
    BY <1>3, <2>1, <2>2, TypeStep DEF DeleteTask, Outside, cacheVars, TypeOK
<1>4. ASSUME NEW k \in Kinds, LoseChild(n, k) PROVE TypeOK'
  <2>1. child' \in [Tasks -> [Kinds -> Child]]
    BY <1>4 DEF LoseChild, NoChild, Child, TypeOK
  <2>2. spent' \in [AllDisturbances -> Nat]
    BY <1>4, SpendType DEF LoseChild, AllDisturbances
  <2> QED
    BY <1>4, <2>1, <2>2, TypeStep DEF LoseChild, Outside, cacheVars, TypeOK
<1>5. ASSUME NEW k \in Kinds, CollectGarbage(n, k) PROVE TypeOK'
  <2>1. child' \in [Tasks -> [Kinds -> Child]]
    BY <1>5 DEF CollectGarbage, NoChild, Child, TypeOK
  <2> QED
    BY <1>5, <2>1, TypeStep DEF CollectGarbage, Outside, cacheVars, TypeOK
<1>6. ASSUME Kubelet(n) PROVE TypeOK'
  <2>1. PICK p \in Phases : child' = [child EXCEPT ![n]["pod"].phase = p]
    BY <1>6 DEF Kubelet
  <2>2. p \in PodPhases
    BY EnvironmentAssumption
  <2>3. child' \in [Tasks -> [Kinds -> Child]]
    <3>1. "pod" \in Kinds /\ child[n]["pod"] \in Child
      BY DEF Kinds, TypeOK
    <3>2. [child[n]["pod"] EXCEPT !.phase = p] \in Child
      BY <2>2, <3>1 DEF Child
    <3>3. child' = [child EXCEPT ![n]["pod"] = [child[n]["pod"] EXCEPT !.phase = p]]
      BY <2>1, <3>1 DEF TypeOK
    <3> QED
      BY <3>1, <3>2, <3>3 DEF TypeOK
  <2> QED
    BY <1>6, <2>3, TypeStep DEF Kubelet, Outside, cacheVars, TypeOK
<1>7. ASSUME TenSecondsPass(n) PROVE TypeOK'
  BY <1>7 DEF TenSecondsPass, apiVars, cacheVars, TypeOK
<1>8. ASSUME NEW t \in Tokens, TTLElapses(n, t) PROVE TypeOK'
  <2>1. ASSUME NEW c \in Child PROVE Overdue(c, t) \in Child
    BY DEF Overdue, Child
  <2>2. child[n]["pod"] \in Child /\ cchild[n]["pod"] \in Child
    BY DEF TypeOK, Kinds
  <2>3. /\ child' \in [Tasks -> [Kinds -> Child]]
        /\ cchild' \in [Tasks -> [Kinds -> Child]]
    BY <1>8, <2>1, <2>2 DEF TTLElapses, TypeOK
  <2> QED
    BY <1>8, <2>3, TypeStep DEF TTLElapses, TypeOK
<1> QED
  BY <1>1, <1>2, <1>3, <1>4, <1>5, <1>6, <1>7, <1>8 DEF Environment

LEMMA TypeNext == TypeOK /\ [Next]_vars => TypeOK'
<1> SUFFICES ASSUME TypeOK, [Next]_vars PROVE TypeOK'
  OBVIOUS
<1>1. ASSUME NEW n \in Tasks, Reconcile(n) PROVE TypeOK'
  <2>1. /\ queue' = queue \ {n}
        /\ UNCHANGED <<apiVars, cacheVars, aged>>
        /\ work' \in [Tasks -> Work] /\ timer' \subseteq Tasks
    BY <1>1, ReconcileOutcome, OutcomeType
  <2> QED
    BY <2>1 DEF apiVars, cacheVars, TypeOK
<1>2. ASSUME NEW n \in Tasks, ApiCall(n) PROVE TypeOK'
  BY <1>2, CreateChildType, UpdateStatusType, DeleteCallType DEF ApiCall
<1>3. ASSUME NEW n \in Tasks, Manager(n) PROVE TypeOK'
  BY <1>3, ManagerType
<1>4. ASSUME NEW n \in Tasks, Environment(n) PROVE TypeOK'
  BY <1>4, EnvironmentType
<1>5. CASE RestartManager
  BY <1>5, RestartType
<1>6. CASE UNCHANGED vars
  BY <1>6 DEF vars, TypeOK
<1> QED
  BY <1>1, <1>2, <1>3, <1>4, <1>5, <1>6 DEF Next

\* The stored and the cached objects, the queue and the reconciliation under
\* way keep the shape task_types.go and the handlers give them.
THEOREM Typing == Spec => []TypeOK
<1>1. Init => TypeOK
  BY TypeInit
<1>2. TypeOK /\ [Next]_vars => TypeOK'
  BY TypeNext
<1> QED
  BY <1>1, <1>2, PTL DEF Spec

-----------------------------------------------------------------------------
(* The inductive invariant. First what it takes for each part to survive a   *)
(* step that leaves alone what the part speaks of.                           *)

LEMMA Numbers ==
    ASSUME TypeOK, NEW n \in Tasks
    PROVE  /\ etcd[n].uid \in Nat /\ etcd[n].rv \in Nat
           /\ cache[n].uid \in Nat /\ cache[n].rv \in Nat
           /\ work[n].obj.uid \in Nat /\ work[n].obj.rv \in Nat
           /\ born[n] \in Nat
           /\ \A k \in Kinds : child[n][k].owner \in Nat
BY DEF TypeOK, Task, Work, Child

LEMMA VersionsFrame ==
    ASSUME VersionsOK, UNCHANGED <<etcd, cache, born>>
    PROVE  VersionsOK'
BY DEF VersionsOK, WellFormed, Precedes, Present

LEMMA PlansFrame ==
    ASSUME PlansOK, UNCHANGED <<etcd, cache, born, work>>, queue \subseteq queue'
    PROVE  PlansOK'
BY DEF PlansOK, PlanOK, MayWrite, Present

LEMMA OwnersFrame ==
    ASSUME OwnersOK, UNCHANGED <<etcd, child, born>>
    PROVE  OwnersOK'
BY DEF OwnersOK, Present

LEMMA PodsFrame ==
    ASSUME PodsOK, UNCHANGED <<child, cchild>>
    PROVE  PodsOK'
BY DEF PodsOK, Exists

LEMMA WakeupFrame ==
    ASSUME NoLostWakeup, UNCHANGED <<etcd, cache, work>>,
           spent'["fault"] = spent["fault"],
           queue \union timer \subseteq queue' \union timer'
    PROVE  NoLostWakeup'
BY DEF NoLostWakeup, Rests, Attended, Present

-----------------------------------------------------------------------------
(* The API server stores a new version of a task.                            *)

\* e may follow etcd[n]: the next version of the same incarnation, which does
\* not leave TERMINATING nor return to the empty state; no object; or a new
\* incarnation.
NextVersion(n, e) ==
    /\ e \in Task
    /\ e.rv = etcd[n].rv + 1
    /\ Present(e) <=> e.state # "NOT_FOUND"
    /\ \/ /\ e.uid = etcd[n].uid /\ e.uid <= born'[n]
          /\ etcd[n].state = "TERMINATING" => e.state = "TERMINATING"
          /\ e.state = "UNSET" => etcd[n].state = "UNSET"
       \/ e.uid = 0
       \/ e.uid = born[n] + 1 /\ e.uid <= born'[n]

Stores(n, e) ==
    /\ NextVersion(n, e)
    /\ etcd' = [etcd EXCEPT ![n] = e]
    /\ born' \in [Tasks -> Nat]
    /\ \A m \in Tasks : born[m] <= born'[m]
    /\ UNCHANGED <<cache, cchild, child, queue>>
    /\ timer \subseteq timer'
    /\ work' = work \/ work' = [work EXCEPT ![n] = Idle]

LEMMA StoresVersions ==
    ASSUME TypeOK, VersionsOK, NEW n \in Tasks, NEW e, Stores(n, e)
    PROVE  VersionsOK'
<1> SUFFICES ASSUME NEW m \in Tasks
             PROVE  /\ WellFormed(etcd[m], m)'
                    /\ WellFormed(cache[m], m)'
                    /\ Precedes(cache[m], etcd[m])'
  BY DEF VersionsOK
<1>n. /\ etcd[m].uid \in Nat /\ etcd[m].rv \in Nat
      /\ cache[m].uid \in Nat /\ cache[m].rv \in Nat
      /\ born[m] \in Nat
  BY Numbers
<1>1. /\ WellFormed(etcd[m], m) /\ WellFormed(cache[m], m)
      /\ Precedes(cache[m], etcd[m])
  BY DEF VersionsOK
<1>2. cache' = cache /\ born[m] <= born'[m] /\ born'[m] \in Nat
  BY DEF Stores
<1>3. WellFormed(cache[m], m)'
  BY <1>1, <1>2, <1>n DEF WellFormed, Present
<1>4. CASE m # n
  <2>1. etcd'[m] = etcd[m]
    BY <1>4 DEF Stores
  <2> QED
    BY <1>1, <1>2, <1>3, <2>1, <1>n DEF WellFormed, Present, Precedes
<1>5. CASE m = n
  <2>1. etcd'[n] = e /\ NextVersion(n, e) /\ e.uid \in Nat
    BY DEF Stores, TypeOK, NextVersion, Task
  <2>2. WellFormed(etcd[m], m)'
    BY <1>2, <1>5, <2>1, <1>n DEF WellFormed, Present, NextVersion
  <2>3. cache[n].rv < e.rv
    BY <1>1, <1>5, <2>1, <1>n DEF Precedes, NextVersion
  <2>4. cache[n].uid = e.uid => /\ cache[n].state = "TERMINATING" => e.state = "TERMINATING"
                                /\ e.state = "UNSET" => cache[n].state = "UNSET"
    BY <1>1, <1>5, <2>1, <1>n DEF Precedes, NextVersion, WellFormed, Present
  <2>5. Precedes(cache[m], etcd[m])'
    BY <1>2, <1>5, <2>1, <2>3, <2>4, <1>n DEF Precedes, NextVersion
  <2> QED
    BY <1>3, <2>2, <2>5
<1> QED
  BY <1>4, <1>5

LEMMA StoresPlans ==
    ASSUME TypeOK, VersionsOK, PlansOK, NEW n \in Tasks, NEW e, Stores(n, e)
    PROVE  PlansOK'
<1> SUFFICES ASSUME NEW m \in Tasks, work'[m].pc # "idle"
             PROVE  PlanOK(m, work[m])'
  BY DEF PlansOK
<1>n. /\ etcd[m].uid \in Nat /\ etcd[m].rv \in Nat
      /\ work[m].obj.uid \in Nat /\ work[m].obj.rv \in Nat
      /\ born[m] \in Nat
  BY Numbers
<1>1. work'[m] = work[m]
  <2>1. Idle.pc = "idle"
    BY DEF Idle
  <2> QED
    BY <2>1 DEF Stores, TypeOK
<1>2. PlanOK(m, work[m])
  BY <1>1 DEF PlansOK
<1>3. cache' = cache /\ queue' = queue /\ born[m] <= born'[m] /\ born'[m] \in Nat
  BY DEF Stores
<1>4. CASE m # n
  <2>1. etcd'[m] = etcd[m]
    BY <1>4 DEF Stores
  <2> QED
    BY <1>1, <1>2, <1>3, <2>1, <1>n DEF PlanOK, MayWrite, Present
<1>5. CASE m = n
  <2> DEFINE w == work[n]
  <2>1. etcd'[n] = e /\ NextVersion(n, e) /\ e.uid \in Nat /\ e.rv \in Nat
    BY DEF Stores, TypeOK, NextVersion, Task
  <2>2. w.obj.rv < e.rv
    BY <1>2, <1>5, <2>1, <1>n DEF PlanOK, NextVersion
  <2>3. w.obj.uid # 0 /\ w.obj.uid <= born[n] /\ w.obj.uid <= born'[n]
    BY <1>2, <1>3, <1>5, <1>n DEF PlanOK, Present
  <2>4. w.pc \in Kinds => (w.obj.uid = e.uid => e.state # "UNSET")
    BY <1>2, <1>5, <2>1, <2>3, <1>n DEF PlanOK, NextVersion
  <2>5. w.pc = "delete" => (w.obj.uid = e.uid => e.state = "TERMINATING")
    BY <1>2, <1>5, <2>1, <2>3, <1>n DEF PlanOK, NextVersion
  <2> QED
    BY <1>1, <1>2, <1>3, <1>5, <2>1, <2>2, <2>3, <2>4, <2>5, <1>n
       DEF PlanOK, Present
<1> QED
  BY <1>4, <1>5

LEMMA StoresOwners ==
    ASSUME TypeOK, VersionsOK, OwnersOK, NEW n \in Tasks, NEW e, Stores(n, e)
    PROVE  OwnersOK'
<1> SUFFICES ASSUME NEW m \in Tasks, NEW k \in Kinds
             PROVE  /\ child'[m][k].owner <= born'[m]
                    /\ (Present(etcd[m]) /\ child[m][k].owner = etcd[m].uid
                           => etcd[m].state # "UNSET")'
  BY DEF OwnersOK
<1>n. child[m][k].owner \in Nat /\ born[m] \in Nat
  BY Numbers
<1>1. child' = child /\ born[m] <= born'[m] /\ born'[m] \in Nat
  BY DEF Stores
<1>2. /\ child[m][k].owner <= born[m]
      /\ Present(etcd[m]) /\ child[m][k].owner = etcd[m].uid => etcd[m].state # "UNSET"
  BY DEF OwnersOK
<1>3. child'[m][k].owner <= born'[m]
  BY <1>1, <1>2, <1>n
<1>4. CASE m # n
  BY <1>1, <1>2, <1>3, <1>4 DEF Stores, Present
<1>5. CASE m = n
  <2>1. etcd'[n] = e /\ NextVersion(n, e) /\ e.uid \in Nat
    BY DEF Stores, TypeOK, NextVersion, Task
  <2> QED
    BY <1>1, <1>2, <1>3, <1>5, <2>1, <1>n DEF NextVersion, Present
<1> QED
  BY <1>4, <1>5

LEMMA StoresWakeup ==
    ASSUME TypeOK, VersionsOK, NoLostWakeup, NEW n \in Tasks, NEW e, Stores(n, e),
           spent'["fault"] > 0 \/ spent'["fault"] = spent["fault"]
    PROVE  NoLostWakeup'
<1> SUFFICES ASSUME NEW m \in Tasks
             PROVE  \/ Rests(etcd[m])'
                    \/ (etcd[m].state = "RUNNING" /\ spent["fault"] > 0)'
                    \/ Attended(m)'
  BY DEF NoLostWakeup
<1>n. etcd[m].rv \in Nat /\ cache[m].rv \in Nat
  BY Numbers
<1>1. CASE m # n
  <2>1. etcd'[m] = etcd[m] /\ cache' = cache /\ queue' = queue /\ timer \subseteq timer'
    BY <1>1 DEF Stores
  <2>2. work'[m] = work[m]
    BY <1>1 DEF Stores, TypeOK
  <2>3. Rests(etcd[m]) \/ (etcd[m].state = "RUNNING" /\ spent["fault"] > 0) \/ Attended(m)
    BY DEF NoLostWakeup
  <2> QED
    BY <2>1, <2>2, <2>3 DEF Rests, Attended, Present
<1>2. CASE m = n
  <2>1. etcd'[n] = e /\ e.rv = etcd[n].rv + 1 /\ cache' = cache
    BY DEF Stores, TypeOK, NextVersion
  <2>2. cache[n].rv <= etcd[n].rv
    BY DEF VersionsOK, Precedes
  <2>3. cache'[n] # etcd'[n]
    BY <1>2, <2>1, <2>2, <1>n
  <2> QED
    BY <1>2, <2>3 DEF Attended
<1> QED
  BY <1>1, <1>2

\* The parts of the invariant beside TypeOK.
Core == VersionsOK /\ PlansOK /\ OwnersOK /\ PodsOK /\ NoLostWakeup

LEMMA StoresCore ==
    ASSUME TypeOK, Core, NEW n \in Tasks, NEW e, Stores(n, e),
           spent'["fault"] > 0 \/ spent'["fault"] = spent["fault"]
    PROVE  Core'
<1>1. PodsOK'
  BY PodsFrame DEF Stores, Core
<1> QED
  BY <1>1, StoresVersions, StoresPlans, StoresOwners, StoresWakeup DEF Core

\* The task named n is removed.
Removes(n) == /\ RemoveTask(n)
              /\ UNCHANGED <<cache, cchild, child, queue, born>>
              /\ timer \subseteq timer'
              /\ work' = work \/ work' = [work EXCEPT ![n] = Idle]

LEMMA RemovesCore ==
    ASSUME TypeOK, Core, NEW n \in Tasks, Removes(n),
           spent'["fault"] > 0 \/ spent'["fault"] = spent["fault"]
    PROVE  Core'
<1> DEFINE e == NoTask(etcd[n].rv + 1)
<1>n. etcd[n].rv \in Nat /\ born[n] \in Nat
  BY Numbers
<1>1. e \in Task
  BY <1>n, NoTaskType
<1>2. e.uid = 0 /\ e.rv = etcd[n].rv + 1 /\ e.state = "NOT_FOUND"
  BY DEF NoTask, NewTask
<1> HIDE DEF e
<1>3. NextVersion(n, e)
  BY <1>1, <1>2 DEF NextVersion, Present
<1>4. etcd' = [etcd EXCEPT ![n] = e]
  BY DEF Removes, RemoveTask, TypeOK, e
<1>5. Stores(n, e)
  BY <1>3, <1>4 DEF Stores, Removes, TypeOK
<1> QED
  BY <1>5, StoresCore

LEMMA SpendFault ==
    ASSUME TypeOK, NEW d \in AllDisturbances, Spend(d)
    PROVE  /\ d = "fault" => spent'["fault"] > 0
           /\ d # "fault" => spent'["fault"] = spent["fault"]
BY DEF Spend, TypeOK, AllDisturbances

\* A step that touches no task: the environment changes children or the clock.
LEMMA ChildrenCore ==
    ASSUME Core, UNCHANGED <<etcd, cache, queue, timer, work, born>>,
           spent'["fault"] = spent["fault"], OwnersOK', PodsOK'
    PROVE  Core'
BY VersionsFrame, PlansFrame, WakeupFrame DEF Core

LEMMA ReconcileCore ==
    ASSUME TypeOK, Core, NEW n \in Tasks, Reconcile(n)
    PROVE  Core'
<1>1. /\ WorkerFree
      /\ queue' = queue \ {n}
      /\ UNCHANGED <<apiVars, cacheVars, aged>>
      /\ Outcome(n)
  BY ReconcileOutcome
<1>2. UNCHANGED <<etcd, child, born, spent, cache, cchild>>
  BY <1>1 DEF apiVars, cacheVars
<1>3. VersionsOK' /\ OwnersOK' /\ PodsOK'
  BY <1>2, VersionsFrame, OwnersFrame, PodsFrame DEF Core
<1>4. /\ WellFormed(cache[n], n) /\ WellFormed(etcd[n], n)
      /\ Precedes(cache[n], etcd[n])
  BY DEF Core, VersionsOK
<1>5. PlansOK'
  <2> SUFFICES ASSUME NEW m \in Tasks, work'[m].pc # "idle"
               PROVE  PlanOK(m, work[m])'
    BY DEF PlansOK
  <2>1. work[m].pc = "idle"
    BY <1>1 DEF WorkerFree
  <2>2. PICK w \in Work : Planned(n, w) /\ work' = [work EXCEPT ![n] = w]
    BY <1>1, <2>1 DEF Outcome, RequeueAfter, Done
  <2>3. m = n /\ work'[n] = w
    BY <2>1, <2>2 DEF TypeOK
  <2>4. cache[n].state # "NOT_FOUND" /\ cache[n].uid \in Nat
    BY <2>2, Numbers DEF Planned
  <2> QED
    BY <1>2, <1>4, <2>2, <2>3, <2>4
       DEF PlanOK, Planned, WellFormed, Precedes, MayWrite, Present
<1>6. NoLostWakeup'
  <2> SUFFICES ASSUME NEW m \in Tasks
               PROVE  \/ Rests(etcd[m])'
                      \/ (etcd[m].state = "RUNNING" /\ spent["fault"] > 0)'
                      \/ Attended(m)'
    BY DEF NoLostWakeup
  <2>1. Rests(etcd[m]) \/ (etcd[m].state = "RUNNING" /\ spent["fault"] > 0) \/ Attended(m)
    BY DEF Core, NoLostWakeup
  <2>2. CASE m # n
    <3>1. work'[m] = work[m] /\ timer \subseteq timer'
      BY <1>1, <2>2 DEF Outcome, RequeueAfter, Done, TypeOK
    <3> QED
      BY <1>1, <1>2, <2>1, <2>2, <3>1 DEF Rests, Attended, Present
  <2>3. CASE m = n
    <3>1. CASE \E w \in Work : Planned(n, w) /\ work' = [work EXCEPT ![n] = w]
      <4>1. work'[n].pc # "idle"
        BY <3>1 DEF Planned, TypeOK
      <4> QED
        BY <2>3, <4>1 DEF Attended
    <3>2. CASE RequeueAfter(n)
      BY <2>3, <3>2 DEF RequeueAfter, Attended
    <3>3. CASE Settled(n)
      <4>1. CASE cache[n] # etcd[n]
        BY <1>2, <2>3, <4>1 DEF Attended
      <4>2. CASE cache[n] = etcd[n]
        <5>1. ~ (Exists(cchild[n]["pod"]) /\ cchild[n]["pod"].phase \notin PodPhases)
          BY DEF Core, PodsOK
        <5> QED
          BY <1>2, <1>4, <2>3, <3>3, <4>2, <5>1 DEF Settled, Rests, WellFormed, Present
      <4> QED
        BY <4>1, <4>2
    <3> QED
      BY <1>1, <3>1, <3>2, <3>3 DEF Outcome
  <2> QED
    BY <2>2, <2>3
<1> QED
  BY <1>3, <1>5, <1>6 DEF Core

LEMMA CreateChildCore ==
    ASSUME TypeOK, Core, NEW n \in Tasks, NEW k \in Kinds, CreateChild(n, k)
    PROVE  Core'
<1> DEFINE w == work[n]
<1>1. UNCHANGED <<etcd, born, cache, cchild, queue, timer>>
  BY DEF CreateChild, cacheVars
<1>2. w.pc = k /\ k # "idle" /\ k # "update" /\ k # "delete"
  BY DEF CreateChild, Kinds
<1>3. PlanOK(n, w)
  BY <1>2 DEF Core, PlansOK
<1>4. w \in Work /\ w.obj \in Task /\ w.obj.uid \in Nat /\ w.obj.uid # 0
  BY <1>3 DEF TypeOK, Work, Task, PlanOK, Present
<1>5. child' = child \/ Stored(n, k)
  BY DEF CreateChild
<1>6. VersionsOK'
  BY <1>1, VersionsFrame DEF Core
<1>7. OwnersOK'
  <2> SUFFICES ASSUME NEW m \in Tasks, NEW j \in Kinds
               PROVE  /\ child'[m][j].owner <= born[m]
                      /\ Present(etcd[m]) /\ child'[m][j].owner = etcd[m].uid
                             => etcd[m].state # "UNSET"
    BY <1>1 DEF OwnersOK, Present
  <2>1. /\ child[m][j].owner <= born[m]
        /\ Present(etcd[m]) /\ child[m][j].owner = etcd[m].uid => etcd[m].state # "UNSET"
    BY DEF Core, OwnersOK
  <2>2. CASE child'[m][j] = child[m][j]
    BY <2>1, <2>2 DEF Present
  <2>3. CASE child'[m][j] # child[m][j]
    <3>1. m = n /\ j = k /\ child'[m][j] = NewChild(n, k)
      BY <1>5, <2>3 DEF Stored, TypeOK
    <3>2. child'[m][j].owner = w.obj.uid
      BY <3>1 DEF NewChild
    <3> QED
      BY <1>2, <1>3, <3>1, <3>2 DEF PlanOK, Present
  <2> QED
    BY <2>2, <2>3
<1>8. PodsOK'
  <2> SUFFICES ASSUME NEW m \in Tasks, Exists(child'[m]["pod"])
               PROVE  child'[m]["pod"].phase \in PodPhases
    BY <1>1 DEF Core, PodsOK, Exists
  <2>1. CASE child'[m]["pod"] = child[m]["pod"]
    BY <2>1 DEF Core, PodsOK
  <2>2. CASE child'[m]["pod"] # child[m]["pod"]
    <3>1. "pod" \in Kinds
      BY DEF Kinds
    <3>2. m = n /\ k = "pod" /\ child'[m]["pod"] = NewChild(n, k)
      BY <1>5, <2>2, <3>1 DEF Stored, TypeOK
    <3> QED
      BY <3>2 DEF NewChild, PodPhases
  <2> QED
    BY <2>1, <2>2
<1>9. /\ work' \in [Tasks -> Work]
      /\ \A m \in Tasks \ {n} : work'[m] = work[m]
      /\ work'[n].pc # "idle"
      /\ PlanOK(n, work'[n])
  <2>1. CASE Continue(n, k)
    <3> DEFINE refs == {"pod", "service"} \union
                       IF w.obj.spec.domain THEN {"ingress"} ELSE {}
               obj == IF k = "ingress"
                      THEN [w.obj EXCEPT !.refs = refs, !.state = "SCHEDULED"]
                      ELSE w.obj
    <3>1. work' = [work EXCEPT ![n].pc = NextCall[k], ![n].obj = obj]
      BY <2>1 DEF Continue
    <3>2. work'[n] = [w EXCEPT !.pc = NextCall[k], !.obj = obj]
      BY <3>1 DEF TypeOK
    <3>3. obj.uid = w.obj.uid /\ obj.rv = w.obj.rv
      BY <1>4 DEF Task
    <3>4. k = "ingress" => obj.state = "SCHEDULED"
      BY <1>4 DEF Task
    <3> HIDE DEF obj, refs
    <3>5. /\ work'[n].obj = obj /\ work'[n].pc = NextCall[k]
          /\ work'[n].mode = w.mode
      BY <1>4, <3>2 DEF Work
    <3>6. \/ k = "ingress" /\ NextCall[k] = "update"
          \/ k # "ingress" /\ NextCall[k] \in Kinds /\ obj = w.obj
      BY DEF NextCall, Kinds, obj
    <3>7. PlanOK(n, work'[n])
      BY <1>2, <1>3, <3>3, <3>4, <3>5, <3>6
         DEF PlanOK, Present, Kinds, MayWrite, Lifecycle!Moves
    <3> QED
      BY <2>1, <3>1, <3>5, <3>6, <3>7, ContinueType DEF TypeOK, Kinds
  <2>2. CASE CreateFails(n)
    <3> DEFINE obj == AsError(w.obj, "failed to create")
    <3>1. work' = [work EXCEPT ![n].pc = "update", ![n].obj = obj]
      BY <2>2 DEF CreateFails
    <3>2. work'[n] = [w EXCEPT !.pc = "update", !.obj = obj]
      BY <3>1 DEF TypeOK
    <3>3. obj.uid = w.obj.uid /\ obj.rv = w.obj.rv /\ obj.state = "ERROR"
      BY <1>4 DEF AsError, Task
    <3> HIDE DEF obj
    <3>4. work'[n].obj = obj /\ work'[n].pc = "update" /\ work'[n].mode = w.mode
      BY <1>4, <3>2 DEF Work
    <3>5. PlanOK(n, work'[n])
      BY <1>2, <1>3, <3>3, <3>4 DEF PlanOK, Present, Kinds, MayWrite, Lifecycle!Moves
    <3> QED
      BY <2>2, <3>1, <3>4, <3>5, CreateFailsType DEF TypeOK
  <2> QED
    BY <2>1, <2>2 DEF CreateChild
<1>10. PlansOK'
  BY <1>1, <1>9 DEF Core, PlansOK, PlanOK, MayWrite, Present
<1>11. NoLostWakeup'
  <2>1. spent["fault"] > 0 => spent'["fault"] > 0
    BY SpendFault DEF CreateChild, AllDisturbances
  <2>2. \A m \in Tasks : Attended(m) => Attended(m)'
    BY <1>1, <1>9 DEF Attended
  <2> QED
    BY <1>1, <1>9, <2>1, <2>2 DEF Core, NoLostWakeup, Rests, Present, Attended
<1> QED
  BY <1>6, <1>7, <1>8, <1>10, <1>11 DEF Core

LEMMA UpdateStatusCore ==
    ASSUME TypeOK, Core, NEW n \in Tasks, UpdateStatus(n)
    PROVE  Core'
<1> DEFINE w == work[n]
<1>1. UNCHANGED <<child, born, cache, cchild, queue>>
  BY DEF UpdateStatus, cacheVars
<1>2. w.pc = "update" /\ PlanOK(n, w)
  BY DEF UpdateStatus, Core, PlansOK
<1>3. work' = [work EXCEPT ![n] = Idle] /\ timer \subseteq timer'
  BY DEF UpdateStatus, Finish
<1>4. spent'["fault"] > 0 \/ spent'["fault"] = spent["fault"]
  BY SpendFault DEF UpdateStatus, AllDisturbances
<1>5. etcd[n] \in Task /\ w.obj \in Task /\ w \in Work
  BY DEF TypeOK, Work
<1>n. etcd[n].rv \in Nat /\ etcd[n].uid \in Nat /\ born[n] \in Nat
  BY Numbers
<1>6. WellFormed(etcd[n], n) /\ Precedes(cache[n], etcd[n])
  BY DEF Core, VersionsOK
<1>7. CASE etcd' # etcd
  <2> DEFINE e == [w.obj EXCEPT !.uid = etcd[n].uid, !.rv = etcd[n].rv + 1,
                                !.spec = etcd[n].spec]
  <2>1. UpToDate(n) /\ StoreStatus(n)
    BY <1>7 DEF UpdateStatus
  <2>2. etcd' = [etcd EXCEPT ![n] = e]
    BY <1>7, <2>1 DEF StoreStatus
  <2>3. e \in Task
    <3>1. etcd[n].spec \in TaskSpec /\ etcd[n].rv + 1 \in Nat
      BY <1>5, <1>n DEF Task
    <3> QED
      BY <3>1, <1>5, <1>n, VersionType
  <2>4. /\ e.uid = etcd[n].uid /\ e.rv = etcd[n].rv + 1
        /\ e.state = w.obj.state
    BY <1>5 DEF Task
  <2>5. MayWrite(w, etcd[n]) /\ Present(etcd[n])
    BY <1>2, <2>1 DEF UpToDate, PlanOK
  <2> HIDE DEF e
  <2>6. NextVersion(n, e)
    BY <1>1, <1>6, <1>n, <2>3, <2>4, <2>5
       DEF NextVersion, MayWrite, WellFormed, Present, Lifecycle!Moves
  <2>7. Stores(n, e)
    BY <1>1, <1>3, <1>n, <2>2, <2>6 DEF Stores, TypeOK
  <2> QED
    BY <1>4, <2>7, StoresCore
<1>8. CASE etcd' = etcd
  <2>1. VersionsOK' /\ OwnersOK' /\ PodsOK'
    BY <1>1, <1>8, VersionsFrame, OwnersFrame, PodsFrame DEF Core
  <2>2. work' \in [Tasks -> Work] /\ work'[n].pc = "idle"
    BY <1>3, IdleType DEF TypeOK, Idle
  <2>3. \A m \in Tasks \ {n} : work'[m] = work[m]
    BY <1>3 DEF TypeOK
  <2>4. PlansOK'
    BY <1>1, <1>8, <2>2, <2>3 DEF Core, PlansOK, PlanOK, MayWrite, Present
  <2>5. Rests(etcd[n]) \/ (etcd[n].state = "RUNNING" /\ spent'["fault"] > 0) \/ Attended(n)'
    <3>1. CASE n \in timer'
      BY <3>1 DEF Attended
    <3>2. CASE n \notin timer'
      <4>1. CASE UpToDate(n) /\ StoreStatus(n) /\ UNCHANGED spent
                   /\ Finish(n, AgainAfterWrite(w))
        <5>1. w.obj = etcd[n]
          <6>1. CASE w.obj # etcd[n]
            <7>1. etcd'[n].rv = etcd[n].rv + 1
              BY <4>1, <6>1, <1>5 DEF StoreStatus, TypeOK, Task
            <7> QED
              BY <7>1, <1>8, <1>n
          <6> QED
            BY <6>1
        <5>2. w.mode # "cond"
          BY <3>2, <4>1 DEF Finish, AgainAfterWrite
        <5>3. <<etcd[n].state, etcd[n].state>> \in Lifecycle!Moves
          BY <1>2, <4>1, <5>1, <5>2 DEF UpToDate, PlanOK, MayWrite
        <5> QED
          BY <5>3 DEF Lifecycle!Moves
      <4>2. CASE Finish(n, AgainAfterFailure(w)) /\ ~UpToDate(n)
        <5>1. w.mode = "ignore"
          BY <3>2, <4>2 DEF Finish, AgainAfterFailure
        <5>2. CASE ~Present(etcd[n])
          BY <5>2 DEF Rests
        <5>3. CASE w.obj.rv # etcd[n].rv
          <6>1. CASE cache[n] = etcd[n]
            BY <1>1, <1>2, <5>3, <6>1 DEF PlanOK, Attended
          <6>2. CASE cache[n] # etcd[n]
            BY <1>1, <1>8, <6>2 DEF Attended
          <6> QED
            BY <6>1, <6>2
        <5> QED
          BY <4>2, <5>2, <5>3 DEF UpToDate
      <4>3. CASE Finish(n, AgainAfterFailure(w)) /\ UpToDate(n) /\ Spend("fault")
        <5>1. w.mode = "ignore"
          BY <3>2, <4>3 DEF Finish, AgainAfterFailure
        <5>2. etcd[n].state = "RUNNING"
          BY <1>2, <4>3, <5>1 DEF UpToDate, PlanOK, MayWrite
        <5> QED
          BY <4>3, <5>2, SpendFault DEF AllDisturbances
      <4> QED
        BY <4>1, <4>2, <4>3 DEF UpdateStatus
    <3> QED
      BY <3>1, <3>2
  <2>6. spent["fault"] > 0 => spent'["fault"] > 0
    BY <1>4
  <2>7. NoLostWakeup'
    BY <1>1, <1>3, <1>8, <2>3, <2>5, <2>6 DEF Core, NoLostWakeup, Rests, Attended, Present
  <2> QED
    BY <2>1, <2>4, <2>7 DEF Core
<1> QED
  BY <1>7, <1>8

LEMMA DeleteCallCore ==
    ASSUME TypeOK, Core, NEW n \in Tasks, DeleteCall(n)
    PROVE  Core'
<1>1. UNCHANGED <<child, born, cache, cchild, queue>>
  BY DEF DeleteCall, cacheVars
<1>2. work' = [work EXCEPT ![n] = Idle] /\ timer' = timer \union {n}
  BY DEF DeleteCall, Finish, AgainAfterDelete
<1>3. spent'["fault"] > 0 \/ spent'["fault"] = spent["fault"]
  BY SpendFault DEF DeleteCall, AllDisturbances
<1>4. CASE RemoveTask(n)
  <2>1. Removes(n)
    BY <1>1, <1>2, <1>4 DEF Removes, TypeOK
  <2> QED
    BY <1>3, <2>1, RemovesCore
<1>5. CASE etcd' = etcd
  <2>1. VersionsOK' /\ OwnersOK' /\ PodsOK'
    BY <1>1, <1>5, VersionsFrame, OwnersFrame, PodsFrame DEF Core
  <2>2. work' \in [Tasks -> Work] /\ work'[n].pc = "idle"
    BY <1>2, IdleType DEF TypeOK, Idle
  <2>3. \A m \in Tasks \ {n} : work'[m] = work[m]
    BY <1>2 DEF TypeOK
  <2>4. PlansOK'
    BY <1>1, <1>5, <2>2, <2>3 DEF Core, PlansOK, PlanOK, MayWrite, Present
  <2>5. NoLostWakeup'
    BY <1>1, <1>2, <1>3, <1>5, <2>3 DEF Core, NoLostWakeup, Rests, Attended, Present
  <2> QED
    BY <2>1, <2>4, <2>5 DEF Core
<1> QED
  BY <1>4, <1>5 DEF DeleteCall

LEMMA ManagerCore ==
    ASSUME TypeOK, Core, NEW n \in Tasks, Manager(n)
    PROVE  Core'
<1>1. CASE DeliverTask(n)
  <2>1. /\ UNCHANGED <<etcd, child, born, spent, cchild, timer, work>>
        /\ queue' = queue \union {n}
        /\ cache'[n] = etcd[n]
        /\ \A m \in Tasks \ {n} : cache'[m] = cache[m]
    BY <1>1 DEF DeliverTask, apiVars, TypeOK
  <2>2. OwnersOK' /\ PodsOK'
    BY <2>1, OwnersFrame, PodsFrame DEF Core
  <2>3. VersionsOK'
    <3>1. etcd[n].rv <= etcd[n].rv
      BY Numbers
    <3> QED
      BY <2>1, <3>1 DEF Core, VersionsOK, WellFormed, Precedes, Present
  <2>4. PlansOK'
    BY <2>1 DEF Core, PlansOK, PlanOK, MayWrite, Present
  <2>5. NoLostWakeup'
    BY <2>1 DEF Core, NoLostWakeup, Rests, Attended, Present
  <2> QED
    BY <2>2, <2>3, <2>4, <2>5 DEF Core
<1>2. ASSUME NEW k \in Kinds, DeliverChild(n, k) PROVE Core'
  <2>1. /\ UNCHANGED <<etcd, child, born, spent, cache, timer, work>>
        /\ queue' = queue \union {n}
    BY <1>2 DEF DeliverChild, apiVars
  <2>2. PodsOK'
    <3>1. \A m \in Tasks : \/ cchild'[m]["pod"] = cchild[m]["pod"]
                           \/ cchild'[m]["pod"] = child[m]["pod"]
      BY <1>2 DEF DeliverChild, TypeOK, Kinds
    <3> QED
      BY <2>1, <3>1 DEF Core, PodsOK, Exists
  <2> QED
    BY <2>1, <2>2, VersionsFrame, PlansFrame, OwnersFrame, WakeupFrame DEF Core
<1>3. CASE TimerFires(n) \/ Resync(n)
  <2>1. /\ UNCHANGED <<etcd, child, born, spent, cache, cchild, work>>
        /\ queue \subseteq queue'
        /\ queue \union timer \subseteq queue' \union timer'
    BY <1>3 DEF TimerFires, Resync, apiVars, cacheVars
  <2> QED
    BY <2>1, VersionsFrame, PlansFrame, OwnersFrame, PodsFrame, WakeupFrame DEF Core
<1> QED
  BY <1>1, <1>2, <1>3 DEF Manager

LEMMA RestartCore ==
    ASSUME TypeOK, Core, RestartManager
    PROVE  Core'
<1>1. /\ UNCHANGED <<etcd, child, born>>
      /\ cache' = etcd /\ cchild' = child
  BY DEF RestartManager
<1>2. \A m \in Tasks : work'[m].pc = "idle"
  BY DEF RestartManager, Idle
<1>3. VersionsOK'
  <2>1. \A m \in Tasks : etcd[m].rv <= etcd[m].rv
    BY Numbers
  <2> QED
    BY <1>1, <2>1 DEF Core, VersionsOK, WellFormed, Precedes, Present
<1>4. PlansOK'
  BY <1>2 DEF PlansOK
<1>5. OwnersOK' /\ PodsOK'
  BY <1>1, OwnersFrame DEF Core, PodsOK, Exists
<1>6. NoLostWakeup'
  BY <1>1 DEF RestartManager, NoLostWakeup, Rests, Attended, Present
<1> QED
  BY <1>3, <1>4, <1>5, <1>6 DEF Core

LEMMA EnvironmentCore ==
    ASSUME TypeOK, Core, NEW n \in Tasks, Environment(n)
    PROVE  Core'
<1>n. etcd[n].rv \in Nat /\ etcd[n].uid \in Nat /\ born[n] \in Nat
  BY Numbers
<1>1. ASSUME NEW sp \in Specs, CreateTask(n, sp) PROVE Core'
  <2> DEFINE e == NewTask(born[n] + 1, etcd[n].rv + 1, sp)
  <2>1. e \in Task
    BY <1>n, NewTaskType, SpecsAssumption
  <2>2. e.uid = born[n] + 1 /\ e.rv = etcd[n].rv + 1 /\ e.state = "UNSET"
    BY DEF NewTask
  <2> HIDE DEF e
  <2>3. etcd' = [etcd EXCEPT ![n] = e] /\ born'[n] = born[n] + 1
    BY <1>1 DEF CreateTask, TypeOK, e
  <2>4. born' \in [Tasks -> Nat] /\ \A m \in Tasks : born[m] <= born'[m]
    BY <1>1 DEF CreateTask, TypeOK
  <2>5. NextVersion(n, e)
    BY <1>n, <2>1, <2>2, <2>3 DEF NextVersion, Present
  <2>6. Stores(n, e) /\ spent' = spent
    BY <1>1, <2>3, <2>4, <2>5 DEF Stores, CreateTask, Outside, cacheVars
  <2> QED
    BY <2>6, StoresCore
<1>2. ASSUME NEW sp \in Specs, EditTask(n, sp) PROVE Core'
  <2> DEFINE e == [etcd[n] EXCEPT !.spec = sp, !.rv = @ + 1]
  <2>1. etcd[n] \in Task /\ etcd[n].rv + 1 \in Nat /\ sp \in TaskSpec
    BY <1>n, SpecsAssumption DEF TypeOK
  <2>2. e \in Task
    BY <2>1 DEF Task
  <2>3. e.uid = etcd[n].uid /\ e.rv = etcd[n].rv + 1 /\ e.state = etcd[n].state
    BY <2>1 DEF Task
  <2>4. etcd' = [etcd EXCEPT ![n] = e]
    BY <1>2 DEF EditTask, TypeOK
  <2> HIDE DEF e
  <2>5. WellFormed(etcd[n], n)
    BY DEF Core, VersionsOK
  <2>6. UNCHANGED <<cache, cchild, child, queue, timer, work, born>>
    BY <1>2 DEF EditTask, Outside, cacheVars
  <2>7. NextVersion(n, e)
    BY <1>n, <2>2, <2>3, <2>5, <2>6 DEF NextVersion, Present, WellFormed
  <2>8. Stores(n, e)
    BY <2>4, <2>6, <2>7 DEF Stores, TypeOK
  <2>9. spent'["fault"] = spent["fault"]
    BY <1>2, SpendFault DEF EditTask, AllDisturbances
  <2> QED
    BY <2>8, <2>9, StoresCore
<1>3. CASE DeleteTask(n)
  <2>1. Removes(n)
    BY <1>3 DEF DeleteTask, Removes, Outside, cacheVars
  <2>2. spent'["fault"] = spent["fault"]
    BY <1>3, SpendFault DEF DeleteTask, AllDisturbances
  <2> QED
    BY <2>1, <2>2, RemovesCore
<1>4. ASSUME NEW k \in Kinds, LoseChild(n, k) \/ CollectGarbage(n, k) PROVE Core'
  <2>1. /\ UNCHANGED <<etcd, cache, cchild, queue, timer, work, born>>
        /\ child' = [child EXCEPT ![n][k] = NoChild]
    BY <1>4 DEF LoseChild, CollectGarbage, Outside, cacheVars
  <2>2. \A m \in Tasks, j \in Kinds : child'[m][j] = child[m][j] \/ child'[m][j] = NoChild
    BY <2>1 DEF TypeOK
  <2>3. OwnersOK'
    <3>1. \A m \in Tasks : 0 <= born[m]
      BY DEF TypeOK
    <3>2. NoChild.owner = 0
      BY DEF NoChild
    <3> QED
      BY <2>1, <2>2, <3>1, <3>2 DEF Core, OwnersOK, Present
  <2>4. PodsOK'
    <3>1. "pod" \in Kinds /\ ~Exists(NoChild)
      BY DEF Kinds, Exists, NoChild
    <3> QED
      BY <2>1, <2>2, <3>1 DEF Core, PodsOK, Exists
  <2>5. spent'["fault"] = spent["fault"]
    BY <1>4, SpendFault DEF LoseChild, CollectGarbage, AllDisturbances
  <2> QED
    BY <2>1, <2>3, <2>4, <2>5, ChildrenCore
<1>5. CASE Kubelet(n)
  <2>1. PICK p \in Phases : child' = [child EXCEPT ![n]["pod"].phase = p]
    BY <1>5 DEF Kubelet
  <2>2. UNCHANGED <<etcd, cache, cchild, queue, timer, work, born, spent>>
    BY <1>5 DEF Kubelet, Outside, cacheVars
  <2>3. "pod" \in Kinds /\ p \in PodPhases
    BY EnvironmentAssumption DEF Kinds
  <2>4. \A m \in Tasks, j \in Kinds :
           /\ child'[m][j].owner = child[m][j].owner
           /\ child'[m][j] = child[m][j] \/ child'[m][j].phase = p
    BY <2>1, <2>3 DEF TypeOK, Child
  <2>5. OwnersOK' /\ PodsOK'
    BY <2>2, <2>3, <2>4 DEF Core, OwnersOK, PodsOK, Exists, Present
  <2> QED
    BY <2>2, <2>5, ChildrenCore
<1>6. CASE TenSecondsPass(n)
  <2>1. UNCHANGED <<etcd, child, born, spent, cache, cchild, queue, timer, work>>
    BY <1>6 DEF TenSecondsPass, apiVars, cacheVars
  <2>2. OwnersOK' /\ PodsOK'
    BY <2>1, OwnersFrame, PodsFrame DEF Core
  <2> QED
    BY <2>1, <2>2, ChildrenCore
<1>7. ASSUME NEW t \in Tokens, TTLElapses(n, t) PROVE Core'
  <2>1. /\ UNCHANGED <<etcd, cache, queue, timer, work, born, spent>>
        /\ child' = [child EXCEPT ![n]["pod"] = Overdue(@, t)]
        /\ cchild' = [cchild EXCEPT ![n]["pod"] = Overdue(@, t)]
    BY <1>7 DEF TTLElapses
  <2>2. \A c \in Child : Overdue(c, t).owner = c.owner /\ Overdue(c, t).phase = c.phase
    BY DEF Overdue, Child
  <2>3. "pod" \in Kinds
    BY DEF Kinds
  <2>4. \A m \in Tasks, j \in Kinds :
           /\ child'[m][j].owner = child[m][j].owner
           /\ child'[m][j].phase = child[m][j].phase
           /\ cchild'[m][j].phase = cchild[m][j].phase
    BY <2>1, <2>2, <2>3 DEF TypeOK
  <2>5. OwnersOK' /\ PodsOK'
    BY <2>1, <2>3, <2>4 DEF Core, OwnersOK, PodsOK, Exists, Present
  <2> QED
    BY <2>1, <2>5, ChildrenCore
<1> QED
  BY <1>1, <1>2, <1>3, <1>4, <1>5, <1>6, <1>7 DEF Environment

LEMMA InitCore == Init => Core
<1> SUFFICES ASSUME Init PROVE Core
  OBVIOUS
<1>1. \A n \in Tasks : /\ etcd[n] = NoTask(0) /\ cache[n] = etcd[n]
                        /\ work[n] = Idle /\ born[n] = 0
                        /\ \A k \in Kinds : child[n][k] = NoChild /\ cchild[n][k] = NoChild
  BY DEF Init
<1>2. NoTask(0).uid = 0 /\ NoTask(0).rv = 0 /\ NoTask(0).state = "NOT_FOUND"
  BY DEF NoTask, NewTask
<1>3. NoChild.owner = 0 /\ ~Exists(NoChild) /\ Idle.pc = "idle" /\ "pod" \in Kinds
  BY DEF NoChild, Exists, Idle, Kinds
<1>4. VersionsOK
  BY <1>1, <1>2 DEF VersionsOK, WellFormed, Precedes, Present
<1>5. PlansOK
  BY <1>1, <1>3 DEF PlansOK
<1>6. OwnersOK
  BY <1>1, <1>2, <1>3 DEF OwnersOK, Present
<1>7. PodsOK
  BY <1>1, <1>3 DEF PodsOK
<1>8. NoLostWakeup
  BY <1>1, <1>2 DEF NoLostWakeup, Rests, Present
<1> QED
  BY <1>4, <1>5, <1>6, <1>7, <1>8 DEF Core

LEMMA IInvNext == IInv /\ [Next]_vars => IInv'
<1> SUFFICES ASSUME IInv, [Next]_vars PROVE IInv'
  OBVIOUS
<1>1. TypeOK /\ Core
  BY DEF IInv, Core
<1>2. Core'
  <2>1. ASSUME NEW n \in Tasks, Reconcile(n) PROVE Core'
    BY <1>1, <2>1, ReconcileCore
  <2>2. ASSUME NEW n \in Tasks, ApiCall(n) PROVE Core'
    BY <1>1, <2>2, CreateChildCore, UpdateStatusCore, DeleteCallCore DEF ApiCall
  <2>3. ASSUME NEW n \in Tasks, Manager(n) PROVE Core'
    BY <1>1, <2>3, ManagerCore
  <2>4. ASSUME NEW n \in Tasks, Environment(n) PROVE Core'
    BY <1>1, <2>4, EnvironmentCore
  <2>5. CASE RestartManager
    BY <1>1, <2>5, RestartCore
  <2>6. CASE UNCHANGED vars
    <3>1. UNCHANGED <<etcd, child, born, spent, cache, cchild, queue, timer, work>>
      BY <2>6 DEF vars
    <3> QED
      BY <1>1, <3>1, VersionsFrame, PlansFrame, OwnersFrame, PodsFrame, WakeupFrame
         DEF Core
  <2> QED
    BY <2>1, <2>2, <2>3, <2>4, <2>5, <2>6 DEF Next
<1> QED
  BY <1>1, <1>2, TypeNext DEF IInv, Core

\* The invariant that carries the others: what the cache and a reconciliation
\* under way know is an earlier version of what the API server stores, a
\* handler holds a copy that has changed since only with its task queued again,
\* and a status it may still write is a move of the life cycle.
THEOREM Inductive == Spec => []IInv
<1>1. Init => IInv
  BY TypeInit, InitCore DEF IInv, Core
<1>2. IInv /\ [Next]_vars => IInv'
  BY IInvNext
<1> QED
  BY <1>1, <1>2, PTL DEF Spec

\* No sequence of early returns, dropped results, conflicts, faults, crashes and
\* reordered watch events of task_controller.go leaves a task that needs the
\* controller with nothing to bring it back.
THEOREM WakeupsAreKept == Spec => []NoLostWakeup
<1>1. IInv => NoLostWakeup
  BY DEF IInv
<1> QED
  BY <1>1, Inductive, PTL

\* stateTerminating deletes by name what it has read in a cache; if that is
\* still the same task, it is TERMINATING when the call reaches it.
THEOREM DeletesAreDue == Spec => DeleteIsDue
<1>1. IInv => \A n \in Tasks : DeletesTask(n) /\ etcd[n].uid = work[n].obj.uid
                                  => etcd[n].state = "TERMINATING"
  BY DEF IInv, PlansOK, PlanOK, DeletesTask
<1> QED
  BY <1>1, Inductive, PTL DEF DeleteIsDue
=============================================================================
