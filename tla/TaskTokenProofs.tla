--------------------------- MODULE TaskTokenProofs ---------------------------
(***************************************************************************)
(* Proofs about the tokens and addresses of tasks: what a running task     *)
(* publishes, and whose it is.                                             *)
(***************************************************************************)
EXTENDS TaskControllerProofs

-----------------------------------------------------------------------------
(* What the handlers put into the status they are going to write. *)

Drafted(n, w) ==
    /\ Announced(cache[n]) /\ HasToken(cchild[n]["pod"]) => Announced(w.obj)
    /\ w.pc \in Kinds => w.pc = "pod" /\ w.obj.token # NoToken
    /\ w.pc = "update" =>
          /\ w.obj.token = cache[n].token
          /\ w.obj.state = "SCHEDULED" => cache[n].state = "SCHEDULED"
          /\ w.obj.state = "RUNNING" => /\ Exists(cchild[n]["pod"])
                                        /\ w.obj.ip = cchild[n]["pod"].token

LEMMA BegunPlan ==
    ASSUME TypeOK, NEW n \in Tasks, NEW pc \in {"pod", "update", "delete"},
           NEW obj \in Task, NEW env \in AllEnvViews,
           NEW mode \in {"status", "cond", "ignore"}, Begin(n, pc, obj, env, mode)
    PROVE  work'[n].pc = pc /\ work'[n].obj = obj
BY DEF Begin, TypeOK

LEMMA UpdatePlan ==
    ASSUME TypeOK, NEW n \in Tasks, NEW obj \in Task,
           NEW mode \in {"status", "cond", "ignore"}, Update(n, obj, mode)
    PROVE  work'[n].pc = "update" /\ work'[n].obj = obj
BY BegunPlan DEF Update, AllEnvViews

\* A task that is given up announces nothing.
LEMMA EndDraft ==
    ASSUME TypeOK, NEW n \in Tasks, NEW obj \in Task,
           NEW mode \in {"status", "cond", "ignore"}, Update(n, obj, mode),
           obj.state \in {"ERROR", "TERMINATING"}, obj.token = cache[n].token
    PROVE  Drafted(n, work'[n])
<1>1. work'[n].pc = "update" /\ work'[n].obj = obj
  BY UpdatePlan
<1> QED
  BY <1>1 DEF Drafted, Announced, Kinds

LEMMA ErrorDraft ==
    ASSUME TypeOK, NEW n \in Tasks, NEW r \in Reasons, Update(n, AsError(cache[n], r), "status")
    PROVE  Drafted(n, work'[n])
<1> DEFINE obj == AsError(cache[n], r)
<1>1. cache[n] \in Task
  BY DEF TypeOK
<1>2. obj \in Task /\ obj.state = "ERROR" /\ obj.token = cache[n].token
  BY <1>1, AsErrorType DEF AsError, Task
<1> HIDE DEF obj
<1>3. Update(n, obj, "status")
  BY DEF obj
<1> QED
  BY <1>2, <1>3, EndDraft

LEMMA InitStatusDraft ==
    ASSUME TypeOK, NEW n \in Tasks, InitStatus(n)
    PROVE  Drafted(n, work'[n])
<1> DEFINE conds == cache[n].conds
           c1 == SetCond(conds, "TaskPodScheduled", TRUE, "PodNotScheduled")
           c2 == SetCond(c1, "TaskPodRunning", FALSE, "PodNotRunning")
           c3 == SetCond(c2, "TaskServiceUp", FALSE, "ServiceNotUp")
           c4 == SetCond(c3, "IngressReady", FALSE, "IngressNotReady")
           obj == AsPending(cache[n])
<1>1. cache[n] \in Task /\ conds \in [CondTypes -> Condition]
  BY DEF TypeOK, Task
<1>2. c4["TaskPodScheduled"].status = TRUE
  BY <1>1, CondTypesMembers DEF SetCond, Condition
<1>3. Conditions(conds, TRUE) = c4
  BY DEF Conditions
<1> HIDE DEF c4
<1>4. obj = [cache[n] EXCEPT !.state = "PENDING", !.conds = c4]
  BY <1>3 DEF AsPending
<1>5. obj.state = "PENDING" /\ obj.token = cache[n].token /\ obj.conds = c4
  BY <1>1, <1>4 DEF Task
<1>a. obj \in Task /\ Update(n, obj, "status")
  BY <1>1, AsPendingType DEF InitStatus
<1> HIDE DEF obj
<1>6. work'[n].pc = "update" /\ work'[n].obj = obj
  BY <1>a, UpdatePlan
<1> QED
  BY <1>2, <1>5, <1>6 DEF Drafted, Announced, Kinds

LEMMA StatePendingDraft ==
    ASSUME TypeOK, NEW n \in Tasks, StatePending(n)
    PROVE  Drafted(n, work'[n])
<1>1. cache[n] \in Task /\ cache[n].state = "PENDING"
  BY DEF TypeOK, StatePending, Pick
<1>2. PICK env \in EnvViews :
        IF env = "NotFound"
        THEN Update(n, AsError(cache[n], "environment build not found"), "status")
        ELSE /\ FreeTokens # {}
             /\ LET x == CHOOSE x \in FreeTokens : TRUE
                IN  Begin(n, "pod", [cache[n] EXCEPT !.token = x], env, "status")
  BY DEF StatePending
<1>3. CASE env = "NotFound"
  BY <1>2, <1>3, ErrorDraft DEF Reasons
<1>4. CASE env # "NotFound"
  <2> DEFINE x == CHOOSE x \in FreeTokens : TRUE
             obj == [cache[n] EXCEPT !.token = x]
  <2>1. x \in Tokens
    BY <1>2, <1>4 DEF FreeTokens
  <2>2. x # NoToken
    BY <2>1, TokenAssumption
  <2>3. Begin(n, "pod", obj, env, "status")
    BY <1>2, <1>4
  <2>4. /\ obj.token = x /\ obj.state = cache[n].state /\ obj.conds = cache[n].conds
        /\ obj.ip = cache[n].ip /\ obj \in Task
    BY <1>1, <2>1 DEF Task
  <2> HIDE DEF obj, x
  <2>5. env \in AllEnvViews
    BY EnvAssumption
  <2>6. work'[n].pc = "pod" /\ work'[n].obj = obj
    BY <2>3, <2>4, <2>5, BegunPlan
  <2> QED
    BY <1>1, <2>2, <2>4, <2>6 DEF Drafted, Announced, Kinds
<1> QED
  BY <1>3, <1>4

\* The pod is pending: a condition is set, which was True already.
LEMMA PendingPodDraft ==
    ASSUME TypeOK, NEW n \in Tasks, cache[n].state = "SCHEDULED",
           Update(n, [cache[n] EXCEPT !.conds =
                         SetCond(@, "TaskPodScheduled", TRUE, "PodScheduled")], "cond")
    PROVE  Drafted(n, work'[n])
<1> DEFINE c == SetCond(cache[n].conds, "TaskPodScheduled", TRUE, "PodScheduled")
           obj == [cache[n] EXCEPT !.conds =
                         SetCond(@, "TaskPodScheduled", TRUE, "PodScheduled")]
<1>1. cache[n] \in Task /\ cache[n].conds \in [CondTypes -> Condition]
  BY DEF TypeOK, Task
<1>2. c["TaskPodScheduled"].status = TRUE
  BY <1>1, CondTypesMembers DEF SetCond, Condition
<1>3. obj = [cache[n] EXCEPT !.conds = c]
  BY <1>1 DEF Task
<1>a. c \in [CondTypes -> Condition]
  BY <1>1, CondTypesMembers DEF SetCond, Condition
<1> HIDE DEF c
<1>4. /\ obj.state = "SCHEDULED" /\ obj.token = cache[n].token /\ obj.conds = c
      /\ obj \in Task
  BY <1>1, <1>3, <1>a DEF Task
<1>b. Update(n, obj, "cond")
  OBVIOUS
<1> HIDE DEF obj
<1>5. work'[n].pc = "update" /\ work'[n].obj = obj
  BY <1>4, <1>b, UpdatePlan
<1> QED
  BY <1>2, <1>4, <1>5 DEF Drafted, Announced, Kinds

LEMMA ReadyPodDraft ==
    ASSUME TypeOK, NEW n \in Tasks, cache[n].state = "SCHEDULED", Exists(cchild[n]["pod"]),
           Update(n, AsRunning(cache[n], cchild[n]["pod"]), "status")
    PROVE  Drafted(n, work'[n])
<1> DEFINE c1 == SetCond(cache[n].conds, "TaskPodRunning", TRUE, "PodRunning")
           c2 == SetCond(c1, "TaskServiceUp", TRUE, "ServiceUp")
           c3 == SetCond(c2, "IngressReady", TRUE, "IngressReady")
           pod == cchild[n]["pod"]
           obj == AsRunning(cache[n], pod)
<1>1. cache[n] \in Task /\ cache[n].conds \in [CondTypes -> Condition]
  BY DEF TypeOK, Task
<1>2. cache[n].conds["TaskPodScheduled"].status => \A c \in CondTypes : c3[c].status
  BY <1>1, CondTypesMembers DEF SetCond, Condition, CondTypes
<1> HIDE DEF c3
<1>3. obj = [cache[n] EXCEPT !.state = "RUNNING", !.ip = pod.token, !.conds = c3]
  BY DEF AsRunning, c3
<1>4. /\ obj.state = "RUNNING" /\ obj.token = cache[n].token /\ obj.ip = pod.token
      /\ obj.conds = c3
  BY <1>1, <1>3 DEF Task
<1>a. obj \in Task /\ Update(n, obj, "status")
  BY <1>1, AsRunningType DEF TypeOK, Kinds
<1> HIDE DEF obj
<1>5. work'[n].pc = "update" /\ work'[n].obj = obj
  BY <1>a, UpdatePlan
<1> QED
  BY <1>2, <1>4, <1>5, CondTypesMembers DEF Drafted, Announced, HasToken, Kinds

LEMMA StateScheduledDraft ==
    ASSUME TypeOK, NEW n \in Tasks, StateScheduled(n)
    PROVE  Drafted(n, work'[n]) \/ work' = work
<1> DEFINE t == cache[n]
           pod == cchild[n]["pod"]
           missing == FirstMissing(n)
<1>1. t.state = "SCHEDULED"
  BY DEF StateScheduled, Pick
<1>2. missing \in Kinds \union {"address", "none"} /\ (missing = "none" => Exists(pod))
  BY DEF FirstMissing, Kinds
<1>3. CASE missing = "address"
  BY <1>3 DEF StateScheduled, RequeueAfter, Kinds
<1>4. CASE missing \in Kinds
  <2>1. missing # "address" /\ missing # "none"
    BY <1>4 DEF Kinds
  <2>2. \/ RequeueAfter(n)
        \/ Update(n, AsError(t, CreationTimeout(missing)), "status")
    BY <1>4, <2>1 DEF StateScheduled
  <2>3. CreationTimeout(missing) \in Reasons
    BY <1>4 DEF CreationTimeout, Reasons, Kinds
  <2> QED
    BY <2>2, <2>3, ErrorDraft DEF RequeueAfter
<1>5. CASE missing = "none"
  <2>1. CASE pod.phase = "Pending"
    <3>1. Update(n, [t EXCEPT !.conds = SetCond(@, "TaskPodScheduled", TRUE, "PodScheduled")], "cond")
      BY <1>5, <2>1 DEF StateScheduled, Kinds
    <3> QED
      BY <1>1, <3>1, PendingPodDraft
  <2>2. CASE pod.phase = "Ready"
    <3>1. Update(n, AsRunning(t, pod), "status")
      BY <1>5, <2>2 DEF StateScheduled, Kinds
    <3> QED
      BY <1>1, <1>2, <1>5, <3>1, ReadyPodDraft
  <2>3. CASE pod.phase \in {"Exited", "Succeeded", "Failed"}
    <3>1. \E r \in Reasons : Update(n, AsError(t, r), "status")
      BY <1>5, <2>3 DEF StateScheduled, Kinds, Reasons
    <3> QED
      BY <3>1, ErrorDraft
  <2>4. CASE pod.phase = "Starting"
    BY <1>5, <2>4 DEF StateScheduled, RequeueAfter, Kinds
  <2>5. CASE pod.phase \notin PodPhases
    BY <1>5, <2>5 DEF StateScheduled, Done, Kinds, PodPhases
  <2> QED
    BY <2>1, <2>2, <2>3, <2>4, <2>5 DEF PodPhases
<1> QED
  BY <1>2, <1>3, <1>4, <1>5

LEMMA ReconcileDraft ==
    ASSUME TypeOK, NEW n \in Tasks, Reconcile(n)
    PROVE  Drafted(n, work'[n]) \/ work' = work
<1>1. cache[n] \in Task
  BY DEF TypeOK
<1>2. CASE StateRunning(n)
  <2>1. \/ work' = work
        \/ \E x \in {"ERROR", "TERMINATING"} : Update(n, [cache[n] EXCEPT !.state = x], "ignore")
    BY <1>2 DEF StateRunning, SyncLater, RequeueAfter
  <2>2. \A x \in {"ERROR", "TERMINATING"} :
            /\ [cache[n] EXCEPT !.state = x].state = x
            /\ [cache[n] EXCEPT !.state = x].token = cache[n].token
            /\ [cache[n] EXCEPT !.state = x] \in Task
    BY <1>1 DEF Task, States
  <2> QED
    BY <2>1, <2>2, EndDraft
<1>3. CASE StateError(n)
  <2>1. \/ work' = work
        \/ Update(n, [cache[n] EXCEPT !.state = "TERMINATING"], "status")
    BY <1>3 DEF StateError, Done
  <2>2. /\ [cache[n] EXCEPT !.state = "TERMINATING"].state = "TERMINATING"
        /\ [cache[n] EXCEPT !.state = "TERMINATING"].token = cache[n].token
        /\ [cache[n] EXCEPT !.state = "TERMINATING"] \in Task
    BY <1>1 DEF Task, States
  <2> QED
    BY <2>1, <2>2, EndDraft
<1>4. CASE StateTerminating(n)
  <2>1. work'[n].pc = "delete" /\ work'[n].obj = cache[n]
    BY <1>1, <1>4, BegunPlan DEF StateTerminating, AllEnvViews
  <2> QED
    BY <2>1 DEF Drafted, Kinds
<1> QED
  BY <1>2, <1>3, <1>4, InitStatusDraft, StatePendingDraft, StateScheduledDraft
     DEF Reconcile, StateNotFound, Done
-----------------------------------------------------------------------------
(* What a step that leaves a task alone keeps. *)

SamePod(a, b) == (Exists(a) <=> Exists(b)) /\ a.token = b.token /\ a.owner = b.owner

\* A step that, as far as tokens go, is not about m.
Alike(m) ==
    /\ etcd'[m] = etcd[m] /\ cache'[m] = cache[m] /\ work'[m] = work[m]
    /\ born'[m] = born[m]
    /\ SamePod(child'[m]["pod"], child[m]["pod"])
    /\ SamePod(cchild'[m]["pod"], cchild[m]["pod"])

\* No disturbance is forgotten.
Counted == spent' = spent \/ \E d \in AllDisturbances : spent'[d] # 0

LEMMA SpendCounted ==
    ASSUME TypeOK, NEW d \in AllDisturbances, Spend(d)
    PROVE  spent'[d] # 0
<1>1. spent \in [AllDisturbances -> Nat] /\ spent' = [spent EXCEPT ![d] = @ + 1]
  BY DEF Spend, TypeOK
<1> QED
  BY <1>1

LEMMA StillQuiet ==
    ASSUME Counted, NEW n \in Tasks, etcd'[n].uid = etcd[n].uid, Quiet(n)'
    PROVE  Quiet(n) /\ spent' = spent
BY DEF Counted, Quiet

LEMMA AlikeKeeps ==
    ASSUME NEW m \in Tasks, Alike(m), Counted, Announces(m), First(m)
    PROVE  Announces(m)' /\ First(m)'
<1>1. Announces(m)'
  BY DEF Alike, SamePod, Announces, Announced, HasToken
<1>2. Quiet(m)' => Quiet(m)
  BY StillQuiet DEF Alike
<1>3. OnePod(m) => OnePod(m)'
  BY DEF Alike, SamePod, OnePod, Publishes
<1>4. First(m)'
  BY <1>2, <1>3 DEF Alike, SamePod, First, Present
<1> QED
  BY <1>1, <1>4

\* A reconciliation that has ended.
LEMMA IdleAnnounces ==
    Announced(Idle.obj) /\ Idle.pc = "idle" /\ ~Publishes(Idle)
<1>1. Idle.obj.state = "NOT_FOUND"
  BY DEF Idle, NoTask, NewTask
<1>2. Idle.pc = "idle"
  BY DEF Idle
<1> QED
  BY <1>1, <1>2 DEF Announced, Publishes

-----------------------------------------------------------------------------
(* The steps *)

LEMMA ReconcileTokens ==
    ASSUME IInv, NEW n \in Tasks, Announces(n), First(n), Reconcile(n)
    PROVE  /\ Announces(n)' /\ First(n)' /\ Counted
           /\ \A m \in Tasks \ {n} : Alike(m)
<1>1. TypeOK /\ Precedes(cache[n], etcd[n])
  BY DEF IInv, VersionsOK
<1>2. /\ UNCHANGED <<etcd, child, born, spent, cache, cchild>>
      /\ work[n].pc = "idle" /\ Outcome(n)
  BY <1>1, ReconcileOutcome DEF WorkerFree, apiVars, cacheVars
<1>3. Counted
  BY <1>2 DEF Counted
<1>4. CASE work' = work
  <2>1. \A m \in Tasks : Alike(m)
    BY <1>2, <1>4 DEF Alike, SamePod
  <2> QED
    BY <1>3, <2>1, AlikeKeeps
<1>5. CASE work' # work
  <2>1. PICK w \in Work : Planned(n, w) /\ work' = [work EXCEPT ![n] = w]
    BY <1>2, <1>5 DEF Outcome, RequeueAfter, Done
  <2>2. work'[n] = w /\ \A m \in Tasks \ {n} : work'[m] = work[m]
    BY <1>1, <2>1 DEF TypeOK
  <2>3. Drafted(n, w)
    BY <1>1, <1>5, <2>2, ReconcileDraft
  <2>4. \A m \in Tasks \ {n} : Alike(m)
    BY <1>2, <2>2 DEF Alike, SamePod
  <2>5. Announces(n)'
    BY <1>2, <2>2, <2>3 DEF Announces, Announced, HasToken, Drafted, Exists
  <2>6. OnePod(n) => OnePod(n)'
    <3> SUFFICES ASSUME OnePod(n) PROVE OnePod(n)'
      OBVIOUS
    <3>1. ~Publishes(work[n])
      BY <1>2 DEF Publishes, Kinds
    <3>2. w.obj.rv = etcd[n].rv /\ w.obj.rv = cache[n].rv => cache[n] = etcd[n]
      BY <1>1 DEF Precedes
    <3>3. w.obj.rv = cache[n].rv
      BY <2>1 DEF Planned
    <3>4. w.pc \in Kinds => cache[n].state = "PENDING"
      BY <2>1 DEF Planned
    <3>5. etcd[n].state \in {"UNSET", "PENDING"} =>
            /\ w.pc \in Kinds => w.obj.rv = etcd[n].rv
            /\ ~Publishes(w) /\ ~Exists(child[n]["pod"])
      BY <2>3, <3>1, <3>3, <3>4 DEF OnePod, Drafted, Publishes, Kinds
    <3>6. etcd[n].state \in {"SCHEDULED", "RUNNING"} /\ w.pc = "update"
             /\ w.obj.rv = etcd[n].rv =>
                  /\ w.obj.token = etcd[n].token
                  /\ w.obj.state = "RUNNING" => w.obj.ip = etcd[n].token
      BY <2>3, <3>2, <3>3 DEF OnePod, Drafted
    <3> QED
      BY <1>2, <2>2, <3>5, <3>6 DEF OnePod, Exists
  <2>7. First(n)'
    BY <1>2, <2>6 DEF First, Quiet, Present, Exists
  <2> QED
    BY <1>3, <2>4, <2>5, <2>7
<1> QED
  BY <1>4, <1>5

\* What becomes of a plan and of the pod when a child is created: the plan goes
\* on, or the call is rejected with nothing created, or a fault is spent.
Goes(n, k, w) ==
    /\ w.obj.rv = work[n].obj.rv /\ w.obj.token = work[n].obj.token
    /\ w.obj.conds = work[n].obj.conds
    /\ Continue(n, k) \/ CreateFails(n)
    /\ Continue(n, k) => /\ w.pc = NextCall[k]
                         /\ IF k = "ingress" THEN w.obj.state = "SCHEDULED"
                                             ELSE w.obj = work[n].obj
    /\ CreateFails(n) => w.pc = "update" /\ w.obj.state = "ERROR"

LEMMA CreateChildPlan ==
    ASSUME TypeOK, NEW n \in Tasks, NEW k \in Kinds, CreateChild(n, k)
    PROVE  /\ Goes(n, k, work'[n])
           /\ \A m \in Tasks \ {n} : work'[m] = work[m]
<1> DEFINE w == work[n]
           refs == {"pod", "service"} \union
                   IF w.obj.spec.domain THEN {"ingress"} ELSE {}
           next == IF k = "ingress"
                   THEN [w.obj EXCEPT !.refs = refs, !.state = "SCHEDULED"]
                   ELSE w.obj
           failed == AsError(w.obj, "failed to create")
<1>1. w \in Work /\ w.obj \in Task
  BY DEF TypeOK, Work
<1>2. /\ next.rv = w.obj.rv /\ next.token = w.obj.token /\ next.conds = w.obj.conds
      /\ k # "ingress" => next = w.obj
      /\ k = "ingress" => next.state = "SCHEDULED"
  BY <1>1 DEF Task
<1>3. /\ failed.rv = w.obj.rv /\ failed.token = w.obj.token
      /\ failed.conds = w.obj.conds /\ failed.state = "ERROR"
  BY <1>1 DEF AsError, Task
<1>4. Continue(n, k) => work' = [work EXCEPT ![n].pc = NextCall[k], ![n].obj = next]
  BY DEF Continue
<1>5. CreateFails(n) => work' = [work EXCEPT ![n].pc = "update", ![n].obj = failed]
  BY DEF CreateFails
<1>6. Continue(n, k) \/ CreateFails(n)
  BY DEF CreateChild
<1> HIDE DEF next, failed
<1>7. Continue(n, k) => /\ work'[n].pc = NextCall[k] /\ work'[n].obj = next
                        /\ \A m \in Tasks \ {n} : work'[m] = work[m]
  BY <1>1, <1>4 DEF TypeOK, Work
<1>8. CreateFails(n) => /\ work'[n].pc = "update" /\ work'[n].obj = failed
                        /\ \A m \in Tasks \ {n} : work'[m] = work[m]
  BY <1>1, <1>5 DEF TypeOK, Work
<1> QED
  BY <1>2, <1>3, <1>6, <1>7, <1>8 DEF Goes

\* The pod afterwards: the one there was, or the one the plan describes.
LEMMA CreateChildPod ==
    ASSUME TypeOK, NEW n \in Tasks, NEW k \in Kinds, CreateChild(n, k)
    PROVE  /\ \A m \in Tasks \ {n} : child'[m] = child[m]
           /\ \/ child'[n]["pod"] = child[n]["pod"]
              \/ /\ k = "pod" /\ ~Exists(child[n]["pod"]) /\ Exists(child'[n]["pod"])
                 /\ child'[n]["pod"].token = work[n].obj.token
                 /\ child'[n]["pod"].owner = work[n].obj.uid
           /\ spent' = spent =>
                 \/ /\ Continue(n, k)
                    /\ k = "pod" /\ ~Exists(cchild[n]["pod"]) => Exists(child'[n]["pod"])
                 \/ CreateFails(n) /\ k = "pod" /\ child' = child
<1> DEFINE new == NewChild(n, k)
<1>0. "pod" \in Kinds
  BY DEF Kinds
<1>1. k = "pod" => /\ new.token = work[n].obj.token /\ new.owner = work[n].obj.uid
                   /\ Exists(new)
  BY DEF NewChild, Exists
<1>2. Stored(n, k) => IF Exists(child[n][k]) THEN child' = child
                      ELSE child' = [child EXCEPT ![n][k] = new]
  BY DEF Stored
<1>3. child' = child \/ Stored(n, k)
  BY DEF CreateChild
<1>4. spent' = spent => ~Spend("fault")
  BY SpendCounted DEF Spend, TypeOK, AllDisturbances
<1>5. spent' = spent =>
        \/ (k = "ingress" \/ Exists(cchild[n][k])) /\ Continue(n, k) /\ child' = child
        \/ Stored(n, k) /\ Continue(n, k)
        \/ k = "pod" /\ CreateFails(n) /\ child' = child
  BY <1>4 DEF CreateChild
<1> HIDE DEF new
<1>6. \A m \in Tasks \ {n} : child'[m] = child[m]
  BY <1>2, <1>3 DEF TypeOK
<1>7. \/ child'[n]["pod"] = child[n]["pod"]
      \/ k = "pod" /\ child'[n]["pod"] = new /\ ~Exists(child[n]["pod"])
  BY <1>0, <1>2, <1>3 DEF TypeOK
<1>8. Stored(n, k) /\ k = "pod" => Exists(child'[n]["pod"])
  BY <1>0, <1>1, <1>2 DEF TypeOK
<1> QED
  BY <1>1, <1>5, <1>6, <1>7, <1>8

LEMMA CreateChildTokens ==
    ASSUME IInv, NEW n \in Tasks, NEW k \in Kinds, Announces(n), First(n), CreateChild(n, k)
    PROVE  /\ Announces(n)' /\ First(n)' /\ Counted
           /\ \A m \in Tasks \ {n} : Alike(m)
<1> DEFINE w == work[n]
<1>0. "pod" \in Kinds /\ TypeOK
  BY DEF Kinds, IInv
<1>1. UNCHANGED <<etcd, born, cache, cchild>> /\ w.pc = k
  BY DEF CreateChild, cacheVars
<1>2. PlanOK(n, w)
  BY <1>1 DEF IInv, PlansOK, Kinds
<1>3. w.obj.uid \in Nat /\ w.obj.uid # 0 /\ w.obj.uid <= born[n] /\ born[n] \in Nat
  BY <1>0, <1>2, Numbers DEF PlanOK, Present
<1>4. w.obj.state = "PENDING" /\ w.obj.token # NoToken
  BY <1>1, <1>2 DEF PlanOK, Announces
<1>5. Goes(n, k, work'[n])
  BY <1>0, CreateChildPlan
<1>6. Counted
  BY <1>0, SpendCounted DEF Counted, CreateChild, AllDisturbances
<1>7. \A m \in Tasks \ {n} : Alike(m)
  BY <1>0, <1>1, CreateChildPlan, CreateChildPod DEF Alike, SamePod
<1>8. HasToken(child'[n]["pod"])
  BY <1>0, <1>4, CreateChildPod DEF Announces, HasToken
<1>9. Announced(work'[n].obj) /\ work'[n].obj.token # NoToken
  BY <1>4, <1>5 DEF Goes, Announces, Announced
<1>10. Announces(n)'
  BY <1>1, <1>8, <1>9 DEF Announces, Announced, HasToken, Exists
<1>11. Quiet(n) /\ spent' = spent => OnePod(n)'
  <2> SUFFICES ASSUME Quiet(n), spent' = spent PROVE OnePod(n)'
    OBVIOUS
  <2>1. OnePod(n) /\ etcd[n].uid = 1 /\ born[n] = 1 /\ w.obj.uid = 1
    BY <1>3 DEF First, Quiet, Present
  <2> DEFINE pod == child[n]["pod"]
             after == child'[n]["pod"]
  <2>2. Exists(pod) => after = pod
    BY <1>0, CreateChildPod
  <2>3. ~Exists(pod) => /\ ~Exists(cchild[n]["pod"])
                        /\ Exists(after) => after.owner = 1 /\ after.token = w.obj.token
    BY <1>0, <2>1, CreateChildPod DEF OnePod
  <2>4. CASE etcd[n].state \in {"UNSET", "PENDING"}
    <3>1. work'[n].obj.rv = etcd[n].rv /\ work'[n].obj.token = w.obj.token
      BY <1>1, <1>5, <2>1, <2>4 DEF OnePod, Goes
    <3>2. CASE /\ Continue(n, k)
               /\ k = "pod" /\ ~Exists(cchild[n]["pod"]) => Exists(after)
      <4>1. Publishes(work'[n])
        BY <1>5, <3>2 DEF Goes, Publishes, NextCall, Kinds
      <4>2. Exists(after) /\ after.token = w.obj.token
        <5>1. CASE k = "pod"
          <6>1. ~Exists(pod)
            BY <1>1, <2>1, <2>4, <5>1 DEF OnePod, Publishes
          <6>2. Exists(after)
            BY <2>3, <3>2, <5>1, <6>1
          <6> QED
            BY <2>3, <6>1, <6>2
        <5>2. CASE k # "pod"
          <6>1. Publishes(w)
            BY <1>1, <5>2 DEF Publishes, Kinds
          <6> QED
            BY <2>1, <2>2, <2>4, <6>1 DEF OnePod
        <5> QED
          BY <5>1, <5>2
      <4> QED
        BY <1>1, <2>1, <2>2, <2>3, <2>4, <3>1, <4>1, <4>2 DEF OnePod, Exists
    <3>3. CASE CreateFails(n) /\ k = "pod" /\ child' = child
      <4>1. ~Publishes(work'[n])
        BY <1>5, <3>3 DEF Goes, Publishes
      <4>2. ~Exists(pod)
        BY <1>1, <2>1, <2>4, <3>3 DEF OnePod, Publishes
      <4> QED
        BY <1>1, <1>5, <2>1, <2>3, <2>4, <3>1, <3>3, <4>1, <4>2
           DEF OnePod, Exists, Goes, Kinds
    <3> QED
      BY <1>0, <2>1, <3>2, <3>3, CreateChildPod
  <2>5. CASE etcd[n].state \in {"SCHEDULED", "RUNNING"}
    <3>1. work'[n].obj.rv # etcd[n].rv
      BY <1>1, <1>2, <1>5, <2>5 DEF PlanOK, Goes
    <3> QED
      BY <1>1, <2>1, <2>2, <2>5, <3>1 DEF OnePod, Exists
  <2>6. CASE etcd[n].state \notin {"UNSET", "PENDING", "SCHEDULED", "RUNNING"}
    BY <1>1, <2>1, <2>2, <2>3, <2>6 DEF OnePod, Exists
  <2> QED
    BY <2>4, <2>5, <2>6
<1>12. First(n)'
  <2>1. born[n] # 0
    BY <1>3
  <2>2. Quiet(n)' => Quiet(n) /\ spent' = spent
    BY <1>1, <1>6, StillQuiet
  <2> QED
    BY <1>1, <1>11, <2>1, <2>2 DEF First, Present
<1> QED
  BY <1>6, <1>7, <1>10, <1>12

LEMMA UpdateStatusTokens ==
    ASSUME IInv, NEW n \in Tasks, Announces(n), First(n), UpdateStatus(n)
    PROVE  /\ Announces(n)' /\ First(n)' /\ Counted
           /\ \A m \in Tasks \ {n} : Alike(m)
<1> DEFINE w == work[n]
           e == [w.obj EXCEPT !.uid = etcd[n].uid, !.rv = etcd[n].rv + 1,
                              !.spec = etcd[n].spec]
<1>1. TypeOK /\ UNCHANGED <<child, born, cache, cchild>> /\ w.pc = "update"
  BY DEF UpdateStatus, cacheVars, IInv
<1>2. /\ work'[n] = Idle
      /\ \A m \in Tasks \ {n} : work'[m] = work[m]
  BY <1>1 DEF UpdateStatus, Finish, TypeOK
<1>3. PlanOK(n, w)
  BY <1>1 DEF IInv, PlansOK
<1>4. etcd[n] \in Task /\ w.obj \in Task /\ etcd[n].rv \in Nat
  BY <1>1, Numbers DEF TypeOK, Work
<1>5. /\ e.uid = etcd[n].uid /\ e.rv = etcd[n].rv + 1 /\ e.state = w.obj.state
      /\ e.token = w.obj.token /\ e.ip = w.obj.ip /\ e.conds = w.obj.conds
  BY <1>4 DEF Task
<1>6. etcd' = etcd \/ (UpToDate(n) /\ StoreStatus(n))
  BY DEF UpdateStatus
<1>7. StoreStatus(n) => (w.obj = etcd[n] /\ etcd' = etcd) \/ etcd' = [etcd EXCEPT ![n] = e]
  BY DEF StoreStatus
<1>8. Counted
  BY <1>1, SpendCounted DEF Counted, UpdateStatus, AllDisturbances
<1>9. spent' = spent => ~UpToDate(n) \/ StoreStatus(n)
  BY <1>1, SpendCounted DEF UpdateStatus, Spend, TypeOK, AllDisturbances
<1> HIDE DEF e
<1>10. \A m \in Tasks \ {n} : Alike(m)
  BY <1>1, <1>2, <1>6, <1>7 DEF Alike, SamePod, TypeOK
<1>11. CASE etcd' = etcd /\ ~(UpToDate(n) /\ etcd' = [etcd EXCEPT ![n] = e])
  <2>1. Announces(n)'
    BY <1>1, <1>2, <1>11, IdleAnnounces DEF Announces, Announced, HasToken, Exists, Kinds
  <2>2. Quiet(n) /\ spent' = spent => OnePod(n)'
    <3> SUFFICES ASSUME Quiet(n), spent' = spent PROVE OnePod(n)'
      OBVIOUS
    <3>1. OnePod(n) /\ Present(etcd[n])
      BY DEF First, Quiet, Present
    <3>2. etcd[n].state \in {"UNSET", "PENDING"} => ~Publishes(w)
      <4> SUFFICES ASSUME etcd[n].state \in {"UNSET", "PENDING"}, Publishes(w) PROVE FALSE
        OBVIOUS
      <4>1. w.obj.rv = etcd[n].rv /\ w.obj.state = "SCHEDULED"
        BY <1>1, <3>1 DEF OnePod, Publishes
      <4>2. UpToDate(n)
        BY <3>1, <4>1 DEF UpToDate
      <4>3. w.obj = etcd[n]
        BY <1>7, <1>9, <1>11, <4>2
      <4> QED
        BY <4>1, <4>3
    <3>3. work'[n].pc \notin Kinds /\ work'[n].pc # "update" /\ ~Publishes(work'[n])
      BY <1>2, IdleAnnounces DEF Kinds
    <3> QED
      BY <1>1, <1>11, <3>1, <3>2, <3>3 DEF OnePod, Exists
  <2>3. First(n)'
    BY <1>1, <1>8, <1>11, <2>2, StillQuiet DEF First, Present, Exists
  <2> QED
    BY <1>8, <1>10, <2>1, <2>3
<1>12. CASE UpToDate(n) /\ etcd' = [etcd EXCEPT ![n] = e]
  <2>1. etcd'[n] = e
    BY <1>1, <1>12 DEF TypeOK
  <2>2. MayWrite(w, etcd[n]) /\ Present(etcd[n]) /\ w.obj.rv = etcd[n].rv
    BY <1>1, <1>3, <1>12 DEF UpToDate, PlanOK
  <2>3. Announced(e)
    BY <1>5 DEF Announces, Announced
  <2>4. Announces(n)'
    BY <1>1, <1>2, <2>1, <2>3, IdleAnnounces DEF Announces, Announced, HasToken, Exists, Kinds
  <2>5. Quiet(n) => OnePod(n)'
    <3> SUFFICES ASSUME Quiet(n) PROVE OnePod(n)'
      OBVIOUS
    <3>1. OnePod(n)
      BY DEF First
    <3>2. work'[n].pc \notin Kinds /\ work'[n].pc # "update" /\ ~Publishes(work'[n])
      BY <1>2, IdleAnnounces DEF Kinds
    <3>3. e.state \in {"UNSET", "PENDING"} =>
             etcd[n].state = "UNSET" /\ e.state = "PENDING" /\ ~Publishes(w)
      BY <1>1, <1>5, <2>2 DEF MayWrite, Lifecycle!Moves, Publishes
    <3>4. e.state = "SCHEDULED" =>
             /\ etcd[n].state = "PENDING" => Publishes(w)
             /\ etcd[n].state \in {"PENDING", "SCHEDULED"}
      BY <1>1, <1>5, <2>2 DEF MayWrite, Lifecycle!Moves, Publishes
    <3>5. e.state = "RUNNING" => etcd[n].state = "SCHEDULED"
      BY <1>5, <2>2 DEF MayWrite, Lifecycle!Moves
    <3>6. e.state \in {"UNSET", "PENDING"} =>
             /\ cache[n].state \in {"NOT_FOUND", "UNSET"}
             /\ ~Exists(child[n]["pod"])
      BY <3>1, <3>3 DEF OnePod
    <3>7. e.state \in {"SCHEDULED", "RUNNING"} =>
             /\ Exists(child[n]["pod"]) /\ child[n]["pod"].token = e.token
             /\ e.state = "RUNNING" => e.ip = e.token
      BY <1>1, <1>5, <2>2, <3>1, <3>4, <3>5 DEF OnePod
    <3> QED
      BY <1>1, <2>1, <3>1, <3>2, <3>6, <3>7 DEF OnePod, Exists
  <2>6. etcd'[n].uid = etcd[n].uid
    BY <1>5, <2>1
  <2>7. First(n)'
    BY <1>1, <1>8, <2>5, <2>6, StillQuiet DEF First, Present, Exists
  <2> QED
    BY <1>8, <1>10, <2>4, <2>7
<1> QED
  BY <1>6, <1>7, <1>11, <1>12

\* A task that is removed.
LEMMA RemovedTokens ==
    ASSUME TypeOK, NEW n \in Tasks, Announces(n), First(n), RemoveTask(n),
           UNCHANGED <<child, born, cache, cchild>>,
           work'[n] = work[n] \/ work'[n] = Idle
    PROVE  Announces(n)' /\ First(n)'
<1>1. etcd'[n].state = "NOT_FOUND" /\ etcd'[n].uid = 0
  <2>1. etcd'[n] = NoTask(etcd[n].rv + 1)
    BY DEF RemoveTask, TypeOK
  <2> QED
    BY <2>1 DEF NoTask, NewTask
<1>2. Announces(n)'
  BY <1>1, IdleAnnounces DEF Announces, Announced, HasToken, Exists, Kinds
<1>3. First(n)'
  BY <1>1 DEF First, Quiet, Present, Exists
<1> QED
  BY <1>2, <1>3

LEMMA DeleteCallTokens ==
    ASSUME IInv, NEW n \in Tasks, Announces(n), First(n), DeleteCall(n)
    PROVE  /\ Announces(n)' /\ First(n)' /\ Counted
           /\ \A m \in Tasks \ {n} : Alike(m)
<1>1. TypeOK /\ UNCHANGED <<child, born, cache, cchild>>
  BY DEF DeleteCall, cacheVars, IInv
<1>2. /\ work'[n] = Idle
      /\ \A m \in Tasks \ {n} : work'[m] = work[m]
  BY <1>1 DEF DeleteCall, Finish, TypeOK
<1>3. Counted
  BY <1>1, SpendCounted DEF Counted, DeleteCall, AllDisturbances
<1>4. RemoveTask(n) \/ (etcd' = etcd /\ (spent' = spent => ~Present(etcd[n])))
  <2>1. Spend("fault") => spent' # spent
    BY <1>1, SpendCounted DEF Spend, TypeOK, AllDisturbances
  <2>2. \/ IF Present(etcd[n]) THEN RemoveTask(n) ELSE UNCHANGED etcd
        \/ Spend("fault") /\ (etcd' = etcd \/ RemoveTask(n))
    BY DEF DeleteCall
  <2> QED
    BY <2>1, <2>2
<1>5. \A m \in Tasks \ {n} : Alike(m)
  BY <1>1, <1>2, <1>4 DEF Alike, SamePod, RemoveTask, TypeOK
<1>6. CASE RemoveTask(n)
  BY <1>1, <1>2, <1>3, <1>5, <1>6, RemovedTokens
<1>7. CASE etcd' = etcd /\ (spent' = spent => ~Present(etcd[n]))
  <2>1. Announces(n)'
    BY <1>1, <1>2, <1>7, IdleAnnounces DEF Announces, Announced, HasToken, Exists, Kinds
  <2>2. ~Quiet(n)'
    <3>1. Quiet(n)' => etcd[n].uid = 1 /\ spent' = spent
      BY <1>3, <1>7, StillQuiet DEF Quiet
    <3> QED
      BY <1>7, <3>1 DEF Present
  <2>3. First(n)'
    BY <1>1, <1>7, <2>2 DEF First, Present, Exists
  <2> QED
    BY <1>3, <1>5, <2>1, <2>3
<1> QED
  BY <1>4, <1>6, <1>7

LEMMA ManagerTokens ==
    ASSUME IInv, NEW n \in Tasks, Announces(n), First(n), Manager(n)
    PROVE  /\ Announces(n)' /\ First(n)' /\ Counted
           /\ \A m \in Tasks \ {n} : Alike(m)
<1>0. TypeOK /\ "pod" \in Kinds
  BY DEF IInv, Kinds
<1>1. CASE DeliverTask(n)
  <2>1. /\ UNCHANGED <<etcd, child, cchild, work, born, spent>>
        /\ cache'[n] = etcd[n] /\ \A m \in Tasks \ {n} : cache'[m] = cache[m]
    BY <1>0, <1>1 DEF DeliverTask, apiVars, TypeOK
  <2>2. Announces(n)'
    BY <2>1 DEF Announces, Announced, HasToken, Exists
  <2>3. OnePod(n) => OnePod(n)'
    BY <2>1 DEF OnePod, Publishes, Exists
  <2>4. First(n)'
    BY <2>1, <2>3 DEF First, Quiet, Present, Exists
  <2> QED
    BY <2>1, <2>2, <2>4 DEF Alike, SamePod, Counted
<1>2. ASSUME NEW k \in Kinds, DeliverChild(n, k)
      PROVE  /\ Announces(n)' /\ First(n)' /\ Counted
             /\ \A m \in Tasks \ {n} : Alike(m)
  <2>1. /\ UNCHANGED <<etcd, cache, child, work, born, spent>>
        /\ \A m \in Tasks \ {n} : cchild'[m] = cchild[m]
        /\ cchild'[n]["pod"] = cchild[n]["pod"] \/ cchild'[n]["pod"] = child[n]["pod"]
    BY <1>0, <1>2 DEF DeliverChild, apiVars, TypeOK
  <2>2. Announces(n)'
    BY <2>1 DEF Announces, Announced, HasToken, Exists
  <2>3. OnePod(n) => OnePod(n)'
    BY <2>1 DEF OnePod, Publishes, Exists
  <2>4. First(n)'
    BY <2>1, <2>3 DEF First, Quiet, Present, Exists
  <2> QED
    BY <2>1, <2>2, <2>4 DEF Alike, SamePod, Counted
<1>3. CASE TimerFires(n) \/ Resync(n)
  <2>1. UNCHANGED <<etcd, cache, child, cchild, work, born, spent>>
    BY <1>3 DEF TimerFires, Resync, apiVars, cacheVars
  <2>2. Counted /\ \A m \in Tasks : Alike(m)
    BY <2>1 DEF Alike, SamePod, Counted
  <2> QED
    BY <2>2, AlikeKeeps
<1> QED
  BY <1>1, <1>2, <1>3 DEF Manager

LEMMA RestartTokens ==
    ASSUME TypeOK, NEW n \in Tasks, Announces(n), First(n), RestartManager
    PROVE  Announces(n)' /\ First(n)'
<1>1. /\ UNCHANGED <<etcd, child, born>> /\ cache' = etcd /\ cchild' = child
      /\ work'[n] = Idle /\ spent'["crash"] # 0
  BY SpendCounted DEF RestartManager, AllDisturbances
<1>2. Announces(n)'
  BY <1>1, IdleAnnounces DEF Announces, Announced, HasToken, Exists, Kinds
<1>3. First(n)'
  BY <1>1 DEF First, Quiet, Present, Exists, AllDisturbances
<1> QED
  BY <1>2, <1>3

LEMMA CreateTaskTokens ==
    ASSUME IInv, NEW n \in Tasks, NEW s \in Specs, Announces(n), First(n), CreateTask(n, s)
    PROVE  Announces(n)' /\ First(n)'
<1>1. TypeOK /\ UNCHANGED <<cache, cchild, child, work, spent>>
  BY DEF CreateTask, Outside, cacheVars, IInv
<1>2. /\ etcd'[n].uid = born[n] + 1 /\ etcd'[n].state = "UNSET"
      /\ born'[n] = born[n] + 1 /\ born[n] \in Nat
  BY <1>1 DEF CreateTask, TypeOK, NewTask
<1>3. Announces(n)'
  BY <1>1, <1>2 DEF Announces, Announced, HasToken, Exists
<1>4. Quiet(n)' => OnePod(n)'
  <2> SUFFICES ASSUME born[n] = 0 PROVE OnePod(n)'
    BY <1>2 DEF Quiet
  <2>1. cache[n].state = "NOT_FOUND"
    BY <1>1, Numbers DEF IInv, VersionsOK, WellFormed, Present
  <2>2. work[n].pc = "idle"
    BY <1>1, Numbers DEF IInv, PlansOK, PlanOK, Present
  <2>3. ~Exists(child[n]["pod"]) /\ ~Exists(cchild[n]["pod"])
    BY DEF First
  <2> QED
    BY <1>1, <1>2, <2>1, <2>2, <2>3 DEF OnePod, Publishes, Exists, Kinds
<1>5. First(n)'
  BY <1>2, <1>4 DEF First
<1> QED
  BY <1>3, <1>5

\* The garbage collector leaves the pod of the first task alone.
LEMMA CollectGarbageTokens ==
    ASSUME TypeOK, NEW n \in Tasks, NEW k \in Kinds, Announces(n), First(n),
           LoseChild(n, k) \/ CollectGarbage(n, k)
    PROVE  Announces(n)' /\ First(n)' /\ Counted
<1>0. "pod" \in Kinds
  BY DEF Kinds
<1>1. /\ UNCHANGED <<etcd, cache, cchild, work, born>>
      /\ child' = [child EXCEPT ![n][k] = NoChild]
  BY DEF LoseChild, CollectGarbage, Outside, cacheVars
<1>2. \/ k # "pod" /\ child'[n]["pod"] = child[n]["pod"]
      \/ k = "pod" /\ ~Exists(child'[n]["pod"])
  BY <1>0, <1>1 DEF TypeOK, NoChild, Exists
<1>3. Announces(n)'
  BY <1>1, <1>2 DEF Announces, Announced, HasToken, Exists
<1>4. Counted
  BY SpendCounted DEF Counted, LoseChild, CollectGarbage, Outside, AllDisturbances
<1>5. Quiet(n)' => OnePod(n)'
  <2> SUFFICES ASSUME Quiet(n)' PROVE OnePod(n)'
    OBVIOUS
  <2>1. Quiet(n) /\ spent' = spent
    BY <1>1, <1>4, StillQuiet
  <2>2. OnePod(n) /\ etcd[n].uid = 1
    BY <2>1 DEF First, Quiet
  <2>3. CollectGarbage(n, k)
    BY <2>1, SpendCounted DEF LoseChild, Spend, TypeOK, AllDisturbances
  <2>4. k # "pod"
    BY <2>2, <2>3 DEF CollectGarbage, OnePod
  <2> QED
    BY <1>1, <1>2, <2>2, <2>4 DEF OnePod, Publishes, Exists
<1>6. First(n)'
  BY <1>1, <1>2, <1>5 DEF First, Present, Exists
<1> QED
  BY <1>3, <1>4, <1>6

LEMMA EnvironmentTokens ==
    ASSUME IInv, NEW n \in Tasks, Announces(n), First(n), Environment(n)
    PROVE  /\ Announces(n)' /\ First(n)' /\ Counted
           /\ \A m \in Tasks \ {n} : Alike(m)
<1>0. TypeOK /\ "pod" \in Kinds
  BY DEF IInv, Kinds
<1>1. ASSUME NEW s \in Specs, CreateTask(n, s)
      PROVE  /\ Announces(n)' /\ First(n)' /\ Counted
             /\ \A m \in Tasks \ {n} : Alike(m)
  <2>1. Counted /\ \A m \in Tasks \ {n} : Alike(m)
    BY <1>0, <1>1 DEF CreateTask, Outside, cacheVars, TypeOK, Counted, Alike, SamePod
  <2> QED
    BY <1>1, <2>1, CreateTaskTokens
<1>2. ASSUME NEW s \in Specs, EditTask(n, s)
      PROVE  /\ Announces(n)' /\ First(n)' /\ Counted
             /\ \A m \in Tasks \ {n} : Alike(m)
  <2>1. /\ UNCHANGED <<cache, child, cchild, work, born>>
        /\ etcd' = [etcd EXCEPT ![n].spec = s, ![n].rv = @ + 1]
        /\ spent'["edit"] # 0
    BY <1>0, <1>2, SpendCounted DEF EditTask, Outside, cacheVars, AllDisturbances
  <2>2. /\ etcd'[n].uid = etcd[n].uid /\ etcd'[n].state = etcd[n].state
        /\ etcd'[n].token = etcd[n].token /\ etcd'[n].ip = etcd[n].ip
        /\ etcd'[n].conds = etcd[n].conds
        /\ \A m \in Tasks \ {n} : etcd'[m] = etcd[m]
    BY <1>0, <2>1 DEF TypeOK, Task
  <2>3. Announces(n)'
    BY <2>1, <2>2 DEF Announces, Announced, HasToken, Exists
  <2>4. First(n)'
    BY <2>1, <2>2 DEF First, Quiet, Present, Exists, AllDisturbances
  <2>5. Counted /\ \A m \in Tasks \ {n} : Alike(m)
    BY <2>1, <2>2 DEF Counted, Alike, SamePod, AllDisturbances
  <2> QED
    BY <2>3, <2>4, <2>5
<1>3. CASE DeleteTask(n)
  <2>1. /\ UNCHANGED <<cache, child, cchild, work, born>> /\ RemoveTask(n)
        /\ spent'["delete"] # 0
    BY <1>0, <1>3, SpendCounted DEF DeleteTask, Outside, cacheVars, AllDisturbances
  <2>2. Counted /\ \A m \in Tasks \ {n} : Alike(m)
    BY <1>0, <2>1 DEF RemoveTask, TypeOK, Counted, Alike, SamePod, AllDisturbances
  <2> QED
    BY <1>0, <2>1, <2>2, RemovedTokens
<1>4. ASSUME NEW k \in Kinds, LoseChild(n, k) \/ CollectGarbage(n, k)
      PROVE  /\ Announces(n)' /\ First(n)' /\ Counted
             /\ \A m \in Tasks \ {n} : Alike(m)
  <2>1. /\ UNCHANGED <<etcd, cache, cchild, work, born>>
        /\ child' = [child EXCEPT ![n][k] = NoChild]
    BY <1>4 DEF LoseChild, CollectGarbage, Outside, cacheVars
  <2>2. \A m \in Tasks \ {n} : Alike(m)
    BY <1>0, <2>1 DEF TypeOK, Alike, SamePod
  <2> QED
    BY <1>0, <1>4, <2>2, CollectGarbageTokens
<1>5. CASE \/ Kubelet(n) \/ TenSecondsPass(n)
           \/ \E t \in Tokens : TTLElapses(n, t)
  <2>1. Counted /\ UNCHANGED <<etcd, cache, work, born>>
    BY <1>5 DEF Kubelet, TenSecondsPass, TTLElapses, Outside, apiVars, cacheVars, Counted
  <2>2. \A m \in Tasks : /\ SamePod(child'[m]["pod"], child[m]["pod"])
                         /\ SamePod(cchild'[m]["pod"], cchild[m]["pod"])
    <3>1. CASE Kubelet(n)
      <4>1. PICK p \in Phases : /\ <<child[n]["pod"].phase, p>> \in PodSteps
                                /\ child' = [child EXCEPT ![n]["pod"].phase = p]
        BY <3>1 DEF Kubelet
      <4>2. child[n]["pod"].phase # "None" /\ p # "None"
        BY <4>1 DEF PodSteps
      <4>3. cchild' = cchild
        BY <3>1 DEF Kubelet, Outside, cacheVars
      <4>4. \A m \in Tasks : child[m]["pod"] \in Child
        BY <1>0 DEF TypeOK
      <4>5. /\ \A m \in Tasks \ {n} : child'[m] = child[m]
            /\ child'[n]["pod"] = [child[n]["pod"] EXCEPT !.phase = p]
        BY <1>0, <4>1 DEF TypeOK
      <4> QED
        BY <4>2, <4>3, <4>4, <4>5 DEF SamePod, Exists, Child
    <3>2. CASE TenSecondsPass(n)
      BY <3>2 DEF TenSecondsPass, apiVars, cacheVars, SamePod
    <3>3. ASSUME NEW t \in Tokens, TTLElapses(n, t)
          PROVE  \A m \in Tasks : /\ SamePod(child'[m]["pod"], child[m]["pod"])
                                  /\ SamePod(cchild'[m]["pod"], cchild[m]["pod"])
      <4>1. \A c \in Child : SamePod(Overdue(c, t), c)
        BY DEF SamePod, Overdue, Child, Exists
      <4>2. /\ child' = [child EXCEPT ![n]["pod"] = Overdue(@, t)]
            /\ cchild' = [cchild EXCEPT ![n]["pod"] = Overdue(@, t)]
        BY <3>3 DEF TTLElapses
      <4>3. \A m \in Tasks : child[m]["pod"] \in Child /\ cchild[m]["pod"] \in Child
        BY <1>0 DEF TypeOK
      <4>4. \A m \in Tasks :
               /\ child'[m]["pod"] \in {child[m]["pod"], Overdue(child[m]["pod"], t)}
               /\ cchild'[m]["pod"] \in {cchild[m]["pod"], Overdue(cchild[m]["pod"], t)}
        BY <1>0, <4>2 DEF TypeOK
      <4> QED
        BY <4>1, <4>3, <4>4 DEF SamePod
    <3> QED
      BY <1>5, <3>1, <3>2, <3>3
  <2>3. \A m \in Tasks : Alike(m)
    BY <2>1, <2>2 DEF Alike
  <2> QED
    BY <2>1, <2>3, AlikeKeeps
<1> QED
  BY <1>1, <1>2, <1>3, <1>4, <1>5 DEF Environment

-----------------------------------------------------------------------------

LEMMA TokensInit == Init => TokensOK
<1> SUFFICES ASSUME Init, NEW n \in Tasks PROVE Announces(n) /\ First(n)
  BY DEF TokensOK
<1>1. etcd[n] = NoTask(0) /\ cache[n] = NoTask(0) /\ work[n] = Idle /\ born[n] = 0
  BY DEF Init
<1>2. child[n]["pod"] = NoChild /\ cchild[n]["pod"] = NoChild
  BY DEF Init, Kinds
<1>3. NoTask(0).state = "NOT_FOUND" /\ NoTask(0).uid = 0
  BY DEF NoTask, NewTask
<1>4. ~Exists(NoChild)
  BY DEF NoChild, Exists
<1>5. Announces(n)
  BY <1>1, <1>2, <1>3, <1>4, IdleAnnounces DEF Announces, Announced, HasToken, Kinds
<1>6. First(n)
  BY <1>1, <1>2, <1>3, <1>4 DEF First, Quiet, Present
<1> QED
  BY <1>5, <1>6

LEMMA TokensNext == IInv /\ TokensOK /\ [Next]_vars => TokensOK'
<1> SUFFICES ASSUME IInv, TokensOK, [Next]_vars PROVE TokensOK'
  OBVIOUS
<1>1. \A n \in Tasks : Announces(n) /\ First(n)
  BY DEF TokensOK
<1>2. ASSUME NEW n \in Tasks,
             Reconcile(n) \/ ApiCall(n) \/ Manager(n) \/ Environment(n)
      PROVE  TokensOK'
  <2>1. Announces(n) /\ First(n)
    BY <1>1
  <2>2. /\ Announces(n)' /\ First(n)' /\ Counted
        /\ \A m \in Tasks \ {n} : Alike(m)
    BY <1>2, <2>1, ReconcileTokens, CreateChildTokens, UpdateStatusTokens,
       DeleteCallTokens, ManagerTokens, EnvironmentTokens DEF ApiCall
  <2>3. \A m \in Tasks \ {n} : Announces(m)' /\ First(m)'
    BY <1>1, <2>2, AlikeKeeps
  <2> QED
    BY <2>2, <2>3 DEF TokensOK
<1>3. CASE RestartManager
  BY <1>1, <1>3, RestartTokens DEF TokensOK, IInv
<1>4. CASE UNCHANGED vars
  <2>1. Counted /\ \A m \in Tasks : Alike(m)
    BY <1>4 DEF vars, Counted, Alike, SamePod
  <2> QED
    BY <1>1, <2>1, AlikeKeeps DEF TokensOK
<1> QED
  BY <1>2, <1>3, <1>4 DEF Next

\* Every copy of a task announces what its state says, and the first task of a
\* name has one pod and one token as long as nobody interferes: stateScheduled
\* and createPod may run on stale copies, none of them publishes a token that is
\* not its pod's.
THEOREM TokensAreKept == Spec => []TokensOK
<1>1. Init => TokensOK
  BY TokensInit
<1>2. IInv /\ TokensOK /\ [Next]_vars => TokensOK'
  BY TokensNext
<1> QED
  BY <1>1, <1>2, Inductive, PTL DEF Spec

\* A RUNNING task has its four conditions True, a token and an address, although
\* markTaskAsRunning sets only three and a task may never be seen with its pod
\* pending: the fourth is True since Reconcile initialised the status.
THEOREM RunningTasksAreAnnounced == Spec => []RunningIsAnnounced
<1>1. TokensOK => RunningIsAnnounced
  BY DEF TokensOK, Announces, Announced, RunningIsAnnounced
<1> QED
  BY <1>1, TokensAreKept, PTL

\* With no edits, deletions, losses, faults and crashes, the token and the
\* address of a provisioned first task are its own pod's: statePending mints a
\* new token on every run, and optimistic concurrency alone keeps a second run
\* from publishing one no pod has.
THEOREM TokensMatch == Spec => []UndisturbedTokenMatches
<1>1. TokensOK => UndisturbedTokenMatches
  BY DEF TokensOK, First, Quiet, OnePod, UndisturbedTokenMatches
<1> QED
  BY <1>1, TokensAreKept, PTL

-----------------------------------------------------------------------------
(* No token is written over a published one. *)

\* How a step may change what is stored under a name: not at all, or by a next
\* version, with a token that was there or that an accepted status write brings.
Versioned(n) ==
    \/ etcd'[n] = etcd[n]
    \/ /\ etcd'[n].rv = etcd[n].rv + 1
       /\ \/ etcd'[n].uid # etcd[n].uid
          \/ etcd'[n].token = etcd[n].token
          \/ /\ work[n].pc = "update" /\ UpToDate(n)
             /\ etcd'[n].token = work[n].obj.token

\* How a step may bring about a status write: from a cached copy it leaves as
\* it is, or from a plan that has made the children.
Prepared(n) ==
    \/ work'[n] = work[n]
    \/ work'[n].pc # "update"
    \/ /\ etcd'[n] = etcd[n]
       /\ work'[n].obj.rv = cache[n].rv /\ work'[n].obj.token = cache[n].token
    \/ /\ etcd'[n] = etcd[n]
       /\ work[n].pc \in Kinds /\ work'[n].obj.rv = work[n].obj.rv

LEMMA SameTask ==
    ASSUME TypeOK, NEW n \in Tasks, etcd'[n] = etcd[n], work'[n] = work[n]
    PROVE  Versioned(n) /\ Prepared(n)
BY DEF Versioned, Prepared

LEMMA RemovedVersion ==
    ASSUME TypeOK, NEW n \in Tasks, Present(etcd[n]), RemoveTask(n),
           work'[n] = work[n] \/ work'[n] = Idle
    PROVE  Versioned(n) /\ Prepared(n)
<1>1. etcd'[n].uid = 0 /\ etcd'[n].rv = etcd[n].rv + 1
  <2>1. etcd'[n] = NoTask(etcd[n].rv + 1)
    BY DEF RemoveTask, TypeOK
  <2> QED
    BY <2>1 DEF NoTask, NewTask
<1>2. etcd[n].rv \in Nat
  BY Numbers
<1> QED
  BY <1>1, <1>2, IdleAnnounces DEF Versioned, Prepared, Present

LEMMA ReconcileVersion ==
    ASSUME TypeOK, NEW n \in Tasks, Reconcile(n)
    PROVE  /\ Versioned(n) /\ Prepared(n)
           /\ \A m \in Tasks \ {n} : etcd'[m] = etcd[m] /\ work'[m] = work[m]
<1>1. etcd' = etcd /\ Outcome(n)
  BY ReconcileOutcome DEF apiVars
<1>2. CASE work' = work
  BY <1>1, <1>2, SameTask
<1>3. CASE work' # work
  <2>1. PICK w \in Work : Planned(n, w) /\ work' = [work EXCEPT ![n] = w]
    BY <1>1, <1>3 DEF Outcome, RequeueAfter, Done
  <2>2. work'[n] = w /\ \A m \in Tasks \ {n} : work'[m] = work[m]
    BY <2>1 DEF TypeOK
  <2>3. Drafted(n, w)
    BY <1>3, <2>2, ReconcileDraft
  <2> QED
    BY <1>1, <2>1, <2>2, <2>3 DEF Versioned, Prepared, Planned, Drafted
<1> QED
  BY <1>2, <1>3

LEMMA UpdateStatusVersion ==
    ASSUME TypeOK, NEW n \in Tasks, UpdateStatus(n)
    PROVE  /\ Versioned(n) /\ Prepared(n)
           /\ \A m \in Tasks \ {n} : etcd'[m] = etcd[m] /\ work'[m] = work[m]
<1> DEFINE e == [work[n].obj EXCEPT !.uid = etcd[n].uid, !.rv = etcd[n].rv + 1,
                                    !.spec = etcd[n].spec]
<1>1. work[n].pc = "update" /\ work'[n].pc # "update"
  BY IdleAnnounces DEF UpdateStatus, Finish, TypeOK
<1>2. work[n].obj \in Task
  BY DEF TypeOK, Work
<1>3. e.rv = etcd[n].rv + 1 /\ e.token = work[n].obj.token
  BY <1>2 DEF Task
<1>4. etcd' = etcd \/ (UpToDate(n) /\ etcd' = [etcd EXCEPT ![n] = e])
  BY DEF UpdateStatus, StoreStatus
<1> HIDE DEF e
<1>5. \A m \in Tasks \ {n} : etcd'[m] = etcd[m] /\ work'[m] = work[m]
  BY <1>4 DEF UpdateStatus, Finish, TypeOK
<1>6. etcd'[n] = etcd[n] \/ (UpToDate(n) /\ etcd'[n] = e)
  BY <1>4 DEF TypeOK
<1> QED
  BY <1>1, <1>3, <1>5, <1>6 DEF Versioned, Prepared

LEMMA ApiCallVersion ==
    ASSUME TypeOK, NEW n \in Tasks, ApiCall(n)
    PROVE  /\ Versioned(n) /\ Prepared(n)
           /\ \A m \in Tasks \ {n} : etcd'[m] = etcd[m] /\ work'[m] = work[m]
<1>1. ASSUME NEW k \in Kinds, CreateChild(n, k)
      PROVE  /\ Versioned(n) /\ Prepared(n)
             /\ \A m \in Tasks \ {n} : etcd'[m] = etcd[m] /\ work'[m] = work[m]
  <2>1. etcd' = etcd /\ work[n].pc = k
    BY <1>1 DEF CreateChild
  <2>2. /\ work'[n].obj.rv = work[n].obj.rv
        /\ \A m \in Tasks \ {n} : work'[m] = work[m]
    BY <1>1, CreateChildPlan DEF Goes
  <2> QED
    BY <2>1, <2>2 DEF Versioned, Prepared
<1>2. CASE DeleteCall(n)
  <2>1. /\ work'[n] = Idle
        /\ \A m \in Tasks \ {n} : work'[m] = work[m]
    BY <1>2 DEF DeleteCall, Finish, TypeOK
  <2>2. CASE etcd' = etcd
    BY <2>1, <2>2, IdleAnnounces DEF Versioned, Prepared
  <2>3. CASE Present(etcd[n]) /\ RemoveTask(n)
    <3>1. \A m \in Tasks \ {n} : etcd'[m] = etcd[m]
      BY <2>3 DEF RemoveTask, TypeOK
    <3> QED
      BY <2>1, <2>3, <3>1, RemovedVersion
  <2> QED
    BY <1>2, <2>2, <2>3 DEF DeleteCall
<1> QED
  BY <1>1, <1>2, UpdateStatusVersion DEF ApiCall

LEMMA EnvironmentVersion ==
    ASSUME TypeOK, NEW n \in Tasks, Environment(n)
    PROVE  /\ Versioned(n) /\ Prepared(n)
           /\ \A m \in Tasks \ {n} : etcd'[m] = etcd[m] /\ work'[m] = work[m]
<1>n. etcd[n].rv \in Nat /\ born[n] \in Nat
  BY Numbers
<1>1. ASSUME NEW s \in Specs, CreateTask(n, s)
      PROVE  /\ Versioned(n) /\ Prepared(n)
             /\ \A m \in Tasks \ {n} : etcd'[m] = etcd[m] /\ work'[m] = work[m]
  <2>1. work' = work /\ etcd[n].uid = 0
    BY <1>1 DEF CreateTask, Outside, Present
  <2>2. /\ etcd'[n].uid = born[n] + 1 /\ etcd'[n].rv = etcd[n].rv + 1
        /\ \A m \in Tasks \ {n} : etcd'[m] = etcd[m]
    BY <1>1 DEF CreateTask, TypeOK, NewTask
  <2> QED
    BY <1>n, <2>1, <2>2 DEF Versioned, Prepared
<1>2. ASSUME NEW s \in Specs, EditTask(n, s)
      PROVE  /\ Versioned(n) /\ Prepared(n)
             /\ \A m \in Tasks \ {n} : etcd'[m] = etcd[m] /\ work'[m] = work[m]
  <2>1. work' = work /\ etcd' = [etcd EXCEPT ![n].spec = s, ![n].rv = @ + 1]
    BY <1>2 DEF EditTask, Outside
  <2>2. /\ etcd'[n].token = etcd[n].token /\ etcd'[n].rv = etcd[n].rv + 1
        /\ \A m \in Tasks \ {n} : etcd'[m] = etcd[m]
    BY <2>1 DEF TypeOK, Task
  <2>3. \A m \in Tasks : work'[m] = work[m]
    BY <2>1
  <2> QED
    BY <2>2, <2>3 DEF Versioned, Prepared
<1>3. CASE DeleteTask(n)
  <2>1. work' = work /\ Present(etcd[n]) /\ RemoveTask(n)
    BY <1>3 DEF DeleteTask, Outside
  <2>2. \A m \in Tasks \ {n} : etcd'[m] = etcd[m]
    BY <2>1 DEF RemoveTask, TypeOK
  <2> QED
    BY <2>1, <2>2, RemovedVersion
<1>4. CASE \/ Kubelet(n) \/ TenSecondsPass(n)
           \/ \E k \in Kinds : LoseChild(n, k) \/ CollectGarbage(n, k)
           \/ \E t \in Tokens : TTLElapses(n, t)
  <2>1. etcd' = etcd /\ work' = work
    BY <1>4 DEF Kubelet, TenSecondsPass, LoseChild, CollectGarbage, TTLElapses,
                Outside, apiVars
  <2> QED
    BY <2>1, SameTask
<1> QED
  BY <1>1, <1>2, <1>3, <1>4 DEF Environment

LEMMA EveryVersion ==
    ASSUME TypeOK, [Next]_vars, NEW n \in Tasks
    PROVE  Versioned(n) /\ Prepared(n)
<1>1. ASSUME NEW m \in Tasks, Reconcile(m) \/ ApiCall(m) \/ Environment(m)
      PROVE  Versioned(n) /\ Prepared(n)
  <2>1. /\ Versioned(m) /\ Prepared(m)
        /\ \A i \in Tasks \ {m} : etcd'[i] = etcd[i] /\ work'[i] = work[i]
    BY <1>1, ReconcileVersion, ApiCallVersion, EnvironmentVersion
  <2> QED
    BY <2>1, SameTask
<1>2. ASSUME NEW m \in Tasks, Manager(m) PROVE Versioned(n) /\ Prepared(n)
  <2>1. etcd' = etcd /\ work' = work
    BY <1>2 DEF Manager, DeliverTask, DeliverChild, TimerFires, Resync, apiVars
  <2> QED
    BY <2>1, SameTask
<1>3. CASE RestartManager
  <2>1. etcd' = etcd /\ work'[n].pc = "idle"
    BY <1>3, IdleAnnounces DEF RestartManager
  <2> QED
    BY <2>1 DEF Versioned, Prepared
<1>4. CASE UNCHANGED vars
  BY <1>4, SameTask DEF vars
<1> QED
  BY <1>1, <1>2, <1>3, <1>4 DEF Next

LEMMA WritesKeepNext == IInv /\ WritesKeepTokens /\ [Next]_vars => WritesKeepTokens'
<1> SUFFICES ASSUME IInv, WritesKeepTokens, [Next]_vars, NEW n \in Tasks,
                    work'[n].pc = "update", work'[n].obj.rv = etcd'[n].rv,
                    etcd'[n].state \notin {"UNSET", "PENDING"}
             PROVE  work'[n].obj.token = etcd'[n].token
  BY DEF WritesKeepTokens
<1>1. TypeOK /\ Precedes(cache[n], etcd[n])
  BY DEF IInv, VersionsOK
<1>2. Versioned(n) /\ Prepared(n)
  BY <1>1, EveryVersion
<1>n. etcd[n].rv \in Nat /\ work[n].obj.rv \in Nat
  BY <1>1, Numbers
<1>3. CASE work'[n] = work[n]
  <2>1. work[n].obj.rv <= etcd[n].rv
    BY <1>3 DEF IInv, PlansOK, PlanOK
  <2>2. etcd'[n] = etcd[n]
    BY <1>2, <1>3, <1>n, <2>1 DEF Versioned
  <2> QED
    BY <1>3, <2>2 DEF WritesKeepTokens
<1>4. CASE /\ etcd'[n] = etcd[n]
           /\ work'[n].obj.rv = cache[n].rv /\ work'[n].obj.token = cache[n].token
  BY <1>1, <1>4 DEF Precedes
<1>5. CASE /\ etcd'[n] = etcd[n]
           /\ work[n].pc \in Kinds /\ work'[n].obj.rv = work[n].obj.rv
  BY <1>5 DEF IInv, PlansOK, PlanOK, Kinds
<1> QED
  BY <1>2, <1>3, <1>4, <1>5 DEF Prepared

\* updateTaskStatus alone may write a token into a task, and once the task has
\* left PENDING it finds the same one there: the resourceVersion check keeps a
\* second run of statePending, which mints another token, from writing it.
THEOREM TokensStay == Spec => PublishedTokensStay
<1>1. Init => WritesKeepTokens
  <2>1. Idle.pc = "idle"
    BY IdleAnnounces
  <2> QED
    BY <2>1 DEF Init, WritesKeepTokens
<1>2. IInv /\ WritesKeepTokens /\ [Next]_vars => WritesKeepTokens'
  BY WritesKeepNext
<1>3. IInv /\ WritesKeepTokens /\ [Next]_vars =>
        \A n \in Tasks :
            etcd'[n].uid = etcd[n].uid /\ etcd[n].state \notin {"UNSET", "PENDING"}
                => etcd'[n].token = etcd[n].token
  <2> SUFFICES ASSUME IInv, WritesKeepTokens, [Next]_vars, NEW n \in Tasks,
                      etcd'[n].uid = etcd[n].uid,
                      etcd[n].state \notin {"UNSET", "PENDING"}
               PROVE  etcd'[n].token = etcd[n].token
    OBVIOUS
  <2>1. Versioned(n)
    BY EveryVersion DEF IInv
  <2> QED
    BY <2>1 DEF Versioned, UpToDate, WritesKeepTokens
<1> QED
  BY <1>1, <1>2, <1>3, Inductive, PTL DEF Spec, PublishedTokensStay
=============================================================================
