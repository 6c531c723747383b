------------------------ MODULE TaskRefinementProofs ------------------------
(***************************************************************************)
(* The controller with its caches, queue, API calls and disturbances       *)
(* implements TaskLifecycle: every step is a step of the life cycle of one *)
(* task, or changes nothing the life cycle speaks of.                      *)
(***************************************************************************)
EXTENDS TaskControllerProofs

\* The abstract state, as TaskProperties defines it for the instance.
life == [n \in Tasks |-> etcd[n].state]
keep == [n \in Tasks |-> Present(etcd[n]) /\ ~etcd[n].spec.tof]
OwnedBy(n) == {k \in Kinds : Present(etcd[n]) /\ child[n][k].owner = etcd[n].uid}
owned == [n \in Tasks |-> OwnedBy(n)]

LEMMA StutterStep ==
    ASSUME UNCHANGED <<etcd, child>>
    PROVE  UNCHANGED <<life, keep, owned>>
BY DEF life, keep, owned, OwnedBy, Present

\* A step that stores the version e of the task n and leaves the children.
Replaces(n, e) == /\ etcd' = [etcd EXCEPT ![n] = e]
                  /\ UNCHANGED child

LEMMA ReplacedState ==
    ASSUME TypeOK, NEW n \in Tasks, NEW e, Replaces(n, e)
    PROVE  /\ life' = [life EXCEPT ![n] = e.state]
           /\ keep' = [keep EXCEPT ![n] = Present(e) /\ ~e.spec.tof]
           /\ owned' = [owned EXCEPT ![n] = OwnedBy(n)']
           /\ etcd'[n] = e
<1>1. etcd'[n] = e /\ child' = child
  BY DEF Replaces, TypeOK
<1>2. \A m \in Tasks \ {n} : etcd'[m] = etcd[m]
  BY DEF Replaces, TypeOK
<1> QED
  BY <1>1, <1>2 DEF life, keep, owned, OwnedBy, Present

\* A step that changes the owner of one child at most and no task.
LEMMA ChildStep ==
    ASSUME TypeOK, NEW n \in Tasks, NEW k \in Kinds, UNCHANGED etcd,
           WellFormed(etcd[n], n), OwnersOK',
           \A m \in Tasks, j \in Kinds :
               m # n \/ j # k => child'[m][j].owner = child[m][j].owner
    PROVE  [Lifecycle!Next]_<<life, keep, owned>>
<1>1. UNCHANGED <<life, keep>>
  BY DEF life, keep, Present
<1>o. \A m \in Tasks \ {n} : OwnedBy(m)' = OwnedBy(m)
  BY DEF OwnedBy, Present
<1>2. CASE Present(etcd[n]) /\ child'[n][k].owner = etcd[n].uid
  <2>1. owned' = [owned EXCEPT ![n] = @ \union {k}]
    <3>1. OwnedBy(n)' = OwnedBy(n) \union {k}
      BY <1>2 DEF OwnedBy, Present
    <3> QED
      BY <1>o, <3>1 DEF owned
  <2>2. life[n] \notin {"NOT_FOUND", "UNSET"}
    BY <1>2 DEF life, OwnersOK, WellFormed, Present
  <2>3. Lifecycle!Provision(n, k)
    BY <1>1, <2>1, <2>2 DEF Lifecycle!Provision, life, keep, owned, OwnedBy
  <2> QED
    BY <2>3 DEF Lifecycle!Next
<1>3. CASE ~ (Present(etcd[n]) /\ child'[n][k].owner = etcd[n].uid)
  <2>1. owned' = [owned EXCEPT ![n] = @ \ {k}]
    <3>1. OwnedBy(n)' = OwnedBy(n) \ {k}
      BY <1>3 DEF OwnedBy, Present
    <3> QED
      BY <1>o, <3>1 DEF owned
  <2>2. Lifecycle!Lose(n, k)
    BY <1>1, <2>1 DEF Lifecycle!Lose, life, keep, owned, OwnedBy
  <2> QED
    BY <2>2 DEF Lifecycle!Next
<1> QED
  BY <1>2, <1>3

\* A new version of the same incarnation owns what the last one owned.
LEMMA Unreplaced ==
    ASSUME TypeOK, NEW n \in Tasks, NEW e, Replaces(n, e), e.uid = etcd[n].uid
    PROVE  /\ UNCHANGED owned
           /\ e.state = etcd[n].state => UNCHANGED life
           /\ e.spec = etcd[n].spec => UNCHANGED keep
<1>1. /\ etcd'[n] = e /\ child' = child
      /\ \A m \in Tasks \ {n} : etcd'[m] = etcd[m]
  BY DEF Replaces, TypeOK
<1>2. \A m \in Tasks : etcd'[m].uid = etcd[m].uid
  BY <1>1
<1>3. \A m \in Tasks : OwnedBy(m)' = OwnedBy(m)
  BY <1>1, <1>2 DEF OwnedBy, Present
<1> QED
  BY <1>1, <1>2, <1>3 DEF life, keep, owned, Present

LEMMA InitRefines == Init => Lifecycle!Init
<1> SUFFICES ASSUME Init PROVE Lifecycle!Init
  OBVIOUS
<1>1. \A n \in Tasks : etcd[n].uid = 0 /\ etcd[n].state = "NOT_FOUND"
  BY DEF Init, NoTask, NewTask
<1> QED
  BY <1>1 DEF Lifecycle!Init, Present

\* The API server removes the task n.
LEMMA RemoveRefines ==
    ASSUME TypeOK, NEW n \in Tasks, Present(etcd[n]), WellFormed(etcd[n], n),
           RemoveTask(n), UNCHANGED child
    PROVE  Lifecycle!Remove(n)
<1> DEFINE e == NoTask(etcd[n].rv + 1)
<1>1. e.uid = 0 /\ e.state = "NOT_FOUND"
  BY DEF NoTask, NewTask
<1>2. Replaces(n, e)
  BY DEF Replaces, RemoveTask, TypeOK
<1> HIDE DEF e
<1>3. /\ life' = [life EXCEPT ![n] = "NOT_FOUND"]
      /\ keep' = [keep EXCEPT ![n] = FALSE]
      /\ owned' = [owned EXCEPT ![n] = {}]
  <2>1. etcd'[n] = e
    BY <1>2, ReplacedState
  <2>2. OwnedBy(n)' = {}
    BY <1>1, <2>1 DEF OwnedBy, Present
  <2>3. (Present(e) /\ ~e.spec.tof) = FALSE
    BY <1>1 DEF Present
  <2>4. keep' = [keep EXCEPT ![n] = FALSE]
    BY <1>2, <2>3, ReplacedState
  <2>5. owned' = [owned EXCEPT ![n] = OwnedBy(n)']
    BY <1>2, ReplacedState
  <2>6. owned' = [owned EXCEPT ![n] = {}]
    BY <2>2, <2>5
  <2>7. life' = [life EXCEPT ![n] = "NOT_FOUND"]
    BY <1>1, <1>2, ReplacedState
  <2> QED
    BY <2>4, <2>6, <2>7
<1>4. life[n] # "NOT_FOUND"
  BY DEF life, WellFormed
<1> QED
  BY <1>3, <1>4 DEF Lifecycle!Remove, life, keep, owned, OwnedBy

LEMMA UpdateRefines ==
    ASSUME IInv, NEW n \in Tasks, UpdateStatus(n)
    PROVE  [Lifecycle!Next]_<<life, keep, owned>>
<1>1. TypeOK /\ etcd[n] \in Task /\ work[n].obj \in Task
  BY DEF IInv, TypeOK, Work
<1>2. CASE etcd' = etcd
  <2>1. UNCHANGED <<etcd, child>>
    BY <1>2 DEF UpdateStatus
  <2> QED
    BY <2>1, StutterStep
<1>3. CASE etcd' # etcd
  <2> DEFINE e == [work[n].obj EXCEPT !.uid = etcd[n].uid, !.rv = etcd[n].rv + 1,
                                      !.spec = etcd[n].spec]
  <2>1. UpToDate(n) /\ StoreStatus(n) /\ UNCHANGED child
    BY <1>3 DEF UpdateStatus
  <2>2. Replaces(n, e)
    BY <1>3, <2>1 DEF StoreStatus, Replaces
  <2>3. e.uid = etcd[n].uid /\ e.state = work[n].obj.state /\ e.spec = etcd[n].spec
    BY <1>1 DEF Task
  <2>4. MayWrite(work[n], etcd[n]) /\ Present(etcd[n])
    BY <2>1 DEF UpToDate, UpdateStatus, IInv, PlansOK, PlanOK
  <2> HIDE DEF e
  <2>5. UNCHANGED <<keep, owned>>
    BY <1>1, <2>2, <2>3, Unreplaced
  <2>6. life' = [life EXCEPT ![n] = work[n].obj.state]
    BY <1>1, <2>2, <2>3, ReplacedState
  <2>7. CASE work[n].obj.state = etcd[n].state
    BY <2>5, <2>6, <2>7 DEF life
  <2>8. CASE work[n].obj.state # etcd[n].state
    <3>1. /\ <<etcd[n].state, work[n].obj.state>> \in Lifecycle!Moves
          /\ etcd[n].state = "ERROR" => etcd[n].spec.tof
      BY <2>4, <2>8 DEF MayWrite
    <3>2. work[n].obj.state \in Lifecycle!States
      BY <1>1 DEF Task, States, Lifecycle!States
    <3>3. Lifecycle!Advance(n)
      BY <2>5, <2>6, <3>1, <3>2 DEF Lifecycle!Advance, life, keep, owned, OwnedBy
    <3> QED
      BY <3>3 DEF Lifecycle!Next
  <2> QED
    BY <2>7, <2>8
<1> QED
  BY <1>2, <1>3

LEMMA EnvironmentRefines ==
    ASSUME IInv, IInv', NEW n \in Tasks, Environment(n)
    PROVE  [Lifecycle!Next]_<<life, keep, owned>>
<1>1. /\ TypeOK /\ WellFormed(etcd[n], n) /\ OwnersOK /\ OwnersOK'
      /\ born[n] \in Nat
  BY Numbers DEF IInv, VersionsOK
<1>2. ASSUME NEW sp \in Specs, CreateTask(n, sp) PROVE Lifecycle!Create(n)
  <2> DEFINE e == NewTask(born[n] + 1, etcd[n].rv + 1, sp)
  <2>1. e.uid = born[n] + 1 /\ e.state = "UNSET" /\ e.spec = sp
    BY DEF NewTask
  <2>2. Replaces(n, e) /\ ~Present(etcd[n])
    BY <1>1, <1>2 DEF CreateTask, Replaces, TypeOK
  <2> HIDE DEF e
  <2>3. owned' = owned
    <3>1. \A k \in Kinds : child[n][k].owner \in Nat /\ child[n][k].owner <= born[n]
      BY <1>1, Numbers DEF OwnersOK
    <3>2. \A k \in Kinds : child[n][k].owner # e.uid
      BY <1>1, <2>1, <3>1
    <3>3. OwnedBy(n)' = OwnedBy(n)
      <4>1. etcd'[n] = e /\ child' = child
        BY <1>1, <2>2, ReplacedState DEF Replaces
      <4> QED
        BY <2>2, <3>2, <4>1 DEF OwnedBy
    <3>4. owned = [owned EXCEPT ![n] = OwnedBy(n)]
      BY DEF owned
    <3> QED
      BY <1>1, <2>2, <3>3, <3>4, ReplacedState
  <2>4. sp.tof \in BOOLEAN
    BY SpecsAssumption DEF TaskSpec
  <2>5. life[n] = "NOT_FOUND"
    BY <1>1, <2>2 DEF life, WellFormed
  <2>6. /\ life' = [life EXCEPT ![n] = "UNSET"]
        /\ keep' = [keep EXCEPT ![n] = Present(e) /\ ~sp.tof]
    BY <1>1, <2>1, <2>2, ReplacedState
  <2> QED
    BY <2>3, <2>4, <2>5, <2>6 DEF Lifecycle!Create, life, keep, owned, OwnedBy
<1>3. ASSUME NEW sp \in Specs, EditTask(n, sp) PROVE Lifecycle!Respec(n)
  <2> DEFINE e == [etcd[n] EXCEPT !.spec = sp, !.rv = @ + 1]
  <2>1. etcd[n] \in Task
    BY <1>1 DEF TypeOK
  <2>2. e.uid = etcd[n].uid /\ e.state = etcd[n].state /\ e.spec = sp
    BY <2>1 DEF Task
  <2>3. Replaces(n, e) /\ Present(etcd[n])
    BY <1>1, <1>3 DEF EditTask, Replaces, TypeOK
  <2> HIDE DEF e
  <2>4. UNCHANGED <<life, owned>>
    BY <1>1, <2>2, <2>3, Unreplaced
  <2>5. keep' = [keep EXCEPT ![n] = Present(e) /\ ~sp.tof]
    BY <1>1, <2>2, <2>3, ReplacedState
  <2>6. life[n] # "NOT_FOUND"
    BY <1>1, <2>3 DEF life, WellFormed
  <2> QED
    BY <2>4, <2>5, <2>6 DEF Lifecycle!Respec, life, keep, owned, OwnedBy
<1>4. ASSUME DeleteTask(n) PROVE Lifecycle!Remove(n)
  BY <1>1, <1>4, RemoveRefines DEF DeleteTask
<1>5. ASSUME NEW k \in Kinds, LoseChild(n, k) \/ CollectGarbage(n, k)
      PROVE  [Lifecycle!Next]_<<life, keep, owned>>
  <2>1. UNCHANGED etcd /\ child' = [child EXCEPT ![n][k] = NoChild]
    BY <1>5 DEF LoseChild, CollectGarbage
  <2>2. \A m \in Tasks, j \in Kinds :
            m # n \/ j # k => child'[m][j].owner = child[m][j].owner
    BY <1>1, <2>1 DEF TypeOK
  <2> QED
    BY <1>1, <2>1, <2>2, ChildStep
<1>6. CASE Kubelet(n)
  <2>1. PICK p \in Phases : child' = [child EXCEPT ![n]["pod"].phase = p]
    BY <1>6 DEF Kubelet
  <2>2. "pod" \in Kinds /\ UNCHANGED etcd
    BY <1>6 DEF Kinds, Kubelet
  <2>3. \A m \in Tasks, j \in Kinds :
            m # n \/ j # "pod" => child'[m][j].owner = child[m][j].owner
    BY <1>1, <2>1 DEF TypeOK
  <2> QED
    BY <1>1, <2>2, <2>3, ChildStep
<1>7. CASE TenSecondsPass(n)
  BY <1>7, StutterStep DEF TenSecondsPass, apiVars
<1>8. ASSUME NEW t \in Tokens, TTLElapses(n, t)
      PROVE  [Lifecycle!Next]_<<life, keep, owned>>
  <2>1. child' = [child EXCEPT ![n]["pod"] = Overdue(@, t)]
    BY <1>8 DEF TTLElapses
  <2>2. "pod" \in Kinds /\ UNCHANGED etcd
    BY <1>8 DEF Kinds, TTLElapses
  <2>3. \A m \in Tasks, j \in Kinds :
            m # n \/ j # "pod" => child'[m][j].owner = child[m][j].owner
    BY <1>1, <2>1 DEF TypeOK
  <2> QED
    BY <1>1, <2>2, <2>3, ChildStep
<1> QED
  BY <1>2, <1>3, <1>4, <1>5, <1>6, <1>7, <1>8 DEF Environment, Lifecycle!Next

LEMMA ApiCallRefines ==
    ASSUME IInv, IInv', NEW n \in Tasks, ApiCall(n)
    PROVE  [Lifecycle!Next]_<<life, keep, owned>>
<1>1. TypeOK /\ WellFormed(etcd[n], n) /\ OwnersOK'
  BY DEF IInv, VersionsOK
<1>2. ASSUME NEW k \in Kinds, CreateChild(n, k)
      PROVE  [Lifecycle!Next]_<<life, keep, owned>>
  <2>1. UNCHANGED etcd /\ (child' = child \/ Stored(n, k))
    BY <1>2 DEF CreateChild
  <2>2. \A m \in Tasks, j \in Kinds :
            m # n \/ j # k => child'[m][j].owner = child[m][j].owner
    BY <1>1, <2>1 DEF Stored, TypeOK
  <2> QED
    BY <1>1, <2>1, <2>2, ChildStep
<1>3. CASE UpdateStatus(n)
  BY <1>3, UpdateRefines
<1>4. CASE DeleteCall(n)
  <2>1. UNCHANGED child /\ (etcd' = etcd \/ (Present(etcd[n]) /\ RemoveTask(n)))
    BY <1>4 DEF DeleteCall
  <2> QED
    BY <1>1, <2>1, StutterStep, RemoveRefines DEF Lifecycle!Next
<1> QED
  BY <1>2, <1>3, <1>4 DEF ApiCall

LEMMA StepRefines ==
    IInv /\ IInv' /\ [Next]_vars => [Lifecycle!Next]_<<life, keep, owned>>
<1> SUFFICES ASSUME IInv, IInv', [Next]_vars
             PROVE  [Lifecycle!Next]_<<life, keep, owned>>
  OBVIOUS
<1>1. ASSUME NEW n \in Tasks, Reconcile(n) PROVE UNCHANGED <<life, keep, owned>>
  BY <1>1, ReconcileOutcome, StutterStep DEF IInv, apiVars
<1>2. ASSUME NEW n \in Tasks, Manager(n) PROVE UNCHANGED <<life, keep, owned>>
  BY <1>2, StutterStep
     DEF Manager, DeliverTask, DeliverChild, TimerFires, Resync, apiVars
<1>3. CASE RestartManager
  BY <1>3, StutterStep DEF RestartManager
<1>4. CASE UNCHANGED vars
  BY <1>4, StutterStep DEF vars
<1> QED
  BY <1>1, <1>2, <1>3, <1>4, ApiCallRefines, EnvironmentRefines DEF Next

\* However stale its cache, and whatever the API server refuses or loses, the
\* controller moves each task along the edges of TaskLifecycle only: never back,
\* out of TERMINATING only by removal, out of ERROR only where the spec says so;
\* and only accepted tasks acquire a pod, a service or an ingress.
THEOREM Refinement == Spec => ImplementsLifecycle
<1>1. Init => Lifecycle!Init
  BY InitRefines
<1>2. IInv /\ IInv' /\ [Next]_vars => [Lifecycle!Next]_Lifecycle!vars
  BY StepRefines DEF Lifecycle!vars, life, keep, owned, OwnedBy
<1> QED
  BY <1>1, <1>2, Inductive, PTL DEF Spec, ImplementsLifecycle, Lifecycle!Spec
=============================================================================
