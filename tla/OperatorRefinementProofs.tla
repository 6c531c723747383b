---------------------- MODULE OperatorRefinementProofs ----------------------
(***************************************************************************)
(* The controllers and the service, with caches out of step, conflicts,    *)
(* failed and late writes, implement TaskCount: every step is one of its   *)
(* steps, or changes nothing it speaks of.                                 *)
(***************************************************************************)
EXTENDS OperatorProofs

\* The abstract state, as Operator defines it for the instance.
there == {b \in Builds : builds[b].there}
number == [b \in Builds |-> Number(tasks, b)]
shown == [b \in Builds |-> builds[b].count]

LEMMA InitRefines == Init => Shown!Init
<1> SUFFICES ASSUME Init PROVE Shown!Init
  OBVIOUS
<1>1. \A b \in Builds : builds[b].there = FALSE /\ builds[b].count = 0
  BY DEF Init, StoreInit, NoBuilds, NoBuild
<1>2. \A b \in Builds : Number(tasks, b) = 0
  BY NoTasksNumber DEF Init, StoreInit
<1>3. past = [b \in Builds |-> {0}]
  BY DEF Init
<1> QED
  BY <1>1, <1>2, <1>3 DEF Shown!Init

\* A step writes a build or a task, not both.
LEMMA OneWrite ==
    ASSUME IInv, Next
    PROVE  UNCHANGED builds \/ UNCHANGED tasks
<1> USE DEF storeVars
<1>1. ASSUME NEW m \in Managers, ControllerStep(m)
      PROVE  UNCHANGED builds \/ UNCHANGED tasks
  BY <1>1 DEF ControllerStep, Reconcile, UpdateStatus, DeliverBuild, ReceiveBuild,
     DeliverTask, ReceiveInOrder, TimerFires, StartManager, Watch, Lead, StopManager, Unwatch
<1>2. ASSUME NEW w \in adrift, LandStatus(w)
      PROVE  UNCHANGED tasks
  BY <1>2 DEF LandStatus
<1>3. ASSUME NEW c \in Clients, Ask(c) \/ Close(c)
      PROVE  UNCHANGED builds
  BY <1>3, AskIsProper DEF Requested, Close, IInv
<1>4. ASSUME NEW c \in Clients, Call(c)
      PROVE  UNCHANGED builds \/ UNCHANGED tasks
  BY <1>4, CallTypes DEF IInv
<1>5. ASSUME NEW s \in Services,
             \/ \E b \in Builds : SeeBuild(s, b)
             \/ \E t \in Tasks : SeeTask(s, t)
             \/ StartService(s) \/ StopService(s)
      PROVE  UNCHANGED builds
  BY <1>5 DEF SeeBuild, ReceiveBuild, SeeTask, ReceiveTask, StartService, Watch,
     StopService, Unwatch
<1>6. CASE Kubectl
  BY <1>6, KubectlWrites DEF IInv
<1>7. CASE ControllerNext
  BY <1>1, <1>2, <1>7 DEF ControllerNext
<1>8. CASE ApiNext
  BY <1>3, <1>4, <1>5, <1>8 DEF ApiNext, Ask
<1> QED
  BY <1>6, <1>7, <1>8 DEF Next

LEMMA TasksRefine ==
    ASSUME IInv, PastGrows, UNCHANGED builds
    PROVE  Shown!ChangeTasks
<1>1. number' \in [Builds -> Nat]
  BY NumberType DEF number
<1>2. past' = [b \in Builds |-> past[b] \union {number'[b]}]
  BY DEF PastGrows, number
<1>3. UNCHANGED <<there, shown>>
  BY DEF there, shown
<1> QED
  BY <1>1, <1>2, <1>3 DEF Shown!ChangeTasks, there, number, shown

\* What else the steps of TaskCount leave alone.
LEMMA TasksStay ==
    ASSUME IInv, PastGrows, UNCHANGED tasks
    PROVE  UNCHANGED <<number, past>>
<1>1. UNCHANGED number
  BY DEF number
<1>2. \A b \in Builds : Number(tasks', b) \in past[b]
  BY DEF IInv, CountsOK
<1>3. UNCHANGED past
  BY <1>2 DEF PastGrows, IInv, TypeOK
<1> QED
  BY <1>1, <1>3

\* One build is replaced: what there and shown become.
LEMMA BuildReplaced ==
    ASSUME IInv, NEW b \in Builds, NEW new \in Build, StoreBuild(b, new)
    PROVE  /\ there' = IF new.there THEN there \union {b} ELSE there \ {b}
           /\ shown' = [shown EXCEPT ![b] = new.count]
<1>1. builds \in [Builds -> Build]
  BY DEF IInv, TypeOK, StoreTypeOK
<1>2. /\ \A c \in Builds \ {b} : builds'[c] = builds[c]
      /\ builds'[b].there = new.there
      /\ builds'[b].count = new.count
  BY <1>1, BuildStored
<1> QED
  BY <1>2 DEF there, shown

LEMMA BuildRefines ==
    ASSUME IInv, PastGrows, UNCHANGED tasks, BuildStep
    PROVE  Shown!Next \/ UNCHANGED Shown!vars
<1>1. UNCHANGED <<number, past>>
  BY TasksStay
<1>2. \A b \in Builds : builds[b] \in Build
  BY DEF IInv, TypeOK, StoreTypeOK
<1>3. ASSUME NEW b \in Builds, Creates(b)
      PROVE  Shown!Create(b)
  <2>1. PICK body \in BuildBody : StoreBuild(b, NewBuild(body))
    BY <1>3 DEF Creates
  <2>2. NewBuild(body) \in Build /\ NewBuild(body).there = TRUE /\ NewBuild(body).count = 0
    BY BuildTypes DEF NewBuild
  <2>3. there' = there \union {b} /\ shown' = [shown EXCEPT ![b] = 0]
    BY <2>1, <2>2, BuildReplaced
  <2> QED
    BY <1>1, <2>3 DEF Shown!Create, there, number, shown
<1>4. ASSUME NEW b \in Builds, Deletes(b)
      PROVE  Shown!Delete(b)
  <2>1. NoBuild \in Build /\ NoBuild.there = FALSE /\ NoBuild.count = 0
    BY BuildTypes DEF NoBuild
  <2>2. there' = there \ {b} /\ shown' = [shown EXCEPT ![b] = 0]
    BY <1>4, <2>1, BuildReplaced DEF Deletes
  <2> QED
    BY <1>1, <2>2 DEF Shown!Delete, there, number, shown
<1>5. ASSUME NEW b \in Builds, Respecs(b)
      PROVE  UNCHANGED Shown!vars
  <2>1. PICK s \in BuildSpecs : StoreBuild(b, [builds[b] EXCEPT !.spec = s])
    BY <1>5 DEF Respecs
  <2>2. /\ [builds[b] EXCEPT !.spec = s] \in Build
        /\ [builds[b] EXCEPT !.spec = s].there = TRUE
        /\ [builds[b] EXCEPT !.spec = s].count = builds[b].count
    <3>1. builds[b] \in Build
      BY <1>2
    <3> QED
      BY <1>5, <3>1, BuildTypes DEF Respecs, Build
  <2>3. there' = there /\ shown' = shown
    <3>1. there' = there \union {b} /\ shown' = [shown EXCEPT ![b] = builds[b].count]
      BY <2>1, <2>2, BuildReplaced
    <3>2. b \in there
      BY <1>5 DEF Respecs, there
    <3> QED
      BY <3>1, <3>2 DEF shown
  <2> QED
    BY <1>1, <2>3 DEF Shown!vars, there, number, shown
<1>6. ASSUME NEW w \in Write, StatusWrite(w), w.obj.count \in past[w.name]
      PROVE  Shown!Next \/ UNCHANGED Shown!vars
  <2>1. w.name \in Builds /\ w.obj.count \in Nat
    BY DEF Write, Build
  <2>2. CASE UNCHANGED builds
    BY <1>1, <2>2 DEF Shown!vars, number
  <2>3. CASE Recounts(w.name, w.obj.count)
    <3> DEFINE b == w.name
               new == [builds[b] EXCEPT !.count = w.obj.count]
    <3>1. builds[b] \in Build /\ builds[b].there
      BY <1>2, <2>1, <2>3 DEF Recounts
    <3>2. new \in Build /\ new.there = TRUE /\ new.count = w.obj.count
      BY <2>1, <3>1, BuildTypes DEF Build
    <3>3. StoreBuild(b, new)
      BY <2>3 DEF Recounts
    <3> HIDE DEF new
    <3>4. there' = there /\ shown' = [shown EXCEPT ![b] = w.obj.count]
      BY <2>1, <3>1, <3>2, <3>3, BuildReplaced DEF there
    <3>5. Shown!Recount(b)
      BY <1>1, <1>6, <2>1, <3>1, <3>4 DEF Shown!Recount, there, number, shown
    <3> QED
      BY <2>1, <3>5 DEF Shown!Next
  <2> QED
    BY <2>2, <2>3, <1>6 DEF StatusWrite
<1>7. CASE UNCHANGED builds
  BY <1>1, <1>7 DEF Shown!vars, number
<1> QED
  BY <1>3, <1>4, <1>5, <1>6, <1>7 DEF BuildStep, UserWrite, Shown!Next

\* Whatever failed, came late or was read from caches that are not in step, a
\* build shows a number of tasks that did name it at some time, and no user
\* writes one (environmentbuild_controller.go:39-106, service.go:193-212).
THEOREM Refinement == Spec => CountsWereTrue
<1>1. IInv /\ [Next]_vars => [Shown!Next]_Shown!vars
  <2>1. ASSUME IInv, Next
        PROVE  [Shown!Next]_Shown!vars
    <3>1. BuildStep
      BY <2>1, InvIsReady, NextStep DEF Step
    <3>2. PastGrows
      BY <2>1 DEF Next, PastGrows
    <3> QED
      BY <2>1, <3>1, <3>2, OneWrite, TasksRefine, BuildRefines DEF Shown!Next
  <2>2. ASSUME UNCHANGED vars
        PROVE  UNCHANGED Shown!vars
    BY <2>2 DEF vars, storeVars, Shown!vars
  <2> QED
    BY <2>1, <2>2
<1> QED
  BY <1>1, InitRefines, Inductive, PTL DEF Spec, CountsWereTrue, Shown!Spec
=============================================================================
