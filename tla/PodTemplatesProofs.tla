------------------------- MODULE PodTemplatesProofs -------------------------
(***************************************************************************)
(* Proofs about PodTemplates, for any builds and tasks, any number of      *)
(* containers and any edits and interruptions.                             *)
(***************************************************************************)
EXTENDS PodTemplates, SequenceTheorems, TLAPS

-----------------------------------------------------------------------------
(* Contents of containers and maps. *)

LEMMA OwnEnvIs ==
    ASSUME NEW build \in BuildObject, NEW t \in Tasks
    PROVE  /\ OwnEnv(build, t) \in Seq(EnvVar)
           /\ Len(OwnEnv(build, t)) \in {2, 3}
           /\ OwnEnv(build, t)[1] = [name |-> "OPSMATE_TOKEN", value |-> t]
           /\ OwnEnv(build, t)[2] = [name |-> "OPSMATE_SESSION_NAME", value |-> t]
           /\ Len(OwnEnv(build, t)) = 3 =>
                 OwnEnv(build, t)[3] = [name |-> "OPSMATE_DB_URL", value |-> build.databaseVolumePath]
<1> DEFINE a == [name |-> "OPSMATE_TOKEN", value |-> t]
           b == [name |-> "OPSMATE_SESSION_NAME", value |-> t]
           c == [name |-> "OPSMATE_DB_URL", value |-> build.databaseVolumePath]
<1>1. a \in EnvVar /\ b \in EnvVar /\ c \in EnvVar
  BY DEF EnvVar, Values, BuildObject
<1>2. CASE build.databaseVolumePath = Empty
  <2>1. OwnEnv(build, t) = <<a, b>> \o <<>>
    BY <1>2 DEF OwnEnv
  <2> HIDE DEF a, b, c
  <2>2. OwnEnv(build, t) = <<a, b>>
    BY <1>1, <2>1
  <2>3. /\ <<a, b>> \in Seq(EnvVar) /\ Len(<<a, b>>) = 2
        /\ <<a, b>>[1] = a /\ <<a, b>>[2] = b
    BY <1>1
  <2> QED
    BY <2>2, <2>3 DEF a, b
<1>3. CASE build.databaseVolumePath # Empty
  <2>1. OwnEnv(build, t) = <<a, b>> \o <<c>>
    BY <1>3 DEF OwnEnv
  <2> HIDE DEF a, b, c
  <2>2. /\ <<a, b>> \in Seq(EnvVar) /\ Len(<<a, b>>) = 2
        /\ <<a, b>>[1] = a /\ <<a, b>>[2] = b
        /\ <<c>> \in Seq(EnvVar) /\ Len(<<c>>) = 1 /\ <<c>>[1] = c
    BY <1>1
  <2>3. /\ OwnEnv(build, t) \in Seq(EnvVar) /\ Len(OwnEnv(build, t)) = 3
        /\ OwnEnv(build, t)[1] = a /\ OwnEnv(build, t)[2] = b /\ OwnEnv(build, t)[3] = c
    BY <2>1, <2>2, ConcatProperties
  <2> QED
    BY <2>3 DEF a, b, c
<1> QED
  BY <1>2, <1>3

LEMMA OwnMountsType ==
    ASSUME NEW build \in BuildObject
    PROVE  OwnMounts(build) \in Seq(VolumeMount)
<1> DEFINE v == [name |-> "database", mountPath |-> build.databaseVolumePath]
<1>1. v \in VolumeMount
  BY DEF VolumeMount, BuildObject
<1> HIDE DEF v
<1>2. <<v>> \in Seq(VolumeMount) /\ <<>> \in Seq(VolumeMount)
  BY <1>1
<1> QED
  BY <1>2 DEF OwnMounts, v

LEMMA MapType ==
    ASSUME NEW K \in SUBSET Keys, NEW f \in [K -> Values]
    PROVE  f \in Maps
BY DEF Maps

\* A sequence made element by element of another one.
LEMMA SeqMade ==
    ASSUME NEW S, NEW T, NEW s \in Seq(S), NEW f, f \in [DOMAIN s -> T]
    PROVE  f \in Seq(T)
<1>1. DOMAIN s = 1..Len(s) /\ Len(s) \in Nat
  BY LenProperties
<1> QED
  BY <1>1, SeqDef

LEMMA FilledTemplateIs ==
    ASSUME NEW build \in BuildObject, NEW t \in Tasks
    PROVE  LET old == build.podTemplate.val.spec.containers
               new == FilledTemplate(build, t).spec.containers
           IN  /\ FilledTemplate(build, t) \in PodTemplateSpec
               /\ FilledTemplate(build, t).spec.volumes = build.podTemplate.val.spec.volumes
               /\ DOMAIN new = DOMAIN old
               /\ \A i \in DOMAIN old :
                     /\ old[i] \in Container
                     /\ new[i].env = old[i].env \o OwnEnv(build, t)
                     /\ new[i].mounts = old[i].mounts \o OwnMounts(build)
<1> DEFINE old == build.podTemplate.val.spec.containers
           filled(c) == [env |-> c.env \o OwnEnv(build, t), mounts |-> c.mounts \o OwnMounts(build)]
           new == [i \in DOMAIN old |-> filled(old[i])]
           template == build.podTemplate.val
<1>1. template \in PodTemplateSpec /\ template.spec \in PodSpec /\ old \in Seq(Container)
  BY DEF BuildObject, Part, PodTemplateSpec, PodSpec
<1>2. \A i \in DOMAIN old : old[i] \in Container
  BY <1>1, ElementOfSeq, LenProperties
<1>3. ASSUME NEW c \in Container
      PROVE  filled(c) \in Container
  <2>1. c.env \in Seq(EnvVar) /\ c.mounts \in Seq(VolumeMount)
    BY DEF Container
  <2>2. c.env \o OwnEnv(build, t) \in Seq(EnvVar)
    BY <2>1, OwnEnvIs, ConcatProperties
  <2>3. c.mounts \o OwnMounts(build) \in Seq(VolumeMount)
    BY <2>1, OwnMountsType, ConcatProperties
  <2> QED
    BY <2>2, <2>3 DEF Container
<1> HIDE DEF filled
<1>4. new \in [DOMAIN old -> Container]
  BY <1>2, <1>3
<1>5. new \in Seq(Container)
  BY <1>1, <1>4, SeqMade
<1>6. FilledTemplate(build, t) = [template EXCEPT !.spec.containers = new]
  BY DEF FilledTemplate, filled
<1>7. DOMAIN new = DOMAIN old /\ \A i \in DOMAIN old : new[i] = filled(old[i])
  OBVIOUS
<1> HIDE DEF new, old, template
<1>8. /\ FilledTemplate(build, t) \in PodTemplateSpec
      /\ FilledTemplate(build, t).spec.containers = new
      /\ FilledTemplate(build, t).spec.volumes = template.spec.volumes
  BY <1>1, <1>5, <1>6 DEF PodTemplateSpec, PodSpec
<1>9. \A i \in DOMAIN old : /\ new[i].env = old[i].env \o OwnEnv(build, t)
                            /\ new[i].mounts = old[i].mounts \o OwnMounts(build)
  BY <1>7 DEF filled
<1> QED
  BY <1>2, <1>7, <1>8, <1>9 DEF old, template

LEMMA LastCounts ==
    ASSUME NEW env \in Seq(EnvVar), NEW name, NEW k \in 1..Len(env),
           env[k].name = name,
           \A j \in 1..Len(env) : j > k => env[j].name # name
    PROVE  Effective(env, name) = {env[k].value}
<1> DEFINE set == {i \in DOMAIN env : env[i].name = name}
           last == {j \in set : \A i \in set : i <= j}
<1>1. DOMAIN env = 1..Len(env) /\ Len(env) \in Nat
  BY LenProperties
<1>2. k \in set /\ \A i \in set : i <= k
  BY <1>1
<1>3. set \subseteq Nat
  BY <1>1
<1> HIDE DEF set
<1>4. last = {k}
  <2>1. k \in last
    BY <1>2
  <2>2. \A j \in last : j <= k /\ k <= j
    BY <1>2
  <2>3. \A j \in last : j \in Nat /\ k \in Nat
    BY <1>2, <1>3
  <2>4. \A j \in last : j = k
    BY <2>2, <2>3
  <2> HIDE DEF last
  <2> QED
    BY <2>1, <2>4
<1>5. Effective(env, name) = {env[i].value : i \in last}
  BY DEF Effective, set
<1> QED
  BY <1>4, <1>5

LEMMA OwnValuesCount ==
    ASSUME NEW build \in BuildObject, NEW t \in Tasks, NEW e \in Seq(EnvVar),
           \A i \in DOMAIN e : e[i].value \in Texts
    PROVE  LET env == e \o OwnEnv(build, t)
           IN  /\ Effective(env, "OPSMATE_TOKEN") = {t}
               /\ Effective(env, "OPSMATE_SESSION_NAME") = {t}
               /\ \A j \in DOMAIN env : env[j].value \notin Tasks \ {t}
<1> DEFINE own == OwnEnv(build, t)
           env == e \o own
           n == Len(e)
<1>1. /\ own \in Seq(EnvVar)
      /\ Len(own) \in {2, 3}
      /\ own[1] = [name |-> "OPSMATE_TOKEN", value |-> t]
      /\ own[2] = [name |-> "OPSMATE_SESSION_NAME", value |-> t]
      /\ Len(own) = 3 => own[3] = [name |-> "OPSMATE_DB_URL", value |-> build.databaseVolumePath]
  BY OwnEnvIs
<1> HIDE DEF own
<1>0. own \in Seq(EnvVar) /\ (Len(own) = 2 \/ Len(own) = 3)
  BY <1>1
<1>2. /\ env \in Seq(EnvVar)
      /\ Len(env) = n + Len(own)
      /\ \A i \in 1..(n + Len(own)) : env[i] = IF i <= n THEN e[i] ELSE own[i - n]
  BY <1>0, ConcatProperties
<1>3. n \in Nat /\ DOMAIN e = 1..n /\ DOMAIN env = 1..Len(env)
  BY <1>2, LenProperties
<1> HIDE DEF env, n
<1>4. /\ n + 1 \in 1..Len(env) /\ env[n + 1] = own[1]
      /\ n + 2 \in 1..Len(env) /\ env[n + 2] = own[2]
      /\ Len(own) = 3 => env[n + 3] = own[3]
      /\ \A i \in 1..n : env[i] = e[i]
      /\ \A i \in 1..Len(env) :
            i \in 1..n \/ i = n + 1 \/ i = n + 2 \/ (i = n + 3 /\ Len(own) = 3)
  <2>0. Len(own) \in Nat
    BY <1>0, LenProperties
  <2>1. Len(own) \in Nat /\ 2 <= Len(own) /\ Len(own) <= 3
    <3>1. CASE Len(own) = 2
      BY <3>1
    <3>2. CASE Len(own) = 3
      BY <3>2
    <3> QED
      BY <1>0, <3>1, <3>2
  <2>2. \A i \in 1..3 : i <= Len(own) =>
            /\ n + i \in 1..Len(env) /\ ~(n + i <= n) /\ (n + i) - n = i
    BY <1>2, <1>3, <2>1
  <2>3. \A i \in 1..3 : i <= Len(own) => env[n + i] = own[i]
    BY <1>2, <1>3, <2>1, <2>2
  <2>4. \A i \in 1..n : env[i] = e[i]
    BY <1>2, <1>3, <2>1
  <2>5. \A i \in 1..Len(env) :
            i \in 1..n \/ i = n + 1 \/ i = n + 2 \/ (i = n + 3 /\ Len(own) = 3)
    <3>1. CASE Len(own) = 2
      <4>1. Len(env) = n + 2
        BY <1>2, <3>1
      <4> QED
        BY <1>3, <4>1
    <3>2. CASE Len(own) = 3
      <4>1. Len(env) = n + 3
        BY <1>2, <3>2
      <4> QED
        BY <1>3, <3>2, <4>1
    <3> QED
      BY <1>0, <3>1, <3>2
  <2> QED
    BY <2>1, <2>2, <2>3, <2>4, <2>5
<1>5. Effective(env, "OPSMATE_TOKEN") = {t}
  <2>1. \A j \in 1..Len(env) : j > n + 1 => env[j].name # "OPSMATE_TOKEN"
    BY <1>1, <1>3, <1>4
  <2>2. env[n + 1].name = "OPSMATE_TOKEN" /\ env[n + 1].value = t
    BY <1>1, <1>4
  <2>3. PICK k \in 1..Len(env) : k = n + 1
    BY <1>4
  <2>4. /\ env \in Seq(EnvVar) /\ env[k].name = "OPSMATE_TOKEN" /\ env[k].value = t
        /\ \A j \in 1..Len(env) : j > k => env[j].name # "OPSMATE_TOKEN"
    BY <1>2, <2>1, <2>2, <2>3
  <2>5. Effective(env, "OPSMATE_TOKEN") = {env[k].value}
    BY <2>4, LastCounts
  <2> QED
    BY <2>4, <2>5
<1>6. Effective(env, "OPSMATE_SESSION_NAME") = {t}
  <2>1. \A j \in 1..Len(env) : j > n + 2 => env[j].name # "OPSMATE_SESSION_NAME"
    BY <1>1, <1>3, <1>4
  <2>2. env[n + 2].name = "OPSMATE_SESSION_NAME" /\ env[n + 2].value = t
    BY <1>1, <1>4
  <2>3. PICK k \in 1..Len(env) : k = n + 2
    BY <1>4
  <2>4. /\ env \in Seq(EnvVar) /\ env[k].name = "OPSMATE_SESSION_NAME" /\ env[k].value = t
        /\ \A j \in 1..Len(env) : j > k => env[j].name # "OPSMATE_SESSION_NAME"
    BY <1>2, <2>1, <2>2, <2>3
  <2>5. Effective(env, "OPSMATE_SESSION_NAME") = {env[k].value}
    BY <2>4, LastCounts
  <2> QED
    BY <2>4, <2>5
<1>7. \A j \in DOMAIN env : env[j].value \notin Tasks \ {t}
  <2>1. build.databaseVolumePath \in Texts
    BY DEF BuildObject
  <2>2. \A j \in DOMAIN env : env[j].value = t \/ env[j].value \in Texts
    BY <1>1, <1>3, <1>4, <2>1
  <2> QED
    BY <2>2, TextsAssumption
<1> QED
  BY <1>5, <1>6, <1>7 DEF env, own

LEMMA TaskLabelIs ==
    ASSUME NEW selector \in Maps, NEW t \in Tasks
    PROVE  /\ WithTaskLabel(selector, t) \in Maps
           /\ Labelled(WithTaskLabel(selector, t), t)
<1>1. PICK K \in SUBSET Keys : selector \in [K -> Values]
  BY DEF Maps
<1> DEFINE L == K \union {"opsmate.io/task"}
<1>2. L \in SUBSET Keys
  BY DEF Keys
<1>3. WithTaskLabel(selector, t) \in [L -> Values]
  BY <1>1 DEF WithTaskLabel, Values
<1>4. Labelled(WithTaskLabel(selector, t), t)
  BY DEF WithTaskLabel, Labelled
<1> QED
  BY <1>2, <1>3, <1>4, MapType

LEMMA PodLabelsAre ==
    ASSUME NEW t \in Tasks, run.job \in TaskObject
    PROVE  /\ PodLabels(t) \in Maps
           /\ Labelled(PodLabels(t), t)
<1> DEFINE L == {"userID", "envBuildName", "opsmate.io/task"}
<1>1. L \in SUBSET Keys
  BY DEF Keys
<1>2. run.job.spec.userID \in Values
  BY DEF TaskObject, TaskSpecObject, Values
<1>3. PodLabels(t) \in [L -> Values]
  BY <1>2 DEF PodLabels, Values
<1>4. Labelled(PodLabels(t), t)
  BY DEF PodLabels, Labelled
<1> QED
  BY <1>1, <1>3, <1>4, MapType

-----------------------------------------------------------------------------
(* Objects in memory. *)

LEMMA DecodedBuildIs ==
    ASSUME NEW spec \in EnvironmentBuildSpec
    PROVE  /\ DecodedBuild(spec) \in BuildObject
           /\ DecodedBuild(spec).podAnnotations.val = spec.podAnnotations
           /\ DecodedBuild(spec).podTemplate.val = spec.podTemplate
           /\ DecodedBuild(spec).service.val = spec.service
           /\ DecodedBuild(spec).ingressTLS = spec.ingressTLS
           /\ DecodedBuild(spec).ingressTargetPort = spec.ingressTargetPort
           /\ DecodedBuild(spec).databaseVolumePath = spec.databaseVolumePath
<1> DEFINE a == Held("informer", spec.podAnnotations)
           p == Held("informer", spec.podTemplate)
           s == Held("informer", spec.service)
<1>1. a \in Part(Texts) /\ p \in Part(PodTemplateSpec) /\ s \in Part(ServiceSpec)
  BY DEF Held, Part, Owners, EnvironmentBuildSpec
<1>2. a.val = spec.podAnnotations /\ p.val = spec.podTemplate /\ s.val = spec.service
  BY DEF Held
<1>3. DecodedBuild(spec)
        = [spec EXCEPT !.podAnnotations = a, !.podTemplate = p, !.service = s]
  BY DEF DecodedBuild
<1> HIDE DEF a, p, s
<1> QED
  BY <1>1, <1>2, <1>3 DEF EnvironmentBuildSpec, BuildObject

LEMMA DecodedTaskIs ==
    ASSUME NEW task \in Task
    PROVE  /\ DecodedTask(task) \in TaskObject
           /\ DecodedTask(task).spec = [task.spec EXCEPT !.ingressAnnotations = Held("informer", @)]
           /\ DecodedTask(task).scheduled.val = task.scheduled
<1> DEFINE a == Held("informer", task.spec.ingressAnnotations)
           s == Held("informer", task.scheduled)
           spec == [task.spec EXCEPT !.ingressAnnotations = a]
<1>1. task.spec \in TaskSpec
  BY DEF Task
<1>2. /\ a \in Part(Texts) /\ s \in Part({"PodNotScheduled", "PodScheduled"})
      /\ s.val = task.scheduled
  BY <1>1 DEF Held, Part, Owners, Task, TaskSpec
<1>3. DecodedTask(task) = [task EXCEPT !.spec = spec, !.scheduled = s]
  BY DEF DecodedTask, Task
<1>4. spec \in TaskSpecObject
  <2> HIDE DEF a
  <2> QED
    BY <1>1, <1>2 DEF TaskSpec, TaskSpecObject
<1> HIDE DEF s, spec
<1>5. /\ DecodedTask(task) \in TaskObject
      /\ DecodedTask(task).spec = spec /\ DecodedTask(task).scheduled = s
  BY <1>2, <1>3, <1>4 DEF Task, TaskObject
<1> QED
  BY <1>2, <1>5 DEF spec

LEMMA EncodedTaskIs ==
    ASSUME NEW task \in TaskObject
    PROVE  /\ EncodedTask(task) \in Task
           /\ EncodedTask(task).spec = [task.spec EXCEPT !.ingressAnnotations = @.val]
           /\ EncodedTask(task).spec.domainName = task.spec.domainName
           /\ EncodedTask(task).scheduled = task.scheduled.val
<1> DEFINE a == task.spec.ingressAnnotations.val
           s == task.scheduled.val
           spec == [task.spec EXCEPT !.ingressAnnotations = a]
<1>1. task.spec \in TaskSpecObject
  BY DEF TaskObject
<1>2. a \in Texts /\ s \in {"PodNotScheduled", "PodScheduled"}
  BY <1>1 DEF Part, TaskObject, TaskSpecObject
<1>3. EncodedTask(task) = [task EXCEPT !.spec = spec, !.scheduled = s]
  BY DEF EncodedTask, TaskObject
<1>4. spec \in TaskSpec /\ spec.domainName = task.spec.domainName
  <2> HIDE DEF a
  <2> QED
    BY <1>1, <1>2 DEF TaskSpec, TaskSpecObject
<1> HIDE DEF s, spec
<1>5. EncodedTask(task) \in Task /\ EncodedTask(task).spec = spec /\ EncodedTask(task).scheduled = s
  BY <1>2, <1>3, <1>4 DEF Task, TaskObject
<1> QED
  BY <1>4, <1>5 DEF spec, s

LEMMA SameSpec ==
    ASSUME NEW a \in TaskObject, NEW b \in TaskObject, a.spec = b.spec
    PROVE  EncodedTask(a).spec = EncodedTask(b).spec
<1>1. /\ EncodedTask(a).spec = [a.spec EXCEPT !.ingressAnnotations = @.val]
      /\ EncodedTask(b).spec = [b.spec EXCEPT !.ingressAnnotations = @.val]
  BY EncodedTaskIs
<1> QED
  BY <1>1

\* What is decoded is encoded again as it was.
LEMMA RoundTrip ==
    ASSUME NEW task \in Task, NEW object \in TaskObject, object.spec = DecodedTask(task).spec
    PROVE  EncodedTask(object).spec = task.spec
<1>1. /\ object.spec = [task.spec EXCEPT !.ingressAnnotations = Held("informer", @)]
      /\ EncodedTask(object).spec = [object.spec EXCEPT !.ingressAnnotations = @.val]
  BY DecodedTaskIs, EncodedTaskIs
<1> DEFINE h == Held("informer", task.spec.ingressAnnotations)
<1>2. task.spec \in TaskSpec /\ h.val = task.spec.ingressAnnotations
  BY DEF Task, Held
<1>3. object.spec = [task.spec EXCEPT !.ingressAnnotations = h]
  BY <1>1
<1> HIDE DEF h
<1>4. object.spec.ingressAnnotations = h
  BY <1>2, <1>3 DEF TaskSpec
<1>5. [object.spec EXCEPT !.ingressAnnotations = task.spec.ingressAnnotations] = task.spec
  BY <1>2, <1>3 DEF TaskSpec
<1> QED
  BY <1>1, <1>2, <1>4, <1>5

\* A deep copy shows what the original does, and all its parts are the handler's.
LEMMA BuildCopyIs ==
    ASSUME NEW in \in BuildObject
    PROVE  /\ EnvironmentBuildDeepCopy(in) \in BuildObject
           /\ \A part \in {"podAnnotations", "podTemplate", "service"} :
                 /\ EnvironmentBuildDeepCopy(in)[part].owner = "handler"
                 /\ EnvironmentBuildDeepCopy(in)[part].val = in[part].val
           /\ EnvironmentBuildDeepCopy(in).ingressTLS = in.ingressTLS
           /\ EnvironmentBuildDeepCopy(in).ingressTargetPort = in.ingressTargetPort
           /\ EnvironmentBuildDeepCopy(in).databaseVolumePath = in.databaseVolumePath
<1> DEFINE a == Copied(in.podAnnotations)
           p == Copied(in.podTemplate)
           s == Copied(in.service)
<1>1. /\ a \in Part(Texts) /\ a.owner = "handler" /\ a.val = in.podAnnotations.val
      /\ p \in Part(PodTemplateSpec) /\ p.owner = "handler" /\ p.val = in.podTemplate.val
      /\ s \in Part(ServiceSpec) /\ s.owner = "handler" /\ s.val = in.service.val
  BY DEF Copied, Held, Part, Owners, BuildObject
<1>2. EnvironmentBuildDeepCopy(in)
        = [in EXCEPT !.podAnnotations = a, !.podTemplate = p, !.service = s]
  BY DEF EnvironmentBuildDeepCopy, BuildSpecDeepCopyInto
<1> HIDE DEF a, p, s
<1> QED
  BY <1>1, <1>2 DEF BuildObject

LEMMA TaskCopyIs ==
    ASSUME NEW in \in TaskObject
    PROVE  /\ TaskDeepCopy(in) \in TaskObject
           /\ TaskDeepCopy(in).state = in.state
           /\ TaskDeepCopy(in).spec.ingressAnnotations.owner = "handler"
           /\ TaskDeepCopy(in).scheduled.owner = "handler"
           /\ TaskDeepCopy(in).scheduled.val = in.scheduled.val
           /\ EncodedTask(TaskDeepCopy(in)).spec = EncodedTask(in).spec
<1> DEFINE a == Copied(in.spec.ingressAnnotations)
           s == Copied(in.scheduled)
           spec == [in.spec EXCEPT !.ingressAnnotations = a]
           copy == TaskDeepCopy(in)
<1>1. in.spec \in TaskSpecObject
  BY DEF TaskObject
<1>2. /\ a \in Part(Texts) /\ a.owner = "handler" /\ a.val = in.spec.ingressAnnotations.val
      /\ s \in Part({"PodNotScheduled", "PodScheduled"}) /\ s.owner = "handler"
      /\ s.val = in.scheduled.val
  BY <1>1 DEF Copied, Held, Part, Owners, TaskObject, TaskSpecObject
<1>3. copy = [in EXCEPT !.spec = spec, !.scheduled = s]
  BY DEF TaskDeepCopy, TaskStatusDeepCopyInto, TaskSpecDeepCopyInto, TaskObject
<1>4. /\ spec \in TaskSpecObject /\ spec.ingressAnnotations = a
      /\ [spec EXCEPT !.ingressAnnotations = @.val]
            = [in.spec EXCEPT !.ingressAnnotations = @.val]
  <2> HIDE DEF a
  <2> QED
    BY <1>1, <1>2 DEF TaskSpecObject
<1> HIDE DEF a, s, spec, copy
<1>5. /\ copy \in TaskObject /\ copy.spec = spec /\ copy.scheduled = s /\ copy.state = in.state
  <2>1. spec \in TaskSpecObject /\ s \in Part({"PodNotScheduled", "PodScheduled"})
    BY <1>2, <1>4
  <2>2. in \in TaskObject
    OBVIOUS
  <2> QED
    BY ONLY <1>3, <2>1, <2>2 DEF TaskObject
<1>6. EncodedTask(copy).spec = EncodedTask(in).spec
  <2>1. EncodedTask(copy).spec = [copy.spec EXCEPT !.ingressAnnotations = @.val]
    BY ONLY <1>5, EncodedTaskIs
  <2>2. EncodedTask(in).spec = [in.spec EXCEPT !.ingressAnnotations = @.val]
    BY ONLY in \in TaskObject, EncodedTaskIs
  <2> QED
    BY ONLY <1>4, <1>5, <2>1, <2>2
<1>7. copy.spec.ingressAnnotations = a
  BY <1>4, <1>5
<1>8. copy.spec.ingressAnnotations.owner = "handler"
  BY <1>2, <1>7
<1>9. copy.scheduled.owner = "handler" /\ copy.scheduled.val = in.scheduled.val
  BY <1>2, <1>5
<1>10. copy = TaskDeepCopy(in)
  BY DEF copy
<1> QED
  BY ONLY <1>5, <1>6, <1>8, <1>9, <1>10

-----------------------------------------------------------------------------
(* Types. *)

LEMMA RunKnown ==
    ASSUME TypeOK, run # None
    PROVE  /\ run \in Run /\ run.task \in Tasks /\ run.build \in BuildObject
           /\ run.job \in TaskObject
BY DEF TypeOK, Run

\* A handler writes to its own parts only.
LEMMA WriteIsOwn ==
    ASSUME Owns, NEW part \in {"podAnnotations", "podTemplate", "service"}, NEW new, NEW step,
           run \in Run, Write(part, new, step)
    PROVE  /\ run' = [run EXCEPT !.build = [run.build EXCEPT ![part] = Held("handler", new)],
                                 !.step = step]
           /\ cache' = cache
<1>1. run.build[part].owner = "handler" /\ run.build \in BuildObject
  BY DEF Owns, Run
<1>2. cache' = cache
  BY <1>1 DEF Write
<1>3. [run.build[part] EXCEPT !.val = new] = Held("handler", new)
  <2>1. \E S : run.build[part] \in Part(S)
    BY <1>1 DEF BuildObject
  <2> QED
    BY <1>1, <2>1 DEF Part, Held
<1>4. run' = [run EXCEPT !.build[part].val = new, !.step = step]
  BY DEF Write
<1>5. run' = [run EXCEPT
                !.build = [run.build EXCEPT ![part] = [run.build[part] EXCEPT !.val = new]],
                !.step = step]
  BY <1>4 DEF Run
<1> QED
  BY <1>2, <1>3, <1>5

\* The handler goes on to step with another build of the right type.
LEMMA RunType ==
    ASSUME run \in Run, NEW build \in BuildObject, NEW step \in Steps
    PROVE  /\ [run EXCEPT !.build = build, !.step = step] \in Run
           /\ [run EXCEPT !.step = step] \in Run
<1>1. /\ [run EXCEPT !.build = build, !.step = step] \in Run
      /\ [run EXCEPT !.step = step] \in Run
  BY DEF Run
<1> QED
  BY <1>1

\* What the steps do to the handler's task.
Done(job) == [job EXCEPT !.state = "SCHEDULED"]
Announced(job) == [job EXCEPT !.scheduled.val = "PodScheduled"]

LEMMA JobType ==
    ASSUME NEW job \in TaskObject, NEW new \in {Done(job), Announced(job)}
    PROVE  /\ new \in TaskObject /\ new.spec = job.spec
           /\ new.scheduled.owner = job.scheduled.owner
           /\ job.scheduled.val = "PodScheduled" => new.scheduled.val = "PodScheduled"
<1>1. CASE new = Done(job)
  BY <1>1 DEF Done, TaskObject
<1>2. CASE new = Announced(job)
  <2> DEFINE s == [job.scheduled EXCEPT !.val = "PodScheduled"]
  <2>1. /\ s \in Part({"PodNotScheduled", "PodScheduled"})
        /\ s.owner = job.scheduled.owner /\ s.val = "PodScheduled"
    BY DEF Part, TaskObject
  <2>2. new = [job EXCEPT !.scheduled = s]
    BY <1>2 DEF Announced, TaskObject
  <2> HIDE DEF s
  <2> QED
    BY <2>1, <2>2 DEF TaskObject
<1> QED
  BY <1>1, <1>2

\* The three children, as the handler fills them in.
FilledPod ==
    LET template == FilledTemplate(run.build, run.task)
    IN  [labels |-> PodLabels(run.task), annotations |-> run.build.podAnnotations.val,
         spec |-> [template.spec EXCEPT !.volumes = Append(@, "database")]]

FilledService ==
    [run.build.service.val EXCEPT
        !.selector = WithTaskLabel(run.build.service.val.selector, run.task)]

FilledIngress ==
    [host |-> run.job.spec.domainName, annotations |-> run.job.spec.ingressAnnotations.val,
     service |-> run.task, port |-> run.build.ingressTargetPort, tls |-> run.build.ingressTLS,
     secretName |-> IF run.build.ingressTLS THEN run.job.spec.ingressSecretName ELSE Empty]

LEMMA FilledPodIs ==
    ASSUME run \in Run
    PROVE  /\ FilledPod \in Pod
           /\ FilledPod.labels = PodLabels(run.task)
           /\ FilledPod.annotations = run.build.podAnnotations.val
           /\ FilledPod.spec.containers = FilledTemplate(run.build, run.task).spec.containers
           /\ FilledPod.spec.volumes = Append(run.build.podTemplate.val.spec.volumes, "database")
<1> DEFINE t == run.task
           template == FilledTemplate(run.build, t)
           S == {"database"} \union Texts
<1>1. t \in Tasks /\ run.build \in BuildObject /\ run.job \in TaskObject
  BY DEF Run
<1>2. /\ template \in PodTemplateSpec
      /\ template.spec.volumes = run.build.podTemplate.val.spec.volumes
  BY <1>1, FilledTemplateIs
<1>3. PodLabels(t) \in Maps
  BY <1>1, PodLabelsAre
<1>4. template.spec \in PodSpec /\ template.spec.volumes \in Seq(S)
  BY <1>2 DEF PodTemplateSpec, PodSpec
<1>5. Append(template.spec.volumes, "database") \in Seq(S)
  BY <1>4, AppendProperties
<1> DEFINE v == Append(template.spec.volumes, "database")
<1>6. FilledPod = [labels |-> PodLabels(t), annotations |-> run.build.podAnnotations.val,
                   spec |-> [template.spec EXCEPT !.volumes = v]]
  BY DEF FilledPod
<1> HIDE DEF template, v, t
<1>7. /\ [template.spec EXCEPT !.volumes = v] \in PodSpec
      /\ [template.spec EXCEPT !.volumes = v].volumes = v
      /\ [template.spec EXCEPT !.volumes = v].containers = template.spec.containers
  BY <1>4, <1>5 DEF PodSpec, v
<1>8. run.build.podAnnotations.val \in Texts
  BY <1>1 DEF BuildObject, Part
<1> QED
  BY <1>2, <1>3, <1>6, <1>7, <1>8 DEF Pod, v, t, template

LEMMA FilledServiceIs ==
    ASSUME run \in Run
    PROVE  /\ FilledService \in ServiceSpec
           /\ Labelled(FilledService.selector, run.task)
           /\ FilledService.ports = run.build.service.val.ports
<1>1. run.task \in Tasks /\ run.build \in BuildObject
  BY DEF Run
<1>2. run.build.service.val \in ServiceSpec
  BY <1>1 DEF BuildObject, Part
<1>3. run.build.service.val.selector \in Maps
  BY <1>2 DEF ServiceSpec
<1> DEFINE l == WithTaskLabel(run.build.service.val.selector, run.task)
<1>4. l \in Maps /\ Labelled(l, run.task)
  BY <1>1, <1>3, TaskLabelIs
<1> HIDE DEF l
<1>5. FilledService = [run.build.service.val EXCEPT !.selector = l]
  BY DEF FilledService, l
<1> QED
  BY <1>2, <1>4, <1>5 DEF ServiceSpec

LEMMA FilledIngressType ==
    ASSUME run \in Run
    PROVE  FilledIngress \in Ingress
<1>1. run.task \in Tasks /\ run.build \in BuildObject /\ run.job \in TaskObject
  BY DEF Run
<1>2. run.job.spec \in TaskSpecObject /\ run.job.spec.ingressAnnotations.val \in Texts
  BY <1>1 DEF TaskObject, TaskSpecObject, Part
<1> QED
  BY <1>1, <1>2, TemplatesAssumption DEF FilledIngress, Ingress, BuildObject, TaskSpecObject

-----------------------------------------------------------------------------
(* The steps of the handler, with copies of its own. *)

\* The child of the handler's task becomes new, unless there is one already.
Makes(child, new) == [child EXCEPT ![run.task] = Created(@, new)]

LEMMA MakesIs ==
    ASSUME run.task \in Tasks, NEW S, NEW new \in S, NEW child \in [Tasks -> S \union {None}],
           None \notin S
    PROVE  /\ Makes(child, new) \in [Tasks -> S \union {None}]
           /\ Makes(child, new)[run.task] # None
           /\ child[run.task] = None => Makes(child, new)[run.task] = new
           /\ \A t \in Tasks : t # run.task \/ child[t] # None => Makes(child, new)[t] = child[t]
BY DEF Makes, Created

\* The informer takes nothing away that the handler has.
LEMMA LeftIsKept ==
    ASSUME TypeOK, HandlerOK, run # None
    PROVE  /\ [run EXCEPT !.build = LeftBuild(@)] = run
           /\ [run EXCEPT !.job = LeftTask(@)] = run
<1>1. run \in Run /\ run.build \in BuildObject /\ run.job \in TaskObject /\ Owns
  BY RunKnown DEF HandlerOK
<1>2. ASSUME NEW S, NEW part \in Part(S), part.owner = "handler"
      PROVE  Copied(part) = part
  BY <1>2 DEF Copied, Held, Part
<1>3. LeftBuild(run.build) = run.build
  <2>1. /\ Copied(run.build.podAnnotations) = run.build.podAnnotations
        /\ Copied(run.build.podTemplate) = run.build.podTemplate
        /\ Copied(run.build.service) = run.build.service
    BY <1>1, <1>2 DEF Owns, BuildObject
  <2> QED
    BY <1>1, <2>1 DEF LeftBuild, BuildObject
<1>4. LeftTask(run.job) = run.job
  <2>1. run.job.spec \in TaskSpecObject
    BY <1>1 DEF TaskObject
  <2>2. /\ Copied(run.job.spec.ingressAnnotations) = run.job.spec.ingressAnnotations
        /\ Copied(run.job.scheduled) = run.job.scheduled
    BY <1>1, <1>2, <2>1 DEF Owns, TaskObject, TaskSpecObject
  <2>3. [run.job.spec EXCEPT !.ingressAnnotations = Copied(@)] = run.job.spec
    BY <2>1, <2>2 DEF TaskSpecObject
  <2>4. LeftTask(run.job)
            = [run.job EXCEPT !.spec = [run.job.spec EXCEPT !.ingressAnnotations = Copied(@)],
                              !.scheduled = Copied(run.job.scheduled)]
    BY <1>1 DEF LeftTask, TaskObject
  <2> QED
    BY <1>1, <2>2, <2>3, <2>4 DEF TaskObject
<1> QED
  BY <1>1, <1>3, <1>4 DEF Run

LEMMA SeeEffect ==
    ASSUME TypeOK, HandlerOK, SeeBuild \/ \E t \in Tasks : SeeTask(t)
    PROVE  UNCHANGED <<stored, tasks, run, pods, services, ingresses, interrupted>>
BY LeftIsKept DEF SeeBuild, SeeTask

LEMMA CreatePodEffect ==
    ASSUME TypeOK, HandlerOK, CreatePod
    PROVE  /\ run \in Run /\ run.step = "createPod"
           /\ pods' = Makes(pods, FilledPod)
           /\ UNCHANGED <<stored, tasks, cache, services, ingresses, interrupted>>
           /\ \E p \in Part(PodTemplateSpec) :
                 /\ p.owner = "handler"
                 /\ run' = [run EXCEPT !.build = [run.build EXCEPT !.podTemplate = p],
                                       !.step = "createService"]
<1>1. run \in Run /\ run.step = "createPod" /\ run.task \in Tasks
      /\ run.build \in BuildObject /\ Owns
  BY RunKnown DEF CreatePod, At, HandlerOK
<1>2. UNCHANGED <<stored, tasks, services, ingresses, interrupted>>
  BY DEF CreatePod
<1>3. CASE pods[run.task] # None /\ Skip("createService") /\ UNCHANGED pods
  <2>1. pods = Makes(pods, FilledPod)
    BY <1>3 DEF Makes, Created, TypeOK
  <2>2. run.build.podTemplate \in Part(PodTemplateSpec) /\ run.build.podTemplate.owner = "handler"
    BY <1>1 DEF BuildObject, Owns
  <2>3. run.build = [run.build EXCEPT !.podTemplate = run.build.podTemplate]
    BY <1>1 DEF BuildObject
  <2>4. [run EXCEPT !.step = "createService"]
            = [run EXCEPT !.build = run.build, !.step = "createService"]
    BY <1>1 DEF Run
  <2> QED
    BY <1>1, <1>2, <1>3, <2>1, <2>2, <2>3, <2>4 DEF Skip
<1>4. CASE /\ Write("podTemplate", FilledTemplate(run.build, run.task), "createService")
           /\ pods' = [pods EXCEPT ![run.task] = Created(@, FilledPod)]
  <2>1. PICK p \in Part(PodTemplateSpec) :
            p.owner = "handler" /\ p = Held("handler", FilledTemplate(run.build, run.task))
    <3>1. FilledTemplate(run.build, run.task) \in PodTemplateSpec
      BY <1>1, FilledTemplateIs
    <3> QED
      BY <3>1 DEF Held, Part, Owners
  <2>2. /\ run' = [run EXCEPT !.build = [run.build EXCEPT !.podTemplate = p],
                              !.step = "createService"]
        /\ cache' = cache
    <3>1. Write("podTemplate", FilledTemplate(run.build, run.task), "createService")
      BY <1>4
    <3>2. /\ run' = [run EXCEPT
                        !.build = [run.build EXCEPT !["podTemplate"] =
                                      Held("handler", FilledTemplate(run.build, run.task))],
                        !.step = "createService"]
          /\ cache' = cache
      BY <1>1, <3>1, WriteIsOwn
    <3> QED
      BY <2>1, <3>2
  <2>3. pods' = Makes(pods, FilledPod)
    BY <1>4 DEF Makes
  <2> QED
    BY <1>1, <1>2, <2>1, <2>2, <2>3
<1> QED
  BY <1>3, <1>4 DEF CreatePod, FilledPod

LEMMA CreateServiceEffect ==
    ASSUME TypeOK, HandlerOK, CreateService
    PROVE  /\ run \in Run /\ run.step = "createService"
           /\ services' = Makes(services, FilledService)
           /\ UNCHANGED <<stored, tasks, cache, pods, ingresses, interrupted>>
           /\ \E s \in Part(ServiceSpec) :
                 /\ s.owner = "handler"
                 /\ s.val.ports = run.build.service.val.ports
                 /\ run' = [run EXCEPT !.build = [run.build EXCEPT !.service = s],
                                       !.step = "createIngress"]
<1>1. run \in Run /\ run.step = "createService" /\ run.task \in Tasks
      /\ run.build \in BuildObject /\ Owns
  BY RunKnown DEF CreateService, At, HandlerOK
<1>2. UNCHANGED <<stored, tasks, pods, ingresses, interrupted>>
  BY DEF CreateService
<1>3. ASSUME Skip("createIngress")
      PROVE  /\ cache' = cache
             /\ \E s \in Part(ServiceSpec) :
                 /\ s.owner = "handler"
                 /\ s.val.ports = run.build.service.val.ports
                 /\ run' = [run EXCEPT !.build = [run.build EXCEPT !.service = s],
                                       !.step = "createIngress"]
  <2>1. run.build.service \in Part(ServiceSpec) /\ run.build.service.owner = "handler"
    BY <1>1 DEF BuildObject, Owns
  <2>2. run.build = [run.build EXCEPT !.service = run.build.service]
    BY <1>1 DEF BuildObject
  <2>3. [run EXCEPT !.step = "createIngress"]
            = [run EXCEPT !.build = run.build, !.step = "createIngress"]
    BY <1>1 DEF Run
  <2> QED
    BY <1>3, <2>1, <2>2, <2>3 DEF Skip
<1>4. CASE services[run.task] # None /\ Skip("createIngress") /\ UNCHANGED services
  <2>1. services = Makes(services, FilledService)
    BY <1>4 DEF Makes, Created, TypeOK
  <2> QED
    BY <1>1, <1>2, <1>3, <1>4, <2>1
<1>5. CASE /\ Skip("createIngress")
           /\ services' = [services EXCEPT ![run.task] = Created(@, FilledService)]
  BY <1>1, <1>2, <1>3, <1>5 DEF Makes
<1>6. CASE /\ Write("service", FilledService, "createIngress")
           /\ services' = [services EXCEPT ![run.task] = Created(@, FilledService)]
  <2>1. PICK s \in Part(ServiceSpec) :
            /\ s.owner = "handler" /\ s = Held("handler", FilledService)
            /\ s.val.ports = run.build.service.val.ports
    <3> DEFINE s == Held("handler", FilledService)
    <3>1. FilledService \in ServiceSpec /\ FilledService.ports = run.build.service.val.ports
      BY <1>1, FilledServiceIs
    <3>2. s \in Part(ServiceSpec) /\ s.owner = "handler" /\ s.val = FilledService
      BY <3>1 DEF Held, Part, Owners
    <3> QED
      BY <3>1, <3>2
  <2>2. /\ run' = [run EXCEPT !.build = [run.build EXCEPT !.service = s],
                              !.step = "createIngress"]
        /\ cache' = cache
    <3>1. Write("service", FilledService, "createIngress")
      BY <1>6
    <3>2. /\ run' = [run EXCEPT
                        !.build = [run.build EXCEPT !["service"] = Held("handler", FilledService)],
                        !.step = "createIngress"]
          /\ cache' = cache
      BY <1>1, <3>1, WriteIsOwn
    <3> QED
      BY <2>1, <3>2
  <2>3. services' = Makes(services, FilledService)
    BY <1>6 DEF Makes
  <2> QED
    BY <1>1, <1>2, <2>1, <2>2, <2>3
<1>7. FilledService = [run.build.service.val EXCEPT !.selector = WithTaskLabel(@, run.task)]
  BY DEF FilledService
<1> QED
  BY <1>4, <1>5, <1>6, <1>7 DEF CreateService

LEMMA CreateIngressEffect ==
    ASSUME TypeOK, CreateIngress
    PROVE  /\ run \in Run /\ run.step = "createIngress"
           /\ ingresses' = IF run.job.spec.domainName = Empty THEN ingresses
                           ELSE Makes(ingresses, FilledIngress)
           /\ UNCHANGED <<stored, tasks, cache, pods, services, interrupted>>
           /\ run' = [run EXCEPT !.step = "updateStatus", !.job = Done(run.job)]
<1>1. run \in Run /\ run.step = "createIngress" /\ run.task \in Tasks
  BY RunKnown DEF CreateIngress, At
<1>2. ingresses[run.task] # None => ingresses = Makes(ingresses, FilledIngress)
  BY <1>1 DEF Makes, Created, TypeOK
<1>3. [run EXCEPT !.step = "updateStatus", !.job.state = "SCHEDULED"]
        = [run EXCEPT !.step = "updateStatus", !.job = Done(run.job)]
  BY <1>1 DEF Run, Done
<1> QED
  BY <1>1, <1>2, <1>3 DEF CreateIngress, FilledIngress, TargetPort, Makes

LEMMA AnnounceEffect ==
    ASSUME TypeOK, HandlerOK, Announce
    PROVE  /\ run \in Run /\ run.step = "announce"
           /\ run' = [run EXCEPT !.step = "updateStatus", !.job = Announced(run.job)]
           /\ UNCHANGED <<stored, tasks, cache, pods, services, ingresses, interrupted>>
<1>1. run \in Run /\ run.step = "announce" /\ run.job.scheduled.owner = "handler"
  BY RunKnown DEF Announce, At, HandlerOK, Owns
<1>2. [run EXCEPT !.step = "updateStatus", !.job.scheduled.val = "PodScheduled"]
        = [run EXCEPT !.step = "updateStatus", !.job = Announced(run.job)]
  BY <1>1 DEF Run, Announced
<1> QED
  BY <1>1, <1>2 DEF Announce

\* What every step that the handler makes children or conditions in has in common.
Making == CreatePod \/ CreateService \/ CreateIngress \/ Announce

LEMMA MakingEffect ==
    ASSUME TypeOK, HandlerOK, Making
    PROVE  /\ run \in Run /\ run' \in Run
           /\ run'.task = run.task /\ run'.read = run.read /\ run'.job.spec = run.job.spec
           /\ run.job.scheduled.val = "PodScheduled" => run'.job.scheduled.val = "PodScheduled"
           /\ run'.step = CASE run.step = "createPod" -> "createService"
                            [] run.step = "createService" -> "createIngress"
                            [] OTHER -> "updateStatus"
           /\ Owns' /\ \A spec : Copies(spec) => Copies(spec)'
           /\ UNCHANGED <<stored, tasks, cache, interrupted>>
<1>1. /\ run \in Run /\ run.task \in Tasks /\ run.build \in BuildObject /\ run.job \in TaskObject
      /\ Owns
  BY RunKnown DEF Making, CreatePod, CreateService, CreateIngress, Announce, At, Run, HandlerOK
<1>2. CASE CreatePod
  <2>1. PICK p \in Part(PodTemplateSpec) :
            /\ p.owner = "handler"
            /\ run' = [run EXCEPT !.build = [run.build EXCEPT !.podTemplate = p],
                                  !.step = "createService"]
    BY <1>2, CreatePodEffect
  <2>2. run.step = "createPod" /\ UNCHANGED <<stored, tasks, cache, interrupted>>
    BY <1>2, CreatePodEffect
  <2>3. PICK b \in BuildObject : /\ b = [run.build EXCEPT !.podTemplate = p]
                                 /\ run' = [run EXCEPT !.build = b, !.step = "createService"]
    BY <1>1, <2>1 DEF BuildObject
  <2>4. run' \in Run
    BY <1>1, <2>3, RunType DEF Steps
  <2>5. /\ run'.task = run.task /\ run'.read = run.read /\ run'.job = run.job
        /\ run'.step = "createService" /\ run'.build = b
    BY <1>1, <2>3 DEF Run
  <2>6. /\ b.podAnnotations = run.build.podAnnotations
        /\ b.ingressTLS = run.build.ingressTLS
        /\ b.ingressTargetPort = run.build.ingressTargetPort
        /\ b.databaseVolumePath = run.build.databaseVolumePath
        /\ b.service = run.build.service
        /\ b.podTemplate = p
    BY <1>1, <2>3 DEF BuildObject
  <2>7. \A spec : Copies(spec) => Copies(spec)'
    BY <2>2, <2>5, <2>6 DEF Copies
  <2>8. Owns'
    BY <1>1, <2>1, <2>5, <2>6 DEF Owns
  <2> QED
    BY <1>1, <2>2, <2>4, <2>5, <2>7, <2>8
<1>3. CASE CreateService
  <2>1. PICK s \in Part(ServiceSpec) :
            /\ s.owner = "handler"
            /\ s.val.ports = run.build.service.val.ports
            /\ run' = [run EXCEPT !.build = [run.build EXCEPT !.service = s],
                                  !.step = "createIngress"]
    BY <1>3, CreateServiceEffect
  <2>2. run.step = "createService" /\ UNCHANGED <<stored, tasks, cache, interrupted>>
    BY <1>3, CreateServiceEffect
  <2>3. PICK b \in BuildObject : /\ b = [run.build EXCEPT !.service = s]
                                 /\ run' = [run EXCEPT !.build = b, !.step = "createIngress"]
    BY <1>1, <2>1 DEF BuildObject
  <2>4. run' \in Run
    BY <1>1, <2>3, RunType DEF Steps
  <2>5. /\ run'.task = run.task /\ run'.read = run.read /\ run'.job = run.job
        /\ run'.step = "createIngress" /\ run'.build = b
    BY <1>1, <2>3 DEF Run
  <2>6. /\ b.podAnnotations = run.build.podAnnotations
        /\ b.ingressTLS = run.build.ingressTLS
        /\ b.ingressTargetPort = run.build.ingressTargetPort
        /\ b.databaseVolumePath = run.build.databaseVolumePath
        /\ b.podTemplate = run.build.podTemplate
        /\ b.service = s /\ b.service.val.ports = run.build.service.val.ports
    BY <1>1, <2>1, <2>3 DEF BuildObject
  <2>7. \A spec : Copies(spec) => Copies(spec)'
    BY <2>5, <2>6 DEF Copies
  <2>8. Owns'
    BY <1>1, <2>1, <2>5, <2>6 DEF Owns
  <2> QED
    BY <1>1, <2>2, <2>4, <2>5, <2>7, <2>8
<1>4. ASSUME CreateIngress \/ Announce
      PROVE  /\ run.step \in {"createIngress", "announce"}
             /\ run' \in Run
             /\ run'.task = run.task /\ run'.read = run.read /\ run'.build = run.build
             /\ run'.job.spec = run.job.spec
             /\ run'.job.scheduled.owner = run.job.scheduled.owner
             /\ run.job.scheduled.val = "PodScheduled" => run'.job.scheduled.val = "PodScheduled"
             /\ run'.step = "updateStatus"
             /\ UNCHANGED <<stored, tasks, cache, interrupted>>
  <2>1. /\ run.step \in {"createIngress", "announce"}
        /\ UNCHANGED <<stored, tasks, cache, interrupted>>
        /\ \E job \in {Done(run.job), Announced(run.job)} :
              run' = [run EXCEPT !.step = "updateStatus", !.job = job]
    BY <1>4, CreateIngressEffect, AnnounceEffect
  <2>2. PICK job \in {Done(run.job), Announced(run.job)} :
              run' = [run EXCEPT !.step = "updateStatus", !.job = job]
    BY <2>1
  <2>3. /\ job \in TaskObject /\ job.spec = run.job.spec
        /\ job.scheduled.owner = run.job.scheduled.owner
        /\ run.job.scheduled.val = "PodScheduled" => job.scheduled.val = "PodScheduled"
    BY <1>1, JobType
  <2>4. /\ run' \in Run
        /\ run'.task = run.task /\ run'.read = run.read /\ run'.build = run.build
        /\ run'.job = job /\ run'.step = "updateStatus"
    BY <1>1, <2>2, <2>3 DEF Run, Steps
  <2> QED
    BY <2>1, <2>3, <2>4
<1>5. CASE CreateIngress \/ Announce
  <2>1. \A spec : Copies(spec) => Copies(spec)'
    BY <1>4, <1>5 DEF Copies
  <2>2. Owns'
    BY <1>1, <1>4, <1>5 DEF Owns
  <2> QED
    BY <1>1, <1>4, <1>5, <2>1, <2>2
<1> QED
  BY <1>2, <1>3, <1>5 DEF Making

\* The handler begins with copies, and its end leaves nothing of it.
LEMMA ReconcileEffect ==
    ASSUME TypeOK, NEW t \in Tasks, Reconcile(t)
    PROVE  /\ run = None /\ run' \in Run
           /\ run'.task = t /\ run'.step \in {"createPod", "announce"}
           /\ run'.build = EnvironmentBuildDeepCopy(cache.build)
           /\ run'.job = TaskDeepCopy(cache.tasks[t])
           /\ run'.read = EncodedTask(cache.tasks[t])
           /\ cache.tasks[t] # None
           /\ cache.build \in BuildObject /\ cache.tasks[t] \in TaskObject
           /\ UNCHANGED <<stored, tasks, cache, pods, services, ingresses, interrupted>>
<1>1. cache.tasks[t] \in TaskObject /\ cache.build \in BuildObject
  BY DEF TypeOK, Reconcile
<1>2. /\ EnvironmentBuildDeepCopy(cache.build) \in BuildObject
      /\ TaskDeepCopy(cache.tasks[t]) \in TaskObject
      /\ EncodedTask(cache.tasks[t]) \in Task
  BY <1>1, BuildCopyIs, TaskCopyIs, EncodedTaskIs
<1> QED
  BY <1>1, <1>2 DEF Reconcile, Run, Steps

\* The cache a manager begins with.
Fresh == [build |-> DecodedBuild(stored), tasks |-> [t \in Tasks |-> Delivered(t)]]

LEMMA DeliveredType ==
    ASSUME TypeOK, NEW t \in Tasks
    PROVE  Delivered(t) \in TaskObject \union {None}
BY DecodedTaskIs DEF TypeOK, Delivered

LEMMA EndEffect ==
    ASSUME TypeOK, UpdateStatus \/ Interrupt
    PROVE  /\ run \in Run /\ run' = None
           /\ UNCHANGED <<stored, pods, services, ingresses>>
           /\ UpdateStatus => /\ tasks' = [tasks EXCEPT ![run.task] =
                                                IF @ = run.read THEN EncodedTask(run.job) ELSE @]
                              /\ run.step = "updateStatus"
                              /\ UNCHANGED <<cache, interrupted>>
           /\ Interrupt => /\ interrupted' = interrupted \union {run.task}
                           /\ cache' \in {cache, Fresh}
                           /\ UNCHANGED tasks
BY RunKnown DEF UpdateStatus, Interrupt, At, Fresh

-----------------------------------------------------------------------------
(* Each part of the invariant is kept. *)

LEMMA TypeStep ==
    ASSUME TypeOK, HandlerOK, [Next]_vars
    PROVE  TypeOK'
<1>1. ASSUME NEW spec \in Templates, EditBuild(spec)
      PROVE  TypeOK'
  BY <1>1, TemplatesAssumption DEF TypeOK, EditBuild
<1>2. ASSUME NEW t \in Tasks, NEW spec \in TaskSpecs, CreateTask(t, spec)
      PROVE  TypeOK'
  <2>1. [spec |-> spec, state |-> "PENDING", scheduled |-> "PodNotScheduled"] \in Task
    BY TemplatesAssumption DEF Task
  <2> QED
    BY <1>2, <2>1 DEF TypeOK, CreateTask
<1>3. CASE SeeBuild
  <2>1. DecodedBuild(stored) \in BuildObject
    BY DecodedBuildIs DEF TypeOK
  <2>2. cache' \in [build : BuildObject, tasks : [Tasks -> TaskObject \union {None}]]
    BY <1>3, <2>1 DEF TypeOK, SeeBuild
  <2> QED
    BY <1>3, <2>2, SeeEffect DEF TypeOK
<1>4. ASSUME NEW t \in Tasks, SeeTask(t)
      PROVE  TypeOK'
  <2>1. Delivered(t) \in TaskObject \union {None}
    BY DeliveredType
  <2>2. cache' \in [build : BuildObject, tasks : [Tasks -> TaskObject \union {None}]]
    BY <1>4, <2>1 DEF TypeOK, SeeTask
  <2> QED
    BY <1>4, <2>2, SeeEffect DEF TypeOK
<1>5. ASSUME NEW t \in Tasks, Reconcile(t)
      PROVE  TypeOK'
  BY <1>5, ReconcileEffect DEF TypeOK
<1>6. CASE CreatePod
  <2>1. Makes(pods, FilledPod) \in [Tasks -> Pod \union {None}]
    BY <1>6, CreatePodEffect, RunKnown, FilledPodIs, MakesIs, NoneAssumption DEF TypeOK, Run
  <2> QED
    BY <1>6, <2>1, CreatePodEffect, MakingEffect DEF TypeOK, Making
<1>7. CASE CreateService
  <2>1. Makes(services, FilledService) \in [Tasks -> ServiceSpec \union {None}]
    BY <1>7, CreateServiceEffect, FilledServiceIs, MakesIs, NoneAssumption DEF TypeOK, Run
  <2> QED
    BY <1>7, <2>1, CreateServiceEffect, MakingEffect DEF TypeOK, Making
<1>8. CASE CreateIngress
  <2>1. Makes(ingresses, FilledIngress) \in [Tasks -> Ingress \union {None}]
    BY <1>8, CreateIngressEffect, FilledIngressType, MakesIs, NoneAssumption DEF TypeOK, Run
  <2>2. ingresses' \in [Tasks -> Ingress \union {None}]
    BY <1>8, <2>1, CreateIngressEffect DEF TypeOK
  <2> QED
    BY <1>8, <2>2, CreateIngressEffect, MakingEffect DEF TypeOK, Making
<1>9. CASE Announce
  BY <1>9, AnnounceEffect, MakingEffect DEF TypeOK, Making
<1>10. CASE UpdateStatus
  <2>1. EncodedTask(run.job) \in Task /\ run.task \in Tasks
    BY <1>10, EndEffect, EncodedTaskIs DEF Run
  <2>2. tasks' \in [Tasks -> Task \union {None}]
    BY <1>10, <2>1, EndEffect DEF TypeOK
  <2> QED
    BY <1>10, <2>2, EndEffect DEF TypeOK
<1>11. CASE Interrupt
  <2>1. run.task \in Tasks
    BY <1>11, EndEffect DEF Run
  <2>2. Fresh \in [build : BuildObject, tasks : [Tasks -> TaskObject \union {None}]]
    BY DecodedBuildIs, DeliveredType DEF TypeOK, Fresh
  <2>3. cache' \in [build : BuildObject, tasks : [Tasks -> TaskObject \union {None}]]
    BY <1>11, <2>2, EndEffect DEF TypeOK
  <2> QED
    BY <1>11, <2>1, <2>3, EndEffect DEF TypeOK
<1>12. CASE UNCHANGED vars
  BY <1>12 DEF TypeOK, vars
<1> QED
  BY <1>1, <1>2, <1>3, <1>4, <1>5, <1>6, <1>7, <1>8, <1>9, <1>10, <1>11, <1>12 DEF Next

\* What users wrote into a task stays, and a condition once true is not lost.
LEMMA TasksKept ==
    ASSUME TypeOK, HandlerOK, Next
    PROVE  \A t \in Tasks : tasks[t] # None =>
              /\ tasks[t] \in Task /\ tasks'[t] \in Task
              /\ tasks'[t] # None /\ tasks'[t].spec = tasks[t].spec
              /\ tasks[t].scheduled = "PodScheduled" => tasks'[t].scheduled = "PodScheduled"
<1>0. \A t \in Tasks : tasks[t] # None => tasks[t] \in Task
  BY DEF TypeOK
<1>1. CASE UpdateStatus
  <2>1. /\ run \in Run /\ run # None /\ run.task \in Tasks /\ run.job \in TaskObject
        /\ tasks' = [tasks EXCEPT ![run.task] = IF @ = run.read THEN EncodedTask(run.job) ELSE @]
    BY <1>1, EndEffect, NoneAssumption DEF Run
  <2>2. /\ EncodedTask(run.job) \in Task /\ EncodedTask(run.job) # None
        /\ EncodedTask(run.job).scheduled = run.job.scheduled.val
    BY <2>1, EncodedTaskIs, NoneAssumption
  <2>3. /\ EncodedTask(run.job).spec = run.read.spec
        /\ run.read.scheduled = "PodScheduled" => run.job.scheduled.val = "PodScheduled"
    BY <2>1 DEF HandlerOK
  <2> QED
    BY <1>0, <2>1, <2>2, <2>3 DEF TypeOK
<1>2. ASSUME NEW t \in Tasks, NEW spec \in TaskSpecs, CreateTask(t, spec)
      PROVE  tasks[t] = None /\ \A u \in Tasks : u # t => tasks'[u] = tasks[u]
  BY <1>2 DEF CreateTask, TypeOK
<1>3. CASE tasks' = tasks
  BY <1>0, <1>3
<1> QED
  BY <1>0, <1>1, <1>2, <1>3
     DEF Next, EditBuild, SeeTask, SeeBuild, Reconcile, CreatePod, CreateService,
         CreateIngress, Announce, Interrupt

\* What an informer delivers of a task that stays is true of it.
LEMMA DecodedStays ==
    ASSUME NEW task \in Task, NEW new \in Task, new.spec = task.spec
    PROVE  DecodedTask(new).spec = DecodedTask(task).spec
BY DecodedTaskIs

LEMMA CacheStep ==
    ASSUME TypeOK, CacheOK, HandlerOK, Next
    PROVE  CacheOK'
<1>1. \A t \in Tasks : tasks[t] # None =>
              /\ tasks[t] \in Task /\ tasks'[t] \in Task
              /\ tasks'[t] # None /\ tasks'[t].spec = tasks[t].spec
              /\ tasks[t].scheduled = "PodScheduled" => tasks'[t].scheduled = "PodScheduled"
  BY TasksKept
<1>2. /\ stored \in Templates /\ \E spec \in Templates : cache.build = DecodedBuild(spec)
      /\ \A t \in Tasks : cache.tasks[t] # None =>
            /\ tasks[t] # None /\ cache.tasks[t].spec = DecodedTask(tasks[t]).spec
            /\ cache.tasks[t].scheduled.val = "PodScheduled" => tasks[t].scheduled = "PodScheduled"
  BY DEF CacheOK, CacheIsStored
<1>3. stored' \in Templates
  BY <1>2 DEF Next, EditBuild, CreateTask, SeeTask, SeeBuild, Reconcile, CreatePod, CreateService,
              CreateIngress, Announce, UpdateStatus, Interrupt
<1>4. /\ cache'.build \in {cache.build, DecodedBuild(stored)}
      /\ \A t \in Tasks : cache'.tasks[t] \in {cache.tasks[t], Delivered(t)}
  <2>1. CASE Making
    BY <2>1, MakingEffect
  <2>2. CASE UpdateStatus \/ Interrupt
    BY <2>2, EndEffect DEF Fresh
  <2>3. CASE SeeBuild
    BY <2>3 DEF SeeBuild, TypeOK
  <2>4. ASSUME NEW t \in Tasks, SeeTask(t)
        PROVE  /\ cache'.build = cache.build
               /\ \A u \in Tasks : cache'.tasks[u] \in {cache.tasks[u], Delivered(u)}
    BY <2>4 DEF SeeTask, TypeOK
  <2>5. CASE cache' = cache
    BY <2>5
  <2> QED
    BY <2>1, <2>2, <2>3, <2>4, <2>5 DEF Next, EditBuild, CreateTask, Reconcile, Making
<1>5. ASSUME NEW t \in Tasks, cache'.tasks[t] # None
      PROVE  /\ tasks'[t] # None /\ cache'.tasks[t].spec = DecodedTask(tasks'[t]).spec
             /\ cache'.tasks[t].scheduled.val = "PodScheduled"
                    => tasks'[t].scheduled = "PodScheduled"
  <2>1. /\ tasks[t] # None /\ cache'.tasks[t].spec = DecodedTask(tasks[t]).spec
        /\ cache'.tasks[t].scheduled.val = "PodScheduled" => tasks[t].scheduled = "PodScheduled"
    <3>1. CASE cache'.tasks[t] = cache.tasks[t]
      BY <1>2, <1>5, <3>1
    <3>2. CASE cache'.tasks[t] = Delivered(t)
      <4>1. tasks[t] # None /\ cache'.tasks[t] = DecodedTask(tasks[t])
        BY <1>5, <3>2 DEF Delivered
      <4>2. DecodedTask(tasks[t]).scheduled.val = tasks[t].scheduled
        BY <1>1, <4>1, DecodedTaskIs
      <4> QED
        BY <4>1, <4>2
    <3> QED
      BY <1>4, <3>1, <3>2
  <2>2. DecodedTask(tasks'[t]).spec = DecodedTask(tasks[t]).spec
    BY <1>1, <2>1, DecodedStays
  <2> QED
    BY <1>1, <2>1, <2>2
<1>6. \E spec \in Templates : cache'.build = DecodedBuild(spec)
  BY <1>2, <1>4
<1> QED
  BY <1>3, <1>5, <1>6 DEF CacheOK, CacheIsStored, DecodedTask, DecodedBuild

\* A handler's copies are of what the cache has.
LEMMA ReconciledOK ==
    ASSUME TypeOK, CacheOK, NEW t \in Tasks, Reconcile(t)
    PROVE  HandlerOK'
<1>1. /\ run'.task = t /\ run'.build = EnvironmentBuildDeepCopy(cache.build)
      /\ run'.job = TaskDeepCopy(cache.tasks[t])
      /\ run'.read = EncodedTask(cache.tasks[t])
      /\ cache.tasks[t] # None /\ tasks' = tasks
      /\ cache.build \in BuildObject /\ cache.tasks[t] \in TaskObject
  BY ReconcileEffect
<1>2. /\ tasks[t] \in Task /\ tasks[t] # None
      /\ cache.tasks[t].spec = DecodedTask(tasks[t]).spec
  BY <1>1 DEF CacheOK, TypeOK
<1>3. PICK spec \in Templates : cache.build = DecodedBuild(spec)
  BY DEF CacheOK, CacheIsStored
<1>4. /\ \A part \in {"podAnnotations", "podTemplate", "service"} :
              /\ run'.build[part].owner = "handler"
              /\ run'.build[part].val = cache.build[part].val
      /\ run'.build.ingressTLS = cache.build.ingressTLS
      /\ run'.build.ingressTargetPort = cache.build.ingressTargetPort
      /\ run'.build.databaseVolumePath = cache.build.databaseVolumePath
  BY <1>1, BuildCopyIs
<1>5. /\ run'.job.spec.ingressAnnotations.owner = "handler"
      /\ run'.job.scheduled.owner = "handler"
      /\ run'.job.scheduled.val = cache.tasks[t].scheduled.val
      /\ EncodedTask(run'.job).spec = EncodedTask(cache.tasks[t]).spec
  BY <1>1, TaskCopyIs
<1>6. Copies(spec)'
  <2>1. spec \in EnvironmentBuildSpec
    BY TemplatesAssumption
  <2>2. /\ run'.build.podAnnotations.val = cache.build.podAnnotations.val
        /\ run'.build.podTemplate.val = cache.build.podTemplate.val
        /\ run'.build.service.val = cache.build.service.val
    BY <1>4
  <2>3. /\ cache.build.podAnnotations.val = spec.podAnnotations
        /\ cache.build.podTemplate.val = spec.podTemplate
        /\ cache.build.service.val = spec.service
        /\ cache.build.ingressTLS = spec.ingressTLS
        /\ cache.build.ingressTargetPort = spec.ingressTargetPort
        /\ cache.build.databaseVolumePath = spec.databaseVolumePath
    BY <1>3, <2>1, DecodedBuildIs
  <2> QED
    BY <1>4, <2>2, <2>3 DEF Copies
<1>7. Owns'
  BY <1>4, <1>5 DEF Owns
<1>8. run'.read.spec = tasks[t].spec
  BY <1>1, <1>2, RoundTrip
<1>9. run'.read.scheduled = cache.tasks[t].scheduled.val
  BY <1>1, EncodedTaskIs
<1>10. EncodedTask(run.job)' = EncodedTask(run'.job)
  BY DEF EncodedTask
<1> QED
  BY <1>1, <1>2, <1>5, <1>6, <1>7, <1>8, <1>9, <1>10 DEF HandlerOK

LEMMA HandlerStep ==
    ASSUME TypeOK, CacheOK, HandlerOK, Next
    PROVE  HandlerOK'
<1>1. \A t \in Tasks : tasks[t] # None => tasks'[t] # None /\ tasks'[t].spec = tasks[t].spec
  BY TasksKept
<1>2. CASE Making
  <2>1. /\ run \in Run /\ run' \in Run /\ run # None /\ run.task \in Tasks /\ run'.task = run.task
        /\ run'.read = run.read /\ run'.job.spec = run.job.spec
        /\ run.job.scheduled.val = "PodScheduled" => run'.job.scheduled.val = "PodScheduled"
        /\ Owns' /\ \A spec : Copies(spec) => Copies(spec)'
        /\ tasks' = tasks
    BY <1>2, MakingEffect, NoneAssumption DEF Run
  <2>2. run.job \in TaskObject /\ run'.job \in TaskObject /\ run'.job.spec = run.job.spec
    BY <2>1 DEF Run
  <2>3. EncodedTask(run'.job).spec = EncodedTask(run.job).spec
    BY <2>2, SameSpec
  <2>4. EncodedTask(run.job)' = EncodedTask(run'.job)
    BY DEF EncodedTask
  <2> QED
    BY <2>1, <2>3, <2>4 DEF HandlerOK
<1>3. ASSUME NEW t \in Tasks, Reconcile(t)
      PROVE  HandlerOK'
  BY <1>3, ReconciledOK
<1>4. CASE UpdateStatus \/ Interrupt
  BY <1>4, EndEffect DEF HandlerOK
<1>5. CASE run' = run
  <2>1. \A spec : Copies(spec) => Copies(spec)'
    BY <1>5 DEF Copies
  <2>2. run # None => run.task \in Tasks
    BY RunKnown
  <2>3. Owns => Owns'
    BY <1>5 DEF Owns
  <2>4. EncodedTask(run.job)' = EncodedTask(run.job)
    BY <1>5 DEF EncodedTask
  <2> QED
    BY <1>1, <1>5, <2>1, <2>2, <2>3, <2>4 DEF HandlerOK
<1>6. CASE SeeBuild \/ \E t \in Tasks : SeeTask(t)
  BY <1>5, <1>6, SeeEffect
<1> QED
  BY <1>2, <1>3, <1>4, <1>5, <1>6 DEF Next, Making, EditBuild, CreateTask

LEMMA LabelsStep ==
    ASSUME TypeOK, HandlerOK, LabelsOK, Next
    PROVE  LabelsOK'
<1>1. CASE CreatePod
  <2>1. /\ run \in Run /\ run.task \in Tasks /\ run.job \in TaskObject /\ services' = services
        /\ pods' = Makes(pods, FilledPod)
    BY <1>1, CreatePodEffect DEF Run
  <2>2. FilledPod \in Pod /\ Labelled(FilledPod.labels, run.task)
    BY <2>1, FilledPodIs, PodLabelsAre
  <2>3. /\ pods[run.task] = None => pods'[run.task] = FilledPod
        /\ \A t \in Tasks : t # run.task \/ pods[t] # None => pods'[t] = pods[t]
    BY <2>1, <2>2, MakesIs, NoneAssumption DEF TypeOK
  <2> QED
    BY <2>1, <2>2, <2>3 DEF LabelsOK
<1>2. CASE CreateService
  <2>1. /\ run \in Run /\ run.task \in Tasks /\ pods' = pods
        /\ services' = Makes(services, FilledService)
    BY <1>2, CreateServiceEffect DEF Run
  <2>2. FilledService \in ServiceSpec /\ Labelled(FilledService.selector, run.task)
    BY <2>1, FilledServiceIs
  <2>3. /\ services[run.task] = None => services'[run.task] = FilledService
        /\ \A t \in Tasks : t # run.task \/ services[t] # None => services'[t] = services[t]
    BY <2>1, <2>2, MakesIs, NoneAssumption DEF TypeOK
  <2> QED
    BY <2>1, <2>2, <2>3 DEF LabelsOK
<1>3. CASE UNCHANGED <<pods, services>>
  BY <1>3 DEF LabelsOK
<1> QED
  BY <1>1, <1>2, <1>3 DEF Next, EditBuild, CreateTask, SeeTask, SeeBuild, Reconcile, CreateIngress,
                          Announce, UpdateStatus, Interrupt

\* What a pod's containers carry is about that pod alone.
CarriesOwn(t, pod) ==
    \A i \in DOMAIN pod.spec.containers :
        LET env == pod.spec.containers[i].env
        IN  /\ Effective(env, "OPSMATE_TOKEN") = {t}
            /\ Effective(env, "OPSMATE_SESSION_NAME") = {t}
            /\ \A j \in DOMAIN env : env[j].value \notin Tasks \ {t}

LEMMA FilledPodCarriesOwn ==
    ASSUME TypeOK, HandlerOK, run # None, run.step = "createPod"
    PROVE  CarriesOwn(run.task, FilledPod)
<1>1. run \in Run /\ run.task \in Tasks /\ run.build \in BuildObject
  BY RunKnown
<1>2. PICK spec \in Templates : run.build.podTemplate.val = spec.podTemplate
  BY DEF HandlerOK, Copies
<1> DEFINE old == run.build.podTemplate.val.spec.containers
           new == FilledTemplate(run.build, run.task).spec.containers
<1>3. /\ FilledPod.spec.containers = new
      /\ DOMAIN new = DOMAIN old
      /\ \A i \in DOMAIN old : /\ old[i] \in Container
                               /\ new[i].env = old[i].env \o OwnEnv(run.build, run.task)
  BY <1>1, FilledPodIs, FilledTemplateIs
<1>4. \A i \in DOMAIN old : \A j \in DOMAIN old[i].env : old[i].env[j].value \in Texts
  BY <1>2, TextsAssumption
<1> HIDE DEF old, new
<1>5. ASSUME NEW i \in DOMAIN old
      PROVE  LET env == new[i].env
             IN  /\ Effective(env, "OPSMATE_TOKEN") = {run.task}
                 /\ Effective(env, "OPSMATE_SESSION_NAME") = {run.task}
                 /\ \A j \in DOMAIN env : env[j].value \notin Tasks \ {run.task}
  <2>1. old[i].env \in Seq(EnvVar) /\ \A j \in DOMAIN old[i].env : old[i].env[j].value \in Texts
    BY <1>3, <1>4 DEF Container
  <2>2. PICK e \in Seq(EnvVar) : e = old[i].env /\ \A j \in DOMAIN e : e[j].value \in Texts
    BY <2>1
  <2>3. ASSUME NEW b \in BuildObject, NEW t \in Tasks
        PROVE  LET env == e \o OwnEnv(b, t)
               IN  /\ Effective(env, "OPSMATE_TOKEN") = {t}
                   /\ Effective(env, "OPSMATE_SESSION_NAME") = {t}
                   /\ \A j \in DOMAIN env : env[j].value \notin Tasks \ {t}
    <3>1. \A j \in DOMAIN e : e[j].value \in Texts
      BY <2>2
    <3> QED
      BY <3>1, OwnValuesCount
  <2>4. new[i].env = e \o OwnEnv(run.build, run.task)
    BY <1>3, <2>2
  <2> QED
    BY <1>1, <2>3, <2>4
<1> QED
  BY <1>3, <1>5 DEF CarriesOwn

LEMMA ValuesStep ==
    ASSUME TypeOK, HandlerOK, PodsCarryOwnValues, Next
    PROVE  PodsCarryOwnValues'
<1>1. \A t \in Tasks : pods[t] # None => CarriesOwn(t, pods[t])
  BY DEF PodsCarryOwnValues, CarriesOwn
<1>2. \A t \in Tasks : pods'[t] # None => CarriesOwn(t, pods'[t])
  <2>1. CASE CreatePod
    <3>1. /\ run \in Run /\ run # None /\ run.step = "createPod" /\ run.task \in Tasks
          /\ pods' = Makes(pods, FilledPod) /\ FilledPod \in Pod
      BY <2>1, CreatePodEffect, FilledPodIs, NoneAssumption DEF Run
    <3>2. /\ pods[run.task] = None => pods'[run.task] = FilledPod
          /\ \A t \in Tasks : t # run.task \/ pods[t] # None => pods'[t] = pods[t]
      BY <3>1, MakesIs, NoneAssumption DEF TypeOK
    <3>3. CarriesOwn(run.task, FilledPod)
      BY <3>1, FilledPodCarriesOwn
    <3> QED
      BY <1>1, <3>1, <3>2, <3>3
  <2>2. CASE pods' = pods
    BY <1>1, <2>2
  <2> QED
    BY <2>1, <2>2 DEF Next, EditBuild, CreateTask, SeeTask, SeeBuild, Reconcile, CreateService,
                      CreateIngress, Announce, UpdateStatus, Interrupt
<1> QED
  BY <1>2 DEF PodsCarryOwnValues, CarriesOwn

-----------------------------------------------------------------------------
(* One version of the build for all children. *)

Creating == {"createService", "createIngress"}

\* VersionsOK for one task.
VersionOf(t) == \E spec \in Templates :
    OfVersion(t, spec) /\ (Complete(t) \/ Untouched(t) \/ InProgress(t, spec))

\* A step that makes no child of a task, and no step of its handler on the way.
LEMMA VersionKept ==
    ASSUME TypeOK, HandlerOK, Next, NEW t \in Tasks, VersionOf(t),
           pods'[t] = pods[t], services'[t] = services[t], ingresses'[t] = ingresses[t],
           RunOf(t, Creating)' <=> RunOf(t, Creating),
           RunOf(t, Creating) => run' = run
    PROVE  VersionOf(t)'
<1>1. tasks[t] # None => tasks'[t] # None /\ tasks'[t].spec = tasks[t].spec
  BY TasksKept
<1>2. PICK spec \in Templates :
          OfVersion(t, spec) /\ (Complete(t) \/ Untouched(t) \/ InProgress(t, spec))
  BY DEF VersionOf
<1>3. OfVersion(t, spec)'
  BY <1>2 DEF OfVersion
<1>4. Complete(t) => Complete(t)'
  BY <1>1 DEF Complete
<1>5. Untouched(t) => Untouched(t)'
  BY DEF Untouched, Creating
<1>6. InProgress(t, spec) => InProgress(t, spec)'
  BY DEF InProgress, Creating, RunOf, Copies
<1> QED
  BY <1>2, <1>3, <1>4, <1>5, <1>6 DEF VersionOf

\* A step of the handler that is about another task.
LEMMA OtherKept ==
    ASSUME TypeOK, HandlerOK, Making, NEW t \in Tasks, VersionOf(t), t # run.task
    PROVE  VersionOf(t)'
<1>1. run \in Run /\ run.task \in Tasks /\ run'.task = run.task
  BY MakingEffect DEF Run
<1>2. pods'[t] = pods[t] /\ services'[t] = services[t] /\ ingresses'[t] = ingresses[t]
  <2>0. /\ pods \in [Tasks -> Pod \union {None}]
        /\ services \in [Tasks -> ServiceSpec \union {None}]
        /\ ingresses \in [Tasks -> Ingress \union {None}]
    BY DEF TypeOK
  <2>1. CASE CreatePod
    <3>1. pods' = Makes(pods, FilledPod) /\ UNCHANGED <<services, ingresses>>
      BY <2>1, CreatePodEffect
    <3>2. Makes(pods, FilledPod)[t] = pods[t]
      BY <1>1, <2>0 DEF Makes
    <3> QED
      BY <3>1, <3>2
  <2>2. CASE CreateService
    <3>1. services' = Makes(services, FilledService) /\ UNCHANGED <<pods, ingresses>>
      BY <2>2, CreateServiceEffect
    <3>2. Makes(services, FilledService)[t] = services[t]
      BY <1>1, <2>0 DEF Makes
    <3> QED
      BY <3>1, <3>2
  <2>3. CASE CreateIngress
    <3>1. /\ ingresses' \in {ingresses, Makes(ingresses, FilledIngress)}
          /\ UNCHANGED <<pods, services>>
      BY <2>3, CreateIngressEffect
    <3>2. Makes(ingresses, FilledIngress)[t] = ingresses[t]
      BY <1>1, <2>0 DEF Makes
    <3> QED
      BY <3>1, <3>2
  <2>4. CASE Announce
    BY <2>4, AnnounceEffect
  <2> QED
    BY <2>1, <2>2, <2>3, <2>4 DEF Making
<1>3. ~RunOf(t, Creating) /\ ~RunOf(t, Creating)'
  BY <1>1 DEF RunOf
<1>4. Next
  BY DEF Next, Making
<1> QED
  BY <1>2, <1>3, <1>4, VersionKept

LEMMA PodVersion ==
    ASSUME TypeOK, HandlerOK, CreatePod, NEW t \in Tasks, VersionOf(t), t = run.task
    PROVE  VersionOf(t)'
<1>1. /\ run \in Run /\ run # None /\ run.step = "createPod" /\ run.task \in Tasks
      /\ run.build \in BuildObject
      /\ UNCHANGED <<tasks, services, ingresses>> /\ pods' = Makes(pods, FilledPod)
  BY CreatePodEffect, NoneAssumption DEF Run
<1>2. /\ run' \in Run /\ run' # None /\ run'.task = t /\ run'.step = "createService"
      /\ \A spec : Copies(spec) => Copies(spec)'
  BY <1>1, MakingEffect, NoneAssumption DEF Making
<1>3. FilledPod \in Pod /\ None \notin Pod
  BY <1>1, FilledPodIs, NoneAssumption
<1>4. /\ pods'[t] # None
      /\ pods[t] = None => pods'[t] = FilledPod
      /\ pods[t] # None => pods'[t] = pods[t]
  BY <1>1, <1>3, MakesIs DEF TypeOK
<1>5. PICK spec \in Templates :
          OfVersion(t, spec) /\ (Complete(t) \/ Untouched(t) \/ InProgress(t, spec))
  BY DEF VersionOf
<1>6. CASE Complete(t)
  <2>1. OfVersion(t, spec)' /\ Complete(t)'
    BY <1>1, <1>4, <1>5, <1>6 DEF OfVersion, Complete
  <2> QED
    BY <2>1 DEF VersionOf
<1>7. CASE Untouched(t)
  <2>1. PICK own \in Templates : Copies(own)
    BY <1>1 DEF HandlerOK
  <2>2. /\ run.build.podAnnotations.val = own.podAnnotations
        /\ run.build.podTemplate.val = own.podTemplate
        /\ run.build.databaseVolumePath = own.databaseVolumePath
    BY <1>1, <2>1 DEF Copies
  <2>3. OwnMounts(run.build) = OwnMounts(own)
    BY <2>2 DEF OwnMounts
  <2>4. /\ FilledPod.annotations = own.podAnnotations
        /\ FilledPod.spec.volumes = Append(own.podTemplate.spec.volumes, "database")
        /\ \A i \in DOMAIN FilledPod.spec.containers :
              FilledPod.spec.containers[i].mounts
                = own.podTemplate.spec.containers[i].mounts \o OwnMounts(own)
    <3> DEFINE old == run.build.podTemplate.val.spec.containers
               new == FilledTemplate(run.build, run.task).spec.containers
    <3>1. /\ FilledPod.annotations = run.build.podAnnotations.val
          /\ FilledPod.spec.containers = new
          /\ FilledPod.spec.volumes = Append(run.build.podTemplate.val.spec.volumes, "database")
      BY <1>1, FilledPodIs
    <3>2. /\ DOMAIN new = DOMAIN old
          /\ \A i \in DOMAIN old : new[i].mounts = old[i].mounts \o OwnMounts(run.build)
      BY <1>1, FilledTemplateIs
    <3>3. old = own.podTemplate.spec.containers
      BY <2>2
    <3> HIDE DEF old, new
    <3>4. \A i \in DOMAIN new :
              new[i].mounts = own.podTemplate.spec.containers[i].mounts \o OwnMounts(own)
      BY <2>3, <3>2, <3>3
    <3> QED
      BY <2>2, <3>1, <3>4
  <2>5. pods'[t] = FilledPod /\ services'[t] = None /\ ingresses'[t] = None
    BY <1>1, <1>4, <1>7 DEF Untouched
  <2>6. OfVersion(t, own)'
    BY <2>4, <2>5 DEF OfVersion
  <2>7. InProgress(t, own)'
    BY <1>2, <1>4, <2>1, <2>5 DEF InProgress, RunOf
  <2> QED
    BY <2>6, <2>7 DEF VersionOf
<1>8. ~InProgress(t, spec)
  BY <1>1 DEF InProgress, RunOf
<1> QED
  BY <1>5, <1>6, <1>7, <1>8

LEMMA ServiceVersion ==
    ASSUME TypeOK, HandlerOK, CreateService, NEW t \in Tasks, VersionOf(t), t = run.task
    PROVE  VersionOf(t)'
<1>1. /\ run \in Run /\ run # None /\ run.step = "createService" /\ run.task \in Tasks
      /\ UNCHANGED <<tasks, pods, ingresses>> /\ services' = Makes(services, FilledService)
  BY CreateServiceEffect, NoneAssumption DEF Run
<1>2. /\ run' \in Run /\ run' # None /\ run'.task = t /\ run'.step = "createIngress"
      /\ \A spec : Copies(spec) => Copies(spec)'
  BY <1>1, MakingEffect, NoneAssumption DEF Making
<1>3. /\ FilledService \in ServiceSpec /\ None \notin ServiceSpec
      /\ FilledService.ports = run.build.service.val.ports
  BY <1>1, FilledServiceIs, NoneAssumption
<1>4. /\ services'[t] # None
      /\ services[t] = None => services'[t] = FilledService
      /\ services[t] # None => services'[t] = services[t]
  BY <1>1, <1>3, MakesIs DEF TypeOK
<1>5. PICK spec \in Templates :
          OfVersion(t, spec) /\ (Complete(t) \/ Untouched(t) \/ InProgress(t, spec))
  BY DEF VersionOf
<1>6. CASE Complete(t)
  <2>1. OfVersion(t, spec)' /\ Complete(t)'
    BY <1>1, <1>4, <1>5, <1>6 DEF OfVersion, Complete
  <2> QED
    BY <2>1 DEF VersionOf
<1>7. CASE InProgress(t, spec)
  <2>1. Copies(spec) /\ pods[t] # None /\ services[t] = None /\ ingresses[t] = None
    BY <1>1, <1>7 DEF InProgress
  <2>2. services'[t] = FilledService /\ FilledService.ports = spec.service.ports
    BY <1>3, <1>4, <2>1 DEF Copies
  <2>3. OfVersion(t, spec)'
    BY <1>1, <1>5, <2>2 DEF OfVersion
  <2>4. InProgress(t, spec)'
    BY <1>1, <1>2, <1>4, <2>1 DEF InProgress, RunOf
  <2> QED
    BY <2>3, <2>4 DEF VersionOf
<1>8. ~Untouched(t)
  BY <1>1 DEF Untouched, RunOf
<1> QED
  BY <1>5, <1>6, <1>7, <1>8

LEMMA IngressVersion ==
    ASSUME TypeOK, HandlerOK, CreateIngress, NEW t \in Tasks, VersionOf(t), t = run.task
    PROVE  VersionOf(t)'
<1>1. /\ run \in Run /\ run # None /\ run.step = "createIngress" /\ run.task \in Tasks
      /\ UNCHANGED <<tasks, pods, services>>
      /\ ingresses' = IF run.job.spec.domainName = Empty THEN ingresses
                      ELSE Makes(ingresses, FilledIngress)
  BY CreateIngressEffect, NoneAssumption DEF Run
<1>2. tasks[t] # None /\ run.job.spec.domainName = tasks[t].spec.domainName
  <2>1. run.job \in TaskObject
    BY <1>1 DEF Run
  <2>2. EncodedTask(run.job).spec.domainName = run.job.spec.domainName
    BY <2>1, EncodedTaskIs
  <2>3. tasks[t] # None /\ EncodedTask(run.job).spec = tasks[t].spec
    BY <1>1 DEF HandlerOK
  <2> QED
    BY <2>2, <2>3
<1>3. /\ FilledIngress \in Ingress /\ None \notin Ingress
      /\ FilledIngress.port = run.build.ingressTargetPort
      /\ FilledIngress.tls = run.build.ingressTLS
  BY <1>1, FilledIngressType, NoneAssumption DEF FilledIngress
<1>4. /\ tasks[t].spec.domainName = Empty => ingresses' = ingresses
      /\ tasks[t].spec.domainName # Empty =>
            /\ ingresses'[t] # None
            /\ ingresses[t] = None => ingresses'[t] = FilledIngress
            /\ ingresses[t] # None => ingresses'[t] = ingresses[t]
  BY <1>1, <1>2, <1>3, MakesIs DEF TypeOK
<1>5. PICK spec \in Templates :
          OfVersion(t, spec) /\ (Complete(t) \/ Untouched(t) \/ InProgress(t, spec))
  BY DEF VersionOf
<1>6. CASE Complete(t)
  <2>1. ingresses'[t] = ingresses[t]
    BY <1>4, <1>6 DEF Complete
  <2>2. OfVersion(t, spec)' /\ Complete(t)'
    BY <1>1, <1>5, <1>6, <2>1 DEF OfVersion, Complete
  <2> QED
    BY <2>2 DEF VersionOf
<1>7. CASE InProgress(t, spec)
  <2>1. Copies(spec) /\ pods[t] # None /\ services[t] # None /\ ingresses[t] = None
    BY <1>1, <1>7 DEF InProgress
  <2>2. ingresses'[t] \in {None, FilledIngress}
    BY <1>4, <2>1
  <2>3. FilledIngress.port = spec.ingressTargetPort /\ FilledIngress.tls = spec.ingressTLS
    BY <1>3, <2>1 DEF Copies
  <2>4. OfVersion(t, spec)'
    BY <1>1, <1>5, <2>2, <2>3 DEF OfVersion
  <2>5. Complete(t)'
    BY <1>1, <1>2, <1>4, <2>1 DEF Complete
  <2> QED
    BY <2>4, <2>5 DEF VersionOf
<1>8. ~Untouched(t)
  BY <1>1 DEF Untouched, RunOf
<1> QED
  BY <1>5, <1>6, <1>7, <1>8

LEMMA VersionsStep ==
    ASSUME TypeOK, HandlerOK, VersionsOK, Next
    PROVE  VersionsOK'
<1> SUFFICES ASSUME NEW t \in Tasks, t \notin interrupted'
             PROVE  VersionOf(t)'
  BY DEF VersionsOK, VersionOf
<1>1. interrupted \subseteq interrupted'
  BY EndEffect, SeeEffect DEF Next, EditBuild, CreateTask, Reconcile, CreatePod, CreateService,
                              CreateIngress, Announce
<1>2. VersionOf(t)
  BY <1>1 DEF VersionsOK, VersionOf
<1>3. CASE Making /\ t # run.task
  BY <1>2, <1>3, OtherKept
<1>4. CASE CreatePod /\ t = run.task
  BY <1>2, <1>4, PodVersion
<1>5. CASE CreateService /\ t = run.task
  BY <1>2, <1>5, ServiceVersion
<1>6. CASE CreateIngress /\ t = run.task
  BY <1>2, <1>6, IngressVersion
<1>7. CASE Announce
  <2>1. run.step = "announce" /\ UNCHANGED <<pods, services, ingresses>>
    BY <1>7, AnnounceEffect
  <2>2. run'.step = "updateStatus"
    BY <1>7, <2>1, MakingEffect DEF Making
  <2>3. ~RunOf(t, Creating) /\ ~RunOf(t, Creating)'
    BY <2>1, <2>2 DEF RunOf, Creating
  <2> QED
    BY <1>2, <2>1, <2>3, VersionKept
<1>8. ASSUME NEW u \in Tasks, Reconcile(u)
      PROVE  VersionOf(t)'
  <2>1. /\ run = None /\ run'.step \in {"createPod", "announce"}
        /\ UNCHANGED <<pods, services, ingresses>>
    BY <1>8, ReconcileEffect
  <2>2. ~RunOf(t, Creating) /\ ~RunOf(t, Creating)'
    BY <2>1 DEF RunOf, Creating
  <2> QED
    BY <1>2, <2>1, <2>2, VersionKept
<1>9. CASE UpdateStatus \/ Interrupt
  <2>1. run' = None /\ UNCHANGED <<pods, services, ingresses>>
    BY <1>9, EndEffect
  <2>2. ~RunOf(t, Creating)
    BY <1>9, EndEffect DEF RunOf, Creating
  <2>3. ~RunOf(t, Creating)'
    BY <2>1 DEF RunOf
  <2> QED
    BY <1>2, <2>1, <2>2, <2>3, VersionKept
<1>10. CASE UNCHANGED <<run, pods, services, ingresses>>
  BY <1>2, <1>10, VersionKept DEF RunOf
<1> QED
  BY <1>3, <1>4, <1>5, <1>6, <1>7, <1>8, <1>9, <1>10, SeeEffect
     DEF Next, Making, EditBuild, CreateTask

-----------------------------------------------------------------------------
(* The invariant, and what follows from it. *)

LEMMA Initial ==
    ASSUME Init
    PROVE  IInv
<1>1. TypeOK
  <2>1. stored \in EnvironmentBuildSpec
    BY TemplatesAssumption DEF Init
  <2>2. DecodedBuild(stored) \in BuildObject
    BY <2>1, DecodedBuildIs
  <2>3. cache \in [build : BuildObject, tasks : [Tasks -> TaskObject \union {None}]]
    BY <2>2 DEF Init
  <2> QED
    BY <2>1, <2>3 DEF Init, TypeOK
<1>2. CacheOK /\ HandlerOK /\ LabelsOK /\ PodsCarryOwnValues
  BY DEF Init, CacheOK, CacheIsStored, HandlerOK, LabelsOK, PodsCarryOwnValues
<1>3. ASSUME NEW t \in Tasks
      PROVE  OfVersion(t, stored) /\ Untouched(t)
  BY DEF Init, OfVersion, Untouched, RunOf
<1>4. VersionsOK
  BY <1>3 DEF Init, VersionsOK
<1> QED
  BY <1>1, <1>2, <1>4 DEF IInv

LEMMA Preserved ==
    ASSUME IInv, [Next]_vars
    PROVE  IInv'
<1>1. CASE Next
  BY <1>1, TypeStep, CacheStep, HandlerStep, LabelsStep, ValuesStep, VersionsStep DEF IInv
<1>2. CASE UNCHANGED vars
  <2>1. UNCHANGED vars /\ IInv
    BY <1>2
  <2>2. TypeOK' /\ LabelsOK' /\ PodsCarryOwnValues'
    BY <2>1 DEF vars, IInv, TypeOK, LabelsOK, PodsCarryOwnValues
  <2>3. CacheOK'
    BY <2>1 DEF vars, IInv, CacheOK, CacheIsStored
  <2>4. HandlerOK'
    BY <2>1 DEF vars, IInv, HandlerOK, Copies, Owns, EncodedTask
  <2>5. VersionsOK'
    <3>1. \A t \in Tasks : \A spec \in Templates :
              /\ OfVersion(t, spec)' = OfVersion(t, spec)
              /\ Complete(t)' = Complete(t) /\ Untouched(t)' = Untouched(t)
              /\ InProgress(t, spec)' = InProgress(t, spec)
      BY <2>1 DEF vars, OfVersion, Complete, Untouched, InProgress, RunOf, Copies
    <3>2. interrupted' = interrupted
      BY <2>1 DEF vars
    <3> QED
      BY <2>1, <3>1, <3>2 DEF IInv, VersionsOK
  <2> QED
    BY <2>2, <2>3, <2>4, <2>5 DEF IInv
<1> QED
  BY <1>1, <1>2

\* The whole invariant holds, for any builds and tasks: nothing a handler writes to
\* is the informer's, and what children a task has comes from one
\* version of the build that the handler still has (task_controller.go:149-178, 537-661).
THEOREM Inductive == Spec => []IInv
BY Initial, Preserved, PTL DEF Spec

\* Every object the controller makes is of the type the API server takes.
THEOREM Typing == Spec => []TypeOK
<1>1. IInv => TypeOK
  BY DEF IInv
<1> QED
  BY <1>1, Inductive, PTL

\* No handler writes into the informer cache, whatever builds and tasks are in it
\* and whenever the informer replaces them: every part a handler writes to is its
\* own, which the deep copies see to
\* (zz_generated.deepcopy.go:13-241; task_controller.go:244, 545-597, 651).
THEOREM CachesAreRead == Spec => []CacheIsStored
<1>1. IInv => CacheIsStored
  BY DEF IInv, CacheOK
<1> QED
  BY <1>1, Inductive, PTL

\* In pods of any number of containers with any variables of the users' own, the
\* token and the session that count are those of the pod's task
\* (task_controller.go:566-581).
THEOREM TokensAreOwn == Spec => []PodsCarryOwnValues
<1>1. IInv => PodsCarryOwnValues
  BY DEF IInv
<1> QED
  BY <1>1, Inductive, PTL

LEMMA LabelsSelect ==
    ASSUME TypeOK, LabelsOK
    PROVE  ServicesSelectOwnPods
<1> SUFFICES ASSUME NEW t \in Tasks, NEW u \in Tasks, services[t] # None, pods[u] # None
             PROVE  /\ Selects(services[t].selector, pods[u]) => t = u
                    /\ t = u /\ DOMAIN services[t].selector = {"opsmate.io/task"}
                         => Selects(services[t].selector, pods[u])
  BY DEF ServicesSelectOwnPods
<1>1. /\ "opsmate.io/task" \in DOMAIN services[t].selector
      /\ services[t].selector["opsmate.io/task"] = t
      /\ "opsmate.io/task" \in DOMAIN pods[u].labels
      /\ pods[u].labels["opsmate.io/task"] = u
  BY DEF LabelsOK, Labelled
<1> QED
  BY <1>1 DEF Selects

\* A service reaches the pod of its own task and of no other, whatever selector the
\* build has (task_controller.go:537-564, 647-651).
THEOREM ServicesReachOwnPods == Spec => []ServicesSelectOwnPods
<1>1. IInv => ServicesSelectOwnPods
  BY LabelsSelect DEF IInv
<1> QED
  BY <1>1, Inductive, PTL

\* However often users edit the build, and whatever the controller does for other
\* tasks meanwhile, a task no run of which ended early gets a pod, a service and an
\* ingress that fit each other (task_controller.go:149-178).
THEOREM ChildrenFit == Spec => []ChildrenAreOfOneVersion
<1>1. IInv => ChildrenAreOfOneVersion
  BY DEF IInv, VersionsOK, ChildrenAreOfOneVersion
<1> QED
  BY <1>1, Inductive, PTL
=============================================================================
