--------------------------- MODULE OperatorProofs ---------------------------
(***************************************************************************)
(* Proofs about Operator, for any number of builds, tasks, managers,       *)
(* services and clients, and any bounds.                                   *)
(***************************************************************************)
EXTENDS Operator, FiniteSetTheorems, SequenceTheorems, TLAPS

-----------------------------------------------------------------------------
(* Counting tasks. *)

LEMMA NumberType ==
    ASSUME NEW ts, NEW b
    PROVE  Number(ts, b) \in Nat
<1>1. Indexed(ts, b) \in SUBSET Tasks
  BY DEF Indexed
<1> QED
  BY <1>1, FS_Subset, FS_CardinalityType, NamesAssumption DEF Number

\* Only tasks whose reference to b comes or goes change the number of b.
LEMMA NumberSame ==
    ASSUME NEW ts, NEW us, NEW b, \A t \in Tasks : ts[t] = b <=> us[t] = b
    PROVE  Number(ts, b) = Number(us, b)
<1>1. Indexed(ts, b) = Indexed(us, b)
  BY DEF Indexed
<1> QED
  BY <1>1 DEF Number

LEMMA NoTasksNumber ==
    ASSUME NEW b \in Builds
    PROVE  Number(NoTasks, b) = 0
<1>1. Indexed(NoTasks, b) = {}
  BY NamesAssumption DEF Indexed, NoTasks
<1> QED
  BY <1>1, FS_EmptySet DEF Number

-----------------------------------------------------------------------------
(* Versions of builds. *)

LEMMA BuildTypes ==
    /\ NoBuild \in Build
    /\ \A body \in BuildBody : NewBuild(body) \in Build
    /\ \A o \in Build, n \in Nat : [o EXCEPT !.count = n] \in Build
    /\ \A o \in Build, s \in BuildSpecs \union {"none"} : [o EXCEPT !.spec = s] \in Build
BY DEF Build, NoBuild, NewBuild, BuildBody

\* Every step stores new versions or none.
Grows == \A b \in Builds : builds'[b] = builds[b] \/ builds'[b].rv = builds[b].rv + 1

LEMMA BuildStored ==
    ASSUME builds \in [Builds -> Build], NEW b \in Builds, NEW new \in Build,
           StoreBuild(b, new)
    PROVE  /\ builds' \in [Builds -> Build]
           /\ Grows
           /\ \A c \in Builds \ {b} : builds'[c] = builds[c]
           /\ builds'[b].there = new.there
           /\ builds'[b].spec = new.spec
           /\ builds'[b].count = new.count
<1>1. CASE [new EXCEPT !.rv = builds[b].rv] = builds[b]
  <2>1. builds' = builds
    BY <1>1 DEF StoreBuild
  <2>2. /\ builds[b].there = new.there
        /\ builds[b].spec = new.spec
        /\ builds[b].count = new.count
    BY <1>1 DEF Build
  <2> QED
    BY <2>1, <2>2 DEF Grows
<1>2. CASE [new EXCEPT !.rv = builds[b].rv] # builds[b]
  <2> DEFINE n == [new EXCEPT !.rv = builds[b].rv + 1]
  <2>1. builds' = [builds EXCEPT ![b] = n]
    BY <1>2 DEF StoreBuild
  <2>2. /\ n \in Build
        /\ n.rv = builds[b].rv + 1
        /\ n.there = new.there /\ n.spec = new.spec /\ n.count = new.count
    BY DEF Build
  <2> HIDE DEF n
  <2> QED
    BY <2>1, <2>2 DEF Grows
<1> QED
  BY <1>1, <1>2

LEMMA EarlierKept ==
    ASSUME builds \in [Builds -> Build], Grows, NEW b \in Builds, NEW v \in Build, Earlier(v, b)
    PROVE  Earlier(v, b)'
<1>1. builds[b].rv \in Nat /\ v.rv \in Nat
  BY DEF Build
<1> QED
  BY <1>1 DEF Earlier, Grows

-----------------------------------------------------------------------------
(* Routes and answers. *)

LEMMA AnswersOfRoute ==
    /\ Answers["GetEnvironmentBuilds"] = {200, 404, 500}
    /\ Answers["GetEnvironmentBuild"] = {200, 404, 500}
    /\ Answers["CreateEnvironmentBuild"] = {201, 400}
    /\ Answers["UpdateEnvironmentBuild"] = {200, 400, 404}
    /\ Answers["DeleteEnvironmentBuild"] = {200, 400, 404}
    /\ Answers["CreateTask"] = {201, 400}
    /\ Answers["GetTask"] = {200, 404, 500}
    /\ Answers["DeleteTask"] = {200, 400, 404}
    /\ Answers["Healthz"] = {200}
<1>1. \A op \in BuildRoutes : Answers[op] = BuildAnswers[op]
  BY DEF Answers, Routes, BuildRoutes, TaskRoutes
<1>2. \A op \in TaskRoutes : Answers[op] = TaskAnswers[op]
  BY DEF Answers, Routes, BuildRoutes, TaskRoutes
<1>3. Answers["Healthz"] = HealthAnswers["Healthz"]
  BY DEF Answers, Routes, BuildRoutes, TaskRoutes
<1> QED
  BY <1>1, <1>2, <1>3 DEF BuildRoutes, TaskRoutes, BuildAnswers, TaskAnswers, HealthAnswers

Statuses == {200, 201, 400, 404, 500}

LEMMA OneStatus ==
    \A code \in Statuses : /\ <<code>> \in Seq(Statuses) /\ Len(<<code>>) = 1
                           /\ <<code>>[1] = code /\ <<code>> # <<>>
                           /\ <<code, code>> \in Seq(Statuses)
                           /\ <<code, code>>[1] = code /\ <<code, code>> # <<>>
OBVIOUS

-----------------------------------------------------------------------------
(* Requests. *)

\* A handler that goes on to a call: its name and body.
Callable(op, name, body) ==
    \/ /\ op \in BuildWrites
       /\ name \in Builds
       /\ op # "DeleteEnvironmentBuild" => body \in BuildBody
    \/ /\ op \in TaskWrites
       /\ name \in Tasks
       /\ op = "CreateTask" => body \in TaskBody

\* An answer of op.
Documented(op, codes) ==
    /\ \/ codes[1] \in Answers[op]
       \/ op = "UpdateEnvironmentBuild" /\ codes[1] = 500
    /\ Len(codes) = 1 \/ op = "GetTask"

\* What the first step of a handler makes of the request of c.
Proper(c, r) ==
    /\ r \in [op : Routes, name : Builds \union Tasks \union {Unnamed},
              body : BuildBody \union TaskBody \union {Malformed},
              seen : Build, codes : Seq(Statuses)]
    /\ r.codes = <<>> =>
          /\ Callable(r.op, r.name, r.body)
          /\ r.op = "UpdateEnvironmentBuild" => r.seen = cbuilds[Server[c]][r.name]
    /\ r.codes # <<>> => Documented(r.op, r.codes)

MayFault == Fault \/ UNCHANGED faults

Requested(c, r) ==
    /\ Server[c] \in watching
    /\ req[c] = Quiet
    /\ req' = [req EXCEPT ![c] = r]
    /\ Act
    /\ UNCHANGED <<builds, tasks, cacheVars, feed>>
    /\ MayFault

Ask(c) == \/ \E b \in Builds : BuildRequest(c, b)
          \/ \E t \in Tasks : TaskRequest(c, t)
          \/ Healthz(c)
          \/ GetEnvironmentBuilds(c)

LEMMA CachedGetStatus ==
    ASSUME NEW kind, NEW found, NEW got, CachedGet(kind, found, got)
    PROVE  got \in {200, 404, 500} /\ MayFault
BY DEF CachedGet, MayFault

\* A request answered at once.
LEMMA AnsweredRequest ==
    ASSUME NEW c, NEW op \in Routes, NEW name \in Builds \union Tasks \union {Unnamed},
           NEW body \in BuildBody \union TaskBody \union {Malformed},
           NEW code \in Statuses,
           code \in Answers[op] \/ (op = "UpdateEnvironmentBuild" /\ code = 500),
           Request(c, op, name, body, NoBuild, <<code>>), MayFault
    PROVE  \E r : Proper(c, r) /\ Requested(c, r)
<1> DEFINE r == [op |-> op, name |-> name, body |-> body, seen |-> NoBuild, codes |-> <<code>>]
<1>1. Requested(c, r)
  BY DEF Requested, Request
<1>2. Documented(op, <<code>>)
  BY OneStatus DEF Documented
<1>3. Proper(c, r)
  BY <1>2, OneStatus, BuildTypes DEF Proper
<1> QED
  BY <1>1, <1>3

\* A request with a call to come.
LEMMA CallingRequest ==
    ASSUME NEW c, NEW op, NEW name,
           NEW body \in BuildBody \union TaskBody \union {Malformed}, NEW seen \in Build,
           Callable(op, name, body),
           op = "UpdateEnvironmentBuild" => seen = cbuilds[Server[c]][name],
           Request(c, op, name, body, seen, <<>>), MayFault
    PROVE  \E r : Proper(c, r) /\ Requested(c, r)
<1> DEFINE r == [op |-> op, name |-> name, body |-> body, seen |-> seen, codes |-> <<>>]
<1>1. Requested(c, r)
  BY DEF Requested, Request
<1>2. op \in Routes /\ name \in Builds \union Tasks \union {Unnamed}
  BY DEF Callable, BuildWrites, TaskWrites, Routes, BuildRoutes, TaskRoutes
<1>3. Proper(c, r)
  BY <1>2, EmptySeq DEF Proper
<1> QED
  BY <1>1, <1>3

LEMMA BuildRequestIsProper ==
    ASSUME TypeOK, NEW c \in Clients, NEW b \in Builds, BuildRequest(c, b)
    PROVE  \E r : Proper(c, r) /\ Requested(c, r)
<1>r. BuildRoutes \subseteq Routes
  BY DEF Routes
<1>s. cbuilds[Server[c]][b] \in Build
  BY ApiAssumption DEF TypeOK, StoreTypeOK, Processes
<1>1. ASSUME NEW body \in BuildBody \union {Malformed}, CreateEnvironmentBuild(c, b, body)
      PROVE  \E r : Proper(c, r) /\ Requested(c, r)
  <2>0. MayFault
    BY <1>1 DEF CreateEnvironmentBuild, MayFault
  <2>1. CASE ~Binds(body)
    <3>1. Request(c, "CreateEnvironmentBuild", b, body, NoBuild, <<400>>)
      BY <1>1, <2>1 DEF CreateEnvironmentBuild
    <3>2. "CreateEnvironmentBuild" \in Routes /\ 400 \in Answers["CreateEnvironmentBuild"]
      BY <1>r, AnswersOfRoute DEF BuildRoutes
    <3> QED
      BY <2>0, <3>1, <3>2, AnsweredRequest DEF Statuses
  <2>2. CASE Binds(body)
    <3>1. Callable("CreateEnvironmentBuild", b, body)
      BY <2>2 DEF Callable, BuildWrites, Binds
    <3>2. Request(c, "CreateEnvironmentBuild", b, body, NoBuild, <<>>)
      BY <1>1, <2>2 DEF CreateEnvironmentBuild
    <3> QED
      BY <2>0, <3>1, <3>2, BuildTypes, CallingRequest
  <2> QED
    BY <2>1, <2>2
<1>2. ASSUME NEW body \in BuildBody \union {Malformed}, UpdateEnvironmentBuild(c, b, body)
      PROVE  \E r : Proper(c, r) /\ Requested(c, r)
  <2>1. \/ /\ MayFault
           /\ \E code \in {400, 404, 500} :
                 Request(c, "UpdateEnvironmentBuild", b, body, NoBuild, <<code>>)
        \/ /\ MayFault /\ Binds(body)
           /\ Request(c, "UpdateEnvironmentBuild", b, body, cbuilds[Server[c]][b], <<>>)
    BY <1>2 DEF UpdateEnvironmentBuild, CachedGet, MayFault
  <2>2. ASSUME MayFault, NEW code \in {400, 404, 500},
               Request(c, "UpdateEnvironmentBuild", b, body, NoBuild, <<code>>)
        PROVE  \E r : Proper(c, r) /\ Requested(c, r)
    <3>1. /\ "UpdateEnvironmentBuild" \in Routes /\ code \in Statuses
          /\ code \in Answers["UpdateEnvironmentBuild"] \/ code = 500
      BY <1>r, AnswersOfRoute DEF BuildRoutes, Statuses
    <3> QED
      BY <2>2, <3>1, AnsweredRequest
  <2>3. ASSUME MayFault, Binds(body),
               Request(c, "UpdateEnvironmentBuild", b, body, cbuilds[Server[c]][b], <<>>)
        PROVE  \E r : Proper(c, r) /\ Requested(c, r)
    <3>1. Callable("UpdateEnvironmentBuild", b, body)
      BY <2>3 DEF Callable, BuildWrites, Binds
    <3> QED
      BY <1>s, <2>3, <3>1, CallingRequest
  <2> QED
    BY <2>1, <2>2, <2>3
<1>3. ASSUME GetEnvironmentBuild(c, b)
      PROVE  \E r : Proper(c, r) /\ Requested(c, r)
  <2>1. PICK got \in {200, 404, 500} :
            /\ MayFault
            /\ Request(c, "GetEnvironmentBuild", b, Malformed, NoBuild, <<got>>)
    BY <1>3, CachedGetStatus DEF GetEnvironmentBuild
  <2>2. /\ "GetEnvironmentBuild" \in Routes /\ got \in Statuses
        /\ got \in Answers["GetEnvironmentBuild"]
    BY <1>r, AnswersOfRoute DEF BuildRoutes, Statuses
  <2> QED
    BY <2>1, <2>2, AnsweredRequest
<1>4. ASSUME DeleteEnvironmentBuild(c, b)
      PROVE  \E r : Proper(c, r) /\ Requested(c, r)
  <2>1. Callable("DeleteEnvironmentBuild", b, Malformed)
    BY DEF Callable, BuildWrites
  <2>2. Request(c, "DeleteEnvironmentBuild", b, Malformed, NoBuild, <<>>) /\ MayFault
    BY <1>4 DEF DeleteEnvironmentBuild, MayFault
  <2> QED
    BY <2>1, <2>2, BuildTypes, CallingRequest
<1> QED
  BY <1>1, <1>2, <1>3, <1>4 DEF BuildRequest

LEMMA TaskRequestIsProper ==
    ASSUME NEW c \in Clients, NEW t \in Tasks, TaskRequest(c, t)
    PROVE  \E r : Proper(c, r) /\ Requested(c, r)
<1>r. TaskRoutes \subseteq Routes
  BY DEF Routes
<1>1. ASSUME NEW body \in TaskBody \union {Malformed}, CreateTask(c, t, body)
      PROVE  \E r : Proper(c, r) /\ Requested(c, r)
  <2>0. MayFault
    BY <1>1 DEF CreateTask, MayFault
  <2>1. CASE ~Binds(body)
    <3>1. Request(c, "CreateTask", t, body, NoBuild, <<400>>)
      BY <1>1, <2>1 DEF CreateTask
    <3>2. "CreateTask" \in Routes /\ 400 \in Answers["CreateTask"]
      BY <1>r, AnswersOfRoute DEF TaskRoutes
    <3> QED
      BY <2>0, <3>1, <3>2, AnsweredRequest DEF Statuses
  <2>2. CASE Binds(body)
    <3>1. Callable("CreateTask", t, body)
      BY <2>2 DEF Callable, TaskWrites, Binds
    <3>2. Request(c, "CreateTask", t, body, NoBuild, <<>>)
      BY <1>1, <2>2 DEF CreateTask
    <3> QED
      BY <2>0, <3>1, <3>2, BuildTypes, CallingRequest
  <2> QED
    BY <2>1, <2>2
<1>2. ASSUME GetTask(c, t)
      PROVE  \E r : Proper(c, r) /\ Requested(c, r)
  <2> DEFINE R(codes) == [op |-> "GetTask", name |-> t, body |-> Malformed, seen |-> NoBuild,
                          codes |-> codes]
  <2>1. PICK got \in {200, 404, 500} :
            /\ MayFault
            /\ \E codes \in {<<got>>, <<got, got>>} :
                    Request(c, "GetTask", t, Malformed, NoBuild, codes)
    BY <1>2, CachedGetStatus DEF GetTask
  <2>2. PICK codes \in {<<got>>, <<got, got>>} :
            Request(c, "GetTask", t, Malformed, NoBuild, codes)
    BY <2>1
  <2>3. codes \in Seq(Statuses) /\ codes # <<>> /\ codes[1] = got
    <3>1. got \in Statuses
      BY DEF Statuses
    <3>2. CASE codes = <<got>>
      BY <3>1, <3>2, OneStatus
    <3>3. CASE codes = <<got, got>>
      BY <3>1, <3>3, OneStatus
    <3> QED
      BY <2>2, <3>2, <3>3
  <2>4. Requested(c, R(codes))
    BY <2>1, <2>2 DEF Requested, Request
  <2>5. "GetTask" \in Routes /\ Documented("GetTask", codes)
    BY <1>r, <2>3, AnswersOfRoute DEF Documented, TaskRoutes
  <2>6. Proper(c, R(codes))
    BY <2>3, <2>5, BuildTypes DEF Proper
  <2> QED
    BY <2>4, <2>6
<1>3. ASSUME DeleteTask(c, t)
      PROVE  \E r : Proper(c, r) /\ Requested(c, r)
  <2>1. Callable("DeleteTask", t, Malformed)
    BY DEF Callable, TaskWrites
  <2>2. Request(c, "DeleteTask", t, Malformed, NoBuild, <<>>) /\ MayFault
    BY <1>3 DEF DeleteTask, MayFault
  <2> QED
    BY <2>1, <2>2, BuildTypes, CallingRequest
<1> QED
  BY <1>1, <1>2, <1>3 DEF TaskRequest

LEMMA AskIsProper ==
    ASSUME TypeOK, NEW c \in Clients, Ask(c)
    PROVE  \E r : Proper(c, r) /\ Requested(c, r)
<1>1. ASSUME Healthz(c)
      PROVE  \E r : Proper(c, r) /\ Requested(c, r)
  <2>1. Request(c, "Healthz", Unnamed, Malformed, NoBuild, <<200>>) /\ MayFault
    BY <1>1 DEF Healthz, MayFault
  <2>2. "Healthz" \in Routes /\ 200 \in Statuses /\ 200 \in Answers["Healthz"]
    BY AnswersOfRoute DEF Routes, Statuses
  <2> QED
    BY <2>1, <2>2, AnsweredRequest
<1>2. ASSUME GetEnvironmentBuilds(c)
      PROVE  \E r : Proper(c, r) /\ Requested(c, r)
  <2>1. PICK got \in {200, 404, 500} :
            /\ MayFault
            /\ Request(c, "GetEnvironmentBuilds", Unnamed, Malformed, NoBuild, <<got>>)
    BY <1>2 DEF GetEnvironmentBuilds, CachedGet, MayFault
  <2>2. /\ "GetEnvironmentBuilds" \in Routes /\ got \in Statuses
        /\ got \in Answers["GetEnvironmentBuilds"]
    BY AnswersOfRoute DEF Routes, BuildRoutes, Statuses
  <2> QED
    BY <2>1, <2>2, AnsweredRequest
<1> QED
  BY <1>1, <1>2, BuildRequestIsProper, TaskRequestIsProper DEF Ask

-----------------------------------------------------------------------------
(* What a step does to the objects of the API server. *)

Creates(b) == /\ ~builds[b].there
              /\ \E body \in BuildBody : StoreBuild(b, NewBuild(body))
Deletes(b) == StoreBuild(b, NoBuild)
Respecs(b) == /\ builds[b].there
              /\ \E s \in BuildSpecs : StoreBuild(b, [builds[b] EXCEPT !.spec = s])
Recounts(b, n) == /\ builds[b].there
                  /\ StoreBuild(b, [builds[b] EXCEPT !.count = n])

\* A user's write, through the service or not.
UserWrite == \/ \E b \in Builds : Creates(b) \/ Deletes(b) \/ Respecs(b)
             \/ UNCHANGED builds

TaskWrite == \/ \E t \in Tasks, ref \in TaskRefs : StoreTask(t, ref)
             \/ UNCHANGED <<tasks, feed>>

\* A status write of w, made or not.
StatusWrite(w) == \/ Accepted(w.name, w.obj) /\ Recounts(w.name, w.obj.count)
                  \/ UNCHANGED builds

LEMMA UserWriteTypes ==
    ASSUME builds \in [Builds -> Build], UserWrite
    PROVE  builds' \in [Builds -> Build] /\ Grows
<1>1. ASSUME NEW b \in Builds, NEW new \in Build, StoreBuild(b, new)
      PROVE  builds' \in [Builds -> Build] /\ Grows
  BY <1>1, BuildStored
<1>2. ASSUME NEW b \in Builds, Respecs(b)
      PROVE  builds' \in [Builds -> Build] /\ Grows
  <2>1. PICK s \in BuildSpecs : StoreBuild(b, [builds[b] EXCEPT !.spec = s])
    BY <1>2 DEF Respecs
  <2>2. builds[b] \in Build
    OBVIOUS
  <2>3. [builds[b] EXCEPT !.spec = s] \in Build
    BY <2>2, BuildTypes
  <2> QED
    BY <1>1, <2>1, <2>3
<1>3. CASE UNCHANGED builds
  BY <1>3 DEF Grows
<1> QED
  BY <1>1, <1>2, <1>3, BuildTypes DEF UserWrite, Creates, Deletes

LEMMA StatusWriteTypes ==
    ASSUME builds \in [Builds -> Build], NEW w \in Write, StatusWrite(w)
    PROVE  builds' \in [Builds -> Build] /\ Grows
<1>1. w.name \in Builds /\ w.obj.count \in Nat
  BY DEF Write, Build
<1>2. [builds[w.name] EXCEPT !.count = w.obj.count] \in Build
  BY <1>1, BuildTypes
<1>3. CASE UNCHANGED builds
  BY <1>3 DEF Grows
<1> QED
  BY <1>1, <1>2, <1>3, BuildStored DEF StatusWrite, Recounts

LEMMA TaskWriteTypes ==
    ASSUME tasks \in [Tasks -> TaskRefs],
           feed \in [Managers -> Seq([task : Tasks, ref : TaskRefs])], TaskWrite
    PROVE  /\ tasks' \in [Tasks -> TaskRefs]
           /\ feed' \in [Managers -> Seq([task : Tasks, ref : TaskRefs])]
<1>1. ASSUME NEW t \in Tasks, NEW ref \in TaskRefs, StoreTask(t, ref)
      PROVE  /\ tasks' \in [Tasks -> TaskRefs]
             /\ feed' \in [Managers -> Seq([task : Tasks, ref : TaskRefs])]
  <2> DEFINE e == [task |-> t, ref |-> ref]
  <2>1. e \in [task : Tasks, ref : TaskRefs]
    OBVIOUS
  <2> HIDE DEF e
  <2>2. \A m \in Managers : Append(feed[m], e) \in Seq([task : Tasks, ref : TaskRefs])
    BY <2>1, AppendProperties
  <2>3. feed' = [m \in Managers |-> IF m \in watching THEN Append(feed[m], e) ELSE feed[m]]
    BY <1>1 DEF StoreTask, e
  <2> QED
    BY <1>1, <2>2, <2>3 DEF StoreTask
<1> QED
  BY <1>1 DEF TaskWrite

LEMMA CallWrites ==
    ASSUME TypeOK, CallsOK, NEW c \in Clients, Calling(c), Possible(req[c]), Effect(req[c])
    PROVE  /\ UserWrite /\ TaskWrite
           /\ UNCHANGED builds \/ UNCHANGED <<tasks, feed>>
<1> DEFINE r == req[c]
<1>1. CASE r.op = "CreateEnvironmentBuild"
  <2>1. Creates(r.name) /\ r.name \in Builds /\ UNCHANGED <<tasks, feed>>
    BY <1>1 DEF CallsOK, BuildWrites, TaskWrites, Possible, Effect, Creates
  <2> QED
    BY <2>1 DEF UserWrite, TaskWrite
<1>2. CASE r.op = "UpdateEnvironmentBuild"
  <2>1. /\ r.name \in Builds /\ r.body.spec \in BuildSpecs
        /\ builds[r.name].there
        /\ StoreSpec(r.name, Sent(r))
        /\ UNCHANGED <<tasks, feed>>
    BY <1>2 DEF CallsOK, BuildWrites, TaskWrites, BuildBody, Possible, Effect, Accepted
  <2>2. Sent(r).spec = r.body.spec
    <3>1. r.seen \in Build
      BY DEF TypeOK, ApiTypeOK
    <3> QED
      BY <3>1 DEF Sent, Build
  <2>3. Respecs(r.name)
    BY <2>1, <2>2 DEF Respecs, StoreSpec
  <2> QED
    BY <2>1, <2>3 DEF UserWrite, TaskWrite
<1>3. CASE r.op = "DeleteEnvironmentBuild"
  <2>1. Deletes(r.name) /\ r.name \in Builds /\ UNCHANGED <<tasks, feed>>
    BY <1>3 DEF CallsOK, BuildWrites, TaskWrites, Effect, Deletes
  <2> QED
    BY <2>1 DEF UserWrite, TaskWrite
<1>4. CASE r.op \in TaskWrites
  <2>1. /\ r.name \in Tasks
        /\ \E ref \in TaskRefs : StoreTask(r.name, ref)
        /\ UNCHANGED builds
    BY <1>4 DEF CallsOK, BuildWrites, TaskWrites, Effect, TaskRefs, TaskBody
  <2> QED
    BY <2>1 DEF UserWrite, TaskWrite
<1> QED
  BY <1>1, <1>2, <1>3, <1>4 DEF CallsOK, BuildWrites

LEMMA KubectlWrites ==
    ASSUME TypeOK, Kubectl
    PROVE  /\ UserWrite /\ TaskWrite
           /\ UNCHANGED builds \/ UNCHANGED <<tasks, feed>>
<1>1. ASSUME NEW t \in Tasks, NEW ref \in TaskRefs, EditTask(t, ref)
      PROVE  UserWrite /\ TaskWrite /\ UNCHANGED builds
  BY <1>1 DEF EditTask, UserWrite, TaskWrite
<1>2. ASSUME NEW b \in Builds, EditBuild(b)
      PROVE  UserWrite /\ TaskWrite /\ UNCHANGED <<tasks, feed>>
  BY <1>2 DEF EditBuild, UserWrite, TaskWrite, Creates, Deletes
<1> QED
  BY <1>1, <1>2 DEF Kubectl

LEMMA UpdateStatusWrites ==
    ASSUME TypeOK, NEW m \in Managers, UpdateStatus(m)
    PROVE  /\ work[m] \in Write
           /\ StatusWrite(work[m])
           /\ UNCHANGED <<tasks, feed>>
<1>1. work[m] \in Write
  BY DEF UpdateStatus, Busy, TypeOK, ControllerTypeOK
<1> QED
  BY <1>1 DEF UpdateStatus, StatusWrite, Recounts, Accepted, StoreStatus
LEMMA LandStatusWrites ==
    ASSUME TypeOK, NEW w \in adrift, LandStatus(w)
    PROVE  /\ w \in Write
           /\ StatusWrite(w)
           /\ UNCHANGED <<tasks, feed>>
BY DEF LandStatus, StatusWrite, Recounts, Accepted, StoreStatus, TypeOK, ControllerTypeOK

-----------------------------------------------------------------------------
(* Types. *)

\* What a step makes of the objects, if it leaves the caches.
LEMMA WriteTypes ==
    ASSUME StoreTypeOK, UserWrite \/ \E w \in Write : StatusWrite(w), TaskWrite,
           UNCHANGED cacheVars, faults' \in Nat
    PROVE  StoreTypeOK' /\ Grows
<1>1. builds' \in [Builds -> Build] /\ Grows
  BY UserWriteTypes, StatusWriteTypes DEF StoreTypeOK
<1>2. /\ tasks' \in [Tasks -> TaskRefs]
      /\ feed' \in [Managers -> Seq([task : Tasks, ref : TaskRefs])]
  BY TaskWriteTypes DEF StoreTypeOK
<1> QED
  BY <1>1, <1>2 DEF StoreTypeOK, cacheVars

LEMMA FaultType ==
    ASSUME StoreTypeOK, Fault \/ UNCHANGED faults
    PROVE  faults' \in Nat
BY DEF StoreTypeOK, Fault

LEMMA NoTypes ==
    /\ NoBuilds \in [Builds -> Build]
    /\ NoTasks \in [Tasks -> TaskRefs]
BY BuildTypes DEF NoBuilds, NoTasks, TaskRefs

LEMMA WatchTypes ==
    ASSUME StoreTypeOK, NEW p \in Processes, Watch(p), UNCHANGED faults
    PROVE  StoreTypeOK'
BY DEF Watch, StoreTypeOK

LEMMA UnwatchTypes ==
    ASSUME StoreTypeOK, NEW p \in Processes, Unwatch(p), Fault
    PROVE  StoreTypeOK'
<1>1. \A m \in Managers : <<>> \in Seq([task : Tasks, ref : TaskRefs])
  BY EmptySeq
<1>2. feed' \in [Managers -> Seq([task : Tasks, ref : TaskRefs])]
  BY <1>1 DEF Unwatch, StoreTypeOK
<1>3. faults' \in Nat
  BY FaultType
<1> QED
  BY <1>2, <1>3, NoTypes DEF Unwatch, StoreTypeOK

LEMMA ReceiveBuildTypes ==
    ASSUME StoreTypeOK, NEW p \in Processes, NEW b \in Builds, ReceiveBuild(p, b)
    PROVE  StoreTypeOK'
BY DEF ReceiveBuild, StoreTypeOK

LEMMA ReceiveTaskTypes ==
    ASSUME StoreTypeOK, NEW p \in Processes, NEW t \in Tasks, ReceiveTask(p, t)
    PROVE  StoreTypeOK'
BY DEF ReceiveTask, StoreTypeOK

LEMMA ReceiveInOrderTypes ==
    ASSUME StoreTypeOK, NEW m \in Managers, ReceiveInOrder(m)
    PROVE  StoreTypeOK'
<1>1. feed[m] \in Seq([task : Tasks, ref : TaskRefs]) /\ feed[m] # <<>>
  BY DEF ReceiveInOrder, StoreTypeOK
<1>2. /\ Head(feed[m]) \in [task : Tasks, ref : TaskRefs]
      /\ Tail(feed[m]) \in Seq([task : Tasks, ref : TaskRefs])
  BY <1>1, HeadTailProperties
<1>3. Head(feed[m]).task \in Tasks /\ Head(feed[m]).ref \in TaskRefs
  BY <1>2
<1>4. ctasks' \in [Processes -> [Tasks -> TaskRefs]]
  BY <1>3 DEF ReceiveInOrder, StoreTypeOK
<1>5. feed' \in [Managers -> Seq([task : Tasks, ref : TaskRefs])]
  BY <1>2 DEF ReceiveInOrder, StoreTypeOK
<1> QED
  BY <1>4, <1>5 DEF ReceiveInOrder, StoreTypeOK

\* What a manager leaves in its variables.
LEMMA ControllerTypes ==
    ASSUME TypeOK, NEW m \in Managers,
           NEW q, q \subseteq Requests, NEW d, d \subseteq Requests,
           NEW w, w \in Write \union {Idle},
           lead' = lead, watching' = watching, adrift' = adrift,
           queue' = [queue EXCEPT ![m] = q],
           timer' = [timer EXCEPT ![m] = d],
           work' = [work EXCEPT ![m] = w]
    PROVE  ControllerTypeOK'
BY DEF TypeOK, ControllerTypeOK

LEMMA ReconcileTypes ==
    ASSUME TypeOK, NEW m \in Managers, NEW b \in Requests, Reconcile(m, b)
    PROVE  StoreTypeOK' /\ ControllerTypeOK'
<1>1. StoreTypeOK'
  BY DEF Reconcile, TypeOK, StoreTypeOK, storeVars
<1>2. /\ queue[m] \ {b} \subseteq Requests
      /\ queue' = [queue EXCEPT ![m] = queue[m] \ {b}]
      /\ timer[m] \subseteq Requests
      /\ timer' = [timer EXCEPT ![m] = timer[m]]
      /\ lead' = lead /\ watching' = watching /\ adrift' = adrift
  BY DEF Reconcile, TypeOK, ControllerTypeOK, storeVars
<1>3. PICK w \in Write \union {Idle} : work' = [work EXCEPT ![m] = w]
  <2>1. CASE UNCHANGED work
    <3>1. work[m] \in Write \union {Idle} /\ work' = [work EXCEPT ![m] = work[m]]
      BY <2>1 DEF TypeOK, ControllerTypeOK
    <3> QED
      BY <3>1
  <2>2. CASE ~UNCHANGED work
    <3> DEFINE o == [cbuilds[m][b] EXCEPT !.count = Number(ctasks[m], b)]
    <3>1. b \in Builds /\ work' = [work EXCEPT ![m] = [name |-> b, obj |-> o]]
      BY <2>2 DEF Reconcile, Requests
    <3>2. cbuilds[m][b] \in Build
      BY <3>1 DEF TypeOK, StoreTypeOK, Processes
    <3>3. o \in Build
      BY <3>2, NumberType, BuildTypes
    <3> HIDE DEF o
    <3>4. [name |-> b, obj |-> o] \in Write
      BY <3>1, <3>3 DEF Write
    <3> QED
      BY <3>1, <3>4
  <2> QED
    BY <2>1, <2>2
<1> QED
  BY <1>1, <1>2, <1>3, ControllerTypes

LEMMA UpdateStatusTypes ==
    ASSUME TypeOK, NEW m \in Managers, UpdateStatus(m)
    PROVE  StoreTypeOK' /\ ControllerTypeOK' /\ Grows
<1>1. work[m] \in Write /\ StatusWrite(work[m]) /\ UNCHANGED <<tasks, feed>>
  BY UpdateStatusWrites
<1>2. StoreTypeOK' /\ Grows
  <2>1. faults' \in Nat
    BY FaultType DEF UpdateStatus, TypeOK
  <2> QED
    BY <1>1, <2>1, WriteTypes DEF UpdateStatus, TypeOK, TaskWrite
<1>3. PICK again \in SUBSET {work[m].name} : Finish(m, again)
  BY DEF UpdateStatus
<1>4. timer[m] \union again \subseteq Requests
  BY <1>1, <1>3 DEF Write, Requests, TypeOK, ControllerTypeOK
<1>5. /\ work' = [work EXCEPT ![m] = Idle]
      /\ timer' = [timer EXCEPT ![m] = timer[m] \union again]
      /\ queue[m] \subseteq Requests
      /\ queue' = [queue EXCEPT ![m] = queue[m]]
      /\ lead' = lead /\ watching' = watching /\ adrift' = adrift
  BY <1>3 DEF Finish, UpdateStatus, cacheVars, TypeOK, ControllerTypeOK
<1> QED
  BY <1>2, <1>4, <1>5, ControllerTypes

LEMMA EnqueueTypes ==
    ASSUME TypeOK, NEW m \in Managers, NEW names, names \subseteq Requests,
           Enqueue(m, names), UNCHANGED <<watching, lead, timer, work, adrift>>
    PROVE  ControllerTypeOK'
BY DEF Enqueue, TypeOK, ControllerTypeOK

LEMMA RefsRequested ==
    ASSUME NEW ref \in TaskRefs
    PROVE  TaskRequests(ref) \subseteq Requests
BY DEF TaskRequests, TaskRefs, Requests

LEMMA DeliverBuildTypes ==
    ASSUME TypeOK, NEW m \in Managers, NEW b \in Builds, DeliverBuild(m, b)
    PROVE  StoreTypeOK' /\ ControllerTypeOK'
<1>1. StoreTypeOK'
  BY ReceiveBuildTypes DEF DeliverBuild, TypeOK, Processes
<1>2. UNCHANGED watching /\ {b} \subseteq Requests
  BY DEF DeliverBuild, ReceiveBuild, Requests
<1> QED
  BY <1>1, <1>2, EnqueueTypes DEF DeliverBuild

LEMMA DeliverTaskTypes ==
    ASSUME TypeOK, NEW m \in Managers, DeliverTask(m)
    PROVE  StoreTypeOK' /\ ControllerTypeOK'
<1> DEFINE t == Head(feed[m]).task
<1>1. StoreTypeOK'
  BY ReceiveInOrderTypes DEF DeliverTask, TypeOK
<1>2. t \in Tasks
  <2>1. feed[m] \in Seq([task : Tasks, ref : TaskRefs]) /\ feed[m] # <<>>
    BY DEF DeliverTask, ReceiveInOrder, TypeOK, StoreTypeOK
  <2>2. Head(feed[m]) \in [task : Tasks, ref : TaskRefs]
    BY <2>1, HeadTailProperties
  <2> QED
    BY <2>2
<1>3. ctasks[m][t] \in TaskRefs /\ ctasks'[m][t] \in TaskRefs
  BY <1>1, <1>2 DEF TypeOK, StoreTypeOK, Processes
<1>4. UNCHANGED watching
  BY DEF DeliverTask, ReceiveInOrder
<1>5. TaskRequests(ctasks[m][t]) \union TaskRequests(ctasks'[m][t]) \subseteq Requests
  BY <1>3, RefsRequested
<1>6. Enqueue(m, TaskRequests(ctasks[m][t]) \union TaskRequests(ctasks'[m][t]))
  BY DEF DeliverTask
<1> HIDE DEF t
<1> QED
  BY <1>1, <1>4, <1>5, <1>6, EnqueueTypes DEF DeliverTask

LEMMA TimerFiresTypes ==
    ASSUME TypeOK, NEW m \in Managers, NEW b \in Requests, TimerFires(m, b)
    PROVE  StoreTypeOK' /\ ControllerTypeOK'
BY DEF TimerFires, TypeOK, StoreTypeOK, ControllerTypeOK, storeVars

LEMMA StartManagerTypes ==
    ASSUME TypeOK, NEW m \in Managers, StartManager(m)
    PROVE  StoreTypeOK' /\ ControllerTypeOK'
<1>1. StoreTypeOK'
  BY WatchTypes DEF StartManager, TypeOK, Processes
<1> QED
  BY <1>1 DEF StartManager, Watch, TypeOK, ControllerTypeOK, controllerVars

LEMMA LeadTypes ==
    ASSUME TypeOK, NEW m \in Managers, Lead(m)
    PROVE  StoreTypeOK' /\ ControllerTypeOK'
<1>1. StoreTypeOK'
  BY DEF Lead, TypeOK, StoreTypeOK, storeVars
<1>2. \A t \in Tasks : TaskRequests(ctasks[m][t]) \subseteq Requests
  BY RefsRequested DEF TypeOK, StoreTypeOK, Processes
<1>3. {b \in Builds : cbuilds[m][b].there}
          \union UNION {TaskRequests(ctasks[m][t]) : t \in Tasks} \in SUBSET Requests
  BY <1>2 DEF Requests
<1>4. queue' \in [Managers -> SUBSET Requests]
  BY <1>3 DEF Lead, TypeOK, ControllerTypeOK
<1> QED
  BY <1>1, <1>4 DEF Lead, TypeOK, ControllerTypeOK, storeVars

LEMMA StopManagerTypes ==
    ASSUME TypeOK, NEW m \in Managers, StopManager(m)
    PROVE  StoreTypeOK' /\ ControllerTypeOK'
<1>1. StoreTypeOK'
  BY UnwatchTypes DEF StopManager, TypeOK, Processes
<1>2. adrift' \subseteq Write
  BY DEF StopManager, Busy, TypeOK, ControllerTypeOK
<1>3. lead' \subseteq Managers \intersect watching'
  BY DEF StopManager, Unwatch, TypeOK, ControllerTypeOK
<1> QED
  BY <1>1, <1>2, <1>3 DEF StopManager, TypeOK, ControllerTypeOK

LEMMA LandStatusTypes ==
    ASSUME TypeOK, NEW w \in adrift, LandStatus(w)
    PROVE  StoreTypeOK' /\ ControllerTypeOK' /\ Grows
<1>1. StoreTypeOK' /\ Grows
  BY LandStatusWrites, WriteTypes, FaultType DEF LandStatus, TypeOK, TaskWrite
<1> QED
  BY <1>1 DEF LandStatus, TypeOK, ControllerTypeOK, cacheVars

\* A step leaves the request of c, ends it, begins it or answers it.
RequestStep(c) ==
    \/ req'[c] \in {req[c], Quiet}
    \/ Proper(c, req'[c]) /\ UNCHANGED <<builds, cbuilds>>
    \/ req'[c].codes # <<>> /\ Documented(req'[c].op, req'[c].codes)

RequestSteps == \A c \in Clients : RequestStep(c)

LEMMA QuietType ==
    ApiTypeOK => Quiet \in [op : Routes \union {"none"},
                            name : Builds \union Tasks \union {Unnamed},
                            body : BuildBody \union TaskBody \union {Malformed},
                            seen : Build,
                            codes : Seq({200, 201, 400, 404, 500})]
BY BuildTypes, EmptySeq DEF Quiet

LEMMA AskTypes ==
    ASSUME TypeOK, NEW c \in Clients, Ask(c)
    PROVE  StoreTypeOK' /\ ApiTypeOK' /\ RequestSteps
<1>1. PICK r : Proper(c, r) /\ Requested(c, r)
  BY AskIsProper
<1>2. StoreTypeOK'
  BY <1>1, FaultType DEF Requested, MayFault, TypeOK, StoreTypeOK, cacheVars
<1>3. acts' \in Nat
  BY <1>1 DEF Requested, Act, TypeOK, ApiTypeOK
<1>4. r \in [op : Routes \union {"none"},
             name : Builds \union Tasks \union {Unnamed},
             body : BuildBody \union TaskBody \union {Malformed},
             seen : Build,
             codes : Seq({200, 201, 400, 404, 500})]
  BY <1>1 DEF Proper, Statuses
<1>5. req' = [req EXCEPT ![c] = r] /\ UNCHANGED <<builds, cbuilds>>
  BY <1>1 DEF Requested, cacheVars
<1>6. ApiTypeOK'
  BY <1>3, <1>4, <1>5 DEF TypeOK, ApiTypeOK
<1>7. req'[c] = r /\ \A d \in Clients \ {c} : req'[d] = req[d]
  BY <1>5 DEF TypeOK, ApiTypeOK
<1>8. RequestSteps
  BY <1>1, <1>5, <1>7 DEF RequestSteps, RequestStep
<1> QED
  BY <1>2, <1>6, <1>8

\* The codes of a handler that has made its call.
LEMMA CallIsDocumented ==
    ASSUME CallsOK, NEW c \in Clients, Calling(c),
           NEW code \in {Success(req[c].op), Refusal(req[c].op), 400}
    PROVE  /\ code \in Statuses
           /\ code \in Answers[req[c].op]
<1>1. req[c].op \in BuildWrites \union TaskWrites
  BY DEF CallsOK
<1>2. CASE req[c].op = "CreateEnvironmentBuild"
  BY <1>2, AnswersOfRoute DEF Success, Refusal, Statuses
<1>3. CASE req[c].op = "UpdateEnvironmentBuild"
  BY <1>3, AnswersOfRoute DEF Success, Refusal, Statuses
<1>4. CASE req[c].op = "DeleteEnvironmentBuild"
  BY <1>4, AnswersOfRoute DEF Success, Refusal, Statuses
<1>5. CASE req[c].op = "CreateTask"
  BY <1>5, AnswersOfRoute DEF Success, Refusal, Statuses
<1>6. CASE req[c].op = "DeleteTask"
  BY <1>6, AnswersOfRoute DEF Success, Refusal, Statuses
<1> QED
  BY <1>1, <1>2, <1>3, <1>4, <1>5, <1>6 DEF BuildWrites, TaskWrites

LEMMA CallTypes ==
    ASSUME TypeOK, CallsOK, NEW c \in Clients, Call(c)
    PROVE  /\ StoreTypeOK' /\ ApiTypeOK' /\ RequestSteps /\ Grows
           /\ UserWrite /\ TaskWrite
           /\ UNCHANGED builds \/ UNCHANGED <<tasks, feed>>
<1>1. /\ UserWrite /\ TaskWrite
      /\ UNCHANGED builds \/ UNCHANGED <<tasks, feed>>
  <2>1. CASE Possible(req[c]) /\ Effect(req[c])
    BY <2>1, CallWrites DEF Call
  <2>2. CASE UNCHANGED <<builds, tasks, feed>>
    BY <2>2 DEF UserWrite, TaskWrite
  <2> QED
    BY <2>1, <2>2 DEF Call
<1>2. StoreTypeOK' /\ Grows
  BY <1>1, WriteTypes, FaultType DEF Call, TypeOK
<1>3. PICK code \in {Success(req[c].op), Refusal(req[c].op), 400} :
          req' = [req EXCEPT ![c].codes = <<code>>]
  BY DEF Call
<1>4. /\ code \in Statuses
      /\ code \in Answers[req[c].op]
  BY <1>3, CallIsDocumented DEF Call
<1>5. <<code>> \in Seq(Statuses) /\ <<code>> # <<>> /\ Len(<<code>>) = 1 /\ <<code>>[1] = code
  BY <1>4, OneStatus
<1> DEFINE codes == <<code>>
<1> HIDE DEF codes
<1>6. /\ codes \in Seq(Statuses) /\ codes # <<>>
      /\ req' = [req EXCEPT ![c].codes = codes]
      /\ Documented(req[c].op, codes)
  BY <1>3, <1>4, <1>5 DEF codes, Documented
<1>7. ApiTypeOK'
  <2> DEFINE R == [op : Routes \union {"none"},
                   name : Builds \union Tasks \union {Unnamed},
                   body : BuildBody \union TaskBody \union {Malformed},
                   seen : Build,
                   codes : Seq(Statuses)]
  <2>1. req \in [Clients -> R] /\ acts' \in Nat
    BY DEF Call, TypeOK, ApiTypeOK, Statuses
  <2>2. req[c] \in R
    BY <2>1
  <2>3. [req[c] EXCEPT !.codes = codes] \in R
    BY <1>6, <2>2
  <2> HIDE DEF R
  <2>4. req' \in [Clients -> R]
    BY <1>6, <2>1, <2>3
  <2> QED
    BY <2>1, <2>4 DEF ApiTypeOK, Statuses, R
<1>8. /\ req'[c].codes = codes /\ req'[c].op = req[c].op
      /\ \A d \in Clients \ {c} : req'[d] = req[d]
  BY <1>6 DEF TypeOK, ApiTypeOK
<1>9. RequestSteps
  BY <1>6, <1>8 DEF RequestSteps, RequestStep
<1> QED
  BY <1>1, <1>2, <1>7, <1>9

LEMMA CloseTypes ==
    ASSUME TypeOK, NEW c \in Clients, Close(c)
    PROVE  StoreTypeOK' /\ ApiTypeOK' /\ RequestSteps
<1>1. StoreTypeOK'
  BY DEF Close, TypeOK, StoreTypeOK, storeVars
<1>2. ApiTypeOK'
  BY QuietType DEF Close, TypeOK, ApiTypeOK
<1>3. RequestSteps
  BY DEF Close, TypeOK, ApiTypeOK, RequestSteps, RequestStep
<1> QED
  BY <1>1, <1>2, <1>3

LEMMA UnchangedRequests ==
    ASSUME TypeOK, UNCHANGED req, acts' \in Nat
    PROVE  ApiTypeOK' /\ RequestSteps
BY DEF TypeOK, ApiTypeOK, RequestSteps, RequestStep

LEMMA SeeBuildTypes ==
    ASSUME TypeOK, NEW s \in Services, NEW b \in Builds, SeeBuild(s, b)
    PROVE  StoreTypeOK' /\ ApiTypeOK' /\ RequestSteps
BY ReceiveBuildTypes, UnchangedRequests DEF SeeBuild, TypeOK, ApiTypeOK, Processes, apiVars

LEMMA SeeTaskTypes ==
    ASSUME TypeOK, NEW s \in Services, NEW t \in Tasks, SeeTask(s, t)
    PROVE  StoreTypeOK' /\ ApiTypeOK' /\ RequestSteps
BY ReceiveTaskTypes, UnchangedRequests DEF SeeTask, TypeOK, ApiTypeOK, Processes, apiVars

LEMMA StartServiceTypes ==
    ASSUME TypeOK, NEW s \in Services, StartService(s)
    PROVE  StoreTypeOK' /\ ApiTypeOK' /\ RequestSteps
BY WatchTypes, UnchangedRequests DEF StartService, TypeOK, ApiTypeOK, Processes, apiVars

LEMMA StopServiceTypes ==
    ASSUME TypeOK, NEW s \in Services, StopService(s)
    PROVE  StoreTypeOK' /\ ApiTypeOK' /\ RequestSteps
<1>1. StoreTypeOK'
  BY UnwatchTypes DEF StopService, TypeOK, Processes
<1>2. ApiTypeOK'
  BY QuietType DEF StopService, TypeOK, ApiTypeOK
<1>3. RequestSteps
  BY DEF StopService, RequestSteps, RequestStep
<1> QED
  BY <1>1, <1>2, <1>3

LEMMA KubectlTypes ==
    ASSUME TypeOK, Kubectl
    PROVE  /\ StoreTypeOK' /\ ControllerTypeOK' /\ ApiTypeOK' /\ RequestSteps /\ Grows
<1>1. StoreTypeOK' /\ Grows
  BY KubectlWrites, WriteTypes, FaultType DEF Kubectl, TypeOK
<1>2. acts' \in Nat
  BY DEF Kubectl, Act, TypeOK, ApiTypeOK
<1>3. ControllerTypeOK'
  BY DEF Kubectl, TypeOK, ControllerTypeOK, controllerVars, cacheVars
<1> QED
  BY <1>1, <1>2, <1>3, UnchangedRequests DEF Kubectl

-----------------------------------------------------------------------------
(* Aspects of a step. Each of the following says what every step does to one *)
(* part of the state; Step collects them.                                    *)

\* Builds: a write of users, or of a count that was true once.
BuildStep ==
    UserWrite \/ \E w \in Write : StatusWrite(w) /\ w.obj.count \in past[w.name]

\* Caches: they show what is stored, or go.
CacheStep ==
    \A p \in Processes, b \in Builds :
        \/ cbuilds'[p][b] \in {cbuilds[p][b], NoBuild}
        \/ cbuilds'[p][b] = builds[b] /\ UNCHANGED builds

\* Tasks, as m sees them: written, listed, received, or forgotten.
TaskStep(m) ==
    \/ TaskWrite /\ UNCHANGED <<watching, ctasks>>
    \/ /\ UNCHANGED tasks
       /\ \/ /\ feed'[m] = feed[m] /\ ctasks'[m] = ctasks[m]
             /\ m \in watching' <=> m \in watching
          \/ m \notin watching' /\ feed'[m] = <<>>
          \/ Watch(m)
          \/ ReceiveInOrder(m) /\ UNCHANGED watching

TaskSteps == \A m \in Managers : TaskStep(m)

\* Status writes: made by leaders, of the count they see.
WorkStep(m) ==
    \/ work'[m] \in {work[m], Idle}
    \/ /\ m \in lead
       /\ \E b \in Builds, o \in Build : /\ work'[m] = [name |-> b, obj |-> o]
                                         /\ o.count = Number(ctasks[m], b)

WorkSteps ==
    /\ \A m \in Managers : WorkStep(m)
    /\ \A w \in adrift' \ adrift : \E m \in Managers : Busy(m) /\ w = work[m]

\* Leaders: what WritesOK and NoLostRecount say of m and b.
Watched(m, b) ==
    /\ work[m].name = b =>
          work[m].obj.count = Number(ctasks[m], b) \/ b \in queue[m] \union timer[m]
    /\ cbuilds[m][b].there /\ cbuilds[m][b].count # Number(ctasks[m], b)
          => \/ b \in queue[m] \union timer[m] \union {work[m].name}
             \/ cbuilds[m][b] # builds[b]

LeadersOK ==
    /\ \A m \in Managers \ lead : work[m] = Idle
    /\ \A m \in lead, b \in Builds : Watched(m, b)

LEMMA LeadersOKDef == LeadersOK <=> WritesOK /\ NoLostRecount
BY DEF LeadersOK, Watched, WritesOK, NoLostRecount

Step == /\ BuildStep /\ CacheStep /\ TaskSteps /\ RequestSteps /\ WorkSteps
        /\ StoreTypeOK' /\ ControllerTypeOK' /\ ApiTypeOK' /\ LeadersOK'

\* The part of the invariant the steps below start from.
Ready == TypeOK /\ CallsOK /\ VersionsOK /\ CountsOK /\ LeadersOK

-----------------------------------------------------------------------------
(* What a step that leaves something alone does to it. *)

LEMMA BuildStepGrows ==
    ASSUME TypeOK, BuildStep
    PROVE  builds' \in [Builds -> Build] /\ Grows
BY UserWriteTypes, StatusWriteTypes DEF BuildStep, TypeOK, StoreTypeOK

LEMMA SameBuilds == UNCHANGED builds => BuildStep
BY DEF BuildStep, UserWrite

LEMMA SameCaches == UNCHANGED cbuilds => CacheStep
BY DEF CacheStep

LEMMA TasksWritten == TaskWrite /\ UNCHANGED <<watching, ctasks>> => TaskSteps
BY DEF TaskSteps, TaskStep

LEMMA SameTasks == UNCHANGED <<tasks, feed, watching, ctasks>> => TaskSteps
BY DEF TaskSteps, TaskStep

LEMMA SameWork == UNCHANGED <<work, adrift>> => WorkSteps
BY DEF WorkSteps, WorkStep

LEMMA SameRequests == UNCHANGED req => RequestSteps
BY DEF RequestSteps, RequestStep

\* A cached version that differs from the stored one goes on differing.
LEMMA StillStale ==
    ASSUME builds \in [Builds -> Build], builds' \in [Builds -> Build], Grows,
           NEW b \in Builds, NEW v \in Build, Earlier(v, b), v # builds[b]
    PROVE  v # builds'[b]
<1>1. builds[b].rv \in Nat /\ builds'[b].rv \in Nat /\ v.rv \in Nat
  BY DEF Build
<1> QED
  BY <1>1 DEF Earlier, Grows

\* A leader that loses no wake-up of b and whose caches show the same of b.
LEMMA WatchedKept ==
    ASSUME Ready, builds' \in [Builds -> Build], Grows,
           NEW m \in lead, NEW b \in Builds,
           cbuilds'[m][b] = cbuilds[m][b],
           Number(ctasks'[m], b) = Number(ctasks[m], b),
           work'[m] = work[m],
           b \in queue[m] \union timer[m] => b \in queue'[m] \union timer'[m]
    PROVE  Watched(m, b)'
<1>1. m \in Processes
  BY DEF Ready, TypeOK, ControllerTypeOK, Processes
<1>2. cbuilds[m][b] \in Build /\ Earlier(cbuilds[m][b], b)
  BY <1>1 DEF Ready, TypeOK, StoreTypeOK, VersionsOK
<1>3. cbuilds[m][b] # builds[b] => cbuilds[m][b] # builds'[b]
  BY <1>2, StillStale DEF Ready, TypeOK, StoreTypeOK
<1>4. Watched(m, b)
  BY DEF Ready, LeadersOK
<1> QED
  BY <1>3, <1>4 DEF Watched

\* A step that leaves managers alone, except for the builds that are stored.
LEMMA LeadersKept ==
    ASSUME Ready, builds' \in [Builds -> Build], Grows,
           UNCHANGED <<lead, queue, timer, work>>,
           \A m \in lead : cbuilds'[m] = cbuilds[m] /\ ctasks'[m] = ctasks[m]
    PROVE  LeadersOK'
<1>1. \A m \in lead, b \in Builds : Watched(m, b)'
  BY WatchedKept
<1> QED
  BY <1>1 DEF Ready, LeadersOK

-----------------------------------------------------------------------------
(* The steps of the build controller. *)

LEMMA ApiKept ==
    ASSUME TypeOK, UNCHANGED apiVars
    PROVE  ApiTypeOK' /\ RequestSteps
BY UnchangedRequests DEF apiVars, TypeOK, ApiTypeOK

LEMMA ReconcileStep ==
    ASSUME Ready, UNCHANGED apiVars,
           NEW m \in Managers, NEW r \in Requests, Reconcile(m, r)
    PROVE  Step
<1> DEFINE o == [cbuilds[m][r] EXCEPT !.count = Number(ctasks[m], r)]
<1>1. StoreTypeOK' /\ ControllerTypeOK' /\ ApiTypeOK' /\ RequestSteps
  BY ReconcileTypes, ApiKept DEF Ready
<1>2. /\ UNCHANGED <<builds, tasks, watching, cbuilds, ctasks, feed, lead, timer, adrift>>
      /\ m \in lead /\ work[m] = Idle
      /\ queue' = [queue EXCEPT ![m] = queue[m] \ {r}]
  BY DEF Reconcile, storeVars, Busy
<1>3. BuildStep /\ CacheStep /\ TaskSteps
  BY <1>2, SameBuilds, SameCaches, SameTasks
<1>4. /\ \A n \in Managers \ {m} : work'[n] = work[n] /\ queue'[n] = queue[n]
      /\ queue'[m] = queue[m] \ {r}
  BY <1>2 DEF Reconcile, Ready, TypeOK, ControllerTypeOK
<1>5. \/ /\ r \in Builds /\ o \in Build /\ o.count = Number(ctasks[m], r)
         /\ work'[m] = [name |-> r, obj |-> o]
      \/ /\ work'[m] = Idle
         /\ r \in Builds /\ cbuilds[m][r].there => cbuilds[m][r].count = Number(ctasks[m], r)
  <2>1. CASE r = Unnamed \/ ~cbuilds[m][r].there \/ cbuilds[m][r].count = Number(ctasks[m], r)
    BY <1>2, <2>1, NamesAssumption DEF Reconcile
  <2>2. CASE ~(r = Unnamed \/ ~cbuilds[m][r].there \/ cbuilds[m][r].count = Number(ctasks[m], r))
    <3>1. r \in Builds /\ cbuilds[m][r] \in Build
      BY <2>2 DEF Requests, Ready, TypeOK, StoreTypeOK, Processes
    <3>2. o \in Build /\ o.count = Number(ctasks[m], r)
      BY <3>1, NumberType, BuildTypes DEF Build
    <3>3. work' = [work EXCEPT ![m] = [name |-> r, obj |-> o]]
      BY <2>2 DEF Reconcile
    <3> QED
      BY <3>1, <3>2, <3>3 DEF Ready, TypeOK, ControllerTypeOK
  <2> QED
    BY <2>1, <2>2
<1> HIDE DEF o
<1>6. WorkSteps
  BY <1>2, <1>4, <1>5 DEF WorkSteps, WorkStep
<1>7. ASSUME NEW n \in lead, NEW b \in Builds, n # m
      PROVE  Watched(n, b)'
  <2>1. n \in Managers
    BY DEF Ready, TypeOK, ControllerTypeOK
  <2> QED
    BY <1>2, <1>4, <1>7, <2>1, WatchedKept DEF Grows, Ready, TypeOK, StoreTypeOK
<1>8. ASSUME NEW b \in Builds
      PROVE  Watched(m, b)'
  <2>1. Idle.name = Unnamed /\ Unnamed \notin Builds
    BY NamesAssumption DEF Idle
  <2>2. Watched(m, b)
    BY <1>2 DEF Ready, LeadersOK
  <2>3. CASE b = r
    BY <1>2, <1>5, <2>1, <2>3 DEF Watched
  <2>4. CASE b # r
    BY <1>2, <1>4, <1>5, <2>1, <2>2, <2>4 DEF Watched
  <2> QED
    BY <2>3, <2>4
<1>9. LeadersOK'
  <2>1. \A n \in Managers \ lead' : work'[n] = Idle
    BY <1>2, <1>4 DEF Ready, LeadersOK
  <2> QED
    BY <1>2, <1>7, <1>8, <2>1 DEF LeadersOK
<1> QED
  BY <1>1, <1>3, <1>6, <1>9 DEF Step

\* A status write that is accepted makes the cached version that differs from it
\* an old one.
LEMMA StoredIsNew ==
    ASSUME TypeOK, NEW b \in Builds, NEW v \in Build, Earlier(v, b),
           NEW n \in Nat, Recounts(b, n), v.count # n
    PROVE  v # builds'[b]
<1>1. builds \in [Builds -> Build] /\ builds[b] \in Build
  BY DEF TypeOK, StoreTypeOK
<1>2. [builds[b] EXCEPT !.count = n].count = n /\ [builds[b] EXCEPT !.count = n] \in Build
  BY <1>1, BuildTypes DEF Build
<1>3. builds'[b].count = n
  BY <1>1, <1>2, BuildStored DEF Recounts
<1> QED
  BY <1>3

LEMMA UpdateStatusStep ==
    ASSUME Ready, UNCHANGED apiVars, NEW m \in Managers, UpdateStatus(m)
    PROVE  Step
<1> DEFINE w == work[m]
<1>1. StoreTypeOK' /\ ControllerTypeOK' /\ ApiTypeOK' /\ RequestSteps /\ Grows
  BY UpdateStatusTypes, ApiKept DEF Ready
<1>2. w \in Write /\ StatusWrite(w) /\ UNCHANGED <<tasks, feed>>
  BY UpdateStatusWrites DEF Ready
<1>3. /\ Busy(m) /\ m \in lead
      /\ UNCHANGED <<watching, cbuilds, ctasks, lead, queue, adrift>>
  <2>1. Busy(m) /\ UNCHANGED <<watching, cbuilds, ctasks, lead, queue, adrift>>
    BY DEF UpdateStatus, cacheVars
  <2>2. m \in lead
    BY <2>1 DEF Busy, Ready, LeadersOK
  <2> QED
    BY <2>1, <2>2
<1>4. w.obj.count \in past[w.name]
  BY <1>3 DEF Ready, CountsOK
<1>5. BuildStep /\ CacheStep /\ TaskSteps
  BY <1>2, <1>3, <1>4, SameCaches, SameTasks DEF BuildStep
<1>6. PICK again \in SUBSET {w.name} : Finish(m, again)
  BY DEF UpdateStatus
<1>7. /\ work'[m] = Idle
      /\ timer[m] \subseteq timer'[m]
      /\ \A n \in Managers \ {m} : work'[n] = work[n] /\ timer'[n] = timer[n]
  BY <1>6 DEF Finish, Ready, TypeOK, ControllerTypeOK
<1>8. WorkSteps
  BY <1>3, <1>7 DEF WorkSteps, WorkStep
<1>9. ASSUME NEW n \in lead, NEW b \in Builds, n # m
      PROVE  Watched(n, b)'
  <2>1. n \in Managers
    BY DEF Ready, TypeOK, ControllerTypeOK
  <2> QED
    BY <1>1, <1>3, <1>7, <1>9, <2>1, WatchedKept DEF StoreTypeOK
<1>10. ASSUME NEW b \in Builds
       PROVE  Watched(m, b)'
  <2>1. Idle.name = Unnamed /\ Unnamed \notin Builds
    BY NamesAssumption DEF Idle
  <2>2. /\ Watched(m, b)
        /\ builds \in [Builds -> Build] /\ builds' \in [Builds -> Build]
        /\ cbuilds[m][b] \in Build /\ Earlier(cbuilds[m][b], b)
    BY <1>1, <1>3 DEF Ready, LeadersOK, TypeOK, StoreTypeOK, VersionsOK, Processes
  <2>3. cbuilds[m][b] # builds[b] => cbuilds[m][b] # builds'[b]
    BY <1>1, <2>2, StillStale
  <2>4. CASE b # w.name
    BY <1>3, <1>7, <2>1, <2>2, <2>3, <2>4 DEF Watched
  <2>5. CASE b = w.name /\ b \in timer'[m]
    BY <1>3, <1>7, <2>1, <2>5 DEF Watched
  <2>6. CASE b = w.name /\ b \notin timer'[m]
    <3>1. w.obj.count = Number(ctasks[m], b) \/ b \in queue'[m] \union timer'[m]
      BY <1>3, <1>7, <2>2, <2>6 DEF Watched
    <3>2. Recounts(b, w.obj.count)
      <4>1. again # {b}
        BY <1>6, <2>6 DEF Finish, Ready, TypeOK, ControllerTypeOK
      <4>2. Accepted(b, w.obj) /\ StoreStatus(b, w.obj)
        <5>1. ~Finish(m, {b})
          BY <2>6 DEF Finish, Ready, TypeOK, ControllerTypeOK
        <5> QED
          BY <2>6, <5>1 DEF UpdateStatus
      <4> QED
        BY <4>2 DEF Recounts, Accepted, StoreStatus
    <3>3. w.obj.count \in Nat
      BY <1>2 DEF Write, Build
    <3>4. cbuilds[m][b].count # w.obj.count => cbuilds[m][b] # builds'[b]
      BY <2>2, <3>2, <3>3, StoredIsNew DEF Ready
    <3> QED
      BY <1>3, <1>7, <2>1, <3>1, <3>4 DEF Watched
  <2> QED
    BY <2>4, <2>5, <2>6
<1>11. LeadersOK'
  <2>1. \A n \in Managers \ lead' : work'[n] = Idle
    BY <1>3, <1>7 DEF Ready, LeadersOK
  <2> QED
    BY <1>3, <1>9, <1>10, <2>1 DEF LeadersOK
<1> QED
  BY <1>1, <1>5, <1>8, <1>11 DEF Step

LEMMA DeliverBuildStep ==
    ASSUME Ready, UNCHANGED apiVars,
           NEW m \in Managers, NEW r \in Builds, DeliverBuild(m, r)
    PROVE  Step
<1>1. StoreTypeOK' /\ ControllerTypeOK' /\ ApiTypeOK' /\ RequestSteps
  BY DeliverBuildTypes, ApiKept DEF Ready
<1>2. /\ UNCHANGED <<builds, tasks, watching, ctasks, feed, lead, timer, work, adrift>>
      /\ cbuilds' = [cbuilds EXCEPT ![m][r] = builds[r]]
      /\ Enqueue(m, {r})
  BY DEF DeliverBuild, ReceiveBuild
<1>3. CacheStep
  BY <1>2 DEF CacheStep, Ready, TypeOK, StoreTypeOK, Processes
<1>4. BuildStep /\ TaskSteps /\ WorkSteps
  BY <1>2, SameBuilds, SameTasks, SameWork
<1>5. \A n \in lead, b \in Builds : n # m \/ b # r =>
          cbuilds'[n][b] = cbuilds[n][b] /\ queue[n] \subseteq queue'[n]
  BY <1>2 DEF Enqueue, Ready, TypeOK, StoreTypeOK, ControllerTypeOK, Processes
<1>6. ASSUME NEW n \in lead, NEW b \in Builds, n # m \/ b # r
      PROVE  Watched(n, b)'
  <2>1. cbuilds'[n][b] = cbuilds[n][b] /\ queue[n] \subseteq queue'[n]
    BY <1>5, <1>6
  <2>2. builds' \in [Builds -> Build] /\ Grows
    BY <1>2 DEF Grows, Ready, TypeOK, StoreTypeOK
  <2> QED
    BY <1>2, <2>1, <2>2, WatchedKept
<1>7. m \in lead => r \in queue'[m]
  BY <1>2 DEF Enqueue, Ready, TypeOK, ControllerTypeOK
<1>8. LeadersOK'
  <2>1. \A n \in lead, b \in Builds : Watched(n, b)'
    BY <1>6, <1>7 DEF Watched
  <2> QED
    BY <1>2, <2>1 DEF Ready, LeadersOK
<1> QED
  BY <1>1, <1>3, <1>4, <1>8 DEF Step

LEMMA DeliverTaskStep ==
    ASSUME Ready, UNCHANGED apiVars, NEW m \in Managers, DeliverTask(m)
    PROVE  Step
<1> DEFINE t == Head(feed[m]).task
           names == TaskRequests(ctasks[m][t]) \union TaskRequests(ctasks'[m][t])
<1>1. StoreTypeOK' /\ ControllerTypeOK' /\ ApiTypeOK' /\ RequestSteps
  BY DeliverTaskTypes, ApiKept DEF Ready
<1>2. /\ UNCHANGED <<builds, tasks, watching, cbuilds, lead, timer, work, adrift>>
      /\ ReceiveInOrder(m)
      /\ Enqueue(m, names)
  BY DEF DeliverTask, ReceiveInOrder
<1>3. BuildStep /\ CacheStep /\ WorkSteps
  BY <1>2, SameBuilds, SameCaches, SameWork
<1>4. \A n \in Managers \ {m} : ctasks'[n] = ctasks[n] /\ feed'[n] = feed[n]
  BY <1>2 DEF ReceiveInOrder, Ready, TypeOK, StoreTypeOK, Processes
<1>5. TaskSteps
  BY <1>2, <1>4 DEF TaskSteps, TaskStep
<1>6. \A u \in Tasks : ctasks'[m][u] = ctasks[m][u] \/ u = t
  BY <1>2 DEF ReceiveInOrder, Ready, TypeOK, StoreTypeOK, Processes
<1>7. m \in lead => names \subseteq queue'[m]
  BY <1>2 DEF Enqueue, Ready, TypeOK, ControllerTypeOK
<1>8. \A n \in lead : queue[n] \subseteq queue'[n]
  BY <1>2 DEF Enqueue, Ready, TypeOK, ControllerTypeOK
<1> HIDE DEF t
<1>9. ASSUME NEW n \in lead, NEW b \in Builds
      PROVE  Watched(n, b)'
  <2>1. n \in Managers
    BY DEF Ready, TypeOK, ControllerTypeOK
  <2>2. CASE n = m /\ b \in names
    BY <1>7, <2>2 DEF Watched
  <2>3. CASE n = m /\ b \notin names
    <3>1. ctasks[m][t] # b /\ ctasks'[m][t] # b
      BY <2>3, NamesAssumption DEF TaskRequests
    <3>2. \A u \in Tasks : ctasks'[m][u] = b <=> ctasks[m][u] = b
      BY <1>6, <3>1
    <3>3. Number(ctasks'[m], b) = Number(ctasks[m], b)
      BY <3>2, NumberSame
    <3> QED
      BY <1>2, <1>8, <2>3, <3>3, WatchedKept DEF Grows, Ready, TypeOK, StoreTypeOK
  <2>4. CASE n # m
    BY <1>2, <1>4, <1>8, <2>1, <2>4, WatchedKept DEF Grows, Ready, TypeOK, StoreTypeOK
  <2> QED
    BY <2>2, <2>3, <2>4
<1>10. LeadersOK'
  BY <1>2, <1>9 DEF Ready, LeadersOK
<1> QED
  BY <1>1, <1>3, <1>5, <1>10 DEF Step

LEMMA TimerFiresStep ==
    ASSUME Ready, UNCHANGED apiVars,
           NEW m \in Managers, NEW r \in Requests, TimerFires(m, r)
    PROVE  Step
<1>1. StoreTypeOK' /\ ControllerTypeOK' /\ ApiTypeOK' /\ RequestSteps
  BY TimerFiresTypes, ApiKept DEF Ready
<1>2. UNCHANGED <<builds, tasks, watching, cbuilds, ctasks, feed, lead, work, adrift>>
  BY DEF TimerFires, storeVars
<1>3. BuildStep /\ CacheStep /\ TaskSteps /\ WorkSteps
  BY <1>2, SameBuilds, SameCaches, SameTasks, SameWork
<1>4. \A n \in lead : queue[n] \union timer[n] \subseteq queue'[n] \union timer'[n]
  BY DEF TimerFires, Ready, TypeOK, ControllerTypeOK
<1>5. \A n \in lead, b \in Builds : Watched(n, b)'
  BY <1>2, <1>4, WatchedKept DEF Grows, Ready, TypeOK, StoreTypeOK
<1>6. LeadersOK'
  BY <1>2, <1>5 DEF Ready, LeadersOK
<1> QED
  BY <1>1, <1>3, <1>6 DEF Step

\* A process that starts lists; no other sees anything of it.
LEMMA WatchStep ==
    ASSUME TypeOK, NEW p \in Processes, Watch(p)
    PROVE  /\ BuildStep /\ CacheStep /\ TaskSteps
           /\ \A n \in Processes \ {p} : cbuilds'[n] = cbuilds[n] /\ ctasks'[n] = ctasks[n]
<1>1. \A n \in Processes \ {p} : cbuilds'[n] = cbuilds[n] /\ ctasks'[n] = ctasks[n]
  BY DEF Watch, TypeOK, StoreTypeOK
<1>2. CacheStep
  BY DEF Watch, CacheStep, TypeOK, StoreTypeOK
<1>3. TaskSteps
  BY <1>1 DEF Watch, TaskSteps, TaskStep, Processes
<1> QED
  BY <1>1, <1>2, <1>3, SameBuilds DEF Watch

\* A process that goes forgets; no other sees anything of it.
LEMMA UnwatchStep ==
    ASSUME TypeOK, NEW p \in Processes, Unwatch(p)
    PROVE  /\ BuildStep /\ CacheStep /\ TaskSteps
           /\ \A n \in Processes \ {p} : cbuilds'[n] = cbuilds[n] /\ ctasks'[n] = ctasks[n]
<1>1. \A n \in Processes \ {p} : cbuilds'[n] = cbuilds[n] /\ ctasks'[n] = ctasks[n]
  BY DEF Unwatch, TypeOK, StoreTypeOK
<1>2. CacheStep
  BY DEF Unwatch, CacheStep, TypeOK, StoreTypeOK, NoBuilds
<1>3. TaskSteps
  BY <1>1 DEF Unwatch, TaskSteps, TaskStep, Processes
<1> QED
  BY <1>1, <1>2, <1>3, SameBuilds DEF Unwatch

LEMMA StartManagerStep ==
    ASSUME Ready, UNCHANGED apiVars, NEW m \in Managers, StartManager(m)
    PROVE  Step
<1>1. StoreTypeOK' /\ ControllerTypeOK' /\ ApiTypeOK' /\ RequestSteps
  BY StartManagerTypes, ApiKept DEF Ready
<1>2. /\ UNCHANGED <<builds, lead, queue, timer, work, adrift>>
      /\ Watch(m) /\ m \notin watching /\ m \in Processes
  BY DEF StartManager, Watch, controllerVars, Processes
<1>3. /\ BuildStep /\ CacheStep /\ TaskSteps
      /\ \A n \in Processes \ {m} : cbuilds'[n] = cbuilds[n] /\ ctasks'[n] = ctasks[n]
  BY <1>2, WatchStep DEF Ready
<1>4. lead \subseteq Processes \ {m}
  BY <1>2 DEF Ready, TypeOK, ControllerTypeOK, Processes
<1>5. LeadersOK'
  BY <1>2, <1>3, <1>4, LeadersKept DEF Grows, Ready, TypeOK, StoreTypeOK
<1> QED
  BY <1>1, <1>2, <1>3, <1>5, SameWork DEF Step

LEMMA LeadStep ==
    ASSUME Ready, UNCHANGED apiVars, NEW m \in Managers, Lead(m)
    PROVE  Step
<1>1. StoreTypeOK' /\ ControllerTypeOK' /\ ApiTypeOK' /\ RequestSteps
  BY LeadTypes, ApiKept DEF Ready
<1>2. /\ UNCHANGED <<builds, tasks, watching, cbuilds, ctasks, feed, timer, work, adrift>>
      /\ lead' = lead \union {m} /\ m \notin lead
  BY DEF Lead, storeVars
<1>3. BuildStep /\ CacheStep /\ TaskSteps /\ WorkSteps
  BY <1>2, SameBuilds, SameCaches, SameTasks, SameWork
<1>4. /\ \A b \in Builds : cbuilds[m][b].there => b \in queue'[m]
      /\ \A n \in lead : queue'[n] = queue[n]
  BY <1>2 DEF Lead, Ready, TypeOK, ControllerTypeOK
<1>5. \A n \in lead, b \in Builds : Watched(n, b)'
  BY <1>2, <1>4, WatchedKept DEF Grows, Ready, TypeOK, StoreTypeOK
<1>6. work'[m].name \notin Builds
  BY <1>2, NamesAssumption DEF Idle, Ready, LeadersOK
<1>7. \A b \in Builds : Watched(m, b)'
  BY <1>2, <1>4, <1>6 DEF Watched
<1>8. LeadersOK'
  BY <1>2, <1>5, <1>7 DEF Ready, LeadersOK
<1> QED
  BY <1>1, <1>3, <1>8 DEF Step

LEMMA StopManagerStep ==
    ASSUME Ready, UNCHANGED apiVars, NEW m \in Managers, StopManager(m)
    PROVE  Step
<1>1. StoreTypeOK' /\ ControllerTypeOK' /\ ApiTypeOK' /\ RequestSteps
  BY StopManagerTypes, ApiKept DEF Ready
<1>2. /\ UNCHANGED builds /\ Unwatch(m) /\ m \in Processes
      /\ lead' = lead \ {m}
      /\ work' = [work EXCEPT ![m] = Idle]
      /\ queue' = [queue EXCEPT ![m] = {}]
      /\ timer' = [timer EXCEPT ![m] = {}]
  BY DEF StopManager, Unwatch, Processes
<1>3. /\ BuildStep /\ CacheStep /\ TaskSteps
      /\ \A n \in Processes \ {m} : cbuilds'[n] = cbuilds[n] /\ ctasks'[n] = ctasks[n]
  BY <1>2, UnwatchStep DEF Ready
<1>4. /\ work'[m] = Idle
      /\ \A n \in Managers \ {m} : /\ work'[n] = work[n]
                                   /\ queue'[n] = queue[n] /\ timer'[n] = timer[n]
  BY <1>2 DEF Ready, TypeOK, ControllerTypeOK
<1>5. WorkSteps
  BY <1>4 DEF WorkSteps, WorkStep, StopManager
<1>6. \A n \in lead' : n \in lead /\ n \in Managers \ {m} /\ n \in Processes \ {m}
  BY <1>2 DEF Ready, TypeOK, ControllerTypeOK, Processes
<1>7. \A n \in lead', b \in Builds : Watched(n, b)'
  BY <1>2, <1>3, <1>4, <1>6, WatchedKept DEF Grows, Ready, TypeOK, StoreTypeOK
<1>8. LeadersOK'
  BY <1>2, <1>4, <1>7 DEF Ready, LeadersOK
<1> QED
  BY <1>1, <1>3, <1>5, <1>8 DEF Step

LEMMA LandStatusStep ==
    ASSUME Ready, UNCHANGED apiVars, NEW w \in adrift, LandStatus(w)
    PROVE  Step
<1>1. StoreTypeOK' /\ ControllerTypeOK' /\ ApiTypeOK' /\ RequestSteps /\ Grows
  BY LandStatusTypes, ApiKept DEF Ready
<1>2. w \in Write /\ StatusWrite(w) /\ UNCHANGED <<tasks, feed>>
  BY LandStatusWrites DEF Ready
<1>3. UNCHANGED <<watching, cbuilds, ctasks, lead, queue, timer, work>> /\ adrift' \subseteq adrift
  BY DEF LandStatus, cacheVars
<1>4. w.obj.count \in past[w.name]
  BY DEF Ready, CountsOK
<1>5. BuildStep /\ CacheStep /\ TaskSteps /\ WorkSteps
  BY <1>2, <1>3, <1>4, SameCaches, SameTasks DEF BuildStep, WorkSteps, WorkStep
<1>6. LeadersOK'
  BY <1>1, <1>3, LeadersKept DEF StoreTypeOK
<1> QED
  BY <1>1, <1>5, <1>6 DEF Step

LEMMA ControllerNextStep ==
    ASSUME Ready, UNCHANGED apiVars, ControllerNext
    PROVE  Step
<1>1. ASSUME NEW m \in Managers, ControllerStep(m)
      PROVE  Step
  BY <1>1, ReconcileStep, UpdateStatusStep, DeliverBuildStep, DeliverTaskStep,
     TimerFiresStep, StartManagerStep, LeadStep, StopManagerStep DEF ControllerStep
<1> QED
  BY <1>1, LandStatusStep DEF ControllerNext

-----------------------------------------------------------------------------
(* The steps of the service and of kubectl. *)

\* Services are no managers: what becomes of one leaves the controllers alone.
LEMMA ControllersKept ==
    ASSUME Ready, UNCHANGED controllerVars, StoreTypeOK', Grows,
           Managers \intersect watching \subseteq watching',
           \A m \in Managers : cbuilds'[m] = cbuilds[m] /\ ctasks'[m] = ctasks[m]
    PROVE  ControllerTypeOK' /\ WorkSteps /\ LeadersOK'
<1>1. ControllerTypeOK'
  BY DEF Ready, TypeOK, ControllerTypeOK, controllerVars
<1>2. \A m \in lead : m \in Managers
  BY DEF Ready, TypeOK, ControllerTypeOK
<1>3. LeadersOK'
  BY <1>2, LeadersKept DEF controllerVars, StoreTypeOK
<1> QED
  BY <1>1, <1>3, SameWork DEF controllerVars

\* What leaves the objects and the caches alone.
LEMMA StoreKept ==
    ASSUME Ready, UNCHANGED controllerVars, UNCHANGED <<builds, tasks, cacheVars, feed>>,
           StoreTypeOK', ApiTypeOK', RequestSteps
    PROVE  Step
<1>1. BuildStep /\ CacheStep /\ TaskSteps
  BY SameBuilds, SameCaches, SameTasks DEF cacheVars
<1>2. Grows
  BY DEF Grows
<1>3. ControllerTypeOK' /\ WorkSteps /\ LeadersOK'
  BY <1>2, ControllersKept DEF cacheVars
<1> QED
  BY <1>1, <1>3 DEF Step

\* What writes objects and leaves the caches alone.
LEMMA StoreWritten ==
    ASSUME Ready, UNCHANGED controllerVars, UNCHANGED cacheVars, UserWrite, TaskWrite,
           StoreTypeOK', ApiTypeOK', RequestSteps
    PROVE  Step
<1>1. BuildStep /\ CacheStep /\ TaskSteps
  BY SameCaches, TasksWritten DEF BuildStep, cacheVars
<1>2. Grows
  BY <1>1, BuildStepGrows DEF Ready
<1>3. ControllerTypeOK' /\ WorkSteps /\ LeadersOK'
  BY <1>2, ControllersKept DEF cacheVars
<1> QED
  BY <1>1, <1>3 DEF Step

LEMMA ClientStep ==
    ASSUME Ready, UNCHANGED controllerVars, NEW c \in Clients, Ask(c) \/ Call(c) \/ Close(c)
    PROVE  Step
<1>1. CASE Ask(c)
  <2>1. UNCHANGED <<builds, tasks, cacheVars, feed>>
    BY <1>1, AskIsProper DEF Ready, Requested
  <2> QED
    BY <1>1, <2>1, AskTypes, StoreKept DEF Ready
<1>2. CASE Call(c)
  BY <1>2, CallTypes, StoreWritten DEF Ready, Call
<1>3. CASE Close(c)
  BY <1>3, CloseTypes, StoreKept DEF Ready, Close, storeVars, cacheVars
<1> QED
  BY <1>1, <1>2, <1>3

LEMMA ServiceStep ==
    ASSUME Ready, UNCHANGED controllerVars, NEW s \in Services,
           \/ \E b \in Builds : SeeBuild(s, b)
           \/ \E t \in Tasks : SeeTask(s, t)
           \/ StartService(s) \/ StopService(s)
    PROVE  Step
<1>1. s \notin Managers /\ s \in Processes
  BY ProcessesAssumption DEF Processes
<1>2. UNCHANGED builds => Grows
  BY DEF Grows
<1>3. ASSUME NEW b \in Builds, SeeBuild(s, b)
      PROVE  Step
  <2>1. StoreTypeOK' /\ ApiTypeOK' /\ RequestSteps
    BY <1>3, SeeBuildTypes DEF Ready
  <2>2. /\ UNCHANGED <<builds, tasks, watching, ctasks, feed>>
        /\ cbuilds' = [cbuilds EXCEPT ![s][b] = builds[b]]
    BY <1>3 DEF SeeBuild, ReceiveBuild
  <2>3. CacheStep /\ \A m \in Managers : cbuilds'[m] = cbuilds[m]
    BY <1>1, <2>2 DEF CacheStep, Ready, TypeOK, StoreTypeOK, Processes
  <2>4. ControllerTypeOK' /\ WorkSteps /\ LeadersOK'
    BY <1>2, <2>1, <2>2, <2>3, ControllersKept
  <2> QED
    BY <2>1, <2>2, <2>3, <2>4, SameBuilds, SameTasks DEF Step
<1>4. ASSUME NEW t \in Tasks, SeeTask(s, t)
      PROVE  Step
  <2>1. StoreTypeOK' /\ ApiTypeOK' /\ RequestSteps
    BY <1>4, SeeTaskTypes DEF Ready
  <2>2. /\ UNCHANGED <<builds, tasks, watching, cbuilds, feed>>
        /\ ctasks' = [ctasks EXCEPT ![s][t] = tasks[t]]
    BY <1>4 DEF SeeTask, ReceiveTask
  <2>3. \A m \in Managers : ctasks'[m] = ctasks[m]
    BY <1>1, <2>2 DEF Ready, TypeOK, StoreTypeOK, Processes
  <2>4. ControllerTypeOK' /\ WorkSteps /\ LeadersOK'
    BY <1>2, <2>1, <2>2, <2>3, ControllersKept
  <2>5. TaskSteps
    BY <2>2, <2>3 DEF TaskSteps, TaskStep
  <2> QED
    BY <2>1, <2>2, <2>4, <2>5, SameBuilds, SameCaches DEF Step
<1>5. CASE StartService(s)
  <2>1. StoreTypeOK' /\ ApiTypeOK' /\ RequestSteps
    BY <1>5, StartServiceTypes DEF Ready
  <2>2. Watch(s) /\ UNCHANGED builds /\ watching \subseteq watching'
    BY <1>5 DEF StartService, Watch
  <2>3. /\ BuildStep /\ CacheStep /\ TaskSteps
        /\ \A n \in Processes \ {s} : cbuilds'[n] = cbuilds[n] /\ ctasks'[n] = ctasks[n]
    BY <1>1, <2>2, WatchStep DEF Ready
  <2>4. ControllerTypeOK' /\ WorkSteps /\ LeadersOK'
    BY <1>1, <1>2, <2>1, <2>2, <2>3, ControllersKept DEF Processes
  <2> QED
    BY <2>1, <2>3, <2>4 DEF Step
<1>6. CASE StopService(s)
  <2>1. StoreTypeOK' /\ ApiTypeOK' /\ RequestSteps
    BY <1>6, StopServiceTypes DEF Ready
  <2>2. Unwatch(s) /\ UNCHANGED builds /\ Managers \intersect watching \subseteq watching'
    BY <1>1, <1>6 DEF StopService, Unwatch
  <2>3. /\ BuildStep /\ CacheStep /\ TaskSteps
        /\ \A n \in Processes \ {s} : cbuilds'[n] = cbuilds[n] /\ ctasks'[n] = ctasks[n]
    BY <1>1, <2>2, UnwatchStep DEF Ready
  <2>4. ControllerTypeOK' /\ WorkSteps /\ LeadersOK'
    BY <1>1, <1>2, <2>1, <2>2, <2>3, ControllersKept DEF Processes
  <2> QED
    BY <2>1, <2>3, <2>4 DEF Step
<1> QED
  BY <1>3, <1>4, <1>5, <1>6

LEMMA KubectlStep ==
    ASSUME Ready, Kubectl
    PROVE  Step
BY KubectlTypes, KubectlWrites, StoreWritten DEF Ready, Kubectl

LEMMA NextStep ==
    ASSUME Ready, Next
    PROVE  Step
<1>1. CASE ControllerNext /\ UNCHANGED apiVars
  BY <1>1, ControllerNextStep
<1>2. CASE ApiNext /\ UNCHANGED controllerVars
  BY <1>2, ClientStep, ServiceStep DEF ApiNext, Ask
<1> QED
  BY <1>1, <1>2, KubectlStep DEF Next

-----------------------------------------------------------------------------
(* The parts of the invariant, from the aspects of a step. *)

LEMMA CallsKept ==
    ASSUME CallsOK, RequestSteps
    PROVE  CallsOK'
<1> SUFFICES ASSUME NEW c \in Clients, Calling(c)'
             PROVE  Callable(req'[c].op, req'[c].name, req'[c].body)
  BY DEF CallsOK, Callable
<1>1. CASE req'[c] = req[c]
  BY <1>1 DEF CallsOK, Callable, Calling
<1>2. CASE Proper(c, req'[c])
  BY <1>2 DEF Proper, Calling
<1> QED
  BY <1>1, <1>2 DEF RequestSteps, RequestStep, Calling

LEMMA AnswersKept ==
    ASSUME AnswersOK, RequestSteps
    PROVE  AnswersOK'
<1> SUFFICES ASSUME NEW c \in Clients, Answered(c)'
             PROVE  Documented(req'[c].op, req'[c].codes)
  BY DEF AnswersOK, Documented
<1>1. CASE req'[c] = req[c]
  BY <1>1 DEF AnswersOK, Documented, Answered
<1>2. CASE Proper(c, req'[c])
  BY <1>2 DEF Proper, Answered
<1> QED
  BY <1>1, <1>2 DEF RequestSteps, RequestStep, Answered, Quiet

LEMMA VersionsKept ==
    ASSUME Ready, Step
    PROVE  VersionsOK'
<1>1. builds \in [Builds -> Build] /\ builds' \in [Builds -> Build] /\ Grows
  BY BuildStepGrows DEF Ready, Step, TypeOK, StoreTypeOK
<1>2. \A b \in Builds : Earlier(NoBuild, b)'
  <2>1. \A b \in Builds : Earlier(NoBuild, b)
    BY DEF Ready, VersionsOK
  <2> QED
    BY <1>1, <2>1, BuildTypes, EarlierKept DEF Earlier
<1>3. ASSUME NEW p \in Processes, NEW b \in Builds
      PROVE  Earlier(cbuilds[p][b], b)'
  <2> DEFINE v == cbuilds'[p][b]
  <2>1. cbuilds[p][b] \in Build /\ Earlier(cbuilds[p][b], b)
    BY DEF Ready, TypeOK, StoreTypeOK, VersionsOK
  <2>2. builds'[b] \in Build
    BY <1>1
  <2>3. CASE v = cbuilds[p][b]
    BY <1>1, <2>1, <2>3, EarlierKept DEF Earlier
  <2>4. CASE v = NoBuild
    BY <1>2, <2>4 DEF Earlier
  <2>5. CASE v = builds'[b]
    BY <2>2, <2>5 DEF Earlier, Build
  <2> QED
    BY <2>3, <2>4, <2>5 DEF Step, CacheStep
<1>4. ASSUME NEW c \in Clients, Calling(c)', req'[c].op = "UpdateEnvironmentBuild"
      PROVE  Earlier(req[c].seen, req[c].name)'
  <2>1. CASE req'[c] = req[c]
    <3>1. /\ req[c].seen \in Build /\ Earlier(req[c].seen, req[c].name)
          /\ req[c].name \in Builds
      BY <1>4, <2>1 DEF Ready, TypeOK, ApiTypeOK, VersionsOK, CallsOK, TaskWrites, Calling
    <3> QED
      BY <1>1, <2>1, <3>1, EarlierKept DEF Earlier
  <2>2. CASE Proper(c, req'[c]) /\ UNCHANGED <<builds, cbuilds>>
    <3>1. /\ req'[c].name \in Builds
          /\ req'[c].seen = cbuilds'[Server[c]][req'[c].name]
      BY <1>4, <2>2 DEF Proper, Calling, Callable, TaskWrites
    <3>2. Server[c] \in Processes
      BY ApiAssumption DEF Processes
    <3> QED
      BY <1>3, <3>1, <3>2 DEF Earlier
  <2> QED
    BY <1>4, <2>1, <2>2 DEF Step, RequestSteps, RequestStep, Calling
<1> QED
  BY <1>2, <1>3, <1>4 DEF VersionsOK

\* All numbers of tasks in h are numbers b has had.
Past(h, n) == \A i \in 0..n, b \in Builds : Number(h[i], b) \in past[b]

Histories(m) == {h \in [0..Len(feed[m]) -> TaskMaps] : History(m, h) /\ Past(h, Len(feed[m]))}

PastGrows == past' = [b \in Builds |-> past[b] \union {Number(tasks', b)}]

LEMMA FeedLength ==
    ASSUME StoreTypeOK, NEW m \in Managers
    PROVE  /\ feed[m] \in Seq([task : Tasks, ref : TaskRefs])
           /\ Len(feed[m]) \in Nat
BY LenProperties DEF StoreTypeOK

LEMMA HistoryAtStart ==
    ASSUME TypeOK, StoreTypeOK', PastGrows, NEW m \in Managers, feed[m] = <<>>, Watch(m)
    PROVE  Histories(m)' # {}
<1>1. feed'[m] = <<>> /\ ctasks'[m] = tasks /\ tasks' = tasks
  BY DEF Watch, TypeOK, StoreTypeOK, Processes
<1>2. Len(feed'[m]) = 0
  BY <1>1
<1>3. PICK h \in [0..0 -> TaskMaps] : h[0] = tasks
  <2>1. tasks \in TaskMaps
    BY DEF TypeOK, StoreTypeOK, TaskMaps
  <2>2. [i \in 0..0 |-> tasks] \in [0..0 -> TaskMaps]
    BY <2>1
  <2>3. [i \in 0..0 |-> tasks][0] = tasks
    OBVIOUS
  <2> QED
    BY <2>2, <2>3
<1>4. Past(h, 0)'
  BY <1>1, <1>3 DEF Past, PastGrows
<1>5. History(m, h)'
  BY <1>1, <1>2, <1>3 DEF History
<1> QED
  BY <1>2, <1>3, <1>4, <1>5 DEF Histories

LEMMA HistorySame ==
    ASSUME PastGrows, TypeOK, NEW m \in Managers, Histories(m) # {},
           tasks' = tasks, feed'[m] = feed[m], ctasks'[m] = ctasks[m]
    PROVE  Histories(m)' # {}
<1>n. PICK n : n = Len(feed[m])
  OBVIOUS
<1>1. PICK h \in [0..n -> TaskMaps] : History(m, h) /\ Past(h, n)
  BY <1>n DEF Histories
<1>2. History(m, h)'
  BY <1>n, <1>1 DEF History
<1>3. Past(h, n)'
  BY <1>1 DEF Past, PastGrows
<1> QED
  BY <1>n, <1>1, <1>2, <1>3 DEF Histories

LEMMA HistoryWritten ==
    ASSUME TypeOK, StoreTypeOK', PastGrows, NEW m \in Managers, m \in watching,
           NEW t \in Tasks, NEW ref \in TaskRefs, StoreTask(t, ref),
           ctasks' = ctasks, Histories(m) # {}
    PROVE  Histories(m)' # {}
<1> DEFINE e == [task |-> t, ref |-> ref]
<1>2. feed[m] \in Seq([task : Tasks, ref : TaskRefs])
  BY FeedLength DEF TypeOK
<1>n. PICK n \in Nat : n = Len(feed[m])
  BY FeedLength DEF TypeOK
<1>1. PICK h \in [0..n -> TaskMaps] : History(m, h) /\ Past(h, n)
  BY <1>n DEF Histories
<1>3. feed'[m] = Append(feed[m], e) /\ tasks' = [tasks EXCEPT ![t] = ref]
  BY DEF StoreTask
<1>4. /\ e \in [task : Tasks, ref : TaskRefs] /\ e.task = t /\ e.ref = ref
  OBVIOUS
<1> HIDE DEF e
<1>5. /\ Len(feed'[m]) = n + 1
      /\ \A i \in 1..n : feed'[m][i] = feed[m][i]
      /\ feed'[m][n + 1] = e
  BY <1>n, <1>2, <1>3, <1>4, AppendProperties
<1>7. PICK k \in [0..(n + 1) -> TaskMaps] : /\ \A i \in 0..n : k[i] = h[i]
                                          /\ k[n + 1] = tasks'
  <2> DEFINE f == [i \in 0..(n + 1) |-> IF i = n + 1 THEN tasks' ELSE h[i]]
  <2>1. tasks' \in TaskMaps
    BY DEF StoreTypeOK, TaskMaps
  <2>2. f \in [0..(n + 1) -> TaskMaps]
    BY <1>1, <2>1
  <2>3. (\A i \in 0..n : f[i] = h[i]) /\ f[n + 1] = tasks'
    OBVIOUS
  <2> HIDE DEF f
  <2> QED
    BY <2>2, <2>3
<1>8. History(m, k)'
  <2>1. k[0] = ctasks'[m]
    BY <1>n, <1>1, <1>2, <1>7 DEF History
  <2>2. k[Len(feed'[m])] = tasks'
    BY <1>5, <1>7
  <2>3. ASSUME NEW i \in 1..(n + 1)
        PROVE  k[i] = [k[i - 1] EXCEPT ![feed'[m][i].task] = feed'[m][i].ref]
    <3>1. CASE i = n + 1
      <4>1. k[i - 1] = tasks
        BY <1>n, <1>1, <1>2, <1>7, <3>1 DEF History
      <4> QED
        BY <1>3, <1>4, <1>5, <1>7, <3>1, <4>1
    <3>2. CASE i \in 1..n
      <4>1. k[i] = h[i] /\ k[i - 1] = h[i - 1]
        BY <1>2, <1>7, <3>2
      <4> QED
        BY <1>n, <1>1, <1>5, <3>2, <4>1 DEF History
    <3> QED
      BY <1>2, <3>1, <3>2
  <2> QED
    BY <1>n, <1>5, <2>1, <2>2, <2>3 DEF History
<1>9. Past(k, n + 1)'
  <2>1. \A b \in Builds : past[b] \subseteq past'[b] /\ Number(tasks', b) \in past'[b]
    BY DEF PastGrows
  <2>2. ASSUME NEW i \in 0..(n + 1), NEW b \in Builds
        PROVE  Number(k[i], b) \in past'[b]
    <3>1. CASE i = n + 1
      BY <1>7, <2>1, <3>1
    <3>2. CASE i \in 0..n
      BY <1>1, <1>7, <2>1, <3>2 DEF Past
    <3> QED
      BY <1>2, <3>1, <3>2
  <2> QED
    BY <2>2 DEF Past
<1> QED
  BY <1>5, <1>7, <1>8, <1>9 DEF Histories

LEMMA HistoryReceived ==
    ASSUME TypeOK, StoreTypeOK', PastGrows, NEW m \in Managers, ReceiveInOrder(m),
           Histories(m) # {}
    PROVE  Histories(m)' # {}
<1>2. feed[m] \in Seq([task : Tasks, ref : TaskRefs]) /\ feed[m] # <<>>
  BY FeedLength DEF TypeOK, ReceiveInOrder
<1>n. PICK n \in Nat : n = Len(feed[m])
  BY FeedLength DEF TypeOK
<1>1. PICK h \in [0..n -> TaskMaps] : History(m, h) /\ Past(h, n)
  BY <1>n DEF Histories
<1>3. /\ feed'[m] = Tail(feed[m]) /\ tasks' = tasks
      /\ ctasks'[m] = [ctasks[m] EXCEPT ![feed[m][1].task] = feed[m][1].ref]
  <2>1. Head(feed[m]) = feed[m][1]
    BY <1>2
  <2> QED
    BY <2>1 DEF ReceiveInOrder, TypeOK, StoreTypeOK, Processes
<1>4. /\ Len(feed'[m]) = n - 1 /\ n # 0
      /\ \A i \in 1..(n - 1) : feed'[m][i] = feed[m][i + 1]
  BY <1>n, <1>2, <1>3, HeadTailProperties, EmptySeq
<1>6. PICK k \in [0..(n - 1) -> TaskMaps] : \A i \in 0..(n - 1) : k[i] = h[i + 1]
  <2>1. [i \in 0..(n - 1) |-> h[i + 1]] \in [0..(n - 1) -> TaskMaps]
    BY <1>1
  <2> QED
    BY <2>1
<1>7. History(m, k)'
  <2>1. k[0] = ctasks'[m]
    <3>1. k[0] = h[0 + 1] /\ 1 \in 1..n
      BY <1>4, <1>6
    <3>2. h[1] = [h[1 - 1] EXCEPT ![feed[m][1].task] = feed[m][1].ref]
      BY <1>n, <1>1, <3>1 DEF History
    <3>3. h[1 - 1] = ctasks[m]
      BY <1>1 DEF History
    <3> QED
      BY <1>3, <3>1, <3>2, <3>3
  <2>2. k[Len(feed'[m])] = tasks'
    BY <1>n, <1>1, <1>3, <1>4, <1>6 DEF History
  <2>3. ASSUME NEW i \in 1..(n - 1)
        PROVE  k[i] = [k[i - 1] EXCEPT ![feed'[m][i].task] = feed'[m][i].ref]
    <3>1. k[i] = h[i + 1] /\ k[i - 1] = h[i] /\ i + 1 \in 1..n /\ (i + 1) - 1 = i
      BY <1>2, <1>6
    <3>2. h[i + 1] = [h[i] EXCEPT ![feed[m][i + 1].task] = feed[m][i + 1].ref]
      BY <1>n, <1>1, <3>1 DEF History
    <3> QED
      BY <1>4, <3>1, <3>2
  <2> QED
    BY <1>n, <1>4, <2>1, <2>2, <2>3 DEF History
<1>8. Past(k, n - 1)'
  <2>1. \A b \in Builds : past[b] \subseteq past'[b]
    BY DEF PastGrows
  <2>2. ASSUME NEW i \in 0..(n - 1), NEW b \in Builds
        PROVE  Number(k[i], b) \in past'[b]
    <3>1. k[i] = h[i + 1] /\ i + 1 \in 0..n
      BY <1>2, <1>6
    <3> QED
      BY <1>1, <2>1, <3>1 DEF Past
  <2> QED
    BY <2>2 DEF Past
<1> QED
  BY <1>4, <1>6, <1>7, <1>8 DEF Histories

LEMMA HistoriesKept ==
    ASSUME Ready, Step, PastGrows, NEW m \in Managers, m \in watching'
    PROVE  Histories(m)' # {}
<1>1. TypeOK /\ StoreTypeOK'
  BY DEF Ready, Step
<1>2. m \in watching => Histories(m) # {}
  BY DEF Ready, CountsOK, Histories, Past
<1>3. m \notin watching => feed[m] = <<>>
  BY DEF Ready, CountsOK
<1>4. CASE TaskWrite /\ UNCHANGED <<watching, ctasks>>
  <2>1. ASSUME NEW t \in Tasks, NEW ref \in TaskRefs, StoreTask(t, ref)
        PROVE  Histories(m)' # {}
    BY <1>1, <1>2, <1>4, <2>1, HistoryWritten
  <2>2. CASE UNCHANGED <<tasks, feed>>
    BY <1>1, <1>2, <1>4, <2>2, HistorySame
  <2> QED
    BY <1>4, <2>1, <2>2 DEF TaskWrite
<1>5. CASE /\ tasks' = tasks /\ feed'[m] = feed[m] /\ ctasks'[m] = ctasks[m]
           /\ m \in watching' <=> m \in watching
  BY <1>1, <1>2, <1>5, HistorySame
<1>6. CASE Watch(m)
  <2>1. m \notin watching
    BY <1>6 DEF Watch
  <2> QED
    BY <1>1, <1>3, <1>6, <2>1, HistoryAtStart
<1>7. CASE ReceiveInOrder(m) /\ UNCHANGED watching
  BY <1>1, <1>2, <1>7, HistoryReceived
<1> QED
  BY <1>4, <1>5, <1>6, <1>7 DEF Step, TaskSteps, TaskStep

LEMMA FeedsKept ==
    ASSUME Ready, Step, NEW m \in Managers, m \notin watching'
    PROVE  feed'[m] = <<>>
<1>1. m \notin watching => feed[m] = <<>>
  BY DEF Ready, CountsOK
<1>2. CASE TaskWrite /\ UNCHANGED <<watching, ctasks>>
  BY <1>1, <1>2 DEF TaskWrite, StoreTask
<1>3. CASE Watch(m)
  BY <1>3 DEF Watch
<1>4. CASE ReceiveInOrder(m) /\ UNCHANGED watching
  BY <1>1, <1>4 DEF ReceiveInOrder
<1> QED
  BY <1>1, <1>2, <1>3, <1>4 DEF Step, TaskSteps, TaskStep

\* What a leader counts is a number its build has had.
LEMMA CountedBefore ==
    ASSUME Ready, NEW m \in lead, NEW b \in Builds
    PROVE  Number(ctasks[m], b) \in past[b]
<1>1. m \in Managers \intersect watching
  BY DEF Ready, TypeOK, ControllerTypeOK
<1>2. PICK h \in [0..Len(feed[m]) -> TaskMaps] :
          /\ History(m, h)
          /\ \A i \in 0..Len(feed[m]), c \in Builds : Number(h[i], c) \in past[c]
  BY <1>1 DEF Ready, CountsOK
<1>3. Len(feed[m]) \in Nat
  BY <1>1, FeedLength DEF Ready, TypeOK
<1> QED
  BY <1>2, <1>3 DEF History

LEMMA CountsKept ==
    ASSUME Ready, Step, PastGrows
    PROVE  CountsOK'
<1>1. \A b \in Builds : past[b] \subseteq past'[b] /\ Number(tasks', b) \in past'[b]
  BY DEF PastGrows
<1>2. \A m \in Managers \ watching' : feed'[m] = <<>>
  BY FeedsKept
<1>3. \A m \in Managers \intersect watching' : Histories(m)' # {}
  BY HistoriesKept
<1>4. ASSUME NEW m \in Managers, Busy(m)'
      PROVE  work'[m].obj.count \in past'[work'[m].name]
  <2>1. CASE work'[m] = work[m]
    <3>1. Busy(m)
      BY <1>4, <2>1 DEF Busy
    <3>2. work[m].name \in Builds /\ work[m].obj.count \in past[work[m].name]
      BY <3>1 DEF Ready, TypeOK, ControllerTypeOK, CountsOK, Busy, Write
    <3> QED
      BY <1>1, <2>1, <3>2
  <2>2. CASE work'[m] # work[m]
    <3>1. m \in lead /\ work'[m].name \in Builds
          /\ work'[m].obj.count = Number(ctasks[m], work'[m].name)
      <4>1. WorkStep(m) /\ work'[m] # Idle
        BY <1>4 DEF Step, WorkSteps, Busy
      <4>2. PICK b \in Builds, o \in Build : /\ work'[m] = [name |-> b, obj |-> o]
                                            /\ o.count = Number(ctasks[m], b)
        BY <2>2, <4>1 DEF WorkStep
      <4> QED
        BY <2>2, <4>1, <4>2 DEF WorkStep
    <3> QED
      BY <1>1, <3>1, CountedBefore
  <2> QED
    BY <2>1, <2>2
<1>5. ASSUME NEW w \in adrift'
      PROVE  w.obj.count \in past'[w.name]
  <2>1. w \in Write
    BY DEF Step, ControllerTypeOK
  <2>2. w.name \in Builds
    BY <2>1 DEF Write
  <2>3. w.obj.count \in past[w.name]
    BY DEF Step, WorkSteps, Ready, CountsOK
  <2> QED
    BY <1>1, <2>2, <2>3
<1>6. \A m \in Managers \intersect watching' :
          (\E h \in [0..Len(feed[m]) -> TaskMaps] :
              /\ History(m, h)
              /\ \A i \in 0..Len(feed[m]), b \in Builds : Number(h[i], b) \in past[b])'
  BY <1>3 DEF Histories, Past
<1> QED
  BY <1>1, <1>2, <1>4, <1>5, <1>6 DEF CountsOK

-----------------------------------------------------------------------------
(* Theorems. *)

LEMMA InvIsReady == IInv <=> Ready /\ AnswersOK
BY LeadersOKDef DEF IInv, Ready

LEMMA InvInit == Init => IInv
<1> SUFFICES ASSUME Init PROVE IInv
  OBVIOUS
<1> USE DEF Init, StoreInit, ControllerInit, ApiInit
<1>1. StoreTypeOK
  <2>1. \A m \in Managers : <<>> \in Seq([task : Tasks, ref : TaskRefs])
    BY EmptySeq
  <2> QED
    BY <2>1, NoTypes DEF StoreTypeOK
<1>2. ControllerTypeOK
  BY DEF ControllerTypeOK
<1>3. ApiTypeOK
  <2>1. Quiet \in [op : Routes \union {"none"},
                   name : Builds \union Tasks \union {Unnamed},
                   body : BuildBody \union TaskBody \union {Malformed},
                   seen : Build,
                   codes : Seq({200, 201, 400, 404, 500})]
    BY BuildTypes, EmptySeq DEF Quiet
  <2> QED
    BY <2>1 DEF ApiTypeOK
<1>4. TypeOK
  BY <1>1, <1>2, <1>3 DEF TypeOK
<1>5. CallsOK /\ AnswersOK
  BY DEF CallsOK, AnswersOK, Calling, Answered, Quiet
<1>6. VersionsOK
  BY <1>5 DEF VersionsOK, Earlier, NoBuilds, NoBuild, Calling
<1>7. CountsOK
  BY NoTasksNumber DEF CountsOK, Busy
<1>8. LeadersOK
  BY DEF LeadersOK
<1> QED
  BY <1>4, <1>5, <1>6, <1>7, <1>8, InvIsReady DEF Ready

LEMMA InvNext == IInv /\ [Next]_vars => IInv'
<1>1. ASSUME IInv, Next
      PROVE  IInv'
  <2>1. Ready /\ AnswersOK
    BY <1>1, InvIsReady
  <2>2. Step
    BY <1>1, <2>1, NextStep
  <2>3. PastGrows
    BY <1>1 DEF Next, PastGrows
  <2>4. TypeOK'
    <3>1. past' \in [Builds -> SUBSET Nat]
      BY <2>1, <2>3, NumberType DEF PastGrows, Ready, TypeOK
    <3> QED
      BY <2>2, <3>1 DEF Step, TypeOK
  <2>5. CallsOK' /\ AnswersOK'
    BY <2>1, <2>2, CallsKept, AnswersKept DEF Ready, Step
  <2>6. VersionsOK' /\ CountsOK' /\ LeadersOK'
    BY <2>1, <2>2, <2>3, VersionsKept, CountsKept DEF Step
  <2>7. WritesOK' /\ NoLostRecount'
    BY <2>6 DEF LeadersOK, Watched, WritesOK, NoLostRecount
  <2> QED
    BY <2>4, <2>5, <2>6, <2>7 DEF IInv
<1>2. ASSUME IInv, UNCHANGED vars
      PROVE  IInv'
  <2>1. UNCHANGED <<builds, tasks, watching, cbuilds, ctasks, feed, faults,
                    lead, queue, timer, work, adrift, req, acts, past>>
    BY <1>2 DEF vars, storeVars, controllerVars, apiVars
  <2>2. CallsOK' /\ AnswersOK'
    BY <1>2, <2>1, SameRequests, CallsKept, AnswersKept DEF IInv
  <2>6. TypeOK'
    BY <1>2, <2>1 DEF IInv, TypeOK, StoreTypeOK, ControllerTypeOK, ApiTypeOK
  <2>3. VersionsOK'
    BY <1>2, <2>1 DEF IInv, VersionsOK, Earlier, Calling
  <2>4. WritesOK' /\ NoLostRecount'
    BY <1>2, <2>1 DEF IInv, WritesOK, NoLostRecount
  <2>5. CountsOK'
    <3>1. ASSUME NEW m \in Managers \intersect watching'
          PROVE  (\E h \in [0..Len(feed[m]) -> TaskMaps] :
                     /\ History(m, h)
                     /\ \A i \in 0..Len(feed[m]), b \in Builds : Number(h[i], b) \in past[b])'
      <4>1. PICK h \in [0..Len(feed[m]) -> TaskMaps] :
                /\ History(m, h)
                /\ \A i \in 0..Len(feed[m]), b \in Builds : Number(h[i], b) \in past[b]
        BY <1>2, <2>1 DEF IInv, CountsOK
      <4>2. History(m, h)'
        BY <2>1, <4>1 DEF History
      <4> QED
        BY <2>1, <4>1, <4>2
    <3> QED
      BY <1>2, <2>1, <3>1 DEF IInv, CountsOK, Busy
  <2> QED
    BY <2>2, <2>3, <2>4, <2>5, <2>6 DEF IInv
<1> QED
  BY <1>1, <1>2

\* What caches, writes and requests hold is earlier, counted once and documented
\* (environmentbuild_controller.go:39-106, service.go:80-329).
THEOREM Inductive == Spec => []IInv
BY InvInit, InvNext, PTL DEF Spec

\* The store, the caches, queues, writes and requests keep their types.
THEOREM Typing == Spec => []TypeOK
BY Inductive, PTL DEF IInv

\* The early return of Reconcile (environmentbuild_controller.go:58) loses no
\* count: a leader that sees a wrong one will look at it again.
THEOREM RecountsAreKept == Spec => []NoLostRecount
BY Inductive, PTL DEF IInv

\* A request that is answered is answered once, and with a status that is
\* documented for its route, but for the two ways the findings name: PUT gives 500
\* if it cannot read the build, and GetTask writes a second body
\* (service.go:80-329, docs.go:21-250).
THEOREM AnswersAreKnown == Spec => []AnswersOK
BY Inductive, PTL DEF IInv

-----------------------------------------------------------------------------
(* What changes the spec of a build.                                         *)

\* The update of a PUT that is carried out.
LEMMA PutReplaces ==
    ASSUME IInv, NEW c \in Clients, NEW b \in Builds, Puts(c, b),
           Possible(req[c]), Effect(req[c])
    PROVE  Replaces(c, b)
<1>0. Calling(c) /\ req[c].op = "UpdateEnvironmentBuild" /\ req[c].name = b
  BY DEF Puts
<1> DEFINE r == req[c]
<1>1. /\ r.seen \in Build /\ r.body.spec \in BuildSpecs
      /\ builds \in [Builds -> Build]
      /\ Earlier(r.seen, b)
  <2>1. r.seen \in Build /\ builds \in [Builds -> Build]
    BY DEF IInv, TypeOK, ApiTypeOK, StoreTypeOK
  <2>2. r.body \in BuildBody
    BY <1>0 DEF IInv, CallsOK, TaskWrites
  <2>3. Earlier(r.seen, b)
    BY <1>0 DEF IInv, VersionsOK
  <2> QED
    BY <2>1, <2>2, <2>3 DEF BuildBody
<1>2. /\ Accepted(b, Sent(r))
      /\ StoreSpec(b, Sent(r))
  BY <1>0 DEF Possible, Effect
<1>3. Sent(r).rv = r.seen.rv /\ Sent(r).spec = r.body.spec
  BY <1>1 DEF Sent, Build
<1>4. builds[b] = r.seen
  BY <1>1, <1>2, <1>3 DEF Accepted, Earlier
<1> DEFINE new == [builds[b] EXCEPT !.spec = r.body.spec]
<1>5. /\ new \in Build /\ new.spec = r.body.spec
      /\ new.count = builds[b].count /\ new.there = builds[b].there
  <2>1. builds[b] \in Build
    BY <1>1
  <2> QED
    BY <1>1, <2>1, BuildTypes DEF Build
<1>6. StoreBuild(b, new) /\ builds[b].there
  BY <1>2, <1>3 DEF StoreSpec, Accepted
<1> HIDE DEF new
<1>7. /\ builds'[b].spec = new.spec /\ builds'[b].count = new.count
      /\ builds'[b].there = new.there
  BY <1>1, <1>5, <1>6, BuildStored
<1> QED
  BY <1>4, <1>5, <1>6, <1>7 DEF Replaces

LEMMA PutIsExact ==
    ASSUME IInv, NEW c \in Clients, NEW b \in Builds, Call(c), Puts(c, b)
    PROVE  req'[c].codes = <<200>> => Replaces(c, b)
<1>0. HAVE req'[c].codes = <<200>>
<1>1. \A code \in Nat : req' = [req EXCEPT ![c].codes = <<code>>] => code = 200
  BY <1>0 DEF IInv, TypeOK, ApiTypeOK
<1>2. Refusal(req[c].op) = 400
  BY DEF Refusal, Puts
<1>3. Possible(req[c]) /\ Effect(req[c])
  BY <1>0, <1>1, <1>2 DEF Call
<1> QED
  BY <1>3, PutReplaces

\* The build goes, comes, or has the spec it had.
SpecStays(b) == builds[b].there /\ builds'[b].there => builds'[b].spec = builds[b].spec

LEMMA OtherWritesKeepSpecs ==
    ASSUME builds \in [Builds -> Build],
           \/ UNCHANGED builds
           \/ \E a \in Builds : Creates(a) \/ Deletes(a)
           \/ \E w \in Write : StatusWrite(w)
    PROVE  \A b \in Builds : SpecStays(b)
<1>1. CASE UNCHANGED builds
  BY <1>1 DEF SpecStays
<1>2. ASSUME NEW a \in Builds, NEW new \in Build, StoreBuild(a, new),
             builds[a].there /\ new.there => new.spec = builds[a].spec
      PROVE  \A b \in Builds : SpecStays(b)
  BY <1>2, BuildStored DEF SpecStays
<1>3. ASSUME NEW a \in Builds, Creates(a)
      PROVE  \A b \in Builds : SpecStays(b)
  BY <1>2, <1>3, BuildTypes DEF Creates
<1>4. ASSUME NEW a \in Builds, Deletes(a)
      PROVE  \A b \in Builds : SpecStays(b)
  <2>1. NoBuild \in Build /\ ~NoBuild.there
    BY BuildTypes DEF NoBuild
  <2> QED
    BY <1>2, <1>4, <2>1 DEF Deletes
<1>5. ASSUME NEW w \in Write, StatusWrite(w)
      PROVE  \A b \in Builds : SpecStays(b)
  <2>1. CASE UNCHANGED builds
    BY <1>1, <2>1
  <2>2. CASE Recounts(w.name, w.obj.count)
    <3> DEFINE new == [builds[w.name] EXCEPT !.count = w.obj.count]
    <3>1. w.name \in Builds /\ w.obj.count \in Nat /\ builds[w.name] \in Build
      BY DEF Write, Build
    <3>2. new \in Build /\ new.spec = builds[w.name].spec
      BY <3>1, BuildTypes DEF Build
    <3>3. StoreBuild(w.name, new)
      BY <2>2 DEF Recounts
    <3> HIDE DEF new
    <3> QED
      BY <1>2, <3>1, <3>2, <3>3
  <2> QED
    BY <1>5, <2>1, <2>2 DEF StatusWrite
<1> QED
  BY <1>1, <1>3, <1>4, <1>5

\* A call that is carried out writes for a PUT, or leaves specs alone.
LEMMA CallsAndSpecs ==
    ASSUME IInv, NEW c \in Clients, Call(c), NEW b \in Builds, ~SpecStays(b)
    PROVE  Puts(c, b) /\ Replaces(c, b)
<1> DEFINE r == req[c]
<1>0. builds \in [Builds -> Build] /\ CallsOK
  BY DEF IInv, TypeOK, StoreTypeOK
<1>1. Possible(r) /\ Effect(r) /\ Calling(c)
  <2>1. ~UNCHANGED builds
    BY <1>0, OtherWritesKeepSpecs
  <2> QED
    BY <2>1 DEF Call
<1>2. ~UNCHANGED builds /\ ~(\E a \in Builds : Creates(a) \/ Deletes(a))
  BY <1>0, OtherWritesKeepSpecs
<1>3. CASE r.op = "CreateEnvironmentBuild"
  <2>1. Creates(r.name) /\ r.name \in Builds
    BY <1>0, <1>1, <1>3 DEF CallsOK, BuildWrites, TaskWrites, Possible, Effect, Creates
  <2> QED
    BY <1>2, <2>1
<1>4. CASE r.op = "DeleteEnvironmentBuild"
  <2>1. Deletes(r.name) /\ r.name \in Builds
    BY <1>0, <1>1, <1>4 DEF CallsOK, BuildWrites, TaskWrites, Effect, Deletes
  <2> QED
    BY <1>2, <2>1
<1>5. CASE r.op \in TaskWrites
  <2>1. UNCHANGED builds
    BY <1>1, <1>5 DEF TaskWrites, Effect
  <2> QED
    BY <1>2, <2>1
<1>6. CASE r.op = "UpdateEnvironmentBuild"
  <2>1. r.name \in Builds /\ Puts(c, r.name)
    BY <1>0, <1>1, <1>6 DEF CallsOK, TaskWrites, Puts
  <2>2. Replaces(c, r.name)
    BY <1>1, <2>1, PutReplaces
  <2>3. b = r.name
    <3>1. \A a \in Builds \ {r.name} : builds'[a] = builds[a]
      <4>1. [builds[r.name] EXCEPT !.spec = Sent(r).spec] \in Build
        <5>1. r.seen \in Build /\ r.body \in BuildBody
          BY <1>0, <1>1, <1>6 DEF IInv, TypeOK, ApiTypeOK, CallsOK, TaskWrites
        <5>2. Sent(r).spec = r.body.spec /\ r.body.spec \in BuildSpecs
          BY <5>1 DEF Sent, Build, BuildBody
        <5>3. builds[r.name] \in Build
          BY <1>0, <2>1
        <5> QED
          BY <5>2, <5>3, BuildTypes
      <4>2. StoreBuild(r.name, [builds[r.name] EXCEPT !.spec = Sent(r).spec])
        BY <1>1, <1>6 DEF Effect, StoreSpec
      <4> QED
        BY <1>0, <2>1, <4>1, <4>2, BuildStored
    <3> QED
      BY <3>1 DEF SpecStays
  <2> QED
    BY <2>1, <2>2, <2>3
<1> QED
  BY <1>0, <1>1, <1>3, <1>4, <1>5, <1>6 DEF CallsOK, BuildWrites

\* All other steps leave specs alone.
LEMMA SpecsAndSteps ==
    ASSUME IInv, Next, ~(\E c \in Clients : Call(c))
    PROVE  \A b \in Builds : SpecStays(b)
<1>0. TypeOK /\ builds \in [Builds -> Build]
  BY DEF IInv, TypeOK, StoreTypeOK
<1>1. CASE ControllerNext
  <2>1. UNCHANGED builds \/ \E w \in Write : StatusWrite(w)
    <3>1. ASSUME NEW m \in Managers, ControllerStep(m)
          PROVE  UNCHANGED builds \/ \E w \in Write : StatusWrite(w)
      <4>1. CASE UpdateStatus(m)
        BY <1>0, <4>1, UpdateStatusWrites
      <4>2. CASE UNCHANGED builds
        BY <4>2
      <4> QED
        BY <3>1, <4>1, <4>2
           DEF ControllerStep, Reconcile, TimerFires, DeliverBuild, DeliverTask, StartManager,
               Lead, StopManager, ReceiveBuild, ReceiveInOrder, Watch, Unwatch, storeVars
    <3>2. ASSUME NEW w \in adrift, LandStatus(w)
          PROVE  UNCHANGED builds \/ \E v \in Write : StatusWrite(v)
      BY <1>0, <3>2, LandStatusWrites
    <3> QED
      BY <1>1, <3>1, <3>2 DEF ControllerNext
  <2> QED
    BY <1>0, <2>1, OtherWritesKeepSpecs
<1>2. CASE Kubectl
  <2>1. UNCHANGED builds \/ \E a \in Builds : Creates(a) \/ Deletes(a)
    BY <1>2 DEF Kubectl, EditTask, EditBuild, Creates, Deletes
  <2> QED
    BY <1>0, <2>1, OtherWritesKeepSpecs
<1>3. CASE ApiNext
  <2>1. UNCHANGED builds
    <3>1. ASSUME NEW c \in Clients, Ask(c)
          PROVE  UNCHANGED builds
      BY <1>0, <3>1, AskIsProper DEF Requested
    <3>2. ASSUME NEW c \in Clients, Close(c)
          PROVE  UNCHANGED builds
      BY <3>2 DEF Close, storeVars
    <3>3. ASSUME NEW s \in Services,
                 \/ \E b \in Builds : SeeBuild(s, b)
                 \/ \E t \in Tasks : SeeTask(s, t)
                 \/ StartService(s) \/ StopService(s)
          PROVE  UNCHANGED builds
      BY <3>3 DEF SeeBuild, SeeTask, StartService, StopService, ReceiveBuild, ReceiveTask, Watch,
                  Unwatch
    <3> QED
      BY <1>3, <3>1, <3>2, <3>3 DEF ApiNext, Ask
  <2> QED
    BY <1>0, <2>1, OtherWritesKeepSpecs
<1> QED
  BY <1>1, <1>2, <1>3 DEF Next

\* Only its call answers a request that waits for one.
LEMMA CallAnswers ==
    ASSUME IInv, Next, NEW c \in Clients, Calling(c), ~Call(c)
    PROVE  req'[c] \in {req[c], Quiet}
<1>1. req[c] # Quiet /\ req[c].codes = <<>>
  BY DEF Calling
<1>2. ASSUME NEW d \in Clients, Ask(d)
      PROVE  req'[c] = req[c]
  <2>1. PICK r : Requested(d, r)
    BY <1>2, AskIsProper DEF IInv
  <2> QED
    BY <1>1, <2>1 DEF Requested, IInv, TypeOK, ApiTypeOK
<1>3. ASSUME NEW d \in Clients, Call(d)
      PROVE  req'[c] = req[c]
  <2>1. c # d /\ \E code : req' = [req EXCEPT ![d].codes = <<code>>]
    BY <1>3 DEF Call
  <2> QED
    BY <2>1 DEF IInv, TypeOK, ApiTypeOK
<1>4. ASSUME NEW d \in Clients, Close(d)
      PROVE  req'[c] = req[c]
  BY <1>1, <1>4 DEF Close, Answered, IInv, TypeOK, ApiTypeOK
<1>5. ASSUME NEW s \in Services,
             \/ \E b \in Builds : SeeBuild(s, b)
             \/ \E t \in Tasks : SeeTask(s, t)
             \/ StartService(s) \/ StopService(s)
      PROVE  req'[c] \in {req[c], Quiet}
  BY <1>5 DEF SeeBuild, SeeTask, StartService, StopService, apiVars
<1>6. CASE UNCHANGED req
  BY <1>6
<1> QED
  BY <1>2, <1>3, <1>4, <1>5, <1>6 DEF Next, ApiNext, Ask, Kubectl, apiVars

\* What PutsAreExact says of one step.
PutsNow == \A b \in Builds :
    /\ \A c \in Clients : Puts(c, b) /\ req'[c].codes = <<200>> => Replaces(c, b)
    /\ builds[b].there /\ builds'[b].there /\ builds'[b].spec # builds[b].spec
            => \E c \in Clients : Puts(c, b) /\ Replaces(c, b)

LEMMA PutsStep ==
    ASSUME IInv, Next
    PROVE  PutsNow
<1>1. ASSUME NEW b \in Builds, NEW c \in Clients, Puts(c, b)
      PROVE  req'[c].codes = <<200>> => Replaces(c, b)
  <2>1. CASE Call(c)
    BY <1>1, <2>1, PutIsExact
  <2>2. CASE ~Call(c)
    <3>1. Calling(c)
      BY <1>1 DEF Puts
    <3>2. req'[c] \in {req[c], Quiet}
      BY <2>2, <3>1, CallAnswers
    <3>3. req'[c].codes = <<>>
      BY <3>1, <3>2 DEF Calling, Quiet
    <3>4. <<200>> # <<>>
      BY OneStatus DEF Statuses
    <3> QED
      BY <3>3, <3>4
  <2> QED
    BY <2>1, <2>2
<1>2. ASSUME NEW b \in Builds, ~SpecStays(b)
      PROVE  \E c \in Clients : Puts(c, b) /\ Replaces(c, b)
  <2>1. PICK c \in Clients : Call(c)
    BY <1>2, SpecsAndSteps
  <2> QED
    BY <1>2, <2>1, CallsAndSpecs
<1> QED
  BY <1>1, <1>2 DEF PutsNow, SpecStays

\* A PUT that answers 200 replaced the version it read, and the spec of a build
\* that stays is changed in no other way, whatever else is written, late or
\* repeated (service.go:193-212, environmentbuild_controller.go:62-71).
THEOREM PutsReplaceWhatTheyRead == Spec => PutsAreExact
<1>1. IInv /\ [Next]_vars => [PutsNow]_vars
  BY PutsStep
<1> QED
  BY <1>1, Inductive, PTL DEF Spec, PutsAreExact, PutsNow
=============================================================================
