----------------------------- MODULE ApiService -----------------------------
(***************************************************************************)
(* The REST service: cmd/apiserver and pkg/api/v1alpha1.                   *)
(*                                                                         *)
(* A handler binds the body and reads the informer cache without waiting   *)
(* for anyone: that is one step. Its write to the API server is another,   *)
(* with the steps of everybody else in between. GET has no second step.    *)
(***************************************************************************)
EXTENDS BuildStore, ApiDocs

CONSTANTS
    Clients,        \* connections: one request each at a time
    Server,         \* Server[c]: the service c is connected to
    Malformed,      \* no body, or one that is not JSON
    Count,          \* the task count in the bodies of clients
    Given,          \* what bodies have besides: a property in some JSON form
    ClientKinds,    \* the kinds the scheme of the service's client knows
    MaxActs         \* bound: requests and edits of tasks, in all

Kinds == {"EnvironmentBuild", "Task"}

ASSUME ApiAssumption == /\ Server \in [Clients -> Services]
                        /\ ClientKinds \subseteq Kinds
                        /\ Count \in Nat
                        /\ MaxActs \in Nat

VARIABLES
    req,    \* req[c]: the request of c
    acts    \* requests and edits so far

apiVars == <<req, acts>>

\* EnvironmentBuild as a request holds it, of which PUT takes the spec only, and
\* Task: the build it names.
BuildBody == [spec : BuildSpecs, count : {Count},
              given : {g \in Given : g.property \in BuildProperties}]
TaskBody == [build : Builds \union {Unnamed},
             given : {g \in Given : g.property \in TaskProperties}]

\* The JSON values a Go type is read from: IntOrString and Duration read what
\* they are written as.
GoForms(type) == CASE type = "IntOrString" -> {"integer", "string"}
                   [] type = "Duration" -> {"string"}
                   [] OTHER -> {type}

\* ShouldBindJSON
Binds(body) == body # Malformed /\ body.given.form \in GoForms(body.given.property.type)

BuildRoutes == {"GetEnvironmentBuilds", "GetEnvironmentBuild", "CreateEnvironmentBuild",
                "UpdateEnvironmentBuild", "DeleteEnvironmentBuild"}
TaskRoutes == {"GetTask", "CreateTask", "DeleteTask"}
Routes == BuildRoutes \union TaskRoutes \union {"Healthz"}

\* The answers their documentation lists.
Answers == [op \in Routes |-> CASE op \in BuildRoutes -> BuildAnswers[op]
                                [] op \in TaskRoutes -> TaskAnswers[op]
                                [] OTHER -> HealthAnswers[op]]

\* codes: the status of each body written so far; seen: the build PUT has read.
Quiet == [op |-> "none", name |-> Unnamed, body |-> Malformed, seen |-> NoBuild, codes |-> <<>>]
Calling(c) == req[c] # Quiet /\ req[c].codes = <<>>
Answered(c) == req[c].codes # <<>>

ApiTypeOK ==
    /\ req \in [Clients -> [op : Routes \union {"none"},
                            name : Builds \union Tasks \union {Unnamed},
                            body : BuildBody \union TaskBody \union {Malformed},
                            seen : Build,
                            codes : Seq({200, 201, 400, 404, 500})]]
    /\ acts \in Nat

ApiInit == req = [c \in Clients |-> Quiet] /\ acts = 0

-----------------------------------------------------------------------------
(* Requests. *)

Act == acts < MaxActs /\ acts' = acts + 1

\* What handler op does before its first call to the API server: it gives an
\* answer, or goes on to the call with what it has read.
Request(c, op, name, body, seen, codes) ==
    /\ Server[c] \in watching
    /\ req[c] = Quiet
    /\ Act
    /\ req' = [req EXCEPT ![c] = [op |-> op, name |-> name, body |-> body,
                                  seen |-> seen, codes |-> codes]]
    /\ UNCHANGED <<builds, tasks, cacheVars, feed>>

\* A cached Get or List, and the status for how it ends. It fails, and not with
\* NotFound, for a kind the scheme lacks, and when the informer, which the first
\* read starts, is not in step before the request is given up.
CachedGet(kind, found, got) ==
    \/ /\ got = IF kind \notin ClientKinds THEN 500 ELSE IF found THEN 200 ELSE 404
       /\ UNCHANGED faults
    \/ got = 500 /\ Fault

Healthz(c) ==
    Request(c, "Healthz", Unnamed, Malformed, NoBuild, <<200>>) /\ UNCHANGED faults

\* An empty list is an answer too.
GetEnvironmentBuilds(c) ==
    \E got \in {200, 500} :
        /\ CachedGet("EnvironmentBuild", TRUE, got)
        /\ Request(c, "GetEnvironmentBuilds", Unnamed, Malformed, NoBuild, <<got>>)

GetEnvironmentBuild(c, b) ==
    \E got \in {200, 404, 500} :
        /\ CachedGet("EnvironmentBuild", cbuilds[Server[c]][b].there, got)
        /\ Request(c, "GetEnvironmentBuild", b, Malformed, NoBuild, <<got>>)

\* There is no return after the error: the empty task is written as well, under
\* the status that is on its way already.
GetTask(c, t) ==
    \E got \in {200, 404, 500} :
        /\ CachedGet("Task", ctasks[Server[c]][t] # NoTask, got)
        /\ Request(c, "GetTask", t, Malformed, NoBuild,
                   IF got = 200 THEN <<200>> ELSE <<got, got>>)

CreateEnvironmentBuild(c, b, body) ==
    /\ Request(c, "CreateEnvironmentBuild", b, body, NoBuild,
               IF Binds(body) THEN <<>> ELSE <<400>>)
    /\ UNCHANGED faults

CreateTask(c, t, body) ==
    /\ Request(c, "CreateTask", t, body, NoBuild, IF Binds(body) THEN <<>> ELSE <<400>>)
    /\ UNCHANGED faults

UpdateEnvironmentBuild(c, b, body) ==
    LET read == cbuilds[Server[c]][b]
        Put(seen, codes) == Request(c, "UpdateEnvironmentBuild", b, body, seen, codes)
    IN  \/ ~Binds(body) /\ Put(NoBuild, <<400>>) /\ UNCHANGED faults
        \/ /\ Binds(body)
           /\ \/ CachedGet("EnvironmentBuild", read.there, 200) /\ Put(read, <<>>)
              \/ \E got \in {404, 500} :
                    CachedGet("EnvironmentBuild", read.there, got) /\ Put(NoBuild, <<got>>)

DeleteEnvironmentBuild(c, b) ==
    Request(c, "DeleteEnvironmentBuild", b, Malformed, NoBuild, <<>>) /\ UNCHANGED faults

DeleteTask(c, t) ==
    Request(c, "DeleteTask", t, Malformed, NoBuild, <<>>) /\ UNCHANGED faults

-----------------------------------------------------------------------------
(* The write of a handler: Possible says whether the API server carries it   *)
(* out, Effect what that does.                                               *)

\* Not the code: PUT sends what it was given, without a resourceVersion, which
\* replaces any version.
BugSendsBody(r) ==
    [there |-> TRUE, rv |-> builds[r.name].rv, spec |-> r.body.spec, count |-> r.body.count]

\* PUT: the version read, with the client's spec.
Sent(r) == [r.seen EXCEPT !.spec = r.body.spec]

Known(op) ==
    (IF op \in {"CreateTask", "DeleteTask"} THEN "Task" ELSE "EnvironmentBuild") \in ClientKinds

Possible(r) ==
    /\ Known(r.op)
    /\ CASE r.op = "CreateEnvironmentBuild" -> ~builds[r.name].there
         [] r.op = "UpdateEnvironmentBuild" -> Accepted(r.name, Sent(r))
         [] r.op = "DeleteEnvironmentBuild" -> builds[r.name].there
         [] r.op = "CreateTask" -> tasks[r.name] = NoTask
         [] r.op = "DeleteTask" -> tasks[r.name] # NoTask

Effect(r) ==
    \/ /\ \/ r.op = "CreateEnvironmentBuild" /\ StoreBuild(r.name, NewBuild(r.body))
          \/ r.op = "UpdateEnvironmentBuild" /\ StoreSpec(r.name, Sent(r))
          \/ r.op = "DeleteEnvironmentBuild" /\ StoreBuild(r.name, NoBuild)
       /\ UNCHANGED <<tasks, feed>>
    \/ /\ \/ r.op = "CreateTask" /\ StoreTask(r.name, r.body.build)
          \/ r.op = "DeleteTask" /\ StoreTask(r.name, NoTask)
       /\ UNCHANGED builds

Success(op) == IF op \in {"CreateEnvironmentBuild", "CreateTask"} THEN 201 ELSE 200

\* Only the delete handlers tell NotFound from other errors.
Refusal(op) ==
    IF op \in {"DeleteEnvironmentBuild", "DeleteTask"} /\ Known(op) THEN 404 ELSE 400

\* A fault is an error of any other kind, whether the write was made or not.
Call(c) ==
    LET r == req[c]
        Reply(code) == req' = [req EXCEPT ![c].codes = <<code>>]
        nothing == UNCHANGED <<builds, tasks, feed>>
    IN  /\ Calling(c)
        /\ \/ Possible(r) /\ Effect(r) /\ Reply(Success(r.op)) /\ UNCHANGED faults
           \/ ~Possible(r) /\ nothing /\ Reply(Refusal(r.op)) /\ UNCHANGED faults
           \/ Fault /\ (nothing \/ (Possible(r) /\ Effect(r))) /\ Reply(400)
        /\ UNCHANGED <<cacheVars, acts>>

Close(c) ==
    /\ Answered(c)
    /\ req' = [req EXCEPT ![c] = Quiet]
    /\ UNCHANGED <<storeVars, acts>>

-----------------------------------------------------------------------------
(* The process. *)

SeeBuild(s, b) == s \in Services /\ ReceiveBuild(s, b) /\ UNCHANGED apiVars
SeeTask(s, t) == ReceiveTask(s, t) /\ UNCHANGED apiVars

StartService(s) == Watch(s) /\ UNCHANGED <<faults, apiVars>>

\* Shutdown makes ListenAndServe return at once, and main with it: the requests
\* of the moment get no answer. What they were to write is written before or
\* never.
StopService(s) ==
    /\ Fault
    /\ Unwatch(s)
    /\ req' = [c \in Clients |-> IF Server[c] = s THEN Quiet ELSE req[c]]
    /\ UNCHANGED acts

BuildRequest(c, b) ==
    \/ \E body \in BuildBody \union {Malformed} :
            CreateEnvironmentBuild(c, b, body) \/ UpdateEnvironmentBuild(c, b, body)
    \/ GetEnvironmentBuild(c, b)
    \/ DeleteEnvironmentBuild(c, b)

TaskRequest(c, t) ==
    \/ \E body \in TaskBody \union {Malformed} : CreateTask(c, t, body)
    \/ GetTask(c, t)
    \/ DeleteTask(c, t)

ApiNext ==
    \/ \E c \in Clients :
          \/ \E b \in Builds : BuildRequest(c, b)
          \/ \E t \in Tasks : TaskRequest(c, t)
          \/ Healthz(c) \/ GetEnvironmentBuilds(c)
          \/ Call(c) \/ Close(c)
    \/ \E s \in Services :
          \/ \E b \in Builds : SeeBuild(s, b)
          \/ \E t \in Tasks : SeeTask(s, t)
          \/ StartService(s) \/ StopService(s)
=============================================================================
