------------------------------ MODULE Operator ------------------------------
(***************************************************************************)
(* The EnvironmentBuild controller of every manager and the REST service   *)
(* on one API server, with the users of both.                              *)
(***************************************************************************)
EXTENDS BuildController, ApiService

\* The numbers of tasks each build has had. Nothing reads it; TaskCount has it.
VARIABLE past

vars == <<storeVars, controllerVars, apiVars, past>>

Init == /\ StoreInit /\ ControllerInit /\ ApiInit
        /\ past = [b \in Builds |-> {0}]

\* With kubectl users write to the API server themselves; the name of a task's
\* build can be edited with it, for which REST has no route.
EditTask(t, ref) ==
    /\ tasks[t] # ref
    /\ StoreTask(t, ref)
    /\ UNCHANGED builds

EditBuild(b) ==
    /\ IF builds[b].there THEN StoreBuild(b, NoBuild)
                          ELSE \E body \in BuildBody : StoreBuild(b, NewBuild(body))
    /\ UNCHANGED <<tasks, feed>>

Kubectl ==
    /\ Act
    /\ \/ \E t \in Tasks, ref \in TaskRefs : EditTask(t, ref)
       \/ \E b \in Builds : EditBuild(b)
    /\ UNCHANGED <<cacheVars, faults, req, controllerVars>>

Next ==
    /\ \/ ControllerNext /\ UNCHANGED apiVars
       \/ ApiNext /\ UNCHANGED controllerVars
       \/ Kubectl
    /\ past' = [b \in Builds |-> past[b] \union {Number(tasks', b)}]

\* Replicas are restarted, informers deliver, calls return and timers fire.
\* Users owe nothing, and a call need not succeed. A queue is first in, first
\* out: a build that keeps coming back to it is served.
Fairness ==
    /\ \A m \in Managers :
          /\ WF_vars(StartManager(m) /\ Next)
          /\ WF_vars(Lead(m) /\ Next)
          /\ WF_vars(UpdateStatus(m) /\ Next)
          /\ WF_vars(DeliverTask(m) /\ Next)
          /\ \A b \in Builds : WF_vars(DeliverBuild(m, b) /\ Next)
          /\ \A b \in Requests : /\ WF_vars(TimerFires(m, b) /\ Next)
                                 /\ SF_vars(Reconcile(m, b) /\ Next)
    /\ WF_vars((\E c \in Clients : Call(c) \/ Close(c)) /\ Next)
    /\ WF_vars((\E w \in adrift : LandStatus(w)) /\ Next)

Spec == Init /\ [][Next]_vars
FairSpec == Spec /\ Fairness

-----------------------------------------------------------------------------

\* Every variable keeps its type.
TypeOK == /\ StoreTypeOK /\ ControllerTypeOK /\ ApiTypeOK
          /\ past \in [Builds -> SUBSET Nat]

\* A leading manager that sees a build with another count than its cache of
\* tasks gives has a reconciliation of that build ahead, or will see a newer
\* version of it (the early return of Reconcile trusts two caches that are not
\* in step, environmentbuild_controller.go:58; what queues is at :86-106).
NoLostRecount ==
    \A m \in lead, b \in Builds :
        cbuilds[m][b].there /\ cbuilds[m][b].count # Number(ctasks[m], b)
            => \/ b \in queue[m] \union timer[m] \union {work[m].name}
               \/ cbuilds[m][b] # builds[b]

\* The counts shown were true once: conflicts, late writes of gone leaders, PUT
\* by users, deletion and re-creation of builds make up none
\* (environmentbuild_controller.go:62-71, environmentbuild_types.go:54).
Shown == INSTANCE TaskCount WITH
            there <- {b \in Builds : builds[b].there},
            number <- [b \in Builds |-> Number(tasks, b)],
            shown <- [b \in Builds |-> builds[b].count]
CountsWereTrue == Shown!Spec

\* Once users stop, the count of every build becomes the number of tasks that
\* name it and stays so, whatever failed, restarted or came late before
\* (environmentbuild_controller.go:39-106).
CountsConverge ==
    <>[](\A b \in Builds : builds[b].there => builds[b].count = Number(tasks, b))

\* PUT answers 200 for exactly the change it was asked for: the version it read
\* is the one replaced, by the client's spec, and the count of the controller
\* is neither lost nor set. The spec of a build that stays is changed in no other
\* way: not by status writes, late ones of gone leaders included, nor by a PUT
\* that is refused, fails or is cut off (service.go:193-212,
\* environmentbuild_controller.go:62-71).
Puts(c, b) == Calling(c) /\ req[c].op = "UpdateEnvironmentBuild" /\ req[c].name = b

Replaces(c, b) ==
    /\ builds[b] = req[c].seen
    /\ builds'[b].there
    /\ builds'[b].spec = req[c].body.spec
    /\ builds'[b].count = req[c].seen.count

PutsAreExact ==
    [][\A b \in Builds :
        /\ \A c \in Clients : Puts(c, b) /\ req'[c].codes = <<200>> => Replaces(c, b)
        /\ builds[b].there /\ builds'[b].there /\ builds'[b].spec # builds[b].spec
                => \E c \in Clients : Puts(c, b) /\ Replaces(c, b)]_vars

-----------------------------------------------------------------------------
(* What the documentation says of requests.                                  *)

\* A body that gives a property in the form its schema documents is not refused
\* as one that does not bind (service.go:144-160, 287-291; docs.go:253-266,
\* 1027-1083, 3591-3754, 4495-4707).
DocumentedBodiesBind ==
    [][\A c \in Clients : req[c] = Quiet /\ req'[c] # Quiet /\ req'[c].body # Malformed =>
        LET given == req'[c].body.given
        IN  given.form = DocumentedForm(given.property.type) => req'[c].codes # <<400>>]_vars

\* "should return 200 when the record exists" (service_test.go): of a build that
\* is stored and that the cache of the service holds as it is stored.
RecordsAreServed ==
    [][\A c \in Clients, b \in Builds :
        (/\ req[c] = Quiet /\ req'[c].op = "GetEnvironmentBuild" /\ req'[c].name = b
         /\ builds[b].there /\ cbuilds[Server[c]][b] = builds[b])
            => req'[c].codes[1] = 200]_vars

-----------------------------------------------------------------------------
(* The inductive invariant behind NoLostRecount, PutsAreExact and            *)
(* CountsWereTrue.                                                           *)

\* v is the stored version of b or one that came before it.
Earlier(v, b) == /\ v.rv <= builds[b].rv
                 /\ v.rv = builds[b].rv => v = builds[b]

BuildWrites == {"CreateEnvironmentBuild", "UpdateEnvironmentBuild", "DeleteEnvironmentBuild"}
TaskWrites == {"CreateTask", "DeleteTask"}

\* A handler that goes on to a call has a name, and a body that did bind.
CallsOK ==
    \A c \in Clients : Calling(c) =>
        \/ /\ req[c].op \in BuildWrites
           /\ req[c].name \in Builds
           /\ req[c].op # "DeleteEnvironmentBuild" => req[c].body \in BuildBody
        \/ /\ req[c].op \in TaskWrites
           /\ req[c].name \in Tasks
           /\ req[c].op = "CreateTask" => req[c].body \in TaskBody

\* Whatever was read is an earlier version; a deleted build keeps its number.
VersionsOK ==
    /\ \A b \in Builds : Earlier(NoBuild, b)
    /\ \A p \in Processes, b \in Builds : Earlier(cbuilds[p][b], b)
    /\ \A c \in Clients : Calling(c) /\ req[c].op = "UpdateEnvironmentBuild"
                            => Earlier(req[c].seen, req[c].name)

\* An answer has a status its route documents and one body. PUT alone answers
\* what it does not document, if it cannot read (service.go:199-200), and only
\* GetTask writes a second body, behind an error (service.go:260-269).
AnswersOK ==
    \A c \in Clients : Answered(c) =>
        /\ \/ req[c].codes[1] \in Answers[req[c].op]
           \/ req[c].op = "UpdateEnvironmentBuild" /\ req[c].codes[1] = 500
        /\ Len(req[c].codes) = 1 \/ req[c].op = "GetTask"

\* Leaders write. What they write is the count of the cache, or the build is
\* queued again.
WritesOK ==
    /\ \A m \in Managers \ lead : work[m] = Idle
    /\ \A m \in lead, b \in Builds : work[m].name = b =>
          work[m].obj.count = Number(ctasks[m], b) \/ b \in queue[m] \union timer[m]

\* h: the tasks as m has seen them and will see them, change by change.
History(m, h) ==
    /\ h[0] = ctasks[m]
    /\ h[Len(feed[m])] = tasks
    /\ \A i \in 1..Len(feed[m]) :
            h[i] = [h[i - 1] EXCEPT ![feed[m][i].task] = feed[m][i].ref]

TaskMaps == [Tasks -> TaskRefs]

\* No number of tasks is new to past: not that of the tasks as they are, as a
\* manager sees them or will see them, nor one that is about to be written.
CountsOK ==
    /\ \A b \in Builds : Number(tasks, b) \in past[b]
    /\ \A m \in Managers \ watching : feed[m] = <<>>
    /\ \A m \in Managers \intersect watching :
          \E h \in [0..Len(feed[m]) -> TaskMaps] :
              /\ History(m, h)
              /\ \A i \in 0..Len(feed[m]), b \in Builds : Number(h[i], b) \in past[b]
    /\ \A m \in Managers : Busy(m) => work[m].obj.count \in past[work[m].name]
    /\ \A w \in adrift : w.obj.count \in past[w.name]

IInv == /\ TypeOK /\ CallsOK /\ VersionsOK /\ AnswersOK /\ WritesOK /\ CountsOK
        /\ NoLostRecount
=============================================================================
