--------------------------- MODULE TaskProperties ---------------------------
(***************************************************************************)
(* What is asked of TaskController: safety, the life cycle it implements,  *)
(* the inductive invariant behind both, and liveness.                      *)
(***************************************************************************)
EXTENDS TaskController

\* Something will make the controller look at n again.
Attended(n) == \/ n \in queue \union timer
               \/ work[n].pc # "idle"
               \/ cache[n] # etcd[n]

\* The handlers below wait for something: a failed task that is kept rests.
Rests(t) == ~Present(t) \/ (t.state = "ERROR" /\ ~t.spec.tof)

\* No wake-up is lost: whichever handler returned which Result, and whatever
\* failed, a task that is not at rest is queued, has a timer, is being worked
\* on or has a watch event under way. For a RUNNING task this needs the API
\* calls to succeed (stateRunning drops the result of its update).
NoLostWakeup ==
    \A n \in Tasks :
        Rests(etcd[n]) \/ (etcd[n].state = "RUNNING" /\ spent["fault"] > 0) \/ Attended(n)

\* What stateRunning's comment says of its requeue: a running task is looked at
\* again in any case, to be evicted when it times out.
RunningIsRevisited ==
    \A n \in Tasks : etcd[n].state = "RUNNING" => Attended(n)

\* The controller's Delete call removes the task named n.
DeletesTask(n) == /\ work[n].pc = "delete" /\ work'[n].pc = "idle"
                  /\ Present(etcd[n]) /\ ~Present(etcd'[n])

\* stateTerminating acts on a cached copy and deletes by name. When the task
\* is still the incarnation it read, that task is TERMINATING.
DeleteIsDue ==
    [][\A n \in Tasks : DeletesTask(n) /\ etcd[n].uid = work[n].obj.uid
                          => etcd[n].state = "TERMINATING"]_vars

\* While a task runs, status.token is the OPSMATE_TOKEN its pod was given.
TokenMatchesPod ==
    \A n \in Tasks : etcd[n].state = "RUNNING" /\ Exists(child[n]["pod"])
                        => etcd[n].token = child[n]["pod"].token

\* As long as nobody interferes, and for the first task of a name, the token
\* and the address published are those of the task's own pod, although the
\* handler that creates the pod may run again on a stale copy of the task.
UndisturbedTokenMatches ==
    (\A d \in AllDisturbances : spent[d] = 0) =>
        \A n \in Tasks :
            etcd[n].uid = 1 /\ etcd[n].state \in {"SCHEDULED", "RUNNING"} =>
                /\ etcd[n].token = child[n]["pod"].token
                /\ child[n]["pod"].owner = 1
                /\ etcd[n].state = "RUNNING" => etcd[n].ip = etcd[n].token

\* Whoever has read the token of a provisioned task may keep it: in spite of stale
\* copies, faults, edits and crashes no handler writes another one over it.
PublishedTokensStay ==
    [][\A n \in Tasks :
          etcd'[n].uid = etcd[n].uid /\ etcd[n].state \notin {"UNSET", "PENDING"}
              => etcd'[n].token = etcd[n].token]_vars

\* A task that runs says so: all four conditions are True, whether or not the
\* controller ever saw its pod pending, and it has a token and an address.
RunningIsAnnounced ==
    \A n \in Tasks : etcd[n].state = "RUNNING" =>
        /\ \A c \in CondTypes : etcd[n].conds[c].status
        /\ etcd[n].token # NoToken /\ etcd[n].ip # NoToken

\* DomainName is optional: a task without one is not failed for its ingress.
NoIngressNoTimeout ==
    \A n \in Tasks : etcd[n].reason = "ingress creation timeout"
                        => etcd[n].spec.domain

\* The controller implements the life cycle of a task.
Lifecycle == INSTANCE TaskLifecycle WITH
    life  <- [n \in Tasks |-> etcd[n].state],
    keep  <- [n \in Tasks |-> Present(etcd[n]) /\ ~etcd[n].spec.tof],
    owned <- [n \in Tasks |-> {k \in Kinds : Present(etcd[n])
                                              /\ child[n][k].owner = etcd[n].uid}]
ImplementsLifecycle == Lifecycle!Spec

(* The inductive invariant behind NoLostWakeup, DeleteIsDue and             *)
(* ImplementsLifecycle.                                                     *)

\* v is t or an earlier version of the object with t's name; and if it is of
\* the same incarnation, t has not gone back.
Precedes(v, t) ==
    /\ v.rv <= t.rv
    /\ v.rv = t.rv => v = t
    /\ v.uid = t.uid => /\ v.state = "TERMINATING" => t.state = "TERMINATING"
                        /\ t.state = "UNSET" => v.state = "UNSET"

WellFormed(t, n) == /\ t.uid <= born[n]
                    /\ Present(t) <=> t.state # "NOT_FOUND"

VersionsOK == \A n \in Tasks : /\ WellFormed(etcd[n], n)
                               /\ WellFormed(cache[n], n)
                               /\ Precedes(cache[n], etcd[n])

\* What a handler may write over t: a move of the life cycle, and out of ERROR
\* only where the spec says so; or new conditions for a SCHEDULED task.
MayWrite(w, t) ==
    \/ w.mode = "cond" /\ w.obj.state = "SCHEDULED" /\ t.state = "SCHEDULED"
    \/ /\ <<t.state, w.obj.state>> \in Lifecycle!Moves
       /\ t.state = "ERROR" => t.spec.tof
       /\ t.state = "RUNNING" <=> w.mode = "ignore"
       /\ w.mode # "cond"

\* A reconciliation under way: what it has read is known to the API server, and
\* if the cached copy has changed since, the task is in the queue again.
PlanOK(n, w) ==
    /\ w.obj.uid <= born[n]
    /\ w.obj.rv <= etcd[n].rv
    /\ w.obj.rv # cache[n].rv => n \in queue
    /\ Present(w.obj)
    /\ w.pc \in Kinds =>
           /\ w.mode = "status"
           /\ w.obj.state = "PENDING"
           /\ w.obj.uid = etcd[n].uid => etcd[n].state # "UNSET"
           /\ w.obj.rv = etcd[n].rv => w.obj.uid = etcd[n].uid /\ etcd[n].state = "PENDING"
    /\ w.pc = "update" /\ w.obj.rv = etcd[n].rv =>
           w.obj.uid = etcd[n].uid /\ MayWrite(w, etcd[n])
    /\ w.pc = "delete" /\ w.obj.uid = etcd[n].uid => etcd[n].state = "TERMINATING"
PlansOK == \A n \in Tasks : work[n].pc # "idle" => PlanOK(n, work[n])

\* No child belongs to an incarnation that is not there yet, or that the
\* controller has not accepted.
OwnersOK == \A n \in Tasks, k \in Kinds :
                /\ child[n][k].owner <= born[n]
                /\ Present(etcd[n]) /\ child[n][k].owner = etcd[n].uid
                       => etcd[n].state # "UNSET"

\* A pod is always in a phase stateScheduled knows.
PodsOK == \A n \in Tasks : /\ Exists(child[n]["pod"]) => child[n]["pod"].phase \in PodPhases
                           /\ Exists(cchild[n]["pod"]) => cchild[n]["pod"].phase \in PodPhases

IInv == /\ TypeOK /\ VersionsOK /\ PlansOK /\ OwnersOK /\ PodsOK
        /\ NoLostWakeup

(* What it takes beyond that for RunningIsAnnounced and                     *)
(* UndisturbedTokenMatches.                                                 *)

\* What a copy of a task says of itself, wherever it is.
Announced(t) ==
    /\ t.state \in {"PENDING", "SCHEDULED", "RUNNING"} => t.conds["TaskPodScheduled"].status
    /\ t.state \in {"SCHEDULED", "RUNNING"} => t.token # NoToken
    /\ t.state = "RUNNING" => t.ip # NoToken /\ \A c \in CondTypes : t.conds[c].status

HasToken(pod) == Exists(pod) => pod.token # NoToken

Announces(n) == /\ Announced(etcd[n]) /\ Announced(cache[n]) /\ Announced(work[n].obj)
                /\ work[n].pc \in Kinds => work[n].obj.token # NoToken
                /\ HasToken(child[n]["pod"]) /\ HasToken(cchild[n]["pod"])

\* The first task of a name, with nobody interfering.
Quiet(n) == etcd[n].uid = 1 /\ \A d \in AllDisturbances : spent[d] = 0

\* A reconciliation that has made the pod and will publish its token.
Publishes(w) == \/ w.pc \in {"service", "ingress"}
                \/ w.pc = "update" /\ w.obj.state = "SCHEDULED"

\* No pod until a reconciliation of the PENDING task makes it; that one has not been
\* overtaken. From then on, one pod, and one token that is neither overwritten nor
\* read wrongly.
OnePod(n) ==
    LET t == etcd[n]
        w == work[n]
        pod == child[n]["pod"]
    IN  /\ Exists(cchild[n]["pod"]) => Exists(pod) /\ cchild[n]["pod"].token = pod.token
        /\ Exists(pod) => pod.owner = 1
        /\ t.state \in {"UNSET", "PENDING"} =>
              /\ cache[n] = t \/ cache[n].state \in {"NOT_FOUND", "UNSET"}
              /\ w.pc \in Kinds => w.obj.rv = t.rv
              /\ IF Publishes(w) THEN w.obj.rv = t.rv /\ Exists(pod) /\ pod.token = w.obj.token
                                 ELSE ~Exists(pod)
        /\ t.state \in {"SCHEDULED", "RUNNING"} =>
              /\ Exists(pod) /\ pod.token = t.token
              /\ t.state = "RUNNING" => t.ip = t.token
              /\ w.pc = "update" /\ w.obj.rv = t.rv =>
                    w.obj.token = t.token /\ (w.obj.state = "RUNNING" => w.obj.ip = t.token)

First(n) == /\ Present(etcd[n]) => etcd[n].uid = born[n]
            /\ born[n] = 0 => ~Exists(child[n]["pod"]) /\ ~Exists(cchild[n]["pod"])
            /\ Quiet(n) => OnePod(n)

TokensOK == \A n \in Tasks : Announces(n) /\ First(n)

\* A status write that will be taken brings no other token to a task that has
\* left PENDING: behind PublishedTokensStay.
WritesKeepTokens ==
    \A n \in Tasks :
        work[n].pc = "update" /\ work[n].obj.rv = etcd[n].rv
        /\ etcd[n].state \notin {"UNSET", "PENDING"}
            => work[n].obj.token = etcd[n].token

(* Liveness, under FairSpec *)

\* A terminating task goes away, and so does a failed one unless it is, or
\* becomes, one to be kept.
Doomed(n, u) == /\ etcd[n].uid = u
                /\ \/ etcd[n].state = "TERMINATING"
                   \/ etcd[n].state = "ERROR" /\ etcd[n].spec.tof
DoomedTasksGo ==
    \A n \in Tasks : \A u \in 1..MaxUid : Doomed(n, u) ~> ~Doomed(n, u)

\* A new task is provisioned or fails: it does not stay unseen or PENDING,
\* whatever stale copies, conflicts and restarts come between.
PendingTasksMove ==
    \A n \in Tasks : \A u \in 1..MaxUid :
        (etcd[n].uid = u /\ etcd[n].state \in {"UNSET", "PENDING"})
            ~> (etcd[n].uid # u \/ etcd[n].state \notin {"UNSET", "PENDING"})

\* A SCHEDULED task whose pod or service is lost does not wait for it for ever:
\* the handler runs again until ten seconds have passed since the task was
\* created, whatever the cached copies say meanwhile.
LostChildIsNoticed ==
    \A n \in Tasks : \A k \in {"pod", "service"} :
        (etcd[n].state = "SCHEDULED" /\ ~Exists(child[n][k]))
            ~> (etcd[n].state # "SCHEDULED" \/ Exists(child[n][k]))

\* A running task whose pod has outlived its TTL stops running, unless an API
\* call failed.
ExpiredTasksStop ==
    \A n \in Tasks :
        (etcd[n].state = "RUNNING" /\ child[n]["pod"].late)
            ~> (etcd[n].state # "RUNNING" \/ spent["fault"] > 0)

\* "TTL is the time to live for the task": a task whose pod has outlived it
\* is given up, in whatever state, unless it is a failure to be kept.
TTLIsTheTimeToLive ==
    \A n \in Tasks :
        (Present(etcd[n]) /\ child[n]["pod"].late)
            ~> (etcd[n].state \in {"NOT_FOUND", "TERMINATING", "ERROR"})

\* A task that is gone for good leaves no pod, service or ingress, although a
\* handler that still sees it in its cache may create them again.
NothingIsLeft ==
    \A n \in Tasks :
        (born[n] = MaxUid /\ ~Present(etcd[n]))
            ~> [](\A k \in Kinds : ~Exists(child[n][k]))
=============================================================================
