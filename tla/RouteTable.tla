----------------------------- MODULE RouteTable -----------------------------
(***************************************************************************)
(* The control plane of one replica, package internal/controller: the       *)
(* RouteTableBuilder that rebuilds the routing table when the cluster        *)
(* changes, and the PostgresRouteReconciler that reports each route's        *)
(* decision in its status.  They share the informer cache, the snapshot      *)
(* store and the channel of status events.                                   *)
(*                                                                          *)
(* api and svcs are the API server's objects, cache and csvcs the informers' *)
(* copies.  A copy skips to the newest version.  An informer's handlers run  *)
(* in the step that updates the copy: both only leave work for later, in the *)
(* trigger channel and in the work queue.                                    *)
(***************************************************************************)
EXTENDS Registry, FiniteSets

CONSTANTS
    RouteKeys,   \* <<ns, name>> of the routes that may exist
    Specs,       \* the specs a route may be given: [prio, database, backend, tls]
    Services,    \* <<ns, name>> of the Services that may exist
    Ports,       \* the ports of a Service that exists
    InitialSpecs, \* the specs of the routes that may exist when the replica starts
    RunsManager, \* cfg.Role.RunsManager: the replica stands for election
    EventsCap,   \* capacity of the status event channel
    MaxEdits,    \* bound on the changes users make to the cluster
    MaxFailures  \* bound on the status writes that fail

ASSUME RouteTableAssumption ==
    EventsCap \in Nat \ {0} /\ MaxEdits \in Nat /\ MaxFailures \in Nat

VARIABLES
    api,      \* the routes on the API server: None or [spec, created, gen, deleting,
              \* status]; deleting is a deletion that waits for a finalizer
    svcs,     \* the Services on the API server
    edits,    \* changes made so far; also the clock that stamps new objects
    cache,    \* the route informer's copy of api
    csvcs,    \* the Service informer's copy of svcs
    trigger,  \* the builder's channel of depth one is full
    bpc,      \* the builder: "start", "select", "building", "notifying"
    pending,  \* the debounce timer is running
    todo,     \* the routes Build has still to decide
    acc,      \* the snapshot being built
    store,    \* the published snapshot
    unsent,   \* the routes notifyChanged has still to notify
    events,   \* the status event channel
    leader,   \* this replica runs the reconciler
    queue,    \* the reconciler's work queue
    wpc,      \* the reconciler's worker: "idle", "read", "patch"
    work,     \* the route being reconciled: its key and the object Get returned
    desired,  \* the status to write
    failures  \* status writes that have failed

cluster    == <<api, svcs, edits>>
informers  == <<cache, csvcs>>
builder    == <<bpc, pending, todo, acc, unsent>>
reconciler == <<wpc, work, desired, failures>>
vars       == <<cluster, informers, trigger, builder, store, events, leader, queue, reconciler>>

\* The object as package registry reads it.
RouteOf(k, o) ==
    [ns |-> k[1], name |-> k[2], prio |-> o.spec.prio, created |-> o.created,
     database |-> o.spec.database, backend |-> o.spec.backend, tls |-> o.spec.tls]

Existing(objects) == {RouteOf(k, objects[k]) : k \in {x \in RouteKeys : objects[x] # None}}

Outcome(r, services) == resolve(r, services, [k \in {} |-> Missing], FALSE)

NoStatus == [gen |-> 0, database |-> None, endpoint |-> None, conflict |-> None, conds |-> None]

Init ==
    /\ svcs \in [Services -> {Ports, Missing}]
    /\ \E f \in InitialSpecs :
          api = [k \in RouteKeys |-> IF f[k] = None THEN None
                    ELSE [spec |-> f[k], created |-> 0, gen |-> 1, deleting |-> FALSE,
                          status |-> NoStatus]]
    /\ edits = 0 /\ cache = api /\ csvcs = svcs
    /\ trigger = FALSE /\ bpc = "start" /\ pending = FALSE /\ todo = <<>>
    /\ acc = EmptySnapshot(RouteKeys) /\ store = EmptySnapshot(RouteKeys)
    /\ unsent = {} /\ events = <<>>
    /\ leader = FALSE /\ queue = {}
    /\ wpc = "idle" /\ work = None /\ desired = None /\ failures = 0

-----------------------------------------------------------------------------
(* Users and the API server.                                                 *)

Edit(k) ==
    /\ edits < MaxEdits /\ edits' = edits + 1
    /\ \/ \E s \in Specs :
             \/ /\ api[k] = None
                /\ api' = [api EXCEPT ![k] = [spec |-> s, created |-> edits', gen |-> 1,
                                              deleting |-> FALSE, status |-> NoStatus]]
             \/ /\ api[k] # None /\ api[k].spec # s
                /\ api' = [api EXCEPT ![k].spec = s, ![k].gen = @ + 1]
       \/ /\ api[k] # None /\ ~api[k].deleting
          /\ api' = [api EXCEPT ![k].deleting = TRUE, ![k].gen = @ + 1]
       \/ api[k] # None /\ api' = [api EXCEPT ![k] = None]
    /\ UNCHANGED <<svcs, informers, trigger, builder, store, events, leader, queue, reconciler>>

EditService(s) ==
    /\ edits < MaxEdits /\ edits' = edits + 1
    /\ svcs' = [svcs EXCEPT ![s] = IF @ = Missing THEN Ports ELSE Missing]
    /\ UNCHANGED <<api, informers, trigger, builder, store, events, leader, queue, reconciler>>

\* Mutant: the reconciler ignores events that leave the generation alone.
SyncRouteMutant(k) ==
    /\ cache[k] # api[k]
    /\ cache' = [cache EXCEPT ![k] = api[k]]
    /\ trigger' = TRUE
    /\ LET same == cache[k] # None /\ api[k] # None /\ cache[k].gen = api[k].gen IN
       queue' = IF leader /\ ~same THEN queue \cup {k} ELSE queue
    /\ UNCHANGED <<cluster, csvcs, builder, store, events, leader, reconciler>>

\* A watch event for route k: schedule() runs, and the reconciler enqueues k.
SyncRoute(k) ==
    /\ cache[k] # api[k]
    /\ cache' = [cache EXCEPT ![k] = api[k]]
    /\ trigger' = TRUE
    /\ queue' = IF leader THEN queue \cup {k} ELSE queue
    /\ UNCHANGED <<cluster, csvcs, builder, store, events, leader, reconciler>>

\* A watch event for a Service: schedule() runs.
SyncService(s) ==
    /\ csvcs[s] # svcs[s]
    /\ csvcs' = [csvcs EXCEPT ![s] = svcs[s]]
    /\ trigger' = TRUE
    /\ UNCHANGED <<cluster, cache, builder, store, events, leader, queue, reconciler>>

\* This replica wins the election: the informer's initial sync enqueues every route.
Elect ==
    /\ RunsManager /\ ~leader /\ leader' = TRUE
    /\ queue' = {k \in RouteKeys : cache[k] # None}
    /\ UNCHANGED <<cluster, informers, trigger, builder, store, events, reconciler>>

-----------------------------------------------------------------------------
(* RouteTableBuilder.Start, rebuild and notifyChanged.                       *)

\* rebuild lists the routes and Build sorts them.
List(from) ==
    /\ bpc = from /\ bpc' = "building"
    /\ todo' = SetToSortSeq(Existing(cache), less)
    /\ acc' = EmptySnapshot(RouteKeys)

FirstBuild ==
    /\ List("start")
    /\ UNCHANGED <<cluster, informers, trigger, pending, store, unsent, events, leader, queue,
                   reconciler>>

TimerFires ==
    /\ pending /\ List("select")
    /\ pending' = FALSE
    /\ UNCHANGED <<cluster, informers, trigger, store, unsent, events, leader, queue, reconciler>>

TakeTrigger ==
    /\ bpc = "select" /\ trigger
    /\ trigger' = FALSE /\ pending' = TRUE
    /\ UNCHANGED <<cluster, informers, bpc, todo, acc, unsent, store, events, leader, queue,
                   reconciler>>

\* One iteration of Build; the Services are read from the cache as it is now.
BuildStep ==
    /\ bpc = "building" /\ todo # <<>>
    /\ acc' = Decide(acc, Head(todo), Outcome(Head(todo), csvcs))
    /\ todo' = Tail(todo)
    /\ UNCHANGED <<cluster, informers, trigger, bpc, pending, unsent, store, events, leader,
                   queue, reconciler>>

\* Mutant: a change of backend is not a change of decision.
decisionChangedMutant(before, now) ==
    before = None \/ before.database # now.database \/ before.accepted # now.accepted

\* A route without a previous decision counts as changed; an endpoint is compared by
\* its address, an error by what it says.
decisionChanged(before, now) == before # now

\* Mutant: a rebuild ends by draining the trigger, as if it had answered it.
PublishMutant ==
    /\ bpc = "building" /\ todo = <<>>
    /\ store' = acc /\ acc' = EmptySnapshot(RouteKeys)
    /\ unsent' = {} /\ bpc' = "select" /\ trigger' = FALSE
    /\ UNCHANGED <<cluster, informers, pending, todo, events, leader, queue, reconciler>>

\* Store.Store, then notifyChanged compares the decisions with the previous ones.
Publish ==
    /\ bpc = "building" /\ todo = <<>>
    /\ store' = acc /\ acc' = EmptySnapshot(RouteKeys)
    /\ unsent' = {k \in RouteKeys :
                    acc.decisions[k] # None /\ decisionChanged(store.decisions[k], acc.decisions[k])}
    /\ bpc' = IF unsent' = {} THEN "select" ELSE "notifying"
    /\ UNCHANGED <<cluster, informers, trigger, pending, todo, events, leader, queue, reconciler>>

\* Mutant: the send waits for room in the channel.
NotifyMutant(k) ==
    /\ bpc = "notifying" /\ k \in unsent /\ Len(events) < EventsCap
    /\ unsent' = unsent \ {k}
    /\ events' = Append(events, k)
    /\ bpc' = IF unsent' = {} THEN "select" ELSE "notifying"
    /\ UNCHANGED <<cluster, informers, trigger, pending, todo, acc, store, leader, queue,
                   reconciler>>

\* notify never blocks: a full channel drops the event.
Notify(k) ==
    /\ bpc = "notifying" /\ k \in unsent
    /\ unsent' = unsent \ {k}
    /\ events' = IF Len(events) < EventsCap THEN Append(events, k) ELSE events
    /\ bpc' = IF unsent' = {} THEN "select" ELSE "notifying"
    /\ UNCHANGED <<cluster, informers, trigger, pending, todo, acc, store, leader, queue,
                   reconciler>>

-----------------------------------------------------------------------------
(* PostgresRouteReconciler.                                                  *)

\* The channel source feeds the work queue once the controller runs.
Drain ==
    /\ leader /\ events # <<>>
    /\ queue' = queue \cup {Head(events)}
    /\ events' = Tail(events)
    /\ UNCHANGED <<cluster, informers, trigger, builder, store, leader, reconciler>>

\* Reconcile reads the route from the cache; one that is deleted or being deleted needs
\* no status.
Get(k) ==
    /\ leader /\ wpc = "idle" /\ k \in queue
    /\ queue' = queue \ {k}
    /\ IF cache[k] = None \/ cache[k].deleting
       THEN UNCHANGED <<wpc, work>>
       ELSE wpc' = "read" /\ work' = [key |-> k, obj |-> cache[k]]
    /\ UNCHANGED <<cluster, informers, trigger, builder, store, events, leader, desired, failures>>

\* conds stands for the three conditions: their values and reasons, the generation
\* they were computed for, and their messages, which quote the decision.
applyConditions(decision, gen) ==
    [accepted |-> decision.accepted,
     resolved |-> IF ~decision.accepted THEN "DatabaseNameConflict"
                  ELSE IF decision.err # None THEN resolveFailureReason(decision.err)
                  ELSE "Resolved",
     programmed |-> Programmed(decision),
     gen |-> gen, messages |-> decision]

StatusOf(decision, gen) ==
    [gen |-> gen, database |-> decision.database, endpoint |-> decision.endpoint,
     conflict |-> decision.conflictsWith, conds |-> applyConditions(decision, gen)]

\* Condition transition times, which it ignores, are not in the model.
equalStatus(a, b) == a = b

\* Reconcile loads the decision: without one it asks to be requeued, and when the
\* status already says so there is nothing to write.
Load ==
    /\ wpc = "read"
    /\ LET decision == store.decisions[work.key] IN
       IF decision = None
       THEN wpc' = "idle" /\ queue' = queue \cup {work.key} /\ work' = None /\ UNCHANGED desired
       ELSE IF equalStatus(work.obj.status, StatusOf(decision, work.obj.gen))
       THEN wpc' = "idle" /\ work' = None /\ UNCHANGED <<desired, queue>>
       ELSE wpc' = "patch" /\ desired' = StatusOf(decision, work.obj.gen) /\ UNCHANGED <<queue, work>>
    /\ UNCHANGED <<cluster, informers, trigger, builder, store, events, leader, failures>>

\* The merge patch carries the fields that differ from the object Get returned and
\* leaves the others as they are on the server.
Patched(status) ==
    [f \in DOMAIN status |-> IF desired[f] = work.obj.status[f] THEN status[f] ELSE desired[f]]

Patch ==
    /\ wpc = "patch" /\ api[work.key] # None
    /\ api' = [api EXCEPT ![work.key].status = Patched(@)]
    /\ wpc' = "idle" /\ work' = None /\ desired' = None
    /\ UNCHANGED <<svcs, edits, informers, trigger, builder, store, events, leader, queue, failures>>

\* The patch is refused: as a conflict, which is left to the coming watch event, or
\* with an error (a deleted route's NotFound among them), which is retried.
PatchFails ==
    /\ wpc = "patch"
    /\ \/ /\ api[work.key] = None
          /\ queue' = queue \cup {work.key} /\ UNCHANGED failures
       \/ /\ failures < MaxFailures /\ failures' = failures + 1
          /\ queue' = queue \cup {work.key}
       \/ /\ api[work.key] \notin {None, work.obj}
          /\ failures < MaxFailures /\ failures' = failures + 1
          /\ UNCHANGED queue
    /\ wpc' = "idle" /\ work' = None /\ desired' = None
    /\ UNCHANGED <<cluster, informers, trigger, builder, store, events, leader>>

-----------------------------------------------------------------------------
Builder ==
    FirstBuild \/ TimerFires \/ TakeTrigger \/ BuildStep \/ Publish
        \/ \E k \in RouteKeys : Notify(k)

Reconciler == Drain \/ Load \/ Patch \/ PatchFails \/ \E k \in RouteKeys : Get(k)

Next ==
    \/ \E k \in RouteKeys : Edit(k) \/ SyncRoute(k)
    \/ \E s \in Services : EditService(s) \/ SyncService(s)
    \/ Elect \/ Builder \/ Reconciler

Spec == Init /\ [][Next]_vars

\* Watches deliver, the builder's goroutine and the timer run, the channel is
\* drained, and the work queue serves every key that stays in it.
Fairness ==
    /\ \A k \in RouteKeys : WF_vars(SyncRoute(k)) /\ SF_vars(Get(k))
    /\ \A s \in Services : WF_vars(SyncService(s))
    /\ WF_vars(FirstBuild \/ BuildStep \/ Publish \/ \E k \in RouteKeys : Notify(k))
    /\ WF_vars(TakeTrigger) /\ WF_vars(TimerFires)
    /\ WF_vars(Drain) /\ WF_vars(Load \/ Patch \/ PatchFails)

FairSpec == Spec /\ Fairness

-----------------------------------------------------------------------------
(* What is checked.                                                          *)

\* Every variable has its type; in particular a published decision is one the status can
\* report: a loser's names its rival and nothing else, and a winner's has either an
\* endpoint or an error.
TypeOK ==
    /\ edits \in 0..MaxEdits /\ failures \in 0..MaxFailures
    /\ trigger \in BOOLEAN /\ pending \in BOOLEAN /\ leader \in BOOLEAN
    /\ bpc \in {"start", "select", "building", "notifying"}
    /\ wpc \in {"idle", "read", "patch"}
    /\ queue \subseteq RouteKeys /\ unsent \subseteq RouteKeys
    /\ events \in Seq(RouteKeys) /\ Len(events) <= EventsCap
    /\ \A k \in RouteKeys : api[k] # None => api[k].spec \in Specs
    /\ \A k \in RouteKeys :
          LET d == store.decisions[k] IN
          d # None => IF d.accepted
                      THEN d.conflictsWith = None /\ (d.endpoint = None) # (d.err = None)
                      ELSE d.conflictsWith \in RouteKeys \ {k} /\ d.endpoint = None /\ d.err = None

\* What Build would make of the cluster as it is now.
Wanted ==
    LET Now(r) == Outcome(r, svcs)
        Step(snap, r) == Decide(snap, r, Now(r))
    IN  FoldLeft(Step, EmptySnapshot(RouteKeys), SetToSortSeq(Existing(api), less))

\* Every snapshot the data plane and the reconciler can read is consistent in itself,
\* although Services change while it is built: a name has one owner, which accepted it;
\* a loser names that owner; and a name is routed exactly when its owner is programmed.
SnapshotSound ==
    /\ \A k \in RouteKeys :
          LET d == store.decisions[k] IN
          d # None => store.winners[d.database] = IF d.accepted THEN k ELSE d.conflictsWith
    /\ \A d \in Databases :
          LET w == store.winners[d] IN
          IF w = None THEN store.table[d] = None
          ELSE /\ store.decisions[w] # None
               /\ store.decisions[w].accepted /\ store.decisions[w].database = d
               /\ (store.table[d] # None) = Programmed(store.decisions[w])

\* The builder has nothing left to do.
TableSettled == cache = api /\ csvcs = svcs /\ bpc = "select" /\ ~trigger /\ ~pending

\* The reconciler has nothing left to do either.
StatusSettled == leader /\ TableSettled /\ events = <<>> /\ queue = {} /\ wpc = "idle"

\* A route whose status is kept up to date: one that is not being deleted.
Reported(k) == api[k] # None /\ ~api[k].deleting

\* No wake-up is lost: when the control plane comes to rest, the routing table is what
\* Build makes of the cluster, however events, timer, rebuilds and Services interleaved.
RestMeansCurrentTable == TableSettled => store.table = Wanted.table

\* When the leader comes to rest, every status is the current decision, although it was
\* patched field by field from stale copies, retried, or given up on a conflict, and
\* although the change that mattered may have been to another object.
RestMeansCurrentStatus ==
    StatusSettled =>
        \A k \in RouteKeys : Reported(k) =>
            api[k].status = StatusOf(Wanted.decisions[k], api[k].gen)

\* Once users stop editing, the routing table reaches what Build makes of the cluster.
TableConverges == <>[](store.table = Wanted.table)

\* Once users stop editing, a leader's reconciler brings every status up to date: its
\* writes and the rebuilds they trigger do not keep each other going.
StatusConverges ==
    <>[](leader => \A k \in RouteKeys : Reported(k) =>
            api[k].status = StatusOf(Wanted.decisions[k], api[k].gen))
=============================================================================
