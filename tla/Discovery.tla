----------------------------- MODULE Discovery -----------------------------
(***************************************************************************)
(* Service discovery, internal/controller/servicediscovery_controller.go:   *)
(* one Service, the route generated for it, and the leader's reconciler      *)
(* between them.  Services do not interact: a route's name is derived from   *)
(* its Service's, and each has its own key in the work queue.                *)
(*                                                                          *)
(* svc and route are the objects on the API server, csvc and croute the      *)
(* informers' copies, and sfeed and rfeed the versions the watches have yet  *)
(* to deliver to them.  Get and the read half of CreateOrUpdate see the      *)
(* copies, writes go to the server.                                          *)
(***************************************************************************)
EXTENDS Registry

CONSTANTS
    ServiceName,  \* the Service's name, which is also its default database name
    Shapes,       \* what users may make of the Service
    Malformed,    \* an annotation that is no number
    Foreign,      \* an object of another kind that controls a route
    HandWritten,  \* the routes users may put in the generated route's place
    MaxEdits,     \* bound on what users, other controllers and failovers do
    MaxFailures,  \* bound on the API calls that fail or whose answer is lost
    MaxLag        \* bound on how far behind the route's watch falls

ASSUME DiscoveryAssumption == MaxEdits \in Nat /\ MaxFailures \in Nat /\ MaxLag \in Nat

VARIABLES
    svc,      \* the Service: None or [uid, deleting, shape]
    route,    \* the object under the generated name: None or [by, owner, gen, other]
    edits,    \* changes made so far; also the uid of a new Service
    sfeed,    \* versions of the Service on their way to the informer
    rfeed,    \* versions of the route on their way to the informer
    csvc,     \* the Service informer's copy
    croute,   \* the route informer's copy
    queued,   \* the Service's key is in the work queue
    wpc,      \* the worker: "idle", "upsert", "cleanup", "create", "update", "delete"
    work,     \* the Service that Reconcile read
    seen,     \* the route that CreateOrUpdate read
    current,  \* its resourceVersion is still the server's
    failures  \* API calls that have failed

objects == <<svc, sfeed, route, rfeed>>
copies  == <<csvc, croute>>
worker  == <<wpc, work, seen, current>>
vars    == <<objects, edits, copies, queued, worker, failures>>

-----------------------------------------------------------------------------
(* What the reconciler makes of a Service.  A shape is [labelled, ignore,    *)
(* database, priority, port, ports]: whether the selector matches, the       *)
(* annotations, None where absent, and the sequence of ports [name, port].   *)

databaseName(s) == IF s.database = None THEN ServiceName ELSE s.database

\* Malformed stands for every annotation strconv.ParseInt rejects.
priority(s) == IF s.priority \in {None, Malformed} THEN -100 ELSE s.priority

IntPort(n) == [type |-> "Int", int |-> n, str |-> ""]

\* Mutant: the names of the ports are not looked at.
portMutant(s) ==
    IF s.port # None THEN s.port
    ELSE IF Len(s.ports) = 1 THEN IntPort(s.ports[1].port)
    ELSE IntPort(5432)

\* The annotation is [type, int, str], as intstr.Parse makes it.
port(s) ==
    LET named == SelectSeq(s.ports, LAMBDA p : p.name \in {"postgresql", "postgres"}) IN
    IF s.port # None THEN s.port
    ELSE IF named # <<>> THEN IntPort(named[1].port)
    ELSE IF \E p \in ToSet(s.ports) : p.port = 5432 THEN IntPort(5432)
    ELSE IF Len(s.ports) = 1 THEN IntPort(s.ports[1].port)
    ELSE IntPort(5432)

Generated(s) == [database |-> databaseName(s), prio |-> priority(s), port |-> port(s)]

Ours == "service-discovery"

InScope(s) == ~s.deleting /\ s.shape.labelled /\ ~s.shape.ignore

\* The mutate function refuses a route under another manager's label, and
\* SetControllerReference one that another object controls.
Adoptable(r) == r.by \in {None, Ours} /\ r.owner # Foreign

\* The mutate function sets the label, the three fields and the owner, which it
\* upserts by name; the other fields of the spec stay.
mutate(r, s) == [r EXCEPT !.by = Ours, !.owner = s.uid, !.gen = Generated(s.shape)]

NewRoute(s) ==
    [by |-> Ours, owner |-> s.uid, gen |-> Generated(s.shape), other |-> None]

-----------------------------------------------------------------------------
Init ==
    /\ svc = None /\ route = None /\ edits = 0
    /\ sfeed = <<>> /\ rfeed = <<>> /\ csvc = None /\ croute = None /\ queued = FALSE
    /\ wpc = "idle" /\ work = None /\ seen = None /\ current = FALSE /\ failures = 0

(* Users, other controllers and the API server.                              *)

WriteService(s) == svc' = s /\ sfeed' = Append(sfeed, s)

\* Every write of the route, its deletion included, makes a new resourceVersion.
WriteRoute(r) == route' = r /\ rfeed' = Append(rfeed, r) /\ current' = FALSE

Edits == edits < MaxEdits /\ edits' = edits + 1

\* A deleted Service may wait for a finalizer (a load balancer's).
EditService ==
    /\ Edits
    /\ \/ /\ svc = None
          /\ \E s \in Shapes : WriteService([uid |-> edits', deleting |-> FALSE, shape |-> s])
       \/ /\ svc # None
          /\ \/ \E s \in Shapes \ {svc.shape} : WriteService([svc EXCEPT !.shape = s])
             \/ ~svc.deleting /\ WriteService([svc EXCEPT !.deleting = TRUE])
             \/ WriteService(None)
    /\ UNCHANGED <<route, rfeed, copies, queued, worker, failures>>

\* A user writes, rewrites or deletes the route, drops its owner, or its status is
\* written.
EditRoute ==
    /\ Edits
    /\ \/ \E h \in HandWritten : WriteRoute(h)
       \/ /\ route # None
          /\ \E r \in {None, route, [route EXCEPT !.owner = None]} : WriteRoute(r)
    /\ UNCHANGED <<svc, sfeed, copies, queued, wpc, work, seen, failures>>

\* Owns maps a route to the Service that controls it.
Owns(r) == r # None /\ r.owner \notin {None, Foreign}

\* Garbage collection: the owner's uid is gone.  While the Service's deletion is still
\* on its way, a collected route is created again and again; MaxLag ends that.
Orphaned == Owns(route) /\ ~(svc # None /\ route.owner = svc.uid)

CollectGarbage ==
    /\ Orphaned /\ Len(rfeed) < MaxLag
    /\ WriteRoute(None)
    /\ UNCHANGED <<svc, sfeed, edits, copies, queued, wpc, work, seen, failures>>

\* The selector predicate judges the object of an event: the new one of an update,
\* the last one of a deletion.
matchesSelector(s) == s # None /\ s.shape.labelled

SyncService ==
    /\ sfeed # <<>> /\ sfeed' = Tail(sfeed)
    /\ csvc' = Head(sfeed)
    /\ queued' = (queued \/ matchesSelector(IF csvc' = None THEN csvc ELSE csvc'))
    /\ UNCHANGED <<svc, route, rfeed, edits, croute, worker, failures>>

\* Mutant: only the new object of an update is mapped to its owner.
SyncRouteMutant ==
    /\ rfeed # <<>> /\ rfeed' = Tail(rfeed)
    /\ croute' = Head(rfeed)
    /\ queued' = (queued \/ Owns(IF croute' = None THEN croute ELSE croute'))
    /\ UNCHANGED <<svc, sfeed, route, edits, csvc, worker, failures>>

SyncRoute ==
    /\ rfeed # <<>> /\ rfeed' = Tail(rfeed)
    /\ croute' = Head(rfeed)
    /\ queued' = (queued \/ Owns(croute) \/ Owns(croute'))
    /\ UNCHANGED <<svc, sfeed, route, edits, csvc, worker, failures>>

\* Another replica takes over: its caches are current and its informers' initial
\* events fill the queue.
Failover ==
    /\ Edits
    /\ csvc' = svc /\ croute' = route /\ sfeed' = <<>> /\ rfeed' = <<>>
    /\ queued' = (matchesSelector(svc) \/ Owns(route))
    /\ wpc' = "idle" /\ work' = None /\ seen' = None /\ current' = FALSE
    /\ UNCHANGED <<svc, route, failures>>

-----------------------------------------------------------------------------
(* Reconcile and deleteGeneratedRoute.                                       *)

Goto(from, to) == wpc = from /\ wpc' = to

Get ==
    /\ queued /\ queued' = FALSE
    /\ Goto("idle", IF csvc = None THEN "idle" ELSE IF InScope(csvc) THEN "upsert" ELSE "cleanup")
    /\ work' = csvc
    /\ UNCHANGED <<objects, edits, copies, seen, current, failures>>

\* Mutant: the copy is taken for the server's version.
ReadMutant ==
    /\ seen' = croute /\ current' = TRUE
    /\ Goto("upsert", IF croute = None THEN "create" ELSE "update")
    /\ UNCHANGED <<objects, edits, copies, queued, work, failures>>

\* CreateOrUpdate reads the route; an error of mutate is retried.
Read ==
    /\ seen' = croute /\ current' = (rfeed = <<>>)
    /\ \/ croute = None /\ Goto("upsert", "create") /\ UNCHANGED queued
       \/ croute # None /\ ~Adoptable(croute) /\ Goto("upsert", "idle") /\ queued' = TRUE
       \/ /\ croute # None /\ Adoptable(croute)
          /\ Goto("upsert", IF mutate(croute, work) = croute THEN "idle" ELSE "update")
          /\ UNCHANGED queued
    /\ UNCHANGED <<objects, edits, copies, work, failures>>

\* The call was made; its answer may be lost, and an error is retried.
Answered ==
    \/ UNCHANGED <<queued, failures>>
    \/ failures < MaxFailures /\ failures' = failures + 1 /\ queued' = TRUE

Create ==
    /\ Goto("create", "idle")
    /\ route = None /\ WriteRoute(NewRoute(work)) /\ Answered
    /\ UNCHANGED <<svc, sfeed, edits, copies, work, seen>>

\* Mutant: the write does not carry the resourceVersion that was read.
UpdateMutant ==
    /\ Goto("update", "idle")
    /\ route # None
    /\ WriteRoute(mutate(seen, work)) /\ Answered
    /\ UNCHANGED <<svc, sfeed, edits, copies, work, seen>>

\* Update carries the resourceVersion that was read.
Update ==
    /\ Goto("update", "idle")
    /\ current
    /\ WriteRoute(mutate(seen, work)) /\ Answered
    /\ UNCHANGED <<svc, sfeed, edits, copies, work, seen>>

\* Mutant: a refused write is left to the next event.
RefusedMutant ==
    /\ \/ Goto("create", "idle") /\ route # None
       \/ Goto("update", "idle") /\ ~current
    /\ UNCHANGED <<objects, edits, copies, queued, work, seen, current, failures>>

\* AlreadyExists, NotFound or Conflict; the last asks to be requeued, the others are
\* errors and retried.
Refused ==
    /\ \/ Goto("create", "idle") /\ route # None
       \/ Goto("update", "idle") /\ ~current
    /\ queued' = TRUE
    /\ UNCHANGED <<objects, edits, copies, work, seen, current, failures>>

\* Mutant: a failed call is logged and forgotten.
CallFailsMutant ==
    /\ \E from \in {"create", "update", "delete"} : Goto(from, "idle")
    /\ failures < MaxFailures /\ failures' = failures + 1
    /\ UNCHANGED <<objects, edits, copies, queued, work, seen, current>>

CallFails ==
    /\ \E from \in {"create", "update", "delete"} : Goto(from, "idle")
    /\ failures < MaxFailures /\ failures' = failures + 1 /\ queued' = TRUE
    /\ UNCHANGED <<objects, edits, copies, work, seen, current>>

\* deleteGeneratedRoute checks the cached route ...
Cleanup ==
    /\ Goto("cleanup", IF croute # None /\ croute.by = Ours /\ croute.owner = work.uid
                       THEN "delete" ELSE "idle")
    /\ UNCHANGED <<objects, edits, copies, queued, work, seen, current, failures>>

\* ... and deletes by name; a route that is gone already is no error.
Delete ==
    /\ Goto("delete", "idle")
    /\ IF route = None THEN UNCHANGED <<route, rfeed, current>> ELSE WriteRoute(None)
    /\ Answered
    /\ UNCHANGED <<svc, sfeed, edits, copies, work, seen>>

-----------------------------------------------------------------------------
Reconcile == Get \/ Read \/ Create \/ Update \/ Refused \/ CallFails \/ Cleanup \/ Delete

Next ==
    \/ EditService \/ EditRoute \/ CollectGarbage \/ SyncService \/ SyncRoute \/ Failover
    \/ Reconcile

Spec == Init /\ [][Next]_vars

\* Watches deliver, the garbage collector and the worker run.
Fairness ==
    WF_vars(SyncService) /\ WF_vars(SyncRoute) /\ WF_vars(CollectGarbage) /\ WF_vars(Reconcile)

FairSpec == Spec /\ Fairness

-----------------------------------------------------------------------------
(* What is checked.                                                          *)

Owners == (1..MaxEdits) \cup {None, Foreign}

\* Every variable has its type; a write believed current holds what the server has.
TypeOK ==
    /\ edits \in 0..MaxEdits /\ failures \in 0..MaxFailures
    /\ queued \in BOOLEAN /\ (current => seen = route)
    /\ wpc \in {"idle", "upsert", "cleanup", "create", "update", "delete"}
    /\ \A s \in {svc, csvc, work} : s # None =>
          s.uid \in 1..MaxEdits /\ s.deleting \in BOOLEAN /\ s.shape \in Shapes
    /\ \A r \in {route, croute, seen} : r # None => r.owner \in Owners

\* Caches, queue, worker and garbage collector have nothing left to do.
Settled == sfeed = <<>> /\ rfeed = <<>> /\ ~queued /\ wpc = "idle" /\ ~Orphaned

Published(s) ==
    route # None /\ route.by = Ours /\ route.owner = s.uid /\ route.gen = Generated(s.shape)

\* Whatever users and other controllers did to the Service and to the route, in
\* whatever order their events, stale reads, refused writes and failovers came: when
\* discovery is at rest, a Service in scope has its route, with its current settings.
RestMeansPublished == Settled /\ svc # None /\ InScope(svc) => Published(svc)

\* When discovery is at rest, a labelled Service that is annotated out or being deleted
\* has no generated route left, not even one whose creation the cache had not seen.
RestMeansOptedOut ==
    Settled /\ svc # None /\ svc.shape.labelled /\ ~InScope(svc) =>
        route = None \/ route.by # Ours \/ route.owner # svc.uid

\* CreateOrUpdate never overwrites a route that carries another manager's label or has
\* another controller, not even one that took the place of the route it had read.
OverwritesNoOtherManager == [][Update => Adoptable(route)]_vars

\* The port discovery writes into a route is one the resolver finds on the Service
\* whenever the Service has a recognisable PostgreSQL port or just one port.
PublishedPortResolves ==
    Settled /\ svc # None /\ InScope(svc) /\ svc.shape.port = None =>
        LET ports == svc.shape.ports
            plain == Len(ports) = 1 \/ \E p \in ToSet(ports) :
                        p.name \in {"postgresql", "postgres"} \/ p.port = 5432
        IN  plain => PortOf(ToSet(ports), route.gen.port).ok

\* Once users stop, a Service in scope gets its route, unless somebody else's route
\* has its name: retries, conflicts and the controller's own events do not keep each
\* other going.
DiscoveryConverges ==
    <>[](svc # None /\ InScope(svc) /\ (route # None => Adoptable(route)) => Published(svc))

-----------------------------------------------------------------------------
(* What the comments and the documentation say and the code does not do.     *)

\* Removing the label takes an instance out of the gateway (docs/routing.md:112): at
\* rest, a Service without the label has no generated route.
RestMeansUnlabelledGone ==
    Settled /\ svc # None /\ ~svc.shape.labelled =>
        route = None \/ route.by # Ours \/ route.owner # svc.uid
=============================================================================
