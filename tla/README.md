# A TLA+ model of pg-k8s-proxy

pg-k8s-proxy is a PostgreSQL gateway for Kubernetes. A client connects to one address
and names a database; the gateway forwards the session to the backend of the
`PostgresRoute` object that claims that name. Every replica runs the gateway and keeps
its own routing table; one elected replica also reports the state of each route in the
route's status and generates routes for labelled Services.

This directory holds TLA+ models of the program, TLC configurations that check them on
small instances, and TLAPS proofs of the most important invariants for all instances.
Line numbers refer to the repository; `PROJECT.json` maps each definition to the lines it
models and lists the runs, mutants, findings, hazards and theorems.

## The system

| Part | Source | Module |
|---|---|---|
| Gateway server: listen, accept, drain | `internal/proxy/server.go` | `Gateway`, `Admission` |
| Session handler: limit, handshake, dial | `internal/proxy/session.go` | `Gateway` (handshake by outcome), `Handshake` |
| Session relay and cancel forwarding | `internal/proxy/relay.go` | `Gateway`, `Relay` |
| Cancellation registry | `internal/proxy/cancel.go` | `Gateway` |
| Wire protocol | `internal/pgwire` | `PgWire` (startup packets), `Relay` (framing) |
| Routing table construction, resolver | `internal/registry` | `Registry` |
| Routing table builder | `internal/controller/routetable.go` | `RouteTable` |
| Route status reconciler | `internal/controller/postgresroute_controller.go` | `RouteTable` |
| Service discovery reconciler | `internal/controller/servicediscovery_controller.go` | `Discovery` |
| API types | `api/v1alpha1` | as records in `Registry`, `RouteTable` |
| Process wiring, probe server | `cmd`, `internal/health` | `Process` |
| Configuration | `internal/config` | `Config` |
| Metrics, version, generated code | | not modelled |

The control plane and the data plane meet in one place, `registry.Store`, an atomic
pointer to an immutable snapshot. `RouteTable` publishes snapshots; `Gateway` sees
them as an arbitrary change of its variable `table` (action `Publish`), so what it
shows does not depend on how the table was made. Discovery meets the rest in the API
server: the routes it writes are routes like any other. `Process` has all of them as the
manager sees them, as runnables that start, fail and return.

## Modules

**Gateway.** One `Server`. `srv` is the program counter of `Start`; `pc[c]` that of the
goroutine serving connection `c`; `upstream[c]` that of the session's second goroutine.
`slots`, `sessions`, `active` and `entries` are the channel, the wait group, the map of
connections and the cancellation registry that goroutines share. Every blocking call and
every access to shared state is a step of its own. An action is one stretch of the code
between two such points, with the early returns as actions of their own
(`NegotiationAborts`, `DialFails`, `ForwardFails`, ...). A connection is a client's end
(`peer`), the gateway's end (`sock`), and the connection to a backend (`backend`), which is
the session's or the one `forwardCancel` dials to deliver a cancel request. The upstream
goroutine alternates between its read from the client and its write to the backend, since
what can interrupt the one does not interrupt the other. The
constant `Events` selects the environment events an instance explores: shutdown, changes
of the table, client hang-ups, clients that send, expiring deadlines, the accept errors, and failures of
negotiation, dial, forwarding, framing and delivery.

**Admission**, **GatewayAdmission.** What `Gateway` promises, without channels, wait groups
or goroutines: who is let in, where a session goes, and when no session begins any more.
`GatewayAdmission` maps the state of `Gateway` to that of `Admission`: the phase of a
connection is a function of its goroutine's program counter, its endpoint the route it
looked up, and the grace period is over once `drain` has swept the connections of a
server that was asked to stop.

**PgWire**, **Handshake.** The opening of one session packet by packet: a client that may
send any packet at any time, ahead of the gateway's answers or not; `negotiate` with its
rounds and its TLS upgrade; the database the packet asks for; the backend's answer to an
SSLRequest, its certificate, the deadlines set and cleared, and the startup packet it is
sent. Closing the backend connection is part of the step that returns early, in `dialBackend`,
`upgradeBackendTLS` or `handle`, as each has its own calls for it. A startup payload is the
sequence of its NUL-terminated strings, with an unterminated rest or without, which `PgWire`
decodes, rewrites and encodes as `protocol.go` does; a packet that exceeds the length limits
is one that does not fit. `WellFormed` and `OpenedDatabase` are PostgreSQL's side, external. A
packet carries whether it was sent inside TLS; a TLS connection reads no other, and that is all
that is modelled of TLS. Of a parameter that is given more than once the gateway reads and
rewrites the first.

**Relay.** One session, message by message, through the four socket buffers between
client, gateway and backend. A goroutine blocks when the buffer it writes to is full.
The backend's messages are `auth`, `key`, `ready`, `data`; the gateway replaces `key` by
its own. A message the gateway cannot frame or decode ends the session
(`DownBadMessage`). The client and the backend are external.

**Registry.** `Build` and `resolve` as pure operators. An error is the set of sentinel
errors it wraps, which is what `errors.Is` sees. `Decide` is one iteration of `Build`'s
loop; the builder in `RouteTable` takes it step by step. Namespaces, names and database
names are numbers, whose order stands for the order of strings.

**RouteTable.** One replica's control plane. `api` and `svcs` are the objects of the API
server, `cache` and `csvcs` the informers' copies, which may lag and skip versions. The
builder's loop has the trigger channel of depth one, the debounce timer, the routes
still to be decided, and the decisions still to be announced; the reconciler has its
work queue and, between its read, its load of the snapshot and its patch, a stale copy. A
route that is being deleted stays in the table and is left alone by the reconciler.
`Patched` is the merge patch: only the fields that differ from that copy are sent.

**Discovery.** One Service, the route generated for it and the leader's reconciler. `svc`
and `route` are the objects of the API server; `sfeed` and `rfeed` hold the versions the
watches have yet to deliver to the informers' copies. Reads see the copies, writes go to
the server and carry the resourceVersion that was read (`current`: it is still the
server's). Users edit and delete both objects at any moment, the garbage collector removes
a route whose owner is gone, calls fail or their answers are lost, and another replica may
take over.

**Config**, **Process.** One replica from its command line to its exit. `Config` resolves
flags and environment as pure operators. `Process` registers the runnables of the role and
runs the `Start` methods of the gateway, the probe server and the builder, each with its
ways to fail, under a manager that starts them when its caches have synced, elects a
leader, and stops all of them when one fails. Sessions end by themselves or not at all;
whether one ends after `drain` has closed its connection is `Gateway`'s concern.

`MCGateway`, `MCRegistry`, `MCRouteTable`, `MCDiscovery`, `MCHandshake` and `MCProcess` hold
the instances. `GatewayShapeProofs`,
`GatewayProofs`, `GatewaySessionProofs` and `GatewayCancelProofs`, each extending the one
before, `AdmissionProofs`, `DiscoveryProofs`, `HandshakeProofs` and `RegistryProofs` hold the
theorems.

A definition whose name ends in `Mutant` is a plausible bug in the definition that
follows it. No specification uses it. Each checked property has one that breaks it.

## Runs that pass

| Run | Instance | What it shows |
|---|---|---|
| `gateway_limit` | 2 connections, limit 1, all failures, shutdown | no path leaks a slot or a session; backends are never overloaded, cancel requests included; a forced shutdown leaves no session open; `Gateway` implements `Admission` |
| `gateway_cancel` | 3 connections, 2 backends, table changes, failures | the registry holds exactly the keys of the live sessions; a delivered cancel reaches the session it is meant for |
| `gateway_live` | 2 connections, limit 1, shutdown, deadlines | a drain completes, but for a session blocked in a write; a silent client does not keep its slot |
| `relay_duplex` | buffers of 1, 4 requests of 2 replies | the stream is faithful, the key is registered before it is told, every session ends |
| `registry_build` | every list of up to 3 of 48 rival routes; every backend reference, TLS policy, Service and Secret state of one route | `Build` agrees with the documented ranking, whatever the order of the list; a route is served only as it asks to be |
| `routetable_table` | 2 routes, 1 Service, 3 edits from any start, a channel of 1 event that nobody reads | snapshots are consistent; at rest the table is current; the loop comes to rest |
| `routetable_status` | 2 routes, 1 Service, 1 edit, 1 failed write, a channel of 2 events | at rest every status is current; the reconciler comes to rest |
| `discovery` | 1 Service of 5 shapes, 3 hand-written routes, 4 edits, 1 failed call, a watch 2 versions behind | at rest a Service in scope has its route and one opted out has none; the port resolves; no other manager's route is overwritten; discovery comes to rest |
| `handshake` | 5 packets in any order, 2 ahead; 4 rounds; all TLS modes; all payloads of up to 5 strings, whole or cut short | TLS protects what it should on both sides; the backend reads what was sent and opens the database of the route; no backend connection is left behind; every handshake ends |
| `process` | all roles, elections, grace periods, TLS settings and files, flags against environment; 2 sessions | a replica runs only what it was asked to, as it was asked to; a failure ends it; its shutdown ends, but for a session that nothing ends |

*Why the bounds are enough.* In `gateway_limit` one slot and two connections give every
contention for the limit: one holds, the other is refused or takes over. Two connections
also put one in each of any two places of the drain race. Cancelling needs two sessions
that could be confused and the connection that cancels, hence three in `gateway_cancel`,
with two backends that issue the *same* key, the collision the registry is there for. Two
things are left to the proofs, to keep these instances small: in `gateway_limit` a route
can only change to none and back, as there is one endpoint, and in `gateway_cancel` no client
hangs up. Clients send during a session in `gateway_live` only; the other two are not about
the upstream copy. In `Relay`, buffers of one message make every write block as early as it can, and four
requests of two replies are enough to fill all four buffers and both goroutines. Three
routes cover a winner, a loser and a route of another name or namespace. In `RouteTable`
two rivals and one Service are the smallest cluster in which a change to one object
changes the decision about another; a third edit lets the cluster change again during the
rebuild that answers the second. In `discovery` four edits are a Service's creation, its
opt-out or deletion, its return, and one interference with its route, in any order; one
Service is enough, as each has its own key and its own route. In `handshake` four rounds
are the code's own bound, and five packets exceed it; five strings are two parameters, one
of them perhaps repeated, and the terminator or padding. In `routetable_status` two events
fill the channel before the election, when they may be lost, and not after; in
`routetable_table` the first event fills it, and the builder must not wait. `process` has
every combination of the settings it is about.

Deadlock checking is off: users stop editing, clients stop connecting and the server
stops, so all these systems may rest. What must not rest is stated as a liveness property,
or, in `RouteTable`, as what must hold *when* the system rests
(`RestMeansCurrentTable`, `RestMeansCurrentStatus`).

*Fairness.* Goroutines that can run do run, timers fire, and reads and writes on a closed
connection return; nothing is assumed of clients, except in `Relay` that a connected
client reads. `gateway_live` assumes two things of a backend, as PostgreSQL has them: it
reads what it is sent as long as the gateway reads what it answers, and it closes after it
has read the end of its client's stream. Without either, `drain` may wait for ever. Once the
gateway has stopped reading, the backend need not read any more: the upstream copy may then
stay blocked in its write, which closing the client does not interrupt, and `relay` waits for
it. That is the exception `Wedged` in `DrainTerminates`; without it TLC finds the hang. In
`RouteTable` watches deliver, and the work queue serves every key that keeps coming back
(strong fairness of `Get`: the queue is first-in first-out). A user's edits are bounded,
so "once users stop" is part of every behaviour. In `Discovery` the garbage collector and
the worker run as well. In `Handshake` the goroutine runs and its deadlines pass; neither
peer need ever answer. In `Process` no session need ever end, closed or not, and no lease
need be won; `StopEnds` and `FailureSurfaces` name the cases in which such a session holds the
process up: always after an accept error, which nothing tells the manager before `drain`
returns, and otherwise only under a grace period without limit.

## Runs that find a disagreement

Each checks a statement of a comment or a document against the code; `PROJECT.json` quotes
the statement and explains the behaviour TLC finds.

| Run | Statement | What the code does |
|---|---|---|
| `discovery_label` | a Service that loses its label loses its generated route | the watch's predicate drops the very event that says so |
| `process_signal` | a signal starts a graceful shutdown | no signal handler is installed; the process ends at once |

Further disagreements that the models exhibit, without a run of their own:

- `server.go:263` says `Listening` means accepting; it stays true while the server drains.
  (In `gateway_limit`, the invariant `listening => listener = "open"` fails.)
- `server.go:176` says descriptor exhaustion does not end the accept loop; it does, since
  `EMFILE` is not a timeout. (In `gateway_limit`, `srv = "draining" => ctxDone` fails with
  the event `fdLimit`.)
- `relay.go:49` says closing the client unblocks the upstream copy; it does not when the
  copy is blocked in a write to a backend that is itself blocked writing. (`relay_duplex`
  with `Duplex = FALSE` violates `SessionEnds`; `gateway_live` violates
  `srv = "draining" ~> srv = "stopped"`.)
- `registry.go:37` says `ErrCABundle` means an unloadable bundle; that of a missing Secret
  is reported as `BackendNotFound` (`postgresroute_controller.go:185`).
- `postgresroute_types.go:175` says `observedGeneration` was acted on; the decision it is
  reported with may be older (`postgresroute_controller.go:80`).
- `servicediscovery_controller.go:26` says discovery never touches a route a user wrote by
  hand, and line 121 that it refuses to adopt one; line 123 lets it adopt one that carries
  no `managed-by` label.
- `servicediscovery_controller.go:174` says only routes this controller generated are
  deleted; line 190 deletes by name, so a route that took the place of the one that was
  checked is deleted too.
- `protocol.go:50` and `session.go:131` say the forwarded packet is byte-for-byte the
  client's; padding is dropped and a missing terminator added. `ForwardedFaithful` states
  what does hold, parameter by parameter.
- `protocol.go:97` and `registry.go:77` have `TargetDatabase` forwarded to the backend as its
  database; of a name given twice only the first is replaced, and PostgreSQL opens the last.
  `ForwardedFaithful` excludes that case.
- `postgresroute_types.go:94` says a CA Secret is required for `VerifyCA` and `VerifyFull`;
  without one `registry.go:326` verifies against the system's roots. `ServedAsAsked` has it so.
- `docs/architecture.md:51` says a fresh pod routes correctly as soon as its cache syncs; the
  gateway may listen, and readiness pass, before the first table is built.
- `run.go:71` hands the gateway's grace period to the manager; zero means no wait to the
  manager and thirty seconds to the gateway (`server.go:71`).
- `server.go:133` says `Start` returns when the grace period expires; `drain` then waits
  without bound for the sessions (`server.go:239`), which a backend that does not close
  can prolong.
- `docs/architecture.md:104` says a cancel request is looked up and delivered; at the
  connection limit it is refused first (`session.go:40`).
- `server.go:51` says `StartupTimeout` bounds the handshake; the deadline is on the client
  connection, which looking up, dialling and forwarding do not touch.
- `registry.go:33` says `ErrPortNotFound` means the Service has no such port; for a
  numeric port the error wraps nothing (`resolver.go:64`) and is reported as
  `InvalidBackend`.
- `postgresroute_types.go:187` says `conflictingRoute` is set on a rejected route; a merge
  patch from a stale copy can leave it set on an accepted one until the next reconcile.
- `routetable.go:58` says status events keep the reported state honest; a full channel
  drops them on the leader too (`routetable.go:226`), and nothing sends them again.
  (`routetable_status` with `EventsCap = 1` violates `RestMeansCurrentStatus`.)

## Proofs

The theorems hold for any finite set of connections, any limit, any sets of databases,
endpoints and keys, and any selection of events; those about `Discovery` and `Handshake` for
any shapes, packets, rounds and bounds. The ones about `Gateway` assume `ConstantsAssumption` of
`Gateway`: the set of connections is finite, the limit is a natural number (which
`New` checks), and `None` is none of the values.

*Accounting* (`GatewayShapeProofs`, `GatewayProofs`). `SlotsExact`, `SessionsExact` and `BackendLoadBounded`
follow from one inductive invariant, `Accounting`: types, the two exact counts, and
`Wellformed`, which ties each connection's program counter to its backend connection,
its upstream goroutine, its key and its route. The counts are not inductive without it:
that a backend connection is open only while a slot is held needs to know in which places
one can be open at all. The step is one lemma per part, with one case per action; a
frame lemma covers the actions that move a connection within a set of places, and the
cardinality lemmas the ones that enter or leave it.

*Forced shutdown* (`GatewaySessionProofs`). `ForcedSessionsClosed` is not inductive either: a connection may be
accepted but not yet tracked when `drain` sweeps `activeConn`, so its socket stays open.
It is still never established, because its dial runs under the cancelled context.
`ForcedExact` says that: once forced, an open connection is at a place before the dial
or past the session.

*Cancellation*. `RegistryExact` is inductive with `Accounting` (`GatewaySessionProofs`).
`FoundExact` (`GatewayCancelProofs`) adds that an entry once looked up stays that of its session, after the
session ends and the key is released; it gives `CancelReachesItsSession`. The property
excludes the case that two sessions drew the same random key one after the other.

*Ranking* (`RegistryProofs`). `less` is a strict total order on routes with distinct keys,
so sorting by it has one result.

*Refinement* (`AdmissionProofs`). `Gateway` implements `Admission`: initial states map to
initial states, and each of the 43 actions to one step or to none. The steps need more
than the mapping. That a connection is admitted or refused as `Admission` counts them is
`SlotsExact`: the set of those inside is the set of those between `acquireSlot` and
`releaseSlot`. That no session begins after the grace period is `ForcedExact`. `Fresh` adds
that a route is looked up once, and that a stopped server runs no goroutine.

*Discovery* (`DiscoveryProofs`). `OverwritesNoOtherManager` is about the moment of the write,
while the check was made on a cached copy. `Informed` connects them: the watch is complete,
so a copy with nothing on its way is the server's version; the worker has judged what it
read; and what it read is the server's version as long as the resourceVersion is.

*Handshake* (`HandshakeProofs`). `Negotiating` strengthens `StartupProtected` with what the
loop relies on: after an S, whatever is read next is read inside TLS, and a packet that was
returned ended the loop. `Connected` strengthens `BackendAsAsked` and `BackendNotLeaked` with
what is known of the backend connection at each step between the dial and the end of
`handle`, the early returns of three functions among them.

Only model-checked: the liveness properties (out of TLAPS's reach), `Relay`, `Build`
against the ranking (a fold; induction over data is out of reach as well), what
`PgWire` decodes and `ForwardedFaithful` (likewise), the other properties of `Discovery`,
`Process` and `RouteTable`.

## Not modelled

Error texts, logs, metrics and the fixed layouts of cancel and error messages. TLS beyond
who can read what, and which certificates a mode accepts. Target database names in the
routing table and TLS server names, which only pass through. Several replicas at once: they
share nothing but the API server, and `Build` is a function of the cluster; a failover is a
step of `Discovery` and an election one of `RouteTable`. Several Services at once in
`Discovery`, which do not interact. A cache whose `List` fails. The Secret watch, which has the
form of the Service watch. A second `BackendKeyData` in one session, which PostgreSQL does not
send. The probe's HTTP handler, which is stateless; addresses, timeouts and names of the
configuration. The manager, its caches and its leader election are controller-runtime's;
what `Process` has of them is what `run.go` relies on.

## Plan

1. The composition of `RouteTable` and `Gateway` behind one store, and of `Discovery` with
   `RouteTable` behind one API server.
2. Abstract specifications: an atomically updated routing table that the builder
   implements.
3. Proofs: `RouteTable`'s types and `SnapshotSound`; `StreamFaithful`; `TLSFailsClosed` and
   `WritersAreElected` of `Process`.
