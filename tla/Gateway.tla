------------------------------ MODULE Gateway ------------------------------
(***************************************************************************)
(* The data plane of pg-k8s-proxy, package internal/proxy: one Server, its  *)
(* accept loop and shutdown, the goroutine that serves each client          *)
(* connection, the two goroutines of an established session, and the        *)
(* registry of cancellation keys they share.                                *)
(*                                                                          *)
(* pc[c] is the program counter of the goroutine that serves connection c.  *)
(* Every blocking call and every access to shared state is a step of its    *)
(* own; byte counts, logs and metrics are left out.  The pre-startup        *)
(* negotiation appears here by its outcomes only, and the bytes of an       *)
(* established session are the subject of module Relay.                     *)
(***************************************************************************)
EXTENDS Integers, FiniteSets

CONSTANTS
    Conns,          \* client connections; each is opened at most once
    Databases,      \* database names clients ask for
    Endpoints,      \* backend addresses, each with its TLS policy
    Keys,           \* cancellation keys the gateway can draw
    BackendKeys,    \* cancellation keys a backend can draw
    MaxConnections, \* Config.MaxConnections; 0 is unlimited
    Events,         \* the environment events a model explores
    None            \* "no value"

\* cancelEntry
Entry == [addr : Endpoints, key : BackendKeys]

ASSUME ConstantsAssumption ==
    /\ IsFiniteSet(Conns)
    /\ MaxConnections \in Nat
    /\ None \notin Conns \cup Databases \cup Endpoints \cup Keys \cup BackendKeys \cup Entry

VARIABLES
    srv,        \* Start: "new", "serving", "backoff", "draining", "forced", "stopped"
    ctxDone,    \* the manager's context is cancelled
    listener,   \* the listening socket: "unbound", "open", "closed"
    listening,  \* Server.listening
    acceptErr,  \* acceptLoop returned an error
    sessions,   \* Server.sessions, the WaitGroup counter
    slots,      \* len(Server.slots)
    active,     \* Server.activeConn
    table,      \* the routing table in registry.Store
    pc,         \* the serving goroutine of each connection
    db,         \* the database a client asks for
    target,     \* the session a CancelRequest is meant for
    peer,       \* the client's end of the connection is open
    sock,       \* the gateway's end of the connection is open
    expired,    \* the handshake deadline passed before the session was set up
    route,      \* the endpoint the session was routed to
    backend,    \* the connection to a backend: "none", "open", "half", "closed"
    upstream,   \* the client-to-backend goroutine: "none", "reading", "writing", "done"
    key,        \* the gateway key issued to the session
    bkey,       \* the key the backend issued to the session
    told,       \* the client has received its gateway key
    entries,    \* cancelRegistry.entries; None marks an absent key
    found,      \* the entry forwardCancel looked up
    sent        \* forwardCancel delivered its request

server == <<srv, ctxDone, listener, listening, acceptErr>>
pools  == <<sessions, slots, active>>
ask    == <<db, target>>
wire   == <<peer, sock>>
link   == <<route, backend, upstream>>
keys   == <<key, bkey, told, entries>>
cancel == <<found, sent>>
vars   == <<server, pools, table, pc, ask, wire, expired, link, keys, cancel>>

PCs == {"none", "backlog", "spawned", "tracked", "refused", "negotiating",
        "lookup", "dialing", "forwarding", "framing", "keyed", "splicing",
        "released", "waiting", "cancelling", "delivering", "sending",
        "unwinding", "closing", "closed", "done"}

\* The goroutine is inside relayFromBackend.
Relaying == {"framing", "keyed", "splicing"}

\* The goroutine is inside relay.
Established == Relaying \cup {"released", "waiting"}

\* The handshake deadline is armed.
Handshaking == {"negotiating", "lookup", "dialing", "forwarding"}

\* serve has acquired a slot and not released it.
Holding ==
    Handshaking \cup Established \cup {"cancelling", "delivering", "sending", "unwinding"}

\* serve is between track and untrack.
Tracked == Holding \cup {"tracked", "refused", "closing"}

\* The goroutine is counted in Server.sessions.
Running == Tracked \cup {"spawned", "closed"}

At(P) == {c \in Conns : pc[c] \in P}

EntryOf(c) == [addr |-> route[c], key |-> bkey[c]]

Init ==
    /\ srv = "new" /\ ctxDone = FALSE /\ listener = "unbound"
    /\ listening = FALSE /\ acceptErr = FALSE
    /\ sessions = 0 /\ slots = 0 /\ active = {}
    /\ table \in [Databases -> Endpoints \cup {None}]
    /\ pc = [c \in Conns |-> "none"]
    /\ db = [c \in Conns |-> None] /\ target = [c \in Conns |-> None]
    /\ peer = [c \in Conns |-> FALSE] /\ sock = [c \in Conns |-> FALSE]
    /\ expired = [c \in Conns |-> FALSE]
    /\ route = [c \in Conns |-> None]
    /\ backend = [c \in Conns |-> "none"]
    /\ upstream = [c \in Conns |-> "none"]
    /\ key = [c \in Conns |-> None] /\ bkey = [c \in Conns |-> None]
    /\ told = [c \in Conns |-> FALSE]
    /\ entries = [k \in Keys |-> None]
    /\ found = [c \in Conns |-> None] /\ sent = [c \in Conns |-> FALSE]

Goto(c, from, to) == pc[c] = from /\ pc' = [pc EXCEPT ![c] = to]

-----------------------------------------------------------------------------
(* The environment: the manager, the control plane, clients, backends, time. *)

\* The manager cancels the context it passed to Start.
Shutdown ==
    /\ "shutdown" \in Events /\ srv # "new" /\ ~ctxDone
    /\ ctxDone' = TRUE
    /\ UNCHANGED <<srv, listener, listening, acceptErr, pools, table, pc, ask, wire,
                   expired, link, keys, cancel>>

\* The control plane swaps in another routing table (Store.Store).
Publish ==
    /\ "publish" \in Events
    /\ \E d \in Databases, e \in Endpoints \cup {None} : table' = [table EXCEPT ![d] = e]
    /\ UNCHANGED <<server, pools, pc, ask, wire, expired, link, keys, cancel>>

\* A client connects, to open a session or to cancel the query of session s,
\* whose key it learned earlier.
Connect(c) ==
    /\ listener = "open"
    /\ Goto(c, "none", "backlog")
    /\ peer' = [peer EXCEPT ![c] = TRUE]
    /\ \/ \E d \in Databases : db' = [db EXCEPT ![c] = d] /\ UNCHANGED target
       \/ \E s \in Conns : told[s] /\ target' = [target EXCEPT ![c] = s] /\ UNCHANGED db
    /\ UNCHANGED <<server, pools, table, sock, expired, link, keys, cancel>>

HangUp(c) ==
    /\ "hangup" \in Events /\ peer[c]
    /\ peer' = [peer EXCEPT ![c] = FALSE]
    /\ UNCHANGED <<server, pools, table, pc, ask, sock, expired, link, keys, cancel>>

\* The backend closes its connection: on its own account, or because it read
\* the end of the client's stream.
BackendCloses(c) ==
    /\ backend[c] \in {"open", "half"}
    /\ backend' = [backend EXCEPT ![c] = "closed"]
    /\ UNCHANGED <<server, pools, table, pc, ask, wire, expired, route, upstream, keys, cancel>>

\* Mutant: the deadline is armed only once the backend is dialled.
ExpireLateMutant(c) ==
    /\ "expire" \in Events
    /\ pc[c] \in {"dialing", "forwarding"} /\ ~expired[c]
    /\ expired' = [expired EXCEPT ![c] = TRUE]
    /\ UNCHANGED <<server, pools, table, pc, ask, wire, link, keys, cancel>>

\* StartupTimeout elapses; handle armed the deadline on the client connection
\* and clears it only once the startup packet is forwarded.
Expire(c) ==
    /\ "expire" \in Events
    /\ pc[c] \in Handshaking /\ ~expired[c]
    /\ expired' = [expired EXCEPT ![c] = TRUE]
    /\ UNCHANGED <<server, pools, table, pc, ask, wire, link, keys, cancel>>

-----------------------------------------------------------------------------
(* Server.Start, acceptLoop and drain.                                       *)

Listen ==
    /\ srv = "new"
    /\ srv' = "serving" /\ listener' = "open" /\ listening' = TRUE
    /\ UNCHANGED <<ctxDone, acceptErr, pools, table, pc, ask, wire, expired, link, keys, cancel>>

ListenFails ==
    /\ srv = "new"
    /\ srv' = "stopped" /\ acceptErr' = TRUE
    /\ UNCHANGED <<ctxDone, listener, listening, pools, table, pc, ask, wire, expired,
                   link, keys, cancel>>

\* The goroutine of Start that waits for ctx.Done.  Closing the listener resets
\* the connections the kernel had not handed over yet.
CloseListener ==
    /\ ctxDone /\ listener = "open"
    /\ listener' = "closed"
    /\ pc' = [c \in Conns |-> IF pc[c] = "backlog" THEN "done" ELSE pc[c]]
    /\ UNCHANGED <<srv, ctxDone, listening, acceptErr, pools, table, ask, wire, expired,
                   link, keys, cancel>>

Accept(c) ==
    /\ srv = "serving" /\ listener = "open"
    /\ Goto(c, "backlog", "spawned")
    /\ sessions' = sessions + 1
    /\ sock' = [sock EXCEPT ![c] = TRUE]
    /\ UNCHANGED <<server, slots, active, table, ask, peer, expired, link, keys, cancel>>

\* Accept fails with an error e: "closed" because shutdown closed the listener,
\* "timeout" for a net.Error whose Timeout() is true, "fdLimit" for EMFILE,
\* whose Timeout() is false.
AcceptError(e) ==
    /\ srv = "serving"
    /\ IF e = "closed" THEN listener = "closed" ELSE listener = "open" /\ e \in Events
    /\ IF ctxDone
       THEN srv' = "draining" /\ UNCHANGED acceptErr
       ELSE IF e = "timeout"
            THEN srv' = "backoff" /\ UNCHANGED acceptErr
            ELSE srv' = "draining" /\ acceptErr' = TRUE
    /\ UNCHANGED <<ctxDone, listener, listening, pools, table, pc, ask, wire, expired,
                   link, keys, cancel>>

\* The select after a temporary failure: the backoff elapses, or shutdown.
Backoff ==
    /\ srv = "backoff"
    /\ \/ srv' = "serving"
       \/ ctxDone /\ srv' = "draining"
    /\ UNCHANGED <<ctxDone, listener, listening, acceptErr, pools, table, pc, ask, wire,
                   expired, link, keys, cancel>>

\* Mutant: the sweep of activeConn is missing.
GraceWithoutCloseMutant ==
    /\ srv = "draining"
    /\ srv' = "forced"
    /\ UNCHANGED <<ctxDone, listener, listening, acceptErr, pools, table, pc, ask, wire,
                   expired, link, keys, cancel>>

\* drain: ShutdownGracePeriod elapses and every tracked connection is closed.
GraceExpires ==
    /\ srv = "draining"
    /\ srv' = "forced"
    /\ sock' = [c \in Conns |-> sock[c] /\ c \notin active]
    /\ UNCHANGED <<ctxDone, listener, listening, acceptErr, pools, table, pc, ask, peer,
                   expired, link, keys, cancel>>

\* drain: sessions.Wait returned; Start returns and its deferred store runs.
StartReturns ==
    /\ srv \in {"draining", "forced"} /\ sessions = 0
    /\ srv' = "stopped" /\ listening' = FALSE
    /\ UNCHANGED <<ctxDone, listener, acceptErr, pools, table, pc, ask, wire, expired,
                   link, keys, cancel>>

-----------------------------------------------------------------------------
(* serve and handle.                                                         *)

Track(c) ==
    /\ Goto(c, "spawned", "tracked")
    /\ active' = active \cup {c}
    /\ UNCHANGED <<server, sessions, slots, table, ask, wire, expired, link, keys, cancel>>

\* Mutant: the capacity of the channel is off by one.
AcquireOneMoreMutant(c) ==
    /\ MaxConnections = 0 \/ slots <= MaxConnections
    /\ Goto(c, "tracked", "negotiating")
    /\ slots' = IF MaxConnections = 0 THEN slots ELSE slots + 1
    /\ UNCHANGED <<server, sessions, active, table, ask, wire, expired, link, keys, cancel>>

AcquireSlot(c) ==
    /\ MaxConnections = 0 \/ slots < MaxConnections
    /\ Goto(c, "tracked", "negotiating")
    /\ slots' = IF MaxConnections = 0 THEN slots ELSE slots + 1
    /\ UNCHANGED <<server, sessions, active, table, ask, wire, expired, link, keys, cancel>>

\* Mutant: releaseSlot is deferred before acquireSlot is tried.
RefuseAndReleaseMutant(c) ==
    /\ MaxConnections > 0 /\ slots = MaxConnections
    /\ Goto(c, "tracked", "refused")
    /\ slots' = slots - 1
    /\ UNCHANGED <<server, sessions, active, table, ask, wire, expired, link, keys, cancel>>

RefuseSlot(c) ==
    /\ MaxConnections > 0 /\ slots = MaxConnections
    /\ Goto(c, "tracked", "refused")
    /\ UNCHANGED <<server, pools, table, ask, wire, expired, link, keys, cancel>>

\* negotiate returns the client's startup packet or CancelRequest.
Negotiated(c) ==
    /\ sock[c] /\ ~expired[c]
    /\ Goto(c, "negotiating", IF target[c] = None THEN "lookup" ELSE "cancelling")
    /\ UNCHANGED <<server, pools, table, ask, wire, expired, link, keys, cancel>>

\* Mutant: an aborted negotiation returns without releasing its slot.
AbortKeepsSlotMutant(c) ==
    /\ ~peer[c] \/ ~sock[c] \/ expired[c]
    /\ Goto(c, "negotiating", "closing")
    /\ UNCHANGED <<server, pools, table, ask, wire, expired, link, keys, cancel>>

\* A read fails: the client hung up, the deadline passed, or drain closed the
\* connection.
NegotiationAborts(c) ==
    /\ ~peer[c] \/ ~sock[c] \/ expired[c]
    /\ Goto(c, "negotiating", "unwinding")
    /\ UNCHANGED <<server, pools, table, ask, wire, expired, link, keys, cancel>>

\* The client breaks the protocol, declines required TLS or names no database.
NegotiationFails(c) ==
    /\ "failures" \in Events
    /\ Goto(c, "negotiating", "unwinding")
    /\ UNCHANGED <<server, pools, table, ask, wire, expired, link, keys, cancel>>

\* One atomic load of the routing table decides where the session goes.
Lookup(c) ==
    LET e == table[db[c]] IN
    /\ Goto(c, "lookup", IF e = None THEN "unwinding" ELSE "dialing")
    /\ route' = [route EXCEPT ![c] = e]
    /\ UNCHANGED <<server, pools, table, ask, wire, expired, backend, upstream, keys, cancel>>

\* Mutant: the dial ignores the shutdown context.
DialDetachedMutant(c) ==
    /\ Goto(c, "dialing", "forwarding")
    /\ backend' = [backend EXCEPT ![c] = "open"]
    /\ UNCHANGED <<server, pools, table, ask, wire, expired, route, upstream, keys, cancel>>

\* dialBackend; its context descends from the one Shutdown cancels.
DialOk(c) ==
    /\ ~ctxDone
    /\ Goto(c, "dialing", "forwarding")
    /\ backend' = [backend EXCEPT ![c] = "open"]
    /\ UNCHANGED <<server, pools, table, ask, wire, expired, route, upstream, keys, cancel>>

DialFails(c) ==
    /\ ctxDone \/ "failures" \in Events
    /\ Goto(c, "dialing", "unwinding")
    /\ UNCHANGED <<server, pools, table, ask, wire, expired, link, keys, cancel>>

\* The startup packet is forwarded and the deadlines are cleared, which fails
\* on a connection drain has closed; relay then starts the upstream copy.
Establish(c) ==
    /\ sock[c]
    /\ Goto(c, "forwarding", "framing")
    /\ upstream' = [upstream EXCEPT ![c] = "reading"]
    /\ UNCHANGED <<server, pools, table, ask, wire, expired, route, backend, keys, cancel>>

ForwardFails(c) ==
    /\ ~sock[c] \/ backend[c] = "closed" \/ "failures" \in Events
    /\ Goto(c, "forwarding", "unwinding")
    /\ backend' = [backend EXCEPT ![c] = "closed"]
    /\ UNCHANGED <<server, pools, table, ask, wire, expired, route, upstream, keys, cancel>>

-----------------------------------------------------------------------------
(* relay, relayFromBackend and spliceToClient.                               *)

\* Mutant: issue does not check that the key is free.
IssueTakenKeyMutant(c) ==
    /\ key[c] = None
    /\ Goto(c, "framing", "keyed")
    /\ \E k \in Keys, b \in BackendKeys :
          /\ key' = [key EXCEPT ![c] = k]
          /\ bkey' = [bkey EXCEPT ![c] = b]
          /\ entries' = [entries EXCEPT ![k] = [addr |-> route[c], key |-> b]]
    /\ UNCHANGED <<server, pools, table, ask, wire, expired, link, told, cancel>>

\* BackendKeyData arrives, once per session, with a key that no other live session of
\* that backend has: the gateway registers a key of its own that no live session holds
\* (cancelRegistry.issue).
IssueKey(c) ==
    /\ key[c] = None
    /\ Goto(c, "framing", "keyed")
    /\ \E k \in Keys, b \in BackendKeys :
          /\ entries[k] = None
          /\ \A s \in Conns : route[s] = route[c] /\ backend[s] \in {"open", "half"} => bkey[s] # b
          /\ key' = [key EXCEPT ![c] = k]
          /\ bkey' = [bkey EXCEPT ![c] = b]
          /\ entries' = [entries EXCEPT ![k] = [addr |-> route[c], key |-> b]]
    /\ UNCHANGED <<server, pools, table, ask, wire, expired, link, told, cancel>>

\* The rewritten BackendKeyData reaches the client.
TellKey(c) ==
    /\ sock[c]
    /\ Goto(c, "keyed", "framing")
    /\ told' = [told EXCEPT ![c] = TRUE]
    /\ UNCHANGED <<server, pools, table, ask, wire, expired, link, key, bkey, entries, cancel>>

\* ReadyForQuery has been forwarded: framing gives way to the raw copy.
Splice(c) ==
    /\ sock[c]
    /\ Goto(c, "framing", "splicing")
    /\ UNCHANGED <<server, pools, table, ask, wire, expired, link, keys, cancel>>

\* relayFromBackend returns; its deferred call releases the session's key.
EndRelay(c, from) ==
    /\ Goto(c, from, "released")
    /\ entries' = [k \in Keys |-> IF k = key[c] THEN None ELSE entries[k]]
    /\ UNCHANGED <<server, pools, table, ask, wire, expired, link, key, bkey, told, cancel>>

\* The backend's stream ends.
BackendEOF(c) ==
    /\ backend[c] = "closed"
    /\ \E from \in {"framing", "splicing"} : EndRelay(c, from)

\* A backend message cannot be framed or decoded.
BadMessage(c) == "failures" \in Events /\ EndRelay(c, "framing")

\* Bytes of the backend cannot be written to the client.
ClientWriteFails(c) ==
    /\ ~peer[c] \/ ~sock[c]
    /\ \E from \in Relaying : EndRelay(c, from)

\* relay closes the client connection, which unblocks an upstream copy that reads.
CloseClient(c) ==
    /\ Goto(c, "released", "waiting")
    /\ sock' = [sock EXCEPT ![c] = FALSE]
    /\ UNCHANGED <<server, pools, table, ask, peer, expired, link, keys, cancel>>

\* The upstream goroutine: bytes of the client have been read, perhaps the last it sent.
UpstreamReads(c) ==
    /\ "traffic" \in Events
    /\ upstream[c] = "reading" /\ sock[c]
    /\ upstream' = [upstream EXCEPT ![c] = "writing"]
    /\ UNCHANGED <<server, pools, table, pc, ask, wire, expired, route, backend, keys, cancel>>

\* Its Write to the backend returns: the backend, or the buffers before it, took the bytes.
UpstreamWrites(c) ==
    /\ upstream[c] = "writing"
    /\ upstream' = [upstream EXCEPT ![c] = "reading"]
    /\ UNCHANGED <<server, pools, table, pc, ask, wire, expired, route, backend, keys, cancel>>

\* Its copy ends, because the read finds the client gone or its connection closed, or the
\* write finds the backend gone, and it half-closes the backend.  Closing the client
\* connection does not interrupt a write.
UpstreamEnds(c) ==
    /\ \/ upstream[c] = "reading" /\ (~peer[c] \/ ~sock[c])
       \/ upstream[c] = "writing" /\ backend[c] = "closed"
    /\ upstream' = [upstream EXCEPT ![c] = "done"]
    /\ backend' = [backend EXCEPT ![c] = IF @ = "open" THEN "half" ELSE @]
    /\ UNCHANGED <<server, pools, table, pc, ask, wire, expired, route, keys, cancel>>

\* Mutant: handle does not close the backend connection.
BackendLeftOpenMutant(c) ==
    /\ upstream[c] = "done"
    /\ Goto(c, "waiting", "unwinding")
    /\ UNCHANGED <<server, pools, table, ask, wire, expired, link, keys, cancel>>

\* relay's wg.Wait returns and handle closes the backend connection.
RelayReturns(c) ==
    /\ upstream[c] = "done"
    /\ Goto(c, "waiting", "unwinding")
    /\ backend' = [backend EXCEPT ![c] = "closed"]
    /\ UNCHANGED <<server, pools, table, ask, wire, expired, route, upstream, keys, cancel>>

-----------------------------------------------------------------------------
(* forwardCancel, and the deferred calls of serve.                           *)

\* Mutant: the cancel is routed by the current table instead of the entry.
CancelByTableMutant(c) ==
    LET e == entries[key[target[c]]]
        now == table[db[target[c]]]
    IN  /\ Goto(c, "cancelling", IF e = None \/ now = None THEN "unwinding" ELSE "delivering")
        /\ found' = [found EXCEPT ![c] =
                        IF e = None \/ now = None THEN None ELSE [addr |-> now, key |-> e.key]]
        /\ UNCHANGED <<server, pools, table, ask, wire, expired, link, keys, sent>>

CancelLookup(c) ==
    LET e == entries[key[target[c]]] IN
    /\ Goto(c, "cancelling", IF e = None THEN "unwinding" ELSE "delivering")
    /\ found' = [found EXCEPT ![c] = e]
    /\ UNCHANGED <<server, pools, table, ask, wire, expired, link, keys, sent>>

\* forwardCancel dials the entry's address, over a connection of its own.
CancelDials(c) ==
    /\ ~ctxDone
    /\ Goto(c, "delivering", "sending")
    /\ backend' = [backend EXCEPT ![c] = "open"]
    /\ UNCHANGED <<server, pools, table, ask, wire, expired, route, upstream, keys, cancel>>

\* The connection is secured if the entry's policy asks, written to and closed.
DeliverCancel(c) ==
    /\ backend[c] = "open"
    /\ Goto(c, "sending", "unwinding")
    /\ sent' = [sent EXCEPT ![c] = TRUE]
    /\ backend' = [backend EXCEPT ![c] = "closed"]
    /\ UNCHANGED <<server, pools, table, ask, wire, expired, route, upstream, keys, found>>

\* The dial fails, or the TLS upgrade, which also observes the context, or the write; the
\* deferred call closes a connection that was dialled.
DeliveryFails(c) ==
    /\ \/ Goto(c, "delivering", "unwinding")
       \/ Goto(c, "sending", "unwinding")
    /\ ctxDone \/ "failures" \in Events \/ backend[c] = "closed"
    /\ backend' = [backend EXCEPT ![c] = IF @ = "none" THEN @ ELSE "closed"]
    /\ UNCHANGED <<server, pools, table, ask, wire, expired, route, upstream, keys, cancel>>

ReleaseSlot(c) ==
    /\ Goto(c, "unwinding", "closing")
    /\ slots' = IF MaxConnections = 0 THEN slots ELSE slots - 1
    /\ UNCHANGED <<server, sessions, active, table, ask, wire, expired, link, keys, cancel>>

\* Mutant: a refused connection is closed but stays in activeConn.
UntrackForgetsMutant(c) ==
    /\ \E from \in {"refused", "closing"} : Goto(c, from, "closed")
    /\ active' = IF pc[c] = "refused" THEN active ELSE active \ {c}
    /\ sock' = [sock EXCEPT ![c] = FALSE]
    /\ UNCHANGED <<server, sessions, slots, table, ask, peer, expired, link, keys, cancel>>

Untrack(c) ==
    /\ \E from \in {"refused", "closing"} : Goto(c, from, "closed")
    /\ active' = active \ {c}
    /\ sock' = [sock EXCEPT ![c] = FALSE]
    /\ UNCHANGED <<server, sessions, slots, table, ask, peer, expired, link, keys, cancel>>

Done(c) ==
    /\ Goto(c, "closed", "done")
    /\ sessions' = sessions - 1
    /\ UNCHANGED <<server, slots, active, table, ask, wire, expired, link, keys, cancel>>

-----------------------------------------------------------------------------
Environment(c) ==
    \/ Connect(c) \/ HangUp(c) \/ BackendCloses(c) \/ Expire(c)
    \/ Negotiated(c) \/ NegotiationFails(c)
    \/ IssueKey(c) \/ Splice(c) \/ BadMessage(c) \/ ClientWriteFails(c)

\* Steps the serving goroutine takes without waiting for a peer.
Handler(c) ==
    \/ Track(c) \/ AcquireSlot(c) \/ RefuseSlot(c) \/ NegotiationAborts(c)
    \/ Lookup(c) \/ DialOk(c) \/ DialFails(c) \/ Establish(c) \/ ForwardFails(c)
    \/ TellKey(c) \/ BackendEOF(c) \/ CloseClient(c) \/ RelayReturns(c)
    \/ CancelLookup(c) \/ CancelDials(c) \/ DeliverCancel(c) \/ DeliveryFails(c)
    \/ ReleaseSlot(c) \/ Untrack(c) \/ Done(c)

\* The goroutine relay starts.
Upstream(c) == UpstreamReads(c) \/ UpstreamWrites(c) \/ UpstreamEnds(c)

Server ==
    \/ Listen \/ ListenFails \/ CloseListener \/ Backoff \/ GraceExpires \/ StartReturns
    \/ \E e \in {"closed", "timeout", "fdLimit"} : AcceptError(e)
    \/ \E c \in Conns : Accept(c)

Next ==
    \/ Shutdown \/ Publish \/ Server
    \/ \E c \in Conns : Environment(c) \/ Handler(c) \/ Upstream(c)

Spec == Init /\ [][Next]_vars

\* Goroutines that can run do run, timers fire, and a read or write on a closed
\* connection returns.  Nothing is assumed of clients.
Fairness ==
    /\ WF_vars(CloseListener) /\ WF_vars(AcceptError("closed")) /\ WF_vars(Backoff)
    /\ WF_vars(GraceExpires) /\ WF_vars(StartReturns)
    /\ \A c \in Conns :
          /\ WF_vars(Handler(c)) /\ WF_vars(Expire(c))
          /\ WF_vars(pc[c] = "keyed" /\ ClientWriteFails(c))
          /\ WF_vars(UpstreamEnds(c))

\* A backend keeps reading what it is sent as long as the gateway reads what it answers,
\* and closes once it has read the end of its client's stream.
BackendFairness ==
    \A c \in Conns :
        /\ WF_vars(pc[c] \in Relaying /\ UpstreamWrites(c))
        /\ WF_vars(backend[c] = "half" /\ BackendCloses(c))

FairSpec == Spec /\ Fairness

WellBehavedSpec == FairSpec /\ BackendFairness

-----------------------------------------------------------------------------
(* What is checked.                                                          *)

\* Every variable has its type; in particular the slot channel is never
\* over-filled or drained below empty, on which acquireSlot and releaseSlot rely.
TypeOK ==
    /\ srv \in {"new", "serving", "backoff", "draining", "forced", "stopped"}
    /\ ctxDone \in BOOLEAN /\ listener \in {"unbound", "open", "closed"}
    /\ listening \in BOOLEAN /\ acceptErr \in BOOLEAN
    /\ sessions \in Nat
    /\ slots \in 0..MaxConnections
    /\ active \subseteq Conns
    /\ table \in [Databases -> Endpoints \cup {None}]
    /\ pc \in [Conns -> PCs]
    /\ db \in [Conns -> Databases \cup {None}]
    /\ target \in [Conns -> Conns \cup {None}]
    /\ peer \in [Conns -> BOOLEAN] /\ sock \in [Conns -> BOOLEAN]
    /\ expired \in [Conns -> BOOLEAN]
    /\ route \in [Conns -> Endpoints \cup {None}]
    /\ backend \in [Conns -> {"none", "open", "half", "closed"}]
    /\ upstream \in [Conns -> {"none", "reading", "writing", "done"}]
    /\ key \in [Conns -> Keys \cup {None}]
    /\ bkey \in [Conns -> BackendKeys \cup {None}]
    /\ told \in [Conns -> BOOLEAN]
    /\ entries \in [Keys -> Entry \cup {None}]
    /\ found \in [Conns -> Entry \cup {None}]
    /\ sent \in [Conns -> BOOLEAN]

\* No path through serve leaks a slot or gives one back twice: the slots in use
\* are exactly the connections between acquireSlot and releaseSlot.
SlotsExact == MaxConnections > 0 => slots = Cardinality(At(Holding))

\* The WaitGroup and the set of connections drain would close agree with the
\* goroutines that are running, whatever path each takes.
SessionsExact ==
    /\ sessions = Cardinality(At(Running))
    /\ active = At(Tracked)

\* MaxConnections also bounds the load on the backends: a slot outlives the backend
\* connection it admitted, whichever side ends the session, and the one that a cancel
\* request is forwarded over.
BackendLoadBounded ==
    MaxConnections > 0 =>
        Cardinality({c \in Conns : backend[c] \in {"open", "half"}})
            <= MaxConnections

\* The cancel registry holds one entry per relaying session that has a key, under
\* that key, naming that session's backend and backend key, and nothing else.
RegistryExact ==
    /\ \A c \in At(Relaying) : key[c] # None => entries[key[c]] = EntryOf(c)
    /\ \A k \in Keys : entries[k] # None => \E c \in At(Relaying) : key[c] = k
    /\ \A c, d \in At(Relaying) : key[c] # None /\ key[c] = key[d] => c = d

\* A delivered CancelRequest reaches the backend of the session it is meant for,
\* with the key that backend issued to it, whatever happened to the routing table
\* and to either connection in between (unless the random key was drawn again).
CancelReachesItsSession ==
    \A c \in Conns :
        LET s == target[c] IN
        sent[c] /\ (\A d \in Conns \ {s} : key[d] # key[s]) => found[c] = EntryOf(s)

\* After the grace period of a shutdown no session keeps a usable client
\* connection, not even one that drain's sweep of activeConn missed.
ForcedSessionsClosed ==
    srv = "forced" /\ ~acceptErr => \A c \in At(Established) : ~sock[c]

\* relay has closed its client and waits for an upstream copy that is blocked writing to
\* a backend which neither reads nor closes.
Wedged(c) == pc[c] = "waiting" /\ upstream[c] = "writing" /\ backend[c] # "closed"

\* A shutdown completes: once draining, Start returns, whatever clients do and wherever
\* each session stood when drain closed it.  Only a session wedged in relay's wg.Wait for
\* ever holds it up; one that is wedged for a while, or ends late, does not.
DrainTerminates ==
    srv = "draining" /\ ~acceptErr ~>
        (srv = "stopped" \/ [](\E c \in Conns : Wedged(c)))

\* A client that stays silent cannot hold its slot: the handshake deadline ends
\* every negotiation.
HandshakeBounded ==
    \A c \in Conns : pc[c] = "negotiating" ~> pc[c] # "negotiating"
=============================================================================
