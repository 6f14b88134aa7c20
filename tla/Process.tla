------------------------------ MODULE Process ------------------------------
(***************************************************************************)
(* One replica, from its command line to its exit: cmd/pg-k8s-proxy (main.go, *)
(* run.go), the probe server (internal/health/server.go), and the Start      *)
(* methods of the gateway and of the routing table builder as the manager    *)
(* sees them.  The manager itself, its caches and its leader election are    *)
(* controller-runtime's: what is modelled of them is what run.go relies on.  *)
(***************************************************************************)
EXTENDS Config

CONSTANTS
    Inputs,  \* what is explored: [flags, env, explicit, files, sessions]
    Error    \* what buildServerTLS returns for an error

VARIABLES
    input,    \* flags, environment, files on disk, bound on client sessions
    cfg,      \* the resolved configuration
    tls,      \* the gateway's ServerTLS, or None
    proc,     \* "start", "wire", "caches", "running", "stopping", "exited"
    state,    \* of each registered runnable
    errs,     \* the probe server's channel: None, "nil" or "error"
    serving,  \* http.Server.Serve is running
    broken,   \* acceptLoop returned an error
    sessions, \* client sessions in progress
    cut,      \* the gateway's grace period has expired
    built,    \* the store holds a table
    lease,    \* this replica holds the lease
    code,     \* the exit code
    signalled

network == <<errs, serving, broken, sessions, cut>>
vars    == <<input, cfg, tls, proc, state, network, built, lease, code, signalled>>

Init ==
    /\ input \in Inputs
    /\ cfg = None /\ tls = None /\ proc = "start" /\ state = <<>>
    /\ errs = None /\ serving = FALSE /\ broken = FALSE /\ sessions = 0 /\ cut = FALSE
    /\ built = FALSE /\ lease = FALSE /\ code = None /\ signalled = FALSE

Exit(c) == proc' = "exited" /\ code' = c

-----------------------------------------------------------------------------
(* Startup.                                                                  *)

\* RunE: ApplyEnvironment, Validate, run.
Configure ==
    /\ proc = "start"
    /\ cfg' = Validate(ApplyEnvironment(input.flags, input.env, input.explicit))
    /\ IF cfg' = None THEN Exit(1) ELSE proc' = "wire" /\ UNCHANGED code
    /\ UNCHANGED <<input, tls, state, network, built, lease, signalled>>

\* Mutant: a client CA bundle that cannot be loaded is left out.
buildServerTLSMutant(c, files) ==
    CASE c.tls = "disable" -> None
      [] ~files.keypair    -> Error
      [] OTHER -> [required |-> c.tls = "require", clientCerts |-> c.clientCA /\ files.clientCA]

\* files says whether the key pair and the client CA bundle can be loaded.
buildServerTLS(c, files) ==
    CASE c.tls = "disable"             -> None
      [] ~files.keypair                -> Error
      [] c.clientCA /\ ~files.clientCA -> Error
      [] OTHER -> [required |-> c.tls = "require", clientCerts |-> c.clientCA]

\* The runnables run registers.
Registered(c) ==
    {"builder", "probes"}
        \cup (IF RunsManager(c) THEN {"status"} ELSE {})
        \cup (IF RunsManager(c) /\ c.discovery THEN {"discovery"} ELSE {})
        \cup (IF RunsProxy(c) THEN {"gateway"} ELSE {})

Controllers == {"status", "discovery"}

\* run, up to mgr.Start.
Wire ==
    /\ proc = "wire"
    /\ tls' = (IF RunsProxy(cfg) THEN buildServerTLS(cfg, input.files) ELSE None)
    /\ tls' # Error
    /\ state' = [r \in Registered(cfg) |-> "waiting"]
    /\ proc' = "caches"
    /\ UNCHANGED <<input, cfg, network, built, lease, code, signalled>>

\* The key pair cannot be loaded, the API server is unreachable, or the caches do not sync.
StartupFails ==
    /\ proc \in {"wire", "caches"} /\ Exit(1)
    /\ UNCHANGED <<input, cfg, tls, state, network, built, lease, signalled>>

\* The manager starts the runnables that need no lease once its caches are synced.
CachesSync ==
    /\ proc = "caches" /\ proc' = "running"
    /\ state' = [r \in DOMAIN state |-> IF r \in Controllers THEN "waiting" ELSE "starting"]
    /\ UNCHANGED <<input, cfg, tls, network, built, lease, code, signalled>>

-----------------------------------------------------------------------------
(* Runnables.                                                                *)

In(r, from) == r \in DOMAIN state /\ state[r] = from

Set(r, from, to) == In(r, from) /\ state' = [state EXCEPT ![r] = to]

Cancelled == proc = "stopping"

\* A runnable returns.  An error makes the manager cancel the others and stop.
Returns(r, from, err) ==
    /\ proc \in {"running", "stopping"} /\ Set(r, from, "returned")
    /\ proc' = IF err THEN "stopping" ELSE proc
    /\ UNCHANGED <<input, cfg, tls, built, lease, code, signalled>>

Step(r, from, to) ==
    /\ proc \in {"running", "stopping"} /\ Set(r, from, to)
    /\ UNCHANGED <<input, cfg, tls, proc, built, lease, code, signalled>>

\* proxy.Server.Start
Listen == Step("gateway", "starting", "listening") /\ UNCHANGED network

\* Any of the Start methods can fail at once.
StartFails ==
    /\ \E r \in {"gateway", "probes", "builder"} : Returns(r, "starting", TRUE)
    /\ UNCHANGED network

Accept ==
    /\ In("gateway", "listening")
    /\ proc \in {"running", "stopping"} /\ sessions < input.sessions
    /\ sessions' = sessions + 1
    /\ UNCHANGED <<input, cfg, tls, proc, state, errs, serving, broken, cut, built, lease, code, signalled>>

\* A session ends by itself, or because its connection was closed.
SessionEnds ==
    /\ sessions > 0 /\ proc # "exited" /\ sessions' = sessions - 1
    /\ UNCHANGED <<input, cfg, tls, proc, state, errs, serving, broken, cut, built, lease, code, signalled>>

\* acceptLoop returns an error, unless the listener was closed on purpose; then drain.
AcceptFails ==
    /\ Step("gateway", "listening", "draining")
    /\ ~Cancelled /\ broken' = TRUE
    /\ UNCHANGED <<errs, serving, sessions, cut>>

CloseListener == Cancelled /\ Step("gateway", "listening", "draining") /\ UNCHANGED network

GraceExpires ==
    /\ Step("gateway", "draining", "cutting")
    /\ sessions > 0 /\ cut' = TRUE
    /\ UNCHANGED <<errs, serving, broken, sessions>>

GatewayReturns ==
    /\ sessions = 0
    /\ \E from \in {"draining", "cutting"} : Returns("gateway", from, broken)
    /\ UNCHANGED network

\* health.Server.Start: listen, and Serve in a goroutine of its own.
ServeProbes ==
    /\ Step("probes", "starting", "selecting")
    /\ serving' = TRUE
    /\ UNCHANGED <<errs, broken, sessions, cut>>

\* The goroutine: Serve fails, or returns because Shutdown was called.
ServeFails ==
    /\ serving /\ proc \in {"running", "stopping"}
    /\ serving' = FALSE /\ errs' = "error"
    /\ UNCHANGED <<input, cfg, tls, proc, state, broken, sessions, cut, built, lease, code, signalled>>

\* Mutant: a clean shutdown sends nothing.
ServeClosesMutant ==
    /\ serving /\ proc \in {"running", "stopping"} /\ In("probes", "awaiting")
    /\ serving' = FALSE
    /\ UNCHANGED <<input, cfg, tls, proc, state, errs, broken, sessions, cut, built, lease, code, signalled>>

ServeCloses ==
    /\ serving /\ proc \in {"running", "stopping"} /\ In("probes", "awaiting")
    /\ serving' = FALSE /\ errs' = "nil"
    /\ UNCHANGED <<input, cfg, tls, proc, state, broken, sessions, cut, built, lease, code, signalled>>

\* ctx is done: Shutdown, for at most five seconds.
ShutdownProbes == Cancelled /\ Step("probes", "selecting", "awaiting") /\ UNCHANGED network

\* Mutant: only the clean way out reads the channel.
ProbesReturnMutant ==
    /\ errs # None /\ errs' = None
    /\ Returns("probes", "awaiting", errs = "error")
    /\ UNCHANGED <<serving, broken, sessions, cut>>

\* The channel is read in the select and after Shutdown.
ProbesReturn ==
    /\ errs # None /\ errs' = None
    /\ \E from \in {"selecting", "awaiting"} : Returns("probes", from, errs = "error")
    /\ UNCHANGED <<serving, broken, sessions, cut>>

\* Mutant: the builder waits for the lease.
FirstBuildMutant ==
    /\ proc \in {"running", "stopping"} /\ (cfg.leader => lease)
    /\ Set("builder", "starting", "watching") /\ built' = TRUE
    /\ UNCHANGED <<input, cfg, tls, proc, network, lease, code, signalled>>

\* RouteTableBuilder.Start: watch, build once, then follow (module RouteTable).
FirstBuild ==
    /\ proc \in {"running", "stopping"}
    /\ Set("builder", "starting", "watching") /\ built' = TRUE
    /\ UNCHANGED <<input, cfg, tls, proc, network, lease, code, signalled>>

BuilderReturns == Cancelled /\ Returns("builder", "watching", FALSE) /\ UNCHANGED network

-----------------------------------------------------------------------------
(* The manager, and what ends it.                                            *)

AcquireLease ==
    /\ proc = "running" /\ cfg.leader /\ ~lease /\ lease' = TRUE
    /\ UNCHANGED <<input, cfg, tls, proc, state, network, built, code, signalled>>

StartControllers ==
    /\ proc = "running" /\ (cfg.leader => lease)
    /\ \E r \in Controllers : Step(r, "waiting", "running")
    /\ UNCHANGED network

ControllersReturn ==
    /\ Cancelled
    /\ \E r \in Controllers, from \in {"waiting", "running"} : Returns(r, from, FALSE)
    /\ UNCHANGED network

\* Whoever loses the lease stops at once, without waiting for its runnables.
LoseLease ==
    /\ lease /\ proc \in {"running", "stopping"}
    /\ lease' = FALSE /\ Exit(1)
    /\ UNCHANGED <<input, cfg, tls, state, network, built, signalled>>

\* mgr.Start returns the error that stopped it when everything has returned, or after
\* GracefulShutdownTimeout: the gateway's own grace period, where a negative value
\* means no limit.
ManagerReturns ==
    /\ Cancelled
    /\ ~(cfg.shutdownGracePeriod < 0 /\ \E r \in DOMAIN state : state[r] # "returned")
    /\ Exit(1)
    /\ UNCHANGED <<input, cfg, tls, state, network, built, lease, signalled>>

\* main hands run a context that nothing cancels, and no handler is installed: a signal
\* ends the process.
Signal ==
    /\ proc # "exited" /\ Exit(2) /\ signalled' = TRUE
    /\ UNCHANGED <<input, cfg, tls, state, network, built, lease>>

-----------------------------------------------------------------------------
Startup == Configure \/ Wire \/ StartupFails \/ CachesSync

Gateway == Listen \/ CloseListener \/ GraceExpires \/ GatewayReturns

Probes == ServeProbes \/ ServeCloses \/ ShutdownProbes \/ ProbesReturn

Builder == FirstBuild \/ BuilderReturns

Manager == StartControllers \/ ControllersReturn \/ ManagerReturns

Environment ==
    \/ Accept \/ SessionEnds \/ AcceptFails \/ StartFails \/ ServeFails
    \/ AcquireLease \/ LoseLease \/ Signal

Next == Startup \/ Gateway \/ Probes \/ Builder \/ Manager \/ Environment

Spec == Init /\ [][Next]_vars

\* Every goroutine runs and every timer fires.  No session need end, not even one whose
\* client connection drain has closed, and no lease need be won.
Fairness ==
    /\ WF_vars(Gateway) /\ WF_vars(Probes) /\ WF_vars(Builder)
    /\ WF_vars(StartControllers \/ ControllersReturn) /\ WF_vars(ManagerReturns)

FairSpec == Spec /\ Fairness

-----------------------------------------------------------------------------
(* What is checked.                                                          *)

\* A gateway whose operator asked for TLS never listens without it, whatever files are
\* missing, nor without client certificates if those were asked for.
TLSFailsClosed ==
    "gateway" \in DOMAIN state /\ input.flags.tls # "disable" =>
        /\ tls # None
        /\ input.flags.tls = "require" => tls.required
        /\ input.flags.clientCA => tls.clientCerts

\* Whatever the flags and the environment, controllers write only in a role that
\* manages, and only with the lease unless the operator switched election off.
WritersAreElected ==
    \A r \in Controllers \cap DOMAIN state : state[r] = "running" =>
        input.flags.role # "proxy" /\ (input.flags.leader /\ proc # "exited" => lease)

\* What is watched and adopted is what was asked for: an explicit flag beats the
\* environment, a list that names a namespace never widens to the cluster, and
\* discovery never runs with a selector that would adopt every Service.
ScopeAsAsked ==
    state # <<>> =>
        LET named(list) == {list[i] : i \in DOMAIN list} \ {"blank"}
            asked == IF "namespaces" \notin input.explicit /\ input.env.namespaces # None
                     THEN input.env.namespaces ELSE input.flags.namespaces
        IN  /\ ClusterScoped(cfg) = (named(asked) = {})
            /\ named(cfg.namespaces) = named(asked)
            /\ "discovery" \in DOMAIN state =>
                  cfg.selector = "label" /\ ("selector" \in input.explicit => input.flags.selector = "label")

\* drain has closed the sessions' connections and waits for one that does not end.
Wedged == sessions > 0 /\ cut

\* Once the manager stops, the process ends: no runnable waits for another for ever, and
\* one thing alone can hold it up, a session that outlives its connection under a
\* manager told, by a negative grace period, to wait without limit.
StopEnds ==
    proc = "stopping" ~> (proc = "exited" \/ [](Wedged /\ cfg.shutdownGracePeriod < 0))

\* A failure of either listener ends the process and no replica lives on half dead, with
\* one exception: after an accept error nothing has cancelled the context, so only
\* drain's own wait, which has no bound, leads to the manager.
FailureSurfaces ==
    /\ errs = "error" ~> (proc = "exited" \/ [](Wedged /\ cfg.shutdownGracePeriod < 0))
    /\ broken ~> (proc = "exited" \/ []Wedged)

\* The data plane never waits for a leader: a replica whose caches have synced listens
\* and has a table even if no lease is ever won.
RoutesWithoutLeader ==
    proc = "running" /\ RunsProxy(cfg) ~>
        proc \in {"stopping", "exited"} \/ (built /\ ~In("gateway", "starting"))

\* A process told to stop by a signal exits only when its sessions have finished or have
\* had the grace period.
SignalDrains == signalled /\ proc = "exited" => sessions = 0 \/ cut
=============================================================================
