------------------------------- MODULE Config -------------------------------
(***************************************************************************)
(* Package internal/config: from flags and the environment to the            *)
(* configuration the process runs with.  Only the settings that decide what  *)
(* runs, where and how it stops are kept.                                    *)
(***************************************************************************)
EXTENDS Integers, Sequences, SequencesExt

CONSTANT None  \* "no value": unset, or an error

\* A configuration, as the flags give it:
\*   role        "all", "manager", "proxy" or anything else
\*   tls         "disable", "allow", "require" or anything else
\*   keypair     both TLS files are named
\*   clientCA    a client CA file is named
\*   discovery   service discovery is on
\*   selector    the label selector: "label", "empty" or "malformed"
\*   leader      leader election is on
\*   namespaces  the list of namespaces to watch; "blank" is white space or nothing
\*   maxConnections, shutdownGracePeriod: integers
\*   wellFormed  cluster domain, log level and log format are acceptable

RunsProxy(c)     == c.role \in {"all", "proxy"}
RunsManager(c)   == c.role \in {"all", "manager"}
ClusterScoped(c) == c.namespaces = <<>>

\* Mutant: the environment overrides an explicit flag.
ApplyEnvironmentMutant(c, env, explicitlySet) ==
    [c EXCEPT !.selector   = IF env.selector # None THEN env.selector ELSE @,
              !.namespaces = IF env.namespaces # None THEN env.namespaces ELSE @]

\* LABEL_SELECTOR and KUBERNETES_NAMESPACE, unset or empty (None), or a value, replace
\* what no flag has set.  Ports only rename addresses.
ApplyEnvironment(c, env, explicitlySet) ==
    [c EXCEPT !.selector   = IF env.selector # None /\ "selector" \notin explicitlySet
                             THEN env.selector ELSE @,
              !.namespaces = IF env.namespaces # None /\ "namespaces" \notin explicitlySet
                             THEN env.namespaces ELSE @]

Rejected(c) ==
    \/ c.role \notin {"all", "manager", "proxy"}
    \/ c.tls \notin {"disable", "allow", "require"}
    \/ c.tls # "disable" /\ ~c.keypair
    \/ c.maxConnections < 0
    \/ ~c.wellFormed
    \/ c.discovery /\ RunsManager(c) /\ c.selector # "label"

\* Mutant: leader election is switched off for the wrong half.
ResolveMutant(c) ==
    [c EXCEPT !.discovery  = @ /\ RunsManager(c),
              !.leader     = @ /\ RunsProxy(c),
              !.namespaces = SelectSeq(@, LAMBDA ns : ns # "blank")]

\* A replica that only proxies writes nothing, so it needs neither discovery nor a lease.
Resolve(c) ==
    [c EXCEPT !.discovery  = @ /\ RunsManager(c),
              !.leader     = @ /\ RunsManager(c),
              !.namespaces = SelectSeq(@, LAMBDA ns : ns # "blank")]

Validate(c) == IF Rejected(c) THEN None ELSE Resolve(c)
=============================================================================
