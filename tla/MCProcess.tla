----------------------------- MODULE MCProcess -----------------------------
(* Small instances of Process.                                               *)
EXTENDS Process

Default ==
    [role |-> "all", tls |-> "disable", keypair |-> FALSE, clientCA |-> FALSE,
     discovery |-> TRUE, selector |-> "label", leader |-> TRUE, namespaces |-> <<>>,
     maxConnections |-> 0, shutdownGracePeriod |-> 1, wellFormed |-> TRUE]

Input(flags, env, explicit, files, n) ==
    [flags |-> flags, env |-> env, explicit |-> explicit, files |-> files, sessions |-> n]

NoEnv == [selector |-> None, namespaces |-> None]
Files == [keypair |-> TRUE, clientCA |-> TRUE]

\* Every role, with and without election, and every kind of grace period.
Lives ==
    {Input([Default EXCEPT !.role = r, !.leader = l, !.shutdownGracePeriod = g], NoEnv, {}, Files, 2) :
        r \in {"all", "manager", "proxy", "other"}, l \in BOOLEAN, g \in {-1, 0, 1}}

\* Every TLS setting over every state of the files.
TLSSettings ==
    {Input([Default EXCEPT !.role = "proxy", !.tls = t, !.keypair = k, !.clientCA = c], NoEnv, {},
           [keypair |-> fk, clientCA |-> fc], 0) :
        t \in {"disable", "allow", "require", "other"}, k, c, fk, fc \in BOOLEAN}

Lists     == {<<>>, <<"blank">>, <<"a">>, <<"blank", "b">>}
Selectors == {"label", "empty", "malformed"}

\* Flags against environment, for what is watched and what is adopted.
Scopes ==
    {Input([Default EXCEPT !.role = "manager", !.namespaces = n, !.selector = s], [selector |-> es, namespaces |-> en],
           x, Files, 0) :
        n \in Lists, s \in {"label", "empty"}, es \in {None} \cup Selectors,
        en \in {None} \cup (Lists \ {<<>>}), x \in SUBSET {"selector", "namespaces"}}

Rejects == {Input([Default EXCEPT !.maxConnections = m, !.wellFormed = w], NoEnv, {}, Files, 0) :
            m \in {-1, 1}, w \in BOOLEAN}

MCInputs == Lives \cup TLSSettings \cup Scopes \cup Rejects
=============================================================================
