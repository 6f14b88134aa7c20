------------------------------ MODULE Registry ------------------------------
(***************************************************************************)
(* Package internal/registry: how a list of PostgresRoutes becomes a        *)
(* routing table and one decision per route.                                *)
(*                                                                          *)
(* A route is a record [ns, name, prio, created, database, backend, tls].   *)
(* Namespaces and names are numbers, whose order stands for the order of    *)
(* strings; a database name is a number too, because it defaults to the     *)
(* object's name.  services and secrets are what the cache holds: functions *)
(* from <<ns, name>> to an object, Missing, or Unreadable when the read     *)
(* itself fails.  An error is the set of sentinel errors it wraps.          *)
(***************************************************************************)
EXTENDS Integers, Sequences, SequencesExt

CONSTANTS
    Databases,  \* database names
    Digits,     \* the value of each all-digit port string; other strings have none
    Missing,    \* an object that does not exist
    Unreadable, \* an object whose read fails
    None        \* "no value": a nil pointer, an empty string, an absent map entry

Key(r) == <<r.ns, r.name>>

EffectiveDatabase(r) == IF r.database = None THEN r.name ELSE r.database

Ok(v)  == [ok |-> TRUE, val |-> v]
Err(E) == [ok |-> FALSE, err |-> E]

-----------------------------------------------------------------------------
(* Resolution of one route.                                                  *)

\* A plain port number fits 16 bits and is not zero.
parsePortNumber(s) ==
    IF s \in DOMAIN Digits /\ Digits[s] \in 1..(2^16 - 1) THEN Digits[s] ELSE None

\* ports is a set of [name, port]; port is [type, int, str], as intstr.IntOrString.
PortOf(ports, port) ==
    LET numeric == parsePortNumber(port.str)
        named   == {p \in ports : p.name = port.str}
    IN  CASE port.type = "Int" ->
               IF \E p \in ports : p.port = port.int THEN Ok(port.int) ELSE Err({})
          [] port.type = "String" /\ numeric # None ->
               IF \E p \in ports : p.port = numeric THEN Ok(numeric) ELSE Err({"ErrPortNotFound"})
          [] port.type = "String" /\ numeric = None ->
               IF named # {} THEN Ok((CHOOSE p \in named : TRUE).port) ELSE Err({"ErrPortNotFound"})
          [] OTHER -> Err({"ErrInvalidBackend"})

ResolveServicePort(services, key, port) ==
    CASE services[key] = Missing    -> Err({"ErrBackendNotFound"})
      [] services[key] = Unreadable -> Err({})
      [] OTHER                      -> PortOf(services[key], port)

\* A Secret maps each of its keys to TRUE when the value holds a certificate.
LoadCABundle(secrets, enabled, key, entry) ==
    IF enabled /\ secrets[key] = Missing THEN Err({"NotFound"})
    ELSE IF /\ enabled /\ secrets[key] # Unreadable
            /\ entry \in DOMAIN secrets[key] /\ secrets[key][entry]
    THEN Ok(<<key, entry>>)
    ELSE Err({})

\* Mutant: a CA bundle that cannot be loaded falls back to the system roots.
resolveTLSMutant(r, secrets, enabled) ==
    IF r.tls = None \/ r.tls.mode \in {None, "Disable"} THEN Ok([mode |-> "Disable", roots |-> None])
    ELSE IF r.tls.mode \notin {"VerifyCA", "VerifyFull"} \/ r.tls.ca = None
    THEN Ok([mode |-> r.tls.mode, roots |-> None])
    ELSE LET entry == IF r.tls.ca.key = None THEN "ca.crt" ELSE r.tls.ca.key
             pool  == LoadCABundle(secrets, enabled, <<r.ns, r.tls.ca.name>>, entry)
         IN  Ok([mode |-> r.tls.mode, roots |-> IF pool.ok THEN pool.val ELSE None])

\* tls is None or [mode, ca], ca being None or the [name, key] of a Secret.
resolveTLS(r, secrets, enabled) ==
    IF r.tls = None \/ r.tls.mode \in {None, "Disable"} THEN Ok([mode |-> "Disable", roots |-> None])
    ELSE IF r.tls.mode \notin {"VerifyCA", "VerifyFull"} \/ r.tls.ca = None
    THEN Ok([mode |-> r.tls.mode, roots |-> None])
    ELSE LET entry == IF r.tls.ca.key = None THEN "ca.crt" ELSE r.tls.ca.key
             pool  == LoadCABundle(secrets, enabled, <<r.ns, r.tls.ca.name>>, entry)
         IN  IF pool.ok THEN Ok([mode |-> r.tls.mode, roots |-> pool.val])
             ELSE Err({"ErrCABundle"} \cup pool.err)

\* backend is [type, ref]; ref is None, a Service [ns, name, port] or an address
\* [host, port].
resolveAddress(r, services) ==
    LET b == r.backend.ref IN
    CASE r.backend.type \in {"Service", "Address"} /\ b = None -> Err({"ErrInvalidBackend"})
      [] r.backend.type = "Service" /\ b # None ->
           LET key  == <<IF b.ns = None THEN r.ns ELSE b.ns, b.name>>
               port == ResolveServicePort(services, key, b.port)
           IN  IF port.ok THEN Ok([host |-> key, port |-> port.val]) ELSE port
      [] r.backend.type = "Address" /\ b # None ->
           Ok([host |-> b.host, port |-> IF b.port = 0 THEN 5432 ELSE b.port])
      [] OTHER -> Err({"ErrInvalidBackend"})

resolve(r, services, secrets, enabled) ==
    LET address == resolveAddress(r, services)
        tls     == resolveTLS(r, secrets, enabled)
    IN  IF ~address.ok THEN address
        ELSE IF ~tls.ok THEN tls
        ELSE Ok([source |-> Key(r), address |-> address.val, tls |-> tls.val])

-----------------------------------------------------------------------------
(* Build.                                                                    *)

\* Mutant: the tie on creation time is not broken by namespace and name.
lessMutant(a, b) ==
    IF a.prio # b.prio THEN a.prio > b.prio ELSE a.created < b.created

less(a, b) ==
    IF a.prio # b.prio THEN a.prio > b.prio
    ELSE IF a.created # b.created THEN a.created < b.created
    ELSE IF a.ns # b.ns THEN a.ns < b.ns
    ELSE a.name < b.name

EmptySnapshot(keys) ==
    [winners   |-> [d \in Databases |-> None],
     table     |-> [d \in Databases |-> None],
     decisions |-> [k \in keys |-> None]]

\* Mutant: the loser is not told whom it lost to.
LostMutant(d, winner) ==
    [database |-> d, accepted |-> FALSE, conflictsWith |-> None, endpoint |-> None, err |-> None]

\* Decision; endpoint and err are None where the code leaves them empty.
Lost(d, winner) ==
    [database |-> d, accepted |-> FALSE, conflictsWith |-> winner, endpoint |-> None, err |-> None]

Won(d, outcome) ==
    [database |-> d, accepted |-> TRUE, conflictsWith |-> None,
     endpoint |-> IF outcome.ok THEN outcome.val.address ELSE None,
     err      |-> IF outcome.ok THEN None ELSE outcome.err]

Programmed(decision) == decision.accepted /\ decision.err = None

\* Mutant: a route that fails to resolve gives its name up.
DecideMutant(snap, r, outcome) ==
    LET d == EffectiveDatabase(r) IN
    IF snap.winners[d] # None
    THEN [snap EXCEPT !.decisions[Key(r)] = Lost(d, snap.winners[d])]
    ELSE [snap EXCEPT !.winners[d] = IF outcome.ok THEN Key(r) ELSE None,
                      !.decisions[Key(r)] = Won(d, outcome),
                      !.table[d] = IF outcome.ok THEN outcome.val ELSE None]

\* One iteration of Build's loop: the first route to claim a name keeps it,
\* whether or not it resolves.
Decide(snap, r, outcome) ==
    LET d == EffectiveDatabase(r) IN
    IF snap.winners[d] # None
    THEN [snap EXCEPT !.decisions[Key(r)] = Lost(d, snap.winners[d])]
    ELSE [snap EXCEPT !.winners[d] = Key(r),
                      !.decisions[Key(r)] = Won(d, outcome),
                      !.table[d] = IF outcome.ok THEN outcome.val ELSE None]

Keys(routes) == {Key(r) : r \in routes}

Build(list, services, secrets, enabled) ==
    LET Step(snap, r) == Decide(snap, r, resolve(r, services, secrets, enabled))
    IN  FoldLeft(Step, EmptySnapshot(Keys(ToSet(list))), SortSeq(list, less))

-----------------------------------------------------------------------------
(* What the status reports of a resolution error (internal/controller).      *)

resolveFailureReason(E) ==
    IF E \cap {"ErrBackendNotFound", "NotFound"} # {} THEN "BackendNotFound"
    ELSE IF "ErrPortNotFound" \in E THEN "PortNotFound"
    ELSE IF "ErrCABundle" \in E THEN "CABundleUnavailable"
    ELSE "InvalidBackend"

=============================================================================
