----------------------------- MODULE MCRegistry -----------------------------
(***************************************************************************)
(* Build and resolve over every small input: each initial state is a list   *)
(* of routes and a cluster, and the one step builds the snapshot.           *)
(***************************************************************************)
EXTENDS Registry, FiniteSets

CONSTANT Inputs   \* sets of inputs: [lists, services, secrets], each a set

VARIABLES list, services, secrets, enabled, snap

vars == <<list, services, secrets, enabled, snap>>

Outcome(r) == resolve(r, services, secrets, enabled)

Init ==
    /\ \E in \in Inputs :
          list \in in.lists /\ services \in in.services /\ secrets \in in.secrets
    /\ enabled \in BOOLEAN
    /\ snap = None

Next ==
    /\ snap = None
    /\ snap' = Build(list, services, secrets, enabled)
    /\ UNCHANGED <<list, services, secrets, enabled>>

Spec == Init /\ [][Next]_vars

-----------------------------------------------------------------------------
\* The owner of a name as the documentation ranks the claims: highest priority, then
\* oldest, then lowest namespace, then lowest name.
Owner(d) ==
    LET claims == {r \in ToSet(list) : EffectiveDatabase(r) = d}
        top    == {r \in claims : \A x \in claims : r.prio >= x.prio}
        oldest == {r \in top : \A x \in top : r.created <= x.created}
        nsMin  == {r \in oldest : \A x \in oldest : r.ns <= x.ns}
    IN  CHOOSE r \in nsMin : \A x \in nsMin : r.name <= x.name

\* Build depends on the set of routes alone, not on the order the cache lists them
\* in, so replicas agree: the documented owner of each name gets it and keeps it even
\* when it cannot be resolved, and every other claimant is told who that is.
BuildMatchesRanking ==
    snap # None =>
        \A r \in ToSet(list) :
            LET d == EffectiveDatabase(r)
                decision == snap.decisions[Key(r)]
            IN  IF r = Owner(d)
                THEN /\ decision = Won(d, Outcome(r))
                     /\ snap.table[d] = IF Outcome(r).ok THEN Outcome(r).val ELSE None
                ELSE decision = Lost(d, Key(Owner(d)))

\* The ports of a Service that a reference may mean: the number, given as such or as a
\* string; any other string, made of digits or not, is a port's name.
Asked(ports, ref) ==
    IF ref.type = "Int" THEN {ref.int}
    ELSE IF ref.str \in DOMAIN Digits /\ Digits[ref.str] > 0 /\ Digits[ref.str] < 65536
    THEN {Digits[ref.str]}
    ELSE {p.port : p \in {x \in ports : x.name = ref.str}}

\* A route is served only as it asks to be: at the port it names, which its Service
\* exposes; in the TLS mode it asks for, whichever that is; and verifying, when it
\* names a CA bundle to verify with, against that bundle and nothing else.
ServedAsAsked ==
    snap # None =>
        \A r \in ToSet(list) : Programmed(snap.decisions[Key(r)]) =>
            LET served == snap.table[EffectiveDatabase(r)]
                port   == served.address.port
                ports  == services[served.address.host]
                mode   == IF r.tls = None \/ r.tls.mode = None THEN "Disable" ELSE r.tls.mode
                named  == mode \in {"VerifyCA", "VerifyFull"} /\ r.tls.ca # None
            IN  /\ served.source = Key(r)
                /\ r.backend.type = "Service" =>
                      port \in Asked(ports, r.backend.ref.port) \cap {p.port : p \in ports}
                /\ r.backend.type = "Address" =>
                      port = IF r.backend.ref.port = 0 THEN 5432 ELSE r.backend.ref.port
                /\ served.tls.mode = mode
                /\ served.tls.roots =
                      IF ~named THEN None
                      ELSE << <<r.ns, r.tls.ca.name>>,
                              IF r.tls.ca.key = None THEN "ca.crt" ELSE r.tls.ca.key >>
                /\ named => secrets[served.tls.roots[1]][served.tls.roots[2]]

-----------------------------------------------------------------------------
(* Instances.                                                                *)

\* The last one is 5432 again in 16 bits.
MCDigits == [s \in {"5432", "0", "65536", "70968"} |->
                CASE s = "5432" -> 5432 [] s = "0" -> 0 [] s = "65536" -> 65536
                  [] s = "70968" -> 70968]

ServiceRef(svc, type, int, str) ==
    [type |-> "Service",
     ref  |-> [ns |-> None, name |-> svc, port |-> [type |-> type, int |-> int, str |-> str]]]

\* Three objects in two namespaces that may claim each other's names, at two
\* priorities and ages, with a backend that resolves or does not.
Rivals ==
    {[ns |-> k[1], name |-> k[2], prio |-> p, created |-> t, database |-> d,
      backend |-> ServiceRef(s, "Int", 5432, ""), tls |-> None] :
        k \in {<<1, 1>>, <<1, 2>>, <<2, 1>>}, p \in {0, 1}, t \in {0, 1}, d \in {None, 1},
        s \in {"up", "gone"}}

\* Every list of up to three of them, in every order.
RivalLists ==
    {l \in UNION {[1..n -> Rivals] : n \in 1..3} :
        \A i, j \in DOMAIN l : Key(l[i]) = Key(l[j]) => i = j}

RivalServices ==
    {[k \in {1, 2} \X {"up", "gone"} |->
        IF k[2] = "up" THEN {[name |-> "pg", port |-> 5432]} ELSE Missing]}

NoSecrets == {[k \in {} |-> Missing]}

Backends ==
    {ServiceRef(s, "Int", n, "") : s \in {"db", "gone", "denied"}, n \in {5432, 6000}}
        \cup {ServiceRef("db", "String", 0, v) : v \in {"5432", "pg", "none", "0", "65536", "70968"}}
        \cup {[type |-> "Service", ref |-> None],
              [type |-> "Address", ref |-> None], [type |-> "Other", ref |-> None]}
        \cup {[type |-> "Address", ref |-> [host |-> "h", port |-> n]] : n \in {0, 6000}}

Policies ==
    {None} \cup {[mode |-> m, ca |-> c] :
        m \in {None, "Disable", "Require", "VerifyCA", "VerifyFull"},
        c \in {None, [name |-> "ca", key |-> None], [name |-> "ca", key |-> "other"]}}

\* One route with every kind of backend reference and TLS policy.
Singles ==
    {[ns |-> 1, name |-> 1, prio |-> 0, created |-> 0, database |-> None,
      backend |-> b, tls |-> t] : b \in Backends, t \in Policies}

\* A port may have digits for a name, those of another port or of none.
SingleServices ==
    {[k \in {1} \X {"db", "gone", "denied"} |->
        CASE k[2] = "db"     -> {[name |-> n, port |-> p], [name |-> "http", port |-> 80]}
          [] k[2] = "gone"   -> Missing
          [] k[2] = "denied" -> Unreadable] :
        n \in {"pg", "5432", "0", "65536", "70968"}, p \in {5432, 6000}}

SingleSecrets ==
    {[k \in {<<1, "ca">>} |-> s] :
        s \in {Missing, Unreadable, [e \in {"ca.crt"} |-> TRUE],
               [e \in {"ca.crt", "other"} |-> e = "other"]}}

MCInputs ==
    {[lists |-> RivalLists, services |-> RivalServices, secrets |-> NoSecrets],
     [lists |-> {<<r>> : r \in Singles}, services |-> SingleServices, secrets |-> SingleSecrets]}
=============================================================================
