--------------------------- MODULE RegistryProofs ---------------------------
(***************************************************************************)
(* The order in which Build considers routes, for every set of routes.      *)
(***************************************************************************)
EXTENDS Registry, TLAPS

\* What less reads of a route.
Ranked(r) == r.prio \in Int /\ r.created \in Int /\ r.ns \in Int /\ r.name \in Int

\* less never ranks a route before itself, nor two routes before each other.
LEMMA LessAsymmetric ==
    ASSUME NEW a, NEW b, Ranked(a), Ranked(b), less(a, b)
    PROVE  ~less(b, a)
  BY DEF less, Ranked

\* less is transitive, so sorting by it is well defined.
LEMMA LessTransitive ==
    ASSUME NEW a, NEW b, NEW c, Ranked(a), Ranked(b), Ranked(c), less(a, b), less(b, c)
    PROVE  less(a, c)
  BY DEF less, Ranked

\* Two routes with different keys are always ranked.
LEMMA LessTotal ==
    ASSUME NEW a, NEW b, Ranked(a), Ranked(b), Key(a) # Key(b)
    PROVE  less(a, b) \/ less(b, a)
  <1>1. a.ns # b.ns \/ a.name # b.name
    BY DEF Key
  <1> QED
    BY <1>1 DEF less, Ranked

\* "The ordering is total, which is what makes the winner of a name conflict identical
\* across replicas" (less): on any set of routes with distinct keys it is a strict total
\* order, so the list the cache returns them in decides nothing.
THEOREM LessIsStrictTotalOrder ==
    ASSUME NEW Routes,
           \A r \in Routes : Ranked(r),
           \A r, s \in Routes : Key(r) = Key(s) => r = s
    PROVE  /\ \A r \in Routes : ~less(r, r)
           /\ \A r, s, t \in Routes : less(r, s) /\ less(s, t) => less(r, t)
           /\ \A r, s \in Routes : r = s \/ less(r, s) \/ less(s, r)
  <1>1. \A r \in Routes : ~less(r, r)
    BY LessAsymmetric
  <1>2. \A r, s, t \in Routes : less(r, s) /\ less(s, t) => less(r, t)
    BY LessTransitive
  <1>3. \A r, s \in Routes : r = s \/ less(r, s) \/ less(s, r)
    BY LessTotal
  <1> QED
    BY <1>1, <1>2, <1>3
=============================================================================
