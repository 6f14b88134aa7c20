-------------------------- MODULE GatewayAdmission --------------------------
(***************************************************************************)
(* Gateway implements Admission.                                             *)
(***************************************************************************)
EXTENDS Gateway

\* Where a connection stands is where its goroutine stands: it is let in when
\* acquireSlot returns and out when releaseSlot has.
PhaseOf(p) ==
    CASE p \in {"spawned", "tracked"}                          -> "waiting"
      [] p \in Handshaking \cup {"cancelling", "delivering", "sending"} -> "admitted"
      [] p \in Established                                     -> "served"
      [] p = "unwinding"                                       -> "ending"
      [] OTHER                                                 -> "out"

Phase == [c \in Conns |-> PhaseOf(pc[c])]

\* drain has closed every tracked connection, or there is none.
GraceIsOver == srv \in {"forced", "stopped"} /\ ~acceptErr

Service ==
    INSTANCE Admission WITH
        phase    <- Phase,
        endpoint <- route,
        over     <- GraceIsOver

\* The gateway with its channel of slots, its wait group and its goroutines lets clients
\* in, routes and serves them as Admission says: no interleaving of releases, early
\* returns and new arrivals admits one client too many or refuses one for whom there is
\* room, a routing decision is never revised, and no session begins once the grace
\* period of a shutdown is over.
ImplementsAdmission == Service!Spec
=============================================================================
