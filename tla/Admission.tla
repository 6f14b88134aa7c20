----------------------------- MODULE Admission ------------------------------
(***************************************************************************)
(* What the gateway promises its clients and its backends, without channels, *)
(* wait groups or goroutines: who is let in, where a session goes, and when  *)
(* no more sessions begin.  Module Gateway implements it.                    *)
(***************************************************************************)
EXTENDS Naturals, FiniteSets

CONSTANTS Conns, Databases, Endpoints, MaxConnections, None

VARIABLES
    phase,    \* of a connection: "out", "waiting", "admitted", "served", "ending"
    table,    \* where each database is
    endpoint, \* where a connection was routed
    over      \* the grace period of a shutdown has expired

vars == <<phase, table, endpoint, over>>

Inside == {c \in Conns : phase[c] \in {"admitted", "served", "ending"}}

Init ==
    /\ phase = [c \in Conns |-> "out"]
    /\ table \in [Databases -> Endpoints \cup {None}]
    /\ endpoint = [c \in Conns |-> None]
    /\ over = FALSE

Move(c, from, to) == phase[c] = from /\ phase' = [phase EXCEPT ![c] = to]

Arrive(c) == Move(c, "out", "waiting") /\ UNCHANGED <<table, endpoint, over>>

\* A free place is never denied, and none is given beyond the limit.
Admit(c) ==
    /\ MaxConnections = 0 \/ Cardinality(Inside) < MaxConnections
    /\ Move(c, "waiting", "admitted") /\ UNCHANGED <<table, endpoint, over>>

Refuse(c) ==
    /\ MaxConnections > 0 /\ Cardinality(Inside) = MaxConnections
    /\ Move(c, "waiting", "out") /\ UNCHANGED <<table, endpoint, over>>

\* A session goes where the table of one moment says, and stays there.
Route(c) ==
    /\ phase[c] = "admitted" /\ endpoint[c] = None
    /\ \E d \in Databases : table[d] # None /\ endpoint' = [endpoint EXCEPT ![c] = table[d]]
    /\ UNCHANGED <<phase, table, over>>

\* No session begins after the grace period.
Serve(c) ==
    /\ ~over /\ endpoint[c] # None
    /\ Move(c, "admitted", "served") /\ UNCHANGED <<table, endpoint, over>>

Finish(c) ==
    /\ \E from \in {"admitted", "served"} : Move(c, from, "ending")
    /\ UNCHANGED <<table, endpoint, over>>

Leave(c) == Move(c, "ending", "out") /\ UNCHANGED <<table, endpoint, over>>

Publish ==
    /\ \E d \in Databases, e \in Endpoints \cup {None} : table' = [table EXCEPT ![d] = e]
    /\ UNCHANGED <<phase, endpoint, over>>

End == over' = TRUE /\ UNCHANGED <<phase, table, endpoint>>

Next ==
    \/ Publish \/ End
    \/ \E c \in Conns :
          \/ Arrive(c) \/ Admit(c) \/ Refuse(c) \/ Route(c)
          \/ Serve(c) \/ Finish(c) \/ Leave(c)

Spec == Init /\ [][Next]_vars
=============================================================================
