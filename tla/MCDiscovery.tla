---------------------------- MODULE MCDiscovery ----------------------------
(* Small instances of Discovery.                                             *)
EXTENDS Discovery

MCDigits == [s \in {} |-> 0]

Plain ==
    [labelled |-> TRUE, ignore |-> FALSE, database |-> None, priority |-> None,
     port |-> None, ports |-> <<[name |-> "metrics", port |-> 9187], [name |-> "postgresql", port |-> 5433]>>]

\* A Service as it is, annotated out, without its label, with PostgreSQL's port under
\* another name, and with other settings and a sole port.
MCShapes ==
    {Plain, [Plain EXCEPT !.ignore = TRUE], [Plain EXCEPT !.labelled = FALSE],
     [Plain EXCEPT !.ports[2] = [name |-> "tcp", port |-> 5432]],
     [Plain EXCEPT !.database = 7, !.priority = Malformed, !.ports = <<[name |-> "tcp", port |-> 6432]>>]}

Hand(by, owner) ==
    [by |-> by, owner |-> owner,
     gen |-> [database |-> 8, prio |-> 0, port |-> IntPort(1)], other |-> "tls"]

\* A route a user wrote, without labels, under a label of their own, or controlled by
\* another object.
MCHandWritten == {Hand(None, None), Hand("human", None), Hand(None, Foreign)}
=============================================================================
