-------------------------- MODULE AdmissionProofs ---------------------------
(***************************************************************************)
(* Gateway implements Admission, for any number of connections and any limit. *)
(***************************************************************************)
EXTENDS GatewaySessionProofs, GatewayAdmission

\* A connection has no route before its lookup, and no goroutine runs before Start has
\* listened or after it has returned.
Fresh ==
    /\ \A c \in Conns :
          pc[c] \in {"none", "backlog", "spawned", "tracked", "negotiating", "lookup"} =>
              route[c] = None
    /\ srv \in {"new", "stopped"} => sessions = 0

\* A step of Admission, or none.
Allowed == Service!Next \/ UNCHANGED Service!vars

-----------------------------------------------------------------------------
(* The phases.                                                               *)

\* A connection is inside exactly between acquireSlot and releaseSlot.
LEMMA InsideHolding ==
    ASSUME TypeOK
    PROVE  Service!Inside = At(Holding)
<1>1. \A p \in PCs : PhaseOf(p) \in {"admitted", "served", "ending"} <=> p \in Holding
  BY DEF PCs, PhaseOf, Holding, Handshaking, Established, Relaying
<1> QED
  BY <1>1 DEF Service!Inside, Phase, At, TypeOK

\* Admission counts as the gateway does.
LEMMA SameCardinality == ASSUME NEW S PROVE Service!Cardinality(S) = Cardinality(S)
  BY Zenon DEF Service!Cardinality, Cardinality

\* A move of one connection moves its phase.
LEMMA PhaseMove ==
    ASSUME TypeOK, NEW c \in Conns, NEW from, NEW to, Goto(c, from, to)
    PROVE  Phase[c] = PhaseOf(from) /\ Phase' = [Phase EXCEPT ![c] = PhaseOf(to)]
  BY DEF Phase, Goto, TypeOK

\* A move within a phase that leaves table, routes and server alone is no step at all.
LEMMA Within ==
    ASSUME TypeOK, NEW c \in Conns, NEW from, NEW to, Goto(c, from, to),
           PhaseOf(from) = PhaseOf(to), UNCHANGED <<srv, acceptErr, table, route>>
    PROVE  UNCHANGED Service!vars
<1>1. Phase' = Phase
  BY PhaseMove DEF Phase
<1> QED
  BY <1>1 DEF Service!vars, GraceIsOver

\* So is a step that moves no connection.
LEMMA Still ==
    ASSUME UNCHANGED <<pc, table, route>>, GraceIsOver' = GraceIsOver
    PROVE  UNCHANGED Service!vars
  BY DEF Service!vars, Phase

\* A move from one phase to the next that leaves the rest alone is Admission's move.
LEMMA Across ==
    ASSUME TypeOK, NEW c \in Conns, NEW from, NEW to, Goto(c, from, to),
           UNCHANGED <<srv, acceptErr, table, route>>
    PROVE  /\ Service!Move(c, PhaseOf(from), PhaseOf(to))
           /\ UNCHANGED <<table, route, GraceIsOver>>
  BY PhaseMove DEF Service!Move, GraceIsOver

\* The session is over.
LEMMA Finishes ==
    ASSUME TypeOK, NEW c \in Conns, NEW from, Goto(c, from, "unwinding"),
           PhaseOf(from) \in {"admitted", "served"}, UNCHANGED <<srv, acceptErr, table, route>>
    PROVE  Allowed
<1>1. PhaseOf("unwinding") = "ending"
  BY DEF PhaseOf, Handshaking, Established, Relaying
<1>2. Service!Finish(c)
  BY <1>1, Across DEF Service!Finish
<1> QED
  BY <1>2 DEF Allowed, Service!Next
-----------------------------------------------------------------------------
(* Fresh, and the steps of Admission.                                        *)

\* Every step keeps Fresh.
LEMMA FreshStep ==
    ASSUME Accounting, Fresh, Next
    PROVE  Fresh'
<1>1. CASE Shutdown
  BY <1>1 DEF Shutdown, Fresh, Accounting, TypeOK, pools, link
<1>2. CASE Publish
  BY <1>2 DEF Publish, Fresh, Accounting, TypeOK, server, pools, link
<1>3. CASE Listen
  BY <1>3 DEF Listen, Fresh, Accounting, TypeOK, pools, link
<1>4. CASE ListenFails
  BY <1>4 DEF ListenFails, Fresh, Accounting, TypeOK, pools, link
<1>5. CASE CloseListener
  BY <1>5 DEF CloseListener, Fresh, Accounting, TypeOK, pools, link
<1>6. CASE Backoff
  BY <1>6 DEF Backoff, Fresh, Accounting, TypeOK, pools, link
<1>7. CASE GraceExpires
  BY <1>7 DEF GraceExpires, Fresh, Accounting, TypeOK, pools, link
<1>8. CASE StartReturns
  BY <1>8 DEF StartReturns, Fresh, Accounting, TypeOK, pools, link
<1>9. ASSUME NEW e \in {"closed", "timeout", "fdLimit"}, AcceptError(e) PROVE Fresh'
  BY <1>9 DEF AcceptError, Fresh, Accounting, TypeOK, pools, link
<1>10. ASSUME NEW c \in Conns, Connect(c) PROVE Fresh'
  BY <1>10 DEF Connect, Goto, Fresh, Accounting, TypeOK, server, pools, link
<1>11. ASSUME NEW c \in Conns, HangUp(c) PROVE Fresh'
  BY <1>11 DEF HangUp, Fresh, Accounting, TypeOK, server, pools, link
<1>12. ASSUME NEW c \in Conns, BackendCloses(c) PROVE Fresh'
  BY <1>12 DEF BackendCloses, Fresh, Accounting, TypeOK, server, pools
<1>13. ASSUME NEW c \in Conns, Expire(c) PROVE Fresh'
  BY <1>13 DEF Expire, Fresh, Accounting, TypeOK, server, pools, link
<1>14. ASSUME NEW c \in Conns, Accept(c) PROVE Fresh'
  BY <1>14 DEF Accept, Goto, Fresh, Accounting, TypeOK, server, link
<1>15. ASSUME NEW c \in Conns, Track(c) PROVE Fresh'
  BY <1>15 DEF Track, Goto, Fresh, Accounting, TypeOK, server, link
<1>16. ASSUME NEW c \in Conns, AcquireSlot(c) PROVE Fresh'
  BY <1>16 DEF AcquireSlot, Goto, Fresh, Accounting, TypeOK, server, link
<1>17. ASSUME NEW c \in Conns, RefuseSlot(c) PROVE Fresh'
  BY <1>17 DEF RefuseSlot, Goto, Fresh, Accounting, TypeOK, server, pools, link
<1>18. ASSUME NEW c \in Conns, Negotiated(c) PROVE Fresh'
  BY <1>18 DEF Negotiated, Goto, Fresh, Accounting, TypeOK, server, pools, link
<1>19. ASSUME NEW c \in Conns, NegotiationAborts(c) PROVE Fresh'
  BY <1>19 DEF NegotiationAborts, Goto, Fresh, Accounting, TypeOK, server, pools, link
<1>20. ASSUME NEW c \in Conns, NegotiationFails(c) PROVE Fresh'
  BY <1>20 DEF NegotiationFails, Goto, Fresh, Accounting, TypeOK, server, pools, link
<1>21. ASSUME NEW c \in Conns, Lookup(c) PROVE Fresh'
  BY <1>21 DEF Lookup, Goto, Fresh, Accounting, TypeOK, server, pools
<1>22. ASSUME NEW c \in Conns, DialOk(c) PROVE Fresh'
  BY <1>22 DEF DialOk, Goto, Fresh, Accounting, TypeOK, server, pools
<1>23. ASSUME NEW c \in Conns, DialFails(c) PROVE Fresh'
  BY <1>23 DEF DialFails, Goto, Fresh, Accounting, TypeOK, server, pools, link
<1>24. ASSUME NEW c \in Conns, Establish(c) PROVE Fresh'
  BY <1>24 DEF Establish, Goto, Fresh, Accounting, TypeOK, server, pools
<1>25. ASSUME NEW c \in Conns, ForwardFails(c) PROVE Fresh'
  BY <1>25 DEF ForwardFails, Goto, Fresh, Accounting, TypeOK, server, pools
<1>26. ASSUME NEW c \in Conns, IssueKey(c) PROVE Fresh'
  BY <1>26 DEF IssueKey, Goto, Fresh, Accounting, TypeOK, server, pools, link
<1>27. ASSUME NEW c \in Conns, TellKey(c) PROVE Fresh'
  BY <1>27 DEF TellKey, Goto, Fresh, Accounting, TypeOK, server, pools, link
<1>28. ASSUME NEW c \in Conns, Splice(c) PROVE Fresh'
  BY <1>28 DEF Splice, Goto, Fresh, Accounting, TypeOK, server, pools, link
<1>29. ASSUME NEW c \in Conns, BackendEOF(c) PROVE Fresh'
  BY <1>29 DEF BackendEOF, EndRelay, Goto, Fresh, Accounting, TypeOK, server, pools,
               link
<1>30. ASSUME NEW c \in Conns, BadMessage(c) PROVE Fresh'
  BY <1>30 DEF BadMessage, EndRelay, Goto, Fresh, Accounting, TypeOK, server, pools,
               link
<1>31. ASSUME NEW c \in Conns, ClientWriteFails(c) PROVE Fresh'
  BY <1>31 DEF ClientWriteFails, EndRelay, Goto, Fresh, Accounting, TypeOK, server,
               pools, link
<1>32. ASSUME NEW c \in Conns, CloseClient(c) PROVE Fresh'
  BY <1>32 DEF CloseClient, Goto, Fresh, Accounting, TypeOK, server, pools, link
<1>33. ASSUME NEW c \in Conns, UpstreamEnds(c) PROVE Fresh'
  BY <1>33 DEF UpstreamEnds, Fresh, Accounting, TypeOK, server, pools
<1>34. ASSUME NEW c \in Conns, RelayReturns(c) PROVE Fresh'
  BY <1>34 DEF RelayReturns, Goto, Fresh, Accounting, TypeOK, server, pools
<1>35. ASSUME NEW c \in Conns, CancelLookup(c) PROVE Fresh'
  BY <1>35 DEF CancelLookup, Goto, Fresh, Accounting, TypeOK, server, pools, link
<1>36. ASSUME NEW c \in Conns, DeliverCancel(c) PROVE Fresh'
  BY <1>36 DEF DeliverCancel, Goto, Fresh, Accounting, TypeOK, server, pools
<1>37. ASSUME NEW c \in Conns, DeliveryFails(c) PROVE Fresh'
  BY <1>37 DEF DeliveryFails, Goto, Fresh, Accounting, TypeOK, server, pools
<1>38. ASSUME NEW c \in Conns, ReleaseSlot(c) PROVE Fresh'
  BY <1>38 DEF ReleaseSlot, Goto, Fresh, Accounting, TypeOK, server, link
<1>39. ASSUME NEW c \in Conns, Untrack(c) PROVE Fresh'
  BY <1>39 DEF Untrack, Goto, Fresh, Accounting, TypeOK, server, link
<1>40. ASSUME NEW c \in Conns, Done(c) PROVE Fresh'
  <2>1. c \in At(Running)
    BY <1>40 DEF Done, Goto, At, Running
  <2>2. sessions # 0
    BY <2>1, AtFinite, FS_EmptySet DEF Accounting, SessionsExact
  <2> QED
    BY <2>2, <1>40 DEF Done, Goto, Fresh, Accounting, TypeOK, server, link
<1>41. ASSUME NEW c \in Conns, UpstreamReads(c) PROVE Fresh'
  BY <1>41 DEF UpstreamReads, Fresh, Accounting, TypeOK, server, pools
<1>42. ASSUME NEW c \in Conns, UpstreamWrites(c) PROVE Fresh'
  BY <1>42 DEF UpstreamWrites, Fresh, Accounting, TypeOK, server, pools
<1>43. ASSUME NEW c \in Conns, CancelDials(c) PROVE Fresh'
  BY <1>43 DEF CancelDials, Goto, Fresh, Accounting, TypeOK, server, pools
<1> QED
  BY <1>1, <1>2, <1>3, <1>4, <1>5, <1>6, <1>7, <1>8, <1>9, <1>10, <1>11, <1>12, <1>13,
     <1>14, <1>15, <1>16, <1>17, <1>18, <1>19, <1>20, <1>21, <1>22, <1>23, <1>24, <1>25,
     <1>26, <1>27, <1>28, <1>29, <1>30, <1>31, <1>32, <1>33, <1>34, <1>35, <1>36, <1>37,
     <1>38, <1>39, <1>40, <1>41, <1>42, <1>43, Zenon
     DEF Next, Environment, Handler, Upstream, Server

\* Every step of the gateway is one of Admission, or none.
LEMMA AllowedStep ==
    ASSUME Accounting, ForcedExact, Fresh, Next
    PROVE  Allowed
<1>1. CASE Shutdown
  BY <1>1, Still DEF Shutdown, pools, link, Allowed, GraceIsOver
<1>2. CASE Publish
  <2>1. Service!Publish
    BY <1>2 DEF Publish, server, pools, link, Service!Publish, Phase, GraceIsOver
  <2> QED
    BY <2>1 DEF Allowed, Service!Next
<1>3. CASE Listen
  BY <1>3, Still DEF Listen, pools, link, Allowed, GraceIsOver
<1>4. CASE ListenFails
  BY <1>4, Still DEF ListenFails, pools, link, Allowed, GraceIsOver
<1>5. CASE CloseListener
  <2>1. PhaseOf("backlog") = PhaseOf("done")
    BY DEF PhaseOf, Handshaking, Established, Relaying
  <2>2. Phase' = Phase
    BY <2>1, <1>5 DEF CloseListener, Phase, Accounting, TypeOK
  <2> QED
    BY <2>2, <1>5 DEF Allowed, Service!vars, GraceIsOver, CloseListener, pools, link
<1>6. CASE Backoff
  BY <1>6, Still DEF Backoff, pools, link, Allowed, GraceIsOver
<1>7. CASE GraceExpires
  <2>1. CASE GraceIsOver' = GraceIsOver
    BY <2>1, <1>7, Still DEF GraceExpires, pools, link, Allowed
  <2>2. CASE GraceIsOver' # GraceIsOver
    <3>1. Service!End
      BY <2>2, <1>7 DEF GraceExpires, pools, link, Service!End, GraceIsOver, Phase
    <3> QED
      BY <3>1 DEF Allowed, Service!Next
  <2> QED
    BY <2>1, <2>2
<1>8. CASE StartReturns
  <2>1. CASE GraceIsOver' = GraceIsOver
    BY <2>1, <1>8, Still DEF StartReturns, pools, link, Allowed
  <2>2. CASE GraceIsOver' # GraceIsOver
    <3>1. Service!End
      BY <2>2, <1>8 DEF StartReturns, pools, link, Service!End, GraceIsOver, Phase
    <3> QED
      BY <3>1 DEF Allowed, Service!Next
  <2> QED
    BY <2>1, <2>2
<1>9. ASSUME NEW e \in {"closed", "timeout", "fdLimit"}, AcceptError(e) PROVE Allowed
  BY <1>9, Still DEF AcceptError, pools, link, Allowed, GraceIsOver
<1>10. ASSUME NEW c \in Conns, Connect(c) PROVE Allowed
  <2>1. PhaseOf("none") = PhaseOf("backlog")
    BY DEF PhaseOf, Handshaking, Established, Relaying
  <2>2. Goto(c, "none", "backlog") /\ UNCHANGED <<srv, acceptErr, table, route>>
    BY <1>10 DEF Connect, server, pools, link
  <2> QED
    BY <2>1, <2>2, Within DEF Allowed, Accounting
<1>11. ASSUME NEW c \in Conns, HangUp(c) PROVE Allowed
  BY <1>11, Still DEF HangUp, server, pools, link, Allowed, GraceIsOver
<1>12. ASSUME NEW c \in Conns, BackendCloses(c) PROVE Allowed
  BY <1>12, Still DEF BackendCloses, server, pools, Allowed, GraceIsOver
<1>13. ASSUME NEW c \in Conns, Expire(c) PROVE Allowed
  BY <1>13, Still DEF Expire, server, pools, link, Allowed, GraceIsOver
<1>14. ASSUME NEW c \in Conns, Accept(c) PROVE Allowed
  <2>1. PhaseOf("backlog") = "out" /\ PhaseOf("spawned") = "waiting"
    BY DEF PhaseOf, Handshaking, Established, Relaying
  <2>2. Goto(c, "backlog", "spawned") /\ UNCHANGED <<srv, acceptErr, table, route>>
    BY <1>14 DEF Accept, server, link
  <2>3. Service!Move(c, "out", "waiting") /\ UNCHANGED <<table, route, GraceIsOver>>
    BY <2>1, <2>2, Across DEF Accounting
  <2>4. Service!Arrive(c)
    BY <2>3 DEF Service!Arrive
  <2> QED
    BY <2>4 DEF Allowed, Service!Next
<1>15. ASSUME NEW c \in Conns, Track(c) PROVE Allowed
  <2>1. PhaseOf("spawned") = PhaseOf("tracked")
    BY DEF PhaseOf, Handshaking, Established, Relaying
  <2>2. Goto(c, "spawned", "tracked") /\ UNCHANGED <<srv, acceptErr, table, route>>
    BY <1>15 DEF Track, server, link
  <2> QED
    BY <2>1, <2>2, Within DEF Allowed, Accounting
<1>16. ASSUME NEW c \in Conns, AcquireSlot(c) PROVE Allowed
  <2>1. PhaseOf("tracked") = "waiting" /\ PhaseOf("negotiating") = "admitted"
    BY DEF PhaseOf, Handshaking, Established, Relaying
  <2>2. Goto(c, "tracked", "negotiating") /\ UNCHANGED <<srv, acceptErr, table, route>>
    BY <1>16 DEF AcquireSlot, server, link
  <2>3. Service!Move(c, "waiting", "admitted") /\ UNCHANGED <<table, route, GraceIsOver>>
    BY <2>1, <2>2, Across DEF Accounting
  <2>4. MaxConnections > 0 => Service!Cardinality(Service!Inside) = slots
    BY InsideHolding, SameCardinality DEF Accounting, SlotsExact
  <2>5. Service!Admit(c)
    BY <2>3, <2>4, <1>16, ConstantsAssumption DEF AcquireSlot, Service!Admit, ConstantsAssumption
  <2> QED
    BY <2>5 DEF Allowed, Service!Next
<1>17. ASSUME NEW c \in Conns, RefuseSlot(c) PROVE Allowed
  <2>1. PhaseOf("tracked") = "waiting" /\ PhaseOf("refused") = "out"
    BY DEF PhaseOf, Handshaking, Established, Relaying
  <2>2. Goto(c, "tracked", "refused") /\ UNCHANGED <<srv, acceptErr, table, route>>
    BY <1>17 DEF RefuseSlot, server, pools, link
  <2>3. Service!Move(c, "waiting", "out") /\ UNCHANGED <<table, route, GraceIsOver>>
    BY <2>1, <2>2, Across DEF Accounting
  <2>4. MaxConnections > 0 => Service!Cardinality(Service!Inside) = slots
    BY InsideHolding, SameCardinality DEF Accounting, SlotsExact
  <2>5. Service!Refuse(c)
    BY <2>3, <2>4, <1>17, ConstantsAssumption DEF RefuseSlot, Service!Refuse, ConstantsAssumption
  <2> QED
    BY <2>5 DEF Allowed, Service!Next
<1>18. ASSUME NEW c \in Conns, Negotiated(c) PROVE Allowed
  <2>1. PhaseOf("negotiating") = PhaseOf("lookup") /\ PhaseOf("negotiating") = PhaseOf("cancelling")
    BY DEF PhaseOf, Handshaking, Established, Relaying
  <2>2. PICK to \in {"lookup", "cancelling"} :
           Goto(c, "negotiating", to) /\ UNCHANGED <<srv, acceptErr, table, route>>
    BY <1>18 DEF Negotiated, server, pools, link
  <2> QED
    BY <2>1, <2>2, Within DEF Allowed, Accounting
<1>19. ASSUME NEW c \in Conns, NegotiationAborts(c) PROVE Allowed
  <2>1. PhaseOf("negotiating") \in {"admitted", "served"}
    BY DEF PhaseOf, Handshaking, Established, Relaying
  <2>2. Goto(c, "negotiating", "unwinding") /\ UNCHANGED <<srv, acceptErr, table, route>>
    BY <1>19 DEF NegotiationAborts, server, pools, link
  <2> QED
    BY <2>1, <2>2, Finishes DEF Accounting
<1>20. ASSUME NEW c \in Conns, NegotiationFails(c) PROVE Allowed
  <2>1. PhaseOf("negotiating") \in {"admitted", "served"}
    BY DEF PhaseOf, Handshaking, Established, Relaying
  <2>2. Goto(c, "negotiating", "unwinding") /\ UNCHANGED <<srv, acceptErr, table, route>>
    BY <1>20 DEF NegotiationFails, server, pools, link
  <2> QED
    BY <2>1, <2>2, Finishes DEF Accounting
<1>21. ASSUME NEW c \in Conns, Lookup(c) PROVE Allowed
  <2>1. PhaseOf("lookup") = "admitted" /\ PhaseOf("dialing") = "admitted"
    BY DEF PhaseOf, Handshaking, Established, Relaying
  <2>2. route[c] = None /\ db[c] \in Databases
    BY <1>21 DEF Lookup, Goto, Fresh, Accounting, TypeOK, Wellformed
  <2>3. CASE table[db[c]] = None
    <3>1. Goto(c, "lookup", "unwinding") /\ UNCHANGED <<srv, acceptErr, table, route>>
      BY <2>2, <2>3, <1>21 DEF Lookup, server, Accounting, TypeOK
    <3> QED
      BY <2>1, <3>1, Finishes DEF Accounting
  <2>4. CASE table[db[c]] # None
    <3>1. Goto(c, "lookup", "dialing") /\ UNCHANGED <<srv, acceptErr, table>>
      BY <2>4, <1>21 DEF Lookup, server
    <3>2. Phase[c] = "admitted" /\ Phase' = Phase
      <4>1. Phase[c] = PhaseOf("lookup") /\ Phase' = [Phase EXCEPT ![c] = PhaseOf("dialing")]
        BY <3>1, PhaseMove DEF Accounting
      <4> QED
        BY <2>1, <4>1 DEF Phase
    <3>3. \E d \in Databases : table[d] # None /\ route' = [route EXCEPT ![c] = table[d]]
      BY <2>2, <2>4, <1>21 DEF Lookup
    <3>4. GraceIsOver' = GraceIsOver
      BY <3>1 DEF GraceIsOver
    <3>5. Service!Route(c)
      BY <2>2, <3>1, <3>2, <3>3, <3>4, Zenon DEF Service!Route
    <3> QED
      BY <3>5 DEF Allowed, Service!Next
  <2> QED
    BY <2>3, <2>4
<1>22. ASSUME NEW c \in Conns, DialOk(c) PROVE Allowed
  <2>1. PhaseOf("dialing") = PhaseOf("forwarding")
    BY DEF PhaseOf, Handshaking, Established, Relaying
  <2>2. Goto(c, "dialing", "forwarding") /\ UNCHANGED <<srv, acceptErr, table, route>>
    BY <1>22 DEF DialOk, server, pools
  <2> QED
    BY <2>1, <2>2, Within DEF Allowed, Accounting
<1>23. ASSUME NEW c \in Conns, DialFails(c) PROVE Allowed
  <2>1. PhaseOf("dialing") \in {"admitted", "served"}
    BY DEF PhaseOf, Handshaking, Established, Relaying
  <2>2. Goto(c, "dialing", "unwinding") /\ UNCHANGED <<srv, acceptErr, table, route>>
    BY <1>23 DEF DialFails, server, pools, link
  <2> QED
    BY <2>1, <2>2, Finishes DEF Accounting
<1>24. ASSUME NEW c \in Conns, Establish(c) PROVE Allowed
  <2>1. PhaseOf("forwarding") = "admitted" /\ PhaseOf("framing") = "served"
    BY DEF PhaseOf, Handshaking, Established, Relaying
  <2>2. Goto(c, "forwarding", "framing") /\ UNCHANGED <<srv, acceptErr, table, route>>
    BY <1>24 DEF Establish, server, pools
  <2>3. Service!Move(c, "admitted", "served") /\ UNCHANGED <<table, route, GraceIsOver>>
    BY <2>1, <2>2, Across DEF Accounting
  <2>4. sessions # 0
    <3>1. c \in At(Running)
      BY <2>2 DEF Goto, At, Running, Tracked, Holding, Handshaking
    <3> QED
      BY <3>1, AtFinite, FS_EmptySet DEF Accounting, SessionsExact
  <2>5. ~GraceIsOver
    BY <2>2, <2>4, <1>24 DEF Establish, Goto, GraceIsOver, ForcedExact, Fresh
  <2>6. route[c] # None
    BY <2>2 DEF Goto, Accounting, Wellformed
  <2>7. Service!Serve(c)
    BY <2>3, <2>5, <2>6 DEF Service!Serve
  <2> QED
    BY <2>7 DEF Allowed, Service!Next
<1>25. ASSUME NEW c \in Conns, ForwardFails(c) PROVE Allowed
  <2>1. PhaseOf("forwarding") \in {"admitted", "served"}
    BY DEF PhaseOf, Handshaking, Established, Relaying
  <2>2. Goto(c, "forwarding", "unwinding") /\ UNCHANGED <<srv, acceptErr, table, route>>
    BY <1>25 DEF ForwardFails, server, pools
  <2> QED
    BY <2>1, <2>2, Finishes DEF Accounting
<1>26. ASSUME NEW c \in Conns, IssueKey(c) PROVE Allowed
  <2>1. PhaseOf("framing") = PhaseOf("keyed")
    BY DEF PhaseOf, Handshaking, Established, Relaying
  <2>2. Goto(c, "framing", "keyed") /\ UNCHANGED <<srv, acceptErr, table, route>>
    BY <1>26 DEF IssueKey, server, pools, link
  <2> QED
    BY <2>1, <2>2, Within DEF Allowed, Accounting
<1>27. ASSUME NEW c \in Conns, TellKey(c) PROVE Allowed
  <2>1. PhaseOf("keyed") = PhaseOf("framing")
    BY DEF PhaseOf, Handshaking, Established, Relaying
  <2>2. Goto(c, "keyed", "framing") /\ UNCHANGED <<srv, acceptErr, table, route>>
    BY <1>27 DEF TellKey, server, pools, link
  <2> QED
    BY <2>1, <2>2, Within DEF Allowed, Accounting
<1>28. ASSUME NEW c \in Conns, Splice(c) PROVE Allowed
  <2>1. PhaseOf("framing") = PhaseOf("splicing")
    BY DEF PhaseOf, Handshaking, Established, Relaying
  <2>2. Goto(c, "framing", "splicing") /\ UNCHANGED <<srv, acceptErr, table, route>>
    BY <1>28 DEF Splice, server, pools, link
  <2> QED
    BY <2>1, <2>2, Within DEF Allowed, Accounting
<1>29. ASSUME NEW c \in Conns, BackendEOF(c) PROVE Allowed
  <2>1. \A p \in Relaying : PhaseOf(p) = PhaseOf("released")
    BY DEF PhaseOf, Handshaking, Established, Relaying
  <2>2. PICK from \in Relaying :
           Goto(c, from, "released") /\ UNCHANGED <<srv, acceptErr, table, route>>
    BY <1>29 DEF BackendEOF, EndRelay, server, pools, link, Relaying
  <2> QED
    BY <2>1, <2>2, Within DEF Allowed, Accounting
<1>30. ASSUME NEW c \in Conns, BadMessage(c) PROVE Allowed
  <2>1. \A p \in Relaying : PhaseOf(p) = PhaseOf("released")
    BY DEF PhaseOf, Handshaking, Established, Relaying
  <2>2. PICK from \in Relaying :
           Goto(c, from, "released") /\ UNCHANGED <<srv, acceptErr, table, route>>
    BY <1>30 DEF BadMessage, EndRelay, server, pools, link, Relaying
  <2> QED
    BY <2>1, <2>2, Within DEF Allowed, Accounting
<1>31. ASSUME NEW c \in Conns, ClientWriteFails(c) PROVE Allowed
  <2>1. \A p \in Relaying : PhaseOf(p) = PhaseOf("released")
    BY DEF PhaseOf, Handshaking, Established, Relaying
  <2>2. PICK from \in Relaying :
           Goto(c, from, "released") /\ UNCHANGED <<srv, acceptErr, table, route>>
    BY <1>31 DEF ClientWriteFails, EndRelay, server, pools, link, Relaying
  <2> QED
    BY <2>1, <2>2, Within DEF Allowed, Accounting
<1>32. ASSUME NEW c \in Conns, CloseClient(c) PROVE Allowed
  <2>1. PhaseOf("released") = PhaseOf("waiting")
    BY DEF PhaseOf, Handshaking, Established, Relaying
  <2>2. Goto(c, "released", "waiting") /\ UNCHANGED <<srv, acceptErr, table, route>>
    BY <1>32 DEF CloseClient, server, pools, link
  <2> QED
    BY <2>1, <2>2, Within DEF Allowed, Accounting
<1>33. ASSUME NEW c \in Conns, UpstreamEnds(c) PROVE Allowed
  BY <1>33, Still DEF UpstreamEnds, server, pools, Allowed, GraceIsOver
<1>34. ASSUME NEW c \in Conns, RelayReturns(c) PROVE Allowed
  <2>1. PhaseOf("waiting") \in {"admitted", "served"}
    BY DEF PhaseOf, Handshaking, Established, Relaying
  <2>2. Goto(c, "waiting", "unwinding") /\ UNCHANGED <<srv, acceptErr, table, route>>
    BY <1>34 DEF RelayReturns, server, pools
  <2> QED
    BY <2>1, <2>2, Finishes DEF Accounting
<1>35. ASSUME NEW c \in Conns, CancelLookup(c) PROVE Allowed
  <2>1. PhaseOf("cancelling") = PhaseOf("delivering") /\ PhaseOf("cancelling") = "admitted"
    BY DEF PhaseOf, Handshaking, Established, Relaying
  <2>2. UNCHANGED <<srv, acceptErr, table, route>>
    BY <1>35 DEF CancelLookup, server, pools, link
  <2>3. Goto(c, "cancelling", "unwinding") \/ Goto(c, "cancelling", "delivering")
    BY <1>35 DEF CancelLookup
  <2>4. CASE Goto(c, "cancelling", "unwinding")
    BY <2>1, <2>2, <2>4, Finishes DEF Accounting
  <2>5. CASE Goto(c, "cancelling", "delivering")
    BY <2>1, <2>2, <2>5, Within DEF Allowed, Accounting
  <2> QED
    BY <2>3, <2>4, <2>5
<1>36. ASSUME NEW c \in Conns, DeliverCancel(c) PROVE Allowed
  <2>1. PhaseOf("sending") \in {"admitted", "served"}
    BY DEF PhaseOf, Handshaking, Established, Relaying
  <2>2. Goto(c, "sending", "unwinding") /\ UNCHANGED <<srv, acceptErr, table, route>>
    BY <1>36 DEF DeliverCancel, server, pools
  <2> QED
    BY <2>1, <2>2, Finishes DEF Accounting
<1>37. ASSUME NEW c \in Conns, DeliveryFails(c) PROVE Allowed
  <2>1. \A p \in {"delivering", "sending"} : PhaseOf(p) \in {"admitted", "served"}
    BY DEF PhaseOf, Handshaking, Established, Relaying
  <2>2. PICK from \in {"delivering", "sending"} :
           Goto(c, from, "unwinding") /\ UNCHANGED <<srv, acceptErr, table, route>>
    BY <1>37 DEF DeliveryFails, server, pools
  <2> QED
    BY <2>1, <2>2, Finishes DEF Accounting
<1>38. ASSUME NEW c \in Conns, ReleaseSlot(c) PROVE Allowed
  <2>1. PhaseOf("unwinding") = "ending" /\ PhaseOf("closing") = "out"
    BY DEF PhaseOf, Handshaking, Established, Relaying
  <2>2. Goto(c, "unwinding", "closing") /\ UNCHANGED <<srv, acceptErr, table, route>>
    BY <1>38 DEF ReleaseSlot, server, link
  <2>3. Service!Move(c, "ending", "out") /\ UNCHANGED <<table, route, GraceIsOver>>
    BY <2>1, <2>2, Across DEF Accounting
  <2>4. Service!Leave(c)
    BY <2>3 DEF Service!Leave
  <2> QED
    BY <2>4 DEF Allowed, Service!Next
<1>39. ASSUME NEW c \in Conns, Untrack(c) PROVE Allowed
  <2>1. \A p \in {"refused", "closing"} : PhaseOf(p) = PhaseOf("closed")
    BY DEF PhaseOf, Handshaking, Established, Relaying
  <2>2. PICK from \in {"refused", "closing"} :
           Goto(c, from, "closed") /\ UNCHANGED <<srv, acceptErr, table, route>>
    BY <1>39 DEF Untrack, server, link
  <2> QED
    BY <2>1, <2>2, Within DEF Allowed, Accounting
<1>40. ASSUME NEW c \in Conns, Done(c) PROVE Allowed
  <2>1. PhaseOf("closed") = PhaseOf("done")
    BY DEF PhaseOf, Handshaking, Established, Relaying
  <2>2. Goto(c, "closed", "done") /\ UNCHANGED <<srv, acceptErr, table, route>>
    BY <1>40 DEF Done, server, link
  <2> QED
    BY <2>1, <2>2, Within DEF Allowed, Accounting
<1>41. ASSUME NEW c \in Conns, UpstreamReads(c) PROVE Allowed
  BY <1>41, Still DEF UpstreamReads, server, pools, Allowed, GraceIsOver
<1>42. ASSUME NEW c \in Conns, UpstreamWrites(c) PROVE Allowed
  BY <1>42, Still DEF UpstreamWrites, server, pools, Allowed, GraceIsOver
<1>43. ASSUME NEW c \in Conns, CancelDials(c) PROVE Allowed
  <2>1. PhaseOf("delivering") = PhaseOf("sending")
    BY DEF PhaseOf, Handshaking, Established, Relaying
  <2>2. Goto(c, "delivering", "sending") /\ UNCHANGED <<srv, acceptErr, table, route>>
    BY <1>43 DEF CancelDials, server, pools
  <2> QED
    BY <2>1, <2>2, Within DEF Allowed, Accounting
<1> QED
  BY <1>1, <1>2, <1>3, <1>4, <1>5, <1>6, <1>7, <1>8, <1>9, <1>10, <1>11, <1>12, <1>13,
     <1>14, <1>15, <1>16, <1>17, <1>18, <1>19, <1>20, <1>21, <1>22, <1>23, <1>24, <1>25,
     <1>26, <1>27, <1>28, <1>29, <1>30, <1>31, <1>32, <1>33, <1>34, <1>35, <1>36, <1>37,
     <1>38, <1>39, <1>40, <1>41, <1>42, <1>43, Zenon
     DEF Next, Environment, Handler, Upstream, Server

\* The gateway's channel, wait group and goroutines implement Admission: who is let in,
\* where a session goes and when none begins any more.
THEOREM GatewayImplementsAdmission == Spec => ImplementsAdmission
<1>1. Init => ForcedExact /\ Fresh /\ Service!Init
  <2>1. PhaseOf("none") = "out"
    BY DEF PhaseOf, Handshaking, Established, Relaying
  <2> QED
    BY <2>1 DEF Init, ForcedExact, Fresh, Service!Init, Phase, GraceIsOver
<1>2. Accounting /\ ForcedExact /\ Fresh /\ [Next]_vars =>
         ForcedExact' /\ Fresh' /\ [Service!Next]_(Service!vars)
  <2>1. ASSUME ForcedExact, Fresh, UNCHANGED vars
        PROVE  ForcedExact' /\ Fresh' /\ UNCHANGED Service!vars
    <3>1. UNCHANGED Service!vars
      BY <2>1, Still DEF vars, server, link, GraceIsOver
    <3>2. ForcedExact'
      BY <2>1 DEF ForcedExact, vars, server, wire
    <3> QED
      BY <2>1, <3>1, <3>2 DEF Fresh, vars, server, pools, link
  <2>2. ASSUME Accounting, ForcedExact, Fresh, Next
        PROVE  ForcedExact' /\ Fresh' /\ (Service!Next \/ UNCHANGED Service!vars)
    BY <2>2, ForcedStep, FreshStep, AllowedStep DEF Allowed
  <2> QED
    BY <2>1, <2>2
<1> QED
  BY <1>1, <1>2, AccountingHolds, PTL DEF Spec, ImplementsAdmission, Service!Spec
=============================================================================
