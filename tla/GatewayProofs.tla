--------------------------- MODULE GatewayProofs ----------------------------
(***************************************************************************)
(* Types and counters of Gateway, for any number of connections, databases, *)
(* endpoints and keys and any connection limit.                             *)
(***************************************************************************)
EXTENDS GatewayShapeProofs

-----------------------------------------------------------------------------
(* Counting connections.                                                     *)

\* When one connection moves, a set of connections at given places gains or loses
\* at most that connection.
LEMMA MoveAt ==
    ASSUME NEW c \in Conns, NEW from, NEW to, NEW P,
           TypeOK, Goto(c, from, to)
    PROVE  At(P)' = IF to \in P THEN At(P) \cup {c} ELSE At(P) \ {c}
  BY DEF TypeOK, Goto, At

\* The connections at given places are finitely many.
LEMMA AtFinite ==
    ASSUME NEW P
    PROVE  IsFiniteSet(At(P)) /\ Cardinality(At(P)) \in Nat
<1>1. At(P) \in SUBSET Conns
  BY DEF At
<1> QED
  BY <1>1, FS_Subset, FS_CardinalityType, ConstantsAssumption DEF ConstantsAssumption

\* How a move changes the number of connections at given places.
LEMMA MoveCount ==
    ASSUME NEW c \in Conns, NEW from, NEW to, NEW P,
           TypeOK, Goto(c, from, to)
    PROVE  /\ from \in P /\ to \in P => Cardinality(At(P)') = Cardinality(At(P))
           /\ from \notin P /\ to \notin P => Cardinality(At(P)') = Cardinality(At(P))
           /\ from \notin P /\ to \in P => Cardinality(At(P)') = Cardinality(At(P)) + 1
           /\ from \in P /\ to \notin P =>
                 Cardinality(At(P)') = Cardinality(At(P)) - 1 /\ Cardinality(At(P)) > 0
<1>1. At(P)' = IF to \in P THEN At(P) \cup {c} ELSE At(P) \ {c}
  BY MoveAt
<1>2. c \in At(P) <=> from \in P
  BY DEF Goto, At
<1>3. IsFiniteSet(At(P)) /\ Cardinality(At(P)) \in Nat
  BY AtFinite
<1>4. c \in At(P) => Cardinality(At(P)) > 0
  BY <1>3, FS_EmptySet
<1>5. Cardinality(At(P) \cup {c}) = IF c \in At(P) THEN Cardinality(At(P)) ELSE Cardinality(At(P)) + 1
  BY <1>3, FS_AddElement, Zenon
<1>6. Cardinality(At(P) \ {c}) = IF c \in At(P) THEN Cardinality(At(P)) - 1 ELSE Cardinality(At(P))
  BY <1>3, FS_RemoveElement, Zenon
<1> QED
  BY <1>1, <1>2, <1>3, <1>4, <1>5, <1>6

\* Moving one connection between places that count alike keeps the counters exact.
LEMMA SameCounts ==
    ASSUME TypeOK, SlotsExact, SessionsExact, UNCHANGED pools,
           NEW c \in Conns, NEW from, NEW to, Goto(c, from, to),
           from \in Holding <=> to \in Holding,
           from \in Running <=> to \in Running,
           from \in Tracked <=> to \in Tracked
    PROVE  SlotsExact' /\ SessionsExact'
<1>1. Cardinality(At(Holding)') = Cardinality(At(Holding))
  BY MoveCount
<1>2. Cardinality(At(Running)') = Cardinality(At(Running))
  BY MoveCount
<1>3. At(Tracked)' = At(Tracked)
  <2>1. c \in At(Tracked) <=> from \in Tracked
    BY DEF Goto, At
  <2> QED
    BY <2>1, MoveAt
<1> QED
  BY <1>1, <1>2, <1>3 DEF SlotsExact, SessionsExact, pools

\* A step that moves no connection keeps the counters exact.
LEMMA FrozenCounts ==
    ASSUME SlotsExact, SessionsExact, UNCHANGED <<pc, pools>>
    PROVE  SlotsExact' /\ SessionsExact'
  BY DEF SlotsExact, SessionsExact, pools, At

-----------------------------------------------------------------------------
(* Types and counters.                                                       *)

\* Every step preserves the types.
LEMMA TypeStep ==
    ASSUME Accounting, Next
    PROVE  TypeOK'
<1>1. CASE Shutdown
  BY <1>1, ConstantsAssumption
     DEF Shutdown, ConstantsAssumption, Accounting, TypeOK, PCs, server, pools, ask, wire,
         link, keys, cancel
<1>2. CASE Publish
  BY <1>2, ConstantsAssumption
     DEF Publish, ConstantsAssumption, Accounting, TypeOK, PCs, server, pools, ask, wire,
         link, keys, cancel
<1>3. CASE Listen
  BY <1>3, ConstantsAssumption
     DEF Listen, ConstantsAssumption, Accounting, TypeOK, PCs, server, pools, ask, wire,
         link, keys, cancel
<1>4. CASE ListenFails
  BY <1>4, ConstantsAssumption
     DEF ListenFails, ConstantsAssumption, Accounting, TypeOK, PCs, server, pools, ask,
         wire, link, keys, cancel
<1>5. CASE CloseListener
  BY <1>5, ConstantsAssumption
     DEF CloseListener, ConstantsAssumption, Accounting, TypeOK, PCs, server, pools, ask,
         wire, link, keys, cancel
<1>6. CASE Backoff
  BY <1>6, ConstantsAssumption
     DEF Backoff, ConstantsAssumption, Accounting, TypeOK, PCs, server, pools, ask, wire,
         link, keys, cancel
<1>7. CASE GraceExpires
  BY <1>7, ConstantsAssumption
     DEF GraceExpires, ConstantsAssumption, Accounting, TypeOK, PCs, server, pools, ask,
         wire, link, keys, cancel
<1>8. CASE StartReturns
  BY <1>8, ConstantsAssumption, Zenon
     DEF StartReturns, ConstantsAssumption, Accounting, TypeOK, PCs, server, pools, ask,
         wire, link, keys, cancel
<1>9. ASSUME NEW e \in {"closed", "timeout", "fdLimit"}, AcceptError(e) PROVE TypeOK'
  BY <1>9, ConstantsAssumption, Zenon
     DEF AcceptError, ConstantsAssumption, Accounting, TypeOK, PCs, server, pools, ask,
         wire, link, keys, cancel
<1>10. ASSUME NEW c \in Conns, Connect(c) PROVE TypeOK'
  BY <1>10, ConstantsAssumption
     DEF Connect, Goto, ConstantsAssumption, Accounting, TypeOK, PCs, server, pools, ask,
         wire, link, keys, cancel
<1>11. ASSUME NEW c \in Conns, HangUp(c) PROVE TypeOK'
  BY <1>11, ConstantsAssumption
     DEF HangUp, ConstantsAssumption, Accounting, TypeOK, PCs, server, pools, ask, wire,
         link, keys, cancel
<1>12. ASSUME NEW c \in Conns, BackendCloses(c) PROVE TypeOK'
  BY <1>12, ConstantsAssumption
     DEF BackendCloses, ConstantsAssumption, Accounting, TypeOK, PCs, server, pools, ask,
         wire, link, keys, cancel
<1>13. ASSUME NEW c \in Conns, Expire(c) PROVE TypeOK'
  BY <1>13, ConstantsAssumption
     DEF Expire, ConstantsAssumption, Accounting, TypeOK, PCs, server, pools, ask, wire,
         link, keys, cancel
<1>14. ASSUME NEW c \in Conns, Accept(c) PROVE TypeOK'
  BY <1>14, ConstantsAssumption
     DEF Accept, Goto, ConstantsAssumption, Accounting, TypeOK, PCs, server, pools, ask,
         wire, link, keys, cancel
<1>15. ASSUME NEW c \in Conns, Track(c) PROVE TypeOK'
  BY <1>15, ConstantsAssumption
     DEF Track, Goto, ConstantsAssumption, Accounting, TypeOK, PCs, server, pools, ask,
         wire, link, keys, cancel
<1>16. ASSUME NEW c \in Conns, AcquireSlot(c) PROVE TypeOK'
  BY <1>16, ConstantsAssumption
     DEF AcquireSlot, Goto, ConstantsAssumption, Accounting, TypeOK, PCs, server, pools,
         ask, wire, link, keys, cancel
<1>17. ASSUME NEW c \in Conns, RefuseSlot(c) PROVE TypeOK'
  BY <1>17, ConstantsAssumption
     DEF RefuseSlot, Goto, ConstantsAssumption, Accounting, TypeOK, PCs, server, pools, ask,
         wire, link, keys, cancel
<1>18. ASSUME NEW c \in Conns, Negotiated(c) PROVE TypeOK'
  BY <1>18, ConstantsAssumption
     DEF Negotiated, Goto, ConstantsAssumption, Accounting, TypeOK, PCs, server, pools, ask,
         wire, link, keys, cancel
<1>19. ASSUME NEW c \in Conns, NegotiationAborts(c) PROVE TypeOK'
  BY <1>19, ConstantsAssumption
     DEF NegotiationAborts, Goto, ConstantsAssumption, Accounting, TypeOK, PCs, server,
         pools, ask, wire, link, keys, cancel
<1>20. ASSUME NEW c \in Conns, NegotiationFails(c) PROVE TypeOK'
  BY <1>20, ConstantsAssumption
     DEF NegotiationFails, Goto, ConstantsAssumption, Accounting, TypeOK, PCs, server,
         pools, ask, wire, link, keys, cancel
<1>21. ASSUME NEW c \in Conns, Lookup(c) PROVE TypeOK'
  BY <1>21, ConstantsAssumption
     DEF Wellformed, Lookup, Goto, ConstantsAssumption, Accounting, TypeOK, PCs, server,
         pools, ask, wire, link, keys, cancel
<1>22. ASSUME NEW c \in Conns, DialOk(c) PROVE TypeOK'
  BY <1>22, ConstantsAssumption
     DEF DialOk, Goto, ConstantsAssumption, Accounting, TypeOK, PCs, server, pools, ask,
         wire, link, keys, cancel
<1>23. ASSUME NEW c \in Conns, DialFails(c) PROVE TypeOK'
  BY <1>23, ConstantsAssumption
     DEF DialFails, Goto, ConstantsAssumption, Accounting, TypeOK, PCs, server, pools, ask,
         wire, link, keys, cancel
<1>24. ASSUME NEW c \in Conns, Establish(c) PROVE TypeOK'
  BY <1>24, ConstantsAssumption
     DEF Establish, Goto, ConstantsAssumption, Accounting, TypeOK, PCs, server, pools, ask,
         wire, link, keys, cancel
<1>25. ASSUME NEW c \in Conns, ForwardFails(c) PROVE TypeOK'
  BY <1>25, ConstantsAssumption
     DEF ForwardFails, Goto, ConstantsAssumption, Accounting, TypeOK, PCs, server, pools,
         ask, wire, link, keys, cancel
<1>26. ASSUME NEW c \in Conns, IssueKey(c) PROVE TypeOK'
  BY <1>26, ConstantsAssumption
     DEF Wellformed, Entry, Established, Relaying, IssueKey, Goto, ConstantsAssumption,
         Accounting, TypeOK, PCs, server, pools, ask, wire, link, keys, cancel
<1>27. ASSUME NEW c \in Conns, TellKey(c) PROVE TypeOK'
  BY <1>27, ConstantsAssumption
     DEF TellKey, Goto, ConstantsAssumption, Accounting, TypeOK, PCs, server, pools, ask,
         wire, link, keys, cancel
<1>28. ASSUME NEW c \in Conns, Splice(c) PROVE TypeOK'
  BY <1>28, ConstantsAssumption
     DEF Splice, Goto, ConstantsAssumption, Accounting, TypeOK, PCs, server, pools, ask,
         wire, link, keys, cancel
<1>29. ASSUME NEW c \in Conns, BadMessage(c) PROVE TypeOK'
  BY <1>29, ConstantsAssumption
     DEF BadMessage, Goto, EndRelay, ConstantsAssumption, Accounting, TypeOK, PCs, server,
         pools, ask, wire, link, keys, cancel
<1>30. ASSUME NEW c \in Conns, ClientWriteFails(c) PROVE TypeOK'
  BY <1>30, ConstantsAssumption
     DEF ClientWriteFails, Goto, EndRelay, ConstantsAssumption, Accounting, TypeOK, PCs,
         server, pools, ask, wire, link, keys, cancel
<1>31. ASSUME NEW c \in Conns, BackendEOF(c) PROVE TypeOK'
  BY <1>31, ConstantsAssumption
     DEF BackendEOF, Goto, EndRelay, ConstantsAssumption, Accounting, TypeOK, PCs, server,
         pools, ask, wire, link, keys, cancel
<1>32. ASSUME NEW c \in Conns, CloseClient(c) PROVE TypeOK'
  BY <1>32, ConstantsAssumption
     DEF CloseClient, Goto, ConstantsAssumption, Accounting, TypeOK, PCs, server, pools,
         ask, wire, link, keys, cancel
<1>33. ASSUME NEW c \in Conns, UpstreamEnds(c) PROVE TypeOK'
  BY <1>33, ConstantsAssumption
     DEF UpstreamEnds, ConstantsAssumption, Accounting, TypeOK, PCs, server, pools, ask,
         wire, link, keys, cancel
<1>34. ASSUME NEW c \in Conns, RelayReturns(c) PROVE TypeOK'
  BY <1>34, ConstantsAssumption
     DEF RelayReturns, Goto, ConstantsAssumption, Accounting, TypeOK, PCs, server, pools,
         ask, wire, link, keys, cancel
<1>35. ASSUME NEW c \in Conns, CancelLookup(c) PROVE TypeOK'
  BY <1>35, ConstantsAssumption
     DEF Wellformed, CancelLookup, Goto, ConstantsAssumption, Accounting, TypeOK, PCs,
         server, pools, ask, wire, link, keys, cancel
<1>36. ASSUME NEW c \in Conns, DeliverCancel(c) PROVE TypeOK'
  BY <1>36, ConstantsAssumption
     DEF DeliverCancel, Goto, ConstantsAssumption, Accounting, TypeOK, PCs, server, pools,
         ask, wire, link, keys, cancel
<1>37. ASSUME NEW c \in Conns, DeliveryFails(c) PROVE TypeOK'
  BY <1>37, ConstantsAssumption
     DEF DeliveryFails, Goto, ConstantsAssumption, Accounting, TypeOK, PCs, server, pools,
         ask, wire, link, keys, cancel
<1>38. ASSUME NEW c \in Conns, ReleaseSlot(c) PROVE TypeOK'
  <2>1. Goto(c, "unwinding", "closing")
    BY <1>38 DEF ReleaseSlot
  <2>places. "unwinding" \in Holding /\ "closing" \notin Holding
    BY DEF Holding, Handshaking, Established, Relaying, Tracked, Running
  <2>2. Cardinality(At(Holding)) > 0
    BY <2>1, <2>places, MoveCount DEF Accounting
  <2>3. MaxConnections = 0 \/ slots > 0
    BY <2>2, ConstantsAssumption DEF Accounting, SlotsExact, ConstantsAssumption
  <2>4. slots' \in 0..MaxConnections
    BY <1>38, <2>3, ConstantsAssumption
       DEF ReleaseSlot, Accounting, TypeOK, ConstantsAssumption
  <2> QED
    BY <1>38, <2>4
       DEF ReleaseSlot, Goto, Accounting, TypeOK, PCs, server, ask, wire, link, keys, cancel
<1>39. ASSUME NEW c \in Conns, Untrack(c) PROVE TypeOK'
  BY <1>39, ConstantsAssumption
     DEF Untrack, Goto, ConstantsAssumption, Accounting, TypeOK, PCs, server, pools, ask,
         wire, link, keys, cancel
<1>40. ASSUME NEW c \in Conns, Done(c) PROVE TypeOK'
  <2>1. Goto(c, "closed", "done")
    BY <1>40 DEF Done
  <2>places. "closed" \in Running /\ "done" \notin Running
    BY DEF Holding, Handshaking, Established, Relaying, Tracked, Running
  <2>2. Cardinality(At(Running)) > 0
    BY <2>1, <2>places, MoveCount DEF Accounting
  <2>3. sessions' \in Nat
    BY <1>40, <2>2 DEF Done, Accounting, TypeOK, SessionsExact
  <2> QED
    BY <1>40, <2>3
       DEF Done, Goto, Accounting, TypeOK, PCs, server, ask, wire, link, keys, cancel
<1>41. ASSUME NEW c \in Conns, UpstreamReads(c) PROVE TypeOK'
  BY <1>41, ConstantsAssumption
     DEF UpstreamReads, ConstantsAssumption, Accounting, TypeOK, PCs, server, pools, ask,
         wire, link, keys, cancel
<1>42. ASSUME NEW c \in Conns, UpstreamWrites(c) PROVE TypeOK'
  BY <1>42, ConstantsAssumption
     DEF UpstreamWrites, ConstantsAssumption, Accounting, TypeOK, PCs, server, pools, ask,
         wire, link, keys, cancel
<1>43. ASSUME NEW c \in Conns, CancelDials(c) PROVE TypeOK'
  BY <1>43, ConstantsAssumption
     DEF CancelDials, Goto, ConstantsAssumption, Accounting, TypeOK, PCs, server, pools, ask,
         wire, link, keys, cancel
<1> QED
  BY <1>1, <1>2, <1>3, <1>4, <1>5, <1>6, <1>7, <1>8, <1>9, <1>10, <1>11, <1>12,
     <1>13, <1>14, <1>15, <1>16, <1>17, <1>18, <1>19, <1>20, <1>21, <1>22, <1>23,
     <1>24, <1>25, <1>26, <1>27, <1>28, <1>29, <1>30, <1>31, <1>32, <1>33, <1>34,
     <1>35, <1>36, <1>37, <1>38, <1>39, <1>40, <1>41, <1>42, <1>43, Zenon
     DEF Next, Environment, Handler, Upstream, Server

\* Every step keeps the slot count, the WaitGroup and activeConn exact.
LEMMA CountStep ==
    ASSUME Accounting, Next
    PROVE  SlotsExact' /\ SessionsExact'
<1>1. CASE Shutdown
  BY <1>1, FrozenCounts DEF Accounting, Shutdown, pools
<1>2. CASE Publish
  BY <1>2, FrozenCounts DEF Accounting, Publish, pools
<1>3. CASE Listen
  BY <1>3, FrozenCounts DEF Accounting, Listen, pools
<1>4. CASE ListenFails
  BY <1>4, FrozenCounts DEF Accounting, ListenFails, pools
<1>5. CASE CloseListener
  <2>1. At(Holding)' = At(Holding) /\ At(Running)' = At(Running) /\ At(Tracked)' = At(Tracked)
    BY <1>5
       DEF CloseListener, Accounting, TypeOK, At, Holding, Handshaking, Established,
           Relaying, Tracked, Running
  <2> QED
    BY <1>5, <2>1 DEF CloseListener, Accounting, SlotsExact, SessionsExact, pools
<1>6. CASE Backoff
  BY <1>6, FrozenCounts DEF Accounting, Backoff, pools
<1>7. CASE GraceExpires
  BY <1>7, FrozenCounts DEF Accounting, GraceExpires, pools
<1>8. CASE StartReturns
  BY <1>8, FrozenCounts DEF Accounting, StartReturns, pools
<1>9. ASSUME NEW e \in {"closed", "timeout", "fdLimit"}, AcceptError(e) PROVE SlotsExact' /\ SessionsExact'
  BY <1>9, FrozenCounts DEF Accounting, AcceptError, pools
<1>10. ASSUME NEW c \in Conns, Connect(c) PROVE SlotsExact' /\ SessionsExact'
  BY <1>10, SameCounts
     DEF Accounting, Connect, pools, Holding, Handshaking, Established, Relaying, Tracked,
         Running
<1>11. ASSUME NEW c \in Conns, HangUp(c) PROVE SlotsExact' /\ SessionsExact'
  BY <1>11, FrozenCounts DEF Accounting, HangUp, pools
<1>12. ASSUME NEW c \in Conns, BackendCloses(c) PROVE SlotsExact' /\ SessionsExact'
  BY <1>12, FrozenCounts DEF Accounting, BackendCloses, pools
<1>13. ASSUME NEW c \in Conns, Expire(c) PROVE SlotsExact' /\ SessionsExact'
  BY <1>13, FrozenCounts DEF Accounting, Expire, pools
<1>14. ASSUME NEW c \in Conns, Accept(c) PROVE SlotsExact' /\ SessionsExact'
  <2>1. Goto(c, "backlog", "spawned")
    BY <1>14 DEF Accept
  <2>places. /\ "backlog" \notin Holding /\ "spawned" \notin Holding
        /\ "backlog" \notin Running /\ "spawned" \in Running
    BY DEF Holding, Handshaking, Established, Relaying, Tracked, Running
  <2>2. /\ Cardinality(At(Holding)') = Cardinality(At(Holding))
        /\ Cardinality(At(Running)') = Cardinality(At(Running)) + 1
    BY <2>1, <2>places, MoveCount DEF Accounting
  <2>3. c \in At(Tracked) <=> "backlog" \in Tracked
    BY <2>1 DEF Goto, At
  <2>4. At(Tracked)' = IF "spawned" \in Tracked THEN At(Tracked) \cup {c} ELSE At(Tracked) \ {c}
    BY <2>1, MoveAt DEF Accounting
  <2> QED
    BY <1>14, <2>2, <2>3, <2>4
       DEF Accept, Accounting, SlotsExact, SessionsExact, Holding, Handshaking, Established,
           Relaying, Tracked, Running
<1>15. ASSUME NEW c \in Conns, Track(c) PROVE SlotsExact' /\ SessionsExact'
  <2>1. Goto(c, "spawned", "tracked")
    BY <1>15 DEF Track
  <2>places. /\ "spawned" \notin Holding /\ "tracked" \notin Holding
        /\ "spawned" \in Running /\ "tracked" \in Running
    BY DEF Holding, Handshaking, Established, Relaying, Tracked, Running
  <2>2. /\ Cardinality(At(Holding)') = Cardinality(At(Holding))
        /\ Cardinality(At(Running)') = Cardinality(At(Running))
    BY <2>1, <2>places, MoveCount DEF Accounting
  <2>3. c \in At(Tracked) <=> "spawned" \in Tracked
    BY <2>1 DEF Goto, At
  <2>4. At(Tracked)' = IF "tracked" \in Tracked THEN At(Tracked) \cup {c} ELSE At(Tracked) \ {c}
    BY <2>1, MoveAt DEF Accounting
  <2> QED
    BY <1>15, <2>2, <2>3, <2>4
       DEF Track, Accounting, SlotsExact, SessionsExact, Holding, Handshaking, Established,
           Relaying, Tracked, Running
<1>16. ASSUME NEW c \in Conns, AcquireSlot(c) PROVE SlotsExact' /\ SessionsExact'
  <2>1. Goto(c, "tracked", "negotiating")
    BY <1>16 DEF AcquireSlot
  <2>places. /\ "tracked" \notin Holding /\ "negotiating" \in Holding
        /\ "tracked" \in Running /\ "negotiating" \in Running
    BY DEF Holding, Handshaking, Established, Relaying, Tracked, Running
  <2>2. /\ Cardinality(At(Holding)') = Cardinality(At(Holding)) + 1
        /\ Cardinality(At(Running)') = Cardinality(At(Running))
    BY <2>1, <2>places, MoveCount DEF Accounting
  <2>3. c \in At(Tracked) <=> "tracked" \in Tracked
    BY <2>1 DEF Goto, At
  <2>4. At(Tracked)' = IF "negotiating" \in Tracked THEN At(Tracked) \cup {c} ELSE At(Tracked) \ {c}
    BY <2>1, MoveAt DEF Accounting
  <2> QED
    BY <1>16, <2>2, <2>3, <2>4
       DEF AcquireSlot, Accounting, SlotsExact, SessionsExact, Holding, Handshaking,
           Established, Relaying, Tracked, Running
<1>17. ASSUME NEW c \in Conns, RefuseSlot(c) PROVE SlotsExact' /\ SessionsExact'
  BY <1>17, SameCounts
     DEF Accounting, RefuseSlot, pools, Holding, Handshaking, Established, Relaying,
         Tracked, Running
<1>18. ASSUME NEW c \in Conns, Negotiated(c) PROVE SlotsExact' /\ SessionsExact'
  BY <1>18, SameCounts
     DEF Accounting, Negotiated, pools, Holding, Handshaking, Established, Relaying,
         Tracked, Running
<1>19. ASSUME NEW c \in Conns, NegotiationAborts(c) PROVE SlotsExact' /\ SessionsExact'
  BY <1>19, SameCounts
     DEF Accounting, NegotiationAborts, pools, Holding, Handshaking, Established, Relaying,
         Tracked, Running
<1>20. ASSUME NEW c \in Conns, NegotiationFails(c) PROVE SlotsExact' /\ SessionsExact'
  BY <1>20, SameCounts
     DEF Accounting, NegotiationFails, pools, Holding, Handshaking, Established, Relaying,
         Tracked, Running
<1>21. ASSUME NEW c \in Conns, Lookup(c) PROVE SlotsExact' /\ SessionsExact'
  BY <1>21, SameCounts
     DEF Accounting, Lookup, pools, Holding, Handshaking, Established, Relaying, Tracked,
         Running
<1>22. ASSUME NEW c \in Conns, DialOk(c) PROVE SlotsExact' /\ SessionsExact'
  BY <1>22, SameCounts
     DEF Accounting, DialOk, pools, Holding, Handshaking, Established, Relaying, Tracked,
         Running
<1>23. ASSUME NEW c \in Conns, DialFails(c) PROVE SlotsExact' /\ SessionsExact'
  BY <1>23, SameCounts
     DEF Accounting, DialFails, pools, Holding, Handshaking, Established, Relaying, Tracked,
         Running
<1>24. ASSUME NEW c \in Conns, Establish(c) PROVE SlotsExact' /\ SessionsExact'
  BY <1>24, SameCounts
     DEF Accounting, Establish, pools, Holding, Handshaking, Established, Relaying, Tracked,
         Running
<1>25. ASSUME NEW c \in Conns, ForwardFails(c) PROVE SlotsExact' /\ SessionsExact'
  BY <1>25, SameCounts
     DEF Accounting, ForwardFails, pools, Holding, Handshaking, Established, Relaying,
         Tracked, Running
<1>26. ASSUME NEW c \in Conns, IssueKey(c) PROVE SlotsExact' /\ SessionsExact'
  BY <1>26, SameCounts
     DEF Accounting, IssueKey, pools, Holding, Handshaking, Established, Relaying, Tracked,
         Running
<1>27. ASSUME NEW c \in Conns, TellKey(c) PROVE SlotsExact' /\ SessionsExact'
  BY <1>27, SameCounts
     DEF Accounting, TellKey, pools, Holding, Handshaking, Established, Relaying, Tracked,
         Running
<1>28. ASSUME NEW c \in Conns, Splice(c) PROVE SlotsExact' /\ SessionsExact'
  BY <1>28, SameCounts
     DEF Accounting, Splice, pools, Holding, Handshaking, Established, Relaying, Tracked,
         Running
<1>29. ASSUME NEW c \in Conns, BadMessage(c) PROVE SlotsExact' /\ SessionsExact'
  BY <1>29, SameCounts
     DEF Accounting, BadMessage, EndRelay, pools, Holding, Handshaking, Established,
         Relaying, Tracked, Running
<1>30. ASSUME NEW c \in Conns, ClientWriteFails(c) PROVE SlotsExact' /\ SessionsExact'
  BY <1>30, SameCounts
     DEF Accounting, ClientWriteFails, EndRelay, pools, Holding, Handshaking, Established,
         Relaying, Tracked, Running
<1>31. ASSUME NEW c \in Conns, BackendEOF(c) PROVE SlotsExact' /\ SessionsExact'
  BY <1>31, SameCounts
     DEF Accounting, BackendEOF, EndRelay, pools, Holding, Handshaking, Established,
         Relaying, Tracked, Running
<1>32. ASSUME NEW c \in Conns, CloseClient(c) PROVE SlotsExact' /\ SessionsExact'
  BY <1>32, SameCounts
     DEF Accounting, CloseClient, pools, Holding, Handshaking, Established, Relaying,
         Tracked, Running
<1>33. ASSUME NEW c \in Conns, UpstreamEnds(c) PROVE SlotsExact' /\ SessionsExact'
  BY <1>33, FrozenCounts DEF Accounting, UpstreamEnds, pools
<1>34. ASSUME NEW c \in Conns, RelayReturns(c) PROVE SlotsExact' /\ SessionsExact'
  BY <1>34, SameCounts
     DEF Accounting, RelayReturns, pools, Holding, Handshaking, Established, Relaying,
         Tracked, Running
<1>35. ASSUME NEW c \in Conns, CancelLookup(c) PROVE SlotsExact' /\ SessionsExact'
  BY <1>35, SameCounts
     DEF Accounting, CancelLookup, pools, Holding, Handshaking, Established, Relaying,
         Tracked, Running
<1>36. ASSUME NEW c \in Conns, DeliverCancel(c) PROVE SlotsExact' /\ SessionsExact'
  BY <1>36, SameCounts
     DEF Accounting, DeliverCancel, pools, Holding, Handshaking, Established, Relaying,
         Tracked, Running
<1>37. ASSUME NEW c \in Conns, DeliveryFails(c) PROVE SlotsExact' /\ SessionsExact'
  BY <1>37, SameCounts
     DEF Accounting, DeliveryFails, pools, Holding, Handshaking, Established, Relaying,
         Tracked, Running
<1>38. ASSUME NEW c \in Conns, ReleaseSlot(c) PROVE SlotsExact' /\ SessionsExact'
  <2>1. Goto(c, "unwinding", "closing")
    BY <1>38 DEF ReleaseSlot
  <2>places. /\ "unwinding" \in Holding /\ "closing" \notin Holding
        /\ "unwinding" \in Running /\ "closing" \in Running
    BY DEF Holding, Handshaking, Established, Relaying, Tracked, Running
  <2>2. /\ Cardinality(At(Holding)') = Cardinality(At(Holding)) - 1
        /\ Cardinality(At(Running)') = Cardinality(At(Running))
    BY <2>1, <2>places, MoveCount DEF Accounting
  <2>3. c \in At(Tracked) <=> "unwinding" \in Tracked
    BY <2>1 DEF Goto, At
  <2>4. At(Tracked)' = IF "closing" \in Tracked THEN At(Tracked) \cup {c} ELSE At(Tracked) \ {c}
    BY <2>1, MoveAt DEF Accounting
  <2> QED
    BY <1>38, <2>2, <2>3, <2>4
       DEF ReleaseSlot, Accounting, SlotsExact, SessionsExact, Holding, Handshaking,
           Established, Relaying, Tracked, Running
<1>39. ASSUME NEW c \in Conns, Untrack(c) PROVE SlotsExact' /\ SessionsExact'
  <2>1. PICK from \in {"refused", "closing"} : Goto(c, from, "closed")
    BY <1>39 DEF Untrack
  <2>places. /\ from \notin Holding /\ from \in Running
        /\ "closed" \notin Holding /\ "closed" \in Running /\ "closed" \notin Tracked
    BY <2>1 DEF Holding, Handshaking, Established, Relaying, Tracked, Running
  <2>2. /\ Cardinality(At(Holding)') = Cardinality(At(Holding))
        /\ Cardinality(At(Running)') = Cardinality(At(Running))
    BY <2>1, <2>places, MoveCount DEF Accounting
  <2>3. At(Tracked)' = At(Tracked) \ {c}
    BY <2>1, <2>places, MoveAt DEF Accounting
  <2> QED
    BY <1>39, <2>2, <2>3 DEF Untrack, Accounting, SlotsExact, SessionsExact
<1>40. ASSUME NEW c \in Conns, Done(c) PROVE SlotsExact' /\ SessionsExact'
  <2>1. Goto(c, "closed", "done")
    BY <1>40 DEF Done
  <2>places. /\ "closed" \notin Holding /\ "done" \notin Holding
        /\ "closed" \in Running /\ "done" \notin Running
    BY DEF Holding, Handshaking, Established, Relaying, Tracked, Running
  <2>2. /\ Cardinality(At(Holding)') = Cardinality(At(Holding))
        /\ Cardinality(At(Running)') = Cardinality(At(Running)) - 1
    BY <2>1, <2>places, MoveCount DEF Accounting
  <2>3. c \in At(Tracked) <=> "closed" \in Tracked
    BY <2>1 DEF Goto, At
  <2>4. At(Tracked)' = IF "done" \in Tracked THEN At(Tracked) \cup {c} ELSE At(Tracked) \ {c}
    BY <2>1, MoveAt DEF Accounting
  <2> QED
    BY <1>40, <2>2, <2>3, <2>4
       DEF Done, Accounting, SlotsExact, SessionsExact, Holding, Handshaking, Established,
           Relaying, Tracked, Running
<1>41. ASSUME NEW c \in Conns, UpstreamReads(c) PROVE SlotsExact' /\ SessionsExact'
  BY <1>41, FrozenCounts DEF Accounting, UpstreamReads, pools
<1>42. ASSUME NEW c \in Conns, UpstreamWrites(c) PROVE SlotsExact' /\ SessionsExact'
  BY <1>42, FrozenCounts DEF Accounting, UpstreamWrites, pools
<1>43. ASSUME NEW c \in Conns, CancelDials(c) PROVE SlotsExact' /\ SessionsExact'
  BY <1>43, SameCounts
     DEF Accounting, CancelDials, pools, Holding, Handshaking, Established, Relaying, Tracked,
         Running
<1> QED
  BY <1>1, <1>2, <1>3, <1>4, <1>5, <1>6, <1>7, <1>8, <1>9, <1>10, <1>11, <1>12,
     <1>13, <1>14, <1>15, <1>16, <1>17, <1>18, <1>19, <1>20, <1>21, <1>22, <1>23,
     <1>24, <1>25, <1>26, <1>27, <1>28, <1>29, <1>30, <1>31, <1>32, <1>33, <1>34,
     <1>35, <1>36, <1>37, <1>38, <1>39, <1>40, <1>41, <1>42, <1>43, Zenon
     DEF Next, Environment, Handler, Upstream, Server

\* The initial states satisfy the invariant.
LEMMA AccountingInit == Init => Accounting
<1> SUFFICES ASSUME Init PROVE Accounting
  OBVIOUS
<1>0. 0 \in 0..MaxConnections /\ 0 \in Nat
  BY ConstantsAssumption DEF ConstantsAssumption
<1>1. TypeOK
  BY <1>0, Zenon DEF Init, TypeOK, PCs
<1>2. At(Holding) = {} /\ At(Running) = {} /\ At(Tracked) = {}
  BY DEF Init, At, Holding, Handshaking, Established, Relaying, Tracked, Running
<1>3. SlotsExact /\ SessionsExact
  BY <1>2, FS_EmptySet DEF Init, SlotsExact, SessionsExact
<1>4. Wellformed
  BY DEF Init, Wellformed, BeforeRelay, Handshaking, Established, Relaying
<1> QED
  BY <1>1, <1>3, <1>4 DEF Accounting

\* A step that changes nothing keeps the invariant.
LEMMA AccountingStutter ==
    ASSUME Accounting, UNCHANGED vars
    PROVE  Accounting'
<1>1. TypeOK'
  BY DEF Accounting, TypeOK, vars, server, pools, ask, wire, link, keys, cancel
<1>2. SlotsExact' /\ SessionsExact'
  BY FrozenCounts DEF Accounting, vars
<1>3. Wellformed'
  BY DEF Accounting, Wellformed, vars, ask, link, keys
<1> QED
  BY <1>1, <1>2, <1>3 DEF Accounting

\* The types and the counters are right in every reachable state: no path through
\* serve, handle and relay leaks a slot, releases one twice, or leaves the
\* WaitGroup or activeConn out of step with the goroutines that run.
THEOREM AccountingHolds == Spec => []Accounting
<1>1. Accounting /\ [Next]_vars => Accounting'
  BY TypeStep, CountStep, WellformedStep, AccountingStutter DEF Accounting
<1> QED
  BY <1>1, AccountingInit, PTL DEF Spec

\* Every variable keeps its type.
THEOREM TypeCorrect == Spec => []TypeOK
<1>1. Accounting => TypeOK
  BY DEF Accounting
<1> QED
  BY <1>1, AccountingHolds, PTL

\* The slot channel holds one token per connection between acquireSlot and
\* releaseSlot, for any limit.
THEOREM SlotsCorrect == Spec => []SlotsExact
<1>1. Accounting => SlotsExact
  BY DEF Accounting
<1> QED
  BY <1>1, AccountingHolds, PTL

\* The WaitGroup that drain waits for, and the set it closes, are exact.
THEOREM SessionsCorrect == Spec => []SessionsExact
<1>1. Accounting => SessionsExact
  BY DEF Accounting
<1> QED
  BY <1>1, AccountingHolds, PTL

\* The gateway never has more backend connections open than MaxConnections.
THEOREM BackendLoadCorrect == Spec => []BackendLoadBounded
<1>1. Accounting => BackendLoadBounded
  <2> SUFFICES ASSUME Accounting, MaxConnections > 0
               PROVE  BackendLoadBounded
    BY DEF BackendLoadBounded
  <2> DEFINE Open == {c \in Conns : backend[c] \in {"open", "half"}}
  <2>1. Open \in SUBSET At(Holding)
    BY DEF Accounting, Wellformed, At, Holding, Handshaking, Established
  <2>2. IsFiniteSet(At(Holding)) /\ Cardinality(At(Holding)) \in Nat
    BY AtFinite
  <2>3. Cardinality(Open) <= Cardinality(At(Holding)) /\ Cardinality(Open) \in Nat
    BY <2>1, <2>2, FS_Subset, FS_CardinalityType
  <2>4. Cardinality(At(Holding)) <= MaxConnections
    BY ConstantsAssumption DEF Accounting, TypeOK, SlotsExact, ConstantsAssumption
  <2> QED
    BY <2>2, <2>3, <2>4, ConstantsAssumption DEF BackendLoadBounded, ConstantsAssumption
<1> QED
  BY <1>1, AccountingHolds, PTL

=============================================================================
