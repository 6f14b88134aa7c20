------------------------ MODULE GatewaySessionProofs ------------------------
(***************************************************************************)
(* What the end of a session leaves behind in Gateway: no open client after a*)
(* forced shutdown, and no entry in the cancel registry.                    *)
(***************************************************************************)
EXTENDS GatewayProofs

-----------------------------------------------------------------------------
(* Forced shutdown.                                                          *)

\* Draining without an accept error means the context is done, so no dial succeeds;
\* what drain's sweep missed has not dialled yet.
ForcedExact ==
    /\ srv \in {"draining", "forced"} /\ ~acceptErr => ctxDone
    /\ srv = "forced" /\ ~acceptErr =>
          \A c \in Conns : sock[c] => pc[c] \notin {"forwarding"} \cup Established

\* Every step keeps forced sessions closed.
LEMMA ForcedStep ==
    ASSUME Accounting, ForcedExact, Next
    PROVE  ForcedExact'
<1>1. CASE Shutdown
  BY <1>1 DEF Shutdown, ForcedExact, Established, Relaying, Accounting, TypeOK, server, wire
<1>2. CASE Publish
  BY <1>2 DEF Publish, ForcedExact, Established, Relaying, Accounting, TypeOK, server, wire
<1>3. CASE Listen
  BY <1>3 DEF Listen, ForcedExact, Established, Relaying, Accounting, TypeOK, server, wire
<1>4. CASE ListenFails
  BY <1>4
     DEF ListenFails, ForcedExact, Established, Relaying, Accounting, TypeOK, server, wire
<1>5. CASE CloseListener
  BY <1>5
     DEF CloseListener, ForcedExact, Established, Relaying, Accounting, TypeOK, server, wire
<1>6. CASE Backoff
  BY <1>6 DEF Backoff, ForcedExact, Established, Relaying, Accounting, TypeOK, server, wire
<1>7. CASE GraceExpires
  <2>1. \A x \in Conns : pc[x] \in {"forwarding"} \cup Established => x \in active
    BY DEF Accounting, SessionsExact, At, Tracked, Holding, Handshaking
  <2> QED
    BY <1>7, <2>1 DEF GraceExpires, ForcedExact, Accounting, TypeOK
<1>8. CASE StartReturns
  BY <1>8
     DEF StartReturns, ForcedExact, Established, Relaying, Accounting, TypeOK, server, wire
<1>9. ASSUME NEW e \in {"closed", "timeout", "fdLimit"}, AcceptError(e) PROVE ForcedExact'
  BY <1>9
     DEF AcceptError, ForcedExact, Established, Relaying, Accounting, TypeOK, server, wire
<1>10. ASSUME NEW c \in Conns, Connect(c) PROVE ForcedExact'
  BY <1>10
     DEF Connect, Goto, ForcedExact, Established, Relaying, Accounting, TypeOK, server, wire
<1>11. ASSUME NEW c \in Conns, HangUp(c) PROVE ForcedExact'
  BY <1>11 DEF HangUp, ForcedExact, Established, Relaying, Accounting, TypeOK, server, wire
<1>12. ASSUME NEW c \in Conns, BackendCloses(c) PROVE ForcedExact'
  BY <1>12
     DEF BackendCloses, ForcedExact, Established, Relaying, Accounting, TypeOK, server, wire
<1>13. ASSUME NEW c \in Conns, Expire(c) PROVE ForcedExact'
  BY <1>13 DEF Expire, ForcedExact, Established, Relaying, Accounting, TypeOK, server, wire
<1>14. ASSUME NEW c \in Conns, Accept(c) PROVE ForcedExact'
  BY <1>14
     DEF Accept, Goto, ForcedExact, Established, Relaying, Accounting, TypeOK, server, wire
<1>15. ASSUME NEW c \in Conns, Track(c) PROVE ForcedExact'
  BY <1>15
     DEF Track, Goto, ForcedExact, Established, Relaying, Accounting, TypeOK, server, wire
<1>16. ASSUME NEW c \in Conns, AcquireSlot(c) PROVE ForcedExact'
  BY <1>16
     DEF AcquireSlot, Goto, ForcedExact, Established, Relaying, Accounting, TypeOK, server,
         wire
<1>17. ASSUME NEW c \in Conns, RefuseSlot(c) PROVE ForcedExact'
  BY <1>17
     DEF RefuseSlot, Goto, ForcedExact, Established, Relaying, Accounting, TypeOK, server,
         wire
<1>18. ASSUME NEW c \in Conns, Negotiated(c) PROVE ForcedExact'
  BY <1>18
     DEF Negotiated, Goto, ForcedExact, Established, Relaying, Accounting, TypeOK, server,
         wire
<1>19. ASSUME NEW c \in Conns, NegotiationAborts(c) PROVE ForcedExact'
  BY <1>19
     DEF NegotiationAborts, Goto, ForcedExact, Established, Relaying, Accounting, TypeOK,
         server, wire
<1>20. ASSUME NEW c \in Conns, NegotiationFails(c) PROVE ForcedExact'
  BY <1>20
     DEF NegotiationFails, Goto, ForcedExact, Established, Relaying, Accounting, TypeOK,
         server, wire
<1>21. ASSUME NEW c \in Conns, Lookup(c) PROVE ForcedExact'
  BY <1>21
     DEF Lookup, Goto, ForcedExact, Established, Relaying, Accounting, TypeOK, server, wire
<1>22. ASSUME NEW c \in Conns, DialOk(c) PROVE ForcedExact'
  BY <1>22
     DEF DialOk, Goto, ForcedExact, Established, Relaying, Accounting, TypeOK, server, wire
<1>23. ASSUME NEW c \in Conns, DialFails(c) PROVE ForcedExact'
  BY <1>23
     DEF DialFails, Goto, ForcedExact, Established, Relaying, Accounting, TypeOK, server,
         wire
<1>24. ASSUME NEW c \in Conns, Establish(c) PROVE ForcedExact'
  BY <1>24
     DEF Establish, Goto, ForcedExact, Established, Relaying, Accounting, TypeOK, server,
         wire
<1>25. ASSUME NEW c \in Conns, ForwardFails(c) PROVE ForcedExact'
  BY <1>25
     DEF ForwardFails, Goto, ForcedExact, Established, Relaying, Accounting, TypeOK, server,
         wire
<1>26. ASSUME NEW c \in Conns, IssueKey(c) PROVE ForcedExact'
  BY <1>26
     DEF IssueKey, Goto, ForcedExact, Established, Relaying, Accounting, TypeOK, server,
         wire
<1>27. ASSUME NEW c \in Conns, TellKey(c) PROVE ForcedExact'
  BY <1>27
     DEF TellKey, Goto, ForcedExact, Established, Relaying, Accounting, TypeOK, server, wire
<1>28. ASSUME NEW c \in Conns, Splice(c) PROVE ForcedExact'
  BY <1>28
     DEF Splice, Goto, ForcedExact, Established, Relaying, Accounting, TypeOK, server, wire
<1>29. ASSUME NEW c \in Conns, BadMessage(c) PROVE ForcedExact'
  BY <1>29
     DEF BadMessage, Goto, EndRelay, ForcedExact, Established, Relaying, Accounting, TypeOK,
         server, wire
<1>30. ASSUME NEW c \in Conns, ClientWriteFails(c) PROVE ForcedExact'
  BY <1>30
     DEF ClientWriteFails, Goto, EndRelay, ForcedExact, Established, Relaying, Accounting,
         TypeOK, server, wire
<1>31. ASSUME NEW c \in Conns, BackendEOF(c) PROVE ForcedExact'
  BY <1>31
     DEF BackendEOF, Goto, EndRelay, ForcedExact, Established, Relaying, Accounting, TypeOK,
         server, wire
<1>32. ASSUME NEW c \in Conns, CloseClient(c) PROVE ForcedExact'
  BY <1>32
     DEF CloseClient, Goto, ForcedExact, Established, Relaying, Accounting, TypeOK, server,
         wire
<1>33. ASSUME NEW c \in Conns, UpstreamEnds(c) PROVE ForcedExact'
  BY <1>33
     DEF UpstreamEnds, ForcedExact, Established, Relaying, Accounting, TypeOK, server, wire
<1>34. ASSUME NEW c \in Conns, RelayReturns(c) PROVE ForcedExact'
  BY <1>34
     DEF RelayReturns, Goto, ForcedExact, Established, Relaying, Accounting, TypeOK, server,
         wire
<1>35. ASSUME NEW c \in Conns, CancelLookup(c) PROVE ForcedExact'
  BY <1>35
     DEF CancelLookup, Goto, ForcedExact, Established, Relaying, Accounting, TypeOK, server,
         wire
<1>36. ASSUME NEW c \in Conns, DeliverCancel(c) PROVE ForcedExact'
  BY <1>36
     DEF DeliverCancel, Goto, ForcedExact, Established, Relaying, Accounting, TypeOK,
         server, wire
<1>37. ASSUME NEW c \in Conns, DeliveryFails(c) PROVE ForcedExact'
  BY <1>37
     DEF DeliveryFails, Goto, ForcedExact, Established, Relaying, Accounting, TypeOK,
         server, wire
<1>38. ASSUME NEW c \in Conns, ReleaseSlot(c) PROVE ForcedExact'
  BY <1>38
     DEF ReleaseSlot, Goto, ForcedExact, Established, Relaying, Accounting, TypeOK, server,
         wire
<1>39. ASSUME NEW c \in Conns, Untrack(c) PROVE ForcedExact'
  BY <1>39
     DEF Untrack, Goto, ForcedExact, Established, Relaying, Accounting, TypeOK, server, wire
<1>40. ASSUME NEW c \in Conns, Done(c) PROVE ForcedExact'
  BY <1>40
     DEF Done, Goto, ForcedExact, Established, Relaying, Accounting, TypeOK, server, wire
<1>41. ASSUME NEW c \in Conns, UpstreamReads(c) PROVE ForcedExact'
  BY <1>41
     DEF UpstreamReads, ForcedExact, Established, Relaying, Accounting, TypeOK, server, wire
<1>42. ASSUME NEW c \in Conns, UpstreamWrites(c) PROVE ForcedExact'
  BY <1>42
     DEF UpstreamWrites, ForcedExact, Established, Relaying, Accounting, TypeOK, server, wire
<1>43. ASSUME NEW c \in Conns, CancelDials(c) PROVE ForcedExact'
  BY <1>43
     DEF CancelDials, Goto, ForcedExact, Established, Relaying, Accounting, TypeOK, server, wire
<1> QED
  BY <1>1, <1>2, <1>3, <1>4, <1>5, <1>6, <1>7, <1>8, <1>9, <1>10, <1>11, <1>12,
     <1>13, <1>14, <1>15, <1>16, <1>17, <1>18, <1>19, <1>20, <1>21, <1>22, <1>23,
     <1>24, <1>25, <1>26, <1>27, <1>28, <1>29, <1>30, <1>31, <1>32, <1>33, <1>34,
     <1>35, <1>36, <1>37, <1>38, <1>39, <1>40, <1>41, <1>42, <1>43, Zenon
     DEF Next, Environment, Handler, Upstream, Server

\* Once drain has force-closed, no established session has a usable client
\* connection, whichever step each session was at when the sweep ran.
THEOREM ForcedClosed == Spec => []ForcedSessionsClosed
<1>1. Init => ForcedExact
  BY DEF Init, ForcedExact
<1>2. Accounting /\ ForcedExact /\ [Next]_vars => ForcedExact'
  <2>1. ASSUME ForcedExact, UNCHANGED vars PROVE ForcedExact'
    BY <2>1 DEF ForcedExact, vars, server, wire
  <2> QED
    BY <2>1, ForcedStep
<1>3. ForcedExact => ForcedSessionsClosed
  BY DEF ForcedExact, ForcedSessionsClosed, At
<1> QED
  BY <1>1, <1>2, <1>3, AccountingHolds, PTL DEF Spec

-----------------------------------------------------------------------------
(* The cancel registry.                                                      *)

\* A step that leaves keys, entries and the relaying sessions alone keeps the
\* registry exact.
LEMMA RegistryFrame ==
    ASSUME RegistryExact, UNCHANGED <<key, bkey, entries>>,
           \A c \in Conns : pc'[c] \in Relaying <=> pc[c] \in Relaying,
           \A c \in Conns : pc[c] \in Relaying => route'[c] = route[c]
    PROVE  RegistryExact'
  BY DEF RegistryExact, At, EntryOf

\* relayFromBackend's deferred release removes the session's entry and no other.
LEMMA EndRelayRegistry ==
    ASSUME Accounting, RegistryExact, NEW c \in Conns, NEW from \in Relaying, EndRelay(c, from)
    PROVE  RegistryExact'
  BY ConstantsAssumption
     DEF ConstantsAssumption, Accounting, TypeOK, RegistryExact, EndRelay, Goto, At,
         EntryOf,
         Relaying, link

\* Every step keeps the cancel registry exact.
LEMMA RegistryStep ==
    ASSUME Accounting, RegistryExact, Next
    PROVE  RegistryExact'
<1>1. CASE Shutdown
  BY <1>1, RegistryFrame DEF Shutdown, Relaying, Accounting, TypeOK, keys, link
<1>2. CASE Publish
  BY <1>2, RegistryFrame DEF Publish, Relaying, Accounting, TypeOK, keys, link
<1>3. CASE Listen
  BY <1>3, RegistryFrame DEF Listen, Relaying, Accounting, TypeOK, keys, link
<1>4. CASE ListenFails
  BY <1>4, RegistryFrame DEF ListenFails, Relaying, Accounting, TypeOK, keys, link
<1>5. CASE CloseListener
  BY <1>5, RegistryFrame DEF CloseListener, Relaying, Accounting, TypeOK, keys, link
<1>6. CASE Backoff
  BY <1>6, RegistryFrame DEF Backoff, Relaying, Accounting, TypeOK, keys, link
<1>7. CASE GraceExpires
  BY <1>7, RegistryFrame DEF GraceExpires, Relaying, Accounting, TypeOK, keys, link
<1>8. CASE StartReturns
  BY <1>8, RegistryFrame DEF StartReturns, Relaying, Accounting, TypeOK, keys, link
<1>9. ASSUME NEW e \in {"closed", "timeout", "fdLimit"}, AcceptError(e) PROVE RegistryExact'
  BY <1>9, RegistryFrame DEF AcceptError, Relaying, Accounting, TypeOK, keys, link
<1>10. ASSUME NEW c \in Conns, Connect(c) PROVE RegistryExact'
  BY <1>10, RegistryFrame DEF Connect, Goto, Relaying, Accounting, TypeOK, keys, link
<1>11. ASSUME NEW c \in Conns, HangUp(c) PROVE RegistryExact'
  BY <1>11, RegistryFrame DEF HangUp, Relaying, Accounting, TypeOK, keys, link
<1>12. ASSUME NEW c \in Conns, BackendCloses(c) PROVE RegistryExact'
  BY <1>12, RegistryFrame DEF BackendCloses, Relaying, Accounting, TypeOK, keys, link
<1>13. ASSUME NEW c \in Conns, Expire(c) PROVE RegistryExact'
  BY <1>13, RegistryFrame DEF Expire, Relaying, Accounting, TypeOK, keys, link
<1>14. ASSUME NEW c \in Conns, Accept(c) PROVE RegistryExact'
  BY <1>14, RegistryFrame DEF Accept, Goto, Relaying, Accounting, TypeOK, keys, link
<1>15. ASSUME NEW c \in Conns, Track(c) PROVE RegistryExact'
  BY <1>15, RegistryFrame DEF Track, Goto, Relaying, Accounting, TypeOK, keys, link
<1>16. ASSUME NEW c \in Conns, AcquireSlot(c) PROVE RegistryExact'
  BY <1>16, RegistryFrame DEF AcquireSlot, Goto, Relaying, Accounting, TypeOK, keys, link
<1>17. ASSUME NEW c \in Conns, RefuseSlot(c) PROVE RegistryExact'
  BY <1>17, RegistryFrame DEF RefuseSlot, Goto, Relaying, Accounting, TypeOK, keys, link
<1>18. ASSUME NEW c \in Conns, Negotiated(c) PROVE RegistryExact'
  BY <1>18, RegistryFrame DEF Negotiated, Goto, Relaying, Accounting, TypeOK, keys, link
<1>19. ASSUME NEW c \in Conns, NegotiationAborts(c) PROVE RegistryExact'
  BY <1>19, RegistryFrame
     DEF NegotiationAborts, Goto, Relaying, Accounting, TypeOK, keys, link
<1>20. ASSUME NEW c \in Conns, NegotiationFails(c) PROVE RegistryExact'
  BY <1>20, RegistryFrame
     DEF NegotiationFails, Goto, Relaying, Accounting, TypeOK, keys, link
<1>21. ASSUME NEW c \in Conns, Lookup(c) PROVE RegistryExact'
  BY <1>21, RegistryFrame DEF Lookup, Goto, Relaying, Accounting, TypeOK, keys, link
<1>22. ASSUME NEW c \in Conns, DialOk(c) PROVE RegistryExact'
  BY <1>22, RegistryFrame DEF DialOk, Goto, Relaying, Accounting, TypeOK, keys, link
<1>23. ASSUME NEW c \in Conns, DialFails(c) PROVE RegistryExact'
  BY <1>23, RegistryFrame DEF DialFails, Goto, Relaying, Accounting, TypeOK, keys, link
<1>24. ASSUME NEW c \in Conns, Establish(c) PROVE RegistryExact'
  BY <1>24 DEF Establish, Goto, Accounting, TypeOK, Wellformed, BeforeRelay, Handshaking,
     RegistryExact, At, EntryOf, Relaying, keys, link
<1>25. ASSUME NEW c \in Conns, ForwardFails(c) PROVE RegistryExact'
  BY <1>25, RegistryFrame DEF ForwardFails, Goto, Relaying, Accounting, TypeOK, keys, link
<1>26. ASSUME NEW c \in Conns, IssueKey(c) PROVE RegistryExact'
  <2>1. PICK k \in Keys, b \in BackendKeys :
              /\ entries[k] = None
              /\ key' = [key EXCEPT ![c] = k]
              /\ bkey' = [bkey EXCEPT ![c] = b]
              /\ entries' = [entries EXCEPT ![k] = [addr |-> route[c], key |-> b]]
    BY <1>26, Zenon DEF IssueKey
  <2>2. key[c] = None /\ k # None /\ UNCHANGED route
    BY <1>26, ConstantsAssumption DEF IssueKey, link, ConstantsAssumption
  <2>3. At(Relaying)' = At(Relaying) /\ c \in At(Relaying)
    BY <1>26 DEF IssueKey, Goto, Accounting, TypeOK, At, Relaying
  <2>4. \A d \in At(Relaying) : d \in Conns /\ (key[d] # None => key[d] \in Keys /\ key[d] # k)
    <3>1. \A d \in Conns : key[d] # None => key[d] \in Keys /\ EntryOf(d) \in Entry
      BY DEF Accounting, TypeOK, Wellformed, EntryOf, Entry
    <3> QED
      BY <2>1, <3>1, ConstantsAssumption DEF RegistryExact, At, ConstantsAssumption
  <2>5. \A d \in At(Relaying)' : key'[d] # None => entries'[key'[d]] = EntryOf(d)'
    BY <2>1, <2>2, <2>3, <2>4 DEF RegistryExact, EntryOf, Accounting, TypeOK
  <2>6. \A x \in Keys : entries'[x] # None => \E d \in At(Relaying)' : key'[d] = x
    BY <2>1, <2>2, <2>3, <2>4, ConstantsAssumption
       DEF RegistryExact, Accounting, TypeOK, ConstantsAssumption
  <2>7. \A d, x \in At(Relaying)' : key'[d] # None /\ key'[d] = key'[x] => d = x
    BY <2>1, <2>2, <2>3, <2>4 DEF RegistryExact, Accounting, TypeOK
  <2> QED
    BY <2>5, <2>6, <2>7 DEF RegistryExact
<1>27. ASSUME NEW c \in Conns, TellKey(c) PROVE RegistryExact'
  BY <1>27, RegistryFrame DEF TellKey, Goto, Relaying, Accounting, TypeOK, keys, link
<1>28. ASSUME NEW c \in Conns, Splice(c) PROVE RegistryExact'
  BY <1>28, RegistryFrame DEF Splice, Goto, Relaying, Accounting, TypeOK, keys, link
<1>29. ASSUME NEW c \in Conns, BadMessage(c) PROVE RegistryExact'
  BY <1>29, EndRelayRegistry DEF BadMessage, Relaying
<1>30. ASSUME NEW c \in Conns, ClientWriteFails(c) PROVE RegistryExact'
  BY <1>30, EndRelayRegistry DEF ClientWriteFails, Relaying
<1>31. ASSUME NEW c \in Conns, BackendEOF(c) PROVE RegistryExact'
  BY <1>31, EndRelayRegistry DEF BackendEOF, Relaying
<1>32. ASSUME NEW c \in Conns, CloseClient(c) PROVE RegistryExact'
  BY <1>32, RegistryFrame DEF CloseClient, Goto, Relaying, Accounting, TypeOK, keys, link
<1>33. ASSUME NEW c \in Conns, UpstreamEnds(c) PROVE RegistryExact'
  BY <1>33, RegistryFrame DEF UpstreamEnds, Relaying, Accounting, TypeOK, keys, link
<1>34. ASSUME NEW c \in Conns, RelayReturns(c) PROVE RegistryExact'
  BY <1>34, RegistryFrame DEF RelayReturns, Goto, Relaying, Accounting, TypeOK, keys, link
<1>35. ASSUME NEW c \in Conns, CancelLookup(c) PROVE RegistryExact'
  BY <1>35, RegistryFrame DEF CancelLookup, Goto, Relaying, Accounting, TypeOK, keys, link
<1>36. ASSUME NEW c \in Conns, DeliverCancel(c) PROVE RegistryExact'
  BY <1>36, RegistryFrame DEF DeliverCancel, Goto, Relaying, Accounting, TypeOK, keys, link
<1>37. ASSUME NEW c \in Conns, DeliveryFails(c) PROVE RegistryExact'
  BY <1>37, RegistryFrame DEF DeliveryFails, Goto, Relaying, Accounting, TypeOK, keys, link
<1>38. ASSUME NEW c \in Conns, ReleaseSlot(c) PROVE RegistryExact'
  BY <1>38, RegistryFrame DEF ReleaseSlot, Goto, Relaying, Accounting, TypeOK, keys, link
<1>39. ASSUME NEW c \in Conns, Untrack(c) PROVE RegistryExact'
  BY <1>39, RegistryFrame DEF Untrack, Goto, Relaying, Accounting, TypeOK, keys, link
<1>40. ASSUME NEW c \in Conns, Done(c) PROVE RegistryExact'
  BY <1>40, RegistryFrame DEF Done, Goto, Relaying, Accounting, TypeOK, keys, link
<1>41. ASSUME NEW c \in Conns, UpstreamReads(c) PROVE RegistryExact'
  BY <1>41, RegistryFrame DEF UpstreamReads, Relaying, Accounting, TypeOK, keys, link
<1>42. ASSUME NEW c \in Conns, UpstreamWrites(c) PROVE RegistryExact'
  BY <1>42, RegistryFrame DEF UpstreamWrites, Relaying, Accounting, TypeOK, keys, link
<1>43. ASSUME NEW c \in Conns, CancelDials(c) PROVE RegistryExact'
  BY <1>43, RegistryFrame DEF CancelDials, Goto, Relaying, Accounting, TypeOK, keys, link
<1> QED
  BY <1>1, <1>2, <1>3, <1>4, <1>5, <1>6, <1>7, <1>8, <1>9, <1>10, <1>11, <1>12,
     <1>13, <1>14, <1>15, <1>16, <1>17, <1>18, <1>19, <1>20, <1>21, <1>22, <1>23,
     <1>24, <1>25, <1>26, <1>27, <1>28, <1>29, <1>30, <1>31, <1>32, <1>33, <1>34,
     <1>35, <1>36, <1>37, <1>38, <1>39, <1>40, <1>41, <1>42, <1>43, Zenon
     DEF Next, Environment, Handler, Upstream, Server

\* The cancel registry mirrors the relaying sessions: a key is registered exactly
\* while its session relays, leads to that session's backend, and is never shared.
THEOREM RegistryCorrect == Spec => []RegistryExact
<1>1. Init => RegistryExact
  BY DEF Init, RegistryExact, At, Relaying
<1>2. Accounting /\ RegistryExact /\ [Next]_vars => RegistryExact'
  <2>1. ASSUME RegistryExact, UNCHANGED vars PROVE RegistryExact'
    BY <2>1, RegistryFrame, Zenon DEF vars, keys, link
  <2> QED
    BY <2>1, RegistryStep, Zenon
<1> QED
  BY <1>1, <1>2, AccountingHolds, PTL DEF Spec

=============================================================================
