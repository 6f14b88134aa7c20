------------------------- MODULE GatewayShapeProofs -------------------------
(***************************************************************************)
(* The shape of a connection, and that every step of Gateway keeps it: the   *)
(* place of serve and relay in their code decides which of the connection's  *)
(* variables have values.                                                    *)
(***************************************************************************)
EXTENDS Gateway, FiniteSetTheorems, TLAPS

\* serve has not reached relay, or never will.
BeforeRelay == {"none", "backlog", "spawned", "tracked"} \cup Handshaking

\* Facts about one connection on which the types of later reads rest: a client
\* asks for something, a told key exists, a session being dialled has a route.
Wellformed ==
    \A c \in Conns :
        /\ told[c] \/ pc[c] = "keyed" => key[c] # None
        /\ key[c] # None => bkey[c] # None /\ route[c] # None
        /\ pc[c] # "none" /\ target[c] = None => db[c] # None
        /\ target[c] # None => told[target[c]]
        /\ pc[c] = "cancelling" => target[c] # None
        /\ pc[c] = "lookup" => target[c] = None
        /\ pc[c] \in {"dialing", "forwarding"} \cup Established => route[c] # None
        /\ pc[c] \in BeforeRelay => key[c] = None
        /\ backend[c] \in {"open", "half"} =>
              pc[c] \in {"forwarding", "sending"} \cup Established

\* The inductive invariant for types and counters: releaseSlot and Done keep their
\* counters non-negative only because the counters are exact.
Accounting == TypeOK /\ SlotsExact /\ SessionsExact /\ Wellformed

-----------------------------------------------------------------------------
\* Every step keeps every connection well-formed.
LEMMA WellformedStep ==
    ASSUME Accounting, Next
    PROVE  Wellformed'
<1>1. CASE Shutdown
  BY <1>1, ConstantsAssumption
     DEF Shutdown, ConstantsAssumption, Accounting, TypeOK, Wellformed, BeforeRelay,
         Handshaking, Established, Relaying, server, pools, ask, wire, link, keys, cancel
<1>2. CASE Publish
  BY <1>2, ConstantsAssumption
     DEF Publish, ConstantsAssumption, Accounting, TypeOK, Wellformed, BeforeRelay,
         Handshaking, Established, Relaying, server, pools, ask, wire, link, keys, cancel
<1>3. CASE Listen
  BY <1>3, ConstantsAssumption
     DEF Listen, ConstantsAssumption, Accounting, TypeOK, Wellformed, BeforeRelay,
         Handshaking, Established, Relaying, server, pools, ask, wire, link, keys, cancel
<1>4. CASE ListenFails
  BY <1>4, ConstantsAssumption
     DEF ListenFails, ConstantsAssumption, Accounting, TypeOK, Wellformed, BeforeRelay,
         Handshaking, Established, Relaying, server, pools, ask, wire, link, keys, cancel
<1>5. CASE CloseListener
  BY <1>5, ConstantsAssumption
     DEF CloseListener, ConstantsAssumption, Accounting, TypeOK, Wellformed, BeforeRelay,
         Handshaking, Established, Relaying, server, pools, ask, wire, link, keys, cancel
<1>6. CASE Backoff
  BY <1>6, ConstantsAssumption
     DEF Backoff, ConstantsAssumption, Accounting, TypeOK, Wellformed, BeforeRelay,
         Handshaking, Established, Relaying, server, pools, ask, wire, link, keys, cancel
<1>7. CASE GraceExpires
  BY <1>7, ConstantsAssumption
     DEF GraceExpires, ConstantsAssumption, Accounting, TypeOK, Wellformed, BeforeRelay,
         Handshaking, Established, Relaying, server, pools, ask, wire, link, keys, cancel
<1>8. CASE StartReturns
  BY <1>8, ConstantsAssumption
     DEF StartReturns, ConstantsAssumption, Accounting, TypeOK, Wellformed, BeforeRelay,
         Handshaking, Established, Relaying, server, pools, ask, wire, link, keys, cancel
<1>9. ASSUME NEW e \in {"closed", "timeout", "fdLimit"}, AcceptError(e) PROVE Wellformed'
  BY <1>9, ConstantsAssumption
     DEF AcceptError, ConstantsAssumption, Accounting, TypeOK, Wellformed, BeforeRelay,
         Handshaking, Established, Relaying, server, pools, ask, wire, link, keys, cancel
<1>10. ASSUME NEW c \in Conns, Connect(c) PROVE Wellformed'
  BY <1>10, ConstantsAssumption
     DEF Connect, Goto, ConstantsAssumption, Accounting, TypeOK, Wellformed, BeforeRelay,
         Handshaking, Established, Relaying, server, pools, ask, wire, link, keys, cancel
<1>11. ASSUME NEW c \in Conns, HangUp(c) PROVE Wellformed'
  BY <1>11, ConstantsAssumption
     DEF HangUp, ConstantsAssumption, Accounting, TypeOK, Wellformed, BeforeRelay,
         Handshaking, Established, Relaying, server, pools, ask, wire, link, keys, cancel
<1>12. ASSUME NEW c \in Conns, BackendCloses(c) PROVE Wellformed'
  BY <1>12, ConstantsAssumption
     DEF BackendCloses, ConstantsAssumption, Accounting, TypeOK, Wellformed, BeforeRelay,
         Handshaking, Established, Relaying, server, pools, ask, wire, link, keys, cancel
<1>13. ASSUME NEW c \in Conns, Expire(c) PROVE Wellformed'
  BY <1>13, ConstantsAssumption
     DEF Expire, ConstantsAssumption, Accounting, TypeOK, Wellformed, BeforeRelay,
         Handshaking, Established, Relaying, server, pools, ask, wire, link, keys, cancel
<1>14. ASSUME NEW c \in Conns, Accept(c) PROVE Wellformed'
  BY <1>14, ConstantsAssumption
     DEF Accept, Goto, ConstantsAssumption, Accounting, TypeOK, Wellformed, BeforeRelay,
         Handshaking, Established, Relaying, server, pools, ask, wire, link, keys, cancel
<1>15. ASSUME NEW c \in Conns, Track(c) PROVE Wellformed'
  BY <1>15, ConstantsAssumption
     DEF Track, Goto, ConstantsAssumption, Accounting, TypeOK, Wellformed, BeforeRelay,
         Handshaking, Established, Relaying, server, pools, ask, wire, link, keys, cancel
<1>16. ASSUME NEW c \in Conns, AcquireSlot(c) PROVE Wellformed'
  BY <1>16, ConstantsAssumption
     DEF AcquireSlot, Goto, ConstantsAssumption, Accounting, TypeOK, Wellformed,
         BeforeRelay, Handshaking, Established, Relaying, server, pools, ask, wire, link,
         keys, cancel
<1>17. ASSUME NEW c \in Conns, RefuseSlot(c) PROVE Wellformed'
  BY <1>17, ConstantsAssumption
     DEF RefuseSlot, Goto, ConstantsAssumption, Accounting, TypeOK, Wellformed, BeforeRelay,
         Handshaking, Established, Relaying, server, pools, ask, wire, link, keys, cancel
<1>18. ASSUME NEW c \in Conns, Negotiated(c) PROVE Wellformed'
  BY <1>18, ConstantsAssumption
     DEF Negotiated, Goto, ConstantsAssumption, Accounting, TypeOK, Wellformed, BeforeRelay,
         Handshaking, Established, Relaying, server, pools, ask, wire, link, keys, cancel
<1>19. ASSUME NEW c \in Conns, NegotiationAborts(c) PROVE Wellformed'
  BY <1>19, ConstantsAssumption
     DEF NegotiationAborts, Goto, ConstantsAssumption, Accounting, TypeOK, Wellformed,
         BeforeRelay, Handshaking, Established, Relaying, server, pools, ask, wire, link,
         keys, cancel
<1>20. ASSUME NEW c \in Conns, NegotiationFails(c) PROVE Wellformed'
  BY <1>20, ConstantsAssumption
     DEF NegotiationFails, Goto, ConstantsAssumption, Accounting, TypeOK, Wellformed,
         BeforeRelay, Handshaking, Established, Relaying, server, pools, ask, wire, link,
         keys, cancel
<1>21. ASSUME NEW c \in Conns, Lookup(c) PROVE Wellformed'
  BY <1>21, ConstantsAssumption
     DEF Lookup, Goto, ConstantsAssumption, Accounting, TypeOK, Wellformed, BeforeRelay,
         Handshaking, Established, Relaying, server, pools, ask, wire, link, keys, cancel
<1>22. ASSUME NEW c \in Conns, DialOk(c) PROVE Wellformed'
  BY <1>22, ConstantsAssumption
     DEF DialOk, Goto, ConstantsAssumption, Accounting, TypeOK, Wellformed, BeforeRelay,
         Handshaking, Established, Relaying, server, pools, ask, wire, link, keys, cancel
<1>23. ASSUME NEW c \in Conns, DialFails(c) PROVE Wellformed'
  BY <1>23, ConstantsAssumption
     DEF DialFails, Goto, ConstantsAssumption, Accounting, TypeOK, Wellformed, BeforeRelay,
         Handshaking, Established, Relaying, server, pools, ask, wire, link, keys, cancel
<1>24. ASSUME NEW c \in Conns, Establish(c) PROVE Wellformed'
  BY <1>24, ConstantsAssumption
     DEF Establish, Goto, ConstantsAssumption, Accounting, TypeOK, Wellformed, BeforeRelay,
         Handshaking, Established, Relaying, server, pools, ask, wire, link, keys, cancel
<1>25. ASSUME NEW c \in Conns, ForwardFails(c) PROVE Wellformed'
  BY <1>25, ConstantsAssumption
     DEF ForwardFails, Goto, ConstantsAssumption, Accounting, TypeOK, Wellformed,
         BeforeRelay, Handshaking, Established, Relaying, server, pools, ask, wire, link,
         keys, cancel
<1>26. ASSUME NEW c \in Conns, IssueKey(c) PROVE Wellformed'
  <2>1. PICK k \in Keys, b \in BackendKeys :
              key' = [key EXCEPT ![c] = k] /\ bkey' = [bkey EXCEPT ![c] = b]
    BY <1>26, Zenon DEF IssueKey
  <2>2. k # None /\ b # None /\ route[c] # None /\ pc[c] = "framing"
    BY <1>26, ConstantsAssumption
       DEF IssueKey, Goto, ConstantsAssumption, Accounting, Wellformed, Established,
           Relaying
  <2>3. pc' = [pc EXCEPT ![c] = "keyed"] /\ UNCHANGED <<told, ask, link>>
    BY <1>26 DEF IssueKey, Goto
  <2>4. \A d \in Conns : d # c => pc'[d] = pc[d] /\ key'[d] = key[d] /\ bkey'[d] = bkey[d]
    BY <2>1, <2>3 DEF Accounting, TypeOK
  <2>5. pc'[c] = "keyed" /\ key'[c] = k /\ bkey'[c] = b
    BY <2>1, <2>3 DEF Accounting, TypeOK
  <2>6. UNCHANGED <<told, db, target, route, backend>>
    BY <2>3 DEF ask, link
  <2>7. ASSUME NEW d \in Conns
        PROVE  /\ told'[d] \/ pc'[d] = "keyed" => key'[d] # None
               /\ key'[d] # None => bkey'[d] # None /\ route'[d] # None
               /\ pc'[d] # "none" /\ target'[d] = None => db'[d] # None
               /\ target'[d] # None => told'[target'[d]]
               /\ pc'[d] = "cancelling" => target'[d] # None
               /\ pc'[d] = "lookup" => target'[d] = None
               /\ pc'[d] \in {"dialing", "forwarding"} \cup Established => route'[d] # None
               /\ pc'[d] \in BeforeRelay => key'[d] = None
               /\ backend'[d] \in {"open", "half"} =>
                     pc'[d] \in {"forwarding", "sending"} \cup Established
    <3>1. CASE d = c
      <4>1. "keyed" \notin BeforeRelay /\ "keyed" \in Established
        BY DEF BeforeRelay, Handshaking, Established, Relaying
      <4>2. target[c] = None => db[c] # None
        BY <2>2 DEF Accounting, Wellformed
      <4>3. target[c] # None => told[target[c]]
        BY DEF Accounting, Wellformed
      <4> QED
        BY <2>2, <2>5, <2>6, <3>1, <4>1, <4>2, <4>3
    <3>2. CASE d # c
      BY <2>4, <2>6, <3>2 DEF Accounting, Wellformed
    <3> QED
      BY <3>1, <3>2
  <2> QED
    BY <2>7 DEF Wellformed
<1>27. ASSUME NEW c \in Conns, TellKey(c) PROVE Wellformed'
  BY <1>27, ConstantsAssumption
     DEF TellKey, Goto, ConstantsAssumption, Accounting, TypeOK, Wellformed, BeforeRelay,
         Handshaking, Established, Relaying, server, pools, ask, wire, link, keys, cancel
<1>28. ASSUME NEW c \in Conns, Splice(c) PROVE Wellformed'
  BY <1>28, ConstantsAssumption
     DEF Splice, Goto, ConstantsAssumption, Accounting, TypeOK, Wellformed, BeforeRelay,
         Handshaking, Established, Relaying, server, pools, ask, wire, link, keys, cancel
<1>29. ASSUME NEW c \in Conns, BadMessage(c) PROVE Wellformed'
  BY <1>29, ConstantsAssumption
     DEF BadMessage, Goto, EndRelay, ConstantsAssumption, Accounting, TypeOK, Wellformed,
         BeforeRelay, Handshaking, Established, Relaying, server, pools, ask, wire, link,
         keys, cancel
<1>30. ASSUME NEW c \in Conns, ClientWriteFails(c) PROVE Wellformed'
  BY <1>30, ConstantsAssumption
     DEF ClientWriteFails, Goto, EndRelay, ConstantsAssumption, Accounting, TypeOK,
         Wellformed, BeforeRelay, Handshaking, Established, Relaying, server, pools, ask,
         wire, link, keys, cancel
<1>31. ASSUME NEW c \in Conns, BackendEOF(c) PROVE Wellformed'
  BY <1>31, ConstantsAssumption
     DEF BackendEOF, Goto, EndRelay, ConstantsAssumption, Accounting, TypeOK, Wellformed,
         BeforeRelay, Handshaking, Established, Relaying, server, pools, ask, wire, link,
         keys, cancel
<1>32. ASSUME NEW c \in Conns, CloseClient(c) PROVE Wellformed'
  BY <1>32, ConstantsAssumption
     DEF CloseClient, Goto, ConstantsAssumption, Accounting, TypeOK, Wellformed,
         BeforeRelay, Handshaking, Established, Relaying, server, pools, ask, wire, link,
         keys, cancel
<1>33. ASSUME NEW c \in Conns, UpstreamEnds(c) PROVE Wellformed'
  BY <1>33, ConstantsAssumption
     DEF UpstreamEnds, ConstantsAssumption, Accounting, TypeOK, Wellformed, BeforeRelay,
         Handshaking, Established, Relaying, server, pools, ask, wire, link, keys, cancel
<1>34. ASSUME NEW c \in Conns, RelayReturns(c) PROVE Wellformed'
  BY <1>34, ConstantsAssumption
     DEF RelayReturns, Goto, ConstantsAssumption, Accounting, TypeOK, Wellformed,
         BeforeRelay, Handshaking, Established, Relaying, server, pools, ask, wire, link,
         keys, cancel
<1>35. ASSUME NEW c \in Conns, CancelLookup(c) PROVE Wellformed'
  BY <1>35, ConstantsAssumption
     DEF CancelLookup, Goto, ConstantsAssumption, Accounting, TypeOK, Wellformed,
         BeforeRelay, Handshaking, Established, Relaying, server, pools, ask, wire, link,
         keys, cancel
<1>36. ASSUME NEW c \in Conns, DeliverCancel(c) PROVE Wellformed'
  BY <1>36, ConstantsAssumption
     DEF DeliverCancel, Goto, ConstantsAssumption, Accounting, TypeOK, Wellformed,
         BeforeRelay, Handshaking, Established, Relaying, server, pools, ask, wire, link,
         keys, cancel
<1>37. ASSUME NEW c \in Conns, DeliveryFails(c) PROVE Wellformed'
  <2>1. /\ pc[c] \in {"delivering", "sending"} /\ pc' = [pc EXCEPT ![c] = "unwinding"]
        /\ backend' = [backend EXCEPT ![c] = IF @ = "none" THEN @ ELSE "closed"]
        /\ UNCHANGED <<ask, route, keys>>
    BY <1>37 DEF DeliveryFails, Goto
  <2>2. backend'[c] \notin {"open", "half"}
    BY <2>1 DEF Accounting, TypeOK
  <2> QED
    BY <2>1, <2>2
       DEF Accounting, TypeOK, Wellformed, BeforeRelay, Handshaking, Established, Relaying,
           ask, keys
<1>38. ASSUME NEW c \in Conns, ReleaseSlot(c) PROVE Wellformed'
  BY <1>38, ConstantsAssumption
     DEF ReleaseSlot, Goto, ConstantsAssumption, Accounting, TypeOK, Wellformed,
         BeforeRelay, Handshaking, Established, Relaying, server, pools, ask, wire, link,
         keys, cancel
<1>39. ASSUME NEW c \in Conns, Untrack(c) PROVE Wellformed'
  BY <1>39, ConstantsAssumption
     DEF Untrack, Goto, ConstantsAssumption, Accounting, TypeOK, Wellformed, BeforeRelay,
         Handshaking, Established, Relaying, server, pools, ask, wire, link, keys, cancel
<1>40. ASSUME NEW c \in Conns, Done(c) PROVE Wellformed'
  BY <1>40, ConstantsAssumption
     DEF Done, Goto, ConstantsAssumption, Accounting, TypeOK, Wellformed, BeforeRelay,
         Handshaking, Established, Relaying, server, pools, ask, wire, link, keys, cancel
<1>41. ASSUME NEW c \in Conns, UpstreamReads(c) PROVE Wellformed'
  BY <1>41, ConstantsAssumption
     DEF UpstreamReads, ConstantsAssumption, Accounting, TypeOK, Wellformed, BeforeRelay,
         Handshaking, Established, Relaying, server, pools, ask, wire, link, keys, cancel
<1>42. ASSUME NEW c \in Conns, UpstreamWrites(c) PROVE Wellformed'
  BY <1>42, ConstantsAssumption
     DEF UpstreamWrites, ConstantsAssumption, Accounting, TypeOK, Wellformed, BeforeRelay,
         Handshaking, Established, Relaying, server, pools, ask, wire, link, keys, cancel
<1>43. ASSUME NEW c \in Conns, CancelDials(c) PROVE Wellformed'
  BY <1>43, ConstantsAssumption
     DEF CancelDials, Goto, ConstantsAssumption, Accounting, TypeOK, Wellformed, BeforeRelay,
         Handshaking, Established, Relaying, server, pools, ask, wire, link, keys, cancel
<1> QED
  BY <1>1, <1>2, <1>3, <1>4, <1>5, <1>6, <1>7, <1>8, <1>9, <1>10, <1>11, <1>12,
     <1>13, <1>14, <1>15, <1>16, <1>17, <1>18, <1>19, <1>20, <1>21, <1>22, <1>23,
     <1>24, <1>25, <1>26, <1>27, <1>28, <1>29, <1>30, <1>31, <1>32, <1>33, <1>34,
     <1>35, <1>36, <1>37, <1>38, <1>39, <1>40, <1>41, <1>42, <1>43, Zenon
     DEF Next, Environment, Handler, Upstream, Server

=============================================================================
