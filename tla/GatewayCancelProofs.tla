------------------------ MODULE GatewayCancelProofs -------------------------
(***************************************************************************)
(* The cancel requests Gateway delivers, for any number of connections,     *)
(* databases, endpoints and keys.                                           *)
(***************************************************************************)
EXTENDS GatewaySessionProofs

-----------------------------------------------------------------------------
(* Cancel requests.                                                          *)

\* forwardCancel has found an entry.
Delivering == {"delivering", "sending"}

\* What forwardCancel has found is the entry of the session it is for, unless a
\* later session drew that session's key.
FoundExact ==
    \A c \in Conns :
        /\ sent[c] \/ pc[c] \in Delivering => found[c] # None
        /\ found[c] # None =>
              /\ target[c] \in Conns /\ told[target[c]]
              /\ (\A d \in Conns \ {target[c]} : key[d] # key[target[c]])
                    => found[c] = EntryOf(target[c])

\* A connection has looked nothing up before forwardCancel and sent nothing before
\* it delivers.
Unasked ==
    \A c \in Conns :
        /\ pc[c] \in {"none", "backlog", "spawned", "tracked", "negotiating", "cancelling"} =>
              found[c] = None
        /\ pc[c] \in {"none", "backlog", "spawned", "tracked", "negotiating", "cancelling"}
                   \cup Delivering =>
              ~sent[c]

\* Steps that change no session's key or route and find no entry.
LEMMA FoundFrame ==
    ASSUME FoundExact, UNCHANGED <<key, bkey, route, cancel>>,
           \A c \in Conns : told[c] => told'[c],
           \A c \in Conns : found[c] # None => target'[c] = target[c],
           \A c \in Conns : pc'[c] \in Delivering => pc[c] \in Delivering
    PROVE  FoundExact'
<1>1. ASSUME NEW c \in Conns, sent'[c] \/ pc'[c] \in Delivering PROVE found'[c] # None
  BY <1>1 DEF FoundExact, cancel
<1>2. ASSUME NEW c \in Conns, found'[c] # None
      PROVE  /\ target'[c] \in Conns /\ told'[target'[c]]
             /\ (\A d \in Conns \ {target'[c]} : key'[d] # key'[target'[c]])
                   => found'[c] = EntryOf(target[c])'
  <2>1. target'[c] = target[c] /\ found'[c] = found[c]
    BY <1>2 DEF cancel
  <2> QED
    BY <1>2, <2>1 DEF FoundExact, EntryOf
<1> QED
  BY <1>1, <1>2 DEF FoundExact

\* Steps that give one session that was told no key a key or a route.
LEMMA FoundUntold ==
    ASSUME FoundExact, Accounting, NEW c \in Conns, ~told[c],
           key[c] = None \/ key' = key,
           \A d \in Conns \ {c} :
               key'[d] = key[d] /\ bkey'[d] = bkey[d] /\ route'[d] = route[d],
           UNCHANGED <<told, target, cancel>>,
           \A d \in Conns : pc'[d] \in Delivering => pc[d] \in Delivering
    PROVE  FoundExact'
<1>1. ASSUME NEW d \in Conns, sent'[d] \/ pc'[d] \in Delivering PROVE found'[d] # None
  BY <1>1 DEF FoundExact, cancel
<1>2. ASSUME NEW d \in Conns, found'[d] # None
      PROVE  /\ target'[d] \in Conns /\ told'[target'[d]]
             /\ (\A x \in Conns \ {target'[d]} : key'[x] # key'[target'[d]])
                   => found'[d] = EntryOf(target[d])'
  <2> DEFINE s == target[d]
  <2>1. target'[d] = s /\ found'[d] = found[d] /\ told' = told
    BY DEF cancel
  <2>2. s \in Conns /\ told[s] /\ s # c /\ key[s] # None
    BY <1>2, <2>1 DEF FoundExact, Accounting, Wellformed
  <2>3. EntryOf(s)' = EntryOf(s) /\ key'[s] = key[s]
    BY <2>1, <2>2 DEF EntryOf, cancel
  <2>4. ASSUME \A x \in Conns \ {s} : key'[x] # key'[s]
        PROVE  \A x \in Conns \ {s} : key[x] # key[s]
    <3> TAKE x \in Conns \ {s}
    <3>1. CASE x = c
      BY <2>2, <2>3, <2>4, <3>1
    <3>2. CASE x # c
      BY <2>2, <2>3, <2>4, <3>2
    <3> QED
      BY <3>1, <3>2
  <2>5. (\A x \in Conns \ {s} : key[x] # key[s]) => found[d] = EntryOf(s)
    BY <1>2, <2>1 DEF FoundExact
  <2> QED
    BY <2>1, <2>2, <2>3, <2>4, <2>5
<1> QED
  BY <1>1, <1>2 DEF FoundExact

\* Every step keeps the order of lookup and delivery.
LEMMA UnaskedStep ==
    ASSUME Accounting, Unasked, Next
    PROVE  Unasked'
<1>1. CASE Shutdown
  BY <1>1 DEF Shutdown, Unasked, Delivering, Accounting, TypeOK, Relaying, cancel
<1>2. CASE Publish
  BY <1>2 DEF Publish, Unasked, Delivering, Accounting, TypeOK, Relaying, cancel
<1>3. CASE Listen
  BY <1>3 DEF Listen, Unasked, Delivering, Accounting, TypeOK, Relaying, cancel
<1>4. CASE ListenFails
  BY <1>4 DEF ListenFails, Unasked, Delivering, Accounting, TypeOK, Relaying, cancel
<1>5. CASE CloseListener
  BY <1>5 DEF CloseListener, Unasked, Delivering, Accounting, TypeOK, Relaying, cancel
<1>6. CASE Backoff
  BY <1>6 DEF Backoff, Unasked, Delivering, Accounting, TypeOK, Relaying, cancel
<1>7. CASE GraceExpires
  BY <1>7 DEF GraceExpires, Unasked, Delivering, Accounting, TypeOK, Relaying, cancel
<1>8. CASE StartReturns
  BY <1>8 DEF StartReturns, Unasked, Delivering, Accounting, TypeOK, Relaying, cancel
<1>9. ASSUME NEW e \in {"closed", "timeout", "fdLimit"}, AcceptError(e) PROVE Unasked'
  BY <1>9 DEF AcceptError, Unasked, Delivering, Accounting, TypeOK, Relaying, cancel
<1>10. ASSUME NEW c \in Conns, Connect(c) PROVE Unasked'
  BY <1>10 DEF Connect, Goto, Unasked, Delivering, Accounting, TypeOK, Relaying, cancel
<1>11. ASSUME NEW c \in Conns, HangUp(c) PROVE Unasked'
  BY <1>11 DEF HangUp, Unasked, Delivering, Accounting, TypeOK, Relaying, cancel
<1>12. ASSUME NEW c \in Conns, BackendCloses(c) PROVE Unasked'
  BY <1>12 DEF BackendCloses, Unasked, Delivering, Accounting, TypeOK, Relaying, cancel
<1>13. ASSUME NEW c \in Conns, Expire(c) PROVE Unasked'
  BY <1>13 DEF Expire, Unasked, Delivering, Accounting, TypeOK, Relaying, cancel
<1>14. ASSUME NEW c \in Conns, Accept(c) PROVE Unasked'
  BY <1>14 DEF Accept, Goto, Unasked, Delivering, Accounting, TypeOK, Relaying, cancel
<1>15. ASSUME NEW c \in Conns, Track(c) PROVE Unasked'
  BY <1>15 DEF Track, Goto, Unasked, Delivering, Accounting, TypeOK, Relaying, cancel
<1>16. ASSUME NEW c \in Conns, AcquireSlot(c) PROVE Unasked'
  BY <1>16 DEF AcquireSlot, Goto, Unasked, Delivering, Accounting, TypeOK, Relaying, cancel
<1>17. ASSUME NEW c \in Conns, RefuseSlot(c) PROVE Unasked'
  BY <1>17 DEF RefuseSlot, Goto, Unasked, Delivering, Accounting, TypeOK, Relaying, cancel
<1>18. ASSUME NEW c \in Conns, Negotiated(c) PROVE Unasked'
  BY <1>18 DEF Negotiated, Goto, Unasked, Delivering, Accounting, TypeOK, Relaying, cancel
<1>19. ASSUME NEW c \in Conns, NegotiationAborts(c) PROVE Unasked'
  BY <1>19
     DEF NegotiationAborts, Goto, Unasked, Delivering, Accounting, TypeOK, Relaying, cancel
<1>20. ASSUME NEW c \in Conns, NegotiationFails(c) PROVE Unasked'
  BY <1>20
     DEF NegotiationFails, Goto, Unasked, Delivering, Accounting, TypeOK, Relaying, cancel
<1>21. ASSUME NEW c \in Conns, Lookup(c) PROVE Unasked'
  BY <1>21 DEF Lookup, Goto, Unasked, Delivering, Accounting, TypeOK, Relaying, cancel
<1>22. ASSUME NEW c \in Conns, DialOk(c) PROVE Unasked'
  BY <1>22 DEF DialOk, Goto, Unasked, Delivering, Accounting, TypeOK, Relaying, cancel
<1>23. ASSUME NEW c \in Conns, DialFails(c) PROVE Unasked'
  BY <1>23 DEF DialFails, Goto, Unasked, Delivering, Accounting, TypeOK, Relaying, cancel
<1>24. ASSUME NEW c \in Conns, Establish(c) PROVE Unasked'
  BY <1>24 DEF Establish, Goto, Unasked, Delivering, Accounting, TypeOK, Relaying, cancel
<1>25. ASSUME NEW c \in Conns, ForwardFails(c) PROVE Unasked'
  BY <1>25 DEF ForwardFails, Goto, Unasked, Delivering, Accounting, TypeOK, Relaying, cancel
<1>26. ASSUME NEW c \in Conns, IssueKey(c) PROVE Unasked'
  BY <1>26 DEF IssueKey, Goto, Unasked, Delivering, Accounting, TypeOK, Relaying, cancel
<1>27. ASSUME NEW c \in Conns, TellKey(c) PROVE Unasked'
  BY <1>27 DEF TellKey, Goto, Unasked, Delivering, Accounting, TypeOK, Relaying, cancel
<1>28. ASSUME NEW c \in Conns, Splice(c) PROVE Unasked'
  BY <1>28 DEF Splice, Goto, Unasked, Delivering, Accounting, TypeOK, Relaying, cancel
<1>29. ASSUME NEW c \in Conns, BadMessage(c) PROVE Unasked'
  BY <1>29
     DEF BadMessage, Goto, EndRelay, Unasked, Delivering, Accounting, TypeOK, Relaying,
         cancel
<1>30. ASSUME NEW c \in Conns, ClientWriteFails(c) PROVE Unasked'
  BY <1>30
     DEF ClientWriteFails, Goto, EndRelay, Unasked, Delivering, Accounting, TypeOK, Relaying, cancel
<1>31. ASSUME NEW c \in Conns, BackendEOF(c) PROVE Unasked'
  BY <1>31
     DEF BackendEOF, Goto, EndRelay, Unasked, Delivering, Accounting, TypeOK, Relaying,
         cancel
<1>32. ASSUME NEW c \in Conns, CloseClient(c) PROVE Unasked'
  BY <1>32 DEF CloseClient, Goto, Unasked, Delivering, Accounting, TypeOK, Relaying, cancel
<1>33. ASSUME NEW c \in Conns, UpstreamEnds(c) PROVE Unasked'
  BY <1>33 DEF UpstreamEnds, Unasked, Delivering, Accounting, TypeOK, Relaying, cancel
<1>34. ASSUME NEW c \in Conns, RelayReturns(c) PROVE Unasked'
  BY <1>34 DEF RelayReturns, Goto, Unasked, Delivering, Accounting, TypeOK, Relaying, cancel
<1>35. ASSUME NEW c \in Conns, CancelLookup(c) PROVE Unasked'
  BY <1>35 DEF CancelLookup, Goto, Unasked, Delivering, Accounting, TypeOK, Relaying, cancel
<1>36. ASSUME NEW c \in Conns, DeliverCancel(c) PROVE Unasked'
  BY <1>36
     DEF DeliverCancel, Goto, Unasked, Delivering, Accounting, TypeOK, Relaying, cancel
<1>37. ASSUME NEW c \in Conns, DeliveryFails(c) PROVE Unasked'
  BY <1>37
     DEF DeliveryFails, Goto, Unasked, Delivering, Accounting, TypeOK, Relaying, cancel
<1>38. ASSUME NEW c \in Conns, ReleaseSlot(c) PROVE Unasked'
  BY <1>38 DEF ReleaseSlot, Goto, Unasked, Delivering, Accounting, TypeOK, Relaying, cancel
<1>39. ASSUME NEW c \in Conns, Untrack(c) PROVE Unasked'
  BY <1>39 DEF Untrack, Goto, Unasked, Delivering, Accounting, TypeOK, Relaying, cancel
<1>40. ASSUME NEW c \in Conns, Done(c) PROVE Unasked'
  BY <1>40 DEF Done, Goto, Unasked, Delivering, Accounting, TypeOK, Relaying, cancel
<1>41. ASSUME NEW c \in Conns, UpstreamReads(c) PROVE Unasked'
  BY <1>41 DEF UpstreamReads, Unasked, Delivering, Accounting, TypeOK, Relaying, cancel
<1>42. ASSUME NEW c \in Conns, UpstreamWrites(c) PROVE Unasked'
  BY <1>42 DEF UpstreamWrites, Unasked, Delivering, Accounting, TypeOK, Relaying, cancel
<1>43. ASSUME NEW c \in Conns, CancelDials(c) PROVE Unasked'
  BY <1>43 DEF CancelDials, Goto, Unasked, Delivering, Accounting, TypeOK, Relaying, cancel
<1> QED
  BY <1>1, <1>2, <1>3, <1>4, <1>5, <1>6, <1>7, <1>8, <1>9, <1>10, <1>11, <1>12,
     <1>13, <1>14, <1>15, <1>16, <1>17, <1>18, <1>19, <1>20, <1>21, <1>22, <1>23,
     <1>24, <1>25, <1>26, <1>27, <1>28, <1>29, <1>30, <1>31, <1>32, <1>33, <1>34,
     <1>35, <1>36, <1>37, <1>38, <1>39, <1>40, <1>41, <1>42, <1>43, Zenon
     DEF Next, Environment, Handler, Upstream, Server

\* Every step keeps what forwardCancel found exact.
LEMMA FoundStep ==
    ASSUME Accounting, RegistryExact, Unasked, FoundExact, Next
    PROVE  FoundExact'
<1>1. CASE Shutdown
  BY <1>1, FoundFrame DEF Shutdown, ask, keys, link, cancel, Delivering, Accounting, TypeOK
<1>2. CASE Publish
  BY <1>2, FoundFrame DEF Publish, ask, keys, link, cancel, Delivering, Accounting, TypeOK
<1>3. CASE Listen
  BY <1>3, FoundFrame DEF Listen, ask, keys, link, cancel, Delivering, Accounting, TypeOK
<1>4. CASE ListenFails
  BY <1>4, FoundFrame
     DEF ListenFails, ask, keys, link, cancel, Delivering, Accounting, TypeOK
<1>5. CASE CloseListener
  BY <1>5, FoundFrame
     DEF CloseListener, ask, keys, link, cancel, Delivering, Accounting, TypeOK
<1>6. CASE Backoff
  BY <1>6, FoundFrame DEF Backoff, ask, keys, link, cancel, Delivering, Accounting, TypeOK
<1>7. CASE GraceExpires
  BY <1>7, FoundFrame
     DEF GraceExpires, ask, keys, link, cancel, Delivering, Accounting, TypeOK
<1>8. CASE StartReturns
  BY <1>8, FoundFrame
     DEF StartReturns, ask, keys, link, cancel, Delivering, Accounting, TypeOK
<1>9. ASSUME NEW e \in {"closed", "timeout", "fdLimit"}, AcceptError(e) PROVE FoundExact'
  BY <1>9, FoundFrame
     DEF AcceptError, ask, keys, link, cancel, Delivering, Accounting, TypeOK
<1>10. ASSUME NEW c \in Conns, Connect(c) PROVE FoundExact'
  <2>1. found[c] = None /\ ~sent[c]
    BY <1>10 DEF Connect, Goto, Unasked
  <2> QED
    BY <1>10, <2>1, FoundFrame
       DEF Connect, Goto, ask, keys, link, cancel, Delivering, Accounting, TypeOK
<1>11. ASSUME NEW c \in Conns, HangUp(c) PROVE FoundExact'
  BY <1>11, FoundFrame DEF HangUp, ask, keys, link, cancel, Delivering, Accounting, TypeOK
<1>12. ASSUME NEW c \in Conns, BackendCloses(c) PROVE FoundExact'
  BY <1>12, FoundFrame
     DEF BackendCloses, ask, keys, link, cancel, Delivering, Accounting, TypeOK
<1>13. ASSUME NEW c \in Conns, Expire(c) PROVE FoundExact'
  BY <1>13, FoundFrame DEF Expire, ask, keys, link, cancel, Delivering, Accounting, TypeOK
<1>14. ASSUME NEW c \in Conns, Accept(c) PROVE FoundExact'
  BY <1>14, FoundFrame
     DEF Accept, Goto, ask, keys, link, cancel, Delivering, Accounting, TypeOK
<1>15. ASSUME NEW c \in Conns, Track(c) PROVE FoundExact'
  BY <1>15, FoundFrame
     DEF Track, Goto, ask, keys, link, cancel, Delivering, Accounting, TypeOK
<1>16. ASSUME NEW c \in Conns, AcquireSlot(c) PROVE FoundExact'
  BY <1>16, FoundFrame
     DEF AcquireSlot, Goto, ask, keys, link, cancel, Delivering, Accounting, TypeOK
<1>17. ASSUME NEW c \in Conns, RefuseSlot(c) PROVE FoundExact'
  BY <1>17, FoundFrame
     DEF RefuseSlot, Goto, ask, keys, link, cancel, Delivering, Accounting, TypeOK
<1>18. ASSUME NEW c \in Conns, Negotiated(c) PROVE FoundExact'
  BY <1>18, FoundFrame
     DEF Negotiated, Goto, ask, keys, link, cancel, Delivering, Accounting, TypeOK
<1>19. ASSUME NEW c \in Conns, NegotiationAborts(c) PROVE FoundExact'
  BY <1>19, FoundFrame
     DEF NegotiationAborts, Goto, ask, keys, link, cancel, Delivering, Accounting, TypeOK
<1>20. ASSUME NEW c \in Conns, NegotiationFails(c) PROVE FoundExact'
  BY <1>20, FoundFrame
     DEF NegotiationFails, Goto, ask, keys, link, cancel, Delivering, Accounting, TypeOK
<1>21. ASSUME NEW c \in Conns, Lookup(c) PROVE FoundExact'
  <2>1. ~told[c]
    BY <1>21 DEF Lookup, Goto, Accounting, Wellformed, BeforeRelay, Handshaking
  <2>2. /\ UNCHANGED <<key, bkey, told, target, cancel>>
        /\ \A d \in Conns \ {c} : route'[d] = route[d]
        /\ \A d \in Conns : pc'[d] \in Delivering => pc[d] \in Delivering
    BY <1>21 DEF Lookup, Goto, Delivering, Accounting, TypeOK, ask, keys
  <2> QED
    BY <2>1, <2>2, FoundUntold
<1>22. ASSUME NEW c \in Conns, DialOk(c) PROVE FoundExact'
  BY <1>22, FoundFrame
     DEF DialOk, Goto, ask, keys, link, cancel, Delivering, Accounting, TypeOK
<1>23. ASSUME NEW c \in Conns, DialFails(c) PROVE FoundExact'
  BY <1>23, FoundFrame
     DEF DialFails, Goto, ask, keys, link, cancel, Delivering, Accounting, TypeOK
<1>24. ASSUME NEW c \in Conns, Establish(c) PROVE FoundExact'
  BY <1>24, FoundFrame
     DEF Establish, Goto, ask, keys, link, cancel, Delivering, Accounting, TypeOK
<1>25. ASSUME NEW c \in Conns, ForwardFails(c) PROVE FoundExact'
  BY <1>25, FoundFrame
     DEF ForwardFails, Goto, ask, keys, link, cancel, Delivering, Accounting, TypeOK
<1>26. ASSUME NEW c \in Conns, IssueKey(c) PROVE FoundExact'
  <2>1. key[c] = None /\ ~told[c]
    BY <1>26 DEF IssueKey, Accounting, Wellformed
  <2>2. UNCHANGED <<route, told, target, cancel>>
    BY <1>26 DEF IssueKey, ask, link
  <2>3. \A d \in Conns \ {c} : key'[d] = key[d] /\ bkey'[d] = bkey[d]
    BY <1>26 DEF IssueKey, Accounting, TypeOK
  <2>4. \A d \in Conns : pc'[d] \in Delivering => pc[d] \in Delivering
    BY <1>26 DEF IssueKey, Goto, Delivering, Accounting, TypeOK
  <2> QED
    BY <2>1, <2>2, <2>3, <2>4, FoundUntold, Zenon
<1>27. ASSUME NEW c \in Conns, TellKey(c) PROVE FoundExact'
  BY <1>27, FoundFrame
     DEF TellKey, Goto, ask, keys, link, cancel, Delivering, Accounting, TypeOK
<1>28. ASSUME NEW c \in Conns, Splice(c) PROVE FoundExact'
  BY <1>28, FoundFrame
     DEF Splice, Goto, ask, keys, link, cancel, Delivering, Accounting, TypeOK
<1>29. ASSUME NEW c \in Conns, BadMessage(c) PROVE FoundExact'
  BY <1>29, FoundFrame
     DEF BadMessage, Goto, EndRelay, ask, keys, link, cancel, Delivering, Accounting, TypeOK
<1>30. ASSUME NEW c \in Conns, ClientWriteFails(c) PROVE FoundExact'
  BY <1>30, FoundFrame
     DEF ClientWriteFails, Goto, EndRelay, ask, keys, link, cancel, Delivering, Accounting, TypeOK
<1>31. ASSUME NEW c \in Conns, BackendEOF(c) PROVE FoundExact'
  BY <1>31, FoundFrame
     DEF BackendEOF, Goto, EndRelay, ask, keys, link, cancel, Delivering, Accounting, TypeOK
<1>32. ASSUME NEW c \in Conns, CloseClient(c) PROVE FoundExact'
  BY <1>32, FoundFrame
     DEF CloseClient, Goto, ask, keys, link, cancel, Delivering, Accounting, TypeOK
<1>33. ASSUME NEW c \in Conns, UpstreamEnds(c) PROVE FoundExact'
  BY <1>33, FoundFrame
     DEF UpstreamEnds, ask, keys, link, cancel, Delivering, Accounting, TypeOK
<1>34. ASSUME NEW c \in Conns, RelayReturns(c) PROVE FoundExact'
  BY <1>34, FoundFrame
     DEF RelayReturns, Goto, ask, keys, link, cancel, Delivering, Accounting, TypeOK
<1>35. ASSUME NEW c \in Conns, CancelLookup(c) PROVE FoundExact'
  <2> DEFINE s == target[c]
  <2>1. s \in Conns /\ told[s] /\ key[s] \in Keys
    BY <1>35, ConstantsAssumption
       DEF CancelLookup, Goto, Accounting, TypeOK, Wellformed, ConstantsAssumption
  <2>2. /\ found' = [found EXCEPT ![c] = entries[key[s]]]
        /\ UNCHANGED <<key, bkey, route, told, target, sent>>
    BY <1>35 DEF CancelLookup, keys, link, ask
  <2>3. ASSUME entries[key[s]] # None, \A d \in Conns \ {s} : key[d] # key[s]
        PROVE  entries[key[s]] = EntryOf(s)
    BY <2>1, <2>3, ConstantsAssumption, Zenon DEF RegistryExact, At, ConstantsAssumption
  <2>4. ~sent[c]
    BY <1>35 DEF CancelLookup, Goto, Unasked
  <2>5. pc'[c] \in Delivering => entries[key[s]] # None
    BY <1>35 DEF CancelLookup, Goto, Delivering, Accounting, TypeOK
  <2>6. \A d \in Conns \ {c} : pc'[d] = pc[d] /\ found'[d] = found[d]
    BY <1>35, <2>2 DEF CancelLookup, Goto, Accounting, TypeOK
  <2>7. found'[c] = entries[key[s]]
    BY <2>2, Zenon DEF Accounting, TypeOK
  <2>8. \A d \in Conns : sent'[d] \/ pc'[d] \in Delivering => found'[d] # None
    BY <2>2, <2>4, <2>5, <2>6, <2>7 DEF FoundExact
  <2>9. ASSUME NEW d \in Conns, found'[d] # None
        PROVE  /\ target'[d] \in Conns /\ told'[target'[d]]
               /\ (\A x \in Conns \ {target'[d]} : key'[x] # key'[target'[d]])
                     => found'[d] = EntryOf(target[d])'
    <3>1. CASE d = c
      BY <2>1, <2>2, <2>3, <2>7, <2>9, <3>1, Zenon DEF EntryOf
    <3>2. CASE d # c
      BY <2>2, <2>6, <2>9, <3>2 DEF FoundExact, EntryOf
    <3> QED
      BY <3>1, <3>2
  <2> QED
    BY <2>8, <2>9 DEF FoundExact
<1>36. ASSUME NEW c \in Conns, DeliverCancel(c) PROVE FoundExact'
  <2>1. pc[c] = "sending" /\ UNCHANGED <<key, bkey, route, told, target, found>>
    BY <1>36 DEF DeliverCancel, Goto, ask, keys
  <2>2. found[c] # None
    BY <2>1 DEF FoundExact, Delivering
  <2>3. \A d \in Conns \ {c} : pc'[d] = pc[d] /\ sent'[d] = sent[d]
    BY <1>36, Zenon DEF DeliverCancel, Goto, Accounting, TypeOK
  <2>4. \A d \in Conns : sent'[d] \/ pc'[d] \in Delivering => found'[d] # None
    BY <2>1, <2>2, <2>3 DEF FoundExact
  <2>5. ASSUME NEW d \in Conns, found'[d] # None
        PROVE  /\ target'[d] \in Conns /\ told'[target'[d]]
               /\ (\A x \in Conns \ {target'[d]} : key'[x] # key'[target'[d]])
                     => found'[d] = EntryOf(target[d])'
    BY <2>1, <2>5 DEF FoundExact, EntryOf
  <2> QED
    BY <2>4, <2>5 DEF FoundExact
<1>37. ASSUME NEW c \in Conns, DeliveryFails(c) PROVE FoundExact'
  BY <1>37, FoundFrame
     DEF DeliveryFails, Goto, ask, keys, link, cancel, Delivering, Accounting, TypeOK
<1>38. ASSUME NEW c \in Conns, ReleaseSlot(c) PROVE FoundExact'
  BY <1>38, FoundFrame
     DEF ReleaseSlot, Goto, ask, keys, link, cancel, Delivering, Accounting, TypeOK
<1>39. ASSUME NEW c \in Conns, Untrack(c) PROVE FoundExact'
  BY <1>39, FoundFrame
     DEF Untrack, Goto, ask, keys, link, cancel, Delivering, Accounting, TypeOK
<1>40. ASSUME NEW c \in Conns, Done(c) PROVE FoundExact'
  BY <1>40, FoundFrame
     DEF Done, Goto, ask, keys, link, cancel, Delivering, Accounting, TypeOK
<1>41. ASSUME NEW c \in Conns, UpstreamReads(c) PROVE FoundExact'
  BY <1>41, FoundFrame
     DEF UpstreamReads, ask, keys, link, cancel, Delivering, Accounting, TypeOK
<1>42. ASSUME NEW c \in Conns, UpstreamWrites(c) PROVE FoundExact'
  BY <1>42, FoundFrame
     DEF UpstreamWrites, ask, keys, link, cancel, Delivering, Accounting, TypeOK
<1>43. ASSUME NEW c \in Conns, CancelDials(c) PROVE FoundExact'
  BY <1>43, FoundFrame
     DEF CancelDials, Goto, ask, keys, link, cancel, Delivering, Accounting, TypeOK
<1> QED
  BY <1>1, <1>2, <1>3, <1>4, <1>5, <1>6, <1>7, <1>8, <1>9, <1>10, <1>11, <1>12,
     <1>13, <1>14, <1>15, <1>16, <1>17, <1>18, <1>19, <1>20, <1>21, <1>22, <1>23,
     <1>24, <1>25, <1>26, <1>27, <1>28, <1>29, <1>30, <1>31, <1>32, <1>33, <1>34,
     <1>35, <1>36, <1>37, <1>38, <1>39, <1>40, <1>41, <1>42, <1>43, Zenon
     DEF Next, Environment, Handler, Upstream, Server

\* A delivered cancel request reaches the backend of its session, with that
\* backend's key, unless the session's random key has been drawn again.
THEOREM CancelCorrect == Spec => []CancelReachesItsSession
<1>1. Init => Unasked /\ FoundExact
  BY DEF Init, Unasked, FoundExact, Delivering
<1>2. Accounting /\ RegistryExact /\ Unasked /\ FoundExact /\ [Next]_vars => Unasked' /\ FoundExact'
  <2>1. ASSUME Unasked, FoundExact, UNCHANGED vars PROVE Unasked' /\ FoundExact'
    BY <2>1, Zenon DEF Unasked, FoundExact, EntryOf, vars, ask, keys, link, cancel
  <2> QED
    BY <2>1, UnaskedStep, FoundStep, Zenon
<1>3. FoundExact => CancelReachesItsSession
  BY DEF FoundExact, CancelReachesItsSession
<1> QED
  BY <1>1, <1>2, <1>3, AccountingHolds, RegistryCorrect, PTL DEF Spec

=============================================================================
