--------------------------- MODULE HandshakeProofs --------------------------
(***************************************************************************)
(* What a handshake protects, for any packets a client sends in any order,   *)
(* any number of rounds and any backend.                                     *)
(***************************************************************************)
EXTENDS Handshake, TLAPS

\* The client's side.  After an S, negotiate reads on the TLS connection or not at all;
\* a packet that was returned ended the negotiation.
Negotiating ==
    /\ answers \in Seq({"S", "N"})
    /\ pc = "read" /\ "S" \in ToSet(answers) => encrypted
    /\ startup # None => pc \notin {"read", "tls"}
    /\ StartupProtected

\* The backend's side.  Nothing is connected before the dial, and a connection that is
\* about to carry the startup packet is what the route asks for.
Accepted ==
    /\ bconn = (IF input.mode = "Disable" THEN "plain" ELSE "tls")
    /\ input.mode # "Disable" => Verifies

BeforeDial == {"read", "tls", "cancel", "route", "dial"}

Connected ==
    /\ pc \in BeforeDial => bconn = "none"
    /\ pc = "dialled" => bconn = "plain"
    /\ pc \in {"reply", "verify"} => input.mode # "Disable"
    /\ pc = "forward" => Accepted
    /\ BackendAsAsked
    /\ BackendNotLeaked

-----------------------------------------------------------------------------
(* Facts about the operators.                                                *)

\* Reading keeps the code of a packet.
LEMMA CodeKept ==
    ASSUME NEW packet, ReadStartupPacket(packet) # None
    PROVE  ReadStartupPacket(packet).code = packet.code
  BY DEF ReadStartupPacket

\* What has been answered after one more answer.
LEMMA AnswersGrow ==
    ASSUME NEW a \in {"S", "N"}, answers \in Seq({"S", "N"})
    PROVE  /\ Append(answers, a) \in Seq({"S", "N"})
           /\ ToSet(Append(answers, a)) = ToSet(answers) \cup {a}
<1>1. Append(answers, a) \in Seq({"S", "N"}) /\ Len(Append(answers, a)) = Len(answers) + 1
  OBVIOUS
<1>2. \A i \in 1..Len(answers) : Append(answers, a)[i] = answers[i]
  OBVIOUS
<1>3. Append(answers, a)[Len(answers) + 1] = a
  OBVIOUS
<1>4. Len(answers) \in Nat
  OBVIOUS
<1>5. 1..(Len(answers) + 1) = 1..Len(answers) \cup {Len(answers) + 1}
  BY <1>4
<1>6. \A x : x \in ToSet(Append(answers, a)) <=> x \in ToSet(answers) \cup {a}
  BY <1>1, <1>2, <1>3, <1>5 DEF ToSet
<1> QED
  BY <1>1, <1>6

-----------------------------------------------------------------------------
(* The client's side.                                                        *)

\* A step after the negotiation, or one that is not handle's, leaves it as it was.
LEMMA NegotiationRests ==
    ASSUME Negotiating, UNCHANGED <<input, encrypted, answers, startup>>,
           pc' = pc \/ pc' \notin {"read", "tls"}
    PROVE  Negotiating'
  BY DEF Negotiating, StartupProtected

\* Reading a packet keeps the client's side.
LEMMA ReadKeepsNegotiating ==
    ASSUME Negotiating, ReadPacket
    PROVE  Negotiating'
<1>1. pc = "read" /\ startup = None /\ input' = input
  BY DEF Negotiating, ReadPacket
<1>2. PICK m :
         \/ Readable(m) /\ (Decline(m) \/ Accept(m) \/ Reject(m) \/ Return(m))
         \/ End("read") /\ UNCHANGED <<g2c, negotiation, startup, fatal, upstream>>
  BY DEF ReadPacket
<1>3. CASE Decline(m)
  <2>1. answers' = Append(answers, "N") /\ encrypted' = encrypted /\ startup' = startup
    BY <1>3 DEF Decline, Answer
  <2>2. answers' \in Seq({"S", "N"}) /\ ToSet(answers') = ToSet(answers) \cup {"N"}
    BY <2>1, AnswersGrow DEF Negotiating
  <2> QED
    BY <1>1, <2>1, <2>2 DEF Negotiating, StartupProtected
<1>4. CASE Accept(m)
  <2>1. answers' = Append(answers, "S") /\ startup' = startup /\ pc' = "tls"
    BY <1>4 DEF Accept, Answer, Goto
  <2>2. answers' \in Seq({"S", "N"})
    BY <2>1, AnswersGrow DEF Negotiating
  <2> QED
    BY <1>1, <2>1, <2>2 DEF Negotiating, StartupProtected
<1>5. CASE Reject(m)
  <2>1. pc' = "end"
    BY <1>5 DEF Reject, End, Goto
  <2> QED
    BY <1>1, <1>5, <2>1, NegotiationRests DEF Reject, negotiation
<1>6. CASE Readable(m) /\ Return(m)
  <2>1. UNCHANGED <<answers, encrypted>> /\ pc' \in {"cancel", "route"}
    BY <1>6 DEF Return, Goto, negotiation
  <2>2. startup' = [packet |-> ReadStartupPacket(m.packet), tls |-> encrypted]
    BY <1>6 DEF Readable, Return
  <2>3. startup'.packet.code = m.packet.code
    BY <1>6, <2>2, CodeKept DEF Readable
  <2>4. m.packet.code # "CancelRequest" /\ input.tls = "required" => encrypted
    BY <1>6 DEF Return
  <2> QED
    BY <1>1, <2>1, <2>2, <2>3, <2>4 DEF Negotiating, StartupProtected
<1>7. CASE End("read") /\ UNCHANGED <<g2c, negotiation, startup, fatal, upstream>>
  BY <1>1, <1>7, NegotiationRests DEF End, Goto, negotiation
<1> QED
  BY <1>2, <1>3, <1>4, <1>5, <1>6, <1>7

\* So does the TLS handshake: when it succeeds, what is read next is read inside TLS.
LEMMA TLSKeepsNegotiating ==
    ASSUME Negotiating, TLSHandshake
    PROVE  Negotiating'
<1>1. UNCHANGED <<input, answers, startup>> /\ startup = None
  BY DEF Negotiating, TLSHandshake
<1>2. pc' = "end" \/ (pc' = "read" /\ encrypted')
  BY DEF TLSHandshake, End, Goto
<1> QED
  BY <1>1, <1>2 DEF Negotiating, StartupProtected

\* So does a refusal.
LEMMA RefuseKeepsNegotiating ==
    ASSUME Negotiating, NEW from, Refuse(from)
    PROVE  Negotiating'
  BY NegotiationRests DEF Refuse, End, Goto, client, negotiation

\* Every step keeps the client's side.
LEMMA NegotiatingStep ==
    ASSUME Negotiating, Next
    PROVE  Negotiating'
<1>1. ASSUME NEW packet, Send(packet) PROVE Negotiating'
  BY <1>1, NegotiationRests DEF Send, negotiation
<1>2. CASE ReadPacket
  BY <1>2, ReadKeepsNegotiating
<1>3. CASE TLSHandshake
  BY <1>3, TLSKeepsNegotiating
<1>4. CASE ReadAnswer
  BY <1>4, NegotiationRests DEF ReadAnswer, negotiation
<1>5. CASE HangUp
  BY <1>5, NegotiationRests DEF HangUp, negotiation
<1>6. CASE Expire
  BY <1>6, NegotiationRests DEF Expire, client, negotiation
<1>7. CASE BackendAnswers
  BY <1>7, NegotiationRests DEF BackendAnswers, client, negotiation
<1>8. CASE Abort
  BY <1>8, NegotiationRests DEF Abort, End, Goto, client, negotiation
<1>9. CASE ForwardCancel
  BY <1>9, NegotiationRests DEF ForwardCancel, End, Goto, client, negotiation
<1>10. CASE Lookup
  BY <1>10, NegotiationRests DEF Lookup, Refuse, End, Goto, client, negotiation
<1>11. CASE Dial
  BY <1>11, NegotiationRests DEF Dial, Goto, client, negotiation
<1>12. CASE DialFails
  BY <1>12, RefuseKeepsNegotiating DEF DialFails
<1>13. CASE SetBackendDeadline
  BY <1>13, NegotiationRests DEF SetBackendDeadline, Goto, client, negotiation
<1>14. CASE SetBackendDeadlineFails
  BY <1>14, RefuseKeepsNegotiating DEF SetBackendDeadlineFails
<1>15. CASE Reply
  BY <1>15, RefuseKeepsNegotiating, NegotiationRests
     DEF Reply, UpgradeError, Goto, client, negotiation
<1>16. CASE Verify
  BY <1>16, RefuseKeepsNegotiating, NegotiationRests
     DEF Verify, UpgradeError, Goto, client, negotiation
<1>17. CASE UpgradeFails
  BY <1>17, RefuseKeepsNegotiating DEF UpgradeFails, UpgradeError
<1>18. CASE Forward
  BY <1>18, NegotiationRests DEF Forward, Goto, client, negotiation
<1>19. CASE ClearDeadlines
  BY <1>19, NegotiationRests DEF ClearDeadlines, Goto, client, negotiation
<1>20. ASSUME NEW from, ReturnConnected(from) PROVE Negotiating'
  BY <1>20, NegotiationRests DEF ReturnConnected, End, Goto, client, negotiation
<1> QED
  BY <1>1, <1>2, <1>3, <1>4, <1>5, <1>6, <1>7, <1>8, <1>9, <1>10, <1>11, <1>12, <1>13,
     <1>14, <1>15, <1>16, <1>17, <1>18, <1>19, <1>20
     DEF Next, Environment, Handle, ForwardFails, RelayReturns

-----------------------------------------------------------------------------
(* The backend's side.                                                       *)

\* A step that is not handle's leaves it as it was.
LEMMA ConnectionRests ==
    ASSUME Connected, UNCHANGED <<input, pc, bconn, forwarded>>
    PROVE  Connected'
  BY DEF Connected, Accepted, Verifies, BackendAsAsked, BackendNotLeaked

\* handle returns before it has dialled, or after the connection is closed.
LEMMA EndKeepsConnected ==
    ASSUME Connected, NEW from, End(from), UNCHANGED <<input, forwarded>>,
           bconn' = "closed" \/ (from \in BeforeDial /\ bconn' = bconn)
    PROVE  Connected'
<1>1. pc' = "end" /\ bconn' \in {"none", "closed"}
  BY DEF Connected, End, Goto
<1> QED
  BY <1>1 DEF Connected, BeforeDial, BackendAsAsked, BackendNotLeaked

\* handle goes on without touching the backend.
LEMMA MoveKeepsConnected ==
    ASSUME Connected, UNCHANGED <<input, bconn, forwarded>>,
           pc \in BeforeDial, pc' \in BeforeDial
    PROVE  Connected'
  BY DEF Connected, BeforeDial, BackendAsAsked, BackendNotLeaked

\* The client is refused.
LEMMA RefuseKeepsConnected ==
    ASSUME Connected, NEW from, Refuse(from),
           bconn' = "closed" \/ (from \in BeforeDial /\ bconn' = bconn)
    PROVE  Connected'
  BY EndKeepsConnected DEF Refuse, client

\* Every step keeps the backend's side.
LEMMA ConnectedStep ==
    ASSUME Connected, Next
    PROVE  Connected'
<1>1. ASSUME NEW packet, Send(packet) PROVE Connected'
  BY <1>1, ConnectionRests DEF Send, upstream
<1>2. CASE ReadPacket
  <2>1. UNCHANGED <<input, bconn, forwarded>> /\ pc \in BeforeDial
    BY <1>2 DEF ReadPacket, Decline, Accept, Reject, Return, upstream, BeforeDial
  <2>2. End("read") \/ pc' \in BeforeDial
    BY <1>2 DEF ReadPacket, Decline, Accept, Reject, Return, Goto, BeforeDial
  <2> QED
    BY <2>1, <2>2, EndKeepsConnected, MoveKeepsConnected DEF BeforeDial
<1>3. CASE TLSHandshake
  <2>1. UNCHANGED <<input, bconn, forwarded>> /\ pc \in BeforeDial
    BY <1>3 DEF TLSHandshake, upstream, BeforeDial
  <2>2. End("tls") \/ pc' \in BeforeDial
    BY <1>3 DEF TLSHandshake, Goto, BeforeDial
  <2> QED
    BY <2>1, <2>2, EndKeepsConnected, MoveKeepsConnected DEF BeforeDial
<1>4. CASE ReadAnswer
  BY <1>4, ConnectionRests DEF ReadAnswer, upstream
<1>5. CASE HangUp
  BY <1>5, ConnectionRests DEF HangUp, upstream
<1>6. CASE Expire
  BY <1>6, ConnectionRests DEF Expire, client, upstream
<1>7. CASE BackendAnswers
  BY <1>7, ConnectionRests DEF BackendAnswers, client
<1>8. CASE Abort
  BY <1>8, EndKeepsConnected DEF Abort, client, upstream, BeforeDial
<1>9. CASE ForwardCancel
  BY <1>9, EndKeepsConnected DEF ForwardCancel, client, upstream, BeforeDial
<1>10. CASE Lookup
  BY <1>10, RefuseKeepsConnected, MoveKeepsConnected
     DEF Lookup, Goto, client, upstream, BeforeDial
<1>11. CASE Dial
  BY <1>11 DEF Dial, Goto, client, Connected, BeforeDial, BackendAsAsked, BackendNotLeaked
<1>12. CASE DialFails
  BY <1>12, RefuseKeepsConnected DEF DialFails, BeforeDial
<1>13. CASE SetBackendDeadline
  BY <1>13 DEF SetBackendDeadline, Goto, client, upstream, Connected, BeforeDial, Accepted,
               BackendAsAsked, BackendNotLeaked
<1>14. CASE SetBackendDeadlineFails
  BY <1>14, RefuseKeepsConnected DEF SetBackendDeadlineFails
<1>15. CASE Reply
  <2>1. CASE UpgradeError("reply")
    BY <2>1, RefuseKeepsConnected DEF UpgradeError
  <2>2. CASE Goto("reply", "verify") /\ UNCHANGED <<client, upstream>>
    BY <2>2 DEF Goto, client, upstream, Connected, BeforeDial, BackendAsAsked, BackendNotLeaked
  <2> QED
    BY <1>15, <2>1, <2>2 DEF Reply
<1>16. CASE Verify
  <2>1. CASE UpgradeError("verify")
    BY <2>1, RefuseKeepsConnected DEF UpgradeError
  <2>2. CASE Verifies /\ Goto("verify", "forward") /\ bconn' = "tls"
             /\ UNCHANGED <<client, forwarded>>
    BY <2>2 DEF Goto, client, Connected, BeforeDial, Accepted, Verifies, BackendAsAsked,
                BackendNotLeaked
  <2> QED
    BY <1>16, <2>1, <2>2 DEF Verify
<1>17. CASE UpgradeFails
  BY <1>17, RefuseKeepsConnected DEF UpgradeFails, UpgradeError
<1>18. CASE Forward
  <2>1. /\ pc' = "forwarded" /\ input' = input
        /\ forwarded' = [packet |-> Rewritten, on |-> bconn] /\ Accepted
    BY <1>18 DEF Forward, Goto, client, Connected
  <2>2. BackendAsAsked'
    BY <2>1 DEF Accepted, Verifies, BackendAsAsked
  <2> QED
    BY <2>1, <2>2 DEF Connected, BeforeDial, BackendNotLeaked
<1>19. CASE ClearDeadlines
  BY <1>19 DEF ClearDeadlines, Goto, client, upstream, Connected, BeforeDial, BackendAsAsked,
               BackendNotLeaked
<1>20. ASSUME NEW from, ReturnConnected(from) PROVE Connected'
  BY <1>20, EndKeepsConnected DEF ReturnConnected, client
<1> QED
  BY <1>1, <1>2, <1>3, <1>4, <1>5, <1>6, <1>7, <1>8, <1>9, <1>10, <1>11, <1>12, <1>13,
     <1>14, <1>15, <1>16, <1>17, <1>18, <1>19, <1>20
     DEF Next, Environment, Handle, ForwardFails, RelayReturns

-----------------------------------------------------------------------------
(* The theorems.                                                             *)

\* Where TLS is required no startup packet is taken from outside it, and after an S none
\* is taken in the clear, whatever the client sends ahead of the gateway's answers.
THEOREM HandshakeProtectsStartup == Spec => []StartupProtected
<1>1. Init => Negotiating
  BY DEF Init, Negotiating, StartupProtected, ToSet
<1>2. Negotiating /\ [Next]_vars => Negotiating'
  <2>1. ASSUME Negotiating, UNCHANGED vars PROVE Negotiating'
    BY <2>1, NegotiationRests DEF vars, client, negotiation
  <2> QED
    BY <2>1, NegotiatingStep
<1>3. Negotiating => StartupProtected
  BY DEF Negotiating
<1> QED
  BY <1>1, <1>2, <1>3, PTL DEF Spec

\* The startup packet reaches only a backend connection as the route asks, and no
\* return of handle leaves a backend connection behind.
THEOREM HandshakeConnectsAsAsked == Spec => []BackendAsAsked /\ []BackendNotLeaked
<1>1. Init => Connected
  BY DEF Init, Connected, BeforeDial, BackendAsAsked, BackendNotLeaked
<1>2. Connected /\ [Next]_vars => Connected'
  <2>1. ASSUME Connected, UNCHANGED vars PROVE Connected'
    BY <2>1, ConnectionRests DEF vars, client, upstream
  <2> QED
    BY <2>1, ConnectedStep
<1>3. Connected => BackendAsAsked /\ BackendNotLeaked
  BY DEF Connected
<1> QED
  BY <1>1, <1>2, <1>3, PTL DEF Spec
=============================================================================
