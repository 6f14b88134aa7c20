----------------------------- MODULE Handshake -----------------------------
(***************************************************************************)
(* The opening of one session, internal/proxy/session.go: negotiate with the *)
(* client, handle's choice of a route, dialBackend and upgradeBackendTLS     *)
(* with the backend, and the startup packet on its way from one to the       *)
(* other.  Module Gateway has the same steps by their outcomes.              *)
(*                                                                          *)
(* A client may send any packet at any time, whether or not it has read the  *)
(* gateway's answers; only its "hello" starts TLS, and only a client that    *)
(* has read the answer S sends one.  A packet carries whether it was sent    *)
(* inside TLS.                                                               *)
(***************************************************************************)
EXTENDS PgWire

CONSTANTS
    Cases,                \* what is explored together: see Init
    MaxInFlight,          \* bound on the packets a client sends ahead
    maxNegotiationRounds  \* negotiate's bound

ASSUME HandshakeAssumption == maxNegotiationRounds \in Nat \ {0} /\ MaxInFlight \in Nat \ {0}

VARIABLES
    input,    \* the gateway's TLS policy, the packets the client may send, the route
    budget,   \* packets the client may still send
    c2g,      \* packets on their way to the gateway
    g2c,      \* answers on their way to the client
    secure,   \* the client has sent its hello
    gone,     \* the client hung up
    expired,  \* the handshake deadline has passed
    pc,       \* handle: "read", "tls", "cancel", "route", "dial", "dialled", "reply",
              \* "verify", "forward", "forwarded", "relay", "end"
    round,    \* negotiate's round
    encrypted,\* negotiate's conn is a TLS connection
    answers,  \* negotiation answers given so far
    startup,  \* the packet negotiate returned, and whether it came inside TLS
    fatal,    \* the client was sent an ErrorResponse
    bconn,    \* the backend connection: "none", "plain", "tls", "closed"
    breply,   \* the backend's answer to SSLRequest
    forwarded \* the packet written to the backend, and on which connection

client      == <<input, budget, c2g, g2c, secure, gone>>
negotiation == <<round, encrypted, answers>>
upstream    == <<bconn, breply, forwarded>>
vars        == <<client, expired, pc, negotiation, startup, fatal, upstream>>

Hello == [code |-> "hello", payload |-> <<>>, fits |-> FALSE]

\* The gateway's TLS is "off", "offered" or "required".  One database name is claimed;
\* its route has a backend TLS mode and a TargetDatabase.  cert says whether the
\* backend's chain verifies against the route's roots, and whether its name matches.
Init ==
    /\ \E case \in Cases :
          /\ input \in [tls : case.tls, packets : case.packets, claimed : case.claimed,
                        mode : case.modes, target : case.targets,
                        cert : case.certs]
          /\ budget = case.budget
    /\ c2g = <<>> /\ g2c = <<>> /\ secure = FALSE /\ gone = FALSE /\ expired = FALSE
    /\ pc = "read" /\ round = 0 /\ encrypted = FALSE /\ answers = <<>>
    /\ startup = None /\ fatal = FALSE
    /\ bconn = "none" /\ breply = None /\ forwarded = None

Goto(from, to) == pc = from /\ pc' = to

-----------------------------------------------------------------------------
(* The client, the backend and time.                                         *)

Send(packet) ==
    /\ budget > 0 /\ budget' = budget - 1 /\ ~gone /\ Len(c2g) < MaxInFlight
    /\ c2g' = Append(c2g, [packet |-> packet, tls |-> secure])
    /\ UNCHANGED <<input, g2c, secure, gone, expired, pc, negotiation, startup, fatal, upstream>>

\* The client reads an answer; S makes it start TLS.
ReadAnswer ==
    /\ g2c # <<>> /\ g2c' = Tail(g2c) /\ ~gone
    /\ IF Head(g2c) = "S" /\ ~secure
       THEN secure' = TRUE /\ c2g' = Append(c2g, [packet |-> Hello, tls |-> FALSE])
       ELSE UNCHANGED <<secure, c2g>>
    /\ UNCHANGED <<input, budget, gone, expired, pc, negotiation, startup, fatal, upstream>>

HangUp ==
    /\ ~gone /\ gone' = TRUE
    /\ UNCHANGED <<input, budget, c2g, g2c, secure, expired, pc, negotiation, startup, fatal, upstream>>

Expire ==
    /\ pc \in {"read", "tls"} /\ ~expired /\ expired' = TRUE
    /\ UNCHANGED <<client, pc, negotiation, startup, fatal, upstream>>

\* The backend answers an SSLRequest; an error message starts with E.
BackendAnswers ==
    /\ pc = "reply" /\ breply = None
    /\ breply' \in {"S", "N", "E"}
    /\ UNCHANGED <<client, expired, pc, negotiation, startup, fatal, bconn, forwarded>>

-----------------------------------------------------------------------------
(* negotiate.                                                                *)

\* handle returns, and serve closes the client connection.
End(from) == Goto(from, "end")

Answer(a) == g2c' = Append(g2c, a) /\ answers' = Append(answers, a)

\* The packet at the head of the stream can be read on the current connection: a TLS
\* connection rejects plaintext, and ReadStartupPacket rejects TLS records.
Readable(m) == m.tls = encrypted /\ ReadStartupPacket(m.packet) # None

\* Mutant: one round too many.
DeclineMutant(m) ==
    /\ \/ m.packet.code = "GSSEncRequest"
       \/ m.packet.code = "SSLRequest" /\ input.tls = "off"
    /\ Answer("N") /\ round' = round + 1
    /\ IF round' > maxNegotiationRounds THEN End("read") ELSE Goto("read", "read")
    /\ UNCHANGED <<encrypted, startup, fatal, upstream>>

\* A packet negotiate answers: the round is over.
Decline(m) ==
    /\ \/ m.packet.code = "GSSEncRequest"
       \/ m.packet.code = "SSLRequest" /\ input.tls = "off"
    /\ Answer("N") /\ round' = round + 1
    /\ IF round' = maxNegotiationRounds THEN End("read") ELSE Goto("read", "read")
    /\ UNCHANGED <<encrypted, startup, fatal, upstream>>

Accept(m) ==
    /\ m.packet.code = "SSLRequest" /\ input.tls # "off" /\ ~encrypted
    /\ Answer("S") /\ Goto("read", "tls")
    /\ UNCHANGED <<round, encrypted, startup, fatal, upstream>>

\* A second SSLRequest inside TLS, or a startup packet outside required TLS.
Reject(m) ==
    /\ \/ m.packet.code = "SSLRequest" /\ input.tls # "off" /\ encrypted /\ UNCHANGED fatal
       \/ m.packet.code \in {"3.0", "3.2"} /\ input.tls = "required" /\ ~encrypted /\ fatal' = TRUE
    /\ End("read")
    /\ UNCHANGED <<g2c, negotiation, startup, upstream>>

\* Mutant: TLS counts as required only of a client that asked for it.
ReturnMutant(m) ==
    /\ m.packet.code \in {"3.0", "3.2", "CancelRequest"}
    /\ startup' = [packet |-> ReadStartupPacket(m.packet), tls |-> m.tls]
    /\ Goto("read", IF m.packet.code = "CancelRequest" THEN "cancel" ELSE "route")
    /\ UNCHANGED <<g2c, negotiation, fatal, upstream>>

\* The packet that ends the negotiation; a CancelRequest may come in the clear.
Return(m) ==
    /\ \/ m.packet.code = "CancelRequest"
       \/ m.packet.code \in {"3.0", "3.2"} /\ (input.tls = "required" => encrypted)
    /\ startup' = [packet |-> ReadStartupPacket(m.packet), tls |-> m.tls]
    /\ Goto("read", IF m.packet.code = "CancelRequest" THEN "cancel" ELSE "route")
    /\ UNCHANGED <<g2c, negotiation, fatal, upstream>>

ReadPacket ==
    /\ pc = "read" /\ c2g # <<>> /\ ~expired
    /\ c2g' = Tail(c2g)
    /\ \E m \in {Head(c2g)} :
       IF Readable(m) THEN Decline(m) \/ Accept(m) \/ Reject(m) \/ Return(m)
       ELSE End("read") /\ UNCHANGED <<g2c, negotiation, startup, fatal, upstream>>
    /\ UNCHANGED <<input, budget, secure, gone, expired>>

\* HandshakeContext: anything but a hello at the head of the stream fails it.
TLSHandshake ==
    /\ pc = "tls" /\ c2g # <<>> /\ ~expired
    /\ c2g' = Tail(c2g)
    /\ IF Head(c2g).packet = Hello
       THEN /\ encrypted' = TRUE /\ round' = round + 1
            /\ IF round' = maxNegotiationRounds THEN End("tls") ELSE Goto("tls", "read")
       ELSE End("tls") /\ UNCHANGED <<encrypted, round>>
    /\ UNCHANGED <<input, budget, g2c, secure, gone, expired, answers, startup, fatal, upstream>>

\* A read or write fails: the client is gone or the deadline has passed.
Abort ==
    /\ expired \/ gone
    /\ \E from \in {"read", "tls"} : End(from)
    /\ UNCHANGED <<client, expired, negotiation, startup, fatal, upstream>>

ForwardCancel ==
    /\ End("cancel")
    /\ UNCHANGED <<client, expired, negotiation, startup, fatal, upstream>>

-----------------------------------------------------------------------------
(* handle, dialBackend, upgradeBackendTLS.                                   *)

\* writeFatal, then handle returns.
Refuse(from) ==
    /\ End(from) /\ fatal' = TRUE
    /\ UNCHANGED <<client, expired, negotiation, startup, breply, forwarded>>

Params == startup.packet.params

\* The database defaults to the user.
Requested ==
    LET named == Parameter(Params, "database") IN
    IF named = None THEN Parameter(Params, "user") ELSE named

\* An absent or empty name, or one that nobody claims, is refused.
Lookup ==
    /\ pc = "route"
    /\ IF Requested # input.claimed THEN Refuse("route") /\ UNCHANGED bconn
       ELSE /\ Goto("route", "dial")
            /\ UNCHANGED <<client, expired, negotiation, startup, fatal, upstream>>

\* DialContext connects ...
Dial ==
    /\ Goto("dial", "dialled") /\ bconn' = "plain"
    /\ UNCHANGED <<client, expired, negotiation, startup, fatal, breply, forwarded>>

\* ... or does not, and there is nothing to close.
DialFails == Refuse("dial") /\ UNCHANGED bconn

\* dialBackend sets the deadline and, for a route with TLS, sends an SSLRequest ...
SetBackendDeadline ==
    /\ Goto("dialled", IF input.mode = "Disable" THEN "forward" ELSE "reply")
    /\ UNCHANGED <<client, expired, negotiation, startup, fatal, upstream>>

\* ... or closes the connection if there is no setting it.
SetBackendDeadlineFails == Refuse("dialled") /\ bconn' = "closed"

\* Mutant: a connection that could not be upgraded is not closed.
UpgradeErrorMutant(from) == Refuse(from) /\ UNCHANGED bconn

\* upgradeBackendTLS returns an error, and dialBackend closes the connection.
UpgradeError(from) == Refuse(from) /\ bconn' = "closed"

\* Mutant: the backend connection has no deadline of its own.
UpgradeFailsMutant ==
    \E from \in {"reply", "verify"} : (from = "reply" => breply # None) /\ UpgradeError(from)

\* The backend cannot be written to, does not answer within DialTimeout, or breaks the
\* TLS handshake.
UpgradeFails == \E from \in {"reply", "verify"} : UpgradeError(from)

\* Mutant: a backend that declines TLS is spoken to in the clear.
ReplyMutant ==
    /\ pc = "reply" /\ breply # None
    /\ pc' = IF breply = "S" THEN "verify" ELSE "forward"
    /\ UNCHANGED <<client, expired, negotiation, startup, fatal, upstream>>

\* Anything but S means the backend will not speak TLS.
Reply ==
    \/ breply \notin {None, "S"} /\ UpgradeError("reply")
    \/ /\ breply = "S" /\ Goto("reply", "verify")
       /\ UNCHANGED <<client, expired, negotiation, startup, fatal, upstream>>

\* VerifyFull is verified by the TLS handshake, VerifyCA by verifyChainOnly after it,
\* and Require not at all.
Verifies ==
    CASE input.mode = "VerifyFull" -> input.cert.chain /\ input.cert.name
      [] input.mode = "VerifyCA"   -> input.cert.chain
      [] OTHER                     -> TRUE

Verify ==
    \/ ~Verifies /\ UpgradeError("verify")
    \/ /\ Verifies /\ Goto("verify", "forward") /\ bconn' = "tls"
       /\ UNCHANGED <<client, expired, negotiation, startup, fatal, breply, forwarded>>

\* The startup packet as the backend gets it.
Rewritten ==
    LET params == IF input.target # None /\ input.target # Requested
                  THEN SetParameter(Params, "database", input.target) ELSE Params
    IN  Encode([code |-> startup.packet.code, params |-> params])

Forward ==
    /\ Goto("forward", "forwarded")
    /\ forwarded' = [packet |-> Rewritten, on |-> bconn]
    /\ UNCHANGED <<client, expired, negotiation, startup, fatal, bconn, breply>>

\* The deadlines of both connections are cleared.
ClearDeadlines ==
    /\ Goto("forwarded", "relay")
    /\ UNCHANGED <<client, expired, negotiation, startup, fatal, upstream>>

\* handle returns with the backend connected: its deferred call closes it.
ReturnConnected(from) ==
    /\ End(from) /\ bconn' = "closed"
    /\ UNCHANGED <<client, expired, negotiation, startup, fatal, breply, forwarded>>

\* The startup packet cannot be written, or a deadline not be cleared.
ForwardFails == \E from \in {"forward", "forwarded"} : ReturnConnected(from)

\* The session is over (module Relay).
RelayReturns == ReturnConnected("relay")

-----------------------------------------------------------------------------
Environment ==
    \/ \E packet \in input.packets : Send(packet)
    \/ ReadAnswer \/ HangUp \/ Expire \/ BackendAnswers \/ RelayReturns

Handle ==
    \/ ReadPacket \/ TLSHandshake \/ Abort \/ ForwardCancel
    \/ Lookup \/ Dial \/ DialFails \/ SetBackendDeadline \/ SetBackendDeadlineFails
    \/ Reply \/ Verify \/ UpgradeFails \/ Forward \/ ClearDeadlines \/ ForwardFails

Next == Environment \/ Handle

Spec == Init /\ [][Next]_vars

\* The goroutine runs and the deadlines pass; nothing is assumed of either peer.
Fairness == WF_vars(Handle) /\ WF_vars(Expire)

FairSpec == Spec /\ Fairness

-----------------------------------------------------------------------------
(* What is checked.                                                          *)

\* Every variable has its type; the negotiation never exceeds its rounds.
TypeOK ==
    /\ pc \in {"read", "tls", "cancel", "route", "dial", "dialled", "reply", "verify",
              "forward", "forwarded", "relay", "end"}
    /\ round \in 0..maxNegotiationRounds /\ answers \in Seq({"S", "N"})
    /\ Len(answers) <= maxNegotiationRounds
    /\ {secure, gone, expired, encrypted, fatal} \subseteq BOOLEAN
    /\ bconn \in {"none", "plain", "tls", "closed"} /\ breply \in {None, "S", "N", "E"}

\* Where TLS is required, the startup packet that opens a session was sent inside TLS,
\* even if the client sent packets ahead of the gateway's answers; and a client that
\* was answered S never goes on in the clear, whatever else it asked for before.
StartupProtected ==
    /\ startup # None /\ startup.packet.code # "CancelRequest" /\ input.tls = "required" =>
          startup.tls
    /\ startup # None /\ "S" \in ToSet(answers) => startup.tls

\* A startup packet, with the credentials that follow it, goes only to a backend
\* connection as the route asks: never in the clear when TLS is on, whatever the backend
\* answers, and only to a certificate that the mode accepts.
BackendAsAsked ==
    forwarded # None =>
        /\ (input.mode # "Disable") = (forwarded.on = "tls")
        /\ input.mode \in {"VerifyCA", "VerifyFull"} => input.cert.chain
        /\ input.mode = "VerifyFull" => input.cert.name

\* What reaches the backend is what the client sent, in a layout a PostgreSQL server
\* accepts even if the client padded its packet or left out the terminator: with no
\* TargetDatabase parameter by parameter, with one but for the database.  The database
\* that server opens is the route's, whether the client named one or only its user,
\* unless the client gave either name twice.
ForwardedFaithful ==
    forwarded # None =>
        LET sent   == Params
            got    == parseParameters(forwarded.packet.payload)
            others(params) == SelectSeq(params, LAMBDA p : p.key # "database")
            once(key) == Len(SelectSeq(sent, LAMBDA p : p.key = key)) <= 1
        IN  /\ WellFormed(forwarded.packet.payload) /\ forwarded.packet.code = startup.packet.code
            /\ others(got) = others(sent) /\ (input.target = None => got = sent)
            /\ once("database") /\ once("user") =>
                  OpenedDatabase(got) = IF input.target = None THEN input.claimed ELSE input.target

\* No return of handle leaves a backend connection behind, whichever step after the dial
\* it is that failed, and though three functions share the duty to close it.
BackendNotLeaked == pc = "end" => bconn \in {"none", "closed"}

\* Every handshake ends, in a session or a closed connection, even if both the client
\* and a backend that accepted the connection stay silent.
HandshakeEnds == pc = "read" ~> pc \in {"relay", "end"}
=============================================================================
