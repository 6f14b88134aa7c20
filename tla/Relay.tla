------------------------------- MODULE Relay -------------------------------
(***************************************************************************)
(* One established session of the gateway, byte by byte: relay.go's relay,  *)
(* relayFromBackend and spliceToClient.  Two goroutines move data between   *)
(* the client and the backend through four bounded socket buffers,          *)
(*                                                                          *)
(*     client --c2g--> upstream copy --g2b--> backend                       *)
(*     client <--g2c-- relayFromBackend <--b2g-- backend                    *)
(*                                                                          *)
(* and each of them blocks when the buffer it writes to is full.  A buffer  *)
(* cell stands for one protocol message.                                    *)
(***************************************************************************)
EXTENDS Integers, Sequences, SequencesExt

CONSTANTS
    Cap,        \* capacity of each socket buffer
    Requests,   \* how many messages the client sends at most
    Replies,    \* how many messages the backend answers each of them with
    Duplex      \* the backend reads its socket even while blocked writing

ASSUME RelayAssumption ==
    /\ Cap \in Nat \ {0} /\ Requests \in Nat /\ Replies \in Nat /\ Duplex \in BOOLEAN

VARIABLES
    c2g, g2b, b2g, g2c,
    client,     \* the client: "open", "half" (closed for writing), "closed"
    asked,      \* how many messages the client has sent
    sock,       \* the gateway's client connection is open
    bconn,      \* the gateway's backend connection: "open", "half", "closed"
    bend,       \* the backend's end of it is open
    out,        \* what the backend has yet to write
    up,         \* the upstream goroutine: "read", "write", "done"
    down,       \* relayFromBackend, then relay: "read", "write", "ended", "waiting", "over"
    framing,    \* relayFromBackend still parses messages
    held,       \* the message relayFromBackend has read and not written
    registered, \* the session's key is in the cancel registry
    bsent,      \* everything the backend has written
    crecv       \* everything the client has read

bufs == <<c2g, g2b, b2g, g2c>>
vars == <<bufs, client, asked, sock, bconn, bend, out, up, down, framing, held,
          registered, bsent, crecv>>

FromBackend == {"auth", "key", "ready", "data"}
ToClient    == {"auth", "gwkey", "ready", "data"}

\* Both directions of a session as the client should see them: the backend's own
\* key is replaced by the gateway's.
Rewrite(s) == [i \in DOMAIN s |-> IF s[i] = "key" THEN "gwkey" ELSE s[i]]

\* A session starts with the startup packet forwarded; the backend answers it, and
\* may send more of its own accord (a NoticeResponse, say) after ReadyForQuery.
Init ==
    /\ c2g = <<>> /\ g2b = <<>> /\ b2g = <<>> /\ g2c = <<>>
    /\ client = "open" /\ asked = 0 /\ sock = TRUE
    /\ bconn = "open" /\ bend = TRUE /\ out = <<"auth", "key", "ready", "data">>
    /\ up = "read" /\ down = "read" /\ framing = TRUE /\ held = <<>>
    /\ registered = FALSE /\ bsent = <<>> /\ crecv = <<>>

-----------------------------------------------------------------------------
(* The client.                                                               *)

\* Once it has seen ReadyForQuery a client sends requests without waiting for
\* the replies to earlier ones.
ClientSend ==
    /\ client = "open" /\ Contains(crecv, "ready")
    /\ asked < Requests /\ Len(c2g) < Cap
    /\ c2g' = Append(c2g, "request") /\ asked' = asked + 1
    /\ UNCHANGED <<g2b, b2g, g2c, client, sock, bconn, bend, out, up, down, framing, held,
                   registered, bsent, crecv>>

ClientRead ==
    /\ client # "closed" /\ g2c # <<>>
    /\ crecv' = Append(crecv, Head(g2c)) /\ g2c' = Tail(g2c)
    /\ UNCHANGED <<c2g, g2b, b2g, client, asked, sock, bconn, bend, out, up, down, framing,
                   held, registered, bsent>>

ClientHalfClose ==
    /\ client = "open"
    /\ client' = "half"
    /\ UNCHANGED <<bufs, asked, sock, bconn, bend, out, up, down, framing, held, registered,
                   bsent, crecv>>

\* The client closes its socket: what it had not read is gone, what it had sent
\* is gone too if the close resets the connection.
ClientClose ==
    /\ client # "closed"
    /\ client' = "closed" /\ g2c' = <<>> /\ c2g' \in {c2g, <<>>}
    /\ UNCHANGED <<g2b, b2g, asked, sock, bconn, bend, out, up, down, framing, held,
                   registered, bsent, crecv>>

-----------------------------------------------------------------------------
(* The backend, a PostgreSQL server process.                                 *)

BackendRead ==
    /\ bend /\ g2b # <<>> /\ (out = <<>> \/ Duplex)
    /\ g2b' = Tail(g2b)
    /\ out' = out \o [i \in 1..Replies |-> "data"]
    /\ UNCHANGED <<c2g, b2g, g2c, client, asked, sock, bconn, bend, up, down, framing, held,
                   registered, bsent, crecv>>

BackendWrite ==
    /\ bend /\ out # <<>> /\ bconn # "closed" /\ Len(b2g) < Cap
    /\ b2g' = Append(b2g, Head(out)) /\ bsent' = Append(bsent, Head(out)) /\ out' = Tail(out)
    /\ UNCHANGED <<c2g, g2b, g2c, client, asked, sock, bconn, bend, up, down, framing, held,
                   registered, crecv>>

\* The backend process exits after the end of its input, or when the gateway
\* closed the connection under it.
BackendExit ==
    /\ bend
    /\ bconn = "closed" \/ (bconn = "half" /\ g2b = <<>> /\ out = <<>>)
    /\ bend' = FALSE /\ out' = <<>>
    /\ UNCHANGED <<bufs, client, asked, sock, bconn, up, down, framing, held, registered,
                   bsent, crecv>>

\* ... or at any time: it crashes, or an administrator terminates it.
BackendDies ==
    /\ bend
    /\ bend' = FALSE /\ out' = <<>>
    /\ UNCHANGED <<bufs, client, asked, sock, bconn, up, down, framing, held, registered,
                   bsent, crecv>>

-----------------------------------------------------------------------------
(* The upstream goroutine: io.Copy(backend, client), then closeWrite(backend). *)

UpRead ==
    /\ up = "read" /\ sock /\ c2g # <<>>
    /\ c2g' = Tail(c2g) /\ up' = "write"
    /\ UNCHANGED <<g2b, b2g, g2c, client, asked, sock, bconn, bend, out, down, framing, held,
                   registered, bsent, crecv>>

UpWrite ==
    /\ up = "write" /\ bend /\ Len(g2b) < Cap
    /\ g2b' = Append(g2b, "request") /\ up' = "read"
    /\ UNCHANGED <<c2g, b2g, g2c, client, asked, sock, bconn, bend, out, down, framing, held,
                   registered, bsent, crecv>>

\* The copy ends: nothing more to read, the connection was closed under it, or
\* the backend is gone.
UpEnd ==
    /\ \/ up = "read" /\ (~sock \/ (c2g = <<>> /\ client # "open"))
       \/ up = "write" /\ ~bend
    /\ up' = "done"
    /\ bconn' = IF bconn = "open" THEN "half" ELSE bconn
    /\ UNCHANGED <<bufs, client, asked, sock, bend, out, down, framing, held, registered,
                   bsent, crecv>>

-----------------------------------------------------------------------------
(* relayFromBackend, on the session's own goroutine, then the end of relay.  *)

\* Mutant: the rewritten key is not registered before it is sent on.
UnregisteredKeyMutant ==
    /\ down = "read" /\ b2g # <<>>
    /\ down' = "write"
    /\ b2g' = Tail(b2g)
    /\ held' = IF framing THEN Rewrite(<<Head(b2g)>>) ELSE <<Head(b2g)>>
    /\ UNCHANGED <<c2g, g2b, g2c, client, asked, sock, bconn, bend, out, up, framing,
                   registered, bsent, crecv>>

\* Mutant: a key is registered, but the message is sent on as it came.
BackendKeyMutant ==
    /\ down = "read" /\ b2g # <<>>
    /\ down' = "write"
    /\ b2g' = Tail(b2g)
    /\ held' = <<Head(b2g)>>
    /\ registered' = (registered \/ (framing /\ Head(b2g) = "key"))
    /\ UNCHANGED <<c2g, g2b, g2c, client, asked, sock, bconn, bend, out, up, framing, bsent,
                   crecv>>

\* The framed reader takes exactly one message from the socket and registers a
\* key for BackendKeyData before the client can see it; the raw copy just reads.
DownRead ==
    /\ down = "read" /\ b2g # <<>>
    /\ down' = "write"
    /\ b2g' = Tail(b2g)
    /\ held' = IF framing THEN Rewrite(<<Head(b2g)>>) ELSE <<Head(b2g)>>
    /\ registered' = (registered \/ (framing /\ Head(b2g) = "key"))
    /\ UNCHANGED <<c2g, g2b, g2c, client, asked, sock, bconn, bend, out, up, framing, bsent,
                   crecv>>

\* Mutant: a buffered reader has read ahead, and the raw copy starts behind it.
ReadAheadMutant ==
    /\ down = "write" /\ sock /\ client # "closed" /\ Len(g2c) < Cap
    /\ down' = "read"
    /\ g2c' = g2c \o held /\ held' = <<>>
    /\ framing' = (framing /\ held # <<"ready">>)
    /\ b2g' = IF held = <<"ready">> THEN <<>> ELSE b2g
    /\ UNCHANGED <<c2g, g2b, client, asked, sock, bconn, bend, out, up, registered, bsent,
                   crecv>>

\* After ReadyForQuery the raw copy takes over from the framed reader.
DownWrite ==
    /\ down = "write" /\ sock /\ client # "closed" /\ Len(g2c) < Cap
    /\ down' = "read"
    /\ g2c' = g2c \o held /\ held' = <<>>
    /\ framing' = (framing /\ held # <<"ready">>)
    /\ UNCHANGED <<c2g, g2b, b2g, client, asked, sock, bconn, bend, out, up, registered,
                   bsent, crecv>>

\* A message that the framed reader cannot frame, or a key that cannot be decoded, ends
\* relayFromBackend: it has been read and is never written.
DownBadMessage ==
    /\ down = "read" /\ framing /\ b2g # <<>>
    /\ down' = "ended" /\ registered' = FALSE
    /\ held' = Rewrite(<<Head(b2g)>>) /\ b2g' = Tail(b2g)
    /\ UNCHANGED <<c2g, g2b, g2c, client, asked, sock, bconn, bend, out, up, framing, bsent,
                   crecv>>

\* relayFromBackend returns, at the backend's EOF or on a failed write, and its
\* deferred call releases the key.
DownEnd ==
    /\ \/ down = "read" /\ b2g = <<>> /\ ~bend
       \/ down = "write" /\ (~sock \/ client = "closed")
    /\ down' = "ended" /\ held' = <<>> /\ registered' = FALSE
    /\ UNCHANGED <<bufs, client, asked, sock, bconn, bend, out, up, framing, bsent, crecv>>

\* Mutant: relay waits for the upstream copy without closing the client.
ClientLeftOpenMutant ==
    /\ down = "ended"
    /\ down' = "waiting"
    /\ UNCHANGED <<bufs, client, asked, sock, bconn, bend, out, up, framing, held,
                   registered, bsent, crecv>>

\* relay closes the client connection ...
CloseClient ==
    /\ down = "ended"
    /\ down' = "waiting" /\ sock' = FALSE
    /\ UNCHANGED <<bufs, client, asked, bconn, bend, out, up, framing, held, registered,
                   bsent, crecv>>

\* ... and waits for the upstream goroutine; handle then closes the backend.
Return ==
    /\ down = "waiting" /\ up = "done"
    /\ down' = "over" /\ bconn' = "closed"
    /\ UNCHANGED <<bufs, client, asked, sock, bend, out, up, framing, held, registered,
                   bsent, crecv>>

\* drain force-closes the client connection of the session.
ForceClose ==
    /\ sock /\ down # "over"
    /\ sock' = FALSE
    /\ UNCHANGED <<bufs, client, asked, bconn, bend, out, up, down, framing, held,
                   registered, bsent, crecv>>

-----------------------------------------------------------------------------
Upstream == UpRead \/ UpWrite \/ UpEnd

Downstream == DownRead \/ DownBadMessage \/ DownWrite \/ DownEnd \/ CloseClient \/ Return

Client == ClientSend \/ ClientRead \/ ClientHalfClose \/ ClientClose

Backend == BackendRead \/ BackendWrite \/ BackendExit \/ BackendDies

Next == Client \/ Backend \/ Upstream \/ Downstream \/ ForceClose

Spec == Init /\ [][Next]_vars

\* Both goroutines run when they can, a connected client keeps reading, and the
\* backend process reads and writes when its sockets let it.
FairSpec ==
    /\ Spec
    /\ WF_vars(Upstream) /\ WF_vars(Downstream)
    /\ WF_vars(ClientRead)
    /\ WF_vars(BackendRead) /\ WF_vars(BackendWrite) /\ WF_vars(BackendExit)

-----------------------------------------------------------------------------
(* What is checked.                                                          *)

\* Every variable has its type; in particular nothing on its way to the client, or held
\* for it, is the key by which the backend knows the session.
TypeOK ==
    /\ c2g \in BoundedSeq({"request"}, Cap) /\ g2b \in BoundedSeq({"request"}, Cap)
    /\ b2g \in BoundedSeq(FromBackend, Cap)
    /\ g2c \in BoundedSeq(ToClient, Cap) /\ held \in BoundedSeq(ToClient, 1)
    /\ client \in {"open", "half", "closed"} /\ asked \in 0..Requests
    /\ sock \in BOOLEAN /\ bconn \in {"open", "half", "closed"} /\ bend \in BOOLEAN
    /\ up \in {"read", "write", "done"}
    /\ down \in {"read", "write", "ended", "waiting", "over"}
    /\ framing \in BOOLEAN /\ registered \in BOOLEAN

\* Nothing is lost, repeated or reordered between the backend and the client, in
\* particular where the framed reader hands over to the raw copy, and the only
\* change is the backend's key replaced by the gateway's.  When relayFromBackend
\* returns, all the backend sent is on its way to the client, but for a message that
\* could not be framed and what came after it.
StreamFaithful ==
    /\ IsPrefix(crecv, Rewrite(bsent))
    /\ sock /\ client # "closed" /\ down \in {"read", "write", "ended"} =>
          crecv \o g2c \o held \o Rewrite(b2g) = Rewrite(bsent)

\* A client that has been told its key can cancel for as long as the session
\* relays: the key is in the registry before the client can know it.
ToldKeyIsRegistered ==
    Contains(crecv \o g2c, "gwkey") /\ down \in {"read", "write"} => registered

\* When either peer is gone, or drain closes the client connection, the session
\* ends and its goroutines return.
SessionEnds == (client # "open" \/ ~bend \/ ~sock) ~> down = "over"

=============================================================================
