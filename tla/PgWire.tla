------------------------------- MODULE PgWire -------------------------------
(***************************************************************************)
(* Package internal/pgwire, protocol.go: decoding and encoding of the        *)
(* packets that open a connection.                                           *)
(*                                                                          *)
(* A packet is [code, payload, fits].  Its code is one of the request codes  *)
(* or a protocol version, by name; fits says whether the length field is     *)
(* within the limits.  A payload is the sequence of its NUL-terminated       *)
(* strings, after which may come bytes without a NUL.                        *)
(***************************************************************************)
EXTENDS Integers, Sequences, SequencesExt

CONSTANT None  \* "no value"

\* Bytes without a NUL.
Unterminated == "unterminated"

\* The process ID and the secret of a CancelRequest.
CancelKey == <<"8 bytes">>

\* The list of parameters [key, value]; None is an error.  An empty key ends the list,
\* whatever comes after it, and so does the end of the payload.
parseParameters(payload) ==
    LET list[i \in 1..(Len(payload) + 2)] ==
            IF i > Len(payload) \/ payload[i] = "" THEN <<>>
            ELSE IF i = Len(payload) \/ payload[i + 1] = Unterminated \/ list[i + 2] = None
            THEN None
            ELSE <<[key |-> payload[i], value |-> payload[i + 1]]>> \o list[i + 2]
    IN  list[1]

\* ReadStartupPacket: [code, params], or None for an error.
ReadStartupPacket(packet) ==
    LET params == parseParameters(packet.payload)
        plain  == [code |-> packet.code, params |-> <<>>]
    IN  CASE ~packet.fits -> None
          [] packet.fits /\ packet.code \in {"SSLRequest", "GSSEncRequest"} ->
               IF packet.payload = <<>> THEN plain ELSE None
          [] packet.fits /\ packet.code = "CancelRequest" ->
               IF packet.payload = CancelKey THEN plain ELSE None
          [] packet.fits /\ packet.code \in {"3.0", "3.2"} ->
               IF params = None THEN None ELSE [code |-> packet.code, params |-> params]
          [] OTHER -> None

\* The value of the first parameter of that name, or None.
Parameter(params, key) ==
    LET found == SelectSeq(params, LAMBDA p : p.key = key)
    IN  IF found = <<>> THEN None ELSE found[1].value

\* Mutant: a parameter that the client did not give is not added.
SetParameterMutant(params, key, value) ==
    LET i == SelectInSeq(params, LAMBDA p : p.key = key)
    IN  IF i = 0 THEN params ELSE [params EXCEPT ![i].value = value]

\* The first parameter of that name is replaced.
SetParameter(params, key, value) ==
    LET i == SelectInSeq(params, LAMBDA p : p.key = key)
    IN  IF i = 0 THEN Append(params, [key |-> key, value |-> value])
        ELSE [params EXCEPT ![i].value = value]

Encode(packet) ==
    [code    |-> packet.code,
     payload |-> Append(FlattenSeq([i \in 1..Len(packet.params) |->
                            <<packet.params[i].key, packet.params[i].value>>]), "")]

-----------------------------------------------------------------------------
(* PostgreSQL's ProcessStartupPacket, the reader at the other end.           *)

\* It insists on the list's terminator being the last byte.
WellFormed(payload) ==
    /\ parseParameters(payload) # None
    /\ Len(payload) = 2 * Len(parseParameters(payload)) + 1

\* A parameter given again overwrites the earlier value.
LastParameter(params, key) == Parameter(Reverse(params), key)

\* The database that is opened: an absent or empty name means the user's.
OpenedDatabase(params) ==
    IF LastParameter(params, "database") \in {None, ""} THEN LastParameter(params, "user")
    ELSE LastParameter(params, "database")
=============================================================================
