---------------------------- MODULE MCHandshake ----------------------------
(* Small instances of Handshake.                                             *)
EXTENDS Handshake

Packet(c, p) == [code |-> c, payload |-> p, fits |-> TRUE]

Certs(c, n) == [chain |-> c, name |-> n]

\* Any order of requests, with one well-formed startup packet, one that is too long and
\* one of an older protocol.
Requests ==
    {Packet("SSLRequest", <<>>), Packet("GSSEncRequest", <<>>), Packet("2.0", <<>>),
     Packet("CancelRequest", CancelKey), Packet("3.0", <<"user", "x", "">>),
     [code |-> "3.0", payload |-> <<"user", "x", "">>, fits |-> FALSE]}

\* Every payload of up to five strings: names and values that are given once, twice or
\* not at all, empty, unterminated or followed by padding.
Strings  == UNION {[1..n -> {"", "database", "user", "x"}] : n \in 0..5}
Payloads == Strings \cup {Append(p, Unterminated) : p \in Strings}

MCCases ==
    {[tls |-> {"off", "offered", "required"}, packets |-> {Requests}, claimed |-> {"x"},
      modes |-> {"Disable", "VerifyCA"}, targets |-> {None}, budget |-> 5, certs |-> {Certs(TRUE, FALSE)}],
     [tls |-> {"off"}, packets |-> {{Packet("3.0", <<"database", "x", "">>)}}, claimed |-> {"x"},
      modes |-> {"Disable", "Require", "VerifyCA", "VerifyFull"}, targets |-> {"y"}, budget |-> 1,
      certs |-> {Certs(c, n) : c, n \in BOOLEAN}],
     [tls |-> {"off"}, packets |-> {{Packet("3.2", p)} : p \in Payloads}, claimed |-> {"x"},
      modes |-> {"Disable"}, targets |-> {None, "x", "y"}, budget |-> 1, certs |-> {Certs(TRUE, TRUE)}]}
=============================================================================
