----------------------------- MODULE MCGateway -----------------------------
(* Small instances of Gateway.                                               *)
EXTENDS GatewayAdmission, TLC

Symmetry == Permutations(Conns) \cup Permutations(Endpoints) \cup Permutations(Keys)

=============================================================================
