----------------------------- MODULE MCPmdReload -----------------------------
(* Instances of PmdReload. *)
EXTENDS PmdReload

CONSTANTS p1, p2, q1, q2

MCPortOf == [q \in {q1, q2} |-> p1]
MCMaxTxq == [p \in Ports |-> IF p = p1 THEN 3 ELSE 2]

=============================================================================
