----------------------------- MODULE MCP4Sketch -----------------------------
(* Two flows that share a cell in the first row only.                      *)
EXTENDS P4Sketch

CONSTANTS k1, k2

MCKeys == {k1, k2}

MCHash == [r \in Rows |-> [k \in MCKeys |-> IF r > 1 /\ k = k2 THEN 1 ELSE 0]]

=============================================================================
