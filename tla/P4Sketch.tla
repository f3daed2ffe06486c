------------------------------ MODULE P4Sketch ------------------------------
(***************************************************************************)
(* The ingress control of p4_implementation.p4: a count-min sketch in four *)
(* areas of three rows.  Register N numbers the packets of a cycle; the    *)
(* area of a packet is the number modulo 4.  Flags 1 to 4 are to mark the  *)
(* area of the current sub-period.                                         *)
(***************************************************************************)
EXTENDS Integers, FiniteSetsExt, Functions

CONSTANTS
  Keys,        \* five-tuples
  hash,        \* meta.index_sketch1..3: the cell of a key in each row
  CELLS,       \* cells of a row (80000)
  CYCLE,       \* packets of a cycle (2^17)
  CAP,         \* the last count kept exactly (0xFF)
  CELL_VALUES, \* values of a cell (2^16)
  MaxPackets   \* bound: packets of a flow

Areas == 1 .. 4
Rows  == 1 .. 3
Cells == 0 .. CELLS - 1

SwitchAssumption ==
  /\ hash \in [Rows -> [Keys -> Cells]]
  /\ CYCLE \in Nat \ {0} /\ CYCLE % 16 = 0
  /\ CAP \in Nat /\ CELL_VALUES \in Nat /\ CAP < CELL_VALUES
  /\ IsFiniteSet(Keys)

VARIABLES
  N,        \* number of the last packet in its cycle
  flags,    \* flag1..4, as set by setFlag (0) and revFlag (1)
  sketch,   \* sketch11..43, by area, row and cell
  sent      \* ghost: packets of each flow counted in each area

vars == <<N, flags, sketch, sent>>

Init ==
  /\ N = CYCLE - 1
  /\ flags = [i \in Areas |-> 0]
  /\ sketch = [i \in Areas |-> [r \in Rows |-> [c \in Cells |-> 0]]]
  /\ sent = [i \in Areas |-> [k \in Keys |-> 0]]

getSubOverrun(n) == IF n = CYCLE THEN 0 ELSE n + 1     \* mutant: a cycle too long
getSub(n) == IF n = CYCLE - 1 THEN 0 ELSE n + 1

(* The packet with which sub-period i starts, and the flags it sets.       *)
FirstOf(i) == (i - 1) * (CYCLE \div 4)
Previous(i) == IF i = 1 THEN 4 ELSE i - 1

(* revFlag3 is declared on register flag1.                                 *)
Raised(i) == IF i = 3 THEN 1 ELSE i

(* setValueXY_1 is chosen when the random byte is 0x11.                    *)
setValue(value, lucky) ==
  IF lucky \/ value < CAP THEN (value + 1) % CELL_VALUES ELSE value

(* apply, for a packet with TCP or UDP over IPv4; any other is dropped     *)
(* and leaves no trace.                                                    *)
apply(k) ==
  \E lucky \in BOOLEAN :
    LET cycleN == getSub(N)
        area   == (cycleN % 4) + 1
    IN  /\ SumFunction([i \in Areas |-> sent[i][k]]) < MaxPackets
        /\ N' = cycleN
        /\ flags' = IF cycleN = FirstOf(area)
                    THEN [flags EXCEPT ![Previous(area)] = 0, ![Raised(area)] = 1]
                    ELSE flags
        /\ sketch' = [sketch EXCEPT ![area] = [r \in Rows |->
             [sketch[area][r] EXCEPT ![hash[r][k]] = setValue(@, lucky)]]]
        /\ sent' = [sent EXCEPT ![area][k] = @ + 1]

Next == \E k \in Keys : apply(k)

Spec == Init /\ [][Next]_vars

-----------------------------------------------------------------------------
Total(i) == SumFunction(sent[i])

(* The packets spread evenly over the areas, also across the end of a      *)
(* cycle: a flow is counted in turn in all four, whatever sub-period it    *)
(* belongs to.                                                             *)
AreasBalanced == \A i, j \in Areas : Total(i) - Total(j) \in -1 .. 1

Load(i, r, c) == SumFunctionOnSet(sent[i], {k \in Keys : hash[r][k] = c})

(* Until a cell can have wrapped, it counts its packets exactly up to CAP  *)
(* and too few above, never too many.                                      *)
CellCounts ==
  \A i \in Areas, r \in Rows, c \in Cells :
    LET n == Load(i, r, c)
    IN  n < CELL_VALUES =>
          sketch[i][r][c] \in Min({n, CAP}) .. n

(* "Sub-period i: 0 means old data, 1 means new data" (l. 244, 261, 278,   *)
(* 295): while sub-period i lasts, it is flag i that says new data.        *)
NewDataIsFlagged ==
  \A i \in Areas :
    (\E j \in Areas : Total(j) > 0) /\ N \in FirstOf(i) .. FirstOf(i) + (CYCLE \div 4) - 1
      => flags[i] = 1

=============================================================================
