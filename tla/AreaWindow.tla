----------------------------- MODULE AreaWindow -----------------------------
(***************************************************************************)
(* The areas as a sliding window over the stream of keys: what a query     *)
(* adds up is exactly the insertions of the last epochs, through the reuse *)
(* of the areas and the wrap of their 16-bit epoch numbers.                *)
(***************************************************************************)
EXTENDS AreaRing, FiniteSets, Functions

VARIABLE log    \* ghost: the last AREA_NUM * window_size keys since a clear,
                \* by number

windowVars == <<areaVars, log>>

WindowInit == AreaInit /\ log = <<>>

(* The numbers of the last keys when there have been n.                    *)
Recent(n) == {m \in 1 .. n : m > n - AREA_NUM * window_size}

InsertKey(k) ==
  /\ EnterEpoch(k)
  /\ log' = [n \in Recent(sequence + 1) |-> IF n = sequence + 1 THEN k ELSE log[n]]

ClearKeys == ForgetSequence /\ log' = <<>>

-----------------------------------------------------------------------------
Times == 0 .. AREA_NUM

(* The keys that a query over `time' epochs can reach.  Within an epoch it *)
(* is the fourth; between two, before the next key arrives, the oldest     *)
(* area is not yet zeroed, and four epochs are over.                       *)
Reached(n, time) ==
  LET epoch == (n - 1) \div window_size
  IN  /\ epoch >= epoch_seq - time
      /\ sequence % window_size = 0 \/ epoch > epoch_seq - AREA_NUM

InWindow(k, time) ==
  Cardinality({n \in DOMAIN log : log[n] = k /\ Reached(n, time)})

CountedHeld(k, time) ==
  SumFunctionOnSet([i \in Areas |-> held[i][k]], {i \in Areas : Counted(i, time)})
CountedHeld16(k, time) ==
  SumFunctionOnSet([i \in Areas |-> held[i][k]], {i \in Areas : Counted16(i, time)})

(* clear in the first four epochs leaves areas whose epoch number comes up *)
(* again, so that they are not zeroed on their next turn but on the one    *)
(* after: up to seven epochs pass before no old insertion is left.         *)
Settled == clears > 0 => sequence > (2 * AREA_NUM - 1) * window_size

(* Before the 16-bit epoch wraps, a query over the last 0 to 4 epochs adds *)
(* up exactly the insertions made in them: none that an area still holds   *)
(* from an earlier turn, none lost to the zeroing of an area.  A clear is  *)
(* incomplete, but errs to one side only: what was inserted since the      *)
(* clear is never missed.                                                  *)
QueryExact ==
  epoch_seq < EPOCHS =>
    \A k \in Keys, time \in Times :
      LET counted == CountedHeld(k, time)
          came == InWindow(k, time)
      IN  counted >= came /\ (Settled => counted = came)

(* The query of BloomFilter_new, over four epochs, stays exact when the    *)
(* 16-bit epoch wraps, however long the sketch runs.                       *)
QueryExact16 ==
  Settled => \A k \in Keys : CountedHeld16(k, AREA_NUM) = InWindow(k, AREA_NUM)

(* What a query over the areas is worth: the last epochs exactly, in       *)
(* BloomFilter_new across the wrap of the epoch too, and after a clear     *)
(* nothing that came since is missed.                                      *)
WindowExact == QueryExact /\ QueryExact16

=============================================================================
