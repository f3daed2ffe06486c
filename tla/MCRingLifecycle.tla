--------------------------- MODULE MCRingLifecycle ---------------------------
(* The non-PMD thread and two PMD threads.  The names of PMD rings are     *)
(* made from `index', which is no variable of dp_netdev_configure_pmd but  *)
(* the function of strings.h: the same number for each of them.            *)
EXTENDS RingLifecycle

CONSTANTS main, pmd1, pmd2, r1, r2, rb_0, rb_x

MCThreads == {main, pmd1, pmd2}

MCNames == {rb_0, rb_x}

MCRingName == [t \in MCThreads |-> IF t = main THEN rb_0 ELSE rb_x]

MCReaderName == [r \in {r1, r2} |-> rb_0]

=============================================================================
