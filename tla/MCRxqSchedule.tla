--------------------------- MODULE MCRxqSchedule ---------------------------
(* Two cores on NUMA node 0 and one on node 1; a port with three queues on *)
(* node 0, of which two may be pinned, and a port with one on node 1.      *)
EXTENDS RxqSchedule

MCNumaOf    == <<0, 0, 1>>
MCNumaWalk  == <<1, 0>>
MCPortNuma  == <<0, 0, 0, 1>>
MCRxqWalk   == <<4, 1, 2, 3>>
MCMasks     == {{1, 2}, {1, 3}, {1, 2, 3}}

(* Not pinned; one queue on core 1; one on core 3, which some masks leave  *)
(* out; one each on the cores of node 0.                                   *)
MCAffinities == {<<None, None, None, None>>, <<1, None, None, None>>,
                 <<3, None, None, None>>, <<1, 2, None, None>>}

MCLoads == {<<1, 1, 3, 2>>, <<4, 2, 0, 1>>}

=============================================================================
