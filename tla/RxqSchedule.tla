---------------------------- MODULE RxqSchedule ----------------------------
(***************************************************************************)
(* Which thread polls which receive queue (dpif-netdev.c): the assignment  *)
(* of queues to PMD threads by one of three algorithms, the isolation of   *)
(* threads with pinned queues, and the automatic rebalancing that tries an *)
(* assignment out of place and compares its variance with the current one. *)
(*                                                                         *)
(* All of it runs in the main thread under port_mutex, so an operation is  *)
(* one step; what changes in between are the cycles the threads measure.   *)
(* How the threads come to poll what is assigned here is PmdReload.        *)
(***************************************************************************)
EXTENDS Integers, SequencesExt, FiniteSetsExt

CONSTANTS
  Cores,        \* cores of the machine, as numbers
  NumaOf,       \* the NUMA node of each core
  numa_walk,    \* the NUMA nodes as their hash map yields them
  PortNuma,     \* the NUMA node of each queue's port
  rxq_walk,     \* the queues as dp->ports and the ports yield them
  INTERVAL,     \* cycles of a thread in PMD_INTERVAL_MAX intervals
  THRESHOLD,    \* rebalance_improve_thresh, percent
  Masks,        \* bound: the sets of cores pmd-cpu-mask may name
  Affinities,   \* bound: the values of pmd-rxq-affinity
  Loads,        \* bound: what the queues may cost
  MaxChanges    \* bound: changes of the configuration

Rxqs == DOMAIN PortNuma
None == -1      \* OVS_CORE_UNSPEC, and a queue that no thread polls

ScheduleAssumption ==
  /\ Cores \subseteq Nat /\ IsFiniteSet(Cores)
  /\ Rxqs \subseteq Nat /\ IsFiniteSet(Rxqs)
  /\ NumaOf \in [Cores -> Nat] /\ numa_walk \in Seq(Nat) /\ rxq_walk \in Seq(Rxqs)
  /\ IsInjective(numa_walk) /\ Range(NumaOf) \subseteq Range(numa_walk)
  /\ IsInjective(rxq_walk) /\ Range(rxq_walk) = Rxqs
  /\ INTERVAL \in Nat \ {0} /\ THRESHOLD \in 0 .. 100
  /\ Masks \subseteq SUBSET Cores
  /\ Affinities \subseteq [Rxqs -> Cores \cup {None}]
  /\ Loads \subseteq [Rxqs -> Nat] /\ MaxChanges \in Nat

ASSUME ScheduleAssumption

VARIABLES
  pmd_cmask,    \* the cores threads are wanted on
  algo,         \* pmd_rxq_assign_type
  pmd_iso,      \* pmd-rxq-isolate
  affinity,     \* rxq->core_id
  auto_lb,      \* auto_lb_requested
  requested,    \* dp_netdev_is_reconf_required
  pmds,         \* the cores that have a PMD thread
  isolated,     \* pmd->isolated
  rxq_pmd,      \* rxq->pmd
  is_enabled,   \* pmd_alb->is_enabled
  cycles,       \* the queues' cycles, summed over the intervals (cycles_hist)
  intervals,    \* intervals of each thread since its reload: none, one, more
  changes       \* bound: how often the configuration has changed

scheduling == <<pmd_cmask, algo, pmd_iso>>
config     == <<scheduling, affinity, auto_lb>>
placing    == <<pmds, isolated, rxq_pmd>>
vars == <<config, requested, placing, is_enabled, cycles, intervals, changes>>

(* The mask names cores that are not there: no thread, nothing is polled.  *)
Init ==
  /\ pmd_cmask = {} /\ algo = "cycles" /\ pmd_iso = TRUE /\ auto_lb = FALSE
  /\ affinity = [q \in Rxqs |-> None]
  /\ requested = FALSE /\ is_enabled = FALSE /\ changes = 0
  /\ pmds = {} /\ isolated = <<>> /\ intervals = <<>>
  /\ rxq_pmd = [q \in Rxqs |-> None]
  /\ cycles = [q \in Rxqs |-> 0]

-----------------------------------------------------------------------------
(* The elements of a set, sorted (qsort, compare_poll_thread_list).        *)
InOrder(S, before(_, _)) ==
  [i \in 1 .. Cardinality(S) |->
     CHOOSE x \in S : Cardinality({y \in S : before(y, x)}) = i - 1]

(* A list of threads by NUMA node, each with the queues assigned to it     *)
(* (struct sched_numa_list): out of place, until it is put in place.       *)
(* next and up are the node's position in its walk over its threads.       *)
populate(threads) ==
  [pmds     |-> threads,
   isolated |-> [p \in threads |-> FALSE],
   rxqs     |-> [p \in threads |-> {}],
   next     |-> [n \in Range(numa_walk) |-> 1],
   up       |-> [n \in Range(numa_walk) |-> TRUE]]

PmdsOn(list, n)    == {p \in list.pmds : NumaOf[p] = n}
Available(list, n) == {p \in PmdsOn(list, n) : ~list.isolated[p]}
Numas(list)        == {NumaOf[p] : p \in list.pmds}

(* sched_pmd->pmd_proc_cycles                                              *)
Load(list, p) == SumFunctionOnSet(cycles, list.rxqs[p])

(* The queues pinned to a thread that exists go there, and isolate it if   *)
(* so configured.                                                          *)
pin(threads) ==
  LET pinned == [p \in threads |-> {q \in Rxqs : affinity[q] = p}]
  IN  [populate(threads) EXCEPT
         !.rxqs = pinned,
         !.isolated = [p \in threads |-> pmd_iso /\ pinned[p] # {}]]

(* The thread of the node with the fewest cycles or queues, the first of   *)
(* them by core.                                                           *)
get_lowest(list, n, has_cyc) ==
  LET Num(p) == IF has_cyc THEN Load(list, p) ELSE Cardinality(list.rxqs[p])
  IN  CHOOSE p \in Available(list, n) : \A o \in Available(list, n) :
        Num(p) < Num(o) \/ (Num(p) = Num(o) /\ p <= o)

(* One step of the walk over a node's threads, which starts over after the *)
(* last one or, if updown, turns back at either end.                       *)
next_rr(list, n, updown) ==
  LET i    == list.next[n]
      up   == list.up[n]
      last == Cardinality(PmdsOn(list, n))
  IN  [list EXCEPT
         !.next[n] = CASE up /\ i < last               -> i + 1
                       [] up /\ i = last /\ ~updown    -> 1
                       [] ~up /\ i > 1                 -> i - 1
                       [] OTHER                        -> i,
         !.up[n] = IF up THEN i < last \/ ~updown ELSE i = 1]

triesOnce(list, n) == Cardinality(PmdsOn(list, n))     \* mutant: n_pmds turns
tries(list, n) == 2 * Cardinality(PmdsOn(list, n))

(* The walk goes on until it has met a thread that is not isolated.        *)
next_noniso_rr(list, n, updown) ==
  LET cores == InOrder(PmdsOn(list, n), <)
      Try(found, turn) ==
        IF found.pmd # None THEN found
        ELSE LET p == cores[found.list.next[n]]
             IN  [list |-> next_rr(found.list, n, updown),
                  pmd  |-> IF found.list.isolated[p] THEN None ELSE p]
  IN  FoldLeft(Try, [list |-> list, pmd |-> None], [t \in 1 .. tries(list, n) |-> t])

(* The node of the queue's port if it has a thread that is not isolated,   *)
(* otherwise the first node of the walk that has one.  The code resumes    *)
(* that walk at last_cross_numa, which only moves past nodes without such  *)
(* a thread, and isolation does not change any more.                       *)
NumaFor(list, q) ==
  IF Available(list, PortNuma[q]) # {} THEN PortNuma[q]
  ELSE LET first == SelectInSeq(numa_walk, LAMBDA n : Available(list, n) # {})
       IN  IF first = 0 THEN None ELSE numa_walk[first]

(* sched_pmd_next: the list after the search, and what it found.           *)
Select(list, n, q) ==
  IF algo = "group" THEN [list |-> list, pmd |-> get_lowest(list, n, cycles[q] > 0)]
  ELSE next_noniso_rr(list, n, algo = "cycles")

assign(list, q) ==
  LET n     == NumaFor(list, q)
      found == Select(list, n, q)
  IN  IF n = None THEN list
      ELSE IF found.pmd = None THEN found.list
      ELSE [found.list EXCEPT !.rxqs[found.pmd] = @ \cup {q}]

(* The busiest queue comes first; equals in the order of their ports.      *)
compare_rxq_cyclesRising(a, b) ==       \* mutant: the order reversed
  cycles[a] < cycles[b] \/ (cycles[a] = cycles[b] /\ a < b)
compare_rxq_cycles(a, b) ==
  cycles[a] > cycles[b] \/ (cycles[a] = cycles[b] /\ a < b)

walked(a, b) ==
  \E i, j \in DOMAIN rxq_walk : i < j /\ rxq_walk[i] = a /\ rxq_walk[j] = b

(* The queues pinned to no existing thread are assigned one by one.        *)
schedule(threads) ==
  LET free  == {q \in Rxqs : affinity[q] \notin threads}
      order == IF algo = "roundrobin" THEN InOrder(free, walked)
               ELSE InOrder(free, compare_rxq_cycles)
  IN  FoldLeft(assign, pin(threads), order)

PmdOf(list, q) ==
  IF \E p \in list.pmds : q \in list.rxqs[p]
  THEN CHOOSE p \in list.pmds : q \in list.rxqs[p] ELSE None

-----------------------------------------------------------------------------
(* The current assignment as a list of its own.                            *)
assignmentsUnisolated ==      \* mutant: a pinned queue always isolates
  [populate(pmds) EXCEPT
     !.rxqs = [p \in pmds |-> {q \in Rxqs : rxq_pmd[q] = p}],
     !.isolated = [p \in pmds |-> \E q \in Rxqs : rxq_pmd[q] = p /\ affinity[q] # None]]
assignments ==
  [populate(pmds) EXCEPT
     !.rxqs = [p \in pmds |-> {q \in Rxqs : rxq_pmd[q] = p}],
     !.isolated = [p \in pmds |->
       pmd_iso /\ \E q \in Rxqs : rxq_pmd[q] = p /\ affinity[q] # None]]

(* The variance of the loads of the threads that the list does not call    *)
(* isolated; a thread without a full interval counts as idle.              *)
Busy(list, p) ==
  IF intervals[p] < 2 THEN 0 ELSE (Load(list, p) * 100) \div INTERVAL

variance(list) ==
  LET measured == {p \in list.pmds : ~list.isolated[p]}
      n        == Cardinality(measured)
      mean     == SumFunction([p \in measured |-> Busy(list, p)]) \div n
  IN  IF n = 0 THEN 0
      ELSE SumFunction([p \in measured |->
                          (Busy(list, p) - mean) * (Busy(list, p) - mean)]) \div n

(* The test looks at the thread that polls a queue now, rxq->pmd.          *)
cross_numa_polling(list) ==
  \E p \in list.pmds : /\ ~list.isolated[p]
                       /\ \E q \in list.rxqs[p] : NumaOf[rxq_pmd[q]] # PortNuma[q]

pmd_rebalance_dry_run ==
  LET est          == schedule(pmds)
      current_var  == variance(assignments)
      estimate_var == variance(est)
      improvement  == IF estimate_var >= current_var THEN 0
                      ELSE ((current_var - estimate_var) * 100) \div current_var
  IN  /\ ~cross_numa_polling(est) \/ Cardinality(Numas(est)) = 1
      /\ improvement >= THRESHOLD

-----------------------------------------------------------------------------
(* Rebalancing needs two threads that are not isolated, one of them with   *)
(* more than one queue.                                                    *)
set_pmd_auto_lb(wanted, how, iso, polling) ==
  LET free == {p \in DOMAIN iso : ~iso[p]}
      Polled(p) == {q \in Rxqs : polling[q] = p}
  IN  /\ wanted /\ how # "roundrobin"
      /\ Cardinality(free) > 1
      /\ \E p \in free : Cardinality(Polled(p)) > 1

(* dpif_netdev_set_config: pmd-rxq-isolate may be off for group only.  A   *)
(* call that changes nothing has no effect.                                *)
configure(mask, how, iso, lb) ==
  /\ pmd_cmask' = mask /\ algo' = how /\ pmd_iso' = (iso \/ how # "group")
  /\ auto_lb' = lb /\ UNCHANGED affinity
  /\ config' # config
  /\ requested' = (requested \/ scheduling' # scheduling)
  /\ changes' = changes + 1
  /\ UNCHANGED <<placing, cycles, intervals>>

set_configLate(mask, how, iso, lb) ==        \* mutant: rebalancing not reviewed
  configure(mask, how, iso, lb) /\ UNCHANGED is_enabled
set_config(mask, how, iso, lb) ==
  /\ configure(mask, how, iso, lb)
  /\ is_enabled' = set_pmd_auto_lb(lb, how, isolated, rxq_pmd)

(* dpif_netdev_port_set_config: pmd-rxq-affinity of a port.  A core may be *)
(* named that has no thread.                                               *)
set_rxq_affinity(cores) ==
  /\ cores # affinity
  /\ affinity' = cores /\ changes' = changes + 1
  /\ requested' = TRUE
  /\ UNCHANGED <<scheduling, auto_lb, placing, is_enabled, cycles,
                 intervals>>

(* A thread stores what its queues cost (dp_netdev_pmd_try_optimize).  The *)
(* first time after a reload it has no interval to store yet.  A thread    *)
(* without queues sleeps.                                                  *)
StoreCycles(p, load) ==
  /\ \E q \in Rxqs : rxq_pmd[q] = p
  /\ cycles' = [q \in Rxqs |-> IF rxq_pmd[q] = p THEN load[q] ELSE cycles[q]]
  /\ intervals' = [intervals EXCEPT ![p] = IF @ < 2 THEN @ + 1 ELSE 2]
  /\ UNCHANGED <<config, requested, placing, is_enabled, changes>>

(* The threads are made to fit the mask and the queues are assigned anew.  *)
(* A thread is reloaded when its queues change, and all are when there are *)
(* fewer than before (reload_tx_qid).  A reload forgets the intervals, but *)
(* a thread that has lost all its queues sleeps before it comes to that:   *)
(* its old ones stay until it is woken for new queues.  (The ports have    *)
(* transmit queues enough; how they are reconfigured is PmdReload.)        *)
reconfigure_datapath ==
  LET list     == schedule(pmd_cmask)
      Keeps(p) == /\ p \in pmds /\ Cardinality(pmd_cmask) >= Cardinality(pmds)
                  /\ list.rxqs[p] \in {{}, {q \in Rxqs : rxq_pmd[q] = p}}
  IN  /\ pmds' = pmd_cmask
      /\ isolated' = list.isolated
      /\ rxq_pmd' = [q \in Rxqs |-> PmdOf(list, q)]
      /\ intervals' = [p \in pmd_cmask |-> IF Keeps(p) THEN intervals[p] ELSE 0]
      /\ requested' = FALSE
      /\ is_enabled' = set_pmd_auto_lb(auto_lb, algo, isolated', rxq_pmd')
      /\ UNCHANGED <<config, cycles, changes>>

(* dpif_netdev_run.  `due': the rebalancing interval is over and a thread  *)
(* was overloaded for PMD_INTERVAL_MAX intervals.                          *)
run(due) ==
  LET reconf == requested \/ (is_enabled /\ due /\ pmd_rebalance_dry_run)
  IN  \/ reconf /\ reconfigure_datapath
      \/ ~reconf /\ UNCHANGED vars

Next ==
  \/ /\ changes < MaxChanges
     /\ \/ \E mask \in Masks, how \in {"roundrobin", "cycles", "group"},
              iso, lb \in BOOLEAN : set_config(mask, how, iso, lb)
        \/ \E cores \in Affinities : set_rxq_affinity(cores)
  \/ \E p \in pmds, load \in Loads : StoreCycles(p, load)
  \/ \E due \in BOOLEAN : run(due)

Spec == Init /\ [][Next]_vars

-----------------------------------------------------------------------------
Misplaced == {q \in Rxqs : affinity[q] \notin pmds \cup {None}}

(* When nothing waits to be reconfigured: a queue pinned to a thread is    *)
(* polled by it; any other is polled if there is a thread that is not      *)
(* isolated, by such a thread, and by one of its own NUMA node if that has *)
(* one.  Exactly the threads with pinned queues are isolated.  However     *)
(* many isolated threads the walk over a node has to pass, no queue is     *)
(* left out.                                                               *)
PlacementSound ==
  ~requested =>
    LET free == {p \in pmds : ~isolated[p]}
    IN  /\ \A p \in pmds : isolated[p] <=> pmd_iso /\ \E q \in Rxqs : affinity[q] = p
        /\ \A q \in Rxqs :
             \/ affinity[q] \in pmds /\ rxq_pmd[q] = affinity[q]
             \/ /\ affinity[q] \notin pmds
                /\ rxq_pmd[q] \in (IF free = {} THEN {None} ELSE free)
                /\ (\E p \in free : NumaOf[p] = PortNuma[q]) =>
                     NumaOf[rxq_pmd[q]] = PortNuma[q]

(* A step that moves queues leaves the threads of a NUMA node balanced:    *)
(* with roundrobin and cycles the numbers of queues placed by the walk     *)
(* differ by one at most; with group a thread has no more work than        *)
(* another would have with the least of the first one's assigned queues.   *)
Placed(p)  == {q \in Rxqs : rxq_pmd[q] = p /\ affinity[q] # p}
Working(p) == {q \in Placed(p) : cycles[q] > 0}
Work(p)    == SumFunctionOnSet(cycles, {q \in Rxqs : rxq_pmd[q] = p})
Least(p)   == Min({cycles[q] : q \in Working(p)})

Balanced(x, y) ==
  IF algo = "group" THEN Working(x) # {} => Work(x) - Least(x) <= Work(y)
  ELSE Cardinality(Placed(x)) <= Cardinality(Placed(y)) + 1

BalancedPlacement ==
  \A x, y \in pmds :
    ~isolated[x] /\ ~isolated[y] /\ NumaOf[x] = NumaOf[y] => Balanced(x, y)

MovesBalance == [][rxq_pmd' # rxq_pmd => BalancedPlacement']_vars

(* The dry run stands on firm ground: rebalancing is on only for an        *)
(* algorithm that uses cycles, with two threads to balance between; a      *)
(* queue it would place anew is polled by a thread now, so that            *)
(* cross_numa_polling can follow rxq->pmd, and the verdict from the        *)
(* current threads is the one from the estimated threads.                  *)
DryRunGrounded ==
  is_enabled =>
    /\ auto_lb /\ algo # "roundrobin"
    /\ Cardinality({p \in pmds : ~isolated[p]}) > 1
    /\ ~requested =>
         LET est == schedule(pmds)
             free == {p \in pmds : ~est.isolated[p]}
         IN  /\ \A p \in free, q \in Rxqs : q \in est.rxqs[p] => rxq_pmd[q] # None
             /\ cross_numa_polling(est) <=>
                  \E p \in free : \E q \in est.rxqs[p] : NumaOf[p] # PortNuma[q]

(* A rebalancing is asked for only when it would move a queue, provided    *)
(* some improvement is required and every pinned queue is pinned to a      *)
(* thread that exists.                                                     *)
RebalanceMoves ==
  (is_enabled /\ ~requested /\ Misplaced = {} /\ THRESHOLD > 0
   /\ pmd_rebalance_dry_run) =>
    LET est == schedule(pmds) IN \E q \in Rxqs : PmdOf(est, q) # rxq_pmd[q]

(* What the comment at dpif-netdev.c:5534 says of both variances: they     *)
(* leave out the isolated threads, and no other.                           *)
VarianceExcludesIsolated ==
  is_enabled /\ ~requested => assignments.isolated = isolated

=============================================================================
