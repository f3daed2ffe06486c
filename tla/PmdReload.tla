------------------------------ MODULE PmdReload ------------------------------
(***************************************************************************)
(* How dpif-netdev.c hands receive queues, transmit ports and transmit     *)
(* queue ids to its polling threads (PMDs).  The main thread keeps, for    *)
(* every PMD, the lists it should work from; a PMD works from private      *)
(* copies and refreshes them only when the main thread raises its 'reload' *)
(* flag.  reconfigure_datapath() relies on that handshake for everything   *)
(* it does: stop using a port before reconfiguring it, stop polling a      *)
(* queue before another thread starts.                                     *)
(*                                                                         *)
(* The main thread's critical sections over one PMD's lists are atomic     *)
(* (pmd->port_mutex); everything else interleaves with the PMDs one flag   *)
(* at a time.  A PMD's iteration ends with the check of 'reload'; inside   *)
(* the iteration write_ringbuffer() may hold it until the ring's reader    *)
(* makes room.                                                             *)
(***************************************************************************)
EXTENDS Integers, FiniteSets

CONSTANTS
    Cores,     \* the cores a PMD may run on
    NonPmd,    \* NON_PMD_CORE_ID, the entry of poll_threads with no thread
    Ports, PmdPorts,   \* the devices, and those with netdev_is_pmd()
    Rxqs, PortOf,      \* their receive queues, and the port of each
    MaxTxq,    \* the transmit queues each device can have
    None       \* a NULL q->pmd

ASSUME PmdAssumption ==
    /\ IsFiniteSet(Cores) /\ NonPmd \notin Cores
    /\ None \notin Cores \cup {NonPmd} \cup Nat
    /\ PmdPorts \subseteq Ports
    /\ PortOf \in [Rxqs -> Ports]
    /\ MaxTxq \in [Ports -> Nat \ {0}]

Threads == Cores \cup {NonPmd}

VARIABLES
    \* the datapath, owned by the main thread
    ports,             \* dp->ports
    need_reconfigure,  \* the ports so marked
    reconf_required,   \* the ports whose device asks to be reconfigured
    n_txq,             \* netdev_n_txq() of each device
    dynamic_txqs,      \* the ports shared by XPS
    pmd_cores,         \* the cores of pmd-cpu-mask
    reconf_requested,  \* reconfigure_seq # last_reconfigure_seq
    rxq_pmd,           \* q->pmd
    dying,             \* the port do_del_port() is to destroy, as a set
    main, ret,         \* where the main thread is, and where a reload returns
    todo, cur,         \* what is left of its loop, and the thread it is at
    adjust,            \* need_to_adjust_static_tx_qids
    \* one entry per thread, shared between it and the main thread
    poll_threads,      \* dp->poll_threads
    need_reload, poll_list, tx_ports,
    reload, wait_for_reload, reload_tx_qid, exit,
    new_seq,           \* reload_seq # last_reload_seq
    \* private to each thread
    pc, polled, cached, flags, static_tx_qid,
    xps,               \* the cached ports whose tx->qid is set
    txq_used           \* per port, the sum of its txq_used counters

mainVars == <<ports, need_reconfigure, reconf_required, n_txq, dynamic_txqs,
              pmd_cores, reconf_requested, rxq_pmd, dying, main, ret, todo, cur,
              adjust>>
sharedVars == <<poll_threads, need_reload, poll_list, tx_ports, reload,
                wait_for_reload, reload_tx_qid, exit, new_seq>>
localVars == <<pc, polled, cached, flags, static_tx_qid, xps, txq_used>>
vars == <<mainVars, sharedVars, localVars>>

-----------------------------------------------------------------------------
(* Helpers. *)

\* cmap_count(&dp->poll_threads): one transmit queue per thread.
wanted_txqs == Cardinality(poll_threads)

\* What netdev_reconfigure() grants of netdev_set_tx_multiq(wanted_txqs).
Granted(p) == IF wanted_txqs < MaxTxq[p] THEN wanted_txqs ELSE MaxTxq[p]

\* netdev_is_reconf_required(): an option of the device changed, or it has
\* not the number of transmit queues it was asked for.
netdev_is_reconf_required(p) ==
    p \in reconf_required \/ n_txq[p] # Granted(p)

\* The cores that should run a PMD: none without a PMD port.
WantedCores == IF ports \cap PmdPorts = {} THEN {} ELSE pmd_cores

\* A wrong pool, which does not know of the non-PMD entry's id.
FreeTxQidsUnreserved == (0 .. Cardinality(Cores)) \
              {static_tx_qid[t] : t \in {u \in Cores : static_tx_qid[u] # None}}

\* id_pool_alloc_id() hands out the lowest free id.
FreeTxQids == (0 .. Cardinality(Cores)) \
              {static_tx_qid[t] : t \in {u \in Threads : static_tx_qid[u] # None}}

PmdThreads == poll_threads \ {NonPmd}

\* pmd_free_cached_ports(): every transmit queue id XPS gave is returned.
xps_revalidate_pmd(t) ==
    /\ txq_used' = [p \in Ports |->
          IF p \in xps[t] \cap dynamic_txqs THEN txq_used[p] - 1 ELSE txq_used[p]]
    /\ xps' = [xps EXCEPT ![t] = {}]

\* pmd_load_cached_ports(), after the old cache is dropped.
pmd_load_cached_ports(t) ==
    /\ xps_revalidate_pmd(t)
    /\ cached' = [cached EXCEPT ![t] = tx_ports[t]]

pmd_load_queues_and_ports(t) ==
    /\ polled' = [polled EXCEPT ![t] = poll_list[t]]
    /\ pmd_load_cached_ports(t)

\* The label 'reload': a thread with no queue spins or sleeps.
AtReload(t, queues, wait) ==
    IF queues # {} THEN "poll" ELSE IF wait THEN "spin" ELSE "sleep"

\* A wrong reconfiguration: the reload before step 3, before step 6 or at
\* the end is missing.
BeginReloadNotBeforePorts(next, needy) ==
    /\ main' = (IF next = "ports" THEN next ELSE "reload") /\ ret' = next
    /\ todo' = {t \in poll_threads : needy[t]}

BeginReloadNotBeforeAdd(next, needy) ==
    /\ main' = (IF next = "add" THEN next ELSE "reload") /\ ret' = next
    /\ todo' = {t \in poll_threads : needy[t]}

BeginReloadNotAtEnd(next, needy) ==
    /\ main' = (IF next = "end" THEN next ELSE "reload") /\ ret' = next
    /\ todo' = {t \in poll_threads : needy[t]}

\* reload_affected_pmds() is called, to go on at 'next'.
BeginReload(next, needy) ==
    /\ main' = "reload" /\ ret' = next
    /\ todo' = {t \in poll_threads : needy[t]}

-----------------------------------------------------------------------------
(* create_dp_netdev(): the non-PMD entry exists first and holds id 0. *)

Init ==
    /\ ports = {} /\ need_reconfigure = {} /\ reconf_required = {} /\ dying = {}
    /\ n_txq = [p \in Ports |-> 1] /\ dynamic_txqs = {}
    /\ pmd_cores \in SUBSET Cores \ {{}}
    /\ reconf_requested = FALSE
    /\ rxq_pmd = [q \in Rxqs |-> None]
    /\ main = "idle" /\ ret = "idle" /\ todo = {} /\ cur = None
    /\ adjust = FALSE
    /\ poll_threads = {NonPmd}
    /\ need_reload = [t \in Threads |-> FALSE]
    /\ poll_list = [t \in Threads |-> {}]
    /\ tx_ports = [t \in Threads |-> {}]
    /\ reload = [t \in Threads |-> FALSE]
    /\ wait_for_reload = [t \in Threads |-> FALSE]
    /\ reload_tx_qid = [t \in Threads |-> FALSE]
    /\ exit = [t \in Threads |-> FALSE]
    /\ new_seq = [t \in Threads |-> FALSE]
    /\ pc = [t \in Threads |-> "none"]
    /\ polled = [t \in Threads |-> {}]
    /\ cached = [t \in Threads |-> {}]
    /\ flags = [t \in Threads |-> {}]
    /\ static_tx_qid = [t \in Threads |-> IF t = NonPmd THEN 0 ELSE None]
    /\ xps = [t \in Threads |-> {}]
    /\ txq_used = [p \in Ports |-> 0]

-----------------------------------------------------------------------------
(* The main thread between reconfigurations. *)

\* reconfigure_datapath() begins: last_reconfigure_seq is read here.
StartReconfiguration ==
    /\ main' = "threads"
    /\ reconf_requested' = FALSE

\* do_add_port(): a freshly opened device has one transmit queue.
AddPort(p) ==
    /\ main = "idle" /\ p \notin ports
    /\ ports' = ports \cup {p}
    /\ need_reconfigure' = need_reconfigure \cup {p}
    /\ n_txq' = [n_txq EXCEPT ![p] = 1]
    /\ dynamic_txqs' = dynamic_txqs \ {p}
    /\ StartReconfiguration
    /\ UNCHANGED <<reconf_required, pmd_cores, rxq_pmd, dying, ret, todo, cur, adjust,
                   sharedVars, localVars>>

\* do_del_port(): the port leaves dp->ports now and is destroyed at the end.
DelPort(p) ==
    /\ main = "idle" /\ p \in ports
    /\ ports' = ports \ {p}
    /\ dying' = {p}
    /\ StartReconfiguration
    /\ UNCHANGED <<need_reconfigure, reconf_required, n_txq, dynamic_txqs,
                   pmd_cores, rxq_pmd, ret, todo, cur, adjust, sharedVars, localVars>>

\* dp_netdev_request_reconfigure(): a new pmd-cpu-mask, new affinities or
\* the load balancer.
RequestReconfigure(cores) ==
    /\ main = "idle" /\ ~reconf_requested
    /\ pmd_cores' = cores
    /\ reconf_requested' = TRUE
    /\ UNCHANGED <<ports, need_reconfigure, reconf_required, n_txq, dynamic_txqs,
                   rxq_pmd, dying, main, ret, todo, cur, adjust, sharedVars, localVars>>

\* The tail of dpif_netdev_run().
RunReconfiguration ==
    /\ main = "idle"
    /\ reconf_requested \/ \E p \in ports : netdev_is_reconf_required(p)
    /\ StartReconfiguration
    /\ UNCHANGED <<ports, need_reconfigure, reconf_required, n_txq, dynamic_txqs,
                   pmd_cores, rxq_pmd, dying, ret, todo, cur, adjust, sharedVars, localVars>>

\* A device may ask for it at any time.
DeviceChanges(p) ==
    /\ p \in ports \ reconf_required
    /\ reconf_required' = reconf_required \cup {p}
    /\ UNCHANGED <<ports, need_reconfigure, n_txq, dynamic_txqs, pmd_cores,
                   reconf_requested, rxq_pmd, dying, main, ret, todo, cur, adjust,
                   sharedVars, localVars>>

-----------------------------------------------------------------------------
(* Step 1: reconfigure_pmd_threads(). *)

\* A wrong comparison, which counts the non-PMD entry twice.
FewerPmdsOffByOne == Cardinality(WantedCores) < wanted_txqs - 2

\* need_to_adjust_static_tx_qids: otherwise the new threads take the ids freed.
FewerPmds == Cardinality(WantedCores) < wanted_txqs - 1

CheckThreads ==
    LET gone == PmdThreads \ WantedCores
        kept == IF FewerPmds THEN PmdThreads \ gone ELSE {}
    IN /\ main = "threads"
       /\ adjust' = FewerPmds
       /\ reload_tx_qid' = [t \in Threads |-> t \in kept \/ reload_tx_qid[t]]
       /\ need_reload' = [t \in Threads |-> t \in kept \/ need_reload[t]]
       /\ main' = "delete" /\ todo' = gone
       /\ UNCHANGED <<ports, need_reconfigure, reconf_required, n_txq, dynamic_txqs,
                      pmd_cores, reconf_requested, rxq_pmd, dying, ret, cur,
                      poll_threads, poll_list, tx_ports, reload, wait_for_reload,
                      exit, new_seq, localVars>>

\* The part of mainVars that no step of the thread bookkeeping touches.
datapath == <<ports, need_reconfigure, reconf_required, n_txq, dynamic_txqs,
              pmd_cores, reconf_requested, rxq_pmd, dying>>

\* dp_netdev_del_pmd(), in the order of its stores: 'exit', the sequence
\* number, 'reload', and then it joins the thread.
DelPmd(t) ==
    /\ main = "delete" /\ t \in todo
    /\ exit' = [exit EXCEPT ![t] = TRUE]
    /\ new_seq' = [new_seq EXCEPT ![t] = TRUE]
    /\ main' = "delete_reload" /\ cur' = t
    /\ UNCHANGED <<datapath, ret, todo, adjust, poll_threads, need_reload, poll_list,
                   tx_ports, reload, wait_for_reload, reload_tx_qid, localVars>>

DelPmdReload(t) ==
    /\ main = "delete_reload" /\ cur = t
    /\ reload' = [reload EXCEPT ![t] = TRUE]
    /\ main' = "join"
    /\ UNCHANGED <<datapath, ret, todo, cur, adjust, poll_threads, need_reload,
                   poll_list, tx_ports, wait_for_reload, reload_tx_qid, exit,
                   new_seq, localVars>>

\* xpthread_join(), dp_netdev_pmd_clear_ports(), cmap_remove().
DelPmdJoin(t) ==
    /\ main = "join" /\ cur = t
    /\ pc[t] = "exited"
    /\ poll_list' = [poll_list EXCEPT ![t] = {}]
    /\ tx_ports' = [tx_ports EXCEPT ![t] = {}]
    /\ poll_threads' = poll_threads \ {t}
    /\ pc' = [pc EXCEPT ![t] = "none"]
    /\ todo' = todo \ {t}
    /\ main' = "delete" /\ cur' = None
    /\ UNCHANGED <<datapath, ret, adjust, need_reload, reload, wait_for_reload,
                   reload_tx_qid, exit, new_seq, polled, cached, flags,
                   static_tx_qid, xps, txq_used>>

AllDeleted ==
    /\ main = "delete" /\ todo = {}
    /\ IF adjust THEN BeginReload("create", need_reload)
                 ELSE main' = "create" /\ UNCHANGED <<ret, todo>>
    /\ UNCHANGED <<datapath, cur, adjust, sharedVars, localVars>>

\* dp_netdev_configure_pmd() and ovs_thread_create().
CreatePmd(t) ==
    /\ main = "create" /\ t \in WantedCores \ poll_threads
    /\ poll_threads' = poll_threads \cup {t}
    /\ need_reload' = [need_reload EXCEPT ![t] = FALSE]
    /\ reload' = [reload EXCEPT ![t] = FALSE]
    /\ exit' = [exit EXCEPT ![t] = FALSE]
    /\ new_seq' = [new_seq EXCEPT ![t] = FALSE]
    /\ wait_for_reload' = [wait_for_reload EXCEPT ![t] = FALSE]
    /\ reload_tx_qid' = [reload_tx_qid EXCEPT ![t] = FALSE]
    /\ pc' = [pc EXCEPT ![t] = "start"]
    /\ flags' = [flags EXCEPT ![t] = {}]
    /\ UNCHANGED <<mainVars, poll_list, tx_ports, polled, cached, static_tx_qid,
                   xps, txq_used>>

AllCreated ==
    /\ main = "create" /\ WantedCores \subseteq poll_threads
    /\ main' = "stale"
    /\ UNCHANGED <<datapath, ret, todo, cur, adjust, sharedVars, localVars>>

-----------------------------------------------------------------------------
(* reload_affected_pmds(): signal every thread that needs it, then wait.   *)

\* The non-PMD entry has no thread: its cache is reloaded on the spot.
ReloadNonPmd ==
    /\ main = "reload" /\ NonPmd \in todo
    /\ pmd_load_cached_ports(NonPmd)
    /\ todo' = todo \ {NonPmd}
    /\ UNCHANGED <<datapath, main, ret, cur, adjust, sharedVars, pc, polled,
                   flags, static_tx_qid>>

\* dp_netdev_reload_pmd__(): first the sequence number, to wake a sleeper...
ReloadSeq(t) ==
    /\ main = "reload" /\ t \in todo \ {NonPmd}
    /\ new_seq' = [new_seq EXCEPT ![t] = TRUE]
    /\ main' = "reload_flag" /\ cur' = t
    /\ UNCHANGED <<datapath, ret, todo, adjust, poll_threads, need_reload,
                   poll_list, tx_ports, reload, wait_for_reload, reload_tx_qid,
                   exit, localVars>>

\* ... then the flag.
ReloadFlag(t) ==
    /\ main = "reload_flag" /\ cur = t
    /\ reload' = [reload EXCEPT ![t] = TRUE]
    /\ main' = "reload" /\ cur' = None /\ todo' = todo \ {t}
    /\ UNCHANGED <<datapath, ret, adjust, poll_threads, need_reload, poll_list,
                   tx_ports, wait_for_reload, reload_tx_qid, exit, new_seq,
                   localVars>>

AllSignalled ==
    /\ main = "reload" /\ todo = {}
    /\ main' = "wait" /\ todo' = {t \in poll_threads : need_reload[t]}
    /\ UNCHANGED <<datapath, ret, cur, adjust, sharedVars, localVars>>

WaitReloaded(t) ==
    /\ main = "wait" /\ t \in todo
    /\ ~reload[t]
    /\ need_reload' = [need_reload EXCEPT ![t] = FALSE]
    /\ todo' = todo \ {t}
    /\ UNCHANGED <<datapath, main, ret, cur, adjust, poll_threads, poll_list,
                   tx_ports, reload, wait_for_reload, reload_tx_qid, exit,
                   new_seq, localVars>>

AllReloaded ==
    /\ main = "wait" /\ todo = {}
    /\ main' = ret
    /\ UNCHANGED <<datapath, ret, todo, cur, adjust, sharedVars, localVars>>

-----------------------------------------------------------------------------
(* Step 2: mark the ports to reconfigure and take them from the threads.   *)

RemoveStalePorts ==
    LET marked == need_reconfigure \cup
                  {p \in ports : \/ netdev_is_reconf_required(p)
                                 \/ (p \in dynamic_txqs) # (n_txq[p] < wanted_txqs)}
        stale == marked \cup (Ports \ ports)
        kept(t) == {q \in poll_list[t] : PortOf[q] \notin stale}
    IN /\ main = "stale"
       /\ need_reconfigure' = marked
       /\ poll_list' = [t \in Threads |-> kept(t)]
       /\ tx_ports' = [t \in Threads |-> tx_ports[t] \ stale]
       /\ need_reload' = [t \in Threads |-> \/ need_reload[t]
                                            \/ kept(t) # poll_list[t]
                                            \/ tx_ports[t] \cap stale # {}]
       /\ BeginReload("ports", need_reload')
       /\ UNCHANGED <<ports, reconf_required, n_txq, dynamic_txqs, pmd_cores,
                      reconf_requested, rxq_pmd, dying, cur, adjust, poll_threads,
                      reload, wait_for_reload, reload_tx_qid, exit, new_seq,
                      localVars>>

(* Step 3: reconfigure them; a port that fails is removed and destroyed.   *)

PortReconfigured(p) ==
    /\ main = "ports" /\ p \in need_reconfigure \cap ports
    /\ n_txq' = [n_txq EXCEPT ![p] = Granted(p)]
    /\ dynamic_txqs' = IF Granted(p) < wanted_txqs THEN dynamic_txqs \cup {p}
                                                   ELSE dynamic_txqs \ {p}
    /\ txq_used' = [txq_used EXCEPT ![p] = 0]
    /\ need_reconfigure' = need_reconfigure \ {p}
    /\ reconf_required' = reconf_required \ {p}
    /\ UNCHANGED <<ports, pmd_cores, reconf_requested, rxq_pmd, dying, main, ret,
                   todo, cur, adjust, sharedVars, pc, polled, cached, flags,
                   static_tx_qid, xps>>

PortFails(p) ==
    /\ main = "ports" /\ p \in need_reconfigure \cap ports
    /\ ports' = ports \ {p}
    /\ need_reconfigure' = need_reconfigure \ {p}
    /\ reconf_required' = reconf_required \ {p}
    /\ UNCHANGED <<n_txq, dynamic_txqs, pmd_cores, reconf_requested, rxq_pmd,
                   dying, main, ret, todo, cur, adjust, sharedVars, localVars>>

(* Step 4: rxq_scheduling() may give a queue of a PMD port to any PMD, or  *)
(* to none when all are isolated (RxqSchedule has the algorithm).          *)

ScheduleRxqs ==
    /\ main = "ports" /\ need_reconfigure \cap ports = {}
    /\ rxq_pmd' \in {f \in [Rxqs -> PmdThreads \cup {None}] :
                       \A q \in Rxqs : PortOf[q] \notin ports \cap PmdPorts => f[q] = None}
    /\ main' = "drop"
    /\ UNCHANGED <<ports, need_reconfigure, reconf_required, n_txq, dynamic_txqs,
                   pmd_cores, reconf_requested, dying, ret, todo, cur, adjust,
                   sharedVars, localVars>>

(* Step 5: take from each thread the queues that go elsewhere.  One that   *)
(* loses all it had but is about to get others must not fall asleep.       *)

\* A wrong test: every thread that lost its queues is told to spin.
BusyAny(t) == TRUE

\* busy_threads: the threads with at least one queue to poll.
Busy(t) == \E q \in Rxqs : rxq_pmd[q] = t

DropQueues ==
    LET kept(t) == {q \in poll_list[t] : rxq_pmd[q] = t}
    IN /\ main = "drop"
       /\ poll_list' = [t \in Threads |-> kept(t)]
       /\ need_reload' = [t \in Threads |-> need_reload[t] \/ kept(t) # poll_list[t]]
       /\ wait_for_reload' = [t \in Threads |->
             \/ wait_for_reload[t]
             \/ kept(t) = {} /\ poll_list[t] # {} /\ Busy(t)]
       /\ BeginReload("add", need_reload')
       /\ UNCHANGED <<datapath, cur, adjust, poll_threads, tx_ports, reload,
                      reload_tx_qid, exit, new_seq, localVars>>

(* Step 6: give each thread its new queues, one at a time, and then every  *)
(* port to every thread that has something to poll.                        *)

AddQueue(q) ==
    /\ main = "add"
    /\ rxq_pmd[q] # None /\ q \notin poll_list[rxq_pmd[q]]
    /\ poll_list' = [poll_list EXCEPT ![rxq_pmd[q]] = @ \cup {q}]
    /\ need_reload' = [need_reload EXCEPT ![rxq_pmd[q]] = TRUE]
    /\ UNCHANGED <<mainVars, poll_threads, tx_ports, reload, wait_for_reload,
                   reload_tx_qid, exit, new_seq, localVars>>

AddTxPorts ==
    LET sending == {t \in poll_threads : poll_list[t] # {} \/ t = NonPmd}
    IN /\ main = "add"
       /\ \A q \in Rxqs : rxq_pmd[q] # None => q \in poll_list[rxq_pmd[q]]
       /\ tx_ports' = [t \in Threads |->
                         IF t \in sending THEN tx_ports[t] \cup ports ELSE tx_ports[t]]
       /\ need_reload' = [t \in Threads |->
                            need_reload[t] \/ (t \in sending /\ ~(ports \subseteq tx_ports[t]))]
       /\ BeginReload("end", need_reload')
       /\ UNCHANGED <<datapath, cur, adjust, poll_threads, poll_list, reload,
                      wait_for_reload, reload_tx_qid, exit, new_seq, localVars>>

\* do_del_port() destroys the port it removed.
EndReconfiguration ==
    /\ main = "end"
    /\ main' = "idle" /\ ret' = "idle" /\ adjust' = FALSE
    /\ dying' = {} /\ need_reconfigure' = need_reconfigure \ dying
    /\ reconf_required' = reconf_required \ dying
    /\ UNCHANGED <<ports, n_txq, dynamic_txqs, pmd_cores, reconf_requested,
                   rxq_pmd, todo, cur, sharedVars, localVars>>

-----------------------------------------------------------------------------
(* pmd_thread_main().                                                      *)

PmdStart(t) ==
    /\ pc[t] = "start"
    /\ pmd_load_queues_and_ports(t)
    /\ pc' = [pc EXCEPT ![t] = "alloc"]
    /\ UNCHANGED <<mainVars, sharedVars, flags, static_tx_qid>>

PmdAllocTxQid(t) ==
    /\ pc[t] = "alloc"
    /\ \E id \in FreeTxQids :
          /\ \A other \in FreeTxQids : id <= other
          /\ static_tx_qid' = [static_tx_qid EXCEPT ![t] = id]
    /\ pc' = [pc EXCEPT ![t] = IF "exit" \in flags[t] THEN "leave"
                               ELSE AtReload(t, polled[t], "wait" \in flags[t])]
    /\ UNCHANGED <<mainVars, sharedVars, polled, cached, flags, xps, txq_used>>

\* A thread with nothing to poll leaves its sleep on a new sequence number
\* and its spin on the flag itself.
PmdWake(t) ==
    /\ \/ pc[t] = "sleep" /\ new_seq[t]
       \/ pc[t] = "spin" /\ reload[t]
    /\ pc' = [pc EXCEPT ![t] = "poll"]
    /\ UNCHANGED <<mainVars, sharedVars, polled, cached, flags, static_tx_qid,
                   xps, txq_used>>

\* One iteration over its queues, from one check of 'reload' to the next.
\* It ends only when the reader of the thread's ring has made room.
PmdIterate(t) ==
    /\ pc[t] = "poll" /\ ~reload[t] /\ polled[t] # {}
    /\ pc' = [pc EXCEPT ![t] = "work"]
    /\ UNCHANGED <<mainVars, sharedVars, polled, cached, flags, static_tx_qid,
                   xps, txq_used>>

PmdIterated(t) ==
    /\ pc[t] = "work"
    /\ pc' = [pc EXCEPT ![t] = "poll"]
    /\ UNCHANGED <<mainVars, sharedVars, polled, cached, flags, static_tx_qid,
                   xps, txq_used>>

\* The non-PMD entry is driven by dpif_netdev_run() and, at any time, by
\* whoever calls dpif_netdev_execute().
Sending(t) == t = NonPmd \/ pc[t] = "work"

\* dpif_netdev_xps_get_tx_qid(): the first packet to a shared port takes one
\* of its queues, and an idle one is given back.
SendXps(t, p) ==
    /\ Sending(t) /\ p \in (cached[t] \cap dynamic_txqs) \ xps[t]
    /\ xps' = [xps EXCEPT ![t] = @ \cup {p}]
    /\ txq_used' = [txq_used EXCEPT ![p] = @ + 1]
    /\ UNCHANGED <<mainVars, sharedVars, pc, polled, cached, flags, static_tx_qid>>

ExpireXps(t, p) ==
    /\ Sending(t) /\ p \in xps[t] \cap dynamic_txqs
    /\ xps' = [xps EXCEPT ![t] = @ \ {p}]
    /\ txq_used' = [txq_used EXCEPT ![p] = @ - 1]
    /\ UNCHANGED <<mainVars, sharedVars, pc, polled, cached, flags, static_tx_qid>>

\* 'reload' is seen: take the new lists and flags...
PmdLoad(t) ==
    /\ pc[t] = "poll" /\ reload[t]
    /\ pmd_load_queues_and_ports(t)
    /\ flags' = [flags EXCEPT ![t] = {f \in {"wait", "tx_qid", "exit"} :
                    \/ f = "wait" /\ wait_for_reload[t]
                    \/ f = "tx_qid" /\ reload_tx_qid[t]
                    \/ f = "exit" /\ exit[t]}]
    /\ pc' = [pc EXCEPT ![t] = "done"]
    /\ UNCHANGED <<mainVars, sharedVars, static_tx_qid>>

\* ... and only then release the main thread: dp_netdev_pmd_reload_done().
PmdReloadDone(t) ==
    /\ pc[t] = "done"
    /\ wait_for_reload' = [wait_for_reload EXCEPT ![t] = FALSE]
    /\ reload_tx_qid' = [reload_tx_qid EXCEPT ![t] = FALSE]
    /\ new_seq' = [new_seq EXCEPT ![t] = FALSE]
    /\ reload' = [reload EXCEPT ![t] = FALSE]
    /\ pc' = [pc EXCEPT ![t] = IF "tx_qid" \in flags[t] THEN "free"
                               ELSE IF "exit" \in flags[t] THEN "leave"
                               ELSE AtReload(t, polled[t], "wait" \in flags[t])]
    /\ UNCHANGED <<mainVars, poll_threads, need_reload, poll_list, tx_ports, exit,
                   polled, cached, flags, static_tx_qid, xps, txq_used>>

PmdFreeTxQid(t) ==
    /\ pc[t] = "free"
    /\ static_tx_qid' = [static_tx_qid EXCEPT ![t] = None]
    /\ pc' = [pc EXCEPT ![t] = "alloc"]
    /\ UNCHANGED <<mainVars, sharedVars, polled, cached, flags, xps, txq_used>>

PmdLeave(t) ==
    /\ pc[t] = "leave"
    /\ static_tx_qid' = [static_tx_qid EXCEPT ![t] = None]
    /\ polled' = [polled EXCEPT ![t] = {}]
    /\ xps_revalidate_pmd(t)
    /\ cached' = [cached EXCEPT ![t] = {}]
    /\ pc' = [pc EXCEPT ![t] = "exited"]
    /\ UNCHANGED <<mainVars, sharedVars, flags>>

-----------------------------------------------------------------------------

ConfigStep ==
    \/ \E p \in Ports : AddPort(p) \/ DelPort(p) \/ DeviceChanges(p)
    \/ \E cores \in SUBSET Cores \ {{}} : RequestReconfigure(cores)

MainStep ==
    \/ RunReconfiguration
    \/ CheckThreads
    \/ \E t \in Cores : \/ DelPmd(t) \/ DelPmdReload(t) \/ DelPmdJoin(t)
                        \/ CreatePmd(t)
                        \/ ReloadSeq(t) \/ ReloadFlag(t)
    \/ \E t \in Threads : WaitReloaded(t)
    \/ AllDeleted \/ AllCreated
    \/ ReloadNonPmd \/ AllSignalled \/ AllReloaded
    \/ RemoveStalePorts
    \/ \E p \in Ports : PortReconfigured(p) \/ PortFails(p)
    \/ ScheduleRxqs
    \/ DropQueues
    \/ \E q \in Rxqs : AddQueue(q)
    \/ AddTxPorts
    \/ EndReconfiguration

PmdStep(t) ==
    \/ PmdStart(t) \/ PmdAllocTxQid(t) \/ PmdWake(t)
    \/ PmdIterate(t) \/ PmdIterated(t)
    \/ PmdLoad(t) \/ PmdReloadDone(t) \/ PmdFreeTxQid(t) \/ PmdLeave(t)

XpsStep == \E t \in Threads, p \in Ports : SendXps(t, p) \/ ExpireXps(t, p)

Next == ConfigStep \/ MainStep \/ XpsStep \/ \E t \in Cores : PmdStep(t)

\* The main loop keeps running, every PMD thread is scheduled and, since
\* PmdIterated stands for it too, the reader of each ring keeps reading.
Fairness == WF_vars(MainStep) /\ \A t \in Cores : WF_vars(PmdStep(t))

Spec == Init /\ [][Next]_vars

FairSpec == Spec /\ Fairness

-----------------------------------------------------------------------------
(* Properties.                                                             *)

\* "otherwise a queue can be polled by two threads at the same time"
\* (5895-5897): whatever the reconfigurations, no queue is in the private
\* poll lists of two threads.
NoDoublePoll ==
    \A t, u \in Cores : t # u => polled[t] \cap polled[u] = {}

\* "a port cannot be reconfigured while it's being used" (5815-5817): when a
\* port is reconfigured, or destroyed, no thread polls a queue of it or has
\* it in its private transmit cache.
PortQuiescent ==
    LET touched == IF main = "ports" THEN need_reconfigure \cup (Ports \ ports)
                   ELSE IF main = "end" THEN dying ELSE {}
    IN \A t \in Threads :
          /\ cached[t] \cap touched = {}
          /\ \A q \in polled[t] : PortOf[q] \notin touched

\* A thread that can transmit on a port not shared by XPS uses its static id
\* as the transmit queue: the port has that queue, although ids and numbers
\* of queues change at different moments of a reconfiguration.
TxQidInRange ==
    \A t \in Threads : Sending(t) \/ pc[t] = "poll" =>
        \A p \in cached[t] \ dynamic_txqs : static_tx_qid[t] < n_txq[p]

\* No two threads hold the same static transmit queue id, so none of them
\* sends unlocked on a queue another one uses; and "1 Tx queue for each
\* possible core + 1 for non-PMD threads" (1864) is enough for every
\* interleaving of the threads that swap theirs: none finds the pool empty,
\* which would abort the process.
TxQidsDistinct ==
    /\ \A t, u \in Threads :
          t # u /\ static_tx_qid[t] # None => static_tx_qid[t] # static_tx_qid[u]
    /\ \A t \in Threads : pc[t] = "alloc" => FreeTxQids # {}

\* The counters of a port shared by XPS count exactly the threads that hold
\* one of its queues; a lost or double release would skew them for good.
Holders(p) == {t \in Threads : p \in xps[t]}

TxqUsedExact == \A p \in dynamic_txqs \cap ports : txq_used[p] = Cardinality(Holders(p))

\* What a port knows of its transmit queues agrees with what threads use.
TxQueuesSound == TxQidInRange /\ TxqUsedExact

\* After a reconfiguration every thread works from what it was given: each
\* scheduled queue is polled by the thread it was scheduled to, and every
\* thread with a queue can send to every port.
ReconfigurationTakesEffect ==
    main = "idle" =>
        /\ \A q \in Rxqs : rxq_pmd[q] # None => q \in polled[rxq_pmd[q]]
        /\ \A t \in poll_threads : polled[t] # {} \/ t = NonPmd => cached[t] = ports

\* reconfigure_datapath() returns: no busy wait or join in it is for ever.
ReconfigurationEnds == (main # "idle") ~> (main = "idle")

\* "Don't sleep, control thread will ask for a reload shortly" (6255): a
\* thread told to spin for its new queues is always released.
SpinEnds == \A t \in Cores : (pc[t] = "spin") ~> (pc[t] # "spin")


-----------------------------------------------------------------------------
(* Why NoDoublePoll and PortQuiescent hold: an inductive invariant.        *)

\* reload_affected_pmds() is running; 'At' also counts the reload that
\* leads to a stage as part of it.
Signalling == main \in {"reload", "reload_flag", "wait"}
At(stage) == main = stage \/ (Signalling /\ ret = stage)

\* A thread works from no more than the main thread lists for it.
Fresh(t) == polled[t] \subseteq poll_list[t] /\ cached[t] \subseteq tx_ports[t]

ShapeInv ==
    /\ ports \subseteq Ports /\ dying \subseteq Ports
    /\ rxq_pmd \in [Rxqs -> Cores \cup {None}]
    /\ poll_threads \subseteq Threads /\ NonPmd \in poll_threads
    /\ todo \subseteq Threads
    /\ poll_list \in [Threads -> SUBSET Rxqs] /\ polled \in [Threads -> SUBSET Rxqs]
    /\ tx_ports \in [Threads -> SUBSET Ports] /\ cached \in [Threads -> SUBSET Ports]
    /\ need_reload \in [Threads -> BOOLEAN] /\ reload \in [Threads -> BOOLEAN]
    /\ pc \in [Threads -> {"none", "start", "alloc", "sleep", "spin", "poll", "work",
                           "done", "free", "leave", "exited"}]
    /\ Signalling => ret \in {"create", "ports", "add", "end"}

\* What is listed for, and held by, a thread that is not there.
IdleInv ==
    /\ \A t \in Threads \ poll_threads :
          /\ pc[t] = "none" /\ ~reload[t]
          /\ poll_list[t] = {} /\ tx_ports[t] = {}
    /\ \A t \in Threads : pc[t] \in {"none", "exited"} =>
          polled[t] = {} /\ (t # NonPmd => cached[t] = {})
    /\ pc[NonPmd] = "none" /\ ~reload[NonPmd] /\ poll_list[NonPmd] = {}

\* 'reload' is up only while the main thread waits for it, and a thread takes
\* it down with the current lists in hand.
FlagInv ==
    /\ \A t \in Threads : reload[t] =>
          \/ Signalling /\ need_reload[t] /\ (main # "wait" => t \notin todo)
          \/ main = "join" /\ cur = t
    /\ \A t \in Threads : pc[t] = "done" => reload[t] /\ Fresh(t)
    /\ main = "reload_flag" => cur \in todo \ {NonPmd}

\* A thread is told to exit, and does, only while the main thread joins it.
ExitInv ==
    /\ exit \in [Threads -> BOOLEAN]
    /\ flags \in [Threads -> SUBSET {"wait", "tx_qid", "exit"}]
    /\ main \in {"delete", "delete_reload", "join"} => todo \subseteq poll_threads \ {NonPmd}
    /\ main \in {"delete_reload", "join"} => cur \in todo
    /\ \A t \in poll_threads :
          /\ exit[t] => main \in {"delete_reload", "join"} /\ cur = t
          /\ "exit" \in flags[t] => main = "join" /\ cur = t
          /\ "exit" \in flags[t] /\ pc[t] # "done" => ~reload[t]
          /\ pc[t] \in {"leave", "exited"} => main = "join" /\ cur = t /\ ~reload[t]

\* Who is out of date is marked, and is signalled before the wait ends.
StaleInv ==
    /\ \A t \in poll_threads : need_reload[t] \/ Fresh(t)
    /\ main \in {"reload", "reload_flag"} => todo \subseteq {t \in poll_threads : need_reload[t]}
    /\ main = "wait" => todo = {t \in poll_threads : need_reload[t]}
    /\ Signalling => \A t \in poll_threads :
          need_reload[t] /\ (main # "wait" => t \notin todo) => reload[t] \/ Fresh(t)
    /\ main \in {"ports", "drop", "end"} => \A t \in poll_threads : ~need_reload[t]

\* What the stages of a reconfiguration have achieved.
StageInv ==
    /\ At("ports") => \A t \in Threads :
          /\ tx_ports[t] \cap (need_reconfigure \cup (Ports \ ports)) = {}
          /\ \A q \in poll_list[t] : PortOf[q] \notin need_reconfigure \cup (Ports \ ports)
    /\ main = "drop" \/ At("add") \/ At("end") => \A t \in Threads :
          /\ tx_ports[t] \subseteq ports
          /\ \A q \in poll_list[t] : PortOf[q] \in ports
    /\ main = "drop" \/ At("add") => \A q \in Rxqs : rxq_pmd[q] # None =>
          PortOf[q] \in ports /\ rxq_pmd[q] \in poll_threads \ {NonPmd}
    /\ At("add") => \A t \in Threads : \A q \in poll_list[t] : rxq_pmd[q] = t
    /\ main = "add" => \A t \in Threads : \A q \in polled[t] : rxq_pmd[q] = t
    /\ dying \cap ports = {} /\ (main = "idle" => dying = {})

Apart ==
    \A t, u \in Threads : t # u =>
        (polled[t] \cup poll_list[t]) \cap (polled[u] \cup poll_list[u]) = {}

\* A thread holds an id except until it has allocated one.
TxQidInv ==
    /\ static_tx_qid \in [Threads -> (0 .. Cardinality(Cores)) \cup {None}]
    /\ \A t, u \in Threads :
          t # u /\ static_tx_qid[t] # None => static_tx_qid[t] # static_tx_qid[u]
    /\ \A t \in Cores : pc[t] \in {"none", "start", "alloc", "exited"} <=>
          static_tx_qid[t] = None

HandshakeInv == ShapeInv /\ IdleInv /\ FlagInv /\ ExitInv /\ StaleInv /\ StageInv /\ Apart

-----------------------------------------------------------------------------
(* Why a reconfiguration takes effect.                                     *)

\* A thread works from exactly what the main thread lists for it.
Current(t) == polled[t] = poll_list[t] /\ cached[t] = tx_ports[t]

\* Fresh says that a copy holds no more than its list; here, no less either.
CurrentInv ==
    /\ \A t \in poll_threads : need_reload[t] \/ Current(t) \/ pc[t] = "exited"
    /\ \A t \in poll_threads : pc[t] = "done" => Current(t)
    /\ Signalling => \A t \in poll_threads :
          need_reload[t] /\ (main # "wait" => t \notin todo) => reload[t] \/ Current(t)

\* What is listed once every queue and port has been given out, and stays
\* so until the next reconfiguration.
GivenInv ==
    /\ main = "idle" => \A t \in poll_threads : tx_ports[t] \subseteq ports
    /\ main \in {"idle", "threads"} => \A t \in poll_threads : ~need_reload[t]
    /\ At("end") \/ main = "idle" =>
          /\ \A q \in Rxqs : rxq_pmd[q] # None =>
                rxq_pmd[q] \in poll_threads /\ q \in poll_list[rxq_pmd[q]]
          /\ \A t \in poll_threads : poll_list[t] # {} \/ t = NonPmd => ports \subseteq tx_ports[t]

EffectInv == CurrentInv /\ GivenInv

-----------------------------------------------------------------------------
(* Why the static ids stay below the number of transmit queues.            *)

\* The threads are being deleted, and deleted or created.
Deleting == main \in {"delete", "delete_reload", "join"}
Threading == Deleting \/ At("create")

\* The number of threads, and of ids, that the reconfiguration leads to.
QueuesWanted == IF Threading THEN Cardinality(WantedCores) + 1 ELSE wanted_txqs

\* A thread that will take an id before it sends again.
Changing(t) == pc[t] \in {"start", "alloc", "free"} \/ (pc[t] = "done" /\ "tx_qid" \in flags[t])

\* The ports it has, or will have, that it sends to with its static id.
Unshared(t) == (cached[t] \cup tx_ports[t]) \ dynamic_txqs

\* A reload that the thread has not answered yet.
Pending(t) == need_reload[t] /\ (reload[t] \/ (main # "wait" /\ t \in todo))

\* Who runs while threads are deleted and created.
ThreadsInv ==
    /\ pmd_cores \subseteq Cores
    /\ Deleting => poll_threads \subseteq WantedCores \cup todo \cup {NonPmd}
    /\ Deleting /\ ~adjust => Cardinality(poll_threads) <= QueuesWanted
    /\ At("create") => poll_threads \subseteq WantedCores \cup {NonPmd}

\* A thread is told to swap its id only when there are fewer threads, and
\* before any is created.
SwapInv ==
    /\ reload_tx_qid \in [Threads -> BOOLEAN]
    /\ \A t \in Threads : reload_tx_qid[t] =>
          /\ adjust /\ t \in poll_threads \ {NonPmd} /\ need_reload[t]
          /\ (Deleting /\ t \notin todo) \/ (Signalling /\ ret = "create" /\ Pending(t))
    /\ Deleting /\ adjust => \A t \in poll_threads \ (todo \cup {NonPmd}) : reload_tx_qid[t]
    /\ \A t \in Cores : pc[t] = "done" => (reload_tx_qid[t] <=> "tx_qid" \in flags[t])

\* The ids of the threads that are neither leaving nor told to swap.
IdInv ==
    \A t \in Cores :
        static_tx_qid[t] # None /\ ~Changing(t) /\ ~reload_tx_qid[t] /\ ~(Deleting /\ t \in todo)
            => static_tx_qid[t] < QueuesWanted

\* How many transmit queues the ports not shared by XPS have.
PortsInv ==
    /\ n_txq \in [Ports -> Nat \ {0}]
    /\ At("ports") \/ main = "drop" \/ At("add") \/ At("end") =>
          \A p \in (ports \ need_reconfigure) \ dynamic_txqs : n_txq[p] >= wanted_txqs
    /\ main = "drop" \/ At("add") \/ At("end") => need_reconfigure \cap ports = {}
    /\ main \in {"idle", "threads"} => \A t \in poll_threads :
          \A p \in tx_ports[t] \ dynamic_txqs : n_txq[p] >= wanted_txqs
    /\ (Threading \/ main = "stale") /\ adjust => \A t \in poll_threads :
          \A p \in Unshared(t) : n_txq[p] > QueuesWanted

\* A thread without its new id has such a port only until it is made to
\* give it up, or when every id it can get is below the port's number.
SendInv ==
    /\ static_tx_qid[NonPmd] = 0
    /\ \A t \in Cores : ~Changing(t) /\ static_tx_qid[t] # None =>
          \A p \in Unshared(t) : static_tx_qid[t] < n_txq[p]
    /\ \A t \in Cores : Changing(t) => \A p \in Unshared(t) :
          \/ (At("create") \/ main = "stale") /\ adjust
          \/ /\ Signalling /\ ret \in {"ports", "end"} /\ Pending(t)
             /\ n_txq[p] >= wanted_txqs
             /\ ret = "ports" => p \notin tx_ports[t]

TxQueueInv == ThreadsInv /\ SwapInv /\ IdInv /\ PortsInv /\ SendInv

\* A thread has the queues XPS gave it only on ports it caches.
XpsInv ==
    /\ dynamic_txqs \subseteq Ports
    /\ xps \in [Threads -> SUBSET Ports] /\ \A t \in Threads : xps[t] \subseteq cached[t]
    /\ txq_used \in [Ports -> Int]
    /\ \A p \in dynamic_txqs : txq_used[p] = Cardinality(Holders(p))

\* All of the above, an inductive invariant of the whole protocol: what a
\* thread's copies, ids and flags may be at every point of a reconfiguration.
ReloadInv == HandshakeInv /\ EffectInv /\ TxQidInv /\ TxQueueInv /\ XpsInv

=============================================================================
