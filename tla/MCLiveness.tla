----------------------------- MODULE MCLiveness -----------------------------
(* What must happen in the end, under fairness: `part' says whether a      *)
(* behaviour is about hardware offload, which the configuration gives one  *)
(* mark for two mega flows, or about the reconfiguration of PMD threads,   *)
(* which shares no state with it.                                          *)
EXTENDS FlowOffload

CONSTANTS Cores, NonPmd, p1, Rxqs

VARIABLES
  part,
  ports, need_reconfigure, reconf_required, n_txq, dynamic_txqs, pmd_cores,
  reconf_requested, rxq_pmd, dying, main, ret, todo, cur, adjust,
  poll_threads, need_reload, poll_list, tx_ports, reload, wait_for_reload,
  reload_tx_qid, exit, new_seq, tpc, polled, cached, flags, static_tx_qid,
  xps, txq_used      \* see PmdReload

(* One port, which all queues belong to.                                   *)
OnePort == {p1}
PortOf == [q \in Rxqs |-> p1]
MaxTxq == [p \in OnePort |-> 3]

Pmd == INSTANCE PmdReload WITH Ports <- OnePort, PmdPorts <- OnePort, pc <- tpc

pmdVars == <<ports, need_reconfigure, reconf_required, n_txq, dynamic_txqs, pmd_cores,
  reconf_requested, rxq_pmd, dying, main, ret, todo, cur, adjust,
  poll_threads, need_reload, poll_list, tx_ports, reload, wait_for_reload,
  reload_tx_qid, exit, new_seq, tpc, polled, cached, flags, static_tx_qid, xps, txq_used>>
mcVars == <<part, vars, pmdVars>>

MCInit ==
  /\ Init /\ Pmd!Init
  /\ part = "pmd" \/ (part = "offload" /\ pmd_cores = Cores)

MCNext ==
  /\ UNCHANGED part
  /\ \/ part = "pmd" /\ Pmd!Next /\ UNCHANGED vars
     \/ part = "offload" /\ Next /\ UNCHANGED pmdVars

(* The fairness of the two modules: each says why the code justifies it.   *)
MCFairness ==
  /\ WF_mcVars(part = "pmd" /\ Pmd!MainStep /\ UNCHANGED <<part, vars>>)
  /\ \A t \in Cores :
       WF_mcVars(part = "pmd" /\ Pmd!PmdStep(t) /\ UNCHANGED <<part, vars>>)
  /\ WF_mcVars(part = "offload" /\ OffloadStep /\ UNCHANGED <<part, pmdVars>>)
  /\ \A p \in Pmds :
       WF_mcVars(part = "offload" /\ remove_flow_dead(p) /\ UNCHANGED <<part, pmdVars>>)

MCSpec == MCInit /\ [][MCNext]_mcVars /\ MCFairness

-----------------------------------------------------------------------------
(* No wait of reconfigure_datapath is for ever, and no thread that is told *)
(* to spin for new queues spins for ever.                                  *)
ReloadsEnd == Pmd!ReconfigurationEnds /\ Pmd!SpinEnds

=============================================================================
