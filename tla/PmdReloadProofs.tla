--------------------------- MODULE PmdReloadProofs ---------------------------
(***************************************************************************)
(* For any number of cores, ports and queues: no receive queue is polled   *)
(* by two threads, no port is reconfigured or destroyed while a thread     *)
(* uses it, every reconfiguration takes effect, and the transmit queues    *)
(* and their counters stay sound.  The first two follow from HandshakeInv, *)
(* which is inductive: below, one lemma per action of the main thread and  *)
(* of a PMD.  EffectInv, TxQidInv, TxQueueInv and XpsInv are preserved by  *)
(* the steps that preserve HandshakeInv; each has a section, again with    *)
(* one lemma or case per action.  ReloadInv is their conjunction.          *)
(***************************************************************************)
EXTENDS PmdReload, FiniteSetTheorems, TLAPS

USE PmdAssumption DEF vars, mainVars, sharedVars, localVars, datapath, Threads, Signalling, At, Fresh

-----------------------------------------------------------------------------
(* The main thread between reconfigurations. *)

LEMMA AddPortKeeps ==
    ASSUME HandshakeInv, NEW p \in Ports, AddPort(p)
    PROVE  HandshakeInv'
<1>1. ShapeInv' /\ IdleInv' /\ FlagInv' /\ ExitInv' /\ StaleInv' /\ StageInv' /\ Apart'
    BY DEF HandshakeInv, ShapeInv, IdleInv, FlagInv, ExitInv,
         StaleInv, StageInv, Apart, AddPort, StartReconfiguration
<1> QED BY <1>1 DEF HandshakeInv

LEMMA DelPortKeeps ==
    ASSUME HandshakeInv, NEW p \in Ports, DelPort(p)
    PROVE  HandshakeInv'
<1>1. ShapeInv' /\ IdleInv' /\ FlagInv' /\ ExitInv' /\ StaleInv' /\ StageInv' /\ Apart'
    BY DEF HandshakeInv, ShapeInv, IdleInv, FlagInv, ExitInv,
         StaleInv, StageInv, Apart, DelPort, StartReconfiguration
<1> QED BY <1>1 DEF HandshakeInv

LEMMA DeviceChangesKeeps ==
    ASSUME HandshakeInv, NEW p \in Ports, DeviceChanges(p)
    PROVE  HandshakeInv'
<1>1. ShapeInv' /\ IdleInv' /\ FlagInv' /\ ExitInv' /\ StaleInv' /\ StageInv' /\ Apart'
    BY DEF HandshakeInv, ShapeInv, IdleInv, FlagInv, ExitInv,
         StaleInv, StageInv, Apart, DeviceChanges
<1> QED BY <1>1 DEF HandshakeInv

LEMMA RequestReconfigureKeeps ==
    ASSUME HandshakeInv, NEW cores, RequestReconfigure(cores)
    PROVE  HandshakeInv'
<1>1. ShapeInv' /\ IdleInv' /\ FlagInv' /\ ExitInv' /\ StaleInv' /\ StageInv' /\ Apart'
    BY DEF HandshakeInv, ShapeInv, IdleInv, FlagInv, ExitInv,
         StaleInv, StageInv, Apart, RequestReconfigure
<1> QED BY <1>1 DEF HandshakeInv

LEMMA RunReconfigurationKeeps ==
    ASSUME HandshakeInv, RunReconfiguration
    PROVE  HandshakeInv'
<1>1. ShapeInv' /\ IdleInv' /\ FlagInv' /\ ExitInv' /\ StaleInv' /\ StageInv' /\ Apart'
    BY DEF HandshakeInv, ShapeInv, IdleInv, FlagInv, ExitInv,
         StaleInv, StageInv, Apart, RunReconfiguration, StartReconfiguration
<1> QED BY <1>1 DEF HandshakeInv

-----------------------------------------------------------------------------
(* Step 1: the threads. *)

LEMMA CheckThreadsKeeps ==
    ASSUME HandshakeInv, CheckThreads
    PROVE  HandshakeInv'
<1>1. ShapeInv' /\ IdleInv' /\ FlagInv' /\ ExitInv' /\ StageInv' /\ Apart'
    BY DEF HandshakeInv, ShapeInv, IdleInv, FlagInv, ExitInv,
         StageInv, Apart, CheckThreads, PmdThreads
<1>2. StaleInv'
    BY DEF HandshakeInv, ShapeInv, StaleInv, CheckThreads, PmdThreads
<1> QED BY <1>1, <1>2 DEF HandshakeInv

LEMMA DelPmdKeeps ==
    ASSUME HandshakeInv, NEW t \in Cores, DelPmd(t)
    PROVE  HandshakeInv'
<1>1. ShapeInv' /\ IdleInv' /\ FlagInv' /\ ExitInv' /\ StaleInv' /\ StageInv' /\ Apart'
    BY DEF HandshakeInv, ShapeInv, IdleInv, FlagInv, ExitInv,
         StaleInv, StageInv, Apart, DelPmd
<1> QED BY <1>1 DEF HandshakeInv

LEMMA DelPmdReloadKeeps ==
    ASSUME HandshakeInv, NEW t \in Cores, DelPmdReload(t)
    PROVE  HandshakeInv'
<1>1. ShapeInv' /\ FlagInv' /\ ExitInv' /\ StaleInv' /\ StageInv' /\ Apart'
    BY DEF HandshakeInv, ShapeInv, FlagInv, ExitInv, StaleInv,
         StageInv, Apart, DelPmdReload
<1>2. IdleInv'
    BY DEF HandshakeInv, ShapeInv, IdleInv, ExitInv, DelPmdReload
<1> QED BY <1>1, <1>2 DEF HandshakeInv

LEMMA DelPmdJoinKeeps ==
    ASSUME HandshakeInv, NEW t \in Cores, DelPmdJoin(t)
    PROVE  HandshakeInv'
<1>1. ShapeInv' /\ ExitInv' /\ StaleInv' /\ StageInv' /\ Apart'
    BY DEF HandshakeInv, ShapeInv, ExitInv, StaleInv, StageInv,
         Apart, DelPmdJoin
<1>2. IdleInv'
    BY DEF HandshakeInv, ShapeInv, IdleInv, ExitInv, DelPmdJoin
<1>3. FlagInv'
    BY DEF HandshakeInv, ShapeInv, FlagInv, ExitInv, DelPmdJoin
<1> QED BY <1>1, <1>2, <1>3 DEF HandshakeInv

LEMMA CreatePmdKeeps ==
    ASSUME HandshakeInv, NEW t \in Cores, CreatePmd(t)
    PROVE  HandshakeInv'
<1>1. ShapeInv' /\ IdleInv' /\ FlagInv' /\ StageInv' /\ Apart'
    BY DEF HandshakeInv, ShapeInv, IdleInv, FlagInv, StageInv, Apart,
         CreatePmd
<1>2. ExitInv'
    BY DEF HandshakeInv, ShapeInv, ExitInv, CreatePmd
<1>3. StaleInv'
    BY DEF HandshakeInv, ShapeInv, IdleInv, StaleInv, CreatePmd
<1> QED BY <1>1, <1>2, <1>3 DEF HandshakeInv

-----------------------------------------------------------------------------
(* reload_affected_pmds(). *)

LEMMA ReloadSeqKeeps ==
    ASSUME HandshakeInv, NEW t \in Cores, ReloadSeq(t)
    PROVE  HandshakeInv'
<1>1. ShapeInv' /\ IdleInv' /\ FlagInv' /\ ExitInv' /\ StaleInv' /\ StageInv' /\ Apart'
    BY DEF HandshakeInv, ShapeInv, IdleInv, FlagInv, ExitInv,
         StaleInv, StageInv, Apart, ReloadSeq
<1> QED BY <1>1 DEF HandshakeInv

LEMMA ReloadFlagKeeps ==
    ASSUME HandshakeInv, NEW t \in Cores, ReloadFlag(t)
    PROVE  HandshakeInv'
<1>1. ShapeInv' /\ ExitInv' /\ StageInv' /\ Apart'
    BY DEF HandshakeInv, ShapeInv, ExitInv, StageInv, Apart,
         ReloadFlag
<1>2. StaleInv'
    BY DEF HandshakeInv, ShapeInv, StaleInv, ReloadFlag
<1>3. IdleInv'
    BY DEF HandshakeInv, ShapeInv, IdleInv, FlagInv, StaleInv,
         ReloadFlag
<1>4. FlagInv'
    BY DEF HandshakeInv, ShapeInv, FlagInv, StaleInv, ReloadFlag
<1> QED BY <1>1, <1>2, <1>3, <1>4 DEF HandshakeInv

LEMMA WaitReloadedKeeps ==
    ASSUME HandshakeInv, NEW t \in Threads, WaitReloaded(t)
    PROVE  HandshakeInv'
<1>1. ShapeInv' /\ IdleInv' /\ FlagInv' /\ ExitInv' /\ StageInv' /\ Apart'
    BY DEF HandshakeInv, ShapeInv, IdleInv, FlagInv, ExitInv,
         StageInv, Apart, WaitReloaded
<1>2. StaleInv'
    BY DEF HandshakeInv, ShapeInv, StaleInv, WaitReloaded
<1> QED BY <1>1, <1>2 DEF HandshakeInv

LEMMA AllDeletedKeeps ==
    ASSUME HandshakeInv, AllDeleted
    PROVE  HandshakeInv'
<1>1. ShapeInv' /\ IdleInv' /\ FlagInv' /\ ExitInv' /\ StaleInv' /\ StageInv' /\ Apart'
    BY DEF HandshakeInv, ShapeInv, IdleInv, FlagInv, ExitInv,
         StaleInv, StageInv, Apart, AllDeleted, BeginReload
<1> QED BY <1>1 DEF HandshakeInv

LEMMA AllCreatedKeeps ==
    ASSUME HandshakeInv, AllCreated
    PROVE  HandshakeInv'
<1>1. ShapeInv' /\ IdleInv' /\ FlagInv' /\ ExitInv' /\ StaleInv' /\ StageInv' /\ Apart'
    BY DEF HandshakeInv, ShapeInv, IdleInv, FlagInv, ExitInv,
         StaleInv, StageInv, Apart, AllCreated
<1> QED BY <1>1 DEF HandshakeInv

LEMMA ReloadNonPmdKeeps ==
    ASSUME HandshakeInv, ReloadNonPmd
    PROVE  HandshakeInv'
<1>1. ShapeInv' /\ IdleInv' /\ FlagInv' /\ ExitInv' /\ StageInv' /\ Apart'
    BY DEF HandshakeInv, ShapeInv, IdleInv, FlagInv, ExitInv,
         StageInv, Apart, ReloadNonPmd, pmd_load_cached_ports,
         xps_revalidate_pmd
<1>2. StaleInv'
    BY DEF HandshakeInv, ShapeInv, IdleInv, StaleInv, ReloadNonPmd,
         pmd_load_cached_ports, xps_revalidate_pmd
<1> QED BY <1>1, <1>2 DEF HandshakeInv

LEMMA AllSignalledKeeps ==
    ASSUME HandshakeInv, AllSignalled
    PROVE  HandshakeInv'
<1>1. ShapeInv' /\ IdleInv' /\ FlagInv' /\ ExitInv' /\ StaleInv' /\ StageInv' /\ Apart'
    BY DEF HandshakeInv, ShapeInv, IdleInv, FlagInv, ExitInv,
         StaleInv, StageInv, Apart, AllSignalled
<1> QED BY <1>1 DEF HandshakeInv

LEMMA AllReloadedKeeps ==
    ASSUME HandshakeInv, AllReloaded
    PROVE  HandshakeInv'
<1>1. ShapeInv' /\ IdleInv' /\ StaleInv' /\ Apart'
    BY DEF HandshakeInv, ShapeInv, IdleInv, StaleInv, Apart,
         AllReloaded
<1>2. ExitInv'
    BY DEF HandshakeInv, ShapeInv, ExitInv, AllReloaded
<1>3. FlagInv'
    BY DEF HandshakeInv, ShapeInv, IdleInv, FlagInv, StaleInv,
         StageInv, AllReloaded
<1>4. StageInv'
    BY DEF HandshakeInv, ShapeInv, IdleInv, StaleInv, StageInv,
         AllReloaded
<1> QED BY <1>1, <1>2, <1>3, <1>4 DEF HandshakeInv

-----------------------------------------------------------------------------
(* Steps 2 and 3: the ports. *)

LEMMA RemoveStalePortsKeeps ==
    ASSUME HandshakeInv, RemoveStalePorts
    PROVE  HandshakeInv'
<1>1. ShapeInv' /\ IdleInv' /\ FlagInv' /\ ExitInv' /\ StageInv' /\ Apart'
    BY DEF HandshakeInv, ShapeInv, IdleInv, FlagInv, ExitInv,
         StageInv, Apart, RemoveStalePorts, BeginReload
<1>2. StaleInv'
    BY DEF HandshakeInv, ShapeInv, StaleInv, RemoveStalePorts,
         BeginReload
<1> QED BY <1>1, <1>2 DEF HandshakeInv

LEMMA PortReconfiguredKeeps ==
    ASSUME HandshakeInv, NEW p \in Ports, PortReconfigured(p)
    PROVE  HandshakeInv'
<1>1. ShapeInv' /\ IdleInv' /\ FlagInv' /\ ExitInv' /\ StaleInv' /\ StageInv' /\ Apart'
    BY DEF HandshakeInv, ShapeInv, IdleInv, FlagInv, ExitInv,
         StaleInv, StageInv, Apart, PortReconfigured
<1> QED BY <1>1 DEF HandshakeInv

LEMMA PortFailsKeeps ==
    ASSUME HandshakeInv, NEW p \in Ports, PortFails(p)
    PROVE  HandshakeInv'
<1>1. ShapeInv' /\ IdleInv' /\ FlagInv' /\ ExitInv' /\ StaleInv' /\ StageInv' /\ Apart'
    BY DEF HandshakeInv, ShapeInv, IdleInv, FlagInv, ExitInv,
         StaleInv, StageInv, Apart, PortFails
<1> QED BY <1>1 DEF HandshakeInv

-----------------------------------------------------------------------------
(* Steps 4 to 6: the queues. *)

LEMMA ScheduleRxqsKeeps ==
    ASSUME HandshakeInv, ScheduleRxqs
    PROVE  HandshakeInv'
<1>1. ShapeInv' /\ IdleInv' /\ FlagInv' /\ ExitInv' /\ StaleInv' /\ Apart'
    BY DEF HandshakeInv, ShapeInv, IdleInv, FlagInv, ExitInv,
         StaleInv, Apart, ScheduleRxqs, PmdThreads
<1>2. StageInv'
    BY DEF HandshakeInv, ShapeInv, StageInv, ScheduleRxqs, PmdThreads
<1> QED BY <1>1, <1>2 DEF HandshakeInv

LEMMA DropQueuesKeeps ==
    ASSUME HandshakeInv, DropQueues
    PROVE  HandshakeInv'
<1>1. ShapeInv' /\ IdleInv' /\ FlagInv' /\ ExitInv' /\ Apart'
  BY DEF HandshakeInv, ShapeInv, IdleInv, FlagInv, ExitInv, Apart,
                  DropQueues, BeginReload
<1>2. StageInv'
  BY DEF HandshakeInv, ShapeInv, IdleInv, StageInv, DropQueues, BeginReload
<1>3. StaleInv'
  <2>1. /\ main = "drop" /\ main' = "reload"
        /\ todo' = {t \in poll_threads : need_reload'[t]}
        /\ poll_threads' = poll_threads
    BY DEF DropQueues, BeginReload
  <2>2. \A t \in poll_threads : Fresh(t)
    BY <2>1 DEF HandshakeInv, StaleInv
  <2>3. ASSUME NEW t \in poll_threads, ~need_reload'[t]
        PROVE  Fresh(t)'
    <3>1. t \in Threads BY DEF HandshakeInv, ShapeInv
    <3>2. need_reload'[t] = (need_reload[t] \/ {q \in poll_list[t] : rxq_pmd[q] = t} # poll_list[t])
      BY <3>1 DEF DropQueues
    <3>3. poll_list'[t] = {q \in poll_list[t] : rxq_pmd[q] = t}
      BY <3>1, SMT DEF DropQueues
    <3>4. poll_list'[t] = poll_list[t] BY <2>3, <3>2, <3>3
    <3> QED BY <2>2, <3>4 DEF DropQueues
  <2>4. \A t \in poll_threads' : need_reload'[t] \/ Fresh(t)' BY <2>1, <2>3
  <2>5. ASSUME NEW t \in poll_threads', need_reload'[t], main' # "wait" => t \notin todo'
        PROVE  reload'[t] \/ Fresh(t)'
    BY <2>1, <2>5
  <2> QED BY <2>1, <2>4, <2>5 DEF StaleInv
<1> QED BY <1>1, <1>2, <1>3 DEF HandshakeInv

LEMMA AddQueueKeeps ==
    ASSUME HandshakeInv, NEW q \in Rxqs, AddQueue(q)
    PROVE  HandshakeInv'
<1>1. ShapeInv' /\ FlagInv' /\ ExitInv' /\ StaleInv' /\ StageInv'
    BY DEF HandshakeInv, ShapeInv, FlagInv, ExitInv, StaleInv,
         StageInv, AddQueue
<1>2. IdleInv'
    BY DEF HandshakeInv, ShapeInv, IdleInv, StageInv, AddQueue
<1>3. Apart'
    BY DEF HandshakeInv, ShapeInv, StageInv, Apart, AddQueue
<1> QED BY <1>1, <1>2, <1>3 DEF HandshakeInv

LEMMA AddTxPortsKeeps ==
    ASSUME HandshakeInv, AddTxPorts
    PROVE  HandshakeInv'
<1>1. ShapeInv' /\ IdleInv' /\ FlagInv' /\ ExitInv' /\ StageInv' /\ Apart'
    BY DEF HandshakeInv, ShapeInv, IdleInv, FlagInv, ExitInv,
         StageInv, Apart, AddTxPorts, BeginReload
<1>2. StaleInv'
    BY DEF HandshakeInv, ShapeInv, StaleInv, AddTxPorts, BeginReload
<1> QED BY <1>1, <1>2 DEF HandshakeInv

LEMMA EndReconfigurationKeeps ==
    ASSUME HandshakeInv, EndReconfiguration
    PROVE  HandshakeInv'
<1>1. ShapeInv' /\ IdleInv' /\ FlagInv' /\ ExitInv' /\ StaleInv' /\ StageInv' /\ Apart'
    BY DEF HandshakeInv, ShapeInv, IdleInv, FlagInv, ExitInv,
         StaleInv, StageInv, Apart, EndReconfiguration
<1> QED BY <1>1 DEF HandshakeInv

-----------------------------------------------------------------------------
(* The threads. *)

LEMMA XpsStepKeeps ==
    ASSUME HandshakeInv, XpsStep
    PROVE  HandshakeInv'
<1>1. ShapeInv' /\ IdleInv' /\ FlagInv' /\ ExitInv' /\ StaleInv' /\ StageInv' /\ Apart'
    BY DEF HandshakeInv, ShapeInv, IdleInv, FlagInv, ExitInv,
         StaleInv, StageInv, Apart, XpsStep, SendXps, ExpireXps
<1> QED BY <1>1 DEF HandshakeInv

LEMMA PmdStartKeeps ==
    ASSUME HandshakeInv, NEW t \in Cores, PmdStart(t)
    PROVE  HandshakeInv'
<1>1. ShapeInv' /\ IdleInv' /\ FlagInv' /\ ExitInv' /\ StaleInv' /\ StageInv' /\ Apart'
    BY DEF HandshakeInv, ShapeInv, IdleInv, FlagInv, ExitInv,
         StaleInv, StageInv, Apart, PmdStart, pmd_load_queues_and_ports,
         pmd_load_cached_ports, xps_revalidate_pmd
<1> QED BY <1>1 DEF HandshakeInv

LEMMA PmdAllocTxQidKeeps ==
    ASSUME HandshakeInv, NEW t \in Cores, PmdAllocTxQid(t)
    PROVE  HandshakeInv'
<1>1. ShapeInv' /\ IdleInv' /\ FlagInv' /\ ExitInv' /\ StaleInv' /\ StageInv' /\ Apart'
    BY DEF HandshakeInv, ShapeInv, IdleInv, FlagInv, ExitInv,
         StaleInv, StageInv, Apart, PmdAllocTxQid, AtReload
<1> QED BY <1>1 DEF HandshakeInv

LEMMA PmdWakeKeeps ==
    ASSUME HandshakeInv, NEW t \in Cores, PmdWake(t)
    PROVE  HandshakeInv'
<1>1. ShapeInv' /\ IdleInv' /\ FlagInv' /\ ExitInv' /\ StaleInv' /\ StageInv' /\ Apart'
    BY DEF HandshakeInv, ShapeInv, IdleInv, FlagInv, ExitInv,
         StaleInv, StageInv, Apart, PmdWake
<1> QED BY <1>1 DEF HandshakeInv

LEMMA PmdIterateKeeps ==
    ASSUME HandshakeInv, NEW t \in Cores, PmdIterate(t)
    PROVE  HandshakeInv'
<1>1. ShapeInv' /\ IdleInv' /\ FlagInv' /\ ExitInv' /\ StaleInv' /\ StageInv' /\ Apart'
    BY DEF HandshakeInv, ShapeInv, IdleInv, FlagInv, ExitInv,
         StaleInv, StageInv, Apart, PmdIterate
<1> QED BY <1>1 DEF HandshakeInv

LEMMA PmdIteratedKeeps ==
    ASSUME HandshakeInv, NEW t \in Cores, PmdIterated(t)
    PROVE  HandshakeInv'
<1>1. ShapeInv' /\ IdleInv' /\ FlagInv' /\ ExitInv' /\ StaleInv' /\ StageInv' /\ Apart'
    BY DEF HandshakeInv, ShapeInv, IdleInv, FlagInv, ExitInv,
         StaleInv, StageInv, Apart, PmdIterated
<1> QED BY <1>1 DEF HandshakeInv

LEMMA PmdLoadKeeps ==
    ASSUME HandshakeInv, NEW t \in Cores, PmdLoad(t)
    PROVE  HandshakeInv'
<1>1. ShapeInv' /\ IdleInv' /\ StaleInv' /\ StageInv' /\ Apart'
    BY DEF HandshakeInv, ShapeInv, IdleInv, StaleInv, StageInv,
         Apart, PmdLoad, pmd_load_queues_and_ports, pmd_load_cached_ports,
         xps_revalidate_pmd
<1>2. FlagInv'
    BY DEF HandshakeInv, ShapeInv, FlagInv, PmdLoad,
         pmd_load_queues_and_ports, pmd_load_cached_ports, xps_revalidate_pmd
<1>3. ExitInv'
    BY DEF HandshakeInv, ShapeInv, FlagInv, ExitInv, PmdLoad,
         pmd_load_queues_and_ports, pmd_load_cached_ports, xps_revalidate_pmd
<1> QED BY <1>1, <1>2, <1>3 DEF HandshakeInv

LEMMA PmdReloadDoneKeeps ==
    ASSUME HandshakeInv, NEW t \in Cores, PmdReloadDone(t)
    PROVE  HandshakeInv'
<1>1. ShapeInv' /\ IdleInv' /\ StageInv' /\ Apart'
    BY DEF HandshakeInv, ShapeInv, IdleInv, StageInv, Apart,
         PmdReloadDone, AtReload
<1>2. FlagInv' /\ ExitInv'
    BY DEF HandshakeInv, ShapeInv, FlagInv, ExitInv, PmdReloadDone,
         AtReload
<1>3. StaleInv'
    BY DEF HandshakeInv, ShapeInv, FlagInv, StaleInv, PmdReloadDone,
         AtReload
<1> QED BY <1>1, <1>2, <1>3 DEF HandshakeInv

LEMMA PmdFreeTxQidKeeps ==
    ASSUME HandshakeInv, NEW t \in Cores, PmdFreeTxQid(t)
    PROVE  HandshakeInv'
<1>1. ShapeInv' /\ IdleInv' /\ FlagInv' /\ ExitInv' /\ StaleInv' /\ StageInv' /\ Apart'
    BY DEF HandshakeInv, ShapeInv, IdleInv, FlagInv, ExitInv,
         StaleInv, StageInv, Apart, PmdFreeTxQid
<1> QED BY <1>1 DEF HandshakeInv

LEMMA PmdLeaveKeeps ==
    ASSUME HandshakeInv, NEW t \in Cores, PmdLeave(t)
    PROVE  HandshakeInv'
<1>1. ShapeInv' /\ FlagInv' /\ ExitInv' /\ StaleInv' /\ StageInv' /\ Apart'
    BY DEF HandshakeInv, ShapeInv, FlagInv, ExitInv, StaleInv,
         StageInv, Apart, PmdLeave, xps_revalidate_pmd
<1>2. IdleInv'
    BY DEF HandshakeInv, ShapeInv, IdleInv, PmdLeave,
         xps_revalidate_pmd
<1> QED BY <1>1, <1>2 DEF HandshakeInv

-----------------------------------------------------------------------------
(* The invariant, and what it gives. *)

LEMMA InitHandshake == Init => HandshakeInv
  BY DEF Init, HandshakeInv, ShapeInv, IdleInv, FlagInv, ExitInv, StaleInv, StageInv, Apart

LEMMA StutterKeeps == HandshakeInv /\ UNCHANGED vars => HandshakeInv'
  BY DEF HandshakeInv, ShapeInv, IdleInv, FlagInv, ExitInv, StaleInv, StageInv, Apart

LEMMA NextKeeps == HandshakeInv /\ Next => HandshakeInv'
<1> SUFFICES ASSUME HandshakeInv, Next PROVE HandshakeInv'
  OBVIOUS
<1>1. CASE ConfigStep
  BY <1>1, AddPortKeeps, DelPortKeeps, DeviceChangesKeeps, RequestReconfigureKeeps
     DEF ConfigStep
<1>2. CASE MainStep
  BY <1>2, RunReconfigurationKeeps, CheckThreadsKeeps, DelPmdKeeps, DelPmdReloadKeeps,
     DelPmdJoinKeeps, CreatePmdKeeps, ReloadSeqKeeps, ReloadFlagKeeps,
     WaitReloadedKeeps, AllDeletedKeeps, AllCreatedKeeps, ReloadNonPmdKeeps,
     AllSignalledKeeps, AllReloadedKeeps, RemoveStalePortsKeeps,
     PortReconfiguredKeeps, PortFailsKeeps, ScheduleRxqsKeeps, DropQueuesKeeps,
     AddQueueKeeps, AddTxPortsKeeps, EndReconfigurationKeeps
     DEF MainStep
<1>3. CASE XpsStep
  BY <1>3, XpsStepKeeps
<1>4. CASE \E t \in Cores : PmdStep(t)
  BY <1>4, PmdStartKeeps, PmdAllocTxQidKeeps, PmdWakeKeeps, PmdIterateKeeps,
     PmdIteratedKeeps, PmdLoadKeeps, PmdReloadDoneKeeps, PmdFreeTxQidKeeps,
     PmdLeaveKeeps
     DEF PmdStep
<1> QED BY <1>1, <1>2, <1>3, <1>4 DEF Next

LEMMA Handshake == Spec => []HandshakeInv
<1>1. HandshakeInv /\ [Next]_vars => HandshakeInv'
  BY NextKeeps, StutterKeeps
<1> QED BY InitHandshake, <1>1, PTL DEF Spec

\* "otherwise a queue can be polled by two threads at the same time"
\* (dpif-netdev.c 5895-5897): it cannot.
THEOREM QueuesPolledOnce == Spec => []NoDoublePoll
<1>1. HandshakeInv => NoDoublePoll
  BY DEF HandshakeInv, Apart, NoDoublePoll
<1> QED BY <1>1, Handshake, PTL

\* Who is there when the ports are reconfigured works from the current lists.
LEMMA HandshakeQuiescent == ASSUME HandshakeInv PROVE PortQuiescent
<1>1. main \in {"ports", "end"} => \A t \in poll_threads : Fresh(t)
  BY DEF HandshakeInv, StaleInv
<1>2. main \in {"ports", "end"} => \A t \in Threads : Fresh(t)
  BY <1>1 DEF HandshakeInv, ShapeInv, IdleInv
<1>3. CASE main = "ports"
  BY <1>2, <1>3, SMT DEF HandshakeInv, ShapeInv, StageInv, PortQuiescent
<1>4. CASE main = "end"
  BY <1>2, <1>4, SMT DEF HandshakeInv, ShapeInv, StageInv, PortQuiescent
<1>5. CASE main \notin {"ports", "end"}
  BY <1>5 DEF PortQuiescent
<1> QED BY <1>3, <1>4, <1>5

\* "a port cannot be reconfigured while it's being used" (5815-5817): when
\* the main thread reaches that step every thread has let go of the port.
THEOREM PortsQuiescent == Spec => []PortQuiescent
  BY HandshakeQuiescent, Handshake, PTL

-----------------------------------------------------------------------------
(* The static transmit queue ids. *)

LEMMA TxQidStep == HandshakeInv /\ TxQidInv /\ Next => TxQidInv'
<1> SUFFICES ASSUME HandshakeInv, TxQidInv, Next PROVE TxQidInv'
  OBVIOUS
<1> pc \in [Threads -> {"none", "start", "alloc", "sleep", "spin", "poll", "work",
                        "done", "free", "leave", "exited"}]
  BY DEF HandshakeInv, ShapeInv
<1>1. CASE UNCHANGED <<pc, static_tx_qid>>
  BY <1>1 DEF TxQidInv
<1>2. ASSUME NEW t \in Cores, DelPmdJoin(t)
      PROVE  TxQidInv'
  BY <1>2 DEF TxQidInv, DelPmdJoin
<1>3. ASSUME NEW t \in Cores, CreatePmd(t)
      PROVE  TxQidInv'
  <2>1. pc[t] = "none" BY <1>3 DEF HandshakeInv, IdleInv, CreatePmd
  <2> QED BY <1>3, <2>1 DEF TxQidInv, CreatePmd
<1>4. ASSUME NEW t \in Cores, PmdAllocTxQid(t)
      PROVE  TxQidInv'
  <2>1. PICK id \in FreeTxQids : static_tx_qid' = [static_tx_qid EXCEPT ![t] = id]
    BY <1>4 DEF PmdAllocTxQid
  <2>2. /\ id \in 0 .. Cardinality(Cores) /\ id # None
        /\ \A u \in Threads : static_tx_qid[u] # id
    BY <2>1 DEF FreeTxQids, TxQidInv
  <2>3. pc'[t] \in {"leave", "poll", "work", "spin", "sleep"} /\ \A u \in Cores \ {t} : pc'[u] = pc[u]
    BY <1>4 DEF PmdAllocTxQid, AtReload
  <2> QED BY <2>1, <2>2, <2>3 DEF TxQidInv
<1>5. ASSUME NEW t \in Cores,
             PmdStart(t) \/ PmdWake(t) \/ PmdIterate(t) \/ PmdIterated(t) \/ PmdLoad(t) \/ PmdReloadDone(t)
      PROVE  TxQidInv'
  BY <1>5 DEF TxQidInv, PmdStart, PmdWake, PmdIterate, PmdIterated, PmdLoad,
              PmdReloadDone, AtReload
<1>6. ASSUME NEW t \in Cores, PmdFreeTxQid(t) \/ PmdLeave(t)
      PROVE  TxQidInv'
  BY <1>6 DEF TxQidInv, PmdFreeTxQid, PmdLeave
<1>7. ASSUME ConfigStep \/ XpsStep PROVE UNCHANGED <<pc, static_tx_qid>>
  BY <1>7 DEF ConfigStep, XpsStep, AddPort, DelPort, DeviceChanges, RequestReconfigure,
              SendXps, ExpireXps
<1>8. ASSUME MainStep PROVE \/ UNCHANGED <<pc, static_tx_qid>>
                            \/ \E t \in Cores : DelPmdJoin(t) \/ CreatePmd(t)
  BY <1>8 DEF MainStep, RunReconfiguration, CheckThreads, DelPmd, DelPmdReload,
              ReloadSeq, ReloadFlag, WaitReloaded, AllDeleted, AllCreated, ReloadNonPmd,
              AllSignalled, AllReloaded, RemoveStalePorts, PortReconfigured, PortFails,
              ScheduleRxqs, DropQueues, AddQueue, AddTxPorts, EndReconfiguration
<1> QED BY <1>1, <1>2, <1>3, <1>4, <1>5, <1>6, <1>7, <1>8 DEF Next, PmdStep

LEMMA TxQidKeeps == HandshakeInv /\ TxQidInv /\ [Next]_vars => TxQidInv'
<1>1. TxQidInv /\ UNCHANGED vars => TxQidInv' BY DEF TxQidInv
<1> QED BY <1>1, TxQidStep

\* A thread that holds no id leaves enough of them: the others are at most
\* as many as the cores, and there is one id more.
LEMMA IdLeft ==
    ASSUME TxQidInv, NEW t \in Cores, static_tx_qid[t] = None
    PROVE  FreeTxQids # {}
<1> DEFINE holders == {u \in Threads : static_tx_qid[u] # None}
           held == {static_tx_qid[u] : u \in holders}
           ids == 0 .. Cardinality(Cores)
<1>1. IsFiniteSet(Threads) /\ Cardinality(Threads) = Cardinality(Cores) + 1 /\ Cardinality(Cores) \in Nat
  BY FS_AddElement, FS_CardinalityType
<1>2. IsFiniteSet(Threads \ {t}) /\ Cardinality(Threads \ {t}) = Cardinality(Cores)
  BY <1>1, FS_RemoveElement
<1>3. holders \subseteq Threads \ {t}
  OBVIOUS
<1>4. IsFiniteSet(holders) /\ Cardinality(holders) <= Cardinality(Cores)
  BY <1>2, <1>3, FS_Subset
<1>5. IsFiniteSet(held) /\ Cardinality(held) <= Cardinality(holders)
  <2>1. [u \in holders |-> static_tx_qid[u]] \in Surjection(holders, held)
    BY DEF Surjection
  <2> HIDE DEF holders, held
  <2> QED BY <1>4, <2>1, FS_Surjection
<1>6. IsFiniteSet(ids) /\ Cardinality(ids) = Cardinality(Cores) + 1
  <2>1. Cardinality(Cores) \in Nat BY <1>1
  <2> HIDE PmdAssumption DEF Threads
  <2> QED BY <2>1, FS_Interval
<1>7. ~(ids \subseteq held)
  <2>1. Cardinality(held) \in Nat /\ Cardinality(holders) \in Nat
    BY <1>4, <1>5, FS_CardinalityType
  <2> HIDE DEF held, ids, holders
  <2>2. SUFFICES ASSUME ids \subseteq held PROVE FALSE
    OBVIOUS
  <2>3. Cardinality(ids) <= Cardinality(held) BY <1>5, <2>2, FS_Subset
  <2> QED BY <1>1, <1>4, <1>5, <1>6, <2>1, <2>3
<1>8. FreeTxQids = ids \ held BY DEF FreeTxQids
<1> QED BY <1>7, <1>8

\* The ids are distinct and, however the threads that swap theirs interleave,
\* an allocation never finds the pool empty (pmd_alloc_static_tx_qid() would
\* abort the process).
THEOREM TxQidsNeverShared == Spec => []TxQidsDistinct
<1>1. Init => TxQidInv
  <2>1. Cardinality(Cores) \in Nat BY FS_CardinalityType
  <2> QED BY <2>1 DEF Init, TxQidInv
<1>2. ASSUME HandshakeInv, TxQidInv PROVE TxQidsDistinct
  <2>1. ASSUME NEW t \in Threads, pc[t] = "alloc" PROVE FreeTxQids # {}
    <3>1. t \in Cores /\ static_tx_qid[t] = None
      BY <1>2, <2>1 DEF HandshakeInv, IdleInv, TxQidInv
    <3> QED BY <1>2, <3>1, IdLeft
  <2> QED BY <1>2, <2>1 DEF TxQidsDistinct, TxQidInv
<1> QED BY <1>1, <1>2, TxQidKeeps, Handshake, PTL DEF Spec

-----------------------------------------------------------------------------
(* Every thread gets what it was given.                                    *)

LEMMA EffectConfig ==
    ASSUME HandshakeInv, EffectInv, ConfigStep
    PROVE  EffectInv'
<1>1. ASSUME NEW p \in Ports, AddPort(p) PROVE EffectInv'
  BY <1>1 DEF HandshakeInv, ShapeInv, EffectInv, CurrentInv, GivenInv, Current, AddPort,
     StartReconfiguration
<1>2. ASSUME NEW p \in Ports, DelPort(p) PROVE EffectInv'
  BY <1>2 DEF HandshakeInv, ShapeInv, EffectInv, CurrentInv, GivenInv, Current, DelPort,
     StartReconfiguration
<1>3. ASSUME NEW p \in Ports, DeviceChanges(p) PROVE EffectInv'
  BY <1>3 DEF HandshakeInv, ShapeInv, EffectInv, CurrentInv, GivenInv, Current,
     DeviceChanges
<1>4. ASSUME NEW cores, RequestReconfigure(cores) PROVE EffectInv'
  BY <1>4 DEF HandshakeInv, ShapeInv, EffectInv, CurrentInv, GivenInv, Current,
     RequestReconfigure
<1> QED BY <1>1, <1>2, <1>3, <1>4 DEF ConfigStep

LEMMA EffectMain ==
    ASSUME HandshakeInv, EffectInv, MainStep
    PROVE  EffectInv'
<1>1. CASE RunReconfiguration
  BY <1>1 DEF HandshakeInv, ShapeInv, EffectInv, CurrentInv, GivenInv, Current,
     RunReconfiguration, StartReconfiguration
<1>2. CASE CheckThreads
  BY <1>2 DEF HandshakeInv, ShapeInv, EffectInv, CurrentInv, GivenInv, Current,
     CheckThreads, PmdThreads
<1>3. ASSUME NEW t \in Cores, DelPmd(t) PROVE EffectInv'
  BY <1>3 DEF HandshakeInv, ShapeInv, EffectInv, CurrentInv, GivenInv, Current, DelPmd
<1>4. ASSUME NEW t \in Cores, DelPmdReload(t) PROVE EffectInv'
  BY <1>4 DEF HandshakeInv, ShapeInv, EffectInv, CurrentInv, GivenInv, Current, DelPmdReload
<1>5. ASSUME NEW t \in Cores, DelPmdJoin(t) PROVE EffectInv'
  BY <1>5 DEF HandshakeInv, ShapeInv, EffectInv, CurrentInv, GivenInv, Current, DelPmdJoin
<1>6. ASSUME NEW t \in Cores, CreatePmd(t) PROVE EffectInv'
  <2>1. t \notin poll_threads /\ main' = main /\ main = "create" BY <1>6 DEF CreatePmd
  <2>2. Current(t) BY <2>1 DEF HandshakeInv, ShapeInv, IdleInv, Current
  <2>3. /\ poll_threads' = poll_threads \cup {t}
        /\ \A u \in Threads : Current(u)' = Current(u)
        /\ \A u \in poll_threads : need_reload'[u] = need_reload[u] /\ pc'[u] = pc[u]
        /\ pc'[t] = "start"
    BY <1>6, <2>1 DEF HandshakeInv, ShapeInv, Current, CreatePmd
  <2>4. CurrentInv' BY <2>1, <2>2, <2>3 DEF HandshakeInv, ShapeInv, EffectInv, CurrentInv
  <2>5. GivenInv' BY <2>1 DEF GivenInv
  <2> QED BY <2>4, <2>5 DEF EffectInv
<1>7. ASSUME NEW t \in Cores, ReloadSeq(t) PROVE EffectInv'
  BY <1>7 DEF HandshakeInv, ShapeInv, EffectInv, CurrentInv, GivenInv, Current, ReloadSeq
<1>8. ASSUME NEW t \in Cores, ReloadFlag(t) PROVE EffectInv'
  BY <1>8 DEF HandshakeInv, ShapeInv, FlagInv, EffectInv, CurrentInv, GivenInv, Current,
     ReloadFlag
<1>9. ASSUME NEW t \in Threads, WaitReloaded(t) PROVE EffectInv'
  BY <1>9 DEF HandshakeInv, ShapeInv, StaleInv, EffectInv, CurrentInv, GivenInv, Current,
     WaitReloaded
<1>10. CASE AllDeleted
  BY <1>10 DEF HandshakeInv, ShapeInv, EffectInv, CurrentInv, GivenInv, Current,
     AllDeleted, BeginReload
<1>11. CASE AllCreated
  BY <1>11 DEF HandshakeInv, ShapeInv, EffectInv, CurrentInv, GivenInv, Current, AllCreated
<1>12. CASE ReloadNonPmd
  BY <1>12 DEF HandshakeInv, ShapeInv, IdleInv, EffectInv, CurrentInv, GivenInv, Current,
     ReloadNonPmd, pmd_load_cached_ports, xps_revalidate_pmd
<1>13. CASE AllSignalled
  BY <1>13 DEF HandshakeInv, ShapeInv, EffectInv, CurrentInv, GivenInv, Current,
     AllSignalled
<1>14. CASE AllReloaded
  BY <1>14 DEF HandshakeInv, ShapeInv, StaleInv, EffectInv, CurrentInv, GivenInv, Current,
     AllReloaded
<1>15. CASE RemoveStalePorts
  <2>1. main = "stale" /\ main' = "reload" /\ ret' = "ports"
    BY <1>15 DEF RemoveStalePorts, BeginReload
  <2>2. \A t \in Threads :
          \/ need_reload'[t]
          \/ ~need_reload[t] /\ poll_list'[t] = poll_list[t] /\ tx_ports'[t] = tx_ports[t]
    BY <1>15 DEF HandshakeInv, ShapeInv, RemoveStalePorts
  <2>3. /\ polled' = polled /\ cached' = cached /\ pc' = pc /\ poll_threads' = poll_threads
        /\ todo' = {t \in poll_threads : need_reload'[t]}
    BY <1>15 DEF RemoveStalePorts, BeginReload
  <2>4. \A t \in poll_threads : pc[t] # "done"
    BY <2>1 DEF HandshakeInv, ShapeInv, FlagInv
  <2>5. CurrentInv'
    BY <2>1, <2>2, <2>3, <2>4 DEF HandshakeInv, ShapeInv, EffectInv, CurrentInv, Current
  <2>6. GivenInv' BY <2>1 DEF GivenInv
  <2> QED BY <2>5, <2>6 DEF EffectInv
<1>16. ASSUME NEW p \in Ports, PortReconfigured(p) PROVE EffectInv'
  BY <1>16 DEF HandshakeInv, ShapeInv, EffectInv, CurrentInv, GivenInv, Current,
     PortReconfigured
<1>17. ASSUME NEW p \in Ports, PortFails(p) PROVE EffectInv'
  BY <1>17 DEF HandshakeInv, ShapeInv, EffectInv, CurrentInv, GivenInv, Current, PortFails
<1>18. CASE ScheduleRxqs
  BY <1>18 DEF HandshakeInv, ShapeInv, EffectInv, CurrentInv, GivenInv, Current,
     ScheduleRxqs, PmdThreads
<1>19. CASE DropQueues
  <2>1. main = "drop" /\ main' = "reload" /\ ret' = "add"
    BY <1>19 DEF DropQueues, BeginReload
  <2>2. \A t \in Threads : need_reload'[t] \/ (~need_reload[t] /\ poll_list'[t] = poll_list[t])
    BY <1>19 DEF HandshakeInv, ShapeInv, DropQueues
  <2>3. /\ polled' = polled /\ cached' = cached /\ pc' = pc /\ poll_threads' = poll_threads
        /\ tx_ports' = tx_ports /\ todo' = {t \in poll_threads : need_reload'[t]}
    BY <1>19 DEF DropQueues, BeginReload
  <2>4. \A t \in poll_threads : pc[t] # "done"
    BY <2>1 DEF HandshakeInv, ShapeInv, FlagInv
  <2>5. CurrentInv'
    BY <2>1, <2>2, <2>3, <2>4 DEF HandshakeInv, ShapeInv, EffectInv, CurrentInv, Current
  <2>6. GivenInv' BY <2>1 DEF GivenInv
  <2> QED BY <2>5, <2>6 DEF EffectInv
<1>20. ASSUME NEW q \in Rxqs, AddQueue(q) PROVE EffectInv'
  <2>1. main = "add" /\ main' = main /\ rxq_pmd[q] \in Threads
    BY <1>20 DEF HandshakeInv, ShapeInv, AddQueue
  <2>2. \A t \in Threads : need_reload'[t] \/ (~need_reload[t] /\ poll_list'[t] = poll_list[t])
    BY <1>20, <2>1 DEF HandshakeInv, ShapeInv, AddQueue
  <2>3. /\ polled' = polled /\ cached' = cached /\ pc' = pc /\ poll_threads' = poll_threads
        /\ tx_ports' = tx_ports
    BY <1>20 DEF AddQueue
  <2>4. \A t \in poll_threads : pc[t] # "done"
    BY <2>1 DEF HandshakeInv, ShapeInv, FlagInv
  <2>5. CurrentInv'
    BY <2>1, <2>2, <2>3, <2>4 DEF HandshakeInv, ShapeInv, EffectInv, CurrentInv, Current
  <2>6. GivenInv' BY <2>1 DEF GivenInv
  <2> QED BY <2>5, <2>6 DEF EffectInv
<1>21. CASE AddTxPorts
  <2>1. main = "add" /\ main' = "reload" /\ ret' = "end"
    BY <1>21 DEF AddTxPorts, BeginReload
  <2>2. /\ polled' = polled /\ cached' = cached /\ pc' = pc /\ poll_threads' = poll_threads
        /\ poll_list' = poll_list /\ rxq_pmd' = rxq_pmd /\ ports' = ports
        /\ todo' = {t \in poll_threads : need_reload'[t]}
    BY <1>21 DEF AddTxPorts, BeginReload
  <2>3. \A t \in poll_threads : need_reload'[t] \/ (~need_reload[t] /\ tx_ports'[t] = tx_ports[t])
    BY <1>21 DEF HandshakeInv, ShapeInv, AddTxPorts
  <2>4. \A t \in poll_threads : poll_list[t] # {} \/ t = NonPmd => ports \subseteq tx_ports'[t]
    BY <1>21 DEF HandshakeInv, ShapeInv, AddTxPorts
  <2>5. \A q \in Rxqs : rxq_pmd[q] # None =>
          rxq_pmd[q] \in poll_threads /\ q \in poll_list[rxq_pmd[q]]
    BY <1>21, <2>1 DEF HandshakeInv, StageInv, AddTxPorts
  <2>6. \A t \in poll_threads : pc[t] # "done"
    BY <2>1 DEF HandshakeInv, ShapeInv, FlagInv
  <2>7. CurrentInv'
    BY <2>1, <2>2, <2>3, <2>6 DEF HandshakeInv, ShapeInv, EffectInv, CurrentInv, Current
  <2>8. GivenInv' BY <2>1, <2>2, <2>4, <2>5 DEF GivenInv
  <2> QED BY <2>7, <2>8 DEF EffectInv
<1>22. CASE EndReconfiguration
  BY <1>22 DEF HandshakeInv, ShapeInv, StaleInv, StageInv, EffectInv, CurrentInv, GivenInv,
     Current, EndReconfiguration
<1> QED BY <1>1, <1>2, <1>3, <1>4, <1>5, <1>6, <1>7, <1>8, <1>9, <1>10, <1>11, <1>12,
           <1>13, <1>14, <1>15, <1>16, <1>17, <1>18, <1>19, <1>20, <1>21, <1>22 DEF MainStep

LEMMA EffectPmd ==
    ASSUME HandshakeInv, EffectInv, XpsStep \/ \E t \in Cores : PmdStep(t)
    PROVE  EffectInv'
<1>1. CASE XpsStep
  BY <1>1 DEF HandshakeInv, ShapeInv, EffectInv, CurrentInv, GivenInv, Current, XpsStep,
     SendXps, ExpireXps
<1>2. ASSUME NEW t \in Cores, PmdStart(t) PROVE EffectInv'
  BY <1>2 DEF HandshakeInv, ShapeInv, EffectInv, CurrentInv, GivenInv, Current, PmdStart,
     pmd_load_queues_and_ports, pmd_load_cached_ports, xps_revalidate_pmd
<1>3. ASSUME NEW t \in Cores, PmdAllocTxQid(t) \/ PmdWake(t) \/ PmdIterate(t) \/ PmdIterated(t) \/ PmdFreeTxQid(t)
      PROVE EffectInv'
  BY <1>3 DEF HandshakeInv, ShapeInv, EffectInv, CurrentInv, GivenInv, Current,
     PmdAllocTxQid, PmdWake, PmdIterate, PmdIterated, PmdFreeTxQid, AtReload
<1>4. ASSUME NEW t \in Cores, PmdLoad(t) PROVE EffectInv'
  BY <1>4 DEF HandshakeInv, ShapeInv, EffectInv, CurrentInv, GivenInv, Current, PmdLoad,
     pmd_load_queues_and_ports, pmd_load_cached_ports, xps_revalidate_pmd
<1>5. ASSUME NEW t \in Cores, PmdReloadDone(t) PROVE EffectInv'
  BY <1>5 DEF HandshakeInv, ShapeInv, EffectInv, CurrentInv, GivenInv, Current,
     PmdReloadDone, AtReload
<1>6. ASSUME NEW t \in Cores, PmdLeave(t) PROVE EffectInv'
  BY <1>6 DEF HandshakeInv, ShapeInv, ExitInv, EffectInv, CurrentInv, GivenInv, Current,
     PmdLeave, xps_revalidate_pmd
<1> QED BY <1>1, <1>2, <1>3, <1>4, <1>5, <1>6 DEF PmdStep

LEMMA EffectKeeps == HandshakeInv /\ EffectInv /\ [Next]_vars => EffectInv'
<1>1. HandshakeInv /\ EffectInv /\ UNCHANGED vars => EffectInv'
  BY DEF EffectInv, CurrentInv, GivenInv, Current
<1> QED BY <1>1, EffectConfig, EffectMain, EffectPmd DEF Next

-----------------------------------------------------------------------------
(* Transmit queues: the counters of XPS.                                   *)

LEMMA HoldersFinite == ASSUME NEW p PROVE IsFiniteSet(Holders(p)) /\ Cardinality(Holders(p)) \in Nat
<1>1. IsFiniteSet(Threads) BY FS_AddElement
<1>2. Holders(p) \subseteq Threads BY DEF Holders
<1> QED BY <1>1, <1>2, FS_Subset, FS_CardinalityType

LEMMA XpsStepKeepsCount ==
    ASSUME HandshakeInv, XpsInv, XpsStep
    PROVE  XpsInv'
<1> USE DEF HandshakeInv, ShapeInv, XpsInv
<1>1. ASSUME NEW t \in Threads, NEW p \in Ports, SendXps(t, p)
      PROVE  XpsInv'
  <2>1. /\ t \notin Holders(p)
        /\ Holders(p)' = Holders(p) \cup {t}
        /\ \A r \in Ports \ {p} : Holders(r)' = Holders(r)
    BY <1>1 DEF SendXps, Holders
  <2>2. Cardinality(Holders(p)') = Cardinality(Holders(p)) + 1
    BY ONLY HoldersFinite, <2>1, FS_AddElement
  <2>3. ASSUME NEW r \in dynamic_txqs PROVE txq_used'[r] = Cardinality(Holders(r)')
    <3>1. CASE r = p BY <1>1, <2>2, <3>1, HoldersFinite DEF SendXps
    <3>2. CASE r # p BY <1>1, <2>1, <3>2 DEF SendXps
    <3> QED BY <3>1, <3>2
  <2>4. /\ dynamic_txqs' = dynamic_txqs
        /\ xps' \in [Threads -> SUBSET Ports] /\ \A u \in Threads : xps'[u] \subseteq cached'[u]
        /\ txq_used' \in [Ports -> Int]
    BY <1>1 DEF SendXps
  <2> QED BY <2>3, <2>4
<1>2. ASSUME NEW t \in Threads, NEW p \in Ports, ExpireXps(t, p)
      PROVE  XpsInv'
  <2>1. /\ t \in Holders(p)
        /\ Holders(p)' = Holders(p) \ {t}
        /\ \A r \in Ports \ {p} : Holders(r)' = Holders(r)
    BY <1>2 DEF ExpireXps, Holders
  <2>2. Cardinality(Holders(p)') = Cardinality(Holders(p)) - 1
    BY ONLY HoldersFinite, <2>1, FS_RemoveElement
  <2>3. ASSUME NEW r \in dynamic_txqs PROVE txq_used'[r] = Cardinality(Holders(r)')
    <3>1. CASE r = p BY <1>2, <2>2, <3>1, HoldersFinite DEF ExpireXps
    <3>2. CASE r # p BY <1>2, <2>1, <3>2 DEF ExpireXps
    <3> QED BY <3>1, <3>2
  <2>4. /\ dynamic_txqs' = dynamic_txqs
        /\ xps' \in [Threads -> SUBSET Ports] /\ \A u \in Threads : xps'[u] \subseteq cached'[u]
        /\ txq_used' \in [Ports -> Int]
    BY <1>2 DEF ExpireXps
  <2> QED BY <2>3, <2>4
<1> QED BY <1>1, <1>2 DEF XpsStep

\* A thread that drops its cache gives back every queue XPS gave it.
LEMMA XpsRevalidated ==
    ASSUME HandshakeInv, XpsInv, NEW t \in Threads, xps_revalidate_pmd(t),
           cached' \in [Threads -> SUBSET Ports], \A u \in Threads \ {t} : cached'[u] = cached[u],
           dynamic_txqs' = dynamic_txqs
    PROVE  XpsInv'
<1> USE DEF XpsInv, xps_revalidate_pmd
<1>1. ASSUME NEW p \in dynamic_txqs
      PROVE  txq_used'[p] = Cardinality(Holders(p)')
  <2>1. Holders(p)' = Holders(p) \ {t} /\ (p \in xps[t] <=> t \in Holders(p))
    BY DEF Holders
  <2>2. Cardinality(Holders(p)') =
           IF t \in Holders(p) THEN Cardinality(Holders(p)) - 1 ELSE Cardinality(Holders(p))
    BY ONLY HoldersFinite, <2>1, FS_RemoveElement
  <2> QED BY <2>1, <2>2
<1>2. xps' \in [Threads -> SUBSET Ports] /\ \A u \in Threads : xps'[u] \subseteq cached'[u]
  OBVIOUS
<1>3. \A p \in Ports : txq_used'[p] \in Int
  OBVIOUS
<1>4. txq_used' \in [Ports -> Int]
  BY <1>3
<1> QED BY <1>1, <1>2, <1>4

LEMMA XpsKeeps ==
    ASSUME HandshakeInv, EffectInv, XpsInv, [Next]_vars
    PROVE  XpsInv'
<1>1. CASE UNCHANGED <<xps, txq_used, cached, dynamic_txqs>>
  BY <1>1 DEF XpsInv, Holders
<1>2. CASE XpsStep
  BY <1>2, XpsStepKeepsCount
<1>3. CASE ReloadNonPmd
  BY <1>3, XpsRevalidated DEF HandshakeInv, ShapeInv, ReloadNonPmd, pmd_load_cached_ports
<1>4. ASSUME NEW t \in Cores, PmdStart(t) \/ PmdLoad(t) \/ PmdLeave(t) PROVE XpsInv'
  <2>1. xps_revalidate_pmd(t) /\ dynamic_txqs' = dynamic_txqs
    BY <1>4 DEF PmdStart, PmdLoad, PmdLeave, pmd_load_queues_and_ports,
       pmd_load_cached_ports
  <2>2. \E list \in SUBSET Ports : cached' = [cached EXCEPT ![t] = list]
    BY <1>4 DEF HandshakeInv, ShapeInv, PmdStart, PmdLoad, PmdLeave,
       pmd_load_queues_and_ports, pmd_load_cached_ports
  <2>3. cached' \in [Threads -> SUBSET Ports] /\ \A u \in Threads \ {t} : cached'[u] = cached[u]
    BY <2>2 DEF HandshakeInv, ShapeInv
  <2> QED BY <2>1, <2>3, XpsRevalidated
<1>5. ASSUME NEW p \in Ports, AddPort(p) PROVE XpsInv'
  <2>1. dynamic_txqs' = dynamic_txqs \ {p} /\ UNCHANGED <<xps, txq_used, cached>>
    BY <1>5 DEF AddPort
  <2> QED BY <2>1 DEF XpsInv, Holders
<1>6. ASSUME NEW p \in Ports, PortReconfigured(p) PROVE XpsInv'
  <2>1. \A t \in Threads : p \notin cached[t]
    BY <1>6, HandshakeQuiescent DEF PortReconfigured, PortQuiescent
  <2>2. Holders(p)' = {} /\ \A r \in Ports : Holders(r)' = Holders(r)
    BY <1>6, <2>1 DEF XpsInv, Holders, PortReconfigured
  <2>3. /\ dynamic_txqs' \subseteq dynamic_txqs \cup {p}
        /\ xps' = xps /\ cached' = cached
        /\ txq_used' = [txq_used EXCEPT ![p] = 0]
    BY <1>6 DEF PortReconfigured
  <2>4. ASSUME NEW r \in dynamic_txqs' PROVE txq_used'[r] = Cardinality(Holders(r)')
    <3>1. CASE r = p BY <2>2, <2>3, <3>1, FS_EmptySet DEF XpsInv
    <3>2. CASE r # p BY <2>2, <2>3, <3>2 DEF XpsInv
    <3> QED BY <3>1, <3>2
  <2> QED BY <2>3, <2>4 DEF XpsInv
<1>7. ASSUME ConfigStep
      PROVE  UNCHANGED <<xps, txq_used, cached, dynamic_txqs>> \/ \E p \in Ports : AddPort(p)
  BY <1>7 DEF ConfigStep, DelPort, DeviceChanges, RequestReconfigure
<1>8. ASSUME MainStep
      PROVE  \/ UNCHANGED <<xps, txq_used, cached, dynamic_txqs>> \/ ReloadNonPmd
             \/ \E p \in Ports : PortReconfigured(p)
  BY <1>8 DEF MainStep, RunReconfiguration, CheckThreads, DelPmd, DelPmdReload, DelPmdJoin,
              CreatePmd, ReloadSeq, ReloadFlag, WaitReloaded, AllDeleted, AllCreated,
              AllSignalled, AllReloaded, RemoveStalePorts, PortFails, ScheduleRxqs,
              DropQueues, AddQueue, AddTxPorts, EndReconfiguration
<1>9. ASSUME NEW t \in Cores, PmdStep(t)
      PROVE  UNCHANGED <<xps, txq_used, cached, dynamic_txqs>> \/ PmdStart(t) \/ PmdLoad(t) \/ PmdLeave(t)
  BY <1>9 DEF PmdStep, PmdAllocTxQid, PmdWake, PmdIterate, PmdIterated, PmdReloadDone,
     PmdFreeTxQid
<1> QED BY <1>1, <1>2, <1>3, <1>4, <1>5, <1>6, <1>7, <1>8, <1>9 DEF Next

-----------------------------------------------------------------------------
(* Transmit queues: the static ids and the ports' numbers of queues.       *)

USE DEF Deleting, Threading, Changing, Unshared, Pending

LEMMA Counts ==
    ASSUME HandshakeInv
    PROVE  /\ IsFiniteSet(poll_threads) /\ wanted_txqs \in Nat \ {0}
           /\ pmd_cores \subseteq Cores =>
                 /\ IsFiniteSet(WantedCores) /\ Cardinality(WantedCores) \in Nat
                 /\ QueuesWanted \in Nat \ {0}
<1>1. IsFiniteSet(Threads) BY FS_AddElement
<1>2. IsFiniteSet(poll_threads) /\ poll_threads # {}
  BY <1>1, FS_Subset DEF HandshakeInv, ShapeInv
<1>3. wanted_txqs \in Nat \ {0}
  BY <1>2, FS_CardinalityType, FS_EmptySet DEF wanted_txqs
<1>4. ASSUME pmd_cores \subseteq Cores PROVE IsFiniteSet(WantedCores) /\ Cardinality(WantedCores) \in Nat
  <2>1. WantedCores \subseteq Cores BY <1>4 DEF WantedCores
  <2> QED BY <2>1, FS_Subset, FS_CardinalityType
<1> QED BY <1>2, <1>3, <1>4 DEF QueuesWanted

\* The lowest free id is below the number of threads: the others hold at
\* most one each.
LEMMA LowestIdLeft ==
    ASSUME HandshakeInv, TxQidInv, NEW t \in Cores, t \in poll_threads, static_tx_qid[t] = None,
           NEW id \in FreeTxQids, \A other \in FreeTxQids : id <= other
    PROVE  id < wanted_txqs
<1> DEFINE holders == {u \in Threads : static_tx_qid[u] # None}
           held == {static_tx_qid[u] : u \in holders}
<1>1. IsFiniteSet(poll_threads) /\ wanted_txqs \in Nat \ {0} BY Counts
<1>2. IsFiniteSet(poll_threads \ {t}) /\ Cardinality(poll_threads \ {t}) = wanted_txqs - 1
  BY <1>1, FS_RemoveElement DEF wanted_txqs
<1>3. holders \subseteq poll_threads \ {t}
  BY DEF HandshakeInv, ShapeInv, IdleInv, TxQidInv
<1>4. IsFiniteSet(holders) /\ Cardinality(holders) <= wanted_txqs - 1
  BY <1>2, <1>3, FS_Subset
<1>5. IsFiniteSet(held) /\ Cardinality(held) <= Cardinality(holders)
  <2>1. [u \in holders |-> static_tx_qid[u]] \in Surjection(holders, held)
    BY DEF Surjection
  <2> HIDE DEF holders, held
  <2> QED BY <1>4, <2>1, FS_Surjection
<1>6. Cardinality(Cores) \in Nat /\ id \in 0 .. Cardinality(Cores)
  BY FS_CardinalityType DEF FreeTxQids
<1>7. 0 .. (id - 1) \subseteq held
  <2>1. SUFFICES ASSUME NEW i \in 0 .. (id - 1) PROVE i \in held
    OBVIOUS
  <2>2. i \in 0 .. Cardinality(Cores) /\ ~(id <= i) BY <1>6, <2>1
  <2>3. i \notin FreeTxQids BY <2>2
  <2> QED BY <2>2, <2>3 DEF FreeTxQids
<1>8. IsFiniteSet(0 .. (id - 1)) /\ Cardinality(0 .. (id - 1)) = id
  <2>1. id \in Nat /\ id - 1 \in Int BY <1>6
  <2>2. IsFiniteSet(0 .. (id - 1)) /\ Cardinality(0 .. (id - 1)) = IF 0 > id - 1 THEN 0 ELSE (id - 1) - 0 + 1
    BY ONLY <2>1, FS_Interval
  <2> QED BY ONLY <2>1, <2>2
<1>9. Cardinality(0 .. (id - 1)) <= Cardinality(held)
  <2> HIDE DEF held
  <2> QED BY <1>5, <1>7, FS_Subset
<1>10. Cardinality(held) \in Nat /\ Cardinality(holders) \in Nat
  <2> HIDE DEF held, holders
  <2> QED BY <1>4, <1>5, FS_CardinalityType
<1> HIDE DEF held, holders
<1> QED BY <1>1, <1>4, <1>5, <1>6, <1>8, <1>9, <1>10

\* The ids that fit the threads there are fit those the reconfiguration leads to.
LEMMA WantedCovers ==
    ASSUME HandshakeInv, ThreadsInv
    PROVE  /\ wanted_txqs \in Nat \ {0} /\ QueuesWanted \in Nat \ {0}
           /\ ~(Deleting /\ adjust) => wanted_txqs <= QueuesWanted
<1>1. /\ IsFiniteSet(WantedCores) /\ Cardinality(WantedCores) \in Nat
      /\ wanted_txqs \in Nat \ {0} /\ QueuesWanted \in Nat \ {0}
      /\ WantedCores \subseteq Cores
  BY Counts DEF ThreadsInv, WantedCores
<1>2. ASSUME At("create") PROVE wanted_txqs <= QueuesWanted
  <2>1. /\ IsFiniteSet(WantedCores \cup {NonPmd})
        /\ Cardinality(WantedCores \cup {NonPmd}) = Cardinality(WantedCores) + 1
    BY <1>1, FS_AddElement
  <2>2. poll_threads \subseteq WantedCores \cup {NonPmd} BY <1>2 DEF ThreadsInv
  <2>3. Cardinality(poll_threads) <= Cardinality(WantedCores \cup {NonPmd})
    BY ONLY <2>1, <2>2, FS_Subset
  <2> QED BY <1>1, <1>2, <2>1, <2>3 DEF wanted_txqs, QueuesWanted
<1>3. ASSUME Deleting, ~adjust PROVE wanted_txqs <= QueuesWanted
  BY <1>3 DEF ThreadsInv, wanted_txqs
<1>4. ASSUME ~Threading PROVE wanted_txqs <= QueuesWanted
  BY <1>1, <1>4 DEF QueuesWanted
<1> QED BY <1>1, <1>2, <1>3, <1>4

LEMMA AddPortTx ==
    ASSUME HandshakeInv, EffectInv, TxQidInv, TxQueueInv, NEW p \in Ports, AddPort(p)
    PROVE  TxQueueInv'
<1> USE DEF HandshakeInv, ShapeInv, AddPort, StartReconfiguration
<1>1. ThreadsInv' BY DEF TxQueueInv, ThreadsInv
<1>2. SwapInv' BY DEF TxQueueInv, SwapInv
<1>3. IdInv' BY DEF TxQueueInv, IdInv, QueuesWanted, WantedCores, wanted_txqs
<1>4. PortsInv' BY DEF TxQueueInv, PortsInv, EffectInv, GivenInv, QueuesWanted,
                   WantedCores, wanted_txqs
<1>5. SendInv'
  <2>1. \A t \in Threads : cached[t] \subseteq tx_ports[t]
    BY DEF EffectInv, CurrentInv, GivenInv, Current, IdleInv, ExitInv
  <2>2. \A t \in Threads : tx_ports[t] \subseteq ports
    BY DEF EffectInv, GivenInv, IdleInv
  <2>3. \A t \in Threads : Unshared(t)' = Unshared(t) /\ p \notin Unshared(t)
    BY <2>1, <2>2 DEF TxQueueInv, PortsInv
  <2>4. \A t \in Cores : Changing(t)' = Changing(t)
    OBVIOUS
  <2>5. \A r \in Ports \ {p} : n_txq'[r] = n_txq[r]
    BY DEF TxQueueInv, PortsInv
  <2>6. \A t \in Cores : Changing(t) => Unshared(t) = {}
    BY DEF TxQueueInv, SendInv
  <2> QED BY <2>3, <2>4, <2>5, <2>6, SMT DEF TxQueueInv, SendInv
<1> QED BY <1>1, <1>2, <1>3, <1>4, <1>5 DEF TxQueueInv

LEMMA DelPortTx ==
    ASSUME HandshakeInv, EffectInv, TxQidInv, TxQueueInv, NEW p \in Ports, DelPort(p)
    PROVE  TxQueueInv'
  BY DEF TxQueueInv, ThreadsInv, SwapInv, IdInv, PortsInv, SendInv, QueuesWanted,
     WantedCores, wanted_txqs, HandshakeInv, ShapeInv, DelPort, StartReconfiguration

LEMMA DeviceChangesTx ==
    ASSUME HandshakeInv, EffectInv, TxQidInv, TxQueueInv, NEW p \in Ports, DeviceChanges(p)
    PROVE  TxQueueInv'
  BY DEF TxQueueInv, ThreadsInv, SwapInv, IdInv, PortsInv, SendInv, QueuesWanted,
     WantedCores, wanted_txqs, HandshakeInv, ShapeInv, DeviceChanges

LEMMA RequestReconfigureTx ==
    ASSUME HandshakeInv, EffectInv, TxQidInv, TxQueueInv,
           NEW cores \in SUBSET Cores, RequestReconfigure(cores)
    PROVE  TxQueueInv'
  BY DEF TxQueueInv, ThreadsInv, SwapInv, IdInv, PortsInv, SendInv, QueuesWanted,
     WantedCores, wanted_txqs, HandshakeInv, ShapeInv, RequestReconfigure

LEMMA RunReconfigurationTx ==
    ASSUME HandshakeInv, EffectInv, TxQidInv, TxQueueInv, RunReconfiguration
    PROVE  TxQueueInv'
  BY DEF TxQueueInv, ThreadsInv, SwapInv, IdInv, PortsInv, SendInv, QueuesWanted,
     WantedCores, wanted_txqs, HandshakeInv, ShapeInv, RunReconfiguration,
     StartReconfiguration

LEMMA CheckThreadsTx ==
    ASSUME HandshakeInv, EffectInv, TxQidInv, TxQueueInv, CheckThreads
    PROVE  TxQueueInv'
<1> USE DEF HandshakeInv, ShapeInv, CheckThreads, PmdThreads, FewerPmds
<1> DEFINE gone == PmdThreads \ WantedCores
<1>0. /\ main = "threads" /\ main' = "delete" /\ todo' = gone /\ adjust' = FewerPmds
      /\ poll_threads' = poll_threads /\ WantedCores' = WantedCores
      /\ wanted_txqs' = wanted_txqs /\ QueuesWanted' = Cardinality(WantedCores) + 1
      /\ wanted_txqs \in Nat \ {0} /\ Cardinality(WantedCores) \in Nat
      /\ \A t \in Threads : ~reload_tx_qid[t]
      /\ UNCHANGED <<tx_ports, cached, dynamic_txqs, n_txq, pc, static_tx_qid, flags>>
  BY Counts DEF QueuesWanted, WantedCores, wanted_txqs, TxQueueInv, SwapInv, ThreadsInv
<1>1. ThreadsInv'
  <2>1. poll_threads \subseteq WantedCores \cup gone \cup {NonPmd}
    OBVIOUS
  <2>2. ~FewerPmds => wanted_txqs <= Cardinality(WantedCores) + 1
    BY <1>0
  <2>3. pmd_cores' \subseteq Cores
    BY DEF TxQueueInv, ThreadsInv
  <2> HIDE DEF CheckThreads, gone, FewerPmds
  <2> QED BY <1>0, <2>1, <2>2, <2>3 DEF ThreadsInv, wanted_txqs
<1>2. SwapInv' BY DEF TxQueueInv, SwapInv, FlagInv
<1>3. IdInv'
  <2>1. ASSUME NEW t \in Cores, (static_tx_qid[t] # None)', ~Changing(t)', ~reload_tx_qid'[t],
               ~(Deleting /\ t \in todo)'
        PROVE  static_tx_qid'[t] < QueuesWanted'
    <3>1. t \in poll_threads
      BY <1>0, <2>1 DEF TxQidInv, IdleInv
    <3>2. ~FewerPmds
      BY <1>0, <2>1, <3>1
    <3>3. static_tx_qid[t] < wanted_txqs /\ static_tx_qid[t] \in Nat
      <4>1. Cardinality(Cores) \in Nat BY FS_CardinalityType
      <4>2. static_tx_qid[t] \in Nat BY <1>0, <2>1, <4>1 DEF TxQidInv
      <4>3. static_tx_qid[t] < QueuesWanted BY <1>0, <2>1 DEF TxQueueInv, IdInv
      <4> QED BY <1>0, <4>2, <4>3 DEF QueuesWanted
    <3> QED BY <1>0, <3>2, <3>3
  <2> QED BY <2>1 DEF IdInv
<1>4. PortsInv'
  <2>1. \A t \in poll_threads : Unshared(t)' \subseteq tx_ports[t] \ dynamic_txqs
    BY <1>0 DEF EffectInv, CurrentInv, GivenInv, Current, ExitInv
  <2>2. ASSUME FewerPmds, NEW t \in poll_threads, NEW p \in Unshared(t)'
        PROVE  n_txq[p] > QueuesWanted'
    <3>1. n_txq[p] >= wanted_txqs /\ n_txq[p] \in Nat
      BY <1>0, <2>1, <2>2 DEF TxQueueInv, PortsInv
    <3> QED BY <1>0, <2>2, <3>1
  <2> QED BY <1>0, <2>2 DEF TxQueueInv, PortsInv
<1>5. SendInv' BY DEF TxQueueInv, SendInv, wanted_txqs
<1> QED BY <1>1, <1>2, <1>3, <1>4, <1>5 DEF TxQueueInv

LEMMA DelPmdTx ==
    ASSUME HandshakeInv, EffectInv, TxQidInv, TxQueueInv, NEW t \in Cores, DelPmd(t)
    PROVE  TxQueueInv'
  BY DEF TxQueueInv, ThreadsInv, SwapInv, IdInv, PortsInv, SendInv, QueuesWanted,
     WantedCores, wanted_txqs, HandshakeInv, ShapeInv, DelPmd

LEMMA DelPmdReloadTx ==
    ASSUME HandshakeInv, EffectInv, TxQidInv, TxQueueInv, NEW t \in Cores, DelPmdReload(t)
    PROVE  TxQueueInv'
  BY DEF TxQueueInv, ThreadsInv, SwapInv, IdInv, PortsInv, SendInv, QueuesWanted,
     WantedCores, wanted_txqs, HandshakeInv, ShapeInv, DelPmdReload

LEMMA DelPmdJoinTx ==
    ASSUME HandshakeInv, EffectInv, TxQidInv, TxQueueInv, NEW t \in Cores, DelPmdJoin(t)
    PROVE  TxQueueInv'
<1> USE DEF HandshakeInv, ShapeInv, DelPmdJoin
<1>1. ThreadsInv'
  <2>1. /\ poll_threads' = poll_threads \ {t} /\ main = "join" /\ main' = "delete" /\ todo' = todo \ {t}
        /\ adjust' = adjust /\ pmd_cores' = pmd_cores /\ WantedCores' = WantedCores
    BY DEF WantedCores
  <2>2. QueuesWanted' = QueuesWanted BY <2>1 DEF QueuesWanted
  <2>3. Cardinality(poll_threads') <= Cardinality(poll_threads) /\ Cardinality(poll_threads') \in Nat
    BY ONLY Counts, HandshakeInv, <2>1, FS_Subset, FS_CardinalityType
  <2>4. QueuesWanted \in Nat /\ Cardinality(poll_threads) \in Nat
    BY Counts DEF TxQueueInv, ThreadsInv, wanted_txqs
  <2> QED BY <2>1, <2>2, <2>3, <2>4, SMT DEF TxQueueInv, ThreadsInv
<1>2. SwapInv'
  <2>1. /\ main = "join" /\ main' = "delete" /\ todo' = todo \ {t} /\ t \in todo
        /\ poll_threads' = poll_threads \ {t} /\ pc'[t] = "none" /\ \A u \in Cores \ {t} : pc'[u] = pc[u]
        /\ UNCHANGED <<reload_tx_qid, adjust, need_reload, flags>>
    BY DEF ExitInv
  <2> HIDE DEF DelPmdJoin
  <2> QED BY <2>1 DEF TxQueueInv, SwapInv
<1>3. IdInv' BY DEF TxQueueInv, IdInv, TxQidInv, QueuesWanted, WantedCores, wanted_txqs
<1>4. PortsInv' BY DEF TxQueueInv, PortsInv, QueuesWanted, WantedCores, wanted_txqs
<1>5. SendInv' BY DEF TxQueueInv, SendInv, wanted_txqs
<1> QED BY <1>1, <1>2, <1>3, <1>4, <1>5 DEF TxQueueInv

LEMMA CreatePmdTx ==
    ASSUME HandshakeInv, EffectInv, TxQidInv, TxQueueInv, NEW t \in Cores, CreatePmd(t)
    PROVE  TxQueueInv'
<1> USE DEF HandshakeInv, ShapeInv, CreatePmd
<1>1. ThreadsInv' BY DEF TxQueueInv, ThreadsInv, QueuesWanted, WantedCores
<1>2. SwapInv' BY DEF TxQueueInv, SwapInv
<1>3. IdInv' BY DEF TxQueueInv, IdInv, QueuesWanted, WantedCores, wanted_txqs
<1>4. PortsInv'
  <2>1. \A u \in poll_threads : Unshared(u)' = Unshared(u) OBVIOUS
  <2>2. Unshared(t)' = {} BY DEF IdleInv
  <2>3. /\ poll_threads' = poll_threads \cup {t} /\ main' = main /\ main = "create" /\ adjust' = adjust
        /\ n_txq' = n_txq /\ WantedCores' = WantedCores
    BY DEF WantedCores
  <2>4. QueuesWanted' = QueuesWanted BY <2>3 DEF QueuesWanted
  <2> QED BY <2>1, <2>2, <2>3, <2>4, SMT DEF TxQueueInv, PortsInv
<1>5. SendInv'
  <2>1. \A u \in Threads : Unshared(u)' = Unshared(u) OBVIOUS
  <2>2. Unshared(t) = {} BY DEF IdleInv
  <2>3. \A u \in Cores \ {t} : Changing(u)' = Changing(u) OBVIOUS
  <2>4. main = "create" /\ UNCHANGED <<main, adjust, n_txq, static_tx_qid>>
    OBVIOUS
  <2> QED BY <2>1, <2>2, <2>3, <2>4, SMT DEF TxQueueInv, SendInv
<1> QED BY <1>1, <1>2, <1>3, <1>4, <1>5 DEF TxQueueInv

LEMMA ReloadSeqTx ==
    ASSUME HandshakeInv, EffectInv, TxQidInv, TxQueueInv, NEW t \in Cores, ReloadSeq(t)
    PROVE  TxQueueInv'
  BY DEF TxQueueInv, ThreadsInv, SwapInv, IdInv, PortsInv, SendInv, QueuesWanted,
     WantedCores, wanted_txqs, HandshakeInv, ShapeInv, ReloadSeq

LEMMA ReloadFlagTx ==
    ASSUME HandshakeInv, EffectInv, TxQidInv, TxQueueInv, NEW t \in Cores, ReloadFlag(t)
    PROVE  TxQueueInv'
  BY DEF TxQueueInv, ThreadsInv, SwapInv, IdInv, PortsInv, SendInv, QueuesWanted,
     WantedCores, wanted_txqs, HandshakeInv, ShapeInv, ReloadFlag

LEMMA WaitReloadedTx ==
    ASSUME HandshakeInv, EffectInv, TxQidInv, TxQueueInv, NEW t \in Threads, WaitReloaded(t)
    PROVE  TxQueueInv'
  BY DEF TxQueueInv, ThreadsInv, SwapInv, IdInv, PortsInv, SendInv, QueuesWanted,
     WantedCores, wanted_txqs, HandshakeInv, ShapeInv, WaitReloaded

LEMMA AllDeletedTx ==
    ASSUME HandshakeInv, EffectInv, TxQidInv, TxQueueInv, AllDeleted
    PROVE  TxQueueInv'
  BY DEF TxQueueInv, ThreadsInv, SwapInv, IdInv, PortsInv, SendInv, QueuesWanted,
     WantedCores, wanted_txqs, HandshakeInv, ShapeInv, AllDeleted, BeginReload

LEMMA AllCreatedTx ==
    ASSUME HandshakeInv, EffectInv, TxQidInv, TxQueueInv, AllCreated
    PROVE  TxQueueInv'
<1> USE DEF HandshakeInv, ShapeInv, AllCreated
<1>1. ThreadsInv' BY DEF TxQueueInv, ThreadsInv
<1>2. SwapInv' BY DEF TxQueueInv, SwapInv
<1>0. /\ main = "create" /\ main' = "stale" /\ adjust' = adjust /\ QueuesWanted' = QueuesWanted
  <2>1. WantedCores \subseteq Cores /\ IsFiniteSet(WantedCores)
    BY Counts DEF TxQueueInv, ThreadsInv, WantedCores
  <2>2. poll_threads = WantedCores \cup {NonPmd} BY DEF TxQueueInv, ThreadsInv
  <2>3. NonPmd \notin WantedCores BY <2>1
  <2>4. Cardinality(poll_threads) = Cardinality(WantedCores) + 1
    BY ONLY <2>1, <2>2, <2>3, FS_AddElement
  <2> QED BY <2>4 DEF QueuesWanted, wanted_txqs
<1>3. IdInv' BY <1>0, SMT DEF TxQueueInv, IdInv, SwapInv
<1>4. PortsInv' BY <1>0, SMT DEF TxQueueInv, PortsInv
<1>5. SendInv' BY DEF TxQueueInv, SendInv, wanted_txqs
<1> QED BY <1>1, <1>2, <1>3, <1>4, <1>5 DEF TxQueueInv

LEMMA ReloadNonPmdTx ==
    ASSUME HandshakeInv, EffectInv, TxQidInv, TxQueueInv, ReloadNonPmd
    PROVE  TxQueueInv'
  BY DEF TxQueueInv, ThreadsInv, SwapInv, IdInv, PortsInv, SendInv, QueuesWanted,
     WantedCores, wanted_txqs, HandshakeInv, ShapeInv, ReloadNonPmd,
     pmd_load_cached_ports, xps_revalidate_pmd

LEMMA AllSignalledTx ==
    ASSUME HandshakeInv, EffectInv, TxQidInv, TxQueueInv, AllSignalled
    PROVE  TxQueueInv'
  BY DEF TxQueueInv, ThreadsInv, SwapInv, IdInv, PortsInv, SendInv, QueuesWanted,
     WantedCores, wanted_txqs, HandshakeInv, ShapeInv, AllSignalled

LEMMA AllReloadedTx ==
    ASSUME HandshakeInv, EffectInv, TxQidInv, TxQueueInv, AllReloaded
    PROVE  TxQueueInv'
<1> USE DEF HandshakeInv, ShapeInv, AllReloaded
<1>1. ThreadsInv' BY DEF TxQueueInv, ThreadsInv, QueuesWanted, WantedCores
<1>2. SwapInv' BY DEF TxQueueInv, SwapInv, StaleInv
<1>3. IdInv' BY DEF TxQueueInv, IdInv, QueuesWanted, WantedCores, wanted_txqs
<1>4. PortsInv' BY DEF TxQueueInv, PortsInv, QueuesWanted, WantedCores, wanted_txqs
<1>5. SendInv'
  <2>1. \A t \in Cores : ~Pending(t)
    BY DEF IdleInv, FlagInv, StaleInv
  <2>2. main' = ret /\ main = "wait"
    OBVIOUS
  <2>3. \A t \in Cores : Unshared(t)' = Unshared(t) /\ Changing(t)' = Changing(t)
    OBVIOUS
  <2> QED BY <2>1, <2>2, <2>3, SMT DEF TxQueueInv, SendInv
<1> QED BY <1>1, <1>2, <1>3, <1>4, <1>5 DEF TxQueueInv

LEMMA RemoveStalePortsTx ==
    ASSUME HandshakeInv, EffectInv, TxQidInv, TxQueueInv, RemoveStalePorts
    PROVE  TxQueueInv'
<1> USE DEF HandshakeInv, ShapeInv, RemoveStalePorts, BeginReload, netdev_is_reconf_required, Granted
<1>1. ThreadsInv' BY DEF TxQueueInv, ThreadsInv
<1>2. SwapInv' BY DEF TxQueueInv, SwapInv
<1>3. IdInv' BY DEF TxQueueInv, IdInv, QueuesWanted, WantedCores, wanted_txqs
<1>4. PortsInv' BY Counts DEF TxQueueInv, PortsInv, StageInv, EffectInv, CurrentInv,
                   GivenInv, Current, QueuesWanted, WantedCores, wanted_txqs
<1> DEFINE marked == need_reconfigure \cup
                  {p \in ports : \/ netdev_is_reconf_required(p)
                                 \/ (p \in dynamic_txqs) # (n_txq[p] < wanted_txqs)}
           stale == marked \cup (Ports \ ports)
<1>0. /\ main = "stale" /\ main' = "reload" /\ ret' = "ports"
      /\ wanted_txqs' = wanted_txqs /\ QueuesWanted = wanted_txqs
      /\ UNCHANGED <<cached, dynamic_txqs, n_txq, pc, flags, static_tx_qid, reload, poll_threads>>
      /\ tx_ports' = [t \in Threads |-> tx_ports[t] \ stale]
      /\ todo' = {t \in poll_threads : need_reload'[t]}
  BY DEF QueuesWanted, wanted_txqs
<1>5. SendInv'
  <2>1. \A t \in Threads : Unshared(t)' \subseteq Unshared(t)
    BY <1>0
  <2>2. ASSUME NEW t \in Cores, Changing(t), NEW p \in Unshared(t)
        PROVE  /\ n_txq[p] >= wanted_txqs /\ p \in stale
               /\ need_reload'[t] /\ t \in poll_threads
    <3>1. t \in poll_threads BY <2>2 DEF IdleInv
    <3>2. n_txq[p] > wanted_txqs /\ p \in Ports /\ n_txq[p] \in Nat
      BY <1>0, <2>2, <3>1 DEF TxQueueInv, PortsInv, SendInv
    <3>3. p \in stale
      <4>1. CASE p \in ports
        <5>1. netdev_is_reconf_required(p) BY <1>0, <3>2 DEF TxQueueInv
        <5> QED BY <4>1, <5>1
      <4>2. CASE p \notin ports BY <3>2, <4>2
      <4> QED BY <4>1, <4>2
    <3>4. need_reload[t] \/ p \in tx_ports[t]
      BY <2>2, <3>1 DEF EffectInv, CurrentInv, Current
    <3>5. need_reload'[t]
      BY <3>3, <3>4
    <3> QED BY Counts, <1>0, <3>1, <3>2, <3>3, <3>5
  <2>3. \A t \in Cores : Changing(t)' = Changing(t) BY <1>0
  <2>4. ASSUME NEW t \in Cores, Changing(t)', NEW p \in Unshared(t)'
        PROVE  /\ Signalling' /\ ret' \in {"ports", "end"} /\ Pending(t)'
               /\ n_txq'[p] >= wanted_txqs' /\ p \notin tx_ports'[t]
    <3>1. n_txq[p] >= wanted_txqs /\ p \in stale /\ need_reload'[t] /\ t \in poll_threads
      BY <2>1, <2>2, <2>3, <2>4
    <3> HIDE DEF stale, RemoveStalePorts
    <3> QED BY <1>0, <3>1
  <2>5. ASSUME NEW t \in Cores, ~Changing(t)', static_tx_qid'[t] # None, NEW p \in Unshared(t)'
        PROVE  static_tx_qid'[t] < n_txq'[p]
    BY <1>0, <2>1, <2>3, <2>5 DEF TxQueueInv, SendInv
  <2> QED BY <1>0, <2>4, <2>5 DEF TxQueueInv, SendInv
<1> QED BY <1>1, <1>2, <1>3, <1>4, <1>5 DEF TxQueueInv

LEMMA PortReconfiguredTx ==
    ASSUME HandshakeInv, EffectInv, TxQidInv, TxQueueInv, NEW p \in Ports, PortReconfigured(p)
    PROVE  TxQueueInv'
<1> USE DEF HandshakeInv, ShapeInv, PortReconfigured, Granted
<1>1. ThreadsInv' BY DEF TxQueueInv, ThreadsInv
<1>2. SwapInv' BY DEF TxQueueInv, SwapInv
<1>3. IdInv' BY DEF TxQueueInv, IdInv, QueuesWanted, WantedCores, wanted_txqs
<1>4. PortsInv' BY Counts DEF TxQueueInv, PortsInv, StageInv, EffectInv, CurrentInv,
                   GivenInv, Current, QueuesWanted, WantedCores, wanted_txqs
<1>5. SendInv'
  <2>1. \A t \in Threads : p \notin tx_ports[t] /\ p \notin cached[t]
    BY HandshakeQuiescent DEF PortQuiescent, StageInv
  <2>2. \A t \in Threads : Unshared(t)' = Unshared(t) /\ p \notin Unshared(t)
    BY <2>1
  <2>3. \A t \in Cores : Changing(t) => Unshared(t) = {}
    BY DEF TxQueueInv, SendInv
  <2>4. \A r \in Ports \ {p} : n_txq'[r] = n_txq[r]
    BY DEF TxQueueInv, PortsInv
  <2>5. \A t \in Cores : Changing(t)' = Changing(t) OBVIOUS
  <2> QED BY <2>2, <2>3, <2>4, <2>5, SMT DEF TxQueueInv, SendInv
<1> QED BY <1>1, <1>2, <1>3, <1>4, <1>5 DEF TxQueueInv

LEMMA PortFailsTx ==
    ASSUME HandshakeInv, EffectInv, TxQidInv, TxQueueInv, NEW p \in Ports, PortFails(p)
    PROVE  TxQueueInv'
  BY DEF TxQueueInv, ThreadsInv, SwapInv, IdInv, PortsInv, SendInv, QueuesWanted,
     WantedCores, wanted_txqs, HandshakeInv, ShapeInv, PortFails

LEMMA ScheduleRxqsTx ==
    ASSUME HandshakeInv, EffectInv, TxQidInv, TxQueueInv, ScheduleRxqs
    PROVE  TxQueueInv'
  BY DEF TxQueueInv, ThreadsInv, SwapInv, IdInv, PortsInv, SendInv, QueuesWanted,
     WantedCores, wanted_txqs, HandshakeInv, ShapeInv, ScheduleRxqs

LEMMA DropQueuesTx ==
    ASSUME HandshakeInv, EffectInv, TxQidInv, TxQueueInv, DropQueues
    PROVE  TxQueueInv'
  BY DEF TxQueueInv, ThreadsInv, SwapInv, IdInv, PortsInv, SendInv, QueuesWanted,
     WantedCores, wanted_txqs, HandshakeInv, ShapeInv, DropQueues, BeginReload

LEMMA AddQueueTx ==
    ASSUME HandshakeInv, EffectInv, TxQidInv, TxQueueInv, NEW q \in Rxqs, AddQueue(q)
    PROVE  TxQueueInv'
  BY DEF TxQueueInv, ThreadsInv, SwapInv, IdInv, PortsInv, SendInv, QueuesWanted,
     WantedCores, wanted_txqs, HandshakeInv, ShapeInv, AddQueue

LEMMA AddTxPortsTx ==
    ASSUME HandshakeInv, EffectInv, TxQidInv, TxQueueInv, AddTxPorts
    PROVE  TxQueueInv'
<1> USE DEF HandshakeInv, ShapeInv, AddTxPorts, BeginReload
<1>1. ThreadsInv' BY DEF TxQueueInv, ThreadsInv
<1>2. SwapInv' BY DEF TxQueueInv, SwapInv
<1>3. IdInv' BY DEF TxQueueInv, IdInv, QueuesWanted, WantedCores, wanted_txqs
<1>4. PortsInv' BY DEF TxQueueInv, PortsInv, QueuesWanted, WantedCores, wanted_txqs
<1>0. /\ main = "add" /\ main' = "reload" /\ ret' = "end"
      /\ wanted_txqs' = wanted_txqs /\ QueuesWanted = wanted_txqs
      /\ UNCHANGED <<cached, dynamic_txqs, n_txq, pc, flags, static_tx_qid, reload, poll_threads>>
      /\ todo' = {t \in poll_threads : need_reload'[t]}
  BY DEF QueuesWanted, wanted_txqs
<1>5. SendInv'
  <2>1. ASSUME NEW t \in Threads, NEW p \in Unshared(t)'
        PROVE  /\ p \in Unshared(t) \/ (p \in ports \ dynamic_txqs /\ t \in poll_threads /\ need_reload'[t])
               /\ p \in Ports
    BY <2>1
  <2>2. \A p \in ports \ dynamic_txqs : n_txq[p] >= wanted_txqs /\ n_txq[p] \in Nat
    BY <1>0 DEF TxQueueInv, PortsInv
  <2>3. \A t \in Cores : Changing(t)' = Changing(t) BY <1>0
  <2>4. \A t \in Cores : Changing(t) => Unshared(t) = {}
    BY <1>0 DEF TxQueueInv, SendInv
  <2>5. ASSUME NEW t \in Cores, Changing(t)', NEW p \in Unshared(t)'
        PROVE  Signalling' /\ ret' = "end" /\ Pending(t)' /\ n_txq'[p] >= wanted_txqs'
    <3>1. p \in ports \ dynamic_txqs /\ t \in poll_threads /\ need_reload'[t]
      BY <2>1, <2>3, <2>4, <2>5
    <3> HIDE DEF AddTxPorts
    <3> QED BY <1>0, <2>2, <3>1
  <2>6. ASSUME NEW t \in Cores, ~Changing(t)', static_tx_qid'[t] # None, NEW p \in Unshared(t)'
        PROVE  static_tx_qid'[t] < n_txq'[p]
    <3>1. CASE p \in Unshared(t)
      BY <1>0, <2>3, <2>6, <3>1 DEF TxQueueInv, SendInv
    <3>2. CASE p \in ports \ dynamic_txqs
      <4>1. static_tx_qid[t] < wanted_txqs
        BY <1>0, <2>3, <2>6 DEF TxQueueInv, IdInv, SwapInv
      <4>2. static_tx_qid[t] \in Nat
        BY <1>0, <2>6, FS_CardinalityType DEF TxQidInv
      <4> QED BY Counts, <1>0, <2>2, <3>2, <4>1, <4>2
    <3> QED BY <2>1, <3>1, <3>2
  <2> QED BY <1>0, <2>5, <2>6 DEF TxQueueInv, SendInv
<1> QED BY <1>1, <1>2, <1>3, <1>4, <1>5 DEF TxQueueInv

LEMMA EndReconfigurationTx ==
    ASSUME HandshakeInv, EffectInv, TxQidInv, TxQueueInv, EndReconfiguration
    PROVE  TxQueueInv'
  BY DEF TxQueueInv, ThreadsInv, SwapInv, IdInv, PortsInv, SendInv, QueuesWanted,
     WantedCores, wanted_txqs, StageInv, HandshakeInv, ShapeInv, EndReconfiguration

LEMMA XpsStepTx ==
    ASSUME HandshakeInv, EffectInv, TxQidInv, TxQueueInv, XpsStep
    PROVE  TxQueueInv'
  BY DEF TxQueueInv, ThreadsInv, SwapInv, IdInv, PortsInv, SendInv, QueuesWanted,
     WantedCores, wanted_txqs, HandshakeInv, ShapeInv, XpsStep, SendXps, ExpireXps

LEMMA PmdStartTx ==
    ASSUME HandshakeInv, EffectInv, TxQidInv, TxQueueInv, NEW t \in Cores, PmdStart(t)
    PROVE  TxQueueInv'
  BY DEF TxQueueInv, ThreadsInv, SwapInv, IdInv, PortsInv, SendInv, QueuesWanted,
     WantedCores, wanted_txqs, HandshakeInv, ShapeInv, PmdStart,
     pmd_load_queues_and_ports, pmd_load_cached_ports, xps_revalidate_pmd

LEMMA PmdAllocTxQidTx ==
    ASSUME HandshakeInv, EffectInv, TxQidInv, TxQueueInv, NEW t \in Cores, PmdAllocTxQid(t)
    PROVE  TxQueueInv'
<1> USE DEF HandshakeInv, ShapeInv, PmdAllocTxQid, AtReload
<1>1. ThreadsInv' BY DEF TxQueueInv, ThreadsInv, QueuesWanted, WantedCores
<1>2. SwapInv' BY DEF TxQueueInv, SwapInv
<1>0. PICK id \in FreeTxQids : id < wanted_txqs /\ static_tx_qid' = [static_tx_qid EXCEPT ![t] = id]
  <2>1. static_tx_qid[t] = None /\ t \in poll_threads BY DEF TxQidInv, IdleInv
  <2> QED BY <2>1, LowestIdLeft DEF PmdAllocTxQid
<1>6. /\ id \in Nat /\ Changing(t) /\ ~Changing(t)' /\ t \in poll_threads
      /\ wanted_txqs \in Nat /\ QueuesWanted \in Nat
      /\ (Deleting /\ adjust) \/ wanted_txqs <= QueuesWanted
      /\ \A u \in Cores \ {t} : Changing(u)' = Changing(u)
      /\ static_tx_qid' \in [Threads -> Nat \cup {None}]
  <2>1. id \in Nat /\ Cardinality(Cores) \in Nat BY FS_CardinalityType DEF FreeTxQids
  <2>2. static_tx_qid' \in [Threads -> Nat \cup {None}] BY <1>0, <2>1 DEF TxQidInv
  <2> QED BY <2>1, <2>2, WantedCovers DEF TxQueueInv, IdleInv
<1>3. IdInv'
  <2>1. QueuesWanted' = QueuesWanted BY DEF QueuesWanted, WantedCores, wanted_txqs
  <2>2. (Deleting /\ adjust) => reload_tx_qid[t] \/ t \in todo
    BY <1>6 DEF TxQueueInv, SwapInv
  <2>3. static_tx_qid'[t] = id /\ \A u \in Cores \ {t} : static_tx_qid'[u] = static_tx_qid[u]
    BY <1>0 DEF TxQidInv
  <2>4. UNCHANGED <<main, ret, adjust, todo, reload_tx_qid>> OBVIOUS
  <2>5. static_tx_qid'[t] < QueuesWanted \/ (Deleting /\ adjust)
    BY <1>0, <1>6, <2>3
  <2> HIDE DEF PmdAllocTxQid
  <2> QED BY <1>6, <2>1, <2>2, <2>3, <2>4, <2>5 DEF TxQueueInv, IdInv
<1>4. PortsInv' BY DEF TxQueueInv, PortsInv, QueuesWanted, WantedCores, wanted_txqs
<1>5. SendInv'
  <2>1. static_tx_qid'[t] = id /\ \A u \in Threads \ {t} : static_tx_qid'[u] = static_tx_qid[u]
    BY <1>0 DEF TxQidInv
  <2>2. \A u \in Threads : Unshared(u)' = Unshared(u) /\ Pending(u)' = Pending(u)
    OBVIOUS
  <2>3. UNCHANGED <<main, ret, adjust, tx_ports, n_txq, poll_threads>> OBVIOUS
  <2>4. ASSUME NEW p \in Unshared(t) PROVE id < n_txq[p]
    <3>1. p \in Ports /\ n_txq[p] \in Nat BY DEF TxQueueInv, PortsInv
    <3>2. n_txq[p] >= wanted_txqs
      <4>1. CASE (At("create") \/ main = "stale") /\ adjust
        BY <1>6, <3>1, <4>1 DEF TxQueueInv, PortsInv
      <4>2. CASE ~((At("create") \/ main = "stale") /\ adjust)
        BY <1>6, <4>2 DEF TxQueueInv, SendInv
      <4> QED BY <4>1, <4>2
    <3> QED BY <1>0, <1>6, <3>1, <3>2
  <2> HIDE DEF PmdAllocTxQid
  <2> QED BY <1>6, <2>1, <2>2, <2>3, <2>4 DEF TxQueueInv, SendInv, wanted_txqs
<1> QED BY <1>1, <1>2, <1>3, <1>4, <1>5 DEF TxQueueInv

LEMMA PmdWakeTx ==
    ASSUME HandshakeInv, EffectInv, TxQidInv, TxQueueInv, NEW t \in Cores, PmdWake(t)
    PROVE  TxQueueInv'
  BY DEF TxQueueInv, ThreadsInv, SwapInv, IdInv, PortsInv, SendInv, QueuesWanted,
     WantedCores, wanted_txqs, HandshakeInv, ShapeInv, PmdWake

LEMMA PmdIterateTx ==
    ASSUME HandshakeInv, EffectInv, TxQidInv, TxQueueInv, NEW t \in Cores, PmdIterate(t)
    PROVE  TxQueueInv'
  BY DEF TxQueueInv, ThreadsInv, SwapInv, IdInv, PortsInv, SendInv, QueuesWanted,
     WantedCores, wanted_txqs, HandshakeInv, ShapeInv, PmdIterate

LEMMA PmdIteratedTx ==
    ASSUME HandshakeInv, EffectInv, TxQidInv, TxQueueInv, NEW t \in Cores, PmdIterated(t)
    PROVE  TxQueueInv'
  BY DEF TxQueueInv, ThreadsInv, SwapInv, IdInv, PortsInv, SendInv, QueuesWanted,
     WantedCores, wanted_txqs, HandshakeInv, ShapeInv, PmdIterated

LEMMA PmdLoadTx ==
    ASSUME HandshakeInv, EffectInv, TxQidInv, TxQueueInv, NEW t \in Cores, PmdLoad(t)
    PROVE  TxQueueInv'
<1> USE DEF HandshakeInv, ShapeInv, PmdLoad, pmd_load_queues_and_ports, pmd_load_cached_ports, xps_revalidate_pmd
<1>1. ThreadsInv' BY DEF TxQueueInv, ThreadsInv, QueuesWanted, WantedCores
<1>2. SwapInv'
  <2>1. /\ pc'[t] = "done" /\ ("tx_qid" \in flags'[t] <=> reload_tx_qid[t])
        /\ \A u \in Cores \ {t} : pc'[u] = pc[u] /\ flags'[u] = flags[u]
    BY DEF TxQueueInv, SwapInv, ExitInv
  <2>2. UNCHANGED <<main, ret, todo, reload, reload_tx_qid, adjust, need_reload, poll_threads>>
    OBVIOUS
  <2> HIDE DEF PmdLoad
  <2> QED BY <2>1, <2>2 DEF TxQueueInv, SwapInv
<1>3. IdInv' BY DEF TxQueueInv, IdInv, QueuesWanted, WantedCores, wanted_txqs
<1>4. PortsInv' BY DEF TxQueueInv, PortsInv, QueuesWanted, WantedCores, wanted_txqs
<1>5. SendInv'
  <2>1. /\ pc[t] = "poll" /\ reload[t] /\ pc'[t] = "done" /\ ("tx_qid" \in flags'[t] <=> reload_tx_qid[t])
        /\ \A u \in Cores \ {t} : pc'[u] = pc[u] /\ flags'[u] = flags[u]
    BY DEF TxQueueInv, SwapInv, ExitInv
  <2>2. /\ Unshared(t)' = tx_ports[t] \ dynamic_txqs
        /\ \A u \in Threads \ {t} : Unshared(u)' = Unshared(u)
        /\ \A u \in Threads : Pending(u)' = Pending(u)
    OBVIOUS
  <2>3. reload_tx_qid[t] => At("create") /\ adjust
    BY <2>1 DEF TxQueueInv, SwapInv, FlagInv, ExitInv
  <2>4. UNCHANGED <<main, ret, adjust, tx_ports, n_txq, poll_threads, static_tx_qid>> OBVIOUS
  <2> HIDE DEF PmdLoad
  <2> QED BY <2>1, <2>2, <2>3, <2>4 DEF TxQueueInv, SendInv, wanted_txqs
<1> QED BY <1>1, <1>2, <1>3, <1>4, <1>5 DEF TxQueueInv

LEMMA PmdReloadDoneTx ==
    ASSUME HandshakeInv, EffectInv, TxQidInv, TxQueueInv, NEW t \in Cores, PmdReloadDone(t)
    PROVE  TxQueueInv'
<1> USE DEF HandshakeInv, ShapeInv, PmdReloadDone, AtReload
<1>1. ThreadsInv' BY DEF TxQueueInv, ThreadsInv, QueuesWanted, WantedCores
<1>0. /\ pc[t] = "done" /\ ~reload'[t] /\ ~reload_tx_qid'[t]
      /\ Changing(t)' = Changing(t) /\ (Changing(t) <=> reload_tx_qid[t])
      /\ \A u \in Cores \ {t} : Changing(u)' = Changing(u)
      /\ \A u \in Threads \ {t} : Pending(u)' = Pending(u) /\ reload_tx_qid'[u] = reload_tx_qid[u]
      /\ pc' \in [Threads -> {"none", "start", "alloc", "sleep", "spin", "poll", "work",
                           "done", "free", "leave", "exited"}]
      /\ pc'[t] # "done" /\ \A u \in Cores \ {t} : pc'[u] = pc[u]
  BY DEF TxQueueInv, SwapInv
<1>2. SwapInv'
  <2>1. ~Deleting \/ (main = "join" /\ t \in todo)
    BY <1>0 DEF FlagInv, ExitInv
  <2>2. UNCHANGED <<main, ret, adjust, todo, need_reload, poll_threads, flags>> OBVIOUS
  <2>3. reload_tx_qid' \in [Threads -> BOOLEAN] BY DEF TxQueueInv, SwapInv
  <2> HIDE DEF PmdReloadDone
  <2> QED BY <1>0, <2>1, <2>2, <2>3 DEF TxQueueInv, SwapInv
<1>3. IdInv'
  <2>1. QueuesWanted' = QueuesWanted BY DEF QueuesWanted, WantedCores, wanted_txqs
  <2>2. UNCHANGED <<main, ret, todo, static_tx_qid>> OBVIOUS
  <2> HIDE DEF PmdReloadDone
  <2> QED BY <1>0, <2>1, <2>2 DEF TxQueueInv, IdInv
<1>4. PortsInv' BY DEF TxQueueInv, PortsInv, QueuesWanted, WantedCores, wanted_txqs
<1>5. SendInv'
  <2>1. Changing(t) => At("create") /\ adjust
    BY <1>0 DEF TxQueueInv, SwapInv, FlagInv, ExitInv
  <2>2. \A u \in Threads : Unshared(u)' = Unshared(u) OBVIOUS
  <2>3. UNCHANGED <<main, ret, adjust, tx_ports, n_txq, poll_threads, static_tx_qid>> OBVIOUS
  <2> HIDE DEF PmdReloadDone
  <2> QED BY <1>0, <2>1, <2>2, <2>3 DEF TxQueueInv, SendInv, wanted_txqs
<1> QED BY <1>1, <1>2, <1>3, <1>4, <1>5 DEF TxQueueInv

LEMMA PmdFreeTxQidTx ==
    ASSUME HandshakeInv, EffectInv, TxQidInv, TxQueueInv, NEW t \in Cores, PmdFreeTxQid(t)
    PROVE  TxQueueInv'
  BY DEF TxQueueInv, ThreadsInv, SwapInv, IdInv, PortsInv, SendInv, QueuesWanted,
     WantedCores, wanted_txqs, HandshakeInv, ShapeInv, PmdFreeTxQid

LEMMA PmdLeaveTx ==
    ASSUME HandshakeInv, EffectInv, TxQidInv, TxQueueInv, NEW t \in Cores, PmdLeave(t)
    PROVE  TxQueueInv'
  BY DEF TxQueueInv, ThreadsInv, SwapInv, IdInv, PortsInv, SendInv, QueuesWanted,
     WantedCores, wanted_txqs, HandshakeInv, ShapeInv, PmdLeave, xps_revalidate_pmd

LEMMA TxQueueKeeps ==
    ASSUME HandshakeInv, EffectInv, TxQidInv, TxQueueInv, [Next]_vars
    PROVE  TxQueueInv'
<1>1. CASE UNCHANGED vars
  BY <1>1 DEF TxQueueInv, ThreadsInv, SwapInv, IdInv, PortsInv, SendInv, QueuesWanted,
              WantedCores, wanted_txqs
<1>2. CASE ConfigStep
  BY <1>2, AddPortTx, DelPortTx, DeviceChangesTx, RequestReconfigureTx
     DEF ConfigStep
<1>3. CASE MainStep
  BY <1>3, RunReconfigurationTx, CheckThreadsTx, DelPmdTx, DelPmdReloadTx,
     DelPmdJoinTx, CreatePmdTx, ReloadSeqTx, ReloadFlagTx,
     WaitReloadedTx, AllDeletedTx, AllCreatedTx, ReloadNonPmdTx,
     AllSignalledTx, AllReloadedTx, RemoveStalePortsTx, PortReconfiguredTx,
     PortFailsTx, ScheduleRxqsTx, DropQueuesTx, AddQueueTx,
     AddTxPortsTx, EndReconfigurationTx
     DEF MainStep
<1>4. CASE XpsStep
  BY <1>4, XpsStepTx
<1>5. CASE \E t \in Cores : PmdStep(t)
  BY <1>5, PmdStartTx, PmdAllocTxQidTx, PmdWakeTx, PmdIterateTx,
     PmdIteratedTx, PmdLoadTx, PmdReloadDoneTx, PmdFreeTxQidTx,
     PmdLeaveTx
     DEF PmdStep
<1> QED BY <1>1, <1>2, <1>3, <1>4, <1>5 DEF Next

-----------------------------------------------------------------------------
(* The whole invariant, and what it gives. *)

LEMMA InitReload == Init => ReloadInv
<1> SUFFICES ASSUME Init PROVE ReloadInv
  OBVIOUS
<1>1. HandshakeInv BY InitHandshake
<1>2. EffectInv BY DEF Init, EffectInv, CurrentInv, GivenInv, Current
<1>3. TxQidInv
  <2>1. Cardinality(Cores) \in Nat BY FS_CardinalityType
  <2> QED BY <2>1 DEF Init, TxQidInv
<1>4. TxQueueInv
  BY DEF Init, TxQueueInv, ThreadsInv, SwapInv, IdInv, PortsInv, SendInv
<1>5. XpsInv
  BY DEF Init, XpsInv
<1> QED BY <1>1, <1>2, <1>3, <1>4, <1>5 DEF ReloadInv

\* Whatever the main thread and the PMDs interleave, every private copy, id
\* and counter is where the protocol says it is.
THEOREM ReloadProtocol == Spec => []ReloadInv
<1>1. ReloadInv /\ [Next]_vars => ReloadInv'
  BY NextKeeps, StutterKeeps, EffectKeeps, TxQidKeeps, TxQueueKeeps, XpsKeeps DEF ReloadInv
<1> QED BY InitReload, <1>1, PTL DEF Spec

\* reconfigure_datapath() returns with every scheduled queue polled by the
\* thread it was scheduled to, and every thread that polls one able to send
\* to every port.
THEOREM ReconfigurationsTakeEffect == Spec => []ReconfigurationTakesEffect
<1>1. ASSUME ReloadInv PROVE ReconfigurationTakesEffect
  <2> SUFFICES ASSUME main = "idle" PROVE ReconfigurationTakesEffect
    BY DEF ReconfigurationTakesEffect
  <2>1. \A t \in poll_threads : Current(t) /\ tx_ports[t] \subseteq ports
    BY <1>1 DEF ReloadInv, HandshakeInv, ExitInv, EffectInv, CurrentInv, GivenInv
  <2>2. ASSUME NEW q \in Rxqs, rxq_pmd[q] # None PROVE q \in polled[rxq_pmd[q]]
    BY <1>1, <2>1, <2>2 DEF ReloadInv, EffectInv, GivenInv, Current
  <2>3. ASSUME NEW t \in poll_threads, polled[t] # {} \/ t = NonPmd PROVE cached[t] = ports
    <3>1. cached[t] = tx_ports[t] /\ tx_ports[t] \subseteq ports
      BY <2>1 DEF Current
    <3>2. ports \subseteq tx_ports[t]
      BY <1>1, <2>1, <2>3 DEF ReloadInv, EffectInv, GivenInv, Current
    <3> QED BY ONLY <3>1, <3>2
  <2> QED BY <2>2, <2>3 DEF ReconfigurationTakesEffect
<1> QED BY <1>1, ReloadProtocol, PTL

\* A thread that can send never uses an id its port has no queue for,
\* although ids are swapped while ports change; and the counters of the
\* shared ports count who holds their queues.
THEOREM TxQueuesStaySound == Spec => []TxQueuesSound
<1>1. ASSUME ReloadInv PROVE TxQidInRange
  <2>1. ASSUME NEW t \in Cores, pc[t] \in {"poll", "work"}, NEW p \in cached[t] \ dynamic_txqs
        PROVE  static_tx_qid[t] < n_txq[p]
    BY <1>1, <2>1 DEF ReloadInv, TxQidInv, TxQueueInv, SendInv
  <2>2. ASSUME NEW p \in cached[NonPmd] \ dynamic_txqs PROVE static_tx_qid[NonPmd] < n_txq[p]
    BY <1>1, <2>2 DEF ReloadInv, HandshakeInv, ShapeInv, TxQueueInv, PortsInv, SendInv
  <2>3. pc[NonPmd] = "none" BY <1>1 DEF ReloadInv, HandshakeInv, IdleInv
  <2> QED BY <2>1, <2>2, <2>3 DEF TxQidInRange, Sending
<1>2. ReloadInv => TxqUsedExact
  BY DEF ReloadInv, XpsInv, TxqUsedExact
<1> QED BY <1>1, <1>2, ReloadProtocol, PTL DEF TxQueuesSound

=============================================================================
