----------------------------- MODULE OutputBatch -----------------------------
(***************************************************************************)
(* How a poll thread sends (dpif-netdev.c): packets for a port are held in *)
(* the thread's copy of the port until there are NETDEV_MAX_BURST of them, *)
(* until flush_time, or until the thread reloads its ports; a bond chooses *)
(* a member port for each packet.  The main thread changes the ports, the  *)
(* bonds and tx_flush_interval while the thread works, and makes it reload *)
(* when the ports have changed.                                            *)
(*                                                                         *)
(* Of packets only the source (of netdev-dpdk) is kept, and a number that  *)
(* says which of the packets it is that the port was given since it last   *)
(* had sent all.                                                           *)
(* Transmit queue numbers and the reload itself are in PmdReload.          *)
(***************************************************************************)
EXTENDS Naturals, SequencesExt, FiniteSets

CONSTANTS
  Ports,
  Sources,           \* where the memory of packets comes from
  Buckets,           \* what the hash of a packet can be, masked
  NETDEV_MAX_BURST,
  Intervals,         \* settings of tx_flush_interval
  MaxTime,           \* bound: how late it gets
  MaxOutputs,        \* bound: output actions for a batch
  None

TxPorts == [output_pkts : Seq([number : Nat, source : Sources]), flush_time : Nat]

BatchAssumption ==
  /\ NETDEV_MAX_BURST \in Nat \ {0} /\ MaxTime \in Nat
  /\ IsFiniteSet(Ports) /\ Intervals \subseteq Nat /\ None \notin TxPorts

VARIABLES
  ctx_now,            \* the time when the thread last looked
  tx_flush_interval,
  tx_ports,           \* the ports, shared with the main thread
  send_port_cache,    \* struct tx_port of the thread, None if it has no copy
  n_output_batches,
  tx_bond,            \* the member port of each bucket; None without a bond
  pc,
  batch, outputs,     \* the packets that are worked on, and the outputs so far
  bonding,            \* the member ports lb_output uses, and for how many packets
  given, sent         \* observed: how many packets each port was given and has sent

main == <<tx_flush_interval, tx_ports, tx_bond>>
work == <<batch, outputs, bonding>>
ports == <<send_port_cache, n_output_batches, given, sent>>
vars == <<main, ctx_now, pc, work, ports>>

NoBatch == [n |-> 0, source |-> None]
NewPort == [output_pkts |-> <<>>, flush_time |-> 0]

Init ==
  /\ ctx_now = 0 /\ tx_flush_interval \in Intervals
  /\ tx_ports = Ports /\ tx_bond = None
  /\ send_port_cache = [p \in Ports |-> NewPort] /\ n_output_batches = 0
  /\ pc = "idle" /\ batch = NoBatch /\ outputs = 0 /\ bonding = None
  /\ given = [p \in Ports |-> 0] /\ sent = [p \in Ports |-> 0]

-----------------------------------------------------------------------------
(* The main thread.                                                        *)

SetFlushInterval ==
  /\ tx_flush_interval' \in Intervals \ {tx_flush_interval}
  /\ UNCHANGED <<tx_ports, tx_bond, ctx_now, pc, work, ports>>

ChangePorts ==
  /\ tx_ports' \in SUBSET Ports \ {tx_ports}
  /\ UNCHANGED <<tx_flush_interval, tx_bond, ctx_now, pc, work, ports>>

dp_netdev_add_bond_tx_to_pmd ==
  /\ tx_bond' \in [Buckets -> Ports]
  /\ UNCHANGED <<tx_flush_interval, tx_ports, ctx_now, pc, work, ports>>

dp_netdev_del_bond_tx_from_pmd ==
  /\ tx_bond # None /\ tx_bond' = None
  /\ UNCHANGED <<tx_flush_interval, tx_ports, ctx_now, pc, work, ports>>

-----------------------------------------------------------------------------
(* Sending, at a time.  The state of the ports is taken and given as one.  *)

Out == [cache |-> send_port_cache, n |-> n_output_batches, given |-> given, sent |-> sent]

Becomes(out) ==
  /\ send_port_cache' = out.cache /\ n_output_batches' = out.n
  /\ given' = out.given /\ sent' = out.sent

(* The packets go out as they are in the array; one out of turn would not  *)
(* count in `sent'.                                                        *)
dp_netdev_pmd_flush_output_on_port(out, p, now) ==
  LET pkts == out.cache[p].output_pkts
      count == FoldLeft(LAMBDA n, pkt : IF pkt.number = n THEN n + 1 ELSE n,
                        out.sent[p], pkts)
      all == count = out.given[p]
  IN  [out EXCEPT
         !.sent[p] = IF all THEN 0 ELSE count, !.given[p] = IF all THEN 0 ELSE @,
         !.n = @ - 1,
         !.cache[p] = [output_pkts |-> <<>>, flush_time |-> now + tx_flush_interval]]

DueLate(out, force, now) ==     \* mutant: a port is due a moment later
  {p \in Ports : /\ out.cache[p] # None /\ out.cache[p].output_pkts # <<>>
                 /\ force \/ now > out.cache[p].flush_time}
Due(out, force, now) ==
  {p \in Ports : /\ out.cache[p] # None /\ out.cache[p].output_pkts # <<>>
                 /\ force \/ now >= out.cache[p].flush_time}

dp_netdev_pmd_flush_output_packets(out, force, now) ==
  IF out.n = 0 THEN out
  ELSE FoldSet(LAMBDA p, o : dp_netdev_pmd_flush_output_on_port(o, p, now),
               out, Due(out, force, now))

(* A batch is flushed before packets of another source, and packets beyond *)
(* the burst, are added.                                                   *)
dp_execute_output_action(out, p, packets) ==
  IF out.cache[p] = None THEN out
  ELSE LET flushIf(cond, o) ==
             IF cond THEN dp_netdev_pmd_flush_output_on_port(o, p, ctx_now) ELSE o
           queued(o) == o.cache[p].output_pkts
           source(o) ==
             flushIf(queued(o) # <<>> /\ packets.source # Head(queued(o)).source, o)
           burst(o) == flushIf(Len(queued(o)) + packets.n > NETDEV_MAX_BURST, o)
           room == burst(source(out))
       IN  [room EXCEPT
              !.n = IF queued(room) = <<>> THEN @ + 1 ELSE @,
              !.cache[p].output_pkts = @ \o [i \in 1 .. packets.n |->
                 [number |-> room.given[p] + i - 1, source |-> packets.source]],
              !.given[p] = @ + packets.n]

-----------------------------------------------------------------------------
(* The poll thread.                                                        *)

pmd_thread_ctx_time_update == ctx_now' \in ctx_now .. MaxTime

(* dp_netdev_process_rxq_port, or dpif_netdev_execute with one packet.     *)
Receive(next) ==
  /\ pc = "idle" /\ pc' = next /\ pmd_thread_ctx_time_update
  /\ batch' \in [n : 1 .. (IF next = "execute" THEN 1 ELSE NETDEV_MAX_BURST),
                 source : Sources]
  /\ UNCHANGED <<main, outputs, bonding, ports>>

Busy == pc \in {"input", "execute"} /\ bonding = None /\ outputs < MaxOutputs

output(p) ==
  /\ Busy /\ outputs' = outputs + 1
  /\ Becomes(dp_execute_output_action(Out, p, batch))
  /\ UNCHANGED <<main, ctx_now, pc, batch, bonding>>

(* The bond is looked up once for the batch.                               *)
lb_output ==
  /\ Busy /\ outputs' = outputs + 1
  /\ IF tx_bond = None THEN UNCHANGED bonding
     ELSE bonding' = [members |-> tx_bond, left |-> batch.n]
  /\ UNCHANGED <<main, ctx_now, pc, batch, ports>>

lb_output_packet ==
  /\ bonding # None
  /\ \E b \in Buckets :
       Becomes(dp_execute_output_action(Out, bonding.members[b], [batch EXCEPT !.n = 1]))
  /\ bonding' = IF bonding.left = 1 THEN None ELSE [bonding EXCEPT !.left = @ - 1]
  /\ UNCHANGED <<main, ctx_now, pc, batch, outputs>>

(* A pass with packets ends with the flush of what is due; packets that    *)
(* were executed for the main thread are flushed in any case.              *)
Done ==
  /\ pc # "idle" /\ bonding = None
  /\ Becomes(dp_netdev_pmd_flush_output_packets(Out, pc = "execute", ctx_now))
  /\ pc' = "idle" /\ batch' = NoBatch /\ outputs' = 0
  /\ UNCHANGED <<main, ctx_now, bonding>>

NothingReceived ==
  /\ pc = "idle" /\ pmd_thread_ctx_time_update
  /\ Becomes(dp_netdev_pmd_flush_output_packets(Out, FALSE, ctx_now'))
  /\ UNCHANGED <<main, pc, work>>

pmd_load_cached_portsUnflushed ==     \* mutant: copies are freed as they are
  /\ pc = "idle" /\ tx_ports # {p \in Ports : send_port_cache[p] # None}
  /\ Becomes([Out EXCEPT !.cache =
       [p \in Ports |-> IF p \in tx_ports THEN NewPort ELSE None]])
  /\ UNCHANGED <<main, ctx_now, pc, work>>

(* pmd_load_cached_ports: all is flushed before the copies are freed.      *)
pmd_load_cached_ports ==
  /\ pc = "idle" /\ tx_ports # {p \in Ports : send_port_cache[p] # None}
  /\ LET flushed == dp_netdev_pmd_flush_output_packets(Out, TRUE, ctx_now) IN
     Becomes([flushed EXCEPT !.cache =
       [p \in Ports |-> IF p \in tx_ports THEN NewPort ELSE None]])
  /\ UNCHANGED <<main, ctx_now, pc, work>>

-----------------------------------------------------------------------------
MainStep ==
  \/ SetFlushInterval \/ ChangePorts
  \/ dp_netdev_add_bond_tx_to_pmd \/ dp_netdev_del_bond_tx_from_pmd

PmdStep ==
  \/ Receive("input") \/ Receive("execute")
  \/ \E p \in Ports : output(p)
  \/ lb_output \/ lb_output_packet \/ Done \/ NothingReceived \/ pmd_load_cached_ports

Next == MainStep \/ PmdStep

Spec == Init /\ [][Next]_vars

-----------------------------------------------------------------------------
Queued(p) ==
  IF send_port_cache[p] = None THEN <<>> ELSE send_port_cache[p].output_pkts

(* A port sends the packets it was given, in that order, none twice and    *)
(* none lost: neither by a flush in the middle of a batch nor when the     *)
(* copies of the ports are thrown away.                                    *)
OutputOrder ==
  \A p \in Ports :
    /\ given[p] = sent[p] + Len(Queued(p))
    /\ \A i \in DOMAIN Queued(p) : Queued(p)[i].number = sent[p] + i - 1

(* n_output_batches is the number of ports with packets: were it zero, no  *)
(* flush would look for them.  No batch overflows the array of its rx      *)
(* queues, and none mixes packets of two sources.                          *)
BatchesCounted ==
  /\ n_output_batches = Cardinality({p \in Ports : Queued(p) # <<>>})
  /\ \A p \in Ports :
       /\ Len(Queued(p)) <= NETDEV_MAX_BURST
       /\ \A i, j \in DOMAIN Queued(p) : Queued(p)[i].source = Queued(p)[j].source

(* After a pass no packet is left that was due, and what is left is due    *)
(* within the longest interval that was set: a packet never waits for      *)
(* other packets.                                                          *)
FlushedInTime ==
  pc = "idle" =>
    \A p \in Ports : Queued(p) # <<>> =>
      /\ send_port_cache[p].flush_time > ctx_now
      /\ \E t \in Intervals : send_port_cache[p].flush_time <= ctx_now + t

=============================================================================
