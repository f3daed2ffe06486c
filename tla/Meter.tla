-------------------------------- MODULE Meter --------------------------------
(***************************************************************************)
(* Meters (dpif-netdev.c): token buckets that limit the packets of flows   *)
(* with a meter action.  Poll threads share a meter and take its lock;     *)
(* each has a clock of its own, read when it last received packets, so a   *)
(* thread may come to the meter with an earlier time than the one before.  *)
(* A meter is set, replaced and deleted while threads that have looked it  *)
(* up still use it: its memory is freed when none of them does.            *)
(*                                                                         *)
(* One meter number.  Time is in milliseconds: the difference of two       *)
(* truncated times is all the code uses.                                   *)
(***************************************************************************)
EXTENDS Integers, Sequences, FiniteSetsExt, Functions

CONSTANTS
  Pmds,
  Configs,     \* what meters are set to: [pktps, bands], a band [rate, burst_size]
  Batches,     \* the packets that come: sequences of packet sizes in bits
  SCALE,       \* 1000: buckets are in 1/1000 packets, or in bits
  DELTA_VALUES,  \* 2^32: band_max_delta_t is a uint32_t
  Meters,      \* bound: the memory meters are allocated from
  MaxTime,     \* bound: how late it gets
  MaxBatches,  \* bound: batches that go through a meter
  None

DpBands ==
  [rate : Nat \ {0}, burst_size : Nat, bucket : Nat, packet_count : Nat]

DpMeters ==
  [pktps : BOOLEAN, bands : Seq(DpBands), max_delta_t : Nat, used : Nat, packet_count : Nat]

MeterAssumption ==
  /\ SCALE \in Nat \ {0} /\ DELTA_VALUES \in Nat \ {0} /\ None \notin Meters /\ None \notin DpMeters
  /\ Configs \subseteq [pktps : BOOLEAN, bands : Seq([rate : Nat \ {0}, burst_size : Nat])]
  /\ Batches \subseteq Seq(Nat)

VARIABLES
  clock,       \* the time
  now,         \* pmd->ctx.now, when each thread last looked
  meters,      \* struct dp_meter by memory; None if it is free
  attached,    \* dp->meters: the meter the number leads to, or None
  using,       \* the meter and the packets of dp_netdev_run_meter in a thread
  log          \* observed: the batches each meter has had, and what it let through

vars == <<clock, now, meters, attached, using, log>>

NotMetering == [meter |-> None, packets |-> <<>>]

Init ==
  /\ clock = 0 /\ now = [p \in Pmds |-> 0]
  /\ meters = [m \in Meters |-> None] /\ attached = None
  /\ using = [p \in Pmds |-> NotMetering]
  /\ log = [m \in Meters |-> <<>>]

Tick ==
  /\ clock < MaxTime /\ clock' = clock + 1
  /\ UNCHANGED <<now, meters, attached, using, log>>

-----------------------------------------------------------------------------
Full(band) == band.burst_size * SCALE

(* The burst is the rate if none is given, and the bucket full.  "Figure   *)
(* out max delta_t that is enough to fill any bucket."  The quotient of 64 *)
(* bits is cut to 32.                                                      *)
max_delta_t(bands) ==
  Max({0} \cup {(Full(bands[i]) \div bands[i].rate) % DELTA_VALUES : i \in DOMAIN bands})

NewMeter(c) ==
  LET bands == [i \in DOMAIN c.bands |->
        LET rate == c.bands[i].rate
            burst == IF c.bands[i].burst_size = 0 THEN rate ELSE c.bands[i].burst_size
        IN  [rate |-> rate, burst_size |-> burst, bucket |-> burst * SCALE,
             packet_count |-> 0]]
  IN  [pktps |-> c.pktps, bands |-> bands, max_delta_t |-> max_delta_t(bands),
       used |-> clock, packet_count |-> 0]

(* A detached meter is freed after a grace period: when no thread has it.  *)
Freed(ms) ==
  LET inUse == {attached'} \cup {using'[p].meter : p \in Pmds} IN
  [m \in Meters |-> IF m \in inUse THEN ms[m] ELSE None]

dpif_netdev_meter_set ==
  \E c \in Configs, m \in Meters :
    /\ meters[m] = None
    /\ attached' = m
    /\ UNCHANGED <<clock, now, using>>
    /\ meters' = Freed([meters EXCEPT ![m] = NewMeter(c)])
    /\ log' = [o \in Meters |-> IF meters'[o] = None THEN <<>> ELSE log[o]]

dpif_netdev_meter_del ==
  /\ attached # None /\ attached' = None
  /\ UNCHANGED <<clock, now, using>>
  /\ meters' = Freed(meters)
  /\ log' = [o \in Meters |-> IF meters'[o] = None THEN <<>> ELSE log[o]]

-----------------------------------------------------------------------------
pmd_thread_ctx_time_update(p) ==
  /\ using[p] = NotMetering
  /\ now[p] # clock /\ now' = [now EXCEPT ![p] = clock]
  /\ UNCHANGED <<clock, meters, attached, using, log>>

(* dp_netdev_run_meter looks the meter up, and then takes its lock.        *)
dp_meter_lookup(p) ==
  /\ using[p] = NotMetering /\ attached # None
  /\ Len(log[attached]) + Cardinality({o \in Pmds : using[o].meter = attached}) < MaxBatches
  /\ \E b \in Batches : using' = [using EXCEPT ![p] = [meter |-> attached, packets |-> b]]
  /\ UNCHANGED <<clock, now, meters, attached, log>>

DeltaUnsigned(m, t) ==     \* mutant: a time that has gone back is a long one
  LET long_delta_t == t - meters[m].used IN
  IF long_delta_t < 0 THEN meters[m].max_delta_t
  ELSE Min({long_delta_t, meters[m].max_delta_t})

(* Threads race for the lock: time may seem to have gone back.             *)
Delta(m, t) ==
  LET long_delta_t == t - meters[m].used IN
  IF long_delta_t < 0 THEN 0 ELSE Min({long_delta_t, meters[m].max_delta_t})

(* The bucket a packet meets when those before it were let through as far  *)
(* as the band goes.                                                       *)
Left(bucket, packets) ==
  LET left[i \in 1 .. Len(packets) + 1] ==
        IF i = 1 THEN bucket
        ELSE left[i - 1] - (IF packets[i - 1] <= left[i - 1] THEN packets[i - 1] ELSE 0)
  IN  left

(* One band: the bucket after the batch, and the packets that exceed it.   *)
(* All packets cost the same in packets per second.                        *)
Drain(m, band, delta_t, packets) ==
  LET bucket == Min({Full(band), band.bucket + delta_t * band.rate})
      cost == [i \in DOMAIN packets |-> IF meters[m].pktps THEN SCALE ELSE packets[i]]
      left == Left(bucket, cost)
      volume == SumFunction(cost)
  IN  IF bucket >= volume THEN [bucket |-> bucket - volume, exceeded |-> {}]
      ELSE IF meters[m].pktps
      THEN [bucket |-> bucket % SCALE,
            exceeded |-> {i \in DOMAIN packets : i > bucket \div SCALE}]
      ELSE [bucket |-> left[Len(packets) + 1],
            exceeded |-> {i \in DOMAIN packets : left[i] < packets[i]}]

(* The band a packet fires: that of the highest rate, and the first such.  *)
Fired(bands, drained, i) ==
  LET hit == {m \in DOMAIN bands : i \in drained[m].exceeded}
      highest == {m \in hit : \A n \in hit : bands[n].rate <= bands[m].rate}
  IN  IF hit = {} THEN 0 ELSE Min(highest)

dp_netdev_run_meter(p) ==
  /\ using[p] # NotMetering /\ using' = [using EXCEPT ![p] = NotMetering]
  /\ UNCHANGED <<clock, now, attached>>
  /\ LET m == using[p].meter
         packets == using[p].packets
         bands == meters[m].bands
         drained == [b \in DOMAIN bands |->
                       Drain(m, bands[b], Delta(m, now[p]), packets)]
         fired == [i \in DOMAIN packets |-> Fired(bands, drained, i)]
         passed == {i \in DOMAIN packets : fired[i] = 0}
         volume == IF meters[m].pktps THEN SCALE * Cardinality(passed)
                   ELSE SumFunctionOnSet(packets, passed)
     IN  /\ meters' = Freed([meters EXCEPT
              ![m].used = now[p],
              ![m].packet_count = @ + Len(packets),
              ![m].bands = [b \in DOMAIN bands |-> [bands[b] EXCEPT
                 !.bucket = drained[b].bucket,
                 !.packet_count = @ + Cardinality({i \in DOMAIN packets : fired[i] = b})]]])
         /\ log' = [o \in Meters |->
              IF meters'[o] = None THEN <<>>
              ELSE IF o # m THEN log[o]
              ELSE Append(log[m], [now |-> now[p], volume |-> volume,
                                   passed |-> Cardinality(passed)])]

-----------------------------------------------------------------------------
Next ==
  \/ Tick \/ dpif_netdev_meter_set \/ dpif_netdev_meter_del
  \/ \E p \in Pmds :
       \/ pmd_thread_ctx_time_update(p)
       \/ dp_meter_lookup(p) \/ dp_netdev_run_meter(p)

Spec == Init /\ [][Next]_vars

-----------------------------------------------------------------------------
Volume(m, i, j) == SumFunctionOnSet([n \in DOMAIN log[m] |-> log[m][n].volume], i .. j)

(* The time credited between two batches: the clock's steps forward.       *)
Credited(m, i, j) ==
  SumFunctionOnSet([n \in 2 .. Len(log[m]) |-> Max({0, log[m][n].now - log[m][n - 1].now})], i + 1 .. j)

(* From any batch to any later one, a meter lets no more through than each *)
(* of its bands allows: a burst, and the rate for the time between.  When  *)
(* the time of the threads goes back it is credited again as it passes.    *)
MeterConforms ==
  \A m \in Meters : meters[m] # None =>
    \A i, j \in DOMAIN log[m] : \A b \in DOMAIN meters[m].bands :
      i <= j => LET band == meters[m].bands[b] IN
        Volume(m, i, j) <= Full(band) + band.rate * Credited(m, i, j)

(* Every packet a meter has counted was let through, or is counted by one  *)
(* band as dropped.                                                        *)
MeterCounts ==
  \A m \in Meters : meters[m] # None =>
    meters[m].packet_count =
      SumFunction([n \in DOMAIN log[m] |-> log[m][n].passed])
      + SumFunction([b \in DOMAIN meters[m].bands |-> meters[m].bands[b].packet_count])

(* "Figure out max delta_t that is enough to fill any bucket": a bucket is *)
(* full when the next batch comes after the time its rate takes to fill    *)
(* it, whatever max_delta_t leaves of that time.                           *)
IdleFills ==
  \A m \in Meters, p \in Pmds : meters[m] # None =>
    \A b \in DOMAIN meters[m].bands :
      LET band == meters[m].bands[b] IN
      (now[p] - meters[m].used) * band.rate >= Full(band) =>
        band.bucket + Delta(m, now[p]) * band.rate >= Full(band)

=============================================================================
