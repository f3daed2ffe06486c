------------------------------- MODULE MCMeter -------------------------------
(* One thread and a meter with the code's own scale: 1500 packets per      *)
(* second, and a burst of one packet.                                      *)
EXTENDS Meter

MCConfigs == {[pktps |-> TRUE, bands |-> <<[rate |-> 1500, burst_size |-> 1]>>]}
MCBatches == {<<1>>}

=============================================================================
