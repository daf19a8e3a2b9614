---------------------------- MODULE MC_Worker ----------------------------
(* One worker with two suggestible device ids (u1 known to the Store, u2  *)
(* held by another worker), one generated id, one channel, a channel      *)
(* ceiling of one, a ping interval and hello timeout of two ticks.        *)
EXTENDS Worker

CONSTANTS u1, u2, g1, ch1

MCUAID == {u1, u2}
MCFreshID == {g1}
MCChan == {ch1}
MCElsewhere == {u2}
MCStored == {u1}
=============================================================================
