-------------------------- MODULE MC_AckVersions --------------------------
(* One bound connection with two channels, versions up to two, at most    *)
(* three notifications written, and failing Drops.                        *)
EXTENDS AckVersions

CONSTANTS c1, c2

MCChan == {c1, c2}
=============================================================================
