---------------------------- MODULE MCPartition ----------------------------
(***************************************************************************)
(* Partition for TLC: all ranges of up to thirteen ids and up to eight     *)
(* partitions, with and without a remainder and with more partitions than  *)
(* ids.                                                                    *)
(***************************************************************************)
EXTENDS Partition
=============================================================================
