---------------------------- MODULE MCMoldUdp64 ----------------------------
(* Six messages, two of them not for the book and the last one malformed,  *)
(* in datagrams of up to three: gaps of every width, overlaps of every     *)
(* depth, whole and partial repeats.                                       *)
EXTENDS MoldUdp64Connector

MCStream == <<"Event", "Skipped", "Event", "Event", "Skipped", "Malformed">>
=============================================================================
