------------------------------- MODULE MCServer -------------------------------
(***************************************************************************)
(* Instances of Server for TLC.                                            *)
(***************************************************************************)
EXTENDS Server

AllThreads == {"main", "receiver", "handler"}
OnlyMain   == {"main"}
=============================================================================
