------------------------------- MODULE MCBitswap -------------------------------
(* The exchange with few threads, peers and CIDs; each run enables the calls its *)
(* question is about.                                                            *)
EXTENDS Bitswap
================================================================================
