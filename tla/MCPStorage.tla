---------------------------- MODULE MCPStorage ----------------------------
(***************************************************************************)
(* PStorage with a store of one round and an erase of two.                 *)
(***************************************************************************)
EXTENDS PStorage

CONSTANTS store, erase

MCCommand == {store, erase}
MCRounds == [c \in MCCommand |-> IF c = erase THEN 2 ELSE 1]
=============================================================================
