------------------------------ MODULE MCDepth ------------------------------
(* One tree that grows in ascending order in an arena that always has room *)
(* for the insert and never for the rebalance.                             *)
EXTENDS CTree

MCDestinations == <<1 .. 9>>
MCBatches == <<{}>>
=============================================================================
