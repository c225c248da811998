------------------------- MODULE MCSharedConnection -------------------------
(***************************************************************************)
(* Wirings for checking SharedConnection with TLC: the one of the event    *)
(* loop today and the one that runs every stage.                           *)
(***************************************************************************)
EXTENDS SharedConnection

MCWirings ==
    { [execution |-> FALSE, simulator |-> FALSE, submitter |-> FALSE, verifier |-> "none",
       backend |-> "sqlite"],
      [execution |-> TRUE, simulator |-> TRUE, submitter |-> TRUE, verifier |-> "tx",
       backend |-> "sqlite"] }
=============================================================================
