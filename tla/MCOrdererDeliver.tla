-------------------------- MODULE MCOrdererDeliver --------------------------
(***************************************************************************)
(* Instances of OrdererDeliver.  genesis is the request of getGenesisBlock,*)
(* newest and config are the two of getChannelConfigFromOrderer.           *)
(***************************************************************************)
EXTENDS OrdererDeliver

CONSTANTS genesis, config, newest

AllWanted == [c \in {genesis, config, newest} |->
                 IF c = genesis THEN 0 ELSE IF c = config THEN 1 ELSE Newest]
MCWanted == [c \in Calls |-> AllWanted[c]]
=============================================================================
