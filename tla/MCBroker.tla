------------------------------ MODULE MCBroker ------------------------------
(***************************************************************************)
(* Small instances of Broker.  Nothing in it tells two clients, two        *)
(* destinations or two subscription ids apart.                             *)
(***************************************************************************)
EXTENDS BrokerRefinement, TLC

Relabelling == Permutations(Clients) \cup Permutations(Destinations)
               \cup Permutations(SubIds)
=============================================================================
