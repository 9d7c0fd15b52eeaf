---------------------------- MODULE MCCoreControl ----------------------------
(* Four addresses: the start and the three handlers, which run into each       *)
(* other. As any class may be found at any address, in any order, a saved or   *)
(* executed address that is off by one differs from the right one.             *)
EXTENDS CoreControl

\* Enough for an event load, and for a request that is withdrawn.
EventLoads == {"plain", "elw"}
Maskable == {"plain", "set_mie"}
=============================================================================
