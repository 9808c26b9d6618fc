------------------------------ MODULE NetGuard ------------------------------
(***************************************************************************)
(* Which addresses a node connects to on behalf of a peer:                 *)
(* node-functions/src/net_guard.rs and p2p-handlers/src/net_config.rs.     *)
(* Whether an address is local is a property of the address alone, so the  *)
(* address ranges are given as sets.                                       *)
(***************************************************************************)

CONSTANTS
    Addresses,     \* socket addresses a name may resolve to
    OurNetwork,    \* those that share a subnet with one of our interfaces
    LocalRange,    \* those in the loopback, private, link-local, ... ranges
    LocalAllowed   \* streams and requests whose resource allows local networks

ASSUME NetworkAssumption == OurNetwork \cup LocalRange \subseteq Addresses

\* The flag of the resource's configuration; without one it is off.
AllowsLocalNetwork(id) == id \in LocalAllowed

IsLocalTarget(addr) == addr \in OurNetwork \/ addr \in LocalRange

Unfiltered(resolved, allow_local) == resolved

\* What is left of a name's addresses; the empty set stands for every Err.
ResolveAllowed(resolved, allow_local) ==
    IF allow_local THEN resolved ELSE {a \in resolved : ~IsLocalTarget(a)}

=============================================================================
