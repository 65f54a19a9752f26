---------------------------- MODULE MCPropagation ----------------------------
(* A host that listens, one that does not, a row that is no address, and   *)
(* one more listener that is discovered while the program runs.            *)
EXTENDS Propagation

CONSTANTS listener, deaf, noroute, newcomer
=============================================================================
