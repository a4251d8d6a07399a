---------------------------- MODULE MC_TouchCache ----------------------------
(* Instantiates TouchCache for TLC: two deployed contracts a1, a2 and one  *)
(* fresh address a3 that a CREATE or CREATE2 may deploy to.                *)
EXTENDS TouchCache

CONSTANTS a1, a2, a3, k1

MCAddr == {a1, a2, a3}
MCKey == {k1}

(* State of the previous block as the provider reports it.                *)
MCHistStorage == [a \in MCAddr |-> [k \in MCKey |-> IF a = a3 THEN 0 ELSE 1]]
MCHistBalance == [a \in MCAddr |-> IF a = a1 THEN 1 ELSE 0]
MCHistCode == [a \in MCAddr |-> IF a = a3 THEN 0 ELSE 1]
\* A deployed contract has nonce 1 at least (EIP-161); a3 is unused.
MCHistNonce == [a \in MCAddr |-> IF a = a3 THEN 0 ELSE 1]
=============================================================================
