--------------------------- MODULE MC_TxTracer ---------------------------
(***************************************************************************)
(* A transaction from the externally owned account s.  t is the watched    *)
(* contract, c an unwatched contract, x an empty address that a CREATE can *)
(* deploy to.  Both contracts hold slot k1 = 1 and t holds balance 1, so   *)
(* value moves between them and writes are visible.                        *)
(***************************************************************************)
EXTENDS TxTracer

CONSTANTS s, t, c, x, k1

MCAddr == {s, t, c, x}
MCKey == {k1}
MCTarget == {t}
\* A watched address that a creation transaction deploys to.
MCCreateTarget == {x}
MCInitStorage ==
    [a \in MCAddr |-> [k \in MCKey |-> IF a \in {t, c} THEN 1 ELSE 0]]
MCInitBalance == [a \in MCAddr |-> IF a \in {s, t} THEN 1 ELSE 0]
MCInitCode == [a \in MCAddr |-> IF a \in {t, c} THEN Blob ELSE 0]
\* The sender has sent one transaction before; contracts start at nonce 1.
MCInitNonce == [a \in MCAddr |-> IF a = x THEN 0 ELSE 1]
\* Every holder's balance sits in slot k1 of the token.
MCBalanceSlot == [a \in MCAddr |-> k1]
=============================================================================
