---------------------------- MODULE MCRpcChannel ----------------------------
(* Instances of RpcChannel for TLC.                                        *)
EXTENDS RpcChannel

CONSTANTS c1, c2, c3, c4

\* c1 and c2 have the same type of response, c3 one whose hash is taken when
\* one of them had to move on, and c4 is not served by the other end.
HashOf == [x \in Calls |-> CASE x \in {c1, c2} -> 6 [] x = c3 -> 0 [] x = c4 -> 3]
=============================================================================
