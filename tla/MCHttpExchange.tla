--------------------------- MODULE MCHttpExchange ---------------------------
(***************************************************************************)
(* One client object used by two threads, one that asks for its connection *)
(* to be closed, and what the threads are to do: the pairs are those in    *)
(* which they meet in different ways.                                      *)
(***************************************************************************)
EXTENDS HttpExchange

CONSTANTS t1, t2, t3, k1, k2

MCClientOf == [t \in Threads |-> IF t = t3 THEN k2 ELSE k1]

MCKeepAlive == [k \in Clients |-> k = k1]

Does(a, b, c) == [t \in Threads |-> CASE t = t1 -> a [] t = t2 -> b [] OTHER -> c]

MCPlans ==
  {Does(<<"moved">>, <<>>, <<>>), Does(<<"get">>, <<"late">>, <<>>),
   Does(<<"bad", "get">>, <<>>, <<>>), Does(<<"stream">>, <<"boom">>, <<>>),
   Does(<<>>, <<>>, <<"big", "get">>)}

=============================================================================
