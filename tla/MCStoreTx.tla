----------------------------- MODULE MCStoreTx -----------------------------
(* StoreTx on a small instance: two sessions, two apps and two tags.       *)
EXTENDS StoreTx
CONSTANTS a, b, tcp80, s1, s2

Pol(x, y) == [src |-> x, dst |-> y, svc |-> tcp80]

\* No policy, single policies, a batch that shares a group, and two batches
\* that lock the same destinations in opposite orders.
MCLists == {<<>>, <<Pol(a, b)>>, <<Pol(b, a)>>, <<Pol(a, a)>>,
            <<Pol(a, b), Pol(a, a)>>, <<Pol(a, a), Pol(a, b)>>}
=============================================================================
