----------------------------- MODULE MCMarket -----------------------------
(* One deployment with two groups, and two providers that bid against each   *)
(* other; one instance has a third, so that there are two losers.  Run       *)
(* market also has deployment d12 of the same owner, whose key begins with   *)
(* the key of d1.                                                            *)
EXTENDS Market

CONSTANTS d1, d12, g1, g2, h12, v1, v2, v3

MCPayments == Bids
MCAccountOf == [b \in Bids |-> Deployment(b)]
MCReached == [d \in Accounts |-> IF d = d1 THEN Accounts ELSE {d}]
MCDeploymentOf == [g \in Groups |-> IF g = h12 THEN d12 ELSE d1]

\* The bound of run market.  With one deployment its second group places one
\* order, the second provider bids for the first order of the first group, and
\* a window of reclamation is agreed with the first provider for that order.
WithinOne ==
    /\ dep[d12] = "none"
    /\ order[<<g2, 2>>] = "none"
    /\ \A o \in Orders \ {<<g1, 1>>} : bid[<<o, v2>>] = "none"
    /\ window \subseteq {<<<<g1, 1>>, v1>>}

\* With both there is one provider, who bids for the first order of h12 and of
\* g1, and g2 only ends with its deployment.
WithinTwo ==
    /\ order[<<g1, 2>>] = "none" /\ order[<<g2, 2>>] = "none"
    /\ grp[g2] \in {"none", "open"} \/ dep[d1] = "closed"
    /\ \A b \in Bids \ {<<<<g1, 1>>, v1>>, <<<<h12, 1>>, v1>>} : bid[b] = "none"
    /\ window = {}

Within == WithinOne \/ WithinTwo
=============================================================================
