------------------------------ MODULE Market ------------------------------
(***************************************************************************)
(* x/deployment and x/market on top of x/escrow: deployments, their        *)
(* groups, the orders a group places, the bids of providers with their     *)
(* bonds, and the leases that charge the deployment's escrow account.      *)
(* A message is one step.  It may settle the account; when that closes or  *)
(* overdraws it, the escrow hook tears the deployment down in the same     *)
(* transaction.  A payment is identified by the bid it came from.          *)
(***************************************************************************)
EXTENDS EscrowLifecycle, Integers

CONSTANTS
    Groups,        \* group identifiers
    DeploymentOf,  \* the deployment of a group
    Providers,
    Reclaimed,     \* deployments whose orders require a reclamation window
    OrderMaxBids,  \* the market parameter
    MaxOrders      \* bound: orders a group may place

Orders == Groups \X (1..MaxOrders)
Bids == Orders \X Providers

GroupOf(o) == o[1]
OrderOf(b) == b[1]
Deployment(b) == DeploymentOf[GroupOf(OrderOf(b))]

ASSUME MarketAssumption ==
    /\ DeploymentOf \in [Groups -> Accounts]
    /\ Payments = Bids
    /\ AccountOf = [b \in Bids |-> Deployment(b)]
    /\ Reclaimed \subseteq Accounts
    /\ OrderMaxBids \in Nat \ {0} /\ MaxOrders \in Nat \ {0}

VARIABLES
    dep,     \* deployment -> state
    grp,     \* group -> state
    order,   \* order -> state
    bid,     \* bid -> state
    lease,   \* lease, named by its bid -> state
    bond,    \* the bid's own escrow account: "none", "held" or "returned"
    window,  \* bids that offered a reclamation window
    elapsed  \* reclaiming leases whose deadline has passed

marketVars == <<dep, grp, order, bid, lease, bond, window, elapsed>>
vars == <<escrowVars, marketVars>>

Init ==
    /\ LifecycleInit
    /\ dep = [d \in Accounts |-> "none"]
    /\ grp = [g \in Groups |-> "none"]
    /\ order = [o \in Orders |-> "none"]
    /\ bid = [b \in Bids |-> "none"]
    /\ lease = [b \in Bids |-> "none"]
    /\ bond = [b \in Bids |-> "none"]
    /\ window = {}
    /\ elapsed = {}

LiveOrder(o, m) == m.order[o] \in {"open", "active"}
LiveLease(b) == lease[b] \in {"active", "reclaiming"}

-----------------------------------------------------------------------------
(* The market keeper's callbacks, as functions of the market's records.     *)

Market == [dep |-> dep, grp |-> grp, order |-> order, bid |-> bid,
           lease |-> lease, bond |-> bond]

SetMarket(m) ==
    /\ dep' = m.dep
    /\ grp' = m.grp
    /\ order' = m.order
    /\ bid' = m.bid
    /\ lease' = m.lease
    /\ bond' = m.bond

\* Variant: the order is read again after it was closed, so no matched bid is found.
ClosingOpenBids(m, groups) ==
    {b \in Bids : /\ GroupOf(OrderOf(b)) \in groups
                  /\ m.bid[b] = "open" /\ LiveOrder(OrderOf(b), m)}

Closing(m, groups) ==
    {b \in Bids : /\ GroupOf(OrderOf(b)) \in groups
                  /\ \/ m.bid[b] = "open" /\ LiveOrder(OrderOf(b), m)
                     \/ m.bid[b] = "active" /\ m.order[OrderOf(b)] = "active"}

\* Variant: the escrow account of a closed bid is forgotten.
CloseBidsKeepingBonds(m, bids) ==
    [m EXCEPT !.bid = [b \in Bids |-> IF b \in bids THEN "closed" ELSE @[b]]]

CloseBids(m, bids) ==
    [m EXCEPT !.bid = [b \in Bids |-> IF b \in bids THEN "closed" ELSE @[b]],
              !.bond = [b \in Bids |-> IF b \in bids THEN "returned" ELSE @[b]]]

CloseLeases(m, bids, state) ==
    [m EXCEPT !.lease = [b \in Bids |->
        IF b \in bids /\ @[b] \in {"active", "reclaiming"} THEN state ELSE @[b]]]

CloseOrders(m, orders) ==
    [m EXCEPT !.order = [o \in Orders |-> IF o \in orders THEN "closed" ELSE @[o]]]

\* Variant: only matched orders are closed.
MatchedGroupsClosed(m, groups, leaseState) ==
    LET bids == Closing(m, groups)
    IN  CloseOrders(CloseLeases(CloseBids(m, bids), bids, leaseState),
                    {o \in Orders : GroupOf(o) \in groups /\ m.order[o] = "active"})

\* OnGroupClosed for a set of groups: their live orders close, with the open
\* bids on them and the bid and lease of a matched order.  The payments are
\* closed by the operations below.
GroupsClosed(m, groups, leaseState) ==
    LET bids == Closing(m, groups)
    IN  CloseOrders(CloseLeases(CloseBids(m, bids), bids, leaseState),
                    {o \in Orders : GroupOf(o) \in groups /\ LiveOrder(o, m)})

SetGroups(m, groups, state) ==
    [m EXCEPT !.grp = [g \in Groups |-> IF g \in groups THEN state ELSE @[g]]]

\* Variant: the hook ends the groups and leaves the deployment active.
DeploymentGroupsClosed(m, d, state) ==
    LET groups == {g \in Groups : DeploymentOf[g] = d /\ m.grp[g] # "closed"}
    IN  SetGroups(GroupsClosed(m, groups, state), groups, state)

\* The hook OnEscrowAccountClosed of an active deployment.
DeploymentClosed(m, d, state) ==
    LET groups == {g \in Groups : DeploymentOf[g] = d /\ m.grp[g] # "closed"}
    IN  SetGroups(GroupsClosed([m EXCEPT !.dep[d] = "closed"], groups, state), groups, state)

\* Variant: the hook is not called for an overdraft.
HookedOnClose(m, d) ==
    IF m.dep[d] = "active" /\ acct'[d] = "closed" THEN DeploymentClosed(m, d, "closed") ELSE m

\* The hook is called when the escrow operation of this step closed or overdrew
\* the account.
Hooked(m, d) ==
    IF m.dep[d] # "active" THEN m
    ELSE CASE acct'[d] = "closed" -> DeploymentClosed(m, d, "closed")
           [] acct'[d] = "overdrawn" -> DeploymentClosed(m, d, "insufficient")
           [] OTHER -> m

\* The active bids whose payment this step's settlement closed or overdrew.
Unpaid(m) == {b \in Bids : /\ m.bid[b] = "active"
                           /\ pay'[b] # pay[b] /\ pay'[b] \in {"closed", "overdrawn"}}

\* Variant: the hook is not called for the payments of another account.
PaymentsForgotten(m) == m

\* The hook OnEscrowPaymentClosed, called for the payments a settlement changed
\* once the account is saved.  Those of the account itself find their bids
\* closed by then; one that was collected from another account ends its lease,
\* bid and order, and leaves its group open without an order.
PaymentsEnded(m) ==
    LET bids == Unpaid(m)
        short == {b \in bids : pay'[b] = "overdrawn"}
    IN  IF bids = {} THEN m
        ELSE CloseOrders(CloseLeases(CloseLeases(CloseBids(m, bids), short, "insufficient"),
                                     bids, "closed"),
                         {OrderOf(b) : b \in bids})

\* The market after a message: what it did itself, then both hooks.
Followed(m, d) == PaymentsEnded(Hooked(m, d))

Follow(m, d) == SetMarket(Followed(m, d))

\* The error of PaymentClose is discarded by most callers.
TryPaymentClose(b) ==
    IF PaymentClosable(b) THEN PaymentClose(b) ELSE UNCHANGED escrowVars

\* CreateOrder numbers an order by the closed ones and refuses a second live one.
NextOrder(m, g) ==
    1 + Cardinality({o \in Orders : GroupOf(o) = g /\ m.order[o] = "closed"})

CanCreateOrder(m, g) ==
    /\ \A o \in Orders : GroupOf(o) = g => ~LiveOrder(o, m)
    /\ NextOrder(m, g) <= MaxOrders

CreateOrder(m, g) == [m EXCEPT !.order[<<g, NextOrder(m, g)>>] = "open"]

-----------------------------------------------------------------------------
(* x/deployment messages *)

\* Blocks and time pass; the deadlines of some reclaiming leases go by.
Tick ==
    /\ NextBlock
    /\ \E late \in SUBSET {b \in Bids : lease[b] = "reclaiming"} : elapsed' = elapsed \cup late
    /\ UNCHANGED <<dep, grp, order, bid, lease, bond, window>>

CreateDeployment(d) ==
    LET groups == {g \in Groups : DeploymentOf[g] = d}
    IN  /\ dep[d] = "none"
        /\ AccountCreate(d)
        /\ dep' = [dep EXCEPT ![d] = "active"]
        /\ grp' = [g \in Groups |-> IF g \in groups THEN "open" ELSE grp[g]]
        /\ order' = [o \in Orders |-> IF o[1] \in groups /\ o[2] = 1 THEN "open" ELSE order[o]]
        /\ UNCHANGED <<bid, lease, bond, window, elapsed>>

\* The deployment itself is closed by the hook.
CloseDeployment(d) ==
    /\ dep[d] = "active"
    /\ AccountClose(d)
    /\ Follow(Market, d)
    /\ UNCHANGED <<window, elapsed>>

\* What CloseGroup and PauseGroup do to the market and to the payment of the
\* group's lease.
EndGroup(g, state) ==
    LET leased == {b \in Closing(Market, {g}) : lease[b] # "none"}
    IN  /\ IF leased = {} THEN UNCHANGED escrowVars
           ELSE \E b \in leased : TryPaymentClose(b)
        /\ Follow(SetGroups(GroupsClosed(Market, {g}, "closed"), {g}, state), DeploymentOf[g])
        /\ UNCHANGED <<window, elapsed>>

CloseGroup(g) == grp[g] \notin {"none", "closed"} /\ EndGroup(g, "closed")

PauseGroup(g) == grp[g] \notin {"none", "closed", "paused"} /\ EndGroup(g, "paused")

\* The deployment may be closed by now: nothing looks at its state.
StartGroup(g) ==
    /\ grp[g] \in {"paused", "insufficient"}
    /\ CanCreateOrder(Market, g)
    /\ SetMarket(CreateOrder(SetGroups(Market, {g}, "open"), g))
    /\ UNCHANGED <<escrowVars, window, elapsed>>

-----------------------------------------------------------------------------
(* x/market and x/escrow messages *)

BidCount(o) == Cardinality({b \in Bids : OrderOf(b) = o /\ bid[b] \in {"open", "active", "closed"}})

CreateBid(b) ==
    /\ BidCount(OrderOf(b)) <= OrderMaxBids
    /\ order[OrderOf(b)] = "open"
    /\ bid[b] = "none"
    /\ bid' = [bid EXCEPT ![b] = "open"]
    /\ bond' = [bond EXCEPT ![b] = "held"]
    /\ IF Deployment(b) \in Reclaimed THEN window' = window \cup {b}
       ELSE window' \in {window, window \cup {b}}
    /\ UNCHANGED <<escrowVars, dep, grp, order, lease, elapsed>>

CloseOpenBid(b) ==
    /\ bid[b] = "open"
    /\ SetMarket(CloseBids(Market, {b}))
    /\ UNCHANGED <<escrowVars, window, elapsed>>

\* A provider ends its lease.  With a reclamation window it must have started
\* the reclaim and waited for the deadline.  The group is paused.
CloseLeasedBid(b) ==
    LET o == OrderOf(b)
        g == GroupOf(o)
        ended == CloseOrders(CloseBids(CloseLeases(Market, {b}, "closed"), {b}), {o})
    IN  /\ bid[b] = "active"
        /\ \/ lease[b] = "active" /\ b \notin window
           \/ lease[b] = "reclaiming" /\ b \in elapsed
        /\ TryPaymentClose(b)
        /\ Follow(SetGroups(ended, {g}, "paused"), Deployment(b))
        /\ UNCHANGED <<window, elapsed>>

CloseBid(b) == CloseOpenBid(b) \/ CloseLeasedBid(b)

WithdrawLease(b) ==
    /\ lease[b] # "none"
    /\ PaymentWithdraw(b)
    /\ Follow(Market, Deployment(b))
    /\ UNCHANGED <<window, elapsed>>

\* Of the other open bids only the first one met is declared lost: the escrow
\* hook refuses the account of a bid, and that error ends the iteration, after
\* the account has been closed and refunded.
CreateLease(b) ==
    LET o == OrderOf(b)
        others == {c \in Bids : OrderOf(c) = o /\ c # b /\ bid[c] = "open"}
        matched == [Market EXCEPT !.lease[b] = "active", !.order[o] = "active",
                                  !.bid[b] = "active"]
    IN  /\ bid[b] = "open"
        /\ order[o] = "open"
        /\ grp[GroupOf(o)] = "open"
        /\ PaymentCreate(b)
        /\ IF others = {} THEN SetMarket(matched)
           ELSE \E first \in others :
                SetMarket([matched EXCEPT !.bid[first] = "lost", !.bond[first] = "returned"])
        /\ UNCHANGED <<window, elapsed>>

\* The tenant ends a lease; a group that is still open then orders again.
CloseLease(b) ==
    LET o == OrderOf(b)
        g == GroupOf(o)
        ended == CloseOrders(CloseBids(CloseLeases(Market, {b}, "closed"), {b}), {o})
    IN  /\ order[o] = "active"
        /\ bid[b] = "active"
        /\ LiveLease(b)
        /\ PaymentClose(b)
        /\ LET after == Followed(ended, Deployment(b))
           IN  IF after.grp[g] # "open" THEN SetMarket(after)
               ELSE CanCreateOrder(after, g) /\ SetMarket(CreateOrder(after, g))
        /\ UNCHANGED <<window, elapsed>>

LeaseStartReclaim(b) ==
    /\ lease[b] = "active"
    /\ b \in window
    /\ lease' = [lease EXCEPT ![b] = "reclaiming"]
    /\ elapsed' \in {elapsed, elapsed \cup {b}}
    /\ UNCHANGED <<escrowVars, dep, grp, order, bid, bond, window>>

\* MsgAccountDeposit on a deployment's account.
Deposit(d) ==
    /\ AccountDeposit(d)
    /\ Follow(Market, d)
    /\ UNCHANGED <<window, elapsed>>

Next ==
    \/ Tick
    \/ \E d \in Accounts : CreateDeployment(d) \/ CloseDeployment(d) \/ Deposit(d)
    \/ \E g \in Groups : CloseGroup(g) \/ PauseGroup(g) \/ StartGroup(g)
    \/ \E b \in Bids :
        \/ CreateBid(b) \/ CloseBid(b)
        \/ CreateLease(b) \/ CloseLease(b) \/ WithdrawLease(b) \/ LeaseStartReclaim(b)

Spec == Init /\ [][Next]_vars

-----------------------------------------------------------------------------
(* Properties *)

MarketTypeOK ==
    /\ dep \in [Accounts -> {"none", "active", "closed"}]
    /\ grp \in [Groups -> {"none", "open", "paused", "insufficient", "closed"}]
    /\ order \in [Orders -> {"none", "open", "active", "closed"}]
    /\ bid \in [Bids -> {"none", "open", "active", "lost", "closed"}]
    /\ lease \in [Bids -> {"none", "active", "reclaiming", "insufficient", "closed"}]
    /\ bond \in [Bids -> {"none", "held", "returned"}]
    /\ window \subseteq Bids
    /\ elapsed \subseteq window

\* Whatever closes a lease, its bid, its order and their states move together:
\* a lease runs exactly while its bid is active, and a matched order has exactly
\* one such bid.
LeaseBidOrder ==
    /\ \A b \in Bids : LiveLease(b) <=> bid[b] = "active"
    /\ \A b \in Bids : bid[b] = "active" => order[OrderOf(b)] = "active"
    /\ \A o \in Orders : order[o] = "active" =>
        \A b, c \in Bids :
            OrderOf(b) = o /\ OrderOf(c) = o /\ bid[b] = "active" /\ bid[c] = "active" => b = c
    /\ \A o \in Orders : order[o] = "active" => \E b \in Bids : OrderOf(b) = o /\ bid[b] = "active"

\* A group has one live order while it is open and none otherwise, however often
\* it is paused, started, drained by the escrow hook or loses a lease.  Only a
\* deployment whose payments another account collects may have a group that is
\* open and offers nothing.
OneLiveOrder ==
    \A g \in Groups :
        LET live == {o \in Orders : GroupOf(o) = g /\ LiveOrder(o, Market)}
        IN  /\ grp[g] = "open" /\ Untouched(DeploymentOf[g]) => live # {}
            /\ grp[g] # "open" => live = {}
            /\ \A o1, o2 \in live : o1 = o2

\* A running lease is paid for: its payment is open, on an open account of an
\* active deployment, for an open group.  The hook must reach every lease of an
\* account in the transaction that closes or overdraws it.
LiveLeaseIsPaid ==
    \A b \in Bids : LiveLease(b) =>
        /\ pay[b] = "open"
        /\ acct[Deployment(b)] = "open"
        /\ dep[Deployment(b)] = "active"
        /\ grp[GroupOf(OrderOf(b))] = "open"

\* A deployment is active exactly as long as its account is open.
DeploymentFollowsAccount ==
    \A d \in Accounts :
        /\ dep[d] = "none" <=> acct[d] = "none"
        /\ dep[d] = "active" <=> acct[d] = "open"

\* The bond of a bid is held while the bid can still serve and is back with the
\* provider as soon as the bid is lost or closed, on every path.
BondFollowsBid ==
    \A b \in Bids :
        /\ bid[b] \in {"open", "active"} <=> bond[b] = "held"
        /\ bid[b] \in {"lost", "closed"} <=> bond[b] = "returned"

\* market handler CreateLease, "close losing bids".
LosersClosed ==
    \A b \in Bids : order[OrderOf(b)] = "active" => bid[b] # "open"

\* keeper_test.go, a payment that PaymentClose accepted is closed: the payment
\* of a lease that ended charges the open account of its deployment no longer.
EndedLeaseIsNotCharged ==
    \A b \in Bids :
        lease[b] \in {"closed", "insufficient"} /\ acct[Deployment(b)] = "open"
            => pay[b] # "open"
=============================================================================
