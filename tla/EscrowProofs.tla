---------------------------- MODULE EscrowProofs ----------------------------
(***************************************************************************)
(* Proofs about x/escrow: solvency, deposits, charges and grants, and that *)
(* the keeper implements the lifecycle of accounts and payments.           *)
(*                                                                         *)
(* Every loop of the keeper is a fold, and every property a sum: what both *)
(* are is said in FiniteSums.  Here come the keeper's operators one by     *)
(* one, from the inner to the outer, then the actions and the invariant    *)
(* IInv.  The states come last: what each operator does to them, and the   *)
(* step of EscrowLifecycle that every action is.                           *)
(***************************************************************************)
EXTENDS Escrow, FiniteSums

-----------------------------------------------------------------------------
(* The kinds of values *)

States == {"none", "open", "closed", "overdrawn"}
Deposits == [owner : Holders, denom : Denoms, source : {"balance", "grant"}, balance : Nat \ {0}]
AccountType == [state : States, settledAt : Nat, funds : [Denoms -> Int],
                transferred : [Denoms -> Nat], deposits : Seq(Deposits)]
PaymentType == [state : States, rate : Nat, since : Nat, balance : Nat, unsettled : Nat,
                withdrawn : Nat]
BankType == [Holders -> [Denoms -> Int]]
GrantType == [DOMAIN Limits -> [Denoms -> Nat]]
Worlds == [acc : AccountType, pay : [Payments -> PaymentType], bank : BankType,
           grant : GrantType, due : Seq(Payments), overdrawn : BOOLEAN, exhausted : BOOLEAN]

Drains == [left : Nat, deposits : Seq(Deposits)]

-----------------------------------------------------------------------------
(* Sums over a list of deposits *)

\* What a list of deposits, and its first i, add up to when each counts f.
Counts(f, deps) == [j \in 1..Len(deps) |-> f[deps[j]]]
First(f, deps, i) == Total(Counts(f, deps), 1..i)
Tally(f, deps) == First(f, deps, Len(deps))

ByDenom(d) == [dep \in Deposits |-> IF dep.denom = d THEN dep.balance ELSE 0]
ByGranter(g, d) ==
    [dep \in Deposits |->
        IF dep.source = "grant" /\ dep.owner = g /\ dep.denom = d THEN dep.balance ELSE 0]

LEMMA Weights ==
    /\ \A d : ByDenom(d) \in [Deposits -> Nat]
    /\ \A g, d : ByGranter(g, d) \in [Deposits -> Nat]
  BY DEF ByDenom, ByGranter, Deposits

LEMMA FirstSteps ==
    ASSUME NEW f \in [Deposits -> Nat], NEW deps \in Seq(Deposits)
    PROVE  /\ First(f, deps, 0) = 0
           /\ \A i \in 0..Len(deps) : First(f, deps, i) \in Nat
           /\ \A i \in 1..Len(deps) :
                 First(f, deps, i) = First(f, deps, i - 1) + f[deps[i]] /\ f[deps[i]] \in Nat
           /\ Tally(f, deps) \in Nat
  <1>. DEFINE n == Len(deps)
              c == Counts(f, deps)
  <1>1. n \in Nat /\ \A i \in 1..n : c[i] = f[deps[i]] /\ c[i] \in Nat
    BY DEF Counts
  <1>. HIDE DEF c, n
  <1>2. /\ Total(c, 1..0) = 0
        /\ \A i \in 1..n : Total(c, 1..i) = Total(c, 1..(i - 1)) + c[i]
    BY <1>1, TotalFirst
  <1>3. ASSUME NEW i \in 0..n PROVE Total(c, 1..i) \in Nat
    <2>1. IsFiniteSet(1..i) /\ \A j \in 1..i : c[j] \in Nat
      BY <1>1, FS_Interval
    <2>. QED
      BY <2>1, TotalNat
  <1>4. n \in 0..n
    BY <1>1
  <1>. QED
    BY <1>1, <1>2, <1>3, <1>4 DEF First, Tally, c, n

LEMMA TallyAppend ==
    ASSUME NEW f \in [Deposits -> Nat], NEW deps \in Seq(Deposits), NEW e \in Deposits
    PROVE  /\ Append(deps, e) \in Seq(Deposits)
           /\ Tally(f, Append(deps, e)) = Tally(f, deps) + f[e]
           /\ f[e] \in Nat
  <1>. DEFINE more == Append(deps, e)
              n == Len(deps)
  <1>1. /\ more \in Seq(Deposits) /\ n \in Nat /\ Len(more) = n + 1 /\ more[n + 1] = e
        /\ \A i \in 1..n : more[i] = deps[i]
    OBVIOUS
  <1>. HIDE DEF more
  <1>2. First(f, more, n + 1) = First(f, more, n) + f[e]
    <2>1. n + 1 \in 1..Len(more) /\ (n + 1) - 1 = n
      BY <1>1
    <2>2. First(f, more, n + 1) = First(f, more, (n + 1) - 1) + f[more[n + 1]]
      BY <1>1, <2>1, FirstSteps
    <2>. QED
      BY <1>1, <2>1, <2>2
  <1>3. First(f, more, n) = First(f, deps, n)
    <2>. DEFINE c == Counts(f, more)
                e0 == Counts(f, deps)
    <2>1. IsFiniteSet(1..n)
      BY <1>1, FS_Interval
    <2>2. \A i \in 1..n : c[i] = e0[i]
      BY <1>1 DEF Counts
    <2>. HIDE DEF c, e0
    <2>3. Total(c, 1..n) = Total(e0, 1..n)
      BY <2>1, <2>2, TotalAgree
    <2>. QED
      BY <2>3 DEF First, c, e0
  <1>. QED
    BY <1>1, <1>2, <1>3 DEF Tally, more

LEMMA TallyEmpty ==
    ASSUME NEW f \in [Deposits -> Nat]
    PROVE  Tally(f, <<>>) = 0
  <1>1. <<>> \in Seq(Deposits) /\ Len(<<>>) = 0
    OBVIOUS
  <1>. QED
    BY <1>1, FirstSteps DEF Tally

\* The sums of the specification are these.
LEMMA SumOfIsTotal ==
    ASSUME NEW f
    PROVE  SumOf(f) = Total(f, DOMAIN f)
  BY SumIsTotal DEF SumOf

LEMMA DepositSums ==
    ASSUME NEW a, acct[a].deposits \in Seq(Deposits), NEW g, NEW d
    PROVE  /\ DepositTotal(a, d) = Tally(ByDenom(d), acct[a].deposits)
           /\ Returnable(a, g, d) = Tally(ByGranter(g, d), acct[a].deposits)
  <1>. DEFINE deps == acct[a].deposits
  <1>1. \A i \in 1..Len(deps) : deps[i] \in Deposits
    OBVIOUS
  <1>2. DepositTotal(a, d) = SumOf(Counts(ByDenom(d), deps))
    BY <1>1 DEF DepositTotal, BalanceOf, Counts, ByDenom
  <1>3. Returnable(a, g, d) = SumOf(Counts(ByGranter(g, d), deps))
    BY <1>1 DEF Returnable, BalanceOf, Counts, ByGranter
  <1>4. \A f : DOMAIN Counts(f, deps) = 1..Len(deps)
    BY DEF Counts
  <1>. QED
    BY <1>2, <1>3, <1>4, SumOfIsTotal DEF Tally, First

-----------------------------------------------------------------------------
(* deductFromBalance *)

\* What one deposit contributes.
LEMMA DrainOne ==
    ASSUME NEW s \in Drains, NEW dep \in Deposits, NEW d
    PROVE  LET r == DrainDeposit(s, dep, d)
               taken == s.left - r.left
           IN  /\ r \in Drains /\ r.left <= s.left
               /\ \/ dep.denom # d /\ taken = 0
                  \/ dep.denom = d /\ (taken = dep.balance \/ r.left = 0)
               /\ taken <= dep.balance
               /\ \/ r.deposits = s.deposits /\ taken = dep.balance
                  \/ \E left \in Deposits :
                        /\ r.deposits = Append(s.deposits, left)
                        /\ left.owner = dep.owner /\ left.denom = dep.denom
                        /\ left.source = dep.source /\ left.balance = dep.balance - taken
  <1>. DEFINE take == IF dep.denom = d THEN AtMost(dep.balance, s.left) ELSE 0
              left == [dep EXCEPT !.balance = @ - take]
              r == DrainDeposit(s, dep, d)
  <1>1. /\ dep.balance \in Nat \ {0} /\ s.left \in Nat /\ s.deposits \in Seq(Deposits)
        /\ dep.owner \in Holders /\ dep.denom \in Denoms /\ dep.source \in {"balance", "grant"}
        /\ dep = [owner |-> dep.owner, denom |-> dep.denom, source |-> dep.source,
                  balance |-> dep.balance]
    BY DEF Deposits, Drains
  <1>2. /\ take \in Nat /\ take <= s.left /\ take <= dep.balance
        /\ dep.denom # d => take = 0
        /\ dep.denom = d => take = dep.balance \/ s.left - take = 0
    BY <1>1 DEF AtMost
  <1>3. r = [left |-> s.left - take,
             deposits |-> IF take = dep.balance THEN s.deposits ELSE Append(s.deposits, left)]
    BY DEF DrainDeposit
  <1>. HIDE DEF take, r
  <1>4. take # dep.balance => /\ left \in Deposits /\ left.balance = dep.balance - take
                             /\ left.owner = dep.owner /\ left.denom = dep.denom
                             /\ left.source = dep.source
    <2>1. ASSUME take # dep.balance PROVE dep.balance - take \in Nat \ {0}
      BY <1>1, <1>2, <2>1
    <2>. QED
      BY <1>1, <2>1 DEF Deposits
  <1>. HIDE DEF left
  <1>5. r.left = s.left - take /\ s.left - take \in Nat /\ s.left - r.left = take
        /\ r.left <= s.left
    BY <1>1, <1>2, <1>3
  <1>6. CASE take = dep.balance
    <2>1. r.deposits = s.deposits /\ r \in Drains
      BY <1>1, <1>3, <1>5, <1>6 DEF Drains
    <2>. QED
      BY <1>1, <1>2, <1>5, <1>6, <2>1 DEF r
  <1>7. CASE take # dep.balance
    <2>1. r.deposits = Append(s.deposits, left) /\ r \in Drains
      BY <1>1, <1>3, <1>4, <1>5, <1>7 DEF Drains
    <2>. QED
      BY <1>1, <1>2, <1>4, <1>5, <1>7, <2>1 DEF r
  <1>. QED
    BY <1>6, <1>7

\* What every deposit keeps, the draining keeps.
LEMMA DrainKeeps ==
    ASSUME NEW deps \in Seq(Deposits),
           NEW d,
           NEW amount \in Nat,
           NEW Good, [left |-> amount, deposits |-> <<>>] \in Good[0],
           \A i \in 1..Len(deps) : \A v \in Drains :
                v \in Good[i - 1] => DrainDeposit(v, deps[i], d) \in Good[i]
    PROVE  DrainDeposits(deps, d, amount) \in Good[Len(deps)] /\ DrainDeposits(deps, d, amount) \in Drains
  <1>. DEFINE n == Len(deps)
              base == [left |-> amount, deposits |-> <<>>]
              step == [v \in Drains |-> [i \in 1..n |-> DrainDeposit(v, deps[i], d)]]
              E(h) == h = [s \in SUBSET (1..n) |->
                              IF s = {} THEN base
                              ELSE DrainDeposit(h[s \ {Max(s)}], deps[Max(s)], d)]
              k == CHOOSE h : E(h)
  <1>1. n \in Nat /\ DOMAIN deps = 1..n
    OBVIOUS
  <1>2. base \in Drains /\ step \in [Drains -> [1..n -> Drains]]
    BY DrainOne DEF Drains
  <1>3. DrainDeposits(deps, d, amount) = k[1..n]
    BY <1>1 DEF DrainDeposits, FoldLeft, MapThenFoldSet
  <1>4. ASSUME NEW v \in Drains, NEW i \in 1..n PROVE step[v][i] = DrainDeposit(v, deps[i], d)
    OBVIOUS
  <1>. HIDE DEF n, base, step
  <1>5. ASSUME NEW g \in [SUBSET (1..n) -> Drains], IsFold(g, base, step, n)
        PROVE  TakesSteps(k, base, step, n, Drains)
    <2>1. \A s \in SUBSET (1..n) : s # {} => Max(s) \in 1..n
      BY <1>1, MaxIn
    <2>2. E(g)
      <3>1. ASSUME NEW s \in SUBSET (1..n), s # {}
            PROVE  g[s] = DrainDeposit(g[s \ {Max(s)}], deps[Max(s)], d)
        <4>1. g[s] = step[g[s \ {Max(s)}]][Max(s)]
          BY <1>5, <3>1 DEF IsFold
        <4>2. g[s \ {Max(s)}] \in Drains
          OBVIOUS
        <4>. QED
          BY <1>4, <2>1, <3>1, <4>1, <4>2
      <3>2. g[{}] = base /\ g = [s \in SUBSET (1..n) |-> g[s]]
        BY <1>5 DEF IsFold
      <3>. QED
        BY <3>1, <3>2
    <2>3. E(k)
      <3>. HIDE DEF E
      <3>. QED
        BY <2>2
    <2>. HIDE DEF k
    <2>4. k[{}] = base
      BY <2>3
    <2>5. ASSUME NEW s \in SUBSET (1..n), s # {}, k[s \ {Max(s)}] \in Drains
          PROVE  k[s] = step[k[s \ {Max(s)}]][Max(s)]
      <3>1. k[s] = DrainDeposit(k[s \ {Max(s)}], deps[Max(s)], d)
        BY <2>3, <2>5
      <3>. HIDE DEF E
      <3>. QED
        BY <1>4, <2>1, <2>5, <3>1
    <2>. HIDE DEF E
    <2>. QED
      BY <2>4, <2>5 DEF TakesSteps
  <1>. HIDE DEF E, k
  <1>6. base \in Good[0] /\ \A i \in 1..n : \A v \in Drains : v \in Good[i - 1] => step[v][i] \in Good[i]
    BY <1>4 DEF n, base
  <1>7. k[1..n] \in Good[n] /\ k[1..n] \in Drains
    <2>1. IsTheFold(k, base, step, n, Drains)
      BY <1>5 DEF IsTheFold
    <2>2. StepsKeep(Good, base, step, n, Drains)
      BY <1>6 DEF StepsKeep
    <2>. QED
      BY <1>1, <1>2, <2>1, <2>2, FoldKeeps
  <1>. QED
    BY <1>3, <1>7 DEF n

LEMMA WeightOf ==
    ASSUME NEW dep \in Deposits
    PROVE  /\ \A e : ByDenom(e)[dep] = IF dep.denom = e THEN dep.balance ELSE 0
           /\ \A g, e : ByGranter(g, e)[dep] =
                            IF dep.source = "grant" /\ dep.owner = g /\ dep.denom = e
                            THEN dep.balance ELSE 0
           /\ dep.balance \in Nat \ {0}
  BY DEF ByDenom, ByGranter, Deposits

LEMMA TallyType ==
    ASSUME NEW deps \in Seq(Deposits)
    PROVE  /\ \A e : Tally(ByDenom(e), deps) \in Nat
           /\ \A g, e : Tally(ByGranter(g, e), deps) \in Nat
  BY Weights, FirstSteps

LEMMA DrainTallies ==
    ASSUME NEW s \in Drains, NEW dep \in Deposits, NEW d, NEW e, NEW g
    PROVE  LET r == DrainDeposit(s, dep, d)
               taken == s.left - r.left
           IN  /\ Tally(ByDenom(e), r.deposits) =
                    Tally(ByDenom(e), s.deposits)
                      + (IF dep.denom = e THEN dep.balance - taken ELSE 0)
               /\ Tally(ByGranter(g, e), r.deposits) <=
                    Tally(ByGranter(g, e), s.deposits) + ByGranter(g, e)[dep]
  <1>. DEFINE r == DrainDeposit(s, dep, d)
              taken == s.left - r.left
              f == ByDenom(e)
              h == ByGranter(g, e)
  <1>1. /\ r \in Drains /\ taken <= dep.balance
        /\ \/ r.deposits = s.deposits /\ taken = dep.balance
           \/ \E left \in Deposits :
                 /\ r.deposits = Append(s.deposits, left)
                 /\ left.owner = dep.owner /\ left.denom = dep.denom
                 /\ left.source = dep.source /\ left.balance = dep.balance - taken
    BY DrainOne
  <1>. HIDE DEF r
  <1>2. /\ taken \in Int /\ s.deposits \in Seq(Deposits) /\ dep.balance \in Nat
    BY <1>1 DEF Drains, Deposits
  <1>. HIDE DEF taken
  <1>3. /\ f \in [Deposits -> Nat] /\ h \in [Deposits -> Nat]
        /\ Tally(f, s.deposits) \in Nat /\ Tally(h, s.deposits) \in Nat
        /\ h[dep] \in Nat
    BY <1>2, TallyType, Weights
  <1>4. CASE r.deposits = s.deposits /\ taken = dep.balance
    <2>1. Tally(f, r.deposits) = Tally(f, s.deposits) + (IF dep.denom = e THEN dep.balance - taken ELSE 0)
      BY <1>2, <1>3, <1>4
    <2>2. Tally(h, r.deposits) <= Tally(h, s.deposits) + h[dep]
      BY <1>3, <1>4
    <2>. QED
      BY <2>1, <2>2 DEF r, taken
  <1>5. ASSUME NEW left \in Deposits, r.deposits = Append(s.deposits, left),
               left.owner = dep.owner, left.denom = dep.denom, left.source = dep.source,
               left.balance = dep.balance - taken
        PROVE  /\ Tally(f, r.deposits) =
                    Tally(f, s.deposits) + (IF dep.denom = e THEN dep.balance - taken ELSE 0)
               /\ Tally(h, r.deposits) <= Tally(h, s.deposits) + h[dep]
    <2>1. /\ f[left] = IF dep.denom = e THEN dep.balance - taken ELSE 0
          /\ h[left] = IF dep.source = "grant" /\ dep.owner = g /\ dep.denom = e
                       THEN dep.balance - taken ELSE 0
          /\ h[dep] = IF dep.source = "grant" /\ dep.owner = g /\ dep.denom = e
                       THEN dep.balance ELSE 0
      BY <1>5, WeightOf
    <2>2. taken >= 0
      BY <1>1, <1>2, DrainOne DEF taken, r, Drains
    <2>. HIDE DEF f, h
    <2>3. /\ Tally(f, r.deposits) = Tally(f, s.deposits) + f[left]
          /\ Tally(h, r.deposits) = Tally(h, s.deposits) + h[left]
      BY <1>2, <1>3, <1>5, TallyAppend
    <2>4. h[left] <= h[dep] /\ h[left] \in Int
      BY <1>2, <2>1, <2>2
    <2>. QED
      BY <1>3, <2>1, <2>3, <2>4
  <1>. QED
    BY <1>1, <1>4, <1>5 DEF r, taken

\* What is drained is taken from the deposits of the denomination, until they are gone.
LEMMA DrainEffect ==
    ASSUME NEW deps \in Seq(Deposits), NEW d, NEW amount \in Nat, NEW e, NEW g
    PROVE  LET r == DrainDeposits(deps, d, amount)
           IN  /\ r \in Drains /\ r.left <= amount
               /\ Tally(ByDenom(d), deps) = Tally(ByDenom(d), r.deposits) + amount - r.left
               /\ r.left = 0 \/ Tally(ByDenom(d), r.deposits) = 0
               /\ e # d => Tally(ByDenom(e), r.deposits) = Tally(ByDenom(e), deps)
               /\ Tally(ByGranter(g, e), r.deposits) <= Tally(ByGranter(g, e), deps)
  <1>. DEFINE n == Len(deps)
              fd == ByDenom(d)
              fe == ByDenom(e)
              fg == ByGranter(g, e)
              P(s, i) ==
                 /\ s.left <= amount
                 /\ First(fd, deps, i) = Tally(fd, s.deposits) + amount - s.left
                 /\ s.left = 0 \/ Tally(fd, s.deposits) = 0
                 /\ e # d => Tally(fe, s.deposits) = First(fe, deps, i)
                 /\ Tally(fg, s.deposits) <= First(fg, deps, i)
              Good == [i \in 0..n |-> {s \in Drains : P(s, i)}]
              base == [left |-> amount, deposits |-> <<>>]
              r == DrainDeposits(deps, d, amount)
  <1>1. n \in Nat /\ \A i \in 1..n : deps[i] \in Deposits /\ i - 1 \in 0..n /\ i \in 0..n
    OBVIOUS
  <1>0. fd \in [Deposits -> Nat] /\ fe \in [Deposits -> Nat] /\ fg \in [Deposits -> Nat]
    BY Weights
  <1>2. base \in Good[0]
    <2>1. /\ Tally(fd, <<>>) = 0 /\ First(fd, deps, 0) = 0
          /\ Tally(fe, <<>>) = 0 /\ First(fe, deps, 0) = 0
          /\ Tally(fg, <<>>) = 0 /\ First(fg, deps, 0) = 0
      <3>. HIDE DEF fd, fe, fg
      <3>. QED
        BY <1>0, TallyEmpty, FirstSteps
    <2>2. base \in Drains /\ base.left = amount /\ base.deposits = <<>>
      BY DEF Drains
    <2>. HIDE DEF fd, fe, fg, base
    <2>3. P(base, 0)
      BY <2>1, <2>2
    <2>. HIDE DEF P
    <2>. QED
      BY <1>1, <2>2, <2>3
  <1>3. ASSUME NEW i \in 1..n, NEW s \in Drains, P(s, i - 1)
        PROVE  P(DrainDeposit(s, deps[i], d), i)
    <2>. DEFINE dep == deps[i]
                t == DrainDeposit(s, dep, d)
    <2>1. dep \in Deposits
      OBVIOUS
    <2>2. /\ First(fd, deps, i) = First(fd, deps, i - 1) + fd[dep]
          /\ First(fe, deps, i) = First(fe, deps, i - 1) + fe[dep]
          /\ First(fg, deps, i) = First(fg, deps, i - 1) + fg[dep]
      <3>. HIDE DEF fd, fe, fg
      <3>. QED
        BY <1>0, FirstSteps
    <2>3. /\ First(fd, deps, i - 1) \in Nat /\ First(fe, deps, i - 1) \in Nat
          /\ First(fg, deps, i - 1) \in Nat
      <3>. HIDE DEF fd, fe, fg
      <3>. QED
        BY <1>0, <1>1, FirstSteps
    <2>. HIDE DEF dep
    <2>4. /\ t \in Drains /\ t.left <= s.left
          /\ \/ dep.denom # d /\ s.left - t.left = 0
             \/ dep.denom = d /\ (s.left - t.left = dep.balance \/ t.left = 0)
      BY <2>1, DrainOne
    <2>5. /\ t.left \in Nat /\ s.left \in Nat
          /\ s.deposits \in Seq(Deposits) /\ t.deposits \in Seq(Deposits)
      <3>. HIDE DEF t
      <3>. QED
        BY <2>4 DEF Drains
    <2>6. /\ Tally(fd, t.deposits) = Tally(fd, s.deposits)
                 + (IF dep.denom = d THEN dep.balance - (s.left - t.left) ELSE 0)
          /\ Tally(fe, t.deposits) = Tally(fe, s.deposits)
                 + (IF dep.denom = e THEN dep.balance - (s.left - t.left) ELSE 0)
          /\ Tally(fg, t.deposits) <= Tally(fg, s.deposits) + fg[dep]
      BY <2>1, DrainTallies
    <2>. HIDE DEF t
    <2>7. /\ fd[dep] = IF dep.denom = d THEN dep.balance ELSE 0
          /\ fe[dep] = IF dep.denom = e THEN dep.balance ELSE 0
          /\ fg[dep] \in Nat /\ dep.balance \in Nat
      BY <2>1, WeightOf
    <2>. HIDE DEF fd, fe, fg
    <2>8. /\ Tally(fd, s.deposits) \in Nat /\ Tally(fe, s.deposits) \in Nat
          /\ Tally(fg, s.deposits) \in Nat /\ Tally(fg, t.deposits) \in Nat
      BY <1>0, <2>5, FirstSteps
    <2>9. P(t, i)
      <3>1. t.left <= amount
        BY <1>3, <2>4, <2>5
      <3>2. First(fd, deps, i) = Tally(fd, t.deposits) + amount - t.left
        <4>1. First(fd, deps, i - 1) = Tally(fd, s.deposits) + amount - s.left
          BY <1>3
        <4>2. CASE dep.denom = d
          <5>1. First(fd, deps, i) = First(fd, deps, i - 1) + dep.balance
            BY <2>2, <2>7, <4>2
          <5>2. Tally(fd, t.deposits) = Tally(fd, s.deposits) + (dep.balance - (s.left - t.left))
            BY <2>6, <4>2
          <5>. QED
            BY <2>3, <2>5, <2>7, <2>8, <4>1, <5>1, <5>2, SMTT(60)
        <4>3. CASE dep.denom # d
          <5>1. s.left = t.left
            BY <2>4, <2>5, <4>3
          <5>2. First(fd, deps, i) = First(fd, deps, i - 1)
            BY <2>2, <2>3, <2>7, <4>3
          <5>3. Tally(fd, t.deposits) = Tally(fd, s.deposits)
            BY <2>6, <2>8, <4>3
          <5>. QED
            BY <4>1, <5>1, <5>2, <5>3
        <4>. QED
          BY <4>2, <4>3
      <3>3. t.left = 0 \/ Tally(fd, t.deposits) = 0
        <4>1. CASE dep.denom = d
          <5>1. s.left = 0 \/ Tally(fd, s.deposits) = 0
            BY <1>3
          <5>2. s.left - t.left = dep.balance \/ t.left = 0
            BY <2>4, <4>1
          <5>3. Tally(fd, t.deposits) = Tally(fd, s.deposits) + (dep.balance - (s.left - t.left))
            BY <2>6, <4>1
          <5>. QED
            BY <2>4, <2>5, <2>7, <2>8, <5>1, <5>2, <5>3
        <4>2. CASE dep.denom # d
          <5>1. s.left = t.left /\ Tally(fd, t.deposits) = Tally(fd, s.deposits)
            BY <2>4, <2>5, <2>6, <2>8, <4>2
          <5>. QED
            BY <1>3, <5>1
        <4>. QED
          BY <4>1, <4>2
      <3>4. e # d => Tally(fe, t.deposits) = First(fe, deps, i)
        <4>1. CASE dep.denom = e /\ e # d
          <5>1. s.left = t.left
            BY <2>4, <2>5, <4>1
          <5>2. /\ Tally(fe, t.deposits) = Tally(fe, s.deposits) + (dep.balance - (s.left - t.left))
                /\ First(fe, deps, i) = First(fe, deps, i - 1) + dep.balance
            BY <2>2, <2>6, <2>7, <4>1
          <5>3. Tally(fe, s.deposits) = First(fe, deps, i - 1)
            BY <1>3, <4>1
          <5>. QED
            BY <2>5, <2>7, <2>8, <5>1, <5>2, <5>3
        <4>2. CASE dep.denom # e
          BY <1>3, <2>2, <2>6, <2>7, <2>8, <4>2
        <4>3. CASE e = d
          BY <4>3
        <4>. QED
          BY <4>1, <4>2, <4>3
      <3>5. Tally(fg, t.deposits) <= First(fg, deps, i)
        BY <1>3, <2>2, <2>3, <2>6, <2>7, <2>8
      <3>. QED
        BY <3>1, <3>2, <3>3, <3>4, <3>5
    <2>. QED
      BY <2>9 DEF t, dep
  <1>. HIDE DEF P
  <1>4. \A i \in 1..n : \A s \in Drains :
            s \in Good[i - 1] => DrainDeposit(s, deps[i], d) \in Good[i]
    BY <1>1, <1>3, DrainOne
  <1>. HIDE DEF Good
  <1>5. r \in Good[n] /\ r \in Drains
    BY <1>2, <1>4, DrainKeeps
  <1>6. P(r, n)
    BY <1>1, <1>5 DEF Good
  <1>. QED
    BY <1>5, <1>6 DEF P, Tally

\* A deduction takes what it can from the deposits of the denomination, and the
\* whole amount from the funds.
Deducts(acc, d, amount, settled, after) ==
    /\ after \in AccountType /\ settled \in Nat /\ settled <= amount
    /\ after.state = acc.state /\ after.settledAt = acc.settledAt
    /\ after.funds = [acc.funds EXCEPT ![d] = @ - amount]
    /\ Tally(ByDenom(d), acc.deposits) = Tally(ByDenom(d), after.deposits) + settled
    /\ settled = amount \/ Tally(ByDenom(d), after.deposits) = 0
    /\ \A e : e # d => Tally(ByDenom(e), after.deposits) = Tally(ByDenom(e), acc.deposits)
    /\ \A g, e : Tally(ByGranter(g, e), after.deposits) <= Tally(ByGranter(g, e), acc.deposits)

LEMMA DeductEffect ==
    ASSUME NEW acc \in AccountType, NEW d \in Denoms, NEW amount \in Nat
    PROVE  LET r == Deduct(acc, d, amount)
           IN  Deducts(acc, d, amount, r.settled, r.acc)
  <1>. DEFINE s == DrainDeposits(acc.deposits, d, amount)
              settled == amount - s.left
              after == [acc EXCEPT !.deposits = s.deposits, !.funds[d] = @ - amount,
                                   !.transferred[d] = @ + settled]
  <1>1. Deduct(acc, d, amount).settled = settled /\ Deduct(acc, d, amount).acc = after
    BY DEF Deduct
  <1>2. acc.deposits \in Seq(Deposits)
    BY DEF AccountType
  <1>3. /\ s \in Drains /\ s.left <= amount
        /\ Tally(ByDenom(d), acc.deposits) = Tally(ByDenom(d), s.deposits) + amount - s.left
        /\ s.left = 0 \/ Tally(ByDenom(d), s.deposits) = 0
    BY <1>2, DrainEffect
  <1>4. ASSUME NEW e, NEW g
        PROVE  /\ e # d => Tally(ByDenom(e), s.deposits) = Tally(ByDenom(e), acc.deposits)
               /\ Tally(ByGranter(g, e), s.deposits) <= Tally(ByGranter(g, e), acc.deposits)
    BY <1>2, DrainEffect
  <1>. HIDE DEF s
  <1>6. /\ s.left \in Nat /\ s.deposits \in Seq(Deposits) /\ settled \in Nat /\ settled <= amount
        /\ settled = amount \/ s.left # 0
    BY <1>3 DEF Drains
  <1>7. Tally(ByDenom(d), acc.deposits) = Tally(ByDenom(d), s.deposits) + settled
    BY <1>3, <1>6, TallyType
  <1>8. settled = amount \/ Tally(ByDenom(d), s.deposits) = 0
    BY <1>3, <1>6
  <1>. HIDE DEF settled
  <1>9. /\ after \in AccountType /\ after.deposits = s.deposits
        /\ after.state = acc.state /\ after.settledAt = acc.settledAt
        /\ after.funds = [acc.funds EXCEPT ![d] = @ - amount]
    <2>1. /\ acc.funds \in [Denoms -> Int] /\ acc.transferred \in [Denoms -> Nat]
          /\ acc = [state |-> acc.state, settledAt |-> acc.settledAt, funds |-> acc.funds,
                    transferred |-> acc.transferred, deposits |-> acc.deposits]
          /\ acc.state \in States /\ acc.settledAt \in Nat
      BY DEF AccountType
    <2>2. acc.funds[d] - amount \in Int /\ acc.transferred[d] + settled \in Nat
      BY <1>6, <2>1
    <2>3. after \in AccountType
      BY <1>6, <2>1, <2>2 DEF AccountType
    <2>4. /\ after.deposits = s.deposits
          /\ after.state = acc.state /\ after.settledAt = acc.settledAt
          /\ after.funds = [acc.funds EXCEPT ![d] = @ - amount]
      BY <2>1
    <2>. QED
      BY <2>3, <2>4
  <1>. HIDE DEF after
  <1>10. Deducts(acc, d, amount, settled, after)
    BY <1>4, <1>6, <1>7, <1>8, <1>9 DEF Deducts
  <1>. QED
    BY <1>1, <1>10

\* Funds and deposits tell the same.
Told(acc) ==
    \A d \in Denoms : Tally(ByDenom(d), acc.deposits) = IF acc.funds[d] > 0 THEN acc.funds[d] ELSE 0

LEMMA DeductKeepsTold ==
    ASSUME NEW acc \in AccountType, NEW d \in Denoms, NEW amount \in Nat, NEW settled, NEW after,
           Deducts(acc, d, amount, settled, after), Told(acc)
    PROVE  /\ Told(after)
           /\ settled < amount => after.funds[d] < 0
  <1>1. /\ acc.funds \in [Denoms -> Int] /\ settled \in Nat /\ settled <= amount
        /\ acc.deposits \in Seq(Deposits) /\ after.deposits \in Seq(Deposits)
        /\ after.funds = [acc.funds EXCEPT ![d] = @ - amount]
    BY DEF Deducts, AccountType
  <1>2. after.funds[d] = acc.funds[d] - amount /\ acc.funds[d] \in Int
    BY <1>1
  <1>. DEFINE t == Tally(ByDenom(d), acc.deposits)
              u == Tally(ByDenom(d), after.deposits)
  <1>3. /\ t \in Nat /\ u \in Nat /\ t = u + settled /\ (settled = amount \/ u = 0)
        /\ t = IF acc.funds[d] > 0 THEN acc.funds[d] ELSE 0
    BY <1>1, TallyType DEF Deducts, Told
  <1>. HIDE DEF t, u
  <1>4. u = IF after.funds[d] > 0 THEN after.funds[d] ELSE 0
    BY <1>1, <1>2, <1>3
  <1>5. settled < amount => after.funds[d] < 0
    BY <1>1, <1>2, <1>3
  <1>6. ASSUME NEW e \in Denoms, e # d
        PROVE  Tally(ByDenom(e), after.deposits) = IF after.funds[e] > 0 THEN after.funds[e] ELSE 0
    <2>1. after.funds[e] = acc.funds[e]
      BY <1>1, <1>6
    <2>2. Tally(ByDenom(e), after.deposits) = Tally(ByDenom(e), acc.deposits)
      BY <1>6 DEF Deducts
    <2>. QED
      BY <2>1, <2>2 DEF Told
  <1>. QED
    BY <1>4, <1>5, <1>6 DEF Told, u

-----------------------------------------------------------------------------
(* Coins *)

LEMMA Units ==
    ASSUME NEW x \in Nat
    PROVE  Coins(x) \in Nat /\ Dec * Coins(x) <= x /\ Dec * Coins(x) \in Nat
  <1>1. Dec \in Nat \ {0}
    BY EscrowAssumption
  <1>. QED
    BY <1>1 DEF Coins

LEMMA Distributes ==
    ASSUME NEW x \in Int, NEW y \in Int
    PROVE  /\ Dec * (x + y) = Dec * x + Dec * y /\ Dec * (x - y) = Dec * x - Dec * y
           /\ Dec * x \in Int
           /\ x <= y => Dec * x <= Dec * y
  <1>1. Dec \in Nat
    BY EscrowAssumption
  <1>. QED
    BY <1>1

LEMMA HoldersAre ==
    /\ "escrow" \in Holders /\ "fees" \in Holders
    /\ \A p \in Payments : Provider[p] \in Holders
    /\ \A h \in DOMAIN Wallets \cup ToSet(Granters) : h \in Holders /\ h # "escrow"
    /\ \A a \in Accounts : Owner[a] \in DOMAIN Wallets
  BY EscrowAssumption DEF Holders

LEMMA CreditEffect ==
    ASSUME NEW b \in BankType, NEW to \in Holders, NEW d \in Denoms, NEW coins \in Int
    PROVE  /\ Credit(b, to, d, coins) \in BankType
           /\ \A h \in Holders, e \in Denoms :
                Credit(b, to, d, coins)[h][e] = IF h = to /\ e = d THEN b[h][e] + coins ELSE b[h][e]
  <1>1. Credit(b, to, d, coins) \in BankType
    BY DEF Credit, BankType
  <1>2. \A h \in Holders, e \in Denoms :
                Credit(b, to, d, coins)[h][e] = IF h = to /\ e = d THEN b[h][e] + coins ELSE b[h][e]
    BY DEF Credit, BankType
  <1>. QED
    BY <1>1, <1>2

\* A transfer out of escrow takes no more than its coins, one into it adds them.
LEMMA SendEffect ==
    ASSUME NEW b \in BankType, NEW from \in Holders, NEW to \in Holders, NEW d \in Denoms,
           NEW coins \in Nat
    PROVE  LET c == Send(b, from, to, d, coins)
           IN  /\ c \in BankType
               /\ \A e \in Denoms : c["escrow"][e] \in Int /\ b["escrow"][e] \in Int
               /\ \A e \in Denoms : e # d => c["escrow"][e] = b["escrow"][e]
               /\ c["escrow"][d] >= b["escrow"][d] - coins
               /\ from # "escrow" /\ to = "escrow" => c["escrow"][d] = b["escrow"][d] + coins
  <1>. DEFINE b1 == Credit(b, from, d, 0 - coins)
              b2 == Credit(b1, to, d, coins)
  <1>1. Send(b, from, to, d, coins) = b2
    BY DEF Send
  <1>2. b1 \in BankType /\ \A h \in Holders, e \in Denoms :
            b1[h][e] = IF h = from /\ e = d THEN b[h][e] + (0 - coins) ELSE b[h][e]
    BY CreditEffect
  <1>. HIDE DEF b1
  <1>3. b2 \in BankType /\ \A h \in Holders, e \in Denoms :
            b2[h][e] = IF h = to /\ e = d THEN b1[h][e] + coins ELSE b1[h][e]
    BY <1>2, CreditEffect
  <1>. HIDE DEF b2
  <1>4. \A h \in Holders, e \in Denoms : b[h][e] \in Int /\ b1[h][e] \in Int /\ b2[h][e] \in Int
    BY <1>2, <1>3 DEF BankType
  <1>. QED
    BY <1>1, <1>2, <1>3, <1>4, HoldersAre

\* A bank in which the escrow has given up at most some coins of one denomination.
GivesUp(b, c, d, coins) ==
    /\ c \in BankType
    /\ \A e \in Denoms : c["escrow"][e] \in Int /\ b["escrow"][e] \in Int
    /\ \A e \in Denoms : e # d => c["escrow"][e] = b["escrow"][e]
    /\ c["escrow"][d] >= b["escrow"][d] - coins

LEMMA SendGivesUp ==
    ASSUME NEW b \in BankType, NEW to \in Holders, NEW d \in Denoms, NEW coins \in Nat
    PROVE  GivesUp(b, Send(b, "escrow", to, d, coins), d, coins)
  <1>1. "escrow" \in Holders
    BY HoldersAre
  <1>. QED
    BY <1>1, SendEffect DEF GivesUp

LEMMA GivesUpTwice ==
    ASSUME NEW b, NEW b1, NEW b2, NEW d \in Denoms, NEW m \in Nat, NEW n \in Nat,
           GivesUp(b, b1, d, m), GivesUp(b1, b2, d, n)
    PROVE  GivesUp(b, b2, d, m + n)
  <1>1. b["escrow"][d] \in Int /\ b1["escrow"][d] \in Int /\ b2["escrow"][d] \in Int
    BY DEF GivesUp
  <1>2. b2["escrow"][d] >= b["escrow"][d] - (m + n)
    BY <1>1 DEF GivesUp
  <1>3. \A e \in Denoms : e # d => b2["escrow"][e] = b["escrow"][e]
    BY DEF GivesUp
  <1>. QED
    BY <1>2, <1>3 DEF GivesUp

LEMMA PayoutEffect ==
    ASSUME NEW b \in BankType, NEW to \in Holders, NEW d \in Denoms, NEW coins \in Nat
    PROVE  LET c == SettlementPayout(b, to, d, coins)
           IN  /\ c \in BankType
               /\ \A e \in Denoms : c["escrow"][e] \in Int /\ b["escrow"][e] \in Int
               /\ \A e \in Denoms : e # d => c["escrow"][e] = b["escrow"][e]
               /\ c["escrow"][d] >= b["escrow"][d] - coins
  <1>. DEFINE share == coins \div FeeParts
              fees == 3 * share
              net == coins - 3 * share
              b1 == Send(b, "escrow", "fees", d, fees)
              b2 == Send(b1, "escrow", to, d, net)
  <1>1. fees \in Nat /\ net \in Nat /\ fees + net = coins
    <2>1. FeeParts \in Nat /\ FeeParts >= 3
      BY EscrowAssumption
    <2>2. share \in Nat /\ FeeParts * share <= coins
      BY <2>1
    <2>3. 3 * share <= FeeParts * share
      BY <2>1, <2>2
    <2>. HIDE DEF share
    <2>. QED
      BY <2>1, <2>2, <2>3
  <1>2. SettlementPayout(b, to, d, coins) = b2
    BY DEF SettlementPayout
  <1>. HIDE DEF fees, net
  <1>3. GivesUp(b, b1, d, fees)
    BY <1>1, HoldersAre, SendGivesUp
  <1>. HIDE DEF b1
  <1>4. GivesUp(b1, b2, d, net)
    <2>1. b1 \in BankType
      BY <1>3 DEF GivesUp
    <2>. QED
      BY <1>1, <2>1, SendGivesUp
  <1>. HIDE DEF b2
  <1>5. GivesUp(b, b2, d, fees + net)
    BY <1>1, <1>3, <1>4, GivesUpTwice
  <1>. QED
    BY <1>1, <1>2, <1>5 DEF GivesUp

-----------------------------------------------------------------------------
(* The balances of payments *)

Payments0 == [Payments -> PaymentType]
Balances(P) == SumOf([p \in Payments |-> P[p].balance])
Held(P, d) == IF d = Prim THEN Balances(P) ELSE 0

LEMMA PaymentsFinite == IsFiniteSet(Payments)
  <1>1. PaymentOrder \in Seq(Payments)
    BY EscrowAssumption
  <1>. DEFINE n == Len(PaymentOrder)
  <1>2. n \in Nat /\ Payments = {PaymentOrder[i] : i \in 1..n}
    BY <1>1 DEF Payments, ToSet
  <1>3. IsFiniteSet(1..n)
    BY <1>2, FS_Interval
  <1>. DEFINE f == [i \in 1..n |-> PaymentOrder[i]]
  <1>4. f \in Surjection(1..n, Payments)
    BY <1>2 DEF Surjection
  <1>. HIDE DEF n, f
  <1>. QED
    BY <1>3, <1>4, FS_Surjection

LEMMA BalanceChanges ==
    ASSUME NEW P \in Payments0, NEW Q \in Payments0, NEW p \in Payments,
           \A q \in Payments : q # p => Q[q].balance = P[q].balance
    PROVE  /\ Balances(P) \in Int /\ Balances(Q) \in Int
           /\ Balances(Q) = Balances(P) - P[p].balance + Q[p].balance
           /\ P[p].balance \in Nat /\ Q[p].balance \in Nat
  <1>. DEFINE f == [q \in Payments |-> P[q].balance]
              g == [q \in Payments |-> Q[q].balance]
  <1>1. \A q \in Payments : /\ f[q] = P[q].balance /\ g[q] = Q[q].balance
                            /\ f[q] \in Nat /\ g[q] \in Nat
    BY DEF Payments0, PaymentType
  <1>2. DOMAIN f = Payments /\ DOMAIN g = Payments
    OBVIOUS
  <1>3. Balances(P) = Total(f, Payments) /\ Balances(Q) = Total(g, Payments)
    BY <1>2, SumOfIsTotal DEF Balances
  <1>. HIDE DEF f, g
  <1>4. \A q \in Payments : f[q] \in Int /\ g[q] \in Int /\ (q # p => f[q] = g[q])
    BY <1>1
  <1>5. /\ Total(f, Payments) \in Int /\ Total(g, Payments) \in Int
        /\ Total(g, Payments) = Total(f, Payments) - f[p] + g[p]
    BY <1>4, PaymentsFinite, TotalChange
  <1>. QED
    BY <1>1, <1>3, <1>5

LEMMA BalancesSame ==
    ASSUME NEW P \in Payments0, NEW Q, \A q \in Payments : Q[q].balance = P[q].balance
    PROVE  Balances(P) = Balances(Q) /\ Balances(P) \in Nat
  <1>. DEFINE f == [q \in Payments |-> P[q].balance]
  <1>1. f = [q \in Payments |-> Q[q].balance] /\ DOMAIN f = Payments
        /\ \A q \in Payments : f[q] \in Nat
    BY DEF Payments0, PaymentType
  <1>2. Balances(P) = Total(f, Payments) /\ Balances(Q) = Balances(P)
    BY <1>1, SumOfIsTotal DEF Balances
  <1>. HIDE DEF f
  <1>3. Total(f, Payments) \in Nat
    BY <1>1, PaymentsFinite, TotalNat
  <1>. QED
    BY <1>2, <1>3

-----------------------------------------------------------------------------
(* Steps that leave the escrow no poorer and no granter more exposed *)

\* What the module holds beyond what the account and the payments record.
Room(w, d) == Dec * w.bank["escrow"][d] - Tally(ByDenom(d), w.acc.deposits) - Held(w.pay, d)

\* What a granter has granted and not spent for good.
Exposed(w, g, d) == Dec * LimitsOf(g, d, w.grant) + Tally(ByGranter(g, d), w.acc.deposits)

Safe(v, w) ==
    /\ \A d \in Denoms : Room(v, d) <= Room(w, d)
    /\ \A g : \A d \in Denoms : Exposed(w, g, d) <= Exposed(v, g, d)
    /\ Told(v.acc) => Told(w.acc)

LEMMA LimitsType ==
    ASSUME NEW G \in GrantType, NEW g, NEW d \in Denoms
    PROVE  LimitsOf(g, d, G) \in Nat
  <1>. DEFINE S == {pair \in DOMAIN G : pair[1] = g}
              f == [pair \in S |-> G[pair][d]]
  <1>1. DOMAIN G = DOMAIN Limits /\ IsFiniteSet(DOMAIN Limits)
    BY EscrowAssumption DEF GrantType
  <1>2. IsFiniteSet(S)
    BY <1>1, FS_Subset
  <1>3. \A x \in S : f[x] \in Nat
    BY <1>1 DEF GrantType
  <1>4. LimitsOf(g, d, G) = Total(f, S)
    BY SumOfIsTotal DEF LimitsOf
  <1>. HIDE DEF S, f
  <1>. QED
    BY <1>2, <1>3, <1>4, TotalNat

LEMMA WorldFields ==
    ASSUME NEW w \in Worlds
    PROVE  /\ w.acc \in AccountType /\ w.pay \in Payments0 /\ w.bank \in BankType
           /\ w.grant \in GrantType /\ w.due \in Seq(Payments)
           /\ w.overdrawn \in BOOLEAN /\ w.exhausted \in BOOLEAN
           /\ w.acc.deposits \in Seq(Deposits) /\ w.acc.funds \in [Denoms -> Int]
  BY DEF Worlds, AccountType, Payments0

LEMMA SafeTypes ==
    ASSUME NEW w \in Worlds, NEW g, NEW d \in Denoms
    PROVE  /\ w.bank["escrow"][d] \in Int /\ Dec * w.bank["escrow"][d] \in Int
           /\ Tally(ByDenom(d), w.acc.deposits) \in Nat /\ Tally(ByGranter(g, d), w.acc.deposits) \in Nat
           /\ Held(w.pay, d) \in Nat /\ LimitsOf(g, d, w.grant) \in Nat
           /\ Dec * LimitsOf(g, d, w.grant) \in Int
           /\ Room(w, d) \in Int /\ Exposed(w, g, d) \in Int
  <1>1. w.bank["escrow"][d] \in Int
    BY WorldFields, HoldersAre DEF BankType
  <1>2. Tally(ByDenom(d), w.acc.deposits) \in Nat /\ Tally(ByGranter(g, d), w.acc.deposits) \in Nat
    BY WorldFields, TallyType
  <1>3. Held(w.pay, d) \in Nat
    BY WorldFields, BalancesSame DEF Held
  <1>4. LimitsOf(g, d, w.grant) \in Nat
    BY WorldFields, LimitsType
  <1>5. Dec * w.bank["escrow"][d] \in Int /\ Dec * LimitsOf(g, d, w.grant) \in Int
    <2>1. LimitsOf(g, d, w.grant) \in Int
      BY <1>4
    <2>2. Dec * w.bank["escrow"][d] \in Int
      BY <1>1, Distributes
    <2>3. Dec * LimitsOf(g, d, w.grant) \in Int
      BY <2>1, Distributes
    <2>. QED
      BY <2>2, <2>3
  <1>. QED
    BY <1>1, <1>2, <1>3, <1>4, <1>5 DEF Room, Exposed

LEMMA SafeChains ==
    /\ \A v \in Worlds : Safe(v, v)
    /\ \A u \in Worlds, v \in Worlds, w \in Worlds : Safe(u, v) /\ Safe(v, w) => Safe(u, w)
  <1>1. ASSUME NEW v \in Worlds PROVE Safe(v, v)
    BY SafeTypes DEF Safe
  <1>2. ASSUME NEW u \in Worlds, NEW v \in Worlds, NEW w \in Worlds, Safe(u, v), Safe(v, w)
        PROVE  Safe(u, w)
    <2>1. ASSUME NEW d \in Denoms PROVE Room(u, d) <= Room(w, d)
      <3>1. Room(u, d) \in Int /\ Room(v, d) \in Int /\ Room(w, d) \in Int
        BY SafeTypes
      <3>. QED
        BY <1>2, <3>1 DEF Safe
    <2>2. ASSUME NEW g, NEW d \in Denoms PROVE Exposed(w, g, d) <= Exposed(u, g, d)
      <3>1. Exposed(u, g, d) \in Int /\ Exposed(v, g, d) \in Int /\ Exposed(w, g, d) \in Int
        BY SafeTypes
      <3>2. Exposed(w, g, d) <= Exposed(v, g, d) /\ Exposed(v, g, d) <= Exposed(u, g, d)
        BY <1>2 DEF Safe
      <3>. QED
        BY <3>1, <3>2
    <2>. QED
      BY <1>2, <2>1, <2>2 DEF Safe
  <1>. QED
    BY <1>1, <1>2

\* What a payment was charged.
Charge(r) == r.balance + Dec * r.withdrawn + r.unsettled

\* The payments an account collects: its own, and those of the accounts whose
\* key begins with its key.
Scope(a) == {p \in Payments : AccountOf[p] \in Reached[a]}

\* Earnings of payments an account collects are paid out, and some are closed.
PaysOut(v, w, a) ==
    /\ w.acc = v.acc /\ w.grant = v.grant /\ w.due = v.due /\ w.overdrawn = v.overdrawn
    /\ \A p \in Payments :
        /\ w.pay[p].rate = v.pay[p].rate /\ w.pay[p].since = v.pay[p].since
        /\ w.pay[p].unsettled = v.pay[p].unsettled
        /\ Charge(w.pay[p]) = Charge(v.pay[p])
        /\ \/ w.pay[p].state = v.pay[p].state
           \/ v.pay[p].state = "open" /\ w.pay[p].state = "closed"
        /\ p \notin Scope(a) => w.pay[p] = v.pay[p]
    /\ Safe(v, w)

LEMMA PaysOutChains ==
    ASSUME NEW a
    PROVE  /\ \A v \in Worlds : PaysOut(v, v, a)
           /\ \A u \in Worlds, v \in Worlds, w \in Worlds :
                PaysOut(u, v, a) /\ PaysOut(v, w, a) => PaysOut(u, w, a)
  <1>1. ASSUME NEW v \in Worlds PROVE PaysOut(v, v, a)
    BY SafeChains DEF PaysOut
  <1>2. ASSUME NEW u \in Worlds, NEW v \in Worlds, NEW w \in Worlds, PaysOut(u, v, a), PaysOut(v, w, a)
        PROVE  PaysOut(u, w, a)
    <2>1. Safe(u, w)
      BY <1>2, SafeChains DEF PaysOut
    <2>2. ASSUME NEW p \in Payments
          PROVE  \/ w.pay[p].state = u.pay[p].state
                 \/ u.pay[p].state = "open" /\ w.pay[p].state = "closed"
      BY <1>2 DEF PaysOut
    <2>. QED
      BY <1>2, <2>1, <2>2 DEF PaysOut
  <1>. QED
    BY <1>1, <1>2

LEMMA PaidOutIs ==
    ASSUME NEW r \in PaymentType
    PROVE  LET coins == Coins(r.balance)
               q == PaidOut(r, coins)
           IN  /\ q \in PaymentType /\ coins \in Nat /\ q.balance = r.balance - Dec * coins
               /\ q.state = r.state /\ q.rate = r.rate /\ q.since = r.since
               /\ q.unsettled = r.unsettled /\ Charge(q) = Charge(r)
  <1>. DEFINE coins == Coins(r.balance)
              q == PaidOut(r, coins)
  <1>1. /\ r.balance \in Nat /\ r.withdrawn \in Nat /\ r.unsettled \in Nat /\ r.state \in States
        /\ r.rate \in Nat /\ r.since \in Nat
    BY DEF PaymentType
  <1>2. coins \in Nat /\ Dec * coins <= r.balance /\ Dec * coins \in Nat
    BY <1>1, Units
  <1>. HIDE DEF coins
  <1>3. r.balance - Dec * coins \in Nat /\ r.withdrawn + coins \in Nat
    BY <1>1, <1>2
  <1>4. /\ q.balance = r.balance - Dec * coins /\ q.withdrawn = r.withdrawn + coins
        /\ q.state = r.state /\ q.rate = r.rate /\ q.since = r.since
        /\ q.unsettled = r.unsettled
    BY DEF PaymentType, PaidOut
  <1>5. q \in PaymentType
    BY <1>1, <1>3 DEF PaymentType, PaidOut
  <1>6. Dec * (r.withdrawn + coins) = Dec * r.withdrawn + Dec * coins /\ Dec * r.withdrawn \in Int
    <2>1. r.withdrawn \in Int /\ coins \in Int
      BY <1>1, <1>2
    <2>2. Dec * (r.withdrawn + coins) = Dec * r.withdrawn + Dec * coins
      BY <2>1, Distributes
    <2>3. Dec * r.withdrawn \in Int
      BY <2>1, Distributes
    <2>. QED
      BY <2>2, <2>3
  <1>. HIDE DEF q
  <1>7. Charge(q) = Charge(r)
    BY <1>1, <1>2, <1>4, <1>6 DEF Charge
  <1>. QED
    BY <1>2, <1>4, <1>5, <1>7 DEF coins, q

LEMMA WithdrawPaysOut ==
    ASSUME NEW v \in Worlds, NEW a, NEW p \in Scope(a)
    PROVE  Withdraw(v, p) \in Worlds /\ PaysOut(v, Withdraw(v, p), a)
  <1>. DEFINE coins == Coins(v.pay[p].balance)
              w == [v EXCEPT !.bank = SettlementPayout(@, Provider[p], Prim, coins),
                             !.pay[p] = PaidOut(@, coins)]
  <1>0. p \in Payments /\ p \in Scope(a)
    BY DEF Scope
  <1>1. CASE coins = 0
    BY <1>1, PaysOutChains DEF Withdraw
  <1>2. CASE coins # 0
    <2>1. Withdraw(v, p) = w
      BY <1>2 DEF Withdraw
    <2>2. v.pay \in Payments0 /\ v.pay[p] \in PaymentType /\ v.bank \in BankType
      BY <1>0, WorldFields DEF Payments0
    <2>. DEFINE q == PaidOut(v.pay[p], coins)
                b == SettlementPayout(v.bank, Provider[p], Prim, coins)
    <2>3. /\ q \in PaymentType /\ coins \in Nat /\ q.balance = v.pay[p].balance - Dec * coins
          /\ q.state = v.pay[p].state /\ q.rate = v.pay[p].rate /\ q.since = v.pay[p].since
          /\ q.unsettled = v.pay[p].unsettled /\ Charge(q) = Charge(v.pay[p])
      BY <2>2, PaidOutIs
    <2>. HIDE DEF coins
    <2>4. /\ b \in BankType
          /\ \A e \in Denoms : b["escrow"][e] \in Int /\ v.bank["escrow"][e] \in Int
          /\ \A e \in Denoms : e # Prim => b["escrow"][e] = v.bank["escrow"][e]
          /\ b["escrow"][Prim] >= v.bank["escrow"][Prim] - coins
      BY <1>0, <2>2, <2>3, PayoutEffect, HoldersAre DEF Denoms
    <2>5. /\ w.bank = b /\ w.pay = [v.pay EXCEPT ![p] = q] /\ w.acc = v.acc /\ w.grant = v.grant
          /\ w.due = v.due /\ w.overdrawn = v.overdrawn
      BY DEF Worlds
    <2>. HIDE DEF q, b
    <2>6. w.pay \in Payments0
      BY <1>0, <2>2, <2>3, <2>5 DEF Payments0
    <2>7. w \in Worlds
      BY <2>4, <2>5, <2>6 DEF Worlds, Payments0
    <2>. HIDE DEF w
    <2>8. /\ \A x \in Payments : x # p => w.pay[x] = v.pay[x]
          /\ w.pay[p] = q
      BY <1>0, <2>2, <2>5 DEF Payments0
    <2>9. ASSUME NEW d \in Denoms PROVE Room(v, d) <= Room(w, d)
      <3>1. /\ Balances(w.pay) = Balances(v.pay) - v.pay[p].balance + w.pay[p].balance
            /\ Balances(w.pay) \in Int /\ Balances(v.pay) \in Int
            /\ v.pay[p].balance \in Nat /\ w.pay[p].balance \in Nat
        BY <1>0, <2>2, <2>6, <2>8, BalanceChanges
      <3>2. /\ Dec * (v.bank["escrow"][Prim] - coins) = Dec * v.bank["escrow"][Prim] - Dec * coins
            /\ Dec * (v.bank["escrow"][Prim] - coins) <= Dec * b["escrow"][Prim]
            /\ Dec * coins \in Int
            /\ Dec * v.bank["escrow"][Prim] \in Int /\ Dec * b["escrow"][Prim] \in Int
        <4>1. Prim \in Denoms /\ v.bank["escrow"][Prim] - coins \in Int
          BY <2>3, <2>4 DEF Denoms
        <4>. DEFINE x == v.bank["escrow"][Prim]
                    y == b["escrow"][Prim]
        <4>2. x \in Int /\ y \in Int /\ coins \in Int /\ x - coins \in Int /\ x - coins <= y
          BY <2>3, <2>4, <4>1
        <4>. HIDE DEF x, y
        <4>3. Dec * (x - coins) = Dec * x - Dec * coins /\ Dec * x \in Int
          BY <4>2, Distributes
        <4>4. Dec * y \in Int /\ Dec * coins \in Int /\ (x - coins <= y => Dec * (x - coins) <= Dec * y)
          BY <4>2, Distributes
        <4>. QED
          BY <4>2, <4>3, <4>4 DEF x, y
      <3>3. Balances(w.pay) = Balances(v.pay) - Dec * coins
        BY <2>3, <2>8, <3>1, <3>2
      <3>. DEFINE t == Tally(ByDenom(d), v.acc.deposits)
      <3>4. t \in Nat /\ Tally(ByDenom(d), w.acc.deposits) = t
        BY <2>5, SafeTypes
      <3>. HIDE DEF t
      <3>5. CASE d = Prim
        <4>1. Room(v, d) = Dec * v.bank["escrow"][Prim] - t - Balances(v.pay)
          BY <3>5 DEF Room, Held, t
        <4>2. Room(w, d) = Dec * b["escrow"][Prim] - t - (Balances(v.pay) - Dec * coins)
          BY <2>5, <3>3, <3>4, <3>5 DEF Room, Held
        <4>. QED
          BY <3>1, <3>2, <3>4, <4>1, <4>2
      <3>6. CASE d # Prim
        <4>1. b["escrow"][d] = v.bank["escrow"][d]
          BY <2>4, <3>6
        <4>2. Room(w, d) = Room(v, d)
          BY <2>5, <3>6, <4>1 DEF Room, Held
        <4>. QED
          BY <4>2, SafeTypes
      <3>. QED
        BY <3>5, <3>6
    <2>10. Safe(v, w)
      <3>1. ASSUME NEW g, NEW d \in Denoms PROVE Exposed(w, g, d) <= Exposed(v, g, d)
        BY <2>5, SafeTypes DEF Exposed
      <3>. QED
        BY <2>5, <2>9, <3>1 DEF Safe
    <2>11. PaysOut(v, w, a)
      BY <1>0, <2>3, <2>5, <2>8, <2>10 DEF PaysOut
    <2>. QED
      BY <2>1, <2>7, <2>11
  <1>. QED
    BY <1>1, <1>2

-----------------------------------------------------------------------------
(* The charge of one payment *)

LEMMA Scaled ==
    ASSUME NEW x \in Int
    PROVE  Dec * x \in Int
  BY EscrowAssumption

\* What an account has spent beyond its funds.
Debt(acc) == IF acc.funds[Prim] < 0 THEN 0 - acc.funds[Prim] ELSE 0

LEMMA ChargedIs ==
    ASSUME NEW r \in PaymentType, NEW owed \in Nat, NEW settled \in Nat, settled <= owed
    PROVE  LET q == Charged(r, owed, settled)
           IN  /\ q \in PaymentType
               /\ q.rate = r.rate /\ q.since = r.since /\ q.unsettled = owed - settled
               /\ q.state = IF settled < owed THEN "overdrawn" ELSE "open"
               /\ q.balance = r.balance + settled
               /\ Charge(q) = Charge(r) - r.unsettled + owed
  <1>. DEFINE q == Charged(r, owed, settled)
  <1>1. /\ r.balance \in Nat /\ r.withdrawn \in Nat /\ r.unsettled \in Nat /\ r.state \in States
        /\ r.rate \in Nat /\ r.since \in Nat
    BY DEF PaymentType
  <1>2. /\ r.balance + settled \in Nat /\ owed - settled \in Nat
        /\ (IF settled < owed THEN "overdrawn" ELSE "open") \in States
    BY <1>1 DEF States
  <1>3. q \in PaymentType
    BY <1>1, <1>2 DEF PaymentType, Charged
  <1>4. /\ q.rate = r.rate /\ q.since = r.since /\ q.unsettled = owed - settled
        /\ q.state = IF settled < owed THEN "overdrawn" ELSE "open"
        /\ q.balance = r.balance + settled /\ q.withdrawn = r.withdrawn
    BY DEF PaymentType, Charged
  <1>. HIDE DEF q
  <1>5. r.withdrawn \in Int /\ Dec * r.withdrawn \in Int
    BY <1>1, Scaled
  <1>6. Charge(q) = Charge(r) - r.unsettled + owed
    BY <1>1, <1>4, <1>5 DEF Charge
  <1>. QED
    BY <1>3, <1>4, <1>6 DEF q

LEMMA SafeFrom ==
    ASSUME NEW v \in Worlds, NEW w \in Worlds, w.grant = v.grant,
           \A d \in Denoms : Room(v, d) <= Room(w, d),
           \A g, d : Tally(ByGranter(g, d), w.acc.deposits) <= Tally(ByGranter(g, d), v.acc.deposits),
           Told(v.acc) => Told(w.acc)
    PROVE  Safe(v, w)
  <1>1. ASSUME NEW g, NEW d \in Denoms PROVE Exposed(w, g, d) <= Exposed(v, g, d)
    <2>. DEFINE x == Tally(ByGranter(g, d), w.acc.deposits)
                y == Tally(ByGranter(g, d), v.acc.deposits)
                z == Dec * LimitsOf(g, d, v.grant)
    <2>1. x \in Nat /\ y \in Nat /\ z \in Int /\ x <= y
      BY SafeTypes
    <2>2. Exposed(w, g, d) = z + x /\ Exposed(v, g, d) = z + y
      BY DEF Exposed
    <2>. HIDE DEF x, y, z
    <2>. QED
      BY <2>1, <2>2
  <1>. QED
    BY <1>1 DEF Safe

LEMMA ChargeEffect ==
    ASSUME NEW v \in Worlds, NEW p \in Payments, NEW owed \in Nat, Told(v.acc)
    PROVE  LET w == ChargePayment(v, p, owed)
               q == w.pay[p]
           IN  /\ w \in Worlds /\ Safe(v, w)
               /\ w.due = v.due /\ w.acc.state = v.acc.state /\ w.acc.settledAt = v.acc.settledAt
               /\ w.acc.funds[Prim] <= v.acc.funds[Prim]
               /\ \A x \in Payments : x # p => w.pay[x] = v.pay[x]
               /\ q.rate = v.pay[p].rate /\ q.since = v.pay[p].since
               /\ q.state = IF q.unsettled > 0 THEN "overdrawn" ELSE "open"
               /\ Charge(q) = Charge(v.pay[p]) - v.pay[p].unsettled + owed
               /\ Debt(w.acc) = Debt(v.acc) + q.unsettled
               /\ w.overdrawn <=> (v.overdrawn \/ q.unsettled > 0)
               /\ q.unsettled > 0 => w.acc.funds[Prim] < 0
               /\ v.pay[p].balance <= q.balance
  <1>. DEFINE r == Deduct(v.acc, Prim, owed)
              settled == r.settled
              after == r.acc
              c == Charged(v.pay[p], owed, settled)
              w == ChargePayment(v, p, owed)
  <1>0. Prim \in Denoms /\ v.acc \in AccountType /\ v.pay[p] \in PaymentType
    BY WorldFields DEF Denoms, Payments0
  <1>1. Deducts(v.acc, Prim, owed, settled, after)
    BY <1>0, DeductEffect
  <1>2. w = [v EXCEPT !.acc = after, !.overdrawn = @ \/ settled < owed,
                      !.pay[p] = Charged(@, owed, settled)]
    BY DEF ChargePayment
  <1>. HIDE DEF settled, after, w
  <1>3. /\ after \in AccountType /\ settled \in Nat /\ settled <= owed
        /\ after.state = v.acc.state /\ after.settledAt = v.acc.settledAt
        /\ after.funds = [v.acc.funds EXCEPT ![Prim] = @ - owed]
    BY <1>1 DEF Deducts
  <1>4. /\ c \in PaymentType
        /\ c.rate = v.pay[p].rate /\ c.since = v.pay[p].since /\ c.unsettled = owed - settled
        /\ c.state = IF settled < owed THEN "overdrawn" ELSE "open"
        /\ c.balance = v.pay[p].balance + settled
        /\ Charge(c) = Charge(v.pay[p]) - v.pay[p].unsettled + owed
    BY <1>0, <1>3, ChargedIs
  <1>5. /\ w.acc = after /\ w.bank = v.bank /\ w.grant = v.grant /\ w.due = v.due
        /\ w.overdrawn <=> (v.overdrawn \/ settled < owed)
        /\ w.pay = [v.pay EXCEPT ![p] = c]
    BY <1>2 DEF Worlds
  <1>. HIDE DEF c
  <1>6. v.pay \in Payments0 /\ w.pay \in Payments0
    BY <1>4, <1>5, WorldFields DEF Payments0
  <1>7. w \in Worlds
    BY <1>2, <1>3, <1>4, <1>5, <1>6 DEF Worlds, Payments0
  <1>8. w.pay[p] = c /\ \A x \in Payments : x # p => w.pay[x] = v.pay[x]
    BY <1>5, <1>6 DEF Payments0
  <1>9. /\ v.acc.funds[Prim] \in Int /\ after.funds[Prim] = v.acc.funds[Prim] - owed
        /\ after.funds[Prim] <= v.acc.funds[Prim]
    BY <1>0, <1>3 DEF AccountType
  <1>10. Told(after) /\ (settled < owed => after.funds[Prim] < 0)
    BY <1>0, <1>1, DeductKeepsTold
  <1>11. Debt(after) = Debt(v.acc) + (owed - settled)
    <2>. DEFINE t == Tally(ByDenom(Prim), v.acc.deposits)
                u == Tally(ByDenom(Prim), after.deposits)
    <2>1. t \in Nat /\ u \in Nat /\ t = u + settled /\ (settled = owed \/ u = 0)
      BY <1>1, <1>7, <1>5, SafeTypes, <1>0 DEF Deducts
    <2>2. t = IF v.acc.funds[Prim] > 0 THEN v.acc.funds[Prim] ELSE 0
      BY <1>0 DEF Told
    <2>. HIDE DEF t, u
    <2>. QED
      BY <1>3, <1>9, <2>1, <2>2 DEF Debt
  <1>12. ASSUME NEW d \in Denoms PROVE Room(v, d) <= Room(w, d)
    <2>. DEFINE e == Dec * v.bank["escrow"][d]
                t == Tally(ByDenom(d), v.acc.deposits)
                u == Tally(ByDenom(d), after.deposits)
    <2>1. e \in Int /\ t \in Nat /\ u \in Nat
      BY <1>5, <1>7, SafeTypes
    <2>2. /\ Balances(w.pay) = Balances(v.pay) - v.pay[p].balance + w.pay[p].balance
          /\ Balances(w.pay) \in Int /\ Balances(v.pay) \in Int
          /\ v.pay[p].balance \in Nat /\ w.pay[p].balance \in Nat
      BY <1>6, <1>8, BalanceChanges
    <2>3. Balances(w.pay) = Balances(v.pay) + settled
      BY <1>3, <1>4, <1>8, <2>2
    <2>4. CASE d = Prim
      <3>1. t = u + settled
        BY <1>1, <2>4 DEF Deducts
      <3>2. Room(v, d) = e - t - Balances(v.pay) /\ Room(w, d) = e - u - Balances(w.pay)
        BY <1>5, <2>4 DEF Room, Held
      <3>. HIDE DEF e, t, u
      <3>. QED
        BY <1>3, <2>1, <2>2, <2>3, <3>1, <3>2
    <2>5. CASE d # Prim
      <3>1. t = u
        BY <1>1, <2>5 DEF Deducts
      <3>2. Room(v, d) = e - t - 0 /\ Room(w, d) = e - u - 0
        BY <1>5, <2>5 DEF Room, Held
      <3>. HIDE DEF e, t, u
      <3>. QED
        BY <2>1, <3>1, <3>2
    <2>. QED
      BY <2>4, <2>5
  <1>13. Safe(v, w)
    <2>1. \A g, d : Tally(ByGranter(g, d), w.acc.deposits) <= Tally(ByGranter(g, d), v.acc.deposits)
      BY <1>1, <1>5 DEF Deducts
    <2>. QED
      BY <1>5, <1>7, <1>10, <1>12, <2>1, SafeFrom
  <1>14. /\ w.pay[p].unsettled = owed - settled
         /\ w.pay[p].unsettled > 0 <=> settled < owed
    BY <1>3, <1>4, <1>8
  <1>15. /\ w.pay[p].state = IF w.pay[p].unsettled > 0 THEN "overdrawn" ELSE "open"
         /\ Debt(w.acc) = Debt(v.acc) + w.pay[p].unsettled
         /\ w.overdrawn <=> (v.overdrawn \/ w.pay[p].unsettled > 0)
         /\ w.pay[p].unsettled > 0 => w.acc.funds[Prim] < 0
    BY <1>4, <1>5, <1>8, <1>10, <1>11, <1>14
  <1>16. v.pay[p].balance <= w.pay[p].balance
    <2>1. v.pay[p].balance \in Nat
      BY <1>0 DEF PaymentType
    <2>. QED
      BY <1>3, <1>4, <1>8, <2>1
  <1>. QED
    BY <1>3, <1>4, <1>5, <1>7, <1>8, <1>9, <1>13, <1>15, <1>16 DEF w

-----------------------------------------------------------------------------
(* The uakt fallback for one payment *)

LEMMA PriceOf ==
    ASSUME NEW x \in Nat, NEW price \in Nat \ {0}, NEW s \in Nat, s <= x \div price
    PROVE  /\ x \div price \in Nat
           /\ s * price \in Nat /\ s * price <= x
  <1>. DEFINE n == x \div price
  <1>1. n \in Nat /\ n * price <= x
    OBVIOUS
  <1>. HIDE DEF n
  <1>2. s <= n => s * price <= n * price
    BY <1>1
  <1>. QED
    BY <1>1, <1>2 DEF n

LEMMA PaidInAktIs ==
    ASSUME NEW r \in PaymentType, NEW paid \in Nat, paid <= r.unsettled
    PROVE  LET q == PaidInAkt(r, paid)
           IN  /\ q \in PaymentType
               /\ q.rate = r.rate /\ q.since = r.since /\ q.balance = r.balance
               /\ q.unsettled <= r.unsettled /\ Charge(q) <= Charge(r)
               /\ q.unsettled > 0 => q.state = r.state
               /\ q.state \in {r.state, "open"}
  <1>. DEFINE q == PaidInAkt(r, paid)
  <1>1. /\ r.balance \in Nat /\ r.withdrawn \in Nat /\ r.unsettled \in Nat /\ r.state \in States
        /\ r.rate \in Nat /\ r.since \in Nat
    BY DEF PaymentType
  <1>2. /\ r.unsettled - paid \in Nat
        /\ (IF r.unsettled = paid THEN "open" ELSE r.state) \in States
    BY <1>1 DEF States
  <1>3. q \in PaymentType
    BY <1>1, <1>2 DEF PaymentType, PaidInAkt
  <1>4. /\ q.rate = r.rate /\ q.since = r.since /\ q.unsettled = r.unsettled - paid
        /\ q.state = IF r.unsettled = paid THEN "open" ELSE r.state
        /\ q.balance = r.balance /\ q.withdrawn = r.withdrawn
    BY DEF PaymentType, PaidInAkt
  <1>. HIDE DEF q
  <1>5. r.withdrawn \in Int
    BY <1>1
  <1>6. Dec * r.withdrawn \in Int
    BY <1>5, Scaled
  <1>7. Charge(q) <= Charge(r)
    BY <1>1, <1>4, <1>6 DEF Charge
  <1>8. q.unsettled <= r.unsettled /\ (q.unsettled > 0 => q.state = r.state) /\ q.state \in {r.state, "open"}
    BY <1>1, <1>4
  <1>. QED
    BY <1>3, <1>4, <1>7, <1>8 DEF q

\* The fallback works on the account, the bank and one payment.
PaysInAkt(v, w, p) ==
    /\ Safe(v, w)
    /\ w.due = v.due /\ w.overdrawn = v.overdrawn
    /\ w.acc.state = v.acc.state /\ w.acc.settledAt = v.acc.settledAt
    /\ Prim # Akt => w.acc.funds[Prim] = v.acc.funds[Prim]
    /\ \A x \in Payments : x # p => w.pay[x] = v.pay[x]
    /\ w.pay[p].rate = v.pay[p].rate /\ w.pay[p].since = v.pay[p].since
    /\ w.pay[p].unsettled <= v.pay[p].unsettled /\ Charge(w.pay[p]) <= Charge(v.pay[p])
    /\ w.pay[p].unsettled > 0 => w.pay[p].state = v.pay[p].state
    /\ w.pay[p].state \in {v.pay[p].state, "open"}
    /\ w.pay[p].balance = v.pay[p].balance

LEMMA PaysNothing ==
    ASSUME NEW v \in Worlds, NEW p \in Payments
    PROVE  PaysInAkt(v, v, p)
  <1>1. v.pay[p] \in PaymentType
    BY WorldFields DEF Payments0
  <1>2. v.pay[p].unsettled \in Int /\ v.pay[p].withdrawn \in Int /\ v.pay[p].balance \in Int
    BY <1>1 DEF PaymentType
  <1>3. Dec * v.pay[p].withdrawn \in Int
    BY <1>2, Scaled
  <1>4. Charge(v.pay[p]) <= Charge(v.pay[p]) /\ v.pay[p].unsettled <= v.pay[p].unsettled
    BY <1>2, <1>3 DEF Charge
  <1>. QED
    BY <1>4, SafeChains DEF PaysInAkt

LEMMA FallbackEffect ==
    ASSUME NEW v \in Worlds, NEW p \in Payments, NEW price \in Nat \ {0}, Told(v.acc)
    PROVE  LET w == FallbackPayment(v, p, price, v.pay[p].unsettled \div price)
           IN  w \in Worlds /\ PaysInAkt(v, w, p)
  <1>. DEFINE needed == v.pay[p].unsettled \div price
              r == Deduct(v.acc, Akt, needed)
              settled == r.settled
              after == r.acc
              paid == settled * price
              c == PaidInAkt(v.pay[p], paid)
              coins == Coins(settled)
              b == SettlementPayout(v.bank, Provider[p], Akt, coins)
              cleared == [after EXCEPT !.funds[Akt] = 0]
              last == IF settled < needed THEN cleared ELSE after
              w == FallbackPayment(v, p, price, needed)
  <1>0. /\ Prim \in Denoms /\ Akt \in Denoms /\ v.acc \in AccountType /\ v.pay[p] \in PaymentType
        /\ v.bank \in BankType /\ v.pay[p].unsettled \in Nat
    BY WorldFields DEF Denoms, Payments0, PaymentType
  <1>1. needed \in Nat
    BY <1>0
  <1>. HIDE DEF needed
  <1>2. Deducts(v.acc, Akt, needed, settled, after)
    BY <1>0, <1>1, DeductEffect
  <1>3. w = IF settled = 0 THEN [v EXCEPT !.acc = after]
            ELSE [v EXCEPT !.acc = last,
                    !.bank = SettlementPayout(@, Provider[p], Akt, coins),
                    !.pay[p] = PaidInAkt(@, paid),
                    !.exhausted = settled < needed]
    BY DEF FallbackPayment
  <1>. HIDE DEF settled, after, w
  <1>4. /\ after \in AccountType /\ settled \in Nat /\ settled <= needed
        /\ after.state = v.acc.state /\ after.settledAt = v.acc.settledAt
        /\ after.funds = [v.acc.funds EXCEPT ![Akt] = @ - needed]
        /\ after.funds \in [Denoms -> Int] /\ after.deposits \in Seq(Deposits)
    BY <1>2 DEF Deducts, AccountType
  <1>5. paid \in Nat /\ paid <= v.pay[p].unsettled
    BY <1>0, <1>4, PriceOf DEF needed
  <1>. HIDE DEF paid
  <1>6. Told(after)
    BY <1>0, <1>1, <1>2, DeductKeepsTold
  <1>7. /\ last \in AccountType /\ last.state = after.state /\ last.settledAt = after.settledAt
        /\ last.deposits = after.deposits
        /\ \A d \in Denoms : d # Akt => last.funds[d] = after.funds[d]
        /\ settled < needed => last.funds[Akt] = 0
        /\ ~(settled < needed) => last = after
    <2>1. /\ cleared \in AccountType /\ cleared.state = after.state
          /\ cleared.settledAt = after.settledAt /\ cleared.deposits = after.deposits
      <3>1. [after.funds EXCEPT ![Akt] = 0] \in [Denoms -> Int]
        BY <1>4
      <3>2. cleared = [after EXCEPT !.funds = [after.funds EXCEPT ![Akt] = 0]]
        BY DEF AccountType
      <3>. HIDE DEF cleared
      <3>. QED
        BY <1>4, <3>1, <3>2 DEF AccountType
    <2>2. cleared.funds = [after.funds EXCEPT ![Akt] = 0]
      BY <1>4 DEF AccountType
    <2>. HIDE DEF cleared
    <2>3. /\ cleared.funds[Akt] = 0
          /\ \A d \in Denoms : d # Akt => cleared.funds[d] = after.funds[d]
      BY <1>0, <1>4, <2>2
    <2>4. last = cleared \/ last = after
      OBVIOUS
    <2>. QED
      BY <1>4, <2>1, <2>3, <2>4
  <1>8. Told(last)
    <2>1. CASE settled < needed
      <3>1. Tally(ByDenom(Akt), after.deposits) = 0
        BY <1>2, <1>4, <2>1, <1>1 DEF Deducts
      <3>2. ASSUME NEW d \in Denoms
            PROVE  Tally(ByDenom(d), last.deposits) = IF last.funds[d] > 0 THEN last.funds[d] ELSE 0
        <4>1. CASE d = Akt
          BY <1>7, <2>1, <3>1, <4>1
        <4>2. CASE d # Akt
          BY <1>6, <1>7, <4>2 DEF Told
        <4>. QED
          BY <4>1, <4>2
      <3>. QED
        BY <3>2 DEF Told
    <2>2. CASE ~(settled < needed)
      BY <1>6, <1>7, <2>2
    <2>. QED
      BY <2>1, <2>2
  <1>. HIDE DEF last, cleared
  <1>9. Prim # Akt => /\ last.funds[Prim] = v.acc.funds[Prim]
                      /\ after.funds[Prim] = v.acc.funds[Prim]
    BY <1>0, <1>4, <1>7 DEF AccountType
  <1>10. /\ c \in PaymentType /\ c.rate = v.pay[p].rate /\ c.since = v.pay[p].since
         /\ c.balance = v.pay[p].balance
         /\ c.unsettled <= v.pay[p].unsettled /\ Charge(c) <= Charge(v.pay[p])
         /\ c.unsettled > 0 => c.state = v.pay[p].state
         /\ c.state \in {v.pay[p].state, "open"}
    BY <1>0, <1>5, PaidInAktIs
  <1>11. /\ coins \in Nat /\ Dec * coins <= settled /\ Dec * coins \in Nat
    BY <1>4, Units
  <1>. HIDE DEF coins
  <1>12. /\ b \in BankType
         /\ \A e \in Denoms : b["escrow"][e] \in Int /\ v.bank["escrow"][e] \in Int
         /\ \A e \in Denoms : e # Akt => b["escrow"][e] = v.bank["escrow"][e]
         /\ b["escrow"][Akt] >= v.bank["escrow"][Akt] - coins
    BY <1>0, <1>11, PayoutEffect, HoldersAre
  <1>13. ASSUME NEW x \in Worlds, x.grant = v.grant, x.acc.deposits = after.deposits, Told(x.acc),
                \A q \in Payments : x.pay[q].balance = v.pay[q].balance,
                \A e \in Denoms : e # Akt => x.bank["escrow"][e] = v.bank["escrow"][e],
                Dec * v.bank["escrow"][Akt] <= Dec * x.bank["escrow"][Akt] + settled
         PROVE  Safe(v, x)
    <2>1. ASSUME NEW d \in Denoms PROVE Room(v, d) <= Room(x, d)
      <3>. DEFINE t == Tally(ByDenom(d), v.acc.deposits)
                  u == Tally(ByDenom(d), after.deposits)
                  f == Held(v.pay, d)
                  e0 == Dec * v.bank["escrow"][d]
                  e1 == Dec * x.bank["escrow"][d]
      <3>1. t \in Nat /\ u \in Nat /\ f \in Nat /\ e0 \in Int /\ e1 \in Int
        BY <1>13, SafeTypes
      <3>2. Held(x.pay, d) = f
        <4>1. Balances(v.pay) = Balances(x.pay)
          BY <1>13, WorldFields, BalancesSame
        <4>. QED
          BY <4>1 DEF Held
      <3>3. Room(v, d) = e0 - t - f /\ Room(x, d) = e1 - u - f
        BY <1>13, <3>2 DEF Room
      <3>4. CASE d = Akt
        <4>1. t = u + settled /\ e0 <= e1 + settled
          BY <1>2, <1>13, <3>4 DEF Deducts
        <4>. HIDE DEF t, u, f, e0, e1
        <4>. QED
          BY <1>4, <3>1, <3>3, <4>1
      <3>5. CASE d # Akt
        <4>1. t = u /\ e0 = e1
          BY <1>2, <1>13, <3>5 DEF Deducts
        <4>. HIDE DEF t, u, f, e0, e1
        <4>. QED
          BY <3>1, <3>3, <4>1
      <3>. QED
        BY <3>4, <3>5
    <2>2. \A g, d : Tally(ByGranter(g, d), x.acc.deposits) <= Tally(ByGranter(g, d), v.acc.deposits)
      BY <1>2, <1>13 DEF Deducts
    <2>. QED
      BY <1>13, <2>1, <2>2, SafeFrom
  <1>14. CASE settled = 0
    <2>1. /\ w.acc = after /\ w.pay = v.pay /\ w.bank = v.bank /\ w.grant = v.grant
          /\ w.due = v.due /\ w.overdrawn = v.overdrawn
      BY <1>3, <1>14 DEF Worlds
    <2>2. w \in Worlds
      BY <1>3, <1>4, <1>14 DEF Worlds
    <2>3. Safe(v, w)
      <3>1. Dec * v.bank["escrow"][Akt] \in Int
        BY <1>0, SafeTypes
      <3>2. Dec * v.bank["escrow"][Akt] <= Dec * w.bank["escrow"][Akt] + settled
        BY <1>14, <2>1, <3>1
      <3>. QED
        BY <1>6, <1>13, <2>1, <2>2, <3>2
    <2>. QED
      BY <1>4, <1>9, <2>1, <2>2, <2>3, PaysNothing DEF w, needed, PaysInAkt
  <1>15. CASE settled # 0
    <2>1. /\ w.acc = last /\ w.bank = b /\ w.grant = v.grant
          /\ w.pay = [v.pay EXCEPT ![p] = c]
          /\ w.due = v.due /\ w.overdrawn = v.overdrawn
      BY <1>3, <1>15 DEF Worlds
    <2>. HIDE DEF c, b
    <2>2. v.pay \in Payments0 /\ w.pay \in Payments0
      BY <1>10, <2>1, WorldFields DEF Payments0
    <2>3. w.pay[p] = c /\ \A x \in Payments : x # p => w.pay[x] = v.pay[x]
      BY <2>1, <2>2 DEF Payments0
    <2>4. w \in Worlds
      <3>1. (settled < needed) \in BOOLEAN
        OBVIOUS
      <3>. QED
        BY <1>3, <1>7, <1>12, <1>15, <2>1, <2>2, <3>1 DEF Worlds, Payments0
    <2>5. Dec * v.bank["escrow"][Akt] <= Dec * w.bank["escrow"][Akt] + settled
      <3>. DEFINE x == v.bank["escrow"][Akt]
                  y == b["escrow"][Akt]
      <3>1. x \in Int /\ y \in Int /\ coins \in Int /\ x - coins \in Int /\ x - coins <= y
        BY <1>0, <1>11, <1>12
      <3>. HIDE DEF x, y
      <3>2. Dec * (x - coins) = Dec * x - Dec * coins /\ Dec * x \in Int
        BY <3>1, Distributes
      <3>3. Dec * y \in Int /\ (x - coins <= y => Dec * (x - coins) <= Dec * y)
        BY <3>1, Distributes
      <3>4. Dec * x <= Dec * y + settled
        BY <1>4, <1>11, <3>1, <3>2, <3>3
      <3>. QED
        BY <2>1, <3>4 DEF x, y
    <2>6. Safe(v, w)
      <3>1. \A q \in Payments : w.pay[q].balance = v.pay[q].balance
        BY <1>10, <2>3
      <3>. QED
        BY <1>7, <1>8, <1>12, <1>13, <2>1, <2>4, <2>5, <3>1
    <2>. QED
      BY <1>4, <1>7, <1>9, <1>10, <2>1, <2>3, <2>4, <2>6 DEF w, needed, PaysInAkt
  <1>. QED
    BY <1>14, <1>15

-----------------------------------------------------------------------------
(* The payments a settlement collects *)

Order == 1..Len(PaymentOrder)

LEMMA InOrder ==
    /\ PaymentOrder \in Seq(Payments) /\ Len(PaymentOrder) \in Nat
    /\ \A i \in Order : PaymentOrder[i] \in Payments
    /\ \A p \in Payments : \E i \in Order : PaymentOrder[i] = p
    /\ \A i, j \in Order : PaymentOrder[i] = PaymentOrder[j] => i = j
  <1>1. PaymentOrder \in Seq(Payments) /\ IsInjective(PaymentOrder)
    BY EscrowAssumption
  <1>2. \A p \in Payments : \E i \in Order : PaymentOrder[i] = p
    BY <1>1 DEF Payments, ToSet, Order
  <1>. QED
    BY <1>1, <1>2 DEF IsInjective, Order

LEMMA CollectType ==
    ASSUME NEW due \in Seq(Payments), NEW p \in Payments, NEW a, NEW states
    PROVE  Collect(due, p, a, states) \in Seq(Payments)
  BY DEF Collect

\* What every payment keeps, the collection keeps.
LEMMA CollectKeeps ==
    ASSUME NEW a,
           NEW states,
           NEW Good, <<>> \in Good[0],
           \A i \in 1..Len(PaymentOrder) : \A v \in Seq(Payments) :
                v \in Good[i - 1] => Collect(v, PaymentOrder[i], a, states) \in Good[i]
    PROVE  Collected(a, states) \in Good[Len(PaymentOrder)] /\ Collected(a, states) \in Seq(Payments)
  <1>. DEFINE n == Len(PaymentOrder)
              base == <<>>
              step == [v \in Seq(Payments) |-> [i \in 1..n |-> Collect(v, PaymentOrder[i], a, states)]]
              E(h) == h = [s \in SUBSET (1..n) |->
                              IF s = {} THEN base
                              ELSE Collect(h[s \ {Max(s)}], PaymentOrder[Max(s)], a, states)]
              k == CHOOSE h : E(h)
  <1>1. n \in Nat /\ DOMAIN PaymentOrder = 1..n
    OBVIOUS
  <1>2. base \in Seq(Payments) /\ step \in [Seq(Payments) -> [1..n -> Seq(Payments)]]
    BY InOrder, CollectType DEF Order
  <1>3. Collected(a, states) = k[1..n]
    BY <1>1 DEF Collected, FoldLeft, MapThenFoldSet
  <1>4. ASSUME NEW v \in Seq(Payments), NEW i \in 1..n PROVE step[v][i] = Collect(v, PaymentOrder[i], a, states)
    OBVIOUS
  <1>. HIDE DEF n, base, step
  <1>5. ASSUME NEW g \in [SUBSET (1..n) -> Seq(Payments)], IsFold(g, base, step, n)
        PROVE  TakesSteps(k, base, step, n, Seq(Payments))
    <2>1. \A s \in SUBSET (1..n) : s # {} => Max(s) \in 1..n
      BY <1>1, MaxIn
    <2>2. E(g)
      <3>1. ASSUME NEW s \in SUBSET (1..n), s # {}
            PROVE  g[s] = Collect(g[s \ {Max(s)}], PaymentOrder[Max(s)], a, states)
        <4>1. g[s] = step[g[s \ {Max(s)}]][Max(s)]
          BY <1>5, <3>1 DEF IsFold
        <4>2. g[s \ {Max(s)}] \in Seq(Payments)
          OBVIOUS
        <4>. QED
          BY <1>4, <2>1, <3>1, <4>1, <4>2
      <3>2. g[{}] = base /\ g = [s \in SUBSET (1..n) |-> g[s]]
        BY <1>5 DEF IsFold
      <3>. QED
        BY <3>1, <3>2
    <2>3. E(k)
      <3>. HIDE DEF E
      <3>. QED
        BY <2>2
    <2>. HIDE DEF k
    <2>4. k[{}] = base
      BY <2>3
    <2>5. ASSUME NEW s \in SUBSET (1..n), s # {}, k[s \ {Max(s)}] \in Seq(Payments)
          PROVE  k[s] = step[k[s \ {Max(s)}]][Max(s)]
      <3>1. k[s] = Collect(k[s \ {Max(s)}], PaymentOrder[Max(s)], a, states)
        BY <2>3, <2>5
      <3>. HIDE DEF E
      <3>. QED
        BY <1>4, <2>1, <2>5, <3>1
    <2>. HIDE DEF E
    <2>. QED
      BY <2>4, <2>5 DEF TakesSteps
  <1>. HIDE DEF E, k
  <1>6. base \in Good[0] /\ \A i \in 1..n : \A v \in Seq(Payments) : v \in Good[i - 1] => step[v][i] \in Good[i]
    BY <1>4 DEF n, base
  <1>7. k[1..n] \in Good[n] /\ k[1..n] \in Seq(Payments)
    <2>1. IsTheFold(k, base, step, n, Seq(Payments))
      BY <1>5 DEF IsTheFold
    <2>2. StepsKeep(Good, base, step, n, Seq(Payments))
      BY <1>6 DEF StepsKeep
    <2>. QED
      BY <1>1, <1>2, <2>1, <2>2, FoldKeeps
  <1>. QED
    BY <1>3, <1>7 DEF n

\* A list that names no payment twice, all collected by one account.
Lists(due, a) ==
    /\ due \in Seq(Payments)
    /\ \A i \in 1..Len(due) : due[i] \in Scope(a)
    /\ \A i, j \in 1..Len(due) : due[i] = due[j] => i = j

LEMMA AppendLists ==
    ASSUME NEW a, NEW due, Lists(due, a), NEW p \in Payments, p \in Scope(a),
           \A i \in 1..Len(due) : due[i] # p
    PROVE  /\ Lists(Append(due, p), a)
           /\ \A q : q \in ToSet(Append(due, p)) <=> q \in ToSet(due) \/ q = p
  <1>. DEFINE more == Append(due, p)
              n == Len(due)
  <1>1. /\ due \in Seq(Payments) /\ n \in Nat
        /\ more \in Seq(Payments) /\ Len(more) = n + 1 /\ more[n + 1] = p
        /\ \A i \in 1..n : more[i] = due[i]
    BY DEF Lists
  <1>2. 1..Len(more) = (1..n) \cup {n + 1}
    BY <1>1
  <1>. HIDE DEF more
  <1>3. ASSUME NEW i \in 1..Len(more) PROVE more[i] \in Scope(a)
    BY <1>1, <1>2 DEF Lists
  <1>4. ASSUME NEW i \in 1..Len(more), NEW j \in 1..Len(more), more[i] = more[j] PROVE i = j
    BY <1>1, <1>2, <1>4 DEF Lists
  <1>5. \A q : q \in ToSet(more) <=> q \in ToSet(due) \/ q = p
    BY <1>1, <1>2 DEF ToSet
  <1>. QED
    BY <1>1, <1>3, <1>4, <1>5 DEF Lists, more

LEMMA CollectedIs ==
    ASSUME NEW a, NEW states
    PROVE  /\ Lists(Collected(a, states), a)
           /\ \A p \in Payments :
                p \in ToSet(Collected(a, states)) <=> p \in Scope(a) /\ pay[p].state \in states
  <1>. DEFINE n == Len(PaymentOrder)
              Fits(p) == p \in Scope(a) /\ pay[p].state \in states
              P(due, i) ==
                 /\ Lists(due, a)
                 /\ \A p \in Payments :
                       p \in ToSet(due) <=> Fits(p) /\ \E j \in 1..i : PaymentOrder[j] = p
              Good == [i \in 0..n |-> {due \in Seq(Payments) : P(due, i)}]
  <1>1. n \in Nat /\ \A i \in 1..n : i - 1 \in 0..n /\ i \in 0..n
    BY InOrder
  <1>2. <<>> \in Good[0]
    <2>1. P(<<>>, 0)
      BY DEF Lists, ToSet
    <2>. QED
      BY <1>1, <2>1
  <1>3. ASSUME NEW i \in 1..n, NEW due \in Seq(Payments), P(due, i - 1)
        PROVE  P(Collect(due, PaymentOrder[i], a, states), i)
    <2>. DEFINE q == PaymentOrder[i]
    <2>1. q \in Payments
      BY InOrder DEF Order
    <2>2. 1..i = (1..(i - 1)) \cup {i} /\ \A j \in 1..(i - 1) : j \in Order /\ j # i
      BY <1>1 DEF Order
    <2>3. ~\E j \in 1..(i - 1) : PaymentOrder[j] = q
      BY <2>2, InOrder DEF Order
    <2>4. CASE Fits(q)
      <3>1. Collect(due, q, a, states) = Append(due, q)
        BY <2>4 DEF Collect, Scope
      <3>2. q \notin ToSet(due)
        BY <1>3, <2>1, <2>3
      <3>3. \A j \in 1..Len(due) : due[j] # q
        BY <3>2 DEF ToSet
      <3>. HIDE DEF Fits
      <3>4. /\ Lists(Append(due, q), a)
            /\ \A p : p \in ToSet(Append(due, q)) <=> p \in ToSet(due) \/ p = q
        <4>1. Lists(due, a) /\ q \in Scope(a)
          BY <1>3, <2>4 DEF Fits
        <4>. HIDE DEF q
        <4>. QED
          BY <2>1, <3>3, <4>1, AppendLists
      <3>. QED
        BY <1>3, <2>1, <2>2, <2>4, <3>1, <3>4
    <2>5. CASE ~Fits(q)
      <3>1. Collect(due, q, a, states) = due
        BY <2>1, <2>5 DEF Collect, Scope
      <3>. HIDE DEF Fits
      <3>. QED
        BY <1>3, <2>2, <2>5, <3>1
    <2>. QED
      BY <2>4, <2>5
  <1>. HIDE DEF P
  <1>4. \A i \in 1..n : \A due \in Seq(Payments) :
            due \in Good[i - 1] => Collect(due, PaymentOrder[i], a, states) \in Good[i]
    <2>1. ASSUME NEW i \in 1..n, NEW due \in Seq(Payments), due \in Good[i - 1]
          PROVE  Collect(due, PaymentOrder[i], a, states) \in Good[i]
      <3>1. P(due, i - 1)
        BY <1>1, <2>1
      <3>2. Collect(due, PaymentOrder[i], a, states) \in Seq(Payments)
        BY InOrder, CollectType DEF Order
      <3>. QED
        BY <1>1, <1>3, <3>1, <3>2
    <2>. QED
      BY <2>1
  <1>. HIDE DEF Good
  <1>5. Collected(a, states) \in Good[n]
    BY <1>2, <1>4, CollectKeeps
  <1>6. P(Collected(a, states), n)
    BY <1>1, <1>5 DEF Good
  <1>. QED
    BY <1>6, InOrder DEF P, Order

LEMMA JoinLists ==
    ASSUME NEW a, NEW s, NEW t, Lists(s, a), Lists(t, a),
           \A p \in Payments : p \in ToSet(s) => p \notin ToSet(t)
    PROVE  /\ Lists(s \o t, a)
           /\ \A p : p \in ToSet(s \o t) <=> p \in ToSet(s) \/ p \in ToSet(t)
  <1>. DEFINE u == s \o t
              m == Len(s)
              n == Len(t)
  <1>1. /\ s \in Seq(Payments) /\ t \in Seq(Payments) /\ m \in Nat /\ n \in Nat
        /\ u \in Seq(Payments) /\ Len(u) = m + n
        /\ \A i \in 1..m : u[i] = s[i]
        /\ \A i \in 1..(m + n) : i > m => u[i] = t[i - m]
    BY DEF Lists
  <1>. HIDE DEF u, m, n
  <1>2. ASSUME NEW i \in 1..(m + n), i > m PROVE i - m \in 1..n
    BY <1>1, <1>2
  <1>3. ASSUME NEW i \in 1..m PROVE u[i] \in ToSet(s) /\ s[i] \in Payments
    BY <1>1 DEF ToSet, m
  <1>4. ASSUME NEW i \in 1..(m + n), i > m PROVE u[i] \in ToSet(t)
    BY <1>1, <1>2, <1>4 DEF ToSet, n
  <1>5. ASSUME NEW i \in 1..(m + n) PROVE u[i] \in Scope(a)
    <2>1. CASE i <= m
      BY <1>1, <2>1 DEF Lists, m
    <2>2. CASE i > m
      <3>1. i - m \in 1..Len(t) /\ u[i] = t[i - m]
        BY <1>1, <1>2, <2>2 DEF n
      <3>2. \A j \in 1..Len(t) : t[j] \in Scope(a)
        BY DEF Lists
      <3>. QED
        BY <3>1, <3>2
    <2>. QED
      BY <1>1, <2>1, <2>2
  <1>6. ASSUME NEW i \in 1..(m + n), NEW j \in 1..(m + n), u[i] = u[j] PROVE i = j
    <2>1. CASE i <= m /\ j <= m
      BY <1>1, <1>6, <2>1 DEF Lists, m
    <2>2. CASE i > m /\ j > m
      <3>1. i - m \in 1..n /\ j - m \in 1..n /\ t[i - m] = t[j - m]
        BY <1>1, <1>2, <1>6, <2>2
      <3>2. i - m = j - m
        BY <3>1 DEF Lists, n
      <3>. QED
        BY <1>1, <3>2
    <2>3. CASE i <= m /\ j > m
      <3>1. u[i] \in ToSet(s) /\ u[i] \in Payments /\ u[j] \in ToSet(t)
        BY <1>1, <1>3, <1>4, <2>3
      <3>. QED
        BY <1>6, <3>1
    <2>4. CASE i > m /\ j <= m
      <3>1. u[j] \in ToSet(s) /\ u[j] \in Payments /\ u[i] \in ToSet(t)
        BY <1>1, <1>3, <1>4, <2>4
      <3>. QED
        BY <1>6, <3>1
    <2>. QED
      BY <1>1, <2>1, <2>2, <2>3, <2>4
  <1>7. ASSUME NEW p PROVE p \in ToSet(u) <=> p \in ToSet(s) \/ p \in ToSet(t)
    <2>1. ASSUME NEW i \in 1..n PROVE i + m \in 1..(m + n) /\ u[i + m] = t[i]
      <3>1. i + m \in 1..(m + n) /\ i + m > m /\ (i + m) - m = i
        BY <1>1
      <3>2. u[i + m] = t[(i + m) - m]
        BY <1>1, <3>1
      <3>. QED
        BY <3>1, <3>2
    <2>2. ASSUME NEW i \in 1..m PROVE i \in 1..(m + n) /\ u[i] = s[i]
      BY <1>1
    <2>3. ASSUME NEW i \in 1..(m + n) PROVE u[i] \in ToSet(s) \/ u[i] \in ToSet(t)
      BY <1>1, <1>3, <1>4
    <2>4. /\ ToSet(u) = {u[i] : i \in 1..(m + n)} /\ ToSet(s) = {s[i] : i \in 1..m}
          /\ ToSet(t) = {t[i] : i \in 1..n}
      <3>1. DOMAIN u = 1..(m + n) /\ DOMAIN s = 1..m /\ DOMAIN t = 1..n
        BY <1>1 DEF m, n
      <3>. QED
        BY <3>1 DEF ToSet
    <2>5. ASSUME p \in ToSet(u) PROVE p \in ToSet(s) \/ p \in ToSet(t)
      BY <2>3, <2>4, <2>5
    <2>6. ASSUME p \in ToSet(s) PROVE p \in ToSet(u)
      BY <2>2, <2>4, <2>6
    <2>7. ASSUME p \in ToSet(t) PROVE p \in ToSet(u)
      BY <2>1, <2>4, <2>7
    <2>. QED
      BY <2>5, <2>6, <2>7
  <1>. QED
    BY <1>1, <1>5, <1>6, <1>7 DEF Lists, u

\* What a settlement charges: the overdrawn payments the account collects and,
\* when blocks have passed, the open ones.
DueOf(a, blocks) ==
    Collected(a, {"overdrawn"}) \o (IF blocks = 0 THEN <<>> ELSE Collected(a, {"open"}))

LEMMA DueIs ==
    ASSUME NEW a, NEW blocks
    PROVE  /\ Lists(DueOf(a, blocks), a)
           /\ \A p \in Payments :
                p \in ToSet(DueOf(a, blocks)) <=>
                    /\ p \in Scope(a)
                    /\ pay[p].state = "overdrawn" \/ (blocks # 0 /\ pay[p].state = "open")
  <1>. DEFINE s == Collected(a, {"overdrawn"})
              t == IF blocks = 0 THEN <<>> ELSE Collected(a, {"open"})
  <1>1. /\ Lists(s, a)
        /\ \A p \in Payments : p \in ToSet(s) <=> p \in Scope(a) /\ pay[p].state = "overdrawn"
    BY CollectedIs
  <1>2. /\ Lists(t, a)
        /\ \A p \in Payments :
              p \in ToSet(t) <=> p \in Scope(a) /\ blocks # 0 /\ pay[p].state = "open"
    <2>1. CASE blocks = 0
      BY <2>1 DEF Lists, ToSet
    <2>2. CASE blocks # 0
      BY <2>2, CollectedIs
    <2>. QED
      BY <2>1, <2>2
  <1>3. DueOf(a, blocks) = s \o t
    BY DEF DueOf
  <1>. HIDE DEF s, t
  <1>4. \A p \in Payments : p \in ToSet(s) => p \notin ToSet(t)
    BY <1>1, <1>2
  <1>5. /\ Lists(s \o t, a)
        /\ \A p : p \in ToSet(s \o t) <=> p \in ToSet(s) \/ p \in ToSet(t)
    BY <1>1, <1>2, <1>4, JoinLists
  <1>. QED
    BY <1>1, <1>2, <1>3, <1>5

-----------------------------------------------------------------------------
(* The charges of a settlement *)

Tellers == {v \in Worlds : Told(v.acc)}

LEMMA OwedType ==
    ASSUME pay \in Payments0, NEW p \in Payments, NEW blocks \in Nat
    PROVE  /\ Owed(p, blocks) \in Nat
           /\ pay[p].state = "overdrawn" => Owed(p, blocks) = pay[p].unsettled
           /\ pay[p].state # "overdrawn" => Owed(p, blocks) <= pay[p].rate * blocks
           /\ pay[p].rate * blocks \in Nat
  <1>1. pay[p].rate \in Nat /\ pay[p].unsettled \in Nat
    BY DEF Payments0, PaymentType
  <1>. DEFINE x == pay[p].rate * blocks
  <1>2. x \in Nat
    BY <1>1
  <1>3. Owed(p, blocks) = IF pay[p].state = "overdrawn" THEN pay[p].unsettled ELSE Dec * Coins(x)
    BY DEF Owed
  <1>. HIDE DEF x
  <1>4. Dec * Coins(x) <= x /\ Dec * Coins(x) \in Nat
    BY <1>2, Units
  <1>. QED
    BY <1>1, <1>2, <1>3, <1>4 DEF x

LEMMA ChargeType ==
    ASSUME pay \in Payments0, NEW v \in Tellers, NEW p \in Payments, NEW blocks \in Nat
    PROVE  ChargePayment(v, p, Owed(p, blocks)) \in Tellers
  <1>1. v \in Worlds /\ Told(v.acc) /\ Owed(p, blocks) \in Nat
    BY OwedType DEF Tellers
  <1>. DEFINE w == ChargePayment(v, p, Owed(p, blocks))
  <1>2. w \in Worlds /\ Safe(v, w)
    BY <1>1, ChargeEffect
  <1>. HIDE DEF w
  <1>. QED
    BY <1>1, <1>2 DEF Safe, Tellers, w

LEMMA DueTypes ==
    ASSUME NEW w \in Tellers
    PROVE  w.due \in Seq(Payments) /\ \A i \in 1..Len(w.due) : w.due[i] \in Payments
  BY WorldFields DEF Tellers

\* What every charge keeps, the charges keep.
LEMMA ChargesKeep ==
    ASSUME pay \in Payments0,
           NEW w \in Tellers,
           NEW blocks \in Nat,
           NEW Good, w \in Good[0],
           \A i \in 1..Len(w.due) : \A v \in Tellers :
                v \in Good[i - 1] => ChargePayment(v, w.due[i], Owed(w.due[i], blocks)) \in Good[i]
    PROVE  ChargeDue(w, blocks) \in Good[Len(w.due)] /\ ChargeDue(w, blocks) \in Tellers
  <1>. DEFINE n == Len(w.due)
              base == w
              step == [v \in Tellers |-> [i \in 1..n |-> ChargePayment(v, w.due[i], Owed(w.due[i], blocks))]]
              E(h) == h = [s \in SUBSET (1..n) |->
                              IF s = {} THEN base
                              ELSE ChargePayment(h[s \ {Max(s)}], w.due[Max(s)], Owed(w.due[Max(s)], blocks))]
              k == CHOOSE h : E(h)
  <1>1. n \in Nat /\ DOMAIN w.due = 1..n
    OBVIOUS
  <1>2. base \in Tellers /\ step \in [Tellers -> [1..n -> Tellers]]
    BY DueTypes, ChargeType
  <1>3. ChargeDue(w, blocks) = k[1..n]
    BY <1>1 DEF ChargeDue, FoldLeft, MapThenFoldSet
  <1>4. ASSUME NEW v \in Tellers, NEW i \in 1..n PROVE step[v][i] = ChargePayment(v, w.due[i], Owed(w.due[i], blocks))
    OBVIOUS
  <1>. HIDE DEF n, base, step
  <1>5. ASSUME NEW g \in [SUBSET (1..n) -> Tellers], IsFold(g, base, step, n)
        PROVE  TakesSteps(k, base, step, n, Tellers)
    <2>1. \A s \in SUBSET (1..n) : s # {} => Max(s) \in 1..n
      BY <1>1, MaxIn
    <2>2. E(g)
      <3>1. ASSUME NEW s \in SUBSET (1..n), s # {}
            PROVE  g[s] = ChargePayment(g[s \ {Max(s)}], w.due[Max(s)], Owed(w.due[Max(s)], blocks))
        <4>1. g[s] = step[g[s \ {Max(s)}]][Max(s)]
          BY <1>5, <3>1 DEF IsFold
        <4>2. g[s \ {Max(s)}] \in Tellers
          OBVIOUS
        <4>. QED
          BY <1>4, <2>1, <3>1, <4>1, <4>2
      <3>2. g[{}] = base /\ g = [s \in SUBSET (1..n) |-> g[s]]
        BY <1>5 DEF IsFold
      <3>. QED
        BY <3>1, <3>2
    <2>3. E(k)
      <3>. HIDE DEF E
      <3>. QED
        BY <2>2
    <2>. HIDE DEF k
    <2>4. k[{}] = base
      BY <2>3
    <2>5. ASSUME NEW s \in SUBSET (1..n), s # {}, k[s \ {Max(s)}] \in Tellers
          PROVE  k[s] = step[k[s \ {Max(s)}]][Max(s)]
      <3>1. k[s] = ChargePayment(k[s \ {Max(s)}], w.due[Max(s)], Owed(w.due[Max(s)], blocks))
        BY <2>3, <2>5
      <3>. HIDE DEF E
      <3>. QED
        BY <1>4, <2>1, <2>5, <3>1
    <2>. HIDE DEF E
    <2>. QED
      BY <2>4, <2>5 DEF TakesSteps
  <1>. HIDE DEF E, k
  <1>6. base \in Good[0] /\ \A i \in 1..n : \A v \in Tellers : v \in Good[i - 1] => step[v][i] \in Good[i]
    BY <1>4 DEF n, base
  <1>7. k[1..n] \in Good[n] /\ k[1..n] \in Tellers
    <2>1. IsTheFold(k, base, step, n, Tellers)
      BY <1>5 DEF IsTheFold
    <2>2. StepsKeep(Good, base, step, n, Tellers)
      BY <1>6 DEF StepsKeep
    <2>. QED
      BY <1>1, <1>2, <2>1, <2>2, FoldKeeps
  <1>. QED
    BY <1>3, <1>7 DEF n

\* What the payments in D are owed.
Part(P, D, a) == SumOf([p \in Scope(a) |-> IF p \in D THEN P[p].unsettled ELSE 0])
Unsettled(P, S) == SumOf([p \in S |-> P[p].unsettled])

\* Two lists of payments that tell no other payment apart.
OnlyAt(q, P, Q) == \A x \in Payments : x # q => Q[x] = P[x]

Adds(E, D, q) == E = D \cup {q}
Grows(x, y, by) == x \in Nat /\ by \in Nat /\ y = x + by

LEMMA PartGrows ==
    ASSUME NEW P \in Payments0, NEW Q \in Payments0, NEW D, NEW E, NEW a, NEW q \in Scope(a),
           q \notin D, Adds(E, D, q), OnlyAt(q, P, Q)
    PROVE  Grows(Part(P, D, a), Part(Q, E, a), Q[q].unsettled)
  <1>. DEFINE S == Scope(a)
              f == [p \in S |-> IF p \in D THEN P[p].unsettled ELSE 0]
              g == [p \in S |-> IF p \in E THEN Q[p].unsettled ELSE 0]
  <1>1. S \subseteq Payments /\ q \in S
    BY DEF Scope
  <1>2. IsFiniteSet(S)
    BY <1>1, PaymentsFinite, FS_Subset
  <1>3. \A p \in S : P[p].unsettled \in Nat /\ Q[p].unsettled \in Nat
    BY <1>1 DEF Payments0, PaymentType
  <1>4. /\ \A p \in S : f[p] \in Nat /\ g[p] \in Nat /\ (p # q => f[p] = g[p])
        /\ f[q] = 0 /\ g[q] = Q[q].unsettled
    BY <1>1, <1>3 DEF OnlyAt, Adds
  <1>5. Part(P, D, a) = Total(f, S) /\ Part(Q, E, a) = Total(g, S)
    <2>1. DOMAIN f = S /\ DOMAIN g = S
      OBVIOUS
    <2>. QED
      BY <2>1, SumOfIsTotal DEF Part
  <1>6. q \in S /\ Q[q].unsettled \in Nat
    BY <1>1, <1>3
  <1>. HIDE DEF f, g, S
  <1>7. Total(f, S) \in Nat /\ Total(g, S) \in Nat
    BY <1>2, <1>4, TotalNat
  <1>8. Total(g, S) = Total(f, S) - f[q] + g[q]
    <2>1. \A y \in S : f[y] \in Int /\ g[y] \in Int
      BY <1>4
    <2>2. \A y \in S : y # q => f[y] = g[y]
      BY <1>4
    <2>. QED
      BY <1>2, <1>6, <2>1, <2>2, TotalChange
  <1>. QED
    BY <1>4, <1>5, <1>6, <1>7, <1>8 DEF Grows

LEMMA PartEmpty ==
    ASSUME NEW P, NEW a
    PROVE  Part(P, {}, a) = 0
  <1>. DEFINE S == Scope(a)
              f == [p \in S |-> IF p \in {} THEN P[p].unsettled ELSE 0]
  <1>1. S \subseteq Payments
    BY DEF Scope
  <1>2. IsFiniteSet(S)
    BY <1>1, PaymentsFinite, FS_Subset
  <1>3. (\A p \in S : f[p] = 0) /\ DOMAIN f = S
    OBVIOUS
  <1>4. Part(P, {}, a) = Total(f, S)
    BY <1>3, SumOfIsTotal DEF Part
  <1>. HIDE DEF f, S
  <1>. QED
    BY <1>2, <1>3, <1>4, TotalZero

LEMMA PartWhole ==
    ASSUME NEW P, NEW D, NEW a, \A p \in Scope(a) : p \in D \/ P[p].unsettled = 0
    PROVE  Part(P, D, a) = Unsettled(P, Scope(a))
  <1>1. [p \in Scope(a) |-> IF p \in D THEN P[p].unsettled ELSE 0]
          = [p \in Scope(a) |-> P[p].unsettled]
    OBVIOUS
  <1>. QED
    BY <1>1 DEF Part, Unsettled

\* What the rate of a payment allows by now.
Allowed(r) == r.rate * (height - r.since)

LEMMA ChargeTypes ==
    ASSUME height \in Nat, NEW r \in PaymentType
    PROVE  /\ Charge(r) \in Int /\ Allowed(r) \in Int
           /\ r.unsettled \in Nat /\ r.rate \in Nat /\ r.since \in Nat /\ r.balance \in Nat
  <1>1. /\ r.unsettled \in Nat /\ r.rate \in Nat /\ r.since \in Nat /\ r.balance \in Nat
        /\ r.withdrawn \in Int
    BY DEF PaymentType
  <1>2. Dec * r.withdrawn \in Int
    BY <1>1, Scaled
  <1>3. height - r.since \in Int
    BY <1>1
  <1>4. Allowed(r) \in Int
    BY <1>1, <1>3 DEF Allowed
  <1>. QED
    BY <1>1, <1>2, <1>4 DEF Charge

\* Something is owed only to payments that are overdrawn.
Owing(P) == \A p \in Payments : P[p].unsettled > 0 => P[p].state = "overdrawn"

\* Only the account of the payment collects it.
Alone(p) == Untouched(AccountOf[p])

\* The account and the payments it collects before the charges.
Ready(w, a, blocks) ==
    /\ w \in Tellers /\ w.pay = pay /\ w.due = DueOf(a, blocks)
    /\ ~w.overdrawn /\ w.acc.funds[Prim] >= 0
    /\ Owing(pay)
    /\ \A p \in Scope(a) : Alone(p) =>
        /\ Charge(pay[p]) <= Allowed(pay[p])
        /\ pay[p].state = "open" /\ blocks # 0 =>
              Charge(pay[p]) + pay[p].rate * blocks <= Allowed(pay[p])

\* What the charges leave of one payment.
Settled(v, p) ==
    /\ v.pay[p].rate = pay[p].rate /\ v.pay[p].since = pay[p].since
    /\ v.pay[p].unsettled > 0 => v.pay[p].state = "overdrawn"
    /\ ~v.overdrawn => v.pay[p].unsettled = 0
    /\ Alone(p) => Charge(v.pay[p]) <= Allowed(v.pay[p])

\* No payment has less than before.
Earns(P, Q) == \A p \in Payments : P[p].balance <= Q[p].balance

\* What the charges, and the fallback after them, leave of the account.
Charges(w, v, a) ==
    /\ v \in Tellers /\ Safe(w, v) /\ v.due = w.due
    /\ v.acc.state = w.acc.state /\ v.acc.settledAt = w.acc.settledAt
    /\ v.overdrawn => v.acc.funds[Prim] < 0
    /\ \A p \in Payments : p \notin Scope(a) => v.pay[p] = pay[p]
    /\ \A p \in Scope(a) :
        Settled(v, p) /\ (v.pay[p].unsettled > 0 => p \in ToSet(w.due))
    /\ Unsettled(v.pay, Scope(a)) <= Debt(v.acc)
    /\ Earns(pay, v.pay)

LEMMA ChargeSettles ==
    ASSUME pay \in Payments0, height \in Nat, NEW a, NEW blocks \in Nat, NEW w, Ready(w, a, blocks),
           NEW v \in Tellers, NEW p \in ToSet(w.due), v.pay[p] = pay[p]
    PROVE  Settled(ChargePayment(v, p, Owed(p, blocks)), p)
  <1>. DEFINE owed == Owed(p, blocks)
              x == ChargePayment(v, p, owed)
              q == x.pay[p]
  <1>1. /\ p \in Payments /\ p \in Scope(a)
        /\ pay[p].state = "overdrawn" \/ (blocks # 0 /\ pay[p].state = "open")
    <2>1. p \in Payments
      BY WorldFields DEF Ready, Tellers, ToSet
    <2>. QED
      BY <2>1, DueIs DEF Ready
  <1>2. v \in Worlds /\ Told(v.acc) /\ owed \in Nat
    BY <1>1, OwedType DEF Tellers
  <1>3. /\ x \in Worlds
        /\ q.rate = pay[p].rate /\ q.since = pay[p].since
        /\ q.state = IF q.unsettled > 0 THEN "overdrawn" ELSE "open"
        /\ Charge(q) = Charge(pay[p]) - pay[p].unsettled + owed
        /\ x.overdrawn <=> (v.overdrawn \/ q.unsettled > 0)
    BY <1>1, <1>2, ChargeEffect
  <1>. HIDE DEF x
  <1>4. q \in PaymentType /\ pay[p] \in PaymentType
    BY <1>1, <1>3, WorldFields DEF Payments0
  <1>5. q.unsettled \in Nat /\ Charge(pay[p]) \in Int /\ pay[p].unsettled \in Nat
        /\ Allowed(pay[p]) \in Int
    BY <1>4, ChargeTypes
  <1>6. Allowed(q) = Allowed(pay[p])
    BY <1>3 DEF Allowed
  <1>7. ASSUME Alone(p) PROVE Charge(q) <= Allowed(pay[p])
    <2>1. /\ pay[p].unsettled > 0 => pay[p].state = "overdrawn"
          /\ Charge(pay[p]) <= Allowed(pay[p])
          /\ pay[p].state = "open" /\ blocks # 0 =>
                Charge(pay[p]) + pay[p].rate * blocks <= Allowed(pay[p])
      BY <1>1, <1>7 DEF Ready, Owing
    <2>. DEFINE y == pay[p].rate * blocks
    <2>2. /\ pay[p].state = "overdrawn" => owed = pay[p].unsettled
          /\ pay[p].state # "overdrawn" => owed <= y
          /\ y \in Nat
      BY <1>1, OwedType
    <2>. HIDE DEF owed, y
    <2>3. CASE pay[p].state = "overdrawn"
      BY <1>3, <1>5, <2>1, <2>2, <2>3
    <2>4. CASE pay[p].state = "open" /\ blocks # 0
      <3>1. pay[p].unsettled = 0 /\ owed <= y /\ Charge(pay[p]) + y <= Allowed(pay[p])
        BY <1>5, <2>1, <2>2, <2>4 DEF y
      <3>. QED
        BY <1>2, <1>3, <1>5, <2>2, <3>1
    <2>. QED
      BY <1>1, <2>3, <2>4
  <1>8. ~x.overdrawn => q.unsettled = 0
    BY <1>3, <1>5
  <1>. QED
    BY <1>3, <1>6, <1>7, <1>8 DEF Settled, x

LEMMA ChargeDueEffect ==
    ASSUME pay \in Payments0, height \in Nat, NEW a, NEW blocks \in Nat, NEW w, Ready(w, a, blocks)
    PROVE  Charges(w, ChargeDue(w, blocks), a)
  <1>. DEFINE due == w.due
              n == Len(due)
              Upto(i) == {due[j] : j \in 1..i}
              Done(v, i) ==
                 /\ Safe(w, v) /\ v.due = w.due
                 /\ v.acc.state = w.acc.state /\ v.acc.settledAt = w.acc.settledAt
                 /\ v.overdrawn => v.acc.funds[Prim] < 0
                 /\ \A p \in Payments : p \notin Upto(i) => v.pay[p] = pay[p]
                 /\ \A p \in Upto(i) : Settled(v, p)
                 /\ Part(v.pay, Upto(i), a) <= Debt(v.acc)
                 /\ Earns(pay, v.pay)
              Good == [i \in 0..n |-> {v \in Tellers : Done(v, i)}]
              r == ChargeDue(w, blocks)
  <1>1. /\ w \in Tellers /\ w \in Worlds /\ Told(w.acc) /\ w.pay = pay /\ due = DueOf(a, blocks)
        /\ ~w.overdrawn /\ w.acc.funds[Prim] >= 0 /\ w.acc.funds[Prim] \in Int
    BY WorldFields DEF Ready, Tellers, Denoms
  <1>2. /\ n \in Nat /\ Lists(due, a)
        /\ \A i \in 1..n : i - 1 \in 0..n /\ i \in 0..n
        /\ \A i \in 1..n : due[i] \in ToSet(due) /\ due[i] \in Payments /\ due[i] \in Scope(a)
    <2>1. Lists(due, a)
      BY <1>1, DueIs
    <2>. QED
      BY <2>1 DEF Lists, ToSet
  <1>3. w \in Good[0]
    <2>1. Upto(0) = {}
      OBVIOUS
    <2>2. Part(w.pay, {}, a) = 0 /\ Debt(w.acc) = 0
      BY <1>1, PartEmpty DEF Debt
    <2>. HIDE DEF Upto
    <2>3. Earns(pay, w.pay)
      BY <1>1 DEF Earns, Payments0, PaymentType
    <2>4. Done(w, 0)
      BY <1>1, <2>1, <2>2, <2>3, SafeChains
    <2>. HIDE DEF Done
    <2>. QED
      BY <1>1, <1>2, <2>4
  <1>4. ASSUME NEW i \in 1..n, NEW v \in Tellers, Done(v, i - 1)
        PROVE  Done(ChargePayment(v, due[i], Owed(due[i], blocks)), i)
    <2>. DEFINE p == due[i]
                owed == Owed(p, blocks)
                x == ChargePayment(v, p, owed)
                C == Upto(i - 1)
                B == Upto(i)
    <2>1. p \in Payments /\ p \in Scope(a) /\ p \in ToSet(due)
      BY <1>2 DEF Scope
    <2>2. p \notin C /\ B = C \cup {p}
      <3>1. 1..i = (1..(i - 1)) \cup {i} /\ \A j \in 1..(i - 1) : j \in 1..n /\ j # i
        BY <1>2
      <3>. QED
        BY <3>1, <1>2 DEF Lists
    <2>3. v \in Worlds /\ Told(v.acc) /\ owed \in Nat
      BY <2>1, OwedType DEF Tellers
    <2>4. v.pay[p] = pay[p]
      BY <1>4, <2>1, <2>2
    <2>. HIDE DEF owed, p, B, C, Upto
    <2>5. /\ x \in Worlds /\ Safe(v, x)
          /\ x.due = v.due /\ x.acc.state = v.acc.state /\ x.acc.settledAt = v.acc.settledAt
          /\ x.acc.funds[Prim] <= v.acc.funds[Prim]
          /\ \A y \in Payments : y # p => x.pay[y] = v.pay[y]
          /\ Debt(x.acc) = Debt(v.acc) + x.pay[p].unsettled
          /\ x.overdrawn <=> (v.overdrawn \/ x.pay[p].unsettled > 0)
          /\ x.pay[p].unsettled > 0 => x.acc.funds[Prim] < 0
          /\ v.pay[p].balance <= x.pay[p].balance
      BY <2>1, <2>3, ChargeEffect
    <2>6. Settled(x, p)
      BY <2>1, <2>4, ChargeSettles DEF owed
    <2>. HIDE DEF x
    <2>7. x.acc.funds[Prim] \in Int /\ v.acc.funds[Prim] \in Int
      BY <2>3, <2>5, WorldFields DEF Denoms
    <2>8. Safe(w, x)
      BY <1>1, <1>4, <2>3, <2>5, SafeChains
    <2>9. x.overdrawn => x.acc.funds[Prim] < 0
      BY <1>4, <2>5, <2>7
    <2>10. \A y \in Payments : y \notin Upto(i) => x.pay[y] = pay[y]
      BY <1>4, <2>2, <2>5 DEF B, C
    <2>11. \A y \in Upto(i) : Settled(x, y)
      <3>1. ASSUME NEW y \in C, y # p PROVE Settled(x, y)
        <4>1. y \in Payments
          BY <1>2, <3>1 DEF C, Upto
        <4>2. Settled(v, y) /\ x.pay[y] = v.pay[y]
          BY <1>4, <2>5, <3>1, <4>1 DEF C
        <4>3. ~x.overdrawn => ~v.overdrawn
          BY <2>5
        <4>. QED
          BY <4>2, <4>3 DEF Settled
      <3>. QED
        BY <2>2, <2>6, <3>1 DEF B
    <2>12. Part(x.pay, Upto(i), a) <= Debt(x.acc)
      <3>1. v.pay \in Payments0 /\ x.pay \in Payments0
        BY <2>3, <2>5, WorldFields
      <3>2. Grows(Part(v.pay, C, a), Part(x.pay, B, a), x.pay[p].unsettled)
        <4>. DEFINE V == v.pay
                    X == x.pay
        <4>1. V \in Payments0 /\ X \in Payments0 /\ OnlyAt(p, V, X)
          BY <2>5, <3>1 DEF OnlyAt
        <4>. HIDE DEF V, X
        <4>2. Grows(Part(V, C, a), Part(X, B, a), X[p].unsettled)
          <5>1. p \in Scope(a) /\ p \notin C /\ Adds(B, C, p)
            BY <2>1, <2>2 DEF Adds
          <5>. QED
            BY <4>1, <5>1, PartGrows
        <4>. QED
          BY <4>2 DEF V, X
      <3>3. Debt(v.acc) \in Int /\ Part(v.pay, C, a) <= Debt(v.acc)
        BY <1>4, <2>7 DEF Debt, C
      <3>. QED
        BY <2>2, <2>5, <3>2, <3>3 DEF B, Grows
    <2>13. /\ x.due = w.due
           /\ x.acc.state = w.acc.state /\ x.acc.settledAt = w.acc.settledAt
      BY <1>4, <2>5
    <2>14. Earns(pay, x.pay)
      <3>1. ASSUME NEW y \in Payments PROVE pay[y].balance <= x.pay[y].balance
        <4>1. pay[y].balance <= v.pay[y].balance
          BY <1>4 DEF Earns
        <4>. QED
          BY <2>4, <2>5, <4>1
      <3>. QED
        BY <3>1 DEF Earns
    <2>15. Done(x, i)
      BY <2>8, <2>9, <2>10, <2>11, <2>12, <2>13, <2>14
    <2>. QED
      BY <2>15 DEF x, p, owed
  <1>. HIDE DEF Done
  <1>5. \A i \in 1..n : \A v \in Tellers :
            v \in Good[i - 1] => ChargePayment(v, due[i], Owed(due[i], blocks)) \in Good[i]
    <2>1. ASSUME NEW i \in 1..n, NEW v \in Tellers, v \in Good[i - 1]
          PROVE  ChargePayment(v, due[i], Owed(due[i], blocks)) \in Good[i]
      <3>1. Done(v, i - 1)
        BY <1>2, <2>1
      <3>2. ChargePayment(v, due[i], Owed(due[i], blocks)) \in Tellers
        BY <1>2, ChargeType
      <3>. QED
        BY <1>2, <1>4, <3>1, <3>2
    <2>. QED
      BY <2>1
  <1>. HIDE DEF Good
  <1>6. r \in Good[n] /\ r \in Tellers
    BY <1>1, <1>3, <1>5, ChargesKeep
  <1>7. Done(r, n)
    BY <1>2, <1>6 DEF Good
  <1>. HIDE DEF r
  <1>8. \A p \in Payments : p \in Upto(n) <=> p \in ToSet(due)
    BY <1>2 DEF Lists, ToSet
  <1>9. ASSUME NEW p \in Scope(a) PROVE Settled(r, p) /\ (p \in Upto(n) \/ r.pay[p].unsettled = 0)
    <2>1. p \in Payments /\ p \in Scope(a)
      BY DEF Scope
    <2>2. CASE p \in Upto(n)
      BY <1>7, <2>2 DEF Done
    <2>3. CASE p \notin Upto(n)
      <3>1. r.pay[p] = pay[p]
        BY <1>7, <2>1, <2>3 DEF Done
      <3>2. pay[p].state # "overdrawn"
        BY <1>1, <1>8, <2>1, <2>3, DueIs
      <3>3. pay[p].unsettled \in Nat
        BY <2>1 DEF Payments0, PaymentType
      <3>4. pay[p].unsettled = 0 /\ (Alone(p) => Charge(pay[p]) <= Allowed(pay[p]))
        BY <2>1, <3>2, <3>3 DEF Ready, Owing
      <3>. QED
        BY <3>1, <3>4 DEF Settled
    <2>. QED
      BY <2>2, <2>3
  <1>10. Unsettled(r.pay, Scope(a)) <= Debt(r.acc)
    <2>1. Part(r.pay, Upto(n), a) <= Debt(r.acc)
      BY <1>7 DEF Done
    <2>. HIDE DEF Upto
    <2>. QED
      BY <1>9, <2>1, PartWhole
  <1>11. \A p \in Payments : p \notin Scope(a) => r.pay[p] = pay[p]
    BY <1>2, <1>7 DEF Done
  <1>12. \A p \in Scope(a) : r.pay[p].unsettled > 0 => p \in ToSet(due)
    BY <1>8, <1>9 DEF Scope
  <1>13. Charges(w, r, a)
    BY <1>6, <1>7, <1>9, <1>10, <1>11, <1>12 DEF Charges, Done
  <1>. QED
    BY <1>13 DEF r

-----------------------------------------------------------------------------
(* The uakt fallback of a settlement *)

LEMMA FallbackStep ==
    ASSUME NEW v \in Tellers, NEW p \in Payments, NEW price \in Nat \ {0}
    PROVE  LET w == FallbackNext(v, p, price)
           IN  w \in Tellers /\ PaysInAkt(v, w, p)
  <1>. DEFINE w == FallbackNext(v, p, price)
  <1>1. v \in Worlds /\ Told(v.acc)
    BY DEF Tellers
  <1>2. w \in Worlds /\ PaysInAkt(v, w, p)
    <2>1. CASE v.exhausted \/ v.pay[p].state # "overdrawn" \/ v.pay[p].unsettled = 0
      <3>1. w = v
        BY <2>1 DEF FallbackNext
      <3>. QED
        BY <1>1, <3>1, PaysNothing
    <2>2. CASE ~(v.exhausted \/ v.pay[p].state # "overdrawn" \/ v.pay[p].unsettled = 0)
      <3>1. w = FallbackPayment(v, p, price, v.pay[p].unsettled \div price)
        BY <2>2 DEF FallbackNext
      <3>. QED
        BY <1>1, <3>1, FallbackEffect
    <2>. QED
      BY <2>1, <2>2
  <1>. HIDE DEF w
  <1>. QED
    BY <1>1, <1>2 DEF PaysInAkt, Safe, Tellers, w

\* What every payment in uakt keeps, the fallback keeps.
LEMMA FallbackKeeps ==
    ASSUME NEW w \in Tellers,
           NEW price \in Nat \ {0},
           NEW Good, w \in Good[0],
           \A i \in 1..Len(w.due) : \A v \in Tellers :
                v \in Good[i - 1] => FallbackNext(v, w.due[i], price) \in Good[i]
    PROVE  FallbackDue(w, price) \in Good[Len(w.due)] /\ FallbackDue(w, price) \in Tellers
  <1>. DEFINE n == Len(w.due)
              base == w
              step == [v \in Tellers |-> [i \in 1..n |-> FallbackNext(v, w.due[i], price)]]
              E(h) == h = [s \in SUBSET (1..n) |->
                              IF s = {} THEN base
                              ELSE FallbackNext(h[s \ {Max(s)}], w.due[Max(s)], price)]
              k == CHOOSE h : E(h)
  <1>1. n \in Nat /\ DOMAIN w.due = 1..n
    OBVIOUS
  <1>2. base \in Tellers /\ step \in [Tellers -> [1..n -> Tellers]]
    BY DueTypes, FallbackStep
  <1>3. FallbackDue(w, price) = k[1..n]
    BY <1>1 DEF FallbackDue, FoldLeft, MapThenFoldSet
  <1>4. ASSUME NEW v \in Tellers, NEW i \in 1..n PROVE step[v][i] = FallbackNext(v, w.due[i], price)
    OBVIOUS
  <1>. HIDE DEF n, base, step
  <1>5. ASSUME NEW g \in [SUBSET (1..n) -> Tellers], IsFold(g, base, step, n)
        PROVE  TakesSteps(k, base, step, n, Tellers)
    <2>1. \A s \in SUBSET (1..n) : s # {} => Max(s) \in 1..n
      BY <1>1, MaxIn
    <2>2. E(g)
      <3>1. ASSUME NEW s \in SUBSET (1..n), s # {}
            PROVE  g[s] = FallbackNext(g[s \ {Max(s)}], w.due[Max(s)], price)
        <4>1. g[s] = step[g[s \ {Max(s)}]][Max(s)]
          BY <1>5, <3>1 DEF IsFold
        <4>2. g[s \ {Max(s)}] \in Tellers
          OBVIOUS
        <4>. QED
          BY <1>4, <2>1, <3>1, <4>1, <4>2
      <3>2. g[{}] = base /\ g = [s \in SUBSET (1..n) |-> g[s]]
        BY <1>5 DEF IsFold
      <3>. QED
        BY <3>1, <3>2
    <2>3. E(k)
      <3>. HIDE DEF E
      <3>. QED
        BY <2>2
    <2>. HIDE DEF k
    <2>4. k[{}] = base
      BY <2>3
    <2>5. ASSUME NEW s \in SUBSET (1..n), s # {}, k[s \ {Max(s)}] \in Tellers
          PROVE  k[s] = step[k[s \ {Max(s)}]][Max(s)]
      <3>1. k[s] = FallbackNext(k[s \ {Max(s)}], w.due[Max(s)], price)
        BY <2>3, <2>5
      <3>. HIDE DEF E
      <3>. QED
        BY <1>4, <2>1, <2>5, <3>1
    <2>. HIDE DEF E
    <2>. QED
      BY <2>4, <2>5 DEF TakesSteps
  <1>. HIDE DEF E, k
  <1>6. base \in Good[0] /\ \A i \in 1..n : \A v \in Tellers : v \in Good[i - 1] => step[v][i] \in Good[i]
    BY <1>4 DEF n, base
  <1>7. k[1..n] \in Good[n] /\ k[1..n] \in Tellers
    <2>1. IsTheFold(k, base, step, n, Tellers)
      BY <1>5 DEF IsTheFold
    <2>2. StepsKeep(Good, base, step, n, Tellers)
      BY <1>6 DEF StepsKeep
    <2>. QED
      BY <1>1, <1>2, <2>1, <2>2, FoldKeeps
  <1>. QED
    BY <1>3, <1>7 DEF n
AtMostThen(y, x) == y \in Nat /\ x \in Nat /\ y <= x

LEMMA UnsettledFalls ==
    ASSUME NEW P \in Payments0, NEW Q \in Payments0, NEW a, NEW q \in Scope(a),
           OnlyAt(q, P, Q), Q[q].unsettled <= P[q].unsettled
    PROVE  AtMostThen(Unsettled(Q, Scope(a)), Unsettled(P, Scope(a)))
  <1>. DEFINE S == Scope(a)
              f == [p \in S |-> P[p].unsettled]
              g == [p \in S |-> Q[p].unsettled]
  <1>1. S \subseteq Payments /\ q \in S
    BY DEF Scope
  <1>2. IsFiniteSet(S)
    BY <1>1, PaymentsFinite, FS_Subset
  <1>3. \A p \in S : P[p].unsettled \in Nat /\ Q[p].unsettled \in Nat
    BY <1>1 DEF Payments0, PaymentType
  <1>4. /\ \A p \in S : f[p] \in Nat /\ g[p] \in Nat /\ (p # q => f[p] = g[p])
        /\ g[q] <= f[q]
    BY <1>1, <1>3 DEF OnlyAt
  <1>5. Unsettled(P, Scope(a)) = Total(f, S) /\ Unsettled(Q, Scope(a)) = Total(g, S)
    <2>1. DOMAIN f = S /\ DOMAIN g = S
      OBVIOUS
    <2>. QED
      BY <2>1, SumOfIsTotal DEF Unsettled
  <1>. HIDE DEF f, g, S
  <1>7. Total(f, S) \in Nat /\ Total(g, S) \in Nat
    BY <1>2, <1>4, TotalNat
  <1>8. Total(g, S) = Total(f, S) - f[q] + g[q]
    <2>1. \A y \in S : f[y] \in Int /\ g[y] \in Int
      BY <1>4
    <2>2. \A y \in S : y # q => f[y] = g[y]
      BY <1>4
    <2>. QED
      BY <1>1, <1>2, <2>1, <2>2, TotalChange
  <1>9. f[q] \in Nat /\ g[q] \in Nat /\ g[q] <= f[q]
    BY <1>1, <1>4
  <1>10. Total(g, S) <= Total(f, S)
    BY <1>7, <1>8, <1>9
  <1>. QED
    BY <1>5, <1>7, <1>10 DEF AtMostThen

LEMMA FallbackCharges ==
    ASSUME pay \in Payments0, height \in Nat, NEW a, NEW w \in Worlds,
           NEW v, Charges(w, v, a), v.overdrawn, Prim # Akt,
           NEW p \in Scope(a), NEW price \in Nat \ {0}
    PROVE  LET x == FallbackNext(v, p, price) IN Charges(w, x, a) /\ x.overdrawn
  <1>. DEFINE x == FallbackNext(v, p, price)
  <1>1. v \in Tellers /\ v \in Worlds /\ p \in Payments /\ p \in Scope(a)
    BY DEF Charges, Tellers, Scope
  <1>2. x \in Tellers /\ PaysInAkt(v, x, p)
    BY <1>1, FallbackStep
  <1>. HIDE DEF x
  <1>3. x \in Worlds
    BY <1>2 DEF Tellers
  <1>4. Safe(w, x)
    <2>1. Safe(w, v) /\ Safe(v, x)
      BY <1>2 DEF Charges, PaysInAkt
    <2>. QED
      BY <1>1, <1>3, <2>1, SafeChains
  <1>5. /\ x.due = w.due /\ x.acc.state = w.acc.state /\ x.acc.settledAt = w.acc.settledAt
        /\ x.acc.funds[Prim] = v.acc.funds[Prim] /\ x.overdrawn /\ v.acc.funds[Prim] < 0
    BY <1>2 DEF Charges, PaysInAkt
  <1>6. \A y \in Payments : y # p => x.pay[y] = v.pay[y]
    BY <1>2 DEF PaysInAkt
  <1>7. ASSUME NEW y \in Scope(a) PROVE Settled(x, y) /\ (x.pay[y].unsettled > 0 => y \in ToSet(w.due))
    <2>1. Settled(v, y) /\ y \in Payments /\ (v.pay[y].unsettled > 0 => y \in ToSet(w.due))
      BY DEF Charges, Scope
    <2>2. CASE y # p
      BY <1>5, <1>6, <2>1, <2>2 DEF Settled
    <2>3. CASE y = p
      <3>1. /\ x.pay[p].rate = v.pay[p].rate /\ x.pay[p].since = v.pay[p].since
            /\ x.pay[p].unsettled <= v.pay[p].unsettled /\ Charge(x.pay[p]) <= Charge(v.pay[p])
            /\ x.pay[p].unsettled > 0 => x.pay[p].state = v.pay[p].state
        BY <1>2 DEF PaysInAkt
      <3>2. x.pay[p] \in PaymentType /\ v.pay[p] \in PaymentType
        BY <1>1, <1>3, WorldFields DEF Payments0
      <3>3. /\ x.pay[p].unsettled \in Nat /\ v.pay[p].unsettled \in Nat
            /\ Charge(x.pay[p]) \in Int /\ Charge(v.pay[p]) \in Int /\ Allowed(v.pay[p]) \in Int
        BY <3>2, ChargeTypes
      <3>4. Allowed(x.pay[p]) = Allowed(v.pay[p])
        BY <3>1 DEF Allowed
      <3>5. Alone(p) => Charge(x.pay[p]) <= Allowed(x.pay[p])
        BY <2>1, <2>3, <3>1, <3>3, <3>4 DEF Settled
      <3>6. x.pay[p].unsettled > 0 => v.pay[p].unsettled > 0
        BY <3>1, <3>3
      <3>. QED
        BY <1>5, <2>1, <2>3, <3>1, <3>5, <3>6 DEF Settled
    <2>. QED
      BY <2>2, <2>3
  <1>8. Unsettled(x.pay, Scope(a)) <= Debt(x.acc)
    <2>1. v.pay \in Payments0 /\ x.pay \in Payments0 /\ OnlyAt(p, v.pay, x.pay)
          /\ x.pay[p].unsettled <= v.pay[p].unsettled
      BY <1>1, <1>2, <1>3, <1>6, WorldFields DEF OnlyAt, PaysInAkt
    <2>2. AtMostThen(Unsettled(x.pay, Scope(a)), Unsettled(v.pay, Scope(a)))
      BY <2>1, UnsettledFalls
    <2>3. Debt(x.acc) = Debt(v.acc) /\ Debt(v.acc) \in Int
      <3>1. v.acc.funds[Prim] \in Int
        BY <1>1, WorldFields DEF Denoms
      <3>. QED
        BY <1>5, <3>1 DEF Debt
    <2>4. Unsettled(v.pay, Scope(a)) <= Debt(v.acc)
      BY DEF Charges
    <2>. QED
      BY <2>2, <2>3, <2>4 DEF AtMostThen
  <1>9. \A y \in Payments : y \notin Scope(a) => x.pay[y] = pay[y]
    BY <1>1, <1>6 DEF Charges
  <1>10. Earns(pay, x.pay)
    <2>1. ASSUME NEW y \in Payments PROVE pay[y].balance <= x.pay[y].balance
      <3>1. pay[y].balance <= v.pay[y].balance
        BY DEF Charges, Earns
      <3>. QED
        BY <1>2, <1>6, <3>1 DEF PaysInAkt
    <2>. QED
      BY <2>1 DEF Earns
  <1>11. Charges(w, x, a) /\ x.overdrawn
    BY <1>2, <1>4, <1>5, <1>7, <1>8, <1>9, <1>10 DEF Charges
  <1>. QED
    BY <1>11 DEF x

LEMMA FallbackDone ==
    ASSUME pay \in Payments0, height \in Nat, NEW a, NEW w \in Worlds, Lists(w.due, a),
           NEW v, Charges(w, v, a), NEW price \in Nat
    PROVE  Charges(w, Fallback(v, price), a)
  <1>. DEFINE n == Len(v.due)
              Kept == {x \in Tellers : Charges(w, x, a) /\ x.overdrawn}
              Good == [i \in 0..n |-> Kept]
  <1>1. v \in Tellers /\ v \in Worlds /\ v.due = w.due
    BY DEF Charges, Tellers
  <1>2. CASE ~v.overdrawn \/ price = 0 \/ v.acc.funds[Akt] <= 0
    BY <1>2 DEF Fallback
  <1>3. CASE ~(~v.overdrawn \/ price = 0 \/ v.acc.funds[Akt] <= 0)
    <2>1. Fallback(v, price) = FallbackDue(v, price) /\ price \in Nat \ {0} /\ v.overdrawn
      BY <1>3 DEF Fallback
    <2>2. Prim # Akt
      <3>1. v.acc.funds[Prim] < 0 /\ v.acc.funds[Prim] \in Int
        BY <1>1, <2>1, WorldFields DEF Charges, Denoms
      <3>. QED
        BY <1>3, <3>1
    <2>3. /\ n \in Nat /\ \A i \in 1..n : v.due[i] \in Scope(a)
      BY <1>1 DEF Lists, Scope
    <2>4. ASSUME NEW x \in Kept, NEW p \in Scope(a)
          PROVE  FallbackNext(x, p, price) \in Kept
      <3>1. Charges(w, x, a) /\ x.overdrawn
        BY <2>4
      <3>2. Charges(w, FallbackNext(x, p, price), a) /\ FallbackNext(x, p, price).overdrawn
        BY <2>1, <2>2, <3>1, FallbackCharges
      <3>. QED
        BY <3>2 DEF Charges
    <2>5. v \in Kept
      BY <1>1, <2>1
    <2>. HIDE DEF Kept
    <2>6. 0 \in 0..n /\ n \in 0..n /\ \A i \in 1..n : i \in 0..n /\ i - 1 \in 0..n
      BY <2>3
    <2>7. /\ v \in Good[0] /\ \A i \in 1..n : \A x \in Tellers :
                x \in Good[i - 1] => FallbackNext(x, v.due[i], price) \in Good[i]
      BY <2>3, <2>4, <2>5, <2>6
    <2>. HIDE DEF Good
    <2>8. FallbackDue(v, price) \in Good[n]
      BY <1>1, <2>1, <2>7, FallbackKeeps
    <2>9. FallbackDue(v, price) \in Kept
      BY <2>6, <2>8 DEF Good
    <2>. QED
      BY <2>1, <2>9 DEF Kept
  <1>. QED
    BY <1>2, <1>3

-----------------------------------------------------------------------------
(* The end of a settlement *)

LEMMA ClosePaysOut ==
    ASSUME NEW v \in Worlds, NEW a, NEW p \in Scope(a)
    PROVE  ClosePayment(v, p) \in Worlds /\ PaysOut(v, ClosePayment(v, p), a)
  <1>. DEFINE w == IF v.pay[p].state = "open" THEN [v EXCEPT !.pay[p].state = "closed"] ELSE v
  <1>1. p \in Payments /\ p \in Scope(a)
    BY DEF Scope
  <1>2. w \in Worlds /\ PaysOut(v, w, a)
    <2>1. CASE v.pay[p].state # "open"
      <3>1. w = v
        BY <2>1
      <3>. QED
        BY <3>1, PaysOutChains
    <2>2. CASE v.pay[p].state = "open"
      <3>. DEFINE q == [v.pay[p] EXCEPT !.state = "closed"]
      <3>1. v.pay \in Payments0 /\ v.pay[p] \in PaymentType
        BY <1>1, WorldFields DEF Payments0
      <3>2. /\ q \in PaymentType /\ q.state = "closed" /\ q.rate = v.pay[p].rate
            /\ q.since = v.pay[p].since /\ q.unsettled = v.pay[p].unsettled
            /\ q.balance = v.pay[p].balance /\ q.withdrawn = v.pay[p].withdrawn
        BY <3>1 DEF PaymentType, States
      <3>3. /\ w.pay = [v.pay EXCEPT ![p] = q] /\ w.acc = v.acc /\ w.grant = v.grant
            /\ w.bank = v.bank /\ w.due = v.due /\ w.overdrawn = v.overdrawn
        BY <2>2 DEF Worlds
      <3>. HIDE DEF q
      <3>4. w.pay \in Payments0
        BY <1>1, <3>1, <3>2, <3>3 DEF Payments0
      <3>5. w \in Worlds
        BY <2>2, <3>3, <3>4 DEF Worlds, Payments0
      <3>. HIDE DEF w
      <3>6. w.pay[p] = q /\ \A x \in Payments : x # p => w.pay[x] = v.pay[x]
        BY <1>1, <3>1, <3>3 DEF Payments0
      <3>7. Balances(w.pay) = Balances(v.pay)
        <4>1. \A x \in Payments : w.pay[x].balance = v.pay[x].balance
          BY <3>2, <3>6
        <4>. QED
          BY <3>1, <4>1, BalancesSame
      <3>8. Safe(v, w)
        <4>1. ASSUME NEW d \in Denoms PROVE Room(w, d) = Room(v, d) /\ Room(v, d) \in Int
          BY <3>3, <3>7, SafeTypes DEF Room, Held
        <4>2. ASSUME NEW d \in Denoms PROVE Room(v, d) <= Room(w, d)
          BY <4>1
        <4>3. ASSUME NEW g, NEW d \in Denoms PROVE Exposed(w, g, d) <= Exposed(v, g, d)
          BY <3>3, SafeTypes DEF Exposed
        <4>. QED
          BY <3>3, <4>2, <4>3 DEF Safe
      <3>9. Charge(w.pay[p]) = Charge(v.pay[p])
        BY <3>2, <3>6 DEF Charge
      <3>. QED
        BY <1>1, <2>2, <3>2, <3>3, <3>5, <3>6, <3>8, <3>9 DEF PaysOut
    <2>. QED
      BY <2>1, <2>2
  <1>3. ClosePayment(v, p) = Withdraw(w, p)
    BY DEF ClosePayment
  <1>. HIDE DEF w
  <1>4. Withdraw(w, p) \in Worlds /\ PaysOut(w, Withdraw(w, p), a)
    BY <1>2, WithdrawPaysOut
  <1>. QED
    BY <1>2, <1>3, <1>4, PaysOutChains

LEMMA DueInWorlds ==
    ASSUME NEW w \in Worlds
    PROVE  w.due \in Seq(Payments) /\ \A i \in 1..Len(w.due) : w.due[i] \in Payments
  BY WorldFields

LEMMA EachPaysOut ==
    ASSUME NEW v \in Worlds, NEW p \in Payments
    PROVE  Withdraw(v, p) \in Worlds /\ ClosePayment(v, p) \in Worlds
  <1>1. p \in Scope(AccountOf[p])
    BY EscrowAssumption DEF Scope
  <1>. QED
    BY <1>1, WithdrawPaysOut, ClosePaysOut

\* What every payout keeps, the payouts keep.
LEMMA WithdrawDueKeeps ==
    ASSUME NEW w \in Worlds,
           NEW Good, w \in Good[0],
           \A i \in 1..Len(w.due) : \A v \in Worlds :
                v \in Good[i - 1] => Withdraw(v, w.due[i]) \in Good[i]
    PROVE  WithdrawDue(w) \in Good[Len(w.due)] /\ WithdrawDue(w) \in Worlds
  <1>. DEFINE n == Len(w.due)
              base == w
              step == [v \in Worlds |-> [i \in 1..n |-> Withdraw(v, w.due[i])]]
              E(h) == h = [s \in SUBSET (1..n) |->
                              IF s = {} THEN base
                              ELSE Withdraw(h[s \ {Max(s)}], w.due[Max(s)])]
              k == CHOOSE h : E(h)
  <1>1. n \in Nat /\ DOMAIN w.due = 1..n
    OBVIOUS
  <1>2. base \in Worlds /\ step \in [Worlds -> [1..n -> Worlds]]
    BY DueInWorlds, EachPaysOut
  <1>3. WithdrawDue(w) = k[1..n]
    BY <1>1 DEF WithdrawDue, FoldLeft, MapThenFoldSet
  <1>4. ASSUME NEW v \in Worlds, NEW i \in 1..n PROVE step[v][i] = Withdraw(v, w.due[i])
    OBVIOUS
  <1>. HIDE DEF n, base, step
  <1>5. ASSUME NEW g \in [SUBSET (1..n) -> Worlds], IsFold(g, base, step, n)
        PROVE  TakesSteps(k, base, step, n, Worlds)
    <2>1. \A s \in SUBSET (1..n) : s # {} => Max(s) \in 1..n
      BY <1>1, MaxIn
    <2>2. E(g)
      <3>1. ASSUME NEW s \in SUBSET (1..n), s # {}
            PROVE  g[s] = Withdraw(g[s \ {Max(s)}], w.due[Max(s)])
        <4>1. g[s] = step[g[s \ {Max(s)}]][Max(s)]
          BY <1>5, <3>1 DEF IsFold
        <4>2. g[s \ {Max(s)}] \in Worlds
          OBVIOUS
        <4>. QED
          BY <1>4, <2>1, <3>1, <4>1, <4>2
      <3>2. g[{}] = base /\ g = [s \in SUBSET (1..n) |-> g[s]]
        BY <1>5 DEF IsFold
      <3>. QED
        BY <3>1, <3>2
    <2>3. E(k)
      <3>. HIDE DEF E
      <3>. QED
        BY <2>2
    <2>. HIDE DEF k
    <2>4. k[{}] = base
      BY <2>3
    <2>5. ASSUME NEW s \in SUBSET (1..n), s # {}, k[s \ {Max(s)}] \in Worlds
          PROVE  k[s] = step[k[s \ {Max(s)}]][Max(s)]
      <3>1. k[s] = Withdraw(k[s \ {Max(s)}], w.due[Max(s)])
        BY <2>3, <2>5
      <3>. HIDE DEF E
      <3>. QED
        BY <1>4, <2>1, <2>5, <3>1
    <2>. HIDE DEF E
    <2>. QED
      BY <2>4, <2>5 DEF TakesSteps
  <1>. HIDE DEF E, k
  <1>6. base \in Good[0] /\ \A i \in 1..n : \A v \in Worlds : v \in Good[i - 1] => step[v][i] \in Good[i]
    BY <1>4 DEF n, base
  <1>7. k[1..n] \in Good[n] /\ k[1..n] \in Worlds
    <2>1. IsTheFold(k, base, step, n, Worlds)
      BY <1>5 DEF IsTheFold
    <2>2. StepsKeep(Good, base, step, n, Worlds)
      BY <1>6 DEF StepsKeep
    <2>. QED
      BY <1>1, <1>2, <2>1, <2>2, FoldKeeps
  <1>. QED
    BY <1>3, <1>7 DEF n

\* What every closing keeps, the closings keep.
LEMMA CloseDueKeeps ==
    ASSUME NEW w \in Worlds,
           NEW Good, w \in Good[0],
           \A i \in 1..Len(w.due) : \A v \in Worlds :
                v \in Good[i - 1] => ClosePayment(v, w.due[i]) \in Good[i]
    PROVE  CloseDue(w) \in Good[Len(w.due)] /\ CloseDue(w) \in Worlds
  <1>. DEFINE n == Len(w.due)
              base == w
              step == [v \in Worlds |-> [i \in 1..n |-> ClosePayment(v, w.due[i])]]
              E(h) == h = [s \in SUBSET (1..n) |->
                              IF s = {} THEN base
                              ELSE ClosePayment(h[s \ {Max(s)}], w.due[Max(s)])]
              k == CHOOSE h : E(h)
  <1>1. n \in Nat /\ DOMAIN w.due = 1..n
    OBVIOUS
  <1>2. base \in Worlds /\ step \in [Worlds -> [1..n -> Worlds]]
    BY DueInWorlds, EachPaysOut
  <1>3. CloseDue(w) = k[1..n]
    BY <1>1 DEF CloseDue, FoldLeft, MapThenFoldSet
  <1>4. ASSUME NEW v \in Worlds, NEW i \in 1..n PROVE step[v][i] = ClosePayment(v, w.due[i])
    OBVIOUS
  <1>. HIDE DEF n, base, step
  <1>5. ASSUME NEW g \in [SUBSET (1..n) -> Worlds], IsFold(g, base, step, n)
        PROVE  TakesSteps(k, base, step, n, Worlds)
    <2>1. \A s \in SUBSET (1..n) : s # {} => Max(s) \in 1..n
      BY <1>1, MaxIn
    <2>2. E(g)
      <3>1. ASSUME NEW s \in SUBSET (1..n), s # {}
            PROVE  g[s] = ClosePayment(g[s \ {Max(s)}], w.due[Max(s)])
        <4>1. g[s] = step[g[s \ {Max(s)}]][Max(s)]
          BY <1>5, <3>1 DEF IsFold
        <4>2. g[s \ {Max(s)}] \in Worlds
          OBVIOUS
        <4>. QED
          BY <1>4, <2>1, <3>1, <4>1, <4>2
      <3>2. g[{}] = base /\ g = [s \in SUBSET (1..n) |-> g[s]]
        BY <1>5 DEF IsFold
      <3>. QED
        BY <3>1, <3>2
    <2>3. E(k)
      <3>. HIDE DEF E
      <3>. QED
        BY <2>2
    <2>. HIDE DEF k
    <2>4. k[{}] = base
      BY <2>3
    <2>5. ASSUME NEW s \in SUBSET (1..n), s # {}, k[s \ {Max(s)}] \in Worlds
          PROVE  k[s] = step[k[s \ {Max(s)}]][Max(s)]
      <3>1. k[s] = ClosePayment(k[s \ {Max(s)}], w.due[Max(s)])
        BY <2>3, <2>5
      <3>. HIDE DEF E
      <3>. QED
        BY <1>4, <2>1, <2>5, <3>1
    <2>. HIDE DEF E
    <2>. QED
      BY <2>4, <2>5 DEF TakesSteps
  <1>. HIDE DEF E, k
  <1>6. base \in Good[0] /\ \A i \in 1..n : \A v \in Worlds : v \in Good[i - 1] => step[v][i] \in Good[i]
    BY <1>4 DEF n, base
  <1>7. k[1..n] \in Good[n] /\ k[1..n] \in Worlds
    <2>1. IsTheFold(k, base, step, n, Worlds)
      BY <1>5 DEF IsTheFold
    <2>2. StepsKeep(Good, base, step, n, Worlds)
      BY <1>6 DEF StepsKeep
    <2>. QED
      BY <1>1, <1>2, <2>1, <2>2, FoldKeeps
  <1>. QED
    BY <1>3, <1>7 DEF n

LEMMA DuePaysOut ==
    ASSUME NEW a, NEW w \in Worlds, Lists(w.due, a)
    PROVE  /\ WithdrawDue(w) \in Worlds /\ PaysOut(w, WithdrawDue(w), a)
           /\ CloseDue(w) \in Worlds /\ PaysOut(w, CloseDue(w), a)
  <1>. DEFINE n == Len(w.due)
              Kept == {x \in Worlds : PaysOut(w, x, a)}
              Good == [i \in 0..n |-> Kept]
  <1>1. n \in Nat /\ \A i \in 1..n : w.due[i] \in Scope(a)
    BY DEF Lists, Scope
  <1>2. w \in Kept
    BY PaysOutChains
  <1>3. ASSUME NEW x \in Kept, NEW p \in Scope(a)
        PROVE  Withdraw(x, p) \in Kept /\ ClosePayment(x, p) \in Kept
    <2>1. /\ Withdraw(x, p) \in Worlds /\ PaysOut(x, Withdraw(x, p), a)
          /\ ClosePayment(x, p) \in Worlds /\ PaysOut(x, ClosePayment(x, p), a)
      BY WithdrawPaysOut, ClosePaysOut
    <2>. QED
      BY <2>1, PaysOutChains
  <1>4. \A x \in Kept : x \in Worlds /\ PaysOut(w, x, a)
    OBVIOUS
  <1>. HIDE DEF Kept
  <1>5. 0 \in 0..n /\ n \in 0..n /\ \A i \in 1..n : i \in 0..n /\ i - 1 \in 0..n
    BY <1>1
  <1>6. /\ w \in Good[0]
        /\ \A i \in 1..n : \A x \in Worlds :
              x \in Good[i - 1] => Withdraw(x, w.due[i]) \in Good[i]
        /\ \A i \in 1..n : \A x \in Worlds :
              x \in Good[i - 1] => ClosePayment(x, w.due[i]) \in Good[i]
    BY <1>1, <1>2, <1>3, <1>5
  <1>7. \A x \in Good[n] : x \in Kept
    BY <1>5
  <1>. HIDE DEF Good
  <1>8. WithdrawDue(w) \in Good[n]
    BY <1>6, WithdrawDueKeeps
  <1>9. CloseDue(w) \in Good[n]
    BY <1>6, CloseDueKeeps
  <1>. QED
    BY <1>4, <1>7, <1>8, <1>9

LEMMA UnsettledSame ==
    ASSUME NEW P, NEW Q, NEW S, \A p \in S : Q[p].unsettled = P[p].unsettled
    PROVE  Unsettled(Q, S) = Unsettled(P, S)
  <1>1. [p \in S |-> P[p].unsettled] = [p \in S |-> Q[p].unsettled]
    OBVIOUS
  <1>. QED
    BY <1>1 DEF Unsettled

\* What a concluded settlement leaves.
Concluded(w, s, a) ==
    /\ s \in Tellers /\ Safe(w, s) /\ s.due = w.due /\ s.acc.settledAt = w.acc.settledAt
    /\ \/ s.overdrawn /\ s.acc.state = "overdrawn" /\ s.acc.funds[Prim] < 0
       \/ ~s.overdrawn /\ s.acc.state = w.acc.state
    /\ \A p \in Payments : p \notin Scope(a) => s.pay[p] = pay[p]
    /\ \A p \in Scope(a) : Settled(s, p)
    /\ Unsettled(s.pay, Scope(a)) <= Debt(s.acc)
    /\ ~s.overdrawn => Earns(pay, s.pay)

LEMMA OverdrawIs ==
    ASSUME NEW v \in Worlds
    PROVE  LET o == Overdraw(v)
           IN  /\ o \in Worlds /\ o.bank = v.bank /\ o.grant = v.grant /\ o.due = v.due
               /\ o.overdrawn = v.overdrawn /\ o.acc.state = "overdrawn"
               /\ o.acc.settledAt = v.acc.settledAt /\ o.acc.funds = v.acc.funds
               /\ o.acc.deposits = v.acc.deposits
               /\ \A p \in Payments :
                    /\ o.pay[p].rate = v.pay[p].rate /\ o.pay[p].since = v.pay[p].since
                    /\ o.pay[p].unsettled = v.pay[p].unsettled
                    /\ o.pay[p].balance = v.pay[p].balance
                    /\ Charge(o.pay[p]) = Charge(v.pay[p])
                    /\ o.pay[p].state = IF p \in ToSet(v.due) THEN "overdrawn" ELSE v.pay[p].state
                    /\ p \notin ToSet(v.due) => o.pay[p] = v.pay[p]
  <1>. DEFINE o == Overdraw(v)
              P == [p \in Payments |-> IF p \in ToSet(v.due) THEN [v.pay[p] EXCEPT !.state = "overdrawn"]
                                       ELSE v.pay[p]]
              A == [v.acc EXCEPT !.state = "overdrawn"]
  <1>1. v.acc \in AccountType /\ v.pay \in Payments0
    BY WorldFields
  <1>2. /\ A \in AccountType /\ A.state = "overdrawn" /\ A.settledAt = v.acc.settledAt
        /\ A.funds = v.acc.funds /\ A.deposits = v.acc.deposits
    BY <1>1 DEF AccountType, States
  <1>3. ASSUME NEW p \in Payments
        PROVE  /\ P[p] \in PaymentType
               /\ P[p].rate = v.pay[p].rate /\ P[p].since = v.pay[p].since
               /\ P[p].unsettled = v.pay[p].unsettled /\ P[p].balance = v.pay[p].balance
               /\ P[p].withdrawn = v.pay[p].withdrawn
               /\ P[p].state = IF p \in ToSet(v.due) THEN "overdrawn" ELSE v.pay[p].state
               /\ p \notin ToSet(v.due) => P[p] = v.pay[p]
    <2>1. v.pay[p] \in PaymentType
      BY <1>1 DEF Payments0
    <2>. QED
      BY <2>1 DEF PaymentType, States
  <1>4. P \in Payments0
    BY <1>3 DEF Payments0
  <1>5. o = [v EXCEPT !.acc = A, !.pay = P]
    BY <1>1 DEF Overdraw, Worlds
  <1>. HIDE DEF A, P, o
  <1>6. /\ o \in Worlds /\ o.acc = A /\ o.pay = P /\ o.bank = v.bank /\ o.grant = v.grant
        /\ o.due = v.due /\ o.overdrawn = v.overdrawn
    BY <1>2, <1>4, <1>5 DEF Worlds, Payments0
  <1>7. \A p \in Payments : Charge(o.pay[p]) = Charge(v.pay[p])
    BY <1>3, <1>6 DEF Charge
  <1>. QED
    BY <1>2, <1>3, <1>6, <1>7 DEF o

LEMMA SameRecord ==
    ASSUME NEW v \in Worlds, NEW w \in Worlds, w.bank = v.bank, w.grant = v.grant,
           w.acc.deposits = v.acc.deposits, w.acc.funds = v.acc.funds,
           \A p \in Payments : w.pay[p].balance = v.pay[p].balance
    PROVE  Safe(v, w)
  <1>1. Balances(w.pay) = Balances(v.pay)
    BY WorldFields, BalancesSame
  <1>2. ASSUME NEW d \in Denoms PROVE Room(w, d) = Room(v, d) /\ Room(v, d) \in Int
    BY <1>1, SafeTypes DEF Room, Held
  <1>3. ASSUME NEW d \in Denoms PROVE Room(v, d) <= Room(w, d)
    BY <1>2
  <1>4. ASSUME NEW g, NEW d \in Denoms PROVE Exposed(w, g, d) <= Exposed(v, g, d)
    BY SafeTypes DEF Exposed
  <1>5. Told(v.acc) => Told(w.acc)
    BY DEF Told
  <1>. QED
    BY <1>3, <1>4, <1>5 DEF Safe

LEMMA ConcludeEffect ==
    ASSUME pay \in Payments0, height \in Nat, NEW a, NEW w \in Worlds, Lists(w.due, a),
           NEW v, Charges(w, v, a)
    PROVE  Concluded(w, Conclude(v), a)
  <1>. DEFINE s == Conclude(v)
              o == Overdraw(v)
              Short == v.overdrawn /\ \E p \in ToSet(v.due) : v.pay[p].state = "overdrawn"
  <1>1. /\ v \in Tellers /\ v \in Worlds /\ Told(v.acc) /\ Safe(w, v) /\ v.due = w.due
        /\ v.acc.state = w.acc.state /\ v.acc.settledAt = w.acc.settledAt
        /\ v.overdrawn => v.acc.funds[Prim] < 0
        /\ \A p \in Payments : p \notin Scope(a) => v.pay[p] = pay[p]
        /\ Unsettled(v.pay, Scope(a)) <= Debt(v.acc)
        /\ Earns(pay, v.pay)
    BY DEF Charges, Tellers
  <1>2. \A p \in Scope(a) : /\ Settled(v, p) /\ (v.pay[p].unsettled > 0 => p \in ToSet(w.due))
                                /\ p \in Payments /\ p \in Scope(a) /\ v.pay[p].unsettled \in Nat
    BY <1>1, WorldFields, ChargeTypes DEF Charges, Scope, Payments0
  <1>3. CASE Short
    <2>1. s = WithdrawDue(o)
      BY <1>3 DEF Conclude
    <2>2. /\ o \in Worlds /\ o.bank = v.bank /\ o.grant = v.grant /\ o.due = v.due
          /\ o.overdrawn = v.overdrawn /\ o.acc.state = "overdrawn"
          /\ o.acc.settledAt = v.acc.settledAt /\ o.acc.funds = v.acc.funds
          /\ o.acc.deposits = v.acc.deposits
      BY <1>1, OverdrawIs
    <2>3. ASSUME NEW p \in Payments
          PROVE  /\ o.pay[p].rate = v.pay[p].rate /\ o.pay[p].since = v.pay[p].since
                 /\ o.pay[p].unsettled = v.pay[p].unsettled
                 /\ o.pay[p].balance = v.pay[p].balance
                 /\ Charge(o.pay[p]) = Charge(v.pay[p])
                 /\ o.pay[p].state = IF p \in ToSet(v.due) THEN "overdrawn" ELSE v.pay[p].state
                 /\ p \notin ToSet(v.due) => o.pay[p] = v.pay[p]
      BY <1>1, OverdrawIs
    <2>. HIDE DEF o
    <2>4. Safe(v, o)
      BY <1>1, <2>2, <2>3, SameRecord
    <2>5. s \in Worlds /\ PaysOut(o, s, a)
      BY <1>1, <2>1, <2>2, DuePaysOut
    <2>. HIDE DEF s
    <2>6. /\ s.acc = o.acc /\ s.due = o.due /\ s.overdrawn = o.overdrawn /\ Safe(o, s)
      BY <2>5 DEF PaysOut
    <2>7. Safe(w, s)
      <3>1. Safe(w, o)
        BY <1>1, <2>2, <2>4, SafeChains
      <3>. QED
        BY <2>2, <2>5, <2>6, <3>1, SafeChains
    <2>8. ASSUME NEW p \in Scope(a)
          PROVE  Settled(s, p) /\ s.pay[p].unsettled = v.pay[p].unsettled
      <3>1. p \in Payments /\ p \in Scope(a)
        BY <1>2
      <3>2. /\ s.pay[p].rate = o.pay[p].rate /\ s.pay[p].since = o.pay[p].since
            /\ s.pay[p].unsettled = o.pay[p].unsettled /\ Charge(s.pay[p]) = Charge(o.pay[p])
            /\ \/ s.pay[p].state = o.pay[p].state
               \/ o.pay[p].state = "open" /\ s.pay[p].state = "closed"
        BY <2>5, <3>1 DEF PaysOut
      <3>3. Allowed(s.pay[p]) = Allowed(v.pay[p])
        BY <2>3, <3>1, <3>2 DEF Allowed
      <3>4. Settled(v, p)
        BY <1>2
      <3>5. /\ s.pay[p].rate = v.pay[p].rate /\ s.pay[p].since = v.pay[p].since
            /\ s.pay[p].unsettled = v.pay[p].unsettled /\ Charge(s.pay[p]) = Charge(v.pay[p])
        BY <2>3, <3>1, <3>2
      <3>6. s.pay[p].unsettled > 0 => s.pay[p].state = "overdrawn"
        <4>1. ASSUME s.pay[p].unsettled > 0 PROVE s.pay[p].state = "overdrawn"
          <5>1. v.pay[p].state = "overdrawn"
            BY <3>4, <3>5, <4>1 DEF Settled
          <5>2. o.pay[p].state = "overdrawn"
            BY <2>3, <3>1, <5>1
          <5>. QED
            BY <3>2, <5>2
        <4>. QED
          BY <4>1
      <3>7. s.overdrawn <=> v.overdrawn
        BY <2>2, <2>6
      <3>. QED
        BY <3>3, <3>4, <3>5, <3>6, <3>7 DEF Settled
    <2>9. Unsettled(s.pay, Scope(a)) = Unsettled(v.pay, Scope(a))
      BY <2>8, UnsettledSame
    <2>10. s.acc.funds = v.acc.funds /\ Debt(s.acc) = Debt(v.acc)
      BY <2>2, <2>6 DEF Debt
    <2>11. ASSUME NEW p \in Payments, p \notin Scope(a) PROVE s.pay[p] = pay[p]
      <3>1. p \notin ToSet(v.due)
        BY <1>1, <2>11 DEF Lists, ToSet
      <3>2. s.pay[p] = o.pay[p]
        BY <2>5, <2>11 DEF PaysOut
      <3>. QED
        BY <1>1, <2>3, <2>11, <3>1, <3>2
    <2>12. s.overdrawn /\ s.acc.state = "overdrawn" /\ s.acc.funds[Prim] < 0
      BY <1>1, <1>3, <2>2, <2>6, <2>10
    <2>13. Told(s.acc)
      BY <1>1, <2>4, <2>6 DEF Safe
    <2>14. Concluded(w, s, a)
      BY <1>1, <2>2, <2>5, <2>6, <2>7, <2>8, <2>9, <2>10, <2>11, <2>12, <2>13 DEF Concluded, Tellers
    <2>. QED
      BY <2>14 DEF s
  <1>4. CASE ~Short
    <2>1. s = [v EXCEPT !.overdrawn = FALSE]
      BY <1>4 DEF Conclude
    <2>2. /\ s \in Worlds /\ s.acc = v.acc /\ s.pay = v.pay /\ s.bank = v.bank /\ s.grant = v.grant
          /\ s.due = v.due /\ ~s.overdrawn
      BY <1>1, <2>1 DEF Worlds
    <2>. HIDE DEF s
    <2>3. Safe(w, s)
      <3>1. Safe(v, s)
        BY <1>1, <2>2, SameRecord
      <3>. QED
        BY <1>1, <2>2, <3>1, SafeChains
    <2>4. ASSUME NEW p \in Scope(a) PROVE Settled(s, p)
      <3>1. v.pay[p].unsettled = 0
        <4>1. CASE ~v.overdrawn
          BY <1>2, <4>1 DEF Settled
        <4>2. CASE v.overdrawn
          <5>1. v.pay[p].unsettled > 0 => p \in ToSet(v.due) /\ v.pay[p].state = "overdrawn"
            BY <1>1, <1>2 DEF Settled
          <5>2. ~(v.pay[p].unsettled > 0)
            BY <1>4, <4>2, <5>1
          <5>. QED
            BY <1>2, <5>2
        <4>. QED
          BY <4>1, <4>2
      <3>. QED
        BY <1>2, <2>2, <3>1 DEF Settled
    <2>5. Concluded(w, s, a)
      BY <1>1, <2>2, <2>3, <2>4 DEF Concluded, Tellers
    <2>. QED
      BY <2>5 DEF s
  <1>. QED
    BY <1>3, <1>4

-----------------------------------------------------------------------------
(* accountSettle *)

\* The account and its payments when an operation settles them.
Before(w, a) ==
    /\ w \in Tellers /\ w.pay = pay /\ ~w.overdrawn /\ w.due = <<>>
    /\ w.acc.settledAt <= height
    /\ Owing(pay)
    /\ \A p \in Scope(a) : Alone(p) =>
        /\ Charge(pay[p]) <= Allowed(pay[p])
        /\ w.acc.state = "open" /\ pay[p].state = "open" =>
              Charge(pay[p]) <= pay[p].rate * (w.acc.settledAt - pay[p].since)

\* An account in debt stays as it is; otherwise its charges are settled.
Settles(w, s, a) ==
    /\ s \in Tellers /\ Safe(w, s)
    /\ w.acc.funds[Prim] < 0 =>
          s.overdrawn /\ s.due = <<>> /\ s.acc = w.acc /\ s.pay = pay
    /\ ~(w.acc.funds[Prim] < 0) =>
          /\ Lists(s.due, a)
          /\ s.acc.settledAt = IF w.acc.state = "open" THEN height ELSE w.acc.settledAt
          /\ \/ s.overdrawn /\ s.acc.state = "overdrawn" /\ s.acc.funds[Prim] < 0
             \/ ~s.overdrawn /\ s.acc.state = w.acc.state
          /\ \A p \in Payments : p \notin Scope(a) => s.pay[p] = pay[p]
          /\ \A p \in Scope(a) : Settled(s, p)
          /\ Unsettled(s.pay, Scope(a)) <= Debt(s.acc)
          /\ ~s.overdrawn => Earns(pay, s.pay)

LEMMA RateAdds ==
    ASSUME NEW rate \in Nat, NEW x \in Int, NEW y \in Int, NEW z \in Int
    PROVE  rate * (y - x) + rate * (z - y) = rate * (z - x)
  <1>1. (y - x) + (z - y) = z - x
    OBVIOUS
  <1>2. \A i, j \in Int : rate * (i + j) = rate * i + rate * j
    OBVIOUS
  <1>. DEFINE i == y - x
              j == z - y
  <1>3. i \in Int /\ j \in Int /\ i + j = z - x
    BY <1>1
  <1>. HIDE DEF i, j
  <1>4. rate * (i + j) = rate * i + rate * j
    BY <1>2, <1>3
  <1>. QED
    BY <1>3, <1>4 DEF i, j

LEMMA SettleEffect ==
    ASSUME pay \in Payments0, height \in Nat, NEW a, NEW w, Before(w, a), NEW price \in Nat
    PROVE  Settles(w, Settle(w, a, price), a)
  <1>. DEFINE s == Settle(w, a, price)
              open == w.acc.state = "open"
              blocks == IF open THEN height - w.acc.settledAt ELSE 0
              due == DueOf(a, blocks)
              started == [w EXCEPT !.acc.settledAt = IF open THEN height ELSE @, !.due = due]
  <1>1. /\ w \in Worlds /\ Told(w.acc) /\ w.acc \in AccountType /\ w.acc.settledAt \in Nat
        /\ w.acc.funds[Prim] \in Int /\ w.pay = pay /\ ~w.overdrawn /\ w.due = <<>>
        /\ w.acc.settledAt <= height
    BY WorldFields DEF Before, Tellers, AccountType, Denoms
  <1>2. s = IF w.acc.funds[Prim] < 0 THEN [w EXCEPT !.overdrawn = TRUE]
            ELSE Conclude(Fallback(ChargeDue(started, blocks), price))
    BY DEF Settle, DueOf
  <1>. HIDE DEF s
  <1>3. CASE w.acc.funds[Prim] < 0
    <2>1. /\ s \in Worlds /\ s.acc = w.acc /\ s.pay = w.pay /\ s.bank = w.bank /\ s.grant = w.grant
          /\ s.due = w.due /\ s.overdrawn
      BY <1>1, <1>2, <1>3 DEF Worlds
    <2>2. Safe(w, s)
      BY <1>1, <2>1, SameRecord
    <2>. QED
      BY <1>1, <1>3, <2>1, <2>2 DEF Settles, Tellers, s
  <1>4. CASE ~(w.acc.funds[Prim] < 0)
    <2>1. blocks \in Nat /\ (blocks # 0 => open /\ blocks = height - w.acc.settledAt)
      BY <1>1
    <2>2. Lists(due, a) /\ due \in Seq(Payments)
      BY DueIs DEF Lists
    <2>. DEFINE A == [w.acc EXCEPT !.settledAt = IF open THEN height ELSE @]
    <2>3. /\ A \in AccountType /\ A.funds = w.acc.funds /\ A.deposits = w.acc.deposits
          /\ A.state = w.acc.state
          /\ A.settledAt = IF open THEN height ELSE w.acc.settledAt
      BY <1>1 DEF AccountType
    <2>. HIDE DEF blocks, due
    <2>4. started = [w EXCEPT !.acc = A, !.due = due]
      BY <1>1 DEF Worlds, AccountType
    <2>. HIDE DEF A, started
    <2>5. /\ started \in Worlds /\ started.acc = A /\ started.due = due /\ started.pay = w.pay
          /\ started.bank = w.bank /\ started.grant = w.grant
          /\ started.overdrawn = w.overdrawn
      BY <1>1, <2>2, <2>3, <2>4 DEF Worlds
    <2>6. Safe(w, started) /\ Told(started.acc)
      <3>1. Safe(w, started)
        BY <1>1, <2>3, <2>5, SameRecord
      <3>. QED
        BY <1>1, <3>1 DEF Safe
    <2>7. Ready(started, a, blocks)
      <3>1. ASSUME NEW p \in Scope(a), Alone(p), pay[p].state = "open", blocks # 0
            PROVE  Charge(pay[p]) + pay[p].rate * blocks <= Allowed(pay[p])
        <4>1. pay[p] \in PaymentType
          BY DEF Payments0, Scope
        <4>2. pay[p].rate \in Nat /\ pay[p].since \in Nat /\ Charge(pay[p]) \in Int
              /\ Allowed(pay[p]) \in Int
          BY <4>1, ChargeTypes
        <4>. DEFINE x == pay[p].since
                    y == w.acc.settledAt
                    r == pay[p].rate
                    early == r * (y - x)
                    late == r * (height - y)
        <4>3. x \in Int /\ y \in Int /\ height \in Int /\ r \in Nat
          BY <1>1, <4>2
        <4>4. Charge(pay[p]) <= early
          BY <2>1, <3>1 DEF Before
        <4>5. pay[p].rate * blocks = late /\ Allowed(pay[p]) = r * (height - x)
          BY <2>1, <3>1 DEF Allowed
        <4>. HIDE DEF x, y, r
        <4>6. early + late = r * (height - x)
          BY <4>3, RateAdds
        <4>7. early \in Int /\ late \in Int
          BY <4>3
        <4>. HIDE DEF early, late
        <4>. QED
          BY <4>2, <4>4, <4>5, <4>6, <4>7
      <3>2. Owing(pay) /\ \A p \in Scope(a) : Alone(p) => Charge(pay[p]) <= Allowed(pay[p])
        BY DEF Before
      <3>3. started.acc.funds[Prim] >= 0
        BY <1>1, <1>4, <2>3, <2>5
      <3>. QED
        BY <1>1, <2>5, <2>6, <3>1, <3>2, <3>3 DEF Ready, Tellers, due
    <2>8. Charges(started, ChargeDue(started, blocks), a)
      BY <2>1, <2>7, ChargeDueEffect
    <2>9. Charges(started, Fallback(ChargeDue(started, blocks), price), a)
      BY <2>2, <2>5, <2>8, FallbackDone
    <2>10. Concluded(started, s, a)
      BY <1>2, <1>4, <2>2, <2>5, <2>9, ConcludeEffect
    <2>11. s \in Tellers /\ s \in Worlds /\ Safe(started, s)
      BY <2>10 DEF Concluded, Tellers
    <2>12. Safe(w, s)
      BY <1>1, <2>5, <2>6, <2>11, SafeChains
    <2>13. /\ Lists(s.due, a)
           /\ s.acc.settledAt = IF w.acc.state = "open" THEN height ELSE w.acc.settledAt
      BY <2>2, <2>3, <2>5, <2>10 DEF Concluded
    <2>14. /\ \/ s.overdrawn /\ s.acc.state = "overdrawn" /\ s.acc.funds[Prim] < 0
              \/ ~s.overdrawn /\ s.acc.state = w.acc.state
           /\ \A p \in Payments : p \notin Scope(a) => s.pay[p] = pay[p]
           /\ \A p \in Scope(a) : Settled(s, p)
           /\ Unsettled(s.pay, Scope(a)) <= Debt(s.acc)
           /\ ~s.overdrawn => Earns(pay, s.pay)
      BY <2>3, <2>5, <2>10 DEF Concluded
    <2>. QED
      BY <1>4, <2>11, <2>12, <2>13, <2>14 DEF Settles, s
  <1>. QED
    BY <1>3, <1>4

-----------------------------------------------------------------------------
(* AuthorizeDeposits *)

\* A deposit as it is authorized: of whole coins, and not of the module itself.
Whole == {dep \in Deposits : dep.owner # "escrow" /\ Dec * Coins(dep.balance) = dep.balance}
Takes == [left : Nat, grant : GrantType, deposits : Seq(Whole)]

LEMMA WholeDeposits ==
    ASSUME NEW deps \in Seq(Whole)
    PROVE  deps \in Seq(Deposits)
  <1>1. \A i \in 1..Len(deps) : deps[i] \in Deposits
    BY DEF Whole
  <1>2. Whole \subseteq Deposits
    BY DEF Whole
  <1>. QED
    BY <1>1, <1>2

LEMMA CoinsOfWhole ==
    ASSUME NEW n \in Nat \ {0}
    PROVE  /\ Dec * n \in Nat \ {0} /\ Coins(Dec * n) = n
           /\ Dec * Coins(Dec * n) = Dec * n
  <1>1. Dec \in Nat \ {0}
    BY EscrowAssumption
  <1>2. Dec * n \in Nat \ {0}
    BY <1>1
  <1>3. (Dec * n) \div Dec = n
    BY <1>1
  <1>. QED
    BY <1>2, <1>3 DEF Coins

\* x is y and what is added.
Plus(x, y, added) == x \in Int /\ y \in Int /\ added \in Int /\ x = y + added

\* One limit changes by x.
LimitMoves(g, e, pair, d, H, G, x) ==
    /\ H \in GrantType
    /\ Plus(LimitsOf(g, e, H), LimitsOf(g, e, G), IF pair[1] = g /\ e = d THEN x ELSE 0)

LEMMA LimitsChange ==
    ASSUME NEW G \in GrantType, NEW pair \in DOMAIN Limits, NEW d \in Denoms, NEW n \in Nat,
           NEW H, H = [G EXCEPT ![pair][d] = n], NEW g, NEW e \in Denoms
    PROVE  LimitMoves(g, e, pair, d, H, G, n - G[pair][d])
  <1>. DEFINE S == {x \in DOMAIN Limits : x[1] = g}
              f == [x \in S |-> G[x][e]]
              h == [x \in S |-> H[x][e]]
  <1>1. /\ H \in GrantType /\ DOMAIN G = DOMAIN Limits /\ DOMAIN H = DOMAIN Limits
        /\ \A x \in DOMAIN Limits : G[x][e] \in Nat /\ H[x][e] \in Nat
        /\ \A x \in DOMAIN Limits : x # pair => H[x][e] = G[x][e]
        /\ H[pair][e] = IF e = d THEN n ELSE G[pair][e]
    BY DEF GrantType
  <1>2. IsFiniteSet(S)
    <2>1. IsFiniteSet(DOMAIN Limits)
      BY EscrowAssumption
    <2>. QED
      BY <2>1, FS_Subset
  <1>3. LimitsOf(g, e, G) = Total(f, S) /\ LimitsOf(g, e, H) = Total(h, S)
    <2>1. DOMAIN f = S /\ DOMAIN h = S
      OBVIOUS
    <2>. QED
      BY <1>1, <2>1, SumOfIsTotal DEF LimitsOf
  <1>4. \A x \in S : f[x] \in Nat /\ h[x] \in Nat /\ (x # pair => f[x] = h[x])
    BY <1>1
  <1>5. pair \in S => f[pair] = G[pair][e] /\ h[pair] = H[pair][e]
    OBVIOUS
  <1>6. pair \in S <=> pair[1] = g
    OBVIOUS
  <1>. HIDE DEF f, h, S
  <1>7. Total(f, S) \in Nat /\ Total(h, S) \in Nat
    BY <1>2, <1>4, TotalNat
  <1>8. CASE pair \in S
    <2>1. (\A y \in S : f[y] \in Int /\ h[y] \in Int) /\ (\A y \in S : y # pair => f[y] = h[y])
      BY <1>4
    <2>2. Total(h, S) = Total(f, S) - f[pair] + h[pair]
      BY <1>2, <1>8, <2>1, TotalChange
    <2>3. f[pair] = G[pair][e] /\ h[pair] = (IF e = d THEN n ELSE G[pair][e]) /\ G[pair][e] \in Nat
      BY <1>1, <1>5, <1>8
    <2>4. CASE e = d
      BY <1>1, <1>3, <1>6, <1>7, <1>8, <2>2, <2>3, <2>4 DEF Plus, LimitMoves
    <2>5. CASE e # d
      BY <1>1, <1>3, <1>6, <1>7, <1>8, <2>2, <2>3, <2>5 DEF Plus, LimitMoves
    <2>. QED
      BY <2>4, <2>5
  <1>9. CASE pair \notin S
    <2>1. \A x \in S : f[x] = h[x]
      BY <1>4, <1>9
    <2>2. Total(f, S) = Total(h, S)
      BY <1>2, <2>1, TotalAgree
    <2>. QED
      BY <1>1, <1>3, <1>6, <1>7, <1>9, <2>2 DEF Plus, LimitMoves
  <1>. QED
    BY <1>8, <1>9

\* What a granter's limits and deposits come to while a deposit is authorized.
Spent(s, g, e) == Dec * LimitsOf(g, e, s.grant) + Tally(ByGranter(g, e), s.deposits)
Spends(s, t) == \A g : \A e \in Denoms : Spent(t, g, e) <= Spent(s, g, e)

LEMMA SpentType ==
    ASSUME NEW s \in Takes, NEW g, NEW e \in Denoms
    PROVE  /\ Spent(s, g, e) \in Int /\ LimitsOf(g, e, s.grant) \in Int
           /\ Tally(ByGranter(g, e), s.deposits) \in Int
  <1>1. s.grant \in GrantType /\ s.deposits \in Seq(Deposits)
    BY WholeDeposits DEF Takes
  <1>2. LimitsOf(g, e, s.grant) \in Int /\ Tally(ByGranter(g, e), s.deposits) \in Int
    BY <1>1, LimitsType, TallyType
  <1>3. Dec * LimitsOf(g, e, s.grant) \in Int
    BY <1>2, Scaled
  <1>. QED
    BY <1>2, <1>3 DEF Spent

LEMMA SpendsChain ==
    /\ \A s \in Takes : Spends(s, s)
    /\ \A s \in Takes, t \in Takes, u \in Takes : Spends(s, t) /\ Spends(t, u) => Spends(s, u)
  <1>1. ASSUME NEW s \in Takes PROVE Spends(s, s)
    BY SpentType DEF Spends
  <1>2. ASSUME NEW s \in Takes, NEW t \in Takes, NEW u \in Takes, Spends(s, t), Spends(t, u)
        PROVE  Spends(s, u)
    <2>1. ASSUME NEW g, NEW e \in Denoms PROVE Spent(u, g, e) <= Spent(s, g, e)
      <3>1. Spent(s, g, e) \in Int /\ Spent(t, g, e) \in Int /\ Spent(u, g, e) \in Int
        BY SpentType
      <3>2. Spent(t, g, e) <= Spent(s, g, e) /\ Spent(u, g, e) <= Spent(t, g, e)
        BY <1>2 DEF Spends
      <3>. QED
        BY <3>1, <3>2
    <2>. QED
      BY <2>1 DEF Spends
  <1>. QED
    BY <1>1, <1>2

LEMMA TakeFromGrantSpends ==
    ASSUME NEW s \in Takes, NEW granter \in ToSet(Granters), NEW signer, NEW d \in Denoms
    PROVE  LET t == TakeFromGrant(s, granter, signer, d) IN t \in Takes /\ Spends(s, t)
  <1>. DEFINE pair == <<granter, signer>>
              take == AtMost(s.grant[pair][d], s.left)
              dep == [owner |-> granter, denom |-> d, source |-> "grant", balance |-> Dec * take]
              n == s.grant[pair][d] - take
              H == [s.grant EXCEPT ![pair][d] = n]
              t == TakeFromGrant(s, granter, signer, d)
  <1>1. /\ s.left \in Nat /\ s.grant \in GrantType /\ s.deposits \in Seq(Whole)
        /\ s.deposits \in Seq(Deposits) /\ DOMAIN s.grant = DOMAIN Limits
    BY WholeDeposits DEF Takes, GrantType
  <1>2. CASE pair \notin DOMAIN s.grant \/ take = 0
    <2>1. t = s
      BY <1>2 DEF TakeFromGrant
    <2>. QED
      BY <2>1, SpendsChain
  <1>3. CASE pair \in DOMAIN s.grant /\ take # 0
    <2>1. s.grant[pair][d] \in Nat /\ pair \in DOMAIN Limits
      BY <1>1, <1>3 DEF GrantType
    <2>2. take \in Nat \ {0} /\ s.left - take \in Nat /\ n \in Nat /\ n - s.grant[pair][d] = 0 - take
      BY <1>1, <1>3, <2>1 DEF AtMost
    <2>3. t = [left |-> s.left - take, grant |-> H, deposits |-> Append(s.deposits, dep)]
      BY <1>3 DEF TakeFromGrant
    <2>. HIDE DEF take, n, t
    <2>4. granter \in Holders /\ granter # "escrow"
      BY HoldersAre
    <2>5. /\ dep \in Whole /\ dep \in Deposits /\ dep.owner = granter /\ dep.denom = d
          /\ dep.source = "grant" /\ dep.balance = Dec * take
      BY <2>2, <2>4, CoinsOfWhole DEF Whole, Deposits
    <2>. HIDE DEF dep
    <2>6. pair[1] = granter
      OBVIOUS
    <2>. HIDE DEF pair
    <2>7. H \in GrantType
      BY <1>1, <2>1, <2>2, LimitsChange DEF LimitMoves
    <2>8. t \in Takes /\ t.grant = H /\ t.deposits = Append(s.deposits, dep)
      BY <1>1, <2>2, <2>3, <2>5, <2>7 DEF Takes
    <2>9. ASSUME NEW g, NEW e \in Denoms PROVE Spent(t, g, e) <= Spent(s, g, e)
      <3>1. Plus(LimitsOf(g, e, H), LimitsOf(g, e, s.grant),
                 IF granter = g /\ e = d THEN 0 - take ELSE 0)
        BY <1>1, <2>1, <2>2, <2>6, LimitsChange DEF LimitMoves
      <3>. HIDE DEF H
      <3>. DEFINE L == LimitsOf(g, e, s.grant)
                  M == LimitsOf(g, e, H)
                  f == ByGranter(g, e)
                  T == Tally(f, s.deposits)
                  U == Tally(f, t.deposits)
      <3>2. f[dep] = IF granter = g /\ d = e THEN Dec * take ELSE 0
        BY <2>5, WeightOf
      <3>3. U = T + f[dep]
        <4>1. f \in [Deposits -> Nat]
          BY Weights
        <4>. HIDE DEF f
        <4>. QED
          BY <1>1, <2>5, <2>8, <4>1, TallyAppend
      <3>4. L \in Int /\ T \in Int /\ take \in Int
        BY <2>2, SpentType
      <3>5. Spent(s, g, e) = Dec * L + T /\ Spent(t, g, e) = Dec * M + U
        BY <2>8 DEF Spent
      <3>. HIDE DEF L, M, T, U, f
      <3>6. Dec * L \in Int /\ Dec * take \in Int /\ Dec * (L - take) = Dec * L - Dec * take
        BY <3>4, Distributes, Scaled
      <3>7. CASE granter = g /\ e = d
        <4>1. M = L - take /\ U = T + Dec * take
          BY <3>1, <3>2, <3>3, <3>4, <3>7 DEF Plus, L, M
        <4>. QED
          BY <3>4, <3>5, <3>6, <4>1
      <3>8. CASE ~(granter = g /\ e = d)
        <4>1. M = L /\ U = T
          BY <3>1, <3>2, <3>3, <3>4, <3>8 DEF Plus, L, M
        <4>. QED
          BY <3>4, <3>5, <3>6, <4>1
      <3>. QED
        BY <3>7, <3>8
    <2>. QED
      BY <2>8, <2>9 DEF Spends, t
  <1>. QED
    BY <1>2, <1>3

LEMMA GrantersAre ==
    Granters \in Seq(ToSet(Granters)) /\ \A i \in 1..Len(Granters) : Granters[i] \in ToSet(Granters)
  BY EscrowAssumption

\* What every grant keeps, the grants keep.
LEMMA TakeFromGrantsKeeps ==
    ASSUME NEW start \in Takes,
           NEW signer,
           NEW d \in Denoms,
           NEW Good, start \in Good[0],
           \A i \in 1..Len(Granters) : \A v \in Takes :
                v \in Good[i - 1] => TakeFromGrant(v, Granters[i], signer, d) \in Good[i]
    PROVE  TakeFromGrants(start, signer, d) \in Good[Len(Granters)] /\ TakeFromGrants(start, signer, d) \in Takes
  <1>. DEFINE n == Len(Granters)
              base == start
              step == [v \in Takes |-> [i \in 1..n |-> TakeFromGrant(v, Granters[i], signer, d)]]
              E(h) == h = [s \in SUBSET (1..n) |->
                              IF s = {} THEN base
                              ELSE TakeFromGrant(h[s \ {Max(s)}], Granters[Max(s)], signer, d)]
              k == CHOOSE h : E(h)
  <1>1. n \in Nat /\ DOMAIN Granters = 1..n
    OBVIOUS
  <1>2. base \in Takes /\ step \in [Takes -> [1..n -> Takes]]
    BY GrantersAre, TakeFromGrantSpends
  <1>3. TakeFromGrants(start, signer, d) = k[1..n]
    BY <1>1 DEF TakeFromGrants, FoldLeft, MapThenFoldSet
  <1>4. ASSUME NEW v \in Takes, NEW i \in 1..n PROVE step[v][i] = TakeFromGrant(v, Granters[i], signer, d)
    OBVIOUS
  <1>. HIDE DEF n, base, step
  <1>5. ASSUME NEW g \in [SUBSET (1..n) -> Takes], IsFold(g, base, step, n)
        PROVE  TakesSteps(k, base, step, n, Takes)
    <2>1. \A s \in SUBSET (1..n) : s # {} => Max(s) \in 1..n
      BY <1>1, MaxIn
    <2>2. E(g)
      <3>1. ASSUME NEW s \in SUBSET (1..n), s # {}
            PROVE  g[s] = TakeFromGrant(g[s \ {Max(s)}], Granters[Max(s)], signer, d)
        <4>1. g[s] = step[g[s \ {Max(s)}]][Max(s)]
          BY <1>5, <3>1 DEF IsFold
        <4>2. g[s \ {Max(s)}] \in Takes
          OBVIOUS
        <4>. QED
          BY <1>4, <2>1, <3>1, <4>1, <4>2
      <3>2. g[{}] = base /\ g = [s \in SUBSET (1..n) |-> g[s]]
        BY <1>5 DEF IsFold
      <3>. QED
        BY <3>1, <3>2
    <2>3. E(k)
      <3>. HIDE DEF E
      <3>. QED
        BY <2>2
    <2>. HIDE DEF k
    <2>4. k[{}] = base
      BY <2>3
    <2>5. ASSUME NEW s \in SUBSET (1..n), s # {}, k[s \ {Max(s)}] \in Takes
          PROVE  k[s] = step[k[s \ {Max(s)}]][Max(s)]
      <3>1. k[s] = TakeFromGrant(k[s \ {Max(s)}], Granters[Max(s)], signer, d)
        BY <2>3, <2>5
      <3>. HIDE DEF E
      <3>. QED
        BY <1>4, <2>1, <2>5, <3>1
    <2>. HIDE DEF E
    <2>. QED
      BY <2>4, <2>5 DEF TakesSteps
  <1>. HIDE DEF E, k
  <1>6. base \in Good[0] /\ \A i \in 1..n : \A v \in Takes : v \in Good[i - 1] => step[v][i] \in Good[i]
    BY <1>4 DEF n, base
  <1>7. k[1..n] \in Good[n] /\ k[1..n] \in Takes
    <2>1. IsTheFold(k, base, step, n, Takes)
      BY <1>5 DEF IsTheFold
    <2>2. StepsKeep(Good, base, step, n, Takes)
      BY <1>6 DEF StepsKeep
    <2>. QED
      BY <1>1, <1>2, <2>1, <2>2, FoldKeeps
  <1>. QED
    BY <1>3, <1>7 DEF n
BankHolds == bank \in [Holders -> [Denoms -> Nat]]

LEMMA TakeFromSpends ==
    ASSUME BankHolds, NEW s \in Takes, NEW source, NEW signer \in DOMAIN Wallets, NEW d \in Denoms
    PROVE  LET t == TakeFrom(s, source, signer, d) IN t \in Takes /\ Spends(s, t)
  <1>1. TakeFromGrants(s, signer, d) \in Takes /\ Spends(s, TakeFromGrants(s, signer, d))
    <2>. DEFINE n == Len(Granters)
                Kept == {t \in Takes : Spends(s, t)}
                Good == [i \in 0..n |-> Kept]
    <2>1. n \in Nat
      BY GrantersAre
    <2>2. s \in Kept
      BY SpendsChain
    <2>3. ASSUME NEW t \in Kept, NEW i \in 1..n PROVE TakeFromGrant(t, Granters[i], signer, d) \in Kept
      BY GrantersAre, TakeFromGrantSpends, SpendsChain
    <2>4. \A t \in Kept : t \in Takes /\ Spends(s, t)
      OBVIOUS
    <2>. HIDE DEF Kept
    <2>5. 0 \in 0..n /\ n \in 0..n /\ \A i \in 1..n : i \in 0..n /\ i - 1 \in 0..n
      BY <2>1
    <2>6. s \in Good[0] /\ \A i \in 1..n : \A t \in Takes :
                t \in Good[i - 1] => TakeFromGrant(t, Granters[i], signer, d) \in Good[i]
      BY <2>2, <2>3, <2>5
    <2>7. \A t \in Good[n] : t \in Kept
      BY <2>5
    <2>. HIDE DEF Good
    <2>8. TakeFromGrants(s, signer, d) \in Good[n]
      BY <2>6, TakeFromGrantsKeeps
    <2>. QED
      BY <2>4, <2>7, <2>8
  <1>2. TakeFromBalance(s, signer, d) \in Takes /\ Spends(s, TakeFromBalance(s, signer, d))
    <2>. DEFINE take == AtMost(bank[signer][d], s.left)
                dep == [owner |-> signer, denom |-> d, source |-> "balance", balance |-> Dec * take]
                t == TakeFromBalance(s, signer, d)
    <2>1. /\ s.left \in Nat /\ s.grant \in GrantType /\ s.deposits \in Seq(Whole)
          /\ s.deposits \in Seq(Deposits)
      BY WholeDeposits DEF Takes
    <2>2. signer \in Holders /\ signer # "escrow"
      BY HoldersAre
    <2>3. CASE take = 0
      <3>1. t = s
        BY <2>3 DEF TakeFromBalance
      <3>. QED
        BY <3>1, SpendsChain
    <2>4. CASE take # 0
      <3>1. take \in Nat \ {0} /\ s.left - take \in Nat
        BY <2>1, <2>2, <2>4 DEF AtMost, BankHolds
      <3>2. t = [s EXCEPT !.left = @ - take, !.deposits = Append(@, dep)]
        BY <2>4 DEF TakeFromBalance
      <3>. HIDE DEF take, t
      <3>3. /\ dep \in Whole /\ dep \in Deposits /\ dep.source = "balance"
        BY <2>2, <3>1, CoinsOfWhole DEF Whole, Deposits
      <3>. HIDE DEF dep
      <3>4. t \in Takes /\ t.grant = s.grant /\ t.deposits = Append(s.deposits, dep)
        <4>1. s = [left |-> s.left, grant |-> s.grant, deposits |-> s.deposits]
          BY DEF Takes
        <4>2. t = [left |-> s.left - take, grant |-> s.grant, deposits |-> Append(s.deposits, dep)]
          BY <3>2, <4>1
        <4>3. Append(s.deposits, dep) \in Seq(Whole)
          BY <2>1, <3>3
        <4>. QED
          BY <2>1, <3>1, <4>2, <4>3 DEF Takes
      <3>5. ASSUME NEW g, NEW e \in Denoms PROVE Spent(t, g, e) <= Spent(s, g, e)
        <4>. DEFINE f == ByGranter(g, e)
        <4>1. f[dep] = 0 /\ f \in [Deposits -> Nat]
          BY <3>3, WeightOf, Weights
        <4>2. Tally(f, s.deposits) \in Int
          BY SpentType
        <4>3. Tally(f, t.deposits) = Tally(f, s.deposits) + f[dep]
          <5>. HIDE DEF f
          <5>. QED
            BY <2>1, <3>3, <3>4, <4>1, TallyAppend
        <4>4. Tally(f, t.deposits) = Tally(f, s.deposits)
          BY <4>1, <4>2, <4>3
        <4>5. Spent(t, g, e) = Spent(s, g, e) /\ Spent(s, g, e) \in Int
          BY <3>4, <4>4, SpentType DEF Spent
        <4>. QED
          BY <4>5
      <3>. QED
        BY <3>4, <3>5 DEF Spends, t
    <2>. QED
      BY <2>3, <2>4
  <1>. QED
    BY <1>1, <1>2 DEF TakeFrom

SourceNames == {"balance", "grant"}

LEMMA TakeFromType ==
    ASSUME BankHolds, NEW t \in Takes, NEW source \in SourceNames, NEW signer \in DOMAIN Wallets,
           NEW d \in Denoms
    PROVE  TakeFrom(t, source, signer, d) \in Takes
  BY TakeFromSpends

LEMMA FirstTake ==
    ASSUME grant \in GrantType, NEW amount \in Nat
    PROVE  [left |-> amount, grant |-> grant, deposits |-> <<>>] \in Takes
  BY DEF Takes

\* What every source keeps, the authorization keeps.
LEMMA AuthorizeKeeps ==
    ASSUME BankHolds,
           grant \in GrantType,
           NEW sources \in Seq(SourceNames),
           NEW signer \in DOMAIN Wallets,
           NEW d \in Denoms,
           NEW amount \in Nat,
           NEW Good, [left |-> amount, grant |-> grant, deposits |-> <<>>] \in Good[0],
           \A i \in 1..Len(sources) : \A v \in Takes :
                v \in Good[i - 1] => TakeFrom(v, sources[i], signer, d) \in Good[i]
    PROVE  AuthorizeDeposits(signer, d, amount, sources) \in Good[Len(sources)] /\ AuthorizeDeposits(signer, d, amount, sources) \in Takes
  <1>. DEFINE n == Len(sources)
              base == [left |-> amount, grant |-> grant, deposits |-> <<>>]
              step == [v \in Takes |-> [i \in 1..n |-> TakeFrom(v, sources[i], signer, d)]]
              E(h) == h = [s \in SUBSET (1..n) |->
                              IF s = {} THEN base
                              ELSE TakeFrom(h[s \ {Max(s)}], sources[Max(s)], signer, d)]
              k == CHOOSE h : E(h)
  <1>1. n \in Nat /\ DOMAIN sources = 1..n
    OBVIOUS
  <1>2. base \in Takes /\ step \in [Takes -> [1..n -> Takes]]
    BY FirstTake, TakeFromType
  <1>3. AuthorizeDeposits(signer, d, amount, sources) = k[1..n]
    BY <1>1 DEF AuthorizeDeposits, FoldLeft, MapThenFoldSet
  <1>4. ASSUME NEW v \in Takes, NEW i \in 1..n PROVE step[v][i] = TakeFrom(v, sources[i], signer, d)
    OBVIOUS
  <1>. HIDE DEF n, base, step
  <1>5. ASSUME NEW g \in [SUBSET (1..n) -> Takes], IsFold(g, base, step, n)
        PROVE  TakesSteps(k, base, step, n, Takes)
    <2>1. \A s \in SUBSET (1..n) : s # {} => Max(s) \in 1..n
      BY <1>1, MaxIn
    <2>2. E(g)
      <3>1. ASSUME NEW s \in SUBSET (1..n), s # {}
            PROVE  g[s] = TakeFrom(g[s \ {Max(s)}], sources[Max(s)], signer, d)
        <4>1. g[s] = step[g[s \ {Max(s)}]][Max(s)]
          BY <1>5, <3>1 DEF IsFold
        <4>2. g[s \ {Max(s)}] \in Takes
          OBVIOUS
        <4>. QED
          BY <1>4, <2>1, <3>1, <4>1, <4>2
      <3>2. g[{}] = base /\ g = [s \in SUBSET (1..n) |-> g[s]]
        BY <1>5 DEF IsFold
      <3>. QED
        BY <3>1, <3>2
    <2>3. E(k)
      <3>. HIDE DEF E
      <3>. QED
        BY <2>2
    <2>. HIDE DEF k
    <2>4. k[{}] = base
      BY <2>3
    <2>5. ASSUME NEW s \in SUBSET (1..n), s # {}, k[s \ {Max(s)}] \in Takes
          PROVE  k[s] = step[k[s \ {Max(s)}]][Max(s)]
      <3>1. k[s] = TakeFrom(k[s \ {Max(s)}], sources[Max(s)], signer, d)
        BY <2>3, <2>5
      <3>. HIDE DEF E
      <3>. QED
        BY <1>4, <2>1, <2>5, <3>1
    <2>. HIDE DEF E
    <2>. QED
      BY <2>4, <2>5 DEF TakesSteps
  <1>. HIDE DEF E, k
  <1>6. base \in Good[0] /\ \A i \in 1..n : \A v \in Takes : v \in Good[i - 1] => step[v][i] \in Good[i]
    BY <1>4 DEF n, base
  <1>7. k[1..n] \in Good[n] /\ k[1..n] \in Takes
    <2>1. IsTheFold(k, base, step, n, Takes)
      BY <1>5 DEF IsTheFold
    <2>2. StepsKeep(Good, base, step, n, Takes)
      BY <1>6 DEF StepsKeep
    <2>. QED
      BY <1>1, <1>2, <2>1, <2>2, FoldKeeps
  <1>. QED
    BY <1>3, <1>7 DEF n

\* What the deposits take from granters is gone from the limits.
LEMMA Authorizes ==
    ASSUME BankHolds, grant \in GrantType, NEW sources \in Seq(SourceNames),
           NEW signer \in DOMAIN Wallets, NEW d \in Denoms, NEW amount \in Nat
    PROVE  LET auth == AuthorizeDeposits(signer, d, amount, sources)
           IN  /\ auth \in Takes
               /\ \A g : \A e \in Denoms :
                    Spent(auth, g, e) <= Dec * LimitsOf(g, e, grant)
  <1>. DEFINE n == Len(sources)
              s == [left |-> amount, grant |-> grant, deposits |-> <<>>]
              Kept == {t \in Takes : Spends(s, t)}
              Good == [i \in 0..n |-> Kept]
              auth == AuthorizeDeposits(signer, d, amount, sources)
  <1>1. n \in Nat /\ s \in Takes /\ s.grant = grant /\ s.deposits = <<>>
    BY FirstTake
  <1>. HIDE DEF s
  <1>2. s \in Kept
    BY <1>1, SpendsChain
  <1>3. ASSUME NEW t \in Kept, NEW i \in 1..n PROVE TakeFrom(t, sources[i], signer, d) \in Kept
    BY <1>1, TakeFromSpends, SpendsChain
  <1>4. \A t \in Kept : t \in Takes /\ Spends(s, t)
    OBVIOUS
  <1>. HIDE DEF Kept
  <1>5. 0 \in 0..n /\ n \in 0..n /\ \A i \in 1..n : i \in 0..n /\ i - 1 \in 0..n
    BY <1>1
  <1>6. s \in Good[0] /\ \A i \in 1..n : \A t \in Takes :
            t \in Good[i - 1] => TakeFrom(t, sources[i], signer, d) \in Good[i]
    BY <1>2, <1>3, <1>5
  <1>7. \A t \in Good[n] : t \in Kept
    BY <1>5
  <1>. HIDE DEF Good
  <1>8. auth \in Good[n]
    BY <1>6, AuthorizeKeeps DEF s
  <1>. HIDE DEF auth
  <1>9. auth \in Takes /\ Spends(s, auth)
    BY <1>4, <1>7, <1>8
  <1>10. ASSUME NEW g, NEW e \in Denoms PROVE Spent(auth, g, e) <= Dec * LimitsOf(g, e, grant)
    <2>1. Tally(ByGranter(g, e), <<>>) = 0
      BY Weights, TallyEmpty
    <2>2. LimitsOf(g, e, grant) \in Int /\ Spent(auth, g, e) \in Int
      BY <1>1, <1>9, SpentType
    <2>3. Dec * LimitsOf(g, e, grant) \in Int
      BY <2>2, Scaled
    <2>4. Spent(s, g, e) = Dec * LimitsOf(g, e, grant)
      BY <1>1, <2>1, <2>3 DEF Spent
    <2>. QED
      BY <1>9, <2>4 DEF Spends
  <1>. QED
    BY <1>9, <1>10 DEF auth

-----------------------------------------------------------------------------
(* fetchDepositsToAccount *)

\* A world with more deposits.
Fetches(v, w) ==
    /\ w.pay = v.pay /\ w.grant = v.grant /\ w.due = v.due /\ w.overdrawn = v.overdrawn
    /\ w.acc.state = v.acc.state /\ w.acc.settledAt = v.acc.settledAt
    /\ w.acc.funds[Prim] < 0 => w.acc.funds[Prim] = v.acc.funds[Prim]
    /\ \A d \in Denoms : Room(v, d) <= Room(w, d)
    /\ Told(v.acc) => Told(w.acc)

LEMMA FetchesChain ==
    /\ \A v \in Worlds : Fetches(v, v)
    /\ \A u \in Worlds, v \in Worlds, w \in Worlds : Fetches(u, v) /\ Fetches(v, w) => Fetches(u, w)
  <1>1. ASSUME NEW v \in Worlds PROVE Fetches(v, v)
    BY SafeTypes DEF Fetches
  <1>2. ASSUME NEW u \in Worlds, NEW v \in Worlds, NEW w \in Worlds, Fetches(u, v), Fetches(v, w)
        PROVE  Fetches(u, w)
    <2>1. ASSUME NEW d \in Denoms PROVE Room(u, d) <= Room(w, d)
      <3>1. Room(u, d) \in Int /\ Room(v, d) \in Int /\ Room(w, d) \in Int
        BY SafeTypes
      <3>2. Room(u, d) <= Room(v, d) /\ Room(v, d) <= Room(w, d)
        BY <1>2 DEF Fetches
      <3>. QED
        BY <3>1, <3>2
    <2>. QED
      BY <1>2, <2>1 DEF Fetches
  <1>. QED
    BY <1>1, <1>2

LEMMA FundSends ==
    ASSUME NEW b \in BankType, NEW h \in Holders, h # "escrow", NEW d \in Denoms, NEW coins \in Nat
    PROVE  LET c == Send(b, h, "escrow", d, coins)
           IN  /\ c \in BankType
               /\ Plus(c["escrow"][d], b["escrow"][d], coins)
               /\ \A e \in Denoms : e # d => c["escrow"][e] = b["escrow"][e]
  <1>. DEFINE c == Send(b, h, "escrow", d, coins)
  <1>1. /\ c \in BankType /\ c["escrow"][d] \in Int /\ b["escrow"][d] \in Int
        /\ \A e \in Denoms : e # d => c["escrow"][e] = b["escrow"][e]
        /\ c["escrow"][d] = b["escrow"][d] + coins
    BY SendEffect, HoldersAre
  <1>. HIDE DEF c
  <1>2. Plus(c["escrow"][d], b["escrow"][d], coins)
    BY <1>1 DEF Plus
  <1>. QED
    BY <1>1, <1>2 DEF c

LEMMA FetchEffect ==
    ASSUME NEW v \in Worlds, NEW dep \in Whole
    PROVE  LET w == FetchDeposit(v, dep)
           IN  /\ w \in Worlds /\ Fetches(v, w)
               /\ w.acc.deposits = Append(v.acc.deposits, dep)
  <1>. DEFINE w == FetchDeposit(v, dep)
              n == dep.denom
              coins == Coins(dep.balance)
              b == Send(v.bank, dep.owner, "escrow", n, coins)
              old == v.acc.funds[n]
              F == [v.acc.funds EXCEPT ![n] = (IF @ < 0 THEN 0 ELSE @) + dep.balance]
              deps == Append(v.acc.deposits, dep)
              A == [v.acc EXCEPT !.funds = F, !.deposits = deps]
  <1>1. /\ dep \in Deposits /\ dep.owner \in Holders /\ dep.owner # "escrow" /\ n \in Denoms
        /\ dep.balance \in Nat \ {0} /\ Dec * coins = dep.balance
    BY DEF Whole, Deposits
  <1>2. /\ v.acc \in AccountType /\ v.pay \in Payments0 /\ v.bank \in BankType
        /\ v.acc.funds \in [Denoms -> Int] /\ v.acc.deposits \in Seq(Deposits) /\ old \in Int
    BY <1>1, WorldFields
  <1>3. coins \in Nat
    BY <1>1, Units
  <1>. HIDE DEF coins
  <1>4. w = [v EXCEPT !.acc = A, !.bank = b]
    BY <1>2 DEF FetchDeposit, Worlds, AccountType, coins
  <1>5. deps \in Seq(Deposits)
    BY <1>1, <1>2
  <1>. HIDE DEF deps, w
  <1>6. /\ F \in [Denoms -> Int] /\ F[n] = (IF old < 0 THEN 0 ELSE old) + dep.balance
        /\ \A e \in Denoms : e # n => F[e] = v.acc.funds[e]
    BY <1>1, <1>2
  <1>. HIDE DEF F
  <1>7. /\ A \in AccountType /\ A.funds = F /\ A.deposits = deps /\ A.state = v.acc.state
        /\ A.settledAt = v.acc.settledAt
    BY <1>2, <1>5, <1>6 DEF AccountType
  <1>. HIDE DEF A
  <1>. HIDE DEF n
  <1>8. /\ b \in BankType
        /\ Plus(b["escrow"][n], v.bank["escrow"][n], coins)
        /\ \A e \in Denoms : e # n => b["escrow"][e] = v.bank["escrow"][e]
    BY <1>1, <1>2, <1>3, FundSends
  <1>. USE DEF n
  <1>. HIDE DEF b
  <1>9. ASSUME NEW e \in Denoms, e # n PROVE b["escrow"][e] = v.bank["escrow"][e]
    BY <1>8, <1>9
  <1>10. /\ w \in Worlds /\ w.acc = A /\ w.bank = b /\ w.pay = v.pay /\ w.grant = v.grant
         /\ w.due = v.due /\ w.overdrawn = v.overdrawn
    BY <1>4, <1>7, <1>8 DEF Worlds
  <1>11. ASSUME NEW e \in Denoms
         PROVE  Plus(Tally(ByDenom(e), w.acc.deposits), Tally(ByDenom(e), v.acc.deposits),
                     IF e = n THEN dep.balance ELSE 0)
    <2>. DEFINE f == ByDenom(e)
    <2>1. f \in [Deposits -> Nat] /\ f[dep] = IF e = n THEN dep.balance ELSE 0
      BY <1>1, Weights, WeightOf
    <2>. HIDE DEF f
    <2>2. /\ Tally(f, deps) = Tally(f, v.acc.deposits) + f[dep]
          /\ f[dep] \in Nat
      BY <1>1, <1>2, <2>1, TallyAppend DEF deps
    <2>3. Tally(f, v.acc.deposits) \in Nat /\ Tally(f, deps) \in Nat
      BY <1>2, <1>5, TallyType DEF f
    <2>. QED
      BY <1>7, <1>10, <2>1, <2>2, <2>3 DEF Plus, f
  <1>12. Told(v.acc) => Told(w.acc)
    <2>1. ASSUME Told(v.acc), NEW e \in Denoms
          PROVE  Tally(ByDenom(e), w.acc.deposits) = IF w.acc.funds[e] > 0 THEN w.acc.funds[e] ELSE 0
      <3>. DEFINE t == Tally(ByDenom(e), v.acc.deposits)
                  u == Tally(ByDenom(e), w.acc.deposits)
      <3>1. t = IF v.acc.funds[e] > 0 THEN v.acc.funds[e] ELSE 0
        BY <2>1 DEF Told
      <3>2. Plus(u, t, IF e = n THEN dep.balance ELSE 0)
        BY <1>11
      <3>3. v.acc.funds[e] \in Int /\ w.acc.funds = F
        BY <1>2, <1>7, <1>10
      <3>. HIDE DEF t, u
      <3>4. CASE e = n
        BY <1>1, <1>6, <3>1, <3>2, <3>3, <3>4 DEF Plus, u
      <3>5. CASE e # n
        BY <1>1, <1>6, <3>1, <3>2, <3>3, <3>5 DEF Plus, u
      <3>. QED
        BY <3>4, <3>5 DEF u
    <2>. QED
      BY <2>1 DEF Told
  <1>13. ASSUME NEW e \in Denoms PROVE Room(v, e) <= Room(w, e)
    <2>. DEFINE t == Tally(ByDenom(e), v.acc.deposits)
                u == Tally(ByDenom(e), w.acc.deposits)
                x == v.bank["escrow"][e]
                y == b["escrow"][e]
                h == Held(v.pay, e)
    <2>1. Plus(u, t, IF e = n THEN dep.balance ELSE 0)
      BY <1>11
    <2>2. Room(v, e) = Dec * x - t - h /\ Room(w, e) = Dec * y - u - h
      BY <1>10 DEF Room
    <2>3. h \in Int /\ x \in Int /\ Dec * x \in Int
      BY SafeTypes
    <2>4. e = n => y = x + coins
      BY <1>8 DEF Plus
    <2>5. e # n => y = x
      BY <1>9
    <2>. HIDE DEF t, u, x, y, h
    <2>6. CASE e = n
      <3>1. Dec * (x + coins) = Dec * x + Dec * coins
        BY <1>3, <2>3, Distributes
      <3>. QED
        BY <1>1, <2>1, <2>2, <2>3, <2>4, <2>6, <3>1 DEF Plus
    <2>7. CASE e # n
      BY <2>1, <2>2, <2>3, <2>5, <2>7 DEF Plus
    <2>. QED
      BY <2>6, <2>7
  <1>14. w.acc.funds[Prim] < 0 => w.acc.funds[Prim] = v.acc.funds[Prim]
    <2>1. Prim \in Denoms /\ w.acc.funds = F
      BY <1>7, <1>10 DEF Denoms
    <2>2. CASE Prim = n
      BY <1>1, <1>2, <1>6, <2>1, <2>2
    <2>3. CASE Prim # n
      BY <1>6, <2>1, <2>3
    <2>. QED
      BY <2>2, <2>3
  <1>. QED
    BY <1>7, <1>10, <1>12, <1>13, <1>14 DEF Fetches, w, deps

LEMMA FetchType ==
    ASSUME NEW v \in Worlds, NEW dep \in Whole
    PROVE  FetchDeposit(v, dep) \in Worlds
  BY FetchEffect

\* What every deposit keeps, fetching them keeps.
LEMMA FetchKeeps ==
    ASSUME NEW w \in Worlds,
           NEW deps \in Seq(Whole),
           NEW Good, w \in Good[0],
           \A i \in 1..Len(deps) : \A v \in Worlds :
                v \in Good[i - 1] => FetchDeposit(v, deps[i]) \in Good[i]
    PROVE  FetchDeposits(w, deps) \in Good[Len(deps)] /\ FetchDeposits(w, deps) \in Worlds
  <1>. DEFINE n == Len(deps)
              base == w
              step == [v \in Worlds |-> [i \in 1..n |-> FetchDeposit(v, deps[i])]]
              E(h) == h = [s \in SUBSET (1..n) |->
                              IF s = {} THEN base
                              ELSE FetchDeposit(h[s \ {Max(s)}], deps[Max(s)])]
              k == CHOOSE h : E(h)
  <1>1. n \in Nat /\ DOMAIN deps = 1..n
    OBVIOUS
  <1>2. base \in Worlds /\ step \in [Worlds -> [1..n -> Worlds]]
    BY FetchType
  <1>3. FetchDeposits(w, deps) = k[1..n]
    BY <1>1 DEF FetchDeposits, FoldLeft, MapThenFoldSet
  <1>4. ASSUME NEW v \in Worlds, NEW i \in 1..n PROVE step[v][i] = FetchDeposit(v, deps[i])
    OBVIOUS
  <1>. HIDE DEF n, base, step
  <1>5. ASSUME NEW g \in [SUBSET (1..n) -> Worlds], IsFold(g, base, step, n)
        PROVE  TakesSteps(k, base, step, n, Worlds)
    <2>1. \A s \in SUBSET (1..n) : s # {} => Max(s) \in 1..n
      BY <1>1, MaxIn
    <2>2. E(g)
      <3>1. ASSUME NEW s \in SUBSET (1..n), s # {}
            PROVE  g[s] = FetchDeposit(g[s \ {Max(s)}], deps[Max(s)])
        <4>1. g[s] = step[g[s \ {Max(s)}]][Max(s)]
          BY <1>5, <3>1 DEF IsFold
        <4>2. g[s \ {Max(s)}] \in Worlds
          OBVIOUS
        <4>. QED
          BY <1>4, <2>1, <3>1, <4>1, <4>2
      <3>2. g[{}] = base /\ g = [s \in SUBSET (1..n) |-> g[s]]
        BY <1>5 DEF IsFold
      <3>. QED
        BY <3>1, <3>2
    <2>3. E(k)
      <3>. HIDE DEF E
      <3>. QED
        BY <2>2
    <2>. HIDE DEF k
    <2>4. k[{}] = base
      BY <2>3
    <2>5. ASSUME NEW s \in SUBSET (1..n), s # {}, k[s \ {Max(s)}] \in Worlds
          PROVE  k[s] = step[k[s \ {Max(s)}]][Max(s)]
      <3>1. k[s] = FetchDeposit(k[s \ {Max(s)}], deps[Max(s)])
        BY <2>3, <2>5
      <3>. HIDE DEF E
      <3>. QED
        BY <1>4, <2>1, <2>5, <3>1
    <2>. HIDE DEF E
    <2>. QED
      BY <2>4, <2>5 DEF TakesSteps
  <1>. HIDE DEF E, k
  <1>6. base \in Good[0] /\ \A i \in 1..n : \A v \in Worlds : v \in Good[i - 1] => step[v][i] \in Good[i]
    BY <1>4 DEF n, base
  <1>7. k[1..n] \in Good[n] /\ k[1..n] \in Worlds
    <2>1. IsTheFold(k, base, step, n, Worlds)
      BY <1>5 DEF IsTheFold
    <2>2. StepsKeep(Good, base, step, n, Worlds)
      BY <1>6 DEF StepsKeep
    <2>. QED
      BY <1>1, <1>2, <2>1, <2>2, FoldKeeps
  <1>. QED
    BY <1>3, <1>7 DEF n

LEMMA FetchesAll ==
    ASSUME NEW w \in Worlds, NEW deps \in Seq(Whole)
    PROVE  FetchDeposits(w, deps) \in Worlds /\ Fetches(w, FetchDeposits(w, deps))
  <1>. DEFINE n == Len(deps)
              Kept == {t \in Worlds : Fetches(w, t)}
              Good == [i \in 0..n |-> Kept]
              f == FetchDeposits(w, deps)
  <1>1. n \in Nat
    OBVIOUS
  <1>2. w \in Kept
    BY FetchesChain
  <1>3. ASSUME NEW t \in Kept, NEW i \in 1..n PROVE FetchDeposit(t, deps[i]) \in Kept
    <2>1. deps[i] \in Whole
      OBVIOUS
    <2>. QED
      BY <2>1, FetchEffect, FetchesChain
  <1>4. \A t \in Kept : t \in Worlds /\ Fetches(w, t)
    OBVIOUS
  <1>. HIDE DEF Kept
  <1>5. 0 \in 0..n /\ n \in 0..n /\ \A i \in 1..n : i \in 0..n /\ i - 1 \in 0..n
    BY <1>1
  <1>6. w \in Good[0] /\ \A i \in 1..n : \A t \in Worlds :
            t \in Good[i - 1] => FetchDeposit(t, deps[i]) \in Good[i]
    BY <1>2, <1>3, <1>5
  <1>7. \A t \in Good[n] : t \in Kept
    BY <1>5
  <1>. HIDE DEF Good
  <1>8. f \in Good[n]
    BY <1>6, FetchKeeps
  <1>. HIDE DEF f
  <1>9. f \in Worlds /\ Fetches(w, f)
    BY <1>4, <1>7, <1>8
  <1>. QED
    BY <1>9 DEF f

LEMMA WholeSteps ==
    ASSUME NEW f \in [Deposits -> Nat], NEW deps \in Seq(Whole)
    PROVE  /\ First(f, deps, 0) = 0 /\ Tally(f, deps) = First(f, deps, Len(deps))
           /\ \A i \in 1..Len(deps) :
                 /\ deps[i] \in Whole /\ deps[i] \in Deposits
                 /\ First(f, deps, i) \in Nat /\ First(f, deps, i - 1) \in Nat
                 /\ Plus(First(f, deps, i), First(f, deps, i - 1), f[deps[i]])
  <1>1. deps \in Seq(Deposits) /\ Len(deps) \in Nat
    BY WholeDeposits
  <1>2. First(f, deps, 0) = 0 /\ Tally(f, deps) = First(f, deps, Len(deps))
    BY <1>1, FirstSteps DEF Tally
  <1>3. ASSUME NEW i \in 1..Len(deps)
        PROVE  /\ deps[i] \in Whole /\ deps[i] \in Deposits
               /\ First(f, deps, i) \in Nat /\ First(f, deps, i - 1) \in Nat
               /\ Plus(First(f, deps, i), First(f, deps, i - 1), f[deps[i]])
    <2>1. deps[i] \in Whole /\ deps[i] \in Deposits
      BY DEF Whole
    <2>2. i \in 0..Len(deps) /\ i - 1 \in 0..Len(deps)
      BY <1>1
    <2>3. First(f, deps, i) \in Nat /\ First(f, deps, i - 1) \in Nat
      BY <1>1, <2>2, FirstSteps
    <2>4. First(f, deps, i) = First(f, deps, i - 1) + f[deps[i]] /\ f[deps[i]] \in Nat
      BY <1>1, FirstSteps
    <2>5. Plus(First(f, deps, i), First(f, deps, i - 1), f[deps[i]])
      BY <2>3, <2>4 DEF Plus
    <2>. QED
      BY <2>1, <2>3, <2>5
  <1>. QED
    BY <1>2, <1>3

LEMMA FetchTallies ==
    ASSUME NEW w \in Worlds, NEW deps \in Seq(Whole), NEW g, NEW e \in Denoms
    PROVE  Plus(Tally(ByGranter(g, e), FetchDeposits(w, deps).acc.deposits),
                Tally(ByGranter(g, e), w.acc.deposits), Tally(ByGranter(g, e), deps))
  <1>. DEFINE n == Len(deps)
              c == ByGranter(g, e)
              At(i) == {t \in Worlds : Plus(Tally(c, t.acc.deposits), Tally(c, w.acc.deposits),
                                            First(c, deps, i))}
              Good == [i \in 0..n |-> At(i)]
              f == FetchDeposits(w, deps)
  <1>1. n \in Nat /\ c \in [Deposits -> Nat]
    BY Weights
  <1>2. \A t \in Worlds : Tally(c, t.acc.deposits) \in Int
    BY SafeTypes
  <1>. HIDE DEF c
  <1>3. w \in At(0)
    BY <1>1, <1>2, WholeSteps DEF Plus
  <1>4. ASSUME NEW i \in 1..n, NEW t \in At(i - 1) PROVE FetchDeposit(t, deps[i]) \in At(i)
    <2>. DEFINE u == FetchDeposit(t, deps[i])
    <2>1. /\ deps[i] \in Whole /\ deps[i] \in Deposits
          /\ Plus(First(c, deps, i), First(c, deps, i - 1), c[deps[i]])
      BY <1>1, WholeSteps
    <2>2. t \in Worlds
      OBVIOUS
    <2>3. u \in Worlds /\ u.acc.deposits = Append(t.acc.deposits, deps[i])
      BY <2>1, <2>2, FetchEffect
    <2>. HIDE DEF u
    <2>4. Tally(c, u.acc.deposits) = Tally(c, t.acc.deposits) + c[deps[i]]
      BY <1>1, <2>1, <2>2, <2>3, TallyAppend, WorldFields
    <2>5. Plus(Tally(c, t.acc.deposits), Tally(c, w.acc.deposits), First(c, deps, i - 1))
      OBVIOUS
    <2>6. Plus(Tally(c, u.acc.deposits), Tally(c, w.acc.deposits), First(c, deps, i))
      BY <2>1, <2>4, <2>5 DEF Plus
    <2>. QED
      BY <2>3, <2>6 DEF u
  <1>5. \A t \in At(n) : Plus(Tally(c, t.acc.deposits), Tally(c, w.acc.deposits), First(c, deps, n))
    OBVIOUS
  <1>. HIDE DEF At
  <1>6. 0 \in 0..n /\ n \in 0..n /\ \A i \in 1..n : i \in 0..n /\ i - 1 \in 0..n
    BY <1>1
  <1>7. w \in Good[0] /\ \A i \in 1..n : \A t \in Worlds :
            t \in Good[i - 1] => FetchDeposit(t, deps[i]) \in Good[i]
    BY <1>3, <1>4, <1>6
  <1>8. \A t \in Good[n] : t \in At(n)
    BY <1>6
  <1>. HIDE DEF Good
  <1>9. f \in Good[n]
    BY <1>7, FetchKeeps
  <1>. HIDE DEF f
  <1>10. Tally(c, deps) = First(c, deps, n)
    BY DEF Tally
  <1>. HIDE DEF n
  <1>11. Plus(Tally(c, f.acc.deposits), Tally(c, w.acc.deposits), Tally(c, deps))
    BY <1>5, <1>8, <1>9, <1>10
  <1>. QED
    BY <1>11 DEF f, c

\* An authorized amount adds to the account; it is money the escrow got.
Funds(v, w) ==
    /\ w \in Worlds /\ Safe(v, w)
    /\ w.pay = v.pay /\ w.due = v.due /\ w.overdrawn = v.overdrawn
    /\ w.acc.state = v.acc.state /\ w.acc.settledAt = v.acc.settledAt
    /\ w.acc.funds[Prim] < 0 => w.acc.funds[Prim] = v.acc.funds[Prim]

LEMMA FundsEffect ==
    ASSUME BankHolds, grant \in GrantType, NEW v \in Worlds, v.grant = grant,
           NEW sources \in Seq(SourceNames), NEW signer \in DOMAIN Wallets, NEW d \in Denoms,
           NEW amount \in Nat
    PROVE  LET auth == AuthorizeDeposits(signer, d, amount, sources)
           IN  Funds(v, FetchDeposits([v EXCEPT !.grant = auth.grant], auth.deposits))
  <1>. DEFINE auth == AuthorizeDeposits(signer, d, amount, sources)
              u == [v EXCEPT !.grant = auth.grant]
              w == FetchDeposits(u, auth.deposits)
  <1>1. auth \in Takes /\ \A g : \A e \in Denoms : Spent(auth, g, e) <= Dec * LimitsOf(g, e, grant)
    BY Authorizes
  <1>. HIDE DEF auth
  <1>2. auth.grant \in GrantType /\ auth.deposits \in Seq(Whole)
    BY <1>1 DEF Takes
  <1>3. /\ u \in Worlds /\ u.acc = v.acc /\ u.pay = v.pay /\ u.bank = v.bank
        /\ u.grant = auth.grant /\ u.due = v.due /\ u.overdrawn = v.overdrawn
    BY <1>2 DEF Worlds
  <1>. HIDE DEF u
  <1>4. w \in Worlds /\ Fetches(u, w)
    BY <1>2, <1>3, FetchesAll
  <1>5. ASSUME NEW g, NEW e \in Denoms PROVE Exposed(w, g, e) <= Exposed(v, g, e)
    <2>. DEFINE t == Tally(ByGranter(g, e), w.acc.deposits)
                s == Tally(ByGranter(g, e), v.acc.deposits)
                r == Tally(ByGranter(g, e), auth.deposits)
                x == Dec * LimitsOf(g, e, auth.grant)
                y == Dec * LimitsOf(g, e, grant)
    <2>1. Plus(t, s, r)
      BY <1>2, <1>3, FetchTallies
    <2>2. x + r <= y
      BY <1>1 DEF Spent
    <2>3. Exposed(w, g, e) = x + t
      BY <1>3, <1>4 DEF Exposed, Fetches
    <2>4. Exposed(v, g, e) = y + s
      BY DEF Exposed
    <2>5. x \in Int /\ y \in Int
      <3>1. LimitsOf(g, e, auth.grant) \in Int /\ LimitsOf(g, e, grant) \in Int
        BY <1>2, LimitsType
      <3>. QED
        BY <3>1, Scaled
    <2>. HIDE DEF t, s, r, x, y
    <2>. QED
      BY <2>1, <2>2, <2>3, <2>4, <2>5 DEF Plus
  <1>. HIDE DEF w
  <1>6. ASSUME NEW e \in Denoms PROVE Room(v, e) <= Room(w, e)
    <2>1. Room(u, e) = Room(v, e)
      BY <1>3 DEF Room
    <2>. QED
      BY <1>4, <2>1 DEF Fetches
  <1>7. Told(v.acc) => Told(w.acc)
    BY <1>3, <1>4 DEF Fetches
  <1>8. Safe(v, w)
    BY <1>5, <1>6, <1>7 DEF Safe
  <1>9. Funds(v, w)
    BY <1>3, <1>4, <1>8 DEF Funds, Fetches
  <1>. QED
    BY <1>9 DEF w, u, auth

-----------------------------------------------------------------------------
(* saveAccount *)

\* x is at most y and what is added.
Within(x, y, added) == x \in Int /\ y \in Int /\ added \in Int /\ x <= y + added

LEMMA CreditLimit ==
    ASSUME NEW G \in GrantType, NEW pair \in DOMAIN Limits, NEW d \in Denoms, NEW coins \in Nat,
           NEW H, H = [G EXCEPT ![pair][d] = @ + coins], NEW g, NEW e \in Denoms
    PROVE  /\ H \in GrantType
           /\ Plus(LimitsOf(g, e, H), LimitsOf(g, e, G), IF pair[1] = g /\ e = d THEN coins ELSE 0)
  <1>. DEFINE n == G[pair][d] + coins
  <1>1. G[pair][d] \in Nat /\ n \in Nat /\ n - G[pair][d] = coins
    BY DEF GrantType
  <1>2. H = [G EXCEPT ![pair][d] = n]
    BY DEF GrantType
  <1>. HIDE DEF n
  <1>3. LimitMoves(g, e, pair, d, H, G, n - G[pair][d])
    <2>1. n \in Nat
      BY <1>1
    <2>. QED
      BY <1>2, <2>1, LimitsChange
  <1>. QED
    BY <1>1, <1>3 DEF LimitMoves

\* One refund takes the deposit from the funds and from the escrow, and gives no
\* granter more than it took.
Refunds(v, w, dep) ==
    /\ w \in Worlds
    /\ w.pay = v.pay /\ w.due = v.due /\ w.overdrawn = v.overdrawn
    /\ w.acc.state = v.acc.state /\ w.acc.settledAt = v.acc.settledAt
    /\ w.acc.deposits = v.acc.deposits
    /\ \A e \in Denoms :
        /\ Plus(v.acc.funds[e], w.acc.funds[e], ByDenom(e)[dep])
        /\ Within(Dec * v.bank["escrow"][e], Dec * w.bank["escrow"][e], ByDenom(e)[dep])
    /\ \A g : \A e \in Denoms :
        Within(Dec * LimitsOf(g, e, w.grant), Dec * LimitsOf(g, e, v.grant), ByGranter(g, e)[dep])

LEMMA PaySends ==
    ASSUME NEW b \in BankType, NEW h \in Holders, NEW d \in Denoms, NEW coins \in Nat
    PROVE  LET c == Send(b, "escrow", h, d, coins)
           IN  /\ c \in BankType
               /\ \A e \in Denoms : c["escrow"][e] \in Int /\ b["escrow"][e] \in Int
               /\ \A e \in Denoms : e # d => c["escrow"][e] = b["escrow"][e]
               /\ c["escrow"][d] >= b["escrow"][d] - coins
  BY SendEffect, HoldersAre

LEMMA RefundEffect ==
    ASSUME NEW v \in Worlds, NEW a \in Accounts, NEW dep \in Deposits
    PROVE  Refunds(v, Refund(v, a, dep), dep)
  <1>. DEFINE w == Refund(v, a, dep)
              n == dep.denom
              coins == Coins(dep.balance)
              b == Send(v.bank, "escrow", dep.owner, n, coins)
              pair == <<dep.owner, Owner[a]>>
              back == dep.source = "grant" /\ pair \in DOMAIN v.grant
              F == [v.acc.funds EXCEPT ![n] = @ - dep.balance]
              A == [v.acc EXCEPT !.funds = F]
              G == IF back THEN [v.grant EXCEPT ![pair][n] = @ + coins] ELSE v.grant
  <1>1. dep.owner \in Holders /\ n \in Denoms /\ dep.balance \in Nat \ {0}
    BY DEF Deposits
  <1>2. /\ v.acc \in AccountType /\ v.pay \in Payments0 /\ v.bank \in BankType
        /\ v.acc.funds \in [Denoms -> Int] /\ v.grant \in GrantType /\ DOMAIN v.grant = DOMAIN Limits
    BY WorldFields DEF GrantType
  <1>3. coins \in Nat /\ coins \in Int /\ Dec * coins <= dep.balance /\ Dec * coins \in Nat
    BY <1>1, Units
  <1>. HIDE DEF coins
  <1>4. w = [v EXCEPT !.acc = A, !.bank = b, !.grant = G]
    BY <1>2 DEF Refund, Worlds, AccountType, coins
  <1>. HIDE DEF w
  <1>5. /\ F \in [Denoms -> Int] /\ v.acc.funds[n] \in Int /\ F[n] = v.acc.funds[n] - dep.balance
        /\ \A e \in Denoms : e # n => F[e] = v.acc.funds[e]
    BY <1>1, <1>2
  <1>. HIDE DEF F
  <1>6. /\ A \in AccountType /\ A.funds = F /\ A.deposits = v.acc.deposits /\ A.state = v.acc.state
        /\ A.settledAt = v.acc.settledAt
    BY <1>2, <1>5 DEF AccountType
  <1>. HIDE DEF A
  <1>7. /\ b \in BankType
        /\ \A e \in Denoms : b["escrow"][e] \in Int /\ v.bank["escrow"][e] \in Int
        /\ \A e \in Denoms : e # n => b["escrow"][e] = v.bank["escrow"][e]
        /\ b["escrow"][n] >= v.bank["escrow"][n] - coins
    <2>. HIDE DEF n
    <2>. QED
      BY <1>1, <1>2, <1>3, PaySends
  <1>. HIDE DEF b
  <1>8. pair[1] = dep.owner
    OBVIOUS
  <1>. HIDE DEF pair
  <1>9. ASSUME NEW g, NEW e \in Denoms
        PROVE  /\ G \in GrantType
               /\ Plus(LimitsOf(g, e, G), LimitsOf(g, e, v.grant),
                       IF back /\ dep.owner = g /\ e = n THEN coins ELSE 0)
    <2>1. CASE back
      <3>1. G = [v.grant EXCEPT ![pair][n] = @ + coins] /\ pair \in DOMAIN Limits
        BY <1>2, <2>1
      <3>. HIDE DEF G, n
      <3>2. /\ G \in GrantType
            /\ Plus(LimitsOf(g, e, G), LimitsOf(g, e, v.grant),
                    IF pair[1] = g /\ e = n THEN coins ELSE 0)
        BY <1>1, <1>2, <1>3, <3>1, CreditLimit DEF n
      <3>. QED
        BY <1>8, <2>1, <3>2
    <2>2. CASE ~back
      <3>1. G = v.grant
        BY <2>2
      <3>. HIDE DEF G
      <3>2. LimitsOf(g, e, v.grant) \in Nat
        BY <1>2, LimitsType
      <3>. QED
        BY <1>2, <2>2, <3>1, <3>2 DEF Plus
    <2>. QED
      BY <2>1, <2>2
  <1>10. G \in GrantType
    BY <1>1, <1>9
  <1>. HIDE DEF G
  <1>11. /\ w \in Worlds /\ w.acc = A /\ w.bank = b /\ w.grant = G /\ w.pay = v.pay
         /\ w.due = v.due /\ w.overdrawn = v.overdrawn
    BY <1>4, <1>6, <1>7, <1>10 DEF Worlds
  <1>12. ASSUME NEW e \in Denoms
         PROVE  /\ Plus(v.acc.funds[e], w.acc.funds[e], ByDenom(e)[dep])
                /\ Within(Dec * v.bank["escrow"][e], Dec * w.bank["escrow"][e], ByDenom(e)[dep])
    <2>. DEFINE x == v.bank["escrow"][e]
                y == w.bank["escrow"][e]
                c == ByDenom(e)[dep]
    <2>1. x \in Int /\ y \in Int /\ y = b["escrow"][e]
      BY <1>7, <1>11
    <2>2. c = IF n = e THEN dep.balance ELSE 0
      BY WeightOf
    <2>3. w.acc.funds[e] = F[e]
      BY <1>6, <1>11
    <2>4. e = n => y >= x - coins
      BY <1>7, <2>1
    <2>5. e # n => y = x
      BY <1>7, <2>1
    <2>. HIDE DEF x, y, c
    <2>6. Plus(v.acc.funds[e], w.acc.funds[e], c)
      BY <1>1, <1>2, <1>5, <2>2, <2>3 DEF Plus
    <2>7. Within(Dec * x, Dec * y, c)
      <3>1. /\ Dec * x \in Int /\ Dec * y \in Int
            /\ Dec * (y + coins) = Dec * y + Dec * coins
            /\ x <= y + coins => Dec * x <= Dec * (y + coins)
        <4>1. y + coins \in Int
          BY <1>3, <2>1
        <4>2. Dec * x \in Int /\ Dec * y \in Int /\ Dec * (y + coins) = Dec * y + Dec * coins
          BY <1>3, <2>1, Distributes
        <4>3. x <= y + coins => Dec * x <= Dec * (y + coins)
          BY <2>1, <4>1, Distributes
        <4>. QED
          BY <4>2, <4>3
      <3>2. CASE e = n
        BY <1>1, <1>3, <2>1, <2>2, <2>4, <3>1, <3>2 DEF Within
      <3>3. CASE e # n
        BY <2>2, <2>5, <3>1, <3>3 DEF Within
      <3>. QED
        BY <3>2, <3>3
    <2>. QED
      BY <2>6, <2>7 DEF x, y, c
  <1>13. ASSUME NEW g, NEW e \in Denoms
         PROVE  Within(Dec * LimitsOf(g, e, w.grant), Dec * LimitsOf(g, e, v.grant), ByGranter(g, e)[dep])
    <2>. DEFINE x == LimitsOf(g, e, w.grant)
                y == LimitsOf(g, e, v.grant)
                c == ByGranter(g, e)[dep]
    <2>1. Plus(x, y, IF back /\ dep.owner = g /\ e = n THEN coins ELSE 0)
      BY <1>9, <1>11
    <2>2. c = IF dep.source = "grant" /\ dep.owner = g /\ n = e THEN dep.balance ELSE 0
      BY WeightOf
    <2>. HIDE DEF x, y, c
    <2>3. x \in Int /\ y \in Int
      BY <2>1 DEF Plus
    <2>4. Dec * x \in Int /\ Dec * y \in Int /\ Dec * (y + coins) = Dec * y + Dec * coins
      BY <1>3, <2>3, Distributes
    <2>5. back /\ dep.owner = g /\ e = n => x = y + coins /\ c = dep.balance
      BY <2>1, <2>2 DEF Plus
    <2>6. ~(back /\ dep.owner = g /\ e = n) => x = y /\ c \in Nat
      BY <1>1, <2>1, <2>2, <2>3 DEF Plus
    <2>. HIDE DEF back, n
    <2>7. Within(Dec * x, Dec * y, c)
      BY <1>1, <1>3, <2>4, <2>5, <2>6 DEF Within
    <2>. QED
      BY <2>7 DEF x, y, c
  <1>14. Refunds(v, w, dep)
    BY <1>6, <1>11, <1>12, <1>13 DEF Refunds
  <1>. QED
    BY <1>14 DEF w


LEMMA RefundType ==
    ASSUME NEW v \in Worlds, NEW a \in Accounts, NEW dep \in Deposits
    PROVE  Refund(v, a, dep) \in Worlds
  BY RefundEffect DEF Refunds

LEMMA DepositsIn ==
    ASSUME NEW w \in Worlds
    PROVE  w.acc.deposits \in Seq(Deposits) /\ \A i \in 1..Len(w.acc.deposits) : w.acc.deposits[i] \in Deposits
  BY WorldFields

\* What every refund keeps, the refunds keep.
LEMMA RefundKeeps ==
    ASSUME NEW w \in Worlds,
           NEW a \in Accounts,
           NEW Good, w \in Good[0],
           \A i \in 1..Len(w.acc.deposits) : \A v \in Worlds :
                v \in Good[i - 1] => Refund(v, a, w.acc.deposits[i]) \in Good[i]
    PROVE  RefundAll(w, a) \in Good[Len(w.acc.deposits)] /\ RefundAll(w, a) \in Worlds
  <1>. DEFINE n == Len(w.acc.deposits)
              base == w
              step == [v \in Worlds |-> [i \in 1..n |-> Refund(v, a, w.acc.deposits[i])]]
              E(h) == h = [s \in SUBSET (1..n) |->
                              IF s = {} THEN base
                              ELSE Refund(h[s \ {Max(s)}], a, w.acc.deposits[Max(s)])]
              k == CHOOSE h : E(h)
  <1>1. n \in Nat /\ DOMAIN w.acc.deposits = 1..n
    OBVIOUS
  <1>2. base \in Worlds /\ step \in [Worlds -> [1..n -> Worlds]]
    BY RefundType, DepositsIn
  <1>3. RefundAll(w, a) = k[1..n]
    BY <1>1 DEF RefundAll, FoldLeft, MapThenFoldSet
  <1>4. ASSUME NEW v \in Worlds, NEW i \in 1..n PROVE step[v][i] = Refund(v, a, w.acc.deposits[i])
    OBVIOUS
  <1>. HIDE DEF n, base, step
  <1>5. ASSUME NEW g \in [SUBSET (1..n) -> Worlds], IsFold(g, base, step, n)
        PROVE  TakesSteps(k, base, step, n, Worlds)
    <2>1. \A s \in SUBSET (1..n) : s # {} => Max(s) \in 1..n
      BY <1>1, MaxIn
    <2>2. E(g)
      <3>1. ASSUME NEW s \in SUBSET (1..n), s # {}
            PROVE  g[s] = Refund(g[s \ {Max(s)}], a, w.acc.deposits[Max(s)])
        <4>1. g[s] = step[g[s \ {Max(s)}]][Max(s)]
          BY <1>5, <3>1 DEF IsFold
        <4>2. g[s \ {Max(s)}] \in Worlds
          OBVIOUS
        <4>. QED
          BY <1>4, <2>1, <3>1, <4>1, <4>2
      <3>2. g[{}] = base /\ g = [s \in SUBSET (1..n) |-> g[s]]
        BY <1>5 DEF IsFold
      <3>. QED
        BY <3>1, <3>2
    <2>3. E(k)
      <3>. HIDE DEF E
      <3>. QED
        BY <2>2
    <2>. HIDE DEF k
    <2>4. k[{}] = base
      BY <2>3
    <2>5. ASSUME NEW s \in SUBSET (1..n), s # {}, k[s \ {Max(s)}] \in Worlds
          PROVE  k[s] = step[k[s \ {Max(s)}]][Max(s)]
      <3>1. k[s] = Refund(k[s \ {Max(s)}], a, w.acc.deposits[Max(s)])
        BY <2>3, <2>5
      <3>. HIDE DEF E
      <3>. QED
        BY <1>4, <2>1, <2>5, <3>1
    <2>. HIDE DEF E
    <2>. QED
      BY <2>4, <2>5 DEF TakesSteps
  <1>. HIDE DEF E, k
  <1>6. base \in Good[0] /\ \A i \in 1..n : \A v \in Worlds : v \in Good[i - 1] => step[v][i] \in Good[i]
    BY <1>4 DEF n, base
  <1>7. k[1..n] \in Good[n] /\ k[1..n] \in Worlds
    <2>1. IsTheFold(k, base, step, n, Worlds)
      BY <1>5 DEF IsTheFold
    <2>2. StepsKeep(Good, base, step, n, Worlds)
      BY <1>6 DEF StepsKeep
    <2>. QED
      BY <1>1, <1>2, <2>1, <2>2, FoldKeeps
  <1>. QED
    BY <1>3, <1>7 DEF n

\* What i refunds leave for one denomination and one granter.
Returns(w, t, g, e, i) ==
    /\ t \in Worlds
    /\ t.pay = w.pay /\ t.due = w.due /\ t.overdrawn = w.overdrawn
    /\ t.acc.state = w.acc.state /\ t.acc.settledAt = w.acc.settledAt
    /\ Plus(w.acc.funds[e], t.acc.funds[e], First(ByDenom(e), w.acc.deposits, i))
    /\ Within(Dec * w.bank["escrow"][e], Dec * t.bank["escrow"][e],
              First(ByDenom(e), w.acc.deposits, i))
    /\ Within(Dec * LimitsOf(g, e, t.grant), Dec * LimitsOf(g, e, w.grant),
              First(ByGranter(g, e), w.acc.deposits, i))

LEMMA PlusChain ==
    ASSUME NEW x, NEW y, NEW z, NEW p, NEW q, NEW r, Plus(r, p, q), Plus(x, y, p), Plus(y, z, q)
    PROVE  Plus(x, z, r)
  BY DEF Plus

LEMMA WithinChain ==
    ASSUME NEW x, NEW y, NEW z, NEW p, NEW q, NEW r, Plus(r, p, q) \/ Plus(r, q, p),
           Within(x, y, p), Within(y, z, q)
    PROVE  Within(x, z, r)
  BY DEF Plus, Within

LEMMA DepositSteps ==
    ASSUME NEW f \in [Deposits -> Nat], NEW deps \in Seq(Deposits), NEW i \in 1..Len(deps)
    PROVE  Plus(First(f, deps, i), First(f, deps, i - 1), f[deps[i]])
  <1>1. i \in 0..Len(deps) /\ i - 1 \in 0..Len(deps)
    OBVIOUS
  <1>2. First(f, deps, i) \in Nat /\ First(f, deps, i - 1) \in Nat
    BY <1>1, FirstSteps
  <1>3. First(f, deps, i) = First(f, deps, i - 1) + f[deps[i]] /\ f[deps[i]] \in Nat
    BY FirstSteps
  <1>. QED
    BY <1>2, <1>3 DEF Plus

LEMMA RefundsAll ==
    ASSUME NEW w \in Worlds, NEW a \in Accounts, NEW g, NEW e \in Denoms
    PROVE  Returns(w, RefundAll(w, a), g, e, Len(w.acc.deposits))
  <1>. DEFINE deps == w.acc.deposits
              n == Len(w.acc.deposits)
              At(i) == {t \in Worlds : Returns(w, t, g, e, i) /\ t.acc.deposits = deps}
              Good == [i \in 0..n |-> At(i)]
              r == RefundAll(w, a)
  <1>1. /\ deps \in Seq(Deposits) /\ n \in Nat
        /\ ByDenom(e) \in [Deposits -> Nat] /\ ByGranter(g, e) \in [Deposits -> Nat]
    BY DepositsIn, Weights
  <1>2. w \in At(0)
    <2>1. First(ByDenom(e), deps, 0) = 0 /\ First(ByGranter(g, e), deps, 0) = 0
      BY <1>1, FirstSteps
    <2>2. /\ w.acc.funds[e] \in Int /\ Dec * w.bank["escrow"][e] \in Int
          /\ Dec * LimitsOf(g, e, w.grant) \in Int
      BY SafeTypes, WorldFields
    <2>3. Returns(w, w, g, e, 0)
      BY <2>1, <2>2 DEF Returns, Plus, Within
    <2>. QED
      BY <2>3
  <1>3. ASSUME NEW i \in 1..n, NEW t \in At(i - 1) PROVE Refund(t, a, deps[i]) \in At(i)
    <2>. DEFINE u == Refund(t, a, deps[i])
    <2>1. t \in Worlds /\ Returns(w, t, g, e, i - 1) /\ t.acc.deposits = deps /\ deps[i] \in Deposits
      BY DepositsIn
    <2>2. Refunds(t, u, deps[i])
      BY <2>1, RefundEffect
    <2>3. /\ Plus(First(ByDenom(e), deps, i), First(ByDenom(e), deps, i - 1), ByDenom(e)[deps[i]])
          /\ Plus(First(ByGranter(g, e), deps, i), First(ByGranter(g, e), deps, i - 1),
                  ByGranter(g, e)[deps[i]])
      BY <1>1, DepositSteps
    <2>. HIDE DEF u
    <2>4. /\ Plus(w.acc.funds[e], u.acc.funds[e], First(ByDenom(e), deps, i))
          /\ Within(Dec * w.bank["escrow"][e], Dec * u.bank["escrow"][e],
                    First(ByDenom(e), deps, i))
      <3>1. /\ Plus(w.acc.funds[e], t.acc.funds[e], First(ByDenom(e), deps, i - 1))
            /\ Within(Dec * w.bank["escrow"][e], Dec * t.bank["escrow"][e],
                      First(ByDenom(e), deps, i - 1))
        BY <2>1 DEF Returns
      <3>2. /\ Plus(t.acc.funds[e], u.acc.funds[e], ByDenom(e)[deps[i]])
            /\ Within(Dec * t.bank["escrow"][e], Dec * u.bank["escrow"][e], ByDenom(e)[deps[i]])
        BY <2>2 DEF Refunds
      <3>3. Plus(w.acc.funds[e], u.acc.funds[e], First(ByDenom(e), deps, i))
        BY <2>3, <3>1, <3>2, PlusChain
      <3>4. Within(Dec * w.bank["escrow"][e], Dec * u.bank["escrow"][e],
                   First(ByDenom(e), deps, i))
        BY <2>3, <3>1, <3>2, WithinChain
      <3>. QED
        BY <3>3, <3>4
    <2>5. Within(Dec * LimitsOf(g, e, u.grant), Dec * LimitsOf(g, e, w.grant),
                 First(ByGranter(g, e), deps, i))
      <3>1. Within(Dec * LimitsOf(g, e, t.grant), Dec * LimitsOf(g, e, w.grant),
                   First(ByGranter(g, e), deps, i - 1))
        BY <2>1 DEF Returns
      <3>2. Within(Dec * LimitsOf(g, e, u.grant), Dec * LimitsOf(g, e, t.grant),
                   ByGranter(g, e)[deps[i]])
        BY <2>2 DEF Refunds
      <3>. QED
        BY <2>3, <3>1, <3>2, WithinChain
    <2>6. Returns(w, u, g, e, i) /\ u.acc.deposits = deps /\ u \in Worlds
      BY <2>1, <2>2, <2>4, <2>5 DEF Returns, Refunds
    <2>. QED
      BY <2>6 DEF u
  <1>4. \A t \in At(n) : Returns(w, t, g, e, n)
    OBVIOUS
  <1>. HIDE DEF At
  <1>5. 0 \in 0..n /\ n \in 0..n /\ \A i \in 1..n : i \in 0..n /\ i - 1 \in 0..n
    BY <1>1
  <1>6. w \in Good[0] /\ \A i \in 1..n : \A t \in Worlds :
            t \in Good[i - 1] => Refund(t, a, deps[i]) \in Good[i]
    BY <1>2, <1>3, <1>5
  <1>7. \A t \in Good[n] : t \in At(n)
    BY <1>5
  <1>. HIDE DEF Good
  <1>8. r \in Good[n]
    BY <1>6, RefundKeeps
  <1>. HIDE DEF r
  <1>9. Returns(w, r, g, e, n)
    BY <1>4, <1>7, <1>8
  <1>. QED
    BY <1>9 DEF r

\* A saved account whose state ended has refunded its deposits.
Saves(v, s) ==
    /\ s \in Tellers /\ Safe(v, s)
    /\ s.pay = v.pay /\ s.due = v.due /\ s.overdrawn = v.overdrawn
    /\ s.acc.state = v.acc.state /\ s.acc.settledAt = v.acc.settledAt
    /\ s.acc.state \in {"closed", "overdrawn"} => s.acc.deposits = <<>>
    /\ Debt(s.acc) = Debt(v.acc)
    /\ v.acc.funds[Prim] < 0 => s.acc.funds[Prim] < 0

LEMMA SaveEffect ==
    ASSUME NEW v \in Tellers, NEW a \in Accounts
    PROVE  Saves(v, SaveAccount(v, a))
  <1>. DEFINE s == SaveAccount(v, a)
              r == RefundAll(v, a)
              n == Len(v.acc.deposits)
  <1>1. v \in Worlds /\ Told(v.acc)
    BY DEF Tellers
  <1>2. CASE v.acc.state \notin {"closed", "overdrawn"}
    <2>1. s = v
      BY <1>2 DEF SaveAccount
    <2>. HIDE DEF s
    <2>2. Safe(v, v)
      BY <1>1, SafeChains
    <2>. QED
      BY <1>1, <1>2, <2>1, <2>2 DEF Saves, s
  <1>3. CASE v.acc.state \in {"closed", "overdrawn"}
    <2>1. s = [r EXCEPT !.acc.deposits = <<>>]
      BY <1>3 DEF SaveAccount
    <2>. HIDE DEF s
    <2>2. \A g : \A e \in Denoms : Returns(v, r, g, e, n)
      BY <1>1, RefundsAll
    <2>. HIDE DEF r, n
    <2>3. Prim \in Denoms
      BY DEF Denoms
    <2>4. /\ r \in Worlds /\ r.pay = v.pay /\ r.due = v.due /\ r.overdrawn = v.overdrawn
          /\ r.acc.state = v.acc.state /\ r.acc.settledAt = v.acc.settledAt
      BY <2>2, <2>3 DEF Returns
    <2>5. r.acc \in AccountType /\ v.acc.funds \in [Denoms -> Int] /\ r.acc.funds \in [Denoms -> Int]
      BY <1>1, <2>4, WorldFields
    <2>. DEFINE A == [r.acc EXCEPT !.deposits = <<>>]
    <2>6. /\ A \in AccountType /\ A.state = v.acc.state /\ A.settledAt = v.acc.settledAt
          /\ A.funds = r.acc.funds /\ A.deposits = <<>>
      <3>1. /\ r.acc.state \in States /\ r.acc.settledAt \in Nat
            /\ r.acc.transferred \in [Denoms -> Nat] /\ <<>> \in Seq(Deposits)
            /\ r.acc = [state |-> r.acc.state, settledAt |-> r.acc.settledAt,
                        funds |-> r.acc.funds, transferred |-> r.acc.transferred,
                        deposits |-> r.acc.deposits]
        BY <2>5 DEF AccountType
      <3>. HIDE DEF AccountType
      <3>2. A = [state |-> r.acc.state, settledAt |-> r.acc.settledAt, funds |-> r.acc.funds,
                 transferred |-> r.acc.transferred, deposits |-> <<>>]
        BY <3>1
      <3>. QED
        BY <2>4, <2>5, <3>1, <3>2 DEF AccountType
    <2>7. s = [r EXCEPT !.acc = A]
      BY <2>1, <2>4, <2>5 DEF Worlds, AccountType
    <2>. HIDE DEF A
    <2>8. /\ s \in Worlds /\ s.acc = A /\ s.bank = r.bank /\ s.grant = r.grant /\ s.pay = v.pay
          /\ s.due = v.due /\ s.overdrawn = v.overdrawn
      BY <2>4, <2>6, <2>7 DEF Worlds
    <2>9. ASSUME NEW e \in Denoms
          PROVE  /\ s.acc.funds[e] = IF v.acc.funds[e] > 0 THEN 0 ELSE v.acc.funds[e]
                 /\ s.acc.funds[e] \in Int /\ v.acc.funds[e] \in Int
      <3>1. Plus(v.acc.funds[e], r.acc.funds[e], Tally(ByDenom(e), v.acc.deposits))
        BY <2>2 DEF Returns, Tally, n
      <3>2. Tally(ByDenom(e), v.acc.deposits) = IF v.acc.funds[e] > 0 THEN v.acc.funds[e] ELSE 0
        BY <1>1 DEF Told
      <3>3. s.acc.funds[e] = r.acc.funds[e]
        BY <2>6, <2>8
      <3>. QED
        BY <3>1, <3>2, <3>3 DEF Plus
    <2>10. ASSUME NEW g, NEW e \in Denoms
           PROVE  Tally(ByDenom(e), s.acc.deposits) = 0 /\ Tally(ByGranter(g, e), s.acc.deposits) = 0
      BY <2>6, <2>8, Weights, TallyEmpty
    <2>11. Told(s.acc)
      <3>1. ASSUME NEW e \in Denoms
            PROVE  Tally(ByDenom(e), s.acc.deposits) = IF s.acc.funds[e] > 0 THEN s.acc.funds[e] ELSE 0
        BY <2>9, <2>10
      <3>. QED
        BY <3>1 DEF Told
    <2>12. ASSUME NEW e \in Denoms PROVE Room(v, e) <= Room(s, e)
      <3>. DEFINE x == Dec * v.bank["escrow"][e]
                  y == Dec * r.bank["escrow"][e]
                  t == Tally(ByDenom(e), v.acc.deposits)
                  h == Held(v.pay, e)
      <3>1. Within(x, y, t)
        BY <2>2 DEF Returns, Tally, n
      <3>2. Room(v, e) = x - t - h
        BY DEF Room
      <3>3. Room(s, e) = y - 0 - h
        BY <2>8, <2>10 DEF Room
      <3>4. h \in Int
        BY <1>1, SafeTypes
      <3>. HIDE DEF x, y, t, h
      <3>. QED
        BY <3>1, <3>2, <3>3, <3>4 DEF Within
    <2>13. ASSUME NEW g, NEW e \in Denoms PROVE Exposed(s, g, e) <= Exposed(v, g, e)
      <3>. DEFINE x == Dec * LimitsOf(g, e, r.grant)
                  y == Dec * LimitsOf(g, e, v.grant)
                  t == Tally(ByGranter(g, e), v.acc.deposits)
      <3>1. Within(x, y, t)
        BY <2>2 DEF Returns, Tally, n
      <3>2. Exposed(v, g, e) = y + t
        BY DEF Exposed
      <3>3. Exposed(s, g, e) = x + 0
        BY <2>8, <2>10 DEF Exposed
      <3>. HIDE DEF x, y, t
      <3>. QED
        BY <3>1, <3>2, <3>3 DEF Within
    <2>14. Safe(v, s)
      BY <2>11, <2>12, <2>13 DEF Safe
    <2>15. Debt(s.acc) = Debt(v.acc) /\ (v.acc.funds[Prim] < 0 => s.acc.funds[Prim] < 0)
      BY <2>3, <2>9 DEF Debt
    <2>16. Saves(v, s)
      BY <2>6, <2>8, <2>11, <2>14, <2>15 DEF Saves, Tellers
    <2>. QED
      BY <2>16 DEF s
  <1>. QED
    BY <1>2, <1>3

-----------------------------------------------------------------------------
(* The invariant of the keeper *)

\* What one function of the deposits comes to over all accounts.
Spread(f, A) == SumOf([a \in Accounts |-> Tally(f, A[a].deposits)])

Moves(x, y, less, more) == x \in Int /\ y \in Int /\ less \in Int /\ more \in Int /\ x = y - less + more

StateType ==
    /\ height \in Nat
    /\ acct \in [Accounts -> AccountType] /\ pay \in Payments0
    /\ BankHolds /\ grant \in GrantType

\* A payment of an account is owed something only when both are overdrawn, and
\* was charged what its rate allows: up to now, or up to the last settlement
\* while both are open.
PayOk(acc, r, h) ==
    /\ r.unsettled > 0 => r.state = "overdrawn"
    /\ acc.state # "overdrawn" => r.unsettled = 0
    /\ acc.state = "none" => r.state = "none"
    /\ Charge(r) <= r.rate * (h - r.since)
    /\ acc.state = "open" /\ r.state = "open" => Charge(r) <= r.rate * (acc.settledAt - r.since)

\* The payments of an account that no other account collects.
PaysOk(acc, P, a, h) ==
    Untouched(a) =>
        /\ \A p \in PaymentsOf(a) : PayOk(acc, P[p], h)
        /\ acc.state = "overdrawn" => Unsettled(P, PaymentsOf(a)) <= Debt(acc)

AccOk(acc, h) ==
    /\ acc.settledAt <= h
    /\ acc.state = "overdrawn" => acc.funds[Prim] < 0

Ended(acc) == acc.state \in {"closed", "overdrawn"} => acc.deposits = <<>>

Sound(acc, P, a, h) == Told(acc) /\ AccOk(acc, h) /\ PaysOk(acc, P, a, h) /\ Ended(acc)

Covers(A, P, B, d) == Dec * B["escrow"][d] >= Spread(ByDenom(d), A) + Held(P, d)

Exposes(A, G, g, d) ==
    Dec * LimitsOf(g, d, G) + Spread(ByGranter(g, d), A) <= Dec * LimitsOf(g, d, Limits)

\* What the store keeps between two operations.  Of the payments another account
\* collects only what every settlement keeps is said: what is owed is overdrawn.
IInv ==
    /\ StateType /\ Owing(pay)
    /\ \A a \in Accounts : Sound(acct[a], pay, a, height)
    /\ \A d \in Denoms : Covers(acct, pay, bank, d)
    /\ \A g : \A d \in Denoms : Exposes(acct, grant, g, d)

\* What an account's own payments are owed is part of what those it collects are.
LEMMA OwnAtMost ==
    ASSUME NEW P \in Payments0, NEW a \in Accounts
    PROVE  AtMostThen(Unsettled(P, PaymentsOf(a)), Unsettled(P, Scope(a)))
  <1>. DEFINE S == Scope(a)
              T == PaymentsOf(a)
              f == [p \in S |-> P[p].unsettled]
              g == [p \in S |-> IF p \in T THEN P[p].unsettled ELSE 0]
              e == [p \in T |-> P[p].unsettled]
  <1>1. T \subseteq S /\ S \subseteq Payments
    BY EscrowAssumption DEF Scope, PaymentsOf
  <1>2. IsFiniteSet(S) /\ IsFiniteSet(T)
    BY <1>1, PaymentsFinite, FS_Subset
  <1>3. \A p \in S : P[p].unsettled \in Nat
    BY <1>1 DEF Payments0, PaymentType
  <1>4. /\ \A p \in S : f[p] \in Nat /\ g[p] \in Nat /\ g[p] <= f[p]
        /\ \A p \in S \ T : g[p] = 0
        /\ \A p \in T : g[p] = e[p] /\ e[p] \in Nat
    BY <1>1, <1>3
  <1>5. Unsettled(P, S) = Total(f, S) /\ Unsettled(P, T) = Total(e, T)
    <2>1. DOMAIN f = S /\ DOMAIN e = T
      OBVIOUS
    <2>. QED
      BY <2>1, SumOfIsTotal DEF Unsettled
  <1>. HIDE DEF f, g, e, S, T
  <1>6. Total(g, S) = Total(e, T)
    BY <1>1, <1>2, <1>4, TotalWithin
  <1>7. Total(g, S) <= Total(f, S) /\ Total(g, S) \in Nat /\ Total(f, S) \in Nat
    BY <1>2, <1>4, TotalAtMost, TotalNat
  <1>. QED
    BY <1>5, <1>6, <1>7 DEF AtMostThen, S, T

LEMMA SpreadMoves ==
    ASSUME NEW f \in [Deposits -> Nat], NEW A \in [Accounts -> AccountType], NEW a \in Accounts,
           NEW acc \in AccountType
    PROVE  Moves(Spread(f, [A EXCEPT ![a] = acc]), Spread(f, A),
                 Tally(f, A[a].deposits), Tally(f, acc.deposits))
  <1>. DEFINE B == [A EXCEPT ![a] = acc]
              x == [b \in Accounts |-> Tally(f, A[b].deposits)]
              y == [b \in Accounts |-> Tally(f, B[b].deposits)]
  <1>1. B \in [Accounts -> AccountType] /\ B[a] = acc /\ \A b \in Accounts : b # a => B[b] = A[b]
    OBVIOUS
  <1>. HIDE DEF B
  <1>2. ASSUME NEW b \in Accounts PROVE Tally(f, A[b].deposits) \in Nat /\ Tally(f, B[b].deposits) \in Nat
    <2>1. A[b].deposits \in Seq(Deposits) /\ B[b].deposits \in Seq(Deposits)
      BY <1>1 DEF AccountType
    <2>. QED
      BY <2>1, FirstSteps
  <1>3. /\ \A b \in Accounts : x[b] \in Int /\ y[b] \in Int
        /\ \A b \in Accounts : b # a => x[b] = y[b]
        /\ x[a] = Tally(f, A[a].deposits) /\ y[a] = Tally(f, acc.deposits)
        /\ DOMAIN x = Accounts /\ DOMAIN y = Accounts
    BY <1>1, <1>2
  <1>4. Spread(f, A) = Total(x, Accounts) /\ Spread(f, B) = Total(y, Accounts)
    BY <1>3, SumOfIsTotal DEF Spread
  <1>. HIDE DEF x, y
  <1>5. /\ Total(x, Accounts) \in Int /\ Total(y, Accounts) \in Int
        /\ Total(y, Accounts) = Total(x, Accounts) - x[a] + y[a]
    <2>1. IsFiniteSet(Accounts)
      BY EscrowAssumption
    <2>2. /\ \A b \in Accounts : x[b] \in Int /\ y[b] \in Int
          /\ \A b \in Accounts : b # a => x[b] = y[b]
      BY <1>3
    <2>. QED
      BY <2>1, <2>2, TotalChange
  <1>6. Moves(Spread(f, B), Spread(f, A), Tally(f, A[a].deposits), Tally(f, acc.deposits))
    BY <1>3, <1>4, <1>5 DEF Moves
  <1>. QED
    BY <1>6 DEF B

LEMMA BalancesRise ==
    ASSUME NEW P \in Payments0, NEW Q \in Payments0, Earns(P, Q)
    PROVE  AtMostThen(Balances(P), Balances(Q))
  <1>. DEFINE f == [q \in Payments |-> P[q].balance]
              g == [q \in Payments |-> Q[q].balance]
  <1>1. /\ \A q \in Payments : f[q] \in Nat /\ g[q] \in Nat /\ f[q] <= g[q]
        /\ DOMAIN f = Payments /\ DOMAIN g = Payments
    BY DEF Payments0, PaymentType, Earns
  <1>2. Balances(P) = Total(f, Payments) /\ Balances(Q) = Total(g, Payments)
    BY <1>1, SumOfIsTotal DEF Balances
  <1>. HIDE DEF f, g
  <1>3. Total(f, Payments) <= Total(g, Payments)
    BY <1>1, PaymentsFinite, TotalAtMost
  <1>4. Total(f, Payments) \in Nat /\ Total(g, Payments) \in Nat
    BY <1>1, PaymentsFinite, TotalNat
  <1>. QED
    BY <1>2, <1>3, <1>4 DEF AtMostThen

\* The world an operation on an account starts from.
LEMMA WorldIs ==
    ASSUME IInv, NEW a \in Accounts
    PROVE  LET w == World(a)
           IN  /\ w \in Tellers /\ w \in Worlds
               /\ w.acc = acct[a] /\ w.pay = pay /\ w.bank = bank /\ w.grant = grant
               /\ w.due = <<>> /\ ~w.overdrawn
  <1>. DEFINE w == World(a)
  <1>1. /\ w.acc = acct[a] /\ w.pay = pay /\ w.bank = bank /\ w.grant = grant
        /\ w.due = <<>> /\ ~w.overdrawn
    BY DEF World
  <1>2. acct[a] \in AccountType /\ pay \in Payments0 /\ bank \in BankType /\ grant \in GrantType
    BY DEF IInv, StateType, BankHolds, BankType
  <1>3. w \in Worlds
    BY <1>2 DEF World, Worlds, Payments0
  <1>4. Told(w.acc)
    BY <1>1 DEF IInv, Sound
  <1>. QED
    BY <1>1, <1>3, <1>4 DEF Tellers

-----------------------------------------------------------------------------
(* What a committed operation keeps *)

\* What an operation on an account leaves of it and of its payments.
Leaves(w, a) ==
    /\ w \in Worlds /\ Safe(World(a), w)
    /\ \A p \in Payments : p \notin Scope(a) => w.pay[p] = pay[p]
    /\ Owing(w.pay)
    /\ Sound(w.acc, w.pay, a, height)

LEMMA CommitKeeps ==
    ASSUME IInv, NEW a \in Accounts, NEW w, Leaves(w, a), Commit(a, w)
    PROVE  IInv'
  <1>. DEFINE v == World(a)
              A == [acct EXCEPT ![a] = w.acc]
  <1>1. /\ v \in Worlds /\ v.acc = acct[a] /\ v.pay = pay /\ v.bank = bank /\ v.grant = grant
    BY WorldIs
  <1>. HIDE DEF v
  <1>2. /\ w \in Worlds /\ Safe(v, w) /\ Sound(w.acc, w.pay, a, height)
        /\ \A p \in Payments : p \notin Scope(a) => w.pay[p] = pay[p]
        /\ Owing(w.pay)
    BY DEF Leaves, v
  <1>3. /\ w.acc \in AccountType /\ w.pay \in Payments0 /\ w.bank \in BankType
        /\ w.grant \in GrantType
    BY <1>2, WorldFields
  <1>4. /\ acct' = A /\ pay' = w.pay /\ bank' = w.bank /\ grant' = w.grant /\ height' = height
        /\ Covered(w.bank)
    BY DEF Commit
  <1>5. acct \in [Accounts -> AccountType] /\ height \in Nat
    BY DEF IInv, StateType
  <1>6. A \in [Accounts -> AccountType] /\ A[a] = w.acc /\ \A b \in Accounts : b # a => A[b] = acct[b]
    BY <1>3, <1>5
  <1>7. w.bank \in [Holders -> [Denoms -> Nat]]
    <2>1. \A h \in Holders, d \in Denoms : w.bank[h][d] \in Int /\ w.bank[h][d] >= 0
      BY <1>3, <1>4 DEF BankType, Covered
    <2>2. \A h \in Holders : w.bank[h] \in [Denoms -> Nat]
      BY <1>3, <2>1 DEF BankType
    <2>. QED
      BY <1>3, <2>2 DEF BankType
  <1>8. ASSUME NEW b \in Accounts PROVE Sound(A[b], w.pay, b, height)
    <2>1. CASE b = a
      BY <1>2, <1>6, <2>1
    <2>2. CASE b # a
      <3>1. Sound(acct[b], pay, b, height)
        BY DEF IInv
      <3>2. PaysOk(acct[b], w.pay, b, height)
        <4>1. ASSUME Untouched(b), NEW p \in PaymentsOf(b) PROVE w.pay[p] = pay[p]
          BY <1>2, <2>2, <4>1 DEF PaymentsOf, Scope, Untouched
        <4>2. Untouched(b) => Unsettled(w.pay, PaymentsOf(b)) = Unsettled(pay, PaymentsOf(b))
          BY <4>1, UnsettledSame
        <4>. QED
          BY <3>1, <4>1, <4>2 DEF Sound, PaysOk
      <3>. QED
        BY <1>6, <2>2, <3>1, <3>2 DEF Sound
    <2>. QED
      BY <2>1, <2>2
  <1>9. ASSUME NEW d \in Denoms PROVE Covers(A, w.pay, w.bank, d)
    <2>. DEFINE f == ByDenom(d)
                x == Dec * bank["escrow"][d]
                y == Dec * w.bank["escrow"][d]
                h0 == Held(pay, d)
                h1 == Held(w.pay, d)
                s0 == Spread(f, acct)
                s1 == Spread(f, A)
                t0 == Tally(f, acct[a].deposits)
                t1 == Tally(f, w.acc.deposits)
    <2>1. Moves(s1, s0, t0, t1)
      BY <1>3, <1>5, SpreadMoves, Weights
    <2>2. x - t0 - h0 <= y - t1 - h1
      BY <1>1, <1>2 DEF Safe, Room
    <2>3. x >= s0 + h0
      BY DEF IInv, Covers
    <2>4. x \in Int /\ y \in Int /\ h0 \in Int /\ h1 \in Int
      BY <1>1, <1>2, SafeTypes
    <2>. HIDE DEF f, x, y, h0, h1, s0, s1, t0, t1
    <2>5. y >= s1 + h1
      BY <2>1, <2>2, <2>3, <2>4 DEF Moves
    <2>. QED
      BY <2>5 DEF Covers, y, s1, h1, f
  <1>10. ASSUME NEW g, NEW d \in Denoms PROVE Exposes(A, w.grant, g, d)
    <2>. DEFINE f == ByGranter(g, d)
                x == Dec * LimitsOf(g, d, grant)
                y == Dec * LimitsOf(g, d, w.grant)
                most == Dec * LimitsOf(g, d, Limits)
                s0 == Spread(f, acct)
                s1 == Spread(f, A)
                t0 == Tally(f, acct[a].deposits)
                t1 == Tally(f, w.acc.deposits)
    <2>1. Moves(s1, s0, t0, t1)
      BY <1>3, <1>5, SpreadMoves, Weights
    <2>2. y + t1 <= x + t0
      BY <1>1, <1>2 DEF Safe, Exposed
    <2>3. x + s0 <= most
      BY DEF IInv, Exposes
    <2>4. x \in Int /\ y \in Int
      BY <1>1, <1>2, SafeTypes
    <2>5. most \in Int
      <3>1. Limits \in GrantType
        BY EscrowAssumption DEF GrantType
      <3>. QED
        BY <3>1, LimitsType, Scaled
    <2>. HIDE DEF f, x, y, s0, s1, t0, t1, most
    <2>6. y + s1 <= most
      BY <2>1, <2>2, <2>3, <2>4, <2>5 DEF Moves
    <2>. QED
      BY <2>6 DEF Exposes, y, s1, most, f
  <1>. HIDE DEF A
  <1>11. StateType' /\ Owing(pay)'
    BY <1>2, <1>3, <1>4, <1>5, <1>6, <1>7 DEF StateType, BankHolds, Owing
  <1>12. (\A b \in Accounts : Sound(acct[b], pay, b, height))'
    BY <1>4, <1>8
  <1>13. (\A d \in Denoms : Covers(acct, pay, bank, d))'
    BY <1>4, <1>9
  <1>14. (\A g : \A d \in Denoms : Exposes(acct, grant, g, d))'
    BY <1>4, <1>10
  <1>. QED
    BY <1>11, <1>12, <1>13, <1>14 DEF IInv

LEMMA BlockKeeps ==
    ASSUME IInv, NextBlock
    PROVE  IInv'
  <1>1. height \in Nat /\ height' = height + 1 /\ UNCHANGED <<acct, pay, bank, grant>>
    BY DEF IInv, StateType, NextBlock
  <1>2. ASSUME NEW a \in Accounts PROVE Sound(acct[a], pay, a, height + 1)
    <2>1. Sound(acct[a], pay, a, height) /\ acct[a].settledAt \in Nat
      BY DEF IInv, StateType, AccountType
    <2>2. acct[a].settledAt <= height + 1
      BY <1>1, <2>1 DEF Sound, AccOk
    <2>3. ASSUME Untouched(a), NEW p \in PaymentsOf(a) PROVE PayOk(acct[a], pay[p], height + 1)
      <3>1. PayOk(acct[a], pay[p], height)
        BY <2>1, <2>3 DEF Sound, PaysOk
      <3>2. pay[p] \in PaymentType
        BY DEF IInv, StateType, Payments0, PaymentsOf
      <3>3. Charge(pay[p]) \in Int /\ pay[p].rate \in Nat /\ pay[p].since \in Nat
        BY <1>1, <3>2, ChargeTypes
      <3>4. Charge(pay[p]) <= pay[p].rate * ((height + 1) - pay[p].since)
        <4>. DEFINE r == pay[p].rate
                    x == pay[p].since
                    early == r * (height - x)
                    late == r * ((height + 1) - height)
        <4>1. r \in Nat /\ x \in Int /\ height \in Int /\ height + 1 \in Int
          BY <1>1, <3>3
        <4>2. Charge(pay[p]) <= early
          BY <3>1 DEF PayOk
        <4>. HIDE DEF r, x
        <4>3. early + late = r * ((height + 1) - x)
          BY <4>1, RateAdds
        <4>4. late = r /\ early \in Int
          BY <4>1
        <4>. HIDE DEF early, late
        <4>5. Charge(pay[p]) <= r * ((height + 1) - x)
          BY <3>3, <4>1, <4>2, <4>3, <4>4
        <4>. QED
          BY <4>5 DEF r, x
      <3>5. /\ pay[p].unsettled > 0 => pay[p].state = "overdrawn"
            /\ acct[a].state # "overdrawn" => pay[p].unsettled = 0
            /\ acct[a].state = "none" => pay[p].state = "none"
        BY <3>1 DEF PayOk
      <3>6. acct[a].state = "open" /\ pay[p].state = "open" =>
                Charge(pay[p]) <= pay[p].rate * (acct[a].settledAt - pay[p].since)
        BY <3>1 DEF PayOk
      <3>. QED
        BY <3>4, <3>5, <3>6 DEF PayOk
    <2>. QED
      BY <2>1, <2>2, <2>3 DEF Sound, AccOk, PaysOk
  <1>3. StateType' /\ Owing(pay)'
    BY <1>1 DEF StateType, BankHolds, IInv, Owing
  <1>. QED
    BY <1>1, <1>2, <1>3 DEF IInv

-----------------------------------------------------------------------------
(* What the parts of an operation leave *)

\* Leaves, before saveAccount.
Fits(v, a) ==
    /\ v \in Tellers /\ Safe(World(a), v)
    /\ \A p \in Payments : p \notin Scope(a) => v.pay[p] = pay[p]
    /\ Owing(v.pay)
    /\ AccOk(v.acc, height) /\ PaysOk(v.acc, v.pay, a, height)

LEMMA TellersAre ==
    ASSUME NEW v \in Tellers
    PROVE  v \in Worlds /\ Told(v.acc)
  BY DEF Tellers

LEMMA PaysOkSame ==
    ASSUME NEW acc, NEW after, NEW P, NEW a, NEW h, PaysOk(acc, P, a, h),
           after.state = acc.state, after.settledAt = acc.settledAt, Debt(after) = Debt(acc)
    PROVE  PaysOk(after, P, a, h)
  <1>1. ASSUME Untouched(a), NEW p \in PaymentsOf(a) PROVE PayOk(after, P[p], h)
    <2>1. PayOk(acc, P[p], h)
      BY <1>1 DEF PaysOk
    <2>. QED
      BY <2>1 DEF PayOk
  <1>. QED
    BY <1>1 DEF PaysOk

LEMMA SaveFits ==
    ASSUME IInv, NEW a \in Accounts, NEW v, Fits(v, a)
    PROVE  Leaves(SaveAccount(v, a), a)
  <1>. DEFINE s == SaveAccount(v, a)
              w == World(a)
  <1>1. /\ v \in Tellers /\ v \in Worlds /\ Safe(w, v)
        /\ \A p \in Payments : p \notin Scope(a) => v.pay[p] = pay[p]
        /\ AccOk(v.acc, height) /\ PaysOk(v.acc, v.pay, a, height) /\ Owing(v.pay)
    BY TellersAre DEF Fits
  <1>2. Saves(v, s)
    BY <1>1, SaveEffect
  <1>3. w \in Worlds
    BY WorldIs
  <1>. HIDE DEF s, w
  <1>4. /\ s \in Tellers /\ s \in Worlds /\ Told(s.acc) /\ Safe(v, s) /\ s.pay = v.pay
        /\ s.acc.state = v.acc.state /\ s.acc.settledAt = v.acc.settledAt
        /\ Ended(s.acc) /\ Debt(s.acc) = Debt(v.acc)
        /\ v.acc.funds[Prim] < 0 => s.acc.funds[Prim] < 0
    BY <1>2, TellersAre DEF Saves, Ended
  <1>5. Safe(w, s)
    BY <1>1, <1>3, <1>4, SafeChains
  <1>6. AccOk(s.acc, height)
    BY <1>1, <1>4 DEF AccOk
  <1>7. PaysOk(s.acc, s.pay, a, height)
    BY <1>1, <1>4, PaysOkSame
  <1>. QED
    BY <1>1, <1>4, <1>5, <1>6, <1>7 DEF Leaves, Sound, s, w

LEMMA PaysOutOk ==
    ASSUME NEW acc, NEW a, NEW h, NEW v \in Worlds, NEW w \in Worlds, PaysOut(v, w, a),
           PaysOk(acc, v.pay, a, h)
    PROVE  PaysOk(acc, w.pay, a, h)
  <1>1. ASSUME Untouched(a), NEW p \in PaymentsOf(a)
        PROVE  PayOk(acc, w.pay[p], h) /\ w.pay[p].unsettled = v.pay[p].unsettled
    <2>1. PayOk(acc, v.pay[p], h) /\ p \in Payments
      BY <1>1 DEF PaysOk, PaymentsOf
    <2>2. /\ w.pay[p].rate = v.pay[p].rate /\ w.pay[p].since = v.pay[p].since
          /\ w.pay[p].unsettled = v.pay[p].unsettled /\ Charge(w.pay[p]) = Charge(v.pay[p])
          /\ \/ w.pay[p].state = v.pay[p].state
             \/ v.pay[p].state = "open" /\ w.pay[p].state = "closed"
      BY <2>1 DEF PaysOut
    <2>. QED
      BY <2>1, <2>2 DEF PayOk
  <1>2. Untouched(a) => Unsettled(w.pay, PaymentsOf(a)) = Unsettled(v.pay, PaymentsOf(a))
    BY <1>1, UnsettledSame
  <1>. QED
    BY <1>1, <1>2 DEF PaysOk

LEMMA PaysOutFits ==
    ASSUME IInv, NEW a \in Accounts, NEW v, Fits(v, a), NEW w \in Worlds, PaysOut(v, w, a)
    PROVE  Fits(w, a)
  <1>1. /\ v \in Tellers /\ v \in Worlds /\ Told(v.acc) /\ Safe(World(a), v)
        /\ \A p \in Payments : p \notin Scope(a) => v.pay[p] = pay[p]
        /\ AccOk(v.acc, height) /\ PaysOk(v.acc, v.pay, a, height) /\ Owing(v.pay)
    BY TellersAre DEF Fits
  <1>2. Safe(World(a), w)
    <2>1. World(a) \in Worlds /\ Safe(v, w)
      BY WorldIs DEF PaysOut
    <2>. QED
      BY <1>1, <2>1, SafeChains
  <1>3. w \in Tellers /\ w.acc = v.acc
    BY <1>1 DEF PaysOut, Safe, Tellers
  <1>4. PaysOk(w.acc, w.pay, a, height)
    BY <1>1, <1>3, PaysOutOk
  <1>5. (\A p \in Payments : p \notin Scope(a) => w.pay[p] = pay[p]) /\ Owing(w.pay)
    BY <1>1 DEF PaysOut, Owing
  <1>. QED
    BY <1>1, <1>2, <1>3, <1>4, <1>5 DEF Fits

LEMMA Restates ==
    ASSUME NEW v \in Tellers, NEW state \in States
    PROVE  LET w == [v EXCEPT !.acc.state = state]
           IN  /\ w \in Tellers /\ Safe(v, w)
               /\ w.pay = v.pay /\ w.due = v.due /\ w.overdrawn = v.overdrawn
               /\ w.acc.state = state /\ w.acc.settledAt = v.acc.settledAt
               /\ w.acc.funds = v.acc.funds
  <1>. DEFINE w == [v EXCEPT !.acc.state = state]
              A == [v.acc EXCEPT !.state = state]
  <1>1. v \in Worlds /\ Told(v.acc) /\ v.acc \in AccountType
    BY TellersAre, WorldFields
  <1>2. /\ A \in AccountType /\ A.state = state /\ A.settledAt = v.acc.settledAt
        /\ A.funds = v.acc.funds /\ A.deposits = v.acc.deposits
    BY <1>1 DEF AccountType
  <1>3. w = [v EXCEPT !.acc = A]
    BY <1>1 DEF Worlds, AccountType
  <1>. HIDE DEF w, A
  <1>4. /\ w \in Worlds /\ w.acc = A /\ w.pay = v.pay /\ w.bank = v.bank /\ w.grant = v.grant
        /\ w.due = v.due /\ w.overdrawn = v.overdrawn
    BY <1>1, <1>2, <1>3 DEF Worlds
  <1>5. Safe(v, w)
    BY <1>1, <1>2, <1>4, SameRecord
  <1>6. w \in Tellers
    BY <1>1, <1>4, <1>5 DEF Safe, Tellers
  <1>. QED
    BY <1>2, <1>4, <1>5, <1>6 DEF w

\* Which state the account may get after a settlement.
MayBe(state, s) ==
    \/ state = s.acc.state /\ (state = "overdrawn" => s.overdrawn)
    \/ state = "closed" /\ (s.acc.state = "open" \/ ~s.overdrawn)

LEMMA SettledPays ==
    ASSUME pay \in Payments0, height \in Nat, NEW a \in Accounts, NEW w, Before(w, a),
           w.acc.state \in {"open", "overdrawn"},
           w.acc.funds[Prim] < 0 => PaysOk(w.acc, pay, a, height),
           NEW s, Settles(w, s, a),
           NEW acc, acc.funds = s.acc.funds, acc.settledAt = s.acc.settledAt, MayBe(acc.state, s)
    PROVE  AccOk(acc, height) /\ PaysOk(acc, s.pay, a, height) /\ Owing(s.pay)
  <1>1. /\ w.acc.settledAt <= height /\ s \in Tellers /\ s \in Worlds /\ height <= height
        /\ Owing(pay)
    BY TellersAre DEF Before, Settles
  <1>2. Debt(acc) = Debt(s.acc)
    BY DEF Debt
  <1>3. CASE w.acc.funds[Prim] < 0
    <2>1. s.overdrawn /\ s.acc = w.acc /\ s.pay = pay /\ PaysOk(s.acc, s.pay, a, height)
      BY <1>3 DEF Settles
    <2>2. CASE acc.state = s.acc.state
      <3>1. PaysOk(acc, s.pay, a, height)
        BY <1>2, <2>1, <2>2, PaysOkSame
      <3>. QED
        BY <1>1, <1>3, <2>1, <3>1 DEF AccOk
    <2>3. CASE acc.state = "closed" /\ s.acc.state = "open"
      <3>1. ASSUME Untouched(a), NEW p \in PaymentsOf(a) PROVE PayOk(acc, s.pay[p], height)
        <4>1. PayOk(s.acc, s.pay[p], height)
          BY <2>1, <3>1 DEF PaysOk
        <4>. QED
          BY <2>3, <4>1 DEF PayOk
      <3>. QED
        BY <1>1, <2>1, <2>3, <3>1 DEF AccOk, PaysOk
    <2>. QED
      BY <2>1, <2>2, <2>3 DEF MayBe
  <1>4. CASE ~(w.acc.funds[Prim] < 0)
    <2>1. /\ s.acc.settledAt = IF w.acc.state = "open" THEN height ELSE w.acc.settledAt
          /\ \/ s.overdrawn /\ s.acc.state = "overdrawn" /\ s.acc.funds[Prim] < 0
             \/ ~s.overdrawn /\ s.acc.state = w.acc.state
          /\ \A p \in Scope(a) : Settled(s, p)
          /\ \A p \in Payments : p \notin Scope(a) => s.pay[p] = pay[p]
          /\ Unsettled(s.pay, Scope(a)) <= Debt(s.acc)
      BY <1>4 DEF Settles
    <2>2. AccOk(acc, height)
      BY <1>1, <2>1 DEF AccOk, MayBe
    <2>3. acc.state = "overdrawn" \/ ~s.overdrawn
      BY <2>1 DEF MayBe
    <2>4. acc.state = "open" => acc.settledAt = height
      BY <2>1 DEF MayBe
    <2>5. acc.state # "none"
      BY <2>1 DEF MayBe
    <2>6. ASSUME Untouched(a), NEW p \in PaymentsOf(a) PROVE PayOk(acc, s.pay[p], height)
      <3>1. p \in Scope(a) /\ Alone(p)
        BY <2>6, EscrowAssumption DEF Scope, PaymentsOf, Alone
      <3>2. /\ s.pay[p].unsettled > 0 => s.pay[p].state = "overdrawn"
            /\ ~s.overdrawn => s.pay[p].unsettled = 0
            /\ Charge(s.pay[p]) <= s.pay[p].rate * (height - s.pay[p].since)
        BY <2>1, <3>1 DEF Settled, Allowed
      <3>. QED
        BY <2>3, <2>4, <2>5, <3>2 DEF PayOk
    <2>7. Unsettled(s.pay, PaymentsOf(a)) <= Debt(acc)
      <3>1. AtMostThen(Unsettled(s.pay, PaymentsOf(a)), Unsettled(s.pay, Scope(a)))
        BY <1>1, OwnAtMost, WorldFields
      <3>2. Debt(s.acc) \in Int
        BY <1>1, WorldFields DEF Debt, Denoms
      <3>. QED
        BY <1>2, <2>1, <3>1, <3>2 DEF AtMostThen
    <2>8. Owing(s.pay)
      BY <1>1, <2>1 DEF Owing, Settled
    <2>. QED
      BY <2>2, <2>6, <2>7, <2>8 DEF PaysOk
  <1>. QED
    BY <1>3, <1>4

\* The account of an operation, before it is settled.
LEMMA BeforeIs ==
    ASSUME IInv, NEW a \in Accounts, acct[a].state \in {"open", "overdrawn"}
    PROVE  /\ Before(World(a), a) /\ PaysOk(World(a).acc, pay, a, height)
           /\ World(a).acc.state \in {"open", "overdrawn"}
           /\ World(a).acc.state = "overdrawn" => World(a).acc.funds[Prim] < 0
           /\ pay \in Payments0 /\ height \in Nat
  <1>. DEFINE w == World(a)
  <1>1. /\ w \in Tellers /\ w.acc = acct[a] /\ w.pay = pay /\ w.due = <<>> /\ ~w.overdrawn
    BY WorldIs
  <1>. HIDE DEF w
  <1>2. AccOk(w.acc, height) /\ PaysOk(w.acc, pay, a, height) /\ Owing(pay)
    BY <1>1 DEF IInv, Sound
  <1>3. ASSUME NEW p \in Scope(a), Alone(p)
        PROVE  /\ Charge(pay[p]) <= Allowed(pay[p])
               /\ w.acc.state = "open" /\ pay[p].state = "open" =>
                      Charge(pay[p]) <= pay[p].rate * (w.acc.settledAt - pay[p].since)
    <2>1. Untouched(a) /\ p \in PaymentsOf(a)
      BY <1>3 DEF Scope, Alone, Untouched, PaymentsOf
    <2>. QED
      BY <1>2, <2>1 DEF PaysOk, PayOk, Allowed
  <1>4. Before(w, a)
    BY <1>1, <1>2, <1>3 DEF Before, AccOk
  <1>. QED
    BY <1>1, <1>2, <1>4 DEF w, AccOk, IInv, StateType

-----------------------------------------------------------------------------
(* The operations that settle *)

LEMMA PricesAre ==
    /\ \A price \in Prices \cup {0} : price \in Nat
    /\ \A amount \in Amounts : amount \in Nat
    /\ \A sources \in SourceLists : sources \in Seq(SourceNames)
    /\ \A signer \in Tenants : signer \in DOMAIN Wallets
    /\ \A rate \in Rates : rate \in Nat
    /\ \A p \in Payments : /\ AccountOf[p] \in Accounts /\ p \in PaymentsOf(AccountOf[p])
                           /\ p \in Scope(AccountOf[p])
  BY EscrowAssumption DEF SourceNames, PaymentsOf, Scope

LEMMA SettlementsAre ==
    ASSUME pay \in Payments0, height \in Nat, NEW a, NEW w, Before(w, a), NEW s \in Settlements(w, a)
    PROVE  Settles(w, s, a)
  <1>1. PICK price \in Prices \cup {0} : s = Settle(w, a, price)
    BY DEF Settlements
  <1>2. price \in Nat
    BY PricesAre
  <1>. QED
    BY <1>1, <1>2, SettleEffect

LEMMA NoneListed ==
    ASSUME NEW a
    PROVE  Lists(<<>>, a)
  BY DEF Lists

\* What a settlement leaves, whether the account keeps its state or is closed.
LEMMA SettledFits ==
    ASSUME IInv, NEW a \in Accounts, acct[a].state \in {"open", "overdrawn"},
           NEW s \in Settlements(World(a), a)
    PROVE  /\ s \in Worlds /\ Lists(s.due, a) /\ Fits(s, a)
           /\ LET t == [s EXCEPT !.acc.state = IF @ = "open" THEN "closed" ELSE @]
              IN  t \in Worlds /\ Lists(t.due, a) /\ Fits(t, a)
           /\ ~s.overdrawn =>
                 /\ acct[a].state = "open" /\ s.acc.state = "open" /\ s.acc.settledAt = height
                 /\ Earns(pay, s.pay)
  <1>. DEFINE w == World(a)
              state == IF s.acc.state = "open" THEN "closed" ELSE s.acc.state
              t == [s EXCEPT !.acc.state = state]
  <1>1. /\ w \in Worlds /\ w.acc = acct[a] /\ w.acc.state \in {"open", "overdrawn"}
        /\ w.acc.state = "overdrawn" => w.acc.funds[Prim] < 0
        /\ Before(w, a) /\ PaysOk(w.acc, pay, a, height)
        /\ pay \in Payments0 /\ height \in Nat
    BY WorldIs, BeforeIs
  <1>. HIDE DEF w
  <1>2. Settles(w, s, a)
    BY <1>1, SettlementsAre DEF w
  <1>3. s \in Tellers /\ s \in Worlds /\ Safe(w, s)
    BY <1>2, TellersAre DEF Settles
  <1>4. \A p \in Payments : p \notin Scope(a) => s.pay[p] = pay[p]
    BY <1>2 DEF Settles
  <1>5. Lists(s.due, a)
    BY <1>2, NoneListed DEF Settles
  <1>6. /\ s.acc.state = "overdrawn" => s.overdrawn
        /\ s.acc.state \in {"open", "overdrawn"}
        /\ ~s.overdrawn =>
                 /\ acct[a].state = "open" /\ s.acc.state = "open" /\ s.acc.settledAt = height
                 /\ Earns(pay, s.pay)
    BY <1>1, <1>2 DEF Settles
  <1>7. Fits(s, a)
    <2>1. AccOk(s.acc, height) /\ PaysOk(s.acc, s.pay, a, height) /\ Owing(s.pay)
      BY <1>1, <1>2, <1>6, SettledPays DEF MayBe
    <2>. QED
      BY <1>3, <1>4, <2>1 DEF Fits, w
  <1>8. t \in Worlds /\ Lists(t.due, a) /\ Fits(t, a)
    <2>1. state \in States
      BY <1>6 DEF States
    <2>2. MayBe(state, s)
      BY <1>6 DEF MayBe
    <2>. HIDE DEF state
    <2>3. /\ t \in Tellers /\ Safe(s, t) /\ t.pay = s.pay /\ t.due = s.due
          /\ t.acc.state = state /\ t.acc.settledAt = s.acc.settledAt /\ t.acc.funds = s.acc.funds
      BY <1>3, <2>1, Restates
    <2>. HIDE DEF t
    <2>4. AccOk(t.acc, height) /\ PaysOk(t.acc, s.pay, a, height) /\ Owing(s.pay)
      BY <1>1, <1>2, <2>2, <2>3, SettledPays
    <2>5. t \in Worlds /\ Safe(w, t)
      BY <1>1, <1>3, <2>3, TellersAre, SafeChains
    <2>. QED
      BY <1>4, <1>5, <2>3, <2>4, <2>5 DEF Fits, w
  <1>9. t = [s EXCEPT !.acc.state = IF @ = "open" THEN "closed" ELSE @]
    BY <1>3 DEF Worlds, AccountType
  <1>. QED
    BY <1>3, <1>5, <1>6, <1>7, <1>8, <1>9

LEMMA AccountSettleKeeps ==
    ASSUME IInv, NEW a \in Accounts, AccountSettle(a)
    PROVE  IInv'
  <1>1. PICK s \in Settlements(World(a), a) : Commit(a, SaveAccount(s, a))
    BY DEF AccountSettle
  <1>2. Fits(s, a)
    BY SettledFits DEF AccountSettle
  <1>. QED
    BY <1>1, <1>2, SaveFits, CommitKeeps

LEMMA AccountCloseKeeps ==
    ASSUME IInv, NEW a \in Accounts, AccountClose(a)
    PROVE  IInv'
  <1>1. PICK s \in Settlements(World(a), a) :
            Commit(a, SaveAccount(
                CloseDue([s EXCEPT !.acc.state = IF @ = "open" THEN "closed" ELSE @]), a))
    BY DEF AccountClose
  <1>. DEFINE t == [s EXCEPT !.acc.state = IF @ = "open" THEN "closed" ELSE @]
  <1>2. t \in Worlds /\ Lists(t.due, a) /\ Fits(t, a)
    BY SettledFits DEF AccountClose
  <1>. HIDE DEF t
  <1>3. CloseDue(t) \in Worlds /\ PaysOut(t, CloseDue(t), a)
    BY <1>2, DuePaysOut
  <1>4. Leaves(SaveAccount(CloseDue(t), a), a)
    BY <1>2, <1>3, PaysOutFits, SaveFits
  <1>. QED
    BY <1>1, <1>4, CommitKeeps DEF t

LEMMA PaymentWithdrawKeeps ==
    ASSUME IInv, NEW p \in Payments, PaymentWithdraw(p)
    PROVE  IInv'
  <1>. DEFINE a == AccountOf[p]
  <1>1. a \in Accounts /\ p \in Scope(a) /\ acct[a].state \in {"open", "overdrawn"}
    BY PricesAre DEF PaymentWithdraw
  <1>2. PICK s \in Settlements(World(a), a) :
            Commit(a, SaveAccount(IF s.overdrawn THEN s ELSE Withdraw(s, p), a))
    BY DEF PaymentWithdraw
  <1>. HIDE DEF a
  <1>3. s \in Worlds /\ Fits(s, a)
    BY <1>1, SettledFits
  <1>4. Fits(Withdraw(s, p), a)
    BY <1>1, <1>3, WithdrawPaysOut, PaysOutFits
  <1>5. Leaves(SaveAccount(IF s.overdrawn THEN s ELSE Withdraw(s, p), a), a)
    BY <1>1, <1>3, <1>4, SaveFits
  <1>. QED
    BY <1>1, <1>2, <1>5, CommitKeeps

LEMMA PaymentCloseKeeps ==
    ASSUME IInv, NEW p \in Payments, PaymentClose(p)
    PROVE  IInv'
  <1>. DEFINE a == AccountOf[p]
  <1>1. a \in Accounts /\ p \in Scope(a) /\ acct[a].state \in {"open", "overdrawn"}
    BY PricesAre DEF PaymentClose
  <1>2. PICK s \in Settlements(World(a), a) :
            Commit(a, SaveAccount(IF p \in ToSet(s.due) THEN ClosePayment(s, p) ELSE s, a))
    BY DEF PaymentClose
  <1>. HIDE DEF a
  <1>3. s \in Worlds /\ Fits(s, a)
    BY <1>1, SettledFits
  <1>4. Fits(ClosePayment(s, p), a)
    BY <1>1, <1>3, ClosePaysOut, PaysOutFits
  <1>5. Leaves(SaveAccount(IF p \in ToSet(s.due) THEN ClosePayment(s, p) ELSE s, a), a)
    BY <1>1, <1>3, <1>4, SaveFits
  <1>. QED
    BY <1>1, <1>2, <1>5, CommitKeeps

\* The new payment is written over the old payments, so what the settlement gave
\* the others stays in the escrow.
LEMMA PaymentCreated ==
    ASSUME IInv, NEW p \in Payments, NEW rate \in Rates, PaymentCreate(p, rate)
    PROVE  \E s \in Settlements(World(AccountOf[p]), AccountOf[p]), w \in Worlds :
               /\ Leaves(w, AccountOf[p]) /\ Commit(AccountOf[p], w) /\ ~s.overdrawn
               /\ w.acc = s.acc /\ w.pay[p].state = "open"
               /\ \A q \in Payments : q # p => w.pay[q] = pay[q]
  <1>. DEFINE a == AccountOf[p]
              created == [NoPayment EXCEPT !.state = "open", !.rate = rate, !.since = height]
              P == [pay EXCEPT ![p] = created]
  <1>1. /\ a \in Accounts /\ p \in PaymentsOf(a) /\ p \in Scope(a)
        /\ acct[a].state \in {"open", "overdrawn"} /\ rate \in Nat
    BY PricesAre DEF PaymentCreate
  <1>2. PICK s \in Settlements(World(a), a) : ~s.overdrawn /\ Commit(a, [s EXCEPT !.pay = P])
    BY DEF PaymentCreate
  <1>3. /\ created \in PaymentType /\ created.state = "open" /\ created.rate = rate
        /\ created.since = height /\ created.unsettled = 0 /\ created.balance = 0
        /\ created.withdrawn = 0 /\ height \in Nat /\ pay \in Payments0
    BY <1>1 DEF NoPayment, PaymentType, States, IInv, StateType
  <1>. HIDE DEF created, a
  <1>4. /\ P \in Payments0 /\ P[p] = created /\ \A q \in Payments : q # p => P[q] = pay[q]
    BY <1>3 DEF Payments0
  <1>. HIDE DEF P
  <1>. DEFINE w == [s EXCEPT !.pay = P]
  <1>5. /\ s \in Worlds /\ Fits(s, a) /\ acct[a].state = "open" /\ s.acc.state = "open"
        /\ s.acc.settledAt = height /\ Earns(pay, s.pay)
    BY <1>1, <1>2, SettledFits
  <1>6. /\ w \in Worlds /\ w.acc = s.acc /\ w.bank = s.bank /\ w.grant = s.grant /\ w.pay = P
    BY <1>4, <1>5 DEF Worlds, Payments0
  <1>. HIDE DEF w
  <1>7. Told(s.acc) /\ Safe(World(a), s) /\ AccOk(s.acc, height)
    BY <1>5, TellersAre DEF Fits
  <1>8. AtMostThen(Balances(P), Balances(s.pay))
    <2>1. s.pay \in Payments0
      BY <1>5, WorldFields
    <2>2. ASSUME NEW q \in Payments PROVE P[q].balance <= s.pay[q].balance
      <3>1. s.pay[q].balance \in Nat /\ pay[q].balance <= s.pay[q].balance
        BY <1>5, <2>1 DEF Payments0, PaymentType, Earns
      <3>. QED
        BY <1>3, <1>4, <3>1
    <2>3. Earns(P, s.pay)
      BY <2>2 DEF Earns
    <2>. QED
      BY <1>4, <2>1, <2>3, BalancesRise
  <1>9. Safe(s, w)
    <2>1. ASSUME NEW d \in Denoms PROVE Room(s, d) <= Room(w, d)
      <3>. DEFINE x == Dec * s.bank["escrow"][d]
                  t == Tally(ByDenom(d), s.acc.deposits)
                  h0 == Held(s.pay, d)
                  h1 == Held(P, d)
      <3>1. Room(s, d) = x - t - h0 /\ Room(w, d) = x - t - h1
        BY <1>6 DEF Room
      <3>2. x \in Int /\ t \in Int /\ h0 \in Int /\ h1 \in Int
        <4>1. x \in Int /\ t \in Int /\ h0 \in Int
          BY <1>5, SafeTypes
        <4>2. Held(w.pay, d) \in Nat
          BY <1>6, SafeTypes
        <4>. QED
          BY <1>6, <4>1, <4>2
      <3>3. h1 <= h0
        BY <1>8, <3>2 DEF Held, AtMostThen
      <3>. HIDE DEF x, t, h0, h1
      <3>. QED
        BY <3>1, <3>2, <3>3
    <2>2. ASSUME NEW g, NEW d \in Denoms PROVE Exposed(w, g, d) <= Exposed(s, g, d)
      BY <1>5, <1>6, SafeTypes DEF Exposed
    <2>. QED
      BY <1>6, <2>1, <2>2 DEF Safe
  <1>10. Safe(World(a), w)
    <2>1. World(a) \in Worlds
      BY <1>1, WorldIs
    <2>. QED
      BY <1>5, <1>6, <1>7, <1>9, <2>1, SafeChains
  <1>11. ASSUME Untouched(a), NEW q \in PaymentsOf(a) PROVE PayOk(w.acc, P[q], height)
    <2>1. CASE q = p
      <3>1. Charge(created) = 0
        <4>1. Dec * 0 = 0
          BY EscrowAssumption
        <4>. QED
          BY <1>3, <4>1 DEF Charge
      <3>2. rate * (height - height) = 0
        BY <1>1, <1>3
      <3>. QED
        BY <1>3, <1>4, <1>5, <1>6, <2>1, <3>1, <3>2 DEF PayOk
    <2>2. CASE q # p
      <3>1. PayOk(acct[a], pay[q], height) /\ P[q] = pay[q]
        BY <1>1, <1>4, <1>11, <2>2 DEF IInv, Sound, PaysOk, PaymentsOf
      <3>. QED
        BY <1>5, <1>6, <3>1 DEF PayOk
    <2>. QED
      BY <2>1, <2>2
  <1>12. Sound(w.acc, w.pay, a, height)
    BY <1>5, <1>6, <1>7, <1>11 DEF Sound, PaysOk, Ended
  <1>13. (\A q \in Payments : q \notin Scope(a) => w.pay[q] = pay[q]) /\ Owing(w.pay)
    BY <1>1, <1>3, <1>4, <1>6 DEF IInv, Owing
  <1>14. Leaves(w, a)
    BY <1>6, <1>10, <1>12, <1>13 DEF Leaves
  <1>15. Commit(a, w) /\ w.pay[p].state = "open" /\ \A q \in Payments : q # p => w.pay[q] = pay[q]
    BY <1>2, <1>3, <1>4, <1>6 DEF w
  <1>. QED
    BY <1>2, <1>6, <1>14, <1>15 DEF a

LEMMA PaymentCreateKeeps ==
    ASSUME IInv, NEW p \in Payments, NEW rate \in Rates, PaymentCreate(p, rate)
    PROVE  IInv'
  BY PaymentCreated, PricesAre, CommitKeeps

-----------------------------------------------------------------------------
(* The operations that add deposits *)

LEMMA AccountCreated ==
    ASSUME IInv, NEW a \in Accounts, NEW amount \in Amounts, NEW sources \in SourceLists,
           AccountCreate(a, amount, sources)
    PROVE  \E w : /\ Leaves(w, a) /\ Commit(a, w) /\ w.pay = pay
                  /\ w.acc.state = "open" /\ w.acc.settledAt = height
                  /\ w.acc.funds[Prim] < 0 => acct[a].funds[Prim] < 0
  <1>. DEFINE auth == AuthorizeDeposits(Owner[a], Prim, amount, sources)
              A == [acct[a] EXCEPT !.state = "open", !.settledAt = height]
              v == [World(a) EXCEPT !.acc = A]
              w == FetchDeposits([v EXCEPT !.grant = auth.grant], auth.deposits)
  <1>0. /\ World(a) \in Tellers /\ World(a) \in Worlds /\ World(a).acc = acct[a]
        /\ World(a).pay = pay /\ World(a).bank = bank /\ World(a).grant = grant
    BY WorldIs
  <1>1. /\ Owner[a] \in DOMAIN Wallets /\ amount \in Nat /\ sources \in Seq(SourceNames)
        /\ Prim \in Denoms /\ BankHolds /\ grant \in GrantType /\ height \in Nat
        /\ acct[a] \in AccountType /\ acct[a].state = "none"
    BY HoldersAre, PricesAre DEF Denoms, IInv, StateType, AccountCreate
  <1>2. /\ A \in AccountType /\ A.state = "open" /\ A.settledAt = height
        /\ A.funds = acct[a].funds /\ A.deposits = acct[a].deposits
    BY <1>1 DEF AccountType, States
  <1>3. Commit(a, w)
    <2>1. [World(a) EXCEPT !.acc.state = "open", !.acc.settledAt = height, !.grant = auth.grant]
            = [v EXCEPT !.grant = auth.grant]
      BY <1>0, <1>1 DEF Worlds, AccountType
    <2>. QED
      BY <2>1 DEF AccountCreate
  <1>. HIDE DEF A
  <1>4. /\ v \in Worlds /\ v.acc = A /\ v.pay = pay /\ v.bank = bank /\ v.grant = grant
    BY <1>0, <1>2 DEF Worlds
  <1>. HIDE DEF v, auth
  <1>5. Safe(World(a), v)
    BY <1>0, <1>2, <1>4, SameRecord
  <1>. USE DEF auth
  <1>6. Funds(v, w)
    BY <1>1, <1>4, FundsEffect
  <1>. HIDE DEF w, auth
  <1>7. /\ w \in Worlds /\ Safe(v, w) /\ w.pay = pay
        /\ w.acc.state = "open" /\ w.acc.settledAt = height
        /\ w.acc.funds[Prim] < 0 => acct[a].funds[Prim] < 0
    BY <1>2, <1>4, <1>6 DEF Funds
  <1>8. Safe(World(a), w)
    BY <1>0, <1>4, <1>5, <1>7, SafeChains
  <1>9. Told(w.acc)
    BY <1>0, <1>8, TellersAre DEF Safe
  <1>10. ASSUME Untouched(a), NEW p \in PaymentsOf(a) PROVE PayOk(w.acc, pay[p], height)
    <2>1. PayOk(acct[a], pay[p], height)
      BY <1>10 DEF IInv, Sound, PaysOk
    <2>. QED
      BY <1>1, <1>7, <2>1 DEF PayOk
  <1>11. Sound(w.acc, w.pay, a, height)
    BY <1>1, <1>7, <1>9, <1>10 DEF Sound, AccOk, PaysOk, Ended
  <1>12. Leaves(w, a)
    BY <1>7, <1>8, <1>11 DEF Leaves, IInv
  <1>. QED
    BY <1>3, <1>7, <1>12

LEMMA AccountCreateKeeps ==
    ASSUME IInv, NEW a \in Accounts, NEW amount \in Amounts, NEW sources \in SourceLists,
           AccountCreate(a, amount, sources)
    PROVE  IInv'
  BY AccountCreated, CommitKeeps

\* A top-up of an account that is open.
LEMMA FundedOpen ==
    ASSUME IInv, NEW a \in Accounts, acct[a].state = "open", NEW w, Funds(World(a), w)
    PROVE  Leaves(w, a)
  <1>1. /\ World(a) \in Tellers /\ World(a).acc = acct[a] /\ World(a).pay = pay
    BY WorldIs
  <1>2. /\ w \in Worlds /\ Safe(World(a), w) /\ w.pay = pay
        /\ w.acc.state = "open" /\ w.acc.settledAt = acct[a].settledAt
    BY <1>1 DEF Funds
  <1>3. Told(w.acc)
    BY <1>1, <1>2, TellersAre DEF Safe
  <1>4. Sound(acct[a], pay, a, height)
    BY DEF IInv
  <1>5. ASSUME Untouched(a), NEW p \in PaymentsOf(a) PROVE PayOk(w.acc, pay[p], height)
    <2>1. PayOk(acct[a], pay[p], height)
      BY <1>4, <1>5 DEF Sound, PaysOk
    <2>. QED
      BY <1>2, <2>1 DEF PayOk
  <1>6. Sound(w.acc, w.pay, a, height)
    BY <1>2, <1>3, <1>4, <1>5 DEF Sound, AccOk, PaysOk, Ended
  <1>. QED
    BY <1>2, <1>6 DEF Leaves, IInv

\* A top-up of an overdrawn account settles it, and closes it when that is enough.
LEMMA FundedOverdrawn ==
    ASSUME IInv, NEW a \in Accounts, acct[a].state = "overdrawn", NEW w, Funds(World(a), w),
           NEW s \in Settlements(w, a)
    PROVE  /\ Before(w, a) /\ Settles(w, s, a)
           /\ Fits([CloseDue(s) EXCEPT !.acc.state = IF s.overdrawn THEN @ ELSE "closed"], a)
  <1>. DEFINE x == CloseDue(s)
              state == IF s.overdrawn THEN x.acc.state ELSE "closed"
              y == [x EXCEPT !.acc.state = state]
              u == World(a)
  <1>1. /\ u \in Tellers /\ u \in Worlds /\ u.acc = acct[a] /\ u.pay = pay /\ u.due = <<>>
        /\ ~u.overdrawn /\ Before(u, a) /\ PaysOk(u.acc, pay, a, height)
        /\ pay \in Payments0 /\ height \in Nat
    BY WorldIs, BeforeIs
  <1>. HIDE DEF u
  <1>2. /\ w \in Worlds /\ Safe(u, w) /\ w.pay = pay /\ w.due = <<>> /\ ~w.overdrawn
        /\ w.acc.state = "overdrawn" /\ w.acc.settledAt = u.acc.settledAt
        /\ w.acc.funds[Prim] < 0 => w.acc.funds[Prim] = u.acc.funds[Prim]
    BY <1>1 DEF Funds, u
  <1>3. w \in Tellers
    BY <1>1, <1>2, TellersAre DEF Safe, Tellers
  <1>4. Before(w, a)
    BY <1>1, <1>2, <1>3 DEF Before
  <1>5. w.acc.funds[Prim] < 0 => PaysOk(w.acc, pay, a, height)
    <2>1. ASSUME w.acc.funds[Prim] < 0 PROVE PaysOk(w.acc, pay, a, height)
      <3>1. Debt(w.acc) = Debt(u.acc)
        BY <1>2, <2>1 DEF Debt
      <3>. QED
        BY <1>1, <1>2, <3>1, PaysOkSame
    <2>. QED
      BY <2>1
  <1>6. Settles(w, s, a)
    BY <1>1, <1>4, SettlementsAre
  <1>7. /\ s \in Tellers /\ s \in Worlds /\ Safe(w, s) /\ Lists(s.due, a)
        /\ \A p \in Payments : p \notin Scope(a) => s.pay[p] = pay[p]
    BY <1>1, <1>6, TellersAre, NoneListed DEF Settles
  <1>8. x \in Worlds /\ PaysOut(s, x, a)
    BY <1>7, DuePaysOut
  <1>. HIDE DEF x
  <1>9. /\ x.acc = s.acc /\ Safe(s, x)
        /\ \A p \in Payments : p \notin Scope(a) => x.pay[p] = pay[p]
    BY <1>7, <1>8 DEF PaysOut
  <1>10. x \in Tellers /\ state \in States
    <2>1. Told(x.acc)
      BY <1>7, <1>9, TellersAre
    <2>2. x.acc.state \in States
      BY <1>8, WorldFields DEF AccountType
    <2>. QED
      BY <1>8, <2>1, <2>2 DEF Tellers, States
  <1>11. MayBe(state, s)
    BY <1>9 DEF MayBe
  <1>12. y = [x EXCEPT !.acc.state = IF s.overdrawn THEN @ ELSE "closed"]
    BY <1>8 DEF Worlds, AccountType
  <1>. HIDE DEF state
  <1>13. /\ y \in Tellers /\ Safe(x, y) /\ y.pay = x.pay
         /\ y.acc.state = state /\ y.acc.settledAt = s.acc.settledAt /\ y.acc.funds = s.acc.funds
    BY <1>9, <1>10, Restates
  <1>. HIDE DEF y
  <1>14. AccOk(y.acc, height) /\ PaysOk(y.acc, s.pay, a, height) /\ Owing(s.pay)
    BY <1>1, <1>2, <1>4, <1>5, <1>6, <1>11, <1>13, SettledPays
  <1>15. PaysOk(y.acc, y.pay, a, height) /\ Owing(y.pay)
    <2>1. PaysOk(y.acc, y.pay, a, height)
      BY <1>7, <1>8, <1>13, <1>14, PaysOutOk
    <2>2. Owing(y.pay)
      BY <1>8, <1>13, <1>14 DEF Owing, PaysOut
    <2>. QED
      BY <2>1, <2>2
  <1>16. Safe(u, y)
    <2>1. y \in Worlds
      BY <1>13, TellersAre
    <2>2. Safe(u, s)
      BY <1>1, <1>2, <1>7, SafeChains
    <2>3. Safe(u, x)
      BY <1>1, <1>7, <1>8, <1>9, <2>2, SafeChains
    <2>. QED
      BY <1>1, <1>8, <1>13, <2>1, <2>3, SafeChains
  <1>17. Fits(y, a)
    BY <1>9, <1>13, <1>14, <1>15, <1>16 DEF Fits, u
  <1>. QED
    BY <1>4, <1>6, <1>12, <1>17 DEF x

LEMMA AccountDepositKeeps ==
    ASSUME IInv, NEW a \in Accounts, NEW signer \in Tenants, NEW d \in Denoms,
           NEW amount \in Amounts, NEW sources \in SourceLists,
           AccountDeposit(a, signer, d, amount, sources)
    PROVE  IInv'
  <1>. DEFINE auth == AuthorizeDeposits(signer, d, amount, sources)
              w == FetchDeposits([World(a) EXCEPT !.grant = auth.grant], auth.deposits)
  <1>1. Funds(World(a), w)
    <2>1. /\ signer \in DOMAIN Wallets /\ amount \in Nat /\ sources \in Seq(SourceNames)
          /\ BankHolds /\ grant \in GrantType
      BY PricesAre DEF IInv, StateType
    <2>2. World(a) \in Worlds /\ World(a).grant = grant
      BY WorldIs
    <2>. QED
      BY <2>1, <2>2, FundsEffect
  <1>2. /\ acct[a].state \in {"open", "overdrawn"}
        /\ IF acct[a].state = "open" THEN Commit(a, w)
           ELSE \E s \in Settlements(w, a) :
                Commit(a, SaveAccount(
                    [CloseDue(s) EXCEPT !.acc.state = IF s.overdrawn THEN @ ELSE "closed"], a))
    BY DEF AccountDeposit
  <1>. HIDE DEF w
  <1>3. CASE acct[a].state = "open"
    BY <1>1, <1>2, <1>3, FundedOpen, CommitKeeps
  <1>4. CASE acct[a].state = "overdrawn"
    <2>1. PICK s \in Settlements(w, a) :
                Commit(a, SaveAccount(
                    [CloseDue(s) EXCEPT !.acc.state = IF s.overdrawn THEN @ ELSE "closed"], a))
      BY <1>2, <1>4
    <2>2. Leaves(SaveAccount(
               [CloseDue(s) EXCEPT !.acc.state = IF s.overdrawn THEN @ ELSE "closed"], a), a)
      BY <1>1, <1>4, FundedOverdrawn, SaveFits
    <2>. QED
      BY <2>1, <2>2, CommitKeeps
  <1>. QED
    BY <1>2, <1>3, <1>4

-----------------------------------------------------------------------------
(* The initial state *)

LEMMA InitHolds ==
    ASSUME Init
    PROVE  IInv
  <1>1. /\ height = 1 /\ acct = [a \in Accounts |-> NoAccount]
        /\ pay = [p \in Payments |-> NoPayment] /\ grant = Limits
        /\ bank = [h \in Holders |-> IF h \in DOMAIN Wallets THEN Wallets[h]
                                     ELSE [d \in Denoms |-> 0]]
    BY DEF Init
  <1>2. /\ NoAccount \in AccountType /\ NoAccount.state = "none" /\ NoAccount.settledAt = 0
        /\ NoAccount.deposits = <<>> /\ \A d \in Denoms : NoAccount.funds[d] = 0
    BY DEF NoAccount, AccountType, States
  <1>3. /\ NoPayment \in PaymentType /\ NoPayment.state = "none" /\ NoPayment.unsettled = 0
        /\ NoPayment.balance = 0 /\ NoPayment.withdrawn = 0 /\ NoPayment.rate = 0
        /\ NoPayment.since = 0
    BY DEF NoPayment, PaymentType, States
  <1>. HIDE DEF NoAccount, NoPayment
  <1>4. bank \in [Holders -> [Denoms -> Nat]]
    BY <1>1, EscrowAssumption
  <1>5. StateType /\ Owing(pay)
    BY <1>1, <1>2, <1>3, <1>4, EscrowAssumption DEF StateType, Payments0, BankHolds, GrantType, Owing
  <1>6. ASSUME NEW f \in [Deposits -> Nat] PROVE Spread(f, acct) = 0
    <2>. DEFINE x == [a \in Accounts |-> Tally(f, acct[a].deposits)]
    <2>1. DOMAIN x = Accounts /\ \A a \in Accounts : x[a] = 0
      BY <1>1, <1>2, TallyEmpty
    <2>2. Spread(f, acct) = Total(x, Accounts)
      BY <2>1, SumOfIsTotal DEF Spread
    <2>. HIDE DEF x
    <2>3. IsFiniteSet(Accounts)
      BY EscrowAssumption
    <2>. QED
      BY <2>1, <2>2, <2>3, TotalZero
  <1>7. Balances(pay) = 0
    <2>. DEFINE x == [p \in Payments |-> pay[p].balance]
    <2>1. DOMAIN x = Payments /\ \A p \in Payments : x[p] = 0
      BY <1>1, <1>3
    <2>2. Balances(pay) = Total(x, Payments)
      BY <2>1, SumOfIsTotal DEF Balances
    <2>. HIDE DEF x
    <2>. QED
      BY <2>1, <2>2, PaymentsFinite, TotalZero
  <1>8. ASSUME NEW a \in Accounts PROVE Sound(acct[a], pay, a, height)
    <2>1. acct[a] = NoAccount
      BY <1>1
    <2>2. \A d \in Denoms : Tally(ByDenom(d), <<>>) = 0
      BY Weights, TallyEmpty
    <2>3. Told(acct[a])
      BY <1>2, <2>1, <2>2 DEF Told
    <2>4. ASSUME NEW p \in PaymentsOf(a) PROVE PayOk(acct[a], pay[p], height)
      <3>1. pay[p] = NoPayment
        BY <1>1 DEF PaymentsOf
      <3>2. Charge(NoPayment) = 0
        <4>1. Dec * 0 = 0
          BY EscrowAssumption
        <4>. QED
          BY <1>3, <4>1 DEF Charge
      <3>3. 0 * (height - 0) = 0
        BY <1>1
      <3>. QED
        BY <1>2, <1>3, <2>1, <3>1, <3>2, <3>3 DEF PayOk
    <2>. QED
      BY <1>1, <1>2, <2>1, <2>3, <2>4 DEF Sound, AccOk, PaysOk, Ended
  <1>9. ASSUME NEW d \in Denoms PROVE Covers(acct, pay, bank, d)
    <2>1. Spread(ByDenom(d), acct) = 0
      BY <1>6, Weights
    <2>2. Held(pay, d) = 0
      BY <1>7 DEF Held
    <2>3. bank["escrow"][d] = 0
      BY <1>1, EscrowAssumption, HoldersAre
    <2>4. Dec * 0 = 0
      BY EscrowAssumption
    <2>. QED
      BY <2>1, <2>2, <2>3, <2>4 DEF Covers
  <1>10. ASSUME NEW g, NEW d \in Denoms PROVE Exposes(acct, grant, g, d)
    <2>. DEFINE x == Dec * LimitsOf(g, d, Limits)
    <2>1. Spread(ByGranter(g, d), acct) = 0
      BY <1>6, Weights
    <2>2. x \in Int
      <3>1. Limits \in GrantType
        BY EscrowAssumption DEF GrantType
      <3>. QED
        BY <3>1, LimitsType, Scaled
    <2>. HIDE DEF x
    <2>3. x + 0 <= x
      BY <2>2
    <2>. QED
      BY <1>1, <2>1, <2>3 DEF Exposes, x
  <1>. QED
    BY <1>5, <1>8, <1>9, <1>10 DEF IInv

LEMMA StepKeeps ==
    ASSUME IInv, [Next]_vars
    PROVE  IInv'
  <1>1. CASE NextBlock
    BY <1>1, BlockKeeps
  <1>2. ASSUME NEW a \in Accounts, NEW amount \in Amounts, NEW sources \in SourceLists,
               \/ AccountCreate(a, amount, sources)
               \/ \E signer \in Tenants, d \in Denoms : AccountDeposit(a, signer, d, amount, sources)
        PROVE  IInv'
    <2>1. CASE AccountCreate(a, amount, sources)
      BY <2>1, AccountCreateKeeps
    <2>2. ASSUME NEW signer \in Tenants, NEW d \in Denoms,
                 AccountDeposit(a, signer, d, amount, sources)
          PROVE  IInv'
      BY <2>2, AccountDepositKeeps
    <2>. QED
      BY <1>2, <2>1, <2>2
  <1>3. ASSUME NEW a \in Accounts, AccountClose(a) PROVE IInv'
    BY <1>3, AccountCloseKeeps
  <1>4. ASSUME NEW a \in Accounts, AccountSettle(a) PROVE IInv'
    BY <1>4, AccountSettleKeeps
  <1>5. ASSUME NEW p \in Payments, NEW rate \in Rates, PaymentCreate(p, rate) PROVE IInv'
    BY <1>5, PaymentCreateKeeps
  <1>6. ASSUME NEW p \in Payments, PaymentWithdraw(p) PROVE IInv'
    BY <1>6, PaymentWithdrawKeeps
  <1>7. ASSUME NEW p \in Payments, PaymentClose(p) PROVE IInv'
    BY <1>7, PaymentCloseKeeps
  <1>8. CASE UNCHANGED vars
    BY <1>8 DEF vars, IInv, StateType, BankHolds, Owing
  <1>. QED
    BY <1>1, <1>2, <1>3, <1>4, <1>5, <1>6, <1>7, <1>8 DEF Next

\* The invariant holds in every state.
THEOREM EscrowInvariant == Spec => []IInv
  <1>1. Init => IInv
    BY InitHolds
  <1>2. IInv /\ [Next]_vars => IInv'
    BY StepKeeps
  <1>. QED
    BY <1>1, <1>2, PTL DEF Spec

-----------------------------------------------------------------------------
(* The properties *)

LEMMA SpreadsAre ==
    ASSUME IInv, NEW g, NEW d
    PROVE  /\ SumOf([a \in Accounts |-> DepositTotal(a, d)]) = Spread(ByDenom(d), acct)
           /\ SumOf([a \in Accounts |-> Returnable(a, g, d)]) = Spread(ByGranter(g, d), acct)
  <1>1. ASSUME NEW a \in Accounts
        PROVE  /\ DepositTotal(a, d) = Tally(ByDenom(d), acct[a].deposits)
               /\ Returnable(a, g, d) = Tally(ByGranter(g, d), acct[a].deposits)
    <2>1. acct[a].deposits \in Seq(Deposits)
      BY DEF IInv, StateType, AccountType
    <2>. QED
      BY <2>1, DepositSums
  <1>2. /\ [a \in Accounts |-> DepositTotal(a, d)] =
               [a \in Accounts |-> Tally(ByDenom(d), acct[a].deposits)]
        /\ [a \in Accounts |-> Returnable(a, g, d)] =
               [a \in Accounts |-> Tally(ByGranter(g, d), acct[a].deposits)]
    BY <1>1
  <1>. QED
    BY <1>2 DEF Spread

\* The escrow's coins cover every deposit that can be refunded and every balance
\* that can be withdrawn (deductFromBalance, paymentWithdraw, saveAccount).
THEOREM EscrowIsSolvent == Spec => []Solvent
  <1>1. ASSUME IInv PROVE Solvent
    <2>1. ASSUME NEW d \in Denoms
          PROVE  Dec * bank["escrow"][d] >=
                    SumOf([a \in Accounts |-> DepositTotal(a, d)])
                      + (IF d = Prim THEN SumOf([p \in Payments |-> pay[p].balance]) ELSE 0)
      <3>1. Covers(acct, pay, bank, d)
        BY <1>1 DEF IInv
      <3>2. SumOf([a \in Accounts |-> DepositTotal(a, d)]) = Spread(ByDenom(d), acct)
        BY <1>1, SpreadsAre
      <3>. QED
        BY <3>1, <3>2 DEF Covers, Held, Balances
    <2>. QED
      BY <2>1 DEF Solvent
  <1>. QED
    BY <1>1, EscrowInvariant, PTL

\* Funds and deposits tell the same, and an account that ended has none left.
THEOREM DepositsAlwaysAddUp == Spec => []DepositsAddUp
  <1>1. ASSUME IInv PROVE DepositsAddUp
    <2>1. ASSUME NEW a \in Accounts, NEW d \in Denoms
          PROVE  DepositTotal(a, d) = IF acct[a].funds[d] > 0 THEN acct[a].funds[d] ELSE 0
      <3>1. acct[a].deposits \in Seq(Deposits) /\ Told(acct[a])
        BY <1>1 DEF IInv, StateType, AccountType, Sound
      <3>2. DepositTotal(a, d) = Tally(ByDenom(d), acct[a].deposits)
        BY <3>1, DepositSums
      <3>. QED
        BY <3>1, <3>2 DEF Told
    <2>2. ASSUME NEW a \in Accounts, acct[a].state \in {"closed", "overdrawn"}
          PROVE  acct[a].deposits = <<>>
      BY <1>1, <2>2 DEF IInv, Sound, Ended
    <2>. QED
      BY <2>1, <2>2 DEF DepositsAddUp, FundsMatchDeposits, EndedIsRefunded
  <1>. QED
    BY <1>1, EscrowInvariant, PTL

\* No payment that only its own account collects gets more than its rate allows,
\* and what it did not get in full is the debt of that account (accountSettle,
\* AccountDeposit), whatever payments of others that account collects.
THEOREM ChargesAlwaysAddUp == Spec => []ChargesAddUp
  <1>1. ASSUME IInv PROVE ChargesAddUp
    <2>1. ASSUME NEW p \in Payments, Untouched(AccountOf[p])
          PROVE  ~Overcharged(p)
      <3>1. AccountOf[p] \in Accounts /\ p \in PaymentsOf(AccountOf[p])
        BY PricesAre
      <3>2. PayOk(acct[AccountOf[p]], pay[p], height)
        BY <1>1, <2>1, <3>1 DEF IInv, Sound, PaysOk
      <3>3. /\ pay[p].balance \in Nat /\ pay[p].withdrawn \in Nat /\ pay[p].unsettled \in Nat
            /\ pay[p].rate \in Nat /\ pay[p].since \in Nat /\ height \in Nat /\ Dec \in Nat
        BY <1>1, EscrowAssumption DEF IInv, StateType, Payments0, PaymentType
      <3>. QED
        BY <3>2, <3>3 DEF PayOk, Charge, Overcharged
    <2>2. ASSUME NEW a \in Accounts, Untouched(a)
          PROVE  SumOf([p \in PaymentsOf(a) |-> pay[p].unsettled]) <=
                    IF acct[a].state = "overdrawn" THEN 0 - acct[a].funds[Prim] ELSE 0
      <3>1. AccOk(acct[a], height) /\ PaysOk(acct[a], pay, a, height)
        BY <1>1 DEF IInv, Sound
      <3>2. CASE acct[a].state = "overdrawn"
        BY <2>2, <3>1, <3>2 DEF AccOk, PaysOk, Unsettled, Debt
      <3>3. CASE acct[a].state # "overdrawn"
        <4>. DEFINE x == [p \in PaymentsOf(a) |-> pay[p].unsettled]
        <4>1. DOMAIN x = PaymentsOf(a) /\ \A p \in PaymentsOf(a) : x[p] = 0
          BY <2>2, <3>1, <3>3 DEF PaysOk, PayOk
        <4>2. SumOf(x) = Total(x, PaymentsOf(a))
          BY <4>1, SumOfIsTotal
        <4>. HIDE DEF x
        <4>3. IsFiniteSet(PaymentsOf(a))
          BY PaymentsFinite, FS_Subset DEF PaymentsOf
        <4>4. SumOf(x) = 0
          BY <4>1, <4>2, <4>3, TotalZero
        <4>. QED
          BY <3>3, <4>4 DEF x
      <3>. QED
        BY <3>2, <3>3
    <2>. QED
      BY <2>1, <2>2 DEF ChargesAddUp, NeverOvercharged, DebtCoversUnsettled
  <1>. QED
    BY <1>1, EscrowInvariant, PTL

\* No granter is exposed beyond its limits, whoever deposits on whose account
\* (AuthorizeDeposits, saveAccount).
THEOREM GrantsAreLimited == Spec => []GrantExposure
  <1>1. ASSUME IInv PROVE GrantExposure
    <2>1. ASSUME NEW granter \in ToSet(Granters), NEW d \in Denoms
          PROVE  Dec * LimitsOf(granter, d, grant)
                    + SumOf([a \in Accounts |-> Returnable(a, granter, d)])
                        <= Dec * LimitsOf(granter, d, Limits)
      <3>1. Exposes(acct, grant, granter, d)
        BY <1>1 DEF IInv
      <3>2. SumOf([a \in Accounts |-> Returnable(a, granter, d)]) = Spread(ByGranter(granter, d), acct)
        BY <1>1, SpreadsAre
      <3>. QED
        BY <3>1, <3>2 DEF Exposes
    <2>. QED
      BY <2>1 DEF GrantExposure
  <1>. QED
    BY <1>1, EscrowInvariant, PTL

-----------------------------------------------------------------------------
(* The states a settlement leaves *)

\* Nothing but amounts changes.
SameStates(v, w) ==
    /\ w.due = v.due /\ w.overdrawn = v.overdrawn
    /\ \A p \in Payments : w.pay[p].state = v.pay[p].state

LEMMA WithdrawKeepsStates ==
    ASSUME NEW v \in Worlds, NEW p \in Payments
    PROVE  SameStates(v, Withdraw(v, p))
  <1>. DEFINE coins == Coins(v.pay[p].balance)
  <1>1. CASE coins = 0
    BY <1>1 DEF Withdraw, SameStates
  <1>2. CASE coins # 0
    <2>1. v.pay \in Payments0 /\ v.pay[p] \in PaymentType
      BY WorldFields DEF Payments0
    <2>2. PaidOut(v.pay[p], coins).state = v.pay[p].state
      BY <2>1, PaidOutIs
    <2>3. /\ Withdraw(v, p).pay = [v.pay EXCEPT ![p] = PaidOut(@, coins)]
          /\ Withdraw(v, p).due = v.due /\ Withdraw(v, p).overdrawn = v.overdrawn
      BY <1>2 DEF Withdraw, Worlds
    <2>. HIDE DEF coins
    <2>. QED
      BY <2>1, <2>2, <2>3 DEF Payments0, SameStates
  <1>. QED
    BY <1>1, <1>2

LEMMA WithdrawDueKeepsStates ==
    ASSUME NEW w \in Worlds
    PROVE  SameStates(w, WithdrawDue(w))
  <1>. DEFINE n == Len(w.due)
              Kept == {x \in Worlds : SameStates(w, x)}
              Good == [i \in 0..n |-> Kept]
  <1>1. n \in Nat /\ \A i \in 1..n : w.due[i] \in Payments
    BY DueInWorlds
  <1>2. w \in Kept
    BY DEF SameStates
  <1>3. ASSUME NEW x \in Kept, NEW p \in Payments PROVE Withdraw(x, p) \in Kept
    BY EachPaysOut, WithdrawKeepsStates DEF SameStates
  <1>4. \A x \in Kept : SameStates(w, x)
    OBVIOUS
  <1>. HIDE DEF Kept
  <1>5. 0 \in 0..n /\ n \in 0..n /\ \A i \in 1..n : i \in 0..n /\ i - 1 \in 0..n
    BY <1>1
  <1>6. /\ w \in Good[0]
        /\ \A i \in 1..n : \A x \in Worlds :
              x \in Good[i - 1] => Withdraw(x, w.due[i]) \in Good[i]
    BY <1>1, <1>2, <1>3, <1>5
  <1>7. \A x \in Good[n] : x \in Kept
    BY <1>5
  <1>. HIDE DEF Good
  <1>8. WithdrawDue(w) \in Good[n]
    BY <1>6, WithdrawDueKeeps
  <1>. QED
    BY <1>4, <1>7, <1>8

\* Of the payments listed, those that are open are closed.
Closes(v, w, listed) ==
    \A p \in Payments :
        w.pay[p].state = IF p \in listed /\ v.pay[p].state = "open" THEN "closed"
                         ELSE v.pay[p].state

LEMMA ClosePaymentCloses ==
    ASSUME NEW v \in Worlds, NEW p \in Payments
    PROVE  Closes(v, ClosePayment(v, p), {p})
  <1>. DEFINE w == IF v.pay[p].state = "open" THEN [v EXCEPT !.pay[p].state = "closed"] ELSE v
  <1>1. v.pay \in Payments0 /\ v.pay[p] \in PaymentType
    BY WorldFields DEF Payments0
  <1>2. w \in Worlds /\ Closes(v, w, {p})
    <2>1. CASE v.pay[p].state # "open"
      BY <2>1 DEF Closes
    <2>2. CASE v.pay[p].state = "open"
      <3>. DEFINE q == [v.pay[p] EXCEPT !.state = "closed"]
      <3>1. q \in PaymentType /\ q.state = "closed"
        BY <1>1 DEF PaymentType, States
      <3>2. w = [v EXCEPT !.pay[p] = q]
        BY <1>1, <2>2 DEF Worlds
      <3>. HIDE DEF q, w
      <3>3. w.pay = [v.pay EXCEPT ![p] = q]
        BY <3>2 DEF Worlds
      <3>4. w.pay \in Payments0
        BY <1>1, <3>1, <3>3 DEF Payments0
      <3>5. w \in Worlds
        BY <3>1, <3>2, <3>3, <3>4 DEF Worlds, Payments0
      <3>. QED
        BY <1>1, <2>2, <3>1, <3>3, <3>5 DEF Closes, Payments0
    <2>. QED
      BY <2>1, <2>2
  <1>3. ClosePayment(v, p) = Withdraw(w, p)
    BY DEF ClosePayment
  <1>. HIDE DEF w
  <1>4. SameStates(w, Withdraw(w, p))
    BY <1>2, WithdrawKeepsStates
  <1>. QED
    BY <1>2, <1>3, <1>4 DEF Closes, SameStates

LEMMA CloseDueCloses ==
    ASSUME NEW w \in Worlds
    PROVE  Closes(w, CloseDue(w), ToSet(w.due))
  <1>. DEFINE n == Len(w.due)
              Upto(i) == {w.due[j] : j \in 1..i}
              Good == [i \in 0..n |-> {x \in Worlds : Closes(w, x, Upto(i))}]
  <1>1. n \in Nat /\ \A i \in 1..n : w.due[i] \in Payments
    BY DueInWorlds
  <1>2. 0 \in 0..n /\ n \in 0..n /\ \A i \in 1..n : i \in 0..n /\ i - 1 \in 0..n
    BY <1>1
  <1>3. Upto(0) = {}
    OBVIOUS
  <1>4. ASSUME NEW i \in 1..n PROVE Upto(i) = Upto(i - 1) \cup {w.due[i]}
    <2>1. 1..i = (1..(i - 1)) \cup {i}
      BY <1>1
    <2>. QED
      BY <2>1
  <1>5. Upto(n) = ToSet(w.due)
    BY <1>1 DEF ToSet
  <1>. HIDE DEF Upto
  <1>6. w \in Good[0]
    BY <1>2, <1>3 DEF Closes
  <1>7. ASSUME NEW i \in 1..n, NEW x \in Worlds, x \in Good[i - 1]
        PROVE  ClosePayment(x, w.due[i]) \in Good[i]
    <2>. DEFINE y == ClosePayment(x, w.due[i])
    <2>1. Closes(w, x, Upto(i - 1))
      BY <1>2, <1>7
    <2>2. Closes(x, y, {w.due[i]}) /\ y \in Worlds
      BY <1>1, EachPaysOut, ClosePaymentCloses
    <2>. HIDE DEF y
    <2>3. Closes(w, y, Upto(i))
      BY <1>4, <2>1, <2>2 DEF Closes
    <2>. QED
      BY <1>2, <2>2, <2>3 DEF y
  <1>8. \A x \in Good[n] : Closes(w, x, Upto(n))
    BY <1>2
  <1>. HIDE DEF Good
  <1>9. CloseDue(w) \in Good[n]
    BY <1>6, <1>7, CloseDueKeeps
  <1>. QED
    BY <1>5, <1>8, <1>9

\* What the charges, and the fallback after them, leave of the states.
Billed(w, v) ==
    /\ v.due = w.due
    /\ \A p \in Payments : p \notin ToSet(w.due) => v.pay[p].state = pay[p].state
    /\ \A p \in ToSet(w.due) :
        v.pay[p].state = "open" \/ (v.pay[p].state = "overdrawn" /\ v.overdrawn)
    /\ v.overdrawn \/ v.acc.funds[Prim] < 0 => ToSet(w.due) # {}

LEMMA ChargesBill ==
    ASSUME pay \in Payments0, NEW blocks \in Nat,
           NEW w \in Tellers, w.pay = pay, ~w.overdrawn, w.acc.funds[Prim] >= 0
    PROVE  Billed(w, ChargeDue(w, blocks)) /\ ChargeDue(w, blocks) \in Tellers
  <1>. DEFINE due == w.due
              n == Len(due)
              Upto(i) == {due[j] : j \in 1..i}
              Done(v, i) ==
                 /\ v.due = w.due
                 /\ \A p \in Payments : p \notin Upto(i) => v.pay[p].state = pay[p].state
                 /\ \A p \in Upto(i) :
                      v.pay[p].state = "open" \/ (v.pay[p].state = "overdrawn" /\ v.overdrawn)
                 /\ i = 0 => ~v.overdrawn /\ v.acc.funds[Prim] >= 0
              Good == [i \in 0..n |-> {v \in Tellers : Done(v, i)}]
              r == ChargeDue(w, blocks)
  <1>1. n \in Nat /\ \A i \in 1..n : due[i] \in Payments
    BY DueTypes
  <1>2. 0 \in 0..n /\ n \in 0..n /\ \A i \in 1..n : i \in 0..n /\ i - 1 \in 0..n /\ i # 0
    BY <1>1
  <1>3. Upto(0) = {}
    OBVIOUS
  <1>4. ASSUME NEW i \in 1..n PROVE Upto(i) = Upto(i - 1) \cup {due[i]}
    <2>1. 1..i = (1..(i - 1)) \cup {i}
      BY <1>1
    <2>. HIDE DEF due
    <2>. QED
      BY <2>1
  <1>5. Upto(n) = ToSet(due) /\ (n # 0 => ToSet(due) # {})
    <2>1. Upto(n) = ToSet(due)
      BY <1>1 DEF ToSet
    <2>2. n # 0 => due[1] \in ToSet(due)
      BY <1>1 DEF ToSet
    <2>. QED
      BY <2>1, <2>2
  <1>. HIDE DEF Upto
  <1>6. w \in Good[0]
    BY <1>2, <1>3
  <1>7. ASSUME NEW i \in 1..n, NEW v \in Tellers, v \in Good[i - 1]
        PROVE  ChargePayment(v, due[i], Owed(due[i], blocks)) \in Good[i]
    <2>. DEFINE p == due[i]
                owed == Owed(p, blocks)
                x == ChargePayment(v, p, owed)
    <2>1. Done(v, i - 1) /\ v \in Worlds /\ Told(v.acc) /\ p \in Payments
      BY <1>1, <1>2, <1>7, TellersAre
    <2>2. owed \in Nat
      BY <2>1, OwedType
    <2>3. x \in Tellers
      BY <2>1, ChargeType
    <2>. HIDE DEF p, owed
    <2>4. /\ x.due = v.due
          /\ \A q \in Payments : q # p => x.pay[q] = v.pay[q]
          /\ x.pay[p].state = IF x.pay[p].unsettled > 0 THEN "overdrawn" ELSE "open"
          /\ x.overdrawn <=> (v.overdrawn \/ x.pay[p].unsettled > 0)
      BY <2>1, <2>2, ChargeEffect
    <2>. HIDE DEF x
    <2>5. Upto(i) = Upto(i - 1) \cup {p}
      BY <1>4 DEF p
    <2>6. ASSUME NEW q \in Upto(i)
          PROVE  x.pay[q].state = "open" \/ (x.pay[q].state = "overdrawn" /\ x.overdrawn)
      <3>1. CASE q = p
        BY <2>4, <3>1
      <3>2. CASE q # p
        <4>1. q \in Upto(i - 1) /\ q \in Payments
          BY <1>1, <2>5, <3>2 DEF Upto
        <4>2. x.pay[q] = v.pay[q]
          BY <2>4, <3>2, <4>1
        <4>. QED
          BY <2>1, <2>4, <4>1, <4>2
      <3>. QED
        BY <3>1, <3>2
    <2>7. ASSUME NEW q \in Payments, q \notin Upto(i) PROVE x.pay[q].state = pay[q].state
      BY <2>1, <2>4, <2>5, <2>7
    <2>8. Done(x, i)
      BY <1>2, <2>1, <2>4, <2>6, <2>7
    <2>. QED
      BY <1>2, <2>3, <2>8 DEF x, p, owed
  <1>8. \A v \in Good[n] : Done(v, n)
    BY <1>2
  <1>. HIDE DEF Good
  <1>9. r \in Good[n] /\ r \in Tellers
    BY <1>6, <1>7, ChargesKeep
  <1>. HIDE DEF r
  <1>10. Done(r, n)
    BY <1>8, <1>9
  <1>11. r.overdrawn \/ r.acc.funds[Prim] < 0 => ToSet(due) # {}
    <2>1. r.acc.funds[Prim] \in Int
      BY <1>9, TellersAre, WorldFields DEF Denoms
    <2>. QED
      BY <1>5, <1>10, <2>1
  <1>. QED
    BY <1>5, <1>9, <1>10, <1>11 DEF Billed, r

LEMMA FallbackBills ==
    ASSUME NEW w \in Tellers, NEW v \in Tellers, Billed(w, v), NEW price \in Nat
    PROVE  Billed(w, Fallback(v, price)) /\ Fallback(v, price) \in Tellers
  <1>. DEFINE n == Len(v.due)
              Kept == {x \in Tellers : Billed(w, x) /\ x.overdrawn}
              Good == [i \in 0..n |-> Kept]
  <1>1. CASE ~v.overdrawn \/ price = 0 \/ v.acc.funds[Akt] <= 0
    BY <1>1 DEF Fallback
  <1>2. CASE ~(~v.overdrawn \/ price = 0 \/ v.acc.funds[Akt] <= 0)
    <2>1. Fallback(v, price) = FallbackDue(v, price) /\ price \in Nat \ {0} /\ v.overdrawn
      BY <1>2 DEF Fallback
    <2>2. n \in Nat /\ \A i \in 1..n : v.due[i] \in ToSet(w.due)
      BY DueTypes DEF Billed, ToSet
    <2>3. ASSUME NEW x \in Kept, NEW p \in ToSet(w.due)
          PROVE  FallbackNext(x, p, price) \in Kept
      <3>. DEFINE y == FallbackNext(x, p, price)
      <3>1. Billed(w, x) /\ x.overdrawn /\ x \in Tellers /\ p \in Payments
        BY DueTypes DEF ToSet
      <3>2. y \in Tellers /\ PaysInAkt(x, y, p)
        BY <2>1, <3>1, FallbackStep
      <3>. HIDE DEF y
      <3>3. /\ y.due = x.due /\ y.overdrawn = x.overdrawn
            /\ \A q \in Payments : q # p => y.pay[q] = x.pay[q]
            /\ y.pay[p].state \in {x.pay[p].state, "open"}
            /\ y.pay[p].unsettled > 0 => y.pay[p].state = x.pay[p].state
        BY <3>2 DEF PaysInAkt
      <3>4. \A q \in ToSet(w.due) : q \in Payments
        BY DueTypes DEF ToSet
      <3>5. ASSUME NEW q \in Payments, q \notin ToSet(w.due) PROVE y.pay[q].state = pay[q].state
        <4>1. q # p
          BY <3>5
        <4>. QED
          BY <3>1, <3>3, <3>5, <4>1 DEF Billed
      <3>6. Billed(w, y)
        BY <3>1, <3>3, <3>4, <3>5 DEF Billed
      <3>. QED
        BY <3>1, <3>2, <3>3, <3>6 DEF y
    <2>4. v \in Kept
      BY <2>1
    <2>5. \A x \in Kept : Billed(w, x)
      OBVIOUS
    <2>. HIDE DEF Kept
    <2>6. 0 \in 0..n /\ n \in 0..n /\ \A i \in 1..n : i \in 0..n /\ i - 1 \in 0..n
      BY <2>2
    <2>7. /\ v \in Good[0]
          /\ \A i \in 1..n : \A x \in Tellers :
                x \in Good[i - 1] => FallbackNext(x, v.due[i], price) \in Good[i]
      BY <2>2, <2>3, <2>4, <2>6
    <2>8. \A x \in Good[n] : x \in Kept
      BY <2>6
    <2>. HIDE DEF Good
    <2>9. FallbackDue(v, price) \in Good[n] /\ FallbackDue(v, price) \in Tellers
      BY <2>1, <2>7, FallbackKeeps
    <2>. QED
      BY <2>1, <2>5, <2>8, <2>9
  <1>. QED
    BY <1>1, <1>2

\* The states a settlement leaves: the payments due are all paid or all overdrawn.
Concludes(w, s) ==
    /\ s.due = w.due
    /\ \A p \in Payments :
        s.pay[p].state = IF p \notin ToSet(w.due) THEN pay[p].state
                         ELSE IF s.overdrawn THEN "overdrawn" ELSE "open"
    /\ s.overdrawn \/ s.acc.funds[Prim] < 0 => ToSet(w.due) # {}

LEMMA ConcludeStates ==
    ASSUME NEW w \in Tellers, NEW v \in Tellers, Billed(w, v)
    PROVE  Concludes(w, Conclude(v))
  <1>. DEFINE s == Conclude(v)
              o == Overdraw(v)
              Short == v.overdrawn /\ \E p \in ToSet(v.due) : v.pay[p].state = "overdrawn"
  <1>1. v \in Worlds /\ v.due = w.due
    BY TellersAre DEF Billed
  <1>2. CASE Short
    <2>1. s = WithdrawDue(o)
      BY <1>2 DEF Conclude
    <2>2. /\ o \in Worlds /\ o.due = v.due /\ o.overdrawn = v.overdrawn
          /\ o.acc.funds = v.acc.funds
          /\ \A p \in Payments :
                o.pay[p].state = IF p \in ToSet(v.due) THEN "overdrawn" ELSE v.pay[p].state
      BY <1>1, OverdrawIs
    <2>. HIDE DEF o
    <2>3. SameStates(o, s)
      BY <2>1, <2>2, WithdrawDueKeepsStates
    <2>. HIDE DEF s
    <2>4. s.overdrawn /\ ToSet(w.due) # {} /\ s.due = w.due
      BY <1>1, <1>2, <2>2, <2>3 DEF SameStates
    <2>5. \A p \in Payments :
            s.pay[p].state = IF p \notin ToSet(w.due) THEN pay[p].state ELSE "overdrawn"
      BY <1>1, <2>2, <2>3 DEF SameStates, Billed
    <2>. QED
      BY <2>4, <2>5 DEF Concludes, s
  <1>3. CASE ~Short
    <2>1. s = [v EXCEPT !.overdrawn = FALSE]
      BY <1>3 DEF Conclude
    <2>2. s.acc = v.acc /\ s.pay = v.pay /\ s.due = v.due /\ ~s.overdrawn
      BY <1>1, <2>1 DEF Worlds
    <2>. HIDE DEF s
    <2>3. ASSUME NEW p \in ToSet(w.due) PROVE v.pay[p].state = "open"
      BY <1>1, <1>3 DEF Billed
    <2>4. \A p \in Payments :
            s.pay[p].state = IF p \notin ToSet(w.due) THEN pay[p].state ELSE "open"
      BY <2>2, <2>3 DEF Billed
    <2>. QED
      BY <1>1, <2>2, <2>4 DEF Concludes, Billed, s
  <1>. QED
    BY <1>2, <1>3

\* The payments a settlement of an account charges.
DueOn(a) ==
    {p \in Scope(a) :
        \/ pay[p].state = "overdrawn"
        \/ pay[p].state = "open" /\ acct[a].state = "open" /\ acct[a].settledAt # height}

\* The outcome of a settlement, in states.
Outcome(s, a) ==
    /\ ToSet(s.due) = DueOn(a)
    /\ \A p \in Payments :
        s.pay[p].state = IF p \notin DueOn(a) THEN pay[p].state
                         ELSE IF s.overdrawn THEN "overdrawn" ELSE "open"
    /\ s.acc.funds[Prim] < 0 => DueOn(a) # {}
    /\ s.overdrawn => s.acc.funds[Prim] < 0

LEMMA SettleStates ==
    ASSUME pay \in Payments0, height \in Nat, NEW a, NEW w, Before(w, a),
           ~(w.acc.funds[Prim] < 0),
           w.acc.state = acct[a].state, w.acc.settledAt = acct[a].settledAt,
           NEW s \in Settlements(w, a)
    PROVE  Outcome(s, a)
  <1>1. PICK price \in Prices \cup {0} : s = Settle(w, a, price)
    BY DEF Settlements
  <1>2. price \in Nat
    BY PricesAre
  <1>. DEFINE open == w.acc.state = "open"
              blocks == IF open THEN height - w.acc.settledAt ELSE 0
              due == DueOf(a, blocks)
              A == [w.acc EXCEPT !.settledAt = IF open THEN height ELSE @]
              started == [w EXCEPT !.acc.settledAt = IF open THEN height ELSE @, !.due = due]
  <1>3. /\ w \in Worlds /\ Told(w.acc) /\ w.acc \in AccountType /\ w.acc.settledAt \in Nat
        /\ w.acc.funds[Prim] \in Int /\ w.pay = pay /\ ~w.overdrawn
        /\ w.acc.settledAt <= height
    BY WorldFields DEF Before, Tellers, AccountType, Denoms
  <1>4. s = Conclude(Fallback(ChargeDue(started, blocks), price))
    BY <1>1 DEF Settle, DueOf
  <1>5. blocks \in Nat /\ (blocks # 0 <=> open /\ w.acc.settledAt # height)
    BY <1>3
  <1>6. /\ Lists(due, a) /\ due \in Seq(Payments)
        /\ \A p \in Payments :
              p \in ToSet(due) <=>
                  /\ p \in Scope(a)
                  /\ pay[p].state = "overdrawn" \/ (blocks # 0 /\ pay[p].state = "open")
    BY DueIs DEF Lists
  <1>7. A \in AccountType /\ A.funds = w.acc.funds /\ A.deposits = w.acc.deposits
    BY <1>3 DEF AccountType
  <1>. HIDE DEF blocks, due
  <1>8. started = [w EXCEPT !.acc = A, !.due = due]
    BY <1>3 DEF Worlds, AccountType
  <1>. HIDE DEF A, started
  <1>9. /\ started \in Worlds /\ started.acc = A /\ started.due = due /\ started.pay = w.pay
        /\ started.overdrawn = w.overdrawn
    BY <1>3, <1>6, <1>7, <1>8 DEF Worlds
  <1>10. started \in Tellers
    BY <1>3, <1>7, <1>9 DEF Tellers, Told
  <1>11. started.acc.funds[Prim] >= 0
    BY <1>3, <1>7, <1>9
  <1>12. /\ Billed(started, ChargeDue(started, blocks)) /\ ChargeDue(started, blocks) \in Tellers
    BY <1>3, <1>5, <1>9, <1>10, <1>11, ChargesBill
  <1>13. Concludes(started, s)
    BY <1>2, <1>4, <1>10, <1>12, FallbackBills, ConcludeStates
  <1>14. ToSet(due) = DueOn(a)
    <2>1. \A p \in ToSet(due) : p \in Payments
      BY <1>6 DEF ToSet
    <2>. QED
      BY <1>5, <1>6, <2>1 DEF DueOn, Scope
  <1>15. s.overdrawn => s.acc.funds[Prim] < 0
    BY SettlementsAre DEF Settles
  <1>. QED
    BY <1>9, <1>13, <1>14, <1>15 DEF Concludes, Outcome

-----------------------------------------------------------------------------
(* The states of an operation *)

AcctStates == [a \in Accounts |-> acct[a].state]
PayStates == [p \in Payments |-> pay[p].state]
SettledNow == {a \in Accounts : acct[a].state # "none" /\ acct[a].settledAt = height}
InDebt == {a \in Accounts : acct[a].funds[Prim] < 0}

\* No account starts in debt.
Fresh == \A a \in Accounts : acct[a].state = "none" => ~(acct[a].funds[Prim] < 0)

LEMMA CommitStates ==
    ASSUME IInv, NEW a \in Accounts, NEW w \in Worlds, Commit(a, w)
    PROVE  /\ AcctStates' = [AcctStates EXCEPT ![a] = w.acc.state]
           /\ PayStates' = [p \in Payments |-> w.pay[p].state]
           /\ SettledNow' = IF w.acc.state # "none" /\ w.acc.settledAt = height
                            THEN SettledNow \cup {a} ELSE SettledNow \ {a}
           /\ InDebt' = IF w.acc.funds[Prim] < 0 THEN InDebt \cup {a} ELSE InDebt \ {a}
  <1>1. /\ acct' = [acct EXCEPT ![a] = w.acc] /\ pay' = w.pay /\ height' = height
        /\ acct \in [Accounts -> AccountType]
    BY DEF Commit, IInv, StateType
  <1>2. acct'[a] = w.acc /\ \A b \in Accounts : b # a => acct'[b] = acct[b]
    BY <1>1
  <1>3. AcctStates' = [AcctStates EXCEPT ![a] = w.acc.state]
    BY <1>2 DEF AcctStates
  <1>4. PayStates' = [p \in Payments |-> w.pay[p].state]
    BY <1>1 DEF PayStates
  <1>5. SettledNow' = IF w.acc.state # "none" /\ w.acc.settledAt = height
                     THEN SettledNow \cup {a} ELSE SettledNow \ {a}
    BY <1>1, <1>2 DEF SettledNow
  <1>6. InDebt' = IF w.acc.funds[Prim] < 0 THEN InDebt \cup {a} ELSE InDebt \ {a}
    BY <1>2 DEF InDebt
  <1>. QED
    BY <1>3, <1>4, <1>5, <1>6

LEMMA CommitFresh ==
    ASSUME IInv, Fresh, NEW a \in Accounts, NEW w \in Worlds, Commit(a, w), w.acc.state # "none"
    PROVE  Fresh'
  <1>1. /\ acct' = [acct EXCEPT ![a] = w.acc]
        /\ acct \in [Accounts -> AccountType]
    BY DEF Commit, IInv, StateType
  <1>. QED
    BY <1>1 DEF Fresh

\* Saving an account changes no state and leaves a debt a debt.
LEMMA SavedStates ==
    ASSUME NEW v \in Tellers, NEW a \in Accounts
    PROVE  LET w == SaveAccount(v, a)
           IN  /\ w \in Worlds /\ w.pay = v.pay
               /\ w.acc.state = v.acc.state /\ w.acc.settledAt = v.acc.settledAt
               /\ w.acc.funds[Prim] < 0 <=> v.acc.funds[Prim] < 0
  <1>. DEFINE w == SaveAccount(v, a)
  <1>1. Saves(v, w)
    BY SaveEffect
  <1>. HIDE DEF w
  <1>2. /\ w \in Worlds /\ v \in Worlds /\ w.pay = v.pay
        /\ w.acc.state = v.acc.state /\ w.acc.settledAt = v.acc.settledAt
        /\ Debt(w.acc) = Debt(v.acc)
    BY <1>1, TellersAre DEF Saves
  <1>3. w.acc.funds[Prim] \in Int /\ v.acc.funds[Prim] \in Int
    BY <1>2, WorldFields DEF Denoms
  <1>4. w.acc.funds[Prim] < 0 <=> v.acc.funds[Prim] < 0
    BY <1>2, <1>3 DEF Debt
  <1>. QED
    BY <1>2, <1>4 DEF w

LEMMA DueIsDue ==
    ASSUME NEW a \in Accounts, acct[a].state # "none"
    PROVE  Lifecycle!Due(a) = DueOn(a)
  <1>1. \A p \in Payments : PayStates[p] = pay[p].state
    BY DEF PayStates
  <1>2. a \notin SettledNow <=> acct[a].settledAt # height
    BY DEF SettledNow
  <1>. QED
    BY <1>1, <1>2 DEF Lifecycle!Due, Lifecycle!Collectable, DueOn, Scope, PayStates, SettledNow

\* What an operation commits of a settlement: "closing" are the payments it closes.
After(w, s, a, closing) ==
    /\ \A p \in Payments :
        w.pay[p].state = IF p \notin DueOn(a) THEN pay[p].state
                         ELSE IF s.overdrawn THEN "overdrawn"
                         ELSE IF p \in closing THEN "closed" ELSE "open"
    /\ w.acc.settledAt = s.acc.settledAt
    /\ w.acc.funds[Prim] < 0 <=> s.acc.funds[Prim] < 0

LEMMA SettledStep ==
    ASSUME IInv, NEW a \in Accounts, acct[a].state # "none",
           NEW s, Outcome(s, a), NEW closing, NEW w \in Worlds, Commit(a, w), After(w, s, a, closing)
    PROVE  \E o \in Lifecycle!Outcomes(a) :
               /\ PayStates' = Lifecycle!PayAfter(a, o, closing)
               /\ Lifecycle!Overdraws(o) <=> s.overdrawn
               /\ o.short # {} <=> s.acc.funds[Prim] < 0
  <1>. DEFINE o == [short |-> IF s.acc.funds[Prim] < 0 THEN DueOn(a) ELSE {},
                    left |-> IF s.overdrawn THEN DueOn(a) ELSE {}]
  <1>1. s.overdrawn => s.acc.funds[Prim] < 0 /\ DueOn(a) # {}
    BY DEF Outcome
  <1>2. o \in Lifecycle!Outcomes(a)
    BY <1>1, DueIsDue DEF Lifecycle!Outcomes
  <1>3. Lifecycle!Overdraws(o) <=> s.overdrawn
    BY <1>1 DEF Lifecycle!Overdraws
  <1>4. o.short # {} <=> s.acc.funds[Prim] < 0
    BY DEF Outcome
  <1>. HIDE DEF o
  <1>5. PayStates' = Lifecycle!PayAfter(a, o, closing)
    <2>1. PayStates' = [p \in Payments |-> w.pay[p].state]
      BY CommitStates
    <2>. QED
      BY <1>3, <2>1, DueIsDue DEF After, Lifecycle!PayAfter, PayStates
  <1>. QED
    BY <1>2, <1>3, <1>4, <1>5

LEMMA SettlementOf ==
    ASSUME IInv, NEW a \in Accounts, acct[a].state \in {"open", "overdrawn"},
           NEW s \in Settlements(World(a), a)
    PROVE  /\ s \in Tellers /\ s \in Worlds
           /\ a \in InDebt => s.overdrawn /\ s.due = <<>> /\ s.acc = acct[a] /\ s.pay = pay
           /\ a \notin InDebt =>
                 /\ acct[a].state = "open" /\ Outcome(s, a) /\ s.acc.settledAt = height
                 /\ s.acc.state = IF s.overdrawn THEN "overdrawn" ELSE "open"
  <1>. DEFINE w == World(a)
  <1>1. /\ w \in Worlds /\ w.acc = acct[a] /\ w.acc.state \in {"open", "overdrawn"}
        /\ w.acc.state = "overdrawn" => w.acc.funds[Prim] < 0
        /\ Before(w, a) /\ pay \in Payments0 /\ height \in Nat
    BY WorldIs, BeforeIs
  <1>. HIDE DEF w
  <1>2. Settles(w, s, a)
    BY <1>1, SettlementsAre DEF w
  <1>3. s \in Tellers /\ s \in Worlds
    BY <1>2, TellersAre DEF Settles
  <1>4. CASE a \in InDebt
    BY <1>1, <1>2, <1>3, <1>4 DEF InDebt, Settles
  <1>5. CASE a \notin InDebt
    <2>1. ~(w.acc.funds[Prim] < 0) /\ w.acc.state = "open"
      BY <1>1, <1>5 DEF InDebt
    <2>2. Outcome(s, a)
      BY <1>1, <2>1, SettleStates DEF w
    <2>. QED
      BY <1>1, <1>2, <1>3, <1>5, <2>1, <2>2 DEF Settles
  <1>. QED
    BY <1>4, <1>5

\* An operation that leaves the states alone.
LEMMA IdleStep ==
    ASSUME IInv, Fresh, NEW a \in Accounts, NEW w, Leaves(w, a), Commit(a, w),
           w.acc.state = acct[a].state, acct[a].state # "none",
           w.acc.settledAt = acct[a].settledAt,
           w.acc.funds[Prim] < 0 <=> acct[a].funds[Prim] < 0,
           \A p \in Payments : w.pay[p].state = pay[p].state
    PROVE  UNCHANGED <<AcctStates, PayStates, SettledNow, InDebt>> /\ Fresh'
  <1>1. w \in Worlds
    BY DEF Leaves
  <1>2. /\ AcctStates' = [AcctStates EXCEPT ![a] = w.acc.state]
        /\ PayStates' = [p \in Payments |-> w.pay[p].state]
        /\ SettledNow' = IF w.acc.state # "none" /\ w.acc.settledAt = height
                         THEN SettledNow \cup {a} ELSE SettledNow \ {a}
        /\ InDebt' = IF w.acc.funds[Prim] < 0 THEN InDebt \cup {a} ELSE InDebt \ {a}
    BY <1>1, CommitStates
  <1>3. AcctStates' = AcctStates /\ PayStates' = PayStates
    BY <1>2 DEF AcctStates, PayStates
  <1>4. SettledNow' = SettledNow
    BY <1>2 DEF SettledNow
  <1>5. InDebt' = InDebt
    BY <1>2 DEF InDebt
  <1>6. Fresh'
    BY <1>1, CommitFresh
  <1>. QED
    BY <1>3, <1>4, <1>5, <1>6

\* An operation that charges the account.
LEMMA ChargeStep ==
    ASSUME IInv, Fresh, NEW a \in Accounts, acct[a].state \in {"open", "overdrawn"}, a \notin InDebt,
           NEW s \in Settlements(World(a), a), NEW closing,
           NEW w, Leaves(w, a), Commit(a, w), After(w, s, a, closing),
           w.acc.state \in States \ {"none"}, w.acc.state = "overdrawn" <=> s.overdrawn
    PROVE  /\ \E o \in Lifecycle!Outcomes(a) :
                /\ Lifecycle!Charge(a, o)
                /\ PayStates' = Lifecycle!PayAfter(a, o, closing)
                /\ Lifecycle!Overdraws(o) <=> s.overdrawn
           /\ AcctStates' = [AcctStates EXCEPT ![a] = w.acc.state]
           /\ AcctStates[a] = "open"
           /\ Fresh'
  <1>1. w \in Worlds
    BY DEF Leaves
  <1>2. /\ acct[a].state = "open" /\ Outcome(s, a) /\ s.acc.settledAt = height
        /\ s.acc.state = IF s.overdrawn THEN "overdrawn" ELSE "open"
    BY SettlementOf
  <1>3. /\ AcctStates' = [AcctStates EXCEPT ![a] = w.acc.state]
        /\ SettledNow' = SettledNow \cup {a}
        /\ InDebt' = IF s.acc.funds[Prim] < 0 THEN InDebt \cup {a} ELSE InDebt
    <2>1. /\ w.acc.settledAt = height /\ w.acc.state # "none"
          /\ w.acc.funds[Prim] < 0 <=> s.acc.funds[Prim] < 0
      BY <1>2 DEF After
    <2>2. /\ AcctStates' = [AcctStates EXCEPT ![a] = w.acc.state]
          /\ SettledNow' = IF w.acc.state # "none" /\ w.acc.settledAt = height
                           THEN SettledNow \cup {a} ELSE SettledNow \ {a}
          /\ InDebt' = IF w.acc.funds[Prim] < 0 THEN InDebt \cup {a} ELSE InDebt \ {a}
      BY <1>1, CommitStates
    <2>3. InDebt \ {a} = InDebt
      OBVIOUS
    <2>. QED
      BY <2>1, <2>2, <2>3
  <1>4. PICK o \in Lifecycle!Outcomes(a) :
               /\ PayStates' = Lifecycle!PayAfter(a, o, closing)
               /\ Lifecycle!Overdraws(o) <=> s.overdrawn
               /\ o.short # {} <=> s.acc.funds[Prim] < 0
    BY <1>1, <1>2, SettledStep
  <1>5. AcctStates[a] = "open"
    BY <1>2 DEF AcctStates
  <1>6. Lifecycle!Charge(a, o)
    BY <1>3, <1>4, <1>5 DEF Lifecycle!Charge, Lifecycle!MarkSettled, AcctStates, SettledNow, InDebt
  <1>7. Fresh'
    BY <1>1, CommitFresh
  <1>. QED
    BY <1>3, <1>4, <1>5, <1>6, <1>7

-----------------------------------------------------------------------------
(* The operations are those of EscrowLifecycle *)

LEMMA AccountSettleStep ==
    ASSUME IInv, Fresh, NEW a \in Accounts, AccountSettle(a)
    PROVE  Lifecycle!AccountSettle(a) /\ Fresh'
  <1>1. acct[a].state \in {"open", "overdrawn"}
    BY DEF AccountSettle
  <1>2. PICK s \in Settlements(World(a), a) : Commit(a, SaveAccount(s, a))
    BY DEF AccountSettle
  <1>. DEFINE w == SaveAccount(s, a)
  <1>3. s \in Tellers /\ Leaves(w, a)
    BY <1>1, SettlementOf, SettledFits, SaveFits
  <1>4. /\ w.pay = s.pay /\ w.acc.state = s.acc.state /\ w.acc.settledAt = s.acc.settledAt
        /\ w.acc.funds[Prim] < 0 <=> s.acc.funds[Prim] < 0
    BY <1>3, SavedStates
  <1>. HIDE DEF w
  <1>5. Commit(a, w)
    BY <1>2 DEF w
  <1>6. AcctStates[a] \in {"open", "overdrawn"}
    BY <1>1 DEF AcctStates
  <1>7. CASE a \in InDebt
    <2>1. s.acc = acct[a] /\ s.pay = pay
      BY <1>1, <1>7, SettlementOf
    <2>2. UNCHANGED <<AcctStates, PayStates, SettledNow, InDebt>> /\ Fresh'
      BY <1>1, <1>3, <1>4, <1>5, <2>1, IdleStep
    <2>. QED
      BY <1>6, <1>7, <2>2
      DEF Lifecycle!AccountSettle, Lifecycle!escrowVars, AcctStates, PayStates, SettledNow, InDebt
  <1>8. CASE a \notin InDebt
    <2>1. /\ Outcome(s, a) /\ s.acc.state = IF s.overdrawn THEN "overdrawn" ELSE "open"
      BY <1>1, <1>8, SettlementOf
    <2>2. After(w, s, a, {})
      BY <1>4, <2>1 DEF After, Outcome
    <2>3. /\ \E o \in Lifecycle!Outcomes(a) :
                /\ Lifecycle!Charge(a, o)
                /\ PayStates' = Lifecycle!PayAfter(a, o, {})
                /\ Lifecycle!Overdraws(o) <=> s.overdrawn
          /\ AcctStates' = [AcctStates EXCEPT ![a] = w.acc.state]
          /\ AcctStates[a] = "open"
          /\ Fresh'
      BY <1>1, <1>3, <1>4, <1>5, <1>8, <2>1, <2>2, ChargeStep DEF States
    <2>4. w.acc.state = IF s.overdrawn THEN "overdrawn" ELSE "open"
      BY <1>4, <2>1
    <2>5. Lifecycle!SettleAndSave(a, {})
      BY <2>3, <2>4 DEF Lifecycle!SettleAndSave, Lifecycle!SaveSettled, AcctStates, PayStates
    <2>. QED
      BY <1>6, <1>8, <2>3, <2>5 DEF Lifecycle!AccountSettle, AcctStates, InDebt
  <1>. QED
    BY <1>7, <1>8

LEMMA AccountCloseStep ==
    ASSUME IInv, Fresh, NEW a \in Accounts, AccountClose(a)
    PROVE  Lifecycle!AccountClose(a) /\ Fresh'
  <1>1. acct[a].state \in {"open", "overdrawn"}
    BY DEF AccountClose
  <1>2. PICK s \in Settlements(World(a), a) :
            Commit(a, SaveAccount(
                CloseDue([s EXCEPT !.acc.state = IF @ = "open" THEN "closed" ELSE @]), a))
    BY DEF AccountClose
  <1>. DEFINE t == [s EXCEPT !.acc.state = IF @ = "open" THEN "closed" ELSE @]
              x == CloseDue(t)
              w == SaveAccount(x, a)
              state == IF s.acc.state = "open" THEN "closed" ELSE s.acc.state
  <1>3. /\ s \in Tellers /\ s \in Worlds /\ t \in Worlds /\ Lists(t.due, a) /\ Fits(t, a)
    BY <1>1, SettlementOf, SettledFits
  <1>4. /\ t.pay = s.pay /\ t.due = s.due /\ t.overdrawn = s.overdrawn /\ t.acc.state = state
        /\ t.acc.settledAt = s.acc.settledAt /\ t.acc.funds = s.acc.funds
    BY <1>3 DEF Worlds, AccountType
  <1>. HIDE DEF t
  <1>5. x \in Worlds /\ PaysOut(t, x, a) /\ Closes(t, x, ToSet(t.due))
    BY <1>3, DuePaysOut, CloseDueCloses
  <1>. HIDE DEF x
  <1>6. Fits(x, a) /\ x \in Tellers /\ x.acc = t.acc
    BY <1>3, <1>5, PaysOutFits DEF Fits, PaysOut
  <1>7. /\ Leaves(w, a) /\ w.pay = x.pay /\ w.acc.state = state
        /\ w.acc.settledAt = s.acc.settledAt
        /\ w.acc.funds[Prim] < 0 <=> s.acc.funds[Prim] < 0
    BY <1>4, <1>6, SaveFits, SavedStates
  <1>8. Commit(a, w)
    BY <1>2 DEF t, x
  <1>. HIDE DEF w
  <1>9. \A p \in Payments :
            w.pay[p].state = IF p \in ToSet(s.due) /\ s.pay[p].state = "open" THEN "closed"
                             ELSE s.pay[p].state
    BY <1>4, <1>5, <1>7 DEF Closes
  <1>10. AcctStates[a] = acct[a].state
    BY DEF AcctStates
  <1>11. CASE a \in InDebt
    <2>1. s.acc = acct[a] /\ s.pay = pay /\ s.due = <<>>
      BY <1>1, <1>11, SettlementOf
    <2>2. \A p \in Payments : w.pay[p].state = pay[p].state
      BY <1>9, <2>1 DEF ToSet
    <2>3. w \in Worlds
      BY <1>7 DEF Leaves
    <2>4. /\ AcctStates' = [AcctStates EXCEPT ![a] = w.acc.state]
          /\ PayStates' = [p \in Payments |-> w.pay[p].state]
          /\ SettledNow' = IF w.acc.state # "none" /\ w.acc.settledAt = height
                           THEN SettledNow \cup {a} ELSE SettledNow \ {a}
          /\ InDebt' = IF w.acc.funds[Prim] < 0 THEN InDebt \cup {a} ELSE InDebt \ {a}
      BY <1>8, <2>3, CommitStates
    <2>5. PayStates' = PayStates
      BY <2>2, <2>4 DEF PayStates
    <2>6. SettledNow' = SettledNow
      BY <1>1, <1>7, <2>1, <2>4 DEF SettledNow
    <2>7. InDebt' = InDebt
      BY <1>7, <2>1, <2>4 DEF InDebt
    <2>8. AcctStates' = [AcctStates EXCEPT ![a] = IF @ = "open" THEN "closed" ELSE @]
      BY <1>7, <1>10, <2>1, <2>4
    <2>9. Fresh'
      BY <1>1, <1>7, <1>8, <2>1, <2>3, CommitFresh
    <2>. QED
      BY <1>1, <1>10, <1>11, <2>5, <2>6, <2>7, <2>8, <2>9
      DEF Lifecycle!AccountClose, AcctStates, PayStates, SettledNow, InDebt
  <1>12. CASE a \notin InDebt
    <2>1. /\ Outcome(s, a) /\ s.acc.state = IF s.overdrawn THEN "overdrawn" ELSE "open"
      BY <1>1, <1>12, SettlementOf
    <2>2. After(w, s, a, Scope(a))
      BY <1>7, <1>9, <2>1 DEF After, Outcome, DueOn
    <2>3. w.acc.state = IF s.overdrawn THEN "overdrawn" ELSE "closed"
      BY <1>7, <2>1
    <2>4. /\ \E o \in Lifecycle!Outcomes(a) :
                /\ Lifecycle!Charge(a, o)
                /\ PayStates' = Lifecycle!PayAfter(a, o, Scope(a))
                /\ Lifecycle!Overdraws(o) <=> s.overdrawn
          /\ AcctStates' = [AcctStates EXCEPT ![a] = w.acc.state]
          /\ AcctStates[a] = "open"
          /\ Fresh'
      BY <1>1, <1>7, <1>8, <1>12, <2>2, <2>3, ChargeStep DEF States
    <2>5. Scope(a) = Lifecycle!Collectable(a)
      BY DEF Scope, Lifecycle!Collectable
    <2>. QED
      BY <1>12, <2>3, <2>4, <2>5 DEF Lifecycle!AccountClose, AcctStates, PayStates, InDebt
  <1>. QED
    BY <1>11, <1>12

LEMMA PaymentWithdrawStep ==
    ASSUME IInv, Fresh, NEW p \in Payments, PaymentWithdraw(p)
    PROVE  Lifecycle!PaymentWithdraw(p) /\ Fresh'
  <1>. DEFINE a == AccountOf[p]
  <1>1. /\ a \in Accounts /\ p \in Scope(a) /\ acct[a].state \in {"open", "overdrawn"}
        /\ pay[p].state = "open"
    BY PricesAre DEF PaymentWithdraw
  <1>2. PICK s \in Settlements(World(a), a) :
            /\ ~s.overdrawn => p \in ToSet(s.due)
            /\ Commit(a, SaveAccount(IF s.overdrawn THEN s ELSE Withdraw(s, p), a))
    BY DEF PaymentWithdraw
  <1>. HIDE DEF a
  <1>. DEFINE x == IF s.overdrawn THEN s ELSE Withdraw(s, p)
              w == SaveAccount(x, a)
  <1>3. s \in Tellers /\ s \in Worlds /\ Fits(s, a)
    BY <1>1, SettlementOf, SettledFits
  <1>4. Fits(x, a) /\ x.acc = s.acc /\ \A q \in Payments : x.pay[q].state = s.pay[q].state
    <2>1. Withdraw(s, p) \in Worlds /\ PaysOut(s, Withdraw(s, p), a) /\ SameStates(s, Withdraw(s, p))
      BY <1>1, <1>3, WithdrawPaysOut, WithdrawKeepsStates
    <2>2. Fits(Withdraw(s, p), a)
      BY <1>1, <1>3, <2>1, PaysOutFits
    <2>. QED
      BY <1>3, <2>1, <2>2 DEF PaysOut, SameStates
  <1>5. Commit(a, w)
    BY <1>2
  <1>. HIDE DEF x
  <1>6. /\ Leaves(w, a) /\ w.pay = x.pay /\ w.acc.state = s.acc.state
        /\ w.acc.settledAt = s.acc.settledAt
        /\ w.acc.funds[Prim] < 0 <=> s.acc.funds[Prim] < 0
    BY <1>1, <1>4, SaveFits, SavedStates DEF Fits
  <1>. HIDE DEF w
  <1>7. AcctStates[a] = acct[a].state /\ PayStates[p] = "open"
    BY <1>1 DEF AcctStates, PayStates
  <1>8. CASE a \in InDebt
    <2>1. s.acc = acct[a] /\ s.pay = pay
      BY <1>1, <1>8, SettlementOf
    <2>2. UNCHANGED <<AcctStates, PayStates, SettledNow, InDebt>> /\ Fresh'
      BY <1>1, <1>4, <1>5, <1>6, <2>1, IdleStep
    <2>. QED
      BY <1>1, <1>7, <1>8, <2>2
      DEF Lifecycle!PaymentWithdraw, Lifecycle!escrowVars, AcctStates, PayStates, SettledNow, InDebt, a
  <1>9. CASE a \notin InDebt
    <2>1. /\ Outcome(s, a) /\ s.acc.state = IF s.overdrawn THEN "overdrawn" ELSE "open"
          /\ acct[a].state = "open"
      BY <1>1, <1>9, SettlementOf
    <2>2. After(w, s, a, {})
      BY <1>4, <1>6, <2>1 DEF After, Outcome
    <2>3. /\ \E o \in Lifecycle!Outcomes(a) :
                /\ Lifecycle!Charge(a, o)
                /\ PayStates' = Lifecycle!PayAfter(a, o, {})
                /\ Lifecycle!Overdraws(o) <=> s.overdrawn
          /\ AcctStates' = [AcctStates EXCEPT ![a] = w.acc.state]
          /\ AcctStates[a] = "open"
          /\ Fresh'
      BY <1>1, <1>5, <1>6, <1>9, <2>1, <2>2, ChargeStep DEF States
    <2>4. w.acc.state = IF s.overdrawn THEN "overdrawn" ELSE "open"
      BY <1>6, <2>1
    <2>5. ~s.overdrawn => p \in Lifecycle!Due(a)
      BY <1>1, <1>2, <2>1, DueIsDue DEF Outcome
    <2>6. \E o \in Lifecycle!Outcomes(a) :
            /\ Lifecycle!Overdraws(o) \/ p \in Lifecycle!Due(a)
            /\ Lifecycle!SaveSettled(a, o, {})
      BY <2>3, <2>4, <2>5 DEF Lifecycle!SaveSettled, AcctStates, PayStates
    <2>. QED
      BY <1>1, <1>7, <1>9, <2>3, <2>6
      DEF Lifecycle!PaymentWithdraw, AcctStates, PayStates, InDebt, SettledNow, a
  <1>. QED
    BY <1>8, <1>9

LEMMA PaymentCloseStep ==
    ASSUME IInv, Fresh, NEW p \in Payments, PaymentClose(p)
    PROVE  Lifecycle!PaymentClose(p) /\ Fresh'
  <1>. DEFINE a == AccountOf[p]
  <1>1. /\ a \in Accounts /\ p \in Scope(a) /\ acct[a].state \in {"open", "overdrawn"}
        /\ pay[p].state \in {"open", "overdrawn"}
    BY PricesAre DEF PaymentClose
  <1>2. PICK s \in Settlements(World(a), a) :
            Commit(a, SaveAccount(IF p \in ToSet(s.due) THEN ClosePayment(s, p) ELSE s, a))
    BY DEF PaymentClose
  <1>. HIDE DEF a
  <1>. DEFINE x == IF p \in ToSet(s.due) THEN ClosePayment(s, p) ELSE s
              w == SaveAccount(x, a)
  <1>3. s \in Tellers /\ s \in Worlds /\ Fits(s, a)
    BY <1>1, SettlementOf, SettledFits
  <1>4. /\ Fits(x, a) /\ x.acc = s.acc
        /\ \A q \in Payments :
              x.pay[q].state = IF q = p /\ p \in ToSet(s.due) /\ s.pay[q].state = "open"
                               THEN "closed" ELSE s.pay[q].state
    <2>1. /\ ClosePayment(s, p) \in Worlds /\ PaysOut(s, ClosePayment(s, p), a)
          /\ Closes(s, ClosePayment(s, p), {p})
      BY <1>1, <1>3, ClosePaysOut, ClosePaymentCloses
    <2>2. Fits(ClosePayment(s, p), a)
      BY <1>1, <1>3, <2>1, PaysOutFits
    <2>. QED
      BY <1>3, <2>1, <2>2 DEF PaysOut, Closes
  <1>5. Commit(a, w)
    BY <1>2
  <1>. HIDE DEF x
  <1>6. /\ Leaves(w, a) /\ w.pay = x.pay /\ w.acc.state = s.acc.state
        /\ w.acc.settledAt = s.acc.settledAt
        /\ w.acc.funds[Prim] < 0 <=> s.acc.funds[Prim] < 0
    BY <1>1, <1>4, SaveFits, SavedStates DEF Fits
  <1>. HIDE DEF w
  <1>7. AcctStates[a] = acct[a].state /\ PayStates[p] = pay[p].state
    BY <1>1 DEF AcctStates, PayStates
  <1>8. Lifecycle!PaymentClosable(p)
    BY <1>1, <1>7 DEF Lifecycle!PaymentClosable, AcctStates, PayStates, a
  <1>9. CASE a \in InDebt
    <2>1. s.acc = acct[a] /\ s.pay = pay /\ s.due = <<>>
      BY <1>1, <1>9, SettlementOf
    <2>2. \A q \in Payments : w.pay[q].state = pay[q].state
      BY <1>4, <1>6, <2>1 DEF ToSet
    <2>3. UNCHANGED <<AcctStates, PayStates, SettledNow, InDebt>> /\ Fresh'
      BY <1>1, <1>5, <1>6, <2>1, <2>2, IdleStep
    <2>. QED
      BY <1>8, <1>9, <2>3
      DEF Lifecycle!PaymentClose, Lifecycle!escrowVars, AcctStates, PayStates, SettledNow, InDebt, a
  <1>10. CASE a \notin InDebt
    <2>1. Outcome(s, a) /\ s.acc.state = IF s.overdrawn THEN "overdrawn" ELSE "open"
      BY <1>1, <1>10, SettlementOf
    <2>2. After(w, s, a, {p})
      BY <1>4, <1>6, <2>1 DEF After, Outcome
    <2>3. /\ \E o \in Lifecycle!Outcomes(a) :
                /\ Lifecycle!Charge(a, o)
                /\ PayStates' = Lifecycle!PayAfter(a, o, {p})
                /\ Lifecycle!Overdraws(o) <=> s.overdrawn
          /\ AcctStates' = [AcctStates EXCEPT ![a] = w.acc.state]
          /\ AcctStates[a] = "open"
          /\ Fresh'
      BY <1>1, <1>5, <1>6, <1>10, <2>1, <2>2, ChargeStep DEF States
    <2>4. w.acc.state = IF s.overdrawn THEN "overdrawn" ELSE "open"
      BY <1>6, <2>1
    <2>5. Lifecycle!SettleAndSave(a, {p})
      BY <2>3, <2>4 DEF Lifecycle!SettleAndSave, Lifecycle!SaveSettled, AcctStates, PayStates
    <2>. QED
      BY <1>8, <1>10, <2>3, <2>5 DEF Lifecycle!PaymentClose, InDebt, a
  <1>. QED
    BY <1>9, <1>10

LEMMA BlockStep ==
    ASSUME IInv, Fresh, NextBlock
    PROVE  Lifecycle!NextBlock /\ Fresh'
  <1>1. height \in Nat /\ height' = height + 1 /\ acct' = acct /\ pay' = pay
    BY DEF IInv, StateType, NextBlock
  <1>2. \A a \in Accounts : acct[a].settledAt \in Nat /\ acct[a].settledAt <= height
    BY DEF IInv, StateType, AccountType, Sound, AccOk
  <1>3. SettledNow' = {}
    BY <1>1, <1>2 DEF SettledNow
  <1>4. AcctStates' = AcctStates /\ PayStates' = PayStates /\ InDebt' = InDebt
    BY <1>1 DEF AcctStates, PayStates, InDebt
  <1>5. Fresh'
    BY <1>1 DEF Fresh
  <1>. QED
    BY <1>3, <1>4, <1>5 DEF Lifecycle!NextBlock, AcctStates, PayStates, InDebt, SettledNow

LEMMA AccountCreateStep ==
    ASSUME IInv, Fresh, NEW a \in Accounts, NEW amount \in Amounts, NEW sources \in SourceLists,
           AccountCreate(a, amount, sources)
    PROVE  Lifecycle!AccountCreate(a) /\ Fresh'
  <1>1. PICK w : /\ Leaves(w, a) /\ Commit(a, w) /\ w.pay = pay
                 /\ w.acc.state = "open" /\ w.acc.settledAt = height
                 /\ w.acc.funds[Prim] < 0 => acct[a].funds[Prim] < 0
    BY AccountCreated
  <1>2. w \in Worlds
    BY <1>1 DEF Leaves
  <1>3. acct[a].state = "none"
    BY DEF AccountCreate
  <1>4. a \notin InDebt /\ ~(w.acc.funds[Prim] < 0) /\ AcctStates[a] = "none"
    BY <1>1, <1>3 DEF Fresh, InDebt, AcctStates
  <1>5. /\ AcctStates' = [AcctStates EXCEPT ![a] = w.acc.state]
        /\ PayStates' = [p \in Payments |-> w.pay[p].state]
        /\ SettledNow' = IF w.acc.state # "none" /\ w.acc.settledAt = height
                         THEN SettledNow \cup {a} ELSE SettledNow \ {a}
        /\ InDebt' = IF w.acc.funds[Prim] < 0 THEN InDebt \cup {a} ELSE InDebt \ {a}
    BY <1>1, <1>2, CommitStates
  <1>6. /\ AcctStates' = [AcctStates EXCEPT ![a] = "open"] /\ PayStates' = PayStates
        /\ SettledNow' = SettledNow \cup {a} /\ InDebt' = InDebt
    <2>1. InDebt \ {a} = InDebt
      BY <1>4
    <2>2. PayStates' = PayStates
      BY <1>1, <1>5 DEF PayStates
    <2>. QED
      BY <1>1, <1>4, <1>5, <2>1, <2>2
  <1>7. Fresh'
    BY <1>1, <1>2, CommitFresh
  <1>. QED
    BY <1>4, <1>6, <1>7 DEF Lifecycle!AccountCreate, AcctStates, PayStates, InDebt, SettledNow

LEMMA PaymentCreateStep ==
    ASSUME IInv, Fresh, NEW p \in Payments, NEW rate \in Rates, PaymentCreate(p, rate)
    PROVE  Lifecycle!PaymentCreate(p) /\ Fresh'
  <1>. DEFINE a == AccountOf[p]
  <1>1. /\ a \in Accounts /\ acct[a].state \in {"open", "overdrawn"}
        /\ pay[p].state = "none"
    BY PricesAre DEF PaymentCreate
  <1>2. PICK s \in Settlements(World(a), a), w \in Worlds :
               /\ Leaves(w, a) /\ Commit(a, w) /\ ~s.overdrawn
               /\ w.acc = s.acc /\ w.pay[p].state = "open"
               /\ \A q \in Payments : q # p => w.pay[q] = pay[q]
    BY PaymentCreated
  <1>. HIDE DEF a
  <1>3. /\ a \notin InDebt /\ acct[a].state = "open" /\ Outcome(s, a)
        /\ s.acc.settledAt = height /\ s.acc.state = "open"
    BY <1>1, <1>2, SettlementOf
  <1>4. w \in Worlds
    BY <1>2 DEF Leaves
  <1>5. /\ AcctStates' = [AcctStates EXCEPT ![a] = w.acc.state]
        /\ PayStates' = [q \in Payments |-> w.pay[q].state]
        /\ SettledNow' = IF w.acc.state # "none" /\ w.acc.settledAt = height
                         THEN SettledNow \cup {a} ELSE SettledNow \ {a}
        /\ InDebt' = IF w.acc.funds[Prim] < 0 THEN InDebt \cup {a} ELSE InDebt \ {a}
    BY <1>1, <1>2, <1>4, CommitStates
  <1>6. AcctStates[a] = "open" /\ PayStates[p] = "none"
    BY <1>1, <1>3 DEF AcctStates, PayStates
  <1>7. AcctStates' = AcctStates /\ PayStates' = [PayStates EXCEPT ![p] = "open"]
    <2>1. AcctStates' = AcctStates
      BY <1>2, <1>3, <1>5 DEF AcctStates
    <2>2. PayStates' = [PayStates EXCEPT ![p] = "open"]
      BY <1>2, <1>5 DEF PayStates
    <2>. QED
      BY <2>1, <2>2
  <1>8. PICK o \in Lifecycle!Outcomes(a) :
               /\ ~Lifecycle!Overdraws(o)
               /\ o.short # {} <=> s.acc.funds[Prim] < 0
    <2>. DEFINE o == [short |-> IF s.acc.funds[Prim] < 0 THEN DueOn(a) ELSE {}, left |-> {}]
    <2>1. o \in Lifecycle!Outcomes(a) /\ ~Lifecycle!Overdraws(o)
      BY <1>1, <1>3, DueIsDue DEF Lifecycle!Outcomes, Lifecycle!Overdraws
    <2>2. o.short # {} <=> s.acc.funds[Prim] < 0
      BY <1>3 DEF Outcome
    <2>. QED
      BY <2>1, <2>2
  <1>9. InDebt \ {a} = InDebt
    BY <1>3
  <1>10. /\ SettledNow' = SettledNow \cup {a}
         /\ InDebt' = IF o.short # {} THEN InDebt \cup {a} ELSE InDebt
    BY <1>2, <1>3, <1>5, <1>8, <1>9
  <1>11. Lifecycle!Charge(a, o)
    BY <1>6, <1>10 DEF Lifecycle!Charge, Lifecycle!MarkSettled, AcctStates, SettledNow, InDebt
  <1>12. Lifecycle!PaymentCreate(p)
    BY <1>1, <1>3, <1>6, <1>7, <1>8, <1>11
    DEF Lifecycle!PaymentCreate, AcctStates, PayStates, InDebt, a
  <1>13. Fresh'
    BY <1>1, <1>2, <1>3, <1>4, CommitFresh
  <1>. QED
    BY <1>12, <1>13

LEMMA DepositOpenStep ==
    ASSUME IInv, Fresh, NEW a \in Accounts, acct[a].state = "open",
           NEW w, Funds(World(a), w), Commit(a, w)
    PROVE  Lifecycle!DepositOpen(a) /\ Fresh'
  <1>1. /\ World(a).acc = acct[a] /\ World(a).pay = pay
    BY WorldIs
  <1>2. /\ w \in Worlds /\ w.pay = pay
        /\ w.acc.state = "open" /\ w.acc.settledAt = acct[a].settledAt
        /\ w.acc.funds[Prim] < 0 => acct[a].funds[Prim] < 0
    BY <1>1 DEF Funds
  <1>3. /\ AcctStates' = [AcctStates EXCEPT ![a] = w.acc.state]
        /\ PayStates' = [q \in Payments |-> w.pay[q].state]
        /\ SettledNow' = IF w.acc.state # "none" /\ w.acc.settledAt = height
                         THEN SettledNow \cup {a} ELSE SettledNow \ {a}
        /\ InDebt' = IF w.acc.funds[Prim] < 0 THEN InDebt \cup {a} ELSE InDebt \ {a}
    BY <1>2, CommitStates
  <1>4. AcctStates[a] = "open" /\ AcctStates' = AcctStates /\ PayStates' = PayStates
    BY <1>2, <1>3 DEF AcctStates, PayStates
  <1>5. SettledNow' = SettledNow
    BY <1>2, <1>3 DEF SettledNow
  <1>6. InDebt' \in {InDebt, InDebt \ {a}}
    <2>1. w.acc.funds[Prim] < 0 => InDebt \cup {a} = InDebt
      BY <1>2 DEF InDebt
    <2>. QED
      BY <1>3, <2>1
  <1>7. Fresh'
    BY <1>2, CommitFresh
  <1>. QED
    BY <1>4, <1>5, <1>6, <1>7 DEF Lifecycle!DepositOpen, AcctStates, PayStates, InDebt, SettledNow

LEMMA DepositOverdrawnStep ==
    ASSUME IInv, Fresh, NEW a \in Accounts, acct[a].state = "overdrawn",
           NEW w, Funds(World(a), w), NEW s \in Settlements(w, a),
           Commit(a, SaveAccount(
               [CloseDue(s) EXCEPT !.acc.state = IF s.overdrawn THEN @ ELSE "closed"], a))
    PROVE  /\ Lifecycle!DepositOverdrawn(a) \/ UNCHANGED <<AcctStates, PayStates, SettledNow, InDebt>>
           /\ Fresh'
  <1>. DEFINE x == CloseDue(s)
              y == [x EXCEPT !.acc.state = IF s.overdrawn THEN @ ELSE "closed"]
              z == SaveAccount(y, a)
              state == IF s.overdrawn THEN "overdrawn" ELSE "closed"
  <1>1. Before(w, a) /\ Settles(w, s, a) /\ Fits(y, a)
    BY FundedOverdrawn
  <1>2. /\ w.pay = pay /\ w.acc.state = acct[a].state /\ w.acc.settledAt = acct[a].settledAt
        /\ pay \in Payments0 /\ height \in Nat /\ acct[a].funds[Prim] < 0
    BY WorldIs DEF Funds, IInv, StateType, Sound, AccOk
  <1>3. /\ s \in Worlds /\ Lists(s.due, a) /\ s.acc.settledAt = acct[a].settledAt
        /\ s.overdrawn => s.acc.state = "overdrawn"
    BY <1>1, <1>2, TellersAre, NoneListed DEF Settles
  <1>4. x \in Worlds /\ x.acc = s.acc /\ Closes(s, x, ToSet(s.due))
    BY <1>3, DuePaysOut, CloseDueCloses DEF PaysOut
  <1>. HIDE DEF x
  <1>5. /\ y.pay = x.pay /\ y.acc.state = state /\ y.acc.settledAt = x.acc.settledAt
        /\ y.acc.funds = x.acc.funds
    BY <1>3, <1>4 DEF Worlds, AccountType
  <1>6. Commit(a, z)
    BY DEF x
  <1>. HIDE DEF y
  <1>7. /\ Leaves(z, a) /\ z.pay = x.pay /\ z.acc.state = state
        /\ z.acc.settledAt = acct[a].settledAt
        /\ z.acc.funds[Prim] < 0 <=> s.acc.funds[Prim] < 0
    BY <1>1, <1>3, <1>4, <1>5, SaveFits, SavedStates DEF Fits
  <1>. HIDE DEF z
  <1>8. \A p \in Payments :
            z.pay[p].state = IF p \in ToSet(s.due) /\ s.pay[p].state = "open" THEN "closed"
                             ELSE s.pay[p].state
    BY <1>4, <1>7 DEF Closes
  <1>9. CASE w.acc.funds[Prim] < 0
    <2>1. s.overdrawn /\ s.due = <<>> /\ s.acc = w.acc /\ s.pay = pay
      BY <1>1, <1>9 DEF Settles
    <2>2. \A p \in Payments : z.pay[p].state = pay[p].state
      BY <1>8, <2>1 DEF ToSet
    <2>. QED
      BY <1>2, <1>6, <1>7, <1>9, <2>1, <2>2, IdleStep
  <1>10. CASE ~(w.acc.funds[Prim] < 0)
    <2>1. Outcome(s, a)
      BY <1>1, <1>2, <1>10, SettleStates
    <2>2. After(z, s, a, Scope(a))
      BY <1>3, <1>7, <1>8, <2>1 DEF After, Outcome, DueOn
    <2>3. z \in Worlds
      BY <1>7 DEF Leaves
    <2>4. /\ AcctStates' = [AcctStates EXCEPT ![a] = z.acc.state]
          /\ SettledNow' = IF z.acc.state # "none" /\ z.acc.settledAt = height
                           THEN SettledNow \cup {a} ELSE SettledNow \ {a}
          /\ InDebt' = IF z.acc.funds[Prim] < 0 THEN InDebt \cup {a} ELSE InDebt \ {a}
      BY <1>6, <2>3, CommitStates
    <2>5. PICK o \in Lifecycle!Outcomes(a) :
               /\ PayStates' = Lifecycle!PayAfter(a, o, Scope(a))
               /\ Lifecycle!Overdraws(o) <=> s.overdrawn
               /\ o.short # {} <=> s.acc.funds[Prim] < 0
      BY <1>6, <2>1, <2>2, <2>3, SettledStep
    <2>6. SettledNow' = SettledNow
      BY <1>7, <2>4 DEF SettledNow
    <2>7. InDebt' = IF o.short # {} THEN InDebt \cup {a} ELSE InDebt \ {a}
      BY <1>7, <2>4, <2>5
    <2>8. AcctStates[a] = "overdrawn"
      BY DEF AcctStates
    <2>9. AcctStates' = IF Lifecycle!Overdraws(o) THEN AcctStates ELSE [AcctStates EXCEPT ![a] = "closed"]
      BY <1>7, <2>4, <2>5, <2>8 DEF AcctStates
    <2>10. Scope(a) = Lifecycle!Collectable(a)
      BY DEF Scope, Lifecycle!Collectable
    <2>11. Lifecycle!DepositOverdrawn(a)
      BY <2>5, <2>6, <2>7, <2>8, <2>9, <2>10
      DEF Lifecycle!DepositOverdrawn, AcctStates, PayStates, SettledNow, InDebt
    <2>12. Fresh'
      BY <1>6, <1>7, <2>3, CommitFresh
    <2>. QED
      BY <2>11, <2>12
  <1>. QED
    BY <1>9, <1>10

LEMMA AccountDepositStep ==
    ASSUME IInv, Fresh, NEW a \in Accounts, NEW signer \in Tenants, NEW d \in Denoms,
           NEW amount \in Amounts, NEW sources \in SourceLists,
           AccountDeposit(a, signer, d, amount, sources)
    PROVE  /\ Lifecycle!AccountDeposit(a) \/ UNCHANGED <<AcctStates, PayStates, SettledNow, InDebt>>
           /\ Fresh'
  <1>. DEFINE auth == AuthorizeDeposits(signer, d, amount, sources)
              w == FetchDeposits([World(a) EXCEPT !.grant = auth.grant], auth.deposits)
  <1>1. Funds(World(a), w)
    <2>1. /\ signer \in DOMAIN Wallets /\ amount \in Nat /\ sources \in Seq(SourceNames)
          /\ BankHolds /\ grant \in GrantType
      BY PricesAre DEF IInv, StateType
    <2>2. World(a) \in Worlds /\ World(a).grant = grant
      BY WorldIs
    <2>. QED
      BY <2>1, <2>2, FundsEffect
  <1>2. /\ acct[a].state \in {"open", "overdrawn"}
        /\ IF acct[a].state = "open" THEN Commit(a, w)
           ELSE \E s \in Settlements(w, a) :
                Commit(a, SaveAccount(
                    [CloseDue(s) EXCEPT !.acc.state = IF s.overdrawn THEN @ ELSE "closed"], a))
    BY DEF AccountDeposit
  <1>. HIDE DEF w
  <1>3. CASE acct[a].state = "open"
    BY <1>1, <1>2, <1>3, DepositOpenStep DEF Lifecycle!AccountDeposit
  <1>4. CASE acct[a].state = "overdrawn"
    BY <1>1, <1>2, <1>4, DepositOverdrawnStep DEF Lifecycle!AccountDeposit
  <1>. QED
    BY <1>2, <1>3, <1>4

LEMMA LifecycleStep ==
    ASSUME IInv, Fresh, [Next]_vars
    PROVE  [Lifecycle!LifecycleNext]_<<AcctStates, PayStates, SettledNow, InDebt>> /\ Fresh'
  <1>. DEFINE Step == [Lifecycle!LifecycleNext]_<<AcctStates, PayStates, SettledNow, InDebt>> /\ Fresh'
  <1>1. CASE NextBlock
    BY <1>1, BlockStep DEF Lifecycle!LifecycleNext
  <1>2. ASSUME NEW a \in Accounts, NEW amount \in Amounts, NEW sources \in SourceLists,
               AccountCreate(a, amount, sources)
        PROVE  Step
    BY <1>2, AccountCreateStep DEF Lifecycle!LifecycleNext
  <1>3. ASSUME NEW a \in Accounts, NEW amount \in Amounts, NEW sources \in SourceLists,
               NEW signer \in Tenants, NEW d \in Denoms,
               AccountDeposit(a, signer, d, amount, sources)
        PROVE  Step
    BY <1>3, AccountDepositStep DEF Lifecycle!LifecycleNext
  <1>4. ASSUME NEW a \in Accounts, AccountClose(a) PROVE Step
    BY <1>4, AccountCloseStep DEF Lifecycle!LifecycleNext
  <1>5. ASSUME NEW a \in Accounts, AccountSettle(a) PROVE Step
    BY <1>5, AccountSettleStep DEF Lifecycle!LifecycleNext
  <1>6. ASSUME NEW p \in Payments, NEW rate \in Rates, PaymentCreate(p, rate) PROVE Step
    BY <1>6, PaymentCreateStep DEF Lifecycle!LifecycleNext
  <1>7. ASSUME NEW p \in Payments, PaymentWithdraw(p) PROVE Step
    BY <1>7, PaymentWithdrawStep DEF Lifecycle!LifecycleNext
  <1>8. ASSUME NEW p \in Payments, PaymentClose(p) PROVE Step
    BY <1>8, PaymentCloseStep DEF Lifecycle!LifecycleNext
  <1>9. CASE UNCHANGED vars
    BY <1>9 DEF vars, AcctStates, PayStates, SettledNow, InDebt, Fresh
  <1>. HIDE DEF Step
  <1>. QED
    BY <1>1, <1>2, <1>3, <1>4, <1>5, <1>6, <1>7, <1>8, <1>9 DEF Next, Step

\* Every operation, whatever the amounts, the prices and the grants, is an
\* operation of EscrowLifecycle on the states, or leaves them alone: all that is
\* proved of the lifecycle holds of the keeper.
THEOREM EscrowFollowsLifecycle == Spec => ImplementsLifecycle
  <1>1. Init => Fresh /\ Lifecycle!LifecycleInit
    <2>1. ASSUME Init PROVE Fresh
      BY <2>1, EscrowAssumption DEF Init, Fresh, NoAccount, Denoms
    <2>2. ASSUME Init PROVE Lifecycle!LifecycleInit
      BY <2>2 DEF Init, Lifecycle!LifecycleInit, NoAccount, NoPayment, Denoms
    <2>. QED
      BY <2>1, <2>2
  <1>2. IInv /\ Fresh /\ [Next]_vars => [Lifecycle!LifecycleNext]_Lifecycle!escrowVars /\ Fresh'
    BY LifecycleStep DEF AcctStates, PayStates, SettledNow, InDebt, Lifecycle!escrowVars
  <1>. QED
    BY <1>1, <1>2, EscrowInvariant, PTL DEF Spec, ImplementsLifecycle, Lifecycle!LifecycleSpec

=============================================================================
