---------------------------- MODULE Custody_proofs ----------------------------
(***************************************************************************)
(* The contract implements Custody, for any number of accounts, products   *)
(* and transfers in flight, as long as no maintainer unlocks jars by hand. *)
(*                                                                         *)
(* What Custody says of principal is, in the contract, the worth of the    *)
(* jars less what was paid out and is yet to be booked. A step that works  *)
(* on the receipt in slot s moves the books by what that receipt stands    *)
(* for before and after it (BooksMove), so each action is a matter of one  *)
(* receipt and one account.                                                *)
(***************************************************************************)
EXTENDS SweatJarCustody, Locks_proofs, Worth_proofs

\* Only so many transfers were sent, so that they can be summed up.
CustodyInv == LockInv /\ IsFiniteSet(DOMAIN receipts)

\* What the receipt in slot s stands for: principal of a on its way in,
\* principal of a that was paid out, the fee kept of it, and fees on their way
\* to the collector.
InTransit(s, a) == IF s \in StakesOf(a) THEN Amount(receipts[s]) ELSE 0

PaidOut(s, a) ==
    IF s \in Unbooked /\ receipts[s].account = a THEN Gross(receipts[s]) ELSE 0

FeeIn(s) == IF s \in Unbooked THEN FeeOf(receipts[s]) ELSE 0

FeeOut(s) == IF s \in FeesUnpaid THEN Amount(receipts[s]) ELSE 0

\* The part of the books that a step on the receipt in slot s may change.
Booked(s, a) == AccountPrincipal(a) - PaidOut(s, a)

BookedFees(s) == fee_amount + FeeIn(s) + FeeOut(s)

\* The receipts in the other slots are left alone.
OffSlot(s) ==
    /\ DOMAIN receipts' \ {s} = DOMAIN receipts \ {s}
    /\ \A x \in DOMAIN receipts \ {s} : receipts'[x] = receipts[x]

-----------------------------------------------------------------------------
(* The books are made of natural numbers.                                   *)

\* The fee of each kind of receipt.
LEMMA FeeOfKinds ==
    ASSUME NEW r
    PROVE  /\ r.kind = "withdraw" => FeeOf(r) = Total([p \in DOMAIN r.jars |-> r.jars[p].fee])
           /\ r.kind = "restake" => FeeOf(r) = r.fee
           /\ r.kind \notin {"withdraw", "restake"} => FeeOf(r) = 0
BY DEF FeeOf

\* What a receipt stands for is a natural number.
LEMMA ReceiptNat ==
    ASSUME NEW t, NEW r, ReceiptBy(r, t)
    PROVE  Amount(r) \in Nat /\ FeeOf(r) \in Nat /\ Gross(r) \in Nat
<1>1. r.amount \in Nat
  BY DEF ReceiptBy, IsStake, IsWithdrawal, IsClaim, IsRestake, IsFee
<1>2. FeeOf(r) \in Nat
  <2>1. CASE IsWithdrawal(r)
    <3> DEFINE f == [p \in DOMAIN r.jars |-> r.jars[p].fee]
    <3>1. DOMAIN f \subseteq ProductIds /\ \A p \in DOMAIN f : f[p] \in Nat
      BY <2>1 DEF IsWithdrawal, HasFootprint, IsMap
    <3> HIDE DEF f
    <3>2. Total(f) \in Nat
      BY <3>1, TotalNat
    <3>3. r.kind = "withdraw"
      BY <2>1 DEF IsWithdrawal
    <3> QED BY <3>2, <3>3, FeeOfKinds DEF f
  <2>2. CASE IsRestake(r)
    <3>1. r.kind = "restake" /\ r.fee \in Nat
      BY <2>2 DEF IsRestake
    <3> QED BY <3>1, FeeOfKinds
  <2>3. CASE IsStake(r) \/ IsClaim(r) \/ IsFee(r)
    <3>1. r.kind \notin {"withdraw", "restake"}
      BY <2>3 DEF IsStake, IsClaim, IsFee
    <3>2. FeeOf(r) = 0
      BY <3>1, FeeOfKinds
    <3> QED BY <3>2
  <2> QED BY <2>1, <2>2, <2>3 DEF ReceiptBy
<1> QED BY <1>1, <1>2 DEF Amount, Gross

\* Each sum over receipts is a natural number.
LEMMA BooksNat ==
    ASSUME CustodyInv
    PROVE  /\ \A a \in AccountIds : InboundBar[a] \in Nat /\ AccountPrincipal(a) \in Nat
           /\ \A a \in AccountIds :
                SumOver({s \in Unbooked : receipts[s].account = a}, Gross) \in Nat
           /\ SumOver(Unbooked, FeeOf) \in Nat /\ SumOver(FeesUnpaid, Amount) \in Nat
           /\ FeesBar \in Nat /\ \A a \in AccountIds : PrincipalBar[a] \in Int
<1>1. TypeInv /\ IsFiniteSet(DOMAIN receipts)
  BY DEF CustodyInv, LockInv
<1>2. ASSUME NEW T \in SUBSET DOMAIN receipts
      PROVE  SumOver(T, Amount) \in Nat /\ SumOver(T, FeeOf) \in Nat /\ SumOver(T, Gross) \in Nat
  <2>1. IsFiniteSet(T)
    BY <1>1, FS_Subset
  <2> DEFINE f == [s \in T |-> Amount(receipts[s])]
             g == [s \in T |-> FeeOf(receipts[s])]
             h == [s \in T |-> Gross(receipts[s])]
  <2>2. \A s \in T : f[s] \in Nat /\ g[s] \in Nat /\ h[s] \in Nat
    BY <1>1, ReceiptNat DEF TypeInv, ReceiptsBy
  <2>3. DOMAIN f = T /\ DOMAIN g = T /\ DOMAIN h = T
    OBVIOUS
  <2>4. SumOver(T, Amount) = Total(f) /\ SumOver(T, FeeOf) = Total(g)
        /\ SumOver(T, Gross) = Total(h)
    BY DEF SumOver
  <2> HIDE DEF f, g, h
  <2> QED BY <2>1, <2>2, <2>3, <2>4, SumNat DEF Total
<1>3. ASSUME NEW a \in AccountIds PROVE AccountPrincipal(a) \in Nat
  <2>1. CASE a \in DOMAIN accounts
    <3>1. AccountBy(accounts[a], now) /\ now \in Nat
      BY <1>1, <2>1 DEF TypeInv, AccountsBy
    <3> QED BY <2>1, <3>1, WorthNat DEF AccountPrincipal, Worth, JarsOf
  <2>2. CASE a \notin DOMAIN accounts
    BY <2>2 DEF AccountPrincipal
  <2> QED BY <2>1, <2>2
<1>4. fee_amount \in Nat
  BY <1>1 DEF TypeInv
<1>5. ASSUME NEW a \in AccountIds PROVE InboundBar[a] \in Nat
  <2>1. StakesOf(a) \in SUBSET DOMAIN receipts
    BY DEF StakesOf
  <2> QED BY <1>2, <2>1 DEF InboundBar
<1>6. ASSUME NEW a \in AccountIds
      PROVE  SumOver({s \in Unbooked : receipts[s].account = a}, Gross) \in Nat
  BY <1>2 DEF Unbooked
<1>7. SumOver(Unbooked, FeeOf) \in Nat
  BY <1>2 DEF Unbooked
<1>8. SumOver(FeesUnpaid, Amount) \in Nat
  BY <1>2 DEF FeesUnpaid
<1>9. FeesBar \in Nat
  BY <1>4, <1>7, <1>8 DEF FeesBar
<1>10. ASSUME NEW a \in AccountIds PROVE PrincipalBar[a] \in Int
  BY <1>3, <1>6 DEF PrincipalBar
<1> QED BY <1>3, <1>5, <1>6, <1>7, <1>8, <1>9, <1>10

-----------------------------------------------------------------------------
(* One receipt moves the books.                                             *)

\* What the receipts of a state stand for, when the one in slot s changes.
LEMMA StandsFor ==
    ASSUME TypeInv, TypeInv', NEW s, OffSlot(s)
    PROVE  /\ \A x \in DOMAIN receipts :
                /\ Amount(receipts[x]) \in Nat /\ FeeOf(receipts[x]) \in Nat
                /\ Gross(receipts[x]) \in Nat
           /\ \A x \in DOMAIN receipts' :
                /\ Amount(receipts'[x]) \in Nat /\ FeeOf(receipts'[x]) \in Nat
                /\ Gross(receipts'[x]) \in Nat
<1>1. \A x \in DOMAIN receipts : ReceiptBy(receipts[x], now)
  BY DEF TypeInv, ReceiptsBy
<1>2. \A x \in DOMAIN receipts' : ReceiptBy(receipts'[x], now')
  BY DEF TypeInv, ReceiptsBy
<1> QED BY <1>1, <1>2, ReceiptNat

\* Tokens on their way in.
LEMMA InboundMoves ==
    ASSUME CustodyInv, TypeInv', NEW s, OffSlot(s), NEW a \in AccountIds
    PROVE  /\ InboundBar[a] \in Int /\ InTransit(s, a) \in Nat /\ InTransit(s, a)' \in Nat
           /\ InboundBar'[a] = InboundBar[a] - InTransit(s, a) + InTransit(s, a)'
<1> DEFINE S == StakesOf(a)
           R == S'
           f == [x \in S |-> Amount(receipts[x])]
           g == [x \in R |-> Amount(receipts'[x])]
<1>1. TypeInv /\ IsFiniteSet(DOMAIN receipts)
  BY DEF CustodyInv, LockInv
<1>2. S \subseteq DOMAIN receipts /\ R \subseteq DOMAIN receipts' /\ S \ {s} = R \ {s}
  BY DEF StakesOf, OffSlot
<1>3. IsFiniteSet(S)
  BY <1>1, <1>2, FS_Subset
<1>4. \A x \in S : f[x] \in Nat
  BY <1>1, <1>2, StandsFor
<1>5. \A x \in R : g[x] \in Nat
  BY <1>1, <1>2, StandsFor
<1>6. \A x \in S \ {s} : f[x] = g[x]
  BY <1>2 DEF OffSlot
<1>7. InboundBar[a] = SumFunctionOnSet(f, S)
  BY DEF InboundBar, SumOver, Total
<1>8. InboundBar'[a] = SumFunctionOnSet(g, R)
  BY DEF InboundBar, SumOver, Total
<1>9. InTransit(s, a) = (IF s \in S THEN f[s] ELSE 0) /\ InTransit(s, a) \in Nat
  BY <1>4 DEF InTransit
<1>10. InTransit(s, a)' = (IF s \in R THEN g[s] ELSE 0) /\ InTransit(s, a)' \in Nat
  BY <1>5 DEF InTransit
<1> HIDE DEF S, R, f, g
<1>11. /\ SumFunctionOnSet(f, S) \in Int
       /\ SumFunctionOnSet(g, R) = SumFunctionOnSet(f, S)
            - (IF s \in S THEN f[s] ELSE 0) + (IF s \in R THEN g[s] ELSE 0)
  BY <1>2, <1>3, <1>4, <1>5, <1>6, SumChange
<1> QED BY <1>7, <1>8, <1>9, <1>10, <1>11

\* Principal that was paid out and is yet to be booked.
LEMMA PaidOutMoves ==
    ASSUME CustodyInv, TypeInv', NEW s, OffSlot(s), NEW a
    PROVE  /\ SumOver({x \in Unbooked : receipts[x].account = a}, Gross) \in Int /\ PaidOut(s, a) \in Nat /\ PaidOut(s, a)' \in Nat
           /\ SumOver({x \in Unbooked : receipts[x].account = a}, Gross)'
                = SumOver({x \in Unbooked : receipts[x].account = a}, Gross) - PaidOut(s, a) + PaidOut(s, a)'
<1> DEFINE S == {x \in Unbooked : receipts[x].account = a}
           R == S'
           f == [x \in S |-> Gross(receipts[x])]
           g == [x \in R |-> Gross(receipts'[x])]
<1>1. TypeInv /\ IsFiniteSet(DOMAIN receipts)
  BY DEF CustodyInv, LockInv
<1>2. S \subseteq DOMAIN receipts /\ R \subseteq DOMAIN receipts' /\ S \ {s} = R \ {s}
  BY DEF Unbooked, FeesUnpaid, OffSlot
<1>3. IsFiniteSet(S)
  BY <1>1, <1>2, FS_Subset
<1>4. \A x \in S : f[x] \in Nat
  BY <1>1, <1>2, StandsFor
<1>5. \A x \in R : g[x] \in Nat
  BY <1>1, <1>2, StandsFor
<1>6. \A x \in S \ {s} : f[x] = g[x]
  BY <1>2 DEF OffSlot
<1>7. SumOver({x \in Unbooked : receipts[x].account = a}, Gross) = SumFunctionOnSet(f, S)
  BY DEF SumOver, Total
<1>8. SumOver({x \in Unbooked : receipts[x].account = a}, Gross)' = SumFunctionOnSet(g, R)
  BY DEF SumOver, Total
<1>9. PaidOut(s, a) = (IF s \in S THEN f[s] ELSE 0) /\ PaidOut(s, a) \in Nat
  BY <1>4 DEF PaidOut, FeeIn, FeeOut
<1>10. PaidOut(s, a)' = (IF s \in R THEN g[s] ELSE 0) /\ PaidOut(s, a)' \in Nat
  BY <1>5 DEF PaidOut, FeeIn, FeeOut
<1> HIDE DEF S, R, f, g
<1>11. /\ SumFunctionOnSet(f, S) \in Int
       /\ SumFunctionOnSet(g, R) = SumFunctionOnSet(f, S)
            - (IF s \in S THEN f[s] ELSE 0) + (IF s \in R THEN g[s] ELSE 0)
  BY <1>2, <1>3, <1>4, <1>5, <1>6, SumChange
<1> QED BY <1>7, <1>8, <1>9, <1>10, <1>11

\* The fees in it.
LEMMA FeeInMoves ==
    ASSUME CustodyInv, TypeInv', NEW s, OffSlot(s)
    PROVE  /\ SumOver(Unbooked, FeeOf) \in Int /\ FeeIn(s) \in Nat /\ FeeIn(s)' \in Nat
           /\ SumOver(Unbooked, FeeOf)'
                = SumOver(Unbooked, FeeOf) - FeeIn(s) + FeeIn(s)'
<1> DEFINE S == Unbooked
           R == S'
           f == [x \in S |-> FeeOf(receipts[x])]
           g == [x \in R |-> FeeOf(receipts'[x])]
<1>1. TypeInv /\ IsFiniteSet(DOMAIN receipts)
  BY DEF CustodyInv, LockInv
<1>2. S \subseteq DOMAIN receipts /\ R \subseteq DOMAIN receipts' /\ S \ {s} = R \ {s}
  BY DEF Unbooked, FeesUnpaid, OffSlot
<1>3. IsFiniteSet(S)
  BY <1>1, <1>2, FS_Subset
<1>4. \A x \in S : f[x] \in Nat
  BY <1>1, <1>2, StandsFor
<1>5. \A x \in R : g[x] \in Nat
  BY <1>1, <1>2, StandsFor
<1>6. \A x \in S \ {s} : f[x] = g[x]
  BY <1>2 DEF OffSlot
<1>7. SumOver(Unbooked, FeeOf) = SumFunctionOnSet(f, S)
  BY DEF SumOver, Total
<1>8. SumOver(Unbooked, FeeOf)' = SumFunctionOnSet(g, R)
  BY DEF SumOver, Total
<1>9. FeeIn(s) = (IF s \in S THEN f[s] ELSE 0) /\ FeeIn(s) \in Nat
  BY <1>4 DEF PaidOut, FeeIn, FeeOut
<1>10. FeeIn(s)' = (IF s \in R THEN g[s] ELSE 0) /\ FeeIn(s)' \in Nat
  BY <1>5 DEF PaidOut, FeeIn, FeeOut
<1> HIDE DEF S, R, f, g
<1>11. /\ SumFunctionOnSet(f, S) \in Int
       /\ SumFunctionOnSet(g, R) = SumFunctionOnSet(f, S)
            - (IF s \in S THEN f[s] ELSE 0) + (IF s \in R THEN g[s] ELSE 0)
  BY <1>2, <1>3, <1>4, <1>5, <1>6, SumChange
<1> QED BY <1>7, <1>8, <1>9, <1>10, <1>11

\* Fees on their way to the collector.
LEMMA FeeOutMoves ==
    ASSUME CustodyInv, TypeInv', NEW s, OffSlot(s)
    PROVE  /\ SumOver(FeesUnpaid, Amount) \in Int /\ FeeOut(s) \in Nat /\ FeeOut(s)' \in Nat
           /\ SumOver(FeesUnpaid, Amount)'
                = SumOver(FeesUnpaid, Amount) - FeeOut(s) + FeeOut(s)'
<1> DEFINE S == FeesUnpaid
           R == S'
           f == [x \in S |-> Amount(receipts[x])]
           g == [x \in R |-> Amount(receipts'[x])]
<1>1. TypeInv /\ IsFiniteSet(DOMAIN receipts)
  BY DEF CustodyInv, LockInv
<1>2. S \subseteq DOMAIN receipts /\ R \subseteq DOMAIN receipts' /\ S \ {s} = R \ {s}
  BY DEF Unbooked, FeesUnpaid, OffSlot
<1>3. IsFiniteSet(S)
  BY <1>1, <1>2, FS_Subset
<1>4. \A x \in S : f[x] \in Nat
  BY <1>1, <1>2, StandsFor
<1>5. \A x \in R : g[x] \in Nat
  BY <1>1, <1>2, StandsFor
<1>6. \A x \in S \ {s} : f[x] = g[x]
  BY <1>2 DEF OffSlot
<1>7. SumOver(FeesUnpaid, Amount) = SumFunctionOnSet(f, S)
  BY DEF SumOver, Total
<1>8. SumOver(FeesUnpaid, Amount)' = SumFunctionOnSet(g, R)
  BY DEF SumOver, Total
<1>9. FeeOut(s) = (IF s \in S THEN f[s] ELSE 0) /\ FeeOut(s) \in Nat
  BY <1>4 DEF PaidOut, FeeIn, FeeOut
<1>10. FeeOut(s)' = (IF s \in R THEN g[s] ELSE 0) /\ FeeOut(s)' \in Nat
  BY <1>5 DEF PaidOut, FeeIn, FeeOut
<1> HIDE DEF S, R, f, g
<1>11. /\ SumFunctionOnSet(f, S) \in Int
       /\ SumFunctionOnSet(g, R) = SumFunctionOnSet(f, S)
            - (IF s \in S THEN f[s] ELSE 0) + (IF s \in R THEN g[s] ELSE 0)
  BY <1>2, <1>3, <1>4, <1>5, <1>6, SumChange
<1> QED BY <1>7, <1>8, <1>9, <1>10, <1>11

\* Principal in the jars, before and after a step.
LEMMA AccountPrincipalNat ==
    ASSUME TypeInv, TypeInv', NEW a
    PROVE  AccountPrincipal(a) \in Nat /\ AccountPrincipal(a)' \in Nat
<1>1. now \in Nat /\ \A b \in DOMAIN accounts : AccountBy(accounts[b], now)
  BY DEF TypeInv, AccountsBy
<1>2. now' \in Nat /\ \A b \in DOMAIN accounts' : AccountBy(accounts'[b], now')
  BY DEF TypeInv, AccountsBy
<1>3. AccountPrincipal(a) = IF a \in DOMAIN accounts THEN Worth(accounts[a]) ELSE 0
  BY DEF AccountPrincipal, Worth, JarsOf
<1>4. AccountPrincipal(a)' = IF a \in DOMAIN accounts' THEN Worth(accounts'[a]) ELSE 0
  BY DEF AccountPrincipal, Worth, JarsOf
<1>5. a \in DOMAIN accounts => Worth(accounts[a]) \in Nat
  BY <1>1, WorthNat
<1>6. a \in DOMAIN accounts' => Worth(accounts'[a]) \in Nat
  BY <1>2, WorthNat
<1>7. AccountPrincipal(a) \in Nat
  BY <1>3, <1>5
<1>8. AccountPrincipal(a)' \in Nat
  BY <1>4, <1>6
<1> QED BY <1>7, <1>8

\* A step that leaves the other receipts alone moves the books by what the
\* receipt and the accounts stand for before and after it.
LEMMA BooksMove ==
    ASSUME CustodyInv, TypeInv', NEW s, OffSlot(s)
    PROVE  /\ InboundBar' = [b \in AccountIds |->
                InboundBar[b] - InTransit(s, b) + InTransit(s, b)']
           /\ PrincipalBar' = [b \in AccountIds |->
                PrincipalBar[b] - Booked(s, b) + Booked(s, b)']
           /\ FeesBar' = FeesBar - BookedFees(s) + BookedFees(s)'
<1>1. TypeInv
  BY DEF CustodyInv, LockInv
<1>2. ASSUME NEW b \in AccountIds
      PROVE  InboundBar'[b] = InboundBar[b] - InTransit(s, b) + InTransit(s, b)'
  BY InboundMoves
<1>3. ASSUME NEW b \in AccountIds
      PROVE  PrincipalBar'[b] = PrincipalBar[b] - Booked(s, b) + Booked(s, b)'
  <2> DEFINE owed == SumOver({x \in Unbooked : receipts[x].account = b}, Gross)
             p == AccountPrincipal(b)
             q == AccountPrincipal(b)'
             n == PaidOut(s, b)
             k == PaidOut(s, b)'
             owed2 == owed'
  <2>1. p \in Nat /\ q \in Nat
    BY <1>1, AccountPrincipalNat
  <2>2. owed \in Int /\ n \in Nat /\ k \in Nat /\ owed2 = owed - n + k
    BY PaidOutMoves
  <2>3. PrincipalBar[b] = p - owed
    BY DEF PrincipalBar
  <2>4. PrincipalBar'[b] = q - owed2
    BY DEF PrincipalBar
  <2>5. Booked(s, b) = p - n
    BY DEF Booked
  <2>6. Booked(s, b)' = q - k
    BY DEF Booked
  <2> HIDE DEF owed, p, q, n, k, owed2
  <2>7. q - owed2 = p - owed - (p - n) + (q - k)
    BY <2>1, <2>2
  <2> QED BY <2>3, <2>4, <2>5, <2>6, <2>7
<1>4. FeesBar' = FeesBar - BookedFees(s) + BookedFees(s)'
  <2> DEFINE in == SumOver(Unbooked, FeeOf)
             out == SumOver(FeesUnpaid, Amount)
             in2 == in'
             out2 == out'
             n == FeeIn(s)
             m == FeeIn(s)'
             j == FeeOut(s)
             k == FeeOut(s)'
             x == fee_amount
             y == fee_amount'
  <2>1. x \in Nat /\ y \in Nat
    BY <1>1 DEF TypeInv
  <2>2. in \in Int /\ n \in Nat /\ m \in Nat /\ in2 = in - n + m
    BY FeeInMoves
  <2>3. out \in Int /\ j \in Nat /\ k \in Nat /\ out2 = out - j + k
    BY FeeOutMoves
  <2>4. FeesBar = x + in + out
    BY DEF FeesBar
  <2>5. FeesBar' = y + in2 + out2
    BY DEF FeesBar
  <2>6. BookedFees(s) = x + n + j
    BY DEF BookedFees
  <2>7. BookedFees(s)' = y + m + k
    BY DEF BookedFees
  <2> HIDE DEF in, out, in2, out2, n, m, j, k, x, y
  <2> DEFINE old == BookedFees(s)
             new == BookedFees(s)'
             bar == FeesBar
             bar2 == FeesBar'
  <2>8. bar = x + in + out /\ bar2 = y + in2 + out2 /\ old = x + n + j /\ new = y + m + k
    BY <2>4, <2>5, <2>6, <2>7
  <2> HIDE DEF old, new, bar, bar2
  <2>9. bar2 = bar - old + new
    BY <2>1, <2>2, <2>3, <2>8
  <2> QED BY <2>9 DEF old, new, bar, bar2
<1>5. InboundBar' = [b \in AccountIds |-> InboundBar'[b]]
  BY DEF InboundBar
<1>6. PrincipalBar' = [b \in AccountIds |-> PrincipalBar'[b]]
  BY DEF PrincipalBar
<1> QED BY <1>2, <1>3, <1>4, <1>5, <1>6

\* The terms of it are numbers.
LEMMA MovesInt ==
    ASSUME CustodyInv, TypeInv', NEW s, OffSlot(s)
    PROVE  /\ \A b \in AccountIds :
                /\ InboundBar[b] \in Nat /\ InTransit(s, b) \in Nat /\ InTransit(s, b)' \in Nat
                /\ PrincipalBar[b] \in Int /\ Booked(s, b) \in Int /\ Booked(s, b)' \in Int
           /\ FeesBar \in Nat /\ BookedFees(s) \in Nat /\ BookedFees(s)' \in Nat
<1>1. TypeInv
  BY DEF CustodyInv, LockInv
<1>2. fee_amount \in Nat /\ fee_amount' \in Nat
  BY <1>1 DEF TypeInv
<1>3. FeeIn(s) \in Nat /\ FeeIn(s)' \in Nat /\ FeeOut(s) \in Nat /\ FeeOut(s)' \in Nat
  BY FeeInMoves, FeeOutMoves
<1>4. BookedFees(s) \in Nat
  BY <1>2, <1>3 DEF BookedFees
<1>5. BookedFees(s)' \in Nat
  BY <1>2, <1>3 DEF BookedFees
<1>6. FeesBar \in Nat
  BY BooksNat
<1>7. ASSUME NEW b \in AccountIds
      PROVE  /\ InboundBar[b] \in Nat /\ InTransit(s, b) \in Nat /\ InTransit(s, b)' \in Nat
             /\ PrincipalBar[b] \in Int /\ Booked(s, b) \in Int /\ Booked(s, b)' \in Int
  <2>1. InboundBar[b] \in Nat /\ PrincipalBar[b] \in Int
    BY BooksNat
  <2>2. InTransit(s, b) \in Nat /\ InTransit(s, b)' \in Nat
    BY InboundMoves
  <2>3. AccountPrincipal(b) \in Nat /\ AccountPrincipal(b)' \in Nat
    BY <1>1, AccountPrincipalNat
  <2>4. PaidOut(s, b) \in Nat /\ PaidOut(s, b)' \in Nat
    BY PaidOutMoves
  <2>5. Booked(s, b) \in Int
    BY <2>3, <2>4 DEF Booked
  <2>6. Booked(s, b)' \in Int
    BY <2>3, <2>4 DEF Booked
  <2> QED BY <2>1, <2>2, <2>5, <2>6
<1> QED BY <1>4, <1>5, <1>6, <1>7

\* The custodian's view of the state.
Books == <<WalletsBar, InboundBar, PrincipalBar, FeesBar, tokens[Vault]>>

\* What the receipt and the accounts stand for as before stands in the books.
LEMMA PartsStand ==
    ASSUME CustodyInv, TypeInv', NEW s, OffSlot(s)
    PROVE  /\ (\A b \in AccountIds : InTransit(s, b)' = InTransit(s, b)) => UNCHANGED InboundBar
           /\ (\A b \in AccountIds : Booked(s, b)' = Booked(s, b)) => UNCHANGED PrincipalBar
           /\ BookedFees(s)' = BookedFees(s) => UNCHANGED FeesBar
<1>1. ASSUME \A b \in AccountIds : InTransit(s, b)' = InTransit(s, b)
      PROVE  UNCHANGED InboundBar
  <2>1. \A b \in AccountIds : InboundBar[b] - InTransit(s, b) + InTransit(s, b)' = InboundBar[b]
    BY <1>1, MovesInt
  <2>2. InboundBar' = [b \in AccountIds |-> InboundBar[b]]
    BY <2>1, BooksMove
  <2> QED BY <2>2 DEF InboundBar
<1>2. ASSUME \A b \in AccountIds : Booked(s, b)' = Booked(s, b)
      PROVE  UNCHANGED PrincipalBar
  <2>1. \A b \in AccountIds : PrincipalBar[b] - Booked(s, b) + Booked(s, b)' = PrincipalBar[b]
    BY <1>2, MovesInt
  <2>2. PrincipalBar' = [b \in AccountIds |-> PrincipalBar[b]]
    BY <2>1, BooksMove
  <2> QED BY <2>2 DEF PrincipalBar
<1>3. ASSUME BookedFees(s)' = BookedFees(s)
      PROVE  UNCHANGED FeesBar
  BY <1>3, BooksMove, MovesInt
<1> QED BY <1>1, <1>2, <1>3

\* A step whose receipt stands for the same as before does not show.
LEMMA BooksStand ==
    ASSUME CustodyInv, TypeInv', NEW s, OffSlot(s), UNCHANGED tokens,
           \A b \in AccountIds : InTransit(s, b)' = InTransit(s, b),
           \A b \in AccountIds : Booked(s, b)' = Booked(s, b),
           BookedFees(s)' = BookedFees(s)
    PROVE  UNCHANGED Books
<1>1. UNCHANGED <<InboundBar, PrincipalBar, FeesBar>>
  BY PartsStand
<1>2. UNCHANGED <<WalletsBar, tokens[Vault]>>
  BY DEF WalletsBar
<1> QED BY <1>1, <1>2 DEF Books

-----------------------------------------------------------------------------
(* Every step works on one receipt at most.                                 *)

\* Sending, answering and consuming a receipt leave the others alone.
LEMMA OneReceipt ==
    ASSUME NEW s
    PROVE  /\ \A r : Send(s, r) => OffSlot(s)
           /\ Consume(s) => OffSlot(s)
           /\ \A status : receipts' = [receipts EXCEPT ![s].status = status] => OffSlot(s)
           /\ UNCHANGED receipts => OffSlot(s)
<1>1. ASSUME NEW r, Send(s, r) PROVE OffSlot(s)
  BY <1>1 DEF Send, Put, OffSlot
<1>2. ASSUME Consume(s) PROVE OffSlot(s)
  BY <1>2 DEF Consume, Drop, Restrict, OffSlot
<1>3. ASSUME NEW status, receipts' = [receipts EXCEPT ![s].status = status] PROVE OffSlot(s)
  BY <1>3 DEF OffSlot
<1>4. ASSUME UNCHANGED receipts PROVE OffSlot(s)
  BY <1>4 DEF OffSlot
<1> QED BY <1>1, <1>2, <1>3, <1>4

\* The receipt a step works on.
LEMMA OneSlot ==
    ASSUME TypeInv, [Next]_vars
    PROVE  \E s : OffSlot(s)
<1>1. CASE UNCHANGED receipts
  BY <1>1, OneReceipt
<1>2. ASSUME NEW s \in Slots, TokenReceipt(s) \/ ContractReceipt(s) PROVE OffSlot(s)
  <2>1. \/ Consume(s)
        \/ \E status : receipts' = [receipts EXCEPT ![s].status = status]
    BY <1>2 DEF TokenReceipt, ContractReceipt, PayoutReceipt, FtTransferSucceeds,
       FtTransferFails, RefundStake, OnStake, OnStakePanics, AfterTransferRemainder,
       AfterWithdraw, AfterFailedWithdraw, AfterClaim, AfterFailedClaim,
       AfterFailedTransferRemainder, AfterFeeWithdrawn, AfterFailedFeeWithdrawal,
       CallbackPanics
  <2> QED BY <2>1, OneReceipt
<1>3. ASSUME NEW s \in Slots, NEW a \in AccountIds, UserCall(s, a)
      PROVE  (\E r : Send(s, r)) \/ UNCHANGED receipts
  <2>1. CASE \E b \in AccountIds, p \in ProductIds, x \in Amounts, tz \in Offered :
                Stake(s, a, b, p, x, tz)
    BY <2>1 DEF Stake
  <2>2. CASE \E p \in ProductIds : Withdraw(s, a, p)
    BY <2>2 DEF Withdraw, SendWithdrawal
  <2>3. CASE \E ps \in SUBSET ProductIds : WithdrawAll(s, a, ps)
    BY <2>3 DEF WithdrawAll, SendWithdrawal
  <2>4. CASE ClaimTotal(s, a)
    BY <2>4 DEF ClaimTotal
  <2>5. CASE \E q \in ProductIds, x \in Amounts, tz \in Offered :
                (\E p \in ProductIds : Restake(s, a, p, q, x, tz)) \/ RestakeAll(s, a, q, x, tz)
    <3> PICK q \in ProductIds, x \in Amounts, tz \in Offered :
                (\E p \in ProductIds : Restake(s, a, p, q, x, tz)) \/ RestakeAll(s, a, q, x, tz)
      BY <2>5
    <3> PICK ps, fee : RestakeFrom(s, a, ps, fee, q, x, tz)
      BY RestakesFrom
    <3> QED BY DEF RestakeFrom
  <2> QED BY <1>3, <2>1, <2>2, <2>3, <2>4, <2>5 DEF UserCall, PayoutCall
<1>4. ASSUME NEW s \in Slots, WithdrawFee(s) PROVE \E r : Send(s, r)
  BY <1>4 DEF WithdrawFee
<1>5. ASSUME NEW a \in AccountIds, OperatorCall(a) PROVE UNCHANGED receipts
  BY <1>5 DEF OperatorCall, SetFeatureEnabled, SetPenalty, SetTimezone, RecordScore,
     ApplyBooster, UnlockJarsForAccount
<1>6. ASSUME NEW p, NEW e, SetEnabled(p, e) PROVE UNCHANGED receipts
  BY <1>6 DEF SetEnabled
<1>7. CASE Tick
  BY <1>1, <1>7 DEF Tick
<1>8. CASE UNCHANGED vars
  BY <1>1, <1>8 DEF vars
<1>9. FreeSlots \subseteq Slots
  BY DEF FreeSlots
<1> QED BY <1>1, <1>2, <1>3, <1>4, <1>5, <1>6, <1>7, <1>8, <1>9, OneReceipt DEF Next

\* The strengthened invariant holds initially.
LEMMA CustodyInvInit == Init => CustodyInv
<1> SUFFICES ASSUME Init PROVE CustodyInv
  OBVIOUS
<1>1. DOMAIN receipts = {}
  BY DEF Init, EmptyMap
<1> QED BY <1>1, LockInvInit, FS_EmptySet DEF CustodyInv

\* Every step keeps it, if no maintainer unlocks jars by hand.
LEMMA CustodyInvNext ==
    ASSUME ~MaintainerUnlocks, CustodyInv, [Next]_vars
    PROVE  CustodyInv'
<1>1. LockInv'
  BY LockInvNext DEF CustodyInv
<1>2. IsFiniteSet(DOMAIN receipts')
  <2> PICK s : OffSlot(s)
    BY OneSlot DEF CustodyInv, LockInv
  <2>1. IsFiniteSet(DOMAIN receipts \cup {s})
    BY FS_AddElement DEF CustodyInv
  <2>2. DOMAIN receipts' \subseteq DOMAIN receipts \cup {s}
    BY DEF OffSlot
  <2> QED BY <2>1, <2>2, FS_Subset
<1> QED BY <1>1, <1>2 DEF CustodyInv

-----------------------------------------------------------------------------
(* What was paid out is still in the jars it was taken from.                *)

\* A withdrawal pays, with its fee, what it takes.
LEMMA WithdrawalGross ==
    ASSUME NEW r, IsWithdrawal(r), CanPay(r.jars), r.amount = TotalNetAmount(r.jars)
    PROVE  Gross(r) = Total([p \in DOMAIN r.jars |-> r.jars[p].amount])
<1> DEFINE P == DOMAIN r.jars
           net == [p \in P |-> r.jars[p].amount - r.jars[p].fee]
           fee == [p \in P |-> r.jars[p].fee]
           all == [p \in P |-> r.jars[p].amount]
<1>1. P \subseteq ProductIds
  BY DEF IsWithdrawal, HasFootprint, IsMap
<1>2. IsFiniteSet(P)
  BY <1>1, AccountAssumption, FS_Subset
<1>3. \A p \in P : r.jars[p].amount \in Nat /\ r.jars[p].fee \in Nat
  BY DEF IsWithdrawal, HasFootprint
<1>4. \A p \in P : net[p] \in Int /\ fee[p] \in Int /\ all[p] = net[p] + fee[p]
  BY <1>3
<1>5. r.amount = SumFunctionOnSet(net, P)
  BY DEF TotalNetAmount, Total
<1>6. FeeOf(r) = SumFunctionOnSet(fee, P)
  <2>1. r.kind = "withdraw"
    BY DEF IsWithdrawal
  <2>2. FeeOf(r) = Total(fee)
    BY <2>1, FeeOfKinds
  <2> QED BY <2>2 DEF Total
<1>7. Total(all) = SumFunctionOnSet(all, P)
  BY DEF Total
<1> HIDE DEF net, fee, all, P
<1>8. SumFunctionOnSet(all, P) = SumFunctionOnSet(net, P) + SumFunctionOnSet(fee, P)
  BY <1>2, <1>4, SumPlus
<1>9. Gross(r) = SumFunctionOnSet(net, P) + SumFunctionOnSet(fee, P)
  BY <1>5, <1>6 DEF Gross
<1>10. Gross(r) = Total(all)
  BY <1>7, <1>8, <1>9
<1> QED BY <1>10 DEF all, P

\* The jars a payout is about are there and hold what it takes from them.
LEMMA PayoutTakes ==
    ASSUME CustodyInv, NEW s \in DOMAIN receipts, IsPayout(receipts[s])
    PROVE  LET r == receipts[s]
               partition == PartitionOf(r)
           IN  /\ r.account \in AccountIds
               /\ DOMAIN partition = DOMAIN r.jars /\ DOMAIN r.jars \subseteq ProductIds
               /\ \A p \in DOMAIN partition : partition[p] \in Nat
               /\ DOMAIN r.jars # {} => r.account \in DOMAIN accounts
               /\ CanCleanUpJars(accounts[r.account], partition)
               /\ TakenFrom(accounts[r.account], partition)
                    = Gross(r) + (IF r.kind = "restake" THEN r.deposit ELSE 0)
<1> DEFINE r == receipts[s]
           a == r.account
           partition == PartitionOf(r)
<1>1. TypeInv /\ Owned /\ Fitting
  BY DEF CustodyInv, LockInv
<1>2. a \in AccountIds /\ r.kind \in {"withdraw", "restake"}
  BY <1>1, ReceiptKinds DEF IsPayout
<1>3. DOMAIN partition = DOMAIN r.jars /\ \A p \in DOMAIN r.jars :
        partition[p] = r.jars[p].partition_index
  BY DEF PartitionOf
<1>4. \A p \in DOMAIN partition : partition[p] \in Nat
  BY <1>1, <1>2, PartitionType
<1>5. ASSUME NEW p \in DOMAIN r.jars
      PROVE  a \in DOMAIN accounts /\ p \in DOMAIN accounts[a].jars /\ p \in ProductIds
  BY <1>1, PayoutCovers DEF IsLocked, JarsOf
<1>6. Fits(r, accounts[a], now)
  BY <1>1 DEF Fitting
<1>7. CanCleanUpJars(accounts[a], partition)
  BY <1>3, <1>5, <1>6 DEF CanCleanUpJars, CanCleanUp, Fits
<1>8. TakenFrom(accounts[a], partition) = Total([p \in DOMAIN r.jars |->
            Principal(accounts[a].jars[p].deposits, r.jars[p].partition_index)])
  <2>1. [p \in DOMAIN partition |-> Principal(accounts[a].jars[p].deposits, partition[p])]
            = [p \in DOMAIN r.jars |->
                Principal(accounts[a].jars[p].deposits, r.jars[p].partition_index)]
    BY <1>3
  <2> HIDE DEF partition
  <2> QED BY <2>1 DEF TakenFrom
<1>9. TakenFrom(accounts[a], partition)
        = Gross(r) + (IF r.kind = "restake" THEN r.deposit ELSE 0)
  <2>1. CASE r.kind = "withdraw"
    <3>1. IsWithdrawal(r)
      BY <1>1, <2>1, ReceiptKinds
    <3>2. CanPay(r.jars) /\ r.amount = TotalNetAmount(r.jars) /\ \A p \in DOMAIN r.jars :
            r.jars[p].amount
                = Principal(accounts[a].jars[p].deposits, r.jars[p].partition_index)
      BY <1>6, <2>1 DEF Fits
    <3>3. Gross(r) = Total([p \in DOMAIN r.jars |-> r.jars[p].amount])
      BY <3>1, <3>2, WithdrawalGross
    <3>4. [p \in DOMAIN r.jars |-> r.jars[p].amount] = [p \in DOMAIN r.jars |->
                Principal(accounts[a].jars[p].deposits, r.jars[p].partition_index)]
      BY <3>2
    <3>5. Gross(r) \in Nat
      BY <1>1, ReceiptNat DEF TypeInv, ReceiptsBy
    <3>6. TakenFrom(accounts[a], partition) = Gross(r)
      BY <1>8, <3>3, <3>4
    <3> DEFINE n == Gross(r)
    <3>7. n + 0 = n
      <4> HIDE DEF n
      <4>1. n \in Nat
        BY <3>5 DEF n
      <4> QED BY <4>1
    <3>8. (IF r.kind = "restake" THEN r.deposit ELSE 0) = 0
      BY <2>1
    <3> QED BY <3>6, <3>7, <3>8
  <2>2. CASE r.kind = "restake"
    <3>1. r.amount + r.fee + r.deposit = Total([p \in DOMAIN r.jars |->
                Principal(accounts[a].jars[p].deposits, r.jars[p].partition_index)])
      BY <1>6, <2>2 DEF Fits
    <3>2. Gross(r) = r.amount + r.fee
      <4>1. FeeOf(r) = r.fee
        BY <2>2, FeeOfKinds
      <4> QED BY <4>1 DEF Gross
    <3> QED BY <1>8, <2>2, <3>1, <3>2
  <2> QED BY <1>2, <2>1, <2>2
<1> QED BY <1>2, <1>3, <1>4, <1>5, <1>7, <1>9

\* So it is no more than what the jars hold.
LEMMA GrossInJars ==
    ASSUME CustodyInv, NEW s \in DOMAIN receipts, IsPayout(receipts[s]),
           receipts[s].account \in DOMAIN accounts
    PROVE  LET r == receipts[s]
               jars == accounts[r.account].jars
           IN  /\ DOMAIN r.jars \subseteq DOMAIN jars
               /\ Gross(r) <= SumFunctionOnSet(
                    [p \in DOMAIN jars |-> TotalPrincipal(jars[p])], DOMAIN r.jars)
<1> DEFINE r == receipts[s]
           account == accounts[r.account]
           n == Gross(r)
           d == IF r.kind = "restake" THEN r.deposit ELSE 0
           x == TakenFrom(account, PartitionOf(r))
           k == SumFunctionOnSet(
                [p \in DOMAIN account.jars |-> TotalPrincipal(account.jars[p])], DOMAIN r.jars)
<1>1. TypeInv /\ now \in Nat /\ AccountBy(account, now)
  BY DEF CustodyInv, LockInv, TypeInv, AccountsBy
<1>2. n \in Nat
  BY <1>1, ReceiptNat DEF TypeInv, ReceiptsBy
<1>3. d \in Nat
  BY <1>1, ReceiptKinds DEF IsRestake
<1>4. CanCleanUpJars(account, PartitionOf(r)) /\ x = n + d
      /\ DOMAIN PartitionOf(r) = DOMAIN r.jars
      /\ \A p \in DOMAIN PartitionOf(r) : PartitionOf(r)[p] \in Nat
  BY PayoutTakes
<1>5. x <= k /\ x \in Nat
  BY <1>1, <1>4, TakenPart, DrainWorth
<1>6. k \in Nat
  <2> DEFINE f == [p \in DOMAIN account.jars |-> TotalPrincipal(account.jars[p])]
  <2>1. DOMAIN r.jars \subseteq DOMAIN account.jars
    BY <1>4 DEF CanCleanUpJars
  <2>2. IsFiniteSet(DOMAIN r.jars) /\ \A p \in DOMAIN r.jars : f[p] \in Nat
    BY <1>1, <2>1, JarsFinite, FS_Subset
  <2> HIDE DEF f
  <2>3. SumFunctionOnSet(f, DOMAIN r.jars) \in Nat
    BY <2>2, SumNat
  <2> QED BY <2>3 DEF f
<1>7. DOMAIN r.jars \subseteq DOMAIN account.jars
  BY <1>4 DEF CanCleanUpJars
<1> HIDE DEF n, d, x, k
<1>8. n <= k
  BY <1>2, <1>3, <1>4, <1>5, <1>6
<1> QED BY <1>7, <1>8 DEF n, k

\* Principal in custody never gets below zero: what was paid out twice, or
\* from jars that do not hold it, would make it so.
LEMMA PrincipalCovered ==
    ASSUME CustodyInv, NEW a \in AccountIds
    PROVE  PrincipalBar[a] \in Nat
<1> DEFINE S == {s \in Unbooked : receipts[s].account = a}
           v == [s \in S |-> Gross(receipts[s])]
           owed == SumOver(S, Gross)
<1>1. TypeInv /\ Owned /\ IsFiniteSet(DOMAIN receipts)
  BY DEF CustodyInv, LockInv
<1>2. S \subseteq DOMAIN receipts /\ IsFiniteSet(S)
  <2>1. S \subseteq DOMAIN receipts
    BY DEF Unbooked
  <2> QED BY <1>1, <2>1, FS_Subset
<1>3. owed = SumFunctionOnSet(v, S)
  BY DEF SumOver, Total
<1>4. \A s \in S : IsPayout(receipts[s]) /\ receipts[s].account = a /\ s \in DOMAIN receipts
                   /\ s \in Slots
  BY <1>1, ReceiptKinds DEF IsPayout, Unbooked
<1>5. \A s \in S : v[s] = Gross(receipts[s]) /\ v[s] \in Nat
  BY <1>1, <1>2, ReceiptNat DEF TypeInv, ReceiptsBy
<1>6. PrincipalBar[a] = AccountPrincipal(a) - owed
  BY DEF PrincipalBar
<1>7. AccountPrincipal(a) \in Nat /\ owed \in Nat
  BY BooksNat
<1> HIDE DEF v, S
<1>8. owed <= AccountPrincipal(a)
  <2>1. CASE a \in DOMAIN accounts
    <3> DEFINE P == DOMAIN accounts[a].jars
               h == [p \in P |-> TotalPrincipal(accounts[a].jars[p])]
               J == [s \in S |-> DOMAIN receipts[s].jars]
    <3>1. now \in Nat /\ AccountBy(accounts[a], now)
      BY <1>1, <2>1 DEF TypeInv, AccountsBy
    <3>2. IsFiniteSet(P) /\ P \subseteq ProductIds /\ \A p \in P : h[p] \in Nat
      BY <3>1, JarsFinite
    <3>3. AccountPrincipal(a) = SumFunctionOnSet(h, P)
      BY <2>1 DEF AccountPrincipal, JarsOf, Total
    <3>4. ASSUME NEW s \in S
          PROVE  J[s] \subseteq P /\ v[s] <= SumFunctionOnSet(h, J[s])
      <4>1. /\ DOMAIN receipts[s].jars \subseteq DOMAIN accounts[a].jars
            /\ Gross(receipts[s]) <= SumFunctionOnSet(h, DOMAIN receipts[s].jars)
        BY <1>4, <2>1, GrossInJars
      <4> HIDE DEF h
      <4> QED BY <1>5, <4>1
    <3>5. ASSUME NEW s \in S, NEW t \in S, s # t
          PROVE  J[s] \cap J[t] = {}
      <4> SUFFICES ASSUME NEW p \in J[s] \cap J[t] PROVE FALSE
        OBVIOUS
      <4>1. p \in ProductIds
        BY <3>2, <3>4
      <4>2. Covers(s, a, p) /\ Covers(t, a, p)
        BY <1>4 DEF Covers
      <4> QED BY <1>1, <1>4, <3>5, <4>1, <4>2 DEF Owned
    <3> HIDE DEF P, h, J
    <3>6. SumFunctionOnSet(v, S) <= SumFunctionOnSet(h, P)
      BY <1>2, <1>5, <3>2, <3>4, <3>5, SumOfParts
    <3> QED BY <1>3, <3>3, <3>6
  <2>2. CASE a \notin DOMAIN accounts
    <3>1. ASSUME NEW s \in S PROVE v[s] = 0
      <4> DEFINE r == receipts[s]
                 account == accounts[a]
                 d == IF r.kind = "restake" THEN r.deposit ELSE 0
                 n == v[s]
                 x == TakenFrom(account, PartitionOf(r))
      <4>1. DOMAIN PartitionOf(r) = {} /\ x = Gross(r) + d
        BY <1>4, <2>2, PayoutTakes
      <4>2. x = 0
        BY <4>1, SumEmpty DEF TakenFrom, Total
      <4>3. d \in Nat
        BY <1>1, <1>4, ReceiptKinds DEF IsRestake
      <4>4. n \in Nat /\ 0 = n + d
        BY <1>5, <4>1, <4>2
      <4> HIDE DEF n, d
      <4>5. n = 0
        BY <4>3, <4>4
      <4> QED BY <4>5 DEF n
    <3>2. owed = 0
      BY <1>2, <1>3, <3>1, SumZero
    <3> HIDE DEF owed
    <3> QED BY <1>7, <3>2
  <2> QED BY <2>1, <2>2
<1> HIDE DEF owed
<1>9. AccountPrincipal(a) - owed \in Nat
  BY <1>7, <1>8
<1> QED BY <1>6, <1>9

-----------------------------------------------------------------------------
(* What one receipt and one account stand for.                              *)

StakeIn(r, a) == IF r.kind = "stake" /\ r.sender = a THEN r.amount ELSE 0

Payout(r, a) ==
    IF IsPayout(r) /\ r.status = "succeeded" /\ r.account = a THEN Gross(r) ELSE 0

FeeKept(r) == IF IsPayout(r) /\ r.status = "succeeded" THEN FeeOf(r) ELSE 0

FeeSent(r) == IF r.kind = "fee" /\ r.status # "succeeded" THEN r.amount ELSE 0

\* Nothing of the principal and of the fees hangs on the receipt.
Weightless(r) ==
    /\ \A a : StakeIn(r, a) = 0 /\ Payout(r, a) = 0
    /\ FeeKept(r) = 0 /\ FeeSent(r) = 0

\* The receipt in a slot, or none.
LEMMA SlotStands ==
    ASSUME NEW s
    PROVE  /\ s \in DOMAIN receipts =>
                /\ \A a : InTransit(s, a) = StakeIn(receipts[s], a)
                /\ \A a : PaidOut(s, a) = Payout(receipts[s], a)
                /\ FeeIn(s) = FeeKept(receipts[s]) /\ FeeOut(s) = FeeSent(receipts[s])
           /\ s \notin DOMAIN receipts =>
                /\ \A a : InTransit(s, a) = 0 /\ PaidOut(s, a) = 0
                /\ FeeIn(s) = 0 /\ FeeOut(s) = 0
BY DEF InTransit, PaidOut, FeeIn, FeeOut, StakeIn, Payout, FeeKept, FeeSent, StakesOf,
   Unbooked, FeesUnpaid, IsPayout, Amount

\* And after a step.
LEMMA SlotStandsNext ==
    ASSUME NEW s
    PROVE  /\ s \in DOMAIN receipts' =>
                /\ \A a : InTransit(s, a)' = StakeIn(receipts'[s], a)
                /\ \A a : PaidOut(s, a)' = Payout(receipts'[s], a)
                /\ FeeIn(s)' = FeeKept(receipts'[s]) /\ FeeOut(s)' = FeeSent(receipts'[s])
           /\ s \notin DOMAIN receipts' =>
                /\ \A a : InTransit(s, a)' = 0 /\ PaidOut(s, a)' = 0
                /\ FeeIn(s)' = 0 /\ FeeOut(s)' = 0
BY DEF InTransit, PaidOut, FeeIn, FeeOut, StakeIn, Payout, FeeKept, FeeSent, StakesOf,
   Unbooked, FeesUnpaid, IsPayout, Amount

\* An answered or consumed receipt, and a new one.
LEMMA SlotChanges ==
    ASSUME NEW s
    PROVE  /\ Consume(s) => s \notin DOMAIN receipts'
           /\ \A r : Send(s, r) => s \in DOMAIN receipts' /\ receipts'[s] = r
           /\ \A status : s \in DOMAIN receipts
                /\ receipts' = [receipts EXCEPT ![s].status = status]
                => /\ s \in DOMAIN receipts'
                   /\ receipts'[s] = [receipts[s] EXCEPT !.status = status]
<1>1. Consume(s) => s \notin DOMAIN receipts'
  BY DEF Consume, Drop, Restrict
<1>2. \A r : Send(s, r) => s \in DOMAIN receipts' /\ receipts'[s] = r
  BY DEF Send, Put
<1> QED BY <1>1, <1>2

\* An account that is written.
LEMMA AccountWritten ==
    ASSUME TypeInv, NEW a \in AccountIds, NEW after, AccountBy(after, now), SetAccount(a, after)
    PROVE  /\ AccountPrincipal(a) = Worth(AccountOrNew(a))
           /\ AccountPrincipal(a)' = Worth(after)
           /\ \A b : b # a => AccountPrincipal(b)' = AccountPrincipal(b)
<1>1. /\ DOMAIN accounts' = DOMAIN accounts \cup {a}
      /\ \A b \in DOMAIN accounts \cup {a} :
            accounts'[b] = IF b = a THEN after ELSE accounts[b]
  BY SetAccountType
<1>2. AccountPrincipal(a) = Worth(AccountOrNew(a))
  BY EmptyWorth DEF AccountPrincipal, AccountOrNew, Worth, JarsOf
<1>3. accounts'[a] = after /\ a \in DOMAIN accounts'
  BY <1>1
<1>4. AccountPrincipal(a)' = Worth(after)
  BY <1>3 DEF AccountPrincipal, Worth, JarsOf
<1>5. ASSUME NEW b, b # a PROVE AccountPrincipal(b)' = AccountPrincipal(b)
  <2>1. (b \in DOMAIN accounts' <=> b \in DOMAIN accounts)
        /\ (b \in DOMAIN accounts => accounts'[b] = accounts[b])
    BY <1>1, <1>5
  <2> QED BY <2>1 DEF AccountPrincipal, JarsOf
<1> QED BY <1>2, <1>4, <1>5

\* The worth of the accounts is what it was.
WorthKept == \A b : AccountPrincipal(b)' = AccountPrincipal(b)

\* An account is written and keeps its worth.
LEMMA WrittenKept ==
    ASSUME TypeInv, NEW a \in AccountIds, NEW after, AccountBy(after, now), SetAccount(a, after),
           Worth(after) = Worth(AccountOrNew(a))
    PROVE  WorthKept
BY AccountWritten DEF WorthKept

\* No account is written.
LEMMA UnwrittenKept == UNCHANGED accounts => WorthKept
BY DEF WorthKept, AccountPrincipal, JarsOf

-----------------------------------------------------------------------------
(* The steps that do not show.                                              *)

\* No receipt is worked on.
LEMMA IdleBooks ==
    ASSUME CustodyInv, TypeInv', UNCHANGED <<receipts, fee_amount, tokens>>, WorthKept
    PROVE  UNCHANGED Books
<1> DEFINE s == CHOOSE x : TRUE
<1> HIDE DEF s
<1>1. OffSlot(s)
  BY OneReceipt
<1>2. \A b \in AccountIds : InTransit(s, b)' = InTransit(s, b)
  BY DEF InTransit, StakesOf
<1>3. \A b \in AccountIds : Booked(s, b)' = Booked(s, b)
  <2> SUFFICES ASSUME NEW b \in AccountIds PROVE Booked(s, b)' = Booked(s, b)
    OBVIOUS
  <2>1. PaidOut(s, b)' = PaidOut(s, b)
    BY DEF PaidOut, Unbooked
  <2>2. AccountPrincipal(b)' = AccountPrincipal(b)
    BY DEF WorthKept
  <2> QED BY <2>1, <2>2 DEF Booked
<1>4. BookedFees(s)' = BookedFees(s)
  BY DEF BookedFees, FeeIn, FeeOut, Unbooked, FeesUnpaid
<1> QED BY <1>1, <1>2, <1>3, <1>4, BooksStand

\* A receipt is worked on that stands for the same before and after.
LEMMA SameWeight ==
    ASSUME CustodyInv, TypeInv', NEW s, OffSlot(s), UNCHANGED <<fee_amount, tokens>>, WorthKept,
           \A b : InTransit(s, b)' = InTransit(s, b) /\ PaidOut(s, b)' = PaidOut(s, b),
           FeeIn(s)' = FeeIn(s), FeeOut(s)' = FeeOut(s)
    PROVE  UNCHANGED Books
<1>1. ASSUME NEW b \in AccountIds PROVE Booked(s, b)' = Booked(s, b)
  <2>1. AccountPrincipal(b)' = AccountPrincipal(b)
    BY DEF WorthKept
  <2> QED BY <2>1 DEF Booked
<1>2. BookedFees(s)' = BookedFees(s)
  BY DEF BookedFees
<1> QED BY <1>1, <1>2, BooksStand

\* A transfer is sent.
LEMMA SendBooks ==
    ASSUME CustodyInv, TypeInv', NEW s \in FreeSlots, NEW r, Send(s, r), Weightless(r),
           UNCHANGED <<fee_amount, tokens>>, WorthKept
    PROVE  UNCHANGED Books
<1>1. OffSlot(s) /\ s \in DOMAIN receipts' /\ receipts'[s] = r /\ s \notin DOMAIN receipts
  BY OneReceipt, SlotChanges DEF FreeSlots
<1> QED BY <1>1, SlotStands, SlotStandsNext, SameWeight DEF Weightless

\* A receipt is consumed on which nothing hangs.
LEMMA ConsumeBooks ==
    ASSUME CustodyInv, TypeInv', NEW s \in DOMAIN receipts, Consume(s), Weightless(receipts[s]),
           UNCHANGED <<fee_amount, tokens>>, WorthKept
    PROVE  UNCHANGED Books
<1>1. OffSlot(s) /\ s \notin DOMAIN receipts'
  BY OneReceipt, SlotChanges
<1> QED BY <1>1, SlotStands, SlotStandsNext, SameWeight DEF Weightless

\* The receipts that carry no weight.
LEMMA WeightlessKinds ==
    ASSUME NEW r
    PROVE  /\ IsPayout(r) /\ r.status # "succeeded" => Weightless(r)
           /\ r.kind = "claim" => Weightless(r)
           /\ r.kind = "fee" /\ r.status = "succeeded" => Weightless(r)
BY DEF Weightless, StakeIn, Payout, FeeKept, FeeSent, IsPayout

\* A method that locks jars of an account and may send a transfer about them.
LEMMA TakeBooks ==
    ASSUME CustodyInv, TypeInv', NEW s \in FreeSlots, NEW a \in AccountIds, a \in DOMAIN accounts,
           NEW middle, AccountBy(middle, now), SameJars(accounts[a], middle),
           NEW after, AccountBy(after, now), NEW ps, LocksSet(middle, after, ps, TRUE),
           SetAccount(a, after), UNCHANGED <<fee_amount, tokens>>,
           UNCHANGED receipts \/ \E r : Weightless(r) /\ Send(s, r)
    PROVE  UNCHANGED Books
<1>1. Worth(middle) = Worth(accounts[a])
  BY LocksWorth
<1>2. Worth(after) = Worth(middle)
  BY LocksWorth
<1>3. AccountOrNew(a) = accounts[a]
  BY DEF AccountOrNew
<1>4. WorthKept
  BY <1>1, <1>2, <1>3, WrittenKept DEF CustodyInv, LockInv
<1>5. CASE UNCHANGED receipts
  BY <1>4, <1>5, IdleBooks
<1>6. CASE \E r : Weightless(r) /\ Send(s, r)
  BY <1>4, <1>6, SendBooks
<1> QED BY <1>5, <1>6

\* withdraw.
LEMMA WithdrawBooks ==
    ASSUME CustodyInv, TypeInv', NEW s \in FreeSlots, NEW a \in AccountIds,
           NEW p \in ProductIds, Withdraw(s, a, p)
    PROVE  UNCHANGED Books
<1> DEFINE requests == [q \in {p} |-> WithdrawalRequest(accounts[a], q)]
           updated == UpdateJarCaches(accounts[a], {p}, now)
           after == LockJars(updated, {p})
           r == [kind |-> "withdraw", status |-> "sent", account |-> a,
                 amount |-> TotalNetAmount(requests), jars |-> requests]
<1>1. /\ a \in DOMAIN accounts /\ SetAccount(a, after) /\ Send(s, r)
      /\ UNCHANGED <<fee_amount, tokens>>
  BY DEF Withdraw, SendWithdrawal
<1>2. AccountBy(accounts[a], now) /\ now \in Nat
  BY AccountOrNewType, <1>1 DEF CustodyInv, LockInv, TypeInv
<1>3. AccountBy(updated, now) /\ SameJars(accounts[a], updated)
  BY <1>2, UpdateJarCachesType
<1>4. AccountBy(after, now) /\ LocksSet(updated, after, {p}, TRUE)
  <2> HIDE DEF updated
  <2> QED BY <1>2, <1>3, LockJarsType
<1>5. IsPayout(r) /\ r.status # "succeeded"
  BY DEF IsPayout
<1> HIDE DEF r, updated, after, requests
<1>6. Weightless(r)
  BY <1>5, WeightlessKinds
<1> QED BY <1>1, <1>3, <1>4, <1>6, TakeBooks

\* withdraw_all.
LEMMA WithdrawAllBooks ==
    ASSUME CustodyInv, TypeInv', NEW s \in FreeSlots, NEW a \in AccountIds,
           NEW ps \in SUBSET ProductIds, WithdrawAll(s, a, ps)
    PROVE  UNCHANGED Books
<1> DEFINE requests == BulkRequests(a, ps)
           updated == UpdateAccountCache(accounts[a], now)
           after == LockJars(updated, DOMAIN requests)
           r == [kind |-> "withdraw", status |-> "sent", account |-> a,
                 amount |-> TotalNetAmount(requests), jars |-> requests]
<1>1. /\ a \in DOMAIN accounts /\ SetAccount(a, after) /\ UNCHANGED <<fee_amount, tokens>>
      /\ UNCHANGED receipts \/ Send(s, r)
  BY DEF WithdrawAll, CanWithdrawAll, SendWithdrawal
<1>2. AccountBy(accounts[a], now) /\ now \in Nat
  BY AccountOrNewType, <1>1 DEF CustodyInv, LockInv, TypeInv
<1>3. AccountBy(updated, now) /\ SameJars(accounts[a], updated)
  BY <1>2, UpdateAccountCacheType
<1>4. AccountBy(after, now) /\ LocksSet(updated, after, DOMAIN requests, TRUE)
  <2> HIDE DEF updated, requests
  <2> QED BY <1>2, <1>3, LockJarsType
<1>5. IsPayout(r) /\ r.status # "succeeded"
  BY DEF IsPayout
<1> HIDE DEF r, updated, after, requests
<1>6. Weightless(r)
  BY <1>5, WeightlessKinds
<1> QED BY <1>1, <1>3, <1>4, <1>6, TakeBooks

\* claim_total.
LEMMA ClaimTotalBooks ==
    ASSUME CustodyInv, TypeInv', NEW s \in FreeSlots, NEW a \in AccountIds, ClaimTotal(s, a)
    PROVE  UNCHANGED Books
<1> DEFINE updated == SettleInterest(accounts[a], now)
           claimed == Claimable(a)
           after == ClaimJars(updated, claimed)
           r == [kind |-> "claim", status |-> "sent", account |-> a,
                 amount |-> Total([p \in claimed |-> InterestOf(updated, p, now).interest]),
                 jars |-> [p \in claimed |-> ToRollback(updated.jars[p])],
                 timezone |-> updated.timezone, score |-> updated.score]
<1>1. /\ a \in DOMAIN accounts /\ SetAccount(a, after) /\ UNCHANGED <<fee_amount, tokens>>
      /\ UNCHANGED receipts \/ Send(s, r)
  BY DEF ClaimTotal
<1>2. AccountBy(accounts[a], now) /\ now \in Nat
  BY AccountOrNewType, <1>1 DEF CustodyInv, LockInv, TypeInv
<1>3. AccountBy(updated, now) /\ SameJars(accounts[a], updated)
  BY <1>2, SettleInterestType
<1>4. AccountBy(after, now) /\ LocksSet(updated, after, claimed, TRUE)
  <2> HIDE DEF updated, claimed
  <2> QED BY <1>3, ClaimJarsType DEF CustodyInv, LockInv
<1>5. r.kind = "claim"
  OBVIOUS
<1> HIDE DEF r, updated, after, claimed
<1>6. Weightless(r)
  BY <1>5, WeightlessKinds
<1> QED BY <1>1, <1>3, <1>4, <1>6, TakeBooks

\* A callback that changes locks, caches and nothing else.
LEMMA FreeBooks ==
    ASSUME CustodyInv, TypeInv', NEW s \in DOMAIN receipts, Consume(s), Weightless(receipts[s]),
           HasJars(receipts[s]), NEW after, AccountBy(after, now),
           SetAccount(receipts[s].account, after),
           Worth(after) = Worth(accounts[receipts[s].account]), UNCHANGED <<fee_amount, tokens>>
    PROVE  UNCHANGED Books
<1> DEFINE a == receipts[s].account
<1>1. TypeInv
  BY DEF CustodyInv, LockInv
<1>2. a \in AccountIds /\ AccountOrNew(a) = accounts[a]
  BY <1>1, UnlockedAccountType DEF HasJars, AccountOrNew
<1> HIDE DEF a
<1>3. WorthKept
  BY <1>1, <1>2, WrittenKept DEF a
<1> QED BY <1>3, ConsumeBooks

\* A withdrawal or a restake whose payout failed.
LEMMA AfterFailureBooks ==
    ASSUME CustodyInv, TypeInv', NEW s \in Slots,
           AfterFailedWithdraw(s) \/ AfterFailedTransferRemainder(s)
    PROVE  UNCHANGED Books
<1> DEFINE r == receipts[s]
           before == accounts[r.account]
           after == UnlockJars(before, DOMAIN r.jars)
<1>1. /\ s \in DOMAIN receipts /\ HasJars(r) /\ Consume(s) /\ SetAccount(r.account, after)
      /\ IsPayout(r) /\ r.status # "succeeded" /\ UNCHANGED <<fee_amount, tokens>>
  BY DEF AfterFailedWithdraw, AfterFailedTransferRemainder, InFlight, CanFinishWithdrawal,
     IsPayout
<1>2. AccountBy(after, now) /\ LocksSet(before, after, DOMAIN r.jars, FALSE)
  BY <1>1, UnlockedAccountType DEF CustodyInv, LockInv
<1>3. Weightless(r)
  BY <1>1, WeightlessKinds
<1> HIDE DEF after
<1>4. Worth(after) = Worth(before)
  BY <1>2, LocksWorth
<1> QED BY <1>1, <1>2, <1>3, <1>4, FreeBooks

\* A claim that was paid.
LEMMA AfterClaimBooks ==
    ASSUME CustodyInv, TypeInv', NEW s \in Slots, AfterClaim(s)
    PROVE  UNCHANGED Books
<1> DEFINE r == receipts[s]
           before == accounts[r.account]
           unlocked == UnlockJars(before, DOMAIN r.jars)
           after == CloseJars(unlocked, DOMAIN r.jars)
<1>1. /\ s \in DOMAIN receipts /\ HasJars(r) /\ Consume(s) /\ SetAccount(r.account, after)
      /\ r.kind = "claim" /\ UNCHANGED <<fee_amount, tokens>>
  BY DEF AfterClaim, InFlight
<1>2. /\ now \in Nat /\ AccountBy(unlocked, now)
      /\ LocksSet(before, unlocked, DOMAIN r.jars, FALSE)
  BY <1>1, UnlockedAccountType DEF CustodyInv, LockInv, TypeInv
<1>3. Weightless(r)
  BY <1>1, WeightlessKinds
<1>4. AccountBy(after, now) /\ Worth(after) = Worth(unlocked)
  <2> HIDE DEF unlocked, r
  <2> QED BY <1>2, CloseJarsType, CloseWorth
<1>5. Worth(unlocked) = Worth(before)
  <2> HIDE DEF unlocked
  <2> QED BY <1>2, LocksWorth
<1> HIDE DEF after, unlocked
<1> QED BY <1>1, <1>3, <1>4, <1>5, FreeBooks

\* A claim that failed is rolled back.
LEMMA AfterFailedClaimBooks ==
    ASSUME CustodyInv, TypeInv', NEW s \in Slots, AfterFailedClaim(s)
    PROVE  UNCHANGED Books
<1> DEFINE r == receipts[s]
           before == accounts[r.account]
           after == RestoreAccount(before, r)
<1>1. /\ s \in DOMAIN receipts /\ HasJars(r) /\ Consume(s) /\ SetAccount(r.account, after)
      /\ r.kind = "claim" /\ UNCHANGED <<fee_amount, tokens>>
  BY DEF AfterFailedClaim, InFlight
<1>2. AccountBy(after, now) /\ LocksSet(before, after, DOMAIN r.jars, FALSE)
  BY <1>1, RestoredAccountType DEF CustodyInv, LockInv
<1>3. Weightless(r)
  BY <1>1, WeightlessKinds
<1> HIDE DEF after
<1>4. Worth(after) = Worth(before)
  BY <1>2, LocksWorth
<1> QED BY <1>1, <1>2, <1>3, <1>4, FreeBooks

\* Jars that were unlocked are drained of what the receipt took from them.
LEMMA DrainedWorth ==
    ASSUME CustodyInv, NEW s \in DOMAIN receipts, IsPayout(receipts[s]), HasJars(receipts[s])
    PROVE  LET r == receipts[s]
               before == accounts[r.account]
               cleaned == CleanUpJars(UnlockJars(before, DOMAIN r.jars), PartitionOf(r))
           IN  /\ now \in Nat /\ r.account \in AccountIds
               /\ AccountBy(before, now) /\ AccountBy(cleaned, now)
               /\ Worth(before) \in Nat /\ Gross(r) \in Nat
               /\ Worth(cleaned) = Worth(before)
                    - (Gross(r) + (IF r.kind = "restake" THEN r.deposit ELSE 0))
<1> DEFINE r == receipts[s]
           before == accounts[r.account]
           unlocked == UnlockJars(before, DOMAIN r.jars)
           cleaned == CleanUpJars(unlocked, PartitionOf(r))
<1>1. TypeInv /\ now \in Nat
  BY DEF CustodyInv, LockInv, TypeInv
<1>2. /\ AccountBy(before, now) /\ AccountBy(unlocked, now) /\ r.account \in AccountIds
      /\ LocksSet(before, unlocked, DOMAIN r.jars, FALSE)
  BY <1>1, UnlockedAccountType
<1>3. /\ CanCleanUpJars(before, PartitionOf(r)) /\ DOMAIN PartitionOf(r) = DOMAIN r.jars
      /\ \A p \in DOMAIN PartitionOf(r) : PartitionOf(r)[p] \in Nat
      /\ TakenFrom(before, PartitionOf(r))
            = Gross(r) + (IF r.kind = "restake" THEN r.deposit ELSE 0)
  BY PayoutTakes
<1>4. Gross(r) \in Nat
  BY <1>1, ReceiptNat DEF TypeInv, ReceiptsBy
<1>5. SameDeposits(before, unlocked) /\ DOMAIN unlocked.jars = DOMAIN before.jars
  <2> HIDE DEF unlocked
  <2> QED BY <1>2 DEF SameDeposits, LocksSet
<1>6. CanCleanUpJars(unlocked, PartitionOf(r))
  <2> HIDE DEF unlocked
  <2> QED BY <1>3, <1>5 DEF SameDeposits, CanCleanUpJars, CanCleanUp
<1>7. DOMAIN PartitionOf(r) \subseteq DOMAIN before.jars
  BY <1>3 DEF CanCleanUpJars
<1> HIDE DEF unlocked, r, before
<1>8. TakenFrom(unlocked, PartitionOf(r)) = TakenFrom(before, PartitionOf(r))
  BY <1>5, <1>7, TakenSame
<1>9. AccountBy(cleaned, now)
      /\ Worth(cleaned) = Worth(unlocked) - TakenFrom(unlocked, PartitionOf(r))
  BY <1>1, <1>2, <1>3, <1>6, CleanUpJarsType, DrainWorth
<1>10. Worth(unlocked) = Worth(before) /\ Worth(before) \in Nat
  BY <1>1, <1>2, <1>5, SameWorth, WorthNat
<1>11. Worth(cleaned) = Worth(before)
            - (Gross(r) + (IF r.kind = "restake" THEN r.deposit ELSE 0))
  BY <1>3, <1>8, <1>9, <1>10
<1> QED BY <1>1, <1>2, <1>4, <1>9, <1>10, <1>11 DEF unlocked, r, before

\* A payout is booked: what was paid leaves the jars, and the fee is kept.
LEMMA BookPayout ==
    ASSUME CustodyInv, TypeInv', NEW s \in DOMAIN receipts, Consume(s),
           IsPayout(receipts[s]), receipts[s].status = "succeeded", HasJars(receipts[s]),
           NEW after, AccountBy(after, now), SetAccount(receipts[s].account, after),
           Worth(after) = Worth(accounts[receipts[s].account]) - Gross(receipts[s]),
           fee_amount' = fee_amount + FeeOf(receipts[s]), UNCHANGED tokens
    PROVE  UNCHANGED Books
<1>1. PICK r : r = receipts[s]
  OBVIOUS
<1>2. PICK a : a = r.account
  OBVIOUS
<1>3. TypeInv /\ fee_amount \in Nat
  BY DEF CustodyInv, LockInv, TypeInv
<1>4. a \in AccountIds /\ AccountOrNew(a) = accounts[a] /\ SetAccount(a, after)
      /\ Worth(after) = Worth(accounts[a]) - Gross(r)
  BY <1>1, <1>2, <1>3, UnlockedAccountType DEF HasJars, AccountOrNew
<1>5. /\ AccountPrincipal(a) = Worth(accounts[a]) /\ AccountPrincipal(a)' = Worth(after)
      /\ \A b : b # a => AccountPrincipal(b)' = AccountPrincipal(b)
  BY <1>3, <1>4, AccountWritten
<1>6. /\ OffSlot(s) /\ s \notin DOMAIN receipts'
      /\ FeeOf(r) \in Nat
  BY <1>1, <1>3, OneReceipt, SlotChanges, ReceiptNat DEF TypeInv, ReceiptsBy
<1>7. /\ \A b : InTransit(s, b) = 0 /\ InTransit(s, b)' = 0
      /\ \A b : PaidOut(s, b) = IF b = a THEN Gross(r) ELSE 0
      /\ FeeIn(s) = FeeOf(r) /\ FeeOut(s) = 0
  BY <1>1, <1>2, <1>6, SlotStands, SlotStandsNext
     DEF StakeIn, Payout, FeeKept, FeeSent, IsPayout
<1>8. (\A b : PaidOut(s, b)' = 0) /\ FeeIn(s)' = 0 /\ FeeOut(s)' = 0
  BY <1>6, SlotStandsNext
<1>9. ASSUME NEW b \in AccountIds PROVE Booked(s, b)' = Booked(s, b)
  <2>1. AccountPrincipal(b) \in Nat /\ AccountPrincipal(b)' \in Nat
    BY <1>3, AccountPrincipalNat
  <2>2. AccountPrincipal(b)' - PaidOut(s, b)' = AccountPrincipal(b) - PaidOut(s, b)
    <3>1. CASE b = a
      <4>1. AccountPrincipal(b)' = AccountPrincipal(b) - Gross(r)
        BY <1>4, <1>5, <3>1
      <4>2. PaidOut(s, b) = Gross(r) /\ PaidOut(s, b)' = 0
        BY <1>7, <1>8, <3>1
      <4> QED BY <2>1, <4>1, <4>2
    <3>2. CASE b # a
      BY <1>5, <1>7, <1>8, <3>2
    <3> QED BY <3>1, <3>2
  <2> QED BY <2>2 DEF Booked
<1>10. BookedFees(s)' = BookedFees(s)
  <2>1. BookedFees(s) = fee_amount + FeeOf(r) + 0
    BY <1>7 DEF BookedFees
  <2>2. BookedFees(s)' = fee_amount' + 0 + 0
    BY <1>8 DEF BookedFees
  <2>3. fee_amount' = fee_amount + FeeOf(r)
    BY <1>1
  <2> QED BY <1>3, <1>6, <2>1, <2>2, <2>3
<1> QED BY <1>6, <1>7, <1>9, <1>10, BooksStand

\* A withdrawal that was paid.
LEMMA AfterWithdrawBooks ==
    ASSUME CustodyInv, TypeInv', NEW s \in Slots, AfterWithdraw(s)
    PROVE  UNCHANGED Books
<1> DEFINE r == receipts[s]
           before == accounts[r.account]
           cleaned == CleanUpJars(UnlockJars(before, DOMAIN r.jars), PartitionOf(r))
           after == CloseJars(cleaned, DOMAIN r.jars)
<1>1. /\ s \in DOMAIN receipts /\ r.kind = "withdraw" /\ r.status = "succeeded"
      /\ HasJars(r) /\ Consume(s) /\ SetAccount(r.account, after) /\ UNCHANGED tokens
      /\ fee_amount' = fee_amount + Total([p \in DOMAIN r.jars |-> r.jars[p].fee])
  BY DEF AfterWithdraw, InFlight, CanFinishWithdrawal
<1>2. IsPayout(r) /\ fee_amount' = fee_amount + FeeOf(r)
  BY <1>1, FeeOfKinds DEF IsPayout
<1>3. /\ now \in Nat /\ AccountBy(cleaned, now) /\ Worth(before) \in Nat /\ Gross(r) \in Nat
      /\ Worth(cleaned) = Worth(before) - (Gross(r) + 0)
  BY <1>1, <1>2, DrainedWorth
<1>4. AccountBy(after, now) /\ Worth(after) = Worth(cleaned)
  <2> HIDE DEF cleaned, r
  <2> QED BY <1>3, CloseJarsType, CloseWorth
<1> HIDE DEF after, cleaned
<1>5. Worth(after) = Worth(before) - Gross(r)
  BY <1>3, <1>4
<1> QED BY <1>1, <1>2, <1>4, <1>5, BookPayout

\* A restake whose payout was made.
LEMMA AfterTransferRemainderBooks ==
    ASSUME CustodyInv, TypeInv', NEW s \in Slots, AfterTransferRemainder(s)
    PROVE  UNCHANGED Books
<1> DEFINE r == receipts[s]
           before == accounts[r.account]
           cleaned == CleanUpJars(UnlockJars(before, DOMAIN r.jars), PartitionOf(r))
           after == DepositTo(cleaned, r.target, r.deposit, now)
<1>1. /\ s \in DOMAIN receipts /\ r.kind = "restake" /\ r.status = "succeeded"
      /\ HasJars(r) /\ Consume(s) /\ SetAccount(r.account, after) /\ UNCHANGED tokens
      /\ fee_amount' = fee_amount + r.fee
  BY DEF AfterTransferRemainder, InFlight, MoveDeposits
<1>2. IsPayout(r) /\ fee_amount' = fee_amount + FeeOf(r)
  BY <1>1, FeeOfKinds DEF IsPayout
<1>3. r.target \in ProductIds /\ r.deposit \in Nat
  BY <1>1, ReceiptKinds DEF CustodyInv, LockInv, IsRestake
<1>4. /\ now \in Nat /\ AccountBy(cleaned, now) /\ Worth(before) \in Nat /\ Gross(r) \in Nat
      /\ Worth(cleaned) = Worth(before) - (Gross(r) + r.deposit)
  BY <1>1, <1>2, DrainedWorth
<1>5. AccountBy(after, now) /\ Worth(after) = Worth(cleaned) + r.deposit
  <2> HIDE DEF cleaned
  <2> QED BY <1>3, <1>4, DepositToType, DepositWorth
<1> HIDE DEF after, cleaned
<1>6. Worth(after) = Worth(before) - Gross(r)
  BY <1>3, <1>4, <1>5
<1> QED BY <1>1, <1>2, <1>5, <1>6, BookPayout

\* Deposits that are moved stay in the account.
LEMMA MovedWorth ==
    ASSUME TypeInv, NEW account, AccountBy(account, now), NEW ps \in SUBSET DOMAIN account.jars,
           NEW target \in ProductIds, NEW amount \in Nat, MatureBalance(account, ps) = amount
    PROVE  LET partition == [p \in ps |-> PartitionIndex(account.jars[p], TermsOf(p), now)]
               after == MoveDeposits(account, partition, target, amount)
           IN  AccountBy(after, now) /\ Worth(after) = Worth(account)
<1> DEFINE partition == [p \in ps |-> PartitionIndex(account.jars[p], TermsOf(p), now)]
           cleaned == CleanUpJars(account, partition)
           after == DepositTo(cleaned, target, amount, now)
<1>1. now \in Nat
  BY DEF TypeInv
<1>2. ASSUME NEW p \in ps
      PROVE  partition[p] \in 0 .. Len(account.jars[p].deposits)
             /\ Len(account.jars[p].deposits) \in Nat
  BY <1>1, JarsFinite, DepositsNat, PartitionIndexType
<1>3. DOMAIN partition = ps
  OBVIOUS
<1>4. TakenFrom(account, partition) = amount
  <2>1. [p \in DOMAIN partition |-> Principal(account.jars[p].deposits, partition[p])]
            = [p \in ps |-> LiquidBalance(account.jars[p], TermsOf(p), now)]
    BY DEF LiquidBalance
  <2> HIDE DEF partition
  <2> QED BY <2>1 DEF TakenFrom, MatureBalance
<1> HIDE DEF partition
<1>5. CanCleanUpJars(account, partition) /\ \A p \in DOMAIN partition : partition[p] \in Nat
  BY <1>2, <1>3 DEF CanCleanUpJars, CanCleanUp
<1>6. AccountBy(cleaned, now) /\ Worth(cleaned) = Worth(account) - amount
      /\ Worth(account) \in Nat
  BY <1>1, <1>4, <1>5, CleanUpJarsType, DrainWorth, WorthNat
<1> HIDE DEF cleaned
<1>7. AccountBy(after, now) /\ Worth(after) = Worth(cleaned) + amount
  BY <1>1, <1>6, DepositToType, DepositWorth
<1> HIDE DEF after
<1>8. Worth(after) = Worth(account)
  BY <1>6, <1>7
<1>9. MoveDeposits(account, partition, target, amount) = after
  BY DEF MoveDeposits, after, cleaned
<1> QED BY <1>7, <1>8, <1>9 DEF partition

\* restake_internal, whether something is paid out or not.
LEMMA RestakeFromBooks ==
    ASSUME CustodyInv, TypeInv', NEW s \in FreeSlots, NEW a \in AccountIds, a \in DOMAIN accounts,
           NEW ps \in SUBSET Unlocked(a), NEW fee,
           NEW target \in ProductIds, NEW amount \in Amounts, NEW timezone \in Offered,
           RestakeFrom(s, a, ps, fee, target, amount, timezone)
    PROVE  UNCHANGED Books
<1> DEFINE updated == UpdateJarCaches(accounts[a], ps, now)
           localised == IF IsScoreBased(TermsOf(target))
                        THEN TrySetTimezone(updated, timezone) ELSE updated
           partition == [p \in ps |-> PartitionIndex(updated.jars[p], TermsOf(p), now)]
           withdrawn == MatureBalance(updated, ps) - amount
           r == [kind |-> "restake", status |-> "sent", account |-> a,
                 amount |-> withdrawn - fee, fee |-> fee,
                 jars |-> [p \in ps |-> [partition_index |-> partition[p]]],
                 target |-> target, deposit |-> amount]
<1>1. /\ AccountBy(accounts[a], now) /\ now \in Nat /\ AccountOrNew(a) = accounts[a] /\ TypeInv
      /\ amount \in Nat /\ ps \in SUBSET DOMAIN accounts[a].jars
  BY AccountOrNewType, SweatJarAssumption
     DEF CustodyInv, LockInv, TypeInv, AccountOrNew, Unlocked, JarsOf
<1>2. AccountBy(updated, now) /\ SameJars(accounts[a], updated)
  BY <1>1, UpdateJarCachesType
<1>3. AccountBy(localised, now) /\ localised.jars = updated.jars
  <2> HIDE DEF updated
  <2>1. CASE IsScoreBased(TermsOf(target))
    BY <1>1, <1>2, <2>1, TrySetTimezoneType DEF Offered
  <2>2. CASE ~IsScoreBased(TermsOf(target))
    BY <1>2, <2>2
  <2> QED BY <2>1, <2>2
<1>4. SameJars(accounts[a], localised)
  <2> HIDE DEF updated, localised
  <2> QED BY <1>2, <1>3 DEF SameJars
<1>5. UNCHANGED <<fee_amount, tokens>>
  BY DEF RestakeFrom
<1>6. CASE /\ withdrawn = 0 /\ UNCHANGED receipts
           /\ SetAccount(a, MoveDeposits(localised, partition, target, amount))
  <2> DEFINE after == MoveDeposits(localised, partition, target, amount)
  <2>1. ps \in SUBSET DOMAIN localised.jars
    <3> HIDE DEF localised
    <3> QED BY <1>1, <1>4 DEF SameJars
  <2>2. partition = [p \in ps |-> PartitionIndex(localised.jars[p], TermsOf(p), now)]
    <3> HIDE DEF updated, localised
    <3> QED BY <1>3
  <2>3. MatureBalance(localised, ps) = amount
    <3>1. MatureBalance(localised, ps) = MatureBalance(updated, ps)
      <4> HIDE DEF updated, localised
      <4> QED BY <1>3 DEF MatureBalance
    <3>2. MatureBalance(localised, ps) \in Nat
      <4> HIDE DEF localised
      <4> QED BY <1>1, <1>3, <2>1, MatureBalanceNat
    <3>3. withdrawn = 0
      BY <1>6
    <3> HIDE DEF updated, localised
    <3> QED BY <1>1, <3>1, <3>2, <3>3
  <2>4. AccountBy(after, now) /\ Worth(after) = Worth(localised)
    <3> HIDE DEF localised, partition
    <3> QED BY <1>1, <1>3, <2>1, <2>2, <2>3, MovedWorth
  <2>5. Worth(localised) = Worth(accounts[a])
    <3> HIDE DEF localised
    <3> QED BY <1>4, LocksWorth
  <2>6. SetAccount(a, after)
    BY <1>6
  <2> HIDE DEF after, localised
  <2>7. WorthKept
    BY <1>1, <2>4, <2>5, <2>6, WrittenKept
  <2> QED BY <1>5, <1>6, <2>7, IdleBooks
<1>7. CASE SetAccount(a, LockJars(localised, ps)) /\ Send(s, r)
  <2> DEFINE after == LockJars(localised, ps)
  <2>1. AccountBy(after, now) /\ LocksSet(localised, after, ps, TRUE)
    <3> HIDE DEF localised
    <3> QED BY <1>1, <1>3, LockJarsType
  <2>2. IsPayout(r) /\ r.status # "succeeded"
    BY DEF IsPayout
  <2>3. SetAccount(a, after) /\ Send(s, r)
    BY <1>7
  <2> HIDE DEF r, localised, after
  <2>4. Weightless(r)
    BY <2>2, WeightlessKinds
  <2> QED BY <1>3, <1>4, <1>5, <2>1, <2>3, <2>4, TakeBooks
<1> QED BY <1>6, <1>7 DEF RestakeFrom

\* restake and restake_all.
LEMMA RestakeBooks ==
    ASSUME CustodyInv, TypeInv', NEW s \in FreeSlots, NEW a \in AccountIds,
           NEW target \in ProductIds, NEW amount \in Amounts, NEW timezone \in Offered,
           \/ \E from \in ProductIds : Restake(s, a, from, target, amount, timezone)
           \/ RestakeAll(s, a, target, amount, timezone)
    PROVE  UNCHANGED Books
<1>1. s \in Slots /\ TypeInv
  BY DEF CustodyInv, LockInv, FreeSlots
<1>2. a \in DOMAIN accounts
      /\ \E ps \in SUBSET Unlocked(a) : \E fee :
            RestakeFrom(s, a, ps, fee, target, amount, timezone)
  BY <1>1, RestakesFrom
<1> QED BY <1>2, RestakeFromBooks

\* A callback that panics has nothing to book.
LEMMA CallbackPanicsBooks ==
    ASSUME CustodyInv, TypeInv', NEW s \in Slots, CallbackPanics(s)
    PROVE  UNCHANGED Books
<1> DEFINE r == receipts[s]
           a == r.account
<1>1. /\ s \in DOMAIN receipts /\ Consume(s) /\ UNCHANGED <<accounts, fee_amount, tokens>>
      /\ \/ IsPayout(r) /\ ~CanFinishWithdrawal(r)
         \/ r.kind = "claim"
  BY DEF CallbackPanics, IsPayout
<1>2. WorthKept
  BY <1>1, UnwrittenKept
<1>3. CASE r.kind = "claim"
  BY <1>1, <1>2, <1>3, WeightlessKinds, ConsumeBooks
<1>4. CASE IsPayout(r) /\ ~CanFinishWithdrawal(r)
  <2>1. /\ DOMAIN PartitionOf(r) = DOMAIN r.jars /\ CanCleanUpJars(accounts[a], PartitionOf(r))
        /\ DOMAIN r.jars # {} => a \in DOMAIN accounts
        /\ TakenFrom(accounts[a], PartitionOf(r))
            = Gross(r) + (IF r.kind = "restake" THEN r.deposit ELSE 0)
    BY <1>1, <1>4, PayoutTakes
  <2>2. DOMAIN r.jars = {}
    <3> SUFFICES ASSUME DOMAIN r.jars # {} PROVE FALSE
      OBVIOUS
    <3>1. HasJars(r)
      BY <2>1 DEF HasJars, CanCleanUpJars, JarsOf
    <3> QED BY <1>4, <2>1, <3>1 DEF CanFinishWithdrawal
  <2>3. TakenFrom(accounts[a], PartitionOf(r)) = 0
    BY <2>1, <2>2, SumEmpty DEF TakenFrom, Total
  <2>4. /\ Gross(r) \in Nat /\ FeeOf(r) \in Nat /\ Amount(r) \in Nat
        /\ r.kind = "restake" => r.deposit \in Nat
    BY <1>1, ReceiptNat, ReceiptKinds DEF CustodyInv, LockInv, TypeInv, ReceiptsBy, IsRestake
  <2>5. Gross(r) = 0
    <3> DEFINE n == Gross(r)
               d == IF r.kind = "restake" THEN r.deposit ELSE 0
    <3>1. n \in Nat /\ d \in Nat /\ 0 = n + d
      BY <2>1, <2>3, <2>4
    <3> HIDE DEF n, d
    <3>2. n = 0
      BY <3>1
    <3> QED BY <3>2 DEF n
  <2>6. FeeOf(r) = 0
    <3> DEFINE n == FeeOf(r)
               m == r.amount
    <3>1. n \in Nat /\ m \in Nat /\ 0 = m + n
      BY <2>4, <2>5 DEF Gross, Amount
    <3> HIDE DEF n, m
    <3>2. n = 0
      BY <3>1
    <3> QED BY <3>2 DEF n
  <2>7. Weightless(r)
    BY <1>4, <2>5, <2>6 DEF Weightless, StakeIn, Payout, FeeKept, FeeSent, IsPayout
  <2> QED BY <1>1, <1>2, <2>7, ConsumeBooks
<1> QED BY <1>1, <1>3, <1>4

\* A transfer that failed stands for what it stood for.
LEMMA FailedBooks ==
    ASSUME CustodyInv, TypeInv', NEW s \in Slots, FtTransferFails(s) \/ OnStakePanics(s)
    PROVE  UNCHANGED Books
<1>1. PICK r : r = receipts[s]
  OBVIOUS
<1>2. PICK q : q = [r EXCEPT !.status = "failed"]
  OBVIOUS
<1>3. /\ s \in DOMAIN receipts /\ r.status = "sent"
      /\ receipts' = [receipts EXCEPT ![s].status = "failed"]
      /\ UNCHANGED <<accounts, fee_amount, tokens>>
  BY <1>1 DEF FtTransferFails, OnStakePanics, InFlight
<1>4. OffSlot(s) /\ s \in DOMAIN receipts' /\ receipts'[s] = q
  BY <1>1, <1>2, <1>3, OneReceipt, SlotChanges
<1>5. \/ IsStake(r) \/ IsWithdrawal(r) \/ IsClaim(r) \/ IsRestake(r) \/ IsFee(r)
  BY <1>1, <1>3, ReceiptKinds DEF CustodyInv, LockInv
<1>6. /\ q.kind = r.kind /\ q.status = "failed" /\ q.amount = r.amount
      /\ r.kind = "stake" => q.sender = r.sender
  BY <1>2, <1>5 DEF IsStake, IsWithdrawal, IsClaim, IsRestake, IsFee
<1>7. /\ \A a : StakeIn(q, a) = StakeIn(r, a) /\ Payout(q, a) = 0 /\ Payout(r, a) = 0
      /\ FeeKept(q) = 0 /\ FeeKept(r) = 0 /\ FeeSent(q) = FeeSent(r)
  BY <1>3, <1>6 DEF StakeIn, Payout, FeeKept, FeeSent
<1>8. WorthKept
  BY <1>3, UnwrittenKept
<1> QED BY <1>1, <1>3, <1>4, <1>7, <1>8, SlotStands, SlotStandsNext, SameWeight

\* withdraw_fee: the fees collected are on their way to the collector.
LEMMA WithdrawFeeBooks ==
    ASSUME CustodyInv, TypeInv', NEW s \in FreeSlots, WithdrawFee(s)
    PROVE  UNCHANGED Books
<1>1. PICK r : r = [kind |-> "fee", status |-> "sent", account |-> FeeAccount,
                    amount |-> fee_amount, jars |-> NoJars]
  OBVIOUS
<1>2. Send(s, r) /\ fee_amount' = 0 /\ UNCHANGED <<accounts, tokens>>
  BY <1>1 DEF WithdrawFee
<1>3. OffSlot(s) /\ s \in DOMAIN receipts' /\ receipts'[s] = r /\ s \notin DOMAIN receipts
  BY <1>2, OneReceipt, SlotChanges DEF FreeSlots
<1>4. /\ \A a : StakeIn(r, a) = 0 /\ Payout(r, a) = 0
      /\ FeeKept(r) = 0 /\ FeeSent(r) = fee_amount
  BY <1>1 DEF StakeIn, Payout, FeeKept, FeeSent, IsPayout
<1>5. (\A a : InTransit(s, a) = 0 /\ PaidOut(s, a) = 0) /\ FeeIn(s) = 0 /\ FeeOut(s) = 0
  BY <1>3, SlotStands
<1>6. /\ \A a : InTransit(s, a)' = 0 /\ PaidOut(s, a)' = 0
      /\ FeeIn(s)' = 0 /\ FeeOut(s)' = fee_amount
  BY <1>3, <1>4, SlotStandsNext
<1>7. WorthKept
  BY <1>2, UnwrittenKept
<1>8. ASSUME NEW b \in AccountIds PROVE Booked(s, b)' = Booked(s, b)
  <2>1. AccountPrincipal(b)' = AccountPrincipal(b)
    BY <1>7 DEF WorthKept
  <2> QED BY <1>5, <1>6, <2>1 DEF Booked
<1>9. BookedFees(s)' = BookedFees(s)
  <2>1. fee_amount \in Nat
    BY DEF CustodyInv, LockInv, TypeInv
  <2>2. BookedFees(s) = fee_amount + 0 + 0
    BY <1>5 DEF BookedFees
  <2>3. BookedFees(s)' = 0 + 0 + fee_amount
    BY <1>2, <1>6 DEF BookedFees
  <2> QED BY <2>1, <2>2, <2>3
<1> QED BY <1>2, <1>3, <1>5, <1>6, <1>8, <1>9, BooksStand

\* The callback of withdraw_fee: fees that were not paid are collected again.
LEMMA AfterFeeBooks ==
    ASSUME CustodyInv, TypeInv', NEW s \in Slots,
           AfterFeeWithdrawn(s) \/ AfterFailedFeeWithdrawal(s)
    PROVE  UNCHANGED Books
<1>1. PICK r : r = receipts[s]
  OBVIOUS
<1>2. /\ s \in DOMAIN receipts /\ r.kind = "fee" /\ Consume(s) /\ UNCHANGED <<accounts, tokens>>
  BY <1>1 DEF AfterFeeWithdrawn, AfterFailedFeeWithdrawal, InFlight
<1>3. WorthKept
  BY <1>2, UnwrittenKept
<1>4. CASE AfterFeeWithdrawn(s)
  <2>1. r.status = "succeeded" /\ UNCHANGED fee_amount
    BY <1>1, <1>4 DEF AfterFeeWithdrawn, InFlight
  <2> QED BY <1>1, <1>2, <1>3, <2>1, WeightlessKinds, ConsumeBooks
<1>5. CASE AfterFailedFeeWithdrawal(s)
  <2>1. r.status = "failed" /\ fee_amount' = fee_amount + r.amount
    BY <1>1, <1>5 DEF AfterFailedFeeWithdrawal, InFlight
  <2>2. OffSlot(s) /\ s \notin DOMAIN receipts'
    BY <1>2, OneReceipt, SlotChanges
  <2>3. /\ \A a : StakeIn(r, a) = 0 /\ Payout(r, a) = 0
        /\ FeeKept(r) = 0 /\ FeeSent(r) = r.amount
    BY <1>2, <2>1 DEF StakeIn, Payout, FeeKept, FeeSent, IsPayout
  <2>4. /\ \A a : InTransit(s, a) = 0 /\ PaidOut(s, a) = 0
        /\ FeeIn(s) = 0 /\ FeeOut(s) = r.amount
    BY <1>1, <1>2, <2>3, SlotStands
  <2>5. (\A a : InTransit(s, a)' = 0 /\ PaidOut(s, a)' = 0) /\ FeeIn(s)' = 0 /\ FeeOut(s)' = 0
    BY <2>2, SlotStandsNext
  <2>6. ASSUME NEW b \in AccountIds PROVE Booked(s, b)' = Booked(s, b)
    <3>1. AccountPrincipal(b)' = AccountPrincipal(b)
      BY <1>3 DEF WorthKept
    <3> QED BY <2>4, <2>5, <3>1 DEF Booked
  <2>7. BookedFees(s)' = BookedFees(s)
    <3>1. fee_amount \in Nat /\ r.amount \in Nat
      BY <1>1, <1>2, ReceiptKinds DEF CustodyInv, LockInv, TypeInv
    <3>2. BookedFees(s) = fee_amount + 0 + r.amount
      BY <2>4 DEF BookedFees
    <3>3. BookedFees(s)' = fee_amount' + 0 + 0
      BY <2>5 DEF BookedFees
    <3> QED BY <2>1, <3>1, <3>2, <3>3
  <2> QED BY <1>2, <2>2, <2>4, <2>5, <2>6, <2>7, BooksStand
<1> QED BY <1>4, <1>5

\* The oracle leaves the deposits alone.
LEMMA OperatorBooks ==
    ASSUME ~MaintainerUnlocks, CustodyInv, TypeInv', NEW a \in AccountIds, OperatorCall(a)
    PROVE  UNCHANGED Books
<1>1. TypeInv
  BY DEF CustodyInv, LockInv
<1>2. PICK after : AccountBy(after, now) /\ SetAccount(a, after)
                   /\ SameJars(AccountOrNew(a), after)
  BY <1>1, OracleCalls, OracleWrites
<1>3. UNCHANGED <<receipts, fee_amount, tokens>>
  BY <1>1, OracleCalls, OracleWrites
<1>4. Worth(after) = Worth(AccountOrNew(a))
  BY <1>2, LocksWorth
<1>5. WorthKept
  BY <1>1, <1>2, <1>4, WrittenKept
<1> QED BY <1>3, <1>5, IdleBooks

\* Neither do the manager and the clock write accounts.
LEMMA UnwrittenBooks ==
    ASSUME CustodyInv, TypeInv', UNCHANGED <<accounts, receipts, fee_amount, tokens>>
    PROVE  UNCHANGED Books
BY UnwrittenKept, IdleBooks

-----------------------------------------------------------------------------
(* The steps that show.                                                     *)

\* The wallets after a transfer between the vault and another holder.
LEMMA TransferWallets ==
    ASSUME TypeInv, NEW h \in AccountIds \cup {FeeAccount}, NEW x \in Nat
    PROVE  /\ Vault \in Holders /\ h \in Holders /\ h # Vault
           /\ tokens[Vault] \in Nat /\ tokens[h] \in Nat /\ WalletsBar[h] = tokens[h]
           /\ Transfer(h, Vault, x) =>
                /\ WalletsBar' = [WalletsBar EXCEPT ![h] = @ - x]
                /\ tokens'[Vault] = tokens[Vault] + x
           /\ Transfer(Vault, h, x) =>
                /\ WalletsBar' = [WalletsBar EXCEPT ![h] = @ + x]
                /\ tokens'[Vault] = tokens[Vault] - x
<1>1. /\ Vault \in Holders /\ h \in Holders /\ h # Vault /\ Vault \notin AccountIds \cup {FeeAccount}
      /\ AccountIds \cup {FeeAccount} \subseteq Holders
  BY SweatJarAssumption DEF Holders
<1>2. \A k \in Holders : tokens[k] \in Nat
  BY DEF TypeInv
<1>3. WalletsBar[h] = tokens[h]
  BY DEF WalletsBar
<1>4. ASSUME Transfer(h, Vault, x)
      PROVE  /\ WalletsBar' = [WalletsBar EXCEPT ![h] = @ - x]
             /\ tokens'[Vault] = tokens[Vault] + x
  <2>1. \A k \in AccountIds \cup {FeeAccount} :
            tokens'[k] = IF k = h THEN tokens[k] - x ELSE tokens[k]
    BY <1>1, <1>2, <1>4 DEF Transfer
  <2>2. tokens'[Vault] = tokens[Vault] + x
    BY <1>1, <1>2, <1>4 DEF Transfer
  <2>3. WalletsBar' = [WalletsBar EXCEPT ![h] = @ - x]
    BY <2>1 DEF WalletsBar
  <2> QED BY <2>2, <2>3
<1>5. ASSUME Transfer(Vault, h, x)
      PROVE  /\ WalletsBar' = [WalletsBar EXCEPT ![h] = @ + x]
             /\ tokens'[Vault] = tokens[Vault] - x
  <2>1. \A k \in AccountIds \cup {FeeAccount} :
            tokens'[k] = IF k = h THEN tokens[k] + x ELSE tokens[k]
    BY <1>1, <1>2, <1>5 DEF Transfer
  <2>2. tokens'[Vault] = tokens[Vault] - x
    BY <1>1, <1>2, <1>5 DEF Transfer
  <2>3. WalletsBar' = [WalletsBar EXCEPT ![h] = @ + x]
    BY <2>1 DEF WalletsBar
  <2> QED BY <2>2, <2>3
<1> QED BY <1>1, <1>2, <1>3, <1>4, <1>5

\* One account's share of the books moves by n.
LEMMA OneShare ==
    ASSUME CustodyInv, TypeInv', NEW s, OffSlot(s), NEW a \in AccountIds, NEW n \in Int
    PROVE  /\ (\A b \in AccountIds :
                    InTransit(s, b)' = InTransit(s, b) + (IF b = a THEN n ELSE 0))
                => InboundBar' = [InboundBar EXCEPT ![a] = @ + n]
           /\ (\A b \in AccountIds :
                    Booked(s, b)' = Booked(s, b) + (IF b = a THEN n ELSE 0))
                => PrincipalBar' = [PrincipalBar EXCEPT ![a] = @ + n]
<1>1. ASSUME \A b \in AccountIds :
                InTransit(s, b)' = InTransit(s, b) + (IF b = a THEN n ELSE 0)
      PROVE  InboundBar' = [InboundBar EXCEPT ![a] = @ + n]
  <2>1. ASSUME NEW b \in AccountIds
        PROVE  InboundBar'[b] = [InboundBar EXCEPT ![a] = @ + n][b]
    <3> DEFINE old == InTransit(s, b)
               new == InTransit(s, b)'
               bar == InboundBar[b]
               d == IF b = a THEN n ELSE 0
    <3>1. old \in Int /\ bar \in Int /\ d \in Int /\ new = old + d
      BY <1>1, MovesInt
    <3>2. InboundBar'[b] = bar - old + new
      BY BooksMove
    <3>3. [InboundBar EXCEPT ![a] = @ + n][b] = IF b = a THEN bar + n ELSE bar
      BY DEF InboundBar
    <3>4. bar + d = IF b = a THEN bar + n ELSE bar
      BY <3>1
    <3> HIDE DEF old, new, bar, d
    <3> QED BY <3>1, <3>2, <3>3, <3>4
  <2>2. DOMAIN [InboundBar EXCEPT ![a] = @ + n] = AccountIds
    BY DEF InboundBar
  <2>3. InboundBar' = [b \in AccountIds |-> InboundBar'[b]]
    BY DEF InboundBar
  <2>4. [InboundBar EXCEPT ![a] = @ + n]
            = [b \in AccountIds |-> [InboundBar EXCEPT ![a] = @ + n][b]]
    BY DEF InboundBar
  <2> QED BY <2>1, <2>3, <2>4
<1>2. ASSUME \A b \in AccountIds : Booked(s, b)' = Booked(s, b) + (IF b = a THEN n ELSE 0)
      PROVE  PrincipalBar' = [PrincipalBar EXCEPT ![a] = @ + n]
  <2>1. ASSUME NEW b \in AccountIds
        PROVE  PrincipalBar'[b] = [PrincipalBar EXCEPT ![a] = @ + n][b]
    <3> DEFINE old == Booked(s, b)
               new == Booked(s, b)'
               bar == PrincipalBar[b]
               d == IF b = a THEN n ELSE 0
    <3>1. old \in Int /\ bar \in Int /\ d \in Int /\ new = old + d
      BY <1>2, MovesInt
    <3>2. PrincipalBar'[b] = bar - old + new
      BY BooksMove
    <3>3. [PrincipalBar EXCEPT ![a] = @ + n][b] = IF b = a THEN bar + n ELSE bar
      BY DEF PrincipalBar
    <3>4. bar + d = IF b = a THEN bar + n ELSE bar
      BY <3>1
    <3> HIDE DEF old, new, bar, d
    <3> QED BY <3>1, <3>2, <3>3, <3>4
  <2>3. PrincipalBar' = [b \in AccountIds |-> PrincipalBar'[b]]
    BY DEF PrincipalBar
  <2>4. [PrincipalBar EXCEPT ![a] = @ + n]
            = [b \in AccountIds |-> [PrincipalBar EXCEPT ![a] = @ + n][b]]
    BY DEF PrincipalBar
  <2> QED BY <2>1, <2>3, <2>4
<1> QED BY <1>1, <1>2

\* The fees move by n.
LEMMA FeesShare ==
    ASSUME CustodyInv, TypeInv', NEW s, OffSlot(s), NEW n \in Int,
           BookedFees(s)' = BookedFees(s) + n
    PROVE  FeesBar' = FeesBar + n
<1> DEFINE old == BookedFees(s)
           new == BookedFees(s)'
           bar == FeesBar
<1>1. old \in Int /\ bar \in Int /\ new = old + n
  BY MovesInt
<1>2. FeesBar' = bar - old + new
  BY BooksMove
<1> HIDE DEF old, new, bar
<1>3. FeesBar' = bar + n
  BY <1>1, <1>2
<1> QED BY <1>3 DEF bar

\* ft_transfer_call: tokens of the sender are on their way in.
LEMMA StakeSends ==
    ASSUME CustodyInv, TypeInv', NEW s \in FreeSlots, NEW a \in AccountIds, NEW b, NEW p,
           NEW x \in Amounts, NEW tz, Stake(s, a, b, p, x, tz)
    PROVE  x \in 1 .. WalletsBar[a] /\ Ledger!Send(a, x)
<1>1. PICK r : r = [kind |-> "stake", status |-> "sent", account |-> b, sender |-> a,
                product |-> p, amount |-> x, timezone |-> tz, jars |-> NoJars]
  OBVIOUS
<1>2. Send(s, r) /\ UNCHANGED <<accounts, fee_amount>> /\ Transfer(a, Vault, x) /\ x <= tokens[a]
  BY <1>1 DEF Stake
<1>3. TypeInv /\ x \in Nat /\ x >= 1
  BY SweatJarAssumption DEF CustodyInv, LockInv
<1>4. OffSlot(s) /\ s \in DOMAIN receipts' /\ receipts'[s] = r /\ s \notin DOMAIN receipts
  BY <1>2, OneReceipt, SlotChanges DEF FreeSlots
<1>5. /\ \A c : StakeIn(r, c) = (IF c = a THEN x ELSE 0) /\ Payout(r, c) = 0
      /\ FeeKept(r) = 0 /\ FeeSent(r) = 0
  BY <1>1 DEF StakeIn, Payout, FeeKept, FeeSent, IsPayout
<1>6. (\A c : InTransit(s, c) = 0 /\ PaidOut(s, c) = 0) /\ FeeIn(s) = 0 /\ FeeOut(s) = 0
  BY <1>4, SlotStands
<1>7. /\ \A c : InTransit(s, c)' = (IF c = a THEN x ELSE 0) /\ PaidOut(s, c)' = 0
      /\ FeeIn(s)' = 0 /\ FeeOut(s)' = 0
  BY <1>4, <1>5, SlotStandsNext
<1>8. InboundBar' = [InboundBar EXCEPT ![a] = @ + x]
  <2>1. \A c \in AccountIds : InTransit(s, c)' = InTransit(s, c) + (IF c = a THEN x ELSE 0)
    BY <1>3, <1>6, <1>7
  <2> QED BY <1>3, <1>4, <2>1, OneShare
<1>9. UNCHANGED PrincipalBar
  <2>1. WorthKept
    BY <1>2, UnwrittenKept
  <2>2. ASSUME NEW c \in AccountIds PROVE Booked(s, c)' = Booked(s, c)
    <3>1. AccountPrincipal(c)' = AccountPrincipal(c)
      BY <2>1 DEF WorthKept
    <3> QED BY <1>6, <1>7, <3>1 DEF Booked
  <2> QED BY <1>4, <2>2, PartsStand
<1>10. UNCHANGED FeesBar
  <2>1. BookedFees(s)' = BookedFees(s)
    BY <1>2, <1>6, <1>7 DEF BookedFees
  <2> QED BY <1>4, <2>1, PartsStand
<1>11. /\ WalletsBar' = [WalletsBar EXCEPT ![a] = @ - x] /\ WalletsBar[a] = tokens[a]
       /\ tokens'[Vault] = tokens[Vault] + x /\ tokens[a] \in Nat
  BY <1>2, <1>3, TransferWallets
<1>12. x \in 1 .. WalletsBar[a]
  BY <1>2, <1>3, <1>11
<1> QED BY <1>8, <1>9, <1>10, <1>11, <1>12 DEF Ledger!Send

\* What is on its way in is at least the tokens of each deposit.
LEMMA InTransitPart ==
    ASSUME CustodyInv, NEW s, NEW a \in AccountIds
    PROVE  InTransit(s, a) \in Nat /\ InTransit(s, a) <= InboundBar[a] /\ InboundBar[a] \in Nat
<1>1. TypeInv /\ IsFiniteSet(DOMAIN receipts)
  BY DEF CustodyInv, LockInv
<1>2. InboundBar[a] \in Nat
  BY BooksNat
<1>3. CASE s \in StakesOf(a)
  <2> DEFINE S == StakesOf(a)
             f == [x \in S |-> Amount(receipts[x])]
  <2>1. S \subseteq DOMAIN receipts
    BY DEF StakesOf
  <2>2. IsFiniteSet(S)
    BY <1>1, <2>1, FS_Subset
  <2>3. \A x \in S : f[x] \in Nat
    BY <1>1, <2>1, ReceiptNat DEF TypeInv, ReceiptsBy
  <2>4. InboundBar[a] = SumFunctionOnSet(f, S)
    BY DEF InboundBar, SumOver, Total
  <2>5. InTransit(s, a) = f[s]
    BY <1>3 DEF InTransit
  <2> HIDE DEF f, S
  <2>6. s \in S
    BY <1>3 DEF S
  <2>7. f[s] <= SumFunctionOnSet(f, S)
    BY <2>2, <2>3, <2>6, SumTerm
  <2> QED BY <1>2, <2>3, <2>4, <2>5, <2>6, <2>7
<1>4. CASE s \notin StakesOf(a)
  <2>1. InTransit(s, a) = 0
    BY <1>4 DEF InTransit
  <2> QED BY <1>2, <2>1
<1> QED BY <1>3, <1>4

\* A deposit arrives or comes back: it is no longer on its way.
LEMMA StakeArrives ==
    ASSUME CustodyInv, TypeInv', NEW s \in DOMAIN receipts, receipts[s].kind = "stake",
           Consume(s), UNCHANGED fee_amount
    PROVE  LET r == receipts[s]
           IN  /\ r.sender \in AccountIds /\ r.amount \in 0 .. InboundBar[r.sender]
               /\ InboundBar' = [InboundBar EXCEPT ![r.sender] = @ - r.amount]
               /\ \A b : PaidOut(s, b) = 0 /\ PaidOut(s, b)' = 0
               /\ OffSlot(s) /\ UNCHANGED FeesBar
<1>1. PICK r : r = receipts[s]
  OBVIOUS
<1>2. PICK a : a = r.sender
  OBVIOUS
<1>3. PICK x : x = r.amount
  OBVIOUS
<1>4. IsStake(r)
  BY <1>1, ReceiptKinds DEF CustodyInv, LockInv
<1>5. a \in AccountIds /\ x \in Nat
  BY <1>2, <1>3, <1>4 DEF IsStake
<1>6. OffSlot(s) /\ s \notin DOMAIN receipts'
  BY OneReceipt, SlotChanges
<1>7. /\ \A c : InTransit(s, c) = (IF c = a THEN x ELSE 0) /\ PaidOut(s, c) = 0
      /\ FeeIn(s) = 0 /\ FeeOut(s) = 0
  <2>1. /\ \A c : StakeIn(r, c) = (IF c = a THEN x ELSE 0) /\ Payout(r, c) = 0
        /\ FeeKept(r) = 0 /\ FeeSent(r) = 0
    BY <1>1, <1>2, <1>3 DEF StakeIn, Payout, FeeKept, FeeSent, IsPayout
  <2> QED BY <1>1, <2>1, SlotStands
<1>8. (\A c : InTransit(s, c)' = 0 /\ PaidOut(s, c)' = 0) /\ FeeIn(s)' = 0 /\ FeeOut(s)' = 0
  BY <1>6, SlotStandsNext
<1>9. x \in 0 .. InboundBar[a]
  BY <1>5, <1>7, InTransitPart
<1>10. InboundBar' = [InboundBar EXCEPT ![a] = @ - x]
  <2>1. ASSUME NEW c \in AccountIds
        PROVE  InTransit(s, c)' = InTransit(s, c) + (IF c = a THEN -x ELSE 0)
    BY <1>5, <1>7, <1>8
  <2>2. -x \in Int
    BY <1>5
  <2>3. InboundBar' = [InboundBar EXCEPT ![a] = @ + (-x)]
    BY <1>5, <1>6, <2>1, <2>2, OneShare
  <2>4. InboundBar[a] + (-x) = InboundBar[a] - x
    BY <1>5, BooksNat
  <2> QED BY <2>3, <2>4
<1>11. UNCHANGED FeesBar
  <2>1. BookedFees(s)' = BookedFees(s)
    BY <1>7, <1>8 DEF BookedFees
  <2> QED BY <1>6, <2>1, PartsStand
<1> QED BY <1>1, <1>2, <1>3, <1>5, <1>6, <1>7, <1>8, <1>9, <1>10, <1>11

\* ft_resolve_transfer returns a refused deposit.
LEMMA RefundStakeReturns ==
    ASSUME CustodyInv, TypeInv', NEW s \in Slots, RefundStake(s)
    PROVE  \E a \in AccountIds : \E x \in 0 .. InboundBar[a] : Ledger!Return(a, x)
<1>1. PICK r : r = receipts[s]
  OBVIOUS
<1>2. /\ s \in DOMAIN receipts /\ r.kind = "stake" /\ Consume(s)
      /\ UNCHANGED <<accounts, fee_amount>>
      /\ Transfer(Vault, r.sender, Smaller(r.amount, tokens[Vault]))
  BY <1>1 DEF RefundStake, InFlight
<1>3. /\ r.sender \in AccountIds /\ r.amount \in 0 .. InboundBar[r.sender]
      /\ InboundBar' = [InboundBar EXCEPT ![r.sender] = @ - r.amount]
      /\ \A b : PaidOut(s, b) = 0 /\ PaidOut(s, b)' = 0
      /\ OffSlot(s) /\ UNCHANGED FeesBar
  BY <1>1, <1>2, StakeArrives
<1>4. PICK a \in AccountIds : a = r.sender
  BY <1>3
<1>5. PICK x \in 0 .. InboundBar[a] : x = r.amount
  BY <1>3, <1>4
<1>6. TypeInv /\ x \in Nat /\ tokens[Vault] \in Nat
  BY <1>5, BooksNat, SweatJarAssumption DEF CustodyInv, LockInv, TypeInv, Holders
<1>7. PICK y \in Nat : y = Smaller(x, tokens[Vault])
  BY <1>6 DEF Smaller
<1>8. /\ WalletsBar' = [WalletsBar EXCEPT ![a] = @ + y]
      /\ tokens'[Vault] = tokens[Vault] - y
  BY <1>2, <1>4, <1>5, <1>6, <1>7, TransferWallets
<1>9. UNCHANGED PrincipalBar
  <2>1. WorthKept
    BY <1>2, UnwrittenKept
  <2>2. ASSUME NEW c \in AccountIds PROVE Booked(s, c)' = Booked(s, c)
    <3>1. AccountPrincipal(c)' = AccountPrincipal(c)
      BY <2>1 DEF WorthKept
    <3> QED BY <1>3, <3>1 DEF Booked
  <2> QED BY <1>3, <2>2, PartsStand
<1>10. InboundBar' = [InboundBar EXCEPT ![a] = @ - x] /\ UNCHANGED FeesBar
  BY <1>3, <1>4, <1>5
<1>11. Ledger!Return(a, x)
  BY <1>7, <1>8, <1>9, <1>10 DEF Ledger!Return, Ledger!Smaller, Smaller
<1> QED BY <1>11

\* Custody sums up as the contract does.
LEMMA SameTotal == \A f : Ledger!Total(f) = Total(f)
BY DEF Ledger!Total, Ledger!SumFunctionOnSet, Ledger!FoldFunctionOnSet,
   Ledger!MapThenFoldSet, Total, SumFunctionOnSet, FoldFunctionOnSet, MapThenFoldSet

\* ft_on_transfer: the tokens become principal of the account they are for.
LEMMA OnStakeAccepts ==
    ASSUME CustodyInv, TypeInv', NEW s \in Slots, OnStake(s)
    PROVE  \E a \in AccountIds : \E share \in [AccountIds -> 0 .. InboundBar[a]] :
                Ledger!Accept(a, share)
<1>1. PICK r : r = receipts[s]
  OBVIOUS
<1> DEFINE target == StakeTarget(r)
           deposited == DepositTo(target, r.product, r.amount, now)
           after == UpdateJarCaches(deposited, {r.product}, now)
<1>2. /\ s \in DOMAIN receipts /\ r.kind = "stake" /\ Consume(s) /\ SetAccount(r.account, after)
      /\ UNCHANGED <<fee_amount, tokens>>
  BY <1>1 DEF OnStake, InFlight
<1>3. /\ r.sender \in AccountIds /\ r.amount \in 0 .. InboundBar[r.sender]
      /\ InboundBar' = [InboundBar EXCEPT ![r.sender] = @ - r.amount]
      /\ \A b : PaidOut(s, b) = 0 /\ PaidOut(s, b)' = 0
      /\ OffSlot(s) /\ UNCHANGED FeesBar
  BY <1>1, <1>2, StakeArrives
<1>4. PICK a \in AccountIds : a = r.sender
  BY <1>3
<1>5. PICK x \in 0 .. InboundBar[a] : x = r.amount
  BY <1>3, <1>4
<1>6. TypeInv /\ IsStake(r) /\ x \in Nat /\ now \in Nat
  BY <1>1, <1>2, <1>5, BooksNat, ReceiptKinds DEF CustodyInv, LockInv, TypeInv
<1>7. PICK c \in AccountIds : c = r.account
  BY <1>6 DEF IsStake
<1>8. /\ AccountBy(target, now) /\ target.jars = AccountOrNew(c).jars
      /\ r.product \in ProductIds
  BY <1>6, <1>7, StakeTargetType DEF IsStake
<1>9. Worth(target) = Worth(AccountOrNew(c)) /\ Worth(target) \in Nat
  <2> HIDE DEF target
  <2> QED BY <1>6, <1>8, LocksWorth, WorthNat
<1>10. AccountBy(deposited, now) /\ Worth(deposited) = Worth(target) + x
  <2> HIDE DEF target
  <2> QED BY <1>5, <1>6, <1>8, DepositToType, DepositWorth
<1>11. AccountBy(after, now) /\ Worth(after) = Worth(deposited)
  <2> HIDE DEF deposited
  <2>1. AccountBy(after, now) /\ SameJars(deposited, after)
    BY <1>6, <1>8, <1>10, UpdateJarCachesType
  <2> HIDE DEF after
  <2> QED BY <2>1, LocksWorth
<1>12. SetAccount(c, after)
  BY <1>2, <1>7
<1> HIDE DEF after, deposited, target
<1>13. /\ AccountPrincipal(c) \in Nat /\ AccountPrincipal(c)' = AccountPrincipal(c) + x
       /\ \A b : b # c => AccountPrincipal(b)' = AccountPrincipal(b)
  <2>1. /\ AccountPrincipal(c) = Worth(AccountOrNew(c)) /\ AccountPrincipal(c)' = Worth(after)
        /\ \A b : b # c => AccountPrincipal(b)' = AccountPrincipal(b)
    BY <1>6, <1>11, <1>12, AccountWritten
  <2> QED BY <1>9, <1>10, <1>11, <2>1
<1>14. PrincipalBar' = [PrincipalBar EXCEPT ![c] = @ + x]
  <2>1. ASSUME NEW b \in AccountIds
        PROVE  Booked(s, b)' = Booked(s, b) + (IF b = c THEN x ELSE 0)
    <3>1. Booked(s, b) = AccountPrincipal(b) - 0
      BY <1>3 DEF Booked
    <3>2. Booked(s, b)' = AccountPrincipal(b)' - 0
      BY <1>3 DEF Booked
    <3>3. AccountPrincipal(b) \in Nat /\ AccountPrincipal(b)' \in Nat
      BY <1>6, AccountPrincipalNat
    <3>4. AccountPrincipal(b)' = AccountPrincipal(b) + (IF b = c THEN x ELSE 0)
      BY <1>13, <3>3
    <3> QED BY <1>6, <3>1, <3>2, <3>3, <3>4
  <2>2. OffSlot(s) /\ x \in Int
    BY <1>3, <1>6
  <2> QED BY <2>1, <2>2, OneShare
<1> DEFINE share == [b \in AccountIds |-> IF b = c THEN x ELSE 0]
<1>15. share \in [AccountIds -> 0 .. InboundBar[a]]
  <2>1. x \in 0 .. InboundBar[a] /\ 0 \in 0 .. InboundBar[a]
    BY BooksNat
  <2> QED BY <2>1
<1>16. Total(share) = x
  BY <1>6, CustodyAssumption, TotalSingle
<1>17. PrincipalBar' = [b \in AccountIds |-> PrincipalBar[b] + share[b]]
  <2>1. \A b \in AccountIds :
            PrincipalBar[b] + share[b] = IF b = c THEN PrincipalBar[b] + x ELSE PrincipalBar[b]
    BY BooksNat
  <2> HIDE DEF share
  <2> QED BY <1>14, <2>1 DEF PrincipalBar
<1>18. InboundBar' = [InboundBar EXCEPT ![a] = @ - x]
  BY <1>3, <1>4, <1>5
<1>19. UNCHANGED <<WalletsBar, tokens[Vault]>>
  BY <1>2 DEF WalletsBar
<1> HIDE DEF share
<1>20. Ledger!Total(share) = Total(share)
  BY SameTotal
<1>21. Ledger!Accept(a, share)
  BY <1>3, <1>16, <1>17, <1>18, <1>19, <1>20 DEF Ledger!Accept
<1> QED BY <1>15, <1>21

\* The books are sound after a step, too.
LEMMA SoundNext ==
    ASSUME NEW a \in AccountIds
    PROVE  CustodyInv' => PrincipalBar'[a] \in Nat
<1>1. CustodyInv => PrincipalBar[a] \in Nat
  BY PrincipalCovered
<1>2. CustodyInv' => (PrincipalBar[a] \in Nat)'
  BY <1>1, PTL
<1> QED BY <1>2

\* The fees, too.
LEMMA FeesNext == CustodyInv' => FeesBar' \in Nat
<1>1. CustodyInv => FeesBar \in Nat
  BY BooksNat
<1>2. CustodyInv' => (FeesBar \in Nat)'
  BY <1>1, PTL
<1> QED BY <1>2

\* What the token's answer to a payout changes.
LEMMA Answered ==
    ASSUME CustodyInv, TypeInv', NEW s \in Slots, FtTransferSucceeds(s)
    PROVE  LET r == receipts[s]
           IN  /\ s \in DOMAIN receipts /\ r.status = "sent" /\ OffSlot(s)
               /\ r.kind \in {"withdraw", "restake", "claim", "fee"}
               /\ UNCHANGED <<accounts, fee_amount>>
               /\ r.amount \in 1 .. tokens[Vault] /\ Transfer(Vault, r.account, r.amount)
               /\ \A b : InTransit(s, b) = 0 /\ InTransit(s, b)' = 0
               /\ \A b : PaidOut(s, b) = 0 /\ PaidOut(s, b)'
                    = IF IsPayout(r) /\ r.account = b THEN Gross(r) ELSE 0
               /\ FeeIn(s) = 0 /\ FeeIn(s)' = IF IsPayout(r) THEN FeeOf(r) ELSE 0
               /\ FeeOut(s) = (IF r.kind = "fee" THEN r.amount ELSE 0) /\ FeeOut(s)' = 0
<1>1. PICK r : r = receipts[s]
  OBVIOUS
<1>2. PICK q : q = [r EXCEPT !.status = "succeeded"]
  OBVIOUS
<1>3. /\ s \in DOMAIN receipts /\ r.status = "sent" /\ r.kind # "stake"
      /\ receipts' = [receipts EXCEPT ![s].status = "succeeded"]
      /\ UNCHANGED <<accounts, fee_amount>>
      /\ r.amount > 0 /\ r.amount <= tokens[Vault] /\ Transfer(Vault, r.account, r.amount)
  BY <1>1 DEF FtTransferSucceeds
<1>4. OffSlot(s) /\ s \in DOMAIN receipts' /\ receipts'[s] = q
  BY <1>1, <1>2, <1>3, OneReceipt, SlotChanges
<1>5. /\ r.kind \in {"withdraw", "restake", "claim", "fee"}
      /\ \/ IsWithdrawal(r) \/ IsClaim(r) \/ IsRestake(r) \/ IsFee(r)
      /\ r.amount \in Nat
  BY <1>1, <1>3, ReceiptKinds DEF CustodyInv, LockInv
<1>6. /\ q.kind = r.kind /\ q.status = "succeeded" /\ q.amount = r.amount
      /\ q.account = r.account /\ q.jars = r.jars
      /\ r.kind = "restake" => q.fee = r.fee
  BY <1>2, <1>5 DEF IsWithdrawal, IsClaim, IsRestake, IsFee
<1>7. FeeOf(q) = FeeOf(r) /\ Gross(q) = Gross(r)
  <2>1. CASE r.kind = "withdraw"
    <3>1. /\ FeeOf(q) = Total([p \in DOMAIN q.jars |-> q.jars[p].fee])
          /\ FeeOf(r) = Total([p \in DOMAIN r.jars |-> r.jars[p].fee])
      BY <1>6, <2>1, FeeOfKinds
    <3>2. FeeOf(q) = FeeOf(r)
      BY <1>6, <3>1
    <3> QED BY <1>6, <3>2 DEF Gross
  <2>2. CASE r.kind = "restake"
    <3>1. FeeOf(q) = q.fee /\ FeeOf(r) = r.fee
      BY <1>6, <2>2, FeeOfKinds
    <3> QED BY <1>6, <2>2, <3>1 DEF Gross
  <2>3. CASE r.kind \notin {"withdraw", "restake"}
    <3>1. FeeOf(q) = 0 /\ FeeOf(r) = 0
      BY <1>6, <2>3, FeeOfKinds
    <3> QED BY <1>6, <3>1 DEF Gross
  <2> QED BY <2>1, <2>2, <2>3
<1>8. /\ \A b : StakeIn(r, b) = 0 /\ Payout(r, b) = 0
      /\ FeeKept(r) = 0 /\ FeeSent(r) = IF r.kind = "fee" THEN r.amount ELSE 0
  BY <1>3 DEF StakeIn, Payout, FeeKept, FeeSent
<1>9. /\ \A b : StakeIn(q, b) = 0
                /\ Payout(q, b) = IF IsPayout(r) /\ r.account = b THEN Gross(r) ELSE 0
      /\ FeeKept(q) = (IF IsPayout(r) THEN FeeOf(r) ELSE 0) /\ FeeSent(q) = 0
  <2>1. CASE IsPayout(r)
    <3>1. IsPayout(q)
      BY <1>6, <2>1 DEF IsPayout
    <3> QED BY <1>3, <1>6, <1>7, <2>1, <3>1 DEF StakeIn, Payout, FeeKept, FeeSent
  <2>2. CASE ~IsPayout(r)
    <3>1. ~IsPayout(q)
      BY <1>6, <2>2 DEF IsPayout
    <3> QED BY <1>3, <1>6, <2>2, <3>1 DEF StakeIn, Payout, FeeKept, FeeSent
  <2> QED BY <2>1, <2>2
<1>10. tokens[Vault] \in Nat
  BY SweatJarAssumption DEF CustodyInv, LockInv, TypeInv, Holders
<1>11. r.amount \in 1 .. tokens[Vault]
  BY <1>3, <1>5, <1>10
<1>12. /\ \A b : InTransit(s, b) = 0 /\ PaidOut(s, b) = 0
       /\ FeeIn(s) = 0 /\ FeeOut(s) = IF r.kind = "fee" THEN r.amount ELSE 0
  BY <1>1, <1>3, <1>8, SlotStands
<1>13. /\ \A b : InTransit(s, b)' = 0 /\ PaidOut(s, b)'
                    = IF IsPayout(r) /\ r.account = b THEN Gross(r) ELSE 0
       /\ FeeIn(s)' = (IF IsPayout(r) THEN FeeOf(r) ELSE 0) /\ FeeOut(s)' = 0
  BY <1>4, <1>9, SlotStandsNext
<1> QED BY <1>1, <1>3, <1>4, <1>5, <1>11, <1>12, <1>13

\* The token pays a withdrawal, or the part of a restake that is paid out:
\* the owner's principal shrinks by the amount and the fee.
LEMMA PayoutWithdraws ==
    ASSUME CustodyInv, CustodyInv', NEW s \in Slots, FtTransferSucceeds(s), IsPayout(receipts[s])
    PROVE  \E a \in AccountIds : \E x \in 1 .. PrincipalBar[a] : \E fee \in 0 .. x - 1 :
                Ledger!Withdraw(a, x, fee)
<1>1. PICK r : r = receipts[s]
  OBVIOUS
<1>2. TypeInv /\ TypeInv' /\ IsPayout(r)
  BY <1>1 DEF CustodyInv, LockInv
<1>3. /\ s \in DOMAIN receipts /\ OffSlot(s) /\ UNCHANGED <<accounts, fee_amount>>
      /\ r.amount \in 1 .. tokens[Vault] /\ Transfer(Vault, r.account, r.amount)
      /\ \A b : InTransit(s, b) = 0 /\ InTransit(s, b)' = 0
      /\ \A b : PaidOut(s, b) = 0
                /\ PaidOut(s, b)' = IF r.account = b THEN Gross(r) ELSE 0
      /\ FeeIn(s) = 0 /\ FeeIn(s)' = FeeOf(r) /\ FeeOut(s) = 0 /\ FeeOut(s)' = 0
  BY <1>1, <1>2, Answered DEF IsPayout
<1>4. PICK a \in AccountIds : a = r.account
  BY <1>1, <1>2, <1>3, ReceiptKinds DEF IsPayout
<1>5. tokens[Vault] \in Nat /\ fee_amount \in Nat
  BY <1>2, TransferWallets DEF TypeInv
<1>6. PICK y \in 1 .. tokens[Vault] : y = r.amount
  BY <1>3
<1>7. PICK fee \in Nat : fee = FeeOf(r)
  BY <1>1, <1>2, <1>3, ReceiptNat DEF TypeInv, ReceiptsBy
<1>8. PICK x \in Nat : x = Gross(r) /\ x = y + fee /\ y = x - fee /\ x >= 1 /\ fee \in 0 .. x - 1
  <2>1. Gross(r) = y + fee
    BY <1>6, <1>7 DEF Gross
  <2> QED BY <1>5, <2>1
<1>9. UNCHANGED InboundBar
  BY <1>2, <1>3, PartsStand
<1>10. PrincipalBar' = [PrincipalBar EXCEPT ![a] = @ - x]
  <2>1. ASSUME NEW b \in AccountIds
        PROVE  Booked(s, b)' = Booked(s, b) + (IF b = a THEN -x ELSE 0)
    <3>1. Booked(s, b) = AccountPrincipal(b) - 0
      BY <1>3 DEF Booked
    <3>2. Booked(s, b)' = AccountPrincipal(b)' - (IF a = b THEN x ELSE 0)
      BY <1>3, <1>4, <1>8 DEF Booked
    <3>3. AccountPrincipal(b)' = AccountPrincipal(b)
      BY <1>3, UnwrittenKept DEF WorthKept
    <3>4. AccountPrincipal(b) \in Nat
      BY BooksNat
    <3> QED BY <3>1, <3>2, <3>3, <3>4
  <2>2. -x \in Int
    OBVIOUS
  <2>3. PrincipalBar' = [PrincipalBar EXCEPT ![a] = @ + (-x)]
    BY <1>2, <1>3, <2>1, <2>2, OneShare
  <2>4. PrincipalBar[a] + (-x) = PrincipalBar[a] - x
    BY BooksNat
  <2> QED BY <2>3, <2>4
<1>11. x \in 1 .. PrincipalBar[a]
  <2>1. PrincipalBar'[a] \in Nat
    BY SoundNext
  <2>2. PrincipalBar'[a] = PrincipalBar[a] - x
    BY <1>10 DEF PrincipalBar
  <2>3. PrincipalBar[a] \in Int
    BY BooksNat
  <2> QED BY <1>8, <2>1, <2>2, <2>3
<1>12. FeesBar' = FeesBar + fee
  <2>1. BookedFees(s) = fee_amount + 0 + 0
    BY <1>3 DEF BookedFees
  <2>2. BookedFees(s)' = fee_amount + fee + 0
    BY <1>3, <1>7 DEF BookedFees
  <2>3. BookedFees(s)' = BookedFees(s) + fee
    BY <1>5, <2>1, <2>2
  <2>4. fee \in Int
    OBVIOUS
  <2> QED BY <1>2, <1>3, <2>3, <2>4, FeesShare
<1>13. /\ WalletsBar' = [WalletsBar EXCEPT ![a] = @ + y]
       /\ tokens'[Vault] = tokens[Vault] - y
  BY <1>2, <1>3, <1>4, <1>5, <1>6, TransferWallets
<1>14. y <= tokens[Vault]
  BY <1>5
<1>15. Ledger!Withdraw(a, x, fee)
  BY <1>8, <1>9, <1>10, <1>12, <1>13, <1>14 DEF Ledger!Withdraw
<1> QED BY <1>8, <1>11, <1>15

\* The token pays a claim: interest moves from the reserve to the wallet.
LEMMA PayoutInterest ==
    ASSUME CustodyInv, CustodyInv', NEW s \in Slots, FtTransferSucceeds(s),
           receipts[s].kind = "claim"
    PROVE  \E a \in AccountIds : \E x \in 1 .. tokens[Vault] : Ledger!PayInterest(a, x)
<1>1. PICK r : r = receipts[s]
  OBVIOUS
<1>2. TypeInv /\ TypeInv' /\ ~IsPayout(r) /\ r.kind = "claim"
  BY <1>1 DEF CustodyInv, LockInv, IsPayout
<1>3. /\ s \in DOMAIN receipts /\ OffSlot(s) /\ UNCHANGED <<accounts, fee_amount>>
      /\ r.amount \in 1 .. tokens[Vault] /\ Transfer(Vault, r.account, r.amount)
      /\ \A b : InTransit(s, b) = 0 /\ InTransit(s, b)' = 0
      /\ \A b : PaidOut(s, b) = 0 /\ PaidOut(s, b)' = 0
      /\ FeeIn(s) = 0 /\ FeeIn(s)' = 0 /\ FeeOut(s) = 0 /\ FeeOut(s)' = 0
  BY <1>1, <1>2, Answered
<1>4. PICK a \in AccountIds : a = r.account
  BY <1>1, <1>2, <1>3, ReceiptKinds
<1>5. PICK x \in 1 .. tokens[Vault] : x = r.amount
  BY <1>3
<1>6. tokens[Vault] \in Nat /\ x \in Nat
  BY <1>2, TransferWallets
<1>7. ASSUME NEW b \in AccountIds PROVE Booked(s, b)' = Booked(s, b)
  <2>1. AccountPrincipal(b)' = AccountPrincipal(b)
    BY <1>3, UnwrittenKept DEF WorthKept
  <2> QED BY <1>3, <2>1 DEF Booked
<1>8. BookedFees(s)' = BookedFees(s)
  BY <1>3 DEF BookedFees
<1>9. UNCHANGED <<InboundBar, PrincipalBar, FeesBar>>
  BY <1>2, <1>3, <1>7, <1>8, PartsStand
<1>10. /\ WalletsBar' = [WalletsBar EXCEPT ![a] = @ + x]
       /\ tokens'[Vault] = tokens[Vault] - x
  BY <1>2, <1>3, <1>4, <1>5, <1>6, TransferWallets
<1>11. Ledger!PayInterest(a, x)
  BY <1>9, <1>10 DEF Ledger!PayInterest
<1> QED BY <1>11

\* The token pays the collector.
LEMMA PayoutFees ==
    ASSUME CustodyInv, CustodyInv', NEW s \in Slots, FtTransferSucceeds(s),
           receipts[s].kind = "fee"
    PROVE  \E x \in 1 .. FeesBar : Ledger!PayFees(FeeAccount, x)
<1>1. PICK r : r = receipts[s]
  OBVIOUS
<1>2. TypeInv /\ TypeInv' /\ ~IsPayout(r) /\ r.kind = "fee"
  BY <1>1 DEF CustodyInv, LockInv, IsPayout
<1>3. /\ s \in DOMAIN receipts /\ OffSlot(s) /\ UNCHANGED <<accounts, fee_amount>>
      /\ r.amount \in 1 .. tokens[Vault] /\ Transfer(Vault, r.account, r.amount)
      /\ \A b : InTransit(s, b) = 0 /\ InTransit(s, b)' = 0
      /\ \A b : PaidOut(s, b) = 0 /\ PaidOut(s, b)' = 0
      /\ FeeIn(s) = 0 /\ FeeIn(s)' = 0 /\ FeeOut(s) = r.amount /\ FeeOut(s)' = 0
  BY <1>1, <1>2, Answered
<1>4. r.account = FeeAccount
  BY <1>1, <1>2, <1>3, ReceiptKinds DEF IsFee
<1>5. PICK x \in 1 .. tokens[Vault] : x = r.amount
  BY <1>3
<1>6. tokens[Vault] \in Nat /\ x \in Nat /\ x >= 1 /\ x <= tokens[Vault] /\ fee_amount \in Nat
  <2>1. tokens[Vault] \in Nat /\ fee_amount \in Nat
    BY <1>2, TransferWallets DEF TypeInv
  <2> QED BY <2>1
<1>7. ASSUME NEW b \in AccountIds PROVE Booked(s, b)' = Booked(s, b)
  <2>1. AccountPrincipal(b)' = AccountPrincipal(b)
    BY <1>3, UnwrittenKept DEF WorthKept
  <2> QED BY <1>3, <2>1 DEF Booked
<1>8. UNCHANGED <<InboundBar, PrincipalBar>>
  BY <1>2, <1>3, <1>7, PartsStand
<1>9. FeesBar' = FeesBar - x /\ FeesBar \in Nat
  <2>1. BookedFees(s) = fee_amount + 0 + x
    BY <1>3, <1>5 DEF BookedFees
  <2>2. BookedFees(s)' = fee_amount + 0 + 0
    BY <1>3 DEF BookedFees
  <2>3. BookedFees(s)' = BookedFees(s) + (-x) /\ -x \in Int
    BY <1>6, <2>1, <2>2
  <2>4. FeesBar' = FeesBar + (-x)
    BY <1>2, <1>3, <2>3, FeesShare
  <2>5. FeesBar \in Nat
    BY BooksNat
  <2> QED BY <1>6, <2>4, <2>5
<1>10. x \in 1 .. FeesBar
  <2>1. FeesBar' \in Nat
    BY FeesNext
  <2> QED BY <1>6, <1>9, <2>1
<1>11. /\ WalletsBar' = [WalletsBar EXCEPT ![FeeAccount] = @ + x]
       /\ tokens'[Vault] = tokens[Vault] - x
  BY <1>2, <1>3, <1>4, <1>5, <1>6, TransferWallets
<1>12. Ledger!PayFees(FeeAccount, x)
  BY <1>6, <1>8, <1>9, <1>11 DEF Ledger!PayFees
<1> QED BY <1>10, <1>12

-----------------------------------------------------------------------------
(* The refinement. *)

\* The contract starts as a custodian of nothing.
LEMMA CustodyInit == Init => Ledger!Init
<1> SUFFICES ASSUME Init PROVE Ledger!Init
  OBVIOUS
<1>1. /\ DOMAIN receipts = {} /\ DOMAIN accounts = {} /\ fee_amount = 0
      /\ tokens = InitialTokens
  BY DEF Init, EmptyMap
<1>2. /\ Unbooked = {} /\ FeesUnpaid = {} /\ \A a : StakesOf(a) = {}
  BY <1>1 DEF Unbooked, FeesUnpaid, StakesOf
<1>3. /\ SumOver({}, Amount) = 0 /\ SumOver({}, Gross) = 0 /\ SumOver({}, FeeOf) = 0
  BY SumEmpty DEF SumOver, Total
<1>4. InboundBar = [a \in AccountIds |-> 0]
  BY <1>2, <1>3 DEF InboundBar
<1>5. PrincipalBar = [a \in AccountIds |-> 0]
  <2>1. ASSUME NEW a \in AccountIds PROVE PrincipalBar[a] = 0
    <3>1. {s \in Unbooked : receipts[s].account = a} = {}
      BY <1>2
    <3>2. AccountPrincipal(a) = 0
      BY <1>1 DEF AccountPrincipal
    <3> QED BY <1>3, <3>1, <3>2 DEF PrincipalBar
  <2>2. PrincipalBar = [a \in AccountIds |-> PrincipalBar[a]]
    BY DEF PrincipalBar
  <2> QED BY <2>1, <2>2
<1>6. FeesBar = 0
  BY <1>1, <1>2, <1>3 DEF FeesBar
<1>7. WalletsBar = [h \in AccountIds \cup {FeeAccount} |-> InitialTokens[h]]
  BY <1>1 DEF WalletsBar
<1> QED BY <1>1, <1>4, <1>5, <1>6, <1>7 DEF Ledger!Init

\* Custody stands still while the books do.
LEMMA BooksCustody == UNCHANGED Books => UNCHANGED Ledger!custody
BY DEF Books, Ledger!custody

\* Answers of the token.
LEMMA TokenSteps ==
    ASSUME CustodyInv, CustodyInv', NEW s \in Slots, TokenReceipt(s)
    PROVE  [Ledger!Next]_(Ledger!custody)
<1>1. TypeInv /\ TypeInv'
  BY DEF CustodyInv, LockInv
<1>2. CASE FtTransferSucceeds(s)
  <2>1. IsPayout(receipts[s]) \/ receipts[s].kind = "claim" \/ receipts[s].kind = "fee"
    BY <1>1, <1>2, Answered DEF IsPayout
  <2>2. CASE IsPayout(receipts[s])
    BY <1>2, <2>2, PayoutWithdraws DEF Ledger!Next
  <2>3. CASE receipts[s].kind = "claim"
    BY <1>2, <2>3, PayoutInterest DEF Ledger!Next
  <2>4. CASE receipts[s].kind = "fee"
    <3> DEFINE W == [h \in AccountIds \cup {FeeAccount} |-> InitialTokens[h]]
    <3>1. FeeAccount \in DOMAIN W \ AccountIds
      BY SweatJarAssumption
    <3> QED BY <1>2, <2>4, <3>1, PayoutFees DEF Ledger!Next
  <2> QED BY <2>1, <2>2, <2>3, <2>4
<1>3. CASE FtTransferFails(s)
  BY <1>1, <1>3, FailedBooks, BooksCustody
<1>4. CASE RefundStake(s)
  <2> PICK a \in AccountIds : \E x \in 0 .. InboundBar[a] : Ledger!Return(a, x)
    BY <1>1, <1>4, RefundStakeReturns
  <2> PICK x \in 0 .. InboundBar[a] : Ledger!Return(a, x)
    OBVIOUS
  <2>1. CASE x = 0
    <3>1. Ledger!Smaller(0, tokens[Vault]) = 0
      BY <1>1, SweatJarAssumption DEF Ledger!Smaller, TypeInv, Holders
    <3>2. /\ WalletsBar' = [WalletsBar EXCEPT ![a] = @ + 0]
          /\ tokens'[Vault] = tokens[Vault] - 0
          /\ InboundBar' = [InboundBar EXCEPT ![a] = @ - 0]
          /\ UNCHANGED <<PrincipalBar, FeesBar>>
      BY <2>1, <3>1 DEF Ledger!Return
    <3>3. WalletsBar[a] \in Nat /\ InboundBar[a] \in Nat /\ tokens[Vault] \in Nat
      BY <1>1, BooksNat, TransferWallets
    <3>4. WalletsBar[a] + 0 = WalletsBar[a] /\ InboundBar[a] - 0 = InboundBar[a]
          /\ tokens[Vault] - 0 = tokens[Vault]
      BY <3>3
    <3>5. /\ [WalletsBar EXCEPT ![a] = WalletsBar[a]] = WalletsBar
          /\ [InboundBar EXCEPT ![a] = InboundBar[a]] = InboundBar
      BY DEF WalletsBar, InboundBar
    <3>6. UNCHANGED Books
      BY <3>2, <3>4, <3>5 DEF Books
    <3> QED BY <3>6, BooksCustody
  <2>2. CASE x # 0
    <3>1. x \in 1 .. InboundBar[a]
      BY <2>2, BooksNat
    <3> QED BY <3>1 DEF Ledger!Next
  <2> QED BY <2>1, <2>2
<1> QED BY <1>2, <1>3, <1>4 DEF TokenReceipt

\* Callbacks, and ft_on_transfer.
LEMMA CallbackSteps ==
    ASSUME CustodyInv, CustodyInv', NEW s \in Slots, ContractReceipt(s)
    PROVE  [Ledger!Next]_(Ledger!custody)
<1>1. TypeInv'
  BY DEF CustodyInv, LockInv
<1>2. CASE OnStake(s)
  BY <1>1, <1>2, OnStakeAccepts DEF Ledger!Next
<1>3. CASE OnStakePanics(s) \/ AfterTransferRemainder(s) \/ PayoutReceipt(s)
  <2>1. UNCHANGED Books
    BY <1>1, <1>3, FailedBooks, AfterTransferRemainderBooks, AfterWithdrawBooks,
       AfterFailureBooks, AfterClaimBooks, AfterFailedClaimBooks, AfterFeeBooks,
       CallbackPanicsBooks DEF PayoutReceipt
  <2> QED BY <2>1, BooksCustody
<1> QED BY <1>2, <1>3 DEF ContractReceipt

\* Calls of users.
LEMMA UserSteps ==
    ASSUME CustodyInv, CustodyInv', NEW s \in FreeSlots, NEW a \in AccountIds, UserCall(s, a)
    PROVE  [Ledger!Next]_(Ledger!custody)
<1>1. TypeInv'
  BY DEF CustodyInv, LockInv
<1>2. CASE \E b \in AccountIds, p \in ProductIds, x \in Amounts, tz \in Offered :
                Stake(s, a, b, p, x, tz)
  BY <1>1, <1>2, StakeSends DEF Ledger!Next
<1>3. CASE PayoutCall(s, a)
  <2>1. UNCHANGED Books
    BY <1>1, <1>3, WithdrawBooks, WithdrawAllBooks, ClaimTotalBooks DEF PayoutCall
  <2> QED BY <2>1, BooksCustody
<1>4. CASE \E q \in ProductIds, x \in Amounts, tz \in Offered :
                \/ \E p \in ProductIds : Restake(s, a, p, q, x, tz)
                \/ RestakeAll(s, a, q, x, tz)
  <2>1. UNCHANGED Books
    BY <1>1, <1>4, RestakeBooks
  <2> QED BY <2>1, BooksCustody
<1> QED BY <1>2, <1>3, <1>4 DEF UserCall

\* Every step is a step of Custody or does not show.
LEMMA CustodyNext ==
    ASSUME ~MaintainerUnlocks, CustodyInv, [Next]_vars
    PROVE  [Ledger!Next]_(Ledger!custody)
<1>1. CustodyInv' /\ TypeInv'
  BY CustodyInvNext DEF CustodyInv, LockInv
<1>2. CASE \E s \in Slots : TokenReceipt(s) \/ ContractReceipt(s)
  BY <1>1, <1>2, TokenSteps, CallbackSteps
<1>3. CASE \E s \in FreeSlots, a \in AccountIds : UserCall(s, a)
  BY <1>1, <1>3, UserSteps
<1>4. CASE \E s \in FreeSlots : WithdrawFee(s)
  BY <1>1, <1>4, WithdrawFeeBooks, BooksCustody
<1>5. CASE \E a \in AccountIds : OperatorCall(a)
  BY <1>1, <1>5, OperatorBooks, BooksCustody
<1>6. CASE (\E p \in Managed, e \in BOOLEAN : SetEnabled(p, e)) \/ Tick \/ UNCHANGED vars
  <2>1. UNCHANGED <<accounts, receipts, fee_amount, tokens>>
    BY <1>6 DEF SetEnabled, Tick, vars
  <2> QED BY <1>1, <2>1, UnwrittenBooks, BooksCustody
<1> QED BY <1>2, <1>3, <1>4, <1>5, <1>6 DEF Next

\* The contract implements the custodian, for any accounts, products and
\* number of transfers in flight: whatever the order of calls, answers of the
\* token and callbacks, principal leaves the jars once and only into the wallet
\* of its owner, less the fee. The one thing this rests on is that no maintainer
\* calls unlock_jars_for_account, which may let the same deposits be paid twice.
THEOREM CustodyImplemented ==
    ASSUME ~MaintainerUnlocks
    PROVE  Spec => ImplementsCustody
<1>1. Init => Ledger!Init
  BY CustodyInit
<1>2. Init => CustodyInv
  BY CustodyInvInit
<1>3. CustodyInv /\ [Next]_vars => CustodyInv'
  BY CustodyInvNext
<1>4. CustodyInv /\ [Next]_vars => [Ledger!Next]_(Ledger!custody)
  BY CustodyNext
<1> QED BY <1>1, <1>2, <1>3, <1>4, PTL DEF Spec, ImplementsCustody, Ledger!Spec
=============================================================================
