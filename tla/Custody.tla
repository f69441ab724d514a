------------------------------- MODULE Custody -------------------------------
(***************************************************************************)
(* What the contract is to its users: a custodian. Each holder has a       *)
(* wallet at the token, tokens on the way into custody, and principal in   *)
(* custody; the custodian holds them all in one balance, with the fees it  *)
(* took and a reserve it pays interest from. Principal leaves custody only *)
(* into the wallet of the one whose it is, less a fee, and only interest   *)
(* moves the reserve. Nothing makes sure that the reserve covers the       *)
(* interest: the balance may fall below what it owes, and then payouts     *)
(* live off what others deposited.                                         *)
(***************************************************************************)
EXTENDS Collections

CONSTANTS AccountIds, Wallets, Reserve

VARIABLES wallets,      \* tokens outside, of the accounts and the fee account
          inbound,      \* tokens sent and not yet accepted
          principal,    \* tokens in custody
          fees,         \* withdrawal fees not paid out
          held          \* all the tokens the custodian holds

custody == <<wallets, inbound, principal, fees, held>>

Init ==
    /\ wallets = Wallets
    /\ inbound = [a \in AccountIds |-> 0]
    /\ principal = [a \in AccountIds |-> 0]
    /\ fees = 0
    /\ held = Reserve

Send(a, x) ==
    /\ wallets' = [wallets EXCEPT ![a] = @ - x]
    /\ held' = held + x
    /\ inbound' = [inbound EXCEPT ![a] = @ + x]
    /\ UNCHANGED <<principal, fees>>

\* Accepted tokens are shared out: one deposit has one share.
Accept(a, share) ==
    /\ inbound' = [inbound EXCEPT ![a] = @ - Total(share)]
    /\ principal' = [b \in AccountIds |-> principal[b] + share[b]]
    /\ UNCHANGED <<wallets, fees, held>>

\* A refused deposit comes back, all of it unless the custodian holds less;
\* then interest was paid from what others deposited.
Return(a, x) ==
    LET y == Smaller(x, held)
    IN  /\ wallets' = [wallets EXCEPT ![a] = @ + y]
        /\ held' = held - y
        /\ inbound' = [inbound EXCEPT ![a] = @ - x]
        /\ UNCHANGED <<principal, fees>>

Withdraw(a, x, fee) ==
    /\ x - fee <= held
    /\ wallets' = [wallets EXCEPT ![a] = @ + (x - fee)]
    /\ held' = held - (x - fee)
    /\ principal' = [principal EXCEPT ![a] = @ - x]
    /\ fees' = fees + fee
    /\ UNCHANGED inbound

PayInterest(a, x) ==
    /\ wallets' = [wallets EXCEPT ![a] = @ + x]
    /\ held' = held - x
    /\ UNCHANGED <<inbound, principal, fees>>

PayFees(collector, x) ==
    /\ x <= held
    /\ wallets' = [wallets EXCEPT ![collector] = @ + x]
    /\ held' = held - x
    /\ fees' = fees - x
    /\ UNCHANGED <<inbound, principal>>

Next ==
    \/ \E a \in AccountIds : \E x \in 1 .. wallets[a] : Send(a, x)
    \/ \E a \in AccountIds : \E share \in [AccountIds -> 0 .. inbound[a]] : Accept(a, share)
    \/ \E a \in AccountIds : \E x \in 1 .. inbound[a] : Return(a, x)
    \/ \E a \in AccountIds : \E x \in 1 .. principal[a] : \E fee \in 0 .. x - 1 :
            Withdraw(a, x, fee)
    \/ \E a \in AccountIds : \E x \in 1 .. held : PayInterest(a, x)
    \/ \E c \in DOMAIN Wallets \ AccountIds : \E x \in 1 .. fees : PayFees(c, x)

Spec == Init /\ [][Next]_custody
=============================================================================
