----------------------------- MODULE MCCheckout -----------------------------
(***************************************************************************)
(* Small shops for TLC: whose orders there are, how much of the product    *)
(* each takes, and which handlers the environment calls.                   *)
(***************************************************************************)
EXTENDS Checkout, TLC

CONSTANTS u1, u2, o1, o2

\* One customer: every order is u1's.  Two customers: o1 is u1's, o2 is u2's.
OneOwner == [o \in Orders |-> u1]
TwoOwners == [o \in Orders |-> IF o = o1 THEN u1 ELSE u2]

UnitEach == [o \in Orders |-> 1]
TwoOfSecond == [o \in Orders |-> IF o = o2 THEN 2 ELSE 1]

Online == {"createFromCard", "createPayment", "verifyPayment", "userCancel", "expire"}
OnlineAndCancel == Online \cup {"cancelOrder"}
CardToCard == {"createFromCard", "initiate", "uploadReceipt", "approve", "reject"}
Everything ==
  OnlineAndCancel \cup CardToCard
    \cup {"awaitingPayment", "unlockStuck", "addItem", "getMyCard", "lock", "cleanup"}

\* Requests, jobs and payment ids are interchangeable.
Interchangeable ==
  Permutations(Sessions) \cup Permutations(Authorities) \cup Permutations(Transfers)

=============================================================================
