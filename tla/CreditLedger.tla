---------------------------- MODULE CreditLedger ----------------------------
(***************************************************************************)
(* What ability scoring promises about the score of each ability: a ledger *)
(* with one credit per achievement record.  A record that has no credit    *)
(* can be credited; the record credited last can have its credit replaced; *)
(* nothing else moves the balance.  One assessment, which is of one record,*)
(* may move the ledgers of several abilities together.                     *)
(***************************************************************************)
EXTENDS Integers

CONSTANTS Records, Dims, Gains

VARIABLES
  credit,    \* credit[d][r]: what record r counts in ability d, 0 if nothing
  balance,   \* balance[d]: the score of ability d
  newest     \* newest[d]: the record credited last in d, as a set

ledger == <<credit, balance, newest>>

Init ==
  /\ credit = [d \in Dims |-> [r \in Records |-> 0]]
  /\ balance = [d \in Dims |-> 0]
  /\ newest = [d \in Dims |-> {}]

\* A record is credited for the first time, or it is the one credited last.
MayMove(d, r) == credit[d][r] = 0 \/ r \in newest[d]

\* The new credit replaces the old one, it is not added to it.
Rebalanced(d, r, gain) == balance[d] - credit[d][r] + gain

\* Record r gets the credit gains[d] in every ability d its assessment moves.
Move(r, gains) ==
  LET moved == DOMAIN gains
  IN  /\ \A d \in moved : MayMove(d, r)
      /\ credit' = [d \in Dims |-> IF d \in moved
                      THEN [credit[d] EXCEPT ![r] = gains[d]] ELSE credit[d]]
      /\ balance' = [d \in Dims |-> IF d \in moved
                       THEN Rebalanced(d, r, gains[d]) ELSE balance[d]]
      /\ newest' = [d \in Dims |-> IF d \in moved THEN {r} ELSE newest[d]]

Next == \E r \in Records, D \in SUBSET Dims :
          \E gains \in [D -> Gains] : Move(r, gains)

Spec == Init /\ [][Next]_ledger

=============================================================================
