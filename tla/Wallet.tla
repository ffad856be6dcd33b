------------------------------- MODULE Wallet -------------------------------
(***************************************************************************)
(* What the credit economy promises (requirements/02-user-flows.md, section *)
(* Credits), with every operation in one step: each recruiter has one free *)
(* lookup a day, a further one takes a credit off the balance, rewards and *)
(* purchases put credits on it, a checkout is credited once, and every     *)
(* movement of the balance is booked.                                      *)
(***************************************************************************)
EXTENDS Integers

CONSTANTS Recruiters, Checkouts, Quantity

VARIABLES
  balance,   \* credits of each recruiter
  earned,    \* booked in favour of each recruiter
  spent,     \* booked against each recruiter
  freeLeft,  \* recruiters whose free lookup of the day is still to be had
  bought     \* checkouts that have been credited

vars == <<balance, earned, spent, freeLeft, bought>>

Init ==
  /\ balance = [r \in Recruiters |-> 0]
  /\ earned = [r \in Recruiters |-> 0]
  /\ spent = [r \in Recruiters |-> 0]
  /\ freeLeft = Recruiters
  /\ bought = {}

Receive(r, n) ==
  /\ balance' = [balance EXCEPT ![r] = @ + n]
  /\ earned' = [earned EXCEPT ![r] = @ + n]

FreeLookup(r) ==
  /\ r \in freeLeft
  /\ freeLeft' = freeLeft \ {r}
  /\ UNCHANGED <<balance, earned, spent, bought>>

PaidLookup(r) ==
  /\ r \notin freeLeft
  /\ balance[r] > 0
  /\ balance' = [balance EXCEPT ![r] = @ - 1]
  /\ spent' = [spent EXCEPT ![r] = @ + 1]
  /\ UNCHANGED <<earned, freeLeft, bought>>

Reward(r, n) ==
  /\ Receive(r, n)
  /\ UNCHANGED <<spent, freeLeft, bought>>

Purchase(r, c) ==
  /\ c \notin bought
  /\ bought' = bought \cup {c}
  /\ Receive(r, Quantity[c])
  /\ UNCHANGED <<spent, freeLeft>>

Midnight ==
  /\ freeLeft' = Recruiters
  /\ UNCHANGED <<balance, earned, spent, bought>>

Next ==
  \/ \E r \in Recruiters : FreeLookup(r) \/ PaidLookup(r)
  \/ \E r \in Recruiters, n \in {1, 2} : Reward(r, n)
  \/ \E r \in Recruiters, c \in Checkouts : Purchase(r, c)
  \/ Midnight

Spec == Init /\ [][Next]_vars
=============================================================================
