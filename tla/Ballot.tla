------------------------------- MODULE Ballot -------------------------------
(***************************************************************************)
(* What voting promises (requirements/02-user-flows.md, section Voting):   *)
(* a recruiter votes on a profile at most once; the vote counts for the    *)
(* profile and is rewarded, both once.                                     *)
(***************************************************************************)
EXTENDS Integers

CONSTANTS Recruiters, Candidates

VARIABLES
  ballots,   \* who has voted on whom
  tally,     \* voters of each candidate
  rewarded   \* rewards of each recruiter

vars == <<ballots, tally, rewarded>>

Init ==
  /\ ballots = {}
  /\ tally = [c \in Candidates |-> 0]
  /\ rewarded = [r \in Recruiters |-> 0]

Vote(r, c) ==
  /\ <<r, c>> \notin ballots
  /\ ballots' = ballots \cup {<<r, c>>}
  /\ tally' = [tally EXCEPT ![c] = @ + 1]
  /\ rewarded' = [rewarded EXCEPT ![r] = @ + 1]

Next == \E r \in Recruiters, c \in Candidates : Vote(r, c)

Spec == Init /\ [][Next]_vars
=============================================================================
