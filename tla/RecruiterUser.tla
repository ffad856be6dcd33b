--------------------------- MODULE RecruiterUser ---------------------------
(***************************************************************************)
(* The row of table recruiter_user and the methods of the model class that *)
(* read or change it (src/apps/accounts/models.py).  A row held in memory  *)
(* by a request and the row stored in the database are values of the same  *)
(* set, Rows.  A method changes the row in memory; save(update_fields=...) *)
(* writes the named fields, with the values the row has in memory, over    *)
(* whatever the stored row holds by then (Saved).                          *)
(*                                                                         *)
(* Days are numbered from 1; NoDay stands for NULL.                        *)
(***************************************************************************)
EXTENDS Integers

CONSTANTS
  VoteCooldownDays,  \* max(1, settings.VOTE_COOLDOWN_DAYS)
  RecordsPerWeek,    \* max(1, settings.AUTH_NEW_RECORDS_PER_WEEK)
  WeekDays           \* the literal 7 of the weekly window, scaled down for TLC

ASSUME CooldownAssumption == VoteCooldownDays \in Nat \ {0}
ASSUME WeeklyAssumption == RecordsPerWeek \in Nat \ {0} /\ WeekDays \in Nat \ {0}

NoDay == 0

Rows == [credits: Int, lastLookup: Nat, lastVote: Nat, creates: Nat, anchor: Nat]

NewRow == [credits |-> 0, lastLookup |-> NoDay, lastVote |-> NoDay,
           creates |-> 0, anchor |-> NoDay]

-----------------------------------------------------------------------------
(* Questions asked of a row in memory. *)

LookupOnceEver(u, today) == u.lastLookup = NoDay \* mutated form
CanLookupToday(u, today) == u.lastLookup # today

CanVoteDayEarly(u, today) == \* mutated form
  u.lastVote = NoDay \/ u.lastVote <= today - VoteCooldownDays + 1
CanVoteToday(u, today) ==
  u.lastVote = NoDay \/ u.lastVote <= today - VoteCooldownDays

NewWeek(u, today) == u.anchor = NoDay \/ today - u.anchor >= WeekDays

CanCreateProfileThisWeek(u, today) ==
  NewWeek(u, today) \/ u.creates < RecordsPerWeek

-----------------------------------------------------------------------------
(* Changes to a row in memory. *)

AddCredits(u, amount) ==
  IF amount <= 0 THEN u ELSE [u EXCEPT !.credits = @ + amount]

ConsumeCredit(u) ==
  IF u.credits <= 0 THEN u ELSE [u EXCEPT !.credits = @ - 1]

MarkLookup(u, today) == [u EXCEPT !.lastLookup = today]

MarkVote(u, today) == [u EXCEPT !.lastVote = today]

MarkProfileCreated(u, today) ==
  IF NewWeek(u, today)
  THEN [u EXCEPT !.anchor = today, !.creates = 1]
  ELSE [u EXCEPT !.creates = @ + 1]

-----------------------------------------------------------------------------
(* save(update_fields=...): one operator per combination of fields that the *)
(* services write in one transaction.                                       *)

SavedCredits(stored, u) == [stored EXCEPT !.credits = u.credits]

SavedLookup(stored, u) == [stored EXCEPT !.lastLookup = u.lastLookup]

SavedVote(stored, u) == [stored EXCEPT !.lastVote = u.lastVote]

SavedWeekly(stored, u) ==
  [stored EXCEPT !.creates = u.creates, !.anchor = u.anchor]
=============================================================================
