------------------------------- MODULE Voting -------------------------------
(***************************************************************************)
(* cast_votes (apps/candidates/services.py) and the command                *)
(* hide_expired_votes.  A vote runs in one transaction on a recruiter that *)
(* the middleware loaded before it.  At READ COMMITTED each of its         *)
(* statements sees what is committed by then, so it is modelled statement  *)
(* by statement: the check for an earlier vote, the list of the recruiters *)
(* who voted before, the inserts, the save of the recruiter (whose row it  *)
(* locks until it ends), the count, the save of the candidate (again a     *)
(* lock, kept while relays are made and mails sent), and the commit, which *)
(* makes it all visible.  The mails themselves are left out.               *)
(*                                                                         *)
(* A relay is counted by its initiator, target and candidate; what becomes *)
(* of it later is not part of this module.  The dates of vote retention    *)
(* are days apart instead of years.  What outward reads show of the voter  *)
(* (is_anonymous) is left out, and so is is_verified_recruiter: all the    *)
(* recruiters are verified.                                                *)
(***************************************************************************)
EXTENDS RecruiterUser, FiniteSets

CONSTANTS
  Workers, Recruiters, Candidates, Attributes,
  NoOne, NoCandidate,
  RetentionDays,     \* settings.VOTE_RETENTION_YEARS, in days
  MaxDay             \* bound: last day

ASSUME DaysAssumption == RetentionDays \in Nat \ {0} /\ MaxDay \in Nat \ {0}
ASSUME NullsAssumption == NoOne \notin Recruiters /\ NoCandidate \notin Candidates

VARIABLES
  today,
  row,       \* recruiter_user: limits and credits
  active,    \* recruiter_user: is_active
  notify,    \* recruiter_user: notify_on_vote_overlap
  votes,     \* rows of candidate_attribute_vote
  count,     \* Candidate.distinct_recruiter_count
  relays,    \* how many rows of recruiter_contact_relay a pair has
  rewards,   \* ledger entries EXISTING_VOTE_REWARD of a recruiter
  job        \* what a worker is doing

vars == <<today, row, active, notify, votes, count, relays, rewards, job>>
people == <<active, notify>>
stored == <<row, votes, count, relays, rewards>>

Votes == [candidate: Candidates, recruiter: Recruiters, attribute: Attributes,
          day: 1 .. MaxDay, visible: BOOLEAN]

Overlaps == [initiator: Recruiters, target: Recruiters, candidate: Candidates]

Stages == {"idle", "loaded", "checked", "listed", "inserted", "marked", "saved"}

Jobs == [pc: Stages, user: Recruiters \cup {NoOne}, mem: Rows,
         candidate: Candidates \cup {NoCandidate}, attrs: SUBSET Attributes,
         prior: SUBSET Recruiters, day: 0 .. MaxDay, tally: Nat]

NoJob == [pc |-> "idle", user |-> NoOne, mem |-> NewRow, candidate |-> NoCandidate,
          attrs |-> {}, prior |-> {}, day |-> 0, tally |-> 0]

TypeOK ==
  /\ today \in 1 .. MaxDay
  /\ row \in [Recruiters -> Rows]
  /\ active \in [Recruiters -> BOOLEAN]
  /\ notify \in [Recruiters -> BOOLEAN]
  /\ votes \subseteq Votes
  /\ count \in [Candidates -> Nat]
  /\ relays \in [Overlaps -> Nat]
  /\ rewards \in [Recruiters -> Nat]
  /\ job \in [Workers -> Jobs]

Init ==
  /\ today = 1
  /\ row = [r \in Recruiters |-> NewRow]
  /\ active = [r \in Recruiters |-> TRUE]
  /\ notify = [r \in Recruiters |-> TRUE]
  /\ votes = {}
  /\ count = [c \in Candidates |-> 0]
  /\ relays = [o \in Overlaps |-> 0]
  /\ rewards = [r \in Recruiters |-> 0]
  /\ job = [w \in Workers |-> NoJob]

-----------------------------------------------------------------------------
(* Queries. *)

Voted(r, c) == \E v \in votes : v.recruiter = r /\ v.candidate = c

Voters(c) == {r \in Recruiters : Voted(r, c)}

VotedBy(r) == {c \in Candidates : Voted(r, c)}

\* The transactions that have passed a stage and hold its locks.
Holds(w, stages) == job[w].pc \in stages
Uncommitted == {"inserted", "marked", "saved"}

\* No transaction holds the lock of the recruiter's row.
RowFree(r) ==
  \A w \in Workers : Holds(w, {"marked", "saved"}) => job[w].user # r

-----------------------------------------------------------------------------
(* cast_votes *)

\* ApiGateMiddleware loads the recruiter.
Load(w, r) ==
  /\ job[w].pc = "idle"
  /\ active[r]
  /\ job' = [job EXCEPT ![w].pc = "loaded", ![w].user = r, ![w].mem = row[r]]
  /\ UNCHANGED <<today, people, stored>>

VotedUnchecked(r, c) == FALSE \* mutated form
VotedAlready(r, c) == Voted(r, c)

\* The checks up to the one for an earlier vote on this candidate.
Check(w, c, attrs) ==
  LET j == job[w] IN
  /\ j.pc = "loaded"
  /\ CanVoteToday(j.mem, today)
  /\ Cardinality(attrs) \in 1 .. 3
  /\ ~VotedAlready(j.user, c)
  /\ job' = [job EXCEPT ![w].pc = "checked", ![w].candidate = c, ![w].attrs = attrs]
  /\ UNCHANGED <<today, people, stored>>

PriorsDeleted(r, c) == {p \in Recruiters \ {r} : Voted(p, c) /\ notify[p]} \* mutated form

\* The other recruiters who voted and want to hear of it.
Priors(r, c) ==
  {p \in Recruiters \ {r} : Voted(p, c) /\ active[p] /\ notify[p]}

ListPriors(w) ==
  LET j == job[w] IN
  /\ j.pc = "checked"
  /\ job' = [job EXCEPT ![w].pc = "listed", ![w].prior = Priors(j.user, j.candidate)]
  /\ UNCHANGED <<today, people, stored>>

NotUnique(w) == TRUE \* mutated form

\* uniq_candidate_recruiter_attribute: an insert fails on a committed row with
\* its key, and waits for a transaction that has inserted one.
Unique(w) ==
  LET j == job[w] IN
  /\ \A v \in votes : v.candidate = j.candidate /\ v.recruiter = j.user
                        => v.attribute \notin j.attrs
  /\ \A x \in Workers \ {w} :
       Holds(x, Uncommitted) /\ job[x].candidate = j.candidate /\ job[x].user = j.user
         => job[x].attrs \cap j.attrs = {}

Insert(w) ==
  /\ job[w].pc = "listed"
  /\ Unique(w)
  /\ job' = [job EXCEPT ![w].pc = "inserted", ![w].day = today]
  /\ UNCHANGED <<today, people, stored>>

TallyVotes(r, c, attrs) == \* mutated form
  Cardinality({v \in votes : v.candidate = c}) + Cardinality(attrs)

\* The count of the candidate's voters: those committed and the worker's own.
Tally(r, c, attrs) == Cardinality(Voters(c) \cup {r})

\* mark_vote and add_credits, whose save takes the recruiter's row, and the count.
Mark(w) ==
  LET j == job[w] IN
  /\ j.pc = "inserted"
  /\ RowFree(j.user)
  /\ job' = [job EXCEPT ![w].pc = "marked",
                        ![w].mem = AddCredits(MarkVote(j.mem, today), 1),
                        ![w].tally = Tally(j.user, j.candidate, j.attrs)]
  /\ UNCHANGED <<today, people, stored>>

OverlapsOf(w) ==
  [initiator: job[w].prior, target: {job[w].user}, candidate: {job[w].candidate}]

\* The save of the candidate, whose row the relays and mails then keep locked.
SaveCandidate(w) ==
  LET j == job[w] IN
  /\ j.pc = "marked"
  /\ \A x \in Workers \ {w} : Holds(x, {"saved"}) => job[x].candidate # j.candidate
  /\ job' = [job EXCEPT ![w].pc = "saved"]
  /\ UNCHANGED <<today, people, stored>>

Commit(w) ==
  LET j == job[w] IN
  /\ j.pc = "saved"
  /\ row' = [row EXCEPT ![j.user] = SavedCredits(SavedVote(@, j.mem), j.mem)]
  /\ votes' = votes \cup [candidate: {j.candidate}, recruiter: {j.user},
                          attribute: j.attrs, day: {j.day}, visible: {TRUE}]
  /\ count' = [count EXCEPT ![j.candidate] = j.tally]
  /\ relays' = [o \in Overlaps |-> relays[o] + IF o \in OverlapsOf(w) THEN 1 ELSE 0]
  /\ rewards' = [rewards EXCEPT ![j.user] = @ + 1]
  /\ job' = [job EXCEPT ![w] = NoJob]
  /\ UNCHANGED <<today, people>>

\* An early return, an IntegrityError or a dying worker.
Rollback(w) ==
  /\ job[w].pc # "idle"
  /\ job' = [job EXCEPT ![w] = NoJob]
  /\ UNCHANGED <<today, people, stored>>

Vote(w) ==
  \/ \E r \in Recruiters : Load(w, r)
  \/ \E c \in Candidates, attrs \in SUBSET Attributes : Check(w, c, attrs)
  \/ ListPriors(w) \/ Insert(w) \/ Mark(w) \/ SaveCandidate(w)
  \/ Commit(w) \/ Rollback(w)

-----------------------------------------------------------------------------
(* Requests of one save each; they need a worker too. *)

FreeWorker == \E w \in Workers : job[w].pc = "idle"

\* recruiter_settings
Settings(r, wanted) ==
  /\ FreeWorker /\ RowFree(r)
  /\ active[r]
  /\ notify[r] # wanted
  /\ notify' = [notify EXCEPT ![r] = wanted]
  /\ UNCHANGED <<today, active, stored, job>>

\* delete_recruiter_profile: the votes stay.
DeleteProfile(r) ==
  /\ FreeWorker /\ RowFree(r)
  /\ active[r]
  /\ active' = [active EXCEPT ![r] = FALSE]
  /\ UNCHANGED <<today, notify, stored, job>>

\* CandidateAttributeVote.save sets expires_on.
ExpiresOn(v) == v.day + RetentionDays

\* What public_vote_breakdown counts.
Public(v) == v.visible /\ ExpiresOn(v) > today

HiddenDayEarly(v) == ExpiresOn(v) <= today + 1 \* mutated form
Hidden(v) == ExpiresOn(v) <= today

\* hide_expired_votes
Hide ==
  /\ \E v \in votes : v.visible /\ Hidden(v)
  /\ votes' = {[v EXCEPT !.visible = @ /\ ~Hidden(v)] : v \in votes}
  /\ UNCHANGED <<today, people, row, count, relays, rewards, job>>

NextDay ==
  /\ today < MaxDay
  /\ today' = today + 1
  /\ UNCHANGED <<people, stored, job>>

Next ==
  \/ \E w \in Workers : Vote(w)
  \/ \E r \in Recruiters, wanted \in BOOLEAN : Settings(r, wanted)
  \/ \E r \in Recruiters : DeleteProfile(r)
  \/ Hide
  \/ NextDay

Spec == Init /\ [][Next]_vars

-----------------------------------------------------------------------------
(* What holds however the workers interleave. *)

\* Concurrent votes can leave the stored count of a candidate's voters behind,
\* but it never exceeds them, and a candidate with voters is never shown with
\* none (the count and save at the end of cast_votes).
CountWithinVoters ==
  \A c \in Candidates :
    /\ count[c] <= Cardinality(Voters(c))
    /\ Voters(c) # {} => count[c] > 0

\* Rewards are paid for votes that are there: at least one for each candidate a
\* recruiter voted on, and not more than his rows, which the unique constraint
\* ensures where the check for an earlier vote does not.
RewardsMatchVotes ==
  \A r \in Recruiters :
    /\ Cardinality(VotedBy(r)) <= rewards[r]
    /\ rewards[r] <= Cardinality({v \in votes : v.recruiter = r})

\* The cooldown starts no earlier than the last vote, whichever of two
\* concurrent votes saves the recruiter's row last (mark_vote after the inserts).
VotesBeforeLast == \A v \in votes : v.day <= row[v.recruiter].lastVote

\* A contact relay that cast_votes makes joins two different recruiters who
\* have both voted on its candidate.
RelayHasOverlap ==
  \A o \in Overlaps :
    relays[o] > 0 =>
      /\ o.initiator # o.target
      /\ Voted(o.initiator, o.candidate)
      /\ Voted(o.target, o.candidate)

\* The command that hides expired votes agrees with public_vote_breakdown on
\* the day a vote expires: what is public is what has not expired.
PublicAreUnexpired == \A v \in votes : Public(v) <=> v.day + RetentionDays > today

-----------------------------------------------------------------------------
(* What holds with one worker, and fails with two.                          *)

\* A recruiter's votes on two candidates are a cooldown apart (can_vote_today).
Cooldown ==
  \A v, w \in votes :
    v.recruiter = w.recruiter /\ v.candidate # w.candidate
      => v.day - w.day >= VoteCooldownDays \/ w.day - v.day >= VoteCooldownDays

\* With a vote, one relay is made for each other recruiter who voted on the
\* candidate before, has a profile and asks to be told, and none for others.
OverlapRelayed ==
  [][\A r \in Recruiters, c \in Candidates :
       ~Voted(r, c) /\ Voted(r, c)' =>
         \A p \in Recruiters :
           LET o == [initiator |-> p, target |-> r, candidate |-> c] IN
           relays'[o] = IF p # r /\ Voted(p, c) /\ active[p] /\ notify[p] THEN 1 ELSE 0
    ]_vars

\* A vote counts once, for its profile and for its recruiter.
Book == INSTANCE Ballot WITH
  ballots <- {<<v.recruiter, v.candidate>> : v \in votes},
  tally <- count,
  rewarded <- rewards

ImplementsBallot == Book!Spec
=============================================================================
