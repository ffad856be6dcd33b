----------------------------- MODULE VotingProofs -----------------------------
(***************************************************************************)
(* What voting promises for any number of workers, recruiters and          *)
(* candidates: the type invariant, the counts of voters, the rewards, the  *)
(* date the cooldown starts from, who is joined by a relay, and what the   *)
(* retention command hides; and, with one worker, the cooldown, the relays *)
(* of a vote, and that voting implements the ballot (Ballot).              *)
(***************************************************************************)
EXTENDS Voting, FiniteSetTheorems, TLAPS

-----------------------------------------------------------------------------
(* Types. *)

Begun == {"checked", "listed", "inserted", "marked", "saved"}
Locking == {"marked", "saved"}

\* A worker at work has a recruiter; past the checks, a candidate and attributes.
JobFits(w) ==
  /\ job[w].pc # "idle" => job[w].user \in Recruiters
  /\ job[w].pc \in Begun => job[w].candidate \in Candidates /\ job[w].attrs # {}
  /\ job[w].pc \in Uncommitted => job[w].day \in 1 .. today

JobsFit == \A w \in Workers : JobFits(w)

TypeInv == TypeOK /\ JobsFit

LEMMA InitType == Init => TypeInv
<1> SUFFICES ASSUME Init PROVE TypeInv
  OBVIOUS
<1>1. NewRow \in Rows
  BY DEF NewRow, Rows, NoDay
<1>2. NoJob \in Jobs /\ NoJob.pc = "idle"
  BY <1>1, DaysAssumption DEF NoJob, Jobs, Stages
<1>3. TypeOK
  BY <1>1, <1>2, DaysAssumption DEF Init, TypeOK
<1> QED
  BY <1>2, <1>3 DEF Init, TypeInv, JobsFit, JobFits, Begun, Uncommitted

\* A worker that goes on with a new job, or gives up the one it had.
LEMMA GoOnType ==
  ASSUME TypeInv, NEW w \in Workers, NEW new \in Jobs, job' = [job EXCEPT ![w] = new],
         today' = today,
         new.pc # "idle" => new.user \in Recruiters,
         new.pc \in Begun => new.candidate \in Candidates /\ new.attrs # {},
         new.pc \in Uncommitted => new.day \in 1 .. today
  PROVE  job' \in [Workers -> Jobs] /\ JobsFit'
<1>1. job'[w] = new /\ \A x \in Workers : x # w => job'[x] = job[x]
  BY DEF TypeInv, TypeOK
<1>2. job' \in [Workers -> Jobs]
  BY DEF TypeInv, TypeOK
<1>3. ASSUME NEW x \in Workers PROVE JobFits(x)'
  <2>1. CASE x = w
    BY <1>1, <2>1 DEF JobFits
  <2>2. CASE x # w
    BY <1>1, <2>2 DEF TypeInv, JobsFit, JobFits
  <2> QED
    BY <2>1, <2>2
<1> QED
  BY <1>2, <1>3 DEF JobsFit

LEMMA LeaveType ==
  ASSUME TypeInv, NEW w \in Workers, job' = [job EXCEPT ![w] = NoJob], today' = today
  PROVE  job' \in [Workers -> Jobs] /\ JobsFit'
<1>1. NewRow \in Rows
  BY DEF NewRow, Rows, NoDay
<1>2. NoJob \in Jobs /\ NoJob.pc = "idle"
  BY <1>1, DaysAssumption DEF NoJob, Jobs, Stages
<1> QED
  BY <1>2, GoOnType DEF Begun, Uncommitted

LEMMA NextType ==
  ASSUME IsFiniteSet(Recruiters), TypeInv, [Next]_vars
  PROVE  TypeInv'
<1>1. CASE UNCHANGED vars
  BY <1>1 DEF vars, people, stored, TypeInv, TypeOK, JobsFit, JobFits
<1>2. ASSUME NEW w \in Workers, NEW r \in Recruiters, Load(w, r) PROVE TypeInv'
  <2>1. PICK new : new = [job[w] EXCEPT !.pc = "loaded", !.user = r, !.mem = row[r]]
    OBVIOUS
  <2>2. new \in Jobs /\ new.pc = "loaded" /\ new.user = r
    BY <2>1 DEF TypeInv, TypeOK, Jobs, Stages
  <2>3. job' = [job EXCEPT ![w] = new]
    BY <1>2, <2>1 DEF Load, TypeInv, TypeOK, Jobs
  <2>4. job' \in [Workers -> Jobs] /\ JobsFit'
    BY <1>2, <2>2, <2>3, GoOnType DEF Load, Begun, Uncommitted
  <2> QED
    BY <1>2, <2>4 DEF Load, people, stored, TypeInv, TypeOK
<1>3. ASSUME NEW w \in Workers, NEW c \in Candidates, NEW attrs \in SUBSET Attributes,
             Check(w, c, attrs)
      PROVE TypeInv'
  <2>1. PICK new : new = [job[w] EXCEPT !.pc = "checked", !.candidate = c, !.attrs = attrs]
    OBVIOUS
  <2>2. /\ new \in Jobs /\ new.pc = "checked" /\ new.user = job[w].user
        /\ new.candidate = c /\ new.attrs = attrs
    BY <2>1 DEF TypeInv, TypeOK, Jobs, Stages
  <2>3. job' = [job EXCEPT ![w] = new]
    BY <1>3, <2>1 DEF Check, TypeInv, TypeOK, Jobs
  <2>4. attrs # {} /\ job[w].user \in Recruiters
    BY <1>3, FS_EmptySet DEF Check, TypeInv, JobsFit, JobFits
  <2>5. job' \in [Workers -> Jobs] /\ JobsFit'
    BY <1>3, <2>2, <2>3, <2>4, GoOnType DEF Check, Begun, Uncommitted
  <2> QED
    BY <1>3, <2>5 DEF Check, people, stored, TypeInv, TypeOK
<1>4. ASSUME NEW w \in Workers, ListPriors(w) PROVE TypeInv'
  <2>1. PICK new : new = [job[w] EXCEPT !.pc = "listed",
                                        !.prior = Priors(job[w].user, job[w].candidate)]
    OBVIOUS
  <2>2. Priors(job[w].user, job[w].candidate) \subseteq Recruiters
    BY DEF Priors
  <2>3. /\ new \in Jobs /\ new.pc = "listed" /\ new.user = job[w].user
        /\ new.candidate = job[w].candidate /\ new.attrs = job[w].attrs
    BY <2>1, <2>2 DEF TypeInv, TypeOK, Jobs, Stages
  <2>4. job' = [job EXCEPT ![w] = new]
    BY <1>4, <2>1 DEF ListPriors, TypeInv, TypeOK, Jobs
  <2>5. job' \in [Workers -> Jobs] /\ JobsFit'
    BY <1>4, <2>3, <2>4, GoOnType DEF ListPriors, TypeInv, JobsFit, JobFits, Begun, Uncommitted
  <2> QED
    BY <1>4, <2>5 DEF ListPriors, people, stored, TypeInv, TypeOK
<1>5. ASSUME NEW w \in Workers, Insert(w) PROVE TypeInv'
  <2>1. PICK new : new = [job[w] EXCEPT !.pc = "inserted", !.day = today]
    OBVIOUS
  <2>2. /\ new \in Jobs /\ new.pc = "inserted" /\ new.user = job[w].user /\ new.day = today
        /\ new.candidate = job[w].candidate /\ new.attrs = job[w].attrs
    <3>1. today \in 0 .. MaxDay
      BY DaysAssumption DEF TypeInv, TypeOK
    <3>2. job[w] \in Jobs
      BY DEF TypeInv, TypeOK
    <3> QED
      BY <2>1, <3>1, <3>2 DEF Jobs, Stages
  <2>3. job' = [job EXCEPT ![w] = new]
    BY <1>5, <2>1 DEF Insert, TypeInv, TypeOK, Jobs
  <2>4. today \in 1 .. today
    BY DEF TypeInv, TypeOK
  <2>5. job' \in [Workers -> Jobs] /\ JobsFit'
    BY <1>5, <2>2, <2>3, <2>4, GoOnType
       DEF Insert, TypeInv, JobsFit, JobFits, Begun, Uncommitted
  <2> QED
    BY <1>5, <2>5 DEF Insert, people, stored, TypeInv, TypeOK
<1>6. ASSUME NEW w \in Workers, Mark(w) PROVE TypeInv'
  <2>1. PICK t : t = Tally(job[w].user, job[w].candidate, job[w].attrs)
    OBVIOUS
  <2>2. PICK m : m = AddCredits(MarkVote(job[w].mem, today), 1)
    OBVIOUS
  <2>3. t \in Nat
    <3>1. Voters(job[w].candidate) \cup {job[w].user} \subseteq Recruiters
      BY <1>6 DEF Mark, Voters, TypeInv, JobsFit, JobFits
    <3> QED
      BY <2>1, <3>1, FS_Subset, FS_CardinalityType DEF Tally
  <2>4. m \in Rows
    <3>1. job[w].mem \in Rows /\ today \in Nat
      BY DEF TypeInv, TypeOK, Jobs
    <3>2. MarkVote(job[w].mem, today) \in Rows
      BY <3>1 DEF MarkVote, Rows
    <3> QED
      BY <2>2, <3>2 DEF AddCredits, Rows
  <2>5. PICK new : new = [job[w] EXCEPT !.pc = "marked", !.mem = m, !.tally = t]
    OBVIOUS
  <2>6. /\ new \in Jobs /\ new.pc = "marked" /\ new.user = job[w].user /\ new.day = job[w].day
        /\ new.candidate = job[w].candidate /\ new.attrs = job[w].attrs
    BY <2>3, <2>4, <2>5 DEF TypeInv, TypeOK, Jobs, Stages
  <2>7. job' = [job EXCEPT ![w] = new]
    BY <1>6, <2>1, <2>2, <2>5 DEF Mark, TypeInv, TypeOK, Jobs
  <2>8. job' \in [Workers -> Jobs] /\ JobsFit'
    BY <1>6, <2>6, <2>7, GoOnType DEF Mark, TypeInv, JobsFit, JobFits, Begun, Uncommitted
  <2> QED
    BY <1>6, <2>8 DEF Mark, people, stored, TypeInv, TypeOK
<1>7. ASSUME NEW w \in Workers, SaveCandidate(w) PROVE TypeInv'
  <2>1. PICK new : new = [job[w] EXCEPT !.pc = "saved"]
    OBVIOUS
  <2>2. /\ new \in Jobs /\ new.pc = "saved" /\ new.user = job[w].user /\ new.day = job[w].day
        /\ new.candidate = job[w].candidate /\ new.attrs = job[w].attrs
    BY <2>1 DEF TypeInv, TypeOK, Jobs, Stages
  <2>3. job' = [job EXCEPT ![w] = new]
    BY <1>7, <2>1 DEF SaveCandidate, TypeInv, TypeOK, Jobs
  <2>4. job' \in [Workers -> Jobs] /\ JobsFit'
    BY <1>7, <2>2, <2>3, GoOnType
       DEF SaveCandidate, TypeInv, JobsFit, JobFits, Begun, Uncommitted
  <2> QED
    BY <1>7, <2>4 DEF SaveCandidate, people, stored, TypeInv, TypeOK
<1>8. ASSUME NEW w \in Workers, Commit(w) PROVE TypeInv'
  <2>1. /\ job[w] \in Jobs /\ job[w].user \in Recruiters /\ job[w].candidate \in Candidates
        /\ job[w].day \in 1 .. MaxDay
    <3>1. job[w].day \in 1 .. today /\ today \in 1 .. MaxDay
      BY <1>8 DEF Commit, TypeInv, TypeOK, JobsFit, JobFits, Uncommitted
    <3>2. job[w].day \in 1 .. MaxDay
      BY <3>1, DaysAssumption
    <3> QED
      BY <1>8, <3>2 DEF Commit, TypeInv, TypeOK, JobsFit, JobFits, Begun
  <2>2. row' \in [Recruiters -> Rows]
    BY <1>8, <2>1 DEF Commit, SavedCredits, SavedVote, TypeInv, TypeOK, Jobs, Rows
  <2>3. votes' \subseteq Votes
    BY <1>8, <2>1 DEF Commit, TypeInv, TypeOK, Jobs, Votes
  <2>4. count' \in [Candidates -> Nat] /\ rewards' \in [Recruiters -> Nat]
    BY <1>8, <2>1 DEF Commit, TypeInv, TypeOK, Jobs
  <2>5. relays' \in [Overlaps -> Nat]
    <3> HIDE DEF Overlaps
    <3>1. relays' = [o \in Overlaps |-> relays[o] + IF o \in OverlapsOf(w) THEN 1 ELSE 0]
      BY <1>8 DEF Commit
    <3> QED
      BY <3>1 DEF TypeInv, TypeOK
  <2>6. job' \in [Workers -> Jobs] /\ JobsFit'
    BY <1>8, LeaveType DEF Commit
  <2> QED
    BY <1>8, <2>2, <2>3, <2>4, <2>5, <2>6 DEF Commit, people, TypeInv, TypeOK
<1>9. ASSUME NEW w \in Workers, Rollback(w) PROVE TypeInv'
  <2>1. job' \in [Workers -> Jobs] /\ JobsFit'
    BY <1>9, LeaveType DEF Rollback
  <2> QED
    BY <1>9, <2>1 DEF Rollback, people, stored, TypeInv, TypeOK
<1>10. ASSUME NEW r \in Recruiters, NEW wanted \in BOOLEAN, Settings(r, wanted) PROVE TypeInv'
  BY <1>10 DEF Settings, stored, TypeInv, TypeOK, JobsFit, JobFits
<1>11. ASSUME NEW r \in Recruiters, DeleteProfile(r) PROVE TypeInv'
  BY <1>11 DEF DeleteProfile, stored, TypeInv, TypeOK, JobsFit, JobFits
<1>12. CASE Hide
  <2>1. votes' \subseteq Votes
    <3> SUFFICES ASSUME NEW v \in votes PROVE [v EXCEPT !.visible = @ /\ ~Hidden(v)] \in Votes
      BY <1>12 DEF Hide
    <3>1. v \in Votes /\ (v.visible /\ ~Hidden(v)) \in BOOLEAN
      BY DEF TypeInv, TypeOK
    <3> QED
      BY <3>1 DEF Votes
  <2> QED
    BY <1>12, <2>1 DEF Hide, people, TypeInv, TypeOK, JobsFit, JobFits
<1>13. CASE NextDay
  <2>1. today' \in 1 .. MaxDay /\ today' >= today
    BY <1>13, DaysAssumption DEF NextDay, TypeInv, TypeOK
  <2>2. JobsFit'
    BY <1>13, <2>1 DEF NextDay, TypeInv, TypeOK, JobsFit, JobFits
  <2> QED
    BY <1>13, <2>1, <2>2 DEF NextDay, people, stored, TypeInv, TypeOK
<1> QED
  BY <1>1, <1>2, <1>3, <1>4, <1>5, <1>6, <1>7, <1>8, <1>9, <1>10, <1>11, <1>12, <1>13
     DEF Next, Vote

LEMMA TypeInvariant == ASSUME IsFiniteSet(Recruiters) PROVE Spec => []TypeInv
<1>1. TypeInv /\ [Next]_vars => TypeInv'
  BY NextType
<1> QED
  BY <1>1, InitType, PTL DEF Spec

\* Rows and jobs keep their type, and a worker past the checks has a recruiter,
\* a candidate and attributes.
THEOREM TypeCorrect == ASSUME IsFiniteSet(Recruiters) PROVE Spec => []TypeOK
<1>1. TypeInv => TypeOK
  BY DEF TypeInv
<1> QED
  BY <1>1, TypeInvariant, PTL

-----------------------------------------------------------------------------
(* Which rows a step adds. *)

\* The rows that the commit of a worker adds.
Added(w) ==
  [candidate: {job[w].candidate}, recruiter: {job[w].user}, attribute: job[w].attrs,
   day: {job[w].day}, visible: {TRUE}]

\* Steps other than a commit and the retention command leave the rows alone;
\* one worker at most goes on.
LEMMA QuietStep ==
  ASSUME TypeInv, [Next]_vars, ~Hide, \A w \in Workers : ~Commit(w)
  PROVE  /\ UNCHANGED stored
         /\ \/ UNCHANGED job
            \/ \E w \in Workers :
                 /\ \A x \in Workers : x # w => job'[x] = job[x]
                 /\ today' = today
                 /\ \/ \E r \in Recruiters : Load(w, r)
                    \/ \E c \in Candidates, attrs \in SUBSET Attributes : Check(w, c, attrs)
                    \/ ListPriors(w) \/ Insert(w) \/ Mark(w) \/ SaveCandidate(w) \/ Rollback(w)
<1>1. ASSUME NEW w \in Workers, Vote(w), ~Commit(w)
      PROVE  /\ UNCHANGED stored
             /\ \A x \in Workers : x # w => job'[x] = job[x]
             /\ today' = today
  BY <1>1 DEF Vote, Load, Check, ListPriors, Insert, Mark, SaveCandidate, Rollback,
              TypeInv, TypeOK
<1>2. CASE \E w \in Workers : Vote(w)
  BY <1>1, <1>2 DEF Vote
<1>3. CASE ~ \E w \in Workers : Vote(w)
  BY <1>3 DEF Next, Settings, DeleteProfile, NextDay, vars, stored
<1> QED
  BY <1>2, <1>3

\* The fields that each step of a worker changes.
LEMMA StepFields ==
  ASSUME TypeInv, NEW w \in Workers
  PROVE  /\ \A r \in Recruiters : Load(w, r) => job'[w].pc = "loaded"
         /\ \A c \in Candidates, attrs \in SUBSET Attributes :
              Check(w, c, attrs) => job'[w].pc = "checked"
         /\ ListPriors(w) =>
              /\ job'[w].pc = "listed" /\ job'[w].user = job[w].user
              /\ job'[w].candidate = job[w].candidate
              /\ job'[w].prior = Priors(job[w].user, job[w].candidate)
         /\ Insert(w) =>
              /\ job'[w].pc = "inserted" /\ job'[w].user = job[w].user
              /\ job'[w].candidate = job[w].candidate /\ job'[w].prior = job[w].prior
              /\ job'[w].attrs = job[w].attrs
         /\ Mark(w) =>
              /\ job'[w].pc = "marked" /\ job'[w].user = job[w].user
              /\ job'[w].candidate = job[w].candidate /\ job'[w].prior = job[w].prior
              /\ job'[w].attrs = job[w].attrs /\ job'[w].day = job[w].day
              /\ job'[w].tally = Tally(job[w].user, job[w].candidate, job[w].attrs)
              /\ job'[w].mem.lastVote = today
         /\ SaveCandidate(w) =>
              /\ job'[w].pc = "saved" /\ job'[w].user = job[w].user
              /\ job'[w].candidate = job[w].candidate /\ job'[w].prior = job[w].prior
              /\ job'[w].attrs = job[w].attrs /\ job'[w].day = job[w].day
              /\ job'[w].tally = job[w].tally /\ job'[w].mem = job[w].mem
         /\ Commit(w) \/ Rollback(w) => job'[w].pc = "idle"
<1>1. job[w] \in Jobs /\ job[w].mem \in Rows
  BY DEF TypeInv, TypeOK, Jobs
<1>2. ASSUME NEW r \in Recruiters, Load(w, r) PROVE job'[w].pc = "loaded"
  BY <1>1, <1>2 DEF Load, TypeInv, TypeOK, Jobs
<1>3. ASSUME NEW c \in Candidates, NEW attrs \in SUBSET Attributes, Check(w, c, attrs)
      PROVE  job'[w].pc = "checked"
  BY <1>1, <1>3 DEF Check, TypeInv, TypeOK, Jobs
<1>4. ASSUME ListPriors(w)
      PROVE  /\ job'[w].pc = "listed" /\ job'[w].user = job[w].user
             /\ job'[w].candidate = job[w].candidate
             /\ job'[w].prior = Priors(job[w].user, job[w].candidate)
  BY <1>1, <1>4 DEF ListPriors, TypeInv, TypeOK, Jobs
<1>5. ASSUME Insert(w)
      PROVE  /\ job'[w].pc = "inserted" /\ job'[w].user = job[w].user
             /\ job'[w].candidate = job[w].candidate /\ job'[w].prior = job[w].prior
             /\ job'[w].attrs = job[w].attrs
  BY <1>1, <1>5 DEF Insert, TypeInv, TypeOK, Jobs
<1>6. ASSUME Mark(w)
      PROVE  /\ job'[w].pc = "marked" /\ job'[w].user = job[w].user
             /\ job'[w].candidate = job[w].candidate /\ job'[w].prior = job[w].prior
             /\ job'[w].attrs = job[w].attrs /\ job'[w].day = job[w].day
             /\ job'[w].tally = Tally(job[w].user, job[w].candidate, job[w].attrs)
             /\ job'[w].mem.lastVote = today
  <2>1. PICK m : m = AddCredits(MarkVote(job[w].mem, today), 1)
    OBVIOUS
  <2>2. m.lastVote = today
    BY <1>1, <2>1 DEF AddCredits, MarkVote, Rows
  <2>3. job'[w].mem = m
    BY <1>1, <1>6, <2>1 DEF Mark, TypeInv, TypeOK, Jobs
  <2>4. /\ job'[w].pc = "marked" /\ job'[w].user = job[w].user
        /\ job'[w].candidate = job[w].candidate /\ job'[w].prior = job[w].prior
        /\ job'[w].attrs = job[w].attrs /\ job'[w].day = job[w].day
        /\ job'[w].tally = Tally(job[w].user, job[w].candidate, job[w].attrs)
    BY <1>1, <1>6 DEF Mark, TypeInv, TypeOK, Jobs
  <2> QED
    BY <2>2, <2>3, <2>4
<1>7. ASSUME SaveCandidate(w)
      PROVE  /\ job'[w].pc = "saved" /\ job'[w].user = job[w].user
             /\ job'[w].candidate = job[w].candidate /\ job'[w].prior = job[w].prior
             /\ job'[w].attrs = job[w].attrs /\ job'[w].day = job[w].day
             /\ job'[w].tally = job[w].tally /\ job'[w].mem = job[w].mem
  BY <1>1, <1>7 DEF SaveCandidate, TypeInv, TypeOK, Jobs
<1>8. Commit(w) \/ Rollback(w) => job'[w].pc = "idle"
  <2>1. Commit(w) \/ Rollback(w) => job' = [job EXCEPT ![w] = NoJob]
    BY DEF Commit, Rollback
  <2>2. NoJob.pc = "idle"
    BY DEF NoJob
  <2> QED
    BY <2>1, <2>2 DEF TypeInv, TypeOK
<1> QED
  BY <1>2, <1>3, <1>4, <1>5, <1>6, <1>7, <1>8

\* A commit adds the votes of its recruiter on its candidate, and only those.
LEMMA CommitVoted ==
  ASSUME TypeInv, NEW w \in Workers, Commit(w), NEW r \in Recruiters, NEW c \in Candidates
  PROVE  /\ votes' = votes \cup Added(w)
         /\ Voted(r, c)' <=> Voted(r, c) \/ (r = job[w].user /\ c = job[w].candidate)
<1>1. votes' = votes \cup Added(w)
  BY DEF Commit, Added
<1>2. PICK a : a \in job[w].attrs
  BY DEF Commit, TypeInv, JobsFit, JobFits, Begun
<1>3. [candidate |-> job[w].candidate, recruiter |-> job[w].user, attribute |-> a,
       day |-> job[w].day, visible |-> TRUE] \in Added(w)
  BY <1>2 DEF Added
<1>4. (\E v \in Added(w) : v.recruiter = r /\ v.candidate = c)
        <=> r = job[w].user /\ c = job[w].candidate
  BY <1>3 DEF Added
<1> QED
  BY <1>1, <1>4 DEF Voted

\* What the retention command makes of a row.
Retained(v) == [v EXCEPT !.visible = @ /\ ~Hidden(v)]

\* It changes nothing but what is visible.
LEMMA HideRows ==
  ASSUME TypeInv, Hide
  PROVE  /\ votes' = {Retained(v) : v \in votes}
         /\ \A v \in votes :
              /\ Retained(v).candidate = v.candidate /\ Retained(v).recruiter = v.recruiter
              /\ Retained(v).attribute = v.attribute /\ Retained(v).day = v.day
              /\ Retained(v).visible = (v.visible /\ ~Hidden(v))
<1>1. \A v \in votes : v \in Votes
  BY DEF TypeInv, TypeOK
<1>2. ASSUME NEW v \in votes
      PROVE  /\ Retained(v).candidate = v.candidate /\ Retained(v).recruiter = v.recruiter
             /\ Retained(v).attribute = v.attribute /\ Retained(v).day = v.day
             /\ Retained(v).visible = (v.visible /\ ~Hidden(v))
  BY <1>1 DEF Votes, Retained
<1> QED
  BY <1>2 DEF Hide, Retained

LEMMA HideVoted ==
  ASSUME TypeInv, Hide
  PROVE  \A r \in Recruiters, c \in Candidates : Voted(r, c)' <=> Voted(r, c)
BY HideRows DEF Voted

-----------------------------------------------------------------------------
(* Counts of voters, and who is joined by a relay. *)

\* The recruiters a worker has listed have voted, as those it counted have or,
\* as its own, will have with its commit.
JobVoted(w) ==
  /\ job[w].pc = "listed" \/ job[w].pc \in Uncommitted =>
       \A p \in job[w].prior : p # job[w].user /\ Voted(p, job[w].candidate)
  /\ job[w].pc \in Locking =>
       /\ 1 <= job[w].tally
       /\ job[w].tally <= Cardinality(Voters(job[w].candidate) \cup {job[w].user})

VotedInv == (\A w \in Workers : JobVoted(w)) /\ CountWithinVoters /\ RelayHasOverlap

LEMMA VotersFinite ==
  ASSUME IsFiniteSet(Recruiters), NEW c, NEW r \in Recruiters
  PROVE  /\ IsFiniteSet(Voters(c)) /\ Cardinality(Voters(c)) \in Nat
         /\ IsFiniteSet(Voters(c) \cup {r}) /\ Cardinality(Voters(c) \cup {r}) \in Nat \ {0}
<1>1. Voters(c) \subseteq Recruiters /\ Voters(c) \cup {r} \subseteq Recruiters
  BY DEF Voters
<1>2. IsFiniteSet(Voters(c)) /\ IsFiniteSet(Voters(c) \cup {r})
  BY <1>1, FS_Subset
<1>3. Cardinality(Voters(c)) \in Nat /\ Cardinality(Voters(c) \cup {r}) \in Nat
  BY <1>2, FS_CardinalityType
<1>4. Cardinality(Voters(c) \cup {r}) # 0
  BY <1>2, FS_EmptySet
<1> QED
  BY <1>2, <1>3, <1>4

LEMMA VotedInit == Init => VotedInv
<1> SUFFICES ASSUME Init PROVE VotedInv
  OBVIOUS
<1>1. \A c \in Candidates : Voters(c) = {} /\ count[c] = 0
  BY DEF Init, Voters, Voted
<1>2. \A w \in Workers : JobVoted(w)
  BY DEF Init, NoJob, JobVoted, Uncommitted, Locking
<1>3. CountWithinVoters
  BY <1>1, FS_EmptySet DEF CountWithinVoters
<1> QED
  BY <1>2, <1>3 DEF Init, VotedInv, RelayHasOverlap

\* Steps that leave the rows alone, and one worker going on.
LEMMA VotedStay ==
  ASSUME VotedInv, UNCHANGED stored, NEW w \in Workers, JobVoted(w)',
         \A x \in Workers : x # w => job'[x] = job[x]
  PROVE  VotedInv'
<1>1. ASSUME NEW x \in Workers PROVE JobVoted(x)'
  <2>1. CASE x # w
    BY <2>1 DEF VotedInv, JobVoted, Voted, Voters, stored
  <2> QED
    BY <2>1
<1>2. CountWithinVoters' /\ RelayHasOverlap'
  BY DEF VotedInv, CountWithinVoters, RelayHasOverlap, Voters, Voted, stored
<1> QED
  BY <1>1, <1>2 DEF VotedInv

\* A job keeps its promise while recruiters vote.
LEMMA JobVotedGrows ==
  ASSUME IsFiniteSet(Recruiters), TypeInv, NEW x \in Workers, JobVoted(x), job'[x] = job[x],
         \A r \in Recruiters, c \in Candidates : Voted(r, c) => Voted(r, c)'
  PROVE  JobVoted(x)'
<1>1. ASSUME job[x].pc = "listed" \/ job[x].pc \in Uncommitted
      PROVE  /\ job[x].prior \subseteq Recruiters /\ job[x].candidate \in Candidates
             /\ job[x].user \in Recruiters
  BY <1>1 DEF TypeInv, TypeOK, Jobs, JobsFit, JobFits, Begun, Uncommitted
<1>2. ASSUME job[x].pc \in Locking
      PROVE  /\ 1 <= job[x].tally
             /\ job[x].tally <= Cardinality(Voters(job[x].candidate)' \cup {job[x].user})
  <2>1. job[x].candidate \in Candidates /\ job[x].user \in Recruiters /\ job[x].tally \in Nat
    BY <1>1, <1>2 DEF Locking, Uncommitted, TypeInv, TypeOK, Jobs
  <2>2. PICK S : S = Voters(job[x].candidate) \cup {job[x].user}
    OBVIOUS
  <2>3. PICK T : T = Voters(job[x].candidate)' \cup {job[x].user}
    OBVIOUS
  <2>4. S \subseteq T /\ T \subseteq Recruiters
    BY <2>1, <2>2, <2>3 DEF Voters
  <2>5. IsFiniteSet(S) /\ IsFiniteSet(T) /\ Cardinality(S) <= Cardinality(T)
    BY <2>4, FS_Subset
  <2>6. Cardinality(S) \in Nat /\ Cardinality(T) \in Nat
    BY <2>5, FS_CardinalityType
  <2>7. 1 <= job[x].tally /\ job[x].tally <= Cardinality(S)
    BY <1>2, <2>2 DEF JobVoted
  <2> QED
    BY <2>1, <2>3, <2>5, <2>6, <2>7
<1> QED
  BY <1>1, <1>2 DEF JobVoted, Voters

\* What a worker promises when it goes on.
LEMMA JobVotedStep ==
  ASSUME IsFiniteSet(Recruiters), TypeInv, VotedInv, UNCHANGED stored, NEW w \in Workers,
         \/ \E r \in Recruiters : Load(w, r)
         \/ \E c \in Candidates, attrs \in SUBSET Attributes : Check(w, c, attrs)
         \/ ListPriors(w) \/ Insert(w) \/ Mark(w) \/ SaveCandidate(w) \/ Rollback(w)
  PROVE  JobVoted(w)'
<1>1. PICK u, d : u = job[w].user /\ d = job[w].candidate
  OBVIOUS
<1>2. /\ Voters(d)' = Voters(d)
      /\ \A p : Voted(p, d)' <=> Voted(p, d)
  BY DEF Voters, Voted, stored
<1>3. CASE \/ \E r \in Recruiters : Load(w, r)
           \/ \E c \in Candidates, attrs \in SUBSET Attributes : Check(w, c, attrs)
           \/ Rollback(w)
  <2>1. job'[w].pc \in {"loaded", "checked", "idle"}
    BY <1>3, StepFields
  <2> QED
    BY <2>1 DEF JobVoted, Uncommitted, Locking
<1>4. CASE ListPriors(w)
  <2>1. \A p \in Priors(u, d) : p # u /\ Voted(p, d)'
    BY <1>2 DEF Priors
  <2>2. /\ job'[w].pc = "listed" /\ job'[w].user = u /\ job'[w].candidate = d
        /\ job'[w].prior = Priors(u, d)
    BY <1>1, <1>4, StepFields
  <2> QED
    BY <2>1, <2>2 DEF JobVoted, Uncommitted, Locking
<1>5. ASSUME Insert(w) \/ Mark(w) \/ SaveCandidate(w)
      PROVE  /\ job'[w].user = u /\ job'[w].candidate = d
             /\ \A p \in job'[w].prior : p # u /\ Voted(p, d)'
  <2>1. job[w].pc = "listed" \/ job[w].pc \in Uncommitted
    BY <1>5 DEF Insert, Mark, SaveCandidate, Uncommitted
  <2>2. job'[w].user = u /\ job'[w].candidate = d /\ job'[w].prior = job[w].prior
    BY <1>1, <1>5, StepFields
  <2>3. \A p \in job[w].prior : p # u /\ Voted(p, d)
    BY <1>1, <2>1 DEF VotedInv, JobVoted
  <2> QED
    BY <1>2, <2>2, <2>3
<1>6. CASE Insert(w)
  <2>1. job'[w].pc = "inserted"
    BY <1>6, StepFields
  <2> QED
    BY <1>5, <1>6, <2>1 DEF JobVoted, Locking
<1>7. CASE Mark(w)
  <2>1. u \in Recruiters
    BY <1>1, <1>7 DEF Mark, TypeInv, JobsFit, JobFits
  <2>2. job'[w].tally = Cardinality(Voters(d) \cup {u})
    BY <1>1, <1>7, StepFields DEF Tally
  <2>3. Cardinality(Voters(d) \cup {u}) \in Nat \ {0}
    BY <2>1, VotersFinite
  <2>4. 1 <= job'[w].tally /\ job'[w].tally <= Cardinality(Voters(d)' \cup {u})
    BY <1>2, <2>2, <2>3
  <2> QED
    BY <1>5, <1>7, <2>4 DEF JobVoted
<1>8. CASE SaveCandidate(w)
  <2>1. job[w].pc = "marked" /\ job'[w].tally = job[w].tally
    BY <1>8, StepFields DEF SaveCandidate
  <2>2. 1 <= job'[w].tally /\ job'[w].tally <= Cardinality(Voters(d)' \cup {u})
    BY <1>1, <1>2, <2>1 DEF VotedInv, JobVoted, Locking
  <2> QED
    BY <1>5, <1>8, <2>2 DEF JobVoted
<1> QED
  BY <1>3, <1>4, <1>6, <1>7, <1>8

LEMMA VotedNext ==
  ASSUME IsFiniteSet(Recruiters), TypeInv, VotedInv, [Next]_vars
  PROVE  VotedInv'
<1>1. ASSUME ~Hide, \A w \in Workers : ~Commit(w) PROVE VotedInv'
  <2>1. UNCHANGED stored
    BY <1>1, QuietStep
  <2>2. CASE UNCHANGED job
    <3>1. \A x \in Workers : JobVoted(x)'
      BY <2>1, <2>2 DEF VotedInv, JobVoted, Voters, Voted, stored
    <3>2. CountWithinVoters' /\ RelayHasOverlap'
      BY <2>1 DEF VotedInv, CountWithinVoters, RelayHasOverlap, Voters, Voted, stored
    <3> QED
      BY <3>1, <3>2 DEF VotedInv
  <2>3. CASE ~UNCHANGED job
    <3>1. PICK w \in Workers :
            /\ \A x \in Workers : x # w => job'[x] = job[x]
            /\ \/ \E r \in Recruiters : Load(w, r)
               \/ \E c \in Candidates, attrs \in SUBSET Attributes : Check(w, c, attrs)
               \/ ListPriors(w) \/ Insert(w) \/ Mark(w) \/ SaveCandidate(w) \/ Rollback(w)
      BY <1>1, <2>3, QuietStep
    <3>2. JobVoted(w)'
      BY <2>1, <3>1, JobVotedStep
    <3> QED
      BY <2>1, <3>1, <3>2, VotedStay
  <2> QED
    BY <2>2, <2>3
<1>2. CASE Hide
  <2>1. \A r \in Recruiters, c \in Candidates : Voted(r, c)' <=> Voted(r, c)
    BY <1>2, HideVoted
  <2>2. \A w \in Workers : JobVoted(w)'
    BY <1>2, <2>1, JobVotedGrows DEF Hide, VotedInv
  <2>3. \A c \in Candidates : Voters(c)' = Voters(c)
    BY <2>1 DEF Voters
  <2>4. CountWithinVoters'
    BY <1>2, <2>3 DEF Hide, VotedInv, CountWithinVoters
  <2>5. RelayHasOverlap'
    BY <1>2, <2>1 DEF Hide, VotedInv, RelayHasOverlap, Overlaps
  <2> QED
    BY <2>2, <2>4, <2>5 DEF VotedInv
<1>3. ASSUME NEW w \in Workers, Commit(w) PROVE VotedInv'
  <2> DEFINE u == job[w].user
             d == job[w].candidate
  <2>1. /\ job[w].pc = "saved" /\ u \in Recruiters /\ d \in Candidates
        /\ job[w].prior \subseteq Recruiters /\ job[w].tally \in Nat
    BY <1>3 DEF Commit, TypeInv, TypeOK, Jobs, JobsFit, JobFits, Begun
  <2>2. \A r \in Recruiters, c \in Candidates : Voted(r, c)' <=> Voted(r, c) \/ (r = u /\ c = d)
    BY <1>3, CommitVoted
  <2>3. \A x \in Workers : x # w => job'[x] = job[x]
    BY <1>3 DEF Commit, TypeInv, TypeOK
  <2>4. ASSUME NEW x \in Workers PROVE JobVoted(x)'
    <3>1. CASE x # w
      BY <2>2, <2>3, <3>1, JobVotedGrows DEF VotedInv
    <3>2. CASE x = w
      <4>1. job'[x].pc = "idle"
        BY <1>3, <3>2, StepFields
      <4> QED
        BY <4>1 DEF JobVoted, Uncommitted, Locking
    <3> QED
      BY <3>1, <3>2
  <2>5. \A c \in Candidates : Voters(c)' = IF c = d THEN Voters(c) \cup {u} ELSE Voters(c)
    BY <2>1, <2>2 DEF Voters
  <2>6. ASSUME NEW c \in Candidates
        PROVE  count'[c] <= Cardinality(Voters(c)') /\ (Voters(c)' # {} => count'[c] > 0)
    <3>1. count' = [count EXCEPT ![d] = job[w].tally]
      BY <1>3 DEF Commit
    <3>2. 1 <= job[w].tally /\ job[w].tally <= Cardinality(Voters(d) \cup {u})
      BY <2>1 DEF VotedInv, JobVoted, Locking
    <3>3. CASE c = d
      <4>1. count'[c] = job[w].tally
        BY <3>1, <3>3 DEF TypeInv, TypeOK
      <4>2. PICK S : S = Voters(c) \cup {u}
        OBVIOUS
      <4>3. Voters(c)' = S /\ job[w].tally <= Cardinality(S)
        BY <2>5, <3>2, <3>3, <4>2
      <4> QED
        BY <2>1, <3>2, <4>1, <4>3
    <3>4. CASE c # d
      BY <2>5, <3>1, <3>4 DEF TypeInv, TypeOK, VotedInv, CountWithinVoters
    <3> QED
      BY <3>3, <3>4
  <2>7. ASSUME NEW o \in Overlaps, relays'[o] > 0
        PROVE  o.initiator # o.target /\ Voted(o.initiator, o.candidate)'
                 /\ Voted(o.target, o.candidate)'
    <3>1. o.initiator \in Recruiters /\ o.target \in Recruiters /\ o.candidate \in Candidates
      BY DEF Overlaps
    <3>2. relays'[o] = relays[o] + IF o \in OverlapsOf(w) THEN 1 ELSE 0
      BY <1>3 DEF Commit
    <3>3. CASE o \in OverlapsOf(w)
      <4>1. o.initiator \in job[w].prior /\ o.target = u /\ o.candidate = d
        BY <3>3 DEF OverlapsOf
      <4>2. o.initiator # u /\ Voted(o.initiator, d)
        BY <2>1, <4>1 DEF VotedInv, JobVoted, Uncommitted
      <4> QED
        BY <2>2, <3>1, <4>1, <4>2
    <3>4. CASE o \notin OverlapsOf(w)
      <4>1. relays[o] > 0
        BY <2>7, <3>2, <3>4 DEF TypeInv, TypeOK
      <4> QED
        BY <2>2, <3>1, <4>1 DEF VotedInv, RelayHasOverlap
    <3> QED
      BY <3>3, <3>4
  <2>8. CountWithinVoters'
    BY <2>6 DEF CountWithinVoters, Voters
  <2>9. RelayHasOverlap'
    BY <2>7 DEF RelayHasOverlap
  <2> QED
    BY <2>4, <2>8, <2>9 DEF VotedInv
<1> QED
  BY <1>1, <1>2, <1>3

LEMMA VotedInvariant == ASSUME IsFiniteSet(Recruiters) PROVE Spec => []VotedInv
<1>1. TypeInv /\ VotedInv /\ [Next]_vars => VotedInv'
  BY VotedNext
<1> QED
  BY <1>1, VotedInit, TypeInvariant, PTL DEF Spec

\* A stored count never exceeds the candidate's voters, and is not 0 with voters.
THEOREM CountsAreOfVoters == ASSUME IsFiniteSet(Recruiters) PROVE Spec => []CountWithinVoters
<1>1. VotedInv => CountWithinVoters
  BY DEF VotedInv
<1> QED
  BY <1>1, VotedInvariant, PTL

\* A contact relay joins two different recruiters who have both voted.
THEOREM RelaysJoinVoters == ASSUME IsFiniteSet(Recruiters) PROVE Spec => []RelayHasOverlap
<1>1. VotedInv => RelayHasOverlap
  BY DEF VotedInv
<1> QED
  BY <1>1, VotedInvariant, PTL

-----------------------------------------------------------------------------
(* The days of votes. *)

\* The transaction that saves the recruiter's row has seen all his votes.
JobDays(w) ==
  job[w].pc \in Locking =>
    /\ job[w].day <= job[w].mem.lastVote
    /\ \A v \in votes : v.recruiter = job[w].user => v.day <= job[w].mem.lastVote

OneWriter ==
  \A w, x \in Workers :
    w # x /\ job[w].pc \in Locking /\ job[x].pc \in Locking => job[w].user # job[x].user

VotesPast == \A v \in votes : v.day <= today

HiddenExpired == \A v \in votes : ~v.visible => ExpiresOn(v) <= today

DayInv ==
  (\A w \in Workers : JobDays(w)) /\ OneWriter /\ VotesPast /\ HiddenExpired /\ VotesBeforeLast

LEMMA DayInit == Init => DayInv
BY DEF Init, NoJob, DayInv, JobDays, OneWriter, VotesPast, HiddenExpired, VotesBeforeLast, Locking

LEMMA VoteTypes ==
  ASSUME TypeInv
  PROVE  /\ today \in Nat
         /\ \A v \in votes : /\ v.day \in Nat /\ v.recruiter \in Recruiters
                             /\ v.candidate \in Candidates /\ v.attribute \in Attributes
                             /\ v.visible \in BOOLEAN
         /\ \A r \in Recruiters : row[r].lastVote \in Nat
         /\ \A w \in Workers : job[w].mem.lastVote \in Nat /\ job[w].day \in Nat
<1>1. today \in Nat /\ \A v \in votes : v \in Votes
  BY DEF TypeInv, TypeOK
<1>2. \A v \in Votes : /\ v.day \in Nat /\ v.recruiter \in Recruiters
                       /\ v.candidate \in Candidates /\ v.attribute \in Attributes
                       /\ v.visible \in BOOLEAN
  BY DEF Votes
<1>3. \A r \in Recruiters : row[r].lastVote \in Nat
  BY DEF TypeInv, TypeOK, Rows
<1>4. \A w \in Workers : job[w].mem.lastVote \in Nat /\ job[w].day \in Nat
  BY DEF TypeInv, TypeOK, Jobs, Rows
<1> QED
  BY <1>1, <1>2, <1>3, <1>4

\* What a worker has seen when it goes on.
LEMMA JobDaysStep ==
  ASSUME TypeInv, DayInv, UNCHANGED stored, NEW w \in Workers,
         \/ \E r \in Recruiters : Load(w, r)
         \/ \E c \in Candidates, attrs \in SUBSET Attributes : Check(w, c, attrs)
         \/ ListPriors(w) \/ Insert(w) \/ Mark(w) \/ SaveCandidate(w) \/ Rollback(w)
  PROVE  /\ JobDays(w)'
         /\ job'[w].pc \in Locking =>
              /\ \A x \in Workers : x # w /\ job[x].pc \in Locking => job[x].user # job'[w].user
<1>1. CASE \/ \E r \in Recruiters : Load(w, r)
           \/ \E c \in Candidates, attrs \in SUBSET Attributes : Check(w, c, attrs)
           \/ ListPriors(w) \/ Insert(w) \/ Rollback(w)
  <2>1. job'[w].pc \in {"loaded", "checked", "listed", "inserted", "idle"}
    BY <1>1, StepFields
  <2> QED
    BY <2>1 DEF JobDays, Locking
<1>2. CASE Mark(w)
  <2>1. job'[w].user = job[w].user /\ job'[w].day = job[w].day /\ job'[w].mem.lastVote = today
    BY <1>2, StepFields
  <2>2. job[w].day <= today
    BY <1>2 DEF Mark, TypeInv, TypeOK, JobsFit, JobFits, Uncommitted
  <2>3. JobDays(w)'
    BY <2>1, <2>2 DEF JobDays, DayInv, VotesPast, stored
  <2>4. \A x \in Workers : x # w /\ job[x].pc \in Locking => job[x].user # job[w].user
    BY <1>2 DEF Mark, RowFree, Holds, Locking
  <2> QED
    BY <2>1, <2>3, <2>4
<1>3. CASE SaveCandidate(w)
  <2>1. /\ job'[w].user = job[w].user /\ job'[w].day = job[w].day /\ job'[w].mem = job[w].mem
        /\ job[w].pc = "marked"
    BY <1>3, StepFields DEF SaveCandidate
  <2>2. JobDays(w)'
    BY <2>1 DEF JobDays, DayInv, Locking, stored
  <2> QED
    BY <2>1, <2>2 DEF DayInv, OneWriter, Locking
<1> QED
  BY <1>1, <1>2, <1>3

LEMMA DayNext == ASSUME TypeInv, TypeInv', DayInv, [Next]_vars PROVE DayInv'
<1>1. ASSUME ~Hide, \A w \in Workers : ~Commit(w) PROVE DayInv'
  <2>1. UNCHANGED stored
    BY <1>1, QuietStep
  <2>2. today' >= today
    <3>1. today' = today \/ today' = today + 1
      <4>1. ASSUME NEW w \in Workers, Vote(w) PROVE today' = today
        BY <4>1 DEF Vote, Load, Check, ListPriors, Insert, Mark, SaveCandidate, Commit, Rollback
      <4> QED
        BY <4>1 DEF Next, Settings, DeleteProfile, Hide, NextDay, vars
    <3> QED
      BY <3>1, VoteTypes
  <2>3. VotesPast' /\ HiddenExpired' /\ VotesBeforeLast'
    <3>1. today' \in Nat /\ RetentionDays \in Nat
      BY VoteTypes, DaysAssumption DEF TypeInv, TypeOK
    <3> QED
      BY <2>1, <2>2, <3>1, VoteTypes
         DEF DayInv, VotesPast, HiddenExpired, ExpiresOn, VotesBeforeLast, stored
  <2>4. CASE UNCHANGED job
    BY <2>1, <2>3, <2>4 DEF DayInv, JobDays, OneWriter, stored
  <2>5. CASE ~UNCHANGED job
    <3>1. PICK w \in Workers :
            /\ \A x \in Workers : x # w => job'[x] = job[x]
            /\ \/ \E r \in Recruiters : Load(w, r)
               \/ \E c \in Candidates, attrs \in SUBSET Attributes : Check(w, c, attrs)
               \/ ListPriors(w) \/ Insert(w) \/ Mark(w) \/ SaveCandidate(w) \/ Rollback(w)
      BY <1>1, <2>5, QuietStep
    <3>2. /\ JobDays(w)'
          /\ job'[w].pc \in Locking =>
               \A x \in Workers : x # w /\ job[x].pc \in Locking => job[x].user # job'[w].user
      BY <2>1, <3>1, JobDaysStep
    <3>3. \A x \in Workers : x # w => JobDays(x)'
      BY <2>1, <3>1 DEF DayInv, JobDays, stored
    <3>4. OneWriter'
      BY <3>1, <3>2 DEF DayInv, OneWriter
    <3> QED
      BY <2>3, <3>2, <3>3, <3>4 DEF DayInv
  <2> QED
    BY <2>4, <2>5
<1>2. CASE Hide
  <2>1. /\ votes' = {Retained(v) : v \in votes}
        /\ \A v \in votes : /\ Retained(v).recruiter = v.recruiter /\ Retained(v).day = v.day
                            /\ Retained(v).visible = (v.visible /\ ~Hidden(v))
    BY <1>2, HideRows
  <2>2. UNCHANGED <<today, row, job>>
    BY <1>2 DEF Hide
  <2>3. VotesPast' /\ VotesBeforeLast' /\ OneWriter' /\ \A w \in Workers : JobDays(w)'
    BY <2>1, <2>2 DEF DayInv, VotesPast, VotesBeforeLast, OneWriter, JobDays
  <2>4. HiddenExpired'
    BY <2>1, <2>2 DEF DayInv, HiddenExpired, Hidden, ExpiresOn
  <2> QED
    BY <2>3, <2>4 DEF DayInv
<1>3. ASSUME NEW w \in Workers, Commit(w) PROVE DayInv'
  <2> DEFINE u == job[w].user
             last == job[w].mem.lastVote
  <2>1. job[w].pc = "saved" /\ u \in Recruiters /\ job[w].day <= today
    BY <1>3 DEF Commit, TypeInv, TypeOK, JobsFit, JobFits, Uncommitted
  <2>2. /\ votes' = votes \cup Added(w) /\ today' = today
        /\ \A v \in Added(w) : v.recruiter = u /\ v.day = job[w].day /\ v.visible
    BY <1>3 DEF Commit, Added
  <2>3. /\ job'[w].pc = "idle"
        /\ \A x \in Workers : x # w => job'[x] = job[x]
    BY <1>3, StepFields DEF Commit, TypeInv, TypeOK
  <2>4. row'[u].lastVote = last /\ \A r \in Recruiters : r # u => row'[r] = row[r]
    BY <1>3, <2>1 DEF Commit, SavedCredits, SavedVote, TypeInv, TypeOK, Rows
  <2>5. job[w].day <= last /\ \A v \in votes : v.recruiter = u => v.day <= last
    BY <2>1 DEF DayInv, JobDays, Locking
  <2>6. VotesPast' /\ HiddenExpired'
    BY <2>1, <2>2 DEF DayInv, VotesPast, HiddenExpired, ExpiresOn
  <2>7. VotesBeforeLast'
    BY <2>2, <2>4, <2>5, VoteTypes DEF DayInv, VotesBeforeLast
  <2>8. ASSUME NEW x \in Workers PROVE JobDays(x)'
    <3>1. CASE x = w
      BY <2>3, <3>1 DEF JobDays, Locking
    <3>2. CASE x # w
      <4>1. job[x].pc \in Locking => job[x].user # u
        BY <2>1, <3>2 DEF DayInv, OneWriter, Locking
      <4> QED
        BY <2>2, <2>3, <3>2, <4>1 DEF DayInv, JobDays
    <3> QED
      BY <3>1, <3>2
  <2>9. OneWriter'
    BY <2>3 DEF DayInv, OneWriter, Locking
  <2> QED
    BY <2>6, <2>7, <2>8, <2>9 DEF DayInv
<1> QED
  BY <1>1, <1>2, <1>3

LEMMA DayInvariant == ASSUME IsFiniteSet(Recruiters) PROVE Spec => [](TypeInv /\ DayInv)
<1>1. TypeInv /\ TypeInv' /\ DayInv /\ [Next]_vars => DayInv'
  BY DayNext
<1> QED
  BY <1>1, DayInit, TypeInvariant, PTL DEF Spec

\* Whichever of two votes saves the row last, the cooldown starts no earlier
\* than the last vote.
THEOREM CooldownStartsAtLastVote == ASSUME IsFiniteSet(Recruiters) PROVE Spec => []VotesBeforeLast
<1>1. DayInv => VotesBeforeLast
  BY DEF DayInv
<1> QED
  BY <1>1, DayInvariant, PTL

\* What the retention command hides is what public_vote_breakdown leaves out.
THEOREM PublicIsUnexpired == ASSUME IsFiniteSet(Recruiters) PROVE Spec => []PublicAreUnexpired
<1>1. TypeInv /\ DayInv => PublicAreUnexpired
  <2> SUFFICES ASSUME TypeInv, DayInv, NEW v \in votes
               PROVE  Public(v) <=> v.day + RetentionDays > today
    BY DEF PublicAreUnexpired
  <2>1. v.day + RetentionDays \in Nat /\ today \in Nat
    BY VoteTypes, DaysAssumption
  <2> QED
    BY <2>1 DEF DayInv, HiddenExpired, Public, ExpiresOn
<1> QED
  BY <1>1, DayInvariant, PTL

-----------------------------------------------------------------------------
(* Rewards. *)

\* What the unique constraint keeps a recruiter from inserting twice.
Keys(r) ==
  {k \in Candidates \X Attributes :
     \E v \in votes : v.recruiter = r /\ v.candidate = k[1] /\ v.attribute = k[2]}

\* The keys of the rows that a worker has inserted.
Own(w) == {job[w].candidate} \X job[w].attrs

\* They are new to its recruiter, and no other worker has inserted them.
NewKeys ==
  /\ \A w \in Workers : job[w].pc \in Uncommitted => Own(w) \cap Keys(job[w].user) = {}
  /\ \A w, x \in Workers :
       w # x /\ job[w].pc \in Uncommitted /\ job[x].pc \in Uncommitted
             /\ job[w].user = job[x].user
         => Own(w) \cap Own(x) = {}

RewardsWithinKeys ==
  \A r \in Recruiters :
    Cardinality(VotedBy(r)) <= rewards[r] /\ rewards[r] <= Cardinality(Keys(r))

KeyInv == IsFiniteSet(votes) /\ NewKeys /\ RewardsWithinKeys

\* A recruiter has no more keys, and has voted on no more candidates, than rows.
LEMMA RowsOfFinite ==
  ASSUME TypeInv, IsFiniteSet(votes), NEW r
  PROVE  LET rows == {v \in votes : v.recruiter = r} IN
         /\ IsFiniteSet(rows) /\ IsFiniteSet(Keys(r)) /\ IsFiniteSet(VotedBy(r))
         /\ Cardinality(Keys(r)) <= Cardinality(rows)
         /\ Cardinality(rows) \in Nat /\ Cardinality(Keys(r)) \in Nat
         /\ Cardinality(VotedBy(r)) \in Nat
<1> DEFINE rows == {v \in votes : v.recruiter = r}
<1>1. IsFiniteSet(rows)
  BY FS_Subset
<1>2. [v \in rows |-> <<v.candidate, v.attribute>>] \in Surjection(rows, Keys(r))
  <2> DEFINE f == [v \in rows |-> <<v.candidate, v.attribute>>]
  <2>1. \A v \in rows : <<v.candidate, v.attribute>> \in Keys(r)
    BY VoteTypes DEF Keys
  <2>2. ASSUME NEW k \in Keys(r) PROVE \E v \in rows : f[v] = k
    <3>1. PICK c \in Candidates, a \in Attributes : k = <<c, a>>
      BY DEF Keys
    <3>2. PICK v \in rows : v.candidate = c /\ v.attribute = a
      BY <3>1 DEF Keys
    <3> QED
      BY <3>1, <3>2
  <2> QED
    BY <2>1, <2>2 DEF Surjection
<1>3. [v \in rows |-> v.candidate] \in Surjection(rows, VotedBy(r))
  BY VoteTypes DEF Surjection, VotedBy, Voted
<1>4. IsFiniteSet(Keys(r)) /\ Cardinality(Keys(r)) <= Cardinality(rows)
  <2> HIDE DEF rows
  <2> QED
    BY <1>1, <1>2, FS_Surjection
<1>5. IsFiniteSet(VotedBy(r))
  <2> HIDE DEF rows
  <2> QED
    BY <1>1, <1>3, FS_Surjection
<1> QED
  BY <1>1, <1>4, <1>5, FS_CardinalityType

LEMMA KeyInit == Init => KeyInv
<1> SUFFICES ASSUME Init PROVE KeyInv
  OBVIOUS
<1>1. \A r \in Recruiters : VotedBy(r) = {} /\ Keys(r) = {} /\ rewards[r] = 0
  BY DEF Init, VotedBy, Voted, Keys
<1>2. IsFiniteSet(votes) /\ RewardsWithinKeys
  BY <1>1, FS_EmptySet DEF Init, RewardsWithinKeys
<1> QED
  BY <1>2 DEF Init, KeyInv, NewKeys, NoJob, Uncommitted

\* A worker that goes on inserts keys nobody has.
LEMMA OwnStep ==
  ASSUME TypeInv, KeyInv, UNCHANGED stored, NEW w \in Workers,
         \/ \E r \in Recruiters : Load(w, r)
         \/ \E c \in Candidates, attrs \in SUBSET Attributes : Check(w, c, attrs)
         \/ ListPriors(w) \/ Insert(w) \/ Mark(w) \/ SaveCandidate(w) \/ Rollback(w)
  PROVE  \/ job'[w].pc \notin Uncommitted
         \/ /\ job'[w].user = job[w].user /\ Own(w)' = Own(w)
            /\ Own(w) \cap Keys(job[w].user) = {}
            /\ \A x \in Workers : x # w /\ job[x].pc \in Uncommitted /\ job[x].user = job[w].user
                                    => Own(w) \cap Own(x) = {}
<1>1. CASE \/ \E r \in Recruiters : Load(w, r)
           \/ \E c \in Candidates, attrs \in SUBSET Attributes : Check(w, c, attrs)
           \/ ListPriors(w) \/ Rollback(w)
  <2>1. job'[w].pc \in {"loaded", "checked", "listed", "idle"}
    BY <1>1, StepFields
  <2> QED
    BY <2>1 DEF Uncommitted
<1>2. CASE Insert(w)
  <2>1. job'[w].user = job[w].user /\ Own(w)' = Own(w)
    BY <1>2, StepFields DEF Own
  <2>2. Unique(w)
    BY <1>2 DEF Insert
  <2>3. Own(w) \cap Keys(job[w].user) = {}
    BY <2>2 DEF Unique, Own, Keys
  <2>4. ASSUME NEW x \in Workers, x # w, job[x].pc \in Uncommitted, job[x].user = job[w].user
        PROVE  Own(w) \cap Own(x) = {}
    BY <2>2, <2>4 DEF Unique, Own, Holds
  <2> QED
    BY <2>1, <2>3, <2>4
<1>3. CASE Mark(w) \/ SaveCandidate(w)
  <2>1. job'[w].user = job[w].user /\ Own(w)' = Own(w)
    BY <1>3, StepFields DEF Own
  <2>2. job[w].pc \in Uncommitted
    BY <1>3 DEF Mark, SaveCandidate, Uncommitted
  <2> QED
    BY <2>1, <2>2 DEF KeyInv, NewKeys
<1> QED
  BY <1>1, <1>2, <1>3

LEMMA KeyNext ==
  ASSUME IsFiniteSet(Attributes), TypeInv, TypeInv', KeyInv, [Next]_vars
  PROVE  KeyInv'
<1>1. ASSUME ~Hide, \A w \in Workers : ~Commit(w) PROVE KeyInv'
  <2>1. UNCHANGED stored
    BY <1>1, QuietStep
  <2>2. IsFiniteSet(votes)' /\ RewardsWithinKeys' /\ \A r : Keys(r)' = Keys(r)
    BY <2>1 DEF KeyInv, RewardsWithinKeys, Keys, VotedBy, Voted, stored
  <2>3. CASE UNCHANGED job
    BY <2>2, <2>3 DEF KeyInv, NewKeys, Own
  <2>4. CASE ~UNCHANGED job
    <3>1. PICK w \in Workers :
            /\ \A x \in Workers : x # w => job'[x] = job[x]
            /\ \/ \E r \in Recruiters : Load(w, r)
               \/ \E c \in Candidates, attrs \in SUBSET Attributes : Check(w, c, attrs)
               \/ ListPriors(w) \/ Insert(w) \/ Mark(w) \/ SaveCandidate(w) \/ Rollback(w)
      BY <1>1, <2>4, QuietStep
    <3>2. \/ job'[w].pc \notin Uncommitted
          \/ /\ job'[w].user = job[w].user /\ Own(w)' = Own(w)
             /\ Own(w) \cap Keys(job[w].user) = {}
             /\ \A x \in Workers :
                  x # w /\ job[x].pc \in Uncommitted /\ job[x].user = job[w].user
                    => Own(w) \cap Own(x) = {}
      BY <2>1, <3>1, OwnStep
    <3>3. \A x \in Workers : x # w => Own(x)' = Own(x)
      BY <3>1 DEF Own
    <3>4. NewKeys'
      BY <2>2, <3>1, <3>2, <3>3 DEF KeyInv, NewKeys
    <3> QED
      BY <2>2, <3>4 DEF KeyInv
  <2> QED
    BY <2>3, <2>4
<1>2. CASE Hide
  <2>1. /\ votes' = {Retained(v) : v \in votes}
        /\ \A v \in votes : /\ Retained(v).recruiter = v.recruiter
                            /\ Retained(v).candidate = v.candidate
                            /\ Retained(v).attribute = v.attribute
    BY <1>2, HideRows
  <2>2. UNCHANGED <<rewards, job>>
    BY <1>2 DEF Hide
  <2>3. IsFiniteSet(votes')
    <3>1. [v \in votes |-> Retained(v)] \in Surjection(votes, votes')
      BY <2>1 DEF Surjection
    <3> QED
      BY <3>1, FS_Surjection DEF KeyInv
  <2>4. \A r : Keys(r)' = Keys(r)
    BY <2>1 DEF Keys
  <2>5. \A r : VotedBy(r)' = VotedBy(r)
    BY <2>1 DEF VotedBy, Voted
  <2>6. RewardsWithinKeys'
    BY <2>2, <2>4, <2>5 DEF KeyInv, RewardsWithinKeys
  <2>7. NewKeys'
    BY <2>2, <2>4 DEF KeyInv, NewKeys, Own
  <2> QED
    BY <2>3, <2>6, <2>7 DEF KeyInv
<1>3. ASSUME NEW w \in Workers, Commit(w) PROVE KeyInv'
  <2>1. PICK u, d, attrs : u = job[w].user /\ d = job[w].candidate /\ attrs = job[w].attrs
    OBVIOUS
  <2>2. /\ job[w].pc = "saved" /\ u \in Recruiters /\ d \in Candidates
        /\ attrs \subseteq Attributes /\ attrs # {}
    BY <1>3, <2>1 DEF Commit, TypeInv, TypeOK, Jobs, JobsFit, JobFits, Begun
  <2>3. votes' = votes \cup Added(w)
    BY <1>3, <2>2, CommitVoted
  <2>4. IsFiniteSet(votes')
    <3> DEFINE f == [a \in attrs |-> [candidate |-> d, recruiter |-> u, attribute |-> a,
                                      day |-> job[w].day, visible |-> TRUE]]
    <3>1. f \in Surjection(attrs, Added(w))
      <4>1. \A a \in attrs : f[a] \in Added(w)
        BY <2>1 DEF Added
      <4>2. ASSUME NEW v \in Added(w) PROVE \E a \in attrs : f[a] = v
        <5>1. /\ v = [candidate |-> v.candidate, recruiter |-> v.recruiter,
                      attribute |-> v.attribute, day |-> v.day, visible |-> v.visible]
              /\ v.candidate = d /\ v.recruiter = u /\ v.attribute \in attrs
              /\ v.day = job[w].day /\ v.visible = TRUE
          BY <2>1 DEF Added
        <5> QED
          BY <5>1
      <4> QED
        BY <4>1, <4>2 DEF Surjection
    <3>2. IsFiniteSet(attrs)
      BY <2>2, FS_Subset
    <3>3. IsFiniteSet(Added(w))
      <4> HIDE DEF f
      <4> QED
        BY <3>1, <3>2, FS_Surjection
    <3> QED
      BY <2>3, <3>3, FS_Union DEF KeyInv
  <2>5. PICK K : K = {d} \X attrs
    OBVIOUS
  <2>6. Own(w) = K /\ K \cap Keys(u) = {}
    BY <2>1, <2>2, <2>5 DEF Own, KeyInv, NewKeys, Uncommitted
  <2>7. \A r : Keys(r)' = IF r = u THEN Keys(r) \cup K ELSE Keys(r)
    <3>1. ASSUME NEW a \in attrs
          PROVE  \E v \in Added(w) : v.recruiter = u /\ v.candidate = d /\ v.attribute = a
      <4>1. [candidate |-> d, recruiter |-> u, attribute |-> a,
             day |-> job[w].day, visible |-> TRUE] \in Added(w)
        BY <2>1 DEF Added
      <4> QED
        BY <4>1
    <3>2. \A v \in Added(w) : v.recruiter = u /\ v.candidate = d /\ v.attribute \in attrs
      BY <2>1 DEF Added
    <3> QED
      BY <2>2, <2>3, <2>5, <3>1, <3>2 DEF Keys
  <2>8. \A r \in Recruiters :
          VotedBy(r)' = IF r = u THEN VotedBy(r) \cup {d} ELSE VotedBy(r)
    BY <1>3, <2>1, <2>2, CommitVoted DEF VotedBy
  <2>9. rewards' = [rewards EXCEPT ![u] = @ + 1]
    BY <1>3, <2>1 DEF Commit
  <2>10. ASSUME NEW r \in Recruiters
         PROVE  Cardinality(VotedBy(r)') <= rewards'[r] /\ rewards'[r] <= Cardinality(Keys(r)')
    <3>1. Cardinality(VotedBy(r)) <= rewards[r] /\ rewards[r] <= Cardinality(Keys(r))
      BY DEF KeyInv, RewardsWithinKeys
    <3>2. rewards[r] \in Nat
      BY DEF TypeInv, TypeOK
    <3>3. /\ IsFiniteSet(VotedBy(r)) /\ Cardinality(VotedBy(r)) \in Nat
          /\ IsFiniteSet(Keys(r)) /\ Cardinality(Keys(r)) \in Nat
      BY RowsOfFinite DEF KeyInv
    <3>4. CASE r = u
      <4>1. rewards'[r] = rewards[r] + 1
        BY <2>2, <2>9, <3>4 DEF TypeInv, TypeOK
      <4>2. Cardinality(VotedBy(r) \cup {d}) <= Cardinality(VotedBy(r)) + 1
        <5>1. PICK V : V = VotedBy(r)
          OBVIOUS
        <5>2. Cardinality(V \cup {d}) = IF d \in V THEN Cardinality(V) ELSE Cardinality(V) + 1
          BY <3>3, <5>1, FS_AddElement
        <5> QED
          BY <3>3, <5>1, <5>2
      <4>3. PICK a : a \in attrs
        BY <2>2
      <4>4. <<d, a>> \in K /\ <<d, a>> \notin Keys(r)
        BY <2>5, <2>6, <3>4, <4>3
      <4>5. Cardinality(Keys(r) \cup {<<d, a>>}) = Cardinality(Keys(r)) + 1
        BY <3>3, <4>4, FS_AddElement
      <4>6. PICK T : T = Keys(r) \cup K
        OBVIOUS
      <4>7. IsFiniteSet(T)
        <5>1. IsFiniteSet(attrs) /\ IsFiniteSet({d})
          BY <2>2, FS_Subset, FS_Singleton
        <5>2. IsFiniteSet(K)
          BY <2>5, <5>1, FS_Product
        <5> QED
          BY <3>3, <4>6, <5>2, FS_Union
      <4>8. Cardinality(Keys(r) \cup {<<d, a>>}) <= Cardinality(T) /\ Cardinality(T) \in Nat
        <5>1. Keys(r) \cup {<<d, a>>} \subseteq T
          BY <4>4, <4>6
        <5> QED
          BY <4>7, <5>1, FS_Subset, FS_CardinalityType
      <4>9. IsFiniteSet(VotedBy(r) \cup {d}) /\ Cardinality(VotedBy(r) \cup {d}) \in Nat
        BY <3>3, FS_AddElement, FS_CardinalityType
      <4>10. VotedBy(r)' = VotedBy(r) \cup {d} /\ Keys(r)' = T
        BY <2>7, <2>8, <3>4, <4>6
      <4> QED
        BY <3>1, <3>2, <3>3, <4>1, <4>2, <4>5, <4>8, <4>9, <4>10
    <3>5. CASE r # u
      <4>1. rewards'[r] = rewards[r] /\ VotedBy(r)' = VotedBy(r) /\ Keys(r)' = Keys(r)
        BY <2>7, <2>8, <2>9, <3>5 DEF TypeInv, TypeOK
      <4> QED
        BY <3>1, <4>1
    <3> QED
      BY <3>4, <3>5
  <2>11. /\ job'[w].pc = "idle"
         /\ \A x \in Workers : x # w => job'[x] = job[x] /\ Own(x)' = Own(x)
    BY <1>3, StepFields DEF Commit, TypeInv, TypeOK, Own
  <2>12. NewKeys'
    <3>1. ASSUME NEW x \in Workers, job'[x].pc \in Uncommitted
          PROVE  Own(x)' \cap (Keys(job[x].user))' = {}
      <4>1. x # w /\ job'[x] = job[x] /\ Own(x)' = Own(x)
        BY <2>11, <3>1 DEF Uncommitted
      <4>2. PICK r : r = job[x].user
        OBVIOUS
      <4>3. Own(x) \cap Keys(r) = {}
        BY <3>1, <4>1, <4>2 DEF KeyInv, NewKeys
      <4>4. r = u => Own(x) \cap K = {}
        BY <2>1, <2>2, <2>6, <3>1, <4>1, <4>2 DEF KeyInv, NewKeys, Uncommitted
      <4>5. Own(x) \cap Keys(r)' = {}
        BY <2>7, <4>3, <4>4
      <4>6. job'[x].user = r
        BY <4>1, <4>2
      <4> QED
        BY <4>1, <4>5, <4>6
    <3> QED
      BY <2>11, <3>1 DEF KeyInv, NewKeys, Uncommitted
  <2> QED
    BY <2>4, <2>10, <2>12 DEF KeyInv, RewardsWithinKeys
<1> QED
  BY <1>1, <1>2, <1>3

LEMMA KeyInvariant ==
  ASSUME IsFiniteSet(Recruiters), IsFiniteSet(Attributes)
  PROVE  Spec => [](TypeInv /\ KeyInv)
<1>1. TypeInv /\ TypeInv' /\ KeyInv /\ [Next]_vars => KeyInv'
  BY KeyNext
<1> QED
  BY <1>1, KeyInit, TypeInvariant, PTL DEF Spec

\* As many rewards as candidates voted on at least, and as rows at most.
THEOREM RewardsAreForVotes ==
  ASSUME IsFiniteSet(Recruiters), IsFiniteSet(Attributes)
  PROVE  Spec => []RewardsMatchVotes
<1>1. TypeInv /\ KeyInv => RewardsMatchVotes
  <2> SUFFICES ASSUME TypeInv, KeyInv, NEW r \in Recruiters
               PROVE  /\ Cardinality(VotedBy(r)) <= rewards[r]
                      /\ rewards[r] <= Cardinality({v \in votes : v.recruiter = r})
    BY DEF RewardsMatchVotes
  <2>1. PICK n : n = Cardinality({v \in votes : v.recruiter = r})
    OBVIOUS
  <2>2. Cardinality(Keys(r)) <= n /\ n \in Nat /\ Cardinality(Keys(r)) \in Nat
    BY <2>1, RowsOfFinite DEF KeyInv
  <2>3. rewards[r] \in Nat
    BY DEF TypeInv, TypeOK
  <2> QED
    BY <2>1, <2>2, <2>3 DEF KeyInv, RewardsWithinKeys
<1> QED
  BY <1>1, KeyInvariant, PTL

-----------------------------------------------------------------------------
(* What voting promises when votes are cast one after the other.  With a   *)
(* second worker none of it holds; see the README.                         *)

OneWorker == \A v, w \in Workers : v = w

\* A recruiter's votes are a cooldown behind him on a day.
Rested(r, day) == \A v \in votes : v.recruiter = r => v.day + VoteCooldownDays <= day

\* What a lone worker has read is still so: nobody else has changed it.
SerialJob(w) ==
  LET j == job[w] IN
  /\ j.pc = "loaded" => j.mem.lastVote = row[j.user].lastVote
  /\ j.pc \in Begun => ~Voted(j.user, j.candidate)
  /\ j.pc \in {"checked", "listed"} => Rested(j.user, today)
  /\ j.pc \in Uncommitted => Rested(j.user, j.day)
  /\ j.pc = "listed" \/ j.pc \in Uncommitted => j.prior = Priors(j.user, j.candidate)
  /\ j.pc \in Locking => j.tally = Cardinality(Voters(j.candidate) \cup {j.user})

CountIsVoters == \A c \in Candidates : count[c] = Cardinality(Voters(c))

SerialInv == (\A w \in Workers : SerialJob(w)) /\ CountIsVoters /\ Cooldown

LEMMA SerialInit == Init => SerialInv
<1> SUFFICES ASSUME Init PROVE SerialInv
  OBVIOUS
<1>1. \A c \in Candidates : Voters(c) = {} /\ count[c] = 0
  BY DEF Init, Voters, Voted
<1>2. \A w \in Workers : SerialJob(w)
  BY DEF Init, NoJob, SerialJob, Begun, Uncommitted, Locking
<1>3. CountIsVoters
  BY <1>1, FS_EmptySet DEF CountIsVoters
<1> QED
  BY <1>2, <1>3 DEF Init, SerialInv, Cooldown

LEMMA TodayGrows == ASSUME TypeInv, [Next]_vars PROVE today' \in Nat /\ today' >= today
<1>1. ASSUME NEW w \in Workers, Vote(w) PROVE today' = today
  BY <1>1 DEF Vote, Load, Check, ListPriors, Insert, Mark, SaveCandidate, Commit, Rollback
<1>2. today' = today \/ today' = today + 1
  BY <1>1 DEF Next, Settings, DeleteProfile, Hide, NextDay, vars
<1> QED
  BY <1>2, VoteTypes

\* While the lone worker is at work, nobody's profile or settings change.
LEMMA PeopleStay ==
  ASSUME OneWorker, [Next]_vars, NEW w \in Workers, job[w].pc # "idle"
  PROVE  UNCHANGED people
<1>1. ~FreeWorker
  BY DEF OneWorker, FreeWorker
<1>2. ASSUME NEW x \in Workers, Vote(x) PROVE UNCHANGED people
  BY <1>2 DEF Vote, Load, Check, ListPriors, Insert, Mark, SaveCandidate, Commit, Rollback,
              people
<1> QED
  BY <1>1, <1>2 DEF Next, Settings, DeleteProfile, Hide, NextDay, vars, people

\* A job that nothing but the days goes past.
LEMMA SerialStay ==
  ASSUME TypeInv, SerialInv, OneWorker, [Next]_vars, UNCHANGED stored, NEW w \in Workers,
         job'[w] = job[w]
  PROVE  SerialJob(w)'
<1>1. job[w].pc # "idle" => UNCHANGED people
  BY PeopleStay
<1>2. today' \in Nat /\ today' >= today
  BY TodayGrows
<1>3. \A r : Rested(r, today) => Rested(r, today)'
  BY <1>2, VoteTypes, CooldownAssumption DEF Rested, stored
<1>4. /\ \A r, c : Voted(r, c)' <=> Voted(r, c)
      /\ \A c : Voters(c)' = Voters(c)
      /\ \A r, day : Rested(r, day) => Rested(r, day)'
  BY DEF Voted, Voters, Rested, stored
<1>5. job[w].pc # "idle" => \A r, c : Priors(r, c)' = Priors(r, c)
  BY <1>1, <1>4 DEF Priors, people
<1>6. SerialJob(w)
  BY DEF SerialInv
<1>7. job[w].pc = "idle" => SerialJob(w)'
  BY DEF SerialJob, Begun, Uncommitted, Locking
<1> QED
  BY <1>3, <1>4, <1>5, <1>6, <1>7 DEF SerialJob, stored

\* The fields that the first steps of a worker change.
LEMMA SerialFields ==
  ASSUME TypeInv, NEW w \in Workers
  PROVE  /\ \A r \in Recruiters : Load(w, r) => job'[w].user = r /\ job'[w].mem = row[r]
         /\ \A c \in Candidates, attrs \in SUBSET Attributes :
              Check(w, c, attrs) => job'[w].user = job[w].user /\ job'[w].candidate = c
         /\ Insert(w) => job'[w].day = today
<1>1. job[w] \in Jobs
  BY DEF TypeInv, TypeOK
<1>2. ASSUME NEW r \in Recruiters, Load(w, r)
      PROVE  job'[w].user = r /\ job'[w].mem = row[r]
  BY <1>1, <1>2 DEF Load, TypeInv, TypeOK, Jobs
<1>3. ASSUME NEW c \in Candidates, NEW attrs \in SUBSET Attributes, Check(w, c, attrs)
      PROVE  job'[w].user = job[w].user /\ job'[w].candidate = c
  BY <1>1, <1>3 DEF Check, TypeInv, TypeOK, Jobs
<1>4. ASSUME Insert(w) PROVE job'[w].day = today
  BY <1>1, <1>4 DEF Insert, TypeInv, TypeOK, Jobs
<1> QED
  BY <1>2, <1>3, <1>4

\* What a lone worker has read when it goes on.
LEMMA SerialJobStep ==
  ASSUME OneWorker, TypeInv, DayInv, SerialInv, [Next]_vars, UNCHANGED stored,
         NEW w \in Workers, today' = today,
         \/ \E r \in Recruiters : Load(w, r)
         \/ \E c \in Candidates, attrs \in SUBSET Attributes : Check(w, c, attrs)
         \/ ListPriors(w) \/ Insert(w) \/ Mark(w) \/ SaveCandidate(w) \/ Rollback(w)
  PROVE  SerialJob(w)'
<1>1. /\ \A r, c : Voted(r, c)' <=> Voted(r, c)
      /\ \A c : Voters(c)' = Voters(c)
      /\ \A r, day : Rested(r, day)' <=> Rested(r, day)
  BY DEF Voted, Voters, Rested, stored
<1>2. job[w].pc # "idle" => \A r, c : Priors(r, c)' = Priors(r, c)
  BY <1>1, PeopleStay DEF Priors, people
<1>3. SerialJob(w)
  BY DEF SerialInv
<1>4. CASE \E r \in Recruiters : Load(w, r)
  <2>1. PICK r \in Recruiters : Load(w, r)
    BY <1>4
  <2>2. job'[w].pc = "loaded" /\ job'[w].user = r /\ job'[w].mem = row[r]
    BY <2>1, StepFields, SerialFields
  <2> QED
    BY <2>2 DEF SerialJob, stored, Begun, Uncommitted, Locking
<1>5. CASE \E c \in Candidates, attrs \in SUBSET Attributes : Check(w, c, attrs)
  <2>1. PICK c \in Candidates, attrs \in SUBSET Attributes : Check(w, c, attrs)
    BY <1>5
  <2>2. job'[w].pc = "checked" /\ job'[w].user = job[w].user /\ job'[w].candidate = c
    BY <2>1, StepFields, SerialFields
  <2>3. /\ job[w].pc = "loaded" /\ ~Voted(job[w].user, c)
        /\ job[w].user \in Recruiters /\ CanVoteToday(job[w].mem, today)
    BY <2>1 DEF Check, VotedAlready, TypeInv, JobsFit, JobFits
  <2>4. Rested(job[w].user, today)
    <3> SUFFICES ASSUME NEW v \in votes, v.recruiter = job[w].user
                 PROVE  v.day + VoteCooldownDays <= today
      BY DEF Rested
    <3>1. v.day <= job[w].mem.lastVote
      BY <1>3, <2>3 DEF SerialJob, DayInv, VotesBeforeLast
    <3>2. v.day \in 1 .. MaxDay
      BY DEF TypeInv, TypeOK, Votes
    <3> QED
      BY <2>3, <3>1, <3>2, VoteTypes, CooldownAssumption, DaysAssumption DEF CanVoteToday, NoDay
  <2> QED
    BY <1>1, <2>2, <2>3, <2>4 DEF SerialJob, Uncommitted, Locking
<1>6. CASE ListPriors(w)
  <2>1. /\ job[w].pc = "checked" /\ job'[w].pc = "listed" /\ job'[w].user = job[w].user
        /\ job'[w].candidate = job[w].candidate
        /\ job'[w].prior = Priors(job[w].user, job[w].candidate)
    BY <1>6, StepFields DEF ListPriors
  <2> QED
    BY <1>1, <1>2, <1>3, <2>1 DEF SerialJob, Begun, Uncommitted, Locking
<1>7. CASE Insert(w)
  <2>1. /\ job[w].pc = "listed" /\ job'[w].pc = "inserted" /\ job'[w].user = job[w].user
        /\ job'[w].candidate = job[w].candidate /\ job'[w].prior = job[w].prior
        /\ job'[w].day = today
    BY <1>7, StepFields, SerialFields DEF Insert
  <2> QED
    BY <1>1, <1>2, <1>3, <2>1 DEF SerialJob, Begun, Uncommitted, Locking
<1>8. CASE Mark(w)
  <2>1. /\ job[w].pc = "inserted" /\ job'[w].pc = "marked" /\ job'[w].user = job[w].user
        /\ job'[w].candidate = job[w].candidate /\ job'[w].prior = job[w].prior
        /\ job'[w].day = job[w].day
        /\ job'[w].tally = Cardinality(Voters(job[w].candidate) \cup {job[w].user})
    BY <1>8, StepFields DEF Mark, Tally
  <2> QED
    BY <1>1, <1>2, <1>3, <2>1 DEF SerialJob, Begun, Uncommitted, Locking
<1>9. CASE SaveCandidate(w)
  <2>1. /\ job[w].pc = "marked" /\ job'[w].pc = "saved" /\ job'[w].user = job[w].user
        /\ job'[w].candidate = job[w].candidate /\ job'[w].prior = job[w].prior
        /\ job'[w].day = job[w].day /\ job'[w].tally = job[w].tally
    BY <1>9, StepFields DEF SaveCandidate
  <2> QED
    BY <1>1, <1>2, <1>3, <2>1 DEF SerialJob, Begun, Uncommitted, Locking
<1>10. CASE Rollback(w)
  <2>1. job'[w].pc = "idle"
    BY <1>10, StepFields
  <2> QED
    BY <2>1 DEF SerialJob, Begun, Uncommitted, Locking
<1> QED
  BY <1>4, <1>5, <1>6, <1>7, <1>8, <1>9, <1>10

\* The commit of a lone worker is the first vote of its recruiter on its
\* candidate, and its count is that of the voters.
LEMMA SerialCommit ==
  ASSUME IsFiniteSet(Recruiters), TypeInv, SerialInv, NEW w \in Workers, Commit(w),
         NEW u, NEW d, u = job[w].user, d = job[w].candidate
  PROVE  /\ u \in Recruiters /\ d \in Candidates /\ ~Voted(u, d)
         /\ \A c \in Candidates : Voters(c)' = IF c = d THEN Voters(c) \cup {u} ELSE Voters(c)
         /\ count' = [count EXCEPT ![d] = @ + 1]
         /\ count'[d] = Cardinality(Voters(d)')
<1>1. u \in Recruiters /\ d \in Candidates /\ job[w].pc = "saved"
  BY DEF Commit, TypeInv, JobsFit, JobFits, Begun
<1>2. ~Voted(u, d) /\ job[w].tally = Cardinality(Voters(d) \cup {u})
  BY <1>1 DEF SerialInv, SerialJob, Begun, Locking
<1>3. \A c \in Candidates : Voters(c)' = IF c = d THEN Voters(c) \cup {u} ELSE Voters(c)
  <2>1. \A r \in Recruiters, c \in Candidates : Voted(r, c)' <=> Voted(r, c) \/ (r = u /\ c = d)
    BY CommitVoted
  <2> QED
    BY <1>1, <2>1 DEF Voters
<1>4. Cardinality(Voters(d) \cup {u}) = Cardinality(Voters(d)) + 1
  <2>1. PICK V : V = Voters(d)
    OBVIOUS
  <2>2. IsFiniteSet(V) /\ u \notin V
    BY <1>1, <1>2, <2>1, VotersFinite DEF Voters
  <2>3. Cardinality(V \cup {u}) = Cardinality(V) + 1
    BY <2>2, FS_AddElement
  <2> QED
    BY <2>1, <2>3
<1>5. count' = [count EXCEPT ![d] = job[w].tally] /\ count[d] = Cardinality(Voters(d))
  BY <1>1 DEF Commit, SerialInv, CountIsVoters
<1>6. count' = [count EXCEPT ![d] = @ + 1]
  BY <1>2, <1>4, <1>5
<1>7. count'[d] = job[w].tally
  BY <1>1, <1>5 DEF TypeInv, TypeOK
<1>8. count'[d] = Cardinality(Voters(d)')
  <2>1. Voters(d)' = Voters(d) \cup {u}
    BY <1>1, <1>3
  <2> QED
    BY <1>2, <1>7, <2>1
<1> QED
  BY <1>1, <1>2, <1>3, <1>6, <1>8

LEMMA SerialNext ==
  ASSUME OneWorker, IsFiniteSet(Recruiters), TypeInv, DayInv, SerialInv, [Next]_vars
  PROVE  SerialInv'
<1>1. ASSUME ~Hide, \A w \in Workers : ~Commit(w) PROVE SerialInv'
  <2>1. UNCHANGED stored
    BY <1>1, QuietStep
  <2>2. CountIsVoters' /\ Cooldown'
    BY <2>1 DEF SerialInv, CountIsVoters, Cooldown, Voters, Voted, stored
  <2>3. ASSUME NEW x \in Workers PROVE SerialJob(x)'
    <3>1. CASE UNCHANGED job
      BY <2>1, <3>1, SerialStay
    <3>2. CASE ~UNCHANGED job
      <4>1. PICK w \in Workers :
              /\ today' = today
              /\ \/ \E r \in Recruiters : Load(w, r)
                 \/ \E c \in Candidates, attrs \in SUBSET Attributes : Check(w, c, attrs)
                 \/ ListPriors(w) \/ Insert(w) \/ Mark(w) \/ SaveCandidate(w) \/ Rollback(w)
        BY <1>1, <3>2, QuietStep
      <4>2. SerialJob(w)'
        BY <2>1, <4>1, SerialJobStep
      <4> QED
        BY <4>2 DEF OneWorker
    <3> QED
      BY <3>1, <3>2
  <2> QED
    BY <2>2, <2>3 DEF SerialInv
<1>2. CASE Hide
  <2>1. /\ votes' = {Retained(v) : v \in votes}
        /\ \A v \in votes : /\ Retained(v).recruiter = v.recruiter /\ Retained(v).day = v.day
                            /\ Retained(v).candidate = v.candidate
    BY <1>2, HideRows
  <2>2. UNCHANGED <<today, people, row, count, job>>
    BY <1>2 DEF Hide
  <2>3. /\ \A r, c : Voted(r, c)' <=> Voted(r, c)
        /\ \A r, day : Rested(r, day)' <=> Rested(r, day)
    BY <2>1 DEF Voted, Rested
  <2>4. /\ \A c : Voters(c)' = Voters(c)
        /\ \A r, c : Priors(r, c)' = Priors(r, c)
    BY <2>2, <2>3 DEF Voters, Priors, people
  <2>5. ASSUME NEW w \in Workers PROVE SerialJob(w)'
    <3>1. SerialJob(w)
      BY DEF SerialInv
    <3> QED
      BY <2>2, <2>3, <2>4, <3>1 DEF SerialJob
  <2>6. CountIsVoters'
    BY <2>2, <2>4 DEF SerialInv, CountIsVoters
  <2>7. Cooldown'
    BY <2>1 DEF SerialInv, Cooldown
  <2> QED
    BY <2>5, <2>6, <2>7 DEF SerialInv
<1>3. ASSUME NEW w \in Workers, Commit(w) PROVE SerialInv'
  <2>0. PICK u, d : u = job[w].user /\ d = job[w].candidate
    OBVIOUS
  <2>1. \A x \in Workers : job'[x].pc = "idle"
    BY <1>3, StepFields DEF OneWorker
  <2>2. \A x \in Workers : SerialJob(x)'
    BY <2>1 DEF SerialJob, Begun, Uncommitted, Locking
  <2>3. CountIsVoters'
    <3>1. ASSUME NEW c \in Candidates PROVE count'[c] = Cardinality(Voters(c)')
      <4>1. CASE c = d
        BY <1>3, <2>0, <4>1, SerialCommit
      <4>2. CASE c # d
        <5>1. Voters(c)' = Voters(c) /\ count'[c] = count[c]
          BY <1>3, <2>0, <4>2, SerialCommit DEF TypeInv, TypeOK
        <5> QED
          BY <5>1 DEF SerialInv, CountIsVoters
      <4> QED
        BY <4>1, <4>2
    <3> QED
      BY <3>1 DEF CountIsVoters, Voters
  <2>4. Cooldown'
    <3>1. /\ u \in Recruiters /\ d \in Candidates /\ ~Voted(u, d)
          /\ votes' = votes \cup Added(w)
      BY <1>3, <2>0, SerialCommit, CommitVoted
    <3>2. \A v \in Added(w) : v.recruiter = u /\ v.candidate = d /\ v.day = job[w].day
      BY <2>0 DEF Added
    <3>3. \A v \in votes : v.recruiter = u => v.day + VoteCooldownDays <= job[w].day
      BY <1>3, <2>0 DEF Commit, SerialInv, SerialJob, Rested, Uncommitted
    <3>4. job[w].day \in Nat
      BY VoteTypes
    <3> QED
      BY <3>1, <3>2, <3>3, <3>4, VoteTypes, CooldownAssumption DEF SerialInv, Cooldown
  <2> QED
    BY <2>2, <2>3, <2>4 DEF SerialInv
<1> QED
  BY <1>1, <1>2, <1>3

LEMMA SerialInvariant ==
  ASSUME OneWorker, IsFiniteSet(Recruiters)
  PROVE  Spec => [](TypeInv /\ DayInv /\ SerialInv)
<1>1. TypeInv /\ DayInv /\ SerialInv /\ [Next]_vars => SerialInv'
  BY SerialNext
<1> QED
  BY <1>1, SerialInit, DayInvariant, PTL DEF Spec

\* Cast one after the other, a recruiter's votes on two candidates are a
\* cooldown apart.
THEOREM SerialCooldown ==
  ASSUME OneWorker, IsFiniteSet(Recruiters)
  PROVE  Spec => []Cooldown
<1>1. SerialInv => Cooldown
  BY DEF SerialInv
<1> QED
  BY <1>1, SerialInvariant, PTL

\* Steps other than a commit leave everyone's votes alone.
LEMMA VotedByCommit ==
  ASSUME TypeInv, [Next]_vars, \A w \in Workers : ~Commit(w)
  PROVE  /\ \A r \in Recruiters, c \in Candidates : Voted(r, c)' <=> Voted(r, c)
         /\ UNCHANGED <<count, rewards>>
<1>1. CASE Hide
  BY <1>1, HideVoted DEF Hide
<1>2. CASE ~Hide
  BY <1>2, QuietStep DEF Voted, stored
<1> QED
  BY <1>1, <1>2

\* Cast one after the other, a vote makes one relay for each other recruiter who
\* has voted on the candidate and wants to hear of it, and none else.
THEOREM SerialOverlapRelayed ==
  ASSUME OneWorker, IsFiniteSet(Recruiters)
  PROVE  Spec => OverlapRelayed
<1>1. ASSUME TypeInv, VotedInv, SerialInv, [Next]_vars,
             NEW r \in Recruiters, NEW c \in Candidates, ~Voted(r, c), Voted(r, c)',
             NEW p \in Recruiters,
             NEW o, o = [initiator |-> p, target |-> r, candidate |-> c]
      PROVE  relays'[o] = IF p # r /\ Voted(p, c) /\ active[p] /\ notify[p] THEN 1 ELSE 0
  <2>1. PICK w \in Workers : Commit(w)
    BY <1>1, VotedByCommit
  <2>2. r = job[w].user /\ c = job[w].candidate
    BY <1>1, <2>1, CommitVoted
  <2>3. job[w].prior = Priors(r, c)
    BY <1>1, <2>1, <2>2 DEF Commit, SerialInv, SerialJob, Uncommitted
  <2>4. o \in Overlaps /\ o.target = r /\ o.candidate = c
    BY <1>1 DEF Overlaps
  <2>5. relays[o] = 0
    <3>1. relays[o] \in Nat
      BY <1>1, <2>4 DEF TypeInv, TypeOK
    <3> QED
      BY <1>1, <2>4, <3>1 DEF VotedInv, RelayHasOverlap
  <2>6. relays'[o] = IF o \in OverlapsOf(w) THEN 1 ELSE 0
    <3>1. relays'[o] = relays[o] + IF o \in OverlapsOf(w) THEN 1 ELSE 0
      BY <2>1, <2>4 DEF Commit
    <3> QED
      BY <2>5, <3>1
  <2>7. o \in OverlapsOf(w) <=> p \in Priors(r, c)
    BY <1>1, <2>2, <2>3 DEF OverlapsOf
  <2>8. p \in Priors(r, c) <=> p # r /\ Voted(p, c) /\ active[p] /\ notify[p]
    BY DEF Priors
  <2> QED
    BY <2>6, <2>7, <2>8
<1>2. TypeInv /\ VotedInv /\ SerialInv /\ [Next]_vars =>
        [\A r \in Recruiters, c \in Candidates :
           ~Voted(r, c) /\ Voted(r, c)' =>
             \A p \in Recruiters :
               LET o == [initiator |-> p, target |-> r, candidate |-> c] IN
               relays'[o] = IF p # r /\ Voted(p, c) /\ active[p] /\ notify[p] THEN 1 ELSE 0]_vars
  BY <1>1
<1> QED
  BY <1>2, SerialInvariant, VotedInvariant, PTL DEF Spec, OverlapRelayed

-----------------------------------------------------------------------------
(* Voting implements the ballot. *)

Cast == {<<v.recruiter, v.candidate>> : v \in votes}

LEMMA CastVoted == \A r, c : <<r, c>> \in Cast <=> Voted(r, c)
BY DEF Cast, Voted

\* Every step is a vote of the ballot or leaves it alone.
LEMMA BallotStep ==
  ASSUME IsFiniteSet(Recruiters), TypeInv, TypeInv', SerialInv, [Next]_vars
  PROVE  \/ \E r \in Recruiters, c \in Candidates :
              /\ <<r, c>> \notin Cast
              /\ Cast' = Cast \cup {<<r, c>>}
              /\ count' = [count EXCEPT ![c] = @ + 1]
              /\ rewards' = [rewards EXCEPT ![r] = @ + 1]
         \/ UNCHANGED <<Cast, count, rewards>>
<1>1. ASSUME \A w \in Workers : ~Commit(w) PROVE UNCHANGED <<Cast, count, rewards>>
  <2>1. /\ \A r \in Recruiters, c \in Candidates : Voted(r, c)' <=> Voted(r, c)
        /\ UNCHANGED <<count, rewards>>
    BY <1>1, VotedByCommit
  <2>2. Cast \subseteq Recruiters \X Candidates /\ Cast' \subseteq Recruiters \X Candidates
    BY DEF Cast, TypeInv, TypeOK, Votes
  <2>3. \A r \in Recruiters, c \in Candidates : <<r, c>> \in Cast' <=> <<r, c>> \in Cast
    BY <2>1 DEF Cast, Voted
  <2>4. Cast' = Cast
    BY <2>2, <2>3
  <2> QED
    BY <2>1, <2>4
<1>2. ASSUME NEW w \in Workers, Commit(w)
      PROVE  \E r \in Recruiters, c \in Candidates :
               /\ <<r, c>> \notin Cast
               /\ Cast' = Cast \cup {<<r, c>>}
               /\ count' = [count EXCEPT ![c] = @ + 1]
               /\ rewards' = [rewards EXCEPT ![r] = @ + 1]
  <2>0. PICK u, d : u = job[w].user /\ d = job[w].candidate
    OBVIOUS
  <2>1. /\ u \in Recruiters /\ d \in Candidates /\ ~Voted(u, d)
        /\ count' = [count EXCEPT ![d] = @ + 1]
    BY <1>2, <2>0, SerialCommit
  <2>2. rewards' = [rewards EXCEPT ![u] = @ + 1]
    BY <1>2, <2>0 DEF Commit
  <2>3. <<u, d>> \notin Cast
    BY <2>1, CastVoted
  <2>4. Cast' = Cast \cup {<<u, d>>}
    <3>1. votes' = votes \cup Added(w)
      BY <1>2, <2>1, CommitVoted
    <3>2. {<<v.recruiter, v.candidate>> : v \in Added(w)} = {<<u, d>>}
      <4>1. PICK a : a \in job[w].attrs
        BY <1>2 DEF Commit, TypeInv, JobsFit, JobFits, Begun
      <4>2. [candidate |-> d, recruiter |-> u, attribute |-> a,
             day |-> job[w].day, visible |-> TRUE] \in Added(w)
        BY <2>0, <4>1 DEF Added
      <4>3. \A v \in Added(w) : v.recruiter = u /\ v.candidate = d
        BY <2>0 DEF Added
      <4> QED
        BY <4>2, <4>3
    <3> QED
      BY <3>1, <3>2 DEF Cast
  <2> QED
    BY <2>1, <2>2, <2>3, <2>4
<1> QED
  BY <1>1, <1>2

\* Cast one after the other, votes implement the ballot: a vote counts once for
\* its profile and once for its recruiter.
THEOREM SerialImplementsBallot ==
  ASSUME OneWorker, IsFiniteSet(Recruiters)
  PROVE  Spec => ImplementsBallot
<1>1. Init => Book!Init
  BY DEF Init, Book!Init
<1>2. TypeInv /\ TypeInv' /\ SerialInv /\ [Next]_vars => [Book!Next]_Book!vars
  BY BallotStep DEF Cast, Book!Next, Book!Vote, Book!vars
<1> QED
  BY <1>1, <1>2, SerialInvariant, PTL DEF Spec, ImplementsBallot, Book!Spec
=============================================================================
