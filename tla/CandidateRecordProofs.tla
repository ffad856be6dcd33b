------------------------ MODULE CandidateRecordProofs ------------------------
(***************************************************************************)
(* Proofs about CandidateRecord for any number of candidates, items,       *)
(* workers, recruiters and deaths: however approvals overlap, die half-way *)
(* and save old copies, what the counts, the platform and the texts of a   *)
(* record are, and what a review leaves.                                   *)
(***************************************************************************)
EXTENDS CandidateRecord, FiniteSetTheorems, TLAPS

-----------------------------------------------------------------------------
(* The inductive invariant. *)

\* The candidate of the item that a worker has in hand.
Target(w) == item[job[w].item].candidate

\* A worker has an item that was submitted; its copy is of a row that was stored
\* and counts no view that was not logged; once it marks an item as approved, the
\* payload has been saved.
JobFits(w) ==
  /\ job[w].pc = "idle" => job[w].item = NoItem
  /\ job[w].pc # "idle" => job[w].item \in Items /\ item[job[w].item].status # "none"
  /\ job[w].pc = "approving" =>
       job[w].copy.stored /\ job[w].copy.profile_views_count <= seen[Target(w)]
  /\ job[w].pc = "marking" => job[w].item \in Range(applied[Target(w)])

ItemFits(i) ==
  item[i].status # "none" => item[i].candidate \in Candidates /\ row[item[i].candidate].stored

\* Nothing is counted, voted or saved on a row that is not there, no view is
\* counted that was not logged, and what is saved was submitted for the row.
RowFits(c) ==
  /\ row[c].profile_views_count <= seen[c]
  /\ ~row[c].stored => seen[c] = 0 /\ voted[c] = {} /\ applied[c] = <<>>
  /\ \A i \in Range(applied[c]) : item[i].status # "none" /\ item[i].candidate = c

FitInv ==
  /\ \A w \in Workers : JobFits(w)
  /\ \A i \in Items : ItemFits(i)
  /\ \A c \in Candidates : RowFits(c)

TypeInv == TypeOK /\ FitInv

\* A field that was ever saved is what its last save proposed, unless lost.
FieldOnRecord(c, f) ==
  (\E n \in DOMAIN applied[c] : f \in Proposed(applied[c][n])) =>
    \E n \in DOMAIN applied[c] :
      /\ LastWriter(c, f, n)
      /\ f \in lost[c] \/ row[c][f] = item[applied[c][n]].payload[f]

RecordInv ==
  /\ \A c \in Candidates, f \in Fields : FieldOnRecord(c, f)
  /\ \A i \in Items : item[i].status = "approved" => i \in Range(applied[item[i].candidate])

\* An item that was not contended is in one hand at most, which has found it
\* pending.
SoleHand ==
  \A w \in Workers :
    job[w].pc # "idle" /\ job[w].item \notin contended =>
      /\ item[job[w].item].status = "pending"
      /\ \A x \in Workers : job[x].item = job[w].item => x = w

\* While nothing went wrong with it, an item that was saved but is not marked is
\* being marked, and one that is being rejected was not saved.
SavedIsMarked ==
  \A i \in Items :
    item[i].status = "pending" /\ i \notin contended \cup failed
        /\ i \in Range(applied[item[i].candidate])
      => \E w \in Workers : job[w].pc = "marking" /\ job[w].item = i

RejectingUnsaved ==
  \A w \in Workers :
    job[w].pc = "rejecting" /\ job[w].item \notin contended \cup failed =>
      job[w].item \notin Range(applied[Target(w)])

ReviewInv == SoleHand /\ SavedIsMarked /\ RejectingUnsaved /\ RejectedLeavesNothing

-----------------------------------------------------------------------------
(* What is written to a row. *)

LEMMA NullRow == NoRow \in Rows
<1>1. Cardinality(Recruiters) \in Nat
  BY RecruitersAssumption, FS_CardinalityType
<1> QED
  BY <1>1, BoundAssumption DEF NoRow, Rows

\* Candidate.save changes the platform, and nothing else.
LEMMA NormalisedRow ==
  ASSUME NEW r \in Rows
  PROVE  /\ Normalised(r) \in Rows
         /\ \A f \in Columns \cup {"stored"} : Normalised(r)[f] = r[f]
         /\ r.dating_profile_url # NoValue =>
              Normalised(r).dating_platform = SocialPlatform[r.dating_profile_url]
         /\ r.dating_profile_url = NoValue => Normalised(r) = r
<1>1. CASE r.dating_profile_url = NoValue
  BY <1>1 DEF Normalised
<1>2. CASE r.dating_profile_url # NoValue
  <2>1. SocialPlatform[r.dating_profile_url] \in Platforms \cup {NoPlatform}
    BY <1>2, PlatformAssumption DEF Rows
  <2>2. Normalised(r) = [r EXCEPT !.dating_platform = SocialPlatform[r.dating_profile_url]]
    BY <1>2 DEF Normalised
  <2> QED
    BY <1>2, <2>1, <2>2 DEF Rows, Columns, Fields
<1> QED
  BY <1>1, <1>2

\* The merged row is a row: what is proposed comes from the payload, the counts
\* and the rest from the copy, and the platform from the url.
LEMMA MergedRow ==
  ASSUME NEW i \in Items, NEW copy \in Rows,
         item[i].payload \in Payloads, item[i].payload.city # Unstorable
  PROVE  /\ Merged(i, copy) \in Rows
         /\ Merged(i, copy).stored = copy.stored
         /\ \A f \in Proposed(i) : Merged(i, copy)[f] = item[i].payload[f]
         /\ \A f \in Columns \ Proposed(i) : Merged(i, copy)[f] = copy[f]
         /\ Merged(i, copy).dating_profile_url # NoValue =>
              Merged(i, copy).dating_platform
                = SocialPlatform[Merged(i, copy).dating_profile_url]
<1>1. PICK m : m = [f \in DOMAIN copy |->
                      IF f \in Proposed(i) THEN item[i].payload[f] ELSE copy[f]]
  OBVIOUS
<1>2. /\ DOMAIN copy = {"stored", "dating_profile_url", "dating_platform", "city",
                        "profile_views_count", "distinct_recruiter_count"}
      /\ Proposed(i) \subseteq Fields
  BY DEF Rows, Proposed
<1>3. /\ m.stored = copy.stored /\ m.dating_platform = copy.dating_platform
      /\ m.profile_views_count = copy.profile_views_count
      /\ m.distinct_recruiter_count = copy.distinct_recruiter_count
      /\ \A f \in Proposed(i) : m[f] = item[i].payload[f]
      /\ \A f \in Columns \ Proposed(i) : m[f] = copy[f]
  BY <1>1, <1>2 DEF Columns, Fields
<1>4. m.dating_profile_url \in Urls \cup {NoValue} /\ m.city \in Cities \cup {NoValue}
  <2>1. \A f \in Fields : m[f] = item[i].payload[f] \/ m[f] = copy[f]
    BY <1>3 DEF Columns, Fields
  <2>2. /\ item[i].payload.dating_profile_url \in Urls \cup {NoValue}
        /\ item[i].payload.city \in Cities \cup {NoValue}
    BY DEF Payloads
  <2>3. /\ copy.dating_profile_url \in Urls \cup {NoValue}
        /\ copy.city \in Cities \cup {NoValue}
    BY DEF Rows
  <2>4. "dating_profile_url" \in Fields /\ "city" \in Fields
    BY DEF Fields
  <2> QED
    BY <2>1, <2>2, <2>3, <2>4
<1>5. m = [stored |-> m.stored, dating_profile_url |-> m.dating_profile_url,
           dating_platform |-> m.dating_platform, city |-> m.city,
           profile_views_count |-> m.profile_views_count,
           distinct_recruiter_count |-> m.distinct_recruiter_count]
  BY <1>1, <1>2
<1>6. m \in Rows
  BY <1>3, <1>4, <1>5 DEF Rows
<1>7. Merged(i, copy) = Normalised(m)
  BY <1>1 DEF Merged
<1>8. /\ Normalised(m) \in Rows
      /\ \A f \in Columns \cup {"stored"} : Normalised(m)[f] = m[f]
      /\ m.dating_profile_url # NoValue =>
           Normalised(m).dating_platform = SocialPlatform[m.dating_profile_url]
  BY <1>6, NormalisedRow
<1>9. Normalised(m).dating_profile_url = m.dating_profile_url /\ Normalised(m).stored = m.stored
  BY <1>8 DEF Columns, Fields
<1> QED
  <2>1. \A f \in Proposed(i) : Normalised(m)[f] = item[i].payload[f]
    BY <1>2, <1>3, <1>8 DEF Columns
  <2>2. \A f \in Columns \ Proposed(i) : Normalised(m)[f] = copy[f]
    BY <1>3, <1>8
  <2> QED
    BY <1>3, <1>7, <1>8, <1>9, <2>1, <2>2

LEMMA NewRowRow ==
  ASSUME NEW url \in Urls \cup {NoValue}, NEW city \in Cities
  PROVE  /\ NewRow(url, city) \in Rows /\ NewRow(url, city).stored
         /\ NewRow(url, city).profile_views_count = 0
         /\ NewRow(url, city).distinct_recruiter_count = 0
         /\ NewRow(url, city).dating_profile_url # NoValue =>
              NewRow(url, city).dating_platform
                = SocialPlatform[NewRow(url, city).dating_profile_url]
<1>1. PICK r : r = [NoRow EXCEPT !.stored = TRUE, !.dating_profile_url = url, !.city = city]
  OBVIOUS
<1>2. /\ r \in Rows /\ r.stored /\ r.profile_views_count = 0
      /\ r.distinct_recruiter_count = 0
  <2>1. NoRow \in Rows
    BY NullRow
  <2>2. r \in Rows
    BY <1>1, <2>1 DEF Rows
  <2> QED
    BY <1>1, <2>2 DEF NoRow
<1>3. NewRow(url, city) = Normalised(r)
  BY <1>1 DEF NewRow
<1>4. Normalised(r).dating_profile_url = r.dating_profile_url
  BY <1>2, NormalisedRow DEF Columns, Fields
<1> QED
  BY <1>2, <1>3, <1>4, NormalisedRow DEF Columns

-----------------------------------------------------------------------------
(* Types. *)

LEMMA InitType == Init => TypeInv
<1> SUFFICES ASSUME Init PROVE TypeInv
  OBVIOUS
<1>1. NoRow \in Rows
  BY NullRow
<1>2. NoJob \in Jobs /\ NoJob.pc = "idle" /\ NoJob.item = NoItem
  BY <1>1 DEF NoJob, Jobs
<1>3. NoSubmission \in Submissions /\ NoSubmission.status = "none"
  BY DEF NoSubmission, NoPayload, Submissions, Payloads, Fields
<1>4. TypeOK
  BY <1>1, <1>2, <1>3, BoundAssumption DEF Init, TypeOK
<1>5. \A c \in Candidates : RowFits(c)
  <2>1. Range(<<>>) = {}
    BY DEF Range
  <2> QED
    BY <1>1, <2>1 DEF Init, RowFits, NoRow
<1> QED
  BY <1>2, <1>3, <1>4, <1>5 DEF Init, TypeInv, FitInv, JobFits, ItemFits

LEMMA CreateType ==
  ASSUME TypeInv, NEW c \in Candidates, NEW url \in Urls \cup {NoValue}, NEW city \in Cities,
         Create(c, url, city)
  PROVE  TypeInv'
<1>1. PICK new : new = NewRow(url, city)
  OBVIOUS
<1>2. new \in Rows /\ new.stored /\ new.profile_views_count = 0
  BY <1>1, NewRowRow
<1>3. /\ row' \in [Candidates -> Rows] /\ row'[c] = new
      /\ \A d \in Candidates : d # c => row'[d] = row[d]
  BY <1>1, <1>2 DEF Create, TypeInv, TypeOK
<1>4. TypeOK'
  BY <1>3 DEF Create, TypeInv, TypeOK
<1>5. \A w \in Workers : JobFits(w)'
  BY DEF Create, TypeInv, FitInv, JobFits, Target
<1>6. ASSUME NEW i \in Items PROVE ItemFits(i)'
  BY <1>2, <1>3 DEF Create, TypeInv, FitInv, ItemFits
<1>7. ASSUME NEW d \in Candidates PROVE RowFits(d)'
  <2>1. RowFits(d) /\ seen[d] \in Nat
    BY BoundAssumption DEF TypeInv, TypeOK, FitInv
  <2>2. CASE d = c
    BY <1>2, <1>3, <2>1, <2>2 DEF Create, RowFits
  <2>3. CASE d # c
    BY <1>3, <2>1, <2>3 DEF Create, RowFits
  <2> QED
    BY <2>2, <2>3
<1> QED
  BY <1>4, <1>5, <1>6, <1>7 DEF TypeInv, FitInv

LEMMA RevealType ==
  ASSUME TypeInv, NEW c \in Candidates, Reveal(c)
  PROVE  TypeInv'
<1>1. PICK n : n = row[c].profile_views_count + 1
  OBVIOUS
<1>2. row[c] \in Rows /\ seen[c] \in 0 .. MaxViews /\ row[c].profile_views_count <= seen[c]
  BY DEF TypeInv, TypeOK, FitInv, RowFits
<1>3. row[c].profile_views_count \in 0 .. MaxViews
  BY <1>2 DEF Rows
<1>4. n \in 0 .. MaxViews /\ seen[c] + 1 \in 0 .. MaxViews /\ n <= seen[c] + 1
  BY <1>1, <1>2, <1>3, BoundAssumption DEF Reveal
<1>5. PICK new : new = [row[c] EXCEPT !.profile_views_count = n]
  OBVIOUS
<1>6. new \in Rows /\ new.profile_views_count = n /\ new.stored = row[c].stored
  BY <1>2, <1>4, <1>5 DEF Rows
<1>7. row' = [row EXCEPT ![c] = new]
  BY <1>1, <1>5 DEF Reveal, TypeInv, TypeOK
<1>8. /\ row' \in [Candidates -> Rows] /\ row'[c] = new
      /\ \A d \in Candidates : d # c => row'[d] = row[d]
  BY <1>6, <1>7 DEF TypeInv, TypeOK
<1>9. /\ seen' \in [Candidates -> 0 .. MaxViews] /\ seen'[c] = seen[c] + 1
      /\ \A d \in Candidates : d # c => seen'[d] = seen[d]
  BY <1>4 DEF Reveal, TypeInv, TypeOK
<1>10. TypeOK'
  BY <1>8, <1>9 DEF Reveal, TypeInv, TypeOK
<1>11. ASSUME NEW w \in Workers PROVE JobFits(w)'
  <2>1. JobFits(w) /\ Target(w)' = Target(w)
    BY DEF Reveal, TypeInv, FitInv, Target
  <2>2. ASSUME job[w].pc = "approving"
        PROVE  job[w].copy.profile_views_count <= seen'[Target(w)]
    <3>1. Target(w) \in Candidates
      <4>1. job[w].item \in Items /\ item[job[w].item].status # "none"
        BY <2>1, <2>2 DEF JobFits
      <4> QED
        BY <4>1 DEF TypeInv, FitInv, ItemFits, Target
    <3>2. \A d \in Candidates : seen[d] \in Int /\ seen'[d] \in Int /\ seen[d] <= seen'[d]
      <4> SUFFICES ASSUME NEW d \in Candidates
                   PROVE  seen[d] \in Int /\ seen'[d] \in Int /\ seen[d] <= seen'[d]
        OBVIOUS
      <4>1. seen[d] \in 0 .. MaxViews
        BY DEF TypeInv, TypeOK
      <4> QED
        BY <1>9, <4>1, BoundAssumption
    <3>3. job[w].copy.profile_views_count \in Int
      BY DEF TypeInv, TypeOK, Jobs, Rows
    <3> QED
      BY <2>1, <2>2, <3>1, <3>2, <3>3 DEF JobFits
  <2> QED
    BY <2>1, <2>2 DEF Reveal, JobFits
<1>12. ASSUME NEW i \in Items PROVE ItemFits(i)'
  BY <1>6, <1>8 DEF Reveal, TypeInv, FitInv, ItemFits
<1>13. ASSUME NEW d \in Candidates PROVE RowFits(d)'
  <2>1. RowFits(d)
    BY DEF TypeInv, FitInv
  <2>2. CASE d = c
    BY <1>4, <1>6, <1>8, <1>9, <2>1, <2>2 DEF Reveal, RowFits
  <2>3. CASE d # c
    BY <1>8, <1>9, <2>1, <2>3 DEF Reveal, RowFits
  <2> QED
    BY <2>2, <2>3
<1> QED
  BY <1>10, <1>11, <1>12, <1>13 DEF TypeInv, FitInv

LEMMA VoteType ==
  ASSUME TypeInv, NEW c \in Candidates, NEW r \in Recruiters, Vote(c, r)
  PROVE  TypeInv'
<1>1. PICK n : n = Cardinality(voted[c] \cup {r})
  OBVIOUS
<1>2. n \in 0 .. Cardinality(Recruiters)
  <2>1. voted[c] \cup {r} \subseteq Recruiters
    BY DEF TypeInv, TypeOK
  <2>2. IsFiniteSet(voted[c] \cup {r}) /\ n <= Cardinality(Recruiters)
    BY <1>1, <2>1, RecruitersAssumption, FS_Subset
  <2> QED
    BY <1>1, <2>2, RecruitersAssumption, FS_CardinalityType
<1>3. PICK new : new = [row[c] EXCEPT !.distinct_recruiter_count = n]
  OBVIOUS
<1>4. /\ new \in Rows /\ new.profile_views_count = row[c].profile_views_count
      /\ new.stored = row[c].stored
  <2>1. row[c] \in Rows
    BY DEF TypeInv, TypeOK
  <2> QED
    BY <1>2, <1>3, <2>1 DEF Rows
<1>5. row' = [row EXCEPT ![c] = new]
  BY <1>1, <1>3 DEF Vote, VotersCounted, TypeInv, TypeOK
<1>6. /\ row' \in [Candidates -> Rows] /\ row'[c] = new
      /\ \A d \in Candidates : d # c => row'[d] = row[d]
  BY <1>4, <1>5 DEF TypeInv, TypeOK
<1>7. /\ voted' \in [Candidates -> SUBSET Recruiters]
      /\ \A d \in Candidates : d # c => voted'[d] = voted[d]
  BY DEF Vote, TypeInv, TypeOK
<1>8. lost' \in [Candidates -> SUBSET Columns]
  BY DEF Vote, TypeInv, TypeOK
<1>9. TypeOK'
  BY <1>6, <1>7, <1>8 DEF Vote, TypeInv, TypeOK
<1>10. \A w \in Workers : JobFits(w)'
  BY DEF Vote, TypeInv, FitInv, JobFits, Target
<1>11. ASSUME NEW i \in Items PROVE ItemFits(i)'
  BY <1>4, <1>6 DEF Vote, TypeInv, FitInv, ItemFits
<1>12. ASSUME NEW d \in Candidates PROVE RowFits(d)'
  <2>1. RowFits(d)
    BY DEF TypeInv, FitInv
  <2>2. CASE d = c
    BY <1>4, <1>6, <2>1, <2>2 DEF Vote, RowFits
  <2>3. CASE d # c
    BY <1>6, <1>7, <2>1, <2>3 DEF Vote, RowFits
  <2> QED
    BY <2>2, <2>3
<1> QED
  BY <1>9, <1>10, <1>11, <1>12 DEF TypeInv, FitInv

\* A submission touches no item that a worker or a record has.
LEMMA SubmitType ==
  ASSUME TypeInv, NEW i \in Items, NEW c \in Candidates, NEW payload \in Payloads,
         Submit(i, c, payload)
  PROVE  TypeInv'
<1>1. PICK new : new = [status |-> "pending", candidate |-> c, payload |-> payload]
  OBVIOUS
<1>2. new \in Submissions /\ new.status = "pending" /\ new.candidate = c
  BY <1>1 DEF Submissions
<1>3. /\ item' \in [Items -> Submissions] /\ item'[i] = new
      /\ \A j \in Items : j # i => item'[j] = item[j]
  BY <1>1, <1>2 DEF Submit, NewItem, TypeInv, TypeOK
<1>4. TypeOK'
  BY <1>3 DEF Submit, TypeInv, TypeOK
<1>5. ASSUME NEW w \in Workers PROVE JobFits(w)'
  <2>1. JobFits(w) /\ job[w] \in Jobs
    BY DEF TypeInv, TypeOK, FitInv
  <2>2. CASE job[w].pc = "idle"
    BY <2>1, <2>2 DEF Submit, JobFits
  <2>3. CASE job[w].pc # "idle"
    <3>1. job[w].item \in Items /\ job[w].item # i
      BY <2>1, <2>3 DEF Submit, JobFits
    <3>2. item'[job[w].item] = item[job[w].item] /\ Target(w)' = Target(w)
      BY <1>3, <3>1 DEF Submit, Target
    <3> QED
      BY <2>1, <2>3, <3>1, <3>2 DEF Submit, JobFits
  <2> QED
    BY <2>2, <2>3
<1>6. ASSUME NEW j \in Items PROVE ItemFits(j)'
  <2>1. ItemFits(j)
    BY DEF TypeInv, FitInv
  <2> QED
    BY <1>2, <1>3, <2>1 DEF Submit, NewItem, ItemFits
<1>7. ASSUME NEW d \in Candidates PROVE RowFits(d)'
  <2>1. RowFits(d) /\ Range(applied[d]) \subseteq Items
    BY DEF TypeInv, TypeOK, FitInv, Range
  <2>2. \A j \in Range(applied[d]) : item'[j] = item[j]
    BY <1>3, <2>1 DEF Submit, RowFits
  <2> QED
    BY <2>1, <2>2 DEF Submit, RowFits
<1> QED
  BY <1>4, <1>5, <1>6, <1>7 DEF TypeInv, FitInv

\* What a worker that is not idle has in hand was submitted for a stored row.
LEMMA InHand ==
  ASSUME TypeInv, NEW w \in Workers, job[w].pc # "idle"
  PROVE  /\ job[w] \in Jobs /\ job[w].item \in Items /\ item[job[w].item] \in Submissions
         /\ item[job[w].item].status # "none"
         /\ Target(w) \in Candidates /\ row[Target(w)].stored
<1>1. job[w].item \in Items /\ item[job[w].item].status # "none"
  BY DEF TypeInv, FitInv, JobFits
<1>2. item[job[w].item] \in Submissions /\ job[w] \in Jobs
  BY <1>1 DEF TypeInv, TypeOK
<1> QED
  BY <1>1, <1>2 DEF TypeInv, FitInv, ItemFits, Target

LEMMA OpenType ==
  ASSUME TypeInv, NEW w \in Workers, NEW i \in Items, NEW pc \in {"approving", "rejecting"},
         Open(w, i, pc)
  PROVE  TypeInv'
<1>1. /\ item[i] \in Submissions /\ item[i].status = "pending"
      /\ item[i].candidate \in Candidates /\ row[item[i].candidate].stored
  BY DEF Open, Reviewable, TypeInv, TypeOK, FitInv, ItemFits
<1>2. PICK copy : copy = IF pc = "approving" THEN row[item[i].candidate] ELSE NoRow
  OBVIOUS
<1>3. copy \in Rows
  BY <1>1, <1>2, NullRow DEF TypeInv, TypeOK
<1>4. PICK new : new = [pc |-> pc, item |-> i, copy |-> copy]
  OBVIOUS
<1>5. new \in Jobs /\ new.pc = pc /\ new.item = i /\ new.copy = copy
  BY <1>3, <1>4 DEF Jobs
<1>6. job' = [job EXCEPT ![w] = new]
  BY <1>2, <1>4 DEF Open
<1>7. /\ job' \in [Workers -> Jobs] /\ job'[w] = new
      /\ \A x \in Workers : x # w => job'[x] = job[x]
  BY <1>5, <1>6 DEF TypeInv, TypeOK
<1>8. TypeOK'
  BY <1>7 DEF Open, TypeInv, TypeOK
<1>9. ASSUME NEW x \in Workers PROVE JobFits(x)'
  <2>1. CASE x = w
    <3>1. Target(w)' = item[i].candidate
      BY <1>5, <1>7 DEF Open, Target
    <3>2. pc = "approving" => copy.stored /\ copy.profile_views_count <= seen[item[i].candidate]
      BY <1>1, <1>2 DEF TypeInv, FitInv, RowFits
    <3> QED
      BY <1>1, <1>5, <1>7, <2>1, <3>1, <3>2 DEF Open, JobFits
  <2>2. CASE x # w
    <3>1. JobFits(x) /\ job'[x] = job[x] /\ Target(x)' = Target(x)
      BY <1>7, <2>2 DEF Open, TypeInv, FitInv, Target
    <3> QED
      BY <3>1 DEF Open, JobFits
  <2> QED
    BY <2>1, <2>2
<1>10. ASSUME NEW j \in Items PROVE ItemFits(j)'
  BY DEF Open, TypeInv, FitInv, ItemFits
<1>11. ASSUME NEW c \in Candidates PROVE RowFits(c)'
  BY DEF Open, TypeInv, FitInv, RowFits
<1> QED
  BY <1>8, <1>9, <1>10, <1>11 DEF TypeInv, FitInv

LEMMA LeftJob == NoJob \in Jobs /\ NoJob.pc = "idle" /\ NoJob.item = NoItem
BY NullRow DEF NoJob, Jobs

\* A worker that leaves its item as it is, because a save raised or it died.
LEMMA LeaveType ==
  ASSUME TypeInv, NEW w \in Workers, job' = [job EXCEPT ![w] = NoJob],
         failed' \subseteq Items, deaths' \in 0 .. MaxDeaths,
         UNCHANGED <<row, item, seen, voted, applied, lost, contended>>
  PROVE  TypeInv'
<1>1. /\ job' \in [Workers -> Jobs] /\ job'[w] = NoJob
      /\ \A x \in Workers : x # w => job'[x] = job[x]
  BY LeftJob DEF TypeInv, TypeOK
<1>2. TypeOK'
  BY <1>1 DEF TypeInv, TypeOK
<1>3. ASSUME NEW x \in Workers PROVE JobFits(x)'
  <2>1. CASE x = w
    BY <1>1, <2>1, LeftJob DEF JobFits
  <2>2. CASE x # w
    <3>1. JobFits(x) /\ job'[x] = job[x] /\ Target(x)' = Target(x)
      BY <1>1, <2>2 DEF TypeInv, FitInv, Target
    <3> QED
      BY <3>1 DEF JobFits
  <2> QED
    BY <2>1, <2>2
<1>4. ASSUME NEW j \in Items PROVE ItemFits(j)'
  BY DEF TypeInv, FitInv, ItemFits
<1>5. ASSUME NEW c \in Candidates PROVE RowFits(c)'
  BY DEF TypeInv, FitInv, RowFits
<1> QED
  BY <1>2, <1>3, <1>4, <1>5 DEF TypeInv, FitInv

LEMMA MarkType ==
  ASSUME TypeInv, NEW w \in Workers, NEW status \in {"approved", "rejected"},
         job[w].pc # "idle",
         item' = Marked(job[w].item, status), job' = [job EXCEPT ![w] = NoJob],
         UNCHANGED <<row, seen, voted, applied, lost, contended, failed, deaths>>
  PROVE  TypeInv'
<1>1. /\ job' \in [Workers -> Jobs] /\ job'[w] = NoJob
      /\ \A x \in Workers : x # w => job'[x] = job[x]
  BY LeftJob DEF TypeInv, TypeOK
<1>2. PICK i : i = job[w].item
  OBVIOUS
<1>3. i \in Items /\ item[i] \in Submissions /\ item[i].status # "none"
  BY <1>2, InHand
<1>4. PICK new : new = [item[i] EXCEPT !.status = status]
  OBVIOUS
<1>5. new \in Submissions /\ new.status = status /\ new.candidate = item[i].candidate
  BY <1>3, <1>4 DEF Submissions
<1>6. item' = [item EXCEPT ![i] = new]
  BY <1>2, <1>4 DEF Marked, TypeInv, TypeOK
<1>7. /\ item' \in [Items -> Submissions] /\ item'[i] = new
      /\ \A j \in Items : j # i => item'[j] = item[j]
  BY <1>3, <1>5, <1>6 DEF TypeInv, TypeOK
<1>8. \A j \in Items : /\ item'[j].candidate = item[j].candidate
                       /\ (item'[j].status # "none") = (item[j].status # "none")
  BY <1>3, <1>5, <1>7
<1>9. TypeOK'
  BY <1>1, <1>7 DEF TypeInv, TypeOK
<1>10. ASSUME NEW x \in Workers PROVE JobFits(x)'
  <2>1. CASE x = w
    BY <1>1, <2>1, LeftJob DEF JobFits
  <2>2. CASE x # w
    <3>1. JobFits(x) /\ job'[x] = job[x]
      BY <1>1, <2>2 DEF TypeInv, FitInv
    <3>2. job[x].pc # "idle" => job[x].item \in Items /\ Target(x)' = Target(x)
      BY <1>8, <3>1 DEF JobFits, Target
    <3>3. job[x].pc # "idle" => item'[job[x].item].status # "none"
      BY <1>8, <3>1 DEF JobFits
    <3> QED
      BY <3>1, <3>2, <3>3 DEF JobFits
  <2> QED
    BY <2>1, <2>2
<1>11. ASSUME NEW j \in Items PROVE ItemFits(j)'
  <2>1. ItemFits(j)
    BY DEF TypeInv, FitInv
  <2> QED
    BY <1>8, <2>1 DEF ItemFits
<1>12. ASSUME NEW c \in Candidates PROVE RowFits(c)'
  <2>1. RowFits(c) /\ Range(applied[c]) \subseteq Items
    BY DEF TypeInv, TypeOK, FitInv, Range
  <2> QED
    BY <1>8, <2>1 DEF RowFits
<1> QED
  BY <1>9, <1>10, <1>11, <1>12 DEF TypeInv, FitInv

LEMMA AppendRange ==
  ASSUME NEW S, NEW s \in Seq(S), NEW e \in S
  PROVE  /\ Append(s, e) \in Seq(S)
         /\ Range(Append(s, e)) = Range(s) \cup {e}
         /\ DOMAIN Append(s, e) = 1 .. Len(s) + 1 /\ DOMAIN s = 1 .. Len(s) /\ Len(s) \in Nat
         /\ Append(s, e)[Len(s) + 1] = e
         /\ \A n \in DOMAIN s : n # Len(s) + 1 /\ Append(s, e)[n] = s[n]
<1>1. Append(s, e) \in Seq(S) /\ Len(s) \in Nat /\ DOMAIN s = 1 .. Len(s)
  OBVIOUS
<1>2. /\ DOMAIN Append(s, e) = 1 .. Len(s) + 1
      /\ Append(s, e)[Len(s) + 1] = e
      /\ \A n \in DOMAIN s : n # Len(s) + 1 /\ Append(s, e)[n] = s[n]
  BY <1>1
<1>3. 1 .. Len(s) + 1 = (1 .. Len(s)) \cup {Len(s) + 1}
  BY <1>1
<1>4. Range(Append(s, e)) = Range(s) \cup {e}
  BY <1>1, <1>2, <1>3 DEF Range
<1> QED
  BY <1>1, <1>2, <1>4

\* What a save of item i to candidate c finds and leaves.
Saves(w, i, c) ==
  /\ i \in Items /\ c \in Candidates /\ c = Target(w) /\ item[i].status # "none"
  /\ item[i].payload \in Payloads /\ item[i].payload.city # Unstorable
  /\ job[w] \in Jobs /\ job[w].copy \in Rows
  /\ row' \in [Candidates -> Rows] /\ row'[c] = Merged(i, job[w].copy)
  /\ \A d \in Candidates : d # c => row'[d] = row[d]
  /\ applied' \in [Candidates -> Seq(Items)] /\ applied'[c] = Append(applied[c], i)
  /\ \A d \in Candidates : d # c => applied'[d] = applied[d]
  /\ lost' \in [Candidates -> SUBSET Columns]
  /\ lost'[c] = (lost[c] \ Proposed(i)) \cup Undone(i, c, job[w].copy)
  /\ \A d \in Candidates : d # c => lost'[d] = lost[d]
  /\ job' \in [Workers -> Jobs] /\ job'[w].pc = "marking" /\ job'[w].item = i
  /\ \A x \in Workers : x # w => job'[x] = job[x]

LEMMA SaveFacts ==
  ASSUME TypeInv, NEW w \in Workers, SaveCandidate(w)
  PROVE  \E i, c : i = job[w].item /\ c = item[i].candidate /\ Saves(w, i, c)
<1> PICK i, c : i = job[w].item /\ c = item[i].candidate
  OBVIOUS
<1> SUFFICES Saves(w, i, c)
  OBVIOUS
<1>1. /\ i \in Items /\ c \in Candidates /\ c = Target(w) /\ item[i].status # "none"
      /\ item[i] \in Submissions /\ job[w] \in Jobs
  BY InHand DEF SaveCandidate, Target
<1>2. /\ item[i].payload \in Payloads /\ item[i].payload.city # Unstorable
      /\ job[w].copy \in Rows
  BY <1>1 DEF Submissions, Jobs, SaveCandidate
<1>3. PICK m : m = Merged(i, job[w].copy)
  OBVIOUS
<1>4. m \in Rows
  BY <1>1, <1>2, <1>3, MergedRow
<1>5. row' = [row EXCEPT ![c] = m]
  BY <1>3 DEF SaveCandidate
<1>6. /\ row' \in [Candidates -> Rows] /\ row'[c] = m
      /\ \A d \in Candidates : d # c => row'[d] = row[d]
  BY <1>1, <1>4, <1>5 DEF TypeInv, TypeOK
<1>7. /\ applied' \in [Candidates -> Seq(Items)] /\ applied'[c] = Append(applied[c], i)
      /\ \A d \in Candidates : d # c => applied'[d] = applied[d]
  BY <1>1 DEF SaveCandidate, TypeInv, TypeOK
<1>8. /\ lost' \in [Candidates -> SUBSET Columns]
      /\ lost'[c] = (lost[c] \ Proposed(i)) \cup Undone(i, c, job[w].copy)
      /\ \A d \in Candidates : d # c => lost'[d] = lost[d]
  <2>1. PICK L : L = (lost[c] \ Proposed(i)) \cup Undone(i, c, job[w].copy)
    OBVIOUS
  <2>2. L \subseteq Columns /\ lost' = [lost EXCEPT ![c] = L]
    BY <1>1, <2>1 DEF SaveCandidate, Undone, TypeInv, TypeOK
  <2> QED
    BY <1>1, <2>1, <2>2 DEF TypeInv, TypeOK
<1>9. PICK new : new = [NoJob EXCEPT !.pc = "marking", !.item = i]
  OBVIOUS
<1>10. new \in Jobs /\ new.pc = "marking" /\ new.item = i
  BY <1>1, <1>9, LeftJob DEF Jobs
<1>11. job' = [job EXCEPT ![w] = new]
  BY <1>9 DEF SaveCandidate
<1>12. /\ job' \in [Workers -> Jobs] /\ job'[w] = new
       /\ \A x \in Workers : x # w => job'[x] = job[x]
  BY <1>10, <1>11 DEF TypeInv, TypeOK
<1> QED
  BY <1>1, <1>2, <1>3, <1>6, <1>7, <1>8, <1>10, <1>12 DEF Saves

LEMMA SaveType ==
  ASSUME TypeInv, NEW w \in Workers, SaveCandidate(w)
  PROVE  TypeInv'
<1>1. PICK i, c : i = job[w].item /\ c = item[i].candidate /\ Saves(w, i, c)
  BY SaveFacts
<1>2. /\ i \in Items /\ c \in Candidates /\ c = Target(w) /\ item[i].status # "none"
      /\ item[i].payload \in Payloads /\ item[i].payload.city # Unstorable
      /\ job[w] \in Jobs /\ job[w].copy \in Rows
      /\ row' \in [Candidates -> Rows] /\ row'[c] = Merged(i, job[w].copy)
      /\ \A d \in Candidates : d # c => row'[d] = row[d]
      /\ applied' \in [Candidates -> Seq(Items)] /\ applied'[c] = Append(applied[c], i)
      /\ \A d \in Candidates : d # c => applied'[d] = applied[d]
      /\ lost' \in [Candidates -> SUBSET Columns]
      /\ job' \in [Workers -> Jobs] /\ job'[w].pc = "marking" /\ job'[w].item = i
      /\ \A x \in Workers : x # w => job'[x] = job[x]
  BY <1>1 DEF Saves
<1>3. TypeOK'
  BY <1>2 DEF SaveCandidate, TypeInv, TypeOK
<1>4. JobFits(w) /\ job[w].pc = "approving"
  BY DEF SaveCandidate, TypeInv, FitInv
<1>5. /\ row'[c].stored = job[w].copy.stored
      /\ row'[c].profile_views_count = job[w].copy.profile_views_count
  <2>1. "profile_views_count" \in Columns \ Proposed(i)
    BY DEF Columns, Proposed, Fields
  <2> QED
    BY <1>2, <2>1, MergedRow
<1>6. row'[c].stored /\ row'[c].profile_views_count <= seen[c]
  BY <1>2, <1>4, <1>5 DEF JobFits
<1>7. applied[c] \in Seq(Items) /\ Range(applied'[c]) = Range(applied[c]) \cup {i}
  BY <1>2, AppendRange DEF TypeInv, TypeOK
<1>8. \A d \in Candidates : Range(applied[d]) \subseteq Range(applied'[d])
  BY <1>2, <1>7
<1>9. ASSUME NEW x \in Workers PROVE JobFits(x)'
  <2>1. CASE x = w
    BY <1>1, <1>2, <1>7, <2>1 DEF SaveCandidate, JobFits, Target
  <2>2. CASE x # w
    <3>1. JobFits(x) /\ job'[x] = job[x] /\ Target(x)' = Target(x)
      BY <1>2, <2>2 DEF SaveCandidate, TypeInv, FitInv, Target
    <3>2. job[x].pc # "idle" => Target(x) \in Candidates
      BY InHand
    <3> QED
      BY <1>8, <3>1, <3>2 DEF SaveCandidate, JobFits
  <2> QED
    BY <2>1, <2>2
<1>10. ASSUME NEW j \in Items PROVE ItemFits(j)'
  <2>1. ItemFits(j)
    BY DEF TypeInv, FitInv
  <2> QED
    BY <1>2, <1>6, <2>1 DEF SaveCandidate, ItemFits
<1>11. ASSUME NEW d \in Candidates PROVE RowFits(d)'
  <2>1. RowFits(d)
    BY DEF TypeInv, FitInv
  <2>2. CASE d = c
    BY <1>1, <1>2, <1>6, <1>7, <2>1, <2>2 DEF SaveCandidate, RowFits
  <2>3. CASE d # c
    BY <1>2, <2>1, <2>3 DEF SaveCandidate, RowFits
  <2> QED
    BY <2>2, <2>3
<1> QED
  BY <1>3, <1>9, <1>10, <1>11 DEF TypeInv, FitInv

LEMMA NextType ==
  ASSUME TypeInv, [Next]_vars
  PROVE  TypeInv'
<1>1. CASE UNCHANGED vars
  BY <1>1 DEF vars, TypeInv, TypeOK, FitInv, JobFits, ItemFits, RowFits, Target
<1>2. ASSUME NEW w \in Workers, NEW i \in Items, Review(w, i) PROVE TypeInv'
  BY <1>2, OpenType DEF Review
<1>3. ASSUME NEW w \in Workers, SaveRaises(w) PROVE TypeInv'
  <2>1. job[w].item \in Items
    BY <1>3, InHand DEF SaveRaises
  <2> QED
    BY <1>3, <2>1, LeaveType DEF SaveRaises, TypeInv, TypeOK
<1>4. ASSUME NEW w \in Workers, Die(w) PROVE TypeInv'
  <2>1. job[w].item \in Items
    BY <1>4, InHand DEF Die
  <2>2. deaths' \in 0 .. MaxDeaths
    BY <1>4, BoundAssumption DEF Die, TypeInv, TypeOK
  <2> QED
    BY <1>4, <2>1, <2>2, LeaveType DEF Die, TypeInv, TypeOK
<1>5. ASSUME NEW w \in Workers, MarkApproved(w) \/ MarkRejected(w) PROVE TypeInv'
  BY <1>5, MarkType DEF MarkApproved, MarkRejected
<1> QED
  BY <1>1, <1>2, <1>3, <1>4, <1>5, CreateType, RevealType, VoteType, SubmitType, SaveType
     DEF Next, Proceed

LEMMA TypeInvariant == Spec => []TypeInv
<1>1. Init => TypeInv
  BY InitType
<1>2. TypeInv /\ [Next]_vars => TypeInv'
  BY NextType
<1> QED
  BY <1>1, <1>2, PTL DEF Spec

\* Every variable keeps its type; no more views are counted than were logged, an
\* item in hand was submitted for a stored record, and what was saved to a record
\* was submitted for it, whatever moderators and deaths do in between.
THEOREM TypeCorrect == Spec => []TypeOK
<1>1. TypeInv => TypeOK
  BY DEF TypeInv
<1> QED
  BY <1>1, TypeInvariant, PTL

-----------------------------------------------------------------------------
(* What is counted on a record, and its platform. *)

CountsFit(c) ==
  /\ "profile_views_count" \notin lost[c] => row[c].profile_views_count = seen[c]
  /\ "distinct_recruiter_count" \notin lost[c] =>
       row[c].distinct_recruiter_count = Cardinality(voted[c])

PlatformFits(c) ==
  row[c].dating_profile_url # NoValue =>
    row[c].dating_platform = SocialPlatform[row[c].dating_profile_url]

LEMMA NextCountsFit ==
  ASSUME TypeInv, NEW d \in Candidates, CountsFit(d), PlatformFits(d), Next
  PROVE  CountsFit(d)' /\ PlatformFits(d)'
<1>1. row \in [Candidates -> Rows] /\ voted \in [Candidates -> SUBSET Recruiters]
      /\ seen \in [Candidates -> 0 .. MaxViews] /\ lost \in [Candidates -> SUBSET Columns]
  BY DEF TypeInv, TypeOK
<1>2. ASSUME NEW c \in Candidates, NEW url \in Urls \cup {NoValue}, NEW city \in Cities,
             Create(c, url, city)
      PROVE  CountsFit(d)' /\ PlatformFits(d)'
  <2>1. CASE d = c
    <3>1. seen[c] = 0 /\ voted[c] = {}
      BY <1>2 DEF Create, TypeInv, FitInv, RowFits
    <3>2. row'[c] = NewRow(url, city)
      BY <1>1, <1>2 DEF Create
    <3>3. Cardinality({}) = 0
      BY FS_EmptySet
    <3> QED
      BY <1>2, <2>1, <3>1, <3>2, <3>3, NewRowRow DEF Create, CountsFit, PlatformFits
  <2>2. CASE d # c
    <3>1. row'[d] = row[d]
      BY <1>1, <1>2, <2>2 DEF Create
    <3> QED
      BY <1>2, <3>1 DEF Create, CountsFit, PlatformFits
  <2> QED
    BY <2>1, <2>2
<1>3. ASSUME NEW c \in Candidates, Reveal(c) PROVE CountsFit(d)' /\ PlatformFits(d)'
  <2>1. /\ row'[d].dating_profile_url = row[d].dating_profile_url
        /\ row'[d].dating_platform = row[d].dating_platform
        /\ row'[d].distinct_recruiter_count = row[d].distinct_recruiter_count
    BY <1>1, <1>3 DEF Reveal, Rows
  <2>2. row[d].profile_views_count = seen[d] => row'[d].profile_views_count = seen'[d]
    BY <1>1, <1>3 DEF Reveal, Rows
  <2> QED
    BY <1>3, <2>1, <2>2 DEF Reveal, CountsFit, PlatformFits
<1>4. ASSUME NEW c \in Candidates, NEW r \in Recruiters, Vote(c, r)
      PROVE  CountsFit(d)' /\ PlatformFits(d)'
  <2>1. PICK n : n = Cardinality(voted[c] \cup {r})
    OBVIOUS
  <2>2. row' = [row EXCEPT ![c].distinct_recruiter_count = n]
    BY <1>4, <2>1 DEF Vote, VotersCounted
  <2>3. /\ row'[d].dating_profile_url = row[d].dating_profile_url
        /\ row'[d].dating_platform = row[d].dating_platform
        /\ row'[d].profile_views_count = row[d].profile_views_count
        /\ d # c => row'[d] = row[d] /\ voted'[d] = voted[d] /\ lost'[d] = lost[d]
        /\ "profile_views_count" \in lost[d] => "profile_views_count" \in lost'[d]
    BY <1>1, <1>4, <2>2 DEF Vote, Rows
  <2>4. row'[c].distinct_recruiter_count = n /\ voted'[c] = voted[c] \cup {r}
    BY <1>1, <1>4, <2>2 DEF Vote, Rows
  <2> QED
    BY <1>4, <2>1, <2>3, <2>4 DEF Vote, CountsFit, PlatformFits
<1>5. ASSUME NEW w \in Workers, SaveCandidate(w) PROVE CountsFit(d)' /\ PlatformFits(d)'
  <2>1. PICK i, c : i = job[w].item /\ c = item[i].candidate /\ Saves(w, i, c)
    BY <1>5, SaveFacts
  <2>2. CASE d # c
    BY <1>5, <2>1, <2>2 DEF Saves, SaveCandidate, CountsFit, PlatformFits
  <2>3. CASE d = c
    <3>1. PICK copy, m : copy = job[w].copy /\ m = Merged(i, copy)
      OBVIOUS
    <3>2. /\ copy \in Rows /\ row'[c] = m
          /\ lost'[c] = (lost[c] \ Proposed(i)) \cup Undone(i, c, copy)
      BY <2>1, <3>1 DEF Saves
    <3>3. /\ \A f \in Columns \ Proposed(i) : m[f] = copy[f]
          /\ m.dating_profile_url # NoValue =>
               m.dating_platform = SocialPlatform[m.dating_profile_url]
      BY <2>1, <3>1, <3>2, MergedRow DEF Saves
    <3>4. {"profile_views_count", "distinct_recruiter_count"} \subseteq Columns \ Proposed(i)
      BY DEF Columns, Proposed, Fields
    <3>5. \A f \in Columns \ Proposed(i) :
            f \notin lost'[c] => f \notin lost[c] /\ m[f] = row[c][f]
      BY <3>2, <3>3 DEF Undone
    <3> QED
      BY <1>5, <2>3, <3>2, <3>3, <3>4, <3>5 DEF SaveCandidate, CountsFit, PlatformFits
  <2> QED
    BY <2>2, <2>3
<1>6. ASSUME UNCHANGED <<row, seen, voted, lost>> PROVE CountsFit(d)' /\ PlatformFits(d)'
  BY <1>6 DEF CountsFit, PlatformFits
<1> QED
  BY <1>2, <1>3, <1>4, <1>5, <1>6
     DEF Next, Submit, Review, Open, Proceed, SaveRaises, MarkApproved, MarkRejected, Die

LEMMA CountsInvariant == Spec => [](CountsMatchRows /\ PlatformFitsUrl)
<1>1. Init => CountsMatchRows /\ PlatformFitsUrl
  BY FS_EmptySet DEF Init, CountsMatchRows, PlatformFitsUrl, NoRow
<1>2. CountsMatchRows /\ PlatformFitsUrl <=>
        \A c \in Candidates : CountsFit(c) /\ PlatformFits(c)
  BY DEF CountsMatchRows, PlatformFitsUrl, CountsFit, PlatformFits
<1>3. TypeInv /\ CountsMatchRows /\ PlatformFitsUrl /\ [Next]_vars
        => (CountsMatchRows /\ PlatformFitsUrl)'
  <2> SUFFICES ASSUME TypeInv, CountsMatchRows, PlatformFitsUrl, [Next]_vars
               PROVE  (CountsMatchRows /\ PlatformFitsUrl)'
    OBVIOUS
  <2>1. CASE UNCHANGED vars
    BY <2>1 DEF vars, CountsMatchRows, PlatformFitsUrl
  <2>2. CASE Next
    <3>1. \A c \in Candidates : CountsFit(c)' /\ PlatformFits(c)'
      BY <1>2, <2>2, NextCountsFit
    <3> QED
      BY <3>1 DEF CountsMatchRows, PlatformFitsUrl, CountsFit, PlatformFits
  <2> QED
    BY <2>1, <2>2
<1> QED
  BY <1>1, <1>3, TypeInvariant, PTL DEF Spec

\* The counts of views and of voters on a record are those of the rows they
\* count, unless an approval has put back what it had read (queue_approve,
\* reveal_profile, cast_votes).
THEOREM CountsCorrect == Spec => []CountsMatchRows
BY CountsInvariant, PTL

\* The platform of a record is that of its url, however approvals overlap
\* (Candidate.save).
THEOREM PlatformCorrect == Spec => []PlatformFitsUrl
BY CountsInvariant, PTL

-----------------------------------------------------------------------------
(* What is approved is on the record. *)

\* A submission is of an item that nothing has been done with.
LEMMA SubmitFacts ==
  ASSUME TypeInv, NEW i \in Items, NEW c \in Candidates, NEW payload \in Payloads,
         Submit(i, c, payload)
  PROVE  /\ item'[i].status = "pending"
         /\ \A j \in Items : j # i => item'[j] = item[j]
         /\ \A d \in Candidates : i \notin Range(applied[d])
         /\ \A w \in Workers : job[w].pc # "idle" => job[w].item # i
<1>1. item' = [item EXCEPT ![i] = [status |-> "pending", candidate |-> c, payload |-> payload]]
  BY DEF Submit, NewItem
<1>2. item'[i].status = "pending" /\ \A j \in Items : j # i => item'[j] = item[j]
  BY <1>1 DEF TypeInv, TypeOK
<1> QED
  BY <1>2 DEF Submit, TypeInv, FitInv, RowFits, JobFits

Marks(w, i, status) ==
  /\ i \in Items /\ i = job[w].item /\ job[w].pc # "idle"
  /\ item'[i].status = status /\ item'[i].candidate = item[i].candidate
  /\ \A j \in Items : item'[j].payload = item[j].payload
  /\ \A j \in Items : j # i => item'[j] = item[j]
  /\ job'[w] = NoJob /\ \A x \in Workers : x # w => job'[x] = job[x]
  /\ UNCHANGED <<row, seen, voted, applied, lost, contended, failed, deaths>>

LEMMA MarkFacts ==
  ASSUME TypeInv, NEW w \in Workers, MarkApproved(w) \/ MarkRejected(w)
  PROVE  \/ job[w].pc = "marking" /\ Marks(w, job[w].item, "approved")
         \/ job[w].pc = "rejecting" /\ Marks(w, job[w].item, "rejected")
<1>1. PICK i, status : i = job[w].item /\ item' = Marked(i, status)
                       /\ \/ job[w].pc = "marking" /\ status = "approved"
                          \/ job[w].pc = "rejecting" /\ status = "rejected"
  BY DEF MarkApproved, MarkRejected
<1>2. i \in Items /\ item[i] \in Submissions
  BY <1>1, InHand
<1>3. item' = [item EXCEPT ![i] = [item[i] EXCEPT !.status = status]]
  BY <1>1 DEF Marked, TypeInv, TypeOK
<1>4. /\ item'[i] = [item[i] EXCEPT !.status = status]
      /\ \A j \in Items : j # i => item'[j] = item[j]
  BY <1>2, <1>3 DEF TypeInv, TypeOK
<1>5. /\ item'[i].status = status /\ item'[i].candidate = item[i].candidate
      /\ item'[i].payload = item[i].payload
  BY <1>2, <1>4 DEF Submissions
<1>6. job'[w] = NoJob /\ \A x \in Workers : x # w => job'[x] = job[x]
  BY DEF MarkApproved, MarkRejected, TypeInv, TypeOK
<1> QED
  BY <1>1, <1>2, <1>4, <1>5, <1>6 DEF Marks, MarkApproved, MarkRejected

LEMMA FieldKept ==
  ASSUME NEW c, NEW f, FieldOnRecord(c, f), applied'[c] = applied[c],
         row'[c][f] = row[c][f], f \in lost[c] => f \in lost'[c],
         \A i \in Range(applied[c]) : item'[i].payload = item[i].payload
  PROVE  FieldOnRecord(c, f)'
<1>1. \A n \in DOMAIN applied[c] : /\ item'[applied[c][n]].payload = item[applied[c][n]].payload
                                   /\ Proposed(applied[c][n])' = Proposed(applied[c][n])
  BY DEF Range, Proposed
<1>2. \A n : LastWriter(c, f, n) => LastWriter(c, f, n)'
  BY <1>1 DEF LastWriter
<1> QED
  BY <1>1, <1>2 DEF FieldOnRecord, LastWriter

LEMMA FieldSaved ==
  ASSUME TypeInv, NEW w \in Workers, SaveCandidate(w), NEW d \in Candidates, NEW f \in Fields,
         FieldOnRecord(d, f)
  PROVE  FieldOnRecord(d, f)'
<1>1. PICK i, c : i = job[w].item /\ c = item[i].candidate /\ Saves(w, i, c)
  BY SaveFacts
<1>2. item' = item
  BY DEF SaveCandidate
<1>3. CASE d # c
  BY <1>1, <1>2, <1>3, FieldKept DEF Saves
<1>4. CASE d = c
  <2>1. PICK s, t, m : s = applied[c] /\ t = applied'[c] /\ m = row'[c]
    OBVIOUS
  <2>2. s \in Seq(Items) /\ t = Append(s, i) /\ i \in Items
    BY <1>1, <2>1 DEF Saves, TypeInv, TypeOK
  <2>3. /\ DOMAIN t = 1 .. Len(s) + 1 /\ DOMAIN s = 1 .. Len(s) /\ Len(s) \in Nat
        /\ t[Len(s) + 1] = i
        /\ \A n \in DOMAIN s : n # Len(s) + 1 /\ t[n] = s[n]
    BY <2>2, AppendRange
  <2>4. /\ \A g \in Proposed(i) : m[g] = item[i].payload[g]
        /\ \A g \in Columns \ Proposed(i) : m[g] = job[w].copy[g]
    BY <1>1, <2>1, MergedRow DEF Saves
  <2>5. ASSUME NEW n \in DOMAIN t, f \in Proposed(t[n]),
               \A k \in DOMAIN t : k > n => f \notin Proposed(t[k]),
               f \in lost'[c] \/ m[f] = item[t[n]].payload[f]
        PROVE  FieldOnRecord(d, f)'
    BY <1>2, <1>4, <2>1, <2>5 DEF FieldOnRecord, LastWriter, Proposed
  <2>6. CASE f \in Proposed(i)
    <3>1. Len(s) + 1 \in DOMAIN t /\ \A k \in DOMAIN t : ~(k > Len(s) + 1)
      BY <2>3
    <3>2. f \in Proposed(t[Len(s) + 1]) /\ m[f] = item[t[Len(s) + 1]].payload[f]
      BY <2>3, <2>4, <2>6
    <3> QED
      BY <2>5, <3>1, <3>2
  <2>7. CASE f \notin Proposed(i)
    <3>1. ASSUME NEW k \in DOMAIN t, f \in Proposed(t[k])
          PROVE  k \in DOMAIN s /\ f \in Proposed(s[k])
      <4>1. k # Len(s) + 1
        BY <2>3, <2>7, <3>1
      <4>2. k \in DOMAIN s
        BY <2>3, <4>1
      <4> QED
        BY <2>3, <3>1, <4>2
    <3>2. CASE \A k \in DOMAIN t : f \notin Proposed(t[k])
      BY <1>2, <1>4, <2>1, <3>2 DEF FieldOnRecord, LastWriter, Proposed
    <3>3. CASE \E k \in DOMAIN t : f \in Proposed(t[k])
      <4>1. PICK n \in DOMAIN s : LastWriter(c, f, n)
                                  /\ (f \in lost[c] \/ row[c][f] = item[s[n]].payload[f])
        BY <1>4, <2>1, <3>1, <3>3 DEF FieldOnRecord
      <4>2. n \in DOMAIN t /\ t[n] = s[n] /\ f \in Proposed(t[n])
        BY <2>1, <2>3, <4>1 DEF LastWriter
      <4>3. \A k \in DOMAIN t : k > n => f \notin Proposed(t[k])
        BY <2>1, <3>1, <4>1 DEF LastWriter
      <4>4. lost'[c] = (lost[c] \ Proposed(i)) \cup Undone(i, c, job[w].copy)
        BY <1>1 DEF Saves
      <4>5. f \in Columns \ Proposed(i)
        BY <2>7 DEF Columns
      <4>6. f \in lost'[c] \/ (f \notin lost[c] /\ m[f] = row[c][f])
        BY <2>4, <4>4, <4>5 DEF Undone
      <4>7. f \in lost'[c] \/ m[f] = item[t[n]].payload[f]
        BY <4>1, <4>2, <4>6
      <4> QED
        BY <2>5, <4>2, <4>3, <4>7
    <3> QED
      BY <3>2, <3>3
  <2> QED
    BY <2>6, <2>7
<1> QED
  BY <1>3, <1>4

LEMMA NextRecord ==
  ASSUME TypeInv, RecordInv, Next
  PROVE  RecordInv'
<1>1. /\ applied \in [Candidates -> Seq(Items)] /\ row \in [Candidates -> Rows]
      /\ \A c \in Candidates : Range(applied[c]) \subseteq Items
  BY DEF TypeInv, TypeOK, Range
<1>2. ASSUME NEW c \in Candidates, NEW f \in Fields PROVE FieldOnRecord(c, f)'
  <2>1. FieldOnRecord(c, f)
    BY DEF RecordInv
  <2>2. ASSUME NEW d \in Candidates, NEW url \in Urls \cup {NoValue}, NEW city \in Cities,
               Create(d, url, city)
        PROVE  FieldOnRecord(c, f)'
    <3>1. CASE c = d
      BY <2>2, <3>1 DEF Create, TypeInv, FitInv, RowFits, FieldOnRecord
    <3>2. CASE c # d
      BY <1>1, <2>1, <2>2, <3>2, FieldKept DEF Create
    <3> QED
      BY <3>1, <3>2
  <2>3. ASSUME NEW d \in Candidates, Reveal(d) PROVE FieldOnRecord(c, f)'
    <3>1. row'[c][f] = row[c][f]
      BY <1>1, <2>3 DEF Reveal, Rows, Fields
    <3> QED
      BY <2>1, <2>3, <3>1, FieldKept DEF Reveal
  <2>4. ASSUME NEW d \in Candidates, NEW r \in Recruiters, Vote(d, r)
        PROVE  FieldOnRecord(c, f)'
    <3>1. PICK n : n = Cardinality(voted[d] \cup {r})
      OBVIOUS
    <3>2. row' = [row EXCEPT ![d].distinct_recruiter_count = n]
      BY <2>4, <3>1 DEF Vote, VotersCounted
    <3>3. row'[c][f] = row[c][f]
      BY <1>1, <3>2 DEF Rows, Fields
    <3>4. f \in lost[c] => f \in lost'[c]
      BY <2>4 DEF Vote, TypeInv, TypeOK, Fields
    <3> QED
      BY <2>1, <2>4, <3>3, <3>4, FieldKept DEF Vote
  <2>5. ASSUME NEW i \in Items, NEW d \in Candidates, NEW payload \in Payloads,
               Submit(i, d, payload)
        PROVE  FieldOnRecord(c, f)'
    <3>1. \A j \in Range(applied[c]) : item'[j] = item[j]
      BY <1>1, <2>5, SubmitFacts
    <3> QED
      BY <2>1, <2>5, <3>1, FieldKept DEF Submit
  <2>6. ASSUME NEW w \in Workers, MarkApproved(w) \/ MarkRejected(w)
        PROVE  FieldOnRecord(c, f)'
    BY <1>1, <2>1, <2>6, MarkFacts, FieldKept DEF Marks
  <2>7. ASSUME UNCHANGED <<row, item, applied, lost>> PROVE FieldOnRecord(c, f)'
    BY <2>1, <2>7, FieldKept
  <2> QED
    BY <2>1, <2>2, <2>3, <2>4, <2>5, <2>6, <2>7, FieldSaved
       DEF Next, Review, Open, Proceed, SaveRaises, Die
<1>3. ASSUME NEW i \in Items, item'[i].status = "approved"
      PROVE  i \in Range(applied'[item'[i].candidate])
  <2>1. item[i].status = "approved" => /\ item[i].candidate \in Candidates
                                       /\ i \in Range(applied[item[i].candidate])
    BY DEF RecordInv, TypeInv, FitInv, ItemFits
  <2>2. ASSUME NEW j \in Items, NEW d \in Candidates, NEW payload \in Payloads,
               Submit(j, d, payload)
        PROVE  i \in Range(applied'[item'[i].candidate])
    BY <1>3, <2>1, <2>2, SubmitFacts DEF Submit
  <2>3. ASSUME NEW w \in Workers, MarkApproved(w) \/ MarkRejected(w)
        PROVE  i \in Range(applied'[item'[i].candidate])
    <3>1. PICK j : j = job[w].item
      OBVIOUS
    <3>2. CASE i = j
      <4>1. job[w].pc = "marking" /\ Marks(w, j, "approved")
        BY <1>3, <2>3, <3>1, <3>2, MarkFacts DEF Marks
      <4>2. j \in Range(applied[item[j].candidate])
        BY <3>1, <4>1 DEF TypeInv, FitInv, JobFits, Target
      <4> QED
        BY <3>2, <4>1, <4>2 DEF Marks
    <3>3. CASE i # j
      BY <1>3, <2>1, <2>3, <3>1, <3>3, MarkFacts DEF Marks
    <3> QED
      BY <3>2, <3>3
  <2>4. ASSUME NEW w \in Workers, SaveCandidate(w)
        PROVE  i \in Range(applied'[item'[i].candidate])
    <3>1. PICK j, c : j = job[w].item /\ c = item[j].candidate /\ Saves(w, j, c)
      BY <2>4, SaveFacts
    <3>2. c \in Candidates /\ Range(applied'[c]) = Range(applied[c]) \cup {j}
      BY <1>1, <3>1, AppendRange DEF Saves
    <3> QED
      BY <1>3, <2>1, <2>4, <3>1, <3>2 DEF SaveCandidate, Saves
  <2>5. ASSUME UNCHANGED <<item, applied>> PROVE i \in Range(applied'[item'[i].candidate])
    BY <1>3, <2>1, <2>5
  <2> QED
    BY <2>2, <2>3, <2>4, <2>5
       DEF Next, Create, Reveal, Vote, Review, Open, Proceed, SaveRaises, Die
<1> QED
  BY <1>2, <1>3 DEF RecordInv

LEMMA RecordInvariant == Spec => []RecordInv
<1>1. Init => RecordInv
  BY DEF Init, RecordInv, FieldOnRecord, NoSubmission
<1>2. TypeInv /\ RecordInv /\ [Next]_vars => RecordInv'
  <2>1. ASSUME RecordInv, UNCHANGED vars PROVE RecordInv'
    BY <2>1 DEF vars, RecordInv, FieldOnRecord, LastWriter, Proposed
  <2> QED
    BY <2>1, NextRecord
<1> QED
  BY <1>1, <1>2, TypeInvariant, PTL DEF Spec

\* What an approved item proposes was saved, and is on the record until another
\* approval proposes something else for the same field or undoes it with an older
\* copy (queue_approve).
THEOREM ApprovedCorrect == Spec => []ApprovedIsOnRecord
<1>1. TypeInv /\ RecordInv => ApprovedIsOnRecord
  <2> SUFFICES ASSUME TypeInv, RecordInv, NEW i \in Items, NEW c, c = item[i].candidate,
                      item[i].status = "approved"
               PROVE  /\ i \in Range(applied[c])
                      /\ \A f \in Proposed(i) \ lost[c] :
                           \E n \in DOMAIN applied[c] :
                             LastWriter(c, f, n) /\ row[c][f] = item[applied[c][n]].payload[f]
    BY DEF ApprovedIsOnRecord
  <2>1. c \in Candidates /\ i \in Range(applied[c])
    BY DEF RecordInv, TypeInv, FitInv, ItemFits
  <2>2. PICK n \in DOMAIN applied[c] : applied[c][n] = i
    BY <2>1 DEF Range
  <2>3. \A f \in Proposed(i) : f \in Fields /\ FieldOnRecord(c, f)
    BY <2>1 DEF RecordInv, Proposed
  <2> QED
    BY <2>1, <2>2, <2>3 DEF FieldOnRecord
<1> QED
  BY <1>1, TypeInvariant, RecordInvariant, PTL

-----------------------------------------------------------------------------
(* What a review leaves. *)

\* What nobody opens, saves or marks keeps what is known of its review.
LEMMA RecordsReview ==
  ASSUME TypeInv, ReviewInv, UNCHANGED <<item, job, applied, contended, failed>>
  PROVE  ReviewInv'
BY DEF ReviewInv, SoleHand, SavedIsMarked, RejectingUnsaved, RejectedLeavesNothing, Target

LEMMA CreateReview ==
  ASSUME TypeInv, ReviewInv, NEW c \in Candidates, NEW url, NEW city, Create(c, url, city)
  PROVE  ReviewInv'
BY RecordsReview DEF Create

LEMMA SubmitReview ==
  ASSUME TypeInv, ReviewInv, NEW i \in Items, NEW c \in Candidates, NEW payload \in Payloads,
         Submit(i, c, payload)
  PROVE  ReviewInv'
<1>1. /\ item'[i].status = "pending"
      /\ \A j \in Items : j # i => item'[j] = item[j]
      /\ \A d \in Candidates : i \notin Range(applied[d])
      /\ \A w \in Workers : job[w].pc # "idle" => job[w].item \in Items /\ job[w].item # i
  BY SubmitFacts, InHand
<1>2. UNCHANGED <<job, applied, contended, failed>>
  BY DEF Submit
<1>3. item'[i].candidate = c
  BY DEF Submit, NewItem, TypeInv, TypeOK
<1>4. SoleHand'
  BY <1>1, <1>2 DEF ReviewInv, SoleHand
<1>5. SavedIsMarked'
  BY <1>1, <1>2, <1>3 DEF ReviewInv, SavedIsMarked
<1>6. RejectingUnsaved'
  BY <1>1, <1>2 DEF ReviewInv, RejectingUnsaved, Target
<1>7. RejectedLeavesNothing'
  BY <1>1, <1>2 DEF ReviewInv, RejectedLeavesNothing
<1> QED
  BY <1>4, <1>5, <1>6, <1>7 DEF ReviewInv

\* An item is opened a second time only as a contended one.
LEMMA OpenReview ==
  ASSUME TypeInv, ReviewInv, NEW w \in Workers, NEW i \in Items,
         NEW pc \in {"approving", "rejecting"}, Open(w, i, pc)
  PROVE  ReviewInv'
<1>1. /\ job[w].pc = "idle" /\ job[w].item = NoItem
      /\ item[i].status = "pending" /\ UNCHANGED <<item, applied, failed>>
      /\ contended \subseteq contended'
      /\ i \notin contended' => \A x \in Workers : job[x].item # i
  BY DEF Open, Reviewable, TypeInv, FitInv, JobFits
<1>2. /\ job'[w].pc = pc /\ job'[w].item = i
      /\ \A x \in Workers : x # w => job'[x] = job[x]
  <2>1. PICK new : /\ new = [pc |-> pc, item |-> i,
                             copy |-> IF pc = "approving" THEN row[item[i].candidate] ELSE NoRow]
    OBVIOUS
  <2>2. new.pc = pc /\ new.item = i /\ job' = [job EXCEPT ![w] = new]
    BY <2>1 DEF Open
  <2> QED
    BY <2>2 DEF TypeInv, TypeOK
<1>3. SoleHand'
  <2> SUFFICES ASSUME NEW y \in Workers, job'[y].pc # "idle", job'[y].item \notin contended'
               PROVE  /\ item[job'[y].item].status = "pending"
                      /\ \A x \in Workers : job'[x].item = job'[y].item => x = y
    BY <1>1 DEF SoleHand
  <2>1. CASE y = w
    BY <1>1, <1>2, <2>1
  <2>2. CASE y # w
    <3>1. job'[y] = job[y] /\ job[y].item # i
      BY <1>1, <1>2, <2>2
    <3> QED
      BY <1>1, <1>2, <3>1 DEF ReviewInv, SoleHand
  <2> QED
    BY <2>1, <2>2
<1>4. SavedIsMarked'
  <2> SUFFICES ASSUME NEW j \in Items, item[j].status = "pending",
                      j \notin contended' \cup failed, j \in Range(applied[item[j].candidate])
               PROVE  \E x \in Workers : job'[x].pc = "marking" /\ job'[x].item = j
    BY <1>1 DEF SavedIsMarked
  <2>1. PICK x \in Workers : job[x].pc = "marking" /\ job[x].item = j
    BY <1>1 DEF ReviewInv, SavedIsMarked
  <2> QED
    BY <1>1, <1>2, <2>1
<1>5. RejectingUnsaved'
  <2> SUFFICES ASSUME NEW y \in Workers, job'[y].pc = "rejecting",
                      job'[y].item \notin contended' \cup failed
               PROVE  job'[y].item \notin Range(applied[item[job'[y].item].candidate])
    BY <1>1 DEF RejectingUnsaved, Target
  <2>1. CASE y = w
    BY <1>1, <1>2, <2>1 DEF ReviewInv, SavedIsMarked
  <2>2. CASE y # w
    BY <1>1, <1>2, <2>2 DEF ReviewInv, RejectingUnsaved, Target
  <2> QED
    BY <2>1, <2>2
<1>6. RejectedLeavesNothing'
  BY <1>1 DEF ReviewInv, RejectedLeavesNothing
<1> QED
  BY <1>3, <1>4, <1>5, <1>6 DEF ReviewInv

LEMMA SaveReview ==
  ASSUME TypeInv, ReviewInv, NEW w \in Workers, SaveCandidate(w)
  PROVE  ReviewInv'
<1>1. PICK i, c : i = job[w].item /\ c = item[i].candidate /\ Saves(w, i, c)
  BY SaveFacts
<1>2. /\ i \in Items /\ c \in Candidates /\ job[w].pc = "approving"
      /\ job'[w].pc = "marking" /\ job'[w].item = i
      /\ \A x \in Workers : x # w => job'[x] = job[x]
      /\ UNCHANGED <<item, contended, failed>>
  BY <1>1 DEF Saves, SaveCandidate
<1>3. \A j \in Items : j # i /\ item[j].status # "none" =>
        (j \in Range(applied'[item[j].candidate]) <=> j \in Range(applied[item[j].candidate]))
  <2>1. /\ applied[c] \in Seq(Items) /\ applied'[c] = Append(applied[c], i)
        /\ \A d \in Candidates : d # c => applied'[d] = applied[d]
        /\ applied' \in [Candidates -> Seq(Items)] /\ applied \in [Candidates -> Seq(Items)]
    BY <1>1 DEF Saves, TypeInv, TypeOK
  <2>2. Range(applied'[c]) = Range(applied[c]) \cup {i}
    BY <1>2, <2>1, AppendRange
  <2>3. \A j \in Items : item[j].status # "none" => item[j].candidate \in Candidates
    BY DEF TypeInv, FitInv, ItemFits
  <2> QED
    BY <2>1, <2>2, <2>3
<1>4. SoleHand'
  BY <1>1, <1>2 DEF ReviewInv, SoleHand
<1>5. SavedIsMarked'
  BY <1>2, <1>3 DEF ReviewInv, SavedIsMarked
<1>6. RejectingUnsaved'
  <2> SUFFICES ASSUME NEW y \in Workers, job'[y].pc = "rejecting",
                      job'[y].item \notin contended \cup failed
               PROVE  job'[y].item \notin Range(applied'[item[job'[y].item].candidate])
    BY <1>2 DEF RejectingUnsaved, Target
  <2>1. /\ y # w /\ job'[y] = job[y] /\ job[y].item \in Items
        /\ item[job[y].item].status # "none"
    BY <1>2, InHand
  <2>2. job[y].item # i
    BY <1>1, <1>2, <2>1 DEF ReviewInv, SoleHand
  <2> QED
    BY <1>3, <2>1, <2>2 DEF ReviewInv, RejectingUnsaved, Target
<1>7. RejectedLeavesNothing'
  <2>1. i \notin contended => item[i].status = "pending"
    BY <1>1, <1>2 DEF ReviewInv, SoleHand
  <2> QED
    BY <1>2, <1>3, <2>1 DEF ReviewInv, RejectedLeavesNothing
<1> QED
  BY <1>4, <1>5, <1>6, <1>7 DEF ReviewInv

LEMMA LeaveReview ==
  ASSUME TypeInv, ReviewInv, NEW w \in Workers, job[w].pc # "idle",
         job' = [job EXCEPT ![w] = NoJob], failed' = failed \cup {job[w].item},
         UNCHANGED <<item, applied, contended>>
  PROVE  ReviewInv'
<1>1. /\ job'[w] = NoJob /\ \A x \in Workers : x # w => job'[x] = job[x]
      /\ NoItem \notin Items
  BY NullsAssumption DEF TypeInv, TypeOK
<1>2. \A x \in Workers : job[x].pc # "idle" => job[x].item \in Items
  BY InHand
<1>3. SoleHand'
  BY <1>1, <1>2, LeftJob DEF ReviewInv, SoleHand
<1>4. SavedIsMarked'
  BY <1>1, LeftJob DEF ReviewInv, SavedIsMarked
<1>5. RejectingUnsaved'
  BY <1>1, LeftJob DEF ReviewInv, RejectingUnsaved, Target
<1>6. RejectedLeavesNothing'
  BY DEF ReviewInv, RejectedLeavesNothing
<1> QED
  BY <1>3, <1>4, <1>5, <1>6 DEF ReviewInv

LEMMA MarkReview ==
  ASSUME TypeInv, ReviewInv, NEW w \in Workers, MarkApproved(w) \/ MarkRejected(w)
  PROVE  ReviewInv'
<1>1. PICK i, status : /\ Marks(w, i, status)
                       /\ \/ job[w].pc = "marking" /\ status = "approved"
                          \/ job[w].pc = "rejecting" /\ status = "rejected"
  BY MarkFacts
<1>2. /\ i \in Items /\ i = job[w].item
      /\ job'[w] = NoJob /\ \A x \in Workers : x # w => job'[x] = job[x]
      /\ item'[i].status = status /\ item'[i].candidate = item[i].candidate
      /\ \A j \in Items : j # i => item'[j] = item[j]
      /\ UNCHANGED <<applied, contended, failed>> /\ NoItem \notin Items
  BY <1>1, NullsAssumption DEF Marks
<1>3. \A x \in Workers : job[x].pc # "idle" => job[x].item \in Items
  BY InHand
<1>4. SoleHand'
  <2> SUFFICES ASSUME NEW y \in Workers, job'[y].pc # "idle", job'[y].item \notin contended
               PROVE  /\ item'[job'[y].item].status = "pending"
                      /\ \A x \in Workers : job'[x].item = job'[y].item => x = y
    BY <1>2 DEF SoleHand
  <2>1. y # w /\ job'[y] = job[y] /\ job[y].item \in Items
    BY <1>2, <1>3, LeftJob
  <2>2. /\ item[job[y].item].status = "pending"
        /\ \A x \in Workers : job[x].item = job[y].item => x = y
    BY <2>1 DEF ReviewInv, SoleHand
  <2>3. job[y].item # i
    BY <1>2, <2>1, <2>2
  <2> QED
    BY <1>2, <2>1, <2>2, <2>3, LeftJob
<1>5. SavedIsMarked'
  BY <1>1, <1>2 DEF ReviewInv, SavedIsMarked
<1>6. RejectingUnsaved'
  <2>1. \A j \in Items : item'[j].candidate = item[j].candidate
    BY <1>2
  <2> QED
    BY <1>2, <1>3, <2>1, LeftJob DEF ReviewInv, RejectingUnsaved, Target
<1>7. RejectedLeavesNothing'
  <2>1. status = "rejected" /\ i \notin contended \cup failed =>
          i \notin Range(applied[item[i].candidate])
    BY <1>1, <1>2 DEF ReviewInv, RejectingUnsaved, Target
  <2> QED
    BY <1>2, <2>1 DEF ReviewInv, RejectedLeavesNothing
<1> QED
  BY <1>4, <1>5, <1>6, <1>7 DEF ReviewInv

LEMMA NextReview ==
  ASSUME TypeInv, ReviewInv, [Next]_vars
  PROVE  ReviewInv'
<1>1. CASE UNCHANGED vars
  BY <1>1, RecordsReview DEF vars
<1>2. ASSUME NEW c \in Candidates, Reveal(c) \/ \E r \in Recruiters : Vote(c, r)
      PROVE  ReviewInv'
  BY <1>2, RecordsReview DEF Reveal, Vote
<1>3. ASSUME NEW w \in Workers, SaveRaises(w) \/ Die(w) PROVE ReviewInv'
  BY <1>3, LeaveReview DEF SaveRaises, Die
<1>4. ASSUME NEW w \in Workers, NEW i \in Items, Review(w, i) PROVE ReviewInv'
  BY <1>4, OpenReview DEF Review
<1> QED
  BY <1>1, <1>2, <1>3, <1>4, CreateReview, SubmitReview, SaveReview, MarkReview DEF Next, Proceed

LEMMA ReviewInvariant == Spec => []ReviewInv
<1>1. Init => ReviewInv
  BY LeftJob DEF Init, ReviewInv, SoleHand, SavedIsMarked, RejectingUnsaved,
                 RejectedLeavesNothing, NoSubmission
<1>2. TypeInv /\ ReviewInv /\ [Next]_vars => ReviewInv'
  BY NextReview
<1> QED
  BY <1>1, <1>2, TypeInvariant, PTL DEF Spec

\* A rejected item has left nothing on the record, unless two moderators had it in
\* hand at once or a handler of it died or raised (queue_approve, queue_reject).
THEOREM RejectedCorrect == Spec => []RejectedLeavesNothing
<1>1. ReviewInv => RejectedLeavesNothing
  BY DEF ReviewInv
<1> QED
  BY <1>1, ReviewInvariant, PTL

\* A review is final, and only where two moderators had the item in hand at once
\* does the second answer replace the first (queue_approve, queue_reject).
THEOREM ReviewStays == Spec => ReviewIsFinal
<1>1. ASSUME TypeInv, ReviewInv, [Next]_vars, NEW i \in Items,
             item[i].status \in {"approved", "rejected"}
      PROVE  /\ item'[i].status \in {"approved", "rejected"}
             /\ i \notin contended' => item'[i].status = item[i].status
  <2>1. ASSUME NEW j \in Items, NEW c \in Candidates, NEW payload \in Payloads,
               Submit(j, c, payload)
        PROVE  item'[i] = item[i]
    BY <1>1, <2>1, SubmitFacts DEF Submit
  <2>2. ASSUME NEW w \in Workers, MarkApproved(w) \/ MarkRejected(w)
        PROVE  /\ item'[i].status \in {"approved", "rejected"}
               /\ i \notin contended' => item'[i].status = item[i].status
    <3>1. PICK j, status : Marks(w, j, status) /\ status \in {"approved", "rejected"}
      BY <1>1, <2>2, MarkFacts
    <3>2. CASE i = j
      BY <1>1, <3>1, <3>2 DEF Marks, ReviewInv, SoleHand
    <3>3. CASE i # j
      BY <1>1, <3>1, <3>3 DEF Marks
    <3> QED
      BY <3>2, <3>3
  <2>3. ASSUME UNCHANGED item PROVE item'[i] = item[i]
    BY <2>3
  <2> QED
    BY <1>1, <2>1, <2>2, <2>3
       DEF Next, vars, Create, Reveal, Vote, Review, Open, Proceed, SaveCandidate, SaveRaises, Die
<1>2. TypeInv /\ ReviewInv /\ [Next]_vars =>
        [\A i \in Items :
           item[i].status \in {"approved", "rejected"} =>
             /\ item'[i].status \in {"approved", "rejected"}
             /\ i \notin contended' => item'[i].status = item[i].status]_vars
  BY <1>1
<1> QED
  BY <1>2, TypeInvariant, ReviewInvariant, PTL DEF Spec, ReviewIsFinal
=============================================================================
