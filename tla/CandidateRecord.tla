-------------------------- MODULE CandidateRecord --------------------------
(***************************************************************************)
(* The record of a candidate and the moderation of what recruiters propose *)
(* for it (apps/moderation/api_views.py, with create_candidate_record and  *)
(* submit_candidate_enrichment of apps/candidates/services.py).            *)
(*                                                                         *)
(* queue_approve runs without a transaction: it reads the item with its    *)
(* candidate, saves the candidate, then the item, and can die in between.  *)
(* The candidate is saved whole, from the copy, over what was committed to *)
(* the row meanwhile: profile views, which reveal_profile counts in place, *)
(* the number of voters, which cast_votes recounts, and other approvals.   *)
(*                                                                         *)
(* A field that only a creation writes says nothing here and is left out,  *)
(* and so are the reward of a submission (module Credits), the sessions    *)
(* that lead to a view (LookupSession) and the steps inside a vote         *)
(* (Voting).                                                               *)
(***************************************************************************)
EXTENDS Integers, FiniteSets, Sequences, Functions

CONSTANTS
  Candidates, Items, Recruiters, Workers,
  Urls, Cities,      \* values of dating_profile_url and city
  Unstorable,        \* a proposed city that the column cannot hold
  Platforms, NoPlatform,
  SocialPlatform,    \* detect_social_platform, per url
  NoCandidate, NoItem, NoValue,
  MaxViews,          \* bound: views of one profile
  MaxDeaths          \* bound: workers that die

ASSUME NullsAssumption ==
  /\ NoCandidate \notin Candidates /\ NoItem \notin Items
  /\ NoPlatform \notin Platforms
  /\ NoValue \notin Urls \cup Cities \cup {Unstorable}
  /\ Unstorable \notin Cities
ASSUME PlatformAssumption == SocialPlatform \in [Urls -> Platforms \cup {NoPlatform}]
ASSUME RecruitersAssumption == IsFiniteSet(Recruiters)
ASSUME BoundAssumption == MaxViews \in Nat /\ MaxDeaths \in Nat

VARIABLES
  row,        \* rows of candidate
  item,       \* rows of data_enrichment_submission
  seen,       \* rows of candidate_view_log, per candidate
  voted,      \* recruiters with rows of candidate_attribute_vote
  job,        \* what a worker is doing
  applied,    \* items whose payload was saved, in the order of the saves (history)
  lost,       \* columns in which a save undid a later value (history)
  contended,  \* items that two handlers had in hand at once (history)
  failed,     \* items of which a handler died or raised (history)
  deaths

vars == <<row, item, seen, voted, job, applied, lost, contended, failed, deaths>>

Fields == {"dating_profile_url", "city"}
Columns == Fields \cup {"profile_views_count", "distinct_recruiter_count"}

Rows == [stored: BOOLEAN,
         dating_profile_url: Urls \cup {NoValue},
         dating_platform: Platforms \cup {NoPlatform},
         city: Cities \cup {NoValue},
         profile_views_count: 0 .. MaxViews,
         distinct_recruiter_count: 0 .. Cardinality(Recruiters)]

NoRow == [stored |-> FALSE, dating_profile_url |-> NoValue, dating_platform |-> NoPlatform,
          city |-> NoValue, profile_views_count |-> 0, distinct_recruiter_count |-> 0]

Payloads == [dating_profile_url: Urls \cup {NoValue}, city: Cities \cup {Unstorable, NoValue}]
NoPayload == [f \in Fields |-> NoValue]

Submissions == [status: {"none", "pending", "approved", "rejected"},
                candidate: Candidates \cup {NoCandidate}, payload: Payloads]
NoSubmission == [status |-> "none", candidate |-> NoCandidate, payload |-> NoPayload]

Jobs == [pc: {"idle", "approving", "marking", "rejecting"}, item: Items \cup {NoItem}, copy: Rows]
NoJob == [pc |-> "idle", item |-> NoItem, copy |-> NoRow]

TypeOK ==
  /\ row \in [Candidates -> Rows]
  /\ item \in [Items -> Submissions]
  /\ seen \in [Candidates -> 0 .. MaxViews]
  /\ voted \in [Candidates -> SUBSET Recruiters]
  /\ job \in [Workers -> Jobs]
  /\ applied \in [Candidates -> Seq(Items)]
  /\ lost \in [Candidates -> SUBSET Columns]
  /\ contended \subseteq Items /\ failed \subseteq Items
  /\ deaths \in 0 .. MaxDeaths

Init ==
  /\ row = [c \in Candidates |-> NoRow]
  /\ item = [i \in Items |-> NoSubmission]
  /\ seen = [c \in Candidates |-> 0]
  /\ voted = [c \in Candidates |-> {}]
  /\ job = [w \in Workers |-> NoJob]
  /\ applied = [c \in Candidates |-> <<>>]
  /\ lost = [c \in Candidates |-> {}]
  /\ contended = {}
  /\ failed = {}
  /\ deaths = 0

-----------------------------------------------------------------------------
(* The record and what is counted on it. *)

\* Candidate.save: the platform follows a url that is set.
Normalised(r) ==
  IF r.dating_profile_url = NoValue THEN r
  ELSE [r EXCEPT !.dating_platform = SocialPlatform[r.dating_profile_url]]

\* create_candidate_record.
NewRow(url, city) ==
  Normalised([NoRow EXCEPT !.stored = TRUE, !.dating_profile_url = url, !.city = city])

Create(c, url, city) ==
  /\ ~row[c].stored
  /\ row' = [row EXCEPT ![c] = NewRow(url, city)]
  /\ UNCHANGED <<item, seen, voted, job, applied, lost, contended, failed, deaths>>

\* reveal_profile: the view is logged and counted where the row is.
Reveal(c) ==
  /\ row[c].stored /\ seen[c] < MaxViews
  /\ seen' = [seen EXCEPT ![c] = @ + 1]
  /\ row' = [row EXCEPT ![c].profile_views_count = @ + 1]
  /\ UNCHANGED <<item, voted, job, applied, lost, contended, failed, deaths>>

VotersAdded(c, r) == [row EXCEPT ![c].distinct_recruiter_count = @ + 1] \* mutated form
VotersCounted(c, r) == [row EXCEPT ![c].distinct_recruiter_count = Cardinality(voted[c] \cup {r})]

\* cast_votes: the voters are counted again, and only their number is saved.
Vote(c, r) ==
  /\ row[c].stored
  /\ voted' = [voted EXCEPT ![c] = @ \cup {r}]
  /\ row' = VotersCounted(c, r)
  /\ lost' = [lost EXCEPT ![c] = @ \ {"distinct_recruiter_count"}]
  /\ UNCHANGED <<item, seen, job, applied, contended, failed, deaths>>

\* submit_candidate_enrichment: at least one editable field with a value.
NewItem(i, c, payload) ==
  /\ row[c].stored /\ payload # NoPayload
  /\ item' = [item EXCEPT ![i] = [status |-> "pending", candidate |-> c, payload |-> payload]]

Submit(i, c, payload) ==
  /\ item[i].status = "none"
  /\ NewItem(i, c, payload)
  /\ UNCHANGED <<row, seen, voted, job, applied, lost, contended, failed, deaths>>

-----------------------------------------------------------------------------
(* The moderation queue. *)

Stored(i) == item[i].status # "none" \* mutated form
Reviewable(i) == item[i].status = "pending"

\* queue_approve and queue_reject read the item, the former its candidate too.
Open(w, i, pc) ==
  /\ job[w].pc = "idle"
  /\ Reviewable(i)
  /\ job' = [job EXCEPT ![w] = [pc |-> pc, item |-> i,
       copy |-> IF pc = "approving" THEN row[item[i].candidate] ELSE NoRow]]
  /\ contended' = IF \E x \in Workers : job[x].item = i THEN contended \cup {i} ELSE contended
  /\ UNCHANGED <<row, item, seen, voted, applied, lost, failed, deaths>>

\* The buttons of a moderator.
Review(w, i) == Open(w, i, "approving") \/ Open(w, i, "rejecting")

Proposed(i) == {f \in Fields : item[i].payload[f] # NoValue}

FreshRow(i, copy) ==
  [NoRow EXCEPT !.stored = TRUE, !.city = item[i].payload.city,
                !.dating_profile_url = item[i].payload.dating_profile_url] \* mutated form
PlatformKept(i, copy) ==
  [f \in DOMAIN copy |-> IF f \in Proposed(i) THEN item[i].payload[f] ELSE copy[f]] \* mutated form

\* The copy with the payload set on it.
Merged(i, copy) ==
  Normalised([f \in DOMAIN copy |-> IF f \in Proposed(i) THEN item[i].payload[f] ELSE copy[f]])

Undone(i, c, copy) == {f \in Columns \ Proposed(i) : copy[f] # row[c][f]}

\* candidate.save()
SaveCandidate(w) ==
  LET i == job[w].item
      c == item[i].candidate IN
  /\ job[w].pc = "approving"
  /\ item[i].payload.city # Unstorable
  /\ row' = [row EXCEPT ![c] = Merged(i, job[w].copy)]
  /\ job' = [job EXCEPT ![w] = [NoJob EXCEPT !.pc = "marking", !.item = i]]
  /\ applied' = [applied EXCEPT ![c] = Append(@, i)]
  /\ lost' = [lost EXCEPT ![c] = (@ \ Proposed(i)) \cup Undone(i, c, job[w].copy)]
  /\ UNCHANGED <<item, seen, voted, contended, failed, deaths>>

\* candidate.save() raises: the item stays as it was.
SaveRaises(w) ==
  LET i == job[w].item IN
  /\ job[w].pc = "approving"
  /\ item[i].payload.city = Unstorable
  /\ job' = [job EXCEPT ![w] = NoJob]
  /\ failed' = failed \cup {i}
  /\ UNCHANGED <<row, item, seen, voted, applied, lost, contended, deaths>>

\* item.save(update_fields=["status", "reviewed_at"])
Marked(i, status) == [item EXCEPT ![i].status = status]

MarkApproved(w) ==
  /\ job[w].pc = "marking"
  /\ item' = Marked(job[w].item, "approved")
  /\ job' = [job EXCEPT ![w] = NoJob]
  /\ UNCHANGED <<row, seen, voted, applied, lost, contended, failed, deaths>>

MarkRejected(w) ==
  /\ job[w].pc = "rejecting"
  /\ item' = Marked(job[w].item, "rejected")
  /\ job' = [job EXCEPT ![w] = NoJob]
  /\ UNCHANGED <<row, seen, voted, applied, lost, contended, failed, deaths>>

Die(w) ==
  /\ job[w].pc # "idle"
  /\ deaths < MaxDeaths
  /\ deaths' = deaths + 1
  /\ failed' = failed \cup {job[w].item}
  /\ job' = [job EXCEPT ![w] = NoJob]
  /\ UNCHANGED <<row, item, seen, voted, applied, lost, contended>>

Proceed(w) == SaveCandidate(w) \/ SaveRaises(w) \/ MarkApproved(w) \/ MarkRejected(w)

Next ==
  \/ \E c \in Candidates :
       \/ \E url \in Urls \cup {NoValue}, city \in Cities : Create(c, url, city)
       \/ Reveal(c)
       \/ \E r \in Recruiters : Vote(c, r)
       \/ \E i \in Items, payload \in Payloads : Submit(i, c, payload)
  \/ \E w \in Workers :
       \/ \E i \in Items : Review(w, i)
       \/ Proceed(w)
       \/ Die(w)

Spec == Init /\ [][Next]_vars

-----------------------------------------------------------------------------
(* Properties. *)

\* The two counts on a record are those of the rows they count, except one that
\* an approval has put back to what it had read (queue_approve); the voters are
\* right again after the next vote (cast_votes), the views never are.
CountsMatchRows ==
  \A c \in Candidates :
    /\ "profile_views_count" \notin lost[c] => row[c].profile_views_count = seen[c]
    /\ "distinct_recruiter_count" \notin lost[c] =>
         row[c].distinct_recruiter_count = Cardinality(voted[c])

\* However approvals overlap and whatever copies they save, the platform of a
\* record is that of its url: no save writes the one without the other
\* (Candidate.save, queue_approve).
PlatformFitsUrl ==
  \A c \in Candidates :
    row[c].dating_profile_url # NoValue =>
      row[c].dating_platform = SocialPlatform[row[c].dating_profile_url]

\* The place of the last item saved to a record that proposes field f.
LastWriter(c, f, n) ==
  /\ n \in DOMAIN applied[c] /\ f \in Proposed(applied[c][n])
  /\ \A m \in DOMAIN applied[c] : m > n => f \notin Proposed(applied[c][m])

\* What an approved item proposes is on the record until a later approval
\* proposes something else, or undoes it with an older copy (queue_approve).
ApprovedIsOnRecord ==
  \A i \in Items :
    LET c == item[i].candidate IN
    item[i].status = "approved" =>
      /\ i \in Range(applied[c])
      /\ \A f \in Proposed(i) \ lost[c] :
           \E n \in DOMAIN applied[c] :
             LastWriter(c, f, n) /\ row[c][f] = item[applied[c][n]].payload[f]

\* A rejected item has left nothing on the record unless two moderators had it
\* in hand at once, or one died between the save of the candidate and that of
\* the item, which then stays pending (queue_approve, queue_reject).
RejectedLeavesNothing ==
  \A i \in Items :
    item[i].status = "rejected" /\ i \notin contended \cup failed =>
      i \notin Range(applied[item[i].candidate])

\* A review is final, and no item comes back to the queue: only where two
\* moderators had it in hand at once does the second answer replace the first.
ReviewIsFinal ==
  [][\A i \in Items :
       item[i].status \in {"approved", "rejected"} =>
         /\ item'[i].status \in {"approved", "rejected"}
         /\ i \notin contended' => item'[i].status = item[i].status]_vars
=============================================================================
