--------------------------- MODULE CreditsProofs ---------------------------
(***************************************************************************)
(* Proofs about Credits for every set of recruiters, workers and checkouts *)
(* and every value of the bounds: what holds however requests overlap, and *)
(* what holds when they are served one after the other.                    *)
(***************************************************************************)
EXTENDS Credits, TLAPS

(* The inductive invariant.  A busy worker holds a recruiter and, when it   *)
(* works on a checkout, that checkout.                                      *)
WorkInv ==
  \A w \in Workers :
    /\ pc[w] # "idle" => user[w] \in Recruiters
    /\ pc[w] \in {"session", "locked"} => target[w] \in Checkouts
    /\ pc[w] \in {"idle", "loaded"} => target[w] = NoCheckout

(* The copy in memory is as harmless as the stored row: not negative, and   *)
(* not above what has been booked.                                          *)
CopyInv ==
  \A w \in Workers :
    pc[w] # "idle" => /\ mem[w].credits >= 0
                      /\ mem[w].credits <= earned[user[w]]

(* A checkout is in the hands of one worker at a time, and its purchase is  *)
(* in the state that the worker found.                                      *)
HoldInv ==
  /\ \A v, w \in Workers :
       target[v] = target[w] /\ target[v] # NoCheckout => v = w
  /\ \A w \in Workers :
       /\ pc[w] = "session" => purchase[target[w]] = "none"
       /\ pc[w] = "locked" => purchase[target[w]] = "pending"

(* Stripe can only know of a checkout whose purchase has been stored.       *)
StoredInv ==
  \A c \in Checkouts :
    /\ purchase[c] # "none" => owner[c] \in Recruiters
    /\ event[c] # "none" => purchase[c] # "none"

IInv ==
  /\ TypeOK /\ WorkInv /\ CopyInv /\ HoldInv /\ StoredInv
  /\ NeverNegative /\ NoMintedCredit /\ BookedOnce /\ AckedMeansCompleted

-----------------------------------------------------------------------------
(* Rows: every method and every save yields a row, and what it does to the *)
(* balance.                                                                *)

\* What marks a day on a row keeps it a row.
LEMMA DayRows ==
  ASSUME NEW u \in Rows, NEW day \in Nat
  PROVE  /\ MarkLookup(u, day) \in Rows
         /\ MarkVote(u, day) \in Rows
         /\ MarkProfileCreated(u, day) \in Rows
<1>1. MarkLookup(u, day) \in Rows /\ MarkVote(u, day) \in Rows
  BY DEF Rows, MarkLookup, MarkVote
<1>2. MarkProfileCreated(u, day) \in Rows
  <2>1. [u EXCEPT !.anchor = day, !.creates = 1] \in Rows
    BY DEF Rows
  <2>2. [u EXCEPT !.creates = @ + 1] \in Rows
    BY DEF Rows
  <2> QED
    BY <2>1, <2>2 DEF MarkProfileCreated
<1> QED
  BY <1>1, <1>2

\* add_credits adds what it is told to.
LEMMA AddRows ==
  ASSUME NEW u \in Rows, NEW n \in Nat \ {0}
  PROVE  AddCredits(u, n) \in Rows /\ AddCredits(u, n).credits = u.credits + n
  BY DEF Rows, AddCredits

\* consume_credit takes one credit if there is one.
LEMMA ConsumeRows ==
  ASSUME NEW u \in Rows, u.credits > 0
  PROVE  /\ ConsumeCredit(u) \in Rows
         /\ ConsumeCredit(u).credits = u.credits - 1
<1>1. ConsumeCredit(u) = [u EXCEPT !.credits = @ - 1]
  BY DEF Rows, ConsumeCredit
<1> QED
  BY <1>1 DEF Rows

\* A save with update_fields keeps the stored row a row, stores the copy's
\* value of the fields it names, and leaves the other fields alone.
LEMMA SavedRows ==
  ASSUME NEW stored \in Rows, NEW u \in Rows
  PROVE  /\ SavedCredits(stored, u) \in Rows
         /\ SavedCredits(stored, u).credits = u.credits
         /\ SavedCredits(stored, u).lastLookup = stored.lastLookup
         /\ SavedLookup(stored, u) \in Rows
         /\ SavedLookup(stored, u).credits = stored.credits
         /\ SavedLookup(stored, u).lastLookup = u.lastLookup
         /\ SavedVote(stored, u) \in Rows
         /\ SavedVote(stored, u).lastLookup = stored.lastLookup
         /\ SavedWeekly(stored, u) \in Rows
         /\ SavedWeekly(stored, u).lastLookup = stored.lastLookup
  BY DEF Rows, SavedCredits, SavedLookup, SavedVote, SavedWeekly

\* The row that a lookup leaves behind, free of charge and charged.
LEMMA FreeRow ==
  ASSUME NEW stored \in Rows, NEW u \in Rows, NEW day \in Nat
  PROVE  LET new == SavedLookup(stored, MarkLookup(u, day)) IN
         new \in Rows /\ new.credits = stored.credits /\ new.lastLookup = day
<1>1. MarkLookup(u, day) \in Rows
  BY DayRows
<1>2. MarkLookup(u, day).lastLookup = day
  BY DEF Rows, MarkLookup
<1> QED
  BY <1>1, <1>2, SavedRows

LEMMA PaidRow ==
  ASSUME NEW stored \in Rows, NEW u \in Rows, NEW day \in Nat, u.credits > 0
  PROVE  LET new == SavedLookup(Charged(stored, u), MarkLookup(u, day)) IN
         new \in Rows /\ new.credits = u.credits - 1 /\ new.lastLookup = day
<1>1. ConsumeCredit(u) \in Rows /\ ConsumeCredit(u).credits = u.credits - 1
  BY ConsumeRows
<1>2. Charged(stored, u) \in Rows /\ Charged(stored, u).credits = u.credits - 1
  BY <1>1, SavedRows DEF Charged
<1> QED
  BY <1>2, FreeRow

\* The row that a reward or a purchase leaves behind.
LEMMA EnrichRow ==
  ASSUME NEW stored \in Rows, NEW u \in Rows, NEW n \in Nat \ {0}
  PROVE  LET new == SavedCredits(stored, AddCredits(u, n)) IN
         /\ new \in Rows /\ new.credits = u.credits + n
         /\ new.lastLookup = stored.lastLookup
<1>1. AddCredits(u, n) \in Rows /\ AddCredits(u, n).credits = u.credits + n
  BY AddRows
<1> QED
  BY <1>1, SavedRows

LEMMA VoteRow ==
  ASSUME NEW stored \in Rows, NEW u \in Rows, NEW day \in Nat
  PROVE  LET new == SavedCredits(SavedVote(stored, MarkVote(u, day)), AddCredits(u, 1)) IN
         /\ new \in Rows /\ new.credits = u.credits + 1
         /\ new.lastLookup = stored.lastLookup
<1> DEFINE voted == SavedVote(stored, MarkVote(u, day))
<1>1. voted \in Rows /\ voted.lastLookup = stored.lastLookup
  <2>1. MarkVote(u, day) \in Rows
    BY DayRows
  <2> QED
    BY <2>1, SavedRows
<1> HIDE DEF voted
<1>2. LET new == SavedCredits(voted, AddCredits(u, 1)) IN
      new \in Rows /\ new.credits = u.credits + 1 /\ new.lastLookup = voted.lastLookup
  BY <1>1, EnrichRow
<1> QED
  BY <1>1, <1>2 DEF voted

LEMMA CreateRow ==
  ASSUME NEW stored \in Rows, NEW u \in Rows, NEW day \in Nat
  PROVE  LET new == SavedCredits(SavedWeekly(stored, MarkProfileCreated(u, day)),
                                 AddCredits(u, 2)) IN
         /\ new \in Rows /\ new.credits = u.credits + 2
         /\ new.lastLookup = stored.lastLookup
<1> DEFINE counted == SavedWeekly(stored, MarkProfileCreated(u, day))
<1>1. counted \in Rows /\ counted.lastLookup = stored.lastLookup
  <2>1. MarkProfileCreated(u, day) \in Rows
    BY DayRows
  <2> QED
    BY <2>1, SavedRows
<1> HIDE DEF counted
<1>2. LET new == SavedCredits(counted, AddCredits(u, 2)) IN
      new \in Rows /\ new.credits = u.credits + 2 /\ new.lastLookup = counted.lastLookup
  BY <1>1, EnrichRow
<1> QED
  BY <1>1, <1>2 DEF counted

LEMMA NewRowIsRow == NewRow \in Rows /\ NewRow.credits = 0
  BY DEF NewRow, Rows, NoDay

-----------------------------------------------------------------------------
(* The invariant is inductive. *)

\* The invariant holds when no request has been served.
LEMMA InitIInv == Init => IInv
<1> SUFFICES ASSUME Init PROVE IInv
  OBVIOUS
<1> USE NewRowIsRow, NullAssumption DEF Init
<1>1. TypeOK
  BY DEF TypeOK
<1>2. WorkInv /\ CopyInv /\ HoldInv /\ StoredInv
  BY DEF WorkInv, CopyInv, HoldInv, StoredInv
<1>3. NeverNegative /\ NoMintedCredit /\ BookedOnce /\ AckedMeansCompleted
  BY DEF NeverNegative, NoMintedCredit, BookedOnce, AckedMeansCompleted
<1> QED
  BY <1>1, <1>2, <1>3 DEF IInv

\* A worker that lets go of its request disturbs nothing.
LEMMA ReleaseStep ==
  ASSUME IInv, NEW w \in Workers, Release(w)
  PROVE  /\ pc' \in [Workers -> {"idle", "loaded", "session", "locked"}]
         /\ user' \in [Workers -> Recruiters \cup {NoOne}]
         /\ mem' \in [Workers -> Rows]
         /\ target' \in [Workers -> Checkouts \cup {NoCheckout}]
         /\ WorkInv'
  BY NewRowIsRow DEF IInv, TypeOK, WorkInv, Release

\* A request of a recruiter that leaves Stripe and the purchases alone and
\* saves a balance that the ledger explains preserves the invariant.
LEMMA RequestStep ==
  ASSUME IInv, NEW w \in Workers, pc[w] = "loaded",
         NEW newRow \in Rows, NEW gain \in Nat, NEW cost \in Nat,
         newRow.credits >= 0, newRow.credits <= earned[user[w]] + gain,
         Commit(w, newRow, gain, cost), Release(w),
         freeLookups' \in [Recruiters -> Nat], UNCHANGED <<today, stripe>>
  PROVE  IInv'
<1>0. user[w] \in Recruiters
  BY DEF IInv, WorkInv
<1>1. TypeOK'
  <2>1. /\ row' \in [Recruiters -> Rows]
        /\ earned' \in [Recruiters -> Nat]
        /\ spent' \in [Recruiters -> Nat]
    BY <1>0 DEF IInv, TypeOK, Commit
  <2>2. /\ purchase' = purchase /\ owner' = owner
        /\ booked' = booked /\ event' = event /\ today' = today
    BY DEF stripe
  <2> QED
    BY <2>1, <2>2, ReleaseStep DEF IInv, TypeOK
<1>2. WorkInv'
  BY ReleaseStep
<1>3. CopyInv'
  BY <1>0 DEF IInv, TypeOK, Rows, WorkInv, CopyInv, Commit, Release
<1>4. HoldInv'
  BY DEF IInv, TypeOK, WorkInv, HoldInv, Release, stripe
<1>5. StoredInv'
  BY DEF IInv, StoredInv, stripe
<1>6. NeverNegative'
  BY <1>0 DEF IInv, TypeOK, NeverNegative, Commit
<1>7. NoMintedCredit'
  BY <1>0 DEF IInv, TypeOK, Rows, NoMintedCredit, Commit
<1>8. BookedOnce' /\ AckedMeansCompleted'
  BY DEF IInv, BookedOnce, AckedMeansCompleted, stripe
<1> QED
  BY <1>1, <1>2, <1>3, <1>4, <1>5, <1>6, <1>7, <1>8 DEF IInv

\* What each request does, in one shape: the row it saves, seen through the
\* balance and the day of the last lookup, and what it books.
Saves(w, credits, lookupDay, gain, cost) ==
  \E new \in Rows :
    /\ new.credits = credits /\ new.lastLookup = lookupDay
    /\ Commit(w, new, gain, cost)

Answered(w) ==
  /\ pc[w] = "loaded" /\ Release(w)
  /\ freeLookups' \in [Recruiters -> Nat] /\ UNCHANGED <<today, stripe>>

\* A busy worker has a recruiter, a stored row of it, and a copy of the row.
LEMMA Busy ==
  ASSUME IInv, NEW w \in Workers, pc[w] # "idle"
  PROVE  /\ user[w] \in Recruiters /\ mem[w] \in Rows /\ row[user[w]] \in Rows
         /\ today \in Nat /\ earned[user[w]] \in Nat /\ spent[user[w]] \in Nat
         /\ mem[w].credits \in Int /\ row[user[w]].credits \in Int
         /\ mem[w].credits >= 0 /\ mem[w].credits <= earned[user[w]]
         /\ row[user[w]].credits >= 0 /\ row[user[w]].credits <= earned[user[w]]
         /\ mem[w].lastLookup \in Nat /\ row[user[w]].lastLookup \in Nat
<1>1. /\ user[w] \in Recruiters /\ mem[w] \in Rows /\ row[user[w]] \in Rows
      /\ today \in Nat /\ earned[user[w]] \in Nat /\ spent[user[w]] \in Nat
  BY DEF IInv, TypeOK, WorkInv
<1> QED
  BY <1>1 DEF IInv, CopyInv, NeverNegative, NoMintedCredit, Rows

LEMMA FreeLookupEffect ==
  ASSUME IInv, NEW w \in Workers, FreeLookup(w)
  PROVE  /\ Saves(w, row[user[w]].credits, today, 0, 0) /\ Answered(w)
         /\ freeLookups' = [freeLookups EXCEPT ![user[w]] = @ + 1]
         /\ mem[w].lastLookup # today
<1>1. pc[w] # "idle" /\ freeLookups \in [Recruiters -> Nat]
  BY DEF FreeLookup, IInv, TypeOK
<1> DEFINE new == SavedLookup(row[user[w]], MarkLookup(mem[w], today))
<1>2. new \in Rows /\ new.credits = row[user[w]].credits /\ new.lastLookup = today
  BY <1>1, Busy, FreeRow
<1>3. Commit(w, new, 0, 0)
  BY DEF FreeLookup
<1>4. Answered(w)
  BY <1>1, Busy DEF FreeLookup, Answered
<1> HIDE DEF new
<1> QED
  BY <1>2, <1>3, <1>4 DEF FreeLookup, Saves, CanLookupToday

LEMMA PaidLookupEffect ==
  ASSUME IInv, NEW w \in Workers, PaidLookup(w)
  PROVE  /\ Saves(w, mem[w].credits - 1, today, 0, 1) /\ Answered(w)
         /\ freeLookups' = freeLookups
         /\ mem[w].lastLookup = today /\ mem[w].credits > 0
<1>1. pc[w] # "idle" /\ freeLookups \in [Recruiters -> Nat]
  BY DEF PaidLookup, IInv, TypeOK
<1> DEFINE new == SavedLookup(Charged(row[user[w]], mem[w]), MarkLookup(mem[w], today))
<1>2. new \in Rows /\ new.credits = mem[w].credits - 1 /\ new.lastLookup = today
  <2>1. row[user[w]] \in Rows /\ mem[w] \in Rows /\ today \in Nat
    BY <1>1, Busy
  <2>2. mem[w].credits > 0
    BY DEF PaidLookup
  <2> QED
    BY <2>1, <2>2, PaidRow
<1>3. Commit(w, new, 0, 1)
  BY DEF PaidLookup
<1>4. Answered(w)
  BY <1>1 DEF PaidLookup, Answered
<1> HIDE DEF new
<1> QED
  BY <1>2, <1>3, <1>4 DEF PaidLookup, Saves, CanLookupToday

LEMMA RewardEffect ==
  ASSUME IInv, NEW w \in Workers,
         VoteReward(w) \/ CreateReward(w) \/ EnrichReward(w)
  PROVE  \E n \in {1, 2} :
           /\ Saves(w, mem[w].credits + n, row[user[w]].lastLookup, n, 0)
           /\ Answered(w)
           /\ freeLookups' = freeLookups
<1>1. pc[w] # "idle" /\ freeLookups \in [Recruiters -> Nat]
  BY DEF VoteReward, CreateReward, EnrichReward, IInv, TypeOK
<1>2. CASE VoteReward(w)
  <2> DEFINE new ==
        SavedCredits(SavedVote(row[user[w]], MarkVote(mem[w], today)),
                     AddCredits(mem[w], 1))
  <2>1. /\ new \in Rows /\ new.credits = mem[w].credits + 1
        /\ new.lastLookup = row[user[w]].lastLookup
    BY <1>1, Busy, VoteRow
  <2>2. Commit(w, new, 1, 0)
    BY <1>2 DEF VoteReward
  <2>3. Answered(w) /\ freeLookups' = freeLookups
    BY <1>1, <1>2 DEF VoteReward, Answered
  <2> HIDE DEF new
  <2> QED
    BY <2>1, <2>2, <2>3 DEF Saves
<1>3. CASE CreateReward(w)
  <2> DEFINE new ==
        SavedCredits(SavedWeekly(row[user[w]], MarkProfileCreated(mem[w], today)),
                     AddCredits(mem[w], 2))
  <2>1. /\ new \in Rows /\ new.credits = mem[w].credits + 2
        /\ new.lastLookup = row[user[w]].lastLookup
    BY <1>1, Busy, CreateRow
  <2>2. Commit(w, new, 2, 0)
    BY <1>3 DEF CreateReward
  <2>3. Answered(w) /\ freeLookups' = freeLookups
    BY <1>1, <1>3 DEF CreateReward, Answered
  <2> HIDE DEF new
  <2> QED
    BY <2>1, <2>2, <2>3 DEF Saves
<1>4. CASE EnrichReward(w)
  <2> DEFINE new == SavedCredits(row[user[w]], AddCredits(mem[w], 1))
  <2>1. /\ new \in Rows /\ new.credits = mem[w].credits + 1
        /\ new.lastLookup = row[user[w]].lastLookup
    <3>1. row[user[w]] \in Rows /\ mem[w] \in Rows /\ 1 \in Nat \ {0}
      BY <1>1, Busy
    <3> QED
      BY <3>1, EnrichRow
  <2>2. Commit(w, new, 1, 0)
    BY <1>4 DEF EnrichReward
  <2>3. Answered(w) /\ freeLookups' = freeLookups
    BY <1>1, <1>4 DEF EnrichReward, Answered
  <2> HIDE DEF new
  <2> QED
    BY <2>1, <2>2, <2>3 DEF Saves
<1> QED
  BY <1>2, <1>3, <1>4

\* Requests that are answered with a lookup or a reward.
LEMMA RewardSteps ==
  ASSUME IInv, NEW w \in Workers,
         \/ FreeLookup(w) \/ PaidLookup(w)
         \/ VoteReward(w) \/ CreateReward(w) \/ EnrichReward(w)
  PROVE  IInv'
<1>1. ASSUME NEW credits \in Nat, NEW day, NEW gain \in Nat, NEW cost \in Nat,
             credits <= earned[user[w]] + gain,
             Saves(w, credits, day, gain, cost), Answered(w)
      PROVE  IInv'
  <2>1. PICK new \in Rows : new.credits = credits /\ Commit(w, new, gain, cost)
    BY <1>1 DEF Saves
  <2>2. new.credits >= 0 /\ new.credits <= earned[user[w]] + gain
    BY <1>1, <2>1
  <2> QED
    BY <1>1, <2>1, <2>2, RequestStep DEF Answered
<1>2. pc[w] # "idle"
  BY DEF FreeLookup, PaidLookup, VoteReward, CreateReward, EnrichReward
<1>3. CASE FreeLookup(w)
  <2>1. /\ row[user[w]].credits \in Nat
        /\ row[user[w]].credits <= earned[user[w]] + 0
    BY <1>2, Busy
  <2> QED
    BY <1>1, <1>3, <2>1, FreeLookupEffect
<1>4. CASE PaidLookup(w)
  <2>1. mem[w].credits > 0
    BY <1>4, PaidLookupEffect
  <2>2. /\ mem[w].credits - 1 \in Nat
        /\ mem[w].credits - 1 <= earned[user[w]] + 0
    BY <1>2, <2>1, Busy
  <2> QED
    BY <1>1, <1>4, <2>2, PaidLookupEffect
<1>5. CASE VoteReward(w) \/ CreateReward(w) \/ EnrichReward(w)
  <2>1. PICK n \in {1, 2} :
          /\ Saves(w, mem[w].credits + n, row[user[w]].lastLookup, n, 0)
          /\ Answered(w)
    BY <1>5, RewardEffect
  <2>2. /\ mem[w].credits + n \in Nat /\ n \in Nat
        /\ mem[w].credits + n <= earned[user[w]] + n
    BY <1>2, Busy
  <2> QED
    BY <1>1, <2>1, <2>2
<1> QED
  BY <1>3, <1>4, <1>5

\* Loading a row, giving up, and the steps of a checkout before the webhook.
LEMMA LoadStep ==
  ASSUME IInv, NEW w \in Workers, NEW r \in Recruiters, Load(w, r)
  PROVE  IInv'
<1>1. TypeOK'
  BY DEF IInv, TypeOK, Load, ledger, stripe
<1>2. WorkInv'
  BY DEF IInv, TypeOK, WorkInv, Load
<1>3. CopyInv'
  BY DEF IInv, TypeOK, CopyInv, NeverNegative, NoMintedCredit, Load, ledger
<1>4. HoldInv' /\ StoredInv'
  BY DEF IInv, TypeOK, WorkInv, HoldInv, StoredInv, Load, stripe
<1>5. NeverNegative' /\ NoMintedCredit' /\ BookedOnce' /\ AckedMeansCompleted'
  BY DEF IInv, NeverNegative, NoMintedCredit, BookedOnce, AckedMeansCompleted,
         Load, ledger, stripe
<1> QED
  BY <1>1, <1>2, <1>3, <1>4, <1>5 DEF IInv

LEMMA AbandonStep ==
  ASSUME IInv, NEW w \in Workers, Abandon(w)
  PROVE  IInv'
<1>0. Release(w)
  BY DEF Abandon
<1>1. TypeOK'
  BY <1>0, ReleaseStep DEF IInv, TypeOK, Abandon, ledger, stripe
<1>2. WorkInv'
  BY <1>0, ReleaseStep
<1>3. CopyInv'
  BY DEF IInv, TypeOK, CopyInv, Abandon, Release, ledger
<1>4. HoldInv' /\ StoredInv'
  BY DEF IInv, TypeOK, WorkInv, HoldInv, StoredInv, Abandon, Release, stripe
<1>5. NeverNegative' /\ NoMintedCredit' /\ BookedOnce' /\ AckedMeansCompleted'
  BY DEF IInv, NeverNegative, NoMintedCredit, BookedOnce, AckedMeansCompleted,
         Abandon, ledger, stripe
<1> QED
  BY <1>1, <1>2, <1>3, <1>4, <1>5 DEF IInv

LEMMA OpenCheckoutStep ==
  ASSUME IInv, NEW w \in Workers, NEW c \in Checkouts, OpenCheckout(w, c)
  PROVE  IInv'
<1>1. TypeOK'
  BY DEF IInv, TypeOK, OpenCheckout, ledger, stripe
<1>2. WorkInv' /\ CopyInv'
  BY DEF IInv, TypeOK, WorkInv, CopyInv, OpenCheckout, ledger
<1>3. HoldInv'
  BY NullAssumption DEF IInv, TypeOK, WorkInv, HoldInv, OpenCheckout, stripe
<1>4. StoredInv'
  BY DEF IInv, StoredInv, OpenCheckout, stripe
<1>5. NeverNegative' /\ NoMintedCredit' /\ BookedOnce' /\ AckedMeansCompleted'
  BY DEF IInv, NeverNegative, NoMintedCredit, BookedOnce, AckedMeansCompleted,
         OpenCheckout, ledger, stripe
<1> QED
  BY <1>1, <1>2, <1>3, <1>4, <1>5 DEF IInv

LEMMA StorePurchaseStep ==
  ASSUME IInv, NEW w \in Workers, StorePurchase(w)
  PROVE  IInv'
<1> DEFINE c == target[w]
<1>0. /\ Release(w) /\ c \in Checkouts /\ user[w] \in Recruiters
      /\ purchase[c] = "none" /\ c # NoCheckout
  BY NullAssumption DEF IInv, WorkInv, HoldInv, StorePurchase
<1>1. TypeOK'
  <2>1. /\ purchase' \in [Checkouts -> {"none", "pending", "completed"}]
        /\ owner' \in [Checkouts -> Recruiters \cup {NoOne}]
    BY <1>0 DEF IInv, TypeOK, StorePurchase
  <2> QED
    BY <1>0, <2>1, ReleaseStep DEF IInv, TypeOK, StorePurchase, ledger
<1>2. WorkInv'
  BY <1>0, ReleaseStep
<1>3. CopyInv'
  BY DEF IInv, TypeOK, CopyInv, StorePurchase, Release, ledger
<1>4. HoldInv'
  BY <1>0 DEF IInv, TypeOK, WorkInv, HoldInv, StorePurchase, Release
<1>5. StoredInv'
  BY <1>0 DEF IInv, TypeOK, StoredInv, StorePurchase
<1>6. BookedOnce' /\ AckedMeansCompleted'
  BY <1>0 DEF IInv, TypeOK, BookedOnce, AckedMeansCompleted, StoredInv,
              StorePurchase
<1>7. NeverNegative' /\ NoMintedCredit'
  BY DEF IInv, NeverNegative, NoMintedCredit, StorePurchase, ledger
<1> QED
  BY <1>1, <1>2, <1>3, <1>4, <1>5, <1>6, <1>7 DEF IInv

LEMMA PayStep ==
  ASSUME IInv, NEW c \in Checkouts, Pay(c)
  PROVE  IInv'
<1>1. TypeOK'
  BY DEF IInv, TypeOK, Pay, ledger, work
<1>2. WorkInv' /\ CopyInv' /\ HoldInv'
  BY DEF IInv, WorkInv, CopyInv, HoldInv, Pay, ledger, work
<1>3. StoredInv' /\ BookedOnce' /\ AckedMeansCompleted'
  BY DEF IInv, TypeOK, StoredInv, BookedOnce, AckedMeansCompleted, Pay, UrlKnown
<1>4. NeverNegative' /\ NoMintedCredit'
  BY DEF IInv, NeverNegative, NoMintedCredit, Pay, ledger
<1> QED
  BY <1>1, <1>2, <1>3, <1>4 DEF IInv

\* The webhook.
LEMMA WebhookIgnoredStep ==
  ASSUME IInv, NEW w \in Workers, NEW c \in Checkouts, WebhookIgnored(w, c)
  PROVE  IInv'
<1>1. TypeOK'
  BY DEF IInv, TypeOK, WebhookIgnored, ledger, work
<1>2. WorkInv' /\ CopyInv' /\ HoldInv'
  BY DEF IInv, WorkInv, CopyInv, HoldInv, WebhookIgnored, ledger, work
<1>3. StoredInv' /\ BookedOnce' /\ AckedMeansCompleted'
  BY DEF IInv, TypeOK, StoredInv, BookedOnce, AckedMeansCompleted, WebhookIgnored
<1>4. NeverNegative' /\ NoMintedCredit'
  BY DEF IInv, NeverNegative, NoMintedCredit, WebhookIgnored, ledger
<1> QED
  BY <1>1, <1>2, <1>3, <1>4 DEF IInv

LEMMA WebhookLockStep ==
  ASSUME IInv, NEW w \in Workers, NEW c \in Checkouts, WebhookLock(w, c)
  PROVE  IInv'
<1>0. owner[c] \in Recruiters
  BY DEF IInv, StoredInv, WebhookLock
<1>1. TypeOK'
  BY <1>0 DEF IInv, TypeOK, WebhookLock, ledger, stripe
<1>2. WorkInv'
  BY <1>0 DEF IInv, TypeOK, WorkInv, WebhookLock
<1>3. CopyInv'
  BY <1>0 DEF IInv, TypeOK, CopyInv, NeverNegative, NoMintedCredit, WebhookLock,
              ledger
<1>4. HoldInv'
  <2>1. \A v \in Workers : target[v] # c
    BY NullAssumption DEF IInv, TypeOK, WorkInv, HoldInv, WebhookLock, Unlocked
  <2> QED
    BY <2>1 DEF IInv, TypeOK, HoldInv, WebhookLock, stripe
<1>5. StoredInv' /\ BookedOnce' /\ AckedMeansCompleted'
  BY DEF IInv, StoredInv, BookedOnce, AckedMeansCompleted, WebhookLock, stripe
<1>6. NeverNegative' /\ NoMintedCredit'
  BY DEF IInv, NeverNegative, NoMintedCredit, WebhookLock, ledger
<1> QED
  BY <1>1, <1>2, <1>3, <1>4, <1>5, <1>6 DEF IInv

LEMMA WebhookCommitStep ==
  ASSUME IInv, NEW w \in Workers, WebhookCommit(w)
  PROVE  IInv'
<1> DEFINE c == target[w]
<1> DEFINE r == user[w]
<1> DEFINE newRow == SavedCredits(row[r], AddCredits(mem[w], Quantity[c]))
<1>0. /\ Release(w) /\ c \in Checkouts /\ r \in Recruiters /\ c # NoCheckout
      /\ purchase[c] = "pending" /\ Quantity[c] \in Nat \ {0}
      /\ mem[w] \in Rows /\ row[r] \in Rows /\ earned[r] \in Nat
      /\ mem[w].credits >= 0 /\ mem[w].credits <= earned[r]
  <2>1. pc[w] = "locked" /\ Release(w)
    BY DEF WebhookCommit
  <2>2. c \in Checkouts /\ r \in Recruiters /\ purchase[c] = "pending"
    BY <2>1 DEF IInv, WorkInv, HoldInv
  <2>3. c # NoCheckout /\ Quantity[c] \in Nat \ {0}
    BY <2>2, NullAssumption, QuantityAssumption
  <2>4. mem[w] \in Rows /\ row[r] \in Rows /\ earned[r] \in Nat
    BY <2>2 DEF IInv, TypeOK
  <2>5. mem[w].credits >= 0 /\ mem[w].credits <= earned[r]
    BY <2>1 DEF IInv, CopyInv
  <2> QED
    BY <2>1, <2>2, <2>3, <2>4, <2>5
<1>1. newRow \in Rows /\ newRow.credits = mem[w].credits + Quantity[c]
  BY <1>0, EnrichRow
<1>2. /\ Commit(w, newRow, Quantity[c], 0)
      /\ purchase' = [purchase EXCEPT ![c] = "completed"]
      /\ booked' = [booked EXCEPT ![c] = @ + 1]
      /\ event' \in {event, [event EXCEPT ![c] = "acked"]}
      /\ UNCHANGED <<today, freeLookups, owner>>
  BY DEF WebhookCommit
<1>3. newRow.credits \in Int /\ mem[w].credits \in Int
  BY <1>0, <1>1 DEF Rows
<1> HIDE DEF newRow
<1>4. TypeOK'
  <2>1. /\ row' \in [Recruiters -> Rows]
        /\ earned' \in [Recruiters -> Nat]
        /\ spent' \in [Recruiters -> Nat]
    BY <1>0, <1>1, <1>2 DEF IInv, TypeOK, Commit
  <2>2. /\ purchase' \in [Checkouts -> {"none", "pending", "completed"}]
        /\ booked' \in [Checkouts -> Nat]
        /\ event' \in [Checkouts -> {"none", "due", "acked"}]
    BY <1>0, <1>2 DEF IInv, TypeOK
  <2> QED
    BY <1>0, <1>2, <2>1, <2>2, ReleaseStep DEF IInv, TypeOK
<1>5. WorkInv'
  BY <1>0, ReleaseStep
<1>6. CopyInv'
  BY <1>0, <1>2 DEF IInv, TypeOK, Rows, WorkInv, CopyInv, Commit, Release
<1>7. HoldInv'
  BY <1>0, <1>2 DEF IInv, TypeOK, WorkInv, HoldInv, Release
<1>8. StoredInv' /\ BookedOnce' /\ AckedMeansCompleted'
  BY <1>0, <1>2 DEF IInv, TypeOK, StoredInv, BookedOnce, AckedMeansCompleted
<1>9. NeverNegative'
  BY <1>0, <1>1, <1>2, <1>3 DEF IInv, TypeOK, NeverNegative, Commit
<1>10. NoMintedCredit'
  BY <1>0, <1>1, <1>2, <1>3 DEF IInv, TypeOK, Rows, NoMintedCredit, Commit
<1> QED
  BY <1>4, <1>5, <1>6, <1>7, <1>8, <1>9, <1>10 DEF IInv

LEMMA NextDayStep ==
  ASSUME IInv, NextDay
  PROVE  IInv'
<1>1. TypeOK'
  BY DEF IInv, TypeOK, NextDay, stripe, work
<1>2. WorkInv' /\ CopyInv' /\ HoldInv' /\ StoredInv'
  BY DEF IInv, WorkInv, CopyInv, HoldInv, StoredInv, NextDay, stripe, work
<1>3. NeverNegative' /\ NoMintedCredit' /\ BookedOnce' /\ AckedMeansCompleted'
  BY DEF IInv, NeverNegative, NoMintedCredit, BookedOnce, AckedMeansCompleted,
         NextDay, stripe
<1> QED
  BY <1>1, <1>2, <1>3 DEF IInv

\* Every step of the credit system preserves the invariant.
LEMMA NextIInv == IInv /\ [Next]_vars => IInv'
<1> SUFFICES ASSUME IInv, [Next]_vars PROVE IInv'
  OBVIOUS
<1>1. CASE UNCHANGED vars
  BY <1>1 DEF vars, ledger, stripe, work, IInv, TypeOK, WorkInv, CopyInv,
              HoldInv, StoredInv, NeverNegative, NoMintedCredit, BookedOnce,
              AckedMeansCompleted
<1>2. CASE \E w \in Workers : Request(w)
  <2> PICK w \in Workers : Request(w)
    BY <1>2
  <2>1. CASE \E r \in Recruiters : Load(w, r)
    BY <2>1, LoadStep
  <2>2. CASE Abandon(w)
    BY <2>2, AbandonStep
  <2>3. CASE \/ FreeLookup(w) \/ PaidLookup(w)
             \/ VoteReward(w) \/ CreateReward(w) \/ EnrichReward(w)
    BY <2>3, RewardSteps
  <2>4. CASE \E c \in Checkouts : OpenCheckout(w, c)
    BY <2>4, OpenCheckoutStep
  <2>5. CASE StorePurchase(w)
    BY <2>5, StorePurchaseStep
  <2>6. CASE \E c \in Checkouts : WebhookIgnored(w, c)
    BY <2>6, WebhookIgnoredStep
  <2>7. CASE \E c \in Checkouts : WebhookLock(w, c)
    BY <2>7, WebhookLockStep
  <2>8. CASE WebhookCommit(w)
    BY <2>8, WebhookCommitStep
  <2> QED
    BY <2>1, <2>2, <2>3, <2>4, <2>5, <2>6, <2>7, <2>8 DEF Request
<1>3. CASE \E c \in Checkouts : Pay(c)
  BY <1>3, PayStep
<1>4. CASE NextDay
  BY <1>4, NextDayStep
<1> QED
  BY <1>1, <1>2, <1>3, <1>4 DEF Next

-----------------------------------------------------------------------------
(* The theorems. *)

\* The conjunction of everything below is an invariant of the credit system,
\* whatever the number of workers (services that write recruiter_user.credits).
THEOREM CreditsInvariant == Spec => []IInv
<1>1. Init => IInv
  BY InitIInv
<1>2. IInv /\ [Next]_vars => IInv'
  BY NextIInv
<1> QED
  BY <1>1, <1>2, PTL DEF Spec

\* Every variable keeps its type: a balance stays an integer, a purchase stays
\* in one of its states (RecruiterUser, CreditPurchase).
THEOREM CreditsTypeOK == Spec => []TypeOK
<1>1. IInv => TypeOK
  BY DEF IInv
<1> QED
  BY <1>1, CreditsInvariant, PTL

\* No race of requests takes a balance below zero (consume_credit).
THEOREM CreditsNeverNegative == Spec => []NeverNegative
<1>1. IInv => NeverNegative
  BY DEF IInv
<1> QED
  BY <1>1, CreditsInvariant, PTL

\* No race of requests makes a credit that was not booked (add_credits).
THEOREM CreditsNoMintedCredit == Spec => []NoMintedCredit
<1>1. IInv => NoMintedCredit
  BY DEF IInv
<1> QED
  BY <1>1, CreditsInvariant, PTL

\* A purchase is booked exactly once, and only a completed one is
\* (handle_checkout_completed).
THEOREM CreditsBookedOnce == Spec => []BookedOnce
<1>1. IInv => BookedOnce
  BY DEF IInv
<1> QED
  BY <1>1, CreditsInvariant, PTL

\* Stripe is told to stop only when the purchase is completed (stripe_webhook).
THEOREM CreditsAckedMeansCompleted == Spec => []AckedMeansCompleted
<1>1. IInv => AckedMeansCompleted
  BY DEF IInv
<1> QED
  BY <1>1, CreditsInvariant, PTL

-----------------------------------------------------------------------------
(* The day of the last lookup only moves forward, so a copy in memory that  *)
(* says "today" is right about the stored row.                              *)
DayInv ==
  /\ \A r \in Recruiters : row[r].lastLookup <= today
  /\ \A w \in Workers :
       pc[w] # "idle" => mem[w].lastLookup <= row[user[w]].lastLookup

\* The webhook, in the shape of the other requests.
LEMMA WebhookEffect ==
  ASSUME IInv, NEW w \in Workers, WebhookCommit(w)
  PROVE  LET n == Quantity[target[w]] IN
         /\ n \in Nat /\ pc[w] = "locked" /\ target[w] \in Checkouts
         /\ Saves(w, mem[w].credits + n, row[user[w]].lastLookup, n, 0)
         /\ Release(w) /\ UNCHANGED <<today, freeLookups>>
<1> DEFINE n == Quantity[target[w]]
<1> DEFINE new == SavedCredits(row[user[w]], AddCredits(mem[w], n))
<1>1. pc[w] = "locked" /\ target[w] \in Checkouts
  BY DEF WebhookCommit, IInv, WorkInv
<1>2. n \in Nat \ {0}
  BY <1>1, QuantityAssumption
<1>3. /\ new \in Rows /\ new.credits = mem[w].credits + n
      /\ new.lastLookup = row[user[w]].lastLookup
  <2>1. row[user[w]] \in Rows /\ mem[w] \in Rows
    BY <1>1, Busy
  <2> QED
    BY <1>2, <2>1, EnrichRow
<1>4. /\ Commit(w, new, n, 0) /\ Release(w) /\ UNCHANGED <<today, freeLookups>>
  BY DEF WebhookCommit
<1> HIDE DEF new, n
<1>5. Saves(w, mem[w].credits + n, row[user[w]].lastLookup, n, 0)
  BY <1>3, <1>4 DEF Saves
<1> QED
  BY <1>1, <1>2, <1>4, <1>5 DEF n

\* A request that leaves the day of the last lookup alone, or sets it to today.
LEMMA SaveDay ==
  ASSUME IInv, DayInv, NEW w \in Workers, pc[w] # "idle", NEW credits,
         NEW day \in {row[user[w]].lastLookup, today}, NEW gain, NEW cost,
         Saves(w, credits, day, gain, cost), Release(w), today' = today
  PROVE  DayInv'
<1>1. PICK new \in Rows : new.lastLookup = day /\ Commit(w, new, gain, cost)
  BY DEF Saves
<1>2. /\ user[w] \in Recruiters /\ row \in [Recruiters -> Rows]
      /\ \A r \in Recruiters : row[r].lastLookup \in Nat
      /\ \A v \in Workers : mem[v].lastLookup \in Nat
      /\ today \in Nat
  BY Busy DEF IInv, TypeOK, Rows
<1>3. /\ row[user[w]].lastLookup <= day /\ day <= today /\ day \in Nat
  BY <1>2 DEF DayInv
<1>4. \A r \in Recruiters : /\ row[r].lastLookup <= row'[r].lastLookup
                            /\ row'[r].lastLookup <= today
                            /\ row'[r].lastLookup \in Nat
  BY <1>1, <1>2, <1>3 DEF Commit, DayInv
<1>5. ASSUME NEW v \in Workers, pc'[v] # "idle"
      PROVE  mem'[v].lastLookup <= row'[user'[v]].lastLookup
  <2>1. pc[v] # "idle" /\ mem'[v] = mem[v] /\ user'[v] = user[v]
    BY <1>5 DEF Release, IInv, TypeOK
  <2>2. user[v] \in Recruiters
    BY <2>1 DEF IInv, WorkInv
  <2> QED
    BY <1>2, <1>4, <2>1, <2>2 DEF DayInv
<1> QED
  BY <1>4, <1>5 DEF DayInv

LEMMA DayInvNext == IInv /\ DayInv /\ [Next]_vars => DayInv'
<1> SUFFICES ASSUME IInv, DayInv, [Next]_vars PROVE DayInv'
  OBVIOUS
<1>0. /\ today \in Nat /\ \A r \in Recruiters : row[r].lastLookup \in Nat
      /\ \A v \in Workers : mem[v].lastLookup \in Nat
      /\ \A v \in Workers : pc[v] # "idle" => user[v] \in Recruiters
  BY DEF IInv, TypeOK, Rows, WorkInv
<1>1. CASE UNCHANGED vars
  BY <1>1 DEF vars, work, DayInv
<1>2. ASSUME NEW w \in Workers, NEW r \in Recruiters, Load(w, r)
      PROVE  DayInv'
  BY <1>0, <1>2 DEF Load, DayInv, IInv, TypeOK
<1>3. ASSUME NEW w \in Workers, Abandon(w) PROVE DayInv'
  BY <1>0, <1>3 DEF Abandon, Release, DayInv, IInv, TypeOK
<1>4. ASSUME NEW w \in Workers, FreeLookup(w) PROVE DayInv'
  <2>1. pc[w] # "idle"
    BY <1>4 DEF FreeLookup
  <2> QED
    BY <1>4, <2>1, FreeLookupEffect, SaveDay DEF Answered
<1>5. ASSUME NEW w \in Workers, PaidLookup(w) PROVE DayInv'
  <2>1. pc[w] # "idle"
    BY <1>5 DEF PaidLookup
  <2> QED
    BY <1>5, <2>1, PaidLookupEffect, SaveDay DEF Answered
<1>6. ASSUME NEW w \in Workers, VoteReward(w) \/ CreateReward(w) \/ EnrichReward(w)
      PROVE  DayInv'
  <2>1. pc[w] # "idle"
    BY <1>6 DEF VoteReward, CreateReward, EnrichReward
  <2> QED
    BY <1>6, <2>1, RewardEffect, SaveDay DEF Answered
<1>7. ASSUME NEW w \in Workers, NEW c \in Checkouts, OpenCheckout(w, c)
      PROVE  DayInv'
  BY <1>0, <1>7 DEF OpenCheckout, DayInv, IInv, TypeOK
<1>8. ASSUME NEW w \in Workers, StorePurchase(w) PROVE DayInv'
  BY <1>0, <1>8 DEF StorePurchase, Release, DayInv, IInv, TypeOK
<1>9. ASSUME NEW w \in Workers, NEW c \in Checkouts, WebhookIgnored(w, c)
      PROVE  DayInv'
  BY <1>9 DEF WebhookIgnored, work, DayInv
<1>10. ASSUME NEW w \in Workers, NEW c \in Checkouts, WebhookLock(w, c)
       PROVE  DayInv'
  <2>1. owner[c] \in Recruiters
    BY <1>10 DEF WebhookLock, IInv, StoredInv
  <2> QED
    BY <1>0, <1>10, <2>1 DEF WebhookLock, DayInv, IInv, TypeOK
<1>11. ASSUME NEW w \in Workers, WebhookCommit(w) PROVE DayInv'
  <2>1. pc[w] # "idle"
    BY <1>11, WebhookEffect
  <2> QED
    BY <1>11, <2>1, WebhookEffect, SaveDay
<1>12. ASSUME NEW c \in Checkouts, Pay(c) PROVE DayInv'
  BY <1>12 DEF Pay, work, DayInv
<1>13. ASSUME NextDay PROVE DayInv'
  BY <1>0, <1>13 DEF NextDay, work, DayInv
<1> QED
  BY <1>1, <1>2, <1>3, <1>4, <1>5, <1>6, <1>7, <1>8, <1>9, <1>10, <1>11, <1>12,
     <1>13 DEF Next, Request

\* A charge is booked only on a day on which the recruiter had a lookup before.
LEMMA ChargeStep ==
  ASSUME IInv, DayInv, [Next]_vars,
         NEW r \in Recruiters, spent'[r] > spent[r]
  PROVE  row[r].lastLookup = today
<1>0. spent \in [Recruiters -> Nat]
  BY DEF IInv, TypeOK
<1>1. ASSUME NEW w \in Workers, NEW credits, NEW day, NEW gain,
             Saves(w, credits, day, gain, 0), user[w] \in Recruiters
      PROVE  FALSE
  BY <1>0, <1>1 DEF Saves, Commit
<1>2. PICK w \in Workers : PaidLookup(w)
  <2>1. spent' # spent
    BY <1>0
  <2>2. ASSUME NEW w \in Workers, FreeLookup(w) PROVE FALSE
    BY <1>1, <2>2, FreeLookupEffect, Busy DEF FreeLookup
  <2>3. ASSUME NEW w \in Workers, VoteReward(w) \/ CreateReward(w) \/ EnrichReward(w)
        PROVE  FALSE
    <3>1. pc[w] # "idle"
      BY <2>3 DEF VoteReward, CreateReward, EnrichReward
    <3> QED
      BY <1>1, <2>3, <3>1, RewardEffect, Busy
  <2>4. ASSUME NEW w \in Workers, WebhookCommit(w) PROVE FALSE
    BY <1>1, <2>4, WebhookEffect, Busy
  <2>5. \E w \in Workers : Request(w)
    BY <2>1 DEF Next, vars, ledger, Pay, NextDay
  <2> QED
    BY <2>1, <2>2, <2>3, <2>4, <2>5
       DEF Request, Load, Abandon, OpenCheckout, StorePurchase, WebhookIgnored,
           WebhookLock, ledger
<1>3. pc[w] # "idle"
  BY <1>2 DEF PaidLookup
<1>4. r = user[w]
  BY <1>0, <1>2, PaidLookupEffect DEF Saves, Commit
<1>5. mem[w].lastLookup = today
  BY <1>2, PaidLookupEffect
<1> QED
  BY <1>3, <1>4, <1>5, Busy DEF DayInv

\* A credit is charged only on a day on which the recruiter has had a lookup
\* already, also when the copy in memory is stale (_resolve_paid_lookup).
THEOREM CreditsChargedOnlyAfterFree == Spec => ChargedOnlyAfterFree
<1>1. Init => DayInv
  BY DEF Init, DayInv, NewRow, NoDay
<1>2. IInv /\ DayInv /\ [Next]_vars => DayInv'
  BY DayInvNext
<1>3. IInv /\ DayInv /\ [Next]_vars =>
        [\A r \in Recruiters : spent'[r] > spent[r] => row[r].lastLookup = today]_vars
  BY ChargeStep
<1> QED
  BY <1>1, <1>2, <1>3, CreditsInvariant, PTL DEF Spec, ChargedOnlyAfterFree

-----------------------------------------------------------------------------
(* What the credit system promises when requests are served one after the  *)
(* other: the ledger explains the balance, a day has one free lookup, and  *)
(* the system implements the wallet of the requirements (Wallet).  With a  *)
(* second worker none of the three holds; see the README.                  *)

OneWorker == \A v, w \in Workers : v = w

(* With one worker the copy in memory is the stored row.                   *)
SerialInv ==
  /\ \A w \in Workers : pc[w] # "idle" => mem[w] = row[user[w]]
  /\ LedgerMatchesBalance
  /\ \A r \in Recruiters :
       /\ freeLookups[r] <= 1
       /\ row[r].lastLookup # today => freeLookups[r] = 0

\* A request that ends preserves the serial invariant if what it books is what
\* it does to the balance.
LEMMA SerialSave ==
  ASSUME OneWorker, IInv, SerialInv, NEW w \in Workers, pc[w] # "idle",
         NEW day, NEW gain \in Nat, NEW cost \in Nat,
         Saves(w, row[user[w]].credits + gain - cost, day, gain, cost), Release(w)
  PROVE  /\ \A v \in Workers : pc'[v] # "idle" => mem'[v] = row'[user'[v]]
         /\ LedgerMatchesBalance'
<1>1. PICK new \in Rows :
        /\ new.credits = row[user[w]].credits + gain - cost
        /\ Commit(w, new, gain, cost)
  BY DEF Saves
<1>2. /\ user[w] \in Recruiters /\ row[user[w]].credits \in Int
      /\ row \in [Recruiters -> Rows] /\ DOMAIN pc = Workers
      /\ earned \in [Recruiters -> Nat] /\ spent \in [Recruiters -> Nat]
  BY Busy DEF IInv, TypeOK
<1>3. \A v \in Workers : pc'[v] = "idle"
  BY <1>2 DEF OneWorker, Release
<1>4. LedgerMatchesBalance'
  BY <1>1, <1>2 DEF SerialInv, LedgerMatchesBalance, Commit
<1> QED
  BY <1>3, <1>4

\* The effects of FreeLookup with one worker.
LEMMA SerialFree ==
  ASSUME OneWorker, IInv, SerialInv, NEW w \in Workers, FreeLookup(w)
  PROVE  /\ user[w] \in Recruiters /\ row[user[w]].lastLookup # today
         /\ Saves(w, row[user[w]].credits + 0 - 0, today, 0, 0) /\ Answered(w)
         /\ freeLookups' = [freeLookups EXCEPT ![user[w]] = @ + 1]
         /\ pc[w] # "idle"
<1>1. pc[w] # "idle"
  BY DEF FreeLookup
<1>2. /\ row[user[w]].credits + 0 - 0 = row[user[w]].credits
      /\ user[w] \in Recruiters
  BY <1>1, Busy
<1> QED
  BY <1>1, <1>2, FreeLookupEffect DEF SerialInv

\* The effects of PaidLookup with one worker.
LEMMA SerialPaid ==
  ASSUME OneWorker, IInv, SerialInv, NEW w \in Workers, PaidLookup(w)
  PROVE  /\ user[w] \in Recruiters /\ row[user[w]].lastLookup = today
         /\ row[user[w]].credits > 0
         /\ Saves(w, row[user[w]].credits + 0 - 1, today, 0, 1) /\ Answered(w)
         /\ freeLookups' = freeLookups
         /\ pc[w] # "idle"
<1>1. pc[w] # "idle"
  BY DEF PaidLookup
<1>2. /\ row[user[w]].credits + 0 - 1 = row[user[w]].credits - 1
      /\ user[w] \in Recruiters
  BY <1>1, Busy
<1> QED
  BY <1>1, <1>2, PaidLookupEffect DEF SerialInv

\* The effects of a reward with one worker.
LEMMA SerialReward ==
  ASSUME OneWorker, IInv, SerialInv, NEW w \in Workers,
         VoteReward(w) \/ CreateReward(w) \/ EnrichReward(w)
  PROVE  /\ user[w] \in Recruiters
         /\ \E n \in {1, 2} :
              Saves(w, row[user[w]].credits + n - 0, row[user[w]].lastLookup, n, 0)
         /\ Answered(w) /\ freeLookups' = freeLookups /\ pc[w] # "idle"
<1>1. pc[w] # "idle"
  BY DEF VoteReward, CreateReward, EnrichReward
<1>2. /\ \A n \in {1, 2} : row[user[w]].credits + n - 0 = row[user[w]].credits + n
      /\ user[w] \in Recruiters
  BY <1>1, Busy
<1> QED
  BY <1>1, <1>2, RewardEffect DEF SerialInv

\* The effects of the webhook with one worker.
LEMMA SerialWebhook ==
  ASSUME OneWorker, IInv, SerialInv, NEW w \in Workers, WebhookCommit(w)
  PROVE  LET n == Quantity[target[w]] IN
         /\ n \in Nat /\ user[w] \in Recruiters /\ target[w] \in Checkouts
         /\ Saves(w, row[user[w]].credits + n - 0, row[user[w]].lastLookup, n, 0)
         /\ Release(w) /\ UNCHANGED <<today, freeLookups>> /\ pc[w] # "idle"
<1>1. pc[w] # "idle" /\ Quantity[target[w]] \in Nat
  BY WebhookEffect
<1>2. /\ row[user[w]].credits + Quantity[target[w]] - 0
           = row[user[w]].credits + Quantity[target[w]]
      /\ user[w] \in Recruiters
  BY <1>1, Busy
<1> QED
  BY <1>1, <1>2, WebhookEffect DEF SerialInv

\* What a save does to the day of the last lookup of each recruiter.
LEMMA SavedDays ==
  ASSUME IInv, NEW w \in Workers, pc[w] # "idle", NEW credits, NEW day,
         NEW gain, NEW cost, Saves(w, credits, day, gain, cost)
  PROVE  /\ user[w] \in Recruiters
         /\ row'[user[w]].lastLookup = day
         /\ \A r \in Recruiters : r # user[w] => row'[r] = row[r]
  BY Busy DEF Saves, Commit, IInv, TypeOK

LEMMA SerialNext ==
  ASSUME OneWorker
  PROVE  IInv /\ DayInv /\ SerialInv /\ [Next]_vars => SerialInv'
<1> SUFFICES ASSUME IInv, DayInv, SerialInv, [Next]_vars PROVE SerialInv'
  OBVIOUS
<1>0. /\ freeLookups \in [Recruiters -> Nat] /\ today \in Nat
      /\ \A v \in Workers : pc[v] # "idle" => user[v] \in Recruiters
  BY DEF IInv, TypeOK, WorkInv
<1>1. CASE UNCHANGED vars
  BY <1>1 DEF vars, ledger, work, SerialInv, LedgerMatchesBalance
<1>2. ASSUME NEW w \in Workers, NEW r \in Recruiters, Load(w, r)
      PROVE  SerialInv'
  BY <1>2 DEF Load, ledger, SerialInv, LedgerMatchesBalance, IInv, TypeOK
<1>3. ASSUME NEW w \in Workers, Abandon(w) PROVE SerialInv'
  BY <1>3 DEF Abandon, Release, ledger, SerialInv, LedgerMatchesBalance, IInv, TypeOK
<1>4. ASSUME NEW w \in Workers, FreeLookup(w) PROVE SerialInv'
  <2>1. /\ \A v \in Workers : pc'[v] # "idle" => mem'[v] = row'[user'[v]]
        /\ LedgerMatchesBalance'
    BY <1>4, SerialFree, SerialSave DEF Answered
  <2>2. /\ user[w] \in Recruiters
        /\ row'[user[w]].lastLookup = today
        /\ \A r \in Recruiters : r # user[w] => row'[r] = row[r]
    BY <1>4, SerialFree, SavedDays
  <2>3. \A r \in Recruiters :
          /\ freeLookups'[r] <= 1
          /\ row'[r].lastLookup # today' => freeLookups'[r] = 0
    BY <1>0, <1>4, <2>2, SerialFree DEF SerialInv, Answered
  <2> QED
    BY <2>1, <2>3 DEF SerialInv
<1>5. ASSUME NEW w \in Workers, PaidLookup(w) PROVE SerialInv'
  <2>1. /\ \A v \in Workers : pc'[v] # "idle" => mem'[v] = row'[user'[v]]
        /\ LedgerMatchesBalance'
    BY <1>5, SerialPaid, SerialSave DEF Answered
  <2>2. /\ user[w] \in Recruiters
        /\ row'[user[w]].lastLookup = today
        /\ \A r \in Recruiters : r # user[w] => row'[r] = row[r]
    BY <1>5, SerialPaid, SavedDays
  <2>3. \A r \in Recruiters :
          /\ freeLookups'[r] <= 1
          /\ row'[r].lastLookup # today' => freeLookups'[r] = 0
    BY <1>0, <1>5, <2>2, SerialPaid DEF SerialInv, Answered
  <2> QED
    BY <2>1, <2>3 DEF SerialInv
<1>6. ASSUME NEW w \in Workers, VoteReward(w) \/ CreateReward(w) \/ EnrichReward(w)
      PROVE  SerialInv'
  <2>0. PICK n \in {1, 2} :
          Saves(w, row[user[w]].credits + n - 0, row[user[w]].lastLookup, n, 0)
    BY <1>6, SerialReward
  <2>1. /\ \A v \in Workers : pc'[v] # "idle" => mem'[v] = row'[user'[v]]
        /\ LedgerMatchesBalance'
    <3>1. n \in Nat /\ pc[w] # "idle" /\ Release(w)
      BY <1>6, SerialReward DEF Answered
    <3> QED
      BY <2>0, <3>1, SerialSave
  <2>2. /\ user[w] \in Recruiters
        /\ row'[user[w]].lastLookup = row[user[w]].lastLookup
        /\ \A r \in Recruiters : r # user[w] => row'[r] = row[r]
    BY <1>6, <2>0, SerialReward, SavedDays
  <2>3. \A r \in Recruiters :
          /\ freeLookups'[r] <= 1
          /\ row'[r].lastLookup # today' => freeLookups'[r] = 0
    BY <1>0, <1>6, <2>2, SerialReward DEF SerialInv, Answered
  <2> QED
    BY <2>1, <2>3 DEF SerialInv
<1>7. ASSUME NEW w \in Workers, NEW c \in Checkouts, OpenCheckout(w, c)
      PROVE  SerialInv'
  BY <1>7 DEF OpenCheckout, ledger, SerialInv, LedgerMatchesBalance, IInv, TypeOK
<1>8. ASSUME NEW w \in Workers, StorePurchase(w) PROVE SerialInv'
  BY <1>8 DEF StorePurchase, Release, ledger, SerialInv, LedgerMatchesBalance,
              IInv, TypeOK
<1>9. ASSUME NEW w \in Workers, NEW c \in Checkouts, WebhookIgnored(w, c)
      PROVE  SerialInv'
  BY <1>9 DEF WebhookIgnored, work, ledger, SerialInv, LedgerMatchesBalance
<1>10. ASSUME NEW w \in Workers, NEW c \in Checkouts, WebhookLock(w, c)
       PROVE  SerialInv'
  BY <1>10 DEF WebhookLock, ledger, SerialInv, LedgerMatchesBalance, IInv, TypeOK
<1>11. ASSUME NEW w \in Workers, WebhookCommit(w) PROVE SerialInv'
  <2>1. /\ \A v \in Workers : pc'[v] # "idle" => mem'[v] = row'[user'[v]]
        /\ LedgerMatchesBalance'
    <3> DEFINE n == Quantity[target[w]]
    <3>1. /\ n \in Nat /\ pc[w] # "idle" /\ Release(w)
          /\ Saves(w, row[user[w]].credits + n - 0, row[user[w]].lastLookup, n, 0)
      BY <1>11, SerialWebhook
    <3> HIDE DEF n
    <3> QED
      BY <3>1, SerialSave
  <2>2. /\ user[w] \in Recruiters
        /\ row'[user[w]].lastLookup = row[user[w]].lastLookup
        /\ \A r \in Recruiters : r # user[w] => row'[r] = row[r]
    BY <1>11, SerialWebhook, SavedDays
  <2>3. \A r \in Recruiters :
          /\ freeLookups'[r] <= 1
          /\ row'[r].lastLookup # today' => freeLookups'[r] = 0
    BY <1>0, <1>11, <2>2, SerialWebhook DEF SerialInv
  <2> QED
    BY <2>1, <2>3 DEF SerialInv
<1>12. ASSUME NEW c \in Checkouts, Pay(c) PROVE SerialInv'
  BY <1>12 DEF Pay, work, ledger, SerialInv, LedgerMatchesBalance
<1>13. ASSUME NextDay PROVE SerialInv'
  BY <1>0, <1>13 DEF NextDay, work, SerialInv, LedgerMatchesBalance
<1> QED
  BY <1>1, <1>2, <1>3, <1>4, <1>5, <1>6, <1>7, <1>8, <1>9, <1>10, <1>11, <1>12,
     <1>13 DEF Next, Request

LEMMA SerialInit == Init => DayInv /\ SerialInv
  BY DEF Init, DayInv, SerialInv, LedgerMatchesBalance, NewRow, NoDay

\* Served one at a time, requests keep the ledger and the balance together and
\* grant one free lookup a day.
THEOREM SerialInvariant ==
  ASSUME OneWorker
  PROVE  Spec => [](IInv /\ DayInv /\ SerialInv)
<1>1. Init => DayInv /\ SerialInv
  BY SerialInit
<1>2. IInv /\ DayInv /\ SerialInv /\ [Next]_vars => DayInv' /\ SerialInv'
  BY SerialNext, DayInvNext
<1> QED
  BY <1>1, <1>2, CreditsInvariant, PTL DEF Spec

\* With one worker the balance is the sum of the ledger.
THEOREM SerialLedgerMatchesBalance ==
  ASSUME OneWorker
  PROVE  Spec => []LedgerMatchesBalance
<1>1. SerialInv => LedgerMatchesBalance
  BY DEF SerialInv
<1> QED
  BY <1>1, SerialInvariant, PTL

\* With one worker a recruiter has at most one free lookup a day.
THEOREM SerialOneFreeLookupPerDay ==
  ASSUME OneWorker
  PROVE  Spec => []OneFreeLookupPerDay
<1>1. SerialInv => OneFreeLookupPerDay
  BY DEF SerialInv, OneFreeLookupPerDay
<1> QED
  BY <1>1, SerialInvariant, PTL

-----------------------------------------------------------------------------
(* The system implements the wallet.                                       *)

Balance == [r \in Recruiters |-> row[r].credits]
FreeLeft == {r \in Recruiters : row[r].lastLookup # today}
Bought == {c \in Checkouts : purchase[c] = "completed"}

LEMMA WalletTypes ==
  ASSUME IInv
  PROVE  /\ Balance \in [Recruiters -> Int]
         /\ earned \in [Recruiters -> Int] /\ spent \in [Recruiters -> Int]
  BY DEF IInv, TypeOK, Balance, Rows

LEMMA AddNothing ==
  ASSUME NEW r \in Recruiters, NEW f \in [Recruiters -> Int]
  PROVE  [f EXCEPT ![r] = @ + 0] = f
<1>1. f[r] + 0 = f[r] /\ [f EXCEPT ![r] = f[r]] = f
  OBVIOUS
<1> QED
  BY <1>1

\* What a save does to the wallet: nothing, a charge, or a gain.
LEMMA WalletSave ==
  ASSUME OneWorker, IInv, SerialInv, NEW w \in Workers, pc[w] # "idle",
         NEW day, NEW gain \in Nat, NEW cost \in Nat,
         Saves(w, row[user[w]].credits + gain - cost, day, gain, cost)
  PROVE  LET r == user[w] IN
         /\ cost = 0 => /\ Balance' = [Balance EXCEPT ![r] = @ + gain]
                        /\ earned' = [earned EXCEPT ![r] = @ + gain]
                        /\ spent' = spent
         /\ gain = 0 => /\ Balance' = [Balance EXCEPT ![r] = @ - cost]
                        /\ spent' = [spent EXCEPT ![r] = @ + cost]
                        /\ earned' = earned
         /\ gain = 0 /\ cost = 0 => Balance' = Balance
<1> DEFINE r == user[w]
<1>1. PICK new \in Rows :
        new.credits = row[r].credits + gain - cost /\ Commit(w, new, gain, cost)
  BY DEF Saves
<1>2. /\ r \in Recruiters /\ row \in [Recruiters -> Rows]
      /\ Balance[r] = row[r].credits /\ Balance[r] \in Int
  BY Busy DEF IInv, TypeOK, Balance
<1>3. Balance' = [Balance EXCEPT ![r] = new.credits]
  BY <1>1, <1>2 DEF Balance, Commit
<1>4. /\ earned' = [earned EXCEPT ![r] = @ + gain]
      /\ spent' = [spent EXCEPT ![r] = @ + cost]
  BY <1>1 DEF Commit
<1>5. /\ cost = 0 => new.credits = Balance[r] + gain /\ spent' = spent
      /\ gain = 0 => new.credits = Balance[r] - cost /\ earned' = earned
  BY <1>1, <1>2, <1>4, WalletTypes, AddNothing
<1>6. gain = 0 /\ cost = 0 => Balance' = Balance
  BY <1>2, <1>3, <1>5, WalletTypes
<1> QED
  BY <1>3, <1>4, <1>5, <1>6

\* Every step of the system is a step of the wallet or leaves it alone.
LEMMA WalletStep ==
  ASSUME OneWorker, IInv, DayInv, SerialInv, [Next]_vars
  PROVE  \/ \E r \in Recruiters :
              \/ /\ r \in FreeLeft /\ FreeLeft' = FreeLeft \ {r}
                 /\ UNCHANGED <<Balance, earned, spent, Bought>>
              \/ /\ r \notin FreeLeft /\ Balance[r] > 0
                 /\ Balance' = [Balance EXCEPT ![r] = @ - 1]
                 /\ spent' = [spent EXCEPT ![r] = @ + 1]
                 /\ UNCHANGED <<earned, FreeLeft, Bought>>
              \/ \E n \in {1, 2} :
                   /\ Balance' = [Balance EXCEPT ![r] = @ + n]
                   /\ earned' = [earned EXCEPT ![r] = @ + n]
                   /\ UNCHANGED <<spent, FreeLeft, Bought>>
              \/ \E c \in Checkouts :
                   /\ c \notin Bought /\ Bought' = Bought \cup {c}
                   /\ Balance' = [Balance EXCEPT ![r] = @ + Quantity[c]]
                   /\ earned' = [earned EXCEPT ![r] = @ + Quantity[c]]
                   /\ UNCHANGED <<spent, FreeLeft>>
         \/ /\ FreeLeft' = Recruiters
            /\ UNCHANGED <<Balance, earned, spent, Bought>>
         \/ UNCHANGED <<Balance, earned, spent, FreeLeft, Bought>>
<1>1. CASE UNCHANGED vars
  BY <1>1 DEF vars, ledger, stripe, Balance, FreeLeft, Bought
<1>2. ASSUME NEW w \in Workers, FreeLookup(w)
      PROVE  /\ user[w] \in Recruiters
             /\ user[w] \in FreeLeft /\ FreeLeft' = FreeLeft \ {user[w]}
             /\ UNCHANGED <<Balance, earned, spent, Bought>>
  <2>1. /\ user[w] \in Recruiters /\ row[user[w]].lastLookup # today
        /\ today' = today /\ purchase' = purchase
        /\ Saves(w, row[user[w]].credits + 0 - 0, today, 0, 0) /\ pc[w] # "idle"
    BY <1>2, SerialFree DEF Answered, stripe
  <2>2. UNCHANGED <<Balance, earned, spent>>
    BY <2>1, WalletSave
  <2>3. FreeLeft' = FreeLeft \ {user[w]} /\ user[w] \in FreeLeft
    BY <2>1, SavedDays DEF FreeLeft
  <2>4. Bought' = Bought
    BY <2>1 DEF Bought
  <2> QED
    BY <2>1, <2>2, <2>3, <2>4
<1>3. ASSUME NEW w \in Workers, PaidLookup(w)
      PROVE  /\ user[w] \in Recruiters
             /\ user[w] \notin FreeLeft /\ Balance[user[w]] > 0
             /\ Balance' = [Balance EXCEPT ![user[w]] = @ - 1]
             /\ spent' = [spent EXCEPT ![user[w]] = @ + 1]
             /\ UNCHANGED <<earned, FreeLeft, Bought>>
  <2>1. /\ user[w] \in Recruiters /\ row[user[w]].lastLookup = today
        /\ today' = today /\ purchase' = purchase /\ row[user[w]].credits > 0
        /\ Saves(w, row[user[w]].credits + 0 - 1, today, 0, 1) /\ pc[w] # "idle"
    BY <1>3, SerialPaid DEF Answered, stripe
  <2>2. /\ Balance' = [Balance EXCEPT ![user[w]] = @ - 1]
        /\ spent' = [spent EXCEPT ![user[w]] = @ + 1] /\ earned' = earned
    BY <2>1, WalletSave
  <2>3. FreeLeft' = FreeLeft /\ user[w] \notin FreeLeft
    BY <2>1, SavedDays DEF FreeLeft
  <2>4. Bought' = Bought /\ Balance[user[w]] > 0
    BY <2>1 DEF Bought, Balance
  <2> QED
    BY <2>1, <2>2, <2>3, <2>4
<1>4. ASSUME NEW w \in Workers, VoteReward(w) \/ CreateReward(w) \/ EnrichReward(w)
      PROVE  \E n \in {1, 2} :
               /\ user[w] \in Recruiters
               /\ Balance' = [Balance EXCEPT ![user[w]] = @ + n]
               /\ earned' = [earned EXCEPT ![user[w]] = @ + n]
               /\ UNCHANGED <<spent, FreeLeft, Bought>>
  <2>1. PICK n \in {1, 2} :
          Saves(w, row[user[w]].credits + n - 0, row[user[w]].lastLookup, n, 0)
    BY <1>4, SerialReward
  <2>2. /\ user[w] \in Recruiters /\ today' = today /\ purchase' = purchase
        /\ pc[w] # "idle" /\ n \in Nat
    BY <1>4, SerialReward DEF Answered, stripe
  <2>3. /\ Balance' = [Balance EXCEPT ![user[w]] = @ + n]
        /\ earned' = [earned EXCEPT ![user[w]] = @ + n] /\ spent' = spent
    BY <2>1, <2>2, WalletSave
  <2>4. FreeLeft' = FreeLeft /\ Bought' = Bought
    BY <2>1, <2>2, SavedDays DEF FreeLeft, Bought
  <2> QED
    BY <2>2, <2>3, <2>4
<1>5. ASSUME NEW w \in Workers, WebhookCommit(w)
      PROVE  /\ user[w] \in Recruiters /\ target[w] \in Checkouts
             /\ target[w] \notin Bought /\ Bought' = Bought \cup {target[w]}
             /\ Balance' = [Balance EXCEPT ![user[w]] = @ + Quantity[target[w]]]
             /\ earned' = [earned EXCEPT ![user[w]] = @ + Quantity[target[w]]]
             /\ UNCHANGED <<spent, FreeLeft>>
  <2> DEFINE n == Quantity[target[w]]
  <2>1. /\ user[w] \in Recruiters /\ target[w] \in Checkouts /\ today' = today
        /\ pc[w] # "idle" /\ n \in Nat
        /\ Saves(w, row[user[w]].credits + n - 0, row[user[w]].lastLookup, n, 0)
    BY <1>5, SerialWebhook
  <2> HIDE DEF n
  <2>2. /\ Balance' = [Balance EXCEPT ![user[w]] = @ + n]
        /\ earned' = [earned EXCEPT ![user[w]] = @ + n] /\ spent' = spent
    BY <2>1, WalletSave
  <2>3. FreeLeft' = FreeLeft
    BY <2>1, SavedDays DEF FreeLeft
  <2>4. target[w] \notin Bought /\ Bought' = Bought \cup {target[w]}
    BY <1>5, <2>1 DEF WebhookCommit, IInv, TypeOK, HoldInv, Bought
  <2> QED
    BY <2>1, <2>2, <2>3, <2>4 DEF n
<1>6. ASSUME NEW w \in Workers,
             \/ \E r \in Recruiters : Load(w, r)
             \/ Abandon(w) \/ StorePurchase(w)
             \/ \E c \in Checkouts : OpenCheckout(w, c) \/ WebhookIgnored(w, c)
                                       \/ WebhookLock(w, c)
      PROVE  UNCHANGED <<Balance, earned, spent, FreeLeft, Bought>>
  <2>1. UNCHANGED <<row, today, earned, spent>>
    BY <1>6 DEF Load, Abandon, StorePurchase, OpenCheckout, WebhookIgnored,
                WebhookLock, ledger
  <2>2. Bought' = Bought
    <3>1. CASE StorePurchase(w)
      BY <3>1 DEF StorePurchase, IInv, TypeOK, WorkInv, HoldInv, Bought
    <3>2. CASE ~StorePurchase(w)
      BY <1>6, <3>2 DEF Load, Abandon, OpenCheckout, WebhookIgnored,
                        WebhookLock, stripe, Bought
    <3> QED
      BY <3>1, <3>2
  <2> QED
    BY <2>1, <2>2 DEF Balance, FreeLeft
<1>7. ASSUME NEW c \in Checkouts, Pay(c)
      PROVE  UNCHANGED <<Balance, earned, spent, FreeLeft, Bought>>
  BY <1>7 DEF Pay, ledger, Balance, FreeLeft, Bought
<1>8. ASSUME NextDay
      PROVE  /\ FreeLeft' = Recruiters
             /\ UNCHANGED <<Balance, earned, spent, Bought>>
  <2>1. \A r \in Recruiters : row[r].lastLookup # today + 1
    BY DEF IInv, TypeOK, Rows, DayInv
  <2> QED
    BY <1>8, <2>1 DEF NextDay, stripe, Balance, FreeLeft, Bought
<1> QED
  BY <1>1, <1>2, <1>3, <1>4, <1>5, <1>6, <1>7, <1>8 DEF Next, Request

\* Served one at a time, the requests implement the wallet that the
\* requirements promise (all of credits/services.py and the wallet parts of
\* candidates/services.py).
THEOREM SerialImplementsWallet ==
  ASSUME OneWorker
  PROVE  Spec => ImplementsWallet
<1>1. Init => Promise!Init
  BY DEF Init, Promise!Init, NewRow, NoDay
<1>2. IInv /\ DayInv /\ SerialInv /\ [Next]_vars => [Promise!Next]_(Promise!vars)
  BY WalletStep
     DEF Promise!Next, Promise!vars, Promise!FreeLookup, Promise!PaidLookup,
         Promise!Reward, Promise!Purchase, Promise!Receive, Promise!Midnight,
         Balance, FreeLeft, Bought
<1> QED
  BY <1>1, <1>2, SerialInvariant, PTL DEF Spec, Promise!Spec, ImplementsWallet
=============================================================================
