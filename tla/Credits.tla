------------------------------ MODULE Credits ------------------------------
(***************************************************************************)
(* Credits of recruiters: the balance on the recruiter's row, the ledger,  *)
(* the daily free lookup, the rewards, and the purchase of credits through *)
(* Stripe Checkout and its webhook.                                        *)
(*                                                                         *)
(* A web worker (gunicorn runs several) serves one request at a time.  The *)
(* middleware loads the recruiter's row before the view runs (Load); the   *)
(* service then decides on that copy and, in one transaction, saves fields *)
(* of it and appends to the ledger.  Row locks make the writes of two      *)
(* transactions to one row take effect in the order of their commits, so a *)
(* transaction is one step at its commit: nothing of the row is read again *)
(* between the load and the commit.  The webhook does not use the copy of  *)
(* the middleware: it locks the purchase, then reads the recruiter.        *)
(*                                                                         *)
(* The ledger is kept as the sums and counts that the properties tell      *)
(* apart: what was booked in favour of a recruiter (earned), what was      *)
(* booked against (spent), and the entries booked for a Stripe session.    *)
(* What the same requests write about candidates, votes and sessions is    *)
(* the matter of other modules; a refusal on those grounds is Abandon.     *)
(***************************************************************************)
EXTENDS RecruiterUser

CONSTANTS
  Recruiters,
  Workers,           \* processes of gunicorn (workers = 3 in the deployment)
  Checkouts,         \* Stripe checkout sessions
  Quantity,          \* credits bought in a checkout session
  NoOne,             \* not a recruiter
  NoCheckout,        \* not a checkout session
  MaxDay,            \* bound: last day of the model
  MaxEarned          \* bound: rewards stop when a recruiter has earned so much

ASSUME QuantityAssumption == Quantity \in [Checkouts -> Nat \ {0}]
ASSUME NullAssumption == NoOne \notin Recruiters /\ NoCheckout \notin Checkouts
ASSUME BoundAssumption == MaxDay \in Nat \ {0} /\ MaxEarned \in Nat

VARIABLES
  today,        \* timezone.localdate()
  row,          \* the stored row of each recruiter
  earned,       \* sum of the positive ledger entries of each recruiter
  spent,        \* minus the sum of the negative ones
  freeLookups,  \* lookups granted for free today (history)
  purchase,     \* CreditPurchase.status, "none" while there is no row
  owner,        \* CreditPurchase.recruiter
  booked,       \* ledger entries whose reason names the checkout session
  event,        \* what Stripe owes us: "none", "due" or "acked"
  pc,           \* what a worker is doing
  user,         \* request.user of the request a worker serves
  mem,          \* the row that the request holds in memory
  target        \* the checkout session a worker works on

ledger == <<earned, spent, freeLookups>>
stripe == <<purchase, owner, booked, event>>
work == <<pc, user, mem, target>>
vars == <<today, row, ledger, stripe, work>>

TypeOK ==
  /\ today \in Nat \ {0}
  /\ row \in [Recruiters -> Rows]
  /\ earned \in [Recruiters -> Nat]
  /\ spent \in [Recruiters -> Nat]
  /\ freeLookups \in [Recruiters -> Nat]
  /\ purchase \in [Checkouts -> {"none", "pending", "completed"}]
  /\ owner \in [Checkouts -> Recruiters \cup {NoOne}]
  /\ booked \in [Checkouts -> Nat]
  /\ event \in [Checkouts -> {"none", "due", "acked"}]
  /\ pc \in [Workers -> {"idle", "loaded", "session", "locked"}]
  /\ user \in [Workers -> Recruiters \cup {NoOne}]
  /\ mem \in [Workers -> Rows]
  /\ target \in [Workers -> Checkouts \cup {NoCheckout}]

Init ==
  /\ today = 1
  /\ row = [r \in Recruiters |-> NewRow]
  /\ earned = [r \in Recruiters |-> 0]
  /\ spent = [r \in Recruiters |-> 0]
  /\ freeLookups = [r \in Recruiters |-> 0]
  /\ purchase = [c \in Checkouts |-> "none"]
  /\ owner = [c \in Checkouts |-> NoOne]
  /\ booked = [c \in Checkouts |-> 0]
  /\ event = [c \in Checkouts |-> "none"]
  /\ pc = [w \in Workers |-> "idle"]
  /\ user = [w \in Workers |-> NoOne]
  /\ mem = [w \in Workers |-> NewRow]
  /\ target = [w \in Workers |-> NoCheckout]

-----------------------------------------------------------------------------
(* Requests of a recruiter. *)

Release(w) ==
  /\ pc' = [pc EXCEPT ![w] = "idle"]
  /\ user' = [user EXCEPT ![w] = NoOne]
  /\ mem' = [mem EXCEPT ![w] = NewRow]
  /\ target' = [target EXCEPT ![w] = NoCheckout]

\* ApiGateMiddleware asks request.user.is_authenticated, which loads the row.
Load(w, r) ==
  /\ pc[w] = "idle"
  /\ pc' = [pc EXCEPT ![w] = "loaded"]
  /\ user' = [user EXCEPT ![w] = r]
  /\ mem' = [mem EXCEPT ![w] = row[r]]
  /\ UNCHANGED <<today, row, ledger, stripe, target>>

\* An early return, a failing statement or a dying worker: the transaction is
\* rolled back and nothing of it stays.
Abandon(w) ==
  /\ pc[w] # "idle"
  /\ Release(w)
  /\ UNCHANGED <<today, row, ledger, stripe>>

CommitUnbooked(w, newRow, gain, cost) == \* mutated form
  /\ row' = [row EXCEPT ![user[w]] = newRow]
  /\ UNCHANGED <<earned, spent>>

\* The transaction of worker w saves the new row of its recruiter and books
\* what the recruiter earned and spent.
Commit(w, newRow, gain, cost) ==
  LET r == user[w] IN
  /\ row' = [row EXCEPT ![r] = newRow]
  /\ earned' = [earned EXCEPT ![r] = @ + gain]
  /\ spent' = [spent EXCEPT ![r] = @ + cost]

\* create_lookup_session when the day's free lookup is still to be had.
FreeLookup(w) ==
  LET u == mem[w]  r == user[w] IN
  /\ pc[w] = "loaded"
  /\ CanLookupToday(u, today)
  /\ Commit(w, SavedLookup(row[r], MarkLookup(u, today)), 0, 0)
  /\ freeLookups' = [freeLookups EXCEPT ![r] = @ + 1]
  /\ Release(w)
  /\ UNCHANGED <<today, stripe>>

\* consume_credit on the copy in memory, saved.
ChargedInDatabase(stored, u) == [stored EXCEPT !.credits = @ - 1] \* mutated form
Charged(stored, u) == SavedCredits(stored, ConsumeCredit(u))

\* create_lookup_session when the lookup costs a credit.
PaidLookup(w) ==
  LET u == mem[w]  r == user[w] IN
  /\ pc[w] = "loaded"
  /\ ~CanLookupToday(u, today)
  /\ u.credits > 0
  /\ Commit(w, SavedLookup(Charged(row[r], u), MarkLookup(u, today)), 0, 1)
  /\ Release(w)
  /\ UNCHANGED <<today, freeLookups, stripe>>

Earns(w, n) == earned[user[w]] + n <= MaxEarned

\* cast_votes: one credit.
VoteReward(w) ==
  LET u == mem[w]  r == user[w] IN
  /\ pc[w] = "loaded"
  /\ Earns(w, 1)
  /\ CanVoteToday(u, today)
  /\ LET voted == SavedVote(row[r], MarkVote(u, today))
     IN  Commit(w, SavedCredits(voted, AddCredits(u, 1)), 1, 0)
  /\ Release(w)
  /\ UNCHANGED <<today, freeLookups, stripe>>

\* create_candidate_record: two credits.
CreateReward(w) ==
  LET u == mem[w]  r == user[w] IN
  /\ pc[w] = "loaded"
  /\ Earns(w, 2)
  /\ CanCreateProfileThisWeek(u, today)
  /\ LET counted == SavedWeekly(row[r], MarkProfileCreated(u, today))
     IN  Commit(w, SavedCredits(counted, AddCredits(u, 2)), 2, 0)
  /\ Release(w)
  /\ UNCHANGED <<today, freeLookups, stripe>>

\* submit_candidate_enrichment with two or more fields: one credit.
EnrichReward(w) ==
  LET u == mem[w]  r == user[w] IN
  /\ pc[w] = "loaded"
  /\ Earns(w, 1)
  /\ Commit(w, SavedCredits(row[r], AddCredits(u, 1)), 1, 0)
  /\ Release(w)
  /\ UNCHANGED <<today, freeLookups, stripe>>

-----------------------------------------------------------------------------
(* Buying credits. *)

\* create_checkout_session asks Stripe for a session first ...
OpenCheckout(w, c) ==
  /\ pc[w] = "loaded"
  /\ purchase[c] = "none"
  /\ \A v \in Workers : target[v] # c
  /\ pc' = [pc EXCEPT ![w] = "session"]
  /\ target' = [target EXCEPT ![w] = c]
  /\ UNCHANGED <<today, row, ledger, stripe, user, mem>>

\* ... and stores the purchase before it returns the URL of the payment page.
StorePurchase(w) ==
  LET c == target[w] IN
  /\ pc[w] = "session"
  /\ purchase' = [purchase EXCEPT ![c] = "pending"]
  /\ owner' = [owner EXCEPT ![c] = user[w]]
  /\ Release(w)
  /\ UNCHANGED <<today, row, ledger, booked, event>>

UrlBeforeStored(c) == \* mutated form
  purchase[c] # "none" \/ \E w \in Workers : target[w] = c

\* The recruiter has been given the URL once the purchase is stored.
UrlKnown(c) == purchase[c] # "none"

\* The recruiter pays; from now on Stripe has an event to deliver.
Pay(c) ==
  /\ UrlKnown(c)
  /\ event[c] = "none"
  /\ event' = [event EXCEPT ![c] = "due"]
  /\ UNCHANGED <<today, row, ledger, purchase, owner, booked, work>>

\* Stripe delivers an event, for the first time, again after an answer that
\* was not 200, or once more after it was acknowledged; "completed" and
\* "async_payment_succeeded" of one session are two such deliveries.  The
\* handler finds nothing to do: there is no row, or the purchase is completed
\* already.  The view answers 200 in both cases.
WebhookIgnored(w, c) ==
  /\ pc[w] = "idle"
  /\ event[c] # "none"
  /\ purchase[c] # "pending"
  /\ event' = [event EXCEPT ![c] = "acked"]
  /\ UNCHANGED <<today, row, ledger, purchase, owner, booked, work>>

Unlocked(c) == \A v \in Workers : ~(pc[v] = "locked" /\ target[v] = c)

\* Mutated form: the status is not looked at again once the row is locked.
WebhookLockAnyStatus(w, c) ==
  /\ pc[w] = "idle" /\ event[c] # "none" /\ purchase[c] # "none" /\ Unlocked(c)
  /\ pc' = [pc EXCEPT ![w] = "locked"]
  /\ user' = [user EXCEPT ![w] = owner[c]]
  /\ mem' = [mem EXCEPT ![w] = row[owner[c]]]
  /\ target' = [target EXCEPT ![w] = c]
  /\ UNCHANGED <<today, row, ledger, stripe>>

\* handle_checkout_completed locks the purchase, finds it pending, and loads
\* the recruiter.  select_for_update waits while another handler has the lock.
WebhookLock(w, c) ==
  /\ pc[w] = "idle"
  /\ event[c] # "none"
  /\ purchase[c] = "pending"
  /\ Unlocked(c)
  /\ pc' = [pc EXCEPT ![w] = "locked"]
  /\ user' = [user EXCEPT ![w] = owner[c]]
  /\ mem' = [mem EXCEPT ![w] = row[owner[c]]]
  /\ target' = [target EXCEPT ![w] = c]
  /\ UNCHANGED <<today, row, ledger, stripe>>

\* It completes the purchase, adds the credits, books them, and answers; the
\* answer may be lost after the commit.
WebhookCommit(w) ==
  LET u == mem[w]  r == user[w]  c == target[w] IN
  /\ pc[w] = "locked"
  /\ purchase' = [purchase EXCEPT ![c] = "completed"]
  /\ Commit(w, SavedCredits(row[r], AddCredits(u, Quantity[c])), Quantity[c], 0)
  /\ booked' = [booked EXCEPT ![c] = @ + 1]
  /\ event' \in {event, [event EXCEPT ![c] = "acked"]}
  /\ Release(w)
  /\ UNCHANGED <<today, freeLookups, owner>>

-----------------------------------------------------------------------------
\* Midnight.
NextDay ==
  /\ today < MaxDay
  /\ today' = today + 1
  /\ freeLookups' = [r \in Recruiters |-> 0]
  /\ UNCHANGED <<row, earned, spent, stripe, work>>

Request(w) ==
  \/ \E r \in Recruiters : Load(w, r)
  \/ Abandon(w)
  \/ FreeLookup(w) \/ PaidLookup(w)
  \/ VoteReward(w) \/ CreateReward(w) \/ EnrichReward(w)
  \/ \E c \in Checkouts : OpenCheckout(w, c)
  \/ StorePurchase(w)
  \/ \E c \in Checkouts : WebhookIgnored(w, c)
  \/ \E c \in Checkouts : WebhookLock(w, c)
  \/ WebhookCommit(w)

Next ==
  \/ \E w \in Workers : Request(w)
  \/ \E c \in Checkouts : Pay(c)
  \/ NextDay

Spec == Init /\ [][Next]_vars

\* Stripe goes on delivering an event until it is acknowledged, a worker that
\* is free takes it, a request ends, and not every attempt fails.
Fairness ==
  /\ \A w \in Workers : WF_vars(Abandon(w))
  /\ \A c \in Checkouts :
       /\ SF_vars(\E w \in Workers : WebhookLock(w, c))
       /\ SF_vars(\E w \in Workers : target[w] = c /\ WebhookCommit(w))

FairSpec == Spec /\ Fairness

-----------------------------------------------------------------------------
(* Properties that hold with any number of workers. *)

\* The balance is never negative: consume_credit looks at the copy in memory
\* and saves that copy, so even the races that lose updates cannot take a
\* balance below zero (RecruiterUser.consume_credit).
NeverNegative == \A r \in Recruiters : row[r].credits >= 0

\* A balance never exceeds what was ever booked in favour of the recruiter:
\* the lost updates of add_credits and consume_credit can lose credits or
\* lose charges, but cannot make credits that nothing in the ledger explains.
NoMintedCredit == \A r \in Recruiters : row[r].credits <= earned[r]

\* A purchase is booked once exactly when it is completed, however often and
\* however concurrently Stripe delivers its events (handle_checkout_completed).
BookedOnce ==
  \A c \in Checkouts : booked[c] = IF purchase[c] = "completed" THEN 1 ELSE 0

\* The webhook answers 200 even if its handler found no purchase to complete,
\* and Stripe then stops retrying.  No payment is lost this way: an event is
\* acknowledged only when its purchase has been completed (stripe_webhook).
AckedMeansCompleted ==
  \A c \in Checkouts : event[c] = "acked" => purchase[c] = "completed"

\* A credit is charged only on a day on which the recruiter has had a lookup
\* already (_resolve_paid_lookup), also when the copy in memory is stale.
ChargedOnlyAfterFree ==
  [][\A r \in Recruiters : spent'[r] > spent[r] => row[r].lastLookup = today]_vars

\* Who has paid gets the credits booked in the end, through crashes of the
\* handler and repeated deliveries.
PaidIsBooked ==
  \A c \in Checkouts : event[c] = "due" ~> booked[c] = 1

-----------------------------------------------------------------------------
(* Properties of requests served one after the other. *)

\* The balance is the sum of the ledger.
LedgerMatchesBalance ==
  \A r \in Recruiters : row[r].credits = earned[r] - spent[r]

\* "1 daily lookup is free" (requirements/02-user-flows.md:64): not two.
OneFreeLookupPerDay == \A r \in Recruiters : freeLookups[r] <= 1

\* The wallet that the requirements promise, seen through the stored rows.
Promise == INSTANCE Wallet WITH
  balance <- [r \in Recruiters |-> row[r].credits],
  freeLeft <- {r \in Recruiters : row[r].lastLookup # today},
  bought <- {c \in Checkouts : purchase[c] = "completed"}

ImplementsWallet == Promise!Spec
=============================================================================
