# TrueLens: TLA+ models, checks and proofs

TrueLens is a Django application in which recruiters look up, rate and enrich
profiles of candidates. This directory models the parts of it whose
correctness depends on the order in which things happen: credits, lookups,
votes, relays, moderation, the gate and the failover as several web workers run
them, the payment webhook, timers and daily limits, and the search page in front
of the lookup. Paths such as `candidates/services.py` are below `src/src/apps/`.

## The system

gunicorn runs three worker processes (`src/src/app/gunicorn.conf.py`), each of
which serves one request at a time; all state is in PostgreSQL at its default
isolation level, READ COMMITTED. Four facts shape every model:

* `ApiGateMiddleware` asks `request.user.is_authenticated`, which loads the
  recruiter's row *before* the view opens a transaction. The services decide on
  that copy.
* `save(update_fields=[...])` writes absolute values of the named columns, from
  the copy, over whatever the row holds by then; `save()` writes all of them.
  Only `select_for_update` (the purchase of a webhook) and `F()` (the view
  counter, the attempts at a captcha) do otherwise.
* Outside `@transaction.atomic` (lookup, votes, creation, enrichment, webhook)
  each query is a transaction of its own: relays, moderation, the gate and the
  replication can be interrupted between any two.
* A request can be cut off anywhere: gunicorn kills a worker that takes too
  long, and a connection or a mail provider can fail.

| Component | State | Operations | Interacts with | What is hard | What makes it correct |
|---|---|---|---|---|---|
| Recruiter row (`accounts/models.py`) | credits, last lookup, last vote, weekly counter | `add_credits`, `consume_credit`, `mark_*`, `can_*` | every service | stale copies, absolute saves | limits hold, balance equals ledger |
| Credits (`credits/`) | ledger, purchases | checkout, webhook, wallet | Stripe, recruiter row | retries, duplicates, crash between Stripe and the database | each payment booked once, none lost |
| Staged lookup (`candidates/services.py`) | `LookupSession`, view log | start, step, reveal | wallet, bans, search page | order of steps, timers, concurrent steps, filters against stored columns | only a profile that fits every value is shown, nobody is lost whose data are typed truthfully, sessions end for good |
| Search page (`static/js/main.js`) | dialog state, step timer, requests under way | start, choose case, step, load profile, start over | lookup | answers late, out of order or lost; buttons that stay on | page and session stay in step |
| Voting (`cast_votes`) | votes, `distinct_recruiter_count` | vote, hide expired | recruiter row, relays, mail | check then act, counts without a lock | one vote for each recruiter and profile, cooldown, exact count |
| Contact relay (`accounts/api_views.py`) | `RecruiterContactRelay` | request, accept, reject | voting, mail, deleted profiles | accept/reject race, crash before the mail | addresses are exchanged exactly when accepted |
| Candidate records, enrichment | `Candidate`, submissions | create, enrich, view | wallet, voting, moderation | weekly limit on a stale copy, columns as stored and as compared | counts match rows, columns agree with each other |
| Moderation (`moderation/`) | queue items | list, approve, reject | candidate rows | full-row save of a stale row, two saves | what was approved is on the record, what was rejected is not |
| Replication (`replication/`) | nodes, jobs, events | heartbeat, election, push, ack | other nodes | late and repeated messages, two evaluations at once | one coordinator, and a new one if it is gone |
| Gate, captcha, bans (`security/`) | challenges, gate tokens, `IPBan` | issue, answer, gate, strike, ban | middleware, lookup, login | counters on copies, answers at once | limits on attempts, a token only for who solved the captcha |
| Recruiter accounts (`accounts/`) | settings, deletion, verification | settings, delete, verify | allauth, mail, captcha | deletion beside votes and relays | deleted profiles are left alone |
| Dashboards, location search, seeds, settings | none of their own | | | | |

`PROJECT.json` lists for each component whether it is modelled, and lists the
hazards, each at its line, with the properties that cover it.

## Modules

| Module | Models |
|---|---|
| `RecruiterUser` | the recruiter's row: what its methods ask and change in memory, and what a save writes over the stored row |
| `Credits` | the credit economy: lookups as far as they are free, paid or refused, the rewards, checkout and webhook |
| `Wallet` | abstract: the wallet that `requirements/02-user-flows.md` promises |
| `LookupSession` | `create_lookup_session`, `advance_lookup_session`, `reveal_profile` |
| `LookupLifecycle` | abstract: a session narrows its candidates and ends for good |
| `CandidateFields` | pure: how the columns of a candidate are filled, the filters, ages, platforms and masks |
| `CandidateLookup` | composes the two: `LookupSession` over rows with these columns and filters |
| `SearchPage` | extends `LookupSession` with the page (`searchFlow`), its timer and its requests |
| `Voting` | `cast_votes`, `hide_expired_votes`, deletion and settings as far as votes go |
| `Ballot` | abstract: a vote counts once, for its profile and its recruiter |
| `ContactRelay` | relays from request or vote to the two mails |
| `CandidateRecord` | the record with all its writers, and the moderation queue |
| `Replication` | heartbeats, evaluation of the failover, pushes and acknowledgements |
| `Gate` | captchas, gate tokens, middleware, strikes and bans |
| `MC...` | instances for TLC |
| `...Proofs` | theorems, see below |

### RecruiterUser and Credits

A row is a record; `Load` gives a worker its copy (`mem`), the handlers decide
on `mem` and commit with `Saved...` operators, which take the *stored* row and
replace the columns named in `update_fields`. A transaction is one step, at its
commit: between the load and the commit nothing of the row is read again, and
row locks order the writes of two transactions as their commits. `Abandon` is
every early return, failure and death of a worker: nothing is written. The
ledger is kept as two sums for each recruiter (`earned`, `spent`) and a count
for each checkout (`booked`). The purchase is in two steps
(`OpenCheckout`, `StorePurchase`), because Stripe's session exists before the
row, and so is the webhook (`WebhookLock`, `WebhookCommit`), because the lock
on the purchase does not cover the recruiter's row, which it reads after the
lock and saves at the end. `Pay` and the repeated deliveries stand for Stripe.

### LookupSession, CandidateFields and SearchPage

`Read` is `_get_active_session`; a worker that has read keeps the copy and ends
in `Expire`, `Fail`, `Resolve`, `Narrow` or `Reject`. `Saved...` again replace
the columns that each outcome saves, so two workers on one session can
overwrite each other. Filters are the relation `Fits`: the values that fit a
candidate's field, with `NoValue` for what the filter makes of a field that was
never given. Candidates do not change during a lookup, and `LookupAttempt` is
left out: nothing reads it.

`CandidateFields` has the filters themselves. Texts are model values with tables
for `strip`, `lower`, the reading of numbers and the reduction of names; urls are
records of scheme, host labels and rest; a date is a year and a place in it. On
top of these tables the filters, `Candidate.save`, `create_candidate_record`,
`current_age` and the masks are written as the code has them. `CandidateLookup`
puts them under the lookup: `FitsOf` derives the relation `Fits` from the filters
and the rows, so that the lookup is checked with the filters of the code and not
with a table made up for it, and the days on which the filters must find a
candidate are those that pass in the lookup.

`SearchPage` puts the page in front of the server: a request carries what the
page showed when it was sent, is served by the actions of `LookupSession`, and
its answer changes what the page shows by then. In between the visitor can
choose a case or start over and the timer runs. Start and step buttons are off
while the page is loading, case buttons and "Neue Suche" are not, as in the
template. `late`, `detached` and `lost` are history: they say where a property
has to give way.

### Voting and ContactRelay

`cast_votes` is modelled statement by statement, because at READ COMMITTED each
statement sees what is committed by then: `Load` (the middleware), `Check`,
`ListPriors`, `Insert` (fails on a committed row with its key, waits for an
uncommitted one), `Mark` (the save of the recruiter, whose row stays locked, and
the count), `SaveCandidate` (again a lock, kept while the mails go out), and
`Commit`, which makes everything visible; `Rollback` can end it before. The
state of a request is one record, `job[w]`. Relays are counted by initiator,
target and candidate.

`ContactRelay` takes a relay from there, or from a request of the dashboard:
`Open` (the read and its check), `SaveAccepted` or `SaveRejected`, `Compose`
(the addresses are read when the mail is written), and one `Deliver` or
`Refused` for each recipient, as the backend sends. A worker may die between
any two. `DeleteProfile` replaces the address meanwhile.

### CandidateRecord

One row with three writers of different kinds: `Reveal` counts a view in the
database, `Vote` saves a recount, and `SaveCandidate` of an approval saves the
whole row from the copy that `Open` took. `MarkApproved` and `MarkRejected` are
saves of their own. `Unstorable` is a proposed value that a column cannot hold
(`SaveRaises`). `lost` records the columns in which a save undid a later value,
`contended` the items that two moderators had in hand, `failed` those whose
handler died or raised.

### Replication

`beats` is the set of heartbeats ever sent, each of which can arrive any number
of times (`Authentic`: as long as its signature's time is within `Window`). The
evaluation of the failover is in steps (`CoordinatorUp` or `CoordinatorDown`,
`FindBackup` or `NoBackup`, `Promote`). Nodes are their primary keys; `First` is
`.first()`. `vacant` records that no coordinator was heard of for longer than
the threshold.

### Gate

A captcha is answered in the steps of `verify_captcha_challenge`: `Answer` (read
and check), `Count` (the `F()` update), `Refresh`, then `Solve` or `Mismatch`,
and `Issue` of the token. `Request` and `Login` are let in by the middleware and
the login form. `FirstFailure`, `Found`, `Strike` are the steps of
`register_security_failure`, on the row that `get_or_create` gave.

## Runs

| Run | Instance | Shows |
|---|---|---|
| `credits_concurrent` | 1 recruiter, 2 workers, 1 checkout, 2 days, fairness | balances never negative, never above what was booked; a purchase is booked once; acknowledged events are completed purchases; charges only after the day's first lookup; a paid checkout is booked in the end |
| `credits_serial` | 2 recruiters, 1 worker, 1 checkout, 3 days | `Credits` implements `Wallet` |
| `lookup_concurrent` | 2 workers, 1 session, 2 addresses, 2 cases | whatever is left fits every stored value |
| `lookup_serial` | 1 worker, 2 addresses, cases of two and three fields | `LookupSession` implements `LookupLifecycle`; the filters find whoever's data are typed as they were entered, on any of the days around the turn of a year; the masks hide something |
| `search_page` | 1 page, 2 requests under way, 1 candidate, 1 session, fairness | steps carry the field the server reads; the profile shown is the session's match; the page's timer does not run out early; a resolved session is shown in the end |
| `search_page_case` | the same with cases of two and three fields | *violation*: a session resolved without the first field of its case |
| `voting_concurrent` | 2 workers, 2 recruiters, 1 candidate, 2 attributes, 2 days | the stored count is never above the voters and not zero where there are some; rewards are covered by rows; hiding agrees with the breakdown on the day of expiry |
| `voting_serial` | 1 worker, 2 recruiters, 2 candidates, 2 attributes, 3 days | the cooldown, a relay for each earlier voter who wants it, `Voting` implements `Ballot` |
| `contact_relay` | 2 recruiters, 2 relays, 2 workers, one death or refusal, fairness | nobody is shown the address of a profile deleted before; without overlapping handlers addresses mean acceptance and answers are final; both are told in the end |
| `candidate_record` | 1 candidate, 2 items, 1 recruiter, 2 workers, one death | what stays true of a record under saves of whole stale rows, and of the queue under two moderators |
| `replication_failover` | 2 nodes, 2 workers, 3 heartbeats, 3 ticks, one death, fairness | nodes are believed up only after a heartbeat of theirs; one coordinator while it is heard of; a backup takes over when it is not |
| `gate` | 2 clients behind one address, 1 captcha, 2 tokens, 2 workers, 3 failures, one death | attempts and tokens are limited, a token lets in only who earned it, strikes are counted and bans kept |

A type invariant is checked by TLC only for `SearchPage` and `CandidateRecord`,
where it also bounds the page's timer and the two counts of a record; it is a
theorem of every module with proofs. The same holds of
some weaker properties: where a theorem has no run, it says what the stronger
properties rest on.

Bounds. Two workers show every race of two requests; the properties relate one
recruiter's, one session's, one relay's or one address's rows, and no handler
looks at the rows of a second one, so a second is there only where a mix-up
could show: two recruiters in `voting_*` meet in the count and the relays, two
items meet in the row of one candidate, two clients share an address and a
captcha. Two days show a limit that is spent and renewed. `MaxEarned` and
`MaxDay` bound the wallet, `MaxTime`, `MaxViews` and `MaxReports` the lookups
and records, `MaxBeats`, `MaxJobs`, `MaxFailures`, `MaxDeaths` and `MaxLost` the
faults; each is a guard of one action and only stops more of the same. One
death, refusal or loss is enough for every point at which it can happen, with
the other worker going on. The scaled constants (`WeekDays`, `StepTimeout`,
`Threshold`, `TTL`, ...) keep the order of the real ones, except that a ban of
one tick ends within the run. `voting_concurrent` has one candidate, on which
all the races but that of the cooldown are run, and two days, on the second of
which the votes of the first have expired. `QuickLimit` of two rows for the 300
of the code lets a place have more rows than are looked at. `MCForms` varies one
field of a candidate at a time, as no filter looks at two. Symmetry is used where
no liveness is checked. Where a bound or the end of time can leave a model
without a step, its run does not check for deadlock; those of `Credits` do.

Fairness, and why the code justifies it:

* `credits_concurrent`: a request ends (gunicorn's timeout kills it otherwise),
  and of infinitely many attempts of a webhook's delivery one succeeds. Stripe's
  retries, which end after days, are taken as unbounded.
* `search_page`: the server answers what it was sent, and an answer that is not
  lost arrives; losses are actions of the model.
* `contact_relay`: a handler goes on until it is done or dies; deaths are
  actions of the model.
* `replication_failover`: some node keeps asking for an evaluation (every
  heartbeat asks), and workers go on with what they began.

## Proofs

| Module | Theorems, for all values of the constants |
|---|---|
| `CreditsProofs` | types, the four invariants and `ChargedOnlyAfterFree` of `credits_concurrent`; one worker: `LedgerMatchesBalance`, `OneFreeLookupPerDay`, `ImplementsWallet` |
| `LookupProofs` | types, `RemainingFitAll`, `ViewedWasInitial`, `EndingsReported`; one worker: `ResolvedIsUnique`, `ImplementsLifecycle`; over the columns and filters: `FoundByOwnData`, `MasksHide` |
| `SearchPageProofs` | that the page implements `LookupSession!Spec` as one of its clients; `PageTypeOK`, `StepsCarryTheirField`, `ProfileIsOfSession`, `TimeoutIsReal` |
| `VotingProofs` | types, `CountWithinVoters`, `RelayHasOverlap`, `VotesBeforeLast`, `PublicAreUnexpired`, `RewardsMatchVotes`; one worker: `Cooldown`, `OverlapRelayed`, `ImplementsBallot` |
| `ContactRelayProofs` | types, `ExchangedBetweenParties`, `DeletedNotShown`, `ExchangeMeansAccepted`, `AnswerIsFinal` |
| `CandidateRecordProofs` | `TypeOK`, `CountsMatchRows`, `PlatformFitsUrl`, `ApprovedIsOnRecord`, `RejectedLeavesNothing`, `ReviewIsFinal` |
| `ReplicationProofs` | types, `BeatsWereSent`, `SteadyCoordinator` |
| `GateProofs` | types, `PassIsEarned`, `StrikesCounted`, `BanNotCutShort`, `JudgedWithinLimit`, `OneTokenEach` |

Assumptions are those the modules state about their constants (times and limits
are numbers of the right kind, null values are no members), and finite sets
where something is counted: the recruiters in `VotingProofs` (and the attributes
for the rewards), the sessions for `LookupEndingsReported`, the nodes for
`CoordinatorIsSteady`, the workers (and the tokens) for the last two of
`GateProofs`, the recruiters for the counts of `CandidateRecordProofs`, the
candidates for the page's count. `StepsAssumption` lets the clients of
`LookupSession` send the steps that the page sends. `TextsAssumption` says of
Python's `strip` and `lower`, given as tables, that each does nothing the second
time and that their order does not matter; `FormsAssumption` and
`DatesAssumption`, that a form is one the serializer lets through.

*Credits.* `IInv` adds to the safety properties what the races leave true: a
busy worker's copy is itself between zero and what has been booked
(`CopyInv`), which is why saving it, however stale, can do no harm; and a
checkout is in the hands of one worker, in the state that worker found it
(`HoldInv`), which is why it is booked once. `DayInv` adds that a copy whose
lookup is of today was loaded from a row that says so, for the charge. With one
worker (`OneWorker`) the copy is the stored row (`SerialInv`), hence the
refinement of `Wallet`, action by action.

*Lookup.* The races make most facts about one session untrue from one save to
the next; what survives is that the values given so far and the remaining
candidates are always read and saved *together* (`FitInv`, for the stored rows
and the workers' copies), that a copy holds only candidates its session started
with and belongs to a session that was started (`WorkInv`), that a matched
candidate is one of these (`OriginInv`), and that a view names such a candidate
and the session's address (`ViewInv`). With one worker the copy is the stored
row, hence the refinement of `LookupLifecycle`.

*Filters.* `FoundByOwnData` does not depend on the state but on the day. For any
form and any day `CreatedIsFound` follows each column from the form through
`create_candidate_record` and `Candidate.save` (`CreatedRow`) to the filter of
its field; the age, which is counted from the birth date with the birthday of
the year still to come or not, is of one of the two birth years that the filter
takes (`BornInBirthYears`). `MasksHide` names for every length a position that
is not shown.

*SearchPage.* Every step of the page is one of `LookupSession` or leaves it
alone (`PageStep`), so what is proved of the lookup holds behind the page and
`IInv` can be used. `CarryInv` is what holds however the visitor presses: step
and index move together and the field is that of the case at the index
(`PageFits`), a request was filled from such a page, and no session has more
than a whole `StepTimeout` left (`TimesFit`). The rest needs that nobody started
over with a request under way (`detached`): then at most one request is under
way, none while the buttons are on, and only the worker that serves it is busy
(`SoleCall`). Hence a session that a worker ends is active, a match is never
replaced, and the profile on the page or on its way is that of the page's
session (`MatchInv`). For the timer, `TimerInv` says that a session that is
timed has no more time than the timer shows, except while the answer that
renewed it is on its way, and that the page sends nothing once it has declared
the session out of time, since it has no case then.

*CandidateRecord.* `TypeInv` has the jobs: an item in hand was submitted for a
stored record, an approval that marks has saved, and no copy counts more views
than were logged (`FitInv`). For `ApprovedIsOnRecord` the invariant speaks of
every field that was ever proposed, whether or not its item is marked by now:
the record has the text of the last one saved or the field is in `lost`
(`FieldOnRecord`). For the reviews, an item that no two moderators opened at
once is in one hand (`SoleHand`); while nothing fails, one that was saved is
being marked (`SavedIsMarked`), so that nobody who rejects it has it on the
record (`RejectingUnsaved`). The counts and the platform need no more than the
types: every writer saves them with what they depend on, or loses them.

*Voting.* `VotedInv` follows a request: a count that a worker is about to save
is of recruiters who have voted, or of itself, so that whoever saves last saves
a number between one and the voters. `DayInv` needs `OneWriter`, the lock on
the recruiter's row, for the date from which the cooldown counts. For the
rewards, `KeyInv` counts the uncommitted rows with the committed ones: `NewKeys`
says that no two of them have the same key, which is the unique constraint and
the waiting `Insert`, and the rewards never exceed them. With one worker what a
request has read stays so until it commits (`SerialJob`): the date of the last
vote, that there is no vote on the candidate yet, the earlier voters (profiles
and settings change only through a worker that is free), and the count. So the
commit is the `Vote` of `Ballot`, a cooldown after the recruiter's other votes,
and every other step leaves the ballot alone.

*ContactRelay.* The invariant ties a worker's job to the relay: a composed mail
names the parties, was written after an acceptance, and two workers on one relay
put it in `overlapped`. Without the latter no acceptance is followed by a
rejection.

*Replication.* Without `vacant` there is one node with the role of a
coordinator, approved or not (`OneRole`), it has been heard of in time
(`Occupied`), so it is the first that an evaluation finds, and no worker is on
its way to promote (`NobodyPromotes`).

*Gate.* For the tokens, a captcha's tokens and the workers that have passed the
comparison are together covered by the answers compared, and these by the
attempts counted before (`TokensCovered`, over `JudgeInv`); unless two answers
were checked at once there is one of them (`OneHand`). For the bans, the copy of
a failure is the row while no two failures of the address overlap
(`StrikesInStep`), and no ban ends later than one that is set now (`BansEnd`).

Only model-checked: liveness (`PaidIsBooked`, `ResolvedIsShown`,
`AcceptedIsTold`, `FailoverHappens`), which needs fairness and `ENABLED`, out of
the prover's reach. Every invariant, action property and refinement that a
passing run checks is a theorem. TLC's runs remain the evidence that the
assumptions can be met and that the interesting states exist.

## Where the code differs from its documents

Run `search_page_case`: "Case 1: First name + birthdate + city + hair color.
Case 2: First name + email + city." (`requirements/02-user-flows.md:22-23`). The
visitor who chooses a case while a step is under way goes on with its second
field, and the server resolves the session without the first: it takes the
number of the step from the request.

Seen while modelling, without a run of its own; the serial properties show what
holds when requests do not overlap, and the properties' exceptions (`contended`,
`overlapped`, `clashed`, `lost`, ...) name where they stop holding:

* A balance that is overwritten loses a charge: "Additional lookup consumes 1
  credit." (`requirements/02-user-flows.md:65`). In the same way a recruiter can
  have two free lookups a day, or two votes within the cooldown.
* Two votes of a recruiter at once for different attributes of one profile are
  both stored and rewarded: "Recruiter cannot vote same profile twice." (`:47`).
* An expired session is resolved by a step that was read before: "On timeout,
  flow invalidates" (`:32`).
* The count of voters keeps expired votes, which are "excluded from public
  aggregates after expiry" (`requirements/03-security-model.md:26`).
* `reveal_profile` leaves its token valid until the window ends: "Lookup token
  invalidated after successful reveal." (`:18`).
* Phone masks show two characters at each end: "first/last character visible"
  (`requirements/02-user-flows.md:39`).
* `ANON_LOOKUPS_PER_DAY` (`README.md:142`) is read by nothing: one view a day.
* The first failure of an address bans it, and counts twice: "Strikes bis
  IP-Sperre" (`README.md:144`). Gate tokens are not rotated (`README.md:126`).
* Two coordinators: when the old one is heard of again after the backup was
  promoted, both have the role, against "1 active coordinator"
  (`requirements/06-distributed-architecture.md:5`); an evaluation looks only at
  the first, and answers `None` while that one is silent though the promoted one
  is up. There is no nonce cache (`:33`): a heartbeat can be taken again.
* A relay of which accept and reject overlap ends rejected with addresses
  exchanged; one whose worker dies after the save is accepted and tells nobody.
  The dashboard shows the other party's address while the relay is pending
  (`common/views.py`, `templates/dashboard.html:77`), and nothing asks
  `notify_on_contact_requests`.
* Approval puts back counts and columns that changed since it read the row, and
  stores texts unstripped: one with blanks around it is found by no lookup.
* `security_verify` replaces the expected captcha before it checks the answer,
  so no answer succeeds; no code creates the rows it needs, and the tests replace
  the captcha functions.
* "Neue Suche" leaves the timer and the requests of the old search running: the
  timer closes the case of the new one, and an old answer is shown on its page.
  `refreshVotes` writes its votes onto whatever profile is shown by then.

## Not modelled

* Location search: suggestions from tables and a service, without state. (The
  regions listed under "Turkey" are not reachable, as the country is suggested as
  "Türkiye".)
* Dashboards and pages, admin, settings, deployment, seed commands: they render,
  configure, or are run by hand. The admin's edits are left out, but for the
  approval of a node, which nothing else does.
* Sign-up, login, passwords and mail confirmation are django-allauth's; the
  verification page is unreachable, see above.
* The picture of a captcha, hashes and signatures, texts of mails, the audit
  trail `SecurityEvent`, `LookupAttempt`: nothing reads them, or they are taken
  to do what their libraries say. The similarity of two names and `unidecode`
  are tables.
* The encryption of replication payloads, and the jobs after they are stored:
  no code processes them.
