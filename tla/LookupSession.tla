--------------------------- MODULE LookupSession ---------------------------
(***************************************************************************)
(* The staged lookup of a candidate (apps/candidates/services.py): a       *)
(* session starts with the candidates that match the first form, each step *)
(* narrows them by the next field of the chosen case, the last step        *)
(* resolves the session to one candidate, whose profile can be viewed for  *)
(* a while.                                                                *)
(*                                                                         *)
(* advance_lookup_session reads the row of the session without locking it, *)
(* decides on that copy, and saves some of its columns: Read and one of    *)
(* the steps that end it are apart, and several workers can be between     *)
(* the two on one session.  Row locks make saves take effect in the order  *)
(* of the commits.  reveal_profile only reads the session and its writes   *)
(* are an insert and an update in the database (F() + 1); it is one step,  *)
(* taken when it reads the session.                                        *)
(*                                                                         *)
(* A value v given for field f fits candidate c when v \in Fits[c][f].     *)
(* The set stands for the filters: several values fit where a filter looks *)
(* at two columns (primary and secondary e-mail or phone), at two birth    *)
(* years (age), or is fuzzy (last name).  NoValue in the set stands for    *)
(* what the filters make of a field that was never given: the filters for  *)
(* birth date, e-mail and phone then look for blank columns, the others    *)
(* find nobody.  Candidates do not change during a lookup.  Times are in   *)
(* ticks.  LookupAttempt rows are an audit trail that nothing reads and    *)
(* are left out.                                                           *)
(***************************************************************************)
EXTENDS Integers, Sequences, FiniteSets

CONSTANTS
  Workers, Sessions, Ips, Candidates,
  Fields, Values, NoValue,
  Cases,             \* keys of CASE_PIPELINES
  Pipeline,          \* CASE_PIPELINES: a sequence of fields for each case
  Fits,              \* [Candidates -> [Fields -> SUBSET (Values \cup {NoValue})]]
  NoCase, NoCandidate, NoIp, NoSession,
  StepTimeout,       \* settings.SEARCH_STEP_TIMEOUT_SECONDS
  ProfileWindow,     \* settings.PROFILE_VIEW_WINDOW_SECONDS
  DayLength,         \* ticks in a day
  Steps,             \* step numbers that clients send
  MaxTime,           \* bound: last tick
  MaxViews,          \* bound: profile views
  MaxReports         \* bound: security failures registered for an address

ASSUME PipelineAssumption ==
  Pipeline \in [Cases -> Seq(Fields)] /\ \A ct \in Cases : Pipeline[ct] # <<>>
ASSUME FitsAssumption ==
  Fits \in [Candidates -> [Fields -> SUBSET (Values \cup {NoValue})]]
ASSUME NullsAssumption ==
  /\ NoValue \notin Values /\ NoCase \notin Cases
  /\ NoCandidate \notin Candidates /\ NoIp \notin Ips /\ NoSession \notin Sessions
ASSUME TimesAssumption ==
  /\ StepTimeout \in Nat \ {0} /\ ProfileWindow \in Nat \ {0}
  /\ DayLength \in Nat \ {0} /\ Steps \subseteq Nat
  /\ MaxTime \in Nat /\ MaxViews \in Nat /\ MaxReports \in Nat

VARIABLES
  now,
  session,    \* the stored rows of table lookup_session
  initial,    \* the candidates a session started with (history)
  viewLog,    \* rows of candidate_view_log, with the session they came from
  viewCount,  \* Candidate.profile_views_count
  reports,    \* register_security_failure calls, by address
  pc,         \* what a worker is doing in advance_lookup_session
  token,      \* the session it works on
  copy        \* the row it has read

vars == <<now, session, initial, viewLog, viewCount, reports, pc, token, copy>>

Status == {"none", "active", "resolved", "expired", "failed"}

Rows == [status: Status, ip: Ips \cup {NoIp}, ids: SUBSET Candidates,
         caseType: Cases \cup {NoCase}, step: Nat,
         payload: [Fields -> Values \cup {NoValue}],
         stepExpires: Nat, profileExpires: Nat,
         matched: Candidates \cup {NoCandidate}]

NoRow == [status |-> "none", ip |-> NoIp, ids |-> {}, caseType |-> NoCase,
          step |-> 1, payload |-> [f \in Fields |-> NoValue],
          stepExpires |-> 0, profileExpires |-> 0, matched |-> NoCandidate]

Today == now \div DayLength
Days == 0 .. (MaxTime \div DayLength)

Views == [id: 1 .. MaxViews, session: Sessions, candidate: Candidates,
          ip: Ips, day: Days]

TypeOK ==
  /\ now \in 0 .. MaxTime
  /\ session \in [Sessions -> Rows]
  /\ initial \in [Sessions -> SUBSET Candidates]
  /\ viewLog \subseteq Views
  /\ viewCount \in [Candidates -> Nat]
  /\ reports \in [Ips -> Nat]
  /\ pc \in [Workers -> {"idle", "deciding", "expiring"}]
  /\ token \in [Workers -> Sessions \cup {NoSession}]
  /\ copy \in [Workers -> Rows]

Init ==
  /\ now = 0
  /\ session = [s \in Sessions |-> NoRow]
  /\ initial = [s \in Sessions |-> {}]
  /\ viewLog = {}
  /\ viewCount = [c \in Candidates |-> 0]
  /\ reports = [ip \in Ips |-> 0]
  /\ pc = [w \in Workers |-> "idle"]
  /\ token = [w \in Workers |-> NoSession]
  /\ copy = [w \in Workers |-> NoRow]

-----------------------------------------------------------------------------
(* create_lookup_session *)

NewSession(ip, ids) ==
  [NoRow EXCEPT !.status = "active", !.ip = ip, !.ids = ids,
                !.stepExpires = now + StepTimeout]

Store(s, ip, ids) ==
  /\ session[s].status = "none"
  /\ session' = [session EXCEPT ![s] = NewSession(ip, ids)]
  /\ initial' = [initial EXCEPT ![s] = ids]
  /\ UNCHANGED <<now, viewLog, viewCount, reports, pc, token, copy>>

\* _resolve_paid_lookup asks whether the address has viewed a profile today.
ViewedToday(ip) == \E v \in viewLog : v.ip = ip /\ v.day = Today

\* The first form sent without a login.
StartAnonymous(s, ip, ids) ==
  /\ ~ViewedToday(ip)
  /\ Store(s, ip, ids)

\* The first form sent by a recruiter; whether the lookup is free, paid or
\* refused is decided by the wallet (module Credits).
StartRecruiter(s, ip, ids) == Store(s, ip, ids)

-----------------------------------------------------------------------------
(* advance_lookup_session *)

Report(ip) ==
  /\ reports[ip] < MaxReports
  /\ reports' = [reports EXCEPT ![ip] = @ + 1]

Release(w) ==
  /\ pc' = [pc EXCEPT ![w] = "idle"]
  /\ token' = [token EXCEPT ![w] = NoSession]
  /\ copy' = [copy EXCEPT ![w] = NoRow]

Expired(row) == row.stepExpires <= now

\* _get_active_session finds an active session of this address.
Read(w, s) ==
  /\ pc[w] = "idle"
  /\ session[s].status = "active"
  /\ pc' = [pc EXCEPT ![w] = IF Expired(session[s]) THEN "expiring" ELSE "deciding"]
  /\ token' = [token EXCEPT ![w] = s]
  /\ copy' = [copy EXCEPT ![w] = session[s]]
  /\ UNCHANGED <<now, session, initial, viewLog, viewCount, reports>>

\* It finds none: the session is another address's, or it is not active.
ReadInvalid(w, s, ip) ==
  /\ pc[w] = "idle"
  /\ session[s].ip # ip \/ session[s].status # "active"
  /\ Report(ip)
  /\ UNCHANGED <<now, session, initial, viewLog, viewCount, pc, token, copy>>

\* It finds one whose step timer has run out, and marks it.
Expire(w) ==
  LET s == token[w] IN
  /\ pc[w] = "expiring"
  /\ session' = [session EXCEPT ![s].status = "expired"]
  /\ Report(copy[w].ip)
  /\ Release(w)
  /\ UNCHANGED <<now, initial, viewLog, viewCount>>

\* An early return (no valid case, step out of range, value missing), the
\* IndexError of a last step that leaves several candidates, which rolls the
\* transaction back, or a worker that dies.
Reject(w) ==
  /\ pc[w] # "idle"
  /\ Release(w)
  /\ UNCHANGED <<now, session, initial, viewLog, viewCount, reports>>

Stage(step) == IF step < 2 THEN 1 ELSE step - 1

\* Mutated form: the query starts again from the whole table.
NarrowedFromAll(row, fields, stage, v) ==
  {c \in Candidates :
     /\ \A i \in 1 .. (stage - 1) : row.payload[fields[i]] \in Fits[c][fields[i]]
     /\ v \in Fits[c][fields[stage]]}

\* The candidates left by the values given for the earlier fields of the case
\* and by value v for the field of this stage.
Narrowed(row, fields, stage, v) ==
  {c \in row.ids :
     /\ \A i \in 1 .. (stage - 1) : row.payload[fields[i]] \in Fits[c][fields[i]]
     /\ v \in Fits[c][fields[stage]]}

\* The row in memory after the step, before its status is decided.
Advanced(row, ct, step, v) ==
  LET fields == Pipeline[ct]  stage == Stage(step) IN
  [row EXCEPT !.caseType = ct, !.step = step,
              !.payload[fields[stage]] = v,
              !.ids = Narrowed(row, fields, stage, v)]

IdsNotSaved(stored, row) == \* mutated form
  [stored EXCEPT !.payload = row.payload, !.step = row.step]

\* Columns saved in each outcome: session.save(update_fields=...).
SavedStep(stored, row) ==
  [stored EXCEPT !.payload = row.payload, !.ids = row.ids, !.step = row.step]

SavedNarrowed(stored, row) ==
  [SavedStep(stored, row) EXCEPT !.stepExpires = now + StepTimeout,
                                 !.caseType = row.caseType]

SavedFailed(stored, row) == [SavedStep(stored, row) EXCEPT !.status = "failed"]

SavedResolved(stored, row, c) ==
  [SavedStep(stored, row) EXCEPT !.status = "resolved", !.matched = c,
                                 !.profileExpires = now + ProfileWindow,
                                 !.stepExpires = now + StepTimeout]

Accepts(w, ct, step) ==
  /\ pc[w] = "deciding"
  /\ Stage(step) <= Len(Pipeline[ct])

LastStage(ct, step) == Stage(step) = Len(Pipeline[ct])

\* Nobody is left.
Fail(w, ct, step, v) ==
  LET s == token[w]  row == Advanced(copy[w], ct, step, v) IN
  /\ Accepts(w, ct, step)
  /\ row.ids = {}
  /\ session' = [session EXCEPT ![s] = SavedFailed(session[s], row)]
  /\ Report(copy[w].ip)
  /\ Release(w)
  /\ UNCHANGED <<now, initial, viewLog, viewCount>>

\* One candidate is left at the last stage.
Resolve(w, ct, step, v) ==
  LET s == token[w]  row == Advanced(copy[w], ct, step, v) IN
  /\ Accepts(w, ct, step)
  /\ LastStage(ct, step)
  /\ \E c \in row.ids :
       /\ row.ids = {c}
       /\ session' = [session EXCEPT ![s] = SavedResolved(session[s], row, c)]
  /\ Release(w)
  /\ UNCHANGED <<now, initial, viewLog, viewCount, reports>>

\* Candidates are left at an earlier stage.
Narrow(w, ct, step, v) ==
  LET s == token[w]  row == Advanced(copy[w], ct, step, v) IN
  /\ Accepts(w, ct, step)
  /\ ~LastStage(ct, step)
  /\ row.ids # {}
  /\ session' = [session EXCEPT ![s] = SavedNarrowed(session[s], row)]
  /\ Release(w)
  /\ UNCHANGED <<now, initial, viewLog, viewCount, reports>>

-----------------------------------------------------------------------------
(* reveal_profile *)

Viewable(row, ip) ==
  /\ row.ip = ip
  /\ row.status = "resolved" /\ row.matched # NoCandidate
  /\ row.profileExpires > now

Counted(c) == [viewCount EXCEPT ![c] = @ + 1]

Reveal(s, ip) ==
  LET c == session[s].matched  n == Cardinality(viewLog) + 1 IN
  /\ Viewable(session[s], ip)
  /\ n <= MaxViews
  /\ viewLog' = viewLog \cup
       {[id |-> n, session |-> s, candidate |-> c, ip |-> ip, day |-> Today]}
  /\ viewCount' = Counted(c)
  /\ UNCHANGED <<now, session, initial, reports, pc, token, copy>>

-----------------------------------------------------------------------------
Tick ==
  /\ now < MaxTime
  /\ now' = now + 1
  /\ UNCHANGED <<session, initial, viewLog, viewCount, reports, pc, token, copy>>

Advance(w) ==
  \/ \E s \in Sessions : Read(w, s)
  \/ \E s \in Sessions, ip \in Ips : ReadInvalid(w, s, ip)
  \/ Expire(w)
  \/ Reject(w)
  \/ \E ct \in Cases, step \in Steps, v \in Values :
       Fail(w, ct, step, v) \/ Resolve(w, ct, step, v) \/ Narrow(w, ct, step, v)

Next ==
  \/ \E s \in Sessions, ip \in Ips, ids \in SUBSET Candidates :
       StartAnonymous(s, ip, ids) \/ StartRecruiter(s, ip, ids)
  \/ \E w \in Workers : Advance(w)
  \/ \E s \in Sessions, ip \in Ips : Reveal(s, ip)
  \/ Tick

Spec == Init /\ [][Next]_vars

-----------------------------------------------------------------------------
(* Properties that hold with any number of workers. *)

\* Every candidate that is left fits every value that the session has stored,
\* whatever the order of the steps, the changes of case and the lost updates
\* of concurrent steps: the values and the candidates they leave are saved
\* together (advance_lookup_session).
RemainingFitAll ==
  \A s \in Sessions, f \in Fields :
    LET v == session[s].payload[f] IN
    v # NoValue => \A c \in session[s].ids : v \in Fits[c][f]

\* Only profiles among those that the session started with are ever viewed,
\* and only from the address that started it (reveal_profile).
ViewedWasInitial ==
  \A v \in viewLog :
    /\ v.candidate \in initial[v.session]
    /\ v.ip = session[v.session].ip

\* Each session that has failed or expired was reported as a security failure
\* of its address, whichever of several concurrent steps ended it.
EndingsReported ==
  \A ip \in Ips :
    Cardinality({s \in Sessions : /\ session[s].ip = ip
                                  /\ session[s].status \in {"failed", "expired"}})
      <= reports[ip]

-----------------------------------------------------------------------------
(* Properties of steps served one after the other. *)

\* A resolved session is left with the candidate that can be viewed, and no
\* other.
ResolvedIsUnique ==
  \A s \in Sessions :
    session[s].status = "resolved" => session[s].ids = {session[s].matched}

\* A session narrows its candidates and ends for good.
Lifecycle == INSTANCE LookupLifecycle WITH
  status <- [s \in Sessions |-> session[s].status],
  remaining <- [s \in Sessions |-> session[s].ids]

ImplementsLifecycle == Lifecycle!Spec

-----------------------------------------------------------------------------
(* What the documents say of the order of the steps; the server does not check
   it, and neither does the page keep it (module SearchPage). *)

\* "Case 2: First name + email + city." and the like (requirements/02-user-
\* flows.md:22-27): a resolved session has been given all the fields of a case.
ResolvedGaveCase ==
  \A s \in Sessions :
    session[s].status = "resolved" =>
      \E ct \in Cases : \A i \in DOMAIN Pipeline[ct] :
        session[s].payload[Pipeline[ct][i]] # NoValue
=============================================================================
