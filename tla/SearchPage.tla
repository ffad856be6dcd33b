------------------------------ MODULE SearchPage ------------------------------
(***************************************************************************)
(* The search page (searchFlow in static/js/main.js) in front of the       *)
(* staged lookup (module LookupSession).                                   *)
(*                                                                         *)
(* The page sends requests and goes on with the answer when it comes; in   *)
(* between the visitor can choose a case or start over, and the step timer *)
(* can run out.  A request carries what the page showed when it was sent;  *)
(* the code after the await works on what the page shows when the answer   *)
(* arrives.  The start and the step buttons are off while the page is      *)
(* loading; the case buttons and "Neue Suche" are always on.  Answers can  *)
(* arrive in any order, or not at all.                                     *)
(*                                                                         *)
(* One page, one address and one worker: the module is about what the page *)
(* does with the lookup.  The forms of the first step, the suggestions,    *)
(* the messages, the creation of a profile, votes and the refresh of the   *)
(* vote counts after a profile is loaded are left out.                     *)
(***************************************************************************)
EXTENDS LookupSession

CONSTANTS
  Ip,                \* the address of the visitor
  Calls,             \* requests that can be under way, numbered
  NoField,           \* undefined
  MaxLost            \* bound: requests or answers that are lost

ASSUME PageAssumption ==
  /\ Ip \in Ips /\ NoField \notin Fields
  /\ Calls \subseteq Nat /\ MaxLost \in Nat
ASSUME CandidatesAssumption == IsFiniteSet(Candidates)
\* The page is one of the clients of LookupSession.
ASSUME StepsAssumption == \A ct \in Cases : 2 .. Len(Pipeline[ct]) + 1 \subseteq Steps

VARIABLES
  page,
  call,       \* the requests under way
  detached,   \* "Neue Suche" was pressed with a request under way (history); bound:
              \* it is pressed no more after that
  late,       \* sessions of which a step was under way when the timer that was
              \* set for them ran out (history)
  lost

server == <<session, initial, viewLog, viewCount, reports, pc, token, copy>>
pageVars == <<vars, page, call, detached, late, lost>>

Outcomes == {"none", "error", "started", "narrowed", "resolved", "shown"}

\* count is 0 before an answer: the page shows the cases only for a positive one.
Pages == [token: Sessions \cup {NoSession}, count: 0 .. Cardinality(Candidates),
          case: Cases \cup {NoCase}, index: Nat, field: Fields \cup {NoField}, step: Nat,
          timer: 0 .. StepTimeout, timing: Sessions \cup {NoSession},
          timedOut: Sessions \cup {NoSession},
          profile: Candidates \cup {NoCandidate}, loading: BOOLEAN]

BlankPage == [token |-> NoSession, count |-> 0, case |-> NoCase, index |-> 0,
              field |-> NoField, step |-> 2, timer |-> 0, timing |-> NoSession,
              timedOut |-> NoSession, profile |-> NoCandidate, loading |-> FALSE]

CallRecords == [kind: {"none", "start", "step", "profile"}, stage: {"sent", "served", "answered"},
                session: Sessions \cup {NoSession}, case: Cases \cup {NoCase}, step: Nat,
                field: Fields \cup {NoField}, value: Values \cup {NoValue},
                outcome: Outcomes, candidate: Candidates \cup {NoCandidate}]

NoCall == [kind |-> "none", stage |-> "sent", session |-> NoSession, case |-> NoCase,
           step |-> 0, field |-> NoField, value |-> NoValue, outcome |-> "none",
           candidate |-> NoCandidate]

PageTypeOK ==
  /\ page \in Pages
  /\ call \in [Calls -> CallRecords]
  /\ detached \in BOOLEAN
  /\ late \subseteq Sessions
  /\ lost \in 0 .. MaxLost

PageInit ==
  /\ Init
  /\ page = BlankPage
  /\ call = [i \in Calls |-> NoCall]
  /\ detached = FALSE
  /\ late = {}
  /\ lost = 0

-----------------------------------------------------------------------------
(* Requests. *)

Free == {i \in Calls : call[i].kind = "none"}

\* The next request, in the lowest free place.
Send(c) ==
  \E i \in Free : (\A j \in Free : i <= j) /\ call' = [call EXCEPT ![i] = c]

InFlight(s) == \E i \in Calls : call[i].kind = "step" /\ call[i].session = s

-----------------------------------------------------------------------------
(* The visitor. *)

StartSearch ==
  /\ ~page.loading
  /\ Send([NoCall EXCEPT !.kind = "start"])
  /\ page' = [page EXCEPT !.loading = TRUE, !.profile = NoCandidate, !.case = NoCase,
                          !.count = 0]
  /\ UNCHANGED <<vars, detached, late, lost>>

\* fields[caseIndex]
FieldAt(ct, index) ==
  IF index + 1 \in DOMAIN Pipeline[ct] THEN Pipeline[ct][index + 1] ELSE NoField

\* resetTimer
Timed(p) == [p EXCEPT !.timer = StepTimeout, !.timing = p.token, !.timedOut = NoSession]

KeepsIndex(ct) == \* mutated form
  Timed([page EXCEPT !.case = ct, !.step = 2, !.field = FieldAt(ct, page.index)])

Chosen(ct) ==
  Timed([page EXCEPT !.case = ct, !.index = 0, !.step = 2, !.field = FieldAt(ct, 0)])

ChooseCase(ct) ==
  /\ page.count > 0
  /\ page' = Chosen(ct)
  /\ UNCHANGED <<vars, call, detached, late, lost>>

SubmitStep(v) ==
  /\ ~page.loading
  /\ page.token # NoSession /\ page.case # NoCase /\ page.field # NoField
  /\ Send([NoCall EXCEPT !.kind = "step", !.session = page.token, !.case = page.case,
                         !.step = page.step, !.field = page.field, !.value = v])
  /\ page' = [page EXCEPT !.loading = TRUE]
  /\ UNCHANGED <<vars, detached, late, lost>>

KeepsProfile == [BlankPage EXCEPT !.profile = page.profile] \* mutated form
Reset == BlankPage

ResetSearch ==
  /\ page # BlankPage /\ ~detached
  /\ page' = Reset
  /\ detached' = (detached \/ Free # Calls)
  /\ UNCHANGED <<vars, call, late, lost>>

-----------------------------------------------------------------------------
(* The server answers (apps/candidates/api_views.py). *)

Answered(i, outcome) == [call EXCEPT ![i].stage = "answered", ![i].outcome = outcome]

\* search_start: a session, or a refusal by the limits.
ServeStart(i) ==
  /\ call[i].kind = "start" /\ call[i].stage = "sent"
  /\ \/ \E s \in Sessions, ids \in SUBSET Candidates :
          /\ session[s].status = "none" /\ s = CHOOSE x \in Sessions : session[x].status = "none"
          /\ StartAnonymous(s, Ip, ids) \/ StartRecruiter(s, Ip, ids)
          /\ call' = [Answered(i, "started") EXCEPT ![i].session = s]
     \/ UNCHANGED vars /\ call' = Answered(i, "error")
  /\ UNCHANGED <<page, detached, late, lost>>

\* search_step: the session is found, and kept by the worker, or not.
ServeRead(i, w) ==
  LET s == call[i].session IN
  /\ call[i].kind = "step" /\ call[i].stage = "sent"
  /\ \/ Read(w, s) /\ call' = [call EXCEPT ![i].stage = "served"]
     \/ ReadInvalid(w, s, Ip) /\ call' = Answered(i, "error")
  /\ UNCHANGED <<page, detached, late, lost>>

ServeStep(i, w) ==
  LET c == call[i]  stage == Stage(c.step) IN
  /\ c.kind = "step" /\ c.stage = "served"
  /\ \/ Expire(w) /\ call' = Answered(i, "error")
     \/ Reject(w) /\ call' = Answered(i, "error")
     \/ /\ stage \in DOMAIN Pipeline[c.case]
        /\ c.field = Pipeline[c.case][stage]
        /\ \/ Fail(w, c.case, c.step, c.value) /\ call' = Answered(i, "error")
           \/ Narrow(w, c.case, c.step, c.value) /\ call' = Answered(i, "narrowed")
           \/ Resolve(w, c.case, c.step, c.value) /\ call' = Answered(i, "resolved")
  /\ UNCHANGED <<page, detached, late, lost>>

\* search_profile
ServeProfile(i) ==
  LET s == call[i].session IN
  /\ call[i].kind = "profile" /\ call[i].stage = "sent"
  /\ \/ /\ s # NoSession /\ Reveal(s, Ip)
        /\ call' = [Answered(i, "shown") EXCEPT ![i].candidate = session[s].matched]
     \/ /\ s # NoSession => ~Viewable(session[s], Ip)
        /\ UNCHANGED vars
        /\ call' = Answered(i, "error")
  /\ UNCHANGED <<page, detached, late, lost>>

\* The connection breaks, before or after the server has answered.
Lose(i) ==
  /\ call[i].kind # "none" /\ call[i].stage # "served" /\ call[i].outcome # "error"
  /\ lost < MaxLost
  /\ lost' = lost + 1
  /\ call' = Answered(i, "error")
  /\ UNCHANGED <<vars, page, detached, late>>

-----------------------------------------------------------------------------
(* The page goes on with an answer. *)

Arrives(i, kind) == call[i].kind = kind /\ call[i].stage = "answered"

Done(i) == call' = [call EXCEPT ![i] = NoCall]

Loaded == [page EXCEPT !.loading = FALSE]

OnError(i) ==
  /\ call[i].stage = "answered" /\ call[i].outcome = "error"
  /\ page' = Loaded
  /\ Done(i)
  /\ UNCHANGED <<vars, detached, late, lost>>

OnStarted(i) ==
  LET s == call[i].session IN
  /\ call[i].outcome = "started"
  /\ page' = [Loaded EXCEPT !.token = s, !.count = Cardinality(initial[s])]
  /\ Done(i)
  /\ UNCHANGED <<vars, detached, late, lost>>

\* The page after a step that is not the last.  Without a case the code throws
\* once it has gone on, and keeps the field and the timer.
NextStep(p) ==
  LET q == [p EXCEPT !.index = @ + 1, !.step = @ + 1] IN
  IF p.case = NoCase THEN q ELSE Timed([q EXCEPT !.field = FieldAt(q.case, q.index)])

OnNarrowed(i) ==
  /\ call[i].outcome = "narrowed"
  /\ page' = NextStep(Loaded)
  /\ Done(i)
  /\ UNCHANGED <<vars, detached, late, lost>>

\* Mutated form: loadProfile is not called.
OnlyMessage(i) == page' = [Loaded EXCEPT !.timer = 0, !.timing = NoSession] /\ Done(i)

\* clearInterval, then loadProfile, for the session that the page has now.
LoadProfile(i) ==
  /\ page' = [page EXCEPT !.timer = 0, !.timing = NoSession]
  /\ call' = [call EXCEPT ![i] = [NoCall EXCEPT !.kind = "profile", !.session = page.token]]

OnResolved(i) ==
  /\ call[i].outcome = "resolved"
  /\ LoadProfile(i)
  /\ UNCHANGED <<vars, detached, late, lost>>

Shown(i) == [Loaded EXCEPT !.profile = call[i].candidate]

OnProfile(i) ==
  /\ call[i].outcome = "shown"
  /\ page' = Shown(i)
  /\ Done(i)
  /\ UNCHANGED <<vars, detached, late, lost>>

-----------------------------------------------------------------------------
(* Time. *)

RunsPast(p) == [p EXCEPT !.timer = @ - 1] \* mutated form

RunsDownAtOnce(p) == \* mutated form
  [p EXCEPT !.timer = 0, !.timing = NoSession, !.timedOut = p.timing, !.case = NoCase]

\* The page after a tick of its timer.
CountedDown(p) ==
  IF p.timer = 0 THEN p
  ELSE IF p.timer > 1 THEN [p EXCEPT !.timer = @ - 1]
  ELSE [p EXCEPT !.timer = 0, !.timing = NoSession, !.timedOut = p.timing, !.case = NoCase]

PageTick ==
  /\ Tick
  /\ page' = CountedDown(page)
  /\ late' = late \cup {s \in Sessions : page.timer = 1 /\ page.timing = s /\ InFlight(s)}
  /\ UNCHANGED <<call, detached, lost>>

Server(i) ==
  \/ ServeStart(i) \/ ServeProfile(i)
  \/ \E w \in Workers : ServeRead(i, w) \/ ServeStep(i, w)

Arrival(i) == OnError(i) \/ OnStarted(i) \/ OnNarrowed(i) \/ OnResolved(i) \/ OnProfile(i)

\* What the page does while the worker has a session in hand touches nothing of
\* the server's, and is taken before or after.
AtRest == \A w \in Workers : pc[w] = "idle"

Visitor ==
  \/ StartSearch \/ ResetSearch
  \/ \E ct \in Cases : ChooseCase(ct)
  \/ \E v \in Values : SubmitStep(v)

PageNext ==
  \/ AtRest /\ Visitor
  \/ \E i \in Calls : Server(i) \/ (AtRest /\ (Lose(i) \/ Arrival(i)))
  \/ PageTick

PageSpec == PageInit /\ [][PageNext]_pageVars

\* The server and the network do not leave a request unanswered.
PageFairSpec ==
  PageSpec /\ \A i \in Calls : WF_pageVars(Server(i)) /\ WF_pageVars(Arrival(i))

-----------------------------------------------------------------------------
(* Properties. *)

\* Whatever the visitor presses while answers are under way, a step asks for
\* the field that the server reads at that step of that case, or for nothing
\* (chooseCase and the answer of a step move index, step and field together).
StepsCarryTheirField ==
  \A i \in Calls :
    call[i].kind = "step" =>
      /\ Stage(call[i].step) \in DOMAIN Pipeline[call[i].case]
      /\ call[i].field = Pipeline[call[i].case][Stage(call[i].step)]

\* The profile that is shown is the match of the session that the page has,
\* unless the visitor started over with an answer under way: the answer is then
\* shown on the page of the next search.
ProfileIsOfSession ==
  page.profile # NoCandidate /\ ~detached =>
    page.token # NoSession /\ session[page.token].matched = page.profile

\* When the page declares a step out of time, it is out of time for the server,
\* unless a step was under way, an answer was lost, or the visitor started over
\* with a request under way.
TimeoutIsReal ==
  LET s == page.timedOut IN
  s # NoSession /\ s \notin late /\ lost = 0 /\ ~detached =>
    session[s].status # "active" \/ Expired(session[s])

\* A page that is answered that its session is resolved comes to show the
\* profile, unless an answer is lost, the visitor starts over, or the time to
\* view the profile is over.
ResolvedIsShown ==
  \A s \in Sessions :
    page.token = s /\ (\E i \in Calls : call[i].session = s /\ call[i].outcome = "resolved") ~>
      \/ page.profile # NoCandidate /\ page.profile = session[s].matched
      \/ page.token # s \/ lost > 0 \/ session[s].profileExpires <= now
=============================================================================
