--------------------------- MODULE SearchPageProofs ---------------------------
(***************************************************************************)
(* Proofs about SearchPage for every set of workers, sessions, candidates  *)
(* and requests, all pipelines and every value of the bounds: the page is  *)
(* a client of the staged lookup (LookupSession), whose invariants hold    *)
(* behind it, and what its steps carry, what it shows and what it declares *)
(* out of time is what the session has.                                    *)
(***************************************************************************)
EXTENDS SearchPage, LookupProofs

-----------------------------------------------------------------------------
(* The inductive invariant. *)

\* A session that the page or a request names was started.
Known(s) == s # NoSession => session[s].status # "none"

\* What a request carries, and which answers it can have.
Carries(c) ==
  /\ c.kind = "none" => c.stage = "sent"
  /\ c.stage # "answered" => c.outcome = "none"
  /\ c.kind = "step" =>
       /\ c.session # NoSession /\ c.case # NoCase /\ c.value # NoValue
       /\ c.step \in 2 .. Len(Pipeline[c.case]) + 1
       /\ c.field = Pipeline[c.case][Stage(c.step)]
  /\ c.outcome = "started" => c.kind = "start" /\ c.session # NoSession
  /\ c.outcome \in {"narrowed", "resolved"} => c.kind = "step"
  /\ c.outcome = "shown" => c.kind = "profile" /\ c.session # NoSession

\* The index, the step and the field of the page belong together.
PageFits ==
  /\ Known(page.token) /\ Known(page.timing) /\ Known(page.timedOut)
  /\ page.step = page.index + 2
  /\ page.case # NoCase => page.field = FieldAt(page.case, page.index)

\* No session has more time for a step than a step gets.
TimesFit == \A s \in Sessions : session[s].stepExpires <= now + StepTimeout

CarryInv ==
  /\ PageTypeOK /\ PageFits /\ TimesFit
  /\ \A i \in Calls : Known(call[i].session) /\ Carries(call[i])

\* Until the visitor starts over with a request under way, there is one request
\* at most, none while the buttons are on, and only the worker that serves it is
\* at work, on a session that is active.
SoleCall ==
  ~detached =>
    /\ \A i, j \in Calls \ Free : i = j
    /\ ~page.loading => Free = Calls
    /\ \A w \in Workers : pc[w] # "idle" =>
         /\ session[token[w]].status = "active"
         /\ \E i \in Calls : /\ call[i].kind = "step" /\ call[i].stage = "served"
                             /\ call[i].session = token[w]
         /\ \A o \in Workers : pc[o] # "idle" => o = w

\* Until then a match is for good, and the profile on the page, or on its way, is
\* that of the session that the page has.
MatchInv ==
  ~detached =>
    /\ \A s \in Sessions :
         session[s].matched # NoCandidate => session[s].status = "resolved"
    /\ page.profile # NoCandidate =>
         page.token # NoSession /\ session[page.token].matched = page.profile
    /\ \A i \in Calls :
         /\ call[i].kind = "start" => page.profile = NoCandidate
         /\ call[i].kind = "profile" => call[i].session = page.token
         /\ call[i].outcome = "shown" =>
              /\ call[i].candidate # NoCandidate
              /\ session[call[i].session].matched = call[i].candidate

\* A session whose timer runs on the page has no more time than the timer, unless
\* the answer that renewed it is on its way.
TimerFits(s) ==
  page.timer > 0 /\ page.timing = s /\ session[s].status = "active"
      /\ (\A i \in Calls : call[i].outcome = "narrowed" => call[i].session # s)
    => session[s].stepExpires <= now + page.timer

\* A session that is out of time for the page stays so: no step is under way, and
\* none is sent without a case.
StaysOut(s) ==
  page.timedOut = s /\ s \notin late =>
    ~InFlight(s) /\ (session[s].status # "active" \/ Expired(session[s]))

TimerInv ==
  lost = 0 /\ ~detached =>
    /\ page.timedOut # NoSession => page.case = NoCase
    /\ page.case = NoCase /\ page.timer > 0 => \A i \in Calls : call[i].kind # "step"
    /\ \A s \in Sessions : TimerFits(s) /\ StaysOut(s)

PInv == IInv /\ CarryInv /\ SoleCall /\ MatchInv /\ TimerInv

-----------------------------------------------------------------------------
(* Requests and fields. *)

\* The one request that a step changes.
Changes(i, new) ==
  /\ call' \in [Calls -> CallRecords] /\ call'[i] = new
  /\ \A j \in Calls : j # i => call'[j] = call[j]

LEMMA ChangedCall ==
  ASSUME call \in [Calls -> CallRecords], NEW i \in Calls, NEW new \in CallRecords,
         call' = [call EXCEPT ![i] = new]
  PROVE  Changes(i, new)
BY DEF Changes

\* Request c, answered.
Answers(c, new, outcome) ==
  /\ new \in CallRecords /\ new.stage = "answered" /\ new.outcome = outcome
  /\ new.kind = c.kind /\ new.session = c.session /\ new.case = c.case /\ new.step = c.step
  /\ new.field = c.field /\ new.value = c.value /\ new.candidate = c.candidate

LEMMA AnsweredCall ==
  ASSUME call \in [Calls -> CallRecords], NEW i \in Calls, NEW outcome \in Outcomes
  PROVE  \E new : /\ Answers(call[i], new, outcome)
                  /\ Answered(i, outcome) = [call EXCEPT ![i] = new]
                  /\ call' = Answered(i, outcome) => Changes(i, new)
<1>1. PICK half : half = [call[i] EXCEPT !.stage = "answered"]
  OBVIOUS
<1>2. call[i] \in CallRecords
  OBVIOUS
<1>3. /\ half \in CallRecords /\ half.stage = "answered" /\ half.kind = call[i].kind
      /\ half.session = call[i].session /\ half.case = call[i].case
      /\ half.step = call[i].step /\ half.field = call[i].field
      /\ half.value = call[i].value /\ half.candidate = call[i].candidate
  BY <1>1, <1>2 DEF CallRecords
<1>4. PICK new : new = [half EXCEPT !.outcome = outcome]
  OBVIOUS
<1>5. Answers(call[i], new, outcome)
  BY <1>3, <1>4 DEF CallRecords, Answers
<1>6. Answered(i, outcome) = [call EXCEPT ![i] = new]
  <2>1. PICK halves : halves = [call EXCEPT ![i] = half]
    OBVIOUS
  <2>2. Answered(i, outcome) = [halves EXCEPT ![i] = [halves[i] EXCEPT !.outcome = outcome]]
    BY <1>1, <2>1 DEF Answered
  <2>3. halves[i] = half
    BY <2>1
  <2> QED
    BY <1>4, <2>1, <2>2, <2>3
<1> QED
  BY <1>5, <1>6, ChangedCall DEF Answers

\* An error is an answer to any request.
LEMMA ErrorCarries ==
  ASSUME NEW c, NEW new, Answers(c, new, "error"), Carries(c), c.kind # "none"
  PROVE  Carries(new)
BY DEF Answers, Carries

LEMMA NoCallCarries == NoCall \in CallRecords /\ Carries(NoCall) /\ Known(NoCall.session)
BY DEF NoCall, CallRecords, Carries, Known, Outcomes

\* A request that is sent takes a free place.
LEMMA SentCall ==
  ASSUME call \in [Calls -> CallRecords], NEW c \in CallRecords, Send(c)
  PROVE  \E i \in Free : Changes(i, c)
<1>1. PICK i \in Free : call' = [call EXCEPT ![i] = c]
  BY DEF Send
<1>2. i \in Calls
  BY DEF Free
<1> QED
  BY <1>1, <1>2, ChangedCall

LEMMA FieldAtType ==
  ASSUME NEW ct \in Cases, NEW n \in Nat
  PROVE  /\ FieldAt(ct, n) \in Fields \cup {NoField}
         /\ FieldAt(ct, n) # NoField =>
              /\ n + 2 \in 2 .. Len(Pipeline[ct]) + 1
              /\ FieldAt(ct, n) = Pipeline[ct][Stage(n + 2)]
<1>1. PICK s : s = Pipeline[ct]
  OBVIOUS
<1>2. s \in Seq(Fields) /\ Len(s) \in Nat /\ DOMAIN s = 1 .. Len(s)
  BY <1>1, PipelineAssumption
<1>3. Stage(n + 2) = n + 1
  BY DEF Stage
<1>4. CASE n + 1 \in DOMAIN s
  BY <1>1, <1>2, <1>3, <1>4 DEF FieldAt
<1>5. CASE n + 1 \notin DOMAIN s
  BY <1>1, <1>5 DEF FieldAt
<1> QED
  BY <1>4, <1>5

-----------------------------------------------------------------------------
(* The page is a client of the lookup. *)

\* Every step of the page is one of the lookup, or none of its business.
LEMMA PageStep ==
  ASSUME CarryInv, [PageNext]_pageVars
  PROVE  [Next]_vars
<1>1. CASE UNCHANGED pageVars
  BY <1>1 DEF pageVars
<1>2. CASE Visitor
  BY <1>2 DEF Visitor, StartSearch, ResetSearch, ChooseCase, SubmitStep
<1>3. ASSUME NEW i \in Calls, ServeStart(i) PROVE [Next]_vars
  BY <1>3, PageAssumption DEF ServeStart, Next
<1>4. ASSUME NEW i \in Calls, ServeProfile(i) PROVE [Next]_vars
  <2>1. call[i].session \in Sessions \cup {NoSession}
    BY DEF CarryInv, PageTypeOK, CallRecords
  <2> QED
    BY <1>4, <2>1, PageAssumption DEF ServeProfile, Next
<1>5. ASSUME NEW i \in Calls, NEW w \in Workers, ServeRead(i, w) PROVE [Next]_vars
  <2>1. call[i].session \in Sessions
    BY <1>5 DEF CarryInv, PageTypeOK, CallRecords, Carries, ServeRead
  <2> QED
    BY <1>5, <2>1, PageAssumption DEF ServeRead, Next, Advance
<1>6. ASSUME NEW i \in Calls, NEW w \in Workers, ServeStep(i, w) PROVE [Next]_vars
  <2>1. PICK ct, step, v : ct = call[i].case /\ step = call[i].step /\ v = call[i].value
    OBVIOUS
  <2>2. ct \in Cases /\ v \in Values /\ step \in 2 .. Len(Pipeline[ct]) + 1
    BY <1>6, <2>1 DEF CarryInv, PageTypeOK, CallRecords, Carries, ServeStep
  <2>3. step \in Steps
    BY <2>2, StepsAssumption
  <2>4. \/ Expire(w) \/ Reject(w)
        \/ Fail(w, ct, step, v) \/ Narrow(w, ct, step, v) \/ Resolve(w, ct, step, v)
    BY <1>6, <2>1 DEF ServeStep
  <2> QED
    BY <2>2, <2>3, <2>4 DEF Next, Advance
<1>7. ASSUME NEW i \in Calls, Lose(i) \/ Arrival(i) PROVE [Next]_vars
  BY <1>7 DEF Lose, Arrival, OnError, OnStarted, OnNarrowed, OnResolved, OnProfile
<1>8. CASE PageTick
  BY <1>8 DEF PageTick, Next
<1> QED
  BY <1>1, <1>2, <1>3, <1>4, <1>5, <1>6, <1>7, <1>8 DEF PageNext, Server

-----------------------------------------------------------------------------
(* What the steps of the lookup do to a session. *)

\* Worker w lets its session go; at most a resolved one has found its match then.
Ends(w) ==
  /\ pc[w] # "idle" /\ token[w] \in Sessions
  /\ pc'[w] = "idle" /\ \A x \in Workers : x # w => pc'[x] = pc[x] /\ token'[x] = token[x]
  /\ now' = now
  /\ \A s \in Sessions : s # token[w] => session'[s] = session[s]
  /\ LET old == session[token[w]]  new == session'[token[w]] IN
     /\ new.status # "none"
     /\ new.stepExpires <= now + StepTimeout \/ new.stepExpires = old.stepExpires
     /\ new.matched = old.matched \/ new.status = "resolved"

LEMMA ReleaseEnds ==
  ASSUME IInv, NEW w \in Workers, pc[w] # "idle", Release(w), now' = now, NEW new,
         session' = [session EXCEPT ![token[w]] = new], new.status # "none",
         \/ new.stepExpires <= now + StepTimeout
         \/ new.stepExpires = session[token[w]].stepExpires,
         new.matched = session[token[w]].matched \/ new.status = "resolved"
  PROVE  Ends(w) /\ session'[token[w]] = new
<1>1. /\ token[w] \in Sessions /\ session \in [Sessions -> Rows]
      /\ pc \in [Workers -> {"idle", "deciding", "expiring"}]
      /\ token \in [Workers -> Sessions \cup {NoSession}]
  BY DEF IInv, TypeOK, WorkInv
<1>2. session'[token[w]] = new /\ \A s \in Sessions : s # token[w] => session'[s] = session[s]
  BY <1>1
<1>3. pc'[w] = "idle" /\ \A x \in Workers : x # w => pc'[x] = pc[x] /\ token'[x] = token[x]
  BY <1>1 DEF Release
<1> QED
  BY <1>1, <1>2, <1>3 DEF Ends

LEMMA RejectEnds ==
  ASSUME IInv, NEW w \in Workers, Reject(w)
  PROVE  Ends(w) /\ session' = session
<1>1. /\ token[w] \in Sessions /\ session[token[w]].status # "none" /\ pc[w] # "idle"
      /\ pc \in [Workers -> {"idle", "deciding", "expiring"}]
      /\ token \in [Workers -> Sessions \cup {NoSession}]
  BY DEF Reject, IInv, TypeOK, WorkInv
<1>2. /\ pc'[w] = "idle" /\ \A x \in Workers : x # w => pc'[x] = pc[x] /\ token'[x] = token[x]
      /\ now' = now /\ session' = session
  BY <1>1 DEF Reject, Release
<1> QED
  BY <1>1, <1>2 DEF Ends

LEMMA ExpireEnds ==
  ASSUME IInv, NEW w \in Workers, Expire(w)
  PROVE  Ends(w) /\ session'[token[w]].status = "expired"
<1>1. PICK new : new = [session[token[w]] EXCEPT !.status = "expired"]
  OBVIOUS
<1>2. session[token[w]] \in Rows /\ pc[w] # "idle"
  BY DEF Expire, IInv, TypeOK, WorkInv
<1>3. /\ new.status = "expired" /\ new.stepExpires = session[token[w]].stepExpires
      /\ new.matched = session[token[w]].matched
  BY <1>1, <1>2 DEF Rows
<1>4. session' = [session EXCEPT ![token[w]] = new] /\ Release(w) /\ now' = now
  BY <1>1 DEF Expire
<1> QED
  BY <1>2, <1>3, <1>4, ReleaseEnds

\* The time that the rows which are saved have for the next step.
LEMMA SavedTimes ==
  ASSUME TypeOK, NEW stored \in Rows, NEW row \in Rows, NEW c
  PROVE  /\ SavedNarrowed(stored, row).stepExpires <= now + StepTimeout
         /\ SavedFailed(stored, row).stepExpires = stored.stepExpires
         /\ SavedResolved(stored, row, c).stepExpires <= now + StepTimeout
<1>1. PICK n : n = now + StepTimeout
  OBVIOUS
<1>2. n \in Nat
  BY <1>1, TimesAssumption DEF TypeOK
<1>3. PICK base : base = SavedStep(stored, row)
  OBVIOUS
<1>4. base \in Rows /\ base.stepExpires = stored.stepExpires
  BY <1>3, StepRow DEF SavedStep, Rows
<1>5. SavedNarrowed(stored, row).stepExpires = n
  BY <1>1, <1>3, <1>4 DEF SavedNarrowed, Rows
<1>6. SavedFailed(stored, row).stepExpires = stored.stepExpires
  BY <1>3, <1>4 DEF SavedFailed, Rows
<1>7. SavedResolved(stored, row, c).stepExpires = n
  BY <1>1, <1>3, <1>4 DEF SavedResolved, Rows
<1> QED
  BY <1>1, <1>2, <1>5, <1>6, <1>7

LEMMA AcceptedEnds ==
  ASSUME IInv, NEW w \in Workers, NEW ct \in Cases, NEW step \in Steps, NEW v \in Values
  PROVE  /\ Fail(w, ct, step, v) => Ends(w) /\ session'[token[w]].status = "failed"
         /\ Narrow(w, ct, step, v) =>
              Ends(w) /\ session'[token[w]].status = session[token[w]].status
         /\ Resolve(w, ct, step, v) => Ends(w) /\ session'[token[w]].status = "resolved"
<1>1. PICK s, row : s = token[w] /\ row = Advanced(copy[w], ct, step, v)
  OBVIOUS
<1>2. ASSUME Fail(w, ct, step, v)
      PROVE  Ends(w) /\ session'[token[w]].status = "failed"
  <2>1. /\ pc[w] # "idle" /\ session[s] \in Rows /\ row \in Rows /\ RowFits(row)
    BY <1>1, <1>2, AcceptedRow DEF Fail
  <2>2. PICK new : new = SavedFailed(session[s], row)
    OBVIOUS
  <2>3. /\ new.status = "failed" /\ new.matched = session[s].matched
        /\ new.stepExpires = session[s].stepExpires
    BY <2>1, <2>2, SavedRows, SavedTimes DEF IInv
  <2>4. session' = [session EXCEPT ![token[w]] = new] /\ Release(w) /\ now' = now
    BY <1>1, <1>2, <2>2 DEF Fail
  <2> QED
    BY <1>1, <2>1, <2>3, <2>4, ReleaseEnds
<1>3. ASSUME Narrow(w, ct, step, v)
      PROVE  Ends(w) /\ session'[token[w]].status = session[token[w]].status
  <2>1. /\ pc[w] # "idle" /\ session[s] \in Rows /\ row \in Rows /\ RowFits(row)
        /\ session[s].status # "none"
    BY <1>1, <1>3, AcceptedRow DEF Narrow
  <2>2. PICK new : new = SavedNarrowed(session[s], row)
    OBVIOUS
  <2>3. /\ new.status = session[s].status /\ new.matched = session[s].matched
        /\ new.stepExpires <= now + StepTimeout
    BY <2>1, <2>2, SavedRows, SavedTimes DEF IInv
  <2>4. session' = [session EXCEPT ![token[w]] = new] /\ Release(w) /\ now' = now
    BY <1>1, <1>3, <2>2 DEF Narrow
  <2> QED
    BY <1>1, <2>1, <2>3, <2>4, ReleaseEnds
<1>4. ASSUME Resolve(w, ct, step, v)
      PROVE  Ends(w) /\ session'[token[w]].status = "resolved"
  <2>1. /\ pc[w] # "idle" /\ session[s] \in Rows /\ row \in Rows /\ RowFits(row)
        /\ row.ids \subseteq Candidates
    BY <1>1, <1>4, AcceptedRow DEF Resolve
  <2>2. PICK c \in row.ids : session' = [session EXCEPT ![s] = SavedResolved(session[s], row, c)]
    BY <1>1, <1>4 DEF Resolve
  <2>3. PICK new : new = SavedResolved(session[s], row, c)
    OBVIOUS
  <2>4. new.status = "resolved" /\ new.stepExpires <= now + StepTimeout
    BY <2>1, <2>2, <2>3, ResolvedRow, SavedTimes DEF IInv
  <2>5. session' = [session EXCEPT ![token[w]] = new] /\ Release(w) /\ now' = now
    BY <1>1, <1>4, <2>2, <2>3 DEF Resolve
  <2> QED
    BY <1>1, <2>1, <2>4, <2>5, ReleaseEnds
<1> QED
  BY <1>2, <1>3, <1>4

\* A session that starts was none before.
Starts(s) ==
  /\ session[s].status = "none" /\ session'[s].status = "active"
  /\ session'[s].matched = NoCandidate /\ session'[s].stepExpires = now + StepTimeout
  /\ \A t \in Sessions : t # s => session'[t] = session[t]
  /\ UNCHANGED <<now, pc, token>>

LEMMA StartStarts ==
  ASSUME IInv, NEW s \in Sessions, NEW ip \in Ips, NEW ids \in SUBSET Candidates,
         StartAnonymous(s, ip, ids) \/ StartRecruiter(s, ip, ids)
  PROVE  Starts(s) /\ initial'[s] = ids
<1>1. PICK new : new = NewSession(ip, ids)
  OBVIOUS
<1>2. new.status = "active" /\ new.matched = NoCandidate /\ new.stepExpires = now + StepTimeout
  BY <1>1 DEF NewSession, NoRow
<1>3. /\ session[s].status = "none" /\ session' = [session EXCEPT ![s] = new]
      /\ initial' = [initial EXCEPT ![s] = ids] /\ UNCHANGED <<now, pc, token>>
  BY <1>1 DEF StartAnonymous, StartRecruiter, Store
<1>4. /\ session'[s] = new /\ initial'[s] = ids
      /\ \A t \in Sessions : t # s => session'[t] = session[t]
  BY <1>3 DEF IInv, TypeOK
<1> QED
  BY <1>2, <1>3, <1>4 DEF Starts

LEMMA SessionsKept ==
  ASSUME IInv, [Next]_vars
  PROVE  /\ \A s \in Sessions : session[s].status # "none" => session'[s].status # "none"
         /\ TimesFit => TimesFit'
<1>1. /\ now \in Int /\ StepTimeout \in Int
      /\ \A s \in Sessions : session[s].stepExpires \in Int
  BY TimesAssumption DEF IInv, TypeOK, Rows
<1>2. ASSUME NEW s \in Sessions, NEW ip \in Ips, NEW ids \in SUBSET Candidates,
             StartAnonymous(s, ip, ids) \/ StartRecruiter(s, ip, ids)
      PROVE  /\ \A t \in Sessions : session[t].status # "none" => session'[t].status # "none"
             /\ TimesFit => TimesFit'
  BY <1>1, <1>2, StartStarts DEF Starts, TimesFit
<1>3. ASSUME NEW w \in Workers, Ends(w)
      PROVE  /\ \A t \in Sessions : session[t].status # "none" => session'[t].status # "none"
             /\ TimesFit => TimesFit'
  BY <1>1, <1>3 DEF Ends, TimesFit
<1>4. ASSUME NEW w \in Workers, Advance(w), session' # session \/ now' # now PROVE Ends(w)
  BY <1>4, RejectEnds, ExpireEnds, AcceptedEnds DEF Advance, Read, ReadInvalid
<1>5. CASE Tick
  BY <1>1, <1>5 DEF Tick, TimesFit
<1>6. CASE session' = session /\ now' = now
  BY <1>6 DEF TimesFit
<1> QED
  BY <1>2, <1>3, <1>4, <1>5, <1>6 DEF Next, Reveal, vars

-----------------------------------------------------------------------------
(* What the page and its requests carry. *)

LEMMA ChangedCarry ==
  ASSUME CarryInv, NEW i \in Calls, NEW new, Changes(i, new), Carries(new),
         new.session # NoSession => session'[new.session].status # "none",
         \A s \in Sessions : session[s].status # "none" => session'[s].status # "none"
  PROVE  \A j \in Calls : (Known(call[j].session) /\ Carries(call[j]))'
<1> SUFFICES ASSUME NEW j \in Calls PROVE Known(call[j].session)' /\ Carries(call'[j])
  BY DEF Carries
<1>1. CASE j = i
  BY <1>1 DEF Changes, Known
<1>2. CASE j # i
  <2>1. /\ call'[j] = call[j] /\ Carries(call[j]) /\ Known(call[j].session)
        /\ call[j].session \in Sessions \cup {NoSession}
    BY <1>2 DEF Changes, CarryInv, PageTypeOK, CallRecords
  <2> QED
    BY <2>1 DEF Known
<1> QED
  BY <1>1, <1>2

LEMMA InitCarry == PageInit => CarryInv
<1> SUFFICES ASSUME PageInit PROVE CarryInv
  OBVIOUS
<1>1. Cardinality(Candidates) \in Nat
  BY CandidatesAssumption, FS_CardinalityType
<1>2. BlankPage \in Pages
  BY <1>1, TimesAssumption DEF BlankPage, Pages
<1>3. PageTypeOK
  <2>1. 0 \in 0 .. MaxLost
    BY PageAssumption
  <2>2. page \in Pages /\ call \in [Calls -> CallRecords]
    BY <1>2, NoCallCarries DEF PageInit
  <2> QED
    BY <2>1, <2>2 DEF PageInit, PageTypeOK
<1>4. PageFits
  BY DEF PageInit, PageFits, BlankPage, Known
<1>5. TimesFit
  BY TimesAssumption DEF PageInit, Init, TimesFit, NoRow
<1> QED
  BY <1>3, <1>4, <1>5, NoCallCarries DEF PageInit, CarryInv, Known

\* What a page shows goes with its step and its case.
Fitting(p) ==
  /\ p \in Pages /\ p.step = p.index + 2
  /\ p.case # NoCase => p.field = FieldAt(p.case, p.index)

LEMMA TimedFits ==
  ASSUME NEW p \in Pages, p.step = p.index + 2,
         p.case # NoCase => p.field = FieldAt(p.case, p.index)
  PROVE  /\ Fitting(Timed(p)) /\ Timed(p).timing = p.token /\ Timed(p).timer = StepTimeout
         /\ Timed(p).timedOut = NoSession
         /\ Timed(p).token = p.token /\ Timed(p).case = p.case /\ Timed(p).profile = p.profile
         /\ Timed(p).loading = p.loading
<1>1. PICK t : t = Timed(p)
  OBVIOUS
<1>2. StepTimeout \in 0 .. StepTimeout /\ p.token \in Sessions \cup {NoSession}
  BY TimesAssumption DEF Pages
<1>3. t \in Pages
  BY <1>1, <1>2 DEF Timed, Pages
<1>4. /\ t.timing = p.token /\ t.timer = StepTimeout /\ t.timedOut = NoSession
      /\ t.token = p.token /\ t.case = p.case /\ t.profile = p.profile /\ t.loading = p.loading
      /\ t.step = p.step /\ t.index = p.index /\ t.field = p.field
  BY <1>1 DEF Timed, Pages
<1> QED
  BY <1>1, <1>3, <1>4 DEF Fitting

\* The pages that the actions leave.
LEMMA PageChanges ==
  ASSUME CarryInv
  PROVE  /\ Fitting(page) /\ Fitting(BlankPage) /\ Fitting(Loaded)
         /\ \A ct \in Cases : Fitting(Chosen(ct)) /\ Chosen(ct).timing = page.token
                              /\ Chosen(ct).case = ct /\ Chosen(ct).timer = StepTimeout
                              /\ Chosen(ct).timedOut = NoSession
                              /\ Chosen(ct).token = page.token
                              /\ Chosen(ct).profile = page.profile
                              /\ Chosen(ct).loading = page.loading
<1>1. page \in Pages /\ Fitting(page)
  BY DEF CarryInv, PageTypeOK, PageFits, Fitting
<1>2. Cardinality(Candidates) \in Nat
  BY CandidatesAssumption, FS_CardinalityType
<1>3. Fitting(BlankPage)
  BY <1>2, TimesAssumption DEF BlankPage, Pages, Fitting
<1>4. Fitting(Loaded)
  BY <1>1 DEF Loaded, Fitting, Pages
<1>5. ASSUME NEW ct \in Cases
      PROVE  Fitting(Chosen(ct)) /\ Chosen(ct).timing = page.token
             /\ Chosen(ct).case = ct /\ Chosen(ct).timer = StepTimeout
             /\ Chosen(ct).timedOut = NoSession /\ Chosen(ct).token = page.token
             /\ Chosen(ct).profile = page.profile /\ Chosen(ct).loading = page.loading
  <2>1. PICK f : f = FieldAt(ct, 0)
    OBVIOUS
  <2>2. f \in Fields \cup {NoField}
    BY <2>1, FieldAtType
  <2>3. PICK p : p = [page EXCEPT !.case = ct, !.index = 0, !.step = 2, !.field = f]
    OBVIOUS
  <2>4. /\ p \in Pages /\ p.case = ct /\ p.index = 0 /\ p.step = 2 /\ p.field = f
        /\ p.token = page.token /\ p.profile = page.profile /\ p.loading = page.loading
    BY <1>1, <2>2, <2>3 DEF Pages
  <2>5. Chosen(ct) = Timed(p)
    BY <2>1, <2>3 DEF Chosen
  <2> QED
    BY <2>1, <2>4, <2>5, TimedFits
<1> QED
  BY <1>1, <1>3, <1>4, <1>5

\* The page after a step that is not the last goes on, with or without a case.
LEMMA NextStepFits ==
  ASSUME CarryInv
  PROVE  /\ Fitting(NextStep(Loaded)) /\ NextStep(Loaded).token = page.token
         /\ NextStep(Loaded).case = page.case /\ NextStep(Loaded).profile = page.profile
         /\ ~NextStep(Loaded).loading
         /\ \/ /\ page.case = NoCase /\ NextStep(Loaded).timer = page.timer
               /\ NextStep(Loaded).timing = page.timing
               /\ NextStep(Loaded).timedOut = page.timedOut
            \/ /\ NextStep(Loaded).timer = StepTimeout
               /\ NextStep(Loaded).timing = page.token
               /\ NextStep(Loaded).timedOut = NoSession
<1>1. page \in Pages /\ page.step = page.index + 2 /\ page.index \in Nat
  BY DEF CarryInv, PageTypeOK, PageFits, Pages
<1>2. PICK q : q = [Loaded EXCEPT !.index = @ + 1, !.step = @ + 1]
  OBVIOUS
<1>3. /\ Loaded \in Pages /\ Loaded.index = page.index /\ Loaded.step = page.step
      /\ Loaded.case = page.case /\ Loaded.field = page.field /\ Loaded.timer = page.timer
      /\ Loaded.timing = page.timing /\ Loaded.timedOut = page.timedOut
      /\ Loaded.token = page.token /\ Loaded.profile = page.profile /\ ~Loaded.loading
  BY <1>1 DEF Loaded, Pages
<1>4. /\ q \in Pages /\ q.index = page.index + 1 /\ q.step = page.step + 1
      /\ q.case = page.case /\ q.field = page.field /\ q.timer = page.timer
      /\ q.timing = page.timing /\ q.timedOut = page.timedOut /\ q.token = page.token
      /\ q.profile = page.profile /\ ~q.loading
  <2>1. PICK m, n : m = page.index + 1 /\ n = page.step + 1
    OBVIOUS
  <2>2. m \in Nat /\ n \in Nat
    BY <1>1, <2>1
  <2>3. q = [Loaded EXCEPT !.index = m, !.step = n]
    BY <1>2, <1>3, <2>1 DEF Pages
  <2> QED
    BY <1>3, <2>1, <2>2, <2>3 DEF Pages
<1>5. Loaded.case = page.case
  BY <1>3
<1>6. CASE page.case = NoCase
  <2>1. NextStep(Loaded) = q
    BY <1>2, <1>5, <1>6 DEF NextStep
  <2> QED
    BY <1>1, <1>4, <1>6, <2>1 DEF Fitting
<1>7. CASE page.case # NoCase
  <2>1. page.case \in Cases
    BY <1>1, <1>7 DEF Pages
  <2>2. PICK f : f = FieldAt(q.case, q.index)
    OBVIOUS
  <2>3. f \in Fields \cup {NoField}
    BY <1>1, <1>4, <2>1, <2>2, FieldAtType
  <2>4. PICK p : p = [q EXCEPT !.field = f]
    OBVIOUS
  <2>5. /\ p \in Pages /\ p.index = q.index /\ p.step = q.step /\ p.case = q.case /\ p.field = f
        /\ p.token = q.token /\ p.profile = q.profile /\ p.loading = q.loading
    BY <1>4, <2>3, <2>4 DEF Pages
  <2>6. NextStep(Loaded) = Timed(p)
    BY <1>2, <1>5, <1>7, <2>2, <2>4 DEF NextStep
  <2>7. p.step = p.index + 2 /\ p.field = FieldAt(p.case, p.index)
    BY <1>1, <1>4, <2>2, <2>5
  <2> QED
    BY <1>4, <2>5, <2>6, <2>7, TimedFits
<1> QED
  BY <1>6, <1>7

LEMMA CountedDownFits ==
  ASSUME CarryInv
  PROVE  /\ Fitting(CountedDown(page))
         /\ CountedDown(page).token = page.token /\ CountedDown(page).profile = page.profile
         /\ CountedDown(page).loading = page.loading
         /\ \/ page.timer = 0 /\ CountedDown(page) = page
            \/ /\ page.timer > 1 /\ CountedDown(page).timer = page.timer - 1
               /\ CountedDown(page).timing = page.timing
               /\ CountedDown(page).timedOut = page.timedOut
               /\ CountedDown(page).case = page.case
            \/ /\ page.timer = 1 /\ CountedDown(page).timer = 0
               /\ CountedDown(page).timing = NoSession
               /\ CountedDown(page).timedOut = page.timing
               /\ CountedDown(page).case = NoCase
<1>1. page \in Pages /\ Fitting(page)
  BY DEF CarryInv, PageTypeOK, PageFits, Fitting
<1>2. page.timer \in 0 .. StepTimeout /\ StepTimeout \in Nat
  BY <1>1, TimesAssumption DEF Pages
<1>3. CASE page.timer = 0
  BY <1>1, <1>3 DEF CountedDown
<1>4. CASE page.timer > 1
  <2>1. PICK n : n = page.timer - 1
    OBVIOUS
  <2>2. n \in 0 .. StepTimeout
    BY <1>2, <1>4, <2>1
  <2>3. CountedDown(page) = [page EXCEPT !.timer = n]
    BY <1>2, <1>4, <2>1 DEF CountedDown
  <2>4. PICK p : p = [page EXCEPT !.timer = n]
    OBVIOUS
  <2>5. /\ p \in Pages /\ p.timer = n /\ p.token = page.token /\ p.profile = page.profile
        /\ p.loading = page.loading /\ p.timing = page.timing /\ p.timedOut = page.timedOut
        /\ p.case = page.case /\ p.step = page.step /\ p.index = page.index
        /\ p.field = page.field
    BY <1>1, <2>2, <2>4 DEF Pages
  <2> QED
    BY <1>1, <1>4, <2>1, <2>3, <2>4, <2>5 DEF Fitting
<1>5. CASE page.timer = 1
  <2>1. PICK p : p = [page EXCEPT !.timer = 0, !.timing = NoSession,
                                  !.timedOut = page.timing, !.case = NoCase]
    OBVIOUS
  <2>2. CountedDown(page) = p
    BY <1>5, <2>1 DEF CountedDown
  <2>3. p \in Pages
    <3>1. 0 \in 0 .. StepTimeout /\ page.timing \in Sessions \cup {NoSession}
      BY <1>1, <1>2 DEF Pages
    <3> QED
      BY <1>1, <2>1, <3>1 DEF Pages
  <2>4. /\ p.timer = 0 /\ p.token = page.token /\ p.profile = page.profile
        /\ p.loading = page.loading /\ p.timing = NoSession /\ p.timedOut = page.timing
        /\ p.case = NoCase /\ p.step = page.step /\ p.index = page.index
    BY <1>1, <2>1 DEF Pages
  <2> QED
    BY <1>1, <1>5, <2>2, <2>3, <2>4 DEF Fitting
<1> QED
  BY <1>2, <1>3, <1>4, <1>5

-----------------------------------------------------------------------------
(* The actions, as the invariants see them: what becomes of the page and of  *)
(* the one request that an action is about.                                  *)

\* Nothing but the page and a request changes.
Aside == UNCHANGED <<vars, late, lost>>

LEMMA StartSearchEffect ==
  ASSUME CarryInv, StartSearch
  PROVE  \E i \in Free, new \in CallRecords :
           /\ Changes(i, new) /\ Carries(new) /\ new.kind = "start" /\ new.stage = "sent"
           /\ new.session = NoSession /\ new.outcome = "none"
           /\ ~page.loading /\ Aside /\ detached' = detached
           /\ Fitting(page') /\ page'.loading /\ page'.profile = NoCandidate
           /\ page'.case = NoCase /\ page'.token = page.token /\ page'.timer = page.timer
           /\ page'.timing = page.timing /\ page'.timedOut = page.timedOut
<1>1. page \in Pages /\ page.step = page.index + 2 /\ call \in [Calls -> CallRecords]
  BY DEF CarryInv, PageTypeOK, PageFits
<1>2. PICK new : new = [NoCall EXCEPT !.kind = "start"]
  OBVIOUS
<1>3. new \in CallRecords
  BY <1>2, NoCallCarries DEF CallRecords
<1>4. /\ new.kind = "start" /\ new.stage = "sent" /\ new.session = NoSession
      /\ new.outcome = "none" /\ Carries(new)
  BY <1>2 DEF NoCall, Carries
<1>5. Cardinality(Candidates) \in Nat
  BY CandidatesAssumption, FS_CardinalityType
<1>6. /\ Fitting(page') /\ page'.loading /\ page'.profile = NoCandidate
      /\ page'.case = NoCase /\ page'.token = page.token /\ page'.timer = page.timer
      /\ page'.timing = page.timing /\ page'.timedOut = page.timedOut
  <2>1. 0 \in 0 .. Cardinality(Candidates)
    BY <1>5
  <2>2. page' = [page EXCEPT !.loading = TRUE, !.profile = NoCandidate, !.case = NoCase,
                             !.count = 0]
    BY DEF StartSearch
  <2>3. page' \in Pages
    BY <1>1, <2>1, <2>2 DEF Pages
  <2> QED
    BY <1>1, <2>2, <2>3 DEF Pages, Fitting
<1>7. \E i \in Free : Changes(i, new)
  BY <1>1, <1>2, <1>3, SentCall DEF StartSearch
<1> QED
  BY <1>3, <1>4, <1>6, <1>7 DEF StartSearch, Aside

LEMMA SubmitStepEffect ==
  ASSUME CarryInv, NEW v \in Values, SubmitStep(v)
  PROVE  \E i \in Free, new \in CallRecords :
           /\ Changes(i, new) /\ Carries(new) /\ new.kind = "step" /\ new.stage = "sent"
           /\ new.session = page.token /\ page.token # NoSession /\ new.outcome = "none"
           /\ ~page.loading /\ page.case # NoCase /\ Aside /\ detached' = detached
           /\ Fitting(page') /\ page'.loading /\ page'.profile = page.profile
           /\ page'.case = page.case /\ page'.token = page.token /\ page'.timer = page.timer
           /\ page'.timing = page.timing /\ page'.timedOut = page.timedOut
<1>1. /\ page \in Pages /\ page.step = page.index + 2 /\ call \in [Calls -> CallRecords]
      /\ page.token # NoSession /\ page.case \in Cases /\ page.field # NoField
      /\ page.field = FieldAt(page.case, page.index)
  BY DEF CarryInv, PageTypeOK, PageFits, Pages, SubmitStep
<1>2. PICK new : new = [NoCall EXCEPT !.kind = "step", !.session = page.token,
                                      !.case = page.case, !.step = page.step,
                                      !.field = page.field, !.value = v]
  OBVIOUS
<1>3. /\ page.token \in Sessions \cup {NoSession} /\ page.step \in Nat /\ page.index \in Nat
      /\ page.field \in Fields \cup {NoField}
  BY <1>1 DEF Pages
<1>4. new \in CallRecords
  BY <1>1, <1>2, <1>3, NoCallCarries DEF CallRecords
<1>5. /\ new.kind = "step" /\ new.stage = "sent" /\ new.session = page.token
      /\ new.outcome = "none" /\ new.case = page.case /\ new.step = page.step
      /\ new.field = page.field /\ new.value = v
  BY <1>2 DEF NoCall
<1>6. /\ page.step \in 2 .. Len(Pipeline[page.case]) + 1
      /\ page.field = Pipeline[page.case][Stage(page.step)]
  BY <1>1, <1>3, FieldAtType
<1>7. Carries(new)
  BY <1>1, <1>5, <1>6, NullsAssumption DEF Carries
<1>8. /\ Fitting(page') /\ page'.loading /\ page'.profile = page.profile
      /\ page'.case = page.case /\ page'.token = page.token /\ page'.timer = page.timer
      /\ page'.timing = page.timing /\ page'.timedOut = page.timedOut
  BY <1>1 DEF SubmitStep, Pages, Fitting
<1>9. \E i \in Free : Changes(i, new)
  BY <1>1, <1>2, <1>4, SentCall DEF SubmitStep
<1> QED
  BY <1>1, <1>4, <1>5, <1>7, <1>8, <1>9 DEF SubmitStep, Aside

\* A start is served by a session of its own, or refused.
LEMMA ServeStartEffect ==
  ASSUME IInv, CarryInv, NEW i \in Calls, ServeStart(i)
  PROVE  \E new \in CallRecords :
           /\ Changes(i, new) /\ Carries(new) /\ new.kind = "start" /\ new.stage = "answered"
           /\ call[i].kind = "start" /\ call[i].stage = "sent"
           /\ UNCHANGED <<page, detached, late, lost>>
           /\ \/ /\ new.outcome = "error" /\ new.session = call[i].session
                 /\ UNCHANGED vars
              \/ /\ new.outcome = "started" /\ new.session \in Sessions /\ Starts(new.session)
<1>1. call \in [Calls -> CallRecords] /\ call[i] \in CallRecords /\ Carries(call[i])
      /\ call[i].kind = "start" /\ call[i].stage = "sent"
      /\ UNCHANGED <<page, detached, late, lost>>
  BY DEF CarryInv, PageTypeOK, ServeStart
<1>2. CASE UNCHANGED vars /\ call' = Answered(i, "error")
  <2>1. "error" \in Outcomes
    BY DEF Outcomes
  <2>2. PICK new : Answers(call[i], new, "error") /\ Changes(i, new)
    BY <1>1, <1>2, <2>1, AnsweredCall
  <2>3. Carries(new)
    BY <1>1, <2>2, ErrorCarries
  <2> QED
    BY <1>1, <1>2, <2>2, <2>3 DEF Answers
<1>3. ASSUME NEW s \in Sessions, NEW ids \in SUBSET Candidates,
             StartAnonymous(s, Ip, ids) \/ StartRecruiter(s, Ip, ids),
             call' = [Answered(i, "started") EXCEPT ![i].session = s]
      PROVE  \E new \in CallRecords :
               /\ Changes(i, new) /\ Carries(new) /\ new.kind = "start"
               /\ new.stage = "answered"
               /\ new.outcome = "started" /\ new.session \in Sessions /\ Starts(new.session)
  <2>1. PICK ans : /\ Answers(call[i], ans, "started")
                   /\ Answered(i, "started") = [call EXCEPT ![i] = ans]
    BY <1>1, AnsweredCall DEF Outcomes
  <2> PICK new : new = [ans EXCEPT !.session = s]
    OBVIOUS
  <2>2. /\ new \in CallRecords /\ new.kind = "start" /\ new.stage = "answered"
        /\ new.outcome = "started" /\ new.session = s
    BY <1>1, <2>1 DEF Answers, CallRecords
  <2>3. call' = [call EXCEPT ![i] = new]
    BY <1>1, <1>3, <2>1
  <2>4. Changes(i, new)
    BY <1>1, <2>2, <2>3, ChangedCall
  <2>5. Starts(s)
    BY <1>3, StartStarts, PageAssumption
  <2>6. Carries(new)
    BY <2>2, NullsAssumption DEF Carries
  <2> QED
    BY <2>2, <2>4, <2>5, <2>6
<1> QED
  BY <1>1, <1>2, <1>3 DEF ServeStart

LEMMA ServeReadEffect ==
  ASSUME IInv, CarryInv, NEW i \in Calls, NEW w \in Workers, ServeRead(i, w)
  PROVE  \E new \in CallRecords :
           /\ Changes(i, new) /\ Carries(new) /\ new.kind = "step"
           /\ new.session = call[i].session /\ call[i].session \in Sessions
           /\ call[i].kind = "step" /\ call[i].stage = "sent"
           /\ UNCHANGED <<page, detached, late, lost, session, now>>
           /\ \/ /\ new.stage = "served" /\ new.outcome = "none" /\ pc[w] = "idle"
                 /\ session[new.session].status = "active"
                 /\ token'[w] = new.session
                 /\ \A x \in Workers : x # w => pc'[x] = pc[x] /\ token'[x] = token[x]
              \/ /\ new.stage = "answered" /\ new.outcome = "error" /\ UNCHANGED <<pc, token>>
<1>1. /\ call \in [Calls -> CallRecords] /\ call[i] \in CallRecords /\ Carries(call[i])
      /\ call[i].kind = "step" /\ call[i].stage = "sent" /\ call[i].session \in Sessions
      /\ UNCHANGED <<page, detached, late, lost>>
  BY DEF CarryInv, PageTypeOK, ServeRead, Carries, CallRecords
<1>2. CASE Read(w, call[i].session) /\ call' = [call EXCEPT ![i].stage = "served"]
  <2>1. PICK new : new = [call[i] EXCEPT !.stage = "served"]
    OBVIOUS
  <2>2. /\ new \in CallRecords /\ new.kind = "step" /\ new.stage = "served"
        /\ new.session = call[i].session /\ new.outcome = call[i].outcome
        /\ new.case = call[i].case /\ new.value = call[i].value /\ new.step = call[i].step
        /\ new.field = call[i].field
    BY <1>1, <2>1 DEF CallRecords
  <2>3. new.outcome = "none" /\ Carries(new)
    BY <1>1, <2>2 DEF Carries
  <2>4. call' = [call EXCEPT ![i] = new]
    BY <1>1, <1>2, <2>1
  <2>5. Changes(i, new)
    BY <1>1, <2>2, <2>4, ChangedCall
  <2>6. /\ pc[w] = "idle" /\ session[call[i].session].status = "active"
        /\ token'[w] = call[i].session
        /\ \A x \in Workers : x # w => pc'[x] = pc[x] /\ token'[x] = token[x]
        /\ UNCHANGED <<session, now>>
    BY <1>2 DEF Read, IInv, TypeOK
  <2> QED
    BY <1>1, <2>2, <2>3, <2>5, <2>6
<1>3. CASE ReadInvalid(w, call[i].session, Ip) /\ call' = Answered(i, "error")
  <2>1. "error" \in Outcomes
    BY DEF Outcomes
  <2>2. PICK new : Answers(call[i], new, "error") /\ Changes(i, new)
    BY <1>1, <1>3, <2>1, AnsweredCall
  <2>3. Carries(new)
    BY <1>1, <2>2, ErrorCarries
  <2>4. UNCHANGED <<pc, token, session, now>>
    BY <1>3 DEF ReadInvalid
  <2> QED
    BY <1>1, <2>2, <2>3, <2>4 DEF Answers
<1> QED
  BY <1>2, <1>3 DEF ServeRead

LEMMA ServeStepEffect ==
  ASSUME IInv, CarryInv, NEW i \in Calls, NEW w \in Workers, ServeStep(i, w)
  PROVE  \E new \in CallRecords :
           /\ Changes(i, new) /\ Carries(new) /\ new.kind = "step" /\ new.stage = "answered"
           /\ new.session = call[i].session /\ call[i].session \in Sessions
           /\ call[i].kind = "step" /\ call[i].stage = "served"
           /\ UNCHANGED <<page, detached, late, lost>>
           /\ Ends(w)
           /\ \/ /\ new.outcome = "error"
                 /\ \/ session' = session
                    \/ session'[token[w]].status \in {"expired", "failed"}
              \/ /\ new.outcome = "narrowed"
                 /\ session'[token[w]].status = session[token[w]].status
              \/ new.outcome = "resolved" /\ session'[token[w]].status = "resolved"
<1>1. /\ call \in [Calls -> CallRecords] /\ call[i] \in CallRecords /\ Carries(call[i])
      /\ call[i].kind = "step" /\ call[i].stage = "served" /\ call[i].session \in Sessions
      /\ UNCHANGED <<page, detached, late, lost>>
  BY DEF CarryInv, PageTypeOK, ServeStep, Carries, CallRecords
<1>2. PICK ct, step, v : ct = call[i].case /\ step = call[i].step /\ v = call[i].value
  OBVIOUS
<1>3. ct \in Cases /\ v \in Values /\ step \in 2 .. Len(Pipeline[ct]) + 1
  BY <1>1, <1>2 DEF CallRecords, Carries
<1>4. step \in Steps
  BY <1>3, StepsAssumption
<1>5. ASSUME NEW outcome \in {"error", "narrowed", "resolved"}, call' = Answered(i, outcome)
      PROVE  \E new \in CallRecords :
               /\ Changes(i, new) /\ Carries(new) /\ new.kind = "step"
               /\ new.stage = "answered" /\ new.session = call[i].session
               /\ new.outcome = outcome
  <2>1. outcome \in Outcomes
    BY DEF Outcomes
  <2>2. PICK new : Answers(call[i], new, outcome) /\ Changes(i, new)
    BY <1>1, <1>5, <2>1, AnsweredCall
  <2>3. Carries(new)
    BY <1>1, <2>2 DEF Answers, Carries
  <2> QED
    BY <1>1, <2>2, <2>3 DEF Answers
<1>6. \/ (Expire(w) \/ Reject(w) \/ Fail(w, ct, step, v)) /\ call' = Answered(i, "error")
      \/ Narrow(w, ct, step, v) /\ call' = Answered(i, "narrowed")
      \/ Resolve(w, ct, step, v) /\ call' = Answered(i, "resolved")
  BY <1>2 DEF ServeStep
<1>7. /\ Expire(w) => Ends(w) /\ session'[token[w]].status = "expired"
      /\ Reject(w) => Ends(w) /\ session' = session
      /\ Fail(w, ct, step, v) => Ends(w) /\ session'[token[w]].status = "failed"
      /\ Narrow(w, ct, step, v) =>
           Ends(w) /\ session'[token[w]].status = session[token[w]].status
      /\ Resolve(w, ct, step, v) => Ends(w) /\ session'[token[w]].status = "resolved"
  BY <1>3, <1>4, ExpireEnds, RejectEnds, AcceptedEnds
<1> QED
  BY <1>1, <1>5, <1>6, <1>7

LEMMA ServeProfileEffect ==
  ASSUME IInv, CarryInv, NEW i \in Calls, ServeProfile(i)
  PROVE  \E new \in CallRecords :
           /\ Changes(i, new) /\ Carries(new) /\ new.kind = "profile"
           /\ new.stage = "answered" /\ new.session = call[i].session
           /\ call[i].kind = "profile" /\ call[i].stage = "sent"
           /\ UNCHANGED <<page, detached, late, lost, session, now, pc, token>>
           /\ \/ new.outcome = "error"
              \/ /\ new.outcome = "shown" /\ new.session \in Sessions
                 /\ new.candidate = session[new.session].matched
                 /\ new.candidate # NoCandidate
<1>1. /\ call \in [Calls -> CallRecords] /\ call[i] \in CallRecords /\ Carries(call[i])
      /\ call[i].kind = "profile" /\ call[i].stage = "sent"
      /\ UNCHANGED <<page, detached, late, lost>>
  BY DEF CarryInv, PageTypeOK, ServeProfile
<1>2. PICK s : s = call[i].session
  OBVIOUS
<1>3. CASE s # NoSession /\ Reveal(s, Ip)
           /\ call' = [Answered(i, "shown") EXCEPT ![i].candidate = session[s].matched]
  <2>1. PICK ans, c : /\ Answers(call[i], ans, "shown") /\ c = session[s].matched
                      /\ Answered(i, "shown") = [call EXCEPT ![i] = ans]
    BY <1>1, AnsweredCall DEF Outcomes
  <2> PICK new : new = [ans EXCEPT !.candidate = c]
    OBVIOUS
  <2>2. /\ s \in Sessions /\ session[s] \in Rows
        /\ c \in Candidates \cup {NoCandidate}
    BY <1>1, <1>2, <1>3, <2>1 DEF CallRecords, IInv, TypeOK, Rows
  <2>3. /\ new \in CallRecords /\ new.kind = "profile" /\ new.stage = "answered"
        /\ new.outcome = "shown" /\ new.session = s /\ new.candidate = c
    BY <1>1, <1>2, <2>1, <2>2 DEF Answers, CallRecords
  <2>4. call' = [call EXCEPT ![i] = new]
    BY <1>1, <1>3, <2>1
  <2>5. Changes(i, new) /\ Carries(new)
    BY <1>1, <1>3, <2>3, <2>4, ChangedCall DEF Carries
  <2>6. session[s].matched # NoCandidate /\ UNCHANGED <<session, now, pc, token>>
    BY <1>3 DEF Reveal, Viewable
  <2> QED
    BY <1>1, <1>2, <2>1, <2>2, <2>3, <2>5, <2>6
<1>4. CASE UNCHANGED vars /\ call' = Answered(i, "error")
  <2>1. "error" \in Outcomes
    BY DEF Outcomes
  <2>2. PICK new : Answers(call[i], new, "error") /\ Changes(i, new)
    BY <1>1, <1>4, <2>1, AnsweredCall
  <2>3. Carries(new)
    BY <1>1, <2>2, ErrorCarries
  <2> QED
    BY <1>1, <1>4, <2>2, <2>3 DEF Answers, vars
<1> QED
  BY <1>2, <1>3, <1>4 DEF ServeProfile

LEMMA LoseEffect ==
  ASSUME CarryInv, NEW i \in Calls, Lose(i)
  PROVE  \E new \in CallRecords :
           /\ Changes(i, new) /\ Carries(new) /\ new.kind = call[i].kind
           /\ new.stage = "answered" /\ new.outcome = "error"
           /\ new.session = call[i].session
           /\ call[i].kind # "none" /\ call[i].stage # "served"
           /\ UNCHANGED <<vars, page, detached, late>>
           /\ lost' = lost + 1 /\ lost' \in 0 .. MaxLost
<1>1. call \in [Calls -> CallRecords] /\ Carries(call[i]) /\ "error" \in Outcomes
  BY DEF CarryInv, PageTypeOK, Outcomes
<1>2. PICK new : Answers(call[i], new, "error") /\ Changes(i, new)
  BY <1>1, AnsweredCall DEF Lose
<1>3. Carries(new)
  BY <1>1, <1>2, ErrorCarries DEF Lose
<1>4. lost' \in 0 .. MaxLost
  BY PageAssumption DEF Lose, CarryInv, PageTypeOK
<1> QED
  BY <1>2, <1>3, <1>4 DEF Lose, Answers

LEMMA LoadedFields ==
  ASSUME CarryInv
  PROVE  /\ Fitting(Loaded) /\ ~Loaded.loading /\ Loaded.token = page.token
         /\ Loaded.case = page.case /\ Loaded.profile = page.profile
         /\ Loaded.timer = page.timer /\ Loaded.timing = page.timing
         /\ Loaded.timedOut = page.timedOut
<1>1. page \in Pages
  BY DEF CarryInv, PageTypeOK
<1> QED
  BY <1>1, PageChanges DEF Loaded, Pages

LEMMA OnErrorEffect ==
  ASSUME CarryInv, NEW i \in Calls, OnError(i)
  PROVE  /\ Changes(i, NoCall) /\ call[i].stage = "answered" /\ call[i].outcome = "error"
         /\ Aside /\ detached' = detached /\ page' = Loaded
BY NoCallCarries, ChangedCall DEF CarryInv, PageTypeOK, OnError, Done, Aside

LEMMA OnStartedEffect ==
  ASSUME IInv, CarryInv, NEW i \in Calls, OnStarted(i)
  PROVE  /\ Changes(i, NoCall) /\ call[i].outcome = "started" /\ call[i].kind = "start"
         /\ Aside /\ detached' = detached
         /\ Fitting(page') /\ ~page'.loading /\ page'.profile = page.profile
         /\ page'.case = page.case /\ page'.token = call[i].session
         /\ call[i].session \in Sessions
         /\ page'.timer = page.timer /\ page'.timing = page.timing
         /\ page'.timedOut = page.timedOut
<1>1. /\ page \in Pages /\ call \in [Calls -> CallRecords] /\ Carries(call[i])
      /\ call[i].outcome = "started"
  BY DEF CarryInv, PageTypeOK, OnStarted
<1>2. call[i].kind = "start" /\ call[i].session \in Sessions
  BY <1>1 DEF Carries, CallRecords
<1>3. PICK s, n : s = call[i].session /\ n = Cardinality(initial[s])
  OBVIOUS
<1>4. n \in 0 .. Cardinality(Candidates)
  <2>1. initial[s] \subseteq Candidates
    BY <1>2, <1>3 DEF IInv, TypeOK
  <2>2. n <= Cardinality(Candidates) /\ IsFiniteSet(initial[s])
    BY <1>3, <2>1, CandidatesAssumption, FS_Subset
  <2>3. n \in Nat /\ Cardinality(Candidates) \in Nat
    BY <1>3, <2>2, CandidatesAssumption, FS_CardinalityType
  <2> QED
    BY <2>2, <2>3
<1>5. page' = [Loaded EXCEPT !.token = s, !.count = n]
  BY <1>3 DEF OnStarted
<1>6. Fitting(Loaded) /\ Loaded \in Pages /\ ~Loaded.loading /\ Loaded.case = page.case
      /\ Loaded.profile = page.profile /\ Loaded.timer = page.timer
      /\ Loaded.timing = page.timing /\ Loaded.timedOut = page.timedOut
  BY LoadedFields DEF Fitting
<1>7. page' \in Pages
  BY <1>2, <1>3, <1>4, <1>5, <1>6 DEF Pages
<1>8. /\ Fitting(page') /\ ~page'.loading /\ page'.profile = page.profile
      /\ page'.case = page.case /\ page'.token = s
      /\ page'.timer = page.timer /\ page'.timing = page.timing
      /\ page'.timedOut = page.timedOut
  BY <1>5, <1>6, <1>7 DEF Pages, Fitting
<1>9. Changes(i, NoCall)
  BY <1>1, NoCallCarries, ChangedCall DEF OnStarted, Done
<1> QED
  BY <1>1, <1>2, <1>3, <1>8, <1>9 DEF OnStarted, Aside

LEMMA OnNarrowedEffect ==
  ASSUME CarryInv, NEW i \in Calls, OnNarrowed(i)
  PROVE  /\ Changes(i, NoCall) /\ call[i].outcome = "narrowed" /\ call[i].kind = "step"
         /\ Aside /\ detached' = detached /\ page' = NextStep(Loaded)
BY NoCallCarries, ChangedCall DEF CarryInv, PageTypeOK, Carries, OnNarrowed, Done, Aside

LEMMA OnResolvedEffect ==
  ASSUME CarryInv, NEW i \in Calls, OnResolved(i)
  PROVE  \E new \in CallRecords :
           /\ Changes(i, new) /\ Carries(new) /\ new.kind = "profile" /\ new.stage = "sent"
           /\ new.outcome = "none" /\ new.session = page.token
           /\ call[i].outcome = "resolved" /\ call[i].kind = "step"
           /\ Aside /\ detached' = detached
           /\ Fitting(page') /\ page'.loading = page.loading /\ page'.profile = page.profile
           /\ page'.case = page.case /\ page'.token = page.token /\ page'.timer = 0
           /\ page'.timing = NoSession /\ page'.timedOut = page.timedOut
<1>1. /\ page \in Pages /\ Fitting(page) /\ call \in [Calls -> CallRecords]
      /\ Carries(call[i]) /\ call[i].outcome = "resolved"
  BY PageChanges DEF CarryInv, PageTypeOK, OnResolved
<1>2. PICK new : new = [NoCall EXCEPT !.kind = "profile", !.session = page.token]
  OBVIOUS
<1>3. page.token \in Sessions \cup {NoSession} /\ 0 \in 0 .. StepTimeout
  BY <1>1, TimesAssumption DEF Pages
<1>4. new \in CallRecords
  BY <1>2, <1>3, NoCallCarries DEF CallRecords
<1>5. /\ new.kind = "profile" /\ new.stage = "sent" /\ new.outcome = "none"
      /\ new.session = page.token /\ Carries(new)
  BY <1>2 DEF NoCall, Carries
<1>6. Changes(i, new)
  BY <1>1, <1>2, <1>4, ChangedCall DEF OnResolved, LoadProfile
<1>7. page' = [page EXCEPT !.timer = 0, !.timing = NoSession]
  BY DEF OnResolved, LoadProfile
<1>8. page' \in Pages
  BY <1>1, <1>3, <1>7 DEF Pages
<1>9. /\ Fitting(page') /\ page'.loading = page.loading /\ page'.profile = page.profile
      /\ page'.case = page.case /\ page'.token = page.token /\ page'.timer = 0
      /\ page'.timing = NoSession /\ page'.timedOut = page.timedOut
  BY <1>1, <1>7, <1>8 DEF Pages, Fitting
<1> QED
  BY <1>1, <1>4, <1>5, <1>6, <1>9 DEF OnResolved, Carries, Aside

LEMMA OnProfileEffect ==
  ASSUME CarryInv, NEW i \in Calls, OnProfile(i)
  PROVE  /\ Changes(i, NoCall) /\ call[i].outcome = "shown" /\ call[i].kind = "profile"
         /\ Aside /\ detached' = detached
         /\ Fitting(page') /\ ~page'.loading /\ page'.profile = call[i].candidate
         /\ page'.case = page.case /\ page'.token = page.token /\ page'.timer = page.timer
         /\ page'.timing = page.timing /\ page'.timedOut = page.timedOut
<1>1. /\ call \in [Calls -> CallRecords] /\ Carries(call[i]) /\ call[i].outcome = "shown"
      /\ call[i] \in CallRecords
  BY DEF CarryInv, PageTypeOK, OnProfile
<1>2. PICK c : c = call[i].candidate
  OBVIOUS
<1>3. c \in Candidates \cup {NoCandidate} /\ call[i].kind = "profile"
  BY <1>1, <1>2 DEF CallRecords, Carries
<1>4. page' = [Loaded EXCEPT !.profile = c]
  BY <1>2 DEF OnProfile, Shown
<1>5. Fitting(Loaded) /\ Loaded \in Pages /\ ~Loaded.loading /\ Loaded.token = page.token
      /\ Loaded.case = page.case /\ Loaded.timer = page.timer
      /\ Loaded.timing = page.timing /\ Loaded.timedOut = page.timedOut
  BY LoadedFields DEF Fitting
<1>6. page' \in Pages
  BY <1>3, <1>4, <1>5 DEF Pages
<1>7. /\ Fitting(page') /\ ~page'.loading /\ page'.profile = c
      /\ page'.case = page.case /\ page'.token = page.token /\ page'.timer = page.timer
      /\ page'.timing = page.timing /\ page'.timedOut = page.timedOut
  BY <1>4, <1>5, <1>6 DEF Pages, Fitting
<1> QED
  BY <1>1, <1>2, <1>3, <1>7, NoCallCarries, ChangedCall DEF OnProfile, Done, Aside

-----------------------------------------------------------------------------
(* What the requests carry is an invariant. *)

\* It is enough to look at the new page and at the request that changed.
LEMMA CarryFrom ==
  ASSUME IInv, CarryInv, [Next]_vars, Fitting(page'),
         \/ call' = call
         \/ \E i \in Calls, new \in CallRecords :
              /\ Changes(i, new) /\ Carries(new)
              /\ new.session # NoSession => session'[new.session].status # "none",
         \A s \in {page'.token, page'.timing, page'.timedOut} :
           s # NoSession => session'[s].status # "none",
         detached' \in BOOLEAN, late' \subseteq Sessions, lost' \in 0 .. MaxLost
  PROVE  CarryInv'
<1>1. /\ \A s \in Sessions : session[s].status # "none" => session'[s].status # "none"
      /\ TimesFit'
  BY SessionsKept DEF CarryInv
<1>2. /\ call' \in [Calls -> CallRecords]
      /\ \A j \in Calls : (Known(call[j].session) /\ Carries(call[j]))'
  <2>1. CASE call' = call
    <3> SUFFICES ASSUME NEW j \in Calls PROVE (Known(call[j].session) /\ Carries(call[j]))'
      BY <2>1 DEF CarryInv, PageTypeOK
    <3>1. Known(call[j].session) /\ Carries(call[j]) /\ call[j].session \in Sessions \cup {NoSession}
      BY DEF CarryInv, PageTypeOK, CallRecords
    <3> QED
      BY <1>1, <2>1, <3>1 DEF Known, Carries
  <2>2. ASSUME NEW i \in Calls, NEW new \in CallRecords, Changes(i, new), Carries(new),
               new.session # NoSession => session'[new.session].status # "none"
        PROVE  call' \in [Calls -> CallRecords]
               /\ \A j \in Calls : (Known(call[j].session) /\ Carries(call[j]))'
    BY <1>1, <2>2, ChangedCarry DEF Changes
  <2> QED
    BY <2>1, <2>2
<1>3. PageFits'
  BY DEF PageFits, Fitting, Known
<1> QED
  BY <1>1, <1>2, <1>3 DEF CarryInv, PageTypeOK, Fitting

LEMMA ResetSearchEffect ==
  ASSUME CarryInv, ResetSearch
  PROVE  /\ page' = BlankPage /\ call' = call /\ Aside
         /\ detached' \in BOOLEAN
         /\ ~detached' => Free = Calls /\ ~detached
         /\ Fitting(BlankPage) /\ BlankPage.token = NoSession /\ BlankPage.case = NoCase
         /\ BlankPage.timer = 0 /\ BlankPage.timing = NoSession
         /\ BlankPage.timedOut = NoSession /\ BlankPage.profile = NoCandidate
         /\ ~BlankPage.loading
<1>1. Fitting(BlankPage)
  BY PageChanges
<1>2. /\ BlankPage.token = NoSession /\ BlankPage.case = NoCase
      /\ BlankPage.timer = 0 /\ BlankPage.timing = NoSession
      /\ BlankPage.timedOut = NoSession /\ BlankPage.profile = NoCandidate
      /\ ~BlankPage.loading
  BY DEF BlankPage
<1> QED
  BY <1>1, <1>2 DEF ResetSearch, Reset, Aside

LEMMA CarryNext ==
  ASSUME IInv, CarryInv, [PageNext]_pageVars
  PROVE  CarryInv'
<1>1. [Next]_vars
  BY PageStep
<1>2. /\ page \in Pages /\ detached \in BOOLEAN /\ late \subseteq Sessions
      /\ lost \in 0 .. MaxLost
      /\ \A i \in Calls : call[i].session \in Sessions \cup {NoSession}
      /\ page.token \in Sessions \cup {NoSession} /\ page.timing \in Sessions \cup {NoSession}
      /\ page.timedOut \in Sessions \cup {NoSession}
  BY DEF CarryInv, PageTypeOK, Pages, CallRecords
<1>3. /\ \A s \in {page.token, page.timing, page.timedOut} :
           s # NoSession => session'[s].status # "none"
      /\ \A i \in Calls :
           call[i].session # NoSession => session'[call[i].session].status # "none"
  BY <1>1, <1>2, SessionsKept DEF CarryInv, PageFits, Known
<1>4. CASE UNCHANGED pageVars
  BY <1>1, <1>2, <1>3, <1>4, PageChanges, CarryFrom DEF pageVars
<1>5. CASE StartSearch
  BY <1>1, <1>2, <1>3, <1>5, StartSearchEffect, CarryFrom DEF Aside, Free
<1>6. CASE ResetSearch
  BY <1>1, <1>2, <1>3, <1>6, ResetSearchEffect, CarryFrom DEF Aside
<1>7. ASSUME NEW ct \in Cases, ChooseCase(ct) PROVE CarryInv'
  BY <1>1, <1>2, <1>3, <1>7, PageChanges, CarryFrom DEF ChooseCase
<1>8. ASSUME NEW v \in Values, SubmitStep(v) PROVE CarryInv'
  BY <1>1, <1>2, <1>3, <1>8, SubmitStepEffect, CarryFrom DEF Aside, Free
<1>9. ASSUME NEW i \in Calls, ServeStart(i) PROVE CarryInv'
  BY <1>1, <1>2, <1>3, <1>9, ServeStartEffect, PageChanges, CarryFrom DEF Starts
<1>10. ASSUME NEW i \in Calls, NEW w \in Workers, ServeRead(i, w) PROVE CarryInv'
  BY <1>1, <1>2, <1>3, <1>10, ServeReadEffect, PageChanges, CarryFrom
<1>11. ASSUME NEW i \in Calls, NEW w \in Workers, ServeStep(i, w) PROVE CarryInv'
  BY <1>1, <1>2, <1>3, <1>11, ServeStepEffect, PageChanges, CarryFrom
<1>12. ASSUME NEW i \in Calls, ServeProfile(i) PROVE CarryInv'
  BY <1>1, <1>2, <1>3, <1>12, ServeProfileEffect, PageChanges, CarryFrom
<1>13. ASSUME NEW i \in Calls, Lose(i) PROVE CarryInv'
  BY <1>1, <1>2, <1>3, <1>13, LoseEffect, PageChanges, CarryFrom
<1>14. ASSUME NEW i \in Calls, OnError(i) PROVE CarryInv'
  BY <1>1, <1>2, <1>3, <1>14, OnErrorEffect, LoadedFields, NoCallCarries, CarryFrom DEF Aside, NoCall
<1>15. ASSUME NEW i \in Calls, OnStarted(i) PROVE CarryInv'
  BY <1>1, <1>2, <1>3, <1>15, OnStartedEffect, NoCallCarries, CarryFrom DEF Aside, NoCall
<1>16. ASSUME NEW i \in Calls, OnNarrowed(i) PROVE CarryInv'
  BY <1>1, <1>2, <1>3, <1>16, OnNarrowedEffect, NextStepFits, NoCallCarries, CarryFrom
     DEF Aside, NoCall
<1>17. ASSUME NEW i \in Calls, OnResolved(i) PROVE CarryInv'
  BY <1>1, <1>2, <1>3, <1>17, OnResolvedEffect, CarryFrom DEF Aside
<1>18. ASSUME NEW i \in Calls, OnProfile(i) PROVE CarryInv'
  BY <1>1, <1>2, <1>3, <1>18, OnProfileEffect, NoCallCarries, CarryFrom DEF Aside, NoCall
<1>19. CASE PageTick
  <2>1. page' = CountedDown(page) /\ UNCHANGED <<call, detached, lost>> /\ late' \subseteq Sessions
    BY <1>2, <1>19 DEF PageTick
  <2> QED
    BY <1>1, <1>2, <1>3, <2>1, CountedDownFits, CarryFrom
<1> QED
  BY <1>4, <1>5, <1>6, <1>7, <1>8, <1>9, <1>10, <1>11, <1>12, <1>13, <1>14, <1>15, <1>16,
     <1>17, <1>18, <1>19 DEF PageNext, Visitor, Server, Arrival

-----------------------------------------------------------------------------
(* One request at a time, until the visitor starts over. *)

\* No worker is busy but with the request of a step.
LEMMA NoneBusy ==
  ASSUME SoleCall, ~detached, IInv,
         \/ Free = Calls
         \/ \E i \in Calls : call[i].kind # "none"
                             /\ (call[i].kind # "step" \/ call[i].stage # "served")
  PROVE  \A w \in Workers : pc[w] = "idle"
BY DEF SoleCall, Free

\* One request is under way, takes its turn and makes room for another.
LEMMA SoleFrom ==
  ASSUME SoleCall, ~detached, NEW i \in Calls, NEW new, Changes(i, new),
         call[i].kind # "none" \/ Free = Calls,
         new.kind = "none" \/ page'.loading,
         \A w \in Workers : pc'[w] = "idle"
  PROVE  SoleCall'
<1>1. \A j \in Calls : j # i => call'[j].kind = "none"
  BY DEF SoleCall, Free, Changes
<1>2. \A j, k \in Calls \ Free' : j = k
  BY <1>1 DEF Free
<1>3. ~page'.loading => Free' = Calls
  BY <1>1 DEF Free, Changes
<1> QED
  BY <1>2, <1>3 DEF SoleCall

LEMMA InitSole == PageInit => SoleCall
BY DEF PageInit, Init, SoleCall, Free, NoCall

LEMMA SoleNext ==
  ASSUME IInv, CarryInv, SoleCall, [PageNext]_pageVars
  PROVE  SoleCall'
<1> SUFFICES ASSUME ~detached' PROVE SoleCall'
  BY DEF SoleCall
<1>1. CASE UNCHANGED pageVars
  BY <1>1 DEF pageVars, vars, SoleCall, Free
<1>2. pc \in [Workers -> {"idle", "deciding", "expiring"}]
  BY DEF IInv, TypeOK
<1>3. CASE StartSearch
  BY <1>2, <1>3, StartSearchEffect, NoneBusy, SoleFrom DEF Aside, vars, SoleCall, Free
<1>4. CASE ResetSearch
  <2>1. ~detached /\ Free = Calls /\ UNCHANGED <<call, pc, token, session>>
    BY <1>4, ResetSearchEffect DEF Aside, vars
  <2>2. \A w \in Workers : pc'[w] = "idle"
    BY <2>1, NoneBusy
  <2>3. Free' = Calls
    BY <2>1 DEF Free
  <2> QED
    BY <2>2, <2>3 DEF SoleCall
<1>5. ASSUME NEW ct \in Cases, ChooseCase(ct) PROVE SoleCall'
  BY <1>5, PageChanges DEF ChooseCase, vars, SoleCall, Free
<1>6. ASSUME NEW v \in Values, SubmitStep(v) PROVE SoleCall'
  BY <1>2, <1>6, SubmitStepEffect, NoneBusy, SoleFrom DEF Aside, vars, SoleCall, Free
<1>7. ASSUME NEW i \in Calls, ServeStart(i) \/ ServeProfile(i) PROVE SoleCall'
  <2>1. PICK new : /\ Changes(i, new) /\ call[i].kind \in {"start", "profile"}
                   /\ new.kind = call[i].kind /\ UNCHANGED <<page, detached, pc>>
    BY <1>7, ServeStartEffect, ServeProfileEffect DEF Starts, vars
  <2>2. page'.loading /\ \A w \in Workers : pc'[w] = "idle"
    BY <2>1, NoneBusy DEF SoleCall, Free
  <2> QED
    BY <2>1, <2>2, SoleFrom
<1>8. ASSUME NEW i \in Calls, NEW w \in Workers, ServeRead(i, w) PROVE SoleCall'
  <2>1. PICK new \in CallRecords :
           /\ Changes(i, new) /\ new.kind = "step"
           /\ new.session = call[i].session /\ call[i].session \in Sessions
           /\ call[i].kind = "step" /\ call[i].stage = "sent"
           /\ UNCHANGED <<page, detached, late, lost, session, now>>
           /\ \/ /\ new.stage = "served" /\ pc[w] = "idle"
                 /\ session[new.session].status = "active"
                 /\ token'[w] = new.session
                 /\ \A x \in Workers : x # w => pc'[x] = pc[x] /\ token'[x] = token[x]
              \/ UNCHANGED <<pc, token>>
    BY <1>8, ServeReadEffect
  <2>2. page'.loading /\ \A x \in Workers : pc[x] = "idle"
    BY <2>1, NoneBusy DEF SoleCall, Free
  <2>3. CASE UNCHANGED <<pc, token>>
    BY <2>1, <2>2, <2>3, SoleFrom
  <2>4. CASE /\ new.stage = "served" /\ session[new.session].status = "active"
             /\ token'[w] = new.session
             /\ \A x \in Workers : x # w => pc'[x] = pc[x] /\ token'[x] = token[x]
    <3>1. \A x \in Workers : pc'[x] # "idle" => x = w
      BY <2>2, <2>4
    <3>2. \A j \in Calls : j # i => call'[j].kind = "none"
      BY <2>1 DEF SoleCall, Free, Changes
    <3>3. \A j, k \in Calls \ Free' : j = k
      BY <3>2 DEF Free
    <3>4. \A x \in Workers : pc'[x] # "idle" =>
            /\ session'[token'[x]].status = "active"
            /\ call'[i].kind = "step" /\ call'[i].stage = "served"
            /\ call'[i].session = token'[x]
      BY <2>1, <2>4, <3>1 DEF Changes
    <3> QED
      BY <2>2, <3>1, <3>3, <3>4 DEF SoleCall
  <2> QED
    BY <2>1, <2>3, <2>4
<1>9. ASSUME NEW i \in Calls, NEW w \in Workers, ServeStep(i, w) PROVE SoleCall'
  <2>1. PICK new : /\ Changes(i, new) /\ new.kind = "step" /\ call[i].kind = "step"
                   /\ UNCHANGED <<page, detached>> /\ Ends(w)
    BY <1>9, ServeStepEffect
  <2>2. page'.loading
    BY <2>1 DEF SoleCall, Free
  <2>3. \A x \in Workers : pc'[x] = "idle"
    BY <2>1 DEF SoleCall, Ends
  <2> QED
    BY <2>1, <2>2, <2>3, SoleFrom
<1>10. ASSUME NEW i \in Calls, Lose(i) PROVE SoleCall'
  <2>1. PICK new : /\ Changes(i, new) /\ call[i].kind # "none" /\ call[i].stage # "served"
                   /\ UNCHANGED <<page, detached, pc>>
    BY <1>10, LoseEffect DEF vars
  <2>2. page'.loading /\ \A w \in Workers : pc'[w] = "idle"
    BY <2>1, NoneBusy DEF SoleCall, Free
  <2> QED
    BY <2>1, <2>2, SoleFrom
<1>11. ASSUME NEW i \in Calls, Arrival(i), AtRest PROVE SoleCall'
  <2>1. PICK new : /\ Changes(i, new) /\ UNCHANGED <<detached, pc>>
                   /\ new.kind = "none" \/ page'.loading = page.loading
    <3>1. CASE OnResolved(i)
      BY <3>1, OnResolvedEffect DEF Aside, vars
    <3>2. CASE ~OnResolved(i)
      <4>1. Changes(i, NoCall) /\ UNCHANGED <<detached, pc>>
        BY <1>11, <3>2, OnErrorEffect, OnStartedEffect, OnNarrowedEffect, OnProfileEffect
           DEF Arrival, Aside, vars
      <4> QED
        BY <4>1 DEF NoCall
    <3> QED
      BY <3>1, <3>2
  <2>2. call[i].kind # "none"
    BY <1>11, OnErrorEffect, OnStartedEffect, OnNarrowedEffect, OnResolvedEffect,
       OnProfileEffect DEF Arrival, CarryInv, Carries
  <2> QED
    BY <1>11, <2>1, <2>2, SoleFrom DEF AtRest, SoleCall, Free
<1>12. CASE PageTick
  BY <1>12, CountedDownFits DEF PageTick, Tick, SoleCall, Free
<1> QED
  BY <1>1, <1>3, <1>4, <1>5, <1>6, <1>7, <1>8, <1>9, <1>10, <1>11, <1>12
     DEF PageNext, Visitor, Server

-----------------------------------------------------------------------------
(* A match is for good, and the page shows it. *)

LEMMA NextSessions ==
  ASSUME IInv, [Next]_vars
  PROVE  \/ session' = session
         \/ \E s \in Sessions : Starts(s)
         \/ \E w \in Workers : Ends(w)
<1>1. ASSUME NEW s \in Sessions, NEW ip \in Ips, NEW ids \in SUBSET Candidates,
             StartAnonymous(s, ip, ids) \/ StartRecruiter(s, ip, ids)
      PROVE  Starts(s)
  BY <1>1, StartStarts
<1>2. ASSUME NEW w \in Workers, Advance(w), session' # session PROVE Ends(w)
  BY <1>2, RejectEnds, ExpireEnds, AcceptedEnds DEF Advance, Read, ReadInvalid
<1> QED
  BY <1>1, <1>2 DEF Next, Reveal, Tick, vars

LEMMA MatchesKept ==
  ASSUME IInv, CarryInv, SoleCall, MatchInv, ~detached, [PageNext]_pageVars
  PROVE  \A s \in Sessions :
           /\ session'[s].matched # NoCandidate => session'[s].status = "resolved"
           /\ session[s].matched # NoCandidate => session'[s].matched = session[s].matched
<1>1. \A s \in Sessions : session[s].matched # NoCandidate => session[s].status = "resolved"
  BY DEF MatchInv
<1>2. ASSUME NEW w \in Workers, Ends(w)
      PROVE  session[token[w]].matched = NoCandidate
  BY <1>1, <1>2 DEF Ends, SoleCall
<1>3. ASSUME NEW w \in Workers, Ends(w), NEW s \in Sessions
      PROVE  /\ session'[s].matched # NoCandidate => session'[s].status = "resolved"
             /\ session[s].matched # NoCandidate => session'[s].matched = session[s].matched
  BY <1>1, <1>2, <1>3 DEF Ends
<1>4. ASSUME NEW t \in Sessions, Starts(t), NEW s \in Sessions
      PROVE  /\ session'[s].matched # NoCandidate => session'[s].status = "resolved"
             /\ session[s].matched # NoCandidate => session'[s].matched = session[s].matched
  BY <1>1, <1>4 DEF Starts
<1> QED
  BY <1>1, <1>3, <1>4, PageStep, NextSessions

\* Of a request with a match, or on its way to one.
MatchFits(c, p) ==
  /\ c.kind = "start" => p.profile = NoCandidate
  /\ c.kind = "profile" => c.session = p.token
  /\ c.outcome = "shown" =>
       c.candidate # NoCandidate /\ session'[c.session].matched = c.candidate

\* It is enough to look at the profile and at the request that changed.
LEMMA MatchFrom ==
  ASSUME IInv, CarryInv, SoleCall, MatchInv, ~detached, [PageNext]_pageVars,
         page'.profile # NoCandidate =>
           page'.token # NoSession /\ session'[page'.token].matched = page'.profile,
         NEW i \in Calls, NEW new, Changes(i, new),
         call[i].kind # "none" \/ Free = Calls,
         MatchFits(new, page')
  PROVE  MatchInv'
<1>1. ASSUME NEW j \in Calls, j # i
      PROVE  call'[j].kind = "none" /\ call'[j].outcome # "shown"
  BY <1>1 DEF SoleCall, Free, Changes, CarryInv, Carries
<1>2. ASSUME NEW j \in Calls
      PROVE  MatchFits(call'[j], page')
  BY <1>1, <1>2 DEF Changes, MatchFits
<1> QED
  BY <1>2, MatchesKept DEF MatchInv, MatchFits

LEMMA InitMatch == PageInit => MatchInv
BY DEF PageInit, Init, MatchInv, NoCall, NoRow, BlankPage

LEMMA MatchNext ==
  ASSUME IInv, CarryInv, SoleCall, MatchInv, [PageNext]_pageVars
  PROVE  MatchInv'
<1> SUFFICES ASSUME ~detached' PROVE MatchInv'
  BY DEF MatchInv
<1>1. ~detached
  BY DEF PageNext, Visitor, StartSearch, ResetSearch, ChooseCase, SubmitStep, Server,
     ServeStart, ServeRead, ServeStep, ServeProfile, Lose, Arrival, OnError, OnStarted,
     OnNarrowed, OnResolved, OnProfile, PageTick, pageVars
<1>2. \A s \in Sessions :
        /\ session'[s].matched # NoCandidate => session'[s].status = "resolved"
        /\ session[s].matched # NoCandidate => session'[s].matched = session[s].matched
  BY <1>1, MatchesKept
<1>3. page.token \in Sessions \cup {NoSession}
  BY DEF CarryInv, PageTypeOK, Pages
<1>4. page.profile # NoCandidate =>
        page.token # NoSession /\ session'[page.token].matched = page.profile
  BY <1>1, <1>2, <1>3 DEF MatchInv
<1>5. ASSUME page'.profile = page.profile, page'.token = page.token, call' = call,
             session' = session
      PROVE  MatchInv'
  BY <1>1, <1>5 DEF MatchInv
<1>6. CASE UNCHANGED pageVars
  BY <1>5, <1>6 DEF pageVars, vars
<1>7. CASE StartSearch
  BY <1>1, <1>7, StartSearchEffect, MatchFrom DEF MatchFits, SoleCall, Free
<1>8. CASE ResetSearch
  <2>1. /\ Free = Calls /\ call' = call /\ page'.profile = NoCandidate
    BY <1>8, ResetSearchEffect
  <2>2. \A j \in Calls : call'[j].kind = "none" /\ call'[j].outcome # "shown"
    BY <2>1 DEF Free, CarryInv, Carries
  <2> QED
    BY <1>2, <2>1, <2>2 DEF MatchInv
<1>9. ASSUME NEW ct \in Cases, ChooseCase(ct) PROVE MatchInv'
  BY <1>5, <1>9, PageChanges DEF ChooseCase, vars
<1>10. ASSUME NEW v \in Values, SubmitStep(v) PROVE MatchInv'
  <2>1. PICK i \in Free, new \in CallRecords :
          /\ Changes(i, new) /\ new.kind = "step" /\ new.outcome = "none"
          /\ page'.profile = page.profile /\ page'.token = page.token /\ ~page.loading
    BY <1>10, SubmitStepEffect
  <2> QED
    BY <1>1, <1>4, <2>1, MatchFrom DEF MatchFits, SoleCall, Free
<1>11. ASSUME NEW i \in Calls, ServeStart(i) PROVE MatchInv'
  <2>1. PICK new : /\ Changes(i, new) /\ new.kind = "start" /\ call[i].kind = "start"
                   /\ new.outcome # "shown" /\ page' = page
    BY <1>11, ServeStartEffect
  <2>2. MatchFits(new, page')
    BY <1>1, <2>1 DEF MatchFits, MatchInv
  <2> QED
    BY <1>1, <1>4, <2>1, <2>2, MatchFrom
<1>12. ASSUME NEW i \in Calls, NEW w \in Workers, ServeRead(i, w) \/ ServeStep(i, w)
       PROVE  MatchInv'
  <2>1. PICK new : /\ Changes(i, new) /\ new.kind = "step" /\ call[i].kind = "step"
                   /\ Carries(new) /\ page' = page
    BY <1>12, ServeReadEffect, ServeStepEffect
  <2>2. MatchFits(new, page')
    BY <2>1 DEF MatchFits, Carries
  <2> QED
    BY <1>1, <1>4, <2>1, <2>2, MatchFrom
<1>13. ASSUME NEW i \in Calls, ServeProfile(i) PROVE MatchInv'
  <2>1. PICK new : /\ Changes(i, new) /\ new.kind = "profile" /\ call[i].kind = "profile"
                   /\ new.session = call[i].session /\ page' = page /\ session' = session
                   /\ \/ new.outcome = "error"
                      \/ /\ new.candidate = session[new.session].matched
                         /\ new.candidate # NoCandidate
    BY <1>13, ServeProfileEffect
  <2>2. MatchFits(new, page')
    BY <1>1, <2>1 DEF MatchFits, MatchInv
  <2> QED
    BY <1>1, <1>4, <2>1, <2>2, MatchFrom
<1>14. ASSUME NEW i \in Calls, Lose(i) PROVE MatchInv'
  <2>1. PICK new : /\ Changes(i, new) /\ new.kind = call[i].kind /\ new.outcome = "error"
                   /\ new.session = call[i].session /\ page' = page /\ call[i].kind # "none"
    BY <1>14, LoseEffect
  <2>2. MatchFits(new, page')
    BY <1>1, <2>1 DEF MatchFits, MatchInv
  <2> QED
    BY <1>1, <1>4, <2>1, <2>2, MatchFrom
<1>15. MatchFits(NoCall, page')
  BY DEF MatchFits, NoCall
<1>16. ASSUME NEW i \in Calls, OnError(i) PROVE MatchInv'
  BY <1>1, <1>4, <1>15, <1>16, OnErrorEffect, LoadedFields, MatchFrom DEF CarryInv, Carries
<1>17. ASSUME NEW i \in Calls, OnStarted(i) PROVE MatchInv'
  <2>1. page'.profile = NoCandidate /\ Changes(i, NoCall) /\ call[i].kind = "start"
    BY <1>1, <1>17, OnStartedEffect DEF MatchInv
  <2> QED
    BY <1>1, <1>15, <2>1, MatchFrom
<1>18. ASSUME NEW i \in Calls, OnNarrowed(i) PROVE MatchInv'
  BY <1>1, <1>4, <1>15, <1>18, OnNarrowedEffect, NextStepFits, MatchFrom
<1>19. ASSUME NEW i \in Calls, OnResolved(i) PROVE MatchInv'
  <2>1. PICK new : /\ Changes(i, new) /\ new.kind = "profile" /\ new.outcome = "none"
                   /\ new.session = page.token /\ page'.token = page.token
                   /\ page'.profile = page.profile /\ call[i].kind = "step"
    BY <1>19, OnResolvedEffect
  <2>2. MatchFits(new, page')
    BY <2>1 DEF MatchFits
  <2> QED
    BY <1>1, <1>4, <2>1, <2>2, MatchFrom
<1>20. ASSUME NEW i \in Calls, OnProfile(i) PROVE MatchInv'
  <2>1. /\ Changes(i, NoCall) /\ call[i].kind = "profile" /\ call[i].outcome = "shown"
        /\ page'.profile = call[i].candidate /\ page'.token = page.token /\ session' = session
    BY <1>20, OnProfileEffect DEF Aside, vars
  <2>2. /\ call[i].session = page.token /\ call[i].session # NoSession
        /\ session[call[i].session].matched = call[i].candidate
    BY <1>1, <2>1 DEF MatchInv, CarryInv, Carries
  <2> QED
    BY <1>1, <1>15, <2>1, <2>2, MatchFrom
<1>21. CASE PageTick
  BY <1>5, <1>21, CountedDownFits DEF PageTick, Tick
<1> QED
  BY <1>6, <1>7, <1>8, <1>9, <1>10, <1>11, <1>12, <1>13, <1>14, <1>16, <1>17, <1>18, <1>19,
     <1>20, <1>21 DEF PageNext, Visitor, Server, Arrival

-----------------------------------------------------------------------------
(* The timer of the page runs out after that of the session. *)

\* A page whose timer is set anew, or off, and which declares nothing out of time.
LEMMA NewTimer ==
  ASSUME CarryInv', page'.timedOut = NoSession,
         page'.timer \in {0, StepTimeout},
         page'.case = NoCase /\ page'.timer > 0 => \A i \in Calls : call'[i].kind # "step"
  PROVE  TimerInv'
<1>1. ASSUME NEW s \in Sessions PROVE TimerFits(s)' /\ StaysOut(s)'
  <2>1. page'.timer = 0 \/ session'[s].stepExpires <= now' + page'.timer
    BY DEF CarryInv, TimesFit
  <2>2. TimerFits(s)'
    BY <2>1 DEF TimerFits
  <2>3. StaysOut(s)'
    BY NullsAssumption DEF StaysOut
  <2> QED
    BY <2>2, <2>3
<1> QED
  BY <1>1 DEF TimerInv

\* The timer of the page is left alone, and so are the sessions; no step is sent
\* without a case, and none for a session that is out of time.
LEMMA SameTimer ==
  ASSUME TimerInv, lost = 0, ~detached,
         page'.timer = page.timer, page'.timing = page.timing,
         page'.timedOut = page.timedOut, UNCHANGED <<session, now, late>>,
         page'.case = NoCase \/ page'.case = page.case,
         page'.case = NoCase /\ page.case # NoCase =>
           \A j \in Calls : call'[j].kind # "step",
         \A j \in Calls :
           /\ call[j].outcome = "narrowed" =>
                call'[j].outcome = "narrowed" /\ call'[j].session = call[j].session
           /\ call'[j].kind = "step" =>
                \/ call[j].kind = "step" /\ call'[j].session = call[j].session
                \/ page.case # NoCase
  PROVE  TimerInv'
<1>1. page'.timedOut # NoSession => page'.case = NoCase /\ page.case = NoCase
  BY DEF TimerInv
<1>2. page'.case = NoCase /\ page'.timer > 0 => \A j \in Calls : call'[j].kind # "step"
  BY DEF TimerInv
<1>3. ASSUME NEW s \in Sessions PROVE TimerFits(s)'
  <2>1. TimerFits(s)
    BY DEF TimerInv
  <2>2. (\A j \in Calls : call'[j].outcome = "narrowed" => call'[j].session # s)
          => \A j \in Calls : call[j].outcome = "narrowed" => call[j].session # s
    OBVIOUS
  <2> QED
    BY <2>1, <2>2 DEF TimerFits
<1>4. ASSUME NEW s \in Sessions PROVE StaysOut(s)'
  <2>1. StaysOut(s)
    BY DEF TimerInv
  <2>2. page'.timedOut = s => page.case = NoCase
    BY <1>1, NullsAssumption
  <2>3. page.case = NoCase /\ InFlight(s)' => InFlight(s)
    BY DEF InFlight
  <2>4. Expired(session[s])' <=> Expired(session[s])
    BY DEF Expired
  <2> QED
    BY <2>1, <2>2, <2>3, <2>4 DEF StaysOut
<1> QED
  BY <1>1, <1>2, <1>3, <1>4 DEF TimerInv

LEMMA InitTimer == PageInit => TimerInv
BY NullsAssumption DEF PageInit, TimerInv, TimerFits, StaysOut, BlankPage, NoCall

\* A start makes a session that the page has not timed.
LEMMA StartTimer ==
  ASSUME IInv, CarryInv, TimerInv, lost = 0, ~detached, NEW i \in Calls, ServeStart(i)
  PROVE  TimerInv'
<1>1. PICK new : /\ Changes(i, new) /\ new.kind = "start" /\ call[i].kind = "start"
                 /\ new.outcome # "narrowed" /\ UNCHANGED <<page, detached, late, lost, now>>
                 /\ \/ UNCHANGED vars
                    \/ new.session \in Sessions /\ Starts(new.session)
  BY ServeStartEffect DEF Starts, vars
<1>2. \A j \in Calls :
        /\ call'[j].kind = "step" <=> call[j].kind = "step"
        /\ call'[j].outcome = "narrowed" <=> call[j].outcome = "narrowed"
        /\ call[j].kind = "step" => call'[j].session = call[j].session
  BY <1>1 DEF Changes, CarryInv, Carries
<1>3. CASE UNCHANGED vars
  BY <1>1, <1>2, <1>3, SameTimer DEF vars, CarryInv, Carries
<1>4. CASE new.session \in Sessions /\ Starts(new.session)
  <2>1. ASSUME NEW s \in Sessions, s = page.timing \/ s = page.timedOut
        PROVE  session'[s] = session[s]
    BY <1>4, <2>1, NullsAssumption DEF Starts, CarryInv, PageFits, Known
  <2>2. ASSUME NEW s \in Sessions PROVE TimerFits(s)'
    <3>1. TimerFits(s)
      BY DEF TimerInv
    <3>2. (\A j \in Calls : call'[j].outcome = "narrowed" => call'[j].session # s)
            => \A j \in Calls : call[j].outcome = "narrowed" => call[j].session # s
      BY <1>2 DEF CarryInv, Carries
    <3> QED
      BY <1>1, <2>1, <3>1, <3>2 DEF TimerFits
  <2>3. ASSUME NEW s \in Sessions PROVE StaysOut(s)'
    BY <1>1, <1>2, <2>1, <2>3 DEF TimerInv, StaysOut, InFlight, Expired
  <2> QED
    BY <1>1, <1>2, <2>2, <2>3 DEF TimerInv
<1> QED
  BY <1>1, <1>3, <1>4

\* A step that is served ends its session, or is answered that it is renewed.
LEMMA StepTimer ==
  ASSUME IInv, CarryInv, SoleCall, TimerInv, lost = 0, ~detached,
         NEW i \in Calls, NEW w \in Workers, ServeStep(i, w)
  PROVE  TimerInv'
<1>1. PICK new \in CallRecords :
         /\ Changes(i, new) /\ new.kind = "step" /\ new.session = call[i].session
         /\ call[i].kind = "step" /\ call[i].stage = "served"
         /\ UNCHANGED <<page, detached, late, lost>> /\ Ends(w)
         /\ \/ session' = session /\ new.outcome = "error"
            \/ session'[token[w]].status \in {"expired", "failed", "resolved"}
            \/ new.outcome = "narrowed"
  BY ServeStepEffect
<1>2. token[w] \in Sessions /\ call[i].session = token[w] /\ now' = now
      /\ \A s \in Sessions : s # token[w] => session'[s] = session[s]
  BY <1>1 DEF Ends, SoleCall, Free
<1>3. call[i].outcome # "narrowed"
  BY <1>1 DEF CarryInv, Carries
<1>4. \A j \in Calls :
        /\ call'[j].kind = "step" <=> call[j].kind = "step"
        /\ call'[j].session = call[j].session
        /\ call[j].outcome = "narrowed" => call'[j].outcome = "narrowed"
  BY <1>1, <1>3 DEF Changes
<1>5. ASSUME NEW s \in Sessions PROVE TimerFits(s)'
  <2>1. TimerFits(s)
    BY DEF TimerInv
  <2>2. (\A j \in Calls : call'[j].outcome = "narrowed" => call'[j].session # s)
          => \A j \in Calls : call[j].outcome = "narrowed" => call[j].session # s
    BY <1>4
  <2>3. CASE session'[s] = session[s]
    BY <1>1, <1>2, <2>1, <2>2, <2>3 DEF TimerFits
  <2>4. CASE s = token[w] /\ session'[s] # session[s]
    <3>1. \/ session'[s].status # "active"
          \/ call'[i].outcome = "narrowed" /\ call'[i].session = s
      BY <1>1, <1>2, <2>4 DEF Changes
    <3> QED
      BY <3>1 DEF TimerFits
  <2> QED
    BY <1>2, <2>3, <2>4
<1>6. ASSUME NEW s \in Sessions PROVE StaysOut(s)'
  <2>1. StaysOut(s)
    BY DEF TimerInv
  <2>2. page'.timedOut = s /\ s \notin late' => s # token[w]
    BY <1>1, <1>2, <2>1 DEF StaysOut, InFlight
  <2> QED
    BY <1>1, <1>2, <1>4, <2>1, <2>2 DEF StaysOut, InFlight, Expired
<1> QED
  BY <1>1, <1>4, <1>5, <1>6 DEF TimerInv

\* As time passes, the timer of the page runs down with that of the session.
LEMMA TickTimer ==
  ASSUME IInv, CarryInv, TimerInv, lost = 0, ~detached, PageTick
  PROVE  TimerInv'
<1>1. /\ UNCHANGED <<call, detached, lost, session>> /\ now' = now + 1
      /\ page' = CountedDown(page)
      /\ late' = late \cup {s \in Sessions : page.timer = 1 /\ page.timing = s /\ InFlight(s)}
  BY DEF PageTick, Tick
<1>2. /\ now \in Int /\ page.timer \in Int /\ page.timer >= 0
      /\ \A s \in Sessions : session[s].stepExpires \in Int
  BY TimesAssumption DEF IInv, TypeOK, Rows, CarryInv, PageTypeOK, Pages
<1>3. PICK t : t = page'.timer
  OBVIOUS
<1>4. \/ page.timer = 0 /\ page' = page
      \/ /\ page.timer > 1 /\ t = page.timer - 1 /\ page'.timing = page.timing
         /\ page'.timedOut = page.timedOut /\ page'.case = page.case
      \/ /\ page.timer = 1 /\ t = 0 /\ page'.timing = NoSession
         /\ page'.timedOut = page.timing /\ page'.case = NoCase
  BY <1>1, <1>3, CountedDownFits
<1>5. ASSUME NEW s \in Sessions PROVE TimerFits(s)'
  BY <1>1, <1>2, <1>3, <1>4 DEF TimerInv, TimerFits
<1>6. ASSUME NEW s \in Sessions, Expired(session[s]) PROVE Expired(session[s])'
  BY <1>1, <1>2, <1>6 DEF Expired
<1>7. ASSUME NEW s \in Sessions PROVE StaysOut(s)'
  <2>1. StaysOut(s) /\ TimerFits(s)
    BY DEF TimerInv
  <2>2. InFlight(s)' <=> InFlight(s)
    BY <1>1 DEF InFlight
  <2>3. CASE page'.timedOut = page.timedOut
    BY <1>1, <1>6, <2>1, <2>2, <2>3 DEF StaysOut
  <2>4. CASE page.timer = 1 /\ page'.timedOut = page.timing
    <3> SUFFICES ASSUME page.timing = s, s \notin late'
                 PROVE  ~InFlight(s) /\ (session[s].status # "active" \/ Expired(session[s])')
      BY <1>1, <2>2, <2>4 DEF StaysOut
    <3>1. ~InFlight(s)
      BY <1>1, <2>4
    <3>2. \A i \in Calls : call[i].outcome = "narrowed" => call[i].session # s
      BY <3>1 DEF InFlight, CarryInv, Carries
    <3>3. session[s].status = "active" => session[s].stepExpires <= now + 1
      BY <2>1, <2>4, <3>2 DEF TimerFits
    <3> QED
      BY <1>1, <3>1, <3>3 DEF Expired
  <2> QED
    BY <1>4, <2>3, <2>4
<1>8. page'.timedOut # NoSession => page'.case = NoCase
  BY <1>4 DEF TimerInv
<1>9. page'.case = NoCase /\ page'.timer > 0 => \A i \in Calls : call'[i].kind # "step"
  BY <1>1, <1>2, <1>3, <1>4 DEF TimerInv
<1> QED
  BY <1>5, <1>7, <1>8, <1>9 DEF TimerInv

LEMMA TimerNext ==
  ASSUME IInv, CarryInv, SoleCall, TimerInv, [PageNext]_pageVars
  PROVE  TimerInv'
<1> SUFFICES ASSUME (lost = 0 /\ ~detached)' PROVE TimerInv'
  BY DEF TimerInv
<1>1. lost = 0 /\ ~detached
  <2>1. lost' = lost \/ \E i \in Calls : Lose(i)
    BY DEF PageNext, Visitor, StartSearch, ResetSearch, ChooseCase,
       SubmitStep, Server, ServeStart, ServeRead, ServeStep, ServeProfile, Arrival,
       OnError, OnStarted, OnNarrowed, OnResolved, OnProfile, PageTick, pageVars
  <2>2. detached => detached'
    BY DEF PageNext, Visitor, StartSearch, ResetSearch, ChooseCase,
       SubmitStep, Server, ServeStart, ServeRead, ServeStep, ServeProfile, Lose, Arrival,
       OnError, OnStarted, OnNarrowed, OnResolved, OnProfile, PageTick, pageVars
  <2>3. lost \in Nat
    BY PageAssumption DEF CarryInv, PageTypeOK
  <2> QED
    BY <2>1, <2>2, <2>3 DEF Lose
<1>2. CarryInv'
  BY CarryNext
<1>3. \A i \in Calls : call[i].kind \notin {"none", "start", "profile"} <=> call[i].kind = "step"
  BY DEF CarryInv, PageTypeOK, CallRecords
<1>4. \A i \in Calls : call[i].outcome = "narrowed" => call[i].kind = "step"
  BY DEF CarryInv, Carries
<1>5. CASE UNCHANGED pageVars
  BY <1>1, <1>5, SameTimer DEF pageVars, vars
<1>6. CASE StartSearch
  <2>1. PICK i \in Free, new \in CallRecords :
          /\ Changes(i, new) /\ new.kind = "start" /\ ~page.loading
          /\ page'.case = NoCase /\ page'.timer = page.timer
          /\ page'.timing = page.timing /\ page'.timedOut = page.timedOut
          /\ UNCHANGED <<session, now, late>>
    BY <1>6, StartSearchEffect DEF Aside, vars
  <2>2. \A j \in Calls : call[j].kind = "none" /\ call'[j].kind # "step"
    BY <1>1, <2>1 DEF SoleCall, Free, Changes
  <2> QED
    BY <1>1, <1>4, <2>1, <2>2, SameTimer
<1>7. CASE ResetSearch
  BY <1>2, <1>7, ResetSearchEffect, NewTimer
<1>8. ASSUME NEW ct \in Cases, ChooseCase(ct) PROVE TimerInv'
  BY <1>2, <1>8, PageChanges, NewTimer, NullsAssumption DEF ChooseCase
<1>9. ASSUME NEW v \in Values, SubmitStep(v) PROVE TimerInv'
  <2>1. PICK i \in Free, new \in CallRecords :
          /\ Changes(i, new) /\ page.case # NoCase
          /\ page'.case = page.case /\ page'.timer = page.timer
          /\ page'.timing = page.timing /\ page'.timedOut = page.timedOut
          /\ UNCHANGED <<session, now, late>>
    BY <1>9, SubmitStepEffect DEF Aside, vars
  <2>2. \A j \in Calls : call[j].outcome = "narrowed" => call'[j] = call[j]
    BY <1>4, <2>1 DEF Changes, Free
  <2> QED
    BY <1>1, <2>1, <2>2, SameTimer
<1>10. ASSUME NEW i \in Calls, ServeStart(i) PROVE TimerInv'
  BY <1>1, <1>10, StartTimer
<1>11. ASSUME NEW i \in Calls, NEW new, Changes(i, new), UNCHANGED <<page, session, now, late>>,
              new.kind = call[i].kind, new.session = call[i].session,
              call[i].outcome # "narrowed"
       PROVE  TimerInv'
  <2>1. \A j \in Calls :
          /\ call'[j].kind = call[j].kind /\ call'[j].session = call[j].session
          /\ call[j].outcome = "narrowed" => call'[j].outcome = "narrowed"
    BY <1>11 DEF Changes
  <2> QED
    BY <1>1, <1>11, <2>1, SameTimer
<1>12. ASSUME NEW i \in Calls, NEW w \in Workers, ServeRead(i, w) PROVE TimerInv'
  BY <1>11, <1>12, ServeReadEffect DEF CarryInv, Carries
<1>13. ASSUME NEW i \in Calls, NEW w \in Workers, ServeStep(i, w) PROVE TimerInv'
  BY <1>1, <1>13, StepTimer
<1>14. ASSUME NEW i \in Calls, ServeProfile(i) PROVE TimerInv'
  BY <1>4, <1>11, <1>14, ServeProfileEffect
<1>15. ASSUME NEW i \in Calls, Lose(i) PROVE FALSE
  BY <1>1, <1>15, LoseEffect
<1>16. ASSUME NEW i \in Calls, NEW new, Changes(i, new), new.kind # "step",
              UNCHANGED <<session, now, late>>, call[i].outcome # "narrowed",
              page'.timer = page.timer, page'.timing = page.timing,
              page'.timedOut = page.timedOut, page'.case = page.case
       PROVE  TimerInv'
  <2>1. \A j \in Calls :
          /\ call[j].outcome = "narrowed" => call'[j] = call[j]
          /\ call'[j].kind = "step" => call'[j] = call[j]
    BY <1>16 DEF Changes
  <2> QED
    BY <1>1, <1>16, <2>1, SameTimer
<1>17. NoCall.kind # "step"
  BY DEF NoCall
<1>18. ASSUME NEW i \in Calls, OnError(i) PROVE TimerInv'
  BY <1>16, <1>17, <1>18, OnErrorEffect, LoadedFields DEF Aside, vars
<1>19. ASSUME NEW i \in Calls, OnStarted(i) PROVE TimerInv'
  BY <1>16, <1>17, <1>19, OnStartedEffect DEF Aside, vars
<1>20. ASSUME NEW i \in Calls, OnNarrowed(i) PROVE TimerInv'
  <2>1. /\ Changes(i, NoCall) /\ call[i].kind = "step" /\ UNCHANGED <<session, now, late>>
        /\ page' = NextStep(Loaded)
    BY <1>20, OnNarrowedEffect DEF Aside, vars
  <2>2. \A j \in Calls : call'[j].kind # "step"
    BY <1>1, <1>17, <2>1 DEF SoleCall, Free, Changes
  <2>3. CASE page'.timer = StepTimeout /\ page'.timedOut = NoSession
    BY <1>2, <2>2, <2>3, NewTimer
  <2>4. CASE /\ page.case = NoCase /\ page'.case = NoCase /\ page'.timer = page.timer
             /\ page'.timing = page.timing /\ page'.timedOut = page.timedOut
    <3>1. ~(page'.timer > 0)
      BY <1>1, <2>1, <2>4 DEF TimerInv
    <3>2. ASSUME NEW s \in Sessions PROVE StaysOut(s)'
      BY <1>1, <2>1, <2>2, <2>4 DEF TimerInv, StaysOut, InFlight, Expired
    <3>3. ASSUME NEW s \in Sessions PROVE TimerFits(s)'
      BY <3>1 DEF TimerFits
    <3> QED
      BY <2>4, <3>1, <3>2, <3>3 DEF TimerInv
  <2> QED
    BY <2>1, <2>3, <2>4, NextStepFits
<1>21. ASSUME NEW i \in Calls, OnResolved(i) PROVE TimerInv'
  <2>1. PICK new : /\ Changes(i, new) /\ new.kind = "profile" /\ call[i].kind = "step"
                   /\ UNCHANGED <<session, now, late>> /\ page'.timer = 0
                   /\ page'.case = page.case /\ page'.timedOut = page.timedOut
    BY <1>21, OnResolvedEffect DEF Aside, vars
  <2>2. \A j \in Calls : call'[j].kind # "step"
    BY <1>1, <2>1 DEF SoleCall, Free, Changes
  <2>3. ASSUME NEW s \in Sessions PROVE StaysOut(s)'
    BY <1>1, <2>1, <2>2 DEF TimerInv, StaysOut, InFlight, Expired
  <2>4. ASSUME NEW s \in Sessions PROVE TimerFits(s)'
    BY <2>1 DEF TimerFits
  <2> QED
    BY <1>1, <2>1, <2>3, <2>4 DEF TimerInv
<1>22. ASSUME NEW i \in Calls, OnProfile(i) PROVE TimerInv'
  BY <1>16, <1>17, <1>22, OnProfileEffect DEF Aside, vars
<1>23. CASE PageTick
  BY <1>1, <1>23, TickTimer
<1> QED
  BY <1>5, <1>6, <1>7, <1>8, <1>9, <1>10, <1>12, <1>13, <1>14, <1>15, <1>18, <1>19,
     <1>20, <1>21, <1>22, <1>23 DEF PageNext, Visitor, Server, Arrival

-----------------------------------------------------------------------------
(* Theorems. *)

\* Whatever the visitor presses and in whatever order the answers come, if they
\* come, the page and its requests are one of the clients that the staged lookup
\* (advance_lookup_session, reveal_profile) is written for.
THEOREM PageImplementsLookup == PageSpec => Spec
<1>1. PageInit => Init /\ IInv /\ CarryInv
  BY InitIInv, InitCarry DEF PageInit
<1>2. IInv /\ CarryInv /\ [PageNext]_pageVars => [Next]_vars /\ (IInv /\ CarryInv)'
  BY PageStep, NextIInv, CarryNext
<1> QED
  BY <1>1, <1>2, PTL DEF PageSpec, Spec

\* The invariant: the page, its requests, the sessions and the workers agree.
THEOREM PageInvariant == PageSpec => []PInv
<1>1. PageInit => PInv
  BY InitIInv, InitCarry, InitSole, InitMatch, InitTimer DEF PInv, PageInit
<1>2. PInv /\ [PageNext]_pageVars => PInv'
  <2> SUFFICES ASSUME PInv, [PageNext]_pageVars PROVE PInv'
    OBVIOUS
  <2>1. [Next]_vars
    BY PageStep DEF PInv
  <2>2. IInv'
    BY <2>1, NextIInv DEF PInv
  <2> QED
    BY <2>2, CarryNext, SoleNext, MatchNext, TimerNext DEF PInv
<1> QED
  BY <1>1, <1>2, PTL DEF PageSpec

\* The page, its requests and its counters stay in the sets that are meant for
\* them: the count in the range of the candidates, the timer within the timeout.
THEOREM PageTypeCorrect == PageSpec => []PageTypeOK
<1>1. PInv => PageTypeOK
  BY DEF PInv, CarryInv
<1> QED
  BY <1>1, PageInvariant, PTL

\* A step asks for the field that the server reads at that step of that case,
\* whatever the visitor presses while answers are under way: chooseCase and the
\* answer of a step move index, step and field together (PageFits).
THEOREM PageStepsCarryTheirField == PageSpec => []StepsCarryTheirField
<1>1. ASSUME PInv PROVE StepsCarryTheirField
  <2> SUFFICES ASSUME NEW i \in Calls, call[i].kind = "step"
               PROVE  /\ Stage(call[i].step) \in DOMAIN Pipeline[call[i].case]
                      /\ call[i].field = Pipeline[call[i].case][Stage(call[i].step)]
    BY DEF StepsCarryTheirField
  <2>1. PICK ct, n : ct = call[i].case /\ n = call[i].step
    OBVIOUS
  <2>2. /\ ct \in Cases /\ n \in 2 .. Len(Pipeline[ct]) + 1
        /\ call[i].field = Pipeline[ct][Stage(n)]
    BY <1>1, <2>1 DEF PInv, CarryInv, PageTypeOK, CallRecords, Carries
  <2>3. PICK fields : fields = Pipeline[ct]
    OBVIOUS
  <2>4. DOMAIN fields = 1 .. Len(fields) /\ Len(fields) \in Nat
    BY <2>2, <2>3, PipelineAssumption
  <2>5. Stage(n) \in 1 .. Len(fields)
    BY <2>2, <2>3, <2>4 DEF Stage
  <2> QED
    BY <2>1, <2>2, <2>3, <2>4, <2>5
<1> QED
  BY <1>1, PageInvariant, PTL

\* loadProfile shows the match of the session that the page has, unless the visitor
\* started over with an answer under way: until then one request is under way, for
\* the session of the page, and no match is replaced.
THEOREM PageProfileIsOfSession == PageSpec => []ProfileIsOfSession
<1>1. PInv => ProfileIsOfSession
  BY DEF PInv, MatchInv, ProfileIsOfSession
<1> QED
  BY <1>1, PageInvariant, PTL

\* When the timer of the page runs out, the server refuses the step as well: the
\* timer is started after the session was given its time, and by every answer that
\* renews it.
THEOREM PageTimeoutIsReal == PageSpec => []TimeoutIsReal
<1>1. ASSUME PInv PROVE TimeoutIsReal
  <2>1. page.timedOut \in Sessions \cup {NoSession}
    BY <1>1 DEF PInv, CarryInv, PageTypeOK, Pages
  <2> QED
    BY <1>1, <2>1 DEF PInv, TimerInv, StaysOut, TimeoutIsReal
<1> QED
  BY <1>1, PageInvariant, PTL
=============================================================================
