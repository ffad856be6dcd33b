---------------------------- MODULE LookupProofs ----------------------------
(***************************************************************************)
(* Proofs about LookupSession for every set of workers, sessions,          *)
(* addresses and candidates, every relation Fits, all pipelines and every  *)
(* value of the bounds: what holds however steps overlap, and what holds   *)
(* when they are served one after the other.                               *)
(***************************************************************************)
EXTENDS CandidateLookup, FiniteSetTheorems, TLAPS

RowFits(row) ==
  \A f \in Fields :
    row.payload[f] # NoValue => \A c \in row.ids : row.payload[f] \in Fits[c][f]

(* What is stored and what a busy worker holds fits what was given.         *)
FitInv ==
  /\ \A s \in Sessions : RowFits(session[s])
  /\ \A w \in Workers : pc[w] # "idle" => RowFits(copy[w])

(* A busy worker holds a session that was started, and no candidate that    *)
(* the session did not start with.                                          *)
WorkInv ==
  \A w \in Workers :
    pc[w] # "idle" =>
      /\ token[w] \in Sessions
      /\ session[token[w]].status # "none"
      /\ copy[w].ip = session[token[w]].ip
      /\ copy[w].ids \subseteq initial[token[w]]

OriginInv ==
  \A s \in Sessions :
    /\ session[s].ids \subseteq initial[s]
    /\ session[s].matched # NoCandidate => session[s].matched \in initial[s]

ViewInv ==
  /\ IsFiniteSet(viewLog)
  /\ \A v \in viewLog :
       /\ session[v.session].status # "none"
       /\ v.candidate \in initial[v.session]
       /\ v.ip = session[v.session].ip

IInv == TypeOK /\ FitInv /\ WorkInv /\ OriginInv /\ ViewInv

-----------------------------------------------------------------------------
(* Days. *)

LEMMA DayBound ==
  ASSUME NEW m \in Nat, NEW n \in Nat, m <= n, NEW d \in Nat \ {0}
  PROVE  m \div d \in 0 .. (n \div d)
<1>1. m = d * (m \div d) + (m % d) /\ m % d \in 0 .. (d - 1) /\ m \div d \in Int
  OBVIOUS
<1>2. n = d * (n \div d) + (n % d) /\ n % d \in 0 .. (d - 1) /\ n \div d \in Int
  OBVIOUS
<1> QED
  BY <1>1, <1>2

LEMMA TodayIsDay ==
  ASSUME TypeOK PROVE Today \in Days
<1>1. now \in Nat /\ MaxTime \in Nat /\ now <= MaxTime /\ DayLength \in Nat \ {0}
  BY TimesAssumption DEF TypeOK
<1>2. now \div DayLength \in 0 .. (MaxTime \div DayLength)
  BY <1>1, DayBound
<1> QED
  BY <1>2 DEF Today, Days

-----------------------------------------------------------------------------
(* Rows. *)

LEMMA NoRowIsRow == NoRow \in Rows /\ RowFits(NoRow)
  BY DEF NoRow, Rows, Status, RowFits

LEMMA NewSessionRow ==
  ASSUME TypeOK, NEW ip \in Ips, NEW ids \in SUBSET Candidates
  PROVE  LET new == NewSession(ip, ids) IN
         /\ new \in Rows /\ RowFits(new)
         /\ new.ids = ids /\ new.ip = ip /\ new.status = "active"
         /\ new.matched = NoCandidate
<1> DEFINE new == NewSession(ip, ids)
<1>1. /\ new.status = "active" /\ new.ip = ip /\ new.ids = ids
      /\ new.payload = [f \in Fields |-> NoValue] /\ new.matched = NoCandidate
  BY DEF NewSession, NoRow
<1>2. now + StepTimeout \in Nat
  BY TimesAssumption DEF TypeOK
<1>3. new \in Rows
  BY <1>2, NoRowIsRow DEF NewSession, Rows, Status
<1> QED
  BY <1>1, <1>3 DEF RowFits

LEMMA AdvancedRow ==
  ASSUME NEW row \in Rows, RowFits(row), NEW ct \in Cases, NEW step \in Nat,
         Stage(step) <= Len(Pipeline[ct]), NEW v \in Values
  PROVE  LET new == Advanced(row, ct, step, v) IN
         /\ new \in Rows /\ RowFits(new)
         /\ new.ids \subseteq row.ids /\ new.ip = row.ip
         /\ new.matched = row.matched /\ new.step = step
<1> DEFINE stage == Stage(step)
           field == Pipeline[ct][stage]
           new == Advanced(row, ct, step, v)
<1>1. field \in Fields
  BY PipelineAssumption DEF Stage
<1>2. /\ row.payload \in [Fields -> Values \cup {NoValue}]
      /\ row.ids \in SUBSET Candidates
  BY DEF Rows
<1>3. /\ new.payload = [row.payload EXCEPT ![field] = v]
      /\ new.ids = Narrowed(row, Pipeline[ct], stage, v)
      /\ new.ip = row.ip /\ new.matched = row.matched /\ new.step = step
      /\ new.caseType = ct /\ new.status = row.status
      /\ new.stepExpires = row.stepExpires
      /\ new.profileExpires = row.profileExpires
  BY DEF Advanced, Rows
<1>4. new.ids \subseteq {c \in row.ids : v \in Fits[c][field]}
  BY <1>3 DEF Narrowed
<1>5. new \in Rows
  BY <1>1, <1>2, <1>3, <1>4 DEF Advanced, Rows
<1>6. RowFits(new)
  BY <1>1, <1>2, <1>3, <1>4 DEF RowFits
<1> QED
  BY <1>3, <1>4, <1>5, <1>6

\* The rows that the outcomes of a step save.
LEMMA StepRow ==
  ASSUME NEW stored \in Rows, NEW row \in Rows
  PROVE  LET new == SavedStep(stored, row) IN
         /\ new \in Rows /\ new.payload = row.payload /\ new.ids = row.ids
         /\ new.status = stored.status /\ new.ip = stored.ip
         /\ new.matched = stored.matched
  BY DEF SavedStep, Rows

LEMMA SavedRows ==
  ASSUME TypeOK, NEW stored \in Rows, NEW row \in Rows, RowFits(row)
  PROVE  /\ LET new == SavedNarrowed(stored, row) IN
            /\ new \in Rows /\ RowFits(new) /\ new.ids = row.ids
            /\ new.status = stored.status /\ new.ip = stored.ip
            /\ new.matched = stored.matched
         /\ LET new == SavedFailed(stored, row) IN
            /\ new \in Rows /\ RowFits(new) /\ new.ids = row.ids
            /\ new.status = "failed" /\ new.ip = stored.ip
            /\ new.matched = stored.matched
<1>1. now + StepTimeout \in Nat
  BY TimesAssumption DEF TypeOK
<1>2. LET new == SavedNarrowed(stored, row) IN
      /\ new \in Rows /\ new.payload = row.payload /\ new.ids = row.ids
      /\ new.status = stored.status /\ new.ip = stored.ip
      /\ new.matched = stored.matched
  BY <1>1, StepRow DEF SavedNarrowed, Rows
<1>3. LET new == SavedFailed(stored, row) IN
      /\ new \in Rows /\ new.payload = row.payload /\ new.ids = row.ids
      /\ new.status = "failed" /\ new.ip = stored.ip
      /\ new.matched = stored.matched
  BY StepRow DEF SavedFailed, Rows, Status
<1> QED
  BY <1>2, <1>3 DEF RowFits

LEMMA ResolvedRow ==
  ASSUME TypeOK, NEW stored \in Rows, NEW row \in Rows, RowFits(row),
         NEW c \in Candidates
  PROVE  LET new == SavedResolved(stored, row, c) IN
         /\ new \in Rows /\ RowFits(new) /\ new.ids = row.ids
         /\ new.status = "resolved" /\ new.ip = stored.ip /\ new.matched = c
<1> DEFINE base == SavedStep(stored, row)
           new == SavedResolved(stored, row, c)
<1>1. now + StepTimeout \in Nat /\ now + ProfileWindow \in Nat
  BY TimesAssumption DEF TypeOK
<1>2. /\ base \in Rows /\ base.payload = row.payload /\ base.ids = row.ids
      /\ base.ip = stored.ip
  BY StepRow
<1>3. new = [base EXCEPT !.status = "resolved", !.matched = c,
                         !.profileExpires = now + ProfileWindow,
                         !.stepExpires = now + StepTimeout]
  BY DEF SavedResolved
<1> HIDE DEF base, new
<1>4. "resolved" \in Status
  BY DEF Status
<1>5. new \in Rows
  BY <1>1, <1>2, <1>3, <1>4 DEF Rows
<1>6. /\ new.payload = row.payload /\ new.ids = row.ids
      /\ new.status = "resolved" /\ new.ip = stored.ip /\ new.matched = c
  BY <1>2, <1>3 DEF Rows
<1>7. RowFits(new)
  BY <1>6 DEF RowFits
<1> QED
  BY <1>5, <1>6, <1>7 DEF new

-----------------------------------------------------------------------------
(* The invariant holds initially, and every step preserves it.              *)

LEMMA InitIInv == Init => IInv
<1> SUFFICES ASSUME Init PROVE IInv
  OBVIOUS
<1>1. 0 \in 0 .. MaxTime
  BY TimesAssumption
<1>2. TypeOK
  BY <1>1, NoRowIsRow DEF Init, TypeOK
<1>3. FitInv /\ WorkInv
  BY NoRowIsRow DEF Init, FitInv, WorkInv
<1>4. OriginInv /\ ViewInv
  BY FS_EmptySet DEF Init, OriginInv, ViewInv, NoRow
<1> QED
  BY <1>2, <1>3, <1>4 DEF IInv

\* A step that saves a row of the session it works on, and ends.
LEMMA SaveStep ==
  ASSUME IInv, NEW w \in Workers, pc[w] # "idle", Release(w),
         NEW new \in Rows, RowFits(new),
         new.ip = session[token[w]].ip, new.status # "none",
         new.ids \subseteq initial[token[w]],
         new.matched # NoCandidate => new.matched \in initial[token[w]],
         session' = [session EXCEPT ![token[w]] = new],
         reports' \in [Ips -> Nat],
         UNCHANGED <<now, initial, viewLog, viewCount>>
  PROVE  IInv'
<1> DEFINE s == token[w]
<1>1. /\ s \in Sessions /\ session \in [Sessions -> Rows]
      /\ pc \in [Workers -> {"idle", "deciding", "expiring"}]
      /\ token \in [Workers -> Sessions \cup {NoSession}]
      /\ copy \in [Workers -> Rows]
  BY DEF IInv, TypeOK, WorkInv
<1>2. /\ session' \in [Sessions -> Rows] /\ session'[s] = new
      /\ \A t \in Sessions : t # s => session'[t] = session[t]
  BY <1>1
<1>3. /\ pc'[w] = "idle"
      /\ \A v \in Workers : v # w => /\ pc'[v] = pc[v] /\ token'[v] = token[v]
                                     /\ copy'[v] = copy[v]
  BY <1>1 DEF Release
<1>4. TypeOK'
  BY <1>1, <1>2, NoRowIsRow DEF IInv, TypeOK, Release, Days
<1>5. FitInv'
  BY <1>2, <1>3 DEF IInv, FitInv
<1>6. WorkInv'
  BY <1>1, <1>2, <1>3 DEF IInv, WorkInv
<1>7. OriginInv'
  BY <1>2 DEF IInv, OriginInv
<1>8. ViewInv'
  BY <1>1, <1>2 DEF IInv, ViewInv, TypeOK, Views
<1> QED
  BY <1>4, <1>5, <1>6, <1>7, <1>8 DEF IInv

LEMMA StoreStep ==
  ASSUME IInv, NEW s \in Sessions, NEW ip \in Ips, NEW ids \in SUBSET Candidates,
         Store(s, ip, ids)
  PROVE  IInv'
<1> DEFINE new == NewSession(ip, ids)
<1>1. /\ new \in Rows /\ RowFits(new) /\ new.ids = ids /\ new.ip = ip
      /\ new.status = "active" /\ new.matched = NoCandidate
  BY NewSessionRow DEF IInv
<1> HIDE DEF new
<1>2. /\ session[s].status = "none"
      /\ session' = [session EXCEPT ![s] = new]
      /\ initial' = [initial EXCEPT ![s] = ids]
      /\ UNCHANGED <<now, viewLog, viewCount, reports, pc, token, copy>>
  BY DEF Store, new
<1>3. /\ session \in [Sessions -> Rows]
      /\ initial \in [Sessions -> SUBSET Candidates]
  BY DEF IInv, TypeOK
<1>4. /\ session'[s] = new /\ initial'[s] = ids
      /\ \A t \in Sessions : t # s => /\ session'[t] = session[t]
                                      /\ initial'[t] = initial[t]
  BY <1>2, <1>3
<1>5. TypeOK'
  BY <1>1, <1>2, <1>3 DEF IInv, TypeOK, Days, Views
<1>6. FitInv'
  BY <1>1, <1>2, <1>4 DEF IInv, FitInv
<1>7. WorkInv'
  BY <1>1, <1>2, <1>4 DEF IInv, WorkInv
<1>8. OriginInv'
  BY <1>1, <1>4 DEF IInv, OriginInv
<1>9. ViewInv'
  BY <1>2, <1>3, <1>4 DEF IInv, ViewInv, TypeOK, Views
<1> QED
  BY <1>5, <1>6, <1>7, <1>8, <1>9 DEF IInv

LEMMA ReadStep ==
  ASSUME IInv, NEW w \in Workers, NEW s \in Sessions, Read(w, s)
  PROVE  IInv'
<1>1. /\ session[s] \in Rows /\ RowFits(session[s])
      /\ session[s].status = "active" /\ session[s].ids \subseteq initial[s]
  BY DEF IInv, TypeOK, FitInv, OriginInv, Read
<1>2. /\ token' = [token EXCEPT ![w] = s] /\ copy' = [copy EXCEPT ![w] = session[s]]
      /\ pc' \in [Workers -> {"idle", "deciding", "expiring"}]
      /\ \A v \in Workers : v # w => pc'[v] = pc[v]
      /\ UNCHANGED <<now, session, initial, viewLog, viewCount, reports>>
  BY DEF Read, IInv, TypeOK
<1>3. TypeOK'
  BY <1>1, <1>2 DEF IInv, TypeOK, Days, Views
<1>4. FitInv' /\ WorkInv'
  BY <1>1, <1>2 DEF IInv, TypeOK, FitInv, WorkInv
<1>5. OriginInv' /\ ViewInv'
  BY <1>2 DEF IInv, OriginInv, ViewInv
<1> QED
  BY <1>3, <1>4, <1>5 DEF IInv

LEMMA ReportStep ==
  ASSUME TypeOK, NEW ip, Report(ip)
  PROVE  reports' \in [Ips -> Nat]
<1>1. reports' = [reports EXCEPT ![ip] = @ + 1] /\ reports \in [Ips -> Nat]
  BY DEF Report, TypeOK
<1>2. CASE ip \in Ips
  <2>1. reports[ip] + 1 \in Nat
    BY <1>1, <1>2
  <2> QED
    BY <1>1, <2>1
<1>3. CASE ip \notin Ips
  BY <1>1, <1>3
<1> QED
  BY <1>2, <1>3

\* A report, or the end of a step that saves nothing.
LEMMA NoSaveStep ==
  ASSUME IInv, NEW w \in Workers,
         \/ Release(w)
         \/ UNCHANGED <<pc, token, copy>>,
         reports' \in [Ips -> Nat],
         UNCHANGED <<now, session, initial, viewLog, viewCount>>
  PROVE  IInv'
<1>1. /\ pc' \in [Workers -> {"idle", "deciding", "expiring"}]
      /\ token' \in [Workers -> Sessions \cup {NoSession}]
      /\ copy' \in [Workers -> Rows]
      /\ \A v \in Workers : pc'[v] # "idle" =>
           pc[v] = pc'[v] /\ token'[v] = token[v] /\ copy'[v] = copy[v]
  BY NoRowIsRow DEF Release, IInv, TypeOK
<1>2. TypeOK'
  BY <1>1 DEF IInv, TypeOK, Days, Views
<1> QED
  BY <1>1, <1>2 DEF IInv, FitInv, WorkInv, OriginInv, ViewInv

LEMMA ReadInvalidStep ==
  ASSUME IInv, NEW w \in Workers, NEW s \in Sessions, NEW ip \in Ips,
         ReadInvalid(w, s, ip)
  PROVE  IInv'
  BY ReportStep, NoSaveStep DEF ReadInvalid, IInv

LEMMA RejectStep ==
  ASSUME IInv, NEW w \in Workers, Reject(w)
  PROVE  IInv'
  BY NoSaveStep DEF Reject, IInv, TypeOK

LEMMA ExpireStep ==
  ASSUME IInv, NEW w \in Workers, Expire(w)
  PROVE  IInv'
<1> DEFINE s == token[w]
           new == [session[s] EXCEPT !.status = "expired"]
<1>1. pc[w] # "idle" /\ s \in Sessions /\ session[s] \in Rows /\ RowFits(session[s])
  BY DEF Expire, IInv, TypeOK, FitInv, WorkInv
<1>2. /\ session[s].ids \subseteq initial[s]
      /\ session[s].matched # NoCandidate => session[s].matched \in initial[s]
  BY <1>1 DEF IInv, OriginInv
<1>3. /\ new \in Rows /\ RowFits(new) /\ new.ids = session[s].ids
      /\ new.ip = session[s].ip /\ new.status = "expired"
      /\ new.matched = session[s].matched
  BY <1>1 DEF Rows, Status, RowFits
<1>4. /\ session' = [session EXCEPT ![s] = new] /\ Release(w)
      /\ UNCHANGED <<now, initial, viewLog, viewCount>>
  BY DEF Expire
<1>5. reports' \in [Ips -> Nat]
  BY ReportStep DEF Expire, IInv
<1> HIDE DEF new
<1> QED
  BY <1>1, <1>2, <1>3, <1>4, <1>5, SaveStep

\* What a step that was accepted works with.
LEMMA AcceptedRow ==
  ASSUME IInv, NEW w \in Workers, NEW ct \in Cases, NEW step \in Steps,
         NEW v \in Values, Accepts(w, ct, step)
  PROVE  LET row == Advanced(copy[w], ct, step, v) IN
         /\ pc[w] # "idle" /\ token[w] \in Sessions
         /\ session[token[w]] \in Rows /\ session[token[w]].status # "none"
         /\ OriginInv
         /\ row \in Rows /\ RowFits(row)
         /\ row.ids \subseteq copy[w].ids
         /\ row.ids \subseteq initial[token[w]]
         /\ initial[token[w]] \subseteq Candidates
<1>1. pc[w] # "idle" /\ Stage(step) <= Len(Pipeline[ct])
  BY DEF Accepts
<1>2. /\ token[w] \in Sessions /\ session[token[w]].status # "none"
      /\ copy[w].ids \subseteq initial[token[w]]
  BY <1>1 DEF IInv, WorkInv
<1>3. /\ copy[w] \in Rows /\ RowFits(copy[w]) /\ session[token[w]] \in Rows
      /\ initial[token[w]] \subseteq Candidates
  BY <1>1, <1>2 DEF IInv, TypeOK, FitInv
<1>4. step \in Nat
  BY TimesAssumption
<1>5. LET row == Advanced(copy[w], ct, step, v) IN
      row \in Rows /\ RowFits(row) /\ row.ids \subseteq copy[w].ids
  BY <1>1, <1>3, <1>4, AdvancedRow
<1> QED
  BY <1>1, <1>2, <1>3, <1>5 DEF IInv

LEMMA FailStep ==
  ASSUME IInv, NEW w \in Workers, NEW ct \in Cases, NEW step \in Steps,
         NEW v \in Values, Fail(w, ct, step, v)
  PROVE  IInv'
<1> DEFINE s == token[w]
           row == Advanced(copy[w], ct, step, v)
           new == SavedFailed(session[s], row)
<1>1. /\ pc[w] # "idle" /\ s \in Sessions /\ session[s] \in Rows /\ OriginInv
      /\ row \in Rows /\ RowFits(row) /\ row.ids \subseteq initial[s]
  BY AcceptedRow DEF Fail
<1> HIDE DEF row
<1>2. /\ new \in Rows /\ RowFits(new) /\ new.ids = row.ids
      /\ new.ip = session[s].ip /\ new.status = "failed"
      /\ new.matched = session[s].matched
  BY <1>1, SavedRows DEF IInv
<1>3. session' = [session EXCEPT ![s] = new]
  BY DEF Fail, row
<1>4. new.matched # NoCandidate => new.matched \in initial[s]
  BY <1>1, <1>2 DEF OriginInv
<1>5. reports' \in [Ips -> Nat]
  BY ReportStep DEF Fail, IInv
<1>6. /\ Release(w) /\ UNCHANGED <<now, initial, viewLog, viewCount>>
  BY DEF Fail
<1> HIDE DEF new
<1> QED
  BY <1>1, <1>2, <1>3, <1>4, <1>5, <1>6, SaveStep

LEMMA ResolveStep ==
  ASSUME IInv, NEW w \in Workers, NEW ct \in Cases, NEW step \in Steps,
         NEW v \in Values, Resolve(w, ct, step, v)
  PROVE  IInv'
<1> DEFINE s == token[w]
           row == Advanced(copy[w], ct, step, v)
<1>1. /\ pc[w] # "idle" /\ s \in Sessions /\ session[s] \in Rows
      /\ row \in Rows /\ RowFits(row) /\ row.ids \subseteq initial[s]
      /\ initial[s] \subseteq Candidates
  BY AcceptedRow DEF Resolve
<1>2. PICK c \in row.ids : session' = [session EXCEPT ![s] = SavedResolved(session[s], row, c)]
  BY DEF Resolve
<1> HIDE DEF row
<1> DEFINE new == SavedResolved(session[s], row, c)
<1>3. c \in initial[s] /\ c \in Candidates
  BY <1>1, <1>2
<1>4. /\ new \in Rows /\ RowFits(new) /\ new.ids = row.ids
      /\ new.ip = session[s].ip /\ new.status = "resolved" /\ new.matched = c
  <2>1. TypeOK /\ session[s] \in Rows /\ row \in Rows /\ RowFits(row) /\ c \in Candidates
    BY <1>1, <1>3 DEF IInv
  <2>2. \A stored \in Rows :
          LET saved == SavedResolved(stored, row, c) IN
          /\ saved \in Rows /\ RowFits(saved) /\ saved.ids = row.ids
          /\ saved.status = "resolved" /\ saved.ip = stored.ip /\ saved.matched = c
    BY <2>1, ResolvedRow
  <2> QED
    BY <2>1, <2>2
<1>5. /\ Release(w) /\ UNCHANGED <<now, initial, viewLog, viewCount, reports>>
  BY DEF Resolve
<1>6. reports' \in [Ips -> Nat]
  BY <1>5 DEF IInv, TypeOK
<1> HIDE DEF new
<1> QED
  BY <1>1, <1>2, <1>3, <1>4, <1>5, <1>6, SaveStep DEF new

LEMMA NarrowStep ==
  ASSUME IInv, NEW w \in Workers, NEW ct \in Cases, NEW step \in Steps,
         NEW v \in Values, Narrow(w, ct, step, v)
  PROVE  IInv'
<1> DEFINE s == token[w]
           row == Advanced(copy[w], ct, step, v)
           new == SavedNarrowed(session[s], row)
<1>1. /\ pc[w] # "idle" /\ s \in Sessions /\ session[s] \in Rows /\ OriginInv
      /\ session[s].status # "none"
      /\ row \in Rows /\ RowFits(row) /\ row.ids \subseteq initial[s]
  BY AcceptedRow DEF Narrow
<1> HIDE DEF row
<1>2. /\ new \in Rows /\ RowFits(new) /\ new.ids = row.ids
      /\ new.ip = session[s].ip /\ new.status = session[s].status
      /\ new.matched = session[s].matched
  BY <1>1, SavedRows DEF IInv
<1>3. session' = [session EXCEPT ![s] = new]
  BY DEF Narrow, row
<1>4. new.matched # NoCandidate => new.matched \in initial[s]
  BY <1>1, <1>2 DEF OriginInv
<1>5. reports' \in [Ips -> Nat]
  BY DEF Narrow, IInv, TypeOK
<1>6. /\ Release(w) /\ UNCHANGED <<now, initial, viewLog, viewCount>>
  BY DEF Narrow
<1> HIDE DEF new
<1> QED
  BY <1>1, <1>2, <1>3, <1>4, <1>5, <1>6, SaveStep

LEMMA RevealStep ==
  ASSUME IInv, NEW s \in Sessions, NEW ip \in Ips, Reveal(s, ip)
  PROVE  IInv'
<1> DEFINE c == session[s].matched
           n == Cardinality(viewLog) + 1
           view == [id |-> n, session |-> s, candidate |-> c, ip |-> ip, day |-> Today]
<1>1. /\ session[s].ip = ip /\ session[s].status = "resolved"
      /\ c # NoCandidate /\ n <= MaxViews
      /\ viewLog' = viewLog \cup {view}
      /\ viewCount' = [viewCount EXCEPT ![c] = @ + 1]
      /\ UNCHANGED <<now, session, initial, reports, pc, token, copy>>
  BY DEF Reveal, Viewable, Counted
<1>2. c \in initial[s] /\ c \in Candidates
  BY <1>1 DEF IInv, OriginInv, TypeOK
<1>3. n \in 1 .. MaxViews
  <2>1. Cardinality(viewLog) \in Nat
    BY FS_CardinalityType DEF IInv, ViewInv
  <2> QED
    BY <1>1, <2>1, TimesAssumption
<1>4. Today \in Days
  BY TodayIsDay DEF IInv
<1>5. view \in Views
  BY <1>2, <1>3, <1>4 DEF Views
<1>6. viewLog' \subseteq Views
  BY <1>1, <1>5 DEF IInv, TypeOK
<1>7. TypeOK'
  BY <1>1, <1>2, <1>6 DEF IInv, TypeOK, Days, Views
<1>8. IsFiniteSet(viewLog')
  BY <1>1, FS_AddElement DEF IInv, ViewInv
<1>9. ViewInv'
  BY <1>1, <1>2, <1>8 DEF IInv, ViewInv
<1> QED
  BY <1>1, <1>7, <1>9 DEF IInv, FitInv, WorkInv, OriginInv

LEMMA TickStep ==
  ASSUME IInv, Tick
  PROVE  IInv'
<1>1. now' \in 0 .. MaxTime
  BY TimesAssumption DEF Tick, IInv, TypeOK
<1>2. TypeOK'
  BY <1>1 DEF Tick, IInv, TypeOK, Days, Views
<1> QED
  BY <1>2 DEF Tick, IInv, FitInv, WorkInv, OriginInv, ViewInv

LEMMA StartSteps ==
  ASSUME IInv, NEW s \in Sessions, NEW ip \in Ips, NEW ids \in SUBSET Candidates,
         StartAnonymous(s, ip, ids) \/ StartRecruiter(s, ip, ids)
  PROVE  IInv'
  BY StoreStep DEF StartAnonymous, StartRecruiter

LEMMA NextIInv == IInv /\ [Next]_vars => IInv'
<1> SUFFICES ASSUME IInv, [Next]_vars PROVE IInv'
  OBVIOUS
<1>1. CASE \E s \in Sessions, ip \in Ips, ids \in SUBSET Candidates :
             StartAnonymous(s, ip, ids) \/ StartRecruiter(s, ip, ids)
  BY <1>1, StartSteps
<1>2. ASSUME NEW w \in Workers, Advance(w)
      PROVE  IInv'
  <2>1. CASE \E s \in Sessions : Read(w, s)
    BY <2>1, ReadStep
  <2>2. CASE \E s \in Sessions, ip \in Ips : ReadInvalid(w, s, ip)
    BY <2>2, ReadInvalidStep
  <2>3. CASE Expire(w)
    BY <2>3, ExpireStep
  <2>4. CASE Reject(w)
    BY <2>4, RejectStep
  <2>5. CASE \E ct \in Cases, step \in Steps, v \in Values :
               Fail(w, ct, step, v) \/ Resolve(w, ct, step, v) \/ Narrow(w, ct, step, v)
    BY <2>5, FailStep, ResolveStep, NarrowStep
  <2> QED
    BY <1>2, <2>1, <2>2, <2>3, <2>4, <2>5 DEF Advance
<1>3. CASE \E s \in Sessions, ip \in Ips : Reveal(s, ip)
  BY <1>3, RevealStep
<1>4. CASE Tick
  BY <1>4, TickStep
<1>5. CASE UNCHANGED vars
  BY <1>5 DEF vars, IInv, TypeOK, FitInv, WorkInv, OriginInv, ViewInv, Days, Views
<1> QED
  BY <1>1, <1>2, <1>3, <1>4, <1>5 DEF Next

-----------------------------------------------------------------------------
\* The inductive invariant holds in every reachable state.
THEOREM LookupInvariant == Spec => []IInv
  BY InitIInv, NextIInv, PTL DEF Spec

\* Every reachable state is well typed (all handlers of LookupSession).
THEOREM LookupTypeOK == Spec => []TypeOK
<1>1. IInv => TypeOK
  BY DEF IInv
<1> QED
  BY <1>1, LookupInvariant, PTL

\* However many workers advance one session, in whatever order and with
\* whatever changes of case: the candidates that are left fit every value that
\* the session has stored (advance_lookup_session).
THEOREM LookupRemainingFitAll == Spec => []RemainingFitAll
<1>1. IInv => RemainingFitAll
  BY DEF IInv, FitInv, RowFits, RemainingFitAll
<1> QED
  BY <1>1, LookupInvariant, PTL

\* Only profiles that the session started with are viewed, and only from its
\* address (reveal_profile).
THEOREM LookupViewedWasInitial == Spec => []ViewedWasInitial
<1>1. IInv => ViewedWasInitial
  BY DEF IInv, ViewInv, ViewedWasInitial
<1> QED
  BY <1>1, LookupInvariant, PTL

-----------------------------------------------------------------------------
(* Each session that has ended was reported.                                *)

Ended(ip) ==
  {s \in Sessions : session[s].ip = ip /\ session[s].status \in {"failed", "expired"}}

LEMMA NoneEnded ==
  ASSUME IsFiniteSet(Sessions), IInv, EndingsReported,
         \A ip \in Ips : Ended(ip)' \subseteq Ended(ip) /\ reports'[ip] >= reports[ip],
         reports' \in [Ips -> Nat]
  PROVE  EndingsReported'
<1> SUFFICES ASSUME NEW ip \in Ips
             PROVE  Cardinality(Ended(ip)') <= reports'[ip]
  BY DEF EndingsReported, Ended
<1>1. IsFiniteSet(Ended(ip)) /\ Cardinality(Ended(ip)) <= reports[ip]
  BY FS_Subset DEF Ended, EndingsReported
<1>2. Cardinality(Ended(ip)') <= Cardinality(Ended(ip))
  BY <1>1, FS_Subset
<1>3. Cardinality(Ended(ip)) \in Nat /\ Cardinality(Ended(ip)') \in Nat
  BY <1>1, FS_Subset, FS_CardinalityType
<1>4. reports[ip] \in Nat /\ reports'[ip] \in Nat
  BY DEF IInv, TypeOK
<1> QED
  BY <1>1, <1>2, <1>3, <1>4

LEMMA OneEnded ==
  ASSUME IsFiniteSet(Sessions), IInv, EndingsReported, NEW s \in Sessions, NEW here,
         \A ip \in Ips \ {here} : Ended(ip)' \subseteq Ended(ip),
         Ended(here)' \subseteq Ended(here) \cup {s},
         Report(here)
  PROVE  EndingsReported'
<1> SUFFICES ASSUME NEW ip \in Ips
             PROVE  Cardinality(Ended(ip)') <= reports'[ip]
  BY DEF EndingsReported, Ended
<1>1. IsFiniteSet(Ended(ip)) /\ Cardinality(Ended(ip)) <= reports[ip]
  BY FS_Subset DEF Ended, EndingsReported
<1>2. Cardinality(Ended(ip)) \in Nat
  BY <1>1, FS_CardinalityType
<1>3. reports \in [Ips -> Nat] /\ reports' = [reports EXCEPT ![here] = @ + 1]
  BY DEF IInv, TypeOK, Report
<1>4. CASE ip # here
  <2>1. Cardinality(Ended(ip)') <= Cardinality(Ended(ip)) /\ IsFiniteSet(Ended(ip)')
    BY <1>1, <1>4, FS_Subset
  <2>2. Cardinality(Ended(ip)') \in Nat
    BY <2>1, FS_CardinalityType
  <2> QED
    BY <1>1, <1>2, <1>3, <1>4, <2>1, <2>2
<1>5. CASE ip = here
  <2>1. /\ IsFiniteSet(Ended(ip) \cup {s})
        /\ Cardinality(Ended(ip) \cup {s}) <= Cardinality(Ended(ip)) + 1
    <3>1. /\ IsFiniteSet(Ended(ip) \cup {s})
          /\ Cardinality(Ended(ip) \cup {s}) =
               IF s \in Ended(ip) THEN Cardinality(Ended(ip)) ELSE Cardinality(Ended(ip)) + 1
      BY <1>1, FS_AddElement
    <3> QED
      BY <1>2, <3>1
  <2>2. /\ IsFiniteSet(Ended(ip)')
        /\ Cardinality(Ended(ip)') <= Cardinality(Ended(ip) \cup {s})
    BY <1>5, <2>1, FS_Subset
  <2>3. Cardinality(Ended(ip)') \in Nat /\ Cardinality(Ended(ip) \cup {s}) \in Nat
    BY <2>1, <2>2, FS_CardinalityType
  <2> QED
    BY <1>1, <1>2, <1>3, <1>5, <2>1, <2>2, <2>3
<1> QED
  BY <1>4, <1>5

\* A save that does not end a session.
LEMMA SaveEndsNone ==
  ASSUME IsFiniteSet(Sessions), IInv, EndingsReported, UNCHANGED reports,
         NEW s \in Sessions, NEW new,
         session' = [session EXCEPT ![s] = new],
         new.status \in {"failed", "expired"} =>
           new.ip = session[s].ip /\ new.status = session[s].status
  PROVE  EndingsReported'
<1>1. session'[s] = new /\ \A t \in Sessions : t # s => session'[t] = session[t]
  BY DEF IInv, TypeOK
<1>2. \A ip \in Ips : Ended(ip)' \subseteq Ended(ip)
  BY <1>1 DEF Ended
<1>3. reports \in [Ips -> Nat] /\ \A ip \in Ips : reports[ip] >= reports[ip]
  BY DEF IInv, TypeOK
<1> QED
  BY <1>2, <1>3, NoneEnded

\* A save that ends the session, with the report of its address.
LEMMA SaveEndsOne ==
  ASSUME IsFiniteSet(Sessions), IInv, EndingsReported,
         NEW w \in Workers, pc[w] # "idle", NEW new,
         session' = [session EXCEPT ![token[w]] = new],
         new.ip = session[token[w]].ip, Report(copy[w].ip)
  PROVE  EndingsReported'
<1>1. token[w] \in Sessions /\ copy[w].ip = session[token[w]].ip
  BY DEF IInv, WorkInv
<1>2. /\ session'[token[w]] = new
      /\ \A t \in Sessions : t # token[w] => session'[t] = session[t]
  BY <1>1 DEF IInv, TypeOK
<1>3. PICK here : here = session[token[w]].ip
  OBVIOUS
<1>4. /\ \A ip \in Ips \ {here} : Ended(ip)' \subseteq Ended(ip)
      /\ Ended(here)' \subseteq Ended(here) \cup {token[w]}
  BY <1>1, <1>2, <1>3 DEF Ended
<1>5. Report(here)
  BY <1>1, <1>3
<1> QED
  BY <1>1, <1>4, <1>5, OneEnded

LEMMA ReportedNext ==
  ASSUME IsFiniteSet(Sessions), IInv, EndingsReported, [Next]_vars
  PROVE  EndingsReported'
<1>0. /\ session \in [Sessions -> Rows] /\ reports \in [Ips -> Nat]
      /\ \A ip \in Ips : reports[ip] >= reports[ip] /\ reports[ip] + 1 >= reports[ip]
  BY DEF IInv, TypeOK
<1>1. ASSUME UNCHANGED <<session, reports>>
      PROVE  EndingsReported'
  BY <1>1 DEF EndingsReported
<1>2. ASSUME NEW s \in Sessions, NEW ip \in Ips, NEW ids \in SUBSET Candidates,
             Store(s, ip, ids)
      PROVE  EndingsReported'
  <2>1. NewSession(ip, ids).status = "active"
    BY NewSessionRow DEF IInv
  <2>2. session' = [session EXCEPT ![s] = NewSession(ip, ids)] /\ UNCHANGED reports
    BY <1>2 DEF Store
  <2> QED
    BY <2>1, <2>2, SaveEndsNone
<1>3. ASSUME NEW w \in Workers, NEW s \in Sessions, NEW ip \in Ips,
             ReadInvalid(w, s, ip)
      PROVE  EndingsReported'
  <2>1. UNCHANGED session /\ Report(ip)
    BY <1>3 DEF ReadInvalid
  <2>2. reports' \in [Ips -> Nat] /\ \A i \in Ips : reports'[i] >= reports[i]
    BY <1>0, <2>1 DEF Report
  <2>3. \A i \in Ips : Ended(i)' \subseteq Ended(i)
    BY <2>1 DEF Ended
  <2> QED
    BY <2>2, <2>3, NoneEnded
<1>4. ASSUME NEW w \in Workers, Expire(w)
      PROVE  EndingsReported'
  <2> DEFINE new == [session[token[w]] EXCEPT !.status = "expired"]
  <2>1. /\ session' = [session EXCEPT ![token[w]] = new]
        /\ pc[w] # "idle" /\ Report(copy[w].ip)
    BY <1>4 DEF Expire
  <2>2. token[w] \in Sessions /\ session[token[w]] \in Rows
    BY <1>0, <2>1 DEF IInv, WorkInv
  <2>3. new.ip = session[token[w]].ip
    BY <2>2 DEF Rows
  <2> QED
    BY <2>1, <2>3, SaveEndsOne
<1>5. ASSUME NEW w \in Workers, NEW ct \in Cases, NEW step \in Steps,
             NEW v \in Values, Fail(w, ct, step, v)
      PROVE  EndingsReported'
  <2> DEFINE row == Advanced(copy[w], ct, step, v)
             new == SavedFailed(session[token[w]], row)
  <2>1. /\ session' = [session EXCEPT ![token[w]] = new]
        /\ pc[w] # "idle" /\ Report(copy[w].ip)
    BY <1>5 DEF Fail, Accepts
  <2>2. session[token[w]] \in Rows /\ row \in Rows /\ RowFits(row)
    BY <1>5, AcceptedRow DEF Fail
  <2>3. new.ip = session[token[w]].ip
    BY <2>2, SavedRows DEF IInv
  <2> QED
    BY <2>1, <2>3, SaveEndsOne
<1>6. ASSUME NEW w \in Workers, NEW ct \in Cases, NEW step \in Steps,
             NEW v \in Values, Resolve(w, ct, step, v)
      PROVE  EndingsReported'
  <2> DEFINE row == Advanced(copy[w], ct, step, v)
  <2>1. PICK c \in row.ids :
          session' = [session EXCEPT ![token[w]] = SavedResolved(session[token[w]], row, c)]
    BY <1>6 DEF Resolve
  <2>2. /\ token[w] \in Sessions /\ session[token[w]] \in Rows
        /\ row \in Rows /\ RowFits(row) /\ row.ids \subseteq Candidates
    BY <1>6, AcceptedRow DEF Resolve
  <2> HIDE DEF row
  <2>3. SavedResolved(session[token[w]], row, c).status = "resolved"
    BY <2>1, <2>2, ResolvedRow DEF IInv
  <2>4. UNCHANGED reports
    BY <1>6 DEF Resolve
  <2> QED
    BY <2>1, <2>2, <2>3, <2>4, SaveEndsNone
<1>7. ASSUME NEW w \in Workers, NEW ct \in Cases, NEW step \in Steps,
             NEW v \in Values, Narrow(w, ct, step, v)
      PROVE  EndingsReported'
  <2> DEFINE row == Advanced(copy[w], ct, step, v)
             new == SavedNarrowed(session[token[w]], row)
  <2>1. session' = [session EXCEPT ![token[w]] = new] /\ UNCHANGED reports
    BY <1>7 DEF Narrow
  <2>2. /\ token[w] \in Sessions /\ session[token[w]] \in Rows
        /\ row \in Rows /\ RowFits(row)
    BY <1>7, AcceptedRow DEF Narrow
  <2>3. new.ip = session[token[w]].ip /\ new.status = session[token[w]].status
    BY <2>2, SavedRows DEF IInv
  <2> HIDE DEF new
  <2> QED
    BY <2>1, <2>2, <2>3, SaveEndsNone
<1>8. ASSUME NEW w \in Workers, NEW s \in Sessions, Read(w, s)
      PROVE  EndingsReported'
  BY <1>1, <1>8 DEF Read
<1> QED
  BY <1>1, <1>2, <1>3, <1>4, <1>5, <1>6, <1>7, <1>8
     DEF Next, Advance, StartAnonymous, StartRecruiter, Reject, Reveal, Tick, vars

\* However many workers end one session: each session that has failed or
\* expired was reported as a security failure of its address
\* (advance_lookup_session).
THEOREM LookupEndingsReported ==
  ASSUME IsFiniteSet(Sessions)
  PROVE  Spec => []EndingsReported
<1>1. Init => EndingsReported
  <2> SUFFICES ASSUME Init, NEW ip \in Ips
               PROVE  Cardinality(Ended(ip)) <= reports[ip]
    BY DEF EndingsReported, Ended
  <2>1. Ended(ip) = {} /\ reports[ip] = 0
    BY DEF Init, NoRow, Ended
  <2> QED
    BY <2>1, FS_EmptySet
<1>2. IInv /\ EndingsReported /\ [Next]_vars => EndingsReported'
  BY ReportedNext
<1> QED
  BY <1>1, <1>2, LookupInvariant, PTL DEF Spec

-----------------------------------------------------------------------------
(* What lookup sessions promise when the steps are served one after the    *)
(* other: a resolved session is left with the candidate that can be        *)
(* viewed, and a session lives the life of LookupLifecycle.  With a second *)
(* worker neither holds; see the README.                                   *)

OneWorker == \A v, w \in Workers : v = w

(* With one worker the row it holds is the stored row.                      *)
CopyIsStored ==
  \A w \in Workers :
    pc[w] # "idle" => copy[w] = session[token[w]] /\ copy[w].status = "active"

SerialInv == CopyIsStored /\ ResolvedIsUnique

StatusOf == [s \in Sessions |-> session[s].status]
Remaining == [s \in Sessions |-> session[s].ids]

\* The steps of a session as LookupLifecycle names them.
Moves(s, from, to, ids) ==
  /\ StatusOf[s] = from
  /\ StatusOf' = [StatusOf EXCEPT ![s] = to]
  /\ Remaining' = [Remaining EXCEPT ![s] = ids]

Lives(s) ==
  \/ \E ids \in SUBSET Candidates : Moves(s, "none", "active", ids)
  \/ \E ids \in SUBSET Candidates :
       ids # {} /\ ids \subseteq Remaining[s] /\ Moves(s, "active", "active", ids)
  \/ \E c \in Candidates : c \in Remaining[s] /\ Moves(s, "active", "resolved", {c})
  \/ Moves(s, "active", "failed", {})
  \/ Moves(s, "active", "expired", Remaining[s])

\* A saved row moves its session and no other.
LEMMA SaveMoves ==
  ASSUME IInv, NEW s \in Sessions, NEW new, session' = [session EXCEPT ![s] = new]
  PROVE  Moves(s, session[s].status, new.status, new.ids)
<1>1. session \in [Sessions -> Rows]
  BY DEF IInv, TypeOK
<1> QED
  BY <1>1 DEF Moves, StatusOf, Remaining

\* The end of the only worker's step preserves the invariant, if what it saved
\* is unique when resolved.
LEMMA SaveSerial ==
  ASSUME OneWorker, IInv, SerialInv, NEW w \in Workers, Release(w),
         NEW s \in Sessions, NEW new, session' = [session EXCEPT ![s] = new],
         new.status = "resolved" => new.ids = {new.matched}
  PROVE  SerialInv'
<1>1. session'[s] = new /\ \A t \in Sessions : t # s => session'[t] = session[t]
  BY DEF IInv, TypeOK
<1>2. ResolvedIsUnique'
  BY <1>1 DEF SerialInv, ResolvedIsUnique
<1>3. \A v \in Workers : pc'[v] = "idle"
  BY DEF OneWorker, Release, IInv, TypeOK
<1> QED
  BY <1>2, <1>3 DEF SerialInv, CopyIsStored

LEMMA StoreSerial ==
  ASSUME IInv, SerialInv, NEW s \in Sessions, NEW ip \in Ips,
         NEW ids \in SUBSET Candidates, Store(s, ip, ids)
  PROVE  SerialInv' /\ Lives(s)
<1> DEFINE new == NewSession(ip, ids)
<1>1. new.ids = ids /\ new.status = "active"
  BY NewSessionRow DEF IInv
<1>2. /\ session[s].status = "none" /\ session' = [session EXCEPT ![s] = new]
      /\ UNCHANGED <<pc, token, copy>>
  BY DEF Store
<1> HIDE DEF new
<1>3. session'[s] = new /\ \A t \in Sessions : t # s => session'[t] = session[t]
  BY <1>2 DEF IInv, TypeOK
<1>4. ResolvedIsUnique'
  BY <1>1, <1>3 DEF SerialInv, ResolvedIsUnique
<1>5. CopyIsStored'
  BY <1>2, <1>3 DEF SerialInv, CopyIsStored, IInv, WorkInv
<1>6. Moves(s, "none", "active", ids)
  BY <1>1, <1>2, SaveMoves
<1> QED
  BY <1>4, <1>5, <1>6 DEF SerialInv, Lives

LEMMA ExpireSerial ==
  ASSUME OneWorker, IInv, SerialInv, NEW w \in Workers, Expire(w)
  PROVE  SerialInv' /\ \E s \in Sessions : Lives(s)
<1> DEFINE s == token[w]
           new == [session[s] EXCEPT !.status = "expired"]
<1>1. /\ pc[w] # "idle" /\ Release(w)
      /\ session' = [session EXCEPT ![s] = new]
  BY DEF Expire
<1>2. /\ s \in Sessions /\ session[s] \in Rows /\ session[s].status = "active"
      /\ Remaining[s] = session[s].ids
  BY <1>1 DEF IInv, TypeOK, WorkInv, SerialInv, CopyIsStored, Remaining
<1>3. new.status = "expired" /\ new.ids = session[s].ids
  BY <1>2 DEF Rows
<1> HIDE DEF new
<1>4. SerialInv'
  BY <1>1, <1>2, <1>3, SaveSerial
<1>5. Moves(s, "active", "expired", Remaining[s])
  BY <1>1, <1>2, <1>3, SaveMoves
<1> QED
  BY <1>2, <1>4, <1>5 DEF Lives

\* What the only worker has when its step was accepted.
LEMMA AcceptedSerial ==
  ASSUME OneWorker, IInv, SerialInv, NEW w \in Workers, NEW ct \in Cases,
         NEW step \in Steps, NEW v \in Values, Accepts(w, ct, step)
  PROVE  LET s == token[w]  row == Advanced(copy[w], ct, step, v) IN
         /\ s \in Sessions /\ session[s] \in Rows /\ session[s].status = "active"
         /\ row \in Rows /\ RowFits(row)
         /\ row.ids \subseteq Remaining[s] /\ row.ids \subseteq Candidates
<1>1. pc[w] # "idle"
  BY DEF Accepts
<1>2. copy[w] = session[token[w]] /\ copy[w].status = "active"
  BY <1>1 DEF SerialInv, CopyIsStored
<1> QED
  BY <1>2, AcceptedRow DEF Remaining

LEMMA FailSerial ==
  ASSUME OneWorker, IInv, SerialInv, NEW w \in Workers, NEW ct \in Cases,
         NEW step \in Steps, NEW v \in Values, Fail(w, ct, step, v)
  PROVE  SerialInv' /\ \E s \in Sessions : Lives(s)
<1> DEFINE s == token[w]
           row == Advanced(copy[w], ct, step, v)
           new == SavedFailed(session[s], row)
<1>1. /\ s \in Sessions /\ session[s] \in Rows /\ session[s].status = "active"
      /\ row \in Rows /\ RowFits(row)
  BY AcceptedSerial DEF Fail
<1>2. row.ids = {} /\ session' = [session EXCEPT ![s] = new] /\ Release(w)
  BY DEF Fail
<1> HIDE DEF row
<1>3. new.ids = row.ids /\ new.status = "failed"
  BY <1>1, SavedRows DEF IInv
<1> HIDE DEF new
<1>4. SerialInv'
  BY <1>1, <1>2, <1>3, SaveSerial
<1>5. Moves(s, "active", "failed", {})
  BY <1>1, <1>2, <1>3, SaveMoves
<1> QED
  BY <1>1, <1>4, <1>5 DEF Lives

LEMMA ResolveSerial ==
  ASSUME OneWorker, IInv, SerialInv, NEW w \in Workers, NEW ct \in Cases,
         NEW step \in Steps, NEW v \in Values, Resolve(w, ct, step, v)
  PROVE  SerialInv' /\ \E s \in Sessions : Lives(s)
<1> DEFINE s == token[w]
           row == Advanced(copy[w], ct, step, v)
<1>1. /\ s \in Sessions /\ session[s] \in Rows /\ session[s].status = "active"
      /\ row \in Rows /\ RowFits(row)
      /\ row.ids \subseteq Remaining[s] /\ row.ids \subseteq Candidates
  BY AcceptedSerial DEF Resolve
<1>2. PICK c \in row.ids :
        /\ row.ids = {c}
        /\ session' = [session EXCEPT ![s] = SavedResolved(session[s], row, c)]
  BY DEF Resolve
<1>3. Release(w)
  BY DEF Resolve
<1> HIDE DEF row
<1> DEFINE new == SavedResolved(session[s], row, c)
<1>4. new.ids = row.ids /\ new.status = "resolved" /\ new.matched = c
  <2>1. TypeOK /\ c \in Candidates
    BY <1>1, <1>2 DEF IInv
  <2> QED
    BY <1>1, <2>1, ResolvedRow
<1>5. session' = [session EXCEPT ![s] = new]
  BY <1>2
<1> HIDE DEF new
<1>6. new.ids = {c} /\ new.ids = {new.matched}
  BY <1>2, <1>4
<1>7. SerialInv'
  BY <1>1, <1>3, <1>5, <1>6, SaveSerial
<1>8. Moves(s, "active", "resolved", {c})
  BY <1>1, <1>4, <1>5, <1>6, SaveMoves
<1>9. c \in Candidates /\ c \in Remaining[s]
  BY <1>1, <1>2
<1> QED
  BY <1>1, <1>7, <1>8, <1>9 DEF Lives

LEMMA NarrowSerial ==
  ASSUME OneWorker, IInv, SerialInv, NEW w \in Workers, NEW ct \in Cases,
         NEW step \in Steps, NEW v \in Values, Narrow(w, ct, step, v)
  PROVE  SerialInv' /\ \E s \in Sessions : Lives(s)
<1> DEFINE s == token[w]
           row == Advanced(copy[w], ct, step, v)
           new == SavedNarrowed(session[s], row)
<1>1. /\ s \in Sessions /\ session[s] \in Rows /\ session[s].status = "active"
      /\ row \in Rows /\ RowFits(row)
      /\ row.ids \subseteq Remaining[s] /\ row.ids \subseteq Candidates
  BY AcceptedSerial DEF Narrow
<1>2. row.ids # {} /\ session' = [session EXCEPT ![s] = new] /\ Release(w)
  BY DEF Narrow
<1> HIDE DEF row
<1>3. new.ids = row.ids /\ new.status = "active"
  BY <1>1, SavedRows DEF IInv
<1> HIDE DEF new
<1>4. SerialInv'
  BY <1>1, <1>2, <1>3, SaveSerial
<1>5. Moves(s, "active", "active", row.ids)
  BY <1>1, <1>2, <1>3, SaveMoves
<1> QED
  BY <1>1, <1>2, <1>4, <1>5 DEF Lives

LEMMA ReadSerial ==
  ASSUME OneWorker, IInv, SerialInv, NEW w \in Workers, NEW s \in Sessions, Read(w, s)
  PROVE  SerialInv' /\ UNCHANGED session
<1>1. /\ session[s].status = "active" /\ UNCHANGED session
      /\ token'[w] = s /\ copy'[w] = session[s]
      /\ \A v \in Workers : v = w
  BY DEF Read, OneWorker, IInv, TypeOK
<1> QED
  BY <1>1 DEF SerialInv, CopyIsStored, ResolvedIsUnique

LEMMA RejectSerial ==
  ASSUME OneWorker, IInv, SerialInv, NEW w \in Workers, Reject(w)
  PROVE  SerialInv' /\ UNCHANGED session
<1>1. UNCHANGED session /\ \A v \in Workers : pc'[v] = "idle"
  BY DEF Reject, Release, OneWorker, IInv, TypeOK
<1> QED
  BY <1>1 DEF SerialInv, CopyIsStored, ResolvedIsUnique

LEMMA SerialNext ==
  ASSUME OneWorker, IInv, SerialInv, [Next]_vars
  PROVE  /\ SerialInv'
         /\ (\E s \in Sessions : Lives(s)) \/ UNCHANGED session
<1>1. ASSUME UNCHANGED <<session, pc, token, copy>>
      PROVE  SerialInv' /\ UNCHANGED session
  BY <1>1 DEF SerialInv, CopyIsStored, ResolvedIsUnique
<1>2. ASSUME NEW s \in Sessions, NEW ip \in Ips, NEW ids \in SUBSET Candidates,
             StartAnonymous(s, ip, ids) \/ StartRecruiter(s, ip, ids)
      PROVE  SerialInv' /\ \E t \in Sessions : Lives(t)
  BY <1>2, StoreSerial DEF StartAnonymous, StartRecruiter
<1>3. ASSUME NEW w \in Workers, Advance(w)
      PROVE  /\ SerialInv'
             /\ (\E s \in Sessions : Lives(s)) \/ UNCHANGED session
  <2>1. CASE \E s \in Sessions : Read(w, s)
    BY <2>1, ReadSerial
  <2>2. CASE \E s \in Sessions, ip \in Ips : ReadInvalid(w, s, ip)
    BY <1>1, <2>2 DEF ReadInvalid
  <2>3. CASE Expire(w)
    BY <2>3, ExpireSerial
  <2>4. CASE Reject(w)
    BY <2>4, RejectSerial
  <2>5. CASE \E ct \in Cases, step \in Steps, v \in Values :
               Fail(w, ct, step, v) \/ Resolve(w, ct, step, v) \/ Narrow(w, ct, step, v)
    BY <2>5, FailSerial, ResolveSerial, NarrowSerial
  <2> QED
    BY <1>3, <2>1, <2>2, <2>3, <2>4, <2>5 DEF Advance
<1>4. CASE \E s \in Sessions, ip \in Ips : Reveal(s, ip)
  BY <1>1, <1>4 DEF Reveal
<1>5. CASE Tick
  BY <1>1, <1>5 DEF Tick
<1>6. CASE UNCHANGED vars
  BY <1>1, <1>6 DEF vars
<1> QED
  BY <1>2, <1>3, <1>4, <1>5, <1>6 DEF Next

LEMMA SerialInit == Init => SerialInv
  BY DEF Init, SerialInv, CopyIsStored, ResolvedIsUnique, NoRow

\* Steps served one at a time work on the stored row.
THEOREM SerialInvariant ==
  ASSUME OneWorker
  PROVE  Spec => [](IInv /\ SerialInv)
<1>1. IInv /\ SerialInv /\ [Next]_vars => SerialInv'
  BY SerialNext
<1> QED
  BY <1>1, SerialInit, InitIInv, NextIInv, PTL DEF Spec

\* Served one at a time, the steps of advance_lookup_session leave a resolved
\* session with the candidate that can be viewed, and no other.
THEOREM SerialResolvedIsUnique ==
  ASSUME OneWorker
  PROVE  Spec => []ResolvedIsUnique
<1>1. SerialInv => ResolvedIsUnique
  BY DEF SerialInv
<1> QED
  BY <1>1, SerialInvariant, PTL

\* Served one at a time, the handlers of candidates/services.py take a session
\* through the life of LookupLifecycle: it narrows, and ends for good.
THEOREM SerialImplementsLifecycle ==
  ASSUME OneWorker
  PROVE  Spec => ImplementsLifecycle
<1>1. Init => Lifecycle!Init
  BY DEF Init, Lifecycle!Init, NoRow
<1>2. IInv /\ SerialInv /\ [Next]_vars => [Lifecycle!Next]_(Lifecycle!vars)
  <2> SUFFICES ASSUME IInv, SerialInv, [Next]_vars
               PROVE  [Lifecycle!Next]_(Lifecycle!vars)
    OBVIOUS
  <2>1. CASE UNCHANGED session
    BY <2>1 DEF Lifecycle!vars
  <2>2. CASE \E s \in Sessions : Lives(s)
    BY <2>2
       DEF Lives, Moves, StatusOf, Remaining, Lifecycle!Next, Lifecycle!Start,
           Lifecycle!Narrow, Lifecycle!Resolve, Lifecycle!Fail,
           Lifecycle!Expire, Lifecycle!Move
  <2> QED
    BY <2>1, <2>2, SerialNext
<1> QED
  BY <1>1, <1>2, SerialInvariant, PTL DEF Spec, Lifecycle!Spec, ImplementsLifecycle

-----------------------------------------------------------------------------
(* The columns, filters and masks (CandidateFields), for all texts, forms    *)
(* and days.                                                                 *)

\* What create_candidate_record makes of a form.
LEMMA CreatedRow ==
  ASSUME NEW form
  PROVE  LET row == Created(form) IN
         /\ row.first_name_norm = NormalizeToken(Strip[form.first_name])
         /\ row.last_name_norm = NormalizeToken(Strip[form.last_name])
         /\ row.gender = form.gender /\ row.birth_date = form.birth_date
         /\ row.age_years = IF form.age = 0 THEN NoAge ELSE form.age
         /\ row.country = Strip[form.country] /\ row.region = Strip[form.region]
         /\ row.city = Strip[form.city]
         /\ row.hair_color = IF form.hair_color = Blank THEN HairColor.andere
                             ELSE Number[form.hair_color]
         /\ row.primary_email = Lower[Strip[form.email]]
         /\ row.primary_phone = Strip[form.phone]
         /\ row.dating_profile_url = form.social_url
         /\ row.dating_platform = IF form.social_url = NoUrl THEN NoPlatform
                                  ELSE DetectSocialPlatform(form.social_url)
BY DEF Created, Saved, EmailColumn

\* Its name is the one that the filters look for.
LEMMA SameToken ==
  ASSUME NEW t \in Texts PROVE NormalizeToken(Strip[t]) = NormalizeToken(t)
BY TextsAssumption DEF NormalizeToken

\* Whoever is of an age was born in one of its years of birth.
LEMMA BornInBirthYears ==
  ASSUME NEW born \in Int, NEW year \in Int, born <= year, NEW late \in {0, 1},
         NEW years, years = year - born - late,
         NEW age, age = IF years < 0 THEN 0 ELSE years
  PROVE  born \in {year - age, year - age - 1}
OBVIOUS

\* Who types what was typed at the creation finds the row at every step.
LEMMA CreatedIsFound ==
  ASSUME NEW form \in Forms, NEW today \in Dates
  PROVE  FoundAsCreated(form, today)
<1> DEFINE row == Created(form)
           age == CurrentAge(row, today)
           Finds(f, v) == FieldFilter({row}, f, v, today) = {row}
<1>1. /\ form.last_name \in Texts /\ form.email \in Texts /\ form.phone \in Texts
      /\ form.city \in Texts /\ form.hair_color \in DOMAIN Number \cup {Blank}
      /\ form.birth_date \in Dates \cup {NoDate}
  BY FormsAssumption
<1>2. ASSUME NormalizeToken(form.last_name) # NoToken
      PROVE  Finds("last_name", form.last_name)
  <2>1. row.last_name_norm = NormalizeToken(form.last_name)
    BY <1>1, CreatedRow, SameToken
  <2> HIDE DEF row
  <2> QED
    BY <1>2, <2>1 DEF FieldFilter, LastNameFilter, FuzzyMatch
<1>3. Finds("email", form.email)
  <2>1. row.primary_email = Lower[Strip[form.email]]
    BY CreatedRow
  <2>2. SameText(row.primary_email, Strip[form.email])
    BY <1>1, <2>1, TextsAssumption DEF SameText
  <2> HIDE DEF row
  <2> QED
    BY <2>2 DEF FieldFilter, EmailFilter
<1>4. Finds("phone", form.phone)
  <2>1. row.primary_phone = Strip[form.phone]
    BY CreatedRow
  <2> HIDE DEF row
  <2> QED
    BY <2>1 DEF FieldFilter, PhoneFilter
<1>5. Finds("city", form.city)
  <2>1. row.city = Strip[form.city]
    BY CreatedRow
  <2> HIDE DEF row
  <2> QED
    BY <2>1 DEF FieldFilter, CityFilter, SameText
<1>6. Finds("birth_date", form.birth_date)
  <2>1. row.birth_date = form.birth_date
    BY CreatedRow
  <2> HIDE DEF row
  <2> QED
    BY <2>1 DEF FieldFilter, BirthDateFilter
<1>7. ASSUME DetectSocialPlatform(form.social_url) # NoPlatform
      PROVE  Finds("social_url", form.social_url)
  <2>1. form.social_url # NoUrl
    BY <1>7 DEF DetectSocialPlatform, PlatformOf
  <2>2. /\ row.dating_profile_url = form.social_url
        /\ row.dating_platform = DetectSocialPlatform(form.social_url)
    BY <2>1, CreatedRow
  <2> HIDE DEF row
  <2> QED
    BY <1>7, <2>2 DEF FieldFilter, SocialFilter
<1>8. ASSUME form.hair_color # Blank PROVE Finds("hair_color", form.hair_color)
  <2>1. form.hair_color \in DOMAIN Number /\ row.hair_color = Number[form.hair_color]
    BY <1>1, <1>8, CreatedRow
  <2> HIDE DEF row
  <2> QED
    BY <2>1 DEF FieldFilter, HairColorFilter
<1>9. ASSUME age # NoAge, row.birth_date # NoDate => row.birth_date.year <= today.year
      PROVE  Finds("age", age)
  <2>1. row.birth_date \in Dates \cup {NoDate}
    BY <1>1, CreatedRow
  <2> HIDE DEF row
  <2>2. CASE row.birth_date = NoDate
    <3>1. age = row.age_years
      BY <2>2 DEF CurrentAge
    <3> QED
      BY <1>9, <3>1 DEF FieldFilter, AgeFilter
  <2>3. CASE row.birth_date # NoDate
    <3>1. PICK late \in {0, 1} : late = IF today.day < row.birth_date.day THEN 1 ELSE 0
      OBVIOUS
    <3>2. PICK years : years = today.year - row.birth_date.year - late
      OBVIOUS
    <3>3. age = IF years < 0 THEN 0 ELSE years
      BY <2>3, <3>1, <3>2 DEF CurrentAge
    <3>4. row.birth_date.year \in Int /\ today.year \in Int
      BY <2>1, <2>3, DatesAssumption
    <3>5. row.birth_date.year \in BirthYears(age, today)
      <4> HIDE DEF age
      <4> QED
        BY <1>9, <2>3, <3>2, <3>3, <3>4, BornInBirthYears DEF BirthYears
    <3> QED
      BY <1>9, <2>3, <3>5 DEF FieldFilter, AgeFilter
  <2> QED
    BY <2>2, <2>3
<1> QED
  BY <1>2, <1>3, <1>4, <1>5, <1>6, <1>7, <1>8, <1>9 DEF FoundAsCreated

\* Who types a text that was approved finds the row.
LEMMA EnrichedIsFound ==
  ASSUME NEW form \in Forms, NEW t \in Texts, NEW today
  PROVE  FoundAsEnriched(form, t, today)
<1> SUFFICES ASSUME Strip[t] = t
             PROVE  \A f \in {<<"secondary_email", "email">>, <<"secondary_phone", "phone">>,
                              <<"city", "city">>} :
                      LET row == Enriched(Created(form), f[1], t) IN
                      FieldFilter({row}, f[2], t, today) = {row}
  BY DEF FoundAsEnriched
<1>1. PICK email : email = Enriched(Created(form), "secondary_email", t)
  OBVIOUS
<1>2. email.secondary_email = t
  BY <1>1 DEF Enriched, Saved, Created
<1>3. FieldFilter({email}, "email", t, today) = {email}
  BY <1>2 DEF FieldFilter, EmailFilter, SameText
<1>4. PICK phone : phone = Enriched(Created(form), "secondary_phone", t)
  OBVIOUS
<1>5. phone.secondary_phone = t
  BY <1>4 DEF Enriched, Saved, Created
<1>6. FieldFilter({phone}, "phone", t, today) = {phone}
  BY <1>5 DEF FieldFilter, PhoneFilter
<1>7. PICK city : city = Enriched(Created(form), "city", t)
  OBVIOUS
<1>8. city.city = t
  BY <1>7 DEF Enriched, Saved, Created
<1>9. FieldFilter({city}, "city", t, today) = {city}
  BY <1>8 DEF FieldFilter, CityFilter, SameText
<1> QED
  BY <1>1, <1>3, <1>4, <1>6, <1>7, <1>9

\* Who types the name and the place of a row is told of it, where not too many
\* rows begin like it.
LEMMA FoundInEveryPlace ==
  ASSUME NEW form \in Forms, NEW others
  PROVE  FoundInPlace(form, others)
<1> DEFINE row == Created(form)
           rows == {row} \cup {Created(o) : o \in others}
           all == Prefiltered(rows, form)
<1> SUFFICES ASSUME NormalizeToken(form.first_name) # NoToken, Cardinality(all) <= QuickLimit,
                    NEW ids \in InitialCandidates(rows, form)
             PROVE  row \in ids
  BY DEF FoundInPlace
<1>1. /\ form.first_name \in Texts
      /\ row.first_name_norm = NormalizeToken(form.first_name)
      /\ row.country = Strip[form.country] /\ row.region = Strip[form.region]
      /\ row.gender = form.gender
  BY FormsAssumption, CreatedRow, SameToken
<1>2. row \in rows
  OBVIOUS
<1>3. InitialCandidates(rows, form) =
        {{r \in all : FuzzyMatch(NormalizeToken(form.first_name), r.first_name_norm)}}
  BY DEF InitialCandidates
<1> HIDE DEF row, rows
<1>4. row \in all
  BY <1>1, <1>2 DEF Prefiltered, SameText
<1> HIDE DEF all
<1> QED
  BY <1>1, <1>3, <1>4 DEF FuzzyMatch

\* Whoever types the data of a candidate truthfully is told of the candidate at
\* every step, whatever texts, forms and days there are.
THEOREM LookupFoundByOwnData == Spec => []FoundByOwnData
<1>1. DaysFound = Dates
  BY CreatedIsFound, EnrichedIsFound DEF DaysFound
<1>2. EveryPlaceFound
  BY FoundInEveryPlace DEF EveryPlaceFound
<1>3. TypeOK => FoundByOwnData
  <2> SUFFICES ASSUME TypeOK, NEW first \in 1 .. Len(Calendar) - Today
               PROVE  Calendar[first + Today] \in DaysFound
    BY <1>2 DEF FoundByOwnData
  <2>1. Today \in Nat
    BY TodayIsDay DEF Days
  <2>2. first + Today \in 1 .. Len(Calendar)
    BY <2>1, CalendarAssumption
  <2> QED
    BY <1>1, <2>2, CalendarAssumption
<1> QED
  BY <1>3, LookupTypeOK, PTL

\* No view shows a whole name, e-mail or number, of whatever length.
THEOREM LookupMasksHide == Spec => []MasksHide
<1>1. \A n \in Nat \ {0} :
        /\ n >= 2 => \A f \in DOMAIN Masked(n) : 1 .. n \ Masked(n)[f] # {}
        /\ 1 .. n \ Masked(n).masked_phone # {}
  <2> SUFFICES ASSUME NEW n \in Nat \ {0}
               PROVE  /\ n >= 2 => 1 .. n \ MaskText(n) # {}
                      /\ 1 .. n \ MaskPhone(n) # {}
    BY DEF Masked
  <2>1. n >= 2 => 2 \in 1 .. n \ MaskText(n)
    BY DEF MaskText, Short
  <2>2. (IF n <= 4 THEN 1 ELSE 3) \in 1 .. n \ MaskPhone(n)
    BY DEF MaskPhone
  <2> QED
    BY <2>1, <2>2
<1>2. MasksHide
  BY <1>1 DEF MasksHide, LengthsHidden
<1> QED
  BY <1>2, PTL
=============================================================================
