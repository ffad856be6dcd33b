------------------------------ MODULE GateProofs ------------------------------
(***************************************************************************)
(* What the gate promises for any number of addresses, clients, captchas,  *)
(* tokens and workers: the type invariant, whom a token lets in, how       *)
(* strikes are counted and bans extended, and how many answers to a        *)
(* captcha are compared.                                                   *)
(***************************************************************************)
EXTENDS Gate, FiniteSetTheorems, TLAPS

-----------------------------------------------------------------------------
(* Types, with the bound on strikes. *)

Checks == {"counting", "counted", "judging", "issuing"}

\* A worker at work has a client, and with a captcha in hand, the captcha.
JobsFit ==
  \A w \in Workers :
    /\ job[w].pc # "idle" => job[w].client \in Clients
    /\ job[w].pc \in Checks => job[w].captcha \in Captchas

\* A failure is registered before it is saved, so that neither the row nor a
\* copy of it has more strikes than there were failures to count.
StrikesBounded ==
  /\ \A ip \in Ips :
       /\ failures[ip] \in 0 .. MaxFailures
       /\ ban[ip].strikes <= failures[ip] + 1
       /\ failures[ip] = 0 <=> ban[ip] = NoBan
       /\ ban[ip] # NoBan => ban[ip].strikes > 0
  /\ \A w \in Workers :
       job[w].pc = "saving" =>
         job[w].strikes > 0 /\ job[w].strikes <= failures[IpOf[job[w].client]]

\* A token was issued at some time, to live for TTL.
TokensTimed ==
  \A t \in Tokens : gate[t] # NoGate => TTL < gate[t].expires /\ gate[t].expires <= now + TTL

TypeInv == TypeOK /\ JobsFit /\ StrikesBounded /\ TokensTimed

LEMMA InitType == Init => TypeInv
BY ClientsAssumption, CaptchasAssumption, TimesAssumption
   DEF Init, TypeInv, TypeOK, JobsFit, StrikesBounded, TokensTimed, NoCaptchaRow, Captcha, NoGate, Gates,
       NoBan, Bans, NoJob, Jobs, NoPass, Checks

\* A worker that ends, and changes neither bans nor failures.
LEMMA ReleaseType ==
  ASSUME TypeInv, NEW w \in Workers, Release(w)
  PROVE  /\ job' \in [Workers -> Jobs]
         /\ JobsFit'
         /\ UNCHANGED <<ban, failures>> => StrikesBounded'
<1>1. NoJob \in Jobs /\ NoJob.pc = "idle"
  BY DEF NoJob, Jobs
<1>2. job'[w] = NoJob /\ \A x \in Workers : x # w => job'[x] = job[x]
  BY DEF Release, TypeInv, TypeOK
<1>3. job' \in [Workers -> Jobs]
  BY <1>1 DEF Release, TypeInv, TypeOK
<1>4. JobsFit'
  BY <1>1, <1>2 DEF TypeInv, JobsFit, Checks
<1> QED
  BY <1>1, <1>2, <1>3, <1>4 DEF TypeInv, StrikesBounded

\* A worker that goes on to another step, not that of saving a strike.
LEMMA GoOnType ==
  ASSUME TypeInv, NEW w \in Workers, NEW new \in Jobs, job' = [job EXCEPT ![w] = new],
         new.client \in Clients, new.pc \in Checks => new.captcha \in Captchas,
         new.pc # "saving"
  PROVE  /\ job' \in [Workers -> Jobs]
         /\ JobsFit'
         /\ UNCHANGED <<ban, failures>> => StrikesBounded'
<1>1. job'[w] = new /\ \A x \in Workers : x # w => job'[x] = job[x]
  BY DEF TypeInv, TypeOK
<1>2. job' \in [Workers -> Jobs]
  BY DEF TypeInv, TypeOK
<1>3. JobsFit'
  BY <1>1 DEF TypeInv, JobsFit
<1> QED
  BY <1>1, <1>2, <1>3 DEF TypeInv, StrikesBounded

LEMMA AnswerType ==
  ASSUME TypeInv, NEW w \in Workers, NEW c \in Clients, NEW k \in Captchas,
         NEW right \in BOOLEAN, Answer(w, c, k, right)
  PROVE  TypeInv'
<1> DEFINE new == [NoJob EXCEPT !.pc = "counting", !.client = c, !.captcha = k, !.right = right]
<1>1. new \in Jobs /\ new.pc = "counting" /\ new.client = c /\ new.captcha = k
  BY DEF NoJob, Jobs
<1>2. job' = [job EXCEPT ![w] = new]
      /\ UNCHANGED <<now, captcha, gate, ban, login, judged, solvers, failures, clashed, deaths, last>>
      /\ raced' \in {raced, raced \cup {k}}
  BY DEF Answer
<1> HIDE DEF new
<1>3. job' \in [Workers -> Jobs] /\ JobsFit' /\ StrikesBounded'
  BY <1>1, <1>2, GoOnType DEF Checks
<1> QED
  BY <1>2, <1>3 DEF TypeInv, TypeOK, TokensTimed

LEMMA CheckType ==
  ASSUME TypeInv, NEW w \in Workers, Count(w) \/ Refresh(w) \/ Solve(w) \/ Mismatch(w)
  PROVE  TypeInv'
<1> DEFINE k == job[w].captcha
<1>1. job[w] \in Jobs /\ job[w].pc \in {"counting", "counted", "judging"}
      /\ job[w].client \in Clients /\ k \in Captchas /\ captcha[k] \in Captcha
  BY DEF Count, Refresh, Solve, Mismatch, TypeInv, TypeOK, JobsFit, Checks
<1>2. PICK pc \in {"counted", "judging", "issuing", "failing"}, n \in Nat :
        job' = [job EXCEPT ![w] = [job[w] EXCEPT !.pc = pc, !.attempts = n]]
  <2>1. CASE Count(w)
    <3>1. job' = [job EXCEPT ![w] = [job[w] EXCEPT !.pc = "counted", !.attempts = job[w].attempts]]
      BY <1>1, <2>1 DEF Count, Jobs, TypeInv, TypeOK
    <3> QED
      BY <1>1, <3>1 DEF Jobs
  <2>2. CASE Refresh(w)
    <3> DEFINE n == CountedSoFar(k)
    <3>1. n \in Nat
      BY <1>1 DEF CountedSoFar, Captcha
    <3>2. PICK pc \in {"failing", "judging"} :
            job' = [job EXCEPT ![w].attempts = n, ![w].pc = pc]
      BY <2>2 DEF Refresh
    <3> HIDE DEF n
    <3>3. job' = [job EXCEPT ![w] = [job[w] EXCEPT !.pc = pc, !.attempts = n]]
      BY <1>1, <3>2 DEF Jobs, TypeInv, TypeOK
    <3> QED
      BY <3>1, <3>3
  <2>3. CASE Solve(w)
    <3>1. job' = [job EXCEPT ![w] = [job[w] EXCEPT !.pc = "issuing", !.attempts = job[w].attempts]]
      BY <1>1, <2>3 DEF Solve, Jobs, TypeInv, TypeOK
    <3> QED
      BY <1>1, <3>1 DEF Jobs
  <2>4. CASE Mismatch(w)
    <3>1. job' = [job EXCEPT ![w] = [job[w] EXCEPT !.pc = "failing", !.attempts = job[w].attempts]]
      BY <1>1, <2>4 DEF Mismatch, Jobs, TypeInv, TypeOK
    <3> QED
      BY <1>1, <3>1 DEF Jobs
  <2> QED
    BY <2>1, <2>2, <2>3, <2>4
<1> DEFINE new == [job[w] EXCEPT !.pc = pc, !.attempts = n]
<1>3. new \in Jobs /\ new.pc = pc /\ new.client = job[w].client /\ new.captcha = k
  BY <1>1 DEF Jobs
<1> HIDE DEF new
<1>4. job' = [job EXCEPT ![w] = new]
  BY <1>2 DEF new
<1>5. /\ job' \in [Workers -> Jobs] /\ JobsFit'
      /\ UNCHANGED <<ban, failures>> => StrikesBounded'
  BY <1>1, <1>3, <1>4, GoOnType
<1>6. captcha' \in [Captchas -> Captcha]
  <2>1. PICK row \in Captcha : captcha' = captcha \/ captcha' = [captcha EXCEPT ![k] = row]
    <3>1. [captcha[k] EXCEPT !.attempts = @ + 1] \in Captcha
          /\ [captcha[k] EXCEPT !.solved = TRUE] \in Captcha
      <4>1. captcha[k].attempts + 1 \in Nat
        BY <1>1 DEF Captcha
      <4> QED
        BY <1>1, <4>1 DEF Captcha
    <3>2. CASE Count(w)
      BY <3>1, <3>2 DEF Count, TypeInv, TypeOK
    <3>3. CASE Solve(w)
      BY <3>1, <3>3 DEF Solve, Solved, TypeInv, TypeOK
    <3> QED
      BY <1>1, <3>2, <3>3 DEF Refresh, Mismatch
  <2> QED
    BY <2>1 DEF TypeInv, TypeOK
<1>7. judged' \in [Captchas -> Nat] /\ solvers' \in [Captchas -> SUBSET Clients]
  BY <1>1 DEF Count, Refresh, Solve, Mismatch, Compared, history, TypeInv, TypeOK
<1> QED
  BY <1>5, <1>6, <1>7 DEF Count, Refresh, Solve, Mismatch, history, TypeInv, TypeOK, TokensTimed

LEMMA IssueType ==
  ASSUME TypeInv, NEW w \in Workers, NEW t \in Tokens, Issue(w, t)
  PROVE  TypeInv'
<1>1. job[w].client \in Clients /\ job[w].captcha \in Captchas
  BY DEF Issue, TypeInv, JobsFit, Checks
<1>2. job' \in [Workers -> Jobs] /\ JobsFit' /\ StrikesBounded'
  BY ReleaseType DEF Issue, history
<1>3. gate' \in [Tokens -> Gates]
  BY <1>1, TimesAssumption DEF Issue, TypeInv, TypeOK, Gates
<1>4. TokensTimed'
  <2>1. now \in Nat /\ 0 < now /\ UNCHANGED now
    BY TimesAssumption DEF Issue, TypeInv, TypeOK
  <2>2. \A x \in Tokens : gate'[x] = gate[x] \/ gate'[x].expires = now + TTL
    BY DEF Issue, TypeInv, TypeOK
  <2> QED
    BY <2>1, <2>2, TimesAssumption DEF TypeInv, TokensTimed
<1> QED
  BY <1>2, <1>3, <1>4 DEF Issue, history, TypeInv, TypeOK

LEMMA LetInType ==
  ASSUME TypeInv, NEW w \in Workers, NEW c \in Clients, LetIn(w, c)
  PROVE  /\ job' \in [Workers -> Jobs]
         /\ JobsFit'
         /\ UNCHANGED <<ban, failures>> => StrikesBounded'
<1> DEFINE new == [NoJob EXCEPT !.pc = "failing", !.client = c]
<1>1. new \in Jobs /\ new.pc = "failing" /\ new.client = c
  BY DEF NoJob, Jobs
<1>2. CASE job' = job
  BY <1>2 DEF TypeInv, TypeOK, JobsFit, StrikesBounded
<1>3. CASE job' = [job EXCEPT ![w] = new]
  <2> HIDE DEF new
  <2> QED
    BY <1>1, <1>3, GoOnType DEF Checks
<1> QED
  BY <1>2, <1>3 DEF LetIn

\* A token that is valid for a client is the client's.
LEMMA ValidRow ==
  ASSUME TypeInv, NEW t \in Tokens, NEW c \in Clients, Valid(t, c)
  PROVE  /\ gate[t] # NoGate /\ gate[t] \in Gates /\ gate[t].client = c
         /\ now \in Nat /\ gate[t].expires \in Nat
         /\ now < gate[t].expires /\ gate[t].expires <= now + TTL /\ TTL < gate[t].expires
BY ClientsAssumption, TimesAssumption DEF Valid, NoGate, TypeInv, TypeOK, Gates, TokensTimed

\* Being let in for a token.
LEMMA PassedType ==
  ASSUME TypeInv, NEW t \in Tokens, NEW c \in Clients, Valid(t, c), Passed(t, c)
  PROVE  last' \in [client: Clients \cup {NoClient}, source: Captchas \cup {NoCaptcha},
                    at: Nat, issued: Nat]
<1>1. gate[t].expires - TTL \in Nat /\ now \in Nat /\ gate[t] \in Gates
  BY ValidRow, TimesAssumption
<1> QED
  BY <1>1 DEF Passed, Gates

LEMMA FailType ==
  ASSUME TypeInv, NEW w \in Workers, Fail(w)
  PROVE  TypeInv'
<1> DEFINE ip == IpOf[job[w].client]  until == now + BanTime  row == Found(ip, until)
<1>1. job[w] \in Jobs /\ job[w].client \in Clients /\ ip \in Ips /\ until \in Nat
  BY ClientsAssumption, TimesAssumption DEF Fail, TypeInv, TypeOK, JobsFit
<1>2. /\ failures[ip] < MaxFailures
      /\ failures' = [failures EXCEPT ![ip] = @ + 1]
      /\ ban' = [ban EXCEPT ![ip] = row]
      /\ job' = [job EXCEPT ![w].pc = "saving", ![w].strikes = row.strikes, ![w].until = until]
  BY DEF Fail
<1>3. /\ row \in Bans /\ row.strikes > 0 /\ row.strikes <= failures[ip] + 1 /\ row # NoBan
      /\ row.strikes \in Nat /\ failures[ip] \in Nat
  BY <1>1, TimesAssumption
     DEF Found, FirstFailure, NoBan, Bans, TypeInv, TypeOK, StrikesBounded
<1> DEFINE new == [job[w] EXCEPT !.pc = "saving", !.strikes = row.strikes, !.until = until]
<1>4. job' = [job EXCEPT ![w] = new]
  BY <1>1, <1>2 DEF TypeInv, TypeOK, Jobs
<1>5. new \in Jobs /\ new.pc = "saving" /\ new.client = job[w].client /\ new.strikes = row.strikes
  BY <1>1, <1>3 DEF Jobs
<1> HIDE DEF new, ip, until, row
<1>6. job'[w] = new /\ \A x \in Workers : x # w => job'[x] = job[x]
  BY <1>4 DEF TypeInv, TypeOK
<1>7. /\ failures'[ip] = failures[ip] + 1
      /\ \A i \in Ips : i # ip => failures'[i] = failures[i]
      /\ ban'[ip] = row /\ \A i \in Ips : i # ip => ban'[i] = ban[i]
  BY <1>1, <1>2 DEF TypeInv, TypeOK
<1>8. job' \in [Workers -> Jobs] /\ ban' \in [Ips -> Bans] /\ failures' \in [Ips -> Nat]
  <2>1. job' \in [Workers -> Jobs]
    BY <1>4, <1>5 DEF TypeInv, TypeOK
  <2>2. ban' \in [Ips -> Bans]
    BY <1>2, <1>3 DEF TypeInv, TypeOK
  <2>3. failures' \in [Ips -> Nat]
    <3>1. failures[ip] + 1 \in Nat /\ failures \in [Ips -> Nat]
      BY <1>3 DEF TypeInv, TypeOK
    <3> QED
      BY <1>2, <3>1
  <2> QED
    BY <2>1, <2>2, <2>3
<1>9. JobsFit'
  BY <1>1, <1>5, <1>6 DEF TypeInv, JobsFit, Checks
<1>10. \A i \in Ips :
         /\ failures'[i] \in 0 .. MaxFailures
         /\ ban'[i].strikes <= failures'[i] + 1
         /\ failures'[i] = 0 <=> ban'[i] = NoBan
         /\ ban'[i] # NoBan => ban'[i].strikes > 0
  <2>1. \A i \in Ips : failures[i] \in 0 .. MaxFailures
    BY DEF TypeInv, StrikesBounded
  <2>2. \A i \in Ips \ {ip} : failures'[i] = failures[i] /\ ban'[i] = ban[i]
    BY <1>7
  <2>3. failures'[ip] \in 0 .. MaxFailures /\ failures'[ip] # 0
        /\ ban'[ip] = row /\ row.strikes <= failures'[ip] + 1
    BY <1>1, <1>2, <1>3, <1>7, <2>1, TimesAssumption
  <2> QED
    BY <1>3, <2>2, <2>3 DEF TypeInv, StrikesBounded
<1>11. \A x \in Workers :
         job'[x].pc = "saving" =>
           job'[x].strikes > 0 /\ job'[x].strikes <= failures'[IpOf[job'[x].client]]
  <2> SUFFICES ASSUME NEW x \in Workers, job'[x].pc = "saving"
               PROVE  job'[x].strikes > 0 /\ job'[x].strikes <= failures'[IpOf[job'[x].client]]
    OBVIOUS
  <2>1. CASE x = w
    BY <1>3, <1>5, <1>6, <1>7, <2>1 DEF ip
  <2>2. CASE x # w
    <3>1. job'[x] = job[x] /\ job[x] \in Jobs /\ IpOf[job[x].client] \in Ips
      BY <1>6, <2>2, ClientsAssumption DEF TypeInv, TypeOK, JobsFit
    <3>2. job[x].strikes \in Nat
      BY <3>1 DEF Jobs
    <3>3. \A i \in Ips : failures[i] \in Nat /\ failures[i] <= failures'[i]
      BY <1>7 DEF TypeInv, TypeOK
    <3> QED
      BY <1>8, <3>1, <3>2, <3>3 DEF TypeInv, StrikesBounded
  <2> QED
    BY <2>1, <2>2
<1>12. clashed' \subseteq Ips
  BY <1>1 DEF Fail, TypeInv, TypeOK, ip
<1> QED
  BY <1>8, <1>9, <1>10, <1>11, <1>12 DEF Fail, TypeInv, TypeOK, StrikesBounded, TokensTimed

LEMMA StrikeType ==
  ASSUME TypeInv, NEW w \in Workers, Strike(w)
  PROVE  TypeInv'
<1> DEFINE ip == IpOf[job[w].client]
           row == Struck(ban[ip], job[w].strikes, job[w].until)
<1>1. /\ job[w].pc = "saving" /\ job[w] \in Jobs /\ ip \in Ips
      /\ job[w].strikes \in Nat /\ job[w].until \in Nat
      /\ ban[ip] \in Bans /\ failures[ip] \in 0 .. MaxFailures
      /\ job[w].strikes > 0 /\ job[w].strikes <= failures[ip]
  BY ClientsAssumption DEF Strike, TypeInv, TypeOK, JobsFit, Jobs, StrikesBounded
<1>2. /\ row \in Bans /\ row.strikes = job[w].strikes + 1
      /\ row.strikes <= failures[ip] + 1 /\ row.strikes > 0
  BY <1>1, TimesAssumption DEF Struck, Bans
<1>3. ban' = [ban EXCEPT ![ip] = row] /\ Release(w) /\ UNCHANGED <<now, captcha, gate, login, history>>
  BY DEF Strike
<1> HIDE DEF ip, row
<1>4. job' \in [Workers -> Jobs] /\ JobsFit'
  BY <1>3, ReleaseType
<1>5. ban'[ip] = row /\ \A i \in Ips : i # ip => ban'[i] = ban[i]
  BY <1>1, <1>3 DEF TypeInv, TypeOK
<1>6. ban' \in [Ips -> Bans]
  BY <1>1, <1>2, <1>3 DEF TypeInv, TypeOK
<1>7. \A x \in Workers : x # w => job'[x] = job[x]
  BY <1>3 DEF Release, TypeInv, TypeOK
<1>8. job'[w].pc = "idle"
  BY <1>3 DEF Release, NoJob, TypeInv, TypeOK
<1>9. row # NoBan
  BY <1>2 DEF NoBan
<1>10. StrikesBounded'
  <2>1. UNCHANGED failures
    BY <1>3 DEF history
  <2>2. failures[ip] # 0
    BY <1>1
  <2> QED
    BY <1>1, <1>2, <1>5, <1>7, <1>8, <1>9, <2>1, <2>2 DEF TypeInv, StrikesBounded
<1> QED
  BY <1>3, <1>4, <1>6, <1>10 DEF history, TypeInv, TypeOK, TokensTimed

LEMMA NextType == TypeInv /\ [Next]_vars => TypeInv'
<1> SUFFICES ASSUME TypeInv, [Next]_vars PROVE TypeInv'
  OBVIOUS
<1>1. ASSUME NEW k \in Captchas, Challenge(k) PROVE TypeInv'
  <2> DEFINE row == [captcha[k] EXCEPT !.expires = now + CaptchaLife]
  <2>1. row \in Captcha
    <3>1. now + CaptchaLife \in Nat /\ captcha[k] \in Captcha
      BY TimesAssumption DEF TypeInv, TypeOK
    <3> QED
      BY <3>1 DEF Captcha
  <2>2. captcha' = [captcha EXCEPT ![k] = row]
    BY <1>1 DEF Challenge, NewCaptcha, TypeInv, TypeOK
  <2> HIDE DEF row
  <2>3. captcha' \in [Captchas -> Captcha]
    BY <2>1, <2>2 DEF TypeInv, TypeOK
  <2> QED
    BY <1>1, <2>3 DEF Challenge, NewCaptcha, history, TypeInv, TypeOK, JobsFit, StrikesBounded, TokensTimed
<1>2. ASSUME NEW w \in Workers, Verify(w) PROVE TypeInv'
  <2>1. CASE Die(w)
    <3>1. job' \in [Workers -> Jobs] /\ JobsFit' /\ StrikesBounded'
      BY <2>1, ReleaseType DEF Die
    <3>2. clashed' \subseteq Ips /\ deaths' \in 0 .. MaxDeaths
      BY <2>1, ClientsAssumption, TimesAssumption DEF Die, TypeInv, TypeOK, JobsFit
    <3> QED
      BY <2>1, <3>1, <3>2 DEF Die, TypeInv, TypeOK, TokensTimed
  <2> QED
    BY <1>2, <2>1, AnswerType, CheckType, IssueType, FailType, StrikeType DEF Verify
<1>3. ASSUME NEW w \in Workers, NEW c \in Clients, RequestOfRecruiter(w, c) PROVE TypeInv'
  BY <1>3, LetInType DEF RequestOfRecruiter, history, TypeInv, TypeOK, TokensTimed
<1>4. ASSUME NEW w \in Workers, NEW c \in Clients, NEW t \in Tokens, Request(w, c, t)
      PROVE  TypeInv'
  <2>1. last' \in [client: Clients \cup {NoClient}, source: Captchas \cup {NoCaptcha}, at: Nat, issued: Nat]
    BY <1>4, PassedType DEF Request
  <2>2. job' \in [Workers -> Jobs] /\ JobsFit' /\ StrikesBounded'
    BY <1>4, LetInType DEF Request
  <2> QED
    BY <1>4, <2>1, <2>2 DEF Request, TypeInv, TypeOK, TokensTimed
<1>5. ASSUME NEW c \in Clients, Logout(c) PROVE TypeInv'
  BY <1>5 DEF Logout, history, TypeInv, TypeOK, JobsFit, StrikesBounded, TokensTimed
<1>6. ASSUME NEW c \in Clients, NEW t \in Tokens, Login(c, t) PROVE TypeInv'
  <2>1. last' \in [client: Clients \cup {NoClient}, source: Captchas \cup {NoCaptcha}, at: Nat, issued: Nat]
    BY <1>6, PassedType DEF Login
  <2> QED
    BY <1>6, <2>1 DEF Login, TypeInv, TypeOK, JobsFit, StrikesBounded, TokensTimed
<1>7. CASE Tick
  <2>1. now' \in 1 .. MaxTime
    BY <1>7, TimesAssumption DEF Tick, TypeInv, TypeOK
  <2>2. TokensTimed'
    <3>1. \A t \in Tokens : gate[t].expires \in Nat
      BY DEF TypeInv, TypeOK, Gates
    <3> QED
      BY <1>7, <3>1, TimesAssumption DEF Tick, TypeInv, TypeOK, TokensTimed
  <2> QED
    BY <1>7, <2>1, <2>2 DEF Tick, history, TypeInv, TypeOK, JobsFit, StrikesBounded
<1>8. CASE UNCHANGED vars
  BY <1>8 DEF vars, TypeInv, TypeOK, JobsFit, StrikesBounded, TokensTimed
<1> QED
  BY <1>1, <1>2, <1>3, <1>4, <1>5, <1>6, <1>7, <1>8 DEF Next

LEMMA TypeInvariant == Spec => []TypeInv
BY InitType, NextType, PTL DEF Spec

\* The tables, the jobs and the counts of the gate keep their type; no row has
\* more strikes than there were failures.
THEOREM TypeCorrect == Spec => []TypeOK
<1>1. TypeInv => TypeOK
  BY DEF TypeInv
<1> QED
  BY <1>1, TypeInvariant, PTL

-----------------------------------------------------------------------------
(* Whom a token lets in. *)

\* Who waits for a token, or has one, has solved its captcha.
TokensEarned ==
  /\ \A w \in Workers :
       job[w].pc = "issuing" =>
         /\ captcha[job[w].captcha].solved
         /\ job[w].client \in solvers[job[w].captcha]
  /\ \A t \in Tokens :
       gate[t] # NoGate =>
         /\ gate[t].source \in Captchas
         /\ captcha[gate[t].source].solved
         /\ gate[t].client \in solvers[gate[t].source]

PassInv == TokensEarned /\ PassIsEarned /\ (last # NoPass => last.source \in Captchas)

\* What was solved stays so.
LEMMA SolvedStays ==
  ASSUME TypeInv, [Next]_vars, NEW k \in Captchas
  PROVE  /\ captcha[k].solved => captcha'[k].solved
         /\ solvers[k] \subseteq solvers'[k]
<1>1. ASSUME NEW w \in Workers, Count(w) \/ Solve(w)
      PROVE  /\ captcha[k].solved => captcha'[k].solved
             /\ solvers[k] \subseteq solvers'[k]
  BY <1>1 DEF Count, Solve, Solved, history, TypeInv, TypeOK, Captcha
<1>2. ASSUME NEW x \in Captchas, Challenge(x)
      PROVE  /\ captcha[k].solved => captcha'[k].solved
             /\ solvers[k] \subseteq solvers'[k]
  BY <1>2 DEF Challenge, NewCaptcha, history, TypeInv, TypeOK, Captcha
<1>3. \/ UNCHANGED <<captcha, solvers>>
      \/ \E w \in Workers : Count(w) \/ Solve(w)
      \/ \E x \in Captchas : Challenge(x)
  BY DEF Next, vars, Verify, Answer, Refresh, Mismatch, Issue, Fail, Strike, Die, Request,
         RequestOfRecruiter, Login, Logout, Tick, history
<1> QED
  BY <1>1, <1>2, <1>3

\* The worker that comes to issue a token has just solved the captcha.
LEMMA IssuingEarned ==
  ASSUME TypeInv, TokensEarned, Next, NEW w \in Workers, job'[w].pc = "issuing"
  PROVE  /\ captcha'[job'[w].captcha].solved
         /\ job'[w].client \in solvers'[job'[w].captcha]
<1>1. CASE Solve(w)
  <2>1. /\ job[w].captcha \in Captchas /\ job[w] \in Jobs /\ captcha \in [Captchas -> Captcha]
        /\ solvers \in [Captchas -> SUBSET Clients] /\ job \in [Workers -> Jobs]
    BY <1>1 DEF Solve, TypeInv, TypeOK, JobsFit, Checks
  <2>2. job'[w].captcha = job[w].captcha /\ job'[w].client = job[w].client
    BY <1>1, <2>1 DEF Solve, Jobs
  <2>3. captcha'[job[w].captcha].solved
    BY <1>1, <2>1 DEF Solve, Solved, Captcha
  <2>4. job[w].client \in solvers'[job[w].captcha]
    BY <1>1, <2>1 DEF Solve
  <2> QED
    BY <2>2, <2>3, <2>4
<1>2. CASE ~Solve(w)
  <2>1. job'[w] = job[w]
    <3>1. \A x \in Workers : Release(x) => x # w
      BY DEF Release, NoJob, TypeInv, TypeOK
    <3>2. ASSUME NEW x \in Workers, Verify(x) PROVE job'[w] = job[w]
      <4>1. ASSUME NEW c \in Clients, NEW k \in Captchas, NEW right \in BOOLEAN, Answer(x, c, k, right)
            PROVE  job'[w] = job[w]
        BY <4>1 DEF Answer, NoJob, TypeInv, TypeOK
      <4>2. CASE Count(x)
        BY <4>2 DEF Count, TypeInv, TypeOK, Jobs
      <4>3. CASE Refresh(x)
        BY <4>3 DEF Refresh, TypeInv, TypeOK, Jobs
      <4>4. CASE Solve(x)
        BY <1>2, <4>4 DEF Solve, TypeInv, TypeOK
      <4>5. CASE Mismatch(x)
        BY <4>5 DEF Mismatch, TypeInv, TypeOK, Jobs
      <4>6. CASE Fail(x)
        BY <4>6 DEF Fail, TypeInv, TypeOK, Jobs
      <4>7. CASE Release(x)
        BY <3>1, <4>7 DEF Release, TypeInv, TypeOK
      <4> QED
        BY <3>2, <4>1, <4>2, <4>3, <4>4, <4>5, <4>6, <4>7 DEF Verify, Issue, Strike, Die
    <3>3. ASSUME NEW x \in Workers, NEW c \in Clients, LetIn(x, c) PROVE job'[w] = job[w]
      BY <3>3 DEF LetIn, NoJob, TypeInv, TypeOK
    <3> QED
      BY <3>2, <3>3 DEF Next, Challenge, RequestOfRecruiter, Request, Login, Logout, Tick
  <2>2. job[w].captcha \in Captchas
    BY <2>1 DEF TypeInv, JobsFit, Checks
  <2> QED
    BY <2>1, <2>2, SolvedStays DEF TokensEarned
<1> QED
  BY <1>1, <1>2

LEMMA PassNext == TypeInv /\ PassInv /\ [Next]_vars => PassInv'
<1> SUFFICES ASSUME TypeInv, PassInv, Next PROVE PassInv'
  BY DEF vars, PassInv, TokensEarned, PassIsEarned
<1>1. ASSUME NEW t \in Tokens, gate'[t] # NoGate
      PROVE  /\ gate'[t].source \in Captchas
             /\ captcha'[gate'[t].source].solved
             /\ gate'[t].client \in solvers'[gate'[t].source]
  <2>1. ASSUME NEW w \in Workers, Issue(w, t)
        PROVE  /\ gate'[t].source \in Captchas
               /\ captcha'[gate'[t].source].solved
               /\ gate'[t].client \in solvers'[gate'[t].source]
    <3>1. job[w].captcha \in Captchas /\ UNCHANGED <<captcha, solvers>>
          /\ captcha[job[w].captcha].solved /\ job[w].client \in solvers[job[w].captcha]
      BY <2>1 DEF Issue, history, TypeInv, JobsFit, Checks, PassInv, TokensEarned
    <3>2. gate'[t].source = job[w].captcha /\ gate'[t].client = job[w].client
      BY <2>1 DEF Issue, TypeInv, TypeOK
    <3> QED
      BY <3>1, <3>2
  <2>2. ASSUME gate'[t] = gate[t]
        PROVE  /\ gate'[t].source \in Captchas
               /\ captcha'[gate'[t].source].solved
               /\ gate'[t].client \in solvers'[gate'[t].source]
    BY <1>1, <2>2, SolvedStays DEF PassInv, TokensEarned
  <2>3. gate'[t] = gate[t] \/ \E w \in Workers : Issue(w, t)
    <3>1. ASSUME NEW w \in Workers, NEW x \in Tokens, Issue(w, x), x # t PROVE gate'[t] = gate[t]
      BY <3>1 DEF Issue, TypeInv, TypeOK
    <3>2. gate' = gate \/ \E w \in Workers, x \in Tokens : Issue(w, x)
      BY DEF Next, Verify, Challenge, Answer, Count, Refresh, Solve, Mismatch, Fail, Strike, Die,
             Request, RequestOfRecruiter, Login, Logout, Tick
    <3> QED
      BY <3>1, <3>2
  <2> QED
    BY <2>1, <2>2, <2>3
<1>2. TokensEarned'
  BY <1>1, IssuingEarned DEF TokensEarned, PassInv
<1>3. last' # NoPass =>
        /\ last'.source \in Captchas
        /\ captcha'[last'.source].solved
        /\ last'.client \in solvers'[last'.source]
        /\ last'.issued <= last'.at /\ last'.at < last'.issued + TTL
  <2>1. ASSUME NEW c \in Clients, NEW t \in Tokens, Valid(t, c), Passed(t, c)
        PROVE  /\ last'.source \in Captchas
               /\ captcha'[last'.source].solved
               /\ last'.client \in solvers'[last'.source]
               /\ last'.issued <= last'.at /\ last'.at < last'.issued + TTL
    <3>1. /\ gate[t] # NoGate /\ gate[t].client = c
          /\ now \in Nat /\ gate[t].expires \in Nat
          /\ now < gate[t].expires /\ gate[t].expires <= now + TTL
      BY <2>1, ValidRow
    <3>2. /\ last'.source = gate[t].source /\ last'.client = c
          /\ last'.at = now /\ last'.issued = gate[t].expires - TTL
      BY <2>1 DEF Passed
    <3>3. last'.source \in Captchas /\ captcha[last'.source].solved /\ c \in solvers[last'.source]
      BY <3>1, <3>2 DEF PassInv, TokensEarned
    <3> QED
      BY <3>1, <3>2, <3>3, SolvedStays, TimesAssumption
  <2>2. CASE last' = last
    BY <2>2, SolvedStays DEF PassInv, PassIsEarned
  <2>3. last' = last \/ \E c \in Clients, t \in Tokens : Valid(t, c) /\ Passed(t, c)
    BY DEF Next, Verify, Challenge, Answer, Count, Refresh, Solve, Mismatch, Issue, Fail, Strike,
           Die, Request, RequestOfRecruiter, Login, Logout, Tick, history
  <2> QED
    BY <2>1, <2>2, <2>3
<1> QED
  BY <1>2, <1>3 DEF PassInv, PassIsEarned

\* Whoever is let in for a token has solved its captcha himself, and not longer
\* ago than a token lives.
THEOREM PassesAreEarned == Spec => []PassIsEarned
<1>1. Init => PassInv
  BY DEF Init, PassInv, TokensEarned, PassIsEarned, NoJob
<1>2. PassInv => PassIsEarned
  BY DEF PassInv
<1> QED
  BY <1>1, <1>2, PassNext, TypeInvariant, PTL DEF Spec

-----------------------------------------------------------------------------
(* How strikes are counted and bans extended. *)

\* While no two failures of an address overlap, one worker at most has a strike
\* to save, and its copy of the row is the row.
StrikesInStep ==
  \A ip \in Ips :
    ip \notin clashed =>
      /\ \A v, w \in Workers : Striking(v, ip) /\ Striking(w, ip) => v = w
      /\ \A w \in Workers :
           Striking(w, ip) =>
             /\ job[w].strikes = failures[ip] /\ ban[ip].strikes = failures[ip]
             /\ ban[ip].until <= job[w].until
      /\ failures[ip] > 0 /\ (\A w \in Workers : ~Striking(w, ip))
           => ban[ip].strikes = failures[ip] + 1

\* No ban ends later than one that is set now.
BansEnd ==
  /\ \A ip \in Ips : ban[ip].until <= now + BanTime
  /\ \A w \in Workers : job[w].pc = "saving" => job[w].until <= now + BanTime

StrikeInv == StrikesInStep /\ BansEnd

\* A step of a worker that has no strike to save, before or after.
LEMMA OtherStrikes ==
  ASSUME TypeInv, StrikeInv, UNCHANGED <<ban, failures, clashed, now>>,
         \A x \in Workers : job[x].pc = "saving" \/ job'[x].pc = "saving" => job'[x] = job[x]
  PROVE  StrikeInv'
<1>1. \A x \in Workers, ip \in Ips :
        Striking(x, ip)' <=> Striking(x, ip)
  BY DEF Striking
<1>2. \A x \in Workers, ip \in Ips : Striking(x, ip) => job'[x] = job[x]
  BY DEF Striking
<1>3. StrikesInStep'
  BY <1>1, <1>2 DEF StrikeInv, StrikesInStep
<1>4. BansEnd'
  BY DEF StrikeInv, BansEnd
<1> QED
  BY <1>3, <1>4 DEF StrikeInv

LEMMA FailStrikes ==
  ASSUME TypeInv, StrikeInv, NEW w \in Workers, Fail(w)
  PROVE  /\ StrikeInv'
         /\ \A ip \in Ips : ip \notin clashed' => ban'[ip].until >= ban[ip].until
<1>0. PICK ip \in Ips : ip = IpOf[job[w].client]
  BY ClientsAssumption DEF Fail, TypeInv, JobsFit
<1> DEFINE until == now + BanTime  row == Found(ip, until)
<1>1. /\ job[w].pc = "failing" /\ job[w] \in Jobs /\ job \in [Workers -> Jobs]
      /\ now \in Nat /\ until \in Nat /\ ban[ip] \in Bans /\ failures[ip] \in Nat
      /\ ban \in [Ips -> Bans] /\ failures \in [Ips -> Nat]
  BY ClientsAssumption, TimesAssumption DEF Fail, TypeInv, TypeOK, JobsFit
<1>2. /\ failures' = [failures EXCEPT ![ip] = @ + 1]
      /\ ban' = [ban EXCEPT ![ip] = row]
      /\ job' = [job EXCEPT ![w].pc = "saving", ![w].strikes = row.strikes, ![w].until = until]
      /\ clashed' = IF \E x \in Workers : Striking(x, ip) THEN clashed \cup {ip} ELSE clashed
      /\ UNCHANGED now
  BY <1>0 DEF Fail
<1>3. /\ failures[ip] = 0 => row.strikes = 1 /\ row.until = until
      /\ failures[ip] # 0 => row = ban[ip]
  BY <1>1 DEF Found, FirstFailure, TypeInv, StrikesBounded
<1>4. row.until \in Nat /\ row.until <= until /\ ban[ip].until <= row.until
  BY <1>1, <1>3 DEF StrikeInv, BansEnd, Bans, NoBan, TypeInv, StrikesBounded
<1>5. /\ job'[w].pc = "saving" /\ job'[w].client = job[w].client
      /\ job'[w].strikes = row.strikes /\ job'[w].until = until
      /\ \A x \in Workers : x # w => job'[x] = job[x]
  BY <1>1, <1>2 DEF Jobs
<1>6. /\ failures'[ip] = failures[ip] + 1 /\ ban'[ip] = row
      /\ \A i \in Ips : i # ip => failures'[i] = failures[i] /\ ban'[i] = ban[i]
  BY <1>1, <1>2
<1>7. \A i \in Ips : i \notin clashed' => i \notin clashed
  BY <1>2
<1>8. /\ \A x \in Workers, i \in Ips : i # ip => (Striking(x, i)' <=> Striking(x, i))
      /\ \A x \in Workers : x # w => (Striking(x, ip)' <=> Striking(x, ip))
      /\ Striking(w, ip)' /\ ~Striking(w, ip)
  BY <1>0, <1>1, <1>5 DEF Striking
<1> HIDE DEF until, row
<1>9. ASSUME ip \notin clashed'
      PROVE  /\ \A x \in Workers : Striking(x, ip)' => x = w
             /\ row.strikes = failures[ip] + 1
  <2>1. \A x \in Workers : ~Striking(x, ip)
    BY <1>2, <1>9
  <2>2. failures[ip] > 0 => ban[ip].strikes = failures[ip] + 1
    BY <1>1, <1>7, <1>9, <2>1 DEF StrikeInv, StrikesInStep
  <2> QED
    BY <1>1, <1>3, <1>8, <2>1, <2>2
<1>10. StrikesInStep'
  <2> SUFFICES ASSUME NEW i \in Ips, (i \notin clashed)'
               PROVE  (/\ \A v, x \in Workers : Striking(v, i) /\ Striking(x, i) => v = x
                       /\ \A x \in Workers :
                            Striking(x, i) =>
                              /\ job[x].strikes = failures[i] /\ ban[i].strikes = failures[i]
                              /\ ban[i].until <= job[x].until
                       /\ failures[i] > 0 /\ (\A x \in Workers : ~Striking(x, i))
                            => ban[i].strikes = failures[i] + 1)'
    BY DEF StrikesInStep
  <2>1. CASE i = ip
    BY <1>4, <1>5, <1>6, <1>8, <1>9, <2>1
  <2>2. CASE i # ip
    <3>1. \A x \in Workers : Striking(x, i) => job'[x] = job[x]
      BY <1>1, <1>5 DEF Striking
    <3> QED
      BY <1>6, <1>7, <1>8, <2>2, <3>1 DEF StrikeInv, StrikesInStep
  <2> QED
    BY <2>1, <2>2
<1>11. BansEnd'
  BY <1>1, <1>2, <1>4, <1>5, <1>6 DEF StrikeInv, BansEnd, until
<1>12. \A i \in Ips : i \notin clashed' => ban'[i].until >= ban[i].until
  BY <1>1, <1>4, <1>6 DEF Bans
<1> QED
  BY <1>10, <1>11, <1>12 DEF StrikeInv

LEMMA StrikeStrikes ==
  ASSUME TypeInv, StrikeInv, NEW w \in Workers, Strike(w)
  PROVE  /\ StrikeInv'
         /\ \A ip \in Ips : ip \notin clashed' => ban'[ip].until >= ban[ip].until
<1>0. PICK ip \in Ips : ip = IpOf[job[w].client]
  BY ClientsAssumption DEF Strike, TypeInv, JobsFit
<1> DEFINE row == Struck(ban[ip], job[w].strikes, job[w].until)
<1>1. /\ job[w].pc = "saving" /\ job[w] \in Jobs /\ job \in [Workers -> Jobs]
      /\ now \in Nat /\ ban[ip] \in Bans /\ failures[ip] \in Nat
      /\ ban \in [Ips -> Bans] /\ failures \in [Ips -> Nat]
      /\ job[w].strikes \in Nat /\ job[w].until \in Nat
  BY ClientsAssumption DEF Strike, TypeInv, TypeOK, JobsFit, Jobs
<1>2. ban' = [ban EXCEPT ![ip] = row] /\ Release(w) /\ UNCHANGED <<now, failures, clashed>>
  BY <1>0 DEF Strike, history
<1>3. row.strikes = job[w].strikes + 1 /\ row.until \in {job[w].until, ban[ip].until}
  BY <1>1 DEF Struck
<1>4. job'[w].pc = "idle" /\ \A x \in Workers : x # w => job'[x] = job[x]
  BY <1>1, <1>2 DEF Release, NoJob
<1>5. ban'[ip] = row /\ \A i \in Ips : i # ip => ban'[i] = ban[i]
  BY <1>1, <1>2
<1>6. /\ \A x \in Workers, i \in Ips : x # w => (Striking(x, i)' <=> Striking(x, i))
      /\ \A i \in Ips : ~Striking(w, i)'
      /\ Striking(w, ip) /\ \A i \in Ips : Striking(w, i) => i = ip
  BY <1>0, <1>1, <1>4 DEF Striking
<1> HIDE DEF row
<1>7. ASSUME ip \notin clashed
      PROVE  /\ \A x \in Workers : ~Striking(x, ip)'
             /\ row.strikes = failures[ip] + 1 /\ ban[ip].until <= row.until
  BY <1>1, <1>3, <1>6, <1>7 DEF StrikeInv, StrikesInStep, Bans
<1>8. StrikesInStep'
  <2> SUFFICES ASSUME NEW i \in Ips, (i \notin clashed)'
               PROVE  (/\ \A v, x \in Workers : Striking(v, i) /\ Striking(x, i) => v = x
                       /\ \A x \in Workers :
                            Striking(x, i) =>
                              /\ job[x].strikes = failures[i] /\ ban[i].strikes = failures[i]
                              /\ ban[i].until <= job[x].until
                       /\ failures[i] > 0 /\ (\A x \in Workers : ~Striking(x, i))
                            => ban[i].strikes = failures[i] + 1)'
    BY DEF StrikesInStep
  <2>1. CASE i = ip
    BY <1>2, <1>5, <1>7, <2>1
  <2>2. CASE i # ip
    <3>1. \A x \in Workers : Striking(x, i)' <=> Striking(x, i)
      BY <1>6, <2>2
    <3>2. \A x \in Workers : Striking(x, i) => job'[x] = job[x]
      BY <1>4, <1>6, <2>2
    <3> QED
      BY <1>2, <1>5, <2>2, <3>1, <3>2 DEF StrikeInv, StrikesInStep
  <2> QED
    BY <2>1, <2>2
<1>9. BansEnd'
  BY <1>1, <1>2, <1>3, <1>4, <1>5 DEF StrikeInv, BansEnd
<1>10. \A i \in Ips : i \notin clashed' => ban'[i].until >= ban[i].until
  <2>1. \A i \in Ips : ban[i].until \in Nat
    BY <1>1 DEF Bans
  <2> QED
    BY <1>1, <1>2, <1>3, <1>5, <1>7, <2>1
<1> QED
  BY <1>8, <1>9, <1>10 DEF StrikeInv

\* A worker that dies with a strike to save makes its address a clashed one.
LEMMA DieStrikes ==
  ASSUME TypeInv, StrikeInv, NEW w \in Workers, Die(w)
  PROVE  StrikeInv'
<1>1. /\ Release(w) /\ UNCHANGED <<now, ban, failures>>
      /\ clashed' = IF job[w].pc = "saving" THEN clashed \cup {IpOf[job[w].client]} ELSE clashed
  BY DEF Die
<1>2. job'[w].pc = "idle" /\ \A x \in Workers : x # w => job'[x] = job[x]
  BY <1>1 DEF Release, NoJob, TypeInv, TypeOK
<1>3. /\ \A x \in Workers, i \in Ips : x # w => (Striking(x, i)' <=> Striking(x, i))
      /\ \A i \in Ips : ~Striking(w, i)'
      /\ \A i \in Ips : i \notin clashed' => i \notin clashed /\ ~Striking(w, i)
  BY <1>1, <1>2 DEF Striking
<1>4. \A x \in Workers, i \in Ips : i \notin clashed' /\ Striking(x, i) => job'[x] = job[x]
  BY <1>2, <1>3
<1>5. StrikesInStep'
  <2>1. \A x \in Workers, i \in Ips : i \notin clashed' => (Striking(x, i)' <=> Striking(x, i))
    BY <1>3
  <2> QED
    BY <1>1, <1>3, <1>4, <2>1 DEF StrikeInv, StrikesInStep
<1>6. BansEnd'
  BY <1>1, <1>2 DEF StrikeInv, BansEnd
<1> QED
  BY <1>5, <1>6 DEF StrikeInv

\* What the steps other than those of register_security_failure leave alone.
LEMMA OtherSteps ==
  ASSUME TypeInv, Next
  PROVE  \/ \E w \in Workers : Fail(w) \/ Strike(w) \/ Die(w)
         \/ Tick
         \/ /\ UNCHANGED <<ban, failures, clashed, now>>
            /\ \A x \in Workers : job[x].pc = "saving" \/ job'[x].pc = "saving" => job'[x] = job[x]
<1>1. ASSUME NEW w \in Workers, Count(w) \/ Refresh(w) \/ Solve(w) \/ Mismatch(w)
      PROVE  /\ UNCHANGED <<ban, failures, clashed, now>>
             /\ \A x \in Workers : job[x].pc = "saving" \/ job'[x].pc = "saving" => job'[x] = job[x]
  BY <1>1 DEF Count, Refresh, Solve, Mismatch, history, TypeInv, TypeOK, Jobs
<1>2. ASSUME NEW w \in Workers, NEW c \in Clients, NEW k \in Captchas, NEW right \in BOOLEAN,
             Answer(w, c, k, right)
      PROVE  /\ UNCHANGED <<ban, failures, clashed, now>>
             /\ \A x \in Workers : job[x].pc = "saving" \/ job'[x].pc = "saving" => job'[x] = job[x]
  BY <1>2 DEF Answer, NoJob, TypeInv, TypeOK
<1>3. ASSUME NEW w \in Workers, NEW t \in Tokens, Issue(w, t)
      PROVE  /\ UNCHANGED <<ban, failures, clashed, now>>
             /\ \A x \in Workers : job[x].pc = "saving" \/ job'[x].pc = "saving" => job'[x] = job[x]
  BY <1>3 DEF Issue, Release, NoJob, history, TypeInv, TypeOK
<1>4. ASSUME NEW w \in Workers, NEW c \in Clients, LetIn(w, c)
      PROVE  \A x \in Workers : job[x].pc = "saving" \/ job'[x].pc = "saving" => job'[x] = job[x]
  BY <1>4 DEF LetIn, NoJob, TypeInv, TypeOK
<1> QED
  BY <1>1, <1>2, <1>3, <1>4
     DEF Next, Verify, Challenge, Request, RequestOfRecruiter, Login, Logout, history

LEMMA StrikeNext ==
  ASSUME TypeInv, StrikeInv, [Next]_vars
  PROVE  /\ StrikeInv'
         /\ \A ip \in Ips : ip \notin clashed' => ban'[ip].until >= ban[ip].until
<1>1. \A ip \in Ips : ban[ip].until \in Nat
  BY DEF TypeInv, TypeOK, Bans
<1>2. CASE UNCHANGED vars
  BY <1>1, <1>2, OtherStrikes DEF vars
<1>3. CASE Tick
  <2>1. UNCHANGED <<ban, failures, clashed, job>> /\ now' = now + 1 /\ now \in Nat
    BY <1>3 DEF Tick, history, TypeInv, TypeOK
  <2>2. StrikesInStep'
    BY <2>1 DEF StrikeInv, StrikesInStep, Striking
  <2>3. BansEnd'
    <3>1. \A w \in Workers : job[w].until \in Nat
      BY DEF TypeInv, TypeOK, Jobs
    <3> QED
      BY <1>1, <2>1, <3>1, TimesAssumption DEF StrikeInv, BansEnd
  <2> QED
    BY <1>1, <2>1, <2>2, <2>3 DEF StrikeInv
<1>4. ASSUME NEW w \in Workers, Die(w)
      PROVE  StrikeInv' /\ UNCHANGED ban
  BY <1>4, DieStrikes DEF Die
<1>5. CASE /\ UNCHANGED <<ban, failures, clashed, now>>
           /\ \A x \in Workers : job[x].pc = "saving" \/ job'[x].pc = "saving" => job'[x] = job[x]
  BY <1>1, <1>5, OtherStrikes
<1> QED
  BY <1>1, <1>2, <1>3, <1>4, <1>5, OtherSteps, FailStrikes, StrikeStrikes

LEMMA StrikeInvariant == Spec => [](TypeInv /\ StrikeInv)
<1>1. Init => StrikeInv
  BY TimesAssumption
     DEF Init, StrikeInv, StrikesInStep, BansEnd, Striking, NoJob, NoBan
<1>2. TypeInv /\ StrikeInv /\ [Next]_vars => StrikeInv'
  BY StrikeNext
<1> QED
  BY <1>1, <1>2, TypeInvariant, PTL DEF Spec

\* An address has one strike more than failures, and not one more than that;
\* none is missing unless two failures overlapped or a worker died.
THEOREM StrikesAreCounted == Spec => []StrikesCounted
<1>1. TypeInv /\ StrikeInv => StrikesCounted
  BY DEF TypeInv, StrikesBounded, StrikeInv, StrikesInStep, StrikesCounted
<1> QED
  BY <1>1, StrikeInvariant, PTL

\* A ban is never cut short, unless two failures of the address overlapped or a
\* worker died with one in hand.
THEOREM BansAreNotCutShort == Spec => BanNotCutShort
<1>1. TypeInv /\ StrikeInv /\ [Next]_vars
        => [\A ip \in Ips : ip \notin clashed' => ban'[ip].until >= ban[ip].until]_vars
  BY StrikeNext
<1> QED
  BY <1>1, StrikeInvariant, PTL DEF Spec, BanNotCutShort

-----------------------------------------------------------------------------
(* How many answers to a captcha are compared. *)

AtStage(k, stages) == {w \in Workers : job[w].pc \in stages /\ job[w].captcha = k}

\* The attempts counted on a captcha cover the answers compared, those about to
\* be, and those whose worker is about to read the count.
JudgeInv ==
  \A k \in Captchas :
    /\ judged[k] + Cardinality(AtStage(k, {"counted", "judging"})) <= captcha[k].attempts
    /\ judged[k] + Cardinality(AtStage(k, {"judging"})) <= MaxAttempts

LEMMA StageFinite ==
  ASSUME IsFiniteSet(Workers), NEW k, NEW stages
  PROVE  /\ IsFiniteSet(AtStage(k, stages)) /\ Cardinality(AtStage(k, stages)) \in Nat
         /\ IsFiniteSet(AtStage(k, stages)') /\ Cardinality(AtStage(k, stages)') \in Nat
<1>1. AtStage(k, stages) \subseteq Workers /\ AtStage(k, stages)' \subseteq Workers
  BY DEF AtStage
<1> QED
  BY <1>1, FS_Subset, FS_CardinalityType

\* Nobody new counts or judges, and nothing is counted or judged.
LEMMA ShrinkJudge ==
  ASSUME TypeInv, JudgeInv, IsFiniteSet(Workers), UNCHANGED judged,
         \A k \in Captchas : captcha'[k].attempts = captcha[k].attempts,
         \A x \in Workers :
           job'[x].pc \in {"counted", "judging"} =>
             job'[x].pc = job[x].pc /\ job'[x].captcha = job[x].captcha
  PROVE  JudgeInv'
<1> SUFFICES ASSUME NEW k \in Captchas
             PROVE  (/\ judged[k] + Cardinality(AtStage(k, {"counted", "judging"})) <= captcha[k].attempts
                     /\ judged[k] + Cardinality(AtStage(k, {"judging"})) <= MaxAttempts)'
  BY DEF JudgeInv
<1>1. /\ AtStage(k, {"counted", "judging"})' \subseteq AtStage(k, {"counted", "judging"})
      /\ AtStage(k, {"judging"})' \subseteq AtStage(k, {"judging"})
  BY DEF AtStage
<1>2. /\ Cardinality(AtStage(k, {"counted", "judging"})') <= Cardinality(AtStage(k, {"counted", "judging"}))
      /\ Cardinality(AtStage(k, {"judging"})') <= Cardinality(AtStage(k, {"judging"}))
  BY <1>1, StageFinite, FS_Subset
<1>3. judged[k] \in Nat /\ captcha[k].attempts \in Nat
  BY DEF TypeInv, TypeOK, Captcha
<1> QED
  BY <1>2, <1>3, StageFinite, TimesAssumption DEF JudgeInv

LEMMA CountJudge ==
  ASSUME TypeInv, JudgeInv, IsFiniteSet(Workers), NEW w \in Workers, Count(w)
  PROVE  JudgeInv'
<1> SUFFICES ASSUME NEW k \in Captchas
             PROVE  (/\ judged[k] + Cardinality(AtStage(k, {"counted", "judging"})) <= captcha[k].attempts
                     /\ judged[k] + Cardinality(AtStage(k, {"judging"})) <= MaxAttempts)'
  BY DEF JudgeInv
<1>1. /\ job[w].pc = "counting" /\ job[w].captcha \in Captchas /\ job[w] \in Jobs
      /\ captcha \in [Captchas -> Captcha] /\ judged[k] \in Nat /\ captcha[k].attempts \in Nat
      /\ UNCHANGED judged
  BY DEF Count, history, TypeInv, TypeOK, JobsFit, Checks, Captcha
<1>2. /\ job'[w].pc = "counted" /\ job'[w].captcha = job[w].captcha
      /\ \A x \in Workers : x # w => job'[x] = job[x]
  BY <1>1 DEF Count, TypeInv, TypeOK, Jobs
<1>3. AtStage(k, {"judging"})' = AtStage(k, {"judging"})
  BY <1>1, <1>2 DEF AtStage
<1>4. CASE job[w].captcha = k
  <2>1. AtStage(k, {"counted", "judging"})' = AtStage(k, {"counted", "judging"}) \cup {w}
    BY <1>1, <1>2, <1>4 DEF AtStage
  <2>2. w \notin AtStage(k, {"counted", "judging"})
    BY <1>1 DEF AtStage
  <2>3. Cardinality(AtStage(k, {"counted", "judging"})')
          = Cardinality(AtStage(k, {"counted", "judging"})) + 1
    BY <2>1, <2>2, StageFinite, FS_AddElement
  <2>4. captcha'[k].attempts = captcha[k].attempts + 1
    BY <1>1, <1>4 DEF Count, Captcha
  <2> QED
    BY <1>1, <1>3, <2>3, <2>4, StageFinite DEF JudgeInv
<1>5. CASE job[w].captcha # k
  <2>1. AtStage(k, {"counted", "judging"})' = AtStage(k, {"counted", "judging"})
    BY <1>1, <1>2, <1>5 DEF AtStage
  <2>2. captcha'[k] = captcha[k]
    BY <1>1, <1>5 DEF Count
  <2> QED
    BY <1>1, <1>3, <2>1, <2>2 DEF JudgeInv
<1> QED
  BY <1>4, <1>5

LEMMA RefreshJudge ==
  ASSUME TypeInv, JudgeInv, IsFiniteSet(Workers), NEW w \in Workers, Refresh(w)
  PROVE  JudgeInv'
<1> DEFINE n == captcha[job[w].captcha].attempts
<1>1. /\ job[w].pc = "counted" /\ job[w].captcha \in Captchas /\ job[w] \in Jobs
      /\ n \in Nat /\ UNCHANGED <<captcha, judged>>
  BY DEF Refresh, history, TypeInv, TypeOK, JobsFit, Checks, Captcha
<1>2. /\ job'[w].pc = IF n > MaxAttempts THEN "failing" ELSE "judging"
      /\ job'[w].captcha = job[w].captcha
      /\ \A x \in Workers : x # w => job'[x] = job[x]
  BY <1>1 DEF Refresh, CountedSoFar, TypeInv, TypeOK, Jobs
<1>3. CASE n > MaxAttempts
  BY <1>1, <1>2, <1>3, ShrinkJudge
<1>4. CASE ~(n > MaxAttempts)
  <2> SUFFICES ASSUME NEW k \in Captchas
               PROVE  (/\ judged[k] + Cardinality(AtStage(k, {"counted", "judging"})) <= captcha[k].attempts
                       /\ judged[k] + Cardinality(AtStage(k, {"judging"})) <= MaxAttempts)'
    BY DEF JudgeInv
  <2>1. AtStage(k, {"counted", "judging"})' = AtStage(k, {"counted", "judging"})
    BY <1>1, <1>2, <1>4 DEF AtStage
  <2>2. judged[k] \in Nat /\ captcha[k].attempts \in Nat
    BY DEF TypeInv, TypeOK, Captcha
  <2>3. CASE job[w].captcha = k
    <3>1. AtStage(k, {"judging"})' \subseteq AtStage(k, {"counted", "judging"})
      BY <1>1, <1>2, <1>4, <2>3 DEF AtStage
    <3>2. Cardinality(AtStage(k, {"judging"})') <= Cardinality(AtStage(k, {"counted", "judging"}))
      BY <3>1, StageFinite, FS_Subset
    <3>3. captcha[k].attempts <= MaxAttempts
      BY <1>1, <1>4, <2>3, TimesAssumption
    <3> QED
      BY <1>1, <2>1, <2>2, <3>2, <3>3, StageFinite, TimesAssumption DEF JudgeInv
  <2>4. CASE job[w].captcha # k
    <3>1. AtStage(k, {"judging"})' = AtStage(k, {"judging"})
      BY <1>1, <1>2, <2>4 DEF AtStage
    <3> QED
      BY <1>1, <2>1, <3>1 DEF JudgeInv
  <2> QED
    BY <2>3, <2>4
<1> QED
  BY <1>3, <1>4

LEMMA CompareJudge ==
  ASSUME TypeInv, JudgeInv, IsFiniteSet(Workers), NEW w \in Workers, Solve(w) \/ Mismatch(w)
  PROVE  JudgeInv'
<1> SUFFICES ASSUME NEW k \in Captchas
             PROVE  (/\ judged[k] + Cardinality(AtStage(k, {"counted", "judging"})) <= captcha[k].attempts
                     /\ judged[k] + Cardinality(AtStage(k, {"judging"})) <= MaxAttempts)'
  BY DEF JudgeInv
<1>1. /\ job[w].pc = "judging" /\ job[w].captcha \in Captchas /\ job[w] \in Jobs
      /\ judged[k] \in Nat /\ captcha[k].attempts \in Nat
      /\ judged' = [judged EXCEPT ![job[w].captcha] = @ + 1]
      /\ judged \in [Captchas -> Nat]
  BY DEF Solve, Mismatch, Compared, TypeInv, TypeOK, JobsFit, Checks, Captcha
<1>2. captcha'[k].attempts = captcha[k].attempts
  BY <1>1 DEF Solve, Mismatch, Solved, TypeInv, TypeOK, Captcha
<1>3. /\ job'[w].pc \notin {"counted", "judging"} /\ job'[w].captcha = job[w].captcha
      /\ \A x \in Workers : x # w => job'[x] = job[x]
  BY <1>1 DEF Solve, Mismatch, TypeInv, TypeOK, Jobs
<1>4. CASE job[w].captcha = k
  <2>1. /\ AtStage(k, {"counted", "judging"})' = AtStage(k, {"counted", "judging"}) \ {w}
        /\ AtStage(k, {"judging"})' = AtStage(k, {"judging"}) \ {w}
        /\ w \in AtStage(k, {"counted", "judging"}) /\ w \in AtStage(k, {"judging"})
    BY <1>1, <1>3, <1>4 DEF AtStage
  <2>2. /\ Cardinality(AtStage(k, {"counted", "judging"})')
             = Cardinality(AtStage(k, {"counted", "judging"})) - 1
        /\ Cardinality(AtStage(k, {"judging"})') = Cardinality(AtStage(k, {"judging"})) - 1
    BY <2>1, StageFinite, FS_RemoveElement
  <2>3. judged'[k] = judged[k] + 1
    BY <1>1, <1>4
  <2> QED
    BY <1>1, <1>2, <2>2, <2>3, StageFinite, TimesAssumption DEF JudgeInv
<1>5. CASE job[w].captcha # k
  <2>1. /\ AtStage(k, {"counted", "judging"})' = AtStage(k, {"counted", "judging"})
        /\ AtStage(k, {"judging"})' = AtStage(k, {"judging"})
    BY <1>1, <1>3, <1>5 DEF AtStage
  <2>2. judged'[k] = judged[k]
    BY <1>1, <1>5
  <2> QED
    BY <1>2, <2>1, <2>2 DEF JudgeInv
<1> QED
  BY <1>4, <1>5

LEMMA JudgeNext ==
  ASSUME TypeInv, JudgeInv, IsFiniteSet(Workers), [Next]_vars
  PROVE  JudgeInv'
<1> DEFINE Shrinks ==
      /\ UNCHANGED judged
      /\ \A k \in Captchas : captcha'[k].attempts = captcha[k].attempts
      /\ \A x \in Workers :
           job'[x].pc \in {"counted", "judging"} =>
             job'[x].pc = job[x].pc /\ job'[x].captcha = job[x].captcha
<1>1. CASE UNCHANGED vars
  BY <1>1, ShrinkJudge DEF vars
<1>2. ASSUME NEW k \in Captchas, Challenge(k) PROVE Shrinks
  BY <1>2 DEF Challenge, NewCaptcha, history, TypeInv, TypeOK, Captcha
<1>3. ASSUME NEW w \in Workers, NEW c \in Clients, NEW k \in Captchas, NEW right \in BOOLEAN,
             Answer(w, c, k, right)
      PROVE  Shrinks
  BY <1>3 DEF Answer, NoJob, TypeInv, TypeOK
<1>4. ASSUME NEW w \in Workers, Release(w), UNCHANGED <<captcha, judged>> PROVE Shrinks
  BY <1>4 DEF Release, NoJob, TypeInv, TypeOK
<1>5. ASSUME NEW w \in Workers, Fail(w) PROVE Shrinks
  BY <1>5 DEF Fail, TypeInv, TypeOK, Jobs
<1>6. ASSUME NEW w \in Workers, NEW c \in Clients, LetIn(w, c), UNCHANGED <<captcha, judged>>
      PROVE  Shrinks
  BY <1>6 DEF LetIn, NoJob, TypeInv, TypeOK
<1>7. CASE UNCHANGED <<captcha, judged, job>>
  BY <1>7, ShrinkJudge
<1> HIDE DEF Shrinks
<1>8. \/ UNCHANGED vars \/ UNCHANGED <<captcha, judged, job>> \/ Shrinks
      \/ \E w \in Workers : Count(w) \/ Refresh(w) \/ Solve(w) \/ Mismatch(w)
  BY <1>2, <1>3, <1>4, <1>5, <1>6
     DEF Next, Verify, Issue, Strike, Die, Request, RequestOfRecruiter, Login, Logout, Tick, history
<1>9. CASE Shrinks
  BY <1>9, ShrinkJudge DEF Shrinks
<1> QED
  BY <1>1, <1>7, <1>8, <1>9, CountJudge, RefreshJudge, CompareJudge

LEMMA JudgeInvariant ==
  ASSUME IsFiniteSet(Workers)
  PROVE  Spec => [](TypeInv /\ JudgeInv)
<1>1. Init => JudgeInv
  <2> SUFFICES ASSUME Init, NEW k \in Captchas
               PROVE  /\ judged[k] + Cardinality(AtStage(k, {"counted", "judging"})) <= captcha[k].attempts
                      /\ judged[k] + Cardinality(AtStage(k, {"judging"})) <= MaxAttempts
    BY DEF JudgeInv
  <2>1. AtStage(k, {"counted", "judging"}) = {} /\ AtStage(k, {"judging"}) = {}
    BY DEF Init, NoJob, AtStage
  <2>2. judged[k] = 0 /\ captcha[k].attempts = 0
    BY DEF Init, NoCaptchaRow
  <2> QED
    BY <2>1, <2>2, FS_EmptySet, TimesAssumption
<1>2. TypeInv /\ JudgeInv /\ [Next]_vars => JudgeInv'
  BY JudgeNext
<1> QED
  BY <1>1, <1>2, TypeInvariant, PTL DEF Spec

\* However many answers to a captcha are sent at once, no more are compared than
\* it allows.
THEOREM AnswersAreLimited ==
  ASSUME IsFiniteSet(Workers)
  PROVE  Spec => []JudgedWithinLimit
<1>1. TypeInv /\ JudgeInv => JudgedWithinLimit
  <2> SUFFICES ASSUME TypeInv, JudgeInv, NEW k \in Captchas PROVE judged[k] <= MaxAttempts
    BY DEF JudgedWithinLimit
  <2>1. judged[k] \in Nat
    BY DEF TypeInv, TypeOK
  <2> QED
    BY <2>1, StageFinite, TimesAssumption DEF JudgeInv
<1> QED
  BY <1>1, JudgeInvariant, PTL

-----------------------------------------------------------------------------
(* How many tokens a captcha buys. *)

Bought(k) == {t \in Tokens : gate[t] # NoGate /\ gate[t].source = k}

\* Each token, and each worker about to issue one, goes back to an answer that
\* was compared.
TokensCovered ==
  \A k \in Captchas : Cardinality(Bought(k)) + Cardinality(AtStage(k, {"issuing"})) <= judged[k]

\* A captcha of which no two answers were checked at once is in one hand at most,
\* and in none when it has bought its token.
OneHand ==
  \A k \in Captchas \ raced :
    /\ \A v, w \in Workers : Checking(v, k) /\ Checking(w, k) => v = w
    /\ \A t \in Bought(k) :
         /\ \A u \in Bought(k) : u = t
         /\ \A w \in Workers : ~Checking(w, k)

TokenInv == TokensCovered /\ OneHand

LEMMA BoughtFinite ==
  ASSUME IsFiniteSet(Tokens), NEW k
  PROVE  /\ IsFiniteSet(Bought(k)) /\ Cardinality(Bought(k)) \in Nat
         /\ IsFiniteSet(Bought(k)') /\ Cardinality(Bought(k)') \in Nat
<1>1. Bought(k) \subseteq Tokens /\ Bought(k)' \subseteq Tokens
  BY DEF Bought
<1> QED
  BY <1>1, FS_Subset, FS_CardinalityType

\* Steps after which nobody new checks an answer, and nothing is bought.
LEMMA ShrinkToken ==
  ASSUME TypeInv, TokenInv, IsFiniteSet(Workers), IsFiniteSet(Tokens), UNCHANGED <<gate, raced>>,
         \A k \in Captchas : judged[k] <= judged'[k] /\ judged'[k] \in Nat,
         \A x \in Workers :
           /\ job'[x].pc \in Checks => job[x].pc \in Checks /\ job'[x].captcha = job[x].captcha
           /\ job'[x].pc = "issuing" => job[x].pc = "issuing"
  PROVE  TokenInv'
<1>1. \A k \in Captchas : Bought(k)' = Bought(k)
  BY DEF Bought
<1>2. \A x \in Workers, k \in Captchas : Checking(x, k)' => Checking(x, k)
  BY DEF Checking, Checks
<1>3. ASSUME NEW k \in Captchas
      PROVE  (Cardinality(Bought(k)) + Cardinality(AtStage(k, {"issuing"})) <= judged[k])'
  <2>1. AtStage(k, {"issuing"})' \subseteq AtStage(k, {"issuing"})
    BY DEF AtStage, Checks
  <2>2. Cardinality(AtStage(k, {"issuing"})') <= Cardinality(AtStage(k, {"issuing"}))
    BY <2>1, StageFinite, FS_Subset
  <2> DEFINE b == Cardinality(Bought(k))  b2 == Cardinality(Bought(k)')
             c == Cardinality(AtStage(k, {"issuing"}))  c2 == Cardinality(AtStage(k, {"issuing"})')
             j == judged[k]  j2 == judged'[k]
  <2>3. b2 = b /\ b \in Nat /\ c \in Nat /\ c2 \in Nat /\ c2 <= c /\ j \in Nat /\ j2 \in Nat /\ j <= j2
    BY <1>1, <2>2, StageFinite, BoughtFinite DEF TypeInv, TypeOK
  <2>4. b + c <= j
    BY DEF TokenInv, TokensCovered
  <2> HIDE DEF b, b2, c, c2, j, j2
  <2>5. b2 + c2 <= j2
    BY <2>3, <2>4
  <2> QED
    BY <2>5 DEF b2, c2, j2
<1>4. TokensCovered'
  BY <1>3 DEF TokensCovered
<1>5. OneHand'
  BY <1>1, <1>2 DEF TokenInv, OneHand
<1> QED
  BY <1>4, <1>5 DEF TokenInv

\* An answer is taken only for a captcha that has not bought a token yet.
LEMMA AnswerToken ==
  ASSUME TypeInv, TokensEarned, TokenInv, NEW w \in Workers, NEW c \in Clients, NEW k \in Captchas,
         NEW right \in BOOLEAN, Answer(w, c, k, right)
  PROVE  TokenInv'
<1>1. /\ job[w].pc = "idle" /\ ~captcha[k].solved /\ UNCHANGED <<gate, judged>>
      /\ raced' = IF \E x \in Workers : Checking(x, k) THEN raced \cup {k} ELSE raced
  BY DEF Answer
<1>2. /\ job'[w].pc = "counting" /\ job'[w].captcha = k
      /\ \A x \in Workers : x # w => job'[x] = job[x]
  BY DEF Answer, NoJob, TypeInv, TypeOK
<1>3. \A x \in Captchas : Bought(x)' = Bought(x) /\ AtStage(x, {"issuing"})' = AtStage(x, {"issuing"})
  BY <1>1, <1>2 DEF Bought, AtStage
<1>4. Bought(k) = {}
  BY <1>1 DEF Bought, TokensEarned
<1>5. /\ \A x \in Workers, y \in Captchas : x # w => (Checking(x, y)' <=> Checking(x, y))
      /\ \A y \in Captchas : y # k => ~Checking(w, y)'
  BY <1>2 DEF Checking
<1>6. TokensCovered'
  BY <1>1, <1>3 DEF TokenInv, TokensCovered
<1>7. OneHand'
  <2> SUFFICES ASSUME NEW y \in Captchas, (y \notin raced)'
               PROVE  (/\ \A v, x \in Workers : Checking(v, y) /\ Checking(x, y) => v = x
                       /\ \A t \in Bought(y) :
                            /\ \A u \in Bought(y) : u = t
                            /\ \A x \in Workers : ~Checking(x, y))'
    BY DEF OneHand
  <2>1. y \notin raced
    BY <1>1
  <2>2. CASE y = k
    <3>1. \A x \in Workers : ~Checking(x, k)
      BY <1>1, <2>2
    <3> QED
      BY <1>3, <1>4, <1>5, <2>2, <3>1
  <2>3. CASE y # k
    BY <1>3, <1>5, <2>1, <2>3 DEF TokenInv, OneHand
  <2> QED
    BY <2>2, <2>3
<1> QED
  BY <1>6, <1>7 DEF TokenInv

LEMMA SolveToken ==
  ASSUME TypeInv, TokenInv, IsFiniteSet(Workers), IsFiniteSet(Tokens), NEW w \in Workers, Solve(w)
  PROVE  TokenInv'
<1>1. /\ job[w].pc = "judging" /\ job[w].captcha \in Captchas /\ UNCHANGED <<gate, raced>>
      /\ judged' = [judged EXCEPT ![job[w].captcha] = @ + 1] /\ judged \in [Captchas -> Nat]
  BY DEF Solve, Compared, TypeInv, TypeOK, JobsFit, Checks
<1>2. /\ job'[w].pc = "issuing" /\ job'[w].captcha = job[w].captcha
      /\ \A x \in Workers : x # w => job'[x] = job[x]
  BY DEF Solve, TypeInv, TypeOK, Jobs
<1>3. \A x \in Captchas : Bought(x)' = Bought(x)
  BY <1>1 DEF Bought
<1>4. \A x \in Workers, y \in Captchas : Checking(x, y)' <=> Checking(x, y)
  BY <1>1, <1>2 DEF Checking
<1>5. TokensCovered'
  <2> SUFFICES ASSUME NEW k \in Captchas
               PROVE  (Cardinality(Bought(k)) + Cardinality(AtStage(k, {"issuing"})) <= judged[k])'
    BY DEF TokensCovered
  <2> DEFINE b == Cardinality(Bought(k))  b2 == Cardinality(Bought(k)')
             c == Cardinality(AtStage(k, {"issuing"}))  c2 == Cardinality(AtStage(k, {"issuing"})')
             j == judged[k]  j2 == judged'[k]
  <2>1. b2 = b /\ b \in Nat /\ c \in Nat /\ c2 \in Nat /\ j \in Nat /\ b + c <= j
    BY <1>1, <1>3, StageFinite, BoughtFinite DEF TokenInv, TokensCovered
  <2>2. c2 <= c + (j2 - j) /\ j2 \in Nat
    <3>1. CASE job[w].captcha = k
      <4>1. AtStage(k, {"issuing"})' = AtStage(k, {"issuing"}) \cup {w} /\ w \notin AtStage(k, {"issuing"})
        BY <1>1, <1>2, <3>1 DEF AtStage
      <4>2. c2 = c + 1
        BY <4>1, StageFinite, FS_AddElement
      <4> QED
        BY <1>1, <2>1, <3>1, <4>2
    <3>2. CASE job[w].captcha # k
      <4>1. AtStage(k, {"issuing"})' = AtStage(k, {"issuing"})
        BY <1>1, <1>2, <3>2 DEF AtStage
      <4>2. c2 = c /\ j2 = j
        BY <1>1, <3>2, <4>1
      <4> HIDE DEF c, c2, j, j2
      <4> QED
        BY <2>1, <4>2
    <3> QED
      BY <3>1, <3>2
  <2> HIDE DEF b, b2, c, c2, j, j2
  <2>3. b2 + c2 <= j2
    BY <2>1, <2>2
  <2> QED
    BY <2>3 DEF b2, c2, j2
<1>6. OneHand'
  BY <1>1, <1>3, <1>4 DEF TokenInv, OneHand
<1> QED
  BY <1>5, <1>6 DEF TokenInv

LEMMA IssueToken ==
  ASSUME TypeInv, TokenInv, IsFiniteSet(Workers), IsFiniteSet(Tokens),
         NEW w \in Workers, NEW t \in Tokens, Issue(w, t)
  PROVE  TokenInv'
<1>0. PICK s \in Captchas : s = job[w].captcha
  BY DEF Issue, TypeInv, JobsFit, Checks
<1>1. /\ job[w].pc = "issuing" /\ gate[t] = NoGate /\ UNCHANGED <<judged, raced>>
      /\ job[w].client \in Clients
  BY DEF Issue, history, TypeInv, JobsFit
<1>2. job'[w].pc = "idle" /\ \A x \in Workers : x # w => job'[x] = job[x]
  BY DEF Issue, Release, NoJob, TypeInv, TypeOK
<1>3. /\ gate'[t].client = job[w].client /\ gate'[t].source = s
      /\ \A x \in Tokens : x # t => gate'[x] = gate[x]
  BY <1>0 DEF Issue, TypeInv, TypeOK
<1>4. gate'[t] # NoGate
  BY <1>1, <1>3, ClientsAssumption DEF NoGate
<1>5. /\ Bought(s)' = Bought(s) \cup {t} /\ t \notin Bought(s)
      /\ AtStage(s, {"issuing"})' = AtStage(s, {"issuing"}) \ {w} /\ w \in AtStage(s, {"issuing"})
  BY <1>0, <1>1, <1>2, <1>3, <1>4 DEF Bought, AtStage
<1>6. \A k \in Captchas : k # s =>
        Bought(k)' = Bought(k) /\ AtStage(k, {"issuing"})' = AtStage(k, {"issuing"})
  BY <1>0, <1>1, <1>2, <1>3, <1>4 DEF Bought, AtStage
<1>7. TokensCovered'
  <2>1. IsFiniteSet(Bought(s)) /\ IsFiniteSet(AtStage(s, {"issuing"}))
    BY BoughtFinite, StageFinite
  <2>2. Cardinality(Bought(s)') = Cardinality(Bought(s)) + 1
    BY <1>5, <2>1, FS_AddElement
  <2>3. Cardinality(AtStage(s, {"issuing"})') = Cardinality(AtStage(s, {"issuing"})) - 1
    BY <1>5, <2>1, FS_RemoveElement
  <2>4. Cardinality(Bought(s)) \in Nat /\ Cardinality(AtStage(s, {"issuing"})) \in Nat
    BY BoughtFinite, StageFinite
  <2>5. (Cardinality(Bought(s)) + Cardinality(AtStage(s, {"issuing"})) <= judged[s])'
    BY <1>1, <2>2, <2>3, <2>4 DEF TokenInv, TokensCovered
  <2>6. \A k \in Captchas : k # s =>
          (Cardinality(Bought(k)) + Cardinality(AtStage(k, {"issuing"})) <= judged[k])'
    BY <1>1, <1>6 DEF TokenInv, TokensCovered
  <2> QED
    BY <2>5, <2>6 DEF TokensCovered
<1>8. OneHand'
  <2>1. \A x \in Workers, k \in Captchas : Checking(x, k)' => Checking(x, k) /\ x # w
    BY <1>2 DEF Checking
  <2>2. Checking(w, s)
    BY <1>0, <1>1 DEF Checking
  <2>3. ASSUME s \notin raced
        PROVE  Bought(s) = {} /\ \A x \in Workers : ~Checking(x, s)'
    BY <2>1, <2>2, <2>3 DEF TokenInv, OneHand
  <2> SUFFICES ASSUME NEW y \in Captchas, (y \notin raced)'
               PROVE  (/\ \A v, x \in Workers : Checking(v, y) /\ Checking(x, y) => v = x
                       /\ \A z \in Bought(y) :
                            /\ \A u \in Bought(y) : u = z
                            /\ \A x \in Workers : ~Checking(x, y))'
    BY DEF OneHand
  <2>4. CASE y = s
    BY <1>1, <1>5, <2>3, <2>4
  <2>5. CASE y # s
    BY <1>1, <1>6, <2>1, <2>5 DEF TokenInv, OneHand
  <2> QED
    BY <2>4, <2>5
<1> QED
  BY <1>7, <1>8 DEF TokenInv

LEMMA TokenNext ==
  ASSUME TypeInv, TokensEarned, TokenInv, IsFiniteSet(Workers), IsFiniteSet(Tokens), [Next]_vars
  PROVE  TokenInv'
<1> DEFINE Shrinks ==
      /\ UNCHANGED <<gate, raced>>
      /\ \A k \in Captchas : judged[k] <= judged'[k] /\ judged'[k] \in Nat
      /\ \A x \in Workers :
           /\ job'[x].pc \in Checks => job[x].pc \in Checks /\ job'[x].captcha = job[x].captcha
           /\ job'[x].pc = "issuing" => job[x].pc = "issuing"
<1>1. judged \in [Captchas -> Nat]
  BY DEF TypeInv, TypeOK
<1>2. ASSUME NEW w \in Workers, Count(w) \/ Refresh(w) \/ Mismatch(w) PROVE Shrinks
  BY <1>1, <1>2 DEF Count, Refresh, Mismatch, Compared, history, TypeInv, TypeOK, JobsFit, Jobs, Checks
<1>3. ASSUME NEW w \in Workers, Release(w), UNCHANGED <<gate, raced, judged>> PROVE Shrinks
  BY <1>1, <1>3 DEF Release, NoJob, TypeInv, TypeOK, Checks
<1>4. ASSUME NEW w \in Workers, Fail(w) PROVE Shrinks
  BY <1>1, <1>4 DEF Fail, TypeInv, TypeOK, Jobs, Checks
<1>5. ASSUME NEW w \in Workers, NEW c \in Clients, LetIn(w, c), UNCHANGED <<gate, raced, judged>>
      PROVE  Shrinks
  <2>1. CASE job' = job
    BY <1>1, <1>5, <2>1
  <2>2. CASE job' = [job EXCEPT ![w] = [NoJob EXCEPT !.pc = "failing", !.client = c]]
    BY <1>1, <1>5, <2>2 DEF NoJob, TypeInv, TypeOK, Checks
  <2> QED
    BY <1>5, <2>1, <2>2 DEF LetIn
<1>6. CASE UNCHANGED <<gate, raced, judged, job>>
  BY <1>1, <1>6, ShrinkToken
<1>7. CASE Shrinks
  BY <1>7, ShrinkToken
<1> HIDE DEF Shrinks
<1>8. \/ UNCHANGED <<gate, raced, judged, job>> \/ Shrinks
      \/ \E w \in Workers :
           \/ Solve(w) \/ \E t \in Tokens : Issue(w, t)
           \/ \E c \in Clients, k \in Captchas, right \in BOOLEAN : Answer(w, c, k, right)
  BY <1>2, <1>3, <1>4, <1>5
     DEF Next, vars, Verify, Challenge, Strike, Die, Request, RequestOfRecruiter, Login, Logout,
         Tick, history
<1> QED
  BY <1>6, <1>7, <1>8, AnswerToken, SolveToken, IssueToken

\* A captcha is good for one token, or for as many as it allows attempts if
\* several right answers were being checked at once.
THEOREM TokensPerCaptcha ==
  ASSUME IsFiniteSet(Workers), IsFiniteSet(Tokens)
  PROVE  Spec => []OneTokenEach
<1>1. Init => TokenInv
  <2> SUFFICES ASSUME Init, NEW k \in Captchas
               PROVE  /\ Bought(k) = {} /\ AtStage(k, {"issuing"}) = {} /\ judged[k] = 0
                      /\ \A w \in Workers : ~Checking(w, k)
    BY FS_EmptySet DEF TokenInv, TokensCovered, OneHand
  <2> QED
    BY DEF Init, Bought, AtStage, Checking, NoJob
<1>2. TypeInv /\ PassInv /\ TokenInv /\ [Next]_vars => TokenInv'
  BY TokenNext DEF PassInv
<1>3. TypeInv /\ JudgeInv /\ TokenInv => OneTokenEach
  <2> SUFFICES ASSUME TypeInv, JudgeInv, TokenInv, NEW k \in Captchas
               PROVE  Cardinality(Bought(k)) <= IF k \in raced THEN MaxAttempts ELSE 1
    BY DEF OneTokenEach, Bought
  <2>1. Cardinality(Bought(k)) <= MaxAttempts
    <3> DEFINE b == Cardinality(Bought(k))  c == Cardinality(AtStage(k, {"issuing"}))
               d == Cardinality(AtStage(k, {"judging"}))  j == judged[k]
    <3>1. b \in Nat /\ c \in Nat /\ d \in Nat /\ j \in Nat
      BY BoughtFinite, StageFinite DEF TypeInv, TypeOK
    <3>2. b + c <= j /\ j + d <= MaxAttempts
      BY DEF TokenInv, TokensCovered, JudgeInv
    <3> HIDE DEF b, c, d, j
    <3>3. b <= MaxAttempts
      BY <3>1, <3>2, TimesAssumption
    <3> QED
      BY <3>3 DEF b
  <2>2. ASSUME k \notin raced PROVE Cardinality(Bought(k)) <= 1
    <3>1. CASE Bought(k) = {}
      BY <3>1, FS_EmptySet
    <3>2. CASE Bought(k) # {}
      <4>1. PICK t \in Bought(k) : TRUE
        BY <3>2
      <4>2. Bought(k) = {t}
        BY <2>2, <4>1 DEF TokenInv, OneHand
      <4>3. Cardinality({t}) = 1
        BY FS_Singleton
      <4> QED
        BY <4>2, <4>3
    <3> QED
      BY <3>1, <3>2
  <2> QED
    BY <2>1, <2>2
<1>4. Init => PassInv
  BY DEF Init, PassInv, TokensEarned, PassIsEarned, NoJob
<1> QED
  BY <1>1, <1>2, <1>3, <1>4, PassNext, JudgeInvariant, PTL DEF Spec
=============================================================================
