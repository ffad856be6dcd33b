--------------------------------- MODULE Gate ---------------------------------
(***************************************************************************)
(* The gate (apps/security): a client solves a captcha, gets a token for   *)
(* it, and sends the token with each request; failures are counted per     *)
(* address and ban the address.                                            *)
(*                                                                         *)
(* The views of the captcha run without a transaction, so each query and   *)
(* each save of verify_captcha_challenge, create_js_gate_token and         *)
(* register_security_failure is a step of its own and workers come in      *)
(* between, or die.  The count of attempts is an update in the database    *)
(* (F() + 1), the count of strikes is saved from a copy.                   *)
(*                                                                         *)
(* A client is an address with a user agent.  An answer is right or wrong; *)
(* codes, digests and signatures are left out, and so are the              *)
(* SecurityEvent rows, an audit trail that nothing reads.  Times are in    *)
(* ticks, from 1.                                                          *)
(***************************************************************************)
EXTENDS Integers, FiniteSets

CONSTANTS
  Ips, Clients,
  IpOf,              \* extract_client_ip
  Captchas, Tokens, Workers,
  NoCaptcha, NoClient,
  MaxAttempts,       \* CaptchaChallenge.max_attempts
  CaptchaLife,       \* the literal 10 minutes of create_captcha_challenge
  TTL,               \* settings.API_JS_GATE_TTL_SECONDS
  BanTime,           \* settings.IP_BAN_MINUTES
  Threshold,         \* settings.IP_BAN_THRESHOLD
  MaxTime,           \* bound: last tick
  MaxFailures,       \* bound: failures registered for an address
  MaxDeaths          \* bound: workers that die in a request

ASSUME ClientsAssumption == IpOf \in [Clients -> Ips] /\ NoClient \notin Clients
ASSUME CaptchasAssumption == NoCaptcha \notin Captchas
ASSUME TimesAssumption ==
  /\ MaxAttempts \in Nat \ {0} /\ CaptchaLife \in Nat \ {0}
  /\ TTL \in Nat \ {0} /\ BanTime \in Nat \ {0} /\ Threshold \in Nat \ {0}
  /\ MaxTime \in Nat \ {0} /\ MaxFailures \in Nat /\ MaxDeaths \in Nat

VARIABLES
  now,
  captcha,   \* rows of security_captcha_challenge
  gate,      \* rows of security_api_gate_token
  ban,       \* rows of security_ip_ban
  login,     \* clients with the session of a recruiter
  job,       \* what a worker is doing
  judged,    \* answers to a captcha that were compared (history)
  solvers,   \* who has solved a captcha (history)
  raced,     \* captchas that two answers were checked for at once (history)
  failures,  \* register_security_failure calls of an address (history)
  clashed,   \* addresses of which two such calls overlapped or one died (history)
  deaths,
  last       \* the last request or login that was let in for a token (history)

vars == <<now, captcha, gate, ban, login, job, judged, solvers, raced, failures, clashed, deaths, last>>
history == <<judged, solvers, raced, failures, clashed, deaths, last>>

Captcha == [expires: Nat, attempts: Nat, solved: BOOLEAN]
NoCaptchaRow == [expires |-> 0, attempts |-> 0, solved |-> FALSE]

Gates == [client: Clients \cup {NoClient}, source: Captchas \cup {NoCaptcha}, expires: Nat]
NoGate == [client |-> NoClient, source |-> NoCaptcha, expires |-> 0]

Bans == [strikes: 0 .. MaxFailures + 1, until: Nat]
NoBan == [strikes |-> 0, until |-> 0]

Jobs == [pc: {"idle", "counting", "counted", "judging", "issuing", "failing", "saving"},
         client: Clients \cup {NoClient}, captcha: Captchas \cup {NoCaptcha},
         right: BOOLEAN, attempts: Nat, strikes: Nat, until: Nat]
NoJob == [pc |-> "idle", client |-> NoClient, captcha |-> NoCaptcha,
          right |-> FALSE, attempts |-> 0, strikes |-> 0, until |-> 0]

NoPass == [client |-> NoClient, source |-> NoCaptcha, at |-> 0, issued |-> 0]

TypeOK ==
  /\ now \in 1 .. MaxTime
  /\ captcha \in [Captchas -> Captcha]
  /\ gate \in [Tokens -> Gates]
  /\ ban \in [Ips -> Bans]
  /\ login \subseteq Clients
  /\ job \in [Workers -> Jobs]
  /\ judged \in [Captchas -> Nat]
  /\ solvers \in [Captchas -> SUBSET Clients]
  /\ raced \subseteq Captchas
  /\ failures \in [Ips -> Nat]
  /\ clashed \subseteq Ips
  /\ deaths \in 0 .. MaxDeaths
  /\ last \in [client: Clients \cup {NoClient}, source: Captchas \cup {NoCaptcha}, at: Nat, issued: Nat]

Init ==
  /\ now = 1
  /\ captcha = [k \in Captchas |-> NoCaptchaRow]
  /\ gate = [t \in Tokens |-> NoGate]
  /\ ban = [ip \in Ips |-> NoBan]
  /\ login = {}
  /\ job = [w \in Workers |-> NoJob]
  /\ judged = [k \in Captchas |-> 0]
  /\ solvers = [k \in Captchas |-> {}]
  /\ raced = {}
  /\ failures = [ip \in Ips |-> 0]
  /\ clashed = {}
  /\ deaths = 0
  /\ last = NoPass

Release(w) == job' = [job EXCEPT ![w] = NoJob]

-----------------------------------------------------------------------------
(* Captchas *)

\* create_captcha_challenge
NewCaptcha(k) == [captcha EXCEPT ![k].expires = now + CaptchaLife]

Challenge(k) ==
  /\ captcha[k] = NoCaptchaRow
  /\ captcha' = NewCaptcha(k)
  /\ UNCHANGED <<now, gate, ban, login, job, history>>

Checking(w, k) ==
  job[w].captcha = k /\ job[w].pc \in {"counting", "counted", "judging", "issuing"}

\* verify_captcha_challenge finds a challenge that is neither solved nor out of
\* date; other requests end there.
Answer(w, c, k, right) ==
  /\ job[w].pc = "idle"
  /\ ~captcha[k].solved /\ captcha[k].expires > now
  /\ job' = [job EXCEPT ![w] = [NoJob EXCEPT !.pc = "counting", !.client = c,
                                             !.captcha = k, !.right = right]]
  /\ raced' = IF \E x \in Workers : Checking(x, k) THEN raced \cup {k} ELSE raced
  /\ UNCHANGED <<now, captcha, gate, ban, login, judged, solvers, failures, clashed, deaths, last>>

\* attempts = F("attempts") + 1
Count(w) ==
  /\ job[w].pc = "counting"
  /\ captcha' = [captcha EXCEPT ![job[w].captcha].attempts = @ + 1]
  /\ job' = [job EXCEPT ![w].pc = "counted"]
  /\ UNCHANGED <<now, gate, ban, login, history>>

\* Mutated form: the count is read before it is written.
CountedBefore(k) == captcha[k].attempts - 1
CountedSoFar(k) == captcha[k].attempts

\* refresh_from_db(fields=["attempts"])
Refresh(w) ==
  LET k == job[w].captcha  n == CountedSoFar(k) IN
  /\ job[w].pc = "counted"
  /\ job' = [job EXCEPT ![w].attempts = n,
                        ![w].pc = IF n > MaxAttempts THEN "failing" ELSE "judging"]
  /\ UNCHANGED <<now, captcha, gate, ban, login, history>>

Compared(w) == judged' = [judged EXCEPT ![job[w].captcha] = @ + 1]

NotSolved(k) == captcha \* mutated form
Solved(k) == [captcha EXCEPT ![k].solved = TRUE]

Solve(w) ==
  LET k == job[w].captcha IN
  /\ job[w].pc = "judging" /\ job[w].right
  /\ Compared(w)
  /\ captcha' = Solved(k)
  /\ solvers' = [solvers EXCEPT ![k] = @ \cup {job[w].client}]
  /\ job' = [job EXCEPT ![w].pc = "issuing"]
  /\ UNCHANGED <<now, gate, ban, login, raced, failures, clashed, deaths, last>>

Mismatch(w) ==
  /\ job[w].pc = "judging" /\ ~job[w].right
  /\ Compared(w)
  /\ job' = [job EXCEPT ![w].pc = "failing"]
  /\ UNCHANGED <<now, captcha, gate, ban, login, solvers, raced, failures, clashed, deaths, last>>

-----------------------------------------------------------------------------
(* Tokens *)

\* create_js_gate_token
Issue(w, t) ==
  /\ job[w].pc = "issuing"
  /\ gate[t] = NoGate
  /\ gate' = [gate EXCEPT ![t] = [client |-> job[w].client, source |-> job[w].captcha,
                                  expires |-> now + TTL]]
  /\ Release(w)
  /\ UNCHANGED <<now, captcha, ban, login, history>>

ValidAnywhere(t, c) == gate[t] # NoGate /\ gate[t].expires > now \* mutated form

\* validate_js_gate_token
Valid(t, c) == gate[t].client = c /\ gate[t].expires > now

Passed(t, c) ==
  last' = [client |-> c, source |-> gate[t].source, at |-> now, issued |-> gate[t].expires - TTL]

\* is_ip_banned
Banned(ip) == ban[ip].until > now

\* ApiGateMiddleware lets in a request with a token, or one of a recruiter,
\* whose lookup may fail.
LetIn(w, c) ==
  /\ job[w].pc = "idle"
  /\ ~Banned(IpOf[c])
  /\ job' \in {job, [job EXCEPT ![w] = [NoJob EXCEPT !.pc = "failing", !.client = c]]}

Request(w, c, t) ==
  /\ LetIn(w, c)
  /\ Valid(t, c)
  /\ Passed(t, c)
  /\ UNCHANGED <<now, captcha, gate, ban, login, judged, solvers, raced, failures, clashed, deaths>>

RequestOfRecruiter(w, c) ==
  /\ LetIn(w, c)
  /\ c \in login
  /\ UNCHANGED <<now, captcha, gate, ban, login, history>>

\* LoginWithCaptchaView.form_valid and SignupWithCaptchaView.form_valid
Login(c, t) ==
  /\ Valid(t, c)
  /\ Passed(t, c)
  /\ login' = login \cup {c}
  /\ UNCHANGED <<now, captcha, gate, ban, job, judged, solvers, raced, failures, clashed, deaths>>

Logout(c) ==
  /\ c \in login
  /\ login' = login \ {c}
  /\ UNCHANGED <<now, captcha, gate, ban, job, history>>

-----------------------------------------------------------------------------
(* register_security_failure *)

FirstFailure(until) == [strikes |-> 1, until |-> until]

\* The row that get_or_create returns.
Found(ip, until) == IF ban[ip] = NoBan THEN FirstFailure(until) ELSE ban[ip]

Striking(w, ip) == job[w].pc = "saving" /\ IpOf[job[w].client] = ip

Fail(w) ==
  LET ip == IpOf[job[w].client]  until == now + BanTime  row == Found(ip, until) IN
  /\ job[w].pc = "failing"
  /\ failures[ip] < MaxFailures
  /\ failures' = [failures EXCEPT ![ip] = @ + 1]
  /\ clashed' = IF \E x \in Workers : Striking(x, ip) THEN clashed \cup {ip} ELSE clashed
  /\ ban' = [ban EXCEPT ![ip] = row]
  /\ job' = [job EXCEPT ![w].pc = "saving", ![w].strikes = row.strikes, ![w].until = until]
  /\ UNCHANGED <<now, captcha, gate, login, judged, solvers, raced, deaths, last>>

\* Mutated form: an address below the threshold is not banned.
PardonedBelow(row, strikes, until) ==
  [strikes |-> strikes + 1, until |-> IF strikes >= Threshold THEN until ELSE now]

\* Mutated form: a failure counts only towards the ban it sets.
StrikeLost(row, strikes, until) ==
  IF strikes >= Threshold THEN [strikes |-> strikes + 1, until |-> until] ELSE row

\* ban.save(update_fields=...), from the copy.
Struck(row, strikes, until) ==
  [strikes |-> strikes + 1, until |-> IF strikes >= Threshold THEN until ELSE row.until]

Strike(w) ==
  LET ip == IpOf[job[w].client] IN
  /\ job[w].pc = "saving"
  /\ ban' = [ban EXCEPT ![ip] = Struck(@, job[w].strikes, job[w].until)]
  /\ Release(w)
  /\ UNCHANGED <<now, captcha, gate, login, history>>

-----------------------------------------------------------------------------
(* A worker dies between two steps: what it has saved stays. *)
Die(w) ==
  /\ job[w].pc # "idle"
  /\ deaths < MaxDeaths
  /\ deaths' = deaths + 1
  /\ clashed' = IF job[w].pc = "saving" THEN clashed \cup {IpOf[job[w].client]} ELSE clashed
  /\ Release(w)
  /\ UNCHANGED <<now, captcha, gate, ban, login, judged, solvers, raced, failures, last>>

Tick ==
  /\ now < MaxTime
  /\ now' = now + 1
  /\ UNCHANGED <<captcha, gate, ban, login, job, history>>

Verify(w) ==
  \/ \E c \in Clients, k \in Captchas, right \in BOOLEAN : Answer(w, c, k, right)
  \/ Count(w) \/ Refresh(w) \/ Solve(w) \/ Mismatch(w)
  \/ \E t \in Tokens : Issue(w, t)
  \/ Fail(w) \/ Strike(w) \/ Die(w)

Next ==
  \/ \E k \in Captchas : Challenge(k)
  \/ \E w \in Workers : Verify(w)
  \/ \E w \in Workers, c \in Clients :
       RequestOfRecruiter(w, c) \/ \E t \in Tokens : Request(w, c, t)
  \/ \E c \in Clients : Logout(c) \/ \E t \in Tokens : Login(c, t)
  \/ Tick

Spec == Init /\ [][Next]_vars

-----------------------------------------------------------------------------
(* Properties. *)

\* No captcha has more answers compared than it allows, however many are sent
\* at once: the attempt is counted before the answer is judged
\* (verify_captcha_challenge).
JudgedWithinLimit == \A k \in Captchas : judged[k] <= MaxAttempts

\* A captcha is good for one token, unless several right answers were being
\* checked at once; then for as many as it allows attempts.
OneTokenEach ==
  \A k \in Captchas :
    LET bought == {t \in Tokens : gate[t] # NoGate /\ gate[t].source = k} IN
    Cardinality(bought) <= IF k \in raced THEN MaxAttempts ELSE 1

\* Who is let in for a token has solved the captcha of that token himself, from
\* the same address with the same agent, and the token is not older than its
\* time to live.
PassIsEarned ==
  last # NoPass =>
    /\ captcha[last.source].solved
    /\ last.client \in solvers[last.source]
    /\ last.issued <= last.at /\ last.at < last.issued + TTL

\* Strikes are never made up, and none is lost unless two failures of the
\* address overlapped or the worker of one died.  The first failure counts
\* twice (the row is made with one strike, then one is added).
StrikesCounted ==
  \A ip \in Ips :
    /\ ban[ip].strikes <= failures[ip] + 1
    /\ (failures[ip] > 0 /\ ip \notin clashed /\ \A w \in Workers : ~Striking(w, ip))
         => ban[ip].strikes = failures[ip] + 1

\* A ban is never cut short, unless two failures of the address overlapped: then
\* the one that was registered first can be saved last, with the earlier end.
BanNotCutShort ==
  [][\A ip \in Ips : ip \notin clashed' => ban'[ip].until >= ban[ip].until]_vars
=============================================================================
