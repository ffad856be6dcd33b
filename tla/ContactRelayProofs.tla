-------------------------- MODULE ContactRelayProofs --------------------------
(***************************************************************************)
(* What contact relays promise for any number of recruiters, relays and    *)
(* workers: the type invariant, who is told which addresses, and that an   *)
(* answer is final.                                                        *)
(***************************************************************************)
EXTENDS ContactRelay, TLAPS

Answered == {"accepted", "rejected"}

\* A relay that was made joins two recruiters.
RelaysJoin ==
  \A k \in Relays :
    relay[k].status # "none" => relay[k].initiator \in Recruiters /\ relay[k].target \in Recruiters

\* A handler has a relay in hand; past its save the relay is answered, before
\* it is pending, unless another handler had the same relay.
JobsFit ==
  \A w \in Workers :
    job[w].pc # "idle" =>
      LET k == job[w].relay IN
      /\ k \in Relays
      /\ relay[k].status # "none"
      /\ job[w].pc \in {"accepted", "sending"} => relay[k].status \in Answered
      /\ k \notin overlapped =>
           relay[k].status = IF job[w].pc \in {"accepting", "rejecting"} THEN "pending"
                             ELSE "accepted"

\* What a handler is about to send.
MailsFit ==
  \A w \in Workers :
    job[w].pc = "sending" =>
      /\ job[w].to \subseteq Parties(job[w].relay)
      /\ job[w].shows \subseteq Parties(job[w].relay)
      /\ job[w].shows \cap goneBefore[job[w].relay] = {}

\* Two handlers that have one relay in hand are noted.
Overlapping ==
  \A v, w \in Workers :
    v # w /\ job[v].pc # "idle" /\ job[w].pc # "idle" /\ job[v].relay = job[w].relay
      => job[v].relay \in overlapped

GoneStaysGone == \A k \in Relays : goneBefore[k] \subseteq gone

MailInv == ExchangedBetweenParties /\ DeletedNotShown /\ ExchangeMeansAccepted

IInv ==
  /\ TypeOK /\ RelaysJoin /\ JobsFit /\ MailsFit /\ Overlapping /\ GoneStaysGone /\ MailInv

LEMMA InitInv == Init => IInv
BY NullsAssumption, BoundAssumption
   DEF Init, IInv, TypeOK, RelaysJoin, JobsFit, MailsFit, Overlapping, GoneStaysGone, MailInv,
       ExchangedBetweenParties, DeletedNotShown, ExchangeMeansAccepted,
       NoRow, Rows, Status, NoJob, Jobs, Mails

-----------------------------------------------------------------------------
(* Steps that leave relays and mails alone. *)

\* A job that a worker gives up.
LEMMA LeaveInv ==
  ASSUME IInv, NEW w \in Workers, job' = [job EXCEPT ![w] = NoJob],
         UNCHANGED <<relay, gone, mails, goneBefore, overlapped>>,
         failed' \subseteq Relays, deaths' \in 0 .. MaxDeaths
  PROVE  IInv'
<1>1. NoJob \in Jobs /\ NoJob.pc = "idle"
  BY DEF NoJob, Jobs
<1>2. job'[w] = NoJob /\ \A x \in Workers : x # w => job'[x] = job[x]
  BY DEF IInv, TypeOK
<1>3. TypeOK'
  BY <1>1 DEF IInv, TypeOK
<1>4. JobsFit' /\ MailsFit' /\ Overlapping'
  BY <1>1, <1>2 DEF IInv, JobsFit, MailsFit, Overlapping, Parties
<1> QED
  BY <1>3, <1>4 DEF IInv, RelaysJoin, GoneStaysGone, MailInv, Parties,
       ExchangedBetweenParties, DeletedNotShown, ExchangeMeansAccepted

\* A new relay is in nobody's hand and in no mail.
LEMMA MakeInv ==
  ASSUME IInv, NEW k \in Relays, NEW r \in Recruiters, NEW t \in Recruiters, Make(k, r, t),
         UNCHANGED <<gone, mails, job, goneBefore, overlapped, failed, deaths>>
  PROVE  IInv'
<1>1. /\ relay[k].status = "none"
      /\ relay'[k] = [status |-> "pending", initiator |-> r, target |-> t]
      /\ \A x \in Relays : x # k => relay'[x] = relay[x]
  BY DEF Make, IInv, TypeOK
<1>2. TypeOK'
  BY <1>1 DEF Make, IInv, TypeOK, Rows, Status
<1>3. RelaysJoin'
  BY <1>1 DEF IInv, RelaysJoin
<1>4. \A w \in Workers : job[w].pc # "idle" => job[w].relay \in Relays \ {k}
  BY <1>1 DEF IInv, JobsFit
<1>5. \A m \in mails : m.relay \in Relays \ {k}
  BY <1>1 DEF IInv, TypeOK, MailInv, ExchangedBetweenParties, Mails
<1>6. JobsFit' /\ MailsFit' /\ Overlapping'
  BY <1>1, <1>4 DEF IInv, JobsFit, MailsFit, Overlapping, Parties
<1>7. MailInv'
  BY <1>1, <1>5 DEF IInv, MailInv, Parties,
       ExchangedBetweenParties, DeletedNotShown, ExchangeMeansAccepted
<1> QED
  BY <1>2, <1>3, <1>6, <1>7 DEF IInv, GoneStaysGone

LEMMA OpenInv ==
  ASSUME IInv, NEW w \in Workers, NEW k \in Relays, NEW pc \in {"accepting", "rejecting"},
         Open(w, k, pc)
  PROVE  IInv'
<1> DEFINE new == [NoJob EXCEPT !.pc = pc, !.relay = k]
<1>1. new \in Jobs /\ new.pc = pc /\ new.relay = k
  BY DEF NoJob, Jobs
<1>2. /\ job'[w] = new
      /\ \A x \in Workers : x # w => job'[x] = job[x]
      /\ relay[k].status = "pending" /\ job[w].pc = "idle"
      /\ UNCHANGED <<relay, gone, mails, goneBefore, failed, deaths>>
  BY DEF Open, Answerable, IInv, TypeOK
<1>3. overlapped \subseteq overlapped' /\ overlapped' \subseteq Relays
  BY DEF Open, IInv, TypeOK
<1>4. \A x \in Workers : x # w /\ job[x].pc # "idle" /\ job[x].relay = k => k \in overlapped'
  BY DEF Open, Handling, IInv, TypeOK, Jobs
<1> HIDE DEF new
<1>5. TypeOK'
  BY <1>1, <1>2, <1>3 DEF Open, IInv, TypeOK, new
<1>6. JobsFit' /\ MailsFit'
  BY <1>1, <1>2, <1>3 DEF IInv, JobsFit, MailsFit, Parties
<1>7. Overlapping'
  BY <1>1, <1>2, <1>3, <1>4 DEF IInv, Overlapping
<1>8. MailInv'
  BY <1>2, <1>3 DEF IInv, MailInv, Parties,
       ExchangedBetweenParties, DeletedNotShown, ExchangeMeansAccepted
<1> QED
  BY <1>2, <1>5, <1>6, <1>7, <1>8 DEF IInv, RelaysJoin, GoneStaysGone

-----------------------------------------------------------------------------
(* The saves. *)

\* Only a relay that two handlers had in hand is answered a second time.
LEMMA AnsweredOnce ==
  ASSUME IInv, NEW w \in Workers, job[w].pc \in {"accepting", "rejecting"},
         job[w].relay \notin overlapped
  PROVE  relay[job[w].relay].status = "pending"
BY DEF IInv, JobsFit

LEMMA SaveAcceptedInv ==
  ASSUME IInv, NEW w \in Workers, SaveAccepted(w)
  PROVE  IInv'
<1> DEFINE k == job[w].relay
<1>1. /\ k \in Relays /\ relay[k].status # "none" /\ job[w].pc = "accepting"
      /\ k \notin overlapped => relay[k].status = "pending"
  BY DEF SaveAccepted, IInv, JobsFit
<1>2. /\ relay' = [relay EXCEPT ![k].status = "accepted"]
      /\ goneBefore' = [goneBefore EXCEPT ![k] = IF relay[k].status = "pending" THEN gone ELSE @]
      /\ job' = [job EXCEPT ![w].pc = "accepted"]
      /\ UNCHANGED <<gone, mails, overlapped, failed, deaths>>
  BY DEF SaveAccepted, Saved
<1> HIDE DEF k
<1>3. /\ relay'[k].status = "accepted"
      /\ \A x \in Relays : x # k => relay'[x] = relay[x]
      /\ \A x \in Relays : relay'[x].initiator = relay[x].initiator
                           /\ relay'[x].target = relay[x].target
  BY <1>1, <1>2 DEF IInv, TypeOK, Rows
<1>4. /\ job'[w].pc = "accepted" /\ job'[w].relay = k
      /\ \A x \in Workers : x # w => job'[x] = job[x]
  BY <1>1, <1>2 DEF IInv, TypeOK, Jobs, k
<1>5. /\ relay[k].status # "pending" => goneBefore' = goneBefore
      /\ \A x \in Relays : x # k => goneBefore'[x] = goneBefore[x]
      /\ goneBefore'[k] \subseteq gone
  BY <1>1, <1>2 DEF IInv, TypeOK, GoneStaysGone
<1>6. TypeOK'
  <2>1. relay' \in [Relays -> Rows]
    BY <1>1, <1>2 DEF IInv, TypeOK, Rows, Status
  <2>2. goneBefore' \in [Relays -> SUBSET Recruiters]
    BY <1>1, <1>2 DEF IInv, TypeOK
  <2>3. job' \in [Workers -> Jobs]
    BY <1>2 DEF IInv, TypeOK, Jobs
  <2> QED
    BY <1>2, <2>1, <2>2, <2>3 DEF IInv, TypeOK
<1>7. RelaysJoin'
  BY <1>1, <1>3 DEF IInv, RelaysJoin
<1>8. JobsFit'
  <2> SUFFICES ASSUME NEW x \in Workers, job'[x].pc # "idle"
               PROVE  LET y == job'[x].relay IN
                      /\ y \in Relays
                      /\ relay'[y].status # "none"
                      /\ job'[x].pc \in {"accepted", "sending"} => relay'[y].status \in Answered
                      /\ y \notin overlapped =>
                           relay'[y].status = IF job'[x].pc \in {"accepting", "rejecting"}
                                              THEN "pending" ELSE "accepted"
    BY <1>2 DEF JobsFit
  <2>1. CASE x = w
    BY <1>1, <1>3, <1>4, <2>1 DEF Answered
  <2>2. CASE x # w
    <3>1. job'[x] = job[x]
      BY <1>4, <2>2
    <3>2. job[x].relay = k => k \in overlapped
      BY <1>1, <2>2, <3>1 DEF IInv, Overlapping, k
    <3> QED
      BY <1>1, <1>3, <3>1, <3>2 DEF IInv, JobsFit, Answered
  <2> QED
    BY <2>1, <2>2
<1>9. \A x \in Workers : job[x].pc = "sending" => goneBefore'[job[x].relay] = goneBefore[job[x].relay]
  BY <1>5 DEF IInv, JobsFit, Answered
<1>10. MailsFit'
  <2> SUFFICES ASSUME NEW x \in Workers, (job[x].pc = "sending")'
               PROVE  (/\ job[x].to \subseteq Parties(job[x].relay)
                       /\ job[x].shows \subseteq Parties(job[x].relay)
                       /\ job[x].shows \cap goneBefore[job[x].relay] = {})'
    BY DEF MailsFit
  <2>1. x # w /\ job'[x] = job[x] /\ job[x].relay \in Relays
    BY <1>4 DEF IInv, JobsFit
  <2> QED
    BY <1>3, <1>9, <2>1 DEF IInv, MailsFit, Parties
<1>11. Overlapping'
  BY <1>1, <1>2, <1>4 DEF IInv, Overlapping, k
<1>12. MailInv'
  <2>1. \A m \in mails : m.relay \in Relays /\ relay[m.relay].status \in Answered
    BY DEF IInv, TypeOK, Mails, MailInv, ExchangedBetweenParties, Answered
  <2>2. ExchangedBetweenParties'
    BY <1>2, <1>3, <2>1 DEF IInv, MailInv, ExchangedBetweenParties, Parties, Answered
  <2>3. DeletedNotShown'
    BY <1>2, <1>5, <2>1 DEF IInv, MailInv, DeletedNotShown, Answered
  <2>4. ExchangeMeansAccepted'
    BY <1>2, <1>3, <2>1 DEF IInv, MailInv, ExchangeMeansAccepted
  <2> QED
    BY <2>2, <2>3, <2>4 DEF MailInv
<1>13. GoneStaysGone'
  BY <1>2, <1>5 DEF IInv, GoneStaysGone
<1> QED
  BY <1>6, <1>7, <1>8, <1>10, <1>11, <1>12, <1>13 DEF IInv

LEMMA SaveRejectedInv ==
  ASSUME IInv, NEW w \in Workers, SaveRejected(w)
  PROVE  IInv'
<1> DEFINE k == job[w].relay
<1>1. /\ k \in Relays /\ relay[k].status # "none" /\ job[w].pc = "rejecting"
      /\ k \notin overlapped => relay[k].status = "pending"
  BY DEF SaveRejected, IInv, JobsFit
<1>2. /\ relay' = [relay EXCEPT ![k].status = "rejected"]
      /\ job' = [job EXCEPT ![w] = NoJob]
      /\ UNCHANGED <<gone, mails, goneBefore, overlapped, failed, deaths>>
  BY DEF SaveRejected, RejectedRow, Saved
<1> HIDE DEF k
<1>3. /\ relay'[k].status = "rejected"
      /\ \A x \in Relays : x # k => relay'[x] = relay[x]
      /\ \A x \in Relays : relay'[x].initiator = relay[x].initiator
                           /\ relay'[x].target = relay[x].target
  BY <1>1, <1>2 DEF IInv, TypeOK, Rows
<1>4. /\ job'[w].pc = "idle"
      /\ \A x \in Workers : x # w => job'[x] = job[x]
  BY <1>2 DEF IInv, TypeOK, NoJob
<1>5. TypeOK'
  <2>1. relay' \in [Relays -> Rows]
    BY <1>1, <1>2 DEF IInv, TypeOK, Rows, Status
  <2>2. job' \in [Workers -> Jobs]
    BY <1>2 DEF IInv, TypeOK, Jobs, NoJob
  <2> QED
    BY <1>2, <2>1, <2>2 DEF IInv, TypeOK
<1>6. RelaysJoin'
  BY <1>1, <1>3 DEF IInv, RelaysJoin
<1>7. \A x \in Workers : x # w /\ job[x].pc # "idle" /\ job[x].relay = k => k \in overlapped
  BY <1>1 DEF IInv, Overlapping, k
<1>8. JobsFit'
  BY <1>1, <1>2, <1>3, <1>4, <1>7 DEF IInv, JobsFit, Answered
<1>9. MailsFit'
  <2> SUFFICES ASSUME NEW x \in Workers, (job[x].pc = "sending")'
               PROVE  (/\ job[x].to \subseteq Parties(job[x].relay)
                       /\ job[x].shows \subseteq Parties(job[x].relay)
                       /\ job[x].shows \cap goneBefore[job[x].relay] = {})'
    BY DEF MailsFit
  <2>1. job'[x] = job[x] /\ job[x].relay \in Relays
    BY <1>4 DEF IInv, JobsFit
  <2> QED
    BY <1>2, <1>3, <2>1 DEF IInv, MailsFit, Parties
<1>10. Overlapping'
  BY <1>2, <1>4 DEF IInv, Overlapping
<1>11. MailInv'
  <2>1. \A m \in mails : /\ m.relay \in Relays /\ relay[m.relay].status \in Answered
                         /\ m.relay \notin overlapped => m.relay # k
    BY <1>1 DEF IInv, TypeOK, Mails, MailInv, ExchangedBetweenParties, ExchangeMeansAccepted,
                Answered
  <2>2. ExchangedBetweenParties'
    BY <1>2, <1>3, <2>1 DEF IInv, MailInv, ExchangedBetweenParties, Parties, Answered
  <2>3. DeletedNotShown' /\ ExchangeMeansAccepted'
    BY <1>2, <1>3, <2>1 DEF IInv, MailInv, DeletedNotShown, ExchangeMeansAccepted
  <2> QED
    BY <2>2, <2>3 DEF MailInv
<1> QED
  BY <1>2, <1>5, <1>6, <1>8, <1>9, <1>10, <1>11 DEF IInv, GoneStaysGone

-----------------------------------------------------------------------------
(* The mails. *)

\* The addresses that are read are not those of profiles deleted before the
\* acceptance.
LEMMA ComposeInv ==
  ASSUME IInv, NEW w \in Workers, Compose(w)
  PROVE  IInv'
<1> DEFINE k == job[w].relay
           new == [job[w] EXCEPT !.pc = "sending", !.to = Addresses(k), !.shows = Addresses(k)]
<1>1. /\ job[w].pc = "accepted" /\ k \in Relays /\ relay[k].status \in Answered
      /\ UNCHANGED <<relay, gone, mails, goneBefore, overlapped, failed, deaths>>
  BY DEF Compose, IInv, JobsFit
<1>2. CASE Addresses(k) = {}
  <2>1. job' = [job EXCEPT ![w] = NoJob]
    BY <1>2 DEF Compose
  <2> QED
    BY <1>1, <2>1, LeaveInv DEF IInv, TypeOK
<1>3. CASE Addresses(k) # {}
  <2>1. job' = [job EXCEPT ![w].pc = "sending", ![w].to = Addresses(k), ![w].shows = Addresses(k)]
    BY <1>3 DEF Compose
  <2>2. Addresses(k) \subseteq Parties(k) /\ Parties(k) \subseteq Recruiters
    BY <1>1 DEF Addresses, Parties, IInv, RelaysJoin, Answered
  <2>3. Addresses(k) \cap goneBefore[k] = {}
    BY <1>1 DEF Addresses, IInv, GoneStaysGone
  <2>4. /\ job'[w].pc = "sending" /\ job'[w].relay = k
        /\ job'[w].to = Addresses(k) /\ job'[w].shows = Addresses(k)
        /\ \A x \in Workers : x # w => job'[x] = job[x]
    BY <2>1 DEF IInv, TypeOK, Jobs
  <2>5. TypeOK'
    <3>1. job[w] \in Jobs /\ Addresses(k) \in SUBSET Recruiters
      BY <2>2 DEF IInv, TypeOK
    <3>2. new \in Jobs
      BY <3>1 DEF Jobs
    <3>3. job' = [job EXCEPT ![w] = new]
      BY <2>1 DEF IInv, TypeOK
    <3> HIDE DEF new
    <3>4. job' \in [Workers -> Jobs]
      BY <3>2, <3>3 DEF IInv, TypeOK
    <3> QED
      BY <1>1, <3>4 DEF IInv, TypeOK
  <2>6. JobsFit'
    BY <1>1, <2>4 DEF IInv, JobsFit
  <2>7. MailsFit'
    BY <1>1, <2>2, <2>3, <2>4 DEF IInv, MailsFit, Parties
  <2>8. Overlapping'
    BY <1>1, <2>4 DEF IInv, Overlapping
  <2> QED
    BY <1>1, <2>5, <2>6, <2>7, <2>8 DEF IInv, RelaysJoin, GoneStaysGone, MailInv, Parties,
         ExchangedBetweenParties, DeletedNotShown, ExchangeMeansAccepted
<1> QED
  BY <1>2, <1>3

\* A handler that has dealt with one recipient.
LEMMA RemainingInv ==
  ASSUME IInv, NEW w \in Workers, NEW r \in Recruiters, job[w].pc = "sending",
         job' = [job EXCEPT ![w] = Remaining(w, r)],
         UNCHANGED <<relay, gone, goneBefore, overlapped>>
  PROVE  /\ job' \in [Workers -> Jobs]
         /\ JobsFit' /\ MailsFit' /\ Overlapping'
<1>1. Remaining(w, r) \in Jobs
  BY DEF Remaining, NoJob, IInv, TypeOK, Jobs
<1>2. /\ Remaining(w, r).pc \in {"idle", "sending"}
      /\ Remaining(w, r).pc # "idle" =>
           /\ Remaining(w, r).relay = job[w].relay
           /\ Remaining(w, r).to \subseteq job[w].to
           /\ Remaining(w, r).shows = job[w].shows
  BY DEF Remaining, NoJob, IInv, TypeOK, Jobs
<1>3. job'[w] = Remaining(w, r) /\ \A x \in Workers : x # w => job'[x] = job[x]
  BY DEF IInv, TypeOK
<1>4. job' \in [Workers -> Jobs]
  BY <1>1 DEF IInv, TypeOK
<1>5. JobsFit'
  BY <1>2, <1>3 DEF IInv, JobsFit
<1>6. MailsFit'
  BY <1>2, <1>3 DEF IInv, MailsFit, Parties
<1>7. Overlapping'
  BY <1>2, <1>3 DEF IInv, Overlapping
<1> QED
  BY <1>4, <1>5, <1>6, <1>7

LEMMA DeliverInv ==
  ASSUME IInv, NEW w \in Workers, NEW r \in Recruiters, Deliver(w, r)
  PROVE  IInv'
<1> DEFINE new == [relay |-> job[w].relay, to |-> r, shows |-> job[w].shows]
<1>1. /\ job[w].pc = "sending" /\ r \in job[w].to /\ mails' = mails \cup {new}
      /\ job' = [job EXCEPT ![w] = Remaining(w, r)]
      /\ UNCHANGED <<relay, gone, goneBefore, overlapped, failed, deaths>>
  BY DEF Deliver
<1>2. job' \in [Workers -> Jobs] /\ JobsFit' /\ MailsFit' /\ Overlapping'
  BY <1>1, RemainingInv
<1>3. /\ new.relay \in Relays /\ new \in Mails
      /\ relay[new.relay].status \in Answered
      /\ new.relay \notin overlapped => relay[new.relay].status = "accepted"
      /\ new.to \in Parties(new.relay) /\ new.shows \subseteq Parties(new.relay)
      /\ new.shows \cap goneBefore[new.relay] = {}
  BY <1>1 DEF IInv, TypeOK, Jobs, JobsFit, MailsFit, Mails
<1> HIDE DEF new
<1>4. MailInv'
  BY <1>1, <1>3 DEF IInv, MailInv, Parties, Answered,
       ExchangedBetweenParties, DeletedNotShown, ExchangeMeansAccepted
<1>5. TypeOK'
  BY <1>1, <1>2, <1>3 DEF IInv, TypeOK
<1> QED
  BY <1>1, <1>2, <1>4, <1>5 DEF IInv, RelaysJoin, GoneStaysGone

LEMMA RefusedInv ==
  ASSUME IInv, NEW w \in Workers, NEW r \in Recruiters, Refused(w, r)
  PROVE  IInv'
<1>1. /\ job[w].pc = "sending" /\ job' = [job EXCEPT ![w] = Remaining(w, r)]
      /\ UNCHANGED <<relay, gone, mails, goneBefore, overlapped>>
  BY DEF Refused
<1>2. job' \in [Workers -> Jobs] /\ JobsFit' /\ MailsFit' /\ Overlapping'
  BY <1>1, RemainingInv
<1>3. failed' \subseteq Relays /\ deaths' \in 0 .. MaxDeaths
  BY BoundAssumption DEF Refused, IInv, TypeOK, JobsFit
<1>4. TypeOK'
  BY <1>1, <1>2, <1>3 DEF IInv, TypeOK
<1> QED
  BY <1>1, <1>2, <1>4 DEF IInv, RelaysJoin, GoneStaysGone, MailInv, Parties,
       ExchangedBetweenParties, DeletedNotShown, ExchangeMeansAccepted

LEMMA DeleteInv ==
  ASSUME IInv, NEW r \in Recruiters, DeleteProfile(r)
  PROVE  IInv'
BY DEF DeleteProfile, IInv, TypeOK, RelaysJoin, JobsFit, MailsFit, Overlapping, GoneStaysGone,
       MailInv, Parties, ExchangedBetweenParties, DeletedNotShown, ExchangeMeansAccepted

-----------------------------------------------------------------------------
LEMMA NextInv == IInv /\ [Next]_vars => IInv'
<1> SUFFICES ASSUME IInv, [Next]_vars PROVE IInv'
  OBVIOUS
<1>1. ASSUME NEW k \in Relays, NEW r \in Recruiters, NEW t \in Recruiters,
             Overlap(k, r, t) \/ Request(k, r, t)
      PROVE  IInv'
  BY <1>1, MakeInv DEF Overlap, Request
<1>2. ASSUME NEW w \in Workers, NEW k \in Relays, Click(w, k)
      PROVE  IInv'
  BY <1>2, OpenInv DEF Click
<1>3. ASSUME NEW w \in Workers, Proceed(w)
      PROVE  IInv'
  BY <1>3, SaveAcceptedInv, SaveRejectedInv, ComposeInv, DeliverInv DEF Proceed
<1>4. ASSUME NEW w \in Workers, Die(w)
      PROVE  IInv'
  <2>1. failed' \subseteq Relays /\ deaths' \in 0 .. MaxDeaths
    BY <1>4, BoundAssumption DEF Die, IInv, TypeOK, JobsFit
  <2> QED
    BY <1>4, <2>1, LeaveInv DEF Die
<1>5. ASSUME NEW w \in Workers, NEW r \in Recruiters, Refused(w, r)
      PROVE  IInv'
  BY <1>5, RefusedInv
<1>6. ASSUME NEW r \in Recruiters, DeleteProfile(r)
      PROVE  IInv'
  BY <1>6, DeleteInv
<1>7. CASE UNCHANGED vars
  BY <1>7 DEF vars, IInv, TypeOK, RelaysJoin, JobsFit, MailsFit, Overlapping, GoneStaysGone,
       MailInv, Parties, ExchangedBetweenParties, DeletedNotShown, ExchangeMeansAccepted
<1> QED
  BY <1>1, <1>2, <1>3, <1>4, <1>5, <1>6, <1>7 DEF Next

LEMMA Invariance == Spec => []IInv
BY InitInv, NextInv, PTL DEF Spec

\* The rows and jobs of relays keep their type.
THEOREM TypeCorrect == Spec => []TypeOK
<1>1. IInv => TypeOK
  BY DEF IInv
<1> QED
  BY <1>1, Invariance, PTL

\* The two parties of an answered relay, and nobody else, are told the addresses
\* of the two, and of nobody else.
THEOREM OnlyPartiesAreTold == Spec => []ExchangedBetweenParties
<1>1. IInv => ExchangedBetweenParties
  BY DEF IInv, MailInv
<1> QED
  BY <1>1, Invariance, PTL

\* A profile that is deleted before a relay is accepted is not shown for it.
THEOREM DeletedAreNotShown == Spec => []DeletedNotShown
<1>1. IInv => DeletedNotShown
  BY DEF IInv, MailInv
<1> QED
  BY <1>1, Invariance, PTL

\* Addresses are exchanged for accepted relays, unless handlers overlapped.
THEOREM ExchangedWhenAccepted == Spec => []ExchangeMeansAccepted
<1>1. IInv => ExchangeMeansAccepted
  BY DEF IInv, MailInv
<1> QED
  BY <1>1, Invariance, PTL

-----------------------------------------------------------------------------
(* The answer is final. *)

LEMMA SaveFinal ==
  ASSUME IInv, NEW w \in Workers, SaveAccepted(w) \/ SaveRejected(w),
         NEW k \in Relays, relay[k].status \in Answered
  PROVE  /\ relay'[k].status \in Answered
         /\ k \notin overlapped' => relay'[k].status = relay[k].status
<1> DEFINE s == job[w].relay
<1>1. job[w].pc \in {"accepting", "rejecting"} /\ s \in Relays /\ overlapped' = overlapped
  BY DEF SaveAccepted, SaveRejected, IInv, JobsFit
<1>2. PICK new \in Answered : relay' = [relay EXCEPT ![s].status = new]
  BY DEF SaveAccepted, SaveRejected, RejectedRow, Saved, Answered
<1>3. relay'[k].status = IF k = s THEN new ELSE relay[k].status
  BY <1>1, <1>2 DEF IInv, TypeOK, Rows
<1>4. k = s => k \in overlapped
  BY <1>1, AnsweredOnce DEF Answered
<1> QED
  BY <1>1, <1>2, <1>3, <1>4

\* The answer to a relay is final, unless two handlers had it in hand at once.
THEOREM AnswersAreFinal == Spec => AnswerIsFinal
<1> DEFINE Final(k) ==
      relay[k].status \in Answered =>
        /\ relay'[k].status \in Answered
        /\ k \notin overlapped' => relay'[k].status = relay[k].status
<1>1. IInv /\ [Next]_vars => [\A k \in Relays : Final(k)]_vars
  <2> SUFFICES ASSUME IInv, Next, NEW k \in Relays, relay[k].status \in Answered
               PROVE  Final(k)
    OBVIOUS
  <2>1. ASSUME NEW x \in Relays, NEW r \in Recruiters, NEW t \in Recruiters, Make(x, r, t)
        PROVE  relay'[k] = relay[k]
    BY <2>1 DEF Make, IInv, TypeOK, Answered
  <2>2. ASSUME NEW w \in Workers, SaveAccepted(w) \/ SaveRejected(w)
        PROVE  Final(k)
    BY <2>2, SaveFinal
  <2>3. \/ relay' = relay
        \/ \E x \in Relays, r, t \in Recruiters : Make(x, r, t)
        \/ \E w \in Workers : SaveAccepted(w) \/ SaveRejected(w)
    BY DEF Next, Overlap, Request, Click, Open, Proceed, Compose, Deliver, Die, Refused,
           DeleteProfile
  <2> QED
    BY <2>1, <2>2, <2>3
<1>2. [\A k \in Relays : Final(k)]_vars
        => [\A k \in Relays :
              relay[k].status \in {"accepted", "rejected"} =>
                /\ relay'[k].status \in {"accepted", "rejected"}
                /\ k \notin overlapped' => relay'[k].status = relay[k].status]_vars
  BY DEF Answered
<1> QED
  BY <1>1, <1>2, Invariance, PTL DEF Spec, AnswerIsFinal
=============================================================================
