---------------------------- MODULE ContactRelay ----------------------------
(***************************************************************************)
(* Contact relays between recruiters who know the same candidate           *)
(* (apps/accounts/api_views.py).  A relay is made by a request of its      *)
(* initiator, or by cast_votes (module Voting) for a recruiter who voted   *)
(* before; its target accepts or rejects it, and with the acceptance both  *)
(* are mailed the addresses of both.                                       *)
(*                                                                         *)
(* The views run without a transaction: a handler reads the relay, saves   *)
(* it, reads the addresses and hands the mail to the provider in steps of  *)
(* their own, decides on the copy it has read, and can die between any two *)
(* of them.  The panel on the dashboard (static/js/main.js) leaves both    *)
(* buttons on while a request is under way, so the handlers of one relay   *)
(* can overlap.  The mail backend sends to each recipient apart and        *)
(* swallows what the provider refuses (fail_silently).                     *)
(*                                                                         *)
(* The candidate and the texts are left out, and so are the requests that  *)
(* are refused without a change: relay not found, already handled, target  *)
(* unknown or oneself.                                                     *)
(***************************************************************************)
EXTENDS Integers, FiniteSets

CONSTANTS
  Recruiters, Relays, Workers,
  NoOne, NoRelay,
  MaxDeaths          \* bound: workers that die and mails that are refused

ASSUME NullsAssumption == NoOne \notin Recruiters /\ NoRelay \notin Relays
ASSUME BoundAssumption == MaxDeaths \in Nat

VARIABLES
  relay,       \* rows of recruiter_contact_relay
  gone,        \* recruiters who have deleted their profile
  mails,       \* mails with both addresses, as delivered
  job,         \* what a worker is doing
  goneBefore,  \* who was gone when a relay was first accepted (history)
  overlapped,  \* relays that two handlers had in hand at once (history)
  failed,      \* relays of which a handler died or a mail was refused (history)
  deaths

vars == <<relay, gone, mails, job, goneBefore, overlapped, failed, deaths>>

Status == {"none", "pending", "accepted", "rejected"}

Rows == [status: Status, initiator: Recruiters \cup {NoOne}, target: Recruiters \cup {NoOne}]

NoRow == [status |-> "none", initiator |-> NoOne, target |-> NoOne]

Mails == [relay: Relays, to: Recruiters, shows: SUBSET Recruiters]

Jobs == [pc: {"idle", "accepting", "rejecting", "accepted", "sending"},
         relay: Relays \cup {NoRelay}, to: SUBSET Recruiters, shows: SUBSET Recruiters]

NoJob == [pc |-> "idle", relay |-> NoRelay, to |-> {}, shows |-> {}]

TypeOK ==
  /\ relay \in [Relays -> Rows]
  /\ gone \subseteq Recruiters
  /\ mails \subseteq Mails
  /\ job \in [Workers -> Jobs]
  /\ goneBefore \in [Relays -> SUBSET Recruiters]
  /\ overlapped \subseteq Relays
  /\ failed \subseteq Relays
  /\ deaths \in 0 .. MaxDeaths

Init ==
  /\ relay = [k \in Relays |-> NoRow]
  /\ gone = {}
  /\ mails = {}
  /\ job = [w \in Workers |-> NoJob]
  /\ goneBefore = [k \in Relays |-> {}]
  /\ overlapped = {}
  /\ failed = {}
  /\ deaths = 0

Parties(k) == {relay[k].initiator, relay[k].target}

-----------------------------------------------------------------------------
(* Making a relay. *)

Make(k, r, t) ==
  /\ relay[k].status = "none"
  /\ relay' = [relay EXCEPT ![k] = [status |-> "pending", initiator |-> r, target |-> t]]

\* create_contact_request; the mail to the target is left out.
Request(k, r, t) ==
  /\ r \notin gone /\ t \notin gone /\ t # r
  /\ Make(k, r, t)
  /\ UNCHANGED <<gone, mails, job, goneBefore, overlapped, failed, deaths>>

\* cast_votes: t has voted on a candidate of r's.
Overlap(k, r, t) ==
  /\ r # t /\ r \notin gone
  /\ Make(k, r, t)
  /\ UNCHANGED <<gone, mails, job, goneBefore, overlapped, failed, deaths>>

-----------------------------------------------------------------------------
(* The answer of the target. *)

Handling(w, k) == job[w].relay = k /\ job[w].pc \in {"accepting", "rejecting", "accepted", "sending"}

Exists(k) == relay[k].status # "none" \* mutated form
Answerable(k) == relay[k].status = "pending"

\* accept_contact_request and reject_contact_request find the relay, which the
\* target still sees on his dashboard.
Open(w, k, pc) ==
  /\ job[w].pc = "idle"
  /\ Answerable(k)
  /\ relay[k].target \notin gone
  /\ job' = [job EXCEPT ![w] = [NoJob EXCEPT !.pc = pc, !.relay = k]]
  /\ overlapped' = IF \E x \in Workers : Handling(x, k) THEN overlapped \cup {k} ELSE overlapped
  /\ UNCHANGED <<relay, gone, mails, goneBefore, failed, deaths>>

\* The two buttons of the panel.
Click(w, k) == Open(w, k, "accepting") \/ Open(w, k, "rejecting")

\* relay.save(update_fields=["status", "resolved_at"])
Saved(k, status) == [relay EXCEPT ![k].status = status]

SaveAccepted(w) ==
  LET k == job[w].relay IN
  /\ job[w].pc = "accepting"
  /\ relay' = Saved(k, "accepted")
  /\ goneBefore' = [goneBefore EXCEPT ![k] = IF relay[k].status = "pending" THEN gone ELSE @]
  /\ job' = [job EXCEPT ![w].pc = "accepted"]
  /\ UNCHANGED <<gone, mails, overlapped, failed, deaths>>

RejectedRow(k) == Saved(k, "rejected")

SaveRejected(w) ==
  LET k == job[w].relay IN
  /\ job[w].pc = "rejecting"
  /\ relay' = RejectedRow(k)
  /\ job' = [job EXCEPT ![w] = NoJob]
  /\ UNCHANGED <<gone, mails, goneBefore, overlapped, failed, deaths>>

AddressesOnRequest(k) == Parties(k) \* mutated form

\* The addresses that are real: that of a deleted profile no longer is.
Addresses(k) == Parties(k) \ gone

Compose(w) ==
  LET k == job[w].relay IN
  /\ job[w].pc = "accepted"
  /\ job' = IF Addresses(k) = {} THEN [job EXCEPT ![w] = NoJob]
            ELSE [job EXCEPT ![w].pc = "sending", ![w].to = Addresses(k), ![w].shows = Addresses(k)]
  /\ UNCHANGED <<relay, gone, mails, goneBefore, overlapped, failed, deaths>>

StopsAfterOne(w, r) == NoJob \* mutated form

\* The job of a worker that has handled recipient r.
Remaining(w, r) ==
  IF job[w].to = {r} THEN NoJob ELSE [job[w] EXCEPT !.to = @ \ {r}]

\* ResendEmailBackend.send_messages, for one recipient.
Deliver(w, r) ==
  /\ job[w].pc = "sending" /\ r \in job[w].to
  /\ mails' = mails \cup {[relay |-> job[w].relay, to |-> r, shows |-> job[w].shows]}
  /\ job' = [job EXCEPT ![w] = Remaining(w, r)]
  /\ UNCHANGED <<relay, gone, goneBefore, overlapped, failed, deaths>>

Refused(w, r) ==
  /\ job[w].pc = "sending" /\ r \in job[w].to
  /\ deaths < MaxDeaths
  /\ deaths' = deaths + 1
  /\ failed' = failed \cup {job[w].relay}
  /\ job' = [job EXCEPT ![w] = Remaining(w, r)]
  /\ UNCHANGED <<relay, gone, mails, goneBefore, overlapped>>

-----------------------------------------------------------------------------
Die(w) ==
  /\ job[w].pc # "idle"
  /\ deaths < MaxDeaths
  /\ deaths' = deaths + 1
  /\ failed' = failed \cup {job[w].relay}
  /\ job' = [job EXCEPT ![w] = NoJob]
  /\ UNCHANGED <<relay, gone, mails, goneBefore, overlapped>>

\* delete_recruiter_profile: the relays stay.
DeleteProfile(r) ==
  /\ r \notin gone
  /\ gone' = gone \cup {r}
  /\ UNCHANGED <<relay, mails, job, goneBefore, overlapped, failed, deaths>>

\* A handler goes on.
Proceed(w) ==
  \/ SaveAccepted(w) \/ SaveRejected(w) \/ Compose(w)
  \/ \E r \in Recruiters : Deliver(w, r)

Next ==
  \/ \E k \in Relays, r, t \in Recruiters :
       Overlap(k, r, t) \/ Request(k, r, t)
  \/ \E w \in Workers, k \in Relays : Click(w, k)
  \/ \E w \in Workers :
       Proceed(w) \/ Die(w) \/ \E r \in Recruiters : Refused(w, r)
  \/ \E r \in Recruiters : DeleteProfile(r)

Spec == Init /\ [][Next]_vars

\* A worker that does not die finishes its request.
FairSpec == Spec /\ \A w \in Workers : WF_vars(Proceed(w))

-----------------------------------------------------------------------------
(* Properties. *)

\* The addresses of the two, and nobody else's, go to the two and to nobody
\* else, and only once the target has answered, whatever handlers overlap,
\* die, or mail again (accept_contact_request).
ExchangedBetweenParties ==
  \A m \in mails :
    /\ relay[m.relay].status \in {"accepted", "rejected"}
    /\ m.to \in Parties(m.relay)
    /\ m.shows \subseteq Parties(m.relay)

\* The address that a recruiter had before he deleted his profile is not mailed
\* for a relay accepted after it: it is read after the relay is saved.
DeletedNotShown ==
  \A m \in mails : m.shows \cap goneBefore[m.relay] = {}

\* "B approves" before the "System then exchanges emails" (requirements/02-user-
\* flows.md:59-60): a relay that no two handlers had in hand at once exchanges
\* addresses only if it is accepted.  Where two had, it can end rejected.
ExchangeMeansAccepted ==
  \A m \in mails : m.relay \notin overlapped => relay[m.relay].status = "accepted"

\* The answer to a relay is final unless two handlers had it in hand at once,
\* and the relay is never open again even then.
AnswerIsFinal ==
  [][\A k \in Relays :
       relay[k].status \in {"accepted", "rejected"} =>
         /\ relay'[k].status \in {"accepted", "rejected"}
         /\ k \notin overlapped' => relay'[k].status = relay[k].status]_vars

\* Both recruiters of an accepted relay are told in the end, unless a handler
\* died after the save or the provider refused a mail: then nothing is sent
\* again, since the relay is no longer pending.
AcceptedIsTold ==
  \A k \in Relays :
    relay[k].status = "accepted" ~>
      \/ k \in failed
      \/ \A r \in Parties(k) : r \in gone \/ \E m \in mails : m.relay = k /\ m.to = r
=============================================================================
