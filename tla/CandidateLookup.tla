--------------------------- MODULE CandidateLookup ---------------------------
(***************************************************************************)
(* The staged lookup (LookupSession) over rows with the columns and the    *)
(* filters of CandidateFields: which values fit which candidate, and what  *)
(* whoever types and views a candidate's data can rely on as days pass.    *)
(***************************************************************************)
EXTENDS LookupSession, CandidateFields

CONSTANTS
  Row,        \* the row of a candidate
  Typed,      \* what a value stands for when it is given for a field
  Calendar    \* bound: successive days, on any of which the time starts

ASSUME CalendarAssumption == Calendar \in Seq(Dates)

\* The values that the filters let fit a candidate on a day: Fits of LookupSession.
FitsOf(c, today) ==
  [f \in Fields |-> {v \in Values \cup {NoValue} :
                       FieldFilter({Row[c]}, f, Typed[f][v], today) = {Row[c]}}]

-----------------------------------------------------------------------------
(* Properties. *)

\* Whoever types the data of a candidate truthfully is told of the candidate at
\* every step of a lookup, on whatever day it is made: what is stored by
\* create_candidate_record, Candidate.save and queue_approve, what the filters of
\* advance_lookup_session make of what is typed, and the age that a profile
\* shows agree (FoundAsCreated, FoundAsEnriched, FoundInPlace).
FoundByOwnData ==
  /\ \A first \in 1 .. Len(Calendar) - Today : Calendar[first + Today] \in DaysFound
  /\ EveryPlaceFound

\* Whoever views a profile (reveal_profile) is not shown the whole of its last
\* name, e-mail or phone number, however short, except a single character.
MasksHide == \A v \in viewLog, n \in 1 .. MaxLength : n \in LengthsHidden
=============================================================================
