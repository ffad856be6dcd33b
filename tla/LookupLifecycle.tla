-------------------------- MODULE LookupLifecycle --------------------------
(***************************************************************************)
(* The life of a lookup session as its user sees it: it narrows a set of   *)
(* candidates, and ends for good as failed, expired, or resolved to the    *)
(* one candidate that is left.                                             *)
(***************************************************************************)
CONSTANTS Sessions, Candidates

VARIABLES status, remaining

vars == <<status, remaining>>

Init ==
  /\ status = [s \in Sessions |-> "none"]
  /\ remaining = [s \in Sessions |-> {}]

Move(s, from, to, ids) ==
  /\ status[s] = from
  /\ status' = [status EXCEPT ![s] = to]
  /\ remaining' = [remaining EXCEPT ![s] = ids]

Start(s, ids) == Move(s, "none", "active", ids)

Narrow(s, ids) ==
  /\ ids # {} /\ ids \subseteq remaining[s]
  /\ Move(s, "active", "active", ids)

Resolve(s, c) == c \in remaining[s] /\ Move(s, "active", "resolved", {c})

Fail(s) == Move(s, "active", "failed", {})

Expire(s) == Move(s, "active", "expired", remaining[s])

Next ==
  \E s \in Sessions :
    \/ \E ids \in SUBSET Candidates : Start(s, ids) \/ Narrow(s, ids)
    \/ \E c \in Candidates : Resolve(s, c)
    \/ Fail(s)
    \/ Expire(s)

Spec == Init /\ [][Next]_vars
=============================================================================
