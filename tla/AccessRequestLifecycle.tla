----------------------- MODULE AccessRequestLifecycle -----------------------
(***************************************************************************)
(* What the request process promises, whatever messages it takes: a request*)
(* is decided at most once, a grant changes only between the approval and  *)
(* its confirmation, and it changes at most once for each request          *)
(* (class comment of access-request-process.ts).                           *)
(***************************************************************************)
CONSTANT Request

VARIABLES status,   \* where each request is
          applied   \* the requests whose grant was created or extended

lifecycle == <<status, applied>>

Init ==
  /\ status = [r \in Request |-> "UNSPECIFIED"]
  /\ applied = {}

Move(r, from, to) ==
  /\ status[r] = from
  /\ status' = [status EXCEPT ![r] = to]
  /\ UNCHANGED applied

Start(r) == Move(r, "UNSPECIFIED", "SUBMISSION_STARTED")

Accept(r) == Move(r, "SUBMISSION_STARTED", "PENDING")

Refuse(r) == Move(r, "SUBMISSION_STARTED", "SUBMISSION_FAILED")

Approve(r) == Move(r, "PENDING", "APPROVAL_STARTED")

Deny(r) == Move(r, "PENDING", "DENIED")

Cancel(r) == Move(r, "PENDING", "CANCELED")

Apply(r) ==
  /\ status[r] = "APPROVAL_STARTED"
  /\ r \notin applied
  /\ applied' = applied \cup {r}
  /\ UNCHANGED status

Confirm(r) == r \in applied /\ Move(r, "APPROVAL_STARTED", "APPROVED")

Abandon(r) == r \notin applied /\ Move(r, "APPROVAL_STARTED", "APPROVAL_FAILED")

Next ==
  \E r \in Request :
    \/ Start(r) \/ Accept(r) \/ Refuse(r)
    \/ Approve(r) \/ Deny(r) \/ Cancel(r)
    \/ Apply(r) \/ Confirm(r) \/ Abandon(r)

Spec == Init /\ [][Next]_lifecycle
=============================================================================
