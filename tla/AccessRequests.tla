--------------------------- MODULE AccessRequests ---------------------------
(***************************************************************************)
(* Requests for access and the grants they lead to, in one organization:   *)
(*                                                                         *)
(*   request        AccessRequestProcessManager, one per request           *)
(*   access         ResourceAccessAggregate, one per person and resource   *)
(*   requestView    AccessRequestViewProjection, what a requester follows, *)
(*                  and what a submission reads to find duplicates         *)
(*   task           AccessDecisionAssignmentProjection, one per manager    *)
(*   grantView      AccessGrantViewProjection, one per grant               *)
(*   open           the part of ResourceCatalogItem that a submission reads*)
(*                                                                         *)
(* All of them live in the Resources context and take their messages from  *)
(* its shard (ShardInbox).  The queues of several managers take one place  *)
(* in it together: they stand side by side and no handler reads them.      *)
(*                                                                         *)
(* A handler that throws a plain Error is an alternative that only drops   *)
(* the message.                                                            *)
(***************************************************************************)
EXTENDS FiniteSets, ResourceAccess, ShardInbox

CONSTANTS
  Resource,
  PolicyManager,    \* the managers of each resource, as its policy names them
  OfferedLevel,     \* the ranks of the levels each resource offers
  MaximumDuration,  \* the longest total access each resource permits
  ClientCommand,    \* the commands clients may give
  MaxTime,          \* bound: the last moment of the clock
  MaxInbox,         \* bound: clients give no command to a longer inbox
  ClockStep         \* how far the clock may move within one handler

Unset == -1

NoPerson == "no person"

TimeOrUnset == Time \cup {Unset}

PersonOrNone == Person \cup {NoPerson}

AccessId == [grantee : Person, resource : Resource]

----------------------------------------------------------------------------
(* What a request says, unchanged once it is pending. *)

NoSnapshot == [kind |-> "none"]

NewSnapshot ==
  [kind : {"new"}, requester : Person, resource : Resource,
   level : Nat, period : Period]

ExtensionSnapshot ==
  [kind : {"extension"}, requester : Person, resource : Resource,
   grant : Request, proposedEnd : TimeOrUnset]

Snapshot == NewSnapshot \cup ExtensionSnapshot

Status ==
  {"UNSPECIFIED", "SUBMISSION_STARTED", "SUBMISSION_FAILED", "PENDING",
   "APPROVAL_STARTED", "APPROVED", "APPROVAL_FAILED", "DENIED", "CANCELED"}

Terminal ==
  {"SUBMISSION_FAILED", "APPROVED", "APPROVAL_FAILED", "DENIED", "CANCELED"}

ProcessState ==
  [status : Status, snapshot : Snapshot \cup {NoSnapshot},
   manager : SUBSET Person]

RequestView ==
  [status : Status, snapshot : Snapshot \cup {NoSnapshot},
   decidedBy : PersonOrNone]

Task == [request : Request, snapshot : Snapshot]

GrantView ==
  [known : BOOLEAN, start : TimeOrUnset, end : TimeOrUnset,
   revoked : BOOLEAN, extension : Seq(Request)]

----------------------------------------------------------------------------
(* The commands and events that pass through the inbox. *)

SubmitCommand ==
  [type : {"SubmitAccessRequest"}, request : Request, requester : Person,
   resource : Resource, level : Nat, period : Period]

SubmitExtensionCommand ==
  [type : {"SubmitAccessExtensionRequest"}, request : Request,
   requester : Person, resource : Resource, grant : Request, duration : Nat]

DecisionCommand ==
  [type : {"ApproveAccessRequest", "DenyAccessRequest",
           "CancelAccessRequest"},
   request : Request, person : PersonOrNone]

RevokeCommand ==
  [type : {"RevokeAccessGrant"}, id : AccessId, grant : Request,
   person : PersonOrNone]

CheckCommand ==
  [type : {"CheckRequestedAccess"}, id : AccessId, request : Request,
   level : Nat, start : Time, end : Time, maximum : Nat]

CheckExtensionCommand ==
  [type : {"CheckRequestedExtension"}, id : AccessId, request : Request,
   grant : Request, duration : Nat, maximum : Nat]

CreateGrantCommand ==
  [type : {"CreateAccessGrant"}, id : AccessId, request : Request,
   level : Nat, start : Time, end : Time, manager : SUBSET Person]

ExtendGrantCommand ==
  [type : {"ExtendAccessGrant"}, id : AccessId, request : Request,
   grant : Request, end : TimeOrUnset]

SubmissionStartedEvent ==
  [type : {"AccessRequestSubmissionStarted",
           "AccessExtensionRequestSubmissionStarted"},
   request : Request, duration : Nat]

(* What a request's access answers a check with: an event or a rejection. *)
AnswerEvent ==
  [type : {"RequestedAccessChecked", "RequestedExtensionChecked",
           "AccessAlreadyHeld", "RequestedDurationTooLong",
           "AccessGrantNotActive"},
   request : Request, proposedEnd : TimeOrUnset]

RequestEvent ==
  [type : {"AccessRequestSubmitted", "AccessExtensionRequestSubmitted",
           "AccessRequestApprovalStarted", "AccessRequestApproved",
           "AccessRequestApprovalFailed", "AccessRequestDenied",
           "AccessRequestCanceled"},
   request : Request, snapshot : Snapshot, manager : SUBSET Person,
   decidedBy : PersonOrNone, whenDecided : TimeOrUnset]

GrantEvent ==
  [type : {"AccessGrantCreated", "AccessGrantExtended"},
   grant : Request, request : Request, start : TimeOrUnset, end : Time]

RevokedEvent ==
  [type : {"AccessGrantRevoked"}, grant : Request, manager : SUBSET Person]

Signal ==
  SubmitCommand \cup SubmitExtensionCommand \cup DecisionCommand
  \cup RevokeCommand \cup CheckCommand \cup CheckExtensionCommand
  \cup CreateGrantCommand \cup ExtendGrantCommand
  \cup SubmissionStartedEvent \cup AnswerEvent \cup RequestEvent
  \cup GrantEvent \cup RevokedEvent

Entity ==
  {"AccessRequest", "RequestView", "Decisions", "ResourceAccess", "GrantView"}

Message == [to : Entity, signal : Signal]

ASSUME ConstantsAssumption ==
  /\ NoPerson \notin Person
  /\ PolicyManager \in [Resource -> SUBSET Person]
  /\ OfferedLevel \in [Resource -> SUBSET Nat]
  /\ MaximumDuration \in [Resource -> Nat]
  /\ ClientCommand \subseteq SubmitCommand \cup SubmitExtensionCommand
                             \cup DecisionCommand \cup RevokeCommand
  /\ MaxTime \in Nat /\ MaxInbox \in Nat /\ MaxCrashes \in Nat
  /\ ClockStep \in Nat

----------------------------------------------------------------------------
VARIABLES
  now,          \* Time.currentTime()
  open,         \* whether the catalog shows each resource as open
  request, access, requestView, task, grantView,
  applied       \* history: the requests whose grant was created or extended

entities == <<request, access, requestView, task, grantView, applied>>
vars == <<now, open, entities, inbox, crashes>>

TypeOK ==
  /\ now \in Time
  /\ open \in [Resource -> BOOLEAN]
  /\ request \in [Request -> ProcessState]
  /\ access \in [AccessId -> Access]
  /\ requestView \in [Request -> RequestView]
  /\ task \in [Person -> SUBSET Task]
  /\ grantView \in [Request -> GrantView]
  /\ inbox \in Seq(Message)
  /\ applied \in SUBSET Request
  /\ crashes \in Nat

Init ==
  /\ now = 0
  /\ open \in [Resource -> BOOLEAN]
  /\ request = [r \in Request |->
       [status |-> "UNSPECIFIED", snapshot |-> NoSnapshot, manager |-> {}]]
  /\ access = [a \in AccessId |-> NoAccess]
  /\ requestView = [r \in Request |->
       [status |-> "UNSPECIFIED", snapshot |-> NoSnapshot,
        decidedBy |-> NoPerson]]
  /\ task = [p \in Person |-> {}]
  /\ grantView = [g \in Request |->
       [known |-> FALSE, start |-> Unset, end |-> Unset, revoked |-> FALSE,
        extension |-> <<>>]]
  /\ inbox = <<>>
  /\ applied = {}
  /\ crashes = 0

----------------------------------------------------------------------------
(* Delivery. *)

(* The message has no effect: the handler rejected it to nobody who listens*)
(* or threw an Error.                                                      *)
Drop == Give(<<>>) /\ UNCHANGED entities

RequestEventOf(type, r, decidedBy, whenDecided) ==
  [type |-> type, request |-> r, snapshot |-> request[r].snapshot,
   manager |-> request[r].manager, decidedBy |-> decidedBy,
   whenDecided |-> whenDecided]

(* A variant for mutation runs: the managers' queues are not routed to. *)
ToRequestView(event) == <<To("RequestView", event)>>

(* The projections an event about a request is routed to. *)
ToProjections(event) == <<To("RequestView", event), To("Decisions", event)>>

(* A variant for mutation runs: a rejected extension finds no request. *)
UnroutedNotActive(type, r, proposedEnd) ==
  IF type = "AccessGrantNotActive" THEN <<>>
  ELSE <<To("AccessRequest",
       [type |-> type, request |-> r, proposedEnd |-> proposedEnd])>>

(* An answer is routed to the request whose command is answered. *)
Answer(type, r, proposedEnd) ==
  <<To("AccessRequest",
       [type |-> type, request |-> r, proposedEnd |-> proposedEnd])>>

----------------------------------------------------------------------------
(* Clients, the clock and the catalog. *)

(* A client gives a command, which the gateway and the server accept.      *)
Post(command) ==
  /\ Len(inbox) < MaxInbox
  /\ inbox' = Append(inbox,
       To(IF command.type = "RevokeAccessGrant" THEN "ResourceAccess"
                                                ELSE "AccessRequest",
          command))
  /\ UNCHANGED <<now, open, entities, crashes>>

Tick ==
  /\ now < MaxTime
  /\ now' = now + 1
  /\ UNCHANGED <<open, entities, inbox, crashes>>

(* The catalog entry receives ResourceOpenedForRequests or                 *)
(* ResourceClosedForRequests; the resource itself is not modelled here.    *)
ApplyPolicy(resource) ==
  /\ open' = [open EXCEPT ![resource] = ~open[resource]]
  /\ UNCHANGED <<now, entities, inbox, crashes>>

----------------------------------------------------------------------------
(* AccessRequestProcessManager: submission. *)

(* Whether a conflicting request of this requester is shown as pending.    *)
(* A first-time request names no grant ("grant" is empty); it conflicts    *)
(* with any pending request for the resource.                              *)
HasPendingRequest(requester, resource, r, grant) ==
  \E other \in Request \ {r} :
    LET view == requestView[other] IN
    /\ view.status = "PENDING"
    /\ view.snapshot.requester = requester
    /\ \/ view.snapshot.kind = "new" /\ view.snapshot.resource = resource
       \/ /\ view.snapshot.kind = "extension"
          /\ IF grant = {} THEN view.snapshot.resource = resource
                           ELSE view.snapshot.grant \in grant

(* A variant for mutation runs: a repeated submission starts over. *)
RepeatedToo(r) ==
  \/ request[r].snapshot = NoSnapshot
  \/ received.type = "SubmitAccessRequest" /\ request[r].snapshot.kind = "new"

Unclaimed(r) ==
  request[r].status = "UNSPECIFIED" /\ request[r].snapshot = NoSnapshot

(* Stores the request while its submission is checked. *)
Store(r, snapshot) ==
  request' = [request EXCEPT ![r] =
    [status |-> "SUBMISSION_STARTED", snapshot |-> snapshot,
     manager |-> PolicyManager[snapshot.resource]]]

Submittable(c) ==
  /\ Nonempty(RequestedInterval(c.period, now))
  /\ Unclaimed(c.request)
  /\ open[c.resource]
  /\ c.level \in OfferedLevel[c.resource]
  /\ ~HasPendingRequest(c.requester, c.resource, c.request, {})

SubmitAccessRequest ==
  /\ Receives("AccessRequest", {"SubmitAccessRequest"})
  /\ LET c == received IN
     \/ /\ Submittable(c)
        /\ Store(c.request,
             [kind |-> "new", requester |-> c.requester,
              resource |-> c.resource, level |-> c.level,
              period |-> c.period])
        /\ Give(<<To("AccessRequest",
             [type |-> "AccessRequestSubmissionStarted",
              request |-> c.request, duration |-> 0])>>)
        /\ UNCHANGED <<access, requestView, task, grantView, applied>>
     \/ ~Submittable(c) /\ Drop
  /\ UNCHANGED <<now, open>>

ExtensionSubmittable(c) ==
  /\ c.duration > 0
  /\ Unclaimed(c.request)
  /\ open[c.resource]
  /\ ~HasPendingRequest(c.requester, c.resource, c.request, {c.grant})

SubmitAccessExtensionRequest ==
  /\ Receives("AccessRequest", {"SubmitAccessExtensionRequest"})
  /\ LET c == received IN
     \/ /\ ExtensionSubmittable(c)
        /\ Store(c.request,
             [kind |-> "extension", requester |-> c.requester,
              resource |-> c.resource, grant |-> c.grant,
              proposedEnd |-> Unset])
        /\ Give(<<To("AccessRequest",
             [type |-> "AccessExtensionRequestSubmissionStarted",
              request |-> c.request, duration |-> c.duration])>>)
        /\ UNCHANGED <<access, requestView, task, grantView, applied>>
     \/ ~ExtensionSubmittable(c) /\ Drop
  /\ UNCHANGED <<now, open>>

AccessOf(snapshot) ==
  [grantee |-> snapshot.requester, resource |-> snapshot.resource]

OnAccessRequestSubmissionStarted ==
  /\ Receives("AccessRequest", {"AccessRequestSubmissionStarted"})
  /\ LET r == received.request
         snapshot == request[r].snapshot
         requested == RequestedInterval(snapshot.period, now)
     IN Give(<<To("ResourceAccess",
          [type |-> "CheckRequestedAccess", id |-> AccessOf(snapshot),
           request |-> r, level |-> snapshot.level,
           start |-> requested.start, end |-> requested.end,
           maximum |-> MaximumDuration[snapshot.resource]])>>)
  /\ UNCHANGED <<now, open, entities>>

OnAccessExtensionRequestSubmissionStarted ==
  /\ Receives("AccessRequest", {"AccessExtensionRequestSubmissionStarted"})
  /\ LET r == received.request
         snapshot == request[r].snapshot
     IN Give(<<To("ResourceAccess",
          [type |-> "CheckRequestedExtension", id |-> AccessOf(snapshot),
           request |-> r, grant |-> snapshot.grant,
           duration |-> received.duration,
           maximum |-> MaximumDuration[snapshot.resource]])>>)
  /\ UNCHANGED <<now, open, entities>>

(* A variant for mutation runs: an answer settles a request twice. *)
EverSubmitted(r) == request[r].status # "UNSPECIFIED"

BeingSubmitted(r) == request[r].status = "SUBMISSION_STARTED"

SetStatus(r, status) ==
  request' = [request EXCEPT ![r].status = status]

OnRequestedAccessChecked ==
  /\ Receives("AccessRequest", {"RequestedAccessChecked"})
  /\ LET r == received.request IN
     \/ /\ BeingSubmitted(r)
        /\ SetStatus(r, "PENDING")
        /\ Give(ToProjections(RequestEventOf("AccessRequestSubmitted", r,
                                             NoPerson, Unset)))
        /\ UNCHANGED <<access, requestView, task, grantView, applied>>
     \/ ~BeingSubmitted(r) /\ Drop
  /\ UNCHANGED <<now, open>>

OnRequestedExtensionChecked ==
  /\ Receives("AccessRequest", {"RequestedExtensionChecked"})
  /\ LET r == received.request
         event == [RequestEventOf("AccessExtensionRequestSubmitted", r,
                                  NoPerson, Unset)
                   EXCEPT !.snapshot.proposedEnd = received.proposedEnd]
     IN
     \/ /\ BeingSubmitted(r)
        /\ request' = [request EXCEPT ![r] =
             [@ EXCEPT !.status = "PENDING", !.snapshot = event.snapshot]]
        /\ Give(ToProjections(event))
        /\ UNCHANGED <<access, requestView, task, grantView, applied>>
     \/ ~BeingSubmitted(r) /\ Drop
  /\ UNCHANGED <<now, open>>

(* AccessAlreadyHeld and RequestedDurationTooLong end the submission.  The *)
(* events of the failure reach the audit trail only.                       *)
OnSubmissionRejected ==
  /\ Receives("AccessRequest",
              {"AccessAlreadyHeld", "RequestedDurationTooLong"})
  /\ LET r == received.request IN
     \/ /\ BeingSubmitted(r)
        /\ SetStatus(r, "SUBMISSION_FAILED")
        /\ Give(<<>>)
        /\ UNCHANGED <<access, requestView, task, grantView, applied>>
     \/ ~BeingSubmitted(r) /\ Drop
  /\ UNCHANGED <<now, open>>

----------------------------------------------------------------------------
(* AccessRequestProcessManager: the decision. *)

Eligible(r, person) == person \in request[r].manager

(* A variant for mutation runs: a request is undecided until it is settled.*)
NotYetSettled(r) == request[r].status \in {"PENDING", "APPROVAL_STARTED"}

Pending(r) == request[r].status = "PENDING"

BeingApproved(r) == request[r].status = "APPROVAL_STARTED"

ApproveAccessRequest ==
  /\ Receives("AccessRequest", {"ApproveAccessRequest"})
  /\ LET r == received.request
         accepted == Pending(r) /\ Eligible(r, received.person)
         event == RequestEventOf("AccessRequestApprovalStarted", r,
                                 received.person, now)
     IN
     \/ /\ accepted
        /\ SetStatus(r, "APPROVAL_STARTED")
        /\ Give(<<To("AccessRequest", event), To("RequestView", event)>>)
        /\ UNCHANGED <<access, requestView, task, grantView, applied>>
     \/ ~accepted /\ Drop
  /\ UNCHANGED <<now, open>>

(* An approved first-time request creates the grant that shares its name.  *)
Creation(event) ==
  LET interval == GrantedInterval(event.snapshot.period, event.whenDecided)
  IN [type |-> "CreateAccessGrant", id |-> AccessOf(event.snapshot),
      request |-> event.request, level |-> event.snapshot.level,
      start |-> interval.start, end |-> interval.end,
      manager |-> event.manager]

(* An approved extension moves the end of the grant it names. *)
Extension(event) ==
  [type |-> "ExtendAccessGrant", id |-> AccessOf(event.snapshot),
   request |-> event.request, grant |-> event.snapshot.grant,
   end |-> event.snapshot.proposedEnd]

OnAccessRequestApprovalStarted ==
  /\ Receives("AccessRequest", {"AccessRequestApprovalStarted"})
  /\ Give(<<To("ResourceAccess",
       IF received.snapshot.kind = "new" THEN Creation(received)
                                         ELSE Extension(received))>>)
  /\ UNCHANGED <<now, open, entities>>

(* AccessGrantCreated and AccessGrantExtended approve the request. *)
OnGrantChanged ==
  /\ Receives("AccessRequest", {"AccessGrantCreated", "AccessGrantExtended"})
  /\ LET r == received.request IN
     \/ /\ BeingApproved(r)
        /\ SetStatus(r, "APPROVED")
        /\ Give(ToProjections(RequestEventOf("AccessRequestApproved", r,
                                             NoPerson, Unset)))
        /\ UNCHANGED <<access, requestView, task, grantView, applied>>
     \/ ~BeingApproved(r) /\ Drop
  /\ UNCHANGED <<now, open>>

(* An extension ends without effect when its grant gives no access, at its *)
(* submission or at its approval.                                          *)
OnAccessGrantNotActive ==
  /\ Receives("AccessRequest", {"AccessGrantNotActive"})
  /\ LET r == received.request IN
     \/ /\ BeingSubmitted(r)
        /\ SetStatus(r, "SUBMISSION_FAILED")
        /\ Give(<<>>)
        /\ UNCHANGED <<access, requestView, task, grantView, applied>>
     \/ /\ BeingApproved(r)
        /\ SetStatus(r, "APPROVAL_FAILED")
        /\ Give(ToProjections(RequestEventOf("AccessRequestApprovalFailed",
                                             r, NoPerson, Unset)))
        /\ UNCHANGED <<access, requestView, task, grantView, applied>>
     \/ ~BeingSubmitted(r) /\ ~BeingApproved(r) /\ Drop
  /\ UNCHANGED <<now, open>>

DenyAccessRequest ==
  /\ Receives("AccessRequest", {"DenyAccessRequest"})
  /\ LET r == received.request
         accepted == Pending(r) /\ Eligible(r, received.person)
     IN
     \/ /\ accepted
        /\ SetStatus(r, "DENIED")
        /\ Give(ToProjections(RequestEventOf("AccessRequestDenied", r,
                                             received.person, now)))
        /\ UNCHANGED <<access, requestView, task, grantView, applied>>
     \/ ~accepted /\ Drop
  /\ UNCHANGED <<now, open>>

CancelAccessRequest ==
  /\ Receives("AccessRequest", {"CancelAccessRequest"})
  /\ LET r == received.request IN
     \/ /\ Pending(r)
        /\ SetStatus(r, "CANCELED")
        /\ Give(ToProjections(RequestEventOf("AccessRequestCanceled", r,
                                             NoPerson, Unset)))
        /\ UNCHANGED <<access, requestView, task, grantView, applied>>
     \/ ~Pending(r) /\ Drop
  /\ UNCHANGED <<now, open>>

----------------------------------------------------------------------------
(* ResourceAccessAggregate. *)

CheckRequestedAccess ==
  /\ Receives("ResourceAccess", {"CheckRequestedAccess"})
  /\ LET c == received
         tooLong == LongerThan(c, c.maximum)
         held == Holds(access[c.id], c.level, c, {}, now)
     IN
     \/ tooLong /\ Give(Answer("RequestedDurationTooLong", c.request, Unset))
     \/ /\ ~tooLong /\ held
        /\ Give(Answer("AccessAlreadyHeld", c.request, Unset))
     \/ /\ ~tooLong /\ ~held
        /\ Give(Answer("RequestedAccessChecked", c.request, Unset))
  /\ UNCHANGED <<now, open, entities>>

(* A variant for mutation runs: each extension is capped on its own. *)
AddedAccess(held, proposedEnd) ==
  [start |-> held.end, end |-> proposedEnd]

(* The access a grant gives in total, its extension included. *)
WholeAccess(held, proposedEnd) ==
  [start |-> held.start, end |-> proposedEnd]

(* A handler that reads the clock once more may find it later.             *)
ReadAgain ==
  /\ now' \in now .. now + ClockStep
  /\ now' <= MaxTime

(* Whether another grant gives access already is asked with a second       *)
(* reading of the clock.                                                   *)
CheckRequestedExtension ==
  /\ Receives("ResourceAccess", {"CheckRequestedExtension"})
  /\ LET c == received
         active == ActiveGrants(access[c.id], c.grant, now)
     IN
     \/ /\ active = {}
        /\ Give(Answer("AccessGrantNotActive", c.request, Unset))
        /\ UNCHANGED now
     \/ \E held \in active :
          LET proposedEnd == held.end + c.duration
              added == [start |-> held.end, end |-> proposedEnd]
              tooLong == LongerThan(WholeAccess(held, proposedEnd), c.maximum)
              Other(time) ==
                Holds(access[c.id], held.level, added, {c.grant}, time)
          IN
          \/ /\ tooLong
             /\ Give(Answer("RequestedDurationTooLong", c.request, Unset))
             /\ UNCHANGED now
          \/ /\ ~tooLong /\ ReadAgain /\ Other(now')
             /\ Give(Answer("AccessAlreadyHeld", c.request, Unset))
          \/ /\ ~tooLong /\ ReadAgain /\ ~Other(now')
             /\ Give(Answer("RequestedExtensionChecked", c.request,
                            proposedEnd))
  /\ UNCHANGED <<open, entities>>

GrantChanged(type, grant, r, start, end) ==
  LET event == [type |-> type, grant |-> grant, request |-> r,
                start |-> start, end |-> end]
  IN <<To("AccessRequest", event), To("GrantView", event)>>

CreateAccessGrant ==
  /\ Receives("ResourceAccess", {"CreateAccessGrant"})
  /\ LET c == received
         held == access[c.id]
         issuable == Nonempty(c) /\ c.request \notin GrantIds(held)
         created == [id |-> c.request, level |-> c.level,
                     start |-> c.start, end |-> c.end]
     IN
     \/ /\ issuable
        /\ access' = [access EXCEPT ![c.id] =
             [manager |-> c.manager,
              grant |-> GrantsNotEnded(held, now) \cup {created}]]
        /\ applied' = applied \cup {c.request}
        /\ Give(GrantChanged("AccessGrantCreated", c.request, c.request,
                             c.start, c.end))
        /\ UNCHANGED <<request, requestView, task, grantView>>
     \/ ~issuable /\ Drop
  /\ UNCHANGED <<now, open>>

(* Whether the grant gives access is asked with one reading of the clock,  *)
(* and which grants are kept with another.                                 *)
ExtendAccessGrant ==
  /\ Receives("ResourceAccess", {"ExtendAccessGrant"})
  /\ LET c == received
         active == ActiveGrants(access[c.id], c.grant, now)
     IN
     \/ /\ active = {}
        /\ Give(Answer("AccessGrantNotActive", c.request, Unset))
        /\ UNCHANGED <<now, entities>>
     \/ \E held \in active :
          \/ /\ c.end > held.end
             /\ ReadAgain
             /\ access' = [access EXCEPT ![c.id].grant =
                  Extended(access[c.id], c.grant, c.end, now')]
             /\ applied' = applied \cup {c.request}
             /\ Give(GrantChanged("AccessGrantExtended", c.grant, c.request,
                                  Unset, c.end))
             /\ UNCHANGED <<request, requestView, task, grantView>>
          \/ c.end <= held.end /\ Drop /\ UNCHANGED now
  /\ UNCHANGED open

(* The grant is looked for with one reading of the clock, and the grants   *)
(* that are kept are chosen with another.                                  *)
RevokeAccessGrant ==
  /\ Receives("ResourceAccess", {"RevokeAccessGrant"})
  /\ LET c == received
         held == access[c.id]
         revocable == c.person \in held.manager
                      /\ \E g \in GrantsNotEnded(held, now) : g.id = c.grant
         event == [type |-> "AccessGrantRevoked", grant |-> c.grant,
                   manager |-> held.manager]
     IN
     \/ /\ revocable
        /\ ReadAgain
        /\ access' = [access EXCEPT ![c.id].grant =
             {g \in GrantsNotEnded(held, now') : g.id # c.grant}]
        /\ Give(<<To("Decisions", event), To("GrantView", event)>>)
        /\ UNCHANGED <<request, requestView, task, grantView, applied>>
     \/ ~revocable /\ Drop /\ UNCHANGED now
  /\ UNCHANGED open

----------------------------------------------------------------------------
(* The projections. *)

SeedPending ==
  /\ Receives("RequestView",
       {"AccessRequestSubmitted", "AccessExtensionRequestSubmitted"})
  /\ requestView' = [requestView EXCEPT
       ![received.request].status = "PENDING",
       ![received.request].snapshot = received.snapshot]
  /\ Give(<<>>)
  /\ UNCHANGED <<now, open, request, access, task, grantView, applied>>

(* An approval under way is shown by who gave it; the status stays. *)
ShowApprovalStarted ==
  /\ Receives("RequestView", {"AccessRequestApprovalStarted"})
  /\ requestView' = [requestView EXCEPT
       ![received.request].decidedBy = received.decidedBy]
  /\ Give(<<>>)
  /\ UNCHANGED <<now, open, request, access, task, grantView, applied>>

SettledAs(type) ==
  CASE type = "AccessRequestApproved"       -> "APPROVED"
    [] type = "AccessRequestApprovalFailed" -> "APPROVAL_FAILED"
    [] type = "AccessRequestDenied"         -> "DENIED"
    [] type = "AccessRequestCanceled"       -> "CANCELED"

SettledEvents ==
  {"AccessRequestApproved", "AccessRequestApprovalFailed",
   "AccessRequestDenied", "AccessRequestCanceled"}

(* A variant for mutation runs: an approval's decider is wiped. *)
DeciderOfEvent(view, event) == event.decidedBy

(* Only a denial says who decided; an approval's decider is kept. *)
DeciderShown(view, event) ==
  IF event.type = "AccessRequestDenied" THEN event.decidedBy
                                        ELSE view.decidedBy

Settle ==
  /\ Receives("RequestView", SettledEvents)
  /\ LET e == received
         view == requestView[e.request]
     IN requestView' = [requestView EXCEPT ![e.request] =
          [status |-> SettledAs(e.type), snapshot |-> e.snapshot,
           decidedBy |-> DeciderShown(view, e)]]
  /\ Give(<<>>)
  /\ UNCHANGED <<now, open, request, access, task, grantView, applied>>

Assign ==
  /\ Receives("Decisions",
       {"AccessRequestSubmitted", "AccessExtensionRequestSubmitted"})
  /\ LET e == received
         assigned == [request |-> e.request, snapshot |-> e.snapshot]
     IN task' = [p \in Person |->
          IF /\ p \in e.manager
             /\ \A t \in task[p] : t.request # e.request
          THEN task[p] \cup {assigned}
          ELSE task[p]]
  /\ Give(<<>>)
  /\ UNCHANGED <<now, open, request, access, requestView, grantView, applied>>

Close ==
  /\ Receives("Decisions", SettledEvents)
  /\ LET e == received
     IN task' = [p \in Person |->
          IF p \in e.manager THEN {t \in task[p] : t.request # e.request}
                             ELSE task[p]]
  /\ Give(<<>>)
  /\ UNCHANGED <<now, open, request, access, requestView, grantView, applied>>

ExtensionOf(snapshot, grant) ==
  snapshot.kind = "extension" /\ snapshot.grant = grant

DropExtensionsOf ==
  /\ Receives("Decisions", {"AccessGrantRevoked"})
  /\ LET e == received
     IN task' = [p \in Person |->
          IF p \in e.manager
          THEN {t \in task[p] : ~ExtensionOf(t.snapshot, e.grant)}
          ELSE task[p]]
  /\ Give(<<>>)
  /\ UNCHANGED <<now, open, request, access, requestView, grantView, applied>>

ShowCreated ==
  /\ Receives("GrantView", {"AccessGrantCreated"})
  /\ grantView' = [grantView EXCEPT ![received.grant] =
       [@ EXCEPT !.known = TRUE, !.start = received.start,
                 !.end = received.end, !.revoked = FALSE]]
  /\ Give(<<>>)
  /\ UNCHANGED <<now, open, request, access, requestView, task, applied>>

(* A variant for mutation runs: the end stays. *)
ShowExtensionOnly ==
  /\ Receives("GrantView", {"AccessGrantExtended"})
  /\ grantView' = [grantView EXCEPT
       ![received.grant].extension = Append(@, received.request)]
  /\ Give(<<>>)
  /\ UNCHANGED <<now, open, request, access, requestView, task, applied>>

ShowExtended ==
  /\ Receives("GrantView", {"AccessGrantExtended"})
  /\ LET e == received
         view == grantView[e.grant]
     IN grantView' = [grantView EXCEPT ![e.grant] =
          [view EXCEPT !.end = e.end,
                       !.extension = Append(view.extension, e.request)]]
  /\ Give(<<>>)
  /\ UNCHANGED <<now, open, request, access, requestView, task, applied>>

ShowRevoked ==
  /\ Receives("GrantView", {"AccessGrantRevoked"})
  /\ grantView' = [grantView EXCEPT ![received.grant].revoked = TRUE]
  /\ Give(<<>>)
  /\ UNCHANGED <<now, open, request, access, requestView, task, applied>>

----------------------------------------------------------------------------
HandleRequest ==
  \/ SubmitAccessRequest \/ SubmitAccessExtensionRequest
  \/ OnAccessRequestSubmissionStarted
  \/ OnAccessExtensionRequestSubmissionStarted
  \/ OnRequestedAccessChecked \/ OnRequestedExtensionChecked
  \/ OnSubmissionRejected
  \/ ApproveAccessRequest \/ DenyAccessRequest \/ CancelAccessRequest
  \/ OnAccessRequestApprovalStarted
  \/ OnGrantChanged \/ OnAccessGrantNotActive

HandleAccess ==
  \/ CheckRequestedAccess \/ CheckRequestedExtension
  \/ CreateAccessGrant \/ ExtendAccessGrant \/ RevokeAccessGrant

Project ==
  \/ SeedPending \/ ShowApprovalStarted \/ Settle
  \/ Assign \/ Close \/ DropExtensionsOf
  \/ ShowCreated \/ ShowExtended \/ ShowRevoked

Deliver == HandleRequest \/ HandleAccess \/ Project

Next ==
  \/ Deliver
  \/ \E command \in ClientCommand : Post(command)
  \/ Tick
  \/ \E resource \in Resource : ApplyPolicy(resource)

Spec == Init /\ [][Next]_vars

(* The shard keeps delivering while it holds messages; clients, the clock  *)
(* and the catalog owe nothing.                                            *)
FairSpec == Spec /\ WF_vars(Deliver)

----------------------------------------------------------------------------
(* Safety. *)

Approving(r) == request[r].status \in {"APPROVAL_STARTED", "APPROVED"}

(* An extension that a manager approved moved the grant's end to "end". *)
ExtendedTo(grant, end) ==
  \E r \in Request :
    /\ Approving(r)
    /\ ExtensionOf(request[r].snapshot, grant)
    /\ request[r].snapshot.proposedEnd = end

EndAsRequested(g) ==
  LET period == request[g.id].snapshot.period IN
  IF period.kind = "immediate" THEN g.end = g.start + period.duration
                               ELSE g.end = period.end

(* A person holds a grant only because a manager approved their own        *)
(* first-time request for this resource, and at the level it asked for.    *)
GrantsAreApproved ==
  \A a \in AccessId : \A g \in access[a].grant :
    LET snapshot == request[g.id].snapshot IN
    /\ Approving(g.id)
    /\ snapshot.kind = "new"
    /\ AccessOf(snapshot) = a
    /\ g.level = snapshot.level

(* The end of a grant is the one its request asked for, or the one that an *)
(* approved extension of it proposed.                                      *)
GrantEndsAreApproved ==
  \A a \in AccessId : \A g \in access[a].grant :
    EndAsRequested(g) \/ ExtendedTo(g.id, g.end)

(* A request that is approved has changed a grant, and a request that is   *)
(* refused, denied, canceled or still awaits a decision has changed none.  *)
EffectsFollowApprovals ==
  \A r \in Request :
    /\ request[r].status = "APPROVED" => r \in applied
    /\ r \in applied => Approving(r)

(* Extensions included, no grant ever lasts longer than its resource       *)
(* permits in total.                                                       *)
LifetimeCapped ==
  \A a \in AccessId : \A g \in access[a].grant :
    ~LongerThan(g, MaximumDuration[a.resource])

KeptGrantIds == UNION {GrantIds(access[a]) : a \in AccessId}

(* A grant that ended or was revoked is forgotten for good: no later       *)
(* approval, extension or repeated command brings it back.                 *)
ForgottenForGood ==
  [][\A r \in applied :
       r \notin KeptGrantIds => r \notin KeptGrantIds']_vars

(* Once all messages are delivered, a requester sees where the request is: *)
(* nothing until it is submitted, and who approves it while it is granted. *)
RequestViewAgrees ==
  inbox = <<>> =>
    \A r \in Request :
      LET status == request[r].status
          view == requestView[r]
      IN
      IF status \in {"UNSPECIFIED", "SUBMISSION_STARTED", "SUBMISSION_FAILED"}
      THEN view.status = "UNSPECIFIED"
      ELSE /\ view.snapshot = request[r].snapshot
           /\ IF status = "APPROVAL_STARTED" THEN view.status = "PENDING"
                                             ELSE view.status = status
           /\ (view.decidedBy # NoPerson) <=>
              (status \in {"APPROVAL_STARTED", "APPROVED",
                           "APPROVAL_FAILED", "DENIED"})

(* Once all messages are delivered, a manager's queue holds a request only *)
(* if that manager may decide it and it has no outcome, and every pending  *)
(* request is in the queues of all its managers, except an extension of a  *)
(* revoked grant.                                                          *)
TasksAgree ==
  inbox = <<>> =>
    \A p \in Person, r \in Request :
      LET status == request[r].status
          snapshot == request[r].snapshot
          queued == \E t \in task[p] : t.request = r
          mayDecide == p \in request[r].manager
      IN
      /\ queued => mayDecide /\ status \in {"PENDING", "APPROVAL_STARTED"}
      /\ status = "PENDING" /\ mayDecide =>
           \/ queued
           \/ snapshot.kind = "extension" /\ grantView[snapshot.grant].revoked

(* Once all messages are delivered, the grants a person's access keeps are *)
(* the grants shown as not revoked and not ended, with the same span.      *)
GrantViewAgrees ==
  inbox = <<>> =>
    /\ \A a \in AccessId : \A g \in access[a].grant :
         LET view == grantView[g.id] IN
         view.known /\ ~view.revoked /\ view.start = g.start
                                     /\ view.end = g.end
    /\ \A id \in Request :
         grantView[id].known /\ ~grantView[id].revoked
           /\ now < grantView[id].end => id \in KeptGrantIds

(* The process as the abstract lifecycle sees it. *)
Lifecycle == INSTANCE AccessRequestLifecycle WITH
  status <- [r \in Request |-> request[r].status]

ImplementsLifecycle == Lifecycle!Spec

----------------------------------------------------------------------------
(* Liveness. *)

(* A submission under check is always settled. *)
SubmissionSettles ==
  \A r \in Request :
    request[r].status = "SUBMISSION_STARTED"
      ~> request[r].status \in {"PENDING", "SUBMISSION_FAILED"}

(* A first-time request a manager approved is always approved in the end:  *)
(* its grant is created whatever happened since.                           *)
FirstTimeApprovalSettles ==
  \A r \in Request :
    request[r].status = "APPROVAL_STARTED" /\ request[r].snapshot.kind = "new"
      ~> request[r].status = "APPROVED"

----------------------------------------------------------------------------
(* What the documents say and the code does not keep. *)

(* "When the grant to extend gives no access, the approval fails", and once*)
(* it is extended, the request is approved: an approval under way ends.    *)
ApprovalSettles ==
  \A r \in Request :
    request[r].status = "APPROVAL_STARTED"
      ~> request[r].status \in {"APPROVED", "APPROVAL_FAILED"}

Nonterminal(r) ==
  request[r].status \in {"SUBMISSION_STARTED", "PENDING", "APPROVAL_STARTED"}

(* "No other nonterminal request by the same requester for the same        *)
(* resource has any overlapping requested interval", for scheduled         *)
(* requests, whose interval is explicit.                                   *)
NoOverlappingRequests ==
  \A r, other \in Request :
    LET mine == request[r].snapshot
        theirs == request[other].snapshot
    IN
    /\ r # other /\ Nonterminal(r) /\ Nonterminal(other)
    /\ mine.kind = "new" /\ theirs.kind = "new"
    /\ AccessOf(mine) = AccessOf(theirs)
    /\ mine.period.kind = "scheduled" /\ theirs.period.kind = "scheduled"
    => ~Overlaps(mine.period, theirs.period)

(* The projection "retains the revoked grant identifier so a late-arriving *)
(* extension submission cannot recreate its task".                         *)
RevokedGrantHasNoTask ==
  inbox = <<>> =>
    \A p \in Person : \A t \in task[p] :
      t.snapshot.kind = "extension" => ~grantView[t.snapshot.grant].revoked

(* "Each approved extension request moves a grant's end to the end it      *)
(* proposed": right after it does, the grant is kept with that end.        *)
ExtensionKeepsGrant ==
  [][\A r \in applied' \ applied :
       ExtensionOf(request[r].snapshot, request[r].snapshot.grant) =>
         \E g \in access'[AccessOf(request[r].snapshot)].grant :
           /\ g.id = request[r].snapshot.grant
           /\ g.end = request[r].snapshot.proposedEnd]_vars
=============================================================================
