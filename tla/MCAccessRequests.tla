-------------------------- MODULE MCAccessRequests --------------------------
(***************************************************************************)
(* Instances of AccessRequests small enough for TLC.  "ann" asks for access*)
(* to one resource, which "max" manages.                                   *)
(***************************************************************************)
EXTENDS AccessRequests

CONSTANTS ann, max, printer, r1, r2, r3

MCPolicyManager == [r \in Resource |-> {max}]
MCOfferedLevel == [r \in Resource |-> {1, 2}]
MCMaximumDuration == [r \in Resource |-> 3]

Immediately(duration) == [kind |-> "immediate", duration |-> duration]
Scheduled(start, end) == [kind |-> "scheduled", start |-> start, end |-> end]

Submit(r, level, period) ==
  [type |-> "SubmitAccessRequest", request |-> r, requester |-> ann,
   resource |-> printer, level |-> level, period |-> period]

SubmitExtension(r, grant, duration) ==
  [type |-> "SubmitAccessExtensionRequest", request |-> r, requester |-> ann,
   resource |-> printer, grant |-> grant, duration |-> duration]

Decide(type, r, person) ==
  [type |-> type, request |-> r, person |-> person]

Approve(r) == Decide("ApproveAccessRequest", r, max)
Deny(r) == Decide("DenyAccessRequest", r, max)
Cancel(r) == Decide("CancelAccessRequest", r, NoPerson)

Revoke(grant) ==
  [type |-> "RevokeAccessGrant",
   id |-> [grantee |-> ann, resource |-> printer],
   grant |-> grant, person |-> max]

(* Two requests for new access, of either kind, one of them for a level    *)
(* the resource does not offer, and two extensions, which race each other; *)
(* every decision about them, one by someone who manages nothing.          *)
AccessCommands ==
  {Submit(r1, 1, Immediately(1)), Submit(r1, 3, Immediately(1)),
   Submit(r2, 2, Scheduled(1, 3)), Submit(r2, 1, Immediately(4)),
   Submit(r2, 1, Scheduled(3, 3)),
   SubmitExtension(r2, r1, 1), SubmitExtension(r3, r1, 2),
   Approve(r1), Approve(r2), Approve(r3), Deny(r1), Cancel(r2), Cancel(r3),
   Revoke(r1), Decide("ApproveAccessRequest", r1, ann)}

(* Two grants of one person, one of which is revoked. *)
RevocationCommands ==
  {Submit(r1, 1, Immediately(3)), Submit(r2, 2, Immediately(3)),
   Approve(r1), Approve(r2), Revoke(r2)}

(* Two requests for the same hour and the next. *)
OverlappingCommands ==
  {Submit(r1, 1, Scheduled(0, 2)), Submit(r2, 2, Scheduled(1, 3)),
   Approve(r1), Approve(r2)}

(* One grant and one extension of it, which may come at its last moment. *)
LateExtensionCommands ==
  {Submit(r1, 1, Immediately(1)), SubmitExtension(r2, r1, 1),
   Approve(r1), Approve(r2)}

(* One grant, which is revoked while an extension of it is submitted. *)
RevokedExtensionCommands ==
  {Submit(r1, 1, Immediately(1)), SubmitExtension(r2, r1, 1),
   Approve(r1), Revoke(r1)}

(* One grant, scheduled and so perhaps approved too late, and an extension *)
(* of it, which may find it revoked or ended.                              *)
SettlingCommands ==
  {Submit(r1, 1, Scheduled(1, 2)), SubmitExtension(r2, r1, 1),
   Approve(r1), Approve(r2), Deny(r1), Cancel(r2), Revoke(r1)}

(* One grant and two extensions of it, one longer than the other. *)
TwoExtensionsCommands ==
  {Submit(r1, 1, Immediately(1)),
   SubmitExtension(r2, r1, 1), SubmitExtension(r3, r1, 2),
   Approve(r1), Approve(r2), Approve(r3)}
=============================================================================
