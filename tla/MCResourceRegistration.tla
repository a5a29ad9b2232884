----------------------- MODULE MCResourceRegistration -----------------------
(***************************************************************************)
(* Instances of ResourceRegistration small enough for TLC.                 *)
(***************************************************************************)
EXTENDS ResourceRegistration

CONSTANTS ann, bob, ledger, report

(* "Reports" and "reports" denote the same name. *)
Names == {"Payroll", "Reports", "reports"}

MCNormalized ==
  [n \in Names |-> IF n = "Reports" THEN "reports" ELSE n]

Register(r, name) ==
  [type |-> "RegisterResource", resource |-> r, name |-> name, by |-> ann]

Open(r) == [type |-> "OpenResourceForRequests", resource |-> r, by |-> bob]

Close(r) == [type |-> "CloseResourceForRequests", resource |-> r, by |-> ann]

(* Two resources that want the same name, policy changes that may come     *)
(* while a registration is still under way, and a member.                  *)
ConflictCommands ==
  {Register(ledger, "Reports"), Register(report, "reports"),
   Open(report), Close(report),
   [type |-> "CreateOrganization", by |-> ann],
   [type |-> "AddOrganizationMember", person |-> bob, by |-> ann]}

(* Two registrations under one identifier, and one of another resource. *)
ReusedCommands ==
  {Register(ledger, "Reports"), Register(ledger, "Payroll"),
   Register(report, "reports")}
=============================================================================
