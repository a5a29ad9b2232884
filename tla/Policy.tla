------------------------------- MODULE Policy -------------------------------
(***************************************************************************)
(* What a signed-in person may read and watch through the gateway          *)
(* (gateway/policy.ts), and what such a read may return.                   *)
(*                                                                         *)
(* A query names a read model and a criterion.  The application server     *)
(* returns every record of the tenant that the criterion holds for; the    *)
(* gateway sees the criterion only.  It must refuse every criterion that a *)
(* record of somebody else could satisfy.  A value is a person, a resource *)
(* or an organization: one of another kind does not unpack as the expected.*)
(***************************************************************************)
EXTENDS Sequences, Naturals

CONSTANTS
  Person, Resource, Organization,
  ManagerOf,        \* the managers of each resource, as the catalog shows them
  MemberOf,         \* the people each OrganizationView lists
  AdministratorOf,  \* those of them who administer
  Record            \* the records of the read models

NoOrganization == "no organization"
NoValue == "no value"

Value == Person \cup Resource \cup Organization

(* The read models Resources keeps for each organization; the memberships  *)
(* are Identity's and kept for all organizations together.                 *)
OfOrganization ==
  {"OrganizationView", "ResourceCatalogItem", "AccessRequestView",
   "AccessGrantView", "AccessDecisionAssignment", "AuditEntry"}
ReadModel == OfOrganization \cup {"MembershipView"}

Column == {"requester", "grantee", "resource", "organization"}

ASSUME PolicyConstants ==
  /\ ManagerOf \in [Resource -> SUBSET Person]
  /\ MemberOf \in [Organization -> SUBSET Person]
  /\ AdministratorOf \in [Organization -> SUBSET Person]
  /\ NoOrganization \notin Organization /\ NoValue \notin Value
  /\ Record \subseteq
       [type : ReadModel, tenant : Organization \cup {NoOrganization},
        id : Value, column : [Column -> Value \cup {NoValue}]]

(* A condition compares one column, or a path into one, with a value.      *)
Condition ==
  [path : Seq(STRING), operator : {"EQUAL", "OTHER"},
   value : Value \cup {NoValue}]

(* Conditions that must hold all or need hold one, perhaps with others     *)
(* nested among them.                                                      *)
Composite ==
  [operator : {"ALL", "EITHER"}, filter : Seq(Condition), nested : BOOLEAN]

Target ==
  [type : ReadModel, criterion : {"includeAll", "filters"},
   id : Seq(Value), filter : Seq(Composite)]

(* Who asks: a person in the organization of the session.                  *)
Asking == [person : Person, organization : Organization]

Administers(asking) == asking.person \in AdministratorOf[asking.organization]
Manages(asking, resource) == asking.person \in ManagerOf[resource]

(* A variant for mutation runs: other conditions may follow the first.     *)
AnyNumberOfConditions(target) ==
  IF /\ target.criterion = "filters"
     /\ target.id = <<>>
     /\ Len(target.filter) = 1
     /\ ~target.filter[1].nested
     /\ Len(target.filter[1].filter) > 0
  THEN {c \in {target.filter[1].filter[1]} :
          c.operator = "EQUAL" /\ Len(c.path) = 1 /\ c.value # NoValue}
  ELSE {}

(* The filter of a query that has exactly one, of the form column = value: *)
(* none or one.                                                            *)
OnlyCondition(target) ==
  IF /\ target.criterion = "filters"
     /\ target.id = <<>>
     /\ Len(target.filter) = 1
     /\ ~target.filter[1].nested
     /\ Len(target.filter[1].filter) = 1
  THEN {c \in {target.filter[1].filter[1]} :
          c.operator = "EQUAL" /\ Len(c.path) = 1 /\ c.value # NoValue}
  ELSE {}

(* A variant for mutation runs: one may ask for anybody's records.         *)
AsksForAnyones(target, column, person) ==
  \E c \in OnlyCondition(target) : c.path[1] = column /\ c.value \in Person

(* Whether a query is filtered to the records of one person, such as the   *)
(* requests they made.                                                     *)
AsksForOwn(target, column, person) ==
  \E c \in OnlyCondition(target) : c.path[1] = column /\ c.value = person

AsksForManaged(target, asking) ==
  \E c \in OnlyCondition(target) :
     /\ c.path[1] = "resource"
     /\ c.value \in Resource
     /\ Manages(asking, c.value)

AsksForOwnById(target, person) ==
  /\ target.criterion = "filters"
  /\ target.filter = <<>>
  /\ target.id = <<person>>

(* What a member may read and watch. *)
MayRead(target, asking) ==
  \/ target.type \in {"OrganizationView", "ResourceCatalogItem"}
  \/ /\ target.type = "AccessRequestView"
     /\ \/ AsksForOwn(target, "requester", asking.person)
        \/ AsksForManaged(target, asking)
  \/ /\ target.type = "AccessGrantView"
     /\ \/ AsksForOwn(target, "grantee", asking.person)
        \/ AsksForManaged(target, asking)
  \/ /\ target.type = "AccessDecisionAssignment"
     /\ AsksForOwnById(target, asking.person)
  \/ /\ target.type = "AuditEntry"
     /\ Administers(asking) \/ AsksForManaged(target, asking)

AsksForMembershipsOf(target, organization) ==
  /\ target.type = "MembershipView"
  /\ AsksForOwn(target, "organization", organization)

(* What a member may read once: an administrator also the memberships.     *)
MayQuery(target, asking) ==
  \/ MayRead(target, asking)
  \/ Administers(asking) /\ AsksForMembershipsOf(target, asking.organization)

(* The organization a query is sent to, none for one for Identity.         *)
ConcernsNoOrganization(target) == target.type = "MembershipView"

TenantOf(target, asking) ==
  IF ConcernsNoOrganization(target) THEN NoOrganization
  ELSE asking.organization

-----------------------------------------------------------------------------
(* What the application server may return.  Any operator but equality, a   *)
(* path into a column and a nested composite may hold for every record.    *)
ConditionHolds(c, rec) ==
  (c.operator = "EQUAL" /\ Len(c.path) = 1 /\ c.path[1] \in Column)
    => rec.column[c.path[1]] = c.value

CompositeHolds(f, rec) ==
  \/ f.nested
  \/ IF f.operator = "ALL"
     THEN \A i \in DOMAIN f.filter : ConditionHolds(f.filter[i], rec)
     ELSE \E i \in DOMAIN f.filter : ConditionHolds(f.filter[i], rec)

Returned(target, tenant, rec) ==
  /\ rec.type = target.type
  /\ rec.tenant = tenant
  /\ target.criterion = "filters" =>
       /\ target.id # <<>> => \E i \in DOMAIN target.id : rec.id = target.id[i]
       /\ \A i \in DOMAIN target.filter : CompositeHolds(target.filter[i], rec)

(* The records that concern a person: those of the organization they work  *)
(* in, and of the requests, grants, decisions and audit trail only their   *)
(* own and those for a resource they manage.  An administrator is also     *)
(* concerned by the whole trail and by the memberships.                    *)
Concerns(rec, asking) ==
  LET managed == rec.column["resource"] \in Resource
                   /\ Manages(asking, rec.column["resource"])
  IN  /\ rec.type # "MembershipView" => rec.tenant = asking.organization
      /\ rec.type = "AccessRequestView" =>
           rec.column["requester"] = asking.person \/ managed
      /\ rec.type = "AccessGrantView" =>
           rec.column["grantee"] = asking.person \/ managed
      /\ rec.type = "AccessDecisionAssignment" => rec.id = asking.person
      /\ rec.type = "AuditEntry" => Administers(asking) \/ managed
      /\ rec.type = "MembershipView" =>
           /\ Administers(asking)
           /\ rec.column["organization"] = asking.organization

(* Whether everything a read returns concerns the reader.                  *)
OnlyConcerning(target, tenant, asking) ==
  \A rec \in Record : Returned(target, tenant, rec) => Concerns(rec, asking)
=============================================================================
