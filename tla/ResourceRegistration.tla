------------------------ MODULE ResourceRegistration ------------------------
(***************************************************************************)
(* The registration of resources in one organization:                      *)
(*                                                                         *)
(*   organization      OrganizationAggregate, which reserves the names     *)
(*   organizationView  OrganizationViewProjection                          *)
(*   registration      ResourceRegistrationProcessManager, one per resource*)
(*   resource          ResourceAggregate                                   *)
(*   catalog           ResourceCatalogProjection                           *)
(*   trail             AuditEntryProjection, the entries there are           *)
(*                                                                         *)
(* They take their messages from the shard of the Resources context        *)
(* (ShardInbox).  What describes a resource is its name here: description, *)
(* category, managers, levels and durations travel with it unchanged.      *)
(*                                                                         *)
(* An entity marked as deleted keeps its state and goes on taking messages,*)
(* as the isDeleted guards of the handlers expect.                         *)
(*                                                                         *)
(* Every message names the person who gave the first command of the chain  *)
(* it belongs to (by); an event for the audit trail also names the entity  *)
(* that gave it and how often that entity had changed before.              *)
(***************************************************************************)
EXTENDS Functions, FiniteSets, ShardInbox

CONSTANTS
  Resource, Person, Name,
  Normalized,     \* each name trimmed and in lower case
  ClientCommand,  \* the commands clients and the Identity context may give
  MaxInbox,       \* bound: no command is given to a longer inbox
  MaxChanges      \* bound: none for an entity that changed more often

NoName == "no name"

NameOrNone == Name \cup {NoName}

Recorded == [id : Resource, name : Name]

Organization ==
  [created : BOOLEAN, member : Seq(Person), resource : Seq(Recorded)]

Described == [name : NameOrNone, deleted : BOOLEAN]

Offered == [name : NameOrNone, open : BOOLEAN, deleted : BOOLEAN]

OrganizationCommand ==
  [type : {"CreateOrganization"}, by : Person] \cup
  [type : {"AddOrganizationMember"}, person : Person, by : Person]

RegisterCommand ==
  [type : {"RegisterResource"}, resource : Resource, name : Name,
   by : Person]

PolicyCommand ==
  [type : {"OpenResourceForRequests", "CloseResourceForRequests"},
   resource : Resource, by : Person]

TheOrganization == "the organization"

AuditedType ==
  {"OrganizationMemberAdded", "ResourceRegistered",
   "ResourceRegistrationFailed", "ResourceOpenedForRequests",
   "ResourceClosedForRequests"}

(* An entry is found by what changed, its version and the type of event.   *)
EntryId ==
  [producer : {"Organization", "Registration", "Resource"},
   of : Resource \cup {TheOrganization},
   version : Nat, type : AuditedType]

Entry ==
  [id : EntryId, about : Resource \cup Person, actor : Person]

ASSUME RegistrationConstants ==
  /\ NoName \notin Name
  /\ Normalized \in [Name -> Name]
  /\ \A n \in Name : Normalized[Normalized[n]] = Normalized[n]
  /\ ClientCommand \subseteq
       OrganizationCommand \cup RegisterCommand \cup PolicyCommand
  /\ MaxInbox \in Nat /\ MaxChanges \in Nat /\ MaxCrashes \in Nat

VARIABLES
  organization, organizationView, registration, resource, catalog,
  version,  \* how often each registration and each resource has changed
  trail

audited == <<version, trail>>

entities ==
  <<organization, organizationView, registration, resource, catalog, audited>>

vars == <<entities, inbox, crashes>>

NewOrganization == [created |-> FALSE, member |-> <<>>, resource |-> <<>>]

NotOffered == [name |-> NoName, open |-> FALSE, deleted |-> FALSE]

Init ==
  /\ organization = NewOrganization
  /\ organizationView = NewOrganization
  /\ registration = [r \in Resource |-> [name |-> NoName, deleted |-> FALSE]]
  /\ resource = [r \in Resource |-> NotOffered]
  /\ catalog = [r \in Resource |-> NotOffered]
  /\ version = [kind \in {"Registration", "Resource"} |->
                  [r \in Resource |-> 0]]
  /\ trail = {}
  /\ inbox = <<>>
  /\ crashes = 0

Drop == Give(<<>>) /\ UNCHANGED entities

(* What a handler gives goes on in the name of who asked first. *)
About(type, r) == [type |-> type, resource |-> r, by |-> received.by]

Naming(type, r, name) ==
  [type |-> type, resource |-> r, name |-> name, by |-> received.by]

Changed(kind, r) == version' = [version EXCEPT ![kind][r] = @ + 1]

(* The organization changes once with each thing it takes. *)
OrganizationVersion ==
  (IF organization.created THEN 1 ELSE 0)
    + Len(organization.member) + Len(organization.resource)

(* A variant for mutation runs: an entry is not found by the version. *)
ToAuditUnversioned(producer, of, changes, type, about) ==
  To("AuditEntry",
    [type |-> type, about |-> about, by |-> received.by,
     id |-> [producer |-> producer, of |-> of, version |-> 0,
             type |-> type]])

(* An event as the audit trail takes it, with what its entry is found by. *)
ToAudit(producer, of, changes, type, about) ==
  To("AuditEntry",
    [type |-> type, about |-> about, by |-> received.by,
     id |-> [producer |-> producer, of |-> of, version |-> changes,
             type |-> type]])

----------------------------------------------------------------------------
(* A command of a client, or of Identity, which adds members.  A resource  *)
(* is only opened or closed once the catalog has shown it.                 *)
Post(command) ==
  /\ Len(inbox) < MaxInbox
  /\ command \in RegisterCommand =>
       version["Registration"][command.resource] < MaxChanges
  /\ command \in PolicyCommand =>
       /\ catalog[command.resource].name # NoName
       /\ version["Resource"][command.resource] < MaxChanges
  /\ inbox' = Append(inbox,
       To(CASE command \in OrganizationCommand -> "Organization"
            [] command \in RegisterCommand     -> "Registration"
            [] command \in PolicyCommand       -> "Resource",
          command))
  /\ UNCHANGED <<entities, crashes>>

----------------------------------------------------------------------------
(* OrganizationAggregate. *)

CreateOrganization ==
  /\ Receives("Organization", {"CreateOrganization"})
  /\ \/ /\ ~organization.created
        /\ organization' = [organization EXCEPT !.created = TRUE]
        /\ Give(<<To("OrganizationView",
                     [type |-> "OrganizationCreated", by |-> received.by])>>)
        /\ UNCHANGED <<organizationView, registration, resource, catalog,
                       audited>>
     \/ organization.created /\ Drop

AddOrganizationMember ==
  /\ Receives("Organization", {"AddOrganizationMember"})
  /\ LET person == received.person
         belongs == person \in Range(organization.member)
     IN
     \/ /\ ~belongs
        /\ organization' = [organization EXCEPT !.member = Append(@, person)]
        /\ Give(<<To("OrganizationView",
             [type |-> "OrganizationMemberAdded", person |-> person,
              by |-> received.by]),
                  ToAudit("Organization", TheOrganization,
                    OrganizationVersion, "OrganizationMemberAdded", person)>>)
        /\ UNCHANGED <<organizationView, registration, resource, catalog,
                       audited>>
     \/ belongs /\ Drop

RecordedIds == {kept.id : kept \in Range(organization.resource)}

(* A variant for mutation runs: no resource is ever found. *)
NeverRecorded(r) == FALSE

AlreadyRecorded(r) == r \in RecordedIds

(* A variant for mutation runs: names are compared as they are written. *)
TakenAsWritten(name) ==
  \E kept \in Range(organization.resource) : kept.name = name

NameTaken(name) ==
  \E kept \in Range(organization.resource) :
    Normalized[kept.name] = Normalized[name]

ResourceAdded(r, name) ==
  LET event == Naming("ResourceAdded", r, name) IN
  <<To("OrganizationView", event), To("Registration", event)>>

(* A resource that is recorded already is announced once more. *)
AddResource ==
  /\ Receives("Organization", {"AddResource"})
  /\ LET r == received.resource
         name == received.name
     IN
     \/ /\ AlreadyRecorded(r)
        /\ Give(ResourceAdded(r, name))
        /\ UNCHANGED entities
     \/ /\ ~AlreadyRecorded(r) /\ NameTaken(name)
        /\ Give(<<To("Registration",
                     About("OrganizationResourceNameAlreadyUsed", r))>>)
        /\ UNCHANGED entities
     \/ /\ ~AlreadyRecorded(r) /\ ~NameTaken(name)
        /\ organization' = [organization EXCEPT
             !.resource = Append(@, [id |-> r, name |-> name])]
        /\ Give(ResourceAdded(r, name))
        /\ UNCHANGED <<organizationView, registration, resource, catalog,
                       audited>>

----------------------------------------------------------------------------
(* OrganizationViewProjection. *)

ShowOrganization ==
  /\ Receives("OrganizationView", {"OrganizationCreated"})
  /\ organizationView' = [organizationView EXCEPT !.created = TRUE]
  /\ Give(<<>>)
  /\ UNCHANGED <<organization, registration, resource, catalog, audited>>

ShowMember ==
  /\ Receives("OrganizationView", {"OrganizationMemberAdded"})
  /\ organizationView' = [organizationView EXCEPT !.member =
       IF received.person \in Range(@) THEN @ ELSE Append(@, received.person)]
  /\ Give(<<>>)
  /\ UNCHANGED <<organization, registration, resource, catalog, audited>>

(* A variant for mutation runs: every announcement is shown. *)
ShowResourceAgain ==
  /\ Receives("OrganizationView", {"ResourceAdded"})
  /\ organizationView' = [organizationView EXCEPT !.resource =
       Append(@, [id |-> received.resource, name |-> received.name])]
  /\ Give(<<>>)
  /\ UNCHANGED <<organization, registration, resource, catalog, audited>>

ShowResource ==
  /\ Receives("OrganizationView", {"ResourceAdded"})
  /\ organizationView' = [organizationView EXCEPT !.resource =
       IF \E shown \in Range(@) : shown.id = received.resource THEN @
       ELSE Append(@, [id |-> received.resource, name |-> received.name])]
  /\ Give(<<>>)
  /\ UNCHANGED <<organization, registration, resource, catalog, audited>>

----------------------------------------------------------------------------
(* ResourceRegistrationProcessManager. *)

(* A variant for mutation runs: the registration is not remembered. *)
RegisterUnremembered ==
  /\ Receives("Registration", {"RegisterResource"})
  /\ Give(<<To("Registration",
       About("ResourceRegistrationRequested", received.resource))>>)
  /\ UNCHANGED entities

(* A further registration under the same identifier overwrites this one. *)
RegisterResource ==
  /\ Receives("Registration", {"RegisterResource"})
  /\ registration' = [registration EXCEPT
       ![received.resource].name = received.name]
  /\ Changed("Registration", received.resource)
  /\ Give(<<To("Registration",
       About("ResourceRegistrationRequested", received.resource))>>)
  /\ UNCHANGED <<organization, organizationView, resource, catalog, trail>>

OnResourceRegistrationRequested ==
  /\ Receives("Registration", {"ResourceRegistrationRequested"})
  /\ LET r == received.resource IN
     Give(<<To("Resource",
               Naming("CreateResource", r, registration[r].name))>>)
  /\ UNCHANGED entities

OnResourceCreated ==
  /\ Receives("Registration", {"ResourceCreated"})
  /\ LET r == received.resource IN
     Give(<<To("Organization",
               Naming("AddResource", r, registration[r].name))>>)
  /\ UNCHANGED entities

(* A variant for mutation runs: a name conflict fails at once. *)
FailUncompensated ==
  /\ Receives("Registration", {"OrganizationResourceNameAlreadyUsed"})
  /\ Give(<<To("Registration",
                 About("ResourceDeleted", received.resource))>>)
  /\ UNCHANGED entities

(* A variant for mutation runs: a name conflict goes unnoticed. *)
IgnoreConflict ==
  /\ Receives("Registration", {"OrganizationResourceNameAlreadyUsed"})
  /\ Drop

OnOrganizationResourceNameAlreadyUsed ==
  /\ Receives("Registration", {"OrganizationResourceNameAlreadyUsed"})
  /\ Give(<<To("Resource", About("DeleteResource", received.resource))>>)
  /\ UNCHANGED entities

(* The outcome is announced and the process deletes itself. *)
Finish(r, outcome) ==
  /\ Give(<<ToAudit("Registration", r, version["Registration"][r],
                    outcome, r)>>)
  /\ \/ /\ ~registration[r].deleted
        /\ registration' = [registration EXCEPT ![r].deleted = TRUE]
        /\ Changed("Registration", r)
     \/ registration[r].deleted /\ UNCHANGED <<registration, version>>
  /\ UNCHANGED <<organization, organizationView, resource, catalog, trail>>

(* A variant for mutation runs: an existing resource is compensated too. *)
CompensateExisting ==
  /\ Receives("Registration", {"ResourceAlreadyExists"})
  /\ Give(<<To("Resource", About("DeleteResource", received.resource))>>)
  /\ UNCHANGED entities

OnResourceAlreadyExists ==
  /\ Receives("Registration", {"ResourceAlreadyExists"})
  /\ Finish(received.resource, "ResourceRegistrationFailed")

OnResourceAdded ==
  /\ Receives("Registration", {"ResourceAdded"})
  /\ Finish(received.resource, "ResourceRegistered")

OnResourceDeleted ==
  /\ Receives("Registration", {"ResourceDeleted"})
  /\ Finish(received.resource, "ResourceRegistrationFailed")

----------------------------------------------------------------------------
(* ResourceAggregate. *)

CreateResource ==
  /\ Receives("Resource", {"CreateResource"})
  /\ LET r == received.resource
         event == Naming("ResourceCreated", r, received.name)
     IN
     \/ /\ resource[r].name = NoName
        /\ resource' = [resource EXCEPT ![r].name = received.name,
                                        ![r].open = FALSE]
        /\ Changed("Resource", r)
        /\ Give(<<To("Registration", event), To("Catalog", event)>>)
        /\ UNCHANGED <<organization, organizationView, registration, catalog,
                       trail>>
     \/ /\ resource[r].name # NoName
        /\ Give(<<To("Registration", About("ResourceAlreadyExists", r))>>)
        /\ UNCHANGED entities

DeleteResource ==
  /\ Receives("Resource", {"DeleteResource"})
  /\ LET r == received.resource
         event == About("ResourceDeleted", r)
     IN
     /\ resource' = [resource EXCEPT ![r].deleted = TRUE]
     /\ Changed("Resource", r)
     /\ Give(<<To("Registration", event), To("Catalog", event)>>)
  /\ UNCHANGED <<organization, organizationView, registration, catalog, trail>>

OpensBy(type) == type = "OpenResourceForRequests"

(* Each change publishes the whole policy in force. *)
SetOpen ==
  /\ Receives("Resource",
       {"OpenResourceForRequests", "CloseResourceForRequests"})
  /\ LET r == received.resource
         open == OpensBy(received.type)
         type == IF open THEN "ResourceOpenedForRequests"
                         ELSE "ResourceClosedForRequests"
     IN
     \/ /\ resource[r].open # open
        /\ resource' = [resource EXCEPT ![r].open = open]
        /\ Changed("Resource", r)
        /\ Give(<<To("Catalog",
                       [type |-> type, resource |-> r, open |-> open,
                        by |-> received.by]),
                  ToAudit("Resource", r, version["Resource"][r], type, r)>>)
        /\ UNCHANGED <<organization, organizationView, registration, catalog,
                       trail>>
     \/ resource[r].open = open /\ Drop

----------------------------------------------------------------------------
(* ResourceCatalogProjection. *)

ListResource ==
  /\ Receives("Catalog", {"ResourceCreated"})
  /\ LET r == received.resource IN
     catalog' = [catalog EXCEPT ![r] =
       IF @.deleted THEN @
       ELSE [@ EXCEPT !.name = received.name, !.open = FALSE]]
  /\ Give(<<>>)
  /\ UNCHANGED <<organization, organizationView, registration, resource,
                 audited>>

(* A variant for mutation runs: the guard is inverted. *)
DelistOnlyDeleted ==
  /\ Receives("Catalog", {"ResourceDeleted"})
  /\ Drop

DelistResource ==
  /\ Receives("Catalog", {"ResourceDeleted"})
  /\ catalog' = [catalog EXCEPT ![received.resource].deleted = TRUE]
  /\ Give(<<>>)
  /\ UNCHANGED <<organization, organizationView, registration, resource,
                 audited>>

ShowPolicy ==
  /\ Receives("Catalog",
       {"ResourceOpenedForRequests", "ResourceClosedForRequests"})
  /\ LET r == received.resource IN
     catalog' = [catalog EXCEPT ![r] =
       IF @.deleted THEN @ ELSE [@ EXCEPT !.open = received.open]]
  /\ Give(<<>>)
  /\ UNCHANGED <<organization, organizationView, registration, resource,
                 audited>>

----------------------------------------------------------------------------
(* AuditEntryProjection. *)

(* The entry of an action is made once, and what it holds never changes: a *)
(* further event finds the entry, and is ignored when it is the same one   *)
(* and fails otherwise.                                                    *)
EntryMade(entry) ==
  trail' = IF \E kept \in trail : kept.id = entry.id THEN trail
           ELSE trail \cup {entry}

RecordAction ==
  /\ Receives("AuditEntry", AuditedType)
  /\ EntryMade([id |-> received.id, about |-> received.about,
                actor |-> received.by])
  /\ Give(<<>>)
  /\ UNCHANGED <<organization, organizationView, registration, resource,
                 catalog, version>>

----------------------------------------------------------------------------
Deliver ==
  \/ CreateOrganization \/ AddOrganizationMember \/ AddResource
  \/ ShowOrganization \/ ShowMember \/ ShowResource
  \/ RegisterResource \/ OnResourceRegistrationRequested \/ OnResourceCreated
  \/ OnOrganizationResourceNameAlreadyUsed \/ OnResourceAlreadyExists
  \/ OnResourceAdded \/ OnResourceDeleted
  \/ CreateResource \/ DeleteResource \/ SetOpen
  \/ ListResource \/ DelistResource \/ ShowPolicy
  \/ RecordAction

Next == Deliver \/ \E command \in ClientCommand : Post(command)

Spec == Init /\ [][Next]_vars

(* The shard keeps delivering while it holds messages. *)
FairSpec == Spec /\ WF_vars(Deliver)

----------------------------------------------------------------------------
(* The state and the messages have their types.                            *)
TypeOK ==
  /\ organization \in Organization /\ organizationView \in Organization
  /\ registration \in [Resource -> Described]
  /\ resource \in [Resource -> Offered] /\ catalog \in [Resource -> Offered]
  /\ version \in [{"Registration", "Resource"} -> [Resource -> Nat]]
  /\ \A entry \in trail : entry \in Entry

Exists(r) == resource[r].name # NoName /\ ~resource[r].deleted

Listed(r) == catalog[r].name # NoName /\ ~catalog[r].deleted

(* Once all messages are delivered, the resources that exist are the ones  *)
(* the organization records: a registration that lost its name to another  *)
(* leaves nothing behind, and one that won is whole.                       *)
RegistrationIsWhole ==
  inbox = <<>> => {r \in Resource : Exists(r)} = RecordedIds

(* Once all messages are delivered, the catalog lists the resources that   *)
(* exist, each with the policy in force, whatever policy changes raced     *)
(* with the registration.                                                  *)
CatalogAgrees ==
  inbox = <<>> => \A r \in Resource :
    /\ Listed(r) <=> Exists(r)
    /\ Listed(r) => catalog[r].name = resource[r].name
                    /\ catalog[r].open = resource[r].open

(* Once all messages are delivered, members see the organization as it is, *)
(* each member and each resource once.                                     *)
OrganizationViewAgrees ==
  inbox = <<>> => organizationView = organization

(* No two resources of the organization have the same name, upper and lower*)
(* case alike, by the names they are listed with once their registration   *)
(* is through.                                                             *)
NamesAreUnique ==
  inbox = <<>> => \A r, other \in Resource :
    Listed(r) /\ Listed(other) /\ r # other =>
      Normalized[catalog[r].name] # Normalized[catalog[other].name]

EntriesOf(thing, types) ==
  {entry \in trail : entry.about = thing /\ entry.id.type \in types}

PolicyEntries(r) ==
  EntriesOf(r, {"ResourceOpenedForRequests", "ResourceClosedForRequests"})

Latest(entries) ==
  CHOOSE entry \in entries :
    \A other \in entries : other.id.version <= entry.id.version

(* Once all messages are delivered, the audit trail tells what happened.   *)
(* Each member was added once, each recorded resource was registered, and  *)
(* the openings and closings of a resource, however often its policy       *)
(* changed, take turns and end with the policy in force: no two of them    *)
(* share an entry, and none is missing.                                    *)
TrailTellsWhatHappened ==
  inbox = <<>> =>
    /\ \A p \in Person :
         Cardinality(EntriesOf(p, {"OrganizationMemberAdded"})) =
           (IF p \in Range(organization.member) THEN 1 ELSE 0)
    /\ \A r \in Resource :
         /\ r \in RecordedIds <=> EntriesOf(r, {"ResourceRegistered"}) # {}
         /\ LET opened == EntriesOf(r, {"ResourceOpenedForRequests"})
                closed == EntriesOf(r, {"ResourceClosedForRequests"})
            IN  Cardinality(opened) =
                  Cardinality(closed) + (IF resource[r].open THEN 1 ELSE 0)
         /\ PolicyEntries(r) # {} =>
              (resource[r].open <=> Latest(PolicyEntries(r)).id.type
                                      = "ResourceOpenedForRequests")

(* A resource that the organization records is never deleted, and a deleted*)
(* one is never recorded: the compensation hits unrecorded resources only. *)
RecordedStays ==
  [][\A r \in RecordedIds : r \in RecordedIds' /\ ~resource'[r].deleted]_vars

(* A registration that is requested ends up in the audit trail, as         *)
(* registered or as failed.                                                *)
RegistrationSettles ==
  \A r \in Resource :
    registration[r].name # NoName ~>
      EntriesOf(r, {"ResourceRegistered", "ResourceRegistrationFailed"}) # {}
=============================================================================
