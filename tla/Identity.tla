------------------------------ MODULE Identity ------------------------------
(***************************************************************************)
(* People, the accounts they sign in with and the organizations they are   *)
(* added to:                                                               *)
(*                                                                         *)
(*   external, externalView      ExternalIdentityProcessManager, its view  *)
(*   owner                       PersonEmailAggregate, one per address     *)
(*   person, personView          PersonAggregate and its view              *)
(*   membership, membershipView  MembershipProcessManager and its view     *)
(*   member, memberView          the members OrganizationAggregate keeps,  *)
(*                               and OrganizationViewProjection shows      *)
(*   joining                     how far ReachedOrganizationMembers.add is *)
(*                                                                         *)
(* The first seven belong to Identity, the next two to Resources, and each *)
(* context is delivered from a shard of its own.  A membership waits inside*)
(* one of its handlers until the organization lists the person; the shard  *)
(* of Identity delivers nothing in the meantime.                           *)
(***************************************************************************)
EXTENDS FiniteSets, Functions, Sequences, Naturals

CONSTANTS
  Account, Email, Person, Organization, Role,
  Normalized,     \* each email address trimmed and in lower case
  ClientCommand,  \* the commands the gateway may give
  MaxInbox,       \* bound: no command is given to a longer inbox
  MaxFaults       \* bound: how often the server stops or a wait is given up

(* Addresses as Identity keeps them. *)
Address == Range(Normalized)

NoAddress == "no address"
NoPerson == "no person"
NoOrganization == "no organization"
NoAccount == "no account"
NoRole == "no role"

LinkCommand ==
  [type : {"LinkExternalIdentity"}, account : Account, email : Email]

AddCommand ==
  [type : {"AddMember"}, email : Email, organization : Organization,
   role : Role]

ASSUME IdentityConstants ==
  /\ Normalized \in [Email -> Email]
  /\ \A e \in Email : Normalized[Normalized[e]] = Normalized[e]
  /\ NoPerson \notin Person /\ NoOrganization \notin Organization
  /\ NoAddress \notin Email /\ NoAccount \notin Account
  /\ ClientCommand \subseteq LinkCommand \cup AddCommand
  /\ MaxInbox \in Nat /\ MaxFaults \in Nat

(* There is always an identifier for a person nobody is yet.               *)
ASSUME NewIdentifiers ==
  \A owned \in [Address -> Person \cup {NoPerson}] :
    (\E e \in Address : owned[e] = NoPerson)
      => \E p \in Person : p \notin Range(owned)

VARIABLES
  external, externalView, owner, person, personView,
  membership, membershipView, member, memberView, joining,
  inbox,    \* the messages of each shard, in the order of their delivery
  crashes,  \* how often the server has stopped
  failures  \* how often a confirmation was given up too early

accounts == <<external, externalView>>
people == <<owner, person, personView>>
memberships == <<membership, membershipView>>
organizations == <<member, memberView>>
entities == <<accounts, people, memberships, organizations>>
vars == <<entities, joining, inbox, crashes, failures>>

Shard == {0, 1}

(* The name of a person is the one the provider of an account gave. *)
PersonState ==
  [email : Address \cup {NoAddress}, account : Seq(Account),
   name : Account \cup {NoAccount},
   organization : Organization \cup {NoOrganization}]

Member == [person : Person, role : Role]

(* The state of each entity has its type; addresses are normalized.        *)
TypeOK ==
  /\ external \in [Account -> [email : Address \cup {NoAddress},
                               person : Person \cup {NoPerson}]]
  /\ externalView \in [Account -> Person \cup {NoPerson}]
  /\ owner \in [Address -> Person \cup {NoPerson}]
  /\ person \in [Person -> PersonState]
  /\ personView \in [Person -> PersonState]
  /\ membership \in [Address ->
       [organization : Organization \cup {NoOrganization},
        role : Role \cup {NoRole}]]
  /\ membershipView \in [Address ->
       [organization : Organization \cup {NoOrganization},
        role : Role \cup {NoRole}, person : Person \cup {NoPerson}]]
  /\ member \in [Organization -> SUBSET Member]
  /\ memberView \in [Organization -> SUBSET Member]
  /\ joining \in {"no", "asking", "waiting", "confirmed"}

NobodyYet ==
  [email |-> NoAddress, account |-> <<>>, name |-> NoAccount,
   organization |-> NoOrganization]

Init ==
  /\ external = [a \in Account |-> [email |-> NoAddress, person |-> NoPerson]]
  /\ externalView = [a \in Account |-> NoPerson]
  /\ owner = [e \in Address |-> NoPerson]
  /\ person = [p \in Person |-> NobodyYet]
  /\ personView = [p \in Person |-> NobodyYet]
  /\ membership =
       [e \in Address |-> [organization |-> NoOrganization, role |-> NoRole]]
  /\ membershipView =
       [e \in Address |-> [organization |-> NoOrganization, role |-> NoRole,
                           person |-> NoPerson]]
  /\ member = [o \in Organization |-> {}]
  /\ memberView = [o \in Organization |-> {}]
  /\ joining = "no"
  /\ inbox = [s \in Shard |-> <<>>]
  /\ crashes = 0
  /\ failures = 0

----------------------------------------------------------------------------
(* Delivery. *)

To(entity, signal) == [to |-> entity, signal |-> signal]

(* A variant for mutation runs: both contexts share a shard. *)
OneShard(entity) == 0

ShardFor(entity) ==
  IF entity \in {"Organization", "OrganizationView"} THEN 1 ELSE 0

Receives(entity, types) ==
  LET queue == inbox[ShardFor(entity)] IN
  /\ queue # <<>>
  /\ Head(queue).to = entity
  /\ Head(queue).signal.type \in types
  /\ ShardFor(entity) = ShardFor("Membership") => joining = "no"

Received(entity) == Head(inbox[ShardFor(entity)]).signal

(* Nobody waits any more for what the message brings about.                *)
Quiet(m) ==
  IF m.signal.type = "AddOrganizationMember"
  THEN [m EXCEPT !.signal.awaited = FALSE] ELSE m

Unawaited(queues) ==
  [s \in Shard |-> [i \in DOMAIN queues[s] |-> Quiet(queues[s][i])]]

Handled(entity) == [inbox EXCEPT ![ShardFor(entity)] = Tail(@)]

(* What an entity emits stays in its context. *)
Emitted(queues, entity, messages) ==
  [queues EXCEPT ![ShardFor(entity)] = @ \o messages]

(* A handler of the entity is done and emits the messages: its message is  *)
(* removed, or the server stops before that.  "then" is how far the joining*)
(* is, which does not survive a stop.                                      *)
GiveAnd(entity, messages, then) ==
  /\ \/ /\ inbox' = Emitted(Handled(entity), entity, messages)
        /\ joining' = then
        /\ UNCHANGED crashes
     \/ /\ crashes + failures < MaxFaults
        /\ crashes' = crashes + 1
        /\ inbox' = Unawaited(Emitted(inbox, entity, messages))
        /\ joining' = "no"
  /\ UNCHANGED failures

Give(entity, messages) == GiveAnd(entity, messages, joining)

(* The handler throws an Error, or rejects to nobody who listens. *)
Drop(entity) == Give(entity, <<>>) /\ UNCHANGED entities

(* The gateway gives a command. *)
Given(command) ==
  /\ inbox' = [inbox EXCEPT ![0] = Append(@,
       To(IF command.type = "AddMember" THEN "Membership"
                                        ELSE "ExternalIdentity", command))]
  /\ UNCHANGED <<entities, joining, crashes, failures>>

Post(command) == Len(inbox[0]) < MaxInbox /\ Given(command)

----------------------------------------------------------------------------
(* ExternalIdentityProcessManager and its view. *)

(* A variant for mutation runs: the address is kept as it is written. *)
AsWritten(email) == email

AddressOf(email) == Normalized[email]

LinkExternalIdentity ==
  /\ Receives("ExternalIdentity", {"LinkExternalIdentity"})
  /\ LET c == Received("ExternalIdentity")
         address == AddressOf(c.email)
         known == external[c.account].email # NoAddress
     IN
     \/ /\ ~known
        /\ external' = [external EXCEPT ![c.account].email = address]
        /\ Give("ExternalIdentity", <<To("ExternalIdentity",
             [type |-> "ExternalIdentityLinkingStarted",
              account |-> c.account, email |-> address])>>)
        /\ UNCHANGED <<externalView, people, memberships, organizations>>
     \/ known /\ Drop("ExternalIdentity")

OnExternalIdentityLinkingStarted ==
  /\ Receives("ExternalIdentity", {"ExternalIdentityLinkingStarted"})
  /\ LET e == Received("ExternalIdentity") IN
     Give("ExternalIdentity", <<To("PersonEmail",
       [type |-> "RegisterPersonEmail", email |-> e.email,
        invoker |-> [by |-> "ExternalIdentity", id |-> e.account]])>>)
  /\ UNCHANGED entities

(* A variant for mutation runs: nobody is found by the address. *)
AddAccountToNewPerson ==
  /\ Receives("ExternalIdentity",
              {"PersonRegistered", "PersonEmailAlreadyRegistered"})
  /\ LET e == Received("ExternalIdentity") IN
     Give("ExternalIdentity",
          IF e.type = "PersonRegistered"
          THEN <<To("Person", [type |-> "AddSignInAccount",
                               person |-> e.person,
                               account |-> e.invoker.id])>>
          ELSE <<>>)
  /\ UNCHANGED entities

(* The account is added to its person, new or found by the address. *)
AddAccountToPerson ==
  /\ Receives("ExternalIdentity",
              {"PersonRegistered", "PersonEmailAlreadyRegistered"})
  /\ LET e == Received("ExternalIdentity") IN
     Give("ExternalIdentity", <<To("Person",
       [type |-> "AddSignInAccount", person |-> e.person,
        account |-> e.invoker.id])>>)
  /\ UNCHANGED entities

OnSignInAccountAdded ==
  /\ Receives("ExternalIdentity", {"SignInAccountAdded"})
  /\ LET e == Received("ExternalIdentity") IN
     /\ external' = [external EXCEPT ![e.account].person = e.person]
     /\ Give("ExternalIdentity", <<To("ExternalIdentityView",
          [type |-> "ExternalIdentityLinked", account |-> e.account,
           person |-> e.person])>>)
  /\ UNCHANGED <<externalView, people, memberships, organizations>>

ShowLinked ==
  /\ Receives("ExternalIdentityView", {"ExternalIdentityLinked"})
  /\ LET e == Received("ExternalIdentityView") IN
     externalView' = [externalView EXCEPT ![e.account] = e.person]
  /\ Give("ExternalIdentityView", <<>>)
  /\ UNCHANGED <<external, people, memberships, organizations>>

----------------------------------------------------------------------------
(* PersonEmailAggregate. *)

(* A variant for mutation runs: no owner is ever found. *)
NeverOwned(address) == FALSE

Owned(address) == owner[address] # NoPerson

(* A person nobody else is; which one makes no difference. *)
NewPerson == CHOOSE p \in Person : p \notin Range(owner)

RegisterPersonEmail ==
  /\ Receives("PersonEmail", {"RegisterPersonEmail"})
  /\ LET c == Received("PersonEmail")
         answer(type, p) == Give("PersonEmail", <<To(c.invoker.by,
           [type |-> type, email |-> c.email, person |-> p,
            invoker |-> c.invoker])>>)
     IN
     \/ /\ Owned(c.email)
        /\ answer("PersonEmailAlreadyRegistered", owner[c.email])
        /\ UNCHANGED owner
     \/ /\ ~Owned(c.email)
        /\ owner' = [owner EXCEPT ![c.email] = NewPerson]
        /\ answer("PersonEmailRegistered", NewPerson)
  /\ UNCHANGED <<accounts, person, personView, memberships, organizations>>

----------------------------------------------------------------------------
(* PersonAggregate and its view. *)

(* Whoever had the address registered has the person registered. *)
OnPersonEmailRegistered ==
  \E entity \in {"ExternalIdentity", "Membership"} :
    /\ Receives(entity, {"PersonEmailRegistered"})
    /\ LET e == Received(entity) IN
       Give(entity, <<To("Person",
         [type |-> "RegisterPerson", person |-> e.person, email |-> e.email,
          invoker |-> e.invoker])>>)
    /\ UNCHANGED entities

RegisterPerson ==
  /\ Receives("Person", {"RegisterPerson"})
  /\ LET c == Received("Person")
         event == [type |-> "PersonRegistered", person |-> c.person,
                   email |-> c.email, invoker |-> c.invoker]
         unregistered == person[c.person].email = NoAddress
     IN
     \/ /\ unregistered
        /\ person' = [person EXCEPT ![c.person].email = c.email]
        /\ Give("Person",
             IF c.invoker.by = "ExternalIdentity"
             THEN <<To("ExternalIdentity", event), To("PersonView", event)>>
             ELSE <<To("PersonView", event), To("Membership", event)>>)
        /\ UNCHANGED <<accounts, owner, personView, memberships,
                       organizations>>
     \/ ~unregistered /\ Drop("Person")

(* The first account a person signs in with gives them their name. *)
AddSignInAccount ==
  /\ Receives("Person", {"AddSignInAccount"})
  /\ LET c == Received("Person")
         p == person[c.person]
         unnamed == p.name = NoAccount
         event == [type |-> "SignInAccountAdded", person |-> c.person,
                   account |-> c.account,
                   name |-> IF unnamed THEN c.account ELSE NoAccount]
     IN
     \/ /\ p.email # NoAddress
        /\ person' = [person EXCEPT ![c.person] =
             [p EXCEPT !.account = Append(p.account, c.account),
                       !.name = IF unnamed THEN c.account ELSE p.name]]
        /\ Give("Person", <<To("ExternalIdentity", event),
                            To("PersonView", event)>>)
        /\ UNCHANGED <<accounts, owner, personView, memberships,
                       organizations>>
     \/ p.email = NoAddress /\ Drop("Person")

JoinOrganization ==
  /\ Receives("Person", {"JoinOrganization"})
  /\ LET c == Received("Person")
         p == person[c.person]
         event == [type |-> "OrganizationJoined", person |-> c.person,
                   membership |-> c.membership,
                   organization |-> c.organization]
         mayJoin == /\ p.email # NoAddress
                    /\ p.organization \in {NoOrganization, c.organization}
     IN
     \/ /\ mayJoin
        /\ person' = [person EXCEPT ![c.person].organization = c.organization]
        /\ Give("Person", <<To("PersonView", event), To("Membership", event)>>)
        /\ UNCHANGED <<accounts, owner, personView, memberships,
                       organizations>>
     \/ ~mayJoin /\ Drop("Person")

ShowPerson ==
  /\ Receives("PersonView", {"PersonRegistered"})
  /\ LET e == Received("PersonView") IN
     personView' = [personView EXCEPT ![e.person].email = e.email]
  /\ Give("PersonView", <<>>)
  /\ UNCHANGED <<accounts, owner, person, memberships, organizations>>

(* A variant for mutation runs: a further account wipes the name. *)
NameOfEvent(shown, name) == name

NameShown(shown, name) == IF name = NoAccount THEN shown ELSE name

ShowAccount ==
  /\ Receives("PersonView", {"SignInAccountAdded"})
  /\ LET e == Received("PersonView")
         view == personView[e.person]
     IN personView' = [personView EXCEPT ![e.person] =
          [view EXCEPT !.account = Append(view.account, e.account),
                       !.name = NameShown(view.name, e.name)]]
  /\ Give("PersonView", <<>>)
  /\ UNCHANGED <<accounts, owner, person, memberships, organizations>>

ShowOrganization ==
  /\ Receives("PersonView", {"OrganizationJoined"})
  /\ LET e == Received("PersonView") IN
     personView' =
       [personView EXCEPT ![e.person].organization = e.organization]
  /\ Give("PersonView", <<>>)
  /\ UNCHANGED <<accounts, owner, person, memberships, organizations>>

----------------------------------------------------------------------------
(* MembershipProcessManager and its view. *)

(* A variant for mutation runs: an address may be added anywhere. *)
Nowhere(address, organization) == FALSE

BelongsElsewhere(address, organization) ==
  membership[address].organization \notin {NoOrganization, organization}

AddMember ==
  /\ Receives("Membership", {"AddMember"})
  /\ LET c == Received("Membership")
         address == Normalized[c.email]
         elsewhere == BelongsElsewhere(address, c.organization)
     IN
     \/ /\ ~elsewhere
        /\ membership' = [membership EXCEPT ![address] =
             [organization |-> c.organization, role |-> c.role]]
        /\ Give("Membership", <<To("Membership",
             [type |-> "MemberAddingStarted", membership |-> address])>>)
        /\ UNCHANGED <<accounts, people, membershipView, organizations>>
     \/ elsewhere /\ Drop("Membership")

OnMemberAddingStarted ==
  /\ Receives("Membership", {"MemberAddingStarted"})
  /\ LET e == Received("Membership") IN
     Give("Membership", <<To("PersonEmail",
       [type |-> "RegisterPersonEmail", email |-> e.membership,
        invoker |-> [by |-> "Membership", id |-> e.membership]])>>)
  /\ UNCHANGED entities

OnOrganizationJoined ==
  /\ Receives("Membership", {"OrganizationJoined"})
  /\ LET e == Received("Membership") IN
     Give("Membership", <<To("MembershipView",
       [type |-> "MemberAdded", membership |-> e.membership,
        person |-> e.person, organization |-> e.organization,
        role |-> membership[e.membership].role])>>)
  /\ UNCHANGED entities

ShowMembership ==
  /\ Receives("MembershipView", {"MemberAdded"})
  /\ LET e == Received("MembershipView") IN
     membershipView' = [membershipView EXCEPT ![e.membership] =
       [organization |-> e.organization, role |-> e.role,
        person |-> e.person]]
  /\ Give("MembershipView", <<>>)
  /\ UNCHANGED <<accounts, people, membership, organizations>>

----------------------------------------------------------------------------
(* Adding a person to the organization's members, inside the handlers      *)
(* onPersonRegistered and onPersonEmailAlreadyRegistered of a membership.  *)

Found == {"PersonRegistered", "PersonEmailAlreadyRegistered"}

(* What those handlers were given, and what the membership holds. *)
Joiner == Received("Membership").person
JoinerMembership == Received("Membership").invoker.id
JoinedOrganization == membership[JoinerMembership].organization

Listed(members) == {m.person : m \in members}

AlreadyMember == Joiner \in Listed(memberView[JoinedOrganization])

JoinCommand ==
  To("Person",
     [type |-> "JoinOrganization", person |-> Joiner,
      membership |-> JoinerMembership, organization |-> JoinedOrganization])

(* The handler ends and has the person join. *)
Join == GiveAnd("Membership", <<JoinCommand>>, "no") /\ UNCHANGED entities

(* A variant for mutation runs: nobody waits for the organization. *)
JoinAtOnce ==
  /\ Receives("Membership", Found)
  /\ Join

StartJoining ==
  /\ Receives("Membership", Found)
  /\ \/ AlreadyMember /\ Join
     \/ /\ ~AlreadyMember
        /\ joining' = "asking"
        /\ UNCHANGED <<entities, inbox, crashes, failures>>

AskOrganization ==
  /\ joining = "asking"
  /\ inbox' = [inbox EXCEPT ![ShardFor("Organization")] = Append(@,
       To("Organization",
          [type |-> "AddOrganizationMember",
           organization |-> JoinedOrganization, person |-> Joiner,
           role |-> membership[JoinerMembership].role, awaited |-> TRUE]))]
  /\ joining' = "waiting"
  /\ UNCHANGED <<entities, crashes, failures>>

Confirmed == joining = "confirmed" /\ Join

(* All the organization had to do is done, and it confirmed nothing. *)
WaitedInVain ==
  /\ joining = "waiting"
  /\ inbox[ShardFor("Organization")] = <<>>
  /\ \/ AlreadyMember /\ Join
     \/ /\ ~AlreadyMember
        /\ GiveAnd("Membership", <<>>, "no")
        /\ UNCHANGED entities

(* The command is refused, the connection breaks, or the confirmation does *)
(* not come in time.  The command may still be executed, and the person may*)
(* be shown as a member by now.                                            *)
GiveUp ==
  /\ joining # "no"
  /\ crashes + failures < MaxFaults
  /\ failures' = failures + 1
  /\ joining' = "no"
  /\ \E emitted \in {<<>>, <<JoinCommand>>} :
       /\ emitted # <<>> => AlreadyMember
       /\ inbox' =
            Unawaited(Emitted(Handled("Membership"), "Membership", emitted))
  /\ UNCHANGED <<entities, crashes>>

(* The server stops while a handler waits; it handles the message again.   *)
Stop ==
  /\ joining # "no"
  /\ crashes + failures < MaxFaults
  /\ crashes' = crashes + 1
  /\ joining' = "no"
  /\ inbox' = Unawaited(inbox)
  /\ UNCHANGED <<entities, failures>>

----------------------------------------------------------------------------
(* The organization, in Resources. *)

AddOrganizationMember ==
  /\ Receives("Organization", {"AddOrganizationMember"})
  /\ LET c == Received("Organization")
         belongs == c.person \in Listed(member[c.organization])
         added == [person |-> c.person, role |-> c.role]
     IN
     \/ /\ ~belongs
        /\ member' = [member EXCEPT ![c.organization] = @ \cup {added}]
        /\ GiveAnd("Organization", <<To("OrganizationView",
             [type |-> "OrganizationMemberAdded",
              organization |-> c.organization, member |-> added])>>,
             IF c.awaited THEN "confirmed" ELSE joining)
        /\ UNCHANGED <<accounts, people, memberships, memberView>>
     \/ belongs /\ Drop("Organization")

ShowMember ==
  /\ Receives("OrganizationView", {"OrganizationMemberAdded"})
  /\ LET e == Received("OrganizationView")
         shown == memberView[e.organization]
     IN memberView' = [memberView EXCEPT ![e.organization] =
          IF e.member.person \in Listed(shown) THEN shown
                                               ELSE shown \cup {e.member}]
  /\ Give("OrganizationView", <<>>)
  /\ UNCHANGED <<accounts, people, memberships, member>>

----------------------------------------------------------------------------
DeliverIdentity ==
  \/ LinkExternalIdentity \/ OnExternalIdentityLinkingStarted
  \/ AddAccountToPerson \/ OnSignInAccountAdded \/ ShowLinked
  \/ RegisterPersonEmail \/ OnPersonEmailRegistered
  \/ RegisterPerson \/ AddSignInAccount \/ JoinOrganization
  \/ ShowPerson \/ ShowAccount \/ ShowOrganization
  \/ AddMember \/ OnMemberAddingStarted \/ OnOrganizationJoined
  \/ ShowMembership
  \/ StartJoining \/ AskOrganization \/ Confirmed \/ WaitedInVain

DeliverResources == AddOrganizationMember \/ ShowMember

Next ==
  \/ DeliverIdentity \/ DeliverResources \/ GiveUp \/ Stop
  \/ \E command \in ClientCommand : Post(command)

Spec == Init /\ [][Next]_vars

----------------------------------------------------------------------------
(* Accounts confirmed for one address are one person, the one an           *)
(* administrator adds under it too, whichever of them came first.          *)
AddressesAreOnePerson ==
  /\ \A a \in Account :
       /\ external[a].person # NoPerson =>
            external[a].person = owner[external[a].email]
       /\ externalView[a] # NoPerson => externalView[a] = external[a].person
  /\ \A e \in Address : membershipView[e].person # NoPerson =>
       membershipView[e].person = owner[e]

(* A person joins an organization only once it lists them, and a membership*)
(* is shown only once its person has joined.                               *)
JoinedAreListed ==
  /\ \A p \in Person : person[p].organization # NoOrganization =>
       p \in Listed(member[person[p].organization])
  /\ \A e \in Address : membershipView[e].organization # NoOrganization =>
       membershipView[e].organization =
         person[membershipView[e].person].organization

(* An organization lists a person once, and only the person of an address  *)
(* that was added to it; so nobody is in two organizations, also when a    *)
(* command is executed long after nobody waits for it any more.            *)
ListedOnceWhereAdded ==
  \A o \in Organization :
    /\ Cardinality(Listed(member[o])) = Cardinality(member[o])
    /\ \A p \in Listed(member[o]) : \E e \in Address :
         owner[e] = p /\ membership[e].organization = o

(* Once all messages are delivered, a person is shown as they are, under   *)
(* the name of the account they signed in with first.                      *)
PersonViewAgrees ==
  crashes = 0 /\ (\A s \in Shard : inbox[s] = <<>>) =>
    personView = person

(* An addition is finished, unless it was given up while the organization  *)
(* still had work to do: the wait for the other context ends.              *)
AddingCompletes ==
  \A e \in Address :
    membership[e].organization # NoOrganization
      ~> membershipView[e].organization # NoOrganization \/ failures > 0
=============================================================================
