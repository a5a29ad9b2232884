--------------------- MODULE ResourceRegistrationProofs ---------------------
(***************************************************************************)
(* Theorems about ResourceRegistration for any number of resources, people *)
(* and names, any inbox and any number of stops of the server.             *)
(***************************************************************************)
EXTENDS ResourceRegistration, SequenceTheorems, FiniteSetTheorems, TLAPS

----------------------------------------------------------------------------
(* The inbox. *)

Elements(q) == {q[i] : i \in 1 .. Len(q)}

IsSequence(q) == q \in Seq(Elements(q))

(* A sequence, and its elements at their places.                           *)
LEMMA SequenceIs ==
  ASSUME NEW S, NEW q \in Seq(S)
  PROVE  IsSequence(q)
<1>1. /\ Len(q) \in Nat /\ DOMAIN q = 1 .. Len(q)
      /\ q \in [1 .. Len(q) -> S]
  BY LenProperties
<1>2. q \in [1 .. Len(q) -> Elements(q)]
  BY <1>1 DEF Elements
<1>. QED BY <1>1, <1>2, IsASeq DEF IsSequence

(* The messages of a step are tuples of one to three.                      *)
LEMMA Tuples ==
  /\ IsSequence(<<>>) /\ Elements(<<>>) = {}
  /\ \A m : IsSequence(<<m>>) /\ Elements(<<m>>) = {m}
  /\ \A m, n : IsSequence(<<m, n>>) /\ Elements(<<m, n>>) = {m, n}
  BY DEF IsSequence, Elements

(* What was given joined the inbox; its first message left, or did not.    *)
Came(left, messages) ==
  /\ left \in {0, 1} /\ left <= Len(inbox)
  /\ Len(inbox') = Len(inbox) - left + Len(messages)
  /\ \A i \in 1 .. Len(inbox) - left : inbox'[i] = inbox[i + left]
  /\ \A j \in 1 .. Len(messages) :
       inbox'[Len(inbox) - left + j] = messages[j]

(* Give drops the delivered message, or does not when the server stops,    *)
(* and puts messages behind the others.                                    *)
LEMMA GiveIs ==
  ASSUME IsSequence(inbox), inbox # <<>>,
         NEW messages, IsSequence(messages), Give(messages)
  PROVE  IsSequence(inbox') /\ \E left \in {0, 1} : Came(left, messages)
<1> DEFINE S == Elements(inbox) \cup Elements(messages)
<1>1. inbox \in Seq(S) /\ messages \in Seq(S)
  BY DEF IsSequence, Elements
<1>2. Len(inbox) \in Nat /\ Len(messages) \in Nat /\ Len(inbox) >= 1
  BY <1>1, LenProperties, EmptySeq
<1>3. /\ Tail(inbox) \in Seq(S)
      /\ Len(Tail(inbox)) = Len(inbox) - 1
      /\ \A i \in 1 .. Len(Tail(inbox)) : Tail(inbox)[i] = inbox[i + 1]
  BY <1>1, HeadTailProperties
<1> HIDE DEF S
<1>4. ASSUME NEW left \in {0, 1}, NEW rest, rest \in Seq(S),
             Len(rest) = Len(inbox) - left,
             \A i \in 1 .. Len(rest) : rest[i] = inbox[i + left],
             inbox' = rest \o messages
      PROVE  IsSequence(inbox') /\ Came(left, messages)
  <2>1. /\ inbox' \in Seq(S)
        /\ Len(inbox') = Len(rest) + Len(messages)
        /\ \A i \in 1 .. Len(rest) + Len(messages) : inbox'[i] =
             IF i <= Len(rest) THEN rest[i] ELSE messages[i - Len(rest)]
    BY <1>1, <1>4, ConcatProperties
  <2>2. \A i \in 1 .. Len(inbox) - left : inbox'[i] = inbox[i + left]
    BY <1>2, <1>4, <2>1
  <2>3. ASSUME NEW j \in 1 .. Len(messages)
        PROVE  inbox'[Len(inbox) - left + j] = messages[j]
    <3>1. /\ Len(rest) + j \in 1 .. Len(rest) + Len(messages)
          /\ ~(Len(rest) + j <= Len(rest)) /\ Len(rest) + j - Len(rest) = j
      BY <1>2, <1>4
    <3>. QED BY <1>4, <2>1, <3>1
  <2>4. IsSequence(inbox')
    BY <2>1, SequenceIs
  <2>. QED BY <1>2, <1>4, <2>1, <2>2, <2>3, <2>4 DEF Came
<1>5. CASE inbox' = Tail(inbox) \o messages
  BY <1>2, <1>3, <1>4, <1>5
<1>6. CASE inbox' = inbox \o messages
  <2>1. /\ 0 \in {0, 1} /\ Len(inbox) = Len(inbox) - 0
        /\ \A i \in 1 .. Len(inbox) : inbox[i] = inbox[i + 0]
    BY <1>2
  <2>. QED BY <1>1, <1>4, <1>6, <2>1
<1>. QED BY <1>5, <1>6 DEF Give

(* Appending a message adds it to the elements.                            *)
LEMMA AppendIs ==
  ASSUME IsSequence(inbox), NEW m, inbox' = Append(inbox, m)
  PROVE  IsSequence(inbox') /\ Came(0, <<m>>)
<1> DEFINE S == Elements(inbox) \cup {m}
<1>1. inbox \in Seq(S) /\ m \in S
  BY DEF IsSequence, Elements
<1>2. /\ inbox' \in Seq(S) /\ Len(inbox') = Len(inbox) + 1
      /\ \A i \in 1 .. Len(inbox) : inbox'[i] = inbox[i]
      /\ inbox'[Len(inbox) + 1] = m
  BY <1>1, AppendProperties
<1>. QED BY <1>1, <1>2, LenProperties DEF Came, IsSequence, Elements

(* Where the messages are once a step is done.                             *)
LEMMA PlacesMove ==
  ASSUME IsSequence(inbox), IsSequence(inbox'), NEW messages, NEW left,
         IsSequence(messages), Came(left, messages)
  PROVE  /\ \A i \in 1 .. Len(inbox') :
              \/ /\ i + left \in 1 .. Len(inbox) /\ i <= Len(inbox) - left
                 /\ inbox'[i] = inbox[i + left]
              \/ \E j \in 1 .. Len(messages) :
                   i = Len(inbox) - left + j /\ inbox'[i] = messages[j]
         /\ \A i \in 1 .. Len(inbox) : i > left =>
              i - left \in 1 .. Len(inbox') /\ inbox'[i - left] = inbox[i]
         /\ \A j \in 1 .. Len(messages) :
              /\ Len(inbox) - left + j \in 1 .. Len(inbox')
              /\ inbox'[Len(inbox) - left + j] = messages[j]
<1>1. /\ Len(inbox) \in Nat /\ Len(messages) \in Nat /\ left \in {0, 1}
      /\ left <= Len(inbox) /\ Len(inbox') \in Nat
      /\ Len(inbox') = Len(inbox) - left + Len(messages)
  BY LenProperties DEF IsSequence, Came
<1>2. ASSUME NEW i \in 1 .. Len(inbox')
      PROVE  \/ /\ i + left \in 1 .. Len(inbox) /\ i <= Len(inbox) - left
                /\ inbox'[i] = inbox[i + left]
             \/ \E j \in 1 .. Len(messages) :
                  i = Len(inbox) - left + j /\ inbox'[i] = messages[j]
  <2>1. CASE i <= Len(inbox) - left
    <3>1. i \in 1 .. Len(inbox) - left /\ i + left \in 1 .. Len(inbox)
      BY <1>1, <2>1
    <3>. QED BY <2>1, <3>1 DEF Came
  <2>2. CASE ~(i <= Len(inbox) - left)
    <3>1. /\ i - (Len(inbox) - left) \in 1 .. Len(messages)
          /\ i = Len(inbox) - left + (i - (Len(inbox) - left))
      BY <1>1, <2>2
    <3>2. inbox'[i] = messages[i - (Len(inbox) - left)]
      BY <3>1 DEF Came
    <3>. QED BY <3>1, <3>2
  <2>. QED BY <2>1, <2>2
<1>3. ASSUME NEW i \in 1 .. Len(inbox), i > left
      PROVE  i - left \in 1 .. Len(inbox') /\ inbox'[i - left] = inbox[i]
  <2>1. /\ i - left \in 1 .. Len(inbox) - left /\ i - left \in 1 .. Len(inbox')
        /\ i - left + left = i
    BY <1>1, <1>3
  <2>. QED BY <2>1 DEF Came
<1>4. ASSUME NEW j \in 1 .. Len(messages)
      PROVE  /\ Len(inbox) - left + j \in 1 .. Len(inbox')
             /\ inbox'[Len(inbox) - left + j] = messages[j]
  <2>1. Len(inbox) - left + j \in 1 .. Len(inbox')
    BY <1>1
  <2>. QED BY <2>1 DEF Came
<1>. QED BY <1>2, <1>3, <1>4

(* Only what was given is new, and only the handled message may be gone.   *)
LEMMA CameElements ==
  ASSUME IsSequence(inbox), IsSequence(inbox'), NEW left, NEW messages,
         IsSequence(messages), Came(left, messages)
  PROVE  /\ Elements(inbox') \subseteq Elements(inbox) \cup Elements(messages)
         /\ Elements(messages) \subseteq Elements(inbox')
         /\ left = 0 => Elements(inbox) \subseteq Elements(inbox')
         /\ inbox # <<>> =>
              /\ Head(inbox) \in Elements(inbox)
              /\ Elements(inbox) \subseteq Elements(inbox') \cup {Head(inbox)}
<1>1. Elements(inbox') \subseteq Elements(inbox) \cup Elements(messages)
  BY PlacesMove DEF Elements
<1>2. Elements(messages) \subseteq Elements(inbox')
  BY PlacesMove DEF Elements
<1>3. Len(inbox) \in Nat /\ left \in {0, 1}
  BY LenProperties DEF IsSequence, Came
<1>4. \A i \in 1 .. Len(inbox) : i > left => inbox[i] \in Elements(inbox')
  BY PlacesMove DEF Elements
<1>5. left = 0 => Elements(inbox) \subseteq Elements(inbox')
  BY <1>4 DEF Elements
<1>6. inbox # <<>> => Head(inbox) = inbox[1] /\ 1 \in 1 .. Len(inbox)
  BY <1>3, HeadTailProperties, EmptySeq DEF IsSequence
<1>7. ASSUME inbox # <<>>, NEW i \in 1 .. Len(inbox)
      PROVE  inbox[i] \in Elements(inbox') \cup {Head(inbox)}
  BY <1>3, <1>4, <1>6, <1>7
<1>. QED BY <1>1, <1>2, <1>5, <1>6, <1>7 DEF Elements

----------------------------------------------------------------------------
(* What the messages say, and that the entities never take it back.        *)

Sound(m) ==
  LET s == m.signal IN
  /\ s.by \in Person
  /\ m.to = "Organization" =>
       /\ s.type = "AddOrganizationMember" => s.person \in Person
       /\ s.type = "AddResource" =>
            /\ s.resource \in Resource /\ s.name \in Name
            /\ registration[s.resource].name \in Name
  /\ m.to = "OrganizationView" =>
       /\ s.type = "OrganizationCreated" => organization.created
       /\ s.type = "OrganizationMemberAdded" =>
            s.person \in Range(organization.member)
       /\ s.type = "ResourceAdded" =>
            s.resource \in RecordedIds /\ s.name \in Name
  /\ m.to = "Registration" =>
       /\ s.resource \in Resource
       /\ s.type = "RegisterResource" => s.name \in Name
       /\ s.type # "RegisterResource" =>
            registration[s.resource].name \in Name
  /\ m.to = "Resource" =>
       /\ s.resource \in Resource
       /\ s.type = "CreateResource" =>
            s.name \in Name /\ registration[s.resource].name \in Name
       /\ s.type = "DeleteResource" => registration[s.resource].name \in Name
  /\ m.to = "Catalog" =>
       /\ s.resource \in Resource
       /\ s.type = "ResourceCreated" =>
            s.name \in Name /\ s.name = resource[s.resource].name
       /\ s.type = "ResourceDeleted" => resource[s.resource].deleted
       /\ s.type \in {"ResourceOpenedForRequests",
                      "ResourceClosedForRequests"} => s.open \in BOOLEAN
  /\ m.to = "AuditEntry" => s.id \in EntryId /\ s.about \in Resource \cup Person

Known ==
  /\ TypeOK /\ IsSequence(inbox)
  /\ \A m \in Elements(inbox) : Sound(m)

Advancing ==
  /\ organization.created => organization'.created
  /\ Range(organization.member) \subseteq Range(organization'.member)
  /\ Range(organization.resource) \subseteq Range(organization'.resource)
  /\ \A r \in Resource :
       /\ registration[r].name \in Name => registration'[r].name \in Name
       /\ resource[r].name # NoName => resource'[r].name = resource[r].name
       /\ resource[r].deleted => resource'[r].deleted

(* NoName is no name.                                                      *)
LEMMA Names == NoName \notin Name
  BY RegistrationConstants

(* A sound message stays sound as entities come to be.                     *)
LEMMA SoundStays ==
  ASSUME Advancing, NEW m, Sound(m)
  PROVE  Sound(m)'
<1>1. RecordedIds \subseteq RecordedIds'
  BY DEF Advancing, RecordedIds
<1>. QED BY <1>1, Names DEF Sound, Advancing

(* A handler that is sound in what it gives keeps the messages sound.      *)
LEMMA Gives ==
  ASSUME Known, inbox # <<>>, TypeOK', Advancing,
         NEW messages, IsSequence(messages), Give(messages),
         \A m \in Elements(messages) : Sound(m)'
  PROVE  Known'
<1>1. IsSequence(inbox') /\ \E left \in {0, 1} : Came(left, messages)
  BY GiveIs DEF Known
<1>2. Elements(inbox') \subseteq Elements(inbox) \cup Elements(messages)
  BY <1>1, CameElements DEF Known
<1>3. \A m \in Elements(inbox) : Sound(m)'
  BY SoundStays DEF Known
<1>. QED BY <1>1, <1>2, <1>3 DEF Known

(* The message that is delivered is sound.                                 *)
LEMMA Took ==
  ASSUME Known, NEW entity, NEW types, Receives(entity, types)
  PROVE  /\ inbox # <<>> /\ Head(inbox) \in Elements(inbox)
         /\ Head(inbox).to = entity /\ Head(inbox).signal = received
         /\ received.type \in types /\ Sound(Head(inbox))
<1>1. Head(inbox) = inbox[1] /\ 1 \in 1 .. Len(inbox)
  BY HeadTailProperties, EmptySeq, LenProperties
     DEF Known, IsSequence, Receives
<1>. QED BY <1>1 DEF Receives, received, Known, Elements

(* A step that leaves the entities alone.                                  *)
LEMMA Unchanged ==
  ASSUME TypeOK, UNCHANGED entities
  PROVE  TypeOK' /\ Advancing
  BY DEF TypeOK, Advancing, entities, audited

(* A step that gives nothing and changes nothing.                          *)
LEMMA GivesUnchanged ==
  ASSUME Known, inbox # <<>>, UNCHANGED entities,
         NEW messages, IsSequence(messages), Give(messages),
         \A m \in Elements(messages) : Sound(m)
  PROVE  Known'
<1>1. TypeOK' /\ Advancing
  BY Unchanged DEF Known
<1>2. \A m \in Elements(messages) : Sound(m)'
  BY <1>1, SoundStays
<1>. QED BY <1>1, <1>2, Gives

(* Only the delivered message leaves the inbox.                            *)
LEMMA Drops ==
  ASSUME Known, inbox # <<>>, Drop
  PROVE  Known'
  BY Tuples, GivesUnchanged DEF Drop

----------------------------------------------------------------------------
(* The organization and its view. *)

(* The elements of a sequence with one more.                               *)
LEMMA Ranges ==
  ASSUME NEW S, NEW q \in Seq(S), NEW e \in S
  PROVE  /\ Range(q) \subseteq S
         /\ Append(q, e) \in Seq(S)
         /\ Range(Append(q, e)) = Range(q) \cup {e}
<1>1. /\ Append(q, e) \in Seq(S) /\ Len(Append(q, e)) = Len(q) + 1
      /\ \A i \in 1 .. Len(q) : Append(q, e)[i] = q[i]
      /\ Append(q, e)[Len(q) + 1] = e
      /\ DOMAIN q = 1 .. Len(q) /\ Len(q) \in Nat
      /\ DOMAIN Append(q, e) = 1 .. Len(q) + 1
      /\ \A i \in 1 .. Len(q) : q[i] \in S
  BY AppendProperties, LenProperties, ElementOfSeq
<1>2. Range(q) = {q[i] : i \in 1 .. Len(q)}
  BY <1>1 DEF Range
<1>3. Range(Append(q, e)) = {Append(q, e)[i] : i \in 1 .. Len(q) + 1}
  BY <1>1 DEF Range
<1>. QED BY <1>1, <1>2, <1>3

(* A resource that the organization keeps is a resource.                   *)
LEMMA Taken ==
  ASSUME TypeOK
  PROVE  /\ Range(organization.member) \subseteq Person
         /\ Range(organization.resource) \subseteq Recorded
         /\ RecordedIds \subseteq Resource
<1>1. /\ organization.member \in Seq(Person)
      /\ organization.resource \in Seq(Recorded)
  BY DEF TypeOK, Organization
<1>2. /\ Range(organization.member) \subseteq Person
      /\ Range(organization.resource) \subseteq Recorded
  BY <1>1, ElementOfSeq, LenProperties DEF Range
<1>. QED BY <1>2 DEF RecordedIds, Recorded

(* Each handler keeps what is known.                                       *)
LEMMA CreateOrganizationKeeps ==
  ASSUME Known, CreateOrganization
  PROVE  Known' /\ Advancing
<1>1. inbox # <<>> /\ received.by \in Person
  BY Took DEF CreateOrganization, Sound
<1>2. CASE ~organization.created
  <2>1. TypeOK' /\ Advancing /\ organization'.created
    BY <1>2 DEF CreateOrganization, Known, TypeOK, Advancing, Organization,
                audited
  <2>2. PICK m : /\ Give(<<m>>)
                 /\ m = To("OrganizationView",
                       [type |-> "OrganizationCreated", by |-> received.by])
    BY <1>2 DEF CreateOrganization
  <2>3. Sound(m)'
    BY <1>1, <2>1, <2>2 DEF Sound, To
  <2>. QED BY <1>1, <2>1, <2>2, <2>3, Gives, Tuples
<1>3. CASE organization.created
  BY <1>1, <1>3, Drops, Unchanged DEF CreateOrganization, Drop, Known
<1>. QED BY <1>2, <1>3

LEMMA AddOrganizationMemberKeeps ==
  ASSUME Known, AddOrganizationMember
  PROVE  Known' /\ Advancing
<1>1. inbox # <<>> /\ received.by \in Person /\ received.person \in Person
  BY Took DEF AddOrganizationMember, Sound
<1>2. /\ organization \in Organization /\ organization.member \in Seq(Person)
      /\ organization.resource \in Seq(Recorded)
  BY DEF Known, TypeOK, Organization
<1>3. CASE received.person \notin Range(organization.member)
  <2>1. PICK m, n :
          /\ Give(<<m, n>>)
          /\ m = To("OrganizationView",
                [type |-> "OrganizationMemberAdded",
                 person |-> received.person, by |-> received.by])
          /\ n = ToAudit("Organization", TheOrganization,
                OrganizationVersion, "OrganizationMemberAdded",
                received.person)
    BY <1>3 DEF AddOrganizationMember
  <2>2. /\ organization' = [organization EXCEPT
             !.member = Append(@, received.person)]
        /\ UNCHANGED <<organizationView, registration, resource, catalog,
                       audited>>
    BY <1>3 DEF AddOrganizationMember
  <2>3. /\ organization'.member = Append(organization.member, received.person)
        /\ organization'.created = organization.created
        /\ organization'.resource = organization.resource
        /\ organization' \in Organization
    BY <1>1, <1>2, <2>2, Ranges DEF Organization
  <2>4. Range(organization'.member) =
          Range(organization.member) \cup {received.person}
    BY <1>1, <1>2, <2>3, Ranges
  <2>5. TypeOK'
    BY <2>2, <2>3 DEF Known, TypeOK, audited
  <2>6. Advancing
    BY <2>2, <2>3, <2>4 DEF Advancing
  <2>7. Sound(m)'
    BY <1>1, <2>1, <2>4 DEF Sound, To
  <2>8. Len(organization.member) \in Nat /\ Len(organization.resource) \in Nat
    BY <1>2, LenProperties
  <2>9. OrganizationVersion \in Nat
    <3> DEFINE c == IF organization.created THEN 1 ELSE 0
               a == Len(organization.member)
               b == Len(organization.resource)
    <3>1. c \in {0, 1}
      OBVIOUS
    <3>2. OrganizationVersion = c + a + b
      BY DEF OrganizationVersion
    <3> HIDE DEF a, b, c
    <3>3. a \in Nat /\ b \in Nat
      BY <2>8 DEF a, b
    <3>. QED BY <3>1, <3>2, <3>3
  <2>10. Sound(n)'
    BY <1>1, <2>1, <2>9 DEF Sound, To, ToAudit, EntryId, AuditedType
  <2>. QED BY <1>1, <2>1, <2>5, <2>6, <2>7, <2>10, Gives, Tuples
<1>4. CASE received.person \in Range(organization.member)
  BY <1>1, <1>4, Drops, Unchanged DEF AddOrganizationMember, Drop, Known
<1>. QED BY <1>3, <1>4

(* The messages that follow an event are the ones to its listeners.        *)
LEMMA AnnouncedAre ==
  ASSUME NEW r, NEW name
  PROVE  \E m, n :
           /\ ResourceAdded(r, name) = <<m, n>>
           /\ m.to = "OrganizationView" /\ n.to = "Registration"
           /\ m.signal = n.signal
           /\ m.signal = [type |-> "ResourceAdded", resource |-> r,
                          name |-> name, by |-> received.by]
<1> DEFINE m == To("OrganizationView", Naming("ResourceAdded", r, name))
           n == To("Registration", Naming("ResourceAdded", r, name))
<1>1. ResourceAdded(r, name) = <<m, n>>
  BY DEF ResourceAdded
<1>2. /\ m.to = "OrganizationView" /\ n.to = "Registration"
      /\ m.signal = n.signal
      /\ m.signal = [type |-> "ResourceAdded", resource |-> r,
                     name |-> name, by |-> received.by]
  BY DEF To, Naming
<1>. QED BY <1>1, <1>2

LEMMA AddResourceKeeps ==
  ASSUME Known, AddResource
  PROVE  Known' /\ Advancing
<1> DEFINE r == received.resource
           name == received.name
<1>1. /\ inbox # <<>> /\ received.by \in Person
      /\ r \in Resource /\ name \in Name
  <2>1. /\ inbox # <<>> /\ Head(inbox) \in Elements(inbox)
        /\ Head(inbox).to = "Organization" /\ Head(inbox).signal = received
        /\ received.type = "AddResource"
        /\ Sound(Head(inbox))
    BY Took DEF AddResource
  <2>. QED BY <2>1 DEF Sound
<1>2. /\ organization \in Organization
      /\ organization.resource \in Seq(Recorded)
  BY DEF Known, TypeOK, Organization
<1>3. registration[r].name \in Name
  <2>1. Receives("Organization", {"AddResource"})
    BY DEF AddResource
  <2>2. /\ Head(inbox).to = "Organization" /\ Head(inbox).signal = received
        /\ received.type = "AddResource" /\ Sound(Head(inbox))
    BY <2>1, Took
  <2>. QED BY <2>2 DEF Sound
<1> HIDE DEF r, name
<1>4. PICK m, n :
        /\ ResourceAdded(r, name) = <<m, n>>
        /\ m.to = "OrganizationView" /\ n.to = "Registration"
        /\ m.signal = n.signal
        /\ m.signal = [type |-> "ResourceAdded", resource |-> r,
                       name |-> name, by |-> received.by]
  BY AnnouncedAre
<1>5. CASE AlreadyRecorded(r) /\ Give(<<m, n>>) /\ UNCHANGED entities
  <2>1. Sound(m) /\ Sound(n)
    BY <1>1, <1>3, <1>4, <1>5 DEF Sound, AlreadyRecorded
  <2>2. TypeOK' /\ Advancing
    BY <1>5, Unchanged DEF Known
  <2>. QED BY <1>1, <1>5, <2>1, <2>2, GivesUnchanged, Tuples
<1>6. ASSUME NEW e, Give(<<e>>), UNCHANGED entities,
             e = To("Registration",
                    About("OrganizationResourceNameAlreadyUsed", r))
      PROVE  Known' /\ Advancing
  <2>1. Sound(e)
    BY <1>1, <1>3, <1>6 DEF Sound, To, About
  <2>2. TypeOK' /\ Advancing
    BY <1>6, Unchanged DEF Known
  <2>. QED BY <1>1, <1>6, <2>1, <2>2, GivesUnchanged, Tuples
<1>7. CASE /\ organization' = [organization EXCEPT
                !.resource = Append(@, [id |-> r, name |-> name])]
           /\ Give(<<m, n>>)
           /\ UNCHANGED <<organizationView, registration, resource, catalog,
                          audited>>
  <2>1. [id |-> r, name |-> name] \in Recorded
    BY <1>1 DEF Recorded
  <2>2. /\ organization'.resource =
             Append(organization.resource, [id |-> r, name |-> name])
        /\ organization'.created = organization.created
        /\ organization'.member = organization.member
        /\ organization' \in Organization
    BY <1>2, <1>7, <2>1, Ranges DEF Organization
  <2>3. Range(organization'.resource) =
          Range(organization.resource) \cup {[id |-> r, name |-> name]}
    BY <1>2, <2>1, <2>2, Ranges
  <2>4. TypeOK'
    BY <1>7, <2>2 DEF Known, TypeOK, audited
  <2>5. Advancing
    BY <1>7, <2>2, <2>3 DEF Advancing
  <2>6. r \in RecordedIds'
    BY <2>3 DEF RecordedIds
  <2>7. Sound(m)' /\ Sound(n)'
    BY <1>1, <1>3, <1>4, <1>7, <2>6 DEF Sound
  <2>. QED BY <1>1, <1>7, <2>4, <2>5, <2>7, Gives, Tuples
<1>. QED BY <1>4, <1>5, <1>6, <1>7 DEF AddResource, r, name

LEMMA ViewKeeps ==
  ASSUME Known, ShowOrganization \/ ShowMember \/ ShowResource
  PROVE  Known' /\ Advancing
<1>1. /\ organization \in Organization /\ organizationView \in Organization
      /\ organizationView.member \in Seq(Person)
      /\ organizationView.resource \in Seq(Recorded)
  BY DEF Known, TypeOK, Organization
<1>2. /\ inbox # <<>> /\ Give(<<>>)
      /\ UNCHANGED <<organization, registration, resource, catalog, audited>>
  BY Took DEF ShowOrganization, ShowMember, ShowResource
<1>3. organizationView' \in Organization
  <2>1. CASE ShowOrganization
    BY <1>1, <2>1 DEF ShowOrganization, Organization
  <2>2. CASE ShowMember
    <3>1. received.person \in Range(organization.member)
      BY <2>2, Took DEF ShowMember, Sound
    <3>2. received.person \in Person
      BY <3>1, Taken DEF Known
    <3>3. Append(organizationView.member, received.person) \in Seq(Person)
      BY <1>1, <3>2, Ranges
    <3>. QED BY <1>1, <2>2, <3>3 DEF ShowMember, Organization
  <2>3. CASE ShowResource
    <3>1. received.resource \in RecordedIds /\ received.name \in Name
      BY <2>3, Took DEF ShowResource, Sound
    <3>2. [id |-> received.resource, name |-> received.name] \in Recorded
      BY <3>1, Taken DEF Known, Recorded
    <3>3. Append(organizationView.resource,
            [id |-> received.resource, name |-> received.name])
            \in Seq(Recorded)
      BY <1>1, <3>2, Ranges
    <3>. QED BY <1>1, <2>3, <3>3 DEF ShowResource, Organization
  <2>. QED BY <2>1, <2>2, <2>3
<1>4. TypeOK' /\ Advancing
  BY <1>2, <1>3 DEF Known, TypeOK, Advancing, audited
<1>. QED BY <1>2, <1>4, Gives, Tuples

----------------------------------------------------------------------------
(* Registrations. *)

LEMMA RegisterResourceKeeps ==
  ASSUME Known, RegisterResource
  PROVE  Known' /\ Advancing
<1> DEFINE r == received.resource
<1>1. /\ inbox # <<>> /\ received.by \in Person
      /\ r \in Resource /\ received.name \in Name
  BY Took DEF RegisterResource, Sound
<1>2. /\ registration \in [Resource -> Described]
      /\ version \in [{"Registration", "Resource"} -> [Resource -> Nat]]
  BY DEF Known, TypeOK
<1>3. PICK m : /\ Give(<<m>>)
               /\ m = To("Registration",
                         About("ResourceRegistrationRequested", r))
  BY DEF RegisterResource
<1>4. /\ registration' \in [Resource -> Described]
      /\ registration'[r].name = received.name
      /\ \A o \in Resource : registration'[o].name \in
           {registration[o].name, received.name}
  BY <1>1, <1>2 DEF RegisterResource, Described, NameOrNone
<1>5. version' \in [{"Registration", "Resource"} -> [Resource -> Nat]]
  BY <1>1, <1>2 DEF RegisterResource, Changed
<1>6. TypeOK'
  BY <1>4, <1>5 DEF RegisterResource, Known, TypeOK
<1>7. Advancing
  BY <1>1, <1>4 DEF RegisterResource, Advancing
<1>8. Sound(m)'
  BY <1>1, <1>3, <1>4 DEF Sound, To, About
<1>. QED BY <1>1, <1>3, <1>6, <1>7, <1>8, Gives, Tuples

(* The steps of a registration that only ask somebody for the next one.    *)
LEMMA AsksKeep ==
  ASSUME Known, \/ OnResourceRegistrationRequested \/ OnResourceCreated
                \/ OnOrganizationResourceNameAlreadyUsed
  PROVE  Known' /\ Advancing
<1> DEFINE r == received.resource
<1>1. /\ inbox # <<>> /\ received.by \in Person
      /\ r \in Resource /\ registration[r].name \in Name
  BY Took DEF OnResourceRegistrationRequested, OnResourceCreated,
              OnOrganizationResourceNameAlreadyUsed, Sound
<1>2. UNCHANGED entities
  BY DEF OnResourceRegistrationRequested, OnResourceCreated,
         OnOrganizationResourceNameAlreadyUsed
<1>3. PICK m :
        /\ Give(<<m>>)
        /\ \/ m = To("Resource",
                     Naming("CreateResource", r, registration[r].name))
           \/ m = To("Organization",
                     Naming("AddResource", r, registration[r].name))
           \/ m = To("Resource", About("DeleteResource", r))
  BY DEF OnResourceRegistrationRequested, OnResourceCreated,
         OnOrganizationResourceNameAlreadyUsed
<1>4. Sound(m)
  BY <1>1, <1>3 DEF Sound, To, Naming, About
<1>5. TypeOK' /\ Advancing
  BY <1>2, Unchanged DEF Known
<1>. QED BY <1>1, <1>2, <1>3, <1>4, <1>5, GivesUnchanged, Tuples

LEMMA FinishKeeps ==
  ASSUME Known, \/ OnResourceAlreadyExists \/ OnResourceAdded
                \/ OnResourceDeleted
  PROVE  Known' /\ Advancing
<1> DEFINE r == received.resource
<1>1. inbox # <<>> /\ received.by \in Person /\ r \in Resource
  BY Took DEF OnResourceAlreadyExists, OnResourceAdded, OnResourceDeleted,
              Sound
<1>2. /\ registration \in [Resource -> Described]
      /\ version \in [{"Registration", "Resource"} -> [Resource -> Nat]]
  BY DEF Known, TypeOK
<1>3. PICK outcome \in {"ResourceRegistered", "ResourceRegistrationFailed"} :
        Finish(r, outcome)
  BY DEF OnResourceAlreadyExists, OnResourceAdded, OnResourceDeleted
<1>4. PICK m : /\ Give(<<m>>)
               /\ m = ToAudit("Registration", r, version["Registration"][r],
                              outcome, r)
  BY <1>3 DEF Finish
<1>5. /\ registration' \in [Resource -> Described]
      /\ \A o \in Resource : registration'[o].name = registration[o].name
      /\ version' \in [{"Registration", "Resource"} -> [Resource -> Nat]]
  <2>1. CASE /\ registration' = [registration EXCEPT ![r].deleted = TRUE]
             /\ Changed("Registration", r)
    <3>1. version' \in [{"Registration", "Resource"} -> [Resource -> Nat]]
      BY <1>1, <1>2, <2>1 DEF Changed
    <3>2. registration' \in [Resource -> Described]
      BY <1>1, <1>2, <2>1 DEF Described
    <3>3. \A o \in Resource : registration'[o].name = registration[o].name
      BY <1>1, <1>2, <2>1 DEF Described
    <3>. QED BY <3>1, <3>2, <3>3
  <2>2. CASE UNCHANGED <<registration, version>>
    BY <1>2, <2>2
  <2>. QED BY <1>3, <2>1, <2>2 DEF Finish
<1>6. TypeOK' /\ Advancing
  BY <1>3, <1>5 DEF Finish, Known, TypeOK, Advancing
<1>7. Sound(m)'
  BY <1>1, <1>2, <1>4 DEF Sound, To, ToAudit, EntryId, AuditedType
<1>. QED BY <1>1, <1>4, <1>6, <1>7, Gives, Tuples

----------------------------------------------------------------------------
(* Resources, the catalog and the audit trail. *)

(* A handler of a resource changes no other.                               *)
LEMMA ResourceChanges ==
  ASSUME Known, NEW r \in Resource, Changed("Resource", r),
         resource' \in [Resource -> Offered],
         UNCHANGED <<organization, organizationView, registration, catalog,
                     trail>>
  PROVE  TypeOK'
<1>1. version \in [{"Registration", "Resource"} -> [Resource -> Nat]]
  BY DEF Known, TypeOK
<1>2. version' \in [{"Registration", "Resource"} -> [Resource -> Nat]]
  BY <1>1 DEF Changed
<1>. QED BY <1>2 DEF Known, TypeOK

LEMMA CreateResourceKeeps ==
  ASSUME Known, CreateResource
  PROVE  Known' /\ Advancing
<1> DEFINE r == received.resource
           event == Naming("ResourceCreated", r, received.name)
<1>1. /\ inbox # <<>> /\ received.by \in Person
      /\ r \in Resource /\ received.name \in Name
      /\ registration[r].name \in Name
  <2>1. /\ inbox # <<>> /\ Head(inbox) \in Elements(inbox)
        /\ Head(inbox).to = "Resource" /\ Head(inbox).signal = received
        /\ received.type = "CreateResource"
        /\ Sound(Head(inbox))
    BY Took DEF CreateResource
  <2>. QED BY <2>1 DEF Sound
<1>2. resource \in [Resource -> Offered]
  BY DEF Known, TypeOK
<1>3. CASE resource[r].name = NoName
  <2>1. PICK m, n : /\ Give(<<m, n>>)
                    /\ m = To("Registration", event)
                    /\ n = To("Catalog", event)
    BY <1>3 DEF CreateResource
  <2>2. /\ resource' \in [Resource -> Offered]
        /\ resource'[r].name = received.name
        /\ \A o \in Resource :
             /\ resource'[o].deleted = resource[o].deleted
             /\ o # r => resource'[o].name = resource[o].name
    BY <1>1, <1>2, <1>3 DEF CreateResource, Offered, NameOrNone
  <2>3. TypeOK'
    BY <1>1, <1>3, <2>2, ResourceChanges DEF CreateResource
  <2>4. Advancing
    BY <1>1, <1>3, <2>2 DEF CreateResource, Advancing
  <2>5. UNCHANGED registration
    BY <1>3 DEF CreateResource
  <2>6. Sound(m)' /\ Sound(n)'
    BY <1>1, <2>1, <2>2, <2>5 DEF Sound, To, Naming
  <2>. QED BY <1>1, <2>1, <2>3, <2>4, <2>6, Gives, Tuples
<1>4. CASE resource[r].name # NoName
  <2>1. PICK m : /\ Give(<<m>>)
                 /\ m = To("Registration", About("ResourceAlreadyExists", r))
    BY <1>4 DEF CreateResource
  <2>2. Sound(m)
    BY <1>1, <2>1 DEF Sound, To, About
  <2>3. UNCHANGED entities
    BY <1>4 DEF CreateResource
  <2>4. TypeOK' /\ Advancing
    BY <2>3, Unchanged DEF Known
  <2>. QED BY <1>1, <2>1, <2>2, <2>3, <2>4, GivesUnchanged, Tuples
<1>. QED BY <1>3, <1>4

LEMMA DeleteResourceKeeps ==
  ASSUME Known, DeleteResource
  PROVE  Known' /\ Advancing
<1> DEFINE r == received.resource
           event == About("ResourceDeleted", r)
<1>1. /\ inbox # <<>> /\ received.by \in Person /\ r \in Resource
      /\ registration[r].name \in Name
  BY Took DEF DeleteResource, Sound
<1>2. resource \in [Resource -> Offered]
  BY DEF Known, TypeOK
<1>3. PICK m, n : /\ Give(<<m, n>>)
                  /\ m = To("Registration", event)
                  /\ n = To("Catalog", event)
  BY DEF DeleteResource
<1>4. /\ resource' \in [Resource -> Offered]
      /\ resource'[r].deleted
      /\ \A o \in Resource :
           /\ resource[o].deleted => resource'[o].deleted
           /\ resource'[o].name = resource[o].name
  BY <1>1, <1>2 DEF DeleteResource, Offered
<1>5. TypeOK'
  BY <1>1, <1>4, ResourceChanges DEF DeleteResource
<1>6. Advancing
  BY <1>1, <1>4 DEF DeleteResource, Advancing
<1>7. UNCHANGED registration
  BY DEF DeleteResource
<1>8. Sound(m)' /\ Sound(n)'
  BY <1>1, <1>3, <1>4, <1>7 DEF Sound, To, About
<1>. QED BY <1>1, <1>3, <1>5, <1>6, <1>8, Gives, Tuples

LEMMA SetOpenKeeps ==
  ASSUME Known, SetOpen
  PROVE  Known' /\ Advancing
<1> DEFINE r == received.resource
           open == OpensBy(received.type)
           type == IF open THEN "ResourceOpenedForRequests"
                           ELSE "ResourceClosedForRequests"
<1>1. inbox # <<>> /\ received.by \in Person /\ r \in Resource
  <2>1. /\ inbox # <<>> /\ Head(inbox) \in Elements(inbox)
        /\ Head(inbox).to = "Resource" /\ Head(inbox).signal = received
        /\ received.type \in {"OpenResourceForRequests",
                            "CloseResourceForRequests"}
        /\ Sound(Head(inbox))
    BY Took DEF SetOpen
  <2>. QED BY <2>1 DEF Sound
<1>2. /\ resource \in [Resource -> Offered]
      /\ version \in [{"Registration", "Resource"} -> [Resource -> Nat]]
  BY DEF Known, TypeOK
<1>3. open \in BOOLEAN
  BY DEF OpensBy
<1>4. type \in {"ResourceOpenedForRequests", "ResourceClosedForRequests"}
  OBVIOUS
<1>5. \/ SetOpen /\ resource[r].open # open
      \/ resource[r].open = open /\ Drop
  BY DEF SetOpen
<1>6. CASE SetOpen /\ resource[r].open # open
  <2>1. /\ resource' = [resource EXCEPT ![r].open = open]
        /\ Changed("Resource", r)
        /\ UNCHANGED <<organization, organizationView, registration, catalog,
                       trail>>
    BY <1>6 DEF SetOpen, Drop, entities
  <2>2. PICK m, n :
          /\ Give(<<m, n>>)
          /\ m = To("Catalog", [type |-> type, resource |-> r, open |-> open,
                                by |-> received.by])
          /\ n = ToAudit("Resource", r, version["Resource"][r], type, r)
    BY <1>6 DEF SetOpen
  <2> HIDE DEF r, open, type
  <2>3. /\ resource' \in [Resource -> Offered]
        /\ \A o \in Resource :
             /\ resource'[o].deleted = resource[o].deleted
             /\ resource'[o].name = resource[o].name
    BY <1>1, <1>2, <1>3, <2>1 DEF Offered
  <2>4. TypeOK' /\ Advancing
    BY <1>1, <2>1, <2>3, ResourceChanges DEF Advancing
  <2>5. Sound(m)'
    BY <1>1, <1>3, <1>4, <2>2 DEF Sound, To
  <2>6. Sound(n)'
    BY <1>1, <1>2, <1>4, <2>2 DEF Sound, To, ToAudit, EntryId, AuditedType
  <2>. QED BY <1>1, <2>2, <2>4, <2>5, <2>6, Gives, Tuples
<1>7. CASE Drop
  BY <1>1, <1>7, Drops, Unchanged DEF Drop, Known
<1>. QED BY <1>5, <1>6, <1>7

LEMMA CatalogKeeps ==
  ASSUME Known, ListResource \/ DelistResource \/ ShowPolicy
  PROVE  Known' /\ Advancing
<1> DEFINE r == received.resource
<1>1. /\ inbox # <<>> /\ Give(<<>>)
      /\ UNCHANGED <<organization, organizationView, registration, resource,
                     audited>>
  BY Took DEF ListResource, DelistResource, ShowPolicy
<1>2. catalog \in [Resource -> Offered]
  BY DEF Known, TypeOK
<1>3. catalog' \in [Resource -> Offered]
  <2>1. CASE ListResource
    <3>1. r \in Resource /\ received.name \in Name
      BY <2>1, Took DEF ListResource, Sound
    <3>. QED BY <1>2, <2>1, <3>1 DEF ListResource, Offered, NameOrNone
  <2>2. CASE DelistResource
    BY <1>2, <2>2 DEF DelistResource, Offered
  <2>3. CASE ShowPolicy
    <3>1. r \in Resource /\ received.open \in BOOLEAN
      BY <2>3, Took DEF ShowPolicy, Sound
    <3>. QED BY <1>2, <2>3, <3>1 DEF ShowPolicy, Offered
  <2>. QED BY <2>1, <2>2, <2>3
<1>4. TypeOK' /\ Advancing
  BY <1>1, <1>3 DEF Known, TypeOK, Advancing, audited
<1>. QED BY <1>1, <1>4, Gives, Tuples

LEMMA RecordActionKeeps ==
  ASSUME Known, RecordAction
  PROVE  Known' /\ Advancing
<1>1. /\ inbox # <<>> /\ received.by \in Person
      /\ received.id \in EntryId /\ received.about \in Resource \cup Person
  BY Took DEF RecordAction, Sound
<1>2. [id |-> received.id, about |-> received.about, actor |-> received.by]
        \in Entry
  BY <1>1 DEF Entry
<1>3. \A entry \in trail' : entry \in Entry
  BY <1>2 DEF RecordAction, EntryMade, Known, TypeOK
<1>4. TypeOK' /\ Advancing
  BY <1>3 DEF RecordAction, Known, TypeOK, Advancing
<1>. QED BY <1>1, <1>4, Gives, Tuples DEF RecordAction

LEMMA PostKeeps ==
  ASSUME Known, NEW command \in ClientCommand, Post(command)
  PROVE  Known' /\ Advancing
<1>1. command \in OrganizationCommand \cup RegisterCommand \cup PolicyCommand
  BY RegistrationConstants
<1>2. PICK entity :
        /\ inbox' = Append(inbox, To(entity, command))
        /\ entity = CASE command \in OrganizationCommand -> "Organization"
                      [] command \in RegisterCommand     -> "Registration"
                      [] command \in PolicyCommand       -> "Resource"
  BY DEF Post
<1>3. PICK m : m = To(entity, command)
  OBVIOUS
<1>4. Sound(m)
  <2>1. CASE command \in OrganizationCommand
    <3>1. entity = "Organization"
      BY <1>2, <2>1 DEF OrganizationCommand, RegisterCommand, PolicyCommand
    <3>. QED BY <1>3, <2>1, <3>1 DEF Sound, To, OrganizationCommand
  <2>2. CASE command \in RegisterCommand
    <3>1. entity = "Registration"
      BY <1>2, <2>2 DEF OrganizationCommand, RegisterCommand, PolicyCommand
    <3>. QED BY <1>3, <2>2, <3>1 DEF Sound, To, RegisterCommand
  <2>3. CASE command \in PolicyCommand
    <3>1. entity = "Resource"
      BY <1>2, <2>3 DEF OrganizationCommand, RegisterCommand, PolicyCommand
    <3>. QED BY <1>3, <2>3, <3>1 DEF Sound, To, PolicyCommand
  <2>. QED BY <1>1, <2>1, <2>2, <2>3
<1>5. TypeOK' /\ Advancing
  BY Unchanged DEF Known, Post
<1>6. IsSequence(inbox') /\ Came(0, <<m>>)
  BY <1>2, <1>3, AppendIs DEF Known
<1>7. Elements(inbox') \subseteq Elements(inbox) \cup {m}
  BY <1>6, CameElements, Tuples DEF Known
<1>8. \A e \in Elements(inbox') : Sound(e)'
  BY <1>4, <1>5, <1>7, SoundStays DEF Known
<1>. QED BY <1>5, <1>6, <1>8 DEF Known

(* The initial state, and each step, keeps what is known.                  *)
LEMMA KnownInit == Init => Known
<1> SUFFICES ASSUME Init PROVE Known
  OBVIOUS
<1>1. NewOrganization \in Organization /\ NotOffered \in Offered
  BY DEF NewOrganization, Organization, NotOffered, Offered, NameOrNone
<1>2. TypeOK
  BY <1>1 DEF Init, TypeOK, Described, NameOrNone
<1>3. IsSequence(inbox) /\ Elements(inbox) = {}
  BY Tuples DEF Init
<1>. QED BY <1>2, <1>3 DEF Known

LEMMA KnownStep ==
  ASSUME Known, [Next]_vars
  PROVE  Known' /\ Advancing
<1>1. CASE UNCHANGED vars
  <2>1. UNCHANGED <<entities, inbox>>
    BY <1>1 DEF vars
  <2>2. TypeOK' /\ Advancing
    BY <2>1, Unchanged DEF Known
  <2>3. \A m \in Elements(inbox) : Sound(m)'
    BY <2>2, SoundStays DEF Known
  <2>4. inbox' = inbox
    BY <2>1
  <2>5. IsSequence(inbox') /\ Elements(inbox') = Elements(inbox)
    BY <2>4 DEF Known
  <2>. QED BY <2>2, <2>3, <2>5 DEF Known
<1>2. CASE Deliver
  BY <1>2, CreateOrganizationKeeps, AddOrganizationMemberKeeps,
     AddResourceKeeps, ViewKeeps, RegisterResourceKeeps, AsksKeep,
     FinishKeeps, CreateResourceKeeps, DeleteResourceKeeps, SetOpenKeeps,
     CatalogKeeps, RecordActionKeeps DEF Deliver
<1>. QED BY <1>1, <1>2, PostKeeps DEF Next

(* What the entities and the messages know of each other, in every         *)
(* reachable state: types, the organization that was created before it is  *)
(* spoken of, and messages that tell what their sender did.                *)
THEOREM Knowledge == Spec => []Known
  BY KnownInit, KnownStep, PTL DEF Spec

(* The state keeps its types, and with it the audit trail and the versions *)
(* its entries are found by (organization, registration and resource       *)
(* entities).                                                              *)
THEOREM TypeCorrect == Spec => []TypeOK
<1>1. Known => TypeOK
  BY DEF Known
<1>. QED BY <1>1, Knowledge, PTL

----------------------------------------------------------------------------
(* Who acts, and whom they tell.                                           *)

OrganizationActs == CreateOrganization \/ AddOrganizationMember \/ AddResource

ViewActs == ShowOrganization \/ ShowMember \/ ShowResource

RegistrationActs ==
  \/ RegisterResource \/ OnResourceRegistrationRequested \/ OnResourceCreated
  \/ OnOrganizationResourceNameAlreadyUsed \/ OnResourceAlreadyExists
  \/ OnResourceAdded \/ OnResourceDeleted

ResourceActs == CreateResource \/ DeleteResource \/ SetOpen

CatalogActs == ListResource \/ DelistResource \/ ShowPolicy

Speaks(entity, others) ==
  \E messages : \E left \in {0, 1} :
    /\ IsSequence(messages) /\ Came(left, messages)
    /\ \A m \in Elements(messages) : m.to \in others
    /\ left = 1 => inbox # <<>> /\ Head(inbox).to = entity

(* What is in the inbox after a step was there before, or was given.       *)
LEMMA GivenSpeaks ==
  ASSUME Known, NEW entity, inbox # <<>>, Head(inbox).to = entity,
         NEW others, NEW messages, IsSequence(messages), Give(messages),
         \A m \in Elements(messages) : m.to \in others
  PROVE  Speaks(entity, others)
<1>1. \E left \in {0, 1} : Came(left, messages)
  BY GiveIs DEF Known
<1>. QED BY <1>1 DEF Speaks

(* What an organization's step tells of.                                   *)
LEMMA OrganizationSpeaks ==
  ASSUME Known, OrganizationActs
  PROVE  /\ Speaks("Organization",
                   {"OrganizationView", "Registration", "AuditEntry"})
         /\ UNCHANGED <<organizationView, registration, resource, catalog>>
<1> DEFINE others == {"OrganizationView", "Registration", "AuditEntry"}
<1>1. inbox # <<>> /\ Head(inbox).to = "Organization"
  BY Took DEF OrganizationActs, CreateOrganization, AddOrganizationMember,
              AddResource
<1>2. UNCHANGED <<organizationView, registration, resource, catalog>>
  BY DEF OrganizationActs, CreateOrganization, AddOrganizationMember,
         AddResource, Drop, entities
<1>3. \E messages : /\ IsSequence(messages) /\ Give(messages)
                    /\ \A m \in Elements(messages) : m.to \in others
  <2>1. CASE Drop
    BY <2>1, Tuples DEF Drop
  <2>2. CASE CreateOrganization /\ ~Drop
    <3>1. PICK m : m.to = "OrganizationView" /\ Give(<<m>>)
      BY <2>2 DEF CreateOrganization, To
    <3>. QED BY <3>1, Tuples
  <2>3. CASE AddOrganizationMember /\ ~Drop
    <3>1. PICK m, n : /\ m.to = "OrganizationView" /\ n.to = "AuditEntry"
                      /\ Give(<<m, n>>)
      BY <2>3 DEF AddOrganizationMember, To, ToAudit
    <3>. QED BY <3>1, Tuples
  <2>4. CASE AddResource
    <3>1. \/ Give(ResourceAdded(received.resource, received.name))
          \/ Give(<<To("Registration",
                     About("OrganizationResourceNameAlreadyUsed",
                           received.resource))>>)
      BY <2>4 DEF AddResource
    <3>2. CASE Give(ResourceAdded(received.resource, received.name))
      <4>1. PICK m, n :
              /\ ResourceAdded(received.resource, received.name) = <<m, n>>
              /\ m.to = "OrganizationView" /\ n.to = "Registration"
              /\ m.signal = n.signal
              /\ m.signal = [type |-> "ResourceAdded",
                             resource |-> received.resource,
                             name |-> received.name, by |-> received.by]
        BY AnnouncedAre
      <4>2. PICK messages :
              /\ messages = ResourceAdded(received.resource, received.name)
              /\ Give(messages)
        BY <3>2, Zenon
      <4>. QED BY <4>1, <4>2, Tuples
    <3>3. ASSUME NEW m, m.to = "Registration", Give(<<m>>)
          PROVE  \E messages : /\ IsSequence(messages) /\ Give(messages)
                               /\ \A e \in Elements(messages) : e.to \in others
      BY <3>3, Tuples
    <3>. QED BY <3>1, <3>2, <3>3 DEF To
  <2>. QED BY <2>1, <2>2, <2>3, <2>4 DEF OrganizationActs
<1>. QED BY <1>1, <1>2, <1>3, GivenSpeaks

LEMMA ViewSpeaks ==
  ASSUME Known, ViewActs
  PROVE  /\ Speaks("OrganizationView", {})
         /\ UNCHANGED <<organization, registration, resource, catalog>>
<1>1. inbox # <<>> /\ Head(inbox).to = "OrganizationView"
  BY Took DEF ViewActs, ShowOrganization, ShowMember, ShowResource
<1>2. /\ UNCHANGED <<organization, registration, resource, catalog>>
      /\ Give(<<>>)
  BY DEF ViewActs, ShowOrganization, ShowMember, ShowResource
<1>. QED BY <1>1, <1>2, GivenSpeaks, Tuples

LEMMA RegistrationSpeaks ==
  ASSUME Known, RegistrationActs
  PROVE  /\ Speaks("Registration",
                   {"Registration", "Resource", "Organization", "AuditEntry"})
         /\ UNCHANGED <<organization, organizationView, resource, catalog>>
<1> DEFINE others ==
             {"Registration", "Resource", "Organization", "AuditEntry"}
<1>1. inbox # <<>> /\ Head(inbox).to = "Registration"
  BY Took DEF RegistrationActs, RegisterResource,
     OnResourceRegistrationRequested, OnResourceCreated,
     OnOrganizationResourceNameAlreadyUsed, OnResourceAlreadyExists,
     OnResourceAdded, OnResourceDeleted
<1>2. UNCHANGED <<organization, organizationView, resource, catalog>>
  BY DEF RegistrationActs, RegisterResource,
     OnResourceRegistrationRequested, OnResourceCreated,
     OnOrganizationResourceNameAlreadyUsed, OnResourceAlreadyExists,
     OnResourceAdded, OnResourceDeleted, Finish, entities
<1>3. \E m : m.to \in others /\ Give(<<m>>)
  <2>1. CASE RegisterResource \/ OnResourceRegistrationRequested
    <3>1. \E e : \/ Give(<<To("Registration", e)>>)
                 \/ Give(<<To("Resource", e)>>)
      BY <2>1 DEF RegisterResource, OnResourceRegistrationRequested
    <3>. QED BY <3>1 DEF To
  <2>2. CASE OnResourceCreated \/ OnOrganizationResourceNameAlreadyUsed
    BY <2>2 DEF OnResourceCreated, OnOrganizationResourceNameAlreadyUsed, To
  <2>3. CASE \/ OnResourceAlreadyExists \/ OnResourceAdded
             \/ OnResourceDeleted
    <3>1. \E outcome : Finish(received.resource, outcome)
      BY <2>3 DEF OnResourceAlreadyExists, OnResourceAdded, OnResourceDeleted
    <3>2. \E e : Give(<<To("AuditEntry", e)>>)
      BY <3>1 DEF Finish, ToAudit
    <3>. QED BY <3>2 DEF To
  <2>. QED BY <2>1, <2>2, <2>3 DEF RegistrationActs
<1>. QED BY <1>1, <1>2, <1>3, GivenSpeaks, Tuples

LEMMA ResourceSpeaks ==
  ASSUME Known, ResourceActs
  PROVE  /\ Speaks("Resource", {"Registration", "Catalog", "AuditEntry"})
         /\ UNCHANGED <<organization, organizationView, registration, catalog>>
<1> DEFINE others == {"Registration", "Catalog", "AuditEntry"}
<1>1. inbox # <<>> /\ Head(inbox).to = "Resource"
  BY Took DEF ResourceActs, CreateResource, DeleteResource, SetOpen
<1>2. UNCHANGED <<organization, organizationView, registration, catalog>>
  BY DEF ResourceActs, CreateResource, DeleteResource, SetOpen, Drop, entities
<1>3. \/ Give(<<>>)
      \/ \E m : m.to \in others /\ Give(<<m>>)
      \/ \E m, n : m.to \in others /\ n.to \in others /\ Give(<<m, n>>)
  <2>1. CASE CreateResource
    <3>1. \/ \E e : Give(<<To("Registration", e), To("Catalog", e)>>)
          \/ \E e : Give(<<To("Registration", e)>>)
      BY <2>1 DEF CreateResource
    <3>2. ASSUME NEW e, Give(<<To("Registration", e), To("Catalog", e)>>)
          PROVE  \E m, n : m.to \in others /\ n.to \in others
                           /\ Give(<<m, n>>)
      BY <3>2 DEF To
    <3>3. ASSUME NEW e, Give(<<To("Registration", e)>>)
          PROVE  \E m : m.to \in others /\ Give(<<m>>)
      BY <3>3 DEF To
    <3>. QED BY <3>1, <3>2, <3>3
  <2>2. CASE DeleteResource
    <3>1. \E e : Give(<<To("Registration", e), To("Catalog", e)>>)
      BY <2>2 DEF DeleteResource
    <3>. QED BY <3>1 DEF To
  <2>3. CASE SetOpen
    <3>1. \/ Give(<<>>)
          \/ \E e, f : Give(<<To("Catalog", e), To("AuditEntry", f)>>)
      BY <2>3 DEF SetOpen, Drop, ToAudit
    <3>. QED BY <3>1 DEF To
  <2>. QED BY <2>1, <2>2, <2>3 DEF ResourceActs
<1>4. \E messages : /\ IsSequence(messages) /\ Give(messages)
                    /\ \A m \in Elements(messages) : m.to \in others
  <2> DEFINE Said == \E messages :
               /\ IsSequence(messages) /\ Give(messages)
               /\ \A m \in Elements(messages) : m.to \in others
  <2>1. Give(<<>>) => Said
    BY Tuples
  <2>2. ASSUME NEW m, m.to \in others, Give(<<m>>)
        PROVE  Said
    BY <2>2, Tuples
  <2>3. ASSUME NEW m, NEW n, m.to \in others, n.to \in others, Give(<<m, n>>)
        PROVE  Said
    BY <2>3, Tuples
  <2> HIDE DEF Said, others
  <2>4. Said
    BY <1>3, <2>1, <2>2, <2>3
  <2>. QED BY <2>4 DEF Said
<1>5. Speaks("Resource", others)
  <2> HIDE DEF others
  <2>. QED BY <1>1, <1>4, GivenSpeaks
<1>. QED BY <1>2, <1>5

LEMMA CatalogSpeaks ==
  ASSUME Known, CatalogActs
  PROVE  /\ Speaks("Catalog", {})
         /\ UNCHANGED <<organization, organizationView, registration, resource>>
<1>1. inbox # <<>> /\ Head(inbox).to = "Catalog"
  BY Took DEF CatalogActs, ListResource, DelistResource, ShowPolicy
<1>2. /\ UNCHANGED <<organization, organizationView, registration, resource>>
      /\ Give(<<>>)
  BY DEF CatalogActs, ListResource, DelistResource, ShowPolicy
<1>. QED BY <1>1, <1>2, GivenSpeaks, Tuples

LEMMA TrailSpeaks ==
  ASSUME Known, RecordAction
  PROVE  /\ Speaks("AuditEntry", {})
         /\ UNCHANGED <<organization, organizationView, registration, resource,
                       catalog>>
<1>1. inbox # <<>> /\ Head(inbox).to = "AuditEntry"
  BY Took DEF RecordAction
<1>. QED BY <1>1, GivenSpeaks, Tuples DEF RecordAction

LEMMA ClientSpeaks ==
  ASSUME Known, NEW command \in ClientCommand, Post(command)
  PROVE  /\ Speaks("nobody", {"Organization", "Registration", "Resource"})
         /\ UNCHANGED <<organization, organizationView, registration, resource,
                       catalog>>
<1>1. command \in OrganizationCommand \cup RegisterCommand \cup PolicyCommand
  BY RegistrationConstants
<1>2. PICK m : /\ inbox' = Append(inbox, m)
               /\ m.to \in {"Organization", "Registration", "Resource"}
  BY <1>1 DEF Post, To
<1>3. Came(0, <<m>>)
  BY <1>2, AppendIs DEF Known
<1>. QED BY <1>2, <1>3, Tuples DEF Speaks, Post, entities

----------------------------------------------------------------------------
(* The catalog.  What it does not show yet is on its way to it, and the    *)
(* last word on the policy of a resource, in the inbox or in the catalog,  *)
(* is the policy in force.                                                 *)

Announced(entity, r, type) ==
  \E m \in Elements(inbox) :
    m.to = entity /\ m.signal.resource = r /\ m.signal.type = type

IsPolicy(m, r) ==
  /\ m.to = "Catalog" /\ m.signal.resource = r
  /\ m.signal.type \in {"ResourceCreated", "ResourceOpenedForRequests",
                        "ResourceClosedForRequests"}

Policy(m) == IF m.signal.type = "ResourceCreated" THEN FALSE ELSE m.signal.open

PolicyPlaces(r) == {i \in 1 .. Len(inbox) : IsPolicy(inbox[i], r)}

LastWord(r) ==
  /\ PolicyPlaces(r) = {} /\ ~catalog[r].deleted =>
       catalog[r].open = resource[r].open
  /\ \A i \in PolicyPlaces(r) : (\A j \in PolicyPlaces(r) : j <= i) =>
       Policy(inbox[i]) = resource[r].open

Shown(r) ==
  /\ catalog[r].deleted => resource[r].deleted
  /\ resource[r].deleted =>
       catalog[r].deleted \/ Announced("Catalog", r, "ResourceDeleted")
  /\ catalog[r].name # NoName => catalog[r].name = resource[r].name
  /\ resource[r].name # NoName =>
       \/ catalog[r].deleted \/ catalog[r].name = resource[r].name
       \/ Announced("Catalog", r, "ResourceCreated")

CatalogFollows == \A r \in Resource : Shown(r) /\ LastWord(r)

(* What is announced stays so until it is handled.                         *)
LEMMA AnnouncedStays ==
  ASSUME IsSequence(inbox), IsSequence(inbox'), NEW messages, NEW left,
         IsSequence(messages), Came(left, messages),
         NEW entity, NEW r, NEW type, Announced(entity, r, type),
         \/ left = 0
         \/ inbox # <<>> /\ ~ /\ Head(inbox).to = entity
                              /\ Head(inbox).signal.resource = r
                              /\ Head(inbox).signal.type = type
  PROVE  Announced(entity, r, type)'
<1>1. PICK m \in Elements(inbox) :
        m.to = entity /\ m.signal.resource = r /\ m.signal.type = type
  BY DEF Announced
<1>2. m \in Elements(inbox')
  BY <1>1, CameElements
<1>. QED BY <1>1, <1>2 DEF Announced

(* Where the words on a policy are once a step is done.                    *)
LEMMA PolicyPlacesMove ==
  ASSUME IsSequence(inbox), IsSequence(inbox'), NEW messages, NEW left,
         IsSequence(messages), Came(left, messages), NEW r
  PROVE  /\ \A i \in PolicyPlaces(r)' :
              \/ /\ i + left \in PolicyPlaces(r) /\ i <= Len(inbox) - left
                 /\ inbox'[i] = inbox[i + left]
              \/ \E j \in 1 .. Len(messages) :
                   /\ i = Len(inbox) - left + j /\ inbox'[i] = messages[j]
                   /\ IsPolicy(messages[j], r)
         /\ \A i \in PolicyPlaces(r) : i > left =>
              i - left \in PolicyPlaces(r)' /\ inbox'[i - left] = inbox[i]
         /\ \A j \in 1 .. Len(messages) : IsPolicy(messages[j], r) =>
              Len(inbox) - left + j \in PolicyPlaces(r)'
<1>1. ASSUME NEW i \in PolicyPlaces(r)'
      PROVE  \/ /\ i + left \in PolicyPlaces(r) /\ i <= Len(inbox) - left
                /\ inbox'[i] = inbox[i + left]
             \/ \E j \in 1 .. Len(messages) :
                  /\ i = Len(inbox) - left + j /\ inbox'[i] = messages[j]
                  /\ IsPolicy(messages[j], r)
  <2>1. i \in 1 .. Len(inbox') /\ IsPolicy(inbox'[i], r)
    BY DEF PolicyPlaces, IsPolicy
  <2>2. \/ /\ i + left \in 1 .. Len(inbox) /\ i <= Len(inbox) - left
           /\ inbox'[i] = inbox[i + left]
        \/ \E j \in 1 .. Len(messages) :
             i = Len(inbox) - left + j /\ inbox'[i] = messages[j]
    BY <2>1, PlacesMove
  <2>. QED BY <2>1, <2>2 DEF PolicyPlaces, IsPolicy
<1>2. ASSUME NEW i \in PolicyPlaces(r), i > left
      PROVE  i - left \in PolicyPlaces(r)' /\ inbox'[i - left] = inbox[i]
  <2>1. i \in 1 .. Len(inbox) /\ IsPolicy(inbox[i], r)
    BY DEF PolicyPlaces, IsPolicy
  <2>2. i - left \in 1 .. Len(inbox') /\ inbox'[i - left] = inbox[i]
    BY <1>2, <2>1, PlacesMove
  <2>. QED BY <2>1, <2>2 DEF PolicyPlaces, IsPolicy
<1>3. ASSUME NEW j \in 1 .. Len(messages), IsPolicy(messages[j], r)
      PROVE  Len(inbox) - left + j \in PolicyPlaces(r)'
  <2>1. /\ Len(inbox) - left + j \in 1 .. Len(inbox')
        /\ inbox'[Len(inbox) - left + j] = messages[j]
    BY PlacesMove
  <2>. QED BY <1>3, <2>1 DEF PolicyPlaces, IsPolicy
<1>. QED BY <1>1, <1>2, <1>3

(* Nothing about the policy of a resource is said or heard.                *)
LEMMA LastWordStays ==
  ASSUME IsSequence(inbox), IsSequence(inbox'), NEW messages, NEW left,
         IsSequence(messages), Came(left, messages),
         NEW r, LastWord(r), resource'[r].open = resource[r].open,
         /\ catalog'[r].deleted = catalog[r].deleted
         /\ catalog'[r].open = catalog[r].open,
         \A m \in Elements(messages) : ~IsPolicy(m, r),
         left = 1 => 1 \notin PolicyPlaces(r)
  PROVE  LastWord(r)'
<1>1. /\ Len(inbox) \in Nat /\ Len(messages) \in Nat /\ left \in {0, 1}
  BY LenProperties DEF IsSequence, Came
<1>2. \A i \in PolicyPlaces(r)' :
        /\ i + left \in PolicyPlaces(r) /\ i <= Len(inbox) - left
        /\ inbox'[i] = inbox[i + left]
  BY PolicyPlacesMove DEF Elements
<1>3. \A i \in PolicyPlaces(r) :
        i - left \in PolicyPlaces(r)' /\ inbox'[i - left] = inbox[i]
  <2>1. \A i \in PolicyPlaces(r) : i > left
    BY <1>1 DEF PolicyPlaces
  <2>. QED BY <2>1, PolicyPlacesMove
<1>4. \A i \in PolicyPlaces(r) \cup PolicyPlaces(r)' : i \in Nat
  BY DEF PolicyPlaces
<1>5. ASSUME NEW i \in PolicyPlaces(r)', \A j \in PolicyPlaces(r)' : j <= i
      PROVE  Policy(inbox[i + left]) = resource[r].open
  <2>1. \A j \in PolicyPlaces(r) : j <= i + left
    BY <1>1, <1>3, <1>4, <1>5
  <2>. QED BY <1>2, <2>1 DEF LastWord
<1>6. PolicyPlaces(r)' = {} => PolicyPlaces(r) = {}
  BY <1>3
<1>7. \A i \in PolicyPlaces(r)' : Policy(inbox'[i]) = Policy(inbox[i + left])
  BY <1>2 DEF Policy
<1>. QED BY <1>5, <1>6, <1>7 DEF LastWord, Policy

(* A resource that no step touches is shown as before.                     *)
LEMMA ShownStays ==
  ASSUME IsSequence(inbox), IsSequence(inbox'), NEW messages, NEW left,
         IsSequence(messages), Came(left, messages),
         NEW r, Shown(r), UNCHANGED <<resource[r], catalog[r]>>,
         \/ left = 0
         \/ inbox # <<>> /\ ~ /\ Head(inbox).to = "Catalog"
                              /\ Head(inbox).signal.resource = r
                              /\ Head(inbox).signal.type \in
                                   {"ResourceDeleted", "ResourceCreated"}
  PROVE  Shown(r)'
<1>1. Announced("Catalog", r, "ResourceDeleted") =>
        Announced("Catalog", r, "ResourceDeleted")'
  BY AnnouncedStays
<1>2. Announced("Catalog", r, "ResourceCreated") =>
        Announced("Catalog", r, "ResourceCreated")'
  BY AnnouncedStays
<1>. QED BY <1>1, <1>2 DEF Shown

(* The first message is at the first place.                                *)
LEMMA HeadPlace ==
  ASSUME IsSequence(inbox), inbox # <<>>, NEW r
  PROVE  1 \in PolicyPlaces(r) <=> IsPolicy(Head(inbox), r)
<1>1. 1 \in 1 .. Len(inbox) /\ Head(inbox) = inbox[1]
  BY HeadTailProperties, EmptySeq, LenProperties DEF IsSequence
<1>. QED BY <1>1 DEF PolicyPlaces

(* A step in which the catalog is neither told nor tells.                  *)
LEMMA CatalogApart ==
  ASSUME Known, Known', CatalogFollows, UNCHANGED <<resource, catalog>>,
         NEW entity, NEW others, Speaks(entity, others),
         entity # "Catalog", "Catalog" \notin others
  PROVE  CatalogFollows'
<1>1. PICK messages, left :
        /\ left \in {0, 1}
        /\ IsSequence(messages) /\ Came(left, messages)
        /\ \A m \in Elements(messages) : m.to \in others
        /\ left = 1 => inbox # <<>> /\ Head(inbox).to = entity
  BY DEF Speaks
<1> SUFFICES ASSUME NEW r \in Resource PROVE Shown(r)' /\ LastWord(r)'
  BY DEF CatalogFollows
<1>2. IsSequence(inbox) /\ IsSequence(inbox') /\ Shown(r) /\ LastWord(r)
  BY DEF Known, CatalogFollows
<1>3. Shown(r)'
  BY <1>1, <1>2, ShownStays
<1>4. \A m \in Elements(messages) : ~IsPolicy(m, r)
  BY <1>1 DEF IsPolicy
<1>5. left = 1 => 1 \notin PolicyPlaces(r)
  BY <1>1, <1>2, HeadPlace DEF IsPolicy
<1>6. LastWord(r)'
  BY <1>1, <1>2, <1>4, <1>5, LastWordStays
<1>. QED BY <1>3, <1>6

(* The resource has the last word, which the catalog is told.              *)
LEMMA LastWordGiven ==
  ASSUME IsSequence(inbox), IsSequence(inbox'), NEW messages, NEW left,
         IsSequence(messages), Came(left, messages),
         NEW r, NEW k \in 1 .. Len(messages), IsPolicy(messages[k], r),
         \A j \in 1 .. Len(messages) : IsPolicy(messages[j], r) => j = k,
         Policy(messages[k]) = resource'[r].open
  PROVE  LastWord(r)'
<1>1. Len(inbox) \in Nat /\ Len(messages) \in Nat /\ left \in {0, 1}
  BY LenProperties DEF IsSequence, Came
<1>2. Len(inbox) - left + k \in PolicyPlaces(r)'
  BY PolicyPlacesMove
<1>3. ASSUME NEW i \in PolicyPlaces(r)',
             \A j \in PolicyPlaces(r)' : j <= i
      PROVE  inbox'[i] = messages[k]
  <2>1. i >= Len(inbox) - left + k
    BY <1>2, <1>3
  <2>2. ~(i <= Len(inbox) - left)
    <3>1. i \in Nat
      BY DEF PolicyPlaces
    <3>. QED BY <1>1, <2>1, <3>1
  <2>3. PICK j \in 1 .. Len(messages) :
          inbox'[i] = messages[j] /\ IsPolicy(messages[j], r)
    BY <2>2, PolicyPlacesMove
  <2>. QED BY <2>3
<1>4. \A i \in PolicyPlaces(r)' : (\A j \in PolicyPlaces(r)' : j <= i) =>
        Policy(inbox'[i]) = resource'[r].open
  BY <1>3 DEF Policy
<1>. QED BY <1>2, <1>4 DEF LastWord, Policy

(* Each handler of a resource keeps the catalog following.                 *)
LEMMA CreateResourceShown ==
  ASSUME Known, Known', CatalogFollows, CreateResource
  PROVE  CatalogFollows'
<1>0. PICK r : r = received.resource
  OBVIOUS
<1>1. /\ inbox # <<>> /\ Head(inbox).to = "Resource"
      /\ r \in Resource /\ received.name \in Name
  <2>1. /\ inbox # <<>> /\ Head(inbox) \in Elements(inbox)
        /\ Head(inbox).to = "Resource" /\ Head(inbox).signal = received
        /\ received.type = "CreateResource"
        /\ Sound(Head(inbox))
    BY Took DEF CreateResource
  <2>. QED BY <1>0, <2>1 DEF Sound
<1>2. resource \in [Resource -> Offered] /\ IsSequence(inbox)
      /\ IsSequence(inbox') /\ NoName \notin Name
  BY Names DEF Known, TypeOK
<1>3. CASE resource[r].name = NoName
  <2>1. PICK m, n :
          /\ Give(<<m, n>>)
          /\ m = To("Registration", Naming("ResourceCreated", r, received.name))
          /\ n = To("Catalog", Naming("ResourceCreated", r, received.name))
    BY <1>0, <1>3 DEF CreateResource
  <2>2. PICK left \in {0, 1} : Came(left, <<m, n>>)
    BY <1>1, <1>2, <2>1, GiveIs, Tuples
  <2>3. /\ UNCHANGED catalog
        /\ resource'[r].name = received.name /\ resource'[r].open = FALSE
        /\ resource'[r].deleted = resource[r].deleted
        /\ \A o \in Resource : o # r => resource'[o] = resource[o]
    BY <1>0, <1>1, <1>2, <1>3 DEF CreateResource, Offered
  <2>4. ASSUME NEW o \in Resource, o # r
        PROVE  Shown(o)' /\ LastWord(o)'
    <3>1. ~IsPolicy(m, o) /\ ~IsPolicy(n, o)
      BY <2>1, <2>4 DEF IsPolicy, To, Naming
    <3>2. 1 \notin PolicyPlaces(o)
      BY <1>1, <1>2, HeadPlace DEF IsPolicy
    <3>3. Shown(o) /\ LastWord(o)
      BY DEF CatalogFollows
    <3>4. Shown(o)'
      BY <1>1, <1>2, <2>2, <2>3, <2>4, <3>3, ShownStays, Tuples
    <3>. QED
      BY <1>2, <2>2, <2>3, <2>4, <3>1, <3>2, <3>3, <3>4, LastWordStays, Tuples
  <2>5. Shown(r)'
    <3>1. Announced("Catalog", r, "ResourceDeleted") =>
            Announced("Catalog", r, "ResourceDeleted")'
      BY <1>1, <1>2, <2>2, AnnouncedStays, Tuples
    <3>2. n \in Elements(inbox')
      BY <1>2, <2>2, CameElements, Tuples
    <3>3. \E e \in Elements(inbox') :
            /\ e.to = "Catalog" /\ e.signal.resource = r
            /\ e.signal.type = "ResourceCreated"
      BY <2>1, <3>2 DEF To, Naming
    <3>4. Announced("Catalog", r, "ResourceCreated")'
      BY <3>3 DEF Announced
    <3>5. catalog[r].name = NoName
      BY <1>1, <1>3 DEF CatalogFollows, Shown
    <3>6. Shown(r)
      BY <1>1 DEF CatalogFollows
    <3>. QED BY <2>3, <3>1, <3>4, <3>5, <3>6 DEF Shown
  <2>6. LastWord(r)'
    <3>1. IsPolicy(n, r) /\ ~IsPolicy(m, r) /\ Policy(n) = FALSE
      BY <2>1 DEF IsPolicy, Policy, To, Naming
    <3>2. /\ Len(<<m, n>>) = 2 /\ <<m, n>>[1] = m /\ <<m, n>>[2] = n
          /\ 2 \in 1 .. Len(<<m, n>>)
          /\ \A j \in 1 .. Len(<<m, n>>) : j = 1 \/ j = 2
      OBVIOUS
    <3> DEFINE both == <<m, n>>
    <3>3. /\ IsPolicy(both[2], r) /\ Policy(both[2]) = resource'[r].open
          /\ \A j \in 1 .. Len(both) : IsPolicy(both[j], r) => j = 2
          /\ IsSequence(both) /\ Came(left, both) /\ 2 \in 1 .. Len(both)
      BY <2>2, <2>3, <3>1, <3>2, Tuples
    <3> HIDE DEF both
    <3>. QED BY <1>2, <3>3, LastWordGiven
  <2>. QED BY <2>4, <2>5, <2>6 DEF CatalogFollows
<1>4. CASE resource[r].name # NoName
  <2>1. UNCHANGED <<resource, catalog>>
    BY <1>0, <1>4 DEF CreateResource, entities
  <2>2. PICK m : m.to = "Registration" /\ Give(<<m>>)
    BY <1>0, <1>4 DEF CreateResource, To
  <2>3. Speaks("Resource", {"Registration"})
    BY <1>1, <2>2, GivenSpeaks, Tuples
  <2>. QED BY <2>1, <2>3, CatalogApart
<1>. QED BY <1>3, <1>4

LEMMA DeleteResourceShown ==
  ASSUME Known, Known', CatalogFollows, DeleteResource
  PROVE  CatalogFollows'
<1>0. PICK r : r = received.resource
  OBVIOUS
<1>1. inbox # <<>> /\ Head(inbox).to = "Resource" /\ r \in Resource
  BY <1>0, Took DEF DeleteResource, Sound
<1>2. resource \in [Resource -> Offered] /\ IsSequence(inbox)
      /\ IsSequence(inbox')
  BY DEF Known, TypeOK
<1>3. PICK m, n : /\ Give(<<m, n>>)
                  /\ m = To("Registration", About("ResourceDeleted", r))
                  /\ n = To("Catalog", About("ResourceDeleted", r))
  BY <1>0 DEF DeleteResource
<1>4. PICK left \in {0, 1} : Came(left, <<m, n>>)
  BY <1>1, <1>2, <1>3, GiveIs, Tuples
<1>5. /\ UNCHANGED catalog
      /\ resource'[r].deleted
      /\ \A o \in Resource : /\ resource'[o].name = resource[o].name
                             /\ resource'[o].open = resource[o].open
                             /\ o # r => resource'[o] = resource[o]
  BY <1>0, <1>1, <1>2 DEF DeleteResource, Offered
<1>6. \A o : ~IsPolicy(m, o) /\ ~IsPolicy(n, o)
  BY <1>3 DEF IsPolicy, To, About
<1> SUFFICES ASSUME NEW o \in Resource PROVE Shown(o)' /\ LastWord(o)'
  BY DEF CatalogFollows
<1>7. Shown(o) /\ LastWord(o)
  BY DEF CatalogFollows
<1>8. LastWord(o)'
  <2>1. 1 \notin PolicyPlaces(o)
    BY <1>1, <1>2, HeadPlace DEF IsPolicy
  <2>. QED BY <1>2, <1>4, <1>5, <1>6, <1>7, <2>1, LastWordStays, Tuples
<1>9. CASE o # r
  <2>1. Shown(o)'
    BY <1>1, <1>2, <1>4, <1>5, <1>7, <1>9, ShownStays, Tuples
  <2>. QED BY <1>8, <2>1
<1>10. CASE o = r
  <2>1. Announced("Catalog", r, "ResourceCreated") =>
          Announced("Catalog", r, "ResourceCreated")'
    BY <1>1, <1>2, <1>4, AnnouncedStays, Tuples
  <2>2. n \in Elements(inbox')
    BY <1>2, <1>4, CameElements, Tuples
  <2>3. \E e \in Elements(inbox') :
          /\ e.to = "Catalog" /\ e.signal.resource = r
          /\ e.signal.type = "ResourceDeleted"
    BY <1>3, <2>2 DEF To, About
  <2>4. Announced("Catalog", r, "ResourceDeleted")'
    BY <2>3 DEF Announced
  <2>5. Shown(o)'
    BY <1>5, <1>7, <1>10, <2>1, <2>4 DEF Shown
  <2>. QED BY <1>8, <2>5
<1>. QED BY <1>9, <1>10

LEMMA SetOpenShown ==
  ASSUME Known, Known', CatalogFollows, SetOpen
  PROVE  CatalogFollows'
<1>0. PICK r, open, type :
        /\ r = received.resource /\ open = OpensBy(received.type)
        /\ type = IF open THEN "ResourceOpenedForRequests"
                          ELSE "ResourceClosedForRequests"
  OBVIOUS
<1>1. inbox # <<>> /\ Head(inbox).to = "Resource" /\ r \in Resource
  BY <1>0, Took DEF SetOpen, Sound
<1>2. resource \in [Resource -> Offered] /\ IsSequence(inbox)
      /\ IsSequence(inbox')
  BY DEF Known, TypeOK
<1>3. CASE SetOpen /\ resource[r].open # open
  <2>1. PICK m, n :
          /\ Give(<<m, n>>)
          /\ m = To("Catalog", [type |-> type, resource |-> r, open |-> open,
                                by |-> received.by])
          /\ n = ToAudit("Resource", r, version["Resource"][r], type, r)
    BY <1>0, <1>3 DEF SetOpen
  <2>2. /\ UNCHANGED catalog
        /\ resource' = [resource EXCEPT ![r].open = open]
    BY <1>0, <1>3 DEF SetOpen, Drop
  <2>3. /\ resource'[r].open = open
        /\ \A o \in Resource : /\ resource'[o].name = resource[o].name
                               /\ resource'[o].deleted = resource[o].deleted
                               /\ o # r => resource'[o] = resource[o]
    BY <1>1, <1>2, <2>2 DEF Offered
  <2>4. PICK left \in {0, 1} : Came(left, <<m, n>>)
    BY <1>1, <1>2, <2>1, GiveIs, Tuples
  <2>5. type \in {"ResourceOpenedForRequests", "ResourceClosedForRequests"}
    BY <1>0
  <2>6. /\ \A o : ~IsPolicy(n, o) /\ (IsPolicy(m, o) <=> o = r)
        /\ Policy(m) = open
    BY <2>1, <2>5 DEF IsPolicy, Policy, To, ToAudit
  <2>7. ASSUME NEW o \in Resource PROVE Shown(o)' /\ LastWord(o)'
    <3>1. Shown(o) /\ LastWord(o)
      BY DEF CatalogFollows
    <3>2. Shown(o)'
      <4>1. /\ Announced("Catalog", o, "ResourceCreated") =>
                  Announced("Catalog", o, "ResourceCreated")'
            /\ Announced("Catalog", o, "ResourceDeleted") =>
                  Announced("Catalog", o, "ResourceDeleted")'
        BY <1>1, <1>2, <2>4, AnnouncedStays, Tuples
      <4>. QED BY <2>2, <2>3, <3>1, <4>1 DEF Shown
    <3>3. CASE o # r
      <4>1. 1 \notin PolicyPlaces(o)
        BY <1>1, <1>2, HeadPlace DEF IsPolicy
      <4>2. LastWord(o)'
        BY <1>2, <2>2, <2>3, <2>4, <2>6, <3>1, <3>3, <4>1, LastWordStays, Tuples
      <4>. QED BY <3>2, <4>2
    <3>4. CASE o = r
      <4>1. /\ Len(<<m, n>>) = 2 /\ <<m, n>>[1] = m /\ <<m, n>>[2] = n
            /\ 1 \in 1 .. Len(<<m, n>>)
            /\ \A j \in 1 .. Len(<<m, n>>) : j = 1 \/ j = 2
        OBVIOUS
      <4>2. LastWord(o)'
        BY <1>2, <2>3, <2>4, <2>6, <3>4, <4>1, LastWordGiven, Tuples
      <4>. QED BY <3>2, <4>2
    <3>. QED BY <3>3, <3>4
  <2>. QED BY <2>7 DEF CatalogFollows
<1>4. CASE Drop
  <2>1. UNCHANGED <<resource, catalog>> /\ Give(<<>>)
    BY <1>4 DEF Drop, entities
  <2>2. Speaks("Resource", {})
    BY <1>1, <2>1, GivenSpeaks, Tuples
  <2>. QED BY <2>1, <2>2, CatalogApart
<1>. QED BY <1>0, <1>3, <1>4 DEF SetOpen

(* The catalog hears the first word in the inbox, or shows no more.        *)
LEMMA LastWordHeard ==
  ASSUME IsSequence(inbox), IsSequence(inbox'), inbox # <<>>,
         NEW left, Came(left, <<>>),
         NEW r, LastWord(r), UNCHANGED resource,
         \/ catalog'[r].deleted
         \/ /\ IsPolicy(Head(inbox), r)
            /\ catalog'[r].open = Policy(Head(inbox))
  PROVE  LastWord(r)'
<1>1. /\ Len(inbox) \in Nat /\ Len(<<>>) = 0 /\ left \in {0, 1}
      /\ 1 \in 1 .. Len(inbox) /\ Head(inbox) = inbox[1]
  BY HeadTailProperties, EmptySeq, LenProperties DEF IsSequence, Came
<1>2. \A i \in PolicyPlaces(r)' :
        i + left \in PolicyPlaces(r) /\ inbox'[i] = inbox[i + left]
  BY <1>1, PolicyPlacesMove, Tuples
<1>3. \A i \in PolicyPlaces(r) : i > left => i - left \in PolicyPlaces(r)'
  BY PolicyPlacesMove, Tuples
<1>4. /\ \A i \in PolicyPlaces(r) : i \in Nat /\ i >= 1
      /\ \A i \in PolicyPlaces(r)' : i \in Nat /\ i >= 1
  BY DEF PolicyPlaces
<1>5. ASSUME NEW i \in PolicyPlaces(r)', \A j \in PolicyPlaces(r)' : j <= i
      PROVE  Policy(inbox'[i]) = resource'[r].open
  <2>1. \A j \in PolicyPlaces(r) : j <= i + left
    BY <1>1, <1>3, <1>4, <1>5
  <2>2. Policy(inbox[i + left]) = resource[r].open
    BY <1>2, <2>1 DEF LastWord
  <2>. QED BY <1>2, <2>2 DEF Policy
<1>6. ASSUME PolicyPlaces(r)' = {}, ~catalog'[r].deleted
      PROVE  catalog'[r].open = resource'[r].open
  <2>1. 1 \in PolicyPlaces(r) /\ catalog'[r].open = Policy(inbox[1])
    BY <1>1, <1>6 DEF PolicyPlaces, Policy
  <2>2. \A j \in PolicyPlaces(r) : j <= 1
    BY <1>1, <1>3, <1>4, <1>6
  <2>. QED BY <2>1, <2>2 DEF LastWord
<1>. QED BY <1>5, <1>6 DEF LastWord, Policy

(* The catalog hears of one resource, and the others stay as they are.     *)
LEMMA CatalogHears ==
  ASSUME Known, Known', CatalogFollows, CatalogActs
  PROVE  CatalogFollows'
<1>0. PICK r : r = received.resource
  OBVIOUS
<1>1. /\ inbox # <<>> /\ Head(inbox) \in Elements(inbox)
      /\ Head(inbox).to = "Catalog" /\ Head(inbox).signal = received
      /\ r \in Resource /\ Sound(Head(inbox))
  BY <1>0, Took DEF CatalogActs, ListResource, DelistResource, ShowPolicy,
                    Sound
<1>2. /\ catalog \in [Resource -> Offered] /\ IsSequence(inbox)
      /\ IsSequence(inbox') /\ NoName \notin Name
  BY Names DEF Known, TypeOK
<1>3. UNCHANGED resource /\ Give(<<>>)
  BY DEF CatalogActs, ListResource, DelistResource, ShowPolicy
<1>4. PICK left \in {0, 1} : Came(left, <<>>)
  BY <1>1, <1>2, <1>3, GiveIs, Tuples
<1>5. \A o \in Resource : o # r => catalog'[o] = catalog[o]
  BY <1>0, <1>1, <1>2 DEF CatalogActs, ListResource, DelistResource,
                          ShowPolicy
<1>6. ASSUME NEW o \in Resource, o # r PROVE Shown(o)' /\ LastWord(o)'
  <2>1. Shown(o) /\ LastWord(o)
    BY DEF CatalogFollows
  <2>2. 1 \notin PolicyPlaces(o)
    BY <1>0, <1>1, <1>2, <1>6, HeadPlace DEF IsPolicy
  <2>3. Shown(o)'
    BY <1>0, <1>1, <1>2, <1>3, <1>4, <1>5, <1>6, <2>1, ShownStays, Tuples
  <2>. QED BY <1>2, <1>3, <1>4, <1>5, <1>6, <2>1, <2>2, <2>3, LastWordStays,
              Tuples
<1>7. Shown(r) /\ LastWord(r)
  BY <1>1 DEF CatalogFollows
<1>8. \A type : received.type # type /\ Announced("Catalog", r, type) =>
        Announced("Catalog", r, type)'
  <2>1. ASSUME NEW type, received.type # type, Announced("Catalog", r, type)
        PROVE  Announced("Catalog", r, type)'
    <3>1. ~ /\ Head(inbox).to = "Catalog" /\ Head(inbox).signal.resource = r
            /\ Head(inbox).signal.type = type
      BY <1>1, <2>1
    <3>. QED BY <1>1, <1>2, <1>4, <2>1, <3>1, AnnouncedStays, Tuples
  <2>. QED BY <2>1
<1>9. CASE ListResource
  <2>1. received.type = "ResourceCreated" /\ received.name \in Name
    <3>1. received.type = "ResourceCreated"
      <4>1. Receives("Catalog", {"ResourceCreated"})
        BY <1>9 DEF ListResource
      <4>. QED BY <4>1, Took
    <3>. QED BY <1>1, <3>1, Took DEF Sound
  <2>2. received.name = resource[r].name
    BY <1>0, <1>1, <2>1 DEF Sound
  <2>3. /\ catalog[r].deleted => catalog'[r] = catalog[r]
        /\ ~catalog[r].deleted =>
             /\ catalog'[r].name = received.name /\ catalog'[r].open = FALSE
             /\ ~catalog'[r].deleted
    BY <1>0, <1>1, <1>2, <1>9 DEF ListResource, Offered
  <2>4. Shown(r)'
    BY <1>3, <1>7, <1>8, <2>1, <2>2, <2>3 DEF Shown
  <2>5. IsPolicy(Head(inbox), r) /\ Policy(Head(inbox)) = FALSE
    BY <1>0, <1>1, <2>1 DEF IsPolicy, Policy
  <2>6. LastWord(r)'
    BY <1>1, <1>2, <1>3, <1>4, <1>7, <2>3, <2>5, LastWordHeard
  <2>. QED BY <1>6, <2>4, <2>6 DEF CatalogFollows
<1>10. CASE DelistResource
  <2>1. received.type = "ResourceDeleted"
    BY <1>10, Took DEF DelistResource
  <2>2. resource[r].deleted
    BY <1>0, <1>1, <2>1 DEF Sound
  <2>3. /\ catalog'[r].deleted /\ catalog'[r].name = catalog[r].name
        /\ catalog'[r].open = catalog[r].open
    BY <1>0, <1>1, <1>2, <1>10 DEF DelistResource, Offered
  <2>4. Shown(r)'
    BY <1>3, <1>7, <1>8, <2>1, <2>2, <2>3 DEF Shown
  <2>5. LastWord(r)'
    BY <1>1, <1>2, <1>3, <1>4, <1>7, <2>3, LastWordHeard
  <2>. QED BY <1>6, <2>4, <2>5 DEF CatalogFollows
<1>11. CASE ShowPolicy
  <2>1. received.type \in {"ResourceOpenedForRequests",
                           "ResourceClosedForRequests"}
    BY <1>11, Took DEF ShowPolicy
  <2>2. /\ catalog[r].deleted => catalog'[r] = catalog[r]
        /\ ~catalog[r].deleted =>
             /\ catalog'[r].name = catalog[r].name
             /\ catalog'[r].open = received.open /\ ~catalog'[r].deleted
    BY <1>0, <1>1, <1>2, <1>11 DEF ShowPolicy, Offered
  <2>3. Shown(r)'
    BY <1>3, <1>7, <1>8, <2>1, <2>2 DEF Shown
  <2>4. IsPolicy(Head(inbox), r) /\ Policy(Head(inbox)) = received.open
    BY <1>0, <1>1, <2>1 DEF IsPolicy, Policy
  <2>5. LastWord(r)'
    BY <1>1, <1>2, <1>3, <1>4, <1>7, <2>2, <2>4, LastWordHeard
  <2>. QED BY <1>6, <2>3, <2>5 DEF CatalogFollows
<1>. QED BY <1>9, <1>10, <1>11 DEF CatalogActs

(* A step is a delivery or a post.                                         *)
LEMMA NextIs ==
  ASSUME Next
  PROVE  \/ OrganizationActs \/ ViewActs \/ RegistrationActs \/ ResourceActs
         \/ CatalogActs \/ RecordAction
         \/ \E command \in ClientCommand : Post(command)
  BY DEF Next, Deliver, OrganizationActs, ViewActs, RegistrationActs,
         ResourceActs, CatalogActs

(* The initial state, and each step, keeps the catalog following.          *)
LEMMA CatalogFollowsInit == Init => CatalogFollows
<1> SUFFICES ASSUME Init PROVE CatalogFollows
  OBVIOUS
<1>1. Len(inbox) = 0
  BY DEF Init
<1>2. \A r : PolicyPlaces(r) = {}
  BY <1>1 DEF PolicyPlaces
<1>. QED BY <1>2 DEF Init, CatalogFollows, Shown, LastWord, NotOffered

LEMMA CatalogStep ==
  ASSUME Known, Known', CatalogFollows, [Next]_vars
  PROVE  CatalogFollows'
<1>1. CASE UNCHANGED vars
  <2>1. inbox' = inbox /\ resource' = resource /\ catalog' = catalog
    BY <1>1 DEF vars, entities
  <2>2. /\ Elements(inbox') = Elements(inbox)
        /\ \A r : PolicyPlaces(r)' = PolicyPlaces(r)
    BY <2>1 DEF PolicyPlaces, IsPolicy
  <2>3. \A r : Shown(r)' = Shown(r) /\ LastWord(r)' = LastWord(r)
    BY <2>1, <2>2 DEF Shown, LastWord, Announced, Policy
  <2>. QED BY <2>3 DEF CatalogFollows
<1>2. CASE OrganizationActs
  BY <1>2, OrganizationSpeaks, CatalogApart
<1>3. CASE ViewActs
  BY <1>3, ViewSpeaks, CatalogApart
<1>4. CASE RegistrationActs
  BY <1>4, RegistrationSpeaks, CatalogApart
<1>5. CASE ResourceActs
  BY <1>5, CreateResourceShown, DeleteResourceShown, SetOpenShown
     DEF ResourceActs
<1>6. CASE CatalogActs
  BY <1>6, CatalogHears
<1>7. CASE RecordAction
  BY <1>7, TrailSpeaks, CatalogApart
<1>8. ASSUME NEW command \in ClientCommand, Post(command)
      PROVE  CatalogFollows'
  BY <1>8, ClientSpeaks, CatalogApart
<1>. QED BY <1>1, <1>2, <1>3, <1>4, <1>5, <1>6, <1>7, <1>8, NextIs

(* The catalog shows of each resource what it is told of it last, in every *)
(* reachable state (ResourceCatalogItemProjection).                        *)
THEOREM CatalogFollowing == Spec => []CatalogFollows
<1>1. Init => CatalogFollows
  BY CatalogFollowsInit
<1>2. Known /\ Known' /\ CatalogFollows /\ [Next]_vars => CatalogFollows'
  BY CatalogStep
<1>. QED BY <1>1, <1>2, Knowledge, PTL DEF Spec

(* Once all messages are delivered, the catalog lists the resources that   *)
(* exist, each with the policy in force, in whatever order resources are   *)
(* created, opened, closed and deleted (ResourceCatalogProjection).        *)
THEOREM CatalogShowsResources == Spec => []CatalogAgrees
<1>1. Known /\ CatalogFollows => CatalogAgrees
  <2> SUFFICES ASSUME Known, CatalogFollows, inbox = <<>>, NEW r \in Resource
               PROVE  /\ Listed(r) <=> Exists(r)
                      /\ Listed(r) => catalog[r].name = resource[r].name
                                      /\ catalog[r].open = resource[r].open
    BY DEF CatalogAgrees
  <2>1. Elements(inbox) = {} /\ PolicyPlaces(r) = {}
    BY Tuples DEF PolicyPlaces
  <2>2. Shown(r) /\ LastWord(r) /\ \A type : ~Announced("Catalog", r, type)
    BY <2>1 DEF CatalogFollows, Announced
  <2>. QED BY <2>1, <2>2 DEF Shown, LastWord, Listed, Exists
<1>. QED BY <1>1, Knowledge, CatalogFollowing, PTL

----------------------------------------------------------------------------
(* The organization's view.  It shows the first things the organization    *)
(* took, in their order, and the inbox tells of each of the others, first  *)
(* of the earlier ones.  Things have keys, by which they are told apart;   *)
(* told is what the inbox says at which place.                             *)

Follows(shown, all, told, key) ==
  /\ DOMAIN told \subseteq Nat \ {0}
  /\ Len(shown) <= Len(all)
  /\ \A k \in 1 .. Len(shown) : shown[k] = all[k]
  /\ \A k, l \in 1 .. Len(all) : key[all[k]] = key[all[l]] => k = l
  /\ \A i \in DOMAIN told : \E k \in 1 .. Len(all) : key[told[i]] = key[all[k]]
  /\ \A k \in 1 .. Len(all) : k > Len(shown) =>
       /\ \E i \in DOMAIN told : told[i] = all[k]
       /\ \A i \in DOMAIN told : \A l \in k .. Len(all) :
            key[told[i]] = key[all[l]] =>
              \E j \in DOMAIN told : j <= i /\ told[j] = all[k]

(* What is told once the first left places are gone.                       *)
Shifted(told, later, left) ==
  /\ DOMAIN later \subseteq Nat \ {0}
  /\ \A i \in DOMAIN told : i > left =>
       i - left \in DOMAIN later /\ later[i - left] = told[i]

(* Nothing more is told, and nothing more is shown.                        *)
LEMMA FollowsStays ==
  ASSUME NEW S, NEW shown \in Seq(S), NEW all \in Seq(S), NEW key,
         NEW told, NEW later, NEW left \in {0, 1}, Shifted(told, later, left),
         Follows(shown, all, told, key), left = 1 => 1 \notin DOMAIN told,
         \A i \in DOMAIN later :
           i + left \in DOMAIN told /\ later[i] = told[i + left]
  PROVE  Follows(shown, all, later, key)
<1>1. Len(shown) \in Nat /\ Len(all) \in Nat
  BY LenProperties
<1>2. /\ \A i \in DOMAIN told : i \in Nat /\ i > left
      /\ \A i \in DOMAIN later : i \in Nat
  BY DEF Follows, Shifted
<1>3. ASSUME NEW k \in 1 .. Len(all), k > Len(shown)
      PROVE  \E i \in DOMAIN later : later[i] = all[k]
  BY <1>2, <1>3 DEF Follows, Shifted
<1>4. ASSUME NEW k \in 1 .. Len(all), k > Len(shown),
             NEW i \in DOMAIN later, NEW l \in k .. Len(all),
             key[later[i]] = key[all[l]]
      PROVE  \E j \in DOMAIN later : j <= i /\ later[j] = all[k]
  <2>1. PICK j \in DOMAIN told : j <= i + left /\ told[j] = all[k]
    BY <1>4 DEF Follows
  <2>2. /\ j - left \in DOMAIN later /\ later[j - left] = all[k]
        /\ j - left <= i
    <3>1. j \in Nat /\ i \in Nat /\ j > left
      BY <1>2, <2>1
    <3>2. j - left <= i
      BY <2>1, <3>1
    <3>. QED BY <2>1, <3>1, <3>2 DEF Shifted
  <2>. QED BY <2>2
<1>5. \A i \in DOMAIN later : \E k \in 1 .. Len(all) :
        key[later[i]] = key[all[k]]
  <2>1. ASSUME NEW i \in DOMAIN later
        PROVE  \E k \in 1 .. Len(all) : key[later[i]] = key[all[k]]
    <3>1. i + left \in DOMAIN told /\ later[i] = told[i + left]
      OBVIOUS
    <3>2. \E k \in 1 .. Len(all) : key[told[i + left]] = key[all[k]]
      BY <3>1 DEF Follows
    <3>. QED BY <3>1, <3>2
  <2>. QED BY <2>1
<1>6. DOMAIN later \subseteq Nat \ {0}
  BY DEF Shifted
<1>7. Len(shown) <= Len(all) /\ \A k \in 1 .. Len(shown) : shown[k] = all[k]
  BY DEF Follows
<1>8. \A k, l \in 1 .. Len(all) : key[all[k]] = key[all[l]] => k = l
  BY DEF Follows
<1>9. \A k \in 1 .. Len(all) : k > Len(shown) =>
        /\ \E i \in DOMAIN later : later[i] = all[k]
        /\ \A i \in DOMAIN later : \A l \in k .. Len(all) :
             key[later[i]] = key[all[l]] =>
               \E j \in DOMAIN later : j <= i /\ later[j] = all[k]
  BY <1>3, <1>4
<1>. QED BY <1>5, <1>6, <1>9, <1>7, <1>8, Zenon DEF Follows

(* The place last joined the places where something is told.               *)
Joined(told, later, left, last) ==
  /\ last \in DOMAIN later
  /\ \A i \in DOMAIN later :
       \/ i + left \in DOMAIN told /\ later[i] = told[i + left] /\ i < last
       \/ i = last

(* A thing was taken before, or is taken now.                              *)
Taking(all, more, x, key) ==
  \/ more = all /\ \E k \in 1 .. Len(all) : key[all[k]] = key[x]
  \/ more = Append(all, x) /\ \A k \in 1 .. Len(all) : key[all[k]] # key[x]

(* One more thing is told.                                                 *)
LEMMA FollowsTells ==
  ASSUME NEW S, NEW shown \in Seq(S), NEW all \in Seq(S), NEW key,
         NEW told, NEW later, NEW left \in {0, 1}, Shifted(told, later, left),
         Follows(shown, all, told, key), left = 1 => 1 \notin DOMAIN told,
         NEW more \in Seq(S), NEW x \in S, NEW last,
         Joined(told, later, left, last),
         later[last] = x, Taking(all, more, x, key)
  PROVE  Follows(shown, more, later, key)
<1>0. /\ last \in DOMAIN later
      /\ \A i \in DOMAIN later :
           \/ i + left \in DOMAIN told /\ later[i] = told[i + left] /\ i < last
           \/ i = last
  BY DEF Joined
<1>1. Len(shown) \in Nat /\ Len(all) \in Nat /\ Len(more) \in Nat
  BY LenProperties
<1>2. /\ \A i \in DOMAIN told : i \in Nat /\ i > left
      /\ \A i \in DOMAIN later : i \in Nat
  BY DEF Follows, Shifted
<1>3. /\ Len(all) <= Len(more) /\ Len(more) <= Len(all) + 1
      /\ \A k \in 1 .. Len(all) : more[k] = all[k]
      /\ Len(more) # Len(all) => more[Len(more)] = x
      /\ \E k \in 1 .. Len(more) : key[more[k]] = key[x]
      /\ \A k, l \in 1 .. Len(more) : key[more[k]] = key[more[l]] => k = l
  <2>1. CASE more = all /\ \E k \in 1 .. Len(all) : key[all[k]] = key[x]
    BY <1>1, <2>1 DEF Follows
  <2>2. CASE /\ more = Append(all, x)
             /\ \A k \in 1 .. Len(all) : key[all[k]] # key[x]
    <3>1. /\ Len(more) = Len(all) + 1 /\ more[Len(more)] = x
          /\ \A k \in 1 .. Len(all) : more[k] = all[k]
      BY <2>2, AppendProperties
    <3>2. \A k \in 1 .. Len(more) : k \in 1 .. Len(all) \/ k = Len(more)
      BY <1>1, <3>1
    <3>3. \A k, l \in 1 .. Len(more) : key[more[k]] = key[more[l]] => k = l
      BY <2>2, <3>1, <3>2 DEF Follows
    <3>4. Len(more) \in 1 .. Len(more)
      BY <1>1, <3>1
    <3>. QED BY <1>1, <3>1, <3>3, <3>4
  <2>. QED BY <2>1, <2>2 DEF Taking
<1>4. ASSUME NEW k \in 1 .. Len(more), k > Len(shown)
      PROVE  \E i \in DOMAIN later : later[i] = more[k]
  <2>1. CASE k \in 1 .. Len(all)
    <3>1. PICK i \in DOMAIN told : told[i] = all[k]
      BY <1>4, <2>1 DEF Follows
    <3>2. i - left \in DOMAIN later /\ later[i - left] = all[k]
      BY <1>2, <3>1 DEF Shifted
    <3>. QED BY <1>3, <2>1, <3>2
  <2>2. CASE k \notin 1 .. Len(all)
    <3>1. k = Len(more) /\ Len(more) # Len(all)
      BY <1>1, <1>3, <2>2
    <3>. QED BY <1>0, <1>3, <3>1
  <2>. QED BY <2>1, <2>2
<1>5. \A i \in DOMAIN later : i <= last
  BY <1>0, <1>2
<1>6. ASSUME NEW k \in 1 .. Len(more), k > Len(shown),
             NEW i \in DOMAIN later, NEW l \in k .. Len(more),
             key[later[i]] = key[more[l]]
      PROVE  \E j \in DOMAIN later : j <= i /\ later[j] = more[k]
  <2>1. CASE i = last
    BY <1>4, <1>5, <1>6, <2>1
  <2>2. CASE i # last
    <3>1. i + left \in DOMAIN told /\ later[i] = told[i + left]
      BY <1>0, <2>2
    <3>2. PICK h \in 1 .. Len(all) : key[told[i + left]] = key[all[h]]
      BY <3>1 DEF Follows
    <3>3. h = l
      <4>1. h \in 1 .. Len(more) /\ l \in 1 .. Len(more)
        BY <1>1, <1>3
      <4>2. key[more[h]] = key[more[l]]
        BY <1>3, <1>6, <3>1, <3>2
      <4>. QED BY <1>3, <4>1, <4>2
    <3>4. k \in 1 .. Len(all) /\ l \in k .. Len(all)
      BY <1>1, <1>6, <3>2, <3>3
    <3>5. PICK j \in DOMAIN told : j <= i + left /\ told[j] = all[k]
      BY <1>6, <3>1, <3>2, <3>3, <3>4 DEF Follows
    <3>6. /\ j - left \in DOMAIN later /\ later[j - left] = all[k]
          /\ j - left <= i
      BY <1>2, <3>5 DEF Shifted
    <3>. QED BY <1>3, <3>4, <3>6
  <2>. QED BY <2>1, <2>2
<1>7. ASSUME NEW i \in DOMAIN later
      PROVE  \E k \in 1 .. Len(more) : key[later[i]] = key[more[k]]
  <2>1. CASE i = last
    BY <1>3, <2>1
  <2>2. CASE i # last
    <3>1. PICK h \in 1 .. Len(all) : key[told[i + left]] = key[all[h]]
      BY <1>0, <2>2 DEF Follows
    <3>. QED BY <1>0, <1>1, <1>3, <2>2, <3>1
  <2>. QED BY <2>1, <2>2
<1>8. Len(shown) <= Len(more) /\ \A k \in 1 .. Len(shown) : shown[k] = more[k]
  <2>1. Len(shown) <= Len(all) /\ \A k \in 1 .. Len(shown) : shown[k] = all[k]
    BY DEF Follows
  <2>2. \A k \in 1 .. Len(shown) : k \in 1 .. Len(all)
    BY <1>1, <2>1
  <2>3. Len(shown) <= Len(more)
    BY <1>1, <1>3, <2>1
  <2>. QED BY <1>3, <2>1, <2>2, <2>3
<1>9. \A k \in 1 .. Len(more) : k > Len(shown) =>
        /\ \E i \in DOMAIN later : later[i] = more[k]
        /\ \A i \in DOMAIN later : \A l \in k .. Len(more) :
             key[later[i]] = key[more[l]] =>
               \E j \in DOMAIN later : j <= i /\ later[j] = more[k]
  BY <1>4, <1>6
<1>10. DOMAIN later \subseteq Nat \ {0}
  BY DEF Shifted
<1>11. \A k, l \in 1 .. Len(more) : key[more[k]] = key[more[l]] => k = l
  BY <1>3
<1>12. \A i \in DOMAIN later : \E k \in 1 .. Len(more) :
         key[later[i]] = key[more[k]]
  BY <1>7
<1>. QED BY <1>8, <1>9, <1>10, <1>11, <1>12, Zenon DEF Follows

Showing(shown, x, then, key) ==
  then = IF \E k \in 1 .. Len(shown) : key[shown[k]] = key[x] THEN shown
         ELSE Append(shown, x)

(* The first thing that is told is shown, unless it was shown before.      *)
LEMMA FollowsHears ==
  ASSUME NEW S, NEW shown \in Seq(S), NEW all \in Seq(S), NEW key,
         NEW told, NEW later, NEW left \in {0, 1}, Shifted(told, later, left),
         Follows(shown, all, told, key), 1 \in DOMAIN told, told[1] \in S,
         \A i \in DOMAIN later :
           i + left \in DOMAIN told /\ later[i] = told[i + left],
         NEW then, Showing(shown, told[1], then, key)
  PROVE  Follows(then, all, later, key)
<1> USE DEF Showing
<1>1. Len(shown) \in Nat /\ Len(all) \in Nat /\ then \in Seq(S)
  BY LenProperties, AppendProperties
<1>2. /\ \A i \in DOMAIN told : i \in Nat /\ i >= 1
      /\ \A i \in DOMAIN later : i \in Nat
  BY DEF Follows, Shifted
<1>3. PICK h \in 1 .. Len(all) : key[told[1]] = key[all[h]]
  BY DEF Follows
<1>4. /\ Len(then) \in Nat /\ Len(shown) <= Len(then) /\ Len(then) <= Len(all)
      /\ \A k \in 1 .. Len(then) : then[k] = all[k]
      /\ h <= Len(then)
  <2>1. CASE \E k \in 1 .. Len(shown) : key[shown[k]] = key[told[1]]
    <3>1. PICK k \in 1 .. Len(shown) : key[shown[k]] = key[told[1]]
      BY <2>1
    <3>2. k \in 1 .. Len(all) /\ key[all[k]] = key[told[1]]
      BY <1>1, <3>1 DEF Follows
    <3>3. k = h
      BY <1>3, <3>2 DEF Follows
    <3>. QED BY <1>1, <2>1, <3>1, <3>3 DEF Follows
  <2>2. CASE ~\E k \in 1 .. Len(shown) : key[shown[k]] = key[told[1]]
    <3>1. /\ Len(then) = Len(shown) + 1 /\ then[Len(shown) + 1] = told[1]
          /\ \A k \in 1 .. Len(shown) : then[k] = shown[k]
      BY <2>2, AppendProperties
    <3>2. h > Len(shown)
      BY <1>1, <1>3, <2>2 DEF Follows
    <3> DEFINE next == Len(shown) + 1
    <3>3. next \in 1 .. Len(all) /\ next > Len(shown) /\ h \in next .. Len(all)
      BY <1>1, <3>2
    <3>4. PICK j \in DOMAIN told : j <= 1 /\ told[j] = all[next]
      BY <1>3, <3>3 DEF Follows
    <3>5. told[1] = all[next]
      BY <1>2, <3>4
    <3>6. h = next
      BY <1>3, <3>3, <3>5 DEF Follows
    <3>7. \A k \in 1 .. Len(then) : k \in 1 .. Len(shown) \/ k = next
      BY <1>1, <3>1
    <3>8. Len(then) \in Nat /\ Len(shown) <= Len(then) /\ h <= Len(then)
      BY <1>1, <3>1, <3>6
    <3>9. Len(then) <= Len(all)
      BY <1>1, <3>1, <3>3
    <3>10. \A k \in 1 .. Len(shown) : shown[k] = all[k]
      BY DEF Follows
    <3>11. \A k \in 1 .. Len(then) : then[k] = all[k]
      BY <3>1, <3>5, <3>7, <3>10
    <3>. QED BY <3>8, <3>9, <3>11
  <2>. QED BY <2>1, <2>2
<1>5. ASSUME NEW k \in 1 .. Len(all), k > Len(then)
      PROVE  k > Len(shown) /\ told[1] # all[k]
  <2>1. k > Len(shown)
    BY <1>1, <1>4, <1>5
  <2>2. k # h
    BY <1>4, <1>5
  <2>. QED BY <1>3, <2>1, <2>2 DEF Follows
<1>6. ASSUME NEW k \in 1 .. Len(all), k > Len(then), NEW j \in DOMAIN told,
             told[j] = all[k]
      PROVE  j - left \in DOMAIN later /\ later[j - left] = all[k]
  <2>1. j # 1 /\ j \in Nat /\ j > left
    BY <1>2, <1>5, <1>6
  <2>. QED BY <1>6, <2>1 DEF Shifted
<1>7. ASSUME NEW k \in 1 .. Len(all), k > Len(then)
      PROVE  \E i \in DOMAIN later : later[i] = all[k]
  <2>1. PICK i \in DOMAIN told : told[i] = all[k]
    BY <1>5, <1>7 DEF Follows
  <2>. QED BY <1>6, <1>7, <2>1
<1>8. ASSUME NEW k \in 1 .. Len(all), k > Len(then),
             NEW i \in DOMAIN later, NEW l \in k .. Len(all),
             key[later[i]] = key[all[l]]
      PROVE  \E j \in DOMAIN later : j <= i /\ later[j] = all[k]
  <2>0. /\ k > Len(shown) /\ i + left \in DOMAIN told
        /\ key[told[i + left]] = key[all[l]]
    BY <1>5, <1>8
  <2>1. PICK j \in DOMAIN told : j <= i + left /\ told[j] = all[k]
    BY <2>0 DEF Follows
  <2>2. j - left \in DOMAIN later /\ later[j - left] = all[k]
    BY <1>6, <1>8, <2>1
  <2>3. j - left <= i
    <3>1. j \in Nat /\ i \in Nat
      BY <1>2, <2>1
    <3>. QED BY <2>1, <3>1
  <2>. QED BY <2>2, <2>3
<1>9. \A i \in DOMAIN later : \E k \in 1 .. Len(all) :
        key[later[i]] = key[all[k]]
  BY DEF Follows
<1>. QED BY <1>4, <1>7, <1>8, <1>9 DEF Follows, Shifted

IsTelling(m, type) == m.to = "OrganizationView" /\ m.signal.type = type

Tellings(type) == {i \in 1 .. Len(inbox) : IsTelling(inbox[i], type)}

MembersTold ==
  [i \in Tellings("OrganizationMemberAdded") |-> inbox[i].signal.person]

ResourcesTold ==
  [i \in Tellings("ResourceAdded") |->
     [id |-> inbox[i].signal.resource, name |-> inbox[i].signal.name]]

MemberKey == [p \in Person |-> p]

ResourceKey == [kept \in Recorded |-> kept.id]

MembersFollow ==
  Follows(organizationView.member, organization.member, MembersTold, MemberKey)

ResourcesFollow ==
  Follows(organizationView.resource, organization.resource, ResourcesTold,
          ResourceKey)

CreatedFollows ==
  /\ organizationView.created => organization.created
  /\ organization.created =>
       organizationView.created \/ Tellings("OrganizationCreated") # {}

ViewFollows == CreatedFollows /\ MembersFollow /\ ResourcesFollow

(* The places of the messages that tell something, after a step.           *)
LEMMA TellingsMove ==
  ASSUME IsSequence(inbox), IsSequence(inbox'), NEW messages, NEW left,
         IsSequence(messages), Came(left, messages), NEW type
  PROVE  /\ \A i \in Tellings(type)' :
              \/ /\ i + left \in Tellings(type) /\ i <= Len(inbox) - left
                 /\ inbox'[i] = inbox[i + left]
              \/ \E j \in 1 .. Len(messages) :
                   /\ i = Len(inbox) - left + j /\ inbox'[i] = messages[j]
                   /\ IsTelling(messages[j], type)
         /\ \A i \in Tellings(type) : i > left =>
              i - left \in Tellings(type)' /\ inbox'[i - left] = inbox[i]
         /\ \A j \in 1 .. Len(messages) : IsTelling(messages[j], type) =>
              /\ Len(inbox) - left + j \in Tellings(type)'
              /\ inbox'[Len(inbox) - left + j] = messages[j]
<1>1. ASSUME NEW i \in Tellings(type)'
      PROVE  \/ /\ i + left \in Tellings(type) /\ i <= Len(inbox) - left
                /\ inbox'[i] = inbox[i + left]
             \/ \E j \in 1 .. Len(messages) :
                  /\ i = Len(inbox) - left + j /\ inbox'[i] = messages[j]
                  /\ IsTelling(messages[j], type)
  <2>1. i \in 1 .. Len(inbox') /\ IsTelling(inbox'[i], type)
    BY DEF Tellings, IsTelling
  <2>2. \/ /\ i + left \in 1 .. Len(inbox) /\ i <= Len(inbox) - left
           /\ inbox'[i] = inbox[i + left]
        \/ \E j \in 1 .. Len(messages) :
             i = Len(inbox) - left + j /\ inbox'[i] = messages[j]
    BY <2>1, PlacesMove
  <2>. QED BY <2>1, <2>2 DEF Tellings, IsTelling
<1>2. ASSUME NEW i \in Tellings(type), i > left
      PROVE  i - left \in Tellings(type)' /\ inbox'[i - left] = inbox[i]
  <2>1. i \in 1 .. Len(inbox) /\ IsTelling(inbox[i], type)
    BY DEF Tellings, IsTelling
  <2>2. i - left \in 1 .. Len(inbox') /\ inbox'[i - left] = inbox[i]
    BY <1>2, <2>1, PlacesMove
  <2>. QED BY <2>1, <2>2 DEF Tellings, IsTelling
<1>3. ASSUME NEW j \in 1 .. Len(messages), IsTelling(messages[j], type)
      PROVE  /\ Len(inbox) - left + j \in Tellings(type)'
             /\ inbox'[Len(inbox) - left + j] = messages[j]
  <2>1. /\ Len(inbox) - left + j \in 1 .. Len(inbox')
        /\ inbox'[Len(inbox) - left + j] = messages[j]
    BY PlacesMove
  <2>. QED BY <1>3, <2>1 DEF Tellings, IsTelling
<1>. QED BY <1>1, <1>2, <1>3

(* What they tell, after a step.                                           *)
LEMMA ToldMoves ==
  ASSUME IsSequence(inbox), IsSequence(inbox'), NEW messages, NEW left,
         IsSequence(messages), Came(left, messages)
  PROVE  /\ Shifted(MembersTold, MembersTold', left)
         /\ Shifted(ResourcesTold, ResourcesTold', left)
         /\ \A i \in DOMAIN MembersTold' :
              i + left \in DOMAIN MembersTold /\ inbox'[i] = inbox[i + left]
                => MembersTold'[i] = MembersTold[i + left]
         /\ \A i \in DOMAIN ResourcesTold' :
              i + left \in DOMAIN ResourcesTold /\ inbox'[i] = inbox[i + left]
                => ResourcesTold'[i] = ResourcesTold[i + left]
<1> DEFINE told(m) == [id |-> m.signal.resource, name |-> m.signal.name]
<1>1. \A type : /\ Tellings(type) \subseteq Nat \ {0}
                /\ Tellings(type)' \subseteq Nat \ {0}
  BY DEF Tellings
<1>2. /\ DOMAIN MembersTold = Tellings("OrganizationMemberAdded")
      /\ DOMAIN MembersTold' = Tellings("OrganizationMemberAdded")'
      /\ DOMAIN ResourcesTold = Tellings("ResourceAdded")
      /\ DOMAIN ResourcesTold' = Tellings("ResourceAdded")'
      /\ \A i \in Tellings("OrganizationMemberAdded") :
           MembersTold[i] = inbox[i].signal.person
      /\ \A i \in Tellings("OrganizationMemberAdded")' :
           MembersTold'[i] = inbox'[i].signal.person
      /\ \A i \in Tellings("ResourceAdded") : ResourcesTold[i] = told(inbox[i])
      /\ \A i \in Tellings("ResourceAdded")' :
           ResourcesTold'[i] = told(inbox'[i])
  BY DEF MembersTold, ResourcesTold
<1>3. \A type : \A i \in Tellings(type) : i > left =>
        i - left \in Tellings(type)' /\ inbox'[i - left] = inbox[i]
  BY TellingsMove
<1> HIDE DEF told
<1>4. Shifted(MembersTold, MembersTold', left)
  BY <1>1, <1>2, <1>3 DEF Shifted
<1>5. Shifted(ResourcesTold, ResourcesTold', left)
  BY <1>1, <1>2, <1>3 DEF Shifted
<1>6. ASSUME NEW i \in DOMAIN MembersTold', i + left \in DOMAIN MembersTold,
             inbox'[i] = inbox[i + left]
      PROVE  MembersTold'[i] = MembersTold[i + left]
  BY <1>2, <1>6
<1>7. ASSUME NEW i \in DOMAIN ResourcesTold',
             i + left \in DOMAIN ResourcesTold, inbox'[i] = inbox[i + left]
      PROVE  ResourcesTold'[i] = ResourcesTold[i + left]
  BY <1>2, <1>7
<1>. QED BY <1>4, <1>5, <1>6, <1>7

(* Nothing of the kind is told or heard.                                   *)
LEMMA NotTold ==
  ASSUME IsSequence(inbox), IsSequence(inbox'), NEW messages, NEW left,
         IsSequence(messages), Came(left, messages), NEW type,
         \A m \in Elements(messages) : ~IsTelling(m, type),
         left = 1 => inbox # <<>> /\ ~IsTelling(Head(inbox), type)
  PROVE  /\ \A i \in Tellings(type)' :
              i + left \in Tellings(type) /\ inbox'[i] = inbox[i + left]
         /\ left = 1 => 1 \notin Tellings(type)
         /\ Tellings(type) # {} => Tellings(type)' # {}
<1>1. /\ Len(inbox) \in Nat /\ left \in {0, 1}
      /\ inbox # <<>> => Head(inbox) = inbox[1]
  BY HeadTailProperties, LenProperties DEF IsSequence, Came
<1>2. left = 1 => 1 \notin Tellings(type)
  BY <1>1 DEF Tellings
<1>3. \A i \in Tellings(type) : i \in Nat /\ i > left
  BY <1>1, <1>2 DEF Tellings
<1>4. Tellings(type) # {} => Tellings(type)' # {}
  BY <1>3, TellingsMove
<1>5. \A j \in 1 .. Len(messages) : ~IsTelling(messages[j], type)
  BY DEF Elements
<1>6. \A i \in Tellings(type)' :
        i + left \in Tellings(type) /\ inbox'[i] = inbox[i + left]
  BY <1>5, TellingsMove
<1>. QED BY <1>2, <1>4, <1>6

(* A step that leaves the members, and what tells of them, as they are.    *)
LEMMA MembersStay ==
  ASSUME Known, Known', MembersFollow,
         organizationView'.member = organizationView.member,
         organization'.member = organization.member,
         NEW messages, NEW left, IsSequence(messages), Came(left, messages),
         \A m \in Elements(messages) : ~IsTelling(m, "OrganizationMemberAdded"),
         left = 1 => /\ inbox # <<>>
                     /\ ~IsTelling(Head(inbox), "OrganizationMemberAdded")
  PROVE  MembersFollow'
<1>1. /\ organizationView.member \in Seq(Person)
      /\ organization.member \in Seq(Person)
      /\ left \in {0, 1} /\ IsSequence(inbox) /\ IsSequence(inbox')
  BY DEF Known, TypeOK, Organization, Came
<1>2. /\ DOMAIN MembersTold = Tellings("OrganizationMemberAdded")
      /\ DOMAIN MembersTold' = Tellings("OrganizationMemberAdded")'
  BY DEF MembersTold
<1>3. /\ \A i \in Tellings("OrganizationMemberAdded")' :
           /\ i + left \in Tellings("OrganizationMemberAdded")
           /\ inbox'[i] = inbox[i + left]
      /\ left = 1 => 1 \notin Tellings("OrganizationMemberAdded")
  BY <1>1, NotTold
<1>4. PICK told, later : told = MembersTold /\ later = MembersTold'
  OBVIOUS
<1>5. /\ Shifted(told, later, left)
      /\ \A i \in DOMAIN later :
           i + left \in DOMAIN told /\ later[i] = told[i + left]
      /\ left = 1 => 1 \notin DOMAIN told
  BY <1>1, <1>2, <1>3, <1>4, ToldMoves
<1>6. Follows(organizationView.member, organization.member, told, MemberKey)
  BY <1>4 DEF MembersFollow
<1>7. Follows(organizationView.member, organization.member, later, MemberKey)
  BY <1>1, <1>5, <1>6, FollowsStays
<1>. QED BY <1>4, <1>7 DEF MembersFollow

(* The same of the resources.                                              *)
LEMMA ResourcesStay ==
  ASSUME Known, Known', ResourcesFollow,
         organizationView'.resource = organizationView.resource,
         organization'.resource = organization.resource,
         NEW messages, NEW left, IsSequence(messages), Came(left, messages),
         \A m \in Elements(messages) : ~IsTelling(m, "ResourceAdded"),
         left = 1 => inbox # <<>> /\ ~IsTelling(Head(inbox), "ResourceAdded")
  PROVE  ResourcesFollow'
<1>1. /\ organizationView.resource \in Seq(Recorded)
      /\ organization.resource \in Seq(Recorded)
      /\ left \in {0, 1} /\ IsSequence(inbox) /\ IsSequence(inbox')
  BY DEF Known, TypeOK, Organization, Came
<1>2. /\ DOMAIN ResourcesTold = Tellings("ResourceAdded")
      /\ DOMAIN ResourcesTold' = Tellings("ResourceAdded")'
  BY DEF ResourcesTold
<1>3. /\ \A i \in Tellings("ResourceAdded")' :
           i + left \in Tellings("ResourceAdded") /\ inbox'[i] = inbox[i + left]
      /\ left = 1 => 1 \notin Tellings("ResourceAdded")
  BY <1>1, NotTold
<1>4. PICK told, later : told = ResourcesTold /\ later = ResourcesTold'
  OBVIOUS
<1>5. /\ Shifted(told, later, left)
      /\ \A i \in DOMAIN later :
           i + left \in DOMAIN told /\ later[i] = told[i + left]
      /\ left = 1 => 1 \notin DOMAIN told
  BY <1>1, <1>2, <1>3, <1>4, ToldMoves
<1>6. Follows(organizationView.resource, organization.resource, told,
              ResourceKey)
  BY <1>4 DEF ResourcesFollow
<1>7. Follows(organizationView.resource, organization.resource, later,
              ResourceKey)
  BY <1>1, <1>5, <1>6, FollowsStays
<1>. QED BY <1>4, <1>7 DEF ResourcesFollow

(* The same of the organization's creation.                                *)
LEMMA CreatedStays ==
  ASSUME IsSequence(inbox), IsSequence(inbox'), CreatedFollows,
         organizationView'.created = organizationView.created,
         organization'.created = organization.created,
         NEW messages, NEW left, IsSequence(messages), Came(left, messages),
         left = 1 => /\ inbox # <<>>
                     /\ ~IsTelling(Head(inbox), "OrganizationCreated")
  PROVE  CreatedFollows'
<1>1. /\ Len(inbox) \in Nat /\ left \in {0, 1}
      /\ inbox # <<>> => Head(inbox) = inbox[1]
  BY HeadTailProperties, LenProperties DEF IsSequence, Came
<1>2. \A i \in Tellings("OrganizationCreated") : i \in Nat /\ i > left
  BY <1>1 DEF Tellings
<1>3. Tellings("OrganizationCreated") # {} =>
        Tellings("OrganizationCreated")' # {}
  BY <1>2, TellingsMove
<1>. QED BY <1>3 DEF CreatedFollows

(* A step in which the view is neither told nor tells.                     *)
LEMMA ViewApart ==
  ASSUME Known, Known', ViewFollows,
         UNCHANGED <<organization, organizationView>>,
         NEW entity, NEW others, Speaks(entity, others),
         entity # "OrganizationView", "OrganizationView" \notin others
  PROVE  ViewFollows'
<1>1. PICK messages, left :
        /\ left \in {0, 1}
        /\ IsSequence(messages) /\ Came(left, messages)
        /\ \A m \in Elements(messages) : m.to \in others
        /\ left = 1 => inbox # <<>> /\ Head(inbox).to = entity
  BY DEF Speaks
<1>2. \A type : /\ \A m \in Elements(messages) : ~IsTelling(m, type)
                /\ left = 1 => inbox # <<>> /\ ~IsTelling(Head(inbox), type)
  BY <1>1 DEF IsTelling
<1>3. IsSequence(inbox) /\ IsSequence(inbox')
  BY DEF Known
<1>4. CreatedFollows'
  BY <1>1, <1>2, <1>3, CreatedStays DEF ViewFollows
<1>5. MembersFollow'
  BY <1>1, <1>2, MembersStay DEF ViewFollows
<1>6. ResourcesFollow'
  BY <1>1, <1>2, ResourcesStay DEF ViewFollows
<1>. QED BY <1>4, <1>5, <1>6 DEF ViewFollows

(* A telling that a step gives comes after all others.                     *)
LEMMA TellingGiven ==
  ASSUME IsSequence(inbox), IsSequence(inbox'), NEW messages, NEW left,
         IsSequence(messages), Came(left, messages), NEW type,
         NEW k \in 1 .. Len(messages), IsTelling(messages[k], type)
  PROVE  /\ Len(inbox) - left + k \in Tellings(type)'
         /\ inbox'[Len(inbox) - left + k] = messages[k]
  BY TellingsMove

(* One more member, or resource, is told of.                               *)
LEMMA MemberTold ==
  ASSUME Known, Known', MembersFollow,
         organizationView'.member = organizationView.member,
         NEW messages, NEW left, IsSequence(messages), Came(left, messages),
         left = 1 => /\ inbox # <<>>
                     /\ ~IsTelling(Head(inbox), "OrganizationMemberAdded"),
         NEW k \in 1 .. Len(messages), NEW person \in Person,
         IsTelling(messages[k], "OrganizationMemberAdded"),
         messages[k].signal.person = person,
         \A j \in 1 .. Len(messages) :
           IsTelling(messages[j], "OrganizationMemberAdded") => j = k,
         person \notin Range(organization.member),
         organization'.member = Append(organization.member, person)
  PROVE  MembersFollow'
<1>1. /\ organizationView.member \in Seq(Person)
      /\ organization.member \in Seq(Person)
      /\ organization'.member \in Seq(Person)
      /\ left \in {0, 1} /\ IsSequence(inbox) /\ IsSequence(inbox')
      /\ Len(inbox) \in Nat
  BY LenProperties DEF Known, TypeOK, Organization, Came, IsSequence
<1>2. /\ DOMAIN MembersTold = Tellings("OrganizationMemberAdded")
      /\ DOMAIN MembersTold' = Tellings("OrganizationMemberAdded")'
      /\ \A i \in DOMAIN MembersTold' : MembersTold'[i] = inbox'[i].signal.person
  BY DEF MembersTold
<1>3. PICK told, later, last :
        /\ told = MembersTold /\ later = MembersTold'
        /\ last = Len(inbox) - left + k
  OBVIOUS
<1>4. Shifted(told, later, left)
  BY <1>1, <1>3, ToldMoves
<1>5. last \in DOMAIN later /\ later[last] = person
  <2>1. IsTelling(messages[k], "OrganizationMemberAdded")
    OBVIOUS
  <2>2. /\ Len(inbox) - left + k \in Tellings("OrganizationMemberAdded")'
        /\ inbox'[Len(inbox) - left + k] = messages[k]
    BY <1>1, <2>1, TellingGiven
  <2>. QED BY <1>2, <1>3, <2>2
<1>6. ASSUME NEW i \in DOMAIN later
      PROVE  \/ i + left \in DOMAIN told /\ later[i] = told[i + left] /\ i < last
             \/ i = last
  <2>1. \/ /\ i + left \in DOMAIN told /\ i <= Len(inbox) - left
           /\ inbox'[i] = inbox[i + left]
        \/ i = last
    BY <1>1, <1>2, <1>3, TellingsMove
  <2>2. CASE i = last
    BY <2>2
  <2>3. CASE /\ i + left \in DOMAIN told /\ i <= Len(inbox) - left
             /\ inbox'[i] = inbox[i + left]
    <3>1. i \in Nat /\ k \in Nat /\ k >= 1
      BY <1>2, <1>3 DEF Tellings
    <3>2. i < last
      BY <1>1, <1>3, <2>3, <3>1
    <3>3. later[i] = told[i + left]
      BY <1>1, <1>3, <2>3, ToldMoves
    <3>. QED BY <2>3, <3>2, <3>3
  <2>. QED BY <2>1, <2>2, <2>3
<1>7. left = 1 => 1 \notin DOMAIN told
  <2>1. inbox # <<>> => Head(inbox) = inbox[1]
    BY <1>1, HeadTailProperties DEF IsSequence
  <2>. QED BY <1>2, <1>3, <2>1 DEF Tellings
<1>8. \A l \in 1 .. Len(organization.member) :
        MemberKey[organization.member[l]] # MemberKey[person]
  <2>1. \A l \in 1 .. Len(organization.member) :
          /\ organization.member[l] \in Person
          /\ organization.member[l] \in Range(organization.member)
    BY <1>1, LenProperties, ElementOfSeq DEF Range
  <2>. QED BY <2>1 DEF MemberKey
<1>9. Follows(organizationView.member, organization.member, told, MemberKey)
  BY <1>3 DEF MembersFollow
<1>10. Follows(organizationView.member, organization'.member, later, MemberKey)
  <2>1. PICK shown, all, more :
          /\ shown = organizationView.member /\ all = organization.member
          /\ more = organization'.member
    OBVIOUS
  <2>2. /\ shown \in Seq(Person) /\ all \in Seq(Person) /\ more \in Seq(Person)
        /\ Taking(all, more, person, MemberKey)
        /\ Follows(shown, all, told, MemberKey)
    BY <1>1, <1>8, <1>9, <2>1 DEF Taking
  <2>3. Joined(told, later, left, last)
    BY <1>5, <1>6 DEF Joined
  <2>4. Follows(shown, more, later, MemberKey)
    BY <1>1, <1>4, <1>5, <1>7, <2>2, <2>3, FollowsTells
  <2>. QED BY <2>1, <2>4
<1>. QED BY <1>3, <1>10 DEF MembersFollow

(* The organization tells of a resource it records.                        *)
LEMMA ResourceTold ==
  ASSUME Known, Known', ResourcesFollow,
         organizationView'.resource = organizationView.resource,
         NEW messages, NEW left, IsSequence(messages), Came(left, messages),
         left = 1 => /\ inbox # <<>>
                     /\ ~IsTelling(Head(inbox), "ResourceAdded"),
         NEW k \in 1 .. Len(messages), NEW kept \in Recorded,
         IsTelling(messages[k], "ResourceAdded"),
         messages[k].signal.resource = kept.id,
         messages[k].signal.name = kept.name,
         \A j \in 1 .. Len(messages) :
           IsTelling(messages[j], "ResourceAdded") => j = k,
         \/ /\ kept.id \in RecordedIds
            /\ organization'.resource = organization.resource
         \/ /\ kept.id \notin RecordedIds
            /\ organization'.resource = Append(organization.resource, kept)
  PROVE  ResourcesFollow'
<1>1. /\ organizationView.resource \in Seq(Recorded)
      /\ organization.resource \in Seq(Recorded)
      /\ organization'.resource \in Seq(Recorded)
      /\ left \in {0, 1} /\ IsSequence(inbox) /\ IsSequence(inbox')
      /\ Len(inbox) \in Nat
  BY LenProperties DEF Known, TypeOK, Organization, Came, IsSequence
<1>2. /\ DOMAIN ResourcesTold = Tellings("ResourceAdded")
      /\ DOMAIN ResourcesTold' = Tellings("ResourceAdded")'
      /\ \A i \in DOMAIN ResourcesTold' : ResourcesTold'[i] =
           [id |-> inbox'[i].signal.resource, name |-> inbox'[i].signal.name]
  BY DEF ResourcesTold
<1>3. PICK told, later, last :
        /\ told = ResourcesTold /\ later = ResourcesTold'
        /\ last = Len(inbox) - left + k
  OBVIOUS
<1>4. Shifted(told, later, left)
  BY <1>1, <1>3, ToldMoves
<1>5. last \in DOMAIN later /\ later[last] = kept
  <2>1. /\ last \in Tellings("ResourceAdded")'
        /\ inbox'[last] = messages[k]
    <3>1. IsTelling(messages[k], "ResourceAdded")
      OBVIOUS
    <3>2. /\ Len(inbox) - left + k \in Tellings("ResourceAdded")'
          /\ inbox'[Len(inbox) - left + k] = messages[k]
      BY <1>1, <3>1, TellingGiven
    <3>. QED BY <1>3, <3>2
  <2>2. kept = [id |-> kept.id, name |-> kept.name]
    BY DEF Recorded
  <2>. QED BY <1>2, <1>3, <2>1, <2>2
<1>6. ASSUME NEW i \in DOMAIN later
      PROVE  \/ i + left \in DOMAIN told /\ later[i] = told[i + left] /\ i < last
             \/ i = last
  <2>1. \/ /\ i + left \in DOMAIN told /\ i <= Len(inbox) - left
           /\ inbox'[i] = inbox[i + left]
        \/ i = last
    BY <1>1, <1>2, <1>3, TellingsMove
  <2>2. CASE i = last
    BY <2>2
  <2>3. CASE /\ i + left \in DOMAIN told /\ i <= Len(inbox) - left
             /\ inbox'[i] = inbox[i + left]
    <3>1. i \in Nat /\ k \in Nat /\ k >= 1
      BY <1>2, <1>3 DEF Tellings
    <3>2. i < last
      BY <1>1, <1>3, <2>3, <3>1
    <3>3. later[i] = told[i + left]
      BY <1>1, <1>3, <2>3, ToldMoves
    <3>. QED BY <2>3, <3>2, <3>3
  <2>. QED BY <2>1, <2>2, <2>3
<1>7. left = 1 => 1 \notin DOMAIN told
  <2>1. inbox # <<>> => Head(inbox) = inbox[1]
    BY <1>1, HeadTailProperties DEF IsSequence
  <2>. QED BY <1>2, <1>3, <2>1 DEF Tellings
<1>8. /\ ResourceKey[kept] = kept.id
      /\ \A l \in 1 .. Len(organization.resource) :
           ResourceKey[organization.resource[l]] = organization.resource[l].id
      /\ kept.id \in RecordedIds <=>
           \E l \in 1 .. Len(organization.resource) :
             organization.resource[l].id = kept.id
  <2>1. /\ DOMAIN organization.resource = 1 .. Len(organization.resource)
        /\ \A l \in 1 .. Len(organization.resource) :
             organization.resource[l] \in Recorded
    BY <1>1, LenProperties, ElementOfSeq
  <2>2. kept.id \in RecordedIds <=>
          \E l \in 1 .. Len(organization.resource) :
            organization.resource[l].id = kept.id
    BY <2>1 DEF RecordedIds, Range
  <2>. QED BY <2>1, <2>2 DEF ResourceKey
<1>9. Follows(organizationView.resource, organization.resource, told,
              ResourceKey)
  BY <1>3 DEF ResourcesFollow
<1>10. Follows(organizationView.resource, organization'.resource, later,
               ResourceKey)
  <2>1. \/ /\ organization'.resource = organization.resource
           /\ \E l \in 1 .. Len(organization.resource) :
                ResourceKey[organization.resource[l]] = ResourceKey[kept]
        \/ /\ organization'.resource = Append(organization.resource, kept)
           /\ \A l \in 1 .. Len(organization.resource) :
                ResourceKey[organization.resource[l]] # ResourceKey[kept]
    BY <1>8
  <2>2. PICK shown, all, more :
          /\ shown = organizationView.resource /\ all = organization.resource
          /\ more = organization'.resource
    OBVIOUS
  <2>3. /\ shown \in Seq(Recorded) /\ all \in Seq(Recorded)
        /\ more \in Seq(Recorded)
        /\ Taking(all, more, kept, ResourceKey)
        /\ Follows(shown, all, told, ResourceKey)
    BY <1>1, <1>9, <2>1, <2>2 DEF Taking
  <2>4. Joined(told, later, left, last)
    BY <1>5, <1>6 DEF Joined
  <2>5. Follows(shown, more, later, ResourceKey)
    BY <1>1, <1>4, <1>5, <1>7, <2>3, <2>4, FollowsTells
  <2>. QED BY <2>2, <2>5
<1>. QED BY <1>3, <1>10 DEF ResourcesFollow

(* A handler of the organization that takes nothing and shows nothing.     *)
LEMMA OrganizationApart ==
  ASSUME Known, Known', ViewFollows, inbox # <<>>,
         Head(inbox).to = "Organization", UNCHANGED entities,
         NEW messages, IsSequence(messages), Give(messages),
         \A m \in Elements(messages) : m.to = "Registration"
  PROVE  ViewFollows'
<1>1. Speaks("Organization", {"Registration"})
  BY GivenSpeaks
<1>2. UNCHANGED <<organization, organizationView>>
  BY DEF entities
<1>. QED BY <1>1, <1>2, ViewApart

(* Each handler keeps the view following.                                  *)
LEMMA CreateOrganizationShown ==
  ASSUME Known, Known', ViewFollows, CreateOrganization
  PROVE  ViewFollows'
<1>1. inbox # <<>> /\ Head(inbox).to = "Organization"
  BY Took DEF CreateOrganization
<1>2. IsSequence(inbox) /\ IsSequence(inbox') /\ organization \in Organization
  BY DEF Known, TypeOK
<1>3. CASE ~organization.created
  <2>1. PICK m : /\ Give(<<m>>)
                 /\ m = To("OrganizationView",
                       [type |-> "OrganizationCreated", by |-> received.by])
    BY <1>3 DEF CreateOrganization
  <2>2. /\ organization' = [organization EXCEPT !.created = TRUE]
        /\ UNCHANGED organizationView
    BY <1>3 DEF CreateOrganization
  <2>3. /\ organization'.member = organization.member
        /\ organization'.resource = organization.resource
        /\ organization'.created
    BY <1>2, <2>2 DEF Organization
  <2>4. PICK messages, left :
          /\ messages = <<m>> /\ IsSequence(messages) /\ Came(left, messages)
          /\ Elements(messages) = {m} /\ 1 \in 1 .. Len(messages)
          /\ messages[1] = m
    BY <1>1, <1>2, <2>1, GiveIs, Tuples
  <2>5. /\ IsTelling(m, "OrganizationCreated")
        /\ ~IsTelling(m, "OrganizationMemberAdded")
        /\ ~IsTelling(m, "ResourceAdded")
    BY <2>1 DEF IsTelling, To
  <2>6. \A type : ~IsTelling(Head(inbox), type)
    BY <1>1 DEF IsTelling
  <2>7. MembersFollow'
    BY <1>1, <2>2, <2>3, <2>4, <2>5, <2>6, MembersStay DEF ViewFollows
  <2>8. ResourcesFollow'
    BY <1>1, <2>2, <2>3, <2>4, <2>5, <2>6, ResourcesStay DEF ViewFollows
  <2>9. Tellings("OrganizationCreated")' # {}
    BY <1>2, <2>4, <2>5, TellingGiven
  <2>10. CreatedFollows'
    BY <2>3, <2>9 DEF CreatedFollows
  <2>. QED BY <2>7, <2>8, <2>10 DEF ViewFollows
<1>4. CASE Drop
  BY <1>1, <1>4, OrganizationApart, Tuples DEF Drop
<1>. QED BY <1>3, <1>4 DEF CreateOrganization

LEMMA AddOrganizationMemberShown ==
  ASSUME Known, Known', ViewFollows, AddOrganizationMember
  PROVE  ViewFollows'
<1>0. PICK person : person = received.person
  OBVIOUS
<1>1. /\ inbox # <<>> /\ Head(inbox).to = "Organization"
      /\ person \in Person
  BY <1>0, Took DEF AddOrganizationMember, Sound
<1>2. IsSequence(inbox) /\ IsSequence(inbox') /\ organization \in Organization
  BY DEF Known, TypeOK
<1>3. CASE AddOrganizationMember /\ person \notin Range(organization.member)
  <2>1. PICK m, n :
          /\ Give(<<m, n>>)
          /\ m = To("OrganizationView",
                [type |-> "OrganizationMemberAdded", person |-> person,
                 by |-> received.by])
          /\ n = ToAudit("Organization", TheOrganization, OrganizationVersion,
                         "OrganizationMemberAdded", person)
    BY <1>0, <1>3 DEF AddOrganizationMember
  <2>2. /\ organization' = [organization EXCEPT !.member = Append(@, person)]
        /\ UNCHANGED organizationView
    BY <1>0, <1>3 DEF AddOrganizationMember
  <2>3. /\ organization'.member = Append(organization.member, person)
        /\ organization'.resource = organization.resource
        /\ organization'.created = organization.created
    BY <1>2, <2>2 DEF Organization
  <2>4. PICK messages, left :
          /\ messages = <<m, n>> /\ IsSequence(messages) /\ Came(left, messages)
          /\ Elements(messages) = {m, n} /\ 1 \in 1 .. Len(messages)
          /\ messages[1] = m
          /\ \A j \in 1 .. Len(messages) : j = 1 \/ messages[j] = n
    BY <1>1, <1>2, <2>1, GiveIs, Tuples
  <2>5. /\ IsTelling(m, "OrganizationMemberAdded") /\ m.signal.person = person
        /\ ~IsTelling(m, "ResourceAdded")
        /\ \A type : ~IsTelling(n, type)
    BY <2>1 DEF IsTelling, To, ToAudit
  <2>6. \A type : ~IsTelling(Head(inbox), type)
    BY <1>1 DEF IsTelling
  <2>7. MembersFollow'
    <3>1. /\ organizationView'.member = organizationView.member
          /\ MembersFollow
          /\ \A j \in 1 .. Len(messages) :
               IsTelling(messages[j], "OrganizationMemberAdded") => j = 1
          /\ IsTelling(messages[1], "OrganizationMemberAdded")
          /\ messages[1].signal.person = person
      BY <2>2, <2>4, <2>5 DEF ViewFollows
    <3>. QED BY <1>1, <1>3, <2>3, <2>4, <2>6, <3>1, MemberTold
  <2>8. ResourcesFollow'
    BY <1>1, <2>2, <2>3, <2>4, <2>5, <2>6, ResourcesStay DEF ViewFollows
  <2>9. CreatedFollows'
    BY <1>1, <1>2, <2>2, <2>3, <2>4, <2>6, CreatedStays DEF ViewFollows
  <2>. QED BY <2>7, <2>8, <2>9 DEF ViewFollows
<1>4. CASE Drop
  BY <1>1, <1>4, OrganizationApart, Tuples DEF Drop
<1>. QED BY <1>0, <1>3, <1>4 DEF AddOrganizationMember

LEMMA AddResourceShown ==
  ASSUME Known, Known', ViewFollows, AddResource
  PROVE  ViewFollows'
<1>0. PICK r, name : r = received.resource /\ name = received.name
  OBVIOUS
<1>1. /\ inbox # <<>> /\ Head(inbox).to = "Organization"
      /\ r \in Resource /\ name \in Name
  <2>1. /\ inbox # <<>> /\ Head(inbox) \in Elements(inbox)
        /\ Head(inbox).to = "Organization" /\ Head(inbox).signal = received
        /\ received.type = "AddResource"
        /\ Sound(Head(inbox))
    BY Took DEF AddResource
  <2>. QED BY <1>0, <2>1 DEF Sound
<1>2. IsSequence(inbox) /\ IsSequence(inbox') /\ organization \in Organization
  BY DEF Known, TypeOK
<1>3. ASSUME NEW announced, announced = ResourceAdded(r, name),
             Give(announced), UNCHANGED organizationView,
             organization'.member = organization.member,
             organization'.created = organization.created,
             NEW kept \in Recorded, kept = [id |-> r, name |-> name],
             \/ /\ r \in RecordedIds
                /\ organization'.resource = organization.resource
             \/ /\ r \notin RecordedIds
                /\ organization'.resource = Append(organization.resource, kept)
      PROVE  ViewFollows'
  <2>1. PICK m, n :
          /\ ResourceAdded(r, name) = <<m, n>>
          /\ m.to = "OrganizationView" /\ n.to = "Registration"
          /\ m.signal = n.signal
          /\ m.signal = [type |-> "ResourceAdded", resource |-> r,
                         name |-> name, by |-> received.by]
    BY AnnouncedAre
  <2>2. PICK messages, left :
          /\ messages = <<m, n>> /\ IsSequence(messages) /\ Came(left, messages)
          /\ Elements(messages) = {m, n} /\ 1 \in 1 .. Len(messages)
          /\ messages[1] = m
          /\ \A j \in 1 .. Len(messages) : j = 1 \/ messages[j] = n
    BY <1>1, <1>2, <1>3, <2>1, GiveIs, Tuples
  <2>3. /\ IsTelling(m, "ResourceAdded") /\ m.signal.resource = kept.id
        /\ m.signal.name = kept.name
        /\ ~IsTelling(m, "OrganizationMemberAdded")
        /\ \A type : ~IsTelling(n, type)
    BY <1>3, <2>1 DEF IsTelling
  <2>4. \A type : ~IsTelling(Head(inbox), type)
    BY <1>1 DEF IsTelling
  <2>5. ResourcesFollow'
    <3>1. /\ organizationView'.resource = organizationView.resource
          /\ ResourcesFollow /\ kept.id = r
          /\ \A j \in 1 .. Len(messages) :
               IsTelling(messages[j], "ResourceAdded") => j = 1
          /\ IsTelling(messages[1], "ResourceAdded")
          /\ messages[1].signal.resource = kept.id
          /\ messages[1].signal.name = kept.name
      BY <1>3, <2>2, <2>3 DEF ViewFollows
    <3>. QED BY <1>1, <1>3, <2>2, <2>4, <3>1, ResourceTold
  <2>6. MembersFollow'
    BY <1>1, <1>3, <2>2, <2>3, <2>4, MembersStay DEF ViewFollows
  <2>7. CreatedFollows'
    BY <1>1, <1>2, <1>3, <2>2, <2>4, CreatedStays DEF ViewFollows
  <2>. QED BY <2>5, <2>6, <2>7 DEF ViewFollows
<1>4. PICK announced, kept :
        announced = ResourceAdded(r, name) /\ kept = [id |-> r, name |-> name]
  OBVIOUS
<1>5. kept \in Recorded
  BY <1>1, <1>4 DEF Recorded
<1>6. CASE AlreadyRecorded(r) /\ Give(announced) /\ UNCHANGED entities
  BY <1>3, <1>4, <1>5, <1>6 DEF entities, AlreadyRecorded
<1>7. ASSUME NEW e, e.to = "Registration", Give(<<e>>), UNCHANGED entities
      PROVE  ViewFollows'
  BY <1>1, <1>7, OrganizationApart, Tuples
<1>8. CASE /\ ~AlreadyRecorded(r) /\ Give(announced)
           /\ organization' = [organization EXCEPT
                !.resource = Append(@, [id |-> r, name |-> name])]
           /\ UNCHANGED organizationView
  <2>1. /\ organization'.member = organization.member
        /\ organization'.created = organization.created
        /\ organization'.resource = Append(organization.resource, kept)
    BY <1>2, <1>4, <1>8 DEF Organization
  <2>. QED BY <1>3, <1>4, <1>5, <1>8, <2>1 DEF AlreadyRecorded
<1>. QED BY <1>0, <1>4, <1>6, <1>7, <1>8 DEF AddResource, To

(* The view hears what the inbox tells first.                              *)
LEMMA ViewHead ==
  ASSUME Known, NEW types, Receives("OrganizationView", types), Give(<<>>),
         Known'
  PROVE  /\ inbox # <<>> /\ Head(inbox).to = "OrganizationView"
         /\ Head(inbox) = inbox[1] /\ Head(inbox).signal = received
         /\ 1 \in 1 .. Len(inbox) /\ Sound(Head(inbox))
         /\ received.type \in types
         /\ \A type : /\ IsTelling(Head(inbox), type) <=> received.type = type
                      /\ 1 \in Tellings(type) <=> received.type = type
         /\ \E left \in {0, 1} : Came(left, <<>>)
         /\ IsSequence(inbox) /\ IsSequence(inbox')
<1>1. /\ inbox # <<>> /\ Head(inbox).to = "OrganizationView"
      /\ Head(inbox).signal = received /\ Sound(Head(inbox))
      /\ received.type \in types
  BY Took
<1>2. IsSequence(inbox) /\ IsSequence(inbox')
  BY DEF Known
<1>3. Head(inbox) = inbox[1] /\ 1 \in 1 .. Len(inbox)
  BY <1>1, <1>2, HeadTailProperties, EmptySeq, LenProperties DEF IsSequence
<1>4. \E left \in {0, 1} : Came(left, <<>>)
  BY <1>1, <1>2, GiveIs, Tuples
<1>5. \A type : /\ IsTelling(Head(inbox), type) <=> received.type = type
                /\ 1 \in Tellings(type) <=> received.type = type
  BY <1>1, <1>3 DEF IsTelling, Tellings
<1>. QED BY <1>1, <1>2, <1>3, <1>4, <1>5

LEMMA ShowOrganizationShown ==
  ASSUME Known, Known', ViewFollows, ShowOrganization
  PROVE  ViewFollows'
<1>1. /\ inbox # <<>> /\ received.type = "OrganizationCreated"
      /\ Head(inbox).signal = received /\ Sound(Head(inbox))
      /\ Head(inbox).to = "OrganizationView"
      /\ \A type : IsTelling(Head(inbox), type) <=> received.type = type
  BY ViewHead DEF ShowOrganization
<1>2. PICK left \in {0, 1} : Came(left, <<>>)
  BY ViewHead DEF ShowOrganization
<1>3. /\ organizationView'.created
      /\ organizationView'.member = organizationView.member
      /\ organizationView'.resource = organizationView.resource
      /\ UNCHANGED organization
  BY DEF ShowOrganization, Known, TypeOK, Organization
<1>4. organization.created
  BY <1>1 DEF Sound
<1>5. CreatedFollows'
  BY <1>3, <1>4 DEF CreatedFollows
<1>6. MembersFollow'
  BY <1>1, <1>2, <1>3, MembersStay, Tuples DEF ViewFollows
<1>7. ResourcesFollow'
  BY <1>1, <1>2, <1>3, ResourcesStay, Tuples DEF ViewFollows
<1>. QED BY <1>5, <1>6, <1>7 DEF ViewFollows

LEMMA ShowMemberShown ==
  ASSUME Known, Known', ViewFollows, ShowMember
  PROVE  ViewFollows'
<1>0. PICK person : person = received.person
  OBVIOUS
<1>1. /\ inbox # <<>> /\ received.type = "OrganizationMemberAdded"
      /\ Head(inbox) = inbox[1] /\ Head(inbox).signal = received
      /\ Head(inbox).to = "OrganizationView" /\ Sound(Head(inbox))
      /\ \A type : /\ IsTelling(Head(inbox), type) <=> received.type = type
                   /\ 1 \in Tellings(type) <=> received.type = type
      /\ IsSequence(inbox) /\ IsSequence(inbox')
  BY ViewHead DEF ShowMember
<1>2. PICK left \in {0, 1} : Came(left, <<>>)
  BY ViewHead DEF ShowMember
<1>3. /\ organizationView.member \in Seq(Person)
      /\ organization.member \in Seq(Person)
  BY DEF Known, TypeOK, Organization
<1>4. /\ organizationView'.created = organizationView.created
      /\ organizationView'.member =
           IF person \in Range(organizationView.member)
           THEN organizationView.member
           ELSE Append(organizationView.member, person)
      /\ organizationView'.resource = organizationView.resource
      /\ UNCHANGED organization
  BY <1>0 DEF ShowMember, Known, TypeOK, Organization
<1>5. person \in Range(organization.member) /\ person \in Person
  BY <1>0, <1>1, Taken DEF Sound, Known
<1>6. CreatedFollows'
  BY <1>1, <1>2, <1>4, CreatedStays, Tuples DEF ViewFollows
<1>7. ResourcesFollow'
  BY <1>1, <1>2, <1>4, ResourcesStay, Tuples DEF ViewFollows
<1>8. /\ DOMAIN MembersTold = Tellings("OrganizationMemberAdded")
      /\ DOMAIN MembersTold' = Tellings("OrganizationMemberAdded")'
      /\ \A i \in DOMAIN MembersTold : MembersTold[i] = inbox[i].signal.person
  BY DEF MembersTold
<1>9. PICK told, later, shown, all, then :
        /\ told = MembersTold /\ later = MembersTold'
        /\ shown = organizationView.member /\ all = organization.member
        /\ then = organizationView'.member
  OBVIOUS
<1>10. Shifted(told, later, left) /\ Follows(shown, all, told, MemberKey)
  BY <1>1, <1>2, <1>9, ToldMoves, Tuples DEF ViewFollows, MembersFollow
<1>11. 1 \in DOMAIN told /\ told[1] = person
  BY <1>0, <1>1, <1>8, <1>9
<1>12. \A i \in DOMAIN later :
         i + left \in DOMAIN told /\ later[i] = told[i + left]
  <2>1. Len(<<>>) = 0
    OBVIOUS
  <2>2. \A i \in Tellings("OrganizationMemberAdded")' :
          /\ i + left \in Tellings("OrganizationMemberAdded")
          /\ inbox'[i] = inbox[i + left]
    BY <1>1, <1>2, <2>1, TellingsMove, Tuples
  <2>. QED BY <1>1, <1>2, <1>8, <1>9, <2>2, ToldMoves, Tuples
<1>13. person \in Range(shown) <=>
         \E k \in 1 .. Len(shown) : MemberKey[shown[k]] = MemberKey[person]
  <2>1. /\ DOMAIN shown = 1 .. Len(shown)
        /\ \A k \in 1 .. Len(shown) : shown[k] \in Person
    BY <1>3, <1>9, LenProperties, ElementOfSeq
  <2>. QED BY <1>5, <2>1 DEF Range, MemberKey
<1>14. Follows(then, all, later, MemberKey)
  <2>1. Showing(shown, told[1], then, MemberKey)
    BY <1>4, <1>9, <1>11, <1>13 DEF Showing
  <2>2. /\ shown \in Seq(Person) /\ all \in Seq(Person)
        /\ 1 \in DOMAIN told /\ told[1] \in Person
    BY <1>3, <1>5, <1>9, <1>11
  <2>. QED BY <1>10, <1>12, <2>1, <2>2, FollowsHears
<1>15. MembersFollow'
  BY <1>4, <1>9, <1>14 DEF MembersFollow
<1>. QED BY <1>6, <1>7, <1>15 DEF ViewFollows

LEMMA ShowResourceShown ==
  ASSUME Known, Known', ViewFollows, ShowResource
  PROVE  ViewFollows'
<1>0. PICK kept : kept = [id |-> received.resource, name |-> received.name]
  OBVIOUS
<1>1. /\ inbox # <<>> /\ received.type = "ResourceAdded"
      /\ Head(inbox) = inbox[1] /\ Head(inbox).signal = received
      /\ Head(inbox).to = "OrganizationView" /\ Sound(Head(inbox))
      /\ \A type : /\ IsTelling(Head(inbox), type) <=> received.type = type
                   /\ 1 \in Tellings(type) <=> received.type = type
      /\ IsSequence(inbox) /\ IsSequence(inbox')
  BY ViewHead DEF ShowResource
<1>2. PICK left \in {0, 1} : Came(left, <<>>)
  BY ViewHead DEF ShowResource
<1>3. /\ organizationView.resource \in Seq(Recorded)
      /\ organization.resource \in Seq(Recorded)
  BY DEF Known, TypeOK, Organization
<1>4. /\ organizationView'.created = organizationView.created
      /\ organizationView'.resource =
           IF \E e \in Range(organizationView.resource) : e.id = kept.id
           THEN organizationView.resource
           ELSE Append(organizationView.resource, kept)
      /\ organizationView'.member = organizationView.member
      /\ UNCHANGED organization
  BY <1>0 DEF ShowResource, Known, TypeOK, Organization
<1>5. kept \in Recorded
  <2>1. received.resource \in RecordedIds /\ received.name \in Name
    BY <1>1 DEF Sound
  <2>. QED BY <1>0, <2>1, Taken DEF Known, Recorded
<1>6. CreatedFollows'
  BY <1>1, <1>2, <1>4, CreatedStays, Tuples DEF ViewFollows
<1>7. MembersFollow'
  BY <1>1, <1>2, <1>4, MembersStay, Tuples DEF ViewFollows
<1>8. /\ DOMAIN ResourcesTold = Tellings("ResourceAdded")
      /\ DOMAIN ResourcesTold' = Tellings("ResourceAdded")'
      /\ \A i \in DOMAIN ResourcesTold : ResourcesTold[i] =
           [id |-> inbox[i].signal.resource, name |-> inbox[i].signal.name]
  BY DEF ResourcesTold
<1>9. PICK told, later, shown, all, then :
        /\ told = ResourcesTold /\ later = ResourcesTold'
        /\ shown = organizationView.resource /\ all = organization.resource
        /\ then = organizationView'.resource
  OBVIOUS
<1>10. Shifted(told, later, left) /\ Follows(shown, all, told, ResourceKey)
  BY <1>1, <1>2, <1>9, ToldMoves, Tuples DEF ViewFollows, ResourcesFollow
<1>11. 1 \in DOMAIN told /\ told[1] = kept
  BY <1>0, <1>1, <1>8, <1>9
<1>12. \A i \in DOMAIN later :
         i + left \in DOMAIN told /\ later[i] = told[i + left]
  <2>1. Len(<<>>) = 0
    OBVIOUS
  <2>2. \A i \in Tellings("ResourceAdded")' :
          /\ i + left \in Tellings("ResourceAdded")
          /\ inbox'[i] = inbox[i + left]
    BY <1>1, <1>2, <2>1, TellingsMove, Tuples
  <2>. QED BY <1>1, <1>2, <1>8, <1>9, <2>2, ToldMoves, Tuples
<1>13. (\E e \in Range(shown) : e.id = kept.id) <=>
         \E k \in 1 .. Len(shown) : ResourceKey[shown[k]] = ResourceKey[kept]
  <2>1. /\ DOMAIN shown = 1 .. Len(shown)
        /\ \A k \in 1 .. Len(shown) : shown[k] \in Recorded
    BY <1>3, <1>9, LenProperties, ElementOfSeq
  <2>2. \A k \in 1 .. Len(shown) : ResourceKey[shown[k]] = shown[k].id
    BY <2>1 DEF ResourceKey
  <2>. QED BY <1>5, <2>1, <2>2 DEF Range, ResourceKey
<1>14. Follows(then, all, later, ResourceKey)
  <2>1. Showing(shown, told[1], then, ResourceKey)
    BY <1>4, <1>9, <1>11, <1>13 DEF Showing
  <2>2. /\ shown \in Seq(Recorded) /\ all \in Seq(Recorded)
        /\ 1 \in DOMAIN told /\ told[1] \in Recorded
    BY <1>3, <1>5, <1>9, <1>11
  <2>. QED BY <1>10, <1>12, <2>1, <2>2, FollowsHears
<1>15. ResourcesFollow'
  BY <1>4, <1>9, <1>14 DEF ResourcesFollow
<1>. QED BY <1>6, <1>7, <1>15 DEF ViewFollows

(* The initial state, and each step, keeps the view following.             *)
LEMMA ViewFollowsInit == Init => ViewFollows
<1> SUFFICES ASSUME Init PROVE ViewFollows
  OBVIOUS
<1>1. Len(inbox) = 0
  BY DEF Init
<1>2. \A type : Tellings(type) = {}
  BY <1>1 DEF Tellings
<1>3. DOMAIN MembersTold = {} /\ DOMAIN ResourcesTold = {}
  BY <1>2 DEF MembersTold, ResourcesTold
<1>4. /\ Len(organization.member) = 0 /\ Len(organizationView.member) = 0
      /\ Len(organization.resource) = 0 /\ Len(organizationView.resource) = 0
      /\ ~organization.created /\ ~organizationView.created
  BY DEF Init, NewOrganization
<1>. QED BY <1>3, <1>4 DEF ViewFollows, CreatedFollows, MembersFollow,
                           ResourcesFollow, Follows

LEMMA ViewStep ==
  ASSUME Known, Known', ViewFollows, [Next]_vars
  PROVE  ViewFollows'
<1>1. CASE UNCHANGED vars
  <2>1. /\ inbox' = inbox /\ organization' = organization
        /\ organizationView' = organizationView
    BY <1>1 DEF vars, entities
  <2>2. \A type : Tellings(type)' = Tellings(type)
    BY <2>1 DEF Tellings, IsTelling
  <2>3. MembersTold' = MembersTold /\ ResourcesTold' = ResourcesTold
    BY <2>1, <2>2 DEF MembersTold, ResourcesTold
  <2>. QED BY <2>1, <2>2, <2>3 DEF ViewFollows, CreatedFollows, MembersFollow,
                                   ResourcesFollow
<1>2. CASE OrganizationActs
  BY <1>2, CreateOrganizationShown, AddOrganizationMemberShown,
     AddResourceShown DEF OrganizationActs
<1>3. CASE ViewActs
  BY <1>3, ShowOrganizationShown, ShowMemberShown, ShowResourceShown
     DEF ViewActs
<1>4. CASE RegistrationActs
  BY <1>4, RegistrationSpeaks, ViewApart
<1>5. CASE ResourceActs
  BY <1>5, ResourceSpeaks, ViewApart
<1>6. CASE CatalogActs
  BY <1>6, CatalogSpeaks, ViewApart
<1>7. CASE RecordAction
  BY <1>7, TrailSpeaks, ViewApart
<1>8. ASSUME NEW command \in ClientCommand, Post(command)
      PROVE  ViewFollows'
  BY <1>8, ClientSpeaks, ViewApart
<1>. QED BY <1>1, <1>2, <1>3, <1>4, <1>5, <1>6, <1>7, <1>8, NextIs

(* The organization's view follows the organization, in every reachable    *)
(* state (OrganizationProjection).                                         *)
THEOREM ViewFollowing == Spec => []ViewFollows
<1>1. Init => ViewFollows
  BY ViewFollowsInit
<1>2. Known /\ Known' /\ ViewFollows /\ [Next]_vars => ViewFollows'
  BY ViewStep
<1>. QED BY <1>1, <1>2, Knowledge, PTL DEF Spec

(* Once all messages are delivered, members see the organization as it is: *)
(* each member and each resource once, in the order in which they came, in *)
(* spite of resources that are announced more than once                    *)
(* (OrganizationViewProjection).                                           *)
THEOREM MembersSeeTheOrganization == Spec => []OrganizationViewAgrees
<1>1. Known /\ ViewFollows => OrganizationViewAgrees
  <2> SUFFICES ASSUME Known, ViewFollows, inbox = <<>>
               PROVE  organizationView = organization
    BY DEF OrganizationViewAgrees
  <2>1. Len(inbox) = 0
    OBVIOUS
  <2>2. \A type : Tellings(type) = {}
    BY <2>1 DEF Tellings
  <2>3. DOMAIN MembersTold = {} /\ DOMAIN ResourcesTold = {}
    BY <2>2 DEF MembersTold, ResourcesTold
  <2>4. ASSUME NEW S, NEW shown \in Seq(S), NEW all \in Seq(S), NEW told,
               NEW key, DOMAIN told = {}, Follows(shown, all, told, key)
        PROVE  shown = all
    <3>1. Len(shown) \in Nat /\ Len(all) \in Nat
      BY LenProperties
    <3>2. ~(Len(all) > Len(shown))
      <4>1. Len(all) > Len(shown) => Len(all) \in 1 .. Len(all)
        BY <3>1
      <4>. QED BY <2>4, <4>1 DEF Follows
    <3>3. Len(shown) = Len(all) /\ \A k \in 1 .. Len(all) : shown[k] = all[k]
      BY <2>4, <3>1, <3>2 DEF Follows
    <3>. QED BY <3>3, SeqEqual
  <2>5. organization \in Organization /\ organizationView \in Organization
    BY DEF Known, TypeOK
  <2>6. organizationView.member = organization.member
    BY <2>3, <2>4, <2>5 DEF Organization, ViewFollows, MembersFollow
  <2>7. organizationView.resource = organization.resource
    BY <2>3, <2>4, <2>5 DEF Organization, ViewFollows, ResourcesFollow
  <2>8. organizationView.created = organization.created
    BY <2>2, <2>5 DEF ViewFollows, CreatedFollows, Organization
  <2>. QED BY <2>5, <2>6, <2>7, <2>8 DEF Organization
<1>. QED BY <1>1, Knowledge, ViewFollowing, PTL

----------------------------------------------------------------------------
(* The registrations, of resources that clients register under one name    *)
(* each.  A resource loses its name to another that is recorded with it,   *)
(* and only such a resource is ever deleted.  One that exists is recorded, *)
(* or a message says what happens to it next.                              *)

OneNameEach ==
  \A c, d \in ClientCommand \cap RegisterCommand :
    c.resource = d.resource => c.name = d.name

Lost(r) ==
  /\ registration[r].name \in Name
  /\ \E kept \in Range(organization.resource) :
       /\ kept.id # r
       /\ Normalized[kept.name] = Normalized[registration[r].name]

NamesFollow ==
  \A r \in Resource :
    /\ registration[r].name # NoName =>
         \E c \in ClientCommand \cap RegisterCommand :
           c.resource = r /\ c.name = registration[r].name
    /\ resource[r].name # NoName => resource[r].name = registration[r].name

KeptAreNamed ==
  \A kept \in Range(organization.resource) :
    /\ kept.name = registration[kept.id].name
    /\ resource[kept.id].name # NoName

NamesReserved ==
  \A kept, other \in Range(organization.resource) :
    kept.id = other.id \/ Normalized[kept.name] = Normalized[other.name] =>
      kept = other

DeletedAreLost == \A r \in Resource : resource[r].deleted => Lost(r)

Staged(m) ==
  LET s == m.signal IN
  /\ m.to = "Registration" =>
       /\ s.type = "RegisterResource" => s \in ClientCommand \cap RegisterCommand
       /\ s.type = "ResourceCreated" => resource[s.resource].name # NoName
       /\ s.type = "OrganizationResourceNameAlreadyUsed" => Lost(s.resource)
  /\ m.to = "Resource" =>
       /\ s.type = "CreateResource" => s.name = registration[s.resource].name
       /\ s.type = "DeleteResource" => Lost(s.resource)
  /\ m.to = "Organization" /\ s.type = "AddResource" =>
       /\ s.name = registration[s.resource].name
       /\ resource[s.resource].name # NoName

(* The messages that decide what becomes of a resource that was created.   *)
IsStage(m, r) ==
  /\ m.signal.resource = r
  /\ \/ /\ m.to = "Registration"
        /\ m.signal.type \in {"ResourceCreated",
                              "OrganizationResourceNameAlreadyUsed"}
     \/ m.to = "Organization" /\ m.signal.type = "AddResource"
     \/ m.to = "Resource" /\ m.signal.type = "DeleteResource"

Settling(r) ==
  Exists(r) =>
    r \in RecordedIds \/ \E m \in Elements(inbox) : IsStage(m, r)

EntitiesAgree ==
  NamesFollow /\ KeptAreNamed /\ NamesReserved /\ DeletedAreLost

Saga ==
  /\ EntitiesAgree
  /\ \A m \in Elements(inbox) : Staged(m)
  /\ \A r \in Resource : Settling(r)

(* What a step keeps of a registration.                                    *)
Steady ==
  /\ Range(organization.resource) \subseteq Range(organization'.resource)
  /\ \A r \in Resource :
       /\ registration[r].name # NoName =>
            registration'[r].name = registration[r].name
       /\ resource[r].name # NoName => resource'[r].name = resource[r].name

(* A lost name stays lost, and a staged message staged.                    *)
LEMMA LostStays ==
  ASSUME Steady, NEW r \in Resource, Lost(r)
  PROVE  Lost(r)'
<1>1. registration'[r].name = registration[r].name
  BY Names DEF Steady, Lost
<1>. QED BY <1>1 DEF Steady, Lost

LEMMA StagedStays ==
  ASSUME Steady, NEW m, Sound(m), Staged(m)
  PROVE  Staged(m)'
<1>1. CASE m.to = "Registration"
  <2>1. m.signal.resource \in Resource
    BY <1>1 DEF Sound
  <2>. QED BY <1>1, <2>1, LostStays DEF Staged, Steady
<1>2. CASE m.to = "Resource"
  <2>1. /\ m.signal.resource \in Resource
        /\ m.signal.type = "CreateResource" =>
             registration[m.signal.resource].name # NoName
    BY <1>2, Names DEF Sound
  <2>. QED BY <1>2, <2>1, LostStays DEF Staged, Steady
<1>3. CASE m.to = "Organization" /\ m.signal.type = "AddResource"
  <2>1. /\ m.signal.resource \in Resource
        /\ registration[m.signal.resource].name # NoName
    BY <1>3, Names DEF Sound
  <2>. QED BY <1>3, <2>1 DEF Staged, Steady
<1>. QED BY <1>1, <1>2, <1>3 DEF Staged

(* A step that says what it settles, or leaves the stages as they were.    *)
LEMMA SagaGoesOn ==
  ASSUME Known, Known', Saga, Steady, EntitiesAgree',
         NEW messages, NEW left, IsSequence(messages), Came(left, messages),
         \A m \in Elements(messages) : Staged(m)',
         \A r \in Resource : Exists(r)' =>
           \/ r \in RecordedIds'
           \/ \E m \in Elements(messages) : IsStage(m, r)
           \/ /\ Exists(r)
              /\ left = 0 \/ (inbox # <<>> /\ ~IsStage(Head(inbox), r))
  PROVE  Saga'
<1>1. /\ Elements(inbox') \subseteq Elements(inbox) \cup Elements(messages)
      /\ Elements(messages) \subseteq Elements(inbox')
      /\ left = 0 => Elements(inbox) \subseteq Elements(inbox')
      /\ inbox # <<>> =>
           Elements(inbox) \subseteq Elements(inbox') \cup {Head(inbox)}
  BY CameElements DEF Known
<1>2. \A m \in Elements(inbox) : Staged(m)'
  BY StagedStays DEF Known, Saga
<1>3. \A m \in Elements(inbox') : Staged(m)'
  BY <1>1, <1>2
<1>4. RecordedIds \subseteq RecordedIds'
  BY DEF RecordedIds, Steady
<1>5. ASSUME NEW r \in Resource, Exists(r)'
      PROVE  r \in RecordedIds' \/ \E m \in Elements(inbox') : IsStage(m, r)
  <2>1. CASE \E m \in Elements(messages) : IsStage(m, r)
    BY <1>1, <2>1
  <2>2. CASE /\ Exists(r)
             /\ left = 0 \/ (inbox # <<>> /\ ~IsStage(Head(inbox), r))
    <3>1. r \in RecordedIds \/ \E m \in Elements(inbox) : IsStage(m, r)
      BY <2>2 DEF Saga, Settling
    <3>. QED BY <1>1, <1>4, <2>2, <3>1
  <2>. QED BY <1>5, <2>1, <2>2
<1>6. \A r \in Resource : Settling(r)'
  BY <1>5 DEF Settling, IsStage
<1>. QED BY <1>3, <1>6 DEF Saga

(* A step that changes nothing of what the names and the outcome of a      *)
(* registration depend on.                                                 *)
Idle ==
  /\ organization'.resource = organization.resource
  /\ \A r \in Resource :
       /\ registration'[r].name = registration[r].name
       /\ resource'[r].name = resource[r].name
       /\ resource'[r].deleted = resource[r].deleted

(* A step that changes nothing of the registrations.                       *)
LEMMA IdleKeeps ==
  ASSUME Known, Saga, Idle
  PROVE  /\ Steady /\ EntitiesAgree' /\ RecordedIds' = RecordedIds
         /\ \A r \in Resource : Exists(r)' <=> Exists(r)
<1>1. Steady
  BY DEF Steady, Idle
<1>2. RecordedIds' = RecordedIds
  BY DEF RecordedIds, Idle
<1>3. \A r \in Resource : Exists(r)' <=> Exists(r)
  BY DEF Exists, Idle
<1>4. EntitiesAgree'
  <2>1. NamesFollow'
    BY DEF NamesFollow, Idle, Saga, EntitiesAgree
  <2>2. KeptAreNamed'
    <3>1. \A kept \in Range(organization.resource) : kept.id \in Resource
      BY Taken DEF Recorded, Known
    <3>. QED BY <3>1 DEF KeptAreNamed, Idle, Saga, EntitiesAgree
  <2>3. NamesReserved'
    BY DEF NamesReserved, Idle, Saga, EntitiesAgree
  <2>4. DeletedAreLost'
    BY <1>1, LostStays DEF DeletedAreLost, Idle, Saga, EntitiesAgree
  <2>. QED BY <2>1, <2>2, <2>3, <2>4 DEF EntitiesAgree
<1>. QED BY <1>1, <1>2, <1>3, <1>4

LEMMA SagaIdles ==
  ASSUME Known, Known', Saga, Idle, inbox # <<>>,
         NEW messages, IsSequence(messages), Give(messages),
         \A m \in Elements(messages) : Staged(m) /\ Sound(m),
         \A r \in Resource : IsStage(Head(inbox), r) =>
           \/ r \in RecordedIds
           \/ \E m \in Elements(messages) : IsStage(m, r)
  PROVE  Saga'
<1>1. PICK left \in {0, 1} : Came(left, messages)
  BY GiveIs DEF Known
<1>2. /\ Steady /\ EntitiesAgree' /\ RecordedIds' = RecordedIds
      /\ \A r \in Resource : Exists(r)' <=> Exists(r)
  BY IdleKeeps
<1>3. \A m \in Elements(messages) : Staged(m)'
  BY <1>2, StagedStays
<1>4. \A r \in Resource : Exists(r)' =>
        \/ r \in RecordedIds'
        \/ \E m \in Elements(messages) : IsStage(m, r)
        \/ Exists(r) /\ ~IsStage(Head(inbox), r)
  BY <1>2
<1>. QED BY <1>1, <1>2, <1>3, <1>4, SagaGoesOn

(* A step that has no part in a registration.                              *)
LEMMA SagaApart ==
  ASSUME Known, Known', Saga, Idle,
         NEW messages, NEW left, IsSequence(messages), Came(left, messages),
         \A m \in Elements(messages) : Staged(m)',
         left = 0 \/ (inbox # <<>> /\ \A r \in Resource : ~IsStage(Head(inbox), r))
  PROVE  Saga'
<1>1. /\ Steady /\ EntitiesAgree'
      /\ \A r \in Resource : Exists(r)' <=> Exists(r)
  BY IdleKeeps
<1>. QED BY <1>1, SagaGoesOn

(* Each handler keeps the registrations going.                             *)
LEMMA RegisterResourceGoesOn ==
  ASSUME OneNameEach, Known, Known', Saga, RegisterResource
  PROVE  Saga'
<1>0. PICK r, name : r = received.resource /\ name = received.name
  OBVIOUS
<1>1. /\ inbox # <<>> /\ Head(inbox) \in Elements(inbox)
      /\ Head(inbox).to = "Registration" /\ Head(inbox).signal = received
      /\ received.type = "RegisterResource"
      /\ r \in Resource /\ name \in Name
  BY <1>0, Took DEF RegisterResource, Sound
<1>2. received \in ClientCommand \cap RegisterCommand
  BY <1>1 DEF Saga, Staged
<1>3. /\ registration \in [Resource -> Described] /\ IsSequence(inbox)
      /\ NoName \notin Name
  BY Names DEF Known, TypeOK
<1>4. PICK m : /\ Give(<<m>>)
               /\ m = To("Registration",
                         About("ResourceRegistrationRequested", r))
  BY <1>0 DEF RegisterResource
<1>5. PICK left \in {0, 1} : Came(left, <<m>>)
  BY <1>1, <1>3, <1>4, GiveIs, Tuples
<1>6. /\ UNCHANGED <<organization, resource>>
      /\ registration'[r].name = name
      /\ \A o \in Resource : o # r => registration'[o] = registration[o]
  BY <1>0, <1>1, <1>3 DEF RegisterResource, Described
<1>7. registration[r].name # NoName => registration[r].name = name
  <2>1. registration[r].name # NoName =>
          \E c \in ClientCommand \cap RegisterCommand :
            c.resource = r /\ c.name = registration[r].name
    BY <1>1 DEF Saga, EntitiesAgree, NamesFollow
  <2>. QED BY <1>0, <1>2, <2>1 DEF OneNameEach
<1>8. Steady
  BY <1>6, <1>7 DEF Steady
<1>9. NamesFollow'
  <2>1. \A o \in Resource : o # r =>
          /\ registration'[o].name # NoName =>
               \E c \in ClientCommand \cap RegisterCommand :
                 c.resource = o /\ c.name = registration'[o].name
          /\ resource'[o].name # NoName =>
               resource'[o].name = registration'[o].name
    BY <1>6 DEF Saga, EntitiesAgree, NamesFollow
  <2>2. \E c \in ClientCommand \cap RegisterCommand :
          c.resource = r /\ c.name = registration'[r].name
    BY <1>0, <1>2, <1>6
  <2>3. resource'[r].name # NoName => resource'[r].name = registration'[r].name
    BY <1>1, <1>6, <1>7 DEF Saga, EntitiesAgree, NamesFollow
  <2>. QED BY <2>1, <2>2, <2>3 DEF NamesFollow
<1>10. KeptAreNamed'
  <2>1. \A kept \in Range(organization.resource) :
          kept.id \in Resource /\ kept.name # NoName
    BY <1>3, Taken DEF Recorded, Known
  <2>. QED BY <1>6, <1>8, <2>1 DEF KeptAreNamed, Steady, Saga, EntitiesAgree
<1>11. NamesReserved'
  BY <1>6 DEF NamesReserved, Saga, EntitiesAgree
<1>12. DeletedAreLost'
  BY <1>6, <1>8, LostStays DEF DeletedAreLost, Saga, EntitiesAgree
<1>13. Staged(m)'
  BY <1>4 DEF Staged, To, About
<1>14. \A o \in Resource : ~IsStage(Head(inbox), o)
  BY <1>1 DEF IsStage
<1>15. \A o \in Resource : Exists(o)' => Exists(o)
  BY <1>6 DEF Exists
<1>16. EntitiesAgree'
  BY <1>9, <1>10, <1>11, <1>12 DEF EntitiesAgree
<1>. QED BY <1>1, <1>5, <1>8, <1>13, <1>14, <1>15, <1>16, SagaGoesOn, Tuples

LEMMA CreateResourceGoesOn ==
  ASSUME Known, Known', Saga, CreateResource
  PROVE  Saga'
<1>0. PICK r, name : r = received.resource /\ name = received.name
  OBVIOUS
<1>1. /\ inbox # <<>> /\ Head(inbox) \in Elements(inbox)
      /\ Head(inbox).to = "Resource" /\ Head(inbox).signal = received
      /\ received.type = "CreateResource"
      /\ r \in Resource /\ name \in Name
      /\ registration[r].name \in Name /\ received.by \in Person
  <2>1. /\ inbox # <<>> /\ Head(inbox) \in Elements(inbox)
        /\ Head(inbox).to = "Resource" /\ Head(inbox).signal = received
        /\ received.type = "CreateResource"
        /\ Sound(Head(inbox))
    BY Took DEF CreateResource
  <2>. QED BY <1>0, <2>1 DEF Sound
<1>2. name = registration[r].name
  BY <1>0, <1>1 DEF Saga, Staged
<1>3. /\ resource \in [Resource -> Offered] /\ IsSequence(inbox)
      /\ NoName \notin Name
  BY Names DEF Known, TypeOK
<1>4. \A o \in Resource : ~IsStage(Head(inbox), o)
  BY <1>1 DEF IsStage
<1>5. CASE CreateResource /\ resource[r].name = NoName
  <2>1. PICK m, n :
          /\ Give(<<m, n>>)
          /\ m = To("Registration", Naming("ResourceCreated", r, name))
          /\ n = To("Catalog", Naming("ResourceCreated", r, name))
    BY <1>0, <1>5 DEF CreateResource
  <2>2. PICK left \in {0, 1} : Came(left, <<m, n>>)
    BY <1>1, <1>3, <2>1, GiveIs, Tuples
  <2>3. /\ UNCHANGED <<organization, registration>>
        /\ resource'[r].name = name
        /\ resource'[r].deleted = resource[r].deleted
        /\ \A o \in Resource : o # r => resource'[o] = resource[o]
    BY <1>0, <1>1, <1>3, <1>5 DEF CreateResource, Offered
  <2>4. Steady
    BY <1>5, <2>3 DEF Steady
  <2>5. NamesFollow'
    BY <1>2, <2>3 DEF NamesFollow, Saga, EntitiesAgree
  <2>6. KeptAreNamed'
    <3>1. \A kept \in Range(organization.resource) : kept.id \in Resource
      BY Taken DEF Recorded, Known
    <3>. QED BY <1>1, <1>3, <2>3, <3>1
             DEF KeptAreNamed, Saga, EntitiesAgree
  <2>7. NamesReserved'
    BY <2>3 DEF NamesReserved, Saga, EntitiesAgree
  <2>8. DeletedAreLost'
    BY <2>3, <2>4, LostStays DEF DeletedAreLost, Saga, EntitiesAgree
  <2>9. Staged(m)' /\ Staged(n)'
    BY <1>1, <1>3, <2>1, <2>3 DEF Staged, To, Naming
  <2>10. IsStage(m, r)
    BY <2>1 DEF IsStage, To, Naming
  <2>11. \A o \in Resource : o # r /\ Exists(o)' => Exists(o)
    BY <2>3 DEF Exists
  <2>12. EntitiesAgree'
    BY <2>5, <2>6, <2>7, <2>8 DEF EntitiesAgree
  <2>13. PICK messages :
           /\ messages = <<m, n>> /\ IsSequence(messages)
           /\ Elements(messages) = {m, n}
    BY Tuples
  <2>14. \A e \in Elements(messages) : Staged(e)'
    BY <2>9, <2>13
  <2>15. \A o \in Resource : Exists(o)' =>
           \/ \E e \in Elements(messages) : IsStage(e, o)
           \/ Exists(o) /\ ~IsStage(Head(inbox), o)
    BY <1>4, <2>10, <2>11, <2>13
  <2>. QED BY <1>1, <2>2, <2>4, <2>12, <2>13, <2>14, <2>15, SagaGoesOn
<1>6. CASE CreateResource /\ resource[r].name # NoName
  <2>1. PICK m :
          /\ Give(<<m>>)
          /\ m = To("Registration", About("ResourceAlreadyExists", r))
    BY <1>0, <1>6 DEF CreateResource
  <2>2. Idle
    BY <1>0, <1>6 DEF CreateResource, Idle, entities
  <2>3. Staged(m) /\ Sound(m)
    BY <1>1, <2>1 DEF Staged, Sound, To, About
  <2>. QED BY <1>1, <1>4, <2>1, <2>2, <2>3, SagaIdles, Tuples
<1>. QED BY <1>5, <1>6

LEMMA DeleteResourceGoesOn ==
  ASSUME Known, Known', Saga, DeleteResource
  PROVE  Saga'
<1>0. PICK r : r = received.resource
  OBVIOUS
<1>1. /\ inbox # <<>> /\ Head(inbox) \in Elements(inbox)
      /\ Head(inbox).to = "Resource" /\ Head(inbox).signal = received
      /\ received.type = "DeleteResource" /\ r \in Resource
  BY <1>0, Took DEF DeleteResource, Sound
<1>2. Lost(r)
  BY <1>0, <1>1 DEF Saga, Staged
<1>3. resource \in [Resource -> Offered] /\ IsSequence(inbox)
  BY DEF Known, TypeOK
<1>4. PICK m, n : /\ Give(<<m, n>>)
                  /\ m = To("Registration", About("ResourceDeleted", r))
                  /\ n = To("Catalog", About("ResourceDeleted", r))
  BY <1>0 DEF DeleteResource
<1>5. PICK left \in {0, 1} : Came(left, <<m, n>>)
  BY <1>1, <1>3, <1>4, GiveIs, Tuples
<1>6. /\ UNCHANGED <<organization, registration>>
      /\ resource'[r].deleted
      /\ \A o \in Resource : /\ resource'[o].name = resource[o].name
                             /\ o # r => resource'[o] = resource[o]
  BY <1>0, <1>1, <1>3 DEF DeleteResource, Offered
<1>7. Steady
  BY <1>6 DEF Steady
<1>8. NamesFollow'
  BY <1>6 DEF NamesFollow, Saga, EntitiesAgree
<1>9. KeptAreNamed'
  <2>1. \A kept \in Range(organization.resource) : kept.id \in Resource
    BY Taken DEF Recorded, Known
  <2>. QED BY <1>6, <2>1 DEF KeptAreNamed, Saga, EntitiesAgree
<1>10. NamesReserved'
  BY <1>6 DEF NamesReserved, Saga, EntitiesAgree
<1>11. DeletedAreLost'
  BY <1>1, <1>2, <1>6, <1>7, LostStays DEF DeletedAreLost, Saga, EntitiesAgree
<1>12. Staged(m)' /\ Staged(n)'
  BY <1>4 DEF Staged, To, About
<1>13. ASSUME NEW o \in Resource, Exists(o)'
       PROVE  Exists(o) /\ ~IsStage(Head(inbox), o)
  <2>1. o # r
    BY <1>6, <1>13 DEF Exists
  <2>2. ~IsStage(Head(inbox), o)
    BY <1>0, <1>1, <2>1 DEF IsStage
  <2>. QED BY <1>6, <1>13, <2>1, <2>2 DEF Exists
<1>14. EntitiesAgree'
  BY <1>8, <1>9, <1>10, <1>11 DEF EntitiesAgree
<1>. QED BY <1>1, <1>5, <1>7, <1>12, <1>13, <1>14, SagaGoesOn, Tuples

LEMMA AddResourceGoesOn ==
  ASSUME Known, Known', Saga, AddResource
  PROVE  Saga'
<1>0. PICK r, name : r = received.resource /\ name = received.name
  OBVIOUS
<1>1. /\ inbox # <<>> /\ Head(inbox) \in Elements(inbox)
      /\ Head(inbox).to = "Organization" /\ Head(inbox).signal = received
      /\ received.type = "AddResource"
      /\ r \in Resource /\ name \in Name
      /\ registration[r].name \in Name /\ received.by \in Person
  <2>1. /\ inbox # <<>> /\ Head(inbox) \in Elements(inbox)
        /\ Head(inbox).to = "Organization" /\ Head(inbox).signal = received
        /\ received.type = "AddResource"
        /\ Sound(Head(inbox))
    BY Took DEF AddResource
  <2>. QED BY <1>0, <2>1 DEF Sound
<1>2. name = registration[r].name /\ resource[r].name # NoName
  BY <1>0, <1>1 DEF Saga, Staged
<1>3. /\ organization \in Organization
      /\ organization.resource \in Seq(Recorded) /\ IsSequence(inbox)
  BY DEF Known, TypeOK, Organization
<1>4. \A o : o # r => ~IsStage(Head(inbox), o)
  BY <1>0, <1>1 DEF IsStage
<1>5. PICK announced, kept :
        announced = ResourceAdded(r, name) /\ kept = [id |-> r, name |-> name]
  OBVIOUS
<1>6. IsSequence(announced) /\ \A e \in Elements(announced) : Staged(e)'
  <2>1. PICK m, n :
          /\ ResourceAdded(r, name) = <<m, n>>
          /\ m.to = "OrganizationView" /\ n.to = "Registration"
          /\ m.signal = n.signal
          /\ m.signal = [type |-> "ResourceAdded", resource |-> r,
                         name |-> name, by |-> received.by]
    BY AnnouncedAre
  <2>2. Staged(m)' /\ Staged(n)'
    BY <2>1 DEF Staged
  <2>. QED BY <1>5, <2>1, <2>2, Tuples
<1>7. CASE AlreadyRecorded(r) /\ Give(announced) /\ UNCHANGED entities
  <2>1. Idle
    BY <1>7 DEF Idle, entities
  <2>2. \A e \in Elements(announced) : Staged(e) /\ Sound(e)
    <3>1. PICK m, n :
            /\ ResourceAdded(r, name) = <<m, n>>
            /\ m.to = "OrganizationView" /\ n.to = "Registration"
            /\ m.signal = n.signal
            /\ m.signal = [type |-> "ResourceAdded", resource |-> r,
                           name |-> name, by |-> received.by]
      BY AnnouncedAre
    <3>2. Staged(m) /\ Staged(n)
      BY <3>1 DEF Staged
    <3>3. Sound(m) /\ Sound(n)
      BY <1>1, <1>7, <3>1 DEF Sound, AlreadyRecorded
    <3>. QED BY <1>5, <3>1, <3>2, <3>3, Tuples
  <2>3. r \in RecordedIds
    BY <1>7 DEF AlreadyRecorded
  <2>. QED BY <1>1, <1>4, <1>6, <1>7, <2>1, <2>2, <2>3, SagaIdles
<1>8. ASSUME NEW e, Give(<<e>>), UNCHANGED entities,
             ~AlreadyRecorded(r), NameTaken(name),
             e = To("Registration",
                    About("OrganizationResourceNameAlreadyUsed", r))
      PROVE  Saga'
  <2>1. Idle
    BY <1>8 DEF Idle, entities
  <2>2. Lost(r)
    <3>1. PICK other \in Range(organization.resource) :
            Normalized[other.name] = Normalized[name]
      BY <1>8 DEF NameTaken
    <3>2. other.id # r
      BY <1>8 DEF AlreadyRecorded, RecordedIds
    <3>. QED BY <1>1, <1>2, <3>1, <3>2 DEF Lost
  <2>3. Staged(e) /\ Sound(e) /\ IsStage(e, r)
    BY <1>1, <1>8, <2>2 DEF Staged, Sound, IsStage, To, About
  <2>4. PICK messages :
          /\ messages = <<e>> /\ IsSequence(messages)
          /\ Elements(messages) = {e}
    BY Tuples
  <2>5. \A o \in Resource : IsStage(Head(inbox), o) =>
          \E m \in Elements(messages) : IsStage(m, o)
    BY <1>4, <2>3, <2>4
  <2>. QED BY <1>1, <1>8, <2>1, <2>3, <2>4, <2>5, SagaIdles
<1>9. CASE /\ ~AlreadyRecorded(r) /\ ~NameTaken(name) /\ Give(announced)
           /\ organization' = [organization EXCEPT
                !.resource = Append(@, [id |-> r, name |-> name])]
           /\ UNCHANGED <<organizationView, registration, resource, catalog,
                          audited>>
  <2>1. PICK left \in {0, 1} : Came(left, announced)
    BY <1>1, <1>3, <1>6, <1>9, GiveIs
  <2>2. kept \in Recorded
    BY <1>1, <1>5 DEF Recorded
  <2>3. /\ UNCHANGED <<registration, resource>>
        /\ organization'.resource = Append(organization.resource, kept)
    BY <1>3, <1>5, <1>9 DEF Organization
  <2>4. Range(organization'.resource) =
          Range(organization.resource) \cup {kept}
    BY <1>3, <2>2, <2>3, Ranges
  <2>5. Steady
    BY <2>3, <2>4 DEF Steady
  <2>6. NamesFollow'
    BY <2>3 DEF NamesFollow, Saga, EntitiesAgree
  <2>7. KeptAreNamed'
    BY <1>2, <1>5, <2>3, <2>4 DEF KeptAreNamed, Saga, EntitiesAgree
  <2>8. NamesReserved'
    <3>1. \A other \in Range(organization.resource) :
            /\ other.id # kept.id
            /\ Normalized[other.name] # Normalized[kept.name]
      BY <1>5, <1>9 DEF AlreadyRecorded, RecordedIds, NameTaken
    <3>. QED BY <2>4, <3>1 DEF NamesReserved, Saga, EntitiesAgree
  <2>9. DeletedAreLost'
    BY <2>3, <2>5, LostStays DEF DeletedAreLost, Saga, EntitiesAgree
  <2>10. r \in RecordedIds'
    BY <1>5, <2>4 DEF RecordedIds
  <2>11. \A o \in Resource : Exists(o)' =>
           \/ o \in RecordedIds'
           \/ Exists(o) /\ ~IsStage(Head(inbox), o)
    BY <1>4, <2>3, <2>10 DEF Exists
  <2>12. EntitiesAgree'
    BY <2>6, <2>7, <2>8, <2>9 DEF EntitiesAgree
  <2>. QED BY <1>1, <1>6, <2>1, <2>5, <2>11, <2>12, SagaGoesOn
<1>. QED BY <1>0, <1>5, <1>7, <1>8, <1>9 DEF AddResource

LEMMA OrganizationGoesOn ==
  ASSUME Known, Known', Saga, OrganizationActs
  PROVE  Saga'
<1>1. CASE AddResource
  BY <1>1, AddResourceGoesOn
<1>2. CASE CreateOrganization \/ AddOrganizationMember
  <2>1. /\ inbox # <<>> /\ Head(inbox).to = "Organization"
        /\ Head(inbox).signal = received /\ received.type # "AddResource"
    BY <1>2, Took DEF CreateOrganization, AddOrganizationMember
  <2>2. \A r : ~IsStage(Head(inbox), r)
    BY <2>1 DEF IsStage
  <2>3. organization \in Organization /\ IsSequence(inbox)
    BY DEF Known, TypeOK
  <2>4. organization'.resource = organization.resource
    BY <1>2, <2>3 DEF CreateOrganization, AddOrganizationMember, Organization,
                      Drop, entities
  <2>5. UNCHANGED <<registration, resource>>
    BY <1>2 DEF CreateOrganization, AddOrganizationMember, Drop, entities
  <2>6. Idle
    BY <2>4, <2>5 DEF Idle
  <2>7. \E messages :
          /\ IsSequence(messages) /\ Give(messages)
          /\ \A m \in Elements(messages) :
               m.to \in {"OrganizationView", "AuditEntry"}
    <3>1. CASE Drop
      BY <3>1, Tuples DEF Drop
    <3>2. CASE CreateOrganization /\ ~Drop
      <4>1. PICK m : m.to = "OrganizationView" /\ Give(<<m>>)
        BY <3>2 DEF CreateOrganization, To
      <4>. QED BY <4>1, Tuples
    <3>3. CASE AddOrganizationMember /\ ~Drop
      <4>1. PICK m, n : /\ m.to = "OrganizationView" /\ n.to = "AuditEntry"
                        /\ Give(<<m, n>>)
        BY <3>3 DEF AddOrganizationMember, To, ToAudit
      <4>. QED BY <4>1, Tuples
    <3>. QED BY <1>2, <3>1, <3>2, <3>3
  <2>8. PICK messages, left :
          /\ IsSequence(messages) /\ Came(left, messages)
          /\ \A m \in Elements(messages) :
               m.to \in {"OrganizationView", "AuditEntry"}
    BY <2>1, <2>3, <2>7, GiveIs
  <2>9. \A m \in Elements(messages) : Staged(m)'
    BY <2>8 DEF Staged
  <2>. QED BY <2>1, <2>2, <2>6, <2>8, <2>9, SagaApart
<1>. QED BY <1>1, <1>2 DEF OrganizationActs

(* The registration process manager's step, by what it received.           *)
LEMMA RegistrationGoesOn ==
  ASSUME OneNameEach, Known, Known', Saga, RegistrationActs
  PROVE  Saga'
<1>0. PICK r, name :
        r = received.resource /\ name = registration[received.resource].name
  OBVIOUS
<1>1. /\ inbox # <<>> /\ Head(inbox) \in Elements(inbox)
      /\ Head(inbox).to = "Registration" /\ Head(inbox).signal = received
      /\ r \in Resource /\ received.by \in Person
      /\ received.type # "RegisterResource" => name \in Name
  BY <1>0, Took DEF RegistrationActs, RegisterResource,
     OnResourceRegistrationRequested, OnResourceCreated,
     OnOrganizationResourceNameAlreadyUsed, OnResourceAlreadyExists,
     OnResourceAdded, OnResourceDeleted, Sound
<1>2. /\ registration \in [Resource -> Described] /\ IsSequence(inbox)
      /\ Staged(Head(inbox))
  BY <1>1 DEF Known, TypeOK, Saga
<1>3. \A o : o # r => ~IsStage(Head(inbox), o)
  BY <1>0, <1>1 DEF IsStage
<1>4. ASSUME NEW m, Give(<<m>>), UNCHANGED entities, Staged(m), Sound(m),
             IsStage(Head(inbox), r) => IsStage(m, r)
      PROVE  Saga'
  <2>1. PICK messages :
          /\ messages = <<m>> /\ IsSequence(messages)
          /\ Elements(messages) = {m}
    BY Tuples
  <2>2. Idle
    BY <1>4 DEF Idle, entities
  <2>3. \A o \in Resource : IsStage(Head(inbox), o) =>
          \E e \in Elements(messages) : IsStage(e, o)
    BY <1>3, <1>4, <2>1
  <2>. QED BY <1>1, <1>4, <2>1, <2>2, <2>3, SagaIdles
<1>5. CASE RegisterResource
  BY <1>5, RegisterResourceGoesOn
<1>6. CASE OnResourceRegistrationRequested
  <2>1. received.type = "ResourceRegistrationRequested"
    BY <1>6, Took DEF OnResourceRegistrationRequested
  <2>2. PICK m : m = To("Resource", Naming("CreateResource", r, name))
    OBVIOUS
  <2>3. Give(<<m>>) /\ UNCHANGED entities
    BY <1>0, <1>6, <2>2 DEF OnResourceRegistrationRequested
  <2>4. Staged(m) /\ Sound(m)
    BY <1>0, <1>1, <2>1, <2>2 DEF Staged, Sound, To, Naming
  <2>5. ~IsStage(Head(inbox), r)
    BY <1>1, <2>1 DEF IsStage
  <2>. QED BY <1>4, <2>3, <2>4, <2>5
<1>7. CASE OnResourceCreated
  <2>1. received.type = "ResourceCreated"
    BY <1>7, Took DEF OnResourceCreated
  <2>2. PICK m : m = To("Organization", Naming("AddResource", r, name))
    OBVIOUS
  <2>3. Give(<<m>>) /\ UNCHANGED entities
    BY <1>0, <1>7, <2>2 DEF OnResourceCreated
  <2>4. resource[r].name # NoName
    BY <1>0, <1>1, <1>2, <2>1 DEF Staged
  <2>5. Staged(m) /\ Sound(m) /\ IsStage(m, r)
    BY <1>0, <1>1, <2>1, <2>2, <2>4 DEF Staged, Sound, IsStage, To, Naming
  <2>. QED BY <1>4, <2>3, <2>5
<1>8. CASE OnOrganizationResourceNameAlreadyUsed
  <2>1. received.type = "OrganizationResourceNameAlreadyUsed"
    BY <1>8, Took DEF OnOrganizationResourceNameAlreadyUsed
  <2>2. PICK m : m = To("Resource", About("DeleteResource", r))
    OBVIOUS
  <2>3. Give(<<m>>) /\ UNCHANGED entities
    BY <1>0, <1>8, <2>2 DEF OnOrganizationResourceNameAlreadyUsed
  <2>4. Lost(r)
    BY <1>0, <1>1, <1>2, <2>1 DEF Staged
  <2>5. Staged(m) /\ Sound(m) /\ IsStage(m, r)
    BY <1>0, <1>1, <2>1, <2>2, <2>4 DEF Staged, Sound, IsStage, To, About
  <2>. QED BY <1>4, <2>3, <2>5
<1>9. CASE OnResourceAlreadyExists \/ OnResourceAdded \/ OnResourceDeleted
  <2>1. received.type \in {"ResourceAlreadyExists", "ResourceAdded",
                           "ResourceDeleted"}
    BY <1>9, Took DEF OnResourceAlreadyExists, OnResourceAdded,
                      OnResourceDeleted
  <2>2. PICK outcome : Finish(r, outcome)
    BY <1>0, <1>9 DEF OnResourceAlreadyExists, OnResourceAdded,
                      OnResourceDeleted
  <2>3. \E e : Give(<<To("AuditEntry", e)>>)
    BY <2>2 DEF Finish, ToAudit
  <2>4. PICK m : Give(<<m>>) /\ m.to = "AuditEntry"
    BY <2>3 DEF To
  <2>5. \A o \in Resource : registration'[o].name = registration[o].name
    BY <1>1, <1>2, <2>2 DEF Finish, Described
  <2>6. Idle
    BY <2>2, <2>5 DEF Idle, Finish
  <2>7. \A o : ~IsStage(Head(inbox), o)
    BY <1>1, <2>1 DEF IsStage
  <2>8. PICK left \in {0, 1} : Came(left, <<m>>)
    BY <1>1, <1>2, <2>4, GiveIs, Tuples
  <2>9. Staged(m)'
    BY <2>4 DEF Staged
  <2>. QED BY <1>1, <2>6, <2>7, <2>8, <2>9, SagaApart, Tuples
<1>. QED BY <1>5, <1>6, <1>7, <1>8, <1>9 DEF RegistrationActs

LEMMA SetOpenGoesOn ==
  ASSUME Known, Known', Saga, SetOpen
  PROVE  Saga'
<1>0. PICK r, open : r = received.resource /\ open = OpensBy(received.type)
  OBVIOUS
<1>1. /\ inbox # <<>> /\ Head(inbox).to = "Resource" /\ r \in Resource
      /\ Head(inbox).signal = received /\ received.type # "DeleteResource"
  <2>1. /\ inbox # <<>> /\ Head(inbox) \in Elements(inbox)
        /\ Head(inbox).to = "Resource" /\ Head(inbox).signal = received
        /\ received.type \in {"OpenResourceForRequests",
                            "CloseResourceForRequests"}
        /\ Sound(Head(inbox))
    BY Took DEF SetOpen
  <2>. QED BY <1>0, <2>1 DEF Sound
<1>2. resource \in [Resource -> Offered] /\ IsSequence(inbox)
  BY DEF Known, TypeOK
<1>3. \A o : ~IsStage(Head(inbox), o)
  BY <1>1 DEF IsStage
<1>4. Idle
  <2>1. \/ resource' = [resource EXCEPT ![r].open = open]
        \/ resource' = resource
    BY <1>0 DEF SetOpen, Drop, entities
  <2>2. UNCHANGED <<organization, registration>>
    BY DEF SetOpen, Drop, entities
  <2>3. \A o \in Resource : /\ resource'[o].name = resource[o].name
                            /\ resource'[o].deleted = resource[o].deleted
    BY <1>1, <1>2, <2>1 DEF Offered
  <2>. QED BY <2>2, <2>3 DEF Idle
<1>5. \E messages :
        /\ IsSequence(messages) /\ Give(messages)
        /\ \A m \in Elements(messages) : m.to \in {"Catalog", "AuditEntry"}
  <2>1. CASE Drop
    BY <2>1, Tuples DEF Drop
  <2>2. CASE ~Drop
    <3>1. PICK m, n : m.to = "Catalog" /\ n.to = "AuditEntry" /\ Give(<<m, n>>)
      BY <2>2 DEF SetOpen, To, ToAudit
    <3>. QED BY <3>1, Tuples
  <2>. QED BY <2>1, <2>2
<1>6. PICK messages, left :
        /\ IsSequence(messages) /\ Came(left, messages)
        /\ \A m \in Elements(messages) : m.to \in {"Catalog", "AuditEntry"}
  BY <1>1, <1>2, <1>5, GiveIs
<1>7. \A m \in Elements(messages) : Staged(m)'
  BY <1>6 DEF Staged
<1>. QED BY <1>1, <1>3, <1>4, <1>6, <1>7, SagaApart

(* The views, the catalog and the trail only listen.                       *)
LEMMA ListenersGoOn ==
  ASSUME Known, Known', Saga, UNCHANGED <<organization, registration, resource>>,
         NEW entity \in {"OrganizationView", "Catalog", "AuditEntry"},
         Speaks(entity, {})
  PROVE  Saga'
<1>1. PICK messages, left :
        /\ left \in {0, 1}
        /\ IsSequence(messages) /\ Came(left, messages)
        /\ \A m \in Elements(messages) : m.to \in {}
        /\ left = 1 => inbox # <<>> /\ Head(inbox).to = entity
  BY DEF Speaks
<1>2. \A m \in Elements(messages) : Staged(m)'
  BY <1>1
<1>3. left = 1 => inbox # <<>> /\ \A r \in Resource : ~IsStage(Head(inbox), r)
  BY <1>1 DEF IsStage
<1>4. Idle
  BY DEF Idle
<1>. QED BY <1>1, <1>2, <1>3, <1>4, SagaApart

LEMMA PostGoesOn ==
  ASSUME Known, Known', Saga, NEW command \in ClientCommand, Post(command)
  PROVE  Saga'
<1>1. command \in OrganizationCommand \cup RegisterCommand \cup PolicyCommand
  BY RegistrationConstants
<1>2. PICK m, to :
        /\ inbox' = Append(inbox, m) /\ m = To(to, command)
        /\ command \in OrganizationCommand => to = "Organization"
        /\ command \notin OrganizationCommand /\ command \in RegisterCommand =>
             to = "Registration"
        /\ command \notin OrganizationCommand /\ command \notin RegisterCommand =>
             to = "Resource"
  <2>1. /\ command \in OrganizationCommand => command \notin RegisterCommand
        /\ command \in PolicyCommand => /\ command \notin OrganizationCommand
                                       /\ command \notin RegisterCommand
    BY DEF OrganizationCommand, RegisterCommand, PolicyCommand
  <2>2. CASE command \in OrganizationCommand
    BY <2>1, <2>2 DEF Post
  <2>3. CASE command \in RegisterCommand
    BY <2>1, <2>3 DEF Post
  <2>4. CASE command \in PolicyCommand
    BY <2>1, <2>4 DEF Post
  <2>. QED BY <1>1, <2>2, <2>3, <2>4
<1>3. Staged(m)'
  <2>1. CASE command \in OrganizationCommand
    BY <1>2, <2>1 DEF Staged, To, OrganizationCommand
  <2>2. CASE command \notin OrganizationCommand /\ command \in RegisterCommand
    BY <1>2, <2>2 DEF Staged, To, RegisterCommand
  <2>3. CASE /\ command \in PolicyCommand
             /\ command \notin OrganizationCommand /\ command \notin RegisterCommand
    BY <1>2, <2>3 DEF Staged, To, PolicyCommand
  <2>. QED BY <1>1, <2>1, <2>2, <2>3
<1>4. Came(0, <<m>>)
  BY <1>2, AppendIs DEF Known
<1>5. Idle
  BY DEF Idle, Post, entities
<1>. QED BY <1>3, <1>4, <1>5, SagaApart, Tuples

(* The initial state, and each step, keeps the registrations going.        *)
LEMMA SagaInit == Init => Saga
<1> SUFFICES ASSUME Init PROVE Saga
  OBVIOUS
<1>1. Elements(inbox) = {}
  BY Tuples DEF Init
<1>2. Range(organization.resource) = {}
  <2>1. organization.resource = <<>>
    BY DEF Init, NewOrganization
  <2>. QED BY <2>1 DEF Range
<1>3. /\ \A r \in Resource : resource[r] = NotOffered
      /\ \A r \in Resource : registration[r].name = NoName
  BY DEF Init
<1>4. \A r \in Resource : ~Exists(r) /\ ~resource[r].deleted
  BY <1>3 DEF Exists, NotOffered
<1>5. EntitiesAgree
  BY <1>2, <1>3, <1>4 DEF EntitiesAgree, NamesFollow, KeptAreNamed,
                          NamesReserved, DeletedAreLost, NotOffered
<1>. QED BY <1>1, <1>4, <1>5 DEF Saga, Settling

LEMMA SagaStep ==
  ASSUME OneNameEach, Known, Known', Saga, [Next]_vars
  PROVE  Saga'
<1>1. CASE UNCHANGED vars
  <2>1. /\ inbox' = inbox /\ organization' = organization
        /\ registration' = registration /\ resource' = resource
    BY <1>1 DEF vars, entities
  <2>2. /\ \A r : /\ Lost(r)' = Lost(r) /\ Exists(r)' = Exists(r)
                  /\ \A m : IsStage(m, r)' = IsStage(m, r)
        /\ RecordedIds' = RecordedIds /\ Elements(inbox') = Elements(inbox)
    BY <2>1 DEF Lost, Exists, RecordedIds, IsStage
  <2>3. \A m : Staged(m)' = Staged(m)
    BY <2>1, <2>2 DEF Staged
  <2>4. \A r : Settling(r)' = Settling(r)
    BY <2>2 DEF Settling
  <2>5. EntitiesAgree'
    BY <2>1, <2>2 DEF Saga, EntitiesAgree, NamesFollow, KeptAreNamed,
                      NamesReserved, DeletedAreLost
  <2>. QED BY <2>2, <2>3, <2>4, <2>5 DEF Saga
<1>2. CASE OrganizationActs
  BY <1>2, OrganizationGoesOn
<1>3. CASE ViewActs
  BY <1>3, ViewSpeaks, ListenersGoOn
<1>4. CASE RegistrationActs
  BY <1>4, RegistrationGoesOn
<1>5. CASE ResourceActs
  BY <1>5, CreateResourceGoesOn, DeleteResourceGoesOn, SetOpenGoesOn
     DEF ResourceActs
<1>6. CASE CatalogActs
  BY <1>6, CatalogSpeaks, ListenersGoOn
<1>7. CASE RecordAction
  BY <1>7, TrailSpeaks, ListenersGoOn
<1>8. ASSUME NEW command \in ClientCommand, Post(command)
      PROVE  Saga'
  BY <1>8, PostGoesOn
<1>. QED BY <1>1, <1>2, <1>3, <1>4, <1>5, <1>6, <1>7, <1>8, NextIs

(* A registration goes on to its end, in every reachable state, when       *)
(* clients register each resource under one name.                          *)
THEOREM SagaHolds == OneNameEach /\ Spec => []Saga
<1> SUFFICES ASSUME OneNameEach PROVE Spec => []Saga
  OBVIOUS
<1>1. Init => Saga
  BY SagaInit
<1>2. Known /\ Known' /\ Saga /\ [Next]_vars => Saga'
  BY SagaStep
<1>. QED BY <1>1, <1>2, Knowledge, PTL DEF Spec

(* Once nothing is left to deliver, what exists is what is recorded.       *)
LEMMA SettledIsWhole ==
  ASSUME Known, Saga
  PROVE  RegistrationIsWhole
<1> SUFFICES ASSUME inbox = <<>>
             PROVE  {r \in Resource : Exists(r)} = RecordedIds
  BY DEF RegistrationIsWhole
<1>1. \A m : m \notin Elements(inbox)
  BY Tuples
<1>2. \A r \in Resource : Exists(r) => r \in RecordedIds
  BY <1>1 DEF Saga, Settling
<1>3. ASSUME NEW r \in RecordedIds
      PROVE  r \in Resource /\ Exists(r)
  <2>1. PICK kept \in Range(organization.resource) : kept.id = r
    BY <1>3 DEF RecordedIds
  <2>2. /\ r \in Resource /\ resource[r].name # NoName
        /\ kept.name = registration[r].name
    BY <2>1, Taken DEF Known, Saga, EntitiesAgree, KeptAreNamed
  <2>3. ~Lost(r)
    BY <2>1, <2>2 DEF Lost, Saga, EntitiesAgree, NamesReserved
  <2>. QED BY <2>2, <2>3 DEF Exists, Saga, EntitiesAgree, DeletedAreLost
<1>. QED BY <1>2, <1>3

(* Once all messages are delivered, the resources that exist are the ones  *)
(* the organization records, when clients register each resource under one *)
(* name (ResourceRegistrationProcessManager and its compensation).         *)
THEOREM RegistrationsAreWhole == OneNameEach /\ Spec => []RegistrationIsWhole
<1>1. Known /\ Saga => RegistrationIsWhole
  BY SettledIsWhole
<1>. QED BY <1>1, Knowledge, SagaHolds, PTL

(* No two resources are listed under the same name, upper and lower case   *)
(* alike, once all messages are delivered (OrganizationAggregate reserves  *)
(* the names), when clients register each resource under one name.         *)
THEOREM ListedNamesAreUnique == OneNameEach /\ Spec => []NamesAreUnique
<1>1. Known /\ Saga /\ CatalogAgrees => NamesAreUnique
  <2> SUFFICES ASSUME Known, Saga, CatalogAgrees, inbox = <<>>,
                      NEW r \in Resource, NEW other \in Resource,
                      Listed(r), Listed(other), r # other
               PROVE  Normalized[catalog[r].name] # Normalized[catalog[other].name]
    BY DEF NamesAreUnique
  <2>1. RegistrationIsWhole
    BY SettledIsWhole
  <2>2. /\ r \in RecordedIds /\ catalog[r].name = resource[r].name
        /\ other \in RecordedIds /\ catalog[other].name = resource[other].name
    BY <2>1 DEF CatalogAgrees, RegistrationIsWhole
  <2>3. PICK k, l \in Range(organization.resource) :
          k.id = r /\ l.id = other
    BY <2>2 DEF RecordedIds
  <2>4. k.name = catalog[r].name /\ l.name = catalog[other].name
    BY <2>2, <2>3 DEF Saga, EntitiesAgree, KeptAreNamed, NamesFollow
  <2>. QED BY <2>3, <2>4 DEF Saga, EntitiesAgree, NamesReserved
<1>. QED BY <1>1, Knowledge, SagaHolds, CatalogShowsResources, PTL

(* The compensation of a registration never deletes a resource that the    *)
(* organization records, and the organization never forgets one, when      *)
(* clients register each resource under one name.                          *)
THEOREM RecordedIsKept == OneNameEach /\ Spec => RecordedStays
<1>1. Known /\ Known' /\ Saga' /\ [Next]_vars =>
        [\A r \in RecordedIds : r \in RecordedIds' /\ ~resource'[r].deleted]_vars
  <2> SUFFICES ASSUME Known, Known', Saga', [Next]_vars, NEW r \in RecordedIds
               PROVE  r \in RecordedIds' /\ ~resource'[r].deleted
    OBVIOUS
  <2>1. r \in RecordedIds'
    <3>1. Advancing
      BY KnownStep
    <3>. QED BY <3>1 DEF Advancing, RecordedIds
  <2>2. PICK kept \in Range(organization'.resource) : kept.id = r
    BY <2>1 DEF RecordedIds
  <2>3. r \in Resource /\ kept.name = registration'[r].name
    BY <2>2, Taken DEF Known, Saga, EntitiesAgree, KeptAreNamed
  <2>4. ~Lost(r)'
    BY <2>2, <2>3 DEF Lost, Saga, EntitiesAgree, NamesReserved
  <2>. QED BY <2>1, <2>3, <2>4 DEF Saga, EntitiesAgree, DeletedAreLost
<1>. QED BY <1>1, Knowledge, SagaHolds, PTL DEF RecordedStays, Spec

----------------------------------------------------------------------------
(* The audit trail.  What is told are the entries the trail has and those  *)
(* on their way to it.  Each change is told once, with a version that the  *)
(* entity has left behind, and the openings and closings of a resource     *)
(* take turns.  A registration is told by the message that announces it.   *)

EntryOf(m) ==
  [id |-> m.signal.id, about |-> m.signal.about, actor |-> m.signal.by]

Told == trail \cup
  {EntryOf(m) : m \in {n \in Elements(inbox) : n.to = "AuditEntry"}}

ToldOf(thing, types) ==
  {entry \in Told : entry.about = thing /\ entry.id.type \in types}

PolicyType == {"ResourceOpenedForRequests", "ResourceClosedForRequests"}

ToldMembers ==
  {entry \in Told : entry.id.type = "OrganizationMemberAdded"}

MembersAudited ==
  /\ \A entry \in ToldMembers :
       /\ entry.about \in Range(organization.member)
       /\ entry.id.version < OrganizationVersion
  /\ \A entry, other \in ToldMembers :
       entry.id = other.id \/ entry.about = other.about => entry = other
  /\ \A p \in Range(organization.member) :
       \E entry \in ToldMembers : entry.about = p

RegistrationsAudited ==
  /\ \A entry \in Told : entry.id.type = "ResourceRegistered" =>
       entry.about = entry.id.of /\ entry.about \in RecordedIds
  /\ \A m \in Elements(inbox) :
       m.to = "Registration" /\ m.signal.type = "ResourceAdded" =>
         m.signal.resource \in RecordedIds
  /\ \A r \in RecordedIds :
       \/ ToldOf(r, {"ResourceRegistered"}) # {}
       \/ Announced("Registration", r, "ResourceAdded")

(* A policy is changed after its resource was created.                     *)
PoliciesFollow ==
  /\ \A r \in Resource : resource[r].open => resource[r].name # NoName
  /\ \A m \in Elements(inbox) :
       m.to = "Resource" /\ m.signal.type \in {"OpenResourceForRequests",
                                               "CloseResourceForRequests"} =>
         resource[m.signal.resource].name # NoName

TakeTurns(r) ==
  LET opened == ToldOf(r, {"ResourceOpenedForRequests"})
      closed == ToldOf(r, {"ResourceClosedForRequests"})
  IN  /\ IsFiniteSet(opened) /\ IsFiniteSet(closed)
      /\ Cardinality(opened) =
           Cardinality(closed) + (IF resource[r].open THEN 1 ELSE 0)

LastTurn(r) ==
  LET turns == ToldOf(r, PolicyType) IN
  /\ \A entry \in turns : entry.id.version < version["Resource"][r]
  /\ \A entry, other \in turns :
       entry.id.version = other.id.version => entry = other
  /\ turns # {} => \E entry \in turns :
       /\ \A other \in turns : other.id.version <= entry.id.version
       /\ resource[r].open <=> entry.id.type = "ResourceOpenedForRequests"

TurnsAudited ==
  /\ \A entry \in Told : entry.id.type \in PolicyType =>
       entry.about = entry.id.of /\ entry.about \in Resource
  /\ \A r \in Resource : TakeTurns(r) /\ LastTurn(r)

Audited ==
  /\ MembersAudited /\ RegistrationsAudited
  /\ PoliciesFollow /\ TurnsAudited

(* What is told has the types of an entry.                                 *)
LEMMA ToldAre ==
  ASSUME Known
  PROVE  \A entry \in Told : entry.id.version \in Nat
<1>1. \A entry \in trail : entry \in Entry
  BY DEF Known, TypeOK
<1>2. \A m \in Elements(inbox) : m.to = "AuditEntry" => m.signal.id \in EntryId
  BY DEF Known, Sound
<1>. QED BY <1>1, <1>2 DEF Told, EntryOf, Entry, EntryId

(* The version of the organization is a number.                            *)
LEMMA OrganizationVersionIs ==
  ASSUME NEW o \in Organization
  PROVE  /\ Len(o.member) \in Nat /\ Len(o.resource) \in Nat
         /\ (IF o.created THEN 1 ELSE 0) + Len(o.member) + Len(o.resource)
              \in Nat
<1>1. Len(o.member) \in Nat /\ Len(o.resource) \in Nat
  BY LenProperties DEF Organization
<1> DEFINE c == IF o.created THEN 1 ELSE 0
           a == Len(o.member)
           b == Len(o.resource)
<1>2. c \in {0, 1} /\ a \in Nat /\ b \in Nat
  BY <1>1
<1> HIDE DEF a, b, c
<1>3. c + a + b \in Nat
  BY <1>2
<1>. QED BY <1>1, <1>3 DEF a, b, c

(* What a step tells of, unless it makes an entry.                         *)
LEMMA ToldGrows ==
  ASSUME Known, Known', UNCHANGED trail,
         NEW messages, NEW left, IsSequence(messages), Came(left, messages),
         left = 1 => inbox # <<>> /\ Head(inbox).to # "AuditEntry"
  PROVE  Told' = Told \cup
           {EntryOf(m) :
              m \in {n \in Elements(messages) : n.to = "AuditEntry"}}
<1>1. /\ Elements(inbox') \subseteq Elements(inbox) \cup Elements(messages)
      /\ Elements(messages) \subseteq Elements(inbox')
      /\ left = 0 => Elements(inbox) \subseteq Elements(inbox')
      /\ inbox # <<>> =>
           Elements(inbox) \subseteq Elements(inbox') \cup {Head(inbox)}
  BY CameElements DEF Known
<1>2. left \in {0, 1}
  BY DEF Came
<1>3. \A m : m.to = "AuditEntry" =>
        (m \in Elements(inbox') <=>
           m \in Elements(inbox) \cup Elements(messages))
  BY <1>1, <1>2
<1>4. {n \in Elements(inbox') : n.to = "AuditEntry"} =
        {n \in Elements(inbox) : n.to = "AuditEntry"} \cup
        {n \in Elements(messages) : n.to = "AuditEntry"}
  BY <1>3
<1>5. \A m : EntryOf(m)' = EntryOf(m)
  BY DEF EntryOf
<1>6. Told' = trail' \cup
        {EntryOf(m) : m \in {n \in Elements(inbox') : n.to = "AuditEntry"}}
  BY <1>5 DEF Told
<1>. QED BY <1>4, <1>6 DEF Told

(* A step that has nothing to do with the trail.                           *)
LEMMA NothingTold ==
  ASSUME Known, Known', UNCHANGED trail, NEW entity, NEW others,
         Speaks(entity, others), entity # "AuditEntry",
         "AuditEntry" \notin others
  PROVE  Told' = Told
<1>1. PICK messages, left :
        /\ left \in {0, 1} /\ IsSequence(messages) /\ Came(left, messages)
        /\ \A m \in Elements(messages) : m.to \in others
        /\ left = 1 => inbox # <<>> /\ Head(inbox).to = entity
  BY DEF Speaks
<1>2. {n \in Elements(messages) : n.to = "AuditEntry"} = {}
  BY <1>1
<1>3. Told' = Told \cup
        {EntryOf(m) : m \in {n \in Elements(messages) : n.to = "AuditEntry"}}
  BY <1>1, ToldGrows
<1>. QED BY <1>2, <1>3

(* A step that tells of one thing.                                         *)
LEMMA OneTold ==
  ASSUME Known, Known', UNCHANGED trail,
         inbox # <<>>, Head(inbox).to # "AuditEntry",
         NEW messages, IsSequence(messages), Give(messages),
         NEW m \in Elements(messages), m.to = "AuditEntry",
         \A n \in Elements(messages) : n.to = "AuditEntry" => n = m
  PROVE  Told' = Told \cup {EntryOf(m)}
<1>1. PICK left \in {0, 1} : Came(left, messages)
  BY GiveIs DEF Known
<1>2. {n \in Elements(messages) : n.to = "AuditEntry"} = {m}
  OBVIOUS
<1>3. Told' = Told \cup
        {EntryOf(e) : e \in {n \in Elements(messages) : n.to = "AuditEntry"}}
  BY <1>1, ToldGrows
<1>. QED BY <1>2, <1>3

(* An entry that is made, or found, is told still.                         *)
LEMMA StillTold ==
  ASSUME Known, Known', RecordAction
  PROVE  /\ Told' \subseteq Told
         /\ \A entry \in Told : \E kept \in Told' : kept.id = entry.id
<1>1. /\ inbox # <<>> /\ Head(inbox) \in Elements(inbox)
      /\ Head(inbox).to = "AuditEntry" /\ Head(inbox).signal = received
  BY Took DEF RecordAction
<1>2. PICK entry : entry = EntryOf(Head(inbox))
  OBVIOUS
<1>3. /\ entry.id = received.id
      /\ entry = [id |-> received.id, about |-> received.about,
                  actor |-> received.by]
  BY <1>1, <1>2 DEF EntryOf
<1>4. /\ trail \subseteq trail' /\ trail' \subseteq trail \cup {entry}
      /\ \E kept \in trail' : kept.id = entry.id
  BY <1>3 DEF RecordAction, EntryMade
<1>5. PICK left \in {0, 1} : Came(left, <<>>)
  BY <1>1, GiveIs, Tuples DEF RecordAction, Known
<1>6. /\ Elements(inbox') \subseteq Elements(inbox)
      /\ Elements(inbox) \subseteq Elements(inbox') \cup {Head(inbox)}
  BY <1>1, <1>5, CameElements, Tuples DEF Known
<1>7. Told' = trail' \cup
        {EntryOf(m) : m \in {n \in Elements(inbox') : n.to = "AuditEntry"}}
  BY DEF Told, EntryOf
<1>8. entry \in Told
  BY <1>1, <1>2 DEF Told
<1>9. Told' \subseteq Told
  BY <1>4, <1>6, <1>7, <1>8 DEF Told
<1>10. ASSUME NEW other \in Told
       PROVE  \E kept \in Told' : kept.id = other.id
  <2>1. CASE other \in trail
    BY <1>4, <1>7, <2>1
  <2>2. ASSUME NEW m \in Elements(inbox), m.to = "AuditEntry",
               other = EntryOf(m)
        PROVE  other \in Told' \/ other = entry
    BY <1>2, <1>6, <1>7, <2>2
  <2>3. other \in trail \/ other \in Told' \/ other = entry
    BY <1>10, <2>2 DEF Told
  <2>. QED BY <1>4, <1>7, <2>1, <2>3
<1>. QED BY <1>9, <1>10

(* What the organization tells, and when its members change.               *)
LEMMA OrganizationTells ==
  ASSUME Known, Known', OrganizationActs
  PROVE  /\ UNCHANGED <<registration, resource, catalog, audited>>
         /\ OrganizationVersion' >= OrganizationVersion
         /\ \/ Told' = Told /\ organization'.member = organization.member
            \/ \E entry :
                 /\ Told' = Told \cup {entry}
                 /\ entry.id.type = "OrganizationMemberAdded"
                 /\ entry.id.version = OrganizationVersion
                 /\ OrganizationVersion' > OrganizationVersion
                 /\ entry.about \notin Range(organization.member)
                 /\ Range(organization'.member) =
                      Range(organization.member) \cup {entry.about}
<1>1. /\ inbox # <<>> /\ Head(inbox).to = "Organization"
      /\ UNCHANGED <<registration, resource, catalog, audited>>
  BY Took DEF OrganizationActs, CreateOrganization, AddOrganizationMember,
              AddResource, Drop, entities
<1>2. UNCHANGED trail
  BY <1>1 DEF audited
<1>3. /\ organization \in Organization
      /\ organization.member \in Seq(Person)
      /\ organization.resource \in Seq(Recorded)
      /\ organization.created \in BOOLEAN
      /\ Len(organization.member) \in Nat
      /\ Len(organization.resource) \in Nat /\ OrganizationVersion \in Nat
  <2>1. organization \in Organization
    BY DEF Known, TypeOK
  <2>. QED BY <2>1, OrganizationVersionIs DEF Organization, OrganizationVersion
<1>4. ASSUME NEW messages, IsSequence(messages), Give(messages),
             \A m \in Elements(messages) : m.to # "AuditEntry"
      PROVE  Told' = Told
  <2>1. Speaks("Organization", {m.to : m \in Elements(messages)})
    BY <1>1, <1>4, GivenSpeaks
  <2>. QED BY <1>2, <1>4, <2>1, NothingTold
<1>5. CASE Drop
  <2>1. Told' = Told
    BY <1>4, <1>5, Tuples DEF Drop
  <2>2. organization' = organization
    BY <1>5 DEF Drop, entities
  <2>3. OrganizationVersion' = OrganizationVersion
    BY <2>2 DEF OrganizationVersion
  <2>. QED BY <1>1, <1>3, <2>1, <2>2, <2>3
<1>6. CASE CreateOrganization /\ ~Drop
  <2>1. /\ ~organization.created
        /\ organization' = [organization EXCEPT !.created = TRUE]
    BY <1>6 DEF CreateOrganization
  <2>2. PICK m : m.to = "OrganizationView" /\ Give(<<m>>)
    BY <1>6 DEF CreateOrganization, To
  <2>3. Told' = Told
    BY <1>4, <2>2, Tuples
  <2>4. /\ organization'.member = organization.member
        /\ organization'.resource = organization.resource
        /\ organization'.created
    BY <1>3, <2>1 DEF Organization
  <2>5. OrganizationVersion' >= OrganizationVersion
    BY <1>3, <2>1, <2>4 DEF OrganizationVersion
  <2>. QED BY <1>1, <2>3, <2>4, <2>5
<1>7. CASE AddResource
  <2>1. \/ /\ organization' = organization
        \/ /\ organization' = [organization EXCEPT !.resource = Append(@,
                 [id |-> received.resource, name |-> received.name])]
    BY <1>7 DEF AddResource, entities
  <2>2. \/ Give(ResourceAdded(received.resource, received.name))
        \/ \E m : m.to = "Registration" /\ Give(<<m>>)
    BY <1>7 DEF AddResource, To
  <2>3. Told' = Told
    <3>1. CASE Give(ResourceAdded(received.resource, received.name))
      <4>1. PICK m, n :
              /\ ResourceAdded(received.resource, received.name) = <<m, n>>
              /\ m.to = "OrganizationView" /\ n.to = "Registration"
              /\ m.signal = n.signal
              /\ m.signal = [type |-> "ResourceAdded",
                             resource |-> received.resource,
                             name |-> received.name, by |-> received.by]
        BY AnnouncedAre
      <4>2. PICK messages :
              /\ messages = ResourceAdded(received.resource, received.name)
              /\ Give(messages)
        BY <3>1, Zenon
      <4>. QED BY <1>4, <4>1, <4>2, Tuples
    <3>2. ASSUME NEW m, m.to = "Registration", Give(<<m>>)
          PROVE  Told' = Told
      BY <1>4, <3>2, Tuples
    <3>. QED BY <2>2, <3>1, <3>2
  <2>4. /\ organization'.member = organization.member
        /\ organization'.created = organization.created
    BY <1>3, <2>1 DEF Organization
  <2>5. Len(organization'.resource) >= Len(organization.resource)
    <3>1. received.resource \in Resource /\ received.name \in Name
      <4>1. /\ Head(inbox).to = "Organization" /\ Head(inbox).signal = received
            /\ received.type = "AddResource" /\ Sound(Head(inbox))
        BY <1>7, Took DEF AddResource
      <4>. QED BY <4>1 DEF Sound
    <3>2. [id |-> received.resource, name |-> received.name] \in Recorded
      BY <3>1 DEF Recorded
    <3>3. Len(Append(organization.resource,
                [id |-> received.resource, name |-> received.name])) =
            Len(organization.resource) + 1
      BY <1>3, <3>2, AppendProperties
    <3>4. \/ organization'.resource = organization.resource
          \/ organization'.resource = Append(organization.resource,
                [id |-> received.resource, name |-> received.name])
      BY <1>3, <2>1 DEF Organization
    <3>. QED BY <1>3, <3>3, <3>4
  <2>6. Len(organization'.resource) \in Nat
    BY OrganizationVersionIs DEF Known, TypeOK
  <2>7. OrganizationVersion' >= OrganizationVersion
    BY <1>3, <2>4, <2>5, <2>6 DEF OrganizationVersion
  <2>. QED BY <1>1, <2>3, <2>4, <2>7
<1>8. CASE AddOrganizationMember /\ ~Drop
  <2>1. PICK person, entry :
          /\ person = received.person
          /\ entry = [id |-> [producer |-> "Organization",
                              of |-> TheOrganization,
                              version |-> OrganizationVersion,
                              type |-> "OrganizationMemberAdded"],
                      about |-> person, actor |-> received.by]
    OBVIOUS
  <2>2. /\ person \notin Range(organization.member)
        /\ organization' = [organization EXCEPT !.member = Append(@, person)]
    BY <1>8, <2>1 DEF AddOrganizationMember
  <2>3. PICK m, n : /\ Give(<<m, n>>) /\ m.to = "OrganizationView"
                    /\ n.to = "AuditEntry" /\ EntryOf(n) = entry
    <3>1. PICK m, n :
            /\ Give(<<m, n>>)
            /\ m = To("OrganizationView",
                  [type |-> "OrganizationMemberAdded",
                   person |-> person, by |-> received.by])
            /\ n = ToAudit("Organization", TheOrganization,
                  OrganizationVersion, "OrganizationMemberAdded", person)
      BY <1>8, <2>1 DEF AddOrganizationMember
    <3>2. /\ m.to = "OrganizationView" /\ n.to = "AuditEntry"
          /\ EntryOf(n) = entry
      BY <2>1, <3>1 DEF EntryOf, ToAudit, To
    <3>. QED BY <3>1, <3>2
  <2>4. Told' = Told \cup {entry}
    <3>1. PICK messages : /\ messages = <<m, n>> /\ IsSequence(messages)
                          /\ Elements(messages) = {m, n}
      BY Tuples
    <3>. QED BY <1>1, <1>2, <2>3, <3>1, OneTold
  <2>5. person \in Person
    <3>1. /\ Head(inbox).to = "Organization" /\ Head(inbox).signal = received
          /\ received.type = "AddOrganizationMember" /\ Sound(Head(inbox))
      BY <1>8, Took DEF AddOrganizationMember
    <3>. QED BY <2>1, <3>1 DEF Sound
  <2>6. /\ organization'.member = Append(organization.member, person)
        /\ organization'.created = organization.created
        /\ organization'.resource = organization.resource
    BY <1>3, <2>2 DEF Organization
  <2>7. /\ Range(organization'.member) =
             Range(organization.member) \cup {person}
        /\ Len(organization'.member) = Len(organization.member) + 1
    BY <1>3, <2>5, <2>6, Ranges, AppendProperties
  <2>8. /\ OrganizationVersion' > OrganizationVersion
        /\ OrganizationVersion' >= OrganizationVersion
    <3> DEFINE c == IF organization.created THEN 1 ELSE 0
               a == Len(organization.member)
               b == Len(organization.resource)
    <3>1. /\ c \in {0, 1} /\ OrganizationVersion = c + a + b
          /\ OrganizationVersion' = c + (a + 1) + b
      BY <2>6, <2>7 DEF OrganizationVersion
    <3>2. a \in Nat /\ b \in Nat
      BY <1>3
    <3> HIDE DEF a, b, c
    <3>. QED BY <3>1, <3>2
  <2>. QED BY <1>1, <2>1, <2>2, <2>4, <2>7, <2>8
<1>. QED BY <1>5, <1>6, <1>7, <1>8 DEF OrganizationActs

(* What a registration tells.                                              *)
LEMMA RegistrationTells ==
  ASSUME Known, Known', RegistrationActs
  PROVE  /\ UNCHANGED <<organization, resource, trail>>
         /\ version'["Resource"] = version["Resource"]
         /\ \/ Told' = Told /\ received.type # "ResourceAdded"
            \/ \E entry :
                 /\ Told' = Told \cup {entry}
                 /\ entry.id.type \in {"ResourceRegistered",
                                       "ResourceRegistrationFailed"}
                 /\ entry.about = received.resource
                 /\ entry.id.of = received.resource
                 /\ entry.id.type = "ResourceRegistered" <=>
                      received.type = "ResourceAdded"
<1>0. PICK r : r = received.resource
  OBVIOUS
<1>1. /\ inbox # <<>> /\ Head(inbox).to = "Registration" /\ r \in Resource
      /\ UNCHANGED <<organization, resource, trail>>
  <2>1. inbox # <<>> /\ Head(inbox).to = "Registration" /\ r \in Resource
    BY <1>0, Took DEF RegistrationActs, RegisterResource,
       OnResourceRegistrationRequested, OnResourceCreated,
       OnOrganizationResourceNameAlreadyUsed, OnResourceAlreadyExists,
       OnResourceAdded, OnResourceDeleted, Sound
  <2>2. UNCHANGED <<organization, resource, trail>>
    BY DEF RegistrationActs, RegisterResource,
       OnResourceRegistrationRequested, OnResourceCreated,
       OnOrganizationResourceNameAlreadyUsed, OnResourceAlreadyExists,
       OnResourceAdded, OnResourceDeleted, Finish, entities, audited
  <2>. QED BY <2>1, <2>2
<1>2. version \in [{"Registration", "Resource"} -> [Resource -> Nat]]
  BY DEF Known, TypeOK
<1>3. ASSUME Changed("Registration", r) \/ UNCHANGED version
      PROVE  version'["Resource"] = version["Resource"]
  BY <1>1, <1>2, <1>3 DEF Changed
<1>4. CASE \/ RegisterResource \/ OnResourceRegistrationRequested
           \/ OnResourceCreated \/ OnOrganizationResourceNameAlreadyUsed
  <2>1. received.type # "ResourceAdded"
    BY <1>4, Took DEF RegisterResource, OnResourceRegistrationRequested,
       OnResourceCreated, OnOrganizationResourceNameAlreadyUsed
  <2>2. Changed("Registration", r) \/ UNCHANGED version
    BY <1>0, <1>4 DEF RegisterResource, OnResourceRegistrationRequested,
       OnResourceCreated, OnOrganizationResourceNameAlreadyUsed, entities,
       audited
  <2>3. \E m : m.to # "AuditEntry" /\ Give(<<m>>)
    <3>1. \E e : \/ Give(<<To("Registration", e)>>)
                 \/ Give(<<To("Resource", e)>>)
                 \/ Give(<<To("Organization", e)>>)
      BY <1>4 DEF RegisterResource, OnResourceRegistrationRequested,
         OnResourceCreated, OnOrganizationResourceNameAlreadyUsed
    <3>. QED BY <3>1 DEF To
  <2>4. PICK m : m.to # "AuditEntry" /\ Give(<<m>>)
    BY <2>3
  <2>5. Speaks("Registration", {m.to})
    BY <1>1, <2>4, GivenSpeaks, Tuples
  <2>6. Told' = Told
    BY <1>1, <2>4, <2>5, NothingTold
  <2>. QED BY <1>1, <1>3, <2>1, <2>2, <2>6
<1>5. ASSUME NEW outcome \in {"ResourceRegistered",
                              "ResourceRegistrationFailed"},
             Finish(r, outcome),
             outcome = "ResourceRegistered" <=> received.type = "ResourceAdded"
      PROVE  /\ version'["Resource"] = version["Resource"]
             /\ \E entry :
                  /\ Told' = Told \cup {entry}
                  /\ entry.id.type = outcome
                  /\ entry.about = r /\ entry.id.of = r
  <2>1. PICK m :
          /\ m = ToAudit("Registration", r, version["Registration"][r],
                         outcome, r)
          /\ Give(<<m>>)
    BY <1>5 DEF Finish
  <2>2. /\ m.to = "AuditEntry" /\ EntryOf(m).id.type = outcome
        /\ EntryOf(m).about = r /\ EntryOf(m).id.of = r
    BY <2>1 DEF EntryOf, ToAudit, To
  <2>3. PICK messages : /\ messages = <<m>> /\ IsSequence(messages)
                        /\ Elements(messages) = {m}
    BY Tuples
  <2>4. Told' = Told \cup {EntryOf(m)}
    BY <1>1, <2>1, <2>2, <2>3, OneTold
  <2>5. Changed("Registration", r) \/ UNCHANGED version
    BY <1>5 DEF Finish
  <2>. QED BY <1>3, <2>2, <2>4, <2>5
<1>6. CASE OnResourceAlreadyExists \/ OnResourceAdded \/ OnResourceDeleted
  <2>1. PICK outcome \in {"ResourceRegistered", "ResourceRegistrationFailed"} :
          /\ Finish(r, outcome)
          /\ outcome = "ResourceRegistered" <=> received.type = "ResourceAdded"
    BY <1>0, <1>6, Took
       DEF OnResourceAlreadyExists, OnResourceAdded, OnResourceDeleted
  <2>. QED BY <1>0, <1>1, <1>5, <2>1
<1>. QED BY <1>4, <1>6 DEF RegistrationActs

(* What a resource tells, and when its policy changes.                     *)
LEMMA ResourceTells ==
  ASSUME Known, Known', PoliciesFollow, ResourceActs
  PROVE  /\ UNCHANGED <<organization, registration, catalog, trail>>
         /\ \A o \in Resource :
              version'["Resource"][o] >= version["Resource"][o]
         /\ \/ /\ Told' = Told
               /\ \A o \in Resource : resource'[o].open = resource[o].open
            \/ \E r \in Resource : \E entry :
                 /\ Told' = Told \cup {entry}
                 /\ entry.about = r /\ entry.id.of = r
                 /\ entry.id.version = version["Resource"][r]
                 /\ version'["Resource"][r] > version["Resource"][r]
                 /\ \A o \in Resource :
                      o # r => resource'[o].open = resource[o].open
                 /\ resource'[r].open = ~resource[r].open
                 /\ entry.id.type = (IF resource'[r].open
                                     THEN "ResourceOpenedForRequests"
                                     ELSE "ResourceClosedForRequests")
                 /\ resource[r].name # NoName
<1>0. PICK r : r = received.resource
  OBVIOUS
<1>1. /\ inbox # <<>> /\ Head(inbox).to = "Resource" /\ r \in Resource
      /\ Head(inbox).signal = received /\ Head(inbox) \in Elements(inbox)
  <2>1. PICK types : Receives("Resource", types)
    BY DEF ResourceActs, CreateResource, DeleteResource, SetOpen
  <2>2. /\ inbox # <<>> /\ Head(inbox) \in Elements(inbox)
        /\ Head(inbox).to = "Resource" /\ Head(inbox).signal = received
        /\ Sound(Head(inbox))
    BY <2>1, Took
  <2>. QED BY <1>0, <2>2 DEF Sound
<1>2. UNCHANGED <<organization, registration, catalog, trail>>
  BY DEF ResourceActs, CreateResource, DeleteResource, SetOpen, Drop,
         entities, audited
<1>3. /\ version \in [{"Registration", "Resource"} -> [Resource -> Nat]]
      /\ resource \in [Resource -> Offered]
  BY DEF Known, TypeOK
<1>4. ASSUME Changed("Resource", r)
      PROVE  /\ \A o \in Resource :
                  version'["Resource"][o] >= version["Resource"][o]
             /\ version'["Resource"][r] > version["Resource"][r]
  <2>1. /\ version["Resource"] \in [Resource -> Nat]
        /\ version'["Resource"] =
             [version["Resource"] EXCEPT ![r] = @ + 1]
    BY <1>1, <1>3, <1>4 DEF Changed
  <2>. QED BY <1>1, <2>1
<1>5. UNCHANGED version => \A o \in Resource :
        version'["Resource"][o] >= version["Resource"][o]
  BY <1>3
<1>6. ASSUME NEW messages, IsSequence(messages), Give(messages),
             \A m \in Elements(messages) : m.to # "AuditEntry"
      PROVE  Told' = Told
  <2>1. Speaks("Resource", {m.to : m \in Elements(messages)})
    BY <1>1, <1>6, GivenSpeaks
  <2>. QED BY <1>2, <1>6, <2>1, NothingTold
<1>7. CASE Drop
  <2>1. Told' = Told
    BY <1>6, <1>7, Tuples DEF Drop
  <2>. QED BY <1>2, <1>5, <1>7, <2>1 DEF Drop, entities, audited
<1>8. CASE CreateResource
  <2>1. \/ /\ resource[r].name = NoName /\ Changed("Resource", r)
           /\ resource' = [resource EXCEPT ![r].name = received.name,
                                           ![r].open = FALSE]
        \/ UNCHANGED <<resource, version>>
    BY <1>0, <1>8 DEF CreateResource, entities, audited
  <2>2. \/ \E e : Give(<<To("Registration", e), To("Catalog", e)>>)
        \/ \E e : Give(<<To("Registration", e)>>)
    BY <1>8 DEF CreateResource
  <2>3. Told' = Told
    <3>1. ASSUME NEW e, Give(<<To("Registration", e), To("Catalog", e)>>)
          PROVE  Told' = Told
      <4>1. PICK m, n : /\ m.to = "Registration" /\ n.to = "Catalog"
                        /\ Give(<<m, n>>)
        BY <3>1 DEF To
      <4>. QED BY <1>6, <4>1, Tuples
    <3>2. ASSUME NEW e, Give(<<To("Registration", e)>>)
          PROVE  Told' = Told
      <4>1. PICK m : m.to = "Registration" /\ Give(<<m>>)
        BY <3>2 DEF To
      <4>. QED BY <1>6, <4>1, Tuples
    <3>. QED BY <2>2, <3>1, <3>2
  <2>4. \A o \in Resource : resource'[o].open = resource[o].open
    <3>1. resource[r].name = NoName => resource[r].open = FALSE
      BY <1>1, <1>3 DEF PoliciesFollow, Offered
    <3>2. CASE UNCHANGED <<resource, version>>
      BY <3>2
    <3>3. CASE /\ resource[r].name = NoName
               /\ resource' = [resource EXCEPT ![r].name = received.name,
                                               ![r].open = FALSE]
      <4>1. resource'[r].open = FALSE
        BY <1>1, <1>3, <3>3 DEF Offered
      <4>2. \A o \in Resource : o # r => resource'[o] = resource[o]
        BY <1>1, <1>3, <3>3
      <4>. QED BY <3>1, <3>3, <4>1, <4>2
    <3>. QED BY <2>1, <3>2, <3>3
  <2>. QED BY <1>2, <1>4, <1>5, <2>1, <2>3, <2>4
<1>9. CASE DeleteResource
  <2>1. \E e : Give(<<To("Registration", e), To("Catalog", e)>>)
    BY <1>9 DEF DeleteResource
  <2>2. PICK m, n : /\ m.to = "Registration" /\ n.to = "Catalog"
                    /\ Give(<<m, n>>)
    BY <2>1 DEF To
  <2>3. Told' = Told
    BY <1>6, <2>2, Tuples
  <2>4. \A o \in Resource : resource'[o].open = resource[o].open
    BY <1>0, <1>1, <1>3, <1>9 DEF DeleteResource, Offered
  <2>5. Changed("Resource", r)
    BY <1>0, <1>9 DEF DeleteResource
  <2>. QED BY <1>2, <1>4, <2>3, <2>4, <2>5
<1>10. CASE SetOpen /\ ~Drop
  <2>1. PICK open, type :
          /\ open = OpensBy(received.type) /\ open \in BOOLEAN
          /\ type = (IF open THEN "ResourceOpenedForRequests"
                             ELSE "ResourceClosedForRequests")
    BY DEF OpensBy
  <2>2. /\ resource[r].open # open
        /\ resource' = [resource EXCEPT ![r].open = open]
        /\ Changed("Resource", r)
    BY <1>0, <1>10, <2>1 DEF SetOpen
  <2>3. PICK m, n :
          /\ Give(<<m, n>>)
          /\ m = To("Catalog", [type |-> type, resource |-> r,
                                open |-> open, by |-> received.by])
          /\ n = ToAudit("Resource", r, version["Resource"][r], type, r)
    BY <1>0, <1>10, <2>1 DEF SetOpen
  <2>4. PICK entry : entry = EntryOf(n)
    OBVIOUS
  <2>5. /\ m.to = "Catalog" /\ n.to = "AuditEntry"
        /\ entry.about = r /\ entry.id.of = r /\ entry.id.type = type
        /\ entry.id.version = version["Resource"][r]
    BY <2>3, <2>4 DEF EntryOf, ToAudit, To
  <2>6. Told' = Told \cup {entry}
    <3>1. PICK messages : /\ messages = <<m, n>> /\ IsSequence(messages)
                          /\ Elements(messages) = {m, n}
      BY Tuples
    <3>. QED BY <1>1, <1>2, <2>3, <2>4, <2>5, <3>1, OneTold
  <2>7. /\ resource'[r].open = open
        /\ \A o \in Resource : o # r => resource'[o].open = resource[o].open
    BY <1>1, <1>3, <2>1, <2>2 DEF Offered
  <2>8. resource[r].open \in BOOLEAN
    BY <1>1, <1>3 DEF Offered
  <2>9. resource'[r].open = ~resource[r].open
    BY <2>1, <2>2, <2>7, <2>8
  <2>10. resource[r].name # NoName
    <3>1. received.type \in {"OpenResourceForRequests",
                             "CloseResourceForRequests"}
      BY <1>10, Took DEF SetOpen
    <3>. QED BY <1>0, <1>1, <3>1 DEF PoliciesFollow
  <2>. QED BY <1>1, <1>2, <1>4, <2>1, <2>2, <2>5, <2>6, <2>7, <2>9, <2>10
<1>. QED BY <1>7, <1>8, <1>9, <1>10 DEF ResourceActs

(* What the others tell of nothing.                                        *)
LEMMA OthersTell ==
  ASSUME Known, Known', \/ ViewActs \/ CatalogActs
                        \/ \E command \in ClientCommand : Post(command)
  PROVE  Told' = Told /\ UNCHANGED <<organization, resource, audited>>
<1>1. UNCHANGED audited
  BY DEF ViewActs, ShowOrganization, ShowMember, ShowResource, CatalogActs,
         ListResource, DelistResource, ShowPolicy, Post, entities
<1>2. UNCHANGED trail
  BY <1>1 DEF audited
<1>3. CASE ViewActs
  BY <1>1, <1>2, <1>3, ViewSpeaks, NothingTold
<1>4. CASE CatalogActs
  BY <1>1, <1>2, <1>4, CatalogSpeaks, NothingTold
<1>5. ASSUME NEW command \in ClientCommand, Post(command)
      PROVE  Told' = Told /\ UNCHANGED <<organization, resource, audited>>
  BY <1>1, <1>2, <1>5, ClientSpeaks, NothingTold
<1>. QED BY <1>3, <1>4, <1>5

(* The openings and closings of a resource that a step tells nothing of.   *)
LEMMA TurnsKept ==
  ASSUME Known, Known', NEW r \in Resource, TakeTurns(r), LastTurn(r),
         \A type \in PolicyType : ToldOf(r, {type})' = ToldOf(r, {type}),
         resource'[r].open = resource[r].open,
         version'["Resource"][r] >= version["Resource"][r]
  PROVE  TakeTurns(r)' /\ LastTurn(r)'
<1>1. TakeTurns(r)'
  BY DEF TakeTurns, PolicyType
<1>2. ToldOf(r, PolicyType)' = ToldOf(r, PolicyType)
  <2>1. ToldOf(r, PolicyType) = ToldOf(r, {"ResourceOpenedForRequests"})
          \cup ToldOf(r, {"ResourceClosedForRequests"})
    BY DEF ToldOf, PolicyType
  <2>2. ToldOf(r, PolicyType)' = ToldOf(r, {"ResourceOpenedForRequests"})'
          \cup ToldOf(r, {"ResourceClosedForRequests"})'
    BY DEF ToldOf, PolicyType
  <2>. QED BY <2>1, <2>2 DEF PolicyType
<1>3. /\ version["Resource"][r] \in Nat /\ version'["Resource"][r] \in Nat
      /\ \A entry \in ToldOf(r, PolicyType) : entry.id.version \in Nat
  BY ToldAre DEF Known, TypeOK, ToldOf
<1>4. LastTurn(r)'
  BY <1>2, <1>3 DEF LastTurn
<1>. QED BY <1>1, <1>4

(* A further turn, with the version the resource has left behind.          *)
LEMMA TurnTaken ==
  ASSUME Known, Known', NEW r \in Resource, TakeTurns(r), LastTurn(r),
         NEW entry, Told' = Told \cup {entry},
         entry.about = r, entry.id.version = version["Resource"][r],
         version'["Resource"][r] > version["Resource"][r],
         resource'[r].open = ~resource[r].open,
         entry.id.type = (IF resource'[r].open
                          THEN "ResourceOpenedForRequests"
                          ELSE "ResourceClosedForRequests")
  PROVE  TakeTurns(r)' /\ LastTurn(r)'
<1> DEFINE opened == ToldOf(r, {"ResourceOpenedForRequests"})
           closed == ToldOf(r, {"ResourceClosedForRequests"})
           turns == ToldOf(r, PolicyType)
<1>1. /\ version["Resource"][r] \in Nat /\ version'["Resource"][r] \in Nat
      /\ \A other \in turns : other.id.version \in Nat
      /\ resource[r].open \in BOOLEAN
  BY ToldAre DEF Known, TypeOK, ToldOf, Offered
<1>2. \A other \in turns : other.id.version < entry.id.version
  BY DEF LastTurn
<1>3. entry \notin turns
  BY <1>1, <1>2
<1>4. entry \notin opened /\ entry \notin closed
  BY <1>3 DEF ToldOf, PolicyType
<1>5. /\ turns' = turns \cup {entry}
      /\ opened' = (IF resource'[r].open THEN opened \cup {entry} ELSE opened)
      /\ closed' = (IF resource'[r].open THEN closed ELSE closed \cup {entry})
  BY <1>1 DEF ToldOf, PolicyType
<1>6. /\ IsFiniteSet(opened) /\ IsFiniteSet(closed)
      /\ Cardinality(opened) =
           Cardinality(closed) + (IF resource[r].open THEN 1 ELSE 0)
  BY DEF TakeTurns
<1>7. /\ Cardinality(opened) \in Nat /\ Cardinality(closed) \in Nat
      /\ IsFiniteSet(opened \cup {entry}) /\ IsFiniteSet(closed \cup {entry})
      /\ Cardinality(opened \cup {entry}) = Cardinality(opened) + 1
      /\ Cardinality(closed \cup {entry}) = Cardinality(closed) + 1
  BY <1>4, <1>6, FS_CardinalityType, FS_AddElement
<1>8. TakeTurns(r)'
  <2>1. /\ IsFiniteSet(opened') /\ IsFiniteSet(closed')
        /\ Cardinality(opened') =
             Cardinality(closed') + (IF resource'[r].open THEN 1 ELSE 0)
    <3> HIDE DEF opened, closed, turns
    <3>1. CASE resource'[r].open
      <4>1. /\ opened' = opened \cup {entry} /\ closed' = closed
            /\ ~resource[r].open
        BY <1>5, <3>1
      <4>2. Cardinality(opened) = Cardinality(closed) + 0
        BY <1>6, <4>1
      <4>3. Cardinality(opened \cup {entry}) = Cardinality(closed) + 1
        BY <1>7, <4>2
      <4>. QED BY <1>6, <1>7, <3>1, <4>1, <4>3
    <3>2. CASE ~resource'[r].open
      <4>1. /\ opened' = opened /\ closed' = closed \cup {entry}
            /\ resource[r].open
        BY <1>1, <1>5, <3>2
      <4>2. Cardinality(opened) = Cardinality(closed) + 1
        BY <1>6, <4>1
      <4>3. Cardinality(opened) = Cardinality(closed \cup {entry}) + 0
        BY <1>7, <4>2
      <4>. QED BY <1>6, <1>7, <3>2, <4>1, <4>3
    <3>. QED BY <3>1, <3>2
  <2>. QED BY <2>1 DEF TakeTurns
<1>9. LastTurn(r)'
  <2>1. /\ \A other \in turns' : other.id.version < version'["Resource"][r]
        /\ \A one, other \in turns' :
             one.id.version = other.id.version => one = other
    BY <1>1, <1>2, <1>5 DEF LastTurn
  <2>2. /\ entry \in turns'
        /\ \A other \in turns' : other.id.version <= entry.id.version
    BY <1>1, <1>2, <1>5
  <2>3. resource'[r].open <=> entry.id.type = "ResourceOpenedForRequests"
    BY <1>1
  <2>. QED BY <2>1, <2>2, <2>3 DEF LastTurn
<1>. QED BY <1>8, <1>9

(* Each step keeps the turns.                                              *)
LEMMA TurnsStay ==
  ASSUME Known, Known', Audited, [Next]_vars
  PROVE  TurnsAudited'
<1>1. ASSUME NEW r \in Resource
      PROVE  TakeTurns(r) /\ LastTurn(r)
  BY DEF Audited, TurnsAudited
<1>2. \A entry \in Told : entry.id.type \in PolicyType =>
        entry.about = entry.id.of /\ entry.about \in Resource
  BY DEF Audited, TurnsAudited
<1>3. \A o \in Resource : version["Resource"][o] \in Nat
  BY DEF Known, TypeOK
<1>4. ASSUME \A r \in Resource : \A type \in PolicyType :
                ToldOf(r, {type})' = ToldOf(r, {type}),
             \A r \in Resource :
               /\ resource'[r].open = resource[r].open
               /\ version'["Resource"][r] >= version["Resource"][r]
      PROVE  \A r \in Resource : TakeTurns(r)' /\ LastTurn(r)'
  BY <1>1, <1>4, TurnsKept
<1>5. CASE Told' = Told /\ UNCHANGED <<resource, version>>
  <2>1. \A r, types : ToldOf(r, types)' = ToldOf(r, types)
    BY <1>5 DEF ToldOf
  <2>. QED BY <1>2, <1>3, <1>4, <1>5, <2>1 DEF TurnsAudited
<1>6. CASE OrganizationActs
  <2>1. /\ UNCHANGED <<resource, audited>>
        /\ \/ Told' = Told
           \/ \E entry : /\ Told' = Told \cup {entry}
                         /\ entry.id.type = "OrganizationMemberAdded"
    BY <1>6, OrganizationTells
  <2>2. \A r \in Resource : \A type \in PolicyType :
          ToldOf(r, {type})' = ToldOf(r, {type})
    BY <2>1 DEF ToldOf, PolicyType
  <2>3. \A entry \in Told' : entry.id.type \in PolicyType =>
          entry.about = entry.id.of /\ entry.about \in Resource
    BY <1>2, <2>1 DEF PolicyType
  <2>. QED BY <1>3, <1>4, <2>1, <2>2, <2>3 DEF TurnsAudited, audited
<1>7. CASE RegistrationActs
  <2>1. /\ UNCHANGED resource /\ version'["Resource"] = version["Resource"]
        /\ \/ Told' = Told
           \/ \E entry : /\ Told' = Told \cup {entry}
                         /\ entry.id.type \in {"ResourceRegistered",
                                               "ResourceRegistrationFailed"}
    BY <1>7, RegistrationTells
  <2>2. \A r \in Resource : \A type \in PolicyType :
          ToldOf(r, {type})' = ToldOf(r, {type})
    BY <2>1 DEF ToldOf, PolicyType
  <2>3. \A entry \in Told' : entry.id.type \in PolicyType =>
          entry.about = entry.id.of /\ entry.about \in Resource
    BY <1>2, <2>1 DEF PolicyType
  <2>. QED BY <1>3, <1>4, <2>1, <2>2, <2>3 DEF TurnsAudited
<1>8. CASE ResourceActs
  <2>1. \A o \in Resource :
          version'["Resource"][o] >= version["Resource"][o]
    BY <1>8, ResourceTells DEF Audited
  <2>2. CASE /\ Told' = Told
             /\ \A o \in Resource : resource'[o].open = resource[o].open
    <3>1. \A r, types : ToldOf(r, types)' = ToldOf(r, types)
      BY <2>2 DEF ToldOf
    <3>. QED BY <1>2, <1>4, <2>1, <2>2, <3>1 DEF TurnsAudited
  <2>3. ASSUME NEW r \in Resource, NEW entry,
               Told' = Told \cup {entry},
               entry.about = r /\ entry.id.of = r,
               entry.id.version = version["Resource"][r],
               version'["Resource"][r] > version["Resource"][r],
               \A o \in Resource :
                 o # r => resource'[o].open = resource[o].open,
               resource'[r].open = ~resource[r].open,
               entry.id.type = (IF resource'[r].open
                                THEN "ResourceOpenedForRequests"
                                ELSE "ResourceClosedForRequests")
        PROVE  TurnsAudited'
    <3>1. TakeTurns(r)' /\ LastTurn(r)'
      BY <1>1, <2>3, TurnTaken
    <3>2. ASSUME NEW o \in Resource, o # r
          PROVE  TakeTurns(o)' /\ LastTurn(o)'
      <4>1. \A type \in PolicyType : ToldOf(o, {type})' = ToldOf(o, {type})
        BY <2>3, <3>2 DEF ToldOf
      <4>. QED BY <1>1, <2>1, <2>3, <3>2, <4>1, TurnsKept
    <3>3. \A other \in Told' : other.id.type \in PolicyType =>
            other.about = other.id.of /\ other.about \in Resource
      BY <1>2, <2>3
    <3>. QED BY <3>1, <3>2, <3>3 DEF TurnsAudited
  <2>. QED BY <1>8, <2>2, <2>3, ResourceTells DEF Audited
<1>9. CASE RecordAction
  <2>1. /\ Told' \subseteq Told
        /\ \A entry \in Told : \E kept \in Told' : kept.id = entry.id
    BY <1>9, StillTold
  <2>2. UNCHANGED <<resource, version>>
    BY <1>9 DEF RecordAction
  <2>3. ASSUME NEW r \in Resource, NEW type \in PolicyType
        PROVE  ToldOf(r, {type})' = ToldOf(r, {type})
    <3>1. ASSUME NEW entry \in ToldOf(r, {type})
          PROVE  entry \in Told'
      <4>1. PICK kept \in Told' : kept.id = entry.id
        BY <2>1, <3>1 DEF ToldOf
      <4>2. /\ kept \in ToldOf(r, PolicyType)
            /\ entry \in ToldOf(r, PolicyType)
        BY <1>2, <2>1, <2>3, <3>1, <4>1 DEF ToldOf
      <4>3. kept = entry
        BY <1>1, <4>1, <4>2 DEF LastTurn
      <4>. QED BY <4>1, <4>3
    <3>. QED BY <2>1, <3>1 DEF ToldOf
  <2>. QED BY <1>2, <1>3, <1>4, <2>1, <2>2, <2>3 DEF TurnsAudited
<1>10. CASE UNCHANGED vars
  <2>1. Told' = Told
    BY <1>10 DEF vars, entities, audited, Told, EntryOf, Elements
  <2>. QED BY <1>5, <1>10, <2>1 DEF vars, entities, audited
<1>11. CASE \/ ViewActs \/ CatalogActs
            \/ \E command \in ClientCommand : Post(command)
  BY <1>5, <1>11, OthersTell DEF audited
<1>. QED BY <1>6, <1>7, <1>8, <1>9, <1>10, <1>11, NextIs

(* Each step keeps what is told of the members.                            *)
LEMMA MembersStayAudited ==
  ASSUME Known, Known', Audited, [Next]_vars
  PROVE  MembersAudited'
<1>1. /\ OrganizationVersion \in Nat /\ OrganizationVersion' \in Nat
      /\ \A entry \in Told : entry.id.version \in Nat
  <2>1. organization \in Organization /\ organization' \in Organization
    BY DEF Known, TypeOK
  <2>2. OrganizationVersion \in Nat
    BY <2>1, OrganizationVersionIs DEF OrganizationVersion
  <2>3. OrganizationVersion' \in Nat
    BY <2>1, OrganizationVersionIs DEF OrganizationVersion
  <2>. QED BY <2>2, <2>3, ToldAre
<1>2. MembersAudited
  BY DEF Audited
<1>3. ASSUME ToldMembers' = ToldMembers,
             Range(organization'.member) = Range(organization.member),
             OrganizationVersion' >= OrganizationVersion
      PROVE  MembersAudited'
  <2>1. \A entry \in ToldMembers : entry.id.version < OrganizationVersion'
    BY <1>1, <1>2, <1>3 DEF MembersAudited, ToldMembers
  <2>. QED BY <1>2, <1>3, <2>1 DEF MembersAudited
<1>4. ASSUME UNCHANGED organization, ToldMembers' = ToldMembers
      PROVE  MembersAudited'
  <2>1. OrganizationVersion' = OrganizationVersion
    BY <1>4 DEF OrganizationVersion
  <2>. QED BY <1>1, <1>3, <1>4, <2>1
<1>5. CASE OrganizationActs
  <2>1. OrganizationVersion' >= OrganizationVersion
    BY <1>5, OrganizationTells
  <2>2. CASE Told' = Told /\ organization'.member = organization.member
    <3>1. ToldMembers' = ToldMembers
      BY <2>2 DEF ToldMembers
    <3>. QED BY <1>3, <2>1, <2>2, <3>1
  <2>3. ASSUME NEW entry,
               Told' = Told \cup {entry},
               entry.id.type = "OrganizationMemberAdded",
               entry.id.version = OrganizationVersion,
               OrganizationVersion' > OrganizationVersion,
               entry.about \notin Range(organization.member),
               Range(organization'.member) =
                 Range(organization.member) \cup {entry.about}
        PROVE  MembersAudited'
    <3>1. ToldMembers' = ToldMembers \cup {entry}
      BY <2>3 DEF ToldMembers
    <3>2. \A other \in ToldMembers :
            /\ other.about # entry.about /\ other.id # entry.id
            /\ other.id.version < OrganizationVersion'
      BY <1>1, <1>2, <2>3 DEF MembersAudited, ToldMembers
    <3>. QED BY <1>1, <1>2, <2>3, <3>1, <3>2 DEF MembersAudited
  <2>. QED BY <1>5, <2>2, <2>3, OrganizationTells
<1>6. CASE RegistrationActs
  <2>1. /\ UNCHANGED organization
        /\ \/ Told' = Told
           \/ \E entry : /\ Told' = Told \cup {entry}
                         /\ entry.id.type \in {"ResourceRegistered",
                                               "ResourceRegistrationFailed"}
    BY <1>6, RegistrationTells
  <2>2. ToldMembers' = ToldMembers
    BY <2>1 DEF ToldMembers
  <2>. QED BY <1>4, <2>1, <2>2
<1>7. CASE ResourceActs
  <2>1. /\ UNCHANGED organization
        /\ \/ Told' = Told
           \/ \E entry : /\ Told' = Told \cup {entry}
                         /\ entry.id.type # "OrganizationMemberAdded"
    BY <1>7, ResourceTells DEF Audited
  <2>2. ToldMembers' = ToldMembers
    BY <2>1 DEF ToldMembers
  <2>. QED BY <1>4, <2>1, <2>2
<1>8. CASE RecordAction
  <2>1. /\ Told' \subseteq Told
        /\ \A entry \in Told : \E kept \in Told' : kept.id = entry.id
    BY <1>8, StillTold
  <2>2. ASSUME NEW entry \in ToldMembers
        PROVE  entry \in Told'
    <3>1. PICK kept \in Told' : kept.id = entry.id
      BY <2>1, <2>2 DEF ToldMembers
    <3>2. kept \in ToldMembers
      BY <2>1, <2>2, <3>1 DEF ToldMembers
    <3>3. kept = entry
      BY <1>2, <2>2, <3>1, <3>2 DEF MembersAudited
    <3>. QED BY <3>1, <3>3
  <2>3. ToldMembers' = ToldMembers
    BY <2>1, <2>2 DEF ToldMembers
  <2>. QED BY <1>4, <1>8, <2>3 DEF RecordAction
<1>9. CASE \/ UNCHANGED vars \/ ViewActs \/ CatalogActs
           \/ \E command \in ClientCommand : Post(command)
  <2>1. Told' = Told /\ UNCHANGED organization
    BY <1>9, OthersTell
       DEF vars, entities, audited, Told, EntryOf, Elements
  <2>2. ToldMembers' = ToldMembers
    BY <2>1 DEF ToldMembers
  <2>. QED BY <1>4, <2>1, <2>2
<1>. QED BY <1>5, <1>6, <1>7, <1>8, <1>9, NextIs

(* Who adds a resource to the organization announces it.                   *)
LEMMA AddResourceAnnounces ==
  ASSUME Known, Known', AddResource
  PROVE  \E messages :
           /\ IsSequence(messages) /\ Give(messages)
           /\ \A m \in Elements(messages) :
                /\ m.to \in {"OrganizationView", "Registration"}
                /\ m.signal.type = "ResourceAdded" =>
                     m.signal.resource \in RecordedIds'
           /\ \A r \in RecordedIds' : r \in RecordedIds \/
                \E m \in Elements(messages) :
                  /\ m.to = "Registration" /\ m.signal.resource = r
                  /\ m.signal.type = "ResourceAdded"
<1>0. PICK r, name : r = received.resource /\ name = received.name
  OBVIOUS
<1>1. /\ organization \in Organization
      /\ organization.resource \in Seq(Recorded)
      /\ [id |-> r, name |-> name] \in Recorded
  <2>1. /\ Head(inbox).to = "Organization" /\ Head(inbox).signal = received
        /\ received.type = "AddResource" /\ Sound(Head(inbox))
    BY Took DEF AddResource
  <2>. QED BY <1>0, <2>1 DEF Known, TypeOK, Organization, Recorded, Sound
<1>2. PICK m, n :
        /\ ResourceAdded(r, name) = <<m, n>>
        /\ m.to = "OrganizationView" /\ n.to = "Registration"
        /\ m.signal = n.signal
        /\ m.signal = [type |-> "ResourceAdded", resource |-> r,
                       name |-> name, by |-> received.by]
  BY AnnouncedAre
<1>3. PICK messages : /\ messages = <<m, n>> /\ IsSequence(messages)
                      /\ Elements(messages) = {m, n}
  BY Tuples
<1>4. \A e \in Elements(messages) :
        /\ e.to \in {"OrganizationView", "Registration"}
        /\ e.signal.type = "ResourceAdded" /\ e.signal.resource = r
  <2>1. /\ m.signal.type = "ResourceAdded" /\ m.signal.resource = r
        /\ n.signal.type = "ResourceAdded" /\ n.signal.resource = r
    BY <1>2
  <2>. QED BY <1>2, <1>3, <2>1
<1>5. /\ n \in Elements(messages) /\ n.to = "Registration"
      /\ n.signal.type = "ResourceAdded" /\ n.signal.resource = r
  BY <1>2, <1>3
<1>6. CASE AlreadyRecorded(r) /\ Give(<<m, n>>) /\ UNCHANGED entities
  <2>1. r \in RecordedIds /\ RecordedIds' = RecordedIds
    BY <1>6 DEF AlreadyRecorded, RecordedIds, entities
  <2>. QED BY <1>3, <1>6, <1>4, <2>1
<1>7. ASSUME NEW e, Give(<<e>>), UNCHANGED entities, e.to = "Registration",
             e.signal.type = "OrganizationResourceNameAlreadyUsed"
      PROVE  \E given :
               /\ IsSequence(given) /\ Give(given)
               /\ \A o \in Elements(given) :
                    /\ o.to = "Registration"
                    /\ o.signal.type # "ResourceAdded"
               /\ RecordedIds' = RecordedIds
  <2>1. RecordedIds' = RecordedIds
    BY <1>7 DEF RecordedIds, entities
  <2>. QED BY <1>7, <2>1, Tuples
<1>8. CASE /\ organization' = [organization EXCEPT
                !.resource = Append(@, [id |-> r, name |-> name])]
           /\ Give(<<m, n>>)
  <2>1. organization'.resource =
          Append(organization.resource, [id |-> r, name |-> name])
    BY <1>1, <1>8 DEF Organization
  <2>2. Range(organization'.resource) =
          Range(organization.resource) \cup {[id |-> r, name |-> name]}
    BY <1>1, <2>1, Ranges
  <2>3. RecordedIds' = RecordedIds \cup {r}
    <3>1. [id |-> r, name |-> name].id = r
      OBVIOUS
    <3>2. RecordedIds' = {kept.id : kept \in Range(organization'.resource)}
      BY DEF RecordedIds
    <3>. QED BY <2>2, <3>1, <3>2 DEF RecordedIds
  <2>. QED BY <1>3, <1>8, <1>4, <1>5, <2>3
<1>9. \/ AlreadyRecorded(r) /\ Give(<<m, n>>) /\ UNCHANGED entities
      \/ /\ organization' = [organization EXCEPT
                !.resource = Append(@, [id |-> r, name |-> name])]
         /\ Give(<<m, n>>)
      \/ \E e : /\ Give(<<e>>) /\ e.to = "Registration"
                /\ e.signal.type = "OrganizationResourceNameAlreadyUsed"
                /\ UNCHANGED entities
  BY <1>0, <1>2 DEF AddResource, To, About
<1>. QED BY <1>6, <1>7, <1>8, <1>9

(* What a step puts into the inbox agrees with what was done.              *)
Agreed(m) ==
  LET s == m.signal IN
  /\ m.to = "Registration" /\ s.type = "ResourceAdded" =>
       s.resource \in RecordedIds'
  /\ m.to = "Resource" /\ s.type \in {"OpenResourceForRequests",
                                      "CloseResourceForRequests"} =>
       s.resource \in Resource /\ resource[s.resource].name # NoName

Agreeing ==
  \E messages : \E left \in {0, 1} :
    /\ IsSequence(messages) /\ Came(left, messages)
    /\ \A m \in Elements(messages) : Agreed(m)
    /\ left = 1 => inbox # <<>>
    /\ \A r \in RecordedIds' : r \in RecordedIds \/
         \E m \in Elements(messages) :
           /\ m.to = "Registration" /\ m.signal.resource = r
           /\ m.signal.type = "ResourceAdded"

(* A handler that records no resource.                                     *)
LEMMA AgreeingGiven ==
  ASSUME Known, inbox # <<>>, RecordedIds' = RecordedIds,
         NEW messages, IsSequence(messages), Give(messages),
         \A m \in Elements(messages) : Agreed(m)
  PROVE  Agreeing
<1>1. PICK left \in {0, 1} : Came(left, messages)
  BY GiveIs DEF Known
<1>. QED BY <1>1 DEF Agreeing

(* Who speaks neither to registrations nor to resources.                   *)
LEMMA AgreeingApart ==
  ASSUME Known, UNCHANGED organization, NEW entity, Speaks(entity, {})
  PROVE  Agreeing
<1>1. PICK messages, left :
        /\ left \in {0, 1} /\ IsSequence(messages) /\ Came(left, messages)
        /\ \A m \in Elements(messages) : m.to \in {}
        /\ left = 1 => inbox # <<>> /\ Head(inbox).to = entity
  BY DEF Speaks
<1>2. RecordedIds' = RecordedIds
  BY DEF RecordedIds
<1>3. \A m \in Elements(messages) : Agreed(m)
  BY <1>1
<1>. QED BY <1>1, <1>2, <1>3 DEF Agreeing

LEMMA OrganizationAgrees ==
  ASSUME Known, Known', OrganizationActs
  PROVE  Agreeing
<1>1. CASE AddResource
  <2>1. PICK messages :
          /\ IsSequence(messages) /\ Give(messages)
          /\ \A m \in Elements(messages) :
               /\ m.to \in {"OrganizationView", "Registration"}
               /\ m.signal.type = "ResourceAdded" =>
                    m.signal.resource \in RecordedIds'
          /\ \A r \in RecordedIds' : r \in RecordedIds \/
               \E m \in Elements(messages) :
                 /\ m.to = "Registration" /\ m.signal.resource = r
                 /\ m.signal.type = "ResourceAdded"
    BY <1>1, AddResourceAnnounces
  <2>2. inbox # <<>>
    BY <1>1 DEF AddResource, Receives
  <2>3. PICK left \in {0, 1} : Came(left, messages)
    BY <2>1, <2>2, GiveIs DEF Known
  <2>4. \A m \in Elements(messages) : Agreed(m)
    BY <2>1 DEF Agreed
  <2>. QED BY <2>1, <2>2, <2>3, <2>4 DEF Agreeing
<1>2. CASE CreateOrganization \/ AddOrganizationMember
  <2>1. inbox # <<>>
    BY <1>2 DEF CreateOrganization, AddOrganizationMember, Receives
  <2>2. organization'.resource = organization.resource
    <3>1. organization \in Organization
      BY DEF Known, TypeOK
    <3>. QED BY <1>2, <3>1 DEF CreateOrganization, AddOrganizationMember,
                               Organization, Drop, entities
  <2>3. RecordedIds' = RecordedIds
    BY <2>2 DEF RecordedIds
  <2>4. CASE Drop
    BY <2>1, <2>3, <2>4, AgreeingGiven, Tuples DEF Drop
  <2>5. CASE CreateOrganization /\ ~Drop
    <3>1. PICK m : m.to = "OrganizationView" /\ Give(<<m>>)
      BY <2>5 DEF CreateOrganization, To
    <3>2. Agreed(m)
      BY <3>1 DEF Agreed
    <3>. QED BY <2>1, <2>3, <3>1, <3>2, AgreeingGiven, Tuples
  <2>6. CASE AddOrganizationMember /\ ~Drop
    <3>1. PICK m, n : /\ m.to = "OrganizationView" /\ n.to = "AuditEntry"
                      /\ Give(<<m, n>>)
      BY <2>6 DEF AddOrganizationMember, To, ToAudit
    <3>2. Agreed(m) /\ Agreed(n)
      BY <3>1 DEF Agreed
    <3>. QED BY <2>1, <2>3, <3>1, <3>2, AgreeingGiven, Tuples
  <2>. QED BY <1>2, <2>4, <2>5, <2>6
<1>. QED BY <1>1, <1>2 DEF OrganizationActs

LEMMA RegistrationAgrees ==
  ASSUME Known, Known', RegistrationActs
  PROVE  Agreeing
<1>1. inbox # <<>> /\ UNCHANGED organization
  BY Took, RegistrationSpeaks
     DEF RegistrationActs, RegisterResource,
     OnResourceRegistrationRequested, OnResourceCreated,
     OnOrganizationResourceNameAlreadyUsed, OnResourceAlreadyExists,
     OnResourceAdded, OnResourceDeleted
<1>2. \E m : /\ Give(<<m>>)
             /\ \/ m.to \in {"Organization", "AuditEntry"}
                \/ m.signal.type \in {"ResourceRegistrationRequested",
                                      "CreateResource", "DeleteResource"}
  <2>1. CASE RegisterResource \/ OnResourceRegistrationRequested
    <3>1. PICK asked, create :
            /\ asked = About("ResourceRegistrationRequested",
                             received.resource)
            /\ create = Naming("CreateResource", received.resource,
                               registration[received.resource].name)
      OBVIOUS
    <3>2. \/ Give(<<To("Registration", asked)>>)
          \/ Give(<<To("Resource", create)>>)
      BY <2>1, <3>1 DEF RegisterResource, OnResourceRegistrationRequested
    <3>3. /\ asked.type = "ResourceRegistrationRequested"
          /\ create.type = "CreateResource"
          /\ \A entity, e : To(entity, e).signal = e
      BY <3>1 DEF About, Naming, To
    <3>. QED BY <3>2, <3>3
  <2>2. CASE OnResourceCreated \/ OnOrganizationResourceNameAlreadyUsed
    <3>1. PICK delete : delete = About("DeleteResource", received.resource)
      OBVIOUS
    <3>2. \/ \E e : Give(<<To("Organization", e)>>)
          \/ Give(<<To("Resource", delete)>>)
      BY <2>2, <3>1
         DEF OnResourceCreated, OnOrganizationResourceNameAlreadyUsed
    <3>3. /\ delete.type = "DeleteResource"
          /\ \A entity, e : To(entity, e).signal = e
          /\ \A e : To("Organization", e).to = "Organization"
      BY <3>1 DEF About, To
    <3>. QED BY <3>2, <3>3
  <2>3. CASE \/ OnResourceAlreadyExists \/ OnResourceAdded
             \/ OnResourceDeleted
    <3>1. \E outcome : Finish(received.resource, outcome)
      BY <2>3 DEF OnResourceAlreadyExists, OnResourceAdded, OnResourceDeleted
    <3>2. \E e : Give(<<To("AuditEntry", e)>>)
      BY <3>1 DEF Finish, ToAudit
    <3>. QED BY <3>2 DEF To
  <2>. QED BY <2>1, <2>2, <2>3 DEF RegistrationActs
<1>3. PICK m : /\ Give(<<m>>)
               /\ \/ m.to \in {"Organization", "AuditEntry"}
                  \/ m.signal.type \in {"ResourceRegistrationRequested",
                                        "CreateResource", "DeleteResource"}
  BY <1>2
<1>4. Agreed(m)
  BY <1>3 DEF Agreed
<1>5. RecordedIds' = RecordedIds
  BY <1>1 DEF RecordedIds
<1>. QED BY <1>1, <1>3, <1>4, <1>5, AgreeingGiven, Tuples

LEMMA ResourceAgrees ==
  ASSUME Known, Known', ResourceActs
  PROVE  Agreeing
<1>1. inbox # <<>> /\ UNCHANGED organization
  BY Took, ResourceSpeaks
     DEF ResourceActs, CreateResource, DeleteResource, SetOpen
<1>2. RecordedIds' = RecordedIds
  BY <1>1 DEF RecordedIds
<1>3. ASSUME NEW m, NEW n, Give(<<m, n>>),
             n.to \in {"Catalog", "AuditEntry"},
             \/ m.to = "Catalog"
             \/ m.to = "Registration" /\ m.signal.type # "ResourceAdded"
      PROVE  Agreeing
  <2>1. Agreed(m) /\ Agreed(n)
    BY <1>3 DEF Agreed
  <2>. QED BY <1>1, <1>2, <1>3, <2>1, AgreeingGiven, Tuples
<1>4. ASSUME NEW m, Give(<<m>>), m.to = "Registration",
             m.signal.type # "ResourceAdded"
      PROVE  Agreeing
  <2>1. Agreed(m)
    BY <1>4 DEF Agreed
  <2>. QED BY <1>1, <1>2, <1>4, <2>1, AgreeingGiven, Tuples
<1>5. CASE Drop
  BY <1>1, <1>2, <1>5, AgreeingGiven, Tuples DEF Drop
<1>6. CASE CreateResource
  <2>1. PICK event, failure :
          /\ event = Naming("ResourceCreated", received.resource,
                            received.name)
          /\ failure = About("ResourceAlreadyExists", received.resource)
    OBVIOUS
  <2>2. \/ Give(<<To("Registration", event), To("Catalog", event)>>)
        \/ Give(<<To("Registration", failure)>>)
    BY <1>6, <2>1 DEF CreateResource
  <2>3. event.type # "ResourceAdded" /\ failure.type # "ResourceAdded"
    BY <2>1 DEF Naming, About
  <2>4. /\ \A e : To("Registration", e).to = "Registration"
        /\ \A e : To("Registration", e).signal = e
        /\ \A e : To("Catalog", e).to = "Catalog"
    BY DEF To
  <2>. QED BY <1>3, <1>4, <2>2, <2>3, <2>4
<1>7. CASE DeleteResource
  <2>1. PICK event : event = About("ResourceDeleted", received.resource)
    OBVIOUS
  <2>2. Give(<<To("Registration", event), To("Catalog", event)>>)
    BY <1>7, <2>1 DEF DeleteResource
  <2>3. event.type # "ResourceAdded"
    BY <2>1 DEF About
  <2>4. /\ \A e : To("Registration", e).to = "Registration"
        /\ \A e : To("Registration", e).signal = e
        /\ \A e : To("Catalog", e).to = "Catalog"
    BY DEF To
  <2>. QED BY <1>3, <2>2, <2>3, <2>4
<1>8. CASE SetOpen /\ ~Drop
  <2>1. \E e, f : Give(<<To("Catalog", e), To("AuditEntry", f)>>)
    BY <1>8 DEF SetOpen, ToAudit
  <2>2. /\ \A e : To("Catalog", e).to = "Catalog"
        /\ \A e : To("AuditEntry", e).to = "AuditEntry"
    BY DEF To
  <2>. QED BY <1>3, <2>1, <2>2
<1>. QED BY <1>5, <1>6, <1>7, <1>8 DEF ResourceActs

(* A policy is only changed once the catalog shows the resource.           *)
LEMMA ClientAgrees ==
  ASSUME Known, Known', CatalogFollows,
         NEW command \in ClientCommand, Post(command)
  PROVE  Agreeing
<1>1. command \in OrganizationCommand \cup RegisterCommand \cup PolicyCommand
  BY RegistrationConstants
<1>2. PICK m : /\ inbox' = Append(inbox, m) /\ m.signal = command
               /\ m.to \in {"Organization", "Registration", "Resource"}
  BY <1>1 DEF Post, To
<1>3. Agreed(m)
  <2>1. CASE command \in OrganizationCommand \cup RegisterCommand
    BY <1>2, <2>1 DEF Agreed, OrganizationCommand, RegisterCommand
  <2>2. CASE command \in PolicyCommand
    <3>1. command.resource \in Resource /\ command.type # "ResourceAdded"
      BY <2>2 DEF PolicyCommand
    <3>2. catalog[command.resource].name # NoName
      BY <2>2 DEF Post
    <3>3. resource[command.resource].name # NoName
      BY <3>1, <3>2 DEF CatalogFollows, Shown
    <3>. QED BY <1>2, <3>1, <3>3 DEF Agreed
  <2>. QED BY <1>1, <2>1, <2>2
<1>4. Came(0, <<m>>)
  BY <1>2, AppendIs DEF Known
<1>5. RecordedIds' = RecordedIds
  BY DEF RecordedIds, Post, entities
<1>. QED BY <1>3, <1>4, <1>5, Tuples DEF Agreeing

LEMMA StepAgrees ==
  ASSUME Known, Known', CatalogFollows, [Next]_vars
  PROVE  Agreeing
<1>1. CASE UNCHANGED vars
  <2>1. inbox' = inbox /\ organization' = organization
    BY <1>1 DEF vars, entities
  <2>2. Came(0, <<>>)
    <3>1. Len(inbox) \in Nat /\ Len(<<>>) = 0
      BY LenProperties DEF Known, IsSequence
    <3>. QED BY <2>1, <3>1 DEF Came
  <2>3. RecordedIds' = RecordedIds
    BY <2>1 DEF RecordedIds
  <2>. QED BY <2>2, <2>3, Tuples DEF Agreeing
<1>2. CASE ViewActs
  BY <1>2, ViewSpeaks, AgreeingApart
<1>3. CASE CatalogActs
  BY <1>3, CatalogSpeaks, AgreeingApart
<1>4. CASE RecordAction
  BY <1>4, TrailSpeaks, AgreeingApart
<1>. QED BY <1>1, <1>2, <1>3, <1>4, OrganizationAgrees, RegistrationAgrees,
            ResourceAgrees, ClientAgrees, NextIs

(* Each step keeps what is told of the registrations.                      *)
LEMMA RegistrationsStayAudited ==
  ASSUME Known, Known', CatalogFollows, Audited, [Next]_vars
  PROVE  RegistrationsAudited'
<1>1. RegistrationsAudited
  BY DEF Audited
<1>2. PICK messages, left :
        /\ left \in {0, 1} /\ IsSequence(messages) /\ Came(left, messages)
        /\ \A m \in Elements(messages) : Agreed(m)
        /\ left = 1 => inbox # <<>>
        /\ \A r \in RecordedIds' : r \in RecordedIds \/
             \E m \in Elements(messages) :
               /\ m.to = "Registration" /\ m.signal.resource = r
               /\ m.signal.type = "ResourceAdded"
  BY StepAgrees DEF Agreeing
<1>3. /\ Elements(inbox') \subseteq Elements(inbox) \cup Elements(messages)
      /\ Elements(messages) \subseteq Elements(inbox')
      /\ left = 0 => Elements(inbox) \subseteq Elements(inbox')
      /\ inbox # <<>> =>
           /\ Head(inbox) \in Elements(inbox)
           /\ Elements(inbox) \subseteq Elements(inbox') \cup {Head(inbox)}
  BY <1>2, CameElements DEF Known
<1>4. RecordedIds \subseteq RecordedIds'
  <2>1. Advancing
    BY KnownStep
  <2>. QED BY <2>1 DEF Advancing, RecordedIds
<1>5. \A m \in Elements(inbox') :
        m.to = "Registration" /\ m.signal.type = "ResourceAdded" =>
          m.signal.resource \in RecordedIds'
  BY <1>1, <1>2, <1>3, <1>4 DEF RegistrationsAudited, Agreed
<1>6. received = Head(inbox).signal
  BY DEF received
<1>7. \/ Told \subseteq Told'
      \/ /\ Told' \subseteq Told
         /\ \A entry \in Told : \E kept \in Told' : kept.id = entry.id
  <2>1. CASE UNCHANGED vars
    BY <2>1 DEF vars, entities, audited, Told, EntryOf, Elements
  <2>2. CASE OrganizationActs
    <3>1. \/ Told' = Told
          \/ \E entry : Told' = Told \cup {entry}
      BY <2>2, OrganizationTells
    <3>. QED BY <3>1
  <2>3. CASE RegistrationActs
    <3>1. \/ Told' = Told
          \/ \E entry : Told' = Told \cup {entry}
      BY <2>3, RegistrationTells
    <3>. QED BY <3>1
  <2>4. ResourceActs => Told \subseteq Told'
    BY ResourceTells DEF Audited
  <2>. QED BY <2>1, <2>2, <2>3, <2>4, OthersTell, StillTold, NextIs
<1>8. \A entry \in Told' : entry.id.type = "ResourceRegistered" =>
        entry.about = entry.id.of /\ entry.about \in RecordedIds'
  <2>1. ASSUME Told' \subseteq Told
        PROVE  \A entry \in Told' : entry.id.type = "ResourceRegistered" =>
                 entry.about = entry.id.of /\ entry.about \in RecordedIds'
    BY <1>1, <1>4, <2>1 DEF RegistrationsAudited
  <2>2. ASSUME NEW entry, Told' = Told \cup {entry},
               entry.id.type = "ResourceRegistered" =>
                 entry.about = entry.id.of /\ entry.about \in RecordedIds'
        PROVE  \A other \in Told' : other.id.type = "ResourceRegistered" =>
                 other.about = other.id.of /\ other.about \in RecordedIds'
    BY <1>1, <1>4, <2>2 DEF RegistrationsAudited
  <2>3. CASE UNCHANGED vars
    <3>1. Told' = Told
      BY <2>3 DEF vars, entities, audited, Told, EntryOf, Elements
    <3>. QED BY <2>1, <3>1
  <2>4. CASE OrganizationActs
    <3>1. \/ Told' = Told
          \/ \E entry : /\ Told' = Told \cup {entry}
                        /\ entry.id.type = "OrganizationMemberAdded"
      BY <2>4, OrganizationTells
    <3>. QED BY <2>1, <2>2, <3>1
  <2>5. CASE RegistrationActs
    <3>1. \/ Told' = Told
          \/ \E entry : /\ Told' = Told \cup {entry}
                        /\ entry.about = received.resource
                        /\ entry.id.of = received.resource
                        /\ entry.id.type = "ResourceRegistered" =>
                             received.type = "ResourceAdded"
      BY <2>5, RegistrationTells
    <3>2. inbox # <<>> /\ Head(inbox).to = "Registration"
      BY <2>5 DEF RegistrationActs, RegisterResource,
         OnResourceRegistrationRequested, OnResourceCreated,
         OnOrganizationResourceNameAlreadyUsed, OnResourceAlreadyExists,
         OnResourceAdded, OnResourceDeleted, Receives
    <3>3. received.type = "ResourceAdded" =>
            received.resource \in RecordedIds'
      BY <1>1, <1>3, <1>4, <1>6, <3>2 DEF RegistrationsAudited
    <3>. QED BY <2>1, <2>2, <3>1, <3>3
  <2>6. CASE ResourceActs
    <3>1. \/ Told' = Told
          \/ \E entry : /\ Told' = Told \cup {entry}
                        /\ entry.id.type # "ResourceRegistered"
      BY <2>6, ResourceTells DEF Audited
    <3>. QED BY <2>1, <2>2, <3>1
  <2>7. CASE \/ ViewActs \/ CatalogActs
             \/ \E command \in ClientCommand : Post(command)
    <3>1. Told' = Told
      BY <2>7, OthersTell
    <3>. QED BY <2>1, <3>1
  <2>8. CASE RecordAction
    <3>1. Told' \subseteq Told
      BY <2>8, StillTold
    <3>. QED BY <2>1, <3>1
  <2>. QED BY <2>3, <2>4, <2>5, <2>6, <2>7, <2>8, NextIs
<1>9. ASSUME NEW r, ToldOf(r, {"ResourceRegistered"}) # {}
      PROVE  ToldOf(r, {"ResourceRegistered"})' # {}
  <2>1. PICK entry \in Told :
          entry.about = r /\ entry.id.type = "ResourceRegistered"
    BY <1>9 DEF ToldOf
  <2>2. entry.id.of = r
    BY <1>1, <2>1 DEF RegistrationsAudited
  <2>3. PICK kept \in Told' : kept.id = entry.id
    BY <1>7, <2>1
  <2>4. kept.about = r /\ kept.id.type = "ResourceRegistered"
    BY <1>8, <2>1, <2>2, <2>3
  <2>. QED BY <2>3, <2>4 DEF ToldOf
<1>10. ASSUME NEW r \in RecordedIds'
       PROVE  \/ ToldOf(r, {"ResourceRegistered"})' # {}
              \/ Announced("Registration", r, "ResourceAdded")'
  <2>1. CASE \E m \in Elements(messages) :
               /\ m.to = "Registration" /\ m.signal.resource = r
               /\ m.signal.type = "ResourceAdded"
    BY <1>3, <2>1 DEF Announced
  <2>2. CASE r \in RecordedIds
    <3>1. CASE ToldOf(r, {"ResourceRegistered"}) # {}
      BY <1>9, <3>1
    <3>2. ASSUME NEW m \in Elements(inbox),
                 m.to = "Registration", m.signal.resource = r,
                 m.signal.type = "ResourceAdded"
          PROVE  \/ ToldOf(r, {"ResourceRegistered"})' # {}
                 \/ Announced("Registration", r, "ResourceAdded")'
      <4>1. CASE m \in Elements(inbox')
        BY <3>2, <4>1 DEF Announced
      <4>2. CASE m \notin Elements(inbox')
        <5>1. /\ left # 0 /\ inbox # <<>> /\ m = Head(inbox)
              /\ Head(inbox).to = "Registration"
          BY <1>2, <1>3, <3>2, <4>2
        <5>2. RegistrationActs
          <6>1. ~UNCHANGED vars
            BY <3>2, <4>2 DEF vars, Elements
          <6>2. ASSUME NEW command \in ClientCommand, Post(command)
                PROVE  FALSE
            <7>1. PICK e : inbox' = Append(inbox, e)
              BY <6>2 DEF Post
            <7>2. Came(0, <<e>>) /\ IsSequence(<<e>>)
              BY <7>1, AppendIs, Tuples DEF Known
            <7>. QED BY <3>2, <4>2, <7>2, CameElements DEF Known
          <6>3. ~(OrganizationActs \/ ViewActs \/ ResourceActs
                  \/ CatalogActs \/ RecordAction)
            BY <5>1 DEF OrganizationActs, CreateOrganization,
               AddOrganizationMember, AddResource, ViewActs, ShowOrganization,
               ShowMember, ShowResource, ResourceActs, CreateResource,
               DeleteResource, SetOpen, CatalogActs, ListResource,
               DelistResource, ShowPolicy, RecordAction, Receives
          <6>. QED BY <6>1, <6>2, <6>3, NextIs
        <5>3. received.type = "ResourceAdded" /\ received.resource = r
          BY <1>6, <3>2, <5>1
        <5>4. PICK entry :
                /\ Told' = Told \cup {entry}
                /\ entry.about = r
                /\ entry.id.type = "ResourceRegistered"
          BY <5>2, <5>3, RegistrationTells
        <5>. QED BY <5>4 DEF ToldOf
      <4>. QED BY <4>1, <4>2
    <3>. QED BY <1>1, <2>2, <3>1, <3>2 DEF RegistrationsAudited, Announced
  <2>. QED BY <1>2, <2>1, <2>2
<1>. QED BY <1>5, <1>8, <1>10 DEF RegistrationsAudited

(* Each step keeps the policies of what was created.                       *)
LEMMA PoliciesStay ==
  ASSUME Known, Known', CatalogFollows, Audited, [Next]_vars
  PROVE  PoliciesFollow'
<1>1. PoliciesFollow
  BY DEF Audited
<1>2. Advancing
  BY KnownStep
<1>3. ASSUME NEW r \in Resource, resource'[r].open
      PROVE  resource'[r].name # NoName
  <2>1. resource[r].open = resource'[r].open \/ resource[r].name # NoName
    <3>1. CASE ResourceActs
      BY <3>1, ResourceTells DEF Audited
    <3>2. CASE ~ResourceActs
      BY <3>2, NextIs, OrganizationTells, RegistrationTells, OthersTell
         DEF RecordAction, vars, entities
    <3>. QED BY <3>1, <3>2
  <2>. QED BY <1>1, <1>2, <1>3, <2>1 DEF PoliciesFollow, Advancing
<1>4. PICK messages, left :
        /\ left \in {0, 1} /\ IsSequence(messages) /\ Came(left, messages)
        /\ \A m \in Elements(messages) : Agreed(m)
  BY StepAgrees DEF Agreeing
<1>5. Elements(inbox') \subseteq Elements(inbox) \cup Elements(messages)
  BY <1>4, CameElements DEF Known
<1>6. ASSUME NEW m \in Elements(inbox'), m.to = "Resource",
             m.signal.type \in {"OpenResourceForRequests",
                                "CloseResourceForRequests"}
      PROVE  resource'[m.signal.resource].name # NoName
  <2>1. m.signal.resource \in Resource
    BY <1>6 DEF Known, Sound
  <2>2. resource[m.signal.resource].name # NoName
    BY <1>1, <1>4, <1>5, <1>6 DEF PoliciesFollow, Agreed
  <2>. QED BY <1>2, <2>1, <2>2 DEF Advancing
<1>. QED BY <1>3, <1>6 DEF PoliciesFollow

LEMMA AuditedInit == Init => Audited
<1> SUFFICES ASSUME Init PROVE Audited
  OBVIOUS
<1>1. Elements(inbox) = {} /\ trail = {}
  BY Tuples DEF Init
<1>2. Told = {} /\ ToldMembers = {} /\ \A r, types : ToldOf(r, types) = {}
  BY <1>1 DEF Told, ToldMembers, ToldOf
<1>3. Range(organization.member) = {} /\ RecordedIds = {}
  <2>1. organization.member = <<>> /\ organization.resource = <<>>
    BY DEF Init, NewOrganization
  <2>. QED BY <2>1 DEF Range, RecordedIds
<1>4. \A r \in Resource : resource[r].open = FALSE
  BY DEF Init, NotOffered
<1>5. MembersAudited
  BY <1>2, <1>3 DEF MembersAudited
<1>6. RegistrationsAudited
  BY <1>1, <1>2, <1>3 DEF RegistrationsAudited
<1>7. PoliciesFollow
  BY <1>1, <1>4 DEF PoliciesFollow
<1>8. IsFiniteSet({}) /\ Cardinality({}) = 0
  BY FS_EmptySet
<1>9. TurnsAudited
  BY <1>2, <1>4, <1>8 DEF TurnsAudited, TakeTurns, LastTurn
<1>. QED BY <1>5, <1>6, <1>7, <1>9 DEF Audited

LEMMA AuditedStep ==
  ASSUME Known, Known', CatalogFollows, Audited, [Next]_vars
  PROVE  Audited'
  BY MembersStayAudited, RegistrationsStayAudited, PoliciesStay, TurnsStay
     DEF Audited

(* Each change is told to the audit trail, once and in its turn, in every  *)
(* reachable state (AuditEntryProjection and the events it takes).         *)
THEOREM ChangesAreTold == Spec => []Audited
<1>1. Known /\ Known' /\ CatalogFollows /\ Audited /\ [Next]_vars => Audited'
  BY AuditedStep
<1>. QED BY <1>1, AuditedInit, Knowledge, CatalogFollowing, PTL DEF Spec

(* Once all messages are delivered, the audit trail has one entry for each *)
(* member who was added, has the registration of each recorded resource    *)
(* and of no other, and has the openings and closings of a resource in     *)
(* turns that end with the policy in force (AuditEntryProjection), however *)
(* often the server stopped.                                               *)
THEOREM TrailTells == Spec => []TrailTellsWhatHappened
<1>1. Known /\ Audited => TrailTellsWhatHappened
  <2> SUFFICES ASSUME Known, Audited, inbox = <<>>
               PROVE  TrailTellsWhatHappened
    BY DEF TrailTellsWhatHappened
  <2>1. Elements(inbox) = {} /\ Told = trail
    BY Tuples DEF Told
  <2>2. \A thing, types : EntriesOf(thing, types) = ToldOf(thing, types)
    BY <2>1 DEF EntriesOf, ToldOf
  <2>3. ASSUME NEW p \in Person
        PROVE  Cardinality(EntriesOf(p, {"OrganizationMemberAdded"})) =
                 (IF p \in Range(organization.member) THEN 1 ELSE 0)
    <3>1. CASE p \in Range(organization.member)
      <4>1. PICK entry \in ToldMembers : entry.about = p
        BY <3>1 DEF Audited, MembersAudited
      <4>2. EntriesOf(p, {"OrganizationMemberAdded"}) = {entry}
        BY <2>2, <4>1 DEF Audited, MembersAudited, ToldMembers, ToldOf
      <4>. QED BY <3>1, <4>2, FS_Singleton
    <3>2. CASE p \notin Range(organization.member)
      <4>1. EntriesOf(p, {"OrganizationMemberAdded"}) = {}
        BY <2>2, <3>2 DEF Audited, MembersAudited, ToldMembers, ToldOf
      <4>. QED BY <3>2, <4>1, FS_EmptySet
    <3>. QED BY <3>1, <3>2
  <2>4. ASSUME NEW r \in Resource
        PROVE  r \in RecordedIds <=> EntriesOf(r, {"ResourceRegistered"}) # {}
    BY <2>1, <2>2 DEF Audited, RegistrationsAudited, Announced, ToldOf
  <2>5. ASSUME NEW r \in Resource
        PROVE  Cardinality(EntriesOf(r, {"ResourceOpenedForRequests"})) =
                 Cardinality(EntriesOf(r, {"ResourceClosedForRequests"}))
                   + (IF resource[r].open THEN 1 ELSE 0)
    BY <2>2 DEF Audited, TurnsAudited, TakeTurns
  <2>6. ASSUME NEW r \in Resource, PolicyEntries(r) # {}
        PROVE  resource[r].open <=>
                 Latest(PolicyEntries(r)).id.type = "ResourceOpenedForRequests"
    <3>1. PolicyEntries(r) = ToldOf(r, PolicyType)
      BY <2>2 DEF PolicyEntries, PolicyType
    <3>2. PICK entry \in PolicyEntries(r) :
            /\ \A other \in PolicyEntries(r) :
                 other.id.version <= entry.id.version
            /\ resource[r].open <=>
                 entry.id.type = "ResourceOpenedForRequests"
      BY <2>6, <3>1 DEF Audited, TurnsAudited, LastTurn
    <3>3. /\ Latest(PolicyEntries(r)) \in PolicyEntries(r)
          /\ \A other \in PolicyEntries(r) :
               other.id.version <= Latest(PolicyEntries(r)).id.version
      BY <3>2 DEF Latest
    <3>4. \A one, other \in PolicyEntries(r) :
            one.id.version = other.id.version => one = other
      BY <3>1 DEF Audited, TurnsAudited, LastTurn
    <3>5. \A other \in PolicyEntries(r) : other.id.version \in Nat
      BY <3>1, ToldAre DEF ToldOf
    <3>6. Latest(PolicyEntries(r)).id.version = entry.id.version
      BY <3>2, <3>3, <3>5
    <3>7. Latest(PolicyEntries(r)) = entry
      BY <3>2, <3>3, <3>4, <3>6
    <3>. QED BY <3>2, <3>7
  <2>. QED BY <2>3, <2>4, <2>5, <2>6 DEF TrailTellsWhatHappened
<1>. QED BY <1>1, Knowledge, ChangesAreTold, PTL
=============================================================================
