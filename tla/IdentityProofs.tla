---------------------------- MODULE IdentityProofs ---------------------------
(***************************************************************************)
(* Theorems about Identity and the sign-ins of the gateway, for any number *)
(* of accounts, addresses, people and organizations, any number of stops   *)
(* of the server and any inboxes: an address is one person, people join    *)
(* where they are listed, and are listed once and only where they were     *)
(* added; a session is for the owner of the account's address; and people  *)
(* are shown as they are once every message is delivered.                  *)
(*                                                                         *)
(* The inductive invariant says what each message may claim, and of the    *)
(* view of a person that what is not yet shown is on its way, the address  *)
(* and the name in front of every account.                                 *)
(***************************************************************************)
EXTENDS SignIn, SequenceTheorems, FiniteSetTheorems, TLAPS

----------------------------------------------------------------------------
(* Messages.  What a record holds follows from its type. *)

Invoker ==
  [by : {"ExternalIdentity"}, id : Account] \cup
  [by : {"Membership"}, id : Address]

LinkingStarted ==
  [type : {"ExternalIdentityLinkingStarted"}, account : Account,
   email : Address]

RegisterEmail ==
  [type : {"RegisterPersonEmail"}, email : Address, invoker : Invoker]

OfPersonType ==
  {"PersonEmailRegistered", "PersonEmailAlreadyRegistered", "RegisterPerson",
   "PersonRegistered"}

OfPerson ==
  [type : OfPersonType, email : Address, person : Person, invoker : Invoker]

OfAccount ==
  [type : {"AddSignInAccount", "ExternalIdentityLinked"}, account : Account,
   person : Person]

AccountAdded ==
  [type : {"SignInAccountAdded"}, account : Account, person : Person,
   name : Account \cup {NoAccount}]

Joining ==
  [type : {"JoinOrganization", "OrganizationJoined"}, person : Person,
   membership : Address, organization : Organization]

AddingStarted == [type : {"MemberAddingStarted"}, membership : Address]

Added ==
  [type : {"MemberAdded"}, membership : Address, person : Person,
   organization : Organization, role : Role]

AskCommand ==
  [type : {"AddOrganizationMember"}, person : Person,
   organization : Organization, role : Role, awaited : BOOLEAN]

MemberListed ==
  [type : {"OrganizationMemberAdded"}, organization : Organization,
   member : Member]

Signal ==
  LinkCommand \cup AddCommand \cup LinkingStarted \cup RegisterEmail \cup
  OfPerson \cup OfAccount \cup AccountAdded \cup Joining \cup
  AddingStarted \cup Added \cup AskCommand \cup MemberListed

Entity ==
  {"ExternalIdentity", "ExternalIdentityView", "PersonEmail", "Person",
   "PersonView", "Membership", "MembershipView", "Organization",
   "OrganizationView"}

Message == [to : Entity, signal : Signal]

LEMMA SignalTypes ==
  ASSUME NEW s \in Signal
  PROVE  /\ s.type = "LinkExternalIdentity" => s \in LinkCommand
         /\ s.type = "AddMember" => s \in AddCommand
         /\ s.type = "ExternalIdentityLinkingStarted" => s \in LinkingStarted
         /\ s.type = "RegisterPersonEmail" => s \in RegisterEmail
         /\ s.type \in OfPersonType => s \in OfPerson
         /\ s.type \in {"AddSignInAccount", "ExternalIdentityLinked"}
              => s \in OfAccount
         /\ s.type = "SignInAccountAdded" => s \in AccountAdded
         /\ s.type \in {"JoinOrganization", "OrganizationJoined"}
              => s \in Joining
         /\ s.type = "MemberAddingStarted" => s \in AddingStarted
         /\ s.type = "MemberAdded" => s \in Added
         /\ s.type = "AddOrganizationMember" => s \in AskCommand
         /\ s.type = "OrganizationMemberAdded" => s \in MemberListed
  BY DEF Signal, LinkCommand, AddCommand, LinkingStarted, RegisterEmail,
         OfPersonType, OfPerson, OfAccount, AccountAdded, Joining,
         AddingStarted, Added, AskCommand, MemberListed

(* Nobody waits for a quiet message; otherwise it stays as it is.          *)
LEMMA QuietKeeps ==
  ASSUME NEW m \in Message
  PROVE  /\ Quiet(m) \in Message
         /\ Quiet(m).to = m.to
         /\ Quiet(m).signal.type = m.signal.type
         /\ m.signal.type # "AddOrganizationMember" => Quiet(m) = m
         /\ m.signal.type = "AddOrganizationMember" =>
              /\ Quiet(m).signal.awaited = FALSE
              /\ Quiet(m).signal.person = m.signal.person
              /\ Quiet(m).signal.organization = m.signal.organization
<1>1. CASE m.signal.type # "AddOrganizationMember"
  BY <1>1 DEF Quiet
<1>2. CASE m.signal.type = "AddOrganizationMember"
  <2>1. m.signal \in AskCommand
    BY <1>2, SignalTypes DEF Message
  <2>2. Quiet(m) = [m EXCEPT !.signal = [m.signal EXCEPT !.awaited = FALSE]]
    BY <1>2 DEF Quiet
  <2>3. [m.signal EXCEPT !.awaited = FALSE] \in AskCommand
    BY <2>1 DEF AskCommand
  <2>. QED
    BY <1>2, <2>1, <2>2, <2>3 DEF Message, Signal, AskCommand
<1>. QED BY <1>1, <1>2

----------------------------------------------------------------------------
(* Inboxes. *)

Elements(queue) == {queue[i] : i \in 1 .. Len(queue)}

Queues == [Shard -> Seq(Message)]

InFlight == Elements(inbox[0]) \cup Elements(inbox[1])

InboxTyped ==
  /\ inbox \in Queues
  /\ crashes \in Nat /\ failures \in Nat

LEMMA ElementsOfSequences ==
  ASSUME NEW q \in Seq(Message)
  PROVE  /\ Elements(q) \subseteq Message
         /\ q # <<>> => /\ Head(q) \in Elements(q) /\ Head(q) = q[1]
                        /\ Tail(q) \in Seq(Message)
                        /\ Elements(Tail(q)) \subseteq Elements(q)
         /\ \A r \in Seq(Message) :
              /\ q \o r \in Seq(Message)
              /\ Elements(q \o r) = Elements(q) \cup Elements(r)
<1>1. Elements(q) \subseteq Message
  BY ElementOfSeq DEF Elements
<1>2. ASSUME q # <<>>
      PROVE  /\ Head(q) \in Elements(q) /\ Head(q) = q[1]
             /\ Tail(q) \in Seq(Message)
             /\ Elements(Tail(q)) \subseteq Elements(q)
  <2>1. /\ Tail(q) \in Seq(Message)
        /\ Len(Tail(q)) = Len(q) - 1
        /\ \A i \in 1 .. Len(Tail(q)) : Tail(q)[i] = q[i + 1]
    BY <1>2, HeadTailProperties
  <2>2. Len(q) \in Nat \ {0} /\ Head(q) = q[1]
    BY <1>2, EmptySeq
  <2>. QED
    BY <2>1, <2>2 DEF Elements
<1>3. ASSUME NEW r \in Seq(Message)
      PROVE  /\ q \o r \in Seq(Message)
             /\ Elements(q \o r) = Elements(q) \cup Elements(r)
  <2>1. /\ q \o r \in Seq(Message)
        /\ Len(q \o r) = Len(q) + Len(r)
        /\ \A i \in 1 .. Len(q) + Len(r) :
             (q \o r)[i] = IF i <= Len(q) THEN q[i] ELSE r[i - Len(q)]
    BY ConcatProperties
  <2>2. Len(q) \in Nat /\ Len(r) \in Nat
    BY LenProperties
  <2>3. Elements(q \o r) \subseteq Elements(q) \cup Elements(r)
    <3>1. ASSUME NEW i \in 1 .. Len(q) + Len(r)
          PROVE  (q \o r)[i] \in Elements(q) \cup Elements(r)
      <4>1. CASE i <= Len(q)
        BY <2>1, <2>2, <4>1 DEF Elements
      <4>2. CASE ~(i <= Len(q))
        <5>1. i - Len(q) \in 1 .. Len(r)
          BY <2>2, <4>2
        <5>. QED BY <2>1, <4>2, <5>1 DEF Elements
      <4>. QED BY <4>1, <4>2
    <3>. QED BY <2>1, <3>1 DEF Elements
  <2>4. \A i \in 1 .. Len(q) : q[i] \in Elements(q \o r)
    BY <2>1, <2>2 DEF Elements
  <2>5. \A i \in 1 .. Len(r) : r[i] \in Elements(q \o r)
    <3>1. ASSUME NEW i \in 1 .. Len(r)
          PROVE  r[i] \in Elements(q \o r)
      <4>1. /\ i + Len(q) \in 1 .. Len(q) + Len(r)
            /\ ~(i + Len(q) <= Len(q)) /\ i + Len(q) - Len(q) = i
        BY <2>2
      <4>2. (q \o r)[i + Len(q)] = r[i]
        BY <2>1, <4>1
      <4>. QED BY <2>1, <4>1, <4>2 DEF Elements
    <3>. QED BY <3>1
  <2>. QED BY <2>1, <2>3, <2>4, <2>5 DEF Elements
<1>. QED BY <1>1, <1>2, <1>3

LEMMA UnawaitedIsQuiet ==
  ASSUME NEW queues \in Queues
  PROVE  /\ Unawaited(queues) \in Queues
         /\ \A s \in Shard :
              /\ Len(Unawaited(queues)[s]) = Len(queues[s])
              /\ \A i \in 1 .. Len(queues[s]) :
                   Unawaited(queues)[s][i] = Quiet(queues[s][i])
<1>1. ASSUME NEW s \in Shard
      PROVE  /\ Unawaited(queues)[s] \in Seq(Message)
             /\ Len(Unawaited(queues)[s]) = Len(queues[s])
             /\ \A i \in 1 .. Len(queues[s]) :
                  Unawaited(queues)[s][i] = Quiet(queues[s][i])
  <2>1. Len(queues[s]) \in Nat /\ DOMAIN queues[s] = 1 .. Len(queues[s])
    BY LenProperties
  <2>2. Unawaited(queues)[s] =
          [i \in 1 .. Len(queues[s]) |-> Quiet(queues[s][i])]
    BY <2>1 DEF Unawaited
  <2>3. \A i \in 1 .. Len(queues[s]) : Quiet(queues[s][i]) \in Message
    BY ElementOfSeq, QuietKeeps DEF Queues
  <2>4. Unawaited(queues)[s] \in [1 .. Len(queues[s]) -> Message]
    BY <2>2, <2>3
  <2>. QED BY <2>1, <2>2, <2>4, SeqDef
<1>2. Unawaited(queues) = [s \in Shard |-> Unawaited(queues)[s]]
  BY DEF Unawaited
<1>. QED BY <1>1, <1>2 DEF Queues

(* Shards: Resources is delivered from the second.                         *)
LEMMA Shards ==
  /\ Shard = {0, 1}
  /\ \A entity : ShardFor(entity) \in Shard
  /\ \A entity : ShardFor(entity) =
       IF entity \in {"Organization", "OrganizationView"} THEN 1 ELSE 0
  BY DEF Shard, ShardFor

LEMMA EmittedTo ==
  ASSUME NEW queues \in Queues, NEW entity,
         NEW messages \in Seq(Message)
  PROVE  /\ Emitted(queues, entity, messages)[ShardFor(entity)] =
              queues[ShardFor(entity)] \o messages
         /\ \A s \in Shard : s # ShardFor(entity) =>
              Emitted(queues, entity, messages)[s] = queues[s]
  BY Shards DEF Emitted, Queues

LEMMA EmittedAre ==
  ASSUME NEW queues \in Queues, NEW entity,
         NEW messages \in Seq(Message)
  PROVE  /\ Emitted(queues, entity, messages) \in Queues
         /\ \A s \in Shard : Elements(Emitted(queues, entity, messages)[s])
              \subseteq Elements(queues[s]) \cup Elements(messages)
<1>1. ShardFor(entity) \in Shard
  BY Shards
<1>2. /\ \A s \in Shard : queues[s] \o messages \in Seq(Message)
      /\ \A s \in Shard : Elements(queues[s] \o messages) =
           Elements(queues[s]) \cup Elements(messages)
  BY ElementsOfSequences DEF Queues
<1>3. Emitted(queues, entity, messages) \in Queues
  BY <1>1, <1>2 DEF Emitted, Queues
<1>4. \A s \in Shard : Elements(Emitted(queues, entity, messages)[s])
        \subseteq Elements(queues[s]) \cup Elements(messages)
  <2>1. ASSUME NEW s \in Shard
        PROVE  Emitted(queues, entity, messages)[s]
                 \in {queues[s], queues[s] \o messages}
    <3>1. CASE s = ShardFor(entity)
      BY <3>1, EmittedTo
    <3>2. CASE s # ShardFor(entity)
      BY <3>2, EmittedTo
    <3>. QED BY <3>1, <3>2
  <2>. QED BY <1>2, <2>1
<1>. QED BY <1>3, <1>4

LEMMA HandledIs ==
  ASSUME InboxTyped, NEW entity, inbox[ShardFor(entity)] # <<>>
  PROVE  /\ Handled(entity) \in Queues
         /\ Handled(entity)[ShardFor(entity)] = Tail(inbox[ShardFor(entity)])
         /\ \A s \in Shard :
              s # ShardFor(entity) => Handled(entity)[s] = inbox[s]
         /\ \A s \in Shard :
              Elements(Handled(entity)[s]) \subseteq Elements(inbox[s])
<1>1. ShardFor(entity) \in Shard /\ inbox \in Queues
  BY Shards DEF InboxTyped
<1>2. /\ Tail(inbox[ShardFor(entity)]) \in Seq(Message)
      /\ Elements(Tail(inbox[ShardFor(entity)]))
           \subseteq Elements(inbox[ShardFor(entity)])
  BY <1>1, ElementsOfSequences DEF Queues
<1>3. /\ Handled(entity) \in Queues
      /\ Handled(entity)[ShardFor(entity)] = Tail(inbox[ShardFor(entity)])
      /\ \A s \in Shard :
           s # ShardFor(entity) => Handled(entity)[s] = inbox[s]
  BY <1>1, <1>2 DEF Handled, Queues
<1>4. \A s \in Shard :
        Elements(Handled(entity)[s]) \subseteq Elements(inbox[s])
  BY <1>2, <1>3
<1>. QED BY <1>3, <1>4

(* A message that is in a queue where nobody waits was in the queue, but   *)
(* perhaps awaited.                                                        *)
LEMMA UnawaitedElements ==
  ASSUME NEW queues \in Queues, NEW s \in Shard,
         NEW m \in Elements(Unawaited(queues)[s])
  PROVE  \E n \in Elements(queues[s]) : m = Quiet(n)
BY UnawaitedIsQuiet DEF Elements

(* Where a message in flight comes from, once a handler is done.           *)
LEMMA Sending ==
  ASSUME InboxTyped, NEW entity, inbox[ShardFor(entity)] # <<>>,
         NEW messages \in Seq(Message), NEW then,
         GiveAnd(entity, messages, then)
  PROVE  /\ InboxTyped' /\ joining' \in {then, "no"}
         /\ \A m \in InFlight' :
              \E n \in InFlight \cup Elements(messages) :
                m = n \/ m = Quiet(n)
<1>0. /\ inbox \in Queues /\ crashes \in Nat
      /\ failures \in Nat
  BY DEF InboxTyped
<1>1. CASE /\ inbox' = Emitted(Handled(entity), entity, messages)
           /\ joining' = then /\ UNCHANGED <<crashes, failures>>
  <2>1. /\ Handled(entity) \in Queues
        /\ \A s \in Shard :
             Elements(Handled(entity)[s]) \subseteq Elements(inbox[s])
    BY HandledIs
  <2>2. /\ inbox' \in Queues
        /\ \A s \in Shard : Elements(inbox'[s]) \subseteq
             Elements(inbox[s]) \cup Elements(messages)
    <3> DEFINE queues == Handled(entity)
    <3>1. inbox' = Emitted(queues, entity, messages)
      BY <1>1
    <3>2. /\ queues \in Queues
          /\ \A s \in Shard : Elements(queues[s]) \subseteq Elements(inbox[s])
      BY <2>1
    <3> HIDE DEF queues
    <3>. QED BY <3>1, <3>2, EmittedAre
  <2>3. InFlight' \subseteq InFlight \cup Elements(messages)
    BY <2>2, Shards DEF InFlight, Elements
  <2>. QED BY <1>0, <1>1, <2>2, <2>3 DEF InboxTyped
<1>2. CASE /\ inbox' = Unawaited(Emitted(inbox, entity, messages))
           /\ joining' = "no" /\ crashes' = crashes + 1
           /\ UNCHANGED failures
  <2> DEFINE queues == Emitted(inbox, entity, messages)
  <2>1. /\ queues \in Queues
        /\ \A s \in Shard : Elements(queues[s]) \subseteq
             Elements(inbox[s]) \cup Elements(messages)
    BY <1>0, EmittedAre
  <2> HIDE DEF queues
  <2>2. inbox' = Unawaited(queues)
    BY <1>2 DEF queues
  <2>3. inbox' \in Queues
    BY <2>1, <2>2, UnawaitedIsQuiet
  <2>4. \A s \in Shard : \A m \in Elements(Unawaited(queues)[s]) :
          \E n \in Elements(queues[s]) : m = Quiet(n)
    BY <2>1, UnawaitedElements
  <2>5. \A s \in Shard : \A m \in Elements(inbox'[s]) :
          \E n \in Elements(inbox[s]) \cup Elements(messages) : m = Quiet(n)
    BY <2>1, <2>2, <2>4
  <2>6. \A m \in InFlight' : \E s \in Shard : m \in Elements(inbox'[s])
    BY Shards DEF InFlight, Elements
  <2>7. \A s \in Shard : Elements(inbox[s]) \subseteq InFlight
    BY Shards DEF InFlight
  <2>8. \A m \in InFlight' :
          \E n \in InFlight \cup Elements(messages) : m = Quiet(n)
    BY <2>5, <2>6, <2>7
  <2>. QED BY <1>0, <1>2, <2>3, <2>8 DEF InboxTyped
<1>. QED BY <1>1, <1>2 DEF GiveAnd

----------------------------------------------------------------------------
(* What the view of a person is told of: their address, the name and the   *)
(* organization they have, and each account as it is added.                *)

Fact == {"email", "name", "organization"}

Has(state, fact) ==
  \/ fact = "email" /\ state.email # NoAddress
  \/ fact = "name" /\ state.name # NoAccount
  \/ fact = "organization" /\ state.organization # NoOrganization

Adds(m, p) ==
  /\ m.to = "PersonView" /\ m.signal.type = "SignInAccountAdded"
  /\ m.signal.person = p

Tells(fact, m, p) ==
  \/ /\ fact = "email"
     /\ m.to = "PersonView" /\ m.signal.type = "PersonRegistered"
     /\ m.signal.person = p
  \/ fact = "name" /\ Adds(m, p) /\ m.signal.name # NoAccount
  \/ /\ fact = "organization"
     /\ m.to = "PersonView" /\ m.signal.type = "OrganizationJoined"
     /\ m.signal.person = p

Told(fact, p, queue, n) == \E i \in 1 .. n : Tells(fact, queue[i], p)

(* A fact is shown or on its way; the address and the name are in front of *)
(* every account.                                                          *)
Covered(fact, p, queue, known, shown) ==
  /\ Has(known, fact) => Has(shown, fact) \/ Told(fact, p, queue, Len(queue))
  /\ \A i \in 1 .. Len(queue) : Adds(queue[i], p) =>
       fact = "organization" \/ Has(shown, fact) \/ Told(fact, p, queue, i)

(* The n accounts on their way, at the places f says, follow those shown.  *)
Follow(p, queue, known, shown, n, f) ==
  /\ \A i, j \in 1 .. n : i < j => f[i] < f[j]
  /\ \A i \in 1 .. Len(queue) :
       Adds(queue[i], p) <=> \E k \in 1 .. n : f[k] = i
  /\ Len(known) = Len(shown) + n
  /\ \A k \in 1 .. Len(shown) : known[k] = shown[k]
  /\ \A k \in 1 .. n :
       known[Len(shown) + k] = queue[f[k]].signal.account

Pending(p, queue, known, shown) ==
  \E n \in Nat : \E f \in [1 .. n -> 1 .. Len(queue)] :
    Follow(p, queue, known, shown, n, f)

(* Accounts are shown of people whose address and name are shown; and each *)
(* once, in their order, as long as no message is handled again.           *)
Met(p) ==
  /\ \A fact \in Fact : Covered(fact, p, inbox[0], person[p], personView[p])
  /\ personView[p].account # <<>> =>
       Has(personView[p], "email") /\ Has(personView[p], "name")
  /\ crashes = 0 =>
       Pending(p, inbox[0], person[p].account, personView[p].account)

Introduced == \A p \in Person : Met(p)

(* What is left of a queue with what is sent, perhaps no longer awaited.   *)
Conveys(queue, rest, sent) ==
  /\ queue \in Seq(Message) /\ Len(queue) = Len(rest \o sent)
  /\ \A i \in 1 .. Len(queue) :
       queue[i] = (rest \o sent)[i] \/ queue[i] = Quiet((rest \o sent)[i])

LEMMA QuietTells ==
  ASSUME NEW m \in Message, NEW p
  PROVE  /\ Adds(Quiet(m), p) <=> Adds(m, p)
         /\ \A fact : Tells(fact, Quiet(m), p) <=> Tells(fact, m, p)
         /\ Adds(m, p) => Quiet(m).signal.account = m.signal.account
<1>1. CASE m.signal.type # "AddOrganizationMember"
  BY <1>1, QuietKeeps
<1>2. CASE m.signal.type = "AddOrganizationMember"
  BY <1>2, QuietKeeps DEF Adds, Tells
<1>. QED BY <1>1, <1>2

LEMMA TailOf ==
  ASSUME NEW q \in Seq(Message), q # <<>>
  PROVE  /\ Tail(q) \in Seq(Message) /\ Len(q) \in Nat /\ Len(q) > 0
         /\ Len(Tail(q)) = Len(q) - 1 /\ Head(q) = q[1]
         /\ \A i \in 1 .. Len(q) - 1 : Tail(q)[i] = q[i + 1]
         /\ \A i \in 2 .. Len(q) :
              i - 1 \in 1 .. Len(q) - 1 /\ Tail(q)[i - 1] = q[i]
<1>1. /\ Tail(q) \in Seq(Message) /\ Len(Tail(q)) = Len(q) - 1
      /\ \A i \in 1 .. Len(Tail(q)) : Tail(q)[i] = q[i + 1]
  BY HeadTailProperties
<1>2. Len(q) \in Nat /\ Len(q) # 0 /\ Head(q) = q[1]
  BY EmptySeq, LenProperties
<1>3. ASSUME NEW i \in 2 .. Len(q)
      PROVE  i - 1 \in 1 .. Len(q) - 1 /\ Tail(q)[i - 1] = q[i]
  <2>1. i - 1 \in 1 .. Len(q) - 1 /\ i - 1 + 1 = i
    BY <1>2
  <2>. QED BY <1>1, <2>1
<1>. QED BY <1>1, <1>2, <1>3

LEMMA Joined ==
  ASSUME NEW q \in Seq(Message), NEW r \in Seq(Message)
  PROVE  /\ q \o r \in Seq(Message) /\ Len(q) \in Nat /\ Len(r) \in Nat
         /\ Len(q \o r) = Len(q) + Len(r)
         /\ \A i \in 1 .. Len(q) : (q \o r)[i] = q[i]
         /\ \A i \in 1 .. Len(r) : /\ Len(q) + i \in 1 .. Len(q) + Len(r)
                                   /\ (q \o r)[Len(q) + i] = r[i]
<1>1. Len(q) \in Nat /\ Len(r) \in Nat
  BY LenProperties
<1>2. /\ q \o r \in Seq(Message) /\ Len(q \o r) = Len(q) + Len(r)
      /\ \A i \in 1 .. Len(q) + Len(r) :
           (q \o r)[i] = IF i <= Len(q) THEN q[i] ELSE r[i - Len(q)]
  BY ConcatProperties
<1>3. \A i \in 1 .. Len(q) : i \in 1 .. Len(q) + Len(r) /\ i <= Len(q)
  BY <1>1
<1>4. ASSUME NEW i \in 1 .. Len(r)
      PROVE  /\ Len(q) + i \in 1 .. Len(q) + Len(r)
             /\ (q \o r)[Len(q) + i] = r[i]
  <2>1. /\ Len(q) + i \in 1 .. Len(q) + Len(r)
        /\ ~(Len(q) + i <= Len(q)) /\ Len(q) + i - Len(q) = i
    BY <1>1
  <2>. QED BY <1>2, <2>1
<1>. QED BY <1>1, <1>2, <1>3, <1>4

(* The first message is handled. *)
LEMMA CoveredTail ==
  ASSUME NEW q \in Seq(Message), q # <<>>, NEW p, NEW fact,
         NEW known, NEW shown, NEW after,
         Covered(fact, p, q, known, shown),
         Has(shown, fact) \/ Tells(fact, q[1], p) => Has(after, fact)
  PROVE  Covered(fact, p, Tail(q), known, after)
<1>1. /\ Len(q) \in Nat /\ Len(q) > 0 /\ Len(Tail(q)) = Len(q) - 1
      /\ \A i \in 1 .. Len(q) - 1 : Tail(q)[i] = q[i + 1]
      /\ \A i \in 2 .. Len(q) : Tail(q)[i - 1] = q[i]
  BY TailOf
<1>2. ASSUME NEW n \in 1 .. Len(q), Told(fact, p, q, n), ~Has(after, fact)
      PROVE  Told(fact, p, Tail(q), n - 1)
  <2>1. PICK i \in 1 .. n : Tells(fact, q[i], p)
    BY <1>2 DEF Told
  <2>2. i # 1
    BY <1>2, <2>1
  <2>3. i \in 2 .. Len(q) /\ i - 1 \in 1 .. n - 1
    BY <1>1, <2>2
  <2>. QED BY <1>1, <2>1, <2>3 DEF Told
<1>3. Has(known, fact) =>
        Has(after, fact) \/ Told(fact, p, Tail(q), Len(Tail(q)))
  BY <1>1, <1>2 DEF Covered
<1>4. ASSUME NEW i \in 1 .. Len(Tail(q)), Adds(Tail(q)[i], p)
      PROVE  \/ fact = "organization" \/ Has(after, fact)
             \/ Told(fact, p, Tail(q), i)
  <2>1. i + 1 \in 1 .. Len(q) /\ Adds(q[i + 1], p) /\ i + 1 - 1 = i
    BY <1>1, <1>4
  <2>2. \/ fact = "organization" \/ Has(shown, fact)
        \/ Told(fact, p, q, i + 1)
    BY <2>1 DEF Covered
  <2>. QED BY <1>2, <2>1, <2>2
<1>. QED BY <1>3, <1>4 DEF Covered

(* Messages are sent, and perhaps something becomes known. *)
LEMMA CoveredSent ==
  ASSUME NEW q \in Seq(Message), NEW r \in Seq(Message), NEW p, NEW fact,
         NEW known, NEW shown, NEW after,
         Covered(fact, p, q, known, shown),
         Has(after, fact) => Has(known, fact) \/ Told(fact, p, r, Len(r)),
         \A i \in 1 .. Len(r) : Adds(r[i], p) =>
           fact = "organization" \/ Has(known, fact) \/ Tells(fact, r[i], p)
  PROVE  Covered(fact, p, q \o r, after, shown)
<1>1. /\ Len(q) \in Nat /\ Len(r) \in Nat /\ Len(q \o r) = Len(q) + Len(r)
      /\ \A i \in 1 .. Len(q) : (q \o r)[i] = q[i]
      /\ \A i \in 1 .. Len(r) : (q \o r)[Len(q) + i] = r[i]
  BY Joined
<1>2. ASSUME NEW n \in 1 .. Len(q) + Len(r), NEW k \in Nat, k <= n,
             k <= Len(q), Told(fact, p, q, k)
      PROVE  Told(fact, p, q \o r, n)
  BY <1>1, <1>2 DEF Told
<1>3. ASSUME NEW i \in 1 .. Len(r), Tells(fact, r[i], p),
             NEW n \in Nat, Len(q) + i <= n
      PROVE  Told(fact, p, q \o r, n)
  <2>1. Len(q) + i \in 1 .. n
    BY <1>1, <1>3
  <2>. QED BY <1>1, <1>3, <2>1 DEF Told
<1>4. ASSUME Has(after, fact), ~Has(shown, fact)
      PROVE  Told(fact, p, q \o r, Len(q \o r))
  <2>1. CASE Told(fact, p, q, Len(q))
    <3>1. Len(q) + Len(r) \in 1 .. Len(q) + Len(r)
      BY <1>1, <2>1 DEF Told
    <3>. QED BY <1>1, <1>2, <2>1, <3>1
  <2>2. CASE Told(fact, p, r, Len(r))
    <3>1. PICK i \in 1 .. Len(r) : Tells(fact, r[i], p)
      BY <2>2 DEF Told
    <3>. QED BY <1>1, <1>3, <3>1
  <2>. QED BY <1>4, <2>1, <2>2 DEF Covered
<1>5. ASSUME NEW i \in 1 .. Len(q \o r), Adds((q \o r)[i], p),
             fact # "organization", ~Has(shown, fact)
      PROVE  Told(fact, p, q \o r, i)
  <2>1. CASE i <= Len(q)
    <3>1. i \in 1 .. Len(q) /\ (q \o r)[i] = q[i]
      BY <1>1, <2>1
    <3>2. Told(fact, p, q, i)
      BY <1>5, <3>1 DEF Covered
    <3>. QED BY <1>1, <1>2, <1>5, <2>1, <3>2
  <2>2. CASE ~(i <= Len(q))
    <3> DEFINE k == i - Len(q)
    <3>1. k \in 1 .. Len(r) /\ Len(q) + k = i
      BY <1>1, <2>2
    <3>2. Adds(r[k], p)
      BY <1>1, <1>5, <3>1
    <3>3. CASE Tells(fact, r[k], p)
      BY <1>1, <1>3, <3>1, <3>3
    <3>4. CASE Has(known, fact)
      <4>1. Told(fact, p, q, Len(q))
        BY <1>5, <3>4 DEF Covered
      <4>. QED BY <1>1, <1>2, <2>2, <4>1
    <3>. QED BY <1>5, <3>1, <3>2, <3>3, <3>4
  <2>. QED BY <2>1, <2>2
<1>. QED BY <1>4, <1>5 DEF Covered

(* Nobody waits for a message any more: it tells the same.                 *)
LEMMA CoveredQuietly ==
  ASSUME NEW q \in Seq(Message), NEW rest \in Seq(Message),
         NEW sent \in Seq(Message), Conveys(q, rest, sent),
         NEW p, NEW fact, NEW known, NEW shown,
         Covered(fact, p, rest \o sent, known, shown)
  PROVE  Covered(fact, p, q, known, shown)
<1> DEFINE all == rest \o sent
<1>1. /\ all \in Seq(Message) /\ Len(q) = Len(all)
      /\ \A i \in 1 .. Len(all) : q[i] = all[i] \/ q[i] = Quiet(all[i])
  BY Joined DEF Conveys
<1> HIDE DEF all
<1>2. \A i \in 1 .. Len(all) :
        /\ Adds(q[i], p) <=> Adds(all[i], p)
        /\ Tells(fact, q[i], p) <=> Tells(fact, all[i], p)
  <2>1. \A i \in 1 .. Len(all) : all[i] \in Message
    BY <1>1, ElementOfSeq
  <2>. QED BY <1>1, <2>1, QuietTells
<1>3. Len(all) \in Nat
  BY <1>1, LenProperties
<1>4. \A n \in 0 .. Len(all) : Told(fact, p, q, n) <=> Told(fact, p, all, n)
  BY <1>2, <1>3 DEF Told
<1>5. Covered(fact, p, all, known, shown)
  BY DEF all
<1>. QED BY <1>1, <1>2, <1>3, <1>4, <1>5 DEF Covered

(* The first account on its way is shown. *)
LEMMA PendingShown ==
  ASSUME NEW q \in Seq(Message), q # <<>>, NEW p,
         NEW known \in Seq(Account), NEW shown \in Seq(Account),
         NEW account \in Account, account = q[1].signal.account,
         Pending(p, q, known, shown), Adds(q[1], p)
  PROVE  Pending(p, Tail(q), known, Append(shown, account))
<1>1. /\ Len(q) \in Nat /\ Len(q) > 0 /\ Len(Tail(q)) = Len(q) - 1
      /\ \A i \in 1 .. Len(q) - 1 : Tail(q)[i] = q[i + 1]
      /\ \A i \in 2 .. Len(q) : Tail(q)[i - 1] = q[i]
  BY TailOf
<1>0. PICK n \in Nat : \E f \in [1 .. n -> 1 .. Len(q)] :
        Follow(p, q, known, shown, n, f)
  BY DEF Pending
<1>2. PICK f \in [1 .. n -> 1 .. Len(q)] : Follow(p, q, known, shown, n, f)
  BY <1>0
<1>3. /\ \A i, j \in 1 .. n : i < j => f[i] < f[j]
      /\ \A i \in 1 .. Len(q) : Adds(q[i], p) <=> \E k \in 1 .. n : f[k] = i
  BY <1>2 DEF Follow
<1>4. n > 0 /\ f[1] = 1
  <2>1. PICK k \in 1 .. n : f[k] = 1
    BY <1>1, <1>3
  <2>2. 1 \in 1 .. n /\ f[1] \in 1 .. Len(q)
    BY <2>1
  <2>3. k = 1
    <3>1. SUFFICES ASSUME k # 1
                   PROVE  FALSE
      OBVIOUS
    <3>2. 1 < k
      BY <3>1
    <3>. QED BY <1>3, <2>1, <2>2, <3>2
  <2>. QED BY <2>1, <2>3
<1> DEFINE g == [k \in 1 .. n - 1 |-> f[k + 1] - 1]
           after == Append(shown, account)
<1>5. \A k \in 1 .. n - 1 : /\ k + 1 \in 1 .. n /\ f[k + 1] \in 2 .. Len(q)
                            /\ g[k] = f[k + 1] - 1
                            /\ g[k] \in 1 .. Len(q) - 1
  <2>1. ASSUME NEW k \in 1 .. n - 1
        PROVE  k + 1 \in 1 .. n /\ f[k + 1] \in 2 .. Len(q)
    <3>1. 1 \in 1 .. n /\ k + 1 \in 1 .. n /\ 1 < k + 1
      BY <1>4
    <3>2. f[k + 1] \in 1 .. Len(q) /\ f[1] < f[k + 1]
      BY <1>3, <3>1
    <3>. QED BY <1>1, <1>4, <3>1, <3>2
  <2>. QED BY <1>1, <2>1
<1>6. g \in [1 .. n - 1 -> 1 .. Len(Tail(q))] /\ n - 1 \in Nat
  BY <1>1, <1>4, <1>5
<1> HIDE DEF g
<1>7. \A i, j \in 1 .. n - 1 : i < j => g[i] < g[j]
  <2>1. ASSUME NEW i \in 1 .. n - 1, NEW j \in 1 .. n - 1, i < j
        PROVE  g[i] < g[j]
    <3>1. /\ i + 1 \in 1 .. n /\ f[i + 1] \in 2 .. Len(q)
          /\ g[i] = f[i + 1] - 1
      BY <1>5
    <3>2. /\ j + 1 \in 1 .. n /\ f[j + 1] \in 2 .. Len(q)
          /\ g[j] = f[j + 1] - 1
      BY <1>5
    <3>3. i + 1 < j + 1
      BY <2>1
    <3>4. f[i + 1] < f[j + 1]
      BY <1>3, <3>1, <3>2, <3>3
    <3>. QED BY <1>1, <3>1, <3>2, <3>4
  <2>. QED BY <2>1
<1>8. ASSUME NEW i \in 1 .. Len(Tail(q))
      PROVE  Adds(Tail(q)[i], p) <=> \E k \in 1 .. n - 1 : g[k] = i
  <2>1. Tail(q)[i] = q[i + 1] /\ i + 1 \in 1 .. Len(q)
    BY <1>1
  <2>2. ASSUME NEW k \in 1 .. n, f[k] = i + 1
        PROVE  \E m \in 1 .. n - 1 : g[m] = i
    <3>1. k # 1
      BY <1>4, <2>2
    <3>2. k - 1 \in 1 .. n - 1 /\ k - 1 + 1 = k
      BY <3>1
    <3>3. g[k - 1] = f[k] - 1
      BY <1>5, <3>2
    <3>. QED BY <2>2, <3>2, <3>3
  <2>3. ASSUME NEW k \in 1 .. n - 1, g[k] = i
        PROVE  \E m \in 1 .. n : f[m] = i + 1
    <3>1. /\ k + 1 \in 1 .. n /\ f[k + 1] \in 2 .. Len(q)
          /\ g[k] = f[k + 1] - 1
      BY <1>5
    <3>2. f[k + 1] = i + 1
      BY <1>1, <2>3, <3>1
    <3>. QED BY <3>1, <3>2
  <2>. QED BY <1>3, <2>1, <2>2, <2>3
<1>9. /\ Len(shown) \in Nat /\ after \in Seq(Account)
      /\ Len(after) = Len(shown) + 1
      /\ \A k \in 1 .. Len(shown) : after[k] = shown[k]
      /\ after[Len(shown) + 1] = account
  BY AppendProperties, LenProperties
<1> HIDE DEF after
<1>10. /\ Len(known) = Len(shown) + n
       /\ \A k \in 1 .. Len(shown) : known[k] = shown[k]
       /\ \A k \in 1 .. n : known[Len(shown) + k] = q[f[k]].signal.account
  BY <1>2 DEF Follow
<1>11. Len(known) = Len(after) + (n - 1)
  BY <1>4, <1>9, <1>10
<1>12. ASSUME NEW k \in 1 .. Len(after)
       PROVE  known[k] = after[k]
  <2>1. CASE k \in 1 .. Len(shown)
    BY <1>9, <1>10, <2>1
  <2>2. CASE k = Len(shown) + 1
    <3>1. 1 \in 1 .. n /\ known[Len(shown) + 1] = q[f[1]].signal.account
      BY <1>4, <1>10
    <3>. QED BY <1>4, <1>9, <2>2, <3>1
  <2>. QED BY <1>9, <2>1, <2>2
<1>13. ASSUME NEW k \in 1 .. n - 1
       PROVE  known[Len(after) + k] = Tail(q)[g[k]].signal.account
  <2>1. /\ k + 1 \in 1 .. n /\ Len(after) + k = Len(shown) + (k + 1)
        /\ f[k + 1] \in 2 .. Len(q) /\ g[k] = f[k + 1] - 1
    BY <1>5, <1>9
  <2>2. known[Len(shown) + (k + 1)] = q[f[k + 1]].signal.account
    BY <1>10, <2>1
  <2>3. Tail(q)[f[k + 1] - 1] = q[f[k + 1]]
    BY <1>1, <2>1
  <2>. QED BY <2>1, <2>2, <2>3
<1>14. Follow(p, Tail(q), known, after, n - 1, g)
  BY <1>7, <1>8, <1>11, <1>12, <1>13 DEF Follow
<1>. QED BY <1>6, <1>14 DEF Pending, after

(* Another message is handled. *)
LEMMA PendingTail ==
  ASSUME NEW q \in Seq(Message), q # <<>>, NEW p, NEW known, NEW shown,
         Pending(p, q, known, shown), ~Adds(q[1], p)
  PROVE  Pending(p, Tail(q), known, shown)
<1>1. /\ Len(q) \in Nat /\ Len(q) > 0 /\ Len(Tail(q)) = Len(q) - 1
      /\ \A i \in 1 .. Len(q) - 1 : Tail(q)[i] = q[i + 1]
      /\ \A i \in 2 .. Len(q) : Tail(q)[i - 1] = q[i]
  BY TailOf
<1>0. PICK n \in Nat : \E f \in [1 .. n -> 1 .. Len(q)] :
        Follow(p, q, known, shown, n, f)
  BY DEF Pending
<1>2. PICK f \in [1 .. n -> 1 .. Len(q)] : Follow(p, q, known, shown, n, f)
  BY <1>0
<1>3. /\ \A i, j \in 1 .. n : i < j => f[i] < f[j]
      /\ \A i \in 1 .. Len(q) : Adds(q[i], p) <=> \E k \in 1 .. n : f[k] = i
  BY <1>2 DEF Follow
<1>4. \A k \in 1 .. n : f[k] \in 2 .. Len(q)
  <2>1. ASSUME NEW k \in 1 .. n
        PROVE  f[k] \in 2 .. Len(q)
    <3>1. f[k] \in 1 .. Len(q)
      OBVIOUS
    <3>2. f[k] # 1
      BY <1>1, <1>3
    <3>. QED BY <1>1, <3>1, <3>2
  <2>. QED BY <2>1
<1> DEFINE g == [k \in 1 .. n |-> f[k] - 1]
<1>5. g \in [1 .. n -> 1 .. Len(Tail(q))]
      /\ \A k \in 1 .. n : g[k] = f[k] - 1
  BY <1>1, <1>4
<1> HIDE DEF g
<1>6. \A i, j \in 1 .. n : i < j => g[i] < g[j]
  BY <1>1, <1>3, <1>4, <1>5
<1>7. ASSUME NEW i \in 1 .. Len(Tail(q))
      PROVE  Adds(Tail(q)[i], p) <=> \E k \in 1 .. n : g[k] = i
  <2>1. Tail(q)[i] = q[i + 1] /\ i + 1 \in 1 .. Len(q)
    BY <1>1
  <2>2. \A k \in 1 .. n : f[k] = i + 1 <=> g[k] = i
    BY <1>1, <1>4, <1>5
  <2>. QED BY <1>3, <2>1, <2>2
<1>8. \A k \in 1 .. n : Tail(q)[g[k]] = q[f[k]]
  BY <1>1, <1>4, <1>5
<1>9. Follow(p, Tail(q), known, shown, n, g)
  BY <1>2, <1>6, <1>7, <1>8 DEF Follow
<1>. QED BY <1>5, <1>9 DEF Pending

(* Messages without accounts are sent. *)
LEMMA PendingKept ==
  ASSUME NEW q \in Seq(Message), NEW r \in Seq(Message), NEW p,
         NEW known, NEW shown, Pending(p, q, known, shown),
         \A i \in 1 .. Len(r) : ~Adds(r[i], p)
  PROVE  Pending(p, q \o r, known, shown)
<1>1. /\ Len(q) \in Nat /\ Len(r) \in Nat /\ Len(q \o r) = Len(q) + Len(r)
      /\ \A i \in 1 .. Len(q) : (q \o r)[i] = q[i]
      /\ \A i \in 1 .. Len(r) : (q \o r)[Len(q) + i] = r[i]
  BY Joined
<1>2. PICK n \in Nat : \E f \in [1 .. n -> 1 .. Len(q)] :
        Follow(p, q, known, shown, n, f)
  BY DEF Pending
<1>3. PICK f \in [1 .. n -> 1 .. Len(q)] : Follow(p, q, known, shown, n, f)
  BY <1>2
<1>4. f \in [1 .. n -> 1 .. Len(q \o r)]
  <2>1. \A k \in 1 .. n : f[k] \in 1 .. Len(q) + Len(r)
    BY <1>1
  <2>. QED BY <1>1, <2>1
<1>5. ASSUME NEW i \in 1 .. Len(q \o r)
      PROVE  Adds((q \o r)[i], p) <=> \E k \in 1 .. n : f[k] = i
  <2>1. CASE i <= Len(q)
    <3>1. i \in 1 .. Len(q) /\ (q \o r)[i] = q[i]
      BY <1>1, <2>1
    <3>. QED BY <1>3, <3>1 DEF Follow
  <2>2. CASE ~(i <= Len(q))
    <3>1. i - Len(q) \in 1 .. Len(r) /\ Len(q) + (i - Len(q)) = i
      BY <1>1, <2>2
    <3>2. ~Adds((q \o r)[i], p)
      BY <1>1, <3>1
    <3>3. \A k \in 1 .. n : f[k] # i
      BY <1>1, <2>2
    <3>. QED BY <3>2, <3>3
  <2>. QED BY <2>1, <2>2
<1>6. \A k \in 1 .. n : (q \o r)[f[k]] = q[f[k]]
  BY <1>1
<1>7. Follow(p, q \o r, known, shown, n, f)
  BY <1>3, <1>5, <1>6 DEF Follow
<1>. QED BY <1>4, <1>7 DEF Pending

(* An account is added, and the last message sent tells of it. *)
LEMMA PendingAdded ==
  ASSUME NEW q \in Seq(Message), NEW r \in Seq(Message), NEW p,
         NEW known \in Seq(Account), NEW shown \in Seq(Account),
         Pending(p, q, known, shown), Len(r) > 0,
         NEW account \in Account, account = r[Len(r)].signal.account,
         \A i \in 1 .. Len(r) : Adds(r[i], p) <=> i = Len(r)
  PROVE  Pending(p, q \o r, Append(known, account), shown)
<1> DEFINE last == Len(q) + Len(r)
           after == Append(known, account)
<1>1. /\ Len(q) \in Nat /\ Len(r) \in Nat /\ Len(q \o r) = last
      /\ \A i \in 1 .. Len(q) : (q \o r)[i] = q[i]
      /\ \A i \in 1 .. Len(r) : (q \o r)[Len(q) + i] = r[i]
  BY Joined
<1>2. PICK n \in Nat : \E f \in [1 .. n -> 1 .. Len(q)] :
        Follow(p, q, known, shown, n, f)
  BY DEF Pending
<1>3. PICK f \in [1 .. n -> 1 .. Len(q)] : Follow(p, q, known, shown, n, f)
  BY <1>2
<1> DEFINE g == [k \in 1 .. n + 1 |-> IF k <= n THEN f[k] ELSE last]
<1>4. /\ last \in Nat /\ last > Len(q) /\ Len(r) \in 1 .. Len(r)
      /\ last \in 1 .. Len(q \o r) /\ (q \o r)[last] = r[Len(r)]
  BY <1>1
<1>5. /\ \A k \in 1 .. n : g[k] = f[k] /\ f[k] \in 1 .. Len(q)
                           /\ k \in 1 .. n + 1
      /\ g[n + 1] = last /\ n + 1 \in 1 .. n + 1
      /\ \A k \in 1 .. n + 1 : k \in 1 .. n \/ k = n + 1
  OBVIOUS
<1>6. g \in [1 .. n + 1 -> 1 .. Len(q \o r)] /\ n + 1 \in Nat
  BY <1>1, <1>4, <1>5
<1> HIDE DEF g, last
<1>7. ASSUME NEW i \in 1 .. n + 1, NEW j \in 1 .. n + 1, i < j
      PROVE  g[i] < g[j]
  <2>1. i \in 1 .. n
    BY <1>7
  <2>2. g[i] = f[i] /\ f[i] \in 1 .. Len(q)
    BY <1>5, <2>1
  <2>3. CASE j \in 1 .. n
    BY <1>3, <1>5, <1>7, <2>1, <2>3 DEF Follow
  <2>4. CASE j = n + 1
    BY <1>1, <1>4, <1>5, <2>2, <2>4
  <2>. QED BY <1>5, <2>3, <2>4
<1>8. ASSUME NEW i \in 1 .. Len(q \o r)
      PROVE  Adds((q \o r)[i], p) <=> \E k \in 1 .. n + 1 : g[k] = i
  <2>1. CASE i <= Len(q)
    <3>1. i \in 1 .. Len(q) /\ (q \o r)[i] = q[i] /\ i # last
      BY <1>1, <1>4, <2>1
    <3>2. Adds(q[i], p) <=> \E k \in 1 .. n : f[k] = i
      BY <1>3, <3>1 DEF Follow
    <3>. QED BY <1>5, <3>1, <3>2
  <2>2. CASE ~(i <= Len(q))
    <3>1. /\ i - Len(q) \in 1 .. Len(r) /\ Len(q) + (i - Len(q)) = i
          /\ i - Len(q) = Len(r) <=> i = last
      BY <1>1, <2>2 DEF last
    <3>2. Adds((q \o r)[i], p) <=> i = last
      BY <1>1, <3>1
    <3>3. \A k \in 1 .. n : g[k] # i
      BY <1>1, <1>5, <2>2
    <3>. QED BY <1>5, <3>2, <3>3
  <2>. QED BY <2>1, <2>2
<1>9. /\ Len(known) \in Nat /\ Len(after) = Len(known) + 1
      /\ \A k \in 1 .. Len(known) : after[k] = known[k]
      /\ after[Len(known) + 1] = account /\ Len(shown) \in Nat
  BY AppendProperties, LenProperties
<1> HIDE DEF after
<1>10. /\ Len(known) = Len(shown) + n
       /\ \A k \in 1 .. Len(shown) : known[k] = shown[k]
       /\ \A k \in 1 .. n : known[Len(shown) + k] = q[f[k]].signal.account
  BY <1>3 DEF Follow
<1>11. \A k \in 1 .. Len(shown) : after[k] = shown[k]
  <2>1. \A k \in 1 .. Len(shown) : k \in 1 .. Len(known)
    BY <1>9, <1>10
  <2>. QED BY <1>9, <1>10, <2>1
<1>12. ASSUME NEW k \in 1 .. n + 1
       PROVE  after[Len(shown) + k] = (q \o r)[g[k]].signal.account
  <2>1. CASE k \in 1 .. n
    <3>1. Len(shown) + k \in 1 .. Len(known)
      BY <1>9, <1>10, <2>1
    <3>2. after[Len(shown) + k] = q[f[k]].signal.account
      BY <1>9, <1>10, <2>1, <3>1
    <3>3. (q \o r)[g[k]] = q[f[k]]
      BY <1>1, <1>5, <2>1
    <3>. QED BY <3>2, <3>3
  <2>2. CASE k = n + 1
    <3>1. Len(shown) + k = Len(known) + 1
      BY <1>9, <1>10, <2>2
    <3>. QED BY <1>4, <1>5, <1>9, <2>2, <3>1
  <2>. QED BY <1>5, <2>1, <2>2
<1>13. Len(after) = Len(shown) + (n + 1)
  BY <1>9, <1>10
<1>14. Follow(p, q \o r, after, shown, n + 1, g)
  BY <1>7, <1>8, <1>11, <1>12, <1>13 DEF Follow
<1>. QED BY <1>6, <1>14 DEF Pending, after

LEMMA PendingQuietly ==
  ASSUME NEW q \in Seq(Message), NEW rest \in Seq(Message),
         NEW sent \in Seq(Message), Conveys(q, rest, sent),
         NEW p, NEW known, NEW shown,
         Pending(p, rest \o sent, known, shown)
  PROVE  Pending(p, q, known, shown)
<1> DEFINE all == rest \o sent
<1>1. /\ all \in Seq(Message) /\ Len(q) = Len(all)
      /\ \A i \in 1 .. Len(all) : q[i] = all[i] \/ q[i] = Quiet(all[i])
      /\ Pending(p, all, known, shown)
  BY Joined DEF Conveys
<1> HIDE DEF all
<1>2. \A i \in 1 .. Len(all) :
        /\ Adds(q[i], p) <=> Adds(all[i], p)
        /\ Adds(q[i], p) => q[i].signal.account = all[i].signal.account
  <2>1. \A i \in 1 .. Len(all) : all[i] \in Message
    BY <1>1, ElementOfSeq
  <2>. QED BY <1>1, <2>1, QuietTells
<1>3. PICK n \in Nat : \E f \in [1 .. n -> 1 .. Len(all)] :
        Follow(p, all, known, shown, n, f)
  BY <1>1 DEF Pending
<1>4. PICK f \in [1 .. n -> 1 .. Len(all)] :
        Follow(p, all, known, shown, n, f)
  BY <1>3
<1>5. \A k \in 1 .. n : q[f[k]].signal.account = all[f[k]].signal.account
  BY <1>2, <1>4 DEF Follow
<1>6. Follow(p, q, known, shown, n, f)
  BY <1>1, <1>2, <1>4, <1>5 DEF Follow
<1>. QED BY <1>1, <1>6 DEF Pending

(* What becomes of the messages of Identity. *)
LEMMA ConveyedHere ==
  ASSUME InboxTyped, NEW entity, ShardFor(entity) = 0, inbox[0] # <<>>,
         NEW messages \in Seq(Message), NEW then,
         GiveAnd(entity, messages, then)
  PROVE  /\ crashes' = 0 => crashes = 0
         /\ \E rest \in Seq(Message) :
              /\ Conveys(inbox'[0], rest, messages)
              /\ \/ rest = Tail(inbox[0])
                 \/ rest = inbox[0] /\ crashes' # 0
<1>0. /\ inbox \in Queues /\ 0 \in Shard /\ inbox[0] \in Seq(Message)
      /\ crashes \in Nat
  BY Shards DEF InboxTyped, Queues
<1>1. CASE inbox' = Emitted(Handled(entity), entity, messages)
           /\ UNCHANGED crashes
  <2> DEFINE queues == Handled(entity)
  <2>1. /\ queues \in Queues /\ queues[0] = Tail(inbox[0])
        /\ inbox' = Emitted(queues, entity, messages)
    BY <1>0, <1>1, HandledIs
  <2> HIDE DEF queues
  <2>2. inbox'[0] = queues[0] \o messages /\ queues[0] \in Seq(Message)
    BY <1>0, <2>1, EmittedTo DEF Queues
  <2>3. Conveys(inbox'[0], queues[0], messages)
    BY <2>2, Joined DEF Conveys
  <2>. QED BY <1>1, <2>1, <2>2, <2>3
<1>2. CASE inbox' = Unawaited(Emitted(inbox, entity, messages))
           /\ crashes' = crashes + 1
  <2> DEFINE queues == Emitted(inbox, entity, messages)
  <2>1. /\ queues \in Queues /\ queues[0] = inbox[0] \o messages
        /\ inbox' = Unawaited(queues)
    BY <1>0, <1>2, EmittedAre, EmittedTo
  <2> HIDE DEF queues
  <2>2. /\ inbox'[0] \in Seq(Message) /\ Len(inbox'[0]) = Len(queues[0])
        /\ \A i \in 1 .. Len(queues[0]) : inbox'[0][i] = Quiet(queues[0][i])
    BY <1>0, <2>1, UnawaitedIsQuiet DEF Queues
  <2>3. Conveys(inbox'[0], inbox[0], messages)
    BY <2>1, <2>2 DEF Conveys
  <2>. QED BY <1>0, <1>2, <2>3
<1>. QED BY <1>1, <1>2 DEF GiveAnd

(* The messages of Identity stay when Resources handles one. *)
LEMMA ConveyedElsewhere ==
  ASSUME InboxTyped, NEW entity, ShardFor(entity) = 1, inbox[1] # <<>>,
         NEW messages \in Seq(Message), NEW then,
         GiveAnd(entity, messages, then)
  PROVE  /\ crashes' = 0 => crashes = 0
         /\ Conveys(inbox'[0], inbox[0], <<>>)
<1>0. /\ inbox \in Queues /\ 0 \in Shard /\ inbox[0] \in Seq(Message)
      /\ crashes \in Nat /\ 0 # ShardFor(entity)
  BY Shards DEF InboxTyped, Queues
<1>1. inbox[0] \o <<>> = inbox[0]
  BY <1>0, ConcatEmptySeq
<1>2. CASE inbox' = Emitted(Handled(entity), entity, messages)
           /\ UNCHANGED crashes
  <2> DEFINE queues == Handled(entity)
  <2>1. /\ queues \in Queues /\ queues[0] = inbox[0]
        /\ inbox' = Emitted(queues, entity, messages)
    BY <1>0, <1>2, HandledIs
  <2> HIDE DEF queues
  <2>2. inbox'[0] = inbox[0]
    BY <1>0, <2>1, EmittedTo
  <2>. QED BY <1>0, <1>1, <1>2, <2>2 DEF Conveys
<1>3. CASE inbox' = Unawaited(Emitted(inbox, entity, messages))
           /\ crashes' = crashes + 1
  <2> DEFINE queues == Emitted(inbox, entity, messages)
  <2>1. /\ queues \in Queues /\ queues[0] = inbox[0]
        /\ inbox' = Unawaited(queues)
    BY <1>0, <1>3, EmittedAre, EmittedTo
  <2> HIDE DEF queues
  <2>2. /\ inbox'[0] \in Seq(Message) /\ Len(inbox'[0]) = Len(inbox[0])
        /\ \A i \in 1 .. Len(inbox[0]) : inbox'[0][i] = Quiet(inbox[0][i])
    BY <1>0, <2>1, UnawaitedIsQuiet DEF Queues
  <2>. QED BY <1>0, <1>1, <1>3, <2>2 DEF Conveys
<1>. QED BY <1>2, <1>3 DEF GiveAnd

(* The first message is handled, and what it tells a person's view of is   *)
(* shown; what becomes known of a person is told.                          *)
LEMMA MetMoves ==
  ASSUME NEW p \in Person, Met(p),
         NEW q \in Seq(Message), q = inbox[0], q # <<>>,
         NEW rest \in Seq(Message), NEW sent \in Seq(Message),
         Conveys(inbox'[0], rest, sent),
         rest = Tail(q) \/ (rest = q /\ crashes' # 0),
         crashes' = 0 => crashes = 0,
         person[p] \in PersonState, personView[p] \in PersonState,
         \A fact \in Fact :
           /\ Has(personView[p], fact) \/ Tells(fact, q[1], p) =>
                Has(personView'[p], fact)
           /\ Has(person'[p], fact) =>
                Has(person[p], fact) \/ Told(fact, p, sent, Len(sent))
           /\ \A i \in 1 .. Len(sent) : Adds(sent[i], p) =>
                \/ fact = "organization" \/ Has(person[p], fact)
                \/ Tells(fact, sent[i], p),
         \/ ~Adds(q[1], p) /\ personView'[p].account = personView[p].account
         \/ Adds(q[1], p) /\ \E a \in Account :
              /\ a = q[1].signal.account
              /\ personView'[p].account = Append(personView[p].account, a),
         \/ /\ \A i \in 1 .. Len(sent) : ~Adds(sent[i], p)
            /\ person'[p].account = person[p].account
         \/ \E a \in Account :
              /\ Len(sent) > 0 /\ a = sent[Len(sent)].signal.account
              /\ \A i \in 1 .. Len(sent) : Adds(sent[i], p) <=> i = Len(sent)
              /\ person'[p].account = Append(person[p].account, a)
  PROVE  Met(p)'
<1>1. ASSUME NEW fact \in Fact
      PROVE  Covered(fact, p, inbox'[0], person'[p], personView'[p])
  <2>1. Covered(fact, p, q, person[p], personView[p])
    BY DEF Met
  <2>2. Covered(fact, p, rest, person[p], personView'[p])
    <3>1. CASE rest = Tail(q)
      BY <2>1, <3>1, CoveredTail
    <3>2. CASE rest = q
      BY <2>1, <3>2 DEF Covered
    <3>. QED BY <3>1, <3>2
  <2>3. Covered(fact, p, rest \o sent, person'[p], personView'[p])
    BY <2>2, CoveredSent
  <2>. QED BY <2>3, CoveredQuietly DEF Conveys
<1>2. ASSUME personView'[p].account # <<>>, NEW fact \in {"email", "name"}
      PROVE  Has(personView'[p], fact)
  <2>1. fact \in Fact /\ fact # "organization"
    BY DEF Fact
  <2>2. CASE Adds(q[1], p)
    <3>1. 1 \in 1 .. Len(q)
      BY TailOf
    <3>2. Has(personView[p], fact) \/ Told(fact, p, q, 1)
      BY <2>1, <2>2, <3>1 DEF Met, Covered
    <3>3. Has(personView[p], fact) \/ Tells(fact, q[1], p)
      BY <3>2 DEF Told
    <3>. QED BY <2>1, <3>3
  <2>3. CASE ~Adds(q[1], p)
    BY <1>2, <2>1, <2>3 DEF Met
  <2>. QED BY <2>2, <2>3
<1>3. ASSUME crashes' = 0
      PROVE  Pending(p, inbox'[0], person'[p].account, personView'[p].account)
  <2> DEFINE known == person[p].account
             shown == personView[p].account
  <2>1. /\ Pending(p, q, known, shown) /\ rest = Tail(q)
        /\ known \in Seq(Account) /\ shown \in Seq(Account)
    BY <1>3 DEF Met, PersonState
  <2>2. /\ Pending(p, rest, known, personView'[p].account)
        /\ personView'[p].account \in Seq(Account)
    <3> HIDE DEF known, shown
    <3>1. CASE ~Adds(q[1], p) /\ personView'[p].account = shown
      BY <2>1, <3>1, PendingTail
    <3>2. ASSUME Adds(q[1], p), NEW a \in Account, a = q[1].signal.account,
                 personView'[p].account = Append(shown, a)
          PROVE  /\ Pending(p, rest, known, personView'[p].account)
                 /\ personView'[p].account \in Seq(Account)
      <4>1. Pending(p, Tail(q), known, Append(shown, a))
        BY <2>1, <3>2, PendingShown
      <4>2. Append(shown, a) \in Seq(Account)
        BY <2>1, <3>2, AppendProperties
      <4>. QED BY <2>1, <3>2, <4>1, <4>2
    <3>. QED BY <3>1, <3>2 DEF shown
  <2>3. Pending(p, rest \o sent, person'[p].account, personView'[p].account)
    <3> HIDE DEF known, shown
    <3>1. CASE /\ \A i \in 1 .. Len(sent) : ~Adds(sent[i], p)
               /\ person'[p].account = known
      BY <2>2, <3>1, PendingKept
    <3>2. ASSUME NEW a \in Account, Len(sent) > 0,
                 a = sent[Len(sent)].signal.account,
                 \A i \in 1 .. Len(sent) : Adds(sent[i], p) <=> i = Len(sent),
                 person'[p].account = Append(known, a)
          PROVE  Pending(p, rest \o sent, person'[p].account,
                         personView'[p].account)
      BY <2>1, <2>2, <3>2, PendingAdded
    <3>. QED BY <3>1, <3>2 DEF known
  <2>. QED BY <2>3, PendingQuietly DEF Conveys
<1>. QED BY <1>1, <1>2, <1>3 DEF Met

(* Nobody's view is told of anything. *)
LEMMA Untold ==
  ASSUME InboxTyped, Introduced, UNCHANGED <<person, personView>>,
         NEW rest \in Seq(Message), NEW sent \in Seq(Message),
         Conveys(inbox'[0], rest, sent),
         \/ rest = inbox[0]
         \/ /\ inbox[0] # <<>> /\ rest = Tail(inbox[0])
            /\ Head(inbox[0]).to # "PersonView",
         \A m \in Elements(sent) : m.to # "PersonView",
         crashes' = 0 => crashes = 0
  PROVE  Introduced'
<1> SUFFICES ASSUME NEW p \in Person
             PROVE  Met(p)'
  BY DEF Introduced
<1>0. Met(p) /\ inbox[0] \in Seq(Message)
  BY Shards DEF Introduced, InboxTyped, Queues
<1>1. \A i \in 1 .. Len(sent) : ~Adds(sent[i], p)
  BY DEF Elements, Adds
<1>2. ASSUME NEW fact \in Fact
      PROVE  Covered(fact, p, inbox'[0], person[p], personView[p])
  <2>1. Covered(fact, p, inbox[0], person[p], personView[p])
    BY <1>0 DEF Met
  <2>2. Covered(fact, p, rest, person[p], personView[p])
    <3>1. CASE rest # inbox[0]
      <4>1. inbox[0] # <<>> /\ inbox[0][1].to # "PersonView"
        BY <1>0, <3>1, TailOf
      <4>2. ~Tells(fact, inbox[0][1], p)
        BY <4>1 DEF Tells, Adds
      <4>. QED BY <1>0, <2>1, <3>1, <4>1, <4>2, CoveredTail
    <3>. QED BY <2>1, <3>1
  <2>3. Covered(fact, p, rest \o sent, person[p], personView[p])
    BY <1>1, <2>2, CoveredSent
  <2>. QED BY <2>3, CoveredQuietly DEF Conveys
<1>3. ASSUME crashes' = 0
      PROVE  Pending(p, inbox'[0], person[p].account, personView[p].account)
  <2>1. Pending(p, inbox[0], person[p].account, personView[p].account)
    BY <1>0, <1>3 DEF Met
  <2>2. Pending(p, rest, person[p].account, personView[p].account)
    <3>1. CASE rest # inbox[0]
      <4>1. inbox[0] # <<>> /\ inbox[0][1].to # "PersonView"
        BY <1>0, <3>1, TailOf
      <4>. QED BY <1>0, <2>1, <3>1, <4>1, PendingTail DEF Adds
    <3>. QED BY <2>1, <3>1
  <2>3. Pending(p, rest \o sent, person[p].account, personView[p].account)
    BY <1>1, <2>2, PendingKept
  <2>. QED BY <2>3, PendingQuietly DEF Conveys
<1>. QED BY <1>0, <1>2, <1>3 DEF Met

(* Messages of Identity that are neither from the view of people nor to it.*)
LEMMA Silent ==
  ASSUME InboxTyped, Introduced, NEW entity, ShardFor(entity) = 0,
         inbox[0] # <<>>, Head(inbox[0]).to # "PersonView",
         NEW messages \in Seq(Message), NEW then,
         GiveAnd(entity, messages, then),
         \A m \in Elements(messages) : m.to # "PersonView",
         UNCHANGED <<person, personView>>
  PROVE  Introduced'
BY ConveyedHere, Untold

LEMMA SilentElsewhere ==
  ASSUME InboxTyped, Introduced, NEW entity, ShardFor(entity) = 1,
         inbox[1] # <<>>, NEW messages \in Seq(Message), NEW then,
         GiveAnd(entity, messages, then), UNCHANGED <<person, personView>>
  PROVE  Introduced'
<1> DEFINE sent == <<>>
<1>1. sent \in Seq(Message) /\ Elements(sent) = {}
  BY DEF Elements
<1>2. inbox[0] \in Seq(Message)
  BY Shards DEF InboxTyped, Queues
<1>3. Conveys(inbox'[0], inbox[0], sent) /\ (crashes' = 0 => crashes = 0)
  BY ConveyedElsewhere
<1> HIDE DEF sent
<1>. QED BY <1>1, <1>2, <1>3, Untold

LEMMA SilentUnawaited ==
  ASSUME InboxTyped, Introduced, NEW queues \in Queues,
         NEW rest \in Seq(Message), NEW sent \in Seq(Message),
         queues[0] = rest \o sent, inbox' = Unawaited(queues),
         \/ rest = inbox[0]
         \/ /\ inbox[0] # <<>> /\ rest = Tail(inbox[0])
            /\ Head(inbox[0]).to # "PersonView",
         \A m \in Elements(sent) : m.to # "PersonView",
         crashes' = 0 => crashes = 0, UNCHANGED <<person, personView>>
  PROVE  Introduced'
<1>1. /\ inbox'[0] \in Seq(Message) /\ Len(inbox'[0]) = Len(queues[0])
      /\ \A i \in 1 .. Len(queues[0]) : inbox'[0][i] = Quiet(queues[0][i])
  <2>1. /\ 0 \in Shard /\ inbox' \in Queues
        /\ \A s \in Shard :
             /\ Len(inbox'[s]) = Len(queues[s])
             /\ \A i \in 1 .. Len(queues[s]) :
                  inbox'[s][i] = Quiet(queues[s][i])
    BY Shards, UnawaitedIsQuiet
  <2>2. inbox'[0] \in Seq(Message)
    BY <2>1 DEF Queues
  <2>. QED BY <2>1, <2>2
<1>2. Conveys(inbox'[0], rest, sent)
  BY <1>1 DEF Conveys
<1>3. CASE rest = inbox[0]
  BY <1>2, <1>3, Untold
<1>4. CASE /\ inbox[0] # <<>> /\ rest = Tail(inbox[0])
           /\ Head(inbox[0]).to # "PersonView"
  BY <1>2, <1>4, Untold
<1>. QED BY <1>3, <1>4

LEMMA NothingMoves ==
  ASSUME Introduced, inbox'[0] = inbox[0],
         UNCHANGED <<person, personView, crashes>>
  PROVE  Introduced'
BY DEF Introduced, Met

(* The view of a person takes the first message. *)
LEMMA ViewTakes ==
  ASSUME InboxTyped, Introduced, inbox[0] # <<>>,
         NEW e \in Signal, Head(inbox[0]) = To("PersonView", e),
         NEW p \in Person, e.person = p, Give("PersonView", <<>>),
         UNCHANGED person, person \in [Person -> PersonState],
         personView \in [Person -> PersonState],
         \A o \in Person : o # p => personView'[o] = personView[o],
         \A fact \in Fact :
           Has(personView[p], fact) \/ Tells(fact, To("PersonView", e), p)
             => Has(personView'[p], fact),
         \/ /\ e.type # "SignInAccountAdded"
            /\ personView'[p].account = personView[p].account
         \/ /\ e.type = "SignInAccountAdded" /\ e.account \in Account
            /\ personView'[p].account =
                 Append(personView[p].account, e.account)
  PROVE  Introduced'
<1> DEFINE sent == <<>>
<1>1. /\ sent \in Seq(Message) /\ Len(sent) = 0
      /\ GiveAnd("PersonView", sent, joining) /\ ShardFor("PersonView") = 0
  BY Shards DEF Give
<1> HIDE DEF sent
<1>2. PICK q : q = inbox[0]
  OBVIOUS
<1>3. q \in Seq(Message) /\ q # <<>> /\ q[1] = To("PersonView", e)
  BY <1>2, Shards, TailOf DEF InboxTyped, Queues
<1>4. crashes' = 0 => crashes = 0
  BY <1>1, <1>2, ConveyedHere
<1>5. PICK rest \in Seq(Message) :
        /\ Conveys(inbox'[0], rest, sent)
        /\ rest = Tail(q) \/ (rest = q /\ crashes' # 0)
  BY <1>1, <1>2, ConveyedHere
<1> SUFFICES ASSUME NEW o \in Person
             PROVE  Met(o)'
  BY DEF Introduced
<1>6. /\ q[1].to = "PersonView" /\ q[1].signal = e
      /\ Met(o) /\ person[o] \in PersonState /\ personView[o] \in PersonState
      /\ person'[o] = person[o]
  BY <1>3 DEF To, Introduced
<1>7. \A i \in 1 .. Len(sent) : FALSE
  BY <1>1
<1>8. CASE o # p
  <2>1. \A fact : ~Tells(fact, q[1], o)
    BY <1>6, <1>8 DEF Tells, Adds
  <2>2. ~Adds(q[1], o)
    BY <1>6, <1>8 DEF Adds
  <2>3. personView'[o] = personView[o]
    BY <1>8
  <2>4. \A fact \in Fact :
          /\ Has(personView[o], fact) \/ Tells(fact, q[1], o) =>
               Has(personView'[o], fact)
          /\ Has(person'[o], fact) =>
               Has(person[o], fact) \/ Told(fact, o, sent, Len(sent))
          /\ \A i \in 1 .. Len(sent) : Adds(sent[i], o) =>
               \/ fact = "organization" \/ Has(person[o], fact)
               \/ Tells(fact, sent[i], o)
    BY <1>6, <1>7, <2>1, <2>3
  <2>5. /\ \A i \in 1 .. Len(sent) : ~Adds(sent[i], o)
        /\ person'[o].account = person[o].account
    BY <1>6, <1>7
  <2>6. ~Adds(q[1], o) /\ personView'[o].account = personView[o].account
    BY <2>2, <2>3
  <2>7. q = inbox[0] /\ Met(o)
    BY <1>2, <1>6
  <2>. QED BY <1>1, <1>3, <1>4, <1>5, <1>6, <2>4, <2>5, <2>6, <2>7, MetMoves
<1>9. CASE o = p
  <2>1. Adds(q[1], o) <=> e.type = "SignInAccountAdded"
    BY <1>6, <1>9 DEF Adds
  <2>2. \A fact \in Fact : Has(personView[o], fact) \/ Tells(fact, q[1], o)
          => Has(personView'[o], fact)
    BY <1>3, <1>9
  <2>3. \/ ~Adds(q[1], o) /\ personView'[o].account = personView[o].account
        \/ Adds(q[1], o) /\ \E a \in Account :
             /\ a = q[1].signal.account
             /\ personView'[o].account = Append(personView[o].account, a)
    BY <1>6, <1>9, <2>1
  <2>4. \A fact \in Fact :
          /\ Has(personView[o], fact) \/ Tells(fact, q[1], o) =>
               Has(personView'[o], fact)
          /\ Has(person'[o], fact) =>
               Has(person[o], fact) \/ Told(fact, o, sent, Len(sent))
          /\ \A i \in 1 .. Len(sent) : Adds(sent[i], o) =>
               \/ fact = "organization" \/ Has(person[o], fact)
               \/ Tells(fact, sent[i], o)
    BY <1>6, <1>7, <2>2
  <2>5. /\ \A i \in 1 .. Len(sent) : ~Adds(sent[i], o)
        /\ person'[o].account = person[o].account
    BY <1>6, <1>7
  <2>. QED BY <1>1, <1>2, <1>3, <1>4, <1>5, <1>6, <2>3, <2>4, <2>5,
              MetMoves
<1>. QED BY <1>8, <1>9

(* A person changes, and two are told of it.  Their view is among them when*)
(* they have a new address or organization, and last when an account is    *)
(* added.                                                                  *)
LEMMA PersonTells ==
  ASSUME InboxTyped, Introduced, inbox[0] # <<>>,
         Head(inbox[0]).to = "Person", NEW s \in Signal,
         NEW to1 \in Entity, NEW to2 \in Entity,
         Give("Person", <<To(to1, s), To(to2, s)>>),
         NEW p \in Person, s.person = p, UNCHANGED personView,
         person \in [Person -> PersonState],
         personView \in [Person -> PersonState],
         \A o \in Person : o # p => person'[o] = person[o],
         \A fact \in Fact : Has(person'[p], fact) =>
           \/ Has(person[p], fact)
           \/ Tells(fact, To(to1, s), p) \/ Tells(fact, To(to2, s), p),
         \/ /\ s.type # "SignInAccountAdded"
            /\ person'[p].account = person[p].account
         \/ /\ s.type = "SignInAccountAdded" /\ s.account \in Account
            /\ person'[p].account = Append(person[p].account, s.account)
            /\ to1 # "PersonView" /\ to2 = "PersonView"
            /\ Has(person[p], "email")
            /\ Has(person[p], "name") \/ s.name # NoAccount
  PROVE  Introduced'
<1> DEFINE m1 == To(to1, s)
           m2 == To(to2, s)
           sent == <<m1, m2>>
<1>1. /\ m1 \in Message /\ m1.to = to1 /\ m1.signal = s
      /\ m2 \in Message /\ m2.to = to2 /\ m2.signal = s
  BY DEF To, Message
<1>2. GiveAnd("Person", sent, joining) /\ ShardFor("Person") = 0
  BY Shards DEF Give
<1>3. \A fact \in Fact : Has(person'[p], fact) =>
        Has(person[p], fact) \/ Tells(fact, m1, p) \/ Tells(fact, m2, p)
  OBVIOUS
<1> HIDE DEF m1, m2
<1>4. /\ sent \in Seq(Message) /\ Len(sent) = 2
      /\ sent[1] = m1 /\ sent[2] = m2
  BY <1>1
<1> HIDE DEF sent
<1>5. PICK q : q = inbox[0]
  OBVIOUS
<1>6. q \in Seq(Message) /\ q # <<>> /\ q[1].to = "Person"
  BY <1>5, Shards, TailOf DEF InboxTyped, Queues
<1>7. /\ crashes' = 0 => crashes = 0
      /\ \E rest \in Seq(Message) :
           /\ Conveys(inbox'[0], rest, sent)
           /\ rest = Tail(q) \/ (rest = q /\ crashes' # 0)
  BY <1>2, <1>4, <1>5, ConveyedHere
<1>8. PICK rest \in Seq(Message) :
        /\ Conveys(inbox'[0], rest, sent)
        /\ rest = Tail(q) \/ (rest = q /\ crashes' # 0)
  BY <1>7
<1> SUFFICES ASSUME NEW o \in Person
             PROVE  Met(o)'
  BY DEF Introduced
<1>9. /\ Met(o) /\ person[o] \in PersonState /\ personView[o] \in PersonState
      /\ personView'[o] = personView[o]
      /\ ~Adds(q[1], o) /\ \A fact : ~Tells(fact, q[1], o)
      /\ \A i \in 1 .. Len(sent) : i = 1 \/ i = 2
  BY <1>4, <1>6 DEF Introduced, Adds, Tells
<1>10. CASE o # p
  <2>1. ~Adds(m1, o) /\ ~Adds(m2, o) /\ person'[o] = person[o]
    BY <1>1, <1>10 DEF Adds
  <2>2. \A i \in 1 .. Len(sent) : ~Adds(sent[i], o)
    BY <1>4, <1>9, <2>1
  <2>. QED BY <1>5, <1>6, <1>7, <1>8, <1>9, <1>4, <2>1, <2>2, MetMoves
<1>11. CASE o = p
  <2>1. \A fact \in Fact : Has(person'[o], fact) =>
          Has(person[o], fact) \/ Told(fact, o, sent, Len(sent))
    <3>1. \A fact : Tells(fact, m1, o) \/ Tells(fact, m2, o) =>
            Told(fact, o, sent, Len(sent))
      BY <1>4 DEF Told
    <3>. QED BY <1>3, <1>11, <3>1
  <2>2. CASE /\ s.type # "SignInAccountAdded"
             /\ person'[p].account = person[p].account
    <3>1. \A i \in 1 .. Len(sent) : ~Adds(sent[i], o)
      BY <1>1, <1>4, <1>9, <2>2 DEF Adds
    <3>. QED BY <1>4, <1>5, <1>6, <1>7, <1>8, <1>9, <1>11, <2>1, <2>2, <3>1,
                MetMoves
  <2>3. CASE /\ s.type = "SignInAccountAdded" /\ s.account \in Account
             /\ person'[p].account = Append(person[p].account, s.account)
             /\ to1 # "PersonView" /\ to2 = "PersonView"
             /\ Has(person[p], "email")
             /\ Has(person[p], "name") \/ s.name # NoAccount
    <3>1. ~Adds(m1, o) /\ Adds(m2, o)
      BY <1>1, <1>11, <2>3 DEF Adds
    <3>2. \A i \in 1 .. Len(sent) : Adds(sent[i], o) <=> i = Len(sent)
      BY <1>4, <1>9, <3>1
    <3>3. \A fact \in Fact :
            fact = "organization" \/ Has(person[o], fact) \/ Tells(fact, m2, o)
      BY <1>1, <1>11, <2>3, <3>1 DEF Fact, Tells
    <3>4. \A fact \in Fact : \A i \in 1 .. Len(sent) : Adds(sent[i], o) =>
            \/ fact = "organization" \/ Has(person[o], fact)
            \/ Tells(fact, sent[i], o)
      BY <1>4, <3>2, <3>3
    <3>5. /\ Len(sent) > 0 /\ s.account = sent[Len(sent)].signal.account
      BY <1>1, <1>4
    <3>6. \E a \in Account :
            /\ Len(sent) > 0 /\ a = sent[Len(sent)].signal.account
            /\ \A i \in 1 .. Len(sent) : Adds(sent[i], o) <=> i = Len(sent)
            /\ person'[o].account = Append(person[o].account, a)
      BY <1>11, <2>3, <3>2, <3>5
    <3>7. /\ \A fact \in Fact :
                Has(personView[o], fact) \/ Tells(fact, q[1], o) =>
                  Has(personView'[o], fact)
          /\ personView'[o].account = personView[o].account
      BY <1>9
    <3>. QED BY <1>4, <1>5, <1>6, <1>7, <1>8, <1>9, <2>1, <3>4, <3>6, <3>7,
                MetMoves
  <2>. QED BY <2>2, <2>3
<1>. QED BY <1>10, <1>11

----------------------------------------------------------------------------
(* The inductive invariant.  Its first part says what the messages in      *)
(* flight may claim: each names a person who has the address it is about,  *)
(* and the organization the address was added to.                          *)

OwnerOf(account, p) ==
  /\ external[account].email \in Address
  /\ owner[external[account].email] = p

Asked(invoker, email) ==
  IF invoker \in [by : {"ExternalIdentity"}, id : Account]
  THEN external[invoker.id].email = email
  ELSE invoker.id = email /\ membership[email].organization # NoOrganization

Joins(s) ==
  /\ owner[s.membership] = s.person
  /\ membership[s.membership].organization = s.organization
  /\ s.person \in Listed(member[s.organization])

Justified(m) ==
  LET s == m.signal IN
  /\ s.type = "ExternalIdentityLinkingStarted" =>
       external[s.account].email = s.email
  /\ s.type = "RegisterPersonEmail" => Asked(s.invoker, s.email)
  /\ s.type \in OfPersonType =>
       /\ Asked(s.invoker, s.email) /\ owner[s.email] = s.person
       /\ m.to \in {"ExternalIdentity", "Membership"} => m.to = s.invoker.by
  /\ s.type = "PersonRegistered" => person[s.person].email = s.email
  /\ s.type \in {"AddSignInAccount", "SignInAccountAdded"} =>
       OwnerOf(s.account, s.person)
  /\ s.type = "SignInAccountAdded" /\ s.name # NoAccount =>
       person[s.person].name = s.name
  /\ s.type = "ExternalIdentityLinked" =>
       external[s.account].person = s.person
  /\ s.type \in {"JoinOrganization", "OrganizationJoined", "MemberAdded"} =>
       Joins(s)
  /\ s.type \in {"OrganizationJoined", "MemberAdded"} =>
       person[s.person].organization = s.organization
  /\ s.type = "MemberAddingStarted" =>
       membership[s.membership].organization # NoOrganization
  /\ s.type = "AddOrganizationMember" => \E e \in Address :
       owner[e] = s.person /\ membership[e].organization = s.organization
  /\ s.type = "OrganizationMemberAdded" => s.member \in member[s.organization]

(* Accounts belong to the owners of their addresses.                       *)
AccountsAgree ==
  \A a \in Account :
    /\ external[a].person # NoPerson => OwnerOf(a, external[a].person)
    /\ externalView[a] # NoPerson => externalView[a] = external[a].person

(* People own one address, and what is shown of them is true.              *)
PeopleAgree ==
  /\ \A e, f \in Address : owner[e] = owner[f] /\ owner[e] # NoPerson => e = f
  /\ \A p \in Person :
       /\ person[p].email # NoAddress => owner[person[p].email] = p
       /\ personView[p].email # NoAddress =>
            personView[p].email = person[p].email
       /\ personView[p].name # NoAccount =>
            personView[p].name = person[p].name
       /\ personView[p].organization # NoOrganization =>
            personView[p].organization = person[p].organization

(* A membership is shown for the owner of its address, once they joined.   *)
MembershipsAgree ==
  \A e \in Address :
    /\ membershipView[e].person # NoPerson =>
         membershipView[e].person = owner[e]
    /\ membershipView[e].organization # NoOrganization =>
         /\ membershipView[e].person \in Person
         /\ membershipView[e].organization =
              person[membershipView[e].person].organization
    /\ membership[e].organization # NoOrganization =>
         membership[e].role \in Role

(* People join where they are listed. *)
JoinersAreListed ==
  \A p \in Person : person[p].organization # NoOrganization =>
    p \in Listed(member[person[p].organization])

(* An organization lists people once, and only those added to it.          *)
OrganizationsAgree ==
  \A o \in Organization :
    /\ IsFiniteSet(member[o]) /\ IsFiniteSet(Listed(member[o]))
    /\ Cardinality(Listed(member[o])) = Cardinality(member[o])
    /\ memberView[o] \subseteq member[o]
    /\ \A p \in Listed(member[o]) : \E e \in Address :
         owner[e] = p /\ membership[e].organization = o

Agreeing ==
  /\ AccountsAgree /\ PeopleAgree /\ MembershipsAgree
  /\ JoinersAreListed /\ OrganizationsAgree

(* The places of the commands to Resources that somebody waits for.        *)
AwaitedAt ==
  {i \in 1 .. Len(inbox[1]) :
     /\ inbox[1][i].signal.type = "AddOrganizationMember"
     /\ inbox[1][i].signal.awaited = TRUE}

(* While a membership waits, its message stays, and at most one command is *)
(* awaited, the one for its person; it goes on once they are listed.       *)
Waiting ==
  /\ joining # "no" =>
       /\ inbox[0] # <<>>
       /\ Head(inbox[0]).to = "Membership"
       /\ Head(inbox[0]).signal.type \in Found
  /\ joining = "confirmed" => Joiner \in Listed(member[JoinedOrganization])
  /\ joining # "waiting" => AwaitedAt = {}
  /\ \A i \in AwaitedAt :
       /\ inbox[1][i].signal.person = Joiner
       /\ inbox[1][i].signal.organization = JoinedOrganization
       /\ \A j \in AwaitedAt : i = j

IInv ==
  /\ TypeOK /\ InboxTyped
  /\ \A m \in InFlight : Justified(m)
  /\ Agreeing /\ Waiting /\ Introduced

(* How the entities may change: what is known of an account, an address or *)
(* a person is never taken back, and nobody is unlisted.                   *)
Advancing ==
  /\ \A a \in Account :
       /\ external[a].email # NoAddress =>
            external'[a].email = external[a].email
       /\ external[a].person # NoPerson =>
            external'[a].person = external[a].person
       /\ externalView[a] # NoPerson => externalView'[a] = externalView[a]
  /\ \A e \in Address :
       /\ owner[e] # NoPerson => owner'[e] = owner[e]
       /\ membership[e].organization # NoOrganization =>
            membership'[e].organization = membership[e].organization
  /\ \A p \in Person :
       /\ person[p].email # NoAddress => person'[p].email = person[p].email
       /\ person[p].name # NoAccount => person'[p].name = person[p].name
       /\ person[p].organization # NoOrganization =>
            person'[p].organization = person[p].organization
  /\ \A o \in Organization : member[o] \subseteq member'[o]

LEMMA Addresses ==
  /\ Address \subseteq Email
  /\ \A e \in Email : Normalized[e] \in Address
  /\ \A a \in Address : Normalized[a] = a
  /\ NoAddress \notin Address
<1>1. /\ Normalized \in [Email -> Email]
      /\ \A e \in Email : Normalized[Normalized[e]] = Normalized[e]
      /\ NoAddress \notin Email
  BY IdentityConstants
<1>2. Address = {Normalized[e] : e \in Email}
  BY <1>1 DEF Address, Range
<1>. QED BY <1>1, <1>2

LEMMA Nothing ==
  /\ NoPerson \notin Person /\ NoOrganization \notin Organization
  /\ NoAccount \notin Account
  BY IdentityConstants

(* What a message may claim, it may claim from then on.                    *)
LEMMA JustifiedStays ==
  ASSUME NEW m \in Message, Justified(m), Advancing
  PROVE  Justified(m)'
<1> DEFINE s == m.signal
<1>0. s \in Signal /\ s = m.signal
  BY DEF Message
<1> HIDE DEF s
<1>1. s.type = "ExternalIdentityLinkingStarted" =>
        external'[s.account].email = s.email
  <2>1. CASE s.type = "ExternalIdentityLinkingStarted"
    <3>1. s \in LinkingStarted
      BY <1>0, <2>1, SignalTypes
    <3>. QED BY <1>0, <2>1, <3>1, Addresses DEF LinkingStarted, Justified,
                Advancing
  <2>. QED BY <2>1
<1>2. ASSUME NEW invoker \in Invoker, NEW e \in Address, Asked(invoker, e)
      PROVE  Asked(invoker, e)'
  <2>1. CASE invoker \in [by : {"ExternalIdentity"}, id : Account]
    BY <1>2, <2>1, Addresses DEF Asked, Advancing
  <2>2. CASE invoker \notin [by : {"ExternalIdentity"}, id : Account]
    BY <1>2, <2>2, Nothing DEF Asked, Advancing
  <2>. QED BY <2>1, <2>2
<1>3. s.type = "RegisterPersonEmail" => Asked(s.invoker, s.email)'
  <2>1. CASE s.type = "RegisterPersonEmail"
    <3>1. s \in RegisterEmail
      BY <1>0, <2>1, SignalTypes
    <3>2. /\ s.invoker \in Invoker /\ s.email \in Address
          /\ Asked(s.invoker, s.email)
      BY <1>0, <2>1, <3>1 DEF RegisterEmail, Justified
    <3>. QED BY <1>2, <3>2
  <2>. QED BY <2>1
<1>4. s.type \in OfPersonType =>
        Asked(s.invoker, s.email)' /\ owner'[s.email] = s.person
  <2>1. CASE s.type \in OfPersonType
    <3>1. s \in OfPerson
      BY <1>0, <2>1, SignalTypes
    <3>2. /\ s.invoker \in Invoker /\ s.email \in Address
          /\ s.person \in Person
      BY <3>1 DEF OfPerson
    <3>3. Asked(s.invoker, s.email) /\ owner[s.email] = s.person
      BY <1>0, <2>1 DEF Justified
    <3>4. owner'[s.email] = s.person
      BY <3>2, <3>3, Nothing DEF Advancing
    <3>. QED BY <1>2, <3>2, <3>3, <3>4
  <2>. QED BY <2>1
<1>5. s.type \in {"AddSignInAccount", "SignInAccountAdded"} =>
        OwnerOf(s.account, s.person)'
  <2>1. CASE s.type \in {"AddSignInAccount", "SignInAccountAdded"}
    <3>1. s.account \in Account /\ s.person \in Person
      BY <1>0, <2>1, SignalTypes DEF OfAccount, AccountAdded
    <3>2. OwnerOf(s.account, s.person)
      BY <1>0, <2>1 DEF Justified
    <3>. QED BY <3>1, <3>2, Addresses, Nothing DEF OwnerOf, Advancing
  <2>. QED BY <2>1
<1>6. s.type = "ExternalIdentityLinked" =>
        external'[s.account].person = s.person
  <2>1. CASE s.type = "ExternalIdentityLinked"
    <3>1. s.account \in Account /\ s.person \in Person
      BY <1>0, <2>1, SignalTypes DEF OfAccount
    <3>. QED BY <1>0, <2>1, <3>1, Nothing DEF Justified, Advancing
  <2>. QED BY <2>1
<1>7. /\ s.type \in {"JoinOrganization", "OrganizationJoined", "MemberAdded"}
           => Joins(s)'
      /\ s.type \in {"OrganizationJoined", "MemberAdded"} =>
           person'[s.person].organization = s.organization
  <2>1. CASE s.type \in {"JoinOrganization", "OrganizationJoined",
                         "MemberAdded"}
    <3>1. /\ s.membership \in Address /\ s.person \in Person
          /\ s.organization \in Organization
      BY <1>0, <2>1, SignalTypes DEF Joining, Added
    <3>2. Joins(s)
      BY <1>0, <2>1 DEF Justified
    <3>3. Joins(s)'
      BY <3>1, <3>2, Nothing DEF Joins, Advancing, Listed
    <3>4. s.type \in {"OrganizationJoined", "MemberAdded"} =>
            person[s.person].organization = s.organization
      BY <1>0 DEF Justified
    <3>. QED BY <3>1, <3>3, <3>4, Nothing DEF Advancing
  <2>. QED BY <2>1
<1>8. s.type = "MemberAddingStarted" =>
        membership'[s.membership].organization # NoOrganization
  <2>1. CASE s.type = "MemberAddingStarted"
    <3>1. s.membership \in Address
      BY <1>0, <2>1, SignalTypes DEF AddingStarted
    <3>. QED BY <1>0, <2>1, <3>1 DEF Justified, Advancing
  <2>. QED BY <2>1
<1>9. s.type = "AddOrganizationMember" => \E e \in Address :
        owner'[e] = s.person /\ membership'[e].organization = s.organization
  <2>1. CASE s.type = "AddOrganizationMember"
    <3>1. s.person \in Person /\ s.organization \in Organization
      BY <1>0, <2>1, SignalTypes DEF AskCommand
    <3>2. PICK e \in Address : /\ owner[e] = s.person
                               /\ membership[e].organization = s.organization
      BY <1>0, <2>1 DEF Justified
    <3>. QED BY <3>1, <3>2, Nothing DEF Advancing
  <2>. QED BY <2>1
<1>10. s.type = "OrganizationMemberAdded" =>
         s.member \in member'[s.organization]
  <2>1. CASE s.type = "OrganizationMemberAdded"
    <3>1. s.organization \in Organization
      BY <1>0, <2>1, SignalTypes DEF MemberListed
    <3>. QED BY <1>0, <2>1, <3>1 DEF Justified, Advancing
  <2>. QED BY <2>1
<1>11. s.type \in OfPersonType =>
         (m.to \in {"ExternalIdentity", "Membership"} => m.to = s.invoker.by)
  BY <1>0 DEF Justified
<1>12. s.type = "PersonRegistered" => person'[s.person].email = s.email
  <2>1. CASE s.type = "PersonRegistered"
    <3>1. s.person \in Person /\ s.email \in Address
      BY <1>0, <2>1, SignalTypes DEF OfPerson, OfPersonType
    <3>. QED BY <1>0, <2>1, <3>1, Addresses DEF Justified, Advancing
  <2>. QED BY <2>1
<1>13. s.type = "SignInAccountAdded" /\ s.name # NoAccount =>
         person'[s.person].name = s.name
  <2>1. CASE s.type = "SignInAccountAdded" /\ s.name # NoAccount
    <3>1. s.person \in Person
      BY <1>0, <2>1, SignalTypes DEF AccountAdded
    <3>. QED BY <1>0, <2>1, <3>1 DEF Justified, Advancing
  <2>. QED BY <2>1
<1>. QED BY <1>0, <1>1, <1>3, <1>4, <1>5, <1>6, <1>7, <1>8, <1>9, <1>10,
            <1>11, <1>12, <1>13 DEF Justified

(* A message nobody waits for claims no more.                              *)
LEMMA QuietIsJustified ==
  ASSUME NEW m \in Message, Justified(m)'
  PROVE  Justified(Quiet(m))'
<1>1. CASE m.signal.type # "AddOrganizationMember"
  BY <1>1, QuietKeeps
<1>2. CASE m.signal.type = "AddOrganizationMember"
  <2>1. /\ Quiet(m).signal.type = "AddOrganizationMember"
        /\ Quiet(m).signal.person = m.signal.person
        /\ Quiet(m).signal.organization = m.signal.organization
    BY <1>2, QuietKeeps
  <2>. QED BY <1>2, <2>1 DEF Justified, OfPersonType
<1>. QED BY <1>1, <1>2

----------------------------------------------------------------------------
(* What stays true of entities that advance.  Each lemma names what must   *)
(* not change at all.                                                      *)

LEMMA AccountsStay ==
  ASSUME TypeOK, AccountsAgree, Advancing, UNCHANGED externalView,
         \A a \in Account : external'[a].person = external[a].person
  PROVE  AccountsAgree'
<1> SUFFICES ASSUME NEW a \in Account
             PROVE  /\ external'[a].person # NoPerson =>
                         OwnerOf(a, external[a].person)'
                    /\ externalView'[a] # NoPerson =>
                         externalView'[a] = external'[a].person
  BY DEF AccountsAgree
<1>1. CASE external[a].person # NoPerson
  <2>1. OwnerOf(a, external[a].person)
    BY <1>1 DEF AccountsAgree
  <2>2. OwnerOf(a, external[a].person)'
    BY <1>1, <2>1, Addresses DEF OwnerOf, Advancing
  <2>. QED BY <2>2 DEF AccountsAgree, OwnerOf
<1>2. CASE external[a].person = NoPerson
  BY <1>2 DEF AccountsAgree
<1>. QED BY <1>1, <1>2

LEMMA MembershipsStay ==
  ASSUME TypeOK, MembershipsAgree, Advancing, UNCHANGED memberships
  PROVE  MembershipsAgree'
<1> SUFFICES ASSUME NEW e \in Address
      PROVE  /\ membershipView[e].person # NoPerson =>
                  membershipView[e].person = owner'[e]
             /\ membershipView[e].organization # NoOrganization =>
                  /\ membershipView[e].person \in Person
                  /\ membershipView[e].organization =
                       person'[membershipView[e].person].organization
             /\ membership[e].organization # NoOrganization =>
                  membership[e].role \in Role
  BY DEF MembershipsAgree, memberships
<1>. QED BY DEF MembershipsAgree, Advancing

LEMMA JoinersStay ==
  ASSUME JoinersAreListed, TypeOK, Advancing,
         \A p \in Person : person'[p].organization = person[p].organization
  PROVE  JoinersAreListed'
<1> SUFFICES ASSUME NEW p \in Person,
                    person'[p].organization # NoOrganization
             PROVE  p \in Listed(member'[person'[p].organization])
  BY DEF JoinersAreListed
<1>1. person[p].organization \in Organization
  BY DEF TypeOK, PersonState
<1>. QED BY <1>1 DEF JoinersAreListed, Listed, Advancing

LEMMA OrganizationsStay ==
  ASSUME TypeOK, OrganizationsAgree, Advancing, UNCHANGED organizations
  PROVE  OrganizationsAgree'
<1> SUFFICES ASSUME NEW o \in Organization, NEW p \in Person,
                    p \in Listed(member[o])
             PROVE  \E e \in Address :
                      owner'[e] = p /\ membership'[e].organization = o
  <2>1. \A o \in Organization : Listed(member[o]) \subseteq Person
    BY DEF TypeOK, Listed, Member
  <2>. QED BY <2>1 DEF OrganizationsAgree, organizations
<1>1. PICK e \in Address : owner[e] = p /\ membership[e].organization = o
  BY DEF OrganizationsAgree
<1>. QED BY <1>1, Nothing DEF Advancing

LEMMA PeopleStay ==
  ASSUME PeopleAgree, UNCHANGED people
  PROVE  PeopleAgree'
BY DEF PeopleAgree, people

LEMMA Unmoved ==
  ASSUME UNCHANGED entities
  PROVE  /\ Advancing
         /\ Agreeing => Agreeing'
         /\ \A m : Justified(m) => Justified(m)'
         /\ TypeOK /\ joining' \in {"no", "asking", "waiting", "confirmed"}
              => TypeOK'
<1>1. UNCHANGED <<external, externalView, owner, person, personView,
                  membership, membershipView, member, memberView>>
  BY DEF entities, accounts, people, memberships, organizations
<1>2. Advancing
  BY <1>1 DEF Advancing
<1>3. Agreeing => Agreeing'
  BY <1>1 DEF Agreeing, AccountsAgree, PeopleAgree, MembershipsAgree,
              JoinersAreListed, OrganizationsAgree, OwnerOf
<1>4. ASSUME NEW m, Justified(m)
      PROVE  Justified(m)'
  BY <1>1, <1>4 DEF Justified, Asked, OwnerOf, Joins
<1>5. TypeOK /\ joining' \in {"no", "asking", "waiting", "confirmed"}
        => TypeOK'
  BY <1>1 DEF TypeOK
<1>. QED BY <1>2, <1>3, <1>4, <1>5

----------------------------------------------------------------------------
(* Handlers of Identity. *)

LEMMA ElementsOfTuples ==
  /\ Elements(<<>>) = {}
  /\ \A a : Elements(<<a>>) = {a}
  /\ \A a, b : Elements(<<a, b>>) = {a, b}
<1>1. Elements(<<>>) = {}
  BY DEF Elements
<1>2. ASSUME NEW a
      PROVE  Elements(<<a>>) = {a}
  BY DEF Elements
<1>3. ASSUME NEW a, NEW b
      PROVE  Elements(<<a, b>>) = {a, b}
  <2>1. Len(<<a, b>>) = 2 /\ <<a, b>>[1] = a /\ <<a, b>>[2] = b
    OBVIOUS
  <2>2. 1 .. 2 = {1, 2}
    OBVIOUS
  <2>. QED BY <2>1, <2>2 DEF Elements
<1>. QED BY <1>1, <1>2, <1>3

(* What a handler is given. *)
LEMMA Took ==
  ASSUME IInv, NEW entity, NEW types, Receives(entity, types)
  PROVE  /\ inbox[ShardFor(entity)] # <<>>
         /\ Received(entity) \in Signal
         /\ Received(entity).type \in types
         /\ Justified(To(entity, Received(entity)))
         /\ ShardFor(entity) = 0 => joining = "no"
         /\ entity \in Entity
<1> DEFINE m == Head(inbox[ShardFor(entity)])
<1>1. /\ inbox[ShardFor(entity)] # <<>> /\ m.to = entity
      /\ m.signal \in Signal => m.signal.type \in types
      /\ m.signal.type \in types
      /\ Received(entity) = m.signal
      /\ ShardFor(entity) = ShardFor("Membership") => joining = "no"
  BY DEF Receives, Received
<1>2. m \in Message /\ m \in InFlight
  BY <1>1, Shards, ElementsOfSequences DEF IInv, InboxTyped, InFlight, Queues
<1>3. Justified(m)
  BY <1>2 DEF IInv
<1>4. m = To(entity, Received(entity)) /\ m.signal \in Signal
      /\ entity \in Entity
  BY <1>1, <1>2 DEF Message, To
<1>. QED BY <1>1, <1>3, <1>4, Shards

(* Nobody waits, and goes on waiting for nothing.                          *)
LEMMA NobodyWaits ==
  joining = "no" /\ AwaitedAt = {} => Waiting
  BY DEF Waiting

LEMMA UnawaitedPlaces ==
  ASSUME NEW queues \in Queues, inbox' = Unawaited(queues)
  PROVE  AwaitedAt' = {}
<1>1. 1 \in Shard /\ Len(queues[1]) \in Nat
  BY Shards, LenProperties
<1>2. /\ Len(inbox'[1]) = Len(queues[1])
      /\ \A i \in 1 .. Len(queues[1]) : inbox'[1][i] = Quiet(queues[1][i])
  BY <1>1, UnawaitedIsQuiet
<1>3. ASSUME NEW i \in 1 .. Len(queues[1]),
             Quiet(queues[1][i]).signal.type = "AddOrganizationMember"
      PROVE  Quiet(queues[1][i]).signal.awaited = FALSE
  <2>1. queues[1][i] \in Message
    BY <1>1, ElementOfSeq DEF Queues
  <2>. QED BY <1>3, <2>1, QuietKeeps
<1>. QED BY <1>2, <1>3 DEF AwaitedAt

LEMMA PlacesStay ==
  ASSUME InboxTyped, AwaitedAt = {}, NEW entity, ShardFor(entity) = 0,
         inbox[0] # <<>>, NEW messages \in Seq(Message),
         GiveAnd(entity, messages, "no")
  PROVE  AwaitedAt' = {} /\ joining' = "no"
<1>0. inbox \in Queues /\ 0 \in Shard /\ 1 \in Shard
  BY Shards DEF InboxTyped
<1>1. CASE inbox' = Emitted(Handled(entity), entity, messages)
  <2> DEFINE queues == Handled(entity)
  <2>1. queues \in Queues /\ queues[1] = inbox[1]
    BY <1>0, HandledIs
  <2>2. inbox' = Emitted(queues, entity, messages)
    BY <1>1
  <2>. HIDE DEF queues
  <2>3. Emitted(queues, entity, messages)[1] = queues[1]
    <3>1. 1 \in Shard /\ 1 # ShardFor(entity)
      BY <1>0
    <3>2. queues \in Queues
      BY <2>1
    <3>. QED BY <3>1, <3>2, EmittedTo
  <2>4. inbox'[1] = inbox[1]
    BY <2>1, <2>2, <2>3
  <2>5. AwaitedAt' = AwaitedAt
    BY <2>4 DEF AwaitedAt
  <2>. QED BY <2>5 DEF GiveAnd
<1>2. CASE inbox' = Unawaited(Emitted(inbox, entity, messages))
  <2>1. Emitted(inbox, entity, messages) \in Queues
    BY <1>0, EmittedAre
  <2>. QED BY <1>2, <2>1, UnawaitedPlaces DEF GiveAnd
<1>. QED BY <1>1, <1>2 DEF GiveAnd

(* A handler of Identity that leaves every entity in order and emits only  *)
(* what it may claim keeps the invariant.                                  *)
LEMMA Done ==
  ASSUME IInv, AwaitedAt = {}, NEW entity, ShardFor(entity) = 0,
         inbox[0] # <<>>, NEW messages \in Seq(Message),
         GiveAnd(entity, messages, "no"),
         TypeOK', Advancing, Agreeing', Introduced',
         \A m \in Elements(messages) : Justified(m)'
  PROVE  IInv' /\ Advancing
<1>1. /\ InboxTyped'
      /\ \A m \in InFlight' : \E n \in InFlight \cup Elements(messages) :
           m = n \/ m = Quiet(n)
  BY Sending DEF IInv
<1>2. InFlight \cup Elements(messages) \subseteq Message
  BY Shards, ElementsOfSequences DEF InFlight, IInv, InboxTyped, Queues
<1>3. \A n \in InFlight \cup Elements(messages) : Justified(n)'
  BY <1>2, JustifiedStays DEF IInv
<1>4. \A n \in InFlight \cup Elements(messages) : Justified(Quiet(n))'
  BY <1>2, <1>3, QuietIsJustified
<1>5. \A m \in InFlight' : Justified(m)'
  BY <1>1, <1>3, <1>4
<1>6. Waiting'
  <2>1. (joining = "no" /\ AwaitedAt = {} => Waiting)'
    BY NobodyWaits, PTL
  <2>. QED BY <2>1, PlacesStay DEF IInv
<1>. QED BY <1>1, <1>5, <1>6 DEF IInv

LEMMA HandlerKeeps ==
  ASSUME IInv, NEW entity, NEW types, Receives(entity, types),
         ShardFor(entity) = 0, NEW messages \in Seq(Message),
         Give(entity, messages),
         joining' = "no" => TypeOK', Advancing, Agreeing', Introduced',
         \A m \in Elements(messages) : Justified(m)'
  PROVE  IInv' /\ Advancing
<1>1. joining = "no" /\ inbox[0] # <<>>
  BY Took
<1>2. GiveAnd(entity, messages, "no") /\ joining' = "no"
  BY <1>1 DEF Give, GiveAnd
<1>3. AwaitedAt = {}
  BY <1>1 DEF IInv, Waiting
<1>. QED BY <1>1, <1>2, <1>3, Done

(* A handler that tells the view of people nothing. *)
LEMMA Unheard ==
  ASSUME IInv, NEW entity, NEW types, Receives(entity, types),
         ShardFor(entity) = 0, entity # "PersonView",
         NEW messages \in Seq(Message), Give(entity, messages),
         \A m \in Elements(messages) : m.to # "PersonView",
         UNCHANGED <<person, personView>>
  PROVE  Introduced'
<1>1. inbox[0] # <<>> /\ Head(inbox[0]).to = entity
  BY DEF Receives
<1>2. InboxTyped /\ Introduced /\ GiveAnd(entity, messages, joining)
  BY DEF IInv, Give
<1>. QED BY <1>1, <1>2, Silent

LEMMA Passed ==
  ASSUME IInv, NEW entity, NEW types, Receives(entity, types),
         ShardFor(entity) = 0, entity # "PersonView",
         NEW messages \in Seq(Message),
         Give(entity, messages), UNCHANGED entities,
         \A m \in Elements(messages) : Justified(m) /\ m.to # "PersonView"
  PROVE  IInv' /\ Advancing
<1>1. UNCHANGED <<person, personView>>
  BY DEF entities, people
<1>2. Introduced'
  BY <1>1, Unheard
<1>. QED BY <1>2, Unmoved, HandlerKeeps DEF IInv

LEMMA Dropped ==
  ASSUME IInv, NEW entity, NEW types, Receives(entity, types),
         ShardFor(entity) = 0, entity # "PersonView", Drop(entity)
  PROVE  IInv' /\ Advancing
<1>1. <<>> \in Seq(Message) /\ Elements(<<>>) = {}
  BY ElementsOfTuples
<1>. QED BY <1>1, Passed DEF Drop

(* A handler that emits one message or two. *)
LEMMA LetterSent ==
  ASSUME IInv, NEW entity, NEW types, Receives(entity, types),
         ShardFor(entity) = 0, NEW to \in Entity, NEW s \in Signal,
         entity # "PersonView", to # "PersonView",
         Give(entity, <<To(to, s)>>), UNCHANGED <<person, personView>>,
         joining' = "no" => TypeOK', Advancing, Agreeing',
         Justified(To(to, s))'
  PROVE  IInv' /\ Advancing
<1>1. To(to, s) \in Message /\ To(to, s).to # "PersonView"
  BY DEF To, Message
<1> DEFINE sent == <<To(to, s)>>
<1>2. /\ sent \in Seq(Message) /\ \A m \in Elements(sent) : Justified(m)'
      /\ \A m \in Elements(sent) : m.to # "PersonView"
  BY <1>1, ElementsOfTuples
<1>3. Give(entity, sent)
  OBVIOUS
<1> HIDE DEF sent
<1>4. Introduced'
  BY <1>2, <1>3, Unheard
<1>. QED BY <1>2, <1>3, <1>4, HandlerKeeps

LEMMA LettersSent ==
  ASSUME IInv, NEW entity, NEW types, Receives(entity, types),
         ShardFor(entity) = 0, NEW to1 \in Entity, NEW to2 \in Entity,
         NEW s \in Signal, Give(entity, <<To(to1, s), To(to2, s)>>),
         joining' = "no" => TypeOK', Advancing, Agreeing', Introduced',
         Justified(To(to1, s))', Justified(To(to2, s))'
  PROVE  IInv' /\ Advancing
<1>1. To(to1, s) \in Message /\ To(to2, s) \in Message
  BY DEF To, Message
<1> DEFINE sent == <<To(to1, s), To(to2, s)>>
<1>2. sent \in Seq(Message) /\ \A m \in Elements(sent) : Justified(m)'
  BY <1>1, ElementsOfTuples
<1>3. Give(entity, sent)
  OBVIOUS
<1> HIDE DEF sent
<1>. QED BY <1>2, <1>3, HandlerKeeps

LEMMA LetterPassed ==
  ASSUME IInv, NEW entity, NEW types, Receives(entity, types),
         ShardFor(entity) = 0, NEW to \in Entity, NEW s \in Signal,
         entity # "PersonView", to # "PersonView",
         Give(entity, <<To(to, s)>>), UNCHANGED entities,
         Justified(To(to, s))
  PROVE  IInv' /\ Advancing
<1>1. To(to, s) \in Message /\ To(to, s).to # "PersonView"
  BY DEF To, Message
<1> DEFINE sent == <<To(to, s)>>
<1>2. /\ sent \in Seq(Message)
      /\ \A m \in Elements(sent) : Justified(m) /\ m.to # "PersonView"
  BY <1>1, ElementsOfTuples
<1>3. Give(entity, sent)
  OBVIOUS
<1> HIDE DEF sent
<1>. QED BY <1>2, <1>3, Passed

(* A handler that emits nothing. *)
LEMMA NothingSent ==
  ASSUME IInv, NEW entity, NEW types, Receives(entity, types),
         ShardFor(entity) = 0, entity # "PersonView", Give(entity, <<>>),
         UNCHANGED <<person, personView>>,
         joining' = "no" => TypeOK', Advancing, Agreeing'
  PROVE  IInv' /\ Advancing
<1> DEFINE sent == <<>>
<1>1. sent \in Seq(Message) /\ Elements(sent) = {} /\ Give(entity, sent)
  BY ElementsOfTuples
<1> HIDE DEF sent
<1>2. Introduced'
  BY <1>1, Unheard
<1>. QED BY <1>1, <1>2, HandlerKeeps

LEMMA LinkExternalIdentityKeeps ==
  ASSUME IInv, LinkExternalIdentity
  PROVE  IInv' /\ Advancing
<1>0. /\ Receives("ExternalIdentity", {"LinkExternalIdentity"})
      /\ ShardFor("ExternalIdentity") = 0
      /\ TypeOK /\ Agreeing
  BY Shards DEF LinkExternalIdentity, IInv
<1>1. PICK c \in LinkCommand : c = Received("ExternalIdentity")
  BY <1>0, Took, SignalTypes
<1> DEFINE address == AddressOf(c.email)
           started == [type |-> "ExternalIdentityLinkingStarted",
                       account |-> c.account, email |-> address]
<1>2. /\ c.account \in Account /\ address \in Address
      /\ started \in Signal
  BY Addresses DEF LinkCommand, AddressOf, Signal, LinkingStarted
<1>3. CASE Drop("ExternalIdentity")
  BY <1>0, <1>3, Dropped
<1>4. CASE /\ external[c.account].email = NoAddress
           /\ external' = [external EXCEPT ![c.account].email = address]
           /\ Give("ExternalIdentity", <<To("ExternalIdentity", started)>>)
           /\ UNCHANGED <<externalView, people, memberships, organizations>>
  <2> HIDE DEF address
  <2>1. external \in [Account -> [email : Address \cup {NoAddress},
                                  person : Person \cup {NoPerson}]]
    BY <1>0 DEF TypeOK
  <2>2. /\ external'[c.account].email = address
        /\ external'[c.account].person = external[c.account].person
        /\ \A a \in Account : a # c.account => external'[a] = external[a]
    BY <1>2, <1>4, <2>1
  <2>3. external' \in [Account -> [email : Address \cup {NoAddress},
                                   person : Person \cup {NoPerson}]]
    BY <1>2, <1>4, <2>1
  <2>4. joining' = "no" => TypeOK'
    BY <1>0, <1>4, <2>3 DEF TypeOK, people, memberships, organizations
  <2>5. Advancing
    BY <1>4, <2>2 DEF Advancing, people, memberships, organizations
  <2>6. /\ UNCHANGED <<person, personView>>
        /\ \A a \in Account : external'[a].person = external[a].person
        /\ \A p \in Person : person'[p].organization = person[p].organization
    BY <1>4, <2>2 DEF people
  <2>7. Agreeing'
    BY <1>0, <1>4, <2>5, <2>6, AccountsStay, PeopleStay,
       MembershipsStay, JoinersStay, OrganizationsStay DEF Agreeing
  <2>8. Justified(To("ExternalIdentity", started))'
    <3>1. To("ExternalIdentity", started).signal = started
      BY DEF To
    <3>2. /\ started.type = "ExternalIdentityLinkingStarted"
          /\ started.account = c.account /\ started.email = address
      OBVIOUS
    <3>. HIDE DEF started
    <3>. QED BY <3>1, <3>2, <2>2 DEF Justified, OfPersonType
  <2>9. "ExternalIdentity" \in Entity
    BY DEF Entity
  <2> HIDE DEF started
  <2>. QED BY <1>0, <1>2, <1>4, <2>4, <2>5, <2>6, <2>7, <2>8, <2>9,
              LetterSent
<1>. QED BY <1>1, <1>3, <1>4 DEF LinkExternalIdentity

LEMMA LinkingStartedKeeps ==
  ASSUME IInv, OnExternalIdentityLinkingStarted
  PROVE  IInv' /\ Advancing
<1>0. /\ Receives("ExternalIdentity", {"ExternalIdentityLinkingStarted"})
      /\ ShardFor("ExternalIdentity") = 0 /\ "PersonEmail" \in Entity
  BY Shards DEF OnExternalIdentityLinkingStarted, Entity
<1>1. PICK e \in LinkingStarted :
        /\ e = Received("ExternalIdentity")
        /\ Justified(To("ExternalIdentity", e))
  BY <1>0, Took, SignalTypes
<1> DEFINE invoker == [by |-> "ExternalIdentity", id |-> e.account]
           register == [type |-> "RegisterPersonEmail", email |-> e.email,
                        invoker |-> invoker]
<1>2. register \in Signal
  BY DEF LinkingStarted, Signal, RegisterEmail, Invoker
<1>3. external[e.account].email = e.email
  BY <1>1 DEF Justified, To, LinkingStarted
<1>4. Asked(invoker, e.email)
  BY <1>3 DEF Asked, LinkingStarted
<1>5. Justified(To("PersonEmail", register))
  <2>1. /\ To("PersonEmail", register).signal = register
        /\ register.type = "RegisterPersonEmail"
        /\ register.email = e.email /\ register.invoker = invoker
    BY DEF To
  <2> HIDE DEF register, invoker
  <2>. QED BY <1>4, <2>1 DEF Justified, OfPersonType
<1>6. Give("ExternalIdentity", <<To("PersonEmail", register)>>)
      /\ UNCHANGED entities
  BY <1>1 DEF OnExternalIdentityLinkingStarted
<1> HIDE DEF register
<1>. QED BY <1>0, <1>2, <1>5, <1>6, LetterPassed

LEMMA AddAccountToPersonKeeps ==
  ASSUME IInv, AddAccountToPerson
  PROVE  IInv' /\ Advancing
<1>0. /\ Receives("ExternalIdentity",
                  {"PersonRegistered", "PersonEmailAlreadyRegistered"})
      /\ ShardFor("ExternalIdentity") = 0 /\ "Person" \in Entity
  BY Shards DEF AddAccountToPerson, Entity
<1>1. PICK e \in OfPerson :
        /\ e = Received("ExternalIdentity")
        /\ e.type \in {"PersonRegistered", "PersonEmailAlreadyRegistered"}
        /\ Justified(To("ExternalIdentity", e))
  BY <1>0, Took, SignalTypes DEF OfPersonType
<1> DEFINE add == [type |-> "AddSignInAccount", person |-> e.person,
                   account |-> e.invoker.id]
<1>2. /\ Asked(e.invoker, e.email) /\ owner[e.email] = e.person
      /\ e.invoker.by = "ExternalIdentity"
  BY <1>1 DEF Justified, To, OfPersonType
<1>3. /\ e.invoker \in [by : {"ExternalIdentity"}, id : Account]
      /\ e.person \in Person /\ e.email \in Address
  BY <1>2 DEF OfPerson, Invoker
<1>4. e.invoker.id \in Account /\ add \in Signal
  BY <1>3 DEF Signal, OfAccount
<1>5. OwnerOf(e.invoker.id, e.person)
  BY <1>2, <1>3 DEF Asked, OwnerOf
<1>6. Justified(To("Person", add))
  <2>1. /\ To("Person", add).signal = add
        /\ add.type = "AddSignInAccount"
        /\ add.account = e.invoker.id /\ add.person = e.person
    BY DEF To
  <2> HIDE DEF add
  <2>. QED BY <1>5, <2>1 DEF Justified, OfPersonType
<1>7. Give("ExternalIdentity", <<To("Person", add)>>) /\ UNCHANGED entities
  BY <1>1 DEF AddAccountToPerson
<1> HIDE DEF add
<1>. QED BY <1>0, <1>4, <1>6, <1>7, LetterPassed

LEMMA PersonEmailRegisteredKeeps ==
  ASSUME IInv, OnPersonEmailRegistered
  PROVE  IInv' /\ Advancing
<1>1. PICK entity \in {"ExternalIdentity", "Membership"} :
        /\ Receives(entity, {"PersonEmailRegistered"})
        /\ Give(entity, <<To("Person",
             [type |-> "RegisterPerson", person |-> Received(entity).person,
              email |-> Received(entity).email,
              invoker |-> Received(entity).invoker])>>)
        /\ UNCHANGED entities
  BY DEF OnPersonEmailRegistered
<1>2. ShardFor(entity) = 0 /\ "Person" \in Entity
  BY Shards DEF Entity
<1>3. PICK e \in OfPerson : /\ e = Received(entity)
                            /\ e.type = "PersonEmailRegistered"
                            /\ Justified(To(entity, e))
  BY <1>1, Took, SignalTypes DEF OfPersonType
<1> DEFINE register == [type |-> "RegisterPerson", person |-> e.person,
                        email |-> e.email, invoker |-> e.invoker]
<1>4. register \in Signal
  BY DEF Signal, OfPerson, OfPersonType
<1>5. Asked(e.invoker, e.email) /\ owner[e.email] = e.person
  BY <1>3 DEF Justified, To, OfPersonType
<1>6. Justified(To("Person", register))
  <2>1. /\ To("Person", register).signal = register
        /\ To("Person", register).to = "Person"
        /\ register.type = "RegisterPerson"
        /\ register.invoker = e.invoker /\ register.email = e.email
        /\ register.person = e.person
    BY DEF To
  <2> HIDE DEF register
  <2>. QED BY <1>5, <2>1 DEF Justified, OfPersonType
<1>7. Give(entity, <<To("Person", register)>>)
  BY <1>1, <1>3
<1> HIDE DEF register
<1>. QED BY <1>1, <1>2, <1>4, <1>6, <1>7, LetterPassed

LEMMA MemberAddingStartedKeeps ==
  ASSUME IInv, OnMemberAddingStarted
  PROVE  IInv' /\ Advancing
<1>0. /\ Receives("Membership", {"MemberAddingStarted"})
      /\ ShardFor("Membership") = 0 /\ "PersonEmail" \in Entity
  BY Shards DEF OnMemberAddingStarted, Entity
<1>1. PICK e \in AddingStarted : /\ e = Received("Membership")
                                 /\ Justified(To("Membership", e))
  BY <1>0, Took, SignalTypes
<1> DEFINE invoker == [by |-> "Membership", id |-> e.membership]
           register == [type |-> "RegisterPersonEmail",
                        email |-> e.membership, invoker |-> invoker]
<1>2. register \in Signal
  BY DEF AddingStarted, Signal, RegisterEmail, Invoker
<1>3. membership[e.membership].organization # NoOrganization
  BY <1>1 DEF Justified, To, AddingStarted
<1>4. Asked(invoker, e.membership)
  BY <1>3 DEF Asked
<1>5. Justified(To("PersonEmail", register))
  <2>1. /\ To("PersonEmail", register).signal = register
        /\ register.type = "RegisterPersonEmail"
        /\ register.email = e.membership /\ register.invoker = invoker
    BY DEF To
  <2> HIDE DEF register, invoker
  <2>. QED BY <1>4, <2>1 DEF Justified, OfPersonType
<1>6. Give("Membership", <<To("PersonEmail", register)>>)
      /\ UNCHANGED entities
  BY <1>1 DEF OnMemberAddingStarted
<1> HIDE DEF register
<1>. QED BY <1>0, <1>2, <1>5, <1>6, LetterPassed

LEMMA OrganizationJoinedKeeps ==
  ASSUME IInv, OnOrganizationJoined
  PROVE  IInv' /\ Advancing
<1>0. /\ Receives("Membership", {"OrganizationJoined"})
      /\ ShardFor("Membership") = 0 /\ "MembershipView" \in Entity
  BY Shards DEF OnOrganizationJoined, Entity
<1>1. PICK e \in Joining : /\ e = Received("Membership")
                           /\ e.type = "OrganizationJoined"
                           /\ Justified(To("Membership", e))
  BY <1>0, Took, SignalTypes
<1>2. PICK role : role = membership[e.membership].role
  OBVIOUS
<1> DEFINE added == [type |-> "MemberAdded", membership |-> e.membership,
                     person |-> e.person, organization |-> e.organization,
                     role |-> role]
<1>3. Joins(e) /\ person[e.person].organization = e.organization
  BY <1>1 DEF Justified, To
<1>4. /\ e.membership \in Address /\ e.person \in Person
      /\ e.organization \in Organization
  BY DEF Joining
<1>5. role \in Role
  BY <1>2, <1>3, <1>4, Nothing
     DEF Joins, IInv, Agreeing, MembershipsAgree
<1>6. added \in Signal
  BY <1>4, <1>5 DEF Signal, Added
<1>7. Justified(To("MembershipView", added))
  <2>1. /\ To("MembershipView", added).signal = added
        /\ added.type = "MemberAdded"
        /\ added.membership = e.membership /\ added.person = e.person
        /\ added.organization = e.organization
    BY DEF To
  <2> HIDE DEF added
  <2>. QED BY <1>3, <2>1 DEF Justified, Joins, OfPersonType
<1>8. Give("Membership", <<To("MembershipView", added)>>)
      /\ UNCHANGED entities
  BY <1>1, <1>2 DEF OnOrganizationJoined
<1> HIDE DEF added
<1>. QED BY <1>0, <1>6, <1>7, <1>8, LetterPassed

LEMMA SignInAccountAddedKeeps ==
  ASSUME IInv, OnSignInAccountAdded
  PROVE  IInv' /\ Advancing
<1>0. /\ Receives("ExternalIdentity", {"SignInAccountAdded"})
      /\ ShardFor("ExternalIdentity") = 0
      /\ "ExternalIdentityView" \in Entity /\ TypeOK /\ Agreeing
  BY Shards DEF OnSignInAccountAdded, Entity, IInv
<1>1. PICK e \in AccountAdded : /\ e = Received("ExternalIdentity")
                                /\ Justified(To("ExternalIdentity", e))
  BY <1>0, Took, SignalTypes
<1> DEFINE linked == [type |-> "ExternalIdentityLinked",
                      account |-> e.account, person |-> e.person]
<1>2. e.account \in Account /\ e.person \in Person /\ linked \in Signal
  BY DEF AccountAdded, Signal, OfAccount
<1>3. OwnerOf(e.account, e.person)
  BY <1>1 DEF Justified, To, AccountAdded
<1>4. /\ external' = [external EXCEPT ![e.account].person = e.person]
      /\ Give("ExternalIdentity", <<To("ExternalIdentityView", linked)>>)
      /\ UNCHANGED <<externalView, people, memberships, organizations>>
  BY <1>1 DEF OnSignInAccountAdded
<1>5. external \in [Account -> [email : Address \cup {NoAddress},
                                person : Person \cup {NoPerson}]]
  BY <1>0 DEF TypeOK
<1>6. /\ external'[e.account].person = e.person
      /\ \A a \in Account : external'[a].email = external[a].email
      /\ \A a \in Account : a # e.account => external'[a] = external[a]
  BY <1>2, <1>4, <1>5
<1>7. external' \in [Account -> [email : Address \cup {NoAddress},
                                 person : Person \cup {NoPerson}]]
  BY <1>2, <1>4, <1>5
<1>8. joining' = "no" => TypeOK'
  BY <1>0, <1>4, <1>7 DEF TypeOK, people, memberships, organizations
<1>9. external[e.account].person # NoPerson =>
        external[e.account].person = e.person
  BY <1>0, <1>2, <1>3 DEF Agreeing, AccountsAgree, OwnerOf
<1>10. Advancing
  BY <1>4, <1>6, <1>9 DEF Advancing, people, memberships, organizations
<1>11. AccountsAgree'
  <2>1. UNCHANGED <<externalView, owner>>
    BY <1>4 DEF people
  <2>2. ASSUME NEW a \in Account
        PROVE  /\ external'[a].person # NoPerson =>
                    OwnerOf(a, external[a].person)'
               /\ externalView'[a] # NoPerson =>
                    externalView'[a] = external'[a].person
    <3>1. CASE a = e.account
      BY <1>0, <1>2, <1>3, <1>6, <1>9, <2>1, <3>1
         DEF Agreeing, AccountsAgree, OwnerOf
    <3>2. CASE a # e.account
      BY <1>0, <1>6, <2>1, <3>2 DEF Agreeing, AccountsAgree, OwnerOf
    <3>. QED BY <3>1, <3>2
  <2>. QED BY <2>2 DEF AccountsAgree
<1>12. Agreeing'
  <2>1. \A p \in Person : person'[p].organization = person[p].organization
    BY <1>4 DEF people
  <2>. QED BY <1>0, <1>4, <1>10, <1>11, <2>1, PeopleStay, MembershipsStay,
              JoinersStay, OrganizationsStay DEF Agreeing
<1>13. Justified(To("ExternalIdentityView", linked))'
  <2>1. /\ To("ExternalIdentityView", linked).signal = linked
        /\ linked.type = "ExternalIdentityLinked"
        /\ linked.account = e.account /\ linked.person = e.person
    BY DEF To
  <2> HIDE DEF linked
  <2>. QED BY <1>6, <2>1 DEF Justified, OfPersonType
<1>14. UNCHANGED <<person, personView>>
  BY <1>4 DEF people
<1> HIDE DEF linked
<1>. QED BY <1>0, <1>2, <1>4, <1>8, <1>10, <1>12, <1>13, <1>14, LetterSent

LEMMA ShowLinkedKeeps ==
  ASSUME IInv, ShowLinked
  PROVE  IInv' /\ Advancing
<1>0. /\ Receives("ExternalIdentityView", {"ExternalIdentityLinked"})
      /\ ShardFor("ExternalIdentityView") = 0 /\ TypeOK /\ Agreeing
      /\ Give("ExternalIdentityView", <<>>)
      /\ UNCHANGED <<external, people, memberships, organizations>>
  BY Shards DEF ShowLinked, IInv
<1>1. PICK e \in OfAccount : /\ e = Received("ExternalIdentityView")
                             /\ e.type = "ExternalIdentityLinked"
                             /\ Justified(To("ExternalIdentityView", e))
  BY <1>0, Took, SignalTypes
<1>2. e.account \in Account /\ e.person \in Person
  BY DEF OfAccount
<1>3. external[e.account].person = e.person
  BY <1>1 DEF Justified, To
<1>4. externalView' = [externalView EXCEPT ![e.account] = e.person]
  BY <1>1 DEF ShowLinked
<1>5. joining' = "no" => TypeOK'
  BY <1>0, <1>2, <1>4 DEF TypeOK, people, memberships, organizations
<1>6. Advancing
  <2>1. \A a \in Account : externalView[a] # NoPerson =>
          externalView'[a] = externalView[a]
    BY <1>0, <1>2, <1>3, <1>4 DEF TypeOK, Agreeing, AccountsAgree
  <2>. QED BY <1>0, <2>1 DEF Advancing, people, memberships, organizations
<1>7. AccountsAgree'
  <2>1. UNCHANGED <<external, owner>>
    BY <1>0 DEF people
  <2>2. ASSUME NEW a \in Account
        PROVE  externalView'[a] # NoPerson =>
                 externalView'[a] = external[a].person
    BY <1>0, <1>2, <1>3, <1>4 DEF TypeOK, Agreeing, AccountsAgree
  <2>. QED BY <1>0, <2>1, <2>2 DEF Agreeing, AccountsAgree, OwnerOf
<1>8. Agreeing'
  <2>1. \A p \in Person : person'[p].organization = person[p].organization
    BY <1>0 DEF people
  <2>. QED BY <1>0, <1>6, <1>7, <2>1, PeopleStay, MembershipsStay,
              JoinersStay, OrganizationsStay DEF Agreeing
<1>9. UNCHANGED <<person, personView>>
  BY <1>0 DEF people
<1>. QED BY <1>0, <1>5, <1>6, <1>8, <1>9, NothingSent

LEMMA RegisterPersonEmailKeeps ==
  ASSUME IInv, RegisterPersonEmail
  PROVE  IInv' /\ Advancing
<1>0. /\ Receives("PersonEmail", {"RegisterPersonEmail"})
      /\ ShardFor("PersonEmail") = 0 /\ TypeOK /\ Agreeing
      /\ UNCHANGED <<accounts, person, personView, memberships,
                     organizations>>
  BY Shards DEF RegisterPersonEmail, IInv
<1>1. PICK c \in RegisterEmail : /\ c = Received("PersonEmail")
                                 /\ Justified(To("PersonEmail", c))
  BY <1>0, Took, SignalTypes
<1>2. /\ c.email \in Address /\ c.invoker \in Invoker
      /\ c.invoker.by \in {"ExternalIdentity", "Membership"}
      /\ c.invoker.by \in Entity /\ c.invoker.by # "PersonView"
  BY DEF RegisterEmail, Invoker, Entity
<1>3. Asked(c.invoker, c.email)
  BY <1>1 DEF Justified, To, RegisterEmail
<1> DEFINE answer(type, p) == [type |-> type, email |-> c.email,
                               person |-> p, invoker |-> c.invoker]
<1>4. PICK type, p :
        /\ type \in {"PersonEmailAlreadyRegistered", "PersonEmailRegistered"}
        /\ Give("PersonEmail", <<To(c.invoker.by, answer(type, p))>>)
        /\ \/ Owned(c.email) /\ p = owner[c.email] /\ UNCHANGED owner
           \/ /\ ~Owned(c.email) /\ p = NewPerson
              /\ owner' = [owner EXCEPT ![c.email] = p]
  BY <1>1 DEF RegisterPersonEmail
<1>5. /\ p \in Person /\ owner'[c.email] = p
      /\ owner' \in [Address -> Person \cup {NoPerson}]
      /\ \A e \in Address : owner[e] # NoPerson => owner'[e] = owner[e]
      /\ \A e, f \in Address :
           owner'[e] = owner'[f] /\ owner'[e] # NoPerson => e = f
  <2>1. /\ owner \in [Address -> Person \cup {NoPerson}]
        /\ \A e, f \in Address :
             owner[e] = owner[f] /\ owner[e] # NoPerson => e = f
    BY <1>0 DEF TypeOK, Agreeing, PeopleAgree
  <2>2. CASE Owned(c.email) /\ p = owner[c.email] /\ UNCHANGED owner
    BY <1>2, <2>1, <2>2 DEF Owned
  <2>3. CASE /\ ~Owned(c.email) /\ p = NewPerson
             /\ owner' = [owner EXCEPT ![c.email] = p]
    <3>1. owner[c.email] = NoPerson
      BY <2>3 DEF Owned
    <3>2. \E q \in Person : q \notin Range(owner)
      BY <1>2, <2>1, <3>1, NewIdentifiers
    <3>3. NewPerson \in Person /\ NewPerson \notin Range(owner)
      BY <3>2 DEF NewPerson
    <3>4. \A e \in Address : owner[e] # p
      BY <2>1, <2>3, <3>3 DEF Range
    <3>5. /\ owner' \in [Address -> Person \cup {NoPerson}]
          /\ owner'[c.email] = p /\ p \in Person
          /\ \A e \in Address : e # c.email => owner'[e] = owner[e]
      BY <1>2, <2>1, <2>3, <3>3
    <3>. QED BY <1>2, <2>1, <3>1, <3>4, <3>5
  <2>. QED BY <1>4, <2>2, <2>3
<1>6. joining' = "no" => TypeOK'
  BY <1>0, <1>5 DEF TypeOK, accounts, memberships, organizations
<1>7. Advancing
  BY <1>0, <1>5 DEF Advancing, accounts, memberships, organizations
<1>8. Agreeing'
  <2>1. UNCHANGED <<externalView, external, person, personView>>
    BY <1>0 DEF accounts
  <2>2. PeopleAgree'
    <3>1. ASSUME NEW q \in Person
          PROVE  person[q].email # NoAddress => owner'[person[q].email] = q
      BY <1>0, <1>5, Nothing DEF TypeOK, PersonState, Agreeing, PeopleAgree
    <3>. QED BY <1>0, <1>5, <2>1, <3>1 DEF Agreeing, PeopleAgree
  <2>. QED BY <1>0, <1>7, <2>1, <2>2, AccountsStay, MembershipsStay,
              JoinersStay, OrganizationsStay DEF Agreeing
<1> DEFINE s == answer(type, p)
<1>9. s \in Signal
  BY <1>2, <1>4, <1>5 DEF Signal, OfPerson, OfPersonType
<1>10. Asked(c.invoker, c.email)'
  BY <1>0, <1>3 DEF Asked, accounts, memberships
<1>11. Justified(To(c.invoker.by, s))'
  <2>1. /\ To(c.invoker.by, s).signal = s
        /\ To(c.invoker.by, s).to = c.invoker.by
        /\ s.type = type /\ s.email = c.email /\ s.person = p
        /\ s.invoker = c.invoker
    BY DEF To
  <2> HIDE DEF s
  <2>. QED BY <1>4, <1>5, <1>10, <2>1 DEF Justified, OfPersonType
<1>12. Give("PersonEmail", <<To(c.invoker.by, s)>>)
  BY <1>4
<1> HIDE DEF s
<1>. QED BY <1>0, <1>2, <1>6, <1>7, <1>8, <1>9, <1>11, <1>12, LetterSent

(* Handlers that only change a person, but for their organization.         *)
LEMMA PeopleAdvance ==
  ASSUME IInv, UNCHANGED <<accounts, owner, memberships, organizations>>,
         person' \in [Person -> PersonState],
         personView' \in [Person -> PersonState],
         \A p \in Person :
           /\ person[p].email # NoAddress => person'[p].email = person[p].email
           /\ person[p].name # NoAccount => person'[p].name = person[p].name
           /\ person'[p].organization = person[p].organization,
         PeopleAgree'
  PROVE  /\ joining' = "no" => TypeOK'
         /\ Advancing /\ Agreeing'
<1>1. Advancing
  BY DEF Advancing, accounts, memberships, organizations
<1>2. joining' = "no" => TypeOK'
  BY DEF IInv, TypeOK, accounts, memberships, organizations
<1>3. TypeOK /\ Agreeing /\ UNCHANGED <<external, externalView>>
  BY DEF IInv, accounts
<1>4. Agreeing'
  BY <1>1, <1>3, AccountsStay, MembershipsStay, JoinersStay,
     OrganizationsStay DEF Agreeing
<1>. QED BY <1>1, <1>2, <1>4

LEMMA RegisterPersonKeeps ==
  ASSUME IInv, RegisterPerson
  PROVE  IInv' /\ Advancing
<1>0. /\ Receives("Person", {"RegisterPerson"})
      /\ ShardFor("Person") = 0 /\ TypeOK
      /\ "PersonView" \in Entity /\ "ExternalIdentity" \in Entity
      /\ "Membership" \in Entity
  BY Shards DEF RegisterPerson, IInv, Entity
<1>1. PICK c \in OfPerson : /\ c = Received("Person")
                            /\ c.type = "RegisterPerson"
                            /\ Justified(To("Person", c))
  BY <1>0, Took, SignalTypes DEF OfPersonType
<1> DEFINE event == [type |-> "PersonRegistered", person |-> c.person,
                     email |-> c.email, invoker |-> c.invoker]
<1>2. /\ c.person \in Person /\ c.email \in Address
      /\ c.invoker \in Invoker /\ event \in Signal
  BY DEF OfPerson, Signal, OfPersonType
<1>3. Asked(c.invoker, c.email) /\ owner[c.email] = c.person
  BY <1>1 DEF Justified, To, OfPersonType
<1>4. CASE Drop("Person")
  BY <1>0, <1>4, Dropped
<1>5. ASSUME person[c.person].email = NoAddress,
             person' = [person EXCEPT ![c.person].email = c.email],
             Give("Person",
               IF c.invoker.by = "ExternalIdentity"
               THEN <<To("ExternalIdentity", event), To("PersonView", event)>>
               ELSE <<To("PersonView", event), To("Membership", event)>>),
             UNCHANGED <<accounts, owner, personView, memberships,
                         organizations>>
      PROVE  IInv' /\ Advancing
  <2>1. person \in [Person -> PersonState]
        /\ personView' \in [Person -> PersonState]
    BY <1>0, <1>5 DEF TypeOK
  <2>2. /\ person' \in [Person -> PersonState]
        /\ person'[c.person].email = c.email
        /\ person'[c.person].account = person[c.person].account
        /\ \A p \in Person :
             /\ person'[p].organization = person[p].organization
             /\ person'[p].name = person[p].name
        /\ \A p \in Person : p # c.person => person'[p] = person[p]
    <3> DEFINE new == [person[c.person] EXCEPT !.email = c.email]
    <3>1. /\ new \in PersonState /\ new.email = c.email
          /\ new.organization = person[c.person].organization
          /\ new.name = person[c.person].name
          /\ new.account = person[c.person].account
      <4>1. person[c.person] \in PersonState /\ c.email \in Address
        BY <1>2, <2>1
      <4>. QED BY <4>1 DEF PersonState
    <3>2. person' = [person EXCEPT ![c.person] = new]
      BY <1>5
    <3> HIDE DEF new
    <3>. QED BY <1>2, <2>1, <3>1, <3>2
  <2>3. (joining' = "no" => TypeOK') /\ Advancing /\ Agreeing'
    <3>1. UNCHANGED <<owner, personView>>
      BY <1>5
    <3>2. PeopleAgree /\ personView[c.person].email = NoAddress
      BY <1>2, <1>5, <2>1 DEF IInv, TypeOK, PersonState, Agreeing, PeopleAgree
    <3>3. PeopleAgree'
      BY <1>2, <1>3, <2>2, <3>1, <3>2 DEF PeopleAgree
    <3>. QED BY <1>5, <2>1, <2>2, <3>3, PeopleAdvance
  <2>4. Asked(c.invoker, c.email)' /\ owner'[c.email] = c.person
    BY <1>3, <1>5 DEF Asked, accounts, memberships
  <2>5. /\ Justified(To("PersonView", event))'
        /\ \A to \in {"ExternalIdentity", "Membership"} :
             to = c.invoker.by => Justified(To(to, event))'
    <3>1. /\ event.type = "PersonRegistered" /\ event.email = c.email
          /\ event.person = c.person /\ event.invoker = c.invoker
      OBVIOUS
    <3>2. \A to : To(to, event).signal = event /\ To(to, event).to = to
      BY DEF To
    <3> HIDE DEF event
    <3>. QED BY <2>2, <2>4, <3>1, <3>2 DEF Justified, OfPersonType
  <2>8. /\ event.person = c.person /\ event.type = "PersonRegistered"
        /\ InboxTyped /\ Introduced
        /\ inbox[0] # <<>> /\ Head(inbox[0]).to = "Person"
    BY <1>0 DEF Receives, IInv
  <2> HIDE DEF event
  <2>9. ASSUME NEW fact \in Fact, Has(person'[c.person], fact), NEW m,
               m.to = "PersonView", m.signal = event
        PROVE  Has(person[c.person], fact) \/ Tells(fact, m, c.person)
    BY <1>2, <2>2, <2>8, <2>9 DEF Fact, Has, Tells
  <2>10. To("PersonView", event).to = "PersonView"
         /\ To("PersonView", event).signal = event
    BY DEF To
  <2>11. /\ personView \in [Person -> PersonState] /\ UNCHANGED personView
         /\ \A fact \in Fact : Has(person'[c.person], fact) =>
              \/ Has(person[c.person], fact)
              \/ Tells(fact, To("PersonView", event), c.person)
    BY <1>5, <2>1, <2>9, <2>10
  <2>6. CASE c.invoker.by = "ExternalIdentity"
    <3>1. Give("Person",
               <<To("ExternalIdentity", event), To("PersonView", event)>>)
      BY <1>5, <2>6
    <3>2. Introduced'
      BY <1>0, <1>2, <2>1, <2>2, <2>8, <2>11, <3>1, PersonTells
    <3>. QED BY <1>0, <1>2, <2>3, <2>5, <2>6, <3>1, <3>2, LettersSent
  <2>7. CASE c.invoker.by # "ExternalIdentity"
    <3>1. Give("Person",
               <<To("PersonView", event), To("Membership", event)>>)
      BY <1>5, <2>7
    <3>2. c.invoker.by = "Membership"
      BY <1>2, <2>7 DEF Invoker
    <3>3. Introduced'
      BY <1>0, <1>2, <2>1, <2>2, <2>8, <2>11, <3>1, PersonTells
    <3>. QED BY <1>0, <1>2, <2>3, <2>5, <3>1, <3>2, <3>3, LettersSent
  <2>. QED BY <2>6, <2>7
<1>. QED BY <1>1, <1>4, <1>5 DEF RegisterPerson

LEMMA AddSignInAccountKeeps ==
  ASSUME IInv, AddSignInAccount
  PROVE  IInv' /\ Advancing
<1>0. /\ Receives("Person", {"AddSignInAccount"})
      /\ ShardFor("Person") = 0 /\ TypeOK
      /\ "PersonView" \in Entity /\ "ExternalIdentity" \in Entity
  BY Shards DEF AddSignInAccount, IInv, Entity
<1>1. PICK c \in OfAccount : /\ c = Received("Person")
                             /\ c.type = "AddSignInAccount"
                             /\ Justified(To("Person", c))
  BY <1>0, Took, SignalTypes
<1>2. PICK name : name = IF person[c.person].name = NoAccount
                         THEN c.account ELSE NoAccount
  OBVIOUS
<1> DEFINE event == [type |-> "SignInAccountAdded", person |-> c.person,
                     account |-> c.account, name |-> name]
<1>3. /\ c.person \in Person /\ c.account \in Account
      /\ name \in Account \cup {NoAccount} /\ event \in Signal
  BY <1>2 DEF OfAccount, Signal, AccountAdded
<1>4. OwnerOf(c.account, c.person)
  BY <1>1 DEF Justified, To
<1>5. CASE Drop("Person")
  BY <1>0, <1>5, Dropped
<1>6. ASSUME person[c.person].email # NoAddress,
             person' = [person EXCEPT ![c.person] =
               [person[c.person] EXCEPT
                  !.account = Append(person[c.person].account, c.account),
                  !.name = IF person[c.person].name = NoAccount
                           THEN c.account ELSE person[c.person].name]],
             Give("Person", <<To("ExternalIdentity", event),
                              To("PersonView", event)>>),
             UNCHANGED <<accounts, owner, personView, memberships,
                         organizations>>
      PROVE  IInv' /\ Advancing
  <2>1. person \in [Person -> PersonState]
        /\ personView' \in [Person -> PersonState]
    BY <1>0, <1>6 DEF TypeOK
  <2>2. Append(person[c.person].account, c.account) \in Seq(Account)
    BY <1>3, <2>1, AppendProperties DEF PersonState
  <2>3. /\ person' \in [Person -> PersonState]
        /\ person'[c.person].account =
             Append(person[c.person].account, c.account)
        /\ person'[c.person].name =
             (IF person[c.person].name = NoAccount
              THEN c.account ELSE person[c.person].name)
        /\ \A p \in Person :
             /\ person'[p].organization = person[p].organization
             /\ person'[p].email = person[p].email
        /\ \A p \in Person : p # c.person => person'[p] = person[p]
    <3> DEFINE new == [person[c.person] EXCEPT
                  !.account = Append(person[c.person].account, c.account),
                  !.name = IF person[c.person].name = NoAccount
                           THEN c.account ELSE person[c.person].name]
    <3>1. /\ new \in PersonState
          /\ new.organization = person[c.person].organization
          /\ new.email = person[c.person].email
          /\ new.account = Append(person[c.person].account, c.account)
          /\ new.name = IF person[c.person].name = NoAccount
                        THEN c.account ELSE person[c.person].name
      <4>1. person[c.person] \in PersonState
        BY <1>3, <2>1
      <4>. QED BY <1>3, <2>2, <4>1 DEF PersonState
    <3>2. person' = [person EXCEPT ![c.person] = new]
      BY <1>6
    <3> HIDE DEF new
    <3>. QED BY <1>3, <2>1, <3>1, <3>2
  <2>4. (joining' = "no" => TypeOK') /\ Advancing /\ Agreeing'
    <3>1. /\ UNCHANGED <<owner, personView>> /\ PeopleAgree
          /\ personView[c.person].name # NoAccount =>
               person[c.person].name # NoAccount
      BY <1>3, <1>6 DEF IInv, Agreeing, PeopleAgree
    <3>2. PeopleAgree'
      BY <2>3, <3>1 DEF PeopleAgree
    <3>. QED BY <1>6, <2>1, <2>3, <3>2, PeopleAdvance
  <2>5. OwnerOf(c.account, c.person)'
    BY <1>4, <1>6 DEF OwnerOf, accounts
  <2>6. /\ Justified(To("PersonView", event))'
        /\ Justified(To("ExternalIdentity", event))'
    <3>1. /\ event.type = "SignInAccountAdded" /\ event.name = name
          /\ event.account = c.account /\ event.person = c.person
      OBVIOUS
    <3>2. \A to : To(to, event).signal = event
      BY DEF To
    <3>3. name # NoAccount => person'[c.person].name = name
      BY <1>2, <2>3
    <3> HIDE DEF event
    <3>. QED BY <2>5, <3>1, <3>2, <3>3 DEF Justified, OfPersonType
  <2>7. /\ event.person = c.person /\ event.type = "SignInAccountAdded"
        /\ event.account = c.account /\ event.name = name
        /\ InboxTyped /\ Introduced
        /\ inbox[0] # <<>> /\ Head(inbox[0]).to = "Person"
    BY <1>0 DEF Receives, IInv
  <2> HIDE DEF event
  <2>8. ASSUME NEW fact \in Fact, Has(person'[c.person], fact), NEW m,
               m.to = "PersonView", m.signal = event
        PROVE  Has(person[c.person], fact) \/ Tells(fact, m, c.person)
    <3>1. name = NoAccount => person[c.person].name # NoAccount
      BY <1>2, <1>3, Nothing
    <3>. QED BY <1>3, <2>3, <2>7, <2>8, <3>1 DEF Fact, Has, Tells, Adds
  <2>9. To("PersonView", event).to = "PersonView"
        /\ To("PersonView", event).signal = event
    BY DEF To
  <2>10. /\ personView \in [Person -> PersonState] /\ UNCHANGED personView
         /\ \A fact \in Fact : Has(person'[c.person], fact) =>
              \/ Has(person[c.person], fact)
              \/ Tells(fact, To("PersonView", event), c.person)
    BY <1>0, <1>6, <2>8, <2>9 DEF TypeOK
  <2>11. /\ Has(person[c.person], "email")
         /\ Has(person[c.person], "name") \/ event.name # NoAccount
    BY <1>2, <1>3, <1>6, <2>7, Nothing DEF Has
  <2>12. /\ \A o \in Person : o # c.person => person'[o] = person[o]
         /\ person'[c.person].account =
              Append(person[c.person].account, event.account)
         /\ event.account \in Account
    BY <1>3, <2>3, <2>7
  <2>13. Introduced'
    BY <1>0, <1>3, <1>6, <2>1, <2>7, <2>10, <2>11, <2>12, PersonTells
  <2>. QED BY <1>0, <1>3, <1>6, <2>4, <2>6, <2>13, LettersSent
<1>. QED BY <1>1, <1>2, <1>5, <1>6 DEF AddSignInAccount

LEMMA JoinOrganizationKeeps ==
  ASSUME IInv, JoinOrganization
  PROVE  IInv' /\ Advancing
<1>0. /\ Receives("Person", {"JoinOrganization"})
      /\ ShardFor("Person") = 0 /\ TypeOK /\ Agreeing
      /\ "PersonView" \in Entity /\ "Membership" \in Entity
  BY Shards DEF JoinOrganization, IInv, Entity
<1>1. PICK c \in Joining : /\ c = Received("Person")
                           /\ c.type = "JoinOrganization"
                           /\ Justified(To("Person", c))
  BY <1>0, Took, SignalTypes
<1> DEFINE event == [type |-> "OrganizationJoined", person |-> c.person,
                     membership |-> c.membership,
                     organization |-> c.organization]
<1>2. /\ c.person \in Person /\ c.organization \in Organization
      /\ c.membership \in Address /\ event \in Signal
  BY DEF Joining, Signal
<1>3. Joins(c)
  BY <1>1 DEF Justified, To
<1>4. CASE Drop("Person")
  BY <1>0, <1>4, Dropped
<1>5. ASSUME person[c.person].organization
               \in {NoOrganization, c.organization},
             person' =
               [person EXCEPT ![c.person].organization = c.organization],
             Give("Person", <<To("PersonView", event),
                              To("Membership", event)>>),
             UNCHANGED <<accounts, owner, personView, memberships,
                         organizations>>
      PROVE  IInv' /\ Advancing
  <2>1. person \in [Person -> PersonState]
    BY <1>0 DEF TypeOK
  <2>2. /\ person' \in [Person -> PersonState]
        /\ person'[c.person].organization = c.organization
        /\ \A p \in Person : p # c.person => person'[p] = person[p]
        /\ person'[c.person].account = person[c.person].account
        /\ \A p \in Person : /\ person'[p].email = person[p].email
                             /\ person'[p].name = person[p].name
    <3> DEFINE new == [person[c.person] EXCEPT
                         !.organization = c.organization]
    <3>1. /\ new \in PersonState /\ new.organization = c.organization
          /\ new.email = person[c.person].email
          /\ new.name = person[c.person].name
          /\ new.account = person[c.person].account
      <4>1. person[c.person] \in PersonState
        BY <1>2, <2>1
      <4>. QED BY <1>2, <4>1 DEF PersonState
    <3>2. person' = [person EXCEPT ![c.person] = new]
      BY <1>5
    <3> HIDE DEF new
    <3>. QED BY <1>2, <2>1, <3>1, <3>2
  <2>3. joining' = "no" => TypeOK'
    BY <1>0, <1>5, <2>2 DEF TypeOK, accounts, memberships, organizations
  <2>4. Advancing
    BY <1>2, <1>5, <2>2 DEF Advancing, accounts, memberships, organizations
  <2>5. AccountsAgree'
    BY <1>0, <1>5, <2>4, AccountsStay DEF Agreeing, accounts
  <2>6. JoinersAreListed'
    <3>1. c.person \in Listed(member[c.organization])
      BY <1>3 DEF Joins
    <3>2. UNCHANGED member
      BY <1>5 DEF organizations
    <3>3. ASSUME NEW p \in Person,
                 person'[p].organization # NoOrganization
          PROVE  p \in Listed(member[person'[p].organization])
      BY <1>0, <2>2, <3>1, <3>3 DEF Agreeing, JoinersAreListed
    <3>4. ASSUME NEW p \in Person,
                 person'[p].organization # NoOrganization
          PROVE  p \in Listed(member'[person'[p].organization])
      BY <3>2, <3>3, <3>4
    <3>. QED BY <3>4 DEF JoinersAreListed
  <2>7. Agreeing'
    <3>1. UNCHANGED <<owner, personView>> /\ PeopleAgree
      BY <1>0, <1>5 DEF Agreeing
    <3>2. PeopleAgree'
      BY <1>2, <1>5, <2>2, <3>1 DEF PeopleAgree
    <3>. QED BY <1>0, <1>5, <2>4, <2>5, <2>6, <3>2, MembershipsStay,
                OrganizationsStay DEF Agreeing
  <2>8. Joins(c)'
    BY <1>3, <1>5 DEF Joins, memberships, organizations
  <2>9. /\ Justified(To("PersonView", event))'
        /\ Justified(To("Membership", event))'
    <3>1. /\ event.type = "OrganizationJoined"
          /\ event.membership = c.membership /\ event.person = c.person
          /\ event.organization = c.organization
      OBVIOUS
    <3>2. \A to : To(to, event).signal = event
      BY DEF To
    <3>3. Joins(event)'
      BY <2>8, <3>1 DEF Joins
    <3> HIDE DEF event
    <3>. QED BY <2>2, <3>1, <3>2, <3>3 DEF Justified, OfPersonType
  <2>10. /\ event.person = c.person /\ event.type = "OrganizationJoined"
         /\ InboxTyped /\ Introduced
         /\ inbox[0] # <<>> /\ Head(inbox[0]).to = "Person"
    BY <1>0 DEF Receives, IInv
  <2> HIDE DEF event
  <2>11. ASSUME NEW fact \in Fact, Has(person'[c.person], fact), NEW m,
                m.to = "PersonView", m.signal = event
         PROVE  Has(person[c.person], fact) \/ Tells(fact, m, c.person)
    BY <1>2, <2>2, <2>10, <2>11 DEF Fact, Has, Tells
  <2>12. To("PersonView", event).to = "PersonView"
         /\ To("PersonView", event).signal = event
    BY DEF To
  <2>13. /\ personView \in [Person -> PersonState] /\ UNCHANGED personView
         /\ \A fact \in Fact : Has(person'[c.person], fact) =>
              \/ Has(person[c.person], fact)
              \/ Tells(fact, To("PersonView", event), c.person)
    BY <1>0, <1>5, <2>11, <2>12 DEF TypeOK
  <2>14. Introduced'
    BY <1>0, <1>2, <1>5, <2>1, <2>2, <2>10, <2>13, PersonTells
  <2>. QED BY <1>0, <1>2, <1>5, <2>3, <2>4, <2>7, <2>9, <2>14, LettersSent
<1>. QED BY <1>1, <1>4, <1>5 DEF JoinOrganization

(* The view of a person takes what it is told. *)
LEMMA ViewKeeps ==
  ASSUME IInv, NEW e \in Signal, Receives("PersonView", {e.type}),
         e = Received("PersonView"), Give("PersonView", <<>>),
         UNCHANGED <<accounts, owner, person, memberships, organizations>>,
         NEW p \in Person, e.person = p, NEW new \in PersonState,
         personView' = [personView EXCEPT ![p] = new],
         new.email \in {personView[p].email, person[p].email},
         new.name \in {personView[p].name, person[p].name},
         new.organization
           \in {personView[p].organization, person[p].organization},
         \A fact \in Fact :
           Has(personView[p], fact) \/ Tells(fact, To("PersonView", e), p)
             => Has(new, fact),
         \/ /\ e.type # "SignInAccountAdded"
            /\ new.account = personView[p].account
         \/ /\ e.type = "SignInAccountAdded" /\ e.account \in Account
            /\ new.account = Append(personView[p].account, e.account)
  PROVE  IInv' /\ Advancing
<1>0. /\ ShardFor("PersonView") = 0
      /\ personView \in [Person -> PersonState]
      /\ person \in [Person -> PersonState]
      /\ InboxTyped /\ Introduced
  BY Shards DEF IInv, TypeOK
<1>1. /\ personView'[p] = new
      /\ \A q \in Person : q # p => personView'[q] = personView[q]
      /\ personView' \in [Person -> PersonState]
  BY <1>0
<1>2. PeopleAgree'
  <2>1. PeopleAgree
    BY DEF IInv, Agreeing
  <2>. QED BY <1>1, <2>1 DEF PeopleAgree
<1>3. (joining' = "no" => TypeOK') /\ Advancing /\ Agreeing'
  BY <1>0, <1>1, <1>2, PeopleAdvance
<1>4. Introduced'
  <2>1. inbox[0] # <<>> /\ Head(inbox[0]) = To("PersonView", e)
    <3>1. inbox[0] # <<>> /\ Head(inbox[0]).to = "PersonView"
          /\ Head(inbox[0]).signal = e
      BY <1>0 DEF Receives, Received
    <3>2. Head(inbox[0]) \in Message
      BY <1>0, <3>1, Shards, ElementsOfSequences DEF InboxTyped, Queues
    <3>. QED BY <3>1, <3>2 DEF To, Message
  <2>. QED BY <1>0, <1>1, <2>1, ViewTakes
<1> DEFINE sent == <<>>
<1>5. /\ sent \in Seq(Message) /\ Elements(sent) = {}
      /\ Give("PersonView", sent)
  BY ElementsOfTuples
<1> HIDE DEF sent
<1>. QED BY <1>0, <1>3, <1>4, <1>5, HandlerKeeps

LEMMA PersonViewKeeps ==
  ASSUME IInv, ShowPerson \/ ShowAccount \/ ShowOrganization
  PROVE  IInv' /\ Advancing
<1>0. /\ personView \in [Person -> PersonState]
      /\ Give("PersonView", <<>>)
      /\ UNCHANGED <<accounts, owner, person, memberships, organizations>>
  BY DEF ShowPerson, ShowAccount, ShowOrganization, IInv, TypeOK
<1>1. \A e : To("PersonView", e).to = "PersonView"
               /\ To("PersonView", e).signal = e
  BY DEF To
<1>2. CASE ShowPerson
  <2>0. Receives("PersonView", {"PersonRegistered"})
    BY <1>2 DEF ShowPerson
  <2>1. PICK e \in OfPerson :
          /\ e = Received("PersonView") /\ e.type = "PersonRegistered"
          /\ Justified(To("PersonView", e)) /\ e \in Signal
    BY <2>0, Took, SignalTypes DEF OfPersonType
  <2>2. /\ e.email \in Address /\ e.person \in Person
        /\ person[e.person].email = e.email
    BY <2>1 DEF OfPerson, Justified, To
  <2> DEFINE view == personView[e.person]
             shown == [view EXCEPT !.email = e.email]
  <2>3. view \in PersonState
    BY <1>0, <2>2
  <2>4. personView' = [personView EXCEPT ![e.person] = shown]
    BY <1>2, <2>1 DEF ShowPerson
  <2> HIDE DEF view
  <2>5. /\ shown \in PersonState /\ shown.email = e.email
        /\ shown.name = view.name /\ shown.organization = view.organization
        /\ shown.account = view.account
    BY <2>2, <2>3 DEF PersonState
  <2> HIDE DEF shown
  <2>6. \A fact \in Fact :
          Has(view, fact) \/ Tells(fact, To("PersonView", e), e.person)
            => Has(shown, fact)
    BY <1>1, <2>1, <2>2, <2>5, Addresses DEF Fact, Has, Tells, Adds
  <2>. QED BY <1>0, <2>0, <2>1, <2>2, <2>4, <2>5, <2>6, ViewKeeps DEF view
<1>3. CASE ShowAccount
  <2>0. Receives("PersonView", {"SignInAccountAdded"})
    BY <1>3 DEF ShowAccount
  <2>1. PICK e \in AccountAdded :
          /\ e = Received("PersonView") /\ e.type = "SignInAccountAdded"
          /\ Justified(To("PersonView", e)) /\ e \in Signal
    BY <2>0, Took, SignalTypes
  <2>2. /\ e.person \in Person /\ e.account \in Account
        /\ e.name \in Account \cup {NoAccount}
        /\ e.name # NoAccount => person[e.person].name = e.name
    BY <2>1 DEF AccountAdded, Justified, To
  <2> DEFINE view == personView[e.person]
             shown == [view EXCEPT
                         !.account = Append(view.account, e.account),
                         !.name = NameShown(view.name, e.name)]
  <2>3. view \in PersonState
    BY <1>0, <2>2
  <2>4. personView' = [personView EXCEPT ![e.person] = shown]
    BY <1>3, <2>1 DEF ShowAccount
  <2> HIDE DEF view
  <2>5. /\ Append(view.account, e.account) \in Seq(Account)
        /\ NameShown(view.name, e.name) \in Account \cup {NoAccount}
    BY <2>2, <2>3, AppendProperties DEF PersonState, NameShown
  <2>6. /\ shown \in PersonState /\ shown.email = view.email
        /\ shown.name = NameShown(view.name, e.name)
        /\ shown.organization = view.organization
        /\ shown.account = Append(view.account, e.account)
    BY <2>3, <2>5 DEF PersonState
  <2> HIDE DEF shown
  <2>7. shown.name \in {view.name, person[e.person].name}
    BY <2>2, <2>6 DEF NameShown
  <2>8. \A fact \in Fact :
          Has(view, fact) \/ Tells(fact, To("PersonView", e), e.person)
            => Has(shown, fact)
    BY <1>1, <2>1, <2>6 DEF Fact, Has, Tells, Adds, NameShown
  <2>. QED BY <1>0, <2>0, <2>1, <2>2, <2>4, <2>6, <2>7, <2>8, ViewKeeps
           DEF view
<1>4. CASE ShowOrganization
  <2>0. Receives("PersonView", {"OrganizationJoined"})
    BY <1>4 DEF ShowOrganization
  <2>1. PICK e \in Joining :
          /\ e = Received("PersonView") /\ e.type = "OrganizationJoined"
          /\ Justified(To("PersonView", e)) /\ e \in Signal
    BY <2>0, Took, SignalTypes
  <2>2. /\ e.organization \in Organization /\ e.person \in Person
        /\ person[e.person].organization = e.organization
    BY <2>1 DEF Joining, Justified, To
  <2> DEFINE view == personView[e.person]
             shown == [view EXCEPT !.organization = e.organization]
  <2>3. view \in PersonState
    BY <1>0, <2>2
  <2>4. personView' = [personView EXCEPT ![e.person] = shown]
    BY <1>4, <2>1 DEF ShowOrganization
  <2> HIDE DEF view
  <2>5. /\ shown \in PersonState /\ shown.email = view.email
        /\ shown.name = view.name /\ shown.organization = e.organization
        /\ shown.account = view.account
    BY <2>2, <2>3 DEF PersonState
  <2> HIDE DEF shown
  <2>6. \A fact \in Fact :
          Has(view, fact) \/ Tells(fact, To("PersonView", e), e.person)
            => Has(shown, fact)
    BY <1>1, <2>1, <2>2, <2>5, Nothing DEF Fact, Has, Tells, Adds
  <2>. QED BY <1>0, <2>0, <2>1, <2>2, <2>4, <2>5, <2>6, ViewKeeps DEF view
<1>. QED BY <1>2, <1>3, <1>4

LEMMA AddMemberKeeps ==
  ASSUME IInv, AddMember
  PROVE  IInv' /\ Advancing
<1>0. /\ Receives("Membership", {"AddMember"})
      /\ ShardFor("Membership") = 0 /\ TypeOK /\ Agreeing
      /\ "Membership" \in Entity
  BY Shards DEF AddMember, IInv, Entity
<1>1. PICK c \in AddCommand : c = Received("Membership")
  BY <1>0, Took, SignalTypes
<1> DEFINE address == Normalized[c.email]
           new == [organization |-> c.organization, role |-> c.role]
           started == [type |-> "MemberAddingStarted",
                       membership |-> address]
<1>2. /\ address \in Address /\ started \in Signal
      /\ c.organization \in Organization /\ c.role \in Role
  BY Addresses DEF AddCommand, Signal, AddingStarted
<1>3. CASE Drop("Membership")
  BY <1>0, <1>3, Dropped
<1>4. ASSUME ~BelongsElsewhere(address, c.organization),
             membership' = [membership EXCEPT ![address] = new],
             Give("Membership", <<To("Membership", started)>>),
             UNCHANGED <<accounts, people, membershipView, organizations>>
      PROVE  IInv' /\ Advancing
  <2> HIDE DEF address
  <2>1. membership \in [Address ->
          [organization : Organization \cup {NoOrganization},
           role : Role \cup {NoRole}]]
    BY <1>0 DEF TypeOK
  <2>2. /\ membership'[address].organization = c.organization
        /\ membership'[address].role = c.role
        /\ \A e \in Address : e # address => membership'[e] = membership[e]
    BY <1>2, <1>4, <2>1
  <2>3. membership' \in [Address ->
          [organization : Organization \cup {NoOrganization},
           role : Role \cup {NoRole}]]
    <3>1. new \in [organization : Organization \cup {NoOrganization},
                   role : Role \cup {NoRole}]
      BY <1>2
    <3> HIDE DEF new
    <3>. QED BY <1>4, <2>1, <3>1
  <2>4. joining' = "no" => TypeOK'
    BY <1>0, <1>4, <2>3 DEF TypeOK, accounts, people, organizations
  <2>5. \A e \in Address : membership[e].organization # NoOrganization =>
          membership'[e].organization = membership[e].organization
    BY <1>4, <2>2 DEF BelongsElsewhere
  <2>6. Advancing
    BY <1>4, <2>5 DEF Advancing, accounts, people, organizations
  <2>7. MembershipsAgree'
    <3>1. UNCHANGED <<membershipView, owner, person>>
      BY <1>4 DEF people
    <3>2. \A e \in Address : membership'[e].organization # NoOrganization =>
            membership'[e].role \in Role
      BY <1>0, <1>2, <2>2 DEF Agreeing, MembershipsAgree
    <3>. QED BY <1>0, <3>1, <3>2 DEF Agreeing, MembershipsAgree
  <2>8. Agreeing'
    <3>1. /\ \A p \in Person : person'[p].organization = person[p].organization
          /\ \A a \in Account : external'[a].person = external[a].person
          /\ UNCHANGED externalView
      BY <1>4 DEF people, accounts
    <3>. QED BY <1>0, <1>4, <2>6, <2>7, <3>1, AccountsStay, PeopleStay,
                JoinersStay, OrganizationsStay DEF Agreeing
  <2>9. Justified(To("Membership", started))'
    <3>1. To("Membership", started).signal = started
      BY DEF To
    <3>2. /\ started.type = "MemberAddingStarted"
          /\ started.membership = address
      OBVIOUS
    <3>3. membership'[address].organization # NoOrganization
      BY <1>2, <2>2, Nothing
    <3> HIDE DEF started
    <3>. QED BY <3>1, <3>2, <3>3 DEF Justified, OfPersonType
  <2>10. UNCHANGED <<person, personView>>
    BY <1>4 DEF people
  <2> HIDE DEF started
  <2>. QED BY <1>0, <1>2, <1>4, <2>4, <2>6, <2>8, <2>9, <2>10, LetterSent
<1>. QED BY <1>1, <1>3, <1>4 DEF AddMember

LEMMA ShowMembershipKeeps ==
  ASSUME IInv, ShowMembership
  PROVE  IInv' /\ Advancing
<1>0. /\ Receives("MembershipView", {"MemberAdded"})
      /\ ShardFor("MembershipView") = 0 /\ TypeOK /\ Agreeing
      /\ Give("MembershipView", <<>>)
      /\ UNCHANGED <<accounts, people, membership, organizations>>
  BY Shards DEF ShowMembership, IInv
<1>1. PICK e \in Added : /\ e = Received("MembershipView")
                         /\ Justified(To("MembershipView", e))
  BY <1>0, Took, SignalTypes
<1> DEFINE new == [organization |-> e.organization, role |-> e.role,
                   person |-> e.person]
<1>2. /\ e.membership \in Address /\ e.person \in Person
      /\ e.organization \in Organization /\ e.role \in Role
  BY DEF Added
<1>3. Joins(e) /\ person[e.person].organization = e.organization
  BY <1>1 DEF Justified, To, Added
<1>4. membershipView' = [membershipView EXCEPT ![e.membership] = new]
  BY <1>1 DEF ShowMembership
<1>5. /\ new.organization = e.organization /\ new.person = e.person
      /\ new \in [organization : Organization \cup {NoOrganization},
                  role : Role \cup {NoRole}, person : Person \cup {NoPerson}]
  BY <1>2
<1> HIDE DEF new
<1>6. joining' = "no" => TypeOK'
  BY <1>0, <1>2, <1>4, <1>5 DEF TypeOK, accounts, people, organizations
<1>7. Advancing
  BY <1>0 DEF Advancing, accounts, people, organizations
<1>8. MembershipsAgree'
  <2>1. UNCHANGED <<membership, owner, person>>
    BY <1>0 DEF people
  <2>2. /\ membershipView'[e.membership] = new
        /\ \A a \in Address : a # e.membership =>
             membershipView'[a] = membershipView[a]
    BY <1>0, <1>2, <1>4 DEF TypeOK
  <2>3. ASSUME NEW a \in Address
        PROVE  /\ membershipView'[a].person # NoPerson =>
                    membershipView'[a].person = owner[a]
               /\ membershipView'[a].organization # NoOrganization =>
                    /\ membershipView'[a].person \in Person
                    /\ membershipView'[a].organization =
                         person[membershipView'[a].person].organization
               /\ membership[a].organization # NoOrganization =>
                    membership[a].role \in Role
    BY <1>0, <1>2, <1>3, <1>5, <2>2 DEF Joins, Agreeing, MembershipsAgree
  <2>. QED BY <2>1, <2>3 DEF MembershipsAgree
<1>9. Agreeing'
  <2>1. /\ \A p \in Person : person'[p].organization = person[p].organization
        /\ \A a \in Account : external'[a].person = external[a].person
        /\ UNCHANGED externalView
    BY <1>0 DEF people, accounts
  <2>. QED BY <1>0, <1>7, <1>8, <2>1, AccountsStay, PeopleStay,
              JoinersStay, OrganizationsStay DEF Agreeing
<1>10. UNCHANGED <<person, personView>>
  BY <1>0 DEF people
<1>. QED BY <1>0, <1>6, <1>7, <1>9, <1>10, NothingSent

----------------------------------------------------------------------------
(* Joining. *)

(* What the membership that waits, or is about to, was given.              *)
LEMMA JoinerFacts ==
  ASSUME IInv, inbox[0] # <<>>, Head(inbox[0]).to = "Membership",
         Head(inbox[0]).signal.type \in Found
  PROVE  /\ Joiner \in Person /\ JoinerMembership \in Address
         /\ JoinedOrganization \in Organization
         /\ membership[JoinerMembership].role \in Role
         /\ owner[JoinerMembership] = Joiner
<1>0. 0 \in Shard /\ ShardFor("Membership") = 0
  BY Shards
<1>1. PICK e \in Signal : /\ e = Received("Membership")
                          /\ e.type \in Found
                          /\ Head(inbox[0]) \in InFlight
                          /\ Head(inbox[0]).signal = e
  <2>1. inbox[0] \in Seq(Message)
    BY <1>0 DEF IInv, InboxTyped, Queues
  <2>2. Head(inbox[0]) \in Message /\ Head(inbox[0]) \in InFlight
    BY <2>1, ElementsOfSequences DEF InFlight
  <2>3. Received("Membership") = Head(inbox[0]).signal
    BY <1>0 DEF Received
  <2>. QED BY <2>2, <2>3 DEF Message
<1>2. e \in OfPerson
  BY <1>1, SignalTypes DEF Found, OfPersonType
<1>3. /\ Asked(e.invoker, e.email) /\ owner[e.email] = e.person
      /\ e.invoker.by = "Membership"
  BY <1>1 DEF IInv, Justified, Found, OfPersonType
<1>4. /\ e.invoker \in [by : {"Membership"}, id : Address]
      /\ e.person \in Person /\ e.email \in Address
  BY <1>2, <1>3 DEF OfPerson, Invoker
<1>5. /\ e.invoker.id = e.email
      /\ membership[e.email].organization # NoOrganization
  BY <1>3, <1>4 DEF Asked
<1>6. Joiner = e.person /\ JoinerMembership = e.email
  BY <1>1, <1>5 DEF Joiner, JoinerMembership
<1>7. /\ membership[e.email].organization \in Organization
      /\ membership[e.email].role \in Role
  BY <1>4, <1>5 DEF IInv, TypeOK, Agreeing, MembershipsAgree
<1>. QED BY <1>3, <1>4, <1>5, <1>6, <1>7 DEF JoinedOrganization

LEMMA JoinKeeps ==
  ASSUME IInv, inbox[0] # <<>>, Head(inbox[0]).to = "Membership",
         Head(inbox[0]).signal.type \in Found, AwaitedAt = {},
         Joiner \in Listed(member[JoinedOrganization]), Join
  PROVE  IInv' /\ Advancing
<1>0. ShardFor("Membership") = 0
  BY Shards
<1>1. PICK p \in Person, e \in Address, o \in Organization :
        /\ p = Joiner /\ e = JoinerMembership /\ o = JoinedOrganization
        /\ owner[e] = p
  BY JoinerFacts
<1> DEFINE join == [type |-> "JoinOrganization", person |-> p,
                    membership |-> e, organization |-> o]
           sent == <<To("Person", join)>>
<1>2. To("Person", join) \in Message
  BY DEF To, Message, Entity, Signal, Joining
<1>3. membership[e].organization = o /\ p \in Listed(member[o])
  BY <1>1 DEF JoinedOrganization
<1>4. Justified(To("Person", join))
  <2>1. /\ To("Person", join).signal = join
        /\ join.type = "JoinOrganization" /\ join.person = p
        /\ join.membership = e /\ join.organization = o
    BY DEF To
  <2> HIDE DEF join
  <2>. QED BY <1>1, <1>3, <2>1 DEF Justified, Joins, OfPersonType
<1>5. GiveAnd("Membership", sent, "no") /\ UNCHANGED entities
  BY <1>1 DEF Join, JoinCommand
<1>6. /\ sent \in Seq(Message) /\ \A m \in Elements(sent) : Justified(m)
      /\ \A m \in Elements(sent) : m.to # "PersonView"
  BY <1>2, <1>4, ElementsOfTuples DEF To
<1> HIDE DEF sent
<1>8. Introduced'
  <2>1. UNCHANGED <<person, personView>>
    BY <1>5 DEF entities, people
  <2>. QED BY <1>0, <1>5, <1>6, <2>1, Silent DEF IInv
<1>7. /\ Advancing /\ Agreeing' /\ \A m \in Elements(sent) : Justified(m)'
      /\ TypeOK'
  <2>1. joining' = "no"
    BY <1>5 DEF GiveAnd
  <2>. QED BY <1>5, <1>6, <2>1, Unmoved DEF IInv
<1>. QED BY <1>0, <1>5, <1>6, <1>7, <1>8, Done

(* Whom the organization shows, it lists.                                  *)
LEMMA ShownAreListed ==
  ASSUME IInv, JoinedOrganization \in Organization, AlreadyMember
  PROVE  Joiner \in Listed(member[JoinedOrganization])
BY DEF AlreadyMember, Listed, IInv, Agreeing, OrganizationsAgree

LEMMA StartJoiningKeeps ==
  ASSUME IInv, StartJoining
  PROVE  IInv' /\ Advancing
<1>1. /\ inbox[0] # <<>> /\ Head(inbox[0]).to = "Membership"
      /\ Head(inbox[0]).signal.type \in Found /\ joining = "no"
  BY Shards DEF StartJoining, Receives
<1>2. AwaitedAt = {} /\ JoinedOrganization \in Organization
  BY <1>1, JoinerFacts DEF IInv, Waiting
<1>3. CASE AlreadyMember /\ Join
  BY <1>1, <1>2, <1>3, JoinKeeps, ShownAreListed
<1>4. CASE /\ joining' = "asking"
           /\ UNCHANGED <<entities, inbox, crashes, failures>>
  <2>1. UNCHANGED entities /\ inbox' = inbox /\ joining' = "asking"
        /\ UNCHANGED <<crashes, failures>>
    BY <1>4
  <2>2. TypeOK' /\ Agreeing' /\ Advancing
    BY <2>1, Unmoved DEF IInv
  <2>3. InboxTyped' /\ InFlight' = InFlight
    BY <2>1 DEF IInv, InboxTyped, InFlight
  <2>4. \A m \in InFlight' : Justified(m)'
    BY <2>1, <2>3, Unmoved DEF IInv
  <2>5. AwaitedAt' = {}
    BY <1>2, <2>1 DEF AwaitedAt
  <2>6. Waiting'
    BY <1>1, <2>1, <2>5 DEF Waiting
  <2>7. Introduced'
    BY <2>1, NothingMoves DEF IInv, entities, people
  <2>. QED BY <2>2, <2>3, <2>4, <2>6, <2>7 DEF IInv
<1>. QED BY <1>3, <1>4 DEF StartJoining

LEMMA ConfirmedKeeps ==
  ASSUME IInv, Confirmed
  PROVE  IInv' /\ Advancing
<1>1. /\ inbox[0] # <<>> /\ Head(inbox[0]).to = "Membership"
      /\ Head(inbox[0]).signal.type \in Found /\ AwaitedAt = {}
      /\ Joiner \in Listed(member[JoinedOrganization])
  BY DEF Confirmed, IInv, Waiting
<1>. QED BY <1>1, JoinKeeps DEF Confirmed

LEMMA WaitedInVainKeeps ==
  ASSUME IInv, WaitedInVain
  PROVE  IInv' /\ Advancing
<1>1. /\ inbox[0] # <<>> /\ Head(inbox[0]).to = "Membership"
      /\ Head(inbox[0]).signal.type \in Found
      /\ ShardFor("Membership") = 0
  BY Shards DEF WaitedInVain, IInv, Waiting
<1>2. AwaitedAt = {}
  BY Shards DEF WaitedInVain, AwaitedAt
<1>3. CASE AlreadyMember /\ Join
  BY <1>1, <1>2, <1>3, JoinKeeps, JoinerFacts, ShownAreListed
<1>4. CASE GiveAnd("Membership", <<>>, "no") /\ UNCHANGED entities
  <2> DEFINE sent == <<>>
  <2>1. /\ sent \in Seq(Message) /\ Elements(sent) = {}
        /\ GiveAnd("Membership", sent, "no")
    BY <1>4, ElementsOfTuples
  <2>2. Advancing /\ Agreeing' /\ TypeOK'
    <3>1. joining' = "no"
      BY <1>4 DEF GiveAnd
    <3>. QED BY <1>4, <3>1, Unmoved DEF IInv
  <2> HIDE DEF sent
  <2>3. UNCHANGED <<person, personView>>
    BY <1>4 DEF entities, people
  <2>4. Introduced'
    BY <1>1, <2>1, <2>3, Silent DEF IInv
  <2>. QED BY <1>1, <1>2, <2>1, <2>2, <2>4, Done
<1>. QED BY <1>3, <1>4 DEF WaitedInVain

(* Nobody waits any more, and nothing else changes.                        *)
LEMMA UnawaitedKeeps ==
  ASSUME IInv, NEW queues \in Queues,
         \A s \in Shard : \A m \in Elements(queues[s]) : Justified(m),
         inbox' = Unawaited(queues), joining' = "no",
         crashes' \in Nat, failures' \in Nat, UNCHANGED entities, Introduced'
  PROVE  IInv' /\ Advancing
<1>1. InboxTyped'
  BY UnawaitedIsQuiet DEF InboxTyped
<1>2. \A s \in Shard : \A m \in Elements(queues[s]) :
        m \in Message /\ Justified(m)'
  BY Unmoved, ElementsOfSequences DEF Queues
<1>3. \A s \in Shard : \A m \in Elements(Unawaited(queues)[s]) :
        \E n \in Elements(queues[s]) : m = Quiet(n)
  BY UnawaitedElements
<1>4. \A s \in Shard : \A m \in Elements(inbox'[s]) : Justified(m)'
  BY <1>2, <1>3, QuietIsJustified
<1>5. \A m \in InFlight' : \E s \in Shard : m \in Elements(inbox'[s])
  BY Shards DEF InFlight, Elements
<1>6. Waiting'
  <2>1. (joining = "no" /\ AwaitedAt = {} => Waiting)'
    BY NobodyWaits, PTL
  <2>. QED BY <2>1, UnawaitedPlaces
<1>7. TypeOK' /\ Agreeing' /\ Advancing
  BY Unmoved DEF IInv
<1>. QED BY <1>1, <1>4, <1>5, <1>6, <1>7 DEF IInv

LEMMA StopKeeps ==
  ASSUME IInv, Stop
  PROVE  IInv' /\ Advancing
<1>1. /\ inbox \in Queues
      /\ crashes' \in Nat /\ failures' \in Nat
  BY DEF IInv, InboxTyped, Stop
<1>2. \A s \in Shard : \A m \in Elements(inbox[s]) : Justified(m)
  BY Shards DEF IInv, InFlight
<1>3. inbox' = Unawaited(inbox) /\ joining' = "no" /\ UNCHANGED entities
  BY DEF Stop
<1>4. Introduced'
  <2> DEFINE sent == <<>>
  <2>1. sent \in Seq(Message) /\ \A m \in Elements(sent) : m.to # "PersonView"
    BY ElementsOfTuples
  <2>2. inbox[0] \in Seq(Message) /\ inbox[0] = inbox[0] \o sent
    <3>1. inbox[0] \in Seq(Message)
      BY <1>1, Shards DEF Queues
    <3>. QED BY <3>1, ConcatEmptySeq
  <2>3. /\ UNCHANGED <<person, personView>>
        /\ crashes' = 0 => crashes = 0
    BY <1>3 DEF Stop, entities, people, IInv, InboxTyped
  <2> HIDE DEF sent
  <2>. QED BY <1>1, <1>3, <2>1, <2>2, <2>3, SilentUnawaited DEF IInv
<1>. QED BY <1>1, <1>2, <1>3, <1>4, UnawaitedKeeps

LEMMA GiveUpKeeps ==
  ASSUME IInv, GiveUp
  PROVE  IInv' /\ Advancing
<1>0. /\ inbox[0] # <<>> /\ Head(inbox[0]).to = "Membership"
      /\ Head(inbox[0]).signal.type \in Found
      /\ ShardFor("Membership") = 0
  BY Shards DEF GiveUp, IInv, Waiting
<1>1. PICK emitted \in {<<>>, <<JoinCommand>>} :
        /\ emitted # <<>> => AlreadyMember
        /\ inbox' =
             Unawaited(Emitted(Handled("Membership"), "Membership", emitted))
        /\ UNCHANGED <<entities, crashes>>
        /\ failures' = failures + 1 /\ joining' = "no"
  BY DEF GiveUp
<1>2. /\ emitted \in Seq(Message)
      /\ \A m \in Elements(emitted) : Justified(m) /\ m.to # "PersonView"
  <2>1. CASE emitted = <<>>
    BY <2>1, ElementsOfTuples
  <2>2. CASE emitted = <<JoinCommand>> /\ AlreadyMember
    <3>1. /\ Joiner \in Person /\ JoinerMembership \in Address
          /\ JoinedOrganization \in Organization
          /\ owner[JoinerMembership] = Joiner
      BY <1>0, JoinerFacts
    <3>2. Joiner \in Listed(member[JoinedOrganization])
      BY <2>2, <3>1, ShownAreListed
    <3> DEFINE join == [type |-> "JoinOrganization", person |-> Joiner,
                        membership |-> JoinerMembership,
                        organization |-> JoinedOrganization]
    <3>3. JoinCommand = To("Person", join)
      BY DEF JoinCommand
    <3>4. To("Person", join) \in Message /\ To("Person", join).to = "Person"
      BY <3>1 DEF To, Message, Entity, Signal, Joining
    <3>5. Joins(join)
      BY <3>1, <3>2 DEF Joins, JoinedOrganization
    <3>6. Justified(To("Person", join))
      <4>1. /\ To("Person", join).signal = join
            /\ join.type = "JoinOrganization"
        BY DEF To
      <4> HIDE DEF join
      <4>. QED BY <3>5, <4>1 DEF Justified, OfPersonType
    <3> HIDE DEF join
    <3>. QED BY <2>2, <3>3, <3>4, <3>6, ElementsOfTuples
  <2>. QED BY <1>1, <2>1, <2>2
<1> DEFINE handled == Handled("Membership")
           queues == Emitted(handled, "Membership", emitted)
<1>3. /\ handled \in Queues
      /\ \A s \in Shard : Elements(handled[s]) \subseteq Elements(inbox[s])
      /\ handled[0] = Tail(inbox[0])
  BY <1>0, HandledIs DEF IInv
<1>4. /\ queues \in Queues
      /\ \A s \in Shard : Elements(queues[s]) \subseteq
           Elements(inbox[s]) \cup Elements(emitted)
      /\ queues[0] = Tail(inbox[0]) \o emitted
  <2> HIDE DEF handled
  <2>1. queues[0] = handled[0] \o emitted
    BY <1>0, <1>2, <1>3, EmittedTo
  <2>. QED BY <1>2, <1>3, <2>1, EmittedAre
<1>5. inbox' = Unawaited(queues)
  BY <1>1
<1> HIDE DEF queues
<1>6. \A s \in Shard : \A m \in Elements(queues[s]) : Justified(m)
  BY <1>2, <1>4, Shards DEF IInv, InFlight
<1>7. crashes' \in Nat /\ failures' \in Nat
  BY <1>1 DEF IInv, InboxTyped
<1>8. Introduced'
  <2>1. /\ UNCHANGED <<person, personView>>
        /\ crashes' = 0 => crashes = 0
    BY <1>1 DEF entities, people
  <2>2. Tail(inbox[0]) \in Seq(Message)
    BY <1>0, Shards, ElementsOfSequences DEF IInv, InboxTyped, Queues
  <2>. QED BY <1>0, <1>2, <1>4, <1>5, <2>1, <2>2, SilentUnawaited DEF IInv
<1>. QED BY <1>1, <1>4, <1>5, <1>6, <1>7, <1>8, UnawaitedKeeps

(* A message at the end of a queue. *)
LEMMA Appended ==
  ASSUME InboxTyped, NEW s \in Shard, NEW m \in Message,
         inbox' = [inbox EXCEPT ![s] = Append(@, m)]
  PROVE  /\ inbox' \in Queues
         /\ \A n \in InFlight' : n \in InFlight \/ n = m
         /\ \A r \in Shard : r # s => inbox'[r] = inbox[r]
         /\ Len(inbox'[s]) = Len(inbox[s]) + 1
         /\ \A i \in 1 .. Len(inbox[s]) : inbox'[s][i] = inbox[s][i]
         /\ inbox'[s][Len(inbox[s]) + 1] = m
         /\ inbox[s] # <<>> =>
              inbox'[s] # <<>> /\ Head(inbox'[s]) = Head(inbox[s])
<1> DEFINE q == inbox[s]
<1>0. inbox \in Queues /\ q \in Seq(Message)
  BY DEF InboxTyped, Queues
<1>1. inbox'[s] = Append(q, m) /\ \A r \in Shard : r # s => inbox'[r] = inbox[r]
  BY <1>0 DEF Queues
<1>2. /\ Append(q, m) \in Seq(Message) /\ Append(q, m) # <<>>
      /\ Len(Append(q, m)) = Len(q) + 1
      /\ \A i \in 1 .. Len(q) : Append(q, m)[i] = q[i]
      /\ Append(q, m)[Len(q) + 1] = m
  BY <1>0, AppendProperties
<1>3. Len(q) \in Nat
  BY <1>0, LenProperties
<1>4. inbox' \in Queues
  BY <1>0, <1>2 DEF Queues
<1>5. Elements(inbox'[s]) \subseteq Elements(q) \cup {m}
  <2>1. \A i \in 1 .. Len(q) + 1 :
          Append(q, m)[i] \in Elements(q) \cup {m}
    <3>1. ASSUME NEW i \in 1 .. Len(q) + 1
          PROVE  Append(q, m)[i] \in Elements(q) \cup {m}
      <4>1. i \in 1 .. Len(q) \/ i = Len(q) + 1
        BY <1>3
      <4>. QED BY <1>2, <4>1 DEF Elements
    <3>. QED BY <3>1
  <2>. QED BY <1>1, <1>2, <2>1 DEF Elements
<1>6. \A n \in InFlight' : n \in InFlight \/ n = m
  BY <1>1, <1>5, Shards DEF InFlight, Elements
<1>7. q # <<>> => Head(inbox'[s]) = Head(q)
  <2>1. ASSUME q # <<>>
        PROVE  Head(Append(q, m)) = Head(q)
    <3>1. 1 \in 1 .. Len(q) /\ Head(q) = q[1]
      BY <1>0, <1>3, <2>1, EmptySeq
    <3>2. Head(Append(q, m)) = Append(q, m)[1]
      BY <1>2, HeadTailProperties
    <3>. QED BY <1>2, <3>1, <3>2
  <2>. QED BY <1>1, <2>1
<1>. QED BY <1>1, <1>2, <1>4, <1>6, <1>7

LEMMA AskOrganizationKeeps ==
  ASSUME IInv, AskOrganization
  PROVE  IInv' /\ Advancing
<1>0. /\ inbox[0] # <<>> /\ Head(inbox[0]).to = "Membership"
      /\ Head(inbox[0]).signal.type \in Found /\ AwaitedAt = {}
      /\ 0 \in Shard /\ 1 \in Shard /\ 0 # 1
      /\ ShardFor("Organization") = 1
  BY Shards DEF AskOrganization, IInv, Waiting
<1>1. PICK p \in Person, o \in Organization, role \in Role, e \in Address :
        /\ p = Joiner /\ e = JoinerMembership /\ o = JoinedOrganization
        /\ owner[e] = p /\ role = membership[e].role
  BY <1>0, JoinerFacts
<1> DEFINE ask == [type |-> "AddOrganizationMember", organization |-> o,
                   person |-> p, role |-> role, awaited |-> TRUE]
           m == To("Organization", ask)
<1>2. /\ inbox' = [inbox EXCEPT ![1] = Append(@, m)]
      /\ joining' = "waiting" /\ UNCHANGED <<entities, crashes, failures>>
  BY <1>0, <1>1 DEF AskOrganization
<1>3. m \in Message
  BY DEF To, Message, Entity, Signal, AskCommand
<1>4. /\ m.signal.type = "AddOrganizationMember"
      /\ m.signal.person = p /\ m.signal.organization = o
  BY DEF To
<1> HIDE DEF m
<1>5. Justified(m)
  BY <1>1, <1>4 DEF Justified, JoinedOrganization, OfPersonType
<1>6. InboxTyped
  BY DEF IInv
<1>7. /\ inbox' \in Queues
      /\ \A n \in InFlight' : n \in InFlight \/ n = m
      /\ inbox'[0] = inbox[0] /\ Len(inbox'[1]) = Len(inbox[1]) + 1
      /\ \A i \in 1 .. Len(inbox[1]) : inbox'[1][i] = inbox[1][i]
      /\ inbox'[1][Len(inbox[1]) + 1] = m
  <2>1. inbox' = [inbox EXCEPT ![1] = Append(@, m)]
    BY <1>2
  <2>2. 0 \in Shard /\ 1 \in Shard /\ 0 # 1
    BY <1>0
  <2>3. /\ inbox' \in Queues
        /\ \A n \in InFlight' : n \in InFlight \/ n = m
        /\ \A r \in Shard : r # 1 => inbox'[r] = inbox[r]
    BY <1>3, <1>6, <2>1, <2>2, Appended
  <2>4. /\ Len(inbox'[1]) = Len(inbox[1]) + 1
        /\ \A i \in 1 .. Len(inbox[1]) : inbox'[1][i] = inbox[1][i]
        /\ inbox'[1][Len(inbox[1]) + 1] = m
    BY <1>3, <1>6, <2>1, <2>2, Appended
  <2>. QED BY <2>2, <2>3, <2>4
<1>8. InboxTyped' /\ TypeOK' /\ Agreeing' /\ Advancing
  BY <1>2, <1>7, Unmoved DEF IInv, InboxTyped
<1>9. \A n \in InFlight' : Justified(n)'
  BY <1>2, <1>5, <1>7, Unmoved DEF IInv
<1>10. AwaitedAt' \subseteq {Len(inbox[1]) + 1}
  <2>1. Len(inbox[1]) \in Nat
    BY <1>0, <1>6, LenProperties DEF InboxTyped
  <2>. QED BY <1>0, <1>7, <2>1 DEF AwaitedAt
<1>11. /\ Joiner' = p /\ JoinedOrganization' = o
  <2>1. UNCHANGED <<membership>> /\ ShardFor("Membership") = 0
    BY <1>2, Shards DEF entities, memberships
  <2>. QED BY <1>1, <1>7, <2>1
           DEF Joiner, JoinedOrganization, JoinerMembership, Received
<1>12. Waiting'
  BY <1>0, <1>2, <1>4, <1>7, <1>10, <1>11 DEF Waiting
<1>13. Introduced'
  BY <1>2, <1>7, NothingMoves DEF IInv, entities, people
<1>. QED BY <1>8, <1>9, <1>12, <1>13 DEF IInv

LEMMA PostKeeps ==
  ASSUME IInv, NEW c \in LinkCommand \cup AddCommand, Post(c)
  PROVE  IInv' /\ Advancing
<1> DEFINE entity == IF c.type = "AddMember" THEN "Membership"
                                             ELSE "ExternalIdentity"
           m == To(entity, c)
<1>0. /\ 0 \in Shard /\ 1 \in Shard /\ 1 # 0
      /\ InboxTyped /\ ShardFor("Membership") = 0
  BY Shards DEF IInv
<1>1. m \in Message /\ m.signal = c /\ m.to # "PersonView"
  BY DEF To, Message, Entity, Signal
<1>2. inbox' = [inbox EXCEPT ![0] = Append(@, m)]
      /\ UNCHANGED <<entities, joining, crashes, failures>>
  BY DEF Post, Given
<1>3. c.type \in {"LinkExternalIdentity", "AddMember"}
  BY DEF LinkCommand, AddCommand
<1> HIDE DEF m
<1>4. Justified(m)
  BY <1>1, <1>3 DEF Justified, OfPersonType
<1>5. /\ inbox' \in Queues
      /\ \A n \in InFlight' : n \in InFlight \/ n = m
      /\ inbox'[1] = inbox[1]
      /\ inbox[0] # <<>> =>
           inbox'[0] # <<>> /\ Head(inbox'[0]) = Head(inbox[0])
  BY <1>0, <1>1, <1>2, Appended DEF Queues
<1>6. InboxTyped' /\ TypeOK' /\ Agreeing' /\ Advancing
  BY <1>2, <1>5, Unmoved DEF IInv, InboxTyped, TypeOK
<1>7. \A n \in InFlight' : Justified(n)'
  BY <1>2, <1>4, <1>5, Unmoved DEF IInv
<1>11. Introduced'
  <2> DEFINE sent == <<m>>
  <2>1. /\ sent \in Seq(Message)
        /\ \A n \in Elements(sent) : n.to # "PersonView"
    BY <1>1, ElementsOfTuples
  <2>2. inbox[0] \in Seq(Message) /\ inbox'[0] \in Seq(Message)
    BY <1>0, <1>5 DEF InboxTyped, Queues
  <2>3. inbox'[0] = inbox[0] \o sent
    <3>1. inbox'[0] = Append(inbox[0], m)
      BY <1>0, <1>2 DEF InboxTyped, Queues
    <3>. QED BY <1>1, <2>2, <3>1, AppendIsConcat
  <2>4. UNCHANGED <<person, personView, crashes>>
    BY <1>2 DEF entities, people
  <2> HIDE DEF sent
  <2>5. Conveys(inbox'[0], inbox[0], sent)
    BY <2>2, <2>3 DEF Conveys
  <2>. QED BY <1>0, <2>1, <2>2, <2>4, <2>5, Untold DEF IInv
<1>8. AwaitedAt' = AwaitedAt
  BY <1>5 DEF AwaitedAt
<1>9. CASE joining = "no"
  <2>1. (joining = "no" /\ AwaitedAt = {} => Waiting)'
    BY NobodyWaits, PTL
  <2>2. AwaitedAt = {}
    BY <1>9 DEF IInv, Waiting
  <2>3. Waiting'
    BY <1>2, <1>8, <1>9, <2>1, <2>2
  <2>. QED BY <1>6, <1>7, <1>11, <2>3 DEF IInv
<1>10. CASE joining # "no"
  <2>1. inbox[0] # <<>>
    BY <1>10 DEF IInv, Waiting
  <2>2. UNCHANGED <<member, membership>>
    BY <1>2 DEF entities, memberships, organizations
  <2>3. Joiner' = Joiner /\ JoinedOrganization' = JoinedOrganization
    BY <1>0, <1>5, <2>1, <2>2
       DEF Joiner, JoinedOrganization, JoinerMembership, Received
  <2>4. Waiting'
    BY <1>2, <1>5, <1>8, <2>1, <2>2, <2>3 DEF IInv, Waiting
  <2>. QED BY <1>6, <1>7, <1>11, <2>4 DEF IInv
<1>. QED BY <1>9, <1>10

----------------------------------------------------------------------------
(* Handlers of Resources.  Of the commands somebody waits for, they take   *)
(* at most the first, and emit none.                                       *)

NoCommands(messages) ==
  \A i \in 1 .. Len(messages) :
    messages[i].signal.type # "AddOrganizationMember"

LEMMA PlacesMove ==
  ASSUME InboxTyped, NEW entity, ShardFor(entity) = 1, inbox[1] # <<>>,
         NEW messages \in Seq(Message), NoCommands(messages), NEW then,
         GiveAnd(entity, messages, then)
  PROVE  \/ joining' = "no" /\ AwaitedAt' = {}
         \/ /\ joining' = then /\ inbox'[0] = inbox[0]
            /\ \A i \in AwaitedAt' :
                 i \in Nat \ {0} /\ i + 1 \in AwaitedAt
                 /\ inbox'[1][i] = inbox[1][i + 1]
<1>0. /\ inbox \in Queues /\ 0 \in Shard /\ 1 \in Shard
      /\ 0 # 1
  BY Shards DEF InboxTyped
<1>1. CASE inbox' = Emitted(Handled(entity), entity, messages)
           /\ joining' = then
  <2> DEFINE queues == Handled(entity)
             q == inbox[1]
  <2>1. /\ queues \in Queues
        /\ queues[1] = Tail(q) /\ queues[0] = inbox[0]
    BY <1>0, HandledIs
  <2>2. inbox' = Emitted(queues, entity, messages)
    BY <1>1
  <2> HIDE DEF queues
  <2>3. inbox'[1] = Tail(q) \o messages /\ inbox'[0] = inbox[0]
    <3>1. /\ Emitted(queues, entity, messages)[1] = queues[1] \o messages
          /\ Emitted(queues, entity, messages)[0] = queues[0]
      <4>1. queues \in Queues
        BY <2>1
      <4>2. 0 \in Shard /\ 0 # ShardFor(entity)
        BY <1>0
      <4>3. Emitted(queues, entity, messages)[ShardFor(entity)] =
              queues[ShardFor(entity)] \o messages
        BY <4>1, EmittedTo
      <4>4. Emitted(queues, entity, messages)[0] = queues[0]
        BY <4>1, <4>2, EmittedTo
      <4>. QED BY <4>3, <4>4
    <3>. QED BY <2>1, <2>2, <3>1
  <2>4. /\ q \in Seq(Message) /\ q # <<>>
        /\ Len(q) \in Nat /\ Len(messages) \in Nat
    BY <1>0, LenProperties DEF Queues
  <2> HIDE DEF q
  <2>5. /\ Tail(q) \in Seq(Message) /\ Len(Tail(q)) = Len(q) - 1
        /\ \A i \in 1 .. Len(Tail(q)) : Tail(q)[i] = q[i + 1]
    BY <2>4, HeadTailProperties
  <2>6. /\ Len(Tail(q) \o messages) = Len(q) - 1 + Len(messages)
        /\ \A i \in 1 .. Len(q) - 1 + Len(messages) :
             (Tail(q) \o messages)[i] = IF i <= Len(q) - 1 THEN Tail(q)[i]
                                        ELSE messages[i - (Len(q) - 1)]
    BY <2>4, <2>5, ConcatProperties
  <2>7. ASSUME NEW i \in AwaitedAt'
        PROVE  /\ i \in Nat \ {0} /\ i + 1 \in AwaitedAt
               /\ inbox'[1][i] = inbox[1][i + 1]
    <3>1. /\ i \in 1 .. Len(q) - 1 + Len(messages)
          /\ inbox'[1][i] = (Tail(q) \o messages)[i]
          /\ inbox'[1][i].signal.type = "AddOrganizationMember"
          /\ inbox'[1][i].signal.awaited = TRUE
      BY <2>3, <2>6 DEF AwaitedAt
    <3>2. i <= Len(q) - 1
      <4>1. SUFFICES ASSUME ~(i <= Len(q) - 1)
                     PROVE  FALSE
        BY <2>4, <3>1
      <4>2. i - (Len(q) - 1) \in 1 .. Len(messages)
        BY <2>4, <3>1, <4>1
      <4>3. inbox'[1][i] = messages[i - (Len(q) - 1)]
        BY <2>6, <3>1, <4>1
      <4>. QED BY <3>1, <4>2, <4>3 DEF NoCommands
    <3>3. i \in 1 .. Len(Tail(q)) /\ i + 1 \in 1 .. Len(q)
      BY <2>4, <2>5, <3>1, <3>2
    <3>4. inbox'[1][i] = q[i + 1]
      BY <2>5, <2>6, <3>1, <3>2, <3>3
    <3>. QED BY <3>1, <3>3, <3>4 DEF q, AwaitedAt
  <2>. QED BY <1>1, <2>3, <2>7
<1>2. CASE inbox' = Unawaited(Emitted(inbox, entity, messages))
           /\ joining' = "no"
  <2>1. Emitted(inbox, entity, messages) \in Queues
    BY <1>0, EmittedAre
  <2>. QED BY <1>2, <2>1, UnawaitedPlaces
<1>. QED BY <1>1, <1>2 DEF GiveAnd

LEMMA ResourcesDone ==
  ASSUME IInv, NEW entity, NEW types, Receives(entity, types),
         ShardFor(entity) = 1, NEW messages \in Seq(Message),
         NoCommands(messages), NEW then, GiveAnd(entity, messages, then),
         \/ then = joining
         \/ /\ then = "confirmed" /\ 1 \in AwaitedAt
            /\ Joiner \in Listed(member'[JoinedOrganization]),
         joining' \in {"no", then} => TypeOK', Advancing, Agreeing',
         UNCHANGED <<membership, person, personView>>,
         \A m \in Elements(messages) : Justified(m)'
  PROVE  IInv' /\ Advancing
<1>0. InboxTyped /\ inbox[1] # <<>> /\ ShardFor("Membership") = 0
  BY Took, Shards DEF IInv
<1>1. /\ InboxTyped' /\ TypeOK'
      /\ \A m \in InFlight' : \E n \in InFlight \cup Elements(messages) :
           m = n \/ m = Quiet(n)
  BY <1>0, Sending
<1>2. InFlight \cup Elements(messages) \subseteq Message
  BY <1>0, Shards, ElementsOfSequences DEF InFlight, InboxTyped, Queues
<1>3. \A n \in InFlight \cup Elements(messages) :
        Justified(n)' /\ Justified(Quiet(n))'
  BY <1>2, JustifiedStays, QuietIsJustified DEF IInv
<1>4. \A m \in InFlight' : Justified(m)'
  BY <1>1, <1>3
<1>7. Introduced'
  BY <1>0, SilentElsewhere DEF IInv
<1>5. CASE joining' = "no" /\ AwaitedAt' = {}
  <2>1. (joining = "no" /\ AwaitedAt = {} => Waiting)'
    BY NobodyWaits, PTL
  <2>2. Waiting'
    BY <1>5, <2>1
  <2>. QED BY <1>1, <1>4, <1>7, <2>2 DEF IInv
<1>6. CASE /\ joining' = then /\ inbox'[0] = inbox[0]
           /\ \A i \in AwaitedAt' : i \in Nat \ {0} /\ i + 1 \in AwaitedAt
                /\ inbox'[1][i] = inbox[1][i + 1]
  <2>1. Joiner' = Joiner /\ JoinedOrganization' = JoinedOrganization
    BY <1>0, <1>6 DEF Joiner, JoinedOrganization, JoinerMembership, Received
  <2>2. joining # "no" =>
          /\ inbox[0] # <<>> /\ Head(inbox[0]).to = "Membership"
          /\ Head(inbox[0]).signal.type \in Found
          /\ JoinedOrganization \in Organization
    BY JoinerFacts DEF IInv, Waiting
  <2>3. CASE then = joining
    <3>1. joining = "confirmed" =>
            Joiner \in Listed(member'[JoinedOrganization])
      BY <2>2 DEF IInv, Waiting, Advancing, Listed
    <3>2. joining # "waiting" => AwaitedAt' = {}
      BY <1>6 DEF IInv, Waiting
    <3>3. ASSUME NEW i \in AwaitedAt'
          PROVE  /\ inbox'[1][i].signal.person = Joiner
                 /\ inbox'[1][i].signal.organization = JoinedOrganization
                 /\ \A j \in AwaitedAt' : i = j
      <4>1. /\ i + 1 \in AwaitedAt /\ inbox'[1][i] = inbox[1][i + 1]
            /\ i \in Nat
        BY <1>6
      <4>2. \A j \in AwaitedAt' : j \in Nat /\ i + 1 = j + 1
        BY <1>6, <4>1 DEF IInv, Waiting
      <4>3. \A j \in AwaitedAt' : i = j
        BY <4>1, <4>2
      <4>. QED BY <4>1, <4>3 DEF IInv, Waiting
    <3>4. Waiting'
      BY <1>6, <2>1, <2>2, <2>3, <3>1, <3>2, <3>3 DEF Waiting
    <3>. QED BY <1>1, <1>4, <1>7, <3>4 DEF IInv
  <2>4. CASE /\ then = "confirmed" /\ 1 \in AwaitedAt
             /\ Joiner \in Listed(member'[JoinedOrganization])
    <3>1. joining = "waiting" /\ \A i \in AwaitedAt : i = 1
      BY <2>4 DEF IInv, Waiting
    <3>2. AwaitedAt' = {}
      <4>1. ASSUME NEW i \in AwaitedAt'
            PROVE  FALSE
        <5>1. i \in Nat \ {0} /\ i + 1 = 1
          BY <1>6, <3>1
        <5>. QED BY <5>1
      <4>. QED BY <4>1
    <3>3. Waiting'
      BY <1>6, <2>1, <2>2, <2>4, <3>1, <3>2 DEF Waiting
    <3>. QED BY <1>1, <1>4, <1>7, <3>3 DEF IInv
  <2>. QED BY <2>3, <2>4
<1>. QED BY <1>0, <1>5, <1>6, PlacesMove

LEMMA ShowMemberKeeps ==
  ASSUME IInv, ShowMember
  PROVE  IInv' /\ Advancing
<1>0. /\ Receives("OrganizationView", {"OrganizationMemberAdded"})
      /\ ShardFor("OrganizationView") = 1 /\ TypeOK /\ Agreeing
      /\ Give("OrganizationView", <<>>)
      /\ UNCHANGED <<accounts, people, memberships, member>>
  BY Shards DEF ShowMember, IInv
<1>1. PICK e \in MemberListed : /\ e = Received("OrganizationView")
                                /\ Justified(To("OrganizationView", e))
  BY <1>0, Took, SignalTypes
<1>2. /\ e.organization \in Organization /\ e.member \in Member
      /\ e.member \in member[e.organization]
  BY <1>1 DEF Justified, To, MemberListed
<1>3. PICK shown : /\ shown = memberView[e.organization]
                        \/ shown = memberView[e.organization] \cup {e.member}
                   /\ memberView' =
                        [memberView EXCEPT ![e.organization] = shown]
  BY <1>1 DEF ShowMember
<1>4. /\ memberView' \in [Organization -> SUBSET Member]
      /\ \A o \in Organization : memberView'[o] \subseteq member[o]
  BY <1>0, <1>2, <1>3 DEF TypeOK, Agreeing, OrganizationsAgree
<1>5. joining' \in {"no", joining} => TypeOK'
  BY <1>0, <1>4 DEF TypeOK, accounts, people, memberships
<1>6. Advancing
  BY <1>0 DEF Advancing, accounts, people, memberships
<1>7. Agreeing'
  <2>1. /\ \A p \in Person : person'[p].organization = person[p].organization
        /\ \A a \in Account : external'[a].person = external[a].person
        /\ UNCHANGED <<externalView, member, owner, membership>>
    BY <1>0 DEF people, accounts, memberships
  <2>2. OrganizationsAgree'
    BY <1>0, <1>4, <2>1 DEF Agreeing, OrganizationsAgree
  <2>. QED BY <1>0, <1>6, <2>1, <2>2, AccountsStay, PeopleStay,
              MembershipsStay, JoinersStay DEF Agreeing
<1> DEFINE sent == <<>>
<1>8. /\ sent \in Seq(Message) /\ Elements(sent) = {} /\ NoCommands(sent)
      /\ GiveAnd("OrganizationView", sent, joining)
  BY <1>0, ElementsOfTuples DEF NoCommands, Give
<1>9. UNCHANGED <<membership, person, personView>>
  BY <1>0 DEF memberships, people
<1> HIDE DEF sent
<1>. QED BY <1>0, <1>5, <1>6, <1>7, <1>8, <1>9, ResourcesDone

LEMMA AddOrganizationMemberKeeps ==
  ASSUME IInv, AddOrganizationMember
  PROVE  IInv' /\ Advancing
<1>0. /\ Receives("Organization", {"AddOrganizationMember"})
      /\ ShardFor("Organization") = 1 /\ TypeOK /\ Agreeing
      /\ "OrganizationView" \in Entity
  BY Shards DEF AddOrganizationMember, IInv, Entity
<1>1. PICK c \in AskCommand : /\ c = Received("Organization")
                              /\ Justified(To("Organization", c))
  BY <1>0, Took, SignalTypes
<1>2. /\ c.person \in Person /\ c.organization \in Organization
      /\ c.role \in Role /\ c.type = "AddOrganizationMember"
      /\ c.awaited \in BOOLEAN
  BY DEF AskCommand
<1>3. PICK e \in Address : /\ owner[e] = c.person
                           /\ membership[e].organization = c.organization
  BY <1>1, <1>2 DEF Justified, To
<1> DEFINE added == [person |-> c.person, role |-> c.role]
           listed == [type |-> "OrganizationMemberAdded",
                      organization |-> c.organization, member |-> added]
           old == member[c.organization]
           new == old \cup {added}
           then == IF c.awaited THEN "confirmed" ELSE joining
<1>4. CASE Drop("Organization")
  <2> DEFINE sent == <<>>
  <2>1. /\ sent \in Seq(Message) /\ Elements(sent) = {} /\ NoCommands(sent)
        /\ GiveAnd("Organization", sent, joining) /\ UNCHANGED entities
    BY <1>4, ElementsOfTuples DEF NoCommands, Drop, Give
  <2>2. /\ Advancing /\ Agreeing'
        /\ UNCHANGED <<membership, person, personView>>
        /\ joining' \in {"no", joining} => TypeOK'
    BY <1>0, <2>1, Unmoved DEF entities, memberships, people, TypeOK
  <2> HIDE DEF sent
  <2>. QED BY <1>0, <2>1, <2>2, ResourcesDone
<1>5. ASSUME c.person \notin Listed(old),
             member' = [member EXCEPT ![c.organization] = new],
             GiveAnd("Organization", <<To("OrganizationView", listed)>>, then),
             UNCHANGED <<accounts, people, memberships, memberView>>
      PROVE  IInv' /\ Advancing
  <2>1. added \in Member /\ added.person = c.person /\ listed \in Signal
    BY <1>2 DEF Member, Signal, MemberListed
  <2>2. member \in [Organization -> SUBSET Member] /\ old \in SUBSET Member
    BY <1>0, <1>2 DEF TypeOK
  <2>3. /\ member' \in [Organization -> SUBSET Member]
        /\ member'[c.organization] = new
        /\ \A o \in Organization : o # c.organization =>
             member'[o] = member[o]
    BY <1>2, <1>5, <2>1, <2>2
  <2>4. /\ Listed(new) = Listed(old) \cup {c.person} /\ added \notin old
    BY <1>5, <2>1 DEF Listed
  <2> HIDE DEF added, new
  <2>5. joining' \in {"no", then} => TypeOK'
    BY <1>0, <1>5, <2>3 DEF TypeOK, accounts, people, memberships
  <2>6. \A o \in Organization : member[o] \subseteq member'[o]
    BY <2>2, <2>3 DEF new
  <2>7. Advancing
    BY <1>5, <2>6 DEF Advancing, accounts, people, memberships
  <2>8. /\ IsFiniteSet(new) /\ IsFiniteSet(Listed(new))
        /\ Cardinality(Listed(new)) = Cardinality(new)
    <3>1. /\ IsFiniteSet(old) /\ IsFiniteSet(Listed(old))
          /\ Cardinality(Listed(old)) = Cardinality(old)
      BY <1>0, <1>2 DEF Agreeing, OrganizationsAgree
    <3>2. /\ IsFiniteSet(old \cup {added})
          /\ Cardinality(old \cup {added}) = Cardinality(old) + 1
      BY <2>4, <3>1, FS_AddElement
    <3>3. /\ IsFiniteSet(Listed(old) \cup {c.person})
          /\ Cardinality(Listed(old) \cup {c.person}) =
               Cardinality(Listed(old)) + 1
      BY <1>5, <3>1, FS_AddElement
    <3>. QED BY <2>4, <3>1, <3>2, <3>3 DEF new
  <2>9. OrganizationsAgree'
    <3>1. ASSUME NEW o \in Organization
          PROVE  /\ IsFiniteSet(member'[o]) /\ IsFiniteSet(Listed(member'[o]))
                 /\ Cardinality(Listed(member'[o])) = Cardinality(member'[o])
                 /\ memberView[o] \subseteq member'[o]
                 /\ \A p \in Listed(member'[o]) : \E a \in Address :
                      owner[a] = p /\ membership[a].organization = o
      <4>1. CASE o = c.organization
        <5>1. /\ member'[o] = new /\ member[o] = old
              /\ Listed(member'[o]) = Listed(old) \cup {c.person}
          BY <2>3, <2>4, <4>1
        <5>2. memberView[o] \subseteq member'[o]
          BY <1>0, <2>6 DEF Agreeing, OrganizationsAgree
        <5>3. \A p \in Listed(old) : \E a \in Address :
                owner[a] = p /\ membership[a].organization = o
          BY <1>0, <5>1 DEF Agreeing, OrganizationsAgree
        <5>. HIDE DEF old
        <5>. QED BY <1>3, <2>4, <2>8, <4>1, <5>1, <5>2, <5>3
      <4>2. CASE o # c.organization
        BY <1>0, <2>3, <4>2 DEF Agreeing, OrganizationsAgree
      <4>. QED BY <4>1, <4>2
    <3>2. UNCHANGED <<memberView, owner, membership>>
      BY <1>5 DEF people, memberships
    <3>. QED BY <3>1, <3>2 DEF OrganizationsAgree, Listed
  <2>10. Agreeing'
    <3>1. /\ \A p \in Person : person'[p].organization = person[p].organization
          /\ \A a \in Account : external'[a].person = external[a].person
          /\ UNCHANGED externalView
      BY <1>5 DEF people, accounts
    <3>. QED BY <1>0, <1>5, <2>7, <2>9, <3>1, AccountsStay, PeopleStay,
                MembershipsStay, JoinersStay DEF Agreeing
  <2>11. Justified(To("OrganizationView", listed))'
    <3>1. /\ To("OrganizationView", listed).signal = listed
          /\ listed.type = "OrganizationMemberAdded"
          /\ listed.organization = c.organization /\ listed.member = added
      BY DEF To
    <3>2. added \in member'[c.organization]
      BY <2>3 DEF new
    <3> HIDE DEF listed
    <3>. QED BY <3>1, <3>2 DEF Justified, OfPersonType
  <2>12. PICK t : t = then
    OBVIOUS
  <2> DEFINE letter == To("OrganizationView", listed)
             sent == <<letter>>
  <2>13. /\ letter \in Message
         /\ letter.signal.type = "OrganizationMemberAdded"
    BY <1>0, <2>1 DEF To, Message
  <2>14. Justified(letter)'
    BY <2>11
  <2>15. GiveAnd("Organization", sent, t)
    BY <1>5, <2>12
  <2> HIDE DEF letter
  <2>16. /\ sent \in Seq(Message) /\ \A m \in Elements(sent) : Justified(m)'
         /\ NoCommands(sent)
    BY <2>13, <2>14, ElementsOfTuples DEF NoCommands
  <2> HIDE DEF sent
  <2>17. c.awaited => /\ 1 \in AwaitedAt /\ Joiner = c.person
                      /\ JoinedOrganization = c.organization
    <3>1. ASSUME c.awaited
          PROVE  /\ 1 \in AwaitedAt /\ inbox[1][1].signal = c
      <4>1. inbox[1] # <<>> /\ Head(inbox[1]).signal = c
        BY <1>0, <1>1, Took DEF Received
      <4>2. inbox[1] \in Seq(Message)
        BY Shards DEF IInv, InboxTyped, Queues
      <4>3. 1 \in 1 .. Len(inbox[1]) /\ Head(inbox[1]) = inbox[1][1]
        BY <4>1, <4>2, EmptySeq, LenProperties
      <4>. QED BY <1>2, <3>1, <4>1, <4>3 DEF AwaitedAt
    <3>. QED BY <3>1 DEF IInv, Waiting
  <2>18. \/ t = joining
         \/ /\ t = "confirmed" /\ 1 \in AwaitedAt
            /\ Joiner \in Listed(member'[JoinedOrganization])
    BY <2>3, <2>4, <2>12, <2>17
  <2>19. /\ UNCHANGED <<membership, person, personView>>
         /\ joining' \in {"no", t} => TypeOK'
    BY <1>5, <2>5, <2>12 DEF memberships, people
  <2>. QED BY <1>0, <2>7, <2>10, <2>15, <2>16, <2>18, <2>19, ResourcesDone
<1>. QED BY <1>1, <1>4, <1>5 DEF AddOrganizationMember

----------------------------------------------------------------------------
(* The invariant holds, also while the gateway signs somebody in.          *)

LEMMA IInvInit ==
  ASSUME Init
  PROVE  IInv
<1>1. inbox = [s \in Shard |-> <<>>] /\ 0 \in Shard /\ 1 \in Shard
  BY Shards DEF Init
<1>2. InboxTyped /\ InFlight = {} /\ AwaitedAt = {}
  BY <1>1, ElementsOfTuples DEF Init, InboxTyped, InFlight, AwaitedAt, Queues
<1>3. TypeOK
  <2>1. NobodyYet \in PersonState
    BY DEF NobodyYet, PersonState
  <2>. QED BY <2>1 DEF Init, TypeOK
<1>4. AccountsAgree /\ PeopleAgree /\ MembershipsAgree
  BY DEF Init, AccountsAgree, PeopleAgree, MembershipsAgree, NobodyYet
<1>5. JoinersAreListed
  BY DEF Init, JoinersAreListed, NobodyYet
<1>6. OrganizationsAgree
  <2>1. IsFiniteSet({}) /\ Listed({}) = {}
    BY FS_EmptySet DEF Listed
  <2>. QED BY <2>1 DEF Init, OrganizationsAgree
<1>7. Waiting
  BY <1>2, NobodyWaits DEF Init
<1>8. ASSUME NEW p \in Person
      PROVE  Met(p)
  <2>1. /\ inbox[0] = <<>> /\ Len(inbox[0]) = 0
        /\ person[p] = NobodyYet /\ personView[p] = NobodyYet
    BY <1>1 DEF Init
  <2>2. \A fact : ~Has(NobodyYet, fact)
    BY DEF Has, NobodyYet
  <2>3. NobodyYet.account = <<>>
    BY DEF NobodyYet
  <2>4. Pending(p, inbox[0], <<>>, <<>>)
    <3> DEFINE f == [k \in 1 .. 0 |-> 1]
    <3>1. f \in [1 .. 0 -> 1 .. Len(inbox[0])]
      OBVIOUS
    <3>2. Follow(p, inbox[0], <<>>, <<>>, 0, f)
      BY <2>1 DEF Follow
    <3>. QED BY <3>1, <3>2 DEF Pending
  <2>. QED BY <2>1, <2>2, <2>3, <2>4 DEF Met, Covered
<1>. QED BY <1>2, <1>3, <1>4, <1>5, <1>6, <1>7, <1>8
         DEF IInv, Agreeing, Introduced

LEMMA IInvStep ==
  ASSUME IInv, [Next]_vars
  PROVE  IInv' /\ Advancing
<1>1. CASE DeliverIdentity
  BY <1>1, LinkExternalIdentityKeeps, LinkingStartedKeeps,
     AddAccountToPersonKeeps, SignInAccountAddedKeeps, ShowLinkedKeeps,
     RegisterPersonEmailKeeps, PersonEmailRegisteredKeeps,
     RegisterPersonKeeps, AddSignInAccountKeeps, JoinOrganizationKeeps,
     PersonViewKeeps, AddMemberKeeps, MemberAddingStartedKeeps,
     OrganizationJoinedKeeps, ShowMembershipKeeps, StartJoiningKeeps,
     AskOrganizationKeeps, ConfirmedKeeps, WaitedInVainKeeps
     DEF DeliverIdentity
<1>2. CASE DeliverResources
  BY <1>2, AddOrganizationMemberKeeps, ShowMemberKeeps DEF DeliverResources
<1>3. CASE GiveUp \/ Stop
  BY <1>3, GiveUpKeeps, StopKeeps
<1>4. CASE \E command \in ClientCommand : Post(command)
  BY <1>4, PostKeeps, IdentityConstants
<1>5. CASE UNCHANGED vars
  <2>1. UNCHANGED entities /\ inbox' = inbox /\ joining' = joining
        /\ UNCHANGED <<crashes, failures>>
    BY <1>5 DEF vars
  <2>2. UNCHANGED <<member, membership>>
    BY <2>1 DEF entities, memberships, organizations
  <2>3. TypeOK' /\ Agreeing' /\ Advancing
    <3>1. joining' \in {"no", "asking", "waiting", "confirmed"}
      BY <2>1 DEF IInv, TypeOK
    <3>. QED BY <2>1, <3>1, Unmoved DEF IInv
  <2>4. InboxTyped' /\ InFlight' = InFlight
    BY <2>1 DEF IInv, InboxTyped, InFlight
  <2>5. \A m \in InFlight' : Justified(m)'
    BY <2>1, <2>4, Unmoved DEF IInv
  <2>6. /\ AwaitedAt' = AwaitedAt /\ Joiner' = Joiner
        /\ JoinedOrganization' = JoinedOrganization
    BY <2>1, <2>2 DEF AwaitedAt, Joiner, JoinedOrganization,
                      JoinerMembership, Received
  <2>7. Waiting'
    BY <2>1, <2>2, <2>6 DEF IInv, Waiting
  <2>8. Introduced'
    BY <2>1, NothingMoves DEF IInv, entities, people
  <2>. QED BY <2>3, <2>4, <2>5, <2>7, <2>8 DEF IInv
<1>. QED BY <1>1, <1>2, <1>3, <1>4, <1>5 DEF Next

(* What is known of the sign-in: the person found has the account, and a   *)
(* session says of its person what Identity knows of them.                 *)
AttemptInv ==
  /\ attempt \in Attempt /\ attempts \in 0 .. Len(Attempted)
  /\ attempt.stage \in UnderWay => attempt.account \in Account
  /\ attempt.stage \in {"found", "signed in"} =>
       /\ attempt.account \in Account /\ attempt.person \in Person
       /\ attempt.person = externalView[attempt.account]
  /\ attempt.stage = "signed in" =>
       /\ attempt.email # NoAddress /\ attempt.name # NoAccount
       /\ attempt.email = person[attempt.person].email
       /\ attempt.name = person[attempt.person].name
       /\ attempt.organization # NoOrganization =>
            attempt.organization = person[attempt.person].organization

LEMMA NoAttemptIs ==
  /\ NoAttempt \in Attempt /\ NoAttempt.stage = "refused"
  /\ \A a \in Account : Unknown(a) \in Attempt /\ Unknown(a).account = a
                        /\ Unknown(a).stage = "linking"
  /\ TypeOK => \A a \in Account : Linked(a) =>
       /\ KnownAs(a) \in Attempt /\ KnownAs(a).account = a
       /\ KnownAs(a).person \in Person /\ KnownAs(a).stage = "found"
       /\ KnownAs(a).person = externalView[a]
<1>1. NoAttempt \in Attempt /\ NoAttempt.stage = "refused"
  BY DEF NoAttempt, Attempt, Stage, UnderWay
<1>2. ASSUME NEW a \in Account
      PROVE  /\ Unknown(a) \in Attempt /\ Unknown(a).account = a
             /\ Unknown(a).stage = "linking"
  BY DEF Unknown, NoAttempt, Attempt, Stage, UnderWay
<1>3. ASSUME TypeOK, NEW a \in Account, Linked(a)
      PROVE  /\ KnownAs(a) \in Attempt /\ KnownAs(a).account = a
             /\ KnownAs(a).person \in Person /\ KnownAs(a).stage = "found"
             /\ KnownAs(a).person = externalView[a]
  <2>1. externalView[a] \in Person
    BY <1>3 DEF TypeOK, Linked
  <2>. QED BY <2>1 DEF KnownAs, NoAttempt, Attempt, Stage, UnderWay
<1>. QED BY <1>1, <1>2, <1>3

(* Of the person of a session, nothing is taken back.                      *)
LEMMA AttemptStays ==
  ASSUME AttemptInv, Advancing, UNCHANGED <<attempt, attempts>>
  PROVE  AttemptInv'
<1>1. /\ attempt' \in Attempt /\ attempts' \in 0 .. Len(Attempted)
      /\ attempt'.stage \in UnderWay => attempt'.account \in Account
  BY DEF AttemptInv
<1>2. attempt.stage \in {"found", "signed in"} =>
        /\ attempt.account \in Account /\ attempt.person \in Person
        /\ attempt.person = externalView'[attempt.account]
  <2>1. ASSUME NEW a \in Account, externalView[a] \in Person
        PROVE  externalView'[a] = externalView[a]
    BY <2>1, Nothing DEF Advancing
  <2>. QED BY <2>1 DEF AttemptInv
<1>3. attempt.stage = "signed in" =>
        /\ attempt.email # NoAddress /\ attempt.name # NoAccount
        /\ attempt.email = person'[attempt.person].email
        /\ attempt.name = person'[attempt.person].name
        /\ attempt.organization # NoOrganization =>
             attempt.organization = person'[attempt.person].organization
  BY DEF AttemptInv, Advancing
<1>. QED BY <1>1, <1>2, <1>3 DEF AttemptInv

(* A sign-in that has found nobody yet, or ends.                           *)
LEMMA NobodyFound ==
  ASSUME attempt' \in Attempt, attempts' \in 0 .. Len(Attempted),
         attempt'.stage \notin {"found", "signed in"},
         attempt'.stage \in UnderWay => attempt'.account \in Account
  PROVE  AttemptInv'
BY DEF AttemptInv

LEMMA SomebodyFound ==
  ASSUME IInv, NEW a \in Account, Linked(a), attempt' = KnownAs(a),
         attempts' \in 0 .. Len(Attempted), UNCHANGED externalView
  PROVE  AttemptInv'
BY NoAttemptIs DEF AttemptInv, IInv

(* The view a person shows with an account says what is so.                *)
LEMMA ShownIsTrue ==
  ASSUME IInv, NEW p \in Person, NEW a, ShowsWith(personView[p], a)
  PROVE  LET view == personView[p] IN
         /\ view \in PersonState
         /\ view.email # NoAddress /\ view.email = person[p].email
         /\ view.name # NoAccount /\ view.name = person[p].name
         /\ view.organization # NoOrganization =>
              view.organization = person[p].organization
<1>1. PICK view \in PersonState : view = personView[p]
  BY DEF IInv, TypeOK
<1>2. view.account # <<>>
  BY <1>1 DEF ShowsWith, Range
<1>3. Has(view, "email") /\ Has(view, "name")
  BY <1>1, <1>2 DEF IInv, Introduced, Met
<1>4. view.email # NoAddress /\ view.name # NoAccount
  BY <1>3 DEF Has
<1>. QED BY <1>1, <1>4 DEF IInv, Agreeing, PeopleAgree

LEMMA AttemptStep ==
  ASSUME IInv, AttemptInv, [SignInNext]_signInVars
  PROVE  IInv' /\ AttemptInv'
<1>0. TypeOK /\ attempts \in Nat /\ Len(Attempted) \in Nat
      /\ attempts \in 0 .. Len(Attempted)
  <2>1. TypeOK /\ attempts \in 0 .. Len(Attempted)
    BY DEF IInv, AttemptInv
  <2>2. Len(Attempted) \in Nat
    BY SignInConstants, LenProperties
  <2>. QED BY <2>1, <2>2
<1>1. CASE Next /\ UNCHANGED <<attempt, attempts>>
  BY <1>1, IInvStep, AttemptStays
<1>2. ASSUME NEW a \in Account, SignIn(a)
      PROVE  IInv' /\ AttemptInv'
  <2>1. IInv' /\ UNCHANGED externalView
    BY <1>2, IInvStep DEF SignIn, vars, entities, accounts
  <2>2. attempts' \in 0 .. Len(Attempted)
    BY <1>0, <1>2 DEF SignIn
  <2>3. CASE Linked(a) /\ attempt' = KnownAs(a)
    BY <2>1, <2>2, <2>3, SomebodyFound
  <2>4. CASE ~Linked(a) /\ attempt' = Unknown(a)
    BY <2>1, <2>2, <2>4, NoAttemptIs, NobodyFound
  <2>. QED BY <1>2, <2>3, <2>4 DEF SignIn
<1>3. CASE LinkAccount
  <2>1. attempt.account \in Account /\ attempt \in Attempt
    BY <1>3 DEF LinkAccount, AttemptInv, UnderWay
  <2>2. PICK c : /\ Post(c)
                 /\ c = [type |-> "LinkExternalIdentity",
                         account |-> attempt.account,
                         email |-> VerifiedEmail[attempt.account]]
    BY <1>3 DEF LinkAccount
  <2>3. c \in LinkCommand
    BY <2>1, <2>2, SignInConstants DEF LinkCommand
  <2>4. IInv'
    BY <2>2, <2>3, PostKeeps
  <2>5. PICK stage \in {"too late", "waiting"} :
          attempt' = [attempt EXCEPT !.stage = stage]
    BY <1>3 DEF LinkAccount
  <2>6. /\ attempt' \in Attempt /\ attempt'.account \in Account
        /\ attempt'.stage = stage
    BY <2>1, <2>5 DEF Attempt, Stage, UnderWay
  <2>7. AttemptInv'
    BY <1>0, <1>3, <2>6, NobodyFound DEF LinkAccount
  <2>. QED BY <2>4, <2>7
<1>4. CASE AccountShows
  <2>1. attempt.account \in Account
    BY <1>4 DEF AccountShows, AttemptInv, UnderWay
  <2>2. IInv' /\ UNCHANGED <<externalView, attempts>>
    BY <1>4, IInvStep DEF AccountShows, vars, entities, accounts
  <2>. QED BY <1>0, <1>4, <2>1, <2>2, SomebodyFound DEF AccountShows
<1>5. CASE PersonShows
  <2>1. /\ attempt.person \in Person /\ attempt \in Attempt
        /\ attempt.account \in Account
        /\ attempt.person = externalView[attempt.account]
    BY <1>5 DEF PersonShows, AttemptInv
  <2>2. IInv' /\ UNCHANGED <<externalView, person, attempts>>
    BY <1>5, IInvStep DEF PersonShows, vars, entities, accounts, people
  <2>3. PICK view \in PersonState :
          /\ attempt' = [attempt EXCEPT !.stage = "signed in",
                           !.email = view.email, !.name = view.name,
                           !.organization = view.organization]
          /\ view.email # NoAddress
          /\ view.email = person[attempt.person].email
          /\ view.name # NoAccount
          /\ view.name = person[attempt.person].name
          /\ view.organization # NoOrganization =>
               view.organization = person[attempt.person].organization
    BY <1>5, <2>1, ShownIsTrue DEF PersonShows
  <2>4. /\ attempt' \in Attempt /\ attempt'.stage = "signed in"
        /\ attempt'.account = attempt.account
        /\ attempt'.person = attempt.person
        /\ attempt'.email = view.email /\ attempt'.name = view.name
        /\ attempt'.organization = view.organization
    BY <2>1, <2>3 DEF Attempt, PersonState, Stage, UnderWay
  <2>. QED BY <1>0, <2>1, <2>2, <2>3, <2>4 DEF AttemptInv, UnderWay
<1>6. CASE GiveUpSignIn
  <2>1. IInv' /\ attempts' = attempts
    BY <1>6, IInvStep DEF GiveUpSignIn
  <2>. QED BY <1>0, <1>6, <2>1, NoAttemptIs, NobodyFound
           DEF GiveUpSignIn, UnderWay
<1>7. CASE UNCHANGED signInVars
  BY <1>7, IInvStep, AttemptStays DEF signInVars
<1>. QED BY <1>1, <1>2, <1>3, <1>4, <1>5, <1>6, <1>7 DEF SignInNext, GoOn

THEOREM SignInInvariant == SignInSpec => [](IInv /\ AttemptInv)
<1>1. SignInInit => IInv /\ AttemptInv
  <2>1. 0 \in 0 .. Len(Attempted)
    BY SignInConstants, LenProperties
  <2>. QED BY <2>1, IInvInit, NoAttemptIs
           DEF SignInInit, AttemptInv, UnderWay
<1>2. IInv /\ AttemptInv /\ [SignInNext]_signInVars => (IInv /\ AttemptInv)'
  BY AttemptStep
<1>. QED BY <1>1, <1>2, PTL DEF SignInSpec

(* Everything Identity keeps, and the sign-in of the gateway, stays of its *)
(* type, whatever is delivered, refused or handled again.                  *)
THEOREM SignInTypes == SignInSpec => []SignInTypeOK
<1>1. IInv /\ AttemptInv => SignInTypeOK
  BY DEF IInv, AttemptInv, SignInTypeOK
<1>. QED BY <1>1, SignInInvariant, PTL

(* Whoever signs in with an address and whoever an administrator adds      *)
(* under it are one person (PersonEmailAggregate).                         *)
THEOREM AddressesArePeople == SignInSpec => []AddressesAreOnePerson
<1>1. IInv => AddressesAreOnePerson
  BY DEF IInv, Agreeing, AccountsAgree, MembershipsAgree, OwnerOf,
         AddressesAreOnePerson
<1>. QED BY <1>1, SignInInvariant, PTL

(* People join only an organization that lists them, and are shown as      *)
(* members only once they have joined (MembershipProcessManager).          *)
THEOREM JoinersAreMembers == SignInSpec => []JoinedAreListed
<1>1. IInv => JoinedAreListed
  BY DEF IInv, Agreeing, JoinersAreListed, MembershipsAgree, JoinedAreListed
<1>. QED BY <1>1, SignInInvariant, PTL

(* An organization lists people once, and only those who were added to it, *)
(* also when a command is executed after its sender gave it up             *)
(* (OrganizationAggregate).                                                *)
THEOREM MembersWereAdded == SignInSpec => []ListedOnceWhereAdded
<1>1. IInv => ListedOnceWhereAdded
  BY DEF IInv, Agreeing, OrganizationsAgree, ListedOnceWhereAdded
<1>. QED BY <1>1, SignInInvariant, PTL

(* A session is for the person who owns the address the account was        *)
(* confirmed with, in their own name and in an organization that lists     *)
(* them, whatever was delivered, refused or handled again while it was     *)
(* being issued (AccessDesk.signIn, ReachedPeople.awaitView).              *)
THEOREM SessionsBelong == SignInSpec => []SessionsAreTheOwners
<1>1. ASSUME IInv, AttemptInv, attempt.stage = "signed in"
      PROVE  /\ attempt.email = external[attempt.account].email
             /\ attempt.person = owner[attempt.email]
             /\ attempt.name = person[attempt.person].name
             /\ attempt.organization # NoOrganization =>
                  attempt.person \in Listed(member[attempt.organization])
  <2>1. PICK a \in Account, p \in Person :
          /\ attempt.account = a /\ attempt.person = p
          /\ externalView[a] = p
          /\ attempt.email = person[p].email /\ attempt.email # NoAddress
          /\ attempt.name = person[p].name
          /\ attempt.organization # NoOrganization =>
               attempt.organization = person[p].organization
    BY <1>1 DEF AttemptInv
  <2>2. OwnerOf(a, p)
    BY <1>1, <2>1, Nothing DEF IInv, Agreeing, AccountsAgree
  <2>3. owner[person[p].email] = p /\ person[p].email \in Address
    BY <1>1, <2>1 DEF IInv, Agreeing, PeopleAgree, TypeOK, PersonState
  <2>4. external[a].email = person[p].email
    BY <1>1, <2>2, <2>3, Nothing DEF IInv, Agreeing, PeopleAgree, OwnerOf
  <2>5. attempt.organization # NoOrganization =>
          p \in Listed(member[attempt.organization])
    BY <1>1, <2>1 DEF IInv, Agreeing, JoinersAreListed
  <2>. QED BY <2>1, <2>3, <2>4, <2>5
<1>2. IInv /\ AttemptInv => SessionsAreTheOwners
  BY <1>1 DEF SessionsAreTheOwners
<1>. QED BY <1>2, SignInInvariant, PTL

(* Whatever order the messages of an account, of an addition and of their  *)
(* repetitions come in, people are shown as they are once all of them are  *)
(* delivered, as long as none was handled twice (PersonViewProjection).    *)
THEOREM PeopleAreShown == SignInSpec => []PersonViewAgrees
<1>1. ASSUME IInv, crashes = 0, \A s \in Shard : inbox[s] = <<>>
      PROVE  personView = person
  <2>1. /\ inbox[0] = <<>> /\ Len(inbox[0]) = 0
        /\ person \in [Person -> PersonState]
        /\ personView \in [Person -> PersonState]
    BY <1>1, Shards DEF IInv, TypeOK
  <2>2. ASSUME NEW p \in Person
        PROVE  personView[p] = person[p]
    <3>1. PICK known \in PersonState, shown \in PersonState :
            known = person[p] /\ shown = personView[p]
      BY <2>1
    <3>2. /\ \A fact \in Fact : Has(known, fact) => Has(shown, fact)
          /\ Pending(p, inbox[0], known.account, shown.account)
      BY <1>1, <2>1, <3>1 DEF IInv, Introduced, Met, Covered, Told
    <3>3. /\ shown.email = known.email /\ shown.name = known.name
          /\ shown.organization = known.organization
      BY <1>1, <3>1, <3>2 DEF IInv, Agreeing, PeopleAgree, Fact, Has
    <3>4. /\ Len(known.account) = Len(shown.account)
          /\ \A k \in 1 .. Len(shown.account) :
               known.account[k] = shown.account[k]
          /\ known.account \in Seq(Account) /\ shown.account \in Seq(Account)
      <4>0. PICK n \in Nat : \E f \in [1 .. n -> 1 .. 0] :
              Follow(p, inbox[0], known.account, shown.account, n, f)
        BY <2>1, <3>2 DEF Pending
      <4>1. PICK f \in [1 .. n -> 1 .. 0] :
              Follow(p, inbox[0], known.account, shown.account, n, f)
        BY <4>0
      <4>2. n = 0
        <5>1. CASE n > 0
          <6>1. 1 \in 1 .. n
            BY <5>1
          <6>. QED BY <4>1, <6>1
        <5>. QED BY <5>1
      <4>3. known.account \in Seq(Account) /\ shown.account \in Seq(Account)
        BY DEF PersonState
      <4>4. Len(shown.account) \in Nat
        BY <4>3, LenProperties
      <4>. QED BY <4>1, <4>2, <4>3, <4>4 DEF Follow
    <3>5. shown.account = known.account
      BY <3>4, SeqEqual
    <3>. QED BY <3>1, <3>3, <3>5 DEF PersonState
  <2>. QED BY <2>1, <2>2
<1>2. IInv => PersonViewAgrees
  BY <1>1 DEF PersonViewAgrees
<1>. QED BY <1>2, SignInInvariant, PTL
=============================================================================
