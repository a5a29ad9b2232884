-------------------------- MODULE AccessViewsProofs --------------------------
(***************************************************************************)
(* Theorems about the views of AccessRequests: what is shown of requests,  *)
(* decisions and grants once all messages are delivered, for all values of *)
(* its constants and however often a message is handled again.             *)
(***************************************************************************)
EXTENDS AccessGrantsProofs

----------------------------------------------------------------------------
(* The messages to the views, and where the inbox holds them. *)

Where(kind) == {i \in 1 .. Len(inbox) : inbox[i] \in kind}

Before(kind, other) ==
  \A i \in Where(kind), j \in Where(other) : i < j

(* The last of these messages is a good one. *)
LastWord(kind, good) ==
  \E i \in Where(kind) : inbox[i] \in good /\ \A j \in Where(kind) : j <= i

About(entity, types, r) ==
  {m \in Message : /\ m.to = entity
                   /\ m.signal.type \in types
                   /\ m.signal.request = r}

OfGrant(entity, types, g) ==
  {m \in Message : /\ m.to = entity
                   /\ m.signal.type \in types
                   /\ m.signal.grant = g}

SubmittedEvents ==
  {"AccessRequestSubmitted", "AccessExtensionRequestSubmitted"}

Submissions(r) == About("RequestView", SubmittedEvents, r)

Approvals(r) == About("RequestView", {"AccessRequestApprovalStarted"}, r)

Outcomes(r) == About("RequestView", SettledEvents, r)

Assignments(r) == About("Decisions", SubmittedEvents, r)

Closings(r) == About("Decisions", SettledEvents, r)

Droppings(g) == OfGrant("Decisions", {"AccessGrantRevoked"}, g)

Creations(g) == OfGrant("GrantView", {"AccessGrantCreated"}, g)

Extensions(g) == OfGrant("GrantView", {"AccessGrantExtended"}, g)

Revocations(g) == OfGrant("GrantView", {"AccessGrantRevoked"}, g)

----------------------------------------------------------------------------
(* What the events about a request say stays true of it. *)

Settled(r) ==
  request[r].status \in {"APPROVED", "APPROVAL_FAILED", "DENIED", "CANCELED"}

EventTypes ==
  SubmittedEvents \cup SettledEvents \cup {"AccessRequestApprovalStarted"}

Told(s) ==
  s.type \in EventTypes =>
    /\ Reviewed(s.request)
    /\ s.snapshot = request[s.request].snapshot
    /\ s.manager = request[s.request].manager
    /\ s.type = "AccessRequestApprovalStarted" =>
         Accepted(s.request) /\ s.decidedBy # NoPerson
    /\ s.type = "AccessRequestDenied" => s.decidedBy # NoPerson
    /\ s.type \in SettledEvents =>
         request[s.request].status = SettledAs(s.type)

----------------------------------------------------------------------------
(* A requester's view of a request. *)

RequestShown(r) ==
  LET status == request[r].status
      snapshot == request[r].snapshot
      view == requestView[r]
  IN
  /\ ~Reviewed(r) => view.status = "UNSPECIFIED"
  /\ Reviewed(r) /\ ~Settled(r) =>
       \/ Where(Submissions(r)) # {}
       \/ view.status = "PENDING" /\ view.snapshot = snapshot
  /\ Settled(r) =>
       \/ Where(Outcomes(r)) # {}
       \/ /\ Where(Submissions(r)) = {}
          /\ view.status = status /\ view.snapshot = snapshot
  /\ Before(Submissions(r), Outcomes(r))

(* Who decided is shown from the decision on. *)
DeciderKnown(r) ==
  LET decided == requestView[r].decidedBy # NoPerson IN
  /\ decided => Accepted(r) \/ request[r].status = "DENIED"
  /\ Accepted(r) => decided \/ Where(Approvals(r)) # {}
  /\ request[r].status = "DENIED" => decided \/ Where(Outcomes(r)) # {}

----------------------------------------------------------------------------
(* The managers' queues. *)

Queued(p, r) == \E t \in task[p] : t.request = r

(* No manager needs to decide on an extension of a revoked grant. *)
Lost(r) ==
  LET grant == request[r].snapshot.grant IN
  /\ SaysExtension(r)
  /\ grantView[grant].revoked \/ Where(Revocations(grant)) # {}

QueueShown(p, r) ==
  /\ \A t \in task[p] : t.request = r =>
       /\ Reviewed(r)
       /\ p \in request[r].manager
       /\ t.snapshot = request[r].snapshot
  /\ Settled(r) /\ Queued(p, r) => Where(Closings(r)) # {}
  /\ request[r].status = "PENDING" /\ p \in request[r].manager =>
       Queued(p, r) \/ Where(Assignments(r)) # {} \/ Lost(r)

Assigning(r) ==
  /\ Before(Assignments(r), Closings(r))
  /\ Settled(r) /\ Where(Assignments(r)) # {} => Where(Closings(r)) # {}

(* The grant that an extension is about was shown before the extension. *)
ShownFirst(r) ==
  LET shown == Where(Creations(request[r].snapshot.grant)) IN
  SaysExtension(r) =>
    /\ Reviewed(r) => shown = {}
    /\ \A i \in Checks(r), j \in shown : j < i

(* Managers hear of a revocation before it is shown. *)
Announced(g) ==
  \A i \in Where(Droppings(g)) : \E j \in Where(Revocations(g)) : i < j

----------------------------------------------------------------------------
(* The grants as they are shown. *)

Endings(g) == Creations(g) \cup Extensions(g)
Fates(g) == Creations(g) \cup Revocations(g)

StartIs(g, start) ==
  \/ LastWord(Creations(g), {m \in Message : m.signal.start = start})
  \/ /\ Where(Creations(g)) = {}
     /\ grantView[g].known /\ grantView[g].start = start

EndIs(g, end) ==
  \/ LastWord(Endings(g), {m \in Message : m.signal.end = end})
  \/ Where(Endings(g)) = {} /\ grantView[g].end = end

RevokedIs(g, revoked) ==
  \/ LastWord(Fates(g), IF revoked THEN Revocations(g) ELSE Creations(g))
  \/ Where(Fates(g)) = {} /\ grantView[g].revoked = revoked

(* What is held is the last that was told. *)
HeldShown ==
  \A a \in AccessId : \A h \in access[a].grant :
    StartIs(h.id, h.start) /\ EndIs(h.id, h.end) /\ RevokedIs(h.id, FALSE)

(* What is not held has not been created, or was revoked, or has ended. *)
GoneShown(g) ==
  g \notin KeptGrantIds =>
    \/ Where(Creations(g)) = {} /\ ~grantView[g].known
    \/ RevokedIs(g, TRUE)
    \/ \E end \in 0 .. now : EndIs(g, end)

Telling == \A s \in InFlight : Told(s)

VInv ==
  /\ Telling
  /\ \A r \in Request :
       /\ RequestShown(r) /\ DeciderKnown(r)
       /\ Assigning(r) /\ ShownFirst(r) /\ Announced(r)
       /\ \A p \in Person : QueueShown(p, r)

WInv == HeldShown /\ \A g \in Request : GoneShown(g)

----------------------------------------------------------------------------
(* How the places of the messages of a kind change in a step. *)

Among(messages, kind) == {j \in 1 .. Len(messages) : messages[j] \in kind}

LEMMA WhereMoves ==
  ASSUME TypeOK, NEW messages \in Seq(Message), NEW left \in {0, 1},
         Came(left, messages), NEW kind
  PROVE  /\ \A i \in Where(kind)' :
              \/ /\ i + left \in Where(kind)
                 /\ inbox'[i] = inbox[i + left]
                 /\ i <= Len(inbox) - left
              \/ \E j \in Among(messages, kind) :
                   i = Len(inbox) - left + j /\ inbox'[i] = messages[j]
         /\ \A i \in Where(kind) : i > left =>
              i - left \in Where(kind)' /\ inbox'[i - left] = inbox[i]
         /\ \A j \in Among(messages, kind) :
              /\ Len(inbox) - left + j \in Where(kind)'
              /\ inbox'[Len(inbox) - left + j] = messages[j]
<1>1. Len(inbox) \in Nat /\ Len(messages) \in Nat
  BY LenProperties DEF TypeOK
<1>2. ASSUME NEW i \in Where(kind)'
      PROVE  \/ /\ i + left \in Where(kind)
                /\ inbox'[i] = inbox[i + left]
                /\ i <= Len(inbox) - left
             \/ \E j \in Among(messages, kind) :
                  i = Len(inbox) - left + j /\ inbox'[i] = messages[j]
  <2>1. i \in 1 .. Len(inbox') /\ inbox'[i] \in kind
    BY DEF Where
  <2>2. CASE i <= Len(inbox) - left
    <3>1. i \in 1 .. Len(inbox) - left /\ i + left \in 1 .. Len(inbox)
      BY <1>1, <2>1, <2>2 DEF Came
    <3>. QED BY <2>1, <2>2, <3>1 DEF Came, Where
  <2>3. CASE i > Len(inbox) - left
    <3>. DEFINE j == i - (Len(inbox) - left)
    <3>1. j \in 1 .. Len(messages) /\ i = Len(inbox) - left + j
      BY <1>1, <2>1, <2>3 DEF Came
    <3>2. inbox'[i] = messages[j]
      BY <3>1 DEF Came
    <3>. QED BY <2>1, <3>1, <3>2 DEF Among
  <2>. QED BY <1>1, <2>1, <2>2, <2>3
<1>3. ASSUME NEW i \in Where(kind), i > left
      PROVE  i - left \in Where(kind)' /\ inbox'[i - left] = inbox[i]
  <2>1. i \in 1 .. Len(inbox) /\ inbox[i] \in kind
    BY DEF Where
  <2>2. /\ i - left \in 1 .. Len(inbox) - left /\ i - left + left = i
        /\ i - left \in 1 .. Len(inbox')
    BY <1>1, <1>3, <2>1 DEF Came
  <2>3. inbox'[i - left] = inbox[i]
    BY <2>2 DEF Came
  <2>. QED BY <2>1, <2>2, <2>3 DEF Where
<1>4. ASSUME NEW j \in Among(messages, kind)
      PROVE  /\ Len(inbox) - left + j \in Where(kind)'
             /\ inbox'[Len(inbox) - left + j] = messages[j]
  <2>1. j \in 1 .. Len(messages) /\ messages[j] \in kind
    BY DEF Among
  <2>2. Len(inbox) - left + j \in 1 .. Len(inbox')
    BY <1>1, <2>1 DEF Came
  <2>. QED BY <2>1, <2>2 DEF Came, Where
<1>. QED BY <1>2, <1>3, <1>4

LEMMA WherePlaces ==
  ASSUME TypeOK, NEW kind
  PROVE  Where(kind) \subseteq 1 .. Len(inbox) /\ Len(inbox) \in Nat
BY LenProperties DEF TypeOK, Where

(* None of them is given and none is taken. *)
Calm(left, messages, kind) ==
  Among(messages, kind) = {} /\ (left = 0 \/ inbox[1] \notin kind)

LEMMA NoneComes ==
  ASSUME TypeOK, NEW messages \in Seq(Message), NEW left \in {0, 1},
         Came(left, messages), NEW kind,
         Where(kind) = {}, Among(messages, kind) = {}
  PROVE  Where(kind)' = {}
BY WhereMoves

LEMMA SomeStays ==
  ASSUME TypeOK, NEW messages \in Seq(Message), NEW left \in {0, 1},
         Came(left, messages), NEW kind,
         Where(kind) # {}, left = 0 \/ inbox[1] \notin kind
  PROVE  Where(kind)' # {}
<1>1. PICK i \in Where(kind) : TRUE
  OBVIOUS
<1>2. i \in 1 .. Len(inbox) /\ inbox[i] \in kind /\ Len(inbox) \in Nat
  BY WherePlaces DEF Where
<1>3. i > left
  BY <1>2
<1>. QED BY <1>3, WhereMoves

LEMMA SomeComes ==
  ASSUME TypeOK, NEW messages \in Seq(Message), NEW left \in {0, 1},
         Came(left, messages), NEW kind, Among(messages, kind) # {}
  PROVE  Where(kind)' # {}
BY WhereMoves

LEMMA CalmWhere ==
  ASSUME TypeOK, NEW messages \in Seq(Message), NEW left \in {0, 1},
         Came(left, messages), NEW kind, Calm(left, messages, kind)
  PROVE  Where(kind)' = {} <=> Where(kind) = {}
BY NoneComes, SomeStays DEF Calm

(* The order stays when the earlier kind only comes where the later is not.*)
LEMMA BeforeKept ==
  ASSUME TypeOK, NEW messages \in Seq(Message), NEW left \in {0, 1},
         Came(left, messages), NEW kind, NEW other, Before(kind, other),
         \/ Among(messages, kind) = {}
         \/ Where(other) = {} /\ Among(messages, other) = {}
  PROVE  Before(kind, other)'
<1>1. CASE Where(other) = {} /\ Among(messages, other) = {}
  BY <1>1, NoneComes DEF Before
<1>2. CASE Among(messages, kind) = {}
  <2>1. ASSUME NEW i \in Where(kind)', NEW j \in Where(other)' PROVE i < j
    <3>1. /\ i \in 1 .. Len(inbox') /\ j \in 1 .. Len(inbox')
          /\ Len(inbox) \in Nat
      BY WherePlaces DEF Where
    <3>2. i + left \in Where(kind) /\ i <= Len(inbox) - left
      BY <1>2, WhereMoves
    <3>3. CASE j + left \in Where(other)
      BY <3>1, <3>2, <3>3 DEF Before
    <3>4. ASSUME NEW k \in Among(messages, other),
                 j = Len(inbox) - left + k
          PROVE  i < j
      <4>1. k \in Nat /\ k > 0
        BY DEF Among
      <4>. QED BY <3>1, <3>2, <3>4, <4>1
    <3>. QED BY <3>3, <3>4, WhereMoves
  <2>. QED BY <2>1 DEF Before
<1>. QED BY <1>1, <1>2

(* Nothing of the earlier kind is left when one of the later comes up.     *)
LEMMA FirstIsLate ==
  ASSUME TypeOK, inbox # <<>>, NEW kind, NEW other, Before(kind, other),
         inbox[1] \in other
  PROVE  Where(kind) = {}
<1>1. 1 \in Where(other)
  BY EmptySeq, LenProperties DEF Where, TypeOK
<1>2. \A i \in Where(kind) : i \in Nat /\ i >= 1
  BY WherePlaces
<1>. QED BY <1>1, <1>2 DEF Before

LEMMA LastWordKept ==
  ASSUME TypeOK, NEW messages \in Seq(Message), NEW left \in {0, 1},
         Came(left, messages), NEW kind, NEW good, LastWord(kind, good),
         Among(messages, kind) = {}
  PROVE  \/ LastWord(kind, good)'
         \/ /\ left = 1 /\ inbox[1] \in kind \cap good
            /\ Where(kind)' = {}
<1>1. PICK i \in Where(kind) :
         inbox[i] \in good /\ \A j \in Where(kind) : j <= i
  BY DEF LastWord
<1>2. i \in 1 .. Len(inbox) /\ inbox[i] \in kind /\ Len(inbox) \in Nat
  BY WherePlaces DEF Where
<1>3. \A j \in Where(kind)' : j + left \in Where(kind) /\ j \in Nat /\ j >= 1
  <2>1. \A j \in Where(kind)' : j \in 1 .. Len(inbox')
    BY DEF Where
  <2>. QED BY <2>1, WhereMoves
<1>4. CASE i > left
  <2>1. i - left \in Where(kind)' /\ inbox'[i - left] = inbox[i]
    BY <1>4, WhereMoves
  <2>2. \A j \in Where(kind)' : j <= i - left
    BY <1>1, <1>2, <1>3
  <2>. QED BY <1>1, <2>1, <2>2 DEF LastWord
<1>5. CASE ~(i > left)
  <2>1. left = 1 /\ i = 1
    BY <1>2, <1>5
  <2>2. Where(kind)' = {}
    BY <1>1, <1>3, <2>1
  <2>. QED BY <1>1, <1>2, <2>1, <2>2
<1>. QED BY <1>4, <1>5

LEMMA LastWordComes ==
  ASSUME TypeOK, NEW messages \in Seq(Message), NEW left \in {0, 1},
         Came(left, messages), NEW kind, NEW good,
         NEW j \in Among(messages, kind), messages[j] \in good,
         \A k \in Among(messages, kind) : k <= j
  PROVE  LastWord(kind, good)'
<1>1. /\ Len(inbox) - left + j \in Where(kind)'
      /\ inbox'[Len(inbox) - left + j] = messages[j]
  BY WhereMoves
<1>2. Len(inbox) \in Nat /\ j \in Nat /\ j >= 1
  BY WherePlaces DEF Among
<1>3. ASSUME NEW i \in Where(kind)' PROVE i <= Len(inbox) - left + j
  <2>1. i \in Nat
    BY DEF Where
  <2>2. CASE i <= Len(inbox) - left
    BY <1>2, <2>1, <2>2
  <2>3. ASSUME NEW k \in Among(messages, kind), i = Len(inbox) - left + k
        PROVE  i <= Len(inbox) - left + j
    <3>1. k <= j /\ k \in Nat
      BY DEF Among
    <3>. QED BY <1>2, <2>3, <3>1
  <2>. QED BY <2>2, <2>3, WhereMoves
<1>. QED BY <1>1, <1>3 DEF LastWord

----------------------------------------------------------------------------
(* What the events about a request say stays true. *)

Forward(r) ==
  /\ Reviewed(r) => /\ Reviewed(r)'
                    /\ request'[r].snapshot = request[r].snapshot
                    /\ request'[r].manager = request[r].manager
  /\ Accepted(r) => Accepted(r)'
  /\ Settled(r) => request'[r].status = request[r].status

LEMMA SettledIs ==
  ASSUME NEW s, s.type \in SettledEvents
  PROVE  SettledAs(s.type)
           \in {"APPROVED", "APPROVAL_FAILED", "DENIED", "CANCELED"}
BY DEF SettledAs, SettledEvents

LEMMA EventTyped ==
  ASSUME NEW s \in Signal, s.type \in EventTypes
  PROVE  s \in RequestEvent /\ s.request \in Request
<1>1. s \in RequestEvent
  BY SignalTypes DEF EventTypes, SubmittedEvents, SettledEvents
<1>. QED BY <1>1 DEF RequestEvent

LEMMA ToldStays ==
  ASSUME NEW s \in Signal, Told(s), \A r \in Request : Forward(r)
  PROVE  Told(s)'
<1>1. SUFFICES ASSUME s.type \in EventTypes PROVE Told(s)'
  BY DEF Told
<1>2. Forward(s.request)
  BY <1>1, EventTyped
<1>3. s.type \in SettledEvents => Settled(s.request)
  BY <1>1, SettledIs DEF Told, Settled
<1>. QED BY <1>1, <1>2, <1>3 DEF Told, Forward

LEMMA TellingKept ==
  ASSUME TypeOK, Telling, NEW messages \in Seq(Message), NEW left \in {0, 1},
         Came(left, messages), \A r \in Request : Forward(r),
         \A s \in SignalsOf(messages) : Told(s)'
  PROVE  Telling'
<1>1. InFlight' \subseteq InFlight \cup SignalsOf(messages)
  BY CameInFlight
<1>2. InFlight \subseteq Signal
  BY InFlightTyped
<1>. QED BY <1>1, <1>2, ToldStays DEF Telling

LEMMA WhereSays ==
  ASSUME NEW entity, NEW types, NEW r, NEW i \in Where(About(entity, types, r))
  PROVE  /\ inbox[i].signal \in InFlight /\ inbox[i].to = entity
         /\ inbox[i].signal.type \in types /\ inbox[i].signal.request = r
BY DEF Where, About, InFlight

(* Nothing is told of a request before it happens.                         *)
LEMMA NotYetTold ==
  ASSUME Telling, NEW r
  PROVE  /\ ~Reviewed(r) => /\ Where(Submissions(r)) = {}
                            /\ Where(Assignments(r)) = {}
         /\ ~Accepted(r) => Where(Approvals(r)) = {}
         /\ ~Settled(r) => /\ Where(Outcomes(r)) = {}
                           /\ Where(Closings(r)) = {}
<1>1. ASSUME NEW entity, NEW i \in Where(About(entity, SubmittedEvents, r))
      PROVE  Reviewed(r)
  BY <1>1, WhereSays DEF Telling, Told, EventTypes
<1>2. ASSUME NEW entity,
             NEW i \in Where(About(entity, {"AccessRequestApprovalStarted"}, r))
      PROVE  Accepted(r)
  BY <1>2, WhereSays DEF Telling, Told, EventTypes
<1>3. ASSUME NEW entity, NEW i \in Where(About(entity, SettledEvents, r))
      PROVE  Settled(r)
  <2>1. /\ inbox[i].signal.type \in SettledEvents
        /\ request[r].status = SettledAs(inbox[i].signal.type)
    BY <1>3, WhereSays DEF Telling, Told, EventTypes
  <2>. QED BY <2>1, SettledIs DEF Settled
<1>4. ASSUME NEW entity, ~Reviewed(r)
      PROVE  Where(About(entity, SubmittedEvents, r)) = {}
  BY <1>1, <1>4
<1>5. ASSUME NEW entity, ~Accepted(r)
      PROVE  Where(About(entity, {"AccessRequestApprovalStarted"}, r)) = {}
  BY <1>2, <1>5
<1>6. ASSUME NEW entity, ~Settled(r)
      PROVE  Where(About(entity, SettledEvents, r)) = {}
  BY <1>3, <1>6
<1>. QED BY <1>4, <1>5, <1>6
         DEF Submissions, Assignments, Approvals, Outcomes, Closings

----------------------------------------------------------------------------
(* The requester's view of a request, in a step that does not show a       *)
(* message to it. *)

Same(r) == request'[r] = request[r] \/ (~Reviewed(r) /\ ~Reviewed(r)')

LEMMA SameIsForward ==
  ASSUME NEW r, Same(r) PROVE Forward(r)
BY DEF Same, Forward, Reviewed, Accepted, Settled

(* The messages that the view of a request takes. *)
Shows(r) == Submissions(r) \cup Approvals(r) \cup Outcomes(r)

(* A step that the view of a request shows later, or nothing of.           *)
Later(left, messages, r) ==
  /\ requestView'[r] = requestView[r]
  /\ left = 0 \/ inbox[1] \notin Shows(r)

LEMMA SameRequestView ==
  ASSUME TypeOK, NEW messages \in Seq(Message), NEW left \in {0, 1},
         Came(left, messages), NEW r, RequestShown(r), DeciderKnown(r),
         Same(r), Later(left, messages, r), Among(messages, Shows(r)) = {}
  PROVE  RequestShown(r)' /\ DeciderKnown(r)'
<1>1. /\ Calm(left, messages, Submissions(r))
      /\ Calm(left, messages, Approvals(r))
      /\ Calm(left, messages, Outcomes(r))
  BY DEF Calm, Later, Shows, Among
<1>2. /\ Where(Submissions(r))' = {} <=> Where(Submissions(r)) = {}
      /\ Where(Approvals(r))' = {} <=> Where(Approvals(r)) = {}
      /\ Where(Outcomes(r))' = {} <=> Where(Outcomes(r)) = {}
  BY <1>1, CalmWhere
<1>3. Before(Submissions(r), Outcomes(r))'
  BY <1>1, BeforeKept DEF RequestShown, Calm
<1>4. CASE request'[r] = request[r]
  BY <1>2, <1>3, <1>4 DEF RequestShown, DeciderKnown, Later, Reviewed,
                          Settled, Accepted
<1>5. CASE ~Reviewed(r) /\ ~Reviewed(r)'
  BY <1>3, <1>5 DEF RequestShown, DeciderKnown, Later, Reviewed, Settled,
                    Accepted
<1>. QED BY <1>4, <1>5 DEF Same

LEMMA SubmissionShown ==
  ASSUME TypeOK, Telling, NEW messages \in Seq(Message), NEW left \in {0, 1},
         Came(left, messages), NEW r, RequestShown(r), DeciderKnown(r),
         ~Reviewed(r), request'[r].status = "PENDING",
         Later(left, messages, r), Among(messages, Submissions(r)) # {},
         Among(messages, Outcomes(r)) = {}
  PROVE  RequestShown(r)' /\ DeciderKnown(r)'
<1>1. Where(Submissions(r))' # {}
  BY SomeComes
<1>2. Before(Submissions(r), Outcomes(r))'
  <2>1. Where(Outcomes(r)) = {}
    BY NotYetTold DEF Reviewed, Settled
  <2>. QED BY <2>1, BeforeKept DEF RequestShown
<1>. QED BY <1>1, <1>2 DEF RequestShown, DeciderKnown, Later, Reviewed,
                           Settled, Accepted

LEMMA ApprovalShown ==
  ASSUME TypeOK, Telling, NEW messages \in Seq(Message), NEW left \in {0, 1},
         Came(left, messages), NEW r, RequestShown(r), DeciderKnown(r),
         request[r].status = "PENDING",
         request'[r].status = "APPROVAL_STARTED",
         request'[r].snapshot = request[r].snapshot,
         Later(left, messages, r), Among(messages, Approvals(r)) # {},
         Among(messages, Submissions(r)) = {}
  PROVE  RequestShown(r)' /\ DeciderKnown(r)'
<1>1. Where(Approvals(r))' # {}
  BY SomeComes
<1>2. Where(Submissions(r)) # {} => Where(Submissions(r))' # {}
  BY SomeStays DEF Later, Shows
<1>3. Before(Submissions(r), Outcomes(r))'
  BY BeforeKept DEF RequestShown
<1>. QED BY <1>1, <1>2, <1>3 DEF RequestShown, DeciderKnown, Later, Reviewed,
                                 Settled, Accepted

LEMMA OutcomeShown ==
  ASSUME TypeOK, Telling, NEW messages \in Seq(Message), NEW left \in {0, 1},
         Came(left, messages), NEW r, RequestShown(r), DeciderKnown(r),
         ~Settled(r), Settled(r)', Accepted(r)' <=> Accepted(r),
         Later(left, messages, r), Among(messages, Outcomes(r)) # {},
         Among(messages, Submissions(r)) = {}
  PROVE  RequestShown(r)' /\ DeciderKnown(r)'
<1>1. Where(Outcomes(r))' # {}
  BY SomeComes
<1>2. Where(Approvals(r)) # {} => Where(Approvals(r))' # {}
  BY SomeStays DEF Later, Shows
<1>3. Before(Submissions(r), Outcomes(r))'
  BY BeforeKept DEF RequestShown
<1>4. Reviewed(r)'
  BY DEF Reviewed, Settled
<1>5. request[r].status # "DENIED"
  BY DEF Settled
<1>. QED BY <1>1, <1>2, <1>3, <1>4, <1>5 DEF RequestShown, DeciderKnown, Later

----------------------------------------------------------------------------
(* The requester's view, when a message is shown to it. *)

LEMMA SubmissionTaken ==
  ASSUME TypeOK, TypeOK', Telling, NEW left \in {0, 1}, Came(left, <<>>),
         NEW r \in Request, RequestShown(r), DeciderKnown(r),
         inbox # <<>>, inbox[1] \in Submissions(r),
         request'[r] = request[r],
         requestView'[r].status = "PENDING",
         requestView'[r].snapshot = inbox[1].signal.snapshot,
         requestView'[r].decidedBy = requestView[r].decidedBy
  PROVE  RequestShown(r)' /\ DeciderKnown(r)'
<1>1. <<>> \in Seq(Message) /\ \A kind : Among(<<>>, kind) = {}
  BY DEF Among
<1>2. 1 \in Where(Submissions(r))
  BY LenProperties, EmptySeq DEF Where, TypeOK
<1>3. /\ inbox[1].signal \in InFlight /\ inbox[1].to = "RequestView"
      /\ inbox[1].signal.type \in SubmittedEvents
      /\ inbox[1].signal.request = r
  BY <1>2, WhereSays DEF Submissions
<1>4. Reviewed(r) /\ inbox[1].signal.snapshot = request[r].snapshot
  BY <1>3 DEF Telling, Told, EventTypes
<1>5. inbox[1] \notin Approvals(r) /\ inbox[1] \notin Outcomes(r)
  BY <1>3 DEF Approvals, Outcomes, About, SubmittedEvents, SettledEvents
<1>6. /\ Where(Approvals(r))' = {} <=> Where(Approvals(r)) = {}
      /\ Where(Outcomes(r))' = {} <=> Where(Outcomes(r)) = {}
  BY <1>1, <1>5, CalmWhere DEF Calm
<1>7. Before(Submissions(r), Outcomes(r))'
  BY <1>1, BeforeKept DEF RequestShown
<1>8. Settled(r) => Where(Outcomes(r)) # {}
  BY <1>2 DEF RequestShown
<1>. QED BY <1>4, <1>6, <1>7, <1>8
         DEF RequestShown, DeciderKnown, Reviewed, Settled, Accepted

LEMMA ApprovalTaken ==
  ASSUME TypeOK, TypeOK', Telling, NEW left \in {0, 1}, Came(left, <<>>),
         NEW r \in Request, RequestShown(r), DeciderKnown(r),
         inbox # <<>>, inbox[1] \in Approvals(r),
         request'[r] = request[r],
         requestView'[r].status = requestView[r].status,
         requestView'[r].snapshot = requestView[r].snapshot,
         requestView'[r].decidedBy = inbox[1].signal.decidedBy
  PROVE  RequestShown(r)' /\ DeciderKnown(r)'
<1>1. <<>> \in Seq(Message) /\ \A kind : Among(<<>>, kind) = {}
  BY DEF Among
<1>2. 1 \in Where(Approvals(r))
  BY LenProperties, EmptySeq DEF Where, TypeOK
<1>3. /\ inbox[1].signal \in InFlight
      /\ inbox[1].signal.type = "AccessRequestApprovalStarted"
      /\ inbox[1].signal.request = r
  BY <1>2, WhereSays DEF Approvals
<1>4. Accepted(r) /\ inbox[1].signal.decidedBy # NoPerson
  BY <1>3 DEF Telling, Told, EventTypes
<1>5. inbox[1] \notin Submissions(r) /\ inbox[1] \notin Outcomes(r)
  BY <1>3 DEF Submissions, Outcomes, About, SubmittedEvents, SettledEvents
<1>6. /\ Where(Submissions(r))' = {} <=> Where(Submissions(r)) = {}
      /\ Where(Outcomes(r))' = {} <=> Where(Outcomes(r)) = {}
  BY <1>1, <1>5, CalmWhere DEF Calm
<1>7. Before(Submissions(r), Outcomes(r))'
  BY <1>1, BeforeKept DEF RequestShown
<1>. QED BY <1>4, <1>6, <1>7
         DEF RequestShown, DeciderKnown, Reviewed, Settled, Accepted

LEMMA OutcomeTaken ==
  ASSUME TypeOK, TypeOK', Telling, NEW left \in {0, 1}, Came(left, <<>>),
         NEW r \in Request, RequestShown(r), DeciderKnown(r),
         inbox # <<>>, inbox[1] \in Outcomes(r),
         request'[r] = request[r],
         requestView'[r].status = SettledAs(inbox[1].signal.type),
         requestView'[r].snapshot = inbox[1].signal.snapshot,
         requestView'[r].decidedBy
           = DeciderShown(requestView[r], inbox[1].signal)
  PROVE  RequestShown(r)' /\ DeciderKnown(r)'
<1>1. <<>> \in Seq(Message) /\ \A kind : Among(<<>>, kind) = {}
  BY DEF Among
<1>2. 1 \in Where(Outcomes(r))
  BY LenProperties, EmptySeq DEF Where, TypeOK
<1>. DEFINE type == inbox[1].signal.type
<1>3. /\ inbox[1].signal \in InFlight /\ type \in SettledEvents
      /\ inbox[1].signal.request = r
  BY <1>2, WhereSays DEF Outcomes
<1>4. /\ request[r].status = SettledAs(type)
      /\ inbox[1].signal.snapshot = request[r].snapshot
      /\ type = "AccessRequestDenied" => inbox[1].signal.decidedBy # NoPerson
  BY <1>3 DEF Telling, Told, EventTypes
<1>5. Settled(r) /\ Reviewed(r)
  BY <1>3, <1>4, SettledIs DEF Settled, Reviewed
<1>6. request[r].status = "DENIED" <=> type = "AccessRequestDenied"
  BY <1>3, <1>4 DEF SettledAs, SettledEvents
<1>7. inbox[1] \notin Approvals(r)
  BY <1>3 DEF Approvals, About, SettledEvents
<1>8. Where(Approvals(r))' = {} <=> Where(Approvals(r)) = {}
  BY <1>1, <1>7, CalmWhere DEF Calm
<1>9. Where(Submissions(r))' = {}
  <2>1. Where(Submissions(r)) = {}
    BY FirstIsLate DEF RequestShown
  <2>. QED BY <1>1, <2>1, NoneComes
<1>10. Before(Submissions(r), Outcomes(r))'
  BY <1>9 DEF Before
<1>11. RequestShown(r)'
  BY <1>4, <1>5, <1>9, <1>10 DEF RequestShown, Reviewed, Settled
<1>12. DeciderKnown(r)'
  BY <1>4, <1>5, <1>6, <1>8 DEF DeciderKnown, DeciderShown, Accepted, Settled
<1>. QED BY <1>11, <1>12

----------------------------------------------------------------------------
(* The queue of a manager, in a step that takes no message about the       *)
(* request to it. *)

Takes(r) == Assignments(r) \cup Closings(r)

Unmoved(left, p, r) ==
  /\ \A t \in Task : t.request = r => (t \in task'[p] <=> t \in task[p])
  /\ left = 0 \/ inbox[1] \notin Takes(r)

Waiting(r) == request[r].status = "PENDING"

LEMMA QueueTyped ==
  ASSUME TypeOK, TypeOK', NEW p \in Person
  PROVE  task[p] \subseteq Task /\ task'[p] \subseteq Task
BY DEF TypeOK

LEMMA SameAssigning ==
  ASSUME TypeOK, NEW messages \in Seq(Message), NEW left \in {0, 1},
         Came(left, messages), NEW r, Assigning(r), Same(r),
         left = 0 \/ inbox[1] \notin Takes(r), Among(messages, Takes(r)) = {}
  PROVE  Assigning(r)'
<1>1. /\ Calm(left, messages, Assignments(r))
      /\ Calm(left, messages, Closings(r))
  BY DEF Calm, Takes, Among
<1>2. /\ Where(Assignments(r))' = {} <=> Where(Assignments(r)) = {}
      /\ Where(Closings(r))' = {} <=> Where(Closings(r)) = {}
  BY <1>1, CalmWhere
<1>3. Before(Assignments(r), Closings(r))'
  BY <1>1, BeforeKept DEF Assigning, Calm
<1>4. Settled(r)' => Settled(r)
  BY DEF Same, Settled, Reviewed
<1>. QED BY <1>2, <1>3, <1>4 DEF Assigning

LEMMA SameQueue ==
  ASSUME TypeOK, TypeOK', NEW messages \in Seq(Message), NEW left \in {0, 1},
         Came(left, messages), NEW r, NEW p \in Person, QueueShown(p, r),
         Same(r), Unmoved(left, p, r), Among(messages, Takes(r)) = {},
         Waiting(r) /\ Lost(r) => Lost(r)'
  PROVE  QueueShown(p, r)'
<1>1. /\ Calm(left, messages, Assignments(r))
      /\ Calm(left, messages, Closings(r))
  BY DEF Calm, Takes, Among, Unmoved
<1>2. /\ Where(Assignments(r))' = {} <=> Where(Assignments(r)) = {}
      /\ Where(Closings(r))' = {} <=> Where(Closings(r)) = {}
  BY <1>1, CalmWhere
<1>3. \A t \in task'[p] : t.request = r => t \in task[p]
  BY QueueTyped DEF Unmoved
<1>4. Queued(p, r)' <=> Queued(p, r)
  BY QueueTyped DEF Unmoved, Queued
<1>5. CASE request'[r] = request[r]
  BY <1>2, <1>3, <1>4, <1>5 DEF QueueShown, Reviewed, Settled, Waiting
<1>6. CASE ~Reviewed(r) /\ ~Reviewed(r)'
  BY <1>3, <1>6 DEF QueueShown, Reviewed, Settled
<1>. QED BY <1>5, <1>6 DEF Same

LEMMA SubmissionQueued ==
  ASSUME TypeOK, TypeOK', Telling, NEW messages \in Seq(Message),
         NEW left \in {0, 1}, Came(left, messages), NEW r, Assigning(r),
         ~Reviewed(r), request'[r].status = "PENDING",
         Among(messages, Assignments(r)) # {},
         Among(messages, Closings(r)) = {}
  PROVE  /\ Assigning(r)'
         /\ \A p \in Person : QueueShown(p, r) /\ Unmoved(left, p, r)
              => QueueShown(p, r)'
<1>1. Where(Assignments(r))' # {}
  BY SomeComes
<1>2. Before(Assignments(r), Closings(r))'
  <2>1. Where(Closings(r)) = {}
    BY NotYetTold DEF Reviewed, Settled
  <2>. QED BY <2>1, BeforeKept DEF Assigning
<1>3. ~Settled(r)'
  BY DEF Settled
<1>4. ASSUME NEW p \in Person, QueueShown(p, r), Unmoved(left, p, r)
      PROVE  QueueShown(p, r)'
  <2>1. \A t \in task'[p] : t.request # r
    BY <1>4, QueueTyped DEF Unmoved, QueueShown
  <2>. QED BY <1>1, <1>3, <2>1 DEF QueueShown
<1>. QED BY <1>1, <1>2, <1>3, <1>4 DEF Assigning

LEMMA DecisionQueued ==
  ASSUME TypeOK, TypeOK', NEW messages \in Seq(Message), NEW left \in {0, 1},
         Came(left, messages), NEW r, Assigning(r),
         ~Settled(r), request'[r].status # "PENDING", Reviewed(r)',
         request'[r].snapshot = request[r].snapshot,
         request'[r].manager = request[r].manager,
         Settled(r)' => Among(messages, Closings(r)) # {},
         Among(messages, Assignments(r)) = {}
  PROVE  /\ Assigning(r)'
         /\ \A p \in Person : QueueShown(p, r) /\ Unmoved(left, p, r)
              => QueueShown(p, r)'
<1>1. Settled(r)' => Where(Closings(r))' # {}
  BY SomeComes
<1>2. Before(Assignments(r), Closings(r))'
  BY BeforeKept DEF Assigning
<1>3. ASSUME NEW p \in Person, QueueShown(p, r), Unmoved(left, p, r)
      PROVE  QueueShown(p, r)'
  <2>1. \A t \in task'[p] : t.request = r => t \in task[p]
    BY <1>3, QueueTyped DEF Unmoved
  <2>. QED BY <1>1, <1>3, <2>1 DEF QueueShown
<1>. QED BY <1>1, <1>2, <1>3 DEF Assigning

----------------------------------------------------------------------------
(* The queues, when a message is taken to them. *)

LEMMA AssignmentTaken ==
  ASSUME TypeOK, TypeOK', Telling, NEW left \in {0, 1}, Came(left, <<>>),
         NEW r \in Request, Assigning(r), request'[r] = request[r],
         inbox # <<>>, inbox[1] \in Assignments(r),
         NEW assigned, assigned.request = r,
         assigned.snapshot = inbox[1].signal.snapshot,
         \A p \in Person : task'[p] =
           IF p \in inbox[1].signal.manager /\ \A t \in task[p] : t.request # r
           THEN task[p] \cup {assigned} ELSE task[p]
  PROVE  /\ Assigning(r)'
         /\ \A p \in Person : QueueShown(p, r) => QueueShown(p, r)'
<1>1. <<>> \in Seq(Message) /\ \A kind : Among(<<>>, kind) = {}
  BY DEF Among
<1>2. 1 \in Where(Assignments(r))
  BY LenProperties, EmptySeq DEF Where, TypeOK
<1>3. /\ inbox[1].signal \in InFlight
      /\ inbox[1].signal.type \in SubmittedEvents
      /\ inbox[1].signal.request = r
  BY <1>2, WhereSays DEF Assignments
<1>4. /\ Reviewed(r) /\ inbox[1].signal.snapshot = request[r].snapshot
      /\ inbox[1].signal.manager = request[r].manager
  BY <1>3 DEF Telling, Told, EventTypes
<1>5. inbox[1] \notin Closings(r)
  BY <1>3 DEF Closings, About, SubmittedEvents, SettledEvents
<1>6. Where(Closings(r))' = {} <=> Where(Closings(r)) = {}
  BY <1>1, <1>5, CalmWhere DEF Calm
<1>7. Before(Assignments(r), Closings(r))'
  BY <1>1, BeforeKept DEF Assigning
<1>8. Settled(r) => Where(Closings(r)) # {}
  BY <1>2 DEF Assigning
<1>9. ASSUME NEW p \in Person, QueueShown(p, r) PROVE QueueShown(p, r)'
  <2>1. /\ request[r].status = "PENDING" /\ p \in request[r].manager =>
             Queued(p, r)'
        /\ \A t \in task'[p] : t.request = r =>
             /\ p \in request[r].manager
             /\ t.snapshot = request[r].snapshot
    BY <1>4, <1>9 DEF QueueShown, Queued
  <2>. QED BY <1>4, <1>6, <1>8, <2>1 DEF QueueShown, Reviewed, Settled
<1>. QED BY <1>6, <1>7, <1>8, <1>9 DEF Assigning, Settled

LEMMA ClosingTaken ==
  ASSUME TypeOK, TypeOK', Telling, NEW left \in {0, 1}, Came(left, <<>>),
         NEW r \in Request, Assigning(r), request'[r] = request[r],
         inbox # <<>>, inbox[1] \in Closings(r),
         \A p \in Person : task'[p] =
           IF p \in inbox[1].signal.manager
           THEN {t \in task[p] : t.request # r} ELSE task[p]
  PROVE  /\ Assigning(r)'
         /\ \A p \in Person : QueueShown(p, r) => QueueShown(p, r)'
<1>1. <<>> \in Seq(Message) /\ \A kind : Among(<<>>, kind) = {}
  BY DEF Among
<1>2. 1 \in Where(Closings(r))
  BY LenProperties, EmptySeq DEF Where, TypeOK
<1>. DEFINE type == inbox[1].signal.type
<1>3. /\ inbox[1].signal \in InFlight /\ type \in SettledEvents
      /\ inbox[1].signal.request = r
  BY <1>2, WhereSays DEF Closings
<1>4. /\ request[r].status = SettledAs(type)
      /\ inbox[1].signal.manager = request[r].manager
  BY <1>3 DEF Telling, Told, EventTypes
<1>5. request[r].status # "PENDING"
  BY <1>3, <1>4, SettledIs
<1>6. Where(Assignments(r))' = {}
  <2>1. Where(Assignments(r)) = {}
    BY FirstIsLate DEF Assigning
  <2>. QED BY <1>1, <2>1, NoneComes
<1>7. ASSUME NEW p \in Person, QueueShown(p, r) PROVE QueueShown(p, r)'
  <2>1. \A t \in task'[p] : t.request # r
    BY <1>4, <1>7 DEF QueueShown
  <2>. QED BY <1>5, <2>1 DEF QueueShown, Queued
<1>. QED BY <1>6, <1>7 DEF Assigning, Before

(* The extension of a revoked grant leaves the queues.                     *)
LEMMA DroppingTaken ==
  ASSUME IInv, IInv', NEW left \in {0, 1}, Came(left, <<>>),
         NEW r \in Request, Assigning(r), request'[r] = request[r],
         NEW g, inbox # <<>>, inbox[1] \in Droppings(g), Announced(g),
         grantView' = grantView,
         \A p \in Person : task'[p] =
           IF p \in inbox[1].signal.manager
           THEN {t \in task[p] : ~ExtensionOf(t.snapshot, g)} ELSE task[p]
  PROVE  /\ Assigning(r)'
         /\ \A p \in Person : QueueShown(p, r) => QueueShown(p, r)'
<1>1. /\ <<>> \in Seq(Message) /\ \A kind : Among(<<>>, kind) = {}
      /\ TypeOK /\ TypeOK'
  BY DEF Among, IInv
<1>2. inbox[1].signal.type = "AccessGrantRevoked" /\ inbox[1].to = "Decisions"
  BY DEF Droppings, OfGrant
<1>3. inbox[1] \notin Takes(r) /\ \A h : inbox[1] \notin Revocations(h)
  BY <1>2 DEF Takes, Assignments, Closings, About, SubmittedEvents,
              SettledEvents, Revocations, OfGrant
<1>4. Same(r)
  BY DEF Same
<1>5. Assigning(r)'
  BY <1>1, <1>3, <1>4, SameAssigning
<1>6. /\ Where(Assignments(r))' = {} <=> Where(Assignments(r)) = {}
      /\ Where(Closings(r))' = {} <=> Where(Closings(r)) = {}
  BY <1>1, <1>3, CalmWhere DEF Calm, Takes
<1>7. Where(Revocations(g))' # {}
  <2>1. 1 \in Where(Droppings(g))
    BY <1>1, LenProperties, EmptySeq DEF Where, TypeOK
  <2>2. Where(Revocations(g)) # {}
    BY <2>1 DEF Announced
  <2>. QED BY <1>1, <1>3, <2>2, SomeStays
<1>8. ASSUME Lost(r) PROVE Lost(r)'
  <2>. PICK h : h = request[r].snapshot.grant
    OBVIOUS
  <2>1. Where(Revocations(h)) # {} => Where(Revocations(h))' # {}
    BY <1>1, <1>3, SomeStays
  <2>. QED BY <1>8, <2>1 DEF Lost, SaysExtension, Where
<1>9. ASSUME NEW p \in Person, QueueShown(p, r) PROVE QueueShown(p, r)'
  <2>1. \A t \in task'[p] : t \in task[p]
    OBVIOUS
  <2>2. ASSUME request[r].status = "PENDING", Queued(p, r)
        PROVE  Queued(p, r)' \/ Lost(r)'
    <3>1. PICK t \in task[p] : t.request = r
      BY <2>2 DEF Queued
    <3>2. CASE t \in task'[p]
      BY <3>1, <3>2 DEF Queued
    <3>3. CASE t \notin task'[p]
      <4>1. ExtensionOf(request[r].snapshot, g)
        BY <1>9, <3>1, <3>3 DEF QueueShown
      <4>2. request[r].snapshot \in Snapshot
        BY <2>2 DEF IInv, SubmittedSaySomething
      <4>3. SaysExtension(r)
        BY <4>1, <4>2 DEF ExtensionOf, SaysExtension, Snapshot, NewSnapshot
      <4>. QED BY <1>7, <4>1, <4>3 DEF Lost, SaysExtension, ExtensionOf
    <3>. QED BY <3>2, <3>3
  <2>3. Queued(p, r)' => Queued(p, r)
    BY <2>1 DEF Queued
  <2>. QED BY <1>6, <1>8, <1>9, <2>1, <2>2, <2>3
           DEF QueueShown, Reviewed, Settled
<1>. QED BY <1>5, <1>9

----------------------------------------------------------------------------
(* The order in which a grant and an extension of it are shown. *)

(* How a step may change an extension request, and what it may give.       *)
Links(messages, r) ==
  /\ SaysExtension(r)' =>
       \/ /\ SaysExtension(r)
          /\ request'[r].snapshot.grant = request[r].snapshot.grant
       \/ ~Reviewed(r)' /\ Checks(r) = {} /\ GivenChecks(messages, r) = {}
  /\ Reviewed(r)' => Reviewed(r) \/ ~SaysExtension(r) \/ 1 \in Checks(r)
  /\ SaysExtension(r)
       /\ Among(messages, Creations(request[r].snapshot.grant)) # {}
       => ~Reviewed(r)' /\ Checks(r) = {} /\ GivenChecks(messages, r) = {}

LEMMA NoChecks ==
  ASSUME TypeOK, NEW messages \in Seq(Message), NEW left \in {0, 1},
         Came(left, messages), NEW r,
         Checks(r) = {}, GivenChecks(messages, r) = {}
  PROVE  Checks(r)' = {}
BY PlacesMove DEF Checks, GivenChecks

LEMMA ShownFirstKept ==
  ASSUME TypeOK, TypeOK', NEW messages \in Seq(Message), NEW left \in {0, 1},
         Came(left, messages), NEW r, ShownFirst(r), Links(messages, r)
  PROVE  ShownFirst(r)'
<1>. PICK g : g = request[r].snapshot.grant
  OBVIOUS
<1>1. CASE SaysExtension(r) /\ request'[r].snapshot.grant = g
  <2>1. CASE Among(messages, Creations(g)) # {}
    <3>1. ~Reviewed(r)' /\ Checks(r)' = {}
      BY <1>1, <2>1, NoChecks DEF Links
    <3>. QED BY <3>1 DEF ShownFirst
  <2>2. CASE Among(messages, Creations(g)) = {}
    <3>1. ASSUME Reviewed(r)' PROVE Where(Creations(g))' = {}
      <4>1. CASE Reviewed(r)
        <5>1. Where(Creations(g)) = {}
          BY <1>1, <4>1 DEF ShownFirst
        <5>. QED BY <2>2, <5>1, NoneComes
      <4>2. CASE 1 \in Checks(r)
        <5>1. \A j \in Where(Creations(g)) : j < 1
          BY <1>1, <4>2 DEF ShownFirst
        <5>2. \A j \in Where(Creations(g)) : j \in Nat /\ j >= 1
          BY WherePlaces
        <5>3. Where(Creations(g)) = {}
          BY <5>1, <5>2
        <5>. QED BY <2>2, <5>3, NoneComes
      <4>. QED BY <1>1, <3>1, <4>1, <4>2 DEF Links
    <3>2. ASSUME NEW i \in Checks(r)', NEW j \in Where(Creations(g))'
          PROVE  j < i
      <4>1. /\ j + left \in Where(Creations(g)) /\ j <= Len(inbox) - left
            /\ j \in Nat /\ i \in Nat /\ Len(inbox) \in Nat
        <5>1. j \in Nat /\ i \in Nat
          BY DEF Where, Checks, Places
        <5>2. Len(inbox) \in Nat
          BY WherePlaces
        <5>. QED BY <2>2, <5>1, <5>2, WhereMoves
      <4>2. CASE i + left \in Checks(r)
        <5>1. j + left < i + left
          BY <1>1, <4>1, <4>2 DEF ShownFirst
        <5>. QED BY <4>1, <5>1
      <4>3. ASSUME NEW k \in GivenChecks(messages, r),
                   i = Len(inbox) - left + k
            PROVE  j < i
        <5>1. k \in Nat /\ k >= 1
          BY DEF GivenChecks, Given
        <5>. QED BY <4>1, <4>3, <5>1
      <4>. QED BY <4>2, <4>3, PlacesMove DEF Checks, GivenChecks
    <3>. QED BY <1>1, <3>1, <3>2 DEF ShownFirst, Where
  <2>. QED BY <2>1, <2>2
<1>2. CASE ~Reviewed(r)' /\ Checks(r) = {} /\ GivenChecks(messages, r) = {}
  <2>1. Checks(r)' = {}
    BY <1>2, NoChecks
  <2>. QED BY <1>2, <2>1 DEF ShownFirst
<1>. QED BY <1>1, <1>2 DEF Links, ShownFirst

Announces(messages, g) ==
  \A i \in Among(messages, Droppings(g)) :
    \E j \in Among(messages, Revocations(g)) : i < j

LEMMA AnnouncedKept ==
  ASSUME TypeOK, NEW messages \in Seq(Message), NEW left \in {0, 1},
         Came(left, messages), NEW g, Announced(g), Announces(messages, g)
  PROVE  Announced(g)'
<1>1. Len(inbox) \in Nat
  BY WherePlaces
<1>2. ASSUME NEW i \in Where(Droppings(g))'
      PROVE  \E j \in Where(Revocations(g))' : i < j
  <2>1. i \in Nat /\ i >= 1
    BY DEF Where
  <2>2. CASE i + left \in Where(Droppings(g))
    <3>1. PICK j \in Where(Revocations(g)) : i + left < j
      BY <2>2 DEF Announced
    <3>2. j \in Nat
      BY WherePlaces
    <3>3. j > left /\ i < j - left
      BY <2>1, <3>1, <3>2
    <3>. QED BY <3>3, WhereMoves
  <2>3. ASSUME NEW k \in Among(messages, Droppings(g)),
               i = Len(inbox) - left + k
        PROVE  \E j \in Where(Revocations(g))' : i < j
    <3>1. PICK j \in Among(messages, Revocations(g)) : k < j
      BY DEF Announces
    <3>2. k \in Nat /\ j \in Nat
      BY DEF Among
    <3>3. i < Len(inbox) - left + j
      BY <1>1, <2>3, <3>1, <3>2
    <3>. QED BY <3>3, WhereMoves
  <2>. QED BY <2>2, <2>3, WhereMoves
<1>. QED BY <1>2 DEF Announced

----------------------------------------------------------------------------
(* The steps that show nothing to the requesters and the managers. *)

LEMMA NoneAmong ==
  ASSUME NEW messages \in Seq(Message),
         \A j \in 1 .. Len(messages) : messages[j].signal.type \notin EventTypes
  PROVE  /\ \A r : /\ Among(messages, Shows(r)) = {}
                   /\ Among(messages, Takes(r)) = {}
         /\ \A s \in SignalsOf(messages) : Told(s)'
<1>1. \A r : Among(messages, Shows(r)) = {} /\ Among(messages, Takes(r)) = {}
  BY DEF Among, Shows, Takes, Submissions, Approvals, Outcomes, Assignments,
         Closings, About, EventTypes
<1>2. \A s \in SignalsOf(messages) : s.type \notin EventTypes
  BY DEF SignalsOf
<1>. QED BY <1>1, <1>2 DEF Told

LEMMA NotShown ==
  ASSUME inbox[1].to \notin {"RequestView", "Decisions"}
  PROVE  \A r : inbox[1] \notin Shows(r) /\ inbox[1] \notin Takes(r)
BY DEF Shows, Takes, Submissions, Approvals, Outcomes, Assignments, Closings,
       About

LEMMA UnshownViews ==
  ASSUME IInv, IInv', VInv, NEW messages \in Seq(Message),
         NEW left \in {0, 1}, Came(left, messages),
         \A r \in Request : Same(r),
         UNCHANGED <<requestView, task>>,
         left = 0 \/ inbox[1].to \notin {"RequestView", "Decisions"},
         \A j \in 1 .. Len(messages) :
           messages[j].signal.type \notin EventTypes,
         \A r \in Request : Waiting(r) /\ Lost(r) => Lost(r)',
         \A r \in Request : Links(messages, r) /\ Announces(messages, r)
  PROVE  VInv'
<1>1. /\ TypeOK /\ TypeOK' /\ Telling
      /\ \A r \in Request : Forward(r)
  BY SameIsForward DEF IInv, VInv
<1>2. Telling'
  BY <1>1, NoneAmong, TellingKept
<1>3. ASSUME NEW r \in Request
      PROVE  /\ RequestShown(r)' /\ DeciderKnown(r)'
             /\ Assigning(r)' /\ ShownFirst(r)' /\ Announced(r)'
             /\ \A p \in Person : QueueShown(p, r)'
  <2>1. /\ RequestShown(r) /\ DeciderKnown(r) /\ Assigning(r)
        /\ ShownFirst(r) /\ Announced(r)
        /\ \A p \in Person : QueueShown(p, r)
    BY DEF VInv
  <2>2. Among(messages, Shows(r)) = {} /\ Among(messages, Takes(r)) = {}
    BY NoneAmong
  <2>3. /\ Later(left, messages, r) /\ (left = 0 \/ inbox[1] \notin Takes(r))
        /\ \A p \in Person : Unmoved(left, p, r)
    BY NotShown DEF Later, Unmoved
  <2>4. RequestShown(r)' /\ DeciderKnown(r)'
    BY <1>1, <2>1, <2>2, <2>3, SameRequestView
  <2>5. Assigning(r)'
    BY <1>1, <2>1, <2>2, <2>3, SameAssigning
  <2>6. \A p \in Person : QueueShown(p, r)'
    BY <1>1, <2>1, <2>2, <2>3, SameQueue
  <2>7. ShownFirst(r)' /\ Announced(r)'
    BY <1>1, <2>1, ShownFirstKept, AnnouncedKept
  <2>. QED BY <2>4, <2>5, <2>6, <2>7
<1>. QED BY <1>2, <1>3 DEF VInv

LEMMA LostKept ==
  ASSUME TypeOK, NEW messages \in Seq(Message), NEW left \in {0, 1},
         Came(left, messages), NEW r, Lost(r), request'[r] = request[r],
         NEW g, g = request[r].snapshot.grant,
         grantView[g].revoked => grantView'[g].revoked,
         left = 0 \/ inbox[1] \notin Revocations(g) \/ grantView'[g].revoked
  PROVE  Lost(r)'
<1>1. Where(Revocations(g)) # {} =>
        Where(Revocations(g))' # {} \/ grantView'[g].revoked
  BY SomeStays
<1>. QED BY <1>1 DEF Lost, SaysExtension, Where

LEMMA QuietViews ==
  ASSUME IInv, IInv', VInv, NEW messages \in Seq(Message),
         NEW left \in {0, 1}, Came(left, messages),
         \A r \in Request : Same(r),
         UNCHANGED <<requestView, task, grantView>>,
         left = 0 \/ inbox[1].to \in {"AccessRequest", "ResourceAccess"},
         \A j \in 1 .. Len(messages) :
           messages[j].signal.type \notin EventTypes,
         \A r \in Request : Links(messages, r) /\ Announces(messages, r)
  PROVE  VInv'
<1>1. ASSUME NEW r \in Request, Waiting(r), Lost(r) PROVE Lost(r)'
  <2>1. request'[r] = request[r]
    BY <1>1 DEF Same, Waiting, Reviewed
  <2>2. \A g : left = 0 \/ inbox[1] \notin Revocations(g)
    BY DEF Revocations, OfGrant
  <2>. QED BY <1>1, <2>1, <2>2, LostKept DEF IInv
<1>2. left = 0 \/ inbox[1].to \notin {"RequestView", "Decisions"}
  OBVIOUS
<1>. QED BY <1>1, <1>2, UnshownViews

(* Neither does the request change, nor is a new grant told of.            *)
IdleTypes == EventTypes \cup {"AccessGrantCreated", "AccessGrantRevoked"}

LEMMA IdleLinks ==
  ASSUME UNCHANGED request, NEW messages \in Seq(Message),
         \A j \in 1 .. Len(messages) : messages[j].signal.type \notin IdleTypes
  PROVE  /\ \A r : Links(messages, r) /\ Announces(messages, r)
         /\ \A j \in 1 .. Len(messages) :
              messages[j].signal.type \notin EventTypes
<1>1. \A g : Among(messages, Creations(g)) = {}
  BY DEF Among, Creations, OfGrant, IdleTypes
<1>2. \A g : Among(messages, Droppings(g)) = {}
  BY DEF Among, Droppings, OfGrant, IdleTypes
<1>3. \A r : Links(messages, r)
  BY <1>1 DEF Links, SaysExtension, Reviewed
<1>. QED BY <1>2, <1>3 DEF Announces, IdleTypes

LEMMA IdleViews ==
  ASSUME IInv, IInv', VInv, NEW messages \in Seq(Message),
         NEW left \in {0, 1}, Came(left, messages),
         UNCHANGED <<request, requestView, task, grantView>>,
         left = 0 \/ inbox[1].to \in {"AccessRequest", "ResourceAccess"},
         \A j \in 1 .. Len(messages) : messages[j].signal.type \notin IdleTypes
  PROVE  VInv'
<1>1. \A r \in Request : Same(r)
  BY DEF Same
<1>. QED BY <1>1, IdleLinks, QuietViews

LEMMA NoneGivenViews ==
  ASSUME IInv, IInv', VInv, NEW entity \in {"AccessRequest", "ResourceAccess"},
         NEW types, Receives(entity, types), Give(<<>>),
         UNCHANGED <<request, requestView, task, grantView>>
  PROVE  VInv'
<1>1. inbox # <<>> /\ TypeOK /\ inbox[1].to = entity
  BY HeadIs DEF IInv
<1>2. PICK left \in {0, 1} : Came(left, <<>>)
  BY <1>1, GiveNone
<1>3. /\ <<>> \in Seq(Message)
      /\ \A j \in 1 .. Len(<<>>) : <<>>[j].signal.type \notin IdleTypes
  OBVIOUS
<1>. QED BY <1>1, <1>2, <1>3, IdleViews

LEMMA OneGivenViews ==
  ASSUME IInv, IInv', VInv, NEW entity \in {"AccessRequest", "ResourceAccess"},
         NEW types, Receives(entity, types), NEW m, Give(<<m>>),
         m.signal.type \notin IdleTypes,
         UNCHANGED <<request, requestView, task, grantView>>
  PROVE  VInv'
<1>1. inbox # <<>> /\ TypeOK /\ TypeOK' /\ inbox[1].to = entity
  BY HeadIs DEF IInv
<1>2. PICK left \in {0, 1} : Came(left, <<m>>)
  BY <1>1, GiveOne
<1>3. /\ <<m>> \in Seq(Message)
      /\ \A j \in 1 .. Len(<<m>>) : <<m>>[j].signal.type \notin IdleTypes
  BY <1>1, GiveOne
<1>. QED BY <1>1, <1>2, <1>3, IdleViews

LEMMA DropViews ==
  ASSUME IInv, IInv', VInv, NEW entity \in {"AccessRequest", "ResourceAccess"},
         NEW types, Receives(entity, types), Drop
  PROVE  VInv'
BY NoneGivenViews DEF Drop, entities

LEMMA AskViews ==
  ASSUME IInv, IInv', VInv,
         OnAccessRequestSubmissionStarted
           \/ OnAccessExtensionRequestSubmissionStarted
           \/ OnAccessRequestApprovalStarted
  PROVE  VInv'
<1>1. ASSUME NEW types, Receives("AccessRequest", types), NEW c,
             Give(<<To("ResourceAccess", c)>>),
             c.type \in {"CheckRequestedAccess", "CheckRequestedExtension",
                         "CreateAccessGrant", "ExtendAccessGrant"},
             UNCHANGED entities
      PROVE  VInv'
  <2>1. To("ResourceAccess", c).signal.type \notin IdleTypes
    BY <1>1 DEF To, IdleTypes, EventTypes, SubmittedEvents, SettledEvents
  <2>. QED BY <1>1, <2>1, OneGivenViews DEF entities
<1>2. CASE OnAccessRequestSubmissionStarted
  BY <1>1, <1>2 DEF OnAccessRequestSubmissionStarted
<1>3. CASE OnAccessExtensionRequestSubmissionStarted
  BY <1>1, <1>3 DEF OnAccessExtensionRequestSubmissionStarted
<1>4. CASE OnAccessRequestApprovalStarted
  <2>1. /\ Creation(received).type = "CreateAccessGrant"
        /\ Extension(received).type = "ExtendAccessGrant"
    BY DEF Creation, Extension
  <2>. QED BY <1>1, <1>4, <2>1 DEF OnAccessRequestApprovalStarted
<1>. QED BY <1>2, <1>3, <1>4

(* An answer is no event about a request. *)
LEMMA AnswerViews ==
  ASSUME IInv, IInv', VInv, NEW types, Receives("ResourceAccess", types),
         NEW type \in {"RequestedDurationTooLong", "AccessAlreadyHeld",
                       "RequestedAccessChecked", "RequestedExtensionChecked",
                       "AccessGrantNotActive"},
         NEW r, NEW end, Give(Answer(type, r, end)),
         UNCHANGED <<request, requestView, task, grantView>>
  PROVE  VInv'
<1>. DEFINE m == To("AccessRequest",
                    [type |-> type, request |-> r, proposedEnd |-> end])
<1>1. Give(<<m>>) /\ m.signal.type \notin IdleTypes
  BY DEF Answer, To, IdleTypes, EventTypes, SubmittedEvents, SettledEvents
<1>. HIDE DEF m
<1>. QED BY <1>1, OneGivenViews

LEMMA CheckViews ==
  ASSUME IInv, IInv', VInv, CheckRequestedAccess \/ CheckRequestedExtension
  PROVE  VInv'
<1>1. UNCHANGED <<request, requestView, task, grantView>>
  BY DEF CheckRequestedAccess, CheckRequestedExtension, entities
<1>2. CASE CheckRequestedAccess
  BY <1>1, <1>2, AnswerViews DEF CheckRequestedAccess
<1>3. CASE CheckRequestedExtension
  BY <1>1, <1>3, AnswerViews DEF CheckRequestedExtension
<1>. QED BY <1>2, <1>3

LEMMA ExtendAccessGrantViews ==
  ASSUME IInv, IInv', VInv, ExtendAccessGrant PROVE VInv'
<1>1. Receives("ResourceAccess", {"ExtendAccessGrant"})
  BY DEF ExtendAccessGrant
<1>2. UNCHANGED <<request, requestView, task, grantView>>
  BY DEF ExtendAccessGrant, entities, Drop
<1>3. CASE Give(Answer("AccessGrantNotActive", received.request, Unset))
  BY <1>1, <1>2, <1>3, AnswerViews
<1>4. CASE Drop
  BY <1>1, <1>4, DropViews
<1>5. CASE Give(GrantChanged("AccessGrantExtended", received.grant,
                             received.request, Unset, received.end))
  <2>1. PICK m, n : /\ Give(<<m, n>>)
                    /\ m.signal.type = "AccessGrantExtended"
                    /\ n.signal.type = "AccessGrantExtended"
    BY <1>5 DEF GrantChanged, To
  <2>2. /\ inbox # <<>> /\ TypeOK /\ TypeOK'
        /\ inbox[1].to = "ResourceAccess"
    BY <1>1, HeadIs DEF IInv
  <2>3. PICK left \in {0, 1} : Came(left, <<m, n>>)
    BY <2>1, <2>2, GiveTwo
  <2>4. /\ <<m, n>> \in Seq(Message)
        /\ \A j \in 1 .. Len(<<m, n>>) :
             <<m, n>>[j].signal.type \notin IdleTypes
    BY <2>1, <2>2, GiveTwo
       DEF IdleTypes, EventTypes, SubmittedEvents, SettledEvents
  <2>. QED BY <1>2, <2>2, <2>3, <2>4, IdleViews
<1>. QED BY <1>3, <1>4, <1>5 DEF ExtendAccessGrant

(* When a grant is created no extension of it was checked yet.             *)
LEMMA CreateAccessGrantViews ==
  ASSUME IInv, IInv', GInv, VInv, CreateAccessGrant PROVE VInv'
<1>1. Receives("ResourceAccess", {"CreateAccessGrant"})
  BY DEF CreateAccessGrant
<1>2. UNCHANGED <<request, requestView, task, grantView>>
  BY DEF CreateAccessGrant, Drop, entities
<1>3. CASE Drop
  BY <1>1, <1>3, DropViews
<1>4. CASE Give(GrantChanged("AccessGrantCreated", received.request,
                             received.request, received.start, received.end))
  <2>1. PICK m, n : /\ Give(<<m, n>>) /\ m.to = "AccessRequest"
                    /\ m.signal.type = "AccessGrantCreated"
                    /\ n.signal.type = "AccessGrantCreated"
                    /\ n.signal.grant = received.request
    BY <1>4 DEF GrantChanged, To
  <2>2. /\ inbox # <<>> /\ TypeOK /\ TypeOK'
        /\ inbox[1].to = "ResourceAccess"
        /\ received.type = "CreateAccessGrant"
    BY <1>1, HeadIs DEF IInv
  <2>3. PICK left \in {0, 1} : Came(left, <<m, n>>)
    BY <2>1, <2>2, GiveTwo
  <2>4. /\ <<m, n>> \in Seq(Message)
        /\ \A j \in 1 .. Len(<<m, n>>) :
             <<m, n>>[j].signal.type = "AccessGrantCreated"
    BY <2>1, <2>2, GiveTwo
  <2>. DEFINE messages == <<m, n>>
  <2>5. \A g : Among(messages, Creations(g)) # {} => g = received.request
    BY <2>1, <2>4 DEF Among, Creations, OfGrant
  <2>6. \A g : Among(messages, Droppings(g)) = {}
    BY <2>4 DEF Among, Droppings, OfGrant
  <2>7. \A r : GivenChecks(messages, r) = {}
    BY <2>4 DEF GivenChecks, Given, Is
  <2>. HIDE DEF messages
  <2>8. ASSUME NEW r \in Request
        PROVE  Links(messages, r) /\ Announces(messages, r)
    <3>. PICK g : g = request[r].snapshot.grant
      OBVIOUS
    <3>1. ASSUME SaysExtension(r), Among(messages, Creations(g)) # {}
          PROVE  ~Reviewed(r) /\ Checks(r) = {}
      <4>1. 1 \in Creates(g)
        BY <1>1, <2>2, <2>5, <3>1, HeadPlaces
      <4>2. ~Over(g)
        BY <4>1 DEF Over
      <4>3. Checked(r)
        BY DEF GInv
      <4>. QED BY <3>1, <4>2, <4>3 DEF Checked, Seen
    <3>. QED BY <1>2, <2>6, <2>7, <3>1
             DEF Links, Announces, SaysExtension, Reviewed
  <2>9. \A j \in 1 .. Len(messages) :
          messages[j].signal.type \notin EventTypes
    BY <2>4 DEF messages, EventTypes, SubmittedEvents, SettledEvents
  <2>10. \A r \in Request : Same(r)
    BY <1>2 DEF Same
  <2>11. messages \in Seq(Message) /\ Came(left, messages)
    BY <2>3, <2>4 DEF messages
  <2>. QED BY <1>2, <2>2, <2>8, <2>9, <2>10, <2>11, QuietViews
<1>. QED BY <1>3, <1>4 DEF CreateAccessGrant

LEMMA RevokeAccessGrantViews ==
  ASSUME IInv, IInv', VInv, RevokeAccessGrant PROVE VInv'
<1>1. Receives("ResourceAccess", {"RevokeAccessGrant"})
  BY DEF RevokeAccessGrant
<1>2. UNCHANGED <<request, requestView, task, grantView>>
  BY DEF RevokeAccessGrant, Drop, entities
<1>3. CASE Drop
  BY <1>1, <1>3, DropViews
<1>4. CASE ~Drop
  <2>. DEFINE event == [type |-> "AccessGrantRevoked",
                        grant |-> received.grant,
                        manager |-> access[received.id].manager]
  <2>1. Give(<<To("Decisions", event), To("GrantView", event)>>)
    BY <1>4 DEF RevokeAccessGrant
  <2>. event.type = "AccessGrantRevoked"
    OBVIOUS
  <2>. HIDE DEF event
  <2>. DEFINE m == To("Decisions", event)
              n == To("GrantView", event)
  <2>2. /\ Give(<<m, n>>) /\ m.signal = n.signal
        /\ m.to = "Decisions" /\ n.to = "GrantView"
        /\ m.signal.type = "AccessGrantRevoked"
    BY <2>1 DEF To
  <2>. HIDE DEF m, n
  <2>3. /\ inbox # <<>> /\ TypeOK /\ TypeOK'
        /\ inbox[1].to = "ResourceAccess"
    BY <1>1, HeadIs DEF IInv
  <2>4. PICK left \in {0, 1} : Came(left, <<m, n>>)
    BY <2>2, <2>3, GiveTwo
  <2>5. m \in Message /\ n \in Message /\ <<m, n>> \in Seq(Message)
    BY <2>2, <2>3, GiveTwo
  <2>. DEFINE messages == <<m, n>>
  <2>6. \A j \in 1 .. Len(messages) :
          messages[j].signal.type = "AccessGrantRevoked"
    BY <2>2
  <2>7. \A g : Among(messages, Creations(g)) = {}
    BY <2>6 DEF Among, Creations, OfGrant
  <2>8. ASSUME NEW g PROVE Announces(messages, g)
    <3>1. ASSUME NEW i \in Among(messages, Droppings(g))
          PROVE  i = 1 /\ 2 \in Among(messages, Revocations(g))
      BY <2>2, <2>5 DEF Among, Droppings, Revocations, OfGrant
    <3>. QED BY <3>1 DEF Announces
  <2>9. \A r : Links(messages, r)
    BY <1>2, <2>7 DEF Links, SaysExtension, Reviewed
  <2>10. \A j \in 1 .. Len(messages) :
           messages[j].signal.type \notin EventTypes
    BY <2>6 DEF EventTypes, SubmittedEvents, SettledEvents
  <2>11. \A r \in Request : Same(r)
    BY <1>2 DEF Same
  <2>12. messages \in Seq(Message) /\ Came(left, messages)
    BY <2>4, <2>5
  <2>. HIDE DEF messages
  <2>. QED BY <1>2, <2>3, <2>8, <2>9, <2>10, <2>11, <2>12, QuietViews
<1>. QED BY <1>3, <1>4

LEMMA OutsideViews ==
  ASSUME IInv, IInv', VInv,
         \/ \E command \in ClientCommand : Post(command)
         \/ UNCHANGED <<inbox, crashes, applied, request, requestView, task,
                        grantView>>
  PROVE  VInv'
<1>1. TypeOK
  BY DEF IInv
<1>2. ASSUME NEW command \in ClientCommand, Post(command) PROVE VInv'
  <2>. DEFINE m == To(IF command.type = "RevokeAccessGrant"
                      THEN "ResourceAccess" ELSE "AccessRequest", command)
  <2>1. /\ inbox' = Append(inbox, m)
        /\ UNCHANGED <<crashes, entities>>
    BY <1>2 DEF Post
  <2>2. /\ command \in SubmitCommand \cup SubmitExtensionCommand
                       \cup DecisionCommand \cup RevokeCommand
        /\ m.signal = command
    BY ConstantsAssumption DEF To
  <2>3. command.type \in Prompts /\ command.type \notin IdleTypes
    BY <2>2 DEF SubmitCommand, SubmitExtensionCommand, DecisionCommand,
                RevokeCommand, Prompts, IdleTypes, EventTypes,
                SubmittedEvents, SettledEvents
  <2>4. m \in Message
    BY <2>2 DEF To, Message, Entity, Signal
  <2>. HIDE DEF m
  <2>5. Came(0, <<m>>) /\ <<m>> \in Seq(Message)
    BY <1>1, <2>1, <2>2, <2>3, <2>4, AppendIs DEF entities
  <2>6. \A j \in 1 .. Len(<<m>>) : <<m>>[j].signal.type \notin IdleTypes
    BY <2>2, <2>3
  <2>7. UNCHANGED <<request, requestView, task, grantView>>
    BY <2>1 DEF entities
  <2>. QED BY <2>5, <2>6, <2>7, IdleViews
<1>3. CASE UNCHANGED <<inbox, crashes, applied, request, requestView, task,
                       grantView>>
  <2>1. /\ Came(0, <<>>) /\ <<>> \in Seq(Message)
        /\ \A j \in 1 .. Len(<<>>) : <<>>[j].signal.type \notin IdleTypes
    BY <1>1, <1>3, NothingComes
  <2>. QED BY <1>3, <2>1, IdleViews
<1>. QED BY <1>2, <1>3

----------------------------------------------------------------------------
(* The steps of a request that is not shown yet. *)

LEMMA UnreviewedViews ==
  ASSUME IInv, IInv', VInv, NEW types, Receives("AccessRequest", types),
         NEW r \in Request, ~Reviewed(r), ~Reviewed(r)',
         \A q \in Request \ {r} : request'[q] = request[q],
         UNCHANGED <<requestView, task, grantView>>,
         NEW messages \in Seq(Message), NEW left \in {0, 1},
         Came(left, messages),
         \A j \in 1 .. Len(messages) :
           messages[j].signal.type \notin IdleTypes,
         \/ request'[r].snapshot = request[r].snapshot
         \/ Checks(r) = {} /\ GivenChecks(messages, r) = {}
  PROVE  VInv'
<1>1. inbox[1].to = "AccessRequest"
  BY HeadIs DEF IInv
<1>2. /\ \A g : Among(messages, Creations(g)) = {}
      /\ \A g : Among(messages, Droppings(g)) = {}
  BY DEF Among, Creations, Droppings, OfGrant, IdleTypes
<1>3. ASSUME NEW q \in Request
      PROVE  Same(q) /\ Links(messages, q) /\ Announces(messages, q)
  <2>1. CASE q = r
    BY <1>2, <2>1 DEF Same, Links, Announces, SaysExtension
  <2>2. CASE q # r
    BY <1>2, <2>2 DEF Same, Links, Announces, SaysExtension, Reviewed
  <2>. QED BY <2>1, <2>2
<1>4. \A j \in 1 .. Len(messages) : messages[j].signal.type \notin EventTypes
  BY DEF IdleTypes
<1>. QED BY <1>1, <1>3, <1>4, QuietViews

LEMMA StoreViews ==
  ASSUME IInv, IInv', VInv, NEW types, Receives("AccessRequest", types),
         NEW r \in Request, Unclaimed(r), NEW snapshot, Store(r, snapshot),
         NEW event, Give(<<To("AccessRequest", event)>>),
         event.type \in {"AccessRequestSubmissionStarted",
                         "AccessExtensionRequestSubmissionStarted"},
         UNCHANGED <<requestView, task, grantView>>
  PROVE  VInv'
<1>. DEFINE m == To("AccessRequest", event)
<1>0. /\ inbox # <<>> /\ TypeOK /\ TypeOK' /\ Give(<<m>>)
      /\ m.signal = event
  BY DEF Receives, IInv, To
<1>. HIDE DEF m
<1>1. PICK left \in {0, 1} : Came(left, <<m>>)
  BY <1>0, GiveOne
<1>2. <<m>> \in Seq(Message)
  BY <1>0, GiveOne
<1>3. \A j \in 1 .. Len(<<m>>) : <<m>>[j].signal.type \notin IdleTypes
  BY <1>0 DEF IdleTypes, EventTypes, SubmittedEvents, SettledEvents
<1>4. GivenChecks(<<m>>, r) = {}
  BY <1>0 DEF GivenChecks, Given, Is
<1>5. ~SaysExtension(r) /\ ~Reviewed(r)
  BY DEF Unclaimed, NoSnapshot, SaysExtension, ExtensionSnapshot, Reviewed
<1>6. Checks(r) = {}
  <2>1. ASSUME NEW i \in Checks(r) PROVE FALSE
    <3>1. /\ inbox[i].signal \in InFlight
          /\ inbox[i].signal.type = "RequestedExtensionChecked"
          /\ inbox[i].signal.request = r
      BY DEF Checks, Places, Is, InFlight
    <3>. QED BY <1>5, <3>1 DEF IInv, Justified
  <2>. QED BY <2>1
<1>7. /\ request'[r].status = "SUBMISSION_STARTED"
      /\ \A q \in Request \ {r} : request'[q] = request[q]
  BY <1>0 DEF Store, TypeOK
<1>8. ~Reviewed(r)'
  BY <1>7 DEF Reviewed
<1>. QED BY <1>1, <1>2, <1>3, <1>4, <1>5, <1>6, <1>7, <1>8, UnreviewedViews

LEMMA SubmitAccessRequestViews ==
  ASSUME IInv, IInv', VInv, SubmitAccessRequest PROVE VInv'
<1>. DEFINE c == received
            snapshot == [kind |-> "new", requester |-> c.requester,
                         resource |-> c.resource, level |-> c.level,
                         period |-> c.period]
            event == [type |-> "AccessRequestSubmissionStarted",
                      request |-> c.request, duration |-> 0]
<1>1. Receives("AccessRequest", {"SubmitAccessRequest"})
  BY DEF SubmitAccessRequest
<1>2. c \in SubmitCommand
  BY <1>1, Handled, SignalTypes
<1>3. CASE Submittable(c)
  <2>1. /\ Unclaimed(c.request) /\ Store(c.request, snapshot)
        /\ Give(<<To("AccessRequest", event)>>)
        /\ UNCHANGED <<requestView, task, grantView>>
    BY <1>3 DEF SubmitAccessRequest, Submittable
  <2>2. /\ c.request \in Request
        /\ event.type = "AccessRequestSubmissionStarted"
    BY <1>2 DEF SubmitCommand
  <2>. HIDE DEF snapshot, event
  <2>. QED BY <1>1, <2>1, <2>2, StoreViews
<1>4. CASE ~Submittable(c)
  BY <1>1, <1>4, DropViews DEF SubmitAccessRequest
<1>. QED BY <1>3, <1>4

LEMMA SubmitAccessExtensionRequestViews ==
  ASSUME IInv, IInv', VInv, SubmitAccessExtensionRequest PROVE VInv'
<1>. DEFINE c == received
            snapshot == [kind |-> "extension", requester |-> c.requester,
                         resource |-> c.resource, grant |-> c.grant,
                         proposedEnd |-> Unset]
            event == [type |-> "AccessExtensionRequestSubmissionStarted",
                      request |-> c.request, duration |-> c.duration]
<1>1. Receives("AccessRequest", {"SubmitAccessExtensionRequest"})
  BY DEF SubmitAccessExtensionRequest
<1>2. c \in SubmitExtensionCommand
  BY <1>1, Handled, SignalTypes
<1>3. CASE ExtensionSubmittable(c)
  <2>1. /\ Unclaimed(c.request) /\ Store(c.request, snapshot)
        /\ Give(<<To("AccessRequest", event)>>)
        /\ UNCHANGED <<requestView, task, grantView>>
    BY <1>3 DEF SubmitAccessExtensionRequest, ExtensionSubmittable
  <2>2. /\ c.request \in Request
        /\ event.type = "AccessExtensionRequestSubmissionStarted"
    BY <1>2 DEF SubmitExtensionCommand
  <2>. HIDE DEF snapshot, event
  <2>. QED BY <1>1, <2>1, <2>2, StoreViews
<1>4. CASE ~ExtensionSubmittable(c)
  BY <1>1, <1>4, DropViews DEF SubmitAccessExtensionRequest
<1>. QED BY <1>3, <1>4

LEMMA FailedSubmissionViews ==
  ASSUME IInv, IInv', VInv, NEW types, Receives("AccessRequest", types),
         NEW r \in Request, BeingSubmitted(r),
         SetStatus(r, "SUBMISSION_FAILED"), Give(<<>>),
         UNCHANGED <<requestView, task, grantView>>
  PROVE  VInv'
<1>1. inbox # <<>> /\ TypeOK
  BY HeadIs DEF IInv
<1>2. PICK left \in {0, 1} : Came(left, <<>>)
  BY <1>1, GiveNone
<1>3. /\ <<>> \in Seq(Message)
      /\ \A j \in 1 .. Len(<<>>) : <<>>[j].signal.type \notin IdleTypes
  OBVIOUS
<1>4. /\ request'[r].status = "SUBMISSION_FAILED"
      /\ request'[r].snapshot = request[r].snapshot
      /\ \A q \in Request \ {r} : request'[q] = request[q]
  BY <1>1 DEF SetStatus, TypeOK, ProcessState
<1>5. ~Reviewed(r) /\ ~Reviewed(r)'
  BY <1>4 DEF Reviewed, BeingSubmitted
<1>. QED BY <1>2, <1>3, <1>4, <1>5, UnreviewedViews

LEMMA OnSubmissionRejectedViews ==
  ASSUME IInv, IInv', VInv, OnSubmissionRejected PROVE VInv'
<1>1. Receives("AccessRequest",
               {"AccessAlreadyHeld", "RequestedDurationTooLong"})
  BY DEF OnSubmissionRejected
<1>2. received \in AnswerEvent
  BY <1>1, Handled, SignalTypes
<1>. PICK r : r = received.request
  OBVIOUS
<1>3. r \in Request
  BY <1>2 DEF AnswerEvent
<1>4. CASE BeingSubmitted(r)
  BY <1>1, <1>3, <1>4, FailedSubmissionViews DEF OnSubmissionRejected
<1>5. CASE ~BeingSubmitted(r)
  BY <1>1, <1>5, DropViews DEF OnSubmissionRejected
<1>. QED BY <1>4, <1>5

----------------------------------------------------------------------------
(* The steps of a request that the views are told of. *)

LEMMA ToldViews ==
  ASSUME IInv, IInv', VInv, NEW types, Receives("AccessRequest", types),
         NEW r \in Request, Forward(r),
         \A q \in Request \ {r} : request'[q] = request[q],
         UNCHANGED <<requestView, task, grantView>>,
         NEW messages \in Seq(Message), NEW left \in {0, 1},
         Came(left, messages),
         NEW event, event.type \in EventTypes, event.request = r,
         \A j \in 1 .. Len(messages) : messages[j].signal = event,
         Told(event)', RequestShown(r)', DeciderKnown(r)', Assigning(r)',
         \A p \in Person : QueueShown(p, r)',
         SaysExtension(r)' =>
           /\ SaysExtension(r)
           /\ request'[r].snapshot.grant = request[r].snapshot.grant,
         Reviewed(r) \/ ~SaysExtension(r) \/ 1 \in Checks(r)
  PROVE  VInv'
<1>1. /\ TypeOK /\ TypeOK' /\ Telling
      /\ inbox[1].to = "AccessRequest"
  BY HeadIs DEF IInv, VInv
<1>2. ASSUME NEW q \in Request \ {r} PROVE Same(q)
  BY DEF Same
<1>3. Telling'
  <2>1. \A q \in Request : Forward(q)
    BY <1>2, SameIsForward
  <2>2. \A s \in SignalsOf(messages) : Told(s)'
    BY DEF SignalsOf
  <2>. QED BY <1>1, <2>1, <2>2, TellingKept
<1>4. event.type \notin {"AccessGrantCreated", "AccessGrantRevoked"}
  BY DEF EventTypes, SubmittedEvents, SettledEvents
<1>5. /\ \A g : Among(messages, Creations(g)) = {}
      /\ \A g : Among(messages, Droppings(g)) = {}
  BY <1>4 DEF Among, Creations, Droppings, OfGrant
<1>6. ASSUME NEW q \in Request PROVE ShownFirst(q)' /\ Announced(q)'
  <2>1. ShownFirst(q) /\ Announced(q) /\ Announces(messages, q)
    BY <1>5 DEF VInv, Announces
  <2>2. CASE q = r
    <3>1. Links(messages, r)
      BY <1>5 DEF Links
    <3>. QED BY <1>1, <2>1, <2>2, <3>1, ShownFirstKept, AnnouncedKept
  <2>3. CASE q # r
    <3>1. Links(messages, q)
      BY <1>5, <2>3 DEF Links, SaysExtension, Reviewed
    <3>. QED BY <1>1, <2>1, <3>1, ShownFirstKept, AnnouncedKept
  <2>. QED BY <2>2, <2>3
<1>7. ASSUME NEW q \in Request \ {r}
      PROVE  /\ RequestShown(q)' /\ DeciderKnown(q)' /\ Assigning(q)'
             /\ \A p \in Person : QueueShown(p, q)'
  <2>1. /\ RequestShown(q) /\ DeciderKnown(q) /\ Assigning(q)
        /\ \A p \in Person : QueueShown(p, q)
    BY DEF VInv
  <2>2. Among(messages, Shows(q)) = {} /\ Among(messages, Takes(q)) = {}
    BY DEF Among, Shows, Takes, Submissions, Approvals, Outcomes,
           Assignments, Closings, About
  <2>3. /\ Later(left, messages, q) /\ (left = 0 \/ inbox[1] \notin Takes(q))
        /\ \A p \in Person : Unmoved(left, p, q)
    BY <1>1, NotShown DEF Later, Unmoved
  <2>4. RequestShown(q)' /\ DeciderKnown(q)'
    BY <1>1, <1>2, <2>1, <2>2, <2>3, SameRequestView
  <2>5. Assigning(q)'
    BY <1>1, <1>2, <2>1, <2>2, <2>3, SameAssigning
  <2>6. Lost(q) => Lost(q)'
    <3>1. \A g : inbox[1] \notin Revocations(g)
      BY <1>1 DEF Revocations, OfGrant
    <3>. QED BY <1>1, <3>1, LostKept
  <2>7. \A p \in Person : QueueShown(p, q)'
    BY <1>1, <1>2, <2>1, <2>2, <2>3, <2>6, SameQueue
  <2>. QED BY <2>4, <2>5, <2>7
<1>. QED BY <1>3, <1>6, <1>7 DEF VInv

LEMMA ProjectionsGiven ==
  ASSUME TypeOK, TypeOK', inbox # <<>>, NEW event, Give(ToProjections(event))
  PROVE  \E messages \in Seq(Message) : \E left \in {0, 1} :
           /\ Came(left, messages)
           /\ \A j \in 1 .. Len(messages) : messages[j].signal = event
           /\ 1 \in 1 .. Len(messages) /\ messages[1] \in Message
           /\ messages[1].to = "RequestView"
           /\ 2 \in 1 .. Len(messages) /\ messages[2] \in Message
           /\ messages[2].to = "Decisions"
<1>. DEFINE m == To("RequestView", event)
            n == To("Decisions", event)
<1>1. /\ Give(<<m, n>>) /\ m.signal = event /\ n.signal = event
      /\ m.to = "RequestView" /\ n.to = "Decisions"
  BY DEF ToProjections, To
<1>. HIDE DEF m, n
<1>2. /\ m \in Message /\ n \in Message /\ <<m, n>> \in Seq(Message)
      /\ \E left \in {0, 1} : Came(left, <<m, n>>)
  BY <1>1, GiveTwo
<1>. DEFINE messages == <<m, n>>
<1>3. /\ \A j \in 1 .. Len(messages) : messages[j].signal = event
      /\ 1 \in 1 .. Len(messages) /\ messages[1] = m
      /\ 2 \in 1 .. Len(messages) /\ messages[2] = n
  BY <1>1
<1>4. messages \in Seq(Message) /\ \E left \in {0, 1} : Came(left, messages)
  BY <1>2
<1>. HIDE DEF messages
<1>. QED BY <1>1, <1>2, <1>3, <1>4

LEMMA ReviewViews ==
  ASSUME IInv, IInv', VInv, NEW types, Receives("AccessRequest", types),
         NEW r \in Request, ~Reviewed(r), request'[r].status = "PENDING",
         \A q \in Request \ {r} : request'[q] = request[q],
         UNCHANGED <<requestView, task, grantView>>,
         NEW event, Give(ToProjections(event)),
         event.type \in SubmittedEvents, event.request = r,
         event.snapshot = request'[r].snapshot,
         event.manager = request'[r].manager,
         SaysExtension(r)' =>
           /\ SaysExtension(r)
           /\ request'[r].snapshot.grant = request[r].snapshot.grant,
         ~SaysExtension(r) \/ 1 \in Checks(r)
  PROVE  VInv'
<1>1. /\ TypeOK /\ TypeOK' /\ Telling /\ inbox # <<>>
      /\ inbox[1].to = "AccessRequest"
  BY HeadIs DEF IInv, VInv
<1>2. PICK messages \in Seq(Message), left \in {0, 1} :
        /\ Came(left, messages)
        /\ \A j \in 1 .. Len(messages) : messages[j].signal = event
        /\ 1 \in 1 .. Len(messages) /\ messages[1] \in Message
        /\ messages[1].to = "RequestView"
        /\ 2 \in 1 .. Len(messages) /\ messages[2] \in Message
        /\ messages[2].to = "Decisions"
  BY <1>1, ProjectionsGiven
<1>3. event.type \notin SettledEvents \cup {"AccessRequestApprovalStarted"}
  BY DEF SubmittedEvents, SettledEvents
<1>4. 1 \in Among(messages, Submissions(r)) /\ Among(messages, Outcomes(r)) = {}
  BY <1>2, <1>3 DEF Among, Submissions, Outcomes, About
<1>5. 2 \in Among(messages, Assignments(r)) /\ Among(messages, Closings(r)) = {}
  BY <1>2, <1>3 DEF Among, Assignments, Closings, About
<1>6. Forward(r) /\ Reviewed(r)'
  BY DEF Forward, Reviewed, Accepted, Settled
<1>7. Told(event)'
  BY <1>3, <1>6 DEF Told, Reviewed, SettledEvents
<1>8. Later(left, messages, r) /\ \A p \in Person : Unmoved(left, p, r)
  BY <1>1, NotShown DEF Later, Unmoved
<1>9. RequestShown(r)' /\ DeciderKnown(r)'
  BY <1>1, <1>2, <1>4, <1>8, SubmissionShown DEF VInv
<1>10. Assigning(r)' /\ \A p \in Person : QueueShown(p, r)'
  BY <1>1, <1>2, <1>5, <1>8, SubmissionQueued DEF VInv
<1>11. event.type \in EventTypes
  BY DEF EventTypes
<1>. QED BY <1>2, <1>6, <1>7, <1>9, <1>10, <1>11, ToldViews

LEMMA OutcomeViews ==
  ASSUME IInv, IInv', VInv, NEW types, Receives("AccessRequest", types),
         NEW r \in Request, Reviewed(r), ~Settled(r), NEW status,
         SetStatus(r, status), Settled(r)', Accepted(r)' <=> Accepted(r),
         UNCHANGED <<requestView, task, grantView>>,
         NEW type \in SettledEvents, SettledAs(type) = status,
         NEW person, NEW time,
         type = "AccessRequestDenied" => person # NoPerson,
         Give(ToProjections(RequestEventOf(type, r, person, time)))
  PROVE  VInv'
<1>. PICK event : event = RequestEventOf(type, r, person, time)
  OBVIOUS
<1>1. /\ TypeOK /\ TypeOK' /\ Telling /\ inbox # <<>>
      /\ inbox[1].to = "AccessRequest"
  BY HeadIs DEF IInv, VInv
<1>2. /\ event.type = type /\ event.request = r
      /\ event.snapshot = request[r].snapshot
      /\ event.manager = request[r].manager /\ event.decidedBy = person
      /\ Give(ToProjections(event))
  BY DEF RequestEventOf
<1>3. PICK messages \in Seq(Message), left \in {0, 1} :
        /\ Came(left, messages)
        /\ \A j \in 1 .. Len(messages) : messages[j].signal = event
        /\ 1 \in 1 .. Len(messages) /\ messages[1] \in Message
        /\ messages[1].to = "RequestView"
        /\ 2 \in 1 .. Len(messages) /\ messages[2] \in Message
        /\ messages[2].to = "Decisions"
  BY <1>1, <1>2, ProjectionsGiven
<1>4. /\ request'[r].status = status
      /\ request'[r].snapshot = request[r].snapshot
      /\ request'[r].manager = request[r].manager
      /\ \A q \in Request \ {r} : request'[q] = request[q]
  BY <1>1 DEF SetStatus, TypeOK, ProcessState
<1>5. type \notin SubmittedEvents \cup {"AccessRequestApprovalStarted"}
  BY DEF SubmittedEvents, SettledEvents
<1>6. 1 \in Among(messages, Outcomes(r)) /\ Among(messages, Submissions(r)) = {}
  BY <1>2, <1>3, <1>5 DEF Among, Submissions, Outcomes, About
<1>7. 2 \in Among(messages, Closings(r)) /\ Among(messages, Assignments(r)) = {}
  BY <1>2, <1>3, <1>5 DEF Among, Assignments, Closings, About
<1>8. Reviewed(r)'
  BY DEF Settled, Reviewed
<1>9. Forward(r)
  BY <1>4, <1>8 DEF Forward
<1>10. Told(event)'
  BY <1>2, <1>4, <1>5, <1>8 DEF Told, Reviewed
<1>11. Later(left, messages, r) /\ \A p \in Person : Unmoved(left, p, r)
  BY <1>1, NotShown DEF Later, Unmoved
<1>12. RequestShown(r)' /\ DeciderKnown(r)'
  BY <1>1, <1>3, <1>6, <1>11, OutcomeShown DEF VInv
<1>13. request'[r].status # "PENDING"
  BY DEF Settled
<1>14. Assigning(r)' /\ \A p \in Person : QueueShown(p, r)'
  BY <1>1, <1>3, <1>4, <1>7, <1>8, <1>11, <1>13, DecisionQueued DEF VInv
<1>15. event.type \in EventTypes
  BY <1>2 DEF EventTypes
<1>16. SaysExtension(r)' => SaysExtension(r)
  BY <1>4 DEF SaysExtension
<1>. QED BY <1>2, <1>3, <1>4, <1>9, <1>10, <1>12, <1>14, <1>15, <1>16,
            ToldViews

(* What else of the request stays when its status changes.                 *)
LEMMA StatusSet ==
  ASSUME TypeOK, NEW r \in Request, NEW status, SetStatus(r, status)
  PROVE  /\ request'[r].status = status
         /\ request'[r].snapshot = request[r].snapshot
         /\ request'[r].manager = request[r].manager
         /\ \A q \in Request \ {r} : request'[q] = request[q]
BY DEF SetStatus, TypeOK, ProcessState

LEMMA OnRequestedAccessCheckedViews ==
  ASSUME IInv, IInv', VInv, OnRequestedAccessChecked PROVE VInv'
<1>1. Receives("AccessRequest", {"RequestedAccessChecked"})
  BY DEF OnRequestedAccessChecked
<1>2. /\ received \in AnswerEvent /\ Justified(received)
      /\ received.type = "RequestedAccessChecked" /\ TypeOK
  BY <1>1, Handled, SignalTypes DEF IInv
<1>. PICK r : r = received.request
  OBVIOUS
<1>3. r \in Request /\ SaysNew(r)
  BY <1>2 DEF AnswerEvent, Justified
<1>4. CASE BeingSubmitted(r)
  <2>. PICK event :
         event = RequestEventOf("AccessRequestSubmitted", r, NoPerson, Unset)
    OBVIOUS
  <2>1. /\ event.type = "AccessRequestSubmitted" /\ event.request = r
        /\ event.snapshot = request[r].snapshot
        /\ event.manager = request[r].manager
    BY DEF RequestEventOf
  <2>2. /\ SetStatus(r, "PENDING") /\ Give(ToProjections(event))
        /\ UNCHANGED <<requestView, task, grantView>>
    BY <1>4 DEF OnRequestedAccessChecked
  <2>3. /\ request'[r].status = "PENDING"
        /\ request'[r].snapshot = request[r].snapshot
        /\ request'[r].manager = request[r].manager
        /\ \A q \in Request \ {r} : request'[q] = request[q]
    BY <1>2, <1>3, <2>2, StatusSet
  <2>4. ~SaysExtension(r) /\ ~SaysExtension(r)' /\ ~Reviewed(r)
    BY <1>3, <1>4, <2>3 DEF SaysNew, SaysExtension, NewSnapshot,
       ExtensionSnapshot, Reviewed, BeingSubmitted
  <2>5. event.type \in SubmittedEvents
    BY <2>1 DEF SubmittedEvents
  <2>. QED BY <1>1, <1>3, <2>1, <2>2, <2>3, <2>4, <2>5, ReviewViews
<1>5. CASE ~BeingSubmitted(r)
  BY <1>1, <1>5, DropViews DEF OnRequestedAccessChecked
<1>. QED BY <1>4, <1>5

LEMMA OnRequestedExtensionCheckedViews ==
  ASSUME IInv, IInv', VInv, OnRequestedExtensionChecked PROVE VInv'
<1>1. Receives("AccessRequest", {"RequestedExtensionChecked"})
  BY DEF OnRequestedExtensionChecked
<1>2. /\ received \in AnswerEvent /\ Justified(received)
      /\ received.type = "RequestedExtensionChecked" /\ TypeOK
  BY <1>1, Handled, SignalTypes DEF IInv
<1>. PICK r : r = received.request
  OBVIOUS
<1>3. r \in Request /\ SaysExtension(r) /\ 1 \in Checks(r)
  BY <1>1, <1>2, HeadPlaces DEF AnswerEvent, Justified
<1>4. CASE BeingSubmitted(r)
  <2>. PICK event :
         event = [RequestEventOf("AccessExtensionRequestSubmitted", r,
                                 NoPerson, Unset)
                  EXCEPT !.snapshot.proposedEnd = received.proposedEnd]
    OBVIOUS
  <2>1. /\ event.type = "AccessExtensionRequestSubmitted"
        /\ event.request = r
        /\ event.snapshot = [request[r].snapshot
                             EXCEPT !.proposedEnd = received.proposedEnd]
        /\ event.manager = request[r].manager
    BY DEF RequestEventOf
  <2>2. /\ request' = [request EXCEPT ![r] =
             [@ EXCEPT !.status = "PENDING", !.snapshot = event.snapshot]]
        /\ Give(ToProjections(event))
        /\ UNCHANGED <<requestView, task, grantView>>
    BY <1>4 DEF OnRequestedExtensionChecked
  <2>. PICK snapshot : snapshot = event.snapshot
    OBVIOUS
  <2>3. snapshot.grant = request[r].snapshot.grant
    BY <1>3, <2>1 DEF SaysExtension, ExtensionSnapshot
  <2>4. /\ request'[r].status = "PENDING"
        /\ request'[r].snapshot = snapshot
        /\ request'[r].manager = request[r].manager
        /\ \A q \in Request \ {r} : request'[q] = request[q]
    <3>1. request \in [Request -> ProcessState] /\ request[r] \in ProcessState
      BY <1>2, <1>3 DEF TypeOK
    <3>. DEFINE new == [request[r] EXCEPT !.status = "PENDING",
                                          !.snapshot = snapshot]
    <3>2. request'[r] = new /\ \A q \in Request \ {r} : request'[q] = request[q]
      BY <1>3, <2>2, <3>1
    <3>3. /\ new.status = "PENDING" /\ new.snapshot = snapshot
          /\ new.manager = request[r].manager
      BY <3>1 DEF ProcessState
    <3>. HIDE DEF new
    <3>. QED BY <3>2, <3>3
  <2>5. ~Reviewed(r)
    BY <1>4 DEF Reviewed, BeingSubmitted
  <2>6. event.type \in SubmittedEvents
    BY <2>1 DEF SubmittedEvents
  <2>7. /\ event.snapshot = request'[r].snapshot
        /\ event.manager = request'[r].manager
        /\ request'[r].snapshot.grant = request[r].snapshot.grant
    BY <2>1, <2>3, <2>4
  <2>. QED BY <1>1, <1>3, <2>1, <2>2, <2>4, <2>5, <2>6, <2>7, ReviewViews
<1>5. CASE ~BeingSubmitted(r)
  BY <1>1, <1>5, DropViews DEF OnRequestedExtensionChecked
<1>. QED BY <1>4, <1>5

LEMMA ApproveAccessRequestViews ==
  ASSUME IInv, IInv', VInv, ApproveAccessRequest PROVE VInv'
<1>1. Receives("AccessRequest", {"ApproveAccessRequest"})
  BY DEF ApproveAccessRequest
<1>2. /\ received \in DecisionCommand /\ TypeOK /\ TypeOK' /\ Telling
      /\ inbox # <<>> /\ inbox[1].to = "AccessRequest"
  BY <1>1, HeadIs, Handled, SignalTypes DEF IInv, VInv
<1>. PICK r : r = received.request
  OBVIOUS
<1>3. r \in Request
  BY <1>2 DEF DecisionCommand
<1>4. CASE Pending(r) /\ Eligible(r, received.person)
  <2>. PICK event : event = RequestEventOf("AccessRequestApprovalStarted", r,
                                           received.person, now)
    OBVIOUS
  <2>1. /\ event.type = "AccessRequestApprovalStarted" /\ event.request = r
        /\ event.snapshot = request[r].snapshot
        /\ event.manager = request[r].manager
        /\ event.decidedBy = received.person
    BY DEF RequestEventOf
  <2>2. /\ SetStatus(r, "APPROVAL_STARTED")
        /\ Give(<<To("AccessRequest", event), To("RequestView", event)>>)
        /\ UNCHANGED <<requestView, task, grantView>>
    BY <1>4 DEF ApproveAccessRequest
  <2>3. /\ request'[r].status = "APPROVAL_STARTED"
        /\ request'[r].snapshot = request[r].snapshot
        /\ request'[r].manager = request[r].manager
        /\ \A q \in Request \ {r} : request'[q] = request[q]
    BY <1>2, <1>3, <2>2, StatusSet
  <2>4. event.decidedBy # NoPerson
    BY <1>2, <1>3, <1>4, <2>1, ConstantsAssumption
       DEF Eligible, TypeOK, ProcessState
  <2>5. /\ Reviewed(r) /\ ~Settled(r) /\ Reviewed(r)' /\ ~Settled(r)'
        /\ ~Accepted(r) /\ Accepted(r)' /\ request[r].status = "PENDING"
    BY <1>4, <2>3 DEF Reviewed, Settled, Accepted, Pending
  <2>6. Forward(r)
    BY <2>3, <2>5 DEF Forward
  <2>7. Told(event)'
    BY <2>1, <2>3, <2>4, <2>5 DEF Told, Reviewed, Accepted, SettledEvents
  <2>. DEFINE m == To("AccessRequest", event)
              n == To("RequestView", event)
  <2>8. /\ Give(<<m, n>>) /\ m.signal = event /\ n.signal = event
        /\ m.to = "AccessRequest" /\ n.to = "RequestView"
    BY <2>2 DEF To
  <2>. HIDE DEF m, n
  <2>9. PICK left \in {0, 1} : Came(left, <<m, n>>)
    BY <1>2, <2>8, GiveTwo
  <2>. DEFINE messages == <<m, n>>
  <2>10. /\ \A j \in 1 .. Len(messages) : messages[j].signal = event
         /\ 2 \in 1 .. Len(messages) /\ messages[2] = n
         /\ messages \in Seq(Message) /\ Came(left, messages)
         /\ n \in Message
    BY <1>2, <2>8, <2>9, GiveTwo
  <2>. HIDE DEF messages
  <2>11. /\ 2 \in Among(messages, Approvals(r))
         /\ Among(messages, Submissions(r)) = {}
    BY <2>1, <2>8, <2>10 DEF Among, Approvals, Submissions, About,
                             SubmittedEvents
  <2>12. Among(messages, Assignments(r)) = {}
    BY <2>1, <2>10 DEF Among, Assignments, About, SubmittedEvents
  <2>13. Later(left, messages, r) /\ \A p \in Person : Unmoved(left, p, r)
    BY <1>2, <2>2, NotShown DEF Later, Unmoved
  <2>14. RequestShown(r)' /\ DeciderKnown(r)'
    BY <1>2, <1>3, <2>3, <2>5, <2>10, <2>11, <2>13, ApprovalShown DEF VInv
  <2>15. Assigning(r)' /\ \A p \in Person : QueueShown(p, r)'
    BY <1>2, <1>3, <2>3, <2>5, <2>10, <2>12, <2>13, DecisionQueued DEF VInv
  <2>16. event.type \in EventTypes
    BY <2>1 DEF EventTypes
  <2>17. SaysExtension(r)' => SaysExtension(r)
    BY <2>3 DEF SaysExtension
  <2>. QED BY <1>1, <1>3, <2>1, <2>2, <2>3, <2>5, <2>6, <2>7, <2>10, <2>14,
              <2>15, <2>16, <2>17, ToldViews
<1>5. CASE ~(Pending(r) /\ Eligible(r, received.person))
  BY <1>1, <1>5, DropViews DEF ApproveAccessRequest
<1>. QED BY <1>4, <1>5

LEMMA OnGrantChangedViews ==
  ASSUME IInv, IInv', VInv, OnGrantChanged PROVE VInv'
<1>1. Receives("AccessRequest", {"AccessGrantCreated", "AccessGrantExtended"})
  BY DEF OnGrantChanged
<1>2. received \in GrantEvent /\ TypeOK
  BY <1>1, Handled, SignalTypes DEF IInv
<1>. PICK r : r = received.request
  OBVIOUS
<1>3. r \in Request
  BY <1>2 DEF GrantEvent
<1>4. CASE BeingApproved(r)
  <2>1. /\ SetStatus(r, "APPROVED")
        /\ Give(ToProjections(RequestEventOf("AccessRequestApproved", r,
                                             NoPerson, Unset)))
        /\ UNCHANGED <<requestView, task, grantView>>
    BY <1>4 DEF OnGrantChanged
  <2>2. request'[r].status = "APPROVED"
    BY <1>2, <1>3, <2>1, StatusSet
  <2>3. /\ Reviewed(r) /\ ~Settled(r) /\ Settled(r)' /\ Accepted(r)
        /\ Accepted(r)'
    BY <1>4, <2>2 DEF Reviewed, Settled, Accepted, BeingApproved
  <2>4. /\ "AccessRequestApproved" \in SettledEvents
        /\ SettledAs("AccessRequestApproved") = "APPROVED"
    BY DEF SettledEvents, SettledAs
  <2>. QED BY <1>1, <1>3, <2>1, <2>3, <2>4, OutcomeViews
<1>5. CASE ~BeingApproved(r)
  BY <1>1, <1>5, DropViews DEF OnGrantChanged
<1>. QED BY <1>4, <1>5

LEMMA OnAccessGrantNotActiveViews ==
  ASSUME IInv, IInv', VInv, OnAccessGrantNotActive PROVE VInv'
<1>1. Receives("AccessRequest", {"AccessGrantNotActive"})
  BY DEF OnAccessGrantNotActive
<1>2. received \in AnswerEvent /\ TypeOK
  BY <1>1, Handled, SignalTypes DEF IInv
<1>. PICK r : r = received.request
  OBVIOUS
<1>3. r \in Request
  BY <1>2 DEF AnswerEvent
<1>4. CASE BeingSubmitted(r)
  <2>1. ~BeingApproved(r)
    BY <1>4 DEF BeingSubmitted, BeingApproved
  <2>2. /\ SetStatus(r, "SUBMISSION_FAILED") /\ Give(<<>>)
        /\ UNCHANGED <<requestView, task, grantView>>
    BY <1>4, <2>1 DEF OnAccessGrantNotActive
  <2>. QED BY <1>1, <1>3, <1>4, <2>2, FailedSubmissionViews
<1>5. CASE BeingApproved(r)
  <2>1. ~BeingSubmitted(r)
    BY <1>5 DEF BeingSubmitted, BeingApproved
  <2>2. /\ SetStatus(r, "APPROVAL_FAILED")
        /\ Give(ToProjections(RequestEventOf("AccessRequestApprovalFailed",
                                             r, NoPerson, Unset)))
        /\ UNCHANGED <<requestView, task, grantView>>
    BY <1>5, <2>1 DEF OnAccessGrantNotActive
  <2>3. request'[r].status = "APPROVAL_FAILED"
    BY <1>2, <1>3, <2>2, StatusSet
  <2>4. /\ Reviewed(r) /\ ~Settled(r) /\ Settled(r)' /\ Accepted(r)
        /\ Accepted(r)'
    BY <1>5, <2>3 DEF Reviewed, Settled, Accepted, BeingApproved
  <2>5. /\ "AccessRequestApprovalFailed" \in SettledEvents
        /\ SettledAs("AccessRequestApprovalFailed") = "APPROVAL_FAILED"
    BY DEF SettledEvents, SettledAs
  <2>. QED BY <1>1, <1>3, <2>2, <2>4, <2>5, OutcomeViews
<1>6. CASE ~BeingSubmitted(r) /\ ~BeingApproved(r)
  BY <1>1, <1>6, DropViews DEF OnAccessGrantNotActive
<1>. QED BY <1>4, <1>5, <1>6

LEMMA DenyAccessRequestViews ==
  ASSUME IInv, IInv', VInv, DenyAccessRequest PROVE VInv'
<1>1. Receives("AccessRequest", {"DenyAccessRequest"})
  BY DEF DenyAccessRequest
<1>2. received \in DecisionCommand /\ TypeOK
  BY <1>1, Handled, SignalTypes DEF IInv
<1>. PICK r : r = received.request
  OBVIOUS
<1>3. r \in Request
  BY <1>2 DEF DecisionCommand
<1>4. CASE Pending(r) /\ Eligible(r, received.person)
  <2>1. /\ SetStatus(r, "DENIED")
        /\ Give(ToProjections(RequestEventOf("AccessRequestDenied", r,
                                             received.person, now)))
        /\ UNCHANGED <<requestView, task, grantView>>
    BY <1>4 DEF DenyAccessRequest
  <2>2. request'[r].status = "DENIED"
    BY <1>2, <1>3, <2>1, StatusSet
  <2>3. /\ Reviewed(r) /\ ~Settled(r) /\ Settled(r)' /\ ~Accepted(r)
        /\ ~Accepted(r)'
    BY <1>4, <2>2 DEF Reviewed, Settled, Accepted, Pending
  <2>4. /\ "AccessRequestDenied" \in SettledEvents
        /\ SettledAs("AccessRequestDenied") = "DENIED"
    BY DEF SettledEvents, SettledAs
  <2>5. received.person # NoPerson
    BY <1>2, <1>3, <1>4, ConstantsAssumption DEF Eligible, TypeOK, ProcessState
  <2>. QED BY <1>1, <1>3, <2>1, <2>3, <2>4, <2>5, OutcomeViews
<1>5. CASE ~(Pending(r) /\ Eligible(r, received.person))
  BY <1>1, <1>5, DropViews DEF DenyAccessRequest
<1>. QED BY <1>4, <1>5

LEMMA CancelAccessRequestViews ==
  ASSUME IInv, IInv', VInv, CancelAccessRequest PROVE VInv'
<1>1. Receives("AccessRequest", {"CancelAccessRequest"})
  BY DEF CancelAccessRequest
<1>2. received \in DecisionCommand /\ TypeOK
  BY <1>1, Handled, SignalTypes DEF IInv
<1>. PICK r : r = received.request
  OBVIOUS
<1>3. r \in Request
  BY <1>2 DEF DecisionCommand
<1>4. CASE Pending(r)
  <2>1. /\ SetStatus(r, "CANCELED")
        /\ Give(ToProjections(RequestEventOf("AccessRequestCanceled", r,
                                             NoPerson, Unset)))
        /\ UNCHANGED <<requestView, task, grantView>>
    BY <1>4 DEF CancelAccessRequest
  <2>2. request'[r].status = "CANCELED"
    BY <1>2, <1>3, <2>1, StatusSet
  <2>3. /\ Reviewed(r) /\ ~Settled(r) /\ Settled(r)' /\ ~Accepted(r)
        /\ ~Accepted(r)'
    BY <1>4, <2>2 DEF Reviewed, Settled, Accepted, Pending
  <2>4. /\ "AccessRequestCanceled" \in SettledEvents
        /\ SettledAs("AccessRequestCanceled") = "CANCELED"
    BY DEF SettledEvents, SettledAs
  <2>. QED BY <1>1, <1>3, <2>1, <2>3, <2>4, OutcomeViews
<1>5. CASE ~Pending(r)
  BY <1>1, <1>5, DropViews DEF CancelAccessRequest
<1>. QED BY <1>4, <1>5

----------------------------------------------------------------------------
(* The steps of the projections. *)

LEMMA ProjectionHead ==
  ASSUME IInv, NEW entity, NEW types, Receives(entity, types), Give(<<>>)
  PROVE  /\ inbox # <<>> /\ inbox[1] \in Message
         /\ inbox[1].to = entity /\ inbox[1].signal = received
         /\ received.type \in types /\ received \in Signal
         /\ <<>> \in Seq(Message) /\ \E left \in {0, 1} : Came(left, <<>>)
<1>1. TypeOK /\ inbox # <<>>
  BY HeadIs DEF IInv
<1>2. 1 \in 1 .. Len(inbox)
  BY <1>1, HeadIs
<1>3. inbox[1] \in Message
  BY <1>1, <1>2, ElementOfSeq DEF TypeOK
<1>. QED BY <1>1, <1>3, HeadIs, ReceivedInFlight, GiveNone

LEMMA ShownViews ==
  ASSUME IInv, IInv', VInv, NEW left \in {0, 1}, Came(left, <<>>),
         UNCHANGED <<request, task, grantView>>,
         NEW r \in Request, inbox[1].to = "RequestView",
         inbox[1].signal.request = r,
         \A q \in Request \ {r} : requestView'[q] = requestView[q],
         RequestShown(r)', DeciderKnown(r)'
  PROVE  VInv'
<1>1. /\ TypeOK /\ TypeOK' /\ Telling /\ <<>> \in Seq(Message)
      /\ \A kind : Among(<<>>, kind) = {}
      /\ \A j \in 1 .. Len(<<>>) : <<>>[j].signal.type \notin IdleTypes
  BY DEF IInv, VInv, Among
<1>2. \A q : Same(q) /\ Forward(q)
  BY SameIsForward DEF Same
<1>3. Telling'
  <2>1. \A s \in SignalsOf(<<>>) : Told(s)'
    BY DEF SignalsOf
  <2>. QED BY <1>1, <1>2, <2>1, TellingKept
<1>4. \A q \in Request \ {r} : RequestShown(q)' /\ DeciderKnown(q)'
  <2>1. \A q \in Request \ {r} : Later(left, <<>>, q)
    BY DEF Later, Shows, Submissions, Approvals, Outcomes, About
  <2>. QED BY <1>1, <1>2, <2>1, SameRequestView DEF VInv
<1>5. ASSUME NEW q \in Request
      PROVE  /\ Assigning(q)' /\ ShownFirst(q)' /\ Announced(q)'
             /\ \A p \in Person : QueueShown(p, q)'
  <2>1. /\ Assigning(q) /\ ShownFirst(q) /\ Announced(q)
        /\ \A p \in Person : QueueShown(p, q)
    BY DEF VInv
  <2>2. inbox[1] \notin Takes(q) /\ \A g : inbox[1] \notin Revocations(g)
    BY DEF Takes, Assignments, Closings, About, Revocations, OfGrant
  <2>3. Lost(q) => Lost(q)'
    BY <1>1, <2>2, LostKept
  <2>4. \A p \in Person : Unmoved(left, p, q)
    BY <2>2 DEF Unmoved
  <2>5. Assigning(q)' /\ \A p \in Person : QueueShown(p, q)'
    BY <1>1, <1>2, <2>1, <2>2, <2>3, <2>4, SameAssigning, SameQueue
  <2>6. Links(<<>>, q) /\ Announces(<<>>, q)
    BY <1>1, IdleLinks
  <2>7. ShownFirst(q)' /\ Announced(q)'
    BY <1>1, <2>1, <2>6, ShownFirstKept, AnnouncedKept
  <2>. QED BY <2>5, <2>7
<1>. QED BY <1>3, <1>4, <1>5 DEF VInv

LEMMA RequestViewShows ==
  ASSUME IInv, IInv', VInv, SeedPending \/ ShowApprovalStarted \/ Settle
  PROVE  VInv'
<1>. DEFINE types == SubmittedEvents \cup {"AccessRequestApprovalStarted"}
                       \cup SettledEvents
<1>1. /\ Receives("RequestView", types) /\ Give(<<>>)
      /\ UNCHANGED <<request, task, grantView>>
  BY DEF SeedPending, ShowApprovalStarted, Settle, Receives, SubmittedEvents
<1>2. /\ TypeOK /\ TypeOK' /\ Telling /\ inbox # <<>>
      /\ inbox[1] \in Message /\ inbox[1].to = "RequestView"
      /\ inbox[1].signal = received /\ received \in RequestEvent
  BY <1>1, ProjectionHead, SignalTypes
     DEF IInv, VInv, SubmittedEvents, SettledEvents
<1>3. PICK left \in {0, 1} : Came(left, <<>>)
  BY <1>1, ProjectionHead
<1>. PICK r, e : r = received.request /\ e = received
  OBVIOUS
<1>4. r \in Request /\ RequestShown(r) /\ DeciderKnown(r)
  BY <1>2 DEF RequestEvent, VInv
<1>5. requestView \in [Request -> RequestView] /\ requestView[r] \in RequestView
  BY <1>2, <1>4 DEF TypeOK
<1>6. CASE SeedPending
  <2>1. inbox[1] \in Submissions(r)
    BY <1>2, <1>6 DEF SeedPending, Receives, received, Submissions, About,
                      SubmittedEvents
  <2>2. requestView' = [requestView EXCEPT ![r].status = "PENDING",
                                           ![r].snapshot = e.snapshot]
    BY <1>6 DEF SeedPending
  <2>3. /\ requestView'[r].status = "PENDING"
        /\ requestView'[r].snapshot = inbox[1].signal.snapshot
        /\ requestView'[r].decidedBy = requestView[r].decidedBy
        /\ \A q \in Request \ {r} : requestView'[q] = requestView[q]
    BY <1>2, <1>4, <1>5, <2>2 DEF RequestView
  <2>4. RequestShown(r)' /\ DeciderKnown(r)'
    BY <1>1, <1>2, <1>3, <1>4, <2>1, <2>3, SubmissionTaken
  <2>. QED BY <1>1, <1>2, <1>3, <1>4, <2>3, <2>4, ShownViews
<1>7. CASE ShowApprovalStarted
  <2>1. inbox[1] \in Approvals(r)
    BY <1>2, <1>7 DEF ShowApprovalStarted, Receives, received, Approvals,
                      About
  <2>2. requestView' = [requestView EXCEPT ![r].decidedBy = e.decidedBy]
    BY <1>7 DEF ShowApprovalStarted
  <2>3. /\ requestView'[r].status = requestView[r].status
        /\ requestView'[r].snapshot = requestView[r].snapshot
        /\ requestView'[r].decidedBy = inbox[1].signal.decidedBy
        /\ \A q \in Request \ {r} : requestView'[q] = requestView[q]
    BY <1>2, <1>4, <1>5, <2>2 DEF RequestView
  <2>4. RequestShown(r)' /\ DeciderKnown(r)'
    BY <1>1, <1>2, <1>3, <1>4, <2>1, <2>3, ApprovalTaken
  <2>. QED BY <1>1, <1>2, <1>3, <1>4, <2>3, <2>4, ShownViews
<1>8. CASE Settle
  <2>1. inbox[1] \in Outcomes(r)
    BY <1>2, <1>8 DEF Settle, Receives, received, Outcomes, About
  <2>2. requestView' = [requestView EXCEPT ![r] =
          [status |-> SettledAs(e.type), snapshot |-> e.snapshot,
           decidedBy |-> DeciderShown(requestView[r], e)]]
    BY <1>8 DEF Settle
  <2>3. /\ requestView'[r].status = SettledAs(inbox[1].signal.type)
        /\ requestView'[r].snapshot = inbox[1].signal.snapshot
        /\ requestView'[r].decidedBy
             = DeciderShown(requestView[r], inbox[1].signal)
        /\ \A q \in Request \ {r} : requestView'[q] = requestView[q]
    BY <1>2, <1>4, <1>5, <2>2
  <2>4. RequestShown(r)' /\ DeciderKnown(r)'
    BY <1>1, <1>2, <1>3, <1>4, <2>1, <2>3, OutcomeTaken
  <2>. QED BY <1>1, <1>2, <1>3, <1>4, <2>3, <2>4, ShownViews
<1>. QED BY <1>6, <1>7, <1>8

LEMMA TakenViews ==
  ASSUME IInv, IInv', VInv, NEW left \in {0, 1}, Came(left, <<>>),
         UNCHANGED <<request, requestView, grantView>>,
         inbox[1].to = "Decisions",
         \A q \in Request :
           Assigning(q)' /\ \A p \in Person : QueueShown(p, q)'
  PROVE  VInv'
<1>1. /\ TypeOK /\ TypeOK' /\ Telling /\ <<>> \in Seq(Message)
      /\ \A kind : Among(<<>>, kind) = {}
      /\ \A j \in 1 .. Len(<<>>) : <<>>[j].signal.type \notin IdleTypes
  BY DEF IInv, VInv, Among
<1>2. \A q : Same(q) /\ Forward(q)
  BY SameIsForward DEF Same
<1>3. Telling'
  <2>1. \A s \in SignalsOf(<<>>) : Told(s)'
    BY DEF SignalsOf
  <2>. QED BY <1>1, <1>2, <2>1, TellingKept
<1>4. ASSUME NEW q \in Request
      PROVE  /\ RequestShown(q)' /\ DeciderKnown(q)'
             /\ ShownFirst(q)' /\ Announced(q)'
  <2>1. RequestShown(q) /\ DeciderKnown(q) /\ ShownFirst(q) /\ Announced(q)
    BY DEF VInv
  <2>2. Later(left, <<>>, q)
    BY DEF Later, Shows, Submissions, Approvals, Outcomes, About
  <2>3. Links(<<>>, q) /\ Announces(<<>>, q)
    BY <1>1, IdleLinks
  <2>4. RequestShown(q)' /\ DeciderKnown(q)'
    BY <1>1, <1>2, <2>1, <2>2, SameRequestView
  <2>5. ShownFirst(q)' /\ Announced(q)'
    BY <1>1, <2>1, <2>3, ShownFirstKept, AnnouncedKept
  <2>. QED BY <2>4, <2>5
<1>. QED BY <1>3, <1>4 DEF VInv

(* A message about another request moves no task of this one.              *)
LEMMA OtherQueue ==
  ASSUME IInv, IInv', VInv, NEW left \in {0, 1}, Came(left, <<>>),
         UNCHANGED <<request, grantView>>,
         NEW q \in Request, inbox[1] \notin Takes(q),
         inbox[1].to = "Decisions",
         \A p \in Person : \A t \in Task :
           t.request = q => (t \in task'[p] <=> t \in task[p])
  PROVE  Assigning(q)' /\ \A p \in Person : QueueShown(p, q)'
<1>1. /\ TypeOK /\ TypeOK' /\ <<>> \in Seq(Message)
      /\ \A kind : Among(<<>>, kind) = {}
      /\ Assigning(q) /\ \A p \in Person : QueueShown(p, q)
  BY DEF IInv, VInv, Among
<1>2. Same(q)
  BY DEF Same
<1>3. Lost(q) => Lost(q)'
  <2>1. \A g : inbox[1] \notin Revocations(g)
    BY DEF Revocations, OfGrant
  <2>. QED BY <1>1, <2>1, LostKept
<1>4. \A p \in Person : Unmoved(left, p, q)
  BY DEF Unmoved
<1>. QED BY <1>1, <1>2, <1>3, <1>4, SameAssigning, SameQueue

LEMMA AssignViews ==
  ASSUME IInv, IInv', VInv, Assign PROVE VInv'
<1>1. /\ Receives("Decisions", SubmittedEvents) /\ Give(<<>>)
      /\ UNCHANGED <<request, requestView, grantView>>
  BY DEF Assign, SubmittedEvents
<1>2. /\ TypeOK /\ TypeOK' /\ Telling /\ inbox # <<>>
      /\ inbox[1] \in Message /\ inbox[1].to = "Decisions"
      /\ inbox[1].signal = received /\ received \in RequestEvent
      /\ received.type \in SubmittedEvents
  BY <1>1, ProjectionHead, SignalTypes DEF IInv, VInv, SubmittedEvents
<1>3. PICK left \in {0, 1} : Came(left, <<>>)
  BY <1>1, ProjectionHead
<1>. PICK r, e : r = received.request /\ e = received
  OBVIOUS
<1>4. r \in Request /\ inbox[1] \in Assignments(r)
  BY <1>2 DEF RequestEvent, Assignments, About
<1>. DEFINE assigned == [request |-> r, snapshot |-> e.snapshot]
<1>5. /\ assigned.request = r
      /\ assigned.snapshot = inbox[1].signal.snapshot
      /\ \A p \in Person : task'[p] =
           IF p \in inbox[1].signal.manager /\ \A t \in task[p] : t.request # r
           THEN task[p] \cup {assigned} ELSE task[p]
  BY <1>2 DEF Assign
<1>. HIDE DEF assigned
<1>6. Assigning(r)' /\ \A p \in Person : QueueShown(p, r)'
  BY <1>1, <1>2, <1>3, <1>4, <1>5, AssignmentTaken DEF VInv
<1>7. ASSUME NEW q \in Request \ {r}
      PROVE  Assigning(q)' /\ \A p \in Person : QueueShown(p, q)'
  <2>1. inbox[1] \notin Takes(q)
    BY <1>2 DEF Takes, Assignments, Closings, About
  <2>2. \A p \in Person : \A t \in Task :
          t.request = q => (t \in task'[p] <=> t \in task[p])
    BY <1>5
  <2>. QED BY <1>1, <1>2, <1>3, <2>1, <2>2, OtherQueue
<1>. QED BY <1>1, <1>2, <1>3, <1>6, <1>7, TakenViews

LEMMA CloseViews ==
  ASSUME IInv, IInv', VInv, Close PROVE VInv'
<1>1. /\ Receives("Decisions", SettledEvents) /\ Give(<<>>)
      /\ UNCHANGED <<request, requestView, grantView>>
  BY DEF Close
<1>2. /\ TypeOK /\ TypeOK' /\ Telling /\ inbox # <<>>
      /\ inbox[1] \in Message /\ inbox[1].to = "Decisions"
      /\ inbox[1].signal = received /\ received \in RequestEvent
      /\ received.type \in SettledEvents
  BY <1>1, ProjectionHead, SignalTypes DEF IInv, VInv, SettledEvents
<1>3. PICK left \in {0, 1} : Came(left, <<>>)
  BY <1>1, ProjectionHead
<1>. PICK r : r = received.request
  OBVIOUS
<1>4. r \in Request /\ inbox[1] \in Closings(r)
  BY <1>2 DEF RequestEvent, Closings, About
<1>5. \A p \in Person : task'[p] =
        IF p \in inbox[1].signal.manager
        THEN {t \in task[p] : t.request # r} ELSE task[p]
  BY <1>2 DEF Close
<1>6. Assigning(r)' /\ \A p \in Person : QueueShown(p, r)'
  BY <1>1, <1>2, <1>3, <1>4, <1>5, ClosingTaken DEF VInv
<1>7. ASSUME NEW q \in Request \ {r}
      PROVE  Assigning(q)' /\ \A p \in Person : QueueShown(p, q)'
  <2>1. inbox[1] \notin Takes(q)
    BY <1>2 DEF Takes, Assignments, Closings, About
  <2>2. \A p \in Person : \A t \in Task :
          t.request = q => (t \in task'[p] <=> t \in task[p])
    BY <1>5
  <2>. QED BY <1>1, <1>2, <1>3, <2>1, <2>2, OtherQueue
<1>. QED BY <1>1, <1>2, <1>3, <1>6, <1>7, TakenViews

LEMMA DropExtensionsViews ==
  ASSUME IInv, IInv', VInv, DropExtensionsOf PROVE VInv'
<1>1. /\ Receives("Decisions", {"AccessGrantRevoked"}) /\ Give(<<>>)
      /\ UNCHANGED <<request, requestView, grantView>>
  BY DEF DropExtensionsOf
<1>2. /\ inbox # <<>> /\ inbox[1] \in Message /\ inbox[1].to = "Decisions"
      /\ inbox[1].signal = received /\ received \in RevokedEvent
      /\ received.type = "AccessGrantRevoked"
  BY <1>1, ProjectionHead, SignalTypes
<1>3. PICK left \in {0, 1} : Came(left, <<>>)
  BY <1>1, ProjectionHead
<1>. PICK g : g = received.grant
  OBVIOUS
<1>4. g \in Request /\ inbox[1] \in Droppings(g)
  BY <1>2 DEF RevokedEvent, Droppings, OfGrant
<1>5. \A p \in Person : task'[p] =
        IF p \in inbox[1].signal.manager
        THEN {t \in task[p] : ~ExtensionOf(t.snapshot, g)} ELSE task[p]
  BY <1>2 DEF DropExtensionsOf
<1>6. ASSUME NEW q \in Request
      PROVE  Assigning(q)' /\ \A p \in Person : QueueShown(p, q)'
  BY <1>1, <1>2, <1>3, <1>4, <1>5, DroppingTaken DEF VInv
<1>. QED BY <1>1, <1>2, <1>3, <1>6, TakenViews

(* What the projections of the grants set. *)
LEMMA ShowCreatedSets ==
  ASSUME IInv, ShowCreated
  PROVE  /\ received \in GrantEvent /\ received.grant \in Request
         /\ \A g \in Request \ {received.grant} :
              grantView'[g] = grantView[g]
         /\ \A g : g = received.grant =>
              /\ grantView'[g].known /\ ~grantView'[g].revoked
              /\ grantView'[g].start = received.start
              /\ grantView'[g].end = received.end
<1>1. received \in GrantEvent
  BY Handled, SignalTypes DEF ShowCreated
<1>2. received.grant \in Request
  BY <1>1 DEF GrantEvent
<1>3. grantView \in [Request -> GrantView]
  BY DEF IInv, TypeOK
<1>. PICK e : e = received
  OBVIOUS
<1>. DEFINE new == [grantView[e.grant] EXCEPT
                      !.known = TRUE, !.start = e.start, !.end = e.end,
                      !.revoked = FALSE]
<1>4. grantView' = [grantView EXCEPT ![e.grant] = new]
  BY DEF ShowCreated
<1>5. /\ new.known = TRUE /\ new.start = e.start /\ new.end = e.end
      /\ new.revoked = FALSE
  BY <1>2, <1>3 DEF GrantView
<1>. HIDE DEF new
<1>. QED BY <1>1, <1>2, <1>3, <1>4, <1>5

LEMMA ShowExtendedSets ==
  ASSUME IInv, ShowExtended
  PROVE  /\ received \in GrantEvent /\ received.grant \in Request
         /\ \A g \in Request \ {received.grant} :
              grantView'[g] = grantView[g]
         /\ \A g : g = received.grant =>
              /\ grantView'[g].known = grantView[g].known
              /\ grantView'[g].revoked = grantView[g].revoked
              /\ grantView'[g].start = grantView[g].start
              /\ grantView'[g].end = received.end
<1>1. received \in GrantEvent
  BY Handled, SignalTypes DEF ShowExtended
<1>2. received.grant \in Request
  BY <1>1 DEF GrantEvent
<1>3. grantView \in [Request -> GrantView]
  BY DEF IInv, TypeOK
<1>. PICK e : e = received
  OBVIOUS
<1>. DEFINE view == grantView[e.grant]
            new == [view EXCEPT !.end = e.end,
                      !.extension = Append(view.extension, e.request)]
<1>4. grantView' = [grantView EXCEPT ![e.grant] = new]
  BY DEF ShowExtended
<1>5. view \in GrantView
  BY <1>2, <1>3
<1>. HIDE DEF view
<1>6. /\ new.known = view.known /\ new.start = view.start /\ new.end = e.end
      /\ new.revoked = view.revoked
  BY <1>5 DEF GrantView
<1>. HIDE DEF new
<1>. QED BY <1>1, <1>2, <1>3, <1>4, <1>6 DEF view

LEMMA ShowRevokedSets ==
  ASSUME IInv, ShowRevoked
  PROVE  /\ received.grant \in Request
         /\ \A g \in Request \ {received.grant} :
              grantView'[g] = grantView[g]
         /\ \A g : g = received.grant =>
              /\ grantView'[g].known = grantView[g].known
              /\ grantView'[g].revoked
              /\ grantView'[g].start = grantView[g].start
              /\ grantView'[g].end = grantView[g].end
<1>1. received \in RevokedEvent
  BY Handled, SignalTypes DEF ShowRevoked
<1>2. received.grant \in Request
  BY <1>1 DEF RevokedEvent
<1>3. grantView \in [Request -> GrantView]
  BY DEF IInv, TypeOK
<1>. PICK h : h = received.grant
  OBVIOUS
<1>4. grantView' = [grantView EXCEPT ![h].revoked = TRUE]
  BY DEF ShowRevoked
<1>. QED BY <1>2, <1>3, <1>4 DEF GrantView

LEMMA GrantShownViews ==
  ASSUME IInv, IInv', VInv, ShowCreated \/ ShowExtended \/ ShowRevoked
  PROVE  VInv'
<1>. DEFINE types == ChangeEvents \cup {"AccessGrantRevoked"}
<1>1. /\ Receives("GrantView", types) /\ Give(<<>>)
      /\ UNCHANGED <<request, requestView, task>>
  BY DEF ShowCreated, ShowExtended, ShowRevoked, Receives, ChangeEvents
<1>2. /\ TypeOK /\ inbox # <<>>
      /\ inbox[1] \in Message /\ inbox[1].to = "GrantView"
      /\ inbox[1].signal = received /\ <<>> \in Seq(Message)
  BY <1>1, ProjectionHead DEF IInv
<1>3. PICK left \in {0, 1} : Came(left, <<>>)
  BY <1>1, ProjectionHead
<1>4. \A j \in 1 .. Len(<<>>) : <<>>[j].signal.type \notin IdleTypes
  OBVIOUS
<1>5. /\ \A r : Links(<<>>, r) /\ Announces(<<>>, r)
      /\ \A j \in 1 .. Len(<<>>) : <<>>[j].signal.type \notin EventTypes
  BY <1>1, <1>2, <1>4, IdleLinks
<1>6. \A r : Same(r)
  BY <1>1 DEF Same
<1>7. ASSUME NEW r \in Request, Waiting(r), Lost(r) PROVE Lost(r)'
  <2>. PICK g : g = request[r].snapshot.grant
    OBVIOUS
  <2>1. g \in Request /\ SaysExtension(r)
    BY <1>7 DEF Lost, SaysExtension, ExtensionSnapshot
  <2>2. CASE ShowCreated
    <3>1. inbox[1].signal.type = "AccessGrantCreated"
      BY <1>2, <2>2 DEF ShowCreated, Receives, received
    <3>2. Where(Creations(g)) = {}
      BY <1>7, <2>1 DEF VInv, ShownFirst, Waiting, Reviewed
    <3>3. 1 \in 1 .. Len(inbox)
      BY <1>1, <1>2, HeadIs
    <3>4. received.grant # g
      BY <1>2, <3>1, <3>2, <3>3 DEF Where, Creations, OfGrant
    <3>5. grantView'[g] = grantView[g]
      BY <2>1, <2>2, <3>4, ShowCreatedSets
    <3>6. inbox[1] \notin Revocations(g)
      BY <3>1 DEF Revocations, OfGrant
    <3>. QED BY <1>1, <1>2, <1>3, <1>7, <3>5, <3>6, LostKept
  <2>3. CASE ShowExtended
    <3>1. inbox[1].signal.type = "AccessGrantExtended"
      BY <1>2, <2>3 DEF ShowExtended, Receives, received
    <3>2. grantView'[g].revoked = grantView[g].revoked
      BY <2>1, <2>3, ShowExtendedSets
    <3>3. inbox[1] \notin Revocations(g)
      BY <3>1 DEF Revocations, OfGrant
    <3>. QED BY <1>1, <1>2, <1>3, <1>7, <3>2, <3>3, LostKept
  <2>4. CASE ShowRevoked
    <3>1. grantView[g].revoked => grantView'[g].revoked
      BY <2>1, <2>4, ShowRevokedSets
    <3>2. inbox[1] \notin Revocations(g) \/ grantView'[g].revoked
      BY <1>2, <2>4, ShowRevokedSets DEF Revocations, OfGrant
    <3>. QED BY <1>1, <1>2, <1>3, <1>7, <3>1, <3>2, LostKept
  <2>. QED BY <2>2, <2>3, <2>4
<1>. QED BY <1>1, <1>2, <1>3, <1>5, <1>6, <1>7, UnshownViews

----------------------------------------------------------------------------
LEMMA VInvInit ==
  ASSUME Init PROVE VInv
<1>1. InFlight = {} /\ \A kind : Where(kind) = {}
  BY DEF Init, InFlight, Where
<1>2. ASSUME NEW r \in Request
      PROVE  /\ request[r].status = "UNSPECIFIED"
             /\ requestView[r].status = "UNSPECIFIED"
             /\ requestView[r].decidedBy = NoPerson
             /\ \A p \in Person : task[p] = {}
             /\ ~SaysExtension(r)
  BY DEF Init, SaysExtension, NoSnapshot, ExtensionSnapshot
<1>3. ASSUME NEW r \in Request
      PROVE  /\ RequestShown(r) /\ DeciderKnown(r)
             /\ Assigning(r) /\ ShownFirst(r) /\ Announced(r)
             /\ \A p \in Person : QueueShown(p, r)
  BY <1>1, <1>2 DEF RequestShown, DeciderKnown, Assigning, ShownFirst,
     Announced, QueueShown, Queued, Before, Reviewed, Settled, Accepted
<1>. QED BY <1>1, <1>3 DEF VInv, Telling

LEMMA VInvStep ==
  ASSUME IInv, IInv', GInv, VInv, [Next]_vars PROVE VInv'
<1>1. CASE HandleRequest
  BY <1>1, SubmitAccessRequestViews, SubmitAccessExtensionRequestViews,
     AskViews, OnRequestedAccessCheckedViews, OnRequestedExtensionCheckedViews,
     OnSubmissionRejectedViews, ApproveAccessRequestViews,
     DenyAccessRequestViews, CancelAccessRequestViews, OnGrantChangedViews,
     OnAccessGrantNotActiveViews DEF HandleRequest
<1>2. CASE HandleAccess
  BY <1>2, CheckViews, CreateAccessGrantViews, ExtendAccessGrantViews,
     RevokeAccessGrantViews DEF HandleAccess
<1>3. CASE Project
  BY <1>3, RequestViewShows, AssignViews, CloseViews, DropExtensionsViews,
     GrantShownViews DEF Project
<1>4. CASE \E command \in ClientCommand : Post(command)
  BY <1>4, OutsideViews
<1>5. CASE Tick \/ (\E resource \in Resource : ApplyPolicy(resource))
           \/ UNCHANGED vars
  <2>1. UNCHANGED <<inbox, crashes, applied, request, requestView, task,
                    grantView>>
    BY <1>5 DEF Tick, ApplyPolicy, vars, entities
  <2>. QED BY <2>1, OutsideViews
<1>. QED BY <1>1, <1>2, <1>3, <1>4, <1>5 DEF Next, Deliver

(* What the views show, with the messages still on their way to them, is   *)
(* what the requests say, in every reachable state.                        *)
THEOREM ViewsInvariance == Spec => [](IInv /\ GInv /\ VInv)
<1>. DEFINE Inv == IInv /\ GInv /\ VInv
<1>1. Init => Inv
  BY IInvInit, GInvInit, VInvInit
<1>2. Inv /\ [Next]_vars => Inv'
  BY IInvStep, GInvStep, VInvStep
<1>. HIDE DEF Inv
<1>3. Spec => []Inv
  BY <1>1, <1>2, PTL DEF Spec
<1>. QED BY <1>3 DEF Inv

(* Once all messages are delivered, a requester sees where the request is  *)
(* and who decided it (AccessRequestViewProjection), also when messages are*)
(* handled again.                                                          *)
THEOREM RequestViewsAgree == Spec => []RequestViewAgrees
<1>1. ASSUME IInv, VInv PROVE RequestViewAgrees
  <2>1. ASSUME inbox = <<>>, NEW r \in Request
        PROVE  LET status == request[r].status
                   view == requestView[r]
               IN
               IF status \in Unreviewed THEN view.status = "UNSPECIFIED"
               ELSE /\ view.snapshot = request[r].snapshot
                    /\ IF status = "APPROVAL_STARTED"
                       THEN view.status = "PENDING"
                       ELSE view.status = status
                    /\ (view.decidedBy # NoPerson) <=>
                         status \in {"APPROVAL_STARTED", "APPROVED",
                                     "APPROVAL_FAILED", "DENIED"}
    <3>1. \A kind : Where(kind) = {}
      BY <2>1 DEF Where
    <3>2. RequestShown(r) /\ DeciderKnown(r)
      BY <1>1 DEF VInv
    <3>3. request[r].status \in Status
      BY <1>1 DEF IInv, TypeOK, ProcessState
    <3>. QED BY <3>1, <3>2, <3>3 DEF RequestShown, DeciderKnown, Reviewed,
                                     Settled, Accepted, Unreviewed, Status
  <2>. QED BY <2>1 DEF RequestViewAgrees, Unreviewed
<1>. QED BY <1>1, ViewsInvariance, PTL

(* Once all messages are delivered, a manager's queue holds only what that *)
(* manager may decide and has no outcome, and every pending request is in  *)
(* the queues of all its managers, except an extension of a revoked grant  *)
(* (AccessDecisionAssignmentProjection), also when messages are handled    *)
(* again.                                                                  *)
THEOREM QueuesAgree == Spec => []TasksAgree
<1>1. ASSUME IInv, VInv PROVE TasksAgree
  <2>1. ASSUME inbox = <<>>, NEW p \in Person, NEW r \in Request
        PROVE  LET status == request[r].status
                   snapshot == request[r].snapshot
                   mayDecide == p \in request[r].manager
               IN
               /\ Queued(p, r) =>
                    mayDecide /\ status \in {"PENDING", "APPROVAL_STARTED"}
               /\ status = "PENDING" /\ mayDecide =>
                    \/ Queued(p, r)
                    \/ /\ snapshot.kind = "extension"
                       /\ grantView[snapshot.grant].revoked
    <3>1. \A kind : Where(kind) = {}
      BY <2>1 DEF Where
    <3>2. QueueShown(p, r)
      BY <1>1 DEF VInv
    <3>3. request[r].status \in Status
      BY <1>1 DEF IInv, TypeOK, ProcessState
    <3>4. Queued(p, r) =>
            /\ p \in request[r].manager
            /\ request[r].status \in {"PENDING", "APPROVAL_STARTED"}
      BY <3>1, <3>2, <3>3 DEF QueueShown, Queued, Reviewed, Settled, Status
    <3>5. Lost(r) => /\ request[r].snapshot.kind = "extension"
                     /\ grantView[request[r].snapshot.grant].revoked
      BY <3>1 DEF Lost, SaysExtension, ExtensionSnapshot
    <3>. QED BY <3>1, <3>2, <3>4, <3>5 DEF QueueShown
  <2>. QED BY <2>1 DEF TasksAgree, Queued
<1>. QED BY <1>1, ViewsInvariance, PTL
----------------------------------------------------------------------------
(* How what is shown of a grant is kept by a step. *)

(* The last word on its way stays, until it is what is shown.              *)
LEMMA WordFollows ==
  ASSUME TypeOK, NEW messages \in Seq(Message), NEW left \in {0, 1},
         Came(left, messages), NEW kind, NEW good, Among(messages, kind) = {}
  PROVE  /\ LastWord(kind, good) =>
              \/ LastWord(kind, good)'
              \/ left = 1 /\ inbox[1] \in kind \cap good /\ Where(kind)' = {}
         /\ Where(kind) = {} => Where(kind)' = {}
BY LastWordKept, NoneComes

GrantEvents == ChangeEvents \cup {"AccessGrantRevoked"}

Tellings(g) == OfGrant("GrantView", GrantEvents, g)

LEMMA TellingsAre ==
  ASSUME NEW g
  PROVE  /\ Creations(g) \subseteq Tellings(g)
         /\ Endings(g) \subseteq Tellings(g)
         /\ Fates(g) \subseteq Tellings(g)
         /\ Creations(g) \cap Revocations(g) = {}
BY DEF Creations, Endings, Extensions, Fates, Revocations, Tellings, OfGrant,
       GrantEvents, ChangeEvents

(* The view of the grant changes only as the message at the head says.     *)
Heeds(left, g) ==
  LET new == grantView'[g]
      m == inbox[1]
  IN
  /\ left = 1 /\ m \in Creations(g) => new.known /\ new.start = m.signal.start
  /\ Where(Creations(g)) = {} =>
       /\ new.known = grantView[g].known /\ new.start = grantView[g].start
  /\ left = 1 /\ m \in Endings(g) => new.end = m.signal.end
  /\ Where(Endings(g)) = {} => new.end = grantView[g].end
  /\ left = 1 /\ m \in Creations(g) => ~new.revoked
  /\ left = 1 /\ m \in Revocations(g) => new.revoked
  /\ Where(Fates(g)) = {} => new.revoked = grantView[g].revoked

Uncreated(g) == Where(Creations(g)) = {} /\ ~grantView[g].known

Follows(g) ==
  /\ \A start : StartIs(g, start) => StartIs(g, start)'
  /\ \A end : EndIs(g, end) => EndIs(g, end)'
  /\ RevokedIs(g, TRUE) => RevokedIs(g, TRUE)'
  /\ RevokedIs(g, FALSE) => RevokedIs(g, FALSE)'
  /\ Uncreated(g) => Uncreated(g)'

(* The parts of the view that no message given tells of follow the head.   *)
LEMMA PartsFollow ==
  ASSUME IInv, IInv', NEW messages \in Seq(Message), NEW left \in {0, 1},
         Came(left, messages), NEW g \in Request, Heeds(left, g)
  PROVE  /\ Among(messages, Creations(g)) = {} =>
              /\ \A start : StartIs(g, start) => StartIs(g, start)'
              /\ Uncreated(g) => Uncreated(g)'
         /\ Among(messages, Endings(g)) = {} =>
              \A end : EndIs(g, end) => EndIs(g, end)'
         /\ Among(messages, Fates(g)) = {} =>
              /\ RevokedIs(g, TRUE) => RevokedIs(g, TRUE)'
              /\ RevokedIs(g, FALSE) => RevokedIs(g, FALSE)'
<1>1. /\ TypeOK /\ grantView[g] \in GrantView /\ grantView'[g] \in GrantView
  BY DEF IInv, TypeOK
<1>2. /\ grantView[g].known \in BOOLEAN /\ grantView'[g].known \in BOOLEAN
      /\ grantView[g].revoked \in BOOLEAN /\ grantView'[g].revoked \in BOOLEAN
  BY <1>1 DEF GrantView
<1>3. ASSUME NEW start, StartIs(g, start),
             Among(messages, Creations(g)) = {}
      PROVE  StartIs(g, start)'
  <2>1. PICK kind, good :
         /\ kind = Creations(g)
         /\ good = {m \in Message : m.signal.start = start}
    OBVIOUS
  <2>2. /\ left = 1 /\ inbox[1] \in kind \cap good =>
             grantView'[g].start = start /\ grantView'[g].known
        /\ Where(kind) = {} => /\ grantView'[g].start = grantView[g].start
                               /\ grantView'[g].known = grantView[g].known
    BY <2>1 DEF Heeds
  <2>3. Among(messages, kind) = {}
    BY <1>3, <2>1
  <2>4. /\ LastWord(kind, good) =>
             \/ LastWord(kind, good)'
             \/ left = 1 /\ inbox[1] \in kind \cap good /\ Where(kind)' = {}
        /\ Where(kind) = {} => Where(kind)' = {}
    BY <1>1, <2>3, WordFollows
  <2>. QED BY <1>3, <2>1, <2>2, <2>4 DEF StartIs
<1>4. ASSUME NEW end, EndIs(g, end),
             Among(messages, Endings(g)) = {}
      PROVE  EndIs(g, end)'
  <2>1. PICK kind, good :
         /\ kind = Endings(g)
         /\ good = {m \in Message : m.signal.end = end}
    OBVIOUS
  <2>2. /\ left = 1 /\ inbox[1] \in kind \cap good => grantView'[g].end = end
        /\ Where(kind) = {} => grantView'[g].end = grantView[g].end
    BY <2>1 DEF Heeds
  <2>3. Among(messages, kind) = {}
    BY <1>4, <2>1
  <2>4. /\ LastWord(kind, good) =>
             \/ LastWord(kind, good)'
             \/ left = 1 /\ inbox[1] \in kind \cap good /\ Where(kind)' = {}
        /\ Where(kind) = {} => Where(kind)' = {}
    BY <1>1, <2>3, WordFollows
  <2>. QED BY <1>4, <2>1, <2>2, <2>4 DEF EndIs
<1>5. ASSUME RevokedIs(g, TRUE),
             Among(messages, Fates(g)) = {}
      PROVE  RevokedIs(g, TRUE)'
  <2>1. PICK kind, good :
         /\ kind = Fates(g)
         /\ good = Revocations(g)
    OBVIOUS
  <2>2. /\ left = 1 /\ inbox[1] \in kind \cap good =>
             grantView'[g].revoked = TRUE
        /\ Where(kind) = {} => grantView'[g].revoked = grantView[g].revoked
    BY <1>2, <2>1 DEF Heeds
  <2>3. Among(messages, kind) = {}
    BY <1>5, <2>1
  <2>4. /\ LastWord(kind, good) =>
             \/ LastWord(kind, good)'
             \/ left = 1 /\ inbox[1] \in kind \cap good /\ Where(kind)' = {}
        /\ Where(kind) = {} => Where(kind)' = {}
    BY <1>1, <2>3, WordFollows
  <2>. QED BY <1>5, <2>1, <2>2, <2>4 DEF RevokedIs
<1>6. ASSUME RevokedIs(g, FALSE),
             Among(messages, Fates(g)) = {}
      PROVE  RevokedIs(g, FALSE)'
  <2>1. PICK kind, good :
         /\ kind = Fates(g)
         /\ good = Creations(g)
    OBVIOUS
  <2>2. /\ left = 1 /\ inbox[1] \in kind \cap good =>
             grantView'[g].revoked = FALSE
        /\ Where(kind) = {} => grantView'[g].revoked = grantView[g].revoked
    BY <1>2, <2>1 DEF Heeds
  <2>3. Among(messages, kind) = {}
    BY <1>6, <2>1
  <2>4. /\ LastWord(kind, good) =>
             \/ LastWord(kind, good)'
             \/ left = 1 /\ inbox[1] \in kind \cap good /\ Where(kind)' = {}
        /\ Where(kind) = {} => Where(kind)' = {}
    BY <1>1, <2>3, WordFollows
  <2>. QED BY <1>6, <2>1, <2>2, <2>4 DEF RevokedIs
<1>7. ASSUME Uncreated(g),
             Among(messages, Creations(g)) = {}
      PROVE  Uncreated(g)'
  <2>1. Where(Creations(g)) = {} /\ ~grantView[g].known
    BY <1>7 DEF Uncreated
  <2>2. Where(Creations(g))' = {}
    BY <1>1, <1>7, <2>1, NoneComes
  <2>3. ~grantView'[g].known
    BY <1>2, <2>1 DEF Heeds
  <2>. QED BY <2>2, <2>3 DEF Uncreated
<1>. QED BY <1>3, <1>4, <1>5, <1>6, <1>7

LEMMA GrantFollows ==
  ASSUME IInv, IInv', NEW messages \in Seq(Message), NEW left \in {0, 1},
         Came(left, messages), NEW g \in Request,
         Among(messages, Tellings(g)) = {}, Heeds(left, g)
  PROVE  Follows(g)
<1>1. /\ Among(messages, Creations(g)) = {} /\ Among(messages, Endings(g)) = {}
      /\ Among(messages, Fates(g)) = {}
  BY TellingsAre DEF Among
<1>. QED BY <1>1, PartsFollow DEF Follows

LEMMA GoneFollows ==
  ASSUME TypeOK, now <= now', now' \in Time, NEW g \in Request, Follows(g),
         g \notin KeptGrantIds => GoneShown(g),
         g \in KeptGrantIds /\ g \notin KeptGrantIds' =>
           \E end \in 0 .. now' : EndIs(g, end)
  PROVE  GoneShown(g)'
<1>1. SUFFICES ASSUME g \notin KeptGrantIds' PROVE GoneShown(g)'
  BY DEF GoneShown
<1>2. \/ Uncreated(g) \/ RevokedIs(g, TRUE)
      \/ \E end \in 0 .. now' : EndIs(g, end)
  <2>1. 0 .. now \subseteq 0 .. now'
    BY DEF TypeOK, Time
  <2>. QED BY <1>1, <2>1 DEF GoneShown, Uncreated
<1>3. CASE Uncreated(g)
  <2>1. Uncreated(g)'
    BY <1>3 DEF Follows
  <2>. QED BY <2>1 DEF GoneShown, Uncreated
<1>4. CASE RevokedIs(g, TRUE)
  BY <1>4 DEF GoneShown, Follows
<1>5. CASE \E end \in 0 .. now' : EndIs(g, end)
  <2>1. PICK end \in 0 .. now' : EndIs(g, end)
    BY <1>5
  <2>2. EndIs(g, end)'
    BY <2>1 DEF Follows
  <2>. QED BY <2>1, <2>2 DEF GoneShown
<1>. QED BY <1>2, <1>3, <1>4, <1>5

(* A step that tells of no other grant, and shows this one as it is held.  *)
TellsOnlyOf(g) ==
  /\ \A q \in Request : q # g => Follows(q)
  /\ \A a \in AccessId : \A h \in access'[a].grant :
       \/ h.id # g /\ h \in access[a].grant
       \/ /\ h.id = g /\ StartIs(h.id, h.start)' /\ EndIs(h.id, h.end)'
          /\ RevokedIs(h.id, FALSE)'
  /\ \A a \in AccessId : \A h \in access[a].grant :
       h.id = g \/ h.end <= now' \/ \E k \in access'[a].grant : k.id = h.id
  /\ g \in Request => GoneShown(g)'

LEMMA OtherGrantsShown ==
  ASSUME IInv, IInv', WInv, now <= now', NEW g, TellsOnlyOf(g)
  PROVE  WInv'
<1>1. TypeOK /\ now' \in Time
  BY DEF IInv, TypeOK
<1>2. HeldShown'
  <2>1. ASSUME NEW a \in AccessId, NEW h \in access'[a].grant
        PROVE  /\ StartIs(h.id, h.start)' /\ EndIs(h.id, h.end)'
               /\ RevokedIs(h.id, FALSE)'
    <3>1. CASE h.id # g /\ h \in access[a].grant
      <4>1. h.id \in Request
        BY <1>1, <3>1 DEF TypeOK, Access, Grant
      <4>2. /\ StartIs(h.id, h.start) /\ EndIs(h.id, h.end)
            /\ RevokedIs(h.id, FALSE)
        BY <3>1 DEF WInv, HeldShown
      <4>3. Follows(h.id)
        BY <3>1, <4>1 DEF TellsOnlyOf
      <4>. QED BY <4>2, <4>3 DEF Follows
    <3>. QED BY <3>1 DEF TellsOnlyOf
  <2>. QED BY <2>1 DEF HeldShown
<1>3. ASSUME NEW q \in Request, q # g PROVE GoneShown(q)'
  <2>1. ASSUME q \in KeptGrantIds, q \notin KeptGrantIds'
        PROVE  \E end \in 0 .. now' : EndIs(q, end)
    <3>1. PICK a \in AccessId : \E h \in access[a].grant : h.id = q
      BY <2>1 DEF KeptGrantIds, GrantIds
    <3>2. PICK h \in access[a].grant : h.id = q
      BY <3>1
    <3>3. ~\E k \in access'[a].grant : k.id = q
      BY <2>1 DEF KeptGrantIds, GrantIds
    <3>4. h.end <= now' /\ EndIs(q, h.end)
      BY <1>3, <3>2, <3>3 DEF WInv, HeldShown, TellsOnlyOf
    <3>5. h.end \in Nat /\ now' \in Nat
      BY <1>1 DEF TypeOK, Access, Grant, Time
    <3>. QED BY <3>4, <3>5
  <2>. QED BY <1>1, <1>3, <2>1, GoneFollows DEF WInv, TellsOnlyOf
<1>. QED BY <1>2, <1>3 DEF WInv, TellsOnlyOf

----------------------------------------------------------------------------
(* The steps that tell nothing of grants and change nothing of them.       *)

LEMMA AllFollow ==
  ASSUME IInv, IInv', WInv, now <= now', UNCHANGED access,
         \A g \in Request : Follows(g)
  PROVE  WInv'
<1>1. TypeOK /\ now' \in Time
  BY DEF IInv, TypeOK
<1>2. HeldShown'
  <2>1. ASSUME NEW a \in AccessId, NEW h \in access[a].grant
        PROVE  /\ StartIs(h.id, h.start)' /\ EndIs(h.id, h.end)'
               /\ RevokedIs(h.id, FALSE)'
    <3>1. Follows(h.id)
      BY <1>1 DEF TypeOK, Access, Grant
    <3>2. /\ StartIs(h.id, h.start) /\ EndIs(h.id, h.end)
          /\ RevokedIs(h.id, FALSE)
      BY DEF WInv, HeldShown
    <3>. QED BY <3>1, <3>2 DEF Follows
  <2>. QED BY <2>1 DEF HeldShown
<1>3. ASSUME NEW g \in Request PROVE GoneShown(g)'
  <2>1. KeptGrantIds' = KeptGrantIds
    BY DEF KeptGrantIds
  <2>. QED BY <1>1, <2>1, GoneFollows DEF WInv
<1>. QED BY <1>2, <1>3 DEF WInv

LEMMA QuietShown ==
  ASSUME IInv, IInv', WInv, now <= now', UNCHANGED <<access, grantView>>,
         NEW messages \in Seq(Message), NEW left \in {0, 1},
         Came(left, messages),
         \A j \in 1 .. Len(messages) : messages[j].to # "GrantView",
         left = 0 \/ inbox[1].to # "GrantView"
  PROVE  WInv'
<1>1. ASSUME NEW g \in Request PROVE Follows(g)
  <2>1. Among(messages, Tellings(g)) = {}
    BY DEF Among, Tellings, OfGrant
  <2>2. Heeds(left, g)
    BY DEF Heeds, Creations, Endings, Extensions, Revocations, OfGrant
  <2>. QED BY <2>1, <2>2, GrantFollows
<1>. QED BY <1>1, AllFollow

LEMMA HeadQuiet ==
  ASSUME IInv, NEW entity, entity # "GrantView", NEW types,
         Receives(entity, types), UNCHANGED now
  PROVE  /\ TypeOK /\ inbox # <<>> /\ inbox[1].to # "GrantView"
         /\ now <= now'
BY HeadIs DEF IInv, TypeOK, Time

LEMMA NoneShown ==
  ASSUME IInv, IInv', WInv, NEW entity, entity # "GrantView", NEW types,
         Receives(entity, types), Give(<<>>),
         UNCHANGED <<now, access, grantView>>
  PROVE  WInv'
<1>1. /\ TypeOK /\ inbox # <<>> /\ inbox[1].to # "GrantView" /\ now <= now'
  BY HeadQuiet
<1>2. PICK left \in {0, 1} : Came(left, <<>>)
  BY <1>1, GiveNone
<1>3. /\ <<>> \in Seq(Message)
      /\ \A j \in 1 .. Len(<<>>) : <<>>[j].to # "GrantView"
  OBVIOUS
<1>. QED BY <1>1, <1>2, <1>3, QuietShown

LEMMA OneShown ==
  ASSUME IInv, IInv', WInv, NEW entity, entity # "GrantView", NEW types,
         Receives(entity, types), NEW m, m.to # "GrantView", Give(<<m>>),
         now <= now', UNCHANGED <<access, grantView>>
  PROVE  WInv'
<1>1. /\ TypeOK /\ inbox # <<>> /\ inbox[1].to # "GrantView" /\ TypeOK'
  BY HeadIs DEF IInv
<1>2. PICK left \in {0, 1} : Came(left, <<m>>)
  BY <1>1, GiveOne
<1>3. /\ <<m>> \in Seq(Message)
      /\ \A j \in 1 .. Len(<<m>>) : <<m>>[j].to # "GrantView"
  BY <1>1, GiveOne
<1>. QED BY <1>1, <1>2, <1>3, QuietShown

LEMMA TwoShown ==
  ASSUME IInv, IInv', WInv, NEW entity, entity # "GrantView", NEW types,
         Receives(entity, types), NEW m, NEW n, m.to # "GrantView",
         n.to # "GrantView", Give(<<m, n>>),
         UNCHANGED <<now, access, grantView>>
  PROVE  WInv'
<1>1. /\ TypeOK /\ inbox # <<>> /\ inbox[1].to # "GrantView" /\ now <= now'
      /\ TypeOK'
  BY HeadQuiet DEF IInv
<1>2. PICK left \in {0, 1} : Came(left, <<m, n>>)
  BY <1>1, GiveTwo
<1>3. /\ <<m, n>> \in Seq(Message)
      /\ \A j \in 1 .. Len(<<m, n>>) : <<m, n>>[j].to # "GrantView"
  BY <1>1, GiveTwo
<1>. QED BY <1>1, <1>2, <1>3, QuietShown

LEMMA DropShown ==
  ASSUME IInv, IInv', WInv, NEW entity, entity # "GrantView", NEW types,
         Receives(entity, types), Drop, UNCHANGED now
  PROVE  WInv'
BY NoneShown DEF Drop, entities

LEMMA ToldShown ==
  ASSUME IInv, IInv', WInv, NEW entity, entity # "GrantView", NEW types,
         Receives(entity, types), NEW event, Give(ToProjections(event)),
         UNCHANGED <<now, access, grantView>>
  PROVE  WInv'
<1>. DEFINE m == To("RequestView", event)
            n == To("Decisions", event)
<1>1. Give(<<m, n>>) /\ m.to # "GrantView" /\ n.to # "GrantView"
  BY DEF ToProjections, To
<1>. HIDE DEF m, n
<1>. QED BY <1>1, TwoShown

LEMMA AskShown ==
  ASSUME IInv, IInv', WInv, NEW entity, entity # "GrantView", NEW types,
         Receives(entity, types), NEW to, to # "GrantView", NEW s,
         Give(<<To(to, s)>>), UNCHANGED <<now, access, grantView>>
  PROVE  WInv'
<1>1. PICK m : Give(<<m>>) /\ m.to # "GrantView"
  BY DEF To
<1>. QED BY <1>1, OneShown, SameTime

LEMMA HandleRequestShown ==
  ASSUME IInv, IInv', WInv, HandleRequest PROVE WInv'
<1>1. CASE SubmitAccessRequest
  BY <1>1, AskShown, DropShown DEF SubmitAccessRequest
<1>2. CASE SubmitAccessExtensionRequest
  BY <1>2, AskShown, DropShown DEF SubmitAccessExtensionRequest
<1>3. CASE OnAccessRequestSubmissionStarted
  BY <1>3, AskShown DEF OnAccessRequestSubmissionStarted, entities
<1>4. CASE OnAccessExtensionRequestSubmissionStarted
  BY <1>4, AskShown DEF OnAccessExtensionRequestSubmissionStarted, entities
<1>5. CASE OnRequestedAccessChecked
  BY <1>5, ToldShown, DropShown DEF OnRequestedAccessChecked
<1>6. CASE OnRequestedExtensionChecked
  BY <1>6, ToldShown, DropShown DEF OnRequestedExtensionChecked
<1>7. CASE OnSubmissionRejected
  BY <1>7, NoneShown, DropShown DEF OnSubmissionRejected
<1>8. CASE ApproveAccessRequest
  <2>1. /\ Receives("AccessRequest", {"ApproveAccessRequest"})
        /\ UNCHANGED now
    BY <1>8 DEF ApproveAccessRequest
  <2>2. ASSUME NEW event, Give(<<To("AccessRequest", event),
                                 To("RequestView", event)>>),
               UNCHANGED <<access, grantView>>
        PROVE  WInv'
    <3>. DEFINE m == To("AccessRequest", event)
                n == To("RequestView", event)
    <3>1. Give(<<m, n>>) /\ m.to # "GrantView" /\ n.to # "GrantView"
      BY <2>2 DEF To
    <3>. HIDE DEF m, n
    <3>. QED BY <2>1, <2>2, <3>1, TwoShown
  <2>3. CASE Drop
    BY <2>1, <2>3, DropShown
  <2>. QED BY <1>8, <2>2, <2>3 DEF ApproveAccessRequest
<1>9. CASE DenyAccessRequest
  BY <1>9, ToldShown, DropShown DEF DenyAccessRequest
<1>10. CASE CancelAccessRequest
  BY <1>10, ToldShown, DropShown DEF CancelAccessRequest
<1>11. CASE OnAccessRequestApprovalStarted
  BY <1>11, AskShown DEF OnAccessRequestApprovalStarted, entities
<1>12. CASE OnGrantChanged
  BY <1>12, ToldShown, DropShown DEF OnGrantChanged
<1>13. CASE OnAccessGrantNotActive
  BY <1>13, NoneShown, ToldShown, DropShown DEF OnAccessGrantNotActive
<1>. QED BY <1>1, <1>2, <1>3, <1>4, <1>5, <1>6, <1>7, <1>8, <1>9, <1>10,
            <1>11, <1>12, <1>13 DEF HandleRequest

LEMMA CheckShown ==
  ASSUME IInv, IInv', WInv, CheckRequestedAccess \/ CheckRequestedExtension
  PROVE  WInv'
<1>1. CASE CheckRequestedAccess
  BY <1>1, AskShown DEF CheckRequestedAccess, Answer, entities
<1>2. CASE CheckRequestedExtension
  <2>1. TypeOK /\ (ReadAgain \/ UNCHANGED now)
    BY <1>2 DEF CheckRequestedExtension, IInv
  <2>2. now <= now'
    BY <2>1, ReadingAgain, SameTime
  <2>3. \E type, r, end : Give(Answer(type, r, end))
    BY <1>2 DEF CheckRequestedExtension
  <2>4. PICK m : Give(<<m>>) /\ m.to # "GrantView"
    BY <2>3 DEF Answer, To
  <2>5. /\ Receives("ResourceAccess", {"CheckRequestedExtension"})
        /\ UNCHANGED <<access, grantView>>
    BY <1>2 DEF CheckRequestedExtension, entities
  <2>. QED BY <2>2, <2>4, <2>5, OneShown
<1>. QED BY <1>1, <1>2

LEMMA OtherViewShown ==
  ASSUME IInv, IInv', WInv,
         \/ SeedPending \/ ShowApprovalStarted \/ Settle
         \/ Assign \/ Close \/ DropExtensionsOf
  PROVE  WInv'
BY NoneShown DEF SeedPending, ShowApprovalStarted, Settle, Assign, Close,
                 DropExtensionsOf

(* What clients, the clock and the catalog do. *)
LEMMA OutsideShown ==
  ASSUME IInv, IInv', WInv,
         \/ \E command \in ClientCommand : Post(command)
         \/ Tick
         \/ \E resource \in Resource : ApplyPolicy(resource)
         \/ UNCHANGED vars
  PROVE  WInv'
<1>1. TypeOK /\ TypeOK' /\ now \in Nat
  BY DEF IInv, TypeOK, Time
<1>2. now <= now' /\ UNCHANGED <<access, grantView, crashes, applied>>
  BY <1>1 DEF Post, Tick, ApplyPolicy, vars, entities
<1>3. CASE UNCHANGED inbox
  <2>1. Came(0, <<>>) /\ <<>> \in Seq(Message)
        /\ \A j \in 1 .. Len(<<>>) : <<>>[j].to # "GrantView"
    BY <1>1, <1>2, <1>3, NothingComes
  <2>. QED BY <1>2, <2>1, QuietShown
<1>4. ASSUME NEW command \in ClientCommand, Post(command)
      PROVE  WInv'
  <2>. DEFINE m == To(IF command.type = "RevokeAccessGrant"
                      THEN "ResourceAccess" ELSE "AccessRequest", command)
  <2>1. inbox' = Append(inbox, m) /\ m.to # "GrantView"
    BY <1>4 DEF Post, To
  <2>2. m \in Message /\ m.signal.type \in Prompts
    BY ConstantsAssumption
       DEF To, Message, Entity, Signal, Prompts, SubmitCommand,
           SubmitExtensionCommand, DecisionCommand, RevokeCommand
  <2>. HIDE DEF m
  <2>3. /\ Came(0, <<m>>) /\ <<m>> \in Seq(Message)
        /\ \A j \in 1 .. Len(<<m>>) : <<m>>[j].to # "GrantView"
    BY <1>1, <1>2, <2>1, <2>2, AppendIs
  <2>. QED BY <1>2, <2>3, QuietShown
<1>. QED BY <1>3, <1>4 DEF Tick, ApplyPolicy, vars

----------------------------------------------------------------------------
(* The steps of the projection of the grants. *)

LEMMA GrantViewShown ==
  ASSUME IInv, IInv', WInv, ShowCreated \/ ShowExtended \/ ShowRevoked
  PROVE  WInv'
<1>. DEFINE types == ChangeEvents \cup {"AccessGrantRevoked"}
<1>1. /\ Receives("GrantView", types) /\ Give(<<>>) /\ UNCHANGED <<now, access>>
  BY DEF ShowCreated, ShowExtended, ShowRevoked, Receives, ChangeEvents
<1>2. /\ TypeOK /\ inbox # <<>> /\ now <= now'
      /\ inbox[1] \in Message /\ inbox[1].to = "GrantView"
      /\ inbox[1].signal = received /\ <<>> \in Seq(Message)
  BY <1>1, ProjectionHead DEF IInv, TypeOK, Time
<1>3. PICK left \in {0, 1} : Came(left, <<>>)
  BY <1>1, ProjectionHead
<1>4. 1 \in 1 .. Len(inbox)
  BY <1>1, <1>2, HeadIs
<1>5. \A kind : inbox[1] \in kind => Where(kind) # {}
  BY <1>4 DEF Where
<1>. PICK m : m = inbox[1]
  OBVIOUS
<1>6. ASSUME NEW g \in Request PROVE Heeds(left, g)
  <2>1. CASE received.grant # g
    <3>1. grantView'[g] = grantView[g]
      BY <2>1, ShowCreatedSets, ShowExtendedSets, ShowRevokedSets
    <3>2. /\ m \notin Creations(g) /\ m \notin Endings(g)
          /\ m \notin Revocations(g)
      BY <1>2, <2>1 DEF Creations, Endings, Extensions, Revocations, OfGrant
    <3>. QED BY <3>1, <3>2 DEF Heeds
  <2>2. CASE received.grant = g /\ ShowCreated
    <3>1. received.type = "AccessGrantCreated"
      BY <2>2 DEF ShowCreated, Receives, received
    <3>2. /\ grantView'[g].known /\ ~grantView'[g].revoked
          /\ grantView'[g].start = received.start
          /\ grantView'[g].end = received.end
      BY <2>2, ShowCreatedSets
    <3>3. m \in Creations(g) /\ m \in Endings(g) /\ m \in Fates(g)
          /\ m \notin Revocations(g)
      BY <1>2, <2>2, <3>1
         DEF Creations, Endings, Fates, Revocations, OfGrant
    <3>. QED BY <1>2, <1>5, <3>2, <3>3 DEF Heeds
  <2>3. CASE received.grant = g /\ ShowExtended
    <3>1. received.type = "AccessGrantExtended"
      BY <2>3 DEF ShowExtended, Receives, received
    <3>2. /\ grantView'[g].known = grantView[g].known
          /\ grantView'[g].revoked = grantView[g].revoked
          /\ grantView'[g].start = grantView[g].start
          /\ grantView'[g].end = received.end
      BY <2>3, ShowExtendedSets
    <3>3. m \in Endings(g) /\ m \notin Creations(g) /\ m \notin Revocations(g)
      BY <1>2, <2>3, <3>1
         DEF Creations, Extensions, Endings, Revocations, OfGrant
    <3>. QED BY <1>2, <1>5, <3>2, <3>3 DEF Heeds
  <2>4. CASE received.grant = g /\ ShowRevoked
    <3>1. received.type = "AccessGrantRevoked"
      BY <2>4 DEF ShowRevoked, Receives, received
    <3>2. /\ grantView'[g].known = grantView[g].known
          /\ grantView'[g].revoked
          /\ grantView'[g].start = grantView[g].start
          /\ grantView'[g].end = grantView[g].end
      BY <2>4, ShowRevokedSets
    <3>3. /\ m \notin Endings(g) /\ m \notin Creations(g)
          /\ m \in Revocations(g) /\ m \in Fates(g)
      BY <1>2, <2>4, <3>1
         DEF Creations, Extensions, Endings, Revocations, Fates, OfGrant
    <3>. QED BY <1>2, <1>5, <3>2, <3>3 DEF Heeds
  <2>. QED BY <2>1, <2>2, <2>3, <2>4
<1>7. ASSUME NEW g \in Request PROVE Follows(g)
  <2>1. Among(<<>>, Tellings(g)) = {}
    BY DEF Among
  <2>. QED BY <1>2, <1>3, <1>6, <2>1, GrantFollows
<1>. QED BY <1>1, <1>2, <1>7, AllFollow

----------------------------------------------------------------------------
(* The steps that change a grant and tell of it. *)

LEMMA OneTold ==
  ASSUME IInv, IInv', UNCHANGED grantView, inbox # <<>>,
         inbox[1].to # "GrantView",
         NEW m, NEW n, Give(<<m, n>>), m.to # "GrantView",
         n.to = "GrantView", NEW g \in Request, n.signal.grant = g
  PROVE  /\ n \in Message
         /\ \A q \in Request : q # g => Follows(q)
         /\ n.signal.type = "AccessGrantCreated" =>
              /\ StartIs(g, n.signal.start)' /\ EndIs(g, n.signal.end)'
              /\ RevokedIs(g, FALSE)'
         /\ n.signal.type = "AccessGrantExtended" =>
              /\ EndIs(g, n.signal.end)'
              /\ \A start : StartIs(g, start) => StartIs(g, start)'
              /\ RevokedIs(g, FALSE) => RevokedIs(g, FALSE)'
         /\ n.signal.type = "AccessGrantRevoked" => RevokedIs(g, TRUE)'
<1>1. TypeOK /\ TypeOK'
  BY DEF IInv
<1>2. PICK left \in {0, 1} : Came(left, <<m, n>>)
  BY <1>1, GiveTwo
<1>3. n \in Message /\ <<m, n>> \in Seq(Message)
  BY <1>1, GiveTwo
<1>. PICK messages : messages = <<m, n>>
  OBVIOUS
<1>4. /\ messages \in Seq(Message) /\ Came(left, messages)
      /\ 1 .. Len(messages) = {1, 2}
      /\ messages[1].to # "GrantView" /\ messages[2] = n
  BY <1>2, <1>3
<1>5. \A q \in Request : Heeds(left, q)
  BY DEF Heeds, Creations, Endings, Extensions, Revocations, OfGrant
<1>6. ASSUME NEW q \in Request, q # g PROVE Follows(q)
  <2>1. Among(messages, Tellings(q)) = {}
    BY <1>4, <1>6 DEF Among, Tellings, OfGrant
  <2>. QED BY <1>4, <1>5, <2>1, GrantFollows
<1>7. ASSUME NEW kind, NEW good, kind \subseteq Tellings(g),
             n \in kind, n \in good
      PROVE  LastWord(kind, good)'
  <2>1. 2 \in Among(messages, kind) /\ \A k \in Among(messages, kind) : k <= 2
    BY <1>4, <1>7 DEF Among
  <2>. QED BY <1>1, <1>4, <1>7, <2>1, LastWordComes
<1>8. ASSUME NEW kind, kind \subseteq Tellings(g), n \notin kind
      PROVE  Among(messages, kind) = {}
  BY <1>4, <1>8 DEF Among, Tellings, OfGrant
<1>9. ASSUME n.signal.type = "AccessGrantCreated"
      PROVE  /\ StartIs(g, n.signal.start)' /\ EndIs(g, n.signal.end)'
             /\ RevokedIs(g, FALSE)'
  <2>1. n \in Creations(g) /\ n \in Endings(g) /\ n \in Fates(g)
    BY <1>3, <1>9 DEF Creations, Endings, Fates, OfGrant
  <2>2. LastWord(Creations(g),
                 {k \in Message : k.signal.start = n.signal.start})'
    BY <1>3, <1>7, <2>1, TellingsAre
  <2>3. LastWord(Endings(g), {k \in Message : k.signal.end = n.signal.end})'
    BY <1>3, <1>7, <2>1, TellingsAre
  <2>4. LastWord(Fates(g), Creations(g))'
    BY <1>3, <1>7, <2>1, TellingsAre
  <2>. QED BY <2>2, <2>3, <2>4 DEF StartIs, EndIs, RevokedIs
<1>10. ASSUME n.signal.type = "AccessGrantExtended"
       PROVE  /\ EndIs(g, n.signal.end)'
              /\ \A start : StartIs(g, start) => StartIs(g, start)'
              /\ RevokedIs(g, FALSE) => RevokedIs(g, FALSE)'
  <2>1. n \notin Creations(g) /\ n \in Endings(g) /\ n \notin Fates(g)
    BY <1>3, <1>10
       DEF Creations, Extensions, Endings, Fates, Revocations, OfGrant
  <2>2. LastWord(Endings(g), {k \in Message : k.signal.end = n.signal.end})'
    BY <1>3, <1>7, <2>1, TellingsAre
  <2>3. /\ Among(messages, Creations(g)) = {}
        /\ Among(messages, Fates(g)) = {}
    BY <1>8, <2>1, TellingsAre
  <2>4. /\ \A start : StartIs(g, start) => StartIs(g, start)'
        /\ RevokedIs(g, FALSE) => RevokedIs(g, FALSE)'
    BY <1>4, <1>5, <2>3, PartsFollow
  <2>. QED BY <2>2, <2>4 DEF EndIs
<1>11. ASSUME n.signal.type = "AccessGrantRevoked" PROVE RevokedIs(g, TRUE)'
  <2>1. n \in Revocations(g) /\ n \in Fates(g)
    BY <1>3, <1>11 DEF Fates, Revocations, OfGrant
  <2>2. LastWord(Fates(g), Revocations(g))'
    BY <1>3, <1>7, <2>1, TellingsAre
  <2>. QED BY <2>2 DEF RevokedIs
<1>. QED BY <1>3, <1>6, <1>9, <1>10, <1>11

(* A grant is kept for the one access that its request is about.           *)
LEMMA HeldElsewhere ==
  ASSUME IInv, NEW a \in AccessId, NEW g \in access[a].grant,
         NEW b \in AccessId, NEW h \in access[b].grant, g.id = h.id
  PROVE  a = b
BY DEF IInv, GrantsAreApproved

LEMMA CreateAccessGrantShown ==
  ASSUME IInv, IInv', WInv, CreateAccessGrant PROVE WInv'
<1>. PICK c, g : c = received /\ g = c.request
  OBVIOUS
<1>1. /\ Receives("ResourceAccess", {"CreateAccessGrant"}) /\ UNCHANGED now
  BY DEF CreateAccessGrant
<1>2. /\ c \in CreateGrantCommand /\ Justified(c)
      /\ c.type = "CreateAccessGrant" /\ TypeOK
      /\ inbox # <<>> /\ inbox[1].to = "ResourceAccess" /\ now <= now'
  BY <1>1, Handled, HeadIs, SignalTypes DEF IInv, TypeOK, Time
<1>3. /\ g \in Request /\ c.id \in AccessId
      /\ AccessOf(request[g].snapshot) = c.id
  BY <1>2 DEF CreateGrantCommand, Justified
<1>4. CASE Nonempty(c) /\ g \notin GrantIds(access[c.id])
  <2>. PICK created : created = [id |-> g, level |-> c.level,
                                 start |-> c.start, end |-> c.end]
    OBVIOUS
  <2>1. created.id = g /\ created.start = c.start /\ created.end = c.end
    OBVIOUS
  <2>2. /\ access' = [access EXCEPT ![c.id] =
             [manager |-> c.manager,
              grant |-> GrantsNotEnded(access[c.id], now) \cup {created}]]
        /\ Give(GrantChanged("AccessGrantCreated", g, g, c.start, c.end))
        /\ UNCHANGED grantView
    BY <1>4 DEF CreateAccessGrant
  <2>3. /\ \A a \in AccessId \ {c.id} : access'[a] = access[a]
        /\ access'[c.id].grant
             = GrantsNotEnded(access[c.id], now) \cup {created}
    BY <1>2, <1>3, <2>2 DEF TypeOK
  <2>. DEFINE event == [type |-> "AccessGrantCreated", grant |-> g,
                        request |-> g, start |-> c.start, end |-> c.end]
              m == To("AccessRequest", event)
              n == To("GrantView", event)
  <2>4. /\ Give(<<m, n>>) /\ m.to # "GrantView" /\ n.to = "GrantView"
        /\ n.signal.grant = g /\ n.signal.type = "AccessGrantCreated"
        /\ n.signal.start = c.start /\ n.signal.end = c.end
    BY <2>2 DEF GrantChanged, To
  <2>. HIDE DEF m, n
  <2>5. /\ \A q \in Request : q # g => Follows(q)
        /\ StartIs(g, c.start)' /\ EndIs(g, c.end)' /\ RevokedIs(g, FALSE)'
    <3>1. inbox[1].to # "GrantView"
      BY <1>2
    <3>2. /\ \A q \in Request : q # g => Follows(q)
          /\ StartIs(g, n.signal.start)' /\ EndIs(g, n.signal.end)'
          /\ RevokedIs(g, FALSE)'
      BY <1>2, <1>3, <2>2, <2>4, <3>1, OneTold
    <3>3. PICK start, end : start = c.start /\ end = c.end
      OBVIOUS
    <3>. QED BY <2>4, <3>2, <3>3
  <2>6. ASSUME NEW a \in AccessId, NEW h \in access[a].grant,
               h \in access'[a].grant
        PROVE  h.id # g
    <3>1. AccessOf(request[h.id].snapshot) = a
      BY DEF IInv, GrantsAreApproved
    <3>. QED BY <1>3, <1>4, <3>1 DEF GrantIds
  <2>7. ASSUME NEW a \in AccessId, NEW h \in access'[a].grant
        PROVE  \/ h.id # g /\ h \in access[a].grant
               \/ /\ h.id = g /\ StartIs(h.id, h.start)' /\ EndIs(h.id, h.end)'
                  /\ RevokedIs(h.id, FALSE)'
    <3>1. h \in access[a].grant \/ h = created
      BY <2>3 DEF GrantsNotEnded
    <3>2. CASE h \in access[a].grant
      BY <2>6, <3>2
    <3>3. CASE h = created
      BY <2>1, <2>5, <3>3
    <3>. QED BY <3>1, <3>2, <3>3
  <2>8. ASSUME NEW a \in AccessId, NEW h \in access[a].grant
        PROVE  \/ h.id = g \/ h.end <= now
               \/ \E k \in access'[a].grant : k.id = h.id
    <3>1. h.end \in Nat /\ now \in Nat
      BY <1>2 DEF TypeOK, Access, Grant, Time
    <3>2. h \in access'[a].grant \/ ~(now < h.end)
      BY <2>3 DEF GrantsNotEnded
    <3>. QED BY <3>1, <3>2
  <2>9. g \in KeptGrantIds'
    BY <1>3, <2>1, <2>3 DEF KeptGrantIds, GrantIds
  <2>10. GoneShown(g)'
    BY <2>9 DEF GoneShown
  <2>11. TellsOnlyOf(g)
    BY <1>1, <2>5, <2>7, <2>8, <2>10 DEF TellsOnlyOf
  <2>. QED BY <1>2, <2>11, OtherGrantsShown
<1>5. CASE ~(Nonempty(c) /\ g \notin GrantIds(access[c.id]))
  BY <1>1, <1>5, DropShown DEF CreateAccessGrant
<1>. QED BY <1>4, <1>5

LEMMA RevokeAccessGrantShown ==
  ASSUME IInv, IInv', WInv, RevokeAccessGrant PROVE WInv'
<1>. PICK c, g : c = received /\ g = c.grant
  OBVIOUS
<1>1. /\ Receives("ResourceAccess", {"RevokeAccessGrant"})
      /\ ReadAgain \/ UNCHANGED now
  BY DEF RevokeAccessGrant
<1>2. /\ c \in RevokeCommand /\ TypeOK
      /\ inbox # <<>> /\ inbox[1].to = "ResourceAccess" /\ now <= now'
  BY <1>1, Handled, HeadIs, SignalTypes, ReadingAgain, SameTime DEF IInv
<1>3. g \in Request /\ c.id \in AccessId
  BY <1>2 DEF RevokeCommand
<1>. PICK kept : kept = GrantsNotEnded(access[c.id], now')
  OBVIOUS
<1>. DEFINE revocable == /\ c.person \in access[c.id].manager
                         /\ \E k \in GrantsNotEnded(access[c.id], now) :
                              k.id = g
<1>4. CASE revocable
  <2>1. access' = [access EXCEPT ![c.id].grant = {k \in kept : k.id # g}]
    BY <1>4 DEF RevokeAccessGrant
  <2>2. /\ \A a \in AccessId \ {c.id} : access'[a] = access[a]
        /\ access'[c.id].grant = {k \in kept : k.id # g}
    BY <1>2, <1>3, <2>1 DEF TypeOK, Access
  <2>. DEFINE event == [type |-> "AccessGrantRevoked", grant |-> g,
                        manager |-> access[c.id].manager]
              m == To("Decisions", event)
              n == To("GrantView", event)
  <2>3. Give(<<m, n>>) /\ UNCHANGED grantView
    BY <1>4 DEF RevokeAccessGrant
  <2>4. /\ m.to # "GrantView" /\ n.to = "GrantView"
        /\ n.signal.grant = g /\ n.signal.type = "AccessGrantRevoked"
    BY DEF To
  <2>. HIDE DEF m, n
  <2>5. (\A q \in Request : q # g => Follows(q)) /\ RevokedIs(g, TRUE)'
    <3>1. inbox[1].to # "GrantView"
      BY <1>2
    <3>. QED BY <1>2, <1>3, <2>3, <2>4, <3>1, OneTold
  <2>6. PICK k \in access[c.id].grant : k.id = g
    BY <1>4 DEF GrantsNotEnded
  <2>7. ASSUME NEW a \in AccessId, NEW h \in access'[a].grant
        PROVE  h.id # g /\ h \in access[a].grant
    <3>1. CASE a = c.id
      BY <2>2, <3>1 DEF GrantsNotEnded
    <3>2. CASE a # c.id
      BY <1>3, <2>2, <2>6, <3>2, HeldElsewhere
    <3>. QED BY <3>1, <3>2
  <2>8. ASSUME NEW a \in AccessId, NEW h \in access[a].grant
        PROVE  \/ h.id = g \/ h.end <= now'
               \/ \E x \in access'[a].grant : x.id = h.id
    <3>1. h.end \in Nat /\ now' \in Nat
      BY <1>2 DEF IInv, TypeOK, Access, Grant, Time
    <3>2. \/ h \in access'[a].grant \/ ~(now' < h.end) \/ h.id = g
      BY <2>2 DEF GrantsNotEnded
    <3>. QED BY <3>1, <3>2
  <2>9. GoneShown(g)'
    BY <2>5 DEF GoneShown
  <2>10. TellsOnlyOf(g)
    BY <2>5, <2>7, <2>8, <2>9 DEF TellsOnlyOf
  <2>. QED BY <1>2, <2>10, OtherGrantsShown
<1>5. CASE ~revocable
  <2>1. Drop /\ UNCHANGED now
    BY <1>5 DEF RevokeAccessGrant
  <2>. QED BY <1>1, <2>1, DropShown
<1>. QED BY <1>4, <1>5

(* With a clock that stands still while a grant is extended, none of them  *)
(* ends between the two times that the handler reads.                      *)
LEMMA ExtendAccessGrantShown ==
  ASSUME IInv, IInv', WInv, GInv, ClockStep = 0, ExtendAccessGrant PROVE WInv'
<1>. PICK c, g : c = received /\ g = c.grant
  OBVIOUS
<1>. PICK active : active = ActiveGrants(access[c.id], g, now)
  OBVIOUS
<1>1. Receives("ResourceAccess", {"ExtendAccessGrant"})
  BY DEF ExtendAccessGrant
<1>2. /\ c \in ExtendGrantCommand /\ TypeOK
      /\ inbox # <<>> /\ inbox[1].to = "ResourceAccess"
  BY <1>1, Handled, HeadIs, SignalTypes DEF IInv
<1>3. g \in Request /\ c.id \in AccessId
  BY <1>2 DEF ExtendGrantCommand
<1>4. CASE /\ Give(Answer("AccessGrantNotActive", c.request, Unset))
           /\ UNCHANGED <<now, entities>>
  BY <1>1, <1>4, AskShown DEF Answer, entities
<1>5. CASE Drop /\ UNCHANGED now
  BY <1>1, <1>5, DropShown
<1>6. ASSUME NEW held \in active, c.end > held.end,
             ReadAgain,
             access' = [access EXCEPT ![c.id].grant =
                          Extended(access[c.id], g, c.end, now')],
             Give(GrantChanged("AccessGrantExtended", g, c.request, Unset,
                               c.end)),
             UNCHANGED grantView
      PROVE  WInv'
  <2>1. now \in Nat /\ now' = now /\ now <= now'
    BY <1>2, <1>6 DEF TypeOK, Time, ReadAgain
  <2>2. /\ \A a \in AccessId \ {c.id} : access'[a] = access[a]
        /\ access'[c.id].grant = Extended(access[c.id], g, c.end, now)
        /\ \A a \in AccessId : \A h \in access[a].grant : h \in Grant
    BY <1>2, <1>3, <1>6, <2>1 DEF TypeOK, Access
  <2>3. /\ held \in access[c.id].grant /\ held.id = g /\ now < held.end
    BY <1>6 DEF ActiveGrants
  <2>. DEFINE event == [type |-> "AccessGrantExtended", grant |-> g,
                        request |-> c.request, start |-> Unset,
                        end |-> c.end]
              m == To("AccessRequest", event)
              n == To("GrantView", event)
  <2>4. /\ Give(<<m, n>>) /\ m.to # "GrantView" /\ n.to = "GrantView"
        /\ n.signal.grant = g /\ n.signal.type = "AccessGrantExtended"
        /\ n.signal.end = c.end
    BY <1>6 DEF GrantChanged, To
  <2>. HIDE DEF m, n
  <2>5. /\ \A q \in Request : q # g => Follows(q)
        /\ EndIs(g, n.signal.end)'
        /\ \A start : StartIs(g, start) => StartIs(g, start)'
        /\ RevokedIs(g, FALSE) => RevokedIs(g, FALSE)'
    <3>1. inbox[1].to # "GrantView"
      BY <1>2
    <3>. QED BY <1>2, <1>3, <1>6, <2>4, <3>1, OneTold
  <2>6. PICK end : end = n.signal.end
    OBVIOUS
  <2>7. /\ StartIs(g, held.start)' /\ EndIs(g, end)' /\ RevokedIs(g, FALSE)'
        /\ end = c.end
    <3>1. StartIs(held.id, held.start) /\ RevokedIs(held.id, FALSE)
      BY <1>3, <2>3 DEF WInv, HeldShown
    <3>2. PICK start : start = held.start
      OBVIOUS
    <3>3. StartIs(g, start) /\ RevokedIs(g, FALSE)
      BY <2>3, <3>1, <3>2
    <3>4. StartIs(g, start)' /\ RevokedIs(g, FALSE)' /\ EndIs(g, end)'
      BY <2>5, <2>6, <3>3
    <3>. QED BY <2>4, <2>6, <3>2, <3>4
  <2>8. ASSUME NEW a \in AccessId, NEW h \in access[a].grant, h.id = g
        PROVE  a = c.id /\ h = held
    <3>1. a = c.id
      BY <1>3, <2>3, <2>8, HeldElsewhere
    <3>. QED BY <2>3, <2>8, <3>1 DEF GInv, Distinct
  <2>9. ASSUME NEW old \in Grant
        PROVE  /\ [old EXCEPT !.end = end].id = old.id
               /\ [old EXCEPT !.end = end].start = old.start
               /\ [old EXCEPT !.end = end].end = end
    BY DEF Grant
  <2>10. ASSUME NEW a \in AccessId, NEW h \in access'[a].grant
         PROVE  \/ h.id # g /\ h \in access[a].grant
                \/ /\ h.id = g /\ StartIs(h.id, h.start)'
                   /\ EndIs(h.id, h.end)' /\ RevokedIs(h.id, FALSE)'
    <3>1. CASE a # c.id
      BY <2>2, <2>8, <3>1
    <3>2. CASE a = c.id
      <4>1. PICK old \in access[c.id].grant :
               h = IF old.id = g THEN [old EXCEPT !.end = end] ELSE old
        BY <2>2, <2>7, <3>2 DEF Extended, GrantsNotEnded
      <4>2. CASE old.id # g
        BY <3>2, <4>1, <4>2
      <4>3. CASE old.id = g
        <5>1. old = held /\ old \in Grant
          BY <1>3, <2>2, <2>8, <4>3
        <5>2. h.id = g /\ h.start = held.start /\ h.end = end
          BY <2>9, <4>1, <4>3, <5>1
        <5>. QED BY <2>7, <5>2
      <4>. QED BY <4>2, <4>3
    <3>. QED BY <3>1, <3>2
  <2>11. ASSUME NEW a \in AccessId, NEW h \in access[a].grant
         PROVE  \/ h.id = g \/ h.end <= now
                \/ \E k \in access'[a].grant : k.id = h.id
    <3>1. h.end \in Nat
      BY <2>2 DEF Grant, Time
    <3>2. h \in access'[a].grant \/ ~(now < h.end) \/ h.id = g
      BY <2>2 DEF Extended, GrantsNotEnded
    <3>. QED BY <2>1, <3>1, <3>2
  <2>12. \E k \in access'[c.id].grant : k.id = g
    <3>1. [held EXCEPT !.end = end] \in access'[c.id].grant
      BY <2>2, <2>3, <2>7 DEF Extended, GrantsNotEnded
    <3>. QED BY <1>3, <2>2, <2>3, <2>9, <3>1
  <2>13. g \in KeptGrantIds'
    BY <1>3, <2>12 DEF KeptGrantIds, GrantIds
  <2>14. GoneShown(g)'
    BY <2>13 DEF GoneShown
  <2>15. TellsOnlyOf(g)
    BY <2>1, <2>5, <2>10, <2>11, <2>14 DEF TellsOnlyOf
  <2>. QED BY <2>1, <2>15, OtherGrantsShown
<1>. QED BY <1>4, <1>5, <1>6 DEF ExtendAccessGrant

----------------------------------------------------------------------------
LEMMA WInvInit ==
  ASSUME Init PROVE WInv
<1>1. /\ \A kind : Where(kind) = {}
      /\ \A g \in Request : ~grantView[g].known
      /\ \A a \in AccessId : access[a].grant = {}
  BY DEF Init, Where, NoAccess
<1>. QED BY <1>1 DEF WInv, HeldShown, GoneShown

LEMMA WInvStep ==
  ASSUME IInv, IInv', GInv, WInv, ClockStep = 0, [Next]_vars PROVE WInv'
<1>1. CASE HandleRequest
  BY <1>1, HandleRequestShown
<1>2. CASE HandleAccess
  BY <1>2, CheckShown, CreateAccessGrantShown, ExtendAccessGrantShown,
     RevokeAccessGrantShown DEF HandleAccess
<1>3. CASE Project
  BY <1>3, OtherViewShown, GrantViewShown DEF Project
<1>4. CASE \/ \E command \in ClientCommand : Post(command)
           \/ Tick
           \/ \E resource \in Resource : ApplyPolicy(resource)
           \/ UNCHANGED vars
  BY <1>4, OutsideShown
<1>. QED BY <1>1, <1>2, <1>3, <1>4 DEF Next, Deliver

(* Once all messages are delivered, a grant that is held is shown as it is *)
(* held, and one that is shown as active is held                           *)
(* (AccessGrantViewProjection), also when messages are handled again.  The *)
(* hypothesis is that the clock stands still while a grant is extended:    *)
(* otherwise the handler may drop the grant that its event extends.        *)
THEOREM GrantViewsAgree ==
  ASSUME ClockStep = 0 PROVE Spec => []GrantViewAgrees
<1>. DEFINE Inv == IInv /\ GInv /\ WInv
<1>1. Init => Inv
  BY IInvInit, GInvInit, WInvInit
<1>2. Inv /\ [Next]_vars => Inv'
  BY IInvStep, GInvStep, WInvStep
<1>3. Inv => GrantViewAgrees
  <2>1. SUFFICES ASSUME IInv, WInv, inbox = <<>>
                 PROVE  /\ \A a \in AccessId : \A g \in access[a].grant :
                             LET view == grantView[g.id] IN
                             /\ view.known /\ ~view.revoked
                             /\ view.start = g.start /\ view.end = g.end
                        /\ \A id \in Request :
                             /\ grantView[id].known /\ ~grantView[id].revoked
                             /\ now < grantView[id].end
                             => id \in KeptGrantIds
    BY DEF GrantViewAgrees
  <2>2. \A kind, good : Where(kind) = {} /\ ~LastWord(kind, good)
    BY <2>1 DEF Where, LastWord
  <2>3. ASSUME NEW a \in AccessId, NEW g \in access[a].grant
        PROVE  /\ grantView[g.id].known /\ ~grantView[g.id].revoked
               /\ grantView[g.id].start = g.start
               /\ grantView[g.id].end = g.end
    <3>1. /\ StartIs(g.id, g.start) /\ EndIs(g.id, g.end)
          /\ RevokedIs(g.id, FALSE)
      BY <2>1 DEF WInv, HeldShown
    <3>. QED BY <2>2, <3>1 DEF StartIs, EndIs, RevokedIs
  <2>4. ASSUME NEW id \in Request, grantView[id].known,
               ~grantView[id].revoked, now < grantView[id].end
        PROVE  id \in KeptGrantIds
    <3>1. ~RevokedIs(id, TRUE)
      BY <2>2, <2>4 DEF RevokedIs
    <3>2. ASSUME NEW end \in 0 .. now PROVE ~EndIs(id, end)
      <4>1. now \in Nat
        BY <2>1 DEF IInv, TypeOK, Time
      <4>. QED BY <2>2, <2>4, <4>1 DEF EndIs
    <3>. QED BY <2>1, <2>4, <3>1, <3>2 DEF WInv, GoneShown
  <2>. QED BY <2>3, <2>4
<1>. HIDE DEF Inv
<1>4. Spec => []Inv
  BY <1>1, <1>2, PTL DEF Spec
<1>. QED BY <1>3, <1>4, PTL

==============================================================================
