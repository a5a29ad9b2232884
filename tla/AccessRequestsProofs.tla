------------------------ MODULE AccessRequestsProofs ------------------------
(***************************************************************************)
(* Theorems about AccessRequests for all values of its constants, however  *)
(* long the inbox is and however often a message is handled again.         *)
(***************************************************************************)
EXTENDS AccessRequests, SequenceTheorems, TLAPS

----------------------------------------------------------------------------
(* The inbox. *)

(* What the messages of the inbox say. *)
InFlight == {inbox[i].signal : i \in 1 .. Len(inbox)}

SignalsOf(messages) == {messages[i].signal : i \in 1 .. Len(messages)}

LEMMA InFlightTyped ==
  ASSUME TypeOK PROVE InFlight \subseteq Signal
<1>1. \A i \in 1 .. Len(inbox) : inbox[i] \in Message
  BY ElementOfSeq DEF TypeOK
<1>. QED
  BY <1>1 DEF InFlight, Message

(* A handled message was in the inbox, with a signal of the named type. *)
LEMMA ReceivedInFlight ==
  ASSUME TypeOK, NEW entity, NEW types, Receives(entity, types)
  PROVE  /\ received \in Signal
         /\ received.type \in types
         /\ received \in InFlight
<1>1. inbox \in Seq(Message) /\ inbox # <<>>
  BY DEF TypeOK, Receives
<1>2. Head(inbox) \in Message /\ Head(inbox) = inbox[1] /\ 1 \in 1 .. Len(inbox)
  BY <1>1
<1>. QED
  BY <1>2 DEF Receives, received, Message, InFlight

(* Handling a message adds to the inbox only what the handler gives. *)
LEMMA GiveInFlight ==
  ASSUME TypeOK, inbox # <<>>,
         NEW messages \in Seq(Message), Give(messages)
  PROVE  /\ inbox' \in Seq(Message)
         /\ crashes' \in Nat
         /\ InFlight' \subseteq InFlight \cup SignalsOf(messages)
<1>1. inbox \in Seq(Message) /\ crashes \in Nat
  BY DEF TypeOK
<1>2. /\ Tail(inbox) \in Seq(Message)
      /\ Len(Tail(inbox)) = Len(inbox) - 1
      /\ \A i \in 1 .. Len(Tail(inbox)) : Tail(inbox)[i] = inbox[i + 1]
  BY <1>1, HeadTailProperties
<1>3. CASE inbox' = Tail(inbox) \o messages /\ crashes' = crashes
  <2>1. /\ inbox' \in Seq(Message)
        /\ Len(inbox') = Len(inbox) - 1 + Len(messages)
        /\ \A i \in 1 .. Len(inbox') : inbox'[i] =
             IF i <= Len(inbox) - 1 THEN Tail(inbox)[i]
                                    ELSE messages[i - (Len(inbox) - 1)]
    BY <1>2, <1>3, ConcatProperties
  <2>2. ASSUME NEW i \in 1 .. Len(inbox')
        PROVE  inbox'[i].signal \in InFlight \cup SignalsOf(messages)
    <3>0. Len(inbox) \in Nat /\ Len(messages) \in Nat
      BY <1>1, LenProperties
    <3>1. CASE i <= Len(inbox) - 1
      BY <1>2, <2>1, <3>0, <3>1 DEF InFlight
    <3>2. CASE ~(i <= Len(inbox) - 1)
      <4>1. i - (Len(inbox) - 1) \in 1 .. Len(messages)
        BY <1>1, <2>1, <3>0, <3>2
      <4>. QED
        BY <2>1, <3>2, <4>1 DEF SignalsOf
    <3>. QED BY <3>1, <3>2
  <2>. QED
    BY <1>1, <1>3, <2>1, <2>2 DEF InFlight
<1>4. CASE crashes' = crashes + 1 /\ inbox' = inbox \o messages
  <2>1. /\ inbox' \in Seq(Message)
        /\ Len(inbox') = Len(inbox) + Len(messages)
        /\ \A i \in 1 .. Len(inbox') : inbox'[i] =
             IF i <= Len(inbox) THEN inbox[i] ELSE messages[i - Len(inbox)]
    BY <1>1, <1>4, ConcatProperties
  <2>2. ASSUME NEW i \in 1 .. Len(inbox')
        PROVE  inbox'[i].signal \in InFlight \cup SignalsOf(messages)
    <3>0. Len(inbox) \in Nat /\ Len(messages) \in Nat
      BY <1>1, LenProperties
    <3>1. CASE i <= Len(inbox)
      BY <2>1, <3>0, <3>1 DEF InFlight
    <3>2. CASE ~(i <= Len(inbox))
      <4>1. i - Len(inbox) \in 1 .. Len(messages)
        BY <1>1, <2>1, <3>0, <3>2
      <4>. QED
        BY <2>1, <3>2, <4>1 DEF SignalsOf
    <3>. QED BY <3>1, <3>2
  <2>3. crashes' \in Nat
    BY <1>1, <1>4
  <2>4. InFlight' \subseteq InFlight \cup SignalsOf(messages)
    BY <2>2 DEF InFlight
  <2>. QED
    BY <2>1, <2>3, <2>4
<1>. QED
  BY <1>3, <1>4 DEF Give

(* Sequences of no, one and two messages. *)
LEMMA ShortSequences ==
  /\ <<>> \in Seq(Message) /\ SignalsOf(<<>>) = {}
  /\ \A m \in Message :
       <<m>> \in Seq(Message) /\ SignalsOf(<<m>>) = {m.signal}
  /\ \A m, n \in Message :
       <<m, n>> \in Seq(Message) /\ SignalsOf(<<m, n>>) = {m.signal, n.signal}
  BY DEF SignalsOf

LEMMA PostInFlight ==
  ASSUME TypeOK, NEW m \in Message, inbox' = Append(inbox, m)
  PROVE  inbox' \in Seq(Message) /\ InFlight' = InFlight \cup {m.signal}
  BY DEF TypeOK, InFlight

(* The type of a signal says which fields it has. *)
LEMMA SignalTypes ==
  ASSUME NEW s \in Signal
  PROVE  /\ s.type = "SubmitAccessRequest" => s \in SubmitCommand
         /\ s.type = "SubmitAccessExtensionRequest"
              => s \in SubmitExtensionCommand
         /\ s.type \in {"ApproveAccessRequest", "DenyAccessRequest",
                        "CancelAccessRequest"} => s \in DecisionCommand
         /\ s.type = "RevokeAccessGrant" => s \in RevokeCommand
         /\ s.type = "CheckRequestedAccess" => s \in CheckCommand
         /\ s.type = "CheckRequestedExtension" => s \in CheckExtensionCommand
         /\ s.type = "CreateAccessGrant" => s \in CreateGrantCommand
         /\ s.type = "ExtendAccessGrant" => s \in ExtendGrantCommand
         /\ s.type \in {"AccessRequestSubmissionStarted",
                        "AccessExtensionRequestSubmissionStarted"}
              => s \in SubmissionStartedEvent
         /\ s.type \in {"RequestedAccessChecked", "RequestedExtensionChecked",
                        "AccessAlreadyHeld", "RequestedDurationTooLong",
                        "AccessGrantNotActive"} => s \in AnswerEvent
         /\ s.type \in {"AccessRequestSubmitted",
                        "AccessExtensionRequestSubmitted",
                        "AccessRequestApprovalStarted",
                        "AccessRequestApproved",
                        "AccessRequestApprovalFailed", "AccessRequestDenied",
                        "AccessRequestCanceled"} => s \in RequestEvent
         /\ s.type \in {"AccessGrantCreated", "AccessGrantExtended"}
              => s \in GrantEvent
         /\ s.type = "AccessGrantRevoked" => s \in RevokedEvent
  BY DEF Signal, SubmitCommand, SubmitExtensionCommand, DecisionCommand,
         RevokeCommand, CheckCommand, CheckExtensionCommand,
         CreateGrantCommand, ExtendGrantCommand, SubmissionStartedEvent,
         AnswerEvent, RequestEvent, GrantEvent, RevokedEvent

----------------------------------------------------------------------------
(* The inductive invariant.  A request that was submitted keeps what it    *)
(* says, so a message about it agrees with the request itself: a check and *)
(* its answer are about a request of their own kind, and a grant is only   *)
(* created for a first-time request whose approval was accepted.           *)

SaysNew(r) == request[r].snapshot \in NewSnapshot

SaysExtension(r) == request[r].snapshot \in ExtensionSnapshot

Justified(s) ==
  /\ s.type \in {"AccessRequestSubmissionStarted", "CheckRequestedAccess",
                 "RequestedAccessChecked"} => SaysNew(s.request)
  /\ s.type \in {"AccessExtensionRequestSubmissionStarted",
                 "CheckRequestedExtension", "RequestedExtensionChecked",
                 "AccessGrantNotActive", "ExtendAccessGrant"}
       => SaysExtension(s.request)
  /\ s.type = "AccessRequestApprovalStarted" =>
       IF s.snapshot.kind = "new"
       THEN /\ Approving(s.request)
            /\ s.snapshot = request[s.request].snapshot
            /\ s.whenDecided \in Time
       ELSE SaysExtension(s.request)
  /\ s.type = "CreateAccessGrant" =>
       LET snapshot == request[s.request].snapshot IN
       /\ Approving(s.request)
       /\ snapshot \in NewSnapshot
       /\ AccessOf(snapshot) = s.id
       /\ s.level = snapshot.level

SubmittedSaySomething ==
  \A r \in Request :
    request[r].status # "UNSPECIFIED" => request[r].snapshot \in Snapshot

IInv ==
  /\ TypeOK
  /\ SubmittedSaySomething
  /\ \A s \in InFlight : Justified(s)
  /\ GrantsAreApproved

(* How one request may change: it may be submitted, and then what it says  *)
(* stays, except for the end an extension proposes; and the approval of a  *)
(* first-time request is not undone.                                       *)
Advances(r) ==
  /\ SaysNew(r) => /\ request'[r].snapshot = request[r].snapshot
                   /\ Approving(r) => request'[r].status \in
                                        {"APPROVAL_STARTED", "APPROVED"}
  /\ SaysExtension(r) => request'[r].snapshot \in ExtensionSnapshot

LEMMA JustifiedStays ==
  ASSUME TypeOK, NEW s \in Signal, Justified(s),
         \A r \in Request : Advances(r)
  PROVE  Justified(s)'
<1>1. /\ s.type \in {"AccessRequestSubmissionStarted", "CheckRequestedAccess",
                     "RequestedAccessChecked",
                     "AccessExtensionRequestSubmissionStarted",
                     "CheckRequestedExtension", "RequestedExtensionChecked",
                     "AccessGrantNotActive", "ExtendAccessGrant",
                     "AccessRequestApprovalStarted", "CreateAccessGrant"}
        => s.request \in Request
  BY SignalTypes DEF SubmissionStartedEvent, CheckCommand, AnswerEvent,
     CheckExtensionCommand, ExtendGrantCommand, RequestEvent,
     CreateGrantCommand
<1>2. s.type = "AccessRequestApprovalStarted" /\ s.snapshot.kind = "new"
        => s.snapshot \in NewSnapshot
  BY SignalTypes DEF RequestEvent, Snapshot, ExtensionSnapshot, NewSnapshot
<1>. QED
  BY <1>1, <1>2 DEF Justified, Advances, SaysNew, SaysExtension, Approving

(* A handler that changes neither a request nor a grant. *)
LEMMA QuietStep ==
  ASSUME IInv, inbox # <<>>,
         NEW messages \in Seq(Message), Give(messages),
         \A s \in SignalsOf(messages) : Justified(s),
         UNCHANGED <<request, access>>,
         now' \in Time, open' \in [Resource -> BOOLEAN],
         requestView' \in [Request -> RequestView],
         task' \in [Person -> SUBSET Task],
         grantView' \in [Request -> GrantView],
         applied' \in SUBSET Request
  PROVE  IInv'
<1>1. /\ inbox' \in Seq(Message) /\ crashes' \in Nat
      /\ InFlight' \subseteq InFlight \cup SignalsOf(messages)
  BY GiveInFlight DEF IInv
<1>2. TypeOK'
  BY <1>1 DEF IInv, TypeOK
<1>3. SubmittedSaySomething' /\ GrantsAreApproved'
  BY DEF IInv, SubmittedSaySomething, GrantsAreApproved, Approving
<1>4. \A s \in InFlight' : Justified(s)'
  BY <1>1 DEF IInv, Justified, SaysNew, SaysExtension, Approving
<1>. QED
  BY <1>2, <1>3, <1>4 DEF IInv

(* A handler of the process that changes one request. *)
LEMMA RequestStep ==
  ASSUME IInv, inbox # <<>>,
         NEW messages \in Seq(Message), Give(messages),
         NEW r \in Request, NEW state \in ProcessState,
         request' = [request EXCEPT ![r] = state],
         state.snapshot \in Snapshot, state.status # "UNSPECIFIED",
         Advances(r),
         \A s \in SignalsOf(messages) : Justified(s)',
         UNCHANGED <<now, open, access, requestView, task, grantView, applied>>
  PROVE  IInv'
<1>1. /\ inbox' \in Seq(Message) /\ crashes' \in Nat
      /\ InFlight' \subseteq InFlight \cup SignalsOf(messages)
  BY GiveInFlight DEF IInv
<1>2. TypeOK'
  BY <1>1 DEF IInv, TypeOK
<1>3. SubmittedSaySomething'
  BY DEF IInv, TypeOK, SubmittedSaySomething
<1>4. \A q \in Request : Advances(q)
  BY DEF IInv, TypeOK, Advances, SaysNew, SaysExtension, Approving
<1>5. InFlight \subseteq Signal
  BY InFlightTyped DEF IInv
<1>6. \A s \in InFlight' : Justified(s)'
  BY <1>1, <1>4, <1>5, JustifiedStays DEF IInv
<1>7. GrantsAreApproved'
  <2>1. \A a \in AccessId : \A g \in access[a].grant : g.id \in Request
    BY DEF IInv, TypeOK, Access, Grant
  <2>2. \A q \in Request : Approving(q) /\ request[q].snapshot.kind = "new"
          => SaysNew(q)
    BY DEF IInv, SubmittedSaySomething, Approving, SaysNew, Snapshot,
           ExtensionSnapshot
  <2>. QED
    BY <1>4, <2>1, <2>2 DEF IInv, GrantsAreApproved, Advances, Approving
<1>. QED
  BY <1>2, <1>3, <1>6, <1>7 DEF IInv

(* A handler of a person's access that changes the grants it keeps. *)
LEMMA AccessStep ==
  ASSUME IInv, inbox # <<>>,
         NEW messages \in Seq(Message), Give(messages),
         NEW a \in AccessId, NEW state \in Access,
         access' = [access EXCEPT ![a] = state],
         \A g \in state.grant :
           /\ Approving(g.id)
           /\ request[g.id].snapshot.kind = "new"
           /\ AccessOf(request[g.id].snapshot) = a
           /\ g.level = request[g.id].snapshot.level,
         \A s \in SignalsOf(messages) : Justified(s),
         now' \in Time, applied' \in SUBSET Request,
         UNCHANGED <<open, request, requestView, task, grantView>>
  PROVE  IInv'
<1>1. /\ inbox' \in Seq(Message) /\ crashes' \in Nat
      /\ InFlight' \subseteq InFlight \cup SignalsOf(messages)
  BY GiveInFlight DEF IInv
<1>2. TypeOK'
  BY <1>1 DEF IInv, TypeOK
<1>3. SubmittedSaySomething'
  BY DEF IInv, SubmittedSaySomething
<1>4. \A s \in InFlight' : Justified(s)'
  BY <1>1 DEF IInv, Justified, SaysNew, SaysExtension, Approving
<1>5. GrantsAreApproved'
  BY DEF IInv, TypeOK, GrantsAreApproved, Approving
<1>. QED
  BY <1>2, <1>3, <1>4, <1>5 DEF IInv

----------------------------------------------------------------------------
(* What the handlers have in common. *)

(* The messages that say nothing about a request that must stay true. *)
Claims ==
  {"AccessRequestSubmissionStarted", "CheckRequestedAccess",
   "RequestedAccessChecked", "AccessExtensionRequestSubmissionStarted",
   "CheckRequestedExtension", "RequestedExtensionChecked",
   "AccessGrantNotActive", "ExtendAccessGrant",
   "AccessRequestApprovalStarted", "CreateAccessGrant"}

LEMMA NoClaim ==
  ASSUME NEW s, s.type \notin Claims
  PROVE  Justified(s) /\ Justified(s)'
  BY DEF Claims, Justified

LEMMA Handled ==
  ASSUME IInv, NEW entity, NEW types, Receives(entity, types)
  PROVE  /\ inbox # <<>>
         /\ received \in Signal
         /\ received.type \in types
         /\ Justified(received)
  BY ReceivedInFlight DEF IInv, Receives

LEMMA DropStep ==
  ASSUME IInv, inbox # <<>>, Drop, UNCHANGED <<now, open>>
  PROVE  IInv'
<1>1. /\ <<>> \in Seq(Message) /\ SignalsOf(<<>>) = {}
      /\ Give(<<>>) /\ UNCHANGED entities
  BY ShortSequences DEF Drop
<1>. QED
  BY <1>1, QuietStep DEF IInv, TypeOK, entities

(* One message is given and nothing else changes. *)
LEMMA AskStep ==
  ASSUME IInv, inbox # <<>>, NEW m \in Message, Give(<<m>>),
         Justified(m.signal), UNCHANGED <<now, open, entities>>
  PROVE  IInv'
<1>1. <<m>> \in Seq(Message) /\ SignalsOf(<<m>>) = {m.signal}
  BY ShortSequences
<1>. QED
  BY <1>1, QuietStep DEF IInv, TypeOK, entities

(* A request that was submitted moves on. *)
LEMMA StatusStep ==
  ASSUME IInv, inbox # <<>>,
         NEW messages \in Seq(Message), Give(messages),
         NEW r \in Request, NEW status \in Status \ {"UNSPECIFIED"},
         SetStatus(r, status), request[r].status # "UNSPECIFIED",
         SaysNew(r) /\ Approving(r) => status = "APPROVED",
         \A s \in SignalsOf(messages) : Justified(s)',
         UNCHANGED <<now, open, access, requestView, task, grantView, applied>>
  PROVE  IInv'
<1>. DEFINE state == [request[r] EXCEPT !.status = status]
<1>1. request' = [request EXCEPT ![r] = state]
  BY DEF SetStatus, IInv, TypeOK
<1>2. request[r] \in ProcessState /\ request[r].snapshot \in Snapshot
  BY DEF IInv, TypeOK, SubmittedSaySomething
<1>3. /\ state \in ProcessState
      /\ state.snapshot = request[r].snapshot
      /\ state.status = status
  BY <1>2 DEF ProcessState
<1>4. request'[r] = state
  BY <1>1 DEF IInv, TypeOK
<1>5. Advances(r)
  BY <1>3, <1>4 DEF Advances, SaysNew, SaysExtension, Approving
<1>. HIDE DEF state
<1>. QED
  BY <1>1, <1>2, <1>3, <1>5, RequestStep

LEMMA ProjectionsTold ==
  ASSUME NEW event \in RequestEvent,
         event.type # "AccessRequestApprovalStarted"
  PROVE  /\ ToProjections(event) \in Seq(Message)
         /\ \A s \in SignalsOf(ToProjections(event)) :
              Justified(s) /\ Justified(s)'
<1>1. /\ To("RequestView", event) \in Message
      /\ To("Decisions", event) \in Message
      /\ To("RequestView", event).signal = event
      /\ To("Decisions", event).signal = event
  BY DEF To, Message, Entity, Signal
<1>2. event.type \notin Claims
  BY DEF RequestEvent, Claims
<1>3. SignalsOf(ToProjections(event)) = {event}
  BY <1>1, ShortSequences DEF ToProjections
<1>. QED
  BY <1>1, <1>2, <1>3, ShortSequences, NoClaim DEF ToProjections

LEMMA RequestEventTyped ==
  ASSUME IInv, NEW r \in Request, request[r].status # "UNSPECIFIED",
         NEW person \in PersonOrNone, NEW time \in TimeOrUnset,
         NEW type \in {"AccessRequestSubmitted", "AccessRequestApproved",
                       "AccessExtensionRequestSubmitted",
                       "AccessRequestApprovalStarted",
                       "AccessRequestApprovalFailed", "AccessRequestDenied",
                       "AccessRequestCanceled"}
  PROVE  /\ RequestEventOf(type, r, person, time) \in RequestEvent
         /\ RequestEventOf(type, r, person, time).type = type
  BY DEF RequestEventOf, RequestEvent, IInv, TypeOK, SubmittedSaySomething,
         ProcessState

(* A request that was submitted moves on and the projections are told. *)
LEMMA OutcomeStep ==
  ASSUME IInv, inbox # <<>>,
         NEW r \in Request, NEW status \in Status \ {"UNSPECIFIED"},
         SetStatus(r, status), request[r].status # "UNSPECIFIED",
         SaysNew(r) /\ Approving(r) => status = "APPROVED",
         NEW person \in PersonOrNone, NEW time \in TimeOrUnset,
         NEW type \in {"AccessRequestSubmitted", "AccessRequestApproved",
                       "AccessRequestApprovalFailed", "AccessRequestDenied",
                       "AccessRequestCanceled"},
         Give(ToProjections(RequestEventOf(type, r, person, time))),
         UNCHANGED <<now, open, access, requestView, task, grantView, applied>>
  PROVE  IInv'
<1>. DEFINE event == RequestEventOf(type, r, person, time)
<1>1. event \in RequestEvent /\ event.type # "AccessRequestApprovalStarted"
  BY RequestEventTyped
<1>2. /\ ToProjections(event) \in Seq(Message)
      /\ \A s \in SignalsOf(ToProjections(event)) : Justified(s)'
  BY <1>1, ProjectionsTold
<1>. QED
  BY <1>2, StatusStep

----------------------------------------------------------------------------
(* The steps of the process. *)

LEMMA SubmitAccessRequestStep ==
  ASSUME IInv, SubmitAccessRequest PROVE IInv'
<1>. DEFINE c == received
            snapshot == [kind |-> "new", requester |-> c.requester,
                         resource |-> c.resource, level |-> c.level,
                         period |-> c.period]
            state == [status |-> "SUBMISSION_STARTED", snapshot |-> snapshot,
                      manager |-> PolicyManager[snapshot.resource]]
            event == [type |-> "AccessRequestSubmissionStarted",
                      request |-> c.request, duration |-> 0]
            message == To("AccessRequest", event)
<1>1. inbox # <<>> /\ c \in SubmitCommand
  BY Handled, SignalTypes DEF SubmitAccessRequest
<1>2. CASE Submittable(c)
  <2>1. /\ request' = [request EXCEPT ![c.request] = state]
        /\ Give(<<message>>)
        /\ UNCHANGED <<now, open, access, requestView, task, grantView,
                       applied>>
    BY <1>2 DEF SubmitAccessRequest, Store
  <2>2. /\ snapshot \in NewSnapshot /\ c.request \in Request
        /\ state \in ProcessState /\ state.status # "UNSPECIFIED"
        /\ state.snapshot = snapshot /\ state.snapshot \in Snapshot
    BY <1>1, ConstantsAssumption
       DEF SubmitCommand, NewSnapshot, Snapshot, ProcessState, Status
  <2>3. ~SaysNew(c.request) /\ ~SaysExtension(c.request)
    BY <1>2 DEF Submittable, Unclaimed, SaysNew, SaysExtension, NoSnapshot,
                NewSnapshot, ExtensionSnapshot
  <2>4. message \in Message /\ message.signal = event
    BY <2>2 DEF To, Message, Entity, Signal, SubmissionStartedEvent
  <2>5. /\ <<message>> \in Seq(Message)
        /\ SignalsOf(<<message>>) = {event}
    BY <2>4, ShortSequences
  <2>6. request'[c.request].snapshot \in NewSnapshot
    BY <2>1, <2>2 DEF IInv, TypeOK
  <2>7. \A s \in SignalsOf(<<message>>) : Justified(s)'
    BY <2>5, <2>6 DEF Justified, SaysNew
  <2>8. Advances(c.request)
    BY <2>3 DEF Advances
  <2>. HIDE DEF state, message, c
  <2>. QED
    BY <1>1, <2>1, <2>2, <2>5, <2>7, <2>8, RequestStep
<1>3. CASE ~Submittable(c)
  BY <1>1, <1>3, DropStep DEF SubmitAccessRequest
<1>. QED
  BY <1>2, <1>3

LEMMA SubmitAccessExtensionRequestStep ==
  ASSUME IInv, SubmitAccessExtensionRequest PROVE IInv'
<1>. DEFINE c == received
            snapshot == [kind |-> "extension", requester |-> c.requester,
                         resource |-> c.resource, grant |-> c.grant,
                         proposedEnd |-> Unset]
            state == [status |-> "SUBMISSION_STARTED", snapshot |-> snapshot,
                      manager |-> PolicyManager[snapshot.resource]]
            event == [type |-> "AccessExtensionRequestSubmissionStarted",
                      request |-> c.request, duration |-> c.duration]
            message == To("AccessRequest", event)
<1>1. inbox # <<>> /\ c \in SubmitExtensionCommand
  BY Handled, SignalTypes DEF SubmitAccessExtensionRequest
<1>2. CASE ExtensionSubmittable(c)
  <2>1. /\ request' = [request EXCEPT ![c.request] = state]
        /\ Give(<<message>>)
        /\ UNCHANGED <<now, open, access, requestView, task, grantView,
                       applied>>
    BY <1>2 DEF SubmitAccessExtensionRequest, Store
  <2>2. /\ snapshot \in ExtensionSnapshot /\ c.request \in Request
        /\ state \in ProcessState /\ state.status # "UNSPECIFIED"
        /\ state.snapshot = snapshot /\ state.snapshot \in Snapshot
    BY <1>1, ConstantsAssumption
       DEF SubmitExtensionCommand, ExtensionSnapshot, Snapshot, ProcessState,
           Status, TimeOrUnset
  <2>3. ~SaysNew(c.request) /\ ~SaysExtension(c.request)
    BY <1>2 DEF ExtensionSubmittable, Unclaimed, SaysNew, SaysExtension,
                NoSnapshot, NewSnapshot, ExtensionSnapshot
  <2>4. message \in Message /\ message.signal = event
    BY <1>1 DEF To, Message, Entity, Signal, SubmissionStartedEvent,
                SubmitExtensionCommand
  <2>5. /\ <<message>> \in Seq(Message)
        /\ SignalsOf(<<message>>) = {event}
    BY <2>4, ShortSequences
  <2>6. request'[c.request].snapshot \in ExtensionSnapshot
    BY <2>1, <2>2 DEF IInv, TypeOK
  <2>7. \A s \in SignalsOf(<<message>>) : Justified(s)'
    BY <2>5, <2>6 DEF Justified, SaysExtension
  <2>8. Advances(c.request)
    BY <2>3 DEF Advances
  <2>. HIDE DEF state, message, c
  <2>. QED
    BY <1>1, <2>1, <2>2, <2>5, <2>7, <2>8, RequestStep
<1>3. CASE ~ExtensionSubmittable(c)
  BY <1>1, <1>3, DropStep DEF SubmitAccessExtensionRequest
<1>. QED
  BY <1>2, <1>3

LEMMA IntervalsTyped ==
  ASSUME NEW period \in Period, NEW at \in Time
  PROVE  /\ RequestedInterval(period, at) \in Interval
         /\ EffectiveInterval(period, at) \in Interval
         /\ GrantedInterval(period, at) \in Interval
  BY DEF Period, ImmediatePeriod, ScheduledPeriod, Interval, Time,
         RequestedInterval, EffectiveInterval, GrantedInterval

LEMMA OnAccessRequestSubmissionStartedStep ==
  ASSUME IInv, OnAccessRequestSubmissionStarted PROVE IInv'
<1>. DEFINE r == received.request
            snapshot == request[r].snapshot
            requested == RequestedInterval(snapshot.period, now)
            check == [type |-> "CheckRequestedAccess",
                      id |-> AccessOf(snapshot),
                      request |-> r, level |-> snapshot.level,
                      start |-> requested.start, end |-> requested.end,
                      maximum |-> MaximumDuration[snapshot.resource]]
            message == To("ResourceAccess", check)
<1>1. /\ inbox # <<>> /\ received \in SubmissionStartedEvent
      /\ Justified(received)
      /\ received.type = "AccessRequestSubmissionStarted"
  BY Handled, SignalTypes DEF OnAccessRequestSubmissionStarted
<1>2. r \in Request /\ SaysNew(r)
  BY <1>1 DEF SubmissionStartedEvent, Justified
<1>3. requested \in Interval
  BY <1>2, IntervalsTyped DEF SaysNew, NewSnapshot, IInv, TypeOK
<1>4. check \in CheckCommand
  BY <1>2, <1>3, ConstantsAssumption
     DEF SaysNew, NewSnapshot, CheckCommand, AccessOf, AccessId, Interval
<1>5. message \in Message /\ message.signal = check
  BY <1>4 DEF To, Message, Entity, Signal
<1>6. Justified(check)
  BY <1>2 DEF Justified
<1>7. Give(<<message>>) /\ UNCHANGED <<now, open, entities>>
  BY DEF OnAccessRequestSubmissionStarted
<1>. HIDE DEF check, message
<1>. QED
  BY <1>1, <1>5, <1>6, <1>7, AskStep

LEMMA OnAccessExtensionRequestSubmissionStartedStep ==
  ASSUME IInv, OnAccessExtensionRequestSubmissionStarted PROVE IInv'
<1>. DEFINE r == received.request
            snapshot == request[r].snapshot
            check == [type |-> "CheckRequestedExtension",
                      id |-> AccessOf(snapshot),
                      request |-> r, grant |-> snapshot.grant,
                      duration |-> received.duration,
                      maximum |-> MaximumDuration[snapshot.resource]]
            message == To("ResourceAccess", check)
<1>1. /\ inbox # <<>> /\ received \in SubmissionStartedEvent
      /\ Justified(received)
      /\ received.type = "AccessExtensionRequestSubmissionStarted"
  BY Handled, SignalTypes DEF OnAccessExtensionRequestSubmissionStarted
<1>2. r \in Request /\ SaysExtension(r)
  BY <1>1 DEF SubmissionStartedEvent, Justified
<1>4. check \in CheckExtensionCommand
  BY <1>1, <1>2, ConstantsAssumption
     DEF SaysExtension, ExtensionSnapshot, CheckExtensionCommand, AccessOf,
         AccessId, SubmissionStartedEvent
<1>5. message \in Message /\ message.signal = check
  BY <1>4 DEF To, Message, Entity, Signal
<1>6. Justified(check)
  BY <1>2 DEF Justified
<1>7. Give(<<message>>) /\ UNCHANGED <<now, open, entities>>
  BY DEF OnAccessExtensionRequestSubmissionStarted
<1>. HIDE DEF check, message
<1>. QED
  BY <1>1, <1>5, <1>6, <1>7, AskStep

LEMMA OnRequestedAccessCheckedStep ==
  ASSUME IInv, OnRequestedAccessChecked PROVE IInv'
<1>. DEFINE r == received.request
<1>1. inbox # <<>> /\ r \in Request
  BY Handled, SignalTypes DEF OnRequestedAccessChecked, AnswerEvent
<1>2. CASE BeingSubmitted(r)
  BY <1>1, <1>2, OutcomeStep
     DEF OnRequestedAccessChecked, BeingSubmitted, Approving, Status,
         PersonOrNone, TimeOrUnset
<1>3. CASE ~BeingSubmitted(r)
  BY <1>1, <1>3, DropStep DEF OnRequestedAccessChecked
<1>. QED
  BY <1>2, <1>3

LEMMA OnSubmissionRejectedStep ==
  ASSUME IInv, OnSubmissionRejected PROVE IInv'
<1>. DEFINE r == received.request
<1>1. inbox # <<>> /\ r \in Request
  BY Handled, SignalTypes DEF OnSubmissionRejected, AnswerEvent
<1>2. CASE BeingSubmitted(r)
  BY <1>1, <1>2, ShortSequences, StatusStep
     DEF OnSubmissionRejected, BeingSubmitted, Approving, Status
<1>3. CASE ~BeingSubmitted(r)
  BY <1>1, <1>3, DropStep DEF OnSubmissionRejected
<1>. QED
  BY <1>2, <1>3

LEMMA OnRequestedExtensionCheckedStep ==
  ASSUME IInv, OnRequestedExtensionChecked PROVE IInv'
<1>. DEFINE r == received.request
            plain == RequestEventOf("AccessExtensionRequestSubmitted", r,
                                    NoPerson, Unset)
            event == [plain EXCEPT
                        !.snapshot.proposedEnd = received.proposedEnd]
            state == [request[r] EXCEPT !.status = "PENDING",
                                        !.snapshot = event.snapshot]
<1>1. /\ inbox # <<>> /\ received \in AnswerEvent /\ Justified(received)
      /\ received.type = "RequestedExtensionChecked"
  BY Handled, SignalTypes DEF OnRequestedExtensionChecked
<1>2. /\ r \in Request /\ SaysExtension(r)
      /\ received.proposedEnd \in TimeOrUnset
  BY <1>1 DEF AnswerEvent, Justified
<1>3. CASE BeingSubmitted(r)
  <2>1. /\ request' = [request EXCEPT ![r] = state]
        /\ Give(ToProjections(event))
        /\ UNCHANGED <<now, open, access, requestView, task, grantView,
                       applied>>
    BY <1>3 DEF OnRequestedExtensionChecked
  <2>2. /\ request[r] \in ProcessState
        /\ plain \in RequestEvent
        /\ plain.type = "AccessExtensionRequestSubmitted"
        /\ plain.snapshot = request[r].snapshot
    BY <1>2, <1>3, RequestEventTyped
       DEF BeingSubmitted, IInv, TypeOK, PersonOrNone, TimeOrUnset,
           RequestEventOf
  <2>3. event.snapshot \in ExtensionSnapshot
        /\ event.snapshot =
             [request[r].snapshot EXCEPT !.proposedEnd = received.proposedEnd]
    BY <1>2, <2>2 DEF SaysExtension, ExtensionSnapshot, RequestEvent
  <2>4. event \in RequestEvent /\ event.type = plain.type
    BY <2>2, <2>3 DEF RequestEvent, Snapshot
  <2>5. /\ state \in ProcessState
        /\ state.snapshot = event.snapshot /\ state.status = "PENDING"
    BY <2>2, <2>3 DEF ProcessState, Snapshot, Status
  <2>6. request'[r] = state
    BY <1>2, <2>1 DEF IInv, TypeOK
  <2>7. ~SaysNew(r)
    BY <1>2 DEF SaysNew, SaysExtension, NewSnapshot, ExtensionSnapshot
  <2>8. Advances(r)
    <3>. HIDE DEF state, event
    <3>. QED
      BY <2>3, <2>5, <2>6, <2>7 DEF Advances, SaysExtension
  <2>9. /\ ToProjections(event) \in Seq(Message)
        /\ \A s \in SignalsOf(ToProjections(event)) : Justified(s)'
    BY <2>2, <2>4, ProjectionsTold
  <2>10. state.snapshot \in Snapshot /\ state.status # "UNSPECIFIED"
    BY <2>3, <2>5 DEF Snapshot
  <2>. HIDE DEF state, event, plain
  <2>. QED
    BY <1>1, <1>2, <2>1, <2>5, <2>8, <2>9, <2>10, RequestStep
<1>4. CASE ~BeingSubmitted(r)
  BY <1>1, <1>4, DropStep DEF OnRequestedExtensionChecked
<1>. QED
  BY <1>3, <1>4

LEMMA ApproveAccessRequestStep ==
  ASSUME IInv, ApproveAccessRequest PROVE IInv'
<1>. DEFINE r == received.request
            accepted == Pending(r) /\ Eligible(r, received.person)
            event == RequestEventOf("AccessRequestApprovalStarted", r,
                                    received.person, now)
            messages == <<To("AccessRequest", event),
                          To("RequestView", event)>>
<1>1. /\ inbox # <<>> /\ r \in Request /\ received.person \in PersonOrNone
  BY Handled, SignalTypes DEF ApproveAccessRequest, DecisionCommand
<1>2. CASE accepted
  <2>1. /\ SetStatus(r, "APPROVAL_STARTED")
        /\ Give(messages)
        /\ UNCHANGED <<now, open, access, requestView, task, grantView,
                       applied>>
    BY <1>2 DEF ApproveAccessRequest
  <2>2. request[r].status = "PENDING"
    BY <1>2 DEF Pending
  <2>3. /\ event \in RequestEvent
        /\ event.type = "AccessRequestApprovalStarted"
        /\ event.snapshot = request[r].snapshot
        /\ event.request = r /\ event.whenDecided = now
    BY <1>1, <2>2, RequestEventTyped
       DEF IInv, TypeOK, TimeOrUnset, RequestEventOf
  <2>4. /\ To("AccessRequest", event) \in Message
        /\ To("RequestView", event) \in Message
        /\ To("AccessRequest", event).signal = event
        /\ To("RequestView", event).signal = event
    BY <2>3 DEF To, Message, Entity, Signal
  <2>5. messages \in Seq(Message) /\ SignalsOf(messages) = {event}
    BY <2>4, ShortSequences
  <2>6. /\ request'[r].status = "APPROVAL_STARTED"
        /\ request'[r].snapshot = request[r].snapshot
    BY <1>1, <2>1 DEF SetStatus, IInv, TypeOK, ProcessState
  <2>7. /\ request[r].snapshot.kind # "new" =>
             request'[r].snapshot \in ExtensionSnapshot
        /\ now \in Time
    <3>1. request[r].snapshot \in Snapshot
      BY <1>1, <2>2 DEF IInv, SubmittedSaySomething
    <3>. QED
      BY <2>6, <3>1 DEF Snapshot, NewSnapshot, IInv, TypeOK
  <2>8. \A s \in SignalsOf(messages) : Justified(s)'
    <3>. HIDE DEF event
    <3>. QED
      BY <2>3, <2>5, <2>6, <2>7 DEF Justified, Approving, SaysExtension
  <2>. HIDE DEF messages
  <2>. QED
    BY <1>1, <2>1, <2>2, <2>5, <2>8, StatusStep DEF Approving, Status
<1>3. CASE ~accepted
  BY <1>1, <1>3, DropStep DEF ApproveAccessRequest
<1>. QED
  BY <1>2, <1>3

LEMMA OnAccessRequestApprovalStartedStep ==
  ASSUME IInv, OnAccessRequestApprovalStarted PROVE IInv'
<1>. DEFINE event == received
            command == IF event.snapshot.kind = "new"
                       THEN Creation(event) ELSE Extension(event)
            message == To("ResourceAccess", command)
<1>1. /\ inbox # <<>> /\ event \in RequestEvent /\ Justified(event)
      /\ event.type = "AccessRequestApprovalStarted"
  BY Handled, SignalTypes DEF OnAccessRequestApprovalStarted
<1>2. /\ event.request \in Request /\ event.snapshot \in Snapshot
      /\ event.manager \in SUBSET Person
  BY <1>1 DEF RequestEvent
<1>3. CASE event.snapshot.kind = "new"
  <2>1. /\ event.snapshot \in NewSnapshot
        /\ Approving(event.request)
        /\ event.snapshot = request[event.request].snapshot
        /\ event.whenDecided \in Time
    BY <1>1, <1>2, <1>3 DEF Justified, Snapshot, ExtensionSnapshot
  <2>2. /\ GrantedInterval(event.snapshot.period, event.whenDecided)
             \in Interval
        /\ AccessOf(event.snapshot) \in AccessId
        /\ event.snapshot.level \in Nat
    BY <2>1, IntervalsTyped DEF NewSnapshot, AccessOf, AccessId
  <2>3. Creation(event) \in CreateGrantCommand
    BY <1>2, <2>2 DEF Creation, CreateGrantCommand, Interval
  <2>4. Justified(Creation(event))
    BY <2>1 DEF Creation, Justified
  <2>5. command \in Signal /\ Justified(command)
    BY <1>3, <2>3, <2>4 DEF Signal
  <2>. QED
    BY <1>1, <2>5, AskStep
       DEF OnAccessRequestApprovalStarted, To, Message, Entity
<1>4. CASE event.snapshot.kind # "new"
  <2>1. event.snapshot \in ExtensionSnapshot /\ SaysExtension(event.request)
    BY <1>1, <1>2, <1>4 DEF Justified, Snapshot, NewSnapshot
  <2>2. Extension(event) \in ExtendGrantCommand
    BY <1>2, <2>1 DEF Extension, ExtendGrantCommand, ExtensionSnapshot,
                      AccessOf, AccessId
  <2>3. Justified(Extension(event))
    BY <2>1 DEF Extension, Justified
  <2>4. command \in Signal /\ Justified(command)
    BY <1>4, <2>2, <2>3 DEF Signal
  <2>. QED
    BY <1>1, <2>4, AskStep
       DEF OnAccessRequestApprovalStarted, To, Message, Entity
<1>. QED
  BY <1>3, <1>4

LEMMA OnGrantChangedStep ==
  ASSUME IInv, OnGrantChanged PROVE IInv'
<1>. DEFINE r == received.request
<1>1. inbox # <<>> /\ r \in Request
  BY Handled, SignalTypes DEF OnGrantChanged, GrantEvent
<1>2. CASE BeingApproved(r)
  BY <1>1, <1>2, OutcomeStep
     DEF OnGrantChanged, BeingApproved, Status, PersonOrNone, TimeOrUnset
<1>3. CASE ~BeingApproved(r)
  BY <1>1, <1>3, DropStep DEF OnGrantChanged
<1>. QED
  BY <1>2, <1>3

LEMMA OnAccessGrantNotActiveStep ==
  ASSUME IInv, OnAccessGrantNotActive PROVE IInv'
<1>. DEFINE r == received.request
<1>1. /\ inbox # <<>> /\ received \in AnswerEvent /\ Justified(received)
      /\ received.type = "AccessGrantNotActive"
  BY Handled, SignalTypes DEF OnAccessGrantNotActive
<1>2. r \in Request /\ ~SaysNew(r)
  BY <1>1 DEF AnswerEvent, Justified, SaysNew, SaysExtension, NewSnapshot,
              ExtensionSnapshot
<1>3. CASE BeingSubmitted(r)
  BY <1>1, <1>2, <1>3, ShortSequences, StatusStep, DropStep
     DEF OnAccessGrantNotActive, BeingSubmitted, BeingApproved, Status
<1>4. CASE BeingApproved(r)
  BY <1>1, <1>2, <1>4, OutcomeStep, DropStep
     DEF OnAccessGrantNotActive, BeingSubmitted, BeingApproved, Status,
         PersonOrNone, TimeOrUnset
<1>5. CASE ~BeingSubmitted(r) /\ ~BeingApproved(r)
  BY <1>1, <1>5, DropStep DEF OnAccessGrantNotActive
<1>. QED
  BY <1>3, <1>4, <1>5

LEMMA DenyAccessRequestStep ==
  ASSUME IInv, DenyAccessRequest PROVE IInv'
<1>. DEFINE r == received.request
            accepted == Pending(r) /\ Eligible(r, received.person)
<1>1. /\ inbox # <<>> /\ r \in Request /\ received.person \in PersonOrNone
  BY Handled, SignalTypes DEF DenyAccessRequest, DecisionCommand
<1>2. CASE accepted
  BY <1>1, <1>2, OutcomeStep
     DEF DenyAccessRequest, Pending, Approving, Status, IInv, TypeOK,
         TimeOrUnset
<1>3. CASE ~accepted
  BY <1>1, <1>3, DropStep DEF DenyAccessRequest
<1>. QED
  BY <1>2, <1>3

LEMMA CancelAccessRequestStep ==
  ASSUME IInv, CancelAccessRequest PROVE IInv'
<1>. DEFINE r == received.request
<1>1. /\ inbox # <<>> /\ r \in Request
  BY Handled, SignalTypes DEF CancelAccessRequest, DecisionCommand
<1>2. CASE Pending(r)
  BY <1>1, <1>2, OutcomeStep
     DEF CancelAccessRequest, Pending, Approving, Status, PersonOrNone,
         TimeOrUnset
<1>3. CASE ~Pending(r)
  BY <1>1, <1>3, DropStep DEF CancelAccessRequest
<1>. QED
  BY <1>2, <1>3

----------------------------------------------------------------------------
(* The steps of a person's access. *)

LEMMA AnswerStep ==
  ASSUME IInv, inbox # <<>>,
         NEW type \in {"RequestedAccessChecked", "RequestedExtensionChecked",
                       "AccessAlreadyHeld", "RequestedDurationTooLong",
                       "AccessGrantNotActive"},
         NEW r \in Request, NEW proposedEnd \in TimeOrUnset,
         type = "RequestedAccessChecked" => SaysNew(r),
         type \in {"RequestedExtensionChecked", "AccessGrantNotActive"}
           => SaysExtension(r),
         Give(Answer(type, r, proposedEnd)), now' \in Time,
         UNCHANGED <<open, entities>>
  PROVE  IInv'
<1>. DEFINE event == [type |-> type, request |-> r,
                      proposedEnd |-> proposedEnd]
            message == To("AccessRequest", event)
<1>1. message \in Message /\ message.signal = event
  BY DEF To, Message, Entity, Signal, AnswerEvent
<1>2. Justified(event)
  BY DEF Justified
<1>3. Give(<<message>>)
  BY DEF Answer
<1>. HIDE DEF event, message
<1>4. <<message>> \in Seq(Message) /\ SignalsOf(<<message>>) = {event}
  BY <1>1, ShortSequences
<1>. QED
  BY <1>2, <1>3, <1>4, QuietStep DEF IInv, TypeOK, entities

LEMMA CheckRequestedAccessStep ==
  ASSUME IInv, CheckRequestedAccess PROVE IInv'
<1>. DEFINE r == received.request
<1>1. /\ inbox # <<>> /\ received \in CheckCommand /\ Justified(received)
      /\ received.type = "CheckRequestedAccess"
  BY Handled, SignalTypes DEF CheckRequestedAccess
<1>2. r \in Request /\ SaysNew(r)
  BY <1>1 DEF CheckCommand, Justified
<1>3. \E type \in {"RequestedAccessChecked", "AccessAlreadyHeld",
                   "RequestedDurationTooLong"} :
        Give(Answer(type, r, Unset))
  BY DEF CheckRequestedAccess
<1>4. now' \in Time /\ UNCHANGED <<open, entities>>
  BY DEF CheckRequestedAccess, IInv, TypeOK
<1>. QED
  BY <1>1, <1>2, <1>3, <1>4, AnswerStep DEF TimeOrUnset

LEMMA ActiveGrantsKept ==
  ASSUME TypeOK, NEW a \in AccessId, NEW id, NEW time
  PROVE  /\ ActiveGrants(access[a], id, time) \subseteq access[a].grant
         /\ GrantsNotEnded(access[a], time) \subseteq access[a].grant
         /\ access[a].grant \subseteq Grant
         /\ access[a].manager \subseteq Person
  BY DEF ActiveGrants, GrantsNotEnded, TypeOK, Access

(* Another reading of the clock is no earlier and within the bound.        *)
LEMMA ReadingAgain ==
  ASSUME TypeOK, ReadAgain PROVE now' \in Time /\ now <= now'
BY ConstantsAssumption DEF TypeOK, Time, ReadAgain

LEMMA CheckRequestedExtensionStep ==
  ASSUME IInv, CheckRequestedExtension PROVE IInv'
<1>. DEFINE c == received
            active == ActiveGrants(access[c.id], c.grant, now)
<1>1. /\ inbox # <<>> /\ c \in CheckExtensionCommand /\ Justified(c)
      /\ c.type = "CheckRequestedExtension"
  BY Handled, SignalTypes DEF CheckRequestedExtension
<1>2. /\ c.request \in Request /\ SaysExtension(c.request)
      /\ c.id \in AccessId /\ c.duration \in Nat
  BY <1>1 DEF CheckExtensionCommand, Justified
<1>0. now' \in Time /\ UNCHANGED <<open, entities>>
  <2>1. TypeOK /\ now \in Time
    BY DEF IInv, TypeOK
  <2>2. ReadAgain \/ UNCHANGED now
    BY DEF CheckRequestedExtension
  <2>. QED
    BY <2>1, <2>2, ReadingAgain DEF CheckRequestedExtension
<1>3. CASE active = {}
  BY <1>0, <1>1, <1>2, <1>3, AnswerStep DEF CheckRequestedExtension, TimeOrUnset
<1>4. CASE active # {}
  <2>1. PICK held \in active :
          \/ Give(Answer("RequestedDurationTooLong", c.request, Unset))
          \/ Give(Answer("AccessAlreadyHeld", c.request, Unset))
          \/ Give(Answer("RequestedExtensionChecked", c.request,
                         held.end + c.duration))
    BY <1>4 DEF CheckRequestedExtension
  <2>2. held.end \in Nat
    <3>1. TypeOK
      BY DEF IInv
    <3>2. held \in Grant
      BY <1>2, <3>1, ActiveGrantsKept
    <3>. QED
      BY <3>2 DEF Grant, Time
  <2>3. held.end + c.duration \in TimeOrUnset /\ Unset \in TimeOrUnset
    BY <1>2, <2>2 DEF TimeOrUnset, Time
  <2>. QED
    BY <1>0, <1>1, <1>2, <2>1, <2>3, AnswerStep
<1>. QED
  BY <1>3, <1>4

LEMMA GrantChangedTold ==
  ASSUME NEW type \in {"AccessGrantCreated", "AccessGrantExtended"},
         NEW grant \in Request, NEW r \in Request,
         NEW start \in TimeOrUnset, NEW ends \in Time
  PROVE  /\ GrantChanged(type, grant, r, start, ends) \in Seq(Message)
         /\ \A s \in SignalsOf(GrantChanged(type, grant, r, start, ends)) :
              Justified(s)
<1>. DEFINE event == [type |-> type, grant |-> grant, request |-> r,
                      start |-> start, end |-> ends]
<1>1. event \in GrantEvent /\ event.type \notin Claims
  BY DEF GrantEvent, Claims
<1>. HIDE DEF event
<1>2. /\ To("AccessRequest", event) \in Message
      /\ To("GrantView", event) \in Message
      /\ To("AccessRequest", event).signal = event
      /\ To("GrantView", event).signal = event
  BY <1>1 DEF To, Message, Entity, Signal
<1>3. /\ <<To("AccessRequest", event), To("GrantView", event)>>
           \in Seq(Message)
      /\ SignalsOf(<<To("AccessRequest", event), To("GrantView", event)>>)
           = {event}
  BY <1>2, ShortSequences
<1>4. Justified(event)
  BY <1>1, NoClaim
<1>. USE DEF event
<1>. QED
  BY <1>3, <1>4 DEF GrantChanged

LEMMA CreateAccessGrantStep ==
  ASSUME IInv, CreateAccessGrant PROVE IInv'
<1>. DEFINE c == received
            held == access[c.id]
            issuable == Nonempty(c) /\ c.request \notin GrantIds(held)
            created == [id |-> c.request, level |-> c.level,
                        start |-> c.start, end |-> c.end]
            state == [manager |-> c.manager,
                      grant |-> GrantsNotEnded(held, now) \cup {created}]
            messages == GrantChanged("AccessGrantCreated", c.request,
                                     c.request, c.start, c.end)
<1>1. /\ inbox # <<>> /\ c \in CreateGrantCommand /\ Justified(c)
      /\ c.type = "CreateAccessGrant"
  BY Handled, SignalTypes DEF CreateAccessGrant
<1>2. /\ c.id \in AccessId /\ c.request \in Request /\ c.level \in Nat
      /\ c.start \in Time /\ c.end \in Time /\ c.manager \subseteq Person
  BY <1>1 DEF CreateGrantCommand
<1>3. CASE issuable
  <2>1. /\ access' = [access EXCEPT ![c.id] = state]
        /\ applied' = applied \cup {c.request}
        /\ Give(messages)
        /\ UNCHANGED <<now, open, request, requestView, task, grantView>>
    BY <1>3 DEF CreateAccessGrant
  <2>2. /\ created \in Grant /\ created.id = c.request
        /\ created.level = c.level
    BY <1>2 DEF Grant
  <2>3. state \in Access
    BY <1>2, <2>2, ActiveGrantsKept DEF Access, IInv
  <2>4. /\ Approving(c.request)
        /\ request[c.request].snapshot.kind = "new"
        /\ AccessOf(request[c.request].snapshot) = c.id
        /\ c.level = request[c.request].snapshot.level
    BY <1>1 DEF Justified, NewSnapshot
  <2>5. ASSUME NEW g \in state.grant
        PROVE  /\ Approving(g.id)
               /\ request[g.id].snapshot.kind = "new"
               /\ AccessOf(request[g.id].snapshot) = c.id
               /\ g.level = request[g.id].snapshot.level
    <3>1. CASE g = created
      BY <2>2, <2>4, <3>1
    <3>2. CASE g \in held.grant
      BY <1>2, <3>2 DEF IInv, GrantsAreApproved
    <3>3. g = created \/ g \in held.grant
      BY <1>2, ActiveGrantsKept DEF IInv
    <3>. QED
      BY <3>1, <3>2, <3>3
  <2>6. /\ messages \in Seq(Message)
        /\ \A s \in SignalsOf(messages) : Justified(s)
    BY <1>2, GrantChangedTold DEF TimeOrUnset
  <2>7. now' \in Time /\ applied' \in SUBSET Request
    BY <1>2, <2>1 DEF IInv, TypeOK
  <2>. HIDE DEF c, state, messages
  <2>. QED
    BY <1>1, <1>2, <2>1, <2>3, <2>5, <2>6, <2>7, AccessStep
<1>4. CASE ~issuable
  BY <1>1, <1>4, DropStep DEF CreateAccessGrant
<1>. QED
  BY <1>3, <1>4

(* Moving ends changes nothing that approvals speak of. *)
LEMMA ExtendedGrants ==
  ASSUME TypeOK, NEW a \in AccessId, NEW id \in Request,
         NEW ends \in Time, NEW time
  PROVE  \A g \in Extended(access[a], id, ends, time) :
           /\ g \in Grant
           /\ \E held \in access[a].grant :
                g.id = held.id /\ g.level = held.level
<1>. SUFFICES ASSUME NEW held \in GrantsNotEnded(access[a], time)
              PROVE  LET g == IF held.id = id
                              THEN [held EXCEPT !.end = ends] ELSE held
                     IN g \in Grant /\ g.id = held.id /\ g.level = held.level
  BY ActiveGrantsKept DEF Extended
<1>1. held \in Grant
  BY ActiveGrantsKept
<1>. QED
  BY <1>1 DEF Grant

LEMMA ExtendAccessGrantStep ==
  ASSUME IInv, ExtendAccessGrant PROVE IInv'
<1>. DEFINE c == received
            active == ActiveGrants(access[c.id], c.grant, now)
            state == [access[c.id] EXCEPT !.grant =
                        Extended(access[c.id], c.grant, c.end, now')]
            messages == GrantChanged("AccessGrantExtended", c.grant,
                                     c.request, Unset, c.end)
<1>1. /\ inbox # <<>> /\ c \in ExtendGrantCommand /\ Justified(c)
      /\ c.type = "ExtendAccessGrant"
  BY Handled, SignalTypes DEF ExtendAccessGrant
<1>2. /\ c.id \in AccessId /\ c.request \in Request /\ c.grant \in Request
      /\ c.end \in TimeOrUnset /\ SaysExtension(c.request)
  BY <1>1 DEF ExtendGrantCommand, Justified
<1>3. CASE active = {} /\ Give(Answer("AccessGrantNotActive", c.request, Unset))
                       /\ UNCHANGED <<now, open, entities>>
  <2>1. now' \in Time
    BY <1>3 DEF IInv, TypeOK
  <2>. QED
    BY <1>1, <1>2, <1>3, <2>1, AnswerStep DEF TimeOrUnset
<1>4. CASE Drop /\ UNCHANGED <<now, open>>
  BY <1>1, <1>4, DropStep
<1>5. CASE \E held \in active :
             /\ c.end > held.end
             /\ ReadAgain
             /\ access' = [access EXCEPT ![c.id].grant =
                  Extended(access[c.id], c.grant, c.end, now')]
             /\ applied' = applied \cup {c.request}
             /\ Give(messages)
             /\ UNCHANGED <<open, request, requestView, task, grantView>>
  <2>1. PICK held \in active : c.end > held.end
    BY <1>5
  <2>2. c.end \in Time
    <3>0. TypeOK
      BY DEF IInv
    <3>1. held \in Grant
      BY <1>2, <3>0, ActiveGrantsKept
    <3>2. c.end \in Nat \cup {-1}
      BY <1>2 DEF TimeOrUnset, Unset, Time
    <3>. HIDE DEF c
    <3>. QED
      BY <2>1, <3>1, <3>2 DEF Time, Grant
  <2>3. access' = [access EXCEPT ![c.id] = state]
    BY <1>5
  <2>4. \A g \in Extended(access[c.id], c.grant, c.end, now') :
           /\ g \in Grant
           /\ \E old \in access[c.id].grant :
                g.id = old.id /\ g.level = old.level
    <3>1. TypeOK
      BY DEF IInv
    <3>2. \A time : \A g \in Extended(access[c.id], c.grant, c.end, time) :
            /\ g \in Grant
            /\ \E old \in access[c.id].grant :
                 g.id = old.id /\ g.level = old.level
      BY <1>2, <2>2, <3>1, ExtendedGrants
    <3>. QED
      BY <3>2
  <2>5. /\ state \in Access
        /\ state.grant = Extended(access[c.id], c.grant, c.end, now')
    BY <1>2, <2>4 DEF Access, IInv, TypeOK
  <2>6. \A g \in state.grant :
          /\ Approving(g.id)
          /\ request[g.id].snapshot.kind = "new"
          /\ AccessOf(request[g.id].snapshot) = c.id
          /\ g.level = request[g.id].snapshot.level
    BY <1>2, <2>4, <2>5 DEF IInv, GrantsAreApproved
  <2>7. /\ messages \in Seq(Message)
        /\ \A s \in SignalsOf(messages) : Justified(s)
    BY <1>2, <2>2, GrantChangedTold DEF TimeOrUnset
  <2>8. now' \in Time /\ applied' \in SUBSET Request
    BY <1>2, <1>5, ReadingAgain DEF IInv, TypeOK
  <2>. HIDE DEF c, state, messages
  <2>. QED
    BY <1>1, <1>2, <1>5, <2>3, <2>5, <2>6, <2>7, <2>8, AccessStep
<1>. QED
  BY <1>3, <1>4, <1>5 DEF ExtendAccessGrant

LEMMA RevokeAccessGrantStep ==
  ASSUME IInv, RevokeAccessGrant PROVE IInv'
<1>. DEFINE c == received
            held == access[c.id]
            kept == GrantsNotEnded(held, now')
            revocable == c.person \in held.manager
                         /\ \E g \in GrantsNotEnded(held, now) :
                              g.id = c.grant
            event == [type |-> "AccessGrantRevoked", grant |-> c.grant,
                      manager |-> held.manager]
            state == [held EXCEPT !.grant = {g \in kept : g.id # c.grant}]
            messages == <<To("Decisions", event), To("GrantView", event)>>
<1>1. inbox # <<>> /\ c \in RevokeCommand
  BY Handled, SignalTypes DEF RevokeAccessGrant
<1>2. c.id \in AccessId /\ c.grant \in Request
  BY <1>1 DEF RevokeCommand
<1>3. CASE revocable
  <2>1. /\ access' = [access EXCEPT ![c.id] = state]
        /\ Give(messages) /\ ReadAgain
        /\ UNCHANGED <<open, request, requestView, task, grantView,
                       applied>>
    BY <1>3 DEF RevokeAccessGrant
  <2>2. /\ state \in Access
        /\ state.grant \subseteq held.grant
    BY <1>2, ActiveGrantsKept DEF IInv, TypeOK, Access
  <2>3. \A g \in state.grant :
          /\ Approving(g.id)
          /\ request[g.id].snapshot.kind = "new"
          /\ AccessOf(request[g.id].snapshot) = c.id
          /\ g.level = request[g.id].snapshot.level
    BY <1>2, <2>2 DEF IInv, GrantsAreApproved
  <2>4. event \in RevokedEvent /\ event.type \notin Claims
    BY <1>2, ActiveGrantsKept DEF IInv, RevokedEvent, Claims
  <2>5. messages \in Seq(Message) /\ SignalsOf(messages) = {event}
    <3>. HIDE DEF event
    <3>1. /\ To("Decisions", event) \in Message
          /\ To("GrantView", event) \in Message
          /\ To("Decisions", event).signal = event
          /\ To("GrantView", event).signal = event
      BY <2>4 DEF To, Message, Entity, Signal
    <3>. QED
      BY <3>1, ShortSequences
  <2>6. \A s \in SignalsOf(messages) : Justified(s)
    BY <2>4, <2>5, NoClaim
  <2>7. now' \in Time /\ applied' \in SUBSET Request
    BY <2>1, ReadingAgain DEF IInv, TypeOK
  <2>. HIDE DEF c, state, messages
  <2>. QED
    BY <1>1, <1>2, <2>1, <2>2, <2>3, <2>5, <2>6, <2>7, AccessStep
<1>4. CASE ~revocable
  BY <1>1, <1>4, DropStep DEF RevokeAccessGrant
<1>. QED
  BY <1>3, <1>4

----------------------------------------------------------------------------
(* The steps of the projections. *)

LEMMA ProjectionStep ==
  ASSUME IInv, inbox # <<>>, Give(<<>>),
         requestView' \in [Request -> RequestView],
         task' \in [Person -> SUBSET Task],
         grantView' \in [Request -> GrantView],
         UNCHANGED <<now, open, request, access, applied>>
  PROVE  IInv'
<1>1. <<>> \in Seq(Message) /\ SignalsOf(<<>>) = {}
  BY ShortSequences
<1>. QED
  BY <1>1, QuietStep DEF IInv, TypeOK

LEMMA RequestViewStep ==
  ASSUME IInv, SeedPending \/ ShowApprovalStarted \/ Settle PROVE IInv'
<1>. DEFINE e == received
<1>1. CASE SeedPending
  <2>1. inbox # <<>> /\ e \in RequestEvent
    BY <1>1, Handled, SignalTypes DEF SeedPending
  <2>2. requestView' \in [Request -> RequestView]
    BY <1>1, <2>1
       DEF SeedPending, RequestEvent, IInv, TypeOK, RequestView, Status
  <2>. QED
    BY <1>1, <2>1, <2>2, ProjectionStep DEF SeedPending, IInv, TypeOK
<1>2. CASE ShowApprovalStarted
  <2>1. inbox # <<>> /\ e \in RequestEvent
    BY <1>2, Handled, SignalTypes DEF ShowApprovalStarted
  <2>2. requestView' \in [Request -> RequestView]
    BY <1>2, <2>1
       DEF ShowApprovalStarted, RequestEvent, IInv, TypeOK, RequestView
  <2>. QED
    BY <1>2, <2>1, <2>2, ProjectionStep DEF ShowApprovalStarted, IInv, TypeOK
<1>3. CASE Settle
  <2>1. inbox # <<>> /\ e \in RequestEvent /\ e.type \in SettledEvents
    BY <1>3, Handled, SignalTypes DEF Settle, SettledEvents
  <2>2. SettledAs(e.type) \in Status
    BY <2>1 DEF SettledAs, SettledEvents, Status
  <2>3. DeciderShown(requestView[e.request], e) \in PersonOrNone
    BY <2>1 DEF DeciderShown, RequestEvent, IInv, TypeOK, RequestView
  <2>4. requestView' \in [Request -> RequestView]
    BY <1>3, <2>1, <2>2, <2>3
       DEF Settle, RequestEvent, IInv, TypeOK, RequestView
  <2>. QED
    BY <1>3, <2>1, <2>4, ProjectionStep DEF Settle, IInv, TypeOK
<1>. QED
  BY <1>1, <1>2, <1>3

LEMMA DecisionsStep ==
  ASSUME IInv, Assign \/ Close \/ DropExtensionsOf PROVE IInv'
<1>1. inbox # <<>>
  BY DEF Assign, Close, DropExtensionsOf, Receives
<1>2. task' \in [Person -> SUBSET Task]
  <2>1. CASE Assign
    <3>1. received \in RequestEvent
      BY <2>1, Handled, SignalTypes DEF Assign
    <3>2. [request |-> received.request, snapshot |-> received.snapshot]
            \in Task
      BY <3>1 DEF RequestEvent, Task
    <3>. QED
      BY <2>1, <3>2 DEF Assign, IInv, TypeOK
  <2>2. CASE Close
    BY <2>2 DEF Close, IInv, TypeOK
  <2>3. CASE DropExtensionsOf
    BY <2>3 DEF DropExtensionsOf, IInv, TypeOK
  <2>. QED
    BY <2>1, <2>2, <2>3
<1>. QED
  BY <1>1, <1>2, ProjectionStep
     DEF Assign, Close, DropExtensionsOf, IInv, TypeOK

LEMMA GrantViewStep ==
  ASSUME IInv, ShowCreated \/ ShowExtended \/ ShowRevoked PROVE IInv'
<1>1. inbox # <<>>
  BY DEF ShowCreated, ShowExtended, ShowRevoked, Receives
<1>2. grantView' \in [Request -> GrantView]
  <2>1. CASE ShowCreated
    <3>1. received \in GrantEvent
      BY <2>1, Handled, SignalTypes DEF ShowCreated
    <3>2. /\ received.grant \in Request
          /\ received.start \in TimeOrUnset /\ received.end \in TimeOrUnset
      BY <3>1 DEF GrantEvent, TimeOrUnset
    <3>3. grantView \in [Request -> GrantView]
      BY DEF IInv, TypeOK
    <3>. QED
      BY <2>1, <3>2, <3>3 DEF ShowCreated, GrantView
  <2>2. CASE ShowExtended
    <3>1. received \in GrantEvent
      BY <2>2, Handled, SignalTypes DEF ShowExtended
    <3>2. Append(grantView[received.grant].extension, received.request)
            \in Seq(Request)
      BY <3>1 DEF GrantEvent, GrantView, IInv, TypeOK
    <3>3. received.grant \in Request /\ received.end \in TimeOrUnset
      BY <3>1 DEF GrantEvent, TimeOrUnset
    <3>4. \A view \in GrantView, shown \in Seq(Request),
             ends \in TimeOrUnset :
            [view EXCEPT !.end = ends, !.extension = shown] \in GrantView
      BY DEF GrantView
    <3>5. grantView \in [Request -> GrantView]
      BY DEF IInv, TypeOK
    <3>. DEFINE view == grantView[received.grant]
                shown == [view EXCEPT
                            !.end = received.end,
                            !.extension = Append(view.extension,
                                                 received.request)]
    <3>6. shown \in GrantView
      BY <3>2, <3>3, <3>4, <3>5
    <3>7. grantView' = [grantView EXCEPT ![received.grant] = shown]
      BY <2>2 DEF ShowExtended
    <3>. HIDE DEF shown
    <3>. QED
      BY <3>3, <3>5, <3>6, <3>7
  <2>3. CASE ShowRevoked
    BY <2>3, Handled, SignalTypes
       DEF ShowRevoked, RevokedEvent, GrantView, IInv, TypeOK
  <2>. QED
    BY <2>1, <2>2, <2>3
<1>. QED
  BY <1>1, <1>2, ProjectionStep
     DEF ShowCreated, ShowExtended, ShowRevoked, IInv, TypeOK

----------------------------------------------------------------------------
LEMMA IInvInit ==
  ASSUME Init PROVE IInv
<1>1. /\ request \in [Request -> ProcessState]
      /\ requestView \in [Request -> RequestView]
  BY DEF Init, ProcessState, RequestView, Status, PersonOrNone
<1>2. access \in [AccessId -> Access]
  BY DEF Init, Access, NoAccess
<1>3. grantView \in [Request -> GrantView]
  <2>1. <<>> \in Seq(Request) /\ Unset \in TimeOrUnset
    BY DEF TimeOrUnset
  <2>. QED
    BY <2>1 DEF Init, GrantView
<1>4. TypeOK
  <2>1. <<>> \in Seq(Message) /\ 0 \in Nat
    OBVIOUS
  <2>2. task \in [Person -> SUBSET Task]
    BY DEF Init
  <2>. QED
    BY <1>1, <1>2, <1>3, <2>1, <2>2 DEF Init, TypeOK, Time
<1>5. SubmittedSaySomething
  BY DEF Init, SubmittedSaySomething
<1>6. \A s \in InFlight : Justified(s)
  BY DEF Init, InFlight
<1>7. GrantsAreApproved
  BY DEF Init, GrantsAreApproved, NoAccess
<1>. QED
  BY <1>4, <1>5, <1>6, <1>7 DEF IInv

(* A step that adds at most a client's command to the inbox. *)
LEMMA OutsideStep ==
  ASSUME IInv, UNCHANGED <<entities, crashes>>,
         now' \in Time, open' \in [Resource -> BOOLEAN],
         inbox' \in Seq(Message),
         \A s \in InFlight' \ InFlight : s.type \notin Claims
  PROVE  IInv'
<1>1. TypeOK'
  BY DEF IInv, TypeOK, entities
<1>2. SubmittedSaySomething' /\ GrantsAreApproved'
  BY DEF IInv, SubmittedSaySomething, GrantsAreApproved, Approving, entities
<1>3. \A s \in InFlight : Justified(s)'
  BY DEF IInv, Justified, SaysNew, SaysExtension, Approving, entities
<1>4. \A s \in InFlight' : Justified(s)'
  BY <1>3, NoClaim
<1>. QED
  BY <1>1, <1>2, <1>4 DEF IInv

LEMMA PostStep ==
  ASSUME IInv, NEW command \in ClientCommand, Post(command)
  PROVE  IInv'
<1>. DEFINE message == To(IF command.type = "RevokeAccessGrant"
                          THEN "ResourceAccess" ELSE "AccessRequest",
                          command)
<1>1. /\ command \in SubmitCommand \cup SubmitExtensionCommand
                     \cup DecisionCommand \cup RevokeCommand
  BY ConstantsAssumption
<1>2. command \in Signal /\ command.type \notin Claims
  BY <1>1 DEF Signal, Claims, SubmitCommand, SubmitExtensionCommand,
              DecisionCommand, RevokeCommand
<1>3. message \in Message /\ message.signal = command
  BY <1>2 DEF To, Message, Entity
<1>4. inbox' = Append(inbox, message)
      /\ UNCHANGED <<now, open, entities, crashes>>
  BY DEF Post
<1>. HIDE DEF message
<1>5. inbox' \in Seq(Message) /\ InFlight' = InFlight \cup {command}
  BY <1>3, <1>4, PostInFlight DEF IInv
<1>6. now' \in Time /\ open' \in [Resource -> BOOLEAN]
  BY <1>4 DEF IInv, TypeOK
<1>. QED
  BY <1>2, <1>4, <1>5, <1>6, OutsideStep

LEMMA IInvStep ==
  ASSUME IInv, [Next]_vars PROVE IInv'
<1>1. CASE HandleRequest
  BY <1>1, SubmitAccessRequestStep, SubmitAccessExtensionRequestStep,
     OnAccessRequestSubmissionStartedStep,
     OnAccessExtensionRequestSubmissionStartedStep,
     OnRequestedAccessCheckedStep, OnRequestedExtensionCheckedStep,
     OnSubmissionRejectedStep, ApproveAccessRequestStep,
     DenyAccessRequestStep, CancelAccessRequestStep,
     OnAccessRequestApprovalStartedStep, OnGrantChangedStep,
     OnAccessGrantNotActiveStep DEF HandleRequest
<1>2. CASE HandleAccess
  BY <1>2, CheckRequestedAccessStep, CheckRequestedExtensionStep,
     CreateAccessGrantStep, ExtendAccessGrantStep, RevokeAccessGrantStep
     DEF HandleAccess
<1>3. CASE Project
  BY <1>3, RequestViewStep, DecisionsStep, GrantViewStep DEF Project
<1>4. CASE \E command \in ClientCommand : Post(command)
  BY <1>4, PostStep
<1>5. CASE Tick
  <2>1. now' \in Time /\ UNCHANGED <<open, entities, inbox, crashes>>
    BY <1>5 DEF Tick, IInv, TypeOK, Time
  <2>. QED
    BY <2>1, OutsideStep DEF IInv, TypeOK, InFlight
<1>6. CASE \E resource \in Resource : ApplyPolicy(resource)
  <2>1. /\ open' \in [Resource -> BOOLEAN]
        /\ UNCHANGED <<now, entities, inbox, crashes>>
    BY <1>6 DEF ApplyPolicy, IInv, TypeOK
  <2>. QED
    BY <2>1, OutsideStep DEF IInv, TypeOK, InFlight
<1>7. CASE UNCHANGED vars
  BY <1>7, OutsideStep DEF vars, IInv, TypeOK, InFlight
<1>. QED
  BY <1>1, <1>2, <1>3, <1>4, <1>5, <1>6, <1>7 DEF Next, Deliver

(* The inductive invariant holds in every reachable state.                 *)
THEOREM Invariance == Spec => []IInv
<1>1. Init => IInv
  BY IInvInit
<1>2. IInv /\ [Next]_vars => IInv'
  BY IInvStep
<1>. QED
  BY <1>1, <1>2, PTL DEF Spec

(* Every state and every message in the inbox has its type.  No handler    *)
(* reads a field that its message or its request does not have.            *)
THEOREM TypeCorrect == Spec => []TypeOK
<1>1. IInv => TypeOK
  BY DEF IInv
<1>. QED
  BY <1>1, Invariance, PTL

(* A person holds a grant only because a manager approved their own        *)
(* first-time request for this resource, and at the level it asked for     *)
(* (creation and create), also when messages are handled again.            *)
THEOREM GrantsStayApproved == Spec => []GrantsAreApproved
<1>1. IInv => GrantsAreApproved
  BY DEF IInv
<1>. QED
  BY <1>1, Invariance, PTL
=============================================================================
