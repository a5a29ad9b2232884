------------------------------- MODULE Gateway ------------------------------
(***************************************************************************)
(* The gateway between the browsers and the application server             *)
(* (gateway/gateway.ts, watching.ts, sessions.ts, session-routes.ts):      *)
(*                                                                         *)
(*   request   a browser's requests, and how far the gateway is with each  *)
(*   kept      the subscriptions Spine keeps in the gateway's storage      *)
(*   watched   Watching#watched, the subscriptions held in memory          *)
(*   pending   Watching#pendingActivations, those about to open            *)
(*   ending    how far Sessions.end or endUnresolved is with each session  *)
(*   closing   the subscriptions closeFor has still to cancel              *)
(*                                                                         *)
(* The gateway is one Node program: a step runs to its next await.  A      *)
(* request is resolved to its session first and judged by the policy after *)
(* the read that takes, so a session may end in between.  Spine's part,    *)
(* the durable bindings, is modelled from how Watching uses it: the        *)
(* operations on a subscription run one at a time, and a cancel or an      *)
(* expiry ends the stream before it forgets the subscription.              *)
(***************************************************************************)
EXTENDS FiniteSets, Policy, SessionTokens

CONSTANTS
  Subscription,     \* the identifiers of subscriptions
  Slot,             \* bound: the requests that may be under way at once
  PersonOf,         \* the person of each session
  OrganizationOf,   \* the organization of each session
  Query,            \* the targets browsers query
  Topic,            \* names of what browsers subscribe to
  TargetOf,         \* the target of each topic
  Wait,             \* ACTIVATION_WAIT_MS
  MaxSignOuts,      \* bound: the sign-outs that may be under way at once
  MaxRestarts       \* bound: how often the gateway stops and starts again

NoSession == "no session"
NoContext == [person |-> "nobody", organization |-> NoOrganization]
NoSlot == "no request"
NoSubscription == "no subscription"
NoTopic == "no topic"

ASSUME GatewayConstants ==
  /\ PersonOf \in [Session -> Person]
  /\ OrganizationOf \in [Session -> Organization]
  /\ Query \subseteq Target /\ TargetOf \in [Topic -> Target]
  /\ Wait \in Nat \ {0}
  /\ MaxSignOuts \in Nat /\ MaxRestarts \in Nat
  /\ NoSession \notin Session /\ NoSlot \notin Slot
  /\ NoSubscription \notin Subscription

VARIABLES
  request, kept, watched, pending, ending, closing,
  over,      \* history: the sessions a sign-out ended, and answered with 200
  restarts   \* how often the gateway has stopped

watching == <<watched, pending>>
signOuts == <<ending, closing, over>>
vars == <<tokens, request, kept, watching, signOuts, restarts>>

(* The actor and the tenant of what a session asks for. *)
Context(s) == [person |-> PersonOf[s], organization |-> OrganizationOf[s]]

Idle ==
  [kind |-> "none", session |-> NoSession, sub |-> NoSubscription,
   topic |-> NoTopic, stage |-> "idle"]

Request ==
  [kind : {"none", "subscribe", "activate", "cancel"},
   session : Session \cup {NoSession},
   sub : Subscription \cup {NoSubscription},
   topic : Topic \cup {NoTopic},
   stage : {"idle", "resolved", "allowed", "opening", "open", "aborted"}]

Unmade == [state |-> "unmade", context |-> NoContext, topic |-> NoTopic,
           until |-> 0]
Gone == [Unmade EXCEPT !.state = "gone"]
Definition ==
  [state : {"kept"}, context : Asking, topic : Topic, until : Nat]

(* The late field is history: the session had ended before the claim.      *)
NotPending == [session |-> NoSession, until |-> 0, late |-> FALSE]
Pending == [session : Session, until : Nat, late : BOOLEAN]

NotWatched == [context |-> NoContext, session |-> NoSession,
               stream |-> NoSlot, known |-> FALSE, late |-> FALSE]
Watched ==
  [context : Asking, session : Session \cup {NoSession},
   stream : Slot \cup {NoSlot}, known : BOOLEAN, late : BOOLEAN]

(* Everything the gateway holds is what its types say.                     *)
TypeOK ==
  /\ TokensTypeOK
  /\ request \in [Slot -> Request]
  /\ kept \in [Subscription -> Definition \cup {Unmade, Gone}]
  /\ watched \in [Subscription -> Watched \cup {NotWatched}]
  /\ pending \in [Subscription -> Pending \cup {NotPending}]
  /\ ending \in [Session -> {"no", "closing", "unresolved", "stopping",
                             "failing"}]
  /\ closing \in [Session -> SUBSET Subscription]
  /\ over \subseteq Session
  /\ restarts \in 0..MaxRestarts

Init ==
  /\ InitTokens
  /\ request = [r \in Slot |-> Idle]
  /\ kept = [i \in Subscription |-> Unmade]
  /\ watched = [i \in Subscription |-> NotWatched]
  /\ pending = [i \in Subscription |-> NotPending]
  /\ ending = [s \in Session |-> "no"]
  /\ closing = [s \in Session |-> {}]
  /\ over = {}
  /\ restarts = 0

IsKept(i) == kept[i].state = "kept"
IsWatched(i) == watched[i].context # NoContext

-----------------------------------------------------------------------------
(* Requests. *)

Stage(r, stage) == request' = [request EXCEPT ![r].stage = stage]
Finish(r) == request' = [request EXCEPT ![r] = Idle]

Arrive(r, s, kind, i, t) ==
  /\ request' = [request EXCEPT ![r] =
       [kind |-> kind, session |-> s, sub |-> i, topic |-> t,
        stage |-> "resolved"]]
  /\ UNCHANGED <<tokens, kept, watching, signOuts, restarts>>

(* A request whose token resolves to its session.  There is a subscription *)
(* left to make for one that subscribes.                                   *)
Resolve(r, s) ==
  /\ Accepted(s)
  /\ request[r].stage = "idle"
  /\ \E i \in Subscription :
       \/ /\ kept[i] = Unmade
          /\ \E t \in Topic : Arrive(r, s, "subscribe", NoSubscription, t)
       \/ /\ kept[i] # Unmade
          /\ \E kind \in {"activate", "cancel"} : Arrive(r, s, kind, i, NoTopic)

Resolved(r, kind) == request[r].stage = "resolved" /\ request[r].kind = kind

AskingIn(r) == Context(request[r].session)

IsMember(asking) == asking.person \in MemberOf[asking.organization]

(* A request that the policy or Spine refuses, or that fails on the way.   *)
Refuse(r) ==
  /\ request[r].stage \in {"resolved", "allowed"}
  /\ Finish(r)
  /\ UNCHANGED <<tokens, kept, watching, signOuts, restarts>>

(* Watching.create: the subscription is kept until the session expires.    *)
Create(r) ==
  LET s == request[r].session
  IN  /\ Resolved(r, "subscribe")
      /\ IsMember(AskingIn(r))
      /\ MayRead(TargetOf[request[r].topic], AskingIn(r))
      /\ \E i \in Subscription :
           /\ kept[i] = Unmade
           /\ kept' = [kept EXCEPT ![i] =
                [state |-> "kept", context |-> Context(s),
                 topic |-> request[r].topic, until |-> expires[s]]]
           /\ watched' = [watched EXCEPT ![i] =
                [context |-> Context(s), session |-> NoSession,
                 stream |-> NoSlot, known |-> TRUE, late |-> FALSE]]
      /\ Finish(r)
      /\ UNCHANGED <<tokens, pending, signOuts, restarts>>

-----------------------------------------------------------------------------
(* Watching: a subscription opens in the session of the request that was   *)
(* allowed to open it.                                                     *)

(* The notes still good: claim drops the others first.                     *)
Noted == [i \in Subscription |->
            IF pending[i].until <= now THEN NotPending ELSE pending[i]]

MayClaim(i, s) ==
  /\ Noted[i] = NotPending
  /\ watched[i].stream = NoSlot
  /\ IsWatched(i) => watched[i].context = Context(s)

Claim(r) ==
  LET i == request[r].sub
      s == request[r].session
  IN  /\ Resolved(r, "activate")
      /\ IsMember(AskingIn(r))
      /\ IF MayClaim(i, s)
         THEN /\ pending' = [Noted EXCEPT ![i] =
                   [session |-> s, until |-> now + Wait, late |-> s \in over]]
              /\ Stage(r, "allowed")
         ELSE pending' = Noted /\ Finish(r)
      /\ UNCHANGED <<tokens, kept, watched, signOuts, restarts>>

(* A variant for mutation runs: any person's request takes the note.       *)
MayOpenForAnyone(i, context) ==
  /\ pending[i] # NotPending
  /\ now < pending[i].until
  /\ watched[i].stream = NoSlot

(* Whether the note on a subscription lets a request open it.  Spine tells *)
(* activate the request's person and organization, not its session.        *)
MayOpen(i, context) ==
  /\ pending[i] # NotPending
  /\ now < pending[i].until
  /\ Context(pending[i].session) = context
  /\ watched[i].stream = NoSlot

(* A variant for mutation runs: only what create kept has a context.       *)
AsCreated(i, r) == watched[i].context

(* Who a subscription is held for.  One made before a restart is not known,*)
(* and taken to be the request's.                                          *)
HeldFor(i, r) == IF IsWatched(i) THEN watched[i].context ELSE AskingIn(r)

Activate(r) ==
  LET i == request[r].sub
      note == pending[i]
  IN  /\ request[r].stage = "allowed"
      /\ pending' = [pending EXCEPT ![i] = NotPending]
      /\ IF MayOpen(i, AskingIn(r))
         THEN /\ watched' = [watched EXCEPT ![i] =
                   [context |-> HeldFor(i, r), session |-> note.session,
                    stream |-> r, known |-> watched[i].known,
                    late |-> note.late]]
              /\ Stage(r, "opening")
         ELSE UNCHANGED watched /\ Finish(r)
      /\ UNCHANGED <<tokens, kept, signOuts, restarts>>

(* Spine opens a subscription it keeps for the person, and shows activate  *)
(* its definition.                                                         *)
Open(r) ==
  LET i == request[r].sub
  IN  /\ request[r].stage = "opening"
      /\ IsKept(i) /\ kept[i].context = AskingIn(r) /\ now < kept[i].until
      /\ watched' = [watched EXCEPT ![i].known = TRUE]
      /\ Stage(r, "open")
      /\ UNCHANGED <<tokens, kept, pending, signOuts, restarts>>

(* A variant for mutation runs: what Spine did not open is held on to.     *)
HeldAnyway(i, r) ==
  IF watched[i].stream = r THEN [watched[i] EXCEPT !.stream = NoSlot]
  ELSE watched[i]

(* The watched entry of a stream that is over. *)
Settled(i, r) ==
  CASE watched[i].stream # r -> watched[i]
    [] watched[i].stream = r /\ watched[i].known ->
         [watched[i] EXCEPT !.stream = NoSlot]
    [] watched[i].stream = r /\ ~watched[i].known -> NotWatched

(* A stream ends, or never began: the browser leaves, it is aborted, Spine *)
(* fails or keeps no such subscription for the person.                     *)
EndStream(r) ==
  LET i == request[r].sub
  IN  /\ request[r].stage \in {"opening", "open", "aborted"}
      /\ watched' = [watched EXCEPT ![i] = Settled(i, r)]
      /\ Finish(r)
      /\ UNCHANGED <<tokens, kept, pending, signOuts, restarts>>

(* Aborts the streams of the given requests. *)
Aborted(requests) ==
  [r \in Slot |-> IF r \in requests THEN [request[r] EXCEPT !.stage = "aborted"]
                  ELSE request[r]]

StreamsOf(i) ==
  {r \in Slot : request[r].sub = i /\ request[r].stage \in {"opening", "open"}}

(* Spine forgets a subscription everywhere, and Watching with it.          *)
Forget(i) ==
  /\ kept' = [kept EXCEPT ![i] = Gone]
  /\ watched' = [watched EXCEPT ![i] = NotWatched]

Cancel(r) ==
  LET i == request[r].sub
  IN  /\ Resolved(r, "cancel")
      /\ IsMember(AskingIn(r))
      /\ IsKept(i) /\ kept[i].context = AskingIn(r)
      /\ Forget(i)
      /\ request' = [Aborted(StreamsOf(i)) EXCEPT ![r] = Idle]
      /\ UNCHANGED <<tokens, pending, signOuts, restarts>>

(* The session a subscription was made in expires. *)
Expire(i) ==
  /\ IsKept(i)
  /\ kept[i].until <= now
  /\ Forget(i)
  /\ request' = Aborted(StreamsOf(i))
  /\ UNCHANGED <<tokens, pending, signOuts, restarts>>

(* Spine stops a stream whose session's time has run out. *)
ExpireStream(r) ==
  /\ request[r].stage = "open"
  /\ expires[request[r].session] <= now
  /\ Stage(r, "aborted")
  /\ UNCHANGED <<tokens, kept, watching, signOuts, restarts>>

-----------------------------------------------------------------------------
(* Signing out. *)

(* What closeFor finds: the subscriptions the session opened.              *)
OpenedIn(s) ==
  {i \in Subscription : watched[i].session = s /\ watched[i].known}

(* Bound: how many sign-outs go on at once, and one of each session.       *)
MayBegin(s) ==
  /\ ending[s] = "no"
  /\ Cardinality({o \in Session : ending[o] # "no"}) < MaxSignOuts

(* Sessions.end, of a session whose token resolves. *)
BeginSignOut(s) ==
  /\ Accepted(s)
  /\ MayBegin(s)
  /\ ending' = [ending EXCEPT ![s] = "closing"]
  /\ closing' = [closing EXCEPT ![s] = OpenedIn(s)]
  /\ UNCHANGED <<tokens, request, kept, watching, over, restarts>>

(* Sessions.endUnresolved, of a token that was revoked or that isRevoked   *)
(* fails for.                                                              *)
BeginUnresolved(s) ==
  /\ expires[s] # NoToken
  /\ MayBegin(s)
  /\ ending' = [ending EXCEPT ![s] = "unresolved"]
  /\ UNCHANGED <<tokens, request, kept, watching, closing, over, restarts>>

(* closeFor cancels a subscription with the session's own token, through   *)
(* the gateway's own address.  Of its three attempts any may fail, and one *)
(* that fails may still have cancelled it.                                 *)
CancelAsBrowser(s, i) ==
  /\ ending[s] = "closing"
  /\ i \in closing[s]
  /\ closing' = [closing EXCEPT ![s] = @ \ {i}]
  /\ \/ /\ Accepted(s) /\ IsMember(Context(s))
        /\ IsKept(i) /\ kept[i].context = Context(s)
        /\ Forget(i)
        /\ request' = Aborted(StreamsOf(i))
     \/ UNCHANGED <<request, kept, watched>>
  /\ UNCHANGED <<tokens, pending, ending, over, restarts>>

(* The session's token is revoked, unless it is no longer taken anyway: a  *)
(* token that is not verified ends nothing, and endUnresolved answers 200. *)
Logout(s) ==
  /\ \/ ending[s] = "closing" /\ closing[s] = {}
     \/ ending[s] = "unresolved"
  /\ \/ /\ Verified(s)
        /\ revoked' = Remembered(s)
        /\ ending' = [ending EXCEPT ![s] = "stopping"]
     \/ /\ Verified(s)
        /\ revoked' \in PartlyRemembered(s)
        /\ ending' = [ending EXCEPT ![s] =
                        IF @ = "closing" THEN "failing" ELSE "no"]
     \/ /\ ~Verified(s)
        /\ UNCHANGED revoked
        /\ ending' = [ending EXCEPT ![s] =
                        IF @ = "closing" THEN "stopping" ELSE "no"]
  /\ UNCHANGED <<now, expires, request, kept, watching, closing, over,
                 restarts>>

(* A variant for mutation runs: what is about to open is left. *)
NotesLeft(s) == pending

(* The notes left once a session's are dropped. *)
NotesWithout(s) ==
  [i \in Subscription |-> IF pending[i].session = s THEN NotPending
                          ELSE pending[i]]

(* A variant for mutation runs: the stream counts as over at once.         *)
Released(i) ==
  [watched[i] EXCEPT !.session = NoSession, !.stream = NoSlot]

(* A subscription whose session is over.  Its stream is left to end.       *)
Disowned(i) == [watched[i] EXCEPT !.session = NoSession]

(* Watching.stop: nothing the session opened goes on, and the answer is    *)
(* 200, or 503 when the end could not be remembered.                       *)
Stop(s) ==
  LET opened == {i \in Subscription : watched[i].session = s}
  IN  /\ ending[s] \in {"stopping", "failing"}
      /\ pending' = NotesWithout(s)
      /\ watched' = [i \in Subscription |->
           IF i \in opened THEN Disowned(i) ELSE watched[i]]
      /\ request' = Aborted({watched[i].stream : i \in opened}
                              \cap UNION {StreamsOf(i) : i \in opened})
      /\ over' = IF ending[s] = "stopping" THEN over \cup {s} ELSE over
      /\ ending' = [ending EXCEPT ![s] = "no"]
      /\ UNCHANGED <<tokens, kept, closing, restarts>>

(* The gateway stops and starts again: what it held in memory is lost.     *)
Restart ==
  /\ restarts < MaxRestarts
  /\ restarts' = restarts + 1
  /\ request' = [r \in Slot |-> Idle]
  /\ watched' = [i \in Subscription |-> NotWatched]
  /\ pending' = [i \in Subscription |-> NotPending]
  /\ ending' = [s \in Session |-> "no"]
  /\ closing' = [s \in Session |-> {}]
  /\ UNCHANGED <<tokens, kept, over>>

-----------------------------------------------------------------------------
TokenStep ==
  /\ Tick \/ \E s \in Session : SignIn(s)
  /\ UNCHANGED <<request, kept, watching, signOuts, restarts>>

RequestStep(r) ==
  \/ \E s \in Session : Resolve(r, s)
  \/ Refuse(r) \/ Create(r) \/ Cancel(r)
  \/ Claim(r) \/ Activate(r) \/ Open(r) \/ EndStream(r) \/ ExpireStream(r)

SignOutStep(s) ==
  \/ \E i \in Subscription : CancelAsBrowser(s, i)
  \/ Logout(s) \/ Stop(s)

Next ==
  \/ TokenStep
  \/ \E r \in Slot : RequestStep(r)
  \/ \E s \in Session : BeginSignOut(s) \/ BeginUnresolved(s) \/ SignOutStep(s)
  \/ \E i \in Subscription : Expire(i)
  \/ Restart

Spec == Init /\ [][Next]_vars

-----------------------------------------------------------------------------
(* A session whose sign-out was confirmed is never accepted again: not     *)
(* before its token expires, and not in the minute after it, whatever      *)
(* other sessions' sign-outs delete (sessions.ts:117-131, revoke).         *)
EndedStaysRefused == \A s \in over : ~Accepted(s)

(* Every subscription that opens, is open or is being stopped is held by   *)
(* the request that opened it, so that no second opening waits behind it   *)
(* and a sign-out can stop it (watching.ts:181-192).                       *)
StreamsAreHeld ==
  \A r \in Slot :
     LET i == request[r].sub
     IN  \/ request[r].stage \in {"opening", "open"}
         \/ request[r].stage = "aborted" /\ IsKept(i)
         => watched[i].stream = r

(* A stream is noted for a session of the person who opened it, in their   *)
(* organization, even when the request that was allowed to open it never   *)
(* did (watching.ts:191, 231-244).                                         *)
StreamsAreTheirPersons ==
  \A r \in Slot :
     LET noted == watched[request[r].sub].session
     IN  request[r].stage \in {"opening", "open"} /\ noted # NoSession
           => Context(noted) = AskingIn(r)

(* The gateway holds no subscription Spine has forgotten, except while a   *)
(* request tries to open it (watching.ts:267-270).                         *)
WatchedIsKept ==
  \A i \in Subscription :
     IsWatched(i) /\ watched[i].stream = NoSlot => IsKept(i)

(* What a session opened stops with it: nothing the gateway notes for an   *)
(* ended session was claimed before the session ended (sessions.ts:236-238)*)
SignOutStopsWhatWasClaimed ==
  \A i \in Subscription :
     /\ watched[i].session \in over => watched[i].late
     /\ pending[i].session \in over => pending[i].late

(* Whether every permitted query of a person returns only what concerns    *)
(* them, for each person: pairs, so that TLC computes them once.           *)
WellAnswered(asking) ==
  \A query \in Query :
     IsMember(asking) /\ MayQuery(query, asking)
       => OnlyConcerning(query, TenantOf(query, asking), asking)
Answers == {<<asking, WellAnswered(asking)>> : asking \in Asking}

(* While a session lasts, an answer in it holds only what concerns the     *)
(* person, whatever the query (policy.ts:232-249).                         *)
AnswersConcernTheReader ==
  \A s \in Session : Accepted(s) => <<Context(s), TRUE>> \in Answers

(* An open stream shows only what concerns the person who opened it, even  *)
(* when another session made the subscription (watching.ts:185-190).       *)
StreamsConcernTheReader ==
  \A r \in Slot :
     request[r].stage = "open" =>
       LET shown == kept[request[r].sub]
           target == TargetOf[shown.topic]
       IN  OnlyConcerning(target, TenantOf(target, shown.context), AskingIn(r))

(* Nothing opened in a session stays open once its sign-out was confirmed  *)
(* (sessions.ts:238).                                                      *)
SignedOutHoldsNothing ==
  \A r \in Slot : request[r].stage = "open" => request[r].session \notin over
=============================================================================
