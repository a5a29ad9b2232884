---------------------------- MODULE GatewayProofs ---------------------------
(***************************************************************************)
(* Gateway's safety invariants, for any number of sessions, subscriptions  *)
(* and requests, and any policy constants: the types, that an ended        *)
(* session stays refused, and what holds of subscriptions and their        *)
(* streams.  Each rests on the ones before it.                             *)
(***************************************************************************)
EXTENDS Gateway, PolicyProofs

USE PolicyConstants, SessionTokensConstants, GatewayConstants

-----------------------------------------------------------------------------
(* Types. *)

(* What a request names exists, once it was let in. *)
RequestsNameThings ==
  \A r \in Slot :
    /\ request[r].stage # "idle" => request[r].session \in Session
    /\ request[r].kind = "subscribe" => request[r].topic \in Topic
    /\ request[r].kind \in {"activate", "cancel"} =>
         request[r].sub \in Subscription
    /\ request[r].sub \in Subscription => kept[request[r].sub] # Unmade
    /\ request[r].stage \in {"allowed", "opening", "open", "aborted"} =>
         request[r].kind = "activate"

Typed == TypeOK /\ RequestsNameThings

LEMMA ContextType ==
  ASSUME NEW s \in Session
  PROVE  Context(s) \in Asking /\ Context(s) # NoContext
BY DEF Context, Asking, NoContext

LEMMA AskingType ==
  ASSUME Typed, NEW r \in Slot, request[r].stage # "idle"
  PROVE  /\ request[r].session \in Session
         /\ AskingIn(r) \in Asking /\ AskingIn(r) # NoContext
BY ContextType DEF Typed, RequestsNameThings, AskingIn

(* A request moves on to a stage it may be in. *)
LEMMA StageTyped ==
  ASSUME Typed, NEW r \in Slot,
         NEW stage \in {"idle", "resolved", "allowed", "opening", "open",
                        "aborted"},
         request[r].stage # "idle",
         request[r].kind = "activate",
         Stage(r, stage),
         kept' = kept
  PROVE  request' \in [Slot -> Request] /\ RequestsNameThings'
<1>1. request \in [Slot -> Request]
  BY DEF Typed, TypeOK
<1>2. request' \in [Slot -> Request]
  BY <1>1 DEF Stage, Request
<1>3. RequestsNameThings'
  BY <1>1 DEF Typed, RequestsNameThings, Stage, Request
<1> QED BY <1>2, <1>3

LEMMA FinishTyped ==
  ASSUME Typed, NEW r \in Slot, Finish(r), kept' = kept
  PROVE  request' \in [Slot -> Request] /\ RequestsNameThings'
<1>1. request \in [Slot -> Request]
  BY DEF Typed, TypeOK
<1>2. Idle \in Request
  BY DEF Idle, Request
<1>3. request' \in [Slot -> Request]
  BY <1>1, <1>2 DEF Finish
<1>4. RequestsNameThings'
  BY <1>1 DEF Typed, RequestsNameThings, Finish, Idle
<1> QED BY <1>3, <1>4

(* Aborting streams leaves every request its type. *)
LEMMA AbortedTyped ==
  ASSUME Typed, NEW R \in SUBSET Slot,
         \A r \in R : request[r].stage \in {"opening", "open"}
  PROVE  /\ Aborted(R) \in [Slot -> Request]
         /\ \A r \in Slot :
              /\ Aborted(R)[r].session = request[r].session
              /\ Aborted(R)[r].sub = request[r].sub
              /\ Aborted(R)[r].topic = request[r].topic
              /\ Aborted(R)[r].kind = request[r].kind
              /\ Aborted(R)[r].stage =
                   IF r \in R THEN "aborted" ELSE request[r].stage
<1>1. request \in [Slot -> Request]
  BY DEF Typed, TypeOK
<1> QED BY <1>1 DEF Aborted, Request
LEMMA TypedInit ==
  ASSUME Init
  PROVE  Typed
<1>1. TypeOK
  BY DEF Init, InitTokens, TypeOK, TokensTypeOK, Idle, Request, NoToken, NoRow
<1>2. RequestsNameThings
  BY DEF Init, RequestsNameThings, Idle
<1> QED BY <1>1, <1>2 DEF Typed

(* The types of what each action assigns, action by action. *)

LEMMA TypedTokenStep ==
  ASSUME Typed, TokenStep
  PROVE  Typed'
<1>1. TokensTypeOK'
  BY DEF Typed, TypeOK, TokensTypeOK, TokenStep, Tick, SignIn
<1> QED BY <1>1 DEF Typed, TypeOK, RequestsNameThings, TokenStep, watching,
                    signOuts

LEMMA TypedResolve ==
  ASSUME Typed, NEW r \in Slot, NEW s \in Session, Resolve(r, s)
  PROVE  Typed'
<1>1. PICK kind \in {"subscribe", "activate", "cancel"},
           i \in Subscription \cup {NoSubscription},
           t \in Topic \cup {NoTopic} :
        /\ Arrive(r, s, kind, i, t)
        /\ kind = "subscribe" => t \in Topic /\ i = NoSubscription
        /\ kind # "subscribe" => i \in Subscription /\ kept[i] # Unmade
  BY DEF Resolve
<1>2. request \in [Slot -> Request]
  BY DEF Typed, TypeOK
<1>3. request' \in [Slot -> Request]
  BY <1>1, <1>2 DEF Arrive, Request
<1>4. RequestsNameThings'
  BY <1>1, <1>2 DEF Typed, RequestsNameThings, Arrive
<1> QED BY <1>1, <1>3, <1>4 DEF Typed, TypeOK, TokensTypeOK, Arrive, tokens,
                                watching, signOuts

LEMMA TypedRefuse ==
  ASSUME Typed, NEW r \in Slot, Refuse(r)
  PROVE  Typed'
<1>1. request' \in [Slot -> Request] /\ RequestsNameThings'
  BY FinishTyped DEF Refuse
<1> QED BY <1>1 DEF Typed, TypeOK, TokensTypeOK, Refuse, tokens, watching,
                    signOuts

LEMMA TypedCreate ==
  ASSUME Typed, NEW r \in Slot, Create(r)
  PROVE  Typed'
<1> DEFINE s == request[r].session
           d(i) == [state |-> "kept", context |-> Context(s),
                    topic |-> request[r].topic, until |-> expires[s]]
           w == [context |-> Context(s), session |-> NoSession,
                 stream |-> NoSlot, known |-> TRUE, late |-> FALSE]
<1>1. PICK i \in Subscription :
        /\ kept[i] = Unmade
        /\ kept' = [kept EXCEPT ![i] = d(i)]
        /\ watched' = [watched EXCEPT ![i] = w]
  BY DEF Create
<1>2. request[r].stage = "resolved" /\ request[r].kind = "subscribe"
  BY DEF Create, Resolved
<1>3. /\ s \in Session /\ Context(s) \in Asking
      /\ request[r].topic \in Topic /\ expires[s] \in Nat
  <2>1. s \in Session
    BY <1>2, AskingType
  <2>2. expires[s] \in Nat
    BY <2>1 DEF Typed, TypeOK, TokensTypeOK
  <2> QED BY <2>1, <2>2, <1>2, ContextType DEF Typed, RequestsNameThings
<1>4. d(i) \in Definition /\ d(i) # Unmade /\ w \in Watched
  BY <1>3 DEF Definition, Unmade, Watched
<1>5. kept' \in [Subscription -> Definition \cup {Unmade, Gone}]
  BY <1>1, <1>4 DEF Typed, TypeOK
<1>6. watched' \in [Subscription -> Watched \cup {NotWatched}]
  BY <1>1, <1>4 DEF Typed, TypeOK
<1>7. request \in [Slot -> Request] /\ Idle \in Request
  BY DEF Typed, TypeOK, Idle, Request
<1>8. request' = [request EXCEPT ![r] = Idle]
  BY DEF Create, Finish
<1>9. RequestsNameThings'
  <2>1. \A j \in Subscription : kept[j] # Unmade => kept'[j] # Unmade
    BY <1>1, <1>4 DEF Typed, TypeOK
  <2> QED BY <1>7, <1>8, <2>1 DEF Typed, RequestsNameThings, Idle
<1> QED BY <1>5, <1>6, <1>7, <1>8, <1>9 DEF Typed, TypeOK, TokensTypeOK, Create,
                                            tokens, signOuts

LEMMA NotedTyped ==
  ASSUME Typed
  PROVE  Noted \in [Subscription -> Pending \cup {NotPending}]
BY DEF Typed, TypeOK, Noted

LEMMA TypedClaim ==
  ASSUME Typed, NEW r \in Slot, Claim(r)
  PROVE  Typed'
<1> DEFINE i == request[r].sub
           s == request[r].session
           note == [session |-> s, until |-> now + Wait, late |-> s \in over]
<1>1. request[r].stage = "resolved" /\ request[r].kind = "activate"
  BY DEF Claim, Resolved
<1>2. s \in Session /\ i \in Subscription
  BY <1>1, AskingType DEF Typed, RequestsNameThings
<1>3. note \in Pending
  <2>1. now + Wait \in Nat
    BY DEF Typed, TypeOK, TokensTypeOK
  <2> QED BY <1>2, <2>1 DEF Pending
<1>4. /\ pending' \in [Subscription -> Pending \cup {NotPending}]
      /\ request' \in [Slot -> Request] /\ RequestsNameThings'
  <2>1. CASE MayClaim(i, s)
    <3>1. pending' = [Noted EXCEPT ![i] = note] /\ Stage(r, "allowed")
      BY <2>1 DEF Claim
    <3>2. pending' \in [Subscription -> Pending \cup {NotPending}]
      BY <3>1, <1>2, <1>3, NotedTyped
    <3> QED BY <3>1, <3>2, <1>1, StageTyped DEF Claim
  <2>2. CASE ~MayClaim(i, s)
    BY <2>2, NotedTyped, FinishTyped DEF Claim
  <2> QED BY <2>1, <2>2
<1> QED BY <1>4 DEF Typed, TypeOK, TokensTypeOK, Claim, tokens, signOuts

LEMMA TypedActivate ==
  ASSUME Typed, NEW r \in Slot, Activate(r)
  PROVE  Typed'
<1> DEFINE i == request[r].sub
           note == pending[i]
           w == [context |-> HeldFor(i, r), session |-> note.session,
                 stream |-> r, known |-> watched[i].known, late |-> note.late]
<1>1. request[r].stage = "allowed" /\ request[r].kind = "activate"
  BY DEF Activate, Typed, RequestsNameThings
<1>2. i \in Subscription /\ AskingIn(r) \in Asking
  BY <1>1, AskingType DEF Typed, RequestsNameThings
<1>3. pending' \in [Subscription -> Pending \cup {NotPending}]
  BY <1>2 DEF Activate, Typed, TypeOK
<1>4. /\ watched' \in [Subscription -> Watched \cup {NotWatched}]
      /\ request' \in [Slot -> Request] /\ RequestsNameThings'
  <2>1. CASE MayOpen(i, AskingIn(r))
    <3>1. note \in Pending
      BY <2>1, <1>2 DEF MayOpen, Typed, TypeOK
    <3>2. watched[i] \in Watched \cup {NotWatched}
      BY <1>2 DEF Typed, TypeOK
    <3>3. HeldFor(i, r) \in Asking
      BY <3>2, <1>2 DEF HeldFor, IsWatched, Watched, NotWatched
    <3>4. watched[i].known \in BOOLEAN
      <4>1. CASE watched[i] \in Watched
        BY <4>1 DEF Watched
      <4>2. CASE watched[i] = NotWatched
        BY <4>2 DEF NotWatched
      <4> QED BY <3>2, <4>1, <4>2
    <3>5. w \in Watched
      <4>1. note.session \in Session /\ note.late \in BOOLEAN
        BY <3>1 DEF Pending
      <4> QED BY <3>3, <3>4, <4>1 DEF Watched
    <3>6. watched' = [watched EXCEPT ![i] = w] /\ Stage(r, "opening")
      BY <2>1 DEF Activate
    <3>7. watched' \in [Subscription -> Watched \cup {NotWatched}]
      BY <3>5, <3>6 DEF Typed, TypeOK
    <3> QED BY <3>6, <3>7, <1>1, StageTyped DEF Activate
  <2>2. CASE ~MayOpen(i, AskingIn(r))
    BY <2>2, FinishTyped DEF Activate, Typed, TypeOK
  <2> QED BY <2>1, <2>2
<1>5. UNCHANGED <<tokens, kept, signOuts, restarts>>
  BY DEF Activate
<1>6. TypeOK'
  BY <1>3, <1>4, <1>5 DEF Typed, TypeOK, TokensTypeOK, tokens, signOuts
<1> QED BY <1>4, <1>6 DEF Typed

(* A request that opens, is open or is being stopped names a subscription. *)
LEMMA StreamTyped ==
  ASSUME Typed, NEW r \in Slot,
         request[r].stage \in {"opening", "open", "aborted"}
  PROVE  /\ request[r].kind = "activate"
         /\ request[r].sub \in Subscription /\ kept[request[r].sub] # Unmade
         /\ request[r].session \in Session
BY DEF Typed, RequestsNameThings

(* What opens is watched, by the request that opens it. *)
LEMMA TypedOpen ==
  ASSUME Typed, StreamsAreHeld, NEW r \in Slot, Open(r)
  PROVE  Typed'
<1> DEFINE i == request[r].sub
<1>1. /\ request[r].stage = "opening" /\ request[r].kind = "activate"
      /\ i \in Subscription
  BY StreamTyped DEF Open
<1>2. watched[i].stream = r
  BY <1>1 DEF StreamsAreHeld
<1>3. watched[i] \in Watched
  BY <1>1, <1>2 DEF Typed, TypeOK, NotWatched
<1>4. [watched[i] EXCEPT !.known = TRUE] \in Watched
  BY <1>3 DEF Watched
<1>5. watched' \in [Subscription -> Watched \cup {NotWatched}]
  BY <1>1, <1>4 DEF Open, Typed, TypeOK
<1>6. request' \in [Slot -> Request] /\ RequestsNameThings'
  BY <1>1, StageTyped DEF Open
<1>7. UNCHANGED <<tokens, kept, pending, signOuts, restarts>>
  BY DEF Open
<1> QED BY <1>5, <1>6, <1>7 DEF Typed, TypeOK, TokensTypeOK, tokens, signOuts

LEMMA TypedEndStream ==
  ASSUME Typed, NEW r \in Slot, EndStream(r)
  PROVE  Typed'
<1> DEFINE i == request[r].sub
<1>1. i \in Subscription
  BY StreamTyped DEF EndStream
<1>2. watched[i] \in Watched \cup {NotWatched}
  BY <1>1 DEF Typed, TypeOK
<1>3. Settled(i, r) \in Watched \cup {NotWatched}
  <2>1. CASE watched[i].stream # r
    BY <1>2, <2>1 DEF Settled
  <2>2. CASE watched[i].stream = r
    <3>1. watched[i] \in Watched
      BY <1>2, <2>2 DEF NotWatched
    <3>2. [watched[i] EXCEPT !.stream = NoSlot] \in Watched
      BY <3>1 DEF Watched
    <3>3. watched[i].known \in BOOLEAN
      BY <3>1 DEF Watched
    <3> QED BY <2>2, <3>2, <3>3 DEF Settled
  <2> QED BY <2>1, <2>2
<1>4. watched' = [watched EXCEPT ![i] = Settled(i, r)]
      /\ Finish(r) /\ UNCHANGED <<tokens, kept, pending, signOuts, restarts>>
  BY DEF EndStream
<1>5. watched' \in [Subscription -> Watched \cup {NotWatched}]
  BY <1>3, <1>4 DEF Typed, TypeOK
<1>6. request' \in [Slot -> Request] /\ RequestsNameThings'
  BY <1>4, FinishTyped
<1> QED BY <1>4, <1>5, <1>6 DEF Typed, TypeOK, TokensTypeOK, tokens, signOuts

(* Spine forgets a subscription: what Watching and the requests are then.  *)
LEMMA ForgetTyped ==
  ASSUME Typed, NEW i \in Subscription, Forget(i),
         NEW R \in SUBSET Slot, request' = Aborted(R),
         \A r \in R : request[r].stage \in {"opening", "open"}
  PROVE  /\ kept' \in [Subscription -> Definition \cup {Unmade, Gone}]
         /\ watched' \in [Subscription -> Watched \cup {NotWatched}]
         /\ request' \in [Slot -> Request] /\ RequestsNameThings'
<1>1. kept' \in [Subscription -> Definition \cup {Unmade, Gone}]
  BY DEF Forget, Typed, TypeOK
<1>2. watched' \in [Subscription -> Watched \cup {NotWatched}]
  BY DEF Forget, Typed, TypeOK
<1>3. request' \in [Slot -> Request]
  BY AbortedTyped
<1>4. \A j \in Subscription : kept[j] # Unmade => kept'[j] # Unmade
  BY DEF Forget, Typed, TypeOK, Gone, Unmade
<1>5. \A r \in Slot :
        /\ request'[r].session = request[r].session
        /\ request'[r].sub = request[r].sub
        /\ request'[r].topic = request[r].topic
        /\ request'[r].kind = request[r].kind
        /\ request'[r].stage =
             IF r \in R THEN "aborted" ELSE request[r].stage
  BY AbortedTyped
<1>6. RequestsNameThings'
  BY <1>4, <1>5 DEF Typed, RequestsNameThings
<1> QED BY <1>1, <1>2, <1>3, <1>6

LEMMA StreamsOfTyped ==
  ASSUME NEW i \in Subscription
  PROVE  /\ StreamsOf(i) \in SUBSET Slot
         /\ \A r \in StreamsOf(i) :
              request[r].stage \in {"opening", "open"} /\ request[r].sub = i
BY DEF StreamsOf

LEMMA TypedExpire ==
  ASSUME Typed, NEW i \in Subscription, Expire(i)
  PROVE  Typed'
<1>1. /\ kept' \in [Subscription -> Definition \cup {Unmade, Gone}]
      /\ watched' \in [Subscription -> Watched \cup {NotWatched}]
      /\ request' \in [Slot -> Request] /\ RequestsNameThings'
  BY ForgetTyped, StreamsOfTyped DEF Expire
<1>2. UNCHANGED <<tokens, pending, signOuts, restarts>>
  BY DEF Expire
<1> QED BY <1>1, <1>2 DEF Typed, TypeOK, TokensTypeOK, tokens, signOuts

LEMMA TypedCancel ==
  ASSUME Typed, NEW r \in Slot, Cancel(r)
  PROVE  Typed'
<1> DEFINE i == request[r].sub
<1>1. i \in Subscription
  BY DEF Cancel, Resolved, Typed, RequestsNameThings
<1>2. Forget(i) /\ request' = [Aborted(StreamsOf(i)) EXCEPT ![r] = Idle]
      /\ UNCHANGED <<tokens, pending, signOuts, restarts>>
  BY DEF Cancel
<1>3. /\ kept' \in [Subscription -> Definition \cup {Unmade, Gone}]
      /\ watched' \in [Subscription -> Watched \cup {NotWatched}]
  BY <1>1, <1>2 DEF Forget, Typed, TypeOK
<1>4. /\ Aborted(StreamsOf(i)) \in [Slot -> Request]
      /\ \A o \in Slot :
           LET a == Aborted(StreamsOf(i))[o]
           IN  /\ a.session = request[o].session
               /\ a.sub = request[o].sub
               /\ a.topic = request[o].topic
               /\ a.kind = request[o].kind
               /\ a.stage = IF o \in StreamsOf(i) THEN "aborted"
                            ELSE request[o].stage
  BY <1>1, StreamsOfTyped, AbortedTyped
<1>5. Idle \in Request
  BY DEF Idle, Request
<1>6. request' \in [Slot -> Request]
  BY <1>2, <1>4, <1>5
<1>7. \A j \in Subscription : kept[j] # Unmade => kept'[j] # Unmade
  BY <1>2 DEF Forget, Typed, TypeOK, Gone, Unmade
<1>8. RequestsNameThings'
  <2> SUFFICES ASSUME NEW o \in Slot
      PROVE  /\ request'[o].stage # "idle" => request'[o].session \in Session
             /\ request'[o].kind = "subscribe" => request'[o].topic \in Topic
             /\ request'[o].kind \in {"activate", "cancel"} =>
                  request'[o].sub \in Subscription
             /\ request'[o].sub \in Subscription =>
                  kept'[request'[o].sub] # Unmade
             /\ request'[o].stage \in {"allowed", "opening", "open", "aborted"}
                  => request'[o].kind = "activate"
    BY DEF RequestsNameThings
  <2>1. CASE o = r
    BY <1>2, <1>4, <2>1 DEF Idle
  <2>2. CASE o # r
    <3>1. request'[o] = Aborted(StreamsOf(i))[o]
      BY <1>2, <1>4, <2>2
    <3> QED BY <1>1, <1>4, <1>7, <3>1, StreamsOfTyped
            DEF Typed, RequestsNameThings
  <2> QED BY <2>1, <2>2
<1> QED BY <1>2, <1>3, <1>6, <1>8 DEF Typed, TypeOK, TokensTypeOK, tokens,
                                      signOuts

LEMMA TypedExpireStream ==
  ASSUME Typed, NEW r \in Slot, ExpireStream(r)
  PROVE  Typed'
<1>1. request' \in [Slot -> Request] /\ RequestsNameThings'
  BY StreamTyped, StageTyped DEF ExpireStream
<1> QED BY <1>1 DEF Typed, TypeOK, TokensTypeOK, ExpireStream, tokens, watching,
                    signOuts

LEMMA TypedBegin ==
  ASSUME Typed, NEW s \in Session, BeginSignOut(s) \/ BeginUnresolved(s)
  PROVE  Typed'
<1>1. /\ ending' \in [Session -> {"no", "closing", "unresolved", "stopping",
                                  "failing"}]
      /\ closing' \in [Session -> SUBSET Subscription]
  BY DEF BeginSignOut, BeginUnresolved, Typed, TypeOK, OpenedIn
<1>2. UNCHANGED <<tokens, request, kept, watching, over, restarts>>
  BY DEF BeginSignOut, BeginUnresolved
<1> QED BY <1>1, <1>2 DEF Typed, TypeOK, TokensTypeOK, RequestsNameThings,
                          tokens, watching

LEMMA TypedCancelAsBrowser ==
  ASSUME Typed, NEW s \in Session, NEW i \in Subscription,
         CancelAsBrowser(s, i)
  PROVE  Typed'
<1>1. /\ kept' \in [Subscription -> Definition \cup {Unmade, Gone}]
      /\ watched' \in [Subscription -> Watched \cup {NotWatched}]
      /\ request' \in [Slot -> Request] /\ RequestsNameThings'
  <2>1. CASE Forget(i) /\ request' = Aborted(StreamsOf(i))
    BY <2>1, ForgetTyped, StreamsOfTyped
  <2>2. CASE UNCHANGED <<request, kept, watched>>
    BY <2>2 DEF Typed, TypeOK, RequestsNameThings
  <2> QED BY <2>1, <2>2 DEF CancelAsBrowser
<1>2. closing' \in [Session -> SUBSET Subscription]
  BY DEF CancelAsBrowser, Typed, TypeOK
<1>3. UNCHANGED <<tokens, pending, ending, over, restarts>>
  BY DEF CancelAsBrowser
<1> QED BY <1>1, <1>2, <1>3 DEF Typed, TypeOK, TokensTypeOK, tokens

LEMMA RowsTyped ==
  ASSUME TokensTypeOK, NEW s \in Session
  PROVE  /\ Purged \in [Session -> Nat]
         /\ Remembered(s) \in [Session -> Nat]
         /\ PartlyRemembered(s) \subseteq [Session -> Nat]
<1>1. Purged \in [Session -> Nat]
  BY DEF TokensTypeOK, Purged, NoRow
<1>2. expires[s] + Skew \in Nat
  BY DEF TokensTypeOK
<1>3. Remembered(s) \in [Session -> Nat]
  BY <1>1, <1>2 DEF Remembered
<1> QED BY <1>1, <1>3 DEF PartlyRemembered, TokensTypeOK

LEMMA TypedLogout ==
  ASSUME Typed, NEW s \in Session, Logout(s)
  PROVE  Typed'
<1>1. revoked' \in [Session -> Nat]
  BY RowsTyped DEF Logout, Typed, TypeOK, TokensTypeOK
<1>2. ending' \in [Session -> {"no", "closing", "unresolved", "stopping",
                               "failing"}]
  BY DEF Logout, Typed, TypeOK
<1>3. UNCHANGED <<now, expires, request, kept, watching, closing, over,
                  restarts>>
  BY DEF Logout
<1> QED BY <1>1, <1>2, <1>3 DEF Typed, TypeOK, TokensTypeOK,
                                RequestsNameThings, watching

LEMMA TypedStop ==
  ASSUME Typed, NEW s \in Session, Stop(s)
  PROVE  Typed'
<1> DEFINE opened == {i \in Subscription : watched[i].session = s}
           R == {watched[i].stream : i \in opened}
                  \cap UNION {StreamsOf(i) : i \in opened}
<1>1. /\ pending' = NotesWithout(s)
      /\ watched' = [i \in Subscription |->
           IF i \in opened THEN Disowned(i) ELSE watched[i]]
      /\ request' = Aborted(R)
      /\ over' = over \/ over' = over \cup {s}
      /\ ending' = [ending EXCEPT ![s] = "no"]
      /\ UNCHANGED <<tokens, kept, closing, restarts>>
  BY DEF Stop
<1>2. R \in SUBSET Slot /\ \A r \in R : request[r].stage \in {"opening", "open"}
  BY DEF StreamsOf
<1>3. request' \in [Slot -> Request] /\ RequestsNameThings'
  <2>1. /\ Aborted(R) \in [Slot -> Request]
        /\ \A r \in Slot :
             /\ Aborted(R)[r].session = request[r].session
             /\ Aborted(R)[r].sub = request[r].sub
             /\ Aborted(R)[r].topic = request[r].topic
             /\ Aborted(R)[r].kind = request[r].kind
             /\ Aborted(R)[r].stage =
                  IF r \in R THEN "aborted" ELSE request[r].stage
    BY <1>2, AbortedTyped
  <2>2. kept' = kept
    BY <1>1
  <2> HIDE DEF R
  <2> QED BY <1>1, <1>2, <2>1, <2>2 DEF Typed, RequestsNameThings
<1>4. pending' \in [Subscription -> Pending \cup {NotPending}]
  BY <1>1 DEF NotesWithout, Typed, TypeOK
<1>5. watched' \in [Subscription -> Watched \cup {NotWatched}]
  <2>1. \A i \in opened : Disowned(i) \in Watched
    <3> TAKE i \in opened
    <3>1. watched[i] \in Watched
      BY DEF Typed, TypeOK, NotWatched
    <3> QED BY <3>1 DEF Disowned, Watched
  <2> QED BY <1>1, <2>1 DEF Typed, TypeOK
<1>6. /\ over' \in SUBSET Session
      /\ ending' \in [Session -> {"no", "closing", "unresolved", "stopping",
                                  "failing"}]
  BY <1>1 DEF Typed, TypeOK
<1> QED BY <1>1, <1>3, <1>4, <1>5, <1>6 DEF Typed, TypeOK, TokensTypeOK, tokens

LEMMA TypedRestart ==
  ASSUME Typed, Restart
  PROVE  Typed'
<1>1. TypeOK'
  <2>1. Idle \in Request
    BY DEF Idle, Request
  <2>2. restarts' \in 0..MaxRestarts
    BY DEF Restart, Typed, TypeOK
  <2> QED BY <2>1, <2>2 DEF Restart, Typed, TypeOK, TokensTypeOK, tokens
<1>2. RequestsNameThings'
  BY DEF Restart, RequestsNameThings, Idle
<1> QED BY <1>1, <1>2 DEF Typed

-----------------------------------------------------------------------------
(* Every subscription that opens, is open or is being stopped is held by   *)
(* the request that opened it.  What the actions change of the watched     *)
(* entries and of the stages is told by these lemmas.                      *)

(* A step after which each stream was one before and is watched as before. *)
LEMMA HeldAsBefore ==
  ASSUME StreamsAreHeld,
         \A r \in Slot :
           request'[r].stage \in {"opening", "open", "aborted"} =>
             /\ request'[r].sub = request[r].sub
             /\ request[r].stage \in {"opening", "open", "aborted"}
             /\ IsKept(request[r].sub)' => IsKept(request[r].sub)
             /\ request[r].stage = "aborted" =>
                  request'[r].stage = "aborted"
             /\ watched[request[r].sub].stream = r /\ request'[r].stage # "aborted"
                  => watched'[request[r].sub].stream = r
             /\ watched[request[r].sub].stream = r /\ IsKept(request[r].sub)'
                  => watched'[request[r].sub].stream = r
  PROVE  StreamsAreHeld'
BY DEF StreamsAreHeld

LEMMA HeldResolve ==
  ASSUME Typed, StreamsAreHeld, NEW r \in Slot, NEW s \in Session, Resolve(r, s)
  PROVE  StreamsAreHeld'
<1>1. PICK kind, i, t : Arrive(r, s, kind, i, t)
  BY DEF Resolve
<1>2. request \in [Slot -> Request]
  BY DEF Typed, TypeOK
<1>3. /\ request'[r].stage = "resolved"
      /\ \A o \in Slot \ {r} : request'[o] = request[o]
      /\ UNCHANGED <<kept, watched>>
  BY <1>1, <1>2 DEF Arrive, watching
<1> QED BY <1>3, HeldAsBefore DEF IsKept

LEMMA HeldFinish ==
  ASSUME Typed, StreamsAreHeld, NEW r \in Slot, Finish(r), kept' = kept,
         \A i \in Subscription :
           watched'[i].stream = watched[i].stream \/ watched[i].stream \in {r, NoSlot}
  PROVE  StreamsAreHeld'
<1>1. request \in [Slot -> Request]
  BY DEF Typed, TypeOK
<1>2. /\ request'[r].stage = "idle"
      /\ \A o \in Slot \ {r} : request'[o] = request[o]
  BY <1>1 DEF Finish, Idle
<1>3. \A o \in Slot : request[o].stage \in {"opening", "open", "aborted"} =>
        request[o].sub \in Subscription
  BY StreamTyped
<1> QED BY <1>2, <1>3, HeldAsBefore DEF IsKept

LEMMA HeldCreate ==
  ASSUME Typed, StreamsAreHeld, NEW r \in Slot, Create(r)
  PROVE  StreamsAreHeld'
<1>1. PICK i \in Subscription :
        /\ kept[i] = Unmade
        /\ \A j \in Subscription \ {i} :
             kept'[j] = kept[j] /\ watched'[j] = watched[j]
  BY DEF Create, Typed, TypeOK
<1>2. request \in [Slot -> Request] /\ Finish(r)
  BY DEF Create, Typed, TypeOK
<1>3. /\ request'[r].stage = "idle"
      /\ \A o \in Slot \ {r} : request'[o] = request[o]
  BY <1>2 DEF Finish, Idle
<1>4. \A o \in Slot : request[o].stage \in {"opening", "open", "aborted"} =>
        request[o].sub \in Subscription \ {i}
  BY <1>1, StreamTyped
<1> QED BY <1>1, <1>3, <1>4, HeldAsBefore DEF IsKept

LEMMA HeldActivate ==
  ASSUME Typed, StreamsAreHeld, NEW r \in Slot, Activate(r)
  PROVE  StreamsAreHeld'
<1> DEFINE i == request[r].sub
<1>1. i \in Subscription /\ request[r].stage = "allowed"
  BY DEF Activate, Typed, RequestsNameThings
<1>2. CASE MayOpen(i, AskingIn(r))
  <2>1. /\ watched[i].stream = NoSlot
        /\ watched'[i].stream = r
        /\ \A j \in Subscription \ {i} : watched'[j] = watched[j]
        /\ Stage(r, "opening") /\ kept' = kept
    BY <1>1, <1>2 DEF Activate, MayOpen, Typed, TypeOK
  <2>2. request \in [Slot -> Request]
    BY DEF Typed, TypeOK
  <2>3. /\ request'[r].stage = "opening" /\ request'[r].sub = i
        /\ \A o \in Slot \ {r} : request'[o] = request[o]
    BY <2>1, <2>2 DEF Stage, Request
  <2>4. \A o \in Slot :
          \/ request[o].stage \in {"opening", "open"}
          \/ request[o].stage = "aborted" /\ IsKept(request[o].sub)
          => request[o].sub \in Subscription \ {i}
    BY <2>1, StreamTyped DEF StreamsAreHeld
  <2> QED BY <2>1, <2>3, <2>4 DEF StreamsAreHeld, IsKept
<1>3. CASE ~MayOpen(i, AskingIn(r))
  BY <1>3, HeldFinish DEF Activate
<1> QED BY <1>2, <1>3

LEMMA HeldEndStream ==
  ASSUME Typed, StreamsAreHeld, NEW r \in Slot, EndStream(r)
  PROVE  StreamsAreHeld'
<1> DEFINE i == request[r].sub
<1>1. i \in Subscription
  BY StreamTyped DEF EndStream
<1>2. \A j \in Subscription :
        watched'[j].stream = watched[j].stream \/ watched[j].stream = r
  BY <1>1 DEF EndStream, Settled, Typed, TypeOK
<1> QED BY <1>2, HeldFinish DEF EndStream

(* Forgetting a subscription aborts the streams it had. *)
LEMMA HeldForget ==
  ASSUME Typed, StreamsAreHeld, NEW i \in Subscription, Forget(i),
         \A r \in Slot :
           request'[r].stage \in {"opening", "open", "aborted"} =>
             /\ request'[r].sub = request[r].sub
             /\ request'[r].stage =
                  IF r \in StreamsOf(i) THEN "aborted" ELSE request[r].stage
  PROVE  StreamsAreHeld'
<1>1. /\ ~IsKept(i)'
      /\ \A j \in Subscription \ {i} :
           kept'[j] = kept[j] /\ watched'[j] = watched[j]
  BY DEF Forget, IsKept, Gone, Unmade, Typed, TypeOK
<1> SUFFICES ASSUME NEW r \in Slot,
                    \/ request'[r].stage \in {"opening", "open"}
                    \/ /\ request'[r].stage = "aborted"
                       /\ kept'[request'[r].sub].state = "kept"
             PROVE  watched'[request'[r].sub].stream = r
  BY DEF StreamsAreHeld, IsKept
<1>2. /\ request'[r].sub = request[r].sub
      /\ request'[r].stage =
           IF r \in StreamsOf(i) THEN "aborted" ELSE request[r].stage
  OBVIOUS
<1>3. r \in StreamsOf(i) =>
        request[r].sub = i /\ request[r].stage \in {"opening", "open"}
  BY DEF StreamsOf
<1>4. request[r].stage \in {"opening", "open", "aborted"}
  BY <1>2, <1>3
<1>5. request[r].sub \in Subscription \ {i}
  <2>1. request[r].sub \in Subscription
    BY <1>4, StreamTyped
  <2>2. CASE request[r].sub = i
    <3>1. request'[r].stage = "aborted"
      BY <1>2, <1>4, <2>2 DEF StreamsOf
    <3> QED BY <1>1, <1>2, <2>2, <3>1 DEF IsKept
  <2> QED BY <2>1, <2>2
<1> QED BY <1>1, <1>2, <1>3, <1>5 DEF StreamsAreHeld, IsKept

LEMMA HeldStop ==
  ASSUME Typed, StreamsAreHeld, NEW s \in Session, Stop(s)
  PROVE  StreamsAreHeld'
<1> DEFINE opened == {i \in Subscription : watched[i].session = s}
           R == {watched[i].stream : i \in opened}
                  \cap UNION {StreamsOf(i) : i \in opened}
<1>1. /\ watched' = [i \in Subscription |->
           IF i \in opened THEN Disowned(i) ELSE watched[i]]
      /\ request' = Aborted(R)
      /\ kept' = kept
  BY DEF Stop
<1>2. R \in SUBSET Slot /\ \A r \in R : request[r].stage \in {"opening", "open"}
  BY DEF StreamsOf
<1>3. \A r \in Slot :
        /\ Aborted(R)[r].sub = request[r].sub
        /\ Aborted(R)[r].stage =
             IF r \in R THEN "aborted" ELSE request[r].stage
  BY <1>2, AbortedTyped
<1>4. \A i \in Subscription : watched'[i].stream = watched[i].stream
  <2> TAKE i \in Subscription
  <2>1. CASE i \in opened
    <3>1. watched[i] \in Watched
      BY <2>1 DEF Typed, TypeOK, NotWatched
    <3> QED BY <1>1, <2>1, <3>1 DEF Disowned, Watched
  <2>2. CASE i \notin opened
    BY <1>1, <2>2
  <2> QED BY <2>1, <2>2
<1> HIDE DEF R
<1>5. \A r \in Slot : request[r].stage \in {"opening", "open", "aborted"} =>
        request[r].sub \in Subscription
  BY StreamTyped
<1> QED BY <1>1, <1>2, <1>3, <1>4, <1>5, HeldAsBefore DEF IsKept

-----------------------------------------------------------------------------
(* An ended session stays refused, because its row outlasts its token.     *)

(* A row is kept until the token it stands for is no longer taken, and a   *)
(* session that is over, or about to be, has one unless the token is too   *)
(* old already.                                                            *)
RowsOutlastTokens ==
  \A s \in Session :
    /\ revoked[s] # NoRow =>
         expires[s] # NoToken /\ revoked[s] = expires[s] + Skew
    /\ ending[s] # "no" => expires[s] # NoToken
    /\ s \in over \/ ending[s] = "stopping" =>
         /\ expires[s] # NoToken
         /\ revoked[s] # NoRow \/ expires[s] + Skew <= now

LEMMA RowsImplyRefusal ==
  ASSUME Typed, RowsOutlastTokens
  PROVE  EndedStaysRefused
BY DEF Typed, TypeOK, TokensTypeOK, RowsOutlastTokens, EndedStaysRefused,
       Accepted, Verified

(* What a revocation leaves of the rows, whether it succeeds or fails.     *)
LEMMA RowsOutlastRevocation ==
  ASSUME TokensTypeOK, RowsOutlastTokens, NEW s \in Session,
         expires[s] # NoToken, NEW rows \in PartlyRemembered(s),
         NEW o \in Session
  PROVE  /\ rows[o] # NoRow =>
              expires[o] # NoToken /\ rows[o] = expires[o] + Skew
         /\ revoked[o] # NoRow => rows[o] # NoRow \/ expires[o] + Skew <= now
<1>1. Purged \in [Session -> Nat]
  BY RowsTyped
<1>2. /\ Purged[o] # NoRow =>
           expires[o] # NoToken /\ Purged[o] = expires[o] + Skew
      /\ revoked[o] # NoRow => Purged[o] # NoRow \/ expires[o] + Skew <= now
  BY DEF Purged, RowsOutlastTokens, TokensTypeOK
<1>3. CASE o # s
  <2>1. Remembered(s)[o] = Purged[o]
    BY <1>1, <1>3 DEF Remembered
  <2> QED BY <1>2, <2>1 DEF PartlyRemembered, RowsOutlastTokens
<1>4. CASE o = s
  <2>1. Remembered(s)[o] = IF Purged[o] = NoRow THEN expires[o] + Skew
                           ELSE Purged[o]
    BY <1>1, <1>4 DEF Remembered
  <2>2. rows \in {revoked, Purged, Remembered(s)}
    BY DEF PartlyRemembered
  <2>3. expires[o] \in Nat /\ expires[o] # NoToken
    BY <1>4 DEF TokensTypeOK
  <2> QED BY <1>2, <2>1, <2>2, <2>3 DEF RowsOutlastTokens, NoRow, NoToken
<1> QED BY <1>3, <1>4

LEMMA RowsTokenStep ==
  ASSUME Typed, RowsOutlastTokens, TokenStep
  PROVE  RowsOutlastTokens'
<1>1. CASE Tick /\ UNCHANGED signOuts
  BY <1>1 DEF Tick, signOuts, Typed, TypeOK, TokensTypeOK, RowsOutlastTokens
<1>2. CASE \E s \in Session : SignIn(s) /\ UNCHANGED signOuts
  <2>1. PICK s \in Session :
          /\ expires[s] = NoToken
          /\ \A o \in Session \ {s} : expires'[o] = expires[o]
          /\ UNCHANGED <<now, revoked, ending, closing, over>>
    BY <1>2 DEF SignIn, signOuts, Typed, TypeOK, TokensTypeOK
  <2>2. revoked[s] = NoRow /\ ending[s] = "no" /\ s \notin over
    BY <2>1 DEF RowsOutlastTokens
  <2> QED BY <2>1, <2>2 DEF RowsOutlastTokens
<1> QED BY <1>1, <1>2 DEF TokenStep

LEMMA RowsBegin ==
  ASSUME Typed, RowsOutlastTokens, NEW s \in Session,
         BeginSignOut(s) \/ BeginUnresolved(s)
  PROVE  RowsOutlastTokens'
<1>1. /\ expires[s] # NoToken
      /\ ending'[s] \in {"closing", "unresolved"}
      /\ \A o \in Session \ {s} : ending'[o] = ending[o]
      /\ UNCHANGED <<now, expires, revoked, over>>
  BY DEF BeginSignOut, BeginUnresolved, Accepted, Verified, tokens, Typed,
         TypeOK
<1> QED BY <1>1 DEF RowsOutlastTokens

LEMMA RowsLogout ==
  ASSUME Typed, RowsOutlastTokens, NEW s \in Session, Logout(s)
  PROVE  RowsOutlastTokens'
<1>1. /\ ending[s] # "no" /\ expires[s] # NoToken
      /\ \A o \in Session \ {s} : ending'[o] = ending[o]
      /\ UNCHANGED <<now, expires, over>>
  BY DEF Logout, Typed, TypeOK, RowsOutlastTokens
<1>2. TokensTypeOK /\ expires[s] + Skew \in Nat /\ now \in Nat
  BY DEF Typed, TypeOK, TokensTypeOK
<1>3. CASE revoked' \in PartlyRemembered(s) /\ ending'[s] # "stopping"
  BY <1>1, <1>2, <1>3, RowsOutlastRevocation DEF RowsOutlastTokens
<1>4. CASE revoked' = Remembered(s) /\ ending'[s] = "stopping"
  <2>1. revoked'[s] # NoRow
    <3>1. Purged \in [Session -> Nat]
      BY <1>2, RowsTyped
    <3>2. expires[s] \in Nat
      BY <1>2 DEF TokensTypeOK
    <3> QED BY <1>1, <1>4, <3>1, <3>2 DEF Remembered, NoRow, NoToken
  <2>2. revoked' \in PartlyRemembered(s)
    BY <1>4 DEF PartlyRemembered
  <2> QED BY <1>1, <1>2, <2>1, <2>2, RowsOutlastRevocation DEF RowsOutlastTokens
<1>5. CASE ~Verified(s) /\ UNCHANGED revoked
  <2>1. expires[s] + Skew <= now
    BY <1>1, <1>2, <1>5 DEF Verified
  <2> QED BY <1>1, <1>5, <2>1 DEF RowsOutlastTokens
<1> QED BY <1>3, <1>4, <1>5 DEF Logout, Typed, TypeOK

LEMMA RowsStop ==
  ASSUME Typed, RowsOutlastTokens, NEW s \in Session, Stop(s)
  PROVE  RowsOutlastTokens'
<1>1. /\ over' = IF ending[s] = "stopping" THEN over \cup {s} ELSE over
      /\ ending' = [ending EXCEPT ![s] = "no"]
      /\ UNCHANGED <<now, expires, revoked>>
  BY DEF Stop, tokens
<1> QED BY <1>1 DEF RowsOutlastTokens, Typed, TypeOK

-----------------------------------------------------------------------------
(* Subscriptions: whose they are, and that Watching and Spine agree.       *)

(* What Watching learned of a subscription, Spine still keeps. *)
KnownIsKept == \A i \in Subscription : watched[i].known => IsKept(i)

(* Whoever a subscription is kept for may read what it shows. *)
KeptIsReadable ==
  \A i \in Subscription :
    IsKept(i) => /\ kept[i].context \in Asking /\ kept[i].topic \in Topic
                 /\ MayRead(TargetOf[kept[i].topic], kept[i].context)

(* An open stream is of a subscription Spine keeps for the person. *)
OpenIsKept ==
  \A r \in Slot :
    request[r].stage = "open" =>
      /\ request[r].sub \in Subscription
      /\ IsKept(request[r].sub)
      /\ kept[request[r].sub].context = AskingIn(r)

Agreeing ==
  /\ KnownIsKept /\ WatchedIsKept /\ KeptIsReadable
  /\ SignOutStopsWhatWasClaimed
  /\ StreamsAreTheirPersons /\ OpenIsKept

LEMMA AgreeingInit ==
  ASSUME Init
  PROVE  Agreeing
BY DEF Init, Agreeing, KnownIsKept, WatchedIsKept, KeptIsReadable,
       SignOutStopsWhatWasClaimed, StreamsAreTheirPersons, OpenIsKept, Idle,
       Unmade, NotWatched, NotPending, IsKept, IsWatched

(* A step after which every stream was one before, of a subscription that  *)
(* is kept as before and noted for the same session or none.               *)
LEMMA StreamsAsBefore ==
  ASSUME Typed, StreamsAreTheirPersons, OpenIsKept,
         \A r \in Slot :
           request'[r].stage \in {"opening", "open"} =>
             /\ request'[r].stage = request[r].stage
             /\ request'[r].sub = request[r].sub
             /\ request'[r].session = request[r].session
             /\ watched'[request[r].sub].session
                  \in {watched[request[r].sub].session, NoSession}
             /\ kept'[request[r].sub] = kept[request[r].sub]
  PROVE  StreamsAreTheirPersons' /\ OpenIsKept'
<1>1. \A r \in Slot :
        request'[r].stage \in {"opening", "open"} =>
          /\ request'[r].sub = request[r].sub
          /\ Context(request'[r].session) = AskingIn(r)
  BY DEF AskingIn
<1>2. StreamsAreTheirPersons'
  <2> SUFFICES ASSUME NEW r \in Slot,
                      request'[r].stage \in {"opening", "open"},
                      watched'[request'[r].sub].session # NoSession
               PROVE  Context(watched'[request'[r].sub].session)
                        = Context(request'[r].session)
    BY DEF StreamsAreTheirPersons, AskingIn
  <2>1. watched'[request'[r].sub].session = watched[request[r].sub].session
    OBVIOUS
  <2> QED BY <1>1, <2>1 DEF StreamsAreTheirPersons
<1>3. OpenIsKept'
  <2> SUFFICES ASSUME NEW r \in Slot, request'[r].stage = "open"
               PROVE  /\ request'[r].sub \in Subscription
                      /\ kept'[request'[r].sub].state = "kept"
                      /\ kept'[request'[r].sub].context
                           = Context(request'[r].session)
    BY DEF OpenIsKept, IsKept, AskingIn
  <2> QED BY <1>1 DEF OpenIsKept, IsKept
<1> QED BY <1>2, <1>3

(* A subscription that is as before, to Watching and to Spine, except that *)
(* its session may be disowned; and one that is forgotten.                 *)
AsBefore(i) ==
  /\ kept'[i] = kept[i]
  /\ watched'[i].context = watched[i].context
  /\ watched'[i].stream = watched[i].stream
  /\ watched'[i].known = watched[i].known
  /\ watched'[i].late = watched[i].late
  /\ watched'[i].session \in {watched[i].session, NoSession}

Forgotten(i) ==
  /\ watched'[i] = NotWatched
  /\ kept'[i] = kept[i] \/ kept'[i] = Gone

LEMMA WatchingAsBefore ==
  ASSUME Typed, Agreeing, over' = over,
         \A i \in Subscription :
           /\ AsBefore(i) \/ Forgotten(i)
           /\ pending'[i] \in {pending[i], NotPending}
  PROVE  /\ KnownIsKept' /\ WatchedIsKept' /\ KeptIsReadable'
         /\ SignOutStopsWhatWasClaimed'
<1>1. NoSession \notin over
  BY DEF Typed, TypeOK
<1>2. \A i \in Subscription :
        /\ watched'[i].known => watched[i].known /\ kept'[i] = kept[i]
        /\ watched'[i].context # NoContext =>
             /\ watched[i].context # NoContext /\ kept'[i] = kept[i]
             /\ watched'[i].stream = watched[i].stream
        /\ kept'[i].state = "kept" => kept'[i] = kept[i]
        /\ watched'[i].session \in over =>
             /\ watched[i].session \in over
             /\ watched'[i].late = watched[i].late
        /\ pending'[i].session \in over => pending'[i] = pending[i]
  BY <1>1 DEF AsBefore, Forgotten, NotWatched, NotPending, Gone, Unmade
<1>3. KnownIsKept' /\ WatchedIsKept'
  BY <1>2 DEF Agreeing, KnownIsKept, WatchedIsKept, IsKept, IsWatched
<1>4. KeptIsReadable'
  BY <1>2 DEF Agreeing, KeptIsReadable, IsKept
<1>5. SignOutStopsWhatWasClaimed'
  BY <1>2 DEF Agreeing, SignOutStopsWhatWasClaimed
<1> QED BY <1>3, <1>4, <1>5

(* Actions that leave the subscriptions alone. *)
LEMMA AgreeingRequests ==
  ASSUME Typed, Agreeing, UNCHANGED <<kept, watched, pending, over>>,
         \A r \in Slot :
           request'[r].stage \in {"opening", "open"} =>
             /\ request'[r].stage = request[r].stage
             /\ request'[r].sub = request[r].sub
             /\ request'[r].session = request[r].session
  PROVE  Agreeing'
<1>1. StreamsAreTheirPersons' /\ OpenIsKept'
  BY StreamsAsBefore DEF Agreeing
<1>2. \A i \in Subscription : AsBefore(i)
  BY DEF AsBefore
<1>3. /\ KnownIsKept' /\ WatchedIsKept' /\ KeptIsReadable'
      /\ SignOutStopsWhatWasClaimed'
  BY <1>2, WatchingAsBefore
<1> QED BY <1>1, <1>3 DEF Agreeing

LEMMA AgreeingResolve ==
  ASSUME Typed, Agreeing, NEW r \in Slot, NEW s \in Session, Resolve(r, s)
  PROVE  Agreeing'
<1>1. PICK kind, i, t : Arrive(r, s, kind, i, t)
  BY DEF Resolve
<1>2. /\ request'[r].stage = "resolved"
      /\ \A o \in Slot \ {r} : request'[o] = request[o]
      /\ UNCHANGED <<kept, watched, pending, over>>
  BY <1>1 DEF Arrive, watching, signOuts, Typed, TypeOK
<1> QED BY <1>2, AgreeingRequests

LEMMA AgreeingRefuse ==
  ASSUME Typed, Agreeing, NEW r \in Slot, Refuse(r)
  PROVE  Agreeing'
<1>1. /\ request'[r].stage = "idle"
      /\ \A o \in Slot \ {r} : request'[o] = request[o]
      /\ UNCHANGED <<kept, watched, pending, over>>
  BY DEF Refuse, Finish, Idle, watching, signOuts, Typed, TypeOK
<1> QED BY <1>1, AgreeingRequests

LEMMA AgreeingExpireStream ==
  ASSUME Typed, Agreeing, NEW r \in Slot, ExpireStream(r)
  PROVE  Agreeing'
<1>1. /\ request'[r].stage = "aborted"
      /\ \A o \in Slot \ {r} : request'[o] = request[o]
      /\ UNCHANGED <<kept, watched, pending, over>>
  BY DEF ExpireStream, Stage, Request, watching, signOuts, Typed, TypeOK
<1> QED BY <1>1, AgreeingRequests

(* Spine forgets a subscription and aborts its streams. *)
LEMMA AgreeingForget ==
  ASSUME Typed, Agreeing, NEW i \in Subscription, Forget(i),
         UNCHANGED <<pending, over>>,
         \A r \in Slot :
           request'[r].stage \in {"opening", "open"} =>
             /\ r \notin StreamsOf(i)
             /\ request'[r].stage = request[r].stage
             /\ request'[r].sub = request[r].sub
             /\ request'[r].session = request[r].session
  PROVE  Agreeing'
<1>1. /\ \A j \in Subscription \ {i} :
           kept'[j] = kept[j] /\ watched'[j] = watched[j]
      /\ kept'[i] = Gone /\ watched'[i] = NotWatched
  BY DEF Forget, Typed, TypeOK
<1>2. \A r \in Slot : request'[r].stage \in {"opening", "open"} =>
        request[r].sub \in Subscription \ {i}
  BY StreamTyped DEF StreamsOf
<1>3. StreamsAreTheirPersons' /\ OpenIsKept'
  BY <1>1, <1>2, StreamsAsBefore DEF Agreeing
<1>4. \A j \in Subscription : AsBefore(j) \/ Forgotten(j)
  BY <1>1 DEF AsBefore, Forgotten
<1>5. /\ KnownIsKept' /\ WatchedIsKept' /\ KeptIsReadable'
      /\ SignOutStopsWhatWasClaimed'
  BY <1>4, WatchingAsBefore
<1> QED BY <1>3, <1>5 DEF Agreeing

(* The stages once the streams of a subscription are aborted. *)
LEMMA AbortedStreams ==
  ASSUME Typed, NEW i \in Subscription
  PROVE  /\ Aborted(StreamsOf(i)) \in [Slot -> Request]
         /\ \A r \in Slot :
              Aborted(StreamsOf(i))[r].stage \in {"opening", "open"} =>
                /\ r \notin StreamsOf(i)
                /\ Aborted(StreamsOf(i))[r].stage = request[r].stage
                /\ Aborted(StreamsOf(i))[r].sub = request[r].sub
                /\ Aborted(StreamsOf(i))[r].session = request[r].session
BY StreamsOfTyped, AbortedTyped

LEMMA AgreeingExpire ==
  ASSUME Typed, Agreeing, NEW i \in Subscription, Expire(i)
  PROVE  Agreeing'
BY AbortedStreams, AgreeingForget DEF Expire, signOuts

LEMMA AgreeingCancel ==
  ASSUME Typed, Agreeing, NEW r \in Slot, Cancel(r)
  PROVE  Agreeing'
<1> DEFINE i == request[r].sub
<1>1. i \in Subscription
  BY DEF Cancel, Resolved, Typed, RequestsNameThings
<1>2. Forget(i) /\ UNCHANGED <<pending, over>>
  BY DEF Cancel, signOuts
<1>3. /\ request'[r].stage = "idle"
      /\ \A o \in Slot \ {r} : request'[o] = Aborted(StreamsOf(i))[o]
  BY <1>1, AbortedStreams DEF Cancel, Idle
<1> QED BY <1>1, <1>2, <1>3, AbortedStreams, AgreeingForget

LEMMA AgreeingCancelAsBrowser ==
  ASSUME Typed, Agreeing, NEW s \in Session, NEW i \in Subscription,
         CancelAsBrowser(s, i)
  PROVE  Agreeing'
<1>1. UNCHANGED <<pending, over>>
  BY DEF CancelAsBrowser
<1>2. CASE Forget(i) /\ request' = Aborted(StreamsOf(i))
  BY <1>1, <1>2, AbortedStreams, AgreeingForget
<1>3. CASE UNCHANGED <<request, kept, watched>>
  BY <1>1, <1>3, AgreeingRequests
<1> QED BY <1>2, <1>3 DEF CancelAsBrowser

LEMMA AgreeingCreate ==
  ASSUME Typed, Agreeing, NEW r \in Slot, Create(r)
  PROVE  Agreeing'
<1> DEFINE s == request[r].session
           t == request[r].topic
<1>1. s \in Session /\ t \in Topic /\ Context(s) \in Asking
  BY ContextType DEF Create, Resolved, Typed, RequestsNameThings
<1>2. PICK i \in Subscription :
        /\ kept[i] = Unmade
        /\ kept'[i].state = "kept" /\ kept'[i].context = Context(s)
        /\ kept'[i].topic = t
        /\ watched'[i].session = NoSession
        /\ \A j \in Subscription \ {i} :
             kept'[j] = kept[j] /\ watched'[j] = watched[j]
  BY DEF Create, Typed, TypeOK
<1>3. MayRead(TargetOf[t], Context(s))
  BY DEF Create, AskingIn
<1>4. /\ request'[r].stage = "idle"
      /\ \A o \in Slot \ {r} : request'[o] = request[o]
      /\ UNCHANGED <<pending, over>>
  BY DEF Create, Finish, Idle, signOuts, Typed, TypeOK
<1>5. \A o \in Slot : request[o].stage \in {"opening", "open"} =>
        request[o].sub \in Subscription \ {i}
  BY <1>2, StreamTyped
<1>6. StreamsAreTheirPersons' /\ OpenIsKept'
  BY <1>2, <1>4, <1>5, StreamsAsBefore DEF Agreeing
<1>7. KnownIsKept' /\ WatchedIsKept'
  BY <1>2 DEF Agreeing, KnownIsKept, WatchedIsKept, IsKept, IsWatched
<1>8. KeptIsReadable'
  BY <1>1, <1>2, <1>3 DEF Agreeing, KeptIsReadable, IsKept
<1>9. SignOutStopsWhatWasClaimed'
  BY <1>2, <1>4 DEF Agreeing, SignOutStopsWhatWasClaimed, Typed, TypeOK
<1> QED BY <1>6, <1>7, <1>8, <1>9 DEF Agreeing

LEMMA AgreeingClaim ==
  ASSUME Typed, Agreeing, NEW r \in Slot, Claim(r)
  PROVE  Agreeing'
<1> DEFINE i == request[r].sub
           s == request[r].session
<1>1. i \in Subscription
  BY DEF Claim, Resolved, Typed, RequestsNameThings
<1>2. /\ request'[r].stage \in {"allowed", "idle"}
      /\ \A o \in Slot \ {r} : request'[o] = request[o]
      /\ UNCHANGED <<kept, watched, over>>
  BY DEF Claim, Stage, Finish, Idle, Request, signOuts, Typed, TypeOK
<1>3. StreamsAreTheirPersons' /\ OpenIsKept'
  BY <1>2, StreamsAsBefore DEF Agreeing
<1>4. KnownIsKept' /\ WatchedIsKept' /\ KeptIsReadable'
  BY <1>2 DEF Agreeing, KnownIsKept, WatchedIsKept, KeptIsReadable, IsKept,
              IsWatched
<1>5. \A j \in Subscription :
        \/ pending'[j] \in {pending[j], NotPending}
        \/ pending'[j].session = s /\ (s \in over => pending'[j].late)
  <2>1. \A j \in Subscription : Noted[j] \in {pending[j], NotPending}
    BY DEF Noted
  <2>2. CASE MayClaim(i, s)
    <3> DEFINE note == [session |-> s, until |-> now + Wait,
                        late |-> s \in over]
    <3>1. pending' = [Noted EXCEPT ![i] = note]
      BY <2>2 DEF Claim
    <3>2. note.session = s /\ (s \in over => note.late)
      OBVIOUS
    <3> HIDE DEF note
    <3> QED BY <1>1, <2>1, <3>1, <3>2, NotedTyped
  <2>3. CASE ~MayClaim(i, s)
    BY <2>1, <2>3 DEF Claim
  <2> QED BY <2>2, <2>3
<1>6. SignOutStopsWhatWasClaimed'
  <2>1. NotPending.session \notin over
    BY DEF NotPending, Typed, TypeOK
  <2> QED BY <1>2, <1>5, <2>1 DEF Agreeing, SignOutStopsWhatWasClaimed
<1> QED BY <1>3, <1>4, <1>6 DEF Agreeing

LEMMA AgreeingActivate ==
  ASSUME Typed, StreamsAreHeld, Agreeing, NEW r \in Slot, Activate(r)
  PROVE  Agreeing'
<1> DEFINE i == request[r].sub
           note == pending[i]
<1>1. i \in Subscription /\ request[r].stage = "allowed"
  BY DEF Activate, Typed, RequestsNameThings
<1>2. /\ pending'[i] = NotPending
      /\ \A j \in Subscription \ {i} : pending'[j] = pending[j]
      /\ UNCHANGED <<kept, over>>
  BY <1>1 DEF Activate, signOuts, Typed, TypeOK
<1>3. CASE ~MayOpen(i, AskingIn(r))
  <2>1. /\ request'[r].stage = "idle"
        /\ \A o \in Slot \ {r} : request'[o] = request[o]
        /\ watched' = watched
    BY <1>3 DEF Activate, Finish, Idle, Typed, TypeOK
  <2>2. StreamsAreTheirPersons' /\ OpenIsKept'
    BY <1>2, <2>1, StreamsAsBefore DEF Agreeing
  <2>3. \A j \in Subscription :
          AsBefore(j) /\ pending'[j] \in {pending[j], NotPending}
    BY <1>2, <2>1 DEF AsBefore
  <2> QED BY <1>2, <2>2, <2>3, WatchingAsBefore DEF Agreeing
<1>4. CASE MayOpen(i, AskingIn(r))
  <2>1. /\ watched'[i].stream = r
        /\ watched'[i].session = note.session
        /\ watched'[i].known = watched[i].known
        /\ watched'[i].late = note.late
        /\ \A j \in Subscription \ {i} : watched'[j] = watched[j]
        /\ Stage(r, "opening")
        /\ watched[i].stream = NoSlot
        /\ Context(note.session) = AskingIn(r)
    BY <1>1, <1>4 DEF Activate, MayOpen, Typed, TypeOK
  <2>2. /\ request'[r].stage = "opening" /\ request'[r].sub = i
        /\ request'[r].session = request[r].session
        /\ \A o \in Slot \ {r} : request'[o] = request[o]
    BY <2>1 DEF Stage, Request, Typed, TypeOK
  <2>3. \A o \in Slot : request[o].stage \in {"opening", "open"} =>
          o # r /\ request[o].sub \in Subscription \ {i}
    BY <1>1, <2>1, StreamTyped DEF StreamsAreHeld
  <2>4. StreamsAreTheirPersons'
    <3> SUFFICES ASSUME NEW o \in Slot,
                        request'[o].stage \in {"opening", "open"},
                        watched'[request'[o].sub].session # NoSession
                 PROVE  Context(watched'[request'[o].sub].session)
                          = Context(request'[o].session)
      BY DEF StreamsAreTheirPersons, AskingIn
    <3>1. CASE o = r
      BY <2>1, <2>2, <3>1 DEF AskingIn
    <3>2. CASE o # r
      BY <2>1, <2>2, <2>3, <3>2 DEF Agreeing, StreamsAreTheirPersons, AskingIn
    <3> QED BY <3>1, <3>2
  <2>5. OpenIsKept'
    BY <1>2, <2>2 DEF Agreeing, OpenIsKept, AskingIn, IsKept
  <2>6. KnownIsKept' /\ WatchedIsKept' /\ KeptIsReadable'
    <3>1. \A j \in Subscription : watched'[j].known = watched[j].known
      BY <2>1
    <3>2. \A j \in Subscription :
            watched'[j].stream = NoSlot => watched'[j] = watched[j]
      BY <2>1
    <3> QED BY <1>2, <3>1, <3>2 DEF Agreeing, KnownIsKept, WatchedIsKept,
                                    KeptIsReadable, IsKept, IsWatched
  <2>7. SignOutStopsWhatWasClaimed'
    <3>1. NotPending.session \notin over
      BY DEF NotPending, Typed, TypeOK
    <3> QED BY <1>1, <1>2, <2>1, <3>1 DEF Agreeing, SignOutStopsWhatWasClaimed
  <2> QED BY <2>4, <2>5, <2>6, <2>7 DEF Agreeing
<1> QED BY <1>3, <1>4

LEMMA AgreeingOpen ==
  ASSUME Typed, Agreeing, NEW r \in Slot, Open(r)
  PROVE  Agreeing'
<1> DEFINE i == request[r].sub
<1>1. i \in Subscription /\ IsKept(i) /\ kept[i].context = AskingIn(r)
  BY StreamTyped DEF Open
<1>2. /\ watched'[i] = [watched[i] EXCEPT !.known = TRUE]
      /\ \A j \in Subscription \ {i} : watched'[j] = watched[j]
      /\ UNCHANGED <<kept, pending, over>>
  BY <1>1 DEF Open, signOuts, Typed, TypeOK
<1>3. /\ watched'[i].context = watched[i].context
      /\ watched'[i].session = watched[i].session
      /\ watched'[i].stream = watched[i].stream
      /\ watched'[i].late = watched[i].late
  BY <1>1, <1>2 DEF Typed, TypeOK, Watched, NotWatched
<1>4. /\ request[r].stage = "opening" /\ request'[r].stage = "open"
      /\ request'[r].sub = i /\ request'[r].session = request[r].session
      /\ \A o \in Slot \ {r} : request'[o] = request[o]
  BY DEF Open, Stage, Request, Typed, TypeOK
<1>5. OpenIsKept'
  <2> SUFFICES ASSUME NEW o \in Slot, request'[o].stage = "open"
               PROVE  /\ request'[o].sub \in Subscription
                      /\ kept[request'[o].sub].state = "kept"
                      /\ kept[request'[o].sub].context
                           = Context(request'[o].session)
    BY <1>2 DEF OpenIsKept, IsKept, AskingIn
  <2>1. CASE o = r
    BY <1>1, <1>4, <2>1 DEF IsKept, AskingIn
  <2>2. CASE o # r
    BY <1>4, <2>2 DEF Agreeing, OpenIsKept, IsKept, AskingIn
  <2> QED BY <2>1, <2>2
<1>6. \A j \in Subscription : watched'[j].session = watched[j].session
  BY <1>2, <1>3
<1>7. StreamsAreTheirPersons'
  <2>1. \A o \in Slot : request'[o].stage \in {"opening", "open"} =>
          /\ request[o].stage \in {"opening", "open"}
          /\ request'[o].sub = request[o].sub /\ request[o].sub \in Subscription
          /\ request'[o].session = request[o].session
    BY <1>4, StreamTyped
  <2> QED BY <1>6, <2>1 DEF Agreeing, StreamsAreTheirPersons, AskingIn
<1>8. KnownIsKept' /\ WatchedIsKept' /\ KeptIsReadable'
  BY <1>1, <1>2, <1>3 DEF Agreeing, KnownIsKept, WatchedIsKept, KeptIsReadable,
                          IsKept, IsWatched
<1>9. SignOutStopsWhatWasClaimed'
  BY <1>2, <1>3 DEF Agreeing, SignOutStopsWhatWasClaimed
<1> QED BY <1>5, <1>7, <1>8, <1>9 DEF Agreeing

LEMMA AgreeingEndStream ==
  ASSUME Typed, Agreeing, NEW r \in Slot, EndStream(r)
  PROVE  Agreeing'
<1> DEFINE i == request[r].sub
<1>1. i \in Subscription
  BY StreamTyped DEF EndStream
<1>2. /\ watched'[i] = Settled(i, r)
      /\ \A j \in Subscription \ {i} : watched'[j] = watched[j]
      /\ request'[r].stage = "idle"
      /\ \A o \in Slot \ {r} : request'[o] = request[o]
      /\ UNCHANGED <<kept, pending, over>>
  BY <1>1 DEF EndStream, Finish, Idle, signOuts, Typed, TypeOK
<1>3. CASE watched[i].stream # r \/ ~watched[i].known
  <2>1. watched'[i] = watched[i] \/ watched'[i] = NotWatched
    BY <1>2, <1>3 DEF Settled
  <2>2. \A j \in Subscription : AsBefore(j) \/ Forgotten(j)
    BY <1>2, <2>1 DEF AsBefore, Forgotten
  <2>3. /\ KnownIsKept' /\ WatchedIsKept' /\ KeptIsReadable'
        /\ SignOutStopsWhatWasClaimed'
    BY <1>2, <2>2, WatchingAsBefore
  <2>4. \A o \in Slot : request[o].stage \in {"opening", "open"} =>
          request[o].sub \in Subscription
    BY StreamTyped
  <2>5. \A j \in Subscription :
          watched'[j].session \in {watched[j].session, NoSession}
    BY <1>2, <2>1 DEF NotWatched
  <2> QED BY <1>2, <2>3, <2>4, <2>5, StreamsAsBefore DEF Agreeing
<1>4. CASE watched[i].stream = r /\ watched[i].known
  <2>1. watched'[i] = [watched[i] EXCEPT !.stream = NoSlot]
    BY <1>2, <1>4 DEF Settled
  <2>2. /\ watched'[i].context = watched[i].context
        /\ watched'[i].session = watched[i].session
        /\ watched'[i].known = watched[i].known
        /\ watched'[i].late = watched[i].late
    BY <1>1, <2>1 DEF Typed, TypeOK, Watched, NotWatched
  <2>3. IsKept(i)
    BY <1>1, <1>4 DEF Agreeing, KnownIsKept
  <2>4. KnownIsKept' /\ WatchedIsKept' /\ KeptIsReadable'
    BY <1>1, <1>2, <2>2, <2>3 DEF Agreeing, KnownIsKept, WatchedIsKept,
                                  KeptIsReadable, IsKept, IsWatched
  <2>5. SignOutStopsWhatWasClaimed'
    BY <1>2, <2>2 DEF Agreeing, SignOutStopsWhatWasClaimed
  <2>6. \A o \in Slot : request[o].stage \in {"opening", "open"} =>
          request[o].sub \in Subscription
    BY StreamTyped
  <2>7. \A j \in Subscription : watched'[j].session = watched[j].session
    BY <1>2, <2>2
  <2> QED BY <1>2, <2>4, <2>5, <2>6, <2>7, StreamsAsBefore DEF Agreeing
<1> QED BY <1>3, <1>4

LEMMA AgreeingStop ==
  ASSUME Typed, Agreeing, NEW s \in Session, Stop(s)
  PROVE  Agreeing'
<1> DEFINE opened == {i \in Subscription : watched[i].session = s}
           R == {watched[i].stream : i \in opened}
                  \cap UNION {StreamsOf(i) : i \in opened}
<1>1. /\ pending' = NotesWithout(s)
      /\ watched' = [i \in Subscription |->
           IF i \in opened THEN Disowned(i) ELSE watched[i]]
      /\ request' = Aborted(R)
      /\ over' = over \/ over' = over \cup {s}
      /\ kept' = kept
  BY DEF Stop
<1>2. R \in SUBSET Slot /\ \A r \in R : request[r].stage \in {"opening", "open"}
  BY DEF StreamsOf
<1>3. \A r \in Slot :
        /\ Aborted(R)[r].sub = request[r].sub
        /\ Aborted(R)[r].session = request[r].session
        /\ Aborted(R)[r].stage =
             IF r \in R THEN "aborted" ELSE request[r].stage
  BY <1>2, AbortedTyped
<1>4. \A i \in Subscription :
        /\ watched'[i].context = watched[i].context
        /\ watched'[i].stream = watched[i].stream
        /\ watched'[i].known = watched[i].known
        /\ watched'[i].late = watched[i].late
        /\ watched'[i].session =
             IF watched[i].session = s THEN NoSession ELSE watched[i].session
  <2> TAKE i \in Subscription
  <2>1. CASE i \in opened
    <3>1. watched[i] \in Watched
      BY <2>1 DEF Typed, TypeOK, NotWatched
    <3> QED BY <1>1, <2>1, <3>1 DEF Disowned, Watched
  <2>2. CASE i \notin opened
    BY <1>1, <2>2
  <2> QED BY <2>1, <2>2
<1>5. \A i \in Subscription :
        pending'[i] = IF pending[i].session = s THEN NotPending ELSE pending[i]
  BY <1>1 DEF NotesWithout
<1> HIDE DEF R
<1>6. \A r \in Slot : request[r].stage \in {"opening", "open"} =>
        request[r].sub \in Subscription
  BY StreamTyped
<1>7. StreamsAreTheirPersons' /\ OpenIsKept'
  BY <1>1, <1>3, <1>4, <1>6, StreamsAsBefore DEF Agreeing
<1>8. KnownIsKept' /\ WatchedIsKept' /\ KeptIsReadable'
  BY <1>1, <1>4 DEF Agreeing, KnownIsKept, WatchedIsKept, KeptIsReadable,
                    IsKept, IsWatched
<1>9. SignOutStopsWhatWasClaimed'
  <2>1. NoSession \notin over' /\ NotPending.session \notin over'
    BY <1>1 DEF Typed, TypeOK, NotPending
  <2> QED BY <1>1, <1>4, <1>5, <2>1 DEF Agreeing, SignOutStopsWhatWasClaimed
<1> QED BY <1>7, <1>8, <1>9 DEF Agreeing

LEMMA AgreeingRestart ==
  ASSUME Typed, Agreeing, Restart
  PROVE  Agreeing'
<1>1. /\ \A r \in Slot : request'[r].stage = "idle"
      /\ \A i \in Subscription :
           /\ kept'[i] = kept[i] /\ watched'[i] = NotWatched
           /\ pending'[i] = NotPending
      /\ over' = over
  BY DEF Restart, Idle
<1>2. StreamsAreTheirPersons' /\ OpenIsKept'
  BY <1>1 DEF StreamsAreTheirPersons, OpenIsKept
<1>3. \A i \in Subscription : Forgotten(i)
  BY <1>1 DEF Forgotten
<1> QED BY <1>1, <1>2, <1>3, WatchingAsBefore DEF Agreeing

-----------------------------------------------------------------------------
(* The inductive invariant, and the theorems it gives. *)

IInv == Typed /\ StreamsAreHeld /\ RowsOutlastTokens /\ Agreeing

LEMMA Initially ==
  ASSUME Init
  PROVE  IInv
<1>1. StreamsAreHeld
  BY DEF Init, StreamsAreHeld, Idle
<1>2. RowsOutlastTokens
  BY DEF Init, InitTokens, RowsOutlastTokens
<1> QED BY <1>1, <1>2, TypedInit, AgreeingInit DEF IInv

(* Steps that touch neither the rows nor who is over. *)
LEMMA RowsUntouched ==
  ASSUME RowsOutlastTokens, UNCHANGED <<now, expires, revoked, ending, over>>
  PROVE  RowsOutlastTokens'
BY DEF RowsOutlastTokens

LEMMA RequestStepKeeps ==
  ASSUME IInv, NEW r \in Slot, RequestStep(r)
  PROVE  IInv'
<1>1. Typed /\ StreamsAreHeld /\ RowsOutlastTokens /\ Agreeing
  BY DEF IInv
<1>2. CASE \E s \in Session : Resolve(r, s)
  <2>1. PICK s \in Session : Resolve(r, s)
    BY <1>2
  <2>2. RowsOutlastTokens'
    BY <1>1, <2>1, RowsUntouched DEF Resolve, Arrive, tokens, signOuts
  <2> QED BY <1>1, <2>1, <2>2, TypedResolve, HeldResolve, AgreeingResolve
          DEF IInv
<1>3. CASE Refuse(r)
  <2>1. RowsOutlastTokens'
    BY <1>1, <1>3, RowsUntouched DEF Refuse, tokens, signOuts
  <2>2. StreamsAreHeld'
    BY <1>1, <1>3, HeldFinish DEF Refuse, watching
  <2> QED BY <1>1, <1>3, <2>1, <2>2, TypedRefuse, AgreeingRefuse DEF IInv
<1>4. CASE Create(r)
  <2>1. RowsOutlastTokens'
    BY <1>1, <1>4, RowsUntouched DEF Create, tokens, signOuts
  <2> QED BY <1>1, <1>4, <2>1, TypedCreate, HeldCreate, AgreeingCreate DEF IInv
<1>5. CASE Cancel(r)
  <2> DEFINE i == request[r].sub
  <2>1. RowsOutlastTokens'
    BY <1>1, <1>5, RowsUntouched DEF Cancel, tokens, signOuts
  <2>2. i \in Subscription
    BY <1>1, <1>5 DEF Cancel, Resolved, Typed, RequestsNameThings
  <2>3. /\ \A o \in Slot :
             /\ Aborted(StreamsOf(i))[o].sub = request[o].sub
             /\ Aborted(StreamsOf(i))[o].stage =
                  IF o \in StreamsOf(i) THEN "aborted" ELSE request[o].stage
        /\ request'[r].stage = "idle"
        /\ \A o \in Slot \ {r} : request'[o] = Aborted(StreamsOf(i))[o]
    BY <1>1, <1>5, <2>2, StreamsOfTyped, AbortedTyped DEF Cancel, Idle
  <2>4. StreamsAreHeld'
    BY <1>1, <1>5, <2>2, <2>3, HeldForget DEF Cancel
  <2> QED BY <1>1, <1>5, <2>1, <2>4, TypedCancel, AgreeingCancel DEF IInv
<1>6. CASE Claim(r)
  <2>1. RowsOutlastTokens'
    BY <1>1, <1>6, RowsUntouched DEF Claim, tokens, signOuts
  <2>2. /\ request'[r].stage \in {"allowed", "idle"}
        /\ \A o \in Slot \ {r} : request'[o] = request[o]
        /\ UNCHANGED <<kept, watched>>
    BY <1>1, <1>6 DEF Claim, Stage, Finish, Idle, Request, Typed, TypeOK
  <2>3. StreamsAreHeld'
    BY <1>1, <2>2, HeldAsBefore DEF IsKept
  <2> QED BY <1>1, <1>6, <2>1, <2>3, TypedClaim, AgreeingClaim DEF IInv
<1>7. CASE Activate(r)
  <2>1. RowsOutlastTokens'
    BY <1>1, <1>7, RowsUntouched DEF Activate, tokens, signOuts
  <2> QED BY <1>1, <1>7, <2>1, TypedActivate, HeldActivate, AgreeingActivate
          DEF IInv
<1>8. CASE Open(r)
  <2>1. RowsOutlastTokens'
    BY <1>1, <1>8, RowsUntouched DEF Open, tokens, signOuts
  <2>2. /\ request[r].stage = "opening" /\ request'[r].stage = "open"
        /\ request'[r].sub = request[r].sub
        /\ \A o \in Slot \ {r} : request'[o] = request[o]
        /\ kept' = kept
    BY <1>1, <1>8 DEF Open, Stage, Request, Typed, TypeOK
  <2>3. \A i \in Subscription : watched'[i].stream = watched[i].stream
    BY <1>1, <1>8 DEF Open, Typed, TypeOK, Watched, NotWatched
  <2>4. StreamsAreHeld'
    BY <1>1, <2>2, <2>3, StreamTyped, HeldAsBefore DEF IsKept
  <2> QED BY <1>1, <1>8, <2>1, <2>4, TypedOpen, AgreeingOpen DEF IInv
<1>9. CASE EndStream(r)
  <2>1. RowsOutlastTokens'
    BY <1>1, <1>9, RowsUntouched DEF EndStream, tokens, signOuts
  <2> QED BY <1>1, <1>9, <2>1, TypedEndStream, HeldEndStream, AgreeingEndStream
          DEF IInv
<1>10. CASE ExpireStream(r)
  <2>1. RowsOutlastTokens'
    BY <1>1, <1>10, RowsUntouched DEF ExpireStream, tokens, signOuts
  <2>2. /\ request[r].stage = "open" /\ request'[r].stage = "aborted"
        /\ request'[r].sub = request[r].sub
        /\ \A o \in Slot \ {r} : request'[o] = request[o]
        /\ UNCHANGED <<kept, watched>>
    BY <1>1, <1>10 DEF ExpireStream, Stage, Request, watching, Typed, TypeOK
  <2>3. StreamsAreHeld'
    BY <1>1, <2>2, HeldAsBefore DEF IsKept
  <2> QED BY <1>1, <1>10, <2>1, <2>3, TypedExpireStream, AgreeingExpireStream
          DEF IInv
<1> QED BY <1>2, <1>3, <1>4, <1>5, <1>6, <1>7, <1>8, <1>9, <1>10
        DEF RequestStep

LEMMA SignOutStepKeeps ==
  ASSUME IInv, NEW s \in Session,
         BeginSignOut(s) \/ BeginUnresolved(s) \/ SignOutStep(s)
  PROVE  IInv'
<1>1. Typed /\ StreamsAreHeld /\ RowsOutlastTokens /\ Agreeing
  BY DEF IInv
<1>2. CASE BeginSignOut(s) \/ BeginUnresolved(s)
  <2>1. UNCHANGED <<request, kept, watched, pending, over>>
    BY <1>2 DEF BeginSignOut, BeginUnresolved, watching
  <2>2. StreamsAreHeld'
    BY <1>1, <2>1, HeldAsBefore DEF IsKept
  <2>3. Agreeing'
    BY <1>1, <2>1, AgreeingRequests
  <2> QED BY <1>1, <1>2, <2>2, <2>3, TypedBegin, RowsBegin DEF IInv
<1>3. CASE \E i \in Subscription : CancelAsBrowser(s, i)
  <2>1. PICK i \in Subscription : CancelAsBrowser(s, i)
    BY <1>3
  <2>2. RowsOutlastTokens'
    BY <1>1, <2>1, RowsUntouched DEF CancelAsBrowser, tokens
  <2>3. StreamsAreHeld'
    <3>1. CASE Forget(i) /\ request' = Aborted(StreamsOf(i))
      BY <1>1, <3>1, StreamsOfTyped, AbortedTyped, HeldForget
    <3>2. CASE UNCHANGED <<request, kept, watched>>
      BY <1>1, <3>2, HeldAsBefore DEF IsKept
    <3> QED BY <2>1, <3>1, <3>2 DEF CancelAsBrowser
  <2> QED BY <1>1, <2>1, <2>2, <2>3, TypedCancelAsBrowser,
             AgreeingCancelAsBrowser DEF IInv
<1>4. CASE Logout(s)
  <2>1. UNCHANGED <<request, kept, watched, pending, over>>
    BY <1>4 DEF Logout, watching
  <2>2. StreamsAreHeld'
    BY <1>1, <2>1, HeldAsBefore DEF IsKept
  <2>3. Agreeing'
    BY <1>1, <2>1, AgreeingRequests
  <2> QED BY <1>1, <1>4, <2>2, <2>3, TypedLogout, RowsLogout DEF IInv
<1>5. CASE Stop(s)
  BY <1>1, <1>5, TypedStop, HeldStop, RowsStop, AgreeingStop DEF IInv
<1> QED BY <1>2, <1>3, <1>4, <1>5 DEF SignOutStep

LEMMA OtherStepsKeep ==
  ASSUME IInv,
         \/ TokenStep \/ Restart \/ UNCHANGED vars
         \/ \E i \in Subscription : Expire(i)
  PROVE  IInv'
<1>1. Typed /\ StreamsAreHeld /\ RowsOutlastTokens /\ Agreeing
  BY DEF IInv
<1>2. CASE TokenStep
  <2>1. UNCHANGED <<request, kept, watched, pending, over>>
    BY <1>2 DEF TokenStep, watching, signOuts
  <2>2. StreamsAreHeld'
    BY <1>1, <2>1, HeldAsBefore DEF IsKept
  <2>3. Agreeing'
    BY <1>1, <2>1, AgreeingRequests
  <2> QED BY <1>1, <1>2, <2>2, <2>3, TypedTokenStep, RowsTokenStep DEF IInv
<1>3. CASE Restart
  <2>1. RowsOutlastTokens'
    BY <1>1, <1>3 DEF Restart, tokens, RowsOutlastTokens
  <2>2. StreamsAreHeld'
    BY <1>3 DEF Restart, StreamsAreHeld, Idle
  <2> QED BY <1>1, <1>3, <2>1, <2>2, TypedRestart, AgreeingRestart DEF IInv
<1>4. CASE UNCHANGED vars
  <2>1. UNCHANGED <<tokens, request, kept, watched, pending, ending, closing,
                    over, restarts>>
    BY <1>4 DEF vars, watching, signOuts
  <2>2. Typed'
    BY <1>1, <2>1 DEF Typed, TypeOK, TokensTypeOK, RequestsNameThings, tokens
  <2>3. StreamsAreHeld'
    BY <1>1, <2>1, HeldAsBefore DEF IsKept
  <2>4. RowsOutlastTokens'
    BY <1>1, <2>1, RowsUntouched DEF tokens
  <2>5. Agreeing'
    BY <1>1, <2>1, AgreeingRequests
  <2> QED BY <2>2, <2>3, <2>4, <2>5 DEF IInv
<1>5. CASE \E i \in Subscription : Expire(i)
  <2>1. PICK i \in Subscription : Expire(i)
    BY <1>5
  <2>2. RowsOutlastTokens'
    BY <1>1, <2>1, RowsUntouched DEF Expire, tokens, signOuts
  <2>3. StreamsAreHeld'
    BY <1>1, <2>1, StreamsOfTyped, AbortedTyped, HeldForget DEF Expire
  <2> QED BY <1>1, <2>1, <2>2, <2>3, TypedExpire, AgreeingExpire DEF IInv
<1> QED BY <1>2, <1>3, <1>4, <1>5

LEMMA Invariance == Spec => []IInv
<1>1. Init => IInv
  BY Initially
<1>2. IInv /\ [Next]_vars => IInv'
  BY RequestStepKeeps, SignOutStepKeeps, OtherStepsKeep DEF Next
<1> QED BY <1>1, <1>2, PTL DEF Spec

(* Everything the gateway holds is what its types say, whatever comes in   *)
(* and in whatever order, restarts and failed openings included.           *)
THEOREM TypeCorrect == Spec => []TypeOK
<1>1. IInv => TypeOK
  BY DEF IInv, Typed
<1> QED BY <1>1, Invariance, PTL

(* A session whose sign-out was confirmed is never accepted again, however *)
(* long tokens last, clocks differ and other rows are deleted.             *)
THEOREM EndedSessionsStayRefused == Spec => []EndedStaysRefused
<1>1. IInv => EndedStaysRefused
  BY RowsImplyRefusal DEF IInv
<1> QED BY <1>1, Invariance, PTL

(* Each stream is held by the request that opened it, as long as it runs.  *)
THEOREM StreamsStayHeld == Spec => []StreamsAreHeld
<1>1. IInv => StreamsAreHeld
  BY DEF IInv
<1> QED BY <1>1, Invariance, PTL

(* A stream is only ever noted for a session of the person who opened it.  *)
THEOREM StreamsStayTheirPersons == Spec => []StreamsAreTheirPersons
<1>1. IInv => StreamsAreTheirPersons
  BY DEF IInv, Agreeing
<1> QED BY <1>1, Invariance, PTL

(* The gateway holds no subscription that Spine has forgotten.             *)
THEOREM NothingForgottenIsWatched == Spec => []WatchedIsKept
<1>1. IInv => WatchedIsKept
  BY DEF IInv, Agreeing
<1> QED BY <1>1, Invariance, PTL

(* Whatever was claimed before a sign-out was confirmed stops with it.     *)
THEOREM SignOutStopsTheClaimed == Spec => []SignOutStopsWhatWasClaimed
<1>1. IInv => SignOutStopsWhatWasClaimed
  BY DEF IInv, Agreeing
<1> QED BY <1>1, Invariance, PTL

(* An open stream shows only what concerns the person who opened it: the   *)
(* policy judged the subscription for the one it is kept for, and it opens *)
(* for nobody else.                                                        *)
THEOREM OpenStreamsConcernTheReader == Spec => []StreamsConcernTheReader
<1>1. IInv => StreamsConcernTheReader
  <2> SUFFICES ASSUME IInv, NEW r \in Slot, request[r].stage = "open"
               PROVE  LET shown == kept[request[r].sub]
                          target == TargetOf[shown.topic]
                      IN  OnlyConcerning(target,
                            TenantOf(target, shown.context), AskingIn(r))
    BY DEF StreamsConcernTheReader
  <2> DEFINE shown == kept[request[r].sub]
             target == TargetOf[shown.topic]
  <2>1. /\ shown.context = AskingIn(r) /\ shown.context \in Asking
        /\ shown.topic \in Topic /\ MayRead(target, shown.context)
    BY DEF IInv, Agreeing, OpenIsKept, KeptIsReadable
  <2>2. target \in Target
    BY <2>1
  <2> HIDE DEF shown, target
  <2>3. OnlyConcerning(target, TenantOf(target, shown.context), shown.context)
    BY <2>1, <2>2, ReadsConcernTheReader
  <2> QED BY <2>1, <2>3 DEF shown, target
<1> QED BY <1>1, Invariance, PTL

(* While a session lasts, an answer in it holds only what concerns the     *)
(* person, whatever form the query has.                                    *)
THEOREM QueriesAreAnsweredWell == Spec => []AnswersConcernTheReader
<1>1. AnswersConcernTheReader
  <2> SUFFICES ASSUME NEW s \in Session
               PROVE  <<Context(s), TRUE>> \in Answers
    BY DEF AnswersConcernTheReader
  <2>1. Context(s) \in Asking
    BY ContextType
  <2>2. WellAnswered(Context(s)) = TRUE
    <3>1. \A query \in Query :
            IsMember(Context(s)) /\ MayQuery(query, Context(s)) =>
              OnlyConcerning(query, TenantOf(query, Context(s)), Context(s))
      BY <2>1, QueriesConcernTheReader
    <3> QED BY <3>1 DEF WellAnswered
  <2> QED BY <2>1, <2>2 DEF Answers
<1> QED BY <1>1, PTL
=============================================================================
