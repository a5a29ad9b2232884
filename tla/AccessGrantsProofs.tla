------------------------- MODULE AccessGrantsProofs -------------------------
(***************************************************************************)
(* Theorems about what the approved requests of AccessRequests do to the   *)
(* grants, for all values of its constants, however long the inbox is and  *)
(* however often a message is handled again.                               *)
(***************************************************************************)
EXTENDS AccessRequestsProofs, AccessPeriodsProofs

----------------------------------------------------------------------------
(* Where the inbox holds the messages about a request. *)

Is(m, entity, types, r) ==
  m.to = entity /\ m.signal.type \in types /\ m.signal.request = r

Places(entity, types, r) ==
  {i \in 1 .. Len(inbox) : Is(inbox[i], entity, types, r)}

ChangeEvents == {"AccessGrantCreated", "AccessGrantExtended"}

Starts(r) == Places("AccessRequest", {"AccessRequestApprovalStarted"}, r)

Creates(r) == Places("ResourceAccess", {"CreateAccessGrant"}, r)

Changes(r) == Places("AccessRequest", ChangeEvents, r)

Checks(r) == Places("AccessRequest", {"RequestedExtensionChecked"}, r)

Refusals(r) == Places("AccessRequest", {"AccessGrantNotActive"}, r)

Prompts ==
  {"SubmitAccessRequest", "SubmitAccessExtensionRequest",
   "ApproveAccessRequest", "DenyAccessRequest", "CancelAccessRequest",
   "RevokeAccessGrant"}

----------------------------------------------------------------------------
(* What the messages say of the request they are about. *)

Reviewed(r) ==
  request[r].status \notin
    {"UNSPECIFIED", "SUBMISSION_STARTED", "SUBMISSION_FAILED"}

(* An approval has been accepted, whatever became of it. *)
Accepted(r) ==
  request[r].status \in {"APPROVAL_STARTED", "APPROVED", "APPROVAL_FAILED"}

LengthOf(period) ==
  IF period.kind = "immediate" THEN period.duration
                               ELSE period.end - period.start

Fits(r) ==
  LET snapshot == request[r].snapshot IN
  LengthOf(snapshot.period) <= MaximumDuration[snapshot.resource]

Faithful(s) ==
  LET snapshot == request[s.request].snapshot IN
  /\ s.type = "CheckRequestedAccess" =>
       /\ s.id = AccessOf(snapshot)
       /\ s.maximum = MaximumDuration[snapshot.resource]
       /\ s.end - s.start = LengthOf(snapshot.period)
  /\ s.type = "RequestedAccessChecked" => Fits(s.request)
  /\ s.type = "CheckRequestedExtension" =>
       /\ s.id = AccessOf(snapshot) /\ s.grant = snapshot.grant
       /\ s.maximum = MaximumDuration[snapshot.resource]
  /\ s.type = "AccessRequestApprovalStarted" =>
       Accepted(s.request) /\ s.snapshot = snapshot
  /\ s.type = "CreateAccessGrant" =>
       /\ EndAsRequested([id |-> s.request, start |-> s.start, end |-> s.end])
       /\ s.end - s.start <= MaximumDuration[snapshot.resource]
  /\ s.type = "ExtendAccessGrant" =>
       /\ Accepted(s.request)
       /\ s.id = AccessOf(snapshot) /\ s.grant = snapshot.grant
       /\ s.end = snapshot.proposedEnd

(* Messages tell what the request says, which is checked once reviewed. *)
Saying ==
  /\ \A s \in InFlight : Faithful(s)
  /\ \A r \in Request : Reviewed(r) /\ SaysNew(r) => Fits(r)

----------------------------------------------------------------------------
(* A grant may be created more than once, when the server stops; but then  *)
(* nothing but clients' commands comes between.                            *)

Plain(x, g) == inbox[x].signal.type \in Prompts \/ x \in Creates(g)

InTurn(g) ==
  /\ \A i, j \in Starts(g) : i = j
  /\ \A i, k \in Creates(g) : \A x \in i .. k : Plain(x, g)
  /\ Starts(g) # {} =>
       \A i \in Creates(g) : \A x \in i .. Len(inbox) :
         1 \in Starts(g) /\ Plain(x, g)
  /\ SaysNew(g) /\ g \in applied =>
       /\ Starts(g) = {}
       /\ \A k \in Creates(g) : \A x \in 1 .. k : Plain(x, g)

(* And as long as the server has not stopped, it is created once only. *)
Once(g) ==
  crashes = 0 =>
    /\ \A i, k \in Creates(g) : i = k
    /\ Starts(g) # {} => Creates(g) = {}
    /\ SaysNew(g) /\ g \in applied => Creates(g) = {}

(* A grant is named by a request that was applied. *)
GrantsApplied == \A a \in AccessId : GrantIds(access[a]) \subseteq applied

(* Nothing creates the grant any more. *)
Over(g) == SaysNew(g) /\ g \in applied /\ Creates(g) = {}

HeldOf(r) ==
  LET snapshot == request[r].snapshot IN
  {h \in access[AccessOf(snapshot)].grant : h.id = snapshot.grant}

(* What holds of the grant since an extension of it to this end was checked*)
Seen(r, end) ==
  LET snapshot == request[r].snapshot IN
  /\ end \in Time
  /\ Over(snapshot.grant)
  /\ \A h \in HeldOf(r) :
       /\ h.start <= now
       /\ end - h.start <= MaximumDuration[snapshot.resource]

Checked(r) ==
  SaysExtension(r) =>
    /\ \A i \in Checks(r) : Seen(r, inbox[i].signal.proposedEnd)
    /\ Reviewed(r) => Seen(r, request[r].snapshot.proposedEnd)

(* The grant that an extension is about has ended, or is gone. *)
Ended(r) == \A h \in HeldOf(r) : h.end <= now

Refused(r) ==
  SaysExtension(r) =>
    /\ Reviewed(r) /\ Refusals(r) # {} /\ r \notin applied => Ended(r)
    /\ r \notin applied =>
         \A i \in Refusals(r) : \A j \in Checks(r) : j < i => Ended(r)
    /\ request[r].status = "APPROVAL_FAILED" => Ended(r)

Settling(r) ==
  /\ r \in applied => Approving(r)
  /\ request[r].status = "APPROVED" => r \in applied
  /\ Changes(r) # {} => r \in applied
  /\ r \in applied /\ request[r].status = "APPROVAL_STARTED" =>
       /\ Changes(r) # {}
       /\ \A i \in Refusals(r) : \E j \in Changes(r) : j < i

(* No request has two grants at once. *)
Distinct ==
  \A a \in AccessId : \A g, h \in access[a].grant : g.id = h.id => g = h

(* How long a grant lasts, and until when. *)
Lasts(a, g) ==
  /\ g.end - g.start <= MaximumDuration[a.resource]
  /\ \/ EndAsRequested(g)
     \/ \E r \in applied :
          /\ ExtensionOf(request[r].snapshot, g.id)
          /\ request[r].snapshot.proposedEnd = g.end

Lasting == \A a \in AccessId : \A g \in access[a].grant : Lasts(a, g)

GInv ==
  /\ Saying
  /\ GrantsApplied
  /\ Distinct
  /\ Lasting
  /\ \A r \in Request :
       InTurn(r) /\ Once(r) /\ Checked(r) /\ Refused(r) /\ Settling(r)

----------------------------------------------------------------------------
(* A step of the inbox: what was there moves up by none or one place, and  *)
(* the messages come behind it.  Unless the server stopped, a message stays*)
(* in its place only while clients give commands.                          *)
Came(left, messages) ==
  /\ left <= Len(inbox)
  /\ Len(inbox') = Len(inbox) - left + Len(messages)
  /\ \A i \in 1 .. Len(inbox) - left : inbox'[i] = inbox[i + left]
  /\ \A j \in 1 .. Len(messages) :
       inbox'[Len(inbox) - left + j] = messages[j]
  /\ crashes' = 0 => crashes = 0
  /\ left = 0 =>
       \/ crashes' # 0
       \/ /\ applied' = applied
          /\ \A j \in 1 .. Len(messages) :
               messages[j].signal.type \in Prompts

Given(messages, entity, types, r) ==
  {j \in 1 .. Len(messages) : Is(messages[j], entity, types, r)}

(* Give drops the delivered message, or does not when the server stops.    *)
LEMMA GiveIs ==
  ASSUME TypeOK, inbox # <<>>, NEW S, Message \subseteq S,
         NEW messages \in Seq(S), Give(messages)
  PROVE  \E left \in {0, 1} : Came(left, messages)
<1>1. inbox \in Seq(S)
  BY DEF TypeOK
<1>2. Len(inbox) \in Nat /\ Len(messages) \in Nat /\ Len(inbox) >= 1
  BY <1>1, LenProperties, EmptySeq
<1>3. /\ Tail(inbox) \in Seq(S)
      /\ Len(Tail(inbox)) = Len(inbox) - 1
      /\ \A i \in 1 .. Len(Tail(inbox)) : Tail(inbox)[i] = inbox[i + 1]
  BY <1>1, HeadTailProperties
<1>4. ASSUME NEW left \in {0, 1}, NEW rest \in Seq(S),
             Len(rest) = Len(inbox) - left,
             \A i \in 1 .. Len(rest) : rest[i] = inbox[i + left],
             inbox' = rest \o messages,
             crashes' = 0 => crashes = 0 /\ left = 1
      PROVE  Came(left, messages)
  <2>1. /\ Len(inbox') = Len(rest) + Len(messages)
        /\ \A i \in 1 .. Len(rest) + Len(messages) : inbox'[i] =
             IF i <= Len(rest) THEN rest[i] ELSE messages[i - Len(rest)]
    BY <1>4, ConcatProperties
  <2>2. \A i \in 1 .. Len(inbox) - left : inbox'[i] = inbox[i + left]
    BY <1>2, <1>4, <2>1
  <2>3. ASSUME NEW j \in 1 .. Len(messages)
        PROVE  inbox'[Len(inbox) - left + j] = messages[j]
    <3>1. /\ Len(rest) + j \in 1 .. Len(rest) + Len(messages)
          /\ ~(Len(rest) + j <= Len(rest)) /\ Len(rest) + j - Len(rest) = j
      BY <1>2, <1>4
    <3>2. inbox'[Len(rest) + j] = messages[j]
      BY <2>1, <3>1
    <3>. QED BY <1>4, <3>2
  <2>. QED BY <1>2, <1>4, <2>1, <2>2, <2>3 DEF Came
<1>5. CASE inbox' = Tail(inbox) \o messages /\ UNCHANGED crashes
  BY <1>2, <1>3, <1>4, <1>5
<1>6. CASE inbox' = inbox \o messages /\ crashes' = crashes + 1
  <2>1. /\ 0 \in {0, 1} /\ Len(inbox) = Len(inbox) - 0
        /\ \A i \in 1 .. Len(inbox) : inbox[i] = inbox[i + 0]
        /\ crashes' # 0
    BY <1>2, <1>6 DEF TypeOK
  <2>. QED BY <1>1, <1>4, <1>6, <2>1
<1>. QED BY <1>5, <1>6 DEF Give

LEMMA GiveNone ==
  ASSUME TypeOK, inbox # <<>>, Give(<<>>)
  PROVE  <<>> \in Seq(Message) /\ \E left \in {0, 1} : Came(left, <<>>)
<1>1. <<>> \in Seq(Message) /\ Message \subseteq Message
  OBVIOUS
<1>. QED BY <1>1, GiveIs

(* What is given has its type, since the inbox keeps it.                   *)
LEMMA GiveOne ==
  ASSUME TypeOK, TypeOK', inbox # <<>>, NEW m, Give(<<m>>)
  PROVE  /\ m \in Message /\ <<m>> \in Seq(Message)
         /\ \E left \in {0, 1} : Came(left, <<m>>)
<1>. DEFINE S == Message \cup {m}
<1>1. <<m>> \in Seq(S) /\ Message \subseteq S
  OBVIOUS
<1>2. PICK left \in {0, 1} : Came(left, <<m>>)
  <2>. HIDE DEF S
  <2>. QED BY <1>1, GiveIs
<1>3. Len(inbox) - left + 1 \in 1 .. Len(inbox')
  BY <1>2, LenProperties DEF Came, TypeOK
<1>4. inbox'[Len(inbox) - left + 1] = m
  BY <1>2 DEF Came
<1>5. m \in Message
  BY <1>3, <1>4, ElementOfSeq DEF TypeOK
<1>. QED BY <1>2, <1>5

LEMMA GiveTwo ==
  ASSUME TypeOK, TypeOK', inbox # <<>>, NEW m, NEW n, Give(<<m, n>>)
  PROVE  /\ m \in Message /\ n \in Message /\ <<m, n>> \in Seq(Message)
         /\ \E left \in {0, 1} : Came(left, <<m, n>>)
<1>. DEFINE S == Message \cup {m, n}
<1>1. <<m, n>> \in Seq(S) /\ Message \subseteq S
  OBVIOUS
<1>2. PICK left \in {0, 1} : Came(left, <<m, n>>)
  <2>. HIDE DEF S
  <2>. QED BY <1>1, GiveIs
<1>3. /\ Len(inbox) - left + 1 \in 1 .. Len(inbox')
      /\ Len(inbox) - left + 2 \in 1 .. Len(inbox')
  BY <1>2, LenProperties DEF Came, TypeOK
<1>4. /\ inbox'[Len(inbox) - left + 1] = m
      /\ inbox'[Len(inbox) - left + 2] = n
  BY <1>2 DEF Came
<1>5. m \in Message /\ n \in Message
  BY <1>3, <1>4, ElementOfSeq DEF TypeOK
<1>. QED BY <1>2, <1>5

(* A client's command comes behind the others.                             *)
LEMMA AppendIs ==
  ASSUME TypeOK, NEW m \in Message, m.signal.type \in Prompts,
         inbox' = Append(inbox, m), UNCHANGED <<crashes, applied>>
  PROVE  Came(0, <<m>>)
<1>1. inbox \in Seq(Message)
  BY DEF TypeOK
<1>2. /\ Len(inbox') = Len(inbox) + 1
      /\ \A i \in 1 .. Len(inbox) : inbox'[i] = inbox[i]
      /\ inbox'[Len(inbox) + 1] = m
  BY <1>1, AppendProperties
<1>. QED BY <1>1, <1>2, LenProperties DEF Came

LEMMA NothingComes ==
  ASSUME TypeOK, UNCHANGED <<inbox, crashes, applied>>
  PROVE  Came(0, <<>>)
BY LenProperties DEF Came, TypeOK

(* The places of the messages of a kind, and of the given ones among them. *)
LEMMA PlacesMove ==
  ASSUME TypeOK, NEW messages \in Seq(Message), NEW left \in {0, 1},
         Came(left, messages), NEW entity, NEW types, NEW r
  PROVE  /\ \A i \in Places(entity, types, r)' :
              \/ /\ i + left \in Places(entity, types, r)
                 /\ inbox'[i] = inbox[i + left]
                 /\ i <= Len(inbox) - left
              \/ \E j \in Given(messages, entity, types, r) :
                   i = Len(inbox) - left + j /\ inbox'[i] = messages[j]
         /\ \A i \in Places(entity, types, r) : i > left =>
              /\ i - left \in Places(entity, types, r)'
              /\ inbox'[i - left] = inbox[i]
         /\ \A j \in Given(messages, entity, types, r) :
              Len(inbox) - left + j \in Places(entity, types, r)'
<1>1. Len(inbox) \in Nat /\ Len(messages) \in Nat
  BY LenProperties DEF TypeOK
<1>2. ASSUME NEW i \in Places(entity, types, r)'
      PROVE  \/ /\ i + left \in Places(entity, types, r)
                /\ inbox'[i] = inbox[i + left]
                /\ i <= Len(inbox) - left
             \/ \E j \in Given(messages, entity, types, r) :
                  i = Len(inbox) - left + j /\ inbox'[i] = messages[j]
  <2>1. i \in 1 .. Len(inbox') /\ Is(inbox'[i], entity, types, r)
    BY DEF Places
  <2>2. CASE i <= Len(inbox) - left
    <3>1. i \in 1 .. Len(inbox) - left /\ i + left \in 1 .. Len(inbox)
      BY <1>1, <2>1, <2>2 DEF Came
    <3>. QED BY <2>1, <2>2, <3>1 DEF Came, Places
  <2>3. CASE i > Len(inbox) - left
    <3> DEFINE j == i - (Len(inbox) - left)
    <3>1. j \in 1 .. Len(messages) /\ i = Len(inbox) - left + j
      BY <1>1, <2>1, <2>3 DEF Came
    <3>2. inbox'[i] = messages[j]
      BY <3>1 DEF Came
    <3>. QED BY <2>1, <3>1, <3>2 DEF Given
  <2>. QED BY <1>1, <2>1, <2>2, <2>3
<1>3. ASSUME NEW i \in Places(entity, types, r), i > left
      PROVE  /\ i - left \in Places(entity, types, r)'
             /\ inbox'[i - left] = inbox[i]
  <2>1. i \in 1 .. Len(inbox) /\ Is(inbox[i], entity, types, r)
    BY DEF Places
  <2>2. /\ i - left \in 1 .. Len(inbox) - left /\ i - left + left = i
        /\ i - left \in 1 .. Len(inbox')
    BY <1>1, <1>3, <2>1 DEF Came
  <2>3. inbox'[i - left] = inbox[i]
    BY <2>2 DEF Came
  <2>. QED BY <2>1, <2>2, <2>3 DEF Places
<1>4. ASSUME NEW j \in Given(messages, entity, types, r)
      PROVE  Len(inbox) - left + j \in Places(entity, types, r)'
  <2>1. j \in 1 .. Len(messages) /\ Is(messages[j], entity, types, r)
    BY DEF Given
  <2>2. Len(inbox) - left + j \in 1 .. Len(inbox')
    BY <1>1, <2>1 DEF Came
  <2>. QED BY <2>1, <2>2 DEF Came, Places
<1>. QED BY <1>2, <1>3, <1>4

----------------------------------------------------------------------------
(* How each part of the invariant is kept by a step. *)

GivenStarts(messages, r) ==
  Given(messages, "AccessRequest", {"AccessRequestApprovalStarted"}, r)

GivenCreates(messages, r) ==
  Given(messages, "ResourceAccess", {"CreateAccessGrant"}, r)

GivenChanges(messages, r) ==
  Given(messages, "AccessRequest", ChangeEvents, r)

GivenChecks(messages, r) ==
  Given(messages, "AccessRequest", {"RequestedExtensionChecked"}, r)

GivenRefusals(messages, r) ==
  Given(messages, "AccessRequest", {"AccessGrantNotActive"}, r)

LEMMA StartsAndCreatesApart ==
  ASSUME NEW g \in Request PROVE ~(1 \in Starts(g) /\ 1 \in Creates(g))
BY DEF Starts, Creates, Places, Is

(* A start is only given when the creation has not begun, and a creation   *)
(* only by the start at the head.                                          *)
LEMMA InTurnKept ==
  ASSUME TypeOK, NEW messages \in Seq(Message), NEW left \in {0, 1},
         Came(left, messages), NEW g \in Request, InTurn(g),
         \A j \in GivenStarts(messages, g) :
           /\ j = 1 /\ Starts(g) = {} /\ Creates(g) = {}
           /\ SaysNew(g)' => g \notin applied',
         GivenCreates(messages, g) # {} =>
           Len(messages) = 1 /\ 1 \in Starts(g),
         SaysNew(g)' /\ g \in applied' =>
           (SaysNew(g) /\ g \in applied) \/ 1 \in Creates(g),
         Starts(g) # {} /\ Creates(g) # {} =>
           \A j \in 1 .. Len(messages) :
             messages[j].signal.type \in Prompts
               \/ j \in GivenCreates(messages, g)
  PROVE  InTurn(g)'
<1>0. /\ Len(inbox) \in Nat /\ Len(messages) \in Nat
      /\ Len(inbox) - left \in Nat
  BY LenProperties DEF TypeOK, Came
<1>. PICK kept \in Nat : kept = Len(inbox) - left
  BY <1>0
<1>1. /\ Len(inbox) \in Nat /\ Len(messages) \in Nat
      /\ kept = Len(inbox) - left
      /\ Len(inbox') = kept + Len(messages)
  BY <1>0 DEF Came
<1>2. /\ Starts(g) \subseteq 1 .. Len(inbox)
      /\ Creates(g) \subseteq 1 .. Len(inbox)
      /\ Starts(g)' \subseteq 1 .. Len(inbox')
      /\ Creates(g)' \subseteq 1 .. Len(inbox')
  BY DEF Starts, Creates, Places
<1>3. /\ GivenStarts(messages, g) \subseteq 1 .. Len(messages)
      /\ GivenCreates(messages, g) \subseteq 1 .. Len(messages)
  BY DEF GivenStarts, GivenCreates, Given
<1>4. /\ \A i \in Starts(g)' :
           \/ i + left \in Starts(g) /\ i <= kept
           \/ \E j \in GivenStarts(messages, g) : i = kept + j
      /\ \A i \in Starts(g) : i > left => i - left \in Starts(g)'
  BY PlacesMove DEF Starts, GivenStarts
<1>5. /\ \A i \in Creates(g)' :
           \/ i + left \in Creates(g) /\ i <= kept
           \/ \E j \in GivenCreates(messages, g) : i = kept + j
      /\ \A i \in Creates(g) : i > left => i - left \in Creates(g)'
      /\ \A j \in GivenCreates(messages, g) : kept + j \in Creates(g)'
  BY PlacesMove DEF Creates, GivenCreates
<1>6. ASSUME NEW x \in 1 .. kept, Plain(x + left, g) PROVE Plain(x, g)'
  <2>1. inbox'[x] = inbox[x + left]
    BY DEF Came
  <2>2. x + left \in Creates(g) => x \in Creates(g)'
    BY <1>1, <1>5
  <2>. QED BY <1>6, <2>1, <2>2 DEF Plain
<1>7. ASSUME NEW j \in 1 .. Len(messages),
             messages[j].signal.type \in Prompts
               \/ j \in GivenCreates(messages, g)
      PROVE  Plain(kept + j, g)'
  <2>1. inbox'[kept + j] = messages[j]
    BY DEF Came
  <2>2. messages[j].signal.type \in Prompts \/ kept + j \in Creates(g)'
    BY <1>5, <1>7
  <2>. QED BY <2>1, <2>2 DEF Plain
<1>8. ASSUME NEW k \in Creates(g)', k > kept
      PROVE  /\ 1 \in Starts(g) /\ Len(messages) = 1
             /\ k = kept + 1 /\ k = Len(inbox') /\ Plain(k, g)'
  <2>1. PICK j \in GivenCreates(messages, g) : k = kept + j
    BY <1>1, <1>2, <1>5, <1>8
  <2>2. Len(messages) = 1 /\ 1 \in Starts(g)
    BY <2>1
  <2>3. j = 1
    BY <1>3, <2>2
  <2>. QED BY <1>1, <2>1, <2>2, <2>3 DEF Plain
<1>9. ASSUME NEW k \in Creates(g)', k <= kept
      PROVE  k + left \in Creates(g) /\ k \in 1 .. kept
  BY <1>1, <1>2, <1>3, <1>5, <1>9
<1>10. ASSUME NEW i \in Starts(g)', NEW j \in Starts(g)' PROVE i = j
  BY <1>1, <1>2, <1>3, <1>4 DEF InTurn
<1>11. ASSUME NEW i \in Creates(g)', NEW k \in Creates(g)', NEW x \in i .. k
       PROVE  Plain(x, g)'
  <2>0. i \in Nat /\ k \in Nat /\ i >= 1
    BY <1>1, <1>2
  <2>1. CASE k <= kept
    <3>1. i <= kept /\ x \in 1 .. kept
      BY <1>1, <2>0, <2>1
    <3>2. /\ i + left \in Creates(g) /\ k + left \in Creates(g)
          /\ x + left \in (i + left) .. (k + left)
      BY <1>9, <1>1, <2>0, <2>1, <3>1
    <3>. QED BY <1>6, <3>1, <3>2 DEF InTurn
  <2>2. CASE k > kept /\ x <= kept
    <3>1. 1 \in Starts(g) /\ k = Len(inbox')
      BY <1>8, <2>2
    <3>2. i + left \in Creates(g) /\ x \in 1 .. kept
      BY <1>1, <1>9, <2>0, <2>2
    <3>3. x + left \in (i + left) .. Len(inbox)
      BY <1>1, <2>0, <3>2
    <3>. QED BY <1>6, <3>1, <3>2, <3>3 DEF InTurn
  <2>3. CASE k > kept /\ x > kept
    <3>1. x = k /\ Plain(k, g)'
      BY <1>1, <1>8, <2>0, <2>3
    <3>. QED BY <3>1
  <2>. QED BY <1>1, <2>0, <2>1, <2>2, <2>3
<1>12. ASSUME NEW s \in Starts(g)', NEW i \in Creates(g)',
              NEW x \in i .. Len(inbox')
       PROVE  1 \in Starts(g)' /\ Plain(x, g)'
  <2>0. s \in Nat /\ s >= 1 /\ i \in Nat /\ i >= 1
    BY <1>1, <1>2
  <2>1. GivenStarts(messages, g) = {}
    BY <1>1, <1>8, <1>9, <2>0
  <2>2. s + left \in Starts(g)
    BY <1>4, <2>1
  <2>3. 1 \in Starts(g)
    <3>1. CASE i > kept
      BY <1>8, <3>1
    <3>2. CASE i <= kept
      <4>1. i + left \in Creates(g) /\ i + left \in (i + left) .. Len(inbox)
        BY <1>1, <1>2, <1>9, <2>0, <3>2
      <4>. QED BY <2>2, <4>1 DEF InTurn
    <3>. QED BY <1>1, <2>0, <3>1, <3>2
  <2>4. s = 1 /\ left = 0
    BY <2>0, <2>2, <2>3 DEF InTurn
  <2>5. CASE i > kept
    <3>1. x = i /\ Plain(i, g)'
      BY <1>1, <1>8, <2>0, <2>5
    <3>. QED BY <2>4, <3>1
  <2>6. CASE i <= kept /\ x <= kept
    <3>1. /\ i + left \in Creates(g) /\ x \in 1 .. kept
          /\ x + left \in (i + left) .. Len(inbox)
      BY <1>1, <1>9, <2>0, <2>6
    <3>2. Plain(x + left, g)
      BY <2>3, <3>1 DEF InTurn
    <3>. QED BY <1>6, <2>4, <3>1, <3>2
  <2>7. CASE i <= kept /\ x > kept
    <3>1. Starts(g) # {} /\ Creates(g) # {}
      BY <1>9, <2>3, <2>7
    <3>2. x - kept \in 1 .. Len(messages) /\ kept + (x - kept) = x
      BY <1>1, <2>0, <2>7
    <3>3. Plain(kept + (x - kept), g)'
      BY <1>7, <3>1, <3>2
    <3>. QED BY <2>4, <3>2, <3>3
  <2>. QED BY <1>1, <2>0, <2>5, <2>6, <2>7
<1>13. ASSUME SaysNew(g)', g \in applied'
       PROVE  /\ Starts(g)' = {}
              /\ \A k \in Creates(g)' : \A x \in 1 .. k : Plain(x, g)'
  <2>1. Starts(g) = {}
    <3>1. CASE SaysNew(g) /\ g \in applied
      BY <3>1 DEF InTurn
    <3>2. CASE 1 \in Creates(g)
      <4>1. 1 \in 1 .. Len(inbox)
        BY <1>2, <3>2
      <4>. QED BY <3>2, <4>1, StartsAndCreatesApart DEF InTurn
    <3>. QED BY <1>13, <3>1, <3>2
  <2>2. \A k \in Creates(g) : \A x \in 1 .. k : Plain(x, g)
    <3>1. CASE SaysNew(g) /\ g \in applied
      BY <3>1 DEF InTurn
    <3>2. CASE 1 \in Creates(g)
      BY <3>2 DEF InTurn
    <3>. QED BY <1>13, <3>1, <3>2
  <2>3. Starts(g)' = {}
    BY <1>4, <1>13, <2>1
  <2>4. ASSUME NEW k \in Creates(g)', NEW x \in 1 .. k PROVE Plain(x, g)'
    <3>0. k \in Nat
      BY <1>1, <1>2
    <3>1. k <= kept
      BY <1>1, <1>8, <2>1, <3>0
    <3>2. /\ k + left \in Creates(g) /\ x \in 1 .. kept
          /\ x + left \in 1 .. (k + left)
      BY <1>1, <1>9, <3>0, <3>1
    <3>. QED BY <1>6, <2>2, <3>2
  <2>. QED BY <2>3, <2>4
<1>. QED BY <1>10, <1>11, <1>12, <1>13 DEF InTurn

----------------------------------------------------------------------------
(* How a request may change, and the grants of a person's access.          *)
Onward(r) ==
  /\ SaysNew(r) => request'[r].snapshot = request[r].snapshot
  /\ SaysExtension(r) =>
       /\ SaysExtension(r)'
       /\ AccessOf(request'[r].snapshot) = AccessOf(request[r].snapshot)
       /\ request'[r].snapshot.grant = request[r].snapshot.grant
  /\ Reviewed(r) => /\ Reviewed(r)'
                    /\ request'[r].snapshot = request[r].snapshot
  /\ Accepted(r) => Accepted(r)'

(* A grant is new when its creation is handled; otherwise it starts when   *)
(* it did, and its end only moves while it has not passed.                 *)
GrantsKept ==
  \A a \in AccessId : \A h \in access'[a].grant :
    \/ 1 \in Creates(h.id)
    \/ \E old \in access[a].grant :
         /\ old.id = h.id /\ old.start = h.start
         /\ old.end = h.end \/ now < old.end

LEMMA CameInFlight ==
  ASSUME TypeOK, NEW messages \in Seq(Message), NEW left \in {0, 1},
         Came(left, messages)
  PROVE  InFlight' \subseteq InFlight \cup SignalsOf(messages)
<1>0. /\ Len(inbox) \in Nat /\ Len(messages) \in Nat
      /\ Len(inbox) - left \in Nat
  BY LenProperties DEF TypeOK, Came
<1>1. ASSUME NEW i \in 1 .. Len(inbox')
      PROVE  inbox'[i].signal \in InFlight \cup SignalsOf(messages)
  <2>1. CASE i <= Len(inbox) - left
    <3>1. i \in 1 .. Len(inbox) - left /\ i + left \in 1 .. Len(inbox)
      BY <1>0, <2>1
    <3>. QED BY <3>1 DEF Came, InFlight
  <2>2. CASE i > Len(inbox) - left
    <3>. DEFINE j == i - (Len(inbox) - left)
    <3>1. j \in 1 .. Len(messages) /\ i = Len(inbox) - left + j
      BY <1>0, <2>2 DEF Came
    <3>. HIDE DEF j
    <3>. QED BY <3>1 DEF Came, SignalsOf
  <2>. QED BY <1>0, <2>1, <2>2
<1>. QED BY <1>1 DEF InFlight

(* The claims of a message outlive the changes of its request.             *)
LEMMA FaithfulStays ==
  ASSUME IInv, NEW s \in InFlight, Faithful(s),
         \A r \in Request : Onward(r)
  PROVE  Faithful(s)'
<1>1. s \in Signal /\ Justified(s)
  BY InFlightTyped DEF IInv
<1>2. CASE s.type \in {"CheckRequestedAccess", "RequestedAccessChecked",
                       "CreateAccessGrant"}
  <2>1. s.request \in Request /\ SaysNew(s.request)
    BY <1>1, <1>2, SignalTypes
       DEF Justified, SaysNew, CheckCommand, AnswerEvent, CreateGrantCommand
  <2>2. request'[s.request].snapshot = request[s.request].snapshot
    BY <2>1 DEF Onward
  <2>. QED BY <1>2, <2>2 DEF Faithful, Fits, EndAsRequested
<1>3. CASE s.type = "CheckRequestedExtension"
  <2>1. s.request \in Request /\ SaysExtension(s.request)
    BY <1>1, <1>3, SignalTypes DEF Justified, CheckExtensionCommand
  <2>2. /\ AccessOf(request'[s.request].snapshot)
             = AccessOf(request[s.request].snapshot)
        /\ request'[s.request].snapshot.grant
             = request[s.request].snapshot.grant
    BY <2>1 DEF Onward
  <2>3. request'[s.request].snapshot.resource
          = request[s.request].snapshot.resource
    BY <2>2 DEF AccessOf
  <2>. QED BY <1>3, <2>2, <2>3 DEF Faithful
<1>4. CASE s.type \in {"AccessRequestApprovalStarted", "ExtendAccessGrant"}
  <2>1. s.request \in Request
    BY <1>1, <1>4, SignalTypes DEF RequestEvent, ExtendGrantCommand
  <2>2. Accepted(s.request)
    BY <1>4 DEF Faithful
  <2>3. Reviewed(s.request)
    BY <2>2 DEF Accepted, Reviewed
  <2>4. /\ request'[s.request].snapshot = request[s.request].snapshot
        /\ Accepted(s.request)'
    BY <2>1, <2>2, <2>3 DEF Onward
  <2>. QED BY <1>4, <2>4 DEF Faithful
<1>. QED BY <1>2, <1>3, <1>4 DEF Faithful

LEMMA SayingKept ==
  ASSUME IInv, Saying, NEW messages \in Seq(Message), NEW left \in {0, 1},
         Came(left, messages), \A r \in Request : Onward(r),
         \A s \in SignalsOf(messages) : Faithful(s)',
         \A r \in Request :
           Reviewed(r)' /\ ~Reviewed(r) /\ SaysNew(r)' => Fits(r)'
  PROVE  Saying'
<1>1. InFlight' \subseteq InFlight \cup SignalsOf(messages)
  BY CameInFlight DEF IInv
<1>2. \A s \in InFlight' : Faithful(s)'
  BY <1>1, FaithfulStays DEF Saying
<1>3. ASSUME NEW r \in Request, Reviewed(r), SaysNew(r)' PROVE Fits(r)'
  <2>1. request'[r].snapshot = request[r].snapshot
    BY <1>3 DEF Onward
  <2>. QED BY <1>3, <2>1 DEF Saying, Fits, SaysNew
<1>. QED BY <1>2, <1>3 DEF Saying

LEMMA OverStays ==
  ASSUME TypeOK, NEW messages \in Seq(Message), NEW left \in {0, 1},
         Came(left, messages), NEW g \in Request, InTurn(g), Over(g),
         Onward(g), applied \subseteq applied',
         GivenCreates(messages, g) # {} => 1 \in Starts(g)
  PROVE  Over(g)'
<1>1. SaysNew(g) /\ g \in applied /\ Starts(g) = {} /\ Creates(g) = {}
  BY DEF Over, InTurn
<1>2. Creates(g)' = {}
  BY <1>1, PlacesMove DEF Creates, GivenCreates
<1>. QED BY <1>1, <1>2 DEF Over, Onward, SaysNew

(* What holds of the grant of an extension stays, for nothing creates it   *)
(* anew.                                                                   *)
LEMMA HeldStays ==
  ASSUME IInv, IInv', GrantsKept, NEW r \in Request, SaysExtension(r),
         Onward(r), Over(request[r].snapshot.grant)
  PROVE  \A h \in HeldOf(r)' : \E old \in HeldOf(r) :
           old.start = h.start /\ (old.end = h.end \/ now < old.end)
<1>1. AccessOf(request[r].snapshot) \in AccessId
  BY DEF SaysExtension, ExtensionSnapshot, AccessOf, AccessId
<1>2. /\ AccessOf(request'[r].snapshot) = AccessOf(request[r].snapshot)
      /\ request'[r].snapshot.grant = request[r].snapshot.grant
  BY DEF Onward
<1>3. ASSUME NEW h \in HeldOf(r)'
      PROVE  \E old \in HeldOf(r) :
               old.start = h.start /\ (old.end = h.end \/ now < old.end)
  <2>1. /\ h \in access'[AccessOf(request[r].snapshot)].grant
        /\ h.id = request[r].snapshot.grant
    BY <1>2 DEF HeldOf
  <2>2. 1 \notin Creates(h.id)
    BY <2>1 DEF Over
  <2>. QED BY <1>1, <2>1, <2>2 DEF GrantsKept, HeldOf
<1>. QED BY <1>3

LEMMA HeldTyped ==
  ASSUME IInv, NEW r \in Request, SaysExtension(r)
  PROVE  \A h \in HeldOf(r) : h.start \in Nat /\ h.end \in Nat
<1>1. AccessOf(request[r].snapshot) \in AccessId
  BY DEF SaysExtension, ExtensionSnapshot, AccessOf, AccessId
<1>. QED BY <1>1 DEF IInv, TypeOK, Access, Grant, Time, HeldOf

LEMMA EndedStays ==
  ASSUME IInv, IInv', GrantsKept, NEW r \in Request, SaysExtension(r),
         Onward(r), Over(request[r].snapshot.grant), Ended(r), now <= now'
  PROVE  Ended(r)'
<1>1. ASSUME NEW h \in HeldOf(r)' PROVE h.end <= now'
  <2>1. PICK old \in HeldOf(r) : old.end = h.end \/ now < old.end
    BY HeldStays
  <2>2. old.end <= now /\ old.end \in Nat /\ now \in Nat /\ now' \in Nat
    BY HeldTyped DEF Ended, IInv, TypeOK, Time
  <2>. QED BY <2>1, <2>2
<1>. QED BY <1>1 DEF Ended

LEMMA SeenStays ==
  ASSUME IInv, IInv', GrantsKept, NEW r \in Request, SaysExtension(r),
         Onward(r), NEW end, Seen(r, end), now <= now',
         Over(request[r].snapshot.grant)'
  PROVE  Seen(r, end)'
<1>1. /\ request'[r].snapshot.grant = request[r].snapshot.grant
      /\ request'[r].snapshot.resource = request[r].snapshot.resource
  BY DEF Onward, AccessOf
<1>2. end \in Nat /\ Over(request[r].snapshot.grant)
  BY DEF Seen, Time
<1>3. ASSUME NEW h \in HeldOf(r)'
      PROVE  /\ h.start <= now'
             /\ end - h.start <= MaximumDuration[request[r].snapshot.resource]
  <2>1. PICK old \in HeldOf(r) : old.start = h.start
    BY <1>2, HeldStays
  <2>2. /\ old.start <= now
        /\ end - old.start <= MaximumDuration[request[r].snapshot.resource]
    BY DEF Seen
  <2>3. old.start \in Nat /\ now \in Nat /\ now' \in Nat
    BY HeldTyped DEF IInv, TypeOK, Time
  <2>. QED BY <2>1, <2>2, <2>3
<1>. QED BY <1>1, <1>2, <1>3 DEF Seen, Time

(* The conditions on what a step gives, for each request.                  *)

Orderly(messages, g) ==
  /\ \A j \in GivenStarts(messages, g) :
       /\ j = 1 /\ Starts(g) = {} /\ Creates(g) = {}
       /\ SaysNew(g)' => g \notin applied'
  /\ GivenCreates(messages, g) # {} => Len(messages) = 1 /\ 1 \in Starts(g)
  /\ SaysNew(g)' /\ g \in applied' =>
       (SaysNew(g) /\ g \in applied) \/ 1 \in Creates(g)
  /\ 1 \in Starts(g) /\ Creates(g) # {} =>
       \A j \in 1 .. Len(messages) :
         messages[j].signal.type \in Prompts
           \/ j \in GivenCreates(messages, g)

LEMMA OnceKept ==
  ASSUME IInv, NEW messages \in Seq(Message), NEW left \in {0, 1},
         Came(left, messages), NEW g \in Request, InTurn(g), Once(g),
         Orderly(messages, g)
  PROVE  Once(g)'
<1>. SUFFICES ASSUME crashes' = 0 PROVE Once(g)'
  BY DEF Once
<1>1. crashes = 0 /\ TypeOK
  BY DEF Came, IInv
<1>2. /\ \A i \in Starts(g)' :
           i + left \in Starts(g) \/ GivenStarts(messages, g) # {}
      /\ \A i \in Creates(g)' :
           \/ i + left \in Creates(g)
           \/ \E j \in GivenCreates(messages, g) :
                i = Len(inbox) - left + j
  BY <1>1, PlacesMove DEF Starts, GivenStarts, Creates, GivenCreates
<1>3. /\ Starts(g)' \subseteq Nat \ {0} /\ Creates(g)' \subseteq Nat \ {0}
      /\ Starts(g) \subseteq Nat /\ Creates(g) \subseteq Nat
      /\ GivenCreates(messages, g) \subseteq 1 .. Len(messages)
  BY DEF Starts, Creates, GivenCreates, Places, Given
<1>4. ASSUME GivenCreates(messages, g) # {}
      PROVE  /\ 1 \in Starts(g) /\ Starts(g)' = {} /\ Creates(g) = {}
             /\ \A j \in GivenCreates(messages, g) : j = 1
  <2>1. 1 \in Starts(g) /\ Len(messages) = 1
    BY <1>4 DEF Orderly
  <2>2. left = 1
    <3>1. PICK j \in GivenCreates(messages, g) : TRUE
      BY <1>4
    <3>2. /\ messages[j].signal.type = "CreateAccessGrant"
          /\ j \in 1 .. Len(messages)
      BY <3>1 DEF GivenCreates, Given, Is
    <3>. QED BY <3>2 DEF Came, Prompts
  <2>3. GivenStarts(messages, g) = {}
    BY <2>1 DEF Orderly
  <2>4. Starts(g)' = {}
    BY <1>2, <1>3, <2>1, <2>2, <2>3 DEF InTurn
  <2>. QED BY <1>1, <1>3, <2>1, <2>4 DEF Once
<1>5. \A i, k \in Creates(g)' : i = k
  BY <1>1, <1>2, <1>3, <1>4 DEF Once
<1>6. Starts(g)' # {} => Creates(g)' = {}
  BY <1>1, <1>2, <1>4 DEF Once, Orderly
<1>7. ASSUME SaysNew(g)', g \in applied', NEW k \in Creates(g)' PROVE FALSE
  <2>1. CASE SaysNew(g) /\ g \in applied
    BY <1>1, <1>2, <1>4, <2>1 DEF Once, InTurn
  <2>2. CASE ~(SaysNew(g) /\ g \in applied) /\ 1 \in Creates(g)
    <3>1. SaysNew(g)
      BY <2>2 DEF Creates, Places, Is, IInv, InFlight, Justified, SaysNew
    <3>2. left = 1
      BY <1>7, <2>2, <3>1 DEF Came
    <3>3. GivenCreates(messages, g) = {}
      BY <1>4, <2>2
    <3>. QED BY <1>1, <1>2, <1>3, <2>2, <3>2, <3>3 DEF Once
  <2>. QED BY <1>7, <2>1, <2>2 DEF Orderly
<1>. QED BY <1>5, <1>6, <1>7 DEF Once

Answering(messages, r) ==
  /\ \A j \in GivenChecks(messages, r) :
       SaysExtension(r) /\ Seen(r, messages[j].signal.proposedEnd)
  /\ GivenRefusals(messages, r) # {} =>
       /\ SaysExtension(r)
       /\ r \notin applied =>
            \/ Ended(r)
            \/ ~Reviewed(r)' /\ Checks(r) = {} /\ GivenChecks(messages, r) = {}

Reviews(r) ==
  Reviewed(r)' /\ ~Reviewed(r) =>
    /\ SaysNew(r)' => Fits(r)'
    /\ SaysExtension(r)' =>
         /\ 1 \in Checks(r)
         /\ request'[r].snapshot.proposedEnd = inbox[1].signal.proposedEnd

Settles(left, messages, r) ==
  /\ r \in applied' => Approving(r)'
  /\ request'[r].status = "APPROVED" => r \in applied'
  /\ GivenChanges(messages, r) # {} => r \in applied'
  /\ r \in applied' /\ request'[r].status = "APPROVAL_STARTED" =>
       \/ /\ r \in applied /\ request[r].status = "APPROVAL_STARTED"
          /\ left = 0 \/ 1 \notin Changes(r)
       \/ /\ Refusals(r) = {} /\ GivenRefusals(messages, r) = {}
          /\ GivenChanges(messages, r) # {}
  /\ request'[r].status = "APPROVAL_FAILED" /\ SaysExtension(r)' =>
       \/ request[r].status = "APPROVAL_FAILED"
       \/ Reviewed(r) /\ Ended(r)

LEMMA NoAnswers ==
  ASSUME IInv, NEW r \in Request, ~SaysExtension(r)
  PROVE  Checks(r) = {} /\ Refusals(r) = {}
BY DEF IInv, Checks, Refusals, Places, Is, InFlight, Justified

LEMMA SettlingKept ==
  ASSUME TypeOK, NEW messages \in Seq(Message), NEW left \in {0, 1},
         Came(left, messages), NEW r \in Request, Settling(r),
         applied \subseteq applied', Settles(left, messages, r)
  PROVE  Settling(r)'
<1>0. /\ Len(inbox) \in Nat /\ Len(messages) \in Nat
      /\ Len(inbox) - left \in Nat
  BY LenProperties DEF TypeOK, Came
<1>. PICK kept \in Nat : kept = Len(inbox) - left
  BY <1>0
<1>1. /\ \A i \in Changes(r)' :
           \/ i + left \in Changes(r) /\ i <= kept
           \/ \E j \in GivenChanges(messages, r) : i = kept + j
      /\ \A i \in Changes(r) : i > left => i - left \in Changes(r)'
      /\ \A j \in GivenChanges(messages, r) : kept + j \in Changes(r)'
  BY PlacesMove DEF Changes, GivenChanges
<1>2. \A i \in Refusals(r)' :
        \/ i + left \in Refusals(r) /\ i <= kept
        \/ \E j \in GivenRefusals(messages, r) : i = kept + j
  BY PlacesMove DEF Refusals, GivenRefusals
<1>3. /\ Changes(r) \subseteq 1 .. Len(inbox)
      /\ Refusals(r) \subseteq 1 .. Len(inbox)
      /\ Refusals(r)' \subseteq 1 .. Len(inbox')
      /\ GivenRefusals(messages, r) \subseteq 1 .. Len(messages)
      /\ Len(inbox') \in Nat
  BY <1>0 DEF Changes, Refusals, Places, GivenRefusals, Given, Came
<1>4. Changes(r)' # {} => r \in applied'
  BY <1>1 DEF Settling, Settles
<1>5. ASSUME r \in applied', request'[r].status = "APPROVAL_STARTED"
      PROVE  /\ Changes(r)' # {}
             /\ \A i \in Refusals(r)' : \E j \in Changes(r)' : j < i
  <2>1. CASE /\ r \in applied /\ request[r].status = "APPROVAL_STARTED"
             /\ left = 0 \/ 1 \notin Changes(r)
    <3>1. ASSUME NEW j \in Changes(r)
          PROVE  j - left \in Changes(r)' /\ j - left <= kept /\ j \in Nat
      BY <1>0, <1>1, <1>3, <2>1
    <3>2. /\ Changes(r) # {}
          /\ \A i \in Refusals(r) : \E j \in Changes(r) : j < i
      BY <2>1 DEF Settling
    <3>3. ASSUME NEW i \in Refusals(r)', i <= kept
          PROVE  \E j \in Changes(r)' : j < i
      <4>1. i \in Nat /\ i + left \in Refusals(r)
        BY <1>0, <1>2, <1>3, <3>3
      <4>2. PICK j \in Changes(r) : j < i + left
        BY <3>2, <4>1
      <4>. QED BY <3>1, <4>1, <4>2
    <3>4. ASSUME NEW i \in Refusals(r)', i > kept
          PROVE  \E j \in Changes(r)' : j < i
      <4>1. PICK j \in Changes(r) : TRUE
        BY <3>2
      <4>. QED BY <1>3, <3>1, <3>4, <4>1
    <3>5. Changes(r)' # {}
      BY <3>1, <3>2
    <3>. QED BY <1>3, <3>3, <3>4, <3>5
  <2>2. CASE /\ Refusals(r) = {} /\ GivenRefusals(messages, r) = {}
             /\ GivenChanges(messages, r) # {}
    BY <1>1, <1>2, <2>2
  <2>. QED BY <1>5, <2>1, <2>2 DEF Settles
<1>. QED BY <1>4, <1>5 DEF Settling, Settles

LEMMA CheckedKept ==
  ASSUME IInv, IInv', GrantsKept, now <= now',
         NEW messages \in Seq(Message), NEW left \in {0, 1},
         Came(left, messages), NEW r \in Request, Onward(r), Checked(r),
         \A g \in Request : Over(g) => Over(g)',
         Answering(messages, r), Reviews(r)
  PROVE  Checked(r)'
<1>. SUFFICES ASSUME SaysExtension(r)' PROVE Checked(r)'
  BY DEF Checked
<1>1. ASSUME NEW end, SaysExtension(r), Seen(r, end) PROVE Seen(r, end)'
  <2>1. request[r].snapshot.grant \in Request
    BY <1>1 DEF SaysExtension, ExtensionSnapshot
  <2>2. request'[r].snapshot.grant = request[r].snapshot.grant
    BY <1>1 DEF Onward
  <2>3. Over(request[r].snapshot.grant)
    BY <1>1 DEF Seen
  <2>4. \A g \in Request :
          Over(g) /\ g = request'[r].snapshot.grant => Over(g)'
    OBVIOUS
  <2>5. Over(request[r].snapshot.grant)'
    BY <2>1, <2>2, <2>3, <2>4 DEF Over
  <2>. QED BY <1>1, <2>5, SeenStays
<1>2. ASSUME NEW i \in Checks(r)', NEW end,
             end = inbox'[i].signal.proposedEnd
      PROVE  Seen(r, end)'
  <2>1. CASE i + left \in Checks(r) /\ inbox'[i] = inbox[i + left]
    <3>1. SaysExtension(r)
      BY <2>1, NoAnswers
    <3>2. Seen(r, end)
      BY <1>2, <2>1, <3>1 DEF Checked
    <3>. QED BY <1>1, <3>1, <3>2
  <2>2. CASE \E j \in GivenChecks(messages, r) : inbox'[i] = messages[j]
    <3>1. PICK j \in GivenChecks(messages, r) : inbox'[i] = messages[j]
      BY <2>2
    <3>2. SaysExtension(r) /\ Seen(r, messages[j].signal.proposedEnd)
      BY DEF Answering
    <3>3. end = messages[j].signal.proposedEnd
      BY <1>2, <3>1
    <3>. QED BY <1>1, <3>2, <3>3
  <2>. QED BY <2>1, <2>2, PlacesMove DEF Checks, GivenChecks, IInv
<1>3. ASSUME Reviewed(r)', NEW end,
             end = request'[r].snapshot.proposedEnd
      PROVE  Seen(r, end)'
  <2>1. CASE Reviewed(r)
    <3>1. request'[r].snapshot = request[r].snapshot
      BY <2>1 DEF Onward
    <3>2. SaysExtension(r)
      BY <3>1 DEF SaysExtension
    <3>3. Seen(r, end)
      BY <1>3, <2>1, <3>1, <3>2 DEF Checked
    <3>. QED BY <1>1, <3>2, <3>3
  <2>2. CASE ~Reviewed(r)
    <3>1. /\ 1 \in Checks(r)
          /\ request'[r].snapshot.proposedEnd = inbox[1].signal.proposedEnd
      BY <1>3, <2>2 DEF Reviews
    <3>2. SaysExtension(r)
      BY <3>1, NoAnswers
    <3>3. Seen(r, end)
      BY <1>3, <3>1, <3>2 DEF Checked
    <3>. QED BY <1>1, <3>2, <3>3
  <2>. QED BY <2>1, <2>2
<1>4. \A i \in Checks(r)' : Seen(r, inbox[i].signal.proposedEnd)'
  BY <1>2 DEF Seen
<1>5. Reviewed(r)' => Seen(r, request[r].snapshot.proposedEnd)'
  BY <1>3 DEF Seen
<1>. QED BY <1>4, <1>5 DEF Checked

LEMMA RefusedKept ==
  ASSUME IInv, IInv', GrantsKept, now <= now', applied \subseteq applied',
         NEW messages \in Seq(Message), NEW left \in {0, 1},
         Came(left, messages), NEW r \in Request, Onward(r), Checked(r),
         Refused(r), Answering(messages, r), Reviews(r),
         Settles(left, messages, r)
  PROVE  Refused(r)'
<1>. SUFFICES ASSUME SaysExtension(r)' PROVE Refused(r)'
  BY DEF Refused
<1>0. /\ Len(inbox) \in Nat /\ Len(messages) \in Nat
      /\ Len(inbox) - left \in Nat
  BY LenProperties DEF TypeOK, IInv, Came
<1>. PICK kept \in Nat : kept = Len(inbox) - left
  BY <1>0
<1>1. \A i \in Refusals(r)' :
        \/ i + left \in Refusals(r) /\ i <= kept
        \/ i > kept /\ GivenRefusals(messages, r) # {}
  <2>1. GivenRefusals(messages, r) \subseteq 1 .. Len(messages)
    BY DEF GivenRefusals, Given
  <2>. QED BY <1>0, <2>1, PlacesMove DEF Refusals, GivenRefusals, IInv
<1>2. \A j \in Checks(r)' :
        \/ j + left \in Checks(r) /\ j <= kept
        \/ j > kept /\ GivenChecks(messages, r) # {}
  <2>1. GivenChecks(messages, r) \subseteq 1 .. Len(messages)
    BY DEF GivenChecks, Given
  <2>. QED BY <1>0, <2>1, PlacesMove DEF Checks, GivenChecks, IInv
<1>3. /\ Checks(r)' \subseteq Nat /\ Refusals(r)' \subseteq Nat
      /\ Refusals(r) \subseteq 1 .. Len(inbox)
  BY <1>0 DEF Checks, Refusals, Places, Came
<1>4. ASSUME SaysExtension(r), Reviewed(r) \/ Checks(r) # {}, Ended(r)
      PROVE  Ended(r)'
  <2>1. Over(request[r].snapshot.grant)
    BY <1>4 DEF Checked, Seen
  <2>. QED BY <1>4, <2>1, EndedStays
<1>5. ASSUME Reviewed(r)', ~Reviewed(r)
      PROVE  1 \in Checks(r) /\ SaysExtension(r)
  BY <1>5, NoAnswers DEF Reviews
<1>6. ASSUME Reviewed(r)'
      PROVE  SaysExtension(r) /\ (Reviewed(r) \/ Checks(r) # {})
  <2>1. CASE Reviewed(r)
    <3>1. request'[r].snapshot = request[r].snapshot
      BY <2>1 DEF Onward
    <3>. QED BY <2>1, <3>1 DEF SaysExtension
  <2>. QED BY <1>5, <1>6, <2>1
<1>7. ASSUME Reviewed(r)', Refusals(r)' # {}, r \notin applied'
      PROVE  Ended(r)'
  <2>1. PICK i \in Refusals(r)' : TRUE
    BY <1>7
  <2>2. r \notin applied
    BY <1>7
  <2>3. CASE i + left \in Refusals(r)
    <3>1. CASE Reviewed(r)
      BY <1>4, <1>6, <1>7, <2>2, <2>3, <3>1 DEF Refused
    <3>2. CASE ~Reviewed(r)
      <4>1. i + left # 1
        BY <1>5, <1>7, <2>3, <3>2 DEF Checks, Refusals, Places, Is
      <4>2. 1 < i + left
        BY <1>3, <2>3, <4>1
      <4>. QED BY <1>4, <1>5, <1>7, <2>2, <2>3, <3>2, <4>2 DEF Refused
    <3>. QED BY <3>1, <3>2
  <2>4. CASE GivenRefusals(messages, r) # {}
    BY <1>4, <1>6, <1>7, <2>2, <2>4 DEF Answering
  <2>. QED BY <1>1, <2>1, <2>3, <2>4
<1>8. ASSUME r \notin applied', NEW i \in Refusals(r)', NEW j \in Checks(r)',
             j < i
      PROVE  Ended(r)'
  <2>1. r \notin applied
    BY <1>8
  <2>2. CASE i <= kept
    <3>1. /\ i + left \in Refusals(r) /\ j + left \in Checks(r)
          /\ j + left < i + left
      BY <1>1, <1>2, <1>3, <1>8, <2>2
    <3>2. SaysExtension(r)
      BY <3>1, NoAnswers
    <3>. QED BY <1>4, <2>1, <3>1, <3>2 DEF Refused
  <2>3. CASE i > kept
    <3>1. GivenRefusals(messages, r) # {}
      BY <1>1, <1>3, <2>3
    <3>2. Checks(r) # {} \/ GivenChecks(messages, r) # {}
      BY <1>2
    <3>3. SaysExtension(r) /\ Ended(r)
      BY <2>1, <3>1, <3>2 DEF Answering
    <3>4. Over(request[r].snapshot.grant)
      BY <3>2, <3>3 DEF Checked, Answering, Seen
    <3>. QED BY <3>3, <3>4, EndedStays
  <2>. QED BY <1>3, <2>2, <2>3
<1>9. ASSUME request'[r].status = "APPROVAL_FAILED" PROVE Ended(r)'
  <2>1. Reviewed(r)'
    BY <1>9 DEF Reviewed
  <2>2. CASE request[r].status = "APPROVAL_FAILED"
    <3>1. Reviewed(r)
      BY <2>2 DEF Reviewed
    <3>. QED BY <1>4, <1>6, <2>1, <2>2, <3>1 DEF Refused
  <2>. QED BY <1>4, <1>6, <1>9, <2>1, <2>2 DEF Settles
<1>. QED BY <1>7, <1>8, <1>9 DEF Refused

(* Grants that are kept last as long as they did.                          *)
LEMMA LastsStays ==
  ASSUME IInv, \A r \in Request : Onward(r) /\ Settling(r),
         applied \subseteq applied',
         NEW a \in AccessId, NEW g \in access[a].grant, Lasts(a, g)
  PROVE  Lasts(a, g)'
<1>1. g.id \in Request
  BY DEF IInv, TypeOK, Access, Grant
<1>2. SaysNew(g.id)
  <2>1. Approving(g.id) /\ request[g.id].snapshot.kind = "new"
    BY DEF IInv, GrantsAreApproved
  <2>2. request[g.id].snapshot \in Snapshot
    BY <1>1, <2>1 DEF IInv, SubmittedSaySomething, Approving
  <2>. QED BY <2>1, <2>2 DEF SaysNew, Snapshot, ExtensionSnapshot
<1>3. request'[g.id].snapshot = request[g.id].snapshot
  BY <1>1, <1>2 DEF Onward
<1>4. ASSUME NEW r \in applied
      PROVE  r \in applied' /\ request'[r].snapshot = request[r].snapshot
  <2>1. r \in Request /\ Reviewed(r)
    BY DEF IInv, TypeOK, Settling, Approving, Reviewed
  <2>. QED BY <2>1 DEF Onward
<1>. QED BY <1>3, <1>4 DEF Lasts, EndAsRequested

(* A step that does as these conditions say keeps the invariant.           *)
LEMMA GrantsStep ==
  ASSUME IInv, IInv', GInv, GrantsKept, now <= now',
         NEW messages \in Seq(Message), NEW left \in {0, 1},
         Came(left, messages), applied \subseteq applied',
         \A s \in SignalsOf(messages) : Faithful(s)',
         \A a \in AccessId : \A g \in access'[a].grant :
           g \in access[a].grant \/ (g.id \in applied' /\ Lasts(a, g)'),
         Distinct', \A r \in Request :
           /\ Onward(r)
           /\ Orderly(messages, r) /\ Answering(messages, r)
           /\ Reviews(r) /\ Settles(left, messages, r)
  PROVE  GInv'
<1>. TypeOK /\ TypeOK'
  BY DEF IInv
<1>1. Saying'
  BY SayingKept DEF GInv, Reviews
<1>2. \A r \in Request :
        InTurn(r) /\ Once(r) /\ Checked(r) /\ Refused(r) /\ Settling(r)
  BY DEF GInv
<1>3. GrantsApplied'
  BY DEF GInv, GrantsApplied, GrantIds
<1>4. Lasting'
  <2>1. ASSUME NEW a \in AccessId, NEW g \in access'[a].grant
        PROVE  Lasts(a, g)'
    BY <1>2, LastsStays DEF GInv, Lasting
  <2>. QED BY <2>1 DEF Lasting
<1>5. ASSUME NEW r \in Request PROVE InTurn(r)'
  <2>1. Starts(r) # {} /\ Creates(r) # {} => 1 \in Starts(r)
    <3>1. \A i \in Creates(r) : i \in i .. Len(inbox)
      BY LenProperties DEF Creates, Places, TypeOK
    <3>. QED BY <1>2, <3>1 DEF InTurn
  <2>. QED BY <1>2, <2>1, InTurnKept DEF Orderly
<1>6. \A g \in Request : Over(g) => Over(g)'
  BY <1>2, OverStays DEF Orderly
<1>7. ASSUME NEW r \in Request PROVE Checked(r)'
  BY <1>2, <1>6, CheckedKept
<1>8. ASSUME NEW r \in Request PROVE Refused(r)'
  BY <1>2, RefusedKept
<1>9. ASSUME NEW r \in Request PROVE Settling(r)'
  BY <1>2, SettlingKept
<1>10. ASSUME NEW r \in Request PROVE Once(r)'
  BY <1>2, OnceKept
<1>. QED BY <1>1, <1>3, <1>4, <1>5, <1>7, <1>8, <1>9, <1>10 DEF GInv

(* The messages that the invariant looks for, and those that it does not.  *)
Weighty ==
  ChangeEvents \cup
    {"AccessRequestApprovalStarted", "CreateAccessGrant",
     "RequestedExtensionChecked", "AccessGrantNotActive"}

Light(messages) ==
  \A j \in 1 .. Len(messages) :
    \/ messages[j].to \notin {"AccessRequest", "ResourceAccess"}
    \/ messages[j].signal.type \notin Weighty

LEMMA LightGivesNone ==
  ASSUME NEW messages, Light(messages), NEW r
  PROVE  /\ GivenStarts(messages, r) = {} /\ GivenCreates(messages, r) = {}
         /\ GivenChanges(messages, r) = {} /\ GivenChecks(messages, r) = {}
         /\ GivenRefusals(messages, r) = {}
BY DEF Light, Weighty, GivenStarts, GivenCreates, GivenChanges, GivenChecks,
       GivenRefusals, Given, Is, ChangeEvents

(* Nothing that the messages of the head are replaced by disturbs the turn *)
(* in which a grant is created.                                            *)
Unhurried(messages) ==
  \A r \in Request : 1 \in Starts(r) /\ Creates(r) # {} =>
    \A j \in 1 .. Len(messages) : messages[j].signal.type \in Prompts

(* A step that gives no such message and no new grant.                     *)
LEMMA LightStep ==
  ASSUME IInv, IInv', GInv, now <= now', applied' = applied,
         \A a \in AccessId : access'[a].grant \subseteq access[a].grant,
         NEW messages \in Seq(Message), NEW left \in {0, 1},
         Came(left, messages), Light(messages), Unhurried(messages),
         \A s \in SignalsOf(messages) : Faithful(s)',
         \A r \in Request :
           Onward(r) /\ Reviews(r) /\ Settles(left, messages, r)
  PROVE  GInv'
<1>1. GrantsKept
  BY DEF GrantsKept
<1>2. ASSUME NEW r \in Request PROVE Orderly(messages, r)
  <2>1. ASSUME SaysNew(r)', r \in applied' PROVE SaysNew(r) /\ r \in applied
    <3>1. Reviewed(r)
      BY <2>1 DEF GInv, Settling, Approving, Reviewed
    <3>. QED BY <2>1, <3>1 DEF Onward, SaysNew
  <2>. QED BY <2>1, LightGivesNone DEF Orderly, Unhurried
<1>3. \A r \in Request : Answering(messages, r)
  BY LightGivesNone DEF Answering
<1>4. Distinct'
  BY DEF GInv, Distinct
<1>. QED BY <1>1, <1>2, <1>3, <1>4, GrantsStep

LEMMA SameRequests ==
  ASSUME UNCHANGED request
  PROVE  \A r \in Request : Onward(r) /\ Reviews(r)
BY DEF Onward, Reviews, SaysNew, SaysExtension, Reviewed, Accepted

LEMMA SameFaith ==
  ASSUME UNCHANGED request, NEW s, Faithful(s) PROVE Faithful(s)'
BY DEF Faithful, Fits, Accepted, EndAsRequested

LEMMA SameSettles ==
  ASSUME GInv, UNCHANGED <<request, applied>>, NEW messages, NEW left,
         NEW r \in Request, GivenChanges(messages, r) = {},
         left = 0 \/ (1 \in Changes(r) =>
                        request[r].status # "APPROVAL_STARTED")
  PROVE  Settles(left, messages, r)
<1>1. request[r].status = "APPROVAL_FAILED" => Reviewed(r)
  BY DEF Reviewed
<1>. QED BY <1>1 DEF Settles, GInv, Settling, Approving

(* A step that changes no request and no grant.                            *)
LEMMA IdleStep ==
  ASSUME IInv, IInv', GInv, now <= now',
         UNCHANGED <<request, access, applied>>,
         NEW messages \in Seq(Message), NEW left \in {0, 1},
         Came(left, messages), Light(messages), Unhurried(messages),
         \A s \in SignalsOf(messages) : Faithful(s),
         left = 0 \/ \A r \in Request :
           1 \in Changes(r) => request[r].status # "APPROVAL_STARTED"
  PROVE  GInv'
<1>1. \A s \in SignalsOf(messages) : Faithful(s)'
  BY SameFaith
<1>2. \A r \in Request : Settles(left, messages, r)
  BY LightGivesNone, SameSettles
<1>. QED BY <1>1, <1>2, SameRequests, LightStep

(* The message at the head is the received one.                            *)
LEMMA HeadIs ==
  ASSUME TypeOK, NEW entity, NEW types, Receives(entity, types)
  PROVE  /\ inbox # <<>> /\ 1 \in 1 .. Len(inbox)
         /\ inbox[1].signal = received /\ inbox[1].to = entity
         /\ received.type \in types /\ received \in InFlight
<1>1. inbox \in Seq(Message) /\ inbox # <<>>
  BY DEF TypeOK, Receives
<1>2. Head(inbox) = inbox[1] /\ 1 \in 1 .. Len(inbox)
  BY <1>1
<1>. QED BY <1>1, <1>2 DEF Receives, received, InFlight

LEMMA HeadPlaces ==
  ASSUME TypeOK, NEW entity, NEW types, Receives(entity, types), NEW r
  PROVE  /\ 1 \in Starts(r) <=>
              /\ entity = "AccessRequest" /\ r = received.request
              /\ received.type = "AccessRequestApprovalStarted"
         /\ 1 \in Creates(r) <=>
              /\ entity = "ResourceAccess" /\ r = received.request
              /\ received.type = "CreateAccessGrant"
         /\ 1 \in Changes(r) <=>
              /\ entity = "AccessRequest" /\ r = received.request
              /\ received.type \in ChangeEvents
         /\ 1 \in Checks(r) <=>
              /\ entity = "AccessRequest" /\ r = received.request
              /\ received.type = "RequestedExtensionChecked"
         /\ 1 \in Refusals(r) <=>
              /\ entity = "AccessRequest" /\ r = received.request
              /\ received.type = "AccessGrantNotActive"
BY HeadIs DEF Starts, Creates, Changes, Checks, Refusals, Places, Is

----------------------------------------------------------------------------
(* The steps that change neither a request nor a grant. *)

(* The message at the head is neither the start of an approval nor the     *)
(* change that an approval under way waits for.                            *)
Harmless(entity) ==
  entity = "AccessRequest" =>
    /\ received.type # "AccessRequestApprovalStarted"
    /\ received.type \in ChangeEvents =>
         request[received.request].status # "APPROVAL_STARTED"

LEMMA HarmlessHead ==
  ASSUME TypeOK, NEW entity, NEW types, Receives(entity, types),
         Harmless(entity)
  PROVE  \A r \in Request :
           /\ 1 \notin Starts(r)
           /\ 1 \in Changes(r) => request[r].status # "APPROVAL_STARTED"
<1>1. ASSUME NEW r \in Request
      PROVE  /\ 1 \notin Starts(r)
             /\ 1 \in Changes(r) => request[r].status # "APPROVAL_STARTED"
  BY HeadPlaces DEF Harmless
<1>. QED BY <1>1

LEMMA SameTime ==
  ASSUME IInv, UNCHANGED now PROVE now <= now'
BY DEF IInv, TypeOK, Time

LEMMA NoneGiven ==
  ASSUME IInv, IInv', GInv, NEW entity, NEW types, Receives(entity, types),
         Harmless(entity), Give(<<>>),
         now <= now', UNCHANGED <<request, access, applied>>
  PROVE  GInv'
<1>1. inbox # <<>> /\ TypeOK
  BY DEF Receives, IInv, TypeOK, Time
<1>2. PICK left \in {0, 1} : Came(left, <<>>)
  BY <1>1, GiveNone
<1>3. <<>> \in Seq(Message) /\ Len(<<>>) = 0 /\ SignalsOf(<<>>) = {}
  BY ShortSequences
<1>4. Light(<<>>) /\ Unhurried(<<>>)
  BY <1>3 DEF Light, Unhurried
<1>. QED BY <1>1, <1>2, <1>3, <1>4, HarmlessHead, IdleStep

LEMMA LightOne ==
  ASSUME NEW m, m.signal.type \notin Weighty PROVE Light(<<m>>)
BY DEF Light

LEMMA OneGiven ==
  ASSUME IInv, IInv', GInv, NEW entity, NEW types, Receives(entity, types),
         Harmless(entity), NEW m, Give(<<m>>), m.signal.type \notin Weighty,
         Faithful(m.signal), now <= now',
         UNCHANGED <<request, access, applied>>
  PROVE  GInv'
<1>1. inbox # <<>> /\ TypeOK /\ TypeOK'
  BY DEF Receives, IInv, TypeOK, Time
<1>2. PICK left \in {0, 1} : Came(left, <<m>>)
  BY <1>1, GiveOne
<1>3. <<m>> \in Seq(Message) /\ SignalsOf(<<m>>) = {m.signal}
  BY <1>1, GiveOne, ShortSequences
<1>4. Unhurried(<<m>>)
  BY <1>1, HarmlessHead DEF Unhurried
<1>5. \A s \in SignalsOf(<<m>>) : Faithful(s)
  BY <1>3
<1>. QED BY <1>1, <1>2, <1>3, <1>4, <1>5, LightOne, HarmlessHead, IdleStep

LEMMA DropKeeps ==
  ASSUME IInv, IInv', GInv, NEW entity, NEW types, Receives(entity, types),
         Harmless(entity), Drop, UNCHANGED now
  PROVE  GInv'
BY NoneGiven, SameTime DEF Drop, entities

LEMMA ProjectKeeps ==
  ASSUME IInv, IInv', GInv, Project PROVE GInv'
<1>1. ASSUME NEW entity \in {"RequestView", "Decisions", "GrantView"},
             NEW types, Receives(entity, types), Give(<<>>),
             UNCHANGED <<now, request, access, applied>>
      PROVE  GInv'
  BY <1>1, NoneGiven, SameTime DEF Harmless
<1>2. CASE SeedPending \/ ShowApprovalStarted \/ Settle
  BY <1>1, <1>2 DEF SeedPending, ShowApprovalStarted, Settle
<1>3. CASE Assign \/ Close \/ DropExtensionsOf
  BY <1>1, <1>3 DEF Assign, Close, DropExtensionsOf
<1>4. CASE ShowCreated \/ ShowExtended \/ ShowRevoked
  BY <1>1, <1>4 DEF ShowCreated, ShowExtended, ShowRevoked
<1>. QED BY <1>2, <1>3, <1>4 DEF Project

LEMMA OnAccessRequestSubmissionStartedKeeps ==
  ASSUME IInv, IInv', GInv, OnAccessRequestSubmissionStarted PROVE GInv'
<1>. DEFINE r == received.request
            snapshot == request[r].snapshot
            requested == RequestedInterval(snapshot.period, now)
            check == [type |-> "CheckRequestedAccess",
                      id |-> AccessOf(snapshot),
                      request |-> r, level |-> snapshot.level,
                      start |-> requested.start, end |-> requested.end,
                      maximum |-> MaximumDuration[snapshot.resource]]
            message == To("ResourceAccess", check)
<1>1. /\ Receives("AccessRequest", {"AccessRequestSubmissionStarted"})
      /\ Give(<<message>>) /\ UNCHANGED <<now, open, entities>>
  BY DEF OnAccessRequestSubmissionStarted
<1>2. /\ received \in SubmissionStartedEvent /\ Justified(received)
      /\ received.type = "AccessRequestSubmissionStarted"
  BY <1>1, Handled, SignalTypes
<1>3. snapshot.period \in Period /\ now \in Nat
  BY <1>2 DEF Justified, SaysNew, NewSnapshot, IInv, TypeOK, Time
<1>4. requested.end - requested.start = LengthOf(snapshot.period)
  BY <1>3 DEF RequestedInterval, LengthOf, Period, ImmediatePeriod,
              ScheduledPeriod, Time
<1>5. Faithful(check)
  BY <1>4 DEF Faithful
<1>6. message.signal = check /\ check.type \notin Weighty
  BY DEF To, Weighty, ChangeEvents
<1>7. Harmless("AccessRequest") /\ UNCHANGED <<request, access, applied>>
  BY <1>1, <1>2 DEF Harmless, entities, ChangeEvents
<1>. HIDE DEF message, check
<1>. QED BY <1>1, <1>5, <1>6, <1>7, OneGiven, SameTime

LEMMA OnAccessExtensionRequestSubmissionStartedKeeps ==
  ASSUME IInv, IInv', GInv, OnAccessExtensionRequestSubmissionStarted
  PROVE  GInv'
<1>. DEFINE r == received.request
            snapshot == request[r].snapshot
            check == [type |-> "CheckRequestedExtension",
                      id |-> AccessOf(snapshot),
                      request |-> r, grant |-> snapshot.grant,
                      duration |-> received.duration,
                      maximum |-> MaximumDuration[snapshot.resource]]
            message == To("ResourceAccess", check)
<1>1. /\ Receives("AccessRequest",
                  {"AccessExtensionRequestSubmissionStarted"})
      /\ Give(<<message>>) /\ UNCHANGED <<now, open, entities>>
  BY DEF OnAccessExtensionRequestSubmissionStarted
<1>2. received.type = "AccessExtensionRequestSubmissionStarted"
  BY <1>1, Handled
<1>3. Faithful(check)
  BY DEF Faithful
<1>4. message.signal = check /\ check.type \notin Weighty
  BY DEF To, Weighty, ChangeEvents
<1>5. Harmless("AccessRequest") /\ UNCHANGED <<request, access, applied>>
  BY <1>1, <1>2 DEF Harmless, entities, ChangeEvents
<1>. HIDE DEF message, check
<1>. QED BY <1>1, <1>3, <1>4, <1>5, OneGiven, SameTime

(* An answer that only its type matters of.                                *)
LEMMA PlainAnswerKeeps ==
  ASSUME IInv, IInv', GInv, NEW types, Receives("ResourceAccess", types),
         NEW r, NEW type \in {"RequestedDurationTooLong", "AccessAlreadyHeld",
                              "RequestedAccessChecked"},
         type = "RequestedAccessChecked" => Fits(r),
         Give(Answer(type, r, Unset)),
         now <= now', UNCHANGED <<request, access, applied>>
  PROVE  GInv'
<1>. DEFINE event == [type |-> type, request |-> r, proposedEnd |-> Unset]
            message == To("AccessRequest", event)
<1>1. Give(<<message>>)
  BY DEF Answer
<1>2. message.signal = event /\ event.type \notin Weighty
  BY DEF To, Weighty, ChangeEvents
<1>3. Faithful(event)
  BY DEF Faithful
<1>. HIDE DEF message, event
<1>. QED BY <1>1, <1>2, <1>3, OneGiven DEF Harmless

LEMMA CheckRequestedAccessKeeps ==
  ASSUME IInv, IInv', GInv, CheckRequestedAccess PROVE GInv'
<1>. DEFINE c == received
<1>1. /\ Receives("ResourceAccess", {"CheckRequestedAccess"})
      /\ UNCHANGED <<now, request, access, applied>>
  BY DEF CheckRequestedAccess, entities
<1>2. /\ c \in CheckCommand /\ c \in InFlight /\ Justified(c)
      /\ c.type = "CheckRequestedAccess"
  BY <1>1, Handled, ReceivedInFlight, SignalTypes DEF IInv
<1>3. ASSUME ~LongerThan(c, c.maximum) PROVE Fits(c.request)
  <2>1. /\ c.maximum = MaximumDuration[request[c.request].snapshot.resource]
        /\ c.end - c.start = LengthOf(request[c.request].snapshot.period)
    BY <1>2 DEF GInv, Saying, Faithful
  <2>2. c.start \in Nat /\ c.end \in Nat /\ c.maximum \in Nat
    BY <1>2 DEF CheckCommand, Time
  <2>. HIDE DEF c
  <2>. QED BY <1>3, <2>1, <2>2 DEF Fits, LongerThan
<1>. QED BY <1>1, <1>3, PlainAnswerKeeps, SameTime DEF CheckRequestedAccess

----------------------------------------------------------------------------
(* The steps of a person's access. *)

LEMMA NothingNew ==
  ASSUME UNCHANGED access PROVE GrantsKept
BY DEF GrantsKept

(* The answers that tell how the grant of an extension stands.             *)
LEMMA AnswerKeeps ==
  ASSUME IInv, IInv', GInv, NEW types, Receives("ResourceAccess", types),
         "CreateAccessGrant" \notin types,
         now <= now', UNCHANGED <<request, access, applied>>,
         NEW r \in Request,
         NEW type \in {"RequestedExtensionChecked", "AccessGrantNotActive"},
         NEW end, Give(Answer(type, r, end)), SaysExtension(r),
         type = "RequestedExtensionChecked" => Seen(r, end),
         type = "AccessGrantNotActive" /\ r \notin applied =>
           Ended(r) \/ (~Reviewed(r) /\ Checks(r) = {})
  PROVE  GInv'
<1>. DEFINE event == [type |-> type, request |-> r, proposedEnd |-> end]
            m == To("AccessRequest", event)
<1>0. /\ Give(<<m>>) /\ inbox # <<>> /\ TypeOK /\ TypeOK'
      /\ m.to = "AccessRequest" /\ m.signal = event /\ event.type = type
      /\ event.request = r /\ event.proposedEnd = end
  BY DEF Answer, Receives, To, IInv, TypeOK, Time
<1>. HIDE DEF m, event
<1>1. PICK left \in {0, 1} : Came(left, <<m>>)
  BY <1>0, GiveOne
<1>2. /\ <<m>> \in Seq(Message) /\ SignalsOf(<<m>>) = {event}
  BY <1>0, GiveOne, ShortSequences
<1>3. /\ Len(<<m>>) = 1 /\ <<m>>[1] = m
  OBVIOUS
<1>4. ASSUME NEW q \in Request
      PROVE  /\ GivenStarts(<<m>>, q) = {} /\ GivenCreates(<<m>>, q) = {}
             /\ GivenChanges(<<m>>, q) = {}
             /\ \A j \in GivenChecks(<<m>>, q) :
                  j = 1 /\ q = r /\ type = "RequestedExtensionChecked"
             /\ GivenRefusals(<<m>>, q) # {} =>
                  q = r /\ type = "AccessGrantNotActive"
  BY <1>0, <1>3 DEF GivenStarts, GivenCreates, GivenChanges, GivenChecks,
                    GivenRefusals, Given, Is, ChangeEvents
<1>5. ASSUME NEW q \in Request
      PROVE  /\ 1 \notin Starts(q) /\ 1 \notin Creates(q)
             /\ 1 \notin Changes(q)
  BY <1>0, HeadIs, HeadPlaces
<1>6. ASSUME NEW q \in Request PROVE Orderly(<<m>>, q)
  BY <1>4, <1>5 DEF Orderly, SaysNew
<1>7. ASSUME NEW q \in Request PROVE Answering(<<m>>, q)
  BY <1>0, <1>3, <1>4 DEF Answering, Reviewed
<1>8. \A q \in Request : Settles(left, <<m>>, q)
  BY <1>4, <1>5, SameSettles
<1>9. \A s \in SignalsOf(<<m>>) : Faithful(s)'
  BY <1>0, <1>2 DEF Faithful
<1>10. Distinct'
  BY DEF GInv, Distinct
<1>. QED BY <1>0, <1>1, <1>2, <1>6, <1>7, <1>8, <1>9, <1>10, NothingNew,
            SameRequests, GrantsStep

(* The request that an extension is of holds a grant that was created.     *)
LEMMA GrantOver ==
  ASSUME IInv, GInv, NEW entity, NEW types, Receives(entity, types),
         types \cap (Prompts \cup {"CreateAccessGrant"}) = {},
         NEW a \in AccessId, NEW g \in access[a].grant
  PROVE  g.id \in Request /\ Over(g.id)
<1>1. g.id \in Request /\ g.id \in applied
  BY DEF IInv, TypeOK, Access, Grant, GInv, GrantsApplied, GrantIds
<1>2. SaysNew(g.id)
  <2>1. Approving(g.id) /\ request[g.id].snapshot.kind = "new"
    BY DEF IInv, GrantsAreApproved
  <2>2. request[g.id].snapshot \in Snapshot
    BY <1>1, <2>1 DEF IInv, SubmittedSaySomething, Approving
  <2>. QED BY <2>1, <2>2 DEF SaysNew, Snapshot, ExtensionSnapshot
<1>3. ASSUME NEW k \in Creates(g.id) PROVE FALSE
  <2>1. k \in Nat /\ k >= 1
    BY DEF Creates, Places
  <2>2. Plain(1, g.id)
    BY <1>1, <1>2, <2>1 DEF GInv, InTurn
  <2>. QED BY <2>2, HeadIs, HeadPlaces DEF Plain, IInv
<1>. QED BY <1>1, <1>2, <1>3 DEF Over

LEMMA CheckRequestedExtensionKeeps ==
  ASSUME IInv, IInv', GInv, CheckRequestedExtension PROVE GInv'
<1>. DEFINE c == received
            r == c.request
            active == ActiveGrants(access[c.id], c.grant, now)
            types == {"CheckRequestedExtension"}
<1>1. /\ Receives("ResourceAccess", types)
      /\ UNCHANGED <<request, access, applied>> /\ now <= now'
  <2>1. TypeOK /\ now <= now
    BY DEF IInv, TypeOK, Time
  <2>2. ReadAgain \/ UNCHANGED now
    BY DEF CheckRequestedExtension
  <2>. QED BY <2>1, <2>2, ReadingAgain DEF CheckRequestedExtension, entities
<1>2. /\ c \in CheckExtensionCommand /\ c \in InFlight /\ Justified(c)
      /\ c.type = "CheckRequestedExtension"
  BY <1>1, Handled, ReceivedInFlight, SignalTypes DEF IInv
<1>3. /\ r \in Request /\ SaysExtension(r)
      /\ c.duration \in Nat /\ c.maximum \in Nat /\ c.id \in AccessId
  BY <1>2 DEF CheckExtensionCommand, Justified
<1>4. /\ c.id = AccessOf(request[r].snapshot)
      /\ c.grant = request[r].snapshot.grant
      /\ c.maximum = MaximumDuration[request[r].snapshot.resource]
  BY <1>2 DEF GInv, Saying, Faithful
<1>5. CASE active = {} /\ Give(Answer("AccessGrantNotActive", r, Unset))
  <2>1. ASSUME Reviewed(r) \/ Checks(r) # {} PROVE Ended(r)
    <3>1. \A h \in HeldOf(r) : h.start <= now
      BY <1>3, <2>1 DEF GInv, Checked, Seen
    <3>2. \A h \in HeldOf(r) : ~(h.start <= now /\ now < h.end)
      BY <1>4, <1>5 DEF ActiveGrants, HeldOf
    <3>. QED BY <1>3, <3>1, <3>2, HeldTyped DEF Ended, IInv, TypeOK, Time
  <2>. QED BY <1>1, <1>3, <1>5, <2>1, AnswerKeeps
<1>6. ASSUME NEW held \in active, NEW end, end = held.end + c.duration,
             ~LongerThan(WholeAccess(held, end), c.maximum),
             Give(Answer("RequestedExtensionChecked", r, end))
      PROVE  GInv'
  <2>1. /\ held \in access[c.id].grant /\ held.id = c.grant
        /\ held.start <= now /\ now < held.end
        /\ held.start \in Nat /\ held.end \in Nat
    BY <1>3 DEF ActiveGrants, IInv, TypeOK, Access, Grant, Time
  <2>2. Over(c.grant)
    BY <1>1, <1>3, <2>1, GrantOver DEF Prompts
  <2>3. \A h \in HeldOf(r) : h = held
    BY <1>3, <1>4, <2>1 DEF HeldOf, GInv, Distinct
  <2>4. end \in Nat /\ end - held.start <= c.maximum
    <3>. HIDE DEF c
    <3>. QED BY <1>3, <1>6, <2>1 DEF LongerThan, WholeAccess
  <2>5. Seen(r, end)
    BY <1>4, <2>1, <2>2, <2>3, <2>4 DEF Seen, Time
  <2>. QED BY <1>1, <1>3, <1>6, <2>5, AnswerKeeps
<1>7. CASE Give(Answer("RequestedDurationTooLong", r, Unset))
  BY <1>1, <1>7, PlainAnswerKeeps
<1>8. CASE Give(Answer("AccessAlreadyHeld", r, Unset))
  BY <1>1, <1>8, PlainAnswerKeeps
<1>. QED BY <1>5, <1>6, <1>7, <1>8 DEF CheckRequestedExtension

LEMMA RevokeAccessGrantKeeps ==
  ASSUME IInv, IInv', GInv, RevokeAccessGrant PROVE GInv'
<1>. DEFINE c == received
            kept == GrantsNotEnded(access[c.id], now')
            event == [type |-> "AccessGrantRevoked", grant |-> c.grant,
                      manager |-> access[c.id].manager]
            m == To("Decisions", event)
            n == To("GrantView", event)
            revocable == c.person \in access[c.id].manager
                         /\ \E g \in GrantsNotEnded(access[c.id], now) :
                              g.id = c.grant
<1>1. Receives("ResourceAccess", {"RevokeAccessGrant"}) /\ TypeOK
  BY DEF RevokeAccessGrant, IInv
<1>2. CASE revocable
  <2>1. /\ access' = [access EXCEPT ![c.id].grant =
                        {g \in kept : g.id # c.grant}]
        /\ Give(<<m, n>>) /\ UNCHANGED <<request, applied>>
        /\ inbox # <<>> /\ TypeOK /\ TypeOK' /\ now <= now'
    BY <1>1, <1>2, ReadingAgain DEF RevokeAccessGrant, IInv, Receives
  <2>2. PICK left \in {0, 1} : Came(left, <<m, n>>)
    BY <2>1, GiveTwo
  <2>3. /\ <<m, n>> \in Seq(Message) /\ SignalsOf(<<m, n>>) = {event}
        /\ Light(<<m, n>>)
    <3>1. m.signal = event /\ n.signal = event
      BY DEF To
    <3>2. Light(<<m, n>>)
      BY DEF To, Light
    <3>. HIDE DEF m, n, event
    <3>. QED BY <2>1, <3>1, <3>2, GiveTwo, ShortSequences
  <2>4. \A a \in AccessId : access'[a].grant \subseteq access[a].grant
    <3>1. access \in [AccessId -> Access]
      BY DEF IInv, TypeOK
    <3>. QED BY <2>1, <3>1 DEF GrantsNotEnded, Access
  <2>5. \A s \in SignalsOf(<<m, n>>) : Faithful(s)'
    BY <2>3 DEF Faithful
  <2>6. Harmless("ResourceAccess")
    BY DEF Harmless
  <2>7. \A r \in Request :
          /\ 1 \notin Starts(r)
          /\ 1 \in Changes(r) => request[r].status # "APPROVAL_STARTED"
    BY <1>1, <2>1, <2>6, HarmlessHead
  <2>8. Unhurried(<<m, n>>)
    BY <2>7 DEF Unhurried
  <2>9. \A r \in Request : Settles(left, <<m, n>>, r)
    <3>. HIDE DEF m, n
    <3>. QED BY <2>1, <2>3, <2>7, LightGivesNone, SameSettles
  <2>. HIDE DEF m, n, event, kept
  <2>. QED BY <2>1, <2>2, <2>3, <2>4, <2>5, <2>8, <2>9, SameRequests,
              LightStep
<1>3. CASE ~revocable
  BY <1>1, <1>3, DropKeeps DEF RevokeAccessGrant, Harmless
<1>. QED BY <1>2, <1>3

(* The messages a changed grant is told by.                                *)
LEMMA GrantChangedGives ==
  ASSUME IInv, IInv', inbox # <<>>, NEW type \in ChangeEvents,
         NEW grant, NEW r, NEW start, NEW end,
         Give(GrantChanged(type, grant, r, start, end))
  PROVE  \E messages \in Seq(Message) : \E left \in {0, 1} :
           /\ Came(left, messages)
           /\ \A s \in SignalsOf(messages) : Faithful(s)'
           /\ \A q : /\ GivenStarts(messages, q) = {}
                     /\ GivenCreates(messages, q) = {}
                     /\ GivenChecks(messages, q) = {}
                     /\ GivenRefusals(messages, q) = {}
                     /\ GivenChanges(messages, q) # {} <=> q = r
<1>. DEFINE event == [type |-> type, grant |-> grant, request |-> r,
                      start |-> start, end |-> end]
            m == To("AccessRequest", event)
            n == To("GrantView", event)
<1>1. /\ Give(<<m, n>>) /\ TypeOK /\ TypeOK'
      /\ m.to = "AccessRequest" /\ m.signal = event
      /\ n.to = "GrantView" /\ n.signal = event
      /\ event.type = type /\ event.request = r
  BY DEF GrantChanged, To, IInv
<1>. HIDE DEF m, n, event
<1>2. PICK left \in {0, 1} : Came(left, <<m, n>>)
  BY <1>1, GiveTwo
<1>3. <<m, n>> \in Seq(Message) /\ SignalsOf(<<m, n>>) = {event}
  BY <1>1, GiveTwo, ShortSequences
<1>4. Faithful(event)'
  BY <1>1 DEF Faithful, ChangeEvents
<1>5. /\ 1 .. Len(<<m, n>>) = {1, 2}
      /\ <<m, n>>[1] = m /\ <<m, n>>[2] = n
  OBVIOUS
<1>6. ASSUME NEW q
      PROVE  /\ GivenStarts(<<m, n>>, q) = {}
             /\ GivenCreates(<<m, n>>, q) = {}
             /\ GivenChecks(<<m, n>>, q) = {}
             /\ GivenRefusals(<<m, n>>, q) = {}
             /\ GivenChanges(<<m, n>>, q) # {} <=> q = r
  BY <1>1, <1>5 DEF GivenStarts, GivenCreates, GivenChanges, GivenChecks,
                    GivenRefusals, Given, Is, ChangeEvents
<1>7. \A s \in SignalsOf(<<m, n>>) : Faithful(s)'
  BY <1>3, <1>4
<1>. QED BY <1>2, <1>3, <1>6, <1>7

LEMMA CreateAccessGrantKeeps ==
  ASSUME IInv, IInv', GInv, CreateAccessGrant PROVE GInv'
<1>. DEFINE c == received
            r == c.request
            held == access[c.id]
            created == [id |-> r, level |-> c.level,
                        start |-> c.start, end |-> c.end]
            issuable == Nonempty(c) /\ r \notin GrantIds(held)
<1>1. /\ Receives("ResourceAccess", {"CreateAccessGrant"})
      /\ UNCHANGED now /\ inbox # <<>> /\ TypeOK /\ now <= now'
  BY DEF CreateAccessGrant, Receives, IInv, TypeOK, Time
<1>2. /\ c \in CreateGrantCommand /\ c \in InFlight /\ Justified(c)
      /\ c.type = "CreateAccessGrant"
  BY <1>1, Handled, ReceivedInFlight, SignalTypes
<1>3. /\ r \in Request /\ c.id \in AccessId
      /\ Approving(r) /\ SaysNew(r) /\ AccessOf(request[r].snapshot) = c.id
  BY <1>2 DEF CreateGrantCommand, Justified, SaysNew
<1>4. /\ EndAsRequested([id |-> r, start |-> c.start, end |-> c.end])
      /\ c.end - c.start <= MaximumDuration[request[r].snapshot.resource]
  BY <1>2 DEF GInv, Saying, Faithful
<1>5. CASE issuable
  <2>1. /\ access' = [access EXCEPT ![c.id] =
             [manager |-> c.manager,
              grant |-> GrantsNotEnded(held, now) \cup {created}]]
        /\ applied' = applied \cup {r} /\ UNCHANGED request
        /\ Give(GrantChanged("AccessGrantCreated", r, r, c.start, c.end))
    BY <1>5 DEF CreateAccessGrant
  <2>2. PICK messages \in Seq(Message), left \in {0, 1} :
           /\ Came(left, messages)
           /\ \A s \in SignalsOf(messages) : Faithful(s)'
           /\ \A q : /\ GivenStarts(messages, q) = {}
                     /\ GivenCreates(messages, q) = {}
                     /\ GivenChecks(messages, q) = {}
                     /\ GivenRefusals(messages, q) = {}
                     /\ GivenChanges(messages, q) # {} <=> q = r
    <3>1. /\ inbox # <<>> /\ "AccessGrantCreated" \in ChangeEvents
          /\ Give(GrantChanged("AccessGrantCreated", r, r, c.start, c.end))
      BY <1>1, <2>1 DEF ChangeEvents
    <3>. HIDE DEF c, r
    <3>. QED BY <3>1, GrantChangedGives
  <2>3. /\ created.id = r /\ created.start = c.start /\ created.end = c.end
    OBVIOUS
  <2>4. /\ \A a \in AccessId \ {c.id} : access'[a] = access[a]
        /\ access'[c.id].grant = GrantsNotEnded(held, now) \cup {created}
    BY <1>3, <2>1 DEF IInv, TypeOK
  <2>5. 1 \in Creates(r)
    BY <1>1, <1>2, HeadPlaces
  <2>6. \A q \in Request :
          1 \notin Starts(q) /\ 1 \notin Changes(q)
    BY <1>1, HeadPlaces
  <2>. HIDE DEF created, c, held, r
  <2>7. GrantsKept
    BY <2>3, <2>4, <2>5 DEF GrantsKept, GrantsNotEnded, held
  <2>8. ASSUME NEW a \in AccessId, NEW g, a = c.id, g = created
        PROVE  Lasts(a, g)'
    <3>1. a.resource = request[r].snapshot.resource
      BY <1>3, <2>8 DEF AccessOf
    <3>2. g.id = r /\ g.start = c.start /\ g.end = c.end
      BY <2>3, <2>8
    <3>. QED BY <1>4, <2>1, <3>1, <3>2 DEF Lasts, EndAsRequested
  <2>9. \A a \in AccessId : \A g \in access'[a].grant :
          g \in access[a].grant \/ (g.id \in applied' /\ Lasts(a, g)')
    <3>1. ASSUME NEW a \in AccessId, NEW g \in access'[a].grant,
                 g \notin access[a].grant
          PROVE  a = c.id /\ g = created
      BY <2>4, <3>1 DEF GrantsNotEnded, held
    <3>. QED BY <2>1, <2>3, <2>8, <3>1
  <2>10. Distinct'
    <3>1. \A g \in held.grant : g.id # r
      BY <1>5 DEF GrantIds, c, held, r
    <3>2. \A g, h \in access'[c.id].grant : g.id = h.id => g = h
      BY <1>3, <2>3, <2>4, <3>1 DEF GInv, Distinct, GrantsNotEnded, held
    <3>. QED BY <2>4, <3>2 DEF GInv, Distinct
  <2>11. ASSUME NEW q \in Request PROVE Orderly(messages, q)
    <3>1. GivenStarts(messages, q) = {} /\ GivenCreates(messages, q) = {}
      BY <2>2
    <3>. QED BY <2>1, <2>5, <2>6, <3>1 DEF Orderly, SaysNew
  <2>12. ASSUME NEW q \in Request PROVE Answering(messages, q)
    <3>1. GivenChecks(messages, q) = {} /\ GivenRefusals(messages, q) = {}
      BY <2>2
    <3>. QED BY <3>1 DEF Answering
  <2>13. ASSUME NEW q \in Request PROVE Settles(left, messages, q)
    <3>1. ~SaysExtension(r) /\ Refusals(r) = {}
      BY <1>3, NoAnswers
         DEF SaysNew, SaysExtension, NewSnapshot, ExtensionSnapshot
    <3>2. CASE q = r
      BY <1>3, <2>1, <2>2, <2>6, <3>1, <3>2
         DEF Settles, Approving, SaysExtension
    <3>3. CASE q # r
      <4>1. GivenChanges(messages, q) = {}
        BY <2>2, <3>3
      <4>2. Settling(q)
        BY DEF GInv
      <4>3. q \in applied' <=> q \in applied
        BY <2>1, <3>3
      <4>4. request[q].status = "APPROVAL_FAILED" => Reviewed(q)
        BY DEF Reviewed
      <4>. QED BY <2>1, <2>6, <4>1, <4>2, <4>3, <4>4
               DEF Settles, Settling, Approving
    <3>. QED BY <3>2, <3>3
  <2>. QED BY <1>1, <2>1, <2>2, <2>7, <2>9, <2>10, <2>11, <2>12, <2>13,
              SameRequests, GrantsStep
<1>6. CASE ~issuable
  BY <1>1, <1>6, DropKeeps DEF CreateAccessGrant, Harmless
<1>. QED BY <1>5, <1>6

LEMMA ExtendAccessGrantKeeps ==
  ASSUME IInv, IInv', GInv, ExtendAccessGrant PROVE GInv'
<1>. DEFINE c == received
            r == c.request
            active == ActiveGrants(access[c.id], c.grant, now)
            types == {"ExtendAccessGrant"}
<1>1. Receives("ResourceAccess", types) /\ inbox # <<>> /\ TypeOK
  BY DEF ExtendAccessGrant, Receives, IInv
<1>2. /\ c \in ExtendGrantCommand /\ c \in InFlight /\ Justified(c)
      /\ c.type = "ExtendAccessGrant"
  BY <1>1, Handled, ReceivedInFlight, SignalTypes
<1>3. r \in Request /\ SaysExtension(r) /\ c.id \in AccessId
  BY <1>2 DEF ExtendGrantCommand, Justified
<1>4. /\ Accepted(r) /\ Reviewed(r)
      /\ c.id = AccessOf(request[r].snapshot)
      /\ c.grant = request[r].snapshot.grant
      /\ c.end = request[r].snapshot.proposedEnd
  BY <1>2 DEF GInv, Saying, Faithful, Accepted, Reviewed
<1>5. Seen(r, c.end) /\ Refused(r) /\ Settling(r)
  BY <1>3, <1>4 DEF GInv, Checked
<1>6. CASE active = {} /\ Give(Answer("AccessGrantNotActive", r, Unset))
           /\ UNCHANGED <<now, entities>>
  <2>1. Ended(r)
    <3>1. \A h \in HeldOf(r) : h.start <= now
      BY <1>5 DEF Seen
    <3>2. \A h \in HeldOf(r) : ~(h.start <= now /\ now < h.end)
      BY <1>4, <1>6 DEF ActiveGrants, HeldOf
    <3>. QED BY <1>3, <3>1, <3>2, HeldTyped DEF Ended, IInv, TypeOK, Time
  <2>. QED BY <1>1, <1>3, <1>6, <2>1, AnswerKeeps, SameTime DEF entities
<1>7. CASE Drop /\ UNCHANGED now
  BY <1>1, <1>7, DropKeeps DEF Harmless
<1>8. ASSUME NEW held \in active,
             ReadAgain,
             access' = [access EXCEPT ![c.id].grant =
                          Extended(access[c.id], c.grant, c.end, now')],
             applied' = applied \cup {r},
             Give(GrantChanged("AccessGrantExtended", c.grant, r, Unset,
                               c.end)),
             UNCHANGED request
      PROVE  GInv'
  <2>1. PICK messages \in Seq(Message), left \in {0, 1} :
           /\ Came(left, messages)
           /\ \A s \in SignalsOf(messages) : Faithful(s)'
           /\ \A q : /\ GivenStarts(messages, q) = {}
                     /\ GivenCreates(messages, q) = {}
                     /\ GivenChecks(messages, q) = {}
                     /\ GivenRefusals(messages, q) = {}
                     /\ GivenChanges(messages, q) # {} <=> q = r
    <3>1. /\ inbox # <<>> /\ "AccessGrantExtended" \in ChangeEvents
          /\ Give(GrantChanged("AccessGrantExtended", c.grant, r, Unset,
                               c.end))
      BY <1>1, <1>8 DEF ChangeEvents
    <3>. HIDE DEF c, r
    <3>. QED BY <3>1, GrantChangedGives
  <2>2. now <= now' /\ now \in Nat /\ now' \in Nat
    BY <1>8, ReadingAgain DEF IInv, TypeOK, Time
  <2>3. /\ access \in [AccessId -> Access] /\ access[c.id] \in Access
        /\ \A a \in AccessId : \A g \in access[a].grant : g \in Grant
    BY <1>3 DEF IInv, TypeOK, Access
  <2>4. /\ \A a \in AccessId \ {c.id} : access'[a] = access[a]
        /\ access'[c.id].grant = Extended(access[c.id], c.grant, c.end, now')
    BY <1>3, <1>8, <2>3 DEF Access
  <2>5. \A q \in Request :
          /\ 1 \notin Starts(q) /\ 1 \notin Changes(q) /\ 1 \notin Creates(q)
    BY <1>1, <1>2, HeadPlaces
  <2>6. ~Ended(r)
    <3>1. held \in HeldOf(r) /\ now < held.end /\ held.end \in Nat
      BY <1>3, <1>4, <2>3 DEF ActiveGrants, HeldOf, Grant, Time
    <3>. QED BY <2>2, <3>1 DEF Ended
  <2>7. /\ Approving(r) /\ ~SaysNew(r)
        /\ r \in applied \/ Refusals(r) = {}
    BY <1>3, <1>4, <1>5, <2>6
       DEF Accepted, Approving, Refused, SaysNew, SaysExtension, NewSnapshot,
           ExtensionSnapshot
  <2>. HIDE DEF c, r, active
  <2>8. ASSUME NEW h \in access'[c.id].grant
        PROVE  \E old \in access[c.id].grant :
                 /\ now < old.end
                 /\ h.id = old.id /\ h.start = old.start
                 /\ old.id = c.grant => h.end = c.end
                 /\ old.id # c.grant => h = old
                 /\ h = IF old.id = c.grant THEN [old EXCEPT !.end = c.end]
                                            ELSE old
    <3>1. PICK old \in GrantsNotEnded(access[c.id], now') :
             h = IF old.id = c.grant THEN [old EXCEPT !.end = c.end] ELSE old
      BY <2>4 DEF Extended
    <3>2. old \in access[c.id].grant /\ now' < old.end
      BY DEF GrantsNotEnded
    <3>3. old \in Grant
      BY <1>3, <2>3, <3>2
    <3>4. now < old.end
      BY <2>2, <3>2, <3>3 DEF Grant, Time
    <3>5. [old EXCEPT !.end = c.end].end = c.end
          /\ [old EXCEPT !.end = c.end].id = old.id
          /\ [old EXCEPT !.end = c.end].start = old.start
      BY <3>3 DEF Grant
    <3>. QED BY <3>1, <3>2, <3>4, <3>5
  <2>9. GrantsKept
    <3>1. ASSUME NEW a \in AccessId, NEW h \in access'[a].grant
          PROVE  \E old \in access[a].grant :
                   /\ old.id = h.id /\ old.start = h.start
                   /\ old.end = h.end \/ now < old.end
      BY <2>4, <2>8
    <3>. QED BY <3>1 DEF GrantsKept
  <2>10. ASSUME NEW a \in AccessId, NEW g \in access'[a].grant,
                g \notin access[a].grant
         PROVE  g.id \in applied' /\ Lasts(a, g)'
    <3>1. a = c.id
      BY <2>4, <2>10
    <3>2. PICK old \in access[c.id].grant :
             /\ g.id = old.id /\ g.start = old.start
             /\ old.id = c.grant /\ g.end = c.end
      BY <2>8, <2>10, <3>1
    <3>3. g.id \in applied
      BY <1>3, <3>2 DEF GInv, GrantsApplied, GrantIds
    <3>4. old \in HeldOf(r)
      BY <1>4, <3>2 DEF HeldOf
    <3>5. c.end - old.start <= MaximumDuration[a.resource]
      BY <1>4, <1>5, <3>1, <3>4 DEF Seen, AccessOf
    <3>6. ExtensionOf(request'[r].snapshot, g.id)
      BY <1>3, <1>4, <1>8, <3>2
         DEF ExtensionOf, SaysExtension, ExtensionSnapshot
    <3>. QED BY <1>4, <1>8, <3>2, <3>3, <3>5, <3>6 DEF Lasts
  <2>11. Distinct'
    <3>1. ASSUME NEW g \in access'[c.id].grant, NEW h \in access'[c.id].grant,
                 g.id = h.id
          PROVE  g = h
      <4>1. PICK old \in access[c.id].grant :
               /\ g.id = old.id
               /\ g = IF old.id = c.grant THEN [old EXCEPT !.end = c.end]
                                          ELSE old
        BY <2>8
      <4>2. PICK other \in access[c.id].grant :
               /\ h.id = other.id
               /\ h = IF other.id = c.grant THEN [other EXCEPT !.end = c.end]
                                            ELSE other
        BY <2>8
      <4>3. old = other
        <5>1. old.id = other.id
          BY <3>1, <4>1, <4>2
        <5>2. \A x, y \in access[c.id].grant : x.id = y.id => x = y
          BY <1>3 DEF GInv, Distinct
        <5>. QED BY <5>1, <5>2
      <4>. QED BY <4>1, <4>2, <4>3
    <3>. QED BY <2>4, <3>1 DEF GInv, Distinct
  <2>12. ASSUME NEW q \in Request PROVE Orderly(messages, q)
    <3>1. GivenStarts(messages, q) = {} /\ GivenCreates(messages, q) = {}
      BY <2>1
    <3>2. SaysNew(q)' /\ q \in applied' => SaysNew(q) /\ q \in applied
      BY <1>8, <2>7 DEF SaysNew
    <3>. QED BY <2>5, <3>1, <3>2 DEF Orderly
  <2>13. ASSUME NEW q \in Request PROVE Answering(messages, q)
    <3>1. GivenChecks(messages, q) = {} /\ GivenRefusals(messages, q) = {}
      BY <2>1
    <3>. QED BY <3>1 DEF Answering
  <2>14. ASSUME NEW q \in Request PROVE Settles(left, messages, q)
    <3>1. CASE q = r
      <4>1. /\ GivenRefusals(messages, r) = {}
            /\ GivenChanges(messages, r) # {}
        BY <2>1
      <4>2. q \in applied' /\ Approving(q)'
        BY <1>8, <2>7, <3>1 DEF Approving
      <4>3. request'[q].status # "APPROVAL_FAILED"
        BY <4>2 DEF Approving
      <4>4. (q \in applied /\ 1 \notin Changes(q)) \/ Refusals(q) = {}
        BY <2>5, <2>7, <3>1
      <4>. QED BY <1>8, <3>1, <4>1, <4>2, <4>3, <4>4 DEF Settles
    <3>2. CASE q # r
      <4>1. GivenChanges(messages, q) = {}
        BY <2>1, <3>2
      <4>2. Settling(q)
        BY DEF GInv
      <4>3. q \in applied' <=> q \in applied
        BY <1>8, <3>2
      <4>4. request[q].status = "APPROVAL_FAILED" => Reviewed(q)
        BY DEF Reviewed
      <4>. QED BY <1>8, <2>5, <4>1, <4>2, <4>3, <4>4
               DEF Settles, Settling, Approving
    <3>. QED BY <3>1, <3>2
  <2>. QED BY <1>8, <2>1, <2>2, <2>9, <2>10, <2>11, <2>12, <2>13, <2>14,
              SameRequests, GrantsStep
<1>. QED BY <1>6, <1>7, <1>8 DEF ExtendAccessGrant

----------------------------------------------------------------------------
(* The steps by which a request moves on. *)

Unreviewed == {"UNSPECIFIED", "SUBMISSION_STARTED", "SUBMISSION_FAILED"}

(* How a request may move on, other than by an approval being accepted.    *)
MovesTo(r, status) ==
  /\ status \in Status \ {"UNSPECIFIED", "APPROVAL_STARTED"}
  /\ Reviewed(r) => status \notin Unreviewed
  /\ Accepted(r) => status \in {"APPROVED", "APPROVAL_FAILED"}
  /\ ~Reviewed(r) /\ status \notin Unreviewed => SaysNew(r) /\ Fits(r)
  /\ r \in applied <=> status = "APPROVED"
  /\ status = "APPROVAL_FAILED" => Reviewed(r) /\ Ended(r)

LEMMA MoveKeeps ==
  ASSUME IInv, IInv', GInv, NEW types, Receives("AccessRequest", types),
         received.type # "AccessRequestApprovalStarted",
         NEW r \in Request, r = received.request, NEW status,
         SetStatus(r, status), MovesTo(r, status),
         UNCHANGED <<now, access, applied>>,
         NEW messages \in Seq(Message), NEW left \in {0, 1},
         Came(left, messages), Light(messages),
         \A s \in SignalsOf(messages) : Faithful(s)'
  PROVE  GInv'
<1>1. TypeOK /\ now <= now'
  BY DEF IInv, TypeOK, Time
<1>2. /\ request'[r].status = status
      /\ request'[r].snapshot = request[r].snapshot
      /\ \A q \in Request \ {r} : request'[q] = request[q]
  BY <1>1 DEF SetStatus, TypeOK, ProcessState
<1>3. ASSUME NEW q \in Request
      PROVE  1 \notin Starts(q) /\ (1 \in Changes(q) => q = r)
  BY <1>1, HeadPlaces
<1>4. Unhurried(messages)
  BY <1>3 DEF Unhurried
<1>5. ASSUME NEW q \in Request PROVE Onward(q)
  <2>1. CASE q = r
    <3>1. Reviewed(r) => Reviewed(r)'
      BY <1>2 DEF MovesTo, Reviewed, Unreviewed
    <3>2. Accepted(r) => Accepted(r)'
      BY <1>2 DEF MovesTo, Accepted
    <3>. QED BY <1>2, <2>1, <3>1, <3>2 DEF Onward, SaysExtension
  <2>2. CASE q # r
    BY <1>2, <2>2 DEF Onward, SaysExtension, Reviewed, Accepted
  <2>. QED BY <2>1, <2>2
<1>6. ASSUME NEW q \in Request PROVE Reviews(q)
  <2>1. CASE q = r
    <3>1. Reviewed(r)' /\ ~Reviewed(r) => SaysNew(r) /\ Fits(r)
      BY <1>2 DEF MovesTo, Reviewed, Unreviewed
    <3>2. Fits(r) => Fits(r)'
      BY <1>2 DEF Fits
    <3>3. SaysNew(r) => ~SaysExtension(r)'
      BY <1>2 DEF SaysNew, SaysExtension, NewSnapshot, ExtensionSnapshot
    <3>. QED BY <2>1, <3>1, <3>2, <3>3 DEF Reviews
  <2>2. CASE q # r
    BY <1>2, <2>2 DEF Reviews, Reviewed
  <2>. QED BY <2>1, <2>2
<1>7. ASSUME NEW q \in Request PROVE Settles(left, messages, q)
  <2>1. GivenChanges(messages, q) = {}
    BY LightGivesNone
  <2>2. CASE q = r
    BY <1>2, <2>1, <2>2 DEF Settles, MovesTo, Approving
  <2>3. CASE q # r
    <3>1. Settling(q) /\ 1 \notin Changes(q)
      BY <1>3, <2>3 DEF GInv
    <3>2. request[q].status = "APPROVAL_FAILED" => Reviewed(q)
      BY DEF Reviewed
    <3>. QED BY <1>2, <2>1, <2>3, <3>1, <3>2 DEF Settles, Settling, Approving
  <2>. QED BY <2>2, <2>3
<1>. QED BY <1>1, <1>4, <1>5, <1>6, <1>7, LightStep

LEMMA MoveSilently ==
  ASSUME IInv, IInv', GInv, NEW types, Receives("AccessRequest", types),
         received.type # "AccessRequestApprovalStarted",
         NEW r \in Request, r = received.request, NEW status,
         SetStatus(r, status), MovesTo(r, status), Give(<<>>),
         UNCHANGED <<now, access, applied>>
  PROVE  GInv'
<1>1. PICK left \in {0, 1} : Came(left, <<>>)
  BY GiveNone DEF IInv, Receives
<1>2. <<>> \in Seq(Message) /\ SignalsOf(<<>>) = {} /\ Light(<<>>)
  BY ShortSequences DEF Light
<1>. QED BY <1>1, <1>2, MoveKeeps

(* The projections are told of what the invariant does not speak about.    *)
LEMMA TellingIsLight ==
  ASSUME IInv, IInv', inbox # <<>>, NEW event, Give(ToProjections(event)),
         event.type \notin {"CheckRequestedAccess", "RequestedAccessChecked",
           "CheckRequestedExtension", "AccessRequestApprovalStarted",
           "CreateAccessGrant", "ExtendAccessGrant"}
  PROVE  \E messages \in Seq(Message) : \E left \in {0, 1} :
           /\ Came(left, messages) /\ Light(messages)
           /\ \A s \in SignalsOf(messages) : Faithful(s)'
<1>. DEFINE m == To("RequestView", event)
            n == To("Decisions", event)
<1>1. /\ Give(<<m, n>>) /\ m.signal = event /\ n.signal = event
      /\ m.to = "RequestView" /\ n.to = "Decisions"
  BY DEF ToProjections, To
<1>. HIDE DEF m, n
<1>2. /\ <<m, n>> \in Seq(Message) /\ SignalsOf(<<m, n>>) = {event}
      /\ \E left \in {0, 1} : Came(left, <<m, n>>)
  BY <1>1, GiveTwo, ShortSequences DEF IInv
<1>3. Light(<<m, n>>)
  BY <1>1 DEF Light
<1>4. Faithful(event)'
  BY DEF Faithful
<1>5. \A s \in SignalsOf(<<m, n>>) : Faithful(s)'
  BY <1>2, <1>4
<1>. QED BY <1>2, <1>3, <1>5

LEMMA MoveAndTell ==
  ASSUME IInv, IInv', GInv, NEW types, Receives("AccessRequest", types),
         received.type # "AccessRequestApprovalStarted",
         NEW r \in Request, r = received.request, NEW status,
         SetStatus(r, status), MovesTo(r, status),
         NEW type \in {"AccessRequestSubmitted", "AccessRequestApproved",
                       "AccessRequestApprovalFailed", "AccessRequestDenied",
                       "AccessRequestCanceled"}, NEW person, NEW time,
         Give(ToProjections(RequestEventOf(type, r, person, time))),
         UNCHANGED <<now, access, applied>>
  PROVE  GInv'
<1>. DEFINE event == RequestEventOf(type, r, person, time)
<1>1. event.type = type /\ inbox # <<>>
  BY DEF RequestEventOf, Receives
<1>. HIDE DEF event
<1>2. PICK messages \in Seq(Message), left \in {0, 1} :
           /\ Came(left, messages) /\ Light(messages)
           /\ \A s \in SignalsOf(messages) : Faithful(s)'
  BY <1>1, TellingIsLight DEF event
<1>. QED BY <1>2, MoveKeeps

LEMMA OnRequestedAccessCheckedKeeps ==
  ASSUME IInv, IInv', GInv, OnRequestedAccessChecked PROVE GInv'
<1>. DEFINE r == received.request
<1>1. /\ Receives("AccessRequest", {"RequestedAccessChecked"})
      /\ UNCHANGED now
  BY DEF OnRequestedAccessChecked
<1>2. /\ received \in AnswerEvent /\ Justified(received)
      /\ received.type = "RequestedAccessChecked" /\ received \in InFlight
  BY <1>1, Handled, ReceivedInFlight, SignalTypes DEF IInv
<1>3. r \in Request /\ SaysNew(r) /\ Fits(r)
  BY <1>2 DEF AnswerEvent, Justified, GInv, Saying, Faithful
<1>4. CASE BeingSubmitted(r)
  <2>1. r \notin applied
    BY <1>3, <1>4 DEF GInv, Settling, Approving, BeingSubmitted
  <2>2. MovesTo(r, "PENDING")
    BY <1>3, <1>4, <2>1
       DEF MovesTo, Status, Unreviewed, Reviewed, Accepted, BeingSubmitted
  <2>. QED BY <1>1, <1>2, <1>3, <1>4, <2>2, MoveAndTell
           DEF OnRequestedAccessChecked
<1>5. CASE ~BeingSubmitted(r)
  BY <1>1, <1>2, <1>5, DropKeeps
     DEF OnRequestedAccessChecked, Harmless, ChangeEvents
<1>. QED BY <1>4, <1>5

LEMMA OnSubmissionRejectedKeeps ==
  ASSUME IInv, IInv', GInv, OnSubmissionRejected PROVE GInv'
<1>. DEFINE r == received.request
            types == {"AccessAlreadyHeld", "RequestedDurationTooLong"}
<1>1. Receives("AccessRequest", types) /\ UNCHANGED now
  BY DEF OnSubmissionRejected
<1>2. received \in AnswerEvent /\ received.type \in types
  BY <1>1, Handled, SignalTypes
<1>3. r \in Request
  BY <1>2 DEF AnswerEvent
<1>4. CASE BeingSubmitted(r)
  <2>1. r \notin applied
    BY <1>3, <1>4 DEF GInv, Settling, Approving, BeingSubmitted
  <2>2. MovesTo(r, "SUBMISSION_FAILED")
    BY <1>3, <1>4, <2>1
       DEF MovesTo, Status, Unreviewed, Reviewed, Accepted, BeingSubmitted
  <2>. QED BY <1>1, <1>2, <1>3, <1>4, <2>2, MoveSilently
           DEF OnSubmissionRejected
<1>5. CASE ~BeingSubmitted(r)
  BY <1>1, <1>2, <1>5, DropKeeps
     DEF OnSubmissionRejected, Harmless, ChangeEvents
<1>. QED BY <1>4, <1>5

LEMMA OnGrantChangedKeeps ==
  ASSUME IInv, IInv', GInv, OnGrantChanged PROVE GInv'
<1>. DEFINE r == received.request
            types == {"AccessGrantCreated", "AccessGrantExtended"}
<1>1. Receives("AccessRequest", types) /\ UNCHANGED now
  BY DEF OnGrantChanged
<1>2. received \in GrantEvent /\ received.type \in types
  BY <1>1, Handled, SignalTypes
<1>3. r \in Request /\ 1 \in Changes(r)
  BY <1>1, <1>2, HeadPlaces DEF GrantEvent, ChangeEvents, IInv
<1>4. r \in applied
  BY <1>3 DEF GInv, Settling
<1>5. CASE BeingApproved(r)
  <2>1. MovesTo(r, "APPROVED")
    BY <1>4, <1>5
       DEF MovesTo, Status, Unreviewed, Reviewed, Accepted, BeingApproved
  <2>. QED BY <1>1, <1>2, <1>3, <1>5, <2>1, MoveAndTell DEF OnGrantChanged
<1>6. CASE ~BeingApproved(r)
  BY <1>1, <1>2, <1>6, DropKeeps DEF OnGrantChanged, Harmless, BeingApproved
<1>. QED BY <1>5, <1>6

(* A refusal is only handled while the request has changed nothing.        *)
LEMMA OnAccessGrantNotActiveKeeps ==
  ASSUME IInv, IInv', GInv, OnAccessGrantNotActive PROVE GInv'
<1>. DEFINE r == received.request
            types == {"AccessGrantNotActive"}
<1>1. Receives("AccessRequest", types) /\ UNCHANGED now
  BY DEF OnAccessGrantNotActive
<1>2. /\ received \in AnswerEvent /\ received.type \in types
      /\ Justified(received)
  BY <1>1, Handled, SignalTypes
<1>3. r \in Request /\ 1 \in Refusals(r) /\ SaysExtension(r)
  BY <1>1, <1>2, HeadPlaces DEF AnswerEvent, IInv, Justified
<1>4. BeingSubmitted(r) \/ BeingApproved(r) => r \notin applied
  <2>1. \A j \in Changes(r) : j \in Nat /\ j >= 1
    BY DEF Changes, Places
  <2>. QED BY <1>3, <2>1
           DEF GInv, Settling, Approving, BeingSubmitted, BeingApproved
<1>5. CASE BeingSubmitted(r)
  <2>1. MovesTo(r, "SUBMISSION_FAILED")
    BY <1>3, <1>4, <1>5
       DEF MovesTo, Status, Unreviewed, Reviewed, Accepted, BeingSubmitted
  <2>2. ~BeingApproved(r)
    BY <1>5 DEF BeingSubmitted, BeingApproved
  <2>3. /\ SetStatus(r, "SUBMISSION_FAILED") /\ Give(<<>>)
        /\ UNCHANGED <<access, applied>>
    BY <1>5, <2>2 DEF OnAccessGrantNotActive
  <2>. QED BY <1>1, <1>2, <1>3, <2>1, <2>3, MoveSilently
<1>6. CASE BeingApproved(r)
  <2>1. Ended(r) /\ Reviewed(r)
    BY <1>3, <1>4, <1>6 DEF GInv, Refused, Reviewed, BeingApproved
  <2>2. MovesTo(r, "APPROVAL_FAILED")
    BY <1>3, <1>4, <1>6, <2>1
       DEF MovesTo, Status, Unreviewed, Reviewed, Accepted, BeingApproved
  <2>3. ~BeingSubmitted(r)
    BY <1>6 DEF BeingSubmitted, BeingApproved
  <2>4. /\ SetStatus(r, "APPROVAL_FAILED")
        /\ Give(ToProjections(RequestEventOf("AccessRequestApprovalFailed",
                                             r, NoPerson, Unset)))
        /\ UNCHANGED <<access, applied>>
    BY <1>6, <2>3 DEF OnAccessGrantNotActive
  <2>. QED BY <1>1, <1>2, <1>3, <2>2, <2>4, MoveAndTell
<1>7. CASE ~BeingSubmitted(r) /\ ~BeingApproved(r)
  BY <1>1, <1>2, <1>7, DropKeeps
     DEF OnAccessGrantNotActive, Harmless, ChangeEvents
<1>. QED BY <1>5, <1>6, <1>7

LEMMA PendingUnapplied ==
  ASSUME GInv, NEW r \in Request, Pending(r),
         NEW status \in {"DENIED", "CANCELED"}
  PROVE  r \notin applied /\ MovesTo(r, status)
<1>1. r \notin applied
  BY DEF GInv, Settling, Approving, Pending
<1>. QED BY <1>1
         DEF MovesTo, Status, Unreviewed, Reviewed, Accepted, Pending

LEMMA DenyAccessRequestKeeps ==
  ASSUME IInv, IInv', GInv, DenyAccessRequest PROVE GInv'
<1>. DEFINE r == received.request
            accepted == Pending(r) /\ Eligible(r, received.person)
<1>1. Receives("AccessRequest", {"DenyAccessRequest"}) /\ UNCHANGED now
  BY DEF DenyAccessRequest
<1>2. received \in DecisionCommand /\ received.type = "DenyAccessRequest"
  BY <1>1, Handled, SignalTypes
<1>3. r \in Request
  BY <1>2 DEF DecisionCommand
<1>4. CASE accepted
  <2>1. MovesTo(r, "DENIED")
    BY <1>3, <1>4, PendingUnapplied
  <2>. QED BY <1>1, <1>2, <1>3, <1>4, <2>1, MoveAndTell
           DEF DenyAccessRequest
<1>5. CASE ~accepted
  BY <1>1, <1>2, <1>5, DropKeeps
     DEF DenyAccessRequest, Harmless, ChangeEvents
<1>. QED BY <1>4, <1>5

LEMMA CancelAccessRequestKeeps ==
  ASSUME IInv, IInv', GInv, CancelAccessRequest PROVE GInv'
<1>. DEFINE r == received.request
<1>1. Receives("AccessRequest", {"CancelAccessRequest"}) /\ UNCHANGED now
  BY DEF CancelAccessRequest
<1>2. received \in DecisionCommand /\ received.type = "CancelAccessRequest"
  BY <1>1, Handled, SignalTypes
<1>3. r \in Request
  BY <1>2 DEF DecisionCommand
<1>4. CASE Pending(r)
  <2>1. MovesTo(r, "CANCELED")
    BY <1>3, <1>4, PendingUnapplied
  <2>. QED BY <1>1, <1>2, <1>3, <1>4, <2>1, MoveAndTell
           DEF CancelAccessRequest
<1>5. CASE ~Pending(r)
  BY <1>1, <1>2, <1>5, DropKeeps
     DEF CancelAccessRequest, Harmless, ChangeEvents
<1>. QED BY <1>4, <1>5

(* Until its approval is accepted, nothing grants what a request asks for. *)
LEMMA NotYetGranted ==
  ASSUME IInv, GInv, NEW r \in Request, Pending(r)
  PROVE  Starts(r) = {} /\ Creates(r) = {} /\ r \notin applied
<1>1. ~Accepted(r) /\ ~Approving(r)
  BY DEF Pending, Accepted, Approving
<1>2. ASSUME NEW i \in Starts(r) PROVE FALSE
  <2>1. /\ inbox[i].signal \in InFlight /\ inbox[i].signal.request = r
        /\ inbox[i].signal.type = "AccessRequestApprovalStarted"
    BY DEF Starts, Places, Is, InFlight
  <2>. QED BY <1>1, <2>1 DEF GInv, Saying, Faithful
<1>3. ASSUME NEW i \in Creates(r) PROVE FALSE
  <2>1. /\ inbox[i].signal \in InFlight /\ inbox[i].signal.request = r
        /\ inbox[i].signal.type = "CreateAccessGrant"
    BY DEF Creates, Places, Is, InFlight
  <2>. QED BY <1>1, <2>1 DEF IInv, Justified
<1>. QED BY <1>1, <1>2, <1>3 DEF GInv, Settling

LEMMA ApprovalAccepted ==
  ASSUME IInv, IInv', GInv, NEW types, Receives("AccessRequest", types),
         received.type = "ApproveAccessRequest",
         NEW r \in Request, r = received.request, Pending(r),
         SetStatus(r, "APPROVAL_STARTED"), NEW event,
         event.type = "AccessRequestApprovalStarted", event.request = r,
         event.snapshot = request[r].snapshot,
         Give(<<To("AccessRequest", event), To("RequestView", event)>>),
         UNCHANGED <<now, access, applied>>
  PROVE  GInv'
<1>. DEFINE m == To("AccessRequest", event)
            n == To("RequestView", event)
<1>0. /\ inbox # <<>> /\ TypeOK /\ TypeOK' /\ now <= now' /\ Give(<<m, n>>)
      /\ m.signal = event /\ n.signal = event
      /\ m.to = "AccessRequest" /\ n.to = "RequestView"
  BY DEF Receives, IInv, TypeOK, Time, To
<1>. HIDE DEF m, n
<1>1. PICK left \in {0, 1} : Came(left, <<m, n>>)
  BY <1>0, GiveTwo
<1>2. <<m, n>> \in Seq(Message) /\ SignalsOf(<<m, n>>) = {event}
  BY <1>0, GiveTwo, ShortSequences
<1>3. /\ request'[r].status = "APPROVAL_STARTED"
      /\ request'[r].snapshot = request[r].snapshot
      /\ \A q \in Request \ {r} : request'[q] = request[q]
  BY <1>0 DEF SetStatus, TypeOK, ProcessState
<1>4. /\ 1 .. Len(<<m, n>>) = {1, 2}
      /\ <<m, n>>[1] = m /\ <<m, n>>[2] = n
  OBVIOUS
<1>5. ASSUME NEW q \in Request
      PROVE  /\ GivenCreates(<<m, n>>, q) = {}
             /\ GivenChanges(<<m, n>>, q) = {}
             /\ GivenChecks(<<m, n>>, q) = {}
             /\ GivenRefusals(<<m, n>>, q) = {}
             /\ \A j \in GivenStarts(<<m, n>>, q) : j = 1 /\ q = r
  BY <1>0, <1>4 DEF GivenStarts, GivenCreates, GivenChanges, GivenChecks,
                    GivenRefusals, Given, Is, ChangeEvents
<1>6. ASSUME NEW q \in Request PROVE 1 \notin Starts(q) /\ 1 \notin Changes(q)
  BY <1>0, HeadPlaces DEF ChangeEvents
<1>7. Starts(r) = {} /\ Creates(r) = {} /\ r \notin applied
  BY NotYetGranted
<1>8. \A s \in SignalsOf(<<m, n>>) : Faithful(s)'
  BY <1>2, <1>3 DEF Faithful, Accepted
<1>9. Reviewed(r)
  BY DEF Reviewed, Pending
<1>10. ASSUME NEW q \in Request PROVE Onward(q) /\ Reviews(q)
  <2>1. CASE q = r
    BY <1>3, <1>9, <2>1 DEF Onward, Reviews, Reviewed, Accepted, SaysExtension
  <2>2. CASE q # r
    BY <1>3, <2>2 DEF Onward, Reviews, Reviewed, Accepted, SaysExtension
  <2>. QED BY <2>1, <2>2
<1>11. ASSUME NEW q \in Request PROVE Orderly(<<m, n>>, q)
  <2>1. request'[q].snapshot = request[q].snapshot
    BY <1>3
  <2>. QED BY <1>5, <1>6, <1>7, <2>1 DEF Orderly, SaysNew
<1>12. ASSUME NEW q \in Request PROVE Answering(<<m, n>>, q)
  BY <1>5 DEF Answering
<1>13. ASSUME NEW q \in Request PROVE Settles(left, <<m, n>>, q)
  <2>1. CASE q = r
    BY <1>3, <1>5, <1>7, <2>1 DEF Settles
  <2>2. CASE q # r
    <3>1. Settling(q)
      BY DEF GInv
    <3>2. request[q].status = "APPROVAL_FAILED" => Reviewed(q)
      BY DEF Reviewed
    <3>. QED BY <1>3, <1>5, <1>6, <2>2, <3>1, <3>2
             DEF Settles, Settling, Approving
  <2>. QED BY <2>1, <2>2
<1>14. Distinct' /\ GrantsKept
  BY NothingNew DEF GInv, Distinct
<1>. QED BY <1>0, <1>1, <1>2, <1>8, <1>10, <1>11, <1>12, <1>13, <1>14,
            GrantsStep

LEMMA ApproveAccessRequestKeeps ==
  ASSUME IInv, IInv', GInv, ApproveAccessRequest PROVE GInv'
<1>. DEFINE r == received.request
            accepted == Pending(r) /\ Eligible(r, received.person)
            event == RequestEventOf("AccessRequestApprovalStarted", r,
                                    received.person, now)
<1>1. Receives("AccessRequest", {"ApproveAccessRequest"}) /\ UNCHANGED now
  BY DEF ApproveAccessRequest
<1>2. received \in DecisionCommand /\ received.type = "ApproveAccessRequest"
  BY <1>1, Handled, SignalTypes
<1>3. r \in Request
  BY <1>2 DEF DecisionCommand
<1>4. CASE accepted
  <2>1. /\ SetStatus(r, "APPROVAL_STARTED") /\ UNCHANGED <<access, applied>>
        /\ Give(<<To("AccessRequest", event), To("RequestView", event)>>)
    BY <1>4 DEF ApproveAccessRequest
  <2>2. /\ event.type = "AccessRequestApprovalStarted"
        /\ event.request = r /\ event.snapshot = request[r].snapshot
    BY DEF RequestEventOf
  <2>. HIDE DEF event
  <2>. QED BY <1>1, <1>2, <1>3, <1>4, <2>1, <2>2, ApprovalAccepted
<1>5. CASE ~accepted
  BY <1>1, <1>2, <1>5, DropKeeps
     DEF ApproveAccessRequest, Harmless, ChangeEvents
<1>. QED BY <1>4, <1>5

(* The grant an approval creates ends as was asked, and lasts no longer.   *)
LEMMA CreationFaithful ==
  ASSUME NEW event, event.snapshot = request[event.request].snapshot,
         event.snapshot.period \in Period, event.whenDecided \in Time,
         LengthOf(event.snapshot.period)
           <= MaximumDuration[event.snapshot.resource],
         MaximumDuration[event.snapshot.resource] \in Nat
  PROVE  Faithful(Creation(event))
<1>. DEFINE period == event.snapshot.period
            span == GrantedInterval(period, event.whenDecided)
<1>1. period \in ImmediatePeriod =>
        /\ period.kind = "immediate" /\ period.duration \in Nat
        /\ span.end = span.start + period.duration
        /\ span.end - span.start = period.duration
  BY DEF ImmediatePeriod, Time, GrantedInterval, EffectiveInterval,
         RequestedInterval, AccessRemains
<1>2. period \in ScheduledPeriod =>
        /\ period.kind = "scheduled"
        /\ span.end = period.end
        /\ span.end - span.start <= period.end - period.start
        /\ span.end - span.start \in Int /\ period.end - period.start \in Int
  BY DEF ScheduledPeriod, Time, GrantedInterval, EffectiveInterval,
         RequestedInterval, AccessRemains
<1>3. /\ EndAsRequested([id |-> event.request, start |-> span.start,
                         end |-> span.end])
      /\ span.end - span.start <= MaximumDuration[event.snapshot.resource]
  <2>. HIDE DEF span
  <2>. QED BY <1>1, <1>2 DEF Period, EndAsRequested, LengthOf
<1>4. /\ Creation(event).type = "CreateAccessGrant"
      /\ Creation(event).request = event.request
      /\ Creation(event).start = span.start /\ Creation(event).end = span.end
  BY DEF Creation
<1>. HIDE DEF span
<1>. QED BY <1>3, <1>4 DEF Faithful

(* The command to create the grant takes the place of the approval.        *)
LEMMA CreationGiven ==
  ASSUME IInv, IInv', GInv, NEW types, Receives("AccessRequest", types),
         received.type = "AccessRequestApprovalStarted",
         NEW r \in Request, r = received.request,
         NEW command, command.type = "CreateAccessGrant",
         command.request = r, Faithful(command),
         Give(<<To("ResourceAccess", command)>>),
         UNCHANGED <<now, request, access, applied>>
  PROVE  GInv'
<1>. DEFINE m == To("ResourceAccess", command)
<1>0. /\ inbox # <<>> /\ TypeOK /\ TypeOK' /\ now <= now' /\ Give(<<m>>)
      /\ m.signal = command /\ m.to = "ResourceAccess"
  BY DEF Receives, IInv, TypeOK, Time, To
<1>. HIDE DEF m
<1>1. PICK left \in {0, 1} : Came(left, <<m>>)
  BY <1>0, GiveOne
<1>2. <<m>> \in Seq(Message) /\ SignalsOf(<<m>>) = {command}
  BY <1>0, GiveOne, ShortSequences
<1>3. Len(<<m>>) = 1 /\ <<m>>[1] = m
  OBVIOUS
<1>4. ASSUME NEW q \in Request
      PROVE  /\ GivenStarts(<<m>>, q) = {}
             /\ GivenChanges(<<m>>, q) = {}
             /\ GivenChecks(<<m>>, q) = {}
             /\ GivenRefusals(<<m>>, q) = {}
             /\ GivenCreates(<<m>>, q) = IF q = r THEN {1} ELSE {}
  BY <1>0, <1>3 DEF GivenStarts, GivenCreates, GivenChanges, GivenChecks,
                    GivenRefusals, Given, Is, ChangeEvents
<1>5. ASSUME NEW q \in Request
      PROVE  (1 \in Starts(q) <=> q = r) /\ 1 \notin Changes(q)
  BY <1>0, HeadPlaces DEF ChangeEvents
<1>6. \A s \in SignalsOf(<<m>>) : Faithful(s)'
  BY <1>2, SameFaith
<1>7. ASSUME NEW q \in Request PROVE Orderly(<<m>>, q)
  BY <1>3, <1>4, <1>5 DEF Orderly, SaysNew
<1>8. ASSUME NEW q \in Request PROVE Answering(<<m>>, q)
  BY <1>4 DEF Answering
<1>9. \A q \in Request : Settles(left, <<m>>, q)
  BY <1>4, <1>5, SameSettles
<1>10. Distinct' /\ GrantsKept
  BY NothingNew DEF GInv, Distinct
<1>. QED BY <1>0, <1>1, <1>2, <1>6, <1>7, <1>8, <1>9, <1>10, SameRequests,
            GrantsStep

(* The command to extend the grant takes the place of the approval.        *)
LEMMA ExtensionGiven ==
  ASSUME IInv, IInv', GInv, NEW types, Receives("AccessRequest", types),
         received.type = "AccessRequestApprovalStarted",
         NEW r \in Request, r = received.request, SaysExtension(r),
         NEW command, command.type = "ExtendAccessGrant", Faithful(command),
         Give(<<To("ResourceAccess", command)>>),
         UNCHANGED <<now, request, access, applied>>
  PROVE  GInv'
<1>. DEFINE m == To("ResourceAccess", command)
<1>0. /\ inbox # <<>> /\ TypeOK /\ TypeOK' /\ now <= now' /\ Give(<<m>>)
      /\ m.signal = command
  BY DEF Receives, IInv, TypeOK, Time, To
<1>. HIDE DEF m
<1>1. PICK left \in {0, 1} : Came(left, <<m>>)
  BY <1>0, GiveOne
<1>2. <<m>> \in Seq(Message) /\ SignalsOf(<<m>>) = {command}
  BY <1>0, GiveOne, ShortSequences
<1>3. Light(<<m>>)
  BY <1>0, LightOne DEF Weighty, ChangeEvents
<1>4. ASSUME NEW q \in Request
      PROVE  (1 \in Starts(q) <=> q = r) /\ 1 \notin Changes(q)
  BY <1>0, HeadPlaces DEF ChangeEvents
<1>5. ASSUME NEW i \in Creates(r) PROVE FALSE
  <2>1. /\ inbox[i].signal \in InFlight /\ inbox[i].signal.request = r
        /\ inbox[i].signal.type = "CreateAccessGrant"
    BY DEF Creates, Places, Is, InFlight
  <2>2. request[r].snapshot \in NewSnapshot
    BY <2>1 DEF IInv, Justified
  <2>. QED BY <2>2 DEF SaysExtension, NewSnapshot, ExtensionSnapshot
<1>6. Unhurried(<<m>>)
  BY <1>4, <1>5 DEF Unhurried
<1>7. \A s \in SignalsOf(<<m>>) : Faithful(s)
  BY <1>2
<1>. QED BY <1>0, <1>1, <1>2, <1>3, <1>4, <1>6, <1>7, IdleStep

LEMMA OnAccessRequestApprovalStartedKeeps ==
  ASSUME IInv, IInv', GInv, OnAccessRequestApprovalStarted PROVE GInv'
<1>. DEFINE e == received
            r == e.request
<1>1. /\ Receives("AccessRequest", {"AccessRequestApprovalStarted"})
      /\ UNCHANGED <<now, request, access, applied>>
  BY DEF OnAccessRequestApprovalStarted, entities
<1>2. /\ e \in RequestEvent /\ e \in InFlight /\ Justified(e)
      /\ e.type = "AccessRequestApprovalStarted"
  BY <1>1, Handled, ReceivedInFlight, SignalTypes DEF IInv
<1>3. /\ r \in Request /\ e.snapshot \in Snapshot
      /\ Accepted(r) /\ e.snapshot = request[r].snapshot
  BY <1>2 DEF RequestEvent, GInv, Saying, Faithful
<1>4. CASE e.snapshot.kind = "new"
  <2>1. SaysNew(r) /\ e.whenDecided \in Time /\ Reviewed(r)
    BY <1>2, <1>3, <1>4
       DEF Justified, SaysNew, Snapshot, ExtensionSnapshot, Approving,
           Reviewed
  <2>2. /\ e.snapshot.period \in Period
        /\ MaximumDuration[e.snapshot.resource] \in Nat
    BY <1>3, <2>1, ConstantsAssumption DEF SaysNew, NewSnapshot
  <2>3. LengthOf(e.snapshot.period) <= MaximumDuration[e.snapshot.resource]
    BY <1>3, <2>1 DEF GInv, Saying, Fits
  <2>4. Faithful(Creation(e))
    <3>. HIDE DEF e
    <3>. QED BY <1>3, <2>1, <2>2, <2>3, CreationFaithful
  <2>5. /\ Creation(e).type = "CreateAccessGrant" /\ Creation(e).request = r
    BY DEF Creation
  <2>6. Give(<<To("ResourceAccess", Creation(e))>>)
    BY <1>4 DEF OnAccessRequestApprovalStarted
  <2>. QED BY <1>1, <1>2, <1>3, <2>4, <2>5, <2>6, CreationGiven
<1>5. CASE e.snapshot.kind # "new"
  <2>1. SaysExtension(r)
    BY <1>3, <1>5 DEF SaysExtension, Snapshot, NewSnapshot
  <2>2. /\ Extension(e).type = "ExtendAccessGrant" /\ Faithful(Extension(e))
    BY <1>3 DEF Extension, Faithful
  <2>3. Give(<<To("ResourceAccess", Extension(e))>>)
    BY <1>5 DEF OnAccessRequestApprovalStarted
  <2>. QED BY <1>1, <1>2, <1>3, <2>1, <2>2, <2>3, ExtensionGiven
<1>. QED BY <1>4, <1>5

(* A submission is stored.                                                 *)
LEMMA StoreKeeps ==
  ASSUME IInv, IInv', GInv, NEW types, Receives("AccessRequest", types),
         received.type \in {"SubmitAccessRequest",
                            "SubmitAccessExtensionRequest"},
         NEW r \in Request, Unclaimed(r), NEW snapshot, Store(r, snapshot),
         NEW event, Give(<<To("AccessRequest", event)>>),
         event.type \in {"AccessRequestSubmissionStarted",
                         "AccessExtensionRequestSubmissionStarted"},
         UNCHANGED <<now, access, applied>>
  PROVE  GInv'
<1>. DEFINE m == To("AccessRequest", event)
<1>0. /\ inbox # <<>> /\ TypeOK /\ TypeOK' /\ now <= now' /\ Give(<<m>>)
      /\ m.signal = event
  BY DEF Receives, IInv, TypeOK, Time, To
<1>. HIDE DEF m
<1>1. PICK left \in {0, 1} : Came(left, <<m>>)
  BY <1>0, GiveOne
<1>2. <<m>> \in Seq(Message) /\ SignalsOf(<<m>>) = {event}
  BY <1>0, GiveOne, ShortSequences
<1>3. Light(<<m>>)
  BY <1>0, LightOne DEF Weighty, ChangeEvents
<1>4. \A q \in Request : 1 \notin Starts(q) /\ 1 \notin Changes(q)
  BY <1>0, HeadPlaces DEF ChangeEvents
<1>5. Unhurried(<<m>>)
  BY <1>4 DEF Unhurried
<1>6. \A s \in SignalsOf(<<m>>) : Faithful(s)'
  BY <1>2 DEF Faithful
<1>7. /\ request'[r].status = "SUBMISSION_STARTED"
      /\ \A q \in Request \ {r} : request'[q] = request[q]
  BY <1>0 DEF Store, TypeOK
<1>8. /\ ~SaysNew(r) /\ ~SaysExtension(r) /\ ~Reviewed(r) /\ ~Accepted(r)
      /\ r \notin applied
  <2>1. ~SaysNew(r) /\ ~SaysExtension(r)
    BY DEF Unclaimed, NoSnapshot, SaysNew, SaysExtension, NewSnapshot,
           ExtensionSnapshot
  <2>. QED BY <2>1
           DEF Unclaimed, Reviewed, Accepted, GInv, Settling, Approving
<1>9. ASSUME NEW q \in Request
      PROVE  Onward(q) /\ Reviews(q) /\ Settles(left, <<m>>, q)
  <2>1. GivenChanges(<<m>>, q) = {}
    BY <1>3, LightGivesNone
  <2>2. CASE q = r
    BY <1>7, <1>8, <2>1, <2>2 DEF Onward, Reviews, Reviewed, Settles
  <2>3. CASE q # r
    <3>1. Settling(q)
      BY DEF GInv
    <3>2. request[q].status = "APPROVAL_FAILED" => Reviewed(q)
      BY DEF Reviewed
    <3>3. Onward(q) /\ Reviews(q)
      BY <1>7, <2>3 DEF Onward, Reviews, Reviewed, Accepted, SaysExtension
    <3>. QED BY <1>4, <1>7, <2>1, <2>3, <3>1, <3>2, <3>3
             DEF Settles, Settling, Approving
  <2>. QED BY <2>2, <2>3
<1>. QED BY <1>0, <1>1, <1>2, <1>3, <1>5, <1>6, <1>9, LightStep

LEMMA SubmitAccessRequestKeeps ==
  ASSUME IInv, IInv', GInv, SubmitAccessRequest PROVE GInv'
<1>. DEFINE c == received
            snapshot == [kind |-> "new", requester |-> c.requester,
                         resource |-> c.resource, level |-> c.level,
                         period |-> c.period]
            event == [type |-> "AccessRequestSubmissionStarted",
                      request |-> c.request, duration |-> 0]
<1>1. Receives("AccessRequest", {"SubmitAccessRequest"}) /\ UNCHANGED now
  BY DEF SubmitAccessRequest
<1>2. c \in SubmitCommand /\ c.type = "SubmitAccessRequest"
  BY <1>1, Handled, SignalTypes
<1>3. CASE Submittable(c)
  <2>1. /\ Unclaimed(c.request) /\ Store(c.request, snapshot)
        /\ Give(<<To("AccessRequest", event)>>)
        /\ UNCHANGED <<access, applied>>
    BY <1>3 DEF SubmitAccessRequest, Submittable
  <2>2. /\ c.request \in Request
        /\ event.type = "AccessRequestSubmissionStarted"
    BY <1>2 DEF SubmitCommand
  <2>. HIDE DEF snapshot, event
  <2>. QED BY <1>1, <1>2, <2>1, <2>2, StoreKeeps
<1>4. CASE ~Submittable(c)
  BY <1>1, <1>2, <1>4, DropKeeps
     DEF SubmitAccessRequest, Harmless, ChangeEvents
<1>. QED BY <1>3, <1>4

LEMMA SubmitAccessExtensionRequestKeeps ==
  ASSUME IInv, IInv', GInv, SubmitAccessExtensionRequest PROVE GInv'
<1>. DEFINE c == received
            snapshot == [kind |-> "extension", requester |-> c.requester,
                         resource |-> c.resource, grant |-> c.grant,
                         proposedEnd |-> Unset]
            event == [type |-> "AccessExtensionRequestSubmissionStarted",
                      request |-> c.request, duration |-> c.duration]
<1>1. /\ Receives("AccessRequest", {"SubmitAccessExtensionRequest"})
      /\ UNCHANGED now
  BY DEF SubmitAccessExtensionRequest
<1>2. c \in SubmitExtensionCommand /\ c.type = "SubmitAccessExtensionRequest"
  BY <1>1, Handled, SignalTypes
<1>3. CASE ExtensionSubmittable(c)
  <2>1. /\ Unclaimed(c.request) /\ Store(c.request, snapshot)
        /\ Give(<<To("AccessRequest", event)>>)
        /\ UNCHANGED <<access, applied>>
    BY <1>3 DEF SubmitAccessExtensionRequest, ExtensionSubmittable
  <2>2. /\ c.request \in Request
        /\ event.type = "AccessExtensionRequestSubmissionStarted"
    BY <1>2 DEF SubmitExtensionCommand
  <2>. HIDE DEF snapshot, event
  <2>. QED BY <1>1, <1>2, <2>1, <2>2, StoreKeeps
<1>4. CASE ~ExtensionSubmittable(c)
  BY <1>1, <1>2, <1>4, DropKeeps
     DEF SubmitAccessExtensionRequest, Harmless, ChangeEvents
<1>. QED BY <1>3, <1>4

(* An extension is settled on the end that was checked.                    *)
LEMMA ExtensionChecked ==
  ASSUME IInv, IInv', GInv, NEW types, Receives("AccessRequest", types),
         received.type = "RequestedExtensionChecked",
         NEW r \in Request, r = received.request, SaysExtension(r),
         BeingSubmitted(r),
         NEW end \in TimeOrUnset, end = received.proposedEnd,
         NEW event, event.type = "AccessExtensionRequestSubmitted",
         event.snapshot = [request[r].snapshot EXCEPT !.proposedEnd = end],
         request' = [request EXCEPT ![r] =
           [@ EXCEPT !.status = "PENDING", !.snapshot = event.snapshot]],
         Give(ToProjections(event)), UNCHANGED <<now, access, applied>>
  PROVE  GInv'
<1>0. event.type \notin {"CheckRequestedAccess", "RequestedAccessChecked",
        "CheckRequestedExtension", "AccessRequestApprovalStarted",
        "CreateAccessGrant", "ExtendAccessGrant"}
  OBVIOUS
<1>1. now <= now' /\ inbox # <<>> /\ TypeOK
  BY DEF Receives, IInv, TypeOK, Time
<1>2. 1 \in Checks(r) /\ end = inbox[1].signal.proposedEnd
  BY <1>1, HeadPlaces, HeadIs
<1>3. PICK messages \in Seq(Message), left \in {0, 1} :
           /\ Came(left, messages) /\ Light(messages)
           /\ \A s \in SignalsOf(messages) : Faithful(s)'
  BY <1>0, <1>1, TellingIsLight
<1>4. \A q \in Request : 1 \notin Starts(q) /\ 1 \notin Changes(q)
  BY <1>1, HeadPlaces DEF ChangeEvents
<1>5. Unhurried(messages)
  BY <1>4 DEF Unhurried
<1>6. /\ request'[r].status = "PENDING"
      /\ request'[r].snapshot
           = [request[r].snapshot EXCEPT !.proposedEnd = end]
      /\ \A q \in Request \ {r} : request'[q] = request[q]
  <2>1. /\ request \in [Request -> ProcessState]
        /\ request[r] \in ProcessState
    BY <1>1 DEF TypeOK
  <2>2. /\ request'[r] = [request[r] EXCEPT !.status = "PENDING",
                                            !.snapshot = event.snapshot]
        /\ \A q \in Request \ {r} : request'[q] = request[q]
    BY <2>1
  <2>. DEFINE new == [request[r] EXCEPT !.status = "PENDING",
                                         !.snapshot = event.snapshot]
  <2>3. new.status = "PENDING" /\ new.snapshot = event.snapshot
    BY <2>1 DEF ProcessState
  <2>4. request'[r] = new
    BY <2>2
  <2>. HIDE DEF new
  <2>. QED BY <2>2, <2>3, <2>4
<1>7. /\ request'[r].snapshot \in ExtensionSnapshot
      /\ request'[r].snapshot.requester = request[r].snapshot.requester
      /\ request'[r].snapshot.resource = request[r].snapshot.resource
      /\ request'[r].snapshot.grant = request[r].snapshot.grant
      /\ request'[r].snapshot.proposedEnd = end
  BY <1>6 DEF SaysExtension, ExtensionSnapshot
<1>8. /\ ~Reviewed(r) /\ ~Accepted(r) /\ ~SaysNew(r) /\ ~SaysNew(r)'
      /\ r \notin applied
  BY <1>7 DEF BeingSubmitted, Reviewed, Accepted, SaysNew, SaysExtension,
              NewSnapshot, ExtensionSnapshot, GInv, Settling, Approving
<1>9. ASSUME NEW q \in Request
      PROVE  Onward(q) /\ Reviews(q) /\ Settles(left, messages, q)
  <2>1. GivenChanges(messages, q) = {}
    BY <1>3, LightGivesNone
  <2>2. CASE q = r
    <3>1. Onward(r)
      BY <1>7, <1>8 DEF Onward, SaysExtension, AccessOf
    <3>2. Reviews(r)
      BY <1>2, <1>7, <1>8 DEF Reviews
    <3>. QED BY <1>6, <1>8, <2>1, <2>2, <3>1, <3>2 DEF Settles
  <2>3. CASE q # r
    <3>1. Settling(q)
      BY DEF GInv
    <3>2. request[q].status = "APPROVAL_FAILED" => Reviewed(q)
      BY DEF Reviewed
    <3>3. Onward(q) /\ Reviews(q)
      BY <1>6, <2>3 DEF Onward, Reviews, Reviewed, Accepted, SaysExtension
    <3>. QED BY <1>4, <1>6, <2>1, <2>3, <3>1, <3>2, <3>3
             DEF Settles, Settling, Approving
  <2>. QED BY <2>2, <2>3
<1>. QED BY <1>1, <1>3, <1>5, <1>9, LightStep

LEMMA OnRequestedExtensionCheckedKeeps ==
  ASSUME IInv, IInv', GInv, OnRequestedExtensionChecked PROVE GInv'
<1>. DEFINE r == received.request
            end == received.proposedEnd
            event == [RequestEventOf("AccessExtensionRequestSubmitted", r,
                                     NoPerson, Unset)
                      EXCEPT !.snapshot.proposedEnd = end]
<1>1. /\ Receives("AccessRequest", {"RequestedExtensionChecked"})
      /\ UNCHANGED now
  BY DEF OnRequestedExtensionChecked
<1>2. /\ received \in AnswerEvent /\ Justified(received)
      /\ received.type = "RequestedExtensionChecked"
  BY <1>1, Handled, SignalTypes
<1>3. r \in Request /\ end \in TimeOrUnset /\ SaysExtension(r)
  BY <1>2 DEF AnswerEvent, Justified
<1>4. CASE ~BeingSubmitted(r)
  BY <1>1, <1>2, <1>4, DropKeeps
     DEF OnRequestedExtensionChecked, Harmless, ChangeEvents
<1>5. CASE BeingSubmitted(r)
  <2>1. /\ event.type = "AccessExtensionRequestSubmitted"
        /\ event.snapshot = [request[r].snapshot EXCEPT !.proposedEnd = end]
    BY DEF RequestEventOf
  <2>2. /\ Give(ToProjections(event)) /\ UNCHANGED <<access, applied>>
        /\ request' = [request EXCEPT ![r] =
             [@ EXCEPT !.status = "PENDING", !.snapshot = event.snapshot]]
    BY <1>5 DEF OnRequestedExtensionChecked
  <2>. HIDE DEF event, end, r
  <2>. QED BY <1>1, <1>2, <1>3, <1>5, <2>1, <2>2, ExtensionChecked DEF r, end
<1>. QED BY <1>4, <1>5

----------------------------------------------------------------------------
(* The steps outside of the shard, and the invariant. *)

LEMMA PostKeeps ==
  ASSUME IInv, IInv', GInv, NEW command \in ClientCommand, Post(command)
  PROVE  GInv'
<1>. DEFINE m == To(IF command.type = "RevokeAccessGrant"
                    THEN "ResourceAccess" ELSE "AccessRequest", command)
<1>1. /\ command \in Signal /\ command.type \in Prompts
  BY ConstantsAssumption DEF Signal, Prompts, SubmitCommand,
     SubmitExtensionCommand, DecisionCommand, RevokeCommand
<1>2. m \in Message /\ m.signal = command
  BY <1>1 DEF To, Message, Entity
<1>3. /\ inbox' = Append(inbox, m) /\ UNCHANGED <<now, entities, crashes>>
      /\ TypeOK /\ now <= now'
  BY DEF Post, IInv, TypeOK, Time
<1>. HIDE DEF m
<1>4. Came(0, <<m>>) /\ <<m>> \in Seq(Message) /\ SignalsOf(<<m>>) = {command}
  BY <1>1, <1>2, <1>3, AppendIs, ShortSequences DEF entities
<1>5. Light(<<m>>)
  BY <1>1, <1>2, LightOne DEF Prompts, Weighty, ChangeEvents
<1>6. Unhurried(<<m>>)
  BY <1>1, <1>2 DEF Unhurried
<1>7. \A s \in SignalsOf(<<m>>) : Faithful(s)
  BY <1>1, <1>4 DEF Faithful, Prompts
<1>. QED BY <1>3, <1>4, <1>5, <1>6, <1>7, IdleStep DEF entities

LEMMA QuietKeeps ==
  ASSUME IInv, IInv', GInv, UNCHANGED <<entities, inbox, crashes>>,
         now <= now'
  PROVE  GInv'
<1>1. Came(0, <<>>)
  BY NothingComes DEF IInv, entities
<1>2. <<>> \in Seq(Message) /\ Len(<<>>) = 0 /\ SignalsOf(<<>>) = {}
  BY ShortSequences
<1>3. Light(<<>>) /\ Unhurried(<<>>)
  BY <1>2 DEF Light, Unhurried
<1>. QED BY <1>1, <1>2, <1>3, IdleStep DEF entities

LEMMA GInvInit ==
  ASSUME Init PROVE GInv
<1>1. InFlight = {} /\ \A entity, types, r : Places(entity, types, r) = {}
  BY DEF Init, InFlight, Places
<1>2. ASSUME NEW r \in Request
      PROVE  /\ request[r].status = "UNSPECIFIED"
             /\ ~SaysNew(r) /\ ~SaysExtension(r)
             /\ r \notin applied /\ ~Reviewed(r)
  BY DEF Init, SaysNew, SaysExtension, Reviewed, NoSnapshot, NewSnapshot,
         ExtensionSnapshot
<1>3. \A a \in AccessId : access[a].grant = {}
  BY DEF Init, NoAccess
<1>4. Saying
  BY <1>1, <1>2 DEF Saying
<1>5. GrantsApplied /\ Distinct /\ Lasting
  BY <1>3 DEF GrantsApplied, GrantIds, Distinct, Lasting
<1>6. ASSUME NEW r \in Request
      PROVE  InTurn(r) /\ Once(r) /\ Checked(r) /\ Refused(r) /\ Settling(r)
  BY <1>1, <1>2 DEF InTurn, Once, Checked, Refused, Settling, Starts, Creates,
                    Changes
<1>. QED BY <1>4, <1>5, <1>6 DEF GInv

LEMMA GInvStep ==
  ASSUME IInv, IInv', GInv, [Next]_vars PROVE GInv'
<1>1. CASE HandleRequest
  BY <1>1, SubmitAccessRequestKeeps, SubmitAccessExtensionRequestKeeps,
     OnAccessRequestSubmissionStartedKeeps,
     OnAccessExtensionRequestSubmissionStartedKeeps,
     OnRequestedAccessCheckedKeeps, OnRequestedExtensionCheckedKeeps,
     OnSubmissionRejectedKeeps, ApproveAccessRequestKeeps,
     DenyAccessRequestKeeps, CancelAccessRequestKeeps,
     OnAccessRequestApprovalStartedKeeps, OnGrantChangedKeeps,
     OnAccessGrantNotActiveKeeps DEF HandleRequest
<1>2. CASE HandleAccess
  BY <1>2, CheckRequestedAccessKeeps, CheckRequestedExtensionKeeps,
     CreateAccessGrantKeeps, ExtendAccessGrantKeeps, RevokeAccessGrantKeeps
     DEF HandleAccess
<1>3. CASE Project
  BY <1>3, ProjectKeeps
<1>4. CASE \E command \in ClientCommand : Post(command)
  BY <1>4, PostKeeps
<1>5. CASE Tick \/ (\E resource \in Resource : ApplyPolicy(resource))
           \/ UNCHANGED vars
  <2>1. now <= now' /\ UNCHANGED <<entities, inbox, crashes>>
    BY <1>5 DEF Tick, ApplyPolicy, vars, IInv, TypeOK, Time
  <2>. QED BY <2>1, QuietKeeps
<1>. QED BY <1>1, <1>2, <1>3, <1>4, <1>5 DEF Next, Deliver

(* The inductive invariant holds in every reachable state.                 *)
THEOREM GrantsInvariance == Spec => [](IInv /\ GInv)
<1>1. Init => IInv /\ GInv
  BY IInvInit, GInvInit
<1>2. IInv /\ GInv /\ [Next]_vars => IInv' /\ GInv'
  BY IInvStep, GInvStep
<1>. QED BY <1>1, <1>2, PTL DEF Spec

(* A request counts as approved only when its grant was created or         *)
(* extended, and nothing is granted for a request that is undecided,       *)
(* denied, canceled or failed (onAccessGrantCreated, onAccessGrantExtended,*)
(* onAccessGrantNotActive), also when a message is handled again.          *)
THEOREM ApprovalsTakeEffect == Spec => []EffectsFollowApprovals
<1>1. IInv /\ GInv => EffectsFollowApprovals
  BY DEF GInv, Settling, EffectsFollowApprovals
<1>. QED BY <1>1, GrantsInvariance, PTL

(* However often a grant is extended, it never lasts longer in total than  *)
(* its resource permits (checkExtension, check).                           *)
THEOREM LifetimesStayCapped == Spec => []LifetimeCapped
<1>1. ASSUME IInv, GInv PROVE LifetimeCapped
  <2>1. ASSUME NEW a \in AccessId, NEW g \in access[a].grant
        PROVE  ~LongerThan(g, MaximumDuration[a.resource])
    <3>1. g.end - g.start <= MaximumDuration[a.resource]
      BY <1>1 DEF GInv, Lasting, Lasts
    <3>2. g \in Grant
      BY <1>1 DEF IInv, TypeOK, Access
    <3>3. g.end \in Nat /\ g.start \in Nat
      BY <3>2 DEF Grant, Time
    <3>4. MaximumDuration[a.resource] \in Nat
      BY ConstantsAssumption DEF AccessId
    <3>. QED BY <3>1, <3>3, <3>4 DEF LongerThan
  <2>. QED BY <2>1 DEF LifetimeCapped
<1>. QED BY <1>1, GrantsInvariance, PTL

(* A grant ends when its request asked for, or when an approved extension  *)
(* of it proposed (create, extend).                                        *)
THEOREM GrantEndsStayApproved == Spec => []GrantEndsAreApproved
<1>1. ASSUME IInv, GInv PROVE GrantEndsAreApproved
  <2>1. \A r \in applied : r \in Request /\ Approving(r)
    BY <1>1 DEF IInv, TypeOK, GInv, Settling
  <2>. QED BY <1>1, <2>1 DEF GInv, Lasting, Lasts, GrantEndsAreApproved,
                            ExtendedTo
<1>. QED BY <1>1, GrantsInvariance, PTL

----------------------------------------------------------------------------
(* The process implements its abstract lifecycle. *)

LEMMA StatusMoves ==
  ASSUME IInv, NEW r \in Request, NEW from, NEW to,
         request[r].status = from, request'[r].status = to,
         \A q \in Request \ {r} : request'[q] = request[q],
         UNCHANGED applied
  PROVE  Lifecycle!Move(r, from, to)
BY DEF Lifecycle!Move

LEMMA MoveIs ==
  ASSUME IInv, NEW r \in Request, NEW to, SetStatus(r, to)
  PROVE  /\ request'[r].status = to
         /\ \A q \in Request \ {r} : request'[q] = request[q]
BY DEF IInv, TypeOK, ProcessState, SetStatus

LEMMA SameLifecycle ==
  ASSUME UNCHANGED <<request, applied>>
  PROVE  UNCHANGED Lifecycle!lifecycle
BY DEF Lifecycle!lifecycle

(* A grant is changed for a request whose approval is under way, or it was *)
(* changed for this request before.                                        *)
LEMMA EffectMaps ==
  ASSUME GInv, GInv', NEW r \in Request, applied' = applied \cup {r},
         UNCHANGED request
  PROVE  Lifecycle!Apply(r) \/ UNCHANGED Lifecycle!lifecycle
<1>1. CASE r \in applied
  BY <1>1, SameLifecycle
<1>2. CASE r \notin applied
  <2>1. Approving(r) /\ request[r].status # "APPROVED"
    BY <1>2 DEF GInv, Settling, Approving
  <2>. QED BY <1>2, <2>1 DEF Approving, Lifecycle!Apply
<1>. QED BY <1>1, <1>2

LEMMA RequestMaps ==
  ASSUME IInv, GInv, GInv', HandleRequest
  PROVE  Lifecycle!Next \/ UNCHANGED Lifecycle!lifecycle
<1>. PICK r : r = received.request
  OBVIOUS
<1>1. CASE Drop \/ OnAccessRequestSubmissionStarted
           \/ OnAccessExtensionRequestSubmissionStarted
           \/ OnAccessRequestApprovalStarted
  BY <1>1, SameLifecycle
     DEF Drop, entities, OnAccessRequestSubmissionStarted,
         OnAccessExtensionRequestSubmissionStarted,
         OnAccessRequestApprovalStarted
<1>2. ASSUME NEW q \in Request, NEW snapshot, Unclaimed(q),
             Store(q, snapshot), UNCHANGED applied
      PROVE  Lifecycle!Next
  <2>1. /\ request[q].status = "UNSPECIFIED"
        /\ request'[q].status = "SUBMISSION_STARTED"
        /\ \A other \in Request \ {q} : request'[other] = request[other]
    BY <1>2 DEF Unclaimed, Store, IInv, TypeOK
  <2>2. Lifecycle!Start(q)
    BY <1>2, <2>1, StatusMoves DEF Lifecycle!Start
  <2>. QED BY <2>2 DEF Lifecycle!Next
<1>3. CASE SubmitAccessRequest
  <2>1. received.request \in Request
    BY <1>3, Handled, SignalTypes DEF SubmitAccessRequest, SubmitCommand
  <2>. QED BY <1>1, <1>2, <1>3, <2>1 DEF SubmitAccessRequest, Submittable
<1>4. CASE SubmitAccessExtensionRequest
  <2>1. received.request \in Request
    BY <1>4, Handled, SignalTypes
       DEF SubmitAccessExtensionRequest, SubmitExtensionCommand
  <2>. QED BY <1>1, <1>2, <1>4, <2>1
           DEF SubmitAccessExtensionRequest, ExtensionSubmittable
<1>5. CASE OnRequestedAccessChecked \/ OnRequestedExtensionChecked
           \/ OnSubmissionRejected \/ OnAccessGrantNotActive
  <2>1. r \in Request
    BY <1>5, Handled, SignalTypes
       DEF OnRequestedAccessChecked, OnRequestedExtensionChecked,
           OnSubmissionRejected, OnAccessGrantNotActive, AnswerEvent
  <2>2. CASE BeingSubmitted(r) /\ SetStatus(r, "PENDING")
             /\ UNCHANGED applied
    <3>1. Lifecycle!Accept(r)
      BY <2>1, <2>2, MoveIs, StatusMoves DEF Lifecycle!Accept, BeingSubmitted
    <3>. QED BY <2>1, <3>1 DEF Lifecycle!Next
  <2>3. CASE BeingSubmitted(r) /\ SetStatus(r, "SUBMISSION_FAILED")
             /\ UNCHANGED applied
    <3>1. Lifecycle!Refuse(r)
      BY <2>1, <2>3, MoveIs, StatusMoves DEF Lifecycle!Refuse, BeingSubmitted
    <3>. QED BY <2>1, <3>1 DEF Lifecycle!Next
  <2>4. CASE BeingApproved(r) /\ SetStatus(r, "APPROVAL_FAILED")
             /\ UNCHANGED applied
    <3>1. r \notin applied
      BY <2>1, <2>4, MoveIs DEF GInv, Settling, Approving
    <3>2. Lifecycle!Abandon(r)
      BY <2>1, <2>4, <3>1, MoveIs, StatusMoves
         DEF Lifecycle!Abandon, BeingApproved
    <3>. QED BY <2>1, <3>2 DEF Lifecycle!Next
  <2>5. ASSUME NEW snapshot, BeingSubmitted(r), UNCHANGED applied,
               request' = [request EXCEPT ![r] =
                 [@ EXCEPT !.status = "PENDING", !.snapshot = snapshot]]
        PROVE  Lifecycle!Next
    <3>1. /\ request'[r].status = "PENDING"
          /\ \A q \in Request \ {r} : request'[q] = request[q]
      BY <2>1, <2>5 DEF IInv, TypeOK, ProcessState
    <3>2. Lifecycle!Accept(r)
      BY <2>1, <2>5, <3>1, StatusMoves DEF Lifecycle!Accept, BeingSubmitted
    <3>. QED BY <2>1, <3>2 DEF Lifecycle!Next
  <2>. QED BY <1>1, <1>5, <2>2, <2>3, <2>4, <2>5
           DEF OnRequestedAccessChecked, OnRequestedExtensionChecked,
               OnSubmissionRejected, OnAccessGrantNotActive
<1>6. CASE ApproveAccessRequest \/ DenyAccessRequest \/ CancelAccessRequest
  <2>1. r \in Request
    BY <1>6, Handled, SignalTypes
       DEF ApproveAccessRequest, DenyAccessRequest, CancelAccessRequest,
           DecisionCommand
  <2>2. CASE Pending(r) /\ UNCHANGED applied
             /\ \/ SetStatus(r, "APPROVAL_STARTED")
                \/ SetStatus(r, "DENIED") \/ SetStatus(r, "CANCELED")
    <3>1. Lifecycle!Approve(r) \/ Lifecycle!Deny(r) \/ Lifecycle!Cancel(r)
      BY <2>1, <2>2, MoveIs, StatusMoves
         DEF Lifecycle!Approve, Lifecycle!Deny, Lifecycle!Cancel, Pending
    <3>. QED BY <2>1, <3>1 DEF Lifecycle!Next
  <2>. QED BY <1>1, <1>6, <2>2
           DEF ApproveAccessRequest, DenyAccessRequest, CancelAccessRequest
<1>7. CASE OnGrantChanged
  <2>1. r \in Request
    BY <1>7, Handled, SignalTypes DEF OnGrantChanged, GrantEvent
  <2>2. CASE BeingApproved(r) /\ SetStatus(r, "APPROVED")
             /\ UNCHANGED applied
    <3>1. r \in applied
      BY <2>1, <2>2, MoveIs DEF GInv, Settling
    <3>2. Lifecycle!Confirm(r)
      BY <2>1, <2>2, <3>1, MoveIs, StatusMoves
         DEF Lifecycle!Confirm, BeingApproved
    <3>. QED BY <2>1, <3>2 DEF Lifecycle!Next
  <2>. QED BY <1>1, <1>7, <2>2 DEF OnGrantChanged
<1>. QED BY <1>1, <1>3, <1>4, <1>5, <1>6, <1>7 DEF HandleRequest

LEMMA AccessMaps ==
  ASSUME IInv, GInv, GInv', HandleAccess
  PROVE  Lifecycle!Next \/ UNCHANGED Lifecycle!lifecycle
<1>1. CASE UNCHANGED <<request, applied>>
  BY <1>1, SameLifecycle
<1>2. CASE CreateAccessGrant \/ ExtendAccessGrant
  <2>1. received.request \in Request
    BY <1>2, Handled, SignalTypes
       DEF CreateAccessGrant, ExtendAccessGrant, CreateGrantCommand,
           ExtendGrantCommand
  <2>2. \/ UNCHANGED <<request, applied>>
        \/ applied' = applied \cup {received.request} /\ UNCHANGED request
    BY <1>2 DEF CreateAccessGrant, ExtendAccessGrant, Drop, entities
  <2>. QED BY <1>1, <2>1, <2>2, EffectMaps DEF Lifecycle!Next
<1>3. CASE CheckRequestedAccess \/ CheckRequestedExtension
           \/ RevokeAccessGrant
  BY <1>1, <1>3 DEF CheckRequestedAccess, CheckRequestedExtension,
                    RevokeAccessGrant, Drop, entities
<1>. QED BY <1>2, <1>3 DEF HandleAccess

(* Whatever messages it takes, and however often it is given one of them, a*)
(* request is decided at most once, its grant changes only between the     *)
(* approval and its confirmation, and the approval is abandoned only when  *)
(* nothing was granted (class comment of access-request-process.ts).       *)
THEOREM RequestsFollowTheLifecycle == Spec => ImplementsLifecycle
<1>1. Init => Lifecycle!Init
  BY DEF Init, Lifecycle!Init
<1>2. ASSUME IInv, GInv, GInv', [Next]_vars
      PROVE  [Lifecycle!Next]_(Lifecycle!lifecycle)
  <2>1. CASE HandleRequest
    BY <1>2, <2>1, RequestMaps
  <2>2. CASE HandleAccess
    BY <1>2, <2>2, AccessMaps
  <2>3. CASE Project \/ Tick \/ UNCHANGED vars
             \/ (\E command \in ClientCommand : Post(command))
             \/ (\E resource \in Resource : ApplyPolicy(resource))
    <3>1. UNCHANGED <<request, applied>>
      BY <2>3 DEF Project, SeedPending, ShowApprovalStarted, Settle, Assign,
         Close, DropExtensionsOf, ShowCreated, ShowExtended, ShowRevoked,
         Tick, vars, entities, Post, ApplyPolicy
    <3>. QED BY <3>1, SameLifecycle
  <2>. QED BY <1>2, <2>1, <2>2, <2>3 DEF Next, Deliver
<1>. QED BY <1>1, <1>2, GrantsInvariance, PTL
         DEF Spec, ImplementsLifecycle, Lifecycle!Spec

----------------------------------------------------------------------------
(* What a step may do to the grants that are kept. *)

(* An extension leaves its grant with the end that was approved, as long as*)
(* the clock does not move within its handler (extend reads it twice).     *)
LEMMA ExtensionKept ==
  ASSUME ClockStep = 0, IInv, GInv, [Next]_vars,
         NEW r \in applied' \ applied, request[r].snapshot.kind = "extension"
  PROVE  \E g \in access'[AccessOf(request[r].snapshot)].grant :
           /\ g.id = request[r].snapshot.grant
           /\ g.end = request[r].snapshot.proposedEnd
<1>. DEFINE c == received
            active == ActiveGrants(access[c.id], c.grant, now)
<1>1. CreateAccessGrant \/ ExtendAccessGrant
  BY DEF Next, Deliver, HandleRequest, HandleAccess, Project,
     SubmitAccessRequest, SubmitAccessExtensionRequest,
     OnAccessRequestSubmissionStarted,
     OnAccessExtensionRequestSubmissionStarted, OnRequestedAccessChecked,
     OnRequestedExtensionChecked, OnSubmissionRejected, ApproveAccessRequest,
     DenyAccessRequest, CancelAccessRequest, OnAccessRequestApprovalStarted,
     OnGrantChanged, OnAccessGrantNotActive, CheckRequestedAccess,
     CheckRequestedExtension, RevokeAccessGrant, SeedPending,
     ShowApprovalStarted, Settle, Assign, Close, DropExtensionsOf,
     ShowCreated, ShowExtended, ShowRevoked, Post, Tick, ApplyPolicy, vars,
     entities, Drop
<1>2. CASE CreateAccessGrant
  <2>1. r = c.request
    BY <1>2 DEF CreateAccessGrant, Drop, entities
  <2>2. c.type = "CreateAccessGrant" /\ Justified(c)
    BY <1>2, Handled DEF CreateAccessGrant
  <2>. QED BY <2>1, <2>2 DEF Justified, NewSnapshot
<1>3. CASE ExtendAccessGrant
  <2>1. PICK held \in active :
          /\ ReadAgain
          /\ access' = [access EXCEPT ![c.id].grant =
               Extended(access[c.id], c.grant, c.end, now')]
          /\ applied' = applied \cup {c.request}
    BY <1>3 DEF ExtendAccessGrant, Drop, entities
  <2>2. /\ c \in InFlight /\ c \in ExtendGrantCommand
        /\ c.type = "ExtendAccessGrant"
    BY <1>3, ReceivedInFlight, SignalTypes DEF ExtendAccessGrant, IInv
  <2>3. /\ c.id = AccessOf(request[r].snapshot)
        /\ c.grant = request[r].snapshot.grant
        /\ c.end = request[r].snapshot.proposedEnd
    BY <2>1, <2>2 DEF GInv, Saying, Faithful
  <2>4. now' = now
    BY <2>1 DEF IInv, TypeOK, Time, ReadAgain
  <2>5. /\ access[c.id].grant \subseteq Grant /\ c.id \in AccessId
        /\ access'[c.id].grant
             = Extended(access[c.id], c.grant, c.end, now)
    BY <2>1, <2>2, <2>4 DEF ExtendGrantCommand, IInv, TypeOK, Access
  <2>6. /\ held \in GrantsNotEnded(access[c.id], now) /\ held.id = c.grant
        /\ held \in Grant
    BY <2>5 DEF ActiveGrants, GrantsNotEnded
  <2>7. /\ [held EXCEPT !.end = c.end] \in access'[c.id].grant
        /\ [held EXCEPT !.end = c.end].id = c.grant
        /\ [held EXCEPT !.end = c.end].end = c.end
    BY <2>5, <2>6 DEF Extended, Grant
  <2>. QED BY <2>3, <2>7
<1>. QED BY <1>1, <1>2, <1>3

(* "Each approved extension request moves a grant's end to the end it      *)
(* proposed" (grant.proto): so it does when the clock stands still within  *)
(* the handler of extend.  The run extension_lost shows that it may not    *)
(* when the grant ends between the two times the handler reads the clock.  *)
THEOREM ExtensionsAreKept ==
  ASSUME ClockStep = 0
  PROVE  Spec => ExtensionKeepsGrant
<1>1. IInv /\ GInv /\ [Next]_vars =>
        [\A r \in applied' \ applied :
           ExtensionOf(request[r].snapshot, request[r].snapshot.grant) =>
             \E g \in access'[AccessOf(request[r].snapshot)].grant :
               /\ g.id = request[r].snapshot.grant
               /\ g.end = request[r].snapshot.proposedEnd]_vars
  BY ExtensionKept DEF ExtensionOf
<1>. QED BY <1>1, GrantsInvariance, PTL DEF Spec, ExtensionKeepsGrant

(* The only step after which a grant is kept that was not kept before.     *)
LEMMA GrantIdsStep ==
  ASSUME IInv, [Next]_vars, NEW id \in KeptGrantIds', id \notin KeptGrantIds
  PROVE  CreateAccessGrant /\ id = received.request
<1>0. PICK a \in AccessId : \E g \in access'[a].grant : g.id = id
  BY DEF KeptGrantIds, GrantIds
<1>1. PICK g \in access'[a].grant : g.id = id
  BY <1>0
<1>2. \A h \in access[a].grant : h.id # id
  BY DEF KeptGrantIds, GrantIds
<1>3. access \in [AccessId -> Access]
  BY DEF IInv, TypeOK
<1>4. CASE UNCHANGED access
  BY <1>1, <1>2, <1>4
<1>5. CASE RevokeAccessGrant
  <2>1. access'[a].grant \subseteq access[a].grant
    BY <1>3, <1>5 DEF RevokeAccessGrant, Drop, entities, GrantsNotEnded,
                      Access
  <2>. QED BY <1>1, <1>2, <2>1
<1>6. CASE ExtendAccessGrant
  <2>1. received.id \in AccessId /\ received.grant \in Request
        /\ received \in ExtendGrantCommand
    BY <1>6, Handled, SignalTypes DEF ExtendAccessGrant, ExtendGrantCommand
  <2>2. \/ UNCHANGED access
        \/ \E time : access' = [access EXCEPT ![received.id].grant =
             Extended(access[received.id], received.grant, received.end,
                      time)]
    BY <1>6 DEF ExtendAccessGrant, Drop, entities
  <2>3. ASSUME NEW time,
               access' = [access EXCEPT ![received.id].grant =
                 Extended(access[received.id], received.grant, received.end,
                          time)]
        PROVE  FALSE
    <3>1. a = received.id
      BY <1>1, <1>2, <1>3, <2>3
    <3>2. PICK held \in access[a].grant :
            g = IF held.id = received.grant
                THEN [held EXCEPT !.end = received.end] ELSE held
      BY <1>1, <1>3, <2>1, <2>3, <3>1 DEF Extended, GrantsNotEnded, Access
    <3>3. held \in Grant
      BY <1>3 DEF Access
    <3>4. g.id = held.id
      BY <3>2, <3>3 DEF Grant
    <3>. QED BY <1>1, <1>2, <3>4
  <2>. QED BY <1>4, <2>2, <2>3
<1>7. CASE CreateAccessGrant
  <2>1. received.id \in AccessId
    BY <1>7, Handled, SignalTypes DEF CreateAccessGrant, CreateGrantCommand
  <2>2. \/ UNCHANGED access
        \/ \E manager, created :
             /\ created.id = received.request
             /\ access' = [access EXCEPT ![received.id] =
                  [manager |-> manager,
                   grant |-> GrantsNotEnded(access[received.id], now)
                               \cup {created}]]
    BY <1>7 DEF CreateAccessGrant, Drop, entities
  <2>3. ASSUME NEW manager, NEW created, created.id = received.request,
               access' = [access EXCEPT ![received.id] =
                  [manager |-> manager,
                   grant |-> GrantsNotEnded(access[received.id], now)
                               \cup {created}]]
        PROVE  id = received.request
    <3>1. a = received.id
      BY <1>1, <1>2, <1>3, <2>3
    <3>2. access'[a].grant
            = GrantsNotEnded(access[a], now) \cup {created}
      BY <1>3, <2>1, <2>3, <3>1
    <3>3. g = created
      BY <1>1, <1>2, <3>2 DEF GrantsNotEnded
    <3>. QED BY <1>1, <2>3, <3>3
  <2>. QED BY <1>4, <1>7, <2>2, <2>3
<1>8. UNCHANGED access \/ HandleAccess
  BY DEF Next, Deliver, HandleRequest, Project,
     SubmitAccessRequest, SubmitAccessExtensionRequest,
     OnAccessRequestSubmissionStarted,
     OnAccessExtensionRequestSubmissionStarted, OnRequestedAccessChecked,
     OnRequestedExtensionChecked, OnSubmissionRejected, ApproveAccessRequest,
     DenyAccessRequest, CancelAccessRequest, OnAccessRequestApprovalStarted,
     OnGrantChanged, OnAccessGrantNotActive, SeedPending,
     ShowApprovalStarted, Settle, Assign, Close, DropExtensionsOf,
     ShowCreated, ShowExtended, ShowRevoked, Post, Tick, ApplyPolicy, vars,
     entities, Drop
<1>. QED BY <1>4, <1>5, <1>6, <1>7, <1>8 
         DEF HandleAccess, CheckRequestedAccess, CheckRequestedExtension,
             entities

Unstopped == crashes = 0

LEMMA UnstoppedStep ==
  ASSUME MaxCrashes = 0, TypeOK, Unstopped, [Next]_vars PROVE Unstopped'
<1>1. ASSUME NEW messages, Give(messages) PROVE Unstopped'
  BY <1>1 DEF Give, Unstopped
<1>. QED BY <1>1
     DEF Unstopped, Next, Deliver, HandleRequest, HandleAccess, Project,
     SubmitAccessRequest, SubmitAccessExtensionRequest,
     OnAccessRequestSubmissionStarted,
     OnAccessExtensionRequestSubmissionStarted, OnRequestedAccessChecked,
     OnRequestedExtensionChecked, OnSubmissionRejected, ApproveAccessRequest,
     DenyAccessRequest, CancelAccessRequest, OnAccessRequestApprovalStarted,
     OnGrantChanged, OnAccessGrantNotActive, CheckRequestedAccess,
     CheckRequestedExtension, CreateAccessGrant, ExtendAccessGrant,
     RevokeAccessGrant, SeedPending,
     ShowApprovalStarted, Settle, Assign, Close, DropExtensionsOf,
     ShowCreated, ShowExtended, ShowRevoked, Post, Tick, ApplyPolicy, vars,
     entities, Drop

(* A grant that ended or was revoked is forgotten for good, as long as the *)
(* server does not stop between a handler and the removal of its message.  *)
(* The run revoked_returns shows what such a stop leads to: an approval    *)
(* that is handled twice gives the command to create its grant twice, and  *)
(* the second one comes after the revocation (which leaves no trace).      *)
THEOREM ForgottenStaysForgotten ==
  ASSUME MaxCrashes = 0
  PROVE  Spec => ForgottenForGood
<1>1. IInv /\ GInv /\ Unstopped /\ [Next]_vars =>
        [\A r \in applied :
           r \notin KeptGrantIds => r \notin KeptGrantIds']_vars
  <2>. SUFFICES ASSUME IInv, GInv, Unstopped, [Next]_vars,
                       NEW r \in applied, r \notin KeptGrantIds,
                       r \in KeptGrantIds'
                PROVE  FALSE
    OBVIOUS
  <2>1. CreateAccessGrant /\ r = received.request
    BY GrantIdsStep
  <2>2. /\ Receives("ResourceAccess", {"CreateAccessGrant"})
        /\ received.type = "CreateAccessGrant" /\ Justified(received)
    BY <2>1, Handled DEF CreateAccessGrant
  <2>3. SaysNew(r) /\ r \in Request
    BY <2>1, <2>2 DEF Justified, SaysNew, IInv, TypeOK
  <2>4. 1 \in Creates(r)
    BY <2>1, <2>2, HeadPlaces DEF IInv
  <2>. QED BY <2>3, <2>4 DEF GInv, Once, Unstopped
<1>2. IInv /\ Unstopped /\ [Next]_vars => Unstopped'
  BY UnstoppedStep DEF IInv
<1>3. Init => Unstopped
  BY DEF Init, Unstopped
<1>. QED BY <1>1, <1>2, <1>3, GrantsInvariance, PTL
         DEF Spec, ForgottenForGood
=============================================================================
