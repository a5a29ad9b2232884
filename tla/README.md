# Access Desk in TLA+

Access Desk lets the members of an organization ask for time-limited access to
resources, and the managers of those resources decide. It is built on Spine:
aggregates and process managers take commands and events from an inbox and
answer with events, rejections and further commands; projections build views
out of the events. This directory holds TLA+ models of that program, the TLC
configurations that check them on small instances, and proofs that TLAPS checks.

Paths below are relative to the repository; `RS` is
`packages/resources/server/src`.

## 1. Inventory

| Part | Code | State | Operations | Hard behaviour |
| --- | --- | --- | --- | --- |
| Access request | `RS/access/request/access-request-process.ts` | status, what was asked for, managers, one process per request | submit (first-time, extension), approve, deny, cancel; answers of the access check; answers of the grant | it asks another entity and waits: decisions, expiry and revocation happen between question and answer; an answer may be missing, late or repeated |
| Resource access | `RS/access/grant/resource-access-aggregate.ts` | the grants of one person for one resource that have not ended, the managers of the last approval | check a request or an extension, create, extend, revoke a grant | checks what is true at submission and acts at approval; forgets ended grants |
| Periods | `RS/time/interval.ts`, `RS/access/access-period.ts` | none | overlap, length, what an approval leaves of a scheduled interval | boundaries of half-open intervals, late approval |
| Request view | `RS/access/request/access-request-view-projection.ts` | what a requester follows | seed, approval started, settle | read by submissions to find duplicates: it lags |
| Decision queue | `RS/access/request/access-decision-assignment-projection.ts` | tasks of each manager | assign, close, drop extensions of a revoked grant | an extension submitted before and announced after the revocation |
| Grant view | `RS/access/grant/access-grant-view-projection.ts` | span, revocation, extensions of each grant | created, extended, revoked | repeated events |
| Organization | `RS/organization/*.ts` | members, recorded resources and their names | create, add a member, add a resource | reserves names; answers a repeated addition with the same event |
| Resource and registration | `RS/resource/*.ts` | the resource, the process that registers it, the catalog entry | register, create, delete (compensation), open and close for requests | a saga over three entities that must be undone when the name is taken, while others already see the resource |
| Audit trail | `RS/audit/*.ts` | one entry per event | 17 subscribers | an event that is handled again must not be entered twice, and two events must not be taken for one |
| Routing and delivery | `RS/resources-context.ts`, `packages/app/src/server/access-desk.ts` | one inbox per bounded context | each message to the entities it concerns, in order | rejections must reach the request whose command was rejected |
| Identity | `packages/identity/server/src` | people, reserved email addresses, external identities, memberships | sign-in links or registers a person, a manager adds a member | two contexts, one of which waits for the other inside a handler |
| Members over the network | `packages/app/src/server/organization-members.ts` | none | ask, post, wait, ask again | an unclear outcome of a command that may have been executed |
| Sessions, revoked tokens | `packages/app/src/gateway/sessions.ts`, `revoked-tokens.ts` | identifiers of revoked tokens until they expire | issue, resolve, end | expiry on several clocks; a revocation that fails or whose answer is lost; rows that another sign-out deletes |
| Watching | `packages/app/src/gateway/watching.ts` | subscriptions on behalf of browsers, notes of those about to open | create, claim, activate, cancel, expire, stop | a subscription is claimed, cancelled, expires or is signed out of while a request opens it; a restart forgets everything |
| Policy | `packages/app/src/gateway/policy.ts` | none | who may post which command and read or watch which records | a criterion has many forms, of which only some may pass |
| Access desk of the gateway | `packages/app/src/gateway/access-desk.ts`, `packages/app/src/server/client.ts` | none | sign in, look up | signing in takes several messages of Identity, is given up after ten seconds and tried again |
| Gateway routes, providers | `packages/app/src/gateway/routes`, `providers.ts` | none | HTTP endpoints | stateless |
| Storage, settings | `packages/app/src/storage.ts`, `settings.ts` | database pools | open, close, read the environment | input and output only |

### How the parts interact

The gateway lets a client's command pass and posts it to the bounded context it
belongs to. A context is delivered from *one* shard
(`packages/app/src/server/access-desk.ts:62`), so its handlers run one at a time
and in the order their messages arrived; between a handler and the handler of
the message it emitted, however, every message that was in the inbox before is
handled. That is where the interleavings come from:

    submit -> AccessRequest -- CheckRequestedAccess --> ResourceAccess
                   ^                                        |
                   +------ checked / held / too long -------+
    approve -> AccessRequest -- Create/ExtendAccessGrant --> ResourceAccess
                   ^                                        |
                   +----- created / extended / not active --+
                   |                                        |
                   +--> request view, decision queues       +--> grant view

    register -> Registration -> CreateResource -> Registration -> AddResource
             -> Organization: added, or the name is taken
             -> DeleteResource -> Registration: failed

    sign in  -> ExternalIdentity -> PersonEmail: registered or owned already
             -> Person (new, or the owner) -> ExternalIdentity: linked
    add      -> Membership -> PersonEmail -> Person (new, or the owner)
             -> Membership, which waits for Organization in the other context
             -> Person joins -> Membership: added

An event is copied to the entities it is routed to, in the order in which
`resources-context.ts` adds them to the context.

The gateway is one Node program, in which a request runs to its next `await`.
A request for a subscription goes through several of them:

    resolve the token -> session -- policy: look up the member --> claim (a note)
             -> Spine: activate -- open at the application server --> stream

    sign out -> closeFor: cancel what the session opened -> remember the token
             -> stop: drop the session's notes, abort its streams -> 200 or 503

so another request, a sign-out, an expiry or a restart may come in between.

### What makes each part correct

* A person holds access only as a manager approved it: for the person, the
  resource and the level that were asked for, until the end that was asked for
  or that an approved extension proposed, and never longer than the resource
  permits in total.
* Every request goes through one lifecycle and ends in one outcome. An outcome
  and its effect on the grant go together.
* An ended or revoked grant is forgotten for good.
* The views agree with what they show once all messages are delivered.
* A resource is registered completely or not at all, and its name is unique.
* An email address is one person, in whatever way they come in; a person is a
  member of one organization, once, and joins it only when it lists them.
* Waiting for the other context ends.
* A session is issued for the owner of the confirmed address, and a sign-in ends
  in a session unless it is given up.
* Each action the organization took has one entry in the audit trail, which says
  what happened.
* A session that was signed out is refused for good and opens nothing more.
* What a person reads or watches concerns them.

The numbered list of what can go wrong, each with its line and the properties
that would show it, is `hazards` in `PROJECT.json`.

## 2. Modules

| Module | Models | Extends |
| --- | --- | --- |
| `AccessPeriods` | points in time, intervals, the interval an approval grants | |
| `ResourceAccess` | the private queries of the access aggregate, as operators | `AccessPeriods` |
| `ShardInbox` | the inbox of one context: receiving, answering, handling a message again | |
| `AccessRequests` | requests, grants and their views in one organization | `ResourceAccess`, `ShardInbox` |
| `AccessRequestLifecycle` | the abstract specification: what a request promises its requester | |
| `ResourceRegistration` | organization, registration, resource, catalog, and their audit trail | `ShardInbox` |
| `Identity` | people, their accounts and addresses, memberships, and the addition of members in the other context | |
| `SignIn` | the gateway's sign-in, composed with Identity | `Identity` |
| `SessionTokens` | tokens of sessions and the memory of revoked ones | |
| `Policy` | which reads a member may make, and what they return | |
| `Gateway` | requests, subscriptions and sign-outs in the gateway | `SessionTokens`, `Policy` |
| `MCAccessRequests`, `MCResourceRegistration`, `MCIdentity`, `MCGateway` | commands and constants of the runs | |
| `AccessPeriodsProofs`, `AccessRequestsProofs`, `AccessGrantsProofs`, `AccessViewsProofs`, `ResourceRegistrationProofs`, `IdentityProofs`, `PolicyProofs`, `GatewayProofs` | theorems | |

### `AccessRequests`

One action per handler, named after it. `OnSubmissionRejected` stands for the
two handlers of `AccessAlreadyHeld` and `RequestedDurationTooLong`, and
`OnGrantChanged` for those of `AccessGrantCreated` and `AccessGrantExtended`,
whose bodies are the same. `Settle` and `Close` each stand for the subscribers
that share the function of that name.

| Variable | In the code |
| --- | --- |
| `request[r]` | state of `AccessRequestProcessManager` |
| `access[a]` | state of `ResourceAccessAggregate`, identified by grantee and resource |
| `requestView[r]` | `AccessRequestViewProjection` |
| `task[p]` | `AccessDecisionAssignmentProjection` of manager `p` |
| `grantView[g]` | `AccessGrantViewProjection` |
| `open[x]` | `openForRequests` of `ResourceCatalogItem`, as a submission reads it |
| `now` | `Time.currentTime()` |
| `inbox` | the inbox of the Resources context |
| `applied` | no code: remembers which requests created or extended a grant |
| `crashes` | no code: how many messages have been handled again |

What the model assumes of the code and its framework:

* A handler takes the first message of the inbox, changes its own entity and
  appends what it emits; both become visible together.
* A command that a handler rejects with a declared rejection is answered to the
  entities `resources-context.ts` routes that rejection to. A handler that
  throws a plain `Error` changes nothing and answers nobody: the message is
  dropped.
* When the server stops after a handler and before its message is removed, the
  message is handled again (`Give` leaves it at the head of the inbox and
  counts it in `crashes`). Nothing is lost: entities and inbox are in one
  database.
* A handler of a person's access may read the clock more than once. Where two
  readings decide something the model has both: `ReadAgain` lets the clock move by
  up to `ClockStep` before the second, in `CheckRequestedExtension` (whether the
  grant gives access, then whether another does), `ExtendAccessGrant` and
  `RevokeAccessGrant` (whether there is the grant, then which grants are kept).
  `revokeAccessGrant` reads it a third time, for the date in its event, which the
  model leaves out. The other handlers read it once.
* A request identifier names one request, and a first-time request and its
  grant have the same identifier, as `creation` makes them. Clients may reuse
  identifiers, and do in the runs.
* A level is a rank. Texts (justification, comments, descriptions) change
  nothing in any guard and are left out, and so are guards that only look at
  the form of a message. A resource's policy (managers, levels, maximum) is
  fixed, as no handler changes it; only being open changes.
* The queues of several managers are updated by one action. In the code each
  manager has a projection of its own and receives the same event; they stand
  next to each other in the inbox and no handler reads them.
* A catalog entry is not deleted here. `ResourceRegistration` models that.

### `AccessRequestLifecycle`

The promise of the process, over nothing but a status for each request and the
set of requests whose grant was created or extended: statuses move only along
submission, decision and application; a grant changes only while its request is
being approved; a request is `APPROVED` only after that. `AccessRequests`
implements it under the mapping `Lifecycle`, with messages that are handled
again included.

### `ResourceRegistration`

Again one action per handler; `Finish` is the end three handlers of the
registration have in common. What describes a resource is reduced to its name.
`Normalized` stands for the trimming and lower-casing that the organization
compares names by. Deleted entities keep their state and go on receiving
messages, which is what the `isDeleted` guards in the catalog are written for.
A resource is opened or closed by a client only once the catalog has shown it.

`trail` is the audit trail: `ToAudit` is an event as the trail takes it and
`RecordAction` its subscribers. An entry is found by what changed, the type of
the event and the version of what changed; it is made once and never changed, and
a further event for the same entry is ignored or fails. The version is Spine's, and
counts the changes of the entity before (`version`, `OrganizationVersion`). Who
took an action is the person the event names, or whoever gave the first command
of the chain it belongs to, so every message carries that person (`by`).

### `Identity`

| Variable | In the code (`packages/identity/server/src`, the last two in `RS`) |
| --- | --- |
| `external[a]`, `externalView[a]` | `ExternalIdentityProcessManager`, its view |
| `owner[e]` | `person` of `PersonEmailAggregate` |
| `person[p]`, `personView[p]` | `PersonAggregate`, its view |
| `membership[e]`, `membershipView[e]` | `MembershipProcessManager`, its view |
| `member[o]`, `memberView[o]` | `membership` of `OrganizationAggregate`, `member` of its view |
| `joining` | how far the call of `ReachedOrganizationMembers.add` is |
| `inbox[s]` | the inbox of each context: 0 is Identity, 1 is Resources |
| `crashes`, `failures` | no code: stops of the server, confirmations that did not come |

The module models two contexts and so has two inboxes, with `ShardFor` in place
of `shardFor`. A membership's handler that has found its person waits for
`add`, and the steps of that call are actions: `StartJoining` looks the person
up in the view of the organization, `AskOrganization` posts the command,
`Confirmed` goes on once `OrganizationMemberAdded` arrives, `WaitedInVain` is the
end of the wait when Resources has nothing left to do, and `GiveUp` is a
command refused, a connection that breaks, or a confirmation that is later than
the ten seconds the handler waits. The message stays at the head of the inbox until the handler
ends, and the shard of Identity delivers nothing in between
(`references/spine-ts.md:323`). `Stop` is a stop of the server in the middle of
the wait: the message is handled again from the start. A command that was posted
is executed in any case; `awaited` in it says whether somebody still waits for
its event, since such a subscription brings only the events its own command
causes (`references/spine-ts.md:430`).

Identity keys an address by its normalized form, and so does the model
(`Normalized`); which spelling a command used matters only where the code
normalizes. Which person is new makes no difference, and `NewPerson` chooses
one nobody is yet. A person's name is the one the account's provider gave, so
the account stands for it. Declared rejections to which nobody listens and plain
`Error`s are dropped alike.

### `SignIn`

`AccessDesk.signIn`, step by step, against `Identity`: `SignIn` looks the account
up, `LinkAccount` watches it and posts the command, `AccountShows` is the update
that shows the person, and `PersonShows` the read that finds the account with
the person. `attempt` holds how far the sign-in is and, in the end, the session;
`GiveUpSignIn` is a command refused, a failure on the way or the end of the ten
seconds, after which Identity goes on. A watch is told of changes only, as a
test of `postAndAwaitView` expects
(`packages/app/test/server/client.test.ts:154`): if an earlier command has linked
the account between the look-up and the watch, the sign-in is `"too late"` and can
only be given up. Since Identity delivers from one shard, the person's view always
shows an account before the account's view does, and the second wait never has to
wait in the model; that it looks at the view again is kept.

### `SessionTokens`, `Policy` and `Gateway`

| Variable | In the code (`packages/app/src/gateway`) |
| --- | --- |
| `now` | the clock, in seconds |
| `expires[s]` | the `exp` of a session's token; 0 before it is issued |
| `revoked[s]` | the row of `revoked_token` |
| `request[r]` | a browser's request, as Spine's `BrowserServer` handles it |
| `kept[i]` | what Spine's `DurableSubscriptionBindings` keep in storage |
| `watched[i]`, `pending[i]` | `#watched` and `#pendingActivations` of `Watching` |
| `ending[s]`, `closing[s]` | how far `Sessions.end` or `endUnresolved` is |
| `over` | no code: sessions that a sign-out ended and answered with 200; one whose token is not verified any more is answered so too, and ends nothing |
| `restarts` | no code: how often the gateway has stopped |

A session is looked at once, when its request comes in, and the policy answers
after it has asked the application server. `Resolve` is the first and `Create`,
`Claim` or `Cancel` the step after the look-up; everything may happen in
between. The bindings `Watching` extends are Spine's and are modelled from how
the code uses them (`external` in the map): operations on one subscription run one
at a time, an expiry or a cancellation ends the stream before the subscription is
forgotten, and Spine passes `activate` the person and organization of a request
but not its session. That is why `claim` leaves a note, and why the note may be
taken by another request of the same person (`watching.ts:231`).

`closeFor` cancels through the gateway's own address, with up to three attempts
for each subscription. The model lets each subscription be cancelled or left, which
is all the attempts come to. `Logout` is the revocation; it may fail before
or after the row is made. `PartlyRemembered` lists what may be left of it.

`Policy` has a query as a record of its type, its ids and its filters, with the
forms that the code tells apart: nested or not, all or either, equality or another
operator, a column or a path. What the application server returns for it is
Spine's and is modelled by what a filter means, and as *anything* where the filter
is one that the policy should never let pass. `Concerns` says which records
concern a person.

## 3. Runs

| Run | Instance | What it shows |
| --- | --- | --- |
| `access_requests` | up to 2 requests for new access, immediate or scheduled, or one and 2 extensions of different length, every decision, a revocation, clock 0..4 | grants rest on approvals and end when an approval says; an ended or revoked grant never returns; the cap on the total duration holds although each extension is checked long before it is applied; views and queues agree |
| `redelivery` | a scheduled request, an extension, every decision and a revocation, one repeated message, the clock may move by 1 inside a handler | the refinement of the lifecycle; outcomes and effects go together; no submission and no first-time approval stays under way |
| `registration` | 2 conflicting registrations, policy changes, the organization and a member, one repeated message | registration is whole and ends; the catalog and the organization's view agree; names are unique; a recorded resource is never undone; the audit trail tells what happened |
| `sign_in_and_join` | 2 accounts and 2 organizations for one address, two sign-ins, and one stop or one confirmation too late | an address is one person; joined people are listed, once, and only where they were added; sessions are the owner's; sign-ins and additions end |
| `gateway` | 2 people with a session each, 1 subscription, 2 requests at once, one restart, 7,413 forms of query | an ended session stays refused; every stream is held and stops with its session if it was claimed before; nobody reads or watches what does not concern them |

The last seven runs each show one statement of the documentation or of a comment
that the code does not keep (`findings` in `PROJECT.json` quotes them):

| Run | What happens |
| --- | --- |
| `overlapping_requests` | Two submissions for overlapping intervals are both accepted: duplicates are looked for in a view that shows a request only once it is pending. |
| `revoked_task` | An extension announced after its grant was revoked gets a task: the queue does not remember the revocation as the documentation says. |
| `stuck_approval` | Two extensions of one grant are approved and the shorter is applied last: its handler throws a plain `Error`, and the request stays in `APPROVAL_STARTED` for good. |
| `extension_lost` | The grant's end passes between the two clock readings of `extendAccessGrant`: the extension is announced and the grant is gone. |
| `revoked_returns` | An approval is handled twice before its grant exists, so `CreateAccessGrant` is given twice; the grant is created and revoked, and the second command creates it anew. |
| `reused_name` | A second registration under the same identifier renames the one under way, and the name that is reserved is not the one that is listed. |
| `signed_out_stream` | A request is resolved to its session, the session is signed out, and then the policy's look-up answers: the subscription opens in the ended session, and nothing stops it. |

Some smaller observations have no run. An account that is added to a person by
a command handled twice is listed twice. An extension event that is handled again
is entered twice in the history of the grant view, and a registration command
given twice is announced as failed although its resource is recorded. A person who
is added to their organization again in another role keeps the role they have
there, and their membership shows the other.

### Bounds

* `MaxInbox` limits only when *clients* may give another command: a command is
  posted while the inbox is shorter than that. Messages that handlers emit are
  never held back. It is 2 in all passing runs (up to 4 in those that look for one
  long course), so a further command can arrive at every point of the first one's
  course, which is what all races above need: a handler emits at most three messages, and the entities only
  react to the relative order of at most two courses.
* `MaxTime` lets the clock pass every start and end in the commands: periods
  start at 0 to 3, last 1 to 4 and the resource permits 3 in total, so that
  requests which are too long, late, ended or empty all occur.
* `MaxCrashes` is 1: one message is handled twice, at any place. `ClockStep` is
  1 in `redelivery` and `extension_lost`, where the clock may move by 1 inside a
  handler, and 0 in the others: in `access_requests`, `GrantViewAgrees` and
  `ExtensionKeepsGrant` need it to stand still.
* `MaxFaults` is 1 in `sign_in_and_join`: either the server stops, or one wait for
  the organization is given up too early, at any point, which leaves a command that
  nobody waits for. With two, the second would do what the first does.
* `MaxChanges` is 3: no command is given to a registration or resource that has
  changed that often. A resource may be created, opened and closed.
* `Attempted` names the accounts of each sign-in: one account, then the same or the
  other one.
* In `gateway` a session lasts 2 seconds and a token is taken 1 second longer, with
  a clock up to 3, so that sessions expire, are in their last second and are gone.
  People sign in at 0 (`LastSignIn`), a note is good for 1 second, one sign-out is
  under way at a time (`MaxSignOuts`), and the gateway restarts once. Two requests
  at a time are enough for every race, as all of them concern one subscription.
* Two or three requests of one person for one resource: requests interact only
  when they concern the same person and resource, and grants of different
  people or resources are in different entities.

Symmetry is declared only in the two runs of `Gateway`, over the slots of requests and
the sessions of one person, which no command names and no temporal property
mentions.

Deadlock is checked in every other run: clients can always give a command to an
empty inbox, so nothing stops but by being stuck. In `Gateway` the clock is
bounded, and once every session has expired nothing is left to do.

### Fairness

`Gateway` has no fairness: its properties are safety. `FairSpec` of the other modules
is weak fairness of delivery alone: the delivery of a context goes on
while its inbox holds messages. In `Identity` that is one condition for each
shard, and delivery there includes going on with a handler that waits, once it is
answered or has waited long enough: the wait is bounded in the code
(`packages/app/src/server/organization-members.ts:118`). `SignInSpec` adds that the
gateway goes on with a sign-in that can go on, as the code there waits for nothing
else. Nothing is assumed of clients, of the clock, of the catalog, of failures or of
giving up: no property needs them to act. `SignInCompletes` starts where the command
has been given, since the bound `MaxInbox` may hold the command back for good.

## 4. Proofs

Theorems hold for every number of people, resources, requests, levels,
durations, moments and repeated messages.

* `TypeCorrect` and `GrantsStayApproved` (`AccessRequestsProofs`): the type
  invariant, and that every grant rests on the person's own request for that
  resource and level, which a manager approved. The second is not inductive: a
  grant is created by a command, so one must know that commands are justified
  already while they are in the inbox. The inductive invariant `IInv` therefore
  says, besides `TypeOK` and `GrantsAreApproved`, that a request that is under
  way says what it asks for (`SubmittedSaySomething`) and that each message in
  the inbox is `Justified`: an approval event carries the snapshot of a request
  that is being approved or approved, and a command to create a grant names
  the person, resource and level of such a request. Because statuses of
  approved requests never fall back and snapshots never change, messages stay
  justified while they wait, and also when they are handled again. TLC confirmed
  `IInv` on the instances of `access_requests` and `redelivery` before it was proved.
  There is one lemma for each handler, and `IInvStep` combines them.
  The only assumption is `ConstantsAssumption`, which gives the constants their
  types; TLC evaluates it in every run.
* `AccessGrantsProofs` proves what an approved request does to the grant. Its
  invariant `GInv`, preserved given `IInv`, looks at the inbox as a sequence,
  since what these properties rest on is the order of messages. Its parts:
  `Saying`: a message says what its request says (a command to create a grant
  ends when the request asked for, an answer says that the period fits), so a
  request that was reviewed fits the resource's maximum. `InTurn`: the commands
  that create one grant have nothing but clients' commands between them, also
  when one of them is handled again, and the approval's start is handled before
  any of them; without it a late second creation could restore an end that an
  extension has moved. `Once`: as long as the server has not stopped there is
  one such command. `Checked`: once an extension was checked, the creation of its
  grant is over, and the end it proposes fits the resource's maximum for the
  grant as it is held, whatever happens to the grant later. `Refused`: an
  extension fails only when its grant has ended or is gone, and then stays so.
  `Settling`: a grant that was created or extended is on its way to be
  confirmed, ahead of every refusal that a repeated command may add. `Distinct`:
  no request has two grants; `GrantsApplied`: a grant belongs to a request that
  took effect; `Lasting`: its length and its end. TLC confirmed `GInv` on three
  instances, with extensions and with a repeated message, before it was proved.
  `Came` describes any step of the inbox (what was there moves up by at most one
  place, and what is new comes behind), and each part has a lemma that tells
  under which conditions on the new messages it is kept; the lemmas for the
  handlers have to show those conditions only.
  From `GInv` follow `ApprovalsTakeEffect`, `LifetimesStayCapped` and
  `GrantEndsStayApproved`, and the refinement `RequestsFollowTheLifecycle`: each
  handler's step is a step of `AccessRequestLifecycle` or leaves its variables
  alone. Without `Settling` it is not: an approval could be confirmed before its
  effect.
  Two theorems have a hypothesis, since without it the code does otherwise.
  `ExtensionsAreKept` assumes `ClockStep = 0`, that the clock stands still within
  one handler; `extension_lost` shows a grant lost when it does not.
  `ForgottenStaysForgotten` assumes `MaxCrashes = 0`, that no message is handled
  twice; `revoked_returns` shows a revoked grant that returns otherwise, by a
  command to create it that was given twice.
* `AccessViewsProofs` proves that the views agree once all messages are
  delivered, also when some are handled again: `RequestViewsAgree`,
  `QueuesAgree` and `GrantViewsAgree`. What a view shows is no invariant by
  itself, so the invariants say what it shows together with what the inbox still
  has to tell it. `Where(kind)` are the places of the messages of a kind, and
  lemmas tell how they move with a step (`WhereMoves`).
  `VInv`, preserved given `IInv` and `GInv`, has for each request: `Told`: an
  event about it says what stays true of it (a repeated approval still finds the
  request accepted, a repeated outcome names its status). `RequestShown`: the view
  is right or a message that will put it right is under way, and a submission is
  never behind an outcome, which it would overwrite with "pending". `DeciderKnown`:
  who decided is shown or about to be. `QueueShown` and `Assigning`: the same for
  the managers' tasks. `ShownFirst` and `Announced`: the grant that an extension is
  about was shown before the extension is assigned, and managers hear of a
  revocation before it is shown, which makes the one exception in `TasksAgree`,
  the extension of a revoked grant, a stable one.
  `WInv` says of each grant that its start, its end and whether it is revoked are,
  each by itself, as the last message about it says, or as they are shown when none
  is under way (`LastWord`); a grant that is not held was never created, or is
  revoked, or has ended, by that account. It needs `GInv` for `Distinct` only, and
  `ClockStep = 0`: with a clock that moves within the handler of an extension, a
  grant can be dropped while its view is told to extend it. That is what
  `extension_lost` shows of the grant, and the hypothesis of `GrantViewsAgree`.
  TLC confirmed both invariants on the instances with extensions and with a
  repeated message before they were proved.
* `OverlapsMeansSharedMoment`, `ApprovalGrantsWhatRemains`,
  `GrantedNeverLonger`, `GrantedNonempty` (`AccessPeriodsProofs`): the
  comparisons the code makes mean what they should in terms of the moments an
  interval contains; an approval grants exactly what is left of the request,
  never more than was checked at submission, and never an interval that the
  creation of the grant would refuse.

* `ReadsConcernTheReader`, `QueriesConcernTheReader` (`PolicyProofs`): for every
  query of any form that the policy lets pass, every record the application server
  may return concerns the person who asks. The argument is one case for each read
  model; the lemma `OnlyConditionSelects` says that the one condition the policy
  recognizes is one the server applies.
* `GatewayProofs` proves all safety properties of the `gateway` run, for any number
  of sessions, subscriptions, requests and restarts and any clock skew. `IInv` there is
  `Typed /\ StreamsAreHeld /\ RowsOutlastTokens /\ Agreeing`:
  `RowsOutlastTokens` says that the row of an ended session is kept for as long as
  its token is taken, which is what a purge by another sign-out could break;
  `Agreeing` ties the notes, the watched subscriptions and the requests together:
  a note is for a session of a person who may open the subscription, and what is
  kept was permitted to the one it is kept for. Each is preserved by each step
  given the ones before it, so there is one lemma for each part and step.
* `IdentityProofs` proves the types and the safety properties of `Identity`, in its
  composition with `SignIn`: `SignInTypes`, `AddressesArePeople`, `JoinersAreMembers`,
  `MembersWereAdded`, `SessionsBelong` and `PeopleAreShown`, for any number of
  accounts, people, organizations, stops and failed calls. None of them is inductive, since most of what happens is
  announced before it shows. `IInv` adds that each message in either inbox is
  `Justified` (whoever it names owns the address it is about, was added to the
  organization it names, and is listed there once it says they joined), that the
  entities and their views are `Agreeing`, and that the handler that waits for
  Resources is `Waiting` for the person and organization of the message it
  handles: at most one command in the other inbox is awaited, and it is the one
  for them, so that "confirmed" does mean that this person is listed. Messages
  stay justified because every step is `Advancing`: an address keeps its owner,
  an account its person, a person their address, name and organization, and nobody
  is unlisted.
  `Introduced` is about the view of each person. `Covered`: an address, a name or an
  organization that the person has is shown or on its way, and an account on its way
  has the address and the name in front of it, so the view that shows an account
  shows both (`ShownIsTrue`). That is what a session relies on: the gateway reads until the view shows
  the account and takes the rest of it as it is, and the address must then be the
  one that leads to the account's owner. `Pending`: as long as no message is
  handled twice, the accounts on their way, at the places a function `f` names, are
  the ones the view does not show yet, in their order; an empty inbox leaves none.
  With a message handled twice the view shows an account twice, which
  `PersonViewAgrees` excepts. TLC confirmed `Introduced` with up to two stops before
  it was proved.
  `NewIdentifiers` is assumed besides the types of the constants: there is always
  an identifier that no person has, since the code draws a random UUID for a new
  one (`packages/identity/server/src/person/person-email-aggregate.ts:49`).
* `ResourceRegistrationProofs` proves the types and the safety properties of
  `ResourceRegistration`, for any number of resources, people, names and stops, in
  five inductive invariants, each preserved given the ones it needs.
  `Known`: types, and each message in the inbox is `Sound`, it tells what its
  sender did (a `ResourceDeleted` is about a deleted resource, a `ResourceAdded`
  about a recorded one). `CatalogFollows`: for each resource, either the catalog
  already shows it as it is, or the inbox says so; where it is opened and closed
  again, the last announcement has the `LastWord`, which is why
  `CatalogShowsResources` needs the inbox to keep its order. `ViewFollows`: the
  organization's view shows the first members and resources the organization took,
  and the inbox tells of each of the others, the earlier ones first; with an empty
  inbox the two are equal (`MembersSeeTheOrganization`), although a stop repeats
  messages and the view drops what it already shows. `Saga`: a resource that exists
  is recorded, or a message is under way that leads to its being recorded or
  deleted; one is deleted only when another resource has its name. It gives
  `RegistrationsAreWhole`, `ListedNamesAreUnique` and `RecordedIsKept`.
  These three assume `OneNameEach`: no resource is registered a second time under
  another name. The commands of `registration` satisfy it. The code does not see
  to it, since clients choose the identifiers; without it two listed resources
  can have the same name, as `reused_name` shows.

  `Audited`: what the audit trail has or is on its way to it tells of each change
  once, with a version that the organization or the resource has left behind since.
  The versions keep two changes from sharing an entry, and let a repeated event find
  its own; an opening comes only after a closing, since the aggregate ignores a
  policy that is in force, so their numbers differ by whether the resource is open;
  and a policy is changed only after the resource was created (`PoliciesFollow`),
  which resets it. A registration is followed by the message that announces it
  instead of by its version, which stays when it ends a second time. It gives
  `TrailTells`, which needs no `OneNameEach`. TLC confirmed `Audited` on the instance
  of `registration` before it was proved.

Every safety property that holds in a run is the statement of a theorem. Only
model-checked are the liveness properties: liveness under fairness is outside what
the prover can do.

## 5. Not modelled, and the plan

* The audit trail of requests and grants: twelve more subscribers that do what
  those modelled do, for events that `AccessRequests` emits.
* A composition of `AccessRequests` with `ResourceRegistration`, so that a
  request may be submitted for a resource whose registration is undone. Each is
  at the limit of what TLC explores in minutes.

Not planned: storage, settings, routes and providers, which keep no state of
their own or only do input and output; the client library, the signing of tokens
and the bindings are Spine's.
