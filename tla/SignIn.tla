------------------------------- MODULE SignIn -------------------------------
(***************************************************************************)
(* Signing in through an identity provider, which confirms an account and  *)
(* its email address: AccessDesk.signIn in the gateway, over the network,  *)
(* against the Identity context.                                           *)
(*                                                                         *)
(* The gateway reads who has the account.  For an account that nobody has  *)
(* yet it asks Identity to link it and waits to be told that the account   *)
(* has its person.  Then it reads until the person shows with the account, *)
(* and issues the session for what it has read.  Either wait ends after    *)
(* ten seconds, while Identity goes on; the person may try again then,     *)
(* with the same account or with another one.                              *)
(***************************************************************************)
EXTENDS Identity

CONSTANTS
  VerifiedEmail,  \* the address a provider confirms for each account
  Attempted       \* bound: the accounts of each sign-in there may be

ASSUME SignInConstants ==
  /\ VerifiedEmail \in [Account -> Email]
  /\ Attempted \in Seq(SUBSET Account)

VARIABLES
  attempt,  \* the sign-in that was started last
  attempts  \* how many were started

signInVars == <<vars, attempt, attempts>>

UnderWay == {"linking", "waiting", "too late", "found"}

Stage == UnderWay \cup {"signed in", "refused"}

(* Once somebody is signed in, the session is for this person.             *)
Attempt ==
  [stage : Stage, account : Account \cup {NoAccount},
   person : Person \cup {NoPerson}, email : Address \cup {NoAddress},
   name : Account \cup {NoAccount},
   organization : Organization \cup {NoOrganization}]

NoAttempt ==
  [stage |-> "refused", account |-> NoAccount, person |-> NoPerson,
   email |-> NoAddress, name |-> NoAccount, organization |-> NoOrganization]

SignInInit == Init /\ attempt = NoAttempt /\ attempts = 0

Linked(a) == externalView[a] # NoPerson

(* The gateway knows the account's person, or is about to link it. *)
KnownAs(a) ==
  [NoAttempt EXCEPT !.stage = "found", !.account = a,
                    !.person = externalView[a]]

Unknown(a) == [NoAttempt EXCEPT !.stage = "linking", !.account = a]

SignIn(a) ==
  /\ attempt.stage \notin UnderWay
  /\ attempts < Len(Attempted) /\ a \in Attempted[attempts + 1]
  /\ attempts' = attempts + 1
  /\ attempt' = IF Linked(a) THEN KnownAs(a) ELSE Unknown(a)
  /\ UNCHANGED vars

(* The gateway watches the account before it gives the command.  It is told*)
(* of changes only: when an earlier command has linked the account in the  *)
(* meantime, this one brings none.                                         *)
LinkAccount ==
  /\ attempt.stage = "linking"
  /\ Post([type |-> "LinkExternalIdentity", account |-> attempt.account,
           email |-> VerifiedEmail[attempt.account]])
  /\ attempt' = [attempt EXCEPT !.stage =
                   IF Linked(attempt.account) THEN "too late" ELSE "waiting"]
  /\ UNCHANGED attempts

AccountShows ==
  /\ attempt.stage = "waiting"
  /\ Linked(attempt.account)
  /\ attempt' = KnownAs(attempt.account)
  /\ UNCHANGED <<vars, attempts>>

ShowsWith(view, account) == account \in Range(view.account)

PersonShows ==
  /\ attempt.stage = "found"
  /\ LET view == personView[attempt.person] IN
     /\ ShowsWith(view, attempt.account)
     /\ attempt' = [attempt EXCEPT !.stage = "signed in",
                      !.email = view.email, !.name = view.name,
                      !.organization = view.organization]
  /\ UNCHANGED <<vars, attempts>>

(* The command is not taken, the connection breaks, or ten seconds pass.   *)
GiveUpSignIn ==
  /\ attempt.stage \in UnderWay
  /\ attempt' = NoAttempt
  /\ UNCHANGED <<vars, attempts>>

GoOn == LinkAccount \/ AccountShows \/ PersonShows

SignInNext ==
  \/ Next /\ UNCHANGED <<attempt, attempts>>
  \/ \E a \in Account : SignIn(a)
  \/ GoOn \/ GiveUpSignIn

(* Each shard keeps delivering, a handler that waits goes on once it is    *)
(* answered or has waited long enough, and the gateway goes on likewise.   *)
SignInSpec ==
  /\ SignInInit /\ [][SignInNext]_signInVars
  /\ WF_signInVars(DeliverIdentity /\ UNCHANGED <<attempt, attempts>>)
  /\ WF_signInVars(DeliverResources /\ UNCHANGED <<attempt, attempts>>)
  /\ WF_signInVars(GoOn)

----------------------------------------------------------------------------
(* Identity's state and the sign-in have their types.                      *)
SignInTypeOK == TypeOK /\ attempt \in Attempt /\ attempts \in 0..Len(Attempted)

(* A session is for the person who owns the address the account was        *)
(* confirmed with, under their own name, and only in an organization that  *)
(* lists them, whatever went on while it was being issued                  *)
(* (access-desk.ts, signIn).                                               *)
SessionsAreTheOwners ==
  attempt.stage = "signed in" =>
    /\ attempt.email = external[attempt.account].email
    /\ attempt.person = owner[attempt.email]
    /\ attempt.name = person[attempt.person].name
    /\ attempt.organization # NoOrganization =>
         attempt.person \in Listed(member[attempt.organization])

(* A sign-in that needs no command, or has given its command while nobody  *)
(* had the account, is completed unless it is given up, however long       *)
(* Identity waits for Resources in front of it, and also when the account  *)
(* was given up on before (client.ts, postAndAwaitView).                   *)
SignInCompletes ==
  attempt.stage \in {"waiting", "found"} ~> attempt.stage \notin UnderWay
=============================================================================
