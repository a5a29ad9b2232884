----------------------------- MODULE MCIdentity -----------------------------
(***************************************************************************)
(* Instances of SignIn and Identity small enough for TLC: one person, who  *)
(* signs in with two accounts that have either spelling of their address,  *)
(* and whom administrators add to two organizations.                       *)
(***************************************************************************)
EXTENDS SignIn

CONSTANTS work, home, here, there, worker, manager

Emails == {"Ann@desk", "ann@desk"}

MCNormalized == [e \in Emails |-> "ann@desk"]

MCVerified == [a \in {work, home} |->
  IF a = work THEN "Ann@desk" ELSE "ann@desk"]

(* The second sign-in is a further try with the account or another one. *)
MCAttempted == <<{work}, {work, home}>>

Add(email, organization, role) ==
  [type |-> "AddMember", email |-> email, organization |-> organization,
   role |-> role]

(* Additions to two organizations. *)
AddCommands ==
  {Add("Ann@desk", here, worker), Add("ann@desk", there, worker)}
=============================================================================
