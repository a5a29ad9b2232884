--------------------------- MODULE SessionTokens ----------------------------
(***************************************************************************)
(* The signed tokens of the sessions, and the gateway's memory of those    *)
(* that were ended (gateway/sessions.ts, gateway/revoked-tokens.ts).       *)
(*                                                                         *)
(* A token carries its session's identifier and when it expires.  It is    *)
(* taken until Skew later, as clocks may differ, unless revoked_token has  *)
(* a row for it.  A row is made when a session ends, and deleted by the    *)
(* next revocation once its own time has passed.  A row is the time it is  *)
(* kept until; no row is NoRow.                                            *)
(***************************************************************************)
EXTENDS Naturals

CONSTANTS
  Session,
  Lifetime,    \* SESSION_SECONDS
  Skew,        \* CLOCK_SKEW_SECONDS
  MaxTime,     \* bound: the clock stops there
  LastSignIn   \* bound: nobody signs in later

ASSUME SessionTokensConstants ==
  /\ Lifetime \in Nat \ {0} /\ Skew \in Nat
  /\ MaxTime \in Nat /\ LastSignIn \in Nat

VARIABLES
  now,       \* the clock
  expires,   \* when the token of each session expires
  revoked    \* the rows of revoked_token

tokens == <<now, expires, revoked>>

NoToken == 0
NoRow == 0

TokensTypeOK ==
  /\ now \in Nat
  /\ expires \in [Session -> Nat]
  /\ revoked \in [Session -> Nat]

InitTokens ==
  /\ now = 0
  /\ expires = [s \in Session |-> NoToken]
  /\ revoked = [s \in Session |-> NoRow]

(* Whether the gateway signed the token and still takes it.                *)
Verified(s) == expires[s] # NoToken /\ now < expires[s] + Skew

(* Whether a request may come in the session. *)
Accepted(s) == Verified(s) /\ revoked[s] = NoRow

(* The rows left once those whose time has passed are deleted.             *)
Purged == [s \in Session |-> IF revoked[s] <= now THEN NoRow ELSE revoked[s]]

(* A variant for mutation runs: the row is kept to the bare expiry.        *)
RememberedToExpiry(s) ==
  [Purged EXCEPT ![s] = IF @ = NoRow THEN expires[s] ELSE @]

(* The rows after a revocation.  A row that is there stays as it is.       *)
Remembered(s) ==
  [Purged EXCEPT ![s] = IF @ = NoRow THEN expires[s] + Skew ELSE @]

(* A revocation that fails may have done nothing, deleted the rows only,   *)
(* or made the row and lost the answer.                                    *)
PartlyRemembered(s) == {revoked, Purged, Remembered(s)}

SignIn(s) ==
  /\ expires[s] = NoToken
  /\ now <= LastSignIn
  /\ expires' = [expires EXCEPT ![s] = now + Lifetime]
  /\ UNCHANGED <<now, revoked>>

Tick ==
  /\ now < MaxTime
  /\ now' = now + 1
  /\ UNCHANGED <<expires, revoked>>
=============================================================================
