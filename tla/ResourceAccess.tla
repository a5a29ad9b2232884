--------------------------- MODULE ResourceAccess ---------------------------
(***************************************************************************)
(* What one person's access to one resource decides by: the managers of    *)
(* the last approved request, and the grants that are kept                 *)
(* (access/grant/resource-access-aggregate.ts).                            *)
(*                                                                         *)
(* The operators are the aggregate's private queries.  The commands that   *)
(* use them are actions of AccessRequests.  A level is its rank: a         *)
(* stronger level has a higher rank, and nothing else of it is compared.   *)
(***************************************************************************)
EXTENDS AccessPeriods

CONSTANTS Person, Request

(* A grant is named by the first-time request that it was issued for. *)
Grant == [id : Request, level : Nat, start : Time, end : Time]

Access == [manager : SUBSET Person, grant : SUBSET Grant]

NoAccess == [manager |-> {}, grant |-> {}]

GrantIds(access) == {g.id : g \in access.grant}

(* The grants whose end has not passed. *)
GrantsNotEnded(access, time) == {g \in access.grant : time < g.end}

(* The grant of the given name, when it gives access now: none or one. *)
ActiveGrants(access, id, time) ==
  {g \in access.grant : g.id = id /\ g.start <= time /\ time < g.end}

(* Whether a grant other than the excepted ones gives the same or a        *)
(* stronger level for any part of the interval.                            *)
Holds(access, level, interval, except, time) ==
  \E g \in GrantsNotEnded(access, time) :
     /\ g.id \notin except
     /\ g.level >= level
     /\ Overlaps(g, interval)

(* A variant for mutation runs: the end stays. *)
ExtensionIgnored(access, id, end, time) == GrantsNotEnded(access, time)

(* The grants kept once the one named id has been moved to a new end. *)
Extended(access, id, end, time) ==
  {IF g.id = id THEN [g EXCEPT !.end = end] ELSE g :
     g \in GrantsNotEnded(access, time)}
=============================================================================
