---------------------------- MODULE PolicyProofs ----------------------------
(***************************************************************************)
(* What the policy lets somebody read concerns them, for all people,       *)
(* resources, organizations and records, and for every form of query.      *)
(***************************************************************************)
EXTENDS Policy, SequenceTheorems, TLAPS

(* A query whose only filter is column = value returns records that have   *)
(* the value in the column: the filter is not weakened by ids, by others   *)
(* beside it, by nesting or by the operator that joins it to nothing.      *)
LEMMA OnlyConditionSelects ==
  ASSUME NEW target \in Target, NEW tenant, NEW rec \in Record,
         NEW c \in OnlyCondition(target),
         Returned(target, tenant, rec),
         c.path[1] \in Column
  PROVE  rec.column[c.path[1]] = c.value
<1>1. /\ target.criterion = "filters"
      /\ Len(target.filter) = 1 /\ Len(target.filter[1].filter) = 1
      /\ ~target.filter[1].nested
      /\ c = target.filter[1].filter[1]
      /\ c.operator = "EQUAL" /\ Len(c.path) = 1
  BY DEF OnlyCondition
<1>2. target.filter \in Seq(Composite) /\ target.filter[1] \in Composite
  <2>1. target.filter \in Seq(Composite)
    BY DEF Target
  <2> QED BY <2>1, <1>1, ElementOfSeq
<1>3. 1 \in DOMAIN target.filter
  BY <1>1, <1>2, LenProperties
<1>4. target.filter[1].filter \in Seq(Condition)
  BY <1>2 DEF Composite
<1>5. 1 \in DOMAIN target.filter[1].filter
       /\ DOMAIN target.filter[1].filter = {1}
  BY <1>1, <1>4, LenProperties
<1>6. CompositeHolds(target.filter[1], rec)
  BY <1>1, <1>3 DEF Returned
<1>7. ConditionHolds(target.filter[1].filter[1], rec)
  BY <1>1, <1>5, <1>6 DEF CompositeHolds
<1> QED BY <1>1, <1>7 DEF ConditionHolds

(* A query for somebody's own records returns only those. *)
LEMMA OwnAreOwn ==
  ASSUME NEW target \in Target, NEW tenant, NEW rec \in Record,
         NEW column \in Column, NEW person,
         AsksForOwn(target, column, person), Returned(target, tenant, rec)
  PROVE  rec.column[column] = person
<1>1. PICK c \in OnlyCondition(target) : c.path[1] = column /\ c.value = person
  BY DEF AsksForOwn
<1> QED BY <1>1, OnlyConditionSelects

(* A query for a resource somebody manages returns only its records. *)
LEMMA ManagedAreManaged ==
  ASSUME NEW target \in Target, NEW tenant, NEW rec \in Record,
         NEW asking, AsksForManaged(target, asking),
         Returned(target, tenant, rec)
  PROVE  /\ rec.column["resource"] \in Resource
         /\ Manages(asking, rec.column["resource"])
<1>1. PICK c \in OnlyCondition(target) :
        c.path[1] = "resource" /\ c.value \in Resource /\ Manages(asking, c.value)
  BY DEF AsksForManaged
<1>2. "resource" \in Column
  BY DEF Column
<1> QED BY <1>1, <1>2, OnlyConditionSelects

(* A query for the record under somebody's identifier returns only that.   *)
LEMMA OwnByIdIsOwn ==
  ASSUME NEW target \in Target, NEW tenant, NEW rec \in Record, NEW person,
         AsksForOwnById(target, person), Returned(target, tenant, rec)
  PROVE  rec.id = person
BY DEF AsksForOwnById, Returned

(* Whatever a member's subscription shows concerns the member.             *)
THEOREM ReadsConcernTheReader ==
  ASSUME NEW target \in Target, NEW asking \in Asking, MayRead(target, asking)
  PROVE  OnlyConcerning(target, TenantOf(target, asking), asking)
<1> SUFFICES ASSUME NEW rec \in Record,
                    Returned(target, TenantOf(target, asking), rec)
             PROVE  Concerns(rec, asking)
  BY DEF OnlyConcerning
<1>1. /\ rec.type = target.type /\ target.type # "MembershipView"
      /\ rec.tenant = asking.organization
  BY DEF Returned, TenantOf, ConcernsNoOrganization, MayRead
<1> DEFINE managed == /\ rec.column["resource"] \in Resource
                      /\ Manages(asking, rec.column["resource"])
<1>2. AsksForManaged(target, asking) => managed
  BY ManagedAreManaged
<1>3. AsksForOwn(target, "requester", asking.person)
        => rec.column["requester"] = asking.person
  <2>1. "requester" \in Column
    BY DEF Column
  <2> QED BY <2>1, OwnAreOwn
<1>4. AsksForOwn(target, "grantee", asking.person)
        => rec.column["grantee"] = asking.person
  <2>1. "grantee" \in Column
    BY DEF Column
  <2> QED BY <2>1, OwnAreOwn
<1>5. AsksForOwnById(target, asking.person) => rec.id = asking.person
  BY OwnByIdIsOwn
<1> QED BY <1>1, <1>2, <1>3, <1>4, <1>5 DEF MayRead, Concerns

(* So does whatever a permitted query returns, also an administrator's     *)
(* query for the memberships, which are kept for all organizations.        *)
THEOREM QueriesConcernTheReader ==
  ASSUME NEW target \in Target, NEW asking \in Asking, MayQuery(target, asking)
  PROVE  OnlyConcerning(target, TenantOf(target, asking), asking)
<1>1. CASE MayRead(target, asking)
  BY <1>1, ReadsConcernTheReader
<1>2. CASE /\ Administers(asking)
           /\ AsksForMembershipsOf(target, asking.organization)
  <2> SUFFICES ASSUME NEW rec \in Record,
                      Returned(target, TenantOf(target, asking), rec)
               PROVE  Concerns(rec, asking)
    BY DEF OnlyConcerning
  <2>1. rec.type = "MembershipView"
    BY <1>2 DEF AsksForMembershipsOf, Returned
  <2>2. rec.column["organization"] = asking.organization
    <3>1. "organization" \in Column
      BY DEF Column
    <3> QED BY <1>2, <3>1, OwnAreOwn DEF AsksForMembershipsOf
  <2> QED BY <1>2, <2>1, <2>2 DEF Concerns
<1> QED BY <1>1, <1>2 DEF MayQuery
=============================================================================
