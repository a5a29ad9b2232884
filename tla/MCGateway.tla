------------------------------ MODULE MCGateway -----------------------------
(***************************************************************************)
(* Instances of Gateway small enough for TLC.  In acme, ann manages the    *)
(* printer and eve the scanner; max administers.  globex is another        *)
(* organization.                                                           *)
(***************************************************************************)
EXTENDS Gateway, TLC

CONSTANTS ann, max, eve, printer, scanner, acme, globex,
          ann1, ann2, max1, r1, r2, w1, own, trail

MCPersonOf == [s \in Session |-> IF s = max1 THEN max ELSE ann]
MCOrganizationOf == [s \in Session |-> acme]
MCManagerOf == (printer :> {ann}) @@ (scanner :> {eve})
MCMemberOf == (acme :> {ann, max, eve}) @@ (globex :> {})
MCAdministratorOf == (acme :> {max}) @@ (globex :> {})

Compared(path, operator, value) ==
  [path |-> path, operator |-> operator, value |-> value]
Equal(column, value) == Compared(<<column>>, "EQUAL", value)

Combined(operator, conditions, nested) ==
  [operator |-> operator, filter |-> conditions, nested |-> nested]

Filtered(type, ids, composites) ==
  [type |-> type, criterion |-> "filters", id |-> ids, filter |-> composites]

Where(type, condition) ==
  Filtered(type, <<>>, <<Combined("ALL", <<condition>>, FALSE)>>)

(* What a browser watches: the requests ann made, the whole audit trail.   *)
MCTargetOf ==
  (own :> Where("AccessRequestView", Equal("requester", ann))) @@
  (trail :> [type |-> "AuditEntry", criterion |-> "includeAll", id |-> <<>>,
             filter |-> <<>>])

(* Every read model, asked for with every condition that can make or break *)
(* a rule, alone, with another one, within other operators, and by ids.    *)
Conditions ==
  {Equal(c, v) : c \in {"requester", "grantee"}, v \in {ann, eve, printer}}
    \cup {Equal("resource", v) : v \in {printer, scanner, ann}}
    \cup {Equal("organization", o) : o \in {acme, globex}}
    \cup {Compared(<<"requester">>, "OTHER", ann),
          Compared(<<"resource", "uuid">>, "EQUAL", scanner),
          Compared(<<"resource">>, "EQUAL", NoValue)}

Composites ==
  {Combined(o, cs, n) : o \in {"ALL", "EITHER"}, n \in BOOLEAN,
     cs \in {<<>>} \cup {<<c>> : c \in Conditions}
              \cup {<<c, d>> : c, d \in Conditions}}

Singles == {Combined("ALL", <<c>>, FALSE) : c \in Conditions}

Ids == {<<>>, <<ann>>, <<max>>, <<ann, max>>}

MCQuery ==
  [type : ReadModel, criterion : {"includeAll"}, id : {<<>>}, filter : {<<>>}]
    \cup {Filtered(t, ids, <<>>) : t \in ReadModel, ids \in Ids}
    \cup {Filtered(t, <<>>, <<f>>) : t \in ReadModel, f \in Composites}
    \cup {Filtered(t, <<ann>>, <<f>>) : t \in ReadModel, f \in Singles}
    \cup {Filtered(t, <<>>, <<f, g>>) : t \in ReadModel, f, g \in Singles}

Columns(person, resource, organization) ==
  [requester |-> person, grantee |-> person, resource |-> resource,
   organization |-> organization]

(* One record of each kind for every person, resource and organization.    *)
MCRecord ==
  {[type |-> t, tenant |-> o, id |-> p, column |-> Columns(p, r, o)] :
     t \in OfOrganization, o \in {acme, globex}, p \in Person,
     r \in {printer, scanner}}
  \cup
  {[type |-> "MembershipView", tenant |-> NoOrganization, id |-> p,
    column |-> Columns(p, NoValue, o)] : o \in {acme, globex}, p \in Person}

(* Which slot a request takes, and which of ann's two sessions is which,   *)
(* makes no difference.                                                    *)
Symmetry == Permutations(Slot) \cup Permutations(Session \ {max1})
=============================================================================
