---------------------------- MODULE ObjectAccess ----------------------------
(***************************************************************************)
(* Object access (src/lib/security): the fixed order of the object policy  *)
(* engine over the ACL rows that match the principal and the policies of   *)
(* the type, and the effective classification that decides whether an      *)
(* allowed access is audited.                                              *)
(***************************************************************************)
EXTENDS Naturals, Sequences, FiniteSets

CONSTANTS
    UserId, GroupIds, RoleKeys,     \* the security context's principals
    AccessQueries                   \* what may be asked, and the rows and policies there are

VARIABLES
    query,          \* the access asked for
    answer          \* what enforceObjectAccess decided and audited

accessVars == <<query, answer>>

\* SENSITIVITY, most sensitive first.
Sensitivity ==
    <<"credential", "restricted", "health", "legal", "financial", "pii", "confidential",
      "internal", "public">>

SensitivityOf(c) == CHOOSE i \in DOMAIN Sensitivity : Sensitivity[i] = c

\* An object's records are a list of classes.
ASSUME AccessAssumption ==
    \A q \in AccessQueries :
      /\ q.records \in Seq({Sensitivity[i] : i \in DOMAIN Sensitivity})
      /\ "acls" \in DOMAIN q /\ {q.sameTenant, q.rolePermission} \subseteq BOOLEAN

\* Mutated: the comparison the wrong way round.
LessSensitive(a, b) == IF SensitivityOf(a) <= SensitivityOf(b) THEN b ELSE a

MoreSensitive(a, b) == IF SensitivityOf(a) <= SensitivityOf(b) THEN a ELSE b

\* getEffectiveClassification: a reduce over the object's records.
EffectiveClassification(records) ==
    LET reduced[i \in DOMAIN records] ==
            IF i = 1 THEN records[1] ELSE MoreSensitive(reduced[i - 1], records[i])
    IN  IF records = << >> THEN {} ELSE {reduced[Len(records)]}

\* aclsMatchingPrincipal
MatchesPrincipal(acl) ==
    \/ acl.principalType = "user" /\ acl.principalId = UserId
    \/ acl.principalType = "group" /\ acl.principalId \in GroupIds
    \/ acl.principalType = "role" /\ acl.principalId \in RoleKeys

\* evaluateObjectAccess, in its order; q.acls are the object's rows, q.policies those of
\* its type, q.rolePermission says whether hasRolePermission grants q.permission.
Decision(allowed, reason, q) ==
    [allowed |-> allowed, reason |-> reason,
     requiredApproval |-> allowed /\ \E p \in q.policies : p.status = "active" /\ p.ruleType = "require_approval",
     redacted |-> allowed /\ \E p \in q.policies : p.status = "active" /\ p.ruleType \in {"redact", "mask"}]

EvaluateObjectAccess(q) ==
    LET relevant == {a \in q.acls : MatchesPrincipal(a) /\ a.permission \in {q.permission, "admin"}}
        acl(effect) == \E a \in relevant : a.effect = effect
        policy(ruleType) == \E p \in q.policies : p.status = "active" /\ p.ruleType = ruleType
    IN  IF ~q.sameTenant THEN Decision(FALSE, "tenant mismatch", q)
        ELSE IF acl("deny") THEN Decision(FALSE, "explicit deny ACL", q)
        ELSE IF policy("deny") THEN Decision(FALSE, "object access policy deny", q)
        ELSE IF acl("allow") THEN Decision(TRUE, "explicit allow ACL", q)
        ELSE IF q.rolePermission THEN Decision(TRUE, "role permission", q)
        ELSE IF policy("allow") THEN Decision(TRUE, "object access policy allow", q)
        ELSE Decision(FALSE, "default deny", q)

Sensitive == {"restricted", "health", "legal", "financial", "credential", "pii"}

Unanswered == [decision |-> [allowed |-> FALSE, reason |-> "none"], audit |-> "none"]

AccessInit == query \in AccessQueries /\ answer = Unanswered

\* enforceObjectAccess: a denial throws after its audit, a sensitive access is audited.
EnforceObjectAccess ==
    LET decision == EvaluateObjectAccess(query)
        sensitive == EffectiveClassification(query.records) \cap Sensitive # {}
    IN  /\ answer = Unanswered
        /\ answer' = [decision |-> decision,
                      audit |-> IF ~decision.allowed THEN "denied"
                                ELSE IF sensitive THEN "sensitive_allowed" ELSE "none"]
        /\ UNCHANGED query

AccessSpec == AccessInit /\ [][EnforceObjectAccess]_accessVars

-----------------------------------------------------------------------------
AccessTypeOK ==
    /\ answer.audit \in {"none", "denied", "sensitive_allowed"}
    /\ answer.decision.allowed \in BOOLEAN

\* The answer is the right one whatever rows and policies pile up: allowed exactly when
\* the tenant matches, nothing that applies denies and something that applies allows; one
\* more denial never opens the object, no allowance closes it or sheds its redaction; and
\* an allowed access is audited exactly when any record of the object, wherever it stands
\* among them, is sensitive (evaluateObjectAccess, object-policy-engine.ts:46;
\* enforceObjectAccess, object-access-service.ts:69).
AccessIsExact ==
    LET mine == {a \in query.acls : MatchesPrincipal(a) /\ a.permission \in {query.permission, "admin"}}
        active == {p.ruleType : p \in {p \in query.policies : p.status = "active"}}
        effects == {a.effect : a \in mine}
        more(effect) == EvaluateObjectAccess([query EXCEPT !.acls = @ \cup
                          {[principalType |-> "user", principalId |-> UserId,
                            permission |-> query.permission, effect |-> effect]}])
        decision == answer.decision
    IN  answer # Unanswered =>
          /\ decision.allowed <=>
               /\ query.sameTenant
               /\ "deny" \notin effects \cup active
               /\ "allow" \in effects \cup active \/ query.rolePermission
          /\ ~more("deny").allowed
          /\ decision.allowed => more("allow").allowed /\ more("allow").redacted = decision.redacted
          /\ answer.audit = "sensitive_allowed" <=>
               decision.allowed /\ \E i \in DOMAIN query.records : query.records[i] \in Sensitive

=============================================================================
