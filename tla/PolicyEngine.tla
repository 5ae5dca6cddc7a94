---------------------------- MODULE PolicyEngine ----------------------------
(***************************************************************************)
(* PolicyEngine.evaluate: the answer of the developer's policy to a tool   *)
(* call, and eval_condition, the conditions it is written in.              *)
(*                                                                         *)
(* A value is [kind, v]: a number (a boolean is 0 or 1), a text as the set *)
(* of the parts that matter in it, a list as the set of its values, or     *)
(* null.  One text contains another when it has all its parts; its domain  *)
(* is the part that is in Domains.  Conditions order numbers only.         *)
(***************************************************************************)
EXTENDS DecisionEngine

CONSTANTS Domains,   \* the domains of mail addresses and urls
          tools      \* the policy of each tool that has one

NumericOps == {">", ">=", "<", "<="}

(* A policy of a tool; what it does not say is empty, FALSE or "".         *)
IsPolicy(p) ==
  /\ DOMAIN p = {"risk", "block_if", "block_external_domains", "require_approval",
                 "require_approval_if", "require_approval_for_attachments", "log"}
  /\ \A c \in p.block_if \cup p.require_approval_if :
       /\ c.path[1] \in {"args", "actor", "session"}
       /\ c.op \in NumericOps => c.value.kind # "text"

ASSUME PoliciesAssumption == \A name \in DOMAIN tools : IsPolicy(tools[name])
-----------------------------------------------------------------------------
Same(left, right) == left.kind = right.kind /\ left.v = right.v

Within(part, whole) ==
  \/ whole.kind = "text" /\ part.kind = "text" /\ part.v \subseteq whole.v
  \/ whole.kind = "list" /\ \E value \in whole.v : Same(part, value)

(* Python raises TypeError for any other operands of "in".                 *)
CanHold(whole, part) == whole.kind = "list" \/ (whole.kind = "text" /\ part.kind = "text")

Ordered(left, right) == left.kind = "number" /\ right.kind = "number"

(* What raises a TypeError is false, and so is an operator that the        *)
(* pattern of a condition does not know.                                   *)
Compare(op, left, right) ==
  CASE op = "=="       -> Same(left, right)
    [] op = "!="       -> ~Same(left, right)
    [] op = ">"        -> Ordered(left, right) /\ left.v > right.v
    [] op = ">="       -> Ordered(left, right) /\ left.v >= right.v
    [] op = "<"        -> Ordered(left, right) /\ left.v < right.v
    [] op = "<="       -> Ordered(left, right) /\ left.v <= right.v
    [] op = "in"       -> CanHold(right, left) /\ Within(left, right)
    [] op = "not_in"   -> CanHold(right, left) /\ ~Within(left, right)
    [] op = "contains" -> CanHold(left, right) /\ Within(right, left)
    [] OTHER           -> FALSE

(* A path is the part of the context and the name in it.                   *)
Found(path, request) == path[2] \in DOMAIN request[path[1]]

(* Mutant: a missing value is null, and null is in no list.                *)
EvalMissingAsNull(condition, request) ==
  Compare(condition.op,
          IF Found(condition.path, request)
            THEN request[condition.path[1]][condition.path[2]]
            ELSE [kind |-> "null", v |-> {}],
          condition.value)

eval_condition(condition, request) ==
  /\ Found(condition.path, request)
  /\ Compare(condition.op, request[condition.path[1]][condition.path[2]], condition.value)

MatchesAny(conditions, request) == \E c \in conditions : eval_condition(c, request)
-----------------------------------------------------------------------------
DomainOf(contact) == contact.v \cap Domains

ContactKeys == << "to", "recipient", "email", "destination", "address" >>

IsContact(key, args) ==
  key \in DOMAIN args /\ args[key].kind = "text" /\ args[key].v # {}

(* Only the first contact of a call is looked at.                          *)
SendsToBlocked(domains, args) ==
  \E i \in DOMAIN ContactKeys :
    /\ IsContact(ContactKeys[i], args)
    /\ \A j \in 1..i-1 : ~IsContact(ContactKeys[j], args)
    /\ DomainOf(args[ContactKeys[i]]) \cap domains # {}

HasAttachments(args) ==
  \E key \in {"attachment", "attachments", "file", "files"} \cap DOMAIN args :
    args[key].kind # "null" /\ ~(args[key].kind = "list" /\ args[key].v = {})

(* Mutant: the conditions on approval are looked at first.                 *)
ClauseOrderApprovalFirst ==
  << "require_approval", "require_approval_if", "block_if", "block_external_domains",
     "require_approval_for_attachments", "log" >>

ClauseOrder ==
  << "block_if", "block_external_domains", "require_approval", "require_approval_if",
     "require_approval_for_attachments", "log" >>

Applies(clause, p, request) ==
  CASE clause = "block_if" -> MatchesAny(p.block_if, request)
    [] clause = "block_external_domains" ->
         SendsToBlocked(p.block_external_domains, request.args)
    [] clause = "require_approval" -> p.require_approval = "always"
    [] clause = "require_approval_if" -> MatchesAny(p.require_approval_if, request)
    [] clause = "require_approval_for_attachments" ->
         p.require_approval_for_attachments /\ HasAttachments(request.args)
    [] clause = "log" -> p.risk = "low" /\ p.log

ClauseDecision(clause) ==
  CASE clause \in {"block_if", "block_external_domains"} -> "block"
    [] clause = "log" -> "log_only"
    [] OTHER -> "require_approval"

ClauseCode(clause) ==
  CASE clause = "block_if"               -> "policy_block_if_matched"
    [] clause = "block_external_domains" -> "policy_blocked_domain"
    [] clause = "require_approval"       -> "policy_require_approval_always"
    [] clause = "require_approval_if"    -> "policy_require_approval_condition"
    [] clause = "log"                    -> "policy_log_only"
    [] OTHER                             -> "policy_attachment_approval"

(* The first clause that applies answers.                                  *)
Answers(i, p, request) ==
  /\ Applies(ClauseOrder[i], p, request)
  /\ \A j \in 1..i-1 : ~Applies(ClauseOrder[j], p, request)

PolicyAnswer(clause, p) ==
  [decision |-> ClauseDecision(clause),
   level    |-> IF p.risk = "" THEN "none" ELSE p.risk,
   codes    |-> IF p.risk = "" THEN << ClauseCode(clause) >>
                               ELSE << ClauseCode(clause), "policy_risk_" \o p.risk >>]

Evaluate(p, request) ==
  IF \E i \in DOMAIN ClauseOrder : Answers(i, p, request)
    THEN PolicyAnswer(ClauseOrder[CHOOSE i \in DOMAIN ClauseOrder : Answers(i, p, request)], p)
    ELSE NoPolicy

(* A tool without a policy, and a request without a tool, get no answer.   *)
EvaluatePolicy(request) ==
  IF request.tool \in DOMAIN tools THEN Evaluate(tools[request.tool], request) ELSE NoPolicy
=============================================================================
