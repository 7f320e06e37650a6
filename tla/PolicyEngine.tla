---------------------------- MODULE PolicyEngine ----------------------------
(***************************************************************************)
(* The authorization engine: evaluations that read the rules of the        *)
(* destination's namespace and then, in a second step, the global rules,   *)
(* while the operator adds namespace rules and replaces the global ones.   *)
(*                                                                         *)
(* The reason a denial carries is left out.                                *)
(***************************************************************************)
EXTENDS SpiffeIdentity, FiniteSets

CONSTANTS
  Evals,        \* calls of evaluate
  Namespaces,   \* the namespaces the operator adds rules to
  Rules,        \* the rules the operator may use
  RuleBound,    \* bound: rules in one namespace
  GlobalBound,  \* bound: global rules
  default_decision  \* set before the engine is shared

Decisions == {"Allow", "Deny"}

ASSUME PolicyAssumption ==
  /\ \A r \in Rules : r.decision \in Decisions
  /\ RuleBound \in Nat
  /\ GlobalBound \in Nat
  /\ default_decision \in Decisions
  /\ None \notin Decisions

VARIABLES
  namespace_policies,  \* namespace_policies[n]: the rules of namespace n
  global_policies,     \* the global rules
  at,        \* at[e]: where the evaluation is
  pair,      \* pair[e]: its source and destination
  decision,  \* decision[e]: its answer
  moments,   \* moments[e]: the answers of the policy as it stood at some moment of the call
  crossed    \* crossed[e]: what changed between the two reads, in which order

store == <<namespace_policies, global_policies>>
calls == <<at, pair, decision, moments, crossed>>
policyVars == <<store, calls>>

RuleLists(n) == UNION {[1..k -> Rules] : k \in 0..n}

PolicyTypeOK ==
  /\ namespace_policies \in [Namespaces -> RuleLists(RuleBound)]
  /\ global_policies \in RuleLists(GlobalBound)
  /\ at \in [Evals -> {"idle", "global", "done"}]
  /\ decision \in [Evals -> Decisions \cup {None}]
  /\ moments \in [Evals -> SUBSET Decisions]
  /\ crossed \in [Evals -> {"nothing", "namespace", "namespaceThenGlobal"}]

\* PolicyEngine::new
PolicyInit ==
  /\ namespace_policies = [n \in Namespaces |-> <<>>]
  /\ global_policies = <<>>
  /\ at = [e \in Evals |-> "idle"]
  /\ pair = [e \in Evals |-> None]
  /\ decision = [e \in Evals |-> None]
  /\ moments = [e \in Evals |-> {}]
  /\ crossed = [e \in Evals |-> "nothing"]

-----------------------------------------------------------------------------
\* The rules of policy::patterns.  The URIs parse, or the constructor panics.
allow_same_namespace(td, ns) ==
  LET within == CompiledPattern([spiffe |-> TRUE, text |-> <<td, "ns", ns, "sa", "*">>])
  IN [source |-> within, destination |-> within, decision |-> "Allow"]

deny(uri) ==
  [source |-> CompiledPattern(uri), destination |-> AnyPattern, decision |-> "Deny"]

Matches(rule, p) ==
  /\ matches_compiled(p.source, rule.source)
  /\ matches_compiled(p.destination, rule.destination)

Matching(rules, p) == {i \in DOMAIN rules : Matches(rules[i], p)}

\* The decision of the first rule that matches, or None.
FirstMatch(rules, p) ==
  IF Matching(rules, p) = {} THEN None
  ELSE rules[CHOOSE i \in Matching(rules, p) : \A j \in Matching(rules, p) : i <= j].decision

GlobalDecision(globals, p) ==
  IF FirstMatch(globals, p) = None THEN default_decision ELSE FirstMatch(globals, p)

\* A namespace without an entry has no rules.
OwnRules(spaces, n) == IF n \in DOMAIN spaces THEN spaces[n] ELSE <<>>

\* What the policy says of a pair when all of it is read at once.
Says(spaces, globals, p) ==
  LET own == FirstMatch(OwnRules(spaces, p.destination.namespace), p)
  IN IF own = None THEN GlobalDecision(globals, p) ELSE own

-----------------------------------------------------------------------------
\* evaluate, the rules of the namespace, read under the entry's guard.
EvaluateNamespace(e, p) ==
  LET own == FirstMatch(OwnRules(namespace_policies, p.destination.namespace), p) IN
  /\ at[e] = "idle"
  /\ pair' = [pair EXCEPT ![e] = p]
  /\ decision' = [decision EXCEPT ![e] = own]
  /\ at' = [at EXCEPT ![e] = IF own = None THEN "global" ELSE "done"]
  /\ moments' = [moments EXCEPT ![e] = {Says(namespace_policies, global_policies, p)}]
  /\ UNCHANGED <<store, crossed>>

\* Mutant: without a global rule that matches, the caller is let in.
EvaluateGlobalOpen(e) ==
  /\ at[e] = "global"
  /\ decision' = [decision EXCEPT ![e] =
                    IF FirstMatch(global_policies, pair[e]) = None THEN "Allow"
                    ELSE FirstMatch(global_policies, pair[e])]
  /\ at' = [at EXCEPT ![e] = "done"]
  /\ UNCHANGED <<store, pair, moments, crossed>>

\* evaluate, the global rules as they are loaded then, and the default.
EvaluateGlobal(e) ==
  /\ at[e] = "global"
  /\ decision' = [decision EXCEPT ![e] = GlobalDecision(global_policies, pair[e])]
  /\ at' = [at EXCEPT ![e] = "done"]
  /\ UNCHANGED <<store, pair, moments, crossed>>

\* The evaluations between their reads see one more state of the policy.
Observe ==
  moments' = [e \in Evals |->
    IF at[e] = "global"
    THEN moments[e] \cup {Says(namespace_policies', global_policies', pair[e])}
    ELSE moments[e]]

\* Mutant: a new rule goes to the front.
AddNamespaceRuleFirst(n, rule) ==
  /\ Len(namespace_policies[n]) < RuleBound
  /\ namespace_policies' = [namespace_policies EXCEPT ![n] = <<rule>> \o @]
  /\ UNCHANGED <<global_policies, at, pair, decision>>
  /\ Observe
  /\ crossed' = [e \in Evals |-> IF /\ at[e] = "global"
                                    /\ pair[e].destination.namespace = n
                                    /\ crossed[e] = "nothing"
                                 THEN "namespace" ELSE crossed[e]]

add_namespace_rule(n, rule) ==
  /\ Len(namespace_policies[n]) < RuleBound
  /\ namespace_policies' = [namespace_policies EXCEPT ![n] = Append(@, rule)]
  /\ UNCHANGED <<global_policies, at, pair, decision>>
  /\ Observe
  /\ crossed' = [e \in Evals |-> IF /\ at[e] = "global"
                                    /\ pair[e].destination.namespace = n
                                    /\ crossed[e] = "nothing"
                                 THEN "namespace" ELSE crossed[e]]

set_global_policies(rules) ==
  /\ rules # global_policies
  /\ global_policies' = rules
  /\ UNCHANGED <<namespace_policies, at, pair, decision>>
  /\ Observe
  /\ crossed' = [e \in Evals |-> IF at[e] = "global" /\ crossed[e] = "namespace"
                                 THEN "namespaceThenGlobal" ELSE crossed[e]]

PolicyChange ==
  \/ \E n \in Namespaces, r \in Rules : add_namespace_rule(n, r)
  \/ \E rules \in RuleLists(GlobalBound) : set_global_policies(rules)

-----------------------------------------------------------------------------
\* The two reads of an evaluation add up to one: its answer is what the whole
\* policy said at some moment of the call.  The one exception is a rule added to
\* the destination's namespace after the first read, followed by a new global
\* list before the second.
DecisionOfSomeMoment ==
  \A e \in Evals :
    at[e] = "done" /\ crossed[e] # "namespaceThenGlobal" => decision[e] \in moments[e]

\* In a namespace the first rule wins for good: what a namespace rule has decided
\* for a pair, no rule added later and no global list changes.
NamespaceRulesStable ==
  [][\A e \in Evals :
       pair[e] # None =>
         LET own == FirstMatch(OwnRules(namespace_policies, pair[e].destination.namespace),
                               pair[e])
         IN own # None => Says(namespace_policies', global_policies', pair[e]) = own]_policyVars
=============================================================================
