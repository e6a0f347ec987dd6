----------------------------- MODULE PolicyEngine -----------------------------
(***************************************************************************)
(* ExternalAgentPolicyEngine (policy_engine.py): policies are added,       *)
(* replaced and removed, and decide together whether a request is allowed. *)
(*                                                                         *)
(* One kind of request is modelled.  What its attributes make of the       *)
(* conditions of a policy is kept with the policy: they match, or they do  *)
(* not, or looking at them raises; those of one that is disabled are not   *)
(* looked at.  Deciding does not suspend.                                  *)
(***************************************************************************)
EXTENDS Integers

CONSTANTS
    Policies,     \* the ids of policies
    Priorities,   \* higher goes first
    DefaultEffect,\* the answer of an engine none of whose policies matches
    FailClosed    \* whether one that cannot decide denies

VARIABLES
    strategy,     \* how the engine resolves conflicts, which never changes
    policy,       \* policy[p]: the policy under that id, or absent
    older         \* pairs of ids, the first of which was added before the second

vars == <<strategy, policy, older>>

Effects == {"allow", "deny"}

Strategies == {"deny_overrides", "allow_overrides", "first_match"}

Policy == [effect: Effects, priority: Priorities,
           on: {"disabled", "match", "mismatch", "raise"}]

Absent == [effect |-> "none"]

TypeOK ==
    /\ strategy \in Strategies
    /\ policy \in [Policies -> Policy \cup {Absent}]
    /\ older \in SUBSET (Policies \X Policies)

Init ==
    /\ strategy \in Strategies
    /\ policy = [p \in Policies |-> Absent]
    /\ older = {}

Present == {p \in Policies : policy[p] # Absent}

-----------------------------------------------------------------------------
\* add_policy: one of an id that is there already replaces it, in its place.
AddPolicy(p, new) ==
    /\ policy' = [policy EXCEPT ![p] = new]
    /\ older' = IF p \in Present THEN older ELSE older \cup (Present \X {p})
    /\ UNCHANGED strategy

RemovePolicy(p) ==
    /\ p \in Present
    /\ policy' = [policy EXCEPT ![p] = Absent]
    /\ older' = older \cap ((Policies \ {p}) \X (Policies \ {p}))
    /\ UNCHANGED strategy

ClearPolicies ==
    /\ policy' = [p \in Policies |-> Absent]
    /\ older' = {}
    /\ UNCHANGED strategy

Next ==
    \/ \E p \in Policies :
           \/ \E new \in Policy : AddPolicy(p, new)
           \/ RemovePolicy(p)
    \/ ClearPolicies

Spec == Init /\ [][Next]_vars

-----------------------------------------------------------------------------
\* Mutant: policies of any priority are looked at as they were added.
BeforeByAge(p, q) == <<p, q>> \in older

\* The order in which the policies are looked at: by priority, and as they were
\* added where it is the same.
Before(p, q) ==
    \/ policy[p].priority > policy[q].priority
    \/ policy[p].priority = policy[q].priority /\ <<p, q>> \in older

Matching == {p \in Present : policy[p].on = "match"}

\* With first_match the first match ends the search.
Reached(p) ==
    strategy = "first_match" => \A q \in Matching : ~Before(q, p)

\* _resolve_conflicts, and the early return of first_match.
Resolved ==
    LET effects == {policy[p].effect : p \in {q \in Matching : Reached(q)}} IN
    IF effects = {} THEN DefaultEffect
    ELSE IF strategy = "allow_overrides"
         THEN IF "allow" \in effects THEN "allow" ELSE "deny"
         ELSE IF "deny" \in effects THEN "deny" ELSE "allow"

\* Without policies, and when looking at one raises.
Failing == IF FailClosed THEN "deny" ELSE "allow"

\* evaluate_policies.
Decision ==
    IF Present = {} \/ (\E p \in Present : policy[p].on = "raise" /\ Reached(p))
    THEN Failing ELSE Resolved

-----------------------------------------------------------------------------
\* A policy that takes no part: absent, disabled, with conditions that do not
\* match, or, where the first match decides, outranked by a match.
TakesNoPart(p) ==
    \/ policy[p] = Absent
    \/ policy[p].on \in {"disabled", "mismatch"}
    \/ /\ strategy = "first_match"
       /\ \E q \in Matching : policy[q].priority > policy[p].priority

\* What a policy that takes part asks for.
Answer(p) == IF policy[p].on = "raise" THEN Failing ELSE policy[p].effect

\* Whatever the strategy, a policy that is added, replaced or removed moves the
\* decision in its own way only: it changes to what the policy asks for now, or
\* from what it asked for, and not at all if the policy takes no part before and
\* after.  The first policy and the last are apart: an engine without policies
\* answers by another rule than one without a match.
PolicyMovesItsWay ==
    [][\A p \in Policies :
          policy'[p] # policy[p] /\ Present \ {p} # {} /\ Present' \ {p} # {} =>
              \/ Decision' = Decision
              \/ ~TakesNoPart(p)' /\ Decision' = Answer(p)'
              \/ ~TakesNoPart(p) /\ Decision = Answer(p)]_vars

-----------------------------------------------------------------------------
\* What it rests on: older is an order of the policies there are.
InOrder ==
    /\ older \subseteq Present \X Present
    /\ \A p \in Present : <<p, p>> \notin older
    /\ \A p, q \in Present : p # q => <<p, q>> \in older \/ <<q, p>> \in older
    /\ \A p, q, r \in Present : <<p, q>> \in older /\ <<q, r>> \in older => <<p, r>> \in older
=============================================================================
