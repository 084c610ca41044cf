------------------------------ MODULE ToolProfiles ------------------------------
(***************************************************************************)
(* Tool profiles of the MCP gateway (mcp/profiles.py): which tools of which *)
(* upstream a session may see and which it may call. A profile declares     *)
(* lists of rules and may extend another profile of the same document. The  *)
(* module has no state: it says what a document means.                      *)
(*                                                                          *)
(* A rule is a pair <<upstream, tool>>, with Any for the tool of a rule     *)
(* "upstream.*". A RuleSet of the code, with its globs and its exact rules, *)
(* is a set of such pairs; a chain of them, whose order and repetitions do  *)
(* not matter, is a set of rule sets. A document maps the names it defines  *)
(* to profiles; None stands for a field that is not there.                  *)
(***************************************************************************)
EXTENDS Naturals

CONSTANTS
    Upstreams,        \* the configured upstream servers
    Tools,            \* the tools an upstream may list
    Any,              \* the "*" of a rule for all tools of an upstream
    Names,            \* names of profiles
    None,             \* an absent field
    MaxExtendsDepth   \* MAX_EXTENDS_DEPTH: profiles along an extends chain

ASSUME ToolsAssumption == Any \notin Tools /\ Tools # {}
ASSUME DepthAssumption == MaxExtendsDepth \in Nat \ {0}
ASSUME NoneAssumption == None \notin Names

Rules == Upstreams \X (Tools \cup {Any})
Profile == [extends  : Names \cup {None},
            visible  : SUBSET Rules \cup {None},
            callable : SUBSET Rules \cup {None}]

(* RuleSet.matches *)
Matches(rules, upstream, tool) ==
    <<upstream, Any>> \in rules \/ <<upstream, tool>> \in rules

(* A field is granted by every list the chain declares, by nothing if it    *)
(* declares none. (ActiveProfile.is_visible, is_callable)                   *)
Granted(chain, upstream, tool) ==
    chain # {} /\ \A rules \in chain : Matches(rules, upstream, tool)

IsVisible(profile, upstream, tool) == Granted(profile.visible, upstream, tool)
IsCallable(profile, upstream, tool) ==
    IsVisible(profile, upstream, tool) /\ Granted(profile.callable, upstream, tool)

(* The tools of an upstream that every list without its "*" rule names.     *)
NamedByAll(lists, upstream) ==
    {tool \in Tools : \A rules \in lists : <<upstream, tool>> \in rules}

(* Decides, without knowing what the upstream lists, whether the upstream   *)
(* may contribute a visible tool, that is whether to start it at all.       *)
HasVisibleTools(profile, upstream) ==
    LET exact == {rules \in profile.visible : <<upstream, Any>> \notin rules}
    IN  /\ profile.visible # {}
        /\ exact # {} => NamedByAll(exact, upstream) # {}

(* _rule_covered: only "*" covers "*". *)
RuleCovered(rule, rules) == rule \in rules \/ <<rule[1], Any>> \in rules
Covered(declared, rules) == \A rule \in declared : RuleCovered(rule, rules)

Parent(document, name) ==
    IF name \in DOMAIN document.profiles THEN document.profiles[name].extends ELSE None

(* The name, its parent, the parent's parent and so on, then None.          *)
Walk(document, name) ==
    LET up[i \in 0..MaxExtendsDepth] ==
            IF i = 0 THEN name ELSE Parent(document, up[i - 1])
    IN  up

(* The walk from every profile ends at a root: no unknown parent, no cycle, *)
(* and not too many steps.                                                  *)
ExtendsValid(document) ==
    \A name \in DOMAIN document.profiles : \E i \in 0..(MaxExtendsDepth - 1) :
        LET ancestor == Walk(document, name)[i]
        IN  ancestor \in DOMAIN document.profiles /\ Parent(document, ancestor) = None

CallableCovered(profile) ==
    profile.visible # None /\ profile.callable # None => Covered(profile.callable, profile.visible)

(* _semantic_errors finds none *)
Valid(document) ==
    /\ document.default \in DOMAIN document.profiles \cup {None}
    /\ ExtendsValid(document)
    /\ \A name \in DOMAIN document.profiles : CallableCovered(document.profiles[name])

Ancestry(document, name) ==
    {Walk(document, name)[i] : i \in 0..MaxExtendsDepth} \cap DOMAIN document.profiles

(* _resolve_active: every list that is declared along the extends chain     *)
Active(document, name) ==
    LET chain == {document.profiles[ancestor] : ancestor \in Ancestry(document, name)}
    IN  [visible  |-> {profile.visible : profile \in chain} \ {None},
         callable |-> {profile.callable : profile \in chain} \ {None}]

(* select_profile_name: the requested name, or the default of the document  *)
Selected(document, requested) == IF requested # None THEN requested ELSE document.default

(* An artifact that declares nothing for a field grants nothing of it, and  *)
(* keeps granting nothing when its chain is joined with another.            *)
(* Mutant for GrantsOnlyNarrow: what is not declared does not restrict.     *)
OrDenyAll_Not(chain) == chain
OrDenyAll(chain) == IF chain = {} THEN {{}} ELSE chain
Intersect(bundle, local) ==
    [visible  |-> OrDenyAll(bundle.visible) \cup OrDenyAll(local.visible),
     callable |-> OrDenyAll(bundle.callable) \cup OrDenyAll(local.callable)]
================================================================================
