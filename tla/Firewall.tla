------------------------------ MODULE Firewall ------------------------------
(***************************************************************************)
(* What the firewall engine promises (spec.md 4.E): a table is a set of    *)
(* chains, each an ordered list of rules; a built-in chain also has a     *)
(* policy; a user chain exists between -N and -X.  -A appends a rule, -I  *)
(* puts it first, -D removes the first equal rule, -F empties a chain, -P *)
(* sets a built-in chain's policy, and commit makes the kernel hold what  *)
(* the commands built (or, when the kernel refuses it, leaves it as it    *)
(* was).  A rule is its match and the name of its target; a jump names    *)
(* the chain it enters.  A command whose chain or target does not exist   *)
(* changes nothing.                                                        *)
(***************************************************************************)
EXTENDS Sequences, SequencesExt

CONSTANTS BuiltinChains, UserChains, Addrs, ExtTargets

VARIABLES user, rules, policy, committed

Chains == BuiltinChains \cup UserChains
Rule == [ip : Addrs, target : {"ACCEPT", "DROP"} \cup ExtTargets \cup UserChains]
Table == [user |-> user, rules |-> rules, policy |-> policy]

TypeOK ==
    /\ user \subseteq UserChains
    /\ rules \in [Chains -> Seq(Rule)]
    /\ policy \in [BuiltinChains -> {"ACCEPT", "DROP"}]

Exists(c) == c \in BuiltinChains \/ c \in user
Resolves(r) == r.target \notin UserChains \/ r.target \in user

Init ==
    /\ user = {}
    /\ rules = [c \in Chains |-> <<>>]
    /\ policy = [c \in BuiltinChains |-> "ACCEPT"]
    /\ committed = Table

\* a new user chain is empty
NewChain(c) ==
    /\ c \in UserChains \ user
    /\ user' = user \cup {c}
    /\ UNCHANGED <<rules, policy, committed>>

\* only an empty user chain that no rule jumps to is deleted
RemoveChain(c) ==
    /\ c \in user /\ rules[c] = <<>>
    /\ \A d \in Chains : \A i \in DOMAIN rules[d] : rules[d][i].target # c
    /\ user' = user \ {c}
    /\ UNCHANGED <<rules, policy, committed>>

Flush(c) ==
    /\ Exists(c) /\ rules[c] # <<>>
    /\ rules' = [rules EXCEPT ![c] = <<>>]
    /\ UNCHANGED <<user, policy, committed>>

SetPolicy(c, p) ==
    /\ c \in BuiltinChains /\ policy[c] # p
    /\ policy' = [policy EXCEPT ![c] = p]
    /\ UNCHANGED <<user, rules, committed>>

AppendRule(c, r) ==
    /\ Exists(c) /\ Resolves(r)
    /\ rules' = [rules EXCEPT ![c] = Append(@, r)]
    /\ UNCHANGED <<user, policy, committed>>

InsertRule(c, r) ==
    /\ Exists(c) /\ Resolves(r)
    /\ rules' = [rules EXCEPT ![c] = <<r>> \o @]
    /\ UNCHANGED <<user, policy, committed>>

DeleteRule(c, r) ==
    /\ Exists(c) /\ Contains(rules[c], r)
    /\ rules' = [rules EXCEPT ![c] = RemoveFirst(@, r)]
    /\ UNCHANGED <<user, policy, committed>>

Commit ==
    /\ committed # Table
    /\ committed' = Table
    /\ UNCHANGED <<user, rules, policy>>

Next ==
    \/ Commit
    \/ \E c \in Chains :
         \/ NewChain(c) \/ RemoveChain(c) \/ Flush(c)
         \/ \E p \in {"ACCEPT", "DROP"} : SetPolicy(c, p)
         \/ \E r \in Rule : AppendRule(c, r) \/ InsertRule(c, r) \/ DeleteRule(c, r)

Spec == Init /\ [][Next]_<<user, rules, policy, committed>>
====
