------------------------ MODULE MC_IptablesRefines ------------------------
(***************************************************************************)
(* Iptables checked against the abstract firewall of Firewall.tla.  The   *)
(* variable "view" holds the table the mirror and the kernel stand for    *)
(* (TableOf), computed once per state; the refinement mapping reads it.   *)
(***************************************************************************)
EXTENDS MC_Iptables

VARIABLE view

\* view' from the tables of the next state, each built once; only a
\* commit changes the kernel's table, and a command that fails leaves
\* the mirror as it was
NextView ==
    IF mirror' = mirror /\ kernel' = kernel THEN view' = view
    ELSE \E cur \in {IF mirror' = NoTable THEN iptables_init(kernel') ELSE mirror'} :
      \E com \in {IF kernel' = kernel THEN view.com
                   ELSE TableOf(iptables_init(kernel'))} :
        view' = [cur |-> TableOf(cur), com |-> com]

MCInit ==
    /\ Init
    /\ \E com \in {iptables_init(kernel)} :
         view = [cur |-> TableOf(com), com |-> TableOf(com)]

\* The commands the engine edits correctly.  Left out: -I into a built-in
\* chain, -P on a built-in chain that has rules, -F and -X while a jump
\* exists, and -D in a built-in chain (each is a run or a hazard of its
\* own).
BuiltinChains == {HookName(h) : h \in Hooks}
NoJumps == \A c \in Chains : \A i \in DOMAIN view.cur.rules[c] :
              view.cur.rules[c][i].target \notin UserChains
UsageNext ==
    /\ \/ Commit
       \/ \E table \in {Current} :
            \/ \E c \in UserChains : AddChain(table, c)
            \/ \E c \in Chains :
                 \/ NoJumps /\ DeleteChain(table, c)
                 \/ NoJumps /\ FlushChain(table, c)
                 \/ \E p \in Policies :
                      view.cur.rules[c] = <<>> /\ ChangePolicy(table, c, p)
                 \/ \E ip \in Addrs, tg \in Targets :
                      \/ AppendRule(table, c, ip, tg)
                      \/ c \in UserChains /\ InsertRule(table, c, ip, tg)
                      \/ c \in UserChains /\ DeleteRule(table, c, ip, tg, TRUE)
    /\ NextView

FW == INSTANCE Firewall WITH
        BuiltinChains <- BuiltinChains,
        user <- view.cur.user, rules <- view.cur.rules,
        policy <- view.cur.policy, committed <- view.com

\* Spec 4.E and 8: every sequence of commands edits the table the way the
\* commands say (-A appends, -I puts first, -D removes, -F empties, -P sets
\* the policy, -N/-X add and remove an empty unreferenced chain), jumps
\* keep entering the chain they name, and commit hands the kernel that
\* table (iptables_add_entry, update_hooks, update_targets_reference,
\* iptables_flush_chain, iptables_delete_rule, iptables_change_policy).
Refines == FW!Spec
====
