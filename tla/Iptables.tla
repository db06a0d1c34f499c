------------------------------ MODULE Iptables ------------------------------
(***************************************************************************)
(* The firewall engine of connman (src/iptables.c): an in-memory mirror of *)
(* one kernel table, kept as the list of its entries (GList of struct     *)
(* connman_iptables_entry: byte offset, built-in hook index or -1, and the *)
(* kernel-layout entry), the per-hook hook_entry and underflow byte        *)
(* cursors, and the table size.  Commands (__connman_iptables_command)     *)
(* edit the mirror, loading it from the kernel first if it is not in the   *)
(* table hash; commit (__connman_iptables_commit) hands the serialised     *)
(* table to the kernel and drops the mirror.                               *)
(*                                                                         *)
(* An entry is abstracted to its size (next_offset), its target (the      *)
(* standard target with a verdict, the error target that heads a user     *)
(* chain with the chain name as data, or an extension target), and its    *)
(* ipt_ip match, a member of Addrs.  Jumps are standard targets whose      *)
(* verdict is the byte offset of the first entry of the target chain.     *)
(***************************************************************************)
EXTENDS Integers, Sequences, SequencesExt, FiniteSets

CONSTANTS
    Hooks,        \* the table's valid hooks, a subset of 0..4
    UserChains,   \* names of user chains a command may name
    Addrs,        \* the ipt_ip part of a rule (source address and mask)
    MaxEntries,   \* bound on the number of entries of the mirror
    NoTable       \* the table is not in table_hash

VARIABLES
    mirror,  \* g_hash_table_lookup(table_hash, name): the mirror or NoTable
    kernel   \* the table the kernel holds: its entries and hook cursors

vars == <<mirror, kernel>>

\* hooknames[]
hooknames == <<"PREROUTING", "INPUT", "FORWARD", "OUTPUT", "POSTROUTING">>
HookName(h) == hooknames[h + 1]

\* Verdicts of the standard target: -NF_ACCEPT - 1, -NF_DROP - 1,
\* -NF_QUEUE - 1, XT_RETURN (-NF_REPEAT - 1), -NF_STOP - 1.
ACCEPT == -2
DROP == -1
QUEUE == -4
RETURN == -5
STOP == -6

\* Byte sizes: struct ipt_entry, and the aligned targets that follow it.
IPT_ENTRY == 112
STANDARD_TARGET == 40
ERROR_TARGET == 64
EXT_TARGET == 72      \* MASQUERADE: ipt_entry_target + nf_nat range

ExtTargets == {"MASQUERADE"}
Targets == {"ACCEPT", "DROP"} \cup ExtTargets \cup UserChains

\* target_to_verdict, is_builtin_target
target_to_verdict(name) ==
    CASE name = "ACCEPT" -> ACCEPT [] name = "DROP" -> DROP
      [] name = "QUEUE" -> QUEUE [] name = "RETURN" -> RETURN
      [] OTHER -> 0
is_builtin_target(name) == name \in {"ACCEPT", "DROP", "QUEUE", "RETURN"}

\* A kernel-layout entry; Entry(...) is a connman_iptables_entry.
Blob(size, target, name, verdict, ip) ==
    [size |-> size, target |-> target, name |-> name, verdict |-> verdict,
     ip |-> ip]
Entry(offset, builtin, e) == [offset |-> offset, builtin |-> builtin, entry |-> e]

\* is_jump: a standard target whose verdict is not a built-in one
is_jump(e) ==
    e.entry.target = "standard"
    /\ e.entry.verdict \notin {RETURN, ACCEPT, DROP, QUEUE, STOP}

\* is_chain: a built-in chain head or an error target (user chain head)
is_chain(e) == e.builtin >= 0 \/ e.entry.target = "ERROR"

-----------------------------------------------------------------------------
(* Chain lookup; list positions are indices of t.entries, 0 is NULL.      *)

find_chain_head(t, name) ==
    SelectInSeq(t.entries, LAMBDA e :
        \/ e.builtin >= 0 /\ HookName(e.builtin) = name
        \/ e.entry.target = "ERROR" /\ e.entry.name = name)

find_chain_tail(t, name) ==
    LET h == find_chain_head(t, name)
        n == SelectInSubSeq(t.entries, h + 1, Len(t.entries), is_chain)
    IN CASE h = 0 -> 0
         [] n # 0 -> n
         [] OTHER -> Len(t.entries)

\* update_offsets: each offset is the previous offset plus its next_offset
RECURSIVE OffsetAt(_, _)
OffsetAt(es, i) ==
    IF i = 1 THEN 0 ELSE OffsetAt(es, i - 1) + es[i - 1].entry.size

update_offsets(t) ==
    [t EXCEPT !.entries =
        [i \in DOMAIN t.entries |->
            [t.entries[i] EXCEPT !.offset = OffsetAt(t.entries, i)]]]

\* update_targets_reference: jumps past the change point move by the size
\* of the added or removed entry
update_targets_reference(t, before_offset, size, is_removing) ==
    [t EXCEPT !.entries =
        [i \in DOMAIN t.entries |->
            LET e == t.entries[i] IN
            IF ~is_jump(e) THEN e
            ELSE IF is_removing
                 THEN IF e.entry.verdict >= before_offset
                      THEN [e EXCEPT !.entry.verdict = @ - size] ELSE e
                 ELSE IF e.entry.verdict > before_offset
                      THEN [e EXCEPT !.entry.verdict = @ + size] ELSE e]]

\* iptables_add_entry: insert before position "before" (0 appends)
iptables_add_entry(t, x, before, builtin) ==
    LET grown == [t EXCEPT !.size = @ + x.size, !.num_entries = @ + 1]
    IN IF before = 0
       THEN [grown EXCEPT !.entries =
                Append(@, Entry(grown.size - x.size, builtin, x))]
       ELSE update_offsets(
              update_targets_reference(
                [grown EXCEPT !.entries =
                    InsertAt(@, before, Entry(0, builtin, x))],
                t.entries[before].offset, x.size, FALSE))

\* remove_table_entry
remove_table_entry(t, i) ==
    [t EXCEPT !.num_entries = @ - 1, !.size = @ - t.entries[i].entry.size,
              !.entries = RemoveAt(@, i)]

\* the hook cursors of the built-in heads at or after position "from"
\* move by delta, once per head found
ShiftLaterHooks(t, from, delta) ==
    LET heads(b) == Cardinality({j \in from..Len(t.entries) :
                                    t.entries[j].builtin = b})
    IN [t EXCEPT !.hook_entry = [b \in Hooks |-> t.hook_entry[b] + delta * heads(b)],
                 !.underflow = [b \in Hooks |-> t.underflow[b] + delta * heads(b)]]

\* bytes of the entries at positions i..j
SizeBetween(es, i, j) == OffsetAt(es, j + 1) - OffsetAt(es, i)

\* iptables_flush_chain: remove the rules between the head and the entry
\* before the tail; a built-in chain loses its flagged first rule, so the
\* flag goes to the policy entry, and the cursors after it move back
FlushRules(t, first, last, builtin) ==
    LET removed == SizeBetween(t.entries, first, last)
        cut == [t EXCEPT !.size = @ - removed,
                         !.num_entries = @ - (last - first + 1),
                         !.entries = SubSeq(@, 1, first - 1)
                                     \o SubSeq(@, last + 1, Len(@))]
    IN update_offsets(
         IF builtin < 0 THEN cut
         ELSE ShiftLaterHooks([cut EXCEPT !.entries[first].builtin = builtin,
                                          !.underflow[builtin] = @ - removed],
                              first + 1, -removed))

iptables_flush_chain(t, name) ==
    LET h == find_chain_head(t, name)
        tl == find_chain_tail(t, name)
        first == IF t.entries[h].builtin >= 0 THEN h ELSE h + 1
    IN IF h = 0 \/ first = tl - 1 THEN t
       ELSE FlushRules(t, first, tl - 2, t.entries[h].builtin)

\* iptables_add_chain: an error-target head and a RETURN tail, both put
\* before the last entry of the table
iptables_add_chain(t, name) ==
    LET last == Len(t.entries) IN
    iptables_add_entry(
        iptables_add_entry(t, Blob(IPT_ENTRY + ERROR_TARGET, "ERROR", name, 0, "any"),
                           last, -1),
        Blob(IPT_ENTRY + STANDARD_TARGET, "standard", "", RETURN, "any"),
        IF last = 0 THEN 0 ELSE last + 1, -1)

\* iptables_delete_chain: only an empty user chain; head and tail go
iptables_delete_chain(t, name) ==
    LET h == find_chain_head(t, name)
        tl == find_chain_tail(t, name)
    IN IF h = 0 \/ t.entries[h].builtin >= 0 \/ h + 1 # tl - 1 THEN t
       ELSE update_offsets(remove_table_entry(remove_table_entry(t, h), h))

\* new_rule: an entry with no match and the prepared target
new_rule(ip, xt) == Blob(IPT_ENTRY + xt.size, xt.target, "", xt.verdict, ip)

NoTarget == [target |-> "none", size |-> 0, verdict |-> 0]

\* prepare_target: a built-in verdict, a jump to the first entry after a
\* chain head, or an extension target; NULL for an unknown name
prepare_target(t, name) ==
    LET h == find_chain_head(t, name) IN
    CASE is_builtin_target(name) ->
            [target |-> "standard", size |-> STANDARD_TARGET,
             verdict |-> target_to_verdict(name)]
      [] h # 0 /\ h < Len(t.entries) ->
            [target |-> "standard", size |-> STANDARD_TARGET,
             verdict |-> t.entries[h + 1].offset]
      [] name \in ExtTargets ->
            [target |-> name, size |-> EXT_TARGET, verdict |-> 0]
      [] OTHER -> NoTarget

\* seeded bug: only the chain's own underflow moves
update_hooks_nolater(t, h, x) ==
    IF t.entries[h].builtin < 0 THEN t
    ELSE [t EXCEPT !.underflow[t.entries[h].builtin] = @ + x.size]

\* update_hooks: a rule added to a built-in chain moves its underflow and
\* every cursor of a later built-in head
update_hooks(t, h, x) ==
    IF t.entries[h].builtin < 0 THEN t
    ELSE ShiftLaterHooks([t EXCEPT !.underflow[t.entries[h].builtin] = @ + x.size],
                         h + 1, x.size)

\* seeded bug: the empty built-in chain keeps its flag when a rule takes it
prepare_rule_inclusion_keepflag(t, name, x) ==
    LET h == find_chain_head(t, name)
        tl == find_chain_tail(t, name)
    IN CASE h = 0 -> [ok |-> FALSE, t |-> t, builtin |-> -1]
         [] t.entries[h].builtin >= 0 /\ h = tl - 1 ->
               [ok |-> TRUE, builtin |-> t.entries[h].builtin, t |-> update_hooks(t, h, x)]
         [] OTHER -> [ok |-> TRUE, builtin |-> -1, t |-> update_hooks(t, h, x)]

\* prepare_rule_inclusion: the new rule takes the built-in flag of an
\* empty built-in chain (whose head is then its policy entry)
prepare_rule_inclusion(t, name, x) ==
    LET h == find_chain_head(t, name)
        tl == find_chain_tail(t, name)
    IN CASE h = 0 -> [ok |-> FALSE, t |-> t, builtin |-> -1]
         [] t.entries[h].builtin >= 0 /\ h = tl - 1 ->
               [ok |-> TRUE, builtin |-> t.entries[h].builtin,
                t |-> [update_hooks(t, h, x) EXCEPT !.entries[h].builtin = -1]]
         [] OTHER -> [ok |-> TRUE, builtin |-> -1, t |-> update_hooks(t, h, x)]

AddPrepared(p, x, before) ==
    IF p.ok THEN iptables_add_entry(p.t, x, before, p.builtin) ELSE p.t

\* iptables_append_rule: before the entry that precedes the chain tail
iptables_append_rule(t, name, ip, xt) ==
    IF find_chain_tail(t, name) = 0 THEN t
    ELSE AddPrepared(prepare_rule_inclusion(t, name, new_rule(ip, xt)),
                     new_rule(ip, xt), find_chain_tail(t, name) - 1)

\* iptables_insert_rule: before the entry that follows the chain head
iptables_insert_rule(t, name, ip, xt) ==
    LET h == find_chain_head(t, name) IN
    IF h = 0 THEN t
    ELSE AddPrepared(prepare_rule_inclusion(t, name, new_rule(ip, xt)),
                     new_rule(ip, xt), IF h < Len(t.entries) THEN h + 1 ELSE 0)

\* is_same_ipt_entry and is_same_target (no -m match is modelled): the same
\* ipt_ip and size, and the same verdict, or for an extension target the
\* same name
is_same_rule(e, x) ==
    /\ e.ip = x.ip /\ e.size = x.size
    /\ IF e.target = "standard" THEN e.verdict = x.verdict
                                ELSE e.target = x.target

\* the removal of the rule at position i of a chain whose head carries
\* "builtin" and whose tail is at position tl.  The code then reads
\* list->next of the list node g_list_remove has just freed: when the freed
\* node still links to the next entry (next_intact), that entry receives
\* the head's built-in flag, otherwise the flag goes nowhere in the list.
\* The chain's underflow and the cursors from the tail on move back.
RemoveRule(t, i, tl, builtin, next_intact) ==
    LET removed == t.entries[i].entry.size
        r == remove_table_entry(t, i)
        flagged == IF next_intact THEN [r EXCEPT !.entries[i].builtin = builtin]
                   ELSE r
    IN update_offsets(
         IF builtin < 0 THEN r
         ELSE ShiftLaterHooks([flagged EXCEPT !.underflow[builtin] = @ - removed],
                              tl - 1, -removed))

DeleteFound(t, i, tl, builtin, next_intact) ==
    IF i = 0 THEN t
    ELSE RemoveRule(update_targets_reference(t, t.entries[i + 1].offset,
                                             t.entries[i].entry.size, TRUE),
                    i, tl, builtin, next_intact)

\* iptables_delete_rule: the first matching entry from the head (a
\* built-in head is itself a rule) up to the entry before the tail
iptables_delete_rule(t, name, ip, xt, next_intact) ==
    LET h == find_chain_head(t, name)
        tl == find_chain_tail(t, name)
        builtin == t.entries[h].builtin
        first == IF builtin >= 0 THEN h ELSE h + 1
    IN IF h = 0 THEN t
       ELSE DeleteFound(t, SelectInSubSeq(t.entries, first, tl - 2,
                                          LAMBDA e : is_same_rule(e.entry, new_rule(ip, xt))),
                        tl, builtin, next_intact)

\* iptables_change_policy: the verdict of the entry that heads the chain
iptables_change_policy(t, name, policy) ==
    LET h == find_chain_head(t, name) IN
    IF target_to_verdict(policy) = 0 \/ h = 0 THEN t
    ELSE IF t.entries[h].builtin < 0 THEN t
    ELSE [t EXCEPT !.entries[h].entry.verdict = target_to_verdict(policy)]

-----------------------------------------------------------------------------
(* Loading from and committing to the kernel.                              *)

\* seeded bug: an entry that is no hook gets hook 0 instead of -1
is_hook_entry_zero(t, offset) ==
    LET H == {h \in Hooks : t.hook_entry[h] = offset}
    IN IF H = {} THEN 0 ELSE Min(H)

\* is_hook_entry: the first valid hook whose hook_entry is at the offset
is_hook_entry(t, offset) ==
    LET H == {h \in Hooks : t.hook_entry[h] = offset}
    IN IF H = {} THEN -1 ELSE Min(H)

\* iptables_init with add_entry over the blob: entries appended in order
\* at the running offset, each flagged with is_hook_entry
iptables_init(k) ==
    LET t == update_offsets(
               [entries |-> [i \in DOMAIN k.entries |-> Entry(0, -1, k.entries[i])],
                hook_entry |-> k.hook_entry, underflow |-> k.underflow,
                size |-> FoldLeft(LAMBDA a, e : a + e.size, 0, k.entries),
                num_entries |-> Len(k.entries)])
    IN [t EXCEPT !.entries =
          [i \in DOMAIN t.entries |->
              [t.entries[i] EXCEPT !.builtin = is_hook_entry(t, t.entries[i].offset)]]]

\* iptables_blob: the entries in list order and the hook cursors
iptables_blob(t) ==
    [entries |-> [i \in DOMAIN t.entries |-> t.entries[i].entry],
     hook_entry |-> t.hook_entry, underflow |-> t.underflow,
     size |-> t.size, num_entries |-> t.num_entries]

\* The kernel's check of IPT_SO_SET_REPLACE (translate_table): sizes add
\* up, every cursor and jump lands on an entry, and each underflow is an
\* unconditional ACCEPT or DROP.  A rejected table leaves both unchanged.
KernelAccepts(b) ==
    LET t == iptables_init(b)
        at == {t.entries[i].offset : i \in DOMAIN t.entries}
        entryAt(o) == t.entries[SelectInSeq(t.entries, LAMBDA e : e.offset = o)].entry
    IN /\ b.size = t.size /\ b.num_entries = Len(b.entries)
       /\ \A h \in Hooks :
             /\ b.hook_entry[h] \in at /\ b.underflow[h] \in at
             /\ entryAt(b.underflow[h]).target = "standard"
             /\ entryAt(b.underflow[h]).verdict \in {ACCEPT, DROP}
             /\ entryAt(b.underflow[h]).ip = "any"
       /\ \A i \in DOMAIN t.entries :
             is_jump(t.entries[i]) => t.entries[i].entry.verdict \in at

-----------------------------------------------------------------------------
(* Actions.  Each command is one call of __connman_iptables_command: the  *)
(* table is looked up or loaded (iptables_init), then edited.             *)

Chains == {HookName(h) : h \in Hooks} \cup UserChains
Policies == {"ACCEPT", "DROP"}

Current == IF mirror = NoTable THEN iptables_init(kernel) ELSE mirror

Command(t) ==
    \E new \in {t} :
      /\ Len(new.entries) <= MaxEntries
      /\ mirror' = new
      /\ UNCHANGED kernel

\* -N
AddChain(table, name) == Command(iptables_add_chain(table, name))
\* -X
DeleteChain(table, name) == Command(iptables_delete_chain(table, name))
\* -F
FlushChain(table, name) == Command(iptables_flush_chain(table, name))
\* -P
ChangePolicy(table, name, policy) ==
    Command(iptables_change_policy(table, name, policy))

\* -A, -I and -D with -j target: a target that prepare_target cannot
\* resolve ends the command after the table was loaded
RuleCommand(t, op, name, ip, xt, next_intact) ==
    CASE xt = NoTarget -> t
      [] op = "A" -> iptables_append_rule(t, name, ip, xt)
      [] op = "I" -> iptables_insert_rule(t, name, ip, xt)
      [] op = "D" -> iptables_delete_rule(t, name, ip, xt, next_intact)

RuleOp(table, op, name, ip, target, next_intact) ==
    \E xt \in {prepare_target(table, target)} :
      Command(RuleCommand(table, op, name, ip, xt, next_intact))

AppendRule(table, name, ip, target) == RuleOp(table, "A", name, ip, target, TRUE)
InsertRule(table, name, ip, target) == RuleOp(table, "I", name, ip, target, TRUE)
\* next_intact: what the read of the freed list node yields (see RemoveRule)
DeleteRule(table, name, ip, target, next_intact) ==
    RuleOp(table, "D", name, ip, target, next_intact)

\* __connman_iptables_commit: the mirror is replaced into the kernel and
\* removed from table_hash; when the kernel refuses the blob the error is
\* returned and the mirror stays in table_hash
Commit ==
    /\ mirror # NoTable
    /\ IF KernelAccepts(iptables_blob(mirror))
       THEN kernel' = iptables_blob(mirror) /\ mirror' = NoTable
       ELSE UNCHANGED vars

\* The table the kernel starts with: each hook's chain is its ACCEPT
\* policy entry, and an error entry ends the table.
HookSeq == SetToSortSeq(Hooks, <)
InitKernel ==
    LET n == Len(HookSeq)
        policy == Blob(IPT_ENTRY + STANDARD_TARGET, "standard", "", ACCEPT, "any")
        at(h) == (IPT_ENTRY + STANDARD_TARGET) * (SelectInSeq(HookSeq, LAMBDA x : x = h) - 1)
    IN [entries |-> [i \in 1..n |-> policy]
                    \o <<Blob(IPT_ENTRY + ERROR_TARGET, "ERROR", "ERROR", 0, "any")>>,
        hook_entry |-> [h \in Hooks |-> at(h)],
        underflow |-> [h \in Hooks |-> at(h)],
        size |-> n * (IPT_ENTRY + STANDARD_TARGET) + IPT_ENTRY + ERROR_TARGET,
        num_entries |-> n + 1]

Init ==
    /\ kernel = InitKernel
    /\ mirror = NoTable

\* Each command first looks the table up or loads it (iptables_init).
Next ==
    \/ Commit
    \/ \E table \in {Current} :
         \/ \E c \in UserChains : AddChain(table, c)
         \/ \E c \in Chains :
              \/ DeleteChain(table, c) \/ FlushChain(table, c)
              \/ \E p \in Policies : ChangePolicy(table, c, p)
              \/ \E ip \in Addrs, tg \in Targets :
                   \/ AppendRule(table, c, ip, tg) \/ InsertRule(table, c, ip, tg)
                   \/ \E b \in BOOLEAN : DeleteRule(table, c, ip, tg, b)

Spec == Init /\ [][Next]_vars

-----------------------------------------------------------------------------
(* The table a mirror stands for, read the way the kernel reads the blob:  *)
(* a built-in chain is what lies between its hook_entry and its underflow, *)
(* its policy is the entry at the underflow; a user chain is what lies     *)
(* between its error head and the next RETURN; a jump enters the user      *)
(* chain whose first entry is at the jump's offset.                        *)

VerdictName(v) == IF v = ACCEPT THEN "ACCEPT" ELSE IF v = DROP THEN "DROP" ELSE "other"

HeadOf(t, n) ==
    SelectInSeq(t.entries, LAMBDA e : e.entry.target = "ERROR" /\ e.entry.name = n)

UserIn(t) == {n \in UserChains : HeadOf(t, n) # 0}

JumpName(t, v) ==
    LET J == {n \in UserIn(t) : HeadOf(t, n) < Len(t.entries)
                                /\ t.entries[HeadOf(t, n) + 1].offset = v}
    IN IF J = {} THEN "dangling" ELSE CHOOSE n \in J : TRUE

RuleOf(t, e) ==
    [ip |-> e.entry.ip,
     target |-> CASE e.entry.target # "standard" -> e.entry.target
                  [] is_jump(e) -> JumpName(t, e.entry.verdict)
                  [] OTHER -> VerdictName(e.entry.verdict)]

RulesIn(t, from, to) ==
    IF to < from THEN <<>>
    ELSE [i \in 1..(to - from + 1) |-> RuleOf(t, t.entries[from + i - 1])]

IndexAt(t, o) == SelectInSeq(t.entries, LAMBDA e : e.offset = o)

\* the hook a built-in chain name stands for
HookOf(c) == CHOOSE h \in Hooks : HookName(h) = c

\* a cursor that lands on no entry is read as a chain no firewall has
Unreadable == <<[ip |-> "none", target |-> "none"]>>

ChainRules(t, c) ==
    IF c \in {HookName(h) : h \in Hooks}
    THEN LET first == IndexAt(t, t.hook_entry[HookOf(c)])
             last == IndexAt(t, t.underflow[HookOf(c)])
         IN IF first = 0 \/ last = 0 THEN Unreadable ELSE RulesIn(t, first, last - 1)
    ELSE IF HeadOf(t, c) = 0 THEN <<>>
    ELSE RulesIn(t, HeadOf(t, c) + 1,
                 SelectInSubSeq(t.entries, HeadOf(t, c) + 1, Len(t.entries),
                                LAMBDA e : e.entry.target = "standard"
                                           /\ e.entry.verdict = RETURN) - 1)

PolicyOf(t, c) ==
    LET u == IndexAt(t, t.underflow[HookOf(c)])
    IN IF u = 0 THEN "none" ELSE VerdictName(t.entries[u].entry.verdict)

TableOf(t) ==
    [user |-> UserIn(t),
     rules |-> [c \in Chains |-> ChainRules(t, c)],
     policy |-> [c \in {HookName(h) : h \in Hooks} |-> PolicyOf(t, c)]]

-----------------------------------------------------------------------------
(* Properties.                                                             *)

BlobType == [size : Nat, target : {"standard", "ERROR"} \cup ExtTargets,
             name : UserChains \cup {"", "ERROR"}, verdict : Int,
             ip : Addrs \cup {"any"}]

TypeOK ==
    /\ mirror = NoTable
       \/ \A i \in DOMAIN mirror.entries :
             mirror.entries[i] \in [offset : Nat, builtin : Hooks \cup {-1},
                                    entry : BlobType]
    /\ \A i \in DOMAIN kernel.entries : kernel.entries[i] \in BlobType

\* The mirror's built-in flags agree with its hook cursors, which later
\* commands rely on (find_chain_head, update_hooks, the flush and delete
\* shifts): each valid hook flags exactly one entry, the one at its
\* hook_entry, and its underflow is the last entry before the next chain.
HeadsAtHookEntries ==
    mirror # NoTable =>
      \A h \in Hooks :
        /\ {i \in DOMAIN mirror.entries : mirror.entries[i].builtin = h}
             = {IndexAt(mirror, mirror.hook_entry[h])}
        /\ IndexAt(mirror, mirror.underflow[h])
             = find_chain_tail(mirror, HookName(h)) - 1
====
