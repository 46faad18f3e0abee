---------------------------- MODULE HookDocuments ----------------------------
(***************************************************************************)
(* What the plugins of the Node SDK have in common: the handlers, groups   *)
(* and documents of the coding agents ("hosts") whose configuration files  *)
(* they rewrite.                                                           *)
(*                                                                         *)
(* A handler is the user's, or refers to the guard or the audit script of  *)
(* an agent.  How far it is what the plugin writes is its form:            *)
(*   exact   what this version writes                                      *)
(*   moved   that, but for another Node executable                         *)
(*   legacy  what an earlier version wrote                                 *)
(*   edited  another field was changed, by hand                            *)
(* A document is a set of root fields and its hooks: for the events that   *)
(* are present, a sequence of handlers, or of groups of them.              *)
(***************************************************************************)
EXTENDS Sequences, Naturals

CONSTANTS Agents, User, NoFile

Forms == {"exact", "moved", "legacy", "edited"}

ScriptOf(event) == IF event = "pre" THEN "guard" ELSE "audit"

\* The source of a hook command: the running Node executable and a script.
Handler(a, event) == [owner |-> a, script |-> ScriptOf(event), form |-> "exact"]

Own == [owner |-> User, script |-> "own", form |-> "exact"]

\* h runs the script of one of the agents `ids` that belongs to `event`, and
\* its command and fields are of one of the forms.
Refers(h, event, ids, forms) ==
    h.owner \in ids /\ h.script = ScriptOf(event) /\ h.form \in forms

Group(a, event) == [shape |-> "exact", hooks |-> <<Handler(a, event)>>]

\* A configuration file's root fields and hooks.
Document(root, hooks) == [root |-> root, hooks |-> hooks]
NewDocument == Document({}, <<>>)
OrNew(doc) == IF doc = NoFile THEN NewDocument ELSE doc

At(hooks, event) == IF event \in DOMAIN hooks THEN hooks[event] ELSE <<>>
Drop(hooks, events) == [e \in DOMAIN hooks \ events |-> hooks[e]]

\* `lists` in place of what `hooks` has at their events.
Over(lists, hooks) ==
    [e \in DOMAIN lists \cup DOMAIN hooks |-> IF e \in DOMAIN lists THEN lists[e] ELSE hooks[e]]

\* The events whose list is emptied lose their key, the others get their list.
PutOrDrop(hooks, lists) ==
    Drop(Over(lists, hooks), {e \in DOMAIN lists : lists[e] = <<>>})

Append1(hooks, events, Item(_)) ==
    Over([e \in events |-> Append(At(hooks, e), Item(e))], hooks)

Some(list, P(_)) == \E i \in DOMAIN list : P(list[i])
Every(list, P(_)) == \A i \in DOMAIN list : P(list[i])

\* The elements of a list at the given positions, in order.
Kept(list, positions) ==
    LET kept[k \in 0 .. Len(list)] ==
            IF k = 0 THEN <<>>
            ELSE IF k \in positions THEN Append(kept[k - 1], list[k])
            ELSE kept[k - 1]
    IN  kept

Pick(list, positions) ==
    IF DOMAIN list \subseteq positions THEN list ELSE Kept(list, positions)[Len(list)]

Without(list, P(_)) == Pick(list, {i \in DOMAIN list : ~P(list[i])})

\* The handlers of a list that satisfy P leave their groups, a group is
\* dropped when it is empty then and Dropped holds of it.
Strip(groups, P(_), Dropped(_)) ==
    LET rest == [i \in DOMAIN groups |->
                    [groups[i] EXCEPT !.hooks = Without(@, P)]]
    IN  Without(rest, LAMBDA g : g.hooks = <<>> /\ Dropped(g))

\* The same, but a group that had no such handler stays.
StripHit(groups, P(_), Dropped(_)) ==
    LET rest == [i \in DOMAIN groups |->
                    [groups[i] EXCEPT !.hooks = Without(@, P)]]
    IN  Pick(rest, {i \in DOMAIN groups :
                       ~(/\ rest[i].hooks = <<>>
                         /\ groups[i].hooks # <<>>
                         /\ Dropped(groups[i]))})

\* The handlers that satisfy P in the groups that satisfy In.
Matches(groups, In(_), P(_)) ==
    UNION {{<<i, j>> : j \in {k \in DOMAIN groups[i].hooks : P(groups[i].hooks[k])}} :
               i \in {k \in DOMAIN groups : In(groups[k])}}

One(set) == \E x \in set : set = {x}
=============================================================================
