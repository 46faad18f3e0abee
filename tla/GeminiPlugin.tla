---------------------------- MODULE GeminiPlugin ----------------------------
(***************************************************************************)
(* Gemini CLI: ~/.gemini/settings.json with comments, groups per event.    *)
(* The text is edited in place, entry by entry.  A file Elydora creates    *)
(* begins with a marker.  Root field "hooks" is the container, "off" is    *)
(* hooksConfig.enabled = false, "offName" and "offCommand" are entries of  *)
(* hooksConfig.disabled that name Elydora's hooks or their commands.       *)
(***************************************************************************)
EXTENDS HookDocuments

Events == {"pre", "post"}

ValidHooks(doc) == "malformed" \notin doc.root
Parses(docs) == docs["user"] # NoFile => ValidHooks(docs["user"])

NewSettings == Document({"marker"}, <<>>)
Settings(doc) == IF doc = NoFile THEN NewSettings ELSE doc

Current(h, event, ids) == Refers(h, event, ids, {"exact", "moved"})
Managed(h, event, ids) == Refers(h, event, ids, {"exact", "moved", "legacy"})

ExactManagedGroup(g) == g.shape = "exact"

\* A group that loses all its handlers goes with them, if it is like Elydora's.
Removals(groups, event, ids) ==
    StripHit(groups, LAMBDA h : Managed(h, event, ids), ExactManagedGroup)

\* An emptied event, and the container when nothing is left, lose their keys.
RemoveManagedEntries(doc, ids) ==
    LET hit == {e \in Events \cap DOMAIN doc.hooks :
                    Removals(doc.hooks[e], e, ids) # doc.hooks[e]}
        hooks == PutOrDrop(doc.hooks, [e \in hit |-> Removals(doc.hooks[e], e, ids)])
    IN  Document(IF DOMAIN hooks = {} THEN doc.root \ {"hooks"} ELSE doc.root, hooks)

AppendGroups(doc, a) ==
    Document(doc.root \cup {"hooks"},
             Append1(doc.hooks, Events, LAMBDA e : Group(a, e)))

\* install refuses while any entry disables Elydora's hooks, ...
HookControls(docs) == Settings(docs["user"]).root \cap {"off", "offName", "offCommand"}
Refused(docs) == HookControls(docs) # {}

\* ... the status looks at the names only.
Enabled(docs) == HookControls(docs) \subseteq {"offCommand"}

Install(docs, a) ==
    [user |-> AppendGroups(RemoveManagedEntries(Settings(docs["user"]), Agents), a)]

\* Elydora's own file is deleted when nothing is left in it.
Uninstall(docs, a) ==
    LET doc == RemoveManagedEntries(Settings(docs["user"]), {a})
    IN  [user |-> IF doc.root = {"marker"} THEN NoFile ELSE doc]

References(hooks, event, a) ==
    Matches(At(hooks, event), ExactManagedGroup, LAMBDA h : Current(h, event, {a}))

Contracts(docs) ==
    {a \in Agents : \A e \in Events : One(References(Settings(docs["user"]).hooks, e, a))}

RuntimeFiles == {"whole"}

Plugin(docs) ==
    [parses |-> Parses(docs), refused |-> Refused(docs), enabled |-> Enabled(docs),
     install |-> [a \in Agents |-> Install(docs, a)],
     uninstall |-> [a \in Agents |-> Uninstall(docs, a)],
     stuck |-> {},
     contracts |-> Contracts(docs), files |-> RuntimeFiles]
=============================================================================
