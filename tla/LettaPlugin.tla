----------------------------- MODULE LettaPlugin -----------------------------
(***************************************************************************)
(* Letta Code: ~/.letta/settings.json ("global"), groups per event, edited *)
(* in place; two project files ("project", "local") may only disable the   *)
(* hooks.  Root field "hooks" is the container, "off" and "on" are its     *)
(* field disabled: true and false.                                         *)
(***************************************************************************)
EXTENDS HookDocuments

Events == {"pre", "post", "fail"}

ValidHooks(doc) == "malformed" \notin doc.root
Parses(docs) == \A n \in DOMAIN docs : docs[n] # NoFile => ValidHooks(docs[n])

\* Any Node executable will do for a removal, only the running one counts.
Current(h, event, ids) == Refers(h, event, ids, {"exact"})
Managed(h, event, ids) == Refers(h, event, ids, {"exact", "moved", "legacy"})

ExactGroup(g) == g.shape = "exact"

Removals(groups, event, ids) ==
    StripHit(groups, LAMBDA h : Managed(h, event, ids), ExactGroup)

\* The container goes with its last field.
RemoveManagedEntries(doc, ids) ==
    LET hit == {e \in Events \cap DOMAIN doc.hooks :
                    Removals(doc.hooks[e], e, ids) # doc.hooks[e]}
        hooks == PutOrDrop(doc.hooks, [e \in hit |-> Removals(doc.hooks[e], e, ids)])
        empty == DOMAIN hooks = {} /\ doc.root \cap {"off", "on"} = {}
    IN  Document(IF empty THEN doc.root \ {"hooks"} ELSE doc.root, hooks)

AppendGroups(doc, a) ==
    Document(doc.root \cup {"hooks"},
             Append1(doc.hooks, Events, LAMBDA e : Group(a, e)))

\* The global file decides if it says anything, else either project file may
\* disable the hooks.
EffectiveDisable(docs) ==
    LET global == OrNew(docs["global"]).root
    IN  /\ "on" \notin global
        /\ \E n \in DOMAIN docs : "off" \in OrNew(docs[n]).root

Refused(docs) == EffectiveDisable(docs)

\* As if nothing were removed first.
InstallAppend(docs, a) == [docs EXCEPT !["global"] = AppendGroups(OrNew(@), a)]

Install(docs, a) ==
    [docs EXCEPT !["global"] =
        AppendGroups(RemoveManagedEntries(OrNew(@), Agents), a)]

\* A file with nothing left in it is deleted, whoever made it.
Uninstall(docs, a) ==
    LET doc == RemoveManagedEntries(OrNew(docs["global"]), {a})
    IN  [docs EXCEPT !["global"] = IF doc.root = {} THEN NoFile ELSE doc]

References(hooks, event, a) ==
    Matches(At(hooks, event), ExactGroup, LAMBDA h : Current(h, event, {a}))

Contracts(docs) ==
    {a \in Agents : \A e \in Events : One(References(OrNew(docs["global"]).hooks, e, a))}

RuntimeFiles == {"whole"}

Plugin(docs) ==
    [parses |-> Parses(docs), refused |-> Refused(docs), enabled |-> ~Refused(docs),
     install |-> [a \in Agents |-> Install(docs, a)],
     uninstall |-> [a \in Agents |-> Uninstall(docs, a)],
     stuck |-> {},
     contracts |-> Contracts(docs), files |-> RuntimeFiles]
=============================================================================
