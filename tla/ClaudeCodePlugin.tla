-------------------------- MODULE ClaudeCodePlugin --------------------------
(***************************************************************************)
(* Claude Code: ~/.claude/settings.json, groups of handlers per event.     *)
(* Handlers of earlier versions are removed but do not count as installed; *)
(* a handler that names another Node executable is not recognised.         *)
(***************************************************************************)
EXTENDS HookDocuments

Events == {"pre", "post", "fail"}

\* The settings Claude Code itself would reject are rejected: here, malformed.
ValidHandlers(doc) == "malformed" \notin doc.root

Parses(docs) == docs["user"] # NoFile => ValidHandlers(docs["user"])

Managed(h, event, ids) == Refers(h, event, ids, {"exact"})
ManagedOrLegacy(h, event, ids) == Refers(h, event, ids, {"exact", "legacy"})

ExactGroup(g) == g.shape = "exact"

RemoveFromGroups(groups, event, ids) ==
    Strip(groups, LAMBDA h : ManagedOrLegacy(h, event, ids), ExactGroup)

\* An event without a handler to remove is left as it is.
Remove(hooks, ids) ==
    LET hit == {e \in Events \cap DOMAIN hooks :
                    Some(hooks[e], LAMBDA g :
                        Some(g.hooks, LAMBDA h : ManagedOrLegacy(h, e, ids)))}
    IN  PutOrDrop(hooks, [e \in hit |-> RemoveFromGroups(hooks[e], e, ids)])

EntirelyManaged(doc) ==
    /\ doc.root = {}
    /\ DOMAIN doc.hooks # {}
    /\ \A e \in DOMAIN doc.hooks :
        /\ e \in Events
        /\ doc.hooks[e] # <<>>
        /\ Every(doc.hooks[e], LAMBDA g :
              /\ ExactGroup(g)
              /\ g.hooks # <<>>
              /\ Every(g.hooks, LAMBDA h : ManagedOrLegacy(h, e, Agents)))

Render(doc, hooks) ==
    IF DOMAIN hooks = {} /\ (doc = NoFile \/ EntirelyManaged(doc)) THEN NoFile
    ELSE Document(OrNew(doc).root, hooks)

Disabled(docs) == "off" \in OrNew(docs["user"]).root

Install(docs, a) ==
    LET doc == docs["user"]
        rest == Remove(OrNew(doc).hooks, Agents)
    IN  [user |-> Render(doc, Append1(rest, Events, LAMBDA e : Group(a, e)))]

Uninstall(docs, a) ==
    LET doc == docs["user"]
    IN  [user |-> Render(doc, Remove(OrNew(doc).hooks, {a}))]

References(hooks, event, a) ==
    Matches(At(hooks, event), ExactGroup, LAMBDA h : Managed(h, event, {a}))

\* The agents with exactly one handler at every event.
Contracts(docs) ==
    {a \in Agents : \A e \in Events :
        One(References(OrNew(docs["user"]).hooks, e, a))}

\* The status compares the scripts with what this version generates.
RuntimeFiles == {"whole"}

Plugin(docs) ==
    [parses |-> Parses(docs), refused |-> Disabled(docs), enabled |-> ~Disabled(docs),
     install |-> [a \in Agents |-> Install(docs, a)],
     uninstall |-> [a \in Agents |-> Uninstall(docs, a)],
     stuck |-> {},
     contracts |-> Contracts(docs), files |-> RuntimeFiles]
=============================================================================
