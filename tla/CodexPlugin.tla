----------------------------- MODULE CodexPlugin -----------------------------
(***************************************************************************)
(* Codex: $CODEX_HOME/hooks.json, groups per event, of which Elydora's     *)
(* match "*".  A file Elydora creates carries its description ("marker").  *)
(***************************************************************************)
EXTENDS HookDocuments

Events == {"pre", "post"}

\* Any Node executable will do, and the Windows command of earlier versions.
Managed(h, event, ids) == Refers(h, event, ids, {"exact", "moved", "legacy"})

ExactMatcherGroup(g) == g.shape = "exact"

Parses(docs) == docs["user"] # NoFile => "malformed" \notin docs["user"].root

RemoveFromGroups(groups, event, ids) ==
    Strip(groups, LAMBDA h : Managed(h, event, ids), ExactMatcherGroup)

Remove(hooks, ids) ==
    PutOrDrop(hooks, [e \in Events |-> RemoveFromGroups(At(hooks, e), e, ids)])

EntirelyManaged(doc) ==
    /\ doc.root = {"marker"}
    /\ DOMAIN doc.hooks # {}
    /\ \A e \in DOMAIN doc.hooks :
        /\ e \in Events
        /\ doc.hooks[e] # <<>>
        /\ Every(doc.hooks[e], LAMBDA g :
              /\ ExactMatcherGroup(g)
              /\ g.hooks # <<>>
              /\ Every(g.hooks, LAMBDA h : Managed(h, e, Agents)))

Render(doc, hooks) ==
    CASE doc = NoFile /\ DOMAIN hooks = {} -> NoFile
      [] doc = NoFile /\ DOMAIN hooks # {} -> Document({"marker"}, hooks)
      [] doc # NoFile -> IF DOMAIN hooks = {} /\ EntirelyManaged(doc) THEN NoFile
                         ELSE Document(doc.root, hooks)

Install(docs, a) ==
    LET doc == docs["user"]
        rest == Remove(OrNew(doc).hooks, Agents)
    IN  [user |-> Render(doc, Append1(rest, Events, LAMBDA e : Group(a, e)))]

Uninstall(docs, a) ==
    LET doc == docs["user"]
    IN  [user |-> Render(doc, Remove(OrNew(doc).hooks, {a}))]

ManagedIds(hooks, event) ==
    {a \in Agents : Matches(At(hooks, event), ExactMatcherGroup,
                            LAMBDA h : Managed(h, event, {a})) # {}}

Contracts(docs) ==
    LET hooks == OrNew(docs["user"]).hooks
    IN  ManagedIds(hooks, "pre") \cap ManagedIds(hooks, "post")

RuntimeFiles == {"whole", "stale"}

Plugin(docs) ==
    [parses |-> Parses(docs), refused |-> FALSE, enabled |-> TRUE,
     install |-> [a \in Agents |-> Install(docs, a)],
     uninstall |-> [a \in Agents |-> Uninstall(docs, a)],
     stuck |-> {},
     contracts |-> Contracts(docs), files |-> RuntimeFiles]
=============================================================================
