----------------------------- MODULE GrokPlugin -----------------------------
(***************************************************************************)
(* Grok Build: ~/.grok/hooks/elydora-audit.json ("user"), groups per event *)
(* without a matcher.  A group with any other field is the user's, with    *)
(* every handler in it.                                                    *)
(***************************************************************************)
EXTENDS HookDocuments

Events == {"pre", "post", "fail"}

ReadHooks(doc) == "malformed" \notin doc.root
Parses(docs) == docs["user"] # NoFile => ReadHooks(docs["user"])

ManagedReference(h, event, ids) == Refers(h, event, ids, {"exact", "moved", "legacy"})

ExactManagedGroup(g) == g.shape = "exact"

\* As if a group went with its first handler of Elydora's.
RemoveGroups(groups, event, ids) ==
    Without(groups, LAMBDA g : Some(g.hooks, LAMBDA h : ManagedReference(h, event, ids)))

\* Empty groups are dropped too, whoever emptied them.
RemoveFromGroups(groups, event, ids) ==
    Strip(groups,
          LAMBDA h : ManagedReference(h, event, ids),
          LAMBDA g : ExactManagedGroup(g))

\* As if groups that are not exact held no handler of Elydora's.
RemoveFromExactGroups(groups, event, ids) ==
    LET stripped == [i \in DOMAIN groups |->
            IF ExactManagedGroup(groups[i])
            THEN RemoveFromGroups(<<groups[i]>>, event, ids)
            ELSE <<groups[i]>>]
        kept == {i \in DOMAIN groups : stripped[i] # <<>>}
    IN  Pick([i \in DOMAIN groups |-> IF i \in kept THEN stripped[i][1] ELSE groups[i]], kept)

RemoveManagedHooks(hooks, ids) ==
    PutOrDrop(hooks, [e \in Events |-> RemoveFromExactGroups(At(hooks, e), e, ids)])

EntirelyManaged(doc) ==
    /\ doc # NoFile
    /\ doc.root = {}
    /\ DOMAIN doc.hooks # {}
    /\ \A e \in DOMAIN doc.hooks :
        /\ e \in Events
        /\ doc.hooks[e] # <<>>
        /\ Every(doc.hooks[e], LAMBDA g :
              /\ ExactManagedGroup(g)
              /\ g.hooks # <<>>
              /\ Every(g.hooks, LAMBDA h : ManagedReference(h, e, Agents)))

Render(doc, hooks) ==
    IF DOMAIN hooks = {} /\ (doc = NoFile \/ EntirelyManaged(doc)) THEN NoFile
    ELSE Document(OrNew(doc).root, hooks)

Install(docs, a) ==
    LET doc == docs["user"]
        cleaned == RemoveManagedHooks(OrNew(doc).hooks, Agents)
    IN  [user |-> Render(doc, Append1(cleaned, Events, LAMBDA e : Group(a, e)))]

Uninstall(docs, a) ==
    LET doc == docs["user"]
    IN  [user |-> Render(doc, RemoveManagedHooks(OrNew(doc).hooks, {a}))]

ReferencesForEvent(hooks, event, a) ==
    Matches(At(hooks, event), ExactManagedGroup,
            LAMBDA h : ManagedReference(h, event, {a}))

Contracts(docs) ==
    {a \in Agents : \A e \in Events :
        One(ReferencesForEvent(OrNew(docs["user"]).hooks, e, a))}

RuntimeFiles == {"whole"}

Plugin(docs) ==
    [parses |-> Parses(docs), refused |-> FALSE, enabled |-> TRUE,
     install |-> [a \in Agents |-> Install(docs, a)],
     uninstall |-> [a \in Agents |-> Uninstall(docs, a)],
     stuck |-> {},
     contracts |-> Contracts(docs), files |-> RuntimeFiles]
=============================================================================
