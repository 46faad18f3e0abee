----------------------------- MODULE DroidPlugin -----------------------------
(***************************************************************************)
(* Factory Droid reads the first of hooks.json ("root"), hooks/hooks.json  *)
(* ("legacy"), settings.local.json and settings.json that has hooks; the   *)
(* plugin cleans all four and writes to that one.  "managed", "project"    *)
(* and "projectLocal" are settings of an administrator and of a project.   *)
(* Root field "hooks" is the container, "off" and "on" are hooksDisabled:  *)
(* true and false, "managedOnly" is allowManagedHooksOnly, "marker" the    *)
(* first line of a file that Elydora has created.                          *)
(***************************************************************************)
EXTENDS HookDocuments

Events == {"pre", "post"}
Sources == {"root", "legacy", "settings", "localSettings"}

ReadHookMap(doc) == "malformed" \notin doc.root
Parses(docs) == \A n \in DOMAIN docs : docs[n] # NoFile => ReadHookMap(docs[n])

OwnedDocument == Document({"marker", "hooks"}, <<>>)
Source(docs, n) ==
    IF docs[n] # NoFile THEN docs[n] ELSE IF n = "root" THEN OwnedDocument ELSE NewDocument

HasContainer(docs, n) == "hooks" \in Source(docs, n).root

ActiveDocument(docs) ==
    CASE docs["root"] # NoFile -> "root"
      [] docs["root"] = NoFile /\ docs["legacy"] # NoFile -> "legacy"
      [] OTHER -> IF HasContainer(docs, "localSettings") THEN "localSettings"
                  ELSE IF HasContainer(docs, "settings") THEN "settings"
                  ELSE "root"

ManagedAgent(h, event, ids, forms) == Refers(h, event, ids, forms)

ExactGroup(g) == g.shape = "exact"

ManagedRemovals(groups, event, ids) ==
    StripHit(groups, LAMBDA h : ManagedAgent(h, event, ids, {"exact", "legacy"}), ExactGroup)

RemoveManagedEntries(doc, ids) ==
    LET hit == {e \in Events \cap DOMAIN doc.hooks :
                    ManagedRemovals(doc.hooks[e], e, ids) # doc.hooks[e]}
    IN  [doc EXCEPT !.hooks =
            PutOrDrop(@, [e \in hit |-> ManagedRemovals(@[e], e, ids)])]

HookFileIsEmpty(n, doc) ==
    /\ n \in {"root", "legacy"}
    /\ DOMAIN doc.hooks = {}
    /\ doc.root \subseteq {"hooks", "marker"}

\* A file that exists, without additions; Elydora's own goes when it is empty.
RenderRemoval(docs, n, ids) ==
    LET doc == RemoveManagedEntries(docs[n], ids)
    IN  IF docs[n] = NoFile \/ ("marker" \in doc.root /\ HookFileIsEmpty(n, doc))
        THEN NoFile
        ELSE doc

RenderAddition(docs, n, a) ==
    LET doc == RemoveManagedEntries(Source(docs, n), Agents)
    IN  [doc EXCEPT !.hooks = Append1(@, Events, LAMBDA e : Group(a, e))]

\* Settings that have no hooks are not rewritten.
InstallationDocuments(docs) ==
    {n \in Sources : docs[n] # NoFile /\ (n \in {"root", "legacy"} \/ HasContainer(docs, n))}
        \cup {ActiveDocument(docs)}

Install(docs, a) ==
    [n \in DOMAIN docs |->
        IF n = ActiveDocument(docs) THEN RenderAddition(docs, n, a)
        ELSE IF n \in InstallationDocuments(docs) THEN RenderRemoval(docs, n, Agents)
        ELSE docs[n]]

Uninstall(docs, a) ==
    [n \in DOMAIN docs |->
        IF n \in Sources /\ docs[n] # NoFile THEN RenderRemoval(docs, n, {a}) ELSE docs[n]]

Says(docs, n) == OrNew(docs[n]).root \cap {"off", "on"} # {}
Off(docs, n) == "off" \in OrNew(docs[n]).root

\* The administrator decides, then the project, then the user's settings, and
\* then the document in use, even if settings of a higher rank enabled hooks.
HookBlock(docs) ==
    \/ "managedOnly" \in OrNew(docs["managed"]).root
    \/ LET policy == Without(<<"managed", "projectLocal", "project">>,
                             LAMBDA n : ~Says(docs, n))
       IN  IF policy # <<>> THEN Off(docs, policy[1])
           ELSE \/ Off(docs, IF Says(docs, "localSettings") THEN "localSettings"
                             ELSE "settings")
                \/ /\ ~(ActiveDocument(docs) \in {"root", "legacy"}
                          /\ HasContainer(docs, ActiveDocument(docs)))
                   /\ Off(docs, ActiveDocument(docs))

Disabled(docs) == HookBlock(docs)

\* Groups of exactly one handler, in the document in use.
ConfiguredIds(groups, event) ==
    {a \in Agents : Some(groups, LAMBDA g :
        /\ ExactGroup(g)
        /\ Len(g.hooks) = 1
        /\ ManagedAgent(g.hooks[1], event, {a}, {"exact"}))}

RuntimeContracts(hooks) ==
    ConfiguredIds(At(hooks, "pre"), "pre") \cap ConfiguredIds(At(hooks, "post"), "post")

Contracts(docs) == RuntimeContracts(Source(docs, ActiveDocument(docs)).hooks)

RuntimeFiles == {"whole"}

Plugin(docs) ==
    [parses |-> Parses(docs), refused |-> Disabled(docs), enabled |-> ~Disabled(docs),
     install |-> [a \in Agents |-> Install(docs, a)],
     uninstall |-> [a \in Agents |-> Uninstall(docs, a)],
     stuck |-> {},
     contracts |-> Contracts(docs), files |-> RuntimeFiles]
=============================================================================
