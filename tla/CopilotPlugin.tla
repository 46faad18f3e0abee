---------------------------- MODULE CopilotPlugin ----------------------------
(***************************************************************************)
(* GitHub Copilot CLI: hooks/elydora-audit.json in Copilot's home ("user") *)
(* and the project's .github/hooks/hooks.json of earlier versions          *)
(* ("legacy"), a list of handlers per event.  Six settings files may       *)
(* disable all hooks ("off") or enable them ("on").                        *)
(***************************************************************************)
EXTENDS HookDocuments

Events == {"pre", "post", "fail"}

\* From the weakest to the strongest.
SettingsLayers == <<"config", "settings", "claude", "claudeLocal", "github", "githubLocal">>

ManagedEntry(h, event, ids) == Refers(h, event, ids, {"exact", "moved", "legacy"})

\* Only hook files carry a version; settings need none.
ParseDocument(doc) == "version" \in doc.root /\ "malformed" \notin doc.root
Parses(docs) ==
    \A n \in DOMAIN docs : docs[n] # NoFile =>
        IF n \in {"user", "legacy"} THEN ParseDocument(docs[n])
        ELSE "malformed" \notin docs[n].root

\* The last layer that says anything decides.
EffectiveDisabledSource(docs) ==
    LET saying == Without(SettingsLayers,
                      LAMBDA n : OrNew(docs[n]).root \cap {"off", "on"} = {})
    IN  saying # <<>> /\ "off" \in docs[saying[Len(saying)]].root

Disabled(docs) == "off" \in OrNew(docs["user"]).root \/ EffectiveDisabledSource(docs)

RemoveManagedHooks(hooks, ids) ==
    PutOrDrop(hooks, [e \in Events |->
        Without(At(hooks, e), LAMBDA h : ManagedEntry(h, e, ids))])

\* An empty file of its kind is deleted, whoever made it.
RenderDocument(doc, hooks) ==
    IF DOMAIN hooks = {} /\ OrNew(doc).root \subseteq {"version"} THEN NoFile
    ELSE Document(OrNew(doc).root \cup {"version"}, hooks)

RenderRemoval(doc, ids) ==
    IF doc = NoFile THEN NoFile ELSE RenderDocument(doc, RemoveManagedHooks(doc.hooks, ids))

RenderInstallation(doc, a) ==
    RenderDocument(doc,
        Append1(RemoveManagedHooks(OrNew(doc).hooks, Agents), Events,
                LAMBDA e : Handler(a, e)))

\* As if the project's file were left alone.
InstallUserOnly(docs, a) == [docs EXCEPT !["user"] = RenderInstallation(@, a)]

Install(docs, a) ==
    [docs EXCEPT !["user"] = RenderInstallation(@, a),
                 !["legacy"] = RenderRemoval(@, Agents)]

Uninstall(docs, a) ==
    [docs EXCEPT !["user"] = RenderRemoval(@, {a}),
                 !["legacy"] = RenderRemoval(@, {a})]

RuntimeContracts(hooks) ==
    {a \in Agents : \A e \in Events :
        Some(At(hooks, e), LAMBDA h : ManagedEntry(h, e, {a}))}

Contracts(docs) ==
    UNION {RuntimeContracts(OrNew(docs[n]).hooks) : n \in {"user", "legacy"}}

RuntimeFiles == {"whole"}

Plugin(docs) ==
    [parses |-> Parses(docs), refused |-> Disabled(docs), enabled |-> ~Disabled(docs),
     install |-> [a \in Agents |-> Install(docs, a)],
     uninstall |-> [a \in Agents |-> Uninstall(docs, a)],
     stuck |-> {},
     contracts |-> Contracts(docs), files |-> RuntimeFiles]
=============================================================================
