---------------------------- MODULE KiroCliPlugin ----------------------------
(***************************************************************************)
(* Kiro CLI: an agent of its own for version 2, ~/.kiro/agents ("v2"), and *)
(* global hooks for version 3, ~/.kiro/hooks/elydora-audit.json ("v3"), in *)
(* the format of Kiro IDE.  Root field "meta" of v2 stands for the name,   *)
(* the description and the tools that Elydora gives its agent.             *)
(***************************************************************************)
EXTENDS HookDocuments

V3 == INSTANCE KiroIdePlugin

Events == V3!Events

OwnedReference(h, event, ids) == Refers(h, event, ids, Forms)
ManagedReference(h, event, ids) == Refers(h, event, ids, {"exact", "moved"})

ValidateV2(doc) == "malformed" \notin doc.root
Parses(docs) ==
    /\ docs["v2"] # NoFile => ValidateV2(docs["v2"])
    /\ docs["v3"] # NoFile => V3!ParseDocument(docs["v3"])

HasOwnedHooks(doc, ids) ==
    \E e \in Events : Some(At(OrNew(doc).hooks, e), LAMBDA h : OwnedReference(h, e, ids))

V2Conflict(doc) == doc # NoFile /\ "meta" \notin doc.root /\ ~HasOwnedHooks(doc, Agents)

V3Taken(hooks) ==
    \E e \in Events : Some(At(hooks, e), LAMBDA h :
        V3!ManagedSpecification(h, e) /\ ~OwnedReference(h, e, Agents))

\* Neither installation nor status goes on then.
Disabled(docs) == V2Conflict(docs["v2"]) \/ V3Taken(OrNew(docs["v3"]).hooks)

WithoutManaged(hooks, ids) ==
    PutOrDrop(hooks, [e \in Events |->
        Without(At(hooks, e), LAMBDA h : OwnedReference(h, e, ids))])

WithHooks(hooks, a) ==
    Append1(WithoutManaged(hooks, Agents), Events, LAMBDA e : Handler(a, e))

RenderV2Installation(doc, a) ==
    Document(OrNew(doc).root \cup {"meta"}, WithHooks(OrNew(doc).hooks, a))

\* Exactly the agent Elydora wrote, but for the fields of its two hooks.
EntirelyManagedV2(doc, ids) ==
    /\ doc.root = {"meta"}
    /\ DOMAIN doc.hooks = Events
    /\ \A e \in Events :
        One(DOMAIN doc.hooks[e]) /\ OwnedReference(doc.hooks[e][1], e, ids)

RenderV2Uninstall(doc, ids) ==
    IF ~HasOwnedHooks(doc, ids) THEN doc
    ELSE IF EntirelyManagedV2(doc, ids) THEN NoFile
    ELSE Document(doc.root, WithoutManaged(doc.hooks, ids))

EntirelyManagedV3(doc, ids) ==
    /\ doc.root = {"version"}
    /\ \A e \in DOMAIN doc.hooks :
        e \in Events /\ Every(doc.hooks[e], LAMBDA h : OwnedReference(h, e, ids))

RenderV3Uninstall(doc, ids) ==
    IF ~HasOwnedHooks(doc, ids) THEN doc
    ELSE IF EntirelyManagedV3(doc, ids) THEN NoFile
    ELSE V3!Render(doc, WithoutManaged(doc.hooks, ids))

Install(docs, a) ==
    [docs EXCEPT !["v2"] = RenderV2Installation(@, a),
                 !["v3"] = V3!Render(@, WithHooks(OrNew(@).hooks, a))]

Uninstall(docs, a) ==
    [docs EXCEPT !["v2"] = RenderV2Uninstall(@, {a}),
                 !["v3"] = RenderV3Uninstall(@, {a})]

\* One owned hook that was edited hides all.
V2RuntimeContracts(hooks) ==
    LET managed(e) == {i \in DOMAIN At(hooks, e) : ManagedReference(At(hooks, e)[i], e, Agents)}
    IN  IF \/ \E e \in Events : Some(At(hooks, e), LAMBDA h :
                  OwnedReference(h, e, Agents) /\ ~ManagedReference(h, e, Agents))
           \/ \E e \in Events : ~One(managed(e))
        THEN {}
        ELSE {a \in Agents : \A e \in Events : \E i \in managed(e) :
                 At(hooks, e)[i].owner = a}

\* Both versions must run one and the same agent.
Contracts(docs) ==
    LET v2 == V2RuntimeContracts(OrNew(docs["v2"]).hooks)
        v3 == V3!RuntimeContracts(OrNew(docs["v3"]).hooks)
    IN  IF One(v2) /\ v2 = v3 THEN v2 ELSE {}

RuntimeFiles == {"whole"}

Plugin(docs) ==
    [parses |-> Parses(docs), refused |-> Disabled(docs), enabled |-> ~Disabled(docs),
     install |-> [a \in Agents |-> Install(docs, a)],
     uninstall |-> [a \in Agents |-> Uninstall(docs, a)],
     stuck |-> {},
     contracts |-> Contracts(docs), files |-> RuntimeFiles]
=============================================================================
