---------------------------- MODULE KiroIdePlugin ----------------------------
(***************************************************************************)
(* Kiro IDE: .kiro/hooks/elydora-audit.json of the current workspace       *)
(* ("workspace"), one list of named hooks, here split by event, and the    *)
(* file of earlier versions in the home directory ("legacy").  A hook with *)
(* one of Elydora's names that runs no script of Elydora's is Taken.       *)
(***************************************************************************)
EXTENDS HookDocuments

Events == {"pre", "post"}

ManagedSpecification(h, event) == h.script = ScriptOf(event)
OwnedReference(h, event, ids) == Refers(h, event, ids, {"exact", "moved", "edited"})
ManagedReference(h, event, ids) == Refers(h, event, ids, {"exact", "moved"})

ParseDocument(doc) == "version" \in doc.root /\ "malformed" \notin doc.root
Parses(docs) ==
    /\ docs["workspace"] # NoFile => ParseDocument(docs["workspace"])
    /\ docs["legacy"] # NoFile => "malformed" \notin docs["legacy"].root

Taken(hooks) ==
    \E e \in Events : Some(At(hooks, e), LAMBDA h :
        ManagedSpecification(h, e) /\ ~OwnedReference(h, e, Agents))

\* Neither installation nor status goes on then.
Disabled(docs) == Taken(OrNew(docs["workspace"]).hooks)

WithoutManaged(hooks, ids) ==
    PutOrDrop(hooks, [e \in Events |->
        Without(At(hooks, e), LAMBDA h : OwnedReference(h, e, ids))])

EntirelyManaged(doc) ==
    /\ doc # NoFile
    /\ doc.root = {"version"}
    /\ DOMAIN doc.hooks # {}
    /\ \A e \in DOMAIN doc.hooks :
        e \in Events /\ Every(doc.hooks[e], LAMBDA h : ManagedReference(h, e, Agents))

Render(doc, hooks) ==
    IF OrNew(doc).hooks = hooks THEN doc
    ELSE IF DOMAIN hooks = {} /\ EntirelyManaged(doc) THEN NoFile
    ELSE Document(OrNew(doc).root \cup {"version"}, hooks)

LegacyContract(doc, ids) ==
    /\ doc # NoFile
    /\ doc.root = {}
    /\ DOMAIN doc.hooks = Events
    /\ \E a \in ids : \A e \in Events :
        One(DOMAIN doc.hooks[e]) /\ Refers(doc.hooks[e][1], e, {a}, {"legacy"})

\* The legacy file goes with its agent only, on installation too.
RemoveLegacy(doc, ids) == IF LegacyContract(doc, ids) THEN NoFile ELSE doc

Install(docs, a) ==
    LET doc == docs["workspace"]
        rest == WithoutManaged(OrNew(doc).hooks, Agents)
    IN  [docs EXCEPT
            !["workspace"] = Render(doc, Append1(rest, Events, LAMBDA e : Handler(a, e))),
            !["legacy"] = RemoveLegacy(@, {a})]

Uninstall(docs, a) ==
    LET doc == docs["workspace"]
    IN  [docs EXCEPT
            !["workspace"] = Render(doc, WithoutManaged(OrNew(doc).hooks, {a})),
            !["legacy"] = RemoveLegacy(@, {a})]

\* One hook that was edited hides all.
RuntimeContracts(hooks) ==
    IF \E e \in Events : Some(At(hooks, e), LAMBDA h :
           ManagedSpecification(h, e) /\ ~ManagedReference(h, e, Agents))
    THEN {}
    ELSE {a \in Agents : \A e \in Events :
             One({i \in DOMAIN At(hooks, e) : ManagedReference(At(hooks, e)[i], e, {a})})}

Contracts(docs) == RuntimeContracts(OrNew(docs["workspace"]).hooks)

RuntimeFiles == {"whole"}

Plugin(docs) ==
    [parses |-> Parses(docs), refused |-> Disabled(docs), enabled |-> ~Disabled(docs),
     install |-> [a \in Agents |-> Install(docs, a)],
     uninstall |-> [a \in Agents |-> Uninstall(docs, a)],
     stuck |-> {},
     contracts |-> Contracts(docs), files |-> RuntimeFiles]
=============================================================================
