----------------------------- MODULE KimiPlugin -----------------------------
(***************************************************************************)
(* Kimi: one list of hooks in the config.toml of Kimi Code ("stable"), of  *)
(* kimi-cli ("legacy") or of both, as their home directories exist: the    *)
(* root of the document "homes" names those that do.  Here the list is     *)
(* split by event.                                                         *)
(***************************************************************************)
EXTENDS HookDocuments

Events == {"pre", "post", "fail"}

ManagedReference(h, event, ids) == Refers(h, event, ids, {"exact", "moved", "legacy"})

\* Kimi Code is assumed where no home tells.
Detected(docs) ==
    LET homes == docs["homes"].root
    IN  IF homes = {} THEN {"stable"} ELSE homes

ReadHooks(doc) == "malformed" \notin doc.root
Parses(docs) == \A n \in Detected(docs) : docs[n] # NoFile => ReadHooks(docs[n])

RemoveManagedHooks(hooks, ids) ==
    PutOrDrop(hooks, [e \in Events |->
        Without(At(hooks, e), LAMBDA h : ManagedReference(h, e, ids))])

\* A text left without a word is deleted.
Render(doc, hooks) ==
    IF OrNew(doc).root = {} /\ DOMAIN hooks = {} THEN NoFile
    ELSE Document(OrNew(doc).root, hooks)

Install(docs, a) ==
    [n \in DOMAIN docs |->
        IF n = "homes" THEN Document(Detected(docs), <<>>)
        ELSE IF n \in Detected(docs)
             THEN Render(docs[n],
                      Append1(RemoveManagedHooks(OrNew(docs[n]).hooks, Agents), Events,
                              LAMBDA e : Handler(a, e)))
             ELSE docs[n]]

\* As if only Kimi Code's file were cleaned.
UninstallStable(docs, a) ==
    [docs EXCEPT !["stable"] =
        IF @ = NoFile THEN NoFile ELSE Render(@, RemoveManagedHooks(@.hooks, {a}))]

Uninstall(docs, a) ==
    [n \in DOMAIN docs |->
        IF n \in Detected(docs)
        THEN Render(docs[n], RemoveManagedHooks(OrNew(docs[n]).hooks, {a}))
        ELSE docs[n]]

RuntimeContracts(hooks) ==
    {a \in Agents : \A e \in Events :
        One({i \in DOMAIN At(hooks, e) : ManagedReference(At(hooks, e)[i], e, {a})})}

Contracts(docs) ==
    UNION {RuntimeContracts(OrNew(docs[n]).hooks) : n \in Detected(docs)}

RuntimeFiles == {"whole"}

Plugin(docs) ==
    [parses |-> Parses(docs), refused |-> FALSE, enabled |-> TRUE,
     install |-> [a \in Agents |-> Install(docs, a)],
     uninstall |-> [a \in Agents |-> Uninstall(docs, a)],
     stuck |-> {},
     contracts |-> Contracts(docs), files |-> RuntimeFiles]
=============================================================================
