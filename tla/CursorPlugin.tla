---------------------------- MODULE CursorPlugin ----------------------------
(***************************************************************************)
(* Cursor: ~/.cursor/hooks.json, a list of handlers per event.  A handler  *)
(* Elydora has written, now or earlier, is recognised by its command and   *)
(* its exact fields; an edited one counts as the user's.                   *)
(***************************************************************************)
EXTENDS HookDocuments

Events == {"pre", "post", "fail"}
Recognised == {"exact", "moved", "legacy"}

Managed(h, event, ids) == Refers(h, event, ids, Recognised)

AnyManaged(hooks) ==
    \E e \in Events : Some(At(hooks, e), LAMBDA h : Managed(h, e, Agents))

\* A file must declare its version, unless Elydora wrote it before versions.
Parses(docs) ==
    LET doc == docs["user"] IN
    doc # NoFile => /\ "malformed" \notin doc.root
                    /\ "version" \in doc.root \/ AnyManaged(doc.hooks)

Remove(hooks, ids) ==
    PutOrDrop(hooks, [e \in Events |->
        Without(At(hooks, e), LAMBDA h : Managed(h, e, ids))])

EntirelyManaged(doc) ==
    /\ doc.root \subseteq {"version"}
    /\ DOMAIN doc.hooks # {}
    /\ \A e \in DOMAIN doc.hooks :
        /\ e \in Events
        /\ doc.hooks[e] # <<>>
        /\ Every(doc.hooks[e], LAMBDA h : Managed(h, e, Agents))

Render(doc, hooks) ==
    IF DOMAIN hooks = {} /\ (doc = NoFile \/ EntirelyManaged(doc)) THEN NoFile
    ELSE Document(OrNew(doc).root \cup {"version"}, hooks)

Install(docs, a) ==
    LET doc == docs["user"]
        rest == Remove(OrNew(doc).hooks, Agents)
    IN  [user |-> Render(doc, Append1(rest, Events, LAMBDA e : Handler(a, e)))]

Uninstall(docs, a) ==
    LET doc == docs["user"]
    IN  [user |-> Render(doc, Remove(OrNew(doc).hooks, {a}))]

\* The agents with a handler at every event.
Contracts(docs) ==
    {a \in Agents : \A e \in Events :
        Some(At(OrNew(docs["user"]).hooks, e), LAMBDA h : Managed(h, e, {a}))}

\* The status looks whether the scripts are there, not what they contain.
RuntimeFiles == {"whole", "stale"}

Plugin(docs) ==
    [parses |-> Parses(docs), refused |-> FALSE, enabled |-> TRUE,
     install |-> [a \in Agents |-> Install(docs, a)],
     uninstall |-> [a \in Agents |-> Uninstall(docs, a)],
     stuck |-> {},
     contracts |-> Contracts(docs), files |-> RuntimeFiles]
=============================================================================
