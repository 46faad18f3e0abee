--------------------------- MODULE OpenCodePlugin ---------------------------
(***************************************************************************)
(* OpenCode: a plugin file that Elydora generates ("current"), and the one *)
(* earlier versions generated ("legacy").  Each is one file for one agent; *)
(* its handlers are here the guard and the audit it starts.                *)
(***************************************************************************)
EXTENDS HookDocuments

Events == {"pre", "post"}

Contract(doc, ids, forms) ==
    {a \in ids : /\ doc # NoFile
                 /\ DOMAIN doc.hooks = Events
                 /\ \A e \in Events :
                     One(DOMAIN doc.hooks[e]) /\ Refers(doc.hooks[e][1], e, {a}, forms)}

CurrentContract(docs, ids) == Contract(docs["current"], ids, {"exact", "moved"})
LegacyContract(docs, ids) == Contract(docs["legacy"], ids, {"legacy"})

\* A file with Elydora's metadata must be what this version generates from it.
Parses(docs) ==
    LET doc == docs["current"]
    IN  (\E e \in Events : Some(At(OrNew(doc).hooks, e), LAMBDA h : h.owner \in Agents))
            => CurrentContract(docs, Agents) # {}

\* The file belongs to someone else.
Disabled(docs) == docs["current"] # NoFile /\ CurrentContract(docs, Agents) = {}

PluginFile(a) == Document({}, [e \in Events |-> <<Handler(a, e)>>])

Remove(docs, n, contract) == IF contract # {} THEN NoFile ELSE docs[n]

Install(docs, a) ==
    [current |-> PluginFile(a),
     legacy |-> Remove(docs, "legacy", LegacyContract(docs, Agents))]

Uninstall(docs, a) ==
    [current |-> Remove(docs, "current", CurrentContract(docs, {a})),
     legacy |-> Remove(docs, "legacy", LegacyContract(docs, {a}))]

\* Next to a legacy plugin the current one does not count.
Contracts(docs) ==
    IF LegacyContract(docs, Agents) # {} THEN {} ELSE CurrentContract(docs, Agents)

RuntimeFiles == {"whole"}

Plugin(docs) ==
    [parses |-> Parses(docs), refused |-> Disabled(docs), enabled |-> ~Disabled(docs),
     install |-> [a \in Agents |-> Install(docs, a)],
     uninstall |-> [a \in Agents |-> Uninstall(docs, a)],
     stuck |-> {},
     contracts |-> Contracts(docs), files |-> RuntimeFiles]
=============================================================================
