----------------------------- MODULE ClinePlugin -----------------------------
(***************************************************************************)
(* Cline runs the files PreToolUse.mjs ("guard") and PostToolUse.mjs       *)
(* ("audit") of its hooks directory; Elydora writes wrappers there whose   *)
(* metadata name the agent.  The handler of a wrapper that is no longer    *)
(* what its metadata generate is edited.                                   *)
(***************************************************************************)
EXTENDS HookDocuments

Files == {"guard", "audit"}
EventOf(n) == IF n = "guard" THEN "pre" ELSE "post"

Metadata(doc, n, ids) ==
    /\ doc # NoFile
    /\ Some(At(doc.hooks, EventOf(n)),
            LAMBDA h : Refers(h, EventOf(n), ids, {"exact", "edited"}))

Intact(doc, n) ==
    Every(At(doc.hooks, EventOf(n)), LAMBDA h : h.form = "exact")

\* Metadata that cannot be read.
Parses(docs) == \A n \in Files : docs[n] # NoFile => "malformed" \notin docs[n].root

\* A file of another integration.
Refused(docs) == \E n \in Files : docs[n] # NoFile /\ ~Metadata(docs[n], n, Agents)

Wrapper(a, n) == Document({}, [e \in {EventOf(n)} |-> <<Handler(a, e)>>])

\* What was edited is written over, ...
Install(docs, a) == [n \in Files |-> Wrapper(a, n)]

\* ... but not deleted.
Stuck(docs, a) == \E n \in Files : Metadata(docs[n], n, {a}) /\ ~Intact(docs[n], n)

Uninstall(docs, a) ==
    [n \in Files |-> IF Metadata(docs[n], n, {a}) THEN NoFile ELSE docs[n]]

\* Both wrappers are there, intact and of one agent.
Contracts(docs) ==
    {a \in Agents : \A n \in Files : Metadata(docs[n], n, {a}) /\ Intact(docs[n], n)}

RuntimeFiles == {"whole"}

Plugin(docs) ==
    [parses |-> Parses(docs), refused |-> Refused(docs), enabled |-> TRUE,
     install |-> [a \in Agents |-> Install(docs, a)],
     uninstall |-> [a \in Agents |-> Uninstall(docs, a)],
     stuck |-> {a \in Agents : Stuck(docs, a)},
     contracts |-> Contracts(docs), files |-> RuntimeFiles]
=============================================================================
