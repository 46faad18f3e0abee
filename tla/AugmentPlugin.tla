---------------------------- MODULE AugmentPlugin ----------------------------
(***************************************************************************)
(* Augment Code CLI: ~/.augment/settings.json, groups per event.  The      *)
(* handlers run wrapper scripts that stand beside the runtime, so they do  *)
(* not name the Node executable.                                           *)
(***************************************************************************)
EXTENDS HookDocuments

Events == {"pre", "post"}

\* Fields it does not know are ignored: any group counts, whatever its matcher.
Managed(h, event, ids) == Refers(h, event, ids, {"exact", "moved"})

ValidSettings(doc) == "malformed" \notin doc.root

Parses(docs) == docs["user"] # NoFile => ValidSettings(docs["user"])

\* Only a group that loses a handler is dropped, with its metadata.
RemoveManaged(groups, event, ids) ==
    StripHit(groups, LAMBDA h : Managed(h, event, ids), LAMBDA g : TRUE)

Hit(hooks, ids) ==
    {e \in Events \cap DOMAIN hooks :
        RemoveManaged(hooks[e], e, ids) # hooks[e]}

Remove(hooks, ids) ==
    PutOrDrop(hooks, [e \in Hit(hooks, ids) |-> RemoveManaged(hooks[e], e, ids)])

Render(doc, hooks) ==
    IF OrNew(doc).root = {} /\ DOMAIN hooks = {} THEN NoFile
    ELSE Document(OrNew(doc).root, hooks)

Install(docs, a) ==
    LET doc == docs["user"]
        rest == Remove(OrNew(doc).hooks, Agents)
    IN  [user |-> Render(doc, Append1(rest, Events, LAMBDA e : Group(a, e)))]

\* A file without a handler of the agent is not written.
Uninstall(docs, a) ==
    LET doc == docs["user"]
    IN  IF doc = NoFile \/ Hit(OrNew(doc).hooks, {a}) = {} THEN docs
        ELSE [user |-> Render(doc, Remove(doc.hooks, {a}))]

ManagedIds(groups, event) ==
    {a \in Agents : Matches(groups, LAMBDA g : TRUE, LAMBDA h : Managed(h, event, {a})) # {}}

Contracts(docs) ==
    LET hooks == OrNew(docs["user"]).hooks
    IN  ManagedIds(At(hooks, "pre"), "pre") \cap ManagedIds(At(hooks, "post"), "post")

\* The scripts and the wrappers must be what this version generates.
RuntimeFiles == {"whole"}

Plugin(docs) ==
    [parses |-> Parses(docs), refused |-> FALSE, enabled |-> TRUE,
     install |-> [a \in Agents |-> Install(docs, a)],
     uninstall |-> [a \in Agents |-> Uninstall(docs, a)],
     stuck |-> {},
     contracts |-> Contracts(docs), files |-> RuntimeFiles]
=============================================================================
