----------------------------- MODULE QwenPlugin -----------------------------
(***************************************************************************)
(* Qwen Code: the user's settings.json, groups per event, edited in place. *)
(* Four layers decide whether hooks are disabled: the system's defaults,   *)
(* the user's, the workspace's (if it is trusted) and the system's         *)
(* override; root fields "off" and "on" are disableAllHooks true and       *)
(* false, "trustOn" and "trustOff" folderTrust.enabled.  The document      *)
(* "trusted" is trustedFolders.json: "trust" or "distrust" this workspace. *)
(* A group of an earlier version has the shape "star" (matcher "*").       *)
(***************************************************************************)
EXTENDS HookDocuments

Events == {"pre", "post", "fail"}

ValidHooks(doc) == "malformed" \notin doc.root
Parses(docs) == \A n \in DOMAIN docs : docs[n] # NoFile => ValidHooks(docs[n])

NewSettings == Document({"marker"}, <<>>)
Settings(doc) == IF doc = NoFile THEN NewSettings ELSE doc

Current(h, event, ids) == Refers(h, event, ids, {"exact", "moved"})
Managed(h, event, ids) == Refers(h, event, ids, {"exact", "moved", "legacy"})

CurrentGroup(g) == g.shape = "exact"
ManagedGroup(g) == g.shape \in {"exact", "star"}

Removals(groups, event, ids) ==
    StripHit(groups, LAMBDA h : Managed(h, event, ids), ManagedGroup)

RemoveManagedEntries(doc, ids) ==
    LET hit == {e \in Events \cap DOMAIN doc.hooks :
                    Removals(doc.hooks[e], e, ids) # doc.hooks[e]}
        hooks == PutOrDrop(doc.hooks, [e \in hit |-> Removals(doc.hooks[e], e, ids)])
    IN  Document(IF DOMAIN hooks = {} THEN doc.root \ {"hooks"} ELSE doc.root, hooks)

AppendGroups(doc, a) ==
    Document(doc.root \cup {"hooks"},
             Append1(doc.hooks, Events, LAMBDA e : Group(a, e)))

\* Says(docs, n, yes, no): what layer n says of a switch: "yes", "no" or nothing.
Says(docs, n, yes, no) ==
    CASE yes \in Settings(docs[n]).root -> "yes"
      [] no \in Settings(docs[n]).root -> "no"
      [] OTHER -> "nothing"

WorkspaceTrust(docs) ==
    LET user == Says(docs, "user", "trustOn", "trustOff")
        enabled == IF user # "nothing" THEN user
                   ELSE Says(docs, "system", "trustOn", "trustOff")
    IN  enabled = "yes" => Says(docs, "trusted", "trust", "distrust") # "no"

\* The last layer that says anything decides.
EffectiveDisable(docs) ==
    LET layers == <<"defaults", "user">> \o
                  (IF WorkspaceTrust(docs) THEN <<"workspace">> ELSE <<>>) \o <<"system">>
        said == Without([i \in DOMAIN layers |-> Says(docs, layers[i], "off", "on")],
                        LAMBDA s : s = "nothing")
    IN  said # <<>> /\ said[Len(said)] = "yes"

Refused(docs) == EffectiveDisable(docs)

Install(docs, a) ==
    [docs EXCEPT !["user"] =
        AppendGroups(RemoveManagedEntries(Settings(@), Agents), a)]

Uninstall(docs, a) ==
    LET doc == RemoveManagedEntries(Settings(docs["user"]), {a})
    IN  [docs EXCEPT !["user"] = IF doc.root = {"marker"} THEN NoFile ELSE doc]

References(hooks, event, a) ==
    Matches(At(hooks, event), CurrentGroup, LAMBDA h : Current(h, event, {a}))

Contracts(docs) ==
    {a \in Agents : \A e \in Events : One(References(Settings(docs["user"]).hooks, e, a))}

RuntimeFiles == {"whole"}

Plugin(docs) ==
    [parses |-> Parses(docs), refused |-> Refused(docs), enabled |-> ~Refused(docs),
     install |-> [a \in Agents |-> Install(docs, a)],
     uninstall |-> [a \in Agents |-> Uninstall(docs, a)],
     stuck |-> {},
     contracts |-> Contracts(docs), files |-> RuntimeFiles]
=============================================================================
