----------------------------- MODULE MCPluginCli -----------------------------
(***************************************************************************)
(* Small instances of PluginCli: for each host, the files that its plugin  *)
(* tells apart, as a user or an earlier version may have left them.        *)
(***************************************************************************)
EXTENDS PluginCli, TLC

MCHosts == {"cursor", "claudecode", "codex", "augment", "gemini", "qwen", "letta",
            "grok", "droid", "copilot", "kimi", "kiroide", "kirocli", "opencode", "cline"}

Old(a, e) == [Handler(a, e) EXCEPT !.form = "legacy"]
OldGroup(a, e) == [shape |-> "exact", hooks |-> <<Old(a, e)>>]
OwnGroup == [shape |-> "own", hooks |-> <<Own>>]
MixedGroup(a, e) == [shape |-> "exact", hooks |-> <<Own, Old(a, e)>>]
Taken(e) == [owner |-> User, script |-> ScriptOf(e), form |-> "exact"]

First == CHOOSE a \in Agents : TRUE

\* The hooks of a user, of an earlier version, and of both.
FlatHooks(events) ==
    {<<>>,
     ("pre" :> <<Own>>) @@ ("other" :> <<Own>>),
     [e \in events |-> <<Old(First, e)>>],
     [e \in events |-> <<Old(First, e), Own>>]}

GroupHooks(events) ==
    {<<>>,
     ("pre" :> <<OwnGroup>>) @@ ("other" :> <<OwnGroup>>),
     [e \in events |-> <<OldGroup(First, e)>>],
     [e \in events |-> IF e = "pre" THEN <<MixedGroup(First, e), OwnGroup>>
                       ELSE <<OwnGroup, OldGroup(First, e)>>]}

Two == {"pre", "post"}
Three == {"pre", "post", "fail"}

\* Documents with the given hooks and fields, an unreadable one, or none.
Documents(roots, hookSets) ==
    {NoFile, Document({"malformed"}, <<>>)}
        \cup {Document(r, h) : r \in roots, h \in hookSets}

One1(name, documents) == {(name :> d) : d \in documents}

Off == Document({"off"}, <<>>)
On == Document({"on"}, <<>>)
Says(f) == {NoFile, Document({f}, <<>>)}

\* Copilot's own hook file, with a hook of the user's at every event.
UsersFile == Document({"version"}, [e \in Three |-> <<Own>>])

MCStart(h) ==
    CASE h = "cursor" ->
            One1("user", Documents({{}, {"version", "theme"}}, FlatHooks(Three)))
      [] h = "claudecode" -> One1("user", Documents({{}, {"theme"}}, GroupHooks(Three)))
      [] h = "codex" -> One1("user", Documents({{}, {"theme"}}, GroupHooks(Three)))
      [] h = "augment" -> One1("user", Documents({{}, {"theme"}},
            {<<>>, ("pre" :> <<OwnGroup>>) @@ ("other" :> <<OwnGroup>>)}))
      [] h = "gemini" ->
            One1("user", Documents({{"hooks"}, {"hooks", "marker"}, {"hooks", "offCommand"}},
                                   GroupHooks(Two)))
      [] h = "qwen" ->
            {[defaults |-> NoFile, user |-> u, workspace |-> w, system |-> s, trusted |-> t] :
                u \in Documents({{"hooks", "trustOn"}}, GroupHooks(Three)),
                w \in Says("off"), s \in {NoFile}, t \in Says("distrust")}
      [] h = "letta" ->
            {[global |-> g, project |-> p, local |-> NoFile] :
                g \in Documents({{"hooks"}, {"hooks", "on"}}, GroupHooks(Three)), p \in Says("off")}
      [] h = "grok" -> One1("user", Documents({{}, {"theme"}}, GroupHooks(Three)))
      [] h = "droid" ->
            {[root |-> r, legacy |-> l, settings |-> s, localSettings |-> NoFile,
              managed |-> NoFile, project |-> p, projectLocal |-> NoFile] :
                r \in {NoFile, Document({"hooks", "marker"}, [e \in Two |-> <<OldGroup(First, e)>>])},
                l \in {NoFile, Document({}, ("pre" :> <<OwnGroup>>) @@ ("other" :> <<OwnGroup>>))},
                s \in {Document({"theme"}, <<>>),
                       Document({"theme", "hooks"}, [e \in Two |-> <<MixedGroup(First, e), OwnGroup>>])},
                p \in Says("off")}
      [] h = "copilot" ->
            {[n \in {"user", "legacy", "config", "settings", "claude", "claudeLocal",
                     "github", "githubLocal"} |->
                CASE n = "user" -> x[1] [] n = "legacy" -> l [] n = "settings" -> x[2]
                  [] n = "github" -> x[3] [] OTHER -> NoFile] :
                x \in {<<NoFile, NoFile, NoFile>>, <<UsersFile, NoFile, NoFile>>,
                       <<NoFile, Off, NoFile>>, <<NoFile, Off, On>>},
                l \in Documents({{"version"}}, FlatHooks(Three))}
      [] h = "kimi" ->
            {[homes |-> Document(x, <<>>),
              stable |-> IF "stable" \in x THEN s ELSE NoFile,
              legacy |-> IF "legacy" \in x THEN l ELSE NoFile] :
                x \in SUBSET {"stable", "legacy"},
                s \in {NoFile, Document({"theme"}, <<>>)},
                l \in Documents({{}}, FlatHooks(Three))}
      [] h = "kiroide" ->
            {[workspace |-> w, legacy |-> l] :
                w \in Documents({{"version"}},
                          {<<>>, ("pre" :> <<Own>>) @@ ("other" :> <<Own>>), "pre" :> <<Taken("pre")>>}),
                l \in {NoFile, Document({}, [e \in Two |-> <<Old(First, e)>>])}}
      [] h = "kirocli" ->
            {[v2 |-> v, v3 |-> w] :
                v \in Documents({{"theme"}, {"meta"}}, FlatHooks(Two)),
                w \in Documents({{"version"}}, {<<>>, ("pre" :> <<Own>>) @@ ("other" :> <<Own>>),
                                                [e \in Two |-> <<Old(First, e)>>]})}
      [] h = "opencode" ->
            {[current |-> c, legacy |-> l] :
                c \in {NoFile, Document({}, "pre" :> <<Own>>)},
                l \in {NoFile, Document({}, [e \in Two |-> <<Old(First, e)>>]),
                       Document({}, "pre" :> <<Own>>)}}
      [] h = "cline" ->
            {[guard |-> g, audit |-> NoFile] :
                g \in {NoFile, Document({}, "pre" :> <<Own>>), Document({"malformed"}, <<>>)}}
=============================================================================
