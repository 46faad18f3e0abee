------------------------------ MODULE PluginCli ------------------------------
(***************************************************************************)
(* `elydora install` and `elydora uninstall` of the Node SDK for one of    *)
(* its fifteen hosts, and a user who edits the host's configuration and   *)
(* upgrades Node or the SDK in between.                                    *)
(*                                                                         *)
(* A command reads the host's documents, and then changes all its files in *)
(* one transaction (see ManagedTransaction): here, one step.  Only the     *)
(* removal of an agent's runtime directory follows separately.             *)
(***************************************************************************)
EXTENDS HookDocuments

CONSTANTS
    Hosts,      \* the hosts this instance looks at
    Start(_),   \* host -> the sets of documents a user may start with
    Others,     \* the settings of a host that are not about hooks
    MaxEdits    \* bound: what the user does

Cursor == INSTANCE CursorPlugin
ClaudeCode == INSTANCE ClaudeCodePlugin
Codex == INSTANCE CodexPlugin
Augment == INSTANCE AugmentPlugin
Gemini == INSTANCE GeminiPlugin
Qwen == INSTANCE QwenPlugin
Letta == INSTANCE LettaPlugin
Grok == INSTANCE GrokPlugin
Droid == INSTANCE DroidPlugin
Copilot == INSTANCE CopilotPlugin
Kimi == INSTANCE KimiPlugin
KiroIde == INSTANCE KiroIdePlugin
KiroCli == INSTANCE KiroCliPlugin
OpenCode == INSTANCE OpenCodePlugin
Cline == INSTANCE ClinePlugin

VARIABLES
    host,       \* the host
    docs,       \* its configuration files, by name
    runtime,    \* ~/.elydora/<agent>: absent, whole, stale (an earlier
                \* version's scripts), headless (no config.json) or foreign
                \* (another host's)
    last,       \* the command that has just succeeded, and its agent
    edits       \* what the user did
vars == <<host, docs, runtime, last, edits>>

PluginOf(h, ds) ==
    CASE h = "cursor" -> Cursor!Plugin(ds)
      [] h = "claudecode" -> ClaudeCode!Plugin(ds)
      [] h = "codex" -> Codex!Plugin(ds)
      [] h = "augment" -> Augment!Plugin(ds)
      [] h = "gemini" -> Gemini!Plugin(ds)
      [] h = "qwen" -> Qwen!Plugin(ds)
      [] h = "letta" -> Letta!Plugin(ds)
      [] h = "grok" -> Grok!Plugin(ds)
      [] h = "droid" -> Droid!Plugin(ds)
      [] h = "copilot" -> Copilot!Plugin(ds)
      [] h = "kimi" -> Kimi!Plugin(ds)
      [] h = "kiroide" -> KiroIde!Plugin(ds)
      [] h = "kirocli" -> KiroCli!Plugin(ds)
      [] h = "opencode" -> OpenCode!Plugin(ds)
      [] h = "cline" -> Cline!Plugin(ds)

Plugin == PluginOf(host, docs)

-----------------------------------------------------------------------------
\* The handlers of a list of handlers or of groups, in order.
InElement(x) == IF "hooks" \in DOMAIN x THEN x.hooks ELSE <<x>>
Flat(list) ==
    LET flat[k \in 0 .. Len(list)] ==
            IF k = 0 THEN <<>> ELSE flat[k - 1] \o InElement(list[k])
    IN  flat
HandlersOf(list) == Flat(list)[Len(list)]

\* What a document lists at an event.
ListAt(ds, n, e) == At(OrNew(ds[n]).hooks, e)

\* "other" stands for the events Elydora has no hook at.
AllEvents == {"pre", "post", "fail", "other"}

Mentions(ds, a) ==
    \E n \in DOMAIN ds, e \in AllEvents :
        Some(ListAt(ds, n, e), LAMBDA x : Some(InElement(x), LAMBDA h : h.owner = a))

\* What the files of an agent's directory are: none, those this version
\* writes, another version's, files without the configuration, another host's.
RuntimeStates == {"absent", "whole", "stale", "headless", "foreign"}

-----------------------------------------------------------------------------
\* What the documents of a host are.

Events(h) ==
    IF h \in {"cursor", "claudecode", "qwen", "letta", "grok", "copilot", "kimi"}
    THEN {"pre", "post", "fail"} ELSE {"pre", "post"}

\* Its files.
Names(h) ==
    CASE h = "qwen" -> {"defaults", "user", "workspace", "system", "trusted"}
      [] h = "letta" -> {"global", "project", "local"}
      [] h = "droid" -> Droid!Sources \cup {"managed", "project", "projectLocal"}
      [] h = "copilot" -> {"user", "legacy", "config", "settings", "claude", "claudeLocal",
                           "github", "githubLocal"}
      [] h = "kimi" -> {"homes", "stable", "legacy"}
      [] h = "kiroide" -> {"workspace", "legacy"}
      [] h = "kirocli" -> {"v2", "v3"}
      [] h = "opencode" -> {"current", "legacy"}
      [] h = "cline" -> Cline!Files
      [] OTHER -> {"user"}

\* Those that this version writes handlers to.
Written(h, ds) ==
    CASE h = "letta" -> {"global"}
      [] h = "droid" -> Droid!Sources
      [] h = "copilot" -> {"user", "legacy"}
      [] h = "kimi" -> Kimi!Detected(ds)
      [] h = "kiroide" -> {"workspace"}
      [] h = "kirocli" -> {"v2", "v3"}
      [] h = "opencode" -> {"current"}
      [] h = "cline" -> Cline!Files
      [] OTHER -> {"user"}

Listed == [owner : Agents \cup {User}, script : {"guard", "audit", "own"}, form : Forms]
Grouped == [shape : {"exact", "star", "own"}, hooks : Seq(Listed)]
Elements(h) ==
    IF h \in {"cursor", "copilot", "kimi", "kiroide", "kirocli", "opencode", "cline"}
    THEN Listed ELSE Grouped

Fields ==
    {"hooks", "version", "marker", "meta", "malformed", "off", "on", "offName", "offCommand",
     "managedOnly", "trust", "distrust", "trustOn", "trustOff", "stable", "legacy"} \cup Others

IsDocument(doc, elements) ==
    \E es \in SUBSET AllEvents : doc \in [root : SUBSET Fields, hooks : [es -> Seq(elements)]]

\* A handler that is as Elydora writes it is where Elydora writes it.
InPlace(h, ds) ==
    \A n \in Names(h), e \in AllEvents :
        Every(ListAt(ds, n, e), LAMBDA x : Every(InElement(x), LAMBDA y :
            y.owner \in Agents /\ y.form = "exact" =>
                n \in Written(h, ds) /\ e \in Events(h) /\ y.script = ScriptOf(e)))

\* The files that are settings with a container for hooks.
HasSettings(h, n) ==
    \/ h \in {"gemini", "qwen", "letta"}
    \/ h = "droid" /\ n \in {"settings", "localSettings"}

\* Hooks stand in a container; a file for one handler holds nothing else.
Contained(h, n, doc) ==
    /\ HasSettings(h, n) => (DOMAIN doc.hooks # {} => "hooks" \in doc.root)
    /\ h \in {"opencode", "cline"} => doc.root \subseteq {"version", "hooks", "malformed"}
    /\ h = "claudecode" => \A e \in DOMAIN doc.hooks :
          Every(doc.hooks[e], LAMBDA g : g.shape = "exact" => g.hooks # <<>>)
    /\ h = "cline" => /\ DOMAIN doc.hooks \subseteq {Cline!EventOf(n)}
                      /\ \A e \in DOMAIN doc.hooks : Len(doc.hooks[e]) <= 1

\* Kimi's homes are no file: they name those that there may be.
Homes(doc) == doc # NoFile /\ doc.root \subseteq {"stable", "legacy"} /\ doc.hooks = <<>>

WellFormed(h, ds) ==
    /\ ds = [n \in Names(h) |-> ds[n]]
    /\ \A n \in Names(h) :
        ds[n] # NoFile => IsDocument(ds[n], Elements(h)) /\ Contained(h, n, ds[n])
    /\ InPlace(h, ds)
    /\ h = "kimi" => Homes(ds["homes"])

ASSUME HostAssumption ==
    /\ Hosts \subseteq {"cursor", "claudecode", "codex", "augment", "gemini", "qwen", "letta",
                        "grok", "droid", "copilot", "kimi", "kiroide", "kirocli", "opencode",
                        "cline"}
    /\ MaxEdits \in Nat
    /\ User \notin Agents
    /\ ~IsDocument(NoFile, Listed) /\ ~IsDocument(NoFile, Grouped)
    /\ \A h \in Hosts : \A ds \in Start(h) : WellFormed(h, ds)

TypeOK ==
    /\ host \in Hosts
    /\ WellFormed(host, docs)
    /\ runtime \in [Agents -> RuntimeStates]
    /\ edits \in 0 .. MaxEdits

\* An agent that the documents mention was installed by an earlier version.
Init ==
    /\ host \in Hosts
    /\ docs \in Start(host)
    /\ runtime \in [Agents -> {"absent", "stale", "foreign"}]
    /\ \A a \in Agents : Mentions(docs, a) <=> runtime[a] = "stale"
    /\ last = <<"none", NoFile>>
    /\ edits = 0

-----------------------------------------------------------------------------
\* Every command, and every status, begins with reading all documents, once,
\* and fails if one is not as the host would accept it.

\* The identity of an existing runtime directory must be this host's.
RuntimeIdentity(a) == runtime[a] \in {"absent", "whole", "stale"}

\* The scripts, the configuration and the key are written over.
WriteRuntime(a) == runtime' = [runtime EXCEPT ![a] = "whole"]

Install(a) ==
    /\ RuntimeIdentity(a)
    /\ \E plugin \in {Plugin} :
           plugin.parses /\ ~plugin.refused /\ docs' = plugin.install[a]
    /\ WriteRuntime(a)
    /\ last' = <<"install", a>>
    /\ UNCHANGED <<host, edits>>

\* The process may end between the hooks and the runtime directory.
UninstallHooks(a, died) ==
    /\ \E plugin \in {Plugin} :
           plugin.parses /\ a \notin plugin.stuck /\ docs' = plugin.uninstall[a]
    /\ runtime' = IF died THEN runtime ELSE [runtime EXCEPT ![a] = "absent"]
    /\ last' = <<"uninstall", a>>
    /\ UNCHANGED <<host, edits>>

\* uninstall --agent_id: a runtime that is readable must be this host's.
UninstallNamed(a, died) ==
    /\ runtime[a] # "foreign"
    /\ UninstallHooks(a, died)

Discovered == {a \in Agents : runtime[a] \in {"whole", "stale"}}

\* uninstall without an agent: the only one there is.
UninstallOnly(died) ==
    \E a \in Agents : Discovered = {a} /\ UninstallHooks(a, died)

\* The agents in the documents whose files are as the host requires.
FilesExist(plugin) == {a \in plugin.contracts : runtime[a] \in plugin.files}

\* What `elydora status` says of this host.
Installed ==
    \E plugin \in {Plugin} :
        /\ plugin.parses
        /\ plugin.enabled
        /\ FilesExist(plugin) # {}
        /\ host = "kiroide" => FilesExist(plugin) = plugin.contracts

-----------------------------------------------------------------------------
\* The user and the world.

Edit(newDocs) ==
    /\ edits < MaxEdits
    /\ edits' = edits + 1
    /\ docs' = newDocs
    /\ last' = <<"none", NoFile>>
    /\ UNCHANGED host

\* One element of a list, a handler or a group, is changed.
ElementEdited(x, own) ==
    IF "hooks" \notin DOMAIN x THEN [x EXCEPT !.form = "edited"]
    ELSE IF own THEN [x EXCEPT !.shape = "own", !.hooks = Append(@, Own)]
    ELSE [x EXCEPT !.hooks = [j \in DOMAIN @ |-> [@[j] EXCEPT !.form = "edited"]]]

EditElement ==
    /\ \E n \in DOMAIN docs, e \in AllEvents :
        /\ docs[n] # NoFile
        /\ \E i \in DOMAIN At(docs[n].hooks, e), own \in BOOLEAN :
            Edit([docs EXCEPT ![n].hooks[e][i] = ElementEdited(docs[n].hooks[e][i], own)])
    /\ UNCHANGED runtime

DeleteElement ==
    /\ \E n \in DOMAIN docs, e \in AllEvents :
        /\ docs[n] # NoFile
        /\ \E i \in DOMAIN At(docs[n].hooks, e) :
            Edit([docs EXCEPT ![n].hooks[e] = Pick(@, DOMAIN @ \ {i})])
    /\ UNCHANGED runtime

\* The user turns the host's hooks off.
TurnOff ==
    /\ host \notin {"opencode", "cline"}
    /\ \E n \in DOMAIN docs :
        /\ docs[n] # NoFile
        /\ n # "homes"
        /\ Edit([docs EXCEPT ![n].root = @ \cup {"off"}])
    /\ UNCHANGED runtime

DeleteFile ==
    /\ \E n \in DOMAIN docs :
        /\ docs[n] # NoFile
        /\ n # "homes"
        /\ Edit([docs EXCEPT ![n] = NoFile])
    /\ UNCHANGED runtime

\* A file without hooks appears, or the home directory of another Kimi.
CreateFile ==
    /\ \E n \in DOMAIN docs :
        IF n = "homes"
        THEN Edit([docs EXCEPT ![n].root = {"stable", "legacy"}])
        ELSE /\ docs[n] = NoFile
             /\ host # "kimi"
             /\ Edit([docs EXCEPT ![n] = Document({"version", "hooks"}, <<>>)])
    /\ UNCHANGED runtime

\* Node moves: what names its executable names another one now.
MovedHandler(y) ==
    IF y.owner \in Agents /\ y.form = "exact" THEN [y EXCEPT !.form = "moved"] ELSE y
MovedElement(x) ==
    IF "hooks" \notin DOMAIN x THEN MovedHandler(x)
    ELSE [x EXCEPT !.hooks = [j \in DOMAIN @ |-> MovedHandler(@[j])]]
MovedDocument(doc) ==
    IF doc = NoFile THEN NoFile
    ELSE [doc EXCEPT !.hooks = [e \in DOMAIN @ |-> [i \in DOMAIN @[e] |-> MovedElement(@[e][i])]]]

MoveNode ==
    /\ host \notin {"cline", "augment"}
    /\ Edit([n \in DOMAIN docs |-> MovedDocument(docs[n])])
    /\ UNCHANGED runtime

\* Another version of the SDK generates other scripts.
UpgradeSdk ==
    /\ Edit(docs)
    /\ runtime' = [a \in Agents |-> IF runtime[a] = "whole" THEN "stale" ELSE runtime[a]]

LoseConfig(a) ==
    /\ runtime[a] \in {"whole", "stale"}
    /\ Edit(docs)
    /\ runtime' = [runtime EXCEPT ![a] = "headless"]

Command ==
    \/ \E a \in Agents : Install(a)
    \/ \E a \in Agents, died \in BOOLEAN : UninstallNamed(a, died)
    \/ \E died \in BOOLEAN : UninstallOnly(died)

Next ==
    \/ Command
    \/ EditElement
    \/ DeleteElement
    \/ TurnOff
    \/ DeleteFile
    \/ CreateFile
    \/ MoveNode
    \/ UpgradeSdk
    \/ \E a \in Agents : LoseConfig(a)

Spec == Init /\ [][Next]_vars
-----------------------------------------------------------------------------
\* A host never runs a script that is not there: as long as Elydora's entry
\* is as it was written, in a group as it was written, its agent's runtime
\* stands, through any order of commands for several agents
\* (cli.ts:276-282: hooks first, the directory last).
Exact(y, a) == y.owner = a /\ y.form = "exact"
Runs(x, a) ==
    IF "hooks" \in DOMAIN x THEN x.shape = "exact" /\ Some(x.hooks, LAMBDA y : Exact(y, a))
    ELSE Exact(x, a)

HandlersHaveRuntime ==
    \A n \in DOMAIN docs, e \in AllEvents, a \in Agents :
        Some(ListAt(docs, n, e), LAMBDA x : Runs(x, a)) => runtime[a] # "absent"

\* A second installation of the same agent changes nothing: no duplicate
\* handlers, nothing of the first is taken for the user's.
ReinstallChangesNothing ==
    LET plugin == Plugin
    IN  plugin.parses => \A a \in Agents :
            LET once == plugin.install[a] IN PluginOf(host, once).install[a] = once

\* The forms of Elydora's handlers that a host's plugin recognises, and takes
\* out before it adds its own.
Recognised(h) ==
    CASE h \in {"claudecode", "droid"} -> {"exact", "legacy"}
      [] h = "augment" -> {"exact", "moved"}
      [] h = "kiroide" -> {"exact", "moved", "edited"}
      [] h \in {"kirocli", "opencode", "cline"} -> Forms
      [] OTHER -> {"exact", "moved", "legacy"}

\* An element of the list at event e with a handler of agent b that is recognised:
\* Grok's plugin looks into groups as it writes them only.
Known(h, x, e, b) ==
    /\ h = "grok" => x.shape = "exact"
    /\ Some(InElement(x), LAMBDA y : Refers(y, e, {b}, Recognised(h)))

\* After a successful installation the host reports it, for this agent only, and
\* no handler of another agent that the plugin recognises is left in a file it
\* writes: an agent that was there before is replaced, not joined, even after the
\* user has edited the files, upgraded the SDK or moved Node.  What is not
\* recognised stays, and the host may go on running it beside the new hooks:
\* handlers edited by hand, those that name another Node in Claude Code and Droid
\* (claudecode-contract.ts:272, droid-contract.ts:165), those of groups with other
\* fields in Grok (grok-contract.ts:172), those of earlier versions in Augment.
InstallTakes ==
    last[1] = "install" =>
        /\ Installed
        /\ Plugin.contracts = {last[2]}
        /\ \A n \in Written(host, docs), e \in Events(host), b \in Agents \ {last[2]} :
              ~Some(ListAt(docs, n, e), LAMBDA x : Known(host, x, e, b))

\* No command (a step that is no edit) removes, changes or reorders a handler of the user, or takes a
\* field of a settings file away.
UsersHandlers(ds, n, e) == Without(HandlersOf(ListAt(ds, n, e)), LAMBDA h : h.owner # User)
UsersFields(ds, n) == OrNew(ds[n]).root \ {"hooks", "marker", "version", "meta", "malformed"}

ForeignKept ==
    [][edits' = edits => \A n \in DOMAIN docs :
        /\ \A e \in AllEvents : UsersHandlers(docs', n, e) = UsersHandlers(docs, n, e)
        /\ UsersFields(docs, n) \subseteq UsersFields(docs', n)]_vars
=============================================================================
