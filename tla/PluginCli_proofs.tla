-------------------------- MODULE PluginCli_proofs --------------------------
(***************************************************************************)
(* Installation and removal of hooks, for any agents, any documents that a *)
(* host may have and any number of edits: handlers have their runtime, an  *)
(* installation takes, a second one changes nothing, and what is the       *)
(* user's stays.                                                           *)
(*                                                                         *)
(* A host keeps the promise Sound (see PluginHosts_proofs): an             *)
(* installation or a removal changes its documents only as it may          *)
(* (Changed), and from one set of allowed documents (WellFormed) to        *)
(* another.  What the user does leaves such documents too, and nothing     *)
(* runs in them that did not run before (Edited).                          *)
(***************************************************************************)
EXTENDS PluginHosts_proofs

-----------------------------------------------------------------------------
(* Codex.                                                                  *)
CodexRoot(doc) == IF doc = NoFile THEN {"marker"} ELSE doc.root

CodexRemoval(H, ids) == GroupsRemoval(H, Pair, ids, Three, {"exact"})

(* The operators of the plugin, in the terms used here.                    *)
LEMMA CodexOps ==
  ASSUME NEW ds, NEW a
  PROVE  /\ Codex!Install(ds, a) =
              [user |-> Codex!Render(ds["user"],
                 GroupAddition(CodexRemoval(OrNew(ds["user"]).hooks, Agents), Pair, a))]
         /\ Codex!Uninstall(ds, a) =
              [user |-> Codex!Render(ds["user"],
                 CodexRemoval(OrNew(ds["user"]).hooks, {a}))]
         /\ Codex!Contracts(ds) = SomeFound(OrNew(ds["user"]).hooks, Pair, Three, {"exact"})
<1>1. \A d : Codex!OrNew(d) = OrNew(d)
  BY DEF Codex!OrNew, OrNew, Codex!NewDocument, NewDocument, Codex!Document, Document
<1>2. \A H, ids : Codex!Remove(H, ids) = CodexRemoval(H, ids)
  <2>1. \A gs, e, ids : Codex!RemoveFromGroups(gs, e, ids)
                          = GroupRemoval(gs, e, ids, Three, {"exact"})
    <3> SUFFICES ASSUME NEW gs, NEW e, NEW ids
                 PROVE  Codex!RemoveFromGroups(gs, e, ids)
                          = GroupRemoval(gs, e, ids, Three, {"exact"})
      OBVIOUS
    <3>1. \A g : Codex!ExactMatcherGroup(g) <=> g.shape \in {"exact"}
      BY DEF Codex!ExactMatcherGroup
    <3>2. Codex!RemoveFromGroups(gs, e, ids) =
            LET rest == Emptied(gs, e, ids, Three)
            IN  Pick(rest, {i \in DOMAIN rest :
                              ~(rest[i].hooks = <<>> /\ Codex!ExactMatcherGroup(rest[i]))})
      BY DEF Codex!RemoveFromGroups, Codex!Strip, Codex!Without, Codex!Pick, Pick,
        Codex!Kept, Kept, Codex!Managed, Codex!Refers, Refers, Codex!ScriptOf, ScriptOf,
        Emptied, Unmatched, Three
    <3> QED BY <3>1, <3>2 DEF GroupRemoval
  <2> QED BY <2>1
    DEF Codex!Remove, CodexRemoval, GroupsRemoval, Codex!PutOrDrop, PutOrDrop, Codex!Drop, Drop,
      Codex!Over, Over, Codex!At, At, Codex!Events, Pair
<1>3. \A N : Codex!Append1(N, Codex!Events, LAMBDA e : Codex!Group(a, e))
               = GroupAddition(N, Pair, a)
  BY DEF Codex!Append1, GroupAddition, Codex!Over, Over, Codex!At, At, Codex!Group, Group,
    Codex!Handler, Handler, Codex!ScriptOf, ScriptOf, Codex!Events, Pair
<1>4. Codex!Contracts(ds) = SomeFound(Codex!OrNew(ds["user"]).hooks, Pair, Three, {"exact"})
  <2> DEFINE H == Codex!OrNew(ds["user"]).hooks
  <2>1. \A l, e, b : Codex!Matches(l, Codex!ExactMatcherGroup,
                                   LAMBDA h : Codex!Managed(h, e, {b}))
                       = Found(l, e, {b}, Three, {"exact"})
    <3>1. \A g : Codex!ExactMatcherGroup(g) <=> g.shape \in {"exact"}
      BY DEF Codex!ExactMatcherGroup
    <3> QED BY <3>1 DEF Codex!Matches, Found, Matches, Codex!Managed, Codex!Refers, Refers,
          Codex!ScriptOf, ScriptOf, Three
  <2>2. \A e : Codex!ManagedIds(H, e)
                 = {b \in Agents : Found(At(H, e), e, {b}, Three, {"exact"}) # {}}
    BY <2>1 DEF Codex!ManagedIds, Codex!At, At
  <2>3. Codex!Contracts(ds) = Codex!ManagedIds(H, "pre") \cap Codex!ManagedIds(H, "post")
    BY DEF Codex!Contracts
  <2> HIDE DEF H
  <2> QED BY <2>2, <2>3 DEF SomeFound, Pair, H
<1>5. Codex!Install(ds, a) =
        [user |-> Codex!Render(ds["user"],
           Codex!Append1(Codex!Remove(Codex!OrNew(ds["user"]).hooks, Agents), Codex!Events,
                         LAMBDA e : Codex!Group(a, e)))]
  BY DEF Codex!Install
<1>6. Codex!Uninstall(ds, a) =
        [user |-> Codex!Render(ds["user"], Codex!Remove(Codex!OrNew(ds["user"]).hooks, {a}))]
  BY DEF Codex!Uninstall
<1>7. Codex!Install(ds, a) = [user |-> Codex!Render(ds["user"],
         GroupAddition(CodexRemoval(OrNew(ds["user"]).hooks, Agents), Pair, a))]
  BY <1>1, <1>2, <1>3, <1>5
<1> QED BY <1>1, <1>2, <1>4, <1>6, <1>7

(* What a document is rendered to.                                         *)
LEMMA CodexRender ==
  ASSUME NEW doc, NEW N
  PROVE  LET d == Document(CodexRoot(doc), N)
         IN  /\ DOMAIN N # {} => Codex!Render(doc, N) = d
             /\ \/ Codex!Render(doc, N) = d
                \/ /\ Codex!Render(doc, N) = NoFile /\ DOMAIN N = {}
                   /\ OrNew(doc).root \subseteq {"marker"}
<1> DEFINE d == Document(CodexRoot(doc), N)
<1>1. doc # NoFile => Codex!Render(doc, N) =
        IF DOMAIN N = {} /\ Codex!EntirelyManaged(doc) THEN NoFile ELSE d
  BY DEF Codex!Render, Codex!Document, Document, CodexRoot
<1>2. doc = NoFile => Codex!Render(doc, N) = IF DOMAIN N = {} THEN NoFile ELSE d
  BY DEF Codex!Render, Codex!Document, Document, CodexRoot
<1>3. Codex!EntirelyManaged(doc) => doc.root \subseteq {"marker"}
  BY DEF Codex!EntirelyManaged
<1>4. doc = NoFile => OrNew(doc).root = {} BY DEF OrNew, NewDocument, Document
<1>5. doc # NoFile => OrNew(doc) = doc BY DEF OrNew
<1> HIDE DEF d
<1>6. /\ DOMAIN N # {} => Codex!Render(doc, N) = d
      /\ \/ Codex!Render(doc, N) = d
         \/ /\ Codex!Render(doc, N) = NoFile /\ DOMAIN N = {}
            /\ OrNew(doc).root \subseteq {"marker"}
  BY <1>1, <1>2, <1>3, <1>4, <1>5
<1> QED BY <1>6 DEF d


CodexWay == GroupWay(Three, Shapes, {"exact"}, FALSE)

(* Which files, events and elements the host has.                          *)
LEMMA CodexFits ==
  /\ Fits("codex", CodexWay) /\ Alone("codex") /\ Events("codex") = Pair
  /\ CodexWay.grouped /\ CodexWay.hit = FALSE /\ CodexWay.forms = Three
  /\ CodexWay.shapes = Shapes /\ CodexWay.drop = {"exact"}
  /\ \A d : Contained("codex", "user", d)
<1>1. /\ Three \in SUBSET Forms /\ "exact" \in Three /\ Three \in SUBSET Forms /\ "exact" \in Three
      /\ Shapes \in SUBSET Shapes /\ "exact" \in Shapes
      /\ {"exact"} \in SUBSET Shapes /\ "exact" \in {"exact"} /\ FALSE \in BOOLEAN
  BY DEF Three, Forms, Shapes
<1>2. IsWay(CodexWay) /\ Kind(CodexWay) = Grouped BY <1>1, GroupIsWay, ZenonT(60) DEF CodexWay
<1>3. /\ CodexWay.grouped /\ CodexWay.hit = FALSE /\ CodexWay.forms = Three
      /\ CodexWay.shapes = Shapes /\ CodexWay.drop = {"exact"}
  BY <1>2 DEF CodexWay, GroupWay
<1>4. Elements("codex") = Grouped BY DEF Elements
<1>5. Events("codex") = Pair BY DEF Events, Pair
<1>6. Events("codex") \in SUBSET AllEvents /\ Events("codex") # {} BY <1>5 DEF Pair, AllEvents
<1>7. Alone("codex") BY DEF Alone, Names, Written
<1>8. \A d : Contained("codex", "user", d) BY DEF Contained, HasSettings
<1> QED BY <1>2, <1>3, <1>4, <1>5, <1>6, <1>7, <1>8 DEF Fits

(* What the plugin says of a set of documents, by its operators.           *)
LEMMA CodexFields ==
  \A ds : /\ PluginOf("codex", ds).parses <=> Codex!Parses(ds)
          /\ PluginOf("codex", ds).enabled = TRUE
          /\ PluginOf("codex", ds).contracts = Codex!Contracts(ds)
          /\ "whole" \in PluginOf("codex", ds).files
          /\ \A a \in Agents : /\ PluginOf("codex", ds).install[a] = Codex!Install(ds, a)
                               /\ PluginOf("codex", ds).uninstall[a] = Codex!Uninstall(ds, a)
<1>1. \A ds : PluginOf("codex", ds) = Codex!Plugin(ds) BY DEF PluginOf
<1> QED BY <1>1 DEF Codex!Plugin, Codex!RuntimeFiles

(* The plugin's removal and addition are those of its way.                 *)
LEMMA CodexLists ==
  ASSUME NEW H, IsHooks(H, CodexWay)
  PROVE  /\ \A ids : Purged(CodexRemoval(H, ids), H, Pair, ids, CodexWay)
         /\ \A a : GroupAddition(CodexRemoval(H, Agents), Pair, a) = Renewed(H, Pair, a, CodexWay)
<1> DEFINE w == CodexWay
<1>1. IsWay(w) /\ Kind(w) = Grouped /\ w.grouped /\ w.hit = FALSE /\ w.forms = Three
      /\ w.shapes = Shapes /\ w.drop = {"exact"}
  BY CodexFits DEF Fits, Elements
<1> HIDE DEF w
<1>2. Pair \in SUBSET AllEvents BY DEF Pair, AllEvents
<1>3. \A ids : Purged(GroupsRemoval(H, Pair, ids, w.forms, w.drop), H, Pair, ids, w)
  BY <1>1, <1>2, GroupsPurged DEF w
<1>4. \A ids : Purged(CodexRemoval(H, ids), H, Pair, ids, w) BY <1>1, <1>3 DEF CodexRemoval
<1>5. \A a : GroupAddition(CodexRemoval(H, Agents), Pair, a) = Renewed(H, Pair, a, w)
  BY <1>1, <1>2, <1>4, GroupRenewed DEF w
<1> QED BY <1>4, <1>5 DEF w

(* Its commands have the form of an installation and of a removal.         *)
LEMMA CodexPerforms == Performs("codex", CodexWay)
<1> SUFFICES ASSUME NEW ds, WellFormed("codex", ds), NEW a \in Agents, Codex!Parses(ds)
             PROVE  /\ InstallForm("codex", ds, Codex!Install(ds, a), a, CodexWay)
                    /\ UninstallForm("codex", ds, Codex!Uninstall(ds, a), a)
  BY CodexFields DEF Performs
<1> DEFINE old == ds["user"]
           H == OrNew(old).hooks
           r == CodexRoot(old)
<1>1. IsHooks(H, CodexWay) /\ OrNew(old).root \in SUBSET Fields
  BY CodexFits, OldFile DEF Alone
<1>2. r \in SUBSET Fields /\ OrNew(old).root \ Plain \subseteq r
  BY <1>1 DEF Fields, Plain, OrNew, NewDocument, Document, CodexRoot
<1> HIDE DEF H, old, r
<1>3. InstallForm("codex", ds, Codex!Install(ds, a), a, CodexWay)
  <2> DEFINE N == Renewed(H, Pair, a, CodexWay)
             d == Codex!Render(old, N)
  <2>1. Codex!Install(ds, a) = [user |-> Codex!Render(old, GroupAddition(CodexRemoval(H, Agents), Pair, a))]
    BY CodexOps DEF old, H
  <2>2. Codex!Install(ds, a) = [user |-> d] BY <1>1, <2>1, CodexLists
  <2>3. DOMAIN N # {} BY DEF Renewed, Pair
  <2>4. d = Document(r, N) BY <2>3, CodexRender DEF r
  <2>5. d.root = r BY <2>4 DEF Document
  <2>6. Rewrites("codex", "user", old, d, a, CodexWay)
    BY <1>1, <1>2, <2>4, <2>5, CodexFits DEF Rewrites, H
  <2> HIDE DEF d
  <2> QED BY <2>2, <2>6, CodexFits, OneInstall DEF old
<1>4. UninstallForm("codex", ds, Codex!Uninstall(ds, a), a)
  <2> DEFINE N == CodexRemoval(H, {a})
             d == Codex!Render(old, N)
  <2>1. Codex!Uninstall(ds, a) = [user |-> d] BY CodexOps DEF old, H
  <2>2. Purged(N, H, Events("codex"), {a}, CodexWay) BY <1>1, CodexLists, CodexFits
  <2>3. \/ d = Document(r, N) /\ Contained("codex", "user", d)
        \/ d = NoFile /\ DOMAIN N = {} /\ OrNew(old).root \subseteq Plain
    BY CodexRender, CodexFits DEF r, Plain
  <2> HIDE DEF d, N
  <2>4. FileLeft("codex", ds, "user", {a}, d, Events("codex"), User)
    BY <1>1, <1>2, <2>2, <2>3, CodexFits, FileRemoval DEF old, H, Fits, Alone
  <2> QED BY <2>1, <2>4, CodexFits, OneUninstall
<1> QED BY <1>3, <1>4

(* After an installation the host reports it, and another one changes      *)
(* nothing.                                                                *)
LEMMA CodexRepeats == Repeats("codex", CodexWay)
<1> SUFFICES ASSUME NEW ds, WellFormed("codex", ds), NEW a \in Agents, Codex!Parses(ds),
                    NEW z, z = Codex!Install(ds, a), WellFormed("codex", z),
                    Outcome("codex", ds, z, a, CodexWay)
             PROVE  Takes(PluginOf("codex", z), a) /\ Codex!Install(z, a) = z
  BY CodexFields DEF Repeats
<1> DEFINE old == ds["user"]
           H == OrNew(old).hooks
           r == CodexRoot(old)
           new == z["user"]
<1>1. IsHooks(H, CodexWay) BY CodexFits, OldFile DEF Alone
<1>2. After("codex", old, new, a, CodexWay)
  BY CodexFits, NewFile DEF Alone, Targets
<1>3. z = [user |-> new] /\ new.root = r
  <2>1. z = [user |-> Codex!Render(old, Renewed(H, Pair, a, CodexWay))]
    <3>1. z = [user |-> Codex!Render(old, GroupAddition(CodexRemoval(H, Agents), Pair, a))] BY CodexOps
    <3> QED BY <1>1, <3>1, CodexLists
  <2>2. DOMAIN Renewed(H, Pair, a, CodexWay) # {} BY DEF Renewed, Pair
  <2>3. Codex!Render(old, Renewed(H, Pair, a, CodexWay))
          = Document(r, Renewed(H, Pair, a, CodexWay))
    BY <2>2, CodexRender
  <2> QED BY <2>1, <2>3 DEF Document
<1>4. "malformed" \notin r
  BY DEF Codex!Parses, OrNew, NewDocument, Document, CodexRoot
<1> HIDE DEF H, old, new
<1>5. /\ new # NoFile /\ OrNew(new) = new /\ new = Document(new.root, new.hooks)
      /\ IsHooks(new.hooks, CodexWay) /\ DOMAIN new.hooks # {}
      /\ Renewed(new.hooks, Pair, a, CodexWay) = new.hooks
  BY <1>2, CodexFits DEF After
<1>6. Codex!Parses(z) BY <1>3, <1>4, <1>5 DEF Codex!Parses, new
<1>7. Codex!Contracts(z) = {a}
  <2>1. Codex!Contracts(z) = SomeFound(new.hooks, Pair, Three, {"exact"}) BY <1>5, CodexOps DEF new
  <2>2. OnlyGroups(new.hooks, Events("codex"), Three, {"exact"}, a)
    <3>1. Three \in SUBSET Three /\ "exact" \in Three
          /\ {"exact"} \in SUBSET Shapes /\ "exact" \in {"exact"}
      BY DEF Three, Shapes
    <3> QED BY <1>2, <3>1, CodexFits, GroupsTaken
  <2> QED BY <2>1, <2>2, CodexFits DEF OnlyGroups
<1>8. Codex!Install(z, a) = z
  <2>1. Codex!Install(z, a) = [user |-> Codex!Render(new, GroupAddition(CodexRemoval(new.hooks, Agents), Pair, a))]
    BY <1>5, CodexOps, ZenonT(40) DEF new
  <2>2. Codex!Install(z, a) = [user |-> Codex!Render(new, new.hooks)]
    BY <1>5, <2>1, CodexLists
  <2>3. Codex!Render(new, new.hooks) = new
    <3>1. CodexRoot(new) = new.root BY <1>3, <1>5 DEF r, CodexRoot
    <3>2. Codex!Render(new, new.hooks) = Document(CodexRoot(new), new.hooks)
      BY <1>5, CodexRender
    <3> QED BY <1>5, <3>1, <3>2
  <2> QED BY <1>3, <2>2, <2>3
<1> QED BY <1>6, <1>7, <1>8, CodexFields DEF Takes

(* Codex: every installation takes and is steady, every removal clean.  *)
LEMMA CodexSound == Sound("codex")
<1>1. Looks("codex", CodexWay) BY DEF Looks, Recognised, CodexWay, GroupWay, Three, Shapes
<1>2. Clears("codex") BY NothingElse
<1> QED BY <1>1, <1>2, CodexFits, CodexPerforms, CodexRepeats, HostSound

-----------------------------------------------------------------------------
(* Claude Code.                                                            *)
Early == {"exact", "legacy"}

ClaudeRemoval(H, ids) == MatchedRemoval(H, Triple, ids, Early, {"exact"})

(* The operators of the plugin, in the terms used here.                    *)
LEMMA ClaudeOps ==
  ASSUME NEW ds, NEW a
  PROVE  /\ ClaudeCode!Install(ds, a) =
              [user |-> ClaudeCode!Render(ds["user"],
                 GroupAddition(ClaudeRemoval(OrNew(ds["user"]).hooks, Agents), Triple, a))]
         /\ ClaudeCode!Uninstall(ds, a) =
              [user |-> ClaudeCode!Render(ds["user"],
                 ClaudeRemoval(OrNew(ds["user"]).hooks, {a}))]
         /\ ClaudeCode!Contracts(ds) = OneFound(OrNew(ds["user"]).hooks, Triple, {"exact"}, {"exact"})
<1>1. \A d : ClaudeCode!OrNew(d) = OrNew(d)
  BY DEF ClaudeCode!OrNew, OrNew, ClaudeCode!NewDocument, NewDocument, ClaudeCode!Document, Document
<1>2. \A H, ids : ClaudeCode!Remove(H, ids) = ClaudeRemoval(H, ids)
  <2>1. \A gs, e, ids : ClaudeCode!RemoveFromGroups(gs, e, ids)
                          = GroupRemoval(gs, e, ids, Early, {"exact"})
    <3> SUFFICES ASSUME NEW gs, NEW e, NEW ids
                 PROVE  ClaudeCode!RemoveFromGroups(gs, e, ids)
                          = GroupRemoval(gs, e, ids, Early, {"exact"})
      OBVIOUS
    <3>1. \A g : ClaudeCode!ExactGroup(g) <=> g.shape \in {"exact"}
      BY DEF ClaudeCode!ExactGroup
    <3>2. ClaudeCode!RemoveFromGroups(gs, e, ids) =
            LET rest == Emptied(gs, e, ids, Early)
            IN  Pick(rest, {i \in DOMAIN rest :
                              ~(rest[i].hooks = <<>> /\ ClaudeCode!ExactGroup(rest[i]))})
      BY DEF ClaudeCode!RemoveFromGroups, ClaudeCode!Strip, ClaudeCode!Without, ClaudeCode!Pick, Pick,
        ClaudeCode!Kept, Kept, ClaudeCode!ManagedOrLegacy, ClaudeCode!Refers, Refers,
        ClaudeCode!ScriptOf, ScriptOf, Emptied, Unmatched, Early
    <3> QED BY <3>1, <3>2 DEF GroupRemoval
  <2> SUFFICES ASSUME NEW H, NEW ids PROVE ClaudeCode!Remove(H, ids) = ClaudeRemoval(H, ids)
    OBVIOUS
  <2>2. {e \in ClaudeCode!Events \cap DOMAIN H :
           ClaudeCode!Some(H[e], LAMBDA g :
             ClaudeCode!Some(g.hooks, LAMBDA h : ClaudeCode!ManagedOrLegacy(h, e, ids)))}
          = Matched(H, Triple, ids, Early)
    BY DEF Matched, ClaudeCode!Some, ClaudeCode!ManagedOrLegacy, ClaudeCode!Refers, Refers,
      ClaudeCode!ScriptOf, ScriptOf, ClaudeCode!Events, Triple, Early
  <2> DEFINE hit == Matched(H, Triple, ids, Early)
  <2>3. ClaudeCode!Remove(H, ids) =
          ClaudeCode!PutOrDrop(H, [e \in hit |-> ClaudeCode!RemoveFromGroups(H[e], e, ids)])
    BY <2>2 DEF ClaudeCode!Remove
  <2> HIDE DEF hit
  <2>4. ClaudeCode!Remove(H, ids) =
          PutOrDrop(H, [e \in hit |-> GroupRemoval(H[e], e, ids, Early, {"exact"})])
    BY <2>1, <2>3 DEF ClaudeCode!PutOrDrop, PutOrDrop, ClaudeCode!Drop, Drop,
      ClaudeCode!Over, Over
  <2> QED BY <2>4 DEF ClaudeRemoval, MatchedRemoval, hit
<1>3. \A N : ClaudeCode!Append1(N, ClaudeCode!Events, LAMBDA e : ClaudeCode!Group(a, e))
               = GroupAddition(N, Triple, a)
  BY DEF ClaudeCode!Append1, GroupAddition, ClaudeCode!Over, Over, ClaudeCode!At, At,
    ClaudeCode!Group, Group, ClaudeCode!Handler, Handler, ClaudeCode!ScriptOf, ScriptOf,
    ClaudeCode!Events, Triple
<1> DEFINE H == OrNew(ds["user"]).hooks
<1>4. ClaudeCode!Contracts(ds) = OneFound(H, Triple, {"exact"}, {"exact"})
  <2>1. \A l, e, b : ClaudeCode!Matches(l, ClaudeCode!ExactGroup,
                                        LAMBDA h : ClaudeCode!Managed(h, e, {b}))
                       = Found(l, e, {b}, {"exact"}, {"exact"})
    <3>1. \A g : ClaudeCode!ExactGroup(g) <=> g.shape \in {"exact"}
      BY DEF ClaudeCode!ExactGroup
    <3> QED BY <3>1 DEF ClaudeCode!Matches, Found, Matches, ClaudeCode!Managed, ClaudeCode!Refers,
          Refers, ClaudeCode!ScriptOf, ScriptOf
  <2>2. \A e, b : ClaudeCode!References(H, e, b) = Found(At(H, e), e, {b}, {"exact"}, {"exact"})
    BY <2>1 DEF ClaudeCode!References, ClaudeCode!At, At
  <2>3. ClaudeCode!Contracts(ds) =
          {b \in Agents : \A e \in Triple : One(ClaudeCode!References(H, e, b))}
    BY <1>1 DEF ClaudeCode!Contracts, ClaudeCode!Events, Triple, ClaudeCode!One, One
  <2> HIDE DEF H
  <2> QED BY <2>2, <2>3 DEF OneFound
<1>5. ClaudeCode!Install(ds, a) =
        [user |-> ClaudeCode!Render(ds["user"],
           ClaudeCode!Append1(ClaudeCode!Remove(ClaudeCode!OrNew(ds["user"]).hooks, Agents),
                              ClaudeCode!Events, LAMBDA e : ClaudeCode!Group(a, e)))]
  BY DEF ClaudeCode!Install
<1>6. ClaudeCode!Uninstall(ds, a) =
        [user |-> ClaudeCode!Render(ds["user"],
                                    ClaudeCode!Remove(ClaudeCode!OrNew(ds["user"]).hooks, {a}))]
  BY DEF ClaudeCode!Uninstall
<1>7. ClaudeCode!Install(ds, a) = [user |-> ClaudeCode!Render(ds["user"],
         GroupAddition(ClaudeRemoval(H, Agents), Triple, a))]
  BY <1>1, <1>2, <1>3, <1>5
<1> QED BY <1>1, <1>2, <1>4, <1>6, <1>7

(* What a document is rendered to.                                         *)
LEMMA ClaudeRender ==
  ASSUME NEW doc, NEW N
  PROVE  LET d == Document(OrNew(doc).root, N)
         IN  /\ DOMAIN N # {} => ClaudeCode!Render(doc, N) = d
             /\ \/ ClaudeCode!Render(doc, N) = d
                \/ /\ ClaudeCode!Render(doc, N) = NoFile /\ DOMAIN N = {}
                   /\ OrNew(doc).root = {}
<1> DEFINE d == Document(OrNew(doc).root, N)
<1>1. ClaudeCode!Render(doc, N) =
        IF DOMAIN N = {} /\ (doc = NoFile \/ ClaudeCode!EntirelyManaged(doc)) THEN NoFile ELSE d
  BY DEF ClaudeCode!Render, ClaudeCode!OrNew, OrNew, ClaudeCode!NewDocument, NewDocument,
    ClaudeCode!Document, Document
<1>2. ClaudeCode!EntirelyManaged(doc) => doc.root = {} BY DEF ClaudeCode!EntirelyManaged
<1>3. doc = NoFile => OrNew(doc).root = {} BY DEF OrNew, NewDocument, Document
<1>4. doc # NoFile => OrNew(doc) = doc BY DEF OrNew
<1> HIDE DEF d
<1>5. /\ DOMAIN N # {} => ClaudeCode!Render(doc, N) = d
      /\ \/ ClaudeCode!Render(doc, N) = d
         \/ /\ ClaudeCode!Render(doc, N) = NoFile /\ DOMAIN N = {}
            /\ OrNew(doc).root = {}
  BY <1>1, <1>2, <1>3, <1>4
<1> QED BY <1>5 DEF d

\* Its exact groups hold something.
Filled(H) ==
  \A e \in DOMAIN H : \A i \in DOMAIN H[e] : H[e][i].shape = "exact" => H[e][i].hooks # <<>>

(* No group is emptied and stays.                                          *)
LEMMA CleanFilled ==
  ASSUME NEW w, IsWay(w), w.grouped, w.hit = FALSE, NEW e, NEW ids, NEW l \in Seq(Grouped),
         NEW i \in DOMAIN Clean(l, e, ids, w), Clean(l, e, ids, w)[i].shape = "exact"
  PROVE  Clean(l, e, ids, w)[i].hooks # <<>>
<1>1. l \in Seq(Kind(w)) BY DEF Kind
<1>2. PICK j \in DOMAIN l : /\ l[j] \in Stays(e, ids, w)
                            /\ Clean(l, e, ids, w)[i] = Leave(e, ids, w)[l[j]]
  BY <1>1, CleanType
<1>3. l[j] \in Grouped OBVIOUS
<1>4. Leave(e, ids, w)[l[j]].shape = l[j].shape BY <1>3, LeaveGroup
<1>5. "exact" \in w.drop BY DEF IsWay
<1>6. ~(Leave(e, ids, w)[l[j]].hooks = <<>> /\ l[j].shape \in w.drop
        /\ (w.hit => l[j].hooks # <<>>))
  BY <1>2 DEF Stays
<1> QED BY <1>2, <1>4, <1>5, <1>6

(* No exact group is emptied without being removed.                        *)
LEMMA PurgedFilled ==
  ASSUME NEW w, IsWay(w), w.grouped, w.hit = FALSE, NEW H, IsHooks(H, w), Filled(H),
         NEW es, NEW ids, NEW N, Purged(N, H, es, ids, w)
  PROVE  Filled(N)
<1> SUFFICES ASSUME NEW e \in DOMAIN N, NEW i \in DOMAIN N[e], N[e][i].shape = "exact"
             PROVE  N[e][i].hooks # <<>>
  BY DEF Filled
<1>1. e \in AllEvents /\ e \in DOMAIN H /\ N[e] = At(N, e) /\ H[e] = At(H, e)
  BY DEF Purged, IsHooks, At
<1>2. CASE e \in es
  <2>1. N[e] = Clean(At(H, e), e, ids, w) BY <1>1, <1>2 DEF Purged
  <2>2. At(H, e) \in Seq(Grouped) BY AtType DEF Kind
  <2> QED BY <2>1, <2>2, CleanFilled
<1>3. CASE e \notin es
  <2>1. N[e] = H[e] BY <1>1, <1>3 DEF Purged
  <2> QED BY <1>1, <2>1 DEF Filled
<1> QED BY <1>2, <1>3

(* Nor is one by an installation.                                          *)
LEMMA RenewedFilled ==
  ASSUME NEW w, IsWay(w), w.grouped, w.hit = FALSE, NEW H, IsHooks(H, w), Filled(H),
         NEW es, NEW a \in Agents
  PROVE  Filled(Renewed(H, es, a, w))
<1> DEFINE N == Renewed(H, es, a, w)
<1> SUFFICES ASSUME NEW e \in DOMAIN N, NEW i \in DOMAIN N[e], N[e][i].shape = "exact"
             PROVE  N[e][i].hooks # <<>>
  BY DEF Filled
<1>1. e \in es \cup DOMAIN H /\ N[e] = IF e \in es THEN Fresh(H, e, a, w) ELSE H[e]
  BY DEF Renewed
<1> HIDE DEF N
<1>2. CASE e \in es
  <2> DEFINE C == Clean(At(H, e), e, Agents, w)
             x == Item(a, e, w)
  <2>1. N[e] = Append(C, x) BY <1>1, <1>2 DEF Fresh
  <2>2. At(H, e) \in Seq(Grouped) /\ Kind(w) = Grouped BY AtType DEF Kind
  <2>3. C \in Seq(Grouped) BY <2>2, CleanType
  <2>4. x \in Grouped /\ x.hooks # <<>>
    <3>1. x \in Grouped BY <2>2, ItemFacts
    <3>2. x = [shape |-> "exact", hooks |-> <<Handler(a, e)>>] BY DEF Item, Group
    <3> QED BY <3>1, <3>2
  <2>5. \A k \in DOMAIN C : C[k].shape = "exact" => C[k].hooks # <<>> BY <2>2, CleanFilled
  <2> HIDE DEF C, x
  <2> QED BY <2>1, <2>3, <2>4, <2>5
<1>3. CASE e \notin es BY <1>1, <1>3 DEF Filled
<1> QED BY <1>2, <1>3

ClaudeWay == GroupWay(Early, Shapes, {"exact"}, FALSE)

(* Which files, events and elements the host has.                          *)
LEMMA ClaudeFits ==
  /\ Fits("claudecode", ClaudeWay) /\ Alone("claudecode") /\ Events("claudecode") = Triple
  /\ ClaudeWay.grouped /\ ClaudeWay.hit = FALSE /\ ClaudeWay.forms = Early
  /\ ClaudeWay.shapes = Shapes /\ ClaudeWay.drop = {"exact"}
  /\ \A d : Contained("claudecode", "user", d) <=> Filled(d.hooks)
<1>1. /\ Three \in SUBSET Forms /\ "exact" \in Three /\ Early \in SUBSET Forms /\ "exact" \in Early
      /\ Shapes \in SUBSET Shapes /\ "exact" \in Shapes
      /\ {"exact"} \in SUBSET Shapes /\ "exact" \in {"exact"} /\ FALSE \in BOOLEAN
  BY DEF Three, Early, Forms, Shapes
<1>2. IsWay(ClaudeWay) /\ Kind(ClaudeWay) = Grouped BY <1>1, GroupIsWay, ZenonT(60) DEF ClaudeWay
<1>3. /\ ClaudeWay.grouped /\ ClaudeWay.hit = FALSE /\ ClaudeWay.forms = Early
      /\ ClaudeWay.shapes = Shapes /\ ClaudeWay.drop = {"exact"}
  BY <1>2 DEF ClaudeWay, GroupWay
<1>4. Elements("claudecode") = Grouped BY DEF Elements
<1>5. Events("claudecode") = Triple BY DEF Events, Triple
<1>6. Events("claudecode") \in SUBSET AllEvents /\ Events("claudecode") # {} BY <1>5 DEF Triple, AllEvents
<1>7. Alone("claudecode") BY DEF Alone, Names, Written
<1>8. \A d : Contained("claudecode", "user", d) <=> Filled(d.hooks)
  BY DEF Contained, HasSettings, Every, Filled
<1> QED BY <1>2, <1>3, <1>4, <1>5, <1>6, <1>7, <1>8 DEF Fits

(* What the plugin says of a set of documents, by its operators.           *)
LEMMA ClaudeFields ==
  \A ds : /\ PluginOf("claudecode", ds).parses <=> ClaudeCode!Parses(ds)
          /\ PluginOf("claudecode", ds).refused <=> ClaudeCode!Disabled(ds)
          /\ PluginOf("claudecode", ds).enabled <=> ~ClaudeCode!Disabled(ds)
          /\ PluginOf("claudecode", ds).contracts = ClaudeCode!Contracts(ds)
          /\ "whole" \in PluginOf("claudecode", ds).files
          /\ \A a \in Agents : /\ PluginOf("claudecode", ds).install[a] = ClaudeCode!Install(ds, a)
                               /\ PluginOf("claudecode", ds).uninstall[a] = ClaudeCode!Uninstall(ds, a)
<1>1. \A ds : PluginOf("claudecode", ds) = ClaudeCode!Plugin(ds) BY DEF PluginOf
<1>2. \A ds : /\ PluginOf("claudecode", ds).parses <=> ClaudeCode!Parses(ds)
             /\ PluginOf("claudecode", ds).contracts = ClaudeCode!Contracts(ds)
             /\ "whole" \in PluginOf("claudecode", ds).files
  BY <1>1 DEF ClaudeCode!Plugin, ClaudeCode!RuntimeFiles
<1>3. \A ds : \A a \in Agents : /\ PluginOf("claudecode", ds).install[a] = ClaudeCode!Install(ds, a)
                               /\ PluginOf("claudecode", ds).uninstall[a] = ClaudeCode!Uninstall(ds, a)
  BY <1>1 DEF ClaudeCode!Plugin
<1>4. \A ds : PluginOf("claudecode", ds).refused <=> ClaudeCode!Disabled(ds) BY <1>1 DEF ClaudeCode!Plugin
<1>5. \A ds : PluginOf("claudecode", ds).enabled <=> ~ClaudeCode!Disabled(ds)
  <2> TAKE ds
  <2> DEFINE on == ~ClaudeCode!Disabled(ds)
  <2>1. ClaudeCode!Plugin(ds).enabled = on /\ on \in BOOLEAN BY DEF ClaudeCode!Plugin
  <2> HIDE DEF on
  <2>2. PluginOf("claudecode", ds).enabled <=> on BY <1>1, <2>1
  <2> QED BY <2>2 DEF on
<1> QED BY <1>2, <1>3, <1>4, <1>5

(* The plugin's removal and addition are those of its way.                 *)
LEMMA ClaudeLists ==
  ASSUME NEW H, IsHooks(H, ClaudeWay), Filled(H)
  PROVE  /\ \A ids : Purged(ClaudeRemoval(H, ids), H, Triple, ids, ClaudeWay)
         /\ \A a : GroupAddition(ClaudeRemoval(H, Agents), Triple, a) = Renewed(H, Triple, a, ClaudeWay)
<1> DEFINE w == ClaudeWay
<1>1. IsWay(w) /\ Kind(w) = Grouped /\ w.grouped /\ w.hit = FALSE /\ w.forms = Early
      /\ w.shapes = Shapes /\ w.drop = {"exact"}
  BY ClaudeFits DEF Fits, Elements
<1> HIDE DEF w
<1>2. /\ Triple \in SUBSET AllEvents
      /\ \A e \in DOMAIN H : \A i \in DOMAIN H[e] : H[e][i].shape \in w.drop => H[e][i].hooks # <<>>
  BY <1>1 DEF Triple, AllEvents, Filled
<1>3. \A ids : Purged(MatchedRemoval(H, Triple, ids, w.forms, w.drop), H, Triple, ids, w)
  BY <1>1, <1>2, MatchedPurged DEF w
<1>4. \A ids : Purged(ClaudeRemoval(H, ids), H, Triple, ids, w) BY <1>1, <1>3 DEF ClaudeRemoval
<1>5. \A a : GroupAddition(ClaudeRemoval(H, Agents), Triple, a) = Renewed(H, Triple, a, w)
  BY <1>1, <1>2, <1>4, GroupRenewed DEF w
<1> QED BY <1>4, <1>5 DEF w

(* Its commands have the form of an installation and of a removal.         *)
LEMMA ClaudePerforms == Performs("claudecode", ClaudeWay)
<1> SUFFICES ASSUME NEW ds, WellFormed("claudecode", ds), NEW a \in Agents, ClaudeCode!Parses(ds)
             PROVE  /\ InstallForm("claudecode", ds, ClaudeCode!Install(ds, a), a, ClaudeWay)
                    /\ UninstallForm("claudecode", ds, ClaudeCode!Uninstall(ds, a), a)
  BY ClaudeFields DEF Performs
<1> DEFINE old == ds["user"]
           H == OrNew(old).hooks
           r == OrNew(old).root
<1>1. IsHooks(H, ClaudeWay) /\ OrNew(old).root \in SUBSET Fields
  BY ClaudeFits, OldFile DEF Alone
<1>2. r \in SUBSET Fields /\ OrNew(old).root \ Plain \subseteq r
  BY <1>1 DEF Fields, Plain, OrNew, NewDocument, Document
<1>a. Filled(H)
  <2>1. old # NoFile => Filled(old.hooks) BY ClaudeFits DEF WellFormed, Alone
  <2> QED BY <2>1 DEF Filled, OrNew, NewDocument, Document
<1> HIDE DEF H, old, r
<1>3. InstallForm("claudecode", ds, ClaudeCode!Install(ds, a), a, ClaudeWay)
  <2> DEFINE N == Renewed(H, Triple, a, ClaudeWay)
             d == ClaudeCode!Render(old, N)
  <2>1. ClaudeCode!Install(ds, a) = [user |-> ClaudeCode!Render(old, GroupAddition(ClaudeRemoval(H, Agents), Triple, a))]
    BY ClaudeOps DEF old, H
  <2>2. ClaudeCode!Install(ds, a) = [user |-> d] BY <1>1, <2>1, ClaudeLists, <1>a
  <2>3. DOMAIN N # {} BY DEF Renewed, Triple
  <2>4. d = Document(r, N) BY <2>3, ClaudeRender DEF r
  <2>5. d.root = r BY <2>4 DEF Document
  <2>c. Contained("claudecode", "user", d)
    <3>1. Filled(N) BY <1>1, <1>a, RenewedFilled, ClaudeFits DEF Fits
    <3> QED BY <2>4, <3>1, ClaudeFits DEF Document
  <2>6. Rewrites("claudecode", "user", old, d, a, ClaudeWay)
    BY <1>1, <1>2, <2>4, <2>5, ClaudeFits, <2>c DEF Rewrites, H
  <2> HIDE DEF d
  <2> QED BY <2>2, <2>6, ClaudeFits, OneInstall DEF old
<1>4. UninstallForm("claudecode", ds, ClaudeCode!Uninstall(ds, a), a)
  <2> DEFINE N == ClaudeRemoval(H, {a})
             d == ClaudeCode!Render(old, N)
  <2>1. ClaudeCode!Uninstall(ds, a) = [user |-> d] BY ClaudeOps DEF old, H
  <2>2. Purged(N, H, Events("claudecode"), {a}, ClaudeWay) BY <1>1, ClaudeLists, <1>a, ClaudeFits
  <2>c. Filled(N) BY <1>1, <1>a, <2>2, PurgedFilled, ClaudeFits DEF Fits
  <2>3. \/ d = Document(r, N) /\ Contained("claudecode", "user", d)
        \/ d = NoFile /\ DOMAIN N = {} /\ OrNew(old).root \subseteq Plain
    <3>1. Contained("claudecode", "user", Document(r, N)) BY <2>c, ClaudeFits DEF Document
    <3> QED BY <3>1, ClaudeRender DEF r, Plain
  <2> HIDE DEF d, N
  <2>4. FileLeft("claudecode", ds, "user", {a}, d, Events("claudecode"), User)
    BY <1>1, <1>2, <2>2, <2>3, ClaudeFits, FileRemoval DEF old, H, Fits, Alone
  <2> QED BY <2>1, <2>4, ClaudeFits, OneUninstall
<1> QED BY <1>3, <1>4

(* After an installation the host reports it, and another one changes      *)
(* nothing.                                                                *)
LEMMA ClaudeRepeats == Repeats("claudecode", ClaudeWay)
<1> SUFFICES ASSUME NEW ds, WellFormed("claudecode", ds), NEW a \in Agents, ClaudeCode!Parses(ds),
                    NEW z, z = ClaudeCode!Install(ds, a), WellFormed("claudecode", z),
                    Outcome("claudecode", ds, z, a, ClaudeWay)
             PROVE  (~ClaudeCode!Disabled(ds) => Takes(PluginOf("claudecode", z), a)) /\ ClaudeCode!Install(z, a) = z
  BY ClaudeFields DEF Repeats
<1> DEFINE old == ds["user"]
           H == OrNew(old).hooks
           r == OrNew(old).root
           new == z["user"]
<1>1. IsHooks(H, ClaudeWay) BY ClaudeFits, OldFile DEF Alone
<1>2. After("claudecode", old, new, a, ClaudeWay)
  BY ClaudeFits, NewFile DEF Alone, Targets
<1>a. Filled(H) /\ Filled(new.hooks)
  <2>1. old # NoFile => Filled(old.hooks) BY ClaudeFits DEF WellFormed, Alone
  <2>2. new # NoFile => Filled(new.hooks) BY ClaudeFits DEF WellFormed, Alone
  <2>3. new # NoFile BY <1>2 DEF After
  <2> QED BY <2>1, <2>2, <2>3 DEF Filled, OrNew, NewDocument, Document
<1>3. z = [user |-> new] /\ new.root = r
  <2>1. z = [user |-> ClaudeCode!Render(old, Renewed(H, Triple, a, ClaudeWay))]
    <3>1. z = [user |-> ClaudeCode!Render(old, GroupAddition(ClaudeRemoval(H, Agents), Triple, a))] BY ClaudeOps
    <3> QED BY <1>1, <3>1, ClaudeLists, <1>a
  <2>2. DOMAIN Renewed(H, Triple, a, ClaudeWay) # {} BY DEF Renewed, Triple
  <2>3. ClaudeCode!Render(old, Renewed(H, Triple, a, ClaudeWay))
          = Document(r, Renewed(H, Triple, a, ClaudeWay))
    BY <2>2, ClaudeRender
  <2> QED BY <2>1, <2>3 DEF Document
<1>4. "malformed" \notin r
  BY DEF ClaudeCode!Parses, ClaudeCode!ValidHandlers, OrNew, NewDocument, Document
<1> HIDE DEF H, old, new
<1>5. /\ new # NoFile /\ OrNew(new) = new /\ new = Document(new.root, new.hooks)
      /\ IsHooks(new.hooks, ClaudeWay) /\ DOMAIN new.hooks # {}
      /\ Renewed(new.hooks, Triple, a, ClaudeWay) = new.hooks
  BY <1>2, ClaudeFits DEF After
<1>6. ClaudeCode!Parses(z) BY <1>3, <1>4, <1>5 DEF ClaudeCode!Parses, ClaudeCode!ValidHandlers, new
<1>7. ClaudeCode!Contracts(z) = {a}
  <2>1. ClaudeCode!Contracts(z) = OneFound(new.hooks, Triple, {"exact"}, {"exact"}) BY <1>5, ClaudeOps DEF new
  <2>2. OnlyGroups(new.hooks, Events("claudecode"), {"exact"}, {"exact"}, a)
    <3>1. {"exact"} \in SUBSET Early /\ "exact" \in {"exact"}
          /\ {"exact"} \in SUBSET Shapes /\ "exact" \in {"exact"}
      BY DEF Early, Shapes
    <3> QED BY <1>2, <3>1, ClaudeFits, GroupsTaken
  <2> QED BY <2>1, <2>2, ClaudeFits DEF OnlyGroups
<1>8. ClaudeCode!Install(z, a) = z
  <2>1. ClaudeCode!Install(z, a) = [user |-> ClaudeCode!Render(new, GroupAddition(ClaudeRemoval(new.hooks, Agents), Triple, a))]
    BY <1>5, ClaudeOps, ZenonT(40) DEF new
  <2>2. ClaudeCode!Install(z, a) = [user |-> ClaudeCode!Render(new, new.hooks)]
    BY <1>5, <2>1, ClaudeLists, <1>a
  <2>3. ClaudeCode!Render(new, new.hooks) = new
    <3>1. OrNew(new).root = new.root BY <1>3, <1>5 DEF r
    <3>2. ClaudeCode!Render(new, new.hooks) = Document(OrNew(new).root, new.hooks)
      BY <1>5, ClaudeRender
    <3> QED BY <1>5, <3>1, <3>2
  <2> QED BY <1>3, <2>2, <2>3
<1>9. ClaudeCode!Disabled(z) <=> ClaudeCode!Disabled(ds)
  BY <1>3, <1>5 DEF ClaudeCode!Disabled, r, new, old, ClaudeCode!OrNew, OrNew, ClaudeCode!NewDocument, NewDocument,
    ClaudeCode!Document, Document
<1> QED BY <1>6, <1>7, <1>8, ClaudeFields, <1>9 DEF Takes

(* Claude Code: every installation takes and is steady, every removal clean.  *)
LEMMA ClaudeSound == Sound("claudecode")
<1>1. Looks("claudecode", ClaudeWay) BY DEF Looks, Recognised, ClaudeWay, GroupWay, Early, Shapes
<1>2. Clears("claudecode") BY NothingElse
<1> QED BY <1>1, <1>2, ClaudeFits, ClaudePerforms, ClaudeRepeats, HostSound

-----------------------------------------------------------------------------
(* Augment.                                                                *)
Newer == {"exact", "moved"}

AugmentRemoval(H, ids) == HitsRemoval(H, Pair, ids, Newer, Shapes)

(* A group is exact, matches all, or is the user's.                        *)
LEMMA GroupShapes ==
  ASSUME NEW gs \in Seq(Grouped)
  PROVE  \A i \in DOMAIN gs : gs[i].shape \in Shapes
<1> TAKE i \in DOMAIN gs
<1>1. gs[i] \in Grouped OBVIOUS
<1> QED BY <1>1 DEF Grouped, Shapes

(* Augment's removal from a list of groups.                                *)
LEMMA AugmentGroups ==
  ASSUME NEW gs \in Seq(Grouped), NEW e, NEW ids
  PROVE  Augment!RemoveManaged(gs, e, ids) = HitRemoval(gs, e, ids, Newer, Shapes)
<1> DEFINE rest == Emptied(gs, e, ids, Newer)
           K == {i \in DOMAIN gs : ~(rest[i].hooks = <<>> /\ gs[i].hooks # <<>>)}
           L == {i \in DOMAIN gs : ~(/\ rest[i].hooks = <<>> /\ gs[i].hooks # <<>>
                                     /\ gs[i].shape \in Shapes)}
<1>1. Augment!RemoveManaged(gs, e, ids) = Pick(rest, K)
  BY DEF Augment!RemoveManaged, Augment!StripHit, Augment!Without, Augment!Pick, Pick,
    Augment!Kept, Kept, Augment!Managed, Augment!Refers, Refers, Augment!ScriptOf, ScriptOf,
    Emptied, Unmatched, Newer
<1>2. HitRemoval(gs, e, ids, Newer, Shapes) = Pick(rest, L) BY DEF HitRemoval
<1>3. K = L
  <2> HIDE DEF rest
  <2> QED BY GroupShapes
<1> HIDE DEF K, L, rest
<1> QED BY <1>1, <1>2, <1>3

(* Without an event to look at nothing changes.                            *)
LEMMA NoneDropped ==
  ASSUME NEW H, H = [e \in DOMAIN H |-> H[e]], NEW lists, DOMAIN lists = {}
  PROVE  PutOrDrop(H, lists) = H
<1>1. Over(lists, H) = [e \in DOMAIN H |-> H[e]] BY DEF Over
<1>2. {e \in DOMAIN lists : lists[e] = <<>>} = {} OBVIOUS
<1>3. Drop(H, {}) = [e \in DOMAIN H |-> H[e]] BY DEF Drop
<1> QED BY <1>1, <1>2, <1>3 DEF PutOrDrop

(* Augment's removal at all events.                                        *)
LEMMA AugmentRemove ==
  ASSUME NEW H, \A e : At(H, e) \in Seq(Grouped), NEW ids
  PROVE  /\ Augment!Hit(H, ids) = Hits(H, Pair, ids, Newer, Shapes)
         /\ Augment!Remove(H, ids) = AugmentRemoval(H, ids)
<1>1. \A e \in DOMAIN H : Augment!RemoveManaged(H[e], e, ids) = HitRemoval(H[e], e, ids, Newer, Shapes)
  <2> TAKE e \in DOMAIN H
  <2>1. H[e] \in Seq(Grouped) BY DEF At
  <2> QED BY <2>1, AugmentGroups
<1>2. Augment!Hit(H, ids) = Hits(H, Pair, ids, Newer, Shapes)
  BY <1>1 DEF Augment!Hit, Hits, Augment!Events, Pair
<1> DEFINE hit == Hits(H, Pair, ids, Newer, Shapes)
<1>3. Augment!Remove(H, ids) = Augment!PutOrDrop(H, [e \in hit |-> Augment!RemoveManaged(H[e], e, ids)])
  BY <1>2 DEF Augment!Remove
<1>4. hit \subseteq DOMAIN H BY DEF Hits
<1> HIDE DEF hit
<1>5. [e \in hit |-> Augment!RemoveManaged(H[e], e, ids)]
        = [e \in hit |-> HitRemoval(H[e], e, ids, Newer, Shapes)]
  BY <1>1, <1>4
<1>6. \A lists : Augment!PutOrDrop(H, lists) = PutOrDrop(H, lists)
  BY DEF Augment!PutOrDrop, PutOrDrop, Augment!Drop, Drop, Augment!Over, Over
<1> QED BY <1>2, <1>3, <1>5, <1>6 DEF AugmentRemoval, HitsRemoval, hit

(* The operators of the plugin, in the terms used here.                    *)
LEMMA AugmentOps ==
  ASSUME NEW ds, NEW a, \A e : At(OrNew(ds["user"]).hooks, e) \in Seq(Grouped)
  PROVE  /\ Augment!Install(ds, a) =
              [user |-> Augment!Render(ds["user"],
                 GroupAddition(AugmentRemoval(OrNew(ds["user"]).hooks, Agents), Pair, a))]
         /\ Augment!Uninstall(ds, a) =
              IF ds["user"] = NoFile \/ Hits(OrNew(ds["user"]).hooks, Pair, {a}, Newer, Shapes) = {}
              THEN ds
              ELSE [user |-> Augment!Render(ds["user"], AugmentRemoval(OrNew(ds["user"]).hooks, {a}))]
         /\ Augment!Contracts(ds) = SomeFound(OrNew(ds["user"]).hooks, Pair, Newer, Shapes)
<1>1. \A d : Augment!OrNew(d) = OrNew(d)
  BY DEF Augment!OrNew, OrNew, Augment!NewDocument, NewDocument, Augment!Document, Document
<1> DEFINE H == OrNew(ds["user"]).hooks
<1>2. \A ids : /\ Augment!Remove(H, ids) = AugmentRemoval(H, ids)
               /\ Augment!Hit(H, ids) = Hits(H, Pair, ids, Newer, Shapes)
  BY AugmentRemove
<1>3. \A N : Augment!Append1(N, Augment!Events, LAMBDA e : Augment!Group(a, e))
               = GroupAddition(N, Pair, a)
  BY DEF Augment!Append1, GroupAddition, Augment!Over, Over, Augment!At, At,
    Augment!Group, Group, Augment!Handler, Handler, Augment!ScriptOf, ScriptOf,
    Augment!Events, Pair
<1>4. Augment!Contracts(ds) = SomeFound(H, Pair, Newer, Shapes)
  <2>1. ASSUME NEW l \in Seq(Grouped), NEW e, NEW b
        PROVE  Augment!Matches(l, LAMBDA g : TRUE, LAMBDA h : Augment!Managed(h, e, {b}))
                 = Found(l, e, {b}, Newer, Shapes)
    <3> DEFINE hits(i) == {<<i, j>> : j \in {k \in DOMAIN l[i].hooks : Refers(l[i].hooks[k], e, {b}, Newer)}}
    <3>1. Augment!Matches(l, LAMBDA g : TRUE, LAMBDA h : Augment!Managed(h, e, {b}))
            = UNION {hits(i) : i \in DOMAIN l}
      BY DEF Augment!Matches, Augment!Managed, Augment!Refers, Refers, Augment!ScriptOf, ScriptOf, Newer
    <3>2. Found(l, e, {b}, Newer, Shapes) = UNION {hits(i) : i \in {k \in DOMAIN l : l[k].shape \in Shapes}}
      BY DEF Found, Matches
    <3>3. {k \in DOMAIN l : l[k].shape \in Shapes} = DOMAIN l BY GroupShapes
    <3> HIDE DEF hits
    <3> QED BY <3>1, <3>2, <3>3
  <2>2. \A e : Augment!ManagedIds(Augment!At(H, e), e)
                 = {b \in Agents : Found(At(H, e), e, {b}, Newer, Shapes) # {}}
    <3> TAKE e
    <3>1. Augment!At(H, e) = At(H, e) BY DEF Augment!At, At
    <3>2. \A b : Augment!Matches(At(H, e), LAMBDA g : TRUE, LAMBDA h : Augment!Managed(h, e, {b}))
                   = Found(At(H, e), e, {b}, Newer, Shapes)
      BY <2>1
    <3> HIDE DEF H
    <3> QED BY <3>1, <3>2 DEF Augment!ManagedIds
  <2>3. Augment!Contracts(ds) = Augment!ManagedIds(Augment!At(H, "pre"), "pre")
                                  \cap Augment!ManagedIds(Augment!At(H, "post"), "post")
    BY <1>1 DEF Augment!Contracts
  <2> HIDE DEF H
  <2> QED BY <2>2, <2>3 DEF SomeFound, Pair
<1>5. Augment!Install(ds, a) =
        [user |-> Augment!Render(ds["user"],
           Augment!Append1(Augment!Remove(Augment!OrNew(ds["user"]).hooks, Agents),
                              Augment!Events, LAMBDA e : Augment!Group(a, e)))]
  BY DEF Augment!Install
<1>6. Augment!Uninstall(ds, a) =
        IF ds["user"] = NoFile \/ Augment!Hit(Augment!OrNew(ds["user"]).hooks, {a}) = {} THEN ds
        ELSE [user |-> Augment!Render(ds["user"], Augment!Remove(Augment!OrNew(ds["user"]).hooks, {a}))]
  BY DEF Augment!Uninstall, Augment!OrNew
<1>7. Augment!Install(ds, a) = [user |-> Augment!Render(ds["user"],
         GroupAddition(AugmentRemoval(H, Agents), Pair, a))]
  BY <1>1, <1>2, <1>3, <1>5
<1>8. Augment!Uninstall(ds, a) =
        IF ds["user"] = NoFile \/ Hits(H, Pair, {a}, Newer, Shapes) = {} THEN ds
        ELSE [user |-> Augment!Render(ds["user"], AugmentRemoval(H, {a}))]
  <2>1. Augment!OrNew(ds["user"]).hooks = H BY <1>1
  <2>2. Augment!Remove(H, {a}) = AugmentRemoval(H, {a}) BY <1>2
  <2>3. Augment!Hit(H, {a}) = Hits(H, Pair, {a}, Newer, Shapes) BY <1>2
  <2> HIDE DEF H
  <2> QED BY <2>1, <2>2, <2>3, <1>6
<1> QED BY <1>4, <1>7, <1>8

(* What a document is rendered to.                                         *)
LEMMA AugmentRender ==
  ASSUME NEW doc, NEW N
  PROVE  LET d == Document(OrNew(doc).root, N)
         IN  /\ DOMAIN N # {} => Augment!Render(doc, N) = d
             /\ \/ Augment!Render(doc, N) = d
                \/ /\ Augment!Render(doc, N) = NoFile /\ DOMAIN N = {}
                   /\ OrNew(doc).root = {}
<1> DEFINE d == Document(OrNew(doc).root, N)
<1>1. Augment!Render(doc, N) = IF OrNew(doc).root = {} /\ DOMAIN N = {} THEN NoFile ELSE d
  BY DEF Augment!Render, Augment!OrNew, OrNew, Augment!NewDocument, NewDocument,
    Augment!Document, Document
<1> HIDE DEF d
<1>2. /\ DOMAIN N # {} => Augment!Render(doc, N) = d
      /\ \/ Augment!Render(doc, N) = d
         \/ /\ Augment!Render(doc, N) = NoFile /\ DOMAIN N = {}
            /\ OrNew(doc).root = {}
  BY <1>1
<1> QED BY <1>2 DEF d

AugmentWay == GroupWay(Newer, Shapes, Shapes, TRUE)

(* Which files, events and elements the host has.                          *)
LEMMA AugmentFits ==
  /\ Fits("augment", AugmentWay) /\ Alone("augment") /\ Events("augment") = Pair
  /\ AugmentWay.grouped /\ AugmentWay.hit = TRUE /\ AugmentWay.forms = Newer
  /\ AugmentWay.shapes = Shapes /\ AugmentWay.drop = Shapes
  /\ \A d : Contained("augment", "user", d)
<1>1. /\ Three \in SUBSET Forms /\ "exact" \in Three /\ Newer \in SUBSET Forms /\ "exact" \in Newer
      /\ Shapes \in SUBSET Shapes /\ "exact" \in Shapes
      /\ Shapes \in SUBSET Shapes /\ "exact" \in Shapes /\ TRUE \in BOOLEAN
  BY DEF Three, Newer, Forms, Shapes
<1>2. IsWay(AugmentWay) /\ Kind(AugmentWay) = Grouped BY <1>1, GroupIsWay DEF AugmentWay
<1>3. /\ AugmentWay.grouped /\ AugmentWay.hit = TRUE /\ AugmentWay.forms = Newer
      /\ AugmentWay.shapes = Shapes /\ AugmentWay.drop = Shapes
  BY <1>2 DEF AugmentWay, GroupWay
<1>4. Elements("augment") = Grouped BY DEF Elements
<1>5. Events("augment") = Pair BY DEF Events, Pair
<1>6. Events("augment") \in SUBSET AllEvents /\ Events("augment") # {} BY <1>5 DEF Pair, AllEvents
<1>7. Alone("augment") BY DEF Alone, Names, Written
<1>8. \A d : Contained("augment", "user", d) BY DEF Contained, HasSettings
<1> QED BY <1>2, <1>3, <1>4, <1>5, <1>6, <1>7, <1>8 DEF Fits

(* What the plugin says of a set of documents, by its operators.           *)
LEMMA AugmentFields ==
  \A ds : /\ PluginOf("augment", ds).parses <=> Augment!Parses(ds)
          /\ PluginOf("augment", ds).enabled = TRUE
          /\ PluginOf("augment", ds).contracts = Augment!Contracts(ds)
          /\ "whole" \in PluginOf("augment", ds).files
          /\ \A a \in Agents : /\ PluginOf("augment", ds).install[a] = Augment!Install(ds, a)
                               /\ PluginOf("augment", ds).uninstall[a] = Augment!Uninstall(ds, a)
<1>1. \A ds : PluginOf("augment", ds) = Augment!Plugin(ds) BY DEF PluginOf
<1> QED BY <1>1 DEF Augment!Plugin, Augment!RuntimeFiles

(* The plugin's removal and addition are those of its way.                 *)
LEMMA AugmentLists ==
  ASSUME NEW H, IsHooks(H, AugmentWay)
  PROVE  /\ \A ids : Purged(AugmentRemoval(H, ids), H, Pair, ids, AugmentWay)
         /\ \A a : GroupAddition(AugmentRemoval(H, Agents), Pair, a) = Renewed(H, Pair, a, AugmentWay)
<1> DEFINE w == AugmentWay
<1>1. IsWay(w) /\ Kind(w) = Grouped /\ w.grouped /\ w.hit = TRUE /\ w.forms = Newer
      /\ w.shapes = Shapes /\ w.drop = Shapes
  BY AugmentFits DEF Fits, Elements
<1> HIDE DEF w
<1>2. Pair \in SUBSET AllEvents BY DEF Pair, AllEvents
<1>3. \A ids : Purged(HitsRemoval(H, Pair, ids, w.forms, w.drop), H, Pair, ids, w)
  BY <1>1, <1>2, HitsPurged DEF w
<1>4. \A ids : Purged(AugmentRemoval(H, ids), H, Pair, ids, w) BY <1>1, <1>3 DEF AugmentRemoval
<1>5. \A a : GroupAddition(AugmentRemoval(H, Agents), Pair, a) = Renewed(H, Pair, a, w)
  BY <1>1, <1>2, <1>4, GroupRenewed DEF w
<1> QED BY <1>4, <1>5 DEF w

(* Its commands have the form of an installation and of a removal.         *)
LEMMA AugmentPerforms == Performs("augment", AugmentWay)
<1> SUFFICES ASSUME NEW ds, WellFormed("augment", ds), NEW a \in Agents, Augment!Parses(ds)
             PROVE  /\ InstallForm("augment", ds, Augment!Install(ds, a), a, AugmentWay)
                    /\ UninstallForm("augment", ds, Augment!Uninstall(ds, a), a)
  BY AugmentFields DEF Performs
<1> DEFINE old == ds["user"]
           H == OrNew(old).hooks
           r == OrNew(old).root
<1>1. IsHooks(H, AugmentWay) /\ OrNew(old).root \in SUBSET Fields
  BY AugmentFits, OldFile DEF Alone
<1>2. r \in SUBSET Fields /\ OrNew(old).root \ Plain \subseteq r
  BY <1>1 DEF Fields, Plain, OrNew, NewDocument, Document
<1>a. \A e : At(H, e) \in Seq(Grouped)
  BY <1>1, AugmentFits, AtType DEF Fits, Elements
<1> HIDE DEF H, old, r
<1>3. InstallForm("augment", ds, Augment!Install(ds, a), a, AugmentWay)
  <2> DEFINE N == Renewed(H, Pair, a, AugmentWay)
             d == Augment!Render(old, N)
  <2>1. Augment!Install(ds, a) = [user |-> Augment!Render(old, GroupAddition(AugmentRemoval(H, Agents), Pair, a))]
    BY <1>a, AugmentOps DEF old, H
  <2>2. Augment!Install(ds, a) = [user |-> d] BY <1>1, <2>1, AugmentLists
  <2>3. DOMAIN N # {} BY DEF Renewed, Pair
  <2>4. d = Document(r, N) BY <2>3, AugmentRender DEF r
  <2>5. d.root = r BY <2>4 DEF Document
  <2>6. Rewrites("augment", "user", old, d, a, AugmentWay)
    BY <1>1, <1>2, <2>4, <2>5, AugmentFits DEF Rewrites, H
  <2> HIDE DEF d
  <2> QED BY <2>2, <2>6, AugmentFits, OneInstall DEF old
<1>4. UninstallForm("augment", ds, Augment!Uninstall(ds, a), a)
  <2> DEFINE N == AugmentRemoval(H, {a})
             idle == old = NoFile \/ Hits(H, Pair, {a}, Newer, Shapes) = {}
             d == IF idle THEN old ELSE Augment!Render(old, N)
  <2>1. Augment!Uninstall(ds, a) = [user |-> d]
    <3>1. Augment!Uninstall(ds, a) = IF idle THEN ds ELSE [user |-> Augment!Render(old, N)]
      BY <1>a, AugmentOps DEF old, H
    <3>2. ds = [user |-> old] BY AugmentFits DEF WellFormed, Alone, old
    <3> HIDE DEF idle, N
    <3> QED BY <3>1, <3>2
  <2>2. Purged(N, H, Events("augment"), {a}, AugmentWay) BY <1>1, AugmentLists, AugmentFits
  <2>3. \/ d = Document(r, N) /\ Contained("augment", "user", d)
        \/ d = NoFile /\ DOMAIN N = {} /\ OrNew(old).root \subseteq Plain
    <3>1. CASE ~idle
      <4>1. d = Augment!Render(old, N) BY <3>1
      <4> HIDE DEF d, idle
      <4> QED BY <4>1, AugmentRender, AugmentFits DEF r, Plain
    <3>2. CASE old = NoFile
      <4>1. d = NoFile BY <3>2
      <4>2. DOMAIN H = {} /\ OrNew(old).root = {} BY <3>2 DEF H, OrNew, NewDocument, Document
      <4>3. DOMAIN N = {} BY <2>2, <4>2 DEF Purged
      <4> QED BY <4>1, <4>2, <4>3
    <3>3. CASE old # NoFile /\ Hits(H, Pair, {a}, Newer, Shapes) = {}
      <4>1. d = old BY <3>3
      <4>2. H = [e \in DOMAIN H |-> H[e]] BY <1>1 DEF IsHooks
      <4>3. N = H BY <3>3, <4>2, NoneDropped DEF AugmentRemoval, HitsRemoval
      <4>4. IsDocument(old, Grouped) BY <3>3, AugmentFits DEF WellFormed, Alone, old, Elements
      <4>5. old = Document(old.root, old.hooks)
        <5>1. PICK es : old \in [root : SUBSET Fields, hooks : [es -> Seq(Grouped)]]
          BY <4>4 DEF IsDocument
        <5> QED BY <5>1 DEF Document
      <4>6. OrNew(old) = old BY <3>3 DEF OrNew
      <4> QED BY <4>1, <4>3, <4>5, <4>6, AugmentFits DEF r, H
    <3> QED BY <3>1, <3>2, <3>3
  <2> HIDE DEF d, N
  <2>4. FileLeft("augment", ds, "user", {a}, d, Events("augment"), User)
    BY <1>1, <1>2, <2>2, <2>3, AugmentFits, FileRemoval DEF old, H, Fits, Alone
  <2> QED BY <2>1, <2>4, AugmentFits, OneUninstall
<1> QED BY <1>3, <1>4

(* After an installation the host reports it, and another one changes      *)
(* nothing.                                                                *)
LEMMA AugmentRepeats == Repeats("augment", AugmentWay)
<1> SUFFICES ASSUME NEW ds, WellFormed("augment", ds), NEW a \in Agents, Augment!Parses(ds),
                    NEW z, z = Augment!Install(ds, a), WellFormed("augment", z),
                    Outcome("augment", ds, z, a, AugmentWay)
             PROVE  Takes(PluginOf("augment", z), a) /\ Augment!Install(z, a) = z
  BY AugmentFields DEF Repeats
<1> DEFINE old == ds["user"]
           H == OrNew(old).hooks
           r == OrNew(old).root
           new == z["user"]
<1>1. IsHooks(H, AugmentWay) BY AugmentFits, OldFile DEF Alone
<1>2. After("augment", old, new, a, AugmentWay)
  BY AugmentFits, NewFile DEF Alone, Targets
<1>a. \A e : At(H, e) \in Seq(Grouped)
  BY <1>1, AugmentFits, AtType DEF Fits, Elements
<1>3. z = [user |-> new] /\ new.root = r
  <2>1. z = [user |-> Augment!Render(old, Renewed(H, Pair, a, AugmentWay))]
    <3>1. z = [user |-> Augment!Render(old, GroupAddition(AugmentRemoval(H, Agents), Pair, a))] BY <1>a, AugmentOps
    <3> QED BY <1>1, <3>1, AugmentLists
  <2>2. DOMAIN Renewed(H, Pair, a, AugmentWay) # {} BY DEF Renewed, Pair
  <2>3. Augment!Render(old, Renewed(H, Pair, a, AugmentWay))
          = Document(r, Renewed(H, Pair, a, AugmentWay))
    BY <2>2, AugmentRender
  <2> QED BY <2>1, <2>3 DEF Document
<1>4. "malformed" \notin r
  BY DEF Augment!Parses, Augment!ValidSettings, OrNew, NewDocument, Document
<1> HIDE DEF H, old, new
<1>5. /\ new # NoFile /\ OrNew(new) = new /\ new = Document(new.root, new.hooks)
      /\ IsHooks(new.hooks, AugmentWay) /\ DOMAIN new.hooks # {}
      /\ Renewed(new.hooks, Pair, a, AugmentWay) = new.hooks
  BY <1>2, AugmentFits DEF After
<1>b. \A e : At(new.hooks, e) \in Seq(Grouped)
  BY <1>5, AugmentFits, AtType DEF Fits, Elements
<1>6. Augment!Parses(z) BY <1>3, <1>4, <1>5 DEF Augment!Parses, Augment!ValidSettings, new
<1>7. Augment!Contracts(z) = {a}
  <2>1. Augment!Contracts(z) = SomeFound(new.hooks, Pair, Newer, Shapes) BY <1>b, <1>5, AugmentOps DEF new
  <2>2. OnlyGroups(new.hooks, Events("augment"), Newer, Shapes, a)
    <3>1. Newer \in SUBSET Newer /\ "exact" \in Newer
          /\ Shapes \in SUBSET Shapes /\ "exact" \in Shapes
      BY DEF Newer, Shapes
    <3> QED BY <1>2, <3>1, AugmentFits, GroupsTaken
  <2> QED BY <2>1, <2>2, AugmentFits DEF OnlyGroups
<1>8. Augment!Install(z, a) = z
  <2>1. Augment!Install(z, a) = [user |-> Augment!Render(new, GroupAddition(AugmentRemoval(new.hooks, Agents), Pair, a))]
    BY <1>b, <1>5, AugmentOps, ZenonT(40) DEF new
  <2>2. Augment!Install(z, a) = [user |-> Augment!Render(new, new.hooks)]
    BY <1>5, <2>1, AugmentLists
  <2>3. Augment!Render(new, new.hooks) = new
    <3>1. OrNew(new).root = new.root BY <1>3, <1>5 DEF r
    <3>2. Augment!Render(new, new.hooks) = Document(OrNew(new).root, new.hooks)
      BY <1>5, AugmentRender
    <3> QED BY <1>5, <3>1, <3>2
  <2> QED BY <1>3, <2>2, <2>3
<1> QED BY <1>6, <1>7, <1>8, AugmentFields DEF Takes

(* Augment: every installation takes and is steady, every removal clean.  *)
LEMMA AugmentSound == Sound("augment")
<1>1. Looks("augment", AugmentWay) BY DEF Looks, Recognised, AugmentWay, GroupWay, Newer, Shapes
<1>2. Clears("augment") BY NothingElse
<1> QED BY <1>1, <1>2, AugmentFits, AugmentPerforms, AugmentRepeats, HostSound

-----------------------------------------------------------------------------
(* Grok.                                                                   *)

(* Elements that are not picked do not count.                              *)
LEMMA PickSame ==
  ASSUME NEW G, NEW l \in Seq(G), NEW m \in Seq(G), NEW S, Len(l) = Len(m),
         \A k \in DOMAIN l : k \in S => l[k] = m[k]
  PROVE  Pick(l, S) = Pick(m, S)
<1> DEFINE T == {k \in 0 .. Len(l) : Kept(l, S)[k] # Kept(m, S)[k]}
<1>1. T = {}
  <2> SUFFICES ASSUME T # {} PROVE FALSE OBVIOUS
  <2>0. T \subseteq Nat OBVIOUS
  <2>1. PICK k \in T : \A y \in T : k <= y BY <2>0, Smallest
  <2>2. \A j \in 0 .. Len(l) : /\ Kept(l, S)[j] = IF j = 0 THEN <<>> ELSE IF j \in S
                                     THEN Append(Kept(l, S)[j - 1], l[j]) ELSE Kept(l, S)[j - 1]
                               /\ Kept(m, S)[j] = IF j = 0 THEN <<>> ELSE IF j \in S
                                     THEN Append(Kept(m, S)[j - 1], m[j]) ELSE Kept(m, S)[j - 1]
    BY KeptStep
  <2>3. k # 0 BY <2>1, <2>2
  <2>4. k - 1 \in 0 .. Len(l) /\ k - 1 \notin T BY <2>1, <2>3
  <2>5. k \in DOMAIN l BY <2>1, <2>3
  <2> QED BY <2>1, <2>2, <2>3, <2>4, <2>5
<1>2. Kept(l, S)[Len(l)] = Kept(m, S)[Len(l)] BY <1>1
<1> QED BY <1>2, PickKept

(* A list of one element, and what a removal leaves of it.                 *)
LEMMA PickOne ==
  ASSUME NEW x, NEW S
  PROVE  Pick(<<x>>, S) = IF 1 \in S THEN <<x>> ELSE <<>>
<1>1. <<x>> \in Seq({x}) /\ DOMAIN <<x>> = {1} /\ Len(<<x>>) = 1 OBVIOUS
<1>2. CASE 1 \in S BY <1>1, <1>2, PickAll
<1>3. CASE 1 \notin S
  <2>1. Pick(<<x>>, S) = Kept(<<x>>, S)[1] BY <1>1, PickKept
  <2>2. \A k \in 0 .. 1 : Kept(<<x>>, S)[k] = IF k = 0 THEN <<>> ELSE IF k \in S
            THEN Append(Kept(<<x>>, S)[k - 1], <<x>>[k]) ELSE Kept(<<x>>, S)[k - 1]
    BY <1>1, KeptStep
  <2>3. Kept(<<x>>, S)[1] = Kept(<<x>>, S)[0] /\ Kept(<<x>>, S)[0] = <<>> BY <1>3, <2>2
  <2> QED BY <1>3, <2>1, <2>3
<1> QED BY <1>2, <1>3

(* Grok's removal from a list of groups.                                   *)
LEMMA GrokGroups ==
  ASSUME NEW gs \in Seq(Grouped), NEW e, NEW ids
  PROVE  Grok!RemoveFromExactGroups(gs, e, ids) = ShapeRemoval(gs, e, ids, Three, {"exact"})
<1> DEFINE left(g) == [g EXCEPT !.hooks = Unmatched(@, e, ids, Three)]
           gone(g) == left(g).hooks = <<>> /\ left(g).shape = "exact"
           stripped == [i \in DOMAIN gs |-> IF gs[i].shape = "exact"
                                            THEN IF gone(gs[i]) THEN <<>> ELSE <<left(gs[i])>>
                                            ELSE <<gs[i]>>]
           kept == {i \in DOMAIN gs : stripped[i] # <<>>}
           l == [i \in DOMAIN gs |-> IF i \in kept THEN stripped[i][1] ELSE gs[i]]
           rest == [i \in DOMAIN gs |-> IF gs[i].shape \in {"exact"} THEN left(gs[i]) ELSE gs[i]]
<1>1. \A g \in Grouped : left(g) \in Grouped /\ left(g).shape = g.shape
  <2> TAKE g \in Grouped
  <2>1. g = [shape |-> g.shape, hooks |-> g.hooks] /\ g.hooks \in Seq(Listed)
        /\ g.shape \in {"exact", "star", "own"}
    BY DEF Grouped
  <2>2. Unmatched(g.hooks, e, ids, Three) \in Seq(Listed) BY <2>1, PickRange DEF Unmatched
  <2>3. left(g) = [shape |-> g.shape, hooks |-> Unmatched(g.hooks, e, ids, Three)] BY <2>1
  <2> QED BY <2>1, <2>2, <2>3 DEF Grouped
<1>2. \A g : Grok!RemoveFromGroups(<<g>>, e, ids) = IF gone(g) THEN <<>> ELSE <<left(g)>>
  <2> TAKE g
  <2> DEFINE r == [i \in DOMAIN <<g>> |-> left(<<g>>[i])]
  <2>1. r = <<left(g)>> OBVIOUS
  <2>2. Grok!RemoveFromGroups(<<g>>, e, ids) =
          Pick(r, {i \in DOMAIN r : ~(r[i].hooks = <<>> /\ Grok!ExactManagedGroup(r[i]))})
    BY DEF Grok!RemoveFromGroups, Grok!Strip, Grok!Without, Grok!Pick, Pick, Grok!Kept, Kept,
      Grok!ManagedReference, Grok!Refers, Refers, Grok!ScriptOf, ScriptOf, Unmatched, Three
  <2>3. 1 \in {i \in DOMAIN r : ~(r[i].hooks = <<>> /\ Grok!ExactManagedGroup(r[i]))}
          <=> ~gone(g)
    BY <2>1 DEF Grok!ExactManagedGroup
  <2> HIDE DEF r
  <2> QED BY <2>1, <2>2, <2>3, PickOne
<1>3. Grok!RemoveFromExactGroups(gs, e, ids) = Pick(l, kept)
  <2> DEFINE raw == [i \in DOMAIN gs |-> IF Grok!ExactManagedGroup(gs[i])
                                         THEN Grok!RemoveFromGroups(<<gs[i]>>, e, ids)
                                         ELSE <<gs[i]>>]
             some(s) == {i \in DOMAIN gs : s[i] # <<>>}
             first(s) == [i \in DOMAIN gs |-> IF i \in some(s) THEN s[i][1] ELSE gs[i]]
  <2>1. \A i \in DOMAIN gs : Grok!ExactManagedGroup(gs[i]) <=> gs[i].shape = "exact"
    BY DEF Grok!ExactManagedGroup
  <2>2. raw = stripped BY <2>1, <1>2
  <2>3. Grok!RemoveFromExactGroups(gs, e, ids) = Pick(first(raw), some(raw))
    BY DEF Grok!RemoveFromExactGroups, Grok!Pick, Pick, Grok!Kept, Kept
  <2>4. Pick(l, kept) = Pick(first(stripped), some(stripped)) OBVIOUS
  <2> HIDE DEF stripped, raw, l, kept, some, first
  <2> QED BY <2>2, <2>3, <2>4
<1>4. \A i \in DOMAIN gs : /\ stripped[i] # <<>> <=> ~(rest[i].hooks = <<>> /\ gs[i].shape \in {"exact"})
                           /\ stripped[i] # <<>> => stripped[i][1] = rest[i]
                           /\ rest[i] \in Grouped
  <2> TAKE i \in DOMAIN gs
  <2>1. gs[i] \in Grouped /\ left(gs[i]).shape = gs[i].shape /\ left(gs[i]) \in Grouped BY <1>1
  <2> DEFINE x == left(gs[i])
  <2>2. <<x>> # <<>> /\ <<gs[i]>> # <<>> /\ <<x>>[1] = x /\ <<gs[i]>>[1] = gs[i]
    <3> HIDE DEF x
    <3> QED OBVIOUS
  <2>3. stripped[i] = IF gs[i].shape = "exact"
                      THEN IF x.hooks = <<>> /\ x.shape = "exact" THEN <<>> ELSE <<x>>
                      ELSE <<gs[i]>>
    OBVIOUS
  <2>4. rest[i] = IF gs[i].shape = "exact" THEN x ELSE gs[i] OBVIOUS
  <2> HIDE DEF x, stripped, rest
  <2> QED BY <2>1, <2>2, <2>3, <2>4 DEF x
<1> DEFINE K == {i \in DOMAIN gs : ~(rest[i].hooks = <<>> /\ gs[i].shape \in {"exact"})}
<1>5. kept = K BY <1>4
<1>6. /\ DOMAIN l = DOMAIN gs /\ DOMAIN rest = DOMAIN gs
      /\ \A i \in DOMAIN gs : l[i] = IF i \in kept THEN rest[i] ELSE gs[i]
  <2> HIDE DEF rest, stripped
  <2>1. DOMAIN l = DOMAIN gs /\ \A i \in DOMAIN gs : l[i] = IF i \in kept THEN stripped[i][1] ELSE gs[i]
    OBVIOUS
  <2>2. \A i \in kept : stripped[i][1] = rest[i] BY <1>4
  <2>3. DOMAIN rest = DOMAIN gs BY DEF rest
  <2> QED BY <2>1, <2>2, <2>3
<1>7. l = [i \in DOMAIN gs |-> l[i]] /\ rest = [i \in DOMAIN gs |-> rest[i]] OBVIOUS
<1> HIDE DEF l, rest, kept, stripped
<1>8. l \in Seq(Grouped) /\ rest \in Seq(Grouped) /\ Len(l) = Len(rest)
  <2>1. \A i \in 1 .. Len(gs) : l[i] \in Grouped /\ rest[i] \in Grouped BY <1>4, <1>6
  <2>2. DOMAIN gs = 1 .. Len(gs) /\ Len(gs) \in Nat OBVIOUS
  <2>3. l \in [1 .. Len(gs) -> Grouped] BY <2>1, <2>2, <1>7
  <2>4. rest \in [1 .. Len(gs) -> Grouped] BY <2>1, <2>2, <1>7
  <2>5. l \in Seq(Grouped) /\ rest \in Seq(Grouped) BY <2>2, <2>3, <2>4
  <2>6. Len(l) = Len(gs) /\ Len(rest) = Len(gs) BY <2>2, <2>5, <1>6
  <2> QED BY <2>5, <2>6
<1>9. Pick(l, K) = Pick(rest, K)
  <2>1. \A k \in DOMAIN l : k \in K => l[k] = rest[k] BY <1>5, <1>6
  <2> HIDE DEF K
  <2> QED BY <2>1, <1>8, PickSame
<1>10. ShapeRemoval(gs, e, ids, Three, {"exact"}) = Pick(rest, K) BY DEF ShapeRemoval, rest
<1> QED BY <1>3, <1>5, <1>9, <1>10

GrokRemoval(H, ids) == ShapesRemoval(H, Triple, ids, Three, {"exact"})

(* Grok's removal at all events.                                           *)
LEMMA GrokRemove ==
  ASSUME NEW H, \A e : At(H, e) \in Seq(Grouped), NEW ids
  PROVE  Grok!RemoveManagedHooks(H, ids) = GrokRemoval(H, ids)
<1>1. \A e : Grok!RemoveFromExactGroups(Grok!At(H, e), e, ids)
               = ShapeRemoval(At(H, e), e, ids, Three, {"exact"})
  BY GrokGroups DEF Grok!At, At
<1> QED BY <1>1
  DEF Grok!RemoveManagedHooks, GrokRemoval, ShapesRemoval, Grok!PutOrDrop, PutOrDrop,
    Grok!Drop, Drop, Grok!Over, Over, Grok!Events, Triple

(* The operators of the plugin, in the terms used here.                    *)
LEMMA GrokOps ==
  ASSUME NEW ds, NEW a, \A e : At(OrNew(ds["user"]).hooks, e) \in Seq(Grouped)
  PROVE  /\ Grok!Install(ds, a) =
              [user |-> Grok!Render(ds["user"],
                 GroupAddition(GrokRemoval(OrNew(ds["user"]).hooks, Agents), Triple, a))]
         /\ Grok!Uninstall(ds, a) =
              [user |-> Grok!Render(ds["user"], GrokRemoval(OrNew(ds["user"]).hooks, {a}))]
         /\ Grok!Contracts(ds) = OneFound(OrNew(ds["user"]).hooks, Triple, Three, {"exact"})
<1>1. \A d : Grok!OrNew(d) = OrNew(d)
  BY DEF Grok!OrNew, OrNew, Grok!NewDocument, NewDocument, Grok!Document, Document
<1> DEFINE H == OrNew(ds["user"]).hooks
<1>2. \A ids : Grok!RemoveManagedHooks(H, ids) = GrokRemoval(H, ids) BY GrokRemove
<1>3. \A N : Grok!Append1(N, Grok!Events, LAMBDA e : Grok!Group(a, e))
               = GroupAddition(N, Triple, a)
  BY DEF Grok!Append1, GroupAddition, Grok!Over, Over, Grok!At, At, Grok!Group, Group,
    Grok!Handler, Handler, Grok!ScriptOf, ScriptOf, Grok!Events, Triple
<1>4. Grok!Contracts(ds) = OneFound(H, Triple, Three, {"exact"})
  <2>1. \A l, e, b : Grok!Matches(l, Grok!ExactManagedGroup,
                                  LAMBDA h : Grok!ManagedReference(h, e, {b}))
                       = Found(l, e, {b}, Three, {"exact"})
    <3>1. \A g : Grok!ExactManagedGroup(g) <=> g.shape \in {"exact"}
      BY DEF Grok!ExactManagedGroup
    <3> QED BY <3>1 DEF Grok!Matches, Found, Matches, Grok!ManagedReference, Grok!Refers, Refers,
          Grok!ScriptOf, ScriptOf, Three
  <2>2. \A e, b : Grok!ReferencesForEvent(H, e, b) = Found(At(H, e), e, {b}, Three, {"exact"})
    BY <2>1 DEF Grok!ReferencesForEvent, Grok!At, At
  <2>3. Grok!Contracts(ds) =
          {b \in Agents : \A e \in Triple : One(Grok!ReferencesForEvent(H, e, b))}
    BY <1>1 DEF Grok!Contracts, Grok!Events, Triple, Grok!One, One
  <2> HIDE DEF H
  <2> QED BY <2>2, <2>3 DEF OneFound
<1>5. Grok!Install(ds, a) =
        [user |-> Grok!Render(ds["user"],
           Grok!Append1(Grok!RemoveManagedHooks(Grok!OrNew(ds["user"]).hooks, Agents), Grok!Events,
                        LAMBDA e : Grok!Group(a, e)))]
  BY DEF Grok!Install
<1>6. Grok!Uninstall(ds, a) =
        [user |-> Grok!Render(ds["user"],
                              Grok!RemoveManagedHooks(Grok!OrNew(ds["user"]).hooks, {a}))]
  BY DEF Grok!Uninstall
<1>7. Grok!Install(ds, a) = [user |-> Grok!Render(ds["user"],
         GroupAddition(GrokRemoval(H, Agents), Triple, a))]
  BY <1>1, <1>2, <1>3, <1>5
<1> QED BY <1>1, <1>2, <1>4, <1>6, <1>7

(* What a document is rendered to.                                         *)
LEMMA GrokRender ==
  ASSUME NEW doc, NEW N
  PROVE  LET d == Document(OrNew(doc).root, N)
         IN  /\ DOMAIN N # {} => Grok!Render(doc, N) = d
             /\ \/ Grok!Render(doc, N) = d
                \/ /\ Grok!Render(doc, N) = NoFile /\ DOMAIN N = {}
                   /\ OrNew(doc).root = {}
<1> DEFINE d == Document(OrNew(doc).root, N)
<1>1. Grok!Render(doc, N) =
        IF DOMAIN N = {} /\ (doc = NoFile \/ Grok!EntirelyManaged(doc)) THEN NoFile ELSE d
  BY DEF Grok!Render, Grok!OrNew, OrNew, Grok!NewDocument, NewDocument, Grok!Document, Document
<1>2. Grok!EntirelyManaged(doc) => doc.root = {} BY DEF Grok!EntirelyManaged
<1>3. doc = NoFile => OrNew(doc).root = {} BY DEF OrNew, NewDocument, Document
<1>4. doc # NoFile => OrNew(doc) = doc BY DEF OrNew
<1> HIDE DEF d
<1>5. /\ DOMAIN N # {} => Grok!Render(doc, N) = d
      /\ \/ Grok!Render(doc, N) = d
         \/ /\ Grok!Render(doc, N) = NoFile /\ DOMAIN N = {}
            /\ OrNew(doc).root = {}
  BY <1>1, <1>2, <1>3, <1>4
<1> QED BY <1>5 DEF d

GrokWay == GroupWay(Three, {"exact"}, {"exact"}, FALSE)

(* Which files, events and elements the host has.                          *)
LEMMA GrokFits ==
  /\ Fits("grok", GrokWay) /\ Alone("grok") /\ Events("grok") = Triple
  /\ GrokWay.grouped /\ GrokWay.hit = FALSE /\ GrokWay.forms = Three
  /\ GrokWay.shapes = {"exact"} /\ GrokWay.drop = {"exact"}
  /\ \A d : Contained("grok", "user", d)
<1>1. /\ Three \in SUBSET Forms /\ "exact" \in Three
      /\ {"exact"} \in SUBSET Shapes /\ "exact" \in {"exact"} /\ FALSE \in BOOLEAN
  BY DEF Three, Forms, Shapes
<1>2. /\ IsWay(GrokWay) /\ Kind(GrokWay) = Grouped
      /\ GrokWay.grouped /\ GrokWay.hit = FALSE /\ GrokWay.forms = Three
      /\ GrokWay.shapes = {"exact"} /\ GrokWay.drop = {"exact"}
  <2>1. IsWay(GrokWay) /\ Kind(GrokWay) = Grouped BY <1>1, GroupIsWay, ZenonT(40) DEF GrokWay
  <2> QED BY <2>1 DEF GrokWay, GroupWay
<1>3. Elements("grok") = Grouped BY DEF Elements
<1>4. Events("grok") = Triple BY DEF Events, Triple
<1>5. Events("grok") \in SUBSET AllEvents /\ Events("grok") # {} BY <1>4 DEF Triple, AllEvents
<1>6. Alone("grok") BY DEF Alone, Names, Written
<1>7. \A d : Contained("grok", "user", d) BY DEF Contained, HasSettings
<1> QED BY <1>2, <1>3, <1>4, <1>5, <1>6, <1>7 DEF Fits

(* What the plugin says of a set of documents, by its operators.           *)
LEMMA GrokFields ==
  \A ds : /\ PluginOf("grok", ds).parses <=> Grok!Parses(ds)
          /\ PluginOf("grok", ds).enabled = TRUE
          /\ PluginOf("grok", ds).contracts = Grok!Contracts(ds)
          /\ "whole" \in PluginOf("grok", ds).files
          /\ \A a \in Agents : /\ PluginOf("grok", ds).install[a] = Grok!Install(ds, a)
                               /\ PluginOf("grok", ds).uninstall[a] = Grok!Uninstall(ds, a)
<1>1. \A ds : PluginOf("grok", ds) = Grok!Plugin(ds) BY DEF PluginOf
<1> QED BY <1>1 DEF Grok!Plugin, Grok!RuntimeFiles

(* The plugin's removal and addition are those of its way.                 *)
LEMMA GrokLists ==
  ASSUME NEW H, IsHooks(H, GrokWay)
  PROVE  /\ \A e : At(H, e) \in Seq(Grouped)
         /\ \A ids : Purged(GrokRemoval(H, ids), H, Triple, ids, GrokWay)
         /\ \A a : GroupAddition(GrokRemoval(H, Agents), Triple, a) = Renewed(H, Triple, a, GrokWay)
<1> DEFINE w == GrokWay
<1>1. IsWay(w) /\ Kind(w) = Grouped /\ w.grouped /\ w.hit = FALSE /\ w.forms = Three
      /\ w.shapes = {"exact"} /\ w.drop = w.shapes
  BY GrokFits DEF Fits, Elements
<1> HIDE DEF w
<1>2. \A e : At(H, e) \in Seq(Grouped) BY <1>1, AtType DEF w
<1>3. Triple \in SUBSET AllEvents BY DEF Triple, AllEvents
<1>4. \A ids : Purged(ShapesRemoval(H, Triple, ids, w.forms, w.shapes), H, Triple, ids, w)
  BY <1>1, <1>3, ShapesPurged DEF w
<1>5. \A ids : Purged(GrokRemoval(H, ids), H, Triple, ids, w) BY <1>1, <1>4 DEF GrokRemoval
<1>6. \A a : GroupAddition(GrokRemoval(H, Agents), Triple, a) = Renewed(H, Triple, a, w)
  BY <1>1, <1>3, <1>5, GroupRenewed DEF w
<1> QED BY <1>2, <1>5, <1>6 DEF w

(* Its commands have the form of an installation and of a removal.         *)
LEMMA GrokPerforms == Performs("grok", GrokWay)
<1> SUFFICES ASSUME NEW ds, WellFormed("grok", ds), NEW a \in Agents, Grok!Parses(ds)
             PROVE  /\ InstallForm("grok", ds, Grok!Install(ds, a), a, GrokWay)
                    /\ UninstallForm("grok", ds, Grok!Uninstall(ds, a), a)
  BY GrokFields DEF Performs
<1> DEFINE old == ds["user"]
           H == OrNew(old).hooks
<1>1. IsHooks(H, GrokWay) /\ OrNew(old).root \in SUBSET Fields
  BY GrokFits, OldFile DEF Alone
<1> HIDE DEF H, old
<1>2. InstallForm("grok", ds, Grok!Install(ds, a), a, GrokWay)
  <2> DEFINE N == Renewed(H, Triple, a, GrokWay)
             d == Grok!Render(old, N)
  <2>0. \A e : At(H, e) \in Seq(Grouped) BY <1>1, GrokLists
  <2>a. Grok!Install(ds, a) =
          [user |-> Grok!Render(old, GroupAddition(GrokRemoval(H, Agents), Triple, a))]
    BY <2>0, GrokOps DEF old, H
  <2>1. Grok!Install(ds, a) = [user |-> d] BY <1>1, <2>a, GrokLists
  <2>2. DOMAIN N # {} BY DEF Renewed, Triple
  <2>3. d = Document(OrNew(old).root, N) BY <2>2, GrokRender
  <2>4. d.root = OrNew(old).root BY <2>3 DEF Document
  <2>5. Rewrites("grok", "user", old, d, a, GrokWay)
    BY <1>1, <2>3, <2>4, GrokFits DEF Rewrites, H
  <2> HIDE DEF d
  <2> QED BY <2>1, <2>5, GrokFits, OneInstall DEF old
<1>3. UninstallForm("grok", ds, Grok!Uninstall(ds, a), a)
  <2> DEFINE N == GrokRemoval(H, {a})
             d == Grok!Render(old, N)
  <2>1. Grok!Uninstall(ds, a) = [user |-> d] BY <1>1, GrokOps, GrokLists DEF old, H
  <2>2. Purged(N, H, Events("grok"), {a}, GrokWay) BY <1>1, GrokLists, GrokFits
  <2>3. \/ d = Document(OrNew(old).root, N) /\ Contained("grok", "user", d)
        \/ d = NoFile /\ DOMAIN N = {} /\ OrNew(old).root \subseteq Plain
    BY GrokRender, GrokFits
  <2> HIDE DEF d, N
  <2>4. FileLeft("grok", ds, "user", {a}, d, Events("grok"), User)
    BY <1>1, <2>2, <2>3, GrokFits, FileRemoval DEF old, H, Fits, Alone
  <2> QED BY <2>1, <2>4, GrokFits, OneUninstall
<1> QED BY <1>2, <1>3

(* After an installation the host reports it, and another one changes      *)
(* nothing.                                                                *)
LEMMA GrokRepeats == Repeats("grok", GrokWay)
<1> SUFFICES ASSUME NEW ds, WellFormed("grok", ds), NEW a \in Agents, Grok!Parses(ds),
                    NEW z, z = Grok!Install(ds, a), WellFormed("grok", z),
                    Outcome("grok", ds, z, a, GrokWay)
             PROVE  Takes(PluginOf("grok", z), a) /\ Grok!Install(z, a) = z
  BY GrokFields DEF Repeats
<1> DEFINE old == ds["user"]
           H == OrNew(old).hooks
           new == z["user"]
<1>1. IsHooks(H, GrokWay) BY GrokFits, OldFile DEF Alone
<1>2. After("grok", old, new, a, GrokWay)
  BY GrokFits, NewFile DEF Alone, Targets
<1>3. z = [user |-> new] /\ new.root = OrNew(old).root
  <2>1. z = [user |-> Grok!Render(old, Renewed(H, Triple, a, GrokWay))]
    BY <1>1, GrokOps, GrokLists, ZenonT(60)
  <2>2. DOMAIN Renewed(H, Triple, a, GrokWay) # {} BY DEF Renewed, Triple
  <2>3. Grok!Render(old, Renewed(H, Triple, a, GrokWay))
          = Document(OrNew(old).root, Renewed(H, Triple, a, GrokWay))
    BY <2>2, GrokRender
  <2> QED BY <2>1, <2>3 DEF Document
<1> HIDE DEF H, old, new
<1>4. /\ new # NoFile /\ OrNew(new) = new /\ new = Document(new.root, new.hooks)
      /\ IsHooks(new.hooks, GrokWay) /\ DOMAIN new.hooks # {}
      /\ Renewed(new.hooks, Triple, a, GrokWay) = new.hooks
  BY <1>2, GrokFits DEF After
<1>5. Grok!Parses(z)
  <2>1. "malformed" \notin OrNew(old).root
    BY DEF Grok!Parses, Grok!ReadHooks, OrNew, NewDocument, Document, old
  <2> QED BY <1>3, <2>1 DEF Grok!Parses, Grok!ReadHooks, new
<1>6. Grok!Contracts(z) = {a}
  <2>1. Grok!Contracts(z) = OneFound(new.hooks, Triple, Three, {"exact"})
    BY <1>4, GrokOps, GrokLists DEF new
  <2>2. OnlyGroups(new.hooks, Events("grok"), Three, {"exact"}, a)
    BY <1>2, GrokFits, GroupsTaken DEF Three
  <2> QED BY <2>1, <2>2, GrokFits DEF OnlyGroups
<1>7. Grok!Install(z, a) = z
  <2>1. Grok!Install(z, a) = [user |-> Grok!Render(new, new.hooks)]
    <3>1. \A e : At(new.hooks, e) \in Seq(Grouped) BY <1>4, GrokLists
    <3>2. Grok!Install(z, a) =
            [user |-> Grok!Render(new, GroupAddition(GrokRemoval(new.hooks, Agents), Triple, a))]
      BY <1>4, <3>1, GrokOps, ZenonT(40) DEF new
    <3> QED BY <1>4, <3>2, GrokLists
  <2>2. Grok!Render(new, new.hooks) = new BY <1>4, GrokRender
  <2> QED BY <1>3, <2>1, <2>2
<1> QED BY <1>5, <1>6, <1>7, GrokFields DEF Takes

(* Grok: every installation takes and is steady, every removal clean.      *)
LEMMA GrokSound == Sound("grok")
<1>1. Looks("grok", GrokWay) BY DEF Looks, Recognised, GrokWay, GroupWay, Three, Shapes
<1>2. Clears("grok") BY NothingElse
<1> QED BY <1>1, <1>2, GrokFits, GrokPerforms, GrokRepeats, HostSound

-----------------------------------------------------------------------------
(* Gemini.                                                                 *)
GeminiRemoval(H, ids) == HitsRemoval(H, Pair, ids, Three, {"exact"})

GeminiLess(doc, N) == IF DOMAIN N = {} THEN MarkedRoot(doc) \ {"hooks"} ELSE MarkedRoot(doc)

GeminiLeft(doc, N) ==
  IF GeminiLess(doc, N) = {"marker"} THEN NoFile ELSE Document(GeminiLess(doc, N), N)

GeminiSet(doc, a) ==
  Document(MarkedRoot(doc) \cup {"hooks"}, GroupAddition(GeminiRemoval(OrNew(doc).hooks, Agents), Pair, a))

(* What is left of a document.                                             *)
LEMMA GeminiRemove ==
  ASSUME NEW doc, NEW ids
  PROVE  Gemini!RemoveManagedEntries(doc, ids) =
           LET N == GeminiRemoval(doc.hooks, ids) IN Document(IF DOMAIN N = {} THEN doc.root \ {"hooks"} ELSE doc.root, N)
<1> DEFINE H == doc.hooks
<1>1. \A gs, e : Gemini!Removals(gs, e, ids) = HitRemoval(gs, e, ids, Three, {"exact"})
  <2> SUFFICES ASSUME NEW gs, NEW e
               PROVE  Gemini!Removals(gs, e, ids) = HitRemoval(gs, e, ids, Three, {"exact"})
    OBVIOUS
  <2> DEFINE rest == Emptied(gs, e, ids, Three)
  <2>1. \A g : Gemini!ExactManagedGroup(g) <=> g.shape \in {"exact"} BY DEF Gemini!ExactManagedGroup
  <2>2. Gemini!Removals(gs, e, ids) =
          Pick(rest, {i \in DOMAIN gs : ~(/\ rest[i].hooks = <<>>
                                          /\ gs[i].hooks # <<>>
                                          /\ Gemini!ExactManagedGroup(gs[i]))})
    BY DEF Gemini!Removals, Gemini!StripHit, Gemini!Without, Gemini!Pick, Pick,
      Gemini!Kept, Kept, Gemini!Managed, Gemini!Refers, Refers, Gemini!ScriptOf, ScriptOf,
      Emptied, Unmatched, Three
  <2> HIDE DEF rest
  <2> QED BY <2>1, <2>2 DEF HitRemoval, rest
<1> DEFINE hit == Hits(H, Pair, ids, Three, {"exact"})
<1>2. {e \in Gemini!Events \cap DOMAIN H : Gemini!Removals(H[e], e, ids) # H[e]} = hit
  BY <1>1 DEF Hits, Gemini!Events, Pair
<1> DEFINE N == Gemini!PutOrDrop(H, [e \in hit |-> Gemini!Removals(H[e], e, ids)])
<1>3. Gemini!RemoveManagedEntries(doc, ids) = Document(IF DOMAIN N = {} THEN doc.root \ {"hooks"} ELSE doc.root, N)
  BY <1>2 DEF Gemini!RemoveManagedEntries, Gemini!Document, Document
<1>4. N = GeminiRemoval(H, ids)
  <2> HIDE DEF hit, H
  <2> QED BY <1>1
    DEF GeminiRemoval, HitsRemoval, hit, Gemini!PutOrDrop, PutOrDrop, Gemini!Drop, Drop, Gemini!Over, Over
<1> HIDE DEF N, hit
<1> QED BY <1>3, <1>4 DEF H

(* The operators of the plugin, in the terms used here.                    *)
LEMMA GeminiOps ==
  ASSUME NEW ds, WellFormed("gemini", ds), NEW a
  PROVE  /\ Replaces("gemini", ds, Gemini!Install(ds, a), "user", GeminiSet(ds["user"], a))
         /\ Replaces("gemini", ds, Gemini!Uninstall(ds, a), "user",
                     GeminiLeft(ds["user"], GeminiRemoval(OrNew(ds["user"]).hooks, {a})))
         /\ Gemini!Contracts(ds) = OneFound(OrNew(ds["user"]).hooks, Pair, Newer, {"exact"})
<1> DEFINE old == ds["user"]
           H == OrNew(old).hooks
           S == Gemini!Settings(old)
<1>1. S.hooks = H /\ S.root = MarkedRoot(old)
  BY DEF Gemini!Settings, OrNew, NewDocument, Document, Gemini!NewDocument, Gemini!Document, Gemini!NewSettings, MarkedRoot
<1>2. Gemini!Install(ds, a) = [user |-> Gemini!AppendGroups(Gemini!RemoveManagedEntries(S, Agents), a)]
  BY DEF Gemini!Install
<1>3. Gemini!Uninstall(ds, a) = [user |-> LET doc == Gemini!RemoveManagedEntries(S, {a}) IN IF doc.root = {"marker"} THEN NoFile ELSE doc]
  BY DEF Gemini!Uninstall
<1> HIDE DEF S, H, old
<1> DEFINE rest(ids) == Gemini!RemoveManagedEntries(S, ids)
<1>4. \A ids : rest(ids) = Document(GeminiLess(old, GeminiRemoval(H, ids)), GeminiRemoval(H, ids))
  <2> TAKE ids
  <2>1. rest(ids) = LET N == GeminiRemoval(S.hooks, ids) IN Document(IF DOMAIN N = {} THEN S.root \ {"hooks"} ELSE S.root, N)
    BY GeminiRemove
  <2> QED BY <1>1, <2>1 DEF GeminiLess
<1>5. Gemini!AppendGroups(rest(Agents), a) = GeminiSet(old, a)
  <2> DEFINE M == GeminiRemoval(H, Agents)
             q == GeminiLess(old, M)
  <2>1. rest(Agents) = Document(q, M) BY <1>4
  <2>2. q \cup {"hooks"} = MarkedRoot(old) \cup {"hooks"} BY DEF GeminiLess
  <2> HIDE DEF M, q, rest
  <2>3. rest(Agents).root = q /\ rest(Agents).hooks = M BY <2>1 DEF Document
  <2>4. Gemini!AppendGroups(rest(Agents), a) = Document(q \cup {"hooks"}, GroupAddition(M, Pair, a))
    BY <2>3 DEF Gemini!AppendGroups, Gemini!Document, Document, Gemini!Append1, GroupAddition, Gemini!Over, Over,
      Gemini!At, At, Gemini!Group, Group, Gemini!Handler, Handler, Gemini!ScriptOf, ScriptOf, Gemini!Events, Pair
  <2> QED BY <2>2, <2>4 DEF GeminiSet, M, H
<1>6. (IF rest({a}).root = {"marker"} THEN NoFile ELSE rest({a})) = GeminiLeft(old, GeminiRemoval(H, {a}))
  <2> DEFINE M == GeminiRemoval(H, {a})
             q == GeminiLess(old, M)
  <2>1. rest({a}) = Document(q, M) BY <1>4
  <2> HIDE DEF M, q, rest
  <2>2. rest({a}).root = q BY <2>1 DEF Document
  <2> QED BY <2>1, <2>2 DEF GeminiLeft, M, q
<1>7. \A c, d : c = [user |-> d] => Replaces("gemini", ds, c, "user", d)
  BY DEF Replaces, WellFormed, Names
<1>8. Replaces("gemini", ds, Gemini!Install(ds, a), "user", GeminiSet(old, a))
  BY <1>2, <1>5, <1>7
<1>9. Replaces("gemini", ds, Gemini!Uninstall(ds, a), "user", GeminiLeft(old, GeminiRemoval(H, {a})))
  BY <1>3, <1>6, <1>7
<1>10. Gemini!Contracts(ds) = OneFound(H, Pair, Newer, {"exact"})
  <2>1. \A l, e, b : Gemini!Matches(l, Gemini!ExactManagedGroup, LAMBDA h : Gemini!Current(h, e, {b}))
                       = Found(l, e, {b}, Newer, {"exact"})
    <3>1. \A g : Gemini!ExactManagedGroup(g) <=> g.shape \in {"exact"} BY DEF Gemini!ExactManagedGroup
    <3> QED BY <3>1 DEF Gemini!Matches, Found, Matches, Gemini!Current, Gemini!Refers,
          Refers, Gemini!ScriptOf, ScriptOf, Newer
  <2>2. \A e, b : Gemini!References(H, e, b) = Found(At(H, e), e, {b}, Newer, {"exact"})
    BY <2>1 DEF Gemini!References, Gemini!At, At
  <2>3. Gemini!Contracts(ds) = {b \in Agents : \A e \in Pair : One(Gemini!References(S.hooks, e, b))}
    BY DEF Gemini!Contracts, Gemini!Events, Pair, Gemini!One, One, S, old
  <2> QED BY <1>1, <2>2, <2>3 DEF OneFound
<1> QED BY <1>8, <1>9, <1>10 DEF old, H

GeminiWay == GroupWay(Three, Shapes, {"exact"}, TRUE)

(* Which files, events and elements the host has.                          *)
LEMMA GeminiFits ==
  /\ Fits("gemini", GeminiWay) /\ Single("gemini", "user") /\ Events("gemini") = Pair
  /\ GeminiWay.grouped /\ GeminiWay.hit = TRUE /\ GeminiWay.forms = Three
  /\ GeminiWay.shapes = Shapes /\ GeminiWay.drop = {"exact"}
<1>1. /\ Three \in SUBSET Forms /\ "exact" \in Three
      /\ Shapes \in SUBSET Shapes /\ "exact" \in Shapes
      /\ {"exact"} \in SUBSET Shapes /\ "exact" \in {"exact"} /\ TRUE \in BOOLEAN
  BY DEF Three, Forms, Shapes
<1>2. IsWay(GeminiWay) /\ Kind(GeminiWay) = Grouped BY <1>1, GroupIsWay, ZenonT(40) DEF GeminiWay
<1>3. /\ GeminiWay.grouped /\ GeminiWay.hit = TRUE /\ GeminiWay.forms = Three
      /\ GeminiWay.shapes = Shapes /\ GeminiWay.drop = {"exact"}
  BY <1>2 DEF GeminiWay, GroupWay
<1>4. Elements("gemini") = Grouped BY DEF Elements
<1>5. Events("gemini") = Pair BY DEF Events, Pair
<1>6. Events("gemini") \in SUBSET AllEvents /\ Events("gemini") # {} BY <1>5 DEF Pair, AllEvents
<1>7. Single("gemini", "user") BY DEF Single, Names, Written
<1> QED BY <1>2, <1>3, <1>4, <1>5, <1>6, <1>7 DEF Fits

(* What the plugin says of a set of documents, by its operators.           *)
LEMMA GeminiFields ==
  \A ds : /\ PluginOf("gemini", ds).parses <=> Gemini!Parses(ds)
          /\ PluginOf("gemini", ds).refused <=> Gemini!Refused(ds)
          /\ PluginOf("gemini", ds).enabled <=> Gemini!HookControls(ds) \subseteq {"offCommand"}
          /\ PluginOf("gemini", ds).contracts = Gemini!Contracts(ds)
          /\ "whole" \in PluginOf("gemini", ds).files
          /\ \A a \in Agents : /\ PluginOf("gemini", ds).install[a] = Gemini!Install(ds, a)
                               /\ PluginOf("gemini", ds).uninstall[a] = Gemini!Uninstall(ds, a)
<1>1. \A ds : PluginOf("gemini", ds) = Gemini!Plugin(ds) BY DEF PluginOf
<1>2. \A ds : /\ PluginOf("gemini", ds).parses <=> Gemini!Parses(ds)
             /\ PluginOf("gemini", ds).contracts = Gemini!Contracts(ds)
             /\ "whole" \in PluginOf("gemini", ds).files
  BY <1>1 DEF Gemini!Plugin, Gemini!RuntimeFiles
<1>3. \A ds : \A a \in Agents : /\ PluginOf("gemini", ds).install[a] = Gemini!Install(ds, a)
                               /\ PluginOf("gemini", ds).uninstall[a] = Gemini!Uninstall(ds, a)
  BY <1>1 DEF Gemini!Plugin
<1>4. \A ds : PluginOf("gemini", ds).refused <=> Gemini!Refused(ds) BY <1>1 DEF Gemini!Plugin
<1>5. \A ds : PluginOf("gemini", ds).enabled <=> Gemini!HookControls(ds) \subseteq {"offCommand"}
  <2> TAKE ds
  <2> DEFINE on == Gemini!HookControls(ds) \subseteq {"offCommand"}
  <2>1. Gemini!Plugin(ds).enabled = on /\ on \in BOOLEAN BY DEF Gemini!Plugin, Gemini!Enabled
  <2> HIDE DEF on
  <2>2. PluginOf("gemini", ds).enabled <=> on BY <1>1, <2>1
  <2> QED BY <2>2 DEF on
<1> QED BY <1>2, <1>3, <1>4, <1>5

(* The plugin's removal and addition are those of its way.                 *)
LEMMA GeminiLists ==
  ASSUME NEW H, IsHooks(H, GeminiWay)
  PROVE  /\ \A ids : Purged(GeminiRemoval(H, ids), H, Pair, ids, GeminiWay)
         /\ \A a : GroupAddition(GeminiRemoval(H, Agents), Pair, a) = Renewed(H, Pair, a, GeminiWay)
<1> DEFINE w == GeminiWay
<1>1. IsWay(w) /\ Kind(w) = Grouped /\ w.grouped /\ w.hit = TRUE /\ w.forms = Three
      /\ w.shapes = Shapes /\ w.drop = {"exact"}
  BY GeminiFits DEF Fits, Elements
<1> HIDE DEF w
<1>2. Pair \in SUBSET AllEvents BY DEF Pair, AllEvents
<1>3. \A ids : Purged(HitsRemoval(H, Pair, ids, w.forms, w.drop), H, Pair, ids, w)
  BY <1>1, <1>2, HitsPurged DEF w
<1>4. \A ids : Purged(GeminiRemoval(H, ids), H, Pair, ids, w) BY <1>1, <1>3 DEF GeminiRemoval
<1>5. \A a : GroupAddition(GeminiRemoval(H, Agents), Pair, a) = Renewed(H, Pair, a, w)
  BY <1>1, <1>2, <1>4, GroupRenewed DEF w
<1> QED BY <1>4, <1>5 DEF w

(* Its commands have the form of an installation and of a removal.         *)
LEMMA GeminiPerforms == Performs("gemini", GeminiWay)
<1> SUFFICES ASSUME NEW ds, WellFormed("gemini", ds), NEW a \in Agents, Gemini!Parses(ds)
             PROVE  /\ InstallForm("gemini", ds, Gemini!Install(ds, a), a, GeminiWay)
                    /\ UninstallForm("gemini", ds, Gemini!Uninstall(ds, a), a)
  BY GeminiFields DEF Performs
<1> DEFINE old == ds["user"]
           H == OrNew(old).hooks
           r == OrNew(old).root
           s == MarkedRoot(old)
<1>1. IsHooks(H, GeminiWay) /\ r \in SUBSET Fields
      /\ (old = NoFile => r = {} /\ H = <<>>)
      /\ (old # NoFile => OrNew(old) = old)
  BY GeminiFits, OldFile DEF Single
<1>2. s \in SUBSET Fields /\ r \subseteq s /\ s \subseteq r \cup {"marker"}
  <2> HIDE DEF old
  <2> QED BY <1>1 DEF Fields, MarkedRoot
<1>3. DOMAIN H # {} => "hooks" \in r BY OldHeld, GeminiFits DEF Held, Single
<1> HIDE DEF H, old, r, s
<1>4. InstallForm("gemini", ds, Gemini!Install(ds, a), a, GeminiWay)
  <2> DEFINE N == Renewed(H, Pair, a, GeminiWay)
             q == s \cup {"hooks"}
             d == GeminiSet(old, a)
  <2>1. d = Document(q, N) BY <1>1, GeminiLists DEF GeminiSet, s, H
  <2>2. d.root = q /\ d.hooks = N BY <2>1 DEF Document
  <2>3. q \in SUBSET Fields /\ r \ Plain \subseteq q BY <1>2 DEF Fields
  <2>4. Contained("gemini", "user", d) BY <2>2, HeldContained DEF Held
  <2> HIDE DEF d, q
  <2>5. Rewrites("gemini", "user", old, d, a, GeminiWay)
    <3>1. d = Document(d.root, Renewed(OrNew(old).hooks, Events("gemini"), a, GeminiWay))
      BY <2>1, <2>2, GeminiFits DEF H
    <3> QED BY <2>2, <2>3, <2>4, <3>1 DEF Rewrites, r
  <2>6. Replaces("gemini", ds, Gemini!Install(ds, a), "user", d) BY GeminiOps DEF d, old
  <2> QED BY <2>5, <2>6, GeminiFits, SingleInstall DEF old
<1>5. UninstallForm("gemini", ds, Gemini!Uninstall(ds, a), a)
  <2> DEFINE N == GeminiRemoval(H, {a})
             q == GeminiLess(old, N)
             d == GeminiLeft(old, N)
  <2>1. Purged(N, H, Events("gemini"), {a}, GeminiWay) BY <1>1, GeminiLists, GeminiFits
  <2>2. DOMAIN N \subseteq DOMAIN H BY <2>1 DEF Purged
  <2>3. q = IF DOMAIN N = {} THEN s \ {"hooks"} ELSE s BY DEF GeminiLess, s
  <2>4. d = IF q = {"marker"} THEN NoFile ELSE Document(q, N) BY DEF GeminiLeft
  <2>5. Replaces("gemini", ds, Gemini!Uninstall(ds, a), "user", d) BY GeminiOps DEF old, H
  <2> HIDE DEF N, d, q
  <2>6. q \in SUBSET Fields /\ OrNew(ds["user"]).root \ Plain \subseteq q
    BY <1>2, <2>3 DEF r, old, Plain
  <2>7. \/ d = Document(q, N) /\ Contained("gemini", "user", d)
        \/ d = NoFile /\ DOMAIN N = {} /\ OrNew(ds["user"]).root \subseteq Plain
    <3>1. CASE q # {"marker"}
      <4>1. d = Document(q, N) BY <2>4, <3>1
      <4>2. d.root = q /\ d.hooks = N BY <4>1 DEF Document
      <4>3. DOMAIN N # {} => "hooks" \in q BY <1>2, <1>3, <2>2, <2>3
      <4>4. Contained("gemini", "user", d) BY <4>2, <4>3, HeldContained DEF Held
      <4> QED BY <4>1, <4>4
    <3>2. CASE q = {"marker"}
      <4>1. d = NoFile BY <2>4, <3>2
      <4>2. DOMAIN N = {} BY <1>2, <1>3, <2>2, <2>3, <3>2
      <4>3. r \subseteq {"marker", "hooks"} BY <1>2, <2>3, <3>2
      <4> QED BY <4>1, <4>2, <4>3 DEF Plain, r, old
    <3> QED BY <3>1, <3>2
  <2>8. IsWay(GeminiWay) /\ Kind(GeminiWay) = Elements("gemini") /\ "user" \in Names("gemini")
    BY GeminiFits DEF Fits, Single
  <2>9. Purged(N, OrNew(ds["user"]).hooks, Events("gemini"), {a}, GeminiWay) BY <2>1 DEF H, old
  <2>10. FileLeft("gemini", ds, "user", {a}, d, Events("gemini"), User)
    BY <2>6, <2>7, <2>8, <2>9, FileRemoval
  <2> QED BY <2>5, <2>10, GeminiFits, SingleUninstall
<1> QED BY <1>4, <1>5

(* After an installation the host reports it, and another one changes      *)
(* nothing.                                                                *)
LEMMA GeminiRepeats == Repeats("gemini", GeminiWay)
<1> SUFFICES ASSUME NEW ds, WellFormed("gemini", ds), NEW a \in Agents, Gemini!Parses(ds),
                    NEW z, z = Gemini!Install(ds, a), WellFormed("gemini", z),
                    Outcome("gemini", ds, z, a, GeminiWay)
             PROVE  /\ ~Gemini!Refused(ds) => Takes(PluginOf("gemini", z), a)
                    /\ Gemini!Install(z, a) = z
  BY GeminiFields DEF Repeats
<1> DEFINE old == ds["user"]
           H == OrNew(old).hooks
           new == z["user"]
<1>1. IsHooks(H, GeminiWay) BY GeminiFits, OldFile DEF Single
<1>2. After("gemini", old, new, a, GeminiWay)
  BY GeminiFits, NewFile DEF Single, Targets
<1>3. Replaces("gemini", ds, z, "user", GeminiSet(old, a)) BY GeminiOps
<1>4. /\ new = GeminiSet(old, a) /\ DOMAIN z = Names("gemini") /\ DOMAIN ds = Names("gemini")
      /\ \A m \in Names("gemini") : m # "user" => z[m] = ds[m]
  BY <1>3, GeminiFits DEF Replaces, Single, WellFormed
<1>5. new.root = MarkedRoot(old) \cup {"hooks"} BY <1>4 DEF GeminiSet, Document
<1> HIDE DEF H, old, new
<1>6. /\ new # NoFile /\ OrNew(new) = new /\ new = Document(new.root, new.hooks)
      /\ IsHooks(new.hooks, GeminiWay)
      /\ Renewed(new.hooks, Pair, a, GeminiWay) = new.hooks
  BY <1>2, GeminiFits DEF After
<1>7. Gemini!Parses(z)
  <2>1. "malformed" \notin new.root
    <3>1. old # NoFile => "malformed" \notin old.root
      BY <1>4, GeminiFits DEF Gemini!Parses, Gemini!ValidHooks, old, Single
    <3> QED BY <1>5, <3>1 DEF MarkedRoot, OrNew, NewDocument, Document
  <2> QED BY <1>4, <2>1 DEF Gemini!Parses, Gemini!ValidHooks, new
<1>8. Gemini!Contracts(z) = {a}
  <2>1. Gemini!Contracts(z) = OneFound(new.hooks, Pair, Newer, {"exact"})
    BY <1>6, GeminiOps DEF new
  <2>2. OnlyGroups(new.hooks, Events("gemini"), Newer, {"exact"}, a)
    <3>1. Newer \in SUBSET Three /\ "exact" \in Newer
          /\ {"exact"} \in SUBSET Shapes /\ "exact" \in {"exact"}
      BY DEF Three, Shapes, Newer
    <3> QED BY <1>2, <3>1, GeminiFits, GroupsTaken
  <2> QED BY <2>1, <2>2, GeminiFits DEF OnlyGroups
<1>9. Gemini!Install(z, a) = z
  <2>1. Replaces("gemini", z, Gemini!Install(z, a), "user", GeminiSet(new, a)) BY GeminiOps DEF new
  <2>2. GeminiSet(new, a) = new
    <3>1. MarkedRoot(new) \cup {"hooks"} = new.root BY <1>5, <1>6 DEF MarkedRoot
    <3>2. GeminiSet(new, a) = Document(MarkedRoot(new) \cup {"hooks"},
                                   GroupAddition(GeminiRemoval(new.hooks, Agents), Pair, a))
      BY <1>6 DEF GeminiSet
    <3>3. GroupAddition(GeminiRemoval(new.hooks, Agents), Pair, a) = new.hooks
      BY <1>6, GeminiLists
    <3> QED BY <1>6, <3>1, <3>2, <3>3
  <2>3. z = [m \in Names("gemini") |-> z[m]] BY DEF WellFormed
  <2> QED BY <2>1, <2>2, <2>3 DEF Replaces, new
<1>10. ~Gemini!Refused(ds) => Gemini!HookControls(z) \subseteq {"offCommand"}
  <2>1. Gemini!Settings(z["user"]).root = new.root BY <1>6 DEF Gemini!Settings, new
  <2>2. Gemini!Settings(ds["user"]).root = MarkedRoot(old)
    BY DEF Gemini!Settings, Gemini!NewSettings, Gemini!Document, MarkedRoot, old
  <2> QED BY <1>5, <2>1, <2>2 DEF Gemini!Refused, Gemini!HookControls
<1> QED BY <1>7, <1>8, <1>9, <1>10, GeminiFields DEF Takes

(* Gemini: every installation takes and is steady, every removal clean.  *)
LEMMA GeminiSound == Sound("gemini")
<1>1. Looks("gemini", GeminiWay) BY DEF Looks, Recognised, GeminiWay, GroupWay, Three, Shapes
<1>2. Clears("gemini") BY NothingElse
<1> QED BY <1>1, <1>2, GeminiFits, GeminiPerforms, GeminiRepeats, HostSound

-----------------------------------------------------------------------------
(* Qwen.                                                                   *)
QwenRemoval(H, ids) == HitsRemoval(H, Triple, ids, Three, {"exact", "star"})

QwenLess(doc, N) == IF DOMAIN N = {} THEN MarkedRoot(doc) \ {"hooks"} ELSE MarkedRoot(doc)

QwenLeft(doc, N) ==
  IF QwenLess(doc, N) = {"marker"} THEN NoFile ELSE Document(QwenLess(doc, N), N)

QwenSet(doc, a) ==
  Document(MarkedRoot(doc) \cup {"hooks"}, GroupAddition(QwenRemoval(OrNew(doc).hooks, Agents), Triple, a))

(* What is left of a document.                                             *)
LEMMA QwenRemove ==
  ASSUME NEW doc, NEW ids
  PROVE  Qwen!RemoveManagedEntries(doc, ids) =
           LET N == QwenRemoval(doc.hooks, ids) IN Document(IF DOMAIN N = {} THEN doc.root \ {"hooks"} ELSE doc.root, N)
<1> DEFINE H == doc.hooks
<1>1. \A gs, e : Qwen!Removals(gs, e, ids) = HitRemoval(gs, e, ids, Three, {"exact", "star"})
  <2> SUFFICES ASSUME NEW gs, NEW e
               PROVE  Qwen!Removals(gs, e, ids) = HitRemoval(gs, e, ids, Three, {"exact", "star"})
    OBVIOUS
  <2> DEFINE rest == Emptied(gs, e, ids, Three)
  <2>1. \A g : Qwen!ManagedGroup(g) <=> g.shape \in {"exact", "star"} BY DEF Qwen!ManagedGroup
  <2>2. Qwen!Removals(gs, e, ids) =
          Pick(rest, {i \in DOMAIN gs : ~(/\ rest[i].hooks = <<>>
                                          /\ gs[i].hooks # <<>>
                                          /\ Qwen!ManagedGroup(gs[i]))})
    BY DEF Qwen!Removals, Qwen!StripHit, Qwen!Without, Qwen!Pick, Pick,
      Qwen!Kept, Kept, Qwen!Managed, Qwen!Refers, Refers, Qwen!ScriptOf, ScriptOf,
      Emptied, Unmatched, Three
  <2> HIDE DEF rest
  <2> QED BY <2>1, <2>2 DEF HitRemoval, rest
<1> DEFINE hit == Hits(H, Triple, ids, Three, {"exact", "star"})
<1>2. {e \in Qwen!Events \cap DOMAIN H : Qwen!Removals(H[e], e, ids) # H[e]} = hit
  BY <1>1 DEF Hits, Qwen!Events, Triple
<1> DEFINE N == Qwen!PutOrDrop(H, [e \in hit |-> Qwen!Removals(H[e], e, ids)])
<1>3. Qwen!RemoveManagedEntries(doc, ids) = Document(IF DOMAIN N = {} THEN doc.root \ {"hooks"} ELSE doc.root, N)
  BY <1>2 DEF Qwen!RemoveManagedEntries, Qwen!Document, Document
<1>4. N = QwenRemoval(H, ids)
  <2> HIDE DEF hit, H
  <2> QED BY <1>1
    DEF QwenRemoval, HitsRemoval, hit, Qwen!PutOrDrop, PutOrDrop, Qwen!Drop, Drop, Qwen!Over, Over
<1> HIDE DEF N, hit
<1> QED BY <1>3, <1>4 DEF H

(* The operators of the plugin, in the terms used here.                    *)
LEMMA QwenOps ==
  ASSUME NEW ds, WellFormed("qwen", ds), NEW a
  PROVE  /\ Replaces("qwen", ds, Qwen!Install(ds, a), "user", QwenSet(ds["user"], a))
         /\ Replaces("qwen", ds, Qwen!Uninstall(ds, a), "user",
                     QwenLeft(ds["user"], QwenRemoval(OrNew(ds["user"]).hooks, {a})))
         /\ Qwen!Contracts(ds) = OneFound(OrNew(ds["user"]).hooks, Triple, Newer, {"exact"})
<1> DEFINE old == ds["user"]
           H == OrNew(old).hooks
           S == Qwen!Settings(old)
<1>1. S.hooks = H /\ S.root = MarkedRoot(old)
  BY DEF Qwen!Settings, OrNew, NewDocument, Document, Qwen!NewDocument, Qwen!Document, Qwen!NewSettings, MarkedRoot
<1>2. Qwen!Install(ds, a) = [ds EXCEPT !["user"] = Qwen!AppendGroups(Qwen!RemoveManagedEntries(S, Agents), a)]
  BY DEF Qwen!Install
<1>3. Qwen!Uninstall(ds, a) = [ds EXCEPT !["user"] = LET doc == Qwen!RemoveManagedEntries(S, {a}) IN IF doc.root = {"marker"} THEN NoFile ELSE doc]
  BY DEF Qwen!Uninstall
<1> HIDE DEF S, H, old
<1> DEFINE rest(ids) == Qwen!RemoveManagedEntries(S, ids)
<1>4. \A ids : rest(ids) = Document(QwenLess(old, QwenRemoval(H, ids)), QwenRemoval(H, ids))
  <2> TAKE ids
  <2>1. rest(ids) = LET N == QwenRemoval(S.hooks, ids) IN Document(IF DOMAIN N = {} THEN S.root \ {"hooks"} ELSE S.root, N)
    BY QwenRemove
  <2> QED BY <1>1, <2>1 DEF QwenLess
<1>5. Qwen!AppendGroups(rest(Agents), a) = QwenSet(old, a)
  <2> DEFINE M == QwenRemoval(H, Agents)
             q == QwenLess(old, M)
  <2>1. rest(Agents) = Document(q, M) BY <1>4
  <2>2. q \cup {"hooks"} = MarkedRoot(old) \cup {"hooks"} BY DEF QwenLess
  <2> HIDE DEF M, q, rest
  <2>3. rest(Agents).root = q /\ rest(Agents).hooks = M BY <2>1 DEF Document
  <2>4. Qwen!AppendGroups(rest(Agents), a) = Document(q \cup {"hooks"}, GroupAddition(M, Triple, a))
    BY <2>3 DEF Qwen!AppendGroups, Qwen!Document, Document, Qwen!Append1, GroupAddition, Qwen!Over, Over,
      Qwen!At, At, Qwen!Group, Group, Qwen!Handler, Handler, Qwen!ScriptOf, ScriptOf, Qwen!Events, Triple
  <2> QED BY <2>2, <2>4 DEF QwenSet, M, H
<1>6. (IF rest({a}).root = {"marker"} THEN NoFile ELSE rest({a})) = QwenLeft(old, QwenRemoval(H, {a}))
  <2> DEFINE M == QwenRemoval(H, {a})
             q == QwenLess(old, M)
  <2>1. rest({a}) = Document(q, M) BY <1>4
  <2> HIDE DEF M, q, rest
  <2>2. rest({a}).root = q BY <2>1 DEF Document
  <2> QED BY <2>1, <2>2 DEF QwenLeft, M, q
<1>7. \A c, d : c = [ds EXCEPT !["user"] = d] => Replaces("qwen", ds, c, "user", d)
  BY DEF Replaces, WellFormed, Names
<1>8. Replaces("qwen", ds, Qwen!Install(ds, a), "user", QwenSet(old, a))
  BY <1>2, <1>5, <1>7
<1>9. Replaces("qwen", ds, Qwen!Uninstall(ds, a), "user", QwenLeft(old, QwenRemoval(H, {a})))
  BY <1>3, <1>6, <1>7
<1>10. Qwen!Contracts(ds) = OneFound(H, Triple, Newer, {"exact"})
  <2>1. \A l, e, b : Qwen!Matches(l, Qwen!CurrentGroup, LAMBDA h : Qwen!Current(h, e, {b}))
                       = Found(l, e, {b}, Newer, {"exact"})
    <3>1. \A g : Qwen!CurrentGroup(g) <=> g.shape \in {"exact"} BY DEF Qwen!CurrentGroup
    <3> QED BY <3>1 DEF Qwen!Matches, Found, Matches, Qwen!Current, Qwen!Refers,
          Refers, Qwen!ScriptOf, ScriptOf, Newer
  <2>2. \A e, b : Qwen!References(H, e, b) = Found(At(H, e), e, {b}, Newer, {"exact"})
    BY <2>1 DEF Qwen!References, Qwen!At, At
  <2>3. Qwen!Contracts(ds) = {b \in Agents : \A e \in Triple : One(Qwen!References(S.hooks, e, b))}
    BY DEF Qwen!Contracts, Qwen!Events, Triple, Qwen!One, One, S, old
  <2> QED BY <1>1, <2>2, <2>3 DEF OneFound
<1> QED BY <1>8, <1>9, <1>10 DEF old, H

QwenWay == GroupWay(Three, Shapes, {"exact", "star"}, TRUE)

(* Which files, events and elements the host has.                          *)
LEMMA QwenFits ==
  /\ Fits("qwen", QwenWay) /\ Single("qwen", "user") /\ Events("qwen") = Triple
  /\ QwenWay.grouped /\ QwenWay.hit = TRUE /\ QwenWay.forms = Three
  /\ QwenWay.shapes = Shapes /\ QwenWay.drop = {"exact", "star"}
<1>1. /\ Three \in SUBSET Forms /\ "exact" \in Three
      /\ Shapes \in SUBSET Shapes /\ "exact" \in Shapes
      /\ {"exact", "star"} \in SUBSET Shapes /\ "exact" \in {"exact", "star"} /\ TRUE \in BOOLEAN
  BY DEF Three, Forms, Shapes
<1>2. IsWay(QwenWay) /\ Kind(QwenWay) = Grouped BY <1>1, GroupIsWay, ZenonT(60) DEF QwenWay
<1>3. /\ QwenWay.grouped /\ QwenWay.hit = TRUE /\ QwenWay.forms = Three
      /\ QwenWay.shapes = Shapes /\ QwenWay.drop = {"exact", "star"}
  BY <1>2 DEF QwenWay, GroupWay
<1>4. Elements("qwen") = Grouped BY DEF Elements
<1>5. Events("qwen") = Triple BY DEF Events, Triple
<1>6. Events("qwen") \in SUBSET AllEvents /\ Events("qwen") # {} BY <1>5 DEF Triple, AllEvents
<1>7. Single("qwen", "user") BY DEF Single, Names, Written
<1> QED BY <1>2, <1>3, <1>4, <1>5, <1>6, <1>7 DEF Fits

(* What the plugin says of a set of documents, by its operators.           *)
LEMMA QwenFields ==
  \A ds : /\ PluginOf("qwen", ds).parses <=> Qwen!Parses(ds)
          /\ PluginOf("qwen", ds).refused <=> Qwen!Refused(ds)
          /\ PluginOf("qwen", ds).enabled <=> ~Qwen!Refused(ds)
          /\ PluginOf("qwen", ds).contracts = Qwen!Contracts(ds)
          /\ "whole" \in PluginOf("qwen", ds).files
          /\ \A a \in Agents : /\ PluginOf("qwen", ds).install[a] = Qwen!Install(ds, a)
                               /\ PluginOf("qwen", ds).uninstall[a] = Qwen!Uninstall(ds, a)
<1>1. \A ds : PluginOf("qwen", ds) = Qwen!Plugin(ds) BY DEF PluginOf
<1>2. \A ds : /\ PluginOf("qwen", ds).parses <=> Qwen!Parses(ds)
             /\ PluginOf("qwen", ds).contracts = Qwen!Contracts(ds)
             /\ "whole" \in PluginOf("qwen", ds).files
  BY <1>1 DEF Qwen!Plugin, Qwen!RuntimeFiles
<1>3. \A ds : \A a \in Agents : /\ PluginOf("qwen", ds).install[a] = Qwen!Install(ds, a)
                               /\ PluginOf("qwen", ds).uninstall[a] = Qwen!Uninstall(ds, a)
  BY <1>1 DEF Qwen!Plugin
<1>4. \A ds : PluginOf("qwen", ds).refused <=> Qwen!Refused(ds) BY <1>1 DEF Qwen!Plugin
<1>5. \A ds : PluginOf("qwen", ds).enabled <=> ~Qwen!Refused(ds)
  <2> TAKE ds
  <2> DEFINE on == ~Qwen!Refused(ds)
  <2>1. Qwen!Plugin(ds).enabled = on /\ on \in BOOLEAN BY DEF Qwen!Plugin
  <2> HIDE DEF on
  <2>2. PluginOf("qwen", ds).enabled <=> on BY <1>1, <2>1
  <2> QED BY <2>2 DEF on
<1> QED BY <1>2, <1>3, <1>4, <1>5

(* The plugin's removal and addition are those of its way.                 *)
LEMMA QwenLists ==
  ASSUME NEW H, IsHooks(H, QwenWay)
  PROVE  /\ \A ids : Purged(QwenRemoval(H, ids), H, Triple, ids, QwenWay)
         /\ \A a : GroupAddition(QwenRemoval(H, Agents), Triple, a) = Renewed(H, Triple, a, QwenWay)
<1> DEFINE w == QwenWay
<1>1. IsWay(w) /\ Kind(w) = Grouped /\ w.grouped /\ w.hit = TRUE /\ w.forms = Three
      /\ w.shapes = Shapes /\ w.drop = {"exact", "star"}
  BY QwenFits DEF Fits, Elements
<1> HIDE DEF w
<1>2. Triple \in SUBSET AllEvents BY DEF Triple, AllEvents
<1>3. \A ids : Purged(HitsRemoval(H, Triple, ids, w.forms, w.drop), H, Triple, ids, w)
  BY <1>1, <1>2, HitsPurged DEF w
<1>4. \A ids : Purged(QwenRemoval(H, ids), H, Triple, ids, w) BY <1>1, <1>3 DEF QwenRemoval
<1>5. \A a : GroupAddition(QwenRemoval(H, Agents), Triple, a) = Renewed(H, Triple, a, w)
  BY <1>1, <1>2, <1>4, GroupRenewed DEF w
<1> QED BY <1>4, <1>5 DEF w

(* Its commands have the form of an installation and of a removal.         *)
LEMMA QwenPerforms == Performs("qwen", QwenWay)
<1> SUFFICES ASSUME NEW ds, WellFormed("qwen", ds), NEW a \in Agents, Qwen!Parses(ds)
             PROVE  /\ InstallForm("qwen", ds, Qwen!Install(ds, a), a, QwenWay)
                    /\ UninstallForm("qwen", ds, Qwen!Uninstall(ds, a), a)
  BY QwenFields DEF Performs
<1> DEFINE old == ds["user"]
           H == OrNew(old).hooks
           r == OrNew(old).root
           s == MarkedRoot(old)
<1>1. IsHooks(H, QwenWay) /\ r \in SUBSET Fields
      /\ (old = NoFile => r = {} /\ H = <<>>)
      /\ (old # NoFile => OrNew(old) = old)
  BY QwenFits, OldFile DEF Single
<1>2. s \in SUBSET Fields /\ r \subseteq s /\ s \subseteq r \cup {"marker"}
  <2> HIDE DEF old
  <2> QED BY <1>1 DEF Fields, MarkedRoot
<1>3. DOMAIN H # {} => "hooks" \in r BY OldHeld, QwenFits DEF Held, Single
<1> HIDE DEF H, old, r, s
<1>4. InstallForm("qwen", ds, Qwen!Install(ds, a), a, QwenWay)
  <2> DEFINE N == Renewed(H, Triple, a, QwenWay)
             q == s \cup {"hooks"}
             d == QwenSet(old, a)
  <2>1. d = Document(q, N) BY <1>1, QwenLists DEF QwenSet, s, H
  <2>2. d.root = q /\ d.hooks = N BY <2>1 DEF Document
  <2>3. q \in SUBSET Fields /\ r \ Plain \subseteq q BY <1>2 DEF Fields
  <2>4. Contained("qwen", "user", d) BY <2>2, HeldContained DEF Held
  <2> HIDE DEF d, q
  <2>5. Rewrites("qwen", "user", old, d, a, QwenWay)
    <3>1. d = Document(d.root, Renewed(OrNew(old).hooks, Events("qwen"), a, QwenWay))
      BY <2>1, <2>2, QwenFits DEF H
    <3> QED BY <2>2, <2>3, <2>4, <3>1 DEF Rewrites, r
  <2>6. Replaces("qwen", ds, Qwen!Install(ds, a), "user", d) BY QwenOps DEF d, old
  <2> QED BY <2>5, <2>6, QwenFits, SingleInstall DEF old
<1>5. UninstallForm("qwen", ds, Qwen!Uninstall(ds, a), a)
  <2> DEFINE N == QwenRemoval(H, {a})
             q == QwenLess(old, N)
             d == QwenLeft(old, N)
  <2>1. Purged(N, H, Events("qwen"), {a}, QwenWay) BY <1>1, QwenLists, QwenFits
  <2>2. DOMAIN N \subseteq DOMAIN H BY <2>1 DEF Purged
  <2>3. q = IF DOMAIN N = {} THEN s \ {"hooks"} ELSE s BY DEF QwenLess, s
  <2>4. d = IF q = {"marker"} THEN NoFile ELSE Document(q, N) BY DEF QwenLeft
  <2>5. Replaces("qwen", ds, Qwen!Uninstall(ds, a), "user", d) BY QwenOps DEF old, H
  <2> HIDE DEF N, d, q
  <2>6. q \in SUBSET Fields /\ OrNew(ds["user"]).root \ Plain \subseteq q
    BY <1>2, <2>3 DEF r, old, Plain
  <2>7. \/ d = Document(q, N) /\ Contained("qwen", "user", d)
        \/ d = NoFile /\ DOMAIN N = {} /\ OrNew(ds["user"]).root \subseteq Plain
    <3>1. CASE q # {"marker"}
      <4>1. d = Document(q, N) BY <2>4, <3>1
      <4>2. d.root = q /\ d.hooks = N BY <4>1 DEF Document
      <4>3. DOMAIN N # {} => "hooks" \in q BY <1>2, <1>3, <2>2, <2>3
      <4>4. Contained("qwen", "user", d) BY <4>2, <4>3, HeldContained DEF Held
      <4> QED BY <4>1, <4>4
    <3>2. CASE q = {"marker"}
      <4>1. d = NoFile BY <2>4, <3>2
      <4>2. DOMAIN N = {} BY <1>2, <1>3, <2>2, <2>3, <3>2
      <4>3. r \subseteq {"marker", "hooks"} BY <1>2, <2>3, <3>2
      <4> QED BY <4>1, <4>2, <4>3 DEF Plain, r, old
    <3> QED BY <3>1, <3>2
  <2>8. IsWay(QwenWay) /\ Kind(QwenWay) = Elements("qwen") /\ "user" \in Names("qwen")
    BY QwenFits DEF Fits, Single
  <2>9. Purged(N, OrNew(ds["user"]).hooks, Events("qwen"), {a}, QwenWay) BY <2>1 DEF H, old
  <2>10. FileLeft("qwen", ds, "user", {a}, d, Events("qwen"), User)
    BY <2>6, <2>7, <2>8, <2>9, FileRemoval
  <2> QED BY <2>5, <2>10, QwenFits, SingleUninstall
<1> QED BY <1>4, <1>5

(* After an installation the host reports it, and another one changes      *)
(* nothing.                                                                *)
LEMMA QwenRepeats == Repeats("qwen", QwenWay)
<1> SUFFICES ASSUME NEW ds, WellFormed("qwen", ds), NEW a \in Agents, Qwen!Parses(ds),
                    NEW z, z = Qwen!Install(ds, a), WellFormed("qwen", z),
                    Outcome("qwen", ds, z, a, QwenWay)
             PROVE  /\ ~Qwen!Refused(ds) => Takes(PluginOf("qwen", z), a)
                    /\ Qwen!Install(z, a) = z
  BY QwenFields DEF Repeats
<1> DEFINE old == ds["user"]
           H == OrNew(old).hooks
           new == z["user"]
<1>1. IsHooks(H, QwenWay) BY QwenFits, OldFile DEF Single
<1>2. After("qwen", old, new, a, QwenWay)
  BY QwenFits, NewFile DEF Single, Targets
<1>3. Replaces("qwen", ds, z, "user", QwenSet(old, a)) BY QwenOps
<1>4. /\ new = QwenSet(old, a) /\ DOMAIN z = Names("qwen") /\ DOMAIN ds = Names("qwen")
      /\ \A m \in Names("qwen") : m # "user" => z[m] = ds[m]
  BY <1>3, QwenFits DEF Replaces, Single, WellFormed
<1>5. new.root = MarkedRoot(old) \cup {"hooks"} BY <1>4 DEF QwenSet, Document
<1> HIDE DEF H, old, new
<1>6. /\ new # NoFile /\ OrNew(new) = new /\ new = Document(new.root, new.hooks)
      /\ IsHooks(new.hooks, QwenWay)
      /\ Renewed(new.hooks, Triple, a, QwenWay) = new.hooks
  BY <1>2, QwenFits DEF After
<1>7. Qwen!Parses(z)
  <2>1. "malformed" \notin new.root
    <3>1. old # NoFile => "malformed" \notin old.root
      BY <1>4, QwenFits DEF Qwen!Parses, Qwen!ValidHooks, old, Single
    <3> QED BY <1>5, <3>1 DEF MarkedRoot, OrNew, NewDocument, Document
  <2> QED BY <1>4, <2>1 DEF Qwen!Parses, Qwen!ValidHooks, new
<1>8. Qwen!Contracts(z) = {a}
  <2>1. Qwen!Contracts(z) = OneFound(new.hooks, Triple, Newer, {"exact"})
    BY <1>6, QwenOps DEF new
  <2>2. OnlyGroups(new.hooks, Events("qwen"), Newer, {"exact"}, a)
    <3>1. Newer \in SUBSET Three /\ "exact" \in Newer
          /\ {"exact"} \in SUBSET Shapes /\ "exact" \in {"exact"}
      BY DEF Three, Shapes, Newer
    <3> QED BY <1>2, <3>1, QwenFits, GroupsTaken
  <2> QED BY <2>1, <2>2, QwenFits DEF OnlyGroups
<1>9. Qwen!Install(z, a) = z
  <2>1. Replaces("qwen", z, Qwen!Install(z, a), "user", QwenSet(new, a)) BY QwenOps DEF new
  <2>2. QwenSet(new, a) = new
    <3>1. MarkedRoot(new) \cup {"hooks"} = new.root BY <1>5, <1>6 DEF MarkedRoot
    <3>2. QwenSet(new, a) = Document(MarkedRoot(new) \cup {"hooks"},
                                   GroupAddition(QwenRemoval(new.hooks, Agents), Triple, a))
      BY <1>6 DEF QwenSet
    <3>3. GroupAddition(QwenRemoval(new.hooks, Agents), Triple, a) = new.hooks
      BY <1>6, QwenLists
    <3> QED BY <1>6, <3>1, <3>2, <3>3
  <2>3. z = [m \in Names("qwen") |-> z[m]] BY DEF WellFormed
  <2> QED BY <2>1, <2>2, <2>3 DEF Replaces, new
<1>10. Qwen!Refused(z) <=> Qwen!Refused(ds)
  <2>1. ASSUME NEW m \in Names("qwen"),
               NEW yes \in {"off", "trustOn", "trust"}, NEW no \in {"on", "trustOff", "distrust"}
        PROVE  Qwen!Says(z, m, yes, no) = Qwen!Says(ds, m, yes, no)
    <3>1. CASE m # "user"
      <4>1. z[m] = ds[m] BY <1>4, <3>1
      <4> QED BY <4>1 DEF Qwen!Says
    <3>2. CASE m = "user"
      <4>1. Qwen!Settings(z[m]).root = new.root BY <1>6, <3>2 DEF Qwen!Settings, new
      <4>2. Qwen!Settings(ds[m]).root = MarkedRoot(old)
        BY <3>2 DEF Qwen!Settings, Qwen!NewSettings, Qwen!Document, MarkedRoot, old
      <4>3. yes \in new.root <=> yes \in MarkedRoot(old) BY <1>5
      <4>4. no \in new.root <=> no \in MarkedRoot(old) BY <1>5
      <4> QED BY <4>1, <4>2, <4>3, <4>4 DEF Qwen!Says
    <3> QED BY <3>1, <3>2
  <2>2. Qwen!WorkspaceTrust(z) = Qwen!WorkspaceTrust(ds)
    <3>1. {"user", "system", "trusted"} \subseteq Names("qwen") BY DEF Names
    <3>2. /\ Qwen!Says(z, "user", "trustOn", "trustOff") = Qwen!Says(ds, "user", "trustOn", "trustOff")
          /\ Qwen!Says(z, "system", "trustOn", "trustOff") = Qwen!Says(ds, "system", "trustOn", "trustOff")
          /\ Qwen!Says(z, "trusted", "trust", "distrust") = Qwen!Says(ds, "trusted", "trust", "distrust")
      BY <2>1, <3>1
    <3> QED BY <3>2 DEF Qwen!WorkspaceTrust
  <2> DEFINE layers == <<"defaults", "user">>
                         \o (IF Qwen!WorkspaceTrust(ds) THEN <<"workspace">> ELSE <<>>) \o <<"system">>
  <2>3. layers \in Seq(Names("qwen"))
    <3> DEFINE mid == IF Qwen!WorkspaceTrust(ds) THEN <<"workspace">> ELSE <<>>
           S == Names("qwen")
    <3>1. "defaults" \in S /\ "user" \in S /\ "workspace" \in S /\ "system" \in S
      BY DEF Names
    <3> HIDE DEF S
    <3>2. <<"defaults", "user">> \in Seq(S) BY <3>1
    <3>3. <<"workspace">> \in Seq(S) BY <3>1
    <3>4. <<"system">> \in Seq(S) BY <3>1
    <3>5. mid \in Seq(S) BY <3>3
    <3> HIDE DEF mid
    <3>6. <<"defaults", "user">> \o mid \o <<"system">> \in Seq(S) BY <3>2, <3>4, <3>5
    <3> QED BY <3>6 DEF mid, S
  <2> DEFINE said(x) == Qwen!Without([i \in DOMAIN layers |-> Qwen!Says(x, layers[i], "off", "on")],
                                     LAMBDA s : s = "nothing")
  <2>4. Qwen!EffectiveDisable(z) = (said(z) # <<>> /\ said(z)[Len(said(z))] = "yes")
    BY <2>2 DEF Qwen!EffectiveDisable
  <2>5. Qwen!EffectiveDisable(ds) = (said(ds) # <<>> /\ said(ds)[Len(said(ds))] = "yes")
    BY DEF Qwen!EffectiveDisable
  <2> HIDE DEF layers
  <2>6. [i \in DOMAIN layers |-> Qwen!Says(z, layers[i], "off", "on")]
          = [i \in DOMAIN layers |-> Qwen!Says(ds, layers[i], "off", "on")]
    <3>1. \A i \in DOMAIN layers : layers[i] \in Names("qwen") BY <2>3
    <3>2. \A i \in DOMAIN layers : Qwen!Says(z, layers[i], "off", "on") = Qwen!Says(ds, layers[i], "off", "on")
      BY <2>1, <3>1
    <3> QED BY <3>2
  <2>7. said(z) = said(ds) BY <2>6
  <2> HIDE DEF said
  <2> QED BY <2>4, <2>5, <2>7 DEF Qwen!Refused
<1> QED BY <1>7, <1>8, <1>9, <1>10, QwenFields DEF Takes

(* Qwen: every installation takes and is steady, every removal clean.  *)
LEMMA QwenSound == Sound("qwen")
<1>1. Looks("qwen", QwenWay) BY DEF Looks, Recognised, QwenWay, GroupWay, Three, Shapes
<1>2. Clears("qwen") BY NothingElse
<1> QED BY <1>1, <1>2, QwenFits, QwenPerforms, QwenRepeats, HostSound

-----------------------------------------------------------------------------
(* Letta Code.                                                             *)
LettaRemoval(H, ids) == HitsRemoval(H, Triple, ids, Three, {"exact"})

LettaLess(doc, N) == IF DOMAIN N = {} /\ OrNew(doc).root \cap {"off", "on"} = {} THEN OrNew(doc).root \ {"hooks"} ELSE OrNew(doc).root

LettaLeft(doc, N) ==
  IF LettaLess(doc, N) = {} THEN NoFile ELSE Document(LettaLess(doc, N), N)

LettaSet(doc, a) ==
  Document(OrNew(doc).root \cup {"hooks"}, GroupAddition(LettaRemoval(OrNew(doc).hooks, Agents), Triple, a))

(* What is left of a document.                                             *)
LEMMA LettaRemove ==
  ASSUME NEW doc, NEW ids
  PROVE  Letta!RemoveManagedEntries(doc, ids) =
           LET N == LettaRemoval(doc.hooks, ids) IN Document(IF DOMAIN N = {} /\ doc.root \cap {"off", "on"} = {} THEN doc.root \ {"hooks"} ELSE doc.root, N)
<1> DEFINE H == doc.hooks
<1>1. \A gs, e : Letta!Removals(gs, e, ids) = HitRemoval(gs, e, ids, Three, {"exact"})
  <2> SUFFICES ASSUME NEW gs, NEW e
               PROVE  Letta!Removals(gs, e, ids) = HitRemoval(gs, e, ids, Three, {"exact"})
    OBVIOUS
  <2> DEFINE rest == Emptied(gs, e, ids, Three)
  <2>1. \A g : Letta!ExactGroup(g) <=> g.shape \in {"exact"} BY DEF Letta!ExactGroup
  <2>2. Letta!Removals(gs, e, ids) =
          Pick(rest, {i \in DOMAIN gs : ~(/\ rest[i].hooks = <<>>
                                          /\ gs[i].hooks # <<>>
                                          /\ Letta!ExactGroup(gs[i]))})
    BY DEF Letta!Removals, Letta!StripHit, Letta!Without, Letta!Pick, Pick,
      Letta!Kept, Kept, Letta!Managed, Letta!Refers, Refers, Letta!ScriptOf, ScriptOf,
      Emptied, Unmatched, Three
  <2> HIDE DEF rest
  <2> QED BY <2>1, <2>2 DEF HitRemoval, rest
<1> DEFINE hit == Hits(H, Triple, ids, Three, {"exact"})
<1>2. {e \in Letta!Events \cap DOMAIN H : Letta!Removals(H[e], e, ids) # H[e]} = hit
  BY <1>1 DEF Hits, Letta!Events, Triple
<1> DEFINE N == Letta!PutOrDrop(H, [e \in hit |-> Letta!Removals(H[e], e, ids)])
<1>3. Letta!RemoveManagedEntries(doc, ids) = Document(IF DOMAIN N = {} /\ doc.root \cap {"off", "on"} = {} THEN doc.root \ {"hooks"} ELSE doc.root, N)
  BY <1>2 DEF Letta!RemoveManagedEntries, Letta!Document, Document
<1>4. N = LettaRemoval(H, ids)
  <2> HIDE DEF hit, H
  <2> QED BY <1>1
    DEF LettaRemoval, HitsRemoval, hit, Letta!PutOrDrop, PutOrDrop, Letta!Drop, Drop, Letta!Over, Over
<1> HIDE DEF N, hit
<1> QED BY <1>3, <1>4 DEF H

(* The operators of the plugin, in the terms used here.                    *)
LEMMA LettaOps ==
  ASSUME NEW ds, WellFormed("letta", ds), NEW a
  PROVE  /\ Replaces("letta", ds, Letta!Install(ds, a), "global", LettaSet(ds["global"], a))
         /\ Replaces("letta", ds, Letta!Uninstall(ds, a), "global",
                     LettaLeft(ds["global"], LettaRemoval(OrNew(ds["global"]).hooks, {a})))
         /\ Letta!Contracts(ds) = OneFound(OrNew(ds["global"]).hooks, Triple, {"exact"}, {"exact"})
<1> DEFINE old == ds["global"]
           H == OrNew(old).hooks
           S == Letta!OrNew(old)
<1>1. S.hooks = H /\ S.root = OrNew(old).root
  BY DEF Letta!OrNew, OrNew, NewDocument, Document, Letta!NewDocument, Letta!Document
<1>2. Letta!Install(ds, a) = [ds EXCEPT !["global"] = Letta!AppendGroups(Letta!RemoveManagedEntries(S, Agents), a)]
  BY DEF Letta!Install
<1>3. Letta!Uninstall(ds, a) = [ds EXCEPT !["global"] = LET doc == Letta!RemoveManagedEntries(S, {a}) IN IF doc.root = {} THEN NoFile ELSE doc]
  BY DEF Letta!Uninstall
<1> HIDE DEF S, H, old
<1> DEFINE rest(ids) == Letta!RemoveManagedEntries(S, ids)
<1>4. \A ids : rest(ids) = Document(LettaLess(old, LettaRemoval(H, ids)), LettaRemoval(H, ids))
  <2> TAKE ids
  <2>1. rest(ids) = LET N == LettaRemoval(S.hooks, ids) IN Document(IF DOMAIN N = {} /\ S.root \cap {"off", "on"} = {} THEN S.root \ {"hooks"} ELSE S.root, N)
    BY LettaRemove
  <2> QED BY <1>1, <2>1 DEF LettaLess
<1>5. Letta!AppendGroups(rest(Agents), a) = LettaSet(old, a)
  <2> DEFINE M == LettaRemoval(H, Agents)
             q == LettaLess(old, M)
  <2>1. rest(Agents) = Document(q, M) BY <1>4
  <2>2. q \cup {"hooks"} = OrNew(old).root \cup {"hooks"} BY DEF LettaLess
  <2> HIDE DEF M, q, rest
  <2>3. rest(Agents).root = q /\ rest(Agents).hooks = M BY <2>1 DEF Document
  <2>4. Letta!AppendGroups(rest(Agents), a) = Document(q \cup {"hooks"}, GroupAddition(M, Triple, a))
    BY <2>3 DEF Letta!AppendGroups, Letta!Document, Document, Letta!Append1, GroupAddition, Letta!Over, Over,
      Letta!At, At, Letta!Group, Group, Letta!Handler, Handler, Letta!ScriptOf, ScriptOf, Letta!Events, Triple
  <2> QED BY <2>2, <2>4 DEF LettaSet, M, H
<1>6. (IF rest({a}).root = {} THEN NoFile ELSE rest({a})) = LettaLeft(old, LettaRemoval(H, {a}))
  <2> DEFINE M == LettaRemoval(H, {a})
             q == LettaLess(old, M)
  <2>1. rest({a}) = Document(q, M) BY <1>4
  <2> HIDE DEF M, q, rest
  <2>2. rest({a}).root = q BY <2>1 DEF Document
  <2> QED BY <2>1, <2>2 DEF LettaLeft, M, q
<1>7. \A c, d : c = [ds EXCEPT !["global"] = d] => Replaces("letta", ds, c, "global", d)
  BY DEF Replaces, WellFormed, Names
<1>8. Replaces("letta", ds, Letta!Install(ds, a), "global", LettaSet(old, a))
  BY <1>2, <1>5, <1>7
<1>9. Replaces("letta", ds, Letta!Uninstall(ds, a), "global", LettaLeft(old, LettaRemoval(H, {a})))
  BY <1>3, <1>6, <1>7
<1>10. Letta!Contracts(ds) = OneFound(H, Triple, {"exact"}, {"exact"})
  <2>1. \A l, e, b : Letta!Matches(l, Letta!ExactGroup, LAMBDA h : Letta!Current(h, e, {b}))
                       = Found(l, e, {b}, {"exact"}, {"exact"})
    <3>1. \A g : Letta!ExactGroup(g) <=> g.shape \in {"exact"} BY DEF Letta!ExactGroup
    <3> QED BY <3>1 DEF Letta!Matches, Found, Matches, Letta!Current, Letta!Refers,
          Refers, Letta!ScriptOf, ScriptOf
  <2>2. \A e, b : Letta!References(H, e, b) = Found(At(H, e), e, {b}, {"exact"}, {"exact"})
    BY <2>1 DEF Letta!References, Letta!At, At
  <2>3. Letta!Contracts(ds) = {b \in Agents : \A e \in Triple : One(Letta!References(S.hooks, e, b))}
    BY DEF Letta!Contracts, Letta!Events, Triple, Letta!One, One, S, old
  <2> QED BY <1>1, <2>2, <2>3 DEF OneFound
<1> QED BY <1>8, <1>9, <1>10 DEF old, H

LettaWay == GroupWay(Three, Shapes, {"exact"}, TRUE)

(* Which files, events and elements the host has.                          *)
LEMMA LettaFits ==
  /\ Fits("letta", LettaWay) /\ Single("letta", "global") /\ Events("letta") = Triple
  /\ LettaWay.grouped /\ LettaWay.hit = TRUE /\ LettaWay.forms = Three
  /\ LettaWay.shapes = Shapes /\ LettaWay.drop = {"exact"}
<1>1. /\ Three \in SUBSET Forms /\ "exact" \in Three
      /\ Shapes \in SUBSET Shapes /\ "exact" \in Shapes
      /\ {"exact"} \in SUBSET Shapes /\ "exact" \in {"exact"} /\ TRUE \in BOOLEAN
  BY DEF Three, Forms, Shapes
<1>2. IsWay(LettaWay) /\ Kind(LettaWay) = Grouped BY <1>1, GroupIsWay DEF LettaWay
<1>3. /\ LettaWay.grouped /\ LettaWay.hit = TRUE /\ LettaWay.forms = Three
      /\ LettaWay.shapes = Shapes /\ LettaWay.drop = {"exact"}
  BY <1>2 DEF LettaWay, GroupWay
<1>4. Elements("letta") = Grouped BY DEF Elements
<1>5. Events("letta") = Triple BY DEF Events, Triple
<1>6. Events("letta") \in SUBSET AllEvents /\ Events("letta") # {} BY <1>5 DEF Triple, AllEvents
<1>7. Single("letta", "global") BY DEF Single, Names, Written
<1> QED BY <1>2, <1>3, <1>4, <1>5, <1>6, <1>7 DEF Fits

(* What the plugin says of a set of documents, by its operators.           *)
LEMMA LettaFields ==
  \A ds : /\ PluginOf("letta", ds).parses <=> Letta!Parses(ds)
          /\ PluginOf("letta", ds).refused <=> Letta!Refused(ds)
          /\ PluginOf("letta", ds).enabled <=> ~Letta!Refused(ds)
          /\ PluginOf("letta", ds).contracts = Letta!Contracts(ds)
          /\ "whole" \in PluginOf("letta", ds).files
          /\ \A a \in Agents : /\ PluginOf("letta", ds).install[a] = Letta!Install(ds, a)
                               /\ PluginOf("letta", ds).uninstall[a] = Letta!Uninstall(ds, a)
<1>1. \A ds : PluginOf("letta", ds) = Letta!Plugin(ds) BY DEF PluginOf
<1>2. \A ds : /\ PluginOf("letta", ds).parses <=> Letta!Parses(ds)
             /\ PluginOf("letta", ds).contracts = Letta!Contracts(ds)
             /\ "whole" \in PluginOf("letta", ds).files
  BY <1>1 DEF Letta!Plugin, Letta!RuntimeFiles
<1>3. \A ds : \A a \in Agents : /\ PluginOf("letta", ds).install[a] = Letta!Install(ds, a)
                               /\ PluginOf("letta", ds).uninstall[a] = Letta!Uninstall(ds, a)
  BY <1>1 DEF Letta!Plugin
<1>4. \A ds : PluginOf("letta", ds).refused <=> Letta!Refused(ds) BY <1>1 DEF Letta!Plugin
<1>5. \A ds : PluginOf("letta", ds).enabled <=> ~Letta!Refused(ds)
  <2> TAKE ds
  <2> DEFINE on == ~Letta!Refused(ds)
  <2>1. Letta!Plugin(ds).enabled = on /\ on \in BOOLEAN BY DEF Letta!Plugin
  <2> HIDE DEF on
  <2>2. PluginOf("letta", ds).enabled <=> on BY <1>1, <2>1
  <2> QED BY <2>2 DEF on
<1> QED BY <1>2, <1>3, <1>4, <1>5

(* The plugin's removal and addition are those of its way.                 *)
LEMMA LettaLists ==
  ASSUME NEW H, IsHooks(H, LettaWay)
  PROVE  /\ \A ids : Purged(LettaRemoval(H, ids), H, Triple, ids, LettaWay)
         /\ \A a : GroupAddition(LettaRemoval(H, Agents), Triple, a) = Renewed(H, Triple, a, LettaWay)
<1> DEFINE w == LettaWay
<1>1. IsWay(w) /\ Kind(w) = Grouped /\ w.grouped /\ w.hit = TRUE /\ w.forms = Three
      /\ w.shapes = Shapes /\ w.drop = {"exact"}
  BY LettaFits DEF Fits, Elements
<1> HIDE DEF w
<1>2. Triple \in SUBSET AllEvents BY DEF Triple, AllEvents
<1>3. \A ids : Purged(HitsRemoval(H, Triple, ids, w.forms, w.drop), H, Triple, ids, w)
  BY <1>1, <1>2, HitsPurged DEF w
<1>4. \A ids : Purged(LettaRemoval(H, ids), H, Triple, ids, w) BY <1>1, <1>3 DEF LettaRemoval
<1>5. \A a : GroupAddition(LettaRemoval(H, Agents), Triple, a) = Renewed(H, Triple, a, w)
  BY <1>1, <1>2, <1>4, GroupRenewed DEF w
<1> QED BY <1>4, <1>5 DEF w

(* Its commands have the form of an installation and of a removal.         *)
LEMMA LettaPerforms == Performs("letta", LettaWay)
<1> SUFFICES ASSUME NEW ds, WellFormed("letta", ds), NEW a \in Agents, Letta!Parses(ds)
             PROVE  /\ InstallForm("letta", ds, Letta!Install(ds, a), a, LettaWay)
                    /\ UninstallForm("letta", ds, Letta!Uninstall(ds, a), a)
  BY LettaFields DEF Performs
<1> DEFINE old == ds["global"]
           H == OrNew(old).hooks
           r == OrNew(old).root
           s == OrNew(old).root
<1>1. IsHooks(H, LettaWay) /\ r \in SUBSET Fields
      /\ (old = NoFile => r = {} /\ H = <<>>)
      /\ (old # NoFile => OrNew(old) = old)
  BY LettaFits, OldFile DEF Single
<1>2. s \in SUBSET Fields /\ r \subseteq s /\ s \subseteq r \cup {"marker"}
  <2> HIDE DEF old
  <2> QED BY <1>1 DEF Fields, MarkedRoot
<1>3. DOMAIN H # {} => "hooks" \in r BY OldHeld, LettaFits DEF Held, Single
<1> HIDE DEF H, old, r, s
<1>4. InstallForm("letta", ds, Letta!Install(ds, a), a, LettaWay)
  <2> DEFINE N == Renewed(H, Triple, a, LettaWay)
             q == s \cup {"hooks"}
             d == LettaSet(old, a)
  <2>1. d = Document(q, N) BY <1>1, LettaLists DEF LettaSet, s, H
  <2>2. d.root = q /\ d.hooks = N BY <2>1 DEF Document
  <2>3. q \in SUBSET Fields /\ r \ Plain \subseteq q BY <1>2 DEF Fields
  <2>4. Contained("letta", "global", d) BY <2>2, HeldContained DEF Held
  <2> HIDE DEF d, q
  <2>5. Rewrites("letta", "global", old, d, a, LettaWay)
    <3>1. d = Document(d.root, Renewed(OrNew(old).hooks, Events("letta"), a, LettaWay))
      BY <2>1, <2>2, LettaFits DEF H
    <3> QED BY <2>2, <2>3, <2>4, <3>1 DEF Rewrites, r
  <2>6. Replaces("letta", ds, Letta!Install(ds, a), "global", d) BY LettaOps DEF d, old
  <2> QED BY <2>5, <2>6, LettaFits, SingleInstall DEF old
<1>5. UninstallForm("letta", ds, Letta!Uninstall(ds, a), a)
  <2> DEFINE N == LettaRemoval(H, {a})
             q == LettaLess(old, N)
             d == LettaLeft(old, N)
  <2>1. Purged(N, H, Events("letta"), {a}, LettaWay) BY <1>1, LettaLists, LettaFits
  <2>2. DOMAIN N \subseteq DOMAIN H BY <2>1 DEF Purged
  <2>3. q = IF DOMAIN N = {} /\ s \cap {"off", "on"} = {} THEN s \ {"hooks"} ELSE s BY DEF LettaLess, s
  <2>4. d = IF q = {} THEN NoFile ELSE Document(q, N) BY DEF LettaLeft
  <2>5. Replaces("letta", ds, Letta!Uninstall(ds, a), "global", d) BY LettaOps DEF old, H
  <2> HIDE DEF N, d, q
  <2>6. q \in SUBSET Fields /\ OrNew(ds["global"]).root \ Plain \subseteq q
    BY <1>2, <2>3 DEF r, old, Plain
  <2>7. \/ d = Document(q, N) /\ Contained("letta", "global", d)
        \/ d = NoFile /\ DOMAIN N = {} /\ OrNew(ds["global"]).root \subseteq Plain
    <3>1. CASE q # {}
      <4>1. d = Document(q, N) BY <2>4, <3>1
      <4>2. d.root = q /\ d.hooks = N BY <4>1 DEF Document
      <4>3. DOMAIN N # {} => "hooks" \in q BY <1>2, <1>3, <2>2, <2>3
      <4>4. Contained("letta", "global", d) BY <4>2, <4>3, HeldContained DEF Held
      <4> QED BY <4>1, <4>4
    <3>2. CASE q = {}
      <4>1. d = NoFile BY <2>4, <3>2
      <4>2. DOMAIN N = {} BY <1>2, <1>3, <2>2, <2>3, <3>2
      <4>3. r \subseteq {"marker", "hooks"} BY <1>2, <2>3, <3>2
      <4> QED BY <4>1, <4>2, <4>3 DEF Plain, r, old
    <3> QED BY <3>1, <3>2
  <2>8. IsWay(LettaWay) /\ Kind(LettaWay) = Elements("letta") /\ "global" \in Names("letta")
    BY LettaFits DEF Fits, Single
  <2>9. Purged(N, OrNew(ds["global"]).hooks, Events("letta"), {a}, LettaWay) BY <2>1 DEF H, old
  <2>10. FileLeft("letta", ds, "global", {a}, d, Events("letta"), User)
    BY <2>6, <2>7, <2>8, <2>9, FileRemoval
  <2> QED BY <2>5, <2>10, LettaFits, SingleUninstall
<1> QED BY <1>4, <1>5

(* After an installation the host reports it, and another one changes      *)
(* nothing.                                                                *)
LEMMA LettaRepeats == Repeats("letta", LettaWay)
<1> SUFFICES ASSUME NEW ds, WellFormed("letta", ds), NEW a \in Agents, Letta!Parses(ds),
                    NEW z, z = Letta!Install(ds, a), WellFormed("letta", z),
                    Outcome("letta", ds, z, a, LettaWay)
             PROVE  /\ ~Letta!Refused(ds) => Takes(PluginOf("letta", z), a)
                    /\ Letta!Install(z, a) = z
  BY LettaFields DEF Repeats
<1> DEFINE old == ds["global"]
           H == OrNew(old).hooks
           new == z["global"]
<1>1. IsHooks(H, LettaWay) BY LettaFits, OldFile DEF Single
<1>2. After("letta", old, new, a, LettaWay)
  BY LettaFits, NewFile DEF Single, Targets
<1>3. Replaces("letta", ds, z, "global", LettaSet(old, a)) BY LettaOps
<1>4. /\ new = LettaSet(old, a) /\ DOMAIN z = Names("letta") /\ DOMAIN ds = Names("letta")
      /\ \A m \in Names("letta") : m # "global" => z[m] = ds[m]
  BY <1>3, LettaFits DEF Replaces, Single, WellFormed
<1>5. new.root = OrNew(old).root \cup {"hooks"} BY <1>4 DEF LettaSet, Document
<1> HIDE DEF H, old, new
<1>6. /\ new # NoFile /\ OrNew(new) = new /\ new = Document(new.root, new.hooks)
      /\ IsHooks(new.hooks, LettaWay)
      /\ Renewed(new.hooks, Triple, a, LettaWay) = new.hooks
  BY <1>2, LettaFits DEF After
<1>7. Letta!Parses(z)
  <2>1. "malformed" \notin new.root
    <3>1. old # NoFile => "malformed" \notin old.root
      BY <1>4, LettaFits DEF Letta!Parses, Letta!ValidHooks, old, Single
    <3> QED BY <1>5, <3>1 DEF MarkedRoot, OrNew, NewDocument, Document
  <2> QED BY <1>4, <2>1 DEF Letta!Parses, Letta!ValidHooks, new
<1>8. Letta!Contracts(z) = {a}
  <2>1. Letta!Contracts(z) = OneFound(new.hooks, Triple, {"exact"}, {"exact"})
    BY <1>6, LettaOps DEF new
  <2>2. OnlyGroups(new.hooks, Events("letta"), {"exact"}, {"exact"}, a)
    <3>1. {"exact"} \in SUBSET Three /\ "exact" \in {"exact"}
          /\ {"exact"} \in SUBSET Shapes /\ "exact" \in {"exact"}
      BY DEF Three, Shapes
    <3> QED BY <1>2, <3>1, LettaFits, GroupsTaken
  <2> QED BY <2>1, <2>2, LettaFits DEF OnlyGroups
<1>9. Letta!Install(z, a) = z
  <2>1. Replaces("letta", z, Letta!Install(z, a), "global", LettaSet(new, a)) BY LettaOps DEF new
  <2>2. LettaSet(new, a) = new
    <3>1. OrNew(new).root \cup {"hooks"} = new.root BY <1>5, <1>6 DEF MarkedRoot
    <3>2. LettaSet(new, a) = Document(OrNew(new).root \cup {"hooks"},
                                   GroupAddition(LettaRemoval(new.hooks, Agents), Triple, a))
      BY <1>6 DEF LettaSet
    <3>3. GroupAddition(LettaRemoval(new.hooks, Agents), Triple, a) = new.hooks
      BY <1>6, LettaLists
    <3> QED BY <1>6, <3>1, <3>2, <3>3
  <2>3. z = [m \in Names("letta") |-> z[m]] BY DEF WellFormed
  <2> QED BY <2>1, <2>2, <2>3 DEF Replaces, new
<1>10. Letta!Refused(z) <=> Letta!Refused(ds)
  <2>1. \A d : Letta!OrNew(d) = OrNew(d)
    BY DEF Letta!OrNew, OrNew, Letta!NewDocument, NewDocument, Letta!Document, Document
  <2>2. ASSUME NEW m \in Names("letta"), NEW f \in {"off", "on"}
        PROVE  f \in OrNew(z[m]).root <=> f \in OrNew(ds[m]).root
    <3>1. CASE m # "global" BY <1>4, <3>1
    <3>2. CASE m = "global" BY <1>5, <1>6, <3>2 DEF new, old
    <3> QED BY <3>1, <3>2
  <2>3. "global" \in Names("letta") BY DEF Names
  <2> QED BY <1>4, <2>1, <2>2, <2>3 DEF Letta!Refused, Letta!EffectiveDisable
<1> QED BY <1>7, <1>8, <1>9, <1>10, LettaFields DEF Takes

(* Letta Code: every installation takes and is steady, every removal clean.  *)
LEMMA LettaSound == Sound("letta")
<1>1. Looks("letta", LettaWay) BY DEF Looks, Recognised, LettaWay, GroupWay, Three, Shapes
<1>2. Clears("letta") BY NothingElse
<1> QED BY <1>1, <1>2, LettaFits, LettaPerforms, LettaRepeats, HostSound

-----------------------------------------------------------------------------
(* Droid.                                                                  *)
Newest == {"exact", "legacy"}
DroidDrop == {"exact"}
DroidWay == GroupWay(Newest, Shapes, DroidDrop, TRUE)

DroidRemoval(H, ids) == HitsRemoval(H, Pair, ids, Newest, DroidDrop)
DroidRest(doc, ids) == Document(doc.root, DroidRemoval(doc.hooks, ids))
DroidLeft(n, old, ids) ==
  IF \/ old = NoFile
     \/ /\ "marker" \in old.root /\ n \in {"root", "legacy"}
        /\ DOMAIN DroidRemoval(old.hooks, ids) = {}
        /\ old.root \subseteq {"hooks", "marker"}
  THEN NoFile ELSE DroidRest(old, ids)

(* Which files, events and elements the host has.                          *)
LEMMA DroidFits ==
  /\ Fits("droid", DroidWay) /\ Events("droid") = Pair /\ Elements("droid") = Grouped
  /\ DroidWay.grouped /\ DroidWay.hit = TRUE /\ DroidWay.forms = Newest
  /\ DroidWay.shapes = Shapes /\ DroidWay.drop = DroidDrop
  /\ \A n, d : Contained("droid", n, d) <=> (n \in {"settings", "localSettings"} => Held(d))
<1>1. /\ Newest \in SUBSET Forms /\ "exact" \in Newest
      /\ Shapes \in SUBSET Shapes /\ "exact" \in Shapes
      /\ DroidDrop \in SUBSET Shapes /\ "exact" \in DroidDrop /\ TRUE \in BOOLEAN
  BY DEF Newest, Forms, Shapes, DroidDrop
<1>2. IsWay(DroidWay) /\ Kind(DroidWay) = Grouped BY <1>1, GroupIsWay, ZenonT(60) DEF DroidWay
<1>3. /\ DroidWay.grouped /\ DroidWay.hit = TRUE /\ DroidWay.forms = Newest
      /\ DroidWay.shapes = Shapes /\ DroidWay.drop = DroidDrop
  BY <1>2 DEF DroidWay, GroupWay
<1>4. Elements("droid") = Grouped BY DEF Elements
<1>5. Events("droid") = Pair BY DEF Events, Pair
<1>6. Events("droid") \in SUBSET AllEvents /\ Events("droid") # {} BY <1>5 DEF Pair, AllEvents
<1>8. \A n, d : Contained("droid", n, d) <=> (n \in {"settings", "localSettings"} => Held(d))
  BY DEF Contained, HasSettings, Held
<1> QED BY <1>2, <1>3, <1>4, <1>5, <1>6, <1>8 DEF Fits

(* The files of Droid.                                                     *)
LEMMA DroidNames ==
  /\ Names("droid") = {"root", "legacy", "settings", "localSettings",
                       "managed", "project", "projectLocal"}
  /\ Droid!Sources = {"root", "legacy", "settings", "localSettings"}
  /\ \A ds : Written("droid", ds) = Droid!Sources
  /\ \A ds : Targets("droid", ds) = {Droid!ActiveDocument(ds)}
BY DEF Names, Droid!Sources, Written, Targets

(* What the plugin says of a set of documents, by its operators.           *)
LEMMA DroidFields ==
  \A ds : /\ PluginOf("droid", ds).parses <=> Droid!Parses(ds)
          /\ PluginOf("droid", ds).refused <=> Droid!HookBlock(ds)
          /\ ~Droid!HookBlock(ds) => PluginOf("droid", ds).enabled
          /\ PluginOf("droid", ds).contracts = Droid!Contracts(ds)
          /\ "whole" \in PluginOf("droid", ds).files
          /\ \A a \in Agents : /\ PluginOf("droid", ds).install[a] = Droid!Install(ds, a)
                               /\ PluginOf("droid", ds).uninstall[a] = Droid!Uninstall(ds, a)
<1> TAKE ds
<1>1. PluginOf("droid", ds) = Droid!Plugin(ds) BY DEF PluginOf
<1> DEFINE off == Droid!HookBlock(ds)
           on == ~off
<1>2. Droid!Plugin(ds).refused = off /\ Droid!Plugin(ds).enabled = on
  BY DEF Droid!Plugin, Droid!Disabled
<1>3. on \in BOOLEAN /\ off \in BOOLEAN BY DEF Droid!HookBlock
<1>4. on <=> ~off OBVIOUS
<1> HIDE DEF on, off
<1>5. /\ Droid!Plugin(ds).parses <=> Droid!Parses(ds)
      /\ Droid!Plugin(ds).contracts = Droid!Contracts(ds)
      /\ "whole" \in Droid!Plugin(ds).files
      /\ \A a \in Agents : /\ Droid!Plugin(ds).install[a] = Droid!Install(ds, a)
                           /\ Droid!Plugin(ds).uninstall[a] = Droid!Uninstall(ds, a)
  BY DEF Droid!Plugin, Droid!RuntimeFiles
<1>6. (Droid!Plugin(ds).refused <=> off) /\ (Droid!Plugin(ds).enabled <=> ~off)
  BY <1>2, <1>3, <1>4
<1> QED BY <1>1, <1>5, <1>6 DEF off

(* Droid's removal from a list of groups.                                  *)
LEMMA DroidGroups ==
  ASSUME NEW gs \in Seq(Grouped), NEW e, NEW ids
  PROVE  Droid!ManagedRemovals(gs, e, ids) = HitRemoval(gs, e, ids, Newest, DroidDrop)
<1> DEFINE rest == Emptied(gs, e, ids, Newest)
           K == {i \in DOMAIN gs : ~(rest[i].hooks = <<>> /\ gs[i].hooks # <<>>
                                     /\ gs[i].shape = "exact")}
           L == {i \in DOMAIN gs : ~(/\ rest[i].hooks = <<>> /\ gs[i].hooks # <<>>
                                     /\ gs[i].shape \in DroidDrop)}
<1>1. Droid!ManagedRemovals(gs, e, ids) = Pick(rest, K)
  BY DEF Droid!ManagedRemovals, Droid!StripHit, Droid!Without, Droid!Pick, Pick,
    Droid!Kept, Kept, Droid!ManagedAgent, Droid!Refers, Refers, Droid!ScriptOf, ScriptOf,
    Emptied, Unmatched, Newest, Droid!ExactGroup
<1>2. HitRemoval(gs, e, ids, Newest, DroidDrop) = Pick(rest, L) BY DEF HitRemoval
<1>3. K = L
  <2> HIDE DEF rest
  <2> QED BY DEF DroidDrop
<1> HIDE DEF K, L, rest
<1> QED BY <1>1, <1>2, <1>3

(* Droid's removal at all events.                                          *)
LEMMA DroidRemove ==
  ASSUME NEW doc, doc = Document(doc.root, doc.hooks),
         \A e : At(doc.hooks, e) \in Seq(Grouped), NEW ids
  PROVE  Droid!RemoveManagedEntries(doc, ids) = DroidRest(doc, ids)
<1> DEFINE H == doc.hooks
           hit == Hits(H, Pair, ids, Newest, DroidDrop)
<1>1. \A e \in DOMAIN H : Droid!ManagedRemovals(H[e], e, ids) = HitRemoval(H[e], e, ids, Newest, DroidDrop)
  <2> TAKE e \in DOMAIN H
  <2>1. H[e] \in Seq(Grouped) BY DEF At
  <2> QED BY <2>1, DroidGroups
<1>2. {e \in Droid!Events \cap DOMAIN H : Droid!ManagedRemovals(H[e], e, ids) # H[e]} = hit
  BY <1>1 DEF Hits, Droid!Events, Pair
<1>3. Droid!RemoveManagedEntries(doc, ids)
        = [doc EXCEPT !.hooks = Droid!PutOrDrop(H, [e \in hit |-> Droid!ManagedRemovals(H[e], e, ids)])]
  BY <1>2 DEF Droid!RemoveManagedEntries
<1>4. hit \subseteq DOMAIN H BY DEF Hits
<1>5. [e \in hit |-> Droid!ManagedRemovals(H[e], e, ids)]
        = [e \in hit |-> HitRemoval(H[e], e, ids, Newest, DroidDrop)]
  <2> HIDE DEF hit, H
  <2> QED BY <1>1, <1>4
<1>6. \A lists : Droid!PutOrDrop(H, lists) = PutOrDrop(H, lists)
  BY DEF Droid!PutOrDrop, PutOrDrop, Droid!Drop, Drop, Droid!Over, Over
<1>7. \A N : [doc EXCEPT !.hooks = N] = Document(doc.root, N)
  BY DEF Document
<1>8. Droid!RemoveManagedEntries(doc, ids) = Document(doc.root, PutOrDrop(H, [e \in hit |-> HitRemoval(H[e], e, ids, Newest, DroidDrop)]))
  <2> DEFINE M == [e \in hit |-> Droid!ManagedRemovals(H[e], e, ids)]
             N == [e \in hit |-> HitRemoval(H[e], e, ids, Newest, DroidDrop)]
  <2>1. M = N BY <1>5
  <2>2. Droid!RemoveManagedEntries(doc, ids) = [doc EXCEPT !.hooks = Droid!PutOrDrop(H, M)] BY <1>3
  <2> HIDE DEF M, N, H
  <2>3. Droid!RemoveManagedEntries(doc, ids) = [doc EXCEPT !.hooks = PutOrDrop(H, N)]
    BY <2>1, <2>2, <1>6
  <2> QED BY <2>3, <1>7 DEF N
<1> QED BY <1>8 DEF DroidRest, DroidRemoval, HitsRemoval

(* A removal that follows another finds nothing.                           *)
LEMMA CleanClean ==
  ASSUME NEW w, IsWay(w), NEW e, NEW ids, NEW l \in Seq(Kind(w))
  PROVE  Clean(Clean(l, e, ids, w), e, ids, w) = Clean(l, e, ids, w)
<1> DEFINE c == Clean(l, e, ids, w)
<1>1. c \in Seq(Kind(w)) BY CleanType
<1>2. \A i \in DOMAIN c : c[i] \in Stays(e, ids, w) /\ Leave(e, ids, w)[c[i]] = c[i]
  <2> TAKE i \in DOMAIN c
  <2>1. PICK j \in DOMAIN l : l[j] \in Stays(e, ids, w) /\ c[i] = Leave(e, ids, w)[l[j]]
    BY CleanType
  <2>2. l[j] \in Kind(w) BY <2>1
  <2> HIDE DEF c
  <2> QED BY <2>1, <2>2, LeaveTwice
<1> HIDE DEF c
<1>3. Sift(c, Leave(e, ids, w), Stays(e, ids, w)) = c BY <1>1, <1>2, SiftSame
<1> QED BY <1>3 DEF Clean, c

(* The same as a removal of its way.                                       *)
LEMMA DroidPurged ==
  ASSUME NEW H, IsHooks(H, DroidWay), NEW ids
  PROVE  /\ Purged(DroidRemoval(H, ids), H, Pair, ids, DroidWay)
         /\ DroidRemoval(DroidRemoval(H, ids), ids) = DroidRemoval(H, ids)
<1> DEFINE w == DroidWay
<1>1. IsWay(w) /\ Kind(w) = Grouped /\ w.grouped /\ w.hit = TRUE /\ w.forms = Newest
      /\ w.shapes = Shapes /\ w.drop = DroidDrop
  BY DroidFits DEF Fits
<1> HIDE DEF w
<1>2. Pair \in SUBSET AllEvents BY DEF Pair, AllEvents
<1>3. Purged(HitsRemoval(H, Pair, ids, w.forms, w.drop), H, Pair, ids, w)
  BY <1>1, <1>2, HitsPurged DEF w
<1>4. Purged(DroidRemoval(H, ids), H, Pair, ids, w) BY <1>1, <1>3 DEF DroidRemoval
<1> DEFINE N == DroidRemoval(H, ids)
<1> HIDE DEF N
<1>5. IsHooks(N, w) BY <1>4, SMTT(30) DEF Purged, N
<1>6. \A e \in Pair \cap DOMAIN N : HitRemoval(N[e], e, ids, Newest, DroidDrop) = N[e]
  <2> TAKE e \in Pair \cap DOMAIN N
  <2>1. N[e] = Clean(At(H, e), e, ids, w) /\ N[e] \in Seq(Grouped)
    BY <1>1, <1>2, <1>4, <1>5 DEF Purged, N, At, IsHooks
  <2>2. At(H, e) \in Seq(Kind(w)) BY AtType DEF w
  <2>3. Clean(N[e], e, ids, w) = N[e] BY <1>1, <2>1, <2>2, CleanClean
  <2>4. Clean(N[e], e, ids, w) = HitRemoval(N[e], e, ids, w.forms, w.drop)
    BY <1>1, <2>1, HitClean
  <2> QED BY <1>1, <2>3, <2>4
<1>7. Hits(N, Pair, ids, Newest, DroidDrop) = {} BY <1>6 DEF Hits
<1>8. N = [e \in DOMAIN N |-> N[e]] BY <1>5 DEF IsHooks
<1>9. HitsRemoval(N, Pair, ids, Newest, DroidDrop) = N
  BY <1>7, <1>8, NoneDropped DEF HitsRemoval
<1> QED BY <1>4, <1>9 DEF DroidRemoval, w, N

(* A file of Droid before a command.                                       *)
LEMMA DroidOld ==
  ASSUME NEW ds, WellFormed("droid", ds), NEW n \in Names("droid"), ds[n] # NoFile
  PROVE  /\ ds[n] = Document(ds[n].root, ds[n].hooks)
         /\ IsHooks(ds[n].hooks, DroidWay)
         /\ \A e : At(ds[n].hooks, e) \in Seq(Grouped)
         /\ OrNew(ds[n]) = ds[n]
<1>1. IsDocument(ds[n], Elements("droid")) BY DEF WellFormed
<1>2. ds[n] = Document(ds[n].root, ds[n].hooks) BY <1>1, Whole
<1>3. OrNew(ds[n]) = ds[n] BY DEF OrNew
<1>4. IsHooks(ds[n].hooks, DroidWay)
  <2>1. IsHooks(OrNew(ds[n]).hooks, DroidWay) BY DroidFits, OldFile
  <2> QED BY <2>1, <1>3
<1>5. \A e : At(ds[n].hooks, e) \in Seq(Grouped) BY <1>4, DroidFits, AtType DEF Fits
<1> QED BY <1>2, <1>3, <1>4, <1>5

(* What a document is rendered to.                                         *)
LEMMA DroidRender ==
  ASSUME NEW ds, WellFormed("droid", ds), NEW n \in Names("droid"), NEW ids
  PROVE  Droid!RenderRemoval(ds, n, ids) = DroidLeft(n, ds[n], ids)
<1>1. CASE ds[n] = NoFile BY <1>1 DEF Droid!RenderRemoval, DroidLeft
<1>2. CASE ds[n] # NoFile
  <2>1. Droid!RemoveManagedEntries(ds[n], ids) = DroidRest(ds[n], ids)
    BY <1>2, DroidOld, DroidRemove
  <2> DEFINE d == DroidRest(ds[n], ids)
  <2>2. d.root = ds[n].root /\ d.hooks = DroidRemoval(ds[n].hooks, ids) BY DEF DroidRest, Document
  <2> HIDE DEF d
  <2>3. Droid!RenderRemoval(ds, n, ids) =
          IF "marker" \in d.root /\ Droid!HookFileIsEmpty(n, d) THEN NoFile ELSE d
    BY <1>2, <2>1 DEF Droid!RenderRemoval, d
  <2>4. Droid!HookFileIsEmpty(n, d) <=> /\ n \in {"root", "legacy"} /\ DOMAIN d.hooks = {}
                                        /\ d.root \subseteq {"hooks", "marker"}
    BY DEF Droid!HookFileIsEmpty
  <2> QED BY <1>2, <2>2, <2>3, <2>4 DEF DroidLeft, d
<1> QED BY <1>1, <1>2

(* A file of Droid after a removal.                                        *)
LEMMA DroidLeftFile ==
  ASSUME NEW ds, WellFormed("droid", ds), NEW n \in Names("droid"), NEW ids \in SUBSET Agents,
         NEW es, NEW c
  PROVE  FileLeft("droid", ds, n, ids, DroidLeft(n, ds[n], ids), es, c)
<1> DEFINE old == ds[n]
           H == OrNew(old).hooks
           r == OrNew(old).root
           N == DroidRemoval(H, ids)
           d == DroidLeft(n, old, ids)
<1>1. IsHooks(H, DroidWay) /\ r \in SUBSET Fields /\ (old = NoFile => r = {} /\ H = <<>>)
      /\ (old # NoFile => OrNew(old) = old)
  <2>1. Fits("droid", DroidWay) BY DroidFits
  <2> QED BY <2>1, OldFile
<1>2. Purged(N, H, Events("droid"), ids, DroidWay) BY <1>1, DroidPurged, DroidFits
<1>3. \/ d = Document(r, N) /\ Contained("droid", n, d)
      \/ d = NoFile /\ DOMAIN N = {} /\ OrNew(ds[n]).root \subseteq Plain
  <2>1. CASE old = NoFile
    <3>1. d = NoFile BY <2>1 DEF DroidLeft
    <3>2. DOMAIN N = {}
      <4>1. H = <<>> BY <1>1, <2>1
      <4>2. DOMAIN H = {} BY <4>1
      <4> HIDE DEF N, H
      <4> QED BY <4>2, <1>2 DEF Purged
    <3>3. r = {} BY <1>1, <2>1
    <3> QED BY <3>1, <3>2, <3>3
  <2>2. CASE old # NoFile
    <3>1. r = old.root /\ H = old.hooks BY <1>1, <2>2
    <3> DEFINE rest == DroidRest(old, ids)
               gone == /\ "marker" \in old.root /\ n \in {"root", "legacy"}
                       /\ DOMAIN DroidRemoval(old.hooks, ids) = {}
                       /\ old.root \subseteq {"hooks", "marker"}
    <3>2. d = IF gone THEN NoFile ELSE rest BY <2>2 DEF DroidLeft
    <3>3. rest = Document(r, N) BY <3>1 DEF DroidRest
    <3>4. gone => DOMAIN N = {} /\ r \subseteq Plain BY <3>1 DEF Plain
    <3>5. Contained("droid", n, old) BY <2>2 DEF WellFormed
    <3>6. DOMAIN N \subseteq DOMAIN H BY <1>2 DEF Purged
    <3>7. rest.root = r /\ rest.hooks = N BY <3>3 DEF Document
    <3> HIDE DEF d, gone, rest, N
    <3>8. Contained("droid", n, rest) BY <3>1, <3>5, <3>6, <3>7, DroidFits DEF Held
    <3> QED BY <3>2, <3>3, <3>4, <3>8
  <2> QED BY <2>1, <2>2
<1> HIDE DEF d, N, H, r
<1>4. OrNew(ds[n]).root \ Plain \subseteq r BY DEF r, old
<1>5. FileLeft("droid", ds, n, ids, d, es, c)
  BY <1>1, <1>2, <1>3, <1>4, DroidFits, FileRemoval DEF Fits, H, old
<1> QED BY <1>5 DEF d, old

(* A second removal changes nothing more.                                  *)
LEMMA DroidLeftTwice ==
  ASSUME NEW ds, WellFormed("droid", ds), NEW n \in Names("droid"), NEW ids
  PROVE  LET d == DroidLeft(n, ds[n], ids)
         IN  /\ DroidLeft(n, d, ids) = d
             /\ d # NoFile => ds[n] # NoFile /\ d.root = ds[n].root
             /\ d = NoFile => OrNew(ds[n]).root \subseteq {"hooks", "marker"}
             /\ d = NoFile /\ ds[n] # NoFile => n \in {"root", "legacy"}
             /\ OrNew(d).root = {} \/ OrNew(d).root = OrNew(ds[n]).root
<1> DEFINE old == ds[n]
           d == DroidLeft(n, old, ids)
           rest == DroidRest(old, ids)
           gone(o) == /\ "marker" \in o.root /\ n \in {"root", "legacy"}
                      /\ DOMAIN DroidRemoval(o.hooks, ids) = {}
                      /\ o.root \subseteq {"hooks", "marker"}
<1>1. CASE old = NoFile
  <2>1. d = NoFile BY <1>1 DEF DroidLeft
  <2>2. OrNew(NoFile).root = {} BY DEF OrNew, NewDocument, Document
  <2> HIDE DEF d
  <2> QED BY <1>1, <2>1, <2>2 DEF DroidLeft, d
<1>2. CASE old # NoFile
  <2>1. IsHooks(old.hooks, DroidWay) /\ OrNew(old) = old BY <1>2, DroidOld
  <2>2. rest.root = old.root /\ rest.hooks = DroidRemoval(old.hooks, ids)
        /\ rest = Document(rest.root, rest.hooks)
    BY DEF DroidRest, Document
  <2>3. DroidRemoval(rest.hooks, ids) = rest.hooks BY <2>1, <2>2, DroidPurged
  <2>4. DroidRest(rest, ids) = rest BY <2>2, <2>3 DEF DroidRest
  <2>5. d = IF gone(old) THEN NoFile ELSE rest BY <1>2 DEF DroidLeft
  <2>6. gone(rest) <=> gone(old) BY <2>2, <2>3
  <2>7. OrNew(NoFile).root = {} BY DEF OrNew, NewDocument, Document
  <2>8. \A o : DroidLeft(n, o, ids) = IF o = NoFile \/ gone(o) THEN NoFile ELSE DroidRest(o, ids)
    BY DEF DroidLeft
  <2>9. gone(old) => n \in {"root", "legacy"} /\ old.root \subseteq {"hooks", "marker"} OBVIOUS
  <2>10. rest # NoFile /\ OrNew(rest) = rest
    <3>1. IsHooks(rest.hooks, DroidWay)
      BY <2>1, <2>2, DroidPurged DEF Purged
    <3>2. rest.root \in SUBSET Fields BY <1>2, <2>1, <2>2, DroidFits, OldFile
    <3>3. rest # NoFile BY <2>2, <3>1, <3>2, DocumentMade
    <3> QED BY <3>3 DEF OrNew
  <2> HIDE DEF d, rest, gone
  <2> QED BY <1>2, <2>1, <2>2, <2>4, <2>5, <2>6, <2>7, <2>8, <2>9, <2>10 DEF d
<1> QED BY <1>1, <1>2

(* The file an installation goes to.                                       *)
DroidNext(ds, a) ==
  LET doc == Droid!Source(ds, Droid!ActiveDocument(ds))
  IN  Document(doc.root, Renewed(doc.hooks, Pair, a, DroidWay))

(* The file in which Droid's hooks are.                                    *)
LEMMA DroidSource ==
  ASSUME NEW ds, WellFormed("droid", ds), NEW n \in Names("droid")
  PROVE  LET doc == Droid!Source(ds, n)
         IN  /\ doc = Document(doc.root, doc.hooks)
             /\ doc.hooks = OrNew(ds[n]).hooks
             /\ doc.root \in SUBSET Fields
             /\ OrNew(ds[n]).root \subseteq doc.root
             /\ doc.root \subseteq OrNew(ds[n]).root \cup {"hooks", "marker"}
             /\ ds[n] # NoFile => doc = ds[n]
<1>1. CASE ds[n] # NoFile
  <2>1. Droid!Source(ds, n) = ds[n] BY <1>1 DEF Droid!Source
  <2>2. ds[n] = Document(ds[n].root, ds[n].hooks) /\ OrNew(ds[n]) = ds[n] BY <1>1, DroidOld
  <2>3. OrNew(ds[n]).root \in SUBSET Fields BY DroidFits, OldFile
  <2> QED BY <2>1, <2>2, <2>3
<1>2. CASE ds[n] = NoFile
  <2>1. Droid!Source(ds, n) = IF n = "root" THEN Document({"marker", "hooks"}, <<>>) ELSE Document({}, <<>>)
    BY <1>2 DEF Droid!Source, Droid!OwnedDocument, Droid!NewDocument, Droid!Document, Document
  <2>2. OrNew(ds[n]).root = {} /\ OrNew(ds[n]).hooks = <<>> BY <1>2 DEF OrNew, NewDocument, Document
  <2>3. \A r : Document(r, <<>>).root = r /\ Document(r, <<>>).hooks = <<>> BY DEF Document
  <2>4. {"marker", "hooks"} \in SUBSET Fields BY DEF Fields
  <2> QED BY <1>2, <2>1, <2>2, <2>3, <2>4
<1> QED BY <1>1, <1>2

(* It is the same after an installation.                                   *)
LEMMA DroidActive ==
  \A ds : /\ Droid!ActiveDocument(ds) \in Droid!Sources
          /\ ds["root"] # NoFile => Droid!ActiveDocument(ds) = "root"
          /\ ds["root"] = NoFile /\ ds["legacy"] # NoFile => Droid!ActiveDocument(ds) = "legacy"
          /\ ds["root"] = NoFile /\ ds["legacy"] = NoFile =>
               Droid!ActiveDocument(ds) = IF Droid!HasContainer(ds, "localSettings") THEN "localSettings"
                                          ELSE IF Droid!HasContainer(ds, "settings") THEN "settings"
                                          ELSE "root"
<1> TAKE ds
<1> DEFINE some(n) == ds[n] # NoFile
           local == Droid!HasContainer(ds, "localSettings")
           settings == Droid!HasContainer(ds, "settings")
<1>1. Droid!ActiveDocument(ds) =
        CASE some("root") -> "root"
          [] ~some("root") /\ some("legacy") -> "legacy"
          [] OTHER -> IF local THEN "localSettings" ELSE IF settings THEN "settings" ELSE "root"
  BY DEF Droid!ActiveDocument
<1> HIDE DEF local, settings
<1>2. /\ some("root") => Droid!ActiveDocument(ds) = "root"
      /\ ~some("root") /\ some("legacy") => Droid!ActiveDocument(ds) = "legacy"
      /\ ~some("root") /\ ~some("legacy") => Droid!ActiveDocument(ds) =
           IF local THEN "localSettings" ELSE IF settings THEN "settings" ELSE "root"
  BY <1>1
<1> QED BY <1>2 DEF Droid!Sources, local, settings

\* What an installation leaves of the other files.
DroidOther(ds, n) ==
  /\ ds[n] # NoFile /\ n \in Droid!Sources
  /\ n \in {"root", "legacy"} \/ Droid!HasContainer(ds, n)

(* The operators of the plugin, in the terms used here.                    *)
LEMMA DroidOps ==
  ASSUME NEW ds, WellFormed("droid", ds), NEW a
  PROVE  LET A == Droid!ActiveDocument(ds)
         IN  /\ Droid!Install(ds, a) =
                  [n \in Names("droid") |->
                      IF n = A THEN DroidNext(ds, a)
                      ELSE IF DroidOther(ds, n) THEN DroidLeft(n, ds[n], Agents)
                      ELSE ds[n]]
             /\ Droid!Uninstall(ds, a) =
                  [n \in Names("droid") |->
                      IF n \in Droid!Sources THEN DroidLeft(n, ds[n], {a}) ELSE ds[n]]
<1> DEFINE A == Droid!ActiveDocument(ds)
           doc == Droid!Source(ds, A)
<1>1. DOMAIN ds = Names("droid") BY DEF WellFormed
<1>2. A \in Names("droid") BY DroidActive, DroidNames
<1>3. /\ doc = Document(doc.root, doc.hooks) /\ IsHooks(doc.hooks, DroidWay)
      /\ \A e : At(doc.hooks, e) \in Seq(Grouped)
  <2>1. doc = Document(doc.root, doc.hooks) /\ doc.hooks = OrNew(ds[A]).hooks
    BY <1>2, DroidSource
  <2>2. IsHooks(OrNew(ds[A]).hooks, DroidWay) BY <1>2, DroidFits, OldFile
  <2>3. IsHooks(doc.hooks, DroidWay) BY <2>1, <2>2
  <2>4. \A e : At(doc.hooks, e) \in Seq(Grouped) BY <2>3, DroidFits, AtType DEF Fits
  <2> QED BY <2>1, <2>3, <2>4
<1>4. Droid!RenderAddition(ds, A, a) = DroidNext(ds, a)
  <2> DEFINE M == DroidRemoval(doc.hooks, Agents)
             d == DroidRest(doc, Agents)
  <2>1. Droid!RemoveManagedEntries(doc, Agents) = d BY <1>3, DroidRemove
  <2>2. d.root = doc.root /\ d.hooks = M /\ d = Document(d.root, d.hooks) BY DEF DroidRest, Document
  <2>3. \A N : Droid!Append1(N, Droid!Events, LAMBDA e : Droid!Group(a, e)) = GroupAddition(N, Pair, a)
    BY DEF Droid!Append1, GroupAddition, Droid!Over, Over, Droid!At, At,
      Droid!Group, Group, Droid!Handler, Handler, Droid!ScriptOf, ScriptOf,
      Droid!Events, Pair
  <2>4. Purged(M, doc.hooks, Pair, Agents, DroidWay) BY <1>3, DroidPurged
  <2>5. Pair \in SUBSET AllEvents BY DEF Pair, AllEvents
  <2>6. GroupAddition(M, Pair, a) = Renewed(doc.hooks, Pair, a, DroidWay)
    BY <1>3, <2>4, <2>5, GroupRenewed, DroidFits DEF Fits
  <2>7. \A N : [d EXCEPT !.hooks = N] = Document(d.root, N) BY <2>2 DEF Document
  <2>8. Droid!RenderAddition(ds, A, a) =
          [d EXCEPT !.hooks = Droid!Append1(d.hooks, Droid!Events, LAMBDA e : Droid!Group(a, e))]
    BY <2>1 DEF Droid!RenderAddition
  <2> HIDE DEF M, d, doc
  <2>9. Droid!RenderAddition(ds, A, a) = Document(doc.root, Renewed(doc.hooks, Pair, a, DroidWay))
    <3>1. Droid!RenderAddition(ds, A, a) =
            Document(d.root, Droid!Append1(d.hooks, Droid!Events, LAMBDA e : Droid!Group(a, e)))
      BY <2>7, <2>8
    <3> QED BY <3>1, <2>2, <2>3, <2>6
  <2> QED BY <2>9 DEF DroidNext, doc
<1>5. \A n \in Names("droid") : \A ids : Droid!RenderRemoval(ds, n, ids) = DroidLeft(n, ds[n], ids)
  BY DroidRender
<1>6. \A n \in Names("droid") : n # A => (n \in Droid!InstallationDocuments(ds) <=> DroidOther(ds, n))
  BY DEF Droid!InstallationDocuments, DroidOther
<1> HIDE DEF A, doc
<1>7. Droid!Install(ds, a) =
        [n \in Names("droid") |->
            IF n = A THEN Droid!RenderAddition(ds, n, a)
            ELSE IF n \in Droid!InstallationDocuments(ds) THEN Droid!RenderRemoval(ds, n, Agents)
            ELSE ds[n]]
  BY <1>1 DEF Droid!Install, A
<1>8. Droid!Uninstall(ds, a) =
        [n \in Names("droid") |->
            IF n \in Droid!Sources /\ ds[n] # NoFile THEN Droid!RenderRemoval(ds, n, {a}) ELSE ds[n]]
  BY <1>1 DEF Droid!Uninstall
<1>9. Droid!Install(ds, a) =
        [n \in Names("droid") |->
            IF n = A THEN DroidNext(ds, a)
            ELSE IF DroidOther(ds, n) THEN DroidLeft(n, ds[n], Agents)
            ELSE ds[n]]
  <2>1. \A n \in Names("droid") :
          (IF n = A THEN Droid!RenderAddition(ds, n, a)
            ELSE IF n \in Droid!InstallationDocuments(ds) THEN Droid!RenderRemoval(ds, n, Agents)
            ELSE ds[n])
          = IF n = A THEN DroidNext(ds, a)
            ELSE IF DroidOther(ds, n) THEN DroidLeft(n, ds[n], Agents)
            ELSE ds[n]
    BY <1>4, <1>5, <1>6
  <2> QED BY <1>7, <2>1
<1>10. Droid!Uninstall(ds, a) =
         [n \in Names("droid") |->
             IF n \in Droid!Sources THEN DroidLeft(n, ds[n], {a}) ELSE ds[n]]
  <2>1. \A n \in Names("droid") :
          (IF n \in Droid!Sources /\ ds[n] # NoFile THEN Droid!RenderRemoval(ds, n, {a}) ELSE ds[n])
          = IF n \in Droid!Sources THEN DroidLeft(n, ds[n], {a}) ELSE ds[n]
    BY <1>5 DEF DroidLeft
  <2> QED BY <1>8, <2>1
<1> QED BY <1>9, <1>10 DEF A

(* An installation, file by file.                                          *)
LEMMA DroidInstall ==
  \A x, a : WellFormed("droid", x) =>
    Droid!Install(x, a) =
      [n \in Names("droid") |-> IF n = Droid!ActiveDocument(x) THEN DroidNext(x, a)
                                ELSE IF DroidOther(x, n) THEN DroidLeft(n, x[n], Agents)
                                ELSE x[n]]
<1> TAKE x, a
<1> HAVE WellFormed("droid", x)
<1> QED BY DroidOps, ZenonT(40)

(* Its commands have the form of an installation and of a removal.         *)
LEMMA DroidPerforms == Performs("droid", DroidWay)
<1> SUFFICES ASSUME NEW ds, WellFormed("droid", ds), NEW a \in Agents, Droid!Parses(ds)
             PROVE  /\ InstallForm("droid", ds, Droid!Install(ds, a), a, DroidWay)
                    /\ UninstallForm("droid", ds, Droid!Uninstall(ds, a), a)
  BY DroidFields DEF Performs
<1> DEFINE A == Droid!ActiveDocument(ds)
<1>1. A \in Droid!Sources BY DroidActive
<1>2. A \in Names("droid") /\ Droid!Sources \subseteq Names("droid") BY <1>1, DroidNames
<1>3. \A n \in Names("droid") : \A ids \in SUBSET Agents : \A es, c :
        FileLeft("droid", ds, n, ids, DroidLeft(n, ds[n], ids), es, c)
  BY DroidLeftFile
<1>4. \A n \in Names("droid") : \A es, c : FileChanged("droid", n, ds[n], ds[n], es, c) BY FileSame
<1> HIDE DEF A
<1>5. InstallForm("droid", ds, Droid!Install(ds, a), a, DroidWay)
  <2> DEFINE z == Droid!Install(ds, a)
  <2>1. z = [n \in Names("droid") |->
                      IF n = A THEN DroidNext(ds, a)
                      ELSE IF DroidOther(ds, n) THEN DroidLeft(n, ds[n], Agents)
                      ELSE ds[n]]
    BY DroidOps DEF A
  <2>2. Rewrites("droid", A, ds[A], DroidNext(ds, a), a, DroidWay)
    <3> DEFINE doc == Droid!Source(ds, A)
               d == DroidNext(ds, a)
    <3>1. doc.hooks = OrNew(ds[A]).hooks /\ doc.root \in SUBSET Fields
          /\ OrNew(ds[A]).root \subseteq doc.root
      BY <1>2, DroidSource
    <3>2. d = Document(doc.root, Renewed(doc.hooks, Pair, a, DroidWay)) BY DEF DroidNext, A
    <3>3. d.root = doc.root BY <3>2 DEF Document
    <3>5. A \in {"settings", "localSettings"} => "hooks" \in doc.root
      <4>1. A \in {"settings", "localSettings"} => Droid!HasContainer(ds, A) BY DroidActive DEF A
      <4> QED BY <4>1 DEF Droid!HasContainer
    <3> HIDE DEF d, doc
    <3>6. Contained("droid", A, d) BY <3>3, <3>5, DroidFits DEF Held
    <3>4. Rewrites("droid", A, ds[A], d, a, DroidWay)
      BY <3>1, <3>2, <3>3, <3>6, DroidFits DEF Rewrites
    <3> QED BY <3>4 DEF d
  <2> HIDE DEF z
  <2>3. z = [n \in Names("droid") |-> z[n]] BY <2>1
  <2>4. z[A] = DroidNext(ds, a) BY <1>2, <2>1
  <2>5. \A n \in Names("droid") : n # A => z[n] = DroidLeft(n, ds[n], Agents) \/ z[n] = ds[n]
    BY <2>1
  <2>6. \A n \in Names("droid") : n # A => \A es, c : FileChanged("droid", n, z[n], ds[n], es, c)
    BY <1>3, <1>4, <2>5 DEF FileLeft
  <2>7. Targets("droid", ds) = {A} BY DroidNames DEF A
  <2> QED BY <1>1, <1>2, <2>2, <2>3, <2>4, <2>6, <2>7, DroidNames DEF InstallForm, z
<1>6. UninstallForm("droid", ds, Droid!Uninstall(ds, a), a)
  <2> DEFINE z == Droid!Uninstall(ds, a)
  <2>1. z = [n \in Names("droid") |->
               IF n \in Droid!Sources THEN DroidLeft(n, ds[n], {a}) ELSE ds[n]]
    BY DroidOps
  <2> HIDE DEF z
  <2>2. z = [n \in Names("droid") |-> z[n]] BY <2>1
  <2>3. \A n \in Names("droid") : z[n] = IF n \in Droid!Sources THEN DroidLeft(n, ds[n], {a}) ELSE ds[n]
    BY <2>1
  <2>4. {a} \in SUBSET Agents OBVIOUS
  <2>5. \A n \in Names("droid") :
          IF n \in Droid!Sources THEN FileLeft("droid", ds, n, {a}, z[n], Events("droid"), User)
          ELSE FileChanged("droid", n, z[n], ds[n], {}, User)
    BY <1>3, <1>4, <2>3, <2>4
  <2>6. \A x : Written("droid", x) = Droid!Sources BY DroidNames
  <2> QED BY <2>2, <2>5, <2>6 DEF UninstallForm, z
<1> QED BY <1>5, <1>6

(* The agent of an installation is the only one Droid runs.                *)
LEMMA DroidTaken ==
  ASSUME NEW old, NEW d, NEW a \in Agents, After("droid", old, d, a, DroidWay)
  PROVE  Droid!RuntimeContracts(d.hooks) = {a}
<1> DEFINE H == OrNew(old).hooks
           L(e) == Fresh(H, e, a, DroidWay)
<1>1. IsHooks(H, DroidWay) /\ \A e \in Pair : At(d.hooks, e) = L(e) BY DroidFits DEF After
<1>2. \A e : /\ L(e) \in Seq(Grouped) /\ Len(L(e)) \in DOMAIN L(e) /\ L(e)[Len(L(e))] = Group(a, e)
             /\ \A i \in DOMAIN L(e) : \A j \in DOMAIN L(e)[i].hooks :
                  L(e)[i].shape \in Shapes /\ Refers(L(e)[i].hooks[j], e, Agents, Newest)
                    => i = Len(L(e))
  BY <1>1, GroupFound, DroidFits DEF Fits
<1> HIDE DEF H, L
<1>3. \A e : Group(a, e).shape = "exact" /\ Group(a, e).hooks = <<Handler(a, e)>> BY DEF Group
<1>4. \A e \in Pair : Droid!ConfiguredIds(L(e), e) = {a}
  <2> TAKE e \in Pair
  <2> DEFINE in(g, b) == /\ g.shape = "exact" /\ Len(g.hooks) = 1
                         /\ Refers(g.hooks[1], e, {b}, {"exact"})
  <2>1. Droid!ConfiguredIds(L(e), e) = {b \in Agents : \E i \in DOMAIN L(e) : in(L(e)[i], b)}
    BY DEF Droid!ConfiguredIds, Droid!Some, Droid!ExactGroup, Droid!ManagedAgent,
      Droid!Refers, Refers, Droid!ScriptOf, ScriptOf
  <2>2. in(L(e)[Len(L(e))], a)
    <3>1. L(e)[Len(L(e))] = Group(a, e) BY <1>2
    <3>2. in(Group(a, e), a)
      <4>1. Refers(Handler(a, e), e, {a}, {"exact"}) BY OwnRefers
      <4>2. Len(<<Handler(a, e)>>) = 1 /\ <<Handler(a, e)>>[1] = Handler(a, e) OBVIOUS
      <4> QED BY <1>3, <4>1, <4>2
    <3> QED BY <3>1, <3>2
  <2>3. ASSUME NEW b \in Agents, NEW i \in DOMAIN L(e), in(L(e)[i], b) PROVE b = a
    <3>1. L(e)[i] \in Grouped
      <4>1. L(e) \in Seq(Grouped) BY <1>2
      <4> QED BY <4>1
    <3>2. L(e)[i].shape \in Shapes /\ 1 \in DOMAIN L(e)[i].hooks
      <4>1. L(e)[i].hooks \in Seq(Listed) BY <3>1 DEF Grouped
      <4>2. Len(L(e)[i].hooks) = 1 BY <2>3
      <4>3. 1 \in DOMAIN L(e)[i].hooks BY <4>1, <4>2
      <4> QED BY <3>1, <4>3 DEF Grouped, Shapes
    <3>3. Refers(L(e)[i].hooks[1], e, {b}, {"exact"}) BY <2>3
    <3>4. Refers(L(e)[i].hooks[1], e, Agents, Newest) BY <3>3 DEF Refers, Newest
    <3>5. i = Len(L(e)) BY <1>2, <3>2, <3>4
    <3>6. L(e)[i].hooks[1] = Handler(a, e) BY <1>2, <1>3, <3>5
    <3> QED BY <3>3, <3>6 DEF Refers, Handler
  <2> HIDE DEF in
  <2>4. Len(L(e)) \in DOMAIN L(e) BY <1>2
  <2> QED BY <2>1, <2>2, <2>3, <2>4
<1>5. \A e : Droid!At(d.hooks, e) = At(d.hooks, e) BY DEF Droid!At, At
<1>6. Droid!RuntimeContracts(d.hooks)
        = Droid!ConfiguredIds(At(d.hooks, "pre"), "pre") \cap Droid!ConfiguredIds(At(d.hooks, "post"), "post")
  BY <1>5 DEF Droid!RuntimeContracts
<1> QED BY <1>1, <1>4, <1>6 DEF Pair

\* The fields that turn hooks off.
DroidSays(doc) == OrNew(doc).root \cap {"off", "on", "managedOnly"}

(* The block that hides hooks of a lower file.                             *)
LEMMA DroidBlock ==
  ASSUME NEW ds, NEW z, \A n \in Names("droid") : DroidSays(z[n]) = DroidSays(ds[n]),
         Droid!ActiveDocument(z) = Droid!ActiveDocument(ds),
         LET A == Droid!ActiveDocument(ds) IN Droid!HasContainer(z, A) <=> Droid!HasContainer(ds, A)
  PROVE  Droid!HookBlock(z) <=> Droid!HookBlock(ds)
<1> DEFINE A == Droid!ActiveDocument(ds)
<1>1. A \in Names("droid") BY DroidActive, DroidNames
<1>2. \A n \in Names("droid") : /\ Droid!Says(z, n) <=> Droid!Says(ds, n)
                                /\ Droid!Off(z, n) <=> Droid!Off(ds, n)
                                /\ ("managedOnly" \in Droid!OrNew(z[n]).root)
                                     <=> ("managedOnly" \in Droid!OrNew(ds[n]).root)
  <2>1. \A doc : Droid!OrNew(doc) = OrNew(doc)
    BY DEF Droid!OrNew, OrNew, Droid!NewDocument, NewDocument, Droid!Document, Document
  <2>2. \A x, n : /\ Droid!Says(x, n) <=> (OrNew(x[n]).root \cap {"off", "on"}) # {}
                  /\ Droid!Off(x, n) <=> "off" \in OrNew(x[n]).root
    BY <2>1 DEF Droid!Says, Droid!Off
  <2>3. TAKE n \in Names("droid")
  <2> DEFINE r == OrNew(z[n]).root
             q == OrNew(ds[n]).root
  <2>4. r \cap {"off", "on", "managedOnly"} = q \cap {"off", "on", "managedOnly"} BY DEF DroidSays
  <2> HIDE DEF r, q
  <2>5. /\ ((r \cap {"off", "on"}) # {}) <=> ((q \cap {"off", "on"}) # {})
        /\ "off" \in r <=> "off" \in q
        /\ "managedOnly" \in r <=> "managedOnly" \in q
    BY <2>4
  <2> QED BY <2>1, <2>2, <2>5 DEF r, q
<1> DEFINE three == <<"managed", "projectLocal", "project">>
           policy(x) == Droid!Without(three, LAMBDA n : ~Droid!Says(x, n))
<1>3. three \in Seq(Names("droid")) /\ DOMAIN three = 1 .. 3 BY DroidNames
<1>4. policy(z) = policy(ds)
  <2>1. \A x : policy(x) = Droid!Pick(three, {i \in DOMAIN three : ~~Droid!Says(x, three[i])})
    BY DEF Droid!Without
  <2>2. \A i \in DOMAIN three : three[i] \in Names("droid") BY <1>3
  <2>3. {i \in DOMAIN three : ~~Droid!Says(z, three[i])} = {i \in DOMAIN three : ~~Droid!Says(ds, three[i])}
    BY <1>2, <2>2
  <2> HIDE DEF policy, three
  <2> QED BY <2>1, <2>3
<1>5. policy(ds) # <<>> => policy(ds)[1] \in Names("droid")
  <2> DEFINE S == {i \in DOMAIN three : ~~Droid!Says(ds, three[i])}
  <2>1. policy(ds) = Pick(three, S)
    BY DEF Droid!Without, Droid!Pick, Pick, Droid!Kept, Kept
  <2> HIDE DEF S, three, policy
  <2>2. Pick(three, S) \in Seq(Names("droid")) BY <1>3, PickRange
  <2> QED BY <2>1, <2>2
<1>6. \A x : Droid!HookBlock(x) <=>
        \/ "managedOnly" \in Droid!OrNew(x["managed"]).root
        \/ IF policy(x) # <<>> THEN Droid!Off(x, policy(x)[1])
           ELSE \/ Droid!Off(x, IF Droid!Says(x, "localSettings") THEN "localSettings"
                             ELSE "settings")
                \/ /\ ~(Droid!ActiveDocument(x) \in {"root", "legacy"}
                          /\ Droid!HasContainer(x, Droid!ActiveDocument(x)))
                   /\ Droid!Off(x, Droid!ActiveDocument(x))
  BY DEF Droid!HookBlock
<1> DEFINE lower(x) == IF Droid!Says(x, "localSettings") THEN "localSettings" ELSE "settings"
<1>7. lower(z) = lower(ds) /\ lower(ds) \in Names("droid") BY <1>2, DroidNames
<1>8. "managed" \in Names("droid") BY DroidNames
<1>9. \A x : Droid!HookBlock(x) <=>
        \/ "managedOnly" \in Droid!OrNew(x["managed"]).root
        \/ IF policy(x) # <<>> THEN Droid!Off(x, policy(x)[1])
           ELSE \/ Droid!Off(x, lower(x))
                \/ /\ ~(Droid!ActiveDocument(x) \in {"root", "legacy"}
                          /\ Droid!HasContainer(x, Droid!ActiveDocument(x)))
                   /\ Droid!Off(x, Droid!ActiveDocument(x))
  BY <1>6
<1> HIDE DEF policy, lower, A
<1>10. Droid!ActiveDocument(z) = A /\ Droid!ActiveDocument(ds) = A
       /\ (Droid!HasContainer(z, A) <=> Droid!HasContainer(ds, A)) BY DEF A
<1> QED BY <1>1, <1>2, <1>4, <1>5, <1>7, <1>8, <1>9, <1>10

(* After an installation the host reports it, and another one changes      *)
(* nothing.                                                                *)
LEMMA DroidRepeats == Repeats("droid", DroidWay)
<1> SUFFICES ASSUME NEW ds, WellFormed("droid", ds), NEW a \in Agents, Droid!Parses(ds),
                    NEW z, z = Droid!Install(ds, a), WellFormed("droid", z),
                    Outcome("droid", ds, z, a, DroidWay)
             PROVE  /\ ~Droid!HookBlock(ds) => Takes(PluginOf("droid", z), a)
                    /\ Droid!Install(z, a) = z
  BY DroidFields DEF Repeats
<1> DEFINE A == Droid!ActiveDocument(ds)
           new == z[A]
<1>1. A \in Droid!Sources /\ A \in Names("droid") BY DroidActive, DroidNames
<1>2. After("droid", ds[A], new, a, DroidWay) BY DroidFits, NewFile, DroidNames
<1>3. /\ new # NoFile /\ OrNew(new) = new /\ new = Document(new.root, new.hooks)
      /\ Renewed(new.hooks, Pair, a, DroidWay) = new.hooks
  BY <1>2, DroidFits DEF After
<1>4. /\ new = DroidNext(ds, a)
      /\ \A n \in Names("droid") : n # A =>
           z[n] = IF DroidOther(ds, n) THEN DroidLeft(n, ds[n], Agents) ELSE ds[n]
      /\ DOMAIN z = Names("droid")
  <2>1. z = [n \in Names("droid") |->
                      IF n = A THEN DroidNext(ds, a)
                      ELSE IF DroidOther(ds, n) THEN DroidLeft(n, ds[n], Agents)
                      ELSE ds[n]]
    BY DroidOps, ZenonT(40)
  <2> HIDE DEF A
  <2> QED BY <1>1, <2>1 DEF new
<1>5. /\ OrNew(ds[A]).root \subseteq new.root
      /\ new.root \subseteq OrNew(ds[A]).root \cup {"hooks", "marker"}
      /\ new.root = Droid!Source(ds, A).root
  <2> DEFINE doc == Droid!Source(ds, A)
  <2>1. new.root = doc.root BY <1>4 DEF DroidNext, Document
  <2>2. /\ OrNew(ds[A]).root \subseteq doc.root
        /\ doc.root \subseteq OrNew(ds[A]).root \cup {"hooks", "marker"}
    BY <1>1, DroidSource
  <2> HIDE DEF doc, new
  <2> QED BY <2>1, <2>2 DEF doc
<1>6. \A n \in Names("droid") : n # A =>
        /\ z[n] # NoFile => ds[n] # NoFile /\ z[n].root = ds[n].root
        /\ z[n] = NoFile /\ ds[n] # NoFile => n \in {"root", "legacy"}
        /\ OrNew(z[n]).root = OrNew(ds[n]).root
             \/ (OrNew(z[n]).root = {} /\ OrNew(ds[n]).root \subseteq {"hooks", "marker"})
        /\ DroidOther(ds, n) => DroidLeft(n, z[n], Agents) = z[n]
  <2> TAKE n \in Names("droid")
  <2> HAVE n # A
  <2> DEFINE d == DroidLeft(n, ds[n], Agents)
  <2>1. /\ DroidLeft(n, d, Agents) = d
        /\ d # NoFile => ds[n] # NoFile /\ d.root = ds[n].root
        /\ d = NoFile => OrNew(ds[n]).root \subseteq {"hooks", "marker"}
        /\ d = NoFile /\ ds[n] # NoFile => n \in {"root", "legacy"}
        /\ OrNew(d).root = {} \/ OrNew(d).root = OrNew(ds[n]).root
    BY DroidLeftTwice
  <2>2. d # NoFile => OrNew(d) = d BY DEF OrNew
  <2>3. ds[n] # NoFile => OrNew(ds[n]) = ds[n] BY DEF OrNew
  <2>4. z[n] = IF DroidOther(ds, n) THEN d ELSE ds[n] BY <1>4
  <2>5. DroidOther(ds, n) => ds[n] # NoFile BY DEF DroidOther
  <2> HIDE DEF d, A
  <2> QED BY <2>1, <2>2, <2>3, <2>4, <2>5
<1> HIDE DEF new
<1>7. z[A] = new BY DEF new
<1>8. \A n : Droid!HasContainer(z, n) <=> "hooks" \in Droid!Source(z, n).root BY DEF Droid!HasContainer
<1>9. \A n : Droid!HasContainer(ds, n) <=> "hooks" \in Droid!Source(ds, n).root BY DEF Droid!HasContainer
<1>10. Droid!HasContainer(z, A) <=> Droid!HasContainer(ds, A)
  <2>1. Droid!Source(z, A) = new BY <1>3, <1>7 DEF Droid!Source
  <2> HIDE DEF A
  <2> QED BY <1>5, <1>8, <1>9, <2>1
<1>11. \A n \in {"settings", "localSettings"} : n # A =>
         /\ z[n] = NoFile <=> ds[n] = NoFile
         /\ Droid!HasContainer(z, n) <=> Droid!HasContainer(ds, n)
  <2> TAKE n \in {"settings", "localSettings"}
  <2> HAVE n # A
  <2>1. n \in Names("droid") BY DroidNames
  <2>2. (z[n] = NoFile <=> ds[n] = NoFile) /\ (z[n] # NoFile => z[n].root = ds[n].root)
    BY <1>6, <2>1
  <2>3. \A x : Droid!Source(x, n) = IF x[n] # NoFile THEN x[n] ELSE Droid!NewDocument
    BY DEF Droid!Source
  <2> HIDE DEF A
  <2> QED BY <1>8, <1>9, <2>2, <2>3
<1>12. Droid!ActiveDocument(z) = A
  <2>1. z[A] # NoFile BY <1>3, <1>7
  <2>2. CASE ds["root"] # NoFile
    <3>1. A = "root" BY <2>2, DroidActive
    <3> QED BY <2>1, <3>1, DroidActive
  <2>3. CASE ds["root"] = NoFile /\ ds["legacy"] # NoFile
    <3>1. A = "legacy" BY <2>3, DroidActive
    <3>2. z["root"] = NoFile BY <1>6, <2>3, <3>1, DroidNames
    <3> QED BY <2>1, <3>1, <3>2, DroidActive
  <2>4. CASE ds["root"] = NoFile /\ ds["legacy"] = NoFile
    <3>1. A = IF Droid!HasContainer(ds, "localSettings") THEN "localSettings"
              ELSE IF Droid!HasContainer(ds, "settings") THEN "settings" ELSE "root"
      BY <2>4, DroidActive
    <3>2. CASE A = "root" BY <2>1, <3>2, DroidActive
    <3>3. CASE A # "root"
      <4>1. z["root"] = NoFile /\ z["legacy"] = NoFile
        <5>1. A # "legacy" BY <3>1
        <5> QED BY <1>6, <2>4, <3>3, <5>1, DroidNames
      <4>2. CASE A = "localSettings" BY <1>10, <3>1, <4>1, <4>2, DroidActive
      <4>3. CASE A = "settings"
        <5>1. ~Droid!HasContainer(z, "localSettings") /\ Droid!HasContainer(z, "settings")
          BY <1>10, <1>11, <3>1, <4>3
        <5> QED BY <4>1, <4>3, <5>1, DroidActive
      <4> QED BY <3>1, <3>3, <4>2, <4>3
    <3> QED BY <3>2, <3>3
  <2> QED BY <2>2, <2>3, <2>4
<1>13. Droid!Install(z, a) = z
  <2>1. Droid!Install(z, a) =
          [n \in Names("droid") |->
                      IF n = A THEN DroidNext(z, a)
                      ELSE IF DroidOther(z, n) THEN DroidLeft(n, z[n], Agents)
                      ELSE z[n]]
    <3>1. Droid!Install(z, a) =
            [n \in Names("droid") |->
                      IF n = Droid!ActiveDocument(z) THEN DroidNext(z, a)
                      ELSE IF DroidOther(z, n) THEN DroidLeft(n, z[n], Agents)
                      ELSE z[n]]
      BY DroidInstall
    <3> HIDE DEF A
    <3> QED BY <1>12, <3>1
  <2>2. DroidNext(z, a) = new
    <3>1. Droid!Source(z, A) = new BY <1>3, <1>7 DEF Droid!Source
    <3> QED BY <1>3, <1>12, <3>1 DEF DroidNext
  <2>3. \A n \in Names("droid") : n # A /\ DroidOther(z, n) => DroidOther(ds, n)
    <3> TAKE n \in Names("droid")
    <3> HAVE n # A /\ DroidOther(z, n)
    <3>1. z[n] # NoFile /\ n \in Droid!Sources /\ (n \in {"root", "legacy"} \/ Droid!HasContainer(z, n))
      BY DEF DroidOther
    <3>2. ds[n] # NoFile BY <1>6, <3>1
    <3>3. n \in {"root", "legacy"} \/ n \in {"settings", "localSettings"} BY <3>1, DroidNames
    <3> QED BY <1>11, <3>1, <3>2, <3>3 DEF DroidOther
  <2> HIDE DEF A
  <2>4. \A n \in Names("droid") :
          (IF n = A THEN DroidNext(z, a)
           ELSE IF DroidOther(z, n) THEN DroidLeft(n, z[n], Agents)
           ELSE z[n]) = z[n]
    BY <1>6, <1>7, <2>2, <2>3
  <2>5. z = [n \in Names("droid") |-> z[n]] BY DEF WellFormed
  <2> QED BY <2>1, <2>4, <2>5
<1>14. Droid!Parses(z)
  <2>1. \A x : Droid!Parses(x) <=> \A n \in DOMAIN x : x[n] # NoFile => "malformed" \notin x[n].root
    BY DEF Droid!Parses, Droid!ReadHookMap
  <2>2. DOMAIN ds = Names("droid") BY DEF WellFormed
  <2>3. \A n \in Names("droid") : ds[n] # NoFile => "malformed" \notin ds[n].root BY <2>1, <2>2
  <2>4. "malformed" \notin OrNew(ds[A]).root
    <3>1. OrNew(ds[A]).root = IF ds[A] = NoFile THEN {} ELSE ds[A].root BY DEF OrNew, NewDocument, Document
    <3> QED BY <1>1, <2>3, <3>1
  <2>5. "malformed" \notin new.root BY <1>5, <2>4
  <2> HIDE DEF A
  <2>6. \A n \in Names("droid") : z[n] # NoFile => "malformed" \notin z[n].root
    BY <1>6, <1>7, <2>3, <2>5
  <2> QED BY <1>4, <2>1, <2>6
<1>15. Droid!HookBlock(z) <=> Droid!HookBlock(ds)
  <2>1. \A n \in Names("droid") : DroidSays(z[n]) = DroidSays(ds[n])
    <3> TAKE n \in Names("droid")
    <3> DEFINE r == OrNew(z[n]).root
               q == OrNew(ds[n]).root
    <3>1. CASE n = A
      <4>1. r = new.root BY <1>3, <1>7, <3>1
      <4>2. q \subseteq r /\ r \subseteq q \cup {"hooks", "marker"} BY <1>5, <3>1, <4>1
      <4> HIDE DEF r, q
      <4> QED BY <4>2 DEF DroidSays, r, q
    <3>2. CASE n # A
      <4>1. r = q \/ (r = {} /\ q \subseteq {"hooks", "marker"}) BY <1>6, <3>2
      <4> HIDE DEF r, q
      <4> QED BY <4>1 DEF DroidSays, r, q
    <3> QED BY <3>1, <3>2
  <2> QED BY <1>10, <1>12, <2>1, DroidBlock
<1>16. Droid!Contracts(z) = {a}
  <2>1. Droid!Source(z, A) = new BY <1>3, <1>7 DEF Droid!Source
  <2>2. Droid!Contracts(z) = Droid!RuntimeContracts(new.hooks) BY <1>12, <2>1 DEF Droid!Contracts
  <2>3. Droid!RuntimeContracts(new.hooks) = {a} BY <1>2, DroidTaken
  <2> QED BY <2>2, <2>3
<1> QED BY <1>13, <1>14, <1>15, <1>16, DroidFields DEF Takes

(* An installation clears the other documents that have hooks.             *)
LEMMA DroidClears == Clears("droid")
<1> SUFFICES ASSUME NEW ds, WellFormed("droid", ds), NEW a \in Agents, NEW n \in Droid!Sources,
                    n # Droid!ActiveDocument(ds), NEW e \in Pair, NEW b \in Agents
             PROVE  ~Knows("droid", ListAt(Droid!Install(ds, a), n, e), e, b)
  BY DroidFields, DroidNames, DroidFits DEF Clears
<1> DEFINE z == Droid!Install(ds, a)
           old == ds[n]
<1>1. n \in Names("droid") BY DroidNames
<1>2. z[n] = IF DroidOther(ds, n) THEN DroidLeft(n, old, Agents) ELSE old
  <2> DEFINE A == Droid!ActiveDocument(ds)
  <2>1. z = [m \in Names("droid") |->
                      IF m = A THEN DroidNext(ds, a)
                      ELSE IF DroidOther(ds, m) THEN DroidLeft(m, ds[m], Agents)
                      ELSE ds[m]]
    BY DroidOps, ZenonT(40)
  <2>2. n # A OBVIOUS
  <2> HIDE DEF z, A
  <2> QED BY <1>1, <2>1, <2>2
<1> HIDE DEF z
<1>3. DOMAIN OrNew(NoFile).hooks = {}
  <2>1. OrNew(NoFile).hooks = <<>> BY DEF OrNew, NewDocument, Document
  <2>2. DOMAIN <<>> = {} OBVIOUS
  <2> QED BY <2>1, <2>2
<1>4. CASE old = NoFile \/ ~DroidOther(ds, n)
  <2>1. DOMAIN OrNew(z[n]).hooks = {}
    <3>1. CASE old = NoFile
      <4>1. z[n] = NoFile BY <3>1, <1>2 DEF DroidLeft
      <4> QED BY <4>1, <1>3
    <3>2. CASE old # NoFile /\ ~DroidOther(ds, n)
      <4>1. n \in {"settings", "localSettings"} /\ ~Droid!HasContainer(ds, n)
        BY <3>2, DroidNames DEF DroidOther
      <4>2. "hooks" \notin old.root BY <3>2, <4>1 DEF Droid!HasContainer, Droid!Source
      <4>3. Contained("droid", n, old) BY <1>1, <3>2 DEF WellFormed
      <4>4. DOMAIN old.hooks = {} BY <4>1, <4>2, <4>3, DroidFits DEF Held
      <4>5. OrNew(z[n]) = old BY <1>2, <3>2 DEF OrNew
      <4> QED BY <4>4, <4>5
    <3> QED BY <1>4, <3>1, <3>2
  <2> QED BY <2>1, EmptyKnows DEF ListAt, z
<1>5. CASE old # NoFile /\ DroidOther(ds, n)
  <2> DEFINE N == DroidRemoval(old.hooks, Agents)
             rest == DroidRest(old, Agents)
  <2>1. IsHooks(old.hooks, DroidWay) BY <1>1, <1>5, DroidOld
  <2>2. Purged(N, old.hooks, Pair, Agents, DroidWay) BY <2>1, DroidPurged
  <2>3. Looks("droid", DroidWay) BY DEF Looks, Recognised, DroidWay, GroupWay, Newest, Shapes
  <2>4. IsWay(DroidWay) /\ Pair \in SUBSET AllEvents BY DroidFits DEF Fits
  <2>5. rest.hooks = N BY DEF DroidRest, Document
  <2>6. z[n] = NoFile \/ z[n] = rest BY <1>2, <1>5 DEF DroidLeft
  <2> HIDE DEF N, rest
  <2>7. ~Knows("droid", At(N, e), e, b) BY <2>1, <2>2, <2>3, <2>4, PurgedKnows
  <2>8. DOMAIN OrNew(z[n]).hooks = {} \/ OrNew(z[n]).hooks = N BY <1>3, <2>5, <2>6 DEF OrNew
  <2> QED BY <2>7, <2>8, EmptyKnows DEF ListAt, z
<1> QED BY <1>4, <1>5

(* Droid: every installation takes and is steady, every removal clean.     *)
LEMMA DroidSound == Sound("droid")
<1>1. Looks("droid", DroidWay) BY DEF Looks, Recognised, DroidWay, GroupWay, Newest, Shapes
<1>2. Clears("droid") BY DroidClears
<1> QED BY <1>1, <1>2, DroidFits, DroidPerforms, DroidRepeats, HostSound

-----------------------------------------------------------------------------
(* What the user does with the files.                                      *)

\* Nothing runs in z, and no handler is in place in it, that did not run or
\* was not in place in x.
Less(z, x) ==
  /\ \A y : Has(z, y) /\ y.owner \in Agents /\ y.form = "exact" => Has(x, y)
  /\ \A b \in Agents : Runs(z, b) => Runs(x, b)

ListLess(l, m) ==
  /\ \A y : ListHas(l, y) /\ y.owner \in Agents /\ y.form = "exact" => ListHas(m, y)
  /\ \A b \in Agents : RunsAt(l, b) => RunsAt(m, b)

FileEdited(h, n, new, old) ==
  /\ new # NoFile => IsDocument(new, Elements(h)) /\ Contained(h, n, new)
  /\ \A e \in AllEvents : ListLess(At(OrNew(new).hooks, e), At(OrNew(old).hooks, e))

Edited(h, new, ds) ==
  /\ new = [n \in Names(h) |-> new[n]]
  /\ \A n \in Names(h) : FileEdited(h, n, new[n], ds[n])
  /\ Written(h, ds) \subseteq Written(h, new)
  /\ h = "kimi" => Homes(new["homes"])

(* An edit leaves documents the host may have, in which nothing runs that  *)
(* did not.                                                                *)
LEMMA EditedKeeps ==
  ASSUME NEW h, NEW ds, WellFormed(h, ds), NEW new, Edited(h, new, ds)
  PROVE  /\ WellFormed(h, new)
         /\ DOMAIN new = Names(h) /\ DOMAIN ds = Names(h)
         /\ \A n \in Names(h), e \in AllEvents : \A b \in Agents :
              RunsAt(ListAt(new, n, e), b) => RunsAt(ListAt(ds, n, e), b)
<1>1. DOMAIN ds = Names(h) BY DEF WellFormed
<1>2. \A n \in Names(h), e \in AllEvents : ListLess(ListAt(new, n, e), ListAt(ds, n, e))
  BY DEF Edited, FileEdited, ListAt
<1>3. InPlaceHas(h, ds) BY InPlaceIff DEF WellFormed
<1>4. InPlaceHas(h, new) BY <1>2, <1>3 DEF InPlaceHas, ListLess, Edited
<1>5. WellFormed(h, new) BY <1>4, InPlaceIff DEF WellFormed, Edited, FileEdited
<1>6. DOMAIN new = Names(h) BY DEF Edited
<1> QED BY <1>1, <1>2, <1>5, <1>6 DEF ListLess

(* A list has no less than itself, and nothing has less.                   *)
LEMMA SameLess == \A l : ListLess(l, l) /\ ListLess(<<>>, l)
<1>1. DOMAIN <<>> = {} OBVIOUS
<1> QED BY <1>1 DEF ListLess, ListHas, RunsAt

(* A list whose elements have each one in another that has no less.        *)
LEMMA ListLessThan ==
  ASSUME NEW l, NEW m, \A i \in DOMAIN l : \E j \in DOMAIN m : Less(l[i], m[j])
  PROVE  ListLess(l, m)
BY DEF ListLess, ListHas, RunsAt, Less

(* An element has no less than itself.                                     *)
LEMMA LessItself == \A x : Less(x, x)
BY DEF Less

(* A host's lists.                                                         *)
LEMMA HostKind ==
  ASSUME NEW h
  PROVE  /\ Elements(h) = Listed \/ Elements(h) = Grouped
         /\ h \in {"opencode", "cline", "cursor", "copilot", "kimi"} => Elements(h) = Listed
         /\ h \in {"gemini", "qwen", "letta", "claudecode"} => Elements(h) = Grouped
         /\ \E w : IsWay(w) /\ Kind(w) = Elements(h)
<1>1. Elements(h) = Listed \/ Elements(h) = Grouped BY DEF Elements
<1>2. h \in {"opencode", "cline", "cursor", "copilot", "kimi"} => Elements(h) = Listed BY DEF Elements
<1>3. h \in {"gemini", "qwen", "letta", "claudecode"} => Elements(h) = Grouped BY DEF Elements
<1>4. Three \in SUBSET Forms /\ "exact" \in Three /\ Shapes \in SUBSET Shapes /\ "exact" \in Shapes
      /\ TRUE \in BOOLEAN
  BY DEF Three, Forms, Shapes
<1>5. IsWay(FlatWay(Three)) /\ Kind(FlatWay(Three)) = Listed BY <1>4, FlatIsWay
<1>6. IsWay(GroupWay(Three, Shapes, Shapes, TRUE)) /\ Kind(GroupWay(Three, Shapes, Shapes, TRUE)) = Grouped
  BY <1>4, GroupIsWay
<1> QED BY <1>1, <1>2, <1>3, <1>5, <1>6

HostHooks(h, H) ==
  /\ H = [e \in DOMAIN H |-> H[e]] /\ DOMAIN H \in SUBSET AllEvents
  /\ \A e \in DOMAIN H : H[e] \in Seq(Elements(h))

(* A file of a host.                                                       *)
LEMMA HostFile ==
  ASSUME NEW h, NEW ds, WellFormed(h, ds), NEW n \in Names(h), ds[n] # NoFile
  PROVE  /\ IsDocument(ds[n], Elements(h)) /\ Contained(h, n, ds[n])
         /\ ds[n] = Document(ds[n].root, ds[n].hooks) /\ OrNew(ds[n]) = ds[n]
         /\ ds[n].root \in SUBSET Fields
         /\ HostHooks(h, ds[n].hooks)
<1>1. PICK w : IsWay(w) /\ Kind(w) = Elements(h) BY HostKind
<1>2. IsDocument(ds[n], Elements(h)) /\ Contained(h, n, ds[n]) BY DEF WellFormed
<1>3. /\ ds[n] = Document(ds[n].root, ds[n].hooks) /\ ds[n].root \in SUBSET Fields
      /\ IsHooks(ds[n].hooks, w)
  BY <1>1, <1>2, DocumentParts
<1>4. OrNew(ds[n]) = ds[n] BY DEF OrNew
<1> QED BY <1>1, <1>2, <1>3, <1>4 DEF IsHooks, HostHooks

(* Another root, another set of lists.                                     *)
LEMMA HostFileMade ==
  ASSUME NEW h, NEW r \in SUBSET Fields, NEW N, HostHooks(h, N)
  PROVE  /\ IsDocument(Document(r, N), Elements(h)) /\ Document(r, N) # NoFile
         /\ OrNew(Document(r, N)) = Document(r, N)
         /\ Document(r, N).root = r /\ Document(r, N).hooks = N
<1>1. PICK w : IsWay(w) /\ Kind(w) = Elements(h) BY HostKind
<1>2. IsHooks(N, w) BY <1>1 DEF IsHooks, HostHooks
<1>3. /\ IsDocument(Document(r, N), Elements(h)) /\ Document(r, N) # NoFile
      /\ Document(r, N).root = r /\ Document(r, N).hooks = N
  BY <1>1, <1>2, DocumentMade
<1> QED BY <1>3 DEF OrNew

(* One file is edited.                                                     *)
LEMMA OneEdited ==
  ASSUME NEW h, NEW ds, WellFormed(h, ds), NEW n \in Names(h), NEW d,
         FileEdited(h, n, d, ds[n]), h = "kimi" => n # "homes"
  PROVE  Edited(h, [ds EXCEPT ![n] = d], ds)
<1> DEFINE z == [ds EXCEPT ![n] = d]
<1>1. ds = [m \in Names(h) |-> ds[m]] BY DEF WellFormed
<1>2. z = [m \in Names(h) |-> z[m]] /\ z[n] = d /\ \A m \in Names(h) : m # n => z[m] = ds[m]
  BY <1>1
<1> HIDE DEF z
<1>3. \A m \in Names(h) : FileEdited(h, m, ds[m], ds[m])
  BY SameLess DEF FileEdited, WellFormed
<1>4. \A m \in Names(h) : FileEdited(h, m, z[m], ds[m]) BY <1>2, <1>3
<1>5. h # "kimi" => Written(h, ds) = Written(h, z) BY DEF Written
<1>6. h = "kimi" => z["homes"] = ds["homes"]
  <2>1. h = "kimi" => "homes" \in Names(h) BY DEF Names
  <2> QED BY <1>2, <2>1
<1>7. h = "kimi" => Written(h, ds) = Written(h, z) BY <1>6 DEF Written, Kimi!Detected
<1>8. h = "kimi" => Homes(z["homes"]) BY <1>6 DEF WellFormed
<1> QED BY <1>2, <1>4, <1>5, <1>7, <1>8 DEF Edited, z

(* A list of a file is edited.                                             *)
LEMMA ListEdited ==
  ASSUME NEW h, NEW ds, WellFormed(h, ds), NEW n \in Names(h), ds[n] # NoFile,
         NEW e \in DOMAIN ds[n].hooks, NEW l \in Seq(Elements(h)), ListLess(l, ds[n].hooks[e]),
         Len(l) <= Len(ds[n].hooks[e]),
         h = "claudecode" => \A i \in DOMAIN l : l[i].shape = "exact" => l[i].hooks # <<>>
  PROVE  FileEdited(h, n, [ds[n] EXCEPT !.hooks = [ds[n].hooks EXCEPT ![e] = l]], ds[n])
<1> DEFINE r == ds[n].root
           H == ds[n].hooks
           N == [H EXCEPT ![e] = l]
<1>1. /\ Contained(h, n, ds[n]) /\ ds[n] = Document(r, H) /\ OrNew(ds[n]) = ds[n]
      /\ r \in SUBSET Fields /\ HostHooks(h, H)
  BY HostFile
<1>h. /\ DOMAIN H \in SUBSET AllEvents
      /\ H = [v \in DOMAIN H |-> H[v]]
      /\ \A v \in DOMAIN H : H[v] \in Seq(Elements(h))
  <2> HIDE DEF H
  <2> QED BY <1>1 DEF HostHooks
<1>2. /\ DOMAIN N = DOMAIN H /\ N = [v \in DOMAIN N |-> N[v]] /\ N[e] = l
      /\ \A v \in DOMAIN N : v # e => N[v] = H[v]
  BY <1>h
<1>3. [ds[n] EXCEPT !.hooks = N] = Document(r, N)
  <2> HIDE DEF N
  <2>1. \A q, M : [Document(q, M) EXCEPT !.hooks = N] = Document(q, N) BY DEF Document
  <2> HIDE DEF r, H
  <2> QED BY <1>1, <2>1
<1>4. e \in DOMAIN H OBVIOUS
<1> HIDE DEF N, H, r
<1> DEFINE d == Document(r, N)
<1>5. \A v \in DOMAIN N : N[v] \in Seq(Elements(h)) BY <1>h, <1>2
<1>6. HostHooks(h, N) BY <1>h, <1>2, <1>5 DEF HostHooks
<1>7. /\ IsDocument(d, Elements(h)) /\ d # NoFile /\ OrNew(d) = d
      /\ d.root = r /\ d.hooks = N
  BY <1>1, <1>6, HostFileMade
<1> HIDE DEF d
<1>8. \A v : ListLess(At(N, v), At(H, v))
  <2> TAKE v
  <2>1. CASE v = e BY <1>2, <1>4, <2>1 DEF At, H
  <2>2. CASE v # e
    <3>1. At(N, v) = At(H, v) BY <1>2, <2>2 DEF At
    <3> QED BY <3>1, SameLess
  <2> QED BY <2>1, <2>2
<1>9. Contained(h, n, d)
  <2>1. /\ HasSettings(h, n) => (DOMAIN H # {} => "hooks" \in r)
        /\ h \in {"opencode", "cline"} => r \subseteq {"version", "hooks", "malformed"}
        /\ h = "claudecode" => \A v \in DOMAIN H : \A i \in DOMAIN H[v] :
              H[v][i].shape = "exact" => H[v][i].hooks # <<>>
        /\ h = "cline" => DOMAIN H \subseteq {Cline!EventOf(n)} /\ \A v \in DOMAIN H : Len(H[v]) <= 1
    BY <1>1 DEF Contained, Every, r, H
  <2>2. HasSettings(h, n) => (DOMAIN N # {} => "hooks" \in r) BY <1>2, <2>1
  <2>3. h = "claudecode" => \A v \in DOMAIN N : \A i \in DOMAIN N[v] :
              N[v][i].shape = "exact" => N[v][i].hooks # <<>>
    BY <1>2, <2>1
  <2>4. h = "cline" => \A v \in DOMAIN N : Len(N[v]) <= 1
    <3> SUFFICES ASSUME h = "cline", NEW v \in DOMAIN N PROVE Len(N[v]) <= 1
      OBVIOUS
    <3>1. CASE v # e BY <1>2, <2>1, <3>1
    <3>2. CASE v = e
      <4>1. Len(H[e]) <= 1 /\ Len(l) <= Len(H[e]) BY <1>4, <2>1 DEF H
      <4>2. Len(H[e]) \in Nat /\ Len(l) \in Nat
        <5>1. H[e] \in Seq(Elements(h)) BY <1>h, <1>4
        <5> QED BY <5>1
      <4> QED BY <1>2, <3>2, <4>1, <4>2
    <3> QED BY <3>1, <3>2
  <2> QED BY <1>2, <1>7, <2>1, <2>2, <2>3, <2>4 DEF Contained, Every
<1>10. FileEdited(h, n, d, ds[n])
  BY <1>1, <1>7, <1>8, <1>9 DEF FileEdited, H
<1> QED BY <1>3, <1>10 DEF d, N, H

(* A handler or a group is edited.                                         *)
LEMMA HandlerEdited ==
  ASSUME NEW y \in Listed, NEW f \in Forms
  PROVE  LET z == [y EXCEPT !.form = f]
         IN  z \in Listed /\ z.form = f /\ z.owner = y.owner /\ z.script = y.script
BY DEF Listed

(* An edited element runs nothing that it did not run before.              *)
LEMMA ElementEditedLess ==
  ASSUME NEW G, G = Listed \/ G = Grouped, NEW x \in G, NEW own \in BOOLEAN
  PROVE  LET z == ElementEdited(x, own)
         IN  /\ z \in G /\ Less(z, x)
             /\ G = Grouped /\ z.shape = "exact" /\ z.hooks = <<>> =>
                  x.shape = "exact" /\ x.hooks = <<>>
<1>1. CASE x \in Listed /\ G = Listed
  <2> DEFINE z == [x EXCEPT !.form = "edited"]
  <2>1. "edited" \in Forms /\ "edited" # "exact" BY DEF Forms
  <2>2. z \in Listed /\ z.form = "edited" BY <1>1, <2>1, HandlerEdited
  <2>3. ElementEdited(x, own) = z BY <1>1, ElementKinds DEF ElementEdited
  <2> HIDE DEF z
  <2>4. InElement(z) = <<z>> /\ "hooks" \notin DOMAIN z BY <2>2, ElementKinds
  <2>5. \A b : ~Runs(z, b) BY <2>1, <2>2, <2>4 DEF Runs, Exact
  <2>6. \A y : Has(z, y) => y = z BY <2>4 DEF Has
  <2>7. Less(z, x) BY <2>1, <2>2, <2>5, <2>6 DEF Less
  <2>8. Listed # Grouped BY <1>1, ElementKinds
  <2> QED BY <1>1, <2>2, <2>3, <2>7, <2>8
<1>2. CASE x \in Grouped /\ G = Grouped /\ own
  <2> DEFINE hs == Append(x.hooks, Own)
             z == [x EXCEPT !.shape = "own", !.hooks = hs]
  <2>1. x.hooks \in Seq(Listed) /\ "hooks" \in DOMAIN x /\ InElement(x) = x.hooks
    BY <1>2, ElementKinds
  <2>2. Own \in Listed BY DEF Own, Listed, Forms
  <2>3. hs \in Seq(Listed) BY <2>1, <2>2
  <2>4. \A i \in DOMAIN hs : hs[i] = Own \/ (i \in DOMAIN x.hooks /\ hs[i] = x.hooks[i])
    BY <2>1, <2>2
  <2> HIDE DEF hs
  <2>5. z \in Grouped /\ z.shape = "own" /\ z.hooks = hs BY <1>2, <2>3 DEF Grouped
  <2>6. ElementEdited(x, own) = z BY <1>2, <2>1 DEF ElementEdited, hs
  <2> HIDE DEF z
  <2>7. InElement(z) = hs /\ "hooks" \in DOMAIN z BY <2>5, ElementKinds
  <2>8. \A b : ~Runs(z, b) BY <2>5, <2>7 DEF Runs
  <2>9. Own.owner \notin Agents BY HostAssumption DEF Own
  <2>10. \A y : Has(z, y) /\ y.owner \in Agents => Has(x, y)
    BY <2>1, <2>4, <2>7, <2>9 DEF Has
  <2>11. Less(z, x) BY <2>8, <2>10 DEF Less
  <2> QED BY <1>2, <2>5, <2>6, <2>11
<1>3. CASE x \in Grouped /\ G = Grouped /\ ~own
  <2> DEFINE hs == [j \in DOMAIN x.hooks |-> [x.hooks[j] EXCEPT !.form = "edited"]]
             z == [x EXCEPT !.hooks = hs]
  <2>1. x.hooks \in Seq(Listed) /\ "hooks" \in DOMAIN x /\ InElement(x) = x.hooks
    BY <1>3, ElementKinds
  <2>2. "edited" \in Forms /\ "edited" # "exact" BY DEF Forms
  <2>3. \A i \in DOMAIN x.hooks : x.hooks[i] \in Listed BY <2>1
  <2>4. \A i \in DOMAIN x.hooks : hs[i] \in Listed /\ hs[i].form = "edited"
    BY <2>2, <2>3, HandlerEdited
  <2>5. DOMAIN hs = DOMAIN x.hooks /\ hs = [i \in DOMAIN hs |-> hs[i]] OBVIOUS
  <2> HIDE DEF hs
  <2>6. hs \in Seq(Listed)
    <3>1. DOMAIN hs = 1 .. Len(x.hooks) /\ Len(x.hooks) \in Nat BY <2>1, <2>5
    <3> QED BY <2>4, <2>5, <3>1
  <2>7. z \in Grouped /\ z.shape = x.shape /\ z.hooks = hs BY <1>3, <2>6 DEF Grouped
  <2>8. ElementEdited(x, own) = z BY <1>3, <2>1 DEF ElementEdited, hs
  <2> HIDE DEF z
  <2>9. InElement(z) = hs /\ "hooks" \in DOMAIN z BY <2>7, ElementKinds
  <2>10. \A b : ~Runs(z, b) BY <2>2, <2>4, <2>5, <2>7, <2>9 DEF Runs, Exact, Some
  <2>11. \A y : Has(z, y) => y.form # "exact" BY <2>2, <2>4, <2>5, <2>9 DEF Has
  <2>12. Less(z, x) BY <2>10, <2>11 DEF Less
  <2>13. z.hooks = <<>> => x.hooks = <<>>
    <3>1. hs = <<>> => DOMAIN hs = {} OBVIOUS
    <3>2. DOMAIN x.hooks = {} => x.hooks = <<>> BY <2>1
    <3> QED BY <2>5, <2>7, <3>1, <3>2
  <2> QED BY <1>3, <2>7, <2>8, <2>12, <2>13
<1> QED BY <1>1, <1>2, <1>3

(* A list with one element replaced by one that has less.                  *)
LEMMA ReplacedLess ==
  ASSUME NEW l, NEW i \in DOMAIN l, NEW z, Less(z, l[i])
  PROVE  ListLess([l EXCEPT ![i] = z], l)
<1> DEFINE m == [l EXCEPT ![i] = z]
<1>1. DOMAIN m = DOMAIN l /\ \A j \in DOMAIN l : m[j] = IF j = i THEN z ELSE l[j] OBVIOUS
<1> HIDE DEF m
<1>2. \A j \in DOMAIN m : \E k \in DOMAIN l : Less(m[j], l[k]) BY <1>1, LessItself
<1>3. ListLess(m, l) BY <1>2, ListLessThan
<1> QED BY <1>3 DEF m

(* Each edit, as it changes the documents.                                 *)
LEMMA EditElementEdits ==
  ASSUME TypeOK, EditElement
  PROVE  Edited(host, docs', docs) /\ runtime' = runtime
<1>1. PICK n \in DOMAIN docs, e \in AllEvents :
        /\ docs[n] # NoFile
        /\ \E i \in DOMAIN At(docs[n].hooks, e), own \in BOOLEAN :
             Edit([docs EXCEPT ![n].hooks[e][i] = ElementEdited(docs[n].hooks[e][i], own)])
  BY DEF EditElement
<1>2. PICK i \in DOMAIN At(docs[n].hooks, e), own \in BOOLEAN :
        docs' = [docs EXCEPT ![n].hooks[e][i] = ElementEdited(docs[n].hooks[e][i], own)]
  <2>1. PICK i \in DOMAIN At(docs[n].hooks, e), own \in BOOLEAN :
          Edit([docs EXCEPT ![n].hooks[e][i] = ElementEdited(docs[n].hooks[e][i], own)])
    BY <1>1
  <2>2. docs' = [docs EXCEPT ![n].hooks[e][i] = ElementEdited(docs[n].hooks[e][i], own)]
    BY <2>1 DEF Edit
  <2> QED BY <2>2
<1>3. WellFormed(host, docs) /\ n \in Names(host) BY DEF TypeOK, WellFormed
<1> DEFINE H == docs[n].hooks
           l == H[e]
           x == ElementEdited(l[i], own)
           m == [l EXCEPT ![i] = x]
           d == [docs[n] EXCEPT !.hooks = [docs[n].hooks EXCEPT ![e] = m]]
<1>4. DOMAIN <<>> = {} OBVIOUS
<1>5. e \in DOMAIN H /\ i \in DOMAIN l
  <2>1. i \in DOMAIN At(H, e) BY <1>2
  <2> HIDE DEF H
  <2> QED BY <1>4, <2>1 DEF At
<1>6. docs' = [docs EXCEPT ![n] = d] BY <1>2
<1>7. HostHooks(host, H) /\ Contained(host, n, docs[n]) BY <1>1, <1>3, HostFile
<1>8. l \in Seq(Elements(host))
  <2> HIDE DEF H
  <2> QED BY <1>5, <1>7 DEF HostHooks
<1>9. l[i] \in Elements(host)
  <2> HIDE DEF l
  <2> QED BY <1>5, <1>8
<1>10. /\ x \in Elements(host) /\ Less(x, l[i])
       /\ Elements(host) = Grouped /\ x.shape = "exact" /\ x.hooks = <<>> =>
            l[i].shape = "exact" /\ l[i].hooks = <<>>
  <2>1. Elements(host) = Listed \/ Elements(host) = Grouped BY HostKind
  <2> HIDE DEF l
  <2> QED BY <1>9, <2>1, ElementEditedLess
<1>11. ListLess(m, l)
  <2> HIDE DEF x, l
  <2> QED BY <1>5, <1>10, ReplacedLess
<1>12. m \in Seq(Elements(host)) /\ Len(m) = Len(l) /\ DOMAIN m = DOMAIN l
       /\ \A j \in DOMAIN l : m[j] = IF j = i THEN x ELSE l[j]
  <2> HIDE DEF x, l
  <2> QED BY <1>5, <1>8, <1>10
<1>13. host = "claudecode" => \A j \in DOMAIN m : m[j].shape = "exact" => m[j].hooks # <<>>
  <2> SUFFICES ASSUME host = "claudecode", NEW j \in DOMAIN m, m[j].shape = "exact",
                      m[j].hooks = <<>>
               PROVE  FALSE
    OBVIOUS
  <2>1. \A k \in DOMAIN l : l[k].shape = "exact" => l[k].hooks # <<>>
    <3>1. \A v \in DOMAIN H : \A k \in DOMAIN H[v] : H[v][k].shape = "exact" => H[v][k].hooks # <<>>
      BY <1>7 DEF Contained, Every
    <3> HIDE DEF H
    <3> QED BY <1>5, <3>1
  <2>2. Elements(host) = Grouped BY HostKind
  <2> HIDE DEF m, x, l
  <2> QED BY <1>5, <1>10, <1>12, <2>1, <2>2
<1>14. Len(m) <= Len(l)
  <2>1. Len(l) \in Nat
    <3> HIDE DEF l
    <3> QED BY <1>8
  <2> HIDE DEF l, m
  <2> QED BY <1>12, <2>1
<1>15. FileEdited(host, n, d, docs[n])
  <2> HIDE DEF m
  <2> QED BY <1>1, <1>3, <1>5, <1>11, <1>12, <1>13, <1>14, ListEdited
<1>16. host = "kimi" => n # "homes"
  <2>1. host = "kimi" => Homes(docs["homes"]) BY <1>3 DEF WellFormed
  <2> QED BY <1>4, <1>5, <2>1 DEF Homes
<1>17. Edited(host, [docs EXCEPT ![n] = d], docs)
  <2> HIDE DEF d
  <2> QED BY <1>3, <1>15, <1>16, OneEdited
<1>18. runtime' = runtime BY DEF EditElement
<1> QED BY <1>6, <1>17, <1>18

(* An element is deleted.                                                  *)
LEMMA DeleteElementEdits ==
  ASSUME TypeOK, DeleteElement
  PROVE  Edited(host, docs', docs) /\ runtime' = runtime
<1>1. PICK n \in DOMAIN docs, e \in AllEvents :
        /\ docs[n] # NoFile
        /\ \E i \in DOMAIN At(docs[n].hooks, e) :
             docs' = [docs EXCEPT ![n].hooks[e] = Pick(docs[n].hooks[e], DOMAIN docs[n].hooks[e] \ {i})]
  BY ZenonT(60) DEF DeleteElement, Edit
<1>2. PICK i \in DOMAIN At(docs[n].hooks, e) :
        docs' = [docs EXCEPT ![n].hooks[e] = Pick(docs[n].hooks[e], DOMAIN docs[n].hooks[e] \ {i})]
  BY <1>1
<1>3. WellFormed(host, docs) /\ n \in Names(host) BY DEF TypeOK, WellFormed
<1> DEFINE H == docs[n].hooks
           l == H[e]
           S == DOMAIN l \ {i}
           m == Pick(l, S)
           d == [docs[n] EXCEPT !.hooks = [docs[n].hooks EXCEPT ![e] = m]]
<1>4. DOMAIN <<>> = {} OBVIOUS
<1>5. e \in DOMAIN H /\ i \in DOMAIN l
  <2>1. i \in DOMAIN At(H, e) BY <1>2
  <2> HIDE DEF H
  <2> QED BY <1>4, <2>1 DEF At
<1>6. docs' = [docs EXCEPT ![n] = d] BY <1>2
<1>7. HostHooks(host, H) /\ Contained(host, n, docs[n]) BY <1>1, <1>3, HostFile
<1>8. l \in Seq(Elements(host))
  <2> HIDE DEF H
  <2> QED BY <1>5, <1>7 DEF HostHooks
<1>9. /\ m \in Seq(Elements(host))
      /\ \A j \in DOMAIN m : \E k \in DOMAIN l : k \in S /\ m[j] = l[k]
  <2> HIDE DEF l, S
  <2> QED BY <1>8, PickRange
<1>10. ListLess(m, l)
  <2> HIDE DEF m, l
  <2>1. \A j \in DOMAIN m : \E k \in DOMAIN l : Less(m[j], l[k]) BY <1>9, LessItself
  <2> QED BY <2>1, ListLessThan
<1>11. host = "claudecode" => \A j \in DOMAIN m : m[j].shape = "exact" => m[j].hooks # <<>>
  <2> SUFFICES ASSUME host = "claudecode" PROVE \A j \in DOMAIN m : m[j].shape = "exact" => m[j].hooks # <<>>
    OBVIOUS
  <2>1. \A k \in DOMAIN l : l[k].shape = "exact" => l[k].hooks # <<>>
    <3>1. \A v \in DOMAIN H : \A k \in DOMAIN H[v] : H[v][k].shape = "exact" => H[v][k].hooks # <<>>
      BY <1>7 DEF Contained, Every
    <3> HIDE DEF H
    <3> QED BY <1>5, <3>1
  <2> HIDE DEF m, l
  <2> QED BY <1>9, <2>1
<1>12. Len(m) <= Len(l)
  <2> HIDE DEF l
  <2> QED BY <1>8, PickShorter
<1>15. FileEdited(host, n, d, docs[n])
  <2> HIDE DEF m
  <2> QED BY <1>1, <1>3, <1>5, <1>9, <1>10, <1>11, <1>12, ListEdited
<1>16. host = "kimi" => n # "homes"
  <2>1. host = "kimi" => Homes(docs["homes"]) BY <1>3 DEF WellFormed
  <2> QED BY <1>4, <1>5, <2>1 DEF Homes
<1>17. Edited(host, [docs EXCEPT ![n] = d], docs)
  <2> HIDE DEF d
  <2> QED BY <1>3, <1>15, <1>16, OneEdited
<1>18. runtime' = runtime BY DEF DeleteElement
<1> QED BY <1>6, <1>17, <1>18

(* The file keeps its lists.                                               *)
LEMMA RootEdited ==
  ASSUME NEW h, NEW ds, WellFormed(h, ds), NEW n \in Names(h), ds[n] # NoFile,
         NEW r \in SUBSET Fields, ds[n].root \subseteq r, h \notin {"opencode", "cline"}
  PROVE  FileEdited(h, n, [ds[n] EXCEPT !.root = r], ds[n])
<1> DEFINE q == ds[n].root
           H == ds[n].hooks
           d == Document(r, H)
<1>1. /\ Contained(h, n, ds[n]) /\ ds[n] = Document(q, H) /\ OrNew(ds[n]) = ds[n]
      /\ HostHooks(h, H)
  BY HostFile
<1>2. [ds[n] EXCEPT !.root = r] = d
  <2>1. \A x, M : [Document(x, M) EXCEPT !.root = r] = Document(r, M) BY DEF Document
  <2> HIDE DEF q, H
  <2> QED BY <1>1, <2>1
<1> HIDE DEF H, d
<1>3. /\ IsDocument(d, Elements(h)) /\ d # NoFile /\ OrNew(d) = d
      /\ d.root = r /\ d.hooks = H
  BY <1>1, HostFileMade DEF d
<1>4. Contained(h, n, d)
  <2>1. /\ HasSettings(h, n) => (DOMAIN H # {} => "hooks" \in q)
        /\ h = "claudecode" => \A e \in DOMAIN H : Every(H[e], LAMBDA g : g.shape = "exact" => g.hooks # <<>>)
    BY <1>1 DEF Contained, H
  <2>2. q \subseteq r OBVIOUS
  <2> HIDE DEF q
  <2> QED BY <1>3, <2>1, <2>2 DEF Contained, Every
<1> QED BY <1>1, <1>2, <1>3, <1>4, SameLess DEF FileEdited, H

(* Hooks are turned off.                                                   *)
LEMMA TurnOffEdits ==
  ASSUME TypeOK, TurnOff
  PROVE  Edited(host, docs', docs) /\ runtime' = runtime
<1>1. PICK n \in DOMAIN docs : docs[n] # NoFile /\ n # "homes"
                               /\ docs' = [docs EXCEPT ![n].root = docs[n].root \cup {"off"}]
  BY DEF TurnOff, Edit
<1>2. WellFormed(host, docs) /\ n \in Names(host) /\ host \notin {"opencode", "cline"}
  BY DEF TypeOK, WellFormed, TurnOff
<1> DEFINE r == docs[n].root \cup {"off"}
           d == [docs[n] EXCEPT !.root = r]
<1>3. docs' = [docs EXCEPT ![n] = d] BY <1>1
<1>4. docs[n].root \in SUBSET Fields BY <1>1, <1>2, HostFile
<1>5. "off" \in Fields BY DEF Fields
<1>6. r \in SUBSET Fields /\ docs[n].root \subseteq r BY <1>4, <1>5
<1> HIDE DEF r
<1>7. FileEdited(host, n, d, docs[n]) BY <1>1, <1>2, <1>6, RootEdited
<1> HIDE DEF d
<1>8. Edited(host, [docs EXCEPT ![n] = d], docs) BY <1>1, <1>2, <1>7, OneEdited
<1> QED BY <1>3, <1>8 DEF TurnOff

(* A file is deleted.                                                      *)
LEMMA DeleteFileEdits ==
  ASSUME TypeOK, DeleteFile
  PROVE  Edited(host, docs', docs) /\ runtime' = runtime
<1>1. PICK n \in DOMAIN docs : n # "homes" /\ docs' = [docs EXCEPT ![n] = NoFile]
  BY DEF DeleteFile, Edit
<1>2. WellFormed(host, docs) /\ n \in Names(host) BY DEF TypeOK, WellFormed
<1>3. OrNew(NoFile).hooks = <<>> /\ \A e : At(<<>>, e) = <<>>
  BY NewHooks DEF OrNew, NewDocument, Document
<1>4. FileEdited(host, n, NoFile, docs[n]) BY <1>3, SameLess DEF FileEdited
<1>5. Edited(host, [docs EXCEPT ![n] = NoFile], docs) BY <1>1, <1>2, <1>4, OneEdited
<1> QED BY <1>1, <1>5 DEF DeleteFile

(* A file is created.                                                      *)
LEMMA CreateFileEdits ==
  ASSUME TypeOK, CreateFile
  PROVE  Edited(host, docs', docs) /\ runtime' = runtime
<1>1. PICK n \in DOMAIN docs :
        IF n = "homes" THEN docs' = [docs EXCEPT ![n].root = {"stable", "legacy"}]
        ELSE docs[n] = NoFile /\ host # "kimi"
             /\ docs' = [docs EXCEPT ![n] = Document({"version", "hooks"}, <<>>)]
  BY DEF CreateFile, Edit
<1>2. WellFormed(host, docs) /\ n \in Names(host) /\ host \in Hosts BY DEF TypeOK, WellFormed
<1>3. CASE n = "homes"
  <2>1. host = "kimi"
    <3>1. \A h \in Hosts : "homes" \in Names(h) => h = "kimi"
      BY HostAssumption DEF Names, Droid!Sources, Cline!Files
    <3> QED BY <1>2, <1>3, <3>1
  <2> DEFINE r == {"stable", "legacy"}
             d == [docs[n] EXCEPT !.root = r]
             z == [docs EXCEPT ![n] = d]
  <2>2. docs' = z BY <1>1, <1>3
  <2>3. Homes(docs[n]) BY <1>2, <1>3, <2>1 DEF WellFormed
  <2>4. docs[n] # NoFile /\ docs[n].root \subseteq r /\ docs[n].hooks = <<>> BY <2>3 DEF Homes
  <2>5. r \in SUBSET Fields BY DEF Fields
  <2>6. FileEdited(host, n, d, docs[n]) BY <1>2, <2>1, <2>4, <2>5, RootEdited
  <2>7. d.root = r /\ d.hooks = <<>> /\ d # NoFile
    <3>1. docs[n] = Document(docs[n].root, docs[n].hooks) /\ HostHooks(host, docs[n].hooks)
      BY <1>2, <2>4, HostFile
    <3> DEFINE q == docs[n].root
               H == docs[n].hooks
    <3>2. \A x, M : [Document(x, M) EXCEPT !.root = r] = Document(r, M) BY DEF Document
    <3>3. d = Document(r, H)
      <4> HIDE DEF q, H
      <4> QED BY <3>1, <3>2 DEF q, H
    <3> HIDE DEF H, r, d
    <3>4. Document(r, H) # NoFile /\ Document(r, H).root = r /\ Document(r, H).hooks = H
      BY <2>5, <3>1, HostFileMade DEF H
    <3> QED BY <2>4, <3>3, <3>4 DEF H
  <2>8. Names(host) = {"homes", "stable", "legacy"} BY <2>1 DEF Names
  <2>9. docs = [m \in Names(host) |-> docs[m]] BY <1>2 DEF WellFormed
  <2> HIDE DEF d
  <2>10. z = [m \in Names(host) |-> z[m]] /\ z["homes"] = d
         /\ \A m \in Names(host) : m # "homes" => z[m] = docs[m]
    BY <1>2, <1>3, <2>9
  <2> HIDE DEF z
  <2>11. \A m \in Names(host) : FileEdited(host, m, docs[m], docs[m])
    BY <1>2, SameLess DEF FileEdited, WellFormed
  <2>12. \A m \in Names(host) : FileEdited(host, m, z[m], docs[m])
    BY <1>3, <2>6, <2>10, <2>11
  <2>13. Written("kimi", docs) \subseteq r /\ Written("kimi", z) = r
    <3>1. \A x : Written("kimi", x) = IF x["homes"].root = {} THEN {"stable"} ELSE x["homes"].root
      BY DEF Written, Kimi!Detected
    <3>2. r # {} /\ "stable" \in r OBVIOUS
    <3> HIDE DEF r
    <3> QED BY <1>3, <2>4, <2>7, <2>10, <3>1, <3>2
  <2>14. Homes(z["homes"]) BY <2>7, <2>10 DEF Homes
  <2> QED BY <2>1, <2>2, <2>10, <2>12, <2>13, <2>14 DEF Edited, CreateFile
<1>4. CASE n # "homes"
  <2> DEFINE d == Document({"version", "hooks"}, <<>>)
  <2>1. {"version", "hooks"} \in SUBSET Fields BY DEF Fields
  <2>2. HostHooks(host, <<>>) BY DEF HostHooks
  <2>3. /\ IsDocument(d, Elements(host)) /\ d # NoFile /\ OrNew(d) = d
        /\ d.root = {"version", "hooks"} /\ d.hooks = <<>>
    BY <2>1, <2>2, HostFileMade
  <2> HIDE DEF d
  <2>4. DOMAIN <<>> = {} OBVIOUS
  <2>5. Contained(host, n, d) BY <2>3, <2>4 DEF Contained, Every
  <2>6. \A e : At(<<>>, e) = <<>> BY NewHooks
  <2>7. FileEdited(host, n, d, docs[n]) BY <2>3, <2>5, <2>6, SameLess DEF FileEdited
  <2>8. Edited(host, [docs EXCEPT ![n] = d], docs) BY <1>2, <1>4, <2>7, OneEdited
  <2> QED BY <1>1, <1>4, <2>8 DEF CreateFile, d
<1> QED BY <1>3, <1>4(* Node moves: no agent's handler is as this version writes it.            *)
LEMMA MovedHandlerLess ==
  ASSUME NEW y \in Listed
  PROVE  /\ MovedHandler(y) \in Listed
         /\ ~(MovedHandler(y).owner \in Agents /\ MovedHandler(y).form = "exact")
<1>1. "moved" \in Forms /\ "moved" # "exact" BY DEF Forms
<1> DEFINE z == [y EXCEPT !.form = "moved"]
<1>2. z \in Listed /\ z.form = "moved" BY <1>1, HandlerEdited
<1> HIDE DEF z
<1>3. MovedHandler(y) = IF y.owner \in Agents /\ y.form = "exact" THEN z ELSE y
  BY DEF MovedHandler, z
<1> QED BY <1>1, <1>2, <1>3

(* Node moves: an element.                                                 *)
LEMMA MovedLess ==
  ASSUME NEW G, G = Listed \/ G = Grouped, NEW x \in G
  PROVE  /\ MovedElement(x) \in G /\ Less(MovedElement(x), x)
         /\ G = Grouped /\ MovedElement(x).shape = "exact" /\ MovedElement(x).hooks = <<>> =>
              x.shape = "exact" /\ x.hooks = <<>>
<1> DEFINE z == MovedElement(x)
<1>1. CASE x \in Listed /\ G = Listed
  <2>1. z = MovedHandler(x) BY <1>1, ElementKinds DEF MovedElement
  <2> HIDE DEF z
  <2>2. z \in Listed /\ ~(z.owner \in Agents /\ z.form = "exact") BY <1>1, <2>1, MovedHandlerLess
  <2>3. InElement(z) = <<z>> /\ "hooks" \notin DOMAIN z BY <2>2, ElementKinds
  <2>4. \A b \in Agents : ~Runs(z, b) BY <2>2, <2>3 DEF Runs, Exact
  <2>5. \A y : Has(z, y) => y = z BY <2>3 DEF Has
  <2>6. Less(z, x) BY <2>2, <2>4, <2>5 DEF Less
  <2>7. Listed # Grouped BY <1>1, ElementKinds
  <2> QED BY <1>1, <2>2, <2>6, <2>7 DEF z
<1>2. CASE x \in Grouped /\ G = Grouped
  <2> DEFINE hs == [j \in DOMAIN x.hooks |-> MovedHandler(x.hooks[j])]
             w == [x EXCEPT !.hooks = hs]
  <2>1. x.hooks \in Seq(Listed) /\ "hooks" \in DOMAIN x /\ InElement(x) = x.hooks
    BY <1>2, ElementKinds
  <2>3. \A i \in DOMAIN x.hooks : x.hooks[i] \in Listed BY <2>1
  <2>4. \A i \in DOMAIN x.hooks : hs[i] \in Listed /\ ~(hs[i].owner \in Agents /\ hs[i].form = "exact")
    BY <2>3, MovedHandlerLess
  <2>5. DOMAIN hs = DOMAIN x.hooks /\ hs = [i \in DOMAIN hs |-> hs[i]] OBVIOUS
  <2> HIDE DEF hs
  <2>6. hs \in Seq(Listed)
    <3>1. DOMAIN hs = 1 .. Len(x.hooks) /\ Len(x.hooks) \in Nat BY <2>1, <2>5
    <3> QED BY <2>4, <2>5, <3>1
  <2>7. w \in Grouped /\ w.shape = x.shape /\ w.hooks = hs BY <1>2, <2>6 DEF Grouped
  <2>8. z = w BY <2>1 DEF MovedElement, hs
  <2> HIDE DEF z, w
  <2>9. InElement(z) = hs /\ "hooks" \in DOMAIN z BY <2>7, <2>8, ElementKinds
  <2>10. \A b \in Agents : ~Runs(z, b) BY <2>4, <2>5, <2>7, <2>8, <2>9 DEF Runs, Exact, Some
  <2>11. \A y : Has(z, y) => ~(y.owner \in Agents /\ y.form = "exact") BY <2>4, <2>5, <2>9 DEF Has
  <2>12. Less(z, x) BY <2>10, <2>11 DEF Less
  <2>13. z.hooks = <<>> => x.hooks = <<>>
    <3>1. hs = <<>> => DOMAIN hs = {} OBVIOUS
    <3>2. DOMAIN x.hooks = {} => x.hooks = <<>> BY <2>1
    <3> QED BY <2>5, <2>7, <2>8, <3>1, <3>2
  <2> QED BY <1>2, <2>7, <2>8, <2>12, <2>13 DEF z
<1> QED BY <1>1, <1>2

(* Node moves: a file.                                                     *)
LEMMA MovedFile ==
  ASSUME NEW h, h # "cline", NEW ds, WellFormed(h, ds), NEW n \in Names(h)
  PROVE  /\ FileEdited(h, n, MovedDocument(ds[n]), ds[n])
         /\ Homes(ds[n]) => Homes(MovedDocument(ds[n])) /\ MovedDocument(ds[n]).root = ds[n].root
<1>1. CASE ds[n] = NoFile
  <2>1. MovedDocument(ds[n]) = ds[n] BY <1>1 DEF MovedDocument
  <2> QED BY <1>1, <2>1, SameLess DEF FileEdited
<1>2. CASE ds[n] # NoFile
  <2> DEFINE r == ds[n].root
             H == ds[n].hooks
             Moved(l) == [i \in DOMAIN l |-> MovedElement(l[i])]
             N == [e \in DOMAIN H |-> Moved(H[e])]
             d == Document(r, N)
  <2>1. /\ Contained(h, n, ds[n]) /\ ds[n] = Document(r, H) /\ OrNew(ds[n]) = ds[n]
        /\ r \in SUBSET Fields /\ HostHooks(h, H)
    BY <1>2, HostFile
  <2>2. MovedDocument(ds[n]) = d
    <3>1. MovedDocument(ds[n]) = [ds[n] EXCEPT !.hooks = N] BY <1>2 DEF MovedDocument
    <3>2. \A q, M : [Document(q, M) EXCEPT !.hooks = N] = Document(q, N) BY DEF Document
    <3> HIDE DEF r, H, N
    <3> QED BY <2>1, <3>1, <3>2
  <2> HIDE DEF H
  <2>3. /\ DOMAIN H \in SUBSET AllEvents
        /\ \A v \in DOMAIN H : H[v] \in Seq(Elements(h))
    BY <2>1 DEF HostHooks
  <2>4. DOMAIN N = DOMAIN H /\ N = [v \in DOMAIN N |-> N[v]] /\ \A v \in DOMAIN H : N[v] = Moved(H[v])
    OBVIOUS
  <2> HIDE DEF N
  <2>5. Elements(h) = Listed \/ Elements(h) = Grouped BY HostKind
  <2>6. \A x \in Elements(h) :
          /\ MovedElement(x) \in Elements(h) /\ Less(MovedElement(x), x)
          /\ Elements(h) = Grouped /\ MovedElement(x).shape = "exact" /\ MovedElement(x).hooks = <<>> =>
               x.shape = "exact" /\ x.hooks = <<>>
    BY <2>5, MovedLess
  <2>7. \A v \in DOMAIN H :
          /\ N[v] \in Seq(Elements(h)) /\ DOMAIN N[v] = DOMAIN H[v]
          /\ \A i \in DOMAIN H[v] : H[v][i] \in Elements(h) /\ N[v][i] = MovedElement(H[v][i])
          /\ Len(N[v]) = Len(H[v])
    <3> SUFFICES ASSUME NEW v \in DOMAIN H
                 PROVE  /\ N[v] \in Seq(Elements(h)) /\ DOMAIN N[v] = DOMAIN H[v]
                        /\ \A i \in DOMAIN H[v] : H[v][i] \in Elements(h) /\ N[v][i] = MovedElement(H[v][i])
                        /\ Len(N[v]) = Len(H[v])
      OBVIOUS
    <3> DEFINE l == H[v]
               m == Moved(l)
    <3>1. N[v] = m BY <2>4
    <3>2. l \in Seq(Elements(h)) BY <2>3
    <3>3. DOMAIN m = DOMAIN l /\ m = [i \in DOMAIN m |-> m[i]] /\ \A i \in DOMAIN l : m[i] = MovedElement(l[i])
      OBVIOUS
    <3> HIDE DEF m, l
    <3>4. DOMAIN m = 1 .. Len(l) /\ Len(l) \in Nat /\ \A i \in DOMAIN l : l[i] \in Elements(h)
      BY <3>2, <3>3
    <3>5. \A i \in DOMAIN m : m[i] \in Elements(h) BY <2>6, <3>3, <3>4
    <3>6. m \in Seq(Elements(h)) BY <3>3, <3>4, <3>5
    <3>7. Len(m) = Len(l) BY <3>4, <3>6
    <3> QED BY <3>1, <3>3, <3>4, <3>6, <3>7 DEF l
  <2>8. HostHooks(h, N) BY <2>3, <2>4, <2>7 DEF HostHooks
  <2>9. /\ IsDocument(d, Elements(h)) /\ d # NoFile /\ OrNew(d) = d
        /\ d.root = r /\ d.hooks = N
    BY <2>1, <2>8, HostFileMade
  <2> HIDE DEF d
  <2>10. \A v : ListLess(At(N, v), At(H, v))
    <3> TAKE v
    <3>1. CASE v \in DOMAIN H
      <4>1. At(N, v) = N[v] /\ At(H, v) = H[v] BY <2>4, <3>1 DEF At
      <4>2. \A i \in DOMAIN N[v] : \E j \in DOMAIN H[v] : Less(N[v][i], H[v][j]) BY <2>6, <2>7, <3>1
      <4> QED BY <4>1, <4>2, ListLessThan
    <3>2. CASE v \notin DOMAIN H
      <4>1. At(N, v) = <<>> BY <2>4, <3>2 DEF At
      <4> QED BY <4>1, SameLess
    <3> QED BY <3>1, <3>2
  <2>11. Contained(h, n, d)
    <3>1. /\ HasSettings(h, n) => (DOMAIN H # {} => "hooks" \in r)
          /\ h \in {"opencode", "cline"} => r \subseteq {"version", "hooks", "malformed"}
          /\ h = "claudecode" => \A v \in DOMAIN H : \A i \in DOMAIN H[v] :
                H[v][i].shape = "exact" => H[v][i].hooks # <<>>
      BY <2>1 DEF Contained, Every, H
    <3>2. h = "claudecode" => \A v \in DOMAIN N : \A i \in DOMAIN N[v] :
                N[v][i].shape = "exact" => N[v][i].hooks # <<>>
      <4>1. h = "claudecode" => Elements(h) = Grouped BY HostKind
      <4> QED BY <2>4, <2>6, <2>7, <3>1, <4>1
    <3> QED BY <2>4, <2>9, <3>1, <3>2 DEF Contained, Every
  <2>12. FileEdited(h, n, d, ds[n])
    BY <2>1, <2>9, <2>10, <2>11 DEF FileEdited, H
  <2>13. Homes(ds[n]) => Homes(d)
    <3>1. DOMAIN H = {} => N = <<>> BY <2>4
    <3>2. DOMAIN <<>> = {} OBVIOUS
    <3> QED BY <2>9, <3>1, <3>2 DEF Homes, H
  <2> QED BY <2>2, <2>9, <2>12, <2>13
<1> QED BY <1>1, <1>2

(* Node moves: all files.                                                  *)
LEMMA MoveNodeEdits ==
  ASSUME TypeOK, MoveNode
  PROVE  Edited(host, docs', docs) /\ runtime' = runtime
<1>1. docs' = [n \in DOMAIN docs |-> MovedDocument(docs[n])] /\ host # "cline" BY DEF MoveNode, Edit
<1>2. WellFormed(host, docs) /\ DOMAIN docs = Names(host) BY DEF TypeOK, WellFormed
<1>3. /\ docs' = [n \in Names(host) |-> docs'[n]]
      /\ \A n \in Names(host) : docs'[n] = MovedDocument(docs[n])
  BY <1>1, <1>2
<1>4. \A n \in Names(host) :
        /\ FileEdited(host, n, docs'[n], docs[n])
        /\ Homes(docs[n]) => Homes(docs'[n]) /\ docs'[n].root = docs[n].root
  BY <1>1, <1>2, <1>3, MovedFile
<1>5. host # "kimi" => Written(host, docs) = Written(host, docs') BY DEF Written
<1>6. host = "kimi" => Homes(docs'["homes"]) /\ docs'["homes"].root = docs["homes"].root
  <2>1. host = "kimi" => "homes" \in Names(host) /\ Homes(docs["homes"])
    BY <1>2 DEF WellFormed, Names
  <2> QED BY <1>4, <2>1
<1>7. host = "kimi" => Written(host, docs) = Written(host, docs') BY <1>6 DEF Written, Kimi!Detected
<1> QED BY <1>3, <1>4, <1>5, <1>6, <1>7 DEF Edited, MoveNode

(* What leaves the documents alone.                                        *)
LEMMA NothingEdited ==
  ASSUME NEW h, NEW ds, WellFormed(h, ds)
  PROVE  Edited(h, ds, ds)
BY SameLess DEF Edited, FileEdited, WellFormed-----------------------------------------------------------------------------
(* The program.                                                            *)

(* Every plugin, from any documents its host may have: an installation it  *)
(* does not refuse takes effect, leaves none of the handlers of other      *)
(* agents that the plugin recognises, and another one changes nothing; a   *)
(* removal it is able to do leaves none of the agent's handlers that is as *)
(* it was written, in a group as it was written; both leave what is the    *)
(* user's as it was.  It says nothing of the other handlers of an agent,   *)
(* those that name another Node or were edited: they may stay and run.     *)
THEOREM EverySound == \A h \in Hosts : Sound(h)
BY HostAssumption, CursorSound, ClaudeSound, CodexSound, AugmentSound, GeminiSound, QwenSound,
   LettaSound, GrokSound, DroidSound, CopilotSound, KimiSound, KiroIdeSound, KiroCliSound,
   OpenCodeSound, ClineSound

\* The agents whose handlers a host runs have their files.
HaveRuntime(ds, rt) ==
  \A n \in DOMAIN ds, e \in AllEvents, a \in Agents :
    RunsAt(ListAt(ds, n, e), a) => rt[a] # "absent"

(* HandlersHaveRuntime, by the lists.                                      *)
LEMMA RuntimeIff == HandlersHaveRuntime <=> HaveRuntime(docs, runtime)
BY DEF HandlersHaveRuntime, HaveRuntime, Some, RunsAt

(* An element that runs an agent's script mentions the agent.              *)
LEMMA RunsMentions ==
  ASSUME NEW ds, NEW n \in DOMAIN ds, NEW e \in AllEvents, NEW a, RunsAt(ListAt(ds, n, e), a)
  PROVE  Mentions(ds, a)
<1> DEFINE l == ListAt(ds, n, e)
<1>1. PICK i \in DOMAIN l : Runs(l[i], a) BY DEF RunsAt
<1> HIDE DEF l
<1>2. \E k \in DOMAIN InElement(l[i]) : InElement(l[i])[k].owner = a
  <2>1. CASE "hooks" \in DOMAIN l[i] BY <1>1, <2>1 DEF Runs, InElement, Exact, Some
  <2>2. CASE "hooks" \notin DOMAIN l[i]
    <3>1. l[i].owner = a BY <1>1, <2>2 DEF Runs, Exact
    <3>2. InElement(l[i]) = <<l[i]>> BY <2>2 DEF InElement
    <3>3. 1 \in DOMAIN <<l[i]>> /\ <<l[i]>>[1] = l[i] OBVIOUS
    <3> QED BY <3>1, <3>2, <3>3
  <2> QED BY <2>1, <2>2
<1> QED BY <1>1, <1>2 DEF Mentions, Some, l

\* What every edit does beside the documents.
Edits == edits < MaxEdits /\ edits' = edits + 1 /\ last' = <<"none", NoFile>> /\ host' = host

(* What an edit changes.                                                   *)
LEMMA EditMade ==
  ASSUME NEW z, Edit(z)
  PROVE  docs' = z /\ Edits
BY DEF Edit, Edits

UserStep ==
  EditElement \/ DeleteElement \/ TurnOff \/ DeleteFile \/ CreateFile \/ MoveNode
    \/ UpgradeSdk \/ \E a \in Agents : LoseConfig(a)

(* The edits: nothing runs that did not run, and no directory goes.        *)
LEMMA UserStepEdits ==
  ASSUME TypeOK, UserStep
  PROVE  /\ Edits
         /\ Edited(host, docs', docs)
         /\ runtime' \in [Agents -> RuntimeStates]
         /\ \A a \in Agents : runtime'[a] = "absent" => runtime[a] = "absent"
<1>1. WellFormed(host, docs) /\ runtime \in [Agents -> RuntimeStates] BY DEF TypeOK
<1>2. CASE EditElement
  <2>1. \E z : Edit(z)
    <3>1. PICK n \in DOMAIN docs, e \in AllEvents :
            \E i \in DOMAIN At(docs[n].hooks, e), own \in BOOLEAN :
              Edit([docs EXCEPT ![n].hooks[e][i] = ElementEdited(docs[n].hooks[e][i], own)])
      BY <1>2 DEF EditElement
    <3> QED BY <3>1
  <2> QED BY <1>1, <1>2, <2>1, EditMade, EditElementEdits
<1>3. CASE DeleteElement
  <2>1. \E z : Edit(z) BY <1>3 DEF DeleteElement
  <2> QED BY <1>1, <1>3, <2>1, EditMade, DeleteElementEdits
<1>4. CASE TurnOff
  <2>1. \E z : Edit(z) BY <1>4 DEF TurnOff
  <2> QED BY <1>1, <1>4, <2>1, EditMade, TurnOffEdits
<1>5. CASE DeleteFile
  <2>1. \E z : Edit(z) BY <1>5 DEF DeleteFile
  <2> QED BY <1>1, <1>5, <2>1, EditMade, DeleteFileEdits
<1>6. CASE CreateFile
  <2>1. \E z : Edit(z) BY <1>6 DEF CreateFile
  <2> QED BY <1>1, <1>6, <2>1, EditMade, CreateFileEdits
<1>7. CASE MoveNode
  <2>1. \E z : Edit(z) BY <1>7 DEF MoveNode
  <2> QED BY <1>1, <1>7, <2>1, EditMade, MoveNodeEdits
<1>8. CASE UpgradeSdk
  <2>1. Edit(docs) /\ runtime' = [a \in Agents |-> IF runtime[a] = "whole" THEN "stale" ELSE runtime[a]]
    BY <1>8 DEF UpgradeSdk
  <2>2. docs' = docs /\ Edits BY <2>1, EditMade
  <2>3. runtime' \in [Agents -> RuntimeStates] BY <1>1, <2>1 DEF RuntimeStates
  <2>4. \A a \in Agents : runtime'[a] = "absent" => runtime[a] = "absent" BY <2>1
  <2> QED BY <1>1, <2>2, <2>3, <2>4, NothingEdited
<1>9. CASE \E a \in Agents : LoseConfig(a)
  <2>1. PICK b \in Agents : Edit(docs) /\ runtime' = [runtime EXCEPT ![b] = "headless"]
    BY <1>9 DEF LoseConfig
  <2>2. docs' = docs /\ Edits BY <2>1, EditMade
  <2>3. runtime' \in [Agents -> RuntimeStates] BY <1>1, <2>1 DEF RuntimeStates
  <2>4. \A a \in Agents : runtime'[a] = "absent" => runtime[a] = "absent" BY <1>1, <2>1
  <2> QED BY <1>1, <2>2, <2>3, <2>4, NothingEdited
<1> QED BY <1>2, <1>3, <1>4, <1>5, <1>6, <1>7, <1>8, <1>9 DEF UserStep

(* The commands.                                                           *)
LEMMA InstallDoes ==
  ASSUME TypeOK, NEW a \in Agents, Install(a)
  PROVE  /\ Changed(host, docs', docs, a) /\ Takes(PluginOf(host, docs'), a)
         /\ Sole(host, docs', a)
         /\ runtime' = [runtime EXCEPT ![a] = "whole"]
         /\ last' = <<"install", a>> /\ host' = host /\ edits' = edits
<1>1. /\ PluginOf(host, docs).parses /\ ~PluginOf(host, docs).refused
      /\ docs' = PluginOf(host, docs).install[a]
  BY DEF Install, Plugin
<1>2. host \in Hosts /\ WellFormed(host, docs) BY DEF TypeOK
<1>3. Sound(host) BY <1>2, EverySound
<1>4. Installs(host, docs, a) BY <1>1, <1>2, <1>3 DEF Sound
<1>5. Changed(host, docs', docs, a) /\ Takes(PluginOf(host, docs'), a) /\ Sole(host, docs', a)
  BY <1>1, <1>4 DEF Installs
<1> QED BY <1>5 DEF Install, WriteRuntime

Uninstall == \E a \in Agents, died \in BOOLEAN : UninstallHooks(a, died)

(* What an uninstall does.                                                 *)
LEMMA UninstallDoes ==
  ASSUME TypeOK, NEW a \in Agents, NEW died \in BOOLEAN, UninstallHooks(a, died)
  PROVE  /\ Changed(host, docs', docs, User)
         /\ \A n \in Names(host), e \in AllEvents : ~RunsAt(ListAt(docs', n, e), a)
         /\ runtime' = runtime \/ runtime' = [runtime EXCEPT ![a] = "absent"]
         /\ last' = <<"uninstall", a>> /\ host' = host /\ edits' = edits
<1>1. /\ PluginOf(host, docs).parses /\ a \notin PluginOf(host, docs).stuck
      /\ docs' = PluginOf(host, docs).uninstall[a]
  BY DEF UninstallHooks, Plugin
<1>2. host \in Hosts /\ WellFormed(host, docs) BY DEF TypeOK
<1>3. Sound(host) BY <1>2, EverySound
<1>4. Uninstalls(host, docs, a) BY <1>1, <1>2, <1>3 DEF Sound
<1>5. /\ Changed(host, docs', docs, User)
      /\ \A n \in Names(host), e \in AllEvents : ~RunsAt(ListAt(docs', n, e), a)
  BY <1>1, <1>4 DEF Uninstalls
<1>6. /\ runtime' = runtime \/ runtime' = [runtime EXCEPT ![a] = "absent"]
      /\ last' = <<"uninstall", a>> /\ host' = host /\ edits' = edits
  BY DEF UninstallHooks
<1> QED BY <1>5, <1>6

(* A step is a command, or something the user does.                        *)
LEMMA Steps ==
  ASSUME Next
  PROVE  (\E a \in Agents : Install(a)) \/ Uninstall \/ UserStep
<1>1. (\E a \in Agents, died \in BOOLEAN : UninstallNamed(a, died)) => Uninstall
  BY DEF UninstallNamed, Uninstall
<1>2. (\E died \in BOOLEAN : UninstallOnly(died)) => Uninstall
  BY DEF UninstallOnly, Uninstall
<1> QED BY <1>1, <1>2 DEF Next, Command, UserStep

IInv == TypeOK /\ HandlersHaveRuntime /\ InstallTakes

(* The inductive invariant holds at the start.                             *)
LEMMA InitIInv ==
  ASSUME Init
  PROVE  IInv
<1>1. host \in Hosts /\ docs \in Start(host) /\ last[1] # "install" /\ edits = 0
      /\ runtime \in [Agents -> {"absent", "stale", "foreign"}]
  BY DEF Init
<1>2. TypeOK
  <2>1. WellFormed(host, docs) BY <1>1, HostAssumption
  <2>2. edits \in 0 .. MaxEdits BY <1>1, HostAssumption
  <2> QED BY <1>1, <2>1, <2>2 DEF TypeOK, RuntimeStates
<1>3. \A a \in Agents : Mentions(docs, a) => runtime[a] = "stale" BY DEF Init
<1>4. HaveRuntime(docs, runtime) BY <1>3, RunsMentions DEF HaveRuntime
<1> QED BY <1>1, <1>2, <1>4, RuntimeIff DEF IInv, InstallTakes

(* Every step keeps it: what a command may do is what Sound says of its    *)
(* host, what the user may do is Edited.                                   *)
LEMMA NextIInv ==
  ASSUME IInv, [Next]_vars
  PROVE  IInv'
<1>1. /\ TypeOK /\ HaveRuntime(docs, runtime)
      /\ host \in Hosts /\ WellFormed(host, docs) /\ runtime \in [Agents -> RuntimeStates]
      /\ edits \in 0 .. MaxEdits /\ MaxEdits \in Nat
  BY RuntimeIff, HostAssumption DEF IInv, TypeOK
<1>2. HandlersHaveRuntime' <=> HaveRuntime(docs', runtime')
  BY DEF HandlersHaveRuntime, HaveRuntime, Some, RunsAt
<1>3. ASSUME NEW a \in Agents, Install(a) PROVE IInv'
  <2>1. /\ Changed(host, docs', docs, a) /\ Takes(PluginOf(host, docs'), a)
        /\ Sole(host, docs', a)
        /\ runtime' = [runtime EXCEPT ![a] = "whole"]
        /\ last' = <<"install", a>> /\ host' = host /\ edits' = edits
    BY <1>1, <1>3, InstallDoes
  <2>2. /\ WellFormed(host, docs') /\ DOMAIN docs = Names(host)
        /\ \A n \in Names(host), e \in AllEvents : \A b :
             RunsAt(ListAt(docs', n, e), b) => RunsAt(ListAt(docs, n, e), b) \/ b = a
    BY <1>1, <2>1, ChangedKeeps
  <2>3. DOMAIN docs' = Names(host) BY <2>2 DEF WellFormed
  <2>4. \A b \in Agents : runtime'[b] = IF b = a THEN "whole" ELSE runtime[b] BY <1>1, <2>1
  <2>5. runtime' \in [Agents -> RuntimeStates] BY <1>1, <2>1 DEF RuntimeStates
  <2>6. TypeOK' BY <1>1, <2>1, <2>2, <2>5 DEF TypeOK
  <2>7. HaveRuntime(docs', runtime') BY <1>1, <2>2, <2>3, <2>4 DEF HaveRuntime
  <2>8. InstallTakes'
    <3> DEFINE p == Plugin'
               there == {b \in p.contracts : runtime'[b] \in p.files}
    <3>1. p = PluginOf(host, docs') BY <2>1 DEF Plugin
    <3>2. /\ Installed' <=> /\ p.parses /\ p.enabled
                            /\ there # {} /\ (host' = "kiroide" => there = p.contracts)
      BY DEF Installed, FilesExist
    <3>6. InstallTakes' <=> (last'[1] = "install" => /\ Installed' /\ p.contracts = {last'[2]}
                                                     /\ Sole(host', docs', last'[2]))
      BY DEF InstallTakes, Sole, Knows, Some
    <3> HIDE DEF p
    <3>3. p.parses /\ p.enabled /\ p.contracts = {a} /\ "whole" \in p.files
      BY <2>1, <3>1 DEF Takes
    <3>4. runtime'[a] = "whole" /\ last'[2] = a BY <2>1, <2>4
    <3>5. there = {a} BY <3>3, <3>4
    <3>7. Sole(host', docs', last'[2]) BY <2>1, <3>4
    <3> QED BY <3>2, <3>3, <3>4, <3>5, <3>6, <3>7
  <2> QED BY <1>2, <2>6, <2>7, <2>8 DEF IInv
<1>4. ASSUME Uninstall PROVE IInv'
  <2>1. PICK a \in Agents, died \in BOOLEAN : UninstallHooks(a, died) BY <1>4 DEF Uninstall
  <2>2. /\ Changed(host, docs', docs, User)
        /\ \A n \in Names(host), e \in AllEvents : ~RunsAt(ListAt(docs', n, e), a)
        /\ runtime' = runtime \/ runtime' = [runtime EXCEPT ![a] = "absent"]
        /\ last' = <<"uninstall", a>> /\ host' = host /\ edits' = edits
    BY <1>1, <2>1, UninstallDoes
  <2>3. /\ WellFormed(host, docs') /\ DOMAIN docs = Names(host)
        /\ \A n \in Names(host), e \in AllEvents : \A b :
             RunsAt(ListAt(docs', n, e), b) => RunsAt(ListAt(docs, n, e), b) \/ b = User
    BY <1>1, <2>2, ChangedKeeps
  <2>4. DOMAIN docs' = Names(host) BY <2>3 DEF WellFormed
  <2>5. \A b \in Agents : b # a => runtime'[b] = runtime[b] BY <1>1, <2>2
  <2>6. runtime' \in [Agents -> RuntimeStates] BY <1>1, <2>2 DEF RuntimeStates
  <2>7. TypeOK' BY <1>1, <2>2, <2>3, <2>6 DEF TypeOK
  <2>8. User \notin Agents BY HostAssumption
  <2>9. HaveRuntime(docs', runtime') BY <1>1, <2>2, <2>3, <2>4, <2>5, <2>8 DEF HaveRuntime
  <2>10. InstallTakes'
    <3>1. last'[1] = "uninstall" BY <2>2
    <3> QED BY <3>1 DEF InstallTakes
  <2> QED BY <1>2, <2>7, <2>9, <2>10 DEF IInv
<1>5. ASSUME UserStep PROVE IInv'
  <2>1. /\ edits < MaxEdits /\ edits' = edits + 1 /\ last' = <<"none", NoFile>> /\ host' = host
        /\ Edited(host, docs', docs)
        /\ runtime' \in [Agents -> RuntimeStates]
        /\ \A a \in Agents : runtime'[a] = "absent" => runtime[a] = "absent"
    BY <1>1, <1>5, UserStepEdits DEF Edits
  <2>2. /\ WellFormed(host, docs') /\ DOMAIN docs' = Names(host) /\ DOMAIN docs = Names(host)
        /\ \A n \in Names(host), e \in AllEvents : \A b \in Agents :
             RunsAt(ListAt(docs', n, e), b) => RunsAt(ListAt(docs, n, e), b)
    BY <1>1, <2>1, EditedKeeps
  <2>3. edits' \in 0 .. MaxEdits BY <1>1, <2>1
  <2>4. TypeOK' BY <1>1, <2>1, <2>2, <2>3 DEF TypeOK
  <2>5. HaveRuntime(docs', runtime') BY <1>1, <2>1, <2>2 DEF HaveRuntime
  <2>6. InstallTakes'
    <3>1. last'[1] = "none" BY <2>1
    <3> QED BY <3>1 DEF InstallTakes
  <2> QED BY <1>2, <2>4, <2>5, <2>6 DEF IInv
<1>6. ASSUME UNCHANGED vars PROVE IInv'
  <2>1. host' = host /\ docs' = docs /\ runtime' = runtime /\ last' = last /\ edits' = edits
    BY <1>6 DEF vars
  <2>2. TypeOK' BY <1>1, <2>1 DEF TypeOK
  <2>3. HaveRuntime(docs', runtime') BY <1>1, <2>1
  <2>4. InstallTakes'
    <3>1. Plugin' = Plugin BY <2>1 DEF Plugin
    <3>2. Installed' <=> Installed BY <2>1, <3>1 DEF Installed, FilesExist
    <3>3. InstallTakes <=> (last[1] = "install" => /\ Installed /\ Plugin.contracts = {last[2]}
                                                   /\ Sole(host, docs, last[2]))
      BY DEF InstallTakes, Sole, Knows, Some
    <3>4. InstallTakes' <=> (last'[1] = "install" => /\ Installed' /\ Plugin'.contracts = {last'[2]}
                                                     /\ Sole(host', docs', last'[2]))
      BY DEF InstallTakes, Sole, Knows, Some
    <3>5. InstallTakes BY DEF IInv
    <3> QED BY <2>1, <3>1, <3>2, <3>3, <3>4, <3>5
  <2> QED BY <1>2, <2>2, <2>3, <2>4 DEF IInv
<1> QED BY <1>3, <1>4, <1>5, <1>6, Steps

(* From any documents a host may have, a second installation changes       *)
(* nothing.                                                                *)
LEMMA SteadyHere ==
  ASSUME TypeOK
  PROVE  ReinstallChangesNothing
<1>1. host \in Hosts /\ WellFormed(host, docs) BY DEF TypeOK
<1>2. Sound(host) BY <1>1, EverySound
<1>3. PluginOf(host, docs).parses => \A a \in Agents : Steady(host, docs, a) BY <1>1, <1>2 DEF Sound
<1> QED BY <1>3 DEF ReinstallChangesNothing, Steady, Plugin

(* A command keeps what is the user's.                                     *)
LEMMA StepKeepsForeign ==
  ASSUME TypeOK, [Next]_vars, edits' = edits
  PROVE  \A n \in DOMAIN docs :
           /\ \A e \in AllEvents : UsersHandlers(docs', n, e) = UsersHandlers(docs, n, e)
           /\ UsersFields(docs, n) \subseteq UsersFields(docs', n)
<1>1. WellFormed(host, docs) /\ edits \in 0 .. MaxEdits /\ MaxEdits \in Nat
  BY HostAssumption DEF TypeOK
<1>2. ASSUME NEW c, Changed(host, docs', docs, c)
      PROVE  \A n \in DOMAIN docs :
               /\ \A e \in AllEvents : UsersHandlers(docs', n, e) = UsersHandlers(docs, n, e)
               /\ UsersFields(docs, n) \subseteq UsersFields(docs', n)
  <2>1. /\ DOMAIN docs = Names(host)
        /\ \A n \in Names(host), e \in AllEvents : UsersHandlers(docs', n, e) = UsersHandlers(docs, n, e)
        /\ \A n \in Names(host) : UsersFields(docs, n) \subseteq UsersFields(docs', n)
    BY <1>1, <1>2, ChangedKeeps
  <2> QED BY <2>1
<1>3. ASSUME NEW a \in Agents, Install(a) PROVE \E c : Changed(host, docs', docs, c)
  BY <1>3, InstallDoes
<1>4. ASSUME Uninstall PROVE \E c : Changed(host, docs', docs, c)
  BY <1>4, UninstallDoes DEF Uninstall
<1>5. ~UserStep
  <2>1. UserStep => edits' = edits + 1 BY UserStepEdits DEF Edits
  <2> QED BY <1>1, <2>1
<1>6. CASE UNCHANGED vars
  <2>1. docs' = docs BY <1>6 DEF vars
  <2> QED BY <2>1
<1> QED BY <1>2, <1>3, <1>4, <1>5, <1>6, Steps

(* The inductive invariant: the documents are allowed, no handler that     *)
(* runs misses its runtime, and the last installation took.                *)
THEOREM Invariance == Spec => []IInv
<1>1. Init => IInv BY InitIInv
<1>2. IInv /\ [Next]_vars => IInv' BY NextIInv
<1> QED BY <1>1, <1>2, PTL DEF Spec

(* The documents of a host are those that its plugin reads and writes,     *)
(* whatever commands were run and whatever its user did.                   *)
THEOREM TypeCorrect == Spec => []TypeOK
<1>1. IInv => TypeOK BY DEF IInv
<1> QED BY <1>1, Invariance, PTL

(* An entry that is as Elydora wrote it, in a group as it was written, has *)
(* its agent's directory: every order of commands for all agents, each of  *)
(* which may die before it removes the directory, with every sequence of   *)
(* edits in between.  Other entries of an agent, in groups with other      *)
(* fields or with another Node, may outlive it (grok-contract.ts:172).     *)
THEOREM RuntimeStands == Spec => []HandlersHaveRuntime
<1>1. IInv => HandlersHaveRuntime BY DEF IInv
<1> QED BY <1>1, Invariance, PTL

(* An installation that has succeeded is one that `elydora status` sees,   *)
(* its agent is the only one whose hooks are found in place, and no        *)
(* handler of another agent that the plugin recognises is left in a file   *)
(* it writes.                                                              *)
THEOREM InstallationTakes == Spec => []InstallTakes
<1>1. IInv => InstallTakes BY DEF IInv
<1> QED BY <1>1, Invariance, PTL

(* To install an agent again changes nothing.                              *)
THEOREM ReinstallationKeeps == Spec => []ReinstallChangesNothing
<1>1. IInv => ReinstallChangesNothing BY SteadyHere DEF IInv
<1> QED BY <1>1, Invariance, PTL

(* No command takes a handler or a field of the user's away, changes it or *)
(* puts the handlers in another order.                                     *)
THEOREM ForeignStays == Spec => ForeignKept
<1>1. IInv /\ [Next]_vars =>
        [edits' = edits => \A n \in DOMAIN docs :
           /\ \A e \in AllEvents : UsersHandlers(docs', n, e) = UsersHandlers(docs, n, e)
           /\ UsersFields(docs, n) \subseteq UsersFields(docs', n)]_vars
  BY StepKeepsForeign DEF IInv
<1> QED BY <1>1, Invariance, PTL DEF Spec, ForeignKept
=============================================================================
