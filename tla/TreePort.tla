------------------------------ MODULE TreePort ------------------------------
(***************************************************************************)
(* One port, from its resolution to its verification report: compile_port  *)
(* (compiler.py) accepts a resolution; apply_port (apply.py) applies its   *)
(* operations in order to the decoded stock tree; apktool builds the tree; *)
(* compose_apk (backend.py) makes the output APK, either the rebuilt one   *)
(* or the stock one with DEX entries grafted in; the output is decoded     *)
(* again and verify_apk (verifier.py) checks it.                           *)
(*                                                                         *)
(* A tree is a function from paths <<directory, name>> to contents; the    *)
(* directories in DexEntries are the smali directories, one per DEX entry. *)
(* A smali file is [class, code], its code a function from the method      *)
(* signatures it has to their significant lines, taken up to the names of  *)
(* labels; an XML document is a function from the identities of its        *)
(* entries to their elements.  An APK is its DEX entries (the code of      *)
(* their classes), the rest of its entries, and whether it is signed.      *)
(***************************************************************************)
EXTENDS Integers, Sequences, FiniteSets

CONSTANTS DexEntries,   \* the names a DEX entry may have
          Intents,      \* the intent spec: hook -> [disposition, strategies]
          Resolutions,  \* the resolutions a port may be made from
          StockApk      \* the stock APK of the target

VARIABLES resolution,   \* the resolution being ported
          worktree,     \* the work tree of apply_port
          position,     \* the operation apply_port has reached
          intermediate, \* the APK built from the work tree
          published,    \* the APK at compose_apk's temporary or output path
          portStage     \* where the port stands

portVars == <<resolution, worktree, position, intermediate, published, portStage>>

\* a sequence: the lines of a method, the operations of a resolution
IsSequence(s) == s \in Seq({s[i] : i \in DOMAIN s})

\* a function on top of another
Over(f, g) == [x \in DOMAIN f \cup DOMAIN g |-> IF x \in DOMAIN f THEN f[x] ELSE g[x]]

IsSmali(p) == p[1] \in DexEntries

\* the code of a class, method -> lines, and a smali file
CodeHolds(code) == \A m \in DOMAIN code : IsSequence(code[m])
SmaliHolds(file) == DOMAIN file = {"class", "code"} /\ CodeHolds(file.code)

-----------------------------------------------------------------------------
(* port_contracts.py: what makes an operation and a resolution well-formed *)

SmaliEditHolds(op) ==
  /\ op.mode \in {"insert_before", "insert_after", "replace"}
  /\ op.policy \in {"all", "occurrence"}
  /\ op.policy = "occurrence" => op.occurrence \in Nat
  /\ IsSequence(op.pre) /\ IsSequence(op.payload) /\ IsSequence(op.final)
  /\ op.pre # <<>> /\ op.final # <<>>
  /\ op.pres \in Nat \ {0} /\ op.finals \in Nat

OverlayTreeHolds(op) ==
  /\ DOMAIN op.files # {} /\ op.collision \in {"forbid", "require_exact"}
  /\ \A p \in DOMAIN op.files : IsSmali(p) => SmaliHolds(op.files[p])

OperationKinds == {"smali_edit", "overlay_tree", "append_resource_entries",
                   "append_manifest_components", "replace_resource_entry", "delete_path"}

OperationHolds(op) ==
  /\ op.kind \in OperationKinds
  /\ op.intents # {}
  /\ CASE op.kind = "smali_edit"             -> SmaliEditHolds(op)
       [] op.kind = "overlay_tree"           -> OverlayTreeHolds(op)
       [] op.kind = "replace_resource_entry" -> TRUE
       [] op.kind = "delete_path"            -> op.present \in BOOLEAN
       [] op.kind \in {"append_resource_entries", "append_manifest_components"} ->
            DOMAIN op.entries # {}

IntentHolds(intent) ==
  /\ intent.disposition \in {"retain", "retire"}
  /\ intent.disposition = "retain" => intent.strategies # {}

IntentSpecHolds == DOMAIN Intents # {} /\ \A h \in DOMAIN Intents : IntentHolds(Intents[h])

\* what a resolution says of each intent
StatusesHold(statuses) == \A h \in DOMAIN statuses : statuses[h] \in {"implemented", "omitted"}

\* how often an assertion counts a sequence in a method
CountHolds(asked) == asked.sequence # <<>> /\ asked.expected \in Nat

\* the classes an assertion says a DEX entry has, or has and no others
DescriptorsHold(asked) == asked.exact \/ asked.classes # {}

\* what a DEX string assertion asks of an entry's strings
StringsHold(asked) == asked.present \cup asked.absent # {}

BackendHolds(b) ==
  IF b.kind = "stock_dex_graft"
  THEN /\ b.stock # {} /\ b.replace \subseteq b.stock /\ b.add \cap b.stock = {}
  ELSE b.entries # {}

ResolutionHolds(r) ==
  /\ IsSequence(r.operations) /\ r.operations # <<>>
  /\ \A i \in DOMAIN r.operations : OperationHolds(r.operations[i])
  /\ StatusesHold(r.statuses)
  /\ \A c \in r.counts : CountHolds(c)
  /\ \A d \in DOMAIN r.descriptors : DescriptorsHold(r.descriptors[d])
  /\ \A d \in DOMAIN r.strings : StringsHold(r.strings[d])
  /\ BackendHolds(r.backend)

\* an APK: the code of its classes by DEX entry, and what is not code
ApkHolds(apk) ==
  /\ DOMAIN apk.dex \subseteq DexEntries
  /\ \A d \in DOMAIN apk.dex : \A c \in DOMAIN apk.dex[d] : CodeHolds(apk.dex[d][c])
  /\ \A p \in DOMAIN apk.rest : ~IsSmali(p)

ASSUME TreePortAssumption ==
  /\ IntentSpecHolds
  /\ \A r \in Resolutions : ResolutionHolds(r)
  /\ ApkHolds(StockApk)

NoApk == [dex |-> <<>>, rest |-> <<>>, signed |-> FALSE]

-----------------------------------------------------------------------------
(* What a tree is to an APK.                                               *)

\* the files an XML parser reads
Documents(tree) == {p \in DOMAIN tree : ~IsSmali(p)}

\* the paths of the smali files that define a class
Located(tree, c) == {p \in DOMAIN tree : IsSmali(p) /\ tree[p].class = c}

\* every class is defined once
DescriptorIndexHolds(tree) ==
  \A p \in DOMAIN tree : IsSmali(p) => Located(tree, tree[p].class) = {p}

ClassesOf(tree, d) == {tree[p].class : p \in {q \in DOMAIN tree : q[1] = d}}

\* apktool b
BuildOf(tree) ==
  LET dexes == {p[1] : p \in {q \in DOMAIN tree : IsSmali(q)}}
  IN [dex    |-> [d \in dexes |->
                   [c \in ClassesOf(tree, d) |->
                      tree[CHOOSE p \in DOMAIN tree : p[1] = d /\ tree[p].class = c].code]],
      rest   |-> [p \in {q \in DOMAIN tree : ~IsSmali(q)} |-> tree[p]],
      signed |-> FALSE]

\* apktool d
DecodeOf(apk) ==
  LET smali == UNION {{<<d, c>> : c \in DOMAIN apk.dex[d]} : d \in DOMAIN apk.dex}
  IN Over([p \in smali |-> [class |-> p[2], code |-> apk.dex[p[1]][p[2]]]], apk.rest)

-----------------------------------------------------------------------------
(* Sequences of lines in a method.                                         *)

\* where the lines of a method match a sequence
MatchesOf(lines, wanted) ==
  {i \in 1..(Len(lines) + 1 - Len(wanted)) :
     \A j \in DOMAIN wanted : lines[i + j - 1] = wanted[j]}

SequenceCount(lines, wanted) == Cardinality(MatchesOf(lines, wanted))

\* how many matches of the precondition an edit rewrites
SelectedCount(op) == IF op.policy = "all" THEN op.pres ELSE 1

\* the matches of its precondition an edit of `selected` matches leaves behind
ExpectedPreconditionCount(op, selected) ==
  IF op.mode = "replace"
  THEN op.pres - selected + SequenceCount(op.final, op.pre) * op.finals
  ELSE op.pres

\* the matches an edit rewrites: all of them, or the one it names
Selected(op, lines) ==
  LET found == MatchesOf(lines, op.pre)
  IN IF op.policy = "all" THEN found
     ELSE {i \in found : Cardinality({j \in found : j < i}) = op.occurrence}

Overlap(op, places) == \E i, j \in places : i < j /\ j < i + Len(op.pre)

\* How many lines a match makes the method longer.
Growth(op) == Len(op.payload) - (IF op.mode = "replace" THEN Len(op.pre) ELSE 0)

\* The i-th line of the method with the payload put before, after or over its
\* matches.  Begins(s) is where the payload of the match at s comes to stand; a
\* line after n payloads stands n times their growth further down.
RewrittenLine(op, lines, i) ==
  LET places == Selected(op, lines)
      Begins(s) == s + (IF op.mode = "insert_after" THEN Len(op.pre) ELSE 0)
                     + Cardinality({t \in places : t < s}) * Growth(op)
      Holds(s) == Begins(s)..(Begins(s) + Len(op.payload) - 1)
      passed == {s \in places : Begins(s) + Len(op.payload) <= i}
  IN IF \E s \in places : i \in Holds(s)
     THEN op.payload[i + 1 - Begins(CHOOSE s \in places : i \in Holds(s))]
     ELSE lines[i - Cardinality(passed) * Growth(op)]

Rewritten(op, lines) ==
  [i \in 1..(Len(lines) + Cardinality(Selected(op, lines)) * Growth(op)) |->
     RewrittenLine(op, lines, i)]

\* the method already has what the edit would give it
EditIsDone(op, lines) ==
  IF op.finals > 0
  THEN /\ SequenceCount(lines, op.final) = op.finals
       /\ SequenceCount(lines, op.pre) = ExpectedPreconditionCount(op, SelectedCount(op))
  ELSE SequenceCount(lines, op.pre) = 0

\* the method is what the edit was written against
EditFits(op, lines) ==
  /\ op.finals > 0 => SequenceCount(lines, op.final) = 0
  /\ SequenceCount(lines, op.pre) = op.pres
  /\ Selected(op, lines) # {}
  /\ ~Overlap(op, Selected(op, lines))

\* what apply.py checks of the lines it is about to write
EditSettles(op, before, after) ==
  /\ SequenceCount(after, op.final) = op.finals
  /\ SequenceCount(after, op.pre) =
       ExpectedPreconditionCount(op, Cardinality(Selected(op, before)))

-----------------------------------------------------------------------------
(* apply.py: the trees an operation may leave, none when it is refused.    *)

AfterSmaliEdit(op, tree) ==
  UNION {LET lines == tree[p].code[op.method]
             after == Rewritten(op, lines)
         IN IF EditIsDone(op, lines) THEN {tree}
            ELSE IF EditFits(op, lines) /\ EditSettles(op, lines, after)
                 THEN {[tree EXCEPT ![p].code[op.method] = after]}
                 ELSE {}
         : p \in {q \in Located(tree, op.class) : op.method \in DOMAIN tree[q].code}}

\* op.files: target path -> content, the content of every file of the source.  The code
\* looks classes up in an index made before the first operation, which a delete does not
\* update: it refuses a class again whose file this port deleted, and the model does not.
AfterOverlay(op, tree) ==
  LET smali  == {p \in DOMAIN op.files : IsSmali(p)}
      moved  == \/ \E p \in smali : ~(Located(tree, op.files[p].class) \subseteq {p})
                \/ \E p, q \in smali : p # q /\ op.files[p].class = op.files[q].class
      exact  == \A p \in DOMAIN op.files : p \in DOMAIN tree /\ tree[p] = op.files[p]
      absent == DOMAIN op.files \cap DOMAIN tree = {}
  IN IF moved THEN {}
     ELSE IF exact THEN {tree}
     ELSE IF op.collision = "forbid" /\ absent THEN {Over(op.files, tree)}
     ELSE {}

\* the entries are in a document, each as declared
EntriesAreThere(xml, entries) == \A e \in DOMAIN entries : e \in DOMAIN xml /\ xml[e] = entries[e]

AfterAppendResources(op, tree) ==
  LET xml    == tree[op.document]
      absent == DOMAIN op.entries \cap DOMAIN xml = {}
  IN IF op.document \notin Documents(tree) THEN {}
     ELSE IF EntriesAreThere(xml, op.entries) THEN {tree}
     ELSE IF absent THEN {[tree EXCEPT ![op.document] = Over(op.entries, xml)]}
     ELSE {}

\* the components of the manifest's one application element
AfterAppendComponents(op, tree) ==
  LET application == tree[op.document].application
      absent == DOMAIN op.entries \cap DOMAIN application = {}
  IN IF op.document \notin Documents(tree) THEN {}
     ELSE IF EntriesAreThere(application, op.entries) THEN {tree}
     ELSE IF absent
          THEN {[tree EXCEPT ![op.document].application = Over(op.entries, application)]}
     ELSE {}

AfterReplace(op, tree) ==
  IF op.document \notin Documents(tree) \/ op.before = op.after THEN {}
  ELSE LET xml == tree[op.document]
       IN IF op.entry \notin DOMAIN xml THEN {}
          ELSE IF xml[op.entry] = op.after THEN {tree}
          ELSE IF xml[op.entry] = op.before
               THEN {[tree EXCEPT ![op.document][op.entry] = op.after]}
          ELSE {}

AfterDelete(op, tree) ==
  IF op.path \notin DOMAIN tree THEN {tree}
  ELSE IF op.present THEN {[p \in DOMAIN tree \ {op.path} |-> tree[p]]}
  ELSE {}

AfterOperation(op, tree) ==
  CASE op.kind = "smali_edit"             -> AfterSmaliEdit(op, tree)
    [] op.kind = "overlay_tree"           -> AfterOverlay(op, tree)
    [] op.kind = "append_resource_entries"    -> AfterAppendResources(op, tree)
    [] op.kind = "append_manifest_components" -> AfterAppendComponents(op, tree)
    [] op.kind = "replace_resource_entry"     -> AfterReplace(op, tree)
    [] op.kind = "delete_path"                -> AfterDelete(op, tree)

\* operations that make apply_port index the descriptors of the tree
IndexesDescriptors(op) ==
  \/ op.kind = "smali_edit"
  \/ op.kind = "overlay_tree" /\ \E p \in DOMAIN op.files : IsSmali(p)

-----------------------------------------------------------------------------
(* compiler.py: what a resolution is refused for.                          *)

Grafts(b) == b.kind = "stock_dex_graft"

FinalDexEntries(b) == IF Grafts(b) THEN b.stock \cup b.add ELSE b.entries

Implemented(r) == {h \in DOMAIN r.statuses : r.statuses[h] = "implemented"}

\* every status is an intent's, no retired one is implemented, and the
\* operations implement the implemented intents, all of them, as allowed
IntentsAreCovered(r) ==
  /\ DOMAIN r.statuses = DOMAIN Intents
  /\ \A h \in Implemented(r) : Intents[h].disposition = "retain"
  /\ \A i \in DOMAIN r.operations : \A h \in r.operations[i].intents :
       h \in Implemented(r) /\ r.operations[i].kind \in Intents[h].strategies
  /\ \A h \in Implemented(r) : \E i \in DOMAIN r.operations : h \in r.operations[i].intents

\* no smali edit comes after an overlay
OperationOrderHolds(r) ==
  \A i, j \in DOMAIN r.operations :
    i < j /\ r.operations[i].kind = "overlay_tree" => r.operations[j].kind # "smali_edit"

\* a graft carries smali only, and its overlays fill exactly the added DEX entries
BackendFits(r) ==
  Grafts(r.backend) =>
    LET overlays == {i \in DOMAIN r.operations : r.operations[i].kind = "overlay_tree"}
    IN /\ \A i \in DOMAIN r.operations : r.operations[i].kind \in {"smali_edit", "overlay_tree"}
       /\ UNION {{p[1] : p \in DOMAIN r.operations[i].files} : i \in overlays} = r.backend.add

\* the things an operation owns, and the paths it writes
Destinations(op) ==
  CASE op.kind = "overlay_tree"           -> {<<p, "path">> : p \in DOMAIN op.files}
    [] op.kind \in {"append_resource_entries", "append_manifest_components"} ->
         {<<op.document, e>> : e \in DOMAIN op.entries}
    [] op.kind = "replace_resource_entry" -> {<<op.document, op.entry>>}
    [] op.kind = "delete_path"            -> {<<op.path, "path">>}
    [] op.kind = "smali_edit"             -> {}

WrittenPaths(op) ==
  IF op.kind = "delete_path" THEN {} ELSE {d[1] : d \in Destinations(op)}

\* no two operations own one thing, and nothing written is deleted
DestinationsAreApart(r) ==
  \A i, j \in DOMAIN r.operations :
    /\ i # j => Destinations(r.operations[i]) \cap Destinations(r.operations[j]) = {}
    /\ r.operations[i].kind = "delete_path" =>
         r.operations[i].path \notin WrittenPaths(r.operations[j])

\* a graft asserts that everything but the DEX entries it changes, and the
\* signature it asserts absent, is as in the stock APK
PreservationHolds(r) ==
  Grafts(r.backend) => /\ r.exclusions = r.backend.replace \cup r.backend.add
                       /\ r.exceptSigned = r.absentSigned

\* assertions name only DEX entries the backend produces
AssertionsFit(r) ==
  DOMAIN r.descriptors \cup DOMAIN r.strings \subseteq FinalDexEntries(r.backend)

Compiles(r) ==
  /\ IntentsAreCovered(r)
  /\ OperationOrderHolds(r)
  /\ BackendFits(r)
  /\ DestinationsAreApart(r)
  /\ AssertionsFit(r)
  /\ PreservationHolds(r)

-----------------------------------------------------------------------------
(* backend.py                                                              *)

\* what compose_apk asks of the stock and the intermediate APK
CompositionInputsHold(b, stock, built) ==
  IF Grafts(b)
  THEN /\ DOMAIN stock.dex = b.stock
       /\ b.replace \subseteq DOMAIN built.dex
       /\ b.add \subseteq DOMAIN built.dex
  ELSE DOMAIN built.dex = b.entries

\* the stock APK without its signature, DEX entries replaced and added
Graft(b, stock, built) ==
  [stock EXCEPT !.signed = FALSE,
                !.dex = [d \in DOMAIN stock.dex \cup b.add |->
                           IF d \in b.replace \cup b.add THEN built.dex[d] ELSE stock.dex[d]]]

Composed(b, stock, built) == IF Grafts(b) THEN Graft(b, stock, built) ELSE built

\* the rest of a graft is the stock APK's, its DEX entries one or the other's
GraftHolds(b, stock, built, out) ==
  /\ DOMAIN out.dex = FinalDexEntries(b)
  /\ ~out.signed
  /\ out.rest = stock.rest
  /\ \A d \in FinalDexEntries(b) :
       out.dex[d] = IF d \in b.replace \cup b.add THEN built.dex[d] ELSE stock.dex[d]

\* what compose_apk checks of its staged file, and again of the published one
ComposedHolds(b, stock, built, out) ==
  IF Grafts(b) THEN GraftHolds(b, stock, built, out)
  ELSE DOMAIN out.dex = b.entries /\ out = built

-----------------------------------------------------------------------------
(* verifier.py                                                             *)

EditIsVerified(op, tree) ==
  \E p \in Located(tree, op.class) :
    /\ op.method \in DOMAIN tree[p].code
    /\ SequenceCount(tree[p].code[op.method], op.final) = op.finals
    /\ SequenceCount(tree[p].code[op.method], op.pre)
         = ExpectedPreconditionCount(op, SelectedCount(op))

ResourcesAreVerified(tree, document, entries) ==
  document \in Documents(tree) /\ EntriesAreThere(tree[document], entries)

ManifestIsVerified(tree, document, components) ==
  /\ document \in Documents(tree)
  /\ "application" \in DOMAIN tree[document]
  /\ EntriesAreThere(tree[document].application, components)

\* the postcondition of an operation, on the decoded output
OperationIsVerified(op, tree) ==
  CASE op.kind = "smali_edit" -> EditIsVerified(op, tree)
    [] op.kind = "overlay_tree" ->
         \A p \in DOMAIN op.files : p \in DOMAIN tree /\ tree[p] = op.files[p]
    [] op.kind = "append_resource_entries" ->
         ResourcesAreVerified(tree, op.document, op.entries)
    [] op.kind = "append_manifest_components" ->
         ManifestIsVerified(tree, op.document, op.entries)
    [] op.kind = "replace_resource_entry" ->
         ResourcesAreVerified(tree, op.document, [e \in {op.entry} |-> op.after])
    [] op.kind = "delete_path" -> op.path \notin DOMAIN tree

HasDescriptors(tree, d, asked) ==
  IF asked.exact THEN ClassesOf(tree, d) = asked.classes
                 ELSE asked.classes \subseteq ClassesOf(tree, d)

\* a sequence counted in a method, no lines where there is no method
SmaliCount(tree, class, method, wanted) ==
  LET places == {p \in Located(tree, class) : method \in DOMAIN tree[p].code}
  IN IF places = {} THEN 0
     ELSE SequenceCount(tree[CHOOSE p \in places : TRUE].code[method], wanted)

\* the string table of a DEX entry: here, the lines of its methods
DexStringTable(apk, d) ==
  UNION {UNION {{apk.dex[d][c][m][i] : i \in DOMAIN apk.dex[d][c][m]}
                  : m \in DOMAIN apk.dex[d][c]}
           : c \in DOMAIN apk.dex[d]}

DexStringsHold(apk, d, asked) ==
  /\ d \in DOMAIN apk.dex
  /\ asked.present \subseteq DexStringTable(apk, d)
  /\ asked.absent \cap DexStringTable(apk, d) = {}

\* names and bytes of the stock entries are kept, but for the exclusions
IsPreserved(r, stock, out) ==
  /\ DOMAIN out.dex \ r.exclusions = DOMAIN stock.dex \ r.exclusions
  /\ \A d \in DOMAIN out.dex \ r.exclusions : out.dex[d] = stock.dex[d]
  /\ out.rest = stock.rest
  /\ r.exceptSigned \/ out.signed = stock.signed

AssertionsHold(r, stock, out, tree) ==
  /\ \A i \in DOMAIN r.operations : OperationIsVerified(r.operations[i], tree)
  /\ DOMAIN out.dex = FinalDexEntries(r.backend)
  /\ \A d \in DOMAIN r.descriptors : HasDescriptors(tree, d, r.descriptors[d])
  /\ \A c \in r.counts : SmaliCount(tree, c.class, c.method, c.sequence) = c.expected
  /\ \A d \in DOMAIN r.strings : DexStringsHold(out, d, r.strings[d])
  /\ Grafts(r.backend) => IsPreserved(r, stock, out) /\ ~out.signed
  /\ r.absentSigned => ~out.signed

\* mutant: the tree that was built, not the one decoded from the output
DecodedIntermediate == DecodeOf(intermediate)

\* the tree verify_apk reads is the one decoded from the APK it judges
DecodedOutput == DecodeOf(published)

-----------------------------------------------------------------------------
PortInit ==
  /\ resolution \in Resolutions
  /\ worktree = DecodeOf(StockApk)
  /\ position = 1
  /\ intermediate = NoApk
  /\ published = NoApk
  /\ portStage = "resolved"

OperationAt(i) == resolution.operations[i]

CompilePort ==
  /\ portStage = "resolved"
  /\ portStage' = IF Compiles(resolution) THEN "compiled" ELSE "refused"
  /\ UNCHANGED <<resolution, worktree, position, intermediate, published>>

\* apply_port begins with the descriptor index, when an operation needs it
IndexTree ==
  /\ portStage = "compiled"
  /\ portStage' = IF \/ DescriptorIndexHolds(worktree)
                     \/ ~\E i \in DOMAIN resolution.operations : IndexesDescriptors(OperationAt(i))
                  THEN "applying" ELSE "failed"
  /\ UNCHANGED <<resolution, worktree, position, intermediate, published>>

ApplyOperation ==
  /\ portStage = "applying"
  /\ position <= Len(resolution.operations)
  /\ \E tree \in AfterOperation(OperationAt(position), worktree) : worktree' = tree
  /\ position' = position + 1
  /\ UNCHANGED <<resolution, intermediate, published, portStage>>

\* the first refused operation ends apply_port; earlier ones stay in the tree
RefuseOperation ==
  /\ portStage = "applying"
  /\ position <= Len(resolution.operations)
  /\ AfterOperation(OperationAt(position), worktree) = {}
  /\ portStage' = "failed"
  /\ UNCHANGED <<resolution, worktree, position, intermediate, published>>

\* the build tool may reuse a DEX entry of the stock APK it did not rebuild
ToolBuilds(tree) ==
  LET apk == BuildOf(tree)
  IN {apk} \cup {[apk EXCEPT !.dex[d] = StockApk.dex[d]]
                   : d \in DOMAIN apk.dex \cap DOMAIN StockApk.dex}

BuildTree ==
  /\ portStage = "applying"
  /\ position > Len(resolution.operations)
  /\ intermediate' \in ToolBuilds(worktree)
  /\ portStage' = "built"
  /\ UNCHANGED <<resolution, worktree, position, published>>

\* compose_apk writes a temporary file; a bad write may leave a stock DEX entry in it
StageOutput ==
  /\ portStage = "built"
  /\ IF CompositionInputsHold(resolution.backend, StockApk, intermediate)
     THEN LET apk == Composed(resolution.backend, StockApk, intermediate)
          IN /\ published' \in {apk} \cup {[apk EXCEPT !.dex[d] = StockApk.dex[d]]
                                             : d \in DOMAIN apk.dex \cap DOMAIN StockApk.dex}
             /\ portStage' = "staged"
     ELSE published' = published /\ portStage' = "failed"
  /\ UNCHANGED <<resolution, worktree, position, intermediate>>

\* the staged file is checked, linked to the output path and checked again
PublishOutput ==
  /\ portStage = "staged"
  /\ IF ComposedHolds(resolution.backend, StockApk, intermediate, published)
     THEN published' = published /\ portStage' = "published"
     ELSE published' = NoApk /\ portStage' = "failed"
  /\ UNCHANGED <<resolution, worktree, position, intermediate>>

\* verify_apk, on the output decoded again
VerifyApk ==
  /\ portStage = "published"
  /\ portStage' = IF ~DescriptorIndexHolds(DecodedOutput) THEN "failed"
                  ELSE IF AssertionsHold(resolution, StockApk, published, DecodedOutput)
                       THEN "passed" ELSE "unverified"
  /\ UNCHANGED <<resolution, worktree, position, intermediate, published>>

PortNext ==
  \/ CompilePort \/ IndexTree \/ ApplyOperation \/ RefuseOperation
  \/ BuildTree \/ StageOutput \/ PublishOutput \/ VerifyApk

PortSpec == PortInit /\ [][PortNext]_portVars

-----------------------------------------------------------------------------
\* What an operation was for, read off an APK and not off its assertion.
InOutput(op, apk) ==
  CASE op.kind = "smali_edit" ->
         \E d \in DOMAIN apk.dex :
           /\ op.class \in DOMAIN apk.dex[d]
           /\ op.method \in DOMAIN apk.dex[d][op.class]
           /\ LET lines == apk.dex[d][op.class][op.method]
              IN IF op.payload = <<>> THEN SequenceCount(lines, op.final) = op.finals
                 ELSE SequenceCount(lines, op.payload) >= op.finals
    [] op.kind = "overlay_tree" ->
         \A p \in DOMAIN op.files :
           IF IsSmali(p)
           THEN /\ p[1] \in DOMAIN apk.dex
                /\ op.files[p].class \in DOMAIN apk.dex[p[1]]
                /\ apk.dex[p[1]][op.files[p].class] = op.files[p].code
           ELSE p \in DOMAIN apk.rest /\ apk.rest[p] = op.files[p]
    [] op.kind = "append_resource_entries" ->
         \A e \in DOMAIN op.entries : apk.rest[op.document][e] = op.entries[e]
    [] op.kind = "append_manifest_components" ->
         \A c \in DOMAIN op.entries : apk.rest[op.document].application[c] = op.entries[c]
    [] op.kind = "replace_resource_entry" -> apk.rest[op.document][op.entry] = op.after
    [] op.kind = "delete_path" -> op.path \notin DOMAIN apk.rest

\* The final sequence of an edit shows its payload.  SmaliEdit does not demand
\* it; the resolutions on file are written so (tests/fixtures/phase_b/resolutions).
ShowsPayload(op) ==
  \E k \in 0..(Len(op.final) - Len(op.payload)) :
    \A j \in DOMAIN op.payload : op.final[k + j] = op.payload[j]

FinalsShowPayloads ==
  \A r \in Resolutions : \A i \in DOMAIN r.operations :
    r.operations[i].kind = "smali_edit" => ShowsPayload(r.operations[i])

(* A port whose verification passes carries every intent it says it        *)
(* implements: each has an operation, and the effect of each of its        *)
(* operations is in the APK that was published, whatever later operations, *)
(* the build tool, the graft and the write did to it (apply.py:52-77,      *)
(* backend.py:534-587, verifier.py:120-197).                               *)
PassedCarriesEveryIntent ==
  portStage = "passed" =>
    \A h \in Implemented(resolution) :
      /\ \E i \in DOMAIN resolution.operations : h \in OperationAt(i).intents
      /\ \A i \in DOMAIN resolution.operations :
           h \in OperationAt(i).intents => InOutput(OperationAt(i), published)

=============================================================================
