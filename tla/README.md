# A verification of the DFInsta porting pipeline

TLA+ models of the DFInsta pipeline (`src/src/dfinsta_pipeline` and
`src/tools`), the TLC runs that check them on small instances, and TLAPS proofs
about them for every value of their constants. Source paths below are relative
to `src/src/dfinsta_pipeline` unless they say otherwise.

The pipeline ports a set of patches ("hooks") onto a new release of an
application: it decodes the stock APK, finds where each hook goes, applies the
patches, builds, verifies, measures the result on a phone, and asks a human at
two gates. Two halves of it keep state. A kernel must survive crashes, retries
and late answers: an SQLite ledger, a content-addressed store, a subprocess
executor and Temporal workflows. Around it, ports leave files behind that later
ports read: rulings, evidence, history, decision memory, decoded trees, build
directories, a phone. Both are modelled; each component has a module of its own.

## Inventory

| Component | State it keeps | Operations | Hard behaviour | What makes it correct |
|---|---|---|---|---|
| Operation ledger (`ledger.py`) | claim row and append-only events for each operation; decisions and grants | begin, release, record_effect, complete, quarantine, backfill; admissions | callers that were replaced, repeated calls, old ledgers | one outcome for each operation; row and events agree; outputs never change |
| Replay stages (`activities.py`) | none of their own: workspace, process, claim, receipts | decode, install frameworks, apply tree, build, verify | zombies, crashes between two writes, cancellation at any await; three separately written readers of one receipt | success is the completed output; only an owner burns a claim; what one stage leaves the next accepts |
| Operator release (`claims.py`) | none | read, release | stale read, live process | one process for an operation |
| Subprocess executor (`executor.py`) | process, cleanup task, launch task | execute | cancel against timeout against exit; grandchildren; late launch | a release implies that the process is gone; nothing waits for ever |
| Replay workflow and gate (`replay_workflow.py`, `replay_gate.py`) | workflow state; decisions and grants in the ledger | run, submit, validate, admit | late and repeated decisions, timer against update, death between two writes, re-driven runs | verification only by recorded consent; consent given is honoured; a grant is single-shot; a drive ends |
| Assessment record (`assessment_record.py`) | one authority row for a run, one operation | record, resolve_with | two recorders, a death between four writes | whoever is told "recorded" was told the same; it can be resolved |
| Content store (`store.py`) | directory of blobs | put_blob, read_blob | kill, failed call or power cut between system calls; concurrent publishers; a directory just made | never a torn blob; what was returned stays readable |
| Workspace reaper (`reaper.py`) | none | survey, remove | survey gone stale while a stage resumes | never a workspace in use before it has reached the age floor |
| Feature gate (`feature_workflow.py`, `feature_gate.py`, `gate_contract.py`, `rulings.py`) | workflow state; decisions, dispositions, ruling store, manifest | prepare, submit, admit, plan, apply | as the replay gate, with a document in between; applications that die half way | a completed drive's rulings are findable; nothing blocked without a record |
| Submission client (`submission.py`) | journal file for each gate | query, journal, submit | crash between journal and update; a re-driven run | one document for each decision, the one the human meant |
| Hook resolution (`resolve.py`, `hook_manifest.py`, `hook_index.py`, `capture_supply.py`, `reanchor.py`) | none | resolve each hook, compose, patch | payloads that disturb other hooks' anchors; a tree patched before | a patched tree is recognised |
| Decision memory and expectations (`decisions.py`, `expectation.py`, `retirement.py`, `manifest_update.py`, `history.py`) | append-only logs | record, retire, restore, expect, offer | logs read by later versions, written by processes that die | no drop is cleared or missed; replaying puts nothing new on offer |
| Evidence and measurement (`evidence.py`, `probes.py`, `differential.py`, `record_runtime.py`, `runtime_identity.py`, `device_evidence.py`, `observation.py`, `grouping.py`) | evidence files, observation rows | claim, record, compare, report | measurements repeated, paired late or compared with replaced ones; captures of another build | readiness rests on the same probe on two versions, or on a person's waiver; a row says what was walked |
| Driver and runbook (`driver.py`, `src/tools/port.py`) | run directory, phone | each step, resume | artefacts of earlier runs at resumption | a gated build carries every hook; a finished port carries the rulings |
| Agents (`proposer.py`, `proposals.py`, `agent_runner.py`, `sandbox_tools.py`, `discovery.py`, `agent_cost.py`) | call budget | ask, compare, escalate | disagreement, exhaustion | no proposal without agreement and a check |
| Generalisation (`generalise.py`, `manifest_patch.py`) | none | derive, verify, write | refusal paths | a rule reproduces every version it claims |
| Contracts and admission (`contracts.py`, `replay_contracts.py`, `port_contracts.py`, `compiler.py`, `source_admission.py`) | admitted source tree | validate, encode, compile, admit a source bundle | edits between check and copy, two admitters, power cuts | a destination that exists is the manifest's tree |
| Trees and APKs (`apply.py`, `backend.py`, `decoded_artifact.py`, `verifier.py`) | work tree, stored trees | compile, apply, compose, verify; capture, materialise | operations that undo each other; a tool that still writes | a port that passes carries every intent; what a capture recorded was there |
| Reports (`assessment.py`, `surface_diff.py`, `guards.py`, `settings_ui.py`, `roster.py`, `final_report.py`) | none | derive | none: pure | — |
| Worker (`worker.py`) | none | start, stop | its loss | — |
| Tools (`src/tools`) | files | build, verify, walk, record, watch; one-shot scripts | the walk's resumption | see the runbook |

### How they interact

The Temporal server schedules activities; an attempt at a stage is identified by
its owner token (`_activity_owner`: run, activity and attempt). A stage first
demands its predecessors' operations completed, then claims its own in the
ledger. It runs external programs through the executor, in a workspace named
after its own token; publishes the result in the content store; records the
artifact as the operation's *effect*; and completes the operation. A later
attempt of the same stage finds the effect and adopts it. One except block at
the end of each stage decides what a failure does to the claim: release (another
attempt may claim it) or quarantine (nobody ever may).

When all stages are done the workflow looks for a verification grant; without
one it raises a gate and waits for a decision, delivered as a workflow update by
the submission client. An approval is admitted by an activity that writes the
decision row and then the grant row. Verification is a stage that names the
grant. A run that ended in any other way may be driven again: a new workflow,
the same tables.

The feature gate has the same shape, with a content-addressed document of
rulings between the answer and the ledger; `rulings.py` later plans and applies
them to the ruling store and the hook manifest. The manifest is what the driver
resolves: it looks for the sites of its hooks in a decode, asks agents for the
hosts that nothing mechanical finds, files evidence, holds the port at a gate,
composes the operations, builds and verifies. The runbook strings the driver,
the signer, the phone and the recording of what the phone showed together, each
step skipped when its artefact is there. Evidence about a version decides
whether its hooks are ready, and the next version is expected to keep them,
unless a human retired them.

## Modules

    OneOutcome                     what the ledger promises about an operation
      ^ implemented by
    OperationLedger                the claim and event tables       OperationLedgerProofs
      ^ extended by                                                  ^ extended by
    StageAttempts                  attempts, server, operator       StageAttemptsProofs
    AssessmentRecord               recorders of one assessment      AssessmentRecordProofs
    WorkspaceReaper                reaper against live attempts     PortDecisionProofs

    SubprocessSupervision          what happens inside one stage    SubprocessSupervisionProofs
    ReplayRun                      the workflow from its gate on    ReplayRunProofs
    DurableBlob                    what the store promises about one blob
      ^ implemented by
    ContentStore                   one blob on disk                 ContentStoreProofs
    ReplayReceipts                 what a stage demands of another  PortDecisionProofs
    FeatureGate, Rulings           feature gate, client, journal;   PortDecisionProofs
                                   the consumer of rulings
    SourceAdmission                a source bundle into an attempt  PortObservationProofs
    PortRun, HookSites             the driver; where hooks go       PortDecisionProofs
    TreePort                       one port's trees and APKs        PortDecisionProofs
    TreeCapture                    decoded trees in and out of the store  PortObservationProofs
    PortEvidence, PortHistory      what later ports read            PortObservationProofs
    PortMemory                     what later ports read            PortDecisionProofs
    PortRunbook                    tools/port.py, the phone, its walks    PortObservationProofs
                                   and their record

Each `MC*` module states the instance its configurations check. Operators whose
comment starts with "Mutant" are plausible mistakes in the code; no
specification uses them. They exist to show that each property would notice.

`MCPorting` checks thirteen components in one run. They share no variable: the
variable `part` picks one at the start, the others keep one initial state, and
the states explored are the sum of the components' and not their product. As no
component reads another's variables, the product could show nothing more.
Components that do share state (the ledger with stages, recorders and reaper; the
gate with its client, journal and admission) are one module or extend it.

### OperationLedger, OneOutcome

`claim` and `history` are the tables `operation_claims` and `operation_events`.
Every method opens `BEGIN IMMEDIATE`, so a method is one atomic action and what
interleaves is whole calls. The operation's kind and input hash are one value,
`Inputs`; an output is the artifact reference reduced to its producer and
content. A refused call raises and changes nothing: it is no step, and callers
name the refusals they react to (`BeginRefused`, `~Releasable`, ...). Initial
states are the histories a ledger that predates the claim table may hold, with
the rows `_backfill_claims` derives from them. `MaxClaims` bounds
`owner_attempt`, which the code does not bound.

`OneOutcome` is the promise: an operation is open, then offers one output, then
is settled with it or given up. `ImplementsOneOutcome` is the refinement, with
`claimOutcome` as the mapping.

`HistoryTellsClaim` relates the mutable row to the append-only history in every
detail; `CompletionIsProvable` says that `_require_completed_build_claim`, which
re-proves a build from its events before a grant is issued, can never refuse an
operation that was completed legally. Both could be broken by any method that
forgets one of its two statements, or by a takeover after the effect.

### StageAttempts

An attempt's `pc` moves through *starting* (predecessors, claim), *granted*
(claimed, no workspace yet), *working* (its subprocess runs), *captured*
(outputs read back, not yet recorded), *recorded* (effect written), or *adopting*
(the claim already had an effect). `proc` is the attempt's subprocess, which may
outlive the attempt and the worker. The five stages share this shape; stages that
launch no program are those where the process exits at once.

The except block is modelled where each failure can happen. Before the workspace
exists it releases (`FailBeforeWorkspace`); afterwards it quarantines (`Fault`,
`SubprocessTimesOut`, `Record` refused), except for a cancellation whose process
is known to be gone (`CancelSubprocess`, `CancelCapture`). A stage in `Absorbing`
(the verification) hides from `_releasable` what the process came to: its
cancellation releases with the process gone or running (`CancelAbsorbed`, Finding
1), whatever else is assumed. Once the effect is recorded the claim is left to be adopted (`Complete`).

`Dispatch`, `StageRaises`, `GiveUp` and `Redrive` are the server: at most
`MaxTries` attempts, none after an exception named in `_STAGE_RETRY`'s
non-retryable list, and giving up an attempt that may in fact be alive (a
zombie). The exception's exact class matters, so `Ends` records it.

`orderly` is a parameter of the behaviour, chosen initially. `TRUE` assumes two
things the code does not ensure by itself: that no cancellation reaches a stage
which is already cleaning up after its subprocess (Finding 2), and that the
operator of `claims.py` has checked that the owner *and its process* are gone
before reading the claim. `OneProcessPerOperation` is claimed only then, and of
the stages that await `execute()` themselves: of a stage in `Absorbing` it is false
after a single cancellation. All other properties are claimed of both.

### SubprocessSupervision

One `execute()` call: the coroutine (`co`), the launch task, the process tree
reduced to who still holds the pipes (`tree`), the shielded cleanup task
(`cleaner`), the done-callback that minds a late launch (`minder`) and the
difference of the two workspace snapshots (`dirty`). `shielded` selects the kind of
wait: the verification stage wraps the call in `_await_verification_execution`,
which absorbs cancellations and raises the first of them in the place of whatever
`execute()` ends with, or has just ended with; the other stages await it directly.
`Caught` is the exception that reaches the stage's except block, `Decide` what that
does with the claim.

### ReplayRun, ReplayReceipts

`ReplayRun` is `ReplayRunWorkflow.run` as steps between its awaits, the gate's
validator (`Valid`), and the admitting activity as two transactions
(`RecordDecision`, `RecordGrant`) of attempts that the server may give up on
while they still write. Decisions are issued by a human looking at an open gate
and stay in `sent`: they can be delivered late, repeatedly, or to a later drive.
A decision states the time of its client's clock, which may be ahead by `Skew`.
Every drive derives the same request, so its hash is left out of the comparison:
it always matches, which is what makes a decision for an earlier drive a danger.

`ReplayReceipts` is the other half: what the records say. A digest is the place of
its content among the contents ever named, so two records agree exactly when the
code's digests would. An admission, five stages with the keys they compute,
receipts they leave and validators that read them, the derivation of the gate's
request from a completed build, the grant, and the readers that check grant,
decision, build claim and receipts against each other. Operations may be
claimed, given back and claimed again (`MaxPending`), which is where a reader
that assumes the first claim to be the completing one would refuse an approval.

### FeatureGate, Rulings

`FeatureGate` composes four processes over two tables and a journal file: the
workflow (`OpenGate`, `DeliverUpdate`, `GateLapses`, `StartAdmission`, ...), the
client (`ReadGate`, `GateVerifies`, `SignAnswer`, `WriteJournal`, `SendUpdate`,
death between any two), the admitting attempts (`AdmissionAt`, two writes,
death, lateness), and a foreign client that submits whatever it likes. A
document of rulings is a function from candidates to rulings; the instance has
an acceptable one, another, and one that no admission accepts.

`Rulings` is what becomes of them: `plan`, the staleness check, the append to the
store and the write of the manifest as separate steps of two operators, with
people who edit the manifest in between and appends that are cut. An append goes to
the end of the file, whatever stands there: behind half a line (`torn`) its first
ruling shares that line and cannot be read back (`glued`). `apply` does not look.

### WorkspaceReaper

`survey()` and `reap()` over the claims of `OperationLedger` and the workspaces of
attempts that start, work, validate a recorded output in a workspace of their
own, end, die, and are released by an operator. Nothing bounds how long an attempt
works: a zombie does not know that its budget is over. The survey reads the claims
first and the directories after; what it found reapable is removed later, entry by
entry, without another look. The run checks what holds: nothing in use goes before
it has reached the age floor.

### SourceAdmission

An admitter reads and checks every file, writes a temporary tree, syncs it,
renames it over nothing and syncs the directory; another may do the same, the
source may be edited, either may be killed and the power may be cut. `synced`
says which of tree and name would survive a cut.

### HookSites, TreePort, TreeCapture

`HookSites` resolves every hook of a small manifest on a decode, composes the
operations and applies them in turn; the patched tree may be ported again. A line
of smali is what it is an instance of and a register; an anchor is a sequence
of such lines with captures. `ManifestLoads` is what the loader demands of a
manifest; `HooksKeepApart` is what it does not (see below).

`TreePort` follows one resolution from `compile_port` to `verify_apk`, with all six
kinds of operation and both backends (full rebuild, and DEX entries grafted into
the stock APK). A DEX entry is the code of its classes, a document its entries.

`TreeCapture` walks a tree, reading each file while another process may write,
and sweeps the files' stats at the end; then publishes, loads, materialises and
verifies a copy. Changes have numbers, but a status shows of one only the tick of
the file system's clock it fell in, and any number of changes may share a tick:
`SameStat` then takes a rewrite of equal size for no change. The module disclaims
an atomic snapshot, and so does `RecordedWasThere`: it says that what was recorded
of a file, or of the root's entries, was there when the walk ended, unless another
change fell in the very tick of the one that was read.

### PortRun, PortEvidence, PortHistory, PortMemory

`PortRun` is `_run_stages` of the driver, stage by stage, with its options (stop
after, reuse, skip the gate, discovery), every early return, and later runs in
the same directory. Agents' answers are free; k of them must agree, checkers may
refute, and the call budget ends the discovery.

`PortEvidence` keeps what is measured: static claims, device captures, halves of
a delta with their pairing, the comparison with an earlier version, and a person's
waiver of any item, which satisfies like a pass, down to release readiness. The
comparison of a first port, which has nothing to compare with, is waived in the
version's own file. `PortHistory` abstracts a version's evidence to which hooks it
mentions and calls ready, and models the sweep, the roster, and clerks that
derive the effective version of a retirement and append it later. `PortMemory` is
the last stage of a port, appending to two files line by line; `Offers` are the
answers a later run may be given, `Hint` the one `hint()` gives, the last of them.

### PortRunbook

`tools/port.py`: the steps, each with its `done` predicate (`Done`), what blocks
it (`Blocked`) and what it clears before it runs. A run passes over what is done
(`Reaches`) and executes the rest; predicates only read, so a whole stretch of
finished steps is passed in one step. Failures, a missing phone, missing signing
secrets and kills are all `RunbookStops`. The walks (`run_corpus.py`,
`device_session.py`) take a log of whatever build is installed; the log of an
observing build states its toggles ahead of every count, may lose its oldest
lines, may still have lines from before the session (the result of `logcat -c` is
not looked at), is empty when the phone is gone, and shows a toggle somebody
flipped meanwhile. `Parseable` is what
`observation.parse` accepts, `MayAppend` what `append` does, and `RecordWalk` files
the captures in order until one is refused. Between runs people rule, discard
walks, drop builds or take another run directory, and reinstall by hand; captures
have a directory of their own, named for the version, and stay.

### AssessmentRecord, ContentStore, DurableBlob

`record()` as its five steps: the pre-check, the claim (`retry_safe`), the
artifact and effect, the completion, the authority row. `mine` is what the
caller derived. The authority row is compared on the derivation and the actor,
as in the code; the surface bytes and the owner token are not part of it.

`ContentStore` is one digest. The state is the directory (`blob`, `temp`), which
files are complete (`whole`), the directory as it was last synced (`synced`), and
whether it is there and its parent was synced since (`place`). A power cut leaves
each entry in either version, independently; a directory whose parent was not
synced may be gone with all it held. Only the writer that made the directory syncs
the parent; who finds it made goes on at once. `owed` remembers who returned, until
such a loss. Any system call may fail, the last unlink of a failing call too
(`stranded`), whose error the code swallows. `Links` is
`st_nlink`, which the code waits on: two links mean a publisher between its link
and its unlink. `PublisherStuck` abstracts the hundred looks five milliseconds
apart: they outlast a publisher that is alive, and nobody else.

`DurableBlob` is the promise: a cell, empty or full. A get is told what the cell
holds, a put is confirmed when it is full; it fills while a put is under way,
and a loss of power may empty it until one was confirmed. Until the cell is
*rooted*, a loss of power may take it even from a confirmed put (`Uproot`); once it
is, never again. `ImplementsDurableBlob` is the refinement: the cell is full when the directory
has the blob, a call's answer is read off where it stands, and collisions,
failures and reads given up are errors. That a get was answered does not keep
the blob through a power cut; only a put does, because only a put syncs the
directory before it returns. A torn blob (`BlobIsWhole`) would show as a reader
told that the blob is corrupt, which the cell never says.

## What the runs show

All bounds are constants of the configurations.

| Run | States | Shows |
|---|---|---|
| `operation_ledger` | 101,761 | Two keys, two inputs, three owners (one the backfill's), two contents, three claims for each key, every legacy history. Row against events, provable completion, finality, refinement. Deadlock-free. |
| `subprocess` | 1,562 | Both kinds of stage, up to three cancellations, any of timeout, exit, stray, late launch, undeclared write. Deadlock-free. |
| `stage_attempts` | 101,053 | Two stages, the second requires the first and absorbs its cancellations, three attempts, two tries for each. Safety and, under fairness, that runs end and effects are adopted. |
| `replay_run` | 390,617 | Two drives, two decisions, four admission attempts, four ticks with a gate of two, a client's clock up to one tick ahead. |
| `assessment` | 73,167 | Three callers over two derivations, two owners, two surfaces, two crashes. |
| `content_store` | 579,703 | Three writers, a reader, one kill, one power cut, any system call failing. Returned readable, a second link explained, calls end, refinement of the durable cell: no blob torn or missed, and none lost but with its directory. |
| `porting` | 1,105,986 | The thirteen components below. |
| `subprocess_verify_mark`, `subprocess_release`, `assessment_effect`, `content_store_killed`, `runbook_rulings` | – | the five findings below |

The parts of `porting`, with the properties each is checked for:

| Part | States | Instance | Property |
|---|---|---|---|
| gate | 122,800 | two candidates, one measured; three documents; two drives, three admission attempts | `OneAnswerIsSent`: a decision is never sent with two documents. `CompletedIsFindable`: the row found for a completed drive is the submission it accepted |
| rulings | 146,700 | three runs of rulings, two endpoints that overlap, two operators, one edit, appends that are cut | `BlockedIsOnRecord`: what no person declared has a blocking line in the store, readable if no append was cut |
| reaper | 109,600 | three attempts that work as long as they like, a floor of two days out of three | `LiveWorkspaceSurvives`: nothing in use goes before it has reached the floor |
| evidence | 68,600 | one hook, two versions, four recordings, waivers among them | `ReadyWasHeld`: ready only if the same kind of probe passed on two versions, or that comparison was waived |
| history | 81,400 | one hook, three versions, one clerk, two rulings, four recordings | `RulingClearsNoDrop`, `StandingDropIsSwept` |
| memory | 60,700 | three reports of two hooks, two writers | `ReplayKeepsOffers`: a repeated lesson changes no offer, and the hint only to itself |
| sites | 1,600 | two hooks that touch one another's lines, every body of up to three lines, two ports | `PatchedTreeIsRecognised` |
| run | 14,000 | two hooks in two DEX files, two agents, a checker, two runs in a directory | `GatedBuildCarriesEveryHook` |
| receipts | 6,500 | two profiles, one run, two decisions, a build claimed twice | `ConsentIsHonoured` |
| tree | 30,900 | every order of up to three of eleven operations, five backends | `PassedCarriesEveryIntent` |
| capture | 192,500 | two trees, two writes by another process, in ticks of their own or one | `RecordedWasThere` |
| admission | 6,000 | two admitters, two files, one edit, one death or cut | `DestinationIsTheManifest` |
| runbook | 264,600 | one walk of two sessions, two requests each, two toggle states, one candidate, two builds | `RowsSayWhatWasWalked` |

Why the bounds are enough. In the ledger, keys do not interact, so one key
shows everything and the second shows that; a stale owner, its successor and a
legacy owner are the three roles a caller can have towards a row. Three attempts
give a zombie, the attempt that replaced it and one that meets what both left. Two
drives are the one a decision was meant for and the one it arrives in; more drives
repeat the second. Three writers are a publisher, one that adopts from it and one
that meets both; one power cut shows what a sync is for, and the safety properties
and the refinement were also explored with a second, which falls on what was
republished after the first (175,456 states up to the symmetry of the writers).
Three operations are one that is credited with an edit, one that undoes it and one
between them. Two operators, clerks, admitters or writers are one that
decided and one that acts before it writes. Four recordings are the least with
which two versions become comparable after one of them changed; a port's history
was also explored with five (147,907 states) and its evidence with five
recordings (683,736), where a pair of delta halves makes a hook ready. Two builds are the
observing and the shipped one, or an observing one and its successor. The proofs
remove the bounds from every safety property.

`CHECK_DEADLOCK FALSE` is said of the runs whose system comes to rest: attempts,
drives, calls and writers are finite in number and end. Their liveness
properties say how they end. `MCAssessmentRecord` fixes what the first caller
asks, without loss since keys, tokens and surfaces are interchangeable;
symmetry is not declared because most runs check liveness.

### Fairness

- A worker that has not died keeps executing its activity, and its timers expire:
  weak fairness on an attempt's own steps (`AttemptStep`, `AdmitStep`, `Step`,
  `WriterStep`). Nothing is assumed of a worker that died, and a zombie is alive.
- Processes are *not* assumed to exit (`ProcessExits`, `StrayExits` carry no
  fairness), except a direct child that was killed. The subprocess budget ends the
  wait: the disjunction of return and timeout is fair, not the return.
- The server delivers results and timeouts: `_STAGE_HEARTBEAT_TIMEOUT` and the
  stage budget make `GiveUp` certain for an attempt that never answers.
- Nobody is assumed to act: no fairness on cancellations, humans, decisions,
  re-driving, the operator, or any failure.
- The components of `porting` carry no fairness: they are run by people, who may
  stop at any step, and only safety is claimed of them.

## What is proved

Eight modules hold proofs, for any values of the constants that satisfy the
assumptions named in the modules. Type correctness is proved as the first
conjunct of each invariant and is not checked by a run of its own. Every inductive
invariant below was first checked by TLC on the instance of its component. Every
safety invariant, action property and refinement a passing run checks is a theorem.

*Ledger* (`LedgerAssumption`: the null tokens differ from real ones).
`LedgerInvariant`: `LedgerSpec => []LedgerInv`, where

    LedgerInv == LedgerTypeOK /\ HistoryTellsClaim /\ OutputFitsStatus

`HistoryTellsClaim` alone is not inductive. It relates the events to the row's
output, and appending an effect keeps it only if the row had no output before;
that a pending row has none, and that a released claim is always pending, is
`OutputFitsStatus`. The argument goes through one predicate, `Moves`, that
lists the six ways a call may change one row with its history (`CallMoves`: every
method is one of them); each lemma then splits on these six instead of on the
methods. From the invariant follow `HistoryFaithful`, `CompletionProvable`,
`OutputWrittenOnce`, `SettledFinal` and the refinement
`LedgerImplementsOneOutcome`.

*Stages* (`StageAssumption`: the plan is a nonempty sequence of keys, an
attempt's token can be content). `StageUsesLedger`: the steps of
`StageAttempts`, restricted to the tables, are ledger steps, so the ledger's
theorems apply to it: `StageKeepsLedgerPromises` transfers the refinement of
`OneOutcome`, finality and provable completion to attempts, servers and
operators. `StageInv` adds where the owner of a claim must stand:

    StageInv == LedgerInv /\ AttemptTypeOK /\ OwnerFits /\ GotFits /\ ServerFits
                /\ SuccessIsTheCompletedOutput

`OwnerFits` is the heart of it: an attempt that owns a claim attempts that very
stage, and its position fits the claim's status (a pending claim's owner is granted,
working, captured or lost; a quarantined claim's owner has failed and left no
output). `SuccessIsTheCompletedOutput` is not inductive without it, since a
success would otherwise be undone by whoever still owned the claim. `StageTypesHold`,
`StageSuccess`, `StageQuarantine`, `StageFailure` and, for orderly operators,
`StageOneProcess` follow; the last needs in addition (`ProcessInv`) that a running
process of a stage that does not absorb its cancellations belongs to the owner of a
pending claim or to an attempt whose claim is burnt.

*Gate* (`ReplayRunProofs`).

    RunInv == RunTypeOK /\ ServerWaits /\ ApprovalsAreAdmitted /\ WritesAreThere

The wanted facts are about what the workflow holds in its hand, and it acquires
them from attempts that write after it stopped listening. `WritesAreThere` says
that a grant, and an attempt between its two writes, has its decision on record;
`ApprovalsAreAdmitted` that what an attempt admits was accepted by a drive. Tables
only grow, so both survive late writers. `ConsentVerified` and `GrantedOnce`
follow for any clocks. `GateSeenAnswered` is for any bound `Skew` on how far a
client's clock may be ahead: a decision taken at an earlier gate is admitted at this
one only if the gate was raised within `Skew` of it (`OldDecisionsAreOld`); with
clocks that are not ahead, never.

*Store* (`ContentStoreProofs`).

    StoreInv == StoreTypeOK /\ WholeInv /\ BegunInv /\ LinkedInv /\ CleanInv
                /\ SyncedInv /\ PlaceInv

A blob is whole because whoever links has written and synced everything
(`BegunInv`, `WholeInv`), in memory and in either version a power cut may leave
(`LinkedInv`, which also says that while anybody is owed the blob it is on disk with
one link); `CleanInv` accounts for the temporary names, killed, stranded and cut
writers' among them, and `PlaceInv` for a directory that is not there. `WholeBlob`,
`ReturnedReadable` and `SecondLinkExplained` follow. `StoreImplementsDurableBlob` shows
that each step of a writer, a reader, a kill or a cut is a step of the cell or a
stutter: a cut that takes the directory is `Uproot`, which is why the cell must not
be rooted before the parent was synced. It needs `SyncedInv`, that a blob in the
synced directory is in the directory too: without it a power cut could fill the cell
with no put under way.

*Supervision* (`SubprocessSupervisionProofs`).

    SupervisionInv == TypeOK /\ PendingInv /\ FirstInv /\ ReturnedInv
                      /\ CancelledInv /\ VerdictInv

Each conjunct relates the coroutine's position to what the launch, the cleanup and
the tree can be then; the verdict of a stage depends on how it got there, which
only these carry. `ProceedsClean` and `CancellationReleased` follow.

*Assessment* (`AssessmentRecordProofs`, on top of the ledger's lemmas).

    AssessmentInv == LedgerInv /\ CallTypes /\ FoundInv /\ ToldInv
                     /\ AuthorityHasArtifact

`FoundInv` says what a caller between two steps has seen in the claim of its key,
which is still so when it acts on it: outputs never change. `ToldTheSame` and
`AuthorityBacked` follow, and `AssessmentKeepsLedgerPromises`: a recorder's step on the
tables is a call of the ledger, so its promises hold among recorders too.

The components of a port have their theorems in two modules, by what they are
about: `PortDecisionProofs` (what is done is what was decided) and
`PortObservationProofs` (what is kept is what was observed).

*Reaper* (`PortDecisionProofs`, for stages of any length).

    ReaperInv == AttemptsWellFormed /\ MadeByItsOwner /\ UsedWasKept /\ FoundIsOld

What the reaper found had reached the floor when its survey began, and cannot have
become younger, because a token names one attempt (`MadeByItsOwner`); so whoever
uses a workspace has it, or had it for as long as the floor (`UsedWasKept`).
`WorkspaceSurvives` follows.

*Feature gate* (`GateAssumption`: clients submit answers of the gate's shape, and
having no submission is not one).

    GateInv   == AnswerInv /\ AdmitInv
    AnswerInv == GateTypes /\ ClientHoldsJournal /\ JournalIsNewest /\ OneAnswerIsSent
    AdmitInv  == AttemptsWrote /\ RowIsApproved /\ FlowWaitsForItsOwn

`OneAnswerIsSent` compares every two documents ever signed, and alone says
nothing of the next. `JournalIsNewest` does: whatever was signed is older than
the journal or is it, and without a journal it is older than the moment the
client read the gate, so a new decision has a time of its own.
`CompletedIsFindable` is about a row that late attempts of other drives also write;
`AttemptsWrote` says what each has on record where it stands, and
`FlowWaitsForItsOwn` that the attempt a drive hears carries its own submission.

*Rulings* (`RulingAssumption`: a policy is a list of rulings).
`BlockedIsOnRecord` is not inductive: an operator writes the manifest from a plan
made before others wrote. `PlansAreOnFile` says that what its plan found declared
was on file or declared by hand then, and that what it adds is on file once it
has appended, before it writes. The store only grows (`FileGrows`). That the line can
be read back while no append was cut is `CutBeforeGlued`: only a cut leaves half a
line, and only behind one is a ruling glued.

*Decision memory* (`MemoryAssumption`: a resolution on file has the fields
`manifest_update.py` writes). `MemoryInv` types the file and what each writer has
left. `ReplaysKeepOffers` is an action property: the line appended is on record
already in all but its stamp, and what is offered shows no stamp, so it joins its
twin on offer or stays off with it (`RepeatIsOffered`). The hint is the last line on
offer; if it moves at all it moves to the new line, whose version is another one,
since two answers for one version take both off (`RepeatKeepsOffers`).

*Port run* (`RunInv` of `PortDecisionProofs`). A gated build carries every hook
because past the gate every hook is found by the mechanical search or is there
already, so that the accepted proposals, which are composed too, have nothing to
add. The invariant says stage by stage what is resolved, that what is composed at
the build is what was found or accepted, and that nothing is carried before it.

*Receipts* (`ReceiptsAssumption`: a profile's slots and timeouts).

    ReceiptInv == NamedIsListed /\ OperationsHold /\ DecisionsHold
                  /\ AdmissionsHold /\ GrantsHold

`GrantsHold` is what a reader of a grant checks: that it agrees with the decision
and the build it names. The rest says why this stays so: digests keep naming
the same content, an operation's history is claims, one effect, one completion, in
that order, and completed rows, decisions and admissions are never taken
back (`Grows`). `ConsentHonoured` follows; its other half, that an approval of a
completed build can become a grant, comes from `ApprovalGrants`.

*Hooks on a patched tree* (`PatchedRecognised`). The theorem has a hypothesis on
the manifest, `HooksKeepApart`, which no loader enforces and which the manifest
that is shipped satisfies; the `porting` run evaluates it on its own. It says: on a
pristine decode there is no marker, and no payload brings another hook's; next to
a marker in a payload stands a line that counts and that no anchor asks for (the
probe call); what a form replaces it puts back as far as literals are concerned
that hosts are found by. The invariant of the first port is that every text is
`Fenced` (a marker and some line no anchor asks for have nothing that counts
between them), still has its literals, and carries a hook's markers exactly where
and when that hook was applied (`Stands`). A patch is a splice (`PatchSplices`)
whose cut is a window of lines an anchor asks for, so it cuts no marker and parts
none from its fence (`MarkersAreNotCut`, `FencedStays`). In the tree that results each
hook is found again, by whichever fingerprint (`HostIsFoundAgain`), and found once;
that is the invariant of every later port.

*Trees* (`PassedCarriesIntents`, of `PortDecisionProofs`).

    TreePortInv == resolution and position are what they should be
                   /\ TreeHolds(worktree) /\ ApkHolds(intermediate) /\ ApkHolds(published)
                   /\ a resolution past the compiler compiles
                   /\ what passed has the verifier's assertions

The verifier looks at the APK and not at what the operations did: for an edit,
at how often the method shows the final sequence. The theorem says this is
enough, and its argument is the lemma `VerifiedIsInOutput`, one case for each
kind of operation. For an edit, the count of the final sequence must account for
the payload, whatever later operations rewrote: `PayloadIsCounted` says that
wherever a final sequence that shows its payload is found, the payload is
(`MatchesAreCounted`, `PlacesShift`). That a class in an APK is code at all,
through overlays, edits, documents, build, graft and write, is `TreeHolds` and
`ApkHolds` (`OperationKeepsTree`, `DecodeGivesTree`, `BuildGivesApk`,
`SwapKeepsApk`). The theorem has a hypothesis on resolutions,
`FinalsShowPayloads`: the final sequence of an edit contains the payload it is
for. `SmaliEdit` does not demand it; every resolution on file
(`tests/fixtures/phase_b/resolutions`) satisfies it, and the `porting` run
evaluates it by an `ASSUME`.

*Evidence* (`PortObservationProofs`). `EvidenceInv` adds to the types that a
comparison that passed has a shape of probe that passed on both versions; what a
waiver satisfies ends in that waiver, which the theorem names. It is kept because claims are only appended (`PassesStay`) although a comparison may be
replaced by a later one, and a later measurement may fail.

*History*. `HistoryInv` adds `RulingComesAfter`: a clerk that has decided and not
yet written has decided on a version no earlier than any it saw, however
many are recorded until it writes. `RulingClearsNoDrop` (an action property) and
`StandingDropIsSwept` follow; the second needs that every set of versions on record
has a newest one (`SeriesIsBounded`).

*Runbook* (`RunbookAssumption`).

    BookInv == BookTypes /\ RunStands /\ OutDirShape /\ CapturesAreOfOurBuilds
               /\ RowsSayWhatWasWalked

A row is of the build it is filed under, or was taken of one that observed before that
build was made, because every capture on disk is of the observing build that is there
now or was taken before it was made (`CapturesAreOfOurBuilds`), and a capture is because the phone carries the
signed build while a run is at its walks. That is `RunStands`: what the steps a run
passed over have established, however long the stretch it passed at once
(`PassingEstablishes`).

*Capture* (`CaptureAssumption`: a tree has a root, and paths are names in order).

    CaptureInv == DiskShape /\ WalkShape /\ ReadIsDated /\ RootIsRead /\ SweptWasThere

`RecordedWasThere` speaks of the end of the walk, before the sweep. `ReadIsDated`
says that an entry whose status, as a number of a change, is what it was when read is
what was read; `RootIsRead` that a root whose status is what it was when listed has
the entries listed; `SweptWasThere` carries both through a sweep in which others go
on writing. The code compares ticks and not numbers; where a tick stands for one
change (`Lone`) they are the same. `CaptureRecordsWhatWasThere` follows, for a clock
of any coarseness.

*Source admission*.

    AdmissionInv == AdmissionShape /\ CheckedIsWritten /\ DestinationStands

What is renamed was written from checked records and synced before; a name that
was verified is synced too. `DestinationHolds` follows.

Where a definition picks "the latest claim", "the newest version" or "the first
step that is not done", the proofs use that every nonempty set of numbers has a
least one (`Smallest`, from the well-foundedness of `<`) and every bounded one a
greatest (`Largest`); none needs induction over a sequence.

*Only model-checked.* All liveness (`RunEnds`, `EffectIsAdopted`,
`InterruptedStageDecides`, `ChildDiesWithItsStage`, `DriveEnds`,
`RetryGetsThrough`, `CallsEnd`): liveness under fairness and `ENABLED` are outside
the prover's reach.

## Findings

1. **A lost mark** (`subprocess_verify_mark`). `_await_verification_execution`
   (`activities.py`) raises its own `CancelledError` and passes over the one the
   task ended with, or had just ended with when the cancellation arrived, which
   carried the "not reaped" mark. `_releasable` then
   releases a claim whose process may be alive.
2. **A cancellation during the cleanup** (`subprocess_release`). In `execute()` the
   cleanup is shielded but the await of it is not: a cancellation that arrives
   during it leaves unmarked. The claim is released while the child runs.
3. **An assessment that never resolves** (`assessment_effect`). `record()` adopts
   an artifact whose operation is an effect as if it were completed, files the
   authority row and never completes the operation; `resolve_with` refuses it for
   ever.
4. **A false collision** (`content_store_killed`). A writer killed between link
   and unlink leaves the blob with two links; identical bytes are refused as a
   collision and the blob can no longer be read.
5. **A finished port without the ruling** (`runbook_rulings`). A candidate raised
   after the shippable build blocks the runbook until it is ruled on; once it is,
   the old APK reads as done again and the run announces that the port is
   finished. A comment of `tools/port.py` says that this was repaired.

### Divergences without a run

Met while modelling; each is visible in the source. The properties checked here
concede what the first three take away.

- `append_rulings` (`rulings.py`) writes straight behind whatever the store ends
  with. After a death inside a line, the next run's first ruling is glued to the half
  line, which `read_store` refuses ever after; `apply` goes on and blocks the endpoint
  in the manifest. Its comment says that the store comes first so that no block is
  without a record of who decided it; a record that cannot be read back is hardly one.
- A comment of `reaper.py` says that no workspace younger than the longest a stage may
  legitimately run is ever removed. The floor is computed from a plan of 600 s, while
  plans of up to 3600 s are admitted (`replay_contracts.py`). The default minimum
  age, a day, hides it.
- The digest that rows are filed under is documented as that of the APK that was
  installed (`port.py`, `record_corpus.py`). Captures outlive the observing build;
  when that is made again, or the next run has another run directory, the old
  captures count as done and are filed under the new digest.
- `ProcessNotReaped` says that being a `RuntimeError` keeps it from being retried,
  but `_STAGE_RETRY` names exact classes, so it *is* retried. The retry meets a
  quarantined claim and is refused.
- `host_dex_entries` (`driver.py`) lists the DEX files of resolved hooks only and
  says of the list that it must not be short, "a hook silently missing". With
  `--skip-evidence-gate`, an accepted proposal for a hook in another DEX file is
  applied to the tree and not grafted. With the gate, such a hook never passes,
  although `--full-proposals` is documented as the only route for it.
- `differential.py` promises a regression verdict only where a capture could see
  the signal; a half of a delta carries no build, so the promise cannot be kept.
- `record_corpus.py` reads the watch list when it records and says that a session
  therefore cannot be recorded as watching what its build did not watch. A
  candidate added after the observing build was made is on the list and not in
  the build: its zero is no measurement.
- `port.py` says a resumable runbook must allow every step to be run again. The
  recording step cannot be: it starts from the first capture, whose row is on
  record, and `append` refuses it. The gate's marker likewise keeps a gate for a
  later assessment from being raised.

### Limits of what passes

- `ChildDiesWithItsStage` promises nothing of a stage that awaits `execute()`
  itself and is cancelled twice. The second cancellation, while the launch is
  still pending, leaves before the late-launch supervisor is installed, and a
  process started afterwards is nobody's to kill.
- `OneProcessPerOperation` says nothing of the verification (`Absorbing`) nor, by
  `orderly`, of a cancellation that lands in a cleanup: Findings 1 and 2.
- `AnswersTheGateSeen` says that a decision issued at an earlier gate can answer a
  later one only if that was raised within `Skew` of the decision. The validator
  tolerates issue times up to five minutes ahead, so a client that far ahead can do
  this; only with `Skew = 0` is it excluded.
- `ReturnedStaysReadable` and the rooted cell of `DurableBlob`: a writer that finds
  the directory made returns without syncing its parent. If the maker is killed
  before it does, a power cut loses the blob the other returned. `owed` and
  `Uproot` name that window.
- `SecondLinkHasAReason` allows a publisher that could not remove its temporary
  name: `put_blob` swallows that error, and the blob stays unreadable as in
  Finding 4.
- `LiveWorkspaceSurvives` protects a workspace up to the age floor and not for as long
  as its stage may run (above).
- `ReadyWasHeld` lets a waiver stand for the comparison of that version, as the code
  does. The verdicts `blocked` and, of these kinds, `not_exercised` are written by
  nothing and left out.
- `ReplayKeepsOffers`: running an older version's stage again makes its line the
  latest, and `hint()` gives it before a newer version's from then on.
- `CompletedIsFindable` and `OneAnswerIsSent` are safety. After a gate expired with
  an answer journalled and not delivered, the next gate refuses the journalled
  decision as too old and the client refuses any other, until somebody deletes the
  journal.
- `BlockedIsOnRecord`: a block has a line in the store; that the line can be read
  back is claimed only while no append was cut (above). Appending is not
  idempotent. The store is not synced before the manifest is written, so that a power
  cut could take the line and leave the block; the model has no power cut here, and
  an append that is not cut is one step. Decision memory, the cost ledger and
  evidence files are appended alike; the cost ledger's totals double on a replay.
- `RecordedWasThere` claims the recorded files and the root's entries: an entry
  created in a sub-directory already read is missed, and so is a rewrite of equal
  size within one tick of the file clock, a read that such a rewrite tears, or a
  clock that is set back. Of the refusals of the walk the model leaves out those of
  links, special files and, in a copy, paths out of byte order: it accepts more.
- `PatchedTreeIsRecognised` starts from pristine decodes and depends on the
  manifest: nothing in the loader asks what `HooksKeepApart` says. A form that
  replaces the line another hook's marker stands at, or the literal another hook
  is found by, would load.
- `PassedCarriesEveryIntent`: the compiler does not check that an edit's DEX file
  is one the backend replaces; the verifier's second look is what makes the
  property hold. Nor does it check that the final sequence of an edit shows its
  payload, which the theorem assumes of resolutions (`FinalsShowPayloads`).
- `ConsentIsHonoured`: a profile without frameworks whose build plan has no
  framework slot is admitted, and its build then always fails.
- The tree part of `PassedCarriesEveryIntent` looks classes up in the tree as it is;
  `apply.py` looks them up in an index made before the first operation, which a
  delete does not update, and so refuses more.
- `RowsSayWhatWasWalked` assumes that nobody touches the phone while a run
  executes. It lets a row be filed under an observing build made after the walk, in the
  place of the one that was walked (above), and takes lines that a failed `logcat -c` left
  behind for the session's: nothing in a log tells which session it is of.

## What is not modelled

- Rule generalisation and manifest patches: text transformations that refuse
  unless a rule reproduces every known version. A property worth stating would
  be about regular expressions over smali text, which is data here.
- Surface analysis and reports: derivations from files to documents, with no state
  and nothing beside them.
- The worker wires activities to a Temporal worker; its loss is an action of the
  models. The payload smali and the manifest are data.
- Of the modelled parts: canonical encodings (a digest stands for its content),
  ZIP and smali bytes, the grouping of observations and its statistics, agents'
  sandboxes and the parsing of their answers, rendering and redaction, the legacy
  run tables and legacy stage activities, and the store's checks against a
  directory replaced underneath it.
- The one-shot scripts of `src/tools` other than the runbook's steps: each reads
  files, writes files and exits.

## Plan

1. The publication of a release (`tools/release/finalize.py`) as a module with
   kills between its renames.
2. Redaction and grouping of observations as operators against a reference
   definition over bounded logs.
