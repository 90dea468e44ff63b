# A verification project for agent-knowledge

`agent-knowledge` is a command line tool and a set of agent hooks around a
knowledge scaffold: documents that agents search, *signals* that agents capture,
and a *compounding* lifecycle in which one agent at a time turns captured
signals into published knowledge and then removes them. This directory holds TLA+
models of that program, the TLC runs that check them and TLAPS proofs about
them. Paths below are relative to `src/src/agent_knowledge/` unless they begin
with `src/`.

## 1. Inventory

| component | state it keeps | operations | hard behaviour | what makes it correct |
|---|---|---|---|---|
| Coordination log, `infrastructure/compounding.py` | `compound-activity.jsonl` in the shared signal store: one line per start, end, worker attachment and trigger | strict reader, append, rollover, eligibility of automatic work | a bounded reader (1 MiB), second-resolution clocks that may go back, torn appends, rollover of history the decisions depend on | the writers never produce a log the reader rejects; rollover changes no answer |
| Compounding lifecycle, same file, `application/compounding.py` | the log, the evidence of each run, the signal files | `configure-trigger`, `start`, `record-worker`, `drain`, `finish`, `due`, `status` | several workspaces share one store; every operation is a sequence of durable writes that a kill may cut anywhere; files and configuration are edited meanwhile | one active run; only selected, archived, unchanged inputs are removed; claims match removals |
| Run evidence, `infrastructure/compound_evidence.py`, `infrastructure/receipts.py` | `receipts/compound/<run>/`: `inputs/`, `start.json`, `events.jsonl`, patches | append a record, resolve a run, archive an input | written without the log in one transaction; refused when the configuration changed | every log line is backed by evidence |
| Receipt retention, `infrastructure/usage.py`, `application/usage.py` | `receipts/`, tombstones `expired.json`, daily markers | prune runs, prune retrieval receipts, daily maintenance, export, report | decides on evidence alone, file by file, against concurrent receipts; an export reads many files while they are expired | nothing unresolved is lost; a loss is explained by its tombstone; an export accounts for every run it names |
| Receipt files, `infrastructure/usage.py` | JSONL files, immutable artifacts, lock files | locked append, exclusive publication | torn records, racing publishers | a torn record is never extended; published bytes are complete |
| Publication gate, `domain/compounding.py` | none | `select_pull_request`, `can_drain`, `drainable_snapshots` | many partial kinds of evidence | nothing is drained without a merge or a decision that needs none |
| Signal inbox, `infrastructure/signals.py`, `application/signals.py` | Markdown files per bucket; temporary files; cursors held by readers | capture, paged listing | captures race listings, editors, each other and power loss | a listing is one consistent snapshot; no capture overwrites a file; what is visible is whole, what is reported lasts |
| Hooks, `entrypoints/hooks/` | none of their own | session start, prompt, edit events | fail-open, a deadline on the due check | a hook never blocks or claims more than an advice |
| Workspace configuration | authored YAML | load, currency check | edited at any time | operations notice an edit before they write |
| Credential projection, `infrastructure/container_profiles.py`, `profiles.py` | a private copy of a credential file, temporary files, a provenance journal, the registry's route to the copy | prepare, refresh, remove | killed or failing at any step, a source that rotates, other writers of the copy | the journal names every secret; no trace of a kill locks the profile; what fails or is removed leaves no credential |
| Session environment, `infrastructure/environment.py`, `hooks/runtime.py` | one pin per session, the exports in the file that Claude names | resolve, pin, read the values, append the exports | no lock at all: racing activations, short writes, registry edits | a session keeps its first declaration; an activation is all or nothing |
| Setup runtime, `src/packages/knowledge-agent-pack/.apm/skills/knowledge-setup/scripts` | virtual environments, launchers, the hook documents of the consumer, the lock of the package manager, saved reports | managed installation, preparation, binding, launch | no lock: documents are rewritten one after another, by runs that stop or overlap | a run that reports ready leaves documents that agree; a stopped one never blocks the next; users' hooks stay |
| Retrieval, navigation, discovery, corpus, pagination | none (cursors travel with the client) | search, read, navigate, list | a corpus that changes between two pages | a stale cursor is refused |
| Schema, catalog, validation, doctor, command line | none | parse, check, report | sequential | unit-testable |

The components interact as follows. Every lifecycle operation takes the file
lock `compound-activity.jsonl.lock` for its whole duration and reads the log,
the configuration and the run's evidence under it; it writes evidence first and
the log line last. `prune_compound` takes the same lock, and then the lock of the
run's `events.jsonl`. A `validate` command takes only the latter. Captures,
editors and authors of configuration take no lock. Hooks ask `due` with a
non-blocking attempt at the lock and then only advise.

The other parts meet in files. A session start hook reads the profile registry
that its authors and `prepare_container_profile` write, and the credential copy that the
projection makes. Setup writes the hook documents that start those hooks, and a launch
goes back to a report that an earlier run of setup saved. Of these only the
projection takes a lock, one for each profile. `usage.py` serves every command:
each records one event in a file with a lock of its own, and the first command of a day
and workspace maintains the whole directory.

The hazards this makes, each at its line and with the properties that watch it,
are listed in `PROJECT.json`; for those that no property covers a note says why.

## 2. Modules

| module | models | lines of code it stands for |
|---|---|---|
| `ActivityLog` | the log as data: reader, derived state, deadlines, rollover, append | `infrastructure/compounding.py` 69-254, 308-381, 1048-1362 |
| `Compounding` | the lifecycle as a state machine, with its environment | `infrastructure/compounding.py` 257-305, 384-1045, 1426-1485 and what it calls |
| `ExclusiveRuns` | the abstract promise of the lifecycle | |
| `Retention` | expiry of run evidence, composed with `Compounding` | `infrastructure/usage.py` 382-461, `infrastructure/receipts.py` 95-139 |
| `SignalCapture` | publication of a signal file, with the file system under it and its other writers | `infrastructure/signals.py` 86-242, `application/signals.py` 181-217 |
| `SignalListing` | the paged listing, composed with `SignalCapture` | `application/signals.py` 220-307, `infrastructure/signals.py` 54-72, 98-140 and 245-293, `infrastructure/filesystem.py` 90-147, `application/pagination.py` |
| `UsageStore` | receipts of commands, daily maintenance, export | `application/usage.py` 46-617, `infrastructure/usage.py` 89-461, `infrastructure/receipts.py` |
| `ProfileProjection` | prepare, refresh and remove of a private credential copy | `infrastructure/container_profiles.py`, `profiles.py` 124-165 |
| `SessionEnvironment` | activation of a profile's credentials in a session | `infrastructure/environment.py`, `entrypoints/hooks/runtime.py` 102-187 |
| `SetupRuntime` | runs of the setup helper on one consumer, and the launch from a saved report | `setup_runtime.py`, `launch_container.py` |
| `Subsequences` | what is left of a sequence when some of its places are taken out, for `UsageStore` and `SetupRuntime` | `infrastructure/usage.py` 345-359 |
| `MC...` of each of these | instances for TLC: triggers, batches, reports, requests, symmetry | |
| `CompoundingProofs`, `RetentionProofs` | theorems about `Compounding` and, on top of them, about the bounded log and about `Retention` | |
| `ListingProofs` | theorems about `SignalCapture` and, on top of them, `SignalListing` | |
| `SessionProofs`, `ProjectionProofs` | theorems about `SessionEnvironment`, `ProfileProjection` | |
| `SubsequenceProofs`, `UsageProofs`, `SetupProofs` | theorems about `Subsequence` and, on top of them, `UsageStore` and `SetupRuntime` | |

### The lifecycle: state and code

* `history` is every line ever durably appended to the log. The file is the
  restriction of it to the ordinals in `live` (`log`), and rollover shrinks `live`;
  `archived` are the ordinals saved under `receipts/coordination`. A decision of
  the code reads `log` only, and a property may compare it with `history`.
  `tornLog` says that the file ends in an incomplete line.
* An event carries `at`, the one time its kind has (`started_at`, `ended_at`,
  `recorded_at`, `configured_at`), and `size`, the size of its line in units in which
  `Quarter` is `ACTIVITY_MAX_BYTES // 4`. The code measures two encodings: `_append` limits the default
  `json.dumps` of an event, with a space after every separator (`DumpSize`, which is `Spaces` more), while the
  reader and the rollover measure compact lines (`Size`). So every line is below a quarter, and a pair of lines
  below half. `Spaces` is one number for all events; that it is positive is all the proofs use. Text is taken to be
  ASCII: a line with other characters grows when rollover rewrites it, because `canonical_json` writes them as they
  are and `json.dumps` escapes them. The size of a log is that of the set of its bytes, each
  known by its line and its place in the line (`Bytes`). Harness, worker id and parent session
  are one *handle* (`worker_id`): they are merged and compared together.
* `evidence[r]` is `receipts/compound/<r>`: archived `inputs` (signal to bytes),
  `start` (`start.json`), `records` (`events.jsonl`), `torn`.
* `inbox[s]` is the content at the path of signal `s`, or `Absent`. Contents
  stand for bytes as a fingerprint tells them apart. `configured[w]` is
  `setup.compounding` as authored in workspace `w`. `clock` is the wall clock, in
  its whole seconds.
* `op` is the lock holder: the operation, the next durable write it has to make
  (`stage`), the event and record it will write, the configuration it was given
  (`loaded`), the inputs left (`todo`), the one being removed (`signal`), those it
  removed (`done`).
* `removed` records each unlink with the bytes that were there. It is a history
  variable: no action reads it. `spent` counts what was used of each budget of the
  environment.

### The lifecycle: actions and code

| action | code |
|---|---|
| `BeginTrigger`, `RegisterTrigger` | `configure_trigger`: rollover, then compare-and-swap |
| `BeginStart`, `ValidateInputs`, `ArchiveInput`, `WriteStart` | `start_run`: eligibility and guards on the log as found; inputs read and compared; inputs, then `start.json` archived |
| `BeginWorker` | `record_worker` up to its first write |
| `BeginFinish` | `finish_run` up to its first write |
| `BeginDrain`, `WriteIntent`, `SelectCandidates`, `VerifyInput`, `RemoveInput`, `Acknowledge`, `ReportDrain` | `drain_signals` and `_unlink_verified_file` |
| `ArchiveLog`, `ReplaceLog` | `_rollover_activity` |
| `AppendEvidence` | `append_compound_event`, which refuses when the configuration is no longer the one loaded, or when the file ends in a torn line (`Recordable`); so do the records of a drain |
| `AppendActivity` | `_append` |
| `RemoveUnsynced` | the directory sync after the unlink fails, and the handler reports the input as retained |
| `AcknowledgeFails`, `DrainInterrupted` | an acknowledgement fails or the keyboard interrupts the loop; the report is still attempted |
| `Interrupt`, `InterruptEvidence`, `InterruptActivity` | the process is killed, or a write fails, cleanly or leaving a torn record; the kernel drops the lock |
| `Tick`, `Regress`, `EditSignal`, `EditConfiguration` | the environment |
| `BeginPrune`, `WriteTombstone`, `PruneFile` (`Retention`) | `prune_compound` |
| `RecordValidation`, `TearValidation` (`Retention`) | `record_terminal` for a `validate`: its whole line, or a line that is cut, maybe in the middle of a lifecycle command |

An operation that a guard of the code refuses before its first write changes
nothing; the corresponding `Begin` action is simply not enabled. A refusal after a
write is a branch that keeps the write and releases the lock. An input that is gone when `VerifyInput`
opens it ends the drain without a report: the open (`compounding.py` 1434) is outside of every handler. `approved`, the set
of inputs `drain_signals` may remove, is any subset of the selection: it stands
for every answer of `can_drain` and of the resolution of owners.

### The signal inbox

`SignalCapture` models the file system as the code can observe it. `file` holds the
inodes (bytes, modification and change stamps, whether the bytes are synced);
`dir` the directories (entries, the entries that are on disk, a stamp); `place` the
directory that the path of each bucket leads to, and `placed` the one it leads to
on disk. `cap[c]` is one call of `record_signal_result`: its next call to the system
(`phase`), the directory and inode it holds (`dir`, `owned`), the identity it will
insist on (`expected`), whether its link was made (`published`) and the outcome an
error has decided already (`then`). Each call to the system is a step of its own:

| action | code |
|---|---|
| `Begin`, `Enter`, `SyncParent`, `OpenBucket` | `record_signal_result` to `capture_signal`, `_open_bucket`: make or take the bucket, sync its parent only if it was made here |
| `CheckDestination` | `_check_destination`, at its three places |
| `CreateTemporary`, `Write`, `SyncFile`, `StatTemporary`, `Link`, `Verify`, `FlushDirectory` | `_publish` |
| `StatClean`, `Unlink` | `_clean_temporary`, on the way to success and on the way out |
| `Confirm` | the read back in `record_signal_result` |
| `Fault`, `Kill` | an `OSError` of the call that is due; the process is killed |
| `Rewrite`, `Put`, `DrainFile`, `MoveBucket` | other writers (external) |
| `Crash` | power loss (external): all processes end, and every entry, file or bucket that was not synced is there or not |

`SignalListing` adds one reader. `lst` is the listing in progress: which of its four
inventory passes it is in (`pass`), buckets `left`, the one being listed (`at`), names
or paths `todo`, what the pass has `seen`, the pass before (`base`) and the `bodies`.
`client` keeps the cursor and the rows of the pages so far, and `moments` is a history
variable: the selected part of the inbox at every moment of the call. `parent` has, for the path
of each bucket, the change stamp of the directory that holds it: `_open_bucket` notes the
identities of all directories above a bucket, and for a bucket that is missing these are all it
notes. They tell one that is still missing from one that was made and moved away again. A
directory that holds several buckets is here as if it had a stamp for each, so that a change of
one bucket does not refuse the listing of another: the model lets more listings through than
the code. `BucketOrder` and `NameOrder` place buckets and names in the order of paths.

| action | code |
|---|---|
| `BeginListing` | `list_signal_result` up to its first inventory, with or without a continuation |
| `OpenListed`, `StatListed`, `CloseListed` | one bucket of `_inventory`: identity and names, a stat of each, identity again |
| `EndPass` | the comparisons of `inventory_signals` and of `list_signal_result` |
| `ReadBody`, `EndRead` | `read_bytes` of each file |
| `Reply` | `decode_cursor`, `check_offset` and the page |
| `Refuse` | any error; nothing changes but the call is over |

The third pass is compared with the second as soon as it ends, where the code
compares it with the fourth first: a call that is refused is refused a little earlier.

### Receipts, maintenance and export

`UsageStore` has the directory `receipts/` that several workspaces share: `logs` (one file
of events for each day of retrievals and for each run, with a `Torn` line at the end of a
file that an append was cut in), the two artifacts of a run (`files`), `tombstones`,
`descriptors`, the `markers` of finished maintenance, and `litter`, the directories with a
temporary file that a killed writer left. `op[p]` is a command: first its receipt, then the
maintenance it may have to do. `export` is one export in progress.

| action | code |
|---|---|
| `StartRun`, `Finish` | the lifecycle, reduced to the evidence it leaves (`Compounding` has its steps) |
| `Command`, `AppendReceipt`, `RefuseReceipt`, `TearReceipt` | `record_terminal` and the locked append, which never extends a torn record; a command whose run is not resolved is recorded without one, a `validate` then in the file of the day |
| `Stamp`, `AlreadyApplied`, `BeginRetention`, `Mark` | daily maintenance: its instant is read before it waits for the lock, its marker written last |
| `BeginExpiry`, `WriteTombstone`, `UnlinkLog`, `UnlinkPiece`, `StopExpiry` | `prune_compound`, as the receipts see it |
| `ReadReceipts`, `ReplaceReceipts` | compaction of the receipts of a day |
| `BeginExport`, `ListRuns`, `LookForTombstone`, `LookForLog`, `LookAgain`, `ReadLog`, `OpenRun`, `CopyPiece`, `CopyDescriptors`, `WriteManifest` | `export_usage`: days listed, then each run looked at three times, then the logs read, then artifacts and descriptors copied |
| `Kill` | a command is killed while it holds the lock of maintenance; at any other step a kill is to take no further step |
| `Tick`, `EditInput` | the environment |

Expiry is here a second time because `Retention` asks what it does to the lifecycle, and
`UsageStore` what it does to the readers and writers of receipts. The clock counts days, an
event is its operation, workspace, run and day, the artifacts of a run are `start.json` and
one input, and publication under a final name is one step. Compaction keeps the receipts
of a day that are not `Retired`, in their order (`Subsequence`); an export reads the lines of a
file as a set, because it copies them and compares none by place.
An export has no upper end (`until` is now).

### Credential copies

In `ProfileProjection`, `files` are the inodes with the writer of their bytes (`maker`, which only
the properties read: see `Own`), their bytes and a change stamp; `target` is the one under `<profile>.env` and `temps` those
under temporary names. `journal` is `.<profile>.projection.json`: the identity of the copy
that setup owns, or the inode of the temporary file it is about to fill. `op` is the one
process that holds the lock of the profile.

| action | code |
|---|---|
| `Start` | `prepare_container_profile`, for each of its operations `prepare`, `refresh` and `remove`, up to the first change |
| `CheckOwned`, `Detach` | `_check_owned` and the publication of a registry without the profile |
| `StatTarget`, `UnlinkTarget`, `UnlinkTemp`, `Reset`, `ForgetJournal` | `_invalidate` and what follows it |
| `CreateTemp`, `JournalTemp`, `Identify`, `ReadSource`, `WriteSecret`, `Recheck`, `LinkTarget`, `ReleaseTemp`, `StatFinal`, `RecordTarget` | `_publish_projection` |
| `Readiness`, `PublishRoute` | the check that the copy can be read as an activation would, and `replace_registry` |
| `Recover` | the handler of a failed publication |
| `Fault`, `Kill` | an error of the step that is due; the process is killed |
| `Rotate`, `EditRegistry`, `PutTarget`, `EditTarget`, `DeleteTarget` | the environment |

Names of temporary files are drawn afresh, so each is an inode of its own. The journal and
the registry are replaced in one step (a complete file is renamed over the old one). The
bytes of the source are well-formed or `Malformed`, and on their way to disk `Partial`.

### Session environments

In `SessionEnvironment`, `pin[s]` is the declaration a session is bound to, with the change
stamp of its file; `channel[s]` the file that Claude names, as the pieces in it: each
activation's exports come in two halves, so that a short write can be told apart.
`op[p]` is one activation.

| action | code |
|---|---|
| `Activate` | `_activate_claude_environment`, for a profile or with a declaration that setup wrote into the hook |
| `Peek`, `Peeked`, `Resolve` | `pinned_session_environment`, else the registry |
| `CheckPin`, `Publish`, `UnlinkTemporary`, `ReadPin`, `Bind` | `pin_session_environment` with `_publish_session_pin` and `_read_session_pin` |
| `NameChannel` | `CLAUDE_ENV_FILE`: not set, a file that `_require_private_regular` refuses, or a private one |
| `ReadValues`, `CompareValues` | `append_claude_environment` up to the file, `mapped_environment_values` |
| `Open`, `CompareOpened`, `WriteExports`, `ShortWrite`, `Sync`, `CompareWritten`, `Rollback` | `append_claude_environment` |
| `Fault`, `Kill` | a failing call, a killed hook |
| `EditRegistry`, `EditCredentials`, `AppendOther` | the environment |

What `NameChannel` finds stays so for the activation, and decides later: without a file there is nothing
to append to, and one that others may read is refused once it is open (`CompareOpened`).
Values are not in the model: `creds` says whether the file of a declaration has them all.

### Setup

In `SetupRuntime`, `venv` says what is in each virtual environment (nothing, the beginning of
one, an environment without the runtime, one in the middle of an installation, or the runtime of a package);
`launchers` the environment launchers in it; `docs` the documents of the consumer, each with the command
of each event, and `Torn` for one that was truncated and not filled again. `skill` is the
version of the installed compound skill, `instructed` the harnesses with an instruction file or a directory of skills, `able` what the installed doctor finds ready. A
command is known by its first word: the portable marker, the launcher of a virtual
environment, or another's. `op[p]` is a run, `alone` as long as nobody else has acted since it
began; the outcome of a run is kept for runs that stayed alone only. Its edits that are left are a
set (`left`), and it takes the one of the least `Rank`: the descriptor, then for one harness
after the other its registration and its active document. `reports` are the saved
reports and `launch` the launch in progress.

| action | code |
|---|---|
| `Begin` | the arguments and `_guard_managed_targets`: `Projected` is what it takes for a sign of a harness, namely the lock, the document that the harness reads hooks from, its instructions and its skills. A lock that was cut off may name anything or not be understood (`Refusals`) |
| `PrepareVenv`, `CreateVenv`, `InstallRuntime`, `VerifyExisting` | `_prepare_venv`, the installation of the package into it in `run_setup`, `_verify_existing_runtime` |
| `ReadContext`, `VerifyPortable`, `WriteLauncher` | the installed context and doctor, `_verify_portable_runtime`, `_environment_launcher` |
| `ApmInstall` | `apm install` (external): marks, updates or prunes the entries of the package, and adds skills (`Instructed`) |
| `FindPackage`, `ReadDocument`, `Truncate`, `Fill` | `_prepare_compounding`, `_hook_package`, `_configure_hook_registrations` and `_write_hook_document`, one event of one document after the other |
| `BeginVerify`, `VerifyDocument`, `ReconcileLock` | `_verify_hook_registrations`, `_update_copilot_lock_hash` |
| `Report` | the report, with the providers that are ready |
| `Stop` | a kill or a failure of any step |
| `EditRegistry`, `ChangeReadiness`, `InstallByOwner`, `RestoreActive`, `RemoveVenv` | users |
| `Preflight`, `Execute` | `launch_container.prepare_launch`, and the command it returns |

Left out: how a Python is found, `apm compile` (which writes no hook document), the
text of reports, and the shape of commands other than their first word, profile, declaration
and whether they name the compound skill.


### What is abstracted from the lifecycle and the inbox

* Time stamps: every change of a file or directory gets a new one. A file system
  whose clock is too coarse to tell two changes apart is outside of the model, and
  the listing gives no guarantee there. The size of a file follows from its bytes.
* `read_bytes` is one step: its identity checks before and after reading exclude
  exactly the reads that a change overlaps.
* Path components above a bucket (but for the identity of the one that holds it, see `parent`),
  permissions, links and other kinds of files can only make a call fail; `Refuse` and `Fault`
  are always possible.
* The digest of a snapshot is the snapshot, and a cursor is what it encodes.
* Routes (`workspace_route`) and the bytes of configuration: only
  `setup.compounding` can differ, which is what the currency check needs.
* Bucket and origin of a signal: one signal has one path, in an eligible bucket.
* An unsuccessful read is the same as a different content.
* The random id of a run is any id not in use; `BeginStart` is disabled when
  a small instance has none left.
* Publication of an artifact under its final name is one step
  (`write_artifact` links a complete temporary file).
* `prune_compound` compares the `recorded_at` of the finish, which is the same
  moment as its `ended_at` in the model.
* Duplicate ids and unknown fields in requests, which the parser refuses.

## 3. Runs

Every bound is a CONSTANT with a guard that names it: `MaxLines` (lines ever
logged), `MaxClock`, `MaxDrains` (drains per run), `MaxReceipts` (validate receipts of `Retention`; commands with a receipt in `UsageStore`),
`MaxFiles` (inodes made), `MaxRuns`, `MaxEvents` and `MaxLaunches` (activations or runs of
setup, commands, launches), and the budgets `MaxFaults` (kills and failed calls),
`MaxStops` (the same, of setup), `MaxEdits` (edits of files, configuration, registry),
`MaxForeign` (actions of other writers), `MaxRegress` (times the clock is set back) and
`MaxCrashes` (power losses). `CHECK_DEADLOCK FALSE` is said in each configuration but
`Listing`: at these bounds, or behind a torn log, nothing more can happen, and a system
that nobody calls may stop. A reader may always list again, so `Listing` does check it.

| run | bounds that matter | shows |
|---|---|---|
| `Drain` | 1 run, 2 signals, 2 contents, 2 drains, 2 edits, 2 faults | `DrainageTruthful`, `RemovalRecoverable`, `NoLateRemoval`: two inputs are the least with a "next" one after a failure; two drains and two edits let an input vanish, come back and be drained again; two faults let a failed acknowledgement be followed by a kill |
| `Cadence` | 3 runs, 6 lines, rollover from the third line, clock 0..2, interval 2, retry 1 | `RolloverTransparent`, `CadenceKept`: a completed check, a later failure and a third start, with rollover between any two |
| `LogBounds` | 2 runs, 2 handles, a log that rolls over from its second line, 4 lines, clock 0..1 set back once, 1 edit, 1 fault | `TypeOK`, `LogReadable`, `OneActiveRun`, `IdentityRepairable`, `ActiveRunOperable`, `LogBackedByEvidence`, `AgreementStableWhileActive`: time going back, torn lines, attachments before and after a finish, cut between evidence and log and then repaired or contradicted, registration from stale configuration. Four lines do not reach the limit of the reader, runs select no inputs, and there is one workspace: for these three the theorems `LogLoads`, `LogBacked` and `AgreementStable` speak |
| `Expiry` | 2 runs, 1 signal, rollover, 1 drain, 1 fault, 1 validate receipt, clock 0..1 | `UnresolvedKept`, `LossExplained`; `ImplementsExclusiveRuns`: the refinement, through rollover and expiry; `LockReleased` |
| `Capture` | 2 sessions, 1 edit, 1 fault, 1 crash | `CaptureTypeOK`, `VisibleComplete`, `FailedUnpublished`, `NothingOverwritten`, `SurvivesInDurableBucket`: the edit falls between any two of the system calls of two captures, the fault may hit the clean-up, and one capture may be reported before the other is cut by the crash |
| `Listing` | 2 buckets, 1 name in each, signals of this workspace and unreadable ones, 3 edits, 1 row a page | `ListingTypeOK`, `PageTrue`, `ChainTrue`: two edits for two rows and a third one between the pages, or inside a call. A capture changes a bucket like any other writer does, one entry at a time, so the edits stand for captures here |
| `Projection` | 2 contents, 2 sources, 1 route, 3 files, 1 edit, 1 foreign action, 2 faults | `ProjectionTypeOK`, `SecretsJournaled`, `NoSelfLockout`, `CredentialsCleared`: two faults put a failure or a kill into the recovery from another; three files are an old copy, a new one and that of another writer |
| `Session` | 2 activations that overlap or follow each other, 1 session, 2 declarations, 2 edits, 1 foreign export, 2 faults | `SessionTypeOK`, `OneDeclaration`, `ActivationSettled`: the edits make the registry change between the two, or back; the faults let a killed activation precede one that fails |
| `Setup` | 2 processes, 2 virtual environments, 2 profiles, 2 declarations, a consumer with Claude (which merges into a user's document) and Copilot (which owns its file), 4 requests, 2 runs, 1 stop, 1 action of a user, 1 launch | `SetupTypeOK`, `SoloReady`, `RefusalExplained`, `UserHooksKept`, `LaunchHonest`: the first run may stop at any step or overlap with the second, which may ask for the same or for another mode, profile, environment or set of harnesses. When two runs for different harnesses overlap, one can fill the hook file of Copilot again after the other had it removed; the lock then does not name Copilot, which is one of the reasons in `RefusalExplained` (a third run meets it, see section 4) |
| `Usage` | 2 workspaces, 1 run, 2 processes, days 0..1, 3 events of which 2 are receipts of commands, exports from day 1 on (`Since`), 1 fault | `UsageTypeOK`, `ExportAccounted`, `ReceiptsKept`: a start, a finish and one more command, or two commands, of the same or of the other workspace and with or without the run, with maintenance on either day and an export at any moment. `UsageTypeOK` says which events a file may have (`FiledRight`) and that only its last line is torn. An export from day 1 on is the one that has to look for earlier events of the runs it names |

Symmetry is used for runs, handles, signals and contents, for sessions and names in
`Capture`, and for processes, declarations, contents, sources and workspaces in the last four, in
runs that check safety only: the code compares them and never orders them. It is not used for
the refinement, for liveness, and for listings, which order names.

These are the ten runs that pass. Two more show a disagreement between the code and what it says of itself; each
checks one property, and `PROJECT.json` quotes the sentence:

* `ActiveExpiry`: a run whose finish was cut between evidence and log line is still
  active in the log, and its evidence is expired.
* `RolloverRefusal`: "unresolved coordination history" is reported although no run is unresolved. The pairs
  of a completed and of a later failed run, both kept for cadence, reach half of the bound together; each of
  their events is below a quarter, and neither pair alone would do.

### What no property closes

These windows are in the models, and the properties are worded around them; `PROJECT.json`
lists them among the hazards.

* A finish that was refused with "use a smaller batch" (its line is too large for the log) has
  left its evidence, and no smaller batch is accepted after it (`compounding.py` 765).
* A file replaced between the final `stat` and the `unlink`, of a drained input
  (`compounding.py` 1473-1478) or of a temporary name (`signals.py` 234-236), is removed in
  place of the one that was compared; no sequence of `stat` and `unlink` avoids it.
* A capture that finds its bucket just made by another one does not sync the parent directory
  (`signals.py` 110): if the maker is stopped before its own sync, a power loss may take the
  bucket, and with it a signal that was reported as captured. `SurvivesInDurableBucket`
  states what does hold.
* The copy that is found under its final name after the link is journaled as setup's own
  (`container_profiles.py` 378-381), a file put there meanwhile as well. Hence
  `CredentialsCleared` and `NoSelfLockout` speak of histories without another writer.
* A hook document is truncated and written in place (`setup_runtime.py` 946): a stop in between
  loses what it held, and `UserHooksKept` is about documents that can be read. An edit by a user between
  the reading of a document and its writing (1077 to 1115) is lost too; no action of the model makes one.
* Two runs for different harnesses that overlap can leave a hook file of Copilot that the lock does not
  name; every run for Copilot is then refused at the lock (`setup_runtime.py` 1406), until the package
  is installed for it again.
* The guard against a narrower set of harnesses is asked once, long before `apm install`
  (`setup_runtime.py` 2135 and 2228): of two runs for different harnesses both pass it, and the later installation
  removes what the other one registered. The guard itself is in the model as it is in the code, and a property that
  restates it would say nothing.
* The roll-back of a failed activation cuts the file to the size it had when it was opened
  (`environment.py` 196), with what another hook appended meanwhile; `ActivationSettled` is about
  undisturbed activations.
* An interrupted expiry is never resumed, and the temporary file of a killed writer blocks the
  expiry of its run (`infrastructure/usage.py` 433); both keep too much instead of losing it.
* An export looks three times whether a run is there (`application/usage.py` 85-); a run
  that expires in between and is named by no other event is missing without a diagnostic.
  `ExportAccounted` is about the runs that an exported event names.

### The refinement

`ExclusiveRuns` has three variables: who owns the store, what was removed by whom,
and what each closed run claims. Its owner is mapped to the active runs of the
log file, its removals to `removed`, its claims to the drained ids in the end
events. Thus a removal must happen while its run is active *according to the
log*, a start must find nobody active, and an end may claim only what the run
removed while it was active.

### Fairness

Safety uses none. `LockReleased` assumes weak fairness of `RetentionProceed`, the steps of
the lock holder, a lifecycle operation (`Proceed`) or an expiry: the holder is a process that
waits for nobody (the locks it takes inside are held for one file operation only), so if it
is not killed it executes its next write; if it is killed, the kernel closes the descriptor and
the lock with it (`Interrupt`). No fairness is assumed of the environment, of
callers, or of those who wait for the lock: `flock` makes no promise to them.

## 4. Proofs

`CompoundingProofs` proves, for every value of the constants that satisfies the
assumptions of `ActivityLog` and `Compounding` (`Quarter` positive, `None` and `Absent`
distinct from the data, triggers, sizes, batches and bounds of their types):

* `TypeCorrect`: `Spec => []TypeOK`. `TypeOK` alone is not inductive: what a step
  writes depends on what the operation carries, so it is strengthened to `Typed`:
  `StagesConsistent` says what each stage takes for granted about `op` (a run at the
  stages that write evidence, a signal at those that remove one), and `StartsFiled`
  that an archived start is a start event of its own run.
* `OneActive`: `Spec => []OneActiveRun`. The inductive invariant `OwnershipInv` adds to
  `Typed`: `EventMatches` (the event in hand may still be logged: a start only while
  nothing is active, an end only for a run the history has started), `ActiveTransparent` (the file
  and the whole history agree about who is active, which is what makes a decision on
  the file right after rollover), `EndsStarted` and `OneActiveRun` itself. The step
  that matters is `AppendKeepsOne`; `RolloverKeepsActive` shows that rollover cannot hide an
  active run.
* `AgreementStable`: `Spec => AgreementStableWhileActive`, an action property, from
  `AgreementInv`: `OwnershipInv` and `TriggerAlone` (a trigger comes to its append only
  through `RegisterTrigger`, which saw no active run). `RolloverKeepsAgreement` and
  `OtherLineKeepsAgreement` say that no other step changes the agreement.

It goes on from there to what the log, the evidence and the inbox say of each
other, under one more assumption, `RecordsAssumption` (`None` is not an evidence record):

* `LogBacked`, `DrainageTold`, `RemovalsRecoverable`: `Spec => []LogBackedByEvidence`,
  `[]DrainageTruthful`, `[]RemovalRecoverable`. Each speaks of what is durable, and every operation
  makes it durable in several steps, so `EvidenceInv` adds to `OwnershipInv` two things.
  `InHand` is what the operation in progress owes or may rely on: its run is known and owns the
  store (`RunKnown`, `HeldOwns`), the line it is about to log has its evidence already (`StartBacked`,
  `WorkerBacked`, `FinishBacked`), and the inputs of a drain are archived before they are touched
  (`DrainPrepared`). `Ledger` is what holds between operations: the three properties, that the
  attachments of a run agree (`WorkersAgree`), that lines and removals belong to known and started
  runs (`LinesOfRuns`, `RemovedStarted`).
* `RemovalsTimely`: `Spec => NoLateRemoval`, an action property: the only step that removes is
  `RemoveInput`, and `HeldOwns` says that its run is active.
* `ExclusiveRunsImplemented`: `Spec => ImplementsExclusiveRuns`, the refinement, one lemma for each step
  of the lifecycle that the abstract state can see. It needs `OneEnd`, that the history ends no run
  twice, for the claims of a run to be well defined.

`RetentionProofs` proves first that rollover, kills and clocks do not change an answer:

* `RolloverHidesNothing`: `Spec => []RolloverTransparent`. `RolloverInv` adds to `EvidenceInv` which lines
  the file must still hold: the start of every end (`StartFirst`, `EndsWhole`), every line of an active run
  (`ActiveLive`), the last line and the latest one that each deadline counts from (`LatestLive`), and that a line
  that left the file is archived (`NothingLost`).
* `LogAccepted`: `Spec => []Readable(log)`, the strict reader accepts the log. `ReadingInv` adds that the times
  of the history are in order (`OrderedTime`: `_append` refuses a line older than one in the file,
  and the file holds the latest of all) and that an end repeats the identity its run had by then, as the end in hand still does
  (`EndsTerminate`, `FinishTerminates`).
* `LogLoads`: `Spec => []LogReadable`, the reader's bound as well. That the log never exceeds `4 * Quarter` is not
  inductive: each append checks its own line only. `LogBounded` says how much room is left for whom:
  whoever made room for a line (`Roomy`: by a rollover, or because the log needed none) found or left it at half
  of the bound at most; its line takes a third quarter, and an unfinished run leaves the last one for the
  line that ends it. The size of a log is the cardinality of a set, so the
  theorems on finite sets replace an induction over its lines: a line that is appended adds its bytes
  and rollover keeps a subset.
* `IdentitiesRepairable`: `Spec => []IdentityRepairable`, from `EvidenceInv`.
* `RunsStayOperable`: `Spec => []ActiveRunOperable`. `OperableInv` adds to `ReadingInv` and `LogBounded` that, as long
  as nothing has failed, nothing is torn and log and archive agree about who works on an unfinished run,
  but between the two writes of an attachment (`FaultFree`); that this second write is never refused,
  neither for its size nor for its time, is `LogBounded` and `WorkerTimely`.
* `CadenceRespected`: `Spec => []CadenceKept`. `CadenceInv` carries the decision of `BeginStart` to the line it
  logs later, `StartDue`: while an automatic start is in hand, the waits have passed since the latest check
  and the latest attempt *of the whole history*, which is where transparency is used.

It then composes the lifecycle with the expiry of evidence. `EvidenceInv` is no invariant of `RetentionSpec`, which
gives up evidence on purpose, but `OwnershipInv`, which speaks of the log and of types, is; `RetentionInv` builds
on it. `InProgress` says what each operation in hand owes or may rely on when evidence may be
gone (`Pruning`: from the tombstone on its run is expired, and the finish that was read before says that
nothing is unresolved; `Starting`, `Recording`, `Removing`), and `Books` what is durable (`Truthful`: what the records of a
run say about its inputs is so; `Tombstones`: an expired run is resolved, and is never drained or finished again).

* `ExpiredAreResolved`: `RetentionSpec => []UnresolvedKept`, and `LossesAreExplained`: `RetentionSpec => []LossExplained`.
  A step of the lifecycle cannot give an expired run a new start or a new selection because its id is
  known to the history, and cannot begin to drain or finish it because `Tombstones` says that its records have the
  finish, or not even the start that `ActiveRun` asks for.
* `ExclusiveDespiteExpiry`: `RetentionSpec => ImplementsExclusiveRuns`. The lemma for each step,
  shared with `ExclusiveRunsImplemented`, needs `OwnershipInv`, `StagesOfKind` and `Claiming` (only the owner drains and
  finishes, and a finish claims what its run removed); `ExclusionInv` is `RetentionInv`, `Claiming` and `OneEnd`.

`ListingProofs` proves about `SignalCapture`, under `InboxAssumption` (finitely many buckets at first,
budgets in `Nat`, torn bytes distinct from whole ones, temporary names from `.md` names), for any number of sessions:

* `CaptureTypesHold`, `CompleteBytesVisible`, `FailureLeavesNothing`: `CaptureSpec => []CaptureTypeOK`,
  `[]VisibleComplete`, `[]FailedUnpublished`. `CaptureInv` says of every entry, of a directory or of the
  disk, that leads to a file under a `.md` name: the file has all its bytes and is synced (`NamesWhole`).
  The link preserves that only because of what a session knows before it: `TemporaryWhole` (its
  temporary name leads to nothing torn once the file was synced, on the disk as well, where entries
  of a former life may come back after a power loss), `Private` (what it made is under no other name
  until it links it) and `Holding` (directories and files are there at the stages that use them, and
  nothing was published before the link).
* `NamesNeverReplaced` and `CapturesSurvive`: the action properties `NothingOverwritten` and
  `SurvivesInDurableBucket`. The second one needs `LinkDurable`: the name of a session is on the disk as it is
  seen in the directory, but between its link and its flush.

It goes on from there to the reader, under `ListingAssumption` (finitely many buckets
and names, each with a place of its own in the order of paths; a page has at least one row):

* `PagesTrue`: `InboxSpec => []PageTrue`. The argument is about time. `Stamped` says that nothing has a
  stamp of the future, and `SessionAges` and `WriterAges` that every step of others gives what it
  changes a later stamp than anything had before; so a bucket or a file that is found as it was
  noted has not changed in between (`SameDirectory`, `SameFile`). `Scanned` says what a pass that is
  under way knows: a bucket that is as the pass has found it holds the files that it noted.
  At the end of the second pass this must be turned into one view of all buckets
  at one moment, although they were noted one after the other: the view of the moment at which the
  second pass ends is `Enclosed` from then on. `Standing` says that a bucket or
  file that is still as noted is as in that view, and was read so; `Confirmed` that what the third
  pass finds as noted *was* so until it was found. When the third pass agrees with the second,
  every bucket is confirmed and the bodies are the view (`Truthful`). The first pass and
  the fourth, and the power loss, which may rewrite any entry and ends the call, are not needed for it.
* `ChainsTrue`: `InboxSpec => []ChainTrue`. A reader with a cursor has the first rows of the one snapshot that
  the cursor is bound to (`Chained`), an accepted cursor has the snapshot just read, and the
  next page continues it (`ReplyKeeps`); `PagesTrue` says that the last snapshot is a moment of the inbox.
* `ListingTypesHold`: `InboxSpec => []ListingTypeOK`.
* `RowsListed`: the rows of any view are all its signals but those of other workspaces, each once and in
  order. `Sorted` puts at place `k` the path that has `k - 1` before it; that there is exactly one is
  shown with cardinalities (ranks are an injection of a finite set into an interval of its size),
  so no induction is needed.
* `InboxImplementsCapture`: `InboxSpec => CaptureSpec`, which carries the theorems about
  `SignalCapture` to an inbox that is being listed.

`SessionProofs` proves about `SessionEnvironment`, under `SessionAssumption` (`None` is none of the
values that may stand beside it):

* `SessionTypeCorrect`: `Spec => []SessionTypeOK`, and `OneDeclarationEver`: `Spec =>
  []OneDeclaration`, for any sessions, declarations and number of concurrent hooks. `OneDeclaration` is
  about what has been written; that the next write keeps it depends on what each activation
  carries from before its last lock-free step. `SessionInv` adds: `AllHolding`, what an
  activation takes for granted at each stage (once bound, its declaration is that of the pin of its
  session; the pin exists from the moment it was seen and is never taken away), and
  `OnePublisher`, that the temporary name of a pin has one owner, without which the type of a pin
  (two names, then one) would not be inductive.
* `ActivationsSettle`: `Spec => []ActivationSettled`. `SettledInv` adds `Alone` (while an activation is
  alone, and since it ended so, nobody else is at work) and `AllCalm`, what such an activation finds at
  each stage: the stamp it noted is still that of the pin, the credentials or the file; the file is what it
  was, or has the half or the whole of its exports at the end, and the size it noted cuts exactly
  those. A failure has a reason: a call that failed (`hit`), credentials that are not complete, or a file that is not named or not private. Any step of another activation would contradict `Alone` (`SoleStep`), so one lemma per
  action needs to look at one activation only.

`ProjectionProofs` proves about `ProfileProjection`, under `ProjectionAssumption`, for any number of
files, edits, foreign actions and faults:

* `SecretsJournaledEver`, `NoSelfLockoutEver`, `CredentialsClearedEver` and
  `ProjectionTypeCorrect` (which includes that no partial copy is ever under the final name), all from
  one inductive invariant, `ProjectionInv`. `SecretsJournaled` is taken apart by name:
  `TempsJournaled` (a secret under a temporary name is the journaled inode, never a recorded
  identity) and `TargetJournaled`; `JournalExclusive` says that the journal names a
  temporary file or a copy, not both, which is why a copy in the middle of its link is still recognised
  (`OwnRecognised`, the lemma behind `NoSelfLockout`). `StagesConsistent` carries what each stage
  knows: while clearing, the process agrees with the journal (`Agrees`); at the stages that rewrite
  the journal nothing is left that it would have to name (`Quiet`), which also gives
  `CredentialsCleared`; while filling, the journal is what the process holds and the final
  name is another file. `KindsConsistent` ties stages to what was asked for, `Undisturbed` says
  that without foreign actions all files are setup's.

`SubsequenceProofs` proves what `Subsequence` returns, for any sequence and any of its places: `SubsequenceLists` (each
chosen place once, in their order) and `SubsequenceCounts` (an element stands in it as often as at the chosen
places). Both follow from `Ranks`, an injection of a finite set of numbers into an interval of its size, as in `RowsListed`.

`UsageProofs` proves about `UsageStore`, under `UsageAssumption`, for any workspaces, runs, processes and days:

* `UsageTypeCorrect`, `ExportIsAccounted`: `Spec => []UsageTypeOK`, `[]ExportAccounted`. The first says more than
  types: whichever commands append, compact and expire at once, a torn line is the last of its file, and a file has
  only the events that belong there. The inductive invariant
  `UsageInv` has three parts. `StoreInv`: events are where they belong, with their workspace described
  (`Filed`), and nothing follows a torn line (`TornLast`). `CommandInv`: there is one maintainer
  (`OneMaintainer`), what it expires has its tombstone first, and what a compaction is about to write is
  what it read, less what is retired, because it holds the lock of the file (`Holding`). `Exporting`: a run
  that the export has turned to is named by a diagnostic, or its pieces are in the bundle or still to come, and an
  event that it has read has its descriptor (`Accounted`). Expiry may go on at any of these steps; what was read
  before stays read, and what is gone when its turn comes is reported.
* `ReceiptsAreKept`: `Spec => ReceiptsKept`, an action property, from `UsageInv`: the two steps that take lines away are
  the expiry of a run and `ReplaceReceipts`, where `SubsequenceCounts` gives the number of each receipt that
  is left.

`SetupProofs` proves about `SetupRuntime`, under `SetupAssumption` and `ContentAssumption` (`None` and `Torn` are no content
of a document, no package is called so, and the word of a command says whose it is), for any
number of runs, requests, environments, packages, profiles, edits and stops. `SetupInv` has three parts:

* `StoreInv`, whoever wrote: a document is missing, cut off or one of its kind (`Stored`), the document of a user with
  hooks has them unless it is cut off (`Hooked`), a launcher has the declaration it is named for (`NamedFor`),
  and a launch that has been checked carries the declaration of its report (`Launched`). `SetupTypeCorrect`, `UserHooksStay` and
  `LaunchesAreHonest` (`[]SetupTypeOK`, `[]UserHooksKept`, `[]LaunchHonest`) follow from it.
* `RunInv`, what a run takes for granted at each stage, most of all that the edits made come before the ones left
  and that the buffer it will fill has the hooks of the user; and that nobody else is at work while
  a run is alone (`Alone`).
* `Undisturbed`, for a run that is alone: every edit it has made is in place (`Agreed`), also in the
  registration that it holds in memory between two events (`Carried`) and in the document that it is about to
  fill; the lock describes the hook file (`Described`); and a refusal is explained (`Justified`).
  `ReadyHooksAgree` and `RefusalsAreExplained` (`[]SoloReady`, `[]RefusalExplained`) follow. Its first reason is the
  overlap of two runs described in section 3: the run that is refused is the third one, which is beyond the bound of
  the TLC run and came to light in the proof.

The non-temporal steps go one lemma per action; the temporal conclusion is the last
step of each theorem. Every invariant and every action property of the passing runs is stated by a theorem.

Only model-checked: `LockReleased`, a liveness property under fairness, which is out of the prover's reach. And nothing
is proved by induction over data, nor about a recursive definition: where a model counts or orders the elements of a
sequence (`Subsequence`, `Sorted`, the size of a log) it does so with the cardinality of a set, which
the theorems on finite sets cover.

## 5. Not modelled

`PROJECT.json` lists every component. Left out for good: command line and request
parsing, schema and catalog checks, document and corpus reading, doctor: they
are sequential, keep no state and are within reach of unit tests. Left for
later, see the plan: the publication gate (`Compounding` takes every answer it
could give), the prompt and edit hooks (they only advise, within a deadline), the retrieval,
matching and navigation algorithms.

Of the modelled components, this is outside: configuration other than its currency, the
patches of publications (`capture_changes`) and the report on usage, which nothing decides on;
parsing and listing of the profile registry, and the preparation of a workspace from a
profile; and the discovery of a Python for setup. `PROJECT.json` says of each component what is left out.

## 6. Plan

Done: `ActivityLog`, `Compounding`, `ExclusiveRuns`, `Retention`,
`SignalCapture`, `SignalListing`, `UsageStore`, `ProfileProjection`, `SessionEnvironment` and
`SetupRuntime`, with theorems for every safety property of theirs that a run checks. Left, in this order:

1. `PublicationGate`: `select_pull_request`, `can_drain`, `drainable_snapshots` as operators
   checked against a reference definition, then used by `Compounding` for `approved`.
2. `PromptHook`: due check in a child process with a deadline, handoff to a worker,
   automatic start; composed with `Compounding`.
3. An abstract inbox that `SignalCapture` implements, and an abstract session that
   `SessionEnvironment` implements.
4. `Matching`, `Navigation`, and the cursors of retrieval: pure operators against reference definitions.
