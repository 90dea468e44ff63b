---------------------------- MODULE SetupRuntime ----------------------------
(***************************************************************************)
(* setup_runtime.py: one helper that provisions a virtual environment,     *)
(* writes an environment launcher into it, binds the hooks of a consumer's *)
(* harnesses and reconciles the lock of the package manager; and           *)
(* launch_container.py, which starts a harness from a saved report.        *)
(*                                                                         *)
(* A run holds no lock.  It rewrites shared documents one after another,   *)
(* each by truncating and filling it, and may stop at any step; a rerun,   *)
(* maybe with other arguments, or another run at the same time meets       *)
(* whatever is there.  APM (external) installs the package with the marker *)
(* of its hooks; users edit the registry and their own hook documents.     *)
(***************************************************************************)
EXTENDS Subsequences

CONSTANTS
    Processes,      \* runs that may be in progress at the same time
    Requests,       \* what a run may be asked for
    Venvs, Packages, Profiles, Declarations,
    Consumer,       \* the harnesses of the consumer
    Instructable,   \* those that may have instructions before the first run
    OnPath,         \* the virtual environment that PATH resolves
    None, Torn,
    MaxRuns,        \* bound: runs
    MaxStops,       \* bound: runs that are killed or fail
    MaxEdits,       \* bound: actions of users
    MaxLaunches     \* bound: launches

Harnesses == {"codex", "claude", "copilot"}
RequestRecords ==
    [mode: {"managed", "prepare", "bind"}, existing: BOOLEAN, portable: BOOLEAN,
     venv: Venvs, package: Packages, profile: Profiles, targets: SUBSET Consumer]

ASSUME SetupAssumption ==
    /\ Instructable \subseteq Consumer /\ Consumer \subseteq Harnesses
    /\ Requests \subseteq RequestRecords
    /\ OnPath \in Venvs /\ None # Torn
    /\ {"marker", "other"} \cap Venvs = {} /\ {None, Torn} \cap Packages = {}
    /\ MaxRuns \in Nat /\ MaxStops \in Nat /\ MaxEdits \in Nat /\ MaxLaunches \in Nat

VARIABLES
    venv,       \* what each virtual environment is, or has installed
    launchers,  \* the declaration in each environment launcher of a venv
    registry,   \* the declaration of each profile
    able,       \* whether credentials, and compounding, pass the installed doctor
    users,      \* the harnesses that the user has hooks for
    docs,       \* the documents of the consumer
    skill,      \* the version of the installed compound skill
    instructed, \* the harnesses with an instruction file or a directory of skills
    op,         \* the runs
    reports,    \* the saved reports with a provider that is ready
    launch,     \* the launch in progress
    spent

files == <<venv, launchers, docs, skill, instructed>>
outside == <<registry, able, users>>
vars == <<files, outside, op, reports, launch, spent>>

Events == {"SessionStart", "UserPromptSubmit"}

\* A command is known by its first word: the marker, which PATH resolves, or
\* the launcher of one virtual environment; anything else is another's.
Marker == "marker"
Other == "other"
Word(by) == [by |-> by, profile |-> None, env |-> None, skill |-> FALSE]
Foreign == Word(Other)
Commands == [by: {Marker, Other} \cup Venvs, profile: Profiles \cup {None},
             env: Declarations \cup {None}, skill: BOOLEAN]
Bindings == {c \in Commands : c.by # Other}
Recognised(c, v) == c.by \in {Marker, v}

\* Documents: the installed descriptor, the lock, the registration of each
\* harness and the active document it reads hooks from (Copilot has one file).
Package == <<"apm", "package">>
Lock == <<"apm", "lock">>
Owned(h) == <<h, "owned">>
Active(h) == <<h, "active">>
Sided == Consumer \cap {"codex", "claude"}
ActiveFile(h) == IF h \in Sided THEN Active(h) ELSE Owned(h)
ActiveDocs == {Active(h) : h \in Sided}
Registrations == {Owned(h) : h \in Sided}
Documents == {Package, Lock} \cup {Owned(h) : h \in Consumer} \cup ActiveDocs
Missing(d) == docs[d] \in {None, Torn}

\* What a document that is there, and whole, holds.
Content(d) ==
    CASE d = Package -> [Events -> {Marker} \cup Venvs]
      [] d = Lock -> [targets: SUBSET Consumer, hash: {None, Torn} \cup [Events -> Bindings]]
      [] d \in ActiveDocs -> [Events -> Seq(Commands)]
      [] OTHER -> [Events -> Bindings]

ASSUME ContentAssumption == \A d \in Documents : None \notin Content(d) /\ Torn \notin Content(d)

Bare(by) == [e \in Events |-> Word(by)]
UsersOwn == [e \in Events |-> <<Foreign>>]

Idle == [stage |-> "idle", req |-> None, decl |-> None, ready |-> FALSE, binding |-> FALSE,
         left |-> {}, edit |-> None, buffer |-> None, alone |-> FALSE, at |-> "idle", outcome |-> "none"]
NoLaunch == [stage |-> "idle", report |-> None, provider |-> None, loaded |-> None]

Init ==
    /\ venv = [v \in Venvs |-> "absent"]
    /\ launchers = [v \in Venvs |-> << >>]
    /\ registry \in {r \in [Profiles -> Declarations] :
                        \A p, q \in Profiles : p # q => r[p] # r[q]}
    /\ able \in [{"credentials", "compounding"} -> BOOLEAN]
    /\ users \in SUBSET Sided
    /\ docs = [d \in Documents |-> IF d \in {Active(h) : h \in users} THEN UsersOwn ELSE None]
    /\ skill = None /\ instructed \in SUBSET Instructable
    /\ op = [p \in Processes |-> Idle]
    /\ reports = {} /\ launch = NoLaunch
    /\ spent = [runs |-> 0, stops |-> 0, edits |-> 0, launches |-> 0]

Req(p) == op[p].req
At(p, stage) == op[p].stage = stage
Goto(p, stage) == op' = [op EXCEPT ![p].stage = stage]
End(p, outcome) ==
    op' = [op EXCEPT ![p] =
              IF ~@.alone \/ outcome = "stopped" THEN Idle
              ELSE [@ EXCEPT !.stage = "idle", !.at = op[p].stage, !.outcome = outcome,
                             !.left = {}, !.edit = None, !.buffer = None]]
\* Someone else acts: a run in progress is no longer alone, and what is kept of a
\* run that has ended is of no more use.
Disturbed(o) ==
    [p \in Processes |-> IF o[p].stage = "idle" THEN Idle ELSE [o[p] EXCEPT !.alone = FALSE]]

-----------------------------------------------------------------------------
\* What the blocks of the lock name; a lock that was cut off names nothing.
LockTargets == IF Missing(Lock) THEN {} ELSE docs[Lock].targets

\* What _guard_managed_targets takes for a sign of a harness: the lock, the document
\* it reads hooks from, its instructions and its skills.
Projected == LockTargets \cup instructed \cup {h \in Consumer : docs[ActiveFile(h)] # None}
\* An installation for fewer harnesses than the consumer has is refused.
Narrows(req) == ~(Projected \subseteq req.targets)
\* What a lock that was cut off still names may be anything, or not be understood.
Refusals(req) ==
    CASE req.mode # "managed" -> {FALSE}
      [] req.mode = "managed" /\ Narrows(req) -> {TRUE}
      [] OTHER -> IF docs[Lock] = Torn THEN BOOLEAN ELSE {FALSE}

Begin(p, req) ==
    /\ At(p, "idle") /\ spent.runs < MaxRuns
    /\ spent' = [spent EXCEPT !.runs = @ + 1]
    /\ LET begun == [Idle EXCEPT !.req = req, !.alone = \A q \in Processes : At(q, "idle")]
       IN  \E refused \in Refusals(req) :
             op' = [Disturbed(op) EXCEPT ![p] =
                     IF refused THEN [begun EXCEPT !.outcome = "refused"]
                     ELSE [begun EXCEPT !.stage = IF req.existing THEN "verify-venv" ELSE "venv"]]
    /\ UNCHANGED <<files, outside, reports, launch>>

\* _prepare_venv.  A directory that is neither empty nor a virtual environment
\* is refused, and a kill of the creation leaves one.
PrepareVenv(p) ==
    /\ At(p, "venv")
    /\ CASE venv[Req(p).venv] = "absent" ->
                venv' = [venv EXCEPT ![Req(p).venv] = "partial"] /\ Goto(p, "create")
         [] venv[Req(p).venv] = "partial" -> UNCHANGED venv /\ End(p, "refused")
         [] OTHER -> UNCHANGED venv /\ Goto(p, "install")
    /\ UNCHANGED <<launchers, outside, docs, skill, instructed, reports, launch, spent>>

CreateVenv(p) ==
    /\ At(p, "create")
    /\ venv' = [venv EXCEPT ![Req(p).venv] = "bare"]
    /\ Goto(p, "install")
    /\ UNCHANGED <<launchers, outside, docs, skill, instructed, reports, launch, spent>>

\* uv pip install replaces what is installed, not at once.
InstallRuntime(p) ==
    /\ op[p].stage \in {"install", "installed"}
    /\ venv' = [venv EXCEPT ![Req(p).venv] =
                   IF At(p, "install") THEN "mixed" ELSE Req(p).package]
    /\ Goto(p, IF At(p, "install") THEN "installed" ELSE "context")
    /\ UNCHANGED <<launchers, outside, docs, skill, instructed, reports, launch, spent>>

\* _package_payload against what the environment has installed.
SamePayload(p) == venv[Req(p).venv] = Req(p).package

\* _verify_existing_runtime compares what is installed with the package, and
\* writes nothing.
VerifyExisting(p) ==
    /\ At(p, "verify-venv")
    /\ IF SamePayload(p) THEN Goto(p, "context") ELSE End(p, "refused")
    /\ UNCHANGED <<files, outside, reports, launch, spent>>

\* A command of the runtime gives a result only where one is installed, and whole.
RuntimeAnswers(p) == venv[Req(p).venv] \in Packages

\* Of all that doctor may miss, only credentials leave the run going.
CredentialsReady == able["credentials"]

\* The installed launcher resolves the selection, and doctor checks what it needs.
ReadContext(p) ==
    /\ At(p, "context")
    /\ IF RuntimeAnswers(p)
       THEN op' = [op EXCEPT ![p].stage =
                        IF Req(p).portable /\ Req(p).mode # "prepare" THEN "portable" ELSE "launcher",
                        ![p].decl = registry[Req(p).profile], ![p].ready = CredentialsReady]
       ELSE End(p, "refused")
    /\ UNCHANGED <<files, outside, reports, launch, spent>>

\* _verify_portable_runtime: PATH and the registry must lead a portable hook to
\* what was just read.
VerifyPortable(p) ==
    /\ At(p, "portable")
    /\ IF Req(p).venv = OnPath /\ registry[Req(p).profile] = op[p].decl
       THEN Goto(p, "launcher") ELSE End(p, "refused")
    /\ UNCHANGED <<files, outside, reports, launch, spent>>

\* Mutant: one launcher for a profile, whatever it declares.
LauncherNameByProfile(profile, decl) == <<profile, None>>
\* The name of an environment launcher is a digest of what it contains.
LauncherName(profile, decl) == <<profile, decl>>

\* The run is to bind hooks.
Bound(p) == Req(p).mode # "prepare" /\ Req(p).targets # {}

\* _environment_launcher: a temporary file replaces the launcher in one step.
WriteLauncher(p) ==
    /\ At(p, "launcher")
    /\ LET r == Req(p)
           next == CASE ~Bound(p) -> "report"
                     [] Bound(p) /\ r.mode = "managed" -> "apm"
                     [] OTHER -> "package"
           writes == op[p].ready /\ ~(r.portable /\ r.mode # "prepare")
       IN  IF writes /\ r.existing /\ Bound(p)
           THEN UNCHANGED launchers /\ End(p, "refused")
           ELSE /\ launchers' =
                     IF ~writes \/ r.existing THEN launchers
                     ELSE LET name == LauncherName(r.profile, op[p].decl)
                          IN  [launchers EXCEPT ![r.venv] =
                                  [n \in DOMAIN @ \cup {name} |-> IF n = name THEN op[p].decl ELSE @[n]]]
                /\ Goto(p, next)
    /\ UNCHANGED <<venv, docs, skill, instructed, outside, reports, launch, spent>>

-----------------------------------------------------------------------------
\* External: what apm install for some targets leaves.  It restores the marker of
\* the package or keeps what is there, and updates one entry in place; what it
\* has no target for is removed.
OwnEntries(entries) == {i \in DOMAIN entries : entries[i] # Foreign}
Marked(entries, how) ==
    IF OwnEntries(entries) = {} THEN Append(entries, Word(Marker))
    ELSE IF how = "keep" THEN entries
    ELSE [i \in DOMAIN entries |-> IF i \in OwnEntries(entries) THEN Word(Marker) ELSE entries[i]]
Pruned(entries) == Subsequence(entries, DOMAIN entries \ OwnEntries(entries))
Installed(targets, how) ==
    LET Kept(d) == how = "keep" /\ ~Missing(d)
        New(h) == IF Kept(Owned(h)) THEN docs[Owned(h)] ELSE Bare(Marker)
    IN  [d \in Documents |->
          CASE d = Package -> IF Kept(d) THEN docs[d] ELSE [e \in Events |-> Marker]
            [] d = Lock -> [targets |-> targets,
                            hash |-> IF "copilot" \in targets THEN New("copilot") ELSE None]
            [] d \in ActiveDocs ->
                   IF Missing(d) /\ d[1] \notin targets THEN docs[d]
                   ELSE [e \in Events |->
                            LET old == IF docs[d] = None THEN <<>> ELSE docs[d][e]
                            IN  IF d[1] \in targets THEN Marked(old, how) ELSE Pruned(old)]
            [] OTHER -> IF d[1] \in targets THEN New(d[1]) ELSE None]

\* The skills of the targets are added; with a harness that is removed its
\* directory may go, or stay.
Instructed(targets) ==
    {instructed \cup targets, {h \in instructed : docs[Owned(h)] = None} \cup targets}

\* APM cannot merge into a document that is cut off.
ApmFails(targets) == \E h \in targets \cap Sided : docs[Active(h)] = Torn

ApmInstall(p, how, version) ==
    /\ At(p, "apm")
    /\ IF ApmFails(Req(p).targets)
       THEN UNCHANGED <<docs, skill, instructed>> /\ End(p, "refused")
       ELSE /\ docs' = Installed(Req(p).targets, how) /\ skill' = version
            /\ instructed' \in Instructed(Req(p).targets) /\ Goto(p, "package")
    /\ UNCHANGED <<venv, launchers, outside, reports, launch, spent>>

\* _provider_hook_command.
Command(p, h, e) ==
    LET r == Req(p)
        bound == op[p].binding
    IN  IF r.portable
        THEN [by |-> Marker, profile |-> r.profile, env |-> None, skill |-> bound]
        ELSE [by |-> r.venv, profile |-> IF bound THEN r.profile ELSE None,
              env |-> IF h = "claude" /\ e = "SessionStart" /\ ~bound /\ op[p].ready
                      THEN op[p].decl ELSE None,
              skill |-> bound]

\* _configure_hook_registrations: the descriptor, then for one harness after the other
\* its registration and its active document, with one event after the other.
HarnessEdits(h) ==
    IF h \in Sided THEN {Owned(h), Active(h)} \X Events ELSE {<<Owned(h), "all">>}
Edits(targets) == {<<Package, "all">>} \cup UNION {HarnessEdits(h) : h \in targets}

Place(h) == CASE h = "codex" -> 1 [] h = "claude" -> 2 [] OTHER -> 3
Rank(edit) ==
    IF edit[1] = Package THEN 0
    ELSE 4 * Place(edit[1][1]) + (IF edit[1][2] = "active" THEN 2 ELSE 0)
                               + (IF edit[2] = "UserPromptSubmit" THEN 1 ELSE 0)
Foremost(edit, left) == edit \in left /\ \A other \in left : Rank(edit) <= Rank(other)

\* _prepare_compounding: the installed skill must be the helper's own, and its
\* agreement ready, before hooks name it.
Binding(p) == able["compounding"] /\ skill = Req(p).package

\* _hook_package: the lock leads to the package.
FindPackage(p) ==
    /\ At(p, "package")
    /\ IF Missing(Lock) \/ docs[Package] = None THEN End(p, "refused")
       ELSE op' = [op EXCEPT ![p].stage = "edit", ![p].left = Edits(Req(p).targets),
                             ![p].binding = Binding(p)]
    /\ UNCHANGED <<files, outside, reports, launch, spent>>

-----------------------------------------------------------------------------
\* Mutant: what is not recognised is dropped with the duplicates.
BindActiveOnly(entries, c, v) ==
    IF \E i \in DOMAIN entries : Recognised(entries[i], v) THEN <<c>> ELSE <<>>
\* _normalize_active_hook: the first entry of the package takes the command, later
\* ones are dropped and what is not recognised is kept; <<>> if there is none.
BindActive(entries, c, v) ==
    LET known == {i \in DOMAIN entries : Recognised(entries[i], v)}
    IN  IF known = {} THEN <<>>
        ELSE Subsequence([i \in DOMAIN entries |-> IF i \in known THEN c ELSE entries[i]],
                         {i \in DOMAIN entries : i \in known => \A j \in known : i <= j})

\* Mutant: an entry is recognised by the marker alone.
EditableMarked(p, d, e, base) ==
    CASE d = Package -> \A ev \in Events : base[ev] = Marker
      [] d \in ActiveDocs -> BindActive(base[e], Foreign, Req(p).venv) # <<>>
      [] d \in Registrations -> base[e].by = Marker
      [] OTHER -> TRUE
\* Each event of a document has exactly one entry of the package.
Editable(p, d, e, base) ==
    CASE d = Package -> \A ev \in Events : base[ev] \in {Marker, Req(p).venv}
      [] d \in ActiveDocs -> BindActive(base[e], Foreign, Req(p).venv) # <<>>
      [] d \in Registrations -> Recognised(base[e], Req(p).venv)
      [] OTHER -> TRUE
\* Mutant: the descriptor is given the path of the package.
EditedDescriptor(p, d, e, base) ==
    CASE d = Package -> [ev \in Events |-> IF Req(p).portable THEN Marker ELSE Req(p).package]
      [] d \in ActiveDocs -> [base EXCEPT ![e] = BindActive(@, Command(p, d[1], e), Req(p).venv)]
      [] d \in Registrations -> [base EXCEPT ![e] = Command(p, d[1], e)]
      [] OTHER -> [ev \in Events |-> Command(p, d[1], ev)]
Edited(p, d, e, base) ==
    CASE d = Package -> [ev \in Events |-> IF Req(p).portable THEN Marker ELSE Req(p).venv]
      [] d \in ActiveDocs -> [base EXCEPT ![e] = BindActive(@, Command(p, d[1], e), Req(p).venv)]
      [] d \in Registrations -> [base EXCEPT ![e] = Command(p, d[1], e)]
      [] OTHER -> [ev \in Events |-> Command(p, d[1], ev)]

\* The second event of a registration is edited in the document read for the first.
Rereads(d, e) == ~(d[2] = "owned" /\ e = "UserPromptSubmit")
NextEdit(o, edit, content) ==
    [o EXCEPT !.stage = "edit", !.left = @ \ {edit}, !.edit = None,
              !.buffer = IF edit[1][2] = "owned" /\ edit[2] = "SessionStart" THEN content ELSE None]

ReadDocument(p, edit) ==
    /\ At(p, "edit") /\ Foremost(edit, op[p].left)
    /\ LET d == edit[1]
           e == edit[2]
           base == IF Rereads(d, e) THEN docs[d] ELSE op[p].buffer
       IN  IF base = None /\ d \in ActiveDocs THEN op' = [op EXCEPT ![p] = NextEdit(@, edit, None)]
           ELSE IF base \in {None, Torn} THEN End(p, "refused")
           ELSE IF ~Editable(p, d, e, base) THEN End(p, "refused")
           ELSE IF Edited(p, d, e, base) = base
           THEN op' = [op EXCEPT ![p] = NextEdit(@, edit, base)]
           ELSE op' = [op EXCEPT ![p].stage = "truncate", ![p].edit = edit,
                                 ![p].buffer = Edited(p, d, e, base)]
    /\ UNCHANGED <<files, outside, reports, launch, spent>>

\* _write_hook_document opens the file with truncation and then writes it.
Truncate(p) ==
    /\ At(p, "truncate")
    /\ docs' = [docs EXCEPT ![op[p].edit[1]] = Torn]
    /\ Goto(p, "fill")
    /\ UNCHANGED <<venv, launchers, skill, instructed, outside, reports, launch, spent>>

Fill(p) ==
    /\ At(p, "fill")
    /\ docs' = [docs EXCEPT ![op[p].edit[1]] = op[p].buffer]
    /\ op' = [op EXCEPT ![p] = IF @.edit[1] = Lock
                               THEN [@ EXCEPT !.stage = "report", !.edit = None, !.buffer = None]
                               ELSE NextEdit(@, op[p].edit, op[p].buffer)]
    /\ UNCHANGED <<venv, launchers, skill, instructed, outside, reports, launch, spent>>

\* _verify_hook_registrations reads every document again.
HarnessDocs(h) == {<<Owned(h), "all">>, <<ActiveFile(h), "all">>}
BeginVerify(p) ==
    /\ At(p, "edit") /\ op[p].left = {}
    /\ IF Missing(Lock) \/ docs[Package] = None THEN End(p, "refused")
       ELSE op' = [op EXCEPT ![p].stage = "verify",
                             ![p].left = UNION {HarnessDocs(h) : h \in Req(p).targets}]
    /\ UNCHANGED <<files, outside, reports, launch, spent>>

Holds(p, d) ==
    IF d \in ActiveDocs
    THEN docs[d] # None =>
           docs[d] # Torn /\ \A e \in Events :
             Cardinality({i \in DOMAIN docs[d][e] : docs[d][e][i] = Command(p, d[1], e)}) = 1
    ELSE ~Missing(d) /\ \A e \in Events : docs[d][e] = Command(p, d[1], e)

VerifyDocument(p, edit) ==
    /\ At(p, "verify") /\ Foremost(edit, op[p].left)
    /\ IF ~Holds(p, edit[1]) THEN End(p, "refused")
       ELSE op' = [op EXCEPT ![p].left = @ \ {edit},
                     ![p].stage = IF op[p].left # {edit} THEN "verify"
                                  ELSE IF "copilot" \in Req(p).targets THEN "lock" ELSE "report"]
    /\ UNCHANGED <<files, outside, reports, launch, spent>>

\* Mutant: the digest that APM recorded is taken for current.
ReconcileNever(p) ==
    /\ At(p, "lock")
    /\ Goto(p, "report")
    /\ UNCHANGED <<files, outside, reports, launch, spent>>
\* _update_copilot_lock_hash reads the lock and the hook file, and writes the lock
\* back when the digest in it is another.
ReconcileLock(p) ==
    /\ At(p, "lock")
    /\ LET hook == docs[Owned("copilot")]
       IN  IF Missing(Lock) \/ hook = None THEN End(p, "refused")
           ELSE IF "copilot" \notin LockTargets THEN End(p, "refused")
           ELSE IF docs[Lock].hash = hook THEN Goto(p, "report")
           ELSE op' = [op EXCEPT ![p].stage = "truncate", ![p].edit = <<Lock, "hash">>,
                                 ![p].buffer = [docs[Lock] EXCEPT !.hash = hook]]
    /\ UNCHANGED <<files, outside, reports, launch, spent>>

\* What launch_container will be given.
Saved(p) == [venv |-> Req(p).venv, profile |-> Req(p).profile, decl |-> op[p].decl,
             portable |-> Req(p).portable, providers |-> Req(p).targets]

\* A provider is ready once its hooks are bound and its credentials are ready.
Activated(p) == IF Bound(p) /\ op[p].ready THEN {Saved(p)} ELSE {}

Report(p) ==
    /\ At(p, "report")
    /\ reports' = reports \cup Activated(p)
    /\ End(p, IF Bound(p) THEN "ready" ELSE "prepared")
    /\ UNCHANGED <<files, outside, launch, spent>>

Stop(p) ==
    /\ ~At(p, "idle") /\ spent.stops < MaxStops
    /\ spent' = [spent EXCEPT !.stops = @ + 1]
    /\ End(p, "stopped")
    /\ UNCHANGED <<files, outside, reports, launch>>

-----------------------------------------------------------------------------
\* What users do.
ByUser ==
    /\ spent.edits < MaxEdits
    /\ spent' = [spent EXCEPT !.edits = @ + 1]
    /\ op' = Disturbed(op)
    /\ UNCHANGED <<reports, launch>>

EditRegistry(q, decl) ==
    /\ ByUser /\ decl # registry[q]
    /\ registry' = [registry EXCEPT ![q] = decl]
    /\ UNCHANGED <<files, able, users>>

ChangeReadiness(what) ==
    /\ ByUser
    /\ able' = [able EXCEPT ![what] = ~@]
    /\ UNCHANGED <<files, registry, users>>

\* The repository's own installation, which bind mode relies on.
InstallByOwner(targets, how, version) ==
    /\ ByUser /\ ~ApmFails(targets)
    /\ docs' = Installed(targets, how) /\ skill' = version /\ instructed' \in Instructed(targets)
    /\ UNCHANGED <<venv, launchers, outside>>

RestoreActive(h) ==
    /\ ByUser /\ docs[Active(h)] = Torn
    /\ docs' = [docs EXCEPT ![Active(h)] = IF h \in users THEN UsersOwn ELSE None]
    /\ UNCHANGED <<venv, launchers, skill, instructed, outside>>

RemoveVenv(v) ==
    /\ ByUser /\ venv[v] = "partial"
    /\ venv' = [venv EXCEPT ![v] = "absent"]
    /\ UNCHANGED <<launchers, docs, skill, instructed, outside>>

\* launch_container.prepare_launch: the installed preflight must find what the
\* report says ...
Preflight(r, h) ==
    /\ launch.stage # "checked" /\ spent.launches < MaxLaunches
    /\ h \in r.providers \ {"claude"}
    /\ venv[r.venv] \in Packages /\ registry[r.profile] = r.decl /\ docs[Owned(h)] # None
    /\ launch' = [stage |-> "checked", report |-> r, provider |-> h, loaded |-> None]
    /\ spent' = [spent EXCEPT !.launches = @ + 1]
    /\ UNCHANGED <<files, outside, op, reports>>

\* ... and the command it names loads the declaration later.
Execute ==
    /\ launch.stage = "checked"
    /\ LET r == launch.report
           name == LauncherName(r.profile, r.decl)
       IN  IF r.portable
           THEN launch' = [launch EXCEPT !.stage = "running", !.loaded = registry[r.profile]]
           ELSE IF name \in DOMAIN launchers[r.venv]
           THEN launch' = [launch EXCEPT !.stage = "running", !.loaded = launchers[r.venv][name]]
           ELSE launch' = NoLaunch
    /\ UNCHANGED <<files, outside, op, reports, spent>>

Step(p) ==
    \/ PrepareVenv(p) \/ CreateVenv(p) \/ InstallRuntime(p) \/ VerifyExisting(p)
    \/ ReadContext(p) \/ VerifyPortable(p) \/ WriteLauncher(p) \/ FindPackage(p)
    \/ \E edit \in op[p].left : ReadDocument(p, edit) \/ VerifyDocument(p, edit)
    \/ Truncate(p) \/ Fill(p) \/ BeginVerify(p)
    \/ ReconcileLock(p) \/ Report(p) \/ Stop(p)
    \/ \E req \in Requests : Begin(p, req)
    \/ \E how \in {"keep", "restore"}, version \in Packages : ApmInstall(p, how, version)

Next ==
    \/ \E p \in Processes : Step(p)
    \/ \E q \in Profiles, decl \in Declarations : EditRegistry(q, decl)
    \/ \E what \in {"credentials", "compounding"} : ChangeReadiness(what)
    \/ \E how \in {"keep", "restore"}, version \in Packages : InstallByOwner(Consumer, how, version)
    \/ \E h \in Sided : RestoreActive(h)
    \/ \E v \in Venvs : RemoveVenv(v)
    \/ \E r \in reports, h \in Consumer : Preflight(r, h)
    \/ Execute

Spec == Init /\ [][Next]_vars

-----------------------------------------------------------------------------
Stages == {"idle", "venv", "create", "install", "installed", "verify-venv", "context", "portable",
           "launcher", "apm", "package", "edit", "truncate", "fill", "verify", "lock", "report"}

\* States have the shape the code gives them; a registration never holds a
\* command of another owner.
SetupTypeOK ==
    /\ venv \in [Venvs -> {"absent", "partial", "bare", "mixed"} \cup Packages]
    /\ registry \in [Profiles -> Declarations]
    /\ skill \in {None} \cup Packages
    /\ \A d \in Documents : Missing(d) \/ docs[d] \in Content(d)
    /\ \A p \in Processes : op[p].stage \in Stages
    /\ launch.stage \in {"idle", "checked", "running"}

OnlyEntry(entries, c, v) ==
    \E i \in DOMAIN entries :
        entries[i] = c /\ \A j \in DOMAIN entries : Recognised(entries[j], v) <=> j = i

\* A run that nobody else disturbed, and that reports its hooks ready, leaves
\* the package, every harness it was asked for and the lock in agreement with
\* each other, whatever runs that were killed or that overlapped left before it:
\* one entry of the package for each event, with the command of this run, and a
\* lock that describes the bytes of the hook file it will be asked to remove.
SoloReady ==
    \A p \in Processes : op[p].outcome = "ready" /\ op[p].alone =>
        /\ \A e \in Events : docs[Package][e] = (IF Req(p).portable THEN Marker ELSE Req(p).venv)
        /\ \A h \in Req(p).targets :
              /\ \A e \in Events : docs[Owned(h)][e] = Command(p, h, e)
              /\ h \in Sided /\ docs[Active(h)] # None => \A e \in Events :
                    OnlyEntry(docs[Active(h)][e], Command(p, h, e), Req(p).venv)
        /\ "copilot" \in Req(p).targets => docs[Lock].hash = docs[Owned("copilot")]

Rebound(p) == Venvs \ {Req(p).venv}
Explained(p) ==
    \/ "copilot" \in Req(p).targets \ LockTargets
    \/ \E d \in {Lock, Package} \cup {Owned(h) : h \in Req(p).targets} : Missing(d)
    \/ \E e \in Events : docs[Package][e] \in Rebound(p)
    \/ \E h \in Req(p).targets, e \in Events : docs[Owned(h)][e].by \in Rebound(p)
    \/ \E h \in Req(p).targets \cap Sided :
          \/ docs[Active(h)] = Torn
          \/ \E e \in Events : \A i \in DOMAIN docs[Active(h)][e] :
                ~Recognised(docs[Active(h)][e][i], Req(p).venv)

\* An undisturbed run is refused at the hooks only for a reason that stands in
\* the consumer: a document that is missing or cut off, an entry that another
\* virtual environment owns, an active document without an entry, or a lock that
\* does not name Copilot although its hook file is there (which runs for other
\* harnesses leave when they overlap).  A kill between two documents, or between
\* two events, is never one.
RefusalExplained ==
    \A p \in Processes :
        op[p].outcome = "refused" /\ op[p].alone
          /\ op[p].at \in {"apm", "package", "edit", "verify", "lock"} => Explained(p)

\* Whatever runs overlap or stop, an active document that can be read at all
\* still has the hooks that the user wrote ("preserves unrelated configuration").
UserHooksKept ==
    \A h \in users : ~Missing(Active(h)) =>
        \A e \in Events : \E i \in DOMAIN docs[Active(h)][e] : docs[Active(h)][e][i] = Foreign

\* A session started through an environment launcher has the declaration that
\* its preflight compared, although runs for other profiles, and for another
\* declaration of the same one, write launchers next to it.
LaunchHonest ==
    launch.stage = "running" /\ ~launch.report.portable => launch.loaded = launch.report.decl

=============================================================================
