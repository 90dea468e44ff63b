------------------------- MODULE SessionEnvironment -------------------------
(***************************************************************************)
(* Activation of a profile's credentials in a Claude session: the session  *)
(* start hook resolves a declaration, pins the session to the first one it *)
(* ever resolved, reads the declared values and appends their exports to   *)
(* the file that Claude names (_activate_claude_environment,               *)
(* infrastructure/environment.py).                                         *)
(*                                                                         *)
(* Nothing is locked.  The hook runs again when a session is resumed or    *)
(* compacted, and may run twice at once; other hooks append to the same    *)
(* file; the profile registry and the credential files are edited; a write *)
(* may fail or come short, and the process may be killed at any step.      *)
(***************************************************************************)
EXTENDS Integers, Sequences, FiniteSets

CONSTANTS
    Processes,      \* hooks that may be running at the same time
    Sessions,
    Declarations,   \* a declaration names a credential file and its variables
    None,
    MaxRuns,        \* bound: activations
    MaxEdits,       \* bound: edits of the registry and of credential files
    MaxForeign,     \* bound: exports that other hooks append
    MaxFaults       \* bound: failed system calls and kills

ASSUME SessionAssumption ==
    /\ MaxRuns \in Nat /\ MaxEdits \in Nat /\ MaxForeign \in Nat /\ MaxFaults \in Nat
    /\ None \notin Declarations /\ None \notin [decl: Declarations, stamp: {0, 1}]

VARIABLES
    registry,   \* what the profile declares, or None
    creds,      \* for each declaration, whether its values can be read, and a change stamp
    pin,        \* for each session, its pin with a change stamp, or None
    channel,    \* for each session, the pieces in CLAUDE_ENV_FILE and a change stamp
    op,         \* the activations
    spent

vars == <<registry, creds, pin, channel, op, spent>>

\* Pieces of the file: the two halves of an activation's exports, the exports of
\* another hook, and the zeros that extending a file leaves.
Half(d, n) == [kind |-> "half", decl |-> d, half |-> n]
Other == [kind |-> "other", decl |-> None, half |-> 0]
Zeros == [kind |-> "zeros", decl |-> None, half |-> 0]
Pieces == {Other, Zeros} \cup {Half(d, n) : d \in Declarations, n \in {1, 2}}

Stages == {"idle", "peek", "peeked", "resolve", "pin", "publish", "unlink", "reread", "bind",
           "channel", "values", "valued", "open", "opened", "write", "rest", "sync", "compare", "rollback"}
Outcomes == {"none", "ok", "failed", "stuck"}
\* CLAUDE_ENV_FILE: not set, or not an absolute path; not a regular file of the
\* user's own that nobody else may read; or such a file.
Files == {"unset", "unsafe", "private"}

Idle == [stage |-> "idle", session |-> None, decl |-> None, stamp |-> 0, size |-> 0,
         file |-> "private", before |-> <<>>, alone |-> FALSE, hit |-> FALSE, outcome |-> "none"]

Init ==
    /\ registry \in Declarations
    /\ creds \in [Declarations -> [readable: BOOLEAN, stamp: {0}]]
    /\ pin = [s \in Sessions |-> None]
    /\ channel = [s \in Sessions |-> [pieces |-> <<>>, stamp |-> 0]]
    /\ op = [p \in Processes |-> Idle]
    /\ spent = [runs |-> 0, edits |-> 0, foreign |-> 0, faults |-> 0]

At(p, stage) == op[p].stage = stage
Goto(p, stage) == op' = [op EXCEPT ![p].stage = stage]
End(p, outcome) ==
    op' = [op EXCEPT ![p] = IF ~@.alone \/ outcome = "none" THEN Idle
                            ELSE [@ EXCEPT !.stage = "idle", !.outcome = outcome]]
Session(p) == op[p].session
Pin(p) == pin[Session(p)]
Channel(p) == channel[Session(p)]

\* A pin as its publisher links it.
Pinned(d) == [decl |-> d, stamp |-> 0]
\* The credential file has a value for each variable that is declared.
Readable(p) == creds[op[p].decl].readable

\* Someone else acts on the session or on credentials: what is running is no
\* longer alone, and what has ended is of no more use.
Disturbed(o) ==
    [p \in Processes |-> IF o[p].stage = "idle" THEN Idle ELSE [o[p] EXCEPT !.alone = FALSE]]

-----------------------------------------------------------------------------
\* A hook names a profile, or carries the declaration that setup wrote into it.
Activate(p, s, given) ==
    /\ At(p, "idle") /\ spent.runs < MaxRuns
    /\ spent' = [spent EXCEPT !.runs = @ + 1]
    /\ op' = [Disturbed(op) EXCEPT ![p] =
                [Idle EXCEPT !.stage = IF given = None THEN "peek" ELSE "pin",
                             !.session = s, !.decl = given, !.before = channel[s].pieces,
                             !.alone = \A q \in Processes : At(q, "idle")]]
    /\ UNCHANGED <<registry, creds, pin, channel>>

\* pinned_session_environment: an existing pin goes before the registry.
Peek(p) ==
    /\ At(p, "peek")
    /\ IF Pin(p) = None THEN Goto(p, "resolve")
       ELSE op' = [op EXCEPT ![p].stage = "peeked", ![p].stamp = Pin(p).stamp]
    /\ UNCHANGED <<registry, creds, pin, channel, spent>>

\* _read_session_pin compares the file after reading it with what it opened.
Same(p) == Pin(p).stamp = op[p].stamp

Peeked(p) ==
    /\ At(p, "peeked")
    /\ IF Same(p) THEN op' = [op EXCEPT ![p].stage = "pin", ![p].decl = Pin(p).decl]
       ELSE End(p, "failed")
    /\ UNCHANGED <<registry, creds, pin, channel, spent>>

Resolve(p) ==
    /\ At(p, "resolve")
    /\ IF registry = None THEN End(p, "none")
       ELSE op' = [op EXCEPT ![p].stage = "pin", ![p].decl = registry]
    /\ UNCHANGED <<registry, creds, pin, channel, spent>>

CheckPin(p) ==
    /\ At(p, "pin")
    /\ Goto(p, IF Pin(p) = None THEN "publish" ELSE "reread")
    /\ UNCHANGED <<registry, creds, pin, channel, spent>>

\* Mutant: the profile is resolved again for the pin.
PublishRegistry(p) ==
    /\ At(p, "publish")
    /\ IF Pin(p) = None
       THEN /\ pin' = [pin EXCEPT ![Session(p)] = [decl |-> registry, stamp |-> 0]]
            /\ Goto(p, "unlink")
       ELSE UNCHANGED pin /\ Goto(p, "reread")
    /\ UNCHANGED <<registry, creds, channel, spent>>

\* _publish_session_pin: a complete temporary file is linked under the name of the
\* pin, unless there is one by now, and its own name is removed; both change the
\* inode.
Publish(p) ==
    /\ At(p, "publish")
    /\ IF Pin(p) = None
       THEN /\ pin' = [pin EXCEPT ![Session(p)] = Pinned(op[p].decl)]
            /\ Goto(p, "unlink")
       ELSE UNCHANGED pin /\ Goto(p, "reread")
    /\ UNCHANGED <<registry, creds, channel, spent>>

\* Mutant: the pin is opened before the temporary name is removed.
UnlinkTemporaryLate(p) ==
    /\ At(p, "unlink")
    /\ pin' = [pin EXCEPT ![Session(p)].stamp = @ + 1]
    /\ op' = [op EXCEPT ![p].stage = "bind", ![p].stamp = Pin(p).stamp]
    /\ UNCHANGED <<registry, creds, channel, spent>>

UnlinkTemporary(p) ==
    /\ At(p, "unlink")
    /\ pin' = [pin EXCEPT ![Session(p)].stamp = @ + 1]
    /\ Goto(p, "reread")
    /\ UNCHANGED <<registry, creds, channel, spent>>

ReadPin(p) ==
    /\ At(p, "reread")
    /\ op' = [op EXCEPT ![p].stage = "bind", ![p].stamp = Pin(p).stamp]
    /\ UNCHANGED <<registry, creds, pin, channel, spent>>

\* Mutant: what was resolved is used, and not what the session is pinned to.
BindResolved(p) ==
    /\ At(p, "bind")
    /\ IF Same(p) THEN Goto(p, "channel") ELSE End(p, "failed")
    /\ UNCHANGED <<registry, creds, pin, channel, spent>>

Bind(p) ==
    /\ At(p, "bind")
    /\ IF Same(p) THEN op' = [op EXCEPT ![p].stage = "channel", ![p].decl = Pin(p).decl]
       ELSE End(p, "failed")
    /\ UNCHANGED <<registry, creds, pin, channel, spent>>

\* _activate_claude_environment, once the session is pinned: where the exports go.
NameChannel(p, file) ==
    /\ At(p, "channel")
    /\ op' = [op EXCEPT ![p].stage = "values", ![p].file = file]
    /\ UNCHANGED <<registry, creds, pin, channel, spent>>

\* If that is nowhere the activation fails; else mapped_environment_values reads the
\* credential file and compares it again.
ReadValues(p) ==
    /\ At(p, "values")
    /\ IF op[p].file # "unset" /\ Readable(p)
       THEN op' = [op EXCEPT ![p].stage = "valued", ![p].stamp = creds[op[p].decl].stamp]
       ELSE End(p, "failed")
    /\ UNCHANGED <<registry, creds, pin, channel, spent>>

CompareValues(p) ==
    /\ At(p, "valued")
    /\ IF creds[op[p].decl].stamp = op[p].stamp THEN Goto(p, "open") ELSE End(p, "failed")
    /\ UNCHANGED <<registry, creds, pin, channel, spent>>

-----------------------------------------------------------------------------
\* append_claude_environment: the file is opened for appending and compared with
\* what its name leads to, before and after the write.
Open(p) ==
    /\ At(p, "open")
    /\ op' = [op EXCEPT ![p].stage = "opened", ![p].stamp = Channel(p).stamp,
                        ![p].size = Len(Channel(p).pieces)]
    /\ UNCHANGED <<registry, creds, pin, channel, spent>>

CompareOpened(p) ==
    /\ At(p, "opened")
    /\ IF op[p].file = "private" /\ Channel(p).stamp = op[p].stamp
       THEN Goto(p, "write") ELSE End(p, "failed")
    /\ UNCHANGED <<registry, creds, pin, channel, spent>>

Put(s, pieces) == channel' = [channel EXCEPT ![s] = [pieces |-> pieces, stamp |-> @.stamp + 1]]

\* _write_all goes on after a short write.
WriteExports(p) ==
    /\ op[p].stage \in {"write", "rest"}
    /\ Put(Session(p), Channel(p).pieces \o
              (IF At(p, "write") THEN <<Half(op[p].decl, 1)>> ELSE <<>>) \o <<Half(op[p].decl, 2)>>)
    /\ Goto(p, "sync")
    /\ UNCHANGED <<registry, creds, pin, spent>>

ShortWrite(p) ==
    /\ At(p, "write")
    /\ Put(Session(p), Append(Channel(p).pieces, Half(op[p].decl, 1)))
    /\ Goto(p, "rest")
    /\ UNCHANGED <<registry, creds, pin, spent>>

Sync(p) ==
    /\ At(p, "sync")
    /\ op' = [op EXCEPT ![p].stage = "compare", ![p].stamp = Channel(p).stamp]
    /\ UNCHANGED <<registry, creds, pin, channel, spent>>

CompareWritten(p) ==
    /\ At(p, "compare")
    /\ IF Channel(p).stamp = op[p].stamp THEN End(p, "ok") ELSE Goto(p, "rollback")
    /\ UNCHANGED <<registry, creds, pin, channel, spent>>

\* ftruncate to the size that was found when the file was opened.
Rollback(p) ==
    /\ At(p, "rollback")
    /\ LET now == Channel(p).pieces
           size == op[p].size
       IN  Put(Session(p), IF size <= Len(now) THEN SubSeq(now, 1, size)
                           ELSE now \o [i \in 1..(size - Len(now)) |-> Zeros])
    /\ End(p, "failed")
    /\ UNCHANGED <<registry, creds, pin, spent>>

\* A failed system call; the failure of the roll-back itself is ignored.
Fault(p) ==
    /\ ~At(p, "idle") /\ spent.faults < MaxFaults
    /\ spent' = [spent EXCEPT !.faults = @ + 1]
    /\ CASE op[p].stage \in {"write", "rest", "sync", "compare"} ->
                op' = [op EXCEPT ![p].stage = "rollback", ![p].hit = TRUE]
         [] At(p, "rollback") -> End(p, "stuck")
         [] OTHER -> op' = [op EXCEPT ![p] = Idle]
    /\ UNCHANGED <<registry, creds, pin, channel>>

Kill(p) ==
    /\ ~At(p, "idle") /\ spent.faults < MaxFaults
    /\ spent' = [spent EXCEPT !.faults = @ + 1]
    /\ op' = [op EXCEPT ![p] = Idle]
    /\ UNCHANGED <<registry, creds, pin, channel>>

-----------------------------------------------------------------------------
EditRegistry(d) ==
    /\ spent.edits < MaxEdits /\ d # registry
    /\ spent' = [spent EXCEPT !.edits = @ + 1]
    /\ registry' = d
    /\ UNCHANGED <<creds, pin, channel, op>>

EditCredentials(d, readable) ==
    /\ spent.edits < MaxEdits
    /\ spent' = [spent EXCEPT !.edits = @ + 1]
    /\ creds' = [creds EXCEPT ![d] = [readable |-> readable, stamp |-> @.stamp + 1]]
    /\ op' = Disturbed(op)
    /\ UNCHANGED <<registry, pin, channel>>

\* Another hook of the session exports something of its own.
AppendOther(s) ==
    /\ spent.foreign < MaxForeign
    /\ spent' = [spent EXCEPT !.foreign = @ + 1]
    /\ Put(s, Append(channel[s].pieces, Other))
    /\ op' = Disturbed(op)
    /\ UNCHANGED <<registry, creds, pin>>

Step(p) ==
    \/ Peek(p) \/ Peeked(p) \/ Resolve(p) \/ CheckPin(p) \/ Publish(p) \/ UnlinkTemporary(p)
    \/ ReadPin(p) \/ Bind(p) \/ ReadValues(p) \/ CompareValues(p) \/ Open(p) \/ CompareOpened(p)
    \/ WriteExports(p) \/ ShortWrite(p) \/ Sync(p) \/ CompareWritten(p) \/ Rollback(p)
    \/ Fault(p) \/ Kill(p) \/ \E file \in Files : NameChannel(p, file)

Next ==
    \/ \E p \in Processes :
           \/ Step(p)
           \/ \E s \in Sessions, given \in Declarations \cup {None} : Activate(p, s, given)
    \/ \E d \in Declarations \cup {None} : EditRegistry(d)
    \/ \E d \in Declarations, readable \in BOOLEAN : EditCredentials(d, readable)
    \/ \E s \in Sessions : AppendOther(s)

Spec == Init /\ [][Next]_vars

-----------------------------------------------------------------------------
\* States have the shape the code gives them.
SessionTypeOK ==
    /\ registry \in Declarations \cup {None}
    /\ creds \in [Declarations -> [readable: BOOLEAN, stamp: Nat]]
    /\ \A s \in Sessions :
          /\ pin[s] # None => pin[s] \in [decl: Declarations, stamp: {0, 1}]
          /\ channel[s].stamp \in Nat
          /\ \A i \in DOMAIN channel[s].pieces : channel[s].pieces[i] \in Pieces
    /\ \A p \in Processes : op[p].stage \in Stages /\ op[p].outcome \in Outcomes

\* Whatever activations of a session overlap, fail or are killed, and however
\* the registry and the hooks are changed in between, the session only ever has
\* exports of one declaration, the one it is pinned to ("Bind a Claude session
\* to its first value-free environment declaration").
OneDeclaration ==
    \A s \in Sessions : \A i \in DOMAIN channel[s].pieces :
        channel[s].pieces[i].kind = "half" =>
            pin[s] # None /\ channel[s].pieces[i].decl = pin[s].decl

\* An activation that nobody disturbed is all or nothing, after short writes too:
\* its exports are complete at the end of the file when it succeeds, and the file
\* is what it was when it fails.  It fails only when a system call failed, the
\* values cannot be read or Claude names no private file of the user's: the traces of
\* earlier activations, killed between the link of the pin and the removal of its
\* temporary name as well, are no reason.
Settled(p) == At(p, "idle") /\ op[p].alone
Exports(d) == <<Half(d, 1), Half(d, 2)>>
ActivationSettled ==
    \A p \in Processes : Settled(p) =>
        /\ op[p].outcome = "ok" => Channel(p).pieces = op[p].before \o Exports(op[p].decl)
        /\ op[p].outcome = "failed" =>
              /\ Channel(p).pieces = op[p].before
              /\ op[p].hit \/ ~creds[op[p].decl].readable \/ op[p].file # "private"
=============================================================================
