--------------------------- MODULE SignalCapture ---------------------------
(***************************************************************************)
(* Publishing an authored signal: record-signal writes a temporary file in *)
(* its bucket, syncs it, links it under a new .md name and confirms the    *)
(* bytes (infrastructure/signals.py capture_signal and _publish,           *)
(* application/signals.py record_signal_result), among other writers of    *)
(* the same directories, I/O failures, killed processes and power loss.    *)
(*                                                                         *)
(* A file is its inode: an index into `file`, never reused.  A directory   *)
(* is an index into `dir`, and 0 stands for "no such entry".  A temporary  *)
(* name is unique to its invocation, so the session stands for it.         *)
(***************************************************************************)
EXTENDS Integers, FiniteSets, Sequences, SequencesExt

CONSTANTS
    Buckets,         \* exact direct buckets: shared, one per project path
    InitialBuckets,  \* those whose directories exist durably at the start
    Names,           \* .md file names
    Sessions,        \* invocations of record-signal, each with its temporary name
    Contents,        \* complete authored bytes
    Partial,         \* bytes of a file that has not been written to its end
    MaxEdits,        \* bound on the steps of other writers
    MaxFaults,       \* bound on I/O failures and killed sessions
    MaxCrashes       \* bound on power losses

ASSUME InboxAssumption ==
    /\ InitialBuckets \subseteq Buckets /\ IsFiniteSet(InitialBuckets)
    /\ MaxEdits \in Nat /\ MaxFaults \in Nat /\ MaxCrashes \in Nat
    /\ Partial \notin Contents
    /\ Names \cap Sessions = {}

VARIABLES
    file,     \* inode -> its bytes, whether they are on disk, and its stamps
    dir,      \* directory -> its entries, the entries on disk, and its stamp
    place,    \* bucket -> the directory its path names
    placed,   \* bucket -> the directory its path names on disk
    stamp,    \* the last time stamp the file system gave
    cap,      \* the state of every session
    edits, faults, crashes

store == <<file, dir, place, placed, stamp>>
counters == <<edits, faults, crashes>>
captureVars == <<store, cap, counters>>

Entries == Names \cup Sessions
Empty == [e \in Entries |-> 0]
Inodes == DOMAIN file

\* An invocation that has not begun, with the name it will draw: a name has a
\* time and a random part, so no two invocations draw the same one.
Idle(b, n, x) == [phase |-> "idle", bucket |-> b, name |-> n, data |-> x, dir |-> 0, owned |-> 0,
                  expected |-> <<0, 0, 0>>, published |-> FALSE, then |-> "running"]

InitStore ==
    LET order == SetToSeq(InitialBuckets) IN
    /\ file = <<>>
    /\ dir = [d \in DOMAIN order |-> [entry |-> Empty, disk |-> Empty, stamp |-> 0]]
    /\ place = [b \in Buckets |-> SelectInSeq(order, LAMBDA o : o = b)]
    /\ placed = place
    /\ stamp = 0

CaptureInit ==
    /\ InitStore
    /\ \E name \in Injection(Sessions, Names), at \in [Sessions -> Buckets], x \in [Sessions -> Contents] :
         cap = [c \in Sessions |-> Idle(at[c], name[c], x[c])]
    /\ edits = 0 /\ faults = 0 /\ crashes = 0

-----------------------------------------------------------------------------
(* The file system. *)

\* What _identity tells of a file: inode, mtime and ctime (a size follows from the bytes).
Identity(i) == <<i, file[i].mtime, file[i].ctime>>
\* The part of it that linking leaves alone: expected[:4].
Unlinked(identity) == SubSeq(identity, 1, 2)

\* The inode a bucket's path and an entry lead to, 0 if there is none.
Lookup(b, e) == IF place[b] = 0 THEN 0 ELSE dir[place[b]].entry[e]

Now == stamp' = stamp + 1

SetEntry(d, e, i) == [dir EXCEPT ![d].entry[e] = i, ![d].stamp = stamp + 1]

NewFile(x, onDisk) ==
    Append(file, [content |-> x, synced |-> onDisk, mtime |-> stamp + 1, ctime |-> stamp + 1])

NewDirectory == Append(dir, [entry |-> Empty, disk |-> Empty, stamp |-> stamp + 1])

-----------------------------------------------------------------------------
(* One invocation of record-signal. *)

Go(c, phase) == cap' = [cap EXCEPT ![c].phase = phase]

\* Mutant: the publication is recorded once it has been verified.
PublishedLate(c) == cap[c].published /\ cap[c].phase \notin {"link", "verify"}

Published(c) == cap[c].published

\* Mutant: an error after the publication is swallowed.
RaiseSwallowed(c) ==
    LET outcome == IF Published(c) THEN "captured" ELSE "failed" IN
    cap' = [cap EXCEPT ![c].phase = IF cap[c].owned = 0 THEN outcome ELSE "clean",
                       ![c].then = outcome]

\* An error: what is already visible is reported as uncertain, and the
\* temporary file this invocation still owns is cleaned first.
Raise(c) ==
    LET outcome == IF Published(c) THEN "uncertain" ELSE "failed" IN
    cap' = [cap EXCEPT ![c].phase = IF cap[c].owned = 0 THEN outcome ELSE "clean",
                       ![c].then = outcome]

\* The authored bytes were validated before any of this.
Begin(c) ==
    /\ cap[c].phase = "idle"
    /\ Go(c, "enter")
    /\ UNCHANGED <<store, counters>>

\* os.mkdir of the bucket; an existing directory is taken as it is.
Enter(c) ==
    LET b == cap[c].bucket IN
    /\ cap[c].phase = "enter"
    /\ \/ /\ place[b] = 0
          /\ dir' = NewDirectory
          /\ place' = [place EXCEPT ![b] = Len(dir')]
          /\ Now /\ Go(c, "parent")
          /\ UNCHANGED <<file, placed>>
       \/ /\ place[b] # 0
          /\ Go(c, "open")
          /\ UNCHANGED store
    /\ UNCHANGED counters

\* os.fsync of the parent that was given a new directory.
SyncParent(c) ==
    /\ cap[c].phase = "parent"
    /\ placed' = [placed EXCEPT ![cap[c].bucket] = place[cap[c].bucket]]
    /\ Go(c, "open")
    /\ UNCHANGED <<file, dir, place, stamp, counters>>

OpenBucket(c) ==
    LET b == cap[c].bucket IN
    /\ cap[c].phase = "open"
    /\ \/ /\ place[b] # 0
          /\ cap' = [cap EXCEPT ![c].phase = "destination", ![c].dir = place[b]]
       \/ place[b] = 0 /\ Raise(c)
    /\ UNCHANGED <<store, counters>>

\* _check_destination: the bucket's path still leads to the pinned directory.
CheckDestination(c, from, to) ==
    /\ cap[c].phase = from
    /\ IF place[cap[c].bucket] = cap[c].dir THEN Go(c, to) ELSE Raise(c)
    /\ UNCHANGED <<store, counters>>

CreateTemporary(c) ==
    LET d == cap[c].dir IN
    /\ cap[c].phase = "create"
    /\ \/ /\ dir[d].entry[c] = 0
          /\ file' = NewFile(Partial, FALSE)
          /\ dir' = SetEntry(d, c, Len(file'))
          /\ cap' = [cap EXCEPT ![c].phase = "write", ![c].owned = Len(file')]
          /\ Now
          /\ UNCHANGED <<place, placed>>
       \/ /\ dir[d].entry[c] # 0
          /\ Raise(c)
          /\ UNCHANGED store
    /\ UNCHANGED counters

\* The last os.write of the loop; a file read before it is Partial.
Write(c) ==
    /\ cap[c].phase = "write"
    /\ file' = [file EXCEPT ![cap[c].owned] =
                   [content |-> cap[c].data, synced |-> FALSE,
                    mtime |-> stamp + 1, ctime |-> stamp + 1]]
    /\ Now /\ Go(c, "sync")
    /\ UNCHANGED <<dir, place, placed, counters>>

\* Mutant: the bytes are never synced.
SyncNever(i) == file
Sync(i) == [file EXCEPT ![i].synced = TRUE]

\* os.fsync, and the identity that the published file must keep.
SyncFile(c) ==
    /\ cap[c].phase = "sync"
    /\ file' = Sync(cap[c].owned)
    /\ cap' = [cap EXCEPT ![c].phase = "recheck", ![c].expected = Identity(cap[c].owned)]
    /\ UNCHANGED <<dir, place, placed, stamp, counters>>

StatTemporary(c) ==
    LET i == dir[cap[c].dir].entry[c] IN
    /\ cap[c].phase = "stat"
    /\ IF i # 0 /\ Identity(i) = cap[c].expected THEN Go(c, "link") ELSE Raise(c)
    /\ UNCHANGED <<store, counters>>

\* Mutant: os.rename, which replaces an existing name.
Linkable(d, n, i) == i # 0
CanLink(d, n, i) == i # 0 /\ dir[d].entry[n] = 0

\* os.link of whatever the temporary name holds by now.
Link(c) ==
    LET d == cap[c].dir
        n == cap[c].name
        i == dir[d].entry[c] IN
    /\ cap[c].phase = "link"
    /\ \/ /\ CanLink(d, n, i)
          /\ dir' = SetEntry(d, n, i)
          /\ file' = [file EXCEPT ![i].ctime = stamp + 1]
          /\ cap' = [cap EXCEPT ![c].phase = "verify", ![c].published = TRUE]
          /\ Now
          /\ UNCHANGED <<place, placed>>
       \/ /\ ~CanLink(d, n, i)
          /\ Raise(c)
          /\ UNCHANGED store
    /\ UNCHANGED counters

Verify(c) ==
    LET i == dir[cap[c].dir].entry[cap[c].name] IN
    /\ cap[c].phase = "verify"
    /\ IF i # 0 /\ Unlinked(Identity(i)) = Unlinked(cap[c].expected)
       THEN Go(c, "clean") ELSE Raise(c)
    /\ UNCHANGED <<store, counters>>

\* After _clean_temporary: back to publishing, or out with the error.
AfterClean(c) ==
    cap' = [cap EXCEPT ![c].owned = 0,
                       ![c].phase = IF cap[c].then = "running" THEN "flush" ELSE cap[c].then]

\* _clean_temporary, its os.stat: only the inode this invocation made.
StatClean(c) ==
    /\ cap[c].phase = "clean"
    /\ IF dir[cap[c].dir].entry[c] = cap[c].owned THEN Go(c, "unlink") ELSE AfterClean(c)
    /\ UNCHANGED <<store, counters>>

\* _clean_temporary, its os.unlink by name.
Unlink(c) ==
    /\ cap[c].phase = "unlink"
    /\ IF dir[cap[c].dir].entry[c] = 0
       THEN UNCHANGED <<dir, stamp>>
       ELSE dir' = SetEntry(cap[c].dir, c, 0) /\ Now
    /\ AfterClean(c)
    /\ UNCHANGED <<file, place, placed, counters>>

\* Mutant: the directory is never synced.
FlushedNever(d) == dir
Flushed(d) == [dir EXCEPT ![d].disk = dir[d].entry]

FlushDirectory(c) ==
    /\ cap[c].phase = "flush"
    /\ dir' = Flushed(cap[c].dir)
    /\ Go(c, "final")
    /\ UNCHANGED <<file, place, placed, stamp, counters>>

Holds(c) ==
    LET i == Lookup(cap[c].bucket, cap[c].name) IN i # 0 /\ file[i].content = cap[c].data

\* record_signal_result reads the stored path back before it reports success.
Confirm(c) ==
    /\ cap[c].phase = "confirm"
    /\ Go(c, IF Holds(c) THEN "captured" ELSE "uncertain")
    /\ UNCHANGED <<store, counters>>

Outcomes == {"captured", "failed", "uncertain", "killed"}
Running(c) == cap[c].phase \notin Outcomes \cup {"idle"}

\* A call of the session fails with OSError.  A failed clean-up of the
\* publishing path is tried once more on the way out, a failed one there is not.
Fault(c) ==
    /\ Running(c)
    /\ faults < MaxFaults /\ faults' = faults + 1
    /\ IF cap[c].phase \in {"clean", "unlink"} /\ cap[c].then # "running"
       THEN Go(c, cap[c].then)
       ELSE Raise(c)
    /\ UNCHANGED <<store, edits, crashes>>

Kill(c) ==
    /\ Running(c)
    /\ faults < MaxFaults /\ faults' = faults + 1
    /\ Go(c, "killed")
    /\ UNCHANGED <<store, edits, crashes>>

Session(c) ==
    \/ Begin(c) \/ Enter(c) \/ SyncParent(c) \/ OpenBucket(c)
    \/ CheckDestination(c, "destination", "create")
    \/ CreateTemporary(c) \/ Write(c) \/ SyncFile(c)
    \/ CheckDestination(c, "recheck", "stat")
    \/ StatTemporary(c) \/ Link(c) \/ Verify(c)
    \/ StatClean(c) \/ Unlink(c) \/ FlushDirectory(c)
    \/ CheckDestination(c, "final", "confirm")
    \/ Confirm(c)
    \/ Fault(c) \/ Kill(c)

-----------------------------------------------------------------------------
(* Everyone else: other writers of the buckets, and power loss. *)

Edit == edits < MaxEdits /\ edits' = edits + 1 /\ UNCHANGED <<cap, faults, crashes>>

\* A file is rewritten in place.
Rewrite(i, x) ==
    /\ Edit
    /\ file' = [file EXCEPT ![i].content = x, ![i].mtime = stamp + 1, ![i].ctime = stamp + 1]
    /\ Now
    /\ UNCHANGED <<dir, place, placed>>

\* A new file is put under a name, in place of the one there, durably.
Put(d, e, x) ==
    /\ Edit
    /\ file' = NewFile(x, TRUE)
    /\ dir' = [SetEntry(d, e, Len(file')) EXCEPT ![d].disk[e] = Len(file')]
    /\ Now
    /\ UNCHANGED <<place, placed>>

\* A file is drained or deleted, durably.
DrainFile(d, e) ==
    /\ Edit
    /\ dir[d].entry[e] # 0
    /\ dir' = [SetEntry(d, e, 0) EXCEPT ![d].disk[e] = 0]
    /\ Now
    /\ UNCHANGED <<file, place, placed>>

\* A bucket is moved away, and replaced by an empty one or not.
MoveBucket(b) ==
    /\ Edit
    /\ place[b] # 0
    /\ \/ dir' = NewDirectory /\ place' = [place EXCEPT ![b] = Len(dir')]
       \/ place' = [place EXCEPT ![b] = 0] /\ UNCHANGED dir
    /\ placed' = [placed EXCEPT ![b] = place'[b]]
    /\ Now
    /\ UNCHANGED file

OtherWriter ==
    \/ \E i \in Inodes, x \in Contents : Rewrite(i, x)
    \/ \E b \in Buckets, e \in Entries :
         place[b] # 0 /\ (DrainFile(place[b], e) \/ \E x \in Contents : Put(place[b], e, x))
    \/ \E b \in Buckets : MoveBucket(b)

\* What was not synced is on disk or not, entry by entry and file by file.
Crash ==
    /\ crashes < MaxCrashes /\ crashes' = crashes + 1
    /\ \E lost \in SUBSET ((DOMAIN dir) \X Entries), torn \in SUBSET Inodes, gone \in SUBSET Buckets :
         /\ \A l \in lost : dir[l[1]].entry[l[2]] # dir[l[1]].disk[l[2]]
         /\ \A i \in torn : ~file[i].synced
         /\ \A b \in gone : place[b] # placed[b]
         /\ dir' = [d \in DOMAIN dir |-> LET now == [e \in Entries |->
                        IF <<d, e>> \in lost THEN dir[d].disk[e] ELSE dir[d].entry[e]]
                    IN [entry |-> now, disk |-> now, stamp |-> stamp + 1]]
         /\ file' = [i \in Inodes |->
                        [file[i] EXCEPT !.content = IF i \in torn THEN Partial ELSE @,
                                        !.synced = TRUE]]
         /\ place' = [b \in Buckets |-> IF b \in gone THEN placed[b] ELSE place[b]]
    /\ placed' = place'
    /\ cap' = [c \in Sessions |-> IF Running(c) THEN [cap[c] EXCEPT !.phase = "killed"] ELSE cap[c]]
    /\ Now
    /\ UNCHANGED <<edits, faults>>

CaptureNext == (\E c \in Sessions : Session(c)) \/ OtherWriter \/ Crash

CaptureSpec == CaptureInit /\ [][CaptureNext]_captureVars

-----------------------------------------------------------------------------
(* Properties. *)

Phases == {"idle", "enter", "parent", "open", "destination", "create", "write", "sync",
           "recheck", "stat", "link", "verify", "clean", "unlink", "flush", "final",
           "confirm"} \cup Outcomes

\* Entries lead to files, paths lead to directories, and a session that is
\* past an opening holds what it opened.
CaptureTypeOK ==
    /\ file \in Seq([content : Contents \cup {Partial}, synced : BOOLEAN, mtime : Nat, ctime : Nat])
    /\ dir \in Seq([entry : [Entries -> 0..Len(file)], disk : [Entries -> 0..Len(file)], stamp : Nat])
    /\ place \in [Buckets -> 0..Len(dir)] /\ placed \in [Buckets -> 0..Len(dir)]
    /\ stamp \in Nat /\ edits \in 0..MaxEdits /\ faults \in 0..MaxFaults /\ crashes \in 0..MaxCrashes
    /\ cap \in [Sessions -> [phase : Phases, bucket : Buckets, name : Names,
                             data : Contents, dir : 0..Len(dir),
                             owned : 0..Len(file), expected : [1..3 -> Nat],
                             published : BOOLEAN, then : {"running", "failed", "uncertain"}]]

\* No reader of a bucket ever finds a .md file with less than the whole bytes
\* in it, not even after a power loss: complete bytes are synced before the link.
VisibleComplete ==
    \A d \in DOMAIN dir, n \in Names :
        dir[d].entry[n] # 0 => file[dir[d].entry[n]].content # Partial

\* A capture that reports failure, and not uncertainty, has left nothing of
\* its own to be read: recording the signal again does not duplicate it.
FailedUnpublished ==
    \A c \in Sessions : cap[c].phase = "failed" =>
        \A d \in DOMAIN dir, n \in Names :
            dir[d].entry[n] # 0 => Unlinked(Identity(dir[d].entry[n])) # Unlinked(cap[c].expected)

\* No step of a capture removes, replaces or alters a file that already has a
\* .md name, its own or anybody else's.
NothingOverwritten ==
    [][edits' = edits /\ crashes' = crashes =>
        \A d \in DOMAIN dir, n \in Names : LET i == dir[d].entry[n] IN
            i # 0 => dir'[d].entry[n] = i /\ file'[i].content = file[i].content]_captureVars

Lasts(c) == cap[c].phase = "captured" /\ Holds(c) => Holds(c)'

\* A capture that was reported as a success lasts until somebody else changes
\* the file, through every failure, kill and power loss, if the bucket's own
\* directory was on disk: the bytes are synced before the link, and the link
\* before the answer.  The condition is needed: a capture that finds the
\* bucket made by another one does not sync its parent.
SurvivesInDurableBucket ==
    [][edits' = edits => \A c \in Sessions :
        placed[cap[c].bucket] = place[cap[c].bucket] => Lasts(c)]_captureVars
=============================================================================
