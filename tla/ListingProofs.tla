--------------------------- MODULE ListingProofs ----------------------------
(***************************************************************************)
(* Theorems about SignalCapture and SignalListing.  The first rest on one  *)
(* inductive invariant: a .md name leads, now and on disk, only to whole   *)
(* and synced files; what a session has made is under its temporary name   *)
(* alone until it is linked; and a name's entry is on disk as it is seen   *)
(* unless its link was made and not synced yet.  The second rest on time   *)
(* stamps: whatever changes in the inbox gets a later stamp than any that  *)
(* a pass has taken, so what is found as it was noted has not changed in   *)
(* between, and two passes with one result enclose a time at which nothing *)
(* changed.                                                                *)
(***************************************************************************)
EXTENDS SignalListing, FiniteSetTheorems, NaturalsInduction, WellFoundedInduction,
        SequenceTheorems, TLAPS

-----------------------------------------------------------------------------
(* The parts of the inductive invariant. *)

Files == [content : Contents \cup {Partial}, synced : BOOLEAN, mtime : Nat, ctime : Nat]
Directories == [entry : [Entries -> 0..Len(file)], disk : [Entries -> 0..Len(file)], stamp : Nat]
Calls == [phase : Phases, bucket : Buckets, name : Names, data : Contents, dir : 0..Len(dir),
          owned : 0..Len(file), expected : [1..3 -> Nat], published : BOOLEAN,
          then : {"running", "failed", "uncertain"}]

\* An entry leads to a file in some directory, now or after a power loss.
LeadsTo(e, i) ==
    i # 0 /\ \E d \in DOMAIN dir : dir[d].entry[e] = i \/ dir[d].disk[e] = i

\* Complete bytes that no power loss takes away.
Whole(i) == file[i].content # Partial /\ file[i].synced

NamesWhole == \A n \in Names, i \in Inodes : LeadsTo(n, i) => Whole(i)

NamesDistinct == \A c, q \in Sessions : cap[c].name = cap[q].name => c = q

\* What a session takes for granted: a directory once it has opened its bucket,
\* a file while it writes one, and that nothing is published before the link.
Filling == {"write", "sync"}
Before == {"idle", "enter", "parent", "open", "destination", "create"}
Linking == {"recheck", "stat", "link"}
Inside == {"destination", "create", "verify", "clean", "unlink", "flush", "final"} \cup Filling \cup Linking

Holding(c) ==
    /\ cap[c].expected[1] <= Len(file)
    /\ cap[c].phase \in Filling => cap[c].owned # 0
    /\ cap[c].phase \in Inside \/ cap[c].owned # 0 => cap[c].dir # 0
    /\ cap[c].phase \in Before \cup Filling \cup Linking \cup {"failed"} => ~cap[c].published
    /\ cap[c].phase \in Before \cup Filling \cup Linking => cap[c].then = "running"
    /\ cap[c].then = "failed" => ~cap[c].published

\* The temporary name leads to nothing torn by the time that it is linked.
TemporaryWhole(c) ==
    /\ cap[c].phase \in Before \cup Linking => \A i \in Inodes : LeadsTo(c, i) => Whole(i)
    /\ cap[c].phase \in Filling =>
           \A i \in Inodes : LeadsTo(c, i) => i = cap[c].owned \/ Whole(i)
    /\ cap[c].phase = "sync" => file[cap[c].owned].content # Partial

\* A file that a session made is under no other name than its temporary one
\* until the session has linked it.
Private(c) ==
    ~cap[c].published =>
        \A e \in Entries, i \in {cap[c].owned, cap[c].expected[1]} : LeadsTo(e, i) => e = c

\* Its .md name is on disk as it is seen, unless its link was made and not synced.
LinkDurable(c) ==
    \A d \in DOMAIN dir :
        (d # cap[c].dir \/ ~cap[c].published \/ cap[c].phase \in {"final", "confirm", "captured"})
            => dir[d].disk[cap[c].name] = dir[d].entry[cap[c].name]

Sound(c) == Holding(c) /\ TemporaryWhole(c) /\ Private(c) /\ LinkDurable(c)

CaptureInv ==
    /\ CaptureTypeOK
    /\ NamesWhole
    /\ NamesDistinct
    /\ \A c \in Sessions : Sound(c)

-----------------------------------------------------------------------------
(* Types. *)

\* What a well-typed state says of one file, one directory and one session.
LEMMA Parts ==
    ASSUME CaptureTypeOK
    PROVE  /\ file \in Seq(Files) /\ Len(file) \in Nat /\ Inodes = 1..Len(file)
           /\ dir \in Seq(Directories) /\ Len(dir) \in Nat /\ DOMAIN dir = 1..Len(dir)
           /\ cap \in [Sessions -> Calls]
           /\ stamp \in Nat
           /\ \A i \in Inodes : file[i] \in Files
           /\ \A d \in DOMAIN dir : dir[d] \in Directories
           /\ \A c \in Sessions : cap[c] \in Calls
  <1>1. /\ file \in Seq(Files) /\ dir \in Seq(Directories) /\ cap \in [Sessions -> Calls]
        /\ stamp \in Nat
    BY DEF CaptureTypeOK, Files, Directories, Calls
  <1>2. /\ Len(file) \in Nat /\ Inodes = 1..Len(file)
        /\ \A i \in 1..Len(file) : file[i] \in Files
    BY <1>1 DEF Inodes
  <1>3. Len(dir) \in Nat /\ DOMAIN dir = 1..Len(dir)
    BY <1>1
  <1>4. \A d \in 1..Len(dir) : dir[d] \in Directories
    BY <1>1
  <1> QED BY <1>1, <1>2, <1>3, <1>4

\* An entry leads to files only.
LEMMA LeadsToFiles ==
    ASSUME CaptureTypeOK, NEW e \in Entries, NEW i, LeadsTo(e, i)
    PROVE  i \in Inodes
  <1>1. PICK d \in DOMAIN dir : dir[d].entry[e] = i \/ dir[d].disk[e] = i
    BY DEF LeadsTo
  <1>2. dir[d] \in Directories
    BY <1>1, Parts
  <1>3. dir[d].entry[e] \in 0..Len(file) /\ dir[d].disk[e] \in 0..Len(file)
    BY <1>2 DEF Directories
  <1>4. i # 0
    BY DEF LeadsTo
  <1> QED BY <1>1, <1>3, <1>4, Parts

\* Sessions and files of a smaller store are those of a larger one.
LEMMA Larger ==
    ASSUME CaptureTypeOK, Len(file)' \in Nat, Len(file) <= Len(file)',
           Len(dir)' \in Nat, Len(dir) <= Len(dir)'
    PROVE  /\ Calls \subseteq Calls'
           /\ Directories \subseteq Directories'
  <1>1. 0..Len(file) \subseteq (0..Len(file))' /\ 0..Len(dir) \subseteq (0..Len(dir))'
    BY Parts
  <1>2. ASSUME NEW r \in Calls PROVE r \in Calls'
    BY <1>1 DEF Calls
  <1>3. ASSUME NEW r \in Directories PROVE r \in Directories'
    <2>1. /\ r.entry \in [Entries -> 0..Len(file)] /\ r.disk \in [Entries -> 0..Len(file)]
          /\ r.stamp \in Nat
          /\ r = [entry |-> r.entry, disk |-> r.disk, stamp |-> r.stamp]
      BY DEF Directories
    <2>2. r.entry \in [Entries -> 0..Len(file)'] /\ r.disk \in [Entries -> 0..Len(file)']
      BY <1>1, <2>1
    <2> QED BY <2>1, <2>2 DEF Directories, Entries
  <1> QED BY <1>2, <1>3

-----------------------------------------------------------------------------
(* What keeps the invariant. *)

\* A step that is not this session's: it may end it, and leaves the entry of its
\* .md name as it is, or the same on disk.
Bystander(c) ==
    /\ cap'[c] = cap[c] \/ cap'[c] = [cap[c] EXCEPT !.phase = "killed"]
    /\ cap'[c].phase = "sync" => file'[cap[c].owned].content # Partial
    /\ \A d \in DOMAIN dir' :
           \/ dir'[d].disk[cap[c].name] = dir'[d].entry[cap[c].name]
           \/ /\ d \in DOMAIN dir
              /\ dir'[d].disk[cap[c].name] = dir[d].disk[cap[c].name]
              /\ dir'[d].entry[cap[c].name] = dir[d].entry[cap[c].name]

\* A session keeps what it takes for granted through a step of somebody else, or
\* its own end, as long as its names lead to no torn file, and its file to no name.
LEMMA Undisturbed ==
    ASSUME CaptureInv, NEW c \in Sessions, Bystander(c),
           Len(file)' \in Nat, Len(file) <= Len(file)', Inodes' = 1..Len(file)',
           \A i \in Inodes' : LeadsTo(c, i)' /\ i # cap[c].owned =>
               Whole(i)' \/ (i \in Inodes /\ LeadsTo(c, i) /\ ~Whole(i)),
           \A i \in Inodes' : LeadsTo(c, i)' /\ cap[c].phase \in Before \cup Linking =>
               Whole(i)' \/ (i \in Inodes /\ LeadsTo(c, i) /\ ~Whole(i)),
           \A e \in Entries, i \in {cap[c].owned, cap[c].expected[1]} :
               LeadsTo(e, i)' => LeadsTo(e, i) \/ cap[c].published
    PROVE  Sound(c)'
  <1>1. /\ cap[c] \in Calls /\ Sound(c) /\ Len(file) \in Nat
        /\ cap'[c].phase = cap[c].phase \/ cap'[c].phase = "killed"
        /\ cap'[c].owned = cap[c].owned /\ cap'[c].expected = cap[c].expected
        /\ cap'[c].dir = cap[c].dir /\ cap'[c].name = cap[c].name
        /\ cap'[c].published = cap[c].published /\ cap'[c].then = cap[c].then
    BY Parts DEF CaptureInv, Calls, Bystander
  <1>2. "killed" \notin Before \cup Filling \cup Linking \cup Inside \cup {"failed", "final", "confirm", "captured", "sync"}
    BY DEF Before, Filling, Linking, Inside
  <1>3. cap[c].expected[1] \in Nat
    BY <1>1 DEF Calls
  <1>4. Holding(c)'
    BY <1>1, <1>2, <1>3 DEF Holding, Sound
  <1>5. TemporaryWhole(c)'
    <2>1. cap'[c].phase \in Before \cup Linking =>
              \A i \in Inodes' : LeadsTo(c, i)' => Whole(i)'
      BY <1>1, <1>2 DEF Sound, TemporaryWhole
    <2>2. cap'[c].phase \in Filling =>
              \A i \in Inodes' : LeadsTo(c, i)' => i = cap'[c].owned \/ Whole(i)'
      BY <1>1, <1>2 DEF Sound, TemporaryWhole
    <2>3. cap'[c].phase = "sync" => file'[cap'[c].owned].content # Partial
      BY <1>1 DEF Bystander
    <2> QED BY <2>1, <2>2, <2>3 DEF TemporaryWhole
  <1>6. Private(c)'
    BY <1>1 DEF Private, Sound
  <1>7. LinkDurable(c)'
    BY <1>1, <1>2 DEF LinkDurable, Sound, Bystander
  <1> QED BY <1>4, <1>5, <1>6, <1>7 DEF Sound

\* The counters of the environment stay in their bounds.
CountersOK == edits \in 0..MaxEdits /\ faults \in 0..MaxFaults /\ crashes \in 0..MaxCrashes

\* Without a change of the store, what it is made of is as it was.
LEMMA StoreSame ==
    ASSUME CaptureInv, UNCHANGED store
    PROVE  /\ file' = file /\ dir' = dir /\ place' = place /\ stamp' = stamp
           /\ placed' \in [Buckets -> 0..Len(dir)]
  BY DEF store, CaptureInv, CaptureTypeOK

\* One session moves on, and nothing that others see changes.
LEMMA CallStep ==
    ASSUME CaptureInv, NEW c \in Sessions, CountersOK',
           file' = file, dir' = dir, place' = place, stamp' = stamp,
           placed' \in [Buckets -> 0..Len(dir)],
           cap' \in [Sessions -> Calls], \A q \in Sessions \ {c} : cap'[q] = cap[q],
           cap'[c].name = cap[c].name, Sound(c)'
    PROVE  CaptureInv'
  <1>1. file' = file /\ dir' = dir /\ place' = place /\ stamp' = stamp
    OBVIOUS
  <1>2. \A e, i : LeadsTo(e, i)' = LeadsTo(e, i) /\ Whole(i)' = Whole(i)
    BY <1>1 DEF LeadsTo, Whole
  <1>3. Inodes' = Inodes
    BY <1>1 DEF Inodes
  <1>4. CaptureTypeOK'
    BY <1>1 DEF CaptureInv, CaptureTypeOK, Calls, CountersOK
  <1>5. NamesWhole' /\ NamesDistinct'
    BY <1>2, <1>3 DEF CaptureInv, NamesWhole, NamesDistinct
  <1>6. ASSUME NEW q \in Sessions \ {c} PROVE Sound(q)'
    <2>1. cap'[q] = cap[q] /\ Sound(q)
      BY DEF CaptureInv
    <2> QED BY <1>1, <1>2, <1>3, <2>1 DEF Sound, Holding, TemporaryWhole, Private, LinkDurable
  <1> QED BY <1>4, <1>5, <1>6 DEF CaptureInv

\* A session goes to its next call.
LEMMA GoneOn ==
    ASSUME CaptureInv, NEW c \in Sessions, NEW phase \in Phases, Go(c, phase),
           file' = file, dir' = dir, place' = place, stamp' = stamp,
           placed' \in [Buckets -> 0..Len(dir)], CountersOK',
           phase \notin Filling,
           phase \in Inside => cap[c].phase \in Inside \/ cap[c].dir # 0,
           phase \in Before \cup Linking => cap[c].phase \in Before \cup Linking,
           phase = "failed" => ~cap[c].published,
           phase \in {"final", "confirm", "captured"} => cap[c].phase \in {"final", "confirm"}
    PROVE  CaptureInv'
  <1>1. /\ cap \in [Sessions -> Calls] /\ cap[c] \in Calls /\ Sound(c)
        /\ cap' = [cap EXCEPT ![c] = [cap[c] EXCEPT !.phase = phase]]
    BY Parts DEF CaptureInv, Go
  <1>2. /\ cap'[c].phase = phase /\ cap'[c] \in Calls /\ cap'[c].owned = cap[c].owned
        /\ cap'[c].expected = cap[c].expected /\ cap'[c].dir = cap[c].dir
        /\ cap'[c].name = cap[c].name /\ cap'[c].published = cap[c].published
        /\ cap'[c].then = cap[c].then
    BY <1>1 DEF Calls
  <1>3. cap' \in [Sessions -> Calls] /\ \A q \in Sessions \ {c} : cap'[q] = cap[q]
    BY <1>1, <1>2
  <1>4. file' = file /\ dir' = dir
    OBVIOUS
  <1>5. \A e, i : LeadsTo(e, i)' = LeadsTo(e, i) /\ Whole(i)' = Whole(i)
    BY <1>4 DEF LeadsTo, Whole
  <1>6. Inodes' = Inodes
    BY <1>4 DEF Inodes
  <1>7. Holding(c)'
    BY <1>1, <1>2, <1>4 DEF Sound, Holding
  <1>8. TemporaryWhole(c)'
    BY <1>1, <1>2, <1>5, <1>6 DEF Sound, TemporaryWhole, Filling
  <1>9. Private(c)' /\ LinkDurable(c)'
    BY <1>1, <1>2, <1>4, <1>5 DEF Sound, Private, LinkDurable
  <1> QED BY <1>2, <1>3, <1>7, <1>8, <1>9, CallStep DEF Sound

\* An error leaves a session with what it has, and on its way out.
LEMMA Raised ==
    ASSUME CaptureInv, NEW c \in Sessions, Raise(c), UNCHANGED store, CountersOK'
    PROVE  CaptureInv'
  <1> DEFINE outcome == IF Published(c) THEN "uncertain" ELSE "failed"
             phase == IF cap[c].owned = 0 THEN outcome ELSE "clean"
  <1>1. /\ cap \in [Sessions -> Calls] /\ cap[c] \in Calls /\ Sound(c)
        /\ cap' = [cap EXCEPT ![c] = [cap[c] EXCEPT !.phase = phase, !.then = outcome]]
    BY Parts DEF CaptureInv, Raise
  <1>2. /\ outcome \in {"uncertain", "failed"} /\ phase \in {"uncertain", "failed", "clean"}
        /\ outcome = "failed" => ~cap[c].published
        /\ phase = "failed" => ~cap[c].published
        /\ phase = "clean" => cap[c].owned # 0
    BY DEF Published
  <1> HIDE DEF outcome, phase
  <1>3. /\ cap'[c].phase = phase /\ cap'[c] \in Calls /\ cap'[c].owned = cap[c].owned
        /\ cap'[c].expected = cap[c].expected /\ cap'[c].dir = cap[c].dir
        /\ cap'[c].name = cap[c].name /\ cap'[c].published = cap[c].published
        /\ cap'[c].then = outcome
    BY <1>1, <1>2 DEF Calls, Phases, Outcomes
  <1>4. cap' \in [Sessions -> Calls] /\ \A q \in Sessions \ {c} : cap'[q] = cap[q]
    BY <1>1, <1>3
  <1>5. /\ file' = file /\ dir' = dir /\ place' = place /\ stamp' = stamp
        /\ placed' \in [Buckets -> 0..Len(dir)]
    BY StoreSame
  <1>6. \A e, i : LeadsTo(e, i)' = LeadsTo(e, i)
    BY <1>5 DEF LeadsTo
  <1>7. {"uncertain", "failed", "clean"} \cap (Before \cup Filling \cup Linking \cup {"final", "confirm", "captured", "sync"}) = {}
    BY DEF Before, Filling, Linking
  <1>8. Holding(c)'
    BY <1>1, <1>2, <1>3, <1>5, <1>7 DEF Sound, Holding, Inside
  <1>9. TemporaryWhole(c)'
    BY <1>2, <1>3, <1>7 DEF TemporaryWhole
  <1>10. Private(c)' /\ LinkDurable(c)'
    BY <1>1, <1>2, <1>3, <1>5, <1>6, <1>7 DEF Sound, Private, LinkDurable
  <1> QED BY <1>3, <1>4, <1>5, <1>8, <1>9, <1>10, CallStep DEF Sound

\* The steps that change the store, seen by those who do not take them: every
\* name leads where it led, or to a file that is whole and belongs to nobody
\* else (added), and files stay whole under every name but those of the actors.
LEMMA Moved ==
    ASSUME CaptureInv, CaptureTypeOK', Len(file) <= Len(file)',
           NEW actors \in SUBSET Sessions, NEW added,
           \A e \in Entries, i \in Inodes' : LeadsTo(e, i)' => LeadsTo(e, i) \/ <<e, i>> \in added,
           \A e \in Entries \ actors, i \in Inodes' : <<e, i>> \in added => Whole(i)',
           \A e \in Entries, q \in Sessions \ actors :
               \A i \in {cap[q].owned, cap[q].expected[1]} : <<e, i>> \in added => cap[q].published,
           \A e \in Entries \ actors, i \in Inodes : LeadsTo(e, i) /\ Whole(i) => Whole(i)',
           \A q \in Sessions \ actors : Bystander(q),
           \A q \in actors : cap'[q].name = cap[q].name /\ Sound(q)'
    PROVE  CaptureInv'
  <1>1. /\ Len(file) \in Nat /\ Inodes = 1..Len(file)
        /\ \A c \in Sessions : cap[c] \in Calls
    BY Parts DEF CaptureInv
  <1>2. Len(file)' \in Nat /\ Inodes' = 1..Len(file)' /\ Inodes \subseteq Inodes'
    <2>1. file' \in Seq(Files)'
      BY DEF CaptureTypeOK, Files
    <2>2. Len(file)' \in Nat /\ Inodes' = 1..Len(file)'
      BY <2>1 DEF Inodes
    <2> QED BY <1>1, <2>2
  <1>3. \A e \in Entries : \A i : LeadsTo(e, i) => i \in Inodes
    BY LeadsToFiles DEF CaptureInv
  <1>4. \A e \in Entries, i \in Inodes' : LeadsTo(e, i)' /\ i \notin Inodes => <<e, i>> \in added
    BY <1>3
  <1>5. ASSUME NEW e \in Entries \ actors, NEW i \in Inodes', LeadsTo(e, i)'
        PROVE  Whole(i)' \/ (i \in Inodes /\ LeadsTo(e, i) /\ ~Whole(i))
    BY <1>3, <1>5
  <1>6. Names \subseteq Entries \ actors
    BY InboxAssumption DEF Entries
  <1>7. NamesWhole'
    <2>1. \A n \in Names, i \in Inodes : LeadsTo(n, i) => Whole(i)
      BY DEF CaptureInv, NamesWhole
    <2>2. \A n \in Names, i \in Inodes' : LeadsTo(n, i)' => Whole(i)'
      BY <1>5, <1>6, <2>1
    <2> QED BY <2>2 DEF NamesWhole
  <1>8. \A c \in Sessions : cap'[c].name = cap[c].name
    <2>1. ASSUME NEW c \in Sessions \ actors PROVE cap'[c].name = cap[c].name
      <3>1. cap'[c] = cap[c] \/ cap'[c] = [cap[c] EXCEPT !.phase = "killed"]
        BY DEF Bystander
      <3> QED BY <1>1, <3>1 DEF Calls
    <2> QED BY <2>1
  <1>9. NamesDistinct'
    BY <1>8 DEF CaptureInv, NamesDistinct
  <1>10. ASSUME NEW c \in Sessions \ actors PROVE Sound(c)'
    <2>1. c \in Entries \ actors
      BY DEF Entries
    <2>2. \A i \in Inodes' : LeadsTo(c, i)' => Whole(i)' \/ (i \in Inodes /\ LeadsTo(c, i) /\ ~Whole(i))
      BY <1>5, <2>1
    <2>3. \A e \in Entries, i \in {cap[c].owned, cap[c].expected[1]} :
              LeadsTo(e, i)' => LeadsTo(e, i) \/ cap[c].published
      <3>1. Sound(c) /\ cap[c].owned \in 0..Len(file) /\ cap[c].expected \in [1..3 -> Nat]
        BY <1>1 DEF CaptureInv, Calls
      <3>2. \A i \in {cap[c].owned, cap[c].expected[1]} : i = 0 \/ i \in Inodes'
        BY <1>1, <1>2, <3>1 DEF Sound, Holding
      <3> QED BY <3>2 DEF LeadsTo
    <2> QED BY <1>2, <2>2, <2>3, Undisturbed
  <1> QED BY <1>7, <1>9, <1>10 DEF CaptureInv

\* A step of one session that gives no name another file.
LEMMA OwnMove ==
    ASSUME CaptureInv, CaptureTypeOK', Len(file) <= Len(file)', NEW c \in Sessions,
           \A e \in Entries, i \in Inodes' : LeadsTo(e, i)' => LeadsTo(e, i),
           \A e \in Entries \ {c}, i \in Inodes : LeadsTo(e, i) /\ Whole(i) => Whole(i)',
           \A q \in Sessions \ {c} : Bystander(q),
           cap'[c].name = cap[c].name, Sound(c)'
    PROVE  CaptureInv'
  <1> DEFINE actors == {c}
             added == {}
  <1>1. \A e \in Entries \ actors, i \in Inodes : LeadsTo(e, i) /\ Whole(i) => Whole(i)'
    OBVIOUS
  <1>2. /\ \A q \in actors : cap'[q].name = cap[q].name /\ Sound(q)'
        /\ \A q \in Sessions \ actors : Bystander(q)
    OBVIOUS
  <1>3. \A e \in Entries, i \in Inodes' : LeadsTo(e, i)' => LeadsTo(e, i) \/ <<e, i>> \in added
    OBVIOUS
  <1>4. actors \in SUBSET Sessions /\ \A x : x \notin added
    OBVIOUS
  <1> HIDE DEF actors, added
  <1> QED BY <1>1, <1>2, <1>3, <1>4, Moved

\* A step of one session that gives one name a file.
LEMMA OwnAddition ==
    ASSUME CaptureInv, CaptureTypeOK', Len(file) <= Len(file)', NEW c \in Sessions,
           NEW n \in Entries, NEW j,
           \A e \in Entries, i \in Inodes' :
               LeadsTo(e, i)' => LeadsTo(e, i) \/ <<e, i>> \in {<<n, j>>},
           n = c \/ Whole(j)',
           \A q \in Sessions \ {c} :
               j \in {cap[q].owned, cap[q].expected[1]} => cap[q].published,
           \A e \in Entries \ {c}, i \in Inodes : LeadsTo(e, i) /\ Whole(i) => Whole(i)',
           \A q \in Sessions \ {c} : Bystander(q),
           cap'[c].name = cap[c].name, Sound(c)'
    PROVE  CaptureInv'
  <1> DEFINE actors == {c}
             added == {<<n, j>>}
  <1>1. \A e \in Entries \ actors, i \in Inodes : LeadsTo(e, i) /\ Whole(i) => Whole(i)'
    OBVIOUS
  <1>2. /\ \A q \in actors : cap'[q].name = cap[q].name /\ Sound(q)'
        /\ \A q \in Sessions \ actors : Bystander(q)
    OBVIOUS
  <1>3. \A e \in Entries, i \in Inodes' : LeadsTo(e, i)' => LeadsTo(e, i) \/ <<e, i>> \in added
    OBVIOUS
  <1>4. \A e \in Entries \ actors, i \in Inodes' : <<e, i>> \in added => Whole(i)'
    OBVIOUS
  <1>5. \A e \in Entries, q \in Sessions \ actors :
            \A i \in {cap[q].owned, cap[q].expected[1]} : <<e, i>> \in added => cap[q].published
    OBVIOUS
  <1>6. actors \in SUBSET Sessions
    OBVIOUS
  <1> HIDE DEF actors, added
  <1> QED BY <1>1, <1>2, <1>3, <1>4, <1>5, <1>6, Moved

\* A step that no session takes, and that gives at most one name a file.
LEMMA OtherMove ==
    ASSUME CaptureInv, CaptureTypeOK', Len(file) <= Len(file)', NEW added,
           \A e \in Entries, i \in Inodes' : LeadsTo(e, i)' => LeadsTo(e, i) \/ <<e, i>> \in added,
           \A e \in Entries, i \in Inodes' : <<e, i>> \in added => Whole(i)',
           \A e \in Entries, i \in Inodes : LeadsTo(e, i) /\ Whole(i) => Whole(i)',
           \A e \in Entries : \A i : <<e, i>> \in added => i > Len(file),
           \A q \in Sessions : Bystander(q)
    PROVE  CaptureInv'
  <1> DEFINE actors == {}
  <1>1. \A e \in Entries, q \in Sessions \ actors :
            \A i \in {cap[q].owned, cap[q].expected[1]} : <<e, i>> \in added => cap[q].published
    <2>1. \A q \in Sessions : cap[q].owned \in 0..Len(file) /\ cap[q].expected[1] \in 0..Len(file)
      BY Parts DEF CaptureInv, Sound, Holding, Calls
    <2>2. \A i \in 0..Len(file) : ~(i > Len(file))
      BY Parts DEF CaptureInv
    <2> QED BY <2>1, <2>2
  <1>2. actors \in SUBSET Sessions /\ Sessions \ actors = Sessions /\ Entries \ actors = Entries
        /\ \A q \in actors : FALSE
    OBVIOUS
  <1> HIDE DEF actors
  <1> QED BY <1>1, <1>2, Moved

\* A directory with another entry.
LEMMA EntryRecord ==
    ASSUME NEW S, NEW x \in [entry : S, disk : S, stamp : Nat], NEW a \in S, NEW k \in Nat
    PROVE  /\ [x EXCEPT !.entry = a, !.stamp = k] \in [entry : S, disk : S, stamp : Nat]
           /\ [x EXCEPT !.entry = a, !.stamp = k].entry = a
           /\ [x EXCEPT !.entry = a, !.stamp = k].disk = x.disk
  OBVIOUS

\* The entries that a step leaves alone or sets.
LEMMA EntrySet ==
    ASSUME CaptureTypeOK, NEW d \in DOMAIN dir, NEW e \in Entries, NEW i \in 0..Len(file)',
           Len(file)' \in Nat, Len(file) <= Len(file)', dir' = SetEntry(d, e, i)
    PROVE  /\ dir' \in Seq(Directories)' /\ Len(dir') = Len(dir) /\ DOMAIN dir' = DOMAIN dir
           /\ \A x \in DOMAIN dir : dir'[x].disk = dir[x].disk
           /\ \A x \in DOMAIN dir, f \in Entries :
                  dir'[x].entry[f] = IF x = d /\ f = e THEN i ELSE dir[x].entry[f]
           /\ \A f \in Entries : \A j : LeadsTo(f, j)' => LeadsTo(f, j) \/ <<f, j>> \in {<<e, i>>}
  <1>1. /\ dir \in Seq(Directories) /\ DOMAIN dir = 1..Len(dir) /\ Len(dir) \in Nat /\ stamp \in Nat
        /\ \A x \in DOMAIN dir : dir[x] \in Directories
    BY Parts
  <1>2. Directories \subseteq Directories'
    <2>1. 0..Len(file) \subseteq 0..Len(file)'
      BY Parts
    <2> QED BY <2>1 DEF Directories, Entries
  <1>3. /\ dir[d].entry \in [Entries -> 0..Len(file)'] /\ dir[d] \in Directories'
        /\ [dir[d].entry EXCEPT ![e] = i] \in [Entries -> 0..Len(file)']
    BY <1>1, <1>2 DEF Directories, Entries
  <1> DEFINE new == [dir[d] EXCEPT !.entry = [dir[d].entry EXCEPT ![e] = i], !.stamp = stamp + 1]
  <1>4. /\ new \in Directories' /\ new.disk = dir[d].disk
        /\ new.entry = [dir[d].entry EXCEPT ![e] = i]
    <2> DEFINE S == [Entries -> 0..Len(file)']
    <2>1. Directories' = [entry : S, disk : S, stamp : Nat]
      BY DEF Directories, Entries
    <2>2. dir[d] \in [entry : S, disk : S, stamp : Nat] /\ stamp + 1 \in Nat
      BY <1>1, <1>3, <2>1
    <2>3. [dir[d].entry EXCEPT ![e] = i] \in S
      BY <1>3
    <2> HIDE DEF S
    <2> QED BY <2>1, <2>2, <2>3, EntryRecord
  <1>6. dir' = [dir EXCEPT ![d] = new]
    BY DEF SetEntry
  <1> HIDE DEF new
  <1>7. dir' \in Seq(Directories') /\ Len(dir') = Len(dir) /\ DOMAIN dir' = DOMAIN dir
    BY <1>1, <1>2, <1>4, <1>6
  <1>8. \A x \in DOMAIN dir : dir'[x] = IF x = d THEN new ELSE dir[x]
    BY <1>1, <1>6
  <1>9. \A x \in DOMAIN dir : dir'[x].disk = dir[x].disk
    BY <1>4, <1>8
  <1>10. \A x \in DOMAIN dir, f \in Entries :
             dir'[x].entry[f] = IF x = d /\ f = e THEN i ELSE dir[x].entry[f]
    <2>1. DOMAIN dir[d].entry = Entries
      BY <1>1 DEF Directories
    <2> QED BY <1>4, <1>8, <2>1
  <1>11. \A f \in Entries : \A j : LeadsTo(f, j)' => LeadsTo(f, j) \/ <<f, j>> \in {<<e, i>>}
    BY <1>7, <1>9, <1>10 DEF LeadsTo
  <1> QED BY <1>7, <1>9, <1>10, <1>11

\* What Go does to the sessions.
LEMMA Went ==
    ASSUME CaptureInv, NEW c \in Sessions, NEW phase \in Phases, Go(c, phase)
    PROVE  /\ cap' \in [Sessions -> Calls] /\ \A q \in Sessions \ {c} : cap'[q] = cap[q]
           /\ cap'[c] \in Calls /\ cap'[c].phase = phase /\ cap'[c].owned = cap[c].owned
           /\ cap'[c].expected = cap[c].expected /\ cap'[c].dir = cap[c].dir
           /\ cap'[c].name = cap[c].name /\ cap'[c].published = cap[c].published
           /\ cap'[c].then = cap[c].then /\ cap'[c].data = cap[c].data
           /\ cap'[c].bucket = cap[c].bucket
  <1>1. /\ cap \in [Sessions -> Calls] /\ cap[c] \in Calls
        /\ cap' = [cap EXCEPT ![c] = [cap[c] EXCEPT !.phase = phase]]
    BY Parts DEF CaptureInv, Go
  <1> DEFINE new == [cap[c] EXCEPT !.phase = phase]
  <1>2. /\ new \in Calls /\ new.phase = phase /\ new.owned = cap[c].owned
        /\ new.expected = cap[c].expected /\ new.dir = cap[c].dir
        /\ new.name = cap[c].name /\ new.published = cap[c].published
        /\ new.then = cap[c].then /\ new.data = cap[c].data /\ new.bucket = cap[c].bucket
    BY <1>1 DEF Calls
  <1>3. cap' = [cap EXCEPT ![c] = new]
    BY <1>1
  <1> HIDE DEF new
  <1> QED BY <1>1, <1>2, <1>3

\* A well-typed state in parts.
LEMMA TypeAssembled ==
    ASSUME file' \in Seq(Files), dir' \in Seq(Directories'), cap' \in [Sessions -> Calls'],
           place' \in [Buckets -> 0..Len(dir')], placed' \in [Buckets -> 0..Len(dir')],
           stamp' \in Nat, CountersOK'
    PROVE  CaptureTypeOK'
  BY DEF CaptureTypeOK, Files, Directories, Calls, CountersOK

\* Without a change of the files, smaller types are types of the next state.
LEMMA SameFiles ==
    ASSUME CaptureTypeOK, file' = file, Len(dir') \in Nat, Len(dir) <= Len(dir')
    PROVE  /\ Calls \subseteq Calls' /\ Directories' = Directories
           /\ file' \in Seq(Files) /\ Len(file)' = Len(file) /\ Inodes' = Inodes
           /\ \A i : Whole(i)' = Whole(i)
  <1>1. Len(file)' = Len(file) /\ Len(file) \in Nat /\ file' \in Seq(Files)
    BY Parts
  <1>2. Calls \subseteq Calls'
    BY <1>1, Larger
  <1>3. Directories' = Directories /\ Inodes' = Inodes
    BY <1>1 DEF Directories, Inodes
  <1> QED BY <1>1, <1>2, <1>3 DEF Whole

\* A new directory is empty.
LEMMA DirectoryMade ==
    ASSUME CaptureTypeOK, dir' = NewDirectory, file' = file
    PROVE  /\ dir' \in Seq(Directories') /\ Len(dir') = Len(dir) + 1
           /\ DOMAIN dir' = 1..(Len(dir) + 1)
           /\ \A d \in DOMAIN dir : dir'[d] = dir[d]
           /\ \A d \in DOMAIN dir' \ DOMAIN dir, e \in Entries : dir'[d].entry[e] = 0 /\ dir'[d].disk[e] = 0
           /\ \A e \in Entries : \A i : LeadsTo(e, i)' => LeadsTo(e, i)
  <1>1. /\ dir \in Seq(Directories) /\ DOMAIN dir = 1..Len(dir) /\ Len(dir) \in Nat /\ stamp \in Nat
        /\ Len(file) \in Nat /\ Directories' = Directories
    BY Parts DEF Directories
  <1> DEFINE new == [entry |-> Empty, disk |-> Empty, stamp |-> stamp + 1]
  <1>2. new \in Directories /\ new.entry = Empty /\ new.disk = Empty
    <2>1. Empty \in [Entries -> 0..Len(file)]
      BY <1>1 DEF Empty
    <2> QED BY <1>1, <2>1 DEF Directories
  <1>3. dir' = Append(dir, new)
    BY DEF NewDirectory
  <1> HIDE DEF new
  <1>4. /\ dir' \in Seq(Directories) /\ Len(dir') = Len(dir) + 1
        /\ \A d \in DOMAIN dir : dir'[d] = dir[d]
        /\ dir'[Len(dir) + 1] = new
    BY <1>1, <1>2, <1>3
  <1>5. DOMAIN dir' = 1..(Len(dir) + 1)
    BY <1>1, <1>4
  <1>6. \A d \in DOMAIN dir' \ DOMAIN dir, e \in Entries : dir'[d].entry[e] = 0 /\ dir'[d].disk[e] = 0
    <2>1. \A d \in DOMAIN dir' \ DOMAIN dir : d = Len(dir) + 1
      BY <1>1, <1>5
    <2>2. \A e \in Entries : Empty[e] = 0
      BY DEF Empty
    <2> QED BY <1>2, <1>4, <2>1, <2>2
  <1>7. \A e \in Entries : \A i : LeadsTo(e, i)' => LeadsTo(e, i)
    BY <1>4, <1>6 DEF LeadsTo
  <1> QED BY <1>1, <1>4, <1>5, <1>6, <1>7

\* A bucket that is made, or taken as it is, has no entry yet that could lead to torn bytes.
LEMMA EnterKeeps ==
    ASSUME CaptureInv, NEW c \in Sessions, Enter(c)
    PROVE  CaptureInv'
  <1>1. CaptureTypeOK /\ cap[c] \in Calls /\ Sound(c) /\ CountersOK' /\ cap[c].phase = "enter"
    BY Parts DEF CaptureInv, CaptureTypeOK, CountersOK, counters, Enter
  <1>2. CASE Go(c, "open") /\ UNCHANGED store
    <2>1. "open" \in Phases /\ "open" \in Before /\ "enter" \in Before /\ "open" \notin Filling \cup Inside \cup {"failed"}
      BY DEF Phases, Before, Filling, Inside, Linking
    <2> QED BY <1>1, <1>2, <2>1, StoreSame, GoneOn
  <1>3. CASE /\ dir' = NewDirectory /\ place' = [place EXCEPT ![cap[c].bucket] = Len(dir')]
             /\ Now /\ Go(c, "parent") /\ UNCHANGED <<file, placed>>
    <2>1. "parent" \in Phases /\ "parent" \in Before /\ "enter" \in Before /\ "parent" \notin Filling \cup Inside \cup {"failed"}
      BY DEF Phases, Before, Filling, Inside, Linking
    <2>2. Go(c, "parent") /\ file' = file
      BY <1>3
    <2>3. /\ dir' \in Seq(Directories') /\ Len(dir') = Len(dir) + 1
          /\ DOMAIN dir' = 1..(Len(dir) + 1)
          /\ \A d \in DOMAIN dir : dir'[d] = dir[d]
          /\ \A d \in DOMAIN dir' \ DOMAIN dir, e \in Entries : dir'[d].entry[e] = 0 /\ dir'[d].disk[e] = 0
          /\ \A e \in Entries : \A i : LeadsTo(e, i)' => LeadsTo(e, i)
      BY <1>1, <1>3, DirectoryMade
    <2>4. Len(dir) \in Nat /\ Len(dir') \in Nat /\ Len(dir) <= Len(dir') /\ Len(file) \in Nat
      BY <1>1, <2>3, Parts
    <2>5. /\ Calls \subseteq Calls' /\ file' \in Seq(Files) /\ Len(file)' = Len(file)
          /\ Inodes' = Inodes /\ \A i : Whole(i)' = Whole(i)
      BY <1>1, <2>2, <2>4, SameFiles
    <2>6. /\ cap' \in [Sessions -> Calls] /\ \A q \in Sessions \ {c} : cap'[q] = cap[q]
          /\ cap'[c].phase = "parent" /\ cap'[c].owned = cap[c].owned
          /\ cap'[c].expected = cap[c].expected /\ cap'[c].dir = cap[c].dir
          /\ cap'[c].name = cap[c].name /\ cap'[c].published = cap[c].published
          /\ cap'[c].then = cap[c].then
      BY <2>1, <2>2, Went
    <2>7. CaptureTypeOK'
      <3>1. place' \in [Buckets -> 0..Len(dir')] /\ placed' \in [Buckets -> 0..Len(dir')]
        BY <1>1, <1>3, <2>4 DEF CaptureTypeOK
      <3>2. stamp' \in Nat
        BY <1>1, <1>3 DEF CaptureTypeOK, Now
      <3>3. cap' \in [Sessions -> Calls']
        BY <2>5, <2>6
      <3> QED BY <1>1, <2>3, <2>5, <3>1, <3>2, <3>3, TypeAssembled
    <2>8. Sound(c)'
      <3>1. Holding(c)'
        BY <1>1, <2>1, <2>5, <2>6 DEF Sound, Holding, Before
      <3>2. c \in Entries
        BY DEF Entries
      <3>3. TemporaryWhole(c)'
        BY <1>1, <2>1, <2>3, <2>5, <2>6, <3>2 DEF Sound, TemporaryWhole
      <3>4. Private(c)'
        BY <1>1, <2>3, <2>6 DEF Sound, Private
      <3>5. cap[c].name \in Entries /\ ~cap[c].published
        BY <1>1, <2>1 DEF Calls, Entries, Sound, Holding
      <3>6. LinkDurable(c)'
        <4>1. \A d \in DOMAIN dir : dir[d].disk[cap[c].name] = dir[d].entry[cap[c].name]
          BY <1>1, <3>5 DEF Sound, LinkDurable
        <4>2. \A d \in DOMAIN dir' : dir'[d].disk[cap[c].name] = dir'[d].entry[cap[c].name]
          BY <2>3, <3>5, <4>1
        <4> QED BY <2>6, <4>2 DEF LinkDurable
      <3> QED BY <3>1, <3>3, <3>4, <3>6 DEF Sound
    <2>9. \A q \in Sessions \ {c} : Bystander(q)
      <3>1. \A q \in Sessions \ {c} : Sound(q) /\ cap[q].name \in Entries
        BY <1>1, Parts DEF CaptureInv, Calls, Entries
      <3> QED BY <2>2, <2>3, <2>6, <3>1 DEF Bystander, Sound, TemporaryWhole
    <2>10. cap'[c].name = cap[c].name /\ Len(file) <= Len(file)'
      BY <2>4, <2>5, <2>6
    <2> QED BY <2>3, <2>5, <2>7, <2>8, <2>9, <2>10, OwnMove
  <1> QED BY <1>2, <1>3 DEF Enter

\* A new file.
LEMMA FileMade ==
    ASSUME CaptureTypeOK, NEW x \in Contents \cup {Partial}, NEW onDisk \in BOOLEAN,
           file' = NewFile(x, onDisk)
    PROVE  /\ file' \in Seq(Files) /\ Len(file)' = Len(file) + 1 /\ Inodes' = 1..(Len(file) + 1)
           /\ \A i \in Inodes : file'[i] = file[i] /\ Whole(i)' = Whole(i)
           /\ file'[Len(file) + 1].content = x
           /\ file'[Len(file) + 1].synced = onDisk
  <1>1. file \in Seq(Files) /\ Len(file) \in Nat /\ Inodes = 1..Len(file) /\ stamp \in Nat
    BY Parts
  <1> DEFINE new == [content |-> x, synced |-> onDisk, mtime |-> stamp + 1, ctime |-> stamp + 1]
  <1>2. new \in Files /\ new.content = x /\ new.synced = onDisk
    BY <1>1 DEF Files
  <1>3. file' = Append(file, new)
    BY DEF NewFile
  <1> HIDE DEF new
  <1>4. /\ file' \in Seq(Files) /\ Len(file)' = Len(file) + 1
        /\ \A i \in 1..Len(file) : file'[i] = file[i]
        /\ file'[Len(file) + 1] = new
    BY <1>1, <1>2, <1>3
  <1>5. Inodes' = 1..(Len(file) + 1)
    BY <1>1, <1>4 DEF Inodes
  <1> QED BY <1>1, <1>2, <1>4, <1>5 DEF Whole

\* A file with other bytes or stamps.
LEMMA FileSet ==
    ASSUME CaptureTypeOK, NEW j \in Inodes, NEW r \in Files, file' = [file EXCEPT ![j] = r]
    PROVE  /\ file' \in Seq(Files) /\ Len(file)' = Len(file) /\ Inodes' = Inodes
           /\ file'[j] = r
           /\ \A i \in Inodes \ {j} : file'[i] = file[i] /\ Whole(i)' = Whole(i)
  <1>1. file \in Seq(Files) /\ Len(file) \in Nat /\ Inodes = 1..Len(file)
    BY Parts
  <1>2. /\ file' \in Seq(Files) /\ Len(file)' = Len(file) /\ file'[j] = r
        /\ \A i \in Inodes \ {j} : file'[i] = file[i]
    BY <1>1
  <1>3. Inodes' = Inodes
    BY <1>1, <1>2 DEF Inodes
  <1> QED BY <1>2, <1>3 DEF Whole

\* Before a session has linked its file, the entry of its .md name is on disk as it is seen.
LEMMA NameSettled ==
    ASSUME CaptureInv, NEW c \in Sessions, ~cap[c].published
    PROVE  \A d \in DOMAIN dir : dir[d].disk[cap[c].name] = dir[d].entry[cap[c].name]
  BY DEF CaptureInv, Sound, LinkDurable

\* A temporary name is free: the file that is made is under no other name.
LEMMA CreateKeeps ==
    ASSUME CaptureInv, NEW c \in Sessions, CreateTemporary(c)
    PROVE  CaptureInv'
  <1>1. CaptureTypeOK /\ cap[c] \in Calls /\ Sound(c) /\ CountersOK' /\ cap[c].phase = "create"
    BY Parts DEF CaptureInv, CaptureTypeOK, CountersOK, counters, CreateTemporary
  <1> DEFINE d == cap[c].dir
             j == Len(file) + 1
  <1>2. CASE Raise(c) /\ UNCHANGED store
    BY <1>1, <1>2, Raised
  <1>3. CASE /\ file' = NewFile(Partial, FALSE) /\ dir' = SetEntry(d, c, Len(file'))
             /\ cap' = [cap EXCEPT ![c].phase = "write", ![c].owned = Len(file')]
             /\ Now /\ UNCHANGED <<place, placed>>
    <2>1. /\ file' \in Seq(Files) /\ Len(file)' = Len(file) + 1 /\ Inodes' = 1..(Len(file) + 1)
          /\ \A i \in Inodes : file'[i] = file[i] /\ Whole(i)' = Whole(i)
      <3>1. Partial \in Contents \cup {Partial} /\ FALSE \in BOOLEAN
        OBVIOUS
      <3> QED BY <1>1, <1>3, <3>1, FileMade
    <2>2. /\ Len(file) \in Nat /\ Inodes = 1..Len(file) /\ Len(dir) \in Nat /\ DOMAIN dir = 1..Len(dir)
          /\ cap \in [Sessions -> Calls] /\ stamp \in Nat
      BY <1>1, Parts
    <2>3. /\ "create" \in Before /\ "create" \in Inside
          /\ "write" \in Filling /\ "write" \in Inside /\ "write" \in Phases
          /\ "write" \notin Before \cup Linking \cup {"failed", "sync"}
      BY DEF Before, Inside, Filling, Linking, Phases
    <2>4. /\ d \in DOMAIN dir /\ d # 0 /\ ~cap[c].published /\ cap[c].then = "running"
          /\ cap[c].expected[1] \in 0..Len(file)
      <3>1. cap[c].dir \in 0..Len(dir) /\ cap[c].expected[1] \in Nat
        BY <1>1 DEF Calls
      <3>2. Holding(c)
        BY <1>1 DEF Sound
      <3>3. cap[c].dir # 0 /\ ~cap[c].published /\ cap[c].then = "running"
        BY <1>1, <2>3, <3>2 DEF Holding
      <3>4. cap[c].expected[1] <= Len(file)
        BY <3>2 DEF Holding
      <3> QED BY <2>2, <3>1, <3>3, <3>4
    <2>5. c \in Entries /\ c \notin Names /\ Names \subseteq Entries
      BY InboxAssumption DEF Entries
    <2>6. /\ dir' \in Seq(Directories') /\ Len(dir') = Len(dir) /\ DOMAIN dir' = DOMAIN dir
          /\ \A x \in DOMAIN dir : dir'[x].disk = dir[x].disk
          /\ \A x \in DOMAIN dir, f \in Entries :
                 dir'[x].entry[f] = IF x = d /\ f = c THEN j ELSE dir[x].entry[f]
          /\ \A f \in Entries : \A i : LeadsTo(f, i)' => LeadsTo(f, i) \/ <<f, i>> \in {<<c, j>>}
      <3>1. j \in 0..Len(file)' /\ Len(file)' \in Nat /\ Len(file) <= Len(file)' /\ dir' = SetEntry(d, c, j)
        <4>1. dir' = SetEntry(d, c, Len(file'))
          BY <1>3
        <4> QED BY <2>1, <2>2, <4>1
      <3> HIDE DEF d, j
      <3> QED BY <1>1, <2>4, <2>5, <3>1, EntrySet
    <2>7. Calls \subseteq Calls'
      BY <1>1, <2>1, <2>2, <2>6, Larger
    <2>8. /\ cap' \in [Sessions -> Calls'] /\ \A q \in Sessions \ {c} : cap'[q] = cap[q]
          /\ cap'[c].phase = "write" /\ cap'[c].owned = j
          /\ cap'[c].expected = cap[c].expected /\ cap'[c].dir = cap[c].dir
          /\ cap'[c].name = cap[c].name /\ cap'[c].published = cap[c].published
          /\ cap'[c].then = cap[c].then
      <3> DEFINE new == [cap[c] EXCEPT !.phase = "write", !.owned = j]
      <3>1. cap' = [cap EXCEPT ![c] = new]
        BY <1>3, <2>1
      <3>2. cap[c] \in Calls' /\ j \in 0..Len(file)'
        BY <1>1, <2>1, <2>2, <2>7
      <3>3. /\ new \in Calls' /\ new.phase = "write" /\ new.owned = j
            /\ new.expected = cap[c].expected /\ new.dir = cap[c].dir
            /\ new.name = cap[c].name /\ new.published = cap[c].published
            /\ new.then = cap[c].then
        BY <2>3, <3>2 DEF Calls
      <3> HIDE DEF new
      <3> QED BY <2>2, <2>7, <3>1, <3>3
    <2> HIDE DEF j
    <2>9. CaptureTypeOK'
      <3>1. place' \in [Buckets -> 0..Len(dir')] /\ placed' \in [Buckets -> 0..Len(dir')] /\ stamp' \in Nat
        <4>1. place' = place /\ placed' = placed /\ stamp' = stamp + 1
          BY <1>3 DEF Now
        <4>2. /\ place \in [Buckets -> 0..Len(dir)] /\ placed \in [Buckets -> 0..Len(dir)]
              /\ stamp \in Nat
          BY <1>1 DEF CaptureTypeOK
        <4> QED BY <2>6, <4>1, <4>2
      <3> QED BY <1>1, <2>1, <2>6, <2>8, <3>1, TypeAssembled
    <2>10. \A i : LeadsTo(c, i) => i \in Inodes
      BY <1>1, <2>5, LeadsToFiles
    <2>11. \A e \in Entries : ~LeadsTo(e, j)
      <3>1. \A e \in Entries : LeadsTo(e, j) => j \in Inodes
        BY <1>1, LeadsToFiles
      <3> QED BY <2>2, <3>1 DEF j
    <2>12. Sound(c)'
      <3>1. Holding(c)'
        BY <2>1, <2>2, <2>3, <2>4, <2>8 DEF Holding, j
      <3>2. TemporaryWhole(c)'
        <4>1. \A i \in Inodes : LeadsTo(c, i) => Whole(i)
          BY <1>1, <2>3 DEF Sound, TemporaryWhole
        <4>2. \A i \in Inodes' : LeadsTo(c, i)' => i = j \/ Whole(i)'
          BY <2>1, <2>5, <2>6, <2>10, <4>1
        <4> QED BY <2>3, <2>8, <4>2 DEF TemporaryWhole
      <3>3. Private(c)'
        <4>1. \A e \in Entries : LeadsTo(e, cap[c].expected[1]) => e = c
          BY <1>1, <2>4 DEF Sound, Private
        <4>2. \A e \in Entries, i \in {j, cap[c].expected[1]} : LeadsTo(e, i)' => e = c
          BY <2>6, <2>11, <4>1
        <4> QED BY <2>8, <4>2 DEF Private
      <3>4. LinkDurable(c)'
        <4>1. cap[c].name \in Entries /\ cap[c].name # c
          BY <1>1, <2>5 DEF Calls
        <4>2. \A x \in DOMAIN dir : dir[x].disk[cap[c].name] = dir[x].entry[cap[c].name]
          BY <2>4, NameSettled
        <4>3. \A x \in DOMAIN dir' : dir'[x].disk[cap[c].name] = dir'[x].entry[cap[c].name]
          BY <2>6, <4>1, <4>2
        <4> QED BY <2>8, <4>3 DEF LinkDurable
      <3> QED BY <3>1, <3>2, <3>3, <3>4 DEF Sound
    <2>13. \A q \in Sessions \ {c} : Bystander(q)
      <3>1. ASSUME NEW q \in Sessions \ {c} PROVE Bystander(q)
        <4>1. cap[q] \in Calls /\ Sound(q)
          BY <1>1, Parts DEF CaptureInv
        <4>2. cap[q].name \in Entries /\ cap[q].name # c
          BY <2>5, <4>1 DEF Calls
        <4>3. cap[q].phase = "sync" => file'[cap[q].owned].content # Partial
          <5>1. cap[q].phase = "sync" => cap[q].owned \in Inodes /\ file[cap[q].owned].content # Partial
            BY <2>2, <4>1 DEF Sound, Holding, TemporaryWhole, Filling, Calls
          <5> QED BY <2>1, <5>1
        <4> QED BY <2>6, <2>8, <4>2, <4>3 DEF Bystander
      <3> QED BY <3>1
    <2>14. \A q \in Sessions \ {c} : j \in {cap[q].owned, cap[q].expected[1]} => cap[q].published
      <3>1. \A q \in Sessions : cap[q].owned \in 0..Len(file) /\ cap[q].expected[1] \in 0..Len(file)
        BY Parts DEF CaptureInv, Sound, Holding, Calls
      <3> QED BY <2>2, <3>1 DEF j
    <2>15. /\ Len(file) <= Len(file)'
           /\ \A e \in Entries \ {c}, i \in Inodes : LeadsTo(e, i) /\ Whole(i) => Whole(i)'
      BY <2>1, <2>2
    <2> QED BY <2>5, <2>6, <2>8, <2>9, <2>12, <2>13, <2>14, <2>15, OwnAddition
  <1> QED BY <1>2, <1>3 DEF CreateTemporary

\* What a session has in its hands while it writes.
LEMMA Filled ==
    ASSUME CaptureInv, NEW c \in Sessions, cap[c].phase \in Filling
    PROVE  /\ cap[c].owned \in Inodes /\ ~cap[c].published /\ cap[c].then = "running"
           /\ cap[c].dir # 0 /\ cap[c].dir \in DOMAIN dir
           /\ \A e \in Entries : LeadsTo(e, cap[c].owned) => e = c
           /\ \A i \in Inodes : LeadsTo(c, i) => i = cap[c].owned \/ Whole(i)
           /\ cap[c].phase = "sync" => file[cap[c].owned].content # Partial
           /\ cap[c].expected[1] \in 0..Len(file)
  <1>1. cap[c] \in Calls /\ Inodes = 1..Len(file) /\ DOMAIN dir = 1..Len(dir)
        /\ Len(file) \in Nat /\ Len(dir) \in Nat
    BY Parts DEF CaptureInv
  <1>2. Holding(c) /\ TemporaryWhole(c) /\ Private(c)
    BY DEF CaptureInv, Sound
  <1>3. cap[c].owned \in 0..Len(file) /\ cap[c].dir \in 0..Len(dir) /\ cap[c].expected[1] \in Nat
    BY <1>1 DEF Calls
  <1>4. cap[c].owned # 0 /\ cap[c].dir # 0 /\ ~cap[c].published /\ cap[c].then = "running"
    BY <1>2 DEF Holding, Inside
  <1>5. cap[c].expected[1] <= Len(file)
    BY <1>2 DEF Holding
  <1>6. \A e \in Entries : LeadsTo(e, cap[c].owned) => e = c
    BY <1>2, <1>4 DEF Private
  <1>7. /\ \A i \in Inodes : LeadsTo(c, i) => i = cap[c].owned \/ Whole(i)
        /\ cap[c].phase = "sync" => file[cap[c].owned].content # Partial
    BY <1>2 DEF TemporaryWhole
  <1> QED BY <1>1, <1>3, <1>4, <1>5, <1>6, <1>7

\* While only files change, no name changes.
LEMMA SameNames ==
    ASSUME CaptureInv, NEW c \in Sessions, NEW j \in Inodes, NEW r \in Files,
           file' = [file EXCEPT ![j] = r], dir' = dir, place' = place, placed' = placed,
           stamp' \in Nat, CountersOK', cap' \in [Sessions -> Calls],
           \A q \in Sessions \ {c} : cap'[q] = cap[q],
           r.content # Partial
    PROVE  /\ CaptureTypeOK' /\ Len(file)' = Len(file) /\ Inodes' = Inodes
           /\ \A e, i : LeadsTo(e, i)' = LeadsTo(e, i)
           /\ \A q \in Sessions \ {c} : Bystander(q)
  <1>1. CaptureTypeOK /\ Len(dir) \in Nat /\ dir \in Seq(Directories) /\ Len(file) \in Nat
    BY Parts DEF CaptureInv
  <1>2. /\ file' \in Seq(Files) /\ Len(file)' = Len(file) /\ Inodes' = Inodes /\ file'[j] = r
        /\ \A i \in Inodes \ {j} : file'[i] = file[i] /\ Whole(i)' = Whole(i)
    BY <1>1, FileSet
  <1>3. Calls \subseteq Calls' /\ Directories \subseteq Directories'
    BY <1>1, <1>2, Larger
  <1>4. CaptureTypeOK'
    <2>1. place' \in [Buckets -> 0..Len(dir')] /\ placed' \in [Buckets -> 0..Len(dir')]
      BY <1>1 DEF CaptureTypeOK
    <2>2. dir' \in Seq(Directories') /\ cap' \in [Sessions -> Calls']
      BY <1>1, <1>3
    <2> QED BY <1>2, <2>1, <2>2, TypeAssembled
  <1>5. \A e, i : LeadsTo(e, i)' = LeadsTo(e, i)
    BY DEF LeadsTo
  <1>6. ASSUME NEW q \in Sessions \ {c} PROVE Bystander(q)
    <2>1. cap[q].phase = "sync" => cap[q].owned \in Inodes /\ file[cap[q].owned].content # Partial
      BY Filled DEF Filling
    <2>2. cap[q].phase = "sync" => file'[cap[q].owned].content # Partial
      BY <1>2, <2>1
    <2> QED BY <2>2 DEF Bystander
  <1> QED BY <1>2, <1>4, <1>5, <1>6

\* Only the file under the temporary name gets the bytes.
LEMMA WriteKeeps ==
    ASSUME CaptureInv, NEW c \in Sessions, Write(c)
    PROVE  CaptureInv'
  <1> DEFINE j == cap[c].owned
             r == [content |-> cap[c].data, synced |-> FALSE, mtime |-> stamp + 1, ctime |-> stamp + 1]
  <1>1. /\ file' = [file EXCEPT ![j] = r] /\ dir' = dir /\ place' = place /\ placed' = placed
        /\ stamp' = stamp + 1 /\ Go(c, "sync") /\ cap[c].phase = "write" /\ UNCHANGED counters
    BY DEF Write, Now
  <1>2. cap[c] \in Calls /\ stamp \in Nat /\ Sound(c) /\ CaptureTypeOK
    BY Parts DEF CaptureInv
  <1>3. CountersOK'
    BY <1>1, <1>2 DEF CaptureTypeOK, CountersOK, counters
  <1>4. cap[c].phase \in Filling /\ "sync" \in Filling /\ "sync" \in Inside /\ "sync" \in Phases
        /\ "sync" \notin Before \cup Linking \cup {"failed"}
    BY <1>1 DEF Filling, Inside, Phases, Before, Linking
  <1>5. /\ j \in Inodes /\ ~cap[c].published /\ cap[c].then = "running" /\ cap[c].dir # 0
        /\ \A e \in Entries : LeadsTo(e, j) => e = c
        /\ \A i \in Inodes : LeadsTo(c, i) => i = j \/ Whole(i)
        /\ cap[c].expected[1] \in 0..Len(file)
    BY <1>4, Filled
  <1>6. r \in Files /\ r.content = cap[c].data /\ cap[c].data # Partial
    BY <1>2, InboxAssumption DEF Files, Calls
  <1>7. /\ cap' \in [Sessions -> Calls] /\ \A q \in Sessions \ {c} : cap'[q] = cap[q]
        /\ cap'[c].phase = "sync" /\ cap'[c].owned = j
        /\ cap'[c].expected = cap[c].expected /\ cap'[c].dir = cap[c].dir
        /\ cap'[c].name = cap[c].name /\ cap'[c].published = cap[c].published
        /\ cap'[c].then = cap[c].then
    BY <1>1, <1>4, Went
  <1> HIDE DEF j, r
  <1>8. /\ Len(file)' = Len(file) /\ Inodes' = Inodes /\ file'[j] = r
        /\ \A i \in Inodes \ {j} : file'[i] = file[i] /\ Whole(i)' = Whole(i)
    BY <1>1, <1>2, <1>5, <1>6, FileSet
  <1>9. /\ CaptureTypeOK' /\ \A e, i : LeadsTo(e, i)' = LeadsTo(e, i)
        /\ \A q \in Sessions \ {c} : Bystander(q)
    <2>1. stamp' \in Nat /\ r.content # Partial
      BY <1>1, <1>2, <1>6
    <2> QED BY <1>1, <1>3, <1>5, <1>6, <1>7, <2>1, SameNames
  <1>10. Sound(c)'
    <2>1. Holding(c)'
      BY <1>4, <1>5, <1>7, <1>8 DEF Holding, Inodes
    <2>2. TemporaryWhole(c)'
      BY <1>4, <1>5, <1>6, <1>7, <1>8, <1>9 DEF TemporaryWhole
    <2>3. Private(c)'
      BY <1>2, <1>7, <1>9 DEF Sound, Private, j
    <2>4. LinkDurable(c)'
      BY <1>1, <1>2, <1>5, <1>7 DEF Sound, LinkDurable
    <2> QED BY <2>1, <2>2, <2>3, <2>4 DEF Sound
  <1>11. \A e \in Entries \ {c}, i \in Inodes : LeadsTo(e, i) /\ Whole(i) => Whole(i)'
    BY <1>5, <1>8
  <1>12. Len(file) <= Len(file)'
    BY <1>2, <1>8, Parts
  <1> QED BY <1>7, <1>9, <1>10, <1>11, <1>12, OwnMove

\* After the sync the temporary file is whole on the disk as well.
LEMMA SyncKeeps ==
    ASSUME CaptureInv, NEW c \in Sessions, SyncFile(c)
    PROVE  CaptureInv'
  <1>0. PICK j \in Inodes : j = cap[c].owned
    BY Filled DEF SyncFile, Filling
  <1> DEFINE r == [file[j] EXCEPT !.synced = TRUE]
  <1>1. /\ file' = [file EXCEPT ![j] = r] /\ dir' = dir /\ place' = place /\ placed' = placed
        /\ stamp' = stamp /\ cap[c].phase = "sync" /\ UNCHANGED counters
        /\ cap' = [cap EXCEPT ![c].phase = "recheck", ![c].expected = Identity(j)]
    BY <1>0 DEF SyncFile, Sync
  <1>2. cap \in [Sessions -> Calls] /\ cap[c] \in Calls /\ stamp \in Nat /\ Sound(c) /\ CaptureTypeOK
        /\ Inodes = 1..Len(file) /\ Len(file) \in Nat
    BY Parts DEF CaptureInv
  <1>3. CountersOK'
    BY <1>1, <1>2 DEF CaptureTypeOK, CountersOK, counters
  <1>4. cap[c].phase \in Filling /\ "recheck" \in Linking /\ "recheck" \in Inside
        /\ "recheck" \in Phases /\ "recheck" \notin Filling \cup {"failed", "sync"}
    BY <1>1 DEF Filling, Inside, Phases, Before, Linking
  <1>5. /\ j \in Inodes /\ ~cap[c].published /\ cap[c].then = "running" /\ cap[c].dir # 0
        /\ \A e \in Entries : LeadsTo(e, j) => e = c
        /\ \A i \in Inodes : LeadsTo(c, i) => i = j \/ Whole(i)
        /\ file[j].content # Partial
    BY <1>0, <1>1, <1>4, Filled
  <1>6. file[j] \in Files
    BY <1>2, <1>5, Parts
  <1>7. r \in Files /\ r.content = file[j].content /\ r.synced
    BY <1>6 DEF Files
  <1>8. Identity(j) \in [1..3 -> Nat] /\ Identity(j)[1] = j
    <2>1. file[j].mtime \in Nat /\ file[j].ctime \in Nat /\ j \in Nat
      BY <1>2, <1>5, <1>6 DEF Files
    <2> QED BY <2>1 DEF Identity
  <1>9. /\ cap' \in [Sessions -> Calls] /\ \A q \in Sessions \ {c} : cap'[q] = cap[q]
        /\ cap'[c].phase = "recheck" /\ cap'[c].owned = j
        /\ cap'[c].expected = Identity(j) /\ cap'[c].dir = cap[c].dir
        /\ cap'[c].name = cap[c].name /\ cap'[c].published = cap[c].published
        /\ cap'[c].then = cap[c].then
    <2> DEFINE new == [cap[c] EXCEPT !.phase = "recheck", !.expected = Identity(j)]
    <2>1. cap' = [cap EXCEPT ![c] = new]
      BY <1>1
    <2>2. /\ new \in Calls /\ new.phase = "recheck" /\ new.owned = j
          /\ new.expected = Identity(j) /\ new.dir = cap[c].dir
          /\ new.name = cap[c].name /\ new.published = cap[c].published
          /\ new.then = cap[c].then
      BY <1>0, <1>2, <1>4, <1>8 DEF Calls
    <2> HIDE DEF new
    <2> QED BY <1>2, <2>1, <2>2
  <1> HIDE DEF r
  <1>10. /\ Len(file)' = Len(file) /\ Inodes' = Inodes /\ file'[j] = r
         /\ \A i \in Inodes \ {j} : file'[i] = file[i] /\ Whole(i)' = Whole(i)
    BY <1>1, <1>2, <1>5, <1>7, FileSet
  <1>11. /\ CaptureTypeOK' /\ \A e, i : LeadsTo(e, i)' = LeadsTo(e, i)
         /\ \A q \in Sessions \ {c} : Bystander(q)
    BY <1>1, <1>2, <1>3, <1>5, <1>7, <1>9, SameNames
  <1>12. Whole(j)'
    BY <1>5, <1>7, <1>10 DEF Whole
  <1>13. Sound(c)'
    <2>1. Holding(c)'
      BY <1>2, <1>4, <1>5, <1>8, <1>9, <1>10 DEF Holding
    <2>2. TemporaryWhole(c)'
      BY <1>4, <1>5, <1>9, <1>10, <1>11, <1>12 DEF TemporaryWhole
    <2>3. Private(c)'
      BY <1>5, <1>8, <1>9, <1>11 DEF Private
    <2>4. LinkDurable(c)'
      BY <1>1, <1>2, <1>5, <1>9 DEF Sound, LinkDurable
    <2> QED BY <2>1, <2>2, <2>3, <2>4 DEF Sound
  <1>14. \A e \in Entries \ {c}, i \in Inodes : LeadsTo(e, i) /\ Whole(i) => Whole(i)'
    BY <1>10, <1>12
  <1>15. Len(file) <= Len(file)'
    BY <1>2, <1>10
  <1> QED BY <1>9, <1>11, <1>13, <1>14, <1>15, OwnMove

\* The steps that only decide how to go on.
LEMMA SimpleStepsKeep ==
    ASSUME CaptureInv, NEW c \in Sessions,
           \/ Begin(c) \/ SyncParent(c) \/ StatTemporary(c) \/ Verify(c) \/ Confirm(c) \/ Fault(c) \/ Kill(c)
           \/ CheckDestination(c, "destination", "create") \/ CheckDestination(c, "recheck", "stat")
           \/ CheckDestination(c, "final", "confirm")
    PROVE  CaptureInv'
  <1>1. CaptureTypeOK /\ cap[c] \in Calls /\ Sound(c)
    BY Parts DEF CaptureInv
  <1>3. /\ edits \in 0..MaxEdits /\ faults \in 0..MaxFaults /\ crashes \in 0..MaxCrashes
        /\ MaxFaults \in Nat
    BY <1>1, InboxAssumption DEF CaptureTypeOK
  <1>4. UNCHANGED counters => CountersOK'
    BY <1>3 DEF counters, CountersOK
  <1>5. faults < MaxFaults /\ faults' = faults + 1 /\ UNCHANGED <<edits, crashes>> => CountersOK'
    BY <1>3 DEF CountersOK
  <1>6. CASE Begin(c)
    <2>1. Go(c, "enter") /\ UNCHANGED store /\ UNCHANGED counters /\ cap[c].phase = "idle"
      BY <1>6 DEF Begin
    <2>2. {"idle", "enter"} \subseteq Before /\ "enter" \in Phases /\ "enter" \notin Filling \cup Inside \cup {"failed", "final", "confirm", "captured"}
      BY DEF Before, Filling, Inside, Linking, Phases
    <2> QED BY <1>4, <2>1, <2>2, StoreSame, GoneOn
  <1>7. CASE SyncParent(c)
    <2>1. /\ Go(c, "open") /\ UNCHANGED counters /\ cap[c].phase = "parent"
          /\ file' = file /\ dir' = dir /\ place' = place /\ stamp' = stamp
      BY <1>7 DEF SyncParent
    <2>2. {"parent", "open"} \subseteq Before /\ "open" \in Phases /\ "open" \notin Filling \cup Inside \cup {"failed", "final", "confirm", "captured"}
      BY DEF Before, Filling, Inside, Linking, Phases
    <2>3. placed' \in [Buckets -> 0..Len(dir)]
      BY <1>1, <1>7 DEF SyncParent, CaptureTypeOK, Calls
    <2> QED BY <1>4, <2>1, <2>2, <2>3, GoneOn
  <1>8. ASSUME NEW from \in Phases, NEW to \in Phases, CheckDestination(c, from, to),
               <<from, to>> \in {<<"destination", "create">>, <<"recheck", "stat">>, <<"final", "confirm">>}
        PROVE  CaptureInv'
    <2>1. UNCHANGED store /\ CountersOK' /\ cap[c].phase = from
      BY <1>4, <1>8 DEF CheckDestination
    <2>2. CASE Raise(c)
      BY <2>1, <2>2, Raised
    <2>3. CASE Go(c, to)
      <3>1. /\ to \notin Filling \cup {"failed", "captured"}
            /\ from \in Inside
            /\ to \in Before \cup Linking => from \in Before \cup Linking
            /\ to \in {"final", "confirm", "captured"} => from \in {"final", "confirm"}
        BY <1>8 DEF Filling, Inside, Before, Linking
      <3> QED BY <2>1, <2>3, <3>1, StoreSame, GoneOn
    <2> QED BY <1>8, <2>2, <2>3 DEF CheckDestination
  <1>9. CASE StatTemporary(c)
    <2>1. UNCHANGED store /\ CountersOK' /\ cap[c].phase = "stat"
      BY <1>4, <1>9 DEF StatTemporary
    <2>2. CASE Raise(c)
      BY <2>1, <2>2, Raised
    <2>3. CASE Go(c, "link")
      <3>1. {"stat", "link"} \subseteq Linking /\ "stat" \in Inside /\ "link" \in Phases
            /\ "link" \notin Filling \cup {"failed", "final", "confirm", "captured"}
        BY DEF Filling, Inside, Linking, Phases
      <3> QED BY <2>1, <2>3, <3>1, StoreSame, GoneOn
    <2> QED BY <1>9, <2>2, <2>3 DEF StatTemporary
  <1>10. CASE Verify(c)
    <2>1. UNCHANGED store /\ CountersOK' /\ cap[c].phase = "verify"
      BY <1>4, <1>10 DEF Verify
    <2>2. CASE Raise(c)
      BY <2>1, <2>2, Raised
    <2>3. CASE Go(c, "clean")
      <3>1. "verify" \in Inside /\ "clean" \in Phases
            /\ "clean" \notin Filling \cup Before \cup Linking \cup {"failed", "final", "confirm", "captured"}
        BY DEF Filling, Inside, Before, Linking, Phases
      <3> QED BY <2>1, <2>3, <3>1, StoreSame, GoneOn
    <2> QED BY <1>10, <2>2, <2>3 DEF Verify
  <1>11. CASE Confirm(c)
    <2>1. UNCHANGED store /\ CountersOK' /\ cap[c].phase = "confirm"
      BY <1>4, <1>11 DEF Confirm
    <2>2. PICK outcome \in {"captured", "uncertain"} : Go(c, outcome)
      BY <1>11 DEF Confirm
    <2>3. outcome \in Phases
          /\ outcome \notin Filling \cup Before \cup Linking \cup Inside \cup {"failed", "final", "confirm"}
      BY DEF Filling, Inside, Before, Linking, Phases, Outcomes
    <2> QED BY <2>1, <2>2, <2>3, StoreSame, GoneOn
  <1>12. CASE Fault(c)
    <2>1. UNCHANGED store /\ CountersOK'
      BY <1>5, <1>12 DEF Fault
    <2>2. CASE Raise(c)
      BY <2>1, <2>2, Raised
    <2>3. CASE Go(c, cap[c].then) /\ cap[c].then # "running"
      <3>1. cap[c].then \in {"failed", "uncertain"}
        BY <1>1, <2>3 DEF Calls
      <3>2. cap[c].then = "failed" => ~cap[c].published
        BY <1>1 DEF Sound, Holding
      <3>3. cap[c].then \in Phases
            /\ cap[c].then \notin Filling \cup Before \cup Linking \cup Inside \cup {"final", "confirm", "captured"}
        BY <3>1 DEF Filling, Inside, Before, Linking, Phases, Outcomes
      <3> QED BY <2>1, <2>3, <3>2, <3>3, StoreSame, GoneOn
    <2> QED BY <1>12, <2>2, <2>3 DEF Fault
  <1>13. CASE Kill(c)
    <2>1. UNCHANGED store /\ CountersOK' /\ Go(c, "killed")
      BY <1>5, <1>13 DEF Kill
    <2>2. "killed" \in Phases
          /\ "killed" \notin Filling \cup Before \cup Linking \cup Inside \cup {"failed", "final", "confirm", "captured"}
      BY DEF Filling, Inside, Before, Linking, Phases, Outcomes
    <2> QED BY <2>1, <2>2, StoreSame, GoneOn
  <1>14. {"destination", "create", "recheck", "stat", "final", "confirm"} \subseteq Phases
    BY DEF Phases
  <1> QED BY <1>6, <1>7, <1>8, <1>9, <1>10, <1>11, <1>12, <1>13, <1>14

\* Opening a bucket takes its directory and changes none.
LEMMA OpenKeeps ==
    ASSUME CaptureInv, NEW c \in Sessions, OpenBucket(c)
    PROVE  CaptureInv'
  <1> DEFINE b == cap[c].bucket
  <1>1. CaptureTypeOK /\ cap \in [Sessions -> Calls] /\ cap[c] \in Calls /\ Sound(c)
    BY Parts DEF CaptureInv
  <1>2. UNCHANGED store /\ CountersOK' /\ cap[c].phase = "open"
    BY <1>1 DEF OpenBucket, CaptureTypeOK, counters, CountersOK
  <1>3. CASE Raise(c)
    BY <1>2, <1>3, Raised
  <1>4. CASE place[b] # 0 /\ cap' = [cap EXCEPT ![c].phase = "destination", ![c].dir = place[b]]
    <2>1. /\ {"open", "destination"} \subseteq Before /\ "destination" \in Phases
          /\ "destination" \notin Filling \cup {"failed", "sync"}
      BY DEF Before, Filling, Phases
    <2>2. place[b] \in 0..Len(dir) /\ place[b] # 0
      BY <1>1, <1>4 DEF CaptureTypeOK, Calls
    <2>3. /\ cap' \in [Sessions -> Calls] /\ \A q \in Sessions \ {c} : cap'[q] = cap[q]
          /\ cap'[c].phase = "destination" /\ cap'[c].dir = place[b]
          /\ cap'[c].expected = cap[c].expected /\ cap'[c].owned = cap[c].owned
          /\ cap'[c].name = cap[c].name /\ cap'[c].published = cap[c].published
          /\ cap'[c].then = cap[c].then
      <3> DEFINE new == [cap[c] EXCEPT !.phase = "destination", !.dir = place[b]]
      <3>1. cap' = [cap EXCEPT ![c] = new]
        BY <1>4
      <3>2. /\ new \in Calls /\ new.phase = "destination" /\ new.dir = place[b]
            /\ new.expected = cap[c].expected /\ new.owned = cap[c].owned
            /\ new.name = cap[c].name /\ new.published = cap[c].published
            /\ new.then = cap[c].then
        BY <1>1, <2>1, <2>2 DEF Calls
      <3> HIDE DEF new
      <3> QED BY <1>1, <3>1, <3>2
    <2> HIDE DEF b
    <2>4. file' = file /\ dir' = dir /\ Inodes' = Inodes
      BY <1>2 DEF store, Inodes
    <2>5. \A e, i : LeadsTo(e, i)' = LeadsTo(e, i) /\ Whole(i)' = Whole(i)
      BY <2>4 DEF LeadsTo, Whole
    <2>6. ~cap[c].published
      BY <1>1, <1>2, <2>1 DEF Sound, Holding
    <2>7. Holding(c)'
      BY <1>1, <1>2, <2>1, <2>2, <2>3, <2>4 DEF Sound, Holding
    <2>8. TemporaryWhole(c)'
      BY <1>1, <1>2, <2>1, <2>3, <2>4, <2>5 DEF Sound, TemporaryWhole
    <2>9. Private(c)' /\ LinkDurable(c)'
      BY <1>1, <2>3, <2>4, <2>5, <2>6, NameSettled DEF Sound, Private, LinkDurable
    <2> QED BY <1>2, <2>3, <2>7, <2>8, <2>9, StoreSame, CallStep DEF Sound
  <1> QED BY <1>3, <1>4 DEF OpenBucket

\* The link gives a .md name to a file that was written and synced before.
LEMMA LinkKeeps ==
    ASSUME CaptureInv, NEW c \in Sessions, Link(c)
    PROVE  CaptureInv'
  <1> DEFINE d == cap[c].dir
             n == cap[c].name
  <1>1. /\ CaptureTypeOK /\ cap \in [Sessions -> Calls] /\ cap[c] \in Calls /\ Sound(c)
        /\ Inodes = 1..Len(file) /\ Len(file) \in Nat /\ stamp \in Nat
        /\ Len(dir) \in Nat /\ DOMAIN dir = 1..Len(dir)
    BY Parts DEF CaptureInv
  <1>2. UNCHANGED counters /\ cap[c].phase = "link"
    BY DEF Link
  <1>3. CountersOK'
    BY <1>1, <1>2 DEF CaptureTypeOK, counters, CountersOK
  <1>4. CASE Raise(c) /\ UNCHANGED store
    BY <1>3, <1>4, Raised
  <1>5. ASSUME NEW i, i = dir[d].entry[c], CanLink(d, n, i), dir' = SetEntry(d, n, i),
               file' = [file EXCEPT ![i].ctime = stamp + 1],
               cap' = [cap EXCEPT ![c].phase = "verify", ![c].published = TRUE],
               Now, UNCHANGED <<place, placed>>
        PROVE  CaptureInv'
    <2>1. /\ "link" \in Linking /\ "link" \in Inside /\ "verify" \in Phases /\ "verify" \in Inside
          /\ "verify" \notin Before \cup Linking \cup Filling \cup {"failed", "sync", "final", "confirm", "captured"}
      BY DEF Linking, Inside, Phases, Before, Filling
    <2>2. /\ cap[c].then = "running" /\ ~cap[c].published /\ d # 0 /\ d \in DOMAIN dir
          /\ cap[c].expected[1] <= Len(file)
      <3>1. Holding(c) /\ d \in 0..Len(dir)
        BY <1>1 DEF Sound, Calls
      <3>2. cap[c].then = "running" /\ ~cap[c].published /\ d # 0 /\ cap[c].expected[1] <= Len(file)
        BY <1>2, <2>1, <3>1 DEF Holding
      <3> QED BY <1>1, <3>1, <3>2
    <2>3. n \in Names /\ n \in Entries /\ c \in Entries /\ n # c
      BY <1>1, InboxAssumption DEF Calls, Entries
    <2> HIDE DEF d, n
    <2>4. LeadsTo(c, i) /\ i \in Inodes /\ Whole(i)
      <3>1. LeadsTo(c, i)
        BY <1>5, <2>2 DEF LeadsTo, CanLink
      <3>2. i \in Inodes
        BY <1>1, <2>3, <3>1, LeadsToFiles
      <3> QED BY <1>1, <1>2, <2>1, <3>1, <3>2 DEF Sound, TemporaryWhole
    <2>5. file[i] \in Files
      BY <1>1, <2>4, Parts
    <2> DEFINE r == [file[i] EXCEPT !.ctime = stamp + 1]
    <2>6. r \in Files /\ r.content = file[i].content /\ r.synced = file[i].synced
      BY <1>1, <2>5 DEF Files
    <2>7. file' = [file EXCEPT ![i] = r]
      BY <1>5
    <2> HIDE DEF r
    <2>8. /\ file' \in Seq(Files) /\ Len(file)' = Len(file) /\ Inodes' = Inodes
          /\ file'[i] = r
          /\ \A x \in Inodes \ {i} : file'[x] = file[x] /\ Whole(x)' = Whole(x)
      BY <1>1, <2>4, <2>6, <2>7, FileSet
    <2>9. Whole(i)'
      BY <2>4, <2>6, <2>8 DEF Whole
    <2>10. /\ dir' \in Seq(Directories)' /\ Len(dir') = Len(dir) /\ DOMAIN dir' = DOMAIN dir
           /\ \A x \in DOMAIN dir : dir'[x].disk = dir[x].disk
           /\ \A x \in DOMAIN dir, f \in Entries :
                  dir'[x].entry[f] = IF x = d /\ f = n THEN i ELSE dir[x].entry[f]
           /\ \A f \in Entries : \A j : LeadsTo(f, j)' => LeadsTo(f, j) \/ <<f, j>> \in {<<n, i>>}
      <3>1. i \in 0..Len(file)' /\ Len(file)' \in Nat /\ Len(file) <= Len(file)'
        BY <1>1, <2>4, <2>8
      <3> QED BY <1>1, <1>5, <2>2, <2>3, <3>1, EntrySet
    <2>11. Calls \subseteq Calls'
      BY <1>1, <2>8, <2>10, Larger
    <2>12. /\ cap' \in [Sessions -> Calls'] /\ \A q \in Sessions \ {c} : cap'[q] = cap[q]
           /\ cap'[c].phase = "verify" /\ cap'[c].dir = d /\ cap'[c].published
           /\ cap'[c].expected = cap[c].expected /\ cap'[c].owned = cap[c].owned
           /\ cap'[c].name = n /\ cap'[c].then = cap[c].then
      <3> DEFINE new == [cap[c] EXCEPT !.phase = "verify", !.published = TRUE]
      <3>1. cap' = [cap EXCEPT ![c] = new]
        BY <1>5
      <3>2. /\ new \in Calls' /\ new.phase = "verify" /\ new.dir = d /\ new.published
            /\ new.expected = cap[c].expected /\ new.owned = cap[c].owned
            /\ new.name = n /\ new.then = cap[c].then
        BY <1>1, <2>1, <2>11 DEF Calls, d, n
      <3> HIDE DEF new
      <3> QED BY <1>1, <2>11, <3>1, <3>2
    <2>13. CaptureTypeOK'
      <3>1. place' \in [Buckets -> 0..Len(dir')] /\ placed' \in [Buckets -> 0..Len(dir')] /\ stamp' \in Nat
        <4>1. place' = place /\ placed' = placed /\ stamp' = stamp + 1
          BY <1>5 DEF Now
        <4> QED BY <1>1, <2>10, <4>1 DEF CaptureTypeOK
      <3> QED BY <1>3, <2>8, <2>10, <2>12, <3>1, TypeAssembled
    <2>14. Sound(c)'
      <3>1. Holding(c)'
        BY <2>1, <2>2, <2>8, <2>12 DEF Holding
      <3>2. TemporaryWhole(c)' /\ Private(c)'
        BY <2>1, <2>12 DEF TemporaryWhole, Private
      <3>3. LinkDurable(c)'
        <4>1. \A x \in DOMAIN dir : dir[x].disk[n] = dir[x].entry[n]
          BY <2>2, NameSettled DEF n
        <4>2. \A x \in DOMAIN dir' : x # d => dir'[x].disk[n] = dir'[x].entry[n]
          BY <2>3, <2>10, <4>1
        <4> QED BY <2>1, <2>12, <4>2 DEF LinkDurable
      <3> QED BY <3>1, <3>2, <3>3 DEF Sound
    <2>15. \A q \in Sessions \ {c} : Bystander(q)
      <3>1. ASSUME NEW q \in Sessions \ {c} PROVE Bystander(q)
        <4>1. cap[q] \in Calls /\ cap[q].name # n
          BY <1>1 DEF CaptureInv, NamesDistinct, n
        <4>2. cap[q].name \in Entries
          BY <4>1 DEF Calls, Entries
        <4>3. cap[q].phase = "sync" => file'[cap[q].owned].content # Partial
          <5>1. cap[q].phase = "sync" => cap[q].owned \in Inodes /\ file[cap[q].owned].content # Partial
            BY Filled DEF Filling
          <5>2. r.content # Partial
            BY <2>4, <2>6 DEF Whole
          <5> QED BY <2>8, <5>1, <5>2
        <4>4. \A x \in DOMAIN dir' : /\ x \in DOMAIN dir
                                     /\ dir'[x].disk[cap[q].name] = dir[x].disk[cap[q].name]
                                     /\ dir'[x].entry[cap[q].name] = dir[x].entry[cap[q].name]
          BY <2>10, <4>1, <4>2
        <4> QED BY <2>12, <4>3, <4>4 DEF Bystander
      <3> QED BY <3>1
    <2>16. \A q \in Sessions \ {c} : i \in {cap[q].owned, cap[q].expected[1]} => cap[q].published
      <3>1. \A q \in Sessions \ {c} : Private(q) /\ c # q
        BY DEF CaptureInv, Sound
      <3> QED BY <2>3, <2>4, <3>1 DEF Private
    <2>17. /\ Len(file) <= Len(file)' /\ cap'[c].name = cap[c].name
           /\ \A e \in Entries \ {c}, x \in Inodes : LeadsTo(e, x) /\ Whole(x) => Whole(x)'
      BY <1>1, <2>8, <2>9, <2>12 DEF n
    <2> QED BY <2>3, <2>9, <2>10, <2>13, <2>14, <2>15, <2>16, <2>17, OwnAddition
  <1> QED BY <1>4, <1>5 DEF Link

\* What is left of a session after it has cleaned up.
LEMMA Cleaned ==
    ASSUME CaptureInv, NEW c \in Sessions, cap[c].phase \in {"clean", "unlink"}, AfterClean(c)
    PROVE  /\ cap' \in [Sessions -> Calls] /\ \A q \in Sessions \ {c} : cap'[q] = cap[q]
           /\ cap'[c].phase \in {"flush", "failed", "uncertain"}
           /\ cap'[c].phase = "failed" => ~cap[c].published
           /\ cap'[c].owned = 0 /\ cap[c].dir # 0
           /\ cap'[c].expected = cap[c].expected /\ cap'[c].dir = cap[c].dir
           /\ cap'[c].name = cap[c].name /\ cap'[c].published = cap[c].published
           /\ cap'[c].then = cap[c].then
  <1>1. /\ cap \in [Sessions -> Calls] /\ cap[c] \in Calls /\ Holding(c) /\ Len(file) \in Nat
    BY Parts DEF CaptureInv, Sound
  <1> DEFINE next == IF cap[c].then = "running" THEN "flush" ELSE cap[c].then
             new == [cap[c] EXCEPT !.owned = 0, !.phase = next]
  <1>2. /\ next \in {"flush", "failed", "uncertain"} /\ next \in Phases
        /\ next = "failed" => ~cap[c].published
    BY <1>1 DEF Calls, Phases, Outcomes, Holding
  <1>3. cap[c].dir # 0
    BY <1>1 DEF Holding, Inside
  <1>4. cap' = [cap EXCEPT ![c] = new]
    BY DEF AfterClean
  <1> HIDE DEF next
  <1>5. /\ new \in Calls /\ new.phase = next /\ new.owned = 0
        /\ new.expected = cap[c].expected /\ new.dir = cap[c].dir
        /\ new.name = cap[c].name /\ new.published = cap[c].published
        /\ new.then = cap[c].then
    <2>1. 0 \in 0..Len(file)
      BY <1>1
    <2> QED BY <1>1, <1>2, <2>1 DEF Calls
  <1> HIDE DEF new
  <1> QED BY <1>1, <1>2, <1>3, <1>4, <1>5

\* The temporary name is taken away, or was already another's.
LEMMA CleanKeeps ==
    ASSUME CaptureInv, NEW c \in Sessions, StatClean(c) \/ Unlink(c)
    PROVE  CaptureInv'
  <1>1. /\ CaptureTypeOK /\ cap[c] \in Calls /\ Sound(c) /\ Len(file) \in Nat
        /\ Len(dir) \in Nat /\ DOMAIN dir = 1..Len(dir) /\ stamp \in Nat
        /\ dir \in Seq(Directories)
    BY Parts DEF CaptureInv
  <1>2. CountersOK' /\ file' = file /\ place' = place /\ placed' = placed
    BY <1>1 DEF StatClean, Unlink, CaptureTypeOK, counters, CountersOK, store
  <1>3. CASE Go(c, "unlink") /\ UNCHANGED store /\ cap[c].phase = "clean"
    <2>1. "clean" \in Inside /\ "unlink" \in Phases
          /\ "unlink" \notin Before \cup Linking \cup Filling \cup {"failed", "final", "confirm", "captured"}
      BY DEF Inside, Phases, Before, Linking, Filling
    <2> QED BY <1>2, <1>3, <2>1, StoreSame, GoneOn
  <1>4. CASE /\ AfterClean(c) /\ cap[c].phase \in {"clean", "unlink"}
             /\ (dir' = dir /\ stamp' = stamp) \/ (dir' = SetEntry(cap[c].dir, c, 0) /\ Now)
    <2>1. /\ cap' \in [Sessions -> Calls] /\ \A q \in Sessions \ {c} : cap'[q] = cap[q]
          /\ cap'[c].phase \in {"flush", "failed", "uncertain"}
          /\ cap'[c].phase = "failed" => ~cap[c].published
          /\ cap'[c].owned = 0 /\ cap[c].dir # 0
          /\ cap'[c].expected = cap[c].expected /\ cap'[c].dir = cap[c].dir
          /\ cap'[c].name = cap[c].name /\ cap'[c].published = cap[c].published
          /\ cap'[c].then = cap[c].then
      BY <1>4, Cleaned
    <2>2. c \in Entries /\ \A q \in Sessions : cap[q].name \in Entries /\ cap[q].name # c
      BY Parts, InboxAssumption DEF CaptureInv, Calls, Entries
    <2>3. cap[c].dir \in DOMAIN dir
      <3>1. cap[c].dir \in 0..Len(dir)
        BY <1>1 DEF Calls
      <3> QED BY <1>1, <2>1, <3>1
    <2>4. /\ dir' \in Seq(Directories)' /\ Len(dir') = Len(dir) /\ DOMAIN dir' = DOMAIN dir
          /\ \A x \in DOMAIN dir : dir'[x].disk = dir[x].disk
          /\ \A x \in DOMAIN dir, f \in Entries \ {c} : dir'[x].entry[f] = dir[x].entry[f]
          /\ \A f \in Entries : \A i : LeadsTo(f, i)' => LeadsTo(f, i)
      <3>1. CASE dir' = dir
        BY <1>1, <1>2, <3>1 DEF Directories, LeadsTo
      <3>2. CASE dir' = SetEntry(cap[c].dir, c, 0)
        <4>1. 0 \in 0..Len(file)' /\ Len(file)' \in Nat /\ Len(file) <= Len(file)'
          BY <1>1, <1>2
        <4>2. /\ dir' \in Seq(Directories)' /\ Len(dir') = Len(dir) /\ DOMAIN dir' = DOMAIN dir
              /\ \A x \in DOMAIN dir : dir'[x].disk = dir[x].disk
              /\ \A x \in DOMAIN dir, f \in Entries :
                     dir'[x].entry[f] = IF x = cap[c].dir /\ f = c THEN 0 ELSE dir[x].entry[f]
              /\ \A f \in Entries : \A i : LeadsTo(f, i)' => LeadsTo(f, i) \/ <<f, i>> \in {<<c, 0>>}
          BY <1>1, <2>2, <2>3, <3>2, <4>1, EntrySet
        <4>3. \A f \in Entries : \A i : LeadsTo(f, i)' => i # 0
          BY DEF LeadsTo
        <4> QED BY <4>2, <4>3
      <3> QED BY <1>4, <3>1, <3>2
    <2>5. /\ Calls \subseteq Calls' /\ file' \in Seq(Files) /\ Len(file)' = Len(file)
          /\ Inodes' = Inodes /\ \A i : Whole(i)' = Whole(i)
      BY <1>1, <1>2, <2>4, SameFiles
    <2>6. CaptureTypeOK'
      <3>1. place' \in [Buckets -> 0..Len(dir')] /\ placed' \in [Buckets -> 0..Len(dir')]
        BY <1>1, <1>2, <2>4 DEF CaptureTypeOK
      <3>2. stamp' \in Nat
        BY <1>1, <1>4 DEF Now
      <3>3. cap' \in [Sessions -> Calls']
        BY <2>1, <2>5
      <3> QED BY <1>2, <2>4, <2>5, <3>1, <3>2, <3>3, TypeAssembled
    <2>7. {"flush", "failed", "uncertain"} \cap (Before \cup Filling \cup Linking \cup {"sync", "final", "confirm", "captured"}) = {}
      BY DEF Before, Filling, Linking
    <2>8. Sound(c)'
      <3>1. Holding(c)'
        BY <1>1, <2>1, <2>5, <2>7 DEF Sound, Holding
      <3>2. TemporaryWhole(c)'
        BY <2>1, <2>7 DEF TemporaryWhole
      <3>3. Private(c)'
        <4>1. \A e \in Entries : ~LeadsTo(e, 0)'
          BY DEF LeadsTo
        <4> QED BY <1>1, <2>1, <2>4, <4>1 DEF Sound, Private
      <3>4. LinkDurable(c)'
        BY <1>1, <2>1, <2>2, <2>4, <2>7 DEF Sound, LinkDurable
      <3> QED BY <3>1, <3>2, <3>3, <3>4 DEF Sound
    <2>9. \A q \in Sessions \ {c} : Bystander(q)
      <3>1. \A q \in Sessions : cap[q].phase = "sync" => file[cap[q].owned].content # Partial
        BY DEF CaptureInv, Sound, TemporaryWhole
      <3> QED BY <1>2, <2>1, <2>2, <2>4, <3>1 DEF Bystander
    <2>10. /\ cap'[c].name = cap[c].name /\ Len(file) <= Len(file)'
           /\ \A e \in Entries \ {c}, i \in Inodes : LeadsTo(e, i) /\ Whole(i) => Whole(i)'
      BY <1>1, <2>1, <2>5
    <2> QED BY <2>4, <2>6, <2>8, <2>9, <2>10, OwnMove
  <1>5. CASE StatClean(c)
    BY <1>3, <1>4, <1>5 DEF StatClean, store
  <1>6. CASE Unlink(c)
    BY <1>4, <1>6 DEF Unlink
  <1> QED BY <1>5, <1>6

\* A directory with all its entries on disk.
LEMMA FlushKeeps ==
    ASSUME CaptureInv, NEW c \in Sessions, FlushDirectory(c)
    PROVE  CaptureInv'
  <1> DEFINE d == cap[c].dir
             r == [dir[d] EXCEPT !.disk = dir[d].entry]
  <1>1. /\ CaptureTypeOK /\ cap[c] \in Calls /\ Sound(c) /\ Len(file) \in Nat
        /\ Len(dir) \in Nat /\ DOMAIN dir = 1..Len(dir) /\ stamp \in Nat
        /\ dir \in Seq(Directories)
    BY Parts DEF CaptureInv
  <1>2. /\ file' = file /\ place' = place /\ placed' = placed /\ stamp' = stamp
        /\ cap[c].phase = "flush" /\ Go(c, "final") /\ dir' = [dir EXCEPT ![d] = r]
        /\ UNCHANGED counters
    BY DEF FlushDirectory, Flushed
  <1>3. CountersOK'
    BY <1>1, <1>2 DEF CaptureTypeOK, counters, CountersOK
  <1>4. /\ "flush" \in Inside /\ "final" \in Phases /\ "final" \in Inside
        /\ "final" \notin Before \cup Filling \cup Linking \cup {"failed", "sync"}
    BY DEF Inside, Phases, Before, Filling, Linking
  <1>5. d # 0 /\ d \in DOMAIN dir
    <2>1. d \in 0..Len(dir)
      BY <1>1 DEF Calls
    <2>2. d # 0
      BY <1>1, <1>2, <1>4 DEF Sound, Holding
    <2> QED BY <1>1, <2>1, <2>2
  <1>6. dir[d] \in Directories
    BY <1>5, Parts DEF CaptureInv
  <1>7. r \in Directories /\ r.entry = dir[d].entry /\ r.disk = dir[d].entry
    <2> DEFINE S == [Entries -> 0..Len(file)]
    <2>1. Directories = [entry : S, disk : S, stamp : Nat]
      BY DEF Directories
    <2>2. dir[d] \in [entry : S, disk : S, stamp : Nat]
      BY <1>6, <2>1
    <2> HIDE DEF S
    <2> QED BY <2>1, <2>2
  <1> HIDE DEF r
  <1>8. /\ cap' \in [Sessions -> Calls] /\ \A q \in Sessions \ {c} : cap'[q] = cap[q]
        /\ cap'[c].phase = "final" /\ cap'[c].owned = cap[c].owned
        /\ cap'[c].expected = cap[c].expected /\ cap'[c].dir = d
        /\ cap'[c].name = cap[c].name /\ cap'[c].published = cap[c].published
        /\ cap'[c].then = cap[c].then
    BY <1>2, <1>4, Went
  <1> HIDE DEF d
  <1>9. /\ dir' \in Seq(Directories) /\ Len(dir') = Len(dir) /\ DOMAIN dir' = DOMAIN dir
        /\ \A x \in DOMAIN dir \ {d} : dir'[x] = dir[x]
        /\ dir'[d].entry = dir[d].entry /\ dir'[d].disk = dir[d].entry
    BY <1>1, <1>2, <1>5, <1>7
  <1>10. \A e, i : LeadsTo(e, i)' => LeadsTo(e, i)
    BY <1>5, <1>9 DEF LeadsTo
  <1>11. /\ Calls \subseteq Calls' /\ Directories' = Directories /\ file' \in Seq(Files)
         /\ Len(file)' = Len(file) /\ Inodes' = Inodes /\ \A i : Whole(i)' = Whole(i)
    BY <1>1, <1>2, <1>9, SameFiles
  <1>12. CaptureTypeOK'
    <2>1. place' \in [Buckets -> 0..Len(dir')] /\ placed' \in [Buckets -> 0..Len(dir')]
      BY <1>1, <1>2, <1>9 DEF CaptureTypeOK
    <2>2. dir' \in Seq(Directories') /\ stamp' \in Nat
      BY <1>1, <1>2, <1>9, <1>11
    <2>3. cap' \in [Sessions -> Calls']
      BY <1>8, <1>11
    <2> QED BY <1>3, <1>11, <2>1, <2>2, <2>3, TypeAssembled
  <1>13. Sound(c)'
    <2>1. Holding(c)'
      BY <1>1, <1>4, <1>5, <1>8, <1>11 DEF Sound, Holding
    <2>2. TemporaryWhole(c)'
      BY <1>4, <1>8 DEF TemporaryWhole
    <2>3. Private(c)'
      BY <1>1, <1>8, <1>10 DEF Sound, Private
    <2>4. LinkDurable(c)'
      <3>1. \A x \in DOMAIN dir \ {d} : dir[x].disk[cap[c].name] = dir[x].entry[cap[c].name]
        BY <1>1 DEF Sound, LinkDurable, d
      <3>2. \A x \in DOMAIN dir' : dir'[x].disk[cap[c].name] = dir'[x].entry[cap[c].name]
        BY <1>9, <3>1
      <3> QED BY <1>8, <3>2 DEF LinkDurable
    <2> QED BY <2>1, <2>2, <2>3, <2>4 DEF Sound
  <1>14. \A q \in Sessions \ {c} : Bystander(q)
    <2>1. \A q \in Sessions : cap[q].phase = "sync" => file[cap[q].owned].content # Partial
      BY DEF CaptureInv, Sound, TemporaryWhole
    <2> QED BY <1>2, <1>8, <1>9, <2>1 DEF Bystander
  <1>15. /\ cap'[c].name = cap[c].name /\ Len(file) <= Len(file)'
         /\ \A e \in Entries \ {c}, i \in Inodes : LeadsTo(e, i) /\ Whole(i) => Whole(i)'
    BY <1>1, <1>8, <1>11
  <1> QED BY <1>10, <1>12, <1>13, <1>14, <1>15, OwnMove

-----------------------------------------------------------------------------
(* The other writers, and power loss. *)

\* What a step of another writer leaves alone.
LEMMA Edited ==
    ASSUME CaptureInv, Edit
    PROVE  CountersOK' /\ cap' = cap
  <1>1. edits \in 0..MaxEdits /\ faults \in 0..MaxFaults /\ crashes \in 0..MaxCrashes
    BY DEF CaptureInv, CaptureTypeOK
  <1> QED BY <1>1, InboxAssumption DEF Edit, CountersOK

\* Other writers rewrite a file as a whole.
LEMMA RewriteKeeps ==
    ASSUME CaptureInv, NEW j \in Inodes, NEW x \in Contents, Rewrite(j, x)
    PROVE  CaptureInv'
  <1>1. /\ CaptureTypeOK /\ Len(file) \in Nat /\ Inodes = 1..Len(file) /\ stamp \in Nat
        /\ Len(dir) \in Nat /\ dir \in Seq(Directories) /\ file[j] \in Files
        /\ cap \in [Sessions -> Calls]
    BY Parts DEF CaptureInv
  <1> DEFINE r == [file[j] EXCEPT !.content = x, !.mtime = stamp + 1, !.ctime = stamp + 1]
  <1>2. /\ file' = [file EXCEPT ![j] = r] /\ dir' = dir /\ place' = place /\ placed' = placed
        /\ stamp' = stamp + 1 /\ CountersOK' /\ cap' = cap
    BY Edited DEF Rewrite, Now
  <1>3. r \in Files /\ r.content = x /\ r.synced = file[j].synced /\ x # Partial
    <2>1. x # Partial
      BY InboxAssumption
    <2>2. stamp + 1 \in Nat
      BY <1>1
    <2>3. r.content = x /\ r.synced = file[j].synced
      BY <1>1 DEF Files
    <2>4. r \in Files
      BY <1>1, <2>2 DEF Files
    <2> QED BY <2>1, <2>3, <2>4
  <1> HIDE DEF r
  <1>4. /\ file' \in Seq(Files) /\ Len(file)' = Len(file) /\ Inodes' = Inodes /\ file'[j] = r
        /\ \A i \in Inodes \ {j} : file'[i] = file[i] /\ Whole(i)' = Whole(i)
    BY <1>1, <1>2, <1>3, FileSet
  <1>5. \A e, i : LeadsTo(e, i)' = LeadsTo(e, i)
    BY <1>2 DEF LeadsTo
  <1>6. \A i \in Inodes : Whole(i) => Whole(i)'
    <2>1. Whole(j) => Whole(j)'
      BY <1>3, <1>4 DEF Whole
    <2> QED BY <1>4, <2>1
  <1>7. CaptureTypeOK'
    <2>1. Calls \subseteq Calls' /\ Directories \subseteq Directories'
      BY <1>1, <1>2, <1>4, Larger
    <2>2. place' \in [Buckets -> 0..Len(dir')] /\ placed' \in [Buckets -> 0..Len(dir')]
      BY <1>1, <1>2 DEF CaptureTypeOK
    <2>3. dir' \in Seq(Directories') /\ stamp' \in Nat /\ cap' \in [Sessions -> Calls']
      BY <1>1, <1>2, <2>1
    <2> QED BY <1>2, <1>4, <2>2, <2>3, TypeAssembled
  <1>8. \A q \in Sessions : Bystander(q)
    <2>1. ASSUME NEW q \in Sessions, cap[q].phase = "sync"
          PROVE  file'[cap[q].owned].content # Partial
      <3>1. cap[q].owned \in Inodes /\ file[cap[q].owned].content # Partial
        BY <2>1, Filled DEF Filling
      <3> QED BY <1>3, <1>4, <3>1
    <2> QED BY <1>2, <2>1 DEF Bystander
  <1> DEFINE added == {}
  <1>9. \A z : z \notin added
    OBVIOUS
  <1>10. Len(file) <= Len(file)'
    BY <1>1, <1>4
  <1> HIDE DEF added
  <1> QED BY <1>5, <1>6, <1>7, <1>8, <1>9, <1>10, OtherMove

\* A directory in which an entry and what is on disk of it are set together.
LEMMA EntryReplaced ==
    ASSUME CaptureTypeOK, NEW d \in DOMAIN dir, NEW e \in Entries, NEW i \in 0..Len(file)',
           Len(file)' \in Nat, Len(file) <= Len(file)',
           dir' = [SetEntry(d, e, i) EXCEPT ![d].disk[e] = i]
    PROVE  /\ dir' \in Seq(Directories)' /\ Len(dir') = Len(dir) /\ DOMAIN dir' = DOMAIN dir
           /\ \A x \in DOMAIN dir, f \in Entries :
                  dir'[x].disk[f] = IF x = d /\ f = e THEN i ELSE dir[x].disk[f]
           /\ \A x \in DOMAIN dir, f \in Entries :
                  dir'[x].entry[f] = IF x = d /\ f = e THEN i ELSE dir[x].entry[f]
           /\ \A f \in Entries : \A j : LeadsTo(f, j)' => LeadsTo(f, j) \/ <<f, j>> \in {<<e, i>>}
  <1>1. /\ dir \in Seq(Directories) /\ DOMAIN dir = 1..Len(dir) /\ Len(dir) \in Nat /\ stamp \in Nat
        /\ \A x \in DOMAIN dir : dir[x] \in Directories
    BY Parts
  <1>2. Directories \subseteq Directories'
    <2>1. 0..Len(file) \subseteq 0..Len(file)'
      BY Parts
    <2> QED BY <2>1 DEF Directories, Entries
  <1> DEFINE S == [Entries -> 0..Len(file)']
             a == [dir[d].entry EXCEPT ![e] = i]
             b == [dir[d].disk EXCEPT ![e] = i]
             set == [dir[d] EXCEPT !.entry = a, !.stamp = stamp + 1]
             new == [set EXCEPT !.disk = b]
  <1>3. Directories' = [entry : S, disk : S, stamp : Nat]
    BY DEF Directories, Entries
  <1>4. /\ dir[d] \in [entry : S, disk : S, stamp : Nat] /\ stamp + 1 \in Nat
        /\ dir[d].entry \in S /\ dir[d].disk \in S
    <2>1. dir[d] \in [entry : S, disk : S, stamp : Nat]
      BY <1>1, <1>2, <1>3
    <2> HIDE DEF S
    <2> QED BY <1>1, <2>1
  <1>5. a \in S /\ b \in S
    BY <1>4
  <1> HIDE DEF S, a, b
  <1>6. set \in [entry : S, disk : S, stamp : Nat] /\ set.entry = a /\ set.disk = dir[d].disk
    BY <1>4, <1>5, EntryRecord
  <1>7. SetEntry(d, e, i) = [dir EXCEPT ![d] = set]
    BY DEF SetEntry, a
  <1> HIDE DEF set
  <1>8. SetEntry(d, e, i)[d] = set /\ d \in DOMAIN SetEntry(d, e, i)
    BY <1>1, <1>7
  <1>9. dir' = [dir EXCEPT ![d] = new]
    <2>1. set.disk = dir[d].disk /\ [set.disk EXCEPT ![e] = i] = b
      BY <1>6 DEF b
    <2>2. dir' = [SetEntry(d, e, i) EXCEPT ![d] = [SetEntry(d, e, i)[d] EXCEPT
                     !.disk = [SetEntry(d, e, i)[d].disk EXCEPT ![e] = i]]]
      OBVIOUS
    <2>3. dir' = [SetEntry(d, e, i) EXCEPT ![d] = new]
      <3>1. [SetEntry(d, e, i)[d] EXCEPT !.disk = [SetEntry(d, e, i)[d].disk EXCEPT ![e] = i]]
            = [set EXCEPT !.disk = [set.disk EXCEPT ![e] = i]]
        BY <1>8
      <3>2. [set EXCEPT !.disk = [set.disk EXCEPT ![e] = i]] = new
        BY <2>1
      <3> QED BY <2>2, <3>1, <3>2
    <2> HIDE DEF new
    <2> QED BY <1>1, <1>7, <2>3
  <1>10. new \in Directories' /\ new.entry = a /\ new.disk = b
    BY <1>3, <1>5, <1>6
  <1> HIDE DEF new
  <1>11. /\ dir' \in Seq(Directories)' /\ Len(dir') = Len(dir) /\ DOMAIN dir' = DOMAIN dir
         /\ \A x \in DOMAIN dir : dir'[x] = IF x = d THEN new ELSE dir[x]
    <2>1. dir \in Seq(Directories')
      BY <1>1, <1>2
    <2>2. new \in Directories' /\ d \in 1..Len(dir)
      BY <1>1, <1>10
    <2>3. [dir EXCEPT ![d] = new] \in Seq(Directories')
      BY <2>1, <2>2
    <2>4. /\ Len([dir EXCEPT ![d] = new]) = Len(dir) /\ DOMAIN [dir EXCEPT ![d] = new] = DOMAIN dir
          /\ \A x \in DOMAIN dir : [dir EXCEPT ![d] = new][x] = IF x = d THEN new ELSE dir[x]
      BY <1>1
    <2> QED BY <1>9, <2>3, <2>4
  <1>12. \A x \in DOMAIN dir, f \in Entries :
             /\ dir'[x].disk[f] = IF x = d /\ f = e THEN i ELSE dir[x].disk[f]
             /\ dir'[x].entry[f] = IF x = d /\ f = e THEN i ELSE dir[x].entry[f]
    <2>1. DOMAIN dir[d].disk = Entries /\ DOMAIN dir[d].entry = Entries
      BY <1>4 DEF S
    <2> QED BY <1>10, <1>11, <2>1 DEF a, b
  <1>13. \A f \in Entries : \A j : LeadsTo(f, j)' => LeadsTo(f, j) \/ <<f, j>> \in {<<e, i>>}
    BY <1>11, <1>12 DEF LeadsTo
  <1> QED BY <1>11, <1>12, <1>13

\* Other writers put whole and synced files under .md names.
LEMMA PutKeeps ==
    ASSUME CaptureInv, NEW d \in DOMAIN dir, NEW e \in Entries, NEW x \in Contents, Put(d, e, x)
    PROVE  CaptureInv'
  <1> DEFINE j == Len(file) + 1
  <1>1. /\ CaptureTypeOK /\ Len(file) \in Nat /\ Inodes = 1..Len(file) /\ stamp \in Nat
        /\ Len(dir) \in Nat /\ cap \in [Sessions -> Calls]
    BY Parts DEF CaptureInv
  <1>2. /\ file' = NewFile(x, TRUE) /\ place' = place /\ placed' = placed
        /\ dir' = [SetEntry(d, e, Len(file')) EXCEPT ![d].disk[e] = Len(file')]
        /\ stamp' = stamp + 1 /\ CountersOK' /\ cap' = cap
    BY Edited DEF Put, Now
  <1>3. /\ file' \in Seq(Files) /\ Len(file)' = j /\ Inodes' = 1..j
        /\ \A i \in Inodes : file'[i] = file[i] /\ Whole(i)' = Whole(i)
        /\ file'[j].content = x /\ file'[j].synced
    <2>1. x \in Contents \cup {Partial} /\ TRUE \in BOOLEAN
      OBVIOUS
    <2> QED BY <1>1, <1>2, <2>1, FileMade
  <1>4. /\ dir' \in Seq(Directories)' /\ Len(dir') = Len(dir) /\ DOMAIN dir' = DOMAIN dir
        /\ \A y \in DOMAIN dir, f \in Entries :
               dir'[y].disk[f] = IF y = d /\ f = e THEN j ELSE dir[y].disk[f]
        /\ \A y \in DOMAIN dir, f \in Entries :
               dir'[y].entry[f] = IF y = d /\ f = e THEN j ELSE dir[y].entry[f]
        /\ \A f \in Entries : \A i : LeadsTo(f, i)' => LeadsTo(f, i) \/ <<f, i>> \in {<<e, j>>}
    <2>1. j \in 0..Len(file)' /\ Len(file)' \in Nat /\ Len(file) <= Len(file)'
      BY <1>1, <1>3
    <2>2. Len(file') = j
      BY <1>3
    <2> HIDE DEF j
    <2>3. dir' = [SetEntry(d, e, j) EXCEPT ![d].disk[e] = j]
      BY <1>2, <2>2
    <2> QED BY <1>1, <2>1, <2>3, EntryReplaced
  <1>5. PICK k : k = j
    OBVIOUS
  <1>6. Whole(k)'
    BY <1>3, <1>5, InboxAssumption DEF Whole
  <1>7. CaptureTypeOK'
    <2>1. Calls \subseteq Calls'
      BY <1>1, <1>3, <1>4, Larger
    <2>2. place' \in [Buckets -> 0..Len(dir')] /\ placed' \in [Buckets -> 0..Len(dir')]
      BY <1>1, <1>2, <1>4 DEF CaptureTypeOK
    <2>3. stamp' \in Nat /\ cap' \in [Sessions -> Calls']
      BY <1>1, <1>2, <2>1
    <2> QED BY <1>2, <1>3, <1>4, <2>2, <2>3, TypeAssembled
  <1>8. \A q \in Sessions : Bystander(q)
    <2>1. ASSUME NEW q \in Sessions PROVE Bystander(q)
      <3>1. cap[q].name \in Entries
        BY Parts DEF CaptureInv, Calls, Entries
      <3>2. cap[q].phase = "sync" => file'[cap[q].owned].content # Partial
        <4>1. cap[q].phase = "sync" => cap[q].owned \in Inodes /\ file[cap[q].owned].content # Partial
          BY Filled DEF Filling
        <4> QED BY <1>3, <4>1
      <3>3. \A y \in DOMAIN dir' :
                 \/ dir'[y].disk[cap[q].name] = dir'[y].entry[cap[q].name]
                 \/ /\ y \in DOMAIN dir
                    /\ dir'[y].disk[cap[q].name] = dir[y].disk[cap[q].name]
                    /\ dir'[y].entry[cap[q].name] = dir[y].entry[cap[q].name]
        BY <1>4, <3>1
      <3> QED BY <1>2, <3>2, <3>3 DEF Bystander
    <2> QED BY <2>1
  <1> DEFINE added == {<<e, k>>}
  <1>9. k = Len(file) + 1
    BY <1>5
  <1> HIDE DEF j
  <1>10. \A f \in Entries, i \in Inodes' : LeadsTo(f, i)' => LeadsTo(f, i) \/ <<f, i>> \in added
    BY <1>4, <1>5
  <1>11. /\ \A f \in Entries, i \in Inodes' : <<f, i>> \in added => Whole(i)'
         /\ \A f \in Entries : \A i : <<f, i>> \in added => i > Len(file)
    BY <1>1, <1>6, <1>9
  <1>12. /\ Len(file) <= Len(file)'
         /\ \A f \in Entries, i \in Inodes : LeadsTo(f, i) /\ Whole(i) => Whole(i)'
    BY <1>1, <1>3, <1>5, <1>9
  <1> HIDE DEF added
  <1> QED BY <1>7, <1>8, <1>10, <1>11, <1>12, OtherMove

\* A drain takes a name away and leaves every other entry.
LEMMA DrainFileKeeps ==
    ASSUME CaptureInv, NEW d \in DOMAIN dir, NEW e \in Entries, DrainFile(d, e)
    PROVE  CaptureInv'
  <1>1. /\ CaptureTypeOK /\ Len(file) \in Nat /\ stamp \in Nat
        /\ Len(dir) \in Nat /\ cap \in [Sessions -> Calls]
    BY Parts DEF CaptureInv
  <1>2. /\ file' = file /\ place' = place /\ placed' = placed
        /\ dir' = [SetEntry(d, e, 0) EXCEPT ![d].disk[e] = 0]
        /\ stamp' = stamp + 1 /\ CountersOK' /\ cap' = cap
    BY Edited DEF DrainFile, Now
  <1>3. /\ dir' \in Seq(Directories)' /\ Len(dir') = Len(dir) /\ DOMAIN dir' = DOMAIN dir
        /\ \A y \in DOMAIN dir, f \in Entries :
               dir'[y].disk[f] = IF y = d /\ f = e THEN 0 ELSE dir[y].disk[f]
        /\ \A y \in DOMAIN dir, f \in Entries :
               dir'[y].entry[f] = IF y = d /\ f = e THEN 0 ELSE dir[y].entry[f]
        /\ \A f \in Entries : \A i : LeadsTo(f, i)' => LeadsTo(f, i) \/ <<f, i>> \in {<<e, 0>>}
    <2>1. 0 \in 0..Len(file)' /\ Len(file)' \in Nat /\ Len(file) <= Len(file)'
      BY <1>1, <1>2
    <2> QED BY <1>1, <1>2, <2>1, EntryReplaced
  <1>4. /\ Calls \subseteq Calls' /\ file' \in Seq(Files) /\ Len(file)' = Len(file)
        /\ \A i : Whole(i)' = Whole(i)
    BY <1>1, <1>2, <1>3, SameFiles
  <1>5. CaptureTypeOK'
    <2>1. place' \in [Buckets -> 0..Len(dir')] /\ placed' \in [Buckets -> 0..Len(dir')]
      BY <1>1, <1>2, <1>3 DEF CaptureTypeOK
    <2>2. stamp' \in Nat /\ cap' \in [Sessions -> Calls']
      BY <1>1, <1>2, <1>4
    <2> QED BY <1>2, <1>3, <1>4, <2>1, <2>2, TypeAssembled
  <1>6. \A q \in Sessions : Bystander(q)
    <2>1. \A q \in Sessions :
              cap[q].name \in Entries /\ (cap[q].phase = "sync" => file[cap[q].owned].content # Partial)
      BY Parts DEF CaptureInv, Calls, Entries, Sound, TemporaryWhole
    <2> QED BY <1>2, <1>3, <2>1 DEF Bystander
  <1> DEFINE added == {}
  <1>7. \A f \in Entries, i \in Inodes' : LeadsTo(f, i)' => LeadsTo(f, i) \/ <<f, i>> \in added
    <2>1. \A f \in Entries : ~LeadsTo(f, 0)'
      BY DEF LeadsTo
    <2> QED BY <1>3, <2>1
  <1>8. (\A z : z \notin added) /\ Len(file) <= Len(file)'
    BY <1>1, <1>4
  <1> HIDE DEF added
  <1> QED BY <1>4, <1>5, <1>6, <1>7, <1>8, OtherMove

\* A bucket that is moved keeps its directory and loses its path.
LEMMA MoveBucketKeeps ==
    ASSUME CaptureInv, NEW b \in Buckets, MoveBucket(b)
    PROVE  CaptureInv'
  <1>1. /\ CaptureTypeOK /\ Len(file) \in Nat /\ stamp \in Nat /\ Len(dir) \in Nat
        /\ DOMAIN dir = 1..Len(dir) /\ dir \in Seq(Directories) /\ cap \in [Sessions -> Calls]
    BY Parts DEF CaptureInv
  <1>2. /\ file' = file /\ placed' = [placed EXCEPT ![b] = place'[b]]
        /\ stamp' = stamp + 1 /\ CountersOK' /\ cap' = cap
    BY Edited DEF MoveBucket, Now
  <1>3. /\ dir' \in Seq(Directories') /\ Len(dir') \in Nat /\ Len(dir) <= Len(dir')
        /\ \A d \in DOMAIN dir : d \in DOMAIN dir' /\ dir'[d] = dir[d]
        /\ \A d \in DOMAIN dir' \ DOMAIN dir, e \in Entries : dir'[d].entry[e] = 0 /\ dir'[d].disk[e] = 0
        /\ \A e \in Entries : \A i : LeadsTo(e, i)' => LeadsTo(e, i)
        /\ place' \in [Buckets -> 0..Len(dir')] /\ placed' \in [Buckets -> 0..Len(dir')]
    <2>1. place \in [Buckets -> 0..Len(dir)] /\ placed \in [Buckets -> 0..Len(dir)]
      BY <1>1 DEF CaptureTypeOK
    <2>2. CASE dir' = NewDirectory /\ place' = [place EXCEPT ![b] = Len(dir')]
      <3>1. /\ dir' \in Seq(Directories') /\ Len(dir') = Len(dir) + 1
            /\ DOMAIN dir' = 1..(Len(dir) + 1)
            /\ \A d \in DOMAIN dir : dir'[d] = dir[d]
            /\ \A d \in DOMAIN dir' \ DOMAIN dir, e \in Entries : dir'[d].entry[e] = 0 /\ dir'[d].disk[e] = 0
            /\ \A e \in Entries : \A i : LeadsTo(e, i)' => LeadsTo(e, i)
        BY <1>1, <1>2, <2>2, DirectoryMade
      <3>2. place' \in [Buckets -> 0..Len(dir')]
        BY <1>1, <2>1, <2>2, <3>1
      <3>3. placed' \in [Buckets -> 0..Len(dir')]
        BY <1>1, <1>2, <2>1, <3>1, <3>2
      <3> QED BY <1>1, <3>1, <3>2, <3>3
    <2>3. CASE place' = [place EXCEPT ![b] = 0] /\ dir' = dir
      <3>1. Directories' = Directories
        BY <1>2 DEF Directories
      <3>2. \A e \in Entries : \A i : LeadsTo(e, i)' => LeadsTo(e, i)
        BY <2>3 DEF LeadsTo
      <3>3. place' \in [Buckets -> 0..Len(dir')]
        BY <1>1, <2>1, <2>3
      <3>4. placed' \in [Buckets -> 0..Len(dir')]
        BY <1>1, <1>2, <2>1, <2>3, <3>3
      <3> QED BY <1>1, <2>3, <3>1, <3>2, <3>3, <3>4
    <2> QED BY <2>2, <2>3 DEF MoveBucket
  <1>4. /\ Calls \subseteq Calls' /\ file' \in Seq(Files) /\ Len(file)' = Len(file)
        /\ \A i : Whole(i)' = Whole(i)
    BY <1>1, <1>2, <1>3, SameFiles
  <1>5. CaptureTypeOK'
    <2>1. stamp' \in Nat /\ cap' \in [Sessions -> Calls']
      BY <1>1, <1>2, <1>4
    <2> QED BY <1>2, <1>3, <1>4, <2>1, TypeAssembled
  <1>6. \A q \in Sessions : Bystander(q)
    <2>1. \A q \in Sessions :
              cap[q].name \in Entries /\ (cap[q].phase = "sync" => file[cap[q].owned].content # Partial)
      BY Parts DEF CaptureInv, Calls, Entries, Sound, TemporaryWhole
    <2> QED BY <1>2, <1>3, <2>1 DEF Bystander
  <1> DEFINE added == {}
  <1>7. \A f \in Entries, i \in Inodes' : LeadsTo(f, i)' => LeadsTo(f, i) \/ <<f, i>> \in added
    BY <1>3
  <1>8. (\A z : z \notin added) /\ Len(file) <= Len(file)'
    BY <1>1, <1>4
  <1> HIDE DEF added
  <1> QED BY <1>4, <1>5, <1>6, <1>7, <1>8, OtherMove

\* A power loss leaves of each entry what was seen or what was on disk, and both lead to whole
\* files.
LEMMA CrashKeeps ==
    ASSUME CaptureInv, Crash
    PROVE  CaptureInv'
  <1>1. /\ CaptureTypeOK /\ Len(file) \in Nat /\ Inodes = 1..Len(file) /\ stamp \in Nat
        /\ file \in Seq(Files) /\ \A i \in Inodes : file[i] \in Files
        /\ Len(dir) \in Nat /\ DOMAIN dir = 1..Len(dir) /\ dir \in Seq(Directories)
        /\ \A d \in DOMAIN dir : dir[d] \in Directories
        /\ cap \in [Sessions -> Calls] /\ \A c \in Sessions : cap[c] \in Calls
    BY Parts DEF CaptureInv
  <1>2. PICK lost \in SUBSET ((DOMAIN dir) \X Entries), torn \in SUBSET Inodes, gone \in SUBSET Buckets :
         /\ \A l \in lost : dir[l[1]].entry[l[2]] # dir[l[1]].disk[l[2]]
         /\ \A i \in torn : ~file[i].synced
         /\ \A b \in gone : place[b] # placed[b]
         /\ dir' = [d \in DOMAIN dir |-> LET now == [e \in Entries |->
                        IF <<d, e>> \in lost THEN dir[d].disk[e] ELSE dir[d].entry[e]]
                    IN [entry |-> now, disk |-> now, stamp |-> stamp + 1]]
         /\ file' = [i \in Inodes |->
                        [file[i] EXCEPT !.content = IF i \in torn THEN Partial ELSE @,
                                        !.synced = TRUE]]
         /\ place' = [b \in Buckets |-> IF b \in gone THEN placed[b] ELSE place[b]]
    BY Zenon DEF Crash
  <1>3. /\ placed' = place' /\ stamp' = stamp + 1 /\ edits' = edits /\ faults' = faults
        /\ crashes < MaxCrashes /\ crashes' = crashes + 1
        /\ cap' = [c \in Sessions |-> IF Running(c) THEN [cap[c] EXCEPT !.phase = "killed"] ELSE cap[c]]
    BY DEF Crash, Now
  <1> DEFINE now(d) == [e \in Entries |-> IF <<d, e>> \in lost THEN dir[d].disk[e] ELSE dir[d].entry[e]]
             r(i) == [file[i] EXCEPT !.content = IF i \in torn THEN Partial ELSE file[i].content,
                                     !.synced = TRUE]
  <1>4. ASSUME NEW i \in Inodes
        PROVE  /\ file'[i] = r(i) /\ r(i) \in Files /\ r(i).synced
               /\ r(i).content = IF i \in torn THEN Partial ELSE file[i].content
    <2>1. file[i] \in Files
      BY <1>1
    <2>2. file'[i] = r(i)
      BY <1>2
    <2>3. (IF i \in torn THEN Partial ELSE file[i].content) \in Contents \cup {Partial}
      BY <2>1 DEF Files
    <2> QED BY <2>1, <2>2, <2>3 DEF Files
  <1> HIDE DEF r
  <1>5. /\ file' \in Seq(Files) /\ Len(file)' = Len(file) /\ Inodes' = Inodes
    <2>1. file' = [i \in 1..Len(file) |-> r(i)]
      BY <1>1, <1>2 DEF r
    <2>2. file' \in Seq(Files) /\ Len(file') = Len(file) /\ DOMAIN file' = 1..Len(file)
      BY <1>1, <1>4, <2>1
    <2> QED BY <1>1, <2>2 DEF Inodes
  <1>6. \A i \in Inodes : Whole(i) => Whole(i)'
    <2>1. \A i \in Inodes : Whole(i) => i \notin torn
      BY <1>2 DEF Whole
    <2> QED BY <1>4, <2>1 DEF Whole
  <1>7. ASSUME NEW d \in DOMAIN dir
        PROVE  /\ now(d) \in [Entries -> 0..Len(file)]
               /\ \A e \in Entries : now(d)[e] \in {dir[d].disk[e], dir[d].entry[e]}
               /\ dir'[d] = [entry |-> now(d), disk |-> now(d), stamp |-> stamp + 1]
    <2>1. dir[d].entry \in [Entries -> 0..Len(file)] /\ dir[d].disk \in [Entries -> 0..Len(file)]
      BY <1>1 DEF Directories
    <2>2. dir'[d] = [entry |-> now(d), disk |-> now(d), stamp |-> stamp + 1]
      BY <1>2
    <2> QED BY <2>1, <2>2
  <1> HIDE DEF now
  <1>8. /\ dir' \in Seq(Directories') /\ Len(dir') = Len(dir) /\ DOMAIN dir' = DOMAIN dir
        /\ \A d \in DOMAIN dir : dir'[d].entry = now(d) /\ dir'[d].disk = now(d)
    <2>1. dir' = [d \in 1..Len(dir) |-> dir'[d]]
      BY <1>1, <1>2
    <2>2. Directories' = Directories
      BY <1>5 DEF Directories
    <2>3. \A d \in 1..Len(dir) : dir'[d] \in Directories
      <3>1. stamp + 1 \in Nat
        BY <1>1
      <3>2. ASSUME NEW d \in DOMAIN dir PROVE dir'[d] \in Directories
        <4>1. now(d) \in [Entries -> 0..Len(file)]
          BY <1>7
        <4>2. [entry |-> now(d), disk |-> now(d), stamp |-> stamp + 1] \in Directories
          BY <3>1, <4>1 DEF Directories
        <4> QED BY <1>7, <4>2
      <3> QED BY <1>1, <3>2
    <2>4. dir' \in Seq(Directories) /\ Len(dir') = Len(dir) /\ DOMAIN dir' = 1..Len(dir)
      BY <1>1, <2>1, <2>3
    <2> QED BY <1>1, <1>7, <2>2, <2>4
  <1>9. \A e \in Entries : \A i : LeadsTo(e, i)' => LeadsTo(e, i)
    <2> SUFFICES ASSUME NEW e \in Entries, NEW i, LeadsTo(e, i)' PROVE LeadsTo(e, i)
      OBVIOUS
    <2>1. PICK d \in DOMAIN dir' : dir'[d].entry[e] = i \/ dir'[d].disk[e] = i
      BY DEF LeadsTo
    <2>2. i # 0
      BY DEF LeadsTo
    <2>3. now(d)[e] = i
      BY <1>8, <2>1
    <2>4. i \in {dir[d].disk[e], dir[d].entry[e]}
      BY <1>7, <1>8, <2>3
    <2> QED BY <1>8, <2>2, <2>4 DEF LeadsTo
  <1>10. /\ cap' \in [Sessions -> Calls]
         /\ \A c \in Sessions : cap'[c] = cap[c] \/ cap'[c] = [cap[c] EXCEPT !.phase = "killed"]
         /\ \A c \in Sessions : cap'[c].phase # "sync"
    <2>1. ASSUME NEW c \in Sessions
          PROVE  /\ [cap[c] EXCEPT !.phase = "killed"] \in Calls
                 /\ [cap[c] EXCEPT !.phase = "killed"].phase = "killed"
      <3>1. "killed" \in Phases
        BY DEF Phases, Outcomes
      <3> QED BY <1>1, <3>1 DEF Calls
    <2>2. \A c \in Sessions : ~Running(c) => cap[c].phase # "sync"
      BY DEF Running, Outcomes
    <2> QED BY <1>1, <1>3, <2>1, <2>2
  <1>11. CaptureTypeOK'
    <2>1. place' \in [Buckets -> 0..Len(dir')] /\ placed' \in [Buckets -> 0..Len(dir')]
      <3>1. place \in [Buckets -> 0..Len(dir)] /\ placed \in [Buckets -> 0..Len(dir)]
        BY <1>1 DEF CaptureTypeOK
      <3>2. place' \in [Buckets -> 0..Len(dir)]
        BY <1>2, <3>1
      <3> QED BY <1>3, <1>8, <3>2
    <2>2. CountersOK'
      BY <1>1, <1>3, InboxAssumption DEF CaptureTypeOK, CountersOK
    <2>3. Calls \subseteq Calls'
      BY <1>1, <1>5, <1>8, Larger
    <2>4. stamp' \in Nat /\ cap' \in [Sessions -> Calls']
      BY <1>1, <1>3, <1>10, <2>3
    <2> QED BY <1>5, <1>8, <2>1, <2>2, <2>4, TypeAssembled
  <1>12. \A q \in Sessions : Bystander(q)
    BY <1>8, <1>10 DEF Bystander
  <1> DEFINE added == {}
  <1>13. \A f \in Entries, i \in Inodes' : LeadsTo(f, i)' => LeadsTo(f, i) \/ <<f, i>> \in added
    BY <1>9
  <1>14. (\A z : z \notin added) /\ Len(file) <= Len(file)'
    BY <1>1, <1>5
  <1> HIDE DEF added
  <1> QED BY <1>6, <1>11, <1>12, <1>13, <1>14, OtherMove

-----------------------------------------------------------------------------
(* The invariant. *)

\* The index that SelectInSeq finds is one of the sequence.
LEMMA FoundAt ==
    ASSUME NEW S, NEW s \in Seq(S), NEW v
    PROVE  SelectInSeq(s, LAMBDA o : o = v) \in 0..Len(s)
  <1> DEFINE I == {i \in 1..Len(s) : s[i] = v}
  <1>1. SelectInSeq(s, LAMBDA o : o = v) = IF I # {} THEN Min(I) ELSE 0
    BY DEF SelectInSeq
  <1>2. I \subseteq Nat /\ I \subseteq 1..Len(s) /\ Len(s) \in Nat
    OBVIOUS
  <1> HIDE DEF I
  <1>3. CASE I # {}
    <2> DEFINE less == OpToRel(<, Nat)
    <2>1. IsWellFoundedOn(less, Nat)
      BY NatLessThanWellFounded
    <2>2. \A x, y \in I : y < x => <<y, x>> \in less
      BY <1>2, Zenon DEF OpToRel
    <2> HIDE DEF less
    <2>3. PICK x \in I : \A y \in I : ~(<<y, x>> \in less)
      BY <1>2, <1>3, <2>1, WFMin
    <2>4. ASSUME NEW y \in I PROVE x <= y
      <3>1. x \in Nat /\ y \in Nat
        BY <1>2
      <3>2. ~(y < x)
        BY <2>2, <2>3
      <3> QED BY <3>1, <3>2
    <2>5. Min(I) \in I
      BY <2>4 DEF Min
    <2> QED BY <1>1, <1>2, <1>3, <2>5
  <1>4. CASE I = {}
    BY <1>1, <1>2, <1>4
  <1> QED BY <1>3, <1>4

\* An empty inbox without calls satisfies the invariant.
LEMMA InitHolds == CaptureInit => CaptureInv
  <1> SUFFICES ASSUME CaptureInit PROVE CaptureInv
    OBVIOUS
  <1> DEFINE order == SetToSeq(InitialBuckets)
  <1>1. order \in Seq(InitialBuckets) /\ Len(order) \in Nat /\ DOMAIN order = 1..Len(order)
    <2>1. /\ Cardinality(InitialBuckets) \in Nat
          /\ ExistsBijection(1..Cardinality(InitialBuckets), InitialBuckets)
      BY InboxAssumption, FS_CardinalityType
    <2>2. \E f \in [1..Cardinality(InitialBuckets) -> InitialBuckets] : IsInjective(f)
      BY <2>1 DEF ExistsBijection, Bijection, Injection
    <2>3. order \in [1..Cardinality(InitialBuckets) -> InitialBuckets]
      BY <2>2 DEF SetToSeq
    <2> HIDE DEF order
    <2> QED BY <2>1, <2>3
  <1>2. /\ file = <<>> /\ stamp = 0 /\ placed = place /\ edits = 0 /\ faults = 0 /\ crashes = 0
        /\ dir = [d \in DOMAIN order |-> [entry |-> Empty, disk |-> Empty, stamp |-> 0]]
        /\ place = [b \in Buckets |-> SelectInSeq(order, LAMBDA o : o = b)]
    BY DEF CaptureInit, InitStore
  <1> HIDE DEF order
  <1>3. file \in Seq(Files) /\ Len(file) = 0 /\ Inodes = {}
    BY <1>2 DEF Inodes
  <1>4. \A e \in Entries : Empty[e] = 0
    BY DEF Empty
  <1>5. /\ dir \in Seq(Directories) /\ Len(dir) = Len(order)
        /\ \A d \in DOMAIN dir : dir[d].entry = Empty /\ dir[d].disk = Empty
    <2>1. [entry |-> Empty, disk |-> Empty, stamp |-> 0] \in Directories
      <3>1. Empty \in [Entries -> 0..Len(file)]
        BY <1>3 DEF Empty
      <3> QED BY <3>1 DEF Directories
    <2> QED BY <1>1, <1>2, <2>1
  <1>6. place \in [Buckets -> 0..Len(dir)]
    <2>1. \A b \in Buckets : SelectInSeq(order, LAMBDA o : o = b) \in 0..Len(dir)
      BY <1>1, <1>5, FoundAt
    <2> QED BY <1>2, <2>1
  <1>7. PICK name \in Injection(Sessions, Names), at \in [Sessions -> Buckets], x \in [Sessions -> Contents] :
            cap = [c \in Sessions |-> Idle(at[c], name[c], x[c])]
    BY DEF CaptureInit
  <1>8. name \in [Sessions -> Names] /\ \A c, q \in Sessions : name[c] = name[q] => c = q
    BY DEF Injection, IsInjective
  <1>9. ASSUME NEW c \in Sessions
        PROVE  /\ cap[c] \in Calls /\ cap[c].phase = "idle" /\ cap[c].owned = 0 /\ cap[c].dir = 0
               /\ cap[c].expected[1] = 0 /\ ~cap[c].published /\ cap[c].then = "running"
               /\ cap[c].name = name[c]
    <2>1. "idle" \in Phases /\ <<0, 0, 0>> \in [1..3 -> Nat] /\ <<0, 0, 0>>[1] = 0
      BY DEF Phases
    <2>2. cap[c] = Idle(at[c], name[c], x[c])
      BY <1>7
    <2>3. at[c] \in Buckets /\ name[c] \in Names /\ x[c] \in Contents
      BY <1>8
    <2>4. 0 \in 0..Len(dir) /\ 0 \in 0..Len(file)
      BY <1>1, <1>3, <1>5
    <2> QED BY <2>1, <2>2, <2>3, <2>4 DEF Idle, Calls
  <1>10. CaptureTypeOK
    <2>1. cap \in [Sessions -> Calls]
      BY <1>7, <1>9
    <2>2. placed \in [Buckets -> 0..Len(dir)]
      BY <1>2, <1>6
    <2>3. stamp \in Nat /\ edits \in 0..MaxEdits /\ faults \in 0..MaxFaults /\ crashes \in 0..MaxCrashes
      BY <1>2, InboxAssumption
    <2> QED BY <1>3, <1>5, <1>6, <2>1, <2>2, <2>3 DEF CaptureTypeOK, Files, Directories, Calls
  <1>11. \A e \in Entries : \A i : ~LeadsTo(e, i)
    BY <1>4, <1>5 DEF LeadsTo
  <1>12. NamesWhole /\ NamesDistinct
    BY <1>3, <1>8, <1>9 DEF NamesWhole, NamesDistinct
  <1>13. ASSUME NEW c \in Sessions PROVE Sound(c)
    <2>1. "idle" \notin Filling \cup Linking \cup Inside \cup {"sync"}
      BY DEF Filling, Linking, Inside
    <2>2. Holding(c)
      BY <1>3, <1>9, <2>1 DEF Holding
    <2>3. TemporaryWhole(c)
      BY <1>3, <1>9, <2>1 DEF TemporaryWhole
    <2>4. Private(c)
      BY <1>11 DEF Private
    <2>5. LinkDurable(c)
      BY <1>5 DEF LinkDurable
    <2> QED BY <2>2, <2>3, <2>4, <2>5 DEF Sound
  <1> QED BY <1>10, <1>12, <1>13 DEF CaptureInv

\* Every step of the system keeps the invariant.
LEMMA StepKeeps ==
    ASSUME CaptureInv, [CaptureNext]_captureVars
    PROVE  CaptureInv'
  <1>1. CASE UNCHANGED captureVars
    <2>1. UNCHANGED <<file, dir, place, placed, stamp, cap, edits, faults, crashes>>
      BY <1>1 DEF captureVars, store, counters
    <2> QED BY <2>1 DEF CaptureInv, CaptureTypeOK, NamesWhole, NamesDistinct, Sound, Holding,
                        TemporaryWhole, Private, LinkDurable, LeadsTo, Whole, Inodes
  <1>2. ASSUME NEW c \in Sessions, Session(c) PROVE CaptureInv'
    BY <1>2, EnterKeeps, OpenKeeps, CreateKeeps, WriteKeeps, SyncKeeps, LinkKeeps, CleanKeeps,
       FlushKeeps, SimpleStepsKeep DEF Session
  <1>3. CASE OtherWriter
    <2>1. ASSUME NEW b \in Buckets, place[b] # 0 PROVE place[b] \in DOMAIN dir
      <3>1. place[b] \in 0..Len(dir) /\ DOMAIN dir = 1..Len(dir) /\ Len(dir) \in Nat
        BY Parts DEF CaptureInv, CaptureTypeOK
      <3> QED BY <2>1, <3>1
    <2> QED BY <1>3, <2>1, RewriteKeeps, DrainFileKeeps, PutKeeps, MoveBucketKeeps DEF OtherWriter
  <1>4. CASE Crash
    BY <1>4, CrashKeeps
  <1> QED BY <1>1, <1>2, <1>3, <1>4 DEF CaptureNext

\* The invariant of captures holds in every reachable state.
LEMMA InvariantHolds == CaptureSpec => []CaptureInv
  BY InitHolds, StepKeeps, PTL DEF CaptureSpec

-----------------------------------------------------------------------------
(* What a capture does to names, buckets and calls. *)

\* The .md names that are taken keep their files, and these their bytes.
TakenKept ==
    \A d \in DOMAIN dir, n \in Names : dir[d].entry[n] # 0 =>
        /\ dir'[d].entry[n] = dir[d].entry[n]
        /\ file'[dir[d].entry[n]].content = file[dir[d].entry[n]].content

\* A call keeps its bucket, its name and its bytes.
SameCall(q) ==
    /\ cap'[q].bucket = cap[q].bucket
    /\ cap'[q].name = cap[q].name
    /\ cap'[q].data = cap[q].data

\* A step of one capture neither changes what its call was given nor another call.
LEMMA CallKept ==
    ASSUME CaptureInv, NEW c \in Sessions, Session(c)
    PROVE  /\ \A q \in Sessions : SameCall(q)
           /\ \A q \in Sessions \ {c} : cap'[q] = cap[q]
  <1>1. cap \in [Sessions -> Calls] /\ cap[c] \in Calls
    BY Parts DEF CaptureInv
  <1>2. ASSUME NEW r, r.bucket = cap[c].bucket, r.name = cap[c].name, r.data = cap[c].data,
               cap' = [cap EXCEPT ![c] = r]
        PROVE  /\ \A q \in Sessions : SameCall(q)
               /\ \A q \in Sessions \ {c} : cap'[q] = cap[q]
    BY <1>1, <1>2 DEF SameCall
  <1>3. ASSUME NEW p PROVE /\ [cap[c] EXCEPT !.phase = p].bucket = cap[c].bucket
                           /\ [cap[c] EXCEPT !.phase = p].name = cap[c].name
                           /\ [cap[c] EXCEPT !.phase = p].data = cap[c].data
    BY <1>1 DEF Calls
  <1>4. ASSUME NEW p, Go(c, p) PROVE cap' = [cap EXCEPT ![c] = [cap[c] EXCEPT !.phase = p]]
    BY <1>4 DEF Go
  <1>5. CASE \E p : Go(c, p)
    BY <1>2, <1>3, <1>4, <1>5
  <1>6. ASSUME NEW p, NEW t,
               cap' = [cap EXCEPT ![c] = [cap[c] EXCEPT !.phase = p, !.then = t]]
        PROVE  /\ \A q \in Sessions : SameCall(q)
               /\ \A q \in Sessions \ {c} : cap'[q] = cap[q]
    <2>1. /\ [cap[c] EXCEPT !.phase = p, !.then = t].bucket = cap[c].bucket
          /\ [cap[c] EXCEPT !.phase = p, !.then = t].name = cap[c].name
          /\ [cap[c] EXCEPT !.phase = p, !.then = t].data = cap[c].data
      BY <1>1 DEF Calls
    <2> QED BY <1>2, <1>6, <2>1
  <1>7. CASE Raise(c)
    <2>1. \E p, t : cap' = [cap EXCEPT ![c] = [cap[c] EXCEPT !.phase = p, !.then = t]]
      BY <1>7 DEF Raise
    <2> QED BY <1>6, <2>1
  <1>8. CASE AfterClean(c)
    <2>1. PICK p : cap' = [cap EXCEPT ![c] = [cap[c] EXCEPT !.owned = 0, !.phase = p]]
      BY <1>8 DEF AfterClean
    <2>2. /\ [cap[c] EXCEPT !.owned = 0, !.phase = p].bucket = cap[c].bucket
          /\ [cap[c] EXCEPT !.owned = 0, !.phase = p].name = cap[c].name
          /\ [cap[c] EXCEPT !.owned = 0, !.phase = p].data = cap[c].data
      BY <1>1 DEF Calls
    <2> QED BY <1>2, <2>1, <2>2
  <1>9. CASE OpenBucket(c)
    <2>1. CASE cap' = [cap EXCEPT ![c] = [cap[c] EXCEPT !.phase = "destination", !.dir = place[cap[c].bucket]]]
      <3> DEFINE r == [cap[c] EXCEPT !.phase = "destination", !.dir = place[cap[c].bucket]]
      <3>1. r.bucket = cap[c].bucket /\ r.name = cap[c].name /\ r.data = cap[c].data
        BY <1>1 DEF Calls
      <3> QED BY <1>2, <2>1, <3>1
    <2> QED BY <1>7, <1>9, <2>1 DEF OpenBucket
  <1>10. CASE CreateTemporary(c)
    <2>1. CASE cap' = [cap EXCEPT ![c] = [cap[c] EXCEPT !.phase = "write", !.owned = Len(file')]]
      <3> DEFINE r == [cap[c] EXCEPT !.phase = "write", !.owned = Len(file')]
      <3>1. r.bucket = cap[c].bucket /\ r.name = cap[c].name /\ r.data = cap[c].data
        BY <1>1 DEF Calls
      <3> QED BY <1>2, <2>1, <3>1
    <2> QED BY <1>7, <1>10, <2>1 DEF CreateTemporary
  <1>11. CASE SyncFile(c)
    <2> DEFINE r == [cap[c] EXCEPT !.phase = "recheck", !.expected = Identity(cap[c].owned)]
    <2>1. cap' = [cap EXCEPT ![c] = r]
      BY <1>11 DEF SyncFile
    <2>2. r.bucket = cap[c].bucket /\ r.name = cap[c].name /\ r.data = cap[c].data
      BY <1>1 DEF Calls
    <2> HIDE DEF r
    <2> QED BY <1>2, <2>1, <2>2
  <1>12. CASE Link(c)
    <2>1. CASE cap' = [cap EXCEPT ![c] = [cap[c] EXCEPT !.phase = "verify", !.published = TRUE]]
      <3> DEFINE r == [cap[c] EXCEPT !.phase = "verify", !.published = TRUE]
      <3>1. r.bucket = cap[c].bucket /\ r.name = cap[c].name /\ r.data = cap[c].data
        BY <1>1 DEF Calls
      <3> QED BY <1>2, <2>1, <3>1
    <2> QED BY <1>7, <1>12, <2>1 DEF Link
  <1>13. CASE Begin(c) \/ Enter(c) \/ SyncParent(c) \/ Write(c) \/ FlushDirectory(c) \/ Confirm(c) \/ Kill(c)
    <2>1. \E p : Go(c, p)
      BY <1>13, Zenon DEF Begin, Enter, SyncParent, Write, FlushDirectory, Confirm, Kill
    <2> QED BY <1>5, <2>1
  <1>14. CASE \/ CheckDestination(c, "destination", "create") \/ CheckDestination(c, "recheck", "stat")
              \/ CheckDestination(c, "final", "confirm") \/ StatTemporary(c) \/ Verify(c) \/ Fault(c)
    <2>1. Raise(c) \/ \E p : Go(c, p)
      BY <1>14, Zenon DEF CheckDestination, StatTemporary, Verify, Fault
    <2> QED BY <1>5, <1>7, <2>1
  <1>15. CASE StatClean(c) \/ Unlink(c)
    <2>1. AfterClean(c) \/ \E p : Go(c, p)
      BY <1>15, Zenon DEF StatClean, Unlink
    <2> QED BY <1>5, <1>8, <2>1
  <1> QED BY <1>9, <1>10, <1>11, <1>12, <1>13, <1>14, <1>15 DEF Session

\* The file that a session is still writing has no .md name.
LEMMA WritingUnnamed ==
    ASSUME CaptureInv, NEW c \in Sessions, cap[c].phase \in Filling, NEW d \in DOMAIN dir, NEW n \in Names
    PROVE  dir[d].entry[n] # cap[c].owned
  <1>1. \A e \in Entries : LeadsTo(e, cap[c].owned) => e = c
    BY Filled
  <1>2. cap[c].owned \in Inodes /\ Inodes = 1..Len(file) /\ Len(file) \in Nat
    BY Filled, Parts DEF CaptureInv
  <1>3. n \in Entries /\ n # c
    BY InboxAssumption DEF Entries
  <1> QED BY <1>1, <1>2, <1>3 DEF LeadsTo

\* Entries of names lead to files.
LEMMA NamesLead ==
    ASSUME CaptureInv, NEW d \in DOMAIN dir, NEW n \in Names, dir[d].entry[n] # 0
    PROVE  /\ dir[d].entry[n] \in Inodes
           /\ Whole(dir[d].entry[n])
           /\ n \in Entries /\ n \notin Sessions
  <1>1. LeadsTo(n, dir[d].entry[n]) /\ n \in Entries /\ n \notin Sessions /\ CaptureTypeOK
    BY InboxAssumption DEF LeadsTo, Entries, CaptureInv
  <1>2. dir[d].entry[n] \in Inodes
    BY <1>1, LeadsToFiles
  <1> QED BY <1>1, <1>2 DEF CaptureInv, NamesWhole

\* A session that has opened its bucket holds a directory.
LEMMA DirectoryHeld ==
    ASSUME CaptureInv, NEW c \in Sessions, cap[c].phase \in Inside
    PROVE  cap[c].dir \in DOMAIN dir
  <1>1. cap[c].dir \in 0..Len(dir) /\ DOMAIN dir = 1..Len(dir) /\ Len(dir) \in Nat /\ Holding(c)
    BY Parts DEF CaptureInv, Sound, Calls
  <1>2. cap[c].dir # 0
    BY <1>1 DEF Holding
  <1> QED BY <1>1, <1>2

\* A step of a capture leaves what other files stand for, and the path of a bucket that is there.
LEMMA SessionKeepsTaken ==
    ASSUME CaptureInv, NEW c \in Sessions, Session(c)
    PROVE  /\ TakenKept
           /\ \A b \in Buckets : place[b] # 0 => place'[b] = place[b]
  <1>1. /\ CaptureTypeOK /\ cap[c] \in Calls /\ Len(file) \in Nat /\ Inodes = 1..Len(file)
        /\ file \in Seq(Files) /\ \A i \in Inodes : file[i] \in Files
        /\ Len(dir) \in Nat /\ DOMAIN dir = 1..Len(dir) /\ stamp \in Nat
        /\ place \in [Buckets -> 0..Len(dir)] /\ cap[c].bucket \in Buckets
    BY Parts DEF CaptureInv, CaptureTypeOK, Calls
  <1>2. ASSUME UNCHANGED <<file, dir, place>>
        PROVE  TakenKept /\ \A b \in Buckets : place[b] # 0 => place'[b] = place[b]
    BY <1>2 DEF TakenKept
  <1>3. CASE UNCHANGED store
    BY <1>2, <1>3 DEF store
  <1>4. CASE \/ Begin(c) \/ SyncParent(c) \/ OpenBucket(c)
             \/ CheckDestination(c, "destination", "create") \/ CheckDestination(c, "recheck", "stat")
             \/ CheckDestination(c, "final", "confirm") \/ StatTemporary(c) \/ Verify(c)
             \/ StatClean(c) \/ Confirm(c) \/ Fault(c) \/ Kill(c)
    <2>1. UNCHANGED <<file, dir, place>>
      BY <1>4, Zenon DEF Begin, SyncParent, OpenBucket, CheckDestination, StatTemporary, Verify, StatClean,
                         Confirm, Fault, Kill, store
    <2> QED BY <1>2, <2>1
  <1>5. CASE Enter(c)
    <2>1. CASE dir' = NewDirectory /\ place' = [place EXCEPT ![cap[c].bucket] = Len(dir')]
               /\ place[cap[c].bucket] = 0 /\ file' = file
      <3>1. \A d \in DOMAIN dir : dir'[d] = dir[d]
        BY <1>1, <2>1, DirectoryMade
      <3> QED BY <1>1, <2>1, <3>1 DEF TakenKept
    <2> QED BY <1>3, <1>5, <2>1 DEF Enter
  <1>6. CASE CreateTemporary(c)
    <2>1. CASE /\ file' = NewFile(Partial, FALSE) /\ dir' = SetEntry(cap[c].dir, c, Len(file'))
               /\ place' = place /\ cap[c].phase = "create"
      <3>1. /\ Len(file)' = Len(file) + 1
            /\ \A i \in Inodes : file'[i] = file[i]
        BY <1>1, <2>1, FileMade
      <3>2. cap[c].dir \in DOMAIN dir
        <4>1. cap[c].phase \in Inside
          BY <2>1 DEF Inside
        <4> QED BY <4>1, DirectoryHeld
      <3>3. \A x \in DOMAIN dir, f \in Entries : f # c => dir'[x].entry[f] = dir[x].entry[f]
        <4>1. PICK i \in Nat : i = Len(file) + 1
          BY <1>1
        <4>2. i \in 0..Len(file)' /\ Len(file)' \in Nat /\ Len(file) <= Len(file)' /\ c \in Entries
          BY <1>1, <3>1, <4>1 DEF Entries
        <4>3. dir' = SetEntry(cap[c].dir, c, i)
          BY <2>1, <3>1, <4>1
        <4> QED BY <1>1, <3>2, <4>2, <4>3, EntrySet
      <3> QED BY <2>1, <3>1, <3>3, NamesLead DEF TakenKept
    <2> QED BY <1>3, <1>6, <2>1 DEF CreateTemporary
  <1>7. ASSUME NEW j \in Inodes, NEW r \in Files, file' = [file EXCEPT ![j] = r],
               r.content = file[j].content \/ \A d \in DOMAIN dir, n \in Names : dir[d].entry[n] # j
        PROVE  \A d \in DOMAIN dir, n \in Names : dir[d].entry[n] # 0 =>
                   file'[dir[d].entry[n]].content = file[dir[d].entry[n]].content
    <2>1. file'[j] = r /\ \A i \in Inodes \ {j} : file'[i] = file[i]
      BY <1>1, <1>7, FileSet
    <2> QED BY <1>7, <2>1, NamesLead
  <1>8. CASE Write(c)
    <2> DEFINE r == [content |-> cap[c].data, synced |-> FALSE, mtime |-> stamp + 1, ctime |-> stamp + 1]
    <2>1. /\ file' = [file EXCEPT ![cap[c].owned] = r] /\ dir' = dir /\ place' = place
          /\ cap[c].phase \in Filling
      BY <1>8 DEF Write, Filling
    <2>2. cap[c].owned \in Inodes
      BY <2>1, Filled
    <2>4. r \in Files
      <3>1. cap[c].data \in Contents /\ stamp + 1 \in Nat
        BY <1>1 DEF Calls
      <3> QED BY <3>1 DEF Files
    <2>3. \A d \in DOMAIN dir, n \in Names : dir[d].entry[n] # cap[c].owned
      BY <2>1, WritingUnnamed
    <2> HIDE DEF r
    <2> QED BY <1>7, <2>1, <2>2, <2>3, <2>4 DEF TakenKept
  <1>9. CASE SyncFile(c)
    <2> DEFINE r == [file[cap[c].owned] EXCEPT !.synced = TRUE]
    <2>1. /\ file' = [file EXCEPT ![cap[c].owned] = r] /\ dir' = dir /\ place' = place
          /\ cap[c].phase \in Filling
      BY <1>9 DEF SyncFile, Filling, Sync
    <2>2. cap[c].owned \in Inodes
      BY <2>1, Filled
    <2>3. r \in Files /\ r.content = file[cap[c].owned].content
      BY <1>1, <2>2 DEF Files
    <2> HIDE DEF r
    <2> QED BY <1>7, <2>1, <2>2, <2>3 DEF TakenKept
  <1>10. ASSUME NEW k, NEW m, NEW j, k = cap[c].dir, m = cap[c].name, j = dir[k].entry[c],
                CanLink(k, m, j), dir' = SetEntry(k, m, j), file' = [file EXCEPT ![j].ctime = stamp + 1],
                place' = place, cap[c].phase = "link"
         PROVE  TakenKept /\ \A b \in Buckets : place[b] # 0 => place'[b] = place[b]
    <2>1. k \in DOMAIN dir /\ m \in Entries /\ c \in Entries
      <3>1. cap[c].phase \in Inside
        BY <1>10 DEF Inside, Linking
      <3>2. m \in Names
        BY <1>1, <1>10 DEF Calls
      <3> QED BY <1>10, <3>1, <3>2, DirectoryHeld DEF Entries
    <2>2. j \in Inodes
      <3>1. LeadsTo(c, j)
        BY <1>10, <2>1 DEF LeadsTo, CanLink
      <3> QED BY <1>1, <2>1, <3>1, LeadsToFiles
    <2>3. file[j] \in Files /\ stamp \in Nat
      BY <1>1, <2>2
    <2> DEFINE r == [file[j] EXCEPT !.ctime = stamp + 1]
    <2>4. r \in Files /\ r.content = file[j].content
      BY <2>3 DEF Files
    <2>5. file' = [file EXCEPT ![j] = r]
      BY <1>10
    <2> HIDE DEF r
    <2>6. Len(file)' = Len(file)
      BY <1>1, <2>2, <2>4, <2>5, FileSet
    <2>7. \A x \in DOMAIN dir, f \in Entries :
              dir'[x].entry[f] = IF x = k /\ f = m THEN j ELSE dir[x].entry[f]
      <3>1. j \in 0..Len(file)' /\ Len(file)' \in Nat /\ Len(file) <= Len(file)'
        BY <1>1, <2>2, <2>6
      <3>2. dir' = SetEntry(k, m, j)
        BY <1>10
      <3> QED BY <1>1, <2>1, <3>1, <3>2, EntrySet
    <2>8. \A d \in DOMAIN dir, n \in Names : dir[d].entry[n] # 0 =>
              file'[dir[d].entry[n]].content = file[dir[d].entry[n]].content
      BY <1>7, <2>2, <2>4, <2>5
    <2>9. dir[k].entry[m] = 0 /\ place' = place
      BY <1>10 DEF CanLink
    <2> QED BY <2>7, <2>8, <2>9, NamesLead DEF TakenKept
  <1>13. CASE Link(c)
    <2>1. CASE UNCHANGED store
      BY <1>3, <2>1
    <2>2. CASE ~UNCHANGED store
      BY <1>10, <1>13, <2>2, Zenon DEF Link
    <2> QED BY <2>1, <2>2
  <1>11. CASE Unlink(c)
    <2>1. cap[c].phase = "unlink" /\ file' = file /\ place' = place
          /\ (dir' = dir \/ dir' = SetEntry(cap[c].dir, c, 0))
      BY <1>11 DEF Unlink
    <2>2. CASE dir' = SetEntry(cap[c].dir, c, 0)
      <3>1. cap[c].dir \in DOMAIN dir
        <4>1. cap[c].phase \in Inside
          BY <2>1 DEF Inside
        <4> QED BY <4>1, DirectoryHeld
      <3>2. \A x \in DOMAIN dir, f \in Entries :
                dir'[x].entry[f] = IF x = cap[c].dir /\ f = c THEN 0 ELSE dir[x].entry[f]
        <4>1. 0 \in 0..Len(file)' /\ Len(file)' \in Nat /\ Len(file) <= Len(file)' /\ c \in Entries
          BY <1>1, <2>1 DEF Entries
        <4> QED BY <1>1, <2>2, <3>1, <4>1, EntrySet
      <3> QED BY <2>1, <3>2, NamesLead DEF TakenKept
    <2> QED BY <1>2, <2>1, <2>2
  <1>12. CASE FlushDirectory(c)
    <2>1. dir' = [dir EXCEPT ![cap[c].dir].disk = dir[cap[c].dir].entry] /\ file' = file /\ place' = place
      BY <1>12 DEF FlushDirectory, Flushed
    <2>2. \A d \in DOMAIN dir : dir[d] \in Directories
      BY <1>1, Parts
    <2>3. ASSUME NEW d \in DOMAIN dir PROVE dir'[d].entry = dir[d].entry
      BY <2>1, <2>2 DEF Directories
    <2> QED BY <2>1, <2>3 DEF TakenKept
  <1> QED BY <1>4, <1>5, <1>6, <1>8, <1>9, <1>11, <1>12, <1>13 DEF Session

\* A step that is neither another writer's nor a power loss is a session's, or none.
LEMMA QuietStep ==
    ASSUME CaptureInv, [CaptureNext]_captureVars, edits' = edits
    PROVE  UNCHANGED captureVars \/ (\E c \in Sessions : Session(c)) \/ Crash
  <1>1. ~OtherWriter
    <2>1. edits + 1 # edits
      BY DEF CaptureInv, CaptureTypeOK
    <2>2. ~Edit
      BY <2>1 DEF Edit
    <2> QED BY <2>2, Zenon DEF OtherWriter, Rewrite, DrainFile, Put, MoveBucket
  <1> QED BY <1>1 DEF CaptureNext

\* Without edits and power losses no taken name is changed.
LEMMA QuietKeeps ==
    ASSUME CaptureInv, [CaptureNext]_captureVars, edits' = edits, crashes' = crashes
    PROVE  TakenKept
  <1>1. ~Crash
    <2>1. crashes + 1 # crashes
      BY DEF CaptureInv, CaptureTypeOK
    <2> QED BY <2>1 DEF Crash
  <1>2. CASE UNCHANGED captureVars
    <2>1. file' = file /\ dir' = dir
      BY <1>2 DEF captureVars, store
    <2> QED BY <2>1 DEF TakenKept
  <1> QED BY <1>1, <1>2, QuietStep, SessionKeepsTaken

\* What a session or a power loss leaves of a capture that was reported as a
\* success, in a bucket whose directory is on disk.
LEMMA CaptureLasts ==
    ASSUME CaptureInv, [CaptureNext]_captureVars, edits' = edits, NEW c \in Sessions,
           placed[cap[c].bucket] = place[cap[c].bucket],
           cap[c].phase = "captured", Holds(c)
    PROVE  Holds(c)'
  <1>1. PICK b \in Buckets : b = cap[c].bucket
    BY Parts DEF CaptureInv, Calls
  <1>2. PICK n \in Names : n = cap[c].name
    BY Parts DEF CaptureInv, Calls
  <1>3. PICK d : d = place[b]
    OBVIOUS
  <1>4. PICK i : i = dir[d].entry[n]
    OBVIOUS
  <1>5. i # 0 /\ d # 0 /\ file[i].content = cap[c].data
    BY <1>1, <1>2, <1>3, <1>4 DEF Holds, Lookup
  <1>6. d \in DOMAIN dir
    <2>1. place[b] \in 0..Len(dir) /\ DOMAIN dir = 1..Len(dir) /\ Len(dir) \in Nat
      BY Parts DEF CaptureInv, CaptureTypeOK
    <2> QED BY <1>3, <1>5, <2>1
  <1>7. i \in Inodes /\ Whole(i) /\ n \in Entries
    BY <1>4, <1>5, <1>6, NamesLead
  <1>8. ASSUME cap'[c].bucket = b, cap'[c].name = n, cap'[c].data = cap[c].data,
               place'[b] = d, dir'[d].entry[n] = i, file'[i].content = file[i].content
        PROVE  Holds(c)'
    BY <1>5, <1>8 DEF Holds, Lookup
  <1>9. CASE UNCHANGED captureVars
    <2>1. file' = file /\ dir' = dir /\ place' = place /\ cap' = cap
      BY <1>9 DEF captureVars, store
    <2> QED BY <1>1, <1>2, <1>3, <1>4, <1>8, <2>1
  <1>10. ASSUME NEW q \in Sessions, Session(q) PROVE Holds(c)'
    <2>1. SameCall(c)
      BY <1>10, CallKept
    <2>2. TakenKept /\ (place[b] # 0 => place'[b] = place[b])
      BY <1>10, SessionKeepsTaken
    <2>3. dir'[d].entry[n] = i /\ file'[i].content = file[i].content
      BY <1>4, <1>5, <1>6, <2>2 DEF TakenKept
    <2>4. place'[b] = d
      BY <1>3, <1>5, <2>2
    <2> QED BY <1>1, <1>2, <1>8, <2>1, <2>3, <2>4 DEF SameCall
  <1>11. CASE Crash
    <2>1. PICK lost \in SUBSET ((DOMAIN dir) \X Entries), torn \in SUBSET Inodes, gone \in SUBSET Buckets :
         /\ \A l \in lost : dir[l[1]].entry[l[2]] # dir[l[1]].disk[l[2]]
         /\ \A j \in torn : ~file[j].synced
         /\ \A g \in gone : place[g] # placed[g]
         /\ dir' = [x \in DOMAIN dir |-> LET now == [e \in Entries |->
                        IF <<x, e>> \in lost THEN dir[x].disk[e] ELSE dir[x].entry[e]]
                    IN [entry |-> now, disk |-> now, stamp |-> stamp + 1]]
         /\ file' = [j \in Inodes |->
                        [file[j] EXCEPT !.content = IF j \in torn THEN Partial ELSE @,
                                        !.synced = TRUE]]
         /\ place' = [g \in Buckets |-> IF g \in gone THEN placed[g] ELSE place[g]]
      BY <1>11, Zenon DEF Crash
    <2>2. i \notin torn /\ b \notin gone
      BY <1>1, <1>7, <2>1 DEF Whole
    <2>3. place'[b] = d
      BY <1>3, <2>1, <2>2
    <2>4. dir'[d].entry[n] = i
      <3>1. LinkDurable(c)
        BY DEF CaptureInv, Sound
      <3>2. dir[d].disk[n] = i
        BY <1>2, <1>4, <1>6, <3>1 DEF LinkDurable
      <3>3. dir'[d].entry = [e \in Entries |-> IF <<d, e>> \in lost THEN dir[d].disk[e] ELSE dir[d].entry[e]]
        BY <1>6, <2>1
      <3> QED BY <1>4, <1>7, <3>2, <3>3
    <2>5. file'[i].content = file[i].content
      <3>1. file'[i] = [file[i] EXCEPT !.content = file[i].content, !.synced = TRUE]
        BY <1>7, <2>1, <2>2
      <3>2. file[i] \in Files
        BY <1>7, Parts DEF CaptureInv
      <3> QED BY <3>1, <3>2 DEF Files
    <2>6. /\ cap'[c].bucket = b /\ cap'[c].name = n /\ cap'[c].data = cap[c].data
      <3>1. cap' = [q \in Sessions |-> IF Running(q) THEN [cap[q] EXCEPT !.phase = "killed"] ELSE cap[q]]
        BY <1>11 DEF Crash
      <3>2. ~Running(c)
        BY DEF Running, Outcomes
      <3> QED BY <1>1, <1>2, <3>1, <3>2
    <2> QED BY <1>8, <2>3, <2>4, <2>5, <2>6
  <1> QED BY <1>9, <1>10, <1>11, QuietStep

-----------------------------------------------------------------------------
(* Theorems. *)

\* Entries lead to files, paths lead to directories, and what a session holds
\* is of the store, for any number of sessions, buckets and names.
THEOREM CaptureTypesHold == CaptureSpec => []CaptureTypeOK
  <1>1. CaptureInv => CaptureTypeOK
    BY DEF CaptureInv
  <1> QED BY <1>1, InvariantHolds, PTL

\* No reader of a bucket ever finds a .md file with less than the whole bytes
\* in it (_publish: os.fsync of the file before os.link), whoever else writes
\* there, fails, is killed or loses power.
THEOREM CompleteBytesVisible == CaptureSpec => []VisibleComplete
  <1>1. CaptureInv => VisibleComplete
    <2> SUFFICES ASSUME CaptureInv, NEW d \in DOMAIN dir, NEW n \in Names, dir[d].entry[n] # 0
                 PROVE  file[dir[d].entry[n]].content # Partial
      BY DEF VisibleComplete
    <2> QED BY NamesLead DEF Whole
  <1> QED BY <1>1, InvariantHolds, PTL

\* A capture that reports failure, and not uncertainty, has left nothing of its
\* own under a .md name: recording the signal again does not duplicate it.
THEOREM FailureLeavesNothing == CaptureSpec => []FailedUnpublished
  <1>1. CaptureInv => FailedUnpublished
    <2> SUFFICES ASSUME CaptureInv, NEW c \in Sessions, cap[c].phase = "failed",
                        NEW d \in DOMAIN dir, NEW n \in Names, dir[d].entry[n] # 0
                 PROVE  Unlinked(Identity(dir[d].entry[n])) # Unlinked(cap[c].expected)
      BY DEF FailedUnpublished
    <2>1. PICK i \in Inodes : i = dir[d].entry[n]
      BY NamesLead
    <2>2. LeadsTo(n, i) /\ n \in Entries /\ n # c
      BY <2>1, NamesLead DEF LeadsTo
    <2>3. Holding(c) /\ Private(c)
      BY DEF CaptureInv, Sound
    <2>4. ~cap[c].published
      BY <2>3 DEF Holding
    <2>5. i # cap[c].expected[1]
      BY <2>2, <2>3, <2>4 DEF Private
    <2>6. file[i] \in Files /\ cap[c].expected \in [1..3 -> Nat] /\ i \in Nat
      <3>1. file[i] \in Files /\ cap[c] \in Calls /\ Inodes = 1..Len(file) /\ Len(file) \in Nat
        BY <2>1, Parts DEF CaptureInv
      <3> QED BY <2>1, <3>1 DEF Calls
    <2>7. Unlinked(Identity(i))[1] = i
      <3>1. file[i].mtime \in Nat /\ file[i].ctime \in Nat
        BY <2>6 DEF Files
      <3> QED BY <2>6, <3>1 DEF Unlinked, Identity
    <2>8. Unlinked(cap[c].expected)[1] = cap[c].expected[1]
      BY <2>6 DEF Unlinked
    <2> QED BY <2>1, <2>5, <2>7, <2>8
  <1> QED BY <1>1, InvariantHolds, PTL

\* No step of a capture removes, replaces or alters a file that already has a
\* .md name, its own or anybody else's: os.link never replaces, and the only
\* bytes that a capture writes are under its temporary name.
THEOREM NamesNeverReplaced == CaptureSpec => NothingOverwritten
  <1>1. CaptureInv /\ [CaptureNext]_captureVars =>
            [edits' = edits /\ crashes' = crashes =>
                \A d \in DOMAIN dir, n \in Names : LET i == dir[d].entry[n] IN
                    i # 0 => dir'[d].entry[n] = i /\ file'[i].content = file[i].content]_captureVars
    <2> SUFFICES ASSUME CaptureInv, [CaptureNext]_captureVars, edits' = edits, crashes' = crashes,
                        NEW d \in DOMAIN dir, NEW n \in Names, dir[d].entry[n] # 0
                 PROVE  /\ dir'[d].entry[n] = dir[d].entry[n]
                        /\ file'[dir[d].entry[n]].content = file[dir[d].entry[n]].content
      OBVIOUS
    <2> QED BY QuietKeeps DEF TakenKept
  <1> QED BY <1>1, InvariantHolds, PTL DEF CaptureSpec, NothingOverwritten

\* A capture that was reported as a success lasts until somebody else changes
\* the file, through every failure, kill and power loss, if the bucket's own
\* directory was on disk: the bytes are synced before the link, and the link
\* before the answer.
THEOREM CapturesSurvive == CaptureSpec => SurvivesInDurableBucket
  <1>1. CaptureInv /\ [CaptureNext]_captureVars =>
            [edits' = edits => \A c \in Sessions :
                placed[cap[c].bucket] = place[cap[c].bucket] => Lasts(c)]_captureVars
    BY CaptureLasts DEF Lasts
  <1> QED BY <1>1, InvariantHolds, PTL DEF CaptureSpec, SurvivesInDurableBucket

-----------------------------------------------------------------------------
(* Time. *)

\* Nothing has a stamp of the future.
Stamped ==
    /\ \A d \in DOMAIN dir : dir[d].stamp <= stamp
    /\ \A i \in Inodes : file[i].mtime <= stamp /\ file[i].ctime <= stamp
    /\ \A b \in Buckets : parent[b] \in Nat /\ parent[b] <= stamp

\* A step that changes a file, a directory or the place of a bucket stamps it.
FilesAge ==
    /\ \A i \in Inodes : i \in Inodes' /\
           \/ Identity(i)' = Identity(i) /\ file'[i].content = file[i].content
           \/ file'[i].ctime = stamp' /\ file'[i].mtime <= stamp' /\ stamp < stamp'
    /\ \A i \in Inodes' \ Inodes : file'[i].mtime <= stamp' /\ file'[i].ctime <= stamp'

DirectoriesAge ==
    /\ \A d \in DOMAIN dir : d \in DOMAIN dir' /\
           \/ dir'[d].stamp = dir[d].stamp /\ dir'[d].entry = dir[d].entry
           \/ dir'[d].stamp = stamp' /\ stamp < stamp'
    /\ \A d \in DOMAIN dir' \ DOMAIN dir : dir'[d].stamp = stamp' /\ stamp < stamp'

BucketsAge ==
    \A b \in Buckets :
        \/ place'[b] = place[b]
        \/ stamp < stamp' /\ (place'[b] = 0 \/ place'[b] \in DOMAIN dir' \ DOMAIN dir)

Ages == stamp <= stamp' /\ FilesAge /\ DirectoriesAge /\ BucketsAge

\* Files that do not change are no older than they were.
LEMMA FilesSame ==
    ASSUME CaptureTypeOK, file' = file, stamp' \in {stamp, stamp + 1}
    PROVE  FilesAge
  BY DEF FilesAge, Identity, Inodes

\* Nor are directories that do not change.
LEMMA DirectoriesSame ==
    ASSUME CaptureTypeOK, dir' = dir
    PROVE  DirectoriesAge
  BY DEF DirectoriesAge

\* Nor are paths of buckets that do not change.
LEMMA BucketsSame ==
    ASSUME place' = place
    PROVE  BucketsAge
  BY DEF BucketsAge

\* A file that is made has a stamp later than any before.
LEMMA FileAdded ==
    ASSUME CaptureTypeOK, NEW x \in Contents \cup {Partial}, NEW onDisk \in BOOLEAN,
           file' = NewFile(x, onDisk), Now
    PROVE  FilesAge
  <1>1. /\ file \in Seq(Files) /\ Len(file) \in Nat /\ Inodes = 1..Len(file) /\ stamp \in Nat
        /\ stamp' = stamp + 1
    BY Parts DEF Now
  <1>2. Inodes' = 1..(Len(file) + 1) /\ \A i \in Inodes : file'[i] = file[i]
    BY FileMade
  <1> DEFINE new == [content |-> x, synced |-> onDisk, mtime |-> stamp + 1, ctime |-> stamp + 1]
  <1>3. new \in Files /\ new.mtime = stamp + 1 /\ new.ctime = stamp + 1
    BY <1>1 DEF Files
  <1>4. file' = Append(file, new)
    BY DEF NewFile
  <1> HIDE DEF new
  <1>5. file'[Len(file) + 1] = new
    BY <1>1, <1>3, <1>4
  <1>6. \A i \in Inodes' \ Inodes : i = Len(file) + 1
    BY <1>1, <1>2
  <1> QED BY <1>1, <1>2, <1>3, <1>5, <1>6 DEF FilesAge, Identity

\* A file that changes gets a stamp later than any before, or is the same.
LEMMA FileChanged ==
    ASSUME CaptureTypeOK, NEW j \in Inodes, NEW r \in Files, file' = [file EXCEPT ![j] = r],
           \/ /\ r.content = file[j].content /\ r.mtime = file[j].mtime /\ r.ctime = file[j].ctime
              /\ stamp' = stamp
           \/ r.ctime = stamp + 1 /\ r.mtime <= stamp + 1 /\ Now
    PROVE  FilesAge
  <1>1. Inodes' = Inodes /\ file'[j] = r /\ \A i \in Inodes \ {j} : file'[i] = file[i]
    BY FileSet
  <1>2. stamp \in Nat
    BY Parts
  <1> QED BY <1>1, <1>2 DEF FilesAge, Identity, Now

\* A bucket that is made has a stamp later than any before.
LEMMA DirectoryAdded ==
    ASSUME CaptureTypeOK, NEW b \in Buckets, dir' = NewDirectory, file' = file,
           place' = [place EXCEPT ![b] = Len(dir')], Now
    PROVE  DirectoriesAge /\ BucketsAge
  <1>1. /\ dir \in Seq(Directories) /\ Len(dir) \in Nat /\ DOMAIN dir = 1..Len(dir) /\ stamp \in Nat
        /\ stamp' = stamp + 1
    BY Parts DEF Now
  <1>2. /\ Len(dir') = Len(dir) + 1 /\ DOMAIN dir' = 1..(Len(dir) + 1)
        /\ \A d \in DOMAIN dir : dir'[d] = dir[d]
    BY DirectoryMade
  <1>3. dir'[Len(dir) + 1].stamp = stamp + 1
    <2> DEFINE new == [entry |-> Empty, disk |-> Empty, stamp |-> stamp + 1]
    <2>1. dir' = Append(dir, new) /\ new.stamp = stamp + 1
      BY DEF NewDirectory
    <2> HIDE DEF new
    <2>2. dir'[Len(dir) + 1] = new
      BY <1>1, <2>1
    <2> QED BY <2>1, <2>2
  <1>4. DirectoriesAge
    BY <1>1, <1>2, <1>3 DEF DirectoriesAge
  <1>5. BucketsAge
    <2>1. place \in [Buckets -> 0..Len(dir)]
      BY DEF CaptureTypeOK
    <2>2. Len(dir) + 1 \in DOMAIN dir' \ DOMAIN dir
      BY <1>1, <1>2
    <2> QED BY <1>1, <1>2, <2>1, <2>2 DEF BucketsAge
  <1> QED BY <1>4, <1>5

\* A directory with other entries gets a stamp; what is on disk of it is no matter.
LEMMA DirectoryChanged ==
    ASSUME CaptureTypeOK, NEW d \in DOMAIN dir, NEW r, dir' = [dir EXCEPT ![d] = r],
           \/ r.entry = dir[d].entry /\ r.stamp = dir[d].stamp
           \/ r.stamp = stamp + 1 /\ Now
    PROVE  DirectoriesAge
  <1>1. /\ dir \in Seq(Directories) /\ Len(dir) \in Nat /\ DOMAIN dir = 1..Len(dir) /\ stamp \in Nat
    BY Parts
  <1>2. DOMAIN dir' = DOMAIN dir /\ dir'[d] = r /\ \A x \in DOMAIN dir \ {d} : dir'[x] = dir[x]
    BY <1>1
  <1> QED BY <1>1, <1>2 DEF DirectoriesAge, Now

\* A directory with a changed entry gets a stamp later than any before.
LEMMA EntryChanged ==
    ASSUME CaptureTypeOK, NEW d \in DOMAIN dir, NEW e \in Entries, NEW i, Now,
           dir' = SetEntry(d, e, i) \/ dir' = [SetEntry(d, e, i) EXCEPT ![d].disk[e] = i]
    PROVE  DirectoriesAge
  <1>1. /\ dir \in Seq(Directories) /\ DOMAIN dir = 1..Len(dir) /\ dir[d] \in Directories
    BY Parts
  <1> DEFINE new == [dir[d] EXCEPT !.entry = [dir[d].entry EXCEPT ![e] = i], !.stamp = stamp + 1]
             durable == [new EXCEPT !.disk = [new.disk EXCEPT ![e] = i]]
  <1>2. new.stamp = stamp + 1 /\ durable.stamp = stamp + 1
    BY <1>1 DEF Directories
  <1>3. SetEntry(d, e, i) = [dir EXCEPT ![d] = new]
    BY DEF SetEntry
  <1>4. [SetEntry(d, e, i) EXCEPT ![d].disk[e] = i] = [dir EXCEPT ![d] = durable]
    <2>1. [dir EXCEPT ![d] = new][d] = new
      BY <1>1
    <2> HIDE DEF new
    <2>2. [[dir EXCEPT ![d] = new] EXCEPT ![d].disk[e] = i] = [dir EXCEPT ![d] = durable]
      BY <1>1, <2>1
    <2> QED BY <1>3, <2>2
  <1> HIDE DEF new, durable
  <1> QED BY <1>2, <1>3, <1>4, DirectoryChanged

\* A step that leaves the store alone ages nothing.
LEMMA StoreAges ==
    ASSUME CaptureTypeOK, file' = file, dir' = dir, place' = place, stamp' = stamp
    PROVE  Ages
  <1>1. stamp \in Nat
    BY Parts
  <1> QED BY <1>1, FilesSame, DirectoriesSame, BucketsSame DEF Ages

\* Whatever a step of a capture changes gets a later stamp.
LEMMA SessionAges ==
    ASSUME CaptureInv, Stamped, NEW c \in Sessions, Session(c)
    PROVE  Ages
  <1>1. /\ CaptureTypeOK /\ cap[c] \in Calls /\ stamp \in Nat /\ Inodes = 1..Len(file)
        /\ \A i \in Inodes : file[i] \in Files
        /\ \A d \in DOMAIN dir : dir[d] \in Directories
        /\ c \in Entries /\ cap[c].bucket \in Buckets /\ cap[c].name \in Entries
    BY Parts DEF CaptureInv, Calls, Entries
  <1>2. Now => stamp' = stamp + 1 /\ stamp' \in {stamp, stamp + 1} /\ stamp <= stamp'
    BY <1>1 DEF Now
  <1>3. UNCHANGED store => Ages
    BY <1>1, StoreAges DEF store
  <1>4. cap[c].phase \in Inside => cap[c].dir \in DOMAIN dir
    BY DirectoryHeld
  <1>5. CASE \/ Begin(c) \/ SyncParent(c) \/ OpenBucket(c)
             \/ CheckDestination(c, "destination", "create") \/ CheckDestination(c, "recheck", "stat")
             \/ CheckDestination(c, "final", "confirm") \/ StatTemporary(c) \/ Verify(c)
             \/ StatClean(c) \/ Confirm(c) \/ Fault(c) \/ Kill(c)
    <2>1. UNCHANGED <<file, dir, place, stamp>>
      BY <1>5, Zenon DEF Begin, SyncParent, OpenBucket, CheckDestination, StatTemporary, Verify, StatClean,
                         Confirm, Fault, Kill, store
    <2> QED BY <1>1, <2>1, StoreAges
  <1>6. CASE Enter(c)
    <2>1. CASE /\ dir' = NewDirectory /\ file' = file /\ Now
               /\ place' = [place EXCEPT ![cap[c].bucket] = Len(dir')]
      BY <1>1, <1>2, <2>1, FilesSame, DirectoryAdded DEF Ages
    <2> QED BY <1>3, <1>6, <2>1 DEF Enter
  <1>7. CASE CreateTemporary(c)
    <2>1. CASE /\ file' = NewFile(Partial, FALSE) /\ dir' = SetEntry(cap[c].dir, c, Len(file'))
               /\ place' = place /\ Now /\ cap[c].phase = "create"
      <3>1. Partial \in Contents \cup {Partial} /\ FALSE \in BOOLEAN /\ cap[c].phase \in Inside
        BY <2>1 DEF Inside
      <3>2. FilesAge
        BY <1>1, <2>1, <3>1, FileAdded
      <3>3. DirectoriesAge
        <4>1. PICK i : i = Len(file')
          OBVIOUS
        <4> QED BY <1>1, <1>4, <2>1, <3>1, <4>1, EntryChanged
      <3> QED BY <1>2, <2>1, <3>2, <3>3, BucketsSame DEF Ages
    <2> QED BY <1>3, <1>7, <2>1 DEF CreateTemporary
  <1>8. CASE Write(c)
    <2> DEFINE r == [content |-> cap[c].data, synced |-> FALSE, mtime |-> stamp + 1, ctime |-> stamp + 1]
    <2>1. /\ file' = [file EXCEPT ![cap[c].owned] = r] /\ dir' = dir /\ place' = place /\ Now
          /\ cap[c].phase \in Filling
      BY <1>8 DEF Write, Filling
    <2>2. cap[c].owned \in Inodes
      BY <2>1, Filled
    <2>3. r \in Files /\ r.ctime = stamp + 1 /\ r.mtime <= stamp + 1
      <3>1. cap[c].data \in Contents /\ stamp + 1 \in Nat
        BY <1>1 DEF Calls
      <3> QED BY <3>1 DEF Files
    <2> HIDE DEF r
    <2>4. FilesAge
      BY <1>1, <2>1, <2>2, <2>3, FileChanged
    <2> QED BY <1>1, <1>2, <2>1, <2>4, DirectoriesSame, BucketsSame DEF Ages
  <1>9. CASE SyncFile(c)
    <2> DEFINE r == [file[cap[c].owned] EXCEPT !.synced = TRUE]
    <2>1. /\ file' = [file EXCEPT ![cap[c].owned] = r] /\ dir' = dir /\ place' = place /\ stamp' = stamp
          /\ cap[c].phase \in Filling
      BY <1>9 DEF SyncFile, Filling, Sync
    <2>2. cap[c].owned \in Inodes
      BY <2>1, Filled
    <2>3. /\ r \in Files /\ r.content = file[cap[c].owned].content
          /\ r.mtime = file[cap[c].owned].mtime /\ r.ctime = file[cap[c].owned].ctime
      BY <1>1, <2>2 DEF Files
    <2> HIDE DEF r
    <2>4. FilesAge
      BY <1>1, <2>1, <2>2, <2>3, FileChanged
    <2> QED BY <1>1, <2>1, <2>4, DirectoriesSame, BucketsSame DEF Ages
  <1>10. ASSUME NEW k, NEW m, NEW j, k = cap[c].dir, m = cap[c].name, j = dir[k].entry[c],
                CanLink(k, m, j), dir' = SetEntry(k, m, j), file' = [file EXCEPT ![j].ctime = stamp + 1],
                place' = place, Now, cap[c].phase = "link"
         PROVE  Ages
    <2>1. k \in DOMAIN dir /\ m \in Entries
      <3>1. cap[c].phase \in Inside
        BY <1>10 DEF Inside, Linking
      <3> QED BY <1>1, <1>4, <1>10, <3>1
    <2>2. j \in Inodes
      <3>1. LeadsTo(c, j)
        BY <1>10, <2>1 DEF LeadsTo, CanLink
      <3> QED BY <1>1, <3>1, LeadsToFiles
    <2> DEFINE r == [file[j] EXCEPT !.ctime = stamp + 1]
    <2>3. file[j] \in Files /\ file[j].mtime <= stamp
      BY <1>1, <2>2 DEF Stamped
    <2>4. r \in Files /\ r.ctime = stamp + 1 /\ r.mtime <= stamp + 1
      BY <1>1, <2>3 DEF Files
    <2>5. file' = [file EXCEPT ![j] = r]
      BY <1>10
    <2> HIDE DEF r
    <2>6. FilesAge
      BY <1>1, <1>10, <2>2, <2>4, <2>5, FileChanged
    <2>7. DirectoriesAge
      BY <1>1, <1>10, <2>1, EntryChanged
    <2> QED BY <1>2, <1>10, <2>6, <2>7, BucketsSame DEF Ages
  <1>11. CASE Link(c)
    <2>1. CASE UNCHANGED store
      BY <1>3, <2>1
    <2>2. CASE ~UNCHANGED store
      BY <1>10, <1>11, <2>2, Zenon DEF Link
    <2> QED BY <2>1, <2>2
  <1>12. CASE Unlink(c)
    <2>1. /\ cap[c].phase = "unlink" /\ file' = file /\ place' = place
          /\ \/ dir' = dir /\ stamp' = stamp
             \/ dir' = SetEntry(cap[c].dir, c, 0) /\ Now
      BY <1>12 DEF Unlink
    <2>2. CASE dir' = SetEntry(cap[c].dir, c, 0) /\ Now
      <3>1. cap[c].dir \in DOMAIN dir
        <4>1. cap[c].phase \in Inside
          BY <2>1 DEF Inside
        <4> QED BY <1>4, <4>1
      <3>2. DirectoriesAge
        BY <1>1, <2>2, <3>1, EntryChanged
      <3> QED BY <1>1, <1>2, <2>1, <2>2, <3>2, FilesSame, BucketsSame DEF Ages
    <2> QED BY <1>1, <2>1, <2>2, StoreAges
  <1>13. CASE FlushDirectory(c)
    <2>1. /\ dir' = [dir EXCEPT ![cap[c].dir].disk = dir[cap[c].dir].entry] /\ file' = file
          /\ place' = place /\ stamp' = stamp /\ cap[c].phase = "flush"
      BY <1>13 DEF FlushDirectory, Flushed
    <2>2. cap[c].dir \in DOMAIN dir
      <3>1. cap[c].phase \in Inside
        BY <2>1 DEF Inside
      <3> QED BY <1>4, <3>1
    <2> DEFINE r == [dir[cap[c].dir] EXCEPT !.disk = dir[cap[c].dir].entry]
    <2>3. r.entry = dir[cap[c].dir].entry /\ r.stamp = dir[cap[c].dir].stamp
      BY <1>1, <2>2 DEF Directories
    <2>4. dir' = [dir EXCEPT ![cap[c].dir] = r]
      BY <2>1
    <2> HIDE DEF r
    <2>5. DirectoriesAge
      BY <1>1, <2>2, <2>3, <2>4, DirectoryChanged
    <2> QED BY <1>1, <2>1, <2>5, FilesSame, BucketsSame DEF Ages
  <1> QED BY <1>5, <1>6, <1>7, <1>8, <1>9, <1>11, <1>12, <1>13 DEF Session

\* Whatever a step of another writer changes gets a later stamp.
LEMMA WriterAges ==
    ASSUME CaptureInv, Stamped, OtherWriter
    PROVE  Ages
  <1>1. /\ CaptureTypeOK /\ stamp \in Nat /\ Len(dir) \in Nat /\ DOMAIN dir = 1..Len(dir)
        /\ \A i \in Inodes : file[i] \in Files
        /\ \A b \in Buckets : place[b] \in 0..Len(dir)
    BY Parts DEF CaptureInv, CaptureTypeOK
  <1>2. Now => stamp' \in {stamp, stamp + 1} /\ stamp <= stamp'
    BY <1>1 DEF Now
  <1>3. ASSUME NEW i \in Inodes, NEW x \in Contents, Rewrite(i, x) PROVE Ages
    <2> DEFINE r == [file[i] EXCEPT !.content = x, !.mtime = stamp + 1, !.ctime = stamp + 1]
    <2>1. file' = [file EXCEPT ![i] = r] /\ dir' = dir /\ place' = place /\ Now
      BY <1>3 DEF Rewrite
    <2>2. r \in Files /\ r.ctime = stamp + 1 /\ r.mtime <= stamp + 1
      <3>1. stamp + 1 \in Nat
        BY <1>1
      <3>2. r.ctime = stamp + 1 /\ r.mtime = stamp + 1
        BY <1>1 DEF Files
      <3>3. r \in Files
        BY <1>1, <3>1 DEF Files
      <3> QED BY <3>1, <3>2, <3>3
    <2> HIDE DEF r
    <2>3. FilesAge
      BY <1>1, <2>1, <2>2, FileChanged
    <2> QED BY <1>1, <1>2, <2>1, <2>3, DirectoriesSame, BucketsSame DEF Ages
  <1>4. ASSUME NEW b \in Buckets, NEW e \in Entries, place[b] # 0 PROVE place[b] \in DOMAIN dir
    BY <1>1, <1>4
  <1>5. ASSUME NEW d \in DOMAIN dir, NEW e \in Entries, DrainFile(d, e) PROVE Ages
    <2>1. file' = file /\ place' = place /\ Now /\ dir' = [SetEntry(d, e, 0) EXCEPT ![d].disk[e] = 0]
      BY <1>5 DEF DrainFile
    <2>2. DirectoriesAge
      BY <1>1, <2>1, EntryChanged
    <2> QED BY <1>1, <1>2, <2>1, <2>2, FilesSame, BucketsSame DEF Ages
  <1>6. ASSUME NEW d \in DOMAIN dir, NEW e \in Entries, NEW x \in Contents, Put(d, e, x) PROVE Ages
    <2>1. PICK i : i = Len(file')
      OBVIOUS
    <2>2. /\ file' = NewFile(x, TRUE) /\ place' = place /\ Now
          /\ dir' = [SetEntry(d, e, i) EXCEPT ![d].disk[e] = i]
      BY <1>6, <2>1 DEF Put
    <2>3. FilesAge
      BY <1>1, <2>2, FileAdded
    <2>4. DirectoriesAge
      BY <1>1, <2>2, EntryChanged
    <2> QED BY <1>2, <2>2, <2>3, <2>4, BucketsSame DEF Ages
  <1>7. ASSUME NEW b \in Buckets, MoveBucket(b) PROVE Ages
    <2>1. file' = file /\ Now
      BY <1>7 DEF MoveBucket
    <2>2. CASE dir' = NewDirectory /\ place' = [place EXCEPT ![b] = Len(dir')]
      BY <1>1, <1>2, <2>1, <2>2, FilesSame, DirectoryAdded DEF Ages
    <2>3. CASE place' = [place EXCEPT ![b] = 0] /\ dir' = dir
      <3>1. BucketsAge
        <4>1. place \in [Buckets -> 0..Len(dir)]
          BY <1>1 DEF CaptureTypeOK
        <4> QED BY <1>1, <2>1, <2>3, <4>1 DEF BucketsAge, Now
      <3> QED BY <1>1, <1>2, <2>1, <2>3, <3>1, FilesSame, DirectoriesSame DEF Ages
    <2> QED BY <1>7, <2>2, <2>3 DEF MoveBucket
  <1> QED BY <1>3, <1>4, <1>5, <1>6, <1>7 DEF OtherWriter

\* A directory that is found as it was noted was there all the time, with the same entries.
LEMMA SameDirectory ==
    ASSUME CaptureTypeOK, CaptureTypeOK', Ages, Hold, NEW b \in Buckets,
           NEW noted, noted[2] \in 0..stamp, DirectoryOf(b)' = noted
    PROVE  /\ DirectoryOf(b) = noted
           /\ \A n \in Names : Lookup(b, n)' = Lookup(b, n)
  <1>1. /\ stamp \in Nat /\ stamp' \in Nat /\ Len(dir) \in Nat /\ DOMAIN dir = 1..Len(dir)
        /\ place[b] \in 0..Len(dir) /\ place'[b] \in 0..Len(dir')
        /\ DOMAIN dir' = 1..Len(dir')
    <2>1. Len(dir) \in Nat /\ DOMAIN dir = 1..Len(dir)
      BY Parts
    <2>2. DOMAIN dir' = 1..Len(dir')
      BY DEF CaptureTypeOK
    <2> QED BY <2>1, <2>2 DEF CaptureTypeOK
  <1>2. parent'[b] = IF place'[b] = place[b] THEN parent[b] ELSE stamp'
    BY DEF Hold
  <1>3. DirectoryOf(b)' = IF place'[b] = 0 THEN <<0, parent'[b]>> ELSE <<place'[b], dir'[place'[b]].stamp>>
    BY DEF DirectoryOf
  <1>4. noted[2] = IF place'[b] = 0 THEN parent'[b] ELSE dir'[place'[b]].stamp
    BY <1>3
  <1>5. place'[b] = place[b]
    <2> SUFFICES ASSUME place'[b] # place[b] PROVE FALSE
      OBVIOUS
    <2>1. stamp < stamp' /\ (place'[b] = 0 \/ place'[b] \in DOMAIN dir' \ DOMAIN dir)
      BY DEF Ages, BucketsAge
    <2>2. noted[2] = stamp'
      <3>1. CASE place'[b] = 0
        BY <1>2, <1>4, <3>1
      <3>2. CASE place'[b] # 0
        BY <1>4, <2>1, <3>2 DEF Ages, DirectoriesAge
      <3> QED BY <3>1, <3>2
    <2> QED BY <1>1, <2>1, <2>2
  <1>6. CASE place[b] = 0
    BY <1>2, <1>3, <1>5, <1>6 DEF DirectoryOf, Lookup
  <1>7. CASE place[b] # 0
    <2>1. place[b] \in DOMAIN dir
      BY <1>1, <1>7
    <2>2. dir'[place[b]].stamp = dir[place[b]].stamp /\ dir'[place[b]].entry = dir[place[b]].entry
      BY <1>1, <1>4, <1>5, <1>7, <2>1 DEF Ages, DirectoriesAge
    <2> QED BY <1>3, <1>5, <1>7, <2>2 DEF DirectoryOf, Lookup
  <1> QED BY <1>6, <1>7

\* A file that is found as it was noted had the same bytes all the time.
LEMMA SameFile ==
    ASSUME CaptureTypeOK, CaptureTypeOK', Ages, NEW i \in Inodes,
           NEW noted, noted[3] \in 0..stamp, Identity(i)' = noted
    PROVE  Identity(i) = noted /\ file'[i].content = file[i].content
  <1>1. stamp \in Nat /\ stamp' \in Nat
    BY DEF CaptureTypeOK
  <1>2. noted[3] = file'[i].ctime
    BY DEF Identity
  <1>3. Identity(i)' = Identity(i) /\ file'[i].content = file[i].content
    BY <1>1, <1>2 DEF Ages, FilesAge
  <1> QED BY <1>3

\* No stamp is ever of the future: each step gives the present one.
LEMMA StampedStays ==
    ASSUME CaptureTypeOK, CaptureTypeOK', Stamped, Ages, Hold
    PROVE  Stamped'
  <1>1. stamp \in Nat /\ stamp' \in Nat /\ stamp <= stamp'
    BY DEF CaptureTypeOK, Ages
  <1>2. \A b \in Buckets : parent'[b] \in Nat /\ parent'[b] <= stamp'
    BY <1>1 DEF Hold, Stamped
  <1>3. \A d \in DOMAIN dir' : dir'[d].stamp <= stamp'
    <2>1. \A d \in DOMAIN dir : dir[d] \in Directories
      BY Parts
    <2>2. \A d \in DOMAIN dir : dir[d].stamp \in Nat
      BY <2>1 DEF Directories
    <2> QED BY <1>1, <2>2 DEF Ages, DirectoriesAge, Stamped
  <1>4. \A i \in Inodes' : file'[i].mtime <= stamp' /\ file'[i].ctime <= stamp'
    <2>1. \A i \in Inodes : file[i].mtime \in Nat /\ file[i].ctime \in Nat
      BY Parts DEF Files
    <2>2. ASSUME NEW i \in Inodes, Identity(i)' = Identity(i)
          PROVE  file'[i].mtime <= stamp' /\ file'[i].ctime <= stamp'
      <3>1. file'[i].mtime = file[i].mtime /\ file'[i].ctime = file[i].ctime
        BY <2>2 DEF Identity
      <3> QED BY <1>1, <2>1, <3>1 DEF Stamped
    <2> QED BY <1>1, <2>2 DEF Ages, FilesAge
  <1> QED BY <1>2, <1>3, <1>4 DEF Stamped

\* A power loss leaves files as they are or torn, with the stamps they have.
LEMMA CrashStamps ==
    ASSUME CaptureInv, Stamped, Crash, Hold
    PROVE  Stamped'
  <1>1. stamp \in Nat /\ stamp' = stamp + 1
    BY DEF CaptureInv, CaptureTypeOK, Crash, Now
  <1>2. \A b \in Buckets : parent'[b] \in Nat /\ parent'[b] <= stamp'
    BY <1>1 DEF Hold, Stamped
  <1>3. \A d \in DOMAIN dir' : dir'[d].stamp <= stamp'
    <2>1. PICK lost \in SUBSET ((DOMAIN dir) \X Entries) :
              dir' = [d \in DOMAIN dir |-> LET now == [e \in Entries |->
                          IF <<d, e>> \in lost THEN dir[d].disk[e] ELSE dir[d].entry[e]]
                      IN [entry |-> now, disk |-> now, stamp |-> stamp + 1]]
      BY Zenon DEF Crash
    <2>2. ASSUME NEW d \in DOMAIN dir' PROVE dir'[d].stamp = stamp + 1
      <3>1. PICK now : dir'[d] = [entry |-> now, disk |-> now, stamp |-> stamp + 1]
        BY <2>1, <2>2
      <3> QED BY <3>1
    <2> QED BY <1>1, <2>2
  <1>4. ASSUME NEW i \in Inodes' PROVE file'[i].mtime <= stamp' /\ file'[i].ctime <= stamp'
    <2>1. PICK torn : file' = [j \in Inodes |-> [file[j] EXCEPT !.content = IF j \in torn THEN Partial ELSE @,
                                                               !.synced = TRUE]]
      BY DEF Crash
    <2>2. i \in Inodes /\ file[i] \in Files
      BY <1>4, <2>1, Parts DEF Inodes, CaptureInv
    <2>3. file'[i].mtime = file[i].mtime /\ file'[i].ctime = file[i].ctime
      BY <2>1, <2>2 DEF Files
    <2>4. file[i].mtime \in Nat /\ file[i].ctime \in Nat
      BY <2>2 DEF Files
    <2> QED BY <1>1, <2>2, <2>3, <2>4 DEF Stamped
  <1> QED BY <1>2, <1>3, <1>4 DEF Stamped

\* The inbox while one call of the listing is made: nothing happens to it.
LEMMA StoreStill ==
    ASSUME UNCHANGED captureVars
    PROVE  file' = file /\ dir' = dir /\ place' = place /\ stamp' = stamp
  BY DEF captureVars, store

\* A step that leaves the store alone keeps it so.
LEMMA StillStamped ==
    ASSUME Stamped, UNCHANGED captureVars, Hold
    PROVE  Stamped'
  BY StoreStill DEF Stamped, Hold, Inodes

\* Without a change of the inbox, everything is found as it is.
LEMMA StillFound ==
    ASSUME UNCHANGED captureVars, Hold
    PROVE  /\ \A b \in Buckets : DirectoryOf(b)' = DirectoryOf(b)
           /\ \A b, n : Lookup(b, n)' = Lookup(b, n)
           /\ \A i : Identity(i)' = Identity(i)
  <1>1. \A b \in Buckets : parent'[b] = parent[b]
    BY StoreStill DEF Hold
  <1> QED BY <1>1, StoreStill DEF DirectoryOf, Lookup, Identity

-----------------------------------------------------------------------------
(* The parts of the inductive invariant. *)

\* A listing is a record of these fields, whatever their values.
Shaped ==
    lst = [phase |-> lst.phase, query |-> lst.query, resumed |-> lst.resumed, pass |-> lst.pass,
           left |-> lst.left, at |-> lst.at, todo |-> lst.todo,
           seen |-> [dirs |-> lst.seen.dirs, files |-> lst.seen.files],
           base |-> lst.base, bodies |-> lst.bodies]

\* The phases and passes that a call goes through, and what it has left to do in each.
Placed ==
    /\ \/ lst = IdleListing
       \/ lst.query \in Queries /\ \/ lst.phase = "scan" /\ lst.pass \in 1..LastPass
                                   \/ lst.phase = "read" /\ lst.pass = 3
                                   \/ lst.phase = "reply" /\ lst.pass = LastPass + 1
    /\ lst.query \subseteq Buckets /\ lst.left \subseteq lst.query
    /\ lst.phase # "scan" => lst.left = lst.query /\ lst.at = None
    /\ lst.phase = "scan" => lst.todo \subseteq Names
    /\ lst.phase = "scan" /\ lst.at = None => lst.todo = {}
    /\ lst.at # None => lst.at \in lst.query \ lst.left /\ lst.seen.dirs[lst.at][1] \in DOMAIN dir

\* The files of a bucket are those noted, and the rest to come.
Listed(b, files, rest) ==
    \A n \in Names :
        /\ Lookup(b, n) # 0 <=> <<b, n>> \in DOMAIN files \/ n \in rest
        /\ <<b, n>> \in DOMAIN files => files[<<b, n>>][1] = Lookup(b, n)

\* What was noted of some buckets is not of the future.
Noted(scan, buckets) ==
    /\ DOMAIN scan.dirs = buckets
    /\ \A b \in buckets : scan.dirs[b][2] \in 0..stamp
    /\ DOMAIN scan.files \subseteq buckets \X Names
    /\ \A p \in DOMAIN scan.files : scan.files[p][1] \in Inodes /\ scan.files[p][3] \in 0..stamp

\* What a bucket has left to be listed.
Rest(b) == IF b = lst.at THEN lst.todo ELSE {}

\* A bucket that is as the pass has found it has the files that it has noted.
Scanned ==
    /\ Noted(lst.seen, lst.query \ lst.left)
    /\ \A b \in lst.query \ lst.left :
           DirectoryOf(b) = lst.seen.dirs[b] => Listed(b, lst.seen.files, Rest(b))

\* The view v of the inbox has of a bucket the files that were noted before the reading.
AsNoted(b, v) == \A n \in Names : <<b, n>> \in DOMAIN v <=> <<b, n>> \in DOMAIN lst.base.files

\* From the second pass to the third: a bucket that is as it was noted has the
\* files of the view, and those that are as they were noted have its bytes, the
\* bytes that were read included.
Standing(v) ==
    \A b \in lst.query : DirectoryOf(b) = lst.base.dirs[b] =>
        /\ Listed(b, lst.base.files, {})
        /\ AsNoted(b, v)
        /\ \A n \in Names : LET p == <<b, n>> IN
               p \in DOMAIN lst.base.files /\ Identity(lst.base.files[p][1]) = lst.base.files[p] =>
                   /\ v[p] = file[lst.base.files[p][1]].content
                   /\ p \in DOMAIN lst.bodies => lst.bodies[p] = v[p]

\* What the third pass finds as it was noted was of the view, and read as in it.
Confirmed(v) ==
    \A b \in lst.query \ lst.left : lst.seen.dirs[b] = lst.base.dirs[b] =>
        /\ AsNoted(b, v)
        /\ \A n \in Names : LET p == <<b, n>> IN
               /\ p \in DOMAIN lst.base.files /\ p \in DOMAIN lst.seen.files
               /\ lst.seen.files[p] = lst.base.files[p]
               /\ b = lst.at => DirectoryOf(b) = lst.seen.dirs[b]
               => lst.bodies[p] = v[p]

\* The view of the selected buckets in which the reading began.
Enclosed(v) ==
    /\ v = [p \in DOMAIN v |-> v[p]] /\ DOMAIN v \subseteq lst.query \X Names
    /\ Noted(lst.base, lst.query)
    /\ Standing(v)
    /\ Confirmed(v)

Reading == lst.phase \in {"scan", "read"} /\ lst.pass = 3

\* What was read is of files that were noted.
BodiesOK ==
    /\ lst.bodies = [p \in DOMAIN lst.bodies |-> lst.bodies[p]]
    /\ DOMAIN lst.bodies \subseteq lst.query \X Names
    /\ \A p \in DOMAIN lst.bodies : lst.bodies[p] \in Contents
    /\ lst.pass < 3 => DOMAIN lst.bodies = {}
    /\ lst.phase = "read" => lst.todo \subseteq DOMAIN lst.base.files
    /\ Reading => DOMAIN lst.bodies =
           DOMAIN lst.base.files \ (IF lst.phase = "read" THEN lst.todo ELSE {})

\* The bodies are those of one moment, as soon as the third pass has confirmed them.
Truthful ==
    /\ Reading => \E v \in moments : Enclosed(v)
    /\ lst.phase \in {"scan", "reply"} /\ lst.pass > 3 => lst.bodies \in moments

Lines == Seq((Buckets \X Names) \X Contents)

\* A reader with a cursor has the first rows of the snapshot that it is bound to.
Chained ==
    /\ client.rows \in Lines
    /\ client.token # None =>
           /\ Rows(client.token.snapshot[2]) \in Lines
           /\ client.token.offset \in Nat \ {0}
           /\ client.token.offset < Len(Rows(client.token.snapshot[2]))
           /\ client.rows = SubSeq(Rows(client.token.snapshot[2]), 1, client.token.offset)
           /\ ~client.complete
    /\ lst.resumed => client.token # None
    /\ ChainTrue

ListingInv ==
    /\ CaptureInv /\ Stamped
    /\ Shaped /\ Placed /\ Scanned /\ BodiesOK /\ Truthful
    /\ Chained

-----------------------------------------------------------------------------
(* Outside of a call. *)

\* The fields of a listing that is not in progress.
LEMMA IdleFields ==
    /\ IdleListing.phase = "idle" /\ IdleListing.query = {} /\ IdleListing.resumed = FALSE
    /\ IdleListing.pass = 0 /\ IdleListing.left = {} /\ IdleListing.at = None
    /\ IdleListing.todo = {} /\ IdleListing.seen = NoScan /\ IdleListing.base = NoScan
    /\ IdleListing.bodies = Nothing
  BY DEF IdleListing

\* An empty pass has noted nothing.
LEMMA NothingNoted ==
    /\ DOMAIN NoScan.dirs = {} /\ DOMAIN NoScan.files = {} /\ DOMAIN Nothing = {}
    /\ Nothing = [p \in DOMAIN Nothing |-> Nothing[p]]
    /\ NoScan = [dirs |-> NoScan.dirs, files |-> NoScan.files]
  BY DEF NoScan, Nothing

\* A reader that is idle satisfies its part of the invariant.
LEMMA IdleBegins ==
    ASSUME lst = IdleListing
    PROVE  Shaped /\ Placed /\ Scanned /\ BodiesOK /\ Truthful /\ ~lst.resumed
  <1>1. /\ lst.phase = "idle" /\ lst.query = {} /\ lst.resumed = FALSE /\ lst.pass = 0 /\ lst.left = {}
        /\ lst.at = None /\ lst.todo = {} /\ lst.seen = NoScan /\ lst.base = NoScan
        /\ lst.bodies = Nothing
    BY IdleFields
  <1>2. Shaped
    BY <1>1, NothingNoted DEF Shaped, IdleListing
  <1>3. Placed
    BY <1>1 DEF Placed
  <1>4. Scanned
    BY <1>1, NothingNoted DEF Scanned, Noted
  <1>5. BodiesOK
    BY <1>1, NothingNoted DEF BodiesOK, Reading
  <1>6. Truthful
    BY <1>1 DEF Truthful, Reading
  <1> QED BY <1>1, <1>2, <1>3, <1>4, <1>5, <1>6

\* So does one that becomes idle.
LEMMA IdleAgain ==
    ASSUME lst' = IdleListing
    PROVE  (Shaped /\ Placed /\ Scanned /\ BodiesOK /\ Truthful /\ ~lst.resumed)'
  <1>1. /\ lst'.phase = "idle" /\ lst'.query = {} /\ lst'.resumed = FALSE /\ lst'.pass = 0
        /\ lst'.left = {} /\ lst'.at = None /\ lst'.todo = {} /\ lst'.seen = NoScan
        /\ lst'.base = NoScan /\ lst'.bodies = Nothing
    BY IdleFields
  <1>2. Shaped'
    BY <1>1, NothingNoted DEF Shaped, IdleListing
  <1>3. Placed'
    BY <1>1 DEF Placed, IdleListing
  <1>4. Scanned'
    BY <1>1, NothingNoted DEF Scanned, Noted
  <1>5. BodiesOK'
    BY <1>1, NothingNoted DEF BodiesOK, Reading
  <1>6. Truthful'
    BY <1>1 DEF Truthful, Reading
  <1> QED BY <1>1, <1>2, <1>3, <1>4, <1>5, <1>6

\* A reader that waits keeps what it has.
LEMMA ChainKept ==
    ASSUME Chained, client' = client, lst'.resumed => lst.resumed
    PROVE  Chained'
  BY DEF Chained, ChainTrue

-----------------------------------------------------------------------------
(* The steps of others. *)

\* What a pass has noted stays a set of files and stamps of the past.
LEMMA NotedKept ==
    ASSUME CaptureTypeOK, CaptureTypeOK', Ages, NEW scan, NEW buckets, Noted(scan, buckets)
    PROVE  /\ \A b \in buckets : scan.dirs[b][2] \in 0..stamp'
           /\ \A p \in DOMAIN scan.files : scan.files[p][1] \in Inodes' /\ scan.files[p][3] \in 0..stamp'
  <1>1. stamp \in Nat /\ stamp' \in Nat /\ stamp <= stamp'
    BY DEF CaptureTypeOK, Ages
  <1> QED BY <1>1 DEF Noted, Ages, FilesAge

\* A view of the inbox stays what its bytes are, through whatever is done to the inbox.
LEMMA EnclosedStays ==
    ASSUME ListingInv, CaptureInv', Ages, Hold, lst' = lst, NEW v, Enclosed(v)
    PROVE  Enclosed(v)'
  <1>1. CaptureTypeOK /\ CaptureTypeOK' /\ lst.query \subseteq Buckets
    BY DEF ListingInv, CaptureInv, Placed
  <1>2. Noted(lst.base, lst.query)'
    BY <1>1, NotedKept DEF Enclosed, Noted
  <1>3. ASSUME NEW b \in lst.query, DirectoryOf(b)' = lst.base.dirs[b]
        PROVE  /\ DirectoryOf(b) = lst.base.dirs[b]
               /\ \A n \in Names : Lookup(b, n)' = Lookup(b, n)
    <2>1. lst.base.dirs[b][2] \in 0..stamp
      BY DEF Enclosed, Noted
    <2> QED BY <1>1, <1>3, <2>1, SameDirectory DEF ListingInv
  <1>4. ASSUME NEW p \in DOMAIN lst.base.files, Identity(lst.base.files[p][1])' = lst.base.files[p]
        PROVE  /\ Identity(lst.base.files[p][1]) = lst.base.files[p]
               /\ file'[lst.base.files[p][1]].content = file[lst.base.files[p][1]].content
    <2>1. lst.base.files[p][3] \in 0..stamp /\ lst.base.files[p][1] \in Inodes
      BY DEF Enclosed, Noted
    <2>2. PICK i \in Inodes : i = lst.base.files[p][1]
      BY <2>1
    <2>3. Identity(i)' = lst.base.files[p]
      BY <1>1, <1>4, <2>2 DEF Identity
    <2> QED BY <1>1, <2>1, <2>2, <2>3, SameFile
  <1>5. Standing(v)'
    <2> SUFFICES ASSUME NEW b \in lst.query, DirectoryOf(b)' = lst.base.dirs[b]
                 PROVE  /\ Listed(b, lst.base.files, {})'
                        /\ AsNoted(b, v)'
                        /\ \A n \in Names : LET p == <<b, n>> IN
                               p \in DOMAIN lst.base.files /\ Identity(lst.base.files[p][1])' = lst.base.files[p] =>
                                   /\ v[p] = file'[lst.base.files[p][1]].content
                                   /\ p \in DOMAIN lst.bodies => lst.bodies[p] = v[p]
      BY DEF Standing, Identity
    <2>1. /\ DirectoryOf(b) = lst.base.dirs[b]
          /\ \A n \in Names : Lookup(b, n)' = Lookup(b, n)
      BY <1>3
    <2>2. /\ Listed(b, lst.base.files, {}) /\ AsNoted(b, v)
          /\ \A n \in Names : LET p == <<b, n>> IN
                 p \in DOMAIN lst.base.files /\ Identity(lst.base.files[p][1]) = lst.base.files[p] =>
                     /\ v[p] = file[lst.base.files[p][1]].content
                     /\ p \in DOMAIN lst.bodies => lst.bodies[p] = v[p]
      BY <2>1 DEF Enclosed, Standing
    <2>3. Listed(b, lst.base.files, {})'
      BY <2>1, <2>2 DEF Listed
    <2>4. AsNoted(b, v)'
      BY <2>2 DEF AsNoted
    <2> QED BY <1>4, <2>2, <2>3, <2>4
  <1>6. Confirmed(v)'
    <2>1. ASSUME NEW b \in lst.query \ lst.left, DirectoryOf(b)' = lst.seen.dirs[b]
          PROVE  DirectoryOf(b) = lst.seen.dirs[b]
      <3>1. lst.seen.dirs[b][2] \in 0..stamp
        BY DEF ListingInv, Scanned, Noted
      <3> QED BY <1>1, <2>1, <3>1, SameDirectory DEF ListingInv
    <2> QED BY <2>1 DEF Enclosed, Confirmed, AsNoted
  <1> QED BY <1>2, <1>5, <1>6 DEF Enclosed

\* A step that is not of the reader keeps the invariant: what it changes gets a stamp that no
\* pass has noted.
LEMMA OthersKeep ==
    ASSUME ListingInv, CaptureInv', Ages, Hold, lst' = lst, client' = client, Observe
    PROVE  ListingInv'
  <1>1. /\ CaptureTypeOK /\ CaptureTypeOK' /\ lst.query \subseteq Buckets
    BY DEF ListingInv, CaptureInv, Placed
  <1>2. Stamped'
    BY <1>1, StampedStays DEF ListingInv
  <1>3. Shaped' /\ BodiesOK'
    BY DEF ListingInv, Shaped, BodiesOK, Reading
  <1>4. Placed'
    BY DEF ListingInv, Placed, Ages, DirectoriesAge
  <1>5. Scanned'
    <2>1. Noted(lst.seen, lst.query \ lst.left)'
      BY <1>1, NotedKept DEF ListingInv, Scanned, Noted
    <2>2. ASSUME NEW b \in lst.query \ lst.left, DirectoryOf(b)' = lst.seen.dirs[b]
          PROVE  Listed(b, lst.seen.files, Rest(b))'
      <3>1. lst.seen.dirs[b][2] \in 0..stamp
        BY DEF ListingInv, Scanned, Noted
      <3>2. DirectoryOf(b) = lst.seen.dirs[b] /\ \A n \in Names : Lookup(b, n)' = Lookup(b, n)
        BY <1>1, <2>2, <3>1, SameDirectory DEF ListingInv
      <3>3. Listed(b, lst.seen.files, Rest(b))
        BY <3>2 DEF ListingInv, Scanned
      <3> QED BY <3>2, <3>3 DEF Listed, Rest
    <2> QED BY <2>1, <2>2 DEF Scanned
  <1>6. Truthful'
    <2>1. lst.phase # "idle" => moments \subseteq moments'
      BY DEF Observe
    <2>2. Reading => \E v \in moments' : Enclosed(v)'
      <3> SUFFICES ASSUME Reading PROVE \E v \in moments' : Enclosed(v)'
        OBVIOUS
      <3>1. PICK v \in moments : Enclosed(v)
        BY DEF ListingInv, Truthful
      <3>2. Enclosed(v)'
        BY <3>1, EnclosedStays
      <3> QED BY <2>1, <3>1, <3>2 DEF Reading
    <2>3. lst.phase \in {"scan", "reply"} /\ lst.pass > 3 => lst.bodies \in moments'
      BY <2>1 DEF ListingInv, Truthful
    <2> QED BY <2>2, <2>3 DEF Truthful, Reading
  <1>7. Chained'
    BY ChainKept DEF ListingInv
  <1> QED BY <1>2, <1>3, <1>4, <1>5, <1>6, <1>7 DEF ListingInv

-----------------------------------------------------------------------------
(* The steps of a call of the listing, one by one. *)

\* The parts of the invariant that are about the call.
CallInv == Shaped /\ Placed /\ Scanned /\ BodiesOK /\ Truthful

\* A step of the reader changes nothing in the inbox.
LEMMA Still ==
    ASSUME ListingInv, UNCHANGED captureVars, Hold
    PROVE  /\ file' = file /\ dir' = dir /\ place' = place /\ stamp' = stamp
           /\ Inodes' = Inodes /\ CaptureInv' /\ Stamped'
           /\ CaptureTypeOK /\ stamp \in Nat
           /\ \A b \in Buckets : DirectoryOf(b)' = DirectoryOf(b)
           /\ \A b, n : Lookup(b, n)' = Lookup(b, n)
           /\ \A i : Identity(i)' = Identity(i)
  <1>1. CaptureInv' /\ CaptureTypeOK /\ stamp \in Nat
    BY StepKeeps DEF ListingInv, CaptureInv, CaptureTypeOK
  <1>2. Stamped'
    BY StillStamped DEF ListingInv
  <1> QED BY <1>1, <1>2, StoreStill, StillFound DEF Inodes

\* The moments of a call only become more, and the present one is among them.
LEMMA MomentsGrow ==
    ASSUME Observe, lst'.phase # "idle"
    PROVE  moments \subseteq moments' /\ View(lst.query)' \in moments'
  BY DEF Observe

\* The fields of a listing, in order.
Record(f, q, r, k, l, a, t, d, e, g, c) ==
    [phase |-> f, query |-> q, resumed |-> r, pass |-> k, left |-> l, at |-> a, todo |-> t,
     seen |-> [dirs |-> d, files |-> e], base |-> g, bodies |-> c]

\* A listing is the record of its fields.
LEMMA Fields ==
    ASSUME Shaped
    PROVE  \E f, q, r, k, l, a, t, d, e, g, c : lst = Record(f, q, r, k, l, a, t, d, e, g, c)
  BY DEF Shaped, Record

\* A call begins with nothing noted.
LEMMA BeginKeeps ==
    ASSUME ListingInv, UNCHANGED captureVars, Hold, Observe,
           NEW q \in Queries, NEW resumed \in BOOLEAN, BeginListing(q, resumed)
    PROVE  CallInv' /\ (lst'.resumed => client.token # None)
  <1>1. /\ lst'.phase = "scan" /\ lst'.query = q /\ lst'.resumed = resumed /\ lst'.pass = 1
        /\ lst'.left = q /\ lst'.at = None /\ lst'.todo = {} /\ lst'.seen = NoScan
        /\ lst'.base = NoScan /\ lst'.bodies = Nothing
        /\ Shaped'
    BY NothingNoted DEF BeginListing, IdleListing, Shaped
  <1>2. q \subseteq Buckets
    BY ListingAssumption
  <1>3. Placed'
    BY <1>1, <1>2 DEF Placed, LastPass
  <1>4. Scanned'
    BY <1>1, NothingNoted DEF Scanned, Noted
  <1>5. BodiesOK'
    BY <1>1, NothingNoted DEF BodiesOK, Reading
  <1>6. Truthful'
    BY <1>1 DEF Truthful, Reading
  <1>7. lst'.resumed => client.token # None
    BY <1>1 DEF BeginListing
  <1> QED BY <1>1, <1>3, <1>4, <1>5, <1>6, <1>7 DEF CallInv

\* What an extended function is.
LEMMA Extended ==
    ASSUME NEW f, NEW k, NEW v
    PROVE  /\ DOMAIN With(f, k, v) = DOMAIN f \cup {k}
           /\ With(f, k, v)[k] = v
           /\ \A x \in DOMAIN f : x # k => With(f, k, v)[x] = f[x]
           /\ With(f, k, v) = [x \in DOMAIN With(f, k, v) |-> With(f, k, v)[x]]
  BY DEF With

\* The identities that are noted are of the present, as are all.
LEMMA Present ==
    ASSUME CaptureTypeOK, Stamped
    PROVE  /\ \A b \in Buckets : DirectoryOf(b)[2] \in 0..stamp
           /\ \A i \in Inodes : Identity(i)[1] = i /\ Identity(i)[3] \in 0..stamp
  <1>1. /\ stamp \in Nat /\ Len(dir) \in Nat /\ DOMAIN dir = 1..Len(dir)
        /\ \A d \in DOMAIN dir : dir[d].stamp \in Nat
        /\ \A i \in Inodes : file[i].ctime \in Nat
        /\ \A b \in Buckets : place[b] \in 0..Len(dir)
    <2>1. stamp \in Nat /\ Len(dir) \in Nat /\ DOMAIN dir = 1..Len(dir)
      BY Parts
    <2>2. \A d \in DOMAIN dir : dir[d].stamp \in Nat
      BY Parts DEF Directories
    <2>3. \A i \in Inodes : file[i].ctime \in Nat
      BY Parts DEF Files
    <2> QED BY <2>1, <2>2, <2>3 DEF CaptureTypeOK
  <1>2. ASSUME NEW b \in Buckets PROVE DirectoryOf(b)[2] \in 0..stamp
    <2>1. CASE place[b] = 0
      BY <1>1, <2>1 DEF DirectoryOf, Stamped
    <2>2. CASE place[b] # 0
      <3>1. place[b] \in DOMAIN dir
        BY <1>1, <2>2
      <3> QED BY <1>1, <2>2, <3>1 DEF DirectoryOf, Stamped
    <2> QED BY <2>1, <2>2
  <1>3. ASSUME NEW i \in Inodes PROVE Identity(i)[1] = i /\ Identity(i)[3] \in 0..stamp
    BY <1>1 DEF Identity, Stamped
  <1> QED BY <1>2, <1>3

\* While nothing happens to the inbox, and to what was noted and read of it, what
\* stands goes on standing.
LEMMA StandsStill ==
    ASSUME ListingInv, UNCHANGED captureVars, Hold, NEW v, Enclosed(v),
           lst'.query = lst.query, lst'.base = lst.base, lst'.bodies = lst.bodies
    PROVE  Noted(lst.base, lst.query)' /\ Standing(v)'
  <1>1. /\ file' = file /\ stamp' = stamp /\ Inodes' = Inodes
        /\ \A b \in Buckets : DirectoryOf(b)' = DirectoryOf(b)
        /\ \A b, n : Lookup(b, n)' = Lookup(b, n)
        /\ \A i : Identity(i)' = Identity(i)
    BY Still
  <1>2. Noted(lst.base, lst.query)'
    BY <1>1 DEF Enclosed, Noted
  <1>3. /\ lst.query \subseteq Buckets
        /\ \A b \in lst.query : AsNoted(b, v)' <=> AsNoted(b, v)
        /\ \A b \in lst.query : Listed(b, lst.base.files, {})' <=> Listed(b, lst.base.files, {})
    BY <1>1 DEF AsNoted, Listed, ListingInv, Placed
  <1>4. Standing(v)'
    BY <1>1, <1>3 DEF Enclosed, Standing
  <1> QED BY <1>2, <1>4

\* A step of a pass, as far as the bodies are concerned.
LEMMA TruthKept ==
    ASSUME ListingInv, UNCHANGED captureVars, Hold, Observe, lst.phase = "scan", lst'.phase = "scan",
           lst'.query = lst.query, lst'.base = lst.base, lst'.bodies = lst.bodies, lst'.pass = lst.pass,
           \A v : lst.pass = 3 /\ Enclosed(v) => Confirmed(v)'
    PROVE  Truthful'
  <1>1. moments \subseteq moments'
    BY MomentsGrow
  <1>2. Reading' => \E v \in moments' : Enclosed(v)'
    <2> SUFFICES ASSUME Reading' PROVE \E v \in moments' : Enclosed(v)'
      OBVIOUS
    <2>1. lst.pass = 3
      BY DEF Reading
    <2>2. PICK v \in moments : Enclosed(v)
      BY <2>1 DEF ListingInv, Truthful, Reading
    <2>3. Enclosed(v)'
      BY <2>1, <2>2, StandsStill DEF Enclosed
    <2> QED BY <1>1, <2>2, <2>3
  <1>3. lst'.pass > 3 => lst'.bodies \in moments'
    BY <1>1 DEF ListingInv, Truthful
  <1> QED BY <1>2, <1>3 DEF Truthful, Reading

\* What it takes to be confirmed.
LEMMA ConfirmedNext ==
    ASSUME NEW v,
           \A b \in lst'.query \ lst'.left : lst'.seen.dirs[b] = lst'.base.dirs[b] =>
               /\ AsNoted(b, v)'
               /\ \A n \in Names : LET p == <<b, n>> IN
                      /\ p \in DOMAIN lst'.base.files /\ p \in DOMAIN lst'.seen.files
                      /\ lst'.seen.files[p] = lst'.base.files[p]
                      /\ b = lst'.at => DirectoryOf(b)' = lst'.seen.dirs[b]
                      => lst'.bodies[p] = v[p]
    PROVE  Confirmed(v)'
  BY DEF Confirmed

\* Opening a bucket notes its identity and the names in it.
LEMMA OpenListedKeeps ==
    ASSUME ListingInv, UNCHANGED captureVars, Hold, Observe, NEW o \in lst.left, OpenListed(o)
    PROVE  CallInv' /\ lst'.resumed = lst.resumed
  <1>1. /\ lst.phase = "scan" /\ lst.at = None /\ lst.todo = {}
        /\ o \in lst.query /\ o \in Buckets /\ lst.query \subseteq Buckets /\ lst.left \subseteq lst.query
        /\ None \notin Buckets
    BY ListingAssumption DEF OpenListed, ListingInv, Placed
  <1>2. /\ lst'.phase = "scan" /\ lst'.query = lst.query /\ lst'.resumed = lst.resumed
        /\ lst'.pass = lst.pass /\ lst'.left = lst.left \ {o} /\ lst'.at = Opened(o)
        /\ lst'.todo = {n \in Names : Lookup(o, n) # 0}
        /\ lst'.seen.dirs = With(lst.seen.dirs, o, DirectoryOf(o)) /\ lst'.seen.files = lst.seen.files
        /\ lst'.base = lst.base /\ lst'.bodies = lst.bodies
        /\ Shaped'
    <2>1. PICK dirs, left, at, todo :
              /\ dirs = With(lst.seen.dirs, o, DirectoryOf(o)) /\ left = lst.left \ {o} /\ at = Opened(o)
              /\ todo = {n \in Names : Lookup(o, n) # 0}
      OBVIOUS
    <2>2. lst' = [lst EXCEPT !.seen.dirs = dirs, !.left = left, !.at = at, !.todo = todo]
      BY <2>1 DEF OpenListed
    <2>3. PICK f, q, r, k, l, a, t, d, e, g, c : lst = Record(f, q, r, k, l, a, t, d, e, g, c)
      BY Fields DEF ListingInv
    <2>4. lst' = Record(f, q, r, k, left, at, todo, dirs, e, g, c)
      BY <2>2, <2>3 DEF Record
    <2> QED BY <1>1, <2>1, <2>3, <2>4 DEF Shaped, Record
  <1>3. /\ DOMAIN lst'.seen.dirs = lst'.query \ lst'.left /\ lst'.seen.dirs[o] = DirectoryOf(o)
        /\ \A b \in lst.query \ lst.left : b # o /\ lst'.seen.dirs[b] = lst.seen.dirs[b]
        /\ lst'.query \ lst'.left = (lst.query \ lst.left) \cup {o}
    <2>1. lst'.query \ lst'.left = (lst.query \ lst.left) \cup {o} /\ o \notin lst.query \ lst.left
      BY <1>1, <1>2
    <2>2. DOMAIN lst.seen.dirs = lst.query \ lst.left
      BY DEF ListingInv, Scanned, Noted
    <2>3. PICK f, v : f = lst.seen.dirs /\ v = DirectoryOf(o)
      OBVIOUS
    <2>4. /\ DOMAIN With(f, o, v) = DOMAIN f \cup {o} /\ With(f, o, v)[o] = v
          /\ \A x \in DOMAIN f : x # o => With(f, o, v)[x] = f[x]
      BY DEF With
    <2> QED BY <1>2, <2>1, <2>2, <2>3, <2>4
  <1>4. /\ lst'.at = None => place[o] = 0
        /\ lst'.at # None => lst'.at = o /\ place[o] # 0
    BY <1>1, <1>2 DEF Opened
  <1>5. /\ dir' = dir /\ stamp' = stamp /\ Inodes' = Inodes /\ CaptureTypeOK
        /\ \A b \in Buckets : DirectoryOf(b)' = DirectoryOf(b)
        /\ \A b, n : Lookup(b, n)' = Lookup(b, n)
    BY Still
  <1>6. Placed'
    <2>1. place[o] # 0 => DirectoryOf(o)[1] \in DOMAIN dir
      <3>1. place[o] \in 0..Len(dir) /\ DOMAIN dir = 1..Len(dir) /\ Len(dir) \in Nat
        BY <1>1, <1>5, Parts DEF CaptureTypeOK
      <3> QED BY <3>1 DEF DirectoryOf
    <2>2. lst'.todo \subseteq Names /\ (lst'.at = None => lst'.todo = {})
      BY <1>2, <1>4 DEF Lookup
    <2>3. lst'.query \in Queries /\ lst'.pass \in 1..LastPass
      BY <1>1, <1>2, IdleFields DEF ListingInv, Placed
    <2> QED BY <1>1, <1>2, <1>3, <1>4, <1>5, <2>1, <2>2, <2>3 DEF Placed
  <1>7. Scanned'
    <2>1. Noted(lst.seen, lst.query \ lst.left)'
      <3>1. \A b \in lst'.query \ lst'.left : lst'.seen.dirs[b][2] \in 0..stamp
        BY <1>1, <1>3, <1>5, Present DEF ListingInv, Scanned, Noted
      <3> QED BY <1>2, <1>3, <1>5, <3>1 DEF ListingInv, Scanned, Noted
    <2>2. ASSUME NEW b \in lst'.query \ lst'.left, DirectoryOf(b)' = lst'.seen.dirs[b]
          PROVE  Listed(b, lst.seen.files, Rest(b))'
      <3>1. CASE b = o
        <4>1. \A n \in Names : <<o, n>> \notin DOMAIN lst.seen.files
          BY <1>1, <1>3 DEF ListingInv, Scanned, Noted
        <4>2. Rest(o)' = {n \in Names : Lookup(o, n) # 0}
          BY <1>2, <1>4 DEF Rest, Lookup
        <4> QED BY <1>2, <1>5, <3>1, <4>1, <4>2 DEF Listed
      <3>2. CASE b # o
        <4>1. b \in lst.query \ lst.left /\ b \in Buckets /\ DirectoryOf(b) = lst.seen.dirs[b]
          BY <1>1, <1>3, <1>5, <2>2, <3>2
        <4>2. Listed(b, lst.seen.files, Rest(b))
          BY <4>1 DEF ListingInv, Scanned
        <4>3. Rest(b)' = {} /\ Rest(b) = {}
          BY <1>1, <1>2, <1>4, <3>2, <4>1 DEF Rest, Opened
        <4> QED BY <1>2, <1>5, <4>2, <4>3 DEF Listed
      <3> QED BY <3>1, <3>2
    <2> QED BY <2>1, <2>2 DEF Scanned
  <1>8. BodiesOK'
    BY <1>1, <1>2 DEF ListingInv, BodiesOK, Reading
  <1>9. Truthful'
    <2>1. ASSUME NEW v, Enclosed(v) PROVE Confirmed(v)'
      <3>1. \A b \in lst.query : AsNoted(b, v)' <=> AsNoted(b, v)
        BY <1>2 DEF AsNoted
      <3>2. /\ AsNoted(o, v)' \/ DirectoryOf(o) # lst.base.dirs[o]
            /\ \A n \in Names : <<o, n>> \notin DOMAIN lst'.seen.files
        BY <1>1, <1>2, <1>3, <2>1, <3>1 DEF ListingInv, Scanned, Noted, Enclosed, Standing
      <3>3. ASSUME NEW b \in lst.query \ lst.left, lst.seen.dirs[b] = lst.base.dirs[b]
            PROVE  /\ AsNoted(b, v)'
                   /\ \A n \in Names : LET p == <<b, n>> IN
                          /\ p \in DOMAIN lst.base.files /\ p \in DOMAIN lst.seen.files
                          /\ lst.seen.files[p] = lst.base.files[p]
                          => lst.bodies[p] = v[p]
        BY <1>1, <2>1, <3>1, <3>3 DEF Enclosed, Confirmed
      <3> QED BY <1>2, <1>3, <3>2, <3>3, ConfirmedNext
    <2> QED BY <1>1, <1>2, <2>1, TruthKept
  <1> QED BY <1>2, <1>6, <1>7, <1>8, <1>9 DEF CallInv

\* A stat notes the file that its name leads to at that moment.
LEMMA StatListedKeeps ==
    ASSUME ListingInv, UNCHANGED captureVars, Hold, Observe, NEW n \in lst.todo, StatListed(n)
    PROVE  CallInv' /\ (lst'.resumed => lst.resumed)
  <1>1. /\ lst.phase = "scan" /\ lst.at # None /\ lst.todo \subseteq Names /\ n \in Names
        /\ lst.at \in lst.query \ lst.left /\ lst.query \subseteq Buckets /\ lst.at \in Buckets
        /\ lst.left \subseteq lst.query /\ lst.seen.dirs[lst.at][1] \in DOMAIN dir
    BY DEF StatListed, ListingInv, Placed
  <1>2. PICK at, i : at = lst.at /\ i = dir[lst.seen.dirs[at][1]].entry[n]
    OBVIOUS
  <1>3. CASE i = 0
    BY <1>2, <1>3, IdleAgain DEF StatListed, Refuse, CallInv
  <1>4. CASE i # 0
    <2>1. /\ lst'.phase = "scan" /\ lst'.query = lst.query /\ lst'.resumed = lst.resumed
          /\ lst'.pass = lst.pass /\ lst'.left = lst.left /\ lst'.at = at
          /\ lst'.todo = lst.todo \ {n}
          /\ lst'.seen.dirs = lst.seen.dirs
          /\ lst'.seen.files = With(lst.seen.files, <<at, n>>, Identity(i))
          /\ lst'.base = lst.base /\ lst'.bodies = lst.bodies
          /\ Shaped'
      <3>1. PICK todo, files : /\ todo = lst.todo \ {n}
                               /\ files = With(lst.seen.files, <<at, n>>, Identity(i))
        OBVIOUS
      <3>2. lst' = [lst EXCEPT !.todo = todo, !.seen.files = files]
        BY <1>2, <1>4, <3>1 DEF StatListed
      <3>3. PICK f, q, r, k, l, a, t, d, e, g, c : lst = Record(f, q, r, k, l, a, t, d, e, g, c)
        BY Fields DEF ListingInv
      <3>4. lst' = Record(f, q, r, k, l, a, todo, d, files, g, c)
        BY <3>2, <3>3 DEF Record
      <3> QED BY <1>1, <1>2, <3>1, <3>3, <3>4 DEF Shaped, Record
    <2>2. /\ dir' = dir /\ stamp' = stamp /\ Inodes' = Inodes /\ CaptureTypeOK
          /\ \A b \in Buckets : DirectoryOf(b)' = DirectoryOf(b)
          /\ \A b, x : Lookup(b, x)' = Lookup(b, x)
      BY Still
    <2>3. i \in Inodes /\ Identity(i)[1] = i /\ Identity(i)[3] \in 0..stamp
      <3>1. dir[lst.seen.dirs[at][1]].entry[n] \in Inodes
        BY <1>1, <1>2, <1>4, NamesLead DEF ListingInv
      <3> QED BY <1>2, <2>2, <3>1, Present DEF ListingInv
    <2>4. /\ DOMAIN lst'.seen.files = DOMAIN lst.seen.files \cup {<<at, n>>}
          /\ lst'.seen.files[<<at, n>>] = Identity(i)
          /\ \A p \in DOMAIN lst.seen.files : p # <<at, n>> => lst'.seen.files[p] = lst.seen.files[p]
      <3>1. PICK f, k, v : f = lst.seen.files /\ k = <<at, n>> /\ v = Identity(i)
        OBVIOUS
      <3>2. /\ DOMAIN With(f, k, v) = DOMAIN f \cup {k} /\ With(f, k, v)[k] = v
            /\ \A x \in DOMAIN f : x # k => With(f, k, v)[x] = f[x]
        BY DEF With
      <3> QED BY <2>1, <3>1, <3>2
    <2>5. DirectoryOf(at) = lst.seen.dirs[at] => Lookup(at, n) = i
      <3>1. lst.seen.dirs[at][1] # 0
        BY <1>1, <1>2, <2>2, Parts
      <3> QED BY <1>2, <3>1 DEF DirectoryOf, Lookup
    <2>6. Placed'
      <3>1. lst'.query \in Queries /\ lst'.pass \in 1..LastPass
        BY <1>1, <2>1, IdleFields DEF ListingInv, Placed
      <3> QED BY <1>1, <1>2, <2>1, <2>2, <3>1 DEF Placed
    <2>7. Scanned'
      <3>1. Noted(lst.seen, lst.query \ lst.left)'
        <4>1. /\ DOMAIN lst.seen.dirs = lst.query \ lst.left
              /\ \A b \in lst.query \ lst.left : lst.seen.dirs[b][2] \in 0..stamp
              /\ DOMAIN lst.seen.files \subseteq (lst.query \ lst.left) \X Names
              /\ \A p \in DOMAIN lst.seen.files :
                     lst.seen.files[p][1] \in Inodes /\ lst.seen.files[p][3] \in 0..stamp
          BY DEF ListingInv, Scanned, Noted
        <4>2. DOMAIN lst'.seen.files \subseteq (lst.query \ lst.left) \X Names
          BY <1>1, <1>2, <2>4, <4>1
        <4>3. \A p \in DOMAIN lst'.seen.files :
                  lst'.seen.files[p][1] \in Inodes /\ lst'.seen.files[p][3] \in 0..stamp
          BY <2>3, <2>4, <4>1
        <4> QED BY <2>1, <2>2, <4>1, <4>2, <4>3 DEF Noted
      <3>2. ASSUME NEW b \in lst.query \ lst.left, DirectoryOf(b) = lst.seen.dirs[b]
            PROVE  Listed(b, lst.seen.files, Rest(b))'
        <4>1. Listed(b, lst.seen.files, Rest(b))
          BY <3>2 DEF ListingInv, Scanned
        <4>2. Rest(b)' = Rest(b) \ {n} /\ (b = at => n \in Rest(b)) /\ (b # at => Rest(b) = {})
          BY <1>2, <2>1 DEF Rest
        <4>3. ASSUME NEW x \in Names
              PROVE  /\ Lookup(b, x)' # 0 <=> <<b, x>> \in DOMAIN lst'.seen.files \/ x \in Rest(b)'
                     /\ <<b, x>> \in DOMAIN lst'.seen.files => lst'.seen.files[<<b, x>>][1] = Lookup(b, x)'
          <5>1. CASE b = at /\ x = n
            BY <1>4, <2>2, <2>3, <2>4, <2>5, <3>2, <5>1
          <5>2. CASE b # at \/ x # n
            <6>1. <<b, x>> # <<at, n>> /\ (x \in Rest(b)' <=> x \in Rest(b))
              BY <4>2, <5>2
            <6> QED BY <2>2, <2>4, <4>1, <6>1 DEF Listed
          <5> QED BY <5>1, <5>2
        <4> QED BY <4>3 DEF Listed
      <3> QED BY <1>1, <2>1, <2>2, <3>1, <3>2 DEF Scanned
    <2>8. BodiesOK'
      BY <1>1, <2>1 DEF ListingInv, BodiesOK, Reading
    <2>9. Truthful'
      <3>1. ASSUME NEW v, lst.pass = 3, Enclosed(v) PROVE Confirmed(v)'
        <4>1. \A b \in lst.query : AsNoted(b, v)' <=> AsNoted(b, v)
          BY <2>1 DEF AsNoted
        <4>2. ASSUME NEW b \in lst.query \ lst.left, lst.seen.dirs[b] = lst.base.dirs[b], NEW x \in Names,
                     <<b, x>> \in DOMAIN lst.base.files, <<b, x>> \in DOMAIN lst'.seen.files,
                     lst'.seen.files[<<b, x>>] = lst.base.files[<<b, x>>],
                     b = at => DirectoryOf(b) = lst.seen.dirs[b]
              PROVE  lst.bodies[<<b, x>>] = v[<<b, x>>]
          <5>1. CASE b = at /\ x = n
            <6>1. DirectoryOf(at) = lst.base.dirs[at] /\ Lookup(at, n) = i
              BY <2>5, <4>2, <5>1
            <6>2. lst.base.files[<<at, n>>] = Identity(i) /\ lst.base.files[<<at, n>>][1] = i
              BY <2>3, <2>4, <4>2, <5>1
            <6>3. <<at, n>> \in DOMAIN lst.bodies
              BY <1>1, <3>1, <4>2, <5>1 DEF ListingInv, BodiesOK, Reading
            <6> QED BY <1>1, <3>1, <4>2, <5>1, <6>1, <6>2, <6>3 DEF Enclosed, Standing
          <5>2. CASE <<b, x>> # <<at, n>>
            BY <1>2, <2>4, <3>1, <4>2, <5>2 DEF Enclosed, Confirmed
          <5> QED BY <5>1, <5>2
        <4>3. \A b \in lst.query \ lst.left : lst.seen.dirs[b] = lst.base.dirs[b] => AsNoted(b, v)'
          BY <3>1, <4>1 DEF Enclosed, Confirmed
        <4>4. \A b \in lst.query : DirectoryOf(b)' = DirectoryOf(b)
          BY <1>1, <2>2
        <4> QED BY <2>1, <4>2, <4>3, <4>4, ConfirmedNext
      <3> QED BY <1>1, <2>1, <3>1, TruthKept
    <2> QED BY <2>1, <2>6, <2>7, <2>8, <2>9 DEF CallInv
  <1> QED BY <1>3, <1>4

\* A bucket that is as it was opened holds exactly the files that were noted.
LEMMA CloseListedKeeps ==
    ASSUME ListingInv, UNCHANGED captureVars, Hold, Observe, CloseListed
    PROVE  CallInv' /\ (lst'.resumed => lst.resumed)
  <1>1. /\ lst.phase = "scan" /\ lst.at # None /\ lst.todo = {}
        /\ lst.at \in lst.query \ lst.left /\ lst.query \subseteq Buckets /\ lst.left \subseteq lst.query
        /\ lst.at \in Buckets /\ None \notin Buckets
    BY ListingAssumption DEF CloseListed, ListingInv, Placed
  <1>2. CASE DirectoryOf(lst.at) # lst.seen.dirs[lst.at]
    BY <1>2, IdleAgain DEF CloseListed, Refuse, CallInv
  <1>3. CASE DirectoryOf(lst.at) = lst.seen.dirs[lst.at]
    <2>1. /\ lst'.phase = "scan" /\ lst'.query = lst.query /\ lst'.resumed = lst.resumed
          /\ lst'.pass = lst.pass /\ lst'.left = lst.left /\ lst'.at = None /\ lst'.todo = {}
          /\ lst'.seen = lst.seen /\ lst'.base = lst.base /\ lst'.bodies = lst.bodies
          /\ Shaped'
      <3>1. lst' = [lst EXCEPT !.at = None]
        BY <1>3 DEF CloseListed
      <3>2. PICK f, q, r, k, l, a, t, d, e, g, c : lst = Record(f, q, r, k, l, a, t, d, e, g, c)
        BY Fields DEF ListingInv
      <3>3. lst' = Record(f, q, r, k, l, None, t, d, e, g, c)
        BY <3>1, <3>2 DEF Record
      <3> QED BY <1>1, <3>2, <3>3 DEF Shaped, Record
    <2>2. /\ dir' = dir /\ stamp' = stamp /\ Inodes' = Inodes
          /\ \A b \in Buckets : DirectoryOf(b)' = DirectoryOf(b)
          /\ \A b, x : Lookup(b, x)' = Lookup(b, x)
      BY Still
    <2>3. Placed'
      <3>1. lst'.query \in Queries /\ lst'.pass \in 1..LastPass
        BY <1>1, <2>1, IdleFields DEF ListingInv, Placed
      <3> QED BY <1>1, <2>1, <3>1 DEF Placed
    <2>4. Scanned'
      <3>1. \A b \in lst.query : Rest(b) = {} /\ Rest(b)' = {}
        BY <1>1, <2>1 DEF Rest
      <3> QED BY <1>1, <2>1, <2>2, <3>1 DEF ListingInv, Scanned, Noted, Listed
    <2>5. BodiesOK'
      BY <1>1, <2>1 DEF ListingInv, BodiesOK, Reading
    <2>6. Truthful'
      <3>1. ASSUME NEW v, lst.pass = 3, Enclosed(v) PROVE Confirmed(v)'
        <4>1. \A b \in lst.query : AsNoted(b, v)' <=> AsNoted(b, v)
          BY <2>1 DEF AsNoted
        <4>2. \A b \in lst.query : b # None
          BY <1>1
        <4> QED BY <1>1, <1>3, <2>1, <3>1, <4>1, <4>2 DEF Enclosed, Confirmed
      <3> QED BY <1>1, <2>1, <3>1, TruthKept
    <2> QED BY <2>1, <2>3, <2>4, <2>5, <2>6 DEF CallInv
  <1> QED BY <1>2, <1>3

\* A body is that of the file which its name leads to at that moment, or the call is refused.
LEMMA ReadBodyKeeps ==
    ASSUME ListingInv, UNCHANGED captureVars, Hold, Observe, NEW p \in lst.todo, ReadBody(p)
    PROVE  CallInv' /\ (lst'.resumed => lst.resumed)
  <1>1. /\ lst.phase = "read" /\ lst.pass = 3 /\ lst.query \in Queries /\ lst.query \subseteq Buckets
        /\ lst.left = lst.query /\ lst.at = None
        /\ lst.todo \subseteq DOMAIN lst.base.files
        /\ DOMAIN lst.bodies = DOMAIN lst.base.files \ lst.todo
    BY IdleFields DEF ReadBody, ListingInv, Placed, BodiesOK, Reading
  <1>2. PICK i : i = Lookup(p[1], p[2])
    OBVIOUS
  <1>3. CASE i = 0
    BY <1>2, <1>3, IdleAgain DEF ReadBody, Refuse, CallInv
  <1>4. CASE i # 0
    <2>1. PICK x : x = file[i].content
      OBVIOUS
    <2>2. /\ lst'.phase = "read" /\ lst'.query = lst.query /\ lst'.resumed = lst.resumed
          /\ lst'.pass = 3 /\ lst'.left = lst.left /\ lst'.at = lst.at
          /\ lst'.todo = lst.todo \ {p} /\ lst'.seen = lst.seen /\ lst'.base = lst.base
          /\ lst'.bodies = With(lst.bodies, p, x)
          /\ Shaped'
      <3>1. PICK todo, bodies : todo = lst.todo \ {p} /\ bodies = With(lst.bodies, p, x)
        OBVIOUS
      <3>2. lst' = [lst EXCEPT !.todo = todo, !.bodies = bodies]
        BY <1>2, <1>4, <2>1, <3>1 DEF ReadBody
      <3>3. PICK f, q, r, k, l, a, t, d, e, g, c : lst = Record(f, q, r, k, l, a, t, d, e, g, c)
        BY Fields DEF ListingInv
      <3>4. lst' = Record(f, q, r, k, l, a, todo, d, e, g, bodies)
        BY <3>2, <3>3 DEF Record
      <3> QED BY <1>1, <3>1, <3>3, <3>4 DEF Shaped, Record
    <2>3. /\ DOMAIN lst'.bodies = DOMAIN lst.bodies \cup {p} /\ lst'.bodies[p] = x
          /\ \A y \in DOMAIN lst.bodies : y # p => lst'.bodies[y] = lst.bodies[y]
          /\ lst'.bodies = [y \in DOMAIN lst'.bodies |-> lst'.bodies[y]]
      <3>1. PICK f : f = lst.bodies
        OBVIOUS
      <3>2. /\ DOMAIN With(f, p, x) = DOMAIN f \cup {p} /\ With(f, p, x)[p] = x
            /\ \A y \in DOMAIN f : y # p => With(f, p, x)[y] = f[y]
            /\ With(f, p, x) = [y \in DOMAIN With(f, p, x) |-> With(f, p, x)[y]]
        BY DEF With
      <3> QED BY <2>2, <3>1, <3>2
    <2>4. /\ file' = file /\ dir' = dir /\ stamp' = stamp /\ Inodes' = Inodes
          /\ \A b \in Buckets : DirectoryOf(b)' = DirectoryOf(b)
          /\ \A b, n : Lookup(b, n)' = Lookup(b, n)
          /\ \A j : Identity(j)' = Identity(j)
      BY Still
    <2>5. PICK v \in moments : Enclosed(v)
      BY <1>1 DEF ListingInv, Truthful, Reading
    <2>6. p \in lst.query \X Names /\ p \in DOMAIN lst.base.files
      BY <1>1, <2>5 DEF Enclosed, Noted
    <2>7. x \in Contents
      <3>1. place[p[1]] # 0 /\ i = dir[place[p[1]]].entry[p[2]]
        BY <1>2, <1>4 DEF Lookup
      <3>2. place[p[1]] \in 0..Len(dir) /\ DOMAIN dir = 1..Len(dir) /\ Len(dir) \in Nat
        BY <1>1, <2>6, Parts DEF ListingInv, CaptureInv, CaptureTypeOK
      <3>3. place[p[1]] \in DOMAIN dir /\ p[2] \in Names
        BY <2>6, <3>1, <3>2
      <3>4. dir[place[p[1]]].entry[p[2]] \in Inodes /\ Whole(dir[place[p[1]]].entry[p[2]])
        BY <1>4, <3>1, <3>3, NamesLead DEF ListingInv
      <3>5. i \in Inodes /\ Whole(i) /\ file[i] \in Files
        BY <3>1, <3>4, Parts DEF ListingInv, CaptureInv
      <3> QED BY <2>1, <3>5 DEF Whole, Files
    <2>8. Placed'
      BY <1>1, <2>2 DEF Placed
    <2>9. Scanned'
      BY <1>1, <2>2, <2>4 DEF ListingInv, Scanned, Noted
    <2>10. BodiesOK'
      BY <1>1, <2>2, <2>3, <2>6, <2>7 DEF ListingInv, BodiesOK, Reading
    <2>11. Enclosed(v)'
      <3>1. Noted(lst.base, lst.query)'
        BY <2>2, <2>4, <2>5 DEF Enclosed, Noted
      <3>2. Confirmed(v)'
        BY <1>1, <2>2 DEF Confirmed
      <3>3. Standing(v)'
        <4>1. ASSUME NEW b \in lst.query, DirectoryOf(b) = lst.base.dirs[b]
              PROVE  /\ Listed(b, lst.base.files, {})'
                     /\ AsNoted(b, v)'
                     /\ \A n \in Names : LET r == <<b, n>> IN
                            r \in DOMAIN lst.base.files /\ Identity(lst.base.files[r][1]) = lst.base.files[r] =>
                                /\ v[r] = file[lst.base.files[r][1]].content
                                /\ r \in DOMAIN lst'.bodies => lst'.bodies[r] = v[r]
          <5>1. /\ Listed(b, lst.base.files, {}) /\ AsNoted(b, v)
                /\ \A n \in Names : LET r == <<b, n>> IN
                       r \in DOMAIN lst.base.files /\ Identity(lst.base.files[r][1]) = lst.base.files[r] =>
                           /\ v[r] = file[lst.base.files[r][1]].content
                           /\ r \in DOMAIN lst.bodies => lst.bodies[r] = v[r]
            BY <2>5, <4>1 DEF Enclosed, Standing
          <5>2. Listed(b, lst.base.files, {})' /\ AsNoted(b, v)'
            BY <2>2, <2>4, <5>1 DEF Listed, AsNoted
          <5>3. ASSUME NEW n \in Names, <<b, n>> = p PROVE lst.base.files[p][1] = i
            BY <1>2, <2>6, <5>1, <5>3 DEF Listed
          <5> QED BY <2>1, <2>3, <5>1, <5>2, <5>3
        <4>2. \A b \in lst.query : b \in Buckets
          BY <1>1
        <4> QED BY <2>2, <2>4, <4>1, <4>2 DEF Standing
      <3> QED BY <2>2, <2>5, <3>1, <3>2, <3>3 DEF Enclosed
    <2>12. Truthful'
      <3>1. v \in moments'
        BY <2>2, <2>5, MomentsGrow
      <3> QED BY <2>2, <2>11, <3>1 DEF Truthful, Reading
    <2> QED BY <2>2, <2>8, <2>9, <2>10, <2>12 DEF CallInv
  <1> QED BY <1>3, <1>4

\* After the last body the next pass begins, or the reply.
LEMMA EndReadKeeps ==
    ASSUME ListingInv, UNCHANGED captureVars, Hold, Observe, EndRead
    PROVE  CallInv' /\ (lst'.resumed => lst.resumed)
  <1>1. /\ lst.phase = "read" /\ lst.pass = 3 /\ lst.query \in Queries /\ lst.query \subseteq Buckets
        /\ lst.left = lst.query /\ lst.at = None /\ lst.todo = {}
        /\ DOMAIN lst.bodies = DOMAIN lst.base.files
    BY IdleFields DEF EndRead, ListingInv, Placed, BodiesOK, Reading
  <1>2. /\ lst'.phase = "scan" /\ lst'.query = lst.query /\ lst'.resumed = lst.resumed
        /\ lst'.pass = 3 /\ lst'.left = lst.left /\ lst'.at = None /\ lst'.todo = {}
        /\ lst'.seen = lst.seen /\ lst'.base = lst.base /\ lst'.bodies = lst.bodies
        /\ Shaped'
    <2>1. lst' = [lst EXCEPT !.phase = "scan"]
      BY <1>1 DEF EndRead, LastPass
    <2>2. PICK f, q, r, k, l, a, t, d, e, g, c : lst = Record(f, q, r, k, l, a, t, d, e, g, c)
      BY Fields DEF ListingInv
    <2>3. lst' = Record("scan", q, r, k, l, a, t, d, e, g, c)
      BY <2>1, <2>2 DEF Record
    <2> QED BY <1>1, <2>2, <2>3 DEF Shaped, Record
  <1>3. dir' = dir /\ stamp' = stamp /\ Inodes' = Inodes
    BY Still
  <1>4. Placed'
    BY <1>1, <1>2 DEF Placed, LastPass
  <1>5. Scanned'
    BY <1>1, <1>2, <1>3 DEF ListingInv, Scanned, Noted
  <1>6. BodiesOK'
    BY <1>1, <1>2 DEF ListingInv, BodiesOK, Reading
  <1>7. Truthful'
    <2>1. PICK v \in moments : Enclosed(v)
      BY <1>1 DEF ListingInv, Truthful, Reading
    <2>2. Confirmed(v)'
      BY <1>1, <1>2 DEF Confirmed
    <2>3. Enclosed(v)' /\ v \in moments'
      BY <1>2, <2>1, <2>2, StandsStill, MomentsGrow DEF Enclosed
    <2> QED BY <1>2, <2>3 DEF Truthful, Reading
  <1> QED BY <1>2, <1>4, <1>5, <1>6, <1>7 DEF CallInv

\* A pass that agrees with the one before confirms it; one that differs ends the call.
LEMMA EndPassKeeps ==
    ASSUME ListingInv, UNCHANGED captureVars, Hold, Observe, EndPass
    PROVE  CallInv' /\ (lst'.resumed => lst.resumed)
  <1>1. /\ lst.phase = "scan" /\ lst.pass \in 1..4 /\ lst.query \in Queries /\ lst.query \subseteq Buckets
        /\ lst.left = {} /\ lst.at = None /\ lst.todo = {} /\ None \notin Buckets
    BY IdleFields, ListingAssumption DEF EndPass, ListingInv, Placed, LastPass
  <1>2. CASE lst.pass > 1 /\ ~Agrees(lst.seen, lst.base)
    BY <1>2, IdleAgain DEF EndPass, Refuse, CallInv
  <1>3. CASE ~(lst.pass > 1 /\ ~Agrees(lst.seen, lst.base))
    <2>1. PICK phase, todo :
              /\ phase = CASE lst.pass = 2 -> "read" [] lst.pass = LastPass -> "reply" [] OTHER -> "scan"
              /\ todo = IF lst.pass = 2 THEN DOMAIN lst.seen.files ELSE {}
      OBVIOUS
    <2>2. /\ lst'.phase = phase /\ lst'.query = lst.query /\ lst'.resumed = lst.resumed
          /\ lst'.pass = lst.pass + 1 /\ lst'.left = lst.query /\ lst'.at = None
          /\ lst'.todo = todo /\ lst'.seen = NoScan /\ lst'.base = lst.seen /\ lst'.bodies = lst.bodies
          /\ Shaped'
      <3>1. PICK seen, pass, left : seen = lst.seen /\ pass = lst.pass + 1 /\ left = lst.query
        OBVIOUS
      <3>2. lst' = [lst EXCEPT !.base = seen, !.seen = NoScan, !.pass = pass, !.left = left,
                               !.todo = todo, !.phase = phase]
        BY <1>3, <2>1, <3>1 DEF EndPass
      <3>3. PICK f, q, r, k, l, a, t, d, e, g, c : lst = Record(f, q, r, k, l, a, t, d, e, g, c)
        BY Fields DEF ListingInv
      <3>4. lst' = [phase |-> phase, query |-> q, resumed |-> r, pass |-> pass, left |-> left, at |-> a,
                    todo |-> todo, seen |-> NoScan, base |-> seen, bodies |-> c]
        BY <3>2, <3>3 DEF Record
      <3>5. NoScan = [dirs |-> NoScan.dirs, files |-> NoScan.files]
        BY NothingNoted
      <3> HIDE DEF NoScan
      <3>6. /\ lst'.phase = phase /\ lst'.query = q /\ lst'.resumed = r /\ lst'.pass = pass
            /\ lst'.left = left /\ lst'.at = a /\ lst'.todo = todo /\ lst'.seen = NoScan
            /\ lst'.base = seen /\ lst'.bodies = c
        BY <3>4
      <3>7. lst.query = q /\ lst.resumed = r /\ lst.at = a /\ lst.bodies = c
        BY <3>3 DEF Record
      <3>8. Shaped'
        BY <3>4, <3>5, <3>6 DEF Shaped
      <3> QED BY <1>1, <3>1, <3>6, <3>7, <3>8
    <2>3. phase \in {"scan", "read", "reply"} /\ phase # "idle"
          /\ (phase = "read" <=> lst.pass = 2) /\ (phase = "reply" <=> lst.pass = 4)
      BY <1>1, <2>1 DEF LastPass
    <2>4. /\ file' = file /\ dir' = dir /\ place' = place /\ stamp' = stamp /\ Inodes' = Inodes
          /\ \A b \in Buckets : DirectoryOf(b)' = DirectoryOf(b)
          /\ \A b, n : Lookup(b, n)' = Lookup(b, n)
          /\ \A j : Identity(j)' = Identity(j)
      BY Still
    <2>5. Placed'
      <3>1. \/ lst'.phase = "scan" /\ lst'.pass \in 1..LastPass
            \/ lst'.phase = "read" /\ lst'.pass = 3
            \/ lst'.phase = "reply" /\ lst'.pass = LastPass + 1
        BY <1>1, <2>2, <2>3 DEF LastPass
      <3>2. lst'.phase = "scan" => lst'.todo = {}
        BY <2>1, <2>2, <2>3
      <3> QED BY <1>1, <2>2, <3>1, <3>2 DEF Placed
    <2>6. Scanned'
      BY <2>2, NothingNoted DEF Scanned, Noted
    <2>7. Noted(lst.base, lst.query)'
      BY <1>1, <2>2, <2>4 DEF ListingInv, Scanned, Noted
    <2>8. BodiesOK'
      <3>1. lst'.phase = "read" => lst'.todo = DOMAIN lst'.base.files
        BY <2>1, <2>2, <2>3
      <3>2. Reading' => DOMAIN lst'.bodies =
                DOMAIN lst'.base.files \ (IF lst'.phase = "read" THEN lst'.todo ELSE {})
        <4>1. CASE lst.pass = 2
          BY <1>1, <2>2, <2>3, <3>1, <4>1 DEF ListingInv, BodiesOK
        <4>2. CASE lst.pass # 2
          BY <1>1, <2>2, <4>2 DEF Reading
        <4> QED BY <4>1, <4>2
      <3>3. lst'.pass < 3 => DOMAIN lst'.bodies = {}
        BY <1>1, <2>2 DEF ListingInv, BodiesOK
      <3> QED BY <2>2, <3>1, <3>2, <3>3 DEF ListingInv, BodiesOK
    <2>9. CASE lst.pass = 2
      <3>1. PICK v : v = View(lst.query)
        OBVIOUS
      <3>2. v \in moments'
        <4>1. View(lst.query)' = v
          BY <2>2, <2>4, <3>1 DEF View, Visible
        <4> QED BY <2>2, <2>3, <4>1, MomentsGrow
      <3>3. /\ v = [p \in DOMAIN v |-> v[p]] /\ DOMAIN v \subseteq lst.query \X Names
            /\ \A b \in lst.query, n \in Names : <<b, n>> \in DOMAIN v <=> Lookup(b, n) # 0
            /\ \A b \in lst.query, n \in Names : <<b, n>> \in DOMAIN v =>
                   v[<<b, n>>] = file[Lookup(b, n)].content
        BY <3>1 DEF View, Visible
      <3>4. Standing(v)'
        <4>1. ASSUME NEW b \in lst.query, DirectoryOf(b) = lst.seen.dirs[b]
              PROVE  /\ Listed(b, lst.base.files, {})'
                     /\ AsNoted(b, v)'
                     /\ \A n \in Names : <<b, n>> \in DOMAIN lst.seen.files =>
                            v[<<b, n>>] = file[lst.seen.files[<<b, n>>][1]].content
          <5>1. Listed(b, lst.seen.files, {})
            BY <1>1, <4>1 DEF ListingInv, Scanned, Rest
          <5> QED BY <2>2, <2>4, <3>3, <5>1 DEF Listed, AsNoted
        <4>2. DOMAIN lst.bodies = {} /\ \A b \in lst.query : b \in Buckets
          BY <1>1, <2>9 DEF ListingInv, BodiesOK
        <4> QED BY <2>2, <2>4, <4>1, <4>2 DEF Standing
      <3>5. Confirmed(v)'
        BY <2>2 DEF Confirmed
      <3>6. Enclosed(v)'
        BY <2>2, <2>7, <3>3, <3>4, <3>5 DEF Enclosed
      <3>7. Truthful'
        BY <2>2, <2>3, <2>9, <3>2, <3>6 DEF Truthful, Reading
      <3> QED BY <2>2, <2>5, <2>6, <2>8, <3>7 DEF CallInv
    <2>10. CASE lst.pass = 3
      <3>1. PICK v \in moments : Enclosed(v)
        BY <1>1, <2>10 DEF ListingInv, Truthful, Reading
      <3>2. lst.seen = lst.base
        BY <1>3, <2>10 DEF Agrees
      <3>3. DOMAIN lst.bodies = DOMAIN lst.base.files
        BY <1>1, <2>10 DEF ListingInv, BodiesOK, Reading
      <3>4. ASSUME NEW b \in lst.query, NEW n \in Names
            PROVE  /\ <<b, n>> \in DOMAIN v <=> <<b, n>> \in DOMAIN lst.bodies
                   /\ <<b, n>> \in DOMAIN lst.bodies => lst.bodies[<<b, n>>] = v[<<b, n>>]
        <4>1. b \in lst.query \ lst.left /\ b # lst.at
          BY <1>1
        <4> QED BY <3>1, <3>2, <3>3, <4>1 DEF Enclosed, Confirmed, AsNoted
      <3>5. /\ DOMAIN lst.bodies \subseteq lst.query \X Names /\ DOMAIN v \subseteq lst.query \X Names
            /\ lst.bodies = [p \in DOMAIN lst.bodies |-> lst.bodies[p]]
            /\ v = [p \in DOMAIN v |-> v[p]]
        BY <3>1 DEF ListingInv, BodiesOK, Enclosed
      <3>6. \A p \in lst.query \X Names : /\ p \in DOMAIN v <=> p \in DOMAIN lst.bodies
                                          /\ p \in DOMAIN lst.bodies => lst.bodies[p] = v[p]
        BY <3>4
      <3>7. DOMAIN lst.bodies = DOMAIN v
        BY <3>5, <3>6
      <3>8. lst.bodies = v
        BY <3>5, <3>6, <3>7
      <3>9. lst'.bodies \in moments'
        BY <2>2, <2>3, <3>1, <3>8, MomentsGrow
      <3>10. Truthful'
        BY <2>2, <2>10, <3>9 DEF Truthful, Reading
      <3> QED BY <2>2, <2>5, <2>6, <2>8, <3>10 DEF CallInv
    <2>11. CASE lst.pass \in {1, 4}
      <3>1. lst.pass = 4 => lst.bodies \in moments
        BY <1>1 DEF ListingInv, Truthful
      <3>2. moments \subseteq moments'
        BY <2>2, <2>3, MomentsGrow
      <3>3. Truthful'
        BY <2>2, <2>11, <3>1, <3>2 DEF Truthful, Reading
      <3> QED BY <2>2, <2>5, <2>6, <2>8, <3>3 DEF CallInv
    <2> QED BY <1>1, <2>9, <2>10, <2>11
  <1> QED BY <1>2, <1>3

-----------------------------------------------------------------------------
(* Rows, pages and chains. *)

\* Paths are in one order.
LEMMA PathsOrdered ==
    ASSUME NEW p \in Buckets \X Names, NEW r \in Buckets \X Names
    PROVE  /\ p # r => Ahead(p, r) \/ Ahead(r, p)
           /\ ~Ahead(p, p)
           /\ \A s \in Buckets \X Names : Ahead(p, r) /\ Ahead(r, s) => Ahead(p, s)
  <1>1. /\ \A b \in Buckets : BucketOrder[b] \in Nat
        /\ \A b, x \in Buckets : BucketOrder[b] = BucketOrder[x] => b = x
        /\ \A n \in Names : NameOrder[n] \in Nat
        /\ \A n, x \in Names : NameOrder[n] = NameOrder[x] => n = x
    BY ListingAssumption DEF Injection, IsInjective
  <1>2. p = <<p[1], p[2]>> /\ r = <<r[1], r[2]>> /\ p[1] \in Buckets /\ r[1] \in Buckets
        /\ p[2] \in Names /\ r[2] \in Names
    OBVIOUS
  <1>3. p # r => p[1] # r[1] \/ p[2] # r[2]
    BY <1>2
  <1>4. p # r => Ahead(p, r) \/ Ahead(r, p)
    BY <1>1, <1>2, <1>3 DEF Ahead
  <1>5. ~Ahead(p, p)
    BY <1>1, <1>2 DEF Ahead
  <1>6. ASSUME NEW s \in Buckets \X Names, Ahead(p, r), Ahead(r, s) PROVE Ahead(p, s)
    <2>1. s[1] \in Buckets /\ s[2] \in Names
      OBVIOUS
    <2> QED BY <1>1, <1>2, <1>6, <2>1 DEF Ahead
  <1> QED BY <1>4, <1>5, <1>6

\* Sorting lists every path once, in the order of paths.
LEMMA SortedListsAll ==
    ASSUME NEW paths \in SUBSET (Buckets \X Names)
    PROVE  /\ IsFiniteSet(paths) /\ Cardinality(paths) \in Nat
           /\ Sorted(paths) \in Bijection(1..Cardinality(paths), paths)
           /\ \A j, k \in 1..Cardinality(paths) : j < k => Ahead(Sorted(paths)[j], Sorted(paths)[k])
  <1> DEFINE N == Cardinality(paths)
             Earlier(p) == {r \in paths : Ahead(r, p)}
             rank(p) == Cardinality(Earlier(p))
  <1>1. IsFiniteSet(paths) /\ N \in Nat
    <2>1. IsFiniteSet(Buckets \X Names)
      BY FS_Product, ListingAssumption
    <2>2. IsFiniteSet(paths)
      BY <2>1, FS_Subset
    <2> QED BY <2>2, FS_CardinalityType
  <1>2. ASSUME NEW p \in paths
        PROVE  IsFiniteSet(Earlier(p)) /\ rank(p) \in Nat /\ rank(p) \in 0..(N - 1)
    <2>1. Earlier(p) \in SUBSET paths /\ p \notin Earlier(p)
      BY PathsOrdered
    <2>2. IsFiniteSet(Earlier(p)) /\ rank(p) <= N /\ (N = rank(p) => paths = Earlier(p))
      BY <1>1, <2>1, FS_Subset
    <2>3. rank(p) \in Nat
      BY <2>2, FS_CardinalityType
    <2> QED BY <1>1, <1>2, <2>1, <2>2, <2>3
  <1>3. ASSUME NEW p \in paths, NEW r \in paths, Ahead(p, r) PROVE rank(p) < rank(r)
    <2>1. Earlier(p) \in SUBSET Earlier(r) /\ p \in Earlier(r) /\ p \notin Earlier(p)
      BY <1>3, PathsOrdered
    <2>2. IsFiniteSet(Earlier(r))
      BY <1>2
    <2>3. rank(p) <= rank(r) /\ (rank(r) = rank(p) => Earlier(r) = Earlier(p))
      BY <2>1, <2>2, FS_Subset
    <2>4. rank(p) \in Nat /\ rank(r) \in Nat
      BY <1>1, <1>2
    <2> QED BY <2>1, <2>3, <2>4
  <1> HIDE DEF Earlier
  <1>4. ASSUME NEW p \in paths, NEW r \in paths, rank(p) = rank(r) PROVE p = r
    <2>1. rank(p) \in Int /\ rank(r) \in Int
      BY <1>1, <1>2
    <2>2. p # r => Ahead(p, r) \/ Ahead(r, p)
      BY PathsOrdered
    <2> QED BY <1>3, <1>4, <2>1, <2>2
  <1>5. ASSUME NEW k \in 1..N PROVE \E p \in paths : rank(p) = k - 1
    <2> DEFINE place_of == [p \in paths |-> rank(p) + 1]
    <2>1. place_of \in [paths -> 1..N]
      BY <1>1, <1>2
    <2>2. \A p, r \in paths : place_of[p] = place_of[r] => p = r
      BY <1>1, <1>2, <1>4
    <2>3. place_of \in Injection(paths, 1..N)
      BY <2>1, <2>2 DEF Injection, IsInjective
    <2>4. IsFiniteSet(1..N) /\ Cardinality(1..N) = N
      BY <1>1, FS_Interval
    <2> HIDE DEF place_of
    <2>5. place_of \in Surjection(paths, 1..N)
      BY <2>3, <2>4, FS_Injection
    <2>6. PICK p \in paths : place_of[p] = k
      BY <2>5 DEF Surjection
    <2> QED BY <1>1, <1>2, <2>6 DEF place_of
  <1>6. ASSUME NEW k \in 1..N PROVE Sorted(paths)[k] \in paths /\ rank(Sorted(paths)[k]) = k - 1
    BY <1>5 DEF Sorted, Earlier
  <1>7. Sorted(paths) \in [1..N -> paths]
    BY <1>6 DEF Sorted
  <1>8. \A j, k \in 1..N : Sorted(paths)[j] = Sorted(paths)[k] => j = k
    BY <1>6, <1>1
  <1>9. \A p \in paths : \E k \in 1..N : Sorted(paths)[k] = p
    <2> TAKE p \in paths
    <2>1. PICK k \in 1..N : k = rank(p) + 1
      BY <1>1, <1>2
    <2>2. rank(Sorted(paths)[k]) = rank(p) /\ Sorted(paths)[k] \in paths
      BY <1>1, <1>2, <1>6, <2>1
    <2> QED BY <1>4, <2>2
  <1>10. Sorted(paths) \in Bijection(1..N, paths)
    BY <1>7, <1>8, <1>9 DEF Bijection, Injection, Surjection, IsInjective
  <1>11. ASSUME NEW j \in 1..N, NEW k \in 1..N, j < k PROVE Ahead(Sorted(paths)[j], Sorted(paths)[k])
    <2>1. PICK p \in paths, r \in paths :
              p = Sorted(paths)[j] /\ r = Sorted(paths)[k] /\ rank(p) = j - 1 /\ rank(r) = k - 1
      BY <1>6
    <2>2. p # r /\ ~(rank(r) < rank(p))
      BY <1>1, <1>11, <2>1
    <2> QED BY <1>3, <2>1, <2>2, PathsOrdered
  <1> QED BY <1>1, <1>10, <1>11

\* The signals of a view of the inbox, but those of other workspaces, with their bytes.
RowsOf(bodies) == {<<p, bodies[p]>> : p \in {r \in DOMAIN bodies : Kind[bodies[r]] # "foreign"}}

\* The rows that list_signal_result makes of the inventory are all the signals but those of
\* other workspaces, malformed ones included, each once and in the order of their paths.
THEOREM RowsListed ==
    ASSUME NEW bodies, DOMAIN bodies \subseteq Buckets \X Names,
           \A p \in DOMAIN bodies : bodies[p] \in Contents
    PROVE  /\ Rows(bodies) \in Lines
           /\ {Rows(bodies)[k] : k \in 1..Len(Rows(bodies))} = RowsOf(bodies)
           /\ \A j, k \in 1..Len(Rows(bodies)) : j < k => Ahead(Rows(bodies)[j][1], Rows(bodies)[k][1])
  <1> DEFINE paths == {p \in DOMAIN bodies : Kind[bodies[p]] # "foreign"}
             listed == Sorted(paths)
  <1>1. paths \in SUBSET (Buckets \X Names)
    OBVIOUS
  <1>2. PICK N \in Nat : N = Cardinality(paths)
    BY <1>1, SortedListsAll
  <1>3. /\ listed \in Bijection(1..N, paths)
        /\ \A j, k \in 1..N : j < k => Ahead(listed[j], listed[k])
    BY <1>1, <1>2, SortedListsAll
  <1>4. /\ DOMAIN listed = 1..N /\ \A k \in 1..N : listed[k] \in paths
        /\ \A p \in paths : \E k \in 1..N : listed[k] = p
    BY <1>3 DEF Bijection, Injection, Surjection
  <1>5. Rows(bodies) = [k \in DOMAIN listed |-> <<listed[k], bodies[listed[k]]>>]
    BY DEF Rows
  <1> HIDE DEF listed
  <1>6. Rows(bodies) = [k \in 1..N |-> <<listed[k], bodies[listed[k]]>>]
    BY <1>4, <1>5
  <1>7. \A k \in 1..N : <<listed[k], bodies[listed[k]]>> \in (Buckets \X Names) \X Contents
    BY <1>1, <1>4
  <1>8. Rows(bodies) \in Lines /\ Len(Rows(bodies)) = N
    <2>1. PICK rows : rows = Rows(bodies)
      OBVIOUS
    <2>2. rows \in [1..N -> (Buckets \X Names) \X Contents]
      BY <1>6, <1>7, <2>1
    <2>3. rows \in Seq((Buckets \X Names) \X Contents) /\ Len(rows) = N
      BY <2>2
    <2> QED BY <2>1, <2>3 DEF Lines
  <1>9. {Rows(bodies)[k] : k \in 1..N} = RowsOf(bodies)
    BY <1>4, <1>6 DEF RowsOf
  <1>10. \A j, k \in 1..N : j < k => Ahead(Rows(bodies)[j][1], Rows(bodies)[k][1])
    BY <1>3, <1>6
  <1> QED BY <1>8, <1>9, <1>10

\* An answer adds to the rows that the reader has the next ones of the same snapshot.
LEMMA ReplyKeeps ==
    ASSUME ListingInv, UNCHANGED captureVars, Hold, Observe, Reply
    PROVE  CallInv' /\ Chained'
  <1>1. /\ lst.phase = "reply" /\ lst' = IdleListing /\ lst.pass > 3 /\ lst.bodies \in moments
        /\ lst.query \subseteq Buckets
    BY IdleFields DEF Reply, ListingInv, Placed, Truthful, LastPass
  <1>2. PICK R : R = Rows(lst.bodies)
    OBVIOUS
  <1>3. R \in Lines /\ Len(R) \in Nat
    <2>1. DOMAIN lst.bodies \subseteq Buckets \X Names /\ \A p \in DOMAIN lst.bodies : lst.bodies[p] \in Contents
      BY <1>1 DEF ListingInv, BodiesOK
    <2>2. R \in Lines
      BY <1>2, <2>1, RowsListed
    <2> QED BY <2>2 DEF Lines
  <1>4. PICK from, end : /\ from = IF lst.resumed THEN client.token.offset ELSE 0
                         /\ end = IF from + Limit < Len(R) THEN from + Limit ELSE Len(R)
    OBVIOUS
  <1>5. /\ lst.resumed => Accepted(client.token, R)
        /\ client' = [token |-> IF end < Len(R)
                                THEN [query |-> lst.query, snapshot |-> <<lst.base, lst.bodies>>, offset |-> end]
                                ELSE None,
                      rows |-> (IF lst.resumed THEN client.rows ELSE <<>>) \o SubSeq(R, from + 1, end),
                      complete |-> end = Len(R),
                      views |-> moments]
    BY <1>2, <1>4 DEF Reply, Snapshot
  <1>6. /\ lst.resumed => /\ client.token.offset \in Nat \ {0} /\ client.token.offset < Len(R)
                          /\ client.rows = SubSeq(R, 1, client.token.offset)
    <2> SUFFICES ASSUME lst.resumed
                 PROVE  /\ client.token.offset \in Nat \ {0} /\ client.token.offset < Len(R)
                        /\ client.rows = SubSeq(R, 1, client.token.offset)
      OBVIOUS
    <2>1. client.token.snapshot = <<lst.base, lst.bodies>>
      BY <1>5 DEF Accepted, Snapshot
    <2>2. client.token.snapshot[2] = lst.bodies
      BY <2>1
    <2> QED BY <1>2, <2>2 DEF ListingInv, Chained
  <1>7. /\ from \in 0..Len(R) /\ end \in from..Len(R) /\ (end < Len(R) => end > 0)
    BY <1>3, <1>4, <1>6, ListingAssumption
  <1>8. (IF lst.resumed THEN client.rows ELSE <<>>) = SubSeq(R, 1, from)
    <2>1. SubSeq(R, 1, 0) = <<>>
      BY SubSeqEmpty
    <2> QED BY <1>4, <1>6, <2>1
  <1>9. SubSeq(R, 1, from) \o SubSeq(R, from + 1, end) = SubSeq(R, 1, end)
    <2>1. 1 \in 1..(Len(R) + 1) /\ from \in (1 - 1)..Len(R) /\ end \in from..Len(R)
      BY <1>3, <1>7
    <2> QED BY <1>3, <2>1, ConcatAdjacentSubSeq DEF Lines
  <1>10. /\ client'.rows = SubSeq(R, 1, end) /\ (client'.complete <=> end = Len(R))
         /\ client'.views = moments
         /\ client'.token = IF end < Len(R)
                            THEN [query |-> lst.query, snapshot |-> <<lst.base, lst.bodies>>, offset |-> end]
                            ELSE None
    BY <1>5, <1>8, <1>9
  <1>11. CallInv' /\ ~lst'.resumed
    BY <1>1, IdleAgain DEF CallInv
  <1>12. client'.rows \in Lines
    <2>1. \A i \in 1..end : R[i] \in (Buckets \X Names) \X Contents
      BY <1>3, <1>7 DEF Lines
    <2>2. 1 \in Int /\ end \in Int
      BY <1>3, <1>7
    <2>3. SubSeq(R, 1, end) \in Lines
      BY <2>1, <2>2, SubSeqProperties DEF Lines
    <2> QED BY <1>10, <2>3
  <1>13. ASSUME client'.token # None
         PROVE  /\ client'.token.snapshot[2] = lst.bodies /\ client'.token.offset = end
                /\ end < Len(R) /\ ~client'.complete
    <2>1. end < Len(R)
      BY <1>10, <1>13
    <2>2. client'.token = [query |-> lst.query, snapshot |-> <<lst.base, lst.bodies>>, offset |-> end]
      BY <1>10, <2>1
    <2>3. end # Len(R)
      BY <1>3, <1>7, <2>1
    <2> QED BY <1>10, <2>1, <2>2, <2>3
  <1>14. client'.token # None =>
             /\ Rows(client'.token.snapshot[2]) \in Lines
             /\ client'.token.offset \in Nat \ {0}
             /\ client'.token.offset < Len(Rows(client'.token.snapshot[2]))
             /\ client'.rows = SubSeq(Rows(client'.token.snapshot[2]), 1, client'.token.offset)
             /\ ~client'.complete
    <2>1. end < Len(R) => end \in Nat \ {0}
      BY <1>3, <1>7
    <2> QED BY <1>2, <1>3, <1>10, <1>13, <2>1
  <1>15. client'.complete => \E v \in client'.views : client'.rows = Rows(v)
    <2>1. SubSeq(R, 1, Len(R)) = R
      BY <1>3, SubSeqFull DEF Lines
    <2> QED BY <1>1, <1>2, <1>10, <2>1
  <1> QED BY <1>11, <1>12, <1>14, <1>15 DEF Chained, ChainTrue

-----------------------------------------------------------------------------
(* The invariant holds. *)

\* Every step of the reader keeps the invariant.
LEMMA ListingKeeps ==
    ASSUME ListingInv, UNCHANGED captureVars, Hold, Observe, Listing
    PROVE  ListingInv'
  <1>1. CaptureInv' /\ Stamped'
    BY Still
  <1>2. ASSUME CallInv', client' = client, lst'.resumed => client.token # None PROVE ListingInv'
    <2>1. Chained'
      BY <1>2 DEF ListingInv, Chained, ChainTrue
    <2> QED BY <1>1, <1>2, <2>1 DEF ListingInv, CallInv
  <1>3. ASSUME CallInv', client' = client, lst'.resumed => lst.resumed PROVE ListingInv'
    BY <1>2, <1>3 DEF ListingInv, Chained
  <1>4. ASSUME NEW q \in Queries, NEW resumed \in BOOLEAN, BeginListing(q, resumed), client' = client
        PROVE  ListingInv'
    BY <1>2, <1>4, BeginKeeps
  <1>5. ASSUME NEW b \in lst.left, OpenListed(b), client' = client PROVE ListingInv'
    BY <1>3, <1>5, OpenListedKeeps
  <1>6. ASSUME NEW n \in lst.todo, StatListed(n) \/ ReadBody(n), client' = client PROVE ListingInv'
    BY <1>3, <1>6, StatListedKeeps, ReadBodyKeeps
  <1>7. ASSUME CloseListed \/ EndPass \/ EndRead, client' = client PROVE ListingInv'
    BY <1>3, <1>7, CloseListedKeeps, EndPassKeeps, EndReadKeeps
  <1>8. CASE Reply
    BY <1>1, <1>8, ReplyKeeps DEF ListingInv, CallInv
  <1>9. ASSUME Refuse, client' = client PROVE ListingInv'
    BY <1>3, <1>9, IdleAgain DEF Refuse, CallInv
  <1> QED BY <1>4, <1>5, <1>6, <1>7, <1>8, <1>9 DEF Listing

\* It holds when nothing was captured or listed yet.
LEMMA ListingBegins == ListingInit => ListingInv
  <1> SUFFICES ASSUME ListingInit PROVE ListingInv
    OBVIOUS
  <1>1. CaptureInv
    BY InitHolds DEF ListingInit
  <1>2. Stamped
    <2>1. stamp = 0 /\ file = <<>> /\ \A b \in Buckets : parent[b] = 0
      BY DEF ListingInit, CaptureInit, InitStore
    <2>2. \A d \in DOMAIN dir : dir[d].stamp = 0
      BY DEF ListingInit, CaptureInit, InitStore
    <2> QED BY <2>1, <2>2 DEF Stamped, Inodes
  <1>3. Shaped /\ Placed /\ Scanned /\ BodiesOK /\ Truthful /\ ~lst.resumed
    BY IdleBegins DEF ListingInit
  <1>4. client.token = None /\ client.rows = <<>> /\ client.complete = FALSE
    BY DEF ListingInit
  <1>5. Chained
    BY <1>3, <1>4 DEF Chained, ChainTrue, Lines
  <1> QED BY <1>1, <1>2, <1>3, <1>5 DEF ListingInv

\* Every step of the inbox and its reader keeps it.
LEMMA InboxKeeps ==
    ASSUME ListingInv, [InboxNext]_listingVars
    PROVE  ListingInv'
  <1>1. CASE UNCHANGED listingVars
    <2>1. /\ UNCHANGED captureVars /\ parent' = parent /\ lst' = lst /\ client' = client /\ moments' = moments
      BY <1>1 DEF listingVars
    <2>2. CaptureInv'
      BY <2>1, StepKeeps DEF ListingInv
    <2>3. file' = file /\ dir' = dir /\ place' = place /\ stamp' = stamp
      BY <2>1, StoreStill
    <2>4. /\ Inodes' = Inodes
          /\ \A b, n : Lookup(b, n)' = Lookup(b, n)
          /\ \A b : DirectoryOf(b)' = DirectoryOf(b)
          /\ \A i : Identity(i)' = Identity(i)
      BY <2>1, <2>3 DEF Inodes, Lookup, DirectoryOf, Identity
    <2>5. Stamped' /\ Shaped' /\ Placed'
      BY <2>1, <2>3, <2>4 DEF ListingInv, Stamped, Shaped, Placed
    <2>6. Scanned'
      BY <2>1, <2>3, <2>4 DEF ListingInv, Scanned, Noted, Listed, Rest
    <2>7. BodiesOK' /\ Chained'
      BY <2>1 DEF ListingInv, BodiesOK, Reading, Chained, ChainTrue
    <2>8. ASSUME NEW v, Enclosed(v) PROVE Enclosed(v)'
      <3>1. Standing(v)' /\ Noted(lst.base, lst.query)'
        BY <2>1, <2>3, <2>4, <2>8 DEF Enclosed, Standing, Noted, Listed, AsNoted
      <3>2. Confirmed(v)'
        BY <2>1, <2>3, <2>4, <2>8 DEF Enclosed, Confirmed, AsNoted
      <3> QED BY <2>1, <2>8, <3>1, <3>2 DEF Enclosed
    <2>9. Truthful'
      BY <2>1, <2>8 DEF ListingInv, Truthful, Reading
    <2> QED BY <2>2, <2>5, <2>6, <2>7, <2>9 DEF ListingInv
  <1>2. CASE Listing /\ UNCHANGED captureVars /\ Hold /\ Observe
    BY <1>2, ListingKeeps
  <1>3. CASE /\ (\E c \in Sessions : Session(c)) \/ OtherWriter
             /\ UNCHANGED <<lst, client>> /\ Hold /\ Observe
    <2>1. CaptureInv'
      BY <1>3, StepKeeps DEF ListingInv, CaptureNext
    <2>2. Ages
      BY <1>3, SessionAges, WriterAges DEF ListingInv
    <2> QED BY <1>3, <2>1, <2>2, OthersKeep
  <1>4. CASE Crash /\ Refuse /\ UNCHANGED client /\ Hold /\ Observe
    <2>1. CaptureInv'
      BY <1>4, StepKeeps DEF ListingInv, CaptureNext
    <2>2. Stamped'
      BY <1>4, CrashStamps DEF ListingInv
    <2>3. (Shaped /\ Placed /\ Scanned /\ BodiesOK /\ Truthful /\ ~lst.resumed)'
      BY <1>4, IdleAgain DEF Refuse
    <2>4. Chained'
      BY <1>4, <2>3 DEF ListingInv, Chained, ChainTrue
    <2> QED BY <2>1, <2>2, <2>3, <2>4 DEF ListingInv
  <1> QED BY <1>1, <1>2, <1>3, <1>4 DEF InboxNext

\* It holds in every reachable state.
LEMMA InboxInvariant == InboxSpec => []ListingInv
  BY ListingBegins, InboxKeeps, PTL DEF InboxSpec

-----------------------------------------------------------------------------
(* What a reader may rely on. *)

\* PageTrue holds of every reachable state: the inbox that list_signal_result answers
\* from, after its four inventories agreed, was the inbox at one moment of the call, for
\* any number of captures, editors, drains, moved buckets and power losses meanwhile.
THEOREM PagesTrue == InboxSpec => []PageTrue
  <1>1. ListingInv => PageTrue
    <2> SUFFICES ASSUME ListingInv, lst.phase = "reply" PROVE lst.bodies \in moments
      BY DEF PageTrue
    <2>1. lst.pass = LastPass + 1
      BY IdleFields DEF ListingInv, Placed
    <2> QED BY <2>1 DEF ListingInv, Truthful, LastPass
  <1> QED BY <1>1, InboxInvariant, PTL

\* ChainTrue holds of every reachable state: the pages that continuations join, bound by
\* decode_cursor to a snapshot, are together the rows of the inbox at one moment, for any
\* size of page and any number of calls.
THEOREM ChainsTrue == InboxSpec => []ChainTrue
  <1>1. ListingInv => ChainTrue
    BY DEF ListingInv, Chained
  <1> QED BY <1>1, InboxInvariant, PTL

\* ListingTypeOK holds of every reachable state: a listing reads selected paths only, of
\* directories that it has opened, and a cursor counts the rows that its reader has.
THEOREM ListingTypesHold == InboxSpec => []ListingTypeOK
  <1>1. ListingInv => ListingTypeOK
    <2> SUFFICES ASSUME ListingInv PROVE ListingTypeOK
      OBVIOUS
    <2>1. /\ lst.phase \in {"idle", "scan", "read", "reply"}
          /\ lst.query \in Queries \cup {{}} /\ lst.pass \in 0..LastPass + 1
      BY IdleFields DEF ListingInv, Placed, LastPass
    <2>2. /\ lst.left \subseteq lst.query
          /\ lst.at # None => lst.at \in lst.query /\ lst.seen.dirs[lst.at][1] \in DOMAIN dir
      BY DEF ListingInv, Placed
    <2>3. DOMAIN lst.bodies \subseteq lst.query \X Names /\ Range(lst.bodies) \subseteq Contents
      BY DEF ListingInv, BodiesOK, Range
    <2>4. Range(client.rows) \subseteq (Buckets \X Names) \X Contents
      <3>1. client.rows \in Seq((Buckets \X Names) \X Contents)
        BY DEF ListingInv, Chained, Lines
      <3>2. \A k \in DOMAIN client.rows : client.rows[k] \in (Buckets \X Names) \X Contents
        BY <3>1
      <3> QED BY <3>2 DEF Range
    <2>5. ASSUME client.token # None
          PROVE  client.token.offset \in 1..Len(client.rows) /\ ~client.complete
      <3>1. PICK R : R = Rows(client.token.snapshot[2])
        OBVIOUS
      <3>2. PICK k : k = client.token.offset
        OBVIOUS
      <3>3. /\ R \in Lines /\ k \in Nat \ {0} /\ k < Len(R)
            /\ client.rows = SubSeq(R, 1, k) /\ ~client.complete
        BY <2>5, <3>1, <3>2 DEF ListingInv, Chained
      <3>4. \A i \in 1..k : R[i] \in (Buckets \X Names) \X Contents
        BY <3>3 DEF Lines
      <3>5. Len(SubSeq(R, 1, k)) = k
        <4>1. 1 \in Int /\ k \in Int /\ 1 <= k
          BY <3>3
        <4>2. Len(SubSeq(R, 1, k)) = IF 1 <= k THEN k - 1 + 1 ELSE 0
          BY <3>4, <4>1, SubSeqProperties
        <4> QED BY <4>1, <4>2
      <3> QED BY <3>2, <3>3, <3>5
    <2> QED BY <2>1, <2>2, <2>3, <2>4, <2>5 DEF ListingTypeOK
  <1> QED BY <1>1, InboxInvariant, PTL

\* The inbox of SignalListing is the one of SignalCapture: a reader and the stamps of
\* parent directories add no step of their own to the files, so that every theorem about
\* record_signal_result holds while the inbox is listed.
THEOREM InboxImplementsCapture == InboxSpec => CaptureSpec
  <1>1. ListingInit => CaptureInit
    BY DEF ListingInit
  <1>2. [InboxNext]_listingVars => [CaptureNext]_captureVars
    BY DEF InboxNext, listingVars, CaptureNext
  <1> QED BY <1>1, <1>2, PTL DEF InboxSpec, CaptureSpec
=============================================================================
