---------------------------- MODULE SetupProofs ----------------------------
(***************************************************************************)
(* Theorems about SetupRuntime.  The invariant says what the documents,    *)
(* the launchers and the reports are whoever wrote them, what a run takes  *)
(* for granted at each stage, and, of a run that nobody has disturbed,     *)
(* that the documents are as it left them: those that it has edited carry  *)
(* its command, and those that are left explain every refusal.             *)
(***************************************************************************)
EXTENDS SetupRuntime, SubsequenceProofs

-----------------------------------------------------------------------------
(* Documents and entries. *)

HasForeign(content) == \A e \in Events : \E i \in DOMAIN content[e] : content[e][i] = Foreign

\* The commands of the package are told from those of others by their first word.
LEMMA Words ==
    /\ Foreign \in Commands /\ Word(Marker) \in Commands /\ Word(Marker) # Foreign
    /\ Word(Marker) \in Bindings /\ Foreign.by = Other
    /\ \A v \in Venvs : ~Recognised(Foreign, v)
  BY SetupAssumption DEF Foreign, Word, Commands, Bindings, Marker, Other, Recognised

\* Which document is which.
LEMMA DocumentKinds ==
    /\ Package \in Documents /\ Lock \in Documents /\ Package # Lock
    /\ \A h \in Consumer : Owned(h) \in Documents /\ Owned(h) \notin {Package, Lock}
                           /\ Owned(h) \notin ActiveDocs /\ Owned(h)[1] = h
    /\ \A h \in Sided : Active(h) \in ActiveDocs /\ h \in Consumer /\ Active(h)[1] = h
                        /\ Owned(h) \in Registrations
    /\ ActiveDocs \subseteq Documents /\ Package \notin ActiveDocs /\ Lock \notin ActiveDocs
    /\ \A d \in ActiveDocs : d \notin Registrations /\ d[1] \in Sided /\ d = Active(d[1])
    /\ \A d \in Registrations : d \in Documents /\ d[1] \in Sided /\ d = Owned(d[1])
    /\ Package \notin Registrations /\ Lock \notin Registrations
    /\ \A h \in Consumer \ Sided : Owned(h) \notin Registrations
    /\ \A g, h \in Consumer : Owned(g) = Owned(h) => g = h
    /\ \A g, h \in Sided : Active(g) = Active(h) => g = h
  BY SetupAssumption DEF Documents, Package, Lock, Owned, Active, ActiveDocs, Registrations, Sided, Harnesses

\* What each kind of document holds.
LEMMA Contents ==
    /\ Content(Package) = [Events -> {Marker} \cup Venvs]
    /\ Content(Lock) = [targets: SUBSET Consumer, hash: {None, Torn} \cup [Events -> Bindings]]
    /\ \A d \in ActiveDocs : Content(d) = [Events -> Seq(Commands)]
    /\ \A h \in Consumer : Content(Owned(h)) = [Events -> Bindings]
    /\ \A d \in Registrations : Content(d) = [Events -> Bindings]
  <1>1. Content(Package) = [Events -> {Marker} \cup Venvs]
    <2>1. PICK d : d = Package
      OBVIOUS
    <2>2. d = Package /\ d # Lock /\ d \notin ActiveDocs
      BY <2>1, DocumentKinds
    <2>3. Content(d) = [Events -> {Marker} \cup Venvs]
      BY <2>2 DEF Content
    <2> QED BY <2>1, <2>3
  <1>2. Content(Lock) = [targets: SUBSET Consumer, hash: {None, Torn} \cup [Events -> Bindings]]
    <2>1. PICK d : d = Lock
      OBVIOUS
    <2>2. d # Package /\ d = Lock /\ d \notin ActiveDocs
      BY <2>1, DocumentKinds
    <2>3. Content(d) = [targets: SUBSET Consumer, hash: {None, Torn} \cup [Events -> Bindings]]
      BY <2>2 DEF Content
    <2> QED BY <2>1, <2>3
  <1>3. ASSUME NEW d \in ActiveDocs PROVE Content(d) = [Events -> Seq(Commands)]
    <2>1. d # Package /\ d # Lock
      BY DocumentKinds
    <2> QED BY <2>1 DEF Content
  <1>4. ASSUME NEW h \in Consumer PROVE Content(Owned(h)) = [Events -> Bindings]
    <2>1. Owned(h) # Package /\ Owned(h) # Lock /\ Owned(h) \notin ActiveDocs
      BY DocumentKinds
    <2>2. PICK d : d = Owned(h)
      OBVIOUS
    <2>3. d # Package /\ d # Lock /\ d \notin ActiveDocs
      BY <2>1, <2>2
    <2>4. Content(d) = [Events -> Bindings]
      BY <2>3 DEF Content
    <2> QED BY <2>2, <2>4
  <1>5. \A d \in Registrations : Content(d) = [Events -> Bindings]
    BY <1>4, DocumentKinds DEF Sided
  <1> QED BY <1>1, <1>2, <1>3, <1>4, <1>5

\* A document with a content is neither missing nor cut off.
LEMMA NotMissing ==
    ASSUME NEW d \in Documents, NEW content \in Content(d)
    PROVE  content # None /\ content # Torn
  BY ContentAssumption

\* The first of some places.
LEMMA FirstPlace ==
    ASSUME NEW places \in SUBSET Nat, IsFiniteSet(places), places # {}
    PROVE  \E i \in places : \A j \in places : i <= j
  <1>1. Cardinality(places) \in Nat /\ Cardinality(places) # 0
    BY FS_CardinalityType, FS_EmptySet
  <1>2. PICK i \in places : Cardinality({j \in places : j < i}) = 1 - 1
    BY <1>1, Ranks
  <1>3. IsFiniteSet({j \in places : j < i})
    BY FS_Subset
  <1>4. {j \in places : j < i} = {}
    BY <1>2, <1>3, FS_EmptySet
  <1> QED BY <1>4

\* The places of a sequence are a finite set of numbers.
LEMMA SequencePlaces ==
    ASSUME NEW T, NEW s \in Seq(T)
    PROVE  DOMAIN s \in SUBSET Nat /\ IsFiniteSet(DOMAIN s) /\ \A i \in DOMAIN s : s[i] \in T
  <1>1. DOMAIN s = 1..Len(s) /\ Len(s) \in Int
    OBVIOUS
  <1> QED BY <1>1, FS_Interval

\* What APM leaves of the entries of an active document.
LEMMA MarkedEntries ==
    ASSUME NEW s \in Seq(Commands), NEW how
    PROVE  /\ Marked(s, how) \in Seq(Commands)
           /\ \A i \in DOMAIN s : s[i] = Foreign => \E k \in DOMAIN Marked(s, how) : Marked(s, how)[k] = Foreign
  <1>1. CASE OwnEntries(s) = {}
    <2>1. Marked(s, how) = Append(s, Word(Marker))
      BY <1>1 DEF Marked
    <2> QED BY <2>1, Words
  <1>2. CASE OwnEntries(s) # {} /\ how = "keep"
    BY <1>2 DEF Marked
  <1>3. CASE OwnEntries(s) # {} /\ how # "keep"
    <2>1. Marked(s, how) = [i \in DOMAIN s |-> IF i \in OwnEntries(s) THEN Word(Marker) ELSE s[i]]
      BY <1>3 DEF Marked
    <2>2. Marked(s, how) \in Seq(Commands)
      BY <2>1, Words
    <2> QED BY <2>1, <2>2 DEF OwnEntries
  <1> QED BY <1>1, <1>2, <1>3

\* Pruning by the package manager leaves the entries of others.
LEMMA PrunedEntries ==
    ASSUME NEW s \in Seq(Commands)
    PROVE  /\ Pruned(s) \in Seq(Commands)
           /\ \A i \in DOMAIN s : s[i] = Foreign => \E k \in DOMAIN Pruned(s) : Pruned(s)[k] = Foreign
  <1>1. PICK places : places = DOMAIN s \ OwnEntries(s)
    OBVIOUS
  <1>2. places \in SUBSET DOMAIN s /\ Pruned(s) = Subsequence(s, places)
    BY <1>1 DEF Pruned
  <1>3. Pruned(s) \in Seq(Commands)
    BY <1>2, SubsequenceLists
  <1>4. \A i \in places : \E k \in DOMAIN Pruned(s) : Pruned(s)[k] = s[i]
    BY <1>2, SubsequenceElements
  <1> QED BY <1>1, <1>3, <1>4 DEF OwnEntries

\* _normalize_active_hook leaves one entry of the package, which is the command, and
\* every entry of others; without an entry of the package there is nothing to bind.
LEMMA BoundEntries ==
    ASSUME NEW s \in Seq(Commands), NEW v \in Venvs, NEW c \in Commands
    PROVE  /\ BindActive(s, c, v) \in Seq(Commands)
           /\ BindActive(s, c, v) = <<>> <=> \A i \in DOMAIN s : ~Recognised(s[i], v)
           /\ (BindActive(s, c, v) # <<>> /\ Recognised(c, v)) => OnlyEntry(BindActive(s, c, v), c, v)
           /\ \A i \in DOMAIN s : BindActive(s, c, v) # <<>> /\ s[i] = Foreign =>
                  \E k \in DOMAIN BindActive(s, c, v) : BindActive(s, c, v)[k] = Foreign
  <1>1. PICK known : known = {i \in DOMAIN s : Recognised(s[i], v)}
    OBVIOUS
  <1>2. known = {} <=> \A i \in DOMAIN s : ~Recognised(s[i], v)
    BY <1>1
  <1>3. CASE known = {}
    <2>1. BindActive(s, c, v) = <<>>
      BY <1>1, <1>3 DEF BindActive
    <2> QED BY <1>2, <1>3, <2>1
  <1>4. CASE known # {}
    <2>1. DOMAIN s \in SUBSET Nat /\ IsFiniteSet(DOMAIN s) /\ known \subseteq DOMAIN s
      BY <1>1, SequencePlaces
    <2>2. IsFiniteSet(known) /\ known \in SUBSET Nat
      BY <2>1, FS_Subset
    <2>3. PICK f \in known : \A j \in known : f <= j
      BY <1>4, <2>2, FirstPlace
    <2>4. PICK t : t = [i \in DOMAIN s |-> IF i \in known THEN c ELSE s[i]]
      OBVIOUS
    <2>5. PICK places : places = {i \in DOMAIN s : i \in known => \A j \in known : i <= j}
      OBVIOUS
    <2>6. BindActive(s, c, v) = Subsequence(t, places)
      BY <1>1, <1>4, <2>4, <2>5 DEF BindActive
    <2>7. /\ t \in Seq(Commands) /\ places \in SUBSET DOMAIN t /\ DOMAIN t = DOMAIN s
          /\ \A i \in DOMAIN s : t[i] = IF i \in known THEN c ELSE s[i]
      BY <2>4, <2>5
    <2>8. \A i \in places : i \in known <=> i = f
      <3>1. \A i \in known : i \in Int
        BY <2>2
      <3>2. \A i \in places : i \in known => i <= f /\ f <= i
        BY <2>3, <2>5
      <3> QED BY <2>3, <3>1, <3>2
    <2>9. f \in places
      BY <2>1, <2>3, <2>5
    <2> DEFINE u == Subsequence(t, places)
               N == Cardinality(places)
    <2>10. u \in Seq(Commands) /\ Len(u) = N
      BY <2>7, SubsequenceLists
    <2>11. PICK place \in Bijection(1..N, places) : \A k \in 1..N : u[k] = t[place[k]]
      <3>1. t \in Seq(Commands) /\ places \in SUBSET DOMAIN t
        BY <2>7
      <3> QED BY <3>1, SubsequenceLists
    <2>12. /\ \A k \in 1..N : place[k] \in places
           /\ \A j, k \in 1..N : place[j] = place[k] => j = k
           /\ \A i \in places : \E k \in 1..N : place[k] = i
      BY <2>11 DEF Bijection, Injection, Surjection, IsInjective
    <2>13. DOMAIN u = 1..N
      BY <2>10
    <2> HIDE DEF u, N
    <2>14. PICK k \in 1..N : place[k] = f
      BY <2>9, <2>12
    <2>15. k \in DOMAIN u /\ u[k] = c /\ u # <<>>
      <3>1. k \in DOMAIN u /\ u[k] = t[f] /\ t[f] = c
        BY <2>3, <2>7, <2>9, <2>11, <2>13, <2>14
      <3>2. DOMAIN <<>> = {}
        OBVIOUS
      <3> QED BY <3>1, <3>2
    <2>16. ASSUME Recognised(c, v) PROVE OnlyEntry(u, c, v)
      <3>1. ASSUME NEW j \in DOMAIN u PROVE Recognised(u[j], v) <=> j = k
        <4>1. u[j] = t[place[j]] /\ place[j] \in places /\ place[j] \in DOMAIN s
          BY <2>7, <2>11, <2>12, <2>13
        <4>2. CASE place[j] = f
          BY <2>3, <2>7, <2>12, <2>13, <2>14, <2>16, <4>1, <4>2
        <4>3. CASE place[j] # f
          <5>1. place[j] \notin known /\ u[j] = s[place[j]]
            BY <2>7, <2>8, <4>1, <4>3
          <5>2. ~Recognised(u[j], v)
            BY <1>1, <4>1, <5>1
          <5> QED BY <2>14, <4>3, <5>2
        <4> QED BY <4>2, <4>3
      <3>2. \E i \in DOMAIN u : u[i] = c /\ \A j \in DOMAIN u : Recognised(u[j], v) <=> j = i
        BY <2>15, <3>1
      <3> QED BY <3>2 DEF OnlyEntry
    <2>17. ASSUME NEW i \in DOMAIN s, s[i] = Foreign PROVE \E j \in DOMAIN u : u[j] = Foreign
      <3>1. i \notin known
        BY <1>1, <2>17, Words
      <3>2. i \in places /\ t[i] = Foreign
        BY <2>5, <2>7, <2>17, <3>1
      <3> QED BY <2>11, <2>12, <2>13, <3>2
    <2> QED BY <1>2, <1>4, <2>6, <2>10, <2>15, <2>16, <2>17 DEF u
  <1> QED BY <1>3, <1>4

-----------------------------------------------------------------------------
(* The parts of the inductive invariant. *)

Shapes ==
    [Events -> {Marker} \cup Venvs] \cup [Events -> Seq(Commands)] \cup [Events -> Bindings]
      \cup [targets: SUBSET Consumer, hash: {None, Torn} \cup [Events -> Bindings]]
AllEdits == Documents \X (Events \cup {"all", "hash"})

RunRecords ==
    [stage: Stages, req: Requests \cup {None}, decl: Declarations \cup {None}, ready: BOOLEAN,
     binding: BOOLEAN, left: SUBSET AllEdits, edit: AllEdits \cup {None}, buffer: Shapes \cup {None},
     alone: BOOLEAN, at: Stages, outcome: {"none", "refused", "ready", "prepared"}]

SavedReports == [venv: Venvs, profile: Profiles, decl: Declarations, portable: BOOLEAN,
                 providers: SUBSET Consumer]

Stored ==
    /\ venv \in [Venvs -> {"absent", "partial", "bare", "mixed"} \cup Packages]
    /\ launchers \in [Venvs -> UNION {[S -> Declarations] : S \in SUBSET (Profiles \X Declarations)}]
    /\ registry \in [Profiles -> Declarations] /\ users \subseteq Sided
    /\ able \in [{"credentials", "compounding"} -> BOOLEAN]
    /\ docs \in [Documents -> {None, Torn} \cup Shapes]
    /\ \A d \in Documents : Missing(d) \/ docs[d] \in Content(d)
    /\ skill \in {None} \cup Packages
    /\ reports \subseteq SavedReports

\* The active document of a user with hooks is there, and has them unless it is cut off.
Hooked == \A h \in users : docs[Active(h)] # None /\ (docs[Active(h)] # Torn => HasForeign(docs[Active(h)]))

\* The declaration in a launcher is the one it is named for.
NamedFor == \A v \in Venvs : \A name \in DOMAIN launchers[v] : launchers[v][name] = name[2]

Launched ==
    /\ launch \in [stage: {"idle", "checked", "running"}, report: SavedReports \cup {None},
                   provider: Consumer \cup {None}, loaded: Declarations \cup {None}]
    /\ launch.stage = "checked" => launch.report \in SavedReports
    /\ LaunchHonest

StoreInv == Stored /\ Hooked /\ NamedFor /\ Launched

Resolved == {"portable", "launcher", "apm", "package", "edit", "truncate", "fill", "verify", "lock", "report"}

\* The edits that a run has made come before those that are left.
Sorted(o) == \A x \in Edits(o.req.targets) \ o.left, y \in o.left : Rank(x) < Rank(y)

\* The first event of a registration is edited, the second is not.
Halfway(o, h) ==
    <<Owned(h), "UserPromptSubmit">> \in o.left /\ <<Owned(h), "SessionStart">> \notin o.left

LockEdit == <<Lock, "hash">>

\* What a run takes for granted at each stage.
Holding(o) ==
    /\ o.stage # "idle" \/ o.outcome # "none" => o.req \in Requests
    /\ o.stage # "idle" => o.outcome = "none"
    /\ o.stage \in Resolved \/ o.outcome = "ready" => o.decl \in Declarations
    /\ o.stage = "apm" => o.req.mode = "managed"
    /\ o.stage \in {"edit", "truncate", "fill"} => o.left \subseteq Edits(o.req.targets) /\ Sorted(o)
    /\ o.stage = "edit" => \A h \in Sided : Halfway(o, h) => o.buffer \in Content(Owned(h))
    /\ o.stage \in {"truncate", "fill"} =>
          /\ \/ o.edit = LockEdit /\ o.left = {} /\ "copilot" \in o.req.targets
             \/ Foremost(o.edit, o.left)
          /\ o.buffer \in Content(o.edit[1])
          /\ \A h \in users : o.edit[1] = Active(h) => HasForeign(o.buffer)
    /\ o.stage = "verify" => o.left \subseteq UNION {HarnessDocs(h) : h \in o.req.targets}
    /\ o.stage = "lock" => o.left = {} /\ "copilot" \in o.req.targets

\* While a run is alone, and since it ended so, nobody else is at work.
Alone == \A p, q \in Processes : p # q /\ op[p].alone => op[q] = Idle

RunInv == op \in [Processes -> RunRecords] /\ (\A p \in Processes : Holding(op[p])) /\ Alone

\* A document as it will be once the run has filled what it truncates.
Pending(o, d) == IF o.stage \in {"truncate", "fill"} /\ o.edit[1] = d THEN o.buffer ELSE docs[d]

\* The edits of a run that are made, or decided on.
Made(o) ==
    {x \in Edits(o.req.targets) :
        \/ o.stage \notin {"edit", "truncate", "fill"} \/ x \notin o.left
        \/ o.stage \in {"truncate", "fill"} /\ x = o.edit}

\* A document has what an edit of the run leaves in it.
Applied(p, x, content) ==
    CASE x[1] = Package -> \A e \in Events : content[e] = (IF Req(p).portable THEN Marker ELSE Req(p).venv)
      [] x[1] \in ActiveDocs -> content # None => OnlyEntry(content[x[2]], Command(p, x[1][1], x[2]), Req(p).venv)
      [] x[1] \in Registrations -> content[x[2]] = Command(p, x[1][1], x[2])
      [] OTHER -> \A e \in Events : content[e] = Command(p, x[1][1], e)

\* ... and the document is there, but for an active one that nobody needs.
InPlace(p, x, content) ==
    Applied(p, x, content) /\ (content \in Content(x[1]) \/ (x[1] \in ActiveDocs /\ content = None))

\* The hooks are bound, and maybe the end is reported.
Finished(o) ==
    (o.stage = "report" /\ o.req.mode # "prepare" /\ o.req.targets # {})
        \/ (o.stage = "idle" /\ o.outcome = "ready")

Early == {"venv", "create", "install", "installed", "verify-venv", "context", "portable", "launcher", "apm"}
Hooking == {"apm", "package", "edit", "verify", "lock"}

\* What a run that is alone may rely on: what it has edited is as it left it, so is
\* the registration that it holds in memory; the lock, when it comes to it, describes
\* the hook file.  And a refusal is explained.
Agreed(p) ==
    op[p].stage \in {"edit", "truncate", "fill", "verify", "lock"} \/ Finished(op[p]) =>
        \A x \in Made(op[p]) : InPlace(p, x, Pending(op[p], x[1]))
Carried(p) == At(p, "edit") => \A h \in Sided : Halfway(op[p], h) => op[p].buffer = docs[Owned(h)]
Described(p) ==
    /\ op[p].stage \in {"truncate", "fill"} /\ op[p].edit = LockEdit =>
          op[p].buffer.hash = docs[Owned("copilot")]
    /\ Finished(op[p]) /\ "copilot" \in Req(p).targets => docs[Lock].hash = docs[Owned("copilot")]
Justified(p) == op[p].outcome = "refused" /\ op[p].at \in Hooking => Explained(p)

Undisturbed(p) ==
    op[p].alone => Agreed(p) /\ Carried(p) /\ Described(p) /\ Justified(p)

SetupInv == StoreInv /\ RunInv /\ \A p \in Processes : Undisturbed(p)

-----------------------------------------------------------------------------
(* The order of the edits. *)

\* The edits of a run: one for each event of a registration or an active document, one for
\* each other document.
LEMMA EditsOf ==
    ASSUME NEW T \in SUBSET Consumer, NEW x
    PROVE  x \in Edits(T) <=>
              \/ x = <<Package, "all">>
              \/ \E h \in T \cap Sided, e \in Events : x = <<Owned(h), e>> \/ x = <<Active(h), e>>
              \/ \E h \in T \ Sided : x = <<Owned(h), "all">>
  <1>1. \A h \in T : x \in HarnessEdits(h) <=>
            \/ h \in Sided /\ \E e \in Events : x = <<Owned(h), e>> \/ x = <<Active(h), e>>
            \/ h \notin Sided /\ x = <<Owned(h), "all">>
    BY DEF HarnessEdits
  <1>2. x \in Edits(T) <=> x = <<Package, "all">> \/ \E h \in T : x \in HarnessEdits(h)
    BY DEF Edits
  <1> QED BY <1>1, <1>2

\* The order in which setup makes its edits.
LEMMA Ranked ==
    /\ Rank(<<Package, "all">>) = 0
    /\ \A h \in Consumer : /\ Place(h) \in 1..3 /\ Rank(<<Owned(h), "all">>) = 4 * Place(h)
                           /\ Rank(<<Owned(h), "SessionStart">>) = 4 * Place(h)
                           /\ Rank(<<Owned(h), "UserPromptSubmit">>) = 4 * Place(h) + 1
    /\ \A h \in Sided : /\ Rank(<<Active(h), "SessionStart">>) = 4 * Place(h) + 2
                        /\ Rank(<<Active(h), "UserPromptSubmit">>) = 4 * Place(h) + 3
    /\ \A g, h \in Consumer : Place(g) = Place(h) => g = h
  <1>1. Rank(<<Package, "all">>) = 0
    BY DEF Rank
  <1>2. \A h \in Consumer : Place(h) \in 1..3
    BY DEF Place
  <1>3. \A g, h \in Consumer : Place(g) = Place(h) => g = h
    BY SetupAssumption DEF Place, Harnesses
  <1>4. ASSUME NEW h \in Consumer, NEW e \in {"all", "SessionStart", "UserPromptSubmit"}
        PROVE  Rank(<<Owned(h), e>>) = 4 * Place(h) + (IF e = "UserPromptSubmit" THEN 1 ELSE 0)
    <2>1. Owned(h) # Package /\ Owned(h)[1] = h /\ Owned(h)[2] # "active"
      BY DocumentKinds DEF Owned
    <2>2. PICK x : x = <<Owned(h), e>>
      OBVIOUS
    <2>3. x[1] # Package /\ x[1][1] = h /\ x[1][2] # "active" /\ x[2] = e
      BY <2>1, <2>2
    <2>4. Rank(x) = 4 * Place(h) + 0 + (IF e = "UserPromptSubmit" THEN 1 ELSE 0)
      BY <2>3 DEF Rank
    <2>5. Place(h) \in Int
      BY <1>2
    <2> QED BY <2>2, <2>4, <2>5
  <1>5. ASSUME NEW h \in Sided, NEW e \in Events
        PROVE  Rank(<<Active(h), e>>) = 4 * Place(h) + 2 + (IF e = "UserPromptSubmit" THEN 1 ELSE 0)
    <2>1. Active(h) # Package /\ Active(h)[1] = h /\ Active(h)[2] = "active" /\ h \in Consumer
      BY DocumentKinds DEF Active
    <2>2. PICK x : x = <<Active(h), e>>
      OBVIOUS
    <2>3. x[1] # Package /\ x[1][1] = h /\ x[1][2] = "active" /\ x[2] = e
      BY <2>1, <2>2
    <2> QED BY <2>2, <2>3 DEF Rank
  <1>6. ASSUME NEW h \in Consumer
        PROVE  /\ Rank(<<Owned(h), "all">>) = 4 * Place(h)
               /\ Rank(<<Owned(h), "SessionStart">>) = 4 * Place(h)
               /\ Rank(<<Owned(h), "UserPromptSubmit">>) = 4 * Place(h) + 1
    BY <1>2, <1>4
  <1>7. ASSUME NEW h \in Sided
        PROVE  /\ Rank(<<Active(h), "SessionStart">>) = 4 * Place(h) + 2
               /\ Rank(<<Active(h), "UserPromptSubmit">>) = 4 * Place(h) + 3
    <2>1. Place(h) \in Int
      BY <1>2 DEF Sided
    <2> QED BY <1>5, <2>1 DEF Events
  <1> QED BY <1>1, <1>2, <1>3, <1>6, <1>7

\* No two edits have the same rank.
LEMMA OneRank ==
    ASSUME NEW x \in Edits(Consumer), NEW y \in Edits(Consumer)
    PROVE  Rank(x) \in Int /\ (Rank(x) = Rank(y) => x = y)
  <1> DEFINE Form(z) ==
        \/ z = <<Package, "all">> /\ Rank(z) = 0
        \/ \E h \in Consumer \ Sided : z = <<Owned(h), "all">> /\ Rank(z) = 4 * Place(h)
        \/ \E h \in Sided : \/ z = <<Owned(h), "SessionStart">> /\ Rank(z) = 4 * Place(h)
                            \/ z = <<Owned(h), "UserPromptSubmit">> /\ Rank(z) = 4 * Place(h) + 1
                            \/ z = <<Active(h), "SessionStart">> /\ Rank(z) = 4 * Place(h) + 2
                            \/ z = <<Active(h), "UserPromptSubmit">> /\ Rank(z) = 4 * Place(h) + 3
  <1>1. \A z \in Edits(Consumer) : Form(z)
    <2>1. ASSUME NEW z \in Edits(Consumer) PROVE Form(z)
      <3>1. CASE z = <<Package, "all">>
        BY <3>1, Ranked
      <3>2. CASE \E h \in Consumer \ Sided : z = <<Owned(h), "all">>
        BY <3>2, Ranked
      <3>3. CASE \E h \in Consumer \cap Sided, e \in Events : z = <<Owned(h), e>> \/ z = <<Active(h), e>>
        <4>1. PICK h \in Sided, e \in Events : z = <<Owned(h), e>> \/ z = <<Active(h), e>>
          BY <3>3
        <4>2. e = "SessionStart" \/ e = "UserPromptSubmit"
          BY DEF Events
        <4>3. h \in Consumer
          BY DEF Sided
        <4>4. \/ z = <<Owned(h), "SessionStart">> \/ z = <<Owned(h), "UserPromptSubmit">>
              \/ z = <<Active(h), "SessionStart">> \/ z = <<Active(h), "UserPromptSubmit">>
          BY <4>1, <4>2
        <4>5. /\ z = <<Owned(h), "SessionStart">> => Rank(z) = 4 * Place(h)
              /\ z = <<Owned(h), "UserPromptSubmit">> => Rank(z) = 4 * Place(h) + 1
              /\ z = <<Active(h), "SessionStart">> => Rank(z) = 4 * Place(h) + 2
              /\ z = <<Active(h), "UserPromptSubmit">> => Rank(z) = 4 * Place(h) + 3
          BY <4>3, Ranked
        <4> QED BY <4>4, <4>5
      <3> QED BY <3>1, <3>2, <3>3, EditsOf
    <2> QED BY <2>1
  <1>2. \A h \in Consumer : Place(h) \in 1..3
    BY Ranked
  <1>3. \A g, h \in Consumer : Place(g) = Place(h) => g = h
    BY Ranked
  <1>4. Sided \subseteq Consumer
    BY DEF Sided
  <1>5. Form(x) /\ Form(y)
    BY <1>1
  <1>6. Rank(x) \in Int
    BY <1>2, <1>4, <1>5
  <1>7. ASSUME Rank(x) = Rank(y) PROVE x = y
    BY <1>2, <1>3, <1>4, <1>5, <1>7
  <1> QED BY <1>6, <1>7

\* When the foremost edit goes, what is left still comes last; and a registration is
\* half edited only when its first event was the one that went.
LEMMA Removal ==
    ASSUME NEW T \in SUBSET Consumer, NEW left \in SUBSET Edits(T),
           \A y \in Edits(T) \ left, z \in left : Rank(y) < Rank(z),
           NEW x, Foremost(x, left)
    PROVE  /\ \A y \in Edits(T) \ (left \ {x}), z \in left \ {x} : Rank(y) < Rank(z)
           /\ \A h \in Sided : <<Owned(h), "UserPromptSubmit">> \in left \ {x}
                               /\ <<Owned(h), "SessionStart">> \notin left \ {x} => x = <<Owned(h), "SessionStart">>
           /\ \A h \in Sided : x = <<Owned(h), "UserPromptSubmit">> => <<Owned(h), "SessionStart">> \notin left
  <1>1. x \in left /\ \A z \in left : Rank(x) <= Rank(z)
    BY DEF Foremost
  <1>2. Edits(T) \subseteq Edits(Consumer)
    BY EditsOf
  <1>3. \A y, z \in left : Rank(y) \in Int /\ (Rank(y) = Rank(z) => y = z)
    BY <1>2, OneRank
  <1>4. ASSUME NEW y \in Edits(T) \ (left \ {x}), NEW z \in left \ {x} PROVE Rank(y) < Rank(z)
    <2>1. CASE y = x
      BY <1>1, <1>3, <2>1
    <2>2. CASE y # x
      BY <2>2
    <2> QED BY <2>1, <2>2
  <1>5. ASSUME NEW h \in Sided, <<Owned(h), "UserPromptSubmit">> \in left
        PROVE  /\ <<Owned(h), "SessionStart">> \in Edits(T)
               /\ Rank(<<Owned(h), "UserPromptSubmit">>) = Rank(<<Owned(h), "SessionStart">>) + 1
               /\ Rank(<<Owned(h), "SessionStart">>) \in Int
    <2>1. h \in Consumer
      BY DEF Sided
    <2>2. /\ Rank(<<Owned(h), "UserPromptSubmit">>) = Rank(<<Owned(h), "SessionStart">>) + 1
          /\ Rank(<<Owned(h), "SessionStart">>) \in Int
      <3>1. /\ Rank(<<Owned(h), "UserPromptSubmit">>) = 4 * Place(h) + 1
            /\ Rank(<<Owned(h), "SessionStart">>) = 4 * Place(h) /\ Place(h) \in 1..3
        BY <2>1, Ranked
      <3>2. 4 * Place(h) \in Int
        BY <3>1
      <3> QED BY <3>1, <3>2
    <2>3. PICK x1 : x1 = <<Owned(h), "UserPromptSubmit">>
      OBVIOUS
    <2>4. x1 \in Edits(T) /\ x1[1] = Owned(h) /\ x1[2] = "UserPromptSubmit"
      BY <1>5, <2>3
    <2>5. \/ x1 = <<Package, "all">>
          \/ \E g \in T \cap Sided, e \in Events : x1 = <<Owned(g), e>> \/ x1 = <<Active(g), e>>
          \/ \E g \in T \ Sided : x1 = <<Owned(g), "all">>
      BY <2>4, EditsOf
    <2>6. PICK g \in T \cap Sided, e \in Events : x1 = <<Owned(g), e>> \/ x1 = <<Active(g), e>>
      BY <2>4, <2>5
    <2>7. Owned(h) = Owned(g) \/ Owned(h) = Active(g)
      BY <2>4, <2>6
    <2>8. g = h
      BY <2>1, <2>6, <2>7, DocumentKinds
    <2>9. h \in T \cap Sided /\ "SessionStart" \in Events
      BY <2>6, <2>8 DEF Events
    <2>10. <<Owned(h), "SessionStart">> \in Edits(T)
      BY <2>9, EditsOf
    <2> QED BY <2>2, <2>10
  <1>6. ASSUME NEW h \in Sided, <<Owned(h), "UserPromptSubmit">> \in left \ {x},
               <<Owned(h), "SessionStart">> \notin left \ {x}, x # <<Owned(h), "SessionStart">>
        PROVE  FALSE
    <2>1. PICK first, second : first = <<Owned(h), "SessionStart">> /\ second = <<Owned(h), "UserPromptSubmit">>
      OBVIOUS
    <2>2. first \in Edits(T) \ left /\ second \in left /\ second # x
      BY <1>5, <1>6, <2>1
    <2>3. Rank(first) < Rank(x) /\ Rank(x) <= Rank(second)
      BY <1>1, <2>2
    <2>4. Rank(second) = Rank(first) + 1 /\ Rank(first) \in Int
      BY <1>5, <2>1, <2>2
    <2>5. Rank(x) \in Int
      BY <1>1, <1>3
    <2>6. Rank(x) = Rank(second)
      BY <2>3, <2>4, <2>5
    <2> QED BY <1>1, <1>3, <2>2, <2>6
  <1>7. ASSUME NEW h \in Sided, x = <<Owned(h), "UserPromptSubmit">>, <<Owned(h), "SessionStart">> \in left
        PROVE  FALSE
    <2>1. PICK first : first = <<Owned(h), "SessionStart">>
      OBVIOUS
    <2>2. Rank(x) = Rank(first) + 1 /\ Rank(first) \in Int /\ Rank(x) <= Rank(first)
      BY <1>1, <1>5, <1>7, <2>1
    <2> QED BY <2>2
  <1> QED BY <1>4, <1>6, <1>7

\* The kinds of edits.
LEMMA EditKinds ==
    ASSUME NEW T \in SUBSET Consumer, NEW x \in Edits(T)
    PROVE  /\ x = <<x[1], x[2]>> /\ x[1] \in Documents /\ x[1] # Lock /\ x[2] \in Events \cup {"all"}
           /\ \/ x[1] = Package /\ x[2] = "all"
              \/ x[1] \in ActiveDocs /\ x[2] \in Events /\ x[1][1] \in T \cap Sided /\ x[1] = Active(x[1][1])
              \/ x[1] \in Registrations /\ x[2] \in Events /\ x[1][1] \in T \cap Sided /\ x[1] = Owned(x[1][1])
              \/ x[1] = Owned(x[1][1]) /\ x[1][1] \in T \ Sided /\ x[2] = "all"
  <1>1. CASE x = <<Package, "all">>
    BY <1>1, DocumentKinds
  <1>2. CASE \E h \in T \cap Sided, e \in Events : x = <<Owned(h), e>> \/ x = <<Active(h), e>>
    <2>1. PICK h \in T \cap Sided, e \in Events : x = <<Owned(h), e>> \/ x = <<Active(h), e>>
      BY <1>2
    <2>2. CASE x = <<Owned(h), e>>
      <3>1. x[1] = Owned(h) /\ x[2] = e /\ x = <<x[1], x[2]>>
        BY <2>2
      <3> QED BY <3>1, DocumentKinds
    <2>3. CASE x = <<Active(h), e>>
      <3>1. x[1] = Active(h) /\ x[2] = e /\ x = <<x[1], x[2]>>
        BY <2>3
      <3> QED BY <3>1, DocumentKinds
    <2> QED BY <2>1, <2>2, <2>3
  <1>3. CASE \E h \in T \ Sided : x = <<Owned(h), "all">>
    <2>1. PICK h \in T \ Sided : x = <<Owned(h), "all">>
      BY <1>3
    <2>2. x[1] = Owned(h) /\ x[2] = "all" /\ x = <<x[1], x[2]>>
      BY <2>1
    <2> QED BY <2>2, DocumentKinds
  <1> QED BY <1>1, <1>2, <1>3, EditsOf

-----------------------------------------------------------------------------
(* What an edit leaves. *)

\* A request has a mode, an environment, a package, a profile and targets of the consumer.
LEMMA Requested ==
    ASSUME NEW r \in Requests
    PROVE  /\ r.mode \in {"managed", "prepare", "bind"} /\ r.existing \in BOOLEAN /\ r.portable \in BOOLEAN
           /\ r.venv \in Venvs /\ r.package \in Packages /\ r.profile \in Profiles /\ r.targets \in SUBSET Consumer
  BY SetupAssumption DEF RequestRecords

\* The command of a run is one that it recognises.
LEMMA CommandOwn ==
    ASSUME NEW p \in Processes, op[p] \in RunRecords, Req(p) \in Requests, op[p].decl \in Declarations,
           NEW h, NEW e
    PROVE  /\ Command(p, h, e) \in Bindings /\ Command(p, h, e) \in Commands
           /\ Recognised(Command(p, h, e), Req(p).venv)
  <1>1. /\ Req(p).portable \in BOOLEAN /\ Req(p).venv \in Venvs /\ Req(p).profile \in Profiles
        /\ Req(p).venv # Other
    BY Requested, SetupAssumption DEF Other
  <1>2. op[p].binding \in BOOLEAN /\ op[p].decl \in Declarations
    BY DEF RunRecords
  <1>3. Marker # Other
    BY DEF Marker, Other
  <1>4. CASE Req(p).portable
    <2>1. Command(p, h, e) = [by |-> Marker, profile |-> Req(p).profile, env |-> None, skill |-> op[p].binding]
      BY <1>4 DEF Command
    <2> QED BY <1>1, <1>2, <1>3, <2>1 DEF Bindings, Commands, Recognised
  <1>5. CASE ~Req(p).portable
    <2>1. PICK named, env :
             /\ named = (IF op[p].binding THEN Req(p).profile ELSE None)
             /\ env = (IF h = "claude" /\ e = "SessionStart" /\ ~op[p].binding /\ op[p].ready
                       THEN op[p].decl ELSE None)
      OBVIOUS
    <2>2. Command(p, h, e) = [by |-> Req(p).venv, profile |-> named, env |-> env, skill |-> op[p].binding]
      BY <1>5, <2>1 DEF Command
    <2>3. named \in Profiles \cup {None} /\ env \in Declarations \cup {None}
      BY <1>1, <1>2, <2>1
    <2> QED BY <1>1, <1>2, <2>2, <2>3 DEF Bindings, Commands, Recognised
  <1> QED BY <1>4, <1>5

\* An edit gives its event the command of the run, leaves the other event and what
\* the user has in the document, and the document stays what it is.
LEMMA EditedApplied ==
    ASSUME NEW p \in Processes, op[p] \in RunRecords, Req(p) \in Requests, op[p].decl \in Declarations,
           NEW x \in Edits(Req(p).targets), NEW base \in Content(x[1]), Editable(p, x[1], x[2], base)
    PROVE  /\ Edited(p, x[1], x[2], base) \in Content(x[1])
           /\ Applied(p, x, Edited(p, x[1], x[2], base))
           /\ \A y \in Edits(Req(p).targets) : y[1] = x[1] /\ Applied(p, y, base) =>
                  Applied(p, y, Edited(p, x[1], x[2], base))
           /\ x[1] \in ActiveDocs /\ HasForeign(base) => HasForeign(Edited(p, x[1], x[2], base))
  <1> DEFINE T == Req(p).targets
             v == Req(p).venv
  <1>1. T \in SUBSET Consumer /\ v \in Venvs /\ Req(p).portable \in BOOLEAN
    BY Requested
  <1>2. PICK d, e : d = x[1] /\ e = x[2] /\ x = <<d, e>>
    BY <1>1, EditKinds
  <1>3. PICK after : after = Edited(p, d, e, base)
    OBVIOUS
  <1>4. \A h, ev : Command(p, h, ev) \in Bindings /\ Command(p, h, ev) \in Commands
                   /\ Recognised(Command(p, h, ev), v)
    BY CommandOwn
  <1>5. base \in Content(d) /\ Editable(p, d, e, base)
    BY <1>2
  <1> HIDE DEF T, v
  <1> SUFFICES /\ after \in Content(d) /\ Applied(p, x, after)
               /\ \A y \in Edits(T) : y[1] = d /\ Applied(p, y, base) => Applied(p, y, after)
               /\ d \in ActiveDocs /\ HasForeign(base) => HasForeign(after)
    BY <1>2, <1>3 DEF T
  <1>6. CASE d = Package /\ e = "all"
    <2>1. d \notin ActiveDocs /\ d \notin Registrations /\ Content(d) = [Events -> {Marker} \cup Venvs]
      BY <1>6, DocumentKinds, Contents
    <2>2. PICK by : by = (IF Req(p).portable THEN Marker ELSE v) /\ by \in {Marker} \cup Venvs
      BY <1>1
    <2>3. after = [ev \in Events |-> IF Req(p).portable THEN Marker ELSE Req(p).venv]
      BY <1>3, <1>6, <2>1 DEF Edited
    <2>4. ASSUME NEW y, y[1] = d PROVE Applied(p, y, after)
      <3>1. Applied(p, y, after) <=>
                \A ev \in Events : after[ev] = (IF Req(p).portable THEN Marker ELSE Req(p).venv)
        BY <1>6, <2>1, <2>4 DEF Applied
      <3> QED BY <2>3, <3>1
    <2>5. after = [ev \in Events |-> by]
      BY <2>2, <2>3 DEF v
    <2> QED BY <1>2, <2>1, <2>2, <2>4, <2>5
  <1>7. CASE d \in ActiveDocs /\ e \in Events /\ d = Active(d[1])
    <2>1. d # Package /\ d \notin Registrations /\ Content(d) = [Events -> Seq(Commands)]
      BY <1>7, DocumentKinds, Contents
    <2>2. PICK c : c = Command(p, d[1], e)
      OBVIOUS
    <2>3. PICK bound : bound = BindActive(base[e], c, v)
      OBVIOUS
    <2>4. after = [base EXCEPT ![e] = bound]
      BY <1>3, <1>7, <2>1, <2>2, <2>3 DEF Edited, v
    <2>5. base[e] \in Seq(Commands) /\ Foreign \in Commands
      BY <1>5, <1>7, <2>1, Words
    <2>6. BindActive(base[e], Foreign, v) # <<>>
      BY <1>5, <1>7, <2>1 DEF Editable, v
    <2>7. c \in Commands /\ Recognised(c, v)
      BY <1>4, <2>2
    <2>8. bound # <<>>
      BY <1>1, <2>3, <2>5, <2>6, <2>7, BoundEntries
    <2>9. /\ bound \in Seq(Commands) /\ OnlyEntry(bound, c, v)
          /\ \A i \in DOMAIN base[e] : base[e][i] = Foreign => \E k \in DOMAIN bound : bound[k] = Foreign
      BY <1>1, <2>3, <2>5, <2>7, <2>8, BoundEntries
    <2>10. /\ after \in Content(d) /\ after[e] = bound
           /\ \A ev \in Events \ {e} : after[ev] = base[ev]
      BY <1>5, <1>7, <2>1, <2>4, <2>9
    <2>11. \A y, content : y[1] = d => (Applied(p, y, content) <=>
              (content # None => OnlyEntry(content[y[2]], Command(p, d[1], y[2]), v)))
      BY <1>7, <2>1 DEF Applied, v
    <2>12. Applied(p, x, after)
      BY <1>2, <2>2, <2>9, <2>10, <2>11
    <2>13. ASSUME NEW y \in Edits(T), y[1] = d, Applied(p, y, base) PROVE Applied(p, y, after)
      <3>1. y[2] \in Events /\ y = <<y[1], y[2]>>
        <4>1. y[1] \in ActiveDocs /\ y[1] # Package
          BY <1>7, <2>1, <2>13
        <4>2. ~(y[1] = Owned(y[1][1]) /\ y[1][1] \in T \ Sided)
          BY <1>1, <4>1, DocumentKinds
        <4> QED BY <1>1, <2>1, <2>13, <4>1, <4>2, EditKinds
      <3>2. CASE y[2] = e
        BY <1>2, <2>12, <2>13, <3>1, <3>2
      <3>3. CASE y[2] # e
        <4>1. after[y[2]] = base[y[2]]
          BY <2>10, <3>1, <3>3
        <4>2. base # None
          BY <1>5, <1>7, NotMissing, DocumentKinds
        <4> QED BY <2>11, <2>13, <4>1, <4>2
      <3> QED BY <3>2, <3>3
    <2>14. ASSUME HasForeign(base) PROVE HasForeign(after)
      <3>1. ASSUME NEW ev \in Events PROVE \E k \in DOMAIN after[ev] : after[ev][k] = Foreign
        <4>1. PICK i \in DOMAIN base[ev] : base[ev][i] = Foreign
          BY <2>14 DEF HasForeign
        <4>2. CASE ev = e
          BY <2>9, <2>10, <4>1, <4>2
        <4>3. CASE ev # e
          BY <2>10, <4>1, <4>3
        <4> QED BY <4>2, <4>3
      <3> QED BY <3>1 DEF HasForeign
    <2> QED BY <2>10, <2>12, <2>13, <2>14
  <1>8. CASE d \in Registrations /\ e \in Events /\ d = Owned(d[1])
    <2>1. d # Package /\ d \notin ActiveDocs /\ Content(d) = [Events -> Bindings]
      BY <1>8, DocumentKinds, Contents
    <2>2. PICK c : c = Command(p, d[1], e)
      OBVIOUS
    <2>3. after = [base EXCEPT ![e] = c]
      BY <1>3, <1>8, <2>1, <2>2 DEF Edited
    <2>4. c \in Bindings
      BY <1>4, <2>2
    <2>5. /\ after \in Content(d) /\ after[e] = c
          /\ \A ev \in Events \ {e} : after[ev] = base[ev]
      BY <1>5, <1>8, <2>1, <2>3, <2>4
    <2>6. \A y, content : y[1] = d => (Applied(p, y, content) <=> content[y[2]] = Command(p, d[1], y[2]))
      BY <1>8, <2>1 DEF Applied
    <2>7. Applied(p, x, after)
      BY <1>2, <2>2, <2>5, <2>6
    <2>8. ASSUME NEW y \in Edits(T), y[1] = d, Applied(p, y, base) PROVE Applied(p, y, after)
      <3>1. y[2] \in Events /\ y = <<y[1], y[2]>>
        <4>1. y[1] \in Registrations /\ y[1] # Package
          BY <1>8, <2>1, <2>8
        <4>2. ~(y[1] = Owned(y[1][1]) /\ y[1][1] \in T \ Sided)
          BY <1>1, <4>1, DocumentKinds
        <4> QED BY <1>1, <2>1, <2>8, <4>1, <4>2, EditKinds
      <3>2. CASE y[2] = e
        BY <1>2, <2>7, <2>8, <3>1, <3>2
      <3>3. CASE y[2] # e
        BY <2>5, <2>6, <2>8, <3>1, <3>3
      <3> QED BY <3>2, <3>3
    <2> QED BY <2>1, <2>5, <2>7, <2>8
  <1>9. CASE d = Owned(d[1]) /\ d[1] \in T \ Sided /\ e = "all"
    <2>1. /\ d # Package /\ d \notin ActiveDocs /\ d \notin Registrations
          /\ Content(d) = [Events -> Bindings]
      BY <1>1, <1>9, DocumentKinds, Contents
    <2>2. after = [ev \in Events |-> Command(p, d[1], ev)]
      BY <1>3, <2>1 DEF Edited
    <2>3. \A y : y[1] = d => Applied(p, y, after)
      BY <2>1, <2>2 DEF Applied
    <2> QED BY <1>2, <1>4, <2>1, <2>2, <2>3
  <1>10. /\ \/ d = Package /\ e = "all"
            \/ d \in ActiveDocs /\ e \in Events /\ d = Active(d[1])
            \/ d \in Registrations /\ e \in Events /\ d = Owned(d[1])
            \/ d = Owned(d[1]) /\ d[1] \in T \ Sided /\ e = "all"
    BY <1>1, <1>2, EditKinds DEF T
  <1> QED BY <1>6, <1>7, <1>8, <1>9, <1>10

-----------------------------------------------------------------------------
(* How the runs' part of the invariant is kept. *)

\* A run that is not in progress takes nothing for granted.
LEMMA IdleHolds == Idle \in RunRecords /\ Holding(Idle) /\ ~Idle.alone
  BY DEF Idle, RunRecords, Holding, Stages, Resolved

\* Only the run that moves has to be looked at: when it is not idle no other run is
\* alone.
LEMMA OwnStep ==
    ASSUME RunInv, NEW p \in Processes, ~At(p, "idle"), NEW n \in RunRecords,
           op' = [op EXCEPT ![p] = n], n.alone => op[p].alone, users' = users,
           Holding(n), Undisturbed(p)'
    PROVE  RunInv' /\ \A q \in Processes : Undisturbed(q)'
  <1>1. op' \in [Processes -> RunRecords] /\ op'[p] = n /\ \A q \in Processes \ {p} : op'[q] = op[q]
    BY DEF RunInv
  <1>2. op[p] # Idle
    BY DEF At, Idle
  <1>3. \A q \in Processes \ {p} : ~op[q].alone
    BY <1>2 DEF RunInv, Alone
  <1>4. Alone'
    BY <1>1, <1>2, <1>3 DEF RunInv, Alone
  <1>5. ASSUME NEW q \in Processes PROVE Holding(op[q])'
    <2>1. Holding(op'[q])
      BY <1>1 DEF RunInv
    <2>2. PICK o : o = op'[q]
      OBVIOUS
    <2>3. Holding(o)'
      BY <2>1, <2>2 DEF Holding
    <2> QED BY <2>2, <2>3
  <1>6. ASSUME NEW q \in Processes \ {p} PROVE Undisturbed(q)'
    BY <1>1, <1>3 DEF Undisturbed
  <1> QED BY <1>1, <1>4, <1>5, <1>6 DEF RunInv

\* Whoever acts from outside leaves no run alone.
LEMMA OutsideStep ==
    ASSUME RunInv, op' = Disturbed(op), users' = users
    PROVE  RunInv' /\ \A q \in Processes : Undisturbed(q)'
  <1>1. ASSUME NEW q \in Processes
        PROVE  op'[q] \in RunRecords /\ ~op'[q].alone /\ Holding(op'[q])
    <2>1. op[q] \in RunRecords /\ Holding(op[q])
      BY DEF RunInv
    <2>2. op'[q] = IF op[q].stage = "idle" THEN Idle ELSE [op[q] EXCEPT !.alone = FALSE]
      BY DEF Disturbed
    <2>3. CASE op[q].stage = "idle"
      BY <2>2, <2>3, IdleHolds
    <2>4. CASE op[q].stage # "idle"
      <3>1. PICK o : o = op[q]
        OBVIOUS
      <3>2. PICK n : n = [o EXCEPT !.alone = FALSE]
        OBVIOUS
      <3>3. /\ n \in RunRecords /\ ~n.alone /\ n.stage = o.stage /\ n.req = o.req /\ n.decl = o.decl
            /\ n.left = o.left /\ n.edit = o.edit /\ n.buffer = o.buffer /\ n.outcome = o.outcome
        BY <2>1, <3>1, <3>2 DEF RunRecords
      <3>4. Holding(n)
        BY <2>1, <3>1, <3>3 DEF Holding, Sorted, Halfway
      <3> QED BY <2>2, <2>4, <3>1, <3>2, <3>3, <3>4
    <2> QED BY <2>3, <2>4
  <1>2. op' \in [Processes -> RunRecords] /\ Alone' /\ \A q \in Processes : Undisturbed(q)'
    BY <1>1 DEF Disturbed, Alone, Undisturbed
  <1>3. ASSUME NEW q \in Processes PROVE Holding(op[q])'
    <2>1. PICK o : o = op'[q] /\ Holding(o)
      BY <1>1
    <2>2. Holding(o)'
      BY <2>1 DEF Holding
    <2> QED BY <2>1, <2>2
  <1> QED BY <1>2, <1>3 DEF RunInv

\* Launches leave the runs alone.
LEMMA QuietStep ==
    ASSUME RunInv, \A p \in Processes : Undisturbed(p), op' = op, docs' = docs, users' = users
    PROVE  RunInv' /\ \A p \in Processes : Undisturbed(p)'
  <1>1. ASSUME NEW p \in Processes PROVE Undisturbed(p)'
    <2>1. /\ \A x, content : InPlace(p, x, content) <=> InPlace(p, x, content)'
          /\ \A x : Pending(op[p], x) = Pending(op[p], x)'
          /\ Made(op[p]) = Made(op[p])'
      BY DEF InPlace, Applied, Command, Req, Pending, Made
    <2>2. Agreed(p) => Agreed(p)'
      BY <2>1 DEF Agreed, Finished
    <2>3. Explained(p) <=> Explained(p)'
      BY DEF Explained, Missing, LockTargets, Rebound, Req
    <2>4. (Carried(p) => Carried(p)') /\ (Described(p) => Described(p)')
      BY DEF Carried, Described, Finished, Req, At
    <2>5. Justified(p) => Justified(p)'
      BY <2>3 DEF Justified
    <2>6. Undisturbed(p)
      OBVIOUS
    <2> QED BY <2>2, <2>4, <2>5, <2>6 DEF Undisturbed
  <1>2. RunInv'
    <2>1. ASSUME NEW q \in Processes PROVE Holding(op[q])'
      <3>1. PICK o : o = op[q] /\ Holding(o)
        BY DEF RunInv
      <3>2. Holding(o)'
        BY <3>1 DEF Holding
      <3> QED BY <3>1, <3>2
    <2> QED BY <2>1 DEF RunInv, Alone
  <1> QED BY <1>1, <1>2

\* A reason to refuse stands as long as the documents do.
LEMMA Reasons ==
    ASSUME NEW p \in Processes, docs' = docs, op'[p].req = op[p].req
    PROVE  Explained(p)' <=> Explained(p)
  BY DEF Explained, LockTargets, Missing, Rebound, Req

\* What a run binds depends on what it has been asked and has read alone.
LEMMA SameCommands ==
    ASSUME NEW p \in Processes, op'[p].req = op[p].req, op'[p].decl = op[p].decl,
           op'[p].ready = op[p].ready, op'[p].binding = op[p].binding
    PROVE  \A x, content : InPlace(p, x, content)' <=> InPlace(p, x, content)
  BY DEF InPlace, Applied, Command, Req

\* The end of a run, which has to be explained when the run is alone and was refused
\* at the hooks.
LEMMA Ending ==
    ASSUME SetupInv, NEW p \in Processes, ~At(p, "idle"),
           NEW outcome \in {"refused", "prepared", "ready", "stopped"}, End(p, outcome),
           UNCHANGED <<docs, users>>,
           op[p].alone /\ outcome = "refused" /\ op[p].stage \in Hooking => Explained(p),
           outcome = "ready" => At(p, "report") /\ Bound(p)
    PROVE  RunInv' /\ \A q \in Processes : Undisturbed(q)'
  <1>1. RunInv /\ Undisturbed(p)
    BY DEF SetupInv
  <1>2. PICK o : o = op[p] /\ o \in RunRecords /\ o.stage # "idle" /\ Holding(o)
    BY <1>1 DEF RunInv, At
  <1>3. CASE ~o.alone \/ outcome = "stopped"
    <2>1. op' = [op EXCEPT ![p] = Idle]
      BY <1>2, <1>3 DEF End
    <2>2. op'[p] = Idle
      BY <1>1, <2>1 DEF RunInv
    <2>3. Undisturbed(p)'
      BY <2>2, IdleHolds DEF Undisturbed
    <2> QED BY <1>1, <2>1, <2>3, OwnStep, IdleHolds
  <1>4. CASE o.alone /\ outcome # "stopped"
    <2>1. PICK n : n = [o EXCEPT !.stage = "idle", !.at = o.stage, !.outcome = outcome,
                                 !.left = {}, !.edit = None, !.buffer = None]
      OBVIOUS
    <2>2. op' = [op EXCEPT ![p] = n]
      BY <1>2, <1>4, <2>1 DEF End
    <2>3. /\ n \in RunRecords /\ n.stage = "idle" /\ n.at = o.stage /\ n.outcome = outcome /\ n.left = {}
          /\ n.edit = None /\ n.buffer = None /\ n.req = o.req /\ n.decl = o.decl /\ n.ready = o.ready
          /\ n.binding = o.binding /\ n.alone
      <3>1. /\ o.req \in Requests \cup {None} /\ o.decl \in Declarations \cup {None} /\ o.ready \in BOOLEAN
            /\ o.binding \in BOOLEAN /\ o.stage \in Stages
            /\ n = [stage |-> "idle", req |-> o.req, decl |-> o.decl, ready |-> o.ready, binding |-> o.binding,
                    left |-> {}, edit |-> None, buffer |-> None, alone |-> o.alone, at |-> o.stage,
                    outcome |-> outcome]
        BY <1>2, <2>1 DEF RunRecords
      <3>2. outcome \in {"none", "refused", "ready", "prepared"} /\ "idle" \in Stages
        BY <1>4 DEF Stages
      <3>3. n \in RunRecords
        BY <1>4, <3>1, <3>2 DEF RunRecords
      <3> QED BY <1>4, <3>1, <3>3
    <2>4. Holding(n)
      <3>1. outcome = "ready" => o.stage \in Resolved
        BY <1>2 DEF At, Resolved
      <3> QED BY <1>2, <2>3, <3>1 DEF Holding, Resolved
    <2>5. op'[p] = n
      BY <1>1, <2>2 DEF RunInv
    <2>6. Carried(p)'
      BY <2>3, <2>5 DEF Carried, At
    <2>7. Justified(p)'
      <3>1. op'[p].outcome = "refused" /\ op'[p].at \in Hooking => Explained(p)
        BY <1>2, <1>4, <2>3, <2>5
      <3> QED BY <1>2, <2>3, <2>5, <3>1, Reasons DEF Justified
    <2>8. CASE outcome # "ready"
      <3>1. Agreed(p)' /\ Described(p)'
        BY <2>3, <2>5, <2>8 DEF Agreed, Described, Finished
      <3> QED BY <1>1, <2>2, <2>3, <2>4, <2>6, <2>7, <3>1, <1>4, <1>2, OwnStep DEF Undisturbed
    <2>9. CASE outcome = "ready"
      <3>1. o.stage = "report" /\ Finished(o) /\ Finished(n)
        BY <1>2, <2>3, <2>9 DEF At, Bound, Req, Finished
      <3>2. Agreed(p) /\ Described(p)
        BY <1>1, <1>2, <1>4 DEF Undisturbed
      <3>3. Described(p)'
        BY <1>2, <2>3, <2>5, <3>1, <3>2 DEF Described, Req
      <3>4. Made(n) = Made(o)
        BY <2>3, <3>1 DEF Made
      <3>5. \A d : Pending(n, d)' = docs[d] /\ Pending(o, d) = docs[d]
        BY <2>3, <3>1 DEF Pending
      <3>6. \A x, content : InPlace(p, x, content)' <=> InPlace(p, x, content)
        BY <1>2, <2>3, <2>5, SameCommands
      <3>7. \A x \in Made(n) : InPlace(p, x, docs[x[1]])
        BY <1>2, <3>1, <3>2, <3>4, <3>5 DEF Agreed
      <3>8. Agreed(p)'
        BY <2>5, <3>5, <3>6, <3>7 DEF Agreed
      <3> QED BY <1>1, <2>2, <2>3, <2>4, <2>6, <2>7, <3>3, <3>8, <1>4, <1>2, OwnStep DEF Undisturbed
    <2> QED BY <2>8, <2>9
  <1> QED BY <1>3, <1>4

\* Before it looks for the package a run relies on its request alone.
LEMMA EarlyStep ==
    ASSUME SetupInv, NEW p \in Processes, op[p].stage \in Early, NEW n \in RunRecords,
           op' = [op EXCEPT ![p] = n], UNCHANGED users,
           n.stage \in Early \cup {"package", "report"}, n.req = op[p].req, n.outcome = op[p].outcome,
           n.alone = op[p].alone, n.stage \in Resolved => n.decl \in Declarations,
           n.stage = "apm" => n.req.mode = "managed",
           n.stage = "report" => n.req.mode = "prepare" \/ n.req.targets = {}
    PROVE  RunInv' /\ \A q \in Processes : Undisturbed(q)'
  <1>1. RunInv /\ Undisturbed(p)
    BY DEF SetupInv
  <1>2. PICK o : o = op[p] /\ o \in RunRecords /\ o.stage # "idle" /\ Holding(o) /\ o.stage \in Early
    BY <1>1 DEF RunInv, Early
  <1>3. op'[p] = n
    BY <1>1 DEF RunInv
  <1>4. o.req \in Requests /\ o.outcome = "none"
    BY <1>2 DEF Holding
  <1>5. n.stage \notin {"idle", "edit", "truncate", "fill", "verify", "lock"}
    BY DEF Early
  <1>6. Holding(n)
    BY <1>2, <1>4, <1>5 DEF Holding
  <1>7. Agreed(p)' /\ Carried(p)' /\ Described(p)' /\ Justified(p)'
    BY <1>2, <1>3, <1>4, <1>5 DEF Agreed, Carried, Described, Justified, Finished, At
  <1>8. Undisturbed(p)'
    BY <1>7 DEF Undisturbed
  <1> QED BY <1>1, <1>2, <1>6, <1>8, OwnStep DEF At

\* Going to another stage leaves the rest of the run.
LEMMA Moved ==
    ASSUME RunInv, NEW p \in Processes, NEW s \in Stages, Goto(p, s)
    PROVE  \E n \in RunRecords :
              /\ op' = [op EXCEPT ![p] = n] /\ n.stage = s /\ n.req = op[p].req /\ n.decl = op[p].decl
              /\ n.ready = op[p].ready /\ n.binding = op[p].binding /\ n.left = op[p].left
              /\ n.edit = op[p].edit /\ n.buffer = op[p].buffer /\ n.alone = op[p].alone
              /\ n.at = op[p].at /\ n.outcome = op[p].outcome
  <1>1. PICK o : o = op[p] /\ o \in RunRecords
    BY DEF RunInv
  <1>2. PICK n : n = [o EXCEPT !.stage = s]
    OBVIOUS
  <1>3. op' = [op EXCEPT ![p] = n]
    BY <1>1, <1>2 DEF Goto
  <1>4. /\ n \in RunRecords /\ n.stage = s /\ n.req = o.req /\ n.decl = o.decl /\ n.ready = o.ready
        /\ n.binding = o.binding /\ n.left = o.left /\ n.edit = o.edit /\ n.buffer = o.buffer
        /\ n.alone = o.alone /\ n.at = o.at /\ n.outcome = o.outcome
    BY <1>1, <1>2 DEF RunRecords
  <1> QED BY <1>1, <1>3, <1>4

\* A step to another stage, before the run looks for the package.
LEMMA EarlyMove ==
    ASSUME SetupInv, NEW p \in Processes, op[p].stage \in Early,
           NEW s \in Early \cup {"package", "report"}, Goto(p, s), UNCHANGED users,
           s \in Resolved => op[p].decl \in Declarations, s = "apm" => Req(p).mode = "managed",
           s = "report" => ~Bound(p)
    PROVE  RunInv' /\ \A q \in Processes : Undisturbed(q)'
  <1>1. RunInv /\ s \in Stages
    BY DEF SetupInv, Early, Stages
  <1>2. PICK n \in RunRecords :
              /\ op' = [op EXCEPT ![p] = n] /\ n.stage = s /\ n.req = op[p].req /\ n.decl = op[p].decl
              /\ n.alone = op[p].alone /\ n.outcome = op[p].outcome
    BY <1>1, Moved
  <1> QED BY <1>2, EarlyStep DEF Req, Bound

\* The store does not depend on what is in a virtual environment.
LEMMA StoreKept ==
    ASSUME StoreInv, UNCHANGED <<launchers, docs, skill, outside, reports, launch>>,
           venv' \in [Venvs -> {"absent", "partial", "bare", "mixed"} \cup Packages]
    PROVE  StoreInv'
  <1>1. Stored'
    BY DEF StoreInv, Stored, Missing, outside
  <1>2. Hooked' /\ NamedFor' /\ Launched'
    BY DEF StoreInv, Hooked, NamedFor, Launched, LaunchHonest, outside
  <1> QED BY <1>1, <1>2 DEF StoreInv

-----------------------------------------------------------------------------
(* The steps up to the hooks. *)

\* What the steps of a run have in common.
LEMMA Running ==
    ASSUME SetupInv, NEW p \in Processes, ~At(p, "idle")
    PROVE  /\ op[p] \in RunRecords /\ Holding(op[p]) /\ Req(p) \in Requests /\ Req(p).venv \in Venvs
           /\ Req(p).package \in Packages /\ op[p].outcome = "none" /\ Req(p).targets \in SUBSET Consumer
           /\ op[p].stage \in Resolved => op[p].decl \in Declarations
  <1>1. op[p] \in RunRecords /\ Holding(op[p]) /\ op[p].stage # "idle"
    BY DEF SetupInv, RunInv, At
  <1>2. Req(p) \in Requests /\ op[p].outcome = "none" /\ (op[p].stage \in Resolved => op[p].decl \in Declarations)
    BY <1>1 DEF Holding, Req
  <1> QED BY <1>1, <1>2, Requested

\* _prepare_venv: only the environment changes, or the run is refused before any hook.
LEMMA PrepareVenvKeeps ==
    ASSUME SetupInv, NEW p \in Processes, PrepareVenv(p)
    PROVE  SetupInv'
  <1>1. op[p].stage = "venv" /\ ~At(p, "idle") /\ UNCHANGED <<docs, users>> /\ StoreInv
        /\ UNCHANGED <<launchers, docs, skill, outside, reports, launch>>
    BY DEF PrepareVenv, At, outside, SetupInv
  <1>2. Req(p).venv \in Venvs
    BY <1>1, Running
  <1>3. venv' = venv \/ venv' = [venv EXCEPT ![Req(p).venv] = "partial"]
    BY DEF PrepareVenv
  <1>4. StoreInv'
    BY <1>1, <1>2, <1>3, StoreKept DEF StoreInv, Stored
  <1>5. Goto(p, "create") \/ Goto(p, "install") \/ End(p, "refused")
    BY DEF PrepareVenv
  <1>6. CASE End(p, "refused")
    <2>1. RunInv' /\ \A q \in Processes : Undisturbed(q)'
      BY <1>1, <1>6, Ending DEF Hooking
    <2> QED BY <1>4, <2>1 DEF SetupInv
  <1>7. CASE Goto(p, "create") \/ Goto(p, "install")
    <2>1. RunInv' /\ \A q \in Processes : Undisturbed(q)'
      BY <1>1, <1>7, EarlyMove DEF Early, Resolved
    <2> QED BY <1>4, <2>1 DEF SetupInv
  <1> QED BY <1>5, <1>6, <1>7

\* The creation of an environment and the installation into it leave the documents alone.
LEMMA CreateVenvKeeps ==
    ASSUME SetupInv, NEW p \in Processes, CreateVenv(p) \/ InstallRuntime(p)
    PROVE  SetupInv'
  <1>1. op[p].stage \in {"create", "install", "installed"} /\ ~At(p, "idle") /\ UNCHANGED <<docs, users>> /\ StoreInv
        /\ UNCHANGED <<launchers, docs, skill, outside, reports, launch>>
    BY DEF CreateVenv, InstallRuntime, At, outside, SetupInv
  <1>2. Req(p).venv \in Venvs /\ Req(p).package \in Packages
    BY <1>1, Running
  <1>3. PICK content \in {"bare", "mixed"} \cup Packages : venv' = [venv EXCEPT ![Req(p).venv] = content]
    BY <1>2 DEF CreateVenv, InstallRuntime
  <1>4. StoreInv'
    BY <1>1, <1>2, <1>3, StoreKept DEF StoreInv, Stored
  <1>5. PICK s \in {"install", "installed", "context"} : Goto(p, s)
    BY DEF CreateVenv, InstallRuntime
  <1>6. RunInv' /\ \A q \in Processes : Undisturbed(q)'
    BY <1>1, <1>5, EarlyMove DEF Early, Resolved
  <1> QED BY <1>4, <1>6 DEF SetupInv

\* The verifications of an existing and of a portable runtime write nothing.
LEMMA VerifyKeeps ==
    ASSUME SetupInv, NEW p \in Processes, VerifyExisting(p) \/ VerifyPortable(p)
    PROVE  SetupInv'
  <1>1. op[p].stage \in {"verify-venv", "portable"} /\ ~At(p, "idle") /\ UNCHANGED <<docs, users>> /\ StoreInv
        /\ UNCHANGED <<venv, launchers, docs, skill, outside, reports, launch>>
    BY DEF VerifyExisting, VerifyPortable, At, outside, files, SetupInv
  <1>2. StoreInv'
    BY <1>1, StoreKept DEF StoreInv, Stored
  <1>3. End(p, "refused") \/ (At(p, "verify-venv") /\ Goto(p, "context"))
        \/ (At(p, "portable") /\ Goto(p, "launcher"))
    BY DEF VerifyExisting, VerifyPortable
  <1>4. CASE End(p, "refused")
    <2>1. RunInv' /\ \A q \in Processes : Undisturbed(q)'
      BY <1>1, <1>4, Ending DEF Hooking
    <2> QED BY <1>2, <2>1 DEF SetupInv
  <1>5. CASE At(p, "verify-venv") /\ Goto(p, "context")
    <2>1. RunInv' /\ \A q \in Processes : Undisturbed(q)'
      BY <1>1, <1>5, EarlyMove DEF Early, Resolved
    <2> QED BY <1>2, <2>1 DEF SetupInv
  <1>6. CASE At(p, "portable") /\ Goto(p, "launcher")
    <2>1. op[p].decl \in Declarations
      BY <1>1, <1>6, Running DEF At, Resolved
    <2>2. RunInv' /\ \A q \in Processes : Undisturbed(q)'
      BY <1>1, <1>6, <2>1, EarlyMove DEF Early
    <2> QED BY <1>2, <2>2 DEF SetupInv
  <1> QED BY <1>3, <1>4, <1>5, <1>6

\* A run takes the declaration that its profile has, and writes nothing.
LEMMA ReadContextKeeps ==
    ASSUME SetupInv, NEW p \in Processes, ReadContext(p)
    PROVE  SetupInv'
  <1>1. op[p].stage = "context" /\ ~At(p, "idle") /\ UNCHANGED <<docs, users>> /\ StoreInv /\ RunInv
        /\ UNCHANGED <<venv, launchers, docs, skill, outside, reports, launch>>
    BY DEF ReadContext, At, outside, files, SetupInv
  <1>2. StoreInv'
    BY <1>1, StoreKept DEF StoreInv, Stored
  <1>3. CASE End(p, "refused")
    <2>1. RunInv' /\ \A q \in Processes : Undisturbed(q)'
      BY <1>1, <1>3, Ending DEF Hooking
    <2> QED BY <1>2, <2>1 DEF SetupInv
  <1>4. CASE ~End(p, "refused")
    <2>1. op[p] \in RunRecords /\ Req(p).profile \in Profiles
      BY <1>1, Running, Requested
    <2>2. PICK decl, ready : decl = registry[Req(p).profile] /\ ready = CredentialsReady
      OBVIOUS
    <2>3. decl \in Declarations /\ ready \in BOOLEAN
      BY <1>1, <2>1, <2>2 DEF StoreInv, Stored, CredentialsReady
    <2>4. PICK s \in {"portable", "launcher"} :
             op' = [op EXCEPT ![p].stage = s, ![p].decl = decl, ![p].ready = ready]
      BY <1>4, <2>2 DEF ReadContext
    <2>5. PICK o : o = op[p]
      OBVIOUS
    <2>6. PICK n : n = [o EXCEPT !.stage = s, !.decl = decl, !.ready = ready]
      OBVIOUS
    <2>7. op' = [op EXCEPT ![p] = n]
      BY <1>1, <2>4, <2>5, <2>6 DEF RunInv
    <2>8. /\ n \in RunRecords /\ n.stage = s /\ n.req = o.req /\ n.decl = decl /\ n.outcome = o.outcome
          /\ n.alone = o.alone
      BY <2>1, <2>3, <2>5, <2>6 DEF RunRecords, Stages
    <2>9. RunInv' /\ \A q \in Processes : Undisturbed(q)'
      BY <1>1, <2>3, <2>5, <2>7, <2>8, EarlyStep DEF Early
    <2> QED BY <1>2, <2>9 DEF SetupInv
  <1> QED BY <1>3, <1>4

\* A launcher is named for the declaration in it.
LEMMA WriteLauncherKeeps ==
    ASSUME SetupInv, NEW p \in Processes, WriteLauncher(p)
    PROVE  SetupInv'
  <1>1. op[p].stage = "launcher" /\ ~At(p, "idle") /\ UNCHANGED <<docs, users>> /\ StoreInv /\ RunInv
        /\ UNCHANGED <<venv, docs, skill, outside, reports, launch>>
    BY DEF WriteLauncher, At, outside, SetupInv
  <1>2. Req(p) \in Requests /\ op[p].decl \in Declarations
    BY <1>1, Running DEF Resolved
  <1>3. PICK decl, name, v : decl = op[p].decl /\ name = LauncherName(Req(p).profile, decl) /\ v = Req(p).venv
    OBVIOUS
  <1>4. v \in Venvs /\ decl \in Declarations /\ name \in Profiles \X Declarations /\ name[2] = decl
    BY <1>2, <1>3, Requested DEF LauncherName
  <1>5. \/ launchers' = launchers
        \/ launchers' = [launchers EXCEPT ![v] =
               [m \in DOMAIN launchers[v] \cup {name} |-> IF m = name THEN decl ELSE launchers[v][m]]]
    BY <1>1, <1>3, <1>4 DEF WriteLauncher, StoreInv, Stored
  <1>6. StoreInv'
    <2>1. PICK S \in SUBSET (Profiles \X Declarations) : launchers[v] \in [S -> Declarations]
      BY <1>1, <1>4 DEF StoreInv, Stored
    <2>2. PICK written : written = [m \in S \cup {name} |-> IF m = name THEN decl ELSE launchers[v][m]]
      OBVIOUS
    <2>3. written \in [S \cup {name} -> Declarations] /\ S \cup {name} \in SUBSET (Profiles \X Declarations)
      BY <1>4, <2>1, <2>2
    <2>4. \A m \in DOMAIN written : written[m] = m[2]
      <3>1. \A m \in S : launchers[v][m] = m[2]
        BY <1>1, <1>4, <2>1 DEF StoreInv, NamedFor
      <3> QED BY <1>4, <2>2, <3>1
    <2>5. launchers' = launchers \/ launchers' = [launchers EXCEPT ![v] = written]
      BY <1>5, <2>1, <2>2
    <2>6. launchers' \in [Venvs -> UNION {[R -> Declarations] : R \in SUBSET (Profiles \X Declarations)}]
      <3>1. launchers \in [Venvs -> UNION {[R -> Declarations] : R \in SUBSET (Profiles \X Declarations)}]
        BY <1>1 DEF StoreInv, Stored
      <3>2. written \in UNION {[R -> Declarations] : R \in SUBSET (Profiles \X Declarations)}
        BY <2>3
      <3> HIDE <2>2, <2>3
      <3> QED BY <2>5, <3>1, <3>2
    <2>7. NamedFor'
      BY <1>1, <1>4, <2>4, <2>5 DEF StoreInv, Stored, NamedFor
    <2>8. Stored'
      BY <1>1, <2>6 DEF StoreInv, Stored, Missing, outside
    <2>9. Hooked' /\ Launched'
      BY <1>1 DEF StoreInv, Hooked, Launched, LaunchHonest, outside
    <2> QED BY <2>7, <2>8, <2>9 DEF StoreInv
  <1>7. \/ End(p, "refused")
        \/ ~Bound(p) /\ Goto(p, "report")
        \/ Bound(p) /\ Req(p).mode = "managed" /\ Goto(p, "apm")
        \/ Goto(p, "package")
    BY DEF WriteLauncher
  <1>8. CASE End(p, "refused")
    <2>1. RunInv' /\ \A q \in Processes : Undisturbed(q)'
      BY <1>1, <1>8, Ending DEF Hooking
    <2> QED BY <1>6, <2>1 DEF SetupInv
  <1>9. CASE ~Bound(p) /\ Goto(p, "report")
    <2>1. RunInv' /\ \A q \in Processes : Undisturbed(q)'
      BY <1>1, <1>2, <1>9, EarlyMove DEF Early
    <2> QED BY <1>6, <2>1 DEF SetupInv
  <1>10. CASE Bound(p) /\ Req(p).mode = "managed" /\ Goto(p, "apm")
    <2>1. RunInv' /\ \A q \in Processes : Undisturbed(q)'
      BY <1>1, <1>2, <1>10, EarlyMove DEF Early
    <2> QED BY <1>6, <2>1 DEF SetupInv
  <1>11. CASE Goto(p, "package")
    <2>1. RunInv' /\ \A q \in Processes : Undisturbed(q)'
      BY <1>1, <1>2, <1>11, EarlyMove DEF Early
    <2> QED BY <1>6, <2>1 DEF SetupInv
  <1> QED BY <1>7, <1>8, <1>9, <1>10, <1>11

-----------------------------------------------------------------------------
(* What APM leaves. *)

\* What the package manager and users put into a document is a content of it.
LEMMA Shaped ==
    /\ \A d \in Documents : Content(d) \subseteq Shapes
    /\ \A h \in Consumer : Bare(Marker) \in Content(Owned(h))
    /\ \A h \in Sided : UsersOwn \in Content(Active(h)) /\ HasForeign(UsersOwn)
  <1>1. Bare(Marker) \in [Events -> Bindings]
    BY Words DEF Bare
  <1>2. UsersOwn \in [Events -> Seq(Commands)] /\ HasForeign(UsersOwn)
    <2>1. <<Foreign>> \in Seq(Commands) /\ DOMAIN <<Foreign>> = {1} /\ <<Foreign>>[1] = Foreign
      BY Words
    <2> QED BY <2>1 DEF UsersOwn, HasForeign
  <1>3. ASSUME NEW d \in Documents PROVE Content(d) \subseteq Shapes
    <2>1. \/ d = Package \/ d = Lock \/ d \in ActiveDocs \/ \E h \in Consumer : d = Owned(h)
      BY DEF Documents
    <2>2. /\ Content(Package) \subseteq Shapes /\ Content(Lock) \subseteq Shapes
          /\ \A a \in ActiveDocs : Content(a) \subseteq Shapes
          /\ \A h \in Consumer : Content(Owned(h)) \subseteq Shapes
      BY Contents DEF Shapes
    <2> QED BY <2>1, <2>2
  <1> QED BY <1>1, <1>2, <1>3, Contents, DocumentKinds

\* An installation leaves whole documents, keeps what users have in theirs, and
\* registers every harness that it is for.
LEMMA InstalledDocuments ==
    ASSUME Stored, Hooked, NEW T \in SUBSET Consumer, NEW how, ~ApmFails(T)
    PROVE  /\ Installed(T, how) \in [Documents -> {None, Torn} \cup Shapes]
           /\ \A d \in Documents : Installed(T, how)[d] \in {None, Torn} \cup Content(d)
           /\ \A h \in users : /\ Installed(T, how)[Active(h)] # None
                               /\ Installed(T, how)[Active(h)] # Torn => HasForeign(Installed(T, how)[Active(h)])
           /\ \A h \in T : Installed(T, how)[Owned(h)] # None
  <1> DEFINE Kept(d) == how = "keep" /\ ~Missing(d)
             New(h) == IF Kept(Owned(h)) THEN docs[Owned(h)] ELSE Bare(Marker)
  <1>1. ASSUME NEW d \in Documents, ~Missing(d) PROVE docs[d] \in Content(d)
    BY <1>1 DEF Stored
  <1>2. ASSUME NEW h \in Consumer PROVE New(h) \in Content(Owned(h))
    BY <1>1, Shaped, DocumentKinds
  <1> DEFINE Marks(d) ==
        [e \in Events |->
            LET old == IF docs[d] = None THEN <<>> ELSE docs[d][e]
            IN  IF d[1] \in T THEN Marked(old, how) ELSE Pruned(old)]
      After(d) ==
          CASE d = Package -> IF Kept(d) THEN docs[d] ELSE [e \in Events |-> Marker]
            [] d = Lock -> [targets |-> T, hash |-> IF "copilot" \in T THEN New("copilot") ELSE None]
            [] d \in ActiveDocs -> IF Missing(d) /\ d[1] \notin T THEN docs[d] ELSE Marks(d)
            [] OTHER -> IF d[1] \in T THEN New(d[1]) ELSE None
  <1>3. Installed(T, how) = [d \in Documents |-> After(d)]
    BY DEF Installed
  <1> HIDE DEF New
  <1>4. ASSUME NEW d \in Documents, d = Package PROVE After(d) \in {None, Torn} \cup Content(d)
    <2>1. d # Lock /\ d \notin ActiveDocs
      BY <1>4, DocumentKinds
    <2>2. After(d) = IF Kept(d) THEN docs[d] ELSE [e \in Events |-> Marker]
      BY <1>4, <2>1
    <2>3. [e \in Events |-> Marker] \in Content(d)
      BY <1>4, Contents
    <2> QED BY <1>1, <2>2, <2>3
  <1>5. ASSUME NEW d \in Documents, d = Lock PROVE After(d) \in {None, Torn} \cup Content(d)
    <2>1. d # Package /\ d \notin ActiveDocs
      BY <1>5, DocumentKinds
    <2>2. PICK hash : hash = IF "copilot" \in T THEN New("copilot") ELSE None
      OBVIOUS
    <2>3. hash \in {None, Torn} \cup [Events -> Bindings]
      BY <1>2, <2>2, Contents
    <2>4. After(d) = [targets |-> T, hash |-> hash]
      BY <1>5, <2>1, <2>2
    <2>5. [targets |-> T, hash |-> hash] \in Content(d)
      BY <1>5, <2>3, Contents
    <2> QED BY <2>4, <2>5
  <1>6. ASSUME NEW d \in ActiveDocs
        PROVE  /\ After(d) \in {None, Torn} \cup Content(d)
               /\ docs[d] # None /\ (docs[d] # Torn => HasForeign(docs[d])) =>
                     After(d) # None /\ (After(d) # Torn => HasForeign(After(d)))
    <2>1. d # Package /\ d # Lock /\ d \in Documents /\ d[1] \in Sided /\ d = Active(d[1])
      BY DocumentKinds
    <2>2. After(d) = IF Missing(d) /\ d[1] \notin T THEN docs[d] ELSE Marks(d)
      BY <1>6, <2>1
    <2>3. CASE Missing(d) /\ d[1] \notin T
      BY <2>2, <2>3 DEF Missing
    <2>4. CASE ~(Missing(d) /\ d[1] \notin T)
      <3>1. docs[d] # Torn
        BY <2>1, <2>4 DEF ApmFails, Missing
      <3>2. docs[d] # None => docs[d] \in [Events -> Seq(Commands)]
        BY <1>1, <2>1, <3>1, Contents DEF Missing
      <3>3. PICK old : old = [e \in Events |-> IF docs[d] = None THEN <<>> ELSE docs[d][e]]
        OBVIOUS
      <3>4. \A e \in Events : old[e] \in Seq(Commands)
        BY <3>2, <3>3
      <3>5. PICK after : after = [e \in Events |-> IF d[1] \in T THEN Marked(old[e], how) ELSE Pruned(old[e])]
        OBVIOUS
      <3>6. After(d) = after
        BY <2>2, <2>4, <3>3, <3>5
      <3>7. after \in [Events -> Seq(Commands)]
        BY <3>4, <3>5, MarkedEntries, PrunedEntries
      <3>8. after \in Content(d) /\ after # None
        BY <2>1, <3>7, Contents, NotMissing
      <3>9. ASSUME docs[d] # None, HasForeign(docs[d]) PROVE HasForeign(after)
        <4>1. ASSUME NEW e \in Events PROVE \E k \in DOMAIN after[e] : after[e][k] = Foreign
          <5>1. old[e] = docs[d][e] /\ old[e] \in Seq(Commands)
            BY <3>3, <3>4, <3>9
          <5>2. PICK i \in DOMAIN old[e] : old[e][i] = Foreign
            BY <3>9, <5>1 DEF HasForeign
          <5>3. after[e] = Marked(old[e], how) \/ after[e] = Pruned(old[e])
            BY <3>5
          <5> QED BY <5>1, <5>2, <5>3, MarkedEntries, PrunedEntries
        <4> QED BY <4>1 DEF HasForeign
      <3> QED BY <3>1, <3>6, <3>8, <3>9
    <2> QED BY <2>3, <2>4
  <1>7. ASSUME NEW h \in Consumer
        PROVE  After(Owned(h)) \in {None, Torn} \cup Content(Owned(h)) /\ (h \in T => After(Owned(h)) # None)
    <2>1. PICK d : d = Owned(h)
      OBVIOUS
    <2>2. d # Package /\ d # Lock /\ d \notin ActiveDocs /\ d[1] = h /\ d \in Documents
      BY <2>1, DocumentKinds
    <2>3. After(d) = IF h \in T THEN New(h) ELSE None
      BY <2>2
    <2>4. New(h) \in Content(d) /\ New(h) # None
      BY <1>2, <2>1, <2>2, NotMissing
    <2> QED BY <2>1, <2>3, <2>4
  <1> HIDE DEF After
  <1>8. ASSUME NEW d \in Documents PROVE After(d) \in {None, Torn} \cup Content(d)
    BY <1>4, <1>5, <1>6, <1>7 DEF Documents
  <1>9. ASSUME NEW h \in users
        PROVE  After(Active(h)) # None /\ (After(Active(h)) # Torn => HasForeign(After(Active(h))))
    <2>1. Active(h) \in ActiveDocs
      BY DocumentKinds DEF Stored
    <2> QED BY <1>6, <2>1 DEF Hooked
  <1>10. \A d \in Documents : Installed(T, how)[d] = After(d)
    BY <1>3
  <1>11. \A h \in users : Active(h) \in Documents
    BY DocumentKinds DEF Stored
  <1>12. Installed(T, how) \in [Documents -> {None, Torn} \cup Shapes]
    BY <1>3, <1>8, Shaped
  <1> QED BY <1>7, <1>8, <1>9, <1>10, <1>11, <1>12, DocumentKinds

\* The documents change, and are again what they may be.
LEMMA DocumentsKept ==
    ASSUME StoreInv, UNCHANGED <<venv, launchers, outside, reports, launch>>,
           skill' \in {None} \cup Packages, docs' \in [Documents -> {None, Torn} \cup Shapes],
           \A d \in Documents : docs'[d] \in {None, Torn} \cup Content(d),
           \A h \in users : docs'[Active(h)] # None /\ (docs'[Active(h)] # Torn => HasForeign(docs'[Active(h)]))
    PROVE  StoreInv'
  <1>1. Stored'
    BY DEF StoreInv, Stored, Missing, outside
  <1>2. Hooked'
    <2>1. \A h \in users' : docs'[Active(h)] # None /\ (docs'[Active(h)] # Torn => HasForeign(docs'[Active(h)]))
      BY DEF outside
    <2> QED BY <2>1 DEF Hooked, HasForeign
  <1>3. NamedFor' /\ Launched'
    BY DEF StoreInv, NamedFor, Launched, LaunchHonest, outside
  <1> QED BY <1>1, <1>2, <1>3 DEF StoreInv

\* apm install by a run: the documents it writes keep the hooks of users, and are those of its
\* targets.
LEMMA ApmInstallKeeps ==
    ASSUME SetupInv, NEW p \in Processes, NEW how, NEW version \in Packages, ApmInstall(p, how, version)
    PROVE  SetupInv'
  <1>1. op[p].stage = "apm" /\ ~At(p, "idle") /\ UNCHANGED users /\ StoreInv
        /\ UNCHANGED <<venv, launchers, outside, reports, launch>>
    BY DEF ApmInstall, At, outside, SetupInv
  <1>2. Req(p).targets \in SUBSET Consumer
    BY <1>1, Running
  <1>3. CASE ApmFails(Req(p).targets)
    <2>1. UNCHANGED <<docs, skill>> /\ End(p, "refused")
      BY <1>3 DEF ApmInstall
    <2>2. Explained(p)
      BY <1>3 DEF ApmFails, Explained
    <2>3. RunInv' /\ \A q \in Processes : Undisturbed(q)'
      BY <1>1, <2>1, <2>2, Ending
    <2>4. StoreInv'
      BY <1>1, <2>1, StoreKept DEF StoreInv, Stored
    <2> QED BY <2>3, <2>4 DEF SetupInv
  <1>4. CASE ~ApmFails(Req(p).targets)
    <2>1. docs' = Installed(Req(p).targets, how) /\ skill' = version /\ Goto(p, "package")
      BY <1>4 DEF ApmInstall
    <2>2. StoreInv'
      BY <1>1, <1>2, <1>4, <2>1, InstalledDocuments, DocumentsKept DEF StoreInv
    <2>3. op[p].decl \in Declarations
      BY <1>1, Running DEF Resolved
    <2>4. RunInv' /\ \A q \in Processes : Undisturbed(q)'
      BY <1>1, <2>1, <2>3, EarlyMove DEF Early
    <2> QED BY <2>2, <2>4 DEF SetupInv
  <1> QED BY <1>3, <1>4

-----------------------------------------------------------------------------
(* The steps at the hooks. *)

\* The edits and verifications of any targets are edits of the consumer.
LEMMA EditsAll ==
    ASSUME NEW T \in SUBSET Consumer
    PROVE  /\ Edits(T) \in SUBSET AllEdits
           /\ UNION {HarnessDocs(h) : h \in T} \in SUBSET AllEdits
           /\ \A x \in UNION {HarnessDocs(h) : h \in T} :
                 \E h \in T : x = <<Owned(h), "all">> \/ (h \in Sided /\ x = <<Active(h), "all">>)
  <1>1. ASSUME NEW x \in Edits(T) PROVE x \in AllEdits
    <2>1. x = <<x[1], x[2]>> /\ x[1] \in Documents /\ x[2] \in Events \cup {"all"}
      BY EditKinds
    <2> QED BY <2>1 DEF AllEdits
  <1>2. ASSUME NEW x \in UNION {HarnessDocs(h) : h \in T}
        PROVE  \E h \in T : x = <<Owned(h), "all">> \/ (h \in Sided /\ x = <<Active(h), "all">>)
    BY DEF HarnessDocs, ActiveFile
  <1>3. ASSUME NEW x \in UNION {HarnessDocs(h) : h \in T} PROVE x \in AllEdits
    BY <1>2, DocumentKinds DEF AllEdits
  <1> QED BY <1>1, <1>2, <1>3

\* A run that is at the hooks and goes on.
LEMMA HookStep ==
    ASSUME SetupInv, NEW p \in Processes, ~At(p, "idle"), NEW n \in RunRecords,
           op' = [op EXCEPT ![p] = n], n.alone = op[p].alone, n.outcome = "none", UNCHANGED users,
           Holding(n),
           n.alone => Agreed(p)' /\ Carried(p)' /\ Described(p)'
    PROVE  RunInv' /\ \A q \in Processes : Undisturbed(q)'
  <1>1. RunInv /\ op'[p] = n
    BY DEF SetupInv, RunInv
  <1>2. Justified(p)'
    BY <1>1 DEF Justified
  <1>3. Undisturbed(p)'
    BY <1>1, <1>2 DEF Undisturbed
  <1> QED BY <1>1, <1>3, OwnStep

\* A run begins its edits with all of them left, or the lock or the descriptor is missing.
LEMMA FindPackageKeeps ==
    ASSUME SetupInv, NEW p \in Processes, FindPackage(p)
    PROVE  SetupInv'
  <1>1. op[p].stage = "package" /\ ~At(p, "idle") /\ UNCHANGED <<docs, users>> /\ StoreInv /\ RunInv
        /\ UNCHANGED <<venv, launchers, docs, skill, outside, reports, launch>>
    BY DEF FindPackage, At, outside, files, SetupInv
  <1>2. StoreInv'
    BY <1>1, StoreKept DEF StoreInv, Stored
  <1>3. CASE Missing(Lock) \/ docs[Package] = None
    <2>1. End(p, "refused") /\ Explained(p)
      BY <1>3 DEF FindPackage, Explained, Missing
    <2>2. RunInv' /\ \A q \in Processes : Undisturbed(q)'
      BY <1>1, <2>1, Ending
    <2> QED BY <1>2, <2>2 DEF SetupInv
  <1>4. CASE ~(Missing(Lock) \/ docs[Package] = None)
    <2>1. PICK o, T, bound : o = op[p] /\ T = o.req.targets /\ bound = Binding(p)
      OBVIOUS
    <2>2. /\ o \in RunRecords /\ o.req \in Requests /\ o.outcome = "none" /\ T \in SUBSET Consumer
          /\ o.decl \in Declarations
      BY <1>1, <2>1, Running DEF Req, Resolved
    <2>3. bound \in BOOLEAN
      BY <2>1 DEF Binding
    <2>4. PICK n : n = [o EXCEPT !.stage = "edit", !.left = Edits(T), !.binding = bound]
      OBVIOUS
    <2>5. op' = [op EXCEPT ![p] = n]
      BY <1>1, <1>4, <2>1, <2>4 DEF FindPackage, RunInv, Req
    <2>6. Edits(T) \in SUBSET AllEdits
      BY <2>2, EditsAll
    <2>7. /\ n \in RunRecords /\ n.stage = "edit" /\ n.left = Edits(T) /\ n.req = o.req /\ n.decl = o.decl
          /\ n.alone = o.alone /\ n.outcome = o.outcome
      BY <2>2, <2>3, <2>4, <2>6 DEF RunRecords, Stages
    <2>8. ASSUME NEW h \in Sided PROVE ~Halfway(n, h)
      <3>1. ASSUME <<Owned(h), "UserPromptSubmit">> \in Edits(T) PROVE <<Owned(h), "SessionStart">> \in Edits(T)
        <4>1. PICK x : x = <<Owned(h), "UserPromptSubmit">>
          OBVIOUS
        <4>2. x \in Edits(T) /\ x[1] = Owned(h) /\ x[2] = "UserPromptSubmit"
          BY <3>1, <4>1
        <4>3. x[1] \in ActiveDocs \/ x[1][1] \in T \cap Sided
          BY <2>2, <4>2, EditKinds DEF Events
        <4>4. h \in T \cap Sided /\ "SessionStart" \in Events
          BY <4>2, <4>3, DocumentKinds DEF Sided, Events
        <4> QED BY <2>2, <4>4, EditsOf
      <3> QED BY <2>7, <3>1 DEF Halfway
    <2>9. Sorted(n)
      BY <2>1, <2>7 DEF Sorted
    <2>10. Holding(n)
      BY <2>1, <2>2, <2>7, <2>8, <2>9 DEF Holding, Resolved
    <2>11. op'[p] = n
      BY <1>1, <2>5 DEF RunInv
    <2>12. Made(n) = {}
      BY <2>1, <2>7 DEF Made
    <2>13. Agreed(p)' /\ Carried(p)' /\ Described(p)'
      BY <2>7, <2>8, <2>11, <2>12 DEF Agreed, Carried, Described, Finished, Made, Halfway
    <2>14. RunInv' /\ \A q \in Processes : Undisturbed(q)'
      BY <1>1, <2>1, <2>2, <2>5, <2>7, <2>10, <2>13, HookStep
    <2> QED BY <1>2, <2>14 DEF SetupInv
  <1> QED BY <1>3, <1>4

\* After an edit the next one is due.
LEMMA NextEdited ==
    ASSUME NEW o \in RunRecords, o.req \in Requests, o.outcome = "none", o.decl \in Declarations,
           o.left \in SUBSET Edits(o.req.targets), Sorted(o),
           NEW edit, Foremost(edit, o.left), NEW content,
           content \in Content(edit[1]) \/ (content = None /\ edit[1] \in ActiveDocs)
    PROVE  \E n \in RunRecords :
              /\ n = NextEdit(o, edit, content) /\ Holding(n)
              /\ n.stage = "edit" /\ n.left = o.left \ {edit} /\ n.req = o.req /\ n.decl = o.decl
              /\ n.ready = o.ready /\ n.binding = o.binding /\ n.alone = o.alone /\ n.outcome = "none"
              /\ \A h \in Sided : Halfway(n, h) => edit[1] = Owned(h) /\ n.buffer = content
  <1>1. PICK T : T = o.req.targets /\ T \in SUBSET Consumer
    BY Requested
  <1>2. edit \in Edits(T) /\ edit \in o.left
    BY <1>1 DEF Foremost
  <1>3. edit[1] \in Documents /\ edit = <<edit[1], edit[2]>>
    BY <1>1, <1>2, EditKinds
  <1>4. content \in Shapes \cup {None}
    BY <1>3, Shaped
  <1>5. PICK buffer : buffer = (IF edit[1][2] = "owned" /\ edit[2] = "SessionStart" THEN content ELSE None)
    OBVIOUS
  <1>6. PICK n : n = [o EXCEPT !.stage = "edit", !.left = o.left \ {edit}, !.edit = None, !.buffer = buffer]
    OBVIOUS
  <1>7. n = NextEdit(o, edit, content)
    BY <1>5, <1>6 DEF NextEdit
  <1>8. /\ n \in RunRecords /\ n.stage = "edit" /\ n.left = o.left \ {edit} /\ n.req = o.req /\ n.decl = o.decl
        /\ n.ready = o.ready /\ n.binding = o.binding /\ n.alone = o.alone /\ n.outcome = "none"
        /\ n.buffer = buffer
    BY <1>4, <1>5, <1>6 DEF RunRecords, Stages
  <1>9. \A y \in Edits(T) \ o.left, z \in o.left : Rank(y) < Rank(z)
    BY <1>1 DEF Sorted
  <1>10. o.left \in SUBSET Edits(T)
    BY <1>1
  <1>11. /\ \A y \in Edits(T) \ (o.left \ {edit}), z \in o.left \ {edit} : Rank(y) < Rank(z)
         /\ \A h \in Sided : <<Owned(h), "UserPromptSubmit">> \in o.left \ {edit}
                             /\ <<Owned(h), "SessionStart">> \notin o.left \ {edit} =>
                                   edit = <<Owned(h), "SessionStart">>
    BY <1>1, <1>9, <1>10, Removal
  <1>12. Sorted(n)
    BY <1>1, <1>8, <1>11 DEF Sorted
  <1>13. ASSUME NEW h \in Sided, Halfway(n, h) PROVE edit[1] = Owned(h) /\ n.buffer = content
    <2>1. edit = <<Owned(h), "SessionStart">>
      BY <1>8, <1>11, <1>13 DEF Halfway
    <2>2. edit[1] = Owned(h) /\ edit[2] = "SessionStart"
      BY <2>1
    <2>3. edit[1][2] = "owned"
      BY <2>2 DEF Owned
    <2> QED BY <1>5, <1>8, <2>2, <2>3
  <1>14. ASSUME NEW h \in Sided, Halfway(n, h) PROVE n.buffer \in Content(Owned(h))
    <2>1. edit[1] = Owned(h) /\ n.buffer = content
      BY <1>13, <1>14
    <2>2. Owned(h) \notin ActiveDocs
      BY DocumentKinds DEF Sided
    <2> QED BY <2>1, <2>2
  <1>15. Holding(n)
    BY <1>1, <1>8, <1>12, <1>14 DEF Holding, Resolved
  <1> QED BY <1>7, <1>8, <1>13, <1>15

\* What a run at its edits has at hand.
LEMMA Editing ==
    ASSUME SetupInv, NEW p \in Processes, op[p].stage \in {"edit", "truncate", "fill"}
    PROVE  /\ op[p] \in RunRecords /\ Req(p) \in Requests /\ op[p].outcome = "none" /\ op[p].decl \in Declarations
           /\ op[p].left \in SUBSET Edits(Req(p).targets) /\ Sorted(op[p]) /\ Holding(op[p])
           /\ Req(p).targets \in SUBSET Consumer /\ Req(p).venv \in Venvs
           /\ \A edit : Foremost(edit, op[p].left) => edit \in Edits(Req(p).targets)
  <1>1. ~At(p, "idle") /\ op[p].stage \in Resolved
    BY DEF At, Resolved
  <1>2. Holding(op[p])
    BY <1>1, Running
  <1>3. op[p].left \in SUBSET Edits(Req(p).targets) /\ Sorted(op[p])
    BY <1>2 DEF Holding, Req
  <1> QED BY <1>1, <1>2, <1>3, Running DEF Foremost

\* The document that an edit begins with: the second event of a registration has
\* what the first one left in memory.
LEMMA EditBase ==
    ASSUME SetupInv, NEW p \in Processes, At(p, "edit"), NEW edit, Foremost(edit, op[p].left),
           NEW base, base = IF Rereads(edit[1], edit[2]) THEN docs[edit[1]] ELSE op[p].buffer
    PROVE  /\ base \in {None, Torn} \cup Content(edit[1])
           /\ op[p].alone => base = docs[edit[1]]
           /\ edit[1] \in ActiveDocs => base = docs[edit[1]]
  <1>1. PICK o, T : o = op[p] /\ T = Req(p).targets /\ o.stage = "edit"
    BY DEF At
  <1>2. /\ o \in RunRecords /\ T \in SUBSET Consumer /\ T = o.req.targets /\ edit \in Edits(T) /\ edit \in o.left
        /\ o.left \in SUBSET Edits(T) /\ Sorted(o) /\ Holding(o)
    BY <1>1, Editing DEF Foremost, Req
  <1>3. PICK d, e : d = edit[1] /\ e = edit[2]
    OBVIOUS
  <1>4. /\ d \in Documents /\ edit = <<d, e>>
        /\ \/ d = Package /\ e = "all"
           \/ d \in ActiveDocs /\ e \in Events /\ d[1] \in T \cap Sided /\ d = Active(d[1])
           \/ d \in Registrations /\ e \in Events /\ d[1] \in T \cap Sided /\ d = Owned(d[1])
           \/ d = Owned(d[1]) /\ d[1] \in T \ Sided /\ e = "all"
    BY <1>2, <1>3, EditKinds
  <1>5. CASE Rereads(d, e)
    <2>1. base = docs[d]
      BY <1>3, <1>5
    <2>2. docs[d] \in {None, Torn} \cup Content(d)
      BY <1>4 DEF SetupInv, StoreInv, Stored, Missing
    <2> QED BY <1>3, <2>1, <2>2
  <1>6. CASE ~Rereads(d, e)
    <2>1. d[2] = "owned" /\ e = "UserPromptSubmit" /\ base = o.buffer
      BY <1>1, <1>3, <1>6 DEF Rereads
    <2>2. d \notin ActiveDocs
      BY <2>1 DEF ActiveDocs, Active
    <2>3. d[1] \in Sided /\ d = Owned(d[1])
      BY <1>4, <2>1, <2>2 DEF Registrations
    <2>4. PICK h \in Sided : h = d[1] /\ d = Owned(h)
      BY <2>3
    <2>5. \A y \in Edits(T) \ o.left, z \in o.left : Rank(y) < Rank(z)
      BY <1>2 DEF Sorted
    <2>6. edit = <<Owned(h), "UserPromptSubmit">>
      BY <1>4, <2>1, <2>4
    <2>7. <<Owned(h), "SessionStart">> \notin o.left
      <3>1. Foremost(edit, o.left)
        BY <1>1
      <3> QED BY <1>2, <2>5, <2>6, <3>1, Removal
    <2>8. Halfway(o, h)
      BY <1>2, <2>6, <2>7 DEF Halfway
    <2>9. o.buffer \in Content(d)
      BY <1>1, <1>2, <2>4, <2>8 DEF Holding
    <2>10. ASSUME o.alone PROVE o.buffer = docs[d]
      <3>1. Carried(p)
        BY <1>1, <2>10 DEF SetupInv, Undisturbed
      <3> QED BY <1>1, <2>4, <2>8, <3>1 DEF Carried, At
    <2> QED BY <1>1, <1>3, <2>1, <2>2, <2>9, <2>10
  <1> QED BY <1>5, <1>6

\* An edit is refused for a reason that can be seen in the consumer.
LEMMA RefusedEdit ==
    ASSUME SetupInv, NEW p \in Processes, NEW T \in SUBSET Consumer, T = Req(p).targets, Req(p).venv \in Venvs,
           NEW edit \in Edits(T), NEW base, base = docs[edit[1]], base \in {None, Torn} \cup Content(edit[1]),
           \/ base \in {None, Torn} /\ ~(base = None /\ edit[1] \in ActiveDocs)
           \/ base \notin {None, Torn} /\ ~Editable(p, edit[1], edit[2], base)
    PROVE  Explained(p)
  <1> DEFINE v == Req(p).venv
  <1>1. PICK d, e : d = edit[1] /\ e = edit[2]
    OBVIOUS
  <1>2. \/ d = Package /\ e = "all"
        \/ d \in ActiveDocs /\ e \in Events /\ d[1] \in T \cap Sided /\ d = Active(d[1])
        \/ d \in Registrations /\ e \in Events /\ d[1] \in T \cap Sided /\ d = Owned(d[1])
        \/ d = Owned(d[1]) /\ d[1] \in T \ Sided /\ e = "all"
    BY <1>1, EditKinds
  <1>3. base = docs[d]
    BY <1>1
  <1>4. CASE d = Package /\ e = "all"
    <2>1. d \notin ActiveDocs /\ d \notin Registrations
      BY <1>4, DocumentKinds
    <2>2. CASE base \in {None, Torn}
      BY <1>3, <1>4, <2>2 DEF Explained, Missing
    <2>3. CASE base \notin {None, Torn}
      <3>1. base \in [Events -> {Marker} \cup Venvs] /\ ~Editable(p, d, e, base)
        BY <1>1, <1>4, <2>3, Contents
      <3>2. PICK ev \in Events : base[ev] \notin {Marker, v}
        BY <1>4, <2>1, <3>1 DEF Editable
      <3>3. docs[Package][ev] \in Rebound(p)
        BY <1>3, <1>4, <3>1, <3>2 DEF Rebound
      <3> QED BY <3>3 DEF Explained
    <2> QED BY <2>2, <2>3
  <1>5. CASE d \in ActiveDocs /\ e \in Events /\ d[1] \in T \cap Sided /\ d = Active(d[1])
    <2>1. PICK h \in T \cap Sided : d = Active(h)
      BY <1>5
    <2>2. d # Package /\ d \notin Registrations
      BY <1>5, DocumentKinds
    <2>3. CASE base \in {None, Torn}
      <3>1. docs[Active(h)] = Torn
        BY <1>1, <1>3, <1>5, <2>1, <2>3
      <3> QED BY <2>1, <3>1 DEF Explained
    <2>4. CASE base \notin {None, Torn}
      <3>1. base \in [Events -> Seq(Commands)] /\ ~Editable(p, d, e, base)
        BY <1>1, <1>5, <2>4, Contents
      <3>2. BindActive(base[e], Foreign, v) = <<>>
        BY <1>5, <2>2, <3>1 DEF Editable
      <3>3. base[e] \in Seq(Commands) /\ Foreign \in Commands /\ v \in Venvs
        BY <1>5, <3>1, Words
      <3>4. \A i \in DOMAIN base[e] : ~Recognised(base[e][i], v)
        BY <3>2, <3>3, BoundEntries
      <3> QED BY <1>3, <1>5, <2>1, <3>4 DEF Explained
    <2> QED BY <2>3, <2>4
  <1>6. CASE d = Owned(d[1]) /\ d[1] \in T /\ d \notin ActiveDocs
    <2>1. PICK h \in T : d = Owned(h)
      BY <1>6
    <2>2. d # Package /\ h \in Consumer
      BY <2>1, DocumentKinds
    <2>3. CASE base \in {None, Torn}
      BY <1>3, <2>1, <2>3 DEF Explained, Missing
    <2>4. CASE base \notin {None, Torn}
      <3>1. base \in [Events -> Bindings] /\ ~Editable(p, d, e, base)
        BY <1>1, <2>1, <2>2, <2>4, Contents
      <3>2. d \in Registrations
        BY <1>6, <2>2, <3>1 DEF Editable
      <3>3. e \in Events
        BY <1>2, <2>2, <1>6, <3>2, DocumentKinds
      <3>4. base[e] \in Bindings /\ base[e].by \notin {Marker, v}
        BY <1>6, <2>2, <3>1, <3>2, <3>3 DEF Editable, Recognised
      <3>5. base[e].by \in Rebound(p)
        BY <3>4 DEF Bindings, Commands, Rebound
      <3> QED BY <1>3, <2>1, <3>3, <3>5 DEF Explained
    <2> QED BY <2>3, <2>4
  <1>7. d = Owned(d[1]) /\ d[1] \in Consumer => d \notin ActiveDocs
    BY DocumentKinds
  <1>8. d \in Registrations => d \notin ActiveDocs
    BY DocumentKinds
  <1> QED BY <1>2, <1>4, <1>5, <1>6, <1>7, <1>8

\* A document is read and the edited one kept in memory, or what is in it explains the refusal.
LEMMA ReadDocumentKeeps ==
    ASSUME SetupInv, NEW p \in Processes, NEW edit, ReadDocument(p, edit)
    PROVE  SetupInv'
  <1>1. op[p].stage = "edit" /\ At(p, "edit") /\ ~At(p, "idle") /\ StoreInv /\ RunInv /\ Foremost(edit, op[p].left)
        /\ UNCHANGED <<venv, launchers, docs, skill, outside, reports, launch>> /\ UNCHANGED <<docs, users>>
    BY DEF ReadDocument, At, outside, files, SetupInv
  <1>2. StoreInv'
    BY <1>1, StoreKept DEF StoreInv, Stored
  <1>3. PICK o, T : o = op[p] /\ T = o.req.targets
    OBVIOUS
  <1>4. /\ o \in RunRecords /\ o.req \in Requests /\ o.outcome = "none" /\ o.decl \in Declarations
        /\ o.left \in SUBSET Edits(T) /\ Sorted(o) /\ Holding(o) /\ T \in SUBSET Consumer /\ o.req.venv \in Venvs
        /\ edit \in Edits(T) /\ o.stage = "edit" /\ Foremost(edit, o.left) /\ edit \in o.left
    BY <1>1, <1>3, Editing DEF Req, Foremost
  <1>5. PICK d, e, base :
          d = edit[1] /\ e = edit[2] /\ base = IF Rereads(edit[1], edit[2]) THEN docs[edit[1]] ELSE op[p].buffer
    OBVIOUS
  <1>6. /\ base \in {None, Torn} \cup Content(d)
        /\ o.alone => base = docs[d]
        /\ d \in ActiveDocs => base = docs[d]
    BY <1>1, <1>3, <1>5, EditBase
  <1>7. d \in Documents /\ d # Lock
    BY <1>4, <1>5, EditKinds
  <1>8. \/ base = None /\ d \in ActiveDocs /\ op' = [op EXCEPT ![p] = NextEdit(o, edit, None)]
        \/ base \in {None, Torn} /\ ~(base = None /\ d \in ActiveDocs) /\ End(p, "refused")
        \/ base \notin {None, Torn} /\ ~Editable(p, d, e, base) /\ End(p, "refused")
        \/ /\ base \notin {None, Torn} /\ Editable(p, d, e, base) /\ Edited(p, d, e, base) = base
           /\ op' = [op EXCEPT ![p] = NextEdit(o, edit, base)]
        \/ /\ base \notin {None, Torn} /\ Editable(p, d, e, base)
           /\ op' = [op EXCEPT ![p].stage = "truncate", ![p].edit = edit, ![p].buffer = Edited(p, d, e, base)]
    BY <1>1, <1>3, <1>5 DEF ReadDocument, RunInv
  <1>9. CASE End(p, "refused") /\ (\/ base \in {None, Torn} /\ ~(base = None /\ d \in ActiveDocs)
                                   \/ base \notin {None, Torn} /\ ~Editable(p, d, e, base))
    <2>1. ASSUME o.alone PROVE Explained(p)
      <3>1. base = docs[d]
        BY <1>6, <2>1
      <3> QED BY <1>3, <1>4, <1>5, <1>6, <1>9, <3>1, RefusedEdit DEF Req
    <2>2. RunInv' /\ \A q \in Processes : Undisturbed(q)'
      BY <1>1, <1>3, <1>9, <2>1, Ending
    <2> QED BY <1>2, <2>2 DEF SetupInv
  <1>10. ASSUME base \notin {None, Torn}, Editable(p, d, e, base)
         PROVE  /\ base \in Content(d) /\ Edited(p, d, e, base) \in Content(d)
                /\ Applied(p, edit, Edited(p, d, e, base))
                /\ \A y \in Edits(T) : y[1] = d /\ Applied(p, y, base) => Applied(p, y, Edited(p, d, e, base))
                /\ d \in ActiveDocs /\ HasForeign(base) => HasForeign(Edited(p, d, e, base))
    <2>1. base \in Content(edit[1]) /\ Editable(p, edit[1], edit[2], base) /\ edit \in Edits(Req(p).targets)
          /\ op[p] \in RunRecords /\ Req(p) \in Requests /\ op[p].decl \in Declarations
      BY <1>3, <1>4, <1>5, <1>6, <1>10 DEF Req
    <2> QED BY <1>3, <1>5, <2>1, EditedApplied DEF Req
  <1>11. ASSUME NEW content, content = base, op' = [op EXCEPT ![p] = NextEdit(o, edit, content)],
                content \in Content(d) \/ (content = None /\ d \in ActiveDocs),
                Applied(p, edit, content)
         PROVE  SetupInv'
    <2>1. PICK n \in RunRecords :
            /\ n = NextEdit(o, edit, content) /\ Holding(n)
            /\ n.stage = "edit" /\ n.left = o.left \ {edit} /\ n.req = o.req /\ n.decl = o.decl
            /\ n.ready = o.ready /\ n.binding = o.binding /\ n.alone = o.alone /\ n.outcome = "none"
            /\ \A h \in Sided : Halfway(n, h) => edit[1] = Owned(h) /\ n.buffer = content
      BY <1>3, <1>4, <1>5, <1>11, NextEdited
    <2>2. op' = [op EXCEPT ![p] = n] /\ op'[p] = n
      BY <1>1, <1>11, <2>1 DEF RunInv
    <2>3. ASSUME n.alone PROVE Agreed(p)' /\ Carried(p)' /\ Described(p)'
      <3>1. Agreed(p) /\ base = docs[d]
        BY <1>1, <1>3, <1>6, <2>1, <2>3 DEF SetupInv, Undisturbed
      <3>2. \A x \in Made(n) : x \in Made(o) \/ x = edit
        BY <1>4, <2>1 DEF Made
      <3>3. \A x : Pending(n, x)' = docs[x] /\ Pending(o, x) = docs[x]
        BY <1>1, <1>4, <2>1 DEF Pending
      <3>4. \A x \in Made(o) : InPlace(p, x, docs[x[1]])
        BY <1>3, <1>4, <3>1, <3>3 DEF Agreed
      <3>5. InPlace(p, edit, docs[edit[1]])
        BY <1>5, <1>11, <3>1 DEF InPlace
      <3>6. \A x, some : InPlace(p, x, some)' <=> InPlace(p, x, some)
        BY <1>3, <2>1, <2>2, SameCommands
      <3>7. \A x \in Made(n) : InPlace(p, x, docs[x[1]])
        BY <3>2, <3>4, <3>5
      <3>8. Agreed(p)'
        BY <2>2, <3>3, <3>6, <3>7 DEF Agreed
      <3>9. Carried(p)'
        BY <1>1, <1>5, <1>11, <2>1, <2>2, <3>1 DEF Carried, Halfway
      <3>10. Described(p)'
        BY <2>1, <2>2 DEF Described, Finished
      <3> QED BY <3>8, <3>9, <3>10
    <2>4. RunInv' /\ \A q \in Processes : Undisturbed(q)'
      BY <1>1, <1>3, <2>1, <2>2, <2>3, HookStep
    <2> QED BY <1>2, <2>4 DEF SetupInv
  <1>12. CASE base = None /\ d \in ActiveDocs /\ op' = [op EXCEPT ![p] = NextEdit(o, edit, None)]
    <2>1. Applied(p, edit, base)
      <3>1. edit[1] # Package /\ edit[1] \in ActiveDocs /\ edit[1] \notin Registrations
        BY <1>5, <1>12, DocumentKinds
      <3> QED BY <1>12, <3>1 DEF Applied
    <2> QED BY <1>11, <1>12, <2>1
  <1>13. CASE /\ base \notin {None, Torn} /\ Editable(p, d, e, base) /\ Edited(p, d, e, base) = base
              /\ op' = [op EXCEPT ![p] = NextEdit(o, edit, base)]
    <2>1. base \in Content(d) /\ Applied(p, edit, Edited(p, d, e, base))
      BY <1>10, <1>13
    <2>2. Applied(p, edit, base)
      BY <1>13, <2>1
    <2>3. base = base /\ op' = [op EXCEPT ![p] = NextEdit(o, edit, base)]
      BY <1>13
    <2> QED BY <1>11, <2>1, <2>2, <2>3
  <1>14. CASE /\ base \notin {None, Torn} /\ Editable(p, d, e, base)
              /\ op' = [op EXCEPT ![p].stage = "truncate", ![p].edit = edit, ![p].buffer = Edited(p, d, e, base)]
    <2>1. PICK after : after = Edited(p, d, e, base)
      OBVIOUS
    <2>2. /\ base \in Content(d) /\ after \in Content(d) /\ Applied(p, edit, after)
          /\ \A y \in Edits(T) : y[1] = d /\ Applied(p, y, base) => Applied(p, y, after)
          /\ d \in ActiveDocs /\ HasForeign(base) => HasForeign(after)
      BY <1>10, <1>14, <2>1
    <2>3. PICK n : n = [o EXCEPT !.stage = "truncate", !.edit = edit, !.buffer = after]
      OBVIOUS
    <2>4. op' = [op EXCEPT ![p] = n] /\ op'[p] = n
      BY <1>1, <1>3, <1>14, <2>1, <2>3 DEF RunInv
    <2>5. after \in Shapes /\ edit \in AllEdits
      BY <1>4, <1>7, <2>2, Shaped, EditsAll
    <2>6. /\ n \in RunRecords /\ n.stage = "truncate" /\ n.edit = edit /\ n.buffer = after /\ n.left = o.left
          /\ n.req = o.req /\ n.decl = o.decl /\ n.ready = o.ready /\ n.binding = o.binding
          /\ n.alone = o.alone /\ n.outcome = "none"
      BY <1>4, <2>3, <2>5 DEF RunRecords, Stages
    <2>7. ASSUME NEW h \in users, d = Active(h) PROVE HasForeign(after)
      <3>1. d \in ActiveDocs /\ base = docs[d]
        BY <1>1, <1>6, <2>7, DocumentKinds DEF StoreInv, Stored
      <3>2. HasForeign(base)
        BY <1>1, <1>14, <2>7, <3>1 DEF StoreInv, Hooked
      <3> QED BY <2>2, <3>1, <3>2
    <2>8. Sorted(n)
      BY <1>4, <2>6 DEF Sorted
    <2>9. Holding(n)
      BY <1>3, <1>4, <1>5, <2>2, <2>6, <2>7, <2>8 DEF Holding, Resolved
    <2>10. ASSUME n.alone PROVE Agreed(p)' /\ Carried(p)' /\ Described(p)'
      <3>1. Agreed(p) /\ base = docs[d]
        BY <1>1, <1>3, <1>6, <2>6, <2>10 DEF SetupInv, Undisturbed
      <3>2. \A x \in Made(n) : x \in Edits(T) /\ (x \in Made(o) \/ x = edit)
        BY <1>3, <1>4, <2>6 DEF Made
      <3>3. \A x : Pending(n, x)' = (IF x = d THEN after ELSE docs[x]) /\ Pending(o, x) = docs[x]
        BY <1>1, <1>4, <1>5, <2>6 DEF Pending
      <3>4. \A x \in Made(o) : InPlace(p, x, docs[x[1]])
        BY <1>3, <1>4, <3>1, <3>3 DEF Agreed
      <3>5. ASSUME NEW x \in Made(n) PROVE InPlace(p, x, IF x[1] = d THEN after ELSE docs[x[1]])
        <4>1. CASE x[1] # d
          BY <1>5, <3>2, <3>3, <3>4, <4>1
        <4>2. CASE x[1] = d
          <5>1. Applied(p, x, after)
            BY <2>2, <3>1, <3>2, <3>4, <4>2 DEF InPlace
          <5> QED BY <2>2, <3>3, <4>2, <5>1 DEF InPlace
        <4> QED BY <4>1, <4>2
      <3>6. \A x, some : InPlace(p, x, some)' <=> InPlace(p, x, some)
        BY <1>3, <2>4, <2>6, SameCommands
      <3>8. Agreed(p)'
        BY <2>4, <3>3, <3>5, <3>6 DEF Agreed
      <3>9. Carried(p)' /\ Described(p)'
        BY <1>5, <1>7, <2>4, <2>6 DEF Carried, Described, Finished, At, LockEdit
      <3> QED BY <3>8, <3>9
    <2>11. RunInv' /\ \A q \in Processes : Undisturbed(q)'
      BY <1>1, <1>3, <2>4, <2>6, <2>9, <2>10, HookStep
    <2> QED BY <1>2, <2>11 DEF SetupInv
  <1> QED BY <1>8, <1>9, <1>12, <1>13, <1>14

\* A document is cut off, and filled later: neither its other edits nor what the
\* user has in it are lost.
LEMMA TruncateKeeps ==
    ASSUME SetupInv, NEW p \in Processes, Truncate(p)
    PROVE  SetupInv'
  <1>1. op[p].stage = "truncate" /\ ~At(p, "idle") /\ StoreInv /\ RunInv /\ Goto(p, "fill")
        /\ UNCHANGED <<venv, launchers, skill, outside, reports, launch>> /\ UNCHANGED users
    BY DEF Truncate, At, outside, SetupInv
  <1>2. PICK o, T, d : o = op[p] /\ T = o.req.targets /\ d = o.edit[1]
    OBVIOUS
  <1>3. /\ o \in RunRecords /\ o.req \in Requests /\ o.outcome = "none" /\ o.decl \in Declarations
        /\ o.left \in SUBSET Edits(T) /\ Sorted(o) /\ Holding(o) /\ T \in SUBSET Consumer
        /\ o.stage = "truncate"
    BY <1>1, <1>2, Editing DEF Req
  <1>4. \/ o.edit = LockEdit /\ o.left = {} /\ "copilot" \in T
        \/ Foremost(o.edit, o.left)
    BY <1>2, <1>3 DEF Holding
  <1>5. d \in Documents /\ (o.edit # LockEdit => d # Lock)
    <2>1. CASE o.edit = LockEdit
      BY <1>2, <2>1, DocumentKinds DEF LockEdit
    <2>2. CASE Foremost(o.edit, o.left)
      BY <1>2, <1>3, <2>2, EditKinds DEF Foremost
    <2> QED BY <1>4, <2>1, <2>2
  <1>6. docs' = [docs EXCEPT ![d] = Torn]
    BY <1>2 DEF Truncate
  <1>7. docs \in [Documents -> {None, Torn} \cup Shapes]
    BY <1>1 DEF StoreInv, Stored
  <1>8. docs'[d] = Torn /\ \A x \in Documents \ {d} : docs'[x] = docs[x]
    BY <1>5, <1>6, <1>7
  <1>9. StoreInv'
    <2>1. docs' \in [Documents -> {None, Torn} \cup Shapes]
      BY <1>6, <1>7
    <2>2. \A x \in Documents : docs'[x] \in {None, Torn} \cup Content(x)
      BY <1>1, <1>8 DEF StoreInv, Stored, Missing
    <2>3. \A h \in users : docs'[Active(h)] # None /\ (docs'[Active(h)] # Torn => HasForeign(docs'[Active(h)]))
      <3>1. ASSUME NEW h \in users
            PROVE  docs'[Active(h)] # None /\ (docs'[Active(h)] # Torn => HasForeign(docs'[Active(h)]))
        <4>1. Active(h) \in Documents /\ docs[Active(h)] # None
              /\ (docs[Active(h)] # Torn => HasForeign(docs[Active(h)]))
          BY <1>1, DocumentKinds DEF StoreInv, Stored, Hooked
        <4>2. docs'[Active(h)] = docs[Active(h)] \/ docs'[Active(h)] = Torn
          BY <1>8, <4>1
        <4>3. None # Torn
          BY SetupAssumption
        <4> QED BY <4>1, <4>2, <4>3
      <3> QED BY <3>1
    <2>4. skill' \in {None} \cup Packages
      BY <1>1 DEF StoreInv, Stored
    <2> QED BY <1>1, <2>1, <2>2, <2>3, <2>4, DocumentsKept
  <1>10. PICK n \in RunRecords :
              /\ op' = [op EXCEPT ![p] = n] /\ n.stage = "fill" /\ n.req = o.req /\ n.decl = o.decl
              /\ n.ready = o.ready /\ n.binding = o.binding /\ n.left = o.left
              /\ n.edit = o.edit /\ n.buffer = o.buffer /\ n.alone = o.alone /\ n.outcome = "none"
    BY <1>1, <1>2, <1>3, Moved DEF Stages
  <1>11. op'[p] = n
    BY <1>1, <1>10 DEF RunInv
  <1>12. Holding(n)
    BY <1>3, <1>10 DEF Holding, Sorted, Resolved
  <1>13. ASSUME n.alone PROVE Agreed(p)' /\ Carried(p)' /\ Described(p)'
    <2>1. Agreed(p) /\ Described(p)
      BY <1>1, <1>2, <1>10, <1>13 DEF SetupInv, Undisturbed
    <2>2. Made(n) = Made(o)
      BY <1>3, <1>10 DEF Made
    <2>3. \A x \in Documents : Pending(n, x)' = Pending(o, x)
      BY <1>2, <1>3, <1>8, <1>10 DEF Pending
    <2>4. \A x \in Made(o) : InPlace(p, x, Pending(o, x[1])) /\ x[1] \in Documents
      BY <1>2, <1>3, <2>1, EditKinds DEF Agreed, Made
    <2>5. \A x, some : InPlace(p, x, some)' <=> InPlace(p, x, some)
      BY <1>2, <1>10, <1>11, SameCommands
    <2>6. Agreed(p)'
      BY <1>11, <2>2, <2>3, <2>4, <2>5 DEF Agreed
    <2>7. Described(p)'
      <3>1. ASSUME n.edit = LockEdit PROVE n.buffer.hash = docs'[Owned("copilot")]
        <4>1. "copilot" \in Consumer /\ d = Lock
          BY <1>2, <1>3, <1>4, <1>10, <3>1, EditKinds DEF LockEdit, Foremost
        <4>2. Owned("copilot") \in Documents \ {d}
          BY <4>1, DocumentKinds
        <4> QED BY <1>2, <1>3, <1>8, <1>10, <2>1, <3>1, <4>2 DEF Described
      <3> QED BY <1>10, <1>11, <3>1 DEF Described, Finished
    <2>8. Carried(p)'
      BY <1>10, <1>11 DEF Carried, At
    <2> QED BY <2>6, <2>7, <2>8
  <1>14. RunInv' /\ \A q \in Processes : Undisturbed(q)'
    BY <1>1, <1>2, <1>10, <1>12, <1>13, HookStep
  <1> QED BY <1>9, <1>14 DEF SetupInv

\* A document gets the edited content; if nobody disturbed the run, its other documents are as
\* it left them.
LEMMA FillKeeps ==
    ASSUME SetupInv, NEW p \in Processes, Fill(p)
    PROVE  SetupInv'
  <1>1. op[p].stage = "fill" /\ ~At(p, "idle") /\ StoreInv /\ RunInv
        /\ UNCHANGED <<venv, launchers, skill, outside, reports, launch>> /\ UNCHANGED users
    BY DEF Fill, At, outside, SetupInv
  <1>2. PICK o, T, d, edit : o = op[p] /\ T = o.req.targets /\ edit = o.edit /\ d = edit[1]
    OBVIOUS
  <1>3. /\ o \in RunRecords /\ o.req \in Requests /\ o.outcome = "none" /\ o.decl \in Declarations
        /\ o.left \in SUBSET Edits(T) /\ Sorted(o) /\ Holding(o) /\ T \in SUBSET Consumer
        /\ o.stage = "fill"
    BY <1>1, <1>2, Editing DEF Req
  <1>4. /\ (edit = LockEdit /\ o.left = {} /\ "copilot" \in T) \/ Foremost(edit, o.left)
        /\ o.buffer \in Content(d)
        /\ \A h \in users : d = Active(h) => HasForeign(o.buffer)
    BY <1>2, <1>3 DEF Holding
  <1>5. d \in Documents /\ (d = Lock <=> edit = LockEdit) /\ (d # Lock => Foremost(edit, o.left))
        /\ (d = Lock => o.left = {} /\ "copilot" \in T)
    <2>1. CASE edit = LockEdit /\ o.left = {} /\ "copilot" \in T
      BY <1>2, <2>1, DocumentKinds DEF LockEdit
    <2>2. CASE Foremost(edit, o.left)
      <3>1. d \in Documents /\ d # Lock
        BY <1>2, <1>3, <2>2, EditKinds DEF Foremost
      <3>2. edit # LockEdit
        BY <1>2, <3>1 DEF LockEdit
      <3> QED BY <2>2, <3>1, <3>2
    <2> QED BY <1>4, <2>1, <2>2
  <1>6. docs' = [docs EXCEPT ![d] = o.buffer]
    BY <1>2 DEF Fill
  <1>7. docs \in [Documents -> {None, Torn} \cup Shapes]
    BY <1>1 DEF StoreInv, Stored
  <1>8. docs'[d] = o.buffer /\ \A x \in Documents \ {d} : docs'[x] = docs[x]
    BY <1>5, <1>6, <1>7
  <1>9. StoreInv'
    <2>1. docs' \in [Documents -> {None, Torn} \cup Shapes]
      BY <1>4, <1>5, <1>6, <1>7, Shaped
    <2>2. \A x \in Documents : docs'[x] \in {None, Torn} \cup Content(x)
      BY <1>1, <1>4, <1>8 DEF StoreInv, Stored, Missing
    <2>3. \A h \in users : docs'[Active(h)] # None /\ (docs'[Active(h)] # Torn => HasForeign(docs'[Active(h)]))
      <3>1. ASSUME NEW h \in users
            PROVE  docs'[Active(h)] # None /\ (docs'[Active(h)] # Torn => HasForeign(docs'[Active(h)]))
        <4>1. Active(h) \in Documents /\ docs[Active(h)] # None
              /\ (docs[Active(h)] # Torn => HasForeign(docs[Active(h)]))
          BY <1>1, DocumentKinds DEF StoreInv, Stored, Hooked
        <4>2. o.buffer # None
          BY <1>4, <1>5, NotMissing
        <4>3. CASE Active(h) = d
          BY <1>4, <1>8, <4>2, <4>3
        <4>4. CASE Active(h) # d
          BY <1>8, <4>1, <4>4
        <4> QED BY <4>3, <4>4
      <3> QED BY <3>1
    <2>4. skill' \in {None} \cup Packages
      BY <1>1 DEF StoreInv, Stored
    <2> QED BY <1>1, <2>1, <2>2, <2>3, <2>4, DocumentsKept
  <1>10. \A x \in Documents : docs'[x] = Pending(o, x)
    BY <1>2, <1>3, <1>8 DEF Pending
  <1>11. ASSUME NEW x \in Made(o), o.alone PROVE InPlace(p, x, docs'[x[1]])
    <2>1. Agreed(p)
      BY <1>1, <1>2, <1>11 DEF SetupInv, Undisturbed
    <2>2. x[1] \in Documents
      BY <1>2, <1>3, EditKinds DEF Made
    <2>3. InPlace(p, x, Pending(o, x[1]))
      BY <1>2, <1>3, <2>1 DEF Agreed
    <2> QED BY <1>10, <2>2, <2>3
  <1>12. CASE d = Lock
    <2>1. PICK n : n = [o EXCEPT !.stage = "report", !.edit = None, !.buffer = None]
      OBVIOUS
    <2>2. op' = [op EXCEPT ![p] = n] /\ op'[p] = n
      BY <1>1, <1>2, <1>12, <2>1 DEF Fill, RunInv
    <2>3. /\ n \in RunRecords /\ n.stage = "report" /\ n.left = o.left /\ n.req = o.req /\ n.decl = o.decl
          /\ n.ready = o.ready /\ n.binding = o.binding /\ n.alone = o.alone /\ n.outcome = "none"
      BY <1>3, <2>1 DEF RunRecords, Stages
    <2>4. Holding(n)
      BY <1>3, <2>3 DEF Holding
    <2>5. ASSUME n.alone PROVE Agreed(p)' /\ Carried(p)' /\ Described(p)'
      <3>1. Described(p)
        BY <1>1, <1>2, <2>3, <2>5 DEF SetupInv, Undisturbed
      <3>2. Made(n) = Made(o)
        BY <1>3, <1>5, <1>12, <2>3 DEF Made
      <3>3. \A x : Pending(n, x)' = docs'[x]
        BY <2>3 DEF Pending
      <3>4. \A x, some : InPlace(p, x, some)' <=> InPlace(p, x, some)
        BY <1>2, <2>2, <2>3, SameCommands
      <3>5. Agreed(p)'
        BY <1>11, <2>2, <2>3, <2>5, <3>2, <3>3, <3>4 DEF Agreed
      <3>6. docs'[Lock].hash = docs'[Owned("copilot")]
        <4>1. "copilot" \in Consumer /\ edit = LockEdit
          BY <1>3, <1>5, <1>12
        <4>2. Owned("copilot") \in Documents \ {d}
          BY <1>12, <4>1, DocumentKinds
        <4> QED BY <1>2, <1>3, <1>8, <1>12, <3>1, <4>1, <4>2 DEF Described
      <3>7. Described(p)' /\ Carried(p)'
        BY <2>2, <2>3, <3>6 DEF Described, Carried, At
      <3> QED BY <3>5, <3>7
    <2>6. RunInv' /\ \A q \in Processes : Undisturbed(q)'
      BY <1>1, <1>2, <2>2, <2>3, <2>4, <2>5, HookStep
    <2> QED BY <1>9, <2>6 DEF SetupInv
  <1>13. CASE d # Lock
    <2>1. op' = [op EXCEPT ![p] = NextEdit(o, edit, o.buffer)]
      BY <1>1, <1>2, <1>13 DEF Fill, RunInv
    <2>2. PICK n \in RunRecords :
            /\ n = NextEdit(o, edit, o.buffer) /\ Holding(n)
            /\ n.stage = "edit" /\ n.left = o.left \ {edit} /\ n.req = o.req /\ n.decl = o.decl
            /\ n.ready = o.ready /\ n.binding = o.binding /\ n.alone = o.alone /\ n.outcome = "none"
            /\ \A h \in Sided : Halfway(n, h) => edit[1] = Owned(h) /\ n.buffer = o.buffer
      <3>1. o.buffer \in Content(edit[1]) /\ Foremost(edit, o.left) /\ o.left \in SUBSET Edits(o.req.targets)
        BY <1>2, <1>3, <1>4, <1>5, <1>13
      <3> QED BY <1>3, <3>1, NextEdited
    <2>3. op' = [op EXCEPT ![p] = n] /\ op'[p] = n
      BY <1>1, <2>1, <2>2 DEF RunInv
    <2>4. ASSUME n.alone PROVE Agreed(p)' /\ Carried(p)' /\ Described(p)'
      <3>1. \A x \in Made(n) : x \in Made(o)
        BY <1>2, <1>3, <2>2 DEF Made
      <3>2. \A x : Pending(n, x)' = docs'[x]
        BY <2>2 DEF Pending
      <3>3. \A x, some : InPlace(p, x, some)' <=> InPlace(p, x, some)
        BY <1>2, <2>2, <2>3, SameCommands
      <3>4. Agreed(p)'
        BY <1>11, <2>2, <2>3, <2>4, <3>1, <3>2, <3>3 DEF Agreed
      <3>5. Carried(p)'
        BY <1>2, <1>8, <2>2, <2>3 DEF Carried, Halfway
      <3>6. Described(p)'
        BY <2>2, <2>3 DEF Described, Finished
      <3> QED BY <3>4, <3>5, <3>6
    <2>5. RunInv' /\ \A q \in Processes : Undisturbed(q)'
      BY <1>1, <1>2, <2>2, <2>3, <2>4, HookStep
    <2> QED BY <1>9, <2>5 DEF SetupInv
  <1> QED BY <1>12, <1>13

\* The verification begins when no edit is left: an undisturbed run has edited every document
\* by then.
LEMMA BeginVerifyKeeps ==
    ASSUME SetupInv, NEW p \in Processes, BeginVerify(p)
    PROVE  SetupInv'
  <1>1. op[p].stage = "edit" /\ op[p].left = {} /\ ~At(p, "idle") /\ StoreInv /\ RunInv
        /\ UNCHANGED <<venv, launchers, docs, skill, outside, reports, launch>> /\ UNCHANGED <<docs, users>>
    BY DEF BeginVerify, At, outside, files, SetupInv
  <1>2. StoreInv'
    BY <1>1, StoreKept DEF StoreInv, Stored
  <1>3. CASE Missing(Lock) \/ docs[Package] = None
    <2>1. End(p, "refused") /\ Explained(p)
      BY <1>3 DEF BeginVerify, Explained, Missing
    <2>2. RunInv' /\ \A q \in Processes : Undisturbed(q)'
      BY <1>1, <2>1, Ending
    <2> QED BY <1>2, <2>2 DEF SetupInv
  <1>4. CASE ~(Missing(Lock) \/ docs[Package] = None)
    <2>1. PICK o, T, all : o = op[p] /\ T = o.req.targets /\ all = UNION {HarnessDocs(h) : h \in T}
      OBVIOUS
    <2>2. /\ o \in RunRecords /\ o.req \in Requests /\ o.outcome = "none" /\ T \in SUBSET Consumer
          /\ o.decl \in Declarations /\ o.stage = "edit"
      BY <1>1, <2>1, Editing DEF Req
    <2>3. PICK n : n = [o EXCEPT !.stage = "verify", !.left = all]
      OBVIOUS
    <2>4. op' = [op EXCEPT ![p] = n] /\ op'[p] = n
      BY <1>1, <1>4, <2>1, <2>3 DEF BeginVerify, RunInv, Req
    <2>5. all \in SUBSET AllEdits
      BY <2>1, <2>2, EditsAll
    <2>6. /\ n \in RunRecords /\ n.stage = "verify" /\ n.left = all /\ n.req = o.req /\ n.decl = o.decl
          /\ n.ready = o.ready /\ n.binding = o.binding /\ n.alone = o.alone /\ n.outcome = "none"
      BY <2>2, <2>3, <2>5 DEF RunRecords, Stages
    <2>7. Holding(n)
      BY <2>1, <2>2, <2>6 DEF Holding
    <2>8. ASSUME n.alone PROVE Agreed(p)' /\ Carried(p)' /\ Described(p)'
      <3>1. Agreed(p)
        BY <1>1, <2>1, <2>6, <2>8 DEF SetupInv, Undisturbed
      <3>2. Made(n) = Made(o)
        BY <1>1, <2>1, <2>2, <2>6 DEF Made
      <3>3. \A x : Pending(n, x)' = docs[x] /\ Pending(o, x) = docs[x]
        BY <1>1, <2>2, <2>6 DEF Pending
      <3>4. \A x, some : InPlace(p, x, some)' <=> InPlace(p, x, some)
        BY <2>1, <2>4, <2>6, SameCommands
      <3>5. \A x \in Made(o) : InPlace(p, x, docs[x[1]])
        BY <2>1, <2>2, <3>1, <3>3 DEF Agreed
      <3>6. Agreed(p)'
        BY <2>4, <3>2, <3>3, <3>4, <3>5 DEF Agreed
      <3>7. Carried(p)' /\ Described(p)'
        BY <2>4, <2>6 DEF Carried, Described, Finished, At
      <3> QED BY <3>6, <3>7
    <2>9. RunInv' /\ \A q \in Processes : Undisturbed(q)'
      BY <1>1, <2>1, <2>4, <2>6, <2>7, <2>8, HookStep
    <2> QED BY <1>2, <2>9 DEF SetupInv
  <1> QED BY <1>3, <1>4

\* Once every edit of a run that is alone is made, each document is as the run
\* verifies it.
LEMMA MadeHolds ==
    ASSUME NEW p \in Processes, op[p] \in RunRecords, Req(p) \in Requests, op[p].decl \in Declarations,
           \A x \in Edits(Req(p).targets) : InPlace(p, x, docs[x[1]]),
           NEW h \in Req(p).targets
    PROVE  /\ Holds(p, Owned(h)) /\ ~Missing(Owned(h))
           /\ \A e \in Events : docs[Owned(h)][e] = Command(p, h, e)
           /\ h \in Sided => /\ Holds(p, Active(h))
                             /\ docs[Active(h)] # None => \A e \in Events :
                                    OnlyEntry(docs[Active(h)][e], Command(p, h, e), Req(p).venv)
  <1> DEFINE T == Req(p).targets
             v == Req(p).venv
  <1>1. T \in SUBSET Consumer /\ v \in Venvs /\ h \in T
    BY Requested
  <1>2. Owned(h) \in Documents /\ Owned(h) # Package /\ Owned(h) \notin ActiveDocs /\ Owned(h)[1] = h
        /\ Content(Owned(h)) = [Events -> Bindings]
    BY <1>1, DocumentKinds, Contents
  <1>3. docs[Owned(h)] \in Content(Owned(h)) /\ \A e \in Events : docs[Owned(h)][e] = Command(p, h, e)
    <2>1. CASE h \notin Sided
      <3>1. PICK x : x = <<Owned(h), "all">>
        OBVIOUS
      <3>2. x \in Edits(T) /\ x[1] = Owned(h)
        BY <1>1, <2>1, <3>1, EditsOf
      <3>3. InPlace(p, x, docs[Owned(h)])
        BY <3>2
      <3>4. x[1] # Package /\ x[1] \notin ActiveDocs /\ x[1] \notin Registrations /\ x[1][1] = h
        BY <1>1, <1>2, <2>1, <3>2, DocumentKinds
      <3> QED BY <3>2, <3>3, <3>4 DEF InPlace, Applied
    <2>2. CASE h \in Sided
      <3>1. ASSUME NEW e \in Events
            PROVE  docs[Owned(h)] \in Content(Owned(h)) /\ docs[Owned(h)][e] = Command(p, h, e)
        <4>1. PICK x : x = <<Owned(h), e>>
          OBVIOUS
        <4>2. x \in Edits(T) /\ x[1] = Owned(h) /\ x[2] = e
          BY <1>1, <2>2, <4>1, EditsOf
        <4>3. InPlace(p, x, docs[Owned(h)])
          BY <4>2
        <4>4. x[1] # Package /\ x[1] \notin ActiveDocs /\ x[1] \in Registrations /\ x[1][1] = h
          BY <1>1, <1>2, <2>2, <4>2, DocumentKinds
        <4> QED BY <4>2, <4>3, <4>4 DEF InPlace, Applied
      <3>2. "SessionStart" \in Events
        BY DEF Events
      <3> QED BY <3>1, <3>2
    <2> QED BY <2>1, <2>2
  <1>4. ~Missing(Owned(h)) /\ Holds(p, Owned(h))
    <2>1. ~Missing(Owned(h))
      BY <1>2, <1>3, NotMissing DEF Missing
    <2>2. PICK d : d = Owned(h)
      OBVIOUS
    <2>3. d \notin ActiveDocs /\ ~Missing(d) /\ \A e \in Events : docs[d][e] = Command(p, d[1], e)
      BY <1>2, <1>3, <2>1, <2>2
    <2> QED BY <2>1, <2>2, <2>3 DEF Holds
  <1>5. ASSUME h \in Sided
        PROVE  /\ Holds(p, Active(h))
               /\ docs[Active(h)] # None => \A e \in Events :
                      OnlyEntry(docs[Active(h)][e], Command(p, h, e), v)
    <2>1. PICK d : d = Active(h)
      OBVIOUS
    <2>2. d \in ActiveDocs /\ d # Package /\ d[1] = h /\ d \in Documents /\ d \notin Registrations
      BY <1>5, <2>1, DocumentKinds
    <2>3. ASSUME docs[d] # None, NEW e \in Events
          PROVE  docs[d] \in Content(d) /\ OnlyEntry(docs[d][e], Command(p, h, e), v)
      <3>1. PICK x : x = <<Active(h), e>>
        OBVIOUS
      <3>2. x \in Edits(T) /\ x[1] = d /\ x[2] = e
        BY <1>1, <1>5, <2>1, <3>1, EditsOf
      <3>3. InPlace(p, x, docs[d])
        BY <3>2
      <3> QED BY <2>2, <2>3, <3>2, <3>3 DEF InPlace, Applied
    <2>4. ASSUME docs[d] # None, NEW e \in Events
          PROVE  Cardinality({i \in DOMAIN docs[d][e] : docs[d][e][i] = Command(p, d[1], e)}) = 1
      <3>1. PICK s, c : s = docs[d][e] /\ c = Command(p, h, e)
        OBVIOUS
      <3>2. OnlyEntry(s, c, v) /\ Recognised(c, v)
        BY <2>3, <2>4, <3>1, CommandOwn
      <3>3. PICK k \in DOMAIN s : s[k] = c /\ \A j \in DOMAIN s : Recognised(s[j], v) <=> j = k
        BY <3>2 DEF OnlyEntry
      <3>4. {i \in DOMAIN s : s[i] = c} = {k}
        BY <3>2, <3>3
      <3> QED BY <2>2, <3>1, <3>4, FS_Singleton
    <2>5. docs[d] # None => docs[d] # Torn
      <3>1. "SessionStart" \in Events
        BY DEF Events
      <3> QED BY <2>2, <2>3, <3>1, NotMissing
    <2>6. Holds(p, d)
      BY <2>2, <2>4, <2>5 DEF Holds
    <2> QED BY <2>1, <2>3, <2>6
  <1> QED BY <1>3, <1>4, <1>5

\* A document that was edited and not touched since is as it should be.
LEMMA VerifyDocumentKeeps ==
    ASSUME SetupInv, NEW p \in Processes, NEW edit, VerifyDocument(p, edit)
    PROVE  SetupInv'
  <1>1. op[p].stage = "verify" /\ ~At(p, "idle") /\ StoreInv /\ RunInv /\ Foremost(edit, op[p].left)
        /\ UNCHANGED <<venv, launchers, docs, skill, outside, reports, launch>> /\ UNCHANGED <<docs, users>>
    BY DEF VerifyDocument, At, outside, files, SetupInv
  <1>2. StoreInv'
    BY <1>1, StoreKept DEF StoreInv, Stored
  <1>3. PICK o, T : o = op[p] /\ T = o.req.targets
    OBVIOUS
  <1>4. /\ o \in RunRecords /\ o.req \in Requests /\ o.outcome = "none" /\ o.decl \in Declarations
        /\ Holding(o) /\ T \in SUBSET Consumer /\ o.stage = "verify"
        /\ o.left \subseteq UNION {HarnessDocs(h) : h \in T} /\ edit \in o.left
    BY <1>1, <1>3, Running DEF Req, Holding, Resolved, Foremost
  <1>5. Made(o) = Edits(T) /\ \A x : Pending(o, x) = docs[x]
    BY <1>3, <1>4 DEF Made, Pending
  <1>6. ASSUME o.alone PROVE \A x \in Edits(T) : InPlace(p, x, docs[x[1]])
    <2>1. Agreed(p)
      BY <1>1, <1>3, <1>6 DEF SetupInv, Undisturbed
    <2> QED BY <1>3, <1>4, <1>5, <2>1 DEF Agreed
  <1>7. CASE ~Holds(p, edit[1])
    <2>1. End(p, "refused")
      BY <1>7 DEF VerifyDocument
    <2>2. ~o.alone
      <3>1. PICK h \in T : edit = <<Owned(h), "all">> \/ (h \in Sided /\ edit = <<Active(h), "all">>)
        BY <1>4, EditsAll
      <3>2. edit[1] = Owned(h) \/ (h \in Sided /\ edit[1] = Active(h))
        BY <3>1
      <3>3. ASSUME o.alone PROVE Holds(p, edit[1])
        <4>1. \A x \in Edits(Req(p).targets) : InPlace(p, x, docs[x[1]])
          BY <1>3, <1>6, <3>3 DEF Req
        <4>2. op[p] \in RunRecords /\ Req(p) \in Requests /\ op[p].decl \in Declarations /\ h \in Req(p).targets
          BY <1>3, <1>4 DEF Req
        <4>3. Holds(p, Owned(h)) /\ (h \in Sided => Holds(p, Active(h)))
          BY <4>1, <4>2, MadeHolds
        <4> QED BY <3>2, <4>3
      <3> QED BY <1>7, <3>3
    <2>3. RunInv' /\ \A q \in Processes : Undisturbed(q)'
      BY <1>1, <1>3, <2>1, <2>2, Ending
    <2> QED BY <1>2, <2>3 DEF SetupInv
  <1>8. CASE Holds(p, edit[1])
    <2>1. PICK stage : stage = (IF o.left # {edit} THEN "verify"
                                ELSE IF "copilot" \in T THEN "lock" ELSE "report")
      OBVIOUS
    <2>2. PICK n : n = [o EXCEPT !.left = o.left \ {edit}, !.stage = stage]
      OBVIOUS
    <2>3. op' = [op EXCEPT ![p] = n] /\ op'[p] = n
      BY <1>1, <1>3, <1>8, <2>1, <2>2 DEF VerifyDocument, RunInv, Req
    <2>4. stage \in {"verify", "lock", "report"}
      BY <2>1
    <2>5. /\ n \in RunRecords /\ n.stage = stage /\ n.left = o.left \ {edit} /\ n.req = o.req /\ n.decl = o.decl
          /\ n.ready = o.ready /\ n.binding = o.binding /\ n.alone = o.alone /\ n.outcome = "none"
      BY <1>4, <2>2, <2>4 DEF RunRecords, Stages
    <2>6. Holding(n)
      <3>1. stage = "lock" => n.left = {} /\ "copilot" \in T
        BY <2>1, <2>5
      <3> QED BY <1>3, <1>4, <2>4, <2>5, <3>1 DEF Holding
    <2>7. ASSUME n.alone PROVE Agreed(p)' /\ Carried(p)' /\ Described(p)'
      <3>1. \A x \in Edits(T) : InPlace(p, x, docs[x[1]])
        BY <1>6, <2>5, <2>7
      <3>2. Made(n) = Edits(T)
        BY <1>3, <2>4, <2>5 DEF Made
      <3>3. \A x : Pending(n, x)' = docs[x]
        BY <1>1, <2>4, <2>5 DEF Pending
      <3>4. \A x, some : InPlace(p, x, some)' <=> InPlace(p, x, some)
        BY <1>3, <2>3, <2>5, SameCommands
      <3>5. Agreed(p)'
        BY <2>3, <3>1, <3>2, <3>3, <3>4 DEF Agreed
      <3>6. Carried(p)'
        BY <2>3, <2>4, <2>5 DEF Carried, At
      <3>7. Described(p)'
        <4>1. "copilot" \in n.req.targets => n.stage # "report"
          BY <1>3, <2>1, <2>5
        <4> QED BY <2>3, <2>4, <2>5, <4>1 DEF Described, Finished, Req
      <3> QED BY <3>5, <3>6, <3>7
    <2>8. RunInv' /\ \A q \in Processes : Undisturbed(q)'
      BY <1>1, <1>3, <2>3, <2>4, <2>5, <2>6, <2>7, HookStep
    <2> QED BY <1>2, <2>8 DEF SetupInv
  <1> QED BY <1>7, <1>8

\* The lock gets the digest of the hook file as it is after its last edit.
LEMMA ReconcileLockKeeps ==
    ASSUME SetupInv, NEW p \in Processes, ReconcileLock(p)
    PROVE  SetupInv'
  <1>1. op[p].stage = "lock" /\ ~At(p, "idle") /\ StoreInv /\ RunInv
        /\ UNCHANGED <<venv, launchers, docs, skill, outside, reports, launch>> /\ UNCHANGED <<docs, users>>
    BY DEF ReconcileLock, At, outside, files, SetupInv
  <1>2. StoreInv'
    BY <1>1, StoreKept DEF StoreInv, Stored
  <1>3. PICK o, T, hook : o = op[p] /\ T = o.req.targets /\ hook = docs[Owned("copilot")]
    OBVIOUS
  <1>4. /\ o \in RunRecords /\ o.req \in Requests /\ o.outcome = "none" /\ o.decl \in Declarations
        /\ Holding(o) /\ T \in SUBSET Consumer /\ o.stage = "lock" /\ T = Req(p).targets
        /\ o.left = {} /\ "copilot" \in T
    BY <1>1, <1>3, Running DEF Req, Holding, Resolved
  <1>5. Made(o) = Edits(T) /\ \A x : Pending(o, x) = docs[x]
    BY <1>3, <1>4 DEF Made, Pending
  <1>6. ASSUME o.alone PROVE \A x \in Edits(T) : InPlace(p, x, docs[x[1]])
    <2>1. Agreed(p)
      BY <1>1, <1>3, <1>6 DEF SetupInv, Undisturbed
    <2> QED BY <1>3, <1>4, <1>5, <2>1 DEF Agreed
  <1>7. CASE End(p, "refused") /\ (Missing(Lock) \/ hook = None \/ "copilot" \notin LockTargets)
    <2>1. Explained(p)
      BY <1>3, <1>4, <1>7 DEF Explained, Missing
    <2>2. RunInv' /\ \A q \in Processes : Undisturbed(q)'
      BY <1>1, <1>7, <2>1, Ending
    <2> QED BY <1>2, <2>2 DEF SetupInv
  <1>8. CASE ~(Missing(Lock) \/ hook = None \/ "copilot" \notin LockTargets) /\ docs[Lock].hash = hook
    <2>1. Goto(p, "report")
      BY <1>3, <1>8 DEF ReconcileLock
    <2>2. PICK n \in RunRecords :
              /\ op' = [op EXCEPT ![p] = n] /\ n.stage = "report" /\ n.req = o.req /\ n.decl = o.decl
              /\ n.ready = o.ready /\ n.binding = o.binding /\ n.left = o.left
              /\ n.alone = o.alone /\ n.outcome = "none"
      BY <1>1, <1>3, <1>4, <2>1, Moved DEF Stages
    <2>3. op'[p] = n
      BY <1>1, <2>2 DEF RunInv
    <2>4. Holding(n)
      BY <1>4, <2>2 DEF Holding
    <2>5. ASSUME n.alone PROVE Agreed(p)' /\ Carried(p)' /\ Described(p)'
      <3>1. \A x \in Edits(T) : InPlace(p, x, docs[x[1]])
        BY <1>6, <2>2, <2>5
      <3>2. Made(n) = Edits(T)
        BY <1>3, <2>2 DEF Made
      <3>3. \A x : Pending(n, x)' = docs[x]
        BY <1>1, <2>2 DEF Pending
      <3>4. \A x, some : InPlace(p, x, some)' <=> InPlace(p, x, some)
        BY <1>3, <2>2, <2>3, SameCommands
      <3>5. Agreed(p)'
        BY <2>3, <3>1, <3>2, <3>3, <3>4 DEF Agreed
      <3>6. Carried(p)' /\ Described(p)'
        BY <1>1, <1>3, <1>8, <2>2, <2>3 DEF Carried, Described, At
      <3> QED BY <3>5, <3>6
    <2>6. RunInv' /\ \A q \in Processes : Undisturbed(q)'
      BY <1>1, <1>3, <2>2, <2>4, <2>5, HookStep
    <2> QED BY <1>2, <2>6 DEF SetupInv
  <1>9. CASE ~(Missing(Lock) \/ hook = None \/ "copilot" \notin LockTargets) /\ docs[Lock].hash # hook
    <2>1. "copilot" \in Consumer /\ Lock \in Documents /\ Owned("copilot") \in Documents
      BY <1>4, DocumentKinds
    <2>2. docs[Lock] \in [targets: SUBSET Consumer, hash: {None, Torn} \cup [Events -> Bindings]]
      BY <1>1, <1>9, <2>1, Contents DEF StoreInv, Stored
    <2>3. hook \in {None, Torn} \cup [Events -> Bindings]
      BY <1>1, <1>3, <2>1, Contents DEF StoreInv, Stored, Missing
    <2>4. PICK lock : lock = docs[Lock]
      OBVIOUS
    <2>5. PICK after : after = [lock EXCEPT !.hash = hook]
      OBVIOUS
    <2>6. after \in [targets: SUBSET Consumer, hash: {None, Torn} \cup [Events -> Bindings]] /\ after.hash = hook
      BY <2>2, <2>3, <2>4, <2>5
    <2>7. after \in Content(Lock) /\ after \in Shapes /\ LockEdit \in AllEdits /\ LockEdit[1] = Lock
      BY <2>1, <2>6, Contents, Shaped DEF LockEdit, AllEdits
    <2>8. op' = [op EXCEPT ![p].stage = "truncate", ![p].edit = LockEdit, ![p].buffer = after]
      BY <1>3, <1>9, <2>4, <2>5 DEF ReconcileLock, LockEdit
    <2>9. PICK n : n = [o EXCEPT !.stage = "truncate", !.edit = LockEdit, !.buffer = after]
      OBVIOUS
    <2>10. op' = [op EXCEPT ![p] = n] /\ op'[p] = n
      BY <1>1, <1>3, <2>8, <2>9 DEF RunInv
    <2>11. /\ n \in RunRecords /\ n.stage = "truncate" /\ n.edit = LockEdit /\ n.buffer = after
           /\ n.left = {} /\ n.req = o.req /\ n.decl = o.decl /\ n.ready = o.ready /\ n.binding = o.binding
           /\ n.alone = o.alone /\ n.outcome = "none"
      BY <1>4, <2>7, <2>9 DEF RunRecords, Stages
    <2>12. \A h \in users : Lock # Active(h)
      BY <1>1, DocumentKinds DEF StoreInv, Stored
    <2>13. Holding(n)
      BY <1>3, <1>4, <2>7, <2>11, <2>12 DEF Holding, Sorted, Resolved
    <2>14. ASSUME n.alone PROVE Agreed(p)' /\ Carried(p)' /\ Described(p)'
      <3>1. \A x \in Edits(T) : InPlace(p, x, docs[x[1]]) /\ x[1] # Lock
        BY <1>4, <1>6, <2>11, <2>14, EditKinds
      <3>2. \A x \in Made(n) : x \in Edits(T)
        BY <1>3, <2>11 DEF Made
      <3>3. \A x : x # Lock => Pending(n, x)' = docs[x]
        BY <1>1, <2>7, <2>11 DEF Pending
      <3>4. \A x, some : InPlace(p, x, some)' <=> InPlace(p, x, some)
        BY <1>3, <2>10, <2>11, SameCommands
      <3>5. Agreed(p)'
        BY <2>10, <3>1, <3>2, <3>3, <3>4 DEF Agreed
      <3>6. Carried(p)' /\ Described(p)'
        BY <1>1, <1>3, <2>6, <2>10, <2>11 DEF Carried, Described, Finished, At
      <3> QED BY <3>5, <3>6
    <2>15. RunInv' /\ \A q \in Processes : Undisturbed(q)'
      BY <1>1, <1>3, <2>10, <2>11, <2>13, <2>14, HookStep
    <2> QED BY <1>2, <2>15 DEF SetupInv
  <1>10. End(p, "refused") \/ ~(Missing(Lock) \/ hook = None \/ "copilot" \notin LockTargets)
    BY <1>3 DEF ReconcileLock
  <1> QED BY <1>7, <1>8, <1>9, <1>10

\* A report that is saved names what the run has bound; a run that stops leaves everything as
\* it is.
LEMMA ReportKeeps ==
    ASSUME SetupInv, NEW p \in Processes, Report(p) \/ Stop(p)
    PROVE  SetupInv'
  <1>1. ~At(p, "idle") /\ StoreInv /\ RunInv
        /\ UNCHANGED <<venv, launchers, docs, skill, outside, launch>> /\ UNCHANGED <<docs, users>>
    BY DEF Report, Stop, At, outside, files, SetupInv
  <1>2. CASE Report(p)
    <2>1. op[p].decl \in Declarations /\ Req(p) \in Requests /\ At(p, "report")
      BY <1>1, <1>2, Running DEF Report, At, Resolved
    <2>2. Activated(p) \subseteq SavedReports
      BY <2>1, Requested DEF Activated, Saved, SavedReports
    <2>3. reports' = reports \cup Activated(p)
      BY <1>2 DEF Report
    <2>4. Stored'
      BY <1>1, <2>2, <2>3 DEF StoreInv, Stored, Missing, outside
    <2>5. Hooked' /\ NamedFor' /\ Launched'
      BY <1>1 DEF StoreInv, Hooked, NamedFor, Launched, LaunchHonest, outside
    <2>6. PICK outcome \in {"ready", "prepared"} :
             End(p, outcome) /\ (outcome = "ready" => Bound(p))
      BY <1>2 DEF Report
    <2>7. RunInv' /\ \A q \in Processes : Undisturbed(q)'
      BY <1>1, <2>1, <2>6, Ending
    <2> QED BY <2>4, <2>5, <2>7 DEF SetupInv, StoreInv
  <1>3. CASE Stop(p)
    <2>1. reports' = reports /\ End(p, "stopped")
      BY <1>3 DEF Stop
    <2>2. StoreInv'
      BY <1>1, <2>1, StoreKept DEF StoreInv, Stored
    <2>3. RunInv' /\ \A q \in Processes : Undisturbed(q)'
      BY <1>1, <2>1, Ending
    <2> QED BY <2>2, <2>3 DEF SetupInv
  <1> QED BY <1>2, <1>3

-----------------------------------------------------------------------------
(* The start of a run, the users and the launches. *)

\* A run begins alone only if no other is in progress, and disturbs those that are.
LEMMA BeginKeeps ==
    ASSUME SetupInv, NEW p \in Processes, NEW req \in Requests, Begin(p, req)
    PROVE  SetupInv'
  <1>1. At(p, "idle") /\ StoreInv /\ RunInv
        /\ UNCHANGED <<venv, launchers, docs, skill, outside, reports, launch>> /\ UNCHANGED <<docs, users>>
    BY DEF Begin, outside, files, SetupInv
  <1>2. StoreInv'
    BY <1>1, StoreKept DEF StoreInv, Stored
  <1>3. PICK others : others = Disturbed(op)
    OBVIOUS
  <1>4. PICK alone \in BOOLEAN : alone = \A q \in Processes : At(q, "idle")
    OBVIOUS
  <1>5. PICK begun : begun = [Idle EXCEPT !.req = req, !.alone = alone]
    OBVIOUS
  <1>6. PICK refused : op' = [Disturbed(op) EXCEPT ![p] =
              IF refused THEN [begun EXCEPT !.outcome = "refused"]
              ELSE [begun EXCEPT !.stage = IF req.existing THEN "verify-venv" ELSE "venv"]]
    BY <1>4, <1>5 DEF Begin
  <1>7. PICK n : n = IF refused THEN [begun EXCEPT !.outcome = "refused"]
                     ELSE [begun EXCEPT !.stage = IF req.existing THEN "verify-venv" ELSE "venv"]
    OBVIOUS
  <1>8. op' = [others EXCEPT ![p] = n]
    BY <1>3, <1>6, <1>7
  <1>9. /\ n \in RunRecords /\ n.req = req /\ n.alone = alone /\ n.left = {} /\ n.edit = None /\ n.at = "idle"
        /\ \/ n.stage = "idle" /\ n.outcome = "refused"
           \/ n.stage \in {"venv", "verify-venv"} /\ n.outcome = "none"
    BY <1>5, <1>7 DEF Idle, RunRecords, Stages
  <1>10. \A q \in Processes : others[q] = IF op[q].stage = "idle" THEN Idle ELSE [op[q] EXCEPT !.alone = FALSE]
    BY <1>3 DEF Disturbed
  <1>11. ASSUME NEW q \in Processes
         PROVE  others[q] \in RunRecords /\ ~others[q].alone /\ Holding(others[q]) /\ (alone => others[q] = Idle)
    <2>1. op[q] \in RunRecords /\ Holding(op[q])
      BY <1>1 DEF RunInv
    <2>2. CASE op[q].stage = "idle"
      BY <1>10, <2>2, IdleHolds
    <2>3. CASE op[q].stage # "idle"
      <3>1. PICK o, m : o = op[q] /\ m = [o EXCEPT !.alone = FALSE]
        OBVIOUS
      <3>2. /\ m \in RunRecords /\ ~m.alone /\ m.stage = o.stage /\ m.req = o.req /\ m.decl = o.decl
            /\ m.left = o.left /\ m.edit = o.edit /\ m.buffer = o.buffer /\ m.outcome = o.outcome
        BY <2>1, <3>1 DEF RunRecords
      <3>3. Holding(m)
        BY <2>1, <3>1, <3>2 DEF Holding, Sorted, Halfway
      <3> QED BY <1>4, <1>10, <2>3, <3>1, <3>2, <3>3 DEF At
    <2> QED BY <2>2, <2>3
  <1>12. others = [q \in Processes |-> IF op[q].stage = "idle" THEN Idle ELSE [op[q] EXCEPT !.alone = FALSE]]
    BY <1>3 DEF Disturbed
  <1>13. /\ op' \in [Processes -> RunRecords] /\ op'[p] = n
         /\ \A q \in Processes \ {p} : op'[q] = others[q]
    <2>1. others \in [Processes -> RunRecords]
      BY <1>11, <1>12
    <2> QED BY <1>8, <1>9, <2>1
  <1>14. Holding(n)
    BY <1>9 DEF Holding, Resolved
  <1>15. RunInv'
    <2>1. Alone'
      BY <1>9, <1>11, <1>13 DEF Alone
    <2>2. ASSUME NEW q \in Processes PROVE Holding(op[q])'
      <3>1. Holding(op'[q])
        BY <1>11, <1>13, <1>14
      <3>2. PICK o : o = op'[q]
        OBVIOUS
      <3>3. Holding(o)'
        BY <1>1, <3>1, <3>2 DEF Holding
      <3> QED BY <3>2, <3>3
    <2> QED BY <1>13, <2>1, <2>2 DEF RunInv
  <1>16. ASSUME NEW q \in Processes \ {p} PROVE Undisturbed(q)'
    BY <1>11, <1>13 DEF Undisturbed
  <1>17. Undisturbed(p)'
    <2>1. Agreed(p)' /\ Carried(p)' /\ Described(p)' /\ Justified(p)'
      BY <1>9, <1>13 DEF Agreed, Carried, Described, Justified, Finished, At, Hooking
    <2> QED BY <2>1 DEF Undisturbed
  <1> QED BY <1>2, <1>15, <1>16, <1>17 DEF SetupInv

\* Edits of the registry and of credentials disturb the runs in progress and touch no document.
LEMMA RegistryKeeps ==
    ASSUME SetupInv,
           \/ \E q \in Profiles, decl \in Declarations : EditRegistry(q, decl)
           \/ \E what \in {"credentials", "compounding"} : ChangeReadiness(what)
    PROVE  SetupInv'
  <1>1. /\ op' = Disturbed(op) /\ UNCHANGED users /\ StoreInv /\ RunInv
        /\ UNCHANGED <<venv, launchers, docs, skill, reports, launch>>
    BY DEF EditRegistry, ChangeReadiness, ByUser, files, SetupInv
  <1>2. registry' \in [Profiles -> Declarations] /\ able' \in [{"credentials", "compounding"} -> BOOLEAN]
    <2>1. registry \in [Profiles -> Declarations] /\ able \in [{"credentials", "compounding"} -> BOOLEAN]
      BY <1>1 DEF StoreInv, Stored
    <2>2. CASE \E q \in Profiles, decl \in Declarations : EditRegistry(q, decl)
      BY <2>1, <2>2 DEF EditRegistry
    <2>3. CASE \E what \in {"credentials", "compounding"} : ChangeReadiness(what)
      BY <2>1, <2>3 DEF ChangeReadiness
    <2> QED BY <2>2, <2>3
  <1>3. Stored'
    BY <1>1, <1>2 DEF StoreInv, Stored, Missing
  <1>4. Hooked' /\ NamedFor' /\ Launched'
    BY <1>1 DEF StoreInv, Hooked, NamedFor, Launched, LaunchHonest
  <1>5. RunInv' /\ \A q \in Processes : Undisturbed(q)'
    BY <1>1, OutsideStep
  <1> QED BY <1>3, <1>4, <1>5 DEF SetupInv, StoreInv

\* apm install by the owner of the repository: like that of a run, and every run is disturbed.
LEMMA OwnerKeeps ==
    ASSUME SetupInv, NEW how, NEW version \in Packages, InstallByOwner(Consumer, how, version)
    PROVE  SetupInv'
  <1>1. /\ op' = Disturbed(op) /\ UNCHANGED users /\ StoreInv /\ RunInv /\ ~ApmFails(Consumer)
        /\ UNCHANGED <<venv, launchers, outside, reports, launch>>
        /\ docs' = Installed(Consumer, how) /\ skill' = version
    BY DEF InstallByOwner, ByUser, outside, SetupInv
  <1>2. StoreInv'
    BY <1>1, InstalledDocuments, DocumentsKept DEF StoreInv
  <1>3. RunInv' /\ \A q \in Processes : Undisturbed(q)'
    BY <1>1, OutsideStep
  <1> QED BY <1>2, <1>3 DEF SetupInv

\* A user repairs an active document that was cut off with the hooks that he had.
LEMMA RestoreActiveKeeps ==
    ASSUME SetupInv, NEW h \in Sided, RestoreActive(h)
    PROVE  SetupInv'
  <1>1. /\ op' = Disturbed(op) /\ UNCHANGED users /\ StoreInv /\ RunInv
        /\ UNCHANGED <<venv, launchers, outside, reports, launch>> /\ skill' = skill
    BY DEF RestoreActive, ByUser, outside, SetupInv
  <1>2. PICK content : content = IF h \in users THEN UsersOwn ELSE None
    OBVIOUS
  <1>3. docs' = [docs EXCEPT ![Active(h)] = content]
    BY <1>2 DEF RestoreActive
  <1>4. Active(h) \in Documents /\ UsersOwn \in Content(Active(h)) /\ HasForeign(UsersOwn)
    BY DocumentKinds, Shaped
  <1>5. content \in {None, Torn} \cup Shapes /\ content \in {None, Torn} \cup Content(Active(h))
    BY <1>2, <1>4, Shaped
  <1>6. docs \in [Documents -> {None, Torn} \cup Shapes]
    BY <1>1 DEF StoreInv, Stored
  <1>7. docs'[Active(h)] = content /\ \A x \in Documents \ {Active(h)} : docs'[x] = docs[x]
    BY <1>3, <1>4, <1>6
  <1>8. docs' \in [Documents -> {None, Torn} \cup Shapes]
    BY <1>3, <1>5, <1>6
  <1>9. \A x \in Documents : docs'[x] \in {None, Torn} \cup Content(x)
    BY <1>1, <1>5, <1>7 DEF StoreInv, Stored, Missing
  <1>10. ASSUME NEW g \in users
         PROVE  docs'[Active(g)] # None /\ (docs'[Active(g)] # Torn => HasForeign(docs'[Active(g)]))
    <2>1. Active(g) \in Documents /\ docs[Active(g)] # None
          /\ (docs[Active(g)] # Torn => HasForeign(docs[Active(g)])) /\ g \in Sided
      BY <1>1, DocumentKinds DEF StoreInv, Stored, Hooked
    <2>2. CASE g = h
      BY <1>2, <1>4, <1>7, <2>2, NotMissing
    <2>3. CASE g # h
      <3>1. Active(g) # Active(h)
        BY <2>1, <2>3, DocumentKinds
      <3> QED BY <1>7, <2>1, <3>1
    <2> QED BY <2>2, <2>3
  <1>11. StoreInv'
    <2>1. skill' \in {None} \cup Packages
      BY <1>1 DEF StoreInv, Stored
    <2> QED BY <1>1, <1>8, <1>9, <1>10, <2>1, DocumentsKept
  <1>12. RunInv' /\ \A q \in Processes : Undisturbed(q)'
    BY <1>1, OutsideStep
  <1> QED BY <1>11, <1>12 DEF SetupInv

\* A user removes an unfinished environment; no document is touched.
LEMMA RemoveVenvKeeps ==
    ASSUME SetupInv, NEW v \in Venvs, RemoveVenv(v)
    PROVE  SetupInv'
  <1>1. /\ op' = Disturbed(op) /\ UNCHANGED users /\ StoreInv /\ RunInv
        /\ UNCHANGED <<launchers, docs, skill, outside, reports, launch>>
    BY DEF RemoveVenv, ByUser, outside, SetupInv
  <1>2. venv' = [venv EXCEPT ![v] = "absent"]
    BY DEF RemoveVenv
  <1>3. StoreInv'
    BY <1>1, <1>2, StoreKept DEF StoreInv, Stored
  <1>4. RunInv' /\ \A q \in Processes : Undisturbed(q)'
    BY <1>1, OutsideStep
  <1> QED BY <1>3, <1>4 DEF SetupInv

\* A launch compares before it starts, and what it starts loads the launcher that is
\* named for what was compared.
LEMMA LaunchKeeps ==
    ASSUME SetupInv, (\E r \in reports, h \in Consumer : Preflight(r, h)) \/ Execute
    PROVE  SetupInv'
  <1>1. StoreInv /\ RunInv /\ (\A p \in Processes : Undisturbed(p))
        /\ UNCHANGED <<files, outside, op, reports>> /\ op' = op /\ docs' = docs /\ users' = users
    BY DEF Preflight, Execute, files, outside, SetupInv
  <1>2. Stored' /\ Hooked' /\ NamedFor'
    BY <1>1 DEF StoreInv, Stored, Hooked, NamedFor, Missing, files, outside
  <1>3. Launched'
    <2>1. CASE \E r \in reports, h \in Consumer : Preflight(r, h)
      <3>1. PICK r \in reports, h \in Consumer : Preflight(r, h)
        BY <2>1
      <3>2. r \in SavedReports
        BY <1>1 DEF StoreInv, Stored
      <3> QED BY <3>1, <3>2 DEF Preflight, Launched, LaunchHonest
    <2>2. CASE Execute
      <3>1. PICK l, r : l = launch /\ r = l.report
        OBVIOUS
      <3>2. /\ l \in [stage: {"idle", "checked", "running"}, report: SavedReports \cup {None},
                      provider: Consumer \cup {None}, loaded: Declarations \cup {None}]
            /\ l.stage = "checked" /\ r \in SavedReports
        BY <1>1, <2>2, <3>1 DEF Execute, StoreInv, Launched
      <3>3. CASE r.portable
        <4>1. PICK decl : decl = registry[r.profile]
          OBVIOUS
        <4>2. decl \in Declarations
          BY <1>1, <3>2, <4>1 DEF StoreInv, Stored, SavedReports
        <4>3. launch' = [l EXCEPT !.stage = "running", !.loaded = decl]
          BY <2>2, <3>1, <3>3, <4>1 DEF Execute
        <4>4. launch' \in [stage: {"idle", "checked", "running"}, report: SavedReports \cup {None},
                           provider: Consumer \cup {None}, loaded: Declarations \cup {None}]
              /\ launch'.stage = "running" /\ launch'.report = r
          BY <3>1, <3>2, <4>2, <4>3
        <4> QED BY <3>3, <4>4 DEF Launched, LaunchHonest
      <3>4. CASE ~r.portable /\ LauncherName(r.profile, r.decl) \in DOMAIN launchers[r.venv]
        <4>1. PICK decl : decl = launchers[r.venv][LauncherName(r.profile, r.decl)]
          OBVIOUS
        <4>2. r.venv \in Venvs /\ r.decl \in Declarations
          BY <3>2 DEF SavedReports
        <4>3. decl = r.decl
          BY <1>1, <3>4, <4>1, <4>2 DEF StoreInv, NamedFor, LauncherName
        <4>4. launch' = [l EXCEPT !.stage = "running", !.loaded = decl]
          BY <2>2, <3>1, <3>4, <4>1 DEF Execute
        <4>5. launch' \in [stage: {"idle", "checked", "running"}, report: SavedReports \cup {None},
                           provider: Consumer \cup {None}, loaded: Declarations \cup {None}]
              /\ launch'.stage = "running" /\ launch'.report = r /\ launch'.loaded = r.decl
          BY <3>1, <3>2, <4>2, <4>3, <4>4
        <4> QED BY <4>5 DEF Launched, LaunchHonest
      <3>5. CASE ~r.portable /\ LauncherName(r.profile, r.decl) \notin DOMAIN launchers[r.venv]
        <4>1. launch' = NoLaunch
          BY <2>2, <3>1, <3>5 DEF Execute
        <4> QED BY <4>1 DEF Launched, LaunchHonest, NoLaunch
      <3> QED BY <3>3, <3>4, <3>5
    <2> QED BY <2>1, <2>2
  <1>4. RunInv' /\ \A p \in Processes : Undisturbed(p)'
    BY <1>1, QuietStep
  <1> QED BY <1>2, <1>3, <1>4 DEF SetupInv, StoreInv

-----------------------------------------------------------------------------
(* The invariant, and what it gives. *)

\* A consumer that setup has not met satisfies the invariant.
LEMMA Initially == Init => SetupInv
  <1> SUFFICES ASSUME Init PROVE SetupInv
    OBVIOUS
  <1>1. venv \in [Venvs -> {"absent", "partial", "bare", "mixed"} \cup Packages]
    BY DEF Init
  <1>2. launchers \in [Venvs -> UNION {[S -> Declarations] : S \in SUBSET (Profiles \X Declarations)}]
        /\ \A v \in Venvs : DOMAIN launchers[v] = {}
    <2>1. launchers = [v \in Venvs |-> << >>] /\ DOMAIN << >> = {}
      BY DEF Init
    <2>2. << >> \in [{} -> Declarations]
      OBVIOUS
    <2>3. << >> \in UNION {[S -> Declarations] : S \in SUBSET (Profiles \X Declarations)}
      BY <2>2
    <2> QED BY <2>1, <2>3
  <1>3. /\ registry \in [Profiles -> Declarations] /\ users \subseteq Sided
        /\ able \in [{"credentials", "compounding"} -> BOOLEAN]
        /\ skill = None /\ reports = {} /\ launch = NoLaunch
        /\ op = [p \in Processes |-> Idle]
    BY DEF Init
  <1>4. docs = [d \in Documents |-> IF d \in {Active(h) : h \in users} THEN UsersOwn ELSE None]
    BY DEF Init
  <1>5. ASSUME NEW d \in Documents
        PROVE  docs[d] \in {None, Torn} \cup Shapes /\ (Missing(d) \/ docs[d] \in Content(d))
    <2>1. CASE d \in {Active(h) : h \in users}
      <3>1. PICK h \in users : d = Active(h)
        BY <2>1
      <3>2. docs[d] = UsersOwn /\ UsersOwn \in Content(d)
        BY <1>3, <1>4, <2>1, <3>1, Shaped
      <3> QED BY <3>2, Shaped
    <2>2. CASE d \notin {Active(h) : h \in users}
      BY <1>4, <2>2 DEF Missing
    <2> QED BY <2>1, <2>2
  <1>6. Stored
    BY <1>1, <1>2, <1>3, <1>4, <1>5 DEF Stored
  <1>7. Hooked
    <2>1. ASSUME NEW h \in users PROVE docs[Active(h)] # None /\ HasForeign(docs[Active(h)])
      <3>1. Active(h) \in Documents /\ UsersOwn \in Content(Active(h)) /\ HasForeign(UsersOwn)
        BY <1>3, DocumentKinds, Shaped
      <3>2. docs[Active(h)] = UsersOwn
        BY <1>4, <3>1
      <3> QED BY <3>1, <3>2, NotMissing
    <2> QED BY <2>1 DEF Hooked
  <1>8. NamedFor /\ Launched
    BY <1>2, <1>3 DEF NamedFor, Launched, LaunchHonest, NoLaunch
  <1>9. RunInv
    <2>1. op \in [Processes -> RunRecords] /\ \A p \in Processes : Holding(op[p])
      BY <1>3, IdleHolds
    <2> QED BY <1>3, <2>1, IdleHolds DEF RunInv, Alone
  <1>10. \A p \in Processes : Undisturbed(p)
    BY <1>3, IdleHolds DEF Undisturbed
  <1> QED BY <1>6, <1>7, <1>8, <1>9, <1>10 DEF SetupInv, StoreInv

\* Every step keeps the invariant.
LEMMA StepKeeps ==
    ASSUME SetupInv, [Next]_vars
    PROVE  SetupInv'
  <1>1. ASSUME NEW p \in Processes, Step(p) PROVE SetupInv'
    <2>1. CASE PrepareVenv(p)
      BY <2>1, PrepareVenvKeeps
    <2>2. CASE CreateVenv(p) \/ InstallRuntime(p)
      BY <2>2, CreateVenvKeeps
    <2>3. CASE VerifyExisting(p) \/ VerifyPortable(p)
      BY <2>3, VerifyKeeps
    <2>4. CASE ReadContext(p)
      BY <2>4, ReadContextKeeps
    <2>5. CASE WriteLauncher(p)
      BY <2>5, WriteLauncherKeeps
    <2>6. CASE FindPackage(p)
      BY <2>6, FindPackageKeeps
    <2>7. CASE \E edit \in op[p].left : ReadDocument(p, edit) \/ VerifyDocument(p, edit)
      BY <2>7, ReadDocumentKeeps, VerifyDocumentKeeps
    <2>8. CASE Truncate(p)
      BY <2>8, TruncateKeeps
    <2>9. CASE Fill(p)
      BY <2>9, FillKeeps
    <2>10. CASE BeginVerify(p)
      BY <2>10, BeginVerifyKeeps
    <2>11. CASE ReconcileLock(p)
      BY <2>11, ReconcileLockKeeps
    <2>12. CASE Report(p) \/ Stop(p)
      BY <2>12, ReportKeeps
    <2>13. CASE \E req \in Requests : Begin(p, req)
      BY <2>13, BeginKeeps
    <2>14. CASE \E how \in {"keep", "restore"}, version \in Packages : ApmInstall(p, how, version)
      BY <2>14, ApmInstallKeeps
    <2> QED BY <1>1, <2>1, <2>2, <2>3, <2>4, <2>5, <2>6, <2>7, <2>8, <2>9, <2>10, <2>11, <2>12, <2>13, <2>14 DEF Step
  <1>2. CASE UNCHANGED vars
    <2>1. UNCHANGED <<venv, launchers, docs, skill, outside, reports, launch>> /\ op' = op /\ docs' = docs
          /\ users' = users
      BY <1>2 DEF vars, files, outside
    <2>2. StoreInv'
      BY <2>1, StoreKept DEF SetupInv, StoreInv, Stored
    <2>3. RunInv' /\ \A p \in Processes : Undisturbed(p)'
      BY <2>1, QuietStep DEF SetupInv
    <2> QED BY <2>2, <2>3 DEF SetupInv
  <1>3. CASE (\E q \in Profiles, decl \in Declarations : EditRegistry(q, decl))
             \/ (\E what \in {"credentials", "compounding"} : ChangeReadiness(what))
    BY <1>3, RegistryKeeps
  <1>4. CASE \E how \in {"keep", "restore"}, version \in Packages : InstallByOwner(Consumer, how, version)
    BY <1>4, OwnerKeeps
  <1>5. CASE \E h \in Sided : RestoreActive(h)
    BY <1>5, RestoreActiveKeeps
  <1>6. CASE \E v \in Venvs : RemoveVenv(v)
    BY <1>6, RemoveVenvKeeps
  <1>7. CASE (\E r \in reports, h \in Consumer : Preflight(r, h)) \/ Execute
    BY <1>7, LaunchKeeps
  <1> QED BY <1>1, <1>2, <1>3, <1>4, <1>5, <1>6, <1>7 DEF Next

\* The invariant holds for any number of runs, requests, virtual environments and
\* profiles, however they overlap, stop and are repeated.
THEOREM SetupInvariant == Spec => []SetupInv
  BY Initially, StepKeeps, PTL DEF Spec

\* Every document that is there and whole has the shape that its readers expect,
\* whatever was written by runs that overlap or stop between two writes.
THEOREM SetupTypeCorrect == Spec => []SetupTypeOK
  <1>1. SetupInv => SetupTypeOK
    BY DEF SetupInv, StoreInv, Stored, Launched, RunInv, RunRecords, SetupTypeOK
  <1> QED BY <1>1, SetupInvariant, PTL

\* A run that was alone and reports its hooks ready leaves the descriptor, the
\* registrations, the active documents and the lock with its own commands,
\* whatever earlier runs left half done (_configure_hook_registrations,
\* _update_copilot_lock_hash).
THEOREM ReadyHooksAgree == Spec => []SoloReady
  <1>1. SetupInv => SoloReady
    <2> SUFFICES ASSUME SetupInv, NEW p \in Processes, op[p].outcome = "ready", op[p].alone
                 PROVE  /\ \A e \in Events : docs[Package][e] = (IF Req(p).portable THEN Marker ELSE Req(p).venv)
                        /\ \A h \in Req(p).targets :
                              /\ \A e \in Events : docs[Owned(h)][e] = Command(p, h, e)
                              /\ h \in Sided /\ docs[Active(h)] # None => \A e \in Events :
                                    OnlyEntry(docs[Active(h)][e], Command(p, h, e), Req(p).venv)
                        /\ "copilot" \in Req(p).targets => docs[Lock].hash = docs[Owned("copilot")]
      BY DEF SoloReady
    <2>1. PICK o : o = op[p] /\ o \in RunRecords /\ Holding(o) /\ o.req = Req(p)
      BY DEF SetupInv, RunInv, Req
    <2>2. o.stage = "idle" /\ o.req \in Requests /\ Finished(o)
      BY <2>1 DEF Holding, Finished
    <2>3. Agreed(p) /\ Described(p)
      BY DEF SetupInv, Undisturbed
    <2>4. Made(o) = Edits(Req(p).targets) /\ \A x : Pending(o, x) = docs[x]
      BY <2>1, <2>2 DEF Made, Pending
    <2>5. \A x \in Edits(Req(p).targets) : InPlace(p, x, docs[x[1]])
      BY <2>1, <2>2, <2>3, <2>4 DEF Agreed
    <2>6. \A e \in Events : docs[Package][e] = (IF Req(p).portable THEN Marker ELSE Req(p).venv)
      <3>1. PICK x : x = <<Package, "all">>
        OBVIOUS
      <3>2. x \in Edits(Req(p).targets) /\ x[1] = Package
        BY <2>1, <2>2, <3>1, EditsOf, Requested
      <3>3. InPlace(p, x, docs[Package])
        BY <2>5, <3>2
      <3>4. x[1] \notin ActiveDocs /\ x[1] \notin Registrations
        BY <3>2, DocumentKinds
      <3> QED BY <3>2, <3>3, <3>4 DEF InPlace, Applied
    <2>7. op[p].decl \in Declarations
      BY <2>1, <2>2 DEF Holding
    <2>8. ASSUME NEW h \in Req(p).targets
          PROVE  /\ \A e \in Events : docs[Owned(h)][e] = Command(p, h, e)
                 /\ h \in Sided /\ docs[Active(h)] # None => \A e \in Events :
                       OnlyEntry(docs[Active(h)][e], Command(p, h, e), Req(p).venv)
      BY <2>1, <2>2, <2>5, <2>7, MadeHolds
    <2>9. "copilot" \in Req(p).targets => docs[Lock].hash = docs[Owned("copilot")]
      BY <2>1, <2>2, <2>3 DEF Described
    <2> QED BY <2>6, <2>8, <2>9
  <1> QED BY <1>1, SetupInvariant, PTL

\* A run that was alone is refused at the hooks only for a reason that can be seen
\* in the consumer; a kill between two documents, or two events, never is one.
THEOREM RefusalsAreExplained == Spec => []RefusalExplained
  <1>1. SetupInv => RefusalExplained
    BY DEF SetupInv, Undisturbed, Justified, RefusalExplained, Hooking
  <1> QED BY <1>1, SetupInvariant, PTL

\* The hooks that a user wrote stay in every active document that can be read,
\* whatever runs overlap or stop (_normalize_active_hook keeps what it does not
\* recognise).
THEOREM UserHooksStay == Spec => []UserHooksKept
  <1>1. SetupInv => UserHooksKept
    BY DEF SetupInv, StoreInv, Hooked, HasForeign, Missing, UserHooksKept
  <1> QED BY <1>1, SetupInvariant, PTL

\* What a launch through an environment launcher loads is what its preflight
\* compared, whoever writes launchers next to it meanwhile.
THEOREM LaunchesAreHonest == Spec => []LaunchHonest
  <1>1. SetupInv => LaunchHonest
    BY DEF SetupInv, StoreInv, Launched
  <1> QED BY <1>1, SetupInvariant, PTL

=============================================================================
