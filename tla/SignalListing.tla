--------------------------- MODULE SignalListing ---------------------------
(***************************************************************************)
(* Paged listing of the signal inbox while it is being written to: the     *)
(* four inventory passes around the reading of every body, the snapshot    *)
(* they are bound to, and the continuation that joins one page to the next *)
(* (application/signals.py list_signal_result, infrastructure/signals.py   *)
(* inventory_signals and _inventory, application/pagination.py).           *)
(***************************************************************************)
EXTENDS SignalCapture

CONSTANTS
    BucketOrder, NameOrder,  \* the places of buckets and names in the order of paths
    Kind,       \* bytes -> "own", "foreign" (of another workspace) or "malformed"
    Queries,    \* the sets of buckets that may be selected
    Limit,      \* rows of a page
    None        \* Python's None

ASSUME ListingAssumption ==
    /\ IsFiniteSet(Buckets) /\ BucketOrder \in Injection(Buckets, Nat)
    /\ IsFiniteSet(Names) /\ NameOrder \in Injection(Names, Nat)
    /\ Kind \in [Contents -> {"own", "foreign", "malformed"}]
    /\ Queries \subseteq (SUBSET Buckets) \ {{}}
    /\ Limit \in Nat \ {0}
    /\ None \notin Buckets

VARIABLES
    parent,   \* bucket -> the time stamp of the directory that holds it, or would
    lst,      \* the listing being made
    client,   \* the reader that follows continuations
    moments   \* history: the selected inbox, at every moment of the call

listingVars == <<captureVars, parent, lst, client, moments>>

Nothing == [p \in {} |-> None]
NoScan == [dirs |-> Nothing, files |-> Nothing]

IdleListing == [phase |-> "idle", query |-> {}, resumed |-> FALSE, pass |-> 0, left |-> {},
                at |-> None, todo |-> {}, seen |-> NoScan, base |-> NoScan, bodies |-> Nothing]

ListingInit ==
    /\ CaptureInit
    /\ parent = [b \in Buckets |-> 0]
    /\ lst = IdleListing
    /\ client = [token |-> None, rows |-> <<>>, complete |-> FALSE, views |-> {}]
    /\ moments = {}

-----------------------------------------------------------------------------
(* The inbox as a reader would see it at one moment, and its rows. *)

Visible(q) == {p \in q \X Names : Lookup(p[1], p[2]) # 0}
View(q) == [p \in Visible(q) |-> file[Lookup(p[1], p[2])].content]

\* The path p is before r among sorted paths.
Ahead(p, r) ==
    \/ BucketOrder[p[1]] < BucketOrder[r[1]]
    \/ p[1] = r[1] /\ NameOrder[p[2]] < NameOrder[r[2]]

Sorted(paths) ==
    [k \in 1..Cardinality(paths) |->
        CHOOSE p \in paths : Cardinality({r \in paths : Ahead(r, p)}) = k - 1]

\* Signals of other workspaces are counted and skipped; what cannot be parsed
\* is a row as well, an unresolved one.
Rows(bodies) ==
    LET listed == Sorted({p \in DOMAIN bodies : Kind[bodies[p]] # "foreign"})
    IN [k \in DOMAIN listed |-> <<listed[k], bodies[listed[k]]>>]

-----------------------------------------------------------------------------
(* One call of signal list. *)

\* The function f, with v for k.
With(f, k, v) == [x \in DOMAIN f \cup {k} |-> IF x = k THEN v ELSE f[x]]

BeginListing(q, resumed) ==
    /\ lst.phase = "idle"
    /\ resumed => client.token # None
    /\ lst' = [IdleListing EXCEPT !.phase = "scan", !.query = q, !.resumed = resumed,
                                  !.pass = 1, !.left = q]

\* Any error ends the call without an answer; the reader keeps its cursor.
Refuse == lst' = IdleListing

\* Which directory the path of a bucket names, and its time stamp.  The identities
\* of the directories above it are noted as well; that of the one that holds the
\* bucket tells a bucket that is still missing from one that is missing again.
DirectoryOf(b) == IF place[b] = 0 THEN <<0, parent[b]>> ELSE <<place[b], dir[place[b]].stamp>>

\* Mutant: a missing bucket is listed like any other.
OpenedAlways(b) == b
\* A missing bucket has no files, and is part of the inventory as missing.
Opened(b) == IF place[b] = 0 THEN None ELSE b

\* The next bucket is opened, its identity taken and its names listed.
OpenListed(b) ==
    /\ lst.phase = "scan" /\ lst.at = None /\ b \in lst.left
    /\ \A x \in lst.left : BucketOrder[b] <= BucketOrder[x]
    /\ lst' = [lst EXCEPT !.seen.dirs = With(@, b, DirectoryOf(b)),
                          !.left = @ \ {b},
                          !.at = Opened(b),
                          !.todo = {n \in Names : Lookup(b, n) # 0}]

\* os.stat of the next name in the directory that was opened.
StatListed(n) ==
    LET i == dir[lst.seen.dirs[lst.at][1]].entry[n] IN
    /\ lst.phase = "scan" /\ lst.at # None /\ n \in lst.todo
    /\ \A x \in lst.todo : NameOrder[n] <= NameOrder[x]
    /\ IF i = 0 THEN Refuse
       ELSE lst' = [lst EXCEPT !.todo = @ \ {n},
                               !.seen.files = With(@, <<lst.at, n>>, Identity(i))]

\* The directory has not changed since, and its path still leads to it.
CloseListed ==
    /\ lst.phase = "scan" /\ lst.at # None /\ lst.todo = {}
    /\ IF DirectoryOf(lst.at) = lst.seen.dirs[lst.at]
       THEN lst' = [lst EXCEPT !.at = None]
       ELSE Refuse

LastPass == 4

\* Mutant: the passes are not compared.
AgreesAlways(seen, base) == TRUE
Agrees(seen, base) == seen = base

\* Two passes before the bodies and two after them, all with one result.
EndPass ==
    /\ lst.phase = "scan" /\ lst.at = None /\ lst.left = {}
    /\ IF lst.pass > 1 /\ ~Agrees(lst.seen, lst.base) THEN Refuse
       ELSE lst' = [lst EXCEPT !.base = lst.seen, !.seen = NoScan, !.pass = @ + 1,
                               !.left = lst.query,
                               !.todo = IF lst.pass = 2 THEN DOMAIN lst.seen.files ELSE {},
                               !.phase = CASE lst.pass = 2 -> "read"
                                           [] lst.pass = LastPass -> "reply"
                                           [] OTHER -> "scan"]

\* read_bytes of the next file: its identity holds from the open to the last read.
ReadBody(p) ==
    LET i == Lookup(p[1], p[2]) IN
    /\ lst.phase = "read" /\ p \in lst.todo
    /\ \A r \in lst.todo : ~Ahead(r, p)
    /\ IF i = 0 THEN Refuse
       ELSE lst' = [lst EXCEPT !.todo = @ \ {p}, !.bodies = With(@, p, file[i].content)]

EndRead ==
    /\ lst.phase = "read" /\ lst.todo = {}
    /\ lst' = [lst EXCEPT !.phase = IF lst.pass > LastPass THEN "reply" ELSE "scan"]

Snapshot == <<lst.base, lst.bodies>>

\* Mutant: a cursor of an older snapshot is accepted.
AcceptedStale(token, rows) ==
    token.query = lst.query /\ token.offset < Len(rows)

\* decode_cursor and check_offset.
Accepted(token, rows) ==
    token.query = lst.query /\ token.snapshot = Snapshot /\ token.offset < Len(rows)

Reply ==
    LET rows == Rows(lst.bodies)
        from == IF lst.resumed THEN client.token.offset ELSE 0
        end == IF from + Limit < Len(rows) THEN from + Limit ELSE Len(rows) IN
    /\ lst.phase = "reply"
    /\ lst.resumed => Accepted(client.token, rows)
    /\ client' = [token |-> IF end < Len(rows)
                            THEN [query |-> lst.query, snapshot |-> Snapshot, offset |-> end]
                            ELSE None,
                  rows |-> (IF lst.resumed THEN client.rows ELSE <<>>)
                               \o SubSeq(rows, from + 1, end),
                  complete |-> end = Len(rows),
                  views |-> moments]
    /\ lst' = IdleListing

Listing ==
    \/ \E q \in Queries, resumed \in BOOLEAN : BeginListing(q, resumed) /\ UNCHANGED client
    \/ (\E b \in lst.left : OpenListed(b)) /\ UNCHANGED client
    \/ (\E n \in lst.todo : StatListed(n) \/ ReadBody(n)) /\ UNCHANGED client
    \/ (CloseListed \/ EndPass \/ EndRead) /\ UNCHANGED client
    \/ Reply
    \/ lst.phase # "idle" /\ Refuse /\ UNCHANGED client

-----------------------------------------------------------------------------
(* The inbox: captures, other writers and one reader. *)

Observe ==
    moments' = IF lst'.phase = "idle" THEN {} ELSE moments \cup {View(lst.query)'}

\* A directory changes when a bucket is made in it or moved away.
Hold == parent' = [b \in Buckets |-> IF place'[b] = place[b] THEN parent[b] ELSE stamp']

InboxNext ==
    /\ \/ Listing /\ UNCHANGED captureVars
       \/ ((\E c \in Sessions : Session(c)) \/ OtherWriter) /\ UNCHANGED <<lst, client>>
       \/ Crash /\ Refuse /\ UNCHANGED client
    /\ Hold /\ Observe

InboxSpec == ListingInit /\ [][InboxNext]_listingVars

-----------------------------------------------------------------------------
(* Properties. *)

\* The bucket being listed is selected and was open, and what was read is of
\* selected paths.
ListingTypeOK ==
    /\ lst.phase \in {"idle", "scan", "read", "reply"}
    /\ lst.query \in Queries \cup {{}} /\ lst.pass \in 0..LastPass + 1
    /\ lst.left \subseteq lst.query
    /\ lst.at # None => lst.at \in lst.query /\ lst.seen.dirs[lst.at][1] \in DOMAIN dir
    /\ DOMAIN lst.bodies \subseteq lst.query \X Names
    /\ Range(lst.bodies) \subseteq Contents
    /\ client.token # None => client.token.offset \in 1..Len(client.rows) /\ ~client.complete
    /\ Range(client.rows) \subseteq (Buckets \X Names) \X Contents

\* A listing that is about to answer holds the inbox as it was, all of it at
\* one moment of the call, whatever was captured, edited, drained or moved
\* between its many calls: an answer mixes no two states of the inbox.
PageTrue == lst.phase = "reply" => lst.bodies \in moments

\* Pages joined by continuations, over any number of calls with writers in
\* between, are exactly the rows of the inbox at one moment of the last call:
\* none is missing, repeated or of an older inbox, malformed ones included.
ChainTrue == client.complete => \E m \in client.views : client.rows = Rows(m)
=============================================================================
