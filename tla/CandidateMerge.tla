---------------------------- MODULE CandidateMerge ----------------------------
(***************************************************************************)
(* Candidate identity resolution: the scan for duplicates and the merge of *)
(* one candidate into another                                              *)
(* (src/lib/domains/recruiting/candidate-identity-service.ts).  A merge    *)
(* reads two rows, moves the edges one by one, backfills the survivor and  *)
(* tombstones the duplicate, each in a write of its own, while other       *)
(* merges and upserts of the same candidates (object-service.ts) go on.    *)
(***************************************************************************)
EXTENDS Naturals, FiniteSets, Sequences, SequencesExt

CONSTANTS
    Candidates,         \* candidate objects, numbered by age
    Identity,           \* candidate -> what it says of itself, by field
    SeedEdges,          \* edge -> [from, to]
    MergeCalls,         \* calls of mergeCandidates
    Imports,            \* upserts by external key: import -> [of, fields, status]
    NoValue

Fields == {"email", "profileUrl", "fullName", "phone"}

\* Candidates, what their edges join, and what is said of them.
Ends == Candidates \cup UNION {{SeedEdges[e].from, SeedEdges[e].to} : e \in DOMAIN SeedEdges}

Values ==
    {NoValue} \cup {Identity[c][f] : c \in Candidates, f \in Fields}
    \cup UNION {{Imports[i].fields[f] : f \in DOMAIN Imports[i].fields} : i \in DOMAIN Imports}

\* A name names one thing; only a merge makes a tombstone.
ASSUME MergeAssumption ==
    /\ Candidates \subseteq Nat /\ IsFiniteSet(Candidates) /\ NoValue \notin Ends
    /\ MergeCalls \cap DOMAIN Imports = {} /\ Candidates \cap DOMAIN Imports = {}
    /\ \A c \in Candidates : Identity[c] \in [Fields -> Values]
    /\ IsFiniteSet(DOMAIN SeedEdges) /\ SeedEdges \in [DOMAIN SeedEdges -> [from : Ends, to : Ends]]
    /\ \A i \in DOMAIN Imports : /\ Imports[i].of \in Candidates /\ DOMAIN Imports[i].fields \subseteq Fields
                                 /\ Imports[i].status \in {NoValue, "new", "active"}

VARIABLES
    candidate,          \* the candidate rows
    edges,              \* db.ontologyLinks
    merge,              \* each merge call's progress and locals
    importing,          \* each import's progress and the row it found
    entangled,          \* whether two of these calls were ever under way at once
    misdirected         \* whether a call worked on a tombstone it took for a candidate

mergeVars == <<candidate, edges, merge, importing, entangled, misdirected>>

Gone == [from |-> NoValue, to |-> NoValue]

\* A row's provenance is one imports entry, named after the candidate or the import.
SeedRow(c) ==
    [status |-> "active", into |-> NoValue, props |-> Identity[c], aliases |-> {}, imports |-> <<c>>]

IdleMerge == [at |-> "idle", survivor |-> NoValue, duplicate |-> NoValue, sRow |-> NoValue, dRow |-> NoValue,
              todo |-> << >>]

IdleImport == [at |-> "idle", row |-> NoValue]

-----------------------------------------------------------------------------
Same(v, w) == v # NoValue /\ v = w

\* compare, on normalised values; phone numbers are alike when equal.
Strength(p, q) ==
    IF Same(p.email, q.email) \/ Same(p.profileUrl, q.profileUrl) THEN "strong"
    ELSE IF Same(p.fullName, q.fullName) THEN IF Same(p.phone, q.phone) THEN "medium" ELSE "weak"
    ELSE "none"

\* scanDuplicateClusters: the older of a likely pair survives.
DuplicateClusters(rows) ==
    {pair \in Candidates \X Candidates :
       /\ pair[1] < pair[2]
       /\ \A c \in {pair[1], pair[2]} : rows[c].status # "merged"
       /\ Strength(rows[pair[1]].props, rows[pair[2]].props) \in {"strong", "medium"}}

MergeInit ==
    /\ candidate = [c \in Candidates |-> SeedRow(c)]
    /\ edges = SeedEdges
    /\ merge = [m \in MergeCalls |-> IdleMerge]
    /\ importing = [i \in DOMAIN Imports |-> IdleImport]
    /\ entangled = FALSE
    /\ misdirected = FALSE

\* A call that ended, at its answer or cut off.
Ended(m, at) ==
    [merge EXCEPT ![m] = [IdleMerge EXCEPT !.at = at, !.survivor = merge[m].survivor,
                                           !.duplicate = merge[m].duplicate]]

MergeRests(m) == merge[m].at \in {"idle", "chosen", "returned", "cut"}
ImportRests(i) == importing[i].at \in {"idle", "returned", "cut"}

\* Every step of call x after the first store access notes who else is under way.
Entangle(x) ==
    entangled' = \/ entangled
                 \/ \E m \in MergeCalls \ {x} : ~MergeRests(m)
                 \/ \E i \in DOMAIN Imports \ {x} : ~ImportRests(i)

\* A reviewer picks a pair off a scan; the rows may be others by the time it is merged.
ChoosePair(m) ==
    /\ merge[m].at = "idle"
    /\ \E pair \in DuplicateClusters(candidate) :
         \E backwards \in BOOLEAN :
           merge' = [merge EXCEPT ![m] = [IdleMerge EXCEPT
                       !.at = "chosen",
                       !.survivor = IF backwards THEN pair[2] ELSE pair[1],
                       !.duplicate = IF backwards THEN pair[1] ELSE pair[2]]]
    /\ UNCHANGED <<candidate, edges, importing, entangled, misdirected>>

ReadSurvivor(m) ==
    /\ merge[m].at = "chosen"
    /\ merge' = [merge EXCEPT ![m].at = "reading", ![m].sRow = candidate[merge[m].survivor]]
    /\ Entangle(m)
    /\ UNCHANGED <<candidate, edges, importing, misdirected>>

\* A duplicate that is merged already is left alone; the survivor's status is not asked.
ReadDuplicate(m) ==
    LET row == candidate[merge[m].duplicate] IN
    /\ merge[m].at = "reading"
    /\ IF row.status = "merged"
       THEN /\ merge' = Ended(m, "returned")
            /\ UNCHANGED misdirected
       ELSE /\ merge' = [merge EXCEPT ![m].at = "listing", ![m].dRow = row]
            /\ misdirected' = (misdirected \/ merge[m].sRow.status = "merged")
    /\ Entangle(m)
    /\ UNCHANGED <<candidate, edges, importing>>

\* The edges are listed once, with both their ends.
ListEdges(m) ==
    LET d == merge[m].duplicate
        touching == {e \in DOMAIN edges : d \in {edges[e].from, edges[e].to}}
        listed == SetToSeq({[edge |-> e, from |-> edges[e].from, to |-> edges[e].to] : e \in touching})
    IN  /\ merge[m].at = "listing"
        /\ merge' = [merge EXCEPT ![m].at = "moving", ![m].todo = listed]
        /\ Entangle(m)
        /\ UNCHANGED <<candidate, edges, importing, misdirected>>

\* An end of a listed edge, where the merge puts it.
Moved(m, end) == IF end = merge[m].duplicate THEN merge[m].survivor ELSE end

\* An edge between the two is deleted; updating one that is gone throws.
MoveEdge(m) ==
    LET l == Head(merge[m].todo)
        from == Moved(m, l.from)
        to == Moved(m, l.to)
    IN  /\ merge[m].at = "moving" /\ merge[m].todo # << >>
        /\ IF from # to /\ edges[l.edge] = Gone
           THEN /\ merge' = Ended(m, "cut")
                /\ UNCHANGED edges
           ELSE /\ edges' = [edges EXCEPT ![l.edge] = IF from = to THEN Gone ELSE [from |-> from, to |-> to]]
                /\ merge' = [merge EXCEPT ![m].todo = Tail(@)]
        /\ Entangle(m)
        /\ UNCHANGED <<candidate, importing, misdirected>>

\* Mutated: the duplicate's own aliases are forgotten.
BackfilledByKey(sRow, dRow, key) ==
    [props |-> [f \in Fields |-> IF sRow.props[f] = NoValue THEN dRow.props[f] ELSE sRow.props[f]],
     aliases |-> sRow.aliases \cup {key},
     imports |-> sRow.imports \o dRow.imports,
     into |-> IF sRow.into = NoValue THEN dRow.into ELSE sRow.into]

\* The survivor's properties win; aliases and imports of both are kept. Both rows are
\* those read at the start.
Backfilled(sRow, dRow, key) ==
    [props |-> [f \in Fields |-> IF sRow.props[f] = NoValue THEN dRow.props[f] ELSE sRow.props[f]],
     aliases |-> sRow.aliases \cup dRow.aliases \cup {key},
     imports |-> sRow.imports \o dRow.imports,
     into |-> IF sRow.into = NoValue THEN dRow.into ELSE sRow.into]

Backfill(m) ==
    LET filled == Backfilled(merge[m].sRow, merge[m].dRow, merge[m].duplicate) IN
    /\ merge[m].at = "moving" /\ merge[m].todo = << >>
    /\ candidate' = [candidate EXCEPT ![merge[m].survivor] =
                       [@ EXCEPT !.props = filled.props, !.aliases = filled.aliases,
                                 !.imports = filled.imports, !.into = filled.into]]
    /\ merge' = [merge EXCEPT ![m].at = "backfilled"]
    /\ Entangle(m)
    /\ UNCHANGED <<edges, importing, misdirected>>

Tombstone(m) ==
    /\ merge[m].at = "backfilled"
    /\ candidate' = [candidate EXCEPT ![merge[m].duplicate] =
                       [merge[m].dRow EXCEPT !.status = "merged", !.into = merge[m].survivor]]
    /\ merge' = Ended(m, "returned")
    /\ Entangle(m)
    /\ UNCHANGED <<edges, importing, misdirected>>

\* The process stops, or a store call throws, between two steps of a merge.
CutOff(m) ==
    /\ ~MergeRests(m)
    /\ merge' = Ended(m, "cut")
    /\ UNCHANGED <<candidate, edges, importing, entangled, misdirected>>

-----------------------------------------------------------------------------
\* upsertObject finds a candidate by its own key, a tombstone too, never by an alias ...
FindByKey(i) ==
    LET row == candidate[Imports[i].of] IN
    /\ importing[i].at = "idle"
    /\ importing' = [importing EXCEPT ![i] = [at |-> "found", row |-> row]]
    /\ misdirected' = (misdirected \/ row.status = "merged")
    /\ Entangle(i)
    /\ UNCHANGED <<candidate, edges, merge>>

\* ... and writes what it found with the given properties and one more ledger entry.
WriteImport(i) ==
    LET given == Imports[i]
        row == importing[i].row
    IN  /\ importing[i].at = "found"
        /\ candidate' = [candidate EXCEPT ![given.of] =
             [row EXCEPT !.status = IF given.status = NoValue THEN @ ELSE given.status,
                         !.props = [f \in Fields |-> IF f \in DOMAIN given.fields THEN given.fields[f] ELSE @[f]],
                         !.imports = IF Contains(@, i) THEN @ ELSE Append(@, i)]]
        /\ importing' = [importing EXCEPT ![i] = [IdleImport EXCEPT !.at = "returned"]]
        /\ Entangle(i)
        /\ UNCHANGED <<edges, merge, misdirected>>

MergeNext ==
    \/ \E m \in MergeCalls :
         \/ ChoosePair(m) \/ ReadSurvivor(m) \/ ReadDuplicate(m) \/ ListEdges(m) \/ MoveEdge(m)
         \/ Backfill(m) \/ Tombstone(m) \/ CutOff(m)
    \/ \E i \in DOMAIN Imports : FindByKey(i) \/ WriteImport(i)

MergeSpec == MergeInit /\ [][MergeNext]_mergeVars

-----------------------------------------------------------------------------
MergeTypeOK ==
    /\ \A c \in Candidates :
         /\ candidate[c].status \in {"active", "merged", "new"}
         /\ candidate[c].into \in Candidates \cup {NoValue}
         /\ candidate[c].aliases \subseteq Candidates
         /\ candidate[c].imports \in Seq(Candidates \cup DOMAIN Imports)
    /\ \A m \in MergeCalls : merge[m].at \in {"idle", "chosen", "reading", "listing", "moving",
                                                "backfilled", "returned", "cut"}
    /\ \A i \in DOMAIN Imports : importing[i].at \in {"idle", "found", "returned"}
    /\ entangled \in BOOLEAN /\ misdirected \in BOOLEAN

Tombstones == {c \in Candidates : candidate[c].status = "merged"}

\* Where the pointers of tombstones lead.
Home(o) ==
    LET after[n \in 0 .. Cardinality(Candidates)] ==
          IF n = 0 THEN o
          ELSE IF after[n - 1] \in Tombstones THEN candidate[after[n - 1]].into ELSE after[n - 1]
    IN  after[Cardinality(Candidates)]

\* What a candidate's imports told of a field, and what was ever said of it. An import
\* may give no value.
Told(c, f) ==
    {Imports[i].fields[f] : i \in {i \in DOMAIN Imports : /\ Imports[i].of = c /\ importing[i].at = "returned"
                                                         /\ f \in DOMAIN Imports[i].fields}}

Said(c, f) == {Identity[c][f]} \cup Told(c, f)

Own(c, f) == IF Told(c, f) = {} THEN {Identity[c][f]} ELSE Told(c, f)

Provenance(c) == {c} \cup {i \in DOMAIN Imports : Imports[i].of = c /\ importing[i].at = "returned"}

\* No call is under way, and a merge that was cut off has been repeated to its end.
Reconciled ==
    /\ \A m \in MergeCalls : MergeRests(m)
    /\ \A i \in DOMAIN Imports : ImportRests(i)
    /\ \A m \in MergeCalls : merge[m].at = "cut" =>
         \/ candidate[merge[m].duplicate].into = merge[m].survivor
         \/ candidate[merge[m].survivor].into = merge[m].duplicate

\* Merging loses nothing and can be repeated: unless calls overlapped or worked on a
\* tombstone, and once every merge that was cut off has been repeated in either
\* direction, each tombstone leads to a living candidate, which has every edge of those
\* merged into it except those among them; its own value for a field if it has one, else
\* one of theirs, and none only if nobody said any or an import cleared it; all their
\* keys as aliases, and all their provenance, once but for merges that were repeated
\* (mergeCandidates, candidate-identity-service.ts:163).
MergesLoseNothing ==
    Reconciled /\ ~entangled /\ ~misdirected /\ (\E c \in Candidates : candidate[c] # SeedRow(c)) =>
      /\ \A c \in Candidates : Home(c) \notin Tombstones
      /\ \A e \in DOMAIN edges :
           LET from == Home(SeedEdges[e].from) to == Home(SeedEdges[e].to)
           IN  edges[e] = IF from = to THEN Gone ELSE [from |-> from, to |-> to]
      /\ \A c \in Candidates \ Tombstones :
           LET all == {d \in Candidates : Home(d) = c}
               sources == UNION {Provenance(d) : d \in all}
           IN  /\ candidate[c].aliases \cup {c} = all
               /\ \A f \in Fields :
                    LET value == candidate[c].props[f] IN
                    /\ NoValue \notin Own(c, f) => value \in Own(c, f)
                    /\ value # NoValue => \E d \in all : value \in Said(d, f)
                    /\ value = NoValue => \/ \A d \in all : Said(d, f) = {NoValue}
                                         \/ \E d \in all : NoValue \in Told(d, f)
               /\ ToSet(candidate[c].imports) = sources
               /\ (\A m \in MergeCalls : merge[m].at # "cut") =>
                    Len(candidate[c].imports) = Cardinality(sources)

=============================================================================
