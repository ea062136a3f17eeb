---------------------------- MODULE DocumentStore ----------------------------
(***************************************************************************)
(* One collection of the document store (src/lib/lawrence-core/db): the    *)
(* in-memory map, whose update merges in one step, and the Postgres table, *)
(* whose update reads the row, merges and writes without a lock.  Ids come *)
(* from a per-process counter (lawrence-core/utils/ids.ts), which restarts *)
(* with the process.                                                       *)
(***************************************************************************)
EXTENDS Naturals, FiniteSets

CONSTANTS
    StoreClients,       \* callers; each patches a field of its own
    MaxRows,            \* bound on inserts
    MaxPatches          \* bound on the patches of one client

ASSUME StoreAssumption == {MaxRows, MaxPatches} \subseteq Nat

VARIABLES
    backend,        \* "memory" or "pg"
    idCounter,
    rows,           \* id -> row; a row is a field per client
    client,         \* each client: step, row, row read
    written,        \* last patch each client was told is in each row
    collided,       \* rows two updates of which overlapped
    reborn          \* the process was restarted

storeVars == <<backend, idCounter, rows, client, written, collided, reborn>>

RowIds == 1 .. MaxRows

EmptyRow == [c \in StoreClients |-> 0]

IdleClient == [step |-> "idle", row |-> 1, read |-> EmptyRow, patches |-> 0]

StoreInit ==
    /\ backend \in {"memory", "pg"}
    /\ idCounter = 0
    /\ rows = << >>
    /\ client = [c \in StoreClients |-> IdleClient]
    /\ written = [c \in StoreClients |-> [i \in RowIds |-> 0]]
    /\ collided = {}
    /\ reborn = FALSE

WithRow(i, row) == [j \in DOMAIN rows \cup {i} |-> IF j = i THEN row ELSE rows[j]]

\* insert: the next id; a row that has it already is replaced.
InsertRow ==
    /\ idCounter < MaxRows
    /\ idCounter' = idCounter + 1
    /\ rows' = WithRow(idCounter + 1, EmptyRow)
    /\ UNCHANGED <<backend, client, written, collided, reborn>>

NextPatch(c) == client[c].patches + 1

\* update: throws without the row; the pg backend has only read it so far.
BeginUpdate(c, i) ==
    /\ client[c].step = "idle" /\ client[c].patches < MaxPatches
    /\ i \in DOMAIN rows
    /\ IF backend = "memory"
       THEN /\ rows' = WithRow(i, [rows[i] EXCEPT ![c] = NextPatch(c)])
            /\ written' = [written EXCEPT ![c][i] = NextPatch(c)]
            /\ client' = [client EXCEPT ![c].patches = @ + 1]
       ELSE /\ client' = [client EXCEPT ![c] = [step |-> "merging", row |-> i, read |-> rows[i],
                                                patches |-> @.patches]]
            /\ UNCHANGED <<rows, written>>
    /\ UNCHANGED <<backend, idCounter, collided, reborn>>

\* Mutated: the patch replaces the row.
ReplaceRow(c) ==
    LET i == client[c].row IN
    /\ client[c].step = "merging"
    /\ rows' = IF i \in DOMAIN rows THEN WithRow(i, [EmptyRow EXCEPT ![c] = NextPatch(c)]) ELSE rows
    /\ written' = [written EXCEPT ![c][i] = NextPatch(c)]
    /\ client' = [client EXCEPT ![c] = [IdleClient EXCEPT !.patches = NextPatch(c)]]
    /\ UNCHANGED <<backend, idCounter, collided, reborn>>

\* pg: the merged row is written over whatever is there; a row deleted meanwhile stays
\* away, and the caller is told all the same.
FinishUpdate(c) ==
    LET i == client[c].row
        others == {d \in StoreClients \ {c} : client[d].step = "merging" /\ client[d].row = i}
    IN  /\ client[c].step = "merging"
        /\ rows' = IF i \in DOMAIN rows
                   THEN WithRow(i, [client[c].read EXCEPT ![c] = NextPatch(c)]) ELSE rows
        /\ written' = [written EXCEPT ![c][i] = NextPatch(c)]
        /\ client' = [client EXCEPT ![c] = [IdleClient EXCEPT !.patches = NextPatch(c)]]
        /\ collided' = IF others = {} THEN collided ELSE collided \cup {i}
        /\ UNCHANGED <<backend, idCounter, reborn>>

DeleteRow(i) ==
    /\ i \in DOMAIN rows
    /\ rows' = [j \in DOMAIN rows \ {i} |-> rows[j]]
    /\ UNCHANGED <<backend, idCounter, client, written, collided, reborn>>

\* The memory backend's rows end with the process, the counter with both.
RestartStore ==
    /\ ~reborn
    /\ reborn' = TRUE
    /\ idCounter' = 0
    /\ client' = [c \in StoreClients |-> [IdleClient EXCEPT !.patches = client[c].patches]]
    /\ IF backend = "memory"
       THEN rows' = << >> /\ written' = [c \in StoreClients |-> [i \in RowIds |-> 0]]
       ELSE UNCHANGED <<rows, written>>
    /\ UNCHANGED <<backend, collided>>

StoreNext ==
    \/ InsertRow
    \/ \E c \in StoreClients : FinishUpdate(c) \/ \E i \in RowIds : BeginUpdate(c, i)
    \/ \E i \in RowIds : DeleteRow(i)
    \/ RestartStore

StoreSpec == StoreInit /\ [][StoreNext]_storeVars

-----------------------------------------------------------------------------
StoreTypeOK ==
    /\ backend \in {"memory", "pg"}
    /\ DOMAIN rows \subseteq RowIds
    /\ \A i \in DOMAIN rows : rows[i] \in [StoreClients -> 0 .. MaxPatches]
    /\ \A c \in StoreClients : client[c].step \in {"idle", "merging"} /\ client[c].patches <= MaxPatches
    /\ collided \subseteq RowIds

\* A caller that was told its patch is stored can rely on it: patches of different fields
\* by different callers all survive, without end in memory and, on Postgres, unless
\* updates of that row overlapped or a restart let a new row take its id
\* (PgCollection.update, pg-collection.ts:77; id, ids.ts:9).
AcknowledgedPatchesSurvive ==
    \A i \in DOMAIN rows :
      (backend = "memory" \/ (i \notin collided /\ ~reborn)) =>
        \A c \in StoreClients : rows[i][c] = written[c][i]

=============================================================================
