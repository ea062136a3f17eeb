------------------------------ MODULE Retention ------------------------------
(***************************************************************************)
(* Retention jobs (src/lib/security/retention-service.ts) over the expired *)
(* objects of one type, concurrent with each other and with upserts of the *)
(* same objects (dataops/ontology/object-service.ts).  A job lists once    *)
(* and acts on one object at a time; an upsert, a redaction and a review   *)
(* flag read the whole properties and write them back.                     *)
(***************************************************************************)
EXTENDS Naturals, Sequences, FiniteSets

CONSTANTS
    ExpiredObjects,     \* ids of the objects past the cutoff, in order
    RetentionJobs,      \* calls of runRetentionJob
    Upserts             \* upserts of one of them

VARIABLES
    kept,           \* each object: stored, archived, and its properties
    job,            \* each job: row status, step, action, dry run, listed, next, properties read
    upsert,         \* each upsert: step, object, row read, what it names
    unsettled,      \* objects written between the read and the write of another call
    renamed         \* fields of objects an upsert named since a job archived or redacted them

retentionVars == <<kept, job, upsert, unsettled, renamed>>

Properties == [redacted : BOOLEAN, flagged : BOOLEAN]

Untouched == [redacted |-> FALSE, flagged |-> FALSE]

ObjectIds == {ExpiredObjects[i] : i \in DOMAIN ExpiredObjects}

ASSUME RetentionAssumption == ExpiredObjects \in Seq(ObjectIds)

\* What an upsert names: a status, and properties other than the review flag.
UpsertInputs == [status : {"none", "archived", "other"}, properties : BOOLEAN]

NamesNothing == [status |-> "none", properties |-> FALSE]

RetentionActions == {"archive", "redact", "delete", "review"}

RetentionInit ==
    /\ kept = [o \in ObjectIds |-> [stored |-> TRUE, archived |-> FALSE, properties |-> Untouched]]
    /\ job = [j \in RetentionJobs |->
               [status |-> "none", step |-> "start", action |-> "archive", dryRun |-> FALSE,
                listed |-> << >>, next |-> 1, read |-> Untouched]]
    /\ upsert = [u \in Upserts |-> [step |-> "start", object |-> ExpiredObjects[1],
                                   row |-> [stored |-> TRUE, archived |-> FALSE, properties |-> Untouched],
                                   input |-> NamesNothing]]
    /\ unsettled = {}
    /\ renamed = {}

\* A write of o by a call lands while another call holds what it read of o.
Unsettles(o, holders) == unsettled' = IF holders = {} THEN unsettled ELSE unsettled \cup {o}

HoldingJobs(o) == {j \in RetentionJobs : job[j].step = "writing" /\ job[j].listed[job[j].next] = o}
HoldingUpserts(o) == {u \in Upserts : upsert[u].step = "writing" /\ upsert[u].object = o}

\* The policy is missing or inactive, or the job row is inserted and the objects listed.
StartJob(j, action, dryRun) ==
    /\ job[j].step = "start"
    /\ \/ job' = [job EXCEPT ![j].status = "blocked", ![j].step = "ended"]
       \/ job' = [job EXCEPT ![j].status = "running", ![j].step = "listing",
                             ![j].action = action, ![j].dryRun = dryRun]
    /\ UNCHANGED <<kept, upsert, unsettled, renamed>>

\* The expired objects that are there still, in order.
StillStored ==
    LET upTo[n \in 0 .. Len(ExpiredObjects)] ==
            IF n = 0 THEN << >>
            ELSE IF kept[ExpiredObjects[n]].stored THEN Append(upTo[n - 1], ExpiredObjects[n])
            ELSE upTo[n - 1]
    IN  upTo[Len(ExpiredObjects)]

ListExpired(j) ==
    /\ job[j].step = "listing"
    /\ job' = [job EXCEPT ![j].step = "acting", ![j].listed = StillStored]
    /\ UNCHANGED <<kept, upsert, unsettled, renamed>>

Current(j) == job[j].listed[job[j].next]

Acting(j) == job[j].step = "acting" /\ job[j].next \in DOMAIN job[j].listed

Treated(j) == [job EXCEPT ![j].step = "acting", ![j].next = @ + 1, ![j].read = Untouched]

\* Mutated: an object that throws counts as treated.
JobThrowsPast(j) ==
    /\ Acting(j) \/ job[j].step = "writing"
    /\ job' = Treated(j)
    /\ UNCHANGED <<kept, upsert, unsettled, renamed>>

\* An update of a row that is gone throws, and so may any audit: the job row stays running.
JobThrows(j) ==
    /\ Acting(j) \/ job[j].step \in {"listing", "writing"}
    /\ job' = [job EXCEPT ![j].step = "stuck"]
    /\ UNCHANGED <<kept, upsert, unsettled, renamed>>

SkipInDryRun(j) ==
    /\ Acting(j) /\ job[j].dryRun
    /\ job' = Treated(j)
    /\ UNCHANGED <<kept, upsert, unsettled, renamed>>

\* delete and archive act in one step; deleting a row that is gone does nothing.
DeleteOrArchive(j) ==
    LET o == Current(j) IN
    /\ Acting(j) /\ ~job[j].dryRun /\ job[j].action \in {"delete", "archive"}
    /\ job[j].action = "archive" => kept[o].stored
    /\ kept' = IF job[j].action = "delete" THEN [kept EXCEPT ![o].stored = FALSE]
               ELSE [kept EXCEPT ![o].archived = TRUE]
    /\ job' = Treated(j)
    /\ Unsettles(o, HoldingJobs(o) \cup HoldingUpserts(o))
    /\ renamed' = IF job[j].action = "archive" THEN renamed \ {<<o, "status">>} ELSE renamed
    /\ UNCHANGED upsert

\* redact and review read the properties first; redact passes over an object that is gone.
ReadProperties(j) ==
    LET o == Current(j) IN
    /\ Acting(j) /\ ~job[j].dryRun /\ job[j].action \in {"redact", "review"}
    /\ job' = IF ~kept[o].stored /\ job[j].action = "redact" THEN Treated(j)
              ELSE [job EXCEPT ![j].step = "writing", ![j].read = kept[o].properties]
    /\ UNCHANGED <<kept, upsert, unsettled, renamed>>

\* redactObject with the rule "*" overwrites every field, an earlier flag included.
NewProperties(j) ==
    IF job[j].action = "redact" THEN [redacted |-> TRUE, flagged |-> FALSE]
    ELSE [job[j].read EXCEPT !.flagged = TRUE]

WriteProperties(j) ==
    LET o == Current(j) IN
    /\ job[j].step = "writing"
    /\ kept[o].stored
    /\ kept' = [kept EXCEPT ![o].properties = NewProperties(j)]
    /\ job' = Treated(j)
    /\ Unsettles(o, (HoldingJobs(o) \ {j}) \cup HoldingUpserts(o))
    /\ renamed' = IF job[j].action = "redact" THEN renamed \ {<<o, "properties">>} ELSE renamed
    /\ UNCHANGED upsert

CompleteJob(j) ==
    /\ job[j].step = "acting" /\ job[j].next > Len(job[j].listed)
    /\ job' = [job EXCEPT ![j].status = "completed", ![j].step = "ended"]
    /\ UNCHANGED <<kept, upsert, unsettled, renamed>>

-----------------------------------------------------------------------------
\* upsertObject of an existing object reads the whole row.
UpsertReads(u, o, input) ==
    /\ upsert[u].step = "start" /\ kept[o].stored
    /\ upsert' = [upsert EXCEPT ![u] = [step |-> "writing", object |-> o, row |-> kept[o],
                                        input |-> input]]
    /\ UNCHANGED <<kept, job, unsettled, renamed>>

\* effStatus and effProperties: what the upsert names over what it read.
Merged(row, input) ==
    [row EXCEPT !.archived = IF input.status = "none" THEN @ ELSE input.status = "archived",
                !.properties.redacted = @ /\ ~input.properties]

NamedFields(input) ==
    {f \in {"status", "properties"} :
       IF f = "status" THEN input.status # "none" ELSE input.properties}

\* Status and properties are written whole; the update of a row that is gone throws.
UpsertWrites(u) ==
    LET o == upsert[u].object IN
    /\ upsert[u].step = "writing"
    /\ kept' = IF kept[o].stored THEN [kept EXCEPT ![o] = Merged(upsert[u].row, upsert[u].input)]
               ELSE kept
    /\ upsert' = [upsert EXCEPT ![u].step = "done"]
    /\ Unsettles(o, HoldingJobs(o) \cup (HoldingUpserts(o) \ {u}))
    /\ renamed' = renamed \cup ({o} \X NamedFields(upsert[u].input))
    /\ UNCHANGED job

RetentionNext ==
    \/ \E j \in RetentionJobs :
         \/ \E action \in RetentionActions, dryRun \in BOOLEAN : StartJob(j, action, dryRun)
         \/ ListExpired(j) \/ JobThrows(j) \/ SkipInDryRun(j) \/ DeleteOrArchive(j)
         \/ ReadProperties(j) \/ WriteProperties(j) \/ CompleteJob(j)
    \/ \E u \in Upserts :
         UpsertWrites(u) \/ \E o \in ObjectIds, input \in UpsertInputs : UpsertReads(u, o, input)

RetentionSpec == RetentionInit /\ [][RetentionNext]_retentionVars

-----------------------------------------------------------------------------
RetentionTypeOK ==
    /\ \A o \in ObjectIds : kept[o].properties \in Properties
    /\ \A j \in RetentionJobs :
         /\ job[j].status \in {"none", "running", "completed", "blocked"}
         /\ job[j].step \in {"start", "listing", "acting", "writing", "stuck", "ended"}
         /\ job[j].next \in 1 .. Len(ExpiredObjects) + 1
    /\ unsettled \subseteq ObjectIds
    /\ renamed \subseteq ObjectIds \X {"status", "properties"}

Finished(j) == job[j].status = "completed" /\ ~job[j].dryRun

ListedBy(j) == {job[j].listed[i] : i \in DOMAIN job[j].listed}

\* What a completed job reports as affected stays that way: no listed object of a delete
\* job is left; an archived object stays archived until a later upsert names its status,
\* and a redacted one redacted until a later upsert names properties of it, unless a call
\* wrote the object while another held what it had read of it (runRetentionJob,
\* retention-service.ts:110, object-service.ts:74).
CompletedRetentionHolds ==
    \A j \in RetentionJobs : Finished(j) =>
      \A o \in ListedBy(j) :
        /\ job[j].action = "delete" => ~kept[o].stored
        /\ kept[o].stored /\ o \notin unsettled =>
             /\ job[j].action = "archive" => kept[o].archived \/ <<o, "status">> \in renamed
             /\ job[j].action = "redact" =>
                  kept[o].properties.redacted \/ <<o, "properties">> \in renamed

NamedArchived(o) ==
    \E u \in Upserts : upsert[u].step = "done" /\ upsert[u].object = o /\ upsert[u].input.status = "archived"

\* Objects change only at the hands of a job that was really run on them: without a
\* running or completed job that is no dry run and listed it, an object is still there as
\* it was, but for what upserts named, even when jobs throw half-way (dry runs and blocked
\* jobs, retention-service.ts:70).
OnlyRealJobsTouch ==
    \A o \in ObjectIds :
      LET touched(action) == \E j \in RetentionJobs :
            /\ job[j].status \in {"running", "completed"} /\ ~job[j].dryRun
            /\ job[j].action = action
            /\ \E i \in 1 .. job[j].next : i \in DOMAIN job[j].listed /\ job[j].listed[i] = o
      IN  /\ ~kept[o].stored => touched("delete")
          /\ kept[o].archived => touched("archive") \/ NamedArchived(o)
          /\ kept[o].properties.redacted => touched("redact")
          /\ kept[o].properties.flagged => touched("review")

\* A retention job's record is true, of what it did and of what it left alone
\* (runRetentionJob, retention-service.ts:62).
RetentionIsTrue == CompletedRetentionHolds /\ OnlyRealJobsTouch

=============================================================================
