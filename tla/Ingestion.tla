------------------------------ MODULE Ingestion ------------------------------
(***************************************************************************)
(* Uploads (src/lib/dataops/ingestion/asset-ingest-service.ts): bytes are  *)
(* deduplicated by checksum, a batch is recorded, the bytes are stored and *)
(* the raw asset inserted, each in a step that may fail.  And inbound      *)
(* webhooks (src/lib/integrations/webhook-ingest-service.ts): the event is *)
(* stored first, then handled by the connection's adapter, then settled.   *)
(***************************************************************************)
EXTENDS Naturals, Sequences, FiniteSets, SequencesExt

CONSTANTS
    Uploads,        \* calls of ingestUpload
    Checksums,      \* contents an upload may carry
    Webhooks,       \* calls of ingestWebhook
    NoAsset

ASSUME IngestAssumption == NoAsset \notin Nat

VARIABLES
    rawAssets,      \* db.rawAssets, in insertion order
    batches,        \* batches, by upload, of those recorded "completed"
    blobs,          \* bytes on disk, by upload
    uploading,      \* each upload: step, checksum, force, asset returned
    uploadOverlap,  \* checksums with two unforced uploads under way at once
    webhookRow,     \* status of each webhook call's event row
    webhookStep     \* where each webhook call stands

ingestVars == <<rawAssets, batches, blobs, uploading, uploadOverlap, webhookRow, webhookStep>>

uploadVars == <<rawAssets, batches, blobs, uploading, uploadOverlap>>
webhookVars == <<webhookRow, webhookStep>>

IngestInit ==
    /\ rawAssets = << >>
    /\ batches = {}
    /\ blobs = {}
    /\ uploading \in [Uploads -> {[step |-> "start", checksum |-> k, force |-> f, asset |-> NoAsset] :
                                    k \in Checksums, f \in BOOLEAN}]
    /\ uploadOverlap = {}
    /\ webhookRow = [w \in Webhooks |-> "none"]
    /\ webhookStep = [w \in Webhooks |-> "start"]

UploadOver == {"start", "returned", "rejected"}

MoveUpload(u, step, asset) ==
    LET k == uploading[u].checksum
        rivals == {v \in Uploads \ {u} : uploading[v].checksum = k /\ uploading[v].step \notin UploadOver}
    IN  /\ uploading' = [uploading EXCEPT ![u].step = step, ![u].asset = asset]
        /\ uploadOverlap' = IF rivals = {} THEN uploadOverlap ELSE uploadOverlap \cup {k}
        /\ UNCHANGED webhookVars

AssetsOf(k) == {i \in DOMAIN rawAssets : rawAssets[i].checksum = k}

\* The duplicate is answered (once its audit event is in), or a batch comes next.
FindAsset(u) ==
    LET existing == AssetsOf(uploading[u].checksum) IN
    /\ uploading[u].step = "start"
    /\ IF ~uploading[u].force /\ existing # {}
       THEN MoveUpload(u, "auditing", CHOOSE i \in existing : \A j \in existing : i <= j)
       ELSE MoveUpload(u, "batching", NoAsset)
    /\ UNCHANGED <<rawAssets, batches, blobs>>

\* The batch row says "completed" before anything of it is stored.
InsertBatch(u) ==
    /\ uploading[u].step = "batching"
    /\ batches' = batches \cup {u}
    /\ MoveUpload(u, "storing", NoAsset)
    /\ UNCHANGED <<rawAssets, blobs>>

WriteBytes(u) ==
    /\ uploading[u].step = "storing"
    /\ blobs' = blobs \cup {u}
    /\ MoveUpload(u, "inserting", NoAsset)
    /\ UNCHANGED <<rawAssets, batches>>

InsertAsset(u) ==
    /\ uploading[u].step = "inserting"
    /\ rawAssets' = Append(rawAssets, [checksum |-> uploading[u].checksum, batch |-> u, blob |-> u])
    /\ MoveUpload(u, "auditing", Len(rawAssets) + 1)
    /\ UNCHANGED <<batches, blobs>>

AuditUpload(u) ==
    /\ uploading[u].step = "auditing"
    /\ MoveUpload(u, "returned", uploading[u].asset)
    /\ UNCHANGED <<rawAssets, batches, blobs>>

\* Mutated: a failed step is taken for the last one.
UploadFailsQuietly(u) ==
    /\ uploading[u].step \in {"batching", "storing", "inserting", "auditing"}
    /\ MoveUpload(u, "returned", uploading[u].asset)
    /\ UNCHANGED <<rawAssets, batches, blobs>>

UploadFails(u) ==
    /\ uploading[u].step \in {"batching", "storing", "inserting", "auditing"}
    /\ MoveUpload(u, "rejected", NoAsset)
    /\ UNCHANGED <<rawAssets, batches, blobs>>

-----------------------------------------------------------------------------
MoveWebhook(w, step, row) ==
    /\ webhookStep' = [webhookStep EXCEPT ![w] = step]
    /\ webhookRow' = [webhookRow EXCEPT ![w] = row]
    /\ UNCHANGED uploadVars

\* The raw event is stored whether or not a connection matches.
StoreWebhook(w) ==
    /\ webhookStep[w] = "start"
    /\ MoveWebhook(w, "received", "received")

\* No connection or no handler, the adapter's verdict, or its exception: the outcome is
\* written; the audit event follows.
SettleWebhook(w) ==
    /\ webhookStep[w] = "received"
    /\ \E status \in {"ignored", "processed", "failed"} : MoveWebhook(w, "settled", status)

WebhookFails(w) ==
    /\ webhookStep[w] \in {"start", "received", "settled"}
    /\ MoveWebhook(w, "rejected", webhookRow[w])

AuditWebhook(w) ==
    /\ webhookStep[w] = "settled"
    /\ MoveWebhook(w, "returned", webhookRow[w])

IngestNext ==
    \/ \E u \in Uploads :
         FindAsset(u) \/ InsertBatch(u) \/ WriteBytes(u) \/ InsertAsset(u) \/ AuditUpload(u) \/ UploadFails(u)
    \/ \E w \in Webhooks : StoreWebhook(w) \/ SettleWebhook(w) \/ WebhookFails(w) \/ AuditWebhook(w)

IngestSpec == IngestInit /\ [][IngestNext]_ingestVars

-----------------------------------------------------------------------------
IngestTypeOK ==
    /\ \A i \in DOMAIN rawAssets : rawAssets[i].checksum \in Checksums
    /\ batches \subseteq Uploads /\ blobs \subseteq Uploads
    /\ \A u \in Uploads :
         /\ uploading[u].step \in UploadOver \cup {"batching", "storing", "inserting", "auditing"}
         /\ uploading[u].asset = NoAsset \/ uploading[u].asset \in DOMAIN rawAssets
    /\ uploadOverlap \subseteq Checksums
    /\ \A w \in Webhooks :
         /\ webhookRow[w] \in {"none", "received", "ignored", "processed", "failed"}
         /\ webhookStep[w] \in {"start", "received", "settled", "returned", "rejected"}

\* Content is ingested once and failures leave no half-told story.  Unforced uploads of the
\* same bytes share one asset unless two of them overlapped, whichever of the earlier ones
\* failed half-way; what a caller gets back is an asset with its content, batch and bytes;
\* a completed batch without an asset belongs to an upload under way or rejected; and a
\* returned webhook call left its event settled (ingestUpload, asset-ingest-service.ts:35;
\* ingestWebhook, webhook-ingest-service.ts:70).
IngestionAddsUp ==
    /\ \A k \in Checksums \ uploadOverlap :
         Cardinality({i \in AssetsOf(k) : ~uploading[rawAssets[i].batch].force}) <= 1
    /\ \A u \in Uploads : uploading[u].step = "returned" =>
         LET a == uploading[u].asset IN
         /\ a # NoAsset /\ rawAssets[a].checksum = uploading[u].checksum
         /\ rawAssets[a].batch \in batches /\ rawAssets[a].blob \in blobs
    /\ \A u \in batches \ {rawAssets[i].batch : i \in DOMAIN rawAssets} :
         uploading[u].step \in {"storing", "inserting", "rejected"}
    /\ \A w \in Webhooks :
         webhookStep[w] = "returned" => webhookRow[w] \in {"ignored", "processed", "failed"}

=============================================================================
