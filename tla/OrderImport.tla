---------------------------- MODULE OrderImport ----------------------------
(***************************************************************************)
(* Order files uploaded by people: the Shopee order report                 *)
(* (modules/imports/shopee-orders.ts), of a tenant or of a platform        *)
(* account, and the conversion CSV of the reconciliation desk              *)
(* (app/admin/reconciliation/actions.ts).  A file is ingested row by row,  *)
(* outside any transaction, by a function that can be killed; its outcome, *)
(* the case for what was quarantined and the audit line are one last       *)
(* transaction.  A tenant's file is known by its hash: the same bytes are  *)
(* answered with the import there is.  Before anything is ingested the     *)
(* file is put under a lock in the evidence bucket, and recorded           *)
(* (modules/evidence/service.ts).                                          *)
(***************************************************************************)
EXTENDS Integers, FiniteSets

CONSTANTS
    Uploads,       \* calls of the import, each with the file it carries
    Files,
    FileRows,      \* the rows of each file
    FileKind,      \* "TENANT", "PLATFORM" or "DESK" for each file
    ItemOf,        \* the natural key of each row: order, item, model
    Uncompleted,   \* rows whose order status is not the completed one
    Malformed,     \* rows without order or item, with a commission that does not add
                   \* up, a sub id of no known form, or a date or number of none
    Clicked        \* rows whose click belongs to the provider account

ASSUME ImportAssumption ==
  \A f \in Files : FileKind[f] \in {"TENANT", "PLATFORM", "DESK"} /\ IsFiniteSet(FileRows[f])

VARIABLES
    upload,        \* the calls: step, file, rows to do, outcome counts
    tenantImport,  \* TenantConversionImport by file: NoImport, or its status
    orders,        \* external identities: the rows that have a conversion
    importCase,    \* ReconciliationCase of an upload: "OPEN" or "RESOLVED"
    stored,        \* the evidence bucket: uploads whose file is in it
    evidence       \* RawEvidence rows: uploads whose file is recorded

importVars == <<upload, tenantImport, orders, importCase, stored, evidence>>
evidenceVars == <<stored, evidence>>

NoImport == "NO_IMPORT"
NoRow == "NO_ROW"
Waiting == [at |-> "WAITING"]

ImportInit ==
    /\ upload = [u \in Uploads |-> Waiting]
    /\ tenantImport = [f \in Files |-> NoImport]
    /\ orders = {}
    /\ importCase = [u \in Uploads |-> "NONE"]
    /\ stored = {}
    /\ evidence = {}

\* Rows the parser lets through and rows it quarantines.  The desk's CSV has no
\* such rule: pending and rejected rows are ingested as they are.
PayableRows(f) == IF FileKind[f] = "DESK" THEN FileRows[f]
              ELSE FileRows[f] \ Uncompleted

\* parseShopeeOrdersCsv: a row that would be paid and is malformed, or names the
\* same item of the same order as another, refuses the whole file.
Parses(f) ==
    FileKind[f] # "DESK" =>
       /\ PayableRows(f) \cap Malformed = {}
       /\ \A r, s \in PayableRows(f) : ItemOf[r] = ItemOf[s] => r = s

Running(f) == [at |-> "ROWS", file |-> f, todo |-> PayableRows(f), row |-> NoRow,
               found |-> FALSE, accepted |-> 0, duplicates |-> 0,
               quarantined |-> Cardinality(FileRows[f] \ PayableRows(f))]

PutObject(u) == stored' = stored \cup {u}

\* The file is parsed and put in the bucket, unless the bucket refuses it.
ReceiveFile(u, f) ==
    /\ upload[u] = Waiting
    /\ \/ /\ Parses(f)
          /\ upload' = [upload EXCEPT ![u] = [at |-> "STORED", file |-> f]]
          /\ PutObject(u)
       \/ /\ upload' = [upload EXCEPT ![u] = [at |-> "REFUSED", file |-> f]]
          /\ UNCHANGED stored
    /\ UNCHANGED <<tenantImport, orders, importCase, evidence>>

\* The same bytes of the same tenant are answered with the import they made.
Replayed(f) == FileKind[f] = "TENANT" /\ tenantImport[f] # NoImport

\* The object is recorded, and the file looked up by its hash.
RecordEvidence(u) ==
    LET f == upload[u].file
    IN  /\ upload[u].at = "STORED"
        /\ evidence' = evidence \cup {u}
        /\ upload' = [upload EXCEPT ![u] =
              IF Replayed(f) THEN [at |-> "ANSWERED", file |-> f, as |-> tenantImport[f]]
              ELSE [at |-> "CHECKED", file |-> f]]
        /\ UNCHANGED <<tenantImport, orders, importCase, stored>>

\* A row without a click of this account refuses the whole report.
RefuseFile(u) ==
    /\ upload[u].at = "CHECKED"
    /\ FileKind[upload[u].file] # "DESK"
    /\ ~(PayableRows(upload[u].file) \subseteq Clicked)
    /\ upload' = [upload EXCEPT ![u] = [at |-> "REFUSED", file |-> upload[u].file]]
    /\ UNCHANGED <<tenantImport, orders, importCase, evidenceVars>>

\* Whether the key (tenant, hash) is still free when the import is created.
KeyFree(f) == tenantImport[f] = NoImport

\* SyncRun and, for a tenant, TenantConversionImport: the second of two uploads
\* of one file fails on the unique key and leaves its run behind.
OpenImport(u) ==
    LET f == upload[u].file
    IN  /\ upload[u].at = "CHECKED"
        /\ FileKind[f] \in {"TENANT", "PLATFORM"}
        /\ PayableRows(f) \subseteq Clicked
        /\ IF FileKind[f] = "PLATFORM" \/ KeyFree(f)
           THEN /\ upload' = [upload EXCEPT ![u] = Running(f)]
                /\ tenantImport' = IF FileKind[f] = "TENANT"
                                   THEN [tenantImport EXCEPT ![f] = "RUNNING"]
                                   ELSE tenantImport
           ELSE /\ upload' = [upload EXCEPT ![u] = [at |-> "REFUSED", file |-> f]]
                /\ UNCHANGED tenantImport
        /\ UNCHANGED <<orders, importCase, evidenceVars>>

\* The desk's file: a run, no import record and no look at the clicks.
OpenDeskImport(u) ==
    LET f == upload[u].file
    IN  /\ upload[u].at = "CHECKED"
        /\ FileKind[f] = "DESK"
        /\ upload' = [upload EXCEPT ![u] = Running(f)]
        /\ UNCHANGED <<tenantImport, orders, importCase, evidenceVars>>

-----------------------------------------------------------------------------
(* One row: ingestConversion looks its identity up, then writes. *)

LookUpRow(u, r) ==
    /\ upload[u].at = "ROWS"
    /\ upload[u].row = NoRow
    /\ r \in upload[u].todo
    /\ upload' = [upload EXCEPT ![u].row = r, ![u].found = (r \in orders)]
    /\ UNCHANGED <<tenantImport, orders, importCase, evidenceVars>>

\* The row the upload is at ends: counted in the given column.
RowDone(u, column) ==
    upload' = [upload EXCEPT ![u].todo = @ \ {upload[u].row},
                             ![u].row = NoRow, ![u].found = FALSE,
                             ![u][column] = @ + 1]

\* A row known already is a duplicate (or a revision); a new one makes a
\* conversion, unless another upload made it meanwhile.
WriteRow(u) ==
    /\ upload[u].at = "ROWS"
    /\ upload[u].row # NoRow
    /\ \/ /\ upload[u].found
          /\ RowDone(u, "duplicates")
          /\ UNCHANGED orders
       \/ /\ ~upload[u].found
          /\ upload[u].row \notin orders
          /\ RowDone(u, "accepted")
          /\ orders' = orders \cup {upload[u].row}
    /\ UNCHANGED <<tenantImport, importCase, evidenceVars>>

\* Mutant: the catch counts the row among the duplicates.
SkipRow(u) ==
    /\ upload[u].at = "ROWS"
    /\ upload[u].row # NoRow
    /\ RowDone(u, "duplicates")
    /\ UNCHANGED <<tenantImport, orders, importCase, evidenceVars>>

\* The ingestion throws: the unique identity is taken, the evidence store or the
\* database fails, a revision conflicts.  The row is quarantined.
QuarantineRow(u) ==
    /\ upload[u].at = "ROWS"
    /\ upload[u].row # NoRow
    /\ RowDone(u, "quarantined")
    /\ UNCHANGED <<tenantImport, orders, importCase, evidenceVars>>

-----------------------------------------------------------------------------
ImportStatus(job) ==
    IF job.quarantined = 0 THEN "SUCCEEDED"
    ELSE IF job.accepted + job.duplicates > 0 THEN "PARTIAL"
    ELSE "FAILED"

\* Quarantined rows open a case with their codes.
CaseOf(job) == IF job.quarantined > 0 THEN "OPEN" ELSE "NONE"

\* The last transaction: run, health, import record, case and audit line.
CloseImport(u) ==
    LET job == upload[u]
    IN  /\ job.at = "ROWS"
        /\ job.row = NoRow
        /\ job.todo = {}
        /\ FileKind[job.file] # "DESK"
        /\ upload' = [upload EXCEPT ![u] = [at |-> "CLOSED", file |-> job.file,
                                            as |-> ImportStatus(job)]]
        /\ tenantImport' = IF FileKind[job.file] = "TENANT"
                           THEN [tenantImport EXCEPT ![job.file] = ImportStatus(job)]
                           ELSE tenantImport
        /\ importCase' = [importCase EXCEPT ![u] = CaseOf(job)]
        /\ UNCHANGED <<orders, evidenceVars>>

\* The desk's last transaction.
CloseDeskImport(u) ==
    LET job == upload[u]
    IN  /\ job.at = "ROWS"
        /\ job.row = NoRow
        /\ job.todo = {}
        /\ FileKind[job.file] = "DESK"
        /\ upload' = [upload EXCEPT ![u] = [at |-> "CLOSED", file |-> job.file,
                                            as |-> ImportStatus(job)]]
        /\ importCase' = [importCase EXCEPT ![u] = CaseOf(job)]
        /\ UNCHANGED <<tenantImport, orders, evidenceVars>>

\* The function is killed: rows are in, the run and the import stay RUNNING.
ImportDies(u) ==
    /\ upload[u].at \in {"STORED", "CHECKED", "ROWS"}
    /\ upload' = [upload EXCEPT ![u] =
          [at |-> "DEAD", file |-> upload[u].file, opened |-> upload[u].at = "ROWS"]]
    /\ UNCHANGED <<tenantImport, orders, importCase, evidenceVars>>

\* resolveReconciliationAction: a reviewer closes the case, whatever it says.
ResolveImportCase(u) ==
    /\ importCase[u] # "NONE"
    /\ importCase' = [importCase EXCEPT ![u] = "RESOLVED"]
    /\ UNCHANGED <<upload, tenantImport, orders, evidenceVars>>

ImportNext ==
    \E u \in Uploads :
       \/ \E f \in Files : ReceiveFile(u, f)
       \/ RecordEvidence(u)
       \/ RefuseFile(u)
       \/ OpenImport(u)
       \/ OpenDeskImport(u)
       \/ \E r \in UNION {FileRows[f] : f \in Files} : LookUpRow(u, r)
       \/ WriteRow(u)
       \/ QuarantineRow(u)
       \/ CloseImport(u)
       \/ CloseDeskImport(u)
       \/ ImportDies(u)
       \/ ResolveImportCase(u)

ImportSpec == ImportInit /\ [][ImportNext]_importVars

-----------------------------------------------------------------------------
(* Properties. *)

Outcomes == {"SUCCEEDED", "PARTIAL", "FAILED"}

ImportTypeOK ==
    /\ \A u \in Uploads :
          upload[u].at \in {"WAITING", "STORED", "CHECKED", "ANSWERED", "REFUSED", "ROWS",
                            "CLOSED", "DEAD"}
    /\ tenantImport \in [Files -> {NoImport, "RUNNING"} \cup Outcomes]
    /\ orders \subseteq UNION {FileRows[f] : f \in Files}
    /\ importCase \in [Uploads -> {"NONE", "OPEN", "RESOLVED"}]
    /\ stored \subseteq Uploads /\ evidence \subseteq Uploads

\* What verifyEvidenceIntegrity looks for: an object for every row.
EvidenceIsIntact == evidence \subseteq stored

\* What an import says of its file is so: every row of a file that SUCCEEDED has
\* its conversion, whatever an import left out has a case somebody can see, also
\* when uploads of the same orders ran into each other, and the file that says so
\* can be read again (imports/shopee-orders.ts:297-551, evidence/service.ts:117-170).
ImportsTellTheTruth ==
  /\ EvidenceIsIntact
  /\ \A u \in Uploads : upload[u].at = "CLOSED" =>
       /\ u \in evidence
       /\ upload[u].as = "SUCCEEDED" => FileRows[upload[u].file] \subseteq orders
       /\ ~(FileRows[upload[u].file] \subseteq orders) => importCase[u] # "NONE"
=============================================================================
